--------------------------- MODULE StorageProofs ---------------------------
(***************************************************************************)
(* Any number of medias, flashes and files, of an application with both    *)
(* habits: the kernels' lists say what is open, and a media formatted to   *)
(* mediaFormatSize() fits the flash.                                       *)
(***************************************************************************)
EXTENDS Storage, TLAPS

(***************************************************************************)
(* The invariant.  A constructor that initialises is the first of its kind *)
(* (FirstOfItsKind), which is why the list it empties is empty.            *)
(***************************************************************************)
Flagged == \A x \in Objects : life[x] # "none" => Kind(x) \in flagged

FirstOfItsKind ==
    \A x, y \in Objects :
        life[x] = "initialising" /\ Kind(y) = Kind(x) /\ y # x => life[y] = "none"

Sizes == \A y \in Flashes : formatted[y] \in {0, mediaFormatSectors}

SInv ==
    /\ TypeOK
    /\ ListsAreTrue
    /\ Flagged
    /\ FirstOfItsKind
    /\ Sizes

Careful == Habits = AllHabits

LEMMA FormatSectorsInNat == mediaFormatSectors \in Nat
<1>1. Blocks - 1 \in Nat /\ BlockSectors \in Nat
  BY StorageAssumption
<1> QED BY <1>1 DEF mediaFormatSectors

LEMMA InitSInv == Init => SInv
<1> SUFFICES ASSUME Init PROVE SInv
  OBVIOUS
<1> USE DEF Init
<1>1. TypeOK
  BY DEF TypeOK
<1>2. ListsAreTrue /\ Flagged /\ FirstOfItsKind /\ Sizes
  BY DEF ListsAreTrue, Flagged, FirstOfItsKind, Sizes
<1> QED BY <1>1, <1>2 DEF SInv

LEMMA StopsSInv == ASSUME SInv, Stops PROVE SInv'
BY DEF Stops, apart, SInv, TypeOK, ListsAreTrue, Flagged, FirstOfItsKind, Sizes

-----------------------------------------------------------------------------
LEMMA ConstructSInv ==
  ASSUME Careful, SInv, NEW x \in Objects, Construct(x)
  PROVE  SInv'
<1> USE DEF SInv, Construct, apart
<1>1. Kind(x) \in {"media", "flash"}
  BY DEF Kind
<1>2. TypeOK'
  BY <1>1 DEF TypeOK
<1>3. ListsAreTrue'
  BY DEF ListsAreTrue, TypeOK
<1>4. Flagged'
  BY DEF Flagged, TypeOK
<1>5. FirstOfItsKind'
  <2>1. ASSUME NEW y \in Objects, Kind(y) = Kind(x), life[y] = "initialising"
        PROVE  FALSE
    BY <2>1 DEF Undisturbed, Careful, AllHabits
  <2>2. Kind(x) \notin flagged => \A y \in Objects : Kind(y) = Kind(x) => life[y] = "none"
    BY DEF Flagged
  <2> QED BY <2>1, <2>2 DEF FirstOfItsKind, TypeOK
<1>6. Sizes'
  BY DEF Sizes
<1> QED BY <1>2, <1>3, <1>4, <1>5, <1>6

LEMMA InitialiseSInv ==
  ASSUME SInv, NEW x \in Objects, Initialise(x)
  PROVE  SInv'
<1> USE DEF SInv, Initialise, apart
<1>1. TypeOK'
  BY DEF TypeOK
<1>2. listed' = listed
  BY DEF FirstOfItsKind, ListsAreTrue, TypeOK
<1>3. ListsAreTrue'
  BY <1>2 DEF ListsAreTrue, TypeOK
<1>4. Flagged' /\ FirstOfItsKind' /\ Sizes'
  BY DEF Flagged, FirstOfItsKind, Sizes, TypeOK
<1> QED BY <1>1, <1>3, <1>4

\* Steps that construct, destroy and format nothing.
LEMMA SameObjects ==
  ASSUME SInv, UNCHANGED <<flagged, life, formatted>>
  PROVE  Flagged' /\ FirstOfItsKind' /\ Sizes'
BY DEF SInv, Flagged, FirstOfItsKind, Sizes

LEMMA OpenSInv ==
  ASSUME SInv, NEW x \in Objects, OpenFails(x) \/ Open(x) \/ Enable(x)
  PROVE  SInv'
<1>1. CASE OpenFails(x) \/ Open(x)
  <2> USE <1>1 DEF SInv, OpenFails, initialise, Open, Calls
  <2>1. TypeOK'
    BY ZenonT(30) DEF TypeOK
  <2>2. ListsAreTrue'
    BY DEF ListsAreTrue, TypeOK
  <2> QED BY <2>1, <2>2, SameObjects
<1>2. CASE Enable(x)
  <2>1. CASE Stops
    BY <2>1, StopsSInv
  <2>2. CASE enabling' = enabling \ {x} /\ UNCHANGED <<flagged, life, open, listed, on, handle, failed, apart>>
    BY <2>2, SameObjects DEF apart, SInv, TypeOK, ListsAreTrue
  <2> QED BY <1>2, <2>1, <2>2 DEF Enable
<1> QED BY <1>1, <1>2

LEMMA CloseSInv ==
  ASSUME Careful, SInv, NEW x \in Objects, CloseMedia(x) \/ Abort(x) \/ CloseFlash(x)
  PROVE  SInv'
<1> USE DEF SInv, apart
<1>1. Closed(x) /\ x \notin enabling /\ UNCHANGED <<flagged, life, enabling, on, failed, apart>>
  BY DEF CloseMedia, Abort, CloseFlash, KernelClosesFlash, Calls, Careful, AllHabits
<1>2. TypeOK'
  BY <1>1 DEF Closed, TypeOK
<1>3. ListsAreTrue'
  BY <1>1 DEF Closed, ListsAreTrue
<1> QED BY <1>1, <1>2, <1>3, SameObjects

LEMMA DestroyMediaSInv ==
  ASSUME SInv, NEW x \in Objects, DestroyMedia(x)
  PROVE  SInv'
<1>1. CASE Stops
  BY <1>1, StopsSInv
<1>2. CASE /\ x \notin open
           /\ life' = [life EXCEPT ![x] = "none"]
           /\ UNCHANGED <<flagged, open, listed, enabling, on, handle, failed, apart>>
  BY <1>2 DEF apart, SInv, TypeOK, ListsAreTrue, Flagged, FirstOfItsKind, Sizes
<1> QED BY <1>1, <1>2 DEF DestroyMedia

LEMMA DestroyFlashSInv ==
  ASSUME Careful, SInv, NEW x \in Objects, DestroyFlash(x)
  PROVE  SInv'
<1> USE DEF SInv, DestroyFlash, Calls
<1>1. Closed(x)
  BY DEF KernelClosesFlash, Careful, AllHabits
<1>2. TypeOK'
  BY <1>1 DEF Closed, TypeOK
<1>3. ListsAreTrue'
  BY <1>1 DEF Closed, ListsAreTrue, TypeOK
<1>4. Flagged' /\ FirstOfItsKind' /\ Sizes'
  BY DEF Flagged, FirstOfItsKind, Sizes, TypeOK
<1> QED BY <1>2, <1>3, <1>4

LEMMA FormatSInv ==
  ASSUME SInv, NEW x \in Medias, NEW y \in Flashes, Format(x, y)
  PROVE  SInv'
<1>1. CASE Stops
  BY <1>1, StopsSInv
<1>2. CASE /\ formatted' \in {formatted, [formatted EXCEPT ![y] = mediaFormatSectors]}
           /\ UNCHANGED <<faultTolerant, flagged, life, open, listed, enabling, on, handle,
                          sized, failed>>
  BY <1>2, FormatSectorsInNat
     DEF SInv, TypeOK, ListsAreTrue, Flagged, FirstOfItsKind, Sizes
<1> QED BY <1>1, <1>2 DEF Format

LEMMA FileSInv ==
  ASSUME SInv, NEW f \in Files, (\E x \in Medias : OpenFile(f, x)) \/ DestroyFile(f)
  PROVE  SInv'
<1>1. CASE Stops
  BY <1>1, StopsSInv
<1>2. ASSUME NEW x \in Medias, x \in open, on[f] = Nobody,
             on' = [on EXCEPT ![f] = x], handle' = handle \cup {f},
             UNCHANGED <<flagged, life, open, listed, enabling, failed, apart>>
      PROVE  SInv'
  BY <1>2, SameObjects DEF apart, SInv, TypeOK, ListsAreTrue
<1>3. CASE /\ f \in handle /\ on' = [on EXCEPT ![f] = Nobody] /\ handle' = handle \ {f}
           /\ UNCHANGED <<flagged, life, open, listed, enabling, failed, apart>>
  BY <1>3, SameObjects DEF apart, SInv, TypeOK, ListsAreTrue
<1> QED BY <1>1, <1>2, <1>3 DEF OpenFile, DestroyFile

LEMMA NextSInv == ASSUME Careful, SInv, [Next]_vars PROVE SInv'
<1>1. CASE Next
  BY <1>1, ConstructSInv, InitialiseSInv, OpenSInv, CloseSInv, DestroyMediaSInv,
     DestroyFlashSInv, FormatSInv, FileSInv DEF Next
<1>2. CASE UNCHANGED vars
  BY <1>2 DEF vars, apart, SInv, TypeOK, ListsAreTrue, Flagged, FirstOfItsKind, Sizes
<1> QED BY <1>1, <1>2

-----------------------------------------------------------------------------
(* Every variable keeps its type.                                           *)
THEOREM TypeCorrect == ASSUME Careful PROVE Spec => []TypeOK
<1>1. SInv => TypeOK BY DEF SInv
<1> QED BY <1>1, InitSInv, NextSInv, PTL DEF Spec

(* FileX and LevelX list exactly the objects that are open, and these       *)
(* exist; what FileX has open as a file is on an open media.                *)
THEOREM ListsStayTrue == ASSUME Careful PROVE Spec => []ListsAreTrue
<1>1. SInv => ListsAreTrue BY DEF SInv
<1> QED BY <1>1, InitSInv, NextSInv, PTL DEF Spec

(* The sectors mediaFormatSize() counts are those the blocks can hold just  *)
(* as long as there are no more blocks than sectors in a block: each block  *)
(* keeps one sector, and one block is kept back (norFlash.hpp:42, 127).     *)
THEOREM FormatSizeIsExact ==
    mediaFormatSectors <= Blocks * usableSectorsPerBlock(BlockSectors)
        <=> Blocks <= BlockSectors
<1>1. Blocks \in Int /\ BlockSectors \in Int
  BY StorageAssumption
<1>2. /\ mediaFormatSectors = Blocks * BlockSectors - BlockSectors
      /\ Blocks * usableSectorsPerBlock(BlockSectors) = Blocks * BlockSectors - Blocks
  BY <1>1 DEF mediaFormatSectors, usableSectorsPerBlock
<1>3. Blocks * BlockSectors \in Int
  BY <1>1
<1> QED BY <1>1, <1>2, <1>3

(* A media formatted to that size is not larger than its flash.             *)
THEOREM FormattedMediaFits == ASSUME Careful PROVE Spec => []MediaFits
<1>1. SInv => MediaFits
  <2> SUFFICES ASSUME SInv, Blocks <= BlockSectors, NEW y \in Flashes
               PROVE  formatted[y] <= Blocks * usableSectorsPerBlock(BlockSectors)
    BY DEF MediaFits
  <2>1. mediaFormatSectors <= Blocks * usableSectorsPerBlock(BlockSectors)
    BY FormatSizeIsExact
  <2>2. 0 <= mediaFormatSectors /\ mediaFormatSectors \in Int
    BY FormatSectorsInNat
  <2>3. Blocks * usableSectorsPerBlock(BlockSectors) \in Int
    BY StorageAssumption DEF usableSectorsPerBlock
  <2> QED BY <2>1, <2>2, <2>3 DEF SInv, Sizes
<1> QED BY <1>1, InitSInv, NextSInv, PTL DEF Spec

(* The first sector of a block has room for its metadata: a bit and a word  *)
(* for each usable sector, three words, and no negative rest                *)
(* (norFlash.hpp:42-54).                                                    *)
THEOREM MetadataFits ==
    /\ usableSectorsPerBlock(BlockSectors) <= 32 * freeBitmapWords(BlockSectors)
    /\ unusedMetadataWordsPerBlock(BlockSectors) >= 0
BY StorageAssumption
   DEF usableSectorsPerBlock, freeBitmapWords, unusedMetadataWordsPerBlock, sectorWords
=============================================================================
