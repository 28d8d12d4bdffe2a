------------------------------ MODULE Storage ------------------------------
(***************************************************************************)
(* The life of Media, File and NorFlash objects (media.hpp, file.hpp,      *)
(* file.cpp, norFlash.hpp): the first constructor of each kind initialises *)
(* FileX or LevelX, open() is two kernel calls of which the second can     *)
(* fail, the destructors close what is open.  FileX and LevelX keep lists  *)
(* of what is open; initialising them empties their list.  Also the size a *)
(* media on a NorFlash is formatted with.  Constructors, destructors and   *)
(* mediaFormatSize() assert what they cannot report, and the program stops *)
(* where that does not hold.  Reads, writes and the directory calls move   *)
(* data only.                                                              *)
(***************************************************************************)
EXTENDS Integers

CONSTANTS
    Medias,
    Flashes,
    Files,
    Nobody,
    BlockSectors,   \* the template parameter of the NorFlash
    Blocks,         \* m_storageSize / m_blockSize
    Habits          \* what the application takes care of, see below

AllHabits ==
    {"serialInit",      \* while a constructor initialises, no other call comes between
     "flashOpen"}       \* a NorFlash is open when it is closed, by its destructor, too

ASSUME StorageAssumption ==
    /\ Habits \subseteq AllHabits
    /\ BlockSectors \in 2..122
    /\ Blocks \in Nat /\ Blocks > 1
    /\ Medias \cap Flashes = {}
    /\ Nobody \notin Medias

Objects == Medias \cup Flashes

Kind(x) == IF x \in Medias THEN "media" ELSE "flash"

VARIABLES
    faultTolerant,  \* FX_ENABLE_FAULT_TOLERANT is defined; stays as it is
    flagged,    \* kinds whose m_fileSystemInitialised or m_initialised is set
    life,       \* of each object: "none", "initialising" (its constructor) or "alive"
    open,       \* objects that are open by their own state
    listed,     \* objects in the kernels' lists of what is open
    enabling,   \* objects between the two calls of open()
    on,         \* the media a File object was opened on, Nobody if there is no such object
    handle,     \* Files that are open by their own state
    sized,      \* flashes whose lx_nor_flash_total_blocks the driver has set
    formatted,  \* how many sectors the media on a flash was formatted with
    failed      \* an assertion failed or a pure virtual function was called

apart == <<faultTolerant, sized, formatted>>

vars == <<flagged, life, open, listed, enabling, on, handle, failed, apart>>

TypeOK ==
    /\ faultTolerant \in BOOLEAN
    /\ flagged \subseteq {"media", "flash"}
    /\ life \in [Objects -> {"none", "initialising", "alive"}]
    /\ open \subseteq Objects /\ listed \subseteq Objects /\ enabling \subseteq open
    /\ on \in [Files -> Medias \cup {Nobody}]
    /\ handle \subseteq Files
    /\ sized \subseteq Flashes
    /\ formatted \in [Flashes -> Nat]
    /\ failed \in BOOLEAN

Init ==
    /\ faultTolerant \in BOOLEAN
    /\ flagged = {}
    /\ life = [x \in Objects |-> "none"]
    /\ open = {} /\ listed = {} /\ enabling = {}
    /\ on = [f \in Files |-> Nobody]
    /\ handle = {}
    /\ sized = {}
    /\ formatted = [y \in Flashes |-> 0]
    /\ failed = FALSE

\* The program ends here.
Stops ==
    /\ failed' = TRUE
    /\ UNCHANGED <<flagged, life, open, listed, enabling, on, handle, apart>>

Undisturbed(x) ==
    "serialInit" \in Habits =>
        \A y \in Objects : life[y] = "initialising" => Kind(y) # Kind(x)

\* A call on an object that is there and not inside open().
Calls(x) == ~failed /\ life[x] = "alive" /\ x \notin enabling /\ Undisturbed(x)

-----------------------------------------------------------------------------
(***************************************************************************)
(* Constructors: the flag first, then fx_system_initialize and the time,   *)
(* or lx_nor_flash_initialize.                                             *)
(***************************************************************************)
\* Fault: every constructor initialises.
ConstructUnflagged(x) ==
    /\ ~failed /\ life[x] = "none" /\ Undisturbed(x)
    /\ life' = [life EXCEPT ![x] = "initialising"]
    /\ flagged' = flagged \cup {Kind(x)}
    /\ UNCHANGED <<open, listed, enabling, on, handle, failed, apart>>

Construct(x) ==
    /\ ~failed /\ life[x] = "none" /\ Undisturbed(x)
    /\ life' = [life EXCEPT ![x] = IF Kind(x) \in flagged THEN "alive" ELSE "initialising"]
    /\ flagged' = flagged \cup {Kind(x)}
    /\ UNCHANGED <<open, listed, enabling, on, handle, failed, apart>>

Initialise(x) ==
    /\ ~failed /\ life[x] = "initialising"
    /\ life' = [life EXCEPT ![x] = "alive"]
    /\ listed' = {y \in listed : Kind(y) # Kind(x)}
    /\ UNCHANGED <<flagged, open, enabling, on, handle, failed, apart>>

-----------------------------------------------------------------------------
(***************************************************************************)
(* open(): fx_media_open and fx_fault_tolerant_enable, or                  *)
(* lx_nor_flash_open and lx_nor_flash_extended_cache_enable.  The mode, or *)
(* CacheSectors, decides whether there is a second call.                   *)
(***************************************************************************)
\* DriverCallback::initialise(), which the kernel calls to open a flash, sets its
\* number of blocks.
initialise(x) == sized \cup ({x} \cap Flashes)

\* The kernel refuses what is in its list; other errors come from the driver,
\* before or after its initialisation.
OpenFails(x) ==
    /\ Calls(x)
    /\ sized' \in {sized, initialise(x)}
    /\ UNCHANGED <<faultTolerant, flagged, life, open, listed, enabling, on, handle,
                   formatted, failed>>

Open(x) ==
    /\ Calls(x)
    /\ x \notin listed
    /\ open' = open \cup {x}
    /\ listed' = listed \cup {x}
    /\ enabling' \in {enabling, enabling \cup {x}}
    /\ sized' = initialise(x)
    /\ UNCHANGED <<faultTolerant, flagged, life, on, handle, formatted, failed>>

\* Whatever the second call returns, the object stays open.  Where FileX has no
\* fault tolerance open() asserts that it was not asked for.
Enable(x) ==
    /\ ~failed /\ x \in enabling
    /\ IF x \in Medias /\ ~faultTolerant
       THEN Stops
       ELSE /\ enabling' = enabling \ {x}
            /\ UNCHANGED <<flagged, life, open, listed, on, handle, failed, apart>>

-----------------------------------------------------------------------------
Closed(x) ==
    /\ open' = open \ {x}
    /\ listed' = listed \ {x}
    /\ handle' = {f \in handle : on[f] # x}

\* Media::close(), of a media that is not open, too.  If a write fails the media
\* stays as it is.
CloseMedia(x) ==
    /\ Calls(x) /\ x \in Medias
    /\ Closed(x)
    /\ UNCHANGED <<flagged, life, enabling, on, failed, apart>>

\* Media::abort() closes the media and its files, without writing anything.
Abort(x) ==
    /\ Calls(x) /\ x \in Medias
    /\ Closed(x)
    /\ UNCHANGED <<flagged, life, enabling, on, failed, apart>>

\* lx_nor_flash_close does not look whether the flash is open: what it takes from
\* its list may be another one.
KernelClosesFlash(x) ==
    \/ x \in open /\ Closed(x)
    \/ /\ x \notin open
       /\ \E y \in Flashes : listed' = listed \ {y}
       /\ UNCHANGED <<open, handle>>

CloseFlash(x) ==
    /\ Calls(x) /\ x \in Flashes
    /\ "flashOpen" \in Habits => x \in open
    /\ KernelClosesFlash(x)
    /\ UNCHANGED <<flagged, life, enabling, on, failed, apart>>

(***************************************************************************)
(* Destructors.  The one of Media runs after that of the class derived     *)
(* from it.  If the media is open its close() calls the driver, to write   *)
(* and to end, and driverCallback() is a pure virtual function by then;    *)
(* were it not, an error of the driver would fail the assertion.           *)
(***************************************************************************)
DestroyMedia(x) ==
    /\ Calls(x) /\ x \in Medias
    /\ IF x \in open
       THEN Stops
       ELSE /\ life' = [life EXCEPT ![x] = "none"]
            /\ UNCHANGED <<flagged, open, listed, enabling, on, handle, failed, apart>>

DestroyFlash(x) ==
    /\ Calls(x) /\ x \in Flashes
    /\ "flashOpen" \in Habits => x \in open
    /\ KernelClosesFlash(x)
    /\ life' = [life EXCEPT ![x] = "none"]
    /\ sized' = sized \ {x}
    /\ UNCHANGED <<faultTolerant, flagged, enabling, on, formatted, failed>>

-----------------------------------------------------------------------------
(***************************************************************************)
(* The layout of a NorFlash: each block keeps its first sector for itself. *)
(***************************************************************************)
sectorWords == 128

\* Of a block of b sectors; a bit of freeBitMap for each usable one.
usableSectorsPerBlock(b) == b - 1
freeBitmapWords(b) == (usableSectorsPerBlock(b) - 1) \div 32 + 1
unusedMetadataWordsPerBlock(b) ==
    sectorWords - (3 + freeBitmapWords(b) + usableSectorsPerBlock(b))

\* Fault: no block is kept back.
mediaFormatSectorsOfAll == Blocks * BlockSectors

\* mediaFormatSize() in sectors.
mediaFormatSectors == (Blocks - 1) * BlockSectors

\* Media::format() of x, which is not open, to the mediaFormatSize() of y, which
\* asserts that y has blocks; the driver may fail.
Format(x, y) ==
    /\ Calls(x) /\ x \in Medias /\ x \notin open
    /\ life[y] = "alive"
    /\ IF y \in sized
       THEN /\ formatted' \in {formatted, [formatted EXCEPT ![y] = mediaFormatSectors]}
            /\ UNCHANGED <<faultTolerant, flagged, life, open, listed, enabling, on, handle,
                           sized, failed>>
       ELSE Stops

-----------------------------------------------------------------------------
(***************************************************************************)
(* File::File() asserts that fx_file_open succeeds: it fails for a media   *)
(* that is not open, a file that is not there, an error of the driver.     *)
(***************************************************************************)
OpenFile(f, x) ==
    /\ Calls(x) /\ x \in Medias
    /\ on[f] = Nobody
    /\ \/ /\ x \in open
          /\ on' = [on EXCEPT ![f] = x]
          /\ handle' = handle \cup {f}
          /\ UNCHANGED <<flagged, life, open, listed, enabling, failed, apart>>
       \/ Stops

\* File::~File() asserts that fx_file_close succeeds: it fails for a file that was
\* closed with its media, or by an error of the driver.
DestroyFile(f) ==
    /\ ~failed /\ on[f] # Nobody
    /\ \/ /\ f \in handle
          /\ on' = [on EXCEPT ![f] = Nobody]
          /\ handle' = handle \ {f}
          /\ UNCHANGED <<flagged, life, open, listed, enabling, failed, apart>>
       \/ Stops

Next ==
    \/ \E x \in Objects :
          \/ Construct(x) \/ Initialise(x)
          \/ OpenFails(x) \/ Open(x) \/ Enable(x)
          \/ CloseMedia(x) \/ Abort(x) \/ CloseFlash(x)
          \/ DestroyMedia(x) \/ DestroyFlash(x)
    \/ \E x \in Medias, y \in Flashes : Format(x, y)
    \/ \E f \in Files : DestroyFile(f) \/ \E x \in Medias : OpenFile(f, x)

Spec == Init /\ [][Next]_vars

-----------------------------------------------------------------------------
(***************************************************************************)
(* Properties                                                              *)
(***************************************************************************)

(***************************************************************************)
(* The kernels' lists hold what is open, and only objects that exist: no   *)
(* constructor empties a list in use (media.hpp:161, norFlash.hpp:111), no *)
(* destructor leaves an entry behind, that of a media whose open() failed  *)
(* half-way neither (media.hpp:180-184, 198).  What FileX has open as a    *)
(* file is a File object on an open media, whatever was closed or aborted  *)
(* under it (media.hpp:310-313, file.cpp:7-11).                            *)
(***************************************************************************)
ListsAreTrue ==
    /\ listed = open
    /\ \A x \in listed : life[x] = "alive"
    /\ \A f \in handle : on[f] \in open

(***************************************************************************)
(* A media that is formatted to mediaFormatSize() (norFlash.hpp:123-127)   *)
(* is not larger than the sectors the blocks have for it                   *)
(* (norFlash.hpp:40), unless there are more blocks than sectors in a block.*)
(***************************************************************************)
MediaFits ==
    Blocks <= BlockSectors =>
        \A y \in Flashes : formatted[y] <= Blocks * usableSectorsPerBlock(BlockSectors)
=============================================================================
