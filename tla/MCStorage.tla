----------------------------- MODULE MCStorage -----------------------------
(***************************************************************************)
(* Instance of Storage for TLC: two medias, two flashes of four blocks and *)
(* two files.                                                              *)
(***************************************************************************)
EXTENDS Storage, TLC
CONSTANTS m1, m2, n1, n2, f1, f2
TheMedias == {m1, m2}
TheFlashes == {n1, n2}
TheFiles == {f1, f2}
Alike == Permutations(TheMedias) \cup Permutations(TheFlashes) \cup Permutations(TheFiles)
=============================================================================
