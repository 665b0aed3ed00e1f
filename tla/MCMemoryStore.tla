---------------------------- MODULE MCMemoryStore ----------------------------
(* One endpoint, which a reload may drop and bring back: keys have nothing in
   common but the lock. *)
EXTENDS MemoryStore, TLC

CONSTANTS core, a1, a2, a3, i1, i2

MCKeys == {core}
MCArrays == {a1, a2, a3}
MCInserters == {i1, i2}
MCConfigurations == {MCKeys, {}}

\* Page 3 of size 7 does not fit a word of sixteen values.
MCPageNumbers == {0, 1, 2, 3}
MCPageSizes == {0, 1, 7}

\* Which free array is taken makes no difference, nor who inserts.
Symmetry == Permutations(MCArrays) \cup Permutations(MCInserters)
=============================================================================
