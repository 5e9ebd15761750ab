------------------------- MODULE MCMappedFileHandle -------------------------
(* A small address space for MappedFileHandle. *)
EXTENDS MappedFileHandle, TLC

CONSTANTS h1, h2, mh

\* Two pages, as small pages and as a large one.
Asked == { [bytes |-> 3, pagesize |-> 2, zeroed |-> FALSE],
           [bytes |-> 4, pagesize |-> 4, zeroed |-> TRUE] }

\* One small page too many for whole large pages.
AskedHalf == { [bytes |-> 2, pagesize |-> 4, zeroed |-> TRUE] }

Symmetry == Permutations(Handles \ {File})
=============================================================================
