--------------------------- MODULE MCAtomicAppend ---------------------------
(* Small instances of AtomicAppend. *)
EXTENDS AtomicAppend, TLC

CONSTANTS i1, i2, i3, a, b

X(v) == [value |-> v, exclusive |-> TRUE]
S(v) == [value |-> v, exclusive |-> FALSE]

OneEntity == { {X(a)}, {S(a)} }
Exclusives == { {X(a)} }
Symmetry == Permutations(Insts)

TwoEntities == { {X(a), X(b)}, {S(a)}, {X(b)} }

(* Any two of these are in each other's way, but not two shared ones. *)
Overlapping == { {X(a), X(b)}, {S(a)} }

=============================================================================
