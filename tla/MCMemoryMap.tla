---------------------------- MODULE MCMemoryMap -----------------------------
(* Small instances of MemoryMap: a and b collide, c does not. *)
EXTENDS MemoryMap, TLC

CONSTANTS i1, i2, x1, x2, a, b, c

X(v) == [value |-> v, exclusive |-> TRUE]
S(v) == [value |-> v, exclusive |-> FALSE]

MCHash == a :> 0 @@ b :> 0 @@ c :> 1

(* A collision comes last in a request. *)
CollidingLast == { <<S(c), S(a), X(b)>>, <<S(b), S(c)>>, <<X(a), X(c)>> }
OneExclusive == { <<X(a)>> }
CollidingFirst == { <<S(a), S(b), X(c)>> }

ASSUME MCMemoryMapAssumption == Requests # CollidingFirst => AllEntered

Symmetry == Permutations(Insts) \cup Permutations(Indices)

=============================================================================
