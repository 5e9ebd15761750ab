---------------------------- MODULE MCLockFiles -----------------------------
(* Small instances of LockFiles. *)
EXTENDS LockFiles, TLC

CONSTANTS i1, i2, a, b

X(v) == [value |-> v, exclusive |-> TRUE]
S(v) == [value |-> v, exclusive |-> FALSE]

Crossing == { <<X(a), S(b)>>, <<S(b), X(a)>>, <<S(b)>> }

=============================================================================
