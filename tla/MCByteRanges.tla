---------------------------- MODULE MCByteRanges ----------------------------
(* Small instances of ByteRanges: two threads, each with an instance. *)
EXTENDS ByteRanges, TLC

CONSTANTS t1, t2, h1, h2, a, b, c

X(v) == [value |-> v, exclusive |-> TRUE]
S(v) == [value |-> v, exclusive |-> FALSE]

OwnHandles == t1 :> h1 @@ t2 :> h2

OneEntity == { <<X(a)>>, <<S(a)>> }
(* the same entities in different orders, shared and exclusive *)
Mixed == { <<X(a), X(b), X(c)>>, <<X(b), S(a)>>, <<S(b), S(a)>> }

=============================================================================
