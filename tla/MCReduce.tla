------------------------------ MODULE MCReduce ------------------------------
(* Small trees for Reduce: three directories deep, or two side by side. *)
EXTENDS Reduce, TLC

CONSTANTS top, a, b, f, g, n, t1, t2

Deep == a :> top @@ b :> a @@ f :> b @@ g :> top @@ n :> None
Wide == a :> top @@ b :> top @@ f :> a @@ g :> b @@ n :> None
Trees == {Deep, Wide}
Stuck == {{}, {f}, {b}}

=============================================================================
