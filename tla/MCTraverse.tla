----------------------------- MODULE MCTraverse -----------------------------
(***************************************************************************)
(* Instance of Traverse: a tree deep enough for one thread to be two       *)
(* levels below the other.                                                 *)
(***************************************************************************)
EXTENDS Traverse

CONSTANTS r, a, b, c, d, e

MCDirs == {r, a, b, c, d, e}
MCSubdirs == r :> {a, b} @@ a :> {c} @@ b :> {e} @@ c :> {d} @@ d :> {} @@ e :> {}

=============================================================================
