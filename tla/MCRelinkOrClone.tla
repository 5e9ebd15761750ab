-------------------------- MODULE MCRelinkOrClone ---------------------------
(***************************************************************************)
(* Two directories on two file systems, of which the second does not know  *)
(* RENAME_NOREPLACE.  The file to be moved is in the first.  A file that a *)
(* user has open is in the second, in the way of the copy or not, or has   *)
(* no name.                                                                *)
(***************************************************************************)
EXTENDS RelinkOrClone, TLC

CONSTANTS d1, d2, a, r, s, f, g, t, user

Volumes == d1 :> 1 @@ d2 :> 2
Homes == f :> 1 @@ g :> 2 @@ t :> 2
Layouts ==
  {[label |-> Volumes,
    entry |-> <<d1, a>> :> f @@ <<d2, l>> :> g,
    opened |-> Src :> <<d1, a>> @@ user :> <<d2, l>>,
    made |-> << >>] : l \in {a, r}}
  \cup
  {[label |-> Volumes,
    entry |-> <<d1, a>> :> f,
    opened |-> Src :> <<d1, a>>,
    made |-> user :> g]}
=============================================================================
