-------------------------- MODULE MCKeyValueStore ---------------------------
(* Small instances of KeyValueStore. *)
EXTENDS KeyValueStore

CONSTANTS p1, p2

update(k) == [key |-> k, op |-> "write", safe |-> TRUE]
remove(k) == [key |-> k, op |-> "remove", safe |-> TRUE]
update_unsafe(k) == [key |-> k, op |-> "write", safe |-> FALSE]
remove_unsafe(k) == [key |-> k, op |-> "remove", safe |-> FALSE]

(* Both processes update both keys; one also removes.                      *)
Mixed == p1 :> {update(1), update(2)} @@ p2 :> {update(2), remove_unsafe(1)}

(* One updates the key the other removes.                                  *)
Single == p1 :> {update(1)} @@ p2 :> {remove(1)}

=============================================================================
