--------------------------- MODULE SharedFsMutex ----------------------------
(***************************************************************************)
(* What every algorithm derived from shared_fs_mutex promises its users:   *)
(* lock() grants all of a sequence of entities at once, each for exclusive *)
(* or for shared access, and only when no other locker holds one of them   *)
(* in a conflicting way; the guard's unlock() gives all of them back.      *)
(* A lock() that fails, and the death of a holder whose locks the system   *)
(* gives back, leave no trace here but the release.                        *)
(***************************************************************************)

CONSTANTS Lockers,      \* the threads or processes that call lock()
          Entities      \* the values of entity_type

VARIABLE held           \* what each locker's entities_guard holds

Kinds == {"unlocked", "shared", "exclusive"}

Grants == [Entities -> Kinds]

Nothing == [e \in Entities |-> "unlocked"]

Clash(a, b) == \E e \in Entities :
                 /\ a[e] # "unlocked"
                 /\ b[e] # "unlocked"
                 /\ "exclusive" \in {a[e], b[e]}

TypeOK == held \in [Lockers -> Grants]

Init == held = [l \in Lockers |-> Nothing]

(* lock() returns an entities_guard. *)
Acquire(l) ==
  \E g \in Grants :
    /\ held[l] = Nothing
    /\ \A m \in Lockers \ {l} : ~Clash(g, held[m])
    /\ held' = [held EXCEPT ![l] = g]

(* entities_guard::unlock() or its destructor; the end of a process gives *)
(* back what all its lockers hold.                                        *)
Release(S) == held' = [l \in Lockers |-> IF l \in S THEN Nothing ELSE held[l]]

Next == \/ \E l \in Lockers : Acquire(l)
        \/ \E S \in SUBSET Lockers : Release(S)

Spec == Init /\ [][Next]_held

-----------------------------------------------------------------------------
(* Two lockers never hold an entity in conflicting ways. *)
Exclusion == \A l, m \in Lockers : l # m => ~Clash(held[l], held[m])

=============================================================================
