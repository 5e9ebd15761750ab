----------------------------- MODULE LockFiles ------------------------------
(***************************************************************************)
(* algorithm::shared_fs_mutex::lock_files on POSIX: to lock an entity is   *)
(* to create a file named after it, which must not be there; the handle is *)
(* opened to unlink its file when closed.  A request whose next file is    *)
(* there gives all its files back and starts again.  Shared requests are   *)
(* treated as exclusive ones.                                              *)
(***************************************************************************)
EXTENDS Naturals, Sequences, Functions

CONSTANTS
  Insts,       \* lock_files objects; each supports one lock() at a time
  Nobody,      \* there is no such file
  Stale,       \* a file whose creator died
  Entities, Requests,
  Crashes      \* do processes die?

Entity == [value : Entities, exclusive : BOOLEAN]

DistinctValues(s) ==
  \A i, j \in DOMAIN s : s[i].value = s[j].value => i = j

ASSUME LockFilesAssumption ==
  /\ Nobody \notin Insts /\ Stale \notin Insts /\ Nobody # Stale
  /\ \A s \in Requests : s \in Seq(Entity) /\ s # << >> /\ DistinctValues(s)
  /\ Crashes \in BOOLEAN

VARIABLES
  files,      \* who created the file of each entity
  pc,
  entities,   \* out.entities
  paths,      \* entity_paths, made once from out.entities
  n,
  contended,  \* was_contended
  timed,      \* does lock() have a deadline,
  expired     \* and has it passed?

vars == <<files, pc, entities, paths, n, contended, timed, expired>>

TypeOK ==
  /\ files \in [Entities -> Insts \cup {Nobody, Stale}]
  /\ pc \in [Insts -> {"idle", "create", "undo", "fail", "held", "unlocking"}]
  /\ entities \in [Insts -> Seq(Entity)]
  /\ paths \in [Insts -> Seq(Entities)]
  /\ n \in [Insts -> Nat \ {0}]
  /\ contended \in [Insts -> Nat]
  /\ timed \in [Insts -> BOOLEAN]
  /\ expired \in [Insts -> BOOLEAN]

Init ==
  /\ files = [e \in Entities |-> Nobody]
  /\ pc = [i \in Insts |-> "idle"]
  /\ entities = [i \in Insts |-> << >>]
  /\ paths = [i \in Insts |-> << >>]
  /\ n = [i \in Insts |-> 1]
  /\ contended = [i \in Insts |-> 0]
  /\ timed = [i \in Insts |-> FALSE]
  /\ expired = [i \in Insts |-> FALSE]

Goto(i, label) == pc' = [pc EXCEPT ![i] = label]

(* lock() or unlock() ends, and with it its locals. *)
Leave(i) ==
  /\ Goto(i, "idle")
  /\ entities' = [entities EXCEPT ![i] = << >>]
  /\ paths' = [paths EXCEPT ![i] = << >>]
  /\ n' = [n EXCEPT ![i] = 1]
  /\ contended' = [contended EXCEPT ![i] = 0]
  /\ timed' = [timed EXCEPT ![i] = FALSE]
  /\ expired' = [expired EXCEPT ![i] = FALSE]

-----------------------------------------------------------------------------
(* _lock() up to the loop. *)
Lock(i) ==
  /\ pc[i] = "idle"
  /\ \E s \in Requests, d \in BOOLEAN :
       /\ entities' = [entities EXCEPT ![i] = s]
       /\ paths' = [paths EXCEPT ![i] = [k \in 1..Len(s) |-> s[k].value]]
       /\ timed' = [timed EXCEPT ![i] = d]
  /\ Goto(i, "create")
  /\ UNCHANGED <<files, n, contended, expired>>

(* Mutant of Create: creation::if_needed in place of only_if_not_exist. *)
CreateIfNeeded(i) ==
  /\ pc[i] = "create"
  /\ files' = [files EXCEPT ![paths[i][n[i]]] = i]
  /\ n' = [n EXCEPT ![i] = @ + 1]
  /\ Goto(i, IF n[i] = Len(paths[i]) THEN "held" ELSE "create")
  /\ UNCHANGED <<entities, paths, contended, timed, expired>>

(* The file is created, *)
Create(i) ==
  /\ pc[i] = "create"
  /\ files[paths[i][n[i]]] = Nobody
  /\ files' = [files EXCEPT ![paths[i][n[i]]] = i]
  /\ n' = [n EXCEPT ![i] = @ + 1]
  /\ Goto(i, IF n[i] = Len(paths[i]) THEN "held" ELSE "create")
  /\ UNCHANGED <<entities, paths, contended, timed, expired>>

(* or is there already, *)
Collide(i) ==
  /\ pc[i] = "create"
  /\ files[paths[i][n[i]]] # Nobody
  /\ contended' = [contended EXCEPT ![i] = n[i]]
  /\ Goto(i, "undo")
  /\ UNCHANGED <<files, entities, paths, n, timed, expired>>

(* or cannot be created, say for want of a file descriptor. *)
CreateFails(i) ==
  /\ pc[i] = "create"
  /\ Goto(i, "fail")
  /\ UNCHANGED <<files, entities, paths, n, contended, timed, expired>>

(* Mutant of Undo: the last close, of _hs[0], is forgotten. *)
UndoNotFirst(i) ==
  /\ pc[i] \in {"undo", "fail"}
  /\ n[i] > 1
  /\ files' = IF n[i] = 2 THEN files ELSE [files EXCEPT ![paths[i][n[i] - 1]] = Nobody]
  /\ n' = [n EXCEPT ![i] = @ - 1]
  /\ UNCHANGED <<pc, entities, paths, contended, timed, expired>>

(* The undo scope guard closes the handles, which unlinks the files. *)
Undo(i) ==
  /\ pc[i] \in {"undo", "fail"}
  /\ n[i] > 1
  /\ files' = [files EXCEPT ![paths[i][n[i] - 1]] = Nobody]
  /\ n' = [n EXCEPT ![i] = @ - 1]
  /\ UNCHANGED <<pc, entities, paths, contended, timed, expired>>

(* lock() fails; unlock(), which its guard calls then, finds _hs closed. *)
Fail(i) ==
  /\ pc[i] = "fail" \/ (pc[i] = "undo" /\ expired[i])
  /\ n[i] = 1
  /\ Leave(i)
  /\ UNCHANGED files

(* The contended entity goes to the front, the rest is shuffled. *)
Reordered(s, first) ==
  { [k \in 1..Len(s) |-> s[p[k]]] :
      p \in {q \in Bijection(1..Len(s), 1..Len(s)) : q[1] = first} }

(* Mutant of Retry: nobody looks at the clock. *)
RetryExpired(i) ==
  /\ pc[i] = "undo"
  /\ n[i] = 1
  /\ \E s \in Reordered(entities[i], contended[i]) : entities' = [entities EXCEPT ![i] = s]
  /\ contended' = [contended EXCEPT ![i] = 0]
  /\ Goto(i, "create")
  /\ UNCHANGED <<files, paths, n, timed, expired>>

(* Starts again.  out.entities is reordered, but the files are created in  *)
(* the order of entity_paths, which is not.                                *)
Retry(i) ==
  /\ pc[i] = "undo"
  /\ n[i] = 1
  /\ ~expired[i]
  /\ \E s \in Reordered(entities[i], contended[i]) : entities' = [entities EXCEPT ![i] = s]
  /\ contended' = [contended EXCEPT ![i] = 0]
  /\ Goto(i, "create")
  /\ UNCHANGED <<files, paths, n, timed, expired>>

Expire(i) ==
  /\ pc[i] \in {"create", "undo"}
  /\ timed[i]
  /\ ~expired[i]
  /\ expired' = [expired EXCEPT ![i] = TRUE]
  /\ UNCHANGED <<files, pc, entities, paths, n, contended, timed>>

-----------------------------------------------------------------------------
(* unlock() closes all handles. *)
Unlock(i) ==
  /\ pc[i] = "held"
  /\ n' = [n EXCEPT ![i] = 1]
  /\ Goto(i, "unlocking")
  /\ UNCHANGED <<files, entities, paths, contended, timed, expired>>

CloseFile(i) ==
  /\ pc[i] = "unlocking"
  /\ files' = [files EXCEPT ![paths[i][n[i]]] = Nobody]
  /\ \/ /\ n[i] < Len(paths[i])
        /\ n' = [n EXCEPT ![i] = @ + 1]
        /\ UNCHANGED <<pc, entities, paths, contended, timed, expired>>
     \/ /\ n[i] = Len(paths[i])
        /\ Leave(i)

(* A process dies: nobody unlinks its files. *)
Exit(i) ==
  /\ Crashes
  /\ pc[i] # "idle"
  /\ files' = [e \in Entities |-> IF files[e] = i THEN Stale ELSE files[e]]
  /\ Leave(i)

Step(i) ==
  Create(i) \/ Collide(i) \/ Undo(i) \/ Fail(i) \/ Retry(i) \/ CloseFile(i)

Next ==
  \E i \in Insts : Lock(i) \/ Step(i) \/ CreateFails(i) \/ Unlock(i) \/ Expire(i) \/ Exit(i)

Spec == Init /\ [][Next]_vars

(* A running thread keeps running, and time passes. *)
Fairness == \A i \in Insts : WF_vars(Step(i)) /\ WF_vars(Expire(i))

FairSpec == Spec /\ Fairness

-----------------------------------------------------------------------------
(* The files instance i has open in _hs. *)
Open(i) ==
  { paths[i][k] : k \in IF pc[i] \in {"held", "unlocking"}
                        THEN (IF pc[i] = "held" THEN 1 ELSE n[i])..Len(paths[i])
                        ELSE 1..n[i] - 1 }

Holds(i, e, exclusive) ==
  pc[i] = "held" /\ \E k \in DOMAIN entities[i] : entities[i][k] = [value |-> e, exclusive |-> exclusive]

held == [i \in Insts |-> [e \in Entities |-> IF Holds(i, e, TRUE) THEN "exclusive"
                                             ELSE IF Holds(i, e, FALSE) THEN "shared"
                                             ELSE "unlocked"]]

Mutex == INSTANCE SharedFsMutex WITH Lockers <- Insts

(* lock() grants everything or nothing, never in conflict with another:    *)
(* seen through its guards, lock_files is a shared_fs_mutex.               *)
Refines == Mutex!Spec

(* A file is there if and only if its creator still has it to unlink, or   *)
(* died with it: no way through lock() and unlock() leaves a file behind,  *)
(* or unlinks that of another.                                             *)
FilesOwned ==
  \A e \in Entities, i \in Insts : files[e] = i <=> e \in Open(i)

(* A lock() with a deadline returns, even when a stale file is in its way. *)
TimedLockReturns == \A i \in Insts : (pc[i] = "create" /\ timed[i]) ~> pc[i] \in {"held", "idle"}

=============================================================================
