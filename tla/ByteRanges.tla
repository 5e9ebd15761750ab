----------------------------- MODULE ByteRanges -----------------------------
(***************************************************************************)
(* algorithm::shared_fs_mutex::byte_ranges on POSIX: every entity is one   *)
(* byte of a lock file.  _lock() takes the bytes one after the other; it   *)
(* sleeps on the first byte only, and when any other cannot be had at once *)
(* it gives back all it has, puts the contended entity first, shuffles the *)
(* rest and starts again.                                                  *)
(*                                                                         *)
(* A thread works through one instance, and an instance has one handle on  *)
(* the lock file; HandleOf says which threads share an instance.           *)
(***************************************************************************)
EXTENDS ByteRangeLocks, Naturals, Sequences, Functions

CONSTANTS
  Threads,     \* the callers of lock()
  Handles,     \* the open lock files, one per byte_ranges instance
  HandleOf,    \* the instance each thread uses
  Entities,    \* the values of entity_type, i.e. the offsets of the bytes
  Requests,    \* the sequences of entities callers lock
  Deadlines,   \* the kinds of deadline callers pass: "none", "steady", "utc"
  TimePasses   \* FALSE when every positive deadline is too far away to expire

Entity == [value : Entities, exclusive : BOOLEAN]

DistinctValues(s) ==
  \A i, j \in DOMAIN s : s[i].value = s[j].value => i = j

ASSUME ByteRangesAssumption ==
  /\ HandleOf \in [Threads -> Handles]
  /\ \A s \in Requests : s \in Seq(Entity) /\ s # << >> /\ DistinctValues(s)
  /\ Deadlines \subseteq {"none", "steady", "utc"}
  /\ TimePasses \in BOOLEAN

VARIABLES
  locks,      \* the lock table of the lock file
  pc,         \* where each thread is
  entities,   \* out.entities, in the order the loop will take them
  n,          \* the loop index, 1 based
  contended,  \* was_contended: the index that failed, 0 when none has
  deadline,   \* the d passed to lock()
  expired     \* has the caller's deadline passed?

vars == <<locks, pc, entities, n, contended, deadline, expired>>

Kind(e) == IF e.exclusive THEN "exclusive" ELSE "shared"

Goto(t, label) == pc' = [pc EXCEPT ![t] = label]

(* The threads of T leave lock() or unlock(): its local variables go. *)
Leave(T) ==
  /\ pc' = [t \in Threads |-> IF t \in T THEN "idle" ELSE pc[t]]
  /\ entities' = [t \in Threads |-> IF t \in T THEN << >> ELSE entities[t]]
  /\ n' = [t \in Threads |-> IF t \in T THEN 1 ELSE n[t]]
  /\ contended' = [t \in Threads |-> IF t \in T THEN 0 ELSE contended[t]]
  /\ deadline' = [t \in Threads |-> IF t \in T THEN "none" ELSE deadline[t]]
  /\ expired' = [t \in Threads |-> IF t \in T THEN FALSE ELSE expired[t]]

TypeOK ==
  /\ locks \in [Handles -> [Entities -> LockKinds]]
  /\ pc \in [Threads -> {"idle", "locking", "undo", "held", "unlocking"}]
  /\ entities \in [Threads -> Seq(Entity)]
  /\ n \in [Threads -> Nat \ {0}]
  /\ contended \in [Threads -> Nat]
  /\ deadline \in [Threads -> {"none", "steady", "utc"}]
  /\ expired \in [Threads -> BOOLEAN]

Init ==
  /\ locks = NoLocks(Handles, Entities)
  /\ pc = [t \in Threads |-> "idle"]
  /\ entities = [t \in Threads |-> << >>]
  /\ n = [t \in Threads |-> 1]
  /\ contended = [t \in Threads |-> 0]
  /\ deadline = [t \in Threads |-> "none"]
  /\ expired = [t \in Threads |-> FALSE]

-----------------------------------------------------------------------------
(* lock(entities, d) up to the loop.  A duration of zero, which is how     *)
(* try_lock() calls lock(), and an absolute time in the past have expired  *)
(* from the start.                                                         *)
Lock(t) ==
  /\ pc[t] = "idle"
  /\ \E s \in Requests, d \in Deadlines, x \in BOOLEAN :
       /\ d = "none" => ~x
       /\ entities' = [entities EXCEPT ![t] = s]
       /\ deadline' = [deadline EXCEPT ![t] = d]
       /\ expired' = [expired EXCEPT ![t] = x]
  /\ n' = [n EXCEPT ![t] = 1]
  /\ Goto(t, "locking")
  /\ UNCHANGED <<locks, contended>>

(* Mutant of SubDeadline: the loop sleeps on every entity. *)
SubDeadlineAlways(t) == PartialDeadline(deadline[t], expired[t])

(* The call of lock_file_range for entity n[t]: only the first sleeps.     *)
SubDeadline(t) ==
  IF n[t] # 1 THEN "zero" ELSE PartialDeadline(deadline[t], expired[t])

Outcome(t) ==
  LET e == entities[t][n[t]]
  IN  LockOutcome(locks, HandleOf[t], {e.value}, Kind(e), SubDeadline(t))

(* Mutant of TakeByte: the loop stops one entity early. *)
TakeByteShort(t) ==
  LET e == entities[t][n[t]] IN
  /\ pc[t] = "locking"
  /\ Outcome(t) = "granted"
  /\ locks' = SetRange(locks, HandleOf[t], {e.value}, Kind(e))
  /\ n' = [n EXCEPT ![t] = @ + 1]
  /\ Goto(t, IF n[t] + 1 >= Len(entities[t]) THEN "held" ELSE "locking")
  /\ UNCHANGED <<entities, contended, deadline, expired>>

(* One round of the loop whose lock_file_range succeeds. *)
TakeByte(t) ==
  LET e == entities[t][n[t]] IN
  /\ pc[t] = "locking"
  /\ Outcome(t) = "granted"
  /\ locks' = SetRange(locks, HandleOf[t], {e.value}, Kind(e))
  /\ n' = [n EXCEPT ![t] = @ + 1]
  /\ Goto(t, IF n[t] = Len(entities[t]) THEN "held" ELSE "locking")
  /\ UNCHANGED <<entities, contended, deadline, expired>>

(* ... and one whose lock_file_range fails, for whatever reason. *)
Contend(t) ==
  /\ pc[t] = "locking"
  /\ Outcome(t) \in {"timed_out", "not_supported"}
  /\ contended' = [contended EXCEPT ![t] = n[t]]
  /\ Goto(t, "undo")
  /\ UNCHANGED <<locks, entities, n, deadline, expired>>

(* A signal interrupts F_OFD_SETLKW: lock_file_range fails with EINTR. *)
Interrupt(t) ==
  /\ pc[t] = "locking"
  /\ Outcome(t) = "blocked"
  /\ contended' = [contended EXCEPT ![t] = n[t]]
  /\ Goto(t, "undo")
  /\ UNCHANGED <<locks, entities, n, deadline, expired>>

(* Mutant of Undo: the last unlock, of entity 0, is forgotten. *)
UndoNotFirst(t) ==
  /\ pc[t] = "undo"
  /\ n[t] > 1
  /\ locks' = IF n[t] = 2 THEN locks
              ELSE SetRange(locks, HandleOf[t], {entities[t][n[t] - 1].value}, "unlocked")
  /\ n' = [n EXCEPT ![t] = @ - 1]
  /\ UNCHANGED <<pc, entities, contended, deadline, expired>>

(* The undo scope guard gives back the bytes taken, last one first. *)
Undo(t) ==
  /\ pc[t] = "undo"
  /\ n[t] > 1
  /\ locks' = SetRange(locks, HandleOf[t], {entities[t][n[t] - 1].value}, "unlocked")
  /\ n' = [n EXCEPT ![t] = @ - 1]
  /\ UNCHANGED <<pc, entities, contended, deadline, expired>>

(* lock() fails with errc::timed_out; the guard has been released. *)
TimeOut(t) ==
  /\ pc[t] = "undo"
  /\ n[t] = 1
  /\ expired[t]
  /\ Leave({t})
  /\ UNCHANGED locks

(* The contended entity goes to the front, the rest is shuffled. *)
Reordered(s, first) ==
  { [i \in 1..Len(s) |-> s[p[i]]] :
      p \in {q \in Bijection(1..Len(s), 1..Len(s)) : q[1] = first} }

Retry(t) ==
  /\ pc[t] = "undo"
  /\ n[t] = 1
  /\ ~expired[t]
  /\ \E s \in Reordered(entities[t], contended[t]) :
       entities' = [entities EXCEPT ![t] = s]
  /\ contended' = [contended EXCEPT ![t] = 0]
  /\ Goto(t, "locking")
  /\ UNCHANGED <<locks, n, deadline, expired>>

(* The clock passes a caller's deadline. *)
Expire(t) ==
  /\ TimePasses
  /\ pc[t] \in {"locking", "undo"}
  /\ deadline[t] # "none"
  /\ ~expired[t]
  /\ expired' = [expired EXCEPT ![t] = TRUE]
  /\ UNCHANGED <<locks, pc, entities, n, contended, deadline>>

(* unlock(entities), from the guard, gives the bytes back one by one. *)
Unlock(t) ==
  /\ pc[t] = "held"
  /\ n' = [n EXCEPT ![t] = 1]
  /\ Goto(t, "unlocking")
  /\ UNCHANGED <<locks, entities, contended, deadline, expired>>

GiveByte(t) ==
  /\ pc[t] = "unlocking"
  /\ locks' = SetRange(locks, HandleOf[t], {entities[t][n[t]].value}, "unlocked")
  /\ \/ /\ n[t] < Len(entities[t])
        /\ n' = [n EXCEPT ![t] = @ + 1]
        /\ UNCHANGED <<pc, entities, contended, deadline, expired>>
     \/ /\ n[t] = Len(entities[t])
        /\ Leave({t})

(* The process behind a handle exits at any point and a new one takes its  *)
(* place: the kernel drops the locks of the open file description.         *)
Exit(h) ==
  /\ \E t \in Threads : HandleOf[t] = h /\ pc[t] # "idle"
  /\ locks' = SetRange(locks, h, Entities, "unlocked")
  /\ Leave({t \in Threads : HandleOf[t] = h})

(* What the code of a thread inside lock() or unlock() does next. *)
Step(t) == TakeByte(t) \/ Contend(t) \/ Undo(t) \/ TimeOut(t) \/ Retry(t) \/ GiveByte(t)

Next ==
  \/ \E t \in Threads : \/ Lock(t) \/ Step(t) \/ Unlock(t)
                         \/ Interrupt(t) \/ Expire(t)
  \/ \E h \in Handles : Exit(h)

Spec == Init /\ [][Next]_vars

(* A running thread keeps running, and time passes; nothing is said of the *)
(* order in which the kernel grants locks, of a holder's ever unlocking,   *)
(* or of processes not exiting.                                            *)
Fairness == \A t \in Threads : WF_vars(Step(t)) /\ WF_vars(Expire(t))

FairSpec == Spec /\ Fairness

-----------------------------------------------------------------------------
(* What thread t's guard holds: everything once lock() has succeeded. *)
Holds(t, e, exclusive) ==
  /\ pc[t] = "held"
  /\ \E i \in DOMAIN entities[t] :
       entities[t][i] = [value |-> e, exclusive |-> exclusive]

Grant(t) == [e \in Entities |-> IF Holds(t, e, TRUE) THEN "exclusive"
                               ELSE IF Holds(t, e, FALSE) THEN "shared"
                               ELSE "unlocked"]

held == [t \in Threads |-> Grant(t)]

Mutex == INSTANCE SharedFsMutex WITH Lockers <- Threads

(* Two threads that lock through instances of their own never hold one     *)
(* entity in conflicting ways, however their loops interleave, give up,    *)
(* time out or die half way.                                               *)
Exclusion == Mutex!Exclusion

(* lock() grants everything or nothing: seen through its guards, byte      *)
(* ranges is a shared_fs_mutex.                                            *)
Refines == Mutex!Spec

(* Neither a failed lock() nor unlock() nor the end of a process leaves a  *)
(* byte locked: a handle nobody is working through has none.               *)
NoResidue ==
  \A h \in Handles :
    (\A t \in Threads : HandleOf[t] = h => pc[t] = "idle")
      => \A e \in Entities : locks[h][e] = "unlocked"

(* The reason for undoing and reordering: a thread asleep in the kernel    *)
(* waiting for a byte has no byte of its own that others may wait for.     *)
NeverSleepsHolding ==
  \A t \in Threads :
    (pc[t] = "locking" /\ Outcome(t) = "blocked")
      => \A e \in Entities : locks[HandleOf[t]][e] = "unlocked"

(* lock() with an absolute deadline always returns, whatever others hold. *)
UtcLockReturns ==
  \A t \in Threads :
    (pc[t] = "locking" /\ deadline[t] = "utc") ~> pc[t] \in {"idle", "held"}

(* try_lock(), "Try to lock all of a sequence of entities", and a lock()   *)
(* whose deadline has passed never fall asleep on somebody else's lock.    *)
(* This does not hold: the partial deadline of an expired one is none.     *)
TryLockNeverSleeps ==
  \A t \in Threads :
    (pc[t] = "locking" /\ expired[t]) => Outcome(t) # "blocked"

=============================================================================
