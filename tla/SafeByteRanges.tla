--------------------------- MODULE SafeByteRanges ---------------------------
(***************************************************************************)
(* algorithm::shared_fs_mutex::safe_byte_ranges on POSIX: one              *)
(* threaded_byte_ranges per process and lock file, which all threads of    *)
(* the process share.  A byte of the file excludes other processes, and    *)
(* the map _thread_locks, under the mutex _m, excludes other threads.  The *)
(* mutex is given up around every wait for a byte.                         *)
(*                                                                         *)
(* A guard is one entities_guard variable of one thread; a thread with     *)
(* several may nest locks, but does one thing at a time.  Assertions are   *)
(* those of a release build: none.  Callers leave spin_not_sleep at false. *)
(***************************************************************************)
EXTENDS ByteRangeLocks, Naturals, Sequences, FiniteSets, Functions

CONSTANTS
  Guards, Threads, Processes,
  ThreadOf,     \* the thread a guard belongs to
  ProcessOf,    \* the process a thread belongs to
  Nobody,       \* thread id 0
  Entities,
  Workloads,    \* what the guards are used for: the requests each of them makes
  Deadlines,    \* the kinds of deadline each guard's calls pass
  TimePasses    \* FALSE when every positive deadline is too far away to expire

Entity == [value : Entities, exclusive : BOOLEAN]

ASSUME SafeByteRangesAssumption ==
  /\ ThreadOf \in [Guards -> Threads] /\ ProcessOf \in [Threads -> Processes]
  /\ Nobody \notin Threads /\ Nobody \notin Guards
  /\ \A w \in Workloads :
       /\ DOMAIN w = Guards
       /\ \A s \in UNION {w[g] : g \in Guards} :
            /\ s \in Seq(Entity) /\ s # << >>
            /\ \A i, j \in DOMAIN s : s[i].value = s[j].value => i = j
  /\ Deadlines \in [Guards -> SUBSET {"none", "steady", "utc"}]
  /\ TimePasses \in BOOLEAN

VARIABLES
  requests,    \* the workload: it never changes
  locks,       \* the lock table: one handle per process
  entry,       \* _thread_locks of each process
  m,           \* the guard whose thread has _m, in each process
  pc, entities, n,
  contended,   \* was_contended, 0 when none was
  sleeps,      \* pls_sleep
  valid,       \* does the iterator kept across a wait still point to an entry?
  deadline, expired,
  (* History, which nothing in the code knows: *)
  crossed,     \* entities of each process whose byte one of its threads was
               \* granted while another of its threads used them
  wild         \* processes that wrote through an invalid iterator

vars == <<requests, locks, entry, m, pc, entities, n, contended, sleeps, valid, deadline, expired,
          crossed, wild>>
call == <<requests, entities, deadline>>

(* Wrong: the kinds swapped. *)
KindSwapped(e) == IF e.exclusive THEN "shared" ELSE "exclusive"

Me(g) == ThreadOf[g]
Proc(g) == ProcessOf[ThreadOf[g]]
Kind(e) == IF e.exclusive THEN "exclusive" ELSE "shared"

(* _entity_info; an absent one stands for no entry in the map. *)
Absent == [there |-> FALSE, writer |-> Nobody, readers |-> {}]

AskingPCs == {"ask", "asked", "refused", "upgrade", "upgraded", "upgrade_refused"}

CodeTypes ==
  /\ requests \in Workloads
  /\ locks \in [Processes -> [Entities -> LockKinds]]
  /\ entry \in [Processes -> [Entities -> [there : BOOLEAN, writer : Threads \cup {Nobody},
                                           readers : SUBSET Threads]]]
  /\ m \in [Processes -> Guards \cup {Nobody}]
  /\ pc \in [Guards -> {"idle", "enter", "entity", "undo", "deadlock", "sleep", "held",
                        "unlock", "unlocking"} \cup AskingPCs]
  /\ entities \in [Guards -> Seq(Entity)]
  /\ n \in [Guards -> Nat \ {0}]
  /\ contended \in [Guards -> Nat]
  /\ sleeps \in [Guards -> BOOLEAN] /\ valid \in [Guards -> BOOLEAN]
  /\ deadline \in [Guards -> {"none", "steady", "utc"}]
  /\ expired \in [Guards -> BOOLEAN]

TypeOK == CodeTypes /\ crossed \in [Processes -> SUBSET Entities] /\ wild \in SUBSET Processes

Init ==
  /\ requests \in Workloads
  /\ locks = NoLocks(Processes, Entities)
  /\ entry = [p \in Processes |-> [e \in Entities |-> Absent]]
  /\ m = [p \in Processes |-> Nobody]
  /\ pc = [g \in Guards |-> "idle"]
  /\ entities = [g \in Guards |-> << >>]
  /\ n = [g \in Guards |-> 1]
  /\ contended = [g \in Guards |-> 0]
  /\ sleeps = [g \in Guards |-> TRUE]
  /\ valid = [g \in Guards |-> TRUE]
  /\ deadline = [g \in Guards |-> "none"]
  /\ expired = [g \in Guards |-> FALSE]
  /\ crossed = [p \in Processes |-> {}] /\ wild = {}

Goto(g, label) == pc' = [pc EXCEPT ![g] = label]

TakeM(g) == m[Proc(g)] = Nobody /\ m' = [m EXCEPT ![Proc(g)] = g]
DropM(g) == m' = [m EXCEPT ![Proc(g)] = Nobody]

Entry(g) == entry[Proc(g)][entities[g][n[g]].value]

SetEntry(p, e, info) == entry' = [entry EXCEPT ![p][e] = info]

(* The guards of G leave lock() or unlock(). *)
Leave(G) ==
  /\ pc' = [g \in Guards |-> IF g \in G THEN "idle" ELSE pc[g]]
  /\ entities' = [g \in Guards |-> IF g \in G THEN << >> ELSE entities[g]]
  /\ n' = [g \in Guards |-> IF g \in G THEN 1 ELSE n[g]]
  /\ contended' = [g \in Guards |-> IF g \in G THEN 0 ELSE contended[g]]
  /\ sleeps' = [g \in Guards |-> IF g \in G THEN TRUE ELSE sleeps[g]]
  /\ valid' = [g \in Guards |-> IF g \in G THEN TRUE ELSE valid[g]]
  /\ deadline' = [g \in Guards |-> IF g \in G THEN "none" ELSE deadline[g]]
  /\ expired' = [g \in Guards |-> IF g \in G THEN FALSE ELSE expired[g]]

-----------------------------------------------------------------------------
(* _lock(entities, d) up to the loop; a thread does one thing at a time.   *)
Lock(g) ==
  /\ \A f \in Guards : Me(f) = Me(g) => pc[f] \in {"idle", "held"}
  /\ pc[g] = "idle"
  /\ \E s \in requests[g], d \in Deadlines[g], x \in BOOLEAN :
       /\ d = "none" => ~x
       /\ entities' = [entities EXCEPT ![g] = s]
       /\ deadline' = [deadline EXCEPT ![g] = d]
       /\ expired' = [expired EXCEPT ![g] = x]
  /\ Goto(g, "enter")
  /\ UNCHANGED <<requests, locks, entry, m, n, contended, sleeps, valid>>

(* The top of the loop takes _m. *)
Enter(g) ==
  /\ pc[g] = "enter"
  /\ TakeM(g)
  /\ n' = [n EXCEPT ![g] = 1]
  /\ contended' = [contended EXCEPT ![g] = 0]
  /\ sleeps' = [sleeps EXCEPT ![g] = TRUE]
  /\ Goto(g, "entity")
  /\ UNCHANGED <<locks, entry, valid, expired, call>>

(* On to the next entity, or success. *)
Advance(g) ==
  IF n[g] = Len(entities[g])
  THEN DropM(g) /\ Goto(g, "held") /\ n' = n
  ELSE m' = [m EXCEPT ![Proc(g)] = g] /\ Goto(g, "entity") /\ n' = [n EXCEPT ![g] = @ + 1]

Contended(g) == contended' = [contended EXCEPT ![g] = n[g]] /\ Goto(g, "undo")

(* No entry, or one that shared holders keep and we want exclusively: _m   *)
(* is given up to wait for the byte.                                       *)
LeaveToAsk(g) ==
  /\ pc[g] = "entity"
  /\ Entry(g).writer = Nobody
  /\ ~Entry(g).there \/ entities[g][n[g]].exclusive
  /\ DropM(g)
  /\ Goto(g, IF Entry(g).there THEN "upgrade" ELSE "ask")
  /\ valid' = [valid EXCEPT ![g] = TRUE]
  /\ UNCHANGED <<locks, entry, n, contended, sleeps, expired, call>>

(* The entity is locked by a thread of this process: one more reader, or a *)
(* thread that relocks what it has.                                        *)
JoinReaders(g) ==
  /\ pc[g] = "entity"
  /\ Entry(g).there
  /\ Entry(g).writer \in {Nobody, Me(g)}
  /\ ~entities[g][n[g]].exclusive
  /\ Me(g) \notin Entry(g).readers
  /\ SetEntry(Proc(g), entities[g][n[g]].value,
              [Entry(g) EXCEPT !.readers = @ \cup {Me(g)}])
  /\ Advance(g)
  /\ UNCHANGED <<locks, contended, sleeps, valid, expired, call>>

Relock(g) ==
  /\ pc[g] = "entity"
  /\ Entry(g).there
  /\ \/ Entry(g).writer = Me(g) /\ (entities[g][n[g]].exclusive \/ Me(g) \in Entry(g).readers)
     \/ Entry(g).writer = Nobody /\ ~entities[g][n[g]].exclusive /\ Me(g) \in Entry(g).readers
  /\ Goto(g, "deadlock")
  /\ UNCHANGED <<locks, entry, m, n, contended, sleeps, valid, expired, call>>

(* Another thread of this process has the entity exclusively. *)
ThreadContends(g) ==
  /\ pc[g] = "entity"
  /\ Entry(g).writer \notin {Nobody, Me(g)}
  /\ Contended(g)
  /\ UNCHANGED <<locks, entry, m, n, sleeps, valid, expired, call>>

-----------------------------------------------------------------------------
(* lock_file_range, without _m. *)
SubDeadline(g) ==
  IF n[g] # 1 THEN "zero" ELSE PartialDeadline(deadline[g], expired[g])

Outcome(g) ==
  LET e == entities[g][n[g]]
  IN  LockOutcome(locks, Proc(g), {e.value}, Kind(e), SubDeadline(g))

Ask(g) ==
  LET e == entities[g][n[g]] IN
  /\ pc[g] \in {"ask", "upgrade"}
  /\ \/ /\ Outcome(g) = "granted"
        /\ locks' = SetRange(locks, Proc(g), {e.value}, Kind(e))
        /\ Goto(g, IF pc[g] = "ask" THEN "asked" ELSE "upgraded")
     \/ /\ Outcome(g) \in {"timed_out", "not_supported"}
        /\ Goto(g, IF pc[g] = "ask" THEN "refused" ELSE "upgrade_refused")
        /\ UNCHANGED locks
  /\ UNCHANGED <<entry, m, n, contended, sleeps, valid, expired, call>>

(* A signal interrupts the wait for the byte. *)
Interrupt(g) ==
  /\ pc[g] \in {"ask", "upgrade"}
  /\ Outcome(g) = "blocked"
  /\ Goto(g, IF pc[g] = "ask" THEN "refused" ELSE "upgrade_refused")
  /\ UNCHANGED <<locks, entry, m, n, contended, sleeps, valid, expired, call>>

(* The byte is ours: a new entry, unless another thread was quicker, when  *)
(* the extent guard of the superfluous lock goes and unlocks the byte.     *)
Insert(g) ==
  LET e == entities[g][n[g]] IN
  /\ pc[g] = "asked"
  /\ m[Proc(g)] = Nobody
  /\ \/ /\ ~Entry(g).there
        /\ SetEntry(Proc(g), e.value,
                    [there |-> TRUE, writer |-> IF e.exclusive THEN Me(g) ELSE Nobody,
                     readers |-> IF e.exclusive THEN {} ELSE {Me(g)}])
        /\ Advance(g)
        /\ UNCHANGED locks
     \/ /\ Entry(g).there
        /\ TakeM(g)
        /\ locks' = SetRange(locks, Proc(g), {e.value}, "unlocked")
        /\ Goto(g, "entity")
        /\ UNCHANGED <<entry, n>>
  /\ UNCHANGED <<contended, sleeps, valid, expired, call>>

(* The byte is now exclusive: the thread becomes the writer of the entry   *)
(* its iterator points to.  A write through an invalid one is lost.        *)
Upgraded(g) ==
  /\ pc[g] = "upgraded"
  /\ m[Proc(g)] = Nobody
  /\ IF valid[g]
     THEN SetEntry(Proc(g), entities[g][n[g]].value, [Entry(g) EXCEPT !.writer = Me(g)])
     ELSE UNCHANGED entry
  /\ Advance(g)
  /\ UNCHANGED <<locks, contended, sleeps, valid, expired, call>>

(* The byte was refused; only after an upgrade does the thread sleep.      *)
Refused(g) ==
  /\ pc[g] \in {"refused", "upgrade_refused"}
  /\ TakeM(g)
  /\ sleeps' = [sleeps EXCEPT ![g] = pc[g] = "upgrade_refused"]
  /\ Contended(g)
  /\ UNCHANGED <<locks, entry, n, valid, expired, call>>

(* Wrong: on a downgrade the old extent guard is not released and so       *)
(* unlocks the byte that was just locked shared.                           *)
DropReplaced(g, e) ==
  LET p == Proc(g)
      info == entry[p][e]
      left == IF info.writer = Me(g) THEN info.readers ELSE info.readers \ {Me(g)}
  IN  /\ info.there
      /\ IF left = {} \/ info.writer = Me(g)
         THEN locks' = SetRange(locks, p, {e}, "unlocked")
         ELSE UNCHANGED locks
      /\ SetEntry(p, e, IF left = {} THEN Absent
                        ELSE [info EXCEPT !.readers = left,
                                          !.writer = IF @ = Me(g) THEN Nobody ELSE @])
      /\ UNCHANGED valid

-----------------------------------------------------------------------------
(* _unlock(tid, entity), _m held: the exclusive lock goes first, down to   *)
(* shared if this thread also reads; the last one out unlocks the byte.    *)
Drop(g, e) ==
  LET p == Proc(g)
      info == entry[p][e]
      left == IF info.writer = Me(g) THEN info.readers ELSE info.readers \ {Me(g)}
  IN  /\ info.there
      /\ IF left = {}
         THEN /\ locks' = SetRange(locks, p, {e}, "unlocked")
              /\ SetEntry(p, e, Absent)
              /\ valid' = [f \in Guards |->
                             valid[f] /\ ~(/\ Proc(f) = p /\ pc[f] \in {"upgrade", "upgraded", "upgrade_refused"}
                                           /\ entities[f][n[f]].value = e)]
         ELSE /\ IF info.writer = Me(g)
                 THEN /\ LockOutcome(locks, p, {e}, "shared", "none") = "granted"
                      /\ locks' = SetRange(locks, p, {e}, "shared")
                      /\ SetEntry(p, e, [info EXCEPT !.writer = Nobody])
                 ELSE /\ SetEntry(p, e, [info EXCEPT !.readers = left])
                      /\ UNCHANGED locks
              /\ UNCHANGED valid

(* Wrong: the first entity is not undone. *)
UndoNotFirst(g) ==
  /\ pc[g] \in {"undo", "deadlock"}
  /\ n[g] > 1
  /\ IF n[g] = 2 THEN UNCHANGED <<locks, entry, valid>>
     ELSE Drop(g, entities[g][n[g] - 1].value)
  /\ n' = [n EXCEPT ![g] = @ - 1]
  /\ UNCHANGED <<m, pc, contended, sleeps, expired, call>>

(* The undo scope guard. *)
Undo(g) ==
  /\ pc[g] \in {"undo", "deadlock"}
  /\ n[g] > 1
  /\ Drop(g, entities[g][n[g] - 1].value)
  /\ n' = [n EXCEPT ![g] = @ - 1]
  /\ UNCHANGED <<m, pc, contended, sleeps, expired, call>>

(* lock() fails, with resource_deadlock_would_occur or timed_out. *)
Fail(g) ==
  /\ pc[g] = "deadlock" \/ (pc[g] = "undo" /\ expired[g])
  /\ n[g] = 1
  /\ DropM(g)
  /\ Leave({g})
  /\ UNCHANGED <<requests, locks, entry>>

(* The contended entity goes to the front, the rest is shuffled. *)
Reordered(s, first) ==
  { [i \in 1..Len(s) |-> s[p[i]]] :
      p \in {q \in Bijection(1..Len(s), 1..Len(s)) : q[1] = first} }

(* Sleeps on _changed or goes round at once.  Without a deadline the sleep *)
(* is until the epoch, which is no sleep.                                  *)
Retry(g) ==
  /\ pc[g] = "undo"
  /\ n[g] = 1
  /\ ~expired[g]
  /\ \E s \in Reordered(entities[g], contended[g]) :
       entities' = [entities EXCEPT ![g] = s]
  /\ DropM(g)
  /\ Goto(g, IF sleeps[g] /\ deadline[g] # "none" THEN "sleep" ELSE "enter")
  /\ UNCHANGED <<requests, locks, entry, n, contended, sleeps, valid, deadline, expired>>

(* Nobody ever notifies _changed: the deadline ends the sleep, or a        *)
(* spurious wake up does.                                                  *)
WakeEarly(g) ==
  /\ pc[g] = "sleep"
  /\ ~expired[g]
  /\ Goto(g, "enter")
  /\ UNCHANGED <<locks, entry, m, n, contended, sleeps, valid, expired, call>>

Wake(g) ==
  /\ pc[g] = "sleep"
  /\ expired[g]
  /\ Goto(g, "enter")
  /\ UNCHANGED <<locks, entry, m, n, contended, sleeps, valid, expired, call>>

Expire(g) ==
  /\ TimePasses
  /\ pc[g] \notin {"idle", "held", "unlock", "unlocking"}
  /\ deadline[g] # "none"
  /\ ~expired[g]
  /\ expired' = [expired EXCEPT ![g] = TRUE]
  /\ UNCHANGED <<locks, entry, m, pc, n, contended, sleeps, valid, call>>

(* unlock(entities), under _m throughout. *)
Unlock(g) ==
  /\ \A f \in Guards : Me(f) = Me(g) => pc[f] \in {"idle", "held"}
  /\ pc[g] = "held"
  /\ Goto(g, "unlock")
  /\ UNCHANGED <<locks, entry, m, n, contended, sleeps, valid, expired, call>>

EnterUnlock(g) ==
  /\ pc[g] = "unlock"
  /\ TakeM(g)
  /\ n' = [n EXCEPT ![g] = 1]
  /\ Goto(g, "unlocking")
  /\ UNCHANGED <<locks, entry, contended, sleeps, valid, expired, call>>

GiveEntity(g) ==
  /\ pc[g] = "unlocking"
  /\ n[g] <= Len(entities[g])
  /\ Drop(g, entities[g][n[g]].value)
  /\ n' = [n EXCEPT ![g] = @ + 1]
  /\ UNCHANGED <<m, pc, contended, sleeps, expired, call>>

Unlocked(g) ==
  /\ pc[g] = "unlocking"
  /\ n[g] > Len(entities[g])
  /\ DropM(g)
  /\ Leave({g})
  /\ UNCHANGED <<requests, locks, entry>>

(* A process exits at any point, and a new one takes its place. *)
Exit(p) ==
  /\ \E g \in Guards : Proc(g) = p /\ pc[g] # "idle"
  /\ locks' = SetRange(locks, p, Entities, "unlocked")
  /\ entry' = [entry EXCEPT ![p] = [e \in Entities |-> Absent]]
  /\ m' = [m EXCEPT ![p] = Nobody]
  /\ Leave({g \in Guards : Proc(g) = p})
  /\ UNCHANGED requests

Step(g) ==
  \/ Enter(g) \/ LeaveToAsk(g) \/ JoinReaders(g) \/ Relock(g) \/ ThreadContends(g)
  \/ Ask(g) \/ Insert(g) \/ Upgraded(g) \/ Refused(g) \/ Undo(g) \/ Fail(g) \/ Retry(g)
  \/ Wake(g) \/ EnterUnlock(g) \/ GiveEntity(g) \/ Unlocked(g)

-----------------------------------------------------------------------------
(* The history.  lock_file_range has returned to the guard, which does not *)
(* have _m yet: nothing tells other threads of the process about it.       *)
Granted(p, e) ==
  { g \in Guards : Proc(g) = p /\ pc[g] \in {"asked", "upgraded"} /\ entities[g][n[g]].value = e }

(* The threads of p that the map has for e, and those on their way into it. *)
Users(p, e) ==
  { Me(g) : g \in Granted(p, e) } \cup entry[p][e].readers \cup ({entry[p][e].writer} \ {Nobody})

(* The kernel grants p the byte though p may have it already: byte range   *)
(* locks do not conflict within a process.                                 *)
Crossing(p, e) == Granted(p, e) # {} /\ \E s, t \in Users(p, e) : s # t

(* The entities of a guard that its thread has in the map: all of them,     *)
(* those not yet unlocked, or those before the one being tried or undone.  *)
Owned(g) ==
  IF pc[g] \in {"held", "unlock"} THEN Range(entities[g])
  ELSE { entities[g][i] : i \in IF pc[g] = "unlocking" THEN n[g]..Len(entities[g])
                                ELSE 1..(n[g] - 1) }

Has(g, e) == \E x \in Owned(g) : x.value = e

Unused(p, e) ==
  /\ entry[p][e] = Absent /\ locks[p][e] = "unlocked" /\ Granted(p, e) = {}
  /\ \A g \in Guards : Proc(g) = p => ~Has(g, e)

(* What was crossed is so until nobody uses it; a write to freed memory    *)
(* has undefined effects until the process is gone.                        *)
Remember(gone) ==
  /\ crossed' = [p \in Processes |-> { e \in Entities :
                   ~Unused(p, e)' /\ (e \in crossed[p] \/ Crossing(p, e)') }]
  /\ wild' = { p \in Processes :
                \/ p \in wild \ gone
                \/ \E g \in Guards : Proc(g) = p /\ pc'[g] = "upgraded" /\ ~valid'[g] }

Next == \/ \E g \in Guards : /\ Lock(g) \/ Unlock(g) \/ Interrupt(g) \/ Expire(g) \/ WakeEarly(g) \/ Step(g)
                             /\ Remember({})
        \/ \E p \in Processes : Exit(p) /\ Remember({p})

Spec == Init /\ [][Next]_vars

-----------------------------------------------------------------------------
HoldsOf(g, e) ==
  IF pc[g] # "held" THEN {} ELSE { IF x.exclusive THEN "exclusive" ELSE "shared" :
                                x \in {y \in Range(entities[g]) : y.value = e} }

(* What the properties are about: e is used in p as the code expects it.    *)
Orderly(p, e) == p \notin wild /\ e \notin crossed[p]

(* What t nests locks on: two of its guards ask for it. *)
Uses(g, e) == \E s \in requests[g] : \E x \in Range(s) : x.value = e
Nests(t, e) == \E f, g \in Guards : f # g /\ Me(f) = t /\ Me(g) = t /\ Uses(f, e) /\ Uses(g, e)

(* No two threads, of one process or of two, hold guards on one entity in  *)
(* conflicting ways: whatever mix of threads and processes uses it, shared *)
(* and exclusively, for as long as no byte is granted to one thread while  *)
(* another of its process uses the entity.  Nested locks apart, whose      *)
(* unlocks give the exclusive one back first, whichever guard is unlocked. *)
Exclusion ==
  \A f, g \in Guards, e \in Entities :
    \A j \in HoldsOf(f, e), k \in HoldsOf(g, e) :
      (/\ Me(f) # Me(g) /\ ~Nests(Me(f), e) /\ ~Nests(Me(g), e)
       /\ Orderly(Proc(f), e) /\ Orderly(Proc(g), e))
        => ~Conflict(j, k)

(* The map and the kernel agree.  What the map says a process has, the     *)
(* kernel says too: an entry with a writer is backed by an exclusive byte, *)
(* any other by a locked one, so that other processes are excluded for as  *)
(* long as the entry exists.  And a byte is locked only for an entry, or   *)
(* for a thread on its way to make one: nothing is left behind by undoing, *)
(* time outs, nesting or exits.                                            *)
Backed ==
  \A p \in Processes, e \in Entities : Orderly(p, e) =>
    /\ entry[p][e].there =>
         /\ locks[p][e] # "unlocked"
         /\ entry[p][e].writer # Nobody => locks[p][e] = "exclusive"
    /\ (locks[p][e] # "unlocked" /\ ~entry[p][e].there) => Granted(p, e) # {}

(* The guards with which thread t of p has e, and its marks in the map. *)
Owners(p, e, t) == { g \in Guards : Proc(g) = p /\ Me(g) = t /\ Has(g, e) }

Marks(p, e, t) ==
  (IF entry[p][e].writer = t THEN {"exclusive"} ELSE {})
    \cup (IF t \in entry[p][e].readers THEN {"shared"} ELSE {})

(* The map is exact: a thread has a mark for each guard with which it has  *)
(* the entity, of the kind that guard asked for unless the thread nests    *)
(* locks on it, and an entry is there for somebody, whatever was retried,  *)
(* undone or given up and whatever others did while _m was given up.       *)
Accounted ==
  \A p \in Processes, e \in Entities : Orderly(p, e) =>
    /\ \A t \in Threads :
         /\ Cardinality(Marks(p, e, t)) = Cardinality(Owners(p, e, t))
         /\ \A g \in Owners(p, e, t) : \A x \in Owned(g) :
              (x.value = e /\ ~Nests(t, e)) => Kind(x) \in Marks(p, e, t)
    /\ entry[p][e].there => \E t \in Threads : Marks(p, e, t) # {}

(* A thread asleep in the kernel has no lock that others may wait for, if  *)
(* it does not nest locks.                                                 *)
SleepsEmptyHanded ==
  \A g \in Guards :
    (/\ pc[g] \in {"ask", "upgrade"} /\ Outcome(g) = "blocked"
     /\ \A f \in Guards : Me(f) = Me(g) => f = g \/ requests[f] = {})
      => /\ m[Proc(g)] # g
         /\ \A e \in Entities : LET info == entry[Proc(g)][e]
                                IN  Me(g) # info.writer /\ Me(g) \notin info.readers

=============================================================================
