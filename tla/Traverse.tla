------------------------------ MODULE Traverse ------------------------------
(***************************************************************************)
(* algorithm::traverse(): threads walk a directory tree breadth first.     *)
(* The directories still to be visited are in one list per level; a thread *)
(* that finds none known to remain sleeps, and when all sleep it is over.  *)
(*                                                                         *)
(* All shared state is guarded by state.lock.  The thread that called      *)
(* traverse() first visits some directories itself, then starts the others *)
(* and waits for them.  Levels count from 1.                               *)
(***************************************************************************)
EXTENDS Integers, FiniteSets, SequencesExt

CONSTANTS
  WorkerThreads, \* the worker threads
  Main,          \* the thread that calls traverse()
  Nobody,
  Directories,   \* the directories of the tree
  Root,          \* the one traversed
  Subdirs,       \* what enumerating a directory finds
  FirstRuns,     \* how many directories are visited before threads start (4)
  MayFail        \* may the system or the visitor fail?

ASSUME TraverseAssumption ==
  /\ Main \notin WorkerThreads /\ Nobody \notin WorkerThreads \cup {Main} \cup Directories
  /\ IsFiniteSet(WorkerThreads) /\ WorkerThreads # {}
  /\ IsFiniteSet(Directories) /\ Root \in Directories
  /\ Subdirs \in [Directories -> SUBSET (Directories \ {Root})]
  /\ \A d, e \in Directories : d # e => Subdirs[d] \cap Subdirs[e] = {}
  /\ FirstRuns \in Nat \ {0}
  /\ MayFail \in BOOLEAN

Workers == WorkerThreads \cup {Main}

VARIABLES
  lock,        \* who has state.lock
  workqueue, workqueue_base, known_dirs_remaining, dirs_processed,
  threads_sleeping, threads_running, done, run_error,
  at,
  runs,        \* n: how many directories Main has visited itself
  work, level, \* mywork and mylevel of each worker
  newwork,     \* and what it found to add to the queue
  found,       \* history: the directories that are to be visited
  visits       \* history: how often each has been

queues == <<workqueue, workqueue_base, known_dirs_remaining, dirs_processed>>
pool == <<threads_sleeping, threads_running, done, run_error>>
locals == <<work, level, newwork>>
marks == <<found, visits>>
traverse_vars == <<lock, queues, pool, at, runs, locals, marks>>

InRun == {"run", "visit", "add", "updated", "ran", "failed"}
OfMain == {"first", "spawn", "failing", "wait", "waiting", "notified", "drain", "notify",
           "relock", "join", "success", "error"}
OfThread == {"none", "begin", "loop", "asleep", "woken", "exit", "dead"}

TraverseTypeOK ==
  /\ lock \in Workers \cup {Nobody}
  /\ workqueue \in Seq(Seq(Directories))
  /\ workqueue_base \in 1..Len(workqueue)
  /\ known_dirs_remaining \in Nat
  /\ dirs_processed \in Nat
  /\ threads_sleeping \in 0..Cardinality(WorkerThreads)
  /\ threads_running \in 0..Cardinality(WorkerThreads)
  /\ done \in BOOLEAN /\ run_error \in BOOLEAN
  /\ at \in [Workers -> InRun \cup OfMain \cup OfThread]
  /\ at[Main] \notin OfThread
  /\ \A t \in WorkerThreads : at[t] \notin OfMain
  /\ runs \in Nat
  /\ work \in [Workers -> Directories \cup {Nobody}]
  /\ level \in [Workers -> Nat]
  /\ newwork \in [Workers -> Seq(Directories)]
  /\ found \subseteq Directories
  /\ visits \in [Directories -> Nat]

TraverseInit ==
  /\ lock = Nobody
  /\ workqueue = << <<Root>> >>
  /\ workqueue_base = 1
  /\ known_dirs_remaining = 1
  /\ dirs_processed = 0
  /\ threads_sleeping = 0 /\ threads_running = 0
  /\ done = FALSE /\ run_error = FALSE
  /\ at = [w \in Workers |-> IF w = Main THEN "first" ELSE "none"]
  /\ runs = 0
  /\ work = [w \in Workers |-> Nobody]
  /\ level = [w \in Workers |-> 0]
  /\ newwork = [w \in Workers |-> << >>]
  /\ found = {Root}
  /\ visits = [d \in Directories |-> 0]

Goto(w, label) == at' = [at EXCEPT ![w] = label]

-----------------------------------------------------------------------------
(* worker::run(), entered with the lock held. *)

(* The levels that have work, among those run() looks at. *)
NonEmpty == {l \in workqueue_base..Len(workqueue) : workqueue[l] # << >>}

(* Takes the least deep work there is. *)
TakeWork(w) ==
  LET l == Min(NonEmpty) IN
  /\ at[w] = "run"
  /\ NonEmpty # {}
  /\ work' = [work EXCEPT ![w] = Head(workqueue[l])]
  /\ level' = [level EXCEPT ![w] = l]
  /\ workqueue' = [workqueue EXCEPT ![l] = Tail(@)]
  /\ workqueue_base' = l
  /\ dirs_processed' = dirs_processed + 1
  /\ known_dirs_remaining' = known_dirs_remaining - 1
  /\ lock' = Nobody
  /\ Goto(w, "visit")
  /\ UNCHANGED <<pool, runs, newwork, marks>>

(* There is none: run() returns, still with the lock. *)
NoWork(w) ==
  /\ at[w] = "run"
  /\ NonEmpty = {}
  /\ Goto(w, "ran")
  /\ UNCHANGED <<lock, queues, pool, runs, locals, marks>>

Visited(w) == visits' = [visits EXCEPT ![work[w]] = @ + 1]

(* Opens and enumerates the directory, without the lock.  The visitor may  *)
(* take any of the entries out of what was found. *)
Visit(w) ==
  /\ at[w] = "visit"
  /\ Visited(w)
  /\ \E kept \in SUBSET Subdirs[work[w]] :
       /\ found' = found \cup kept
       /\ \E s \in SetToSeqs(kept) : newwork' = [newwork EXCEPT ![w] = s]
  /\ Goto(w, "add")
  /\ UNCHANGED <<lock, queues, pool, runs, work, level>>

(* The directory cannot be opened and the visitor passes over it, or the   *)
(* visitor does not want it enumerated.  Nothing is added to the queue. *)
Skip(w) ==
  /\ at[w] = "visit"
  /\ Visited(w)
  /\ Goto(w, "ran")
  /\ UNCHANGED <<lock, queues, pool, runs, locals, found>>

(* The queue with a list more, if level l + 1 has none yet. *)
Grown(l) == IF Len(workqueue) < l + 1 THEN Append(workqueue, << >>) ELSE workqueue

(* Puts what was found into the next level's list, in one hold of the lock. *)
AddNewWork(w) ==
  /\ at[w] = "add"
  /\ lock = Nobody
  /\ known_dirs_remaining' = known_dirs_remaining + Len(newwork[w])
  /\ workqueue' = [Grown(level[w]) EXCEPT ![level[w] + 1] = @ \o newwork[w]]
  /\ workqueue_base' = Min({level[w] + 1, workqueue_base})
  /\ newwork' = [newwork EXCEPT ![w] = << >>]
  /\ Goto(w, "updated")
  /\ UNCHANGED <<lock, dirs_processed, pool, runs, work, level, marks>>

(* Tells the visitor, without the lock; run() returns. *)
Updated(w) ==
  /\ at[w] = "updated"
  /\ Goto(w, "ran")
  /\ UNCHANGED <<lock, queues, pool, runs, locals, marks>>

(* Opening or enumerating the directory or the visitor fails. *)
RunFails(w) ==
  /\ MayFail
  /\ at[w] \in {"visit", "updated"}
  /\ Goto(w, "failed")
  /\ UNCHANGED <<lock, queues, pool, runs, locals, marks>>

Run(w) ==
  \/ TakeWork(w) \/ NoWork(w) \/ Visit(w) \/ Skip(w)
  \/ AddNewWork(w) \/ Updated(w) \/ RunFails(w)

-----------------------------------------------------------------------------
(* The threads. *)

(* maincond.notify_all() of a thread that goes on at label. *)
NotifyMain(t, label) ==
  at' = [at EXCEPT ![t] = label, ![Main] = IF @ = "waiting" THEN "notified" ELSE @]

(* cond.notify_all() of a worker that goes on at label. *)
NotifyThreads(w, label) ==
  at' = [v \in Workers |-> IF v = w THEN label ELSE IF at[v] = "asleep" THEN "woken" ELSE at[v]]

Begin(t) ==
  /\ at[t] = "begin"
  /\ lock = Nobody
  /\ lock' = t
  /\ threads_running' = threads_running + 1
  /\ Goto(t, "loop")
  /\ UNCHANGED <<queues, threads_sleeping, done, run_error, runs, locals, marks>>

(* Mutant of Sleep: a thread that falls asleep does not tell Main. *)
SleepUntold(t) ==
  /\ at[t] = "loop"
  /\ ~done
  /\ known_dirs_remaining = 0
  /\ threads_sleeping' = threads_sleeping + 1
  /\ lock' = Nobody
  /\ Goto(t, "asleep")
  /\ UNCHANGED <<queues, threads_running, done, run_error, runs, locals, marks>>

(* No directory is known to remain: the thread sleeps, giving up the lock. *)
Sleep(t) ==
  /\ at[t] = "loop"
  /\ ~done
  /\ known_dirs_remaining = 0
  /\ threads_sleeping' = threads_sleeping + 1
  /\ lock' = Nobody
  /\ NotifyMain(t, "asleep")
  /\ UNCHANGED <<queues, threads_running, done, run_error, runs, locals, marks>>

(* There are some: everybody is woken. *)
WakeEverybody(t) ==
  /\ at[t] = "loop"
  /\ ~done
  /\ known_dirs_remaining > 0
  /\ NotifyThreads(t, "run")
  /\ UNCHANGED <<lock, queues, pool, runs, locals, marks>>

(* Mutant of Awake: the thread still counts as sleeping while it works. *)
AwakeStillCounted(t) ==
  /\ at[t] = "woken"
  /\ lock = Nobody
  /\ lock' = t
  /\ Goto(t, IF done THEN "exit" ELSE "run")
  /\ UNCHANGED <<queues, pool, runs, locals, marks>>

(* cond.wait() returns, with the lock: without looking whether there is    *)
(* work the thread calls run(). *)
Awake(t) ==
  /\ at[t] = "woken"
  /\ lock = Nobody
  /\ lock' = t
  /\ threads_sleeping' = threads_sleeping - 1
  /\ Goto(t, IF done THEN "exit" ELSE "run")
  /\ UNCHANGED <<queues, threads_running, done, run_error, runs, locals, marks>>

(* run() has returned, with or without the lock. *)
Ran(t) ==
  /\ at[t] = "ran"
  /\ lock \in {t, Nobody}
  /\ lock' = t
  /\ Goto(t, "loop")
  /\ UNCHANGED <<queues, pool, runs, locals, marks>>

(* run() has failed: the first error is kept, and everybody is to stop. *)
Failed(t) ==
  /\ at[t] = "failed"
  /\ lock = Nobody
  /\ lock' = t
  /\ done' = TRUE
  /\ run_error' = TRUE
  /\ Goto(t, "exit")
  /\ UNCHANGED <<queues, threads_sleeping, threads_running, runs, locals, marks>>

(* The thread ends, at the head of its loop or out of it. *)
Exit(t) ==
  /\ at[t] = "exit" \/ (at[t] = "loop" /\ done)
  /\ threads_sleeping' = threads_sleeping + 1
  /\ threads_running' = threads_running - 1
  /\ lock' = Nobody
  /\ NotifyMain(t, "dead")
  /\ UNCHANGED <<queues, done, run_error, runs, locals, marks>>

(* A condition variable's wait may return though nobody notified it. *)
SpuriousWakeup(t) ==
  /\ at[t] = "asleep"
  /\ Goto(t, "woken")
  /\ UNCHANGED <<lock, queues, pool, runs, locals, marks>>

WorkerThread(t) ==
  \/ Begin(t) \/ Sleep(t) \/ WakeEverybody(t) \/ Awake(t)
  \/ Ran(t) \/ Failed(t) \/ Exit(t)

-----------------------------------------------------------------------------
(* The caller of traverse(). *)

(* Visits a directory itself: all of them if there is to be one thread. *)
FirstRun ==
  /\ at[Main] = "first"
  /\ known_dirs_remaining > 0
  /\ Cardinality(WorkerThreads) = 1 \/ runs < FirstRuns
  /\ lock' = Main
  /\ Goto(Main, "run")
  /\ UNCHANGED <<queues, pool, runs, locals, marks>>

FirstRan ==
  /\ at[Main] = "ran"
  /\ runs' = runs + 1
  /\ Goto(Main, "first")
  /\ UNCHANGED <<lock, queues, pool, locals, marks>>

FirstFailed ==
  /\ at[Main] = "failed"
  /\ Goto(Main, "error")
  /\ UNCHANGED <<lock, queues, pool, runs, locals, marks>>

(* Has visited enough: threads are started if there is work for them. *)
FirstDone ==
  /\ at[Main] = "first"
  /\ known_dirs_remaining = 0 \/ (Cardinality(WorkerThreads) # 1 /\ runs >= FirstRuns)
  /\ lock' = Nobody
  /\ Goto(Main, IF known_dirs_remaining > 0 THEN "spawn" ELSE "success")
  /\ UNCHANGED <<queues, pool, runs, locals, marks>>

Unborn == {t \in WorkerThreads : at[t] = "none"}

Spawn(t) ==
  /\ at[Main] = "spawn"
  /\ t \in Unborn
  /\ at' = [at EXCEPT ![t] = "begin", ![Main] = IF Unborn = {t} THEN "wait" ELSE @]
  /\ UNCHANGED <<lock, queues, pool, runs, locals, marks>>

(* std::thread throws. *)
SpawnFails ==
  /\ MayFail
  /\ at[Main] = "spawn"
  /\ Goto(Main, "failing")
  /\ UNCHANGED <<lock, queues, pool, runs, locals, marks>>

(* handle_failure, the scope guard: the threads there are have to stop. *)
HandleFailure ==
  /\ at[Main] = "failing"
  /\ lock = Nobody
  /\ lock' = Main
  /\ done' = TRUE
  /\ Goto(Main, "drain")
  /\ UNCHANGED <<queues, threads_sleeping, threads_running, run_error, runs, locals, marks>>

(* Waits until every thread sleeps or one has failed. *)
Wait ==
  /\ at[Main] \in {"wait", "notified"}
  /\ lock = Nobody
  /\ threads_sleeping < Cardinality(WorkerThreads)
  /\ ~done
  /\ Goto(Main, "waiting")
  /\ UNCHANGED <<lock, queues, pool, runs, locals, marks>>

Waited ==
  /\ at[Main] \in {"wait", "notified"}
  /\ lock = Nobody
  /\ threads_sleeping >= Cardinality(WorkerThreads) \/ done
  /\ lock' = Main
  /\ done' = TRUE
  /\ Goto(Main, "drain")
  /\ UNCHANGED <<queues, threads_sleeping, threads_running, run_error, runs, locals, marks>>

MainSpuriousWakeup ==
  /\ at[Main] = "waiting"
  /\ Goto(Main, "notified")
  /\ UNCHANGED <<lock, queues, pool, runs, locals, marks>>

(* Wakes the threads again and again until none is left. *)
Drain ==
  /\ at[Main] = "drain"
  /\ lock' = Nobody
  /\ Goto(Main, IF threads_running > 0 THEN "notify" ELSE "join")
  /\ UNCHANGED <<queues, pool, runs, locals, marks>>

Notify ==
  /\ at[Main] = "notify"
  /\ NotifyThreads(Main, "relock")
  /\ UNCHANGED <<lock, queues, pool, runs, locals, marks>>

Relock ==
  /\ at[Main] = "relock"
  /\ lock = Nobody
  /\ lock' = Main
  /\ Goto(Main, "drain")
  /\ UNCHANGED <<queues, pool, runs, locals, marks>>

(* Mutant of Join: the threads are taken to have ended when none is counted as running. *)
JoinNobody ==
  /\ at[Main] = "join"
  /\ Goto(Main, IF run_error \/ Unborn # {} THEN "error" ELSE "success")
  /\ UNCHANGED <<lock, queues, pool, runs, locals, marks>>

(* Joins every thread that was started; a failure is reported after that. *)
Join ==
  /\ at[Main] = "join"
  /\ \A t \in WorkerThreads : at[t] \in {"none", "dead"}
  /\ Goto(Main, IF run_error \/ Unborn # {} THEN "error" ELSE "success")
  /\ UNCHANGED <<lock, queues, pool, runs, locals, marks>>

Caller ==
  \/ FirstRun \/ FirstRan \/ FirstFailed \/ FirstDone
  \/ SpawnFails \/ HandleFailure \/ \E t \in WorkerThreads : Spawn(t)
  \/ Wait \/ Waited \/ Drain \/ Notify \/ Relock \/ Join

Returned == at[Main] \in {"success", "error"}

Step(w) == Run(w) \/ (w \in WorkerThreads /\ WorkerThread(w)) \/ (w = Main /\ Caller)

TraverseNext ==
  \/ \E w \in Workers : Step(w)
  \/ \E t \in WorkerThreads : SpuriousWakeup(t)
  \/ MainSpuriousWakeup
  \/ Returned /\ UNCHANGED traverse_vars

(* Every thread keeps running and is not for ever passed over when it      *)
(* waits for the lock. *)
TraverseFairness ==
  \A w \in Workers : SF_traverse_vars(Step(w))

TraverseSpec == TraverseInit /\ [][TraverseNext]_traverse_vars /\ TraverseFairness

-----------------------------------------------------------------------------
(* Properties. *)

(* known_dirs_remaining, by which threads decide whether to sleep, agrees  *)
(* with what run() would find: it never looks below workqueue_base, so     *)
(* nothing may be there, though a slow thread adds to a level the others   *)
(* have long left. *)
QueueSound == known_dirs_remaining > 0 <=> NonEmpty # {}

(* traverse() does not stop early: when it succeeds the lists are empty    *)
(* (the assert at its end), every directory found has been visited, none   *)
(* twice, and the number returned is theirs. *)
Complete ==
  at[Main] = "success" =>
    /\ \A l \in DOMAIN workqueue : workqueue[l] = << >>
    /\ \A d \in found : visits[d] = 1
    /\ dirs_processed = Cardinality(found)

(* When traverse() returns, whatever the result, no thread is left that    *)
(* could use the state it kept on its stack, not even one that has not     *)
(* counted itself as running yet. *)
Quiescent == Returned => \A t \in WorkerThreads : at[t] \in {"none", "dead"}

(* traverse() returns. *)
TraverseReturns == <>Returned

=============================================================================
