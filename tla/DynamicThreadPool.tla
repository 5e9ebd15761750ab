-------------------------- MODULE DynamicThreadPool --------------------------
(***************************************************************************)
(* The pool of threads behind dynamic_thread_pool_group on Linux: threads  *)
(* are started, sleep when there is nothing to do, are woken, and leave    *)
(* when they have been idle for long or are too many.                      *)
(*                                                                         *)
(* Work items are alike here and counted, and a thread looks into all the  *)
(* queues in one step, as it adds to one; sections under threadpool_lock   *)
(* are one step, and so is an access to total_submitted_workitems.  Time   *)
(* passes by itself: a thread may be idle for long, a timer due and a      *)
(* sleep over at any point.                                                *)
(***************************************************************************)
EXTENDS Integers, FiniteSets, Sequences

CONSTANTS
  PoolThreads, \* as many threads as there may be at a time
  Clients,     \* threads outside of the pool that submit
  MaxItems,    \* bound: how many times a work item is submitted
  Faults       \* may std::thread fail?

ASSUME PoolAssumption ==
  /\ PoolThreads \cap Clients = {} /\ IsFiniteSet(PoolThreads) /\ IsFiniteSet(Clients)
  /\ MaxItems \in Nat
  /\ Faults \in BOOLEAN

PoolActors == PoolThreads \cup Clients

VARIABLES
  queued,             \* items in next_actives, or in the timer lists and due
  timers,             \* items in the timer lists that are not due
  total,              \* total_submitted_workitems
  threadpool_active,
  sleeping,           \* threadpool_sleeping, the longest asleep first
  notified,           \* sleeping threads whose condition variable has been notified
  pool_pc,
  seen,               \* what a thread or client has read: are there timers, active_work_items
  appended            \* for the bound

queues == <<queued, timers, total>>
pool == <<threadpool_active, sleeping, notified>>
poolvars == <<queues, pool, pool_pc, seen, appended>>

Sleepers == {sleeping[n] : n \in DOMAIN sleeping}

Labels == {"outside", "append", "count", "wake", "unborn", "look", "none", "sleep", "woken",
           "taken", "run", "metrics", "quit"}

PoolTypeOK ==
  /\ queued \in Nat /\ timers \in Nat /\ total \in Int
  /\ threadpool_active \subseteq PoolThreads
  /\ sleeping \in Seq(PoolThreads)
  /\ notified \subseteq Sleepers
  /\ pool_pc \in [PoolActors -> Labels]
  /\ seen \in [PoolActors -> Int]
  /\ appended \in 0..MaxItems

PoolInit ==
  /\ queued = 0 /\ timers = 0 /\ total = 0
  /\ threadpool_active = {} /\ sleeping = << >> /\ notified = {}
  /\ pool_pc = [a \in PoolActors |-> IF a \in Clients THEN "outside" ELSE "unborn"]
  /\ seen = [a \in PoolActors |-> 0]
  /\ appended = 0

PoolGoto(a, label) == pool_pc' = [pool_pc EXCEPT ![a] = label]

-----------------------------------------------------------------------------
(* _add_thread: a new thread is active from the start. *)
AddThread(a, label, t) ==
  /\ pool_pc[t] = "unborn"
  /\ threadpool_active' = threadpool_active \cup {t}
  /\ pool_pc' = [pool_pc EXCEPT ![a] = label, ![t] = "look"]

-----------------------------------------------------------------------------
(* _submit_work_item, by a client, or by a thread for an item that has     *)
(* more to do or that submits others.                                      *)

SubmitWorkItem(a) ==
  /\ pool_pc[a] \in {"outside", "run", "append"}
  /\ appended < MaxItems
  /\ appended' = appended + 1
  /\ \/ queued' = queued + 1 /\ UNCHANGED timers
     \/ timers' = timers + 1 /\ UNCHANGED queued
  /\ PoolGoto(a, "count")
  /\ UNCHANGED <<total, pool, seen>>

(* Mutant of Count: only the item that wakes the pool is counted. *)
CountLast(a) ==
  /\ pool_pc[a] = "count"
  /\ \/ PoolGoto(a, "wake") /\ total' = total + 1
     \/ PoolGoto(a, "append") /\ UNCHANGED total
  /\ seen' = [seen EXCEPT ![a] = total']
  /\ UNCHANGED <<queued, timers, pool, appended>>

(* defer_pool_wake: nobody is woken before the last item of a submission. *)
Count(a) ==
  /\ pool_pc[a] = "count"
  /\ total' = total + 1
  /\ seen' = [seen EXCEPT ![a] = total + 1]
  /\ PoolGoto(a, "wake") \/ PoolGoto(a, "append")
  /\ UNCHANGED <<queued, timers, pool, appended>>

(* Back to the caller: a client, or the work item that is executed. *)
PoolCaller(a) == IF a \in Clients THEN "outside" ELSE "run"

PoolReturn(a) ==
  /\ PoolGoto(a, PoolCaller(a))
  /\ seen' = [seen EXCEPT ![a] = 0]

(* The last item of a submission has no work (-1), and nothing is done. *)
LastHasNoWork(a) ==
  /\ pool_pc[a] = "append"
  /\ PoolReturn(a)
  /\ UNCHANGED <<queues, pool, appended>>

StartFirst(a) ==
  /\ pool_pc[a] = "wake"
  /\ threadpool_active = {} /\ sleeping = << >>
  /\ \E t \in PoolThreads : AddThread(a, PoolCaller(a), t)
  /\ seen' = [seen EXCEPT ![a] = 0]
  /\ UNCHANGED <<queues, sleeping, notified, appended>>

(* The failure is dropped. *)
StartFails(a) ==
  /\ Faults
  /\ pool_pc[a] = "wake"
  /\ threadpool_active = {} /\ sleeping = << >>
  /\ PoolReturn(a)
  /\ UNCHANGED <<queues, pool, appended>>

(* How many threads are missing; a number of items below zero wraps around *)
(* (size_t), and all are. *)
Missing(a) == IF seen[a] < 0 THEN Len(sleeping) ELSE seen[a] - Cardinality(threadpool_active)

(* Those that fell asleep last are woken, as many as are missing. *)
WakeSome(a) ==
  /\ pool_pc[a] = "wake"
  /\ threadpool_active # {} \/ sleeping # << >>
  /\ notified' = notified \cup
       {sleeping[n] : n \in {m \in DOMAIN sleeping : m > Len(sleeping) - Missing(a)}}
  /\ PoolReturn(a)
  /\ UNCHANGED <<queues, threadpool_active, sleeping, appended>>

-----------------------------------------------------------------------------
(* _execute_work. *)

(* An item that is due is taken, and then not counted any more. *)
Take(t) ==
  /\ pool_pc[t] = "look"
  /\ queued > 0
  /\ queued' = queued - 1
  /\ PoolGoto(t, "taken")
  /\ UNCHANGED <<timers, total, pool, seen, appended>>

Discount(t) ==
  /\ pool_pc[t] = "taken"
  /\ total' = total - 1
  /\ PoolGoto(t, "run")
  /\ UNCHANGED <<queued, timers, pool, seen, appended>>

LookInVain(t) ==
  /\ pool_pc[t] = "look"
  /\ queued = 0
  /\ seen' = [seen EXCEPT ![t] = IF timers > 0 THEN 1 ELSE 0]
  /\ PoolGoto(t, "none")
  /\ UNCHANGED <<queues, pool, appended>>

(* A thread that has been idle for ms_sleep_for_more_work leaves if others *)
(* are active or if it saw no timers.  It may then be born again as a new one. *)
MayLeave(t) == Cardinality(threadpool_active) > 1 \/ seen[t] = 0

Left(t) ==
  /\ threadpool_active' = threadpool_active \ {t}
  /\ PoolGoto(t, "unborn")
  /\ seen' = [seen EXCEPT ![t] = 0]

Leave(t) ==
  /\ pool_pc[t] = "none"
  /\ MayLeave(t)
  /\ Left(t)
  /\ UNCHANGED <<queues, sleeping, notified, appended>>

Sleep(t) ==
  /\ pool_pc[t] = "none"
  /\ threadpool_active' = threadpool_active \ {t}
  /\ sleeping' = Append(sleeping, t)
  /\ PoolGoto(t, "sleep")
  /\ seen' = [seen EXCEPT ![t] = 0]
  /\ UNCHANGED <<queues, notified, appended>>

(* _remove_from_list of the k-th element. *)
RemoveFromList(s, k) == [i \in 1..Len(s) - 1 |-> IF i < k THEN s[i] ELSE s[i + 1]]

(* Mutant of WakeUp: the wait has no time out. *)
WakeUpNotified(t) ==
  /\ pool_pc[t] = "sleep"
  /\ t \in notified
  /\ \E k \in DOMAIN sleeping : sleeping[k] = t /\ sleeping' = RemoveFromList(sleeping, k)
  /\ notified' = notified \ {t}
  /\ threadpool_active' = threadpool_active \cup {t}
  /\ PoolGoto(t, "woken")
  /\ UNCHANGED <<queues, seen, appended>>

(* Notified or not: every wait has a time out. *)
WakeUp(t) ==
  /\ pool_pc[t] = "sleep"
  /\ \E k \in DOMAIN sleeping : sleeping[k] = t /\ sleeping' = RemoveFromList(sleeping, k)
  /\ notified' = notified \ {t}
  /\ threadpool_active' = threadpool_active \cup {t}
  /\ PoolGoto(t, "woken")
  /\ UNCHANGED <<queues, seen, appended>>

(* The work item has been executed and has no more to do. *)
Executed(t) ==
  /\ pool_pc[t] = "run"
  /\ PoolGoto(t, "metrics")
  /\ UNCHANGED <<queues, pool, seen, appended>>

(* populate_threadmetrics: if too few run another thread is started, if    *)
(* too many run a thread that has worked, but not the last, is to leave.   *)
(* Measuring is left open. *)
EnoughRun(t) ==
  /\ pool_pc[t] \in {"metrics", "woken"}
  /\ PoolGoto(t, "look")
  /\ UNCHANGED <<queues, pool, seen, appended>>

TooFewRun(t) ==
  /\ pool_pc[t] \in {"metrics", "woken"}
  /\ Cardinality(threadpool_active) < total
  /\ \E new \in PoolThreads : AddThread(t, "look", new)
  /\ UNCHANGED <<queues, sleeping, notified, seen, appended>>

TooManyRun(t) ==
  /\ pool_pc[t] = "metrics"
  /\ Cardinality(threadpool_active) > 1
  /\ PoolGoto(t, "quit")
  /\ UNCHANGED <<queues, pool, seen, appended>>

Quit(t) ==
  /\ pool_pc[t] = "quit"
  /\ Left(t)
  /\ UNCHANGED <<queues, sleeping, notified, appended>>

(* Time passes. *)
TimerDue ==
  /\ timers > 0
  /\ timers' = timers - 1
  /\ queued' = queued + 1
  /\ UNCHANGED <<total, pool, pool_pc, seen, appended>>

-----------------------------------------------------------------------------
Submitting(a) ==
  Count(a) \/ LastHasNoWork(a) \/ StartFirst(a) \/ StartFails(a) \/ WakeSome(a)

Work(t) ==
  \/ Take(t) \/ Discount(t) \/ LookInVain(t) \/ Leave(t) \/ Sleep(t) \/ WakeUp(t)
  \/ Executed(t) \/ EnoughRun(t) \/ TooFewRun(t) \/ TooManyRun(t) \/ Quit(t)

PoolNext ==
  \/ \E a \in PoolActors : SubmitWorkItem(a) \/ Submitting(a)
  \/ \E t \in PoolThreads : Work(t)
  \/ TimerDue

(* Threads run, submissions proceed, and timers get due. *)
PoolFairness ==
  /\ \A a \in PoolActors : WF_poolvars(Submitting(a))
  /\ \A t \in PoolThreads : WF_poolvars(Work(t))
  /\ WF_poolvars(TimerDue)

PoolSpec == PoolInit /\ [][PoolNext]_poolvars /\ PoolFairness

-----------------------------------------------------------------------------
(* Properties. *)

(* total_submitted_workitems, from which the number of threads to wake or  *)
(* to start is derived, is the number of items in the queues: it is behind *)
(* by those that have been added but not counted, which a thread may have  *)
(* taken already, and ahead by those that have just been taken. *)
Accounted ==
  total = queued + timers + Cardinality({t \in PoolThreads : pool_pc[t] = "taken"})
          - Cardinality({a \in PoolActors : pool_pc[a] = "count"})

(* Every thread is in the list that goes with what it does, and only once. *)
InLists ==
  /\ \A i, j \in DOMAIN sleeping : sleeping[i] = sleeping[j] => i = j
  /\ \A t \in PoolThreads :
       /\ t \in Sleepers <=> pool_pc[t] = "sleep"
       /\ t \in threadpool_active <=> pool_pc[t] \notin {"unborn", "sleep"}

(* There is work, but no thread, nor anybody who is about to start one. *)
Abandoned ==
  /\ queued + timers > 0
  /\ threadpool_active = {} /\ sleeping = << >>
  /\ \A a \in PoolActors : pool_pc[a] \notin {"append", "count", "wake"}

(* Work in the queues is taken, unless the pool is left without a thread;  *)
(* lost notifications are made up for. *)
WorkIsDone == queued + timers > 0 ~> (queued + timers = 0 \/ Abandoned)

(* Submitted work, timers included, has a thread to execute it. *)
NeverAbandoned == ~Abandoned

=============================================================================
