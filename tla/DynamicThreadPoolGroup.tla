----------------------- MODULE DynamicThreadPoolGroup -----------------------
(***************************************************************************)
(* dynamic_thread_pool_group: the life of one group of work items.         *)
(* submit(), stop() and wait() are called by users and, the first two,     *)
(* also by the work items themselves; the threads of the pool execute the  *)
(* items, and the one that finishes the last of them completes the group.  *)
(*                                                                         *)
(* The pool is seen as a multiset of scheduled items, of which its threads *)
(* take any; DynamicThreadPool models how they do.  Loads of the atomic    *)
(* flags outside the group's lock are steps of their own.                  *)
(***************************************************************************)
EXTENDS Naturals, FiniteSets, Sequences

CONSTANTS
  Items,       \* work items
  Users,       \* threads that use the group
  Submitters,  \* those of them that submit items, and not only stop and wait
  Threads,     \* threads of the pool
  Nobody,
  MaxSubmits,  \* bound: how many submissions there are
  MaxNext      \* bound: how often next() of an item announces more work

ASSUME GroupAssumption ==
  /\ Submitters \subseteq Users
  /\ Users \cap Threads = {} /\ Nobody \notin Users \cup Threads \cup Items
  /\ MaxSubmits \in Nat /\ MaxNext \in Nat

Actors == Users \cup Threads

VARIABLES
  lock,        \* _lock of the group
  stopping, stopped, completing, waits,
  abnormal,    \* _abnormal_completion_cause is an error
  active, done, \* _work_items_active and _work_items_done
  delayed,     \* _work_items_delayed
  parent,      \* is _parent set?
  nextwork, timer, \* _nextwork, and whether a time point is set
  scheduled,   \* how often the item is in the queues of the pool
  pc,
  job,         \* the item a thread of the pool executes
  batch,       \* the items an actor is submitting
  finishing,   \* those whose group_complete() is about to be called
  left, submits, \* for the bounds
  owed,        \* history: items accepted whose group_complete() is still to come
  awaited,     \* history: those of them that were owed when a user called wait()
  orderly      \* history: has the group been used in the way that works?

flags == <<stopping, stopped, completing, waits, abnormal>>
lists == <<active, done, delayed>>
items == <<parent, nextwork, timer, left>>
work == <<job, batch, finishing>>
history == <<submits, owed, awaited, orderly>>
vars == <<lock, flags, lists, items, scheduled, pc, work, history>>

UserLabels == {"idle", "waitlock", "wait", "waited", "timedout"}
ThreadLabels == {"take", "body", "failed", "finish", "complete", "blocked", "resubmit"}
CallLabels == {"submit", "delay", "accept", "schedule", "recount", "stop"}

TypeOK ==
  /\ lock \in Actors \cup {Nobody}
  /\ stopping \in BOOLEAN /\ stopped \in BOOLEAN /\ completing \in BOOLEAN
  /\ waits \in 0..Cardinality(Users)
  /\ abnormal \in BOOLEAN
  /\ active \subseteq Items /\ done \subseteq Items
  /\ delayed \in Seq(Items)
  /\ parent \in [Items -> BOOLEAN]
  /\ nextwork \in [Items -> {"none", "later", "work"}]
  /\ timer \in [Items -> BOOLEAN]
  /\ left \in [Items -> 0..MaxNext]
  /\ scheduled \in [Items -> Nat]
  /\ pc \in [Actors -> UserLabels \cup ThreadLabels \cup CallLabels]
  /\ job \in [Actors -> Items \cup {Nobody}]
  /\ batch \in [Actors -> SUBSET Items]
  /\ finishing \in [Actors -> SUBSET Items]
  /\ submits \in 0..MaxSubmits
  /\ owed \subseteq Items
  /\ awaited \in [Users -> SUBSET Items]
  /\ orderly \in BOOLEAN

Init ==
  /\ lock = Nobody
  /\ stopping = FALSE /\ stopped = TRUE /\ completing = FALSE
  /\ waits = 0
  /\ abnormal = FALSE
  /\ active = {} /\ done = {} /\ delayed = << >>
  /\ parent = [i \in Items |-> FALSE]
  /\ nextwork = [i \in Items |-> "none"]
  /\ timer = [i \in Items |-> FALSE]
  /\ left = [i \in Items |-> 0]
  /\ scheduled = [i \in Items |-> 0]
  /\ pc = [a \in Actors |-> IF a \in Users THEN "idle" ELSE "take"]
  /\ job = [a \in Actors |-> Nobody]
  /\ batch = [a \in Actors |-> {}]
  /\ finishing = [a \in Actors |-> {}]
  /\ submits = 0
  /\ owed = {}
  /\ awaited = [u \in Users |-> {}]
  /\ orderly = TRUE

Goto(a, label) == pc' = [pc EXCEPT ![a] = label]

(* Where a call returns to: a user's program or operator() of an item. *)
Caller(a) == IF a \in Users THEN "idle" ELSE "body"
Return(a) == Goto(a, Caller(a))

-----------------------------------------------------------------------------
(* What the user's code says and does. *)

(* An answer of next(): -1, 0 or work, now or after a delay.  0 is asked   *)
(* again by a timer (_prepare_work_item_delay).  The delay is valid. *)
None == [next |-> "none", timer |-> FALSE]
More == {[next |-> "later", timer |-> TRUE], [next |-> "work", timer |-> FALSE],
         [next |-> "work", timer |-> TRUE]}
Answers(n) == IF n = 0 THEN {None} ELSE {None} \cup More

(* The items that may be submitted: not in a group, nor waiting for their  *)
(* group_complete(), nor being submitted by somebody. *)
Submittable ==
  {i \in Items : ~parent[i] /\ \A a \in Actors : i \notin batch[a] \cup finishing[a]}

(* The group works as documented as long as users submit only when all     *)
(* that was submitted before is complete and nobody else is submitting,    *)
(* some item of a submission to an idle group has work, and no             *)
(* group_complete() submits.  Items may submit and stop as they execute. *)
Quiet == stopped /\ owed = {} /\ \A a \in Users : pc[a] \notin {"submit", "delay", "accept", "schedule", "recount"}

-----------------------------------------------------------------------------
(* submit(). *)

Submit(a, S) ==
  /\ a \in Submitters \cup Threads
  /\ pc[a] = Caller(a)
  /\ submits < MaxSubmits
  /\ S # {} /\ S \subseteq Submittable
  /\ orderly' = (orderly /\ (a \in Users => Quiet))
  /\ IF stopping
       THEN UNCHANGED <<batch, pc>>
       ELSE batch' = [batch EXCEPT ![a] = S] /\ Goto(a, "submit")
  /\ submits' = submits + 1
  /\ UNCHANGED <<lock, flags, lists, items, scheduled, job, finishing, owed, awaited>>

(* The group is calling group_complete(): the items are for later. *)
SubmitCompleting(a) ==
  /\ pc[a] = "submit"
  /\ completing
  /\ Goto(a, "delay")
  /\ UNCHANGED <<lock, flags, lists, items, scheduled, work, history>>

(* They are put aside without the lock. *)
Delay(a, i) ==
  /\ pc[a] = "delay"
  /\ i \in batch[a]
  /\ parent' = [parent EXCEPT ![i] = TRUE]
  /\ delayed' = Append(delayed, i)
  /\ owed' = owed \cup {i}
  /\ batch' = [batch EXCEPT ![a] = @ \ {i}]
  /\ IF batch[a] = {i} THEN Return(a) ELSE UNCHANGED pc
  /\ UNCHANGED <<lock, flags, active, done, nextwork, timer, left, scheduled, job, finishing,
                 submits, awaited, orderly>>

SubmitNow(a) ==
  /\ pc[a] = "submit"
  /\ ~completing
  /\ stopped' = FALSE
  /\ Goto(a, "accept")
  /\ UNCHANGED <<lock, stopping, completing, waits, abnormal, lists, items, scheduled, work, history>>

(* Every item is asked for its first work, in one hold of the lock. *)
Accept(a) ==
  /\ pc[a] = "accept"
  /\ lock = Nobody
  /\ abnormal' = (abnormal /\ active \cup done # {})
  /\ \E said \in [batch[a] -> Answers(MaxNext)] :
       LET no == {i \in batch[a] : said[i] = None} IN
       /\ orderly' = (orderly /\ (active # {} \/ no # batch[a]))
       /\ done' = done \cup no
       /\ active' = active \cup (batch[a] \ no)
       /\ nextwork' = [i \in Items |-> IF i \in batch[a] THEN said[i].next ELSE nextwork[i]]
       /\ timer' = [i \in Items |-> IF i \in batch[a] THEN said[i].timer ELSE timer[i]]
       /\ left' = [i \in Items |-> IF i \in batch[a] \ no THEN MaxNext - 1
                                   ELSE IF i \in no THEN 0 ELSE left[i]]
  /\ parent' = [i \in Items |-> parent[i] \/ i \in batch[a]]
  /\ owed' = owed \cup batch[a]
  /\ Goto(a, "schedule")
  /\ UNCHANGED <<lock, stopping, stopped, completing, waits, delayed, scheduled, work, submits, awaited>>

(* Mutant of Schedule: items that have no work are scheduled too. *)
ScheduleAll(a, i) ==
  /\ pc[a] = "schedule"
  /\ i \in batch[a]
  /\ scheduled' = [scheduled EXCEPT ![i] = @ + 1]
  /\ batch' = [batch EXCEPT ![a] = @ \ {i}]
  /\ IF batch[a] = {i} THEN Goto(a, "recount") ELSE UNCHANGED pc
  /\ UNCHANGED <<lock, flags, lists, items, job, finishing, history>>

(* _submit_work_item, without the lock, of one item after the other. *)
Schedule(a, i) ==
  /\ pc[a] = "schedule"
  /\ i \in batch[a]
  /\ scheduled' = IF nextwork[i] # "none" THEN [scheduled EXCEPT ![i] = @ + 1] ELSE scheduled
  /\ batch' = [batch EXCEPT ![a] = @ \ {i}]
  /\ IF batch[a] = {i} THEN Goto(a, "recount") ELSE UNCHANGED pc
  /\ UNCHANGED <<lock, flags, lists, items, job, finishing, history>>

(* With the lock again. *)
Recount(a) ==
  /\ pc[a] = "recount"
  /\ lock = Nobody
  /\ stopped' = (stopped \/ active = {})
  /\ Return(a)
  /\ UNCHANGED <<lock, stopping, completing, waits, abnormal, lists, items, scheduled, work, history>>

-----------------------------------------------------------------------------
(* stop(). *)
Stop(a) ==
  /\ pc[a] = Caller(a)
  /\ ~stopped
  /\ Goto(a, "stop")
  /\ UNCHANGED <<lock, flags, lists, items, scheduled, work, history>>

SetStopping(a) ==
  /\ pc[a] = "stop"
  /\ lock = Nobody
  /\ stopping' = TRUE
  /\ abnormal' = TRUE
  /\ Return(a)
  /\ UNCHANGED <<lock, stopped, completing, waits, lists, items, scheduled, work, history>>

-----------------------------------------------------------------------------
(* wait(). *)
Wait(u) ==
  /\ pc[u] \in {"idle", "waited", "timedout"}
  /\ awaited' = [awaited EXCEPT ![u] = owed]
  /\ Goto(u, IF stopped THEN "waited" ELSE "waitlock")
  /\ UNCHANGED <<lock, flags, lists, items, scheduled, work, submits, owed, orderly>>

(* A deadline of zero only looks; otherwise new waits stay out while items *)
(* are put aside. *)
Look(u) ==
  /\ pc[u] = "waitlock"
  /\ lock = Nobody
  /\ Goto(u, IF active # {} THEN "timedout" ELSE "waited")
  /\ UNCHANGED <<lock, flags, lists, items, scheduled, work, history>>

EnterWait(u) ==
  /\ pc[u] = "waitlock"
  /\ lock = Nobody
  /\ delayed = << >>
  /\ waits' = waits + 1
  /\ Goto(u, "wait")
  /\ UNCHANGED <<lock, stopping, stopped, completing, abnormal, lists, items, scheduled, work, history>>

(* Mutant of EndWait: it looks at what the pool has queued, not at what is active. *)
EndWaitQueueEmpty(u) ==
  /\ pc[u] = "wait"
  /\ lock = Nobody
  /\ \A i \in Items : scheduled[i] = 0
  /\ waits' = waits - 1
  /\ Goto(u, "waited")
  /\ UNCHANGED <<lock, stopping, stopped, completing, abnormal, lists, items, scheduled, work, history>>

(* Looked at every millisecond. *)
EndWait(u) ==
  /\ pc[u] = "wait"
  /\ lock = Nobody
  /\ active = {}
  /\ waits' = waits - 1
  /\ Goto(u, "waited")
  /\ UNCHANGED <<lock, stopping, stopped, completing, abnormal, lists, items, scheduled, work, history>>

WaitTimesOut(u) ==
  /\ pc[u] = "wait"
  /\ lock = Nobody
  /\ active # {}
  /\ waits' = waits - 1
  /\ Goto(u, "timedout")
  /\ UNCHANGED <<lock, stopping, stopped, completing, abnormal, lists, items, scheduled, work, history>>

Resume(u) ==
  /\ pc[u] \in {"waited", "timedout"}
  /\ Goto(u, "idle")
  /\ awaited' = [awaited EXCEPT ![u] = {}]
  /\ UNCHANGED <<lock, flags, lists, items, scheduled, work, submits, owed, orderly>>

-----------------------------------------------------------------------------
(* The threads of the pool: _timerthread and _workerthread. *)

(* An item taken from the queues of the pool; if the group is being        *)
(* stopped it is done. *)
TakeStopping(t, i) ==
  /\ pc[t] = "take"
  /\ scheduled[i] > 0
  /\ stopping
  /\ scheduled' = [scheduled EXCEPT ![i] = @ - 1]
  /\ job' = [job EXCEPT ![t] = i]
  /\ Goto(t, "finish")
  /\ UNCHANGED <<lock, flags, lists, items, batch, finishing, history>>

(* The answer of next() decides how the item goes on. *)
GoOn(t, i, said) ==
  /\ nextwork' = [nextwork EXCEPT ![i] = said.next]
  /\ timer' = [timer EXCEPT ![i] = said.timer]
  /\ left' = [left EXCEPT ![i] = IF said = None THEN 0 ELSE @ - 1]
  /\ IF said = None
       THEN Goto(t, "finish") /\ job' = [job EXCEPT ![t] = i]
       ELSE Goto(t, "take") /\ job' = [job EXCEPT ![t] = Nobody]

(* _timerthread.  A timer that fires asks next() if there was no work, and *)
(* schedules the item again. *)
TimerAsks(t, i) ==
  /\ pc[t] = "take"
  /\ scheduled[i] > 0
  /\ ~stopping
  /\ timer[i] /\ nextwork[i] = "later"
  /\ \E said \in Answers(left[i]) :
       /\ GoOn(t, i, said)
       /\ scheduled' = IF said = None THEN [scheduled EXCEPT ![i] = @ - 1] ELSE scheduled
  /\ UNCHANGED <<lock, flags, lists, parent, batch, finishing, history>>

TimerFires(t, i) ==
  /\ pc[t] = "take"
  /\ scheduled[i] > 0
  /\ ~stopping
  /\ timer[i] /\ nextwork[i] = "work"
  /\ timer' = [timer EXCEPT ![i] = FALSE]
  /\ UNCHANGED <<lock, flags, lists, parent, nextwork, left, scheduled, pc, work, history>>

(* _workerthread. *)
Execute(t, i) ==
  /\ pc[t] = "take"
  /\ scheduled[i] > 0
  /\ ~stopping
  /\ ~timer[i]
  /\ scheduled' = [scheduled EXCEPT ![i] = @ - 1]
  /\ job' = [job EXCEPT ![t] = i]
  /\ Goto(t, "body")
  /\ UNCHANGED <<lock, flags, lists, items, batch, finishing, history>>

(* operator() succeeds: next() is asked, unless the group is stopping. *)
Succeed(t) ==
  /\ pc[t] = "body"
  /\ IF stopping
       THEN /\ nextwork' = [nextwork EXCEPT ![job[t]] = "later"]
            /\ Goto(t, "finish")
            /\ UNCHANGED <<timer, left, scheduled, job>>
       ELSE \E said \in Answers(left[job[t]]) :
              /\ GoOn(t, job[t], said)
              /\ scheduled' = IF said = None THEN scheduled
                              ELSE [scheduled EXCEPT ![job[t]] = @ + 1]
  /\ UNCHANGED <<lock, flags, lists, parent, batch, finishing, history>>

Fail(t) ==
  /\ pc[t] = "body"
  /\ nextwork' = [nextwork EXCEPT ![job[t]] = "later"]
  /\ Goto(t, "failed")
  /\ UNCHANGED <<lock, flags, lists, parent, timer, left, scheduled, work, history>>

(* _work_item_done: the item is done, and if it was the last the whole     *)
(* group is; group_complete() is then called with the lock held.  A failed *)
(* item has stopped the group just before. *)
Done(t) ==
  LET i == job[t] IN
  /\ pc[t] \in {"finish", "failed"}
  /\ lock = Nobody
  /\ active' = active \ {i}
  /\ abnormal' = (abnormal \/ pc[t] = "failed")
  /\ job' = [job EXCEPT ![t] = Nobody]
  /\ IF active = {i}
       THEN /\ finishing' = [finishing EXCEPT ![t] = done \cup {i}]
            /\ done' = {}
            /\ parent' = [j \in Items |-> parent[j] /\ j \notin done \cup {i}]
            /\ nextwork' = [j \in Items |-> IF j \in done \cup {i} THEN "none" ELSE nextwork[j]]
            /\ stopping' = FALSE
            /\ completing' = TRUE
            /\ lock' = t
            /\ Goto(t, "complete")
       ELSE /\ done' = done \cup {i}
            /\ stopping' = (stopping \/ pc[t] = "failed")
            /\ Goto(t, "take")
            /\ UNCHANGED <<lock, completing, parent, nextwork, finishing>>
  /\ UNCHANGED <<stopped, waits, delayed, timer, left, scheduled, batch, history>>

GroupComplete(t, i) ==
  /\ pc[t] = "complete"
  /\ i \in finishing[t]
  /\ finishing' = [finishing EXCEPT ![t] = @ \ {i}]
  /\ awaited' = [u \in Users |-> awaited[u] \ {i}]
  /\ owed' = owed \ {i}
  /\ UNCHANGED <<lock, flags, lists, items, scheduled, pc, job, batch, submits, orderly>>

(* group_complete() submits the item again, which puts it aside. *)
GroupCompleteResubmits(t, i) ==
  /\ pc[t] = "complete"
  /\ i \in finishing[t]
  /\ submits < MaxSubmits
  /\ submits' = submits + 1
  /\ orderly' = FALSE
  /\ finishing' = [finishing EXCEPT ![t] = @ \ {i}]
  /\ parent' = [parent EXCEPT ![i] = TRUE]
  /\ delayed' = Append(delayed, i)
  /\ awaited' = [u \in Users |-> awaited[u] \ {i}]
  /\ UNCHANGED <<lock, flags, active, done, nextwork, timer, left, scheduled, pc, job, batch, owed>>

(* Mutant of Finished: submissions still go to the delayed items. *)
FinishedStillCompleting(t) ==
  /\ pc[t] = "complete"
  /\ finishing[t] = {}
  /\ stopped' = TRUE
  /\ IF delayed = << >>
       THEN lock' = Nobody /\ Goto(t, "take")
       ELSE Goto(t, "resubmit") /\ UNCHANGED lock
  /\ UNCHANGED <<stopping, completing, waits, abnormal, lists, items, scheduled, work, history>>

(* All have been called: the group is as new, if nothing was put aside. *)
Finished(t) ==
  /\ pc[t] = "complete"
  /\ finishing[t] = {}
  /\ stopped' = TRUE
  /\ completing' = FALSE
  /\ IF delayed = << >>
       THEN lock' = Nobody /\ Goto(t, "take")
       ELSE Goto(t, "resubmit") /\ UNCHANGED lock
  /\ UNCHANGED <<stopping, waits, abnormal, lists, items, scheduled, work, history>>

(* First the waits under way have to end. *)
LetWaitsEnd(t) ==
  /\ pc[t] = "resubmit"
  /\ waits > 0
  /\ lock' = Nobody
  /\ Goto(t, "blocked")
  /\ UNCHANGED <<flags, lists, items, scheduled, work, history>>

LookAgain(t) ==
  /\ pc[t] = "blocked"
  /\ lock = Nobody
  /\ IF delayed = << >> /\ waits = 0
       THEN Goto(t, "take") /\ UNCHANGED lock
       ELSE Goto(t, "resubmit") /\ lock' = t
  /\ UNCHANGED <<flags, lists, items, scheduled, work, history>>

(* Then the first is submitted, which refuses it (address_in_use) because  *)
(* it has a parent since it was put aside; all are dropped, and the group  *)
(* is stopped. *)
ResubmitRefused(t) ==
  /\ pc[t] = "resubmit"
  /\ waits = 0
  /\ delayed # << >> /\ parent[Head(delayed)]
  /\ delayed' = << >>
  /\ abnormal' = TRUE
  /\ stopping' = TRUE
  /\ lock' = Nobody
  /\ Goto(t, "take")
  /\ UNCHANGED <<stopped, completing, waits, active, done, items, scheduled, work, history>>

-----------------------------------------------------------------------------
Call(a) ==
  \/ \E S \in SUBSET Items : Submit(a, S)
  \/ SubmitCompleting(a) \/ SubmitNow(a) \/ Accept(a) \/ Recount(a)
  \/ \E i \in Items : Delay(a, i) \/ Schedule(a, i)
  \/ Stop(a) \/ SetStopping(a)

Pool(t) ==
  \/ \E i \in Items : \/ TakeStopping(t, i) \/ TimerAsks(t, i) \/ TimerFires(t, i) \/ Execute(t, i)
                      \/ GroupComplete(t, i) \/ GroupCompleteResubmits(t, i)
  \/ Succeed(t) \/ Fail(t) \/ Done(t) \/ Finished(t)
  \/ LetWaitsEnd(t) \/ LookAgain(t) \/ ResubmitRefused(t)

Waiting(u) == Wait(u) \/ Look(u) \/ EnterWait(u) \/ EndWait(u) \/ WaitTimesOut(u) \/ Resume(u)

Next ==
  \/ \E a \in Actors : Call(a)
  \/ \E t \in Threads : Pool(t)
  \/ \E u \in Users : Waiting(u)

(* operator() of an item returns, however often it calls submit() or       *)
(* stop(); waits without a deadline poll until they end. *)
Fairness ==
  /\ \A a \in Actors : WF_vars(SubmitCompleting(a) \/ SubmitNow(a) \/ Accept(a) \/ Recount(a)
                               \/ SetStopping(a) \/ \E i \in Items : Delay(a, i) \/ Schedule(a, i))
  /\ \A t \in Threads : WF_vars(Pool(t)) /\ SF_vars(Succeed(t))
  /\ \A u \in Users : WF_vars(EndWait(u))

Spec == Init /\ [][Next]_vars /\ Fairness

-----------------------------------------------------------------------------
(* Properties. *)

(* An item is executed by one thread at a time, and none is lost: every    *)
(* active item is either about to be scheduled or scheduled or in the      *)
(* hands of a thread, once, and no other item is. *)
Places(i) ==
  scheduled[i]
  + Cardinality({t \in Threads : job[t] = i})
  + Cardinality({a \in Actors : pc[a] = "schedule" /\ i \in batch[a] /\ nextwork[i] # "none"})

NeverConcurrent == \A i \in Items : Places(i) = IF i \in active THEN 1 ELSE 0

(* wait() that reports no time out returns when everything submitted       *)
(* before it was called has been called back, if the group is used in the  *)
(* orderly way. *)
WaitMeansComplete == orderly => \A u \in Users : pc[u] = "waited" => awaited[u] = {}

(* Nothing that was submitted before wait() is still being executed when   *)
(* it returns.  Without the orderly use this does not hold: a submission   *)
(* that overlaps with a completion leaves stopped TRUE. *)
WaitMeansIdle == \A u \in Users : pc[u] = "waited" => awaited[u] \cap active = {}

(* An item is in at most one of the lists, and knows its parent exactly    *)
(* while it is; those are the items that will be called back. *)
Listed ==
  LET put_aside == {delayed[n] : n \in DOMAIN delayed} IN
  /\ active \cap done = {}
  /\ (active \cup done) \cap put_aside = {}
  /\ Cardinality(put_aside) = Len(delayed)
  /\ orderly => \A i \in Items : parent[i] <=> i \in active \cup done \cup put_aside
  /\ orderly => owed = active \cup done \cup put_aside \cup UNION {finishing[t] : t \in Threads}

(* Every item accepted is called back in the end. *)
Completes == \A i \in Items : i \in owed ~> (i \notin owed \/ ~orderly)

=============================================================================
