----------------------- MODULE DynamicThreadPoolProofs -----------------------
(***************************************************************************)
(* Proofs about dynamic_thread_pool_group, for every number of users,      *)
(* threads and items.                                                      *)
(*                                                                         *)
(* About the group (DynamicThreadPoolGroup): an item is in one place while *)
(* it is active, and in none otherwise, so that no two threads execute it; *)
(* and wait() returns, in an orderly use, when everything submitted before *)
(* has been called back.                                                   *)
(*                                                                         *)
(* About the pool behind it (DynamicThreadPool): total_submitted_workitems *)
(* agrees with the queues, and every thread is in the list that its state  *)
(* says.                                                                   *)
(***************************************************************************)
EXTENDS DynamicThreadPoolGroup, DynamicThreadPool, FiniteSetTheorems, TLAPS

-----------------------------------------------------------------------------
(* THE GROUP *)

GroupLabels == UserLabels \cup ThreadLabels \cup CallLabels

\* The part of TypeOK that the proofs need.
GroupTypes ==
  /\ lock \in Actors \cup {Nobody}
  /\ stopping \in BOOLEAN /\ stopped \in BOOLEAN /\ completing \in BOOLEAN /\ orderly \in BOOLEAN
  /\ active \subseteq Items /\ done \subseteq Items /\ owed \subseteq Items
  /\ parent \in [Items -> BOOLEAN]
  /\ nextwork \in [Items -> {"none", "later", "work"}]
  /\ scheduled \in [Items -> Nat]
  /\ pc \in [Actors -> GroupLabels]
  /\ job \in [Actors -> Items \cup {Nobody}]
  /\ batch \in [Actors -> SUBSET Items] /\ finishing \in [Actors -> SUBSET Items]
  /\ awaited \in [Users -> SUBSET Items]

-----------------------------------------------------------------------------
(* Where an item is                                                        *)

Busy == {"body", "finish", "failed"} \cup CallLabels
Preparing == {"submit", "delay", "accept"}
SubmitLabels == Preparing \cup {"schedule", "recount"}

\* A thread has an item from its taking to its return.
InHand == \A t \in Threads : IF pc[t] \in Busy THEN job[t] \in Items ELSE job[t] = Nobody

Workers(i) == {t \in Threads : job[t] = i}
Schedulers(i) == {a \in Actors : pc[a] = "schedule" /\ i \in batch[a]}

\* An active item is in one place; one that is not active is in none, but for
\* one that has no work and is passed over when the others are scheduled.
OnePlace(i) ==
  IF i \in active
  THEN \/ scheduled[i] = 1 /\ Workers(i) = {} /\ Schedulers(i) = {}
       \/ scheduled[i] = 0 /\ (\E t \in Threads : Workers(i) = {t}) /\ Schedulers(i) = {}
       \/ /\ scheduled[i] = 0 /\ Workers(i) = {} /\ nextwork[i] # "none"
          /\ \E a \in Actors : Schedulers(i) = {a}
  ELSE scheduled[i] = 0 /\ Workers(i) = {} /\ (Schedulers(i) = {} \/ nextwork[i] = "none")

\* What is being submitted is nobody else's.
Apart == \A a, b \in Actors : a # b => batch[a] \cap batch[b] = {}

Unowned ==
  \A a \in Actors : pc[a] \in Preparing => \A i \in batch[a] : ~parent[i] /\ \A b \in Actors : i \notin finishing[b]

Parents == active \cap done = {} /\ \A i \in active \cup done : parent[i]

PInv == InHand /\ (\A i \in Items : OnePlace(i)) /\ Apart /\ Unowned /\ Parents

-----------------------------------------------------------------------------
(* The group's flags                                                       *)

\* Whoever calls group_complete() has the lock, and nothing is left in the lists.
Completion ==
  /\ \A t \in Threads : /\ pc[t] \in {"complete", "resubmit"} => lock = t
                        /\ pc[t] = "complete" => completing /\ active = {} /\ done = {}
                        /\ finishing[t] # {} => pc[t] = "complete"
  /\ completing => \E t \in Threads : pc[t] = "complete"

Finishing == UNION {finishing[t] : t \in Threads}

\* As long as the group is used in the orderly way nothing is ever put aside, the
\* group is stopped only if nothing is owed, and a user submits alone.
NoneAside == delayed = << >> /\ \A a \in Actors : pc[a] \notin {"delay", "resubmit", "blocked"}

Debts ==
  /\ owed \subseteq active \cup done \cup Finishing
  /\ active = {} => done = {}
  /\ active # {} \/ completing => ~stopped
  /\ stopped => owed = {}

Alone ==
  \A u \in Users : pc[u] \in {"submit", "accept"} =>
    /\ active = {} /\ ~completing
    /\ \A v \in Users \ {u} : pc[v] \notin SubmitLabels
    /\ pc[u] = "accept" => ~stopped

Ordered == NoneAside /\ Debts /\ Alone

Awaiting == \A u \in Users : awaited[u] \subseteq owed

WInv == Completion /\ Awaiting /\ (orderly => Ordered) /\ WaitMeansComplete

GInv == GroupTypes /\ PInv /\ WInv

-----------------------------------------------------------------------------
(* Types                                                                   *)

LEMMA MoveFacts ==
  ASSUME GroupTypes, NEW a \in Actors, NEW l \in GroupLabels, Goto(a, l)
  PROVE  pc' \in [Actors -> GroupLabels] /\ pc'[a] = l /\ \A b \in Actors \ {a} : pc'[b] = pc[b]
BY DEF Goto, GroupTypes

LEMMA ReturnFacts ==
  ASSUME GroupTypes, NEW a \in Actors, Return(a)
  PROVE  /\ Goto(a, Caller(a)) /\ Caller(a) \in {"idle", "body"} /\ Caller(a) \in GroupLabels
         /\ a \in Threads => Caller(a) = "body"
         /\ pc' \in [Actors -> GroupLabels] /\ pc'[a] = Caller(a) /\ \A b \in Actors \ {a} : pc'[b] = pc[b]
<1>1. Caller(a) \in {"idle", "body"} /\ (a \in Threads => Caller(a) = "body")
  BY GroupAssumption DEF Caller
<1>2. Caller(a) \in GroupLabels
  BY <1>1 DEF GroupLabels, UserLabels, ThreadLabels
<1>3. Goto(a, Caller(a))
  BY DEF Return
<1> QED BY <1>1, <1>2, <1>3, MoveFacts

LEMMA LabelFacts ==
  /\ {"idle", "waitlock", "wait", "waited", "timedout", "take", "body", "failed", "finish", "complete", "blocked",
      "resubmit", "submit", "delay", "accept", "schedule", "recount", "stop"} = GroupLabels
  /\ Busy = {"body", "finish", "failed", "submit", "delay", "accept", "schedule", "recount", "stop"}
BY DEF GroupLabels, Busy, UserLabels, ThreadLabels, CallLabels

LEMMA CallTypes ==
  ASSUME GroupTypes, NEW a \in Actors, Call(a)
  PROVE  GroupTypes'
<1> USE DEF flags, lists, items, work, history
<1>1. ASSUME NEW S \in SUBSET Items, Submit(a, S) PROVE GroupTypes'
  BY <1>1, LabelFacts DEF Submit, GroupTypes, Goto
<1>2. CASE SubmitCompleting(a) \/ SubmitNow(a) \/ Stop(a)
  BY <1>2, LabelFacts DEF SubmitCompleting, SubmitNow, Stop, GroupTypes, Goto
<1>3. CASE Recount(a) \/ SetStopping(a)
  BY <1>3, ReturnFacts DEF Recount, SetStopping, GroupTypes
<1>4. ASSUME NEW i \in Items, Delay(a, i) PROVE GroupTypes'
  <2>1. pc' \in [Actors -> GroupLabels]
    BY <1>4, ReturnFacts DEF Delay, GroupTypes
  <2> QED BY <1>4, <2>1 DEF Delay, GroupTypes
<1>5. ASSUME NEW i \in Items, Schedule(a, i) PROVE GroupTypes'
  <2>1. pc' \in [Actors -> GroupLabels]
    BY <1>5, LabelFacts, MoveFacts DEF Schedule, GroupTypes
  <2>2. scheduled' \in [Items -> Nat]
    BY <1>5 DEF Schedule, GroupTypes
  <2> QED BY <1>5, <2>1, <2>2 DEF Schedule, GroupTypes
<1>6. CASE Accept(a)
  <2>1. PICK said \in [batch[a] -> Answers(MaxNext)] :
          LET no == {i \in batch[a] : said[i] = None} IN
          /\ orderly' = (orderly /\ (active # {} \/ no # batch[a]))
          /\ done' = done \cup no
          /\ active' = active \cup (batch[a] \ no)
          /\ nextwork' = [i \in Items |-> IF i \in batch[a] THEN said[i].next ELSE nextwork[i]]
    BY <1>6 DEF Accept
  <2>2. batch[a] \subseteq Items
    BY DEF GroupTypes
  <2>3. \A s \in Answers(MaxNext) : s.next \in {"none", "later", "work"}
    BY DEF Answers, None, More
  <2>4. nextwork' \in [Items -> {"none", "later", "work"}]
    BY <2>1, <2>3 DEF GroupTypes
  <2>5. done' \subseteq Items /\ active' \subseteq Items /\ orderly' \in BOOLEAN
    BY <2>1, <2>2 DEF GroupTypes
  <2>6. pc' \in [Actors -> GroupLabels]
    BY <1>6, LabelFacts, MoveFacts DEF Accept
  <2>7. parent' \in [Items -> BOOLEAN] /\ owed' \subseteq Items
    BY <1>6, <2>2 DEF Accept, GroupTypes
  <2>8. UNCHANGED <<lock, stopping, stopped, completing, scheduled, job, batch, finishing, awaited>>
    BY <1>6 DEF Accept
  <2> QED BY <2>4, <2>5, <2>6, <2>7, <2>8 DEF GroupTypes
<1> QED BY <1>1, <1>2, <1>3, <1>4, <1>5, <1>6 DEF Call

LEMMA WaitingTypes ==
  ASSUME GroupTypes, NEW u \in Users, Waiting(u)
  PROVE  GroupTypes'
<1> USE DEF flags, lists, items, work, history
<1>1. u \in Actors
  BY DEF Actors
<1>2. \E l \in {"waited", "waitlock", "timedout", "wait", "idle"} : Goto(u, l)
  BY DEF Waiting, Wait, Look, EnterWait, EndWait, WaitTimesOut, Resume
<1>3. pc' \in [Actors -> GroupLabels]
  BY <1>1, <1>2, LabelFacts, MoveFacts
<1>4. awaited' \in [Users -> SUBSET Items]
  BY DEF Waiting, Wait, Look, EnterWait, EndWait, WaitTimesOut, Resume, GroupTypes
<1>5. UNCHANGED <<lock, stopping, stopped, completing, orderly, active, done, owed, parent, nextwork, scheduled, job,
                  batch, finishing>>
  BY DEF Waiting, Wait, Look, EnterWait, EndWait, WaitTimesOut, Resume
<1> QED BY <1>3, <1>4, <1>5 DEF GroupTypes

LEMMA AnswerFacts ==
  ASSUME NEW n, NEW s \in Answers(n)
  PROVE  s.next \in {"none", "later", "work"} /\ (s.next = "none" <=> s = None)
BY DEF Answers, None, More

LEMMA PoolTypes ==
  ASSUME GroupTypes, InHand, \A i \in Items : OnePlace(i), NEW t \in Threads, Pool(t)
  PROVE  GroupTypes'
<1> USE DEF flags, lists, items, work, history
<1>0. t \in Actors
  BY DEF Actors
<1>1. ASSUME NEW i \in Items, TakeStopping(t, i) \/ Execute(t, i) PROVE GroupTypes'
  <2>1. pc' \in [Actors -> GroupLabels]
    BY <1>0, <1>1, LabelFacts, MoveFacts DEF TakeStopping, Execute
  <2>2. scheduled' \in [Items -> Nat] /\ job' \in [Actors -> Items \cup {Nobody}]
    BY <1>1 DEF TakeStopping, Execute, GroupTypes
  <2> QED BY <1>1, <2>1, <2>2 DEF TakeStopping, Execute, GroupTypes
<1>2. ASSUME NEW i \in Items, TimerFires(t, i) \/ GroupComplete(t, i) \/ GroupCompleteResubmits(t, i) PROVE GroupTypes'
  <2>1. CASE TimerFires(t, i)
    BY <2>1 DEF TimerFires, GroupTypes
  <2>2. CASE GroupComplete(t, i)
    BY <2>2 DEF GroupComplete, GroupTypes
  <2>3. CASE GroupCompleteResubmits(t, i)
    <3>1. /\ finishing' \in [Actors -> SUBSET Items] /\ parent' \in [Items -> BOOLEAN]
          /\ awaited' \in [Users -> SUBSET Items]
      BY <2>3 DEF GroupCompleteResubmits, GroupTypes
    <3>2. orderly' \in BOOLEAN
      BY <2>3 DEF GroupCompleteResubmits
    <3> QED BY <2>3, <3>1, <3>2 DEF GroupCompleteResubmits, GroupTypes
  <2> QED BY <1>2, <2>1, <2>2, <2>3
<1>3. ASSUME NEW i \in Items, NEW n, NEW s \in Answers(n), GoOn(t, i, s)
      PROVE  /\ pc' \in [Actors -> GroupLabels] /\ job' \in [Actors -> Items \cup {Nobody}]
             /\ nextwork' \in [Items -> {"none", "later", "work"}]
  <2>1. pc' \in [Actors -> GroupLabels]
    BY <1>0, <1>3, LabelFacts, MoveFacts DEF GoOn
  <2>2. job' \in [Actors -> Items \cup {Nobody}]
    BY <1>3 DEF GoOn, GroupTypes
  <2>3. nextwork' \in [Items -> {"none", "later", "work"}]
    BY <1>3, AnswerFacts DEF GoOn, GroupTypes
  <2> QED BY <2>1, <2>2, <2>3
<1>4. ASSUME NEW i \in Items, TimerAsks(t, i) PROVE GroupTypes'
  <2>1. PICK s \in Answers(left[i]) :
          GoOn(t, i, s) /\ scheduled' = IF s = None THEN [scheduled EXCEPT ![i] = @ - 1] ELSE scheduled
    BY <1>4 DEF TimerAsks
  <2>2. scheduled' \in [Items -> Nat]
    BY <1>4, <2>1 DEF TimerAsks, GroupTypes
  <2> QED BY <1>3, <1>4, <2>1, <2>2 DEF TimerAsks, GroupTypes
<1>5. CASE Succeed(t)
  <2>1. job[t] \in Items
    BY <1>5, LabelFacts DEF Succeed, InHand
  <2>2. CASE stopping
    <3>1. pc' \in [Actors -> GroupLabels]
      BY <1>0, <1>5, <2>2, LabelFacts, MoveFacts DEF Succeed
    <3> QED BY <1>5, <2>2, <3>1 DEF Succeed, GroupTypes
  <2>3. CASE ~stopping
    <3>1. PICK s \in Answers(left[job[t]]) :
            /\ GoOn(t, job[t], s)
            /\ scheduled' = IF s = None THEN scheduled ELSE [scheduled EXCEPT ![job[t]] = @ + 1]
      BY <1>5, <2>3 DEF Succeed
    <3>2. scheduled' \in [Items -> Nat]
      BY <2>1, <3>1 DEF GroupTypes
    <3> QED BY <1>3, <1>5, <2>1, <3>1, <3>2 DEF Succeed, GroupTypes
  <2> QED BY <2>2, <2>3
<1>6. CASE Fail(t)
  <2>1. pc' \in [Actors -> GroupLabels]
    BY <1>0, <1>6, LabelFacts, MoveFacts DEF Fail
  <2> QED BY <1>6, <2>1 DEF Fail, GroupTypes
<1>7. CASE Done(t)
  <2>1. job[t] \in Items
    BY <1>7, LabelFacts DEF Done, InHand
  <2>2. pc' \in [Actors -> GroupLabels]
    BY <1>0, <1>7, LabelFacts, MoveFacts DEF Done
  <2>3. /\ active' \subseteq Items /\ done' \subseteq Items /\ job' \in [Actors -> Items \cup {Nobody}]
        /\ parent' \in [Items -> BOOLEAN] /\ nextwork' \in [Items -> {"none", "later", "work"}]
    BY <1>7, <2>1 DEF Done, GroupTypes
  <2>4. /\ lock' \in Actors \cup {Nobody} /\ stopping' \in BOOLEAN /\ completing' \in BOOLEAN
        /\ finishing' \in [Actors -> SUBSET Items]
    <3>1. CASE active = {job[t]}
      <4>1. /\ finishing' = [finishing EXCEPT ![t] = done \cup {job[t]}]
            /\ stopping' = FALSE /\ completing' = TRUE /\ lock' = t
        BY <1>7, <3>1 DEF Done
      <4>2. done \cup {job[t]} \in SUBSET Items
        BY <2>1 DEF GroupTypes
      <4>3. finishing' \in [Actors -> SUBSET Items]
        BY <4>1, <4>2 DEF GroupTypes
      <4> QED BY <1>0, <4>1, <4>3
    <3>2. CASE active # {job[t]}
      <4>1. stopping' \in BOOLEAN
        BY <1>7, <3>2, Zenon DEF Done, GroupTypes
      <4>2. UNCHANGED <<lock, completing, finishing>>
        BY <1>7, <3>2 DEF Done
      <4> QED BY <4>1, <4>2 DEF GroupTypes
    <3> QED BY <3>1, <3>2
  <2>5. UNCHANGED <<stopped, orderly, owed, scheduled, batch, awaited>>
    BY <1>7 DEF Done
  <2> QED BY <2>2, <2>3, <2>4, <2>5 DEF GroupTypes
<1>8. CASE Finished(t) \/ LetWaitsEnd(t) \/ LookAgain(t) \/ ResubmitRefused(t)
  <2>1. pc' \in [Actors -> GroupLabels]
    BY <1>0, <1>8, LabelFacts, MoveFacts DEF Finished, LetWaitsEnd, LookAgain, ResubmitRefused
  <2> QED BY <1>0, <1>8, <2>1 DEF Finished, LetWaitsEnd, LookAgain, ResubmitRefused, GroupTypes
<1> QED BY <1>1, <1>2, <1>4, <1>5, <1>6, <1>7, <1>8 DEF Pool

-----------------------------------------------------------------------------
(* One place for each item                                                 *)

SameItems == UNCHANGED <<active, done, parent, nextwork, scheduled>>

LEMMA SamePlace ==
  ASSUME NEW i \in Items, OnePlace(i), i \in active' <=> i \in active, scheduled'[i] = scheduled[i],
         nextwork'[i] = nextwork[i], Workers(i)' = Workers(i), Schedulers(i)' = Schedulers(i)
  PROVE  OnePlace(i)'
BY DEF OnePlace

LEMMA SchedulersMove ==
  ASSUME GroupTypes, NEW a \in Actors, NEW l \in GroupLabels, Goto(a, l), NEW i,
         batch' = batch, pc[a] # "schedule", l # "schedule"
  PROVE  Schedulers(i)' = Schedulers(i)
BY MoveFacts DEF Schedulers

\* A step that leaves the items alone.
LEMMA MovePlace ==
  ASSUME GroupTypes, PInv, NEW a \in Actors, NEW l \in GroupLabels, Goto(a, l),
         a \in Threads => (pc[a] \in Busy <=> l \in Busy), pc[a] # "schedule", l # "schedule",
         l \in Preparing => pc[a] \in Preparing, SameItems, UNCHANGED <<job, batch>>,
         \A b \in Actors : finishing'[b] \subseteq finishing[b]
  PROVE  PInv'
<1> USE DEF PInv, SameItems
<1>1. pc'[a] = l /\ \A b \in Actors \ {a} : pc'[b] = pc[b]
  BY MoveFacts
<1>2. InHand'
  BY <1>1 DEF InHand, Actors
<1>3. \A i \in Items : OnePlace(i)'
  <2> SUFFICES ASSUME NEW i \in Items PROVE OnePlace(i)'
    OBVIOUS
  <2>1. Schedulers(i)' = Schedulers(i) /\ Workers(i)' = Workers(i)
    BY SchedulersMove DEF Workers
  <2> QED BY <2>1, SamePlace
<1>4. Apart' /\ Parents'
  BY DEF Apart, Parents
<1>5. Unowned'
  <2> SUFFICES ASSUME NEW b \in Actors, pc'[b] \in Preparing, NEW i \in batch[b]
               PROVE  ~parent[i] /\ \A c \in Actors : i \notin finishing'[c]
    BY DEF Unowned
  <2>1. pc[b] \in Preparing
    BY <1>1
  <2> QED BY <2>1 DEF Unowned
<1> QED BY <1>2, <1>3, <1>4, <1>5

LEMMA StayPlace ==
  ASSUME GroupTypes, PInv, SameItems, UNCHANGED <<pc, job, batch>>,
         \A b \in Actors : finishing'[b] \subseteq finishing[b]
  PROVE  PInv'
<1> USE DEF PInv, SameItems
<1>1. \A i \in Items : OnePlace(i)'
  BY SamePlace DEF Workers, Schedulers
<1>2. InHand' /\ Apart' /\ Parents'
  BY DEF InHand, Apart, Parents
<1>3. Unowned'
  BY DEF Unowned
<1> QED BY <1>1, <1>2, <1>3

LEMMA SubmitPlace ==
  ASSUME GroupTypes, PInv, NEW a \in Actors, NEW S \in SUBSET Items, Submit(a, S)
  PROVE  PInv'
<1> USE DEF PInv, flags, lists, items, work, history
<1>1. SameItems /\ UNCHANGED <<job, finishing>>
  BY DEF Submit, SameItems
<1>2. CASE stopping
  BY <1>1, <1>2, StayPlace DEF Submit
<1>3. CASE ~stopping
  <2>1. pc[a] = Caller(a) /\ S \subseteq Submittable /\ batch' = [batch EXCEPT ![a] = S] /\ Goto(a, "submit")
    BY <1>3 DEF Submit
  <2>2. pc'[a] = "submit" /\ \A b \in Actors \ {a} : pc'[b] = pc[b]
    BY <2>1, LabelFacts, MoveFacts
  <2>3. batch'[a] = S /\ \A b \in Actors \ {a} : batch'[b] = batch[b]
    BY <2>1 DEF GroupTypes
  <2>4. pc[a] \in {"idle", "body"} /\ (a \in Threads => pc[a] = "body")
    BY <2>1, GroupAssumption DEF Caller
  <2>5. InHand'
    BY <1>1, <2>2, <2>4, LabelFacts DEF InHand, Actors
  <2>6. \A i \in Items : OnePlace(i)'
    <3> SUFFICES ASSUME NEW i \in Items PROVE OnePlace(i)'
      OBVIOUS
    <3>1. Schedulers(i)' = Schedulers(i) /\ Workers(i)' = Workers(i)
      BY <1>1, <2>2, <2>3, <2>4 DEF Schedulers, Workers
    <3> QED BY <1>1, <3>1, SamePlace DEF SameItems
  <2>7. \A i \in S : ~parent[i] /\ \A b \in Actors : i \notin batch[b] /\ i \notin finishing[b]
    BY <2>1 DEF Submittable
  <2>8. Apart'
    BY <2>3, <2>7 DEF Apart
  <2>9. Unowned'
    <3> SUFFICES ASSUME NEW b \in Actors, pc'[b] \in Preparing, NEW i \in batch'[b]
                 PROVE  ~parent[i] /\ \A c \in Actors : i \notin finishing[c]
      BY <1>1 DEF Unowned, SameItems
    <3> QED BY <2>2, <2>3, <2>7 DEF Unowned
  <2>10. Parents'
    BY <1>1 DEF Parents, SameItems
  <2> QED BY <2>5, <2>6, <2>8, <2>9, <2>10
<1> QED BY <1>2, <1>3

LEMMA DelayPlace ==
  ASSUME GroupTypes, PInv, NEW a \in Actors, NEW i \in Items, Delay(a, i)
  PROVE  PInv'
<1> USE DEF PInv, flags, lists, items, work, history
<1>1. /\ pc[a] = "delay" /\ i \in batch[a]
      /\ UNCHANGED <<active, done, nextwork, scheduled, job, finishing>>
  BY DEF Delay
<1>2. parent'[i] = TRUE /\ \A j \in Items \ {i} : parent'[j] = parent[j]
  BY DEF Delay, GroupTypes
<1>3. batch'[a] = batch[a] \ {i} /\ \A b \in Actors \ {a} : batch'[b] = batch[b]
  BY DEF Delay, GroupTypes
<1>4. /\ pc'[a] \in {"delay", "idle", "body"} /\ (a \in Threads => pc'[a] \in {"delay", "body"})
      /\ \A b \in Actors \ {a} : pc'[b] = pc[b]
  BY <1>1, ReturnFacts DEF Delay
<1>5. InHand'
  BY <1>1, <1>4, LabelFacts DEF InHand, Actors
<1>6. \A j \in Items : OnePlace(j)'
  <2> SUFFICES ASSUME NEW j \in Items PROVE OnePlace(j)'
    OBVIOUS
  <2>1. Schedulers(j)' = Schedulers(j) /\ Workers(j)' = Workers(j)
    BY <1>1, <1>3, <1>4 DEF Schedulers, Workers
  <2> QED BY <1>1, <2>1, SamePlace
<1>7. Apart'
  BY <1>3 DEF Apart
<1>8. Unowned'
  <2> SUFFICES ASSUME NEW b \in Actors, pc'[b] \in Preparing, NEW j \in batch'[b]
               PROVE  ~parent'[j] /\ \A c \in Actors : j \notin finishing[c]
    BY <1>1 DEF Unowned
  <2>1. pc[b] \in Preparing /\ j \in batch[b]
    BY <1>1, <1>3, <1>4 DEF Preparing
  <2>2. j # i /\ j \in Items
    BY <1>1, <1>3, <2>1 DEF Apart, GroupTypes
  <2> QED BY <1>2, <2>1, <2>2 DEF Unowned
<1>9. Parents'
  BY <1>1, <1>2 DEF Parents, GroupTypes
<1> QED BY <1>5, <1>6, <1>7, <1>8, <1>9

LEMMA AcceptFacts ==
  ASSUME GroupTypes, NEW a \in Actors, Accept(a)
  PROVE  \E no \in SUBSET batch[a] :
           /\ done' = done \cup no /\ active' = active \cup (batch[a] \ no)
           /\ orderly' = (orderly /\ (active # {} \/ no # batch[a]))
           /\ \A i \in batch[a] : nextwork'[i] = "none" <=> i \in no
           /\ \A i \in Items \ batch[a] : nextwork'[i] = nextwork[i]
<1>1. PICK said \in [batch[a] -> Answers(MaxNext)] :
        LET no == {i \in batch[a] : said[i] = None} IN
        /\ orderly' = (orderly /\ (active # {} \/ no # batch[a]))
        /\ done' = done \cup no
        /\ active' = active \cup (batch[a] \ no)
        /\ nextwork' = [i \in Items |-> IF i \in batch[a] THEN said[i].next ELSE nextwork[i]]
  BY DEF Accept
<1> DEFINE no == {i \in batch[a] : said[i] = None}
<1>2. no \in SUBSET batch[a] /\ batch[a] \subseteq Items
  BY DEF GroupTypes
<1>3. \A i \in batch[a] : nextwork'[i] = said[i].next
  BY <1>1, <1>2
<1>4. \A i \in batch[a] : nextwork'[i] = "none" <=> i \in no
  BY <1>3, AnswerFacts
<1>5. \A i \in Items \ batch[a] : nextwork'[i] = nextwork[i]
  BY <1>1
<1>6. /\ done' = done \cup no /\ active' = active \cup (batch[a] \ no)
      /\ orderly' = (orderly /\ (active # {} \/ no # batch[a]))
  BY <1>1
<1> QED BY <1>2, <1>4, <1>5, <1>6

LEMMA AcceptPlace ==
  ASSUME GroupTypes, PInv, NEW a \in Actors, Accept(a)
  PROVE  PInv'
<1> USE DEF PInv, flags, lists, items, work, history
<1>1. PICK no \in SUBSET batch[a] :
        /\ done' = done \cup no /\ active' = active \cup (batch[a] \ no)
        /\ \A i \in batch[a] : nextwork'[i] = "none" <=> i \in no
        /\ \A i \in Items \ batch[a] : nextwork'[i] = nextwork[i]
  BY AcceptFacts
<1>2. pc[a] = "accept" /\ UNCHANGED <<scheduled, job, batch, finishing>> /\ Goto(a, "schedule")
  BY DEF Accept
<1>3. pc'[a] = "schedule" /\ \A b \in Actors \ {a} : pc'[b] = pc[b]
  BY <1>2, LabelFacts, MoveFacts
<1>4. batch[a] \subseteq Items /\ \A i \in Items : parent'[i] = (parent[i] \/ i \in batch[a])
  BY DEF Accept, GroupTypes
<1>5. \A i \in batch[a] : ~parent[i] /\ i \notin active /\ i \notin done
  BY <1>2 DEF Unowned, Parents, Preparing
<1>6. InHand'
  BY <1>2, <1>3, LabelFacts DEF InHand, Actors
<1>7. ASSUME NEW i \in Items PROVE OnePlace(i)'
  <2>1. Workers(i)' = Workers(i)
    BY <1>2 DEF Workers
  <2>2. CASE i \notin batch[a]
    <3>1. Schedulers(i)' = Schedulers(i)
      BY <1>2, <1>3, <2>2 DEF Schedulers
    <3> QED BY <1>1, <1>2, <2>1, <2>2, <3>1, SamePlace
  <2>3. CASE i \in batch[a]
    <3>1. Schedulers(i)' = {a}
      BY <1>2, <1>3, <2>3 DEF Schedulers, Apart
    <3>2. scheduled[i] = 0 /\ Workers(i) = {}
      BY <1>5, <2>3 DEF OnePlace
    <3>3. i \in active' <=> nextwork'[i] # "none"
      BY <1>1, <1>5, <2>3
    <3> QED BY <1>2, <2>1, <3>1, <3>2, <3>3 DEF OnePlace
  <2> QED BY <2>2, <2>3
<1>8. Apart'
  BY <1>2 DEF Apart
<1>9. Unowned'
  <2> SUFFICES ASSUME NEW b \in Actors, pc'[b] \in Preparing, NEW j \in batch[b]
               PROVE  ~parent'[j] /\ \A c \in Actors : j \notin finishing[c]
    BY <1>2 DEF Unowned
  <2>1. b # a /\ pc[b] \in Preparing
    BY <1>3 DEF Preparing
  <2>2. j \in Items /\ j \notin batch[a]
    BY <2>1 DEF Apart, GroupTypes
  <2> QED BY <1>4, <2>1, <2>2 DEF Unowned
<1>10. Parents'
  <2>1. active' \cap done' = {}
    BY <1>1, <1>5 DEF Parents
  <2>2. \A i \in active' \cup done' : i \in Items /\ (parent[i] \/ i \in batch[a])
    BY <1>1, <1>4 DEF Parents, GroupTypes
  <2> QED BY <1>4, <2>1, <2>2 DEF Parents
<1> QED BY <1>6, <1>7, <1>8, <1>9, <1>10

LEMMA SchedulePlace ==
  ASSUME GroupTypes, PInv, NEW a \in Actors, NEW i \in Items, Schedule(a, i)
  PROVE  PInv'
<1> USE DEF PInv, flags, lists, items, work, history
<1>1. /\ pc[a] = "schedule" /\ i \in batch[a]
      /\ UNCHANGED <<active, done, parent, nextwork, job, finishing>>
  BY DEF Schedule
<1>2. batch'[a] = batch[a] \ {i} /\ \A b \in Actors \ {a} : batch'[b] = batch[b]
  BY DEF Schedule, GroupTypes
<1>3. /\ pc'[a] \in {"schedule", "recount"} /\ \A b \in Actors \ {a} : pc'[b] = pc[b]
      /\ batch'[a] # {} => pc'[a] = "schedule"
  BY <1>1, <1>2, LabelFacts, MoveFacts DEF Schedule
<1>4. /\ \A j \in Items \ {i} : scheduled'[j] = scheduled[j]
      /\ scheduled'[i] = IF nextwork[i] # "none" THEN scheduled[i] + 1 ELSE scheduled[i]
  BY DEF Schedule, GroupTypes
<1>5. InHand'
  BY <1>1, <1>3, LabelFacts DEF InHand, Actors
<1>6. ASSUME NEW j \in Items PROVE OnePlace(j)'
  <2>1. Workers(j)' = Workers(j)
    BY <1>1 DEF Workers
  <2>2. CASE j # i
    <3>1. Schedulers(j)' = Schedulers(j)
      BY <1>1, <1>2, <1>3, <2>2 DEF Schedulers
    <3> QED BY <1>1, <1>4, <2>1, <2>2, <3>1, SamePlace
  <2>3. CASE j = i
    <3>1. Schedulers(i)' = {} /\ a \in Schedulers(i)
      BY <1>1, <1>2, <1>3 DEF Schedulers, Apart
    <3>2. CASE i \in active
      <4>1. scheduled[i] = 0 /\ Workers(i) = {} /\ nextwork[i] # "none"
        BY <3>1, <3>2 DEF OnePlace
      <4>2. scheduled'[i] = 1
        BY <1>4, <4>1
      <4> QED BY <1>1, <2>1, <2>3, <3>1, <3>2, <4>1, <4>2 DEF OnePlace
    <3>3. CASE i \notin active
      <4>1. scheduled[i] = 0 /\ Workers(i) = {} /\ nextwork[i] = "none"
        BY <3>1, <3>3 DEF OnePlace
      <4>2. scheduled'[i] = 0
        BY <1>4, <4>1
      <4> QED BY <1>1, <2>1, <2>3, <3>1, <3>3, <4>1, <4>2 DEF OnePlace
    <3> QED BY <3>2, <3>3
  <2> QED BY <2>2, <2>3
<1>7. Apart'
  BY <1>2 DEF Apart
<1>8. Unowned'
  <2> SUFFICES ASSUME NEW b \in Actors, pc'[b] \in Preparing, NEW j \in batch'[b]
               PROVE  ~parent[j] /\ \A c \in Actors : j \notin finishing[c]
    BY <1>1 DEF Unowned
  <2>1. b # a /\ pc[b] \in Preparing /\ j \in batch[b]
    BY <1>2, <1>3 DEF Preparing
  <2> QED BY <2>1 DEF Unowned
<1>9. Parents'
  BY <1>1 DEF Parents
<1> QED BY <1>5, <1>6, <1>7, <1>8, <1>9

\* A thread takes an item from the queues.
LEMMA TakePlace ==
  ASSUME GroupTypes, PInv, NEW t \in Threads, NEW i \in Items, NEW l \in {"body", "finish"},
         pc[t] = "take", scheduled[i] > 0, Goto(t, l), job' = [job EXCEPT ![t] = i],
         scheduled' = [scheduled EXCEPT ![i] = @ - 1], UNCHANGED <<active, done, parent, batch, finishing>>,
         \A j \in Items \ {i} : nextwork'[j] = nextwork[j]
  PROVE  PInv'
<1> USE DEF PInv
<1>0. t \in Actors
  BY DEF Actors
<1>1. pc'[t] = l /\ \A b \in Actors \ {t} : pc'[b] = pc[b]
  BY <1>0, LabelFacts, MoveFacts
<1>2. job[t] = Nobody /\ job'[t] = i /\ \A b \in Actors \ {t} : job'[b] = job[b]
  BY <1>0, LabelFacts DEF InHand, GroupTypes
<1>3. scheduled'[i] = scheduled[i] - 1 /\ \A j \in Items \ {i} : scheduled'[j] = scheduled[j]
  BY DEF GroupTypes
<1>4. InHand'
  BY <1>1, <1>2, LabelFacts DEF InHand, Actors
<1>5. ASSUME NEW j \in Items PROVE OnePlace(j)'
  <2>1. Schedulers(j)' = Schedulers(j)
    BY <1>0, <1>1 DEF Schedulers
  <2>2. CASE j # i
    <3>1. Workers(j)' = Workers(j)
      BY <1>2, <2>2, GroupAssumption DEF Workers, Actors
    <3> QED BY <1>3, <2>1, <2>2, <3>1, SamePlace
  <2>3. CASE j = i
    <3>1. i \in active /\ scheduled[i] = 1 /\ Workers(i) = {} /\ Schedulers(i) = {}
      BY DEF OnePlace
    <3>2. Workers(i)' = {t}
      BY <1>2, <3>1 DEF Workers, Actors
    <3>3. scheduled'[i] = 0
      BY <1>3, <3>1
    <3> QED BY <2>1, <2>3, <3>1, <3>2, <3>3 DEF OnePlace
  <2> QED BY <2>2, <2>3
<1>6. Apart' /\ Parents'
  BY DEF Apart, Parents
<1>7. Unowned'
  BY <1>0, <1>1 DEF Unowned, Preparing
<1> QED BY <1>4, <1>5, <1>6, <1>7

\* The item a thread has goes on to its end.
LEMMA KeepPlace ==
  ASSUME GroupTypes, PInv, NEW t \in Threads, NEW l \in {"failed", "finish"},
         pc[t] = "body", Goto(t, l), job' = job, UNCHANGED <<active, done, parent, batch, finishing, scheduled>>,
         \A j \in Items \ {job[t]} : nextwork'[j] = nextwork[j]
  PROVE  PInv'
<1> USE DEF PInv
<1>0. t \in Actors
  BY DEF Actors
<1>1. pc'[t] = l /\ \A b \in Actors \ {t} : pc'[b] = pc[b]
  BY <1>0, LabelFacts, MoveFacts
<1>4. InHand'
  BY <1>1, LabelFacts DEF InHand, Actors
<1>5. ASSUME NEW j \in Items PROVE OnePlace(j)'
  <2>1. Schedulers(j)' = Schedulers(j) /\ Workers(j)' = Workers(j)
    BY <1>0, <1>1 DEF Schedulers, Workers
  <2>2. CASE j # job[t]
    BY <2>1, <2>2, SamePlace
  <2>3. CASE j = job[t]
    <3>1. t \in Workers(j)
      BY <2>3 DEF Workers
    <3> QED BY <2>1, <3>1 DEF OnePlace
  <2> QED BY <2>2, <2>3
<1>6. Apart' /\ Parents'
  BY DEF Apart, Parents
<1>7. Unowned'
  BY <1>0, <1>1 DEF Unowned, Preparing
<1> QED BY <1>4, <1>5, <1>6, <1>7

\* A thread gives its item back to the queues.
LEMMA ReschedulePlace ==
  ASSUME GroupTypes, PInv, NEW t \in Threads, pc[t] = "body", Goto(t, "take"), job' = [job EXCEPT ![t] = Nobody],
         scheduled' = [scheduled EXCEPT ![job[t]] = @ + 1], UNCHANGED <<active, done, parent, batch, finishing>>,
         \A j \in Items \ {job[t]} : nextwork'[j] = nextwork[j]
  PROVE  PInv'
<1> USE DEF PInv
<1> DEFINE i == job[t]
<1>0. t \in Actors /\ i \in Items
  BY LabelFacts DEF Actors, InHand
<1>1. pc'[t] = "take" /\ \A b \in Actors \ {t} : pc'[b] = pc[b]
  BY <1>0, LabelFacts, MoveFacts
<1>2. job'[t] = Nobody /\ \A b \in Actors \ {t} : job'[b] = job[b]
  BY <1>0 DEF GroupTypes
<1>3. scheduled'[i] = scheduled[i] + 1 /\ \A j \in Items \ {i} : scheduled'[j] = scheduled[j]
  BY <1>0 DEF GroupTypes
<1>4. InHand'
  BY <1>1, <1>2, LabelFacts DEF InHand, Actors
<1>5. ASSUME NEW j \in Items PROVE OnePlace(j)'
  <2>1. Schedulers(j)' = Schedulers(j)
    BY <1>0, <1>1 DEF Schedulers
  <2>2. CASE j # i
    <3>1. Workers(j)' = Workers(j)
      BY <1>2, <2>2, GroupAssumption DEF Workers, Actors
    <3> QED BY <1>3, <2>1, <2>2, <3>1, SamePlace
  <2>3. CASE j = i
    <3>1. t \in Workers(i)
      BY DEF Workers
    <3>2. i \in active /\ scheduled[i] = 0 /\ Workers(i) = {t} /\ Schedulers(i) = {}
      BY <1>0, <3>1 DEF OnePlace
    <3>3. Workers(j)' = {}
      BY <1>0, <1>2, <2>3, <3>2, GroupAssumption DEF Workers, Actors
    <3>4. scheduled'[i] = 1
      BY <1>3, <3>2
    <3> QED BY <2>1, <2>3, <3>2, <3>3, <3>4 DEF OnePlace
  <2> QED BY <2>2, <2>3
<1>6. Apart' /\ Parents'
  BY DEF Apart, Parents
<1>7. Unowned'
  BY <1>0, <1>1 DEF Unowned, Preparing
<1> QED BY <1>4, <1>5, <1>6, <1>7

LEMMA GoOnFacts ==
  ASSUME GroupTypes, NEW t \in Threads, NEW i \in Items, NEW s, GoOn(t, i, s)
  PROVE  /\ \A j \in Items \ {i} : nextwork'[j] = nextwork[j]
         /\ s = None => Goto(t, "finish") /\ job' = [job EXCEPT ![t] = i]
         /\ s # None => Goto(t, "take") /\ job' = [job EXCEPT ![t] = Nobody]
BY DEF GoOn, GroupTypes

LEMMA TimerPlace ==
  ASSUME GroupTypes, PInv, NEW t \in Threads, NEW i \in Items, TimerAsks(t, i)
  PROVE  PInv'
<1> USE DEF PInv, flags, lists, items, work, history
<1>1. pc[t] = "take" /\ scheduled[i] > 0 /\ UNCHANGED <<active, done, parent, batch, finishing>>
  BY DEF TimerAsks
<1>2. PICK s \in Answers(left[i]) :
        GoOn(t, i, s) /\ scheduled' = IF s = None THEN [scheduled EXCEPT ![i] = @ - 1] ELSE scheduled
  BY DEF TimerAsks
<1>3. \A j \in Items \ {i} : nextwork'[j] = nextwork[j]
  BY <1>2, GoOnFacts
<1>4. CASE s = None
  BY <1>1, <1>2, <1>3, <1>4, GoOnFacts, TakePlace
<1>5. CASE s # None
  <2>1. t \in Actors /\ job[t] = Nobody
    BY <1>1, LabelFacts DEF InHand, Actors
  <2>2. Goto(t, "take") /\ job' = [job EXCEPT ![t] = Nobody] /\ scheduled' = scheduled
    BY <1>2, <1>5, GoOnFacts
  <2>3. job' = job /\ pc' = pc
    BY <1>1, <2>1, <2>2 DEF GroupTypes, Goto
  <2>4. InHand' /\ Apart' /\ Parents' /\ Unowned'
    BY <1>1, <2>3 DEF InHand, Apart, Parents, Unowned
  <2>5. ASSUME NEW j \in Items PROVE OnePlace(j)'
    <3>1. Workers(j)' = Workers(j) /\ Schedulers(j)' = Schedulers(j)
      BY <1>1, <2>3 DEF Workers, Schedulers
    <3>2. CASE j # i
      BY <1>1, <1>3, <2>2, <3>1, <3>2, SamePlace
    <3>3. CASE j = i
      BY <1>1, <2>2, <3>1, <3>3 DEF OnePlace
    <3> QED BY <3>2, <3>3
  <2> QED BY <2>4, <2>5
<1> QED BY <1>4, <1>5

LEMMA SucceedPlace ==
  ASSUME GroupTypes, PInv, NEW t \in Threads, Succeed(t) \/ Fail(t)
  PROVE  PInv'
<1> USE DEF flags, lists, items, work, history
<1>1. pc[t] = "body" /\ UNCHANGED <<active, done, parent, batch, finishing>>
  BY DEF Succeed, Fail
<1>2. t \in Actors /\ job[t] \in Items
  BY <1>1, LabelFacts DEF PInv, InHand, Actors
<1>3. CASE Fail(t) \/ stopping
  <2>1. nextwork' = [nextwork EXCEPT ![job[t]] = "later"] /\ UNCHANGED <<scheduled, job>>
    BY <1>3 DEF Succeed, Fail
  <2>2. \E l \in {"finish", "failed"} : Goto(t, l)
    BY <1>3 DEF Succeed, Fail
  <2>3. \A j \in Items \ {job[t]} : nextwork'[j] = nextwork[j]
    BY <2>1 DEF GroupTypes
  <2> QED BY <1>1, <2>1, <2>2, <2>3, KeepPlace
<1>4. CASE Succeed(t) /\ ~stopping
  <2>1. PICK s \in Answers(left[job[t]]) :
          /\ GoOn(t, job[t], s)
          /\ scheduled' = IF s = None THEN scheduled ELSE [scheduled EXCEPT ![job[t]] = @ + 1]
    BY <1>4 DEF Succeed
  <2>2. /\ \A j \in Items \ {job[t]} : nextwork'[j] = nextwork[j]
        /\ s = None => Goto(t, "finish") /\ job' = [job EXCEPT ![t] = job[t]]
        /\ s # None => Goto(t, "take") /\ job' = [job EXCEPT ![t] = Nobody]
    BY <1>2, <2>1, GoOnFacts
  <2>3. CASE s = None
    <3>1. job' = job
      BY <1>2, <2>2, <2>3 DEF GroupTypes
    <3> QED BY <1>1, <2>1, <2>2, <2>3, <3>1, KeepPlace
  <2>4. CASE s # None
    BY <1>1, <2>1, <2>2, <2>4, ReschedulePlace
  <2> QED BY <2>3, <2>4
<1> QED BY <1>3, <1>4

\* An item that is done is in no place, and the last one takes the group with it.
LEMMA DonePlace ==
  ASSUME GroupTypes, PInv, NEW t \in Threads, Done(t)
  PROVE  PInv'
<1> USE DEF PInv, flags, lists, items, work, history
<1> DEFINE i == job[t]
<1>0. t \in Actors /\ i \in Items
  BY LabelFacts DEF Done, Actors, InHand
<1>1. /\ pc[t] \in {"finish", "failed"} /\ active' = active \ {i} /\ job' = [job EXCEPT ![t] = Nobody]
      /\ UNCHANGED <<scheduled, batch>>
  BY DEF Done
<1>2. job'[t] = Nobody /\ \A b \in Actors \ {t} : job'[b] = job[b]
  BY <1>0, <1>1 DEF GroupTypes
<1>3. \/ /\ active = {i} /\ finishing' = [finishing EXCEPT ![t] = done \cup {i}] /\ done' = {}
         /\ parent' = [j \in Items |-> parent[j] /\ j \notin done \cup {i}]
         /\ nextwork' = [j \in Items |-> IF j \in done \cup {i} THEN "none" ELSE nextwork[j]]
         /\ Goto(t, "complete")
      \/ /\ active # {i} /\ done' = done \cup {i} /\ Goto(t, "take") /\ UNCHANGED <<parent, nextwork, finishing>>
  BY DEF Done
<1>4. pc'[t] \in {"complete", "take"} /\ \A b \in Actors \ {t} : pc'[b] = pc[b]
  BY <1>0, <1>3, LabelFacts, MoveFacts
<1>5. InHand'
  BY <1>2, <1>4, LabelFacts DEF InHand, Actors
<1>6. t \in Workers(i)
  BY DEF Workers
<1>7. i \in active /\ scheduled[i] = 0 /\ Workers(i) = {t} /\ Schedulers(i) = {}
  BY <1>0, <1>6 DEF OnePlace
<1>8. ASSUME NEW j \in Items PROVE OnePlace(j)'
  <2>1. Schedulers(j)' = Schedulers(j)
    BY <1>0, <1>1, <1>4 DEF Schedulers
  <2>2. CASE j = i
    <3>1. Workers(j)' = {}
      BY <1>0, <1>2, <1>7, <2>2, GroupAssumption DEF Workers, Actors
    <3> QED BY <1>1, <1>7, <2>1, <2>2, <3>1 DEF OnePlace
  <2>3. CASE j # i
    <3>1. Workers(j)' = Workers(j) /\ (j \in active' <=> j \in active)
      BY <1>1, <1>2, <2>3, GroupAssumption DEF Workers, Actors
    <3>2. CASE nextwork'[j] = nextwork[j]
      BY <1>1, <2>1, <3>1, <3>2, SamePlace
    <3>3. CASE nextwork'[j] # nextwork[j]
      <4>1. j \in done /\ nextwork'[j] = "none"
        BY <1>3, <2>3, <3>3
      <4>2. j \notin active
        BY <4>1 DEF Parents
      <4> QED BY <1>1, <2>1, <3>1, <4>1, <4>2 DEF OnePlace
    <3> QED BY <3>2, <3>3
  <2> QED BY <2>2, <2>3
<1>9. Apart'
  BY <1>1 DEF Apart
<1>10. Parents'
  BY <1>1, <1>3, <1>7 DEF Parents, GroupTypes
<1>11. Unowned'
  <2> SUFFICES ASSUME NEW b \in Actors, pc'[b] \in Preparing, NEW j \in batch[b]
               PROVE  ~parent'[j] /\ \A c \in Actors : j \notin finishing'[c]
    BY <1>1 DEF Unowned
  <2>1. b # t /\ pc[b] \in Preparing
    BY <1>4 DEF Preparing
  <2>2. ~parent[j] /\ j \in Items /\ \A c \in Actors : j \notin finishing[c]
    BY <2>1 DEF Unowned, GroupTypes
  <2>3. j \notin done /\ j # i
    BY <1>7, <2>2 DEF Parents
  <2>4. ~parent'[j]
    BY <1>3, <2>2
  <2>5. \A c \in Actors : j \notin finishing'[c]
    BY <1>0, <1>3, <2>2, <2>3 DEF GroupTypes
  <2> QED BY <2>4, <2>5
<1> QED BY <1>5, <1>8, <1>9, <1>10, <1>11

LEMMA ResubmitsPlace ==
  ASSUME GroupTypes, PInv, NEW t \in Threads, NEW i \in Items, GroupCompleteResubmits(t, i)
  PROVE  PInv'
<1> USE DEF PInv, flags, lists, items, work, history
<1>0. t \in Actors
  BY DEF Actors
<1>1. i \in finishing[t] /\ UNCHANGED <<active, done, nextwork, scheduled, pc, job, batch>>
  BY DEF GroupCompleteResubmits
<1>2. /\ parent'[i] = TRUE /\ \A j \in Items \ {i} : parent'[j] = parent[j]
      /\ \A b \in Actors : finishing'[b] \subseteq finishing[b]
  BY <1>0 DEF GroupCompleteResubmits, GroupTypes
<1>3. InHand' /\ Apart'
  BY <1>1 DEF InHand, Apart
<1>4. \A j \in Items : OnePlace(j)'
  BY <1>1, SamePlace DEF Workers, Schedulers
<1>5. Unowned'
  <2> SUFFICES ASSUME NEW b \in Actors, pc[b] \in Preparing, NEW j \in batch[b]
               PROVE  ~parent'[j] /\ \A c \in Actors : j \notin finishing'[c]
    BY <1>1 DEF Unowned
  <2>1. j \in Items /\ ~parent[j] /\ \A c \in Actors : j \notin finishing[c]
    BY DEF Unowned, GroupTypes
  <2>2. j # i
    BY <1>0, <1>1, <2>1
  <2> QED BY <1>2, <2>1, <2>2
<1>6. Parents'
  BY <1>1, <1>2 DEF Parents, GroupTypes
<1> QED BY <1>3, <1>4, <1>5, <1>6

LEMMA CallPlace ==
  ASSUME GroupTypes, PInv, NEW a \in Actors, Call(a)
  PROVE  PInv'
<1> USE DEF flags, lists, items, work, history
<1>1. CASE SubmitCompleting(a) \/ SubmitNow(a)
  <2>1. PICK l \in {"delay", "accept"} : Goto(a, l)
    BY <1>1 DEF SubmitCompleting, SubmitNow
  <2>2. pc[a] = "submit" /\ SameItems /\ UNCHANGED <<job, batch, finishing>>
    BY <1>1 DEF SubmitCompleting, SubmitNow, SameItems
  <2> QED BY <2>1, <2>2, LabelFacts, MovePlace DEF Preparing
<1>2. CASE Recount(a) \/ SetStopping(a)
  <2>1. pc[a] \in {"recount", "stop"} /\ Return(a) /\ SameItems /\ UNCHANGED <<job, batch, finishing>>
    BY <1>2 DEF Recount, SetStopping, SameItems
  <2>2. /\ Goto(a, Caller(a)) /\ Caller(a) \in {"idle", "body"} /\ Caller(a) \in GroupLabels
        /\ a \in Threads => Caller(a) = "body"
    BY <2>1, ReturnFacts
  <2> QED BY <2>1, <2>2, LabelFacts, MovePlace DEF Preparing
<1>3. CASE Stop(a)
  <2>1. pc[a] = Caller(a) /\ Goto(a, "stop") /\ SameItems /\ UNCHANGED <<job, batch, finishing>>
    BY <1>3 DEF Stop, SameItems
  <2>2. pc[a] \in {"idle", "body"} /\ (a \in Threads => pc[a] = "body")
    BY <2>1, GroupAssumption DEF Caller
  <2> QED BY <2>1, <2>2, LabelFacts, MovePlace DEF Preparing
<1> QED BY <1>1, <1>2, <1>3, SubmitPlace, DelayPlace, AcceptPlace, SchedulePlace DEF Call

LEMMA WaitingPlace ==
  ASSUME GroupTypes, PInv, NEW u \in Users, Waiting(u)
  PROVE  PInv'
<1> USE DEF flags, lists, items, work, history
<1>1. u \in Actors /\ u \notin Threads
  BY GroupAssumption DEF Actors
<1>2. PICK l \in {"waited", "waitlock", "timedout", "wait", "idle"} : Goto(u, l)
  BY DEF Waiting, Wait, Look, EnterWait, EndWait, WaitTimesOut, Resume
<1>3. SameItems /\ UNCHANGED <<job, batch, finishing>>
  BY DEF Waiting, Wait, Look, EnterWait, EndWait, WaitTimesOut, Resume, SameItems
<1>4. pc[u] \in {"waited", "waitlock", "timedout", "wait", "idle"}
  BY DEF Waiting, Wait, Look, EnterWait, EndWait, WaitTimesOut, Resume
<1> QED BY <1>1, <1>2, <1>3, <1>4, LabelFacts, MovePlace DEF Preparing

LEMMA PoolPlace ==
  ASSUME GroupTypes, PInv, NEW t \in Threads, Pool(t)
  PROVE  PInv'
<1> USE DEF flags, lists, items, work, history
<1>0. t \in Actors
  BY DEF Actors
<1>1. ASSUME NEW i \in Items, TakeStopping(t, i) \/ Execute(t, i) PROVE PInv'
  <2>1. PICK l \in {"body", "finish"} : Goto(t, l)
    BY <1>1 DEF TakeStopping, Execute
  <2> QED BY <1>1, <2>1, TakePlace DEF TakeStopping, Execute
<1>2. ASSUME NEW i \in Items, TimerFires(t, i) \/ GroupComplete(t, i) PROVE PInv'
  <2>1. SameItems /\ UNCHANGED <<pc, job, batch>>
    BY <1>2 DEF TimerFires, GroupComplete, SameItems
  <2>2. \A b \in Actors : finishing'[b] \subseteq finishing[b]
    BY <1>2 DEF TimerFires, GroupComplete, GroupTypes
  <2> QED BY <2>1, <2>2, StayPlace
<1>3. CASE Finished(t) \/ LetWaitsEnd(t) \/ LookAgain(t) \/ ResubmitRefused(t)
  <2>1. PICK l \in {"take", "resubmit", "blocked"} : Goto(t, l)
    BY <1>3 DEF Finished, LetWaitsEnd, LookAgain, ResubmitRefused
  <2>2. pc[t] \in {"complete", "resubmit", "blocked"} /\ SameItems /\ UNCHANGED <<job, batch, finishing>>
    BY <1>3 DEF Finished, LetWaitsEnd, LookAgain, ResubmitRefused, SameItems
  <2> QED BY <1>0, <2>1, <2>2, LabelFacts, MovePlace DEF Preparing
<1> QED BY <1>1, <1>2, <1>3, TimerPlace, SucceedPlace, DonePlace, ResubmitsPlace DEF Pool

-----------------------------------------------------------------------------
(* Completion                                                              *)

LEMMA LockFree ==
  ASSUME Completion, lock = Nobody
  PROVE  /\ ~completing /\ Finishing = {}
         /\ \A t \in Threads : pc[t] \notin {"complete", "resubmit"} /\ finishing[t] = {}
BY GroupAssumption DEF Completion, Finishing

LEMMA BusyActive ==
  ASSUME GroupTypes, PInv, NEW t \in Threads, pc[t] \in Busy
  PROVE  job[t] \in active
<1>1. job[t] \in Items /\ t \in Workers(job[t])
  BY DEF PInv, InHand, Workers
<1> QED BY <1>1 DEF PInv, OnePlace

\* A step that does not begin or end a completion.
LEMMA MoveCompletion ==
  ASSUME GroupTypes, Completion, NEW a \in Actors, NEW l \in GroupLabels \ {"complete", "resubmit"}, Goto(a, l),
         pc[a] \notin {"complete", "resubmit"}, UNCHANGED <<lock, completing, finishing>>,
         lock = Nobody \/ UNCHANGED <<active, done>>
  PROVE  Completion'
<1>1. pc'[a] = l /\ \A b \in Actors \ {a} : pc'[b] = pc[b]
  BY MoveFacts
<1>2. ASSUME NEW t \in Threads
      PROVE  /\ pc'[t] \in {"complete", "resubmit"} => lock = t
             /\ pc'[t] = "complete" => completing /\ active' = {} /\ done' = {}
             /\ finishing[t] # {} => pc'[t] = "complete"
  <2>1. t = a => finishing[t] = {}
    BY DEF Completion
  <2>2. t # a => pc'[t] = pc[t]
    BY <1>1 DEF Actors
  <2> QED BY <1>1, <2>1, <2>2, LockFree DEF Completion
<1>3. completing => \E t \in Threads : pc'[t] = "complete"
  BY <1>1 DEF Completion, Actors
<1> QED BY <1>2, <1>3 DEF Completion

LEMMA StayCompletion ==
  ASSUME Completion, UNCHANGED <<lock, completing, finishing, active, done, pc>>
  PROVE  Completion'
BY DEF Completion

LEMMA CallCompletion ==
  ASSUME GroupTypes, PInv, Completion, NEW a \in Actors, Call(a)
  PROVE  Completion'
<1> USE DEF flags, lists, items, work, history
<1>1. ASSUME NEW S \in SUBSET Items, Submit(a, S) PROVE Completion'
  <2>1. UNCHANGED <<lock, completing, finishing, active, done>>
    BY <1>1 DEF Submit
  <2>2. CASE stopping
    BY <1>1, <2>1, <2>2, StayCompletion DEF Submit
  <2>3. CASE ~stopping
    BY <1>1, <2>1, <2>3, LabelFacts, MoveCompletion DEF Submit, Caller
  <2> QED BY <2>2, <2>3
<1>2. CASE SubmitCompleting(a) \/ SubmitNow(a) \/ Stop(a)
  BY <1>2, LabelFacts, MoveCompletion DEF SubmitCompleting, SubmitNow, Stop, Caller
<1>3. CASE Recount(a) \/ SetStopping(a)
  BY <1>3, ReturnFacts, MoveCompletion DEF Recount, SetStopping
<1>4. ASSUME NEW i \in Items, Delay(a, i) PROVE Completion'
  <2>1. UNCHANGED <<lock, completing, finishing, active, done>> /\ pc[a] = "delay"
    BY <1>4 DEF Delay
  <2>2. CASE batch[a] = {i}
    BY <1>4, <2>1, <2>2, ReturnFacts, MoveCompletion DEF Delay
  <2>3. CASE batch[a] # {i}
    BY <1>4, <2>1, <2>3, StayCompletion DEF Delay
  <2> QED BY <2>2, <2>3
<1>5. ASSUME NEW i \in Items, Schedule(a, i) PROVE Completion'
  <2>1. UNCHANGED <<lock, completing, finishing, active, done>> /\ pc[a] = "schedule"
    BY <1>5 DEF Schedule
  <2>2. CASE batch[a] = {i}
    BY <1>5, <2>1, <2>2, LabelFacts, MoveCompletion DEF Schedule
  <2>3. CASE batch[a] # {i}
    BY <1>5, <2>1, <2>3, StayCompletion DEF Schedule
  <2> QED BY <2>2, <2>3
<1>6. CASE Accept(a)
  <2>1. lock = Nobody /\ pc[a] = "accept" /\ Goto(a, "schedule") /\ UNCHANGED <<lock, completing, finishing>>
    BY <1>6 DEF Accept
  <2> QED BY <2>1, LabelFacts, MoveCompletion
<1> QED BY <1>1, <1>2, <1>3, <1>4, <1>5, <1>6 DEF Call

LEMMA WaitingCompletion ==
  ASSUME GroupTypes, Completion, NEW u \in Users, Waiting(u)
  PROVE  Completion'
<1> USE DEF flags, lists, items, work, history
<1>1. u \in Actors
  BY DEF Actors
<1>2. PICK l \in {"waited", "waitlock", "timedout", "wait", "idle"} : Goto(u, l)
  BY DEF Waiting, Wait, Look, EnterWait, EndWait, WaitTimesOut, Resume
<1>3. UNCHANGED <<lock, completing, finishing, active, done>>
  BY DEF Waiting, Wait, Look, EnterWait, EndWait, WaitTimesOut, Resume
<1>4. pc[u] \in {"waited", "waitlock", "timedout", "wait", "idle"}
  BY DEF Waiting, Wait, Look, EnterWait, EndWait, WaitTimesOut, Resume
<1> QED BY <1>1, <1>2, <1>3, <1>4, LabelFacts, MoveCompletion

LEMMA DoneFacts ==
  ASSUME GroupTypes, PInv, NEW t \in Threads, Done(t)
  PROVE  /\ t \in Actors /\ job[t] \in active /\ active' = active \ {job[t]} /\ lock = Nobody
         /\ UNCHANGED <<stopped, delayed, owed, awaited, orderly>>
         /\ \/ /\ active' = {} /\ finishing' = [finishing EXCEPT ![t] = done \cup {job[t]}] /\ done' = {}
               /\ completing' = TRUE /\ lock' = t /\ Goto(t, "complete")
            \/ /\ active' # {} /\ done' = done \cup {job[t]} /\ Goto(t, "take")
               /\ UNCHANGED <<lock, completing, finishing>>
<1> USE DEF history
<1>1. pc[t] \in {"finish", "failed"} /\ active' = active \ {job[t]} /\ lock = Nobody
  BY DEF Done
<1>2. job[t] \in active
  BY <1>1, BusyActive, LabelFacts
<1>3. t \in Actors /\ UNCHANGED <<stopped, delayed, owed, awaited, orderly>>
  BY DEF Done, Actors
<1>4. CASE active = {job[t]}
  <2>1. active' = {}
    BY <1>1, <1>4
  <2> QED BY <1>1, <1>2, <1>3, <1>4, <2>1 DEF Done
<1>5. CASE active # {job[t]}
  <2>1. active' # {}
    BY <1>1, <1>2, <1>5
  <2> QED BY <1>1, <1>2, <1>3, <1>5, <2>1 DEF Done
<1> QED BY <1>4, <1>5

LEMMA DoneCompletion ==
  ASSUME GroupTypes, PInv, Completion, NEW t \in Threads, Done(t)
  PROVE  Completion'
<1>1. /\ t \in Actors /\ lock = Nobody
      /\ \/ /\ active' = {} /\ finishing' = [finishing EXCEPT ![t] = done \cup {job[t]}] /\ done' = {}
            /\ completing' = TRUE /\ lock' = t /\ Goto(t, "complete")
         \/ /\ active' # {} /\ done' = done \cup {job[t]} /\ Goto(t, "take")
            /\ UNCHANGED <<lock, completing, finishing>>
  BY DoneFacts
<1>2. \A s \in Threads : pc[s] \notin {"complete", "resubmit"} /\ finishing[s] = {}
  BY <1>1, LockFree
<1>3. CASE UNCHANGED lock
  <2>1. Goto(t, "take") /\ UNCHANGED <<lock, completing, finishing>>
    BY <1>1, <1>3, GroupAssumption
  <2> QED BY <1>1, <1>2, <2>1, LabelFacts, MoveCompletion
<1>4. CASE lock' # lock
  <2>1. /\ active' = {} /\ finishing' = [finishing EXCEPT ![t] = done \cup {job[t]}] /\ done' = {}
        /\ completing' = TRUE /\ lock' = t /\ Goto(t, "complete")
    BY <1>1, <1>4
  <2>2. pc'[t] = "complete" /\ \A b \in Actors \ {t} : pc'[b] = pc[b]
    BY <1>1, <2>1, LabelFacts, MoveFacts
  <2>3. \A b \in Actors \ {t} : finishing'[b] = finishing[b]
    BY <2>1 DEF GroupTypes
  <2> QED BY <1>2, <2>1, <2>2, <2>3 DEF Completion, Actors
<1> QED BY <1>3, <1>4

LEMMA PoolCompletion ==
  ASSUME GroupTypes, PInv, Completion, NEW t \in Threads, Pool(t)
  PROVE  Completion'
<1> USE DEF flags, lists, items, work, history
<1>0. t \in Actors
  BY DEF Actors
<1>1. ASSUME NEW i \in Items, TakeStopping(t, i) \/ Execute(t, i) PROVE Completion'
  BY <1>0, <1>1, LabelFacts, MoveCompletion DEF TakeStopping, Execute
<1>2. ASSUME NEW i \in Items, TimerFires(t, i) PROVE Completion'
  BY <1>2, StayCompletion DEF TimerFires
<1>3. ASSUME NEW i \in Items, TimerAsks(t, i) PROVE Completion'
  <2>1. pc[t] = "take" /\ UNCHANGED <<lock, completing, finishing, active, done>>
    BY <1>3 DEF TimerAsks
  <2>2. Goto(t, "finish") \/ Goto(t, "take")
    BY <1>3 DEF TimerAsks, GoOn
  <2> QED BY <1>0, <2>1, <2>2, LabelFacts, MoveCompletion
<1>4. CASE Succeed(t) \/ Fail(t)
  <2>1. pc[t] = "body" /\ UNCHANGED <<lock, completing, finishing, active, done>>
    BY <1>4 DEF Succeed, Fail
  <2>2. Goto(t, "finish") \/ Goto(t, "take") \/ Goto(t, "failed")
    BY <1>4 DEF Succeed, Fail, GoOn
  <2> QED BY <1>0, <2>1, <2>2, LabelFacts, MoveCompletion
<1>5. ASSUME NEW i \in Items, GroupComplete(t, i) \/ GroupCompleteResubmits(t, i) PROVE Completion'
  <2>1. pc[t] = "complete" /\ UNCHANGED <<lock, completing, active, done, pc>>
    BY <1>5 DEF GroupComplete, GroupCompleteResubmits
  <2>2. \A s \in Threads : finishing'[s] \subseteq finishing[s]
    BY <1>0, <1>5 DEF GroupComplete, GroupCompleteResubmits, GroupTypes, Actors
  <2> QED BY <2>1, <2>2 DEF Completion
<1>6. CASE Finished(t) \/ LetWaitsEnd(t) \/ ResubmitRefused(t)
  <2>1. /\ pc[t] \in {"complete", "resubmit"} /\ UNCHANGED <<active, done, finishing>> /\ lock' \in {t, Nobody}
        /\ pc[t] = "resubmit" => completing' = completing
        /\ pc[t] = "complete" => completing' = FALSE /\ finishing[t] = {}
    BY <1>6 DEF Finished, LetWaitsEnd, ResubmitRefused, Completion
  <2>2. Goto(t, "take") \/ Goto(t, "blocked") \/ (Goto(t, "resubmit") /\ lock' = t)
    BY <1>6 DEF Finished, LetWaitsEnd, ResubmitRefused, Completion, Goto
  <2>3. lock = t /\ (pc[t] = "resubmit" => finishing[t] = {})
    BY <2>1 DEF Completion
  <2>4. \A s \in Threads : s # t => pc[s] \notin {"complete", "resubmit"} /\ finishing[s] = {}
    BY <2>3 DEF Completion
  <2>5. completing' = FALSE
    <3>1. pc[t] = "resubmit" => completing = FALSE
      BY <2>4 DEF Completion, GroupTypes
    <3> QED BY <2>1, <3>1
  <2>6. /\ pc'[t] \in {"take", "blocked", "resubmit"} /\ (pc'[t] = "resubmit" => lock' = t)
        /\ \A s \in Threads : s # t => pc'[s] = pc[s]
    BY <1>0, <2>2, LabelFacts, MoveFacts DEF Actors
  <2>7. \A s \in Threads : finishing'[s] = {}
    BY <2>1, <2>3, <2>4
  <2> QED BY <2>4, <2>5, <2>6, <2>7 DEF Completion
<1>7. CASE LookAgain(t)
  <2>1. pc[t] = "blocked" /\ lock = Nobody /\ UNCHANGED <<completing, active, done, finishing>>
    BY <1>7 DEF LookAgain
  <2>2. (Goto(t, "take") /\ UNCHANGED lock) \/ (Goto(t, "resubmit") /\ lock' = t)
    BY <1>7, Zenon DEF LookAgain
  <2>3. ~completing /\ \A s \in Threads : pc[s] \notin {"complete", "resubmit"} /\ finishing[s] = {}
    BY <2>1, LockFree
  <2>4. /\ pc'[t] \in {"take", "resubmit"} /\ (pc'[t] = "resubmit" => lock' = t)
        /\ \A s \in Threads : s # t => pc'[s] = pc[s]
    BY <1>0, <2>2, LabelFacts, MoveFacts DEF Actors
  <2> QED BY <2>1, <2>3, <2>4 DEF Completion
<1> QED BY <1>1, <1>2, <1>3, <1>4, <1>5, <1>6, <1>7, DoneCompletion DEF Pool

-----------------------------------------------------------------------------
(* Orderly use                                                             *)

LEMMA NothingOwed ==
  ASSUME Completion, Ordered, lock = Nobody, active = {}
  PROVE  owed = {}
BY LockFree DEF Ordered, Debts

\* A step that leaves the lists and the flags alone.
LEMMA MoveOrdered ==
  ASSUME GroupTypes, Ordered, NEW a \in Actors,
         NEW l \in GroupLabels \ {"submit", "accept", "delay", "resubmit", "blocked"}, Goto(a, l),
         l \in SubmitLabels => pc[a] \in SubmitLabels,
         UNCHANGED <<delayed, owed, active, done, finishing, completing, stopped>>
  PROVE  Ordered'
<1>1. pc'[a] = l /\ \A b \in Actors \ {a} : pc'[b] = pc[b]
  BY MoveFacts
<1>2. NoneAside'
  BY <1>1 DEF Ordered, NoneAside
<1>3. Debts'
  BY DEF Ordered, Debts, Finishing
<1>4. Alone'
  <2> SUFFICES ASSUME NEW u \in Users, pc'[u] \in {"submit", "accept"}
               PROVE  /\ active = {} /\ ~completing
                      /\ \A v \in Users \ {u} : pc'[v] \notin SubmitLabels
                      /\ pc'[u] = "accept" => ~stopped
    BY DEF Alone
  <2>1. u # a /\ pc'[u] = pc[u]
    BY <1>1 DEF Actors
  <2>2. \A v \in Users \ {u} : pc'[v] \notin SubmitLabels
    BY <1>1, <2>1 DEF Ordered, Alone, Actors
  <2> QED BY <2>1, <2>2 DEF Ordered, Alone
<1> QED BY <1>2, <1>3, <1>4 DEF Ordered

LEMMA StayOrdered ==
  ASSUME Ordered, UNCHANGED <<delayed, owed, active, done, finishing, completing, stopped, pc>>
  PROVE  Ordered'
BY DEF Ordered, NoneAside, Debts, Finishing, Alone

LEMMA SubmitOrdered ==
  ASSUME GroupTypes, Ordered, NEW a \in Actors, NEW S \in SUBSET Items, Submit(a, S), orderly'
  PROVE  Ordered'
<1> USE DEF flags, lists
<1>1. UNCHANGED <<delayed, owed, active, done, finishing, completing, stopped>>
  BY DEF Submit
<1>2. CASE stopping
  BY <1>1, <1>2, StayOrdered DEF Submit
<1>3. CASE ~stopping
  <2>1. pc'[a] = "submit" /\ \A b \in Actors \ {a} : pc'[b] = pc[b]
    BY <1>3, LabelFacts, MoveFacts DEF Submit
  <2>2. NoneAside' /\ Debts'
    BY <1>1, <2>1 DEF Ordered, NoneAside, Debts, Finishing
  <2>3. CASE a \in Users
    <3>1. stopped /\ \A v \in Users : pc[v] \notin SubmitLabels
      BY <2>3 DEF Submit, Quiet, SubmitLabels, Preparing
    <3>2. active = {} /\ ~completing
      BY <3>1 DEF Ordered, Debts
    <3>3. \A v \in Users \ {a} : pc'[v] \notin SubmitLabels
      BY <2>1, <3>1 DEF Actors
    <3>4. {"submit", "accept"} \subseteq SubmitLabels
      BY DEF SubmitLabels, Preparing
    <3> QED BY <1>1, <2>1, <2>2, <3>2, <3>3, <3>4 DEF Ordered, Alone
  <2>4. CASE a \notin Users
    <3>1. \A v \in Users : pc'[v] = pc[v]
      BY <2>1, <2>4 DEF Actors
    <3> QED BY <1>1, <2>2, <3>1 DEF Ordered, Alone
  <2> QED BY <2>3, <2>4
<1> QED BY <1>2, <1>3

LEMMA SubmitNowOrdered ==
  ASSUME GroupTypes, Ordered, NEW a \in Actors, SubmitNow(a)
  PROVE  Ordered'
<1> USE DEF flags, lists, items, work, history
<1>1. pc[a] = "submit" /\ stopped' = FALSE /\ UNCHANGED <<delayed, owed, active, done, finishing, completing>>
  BY DEF SubmitNow
<1>2. pc'[a] = "accept" /\ \A b \in Actors \ {a} : pc'[b] = pc[b]
  BY LabelFacts, MoveFacts DEF SubmitNow
<1>3. NoneAside' /\ Debts'
  BY <1>1, <1>2 DEF Ordered, NoneAside, Debts, Finishing
<1>4. Alone'
  <2>1. {"submit", "accept"} \subseteq SubmitLabels
    BY DEF SubmitLabels, Preparing
  <2>2. \A v \in Users : v # a => pc'[v] = pc[v]
    BY <1>2 DEF Actors
  <2> QED BY <1>1, <1>2, <2>1, <2>2 DEF Ordered, Alone
<1> QED BY <1>3, <1>4 DEF Ordered

\* What an orderly group holds while somebody accepts items: it is not stopped.
LEMMA AcceptOrdered ==
  ASSUME GroupTypes, PInv, Ordered, NEW a \in Actors, Accept(a), orderly'
  PROVE  Ordered'
<1> USE DEF flags, lists, items, work, history
<1>1. pc[a] = "accept" /\ owed' = owed \cup batch[a] /\ UNCHANGED <<delayed, finishing, completing, stopped>>
  BY DEF Accept
<1>2. pc'[a] = "schedule" /\ \A b \in Actors \ {a} : pc'[b] = pc[b]
  BY LabelFacts, MoveFacts DEF Accept
<1>3. PICK no \in SUBSET batch[a] :
        /\ done' = done \cup no /\ active' = active \cup (batch[a] \ no)
        /\ orderly' = (orderly /\ (active # {} \/ no # batch[a]))
  BY AcceptFacts
<1>4. active' # {}
  BY <1>3
<1>5. a \in Threads => active # {}
  BY <1>1, BusyActive, LabelFacts
<1>6. ~stopped
  <2>1. CASE a \in Users
    BY <1>1, <2>1 DEF Ordered, Alone
  <2>2. CASE a \in Threads
    BY <1>5, <2>2 DEF Ordered, Debts
  <2> QED BY <2>1, <2>2 DEF Actors
<1>7. NoneAside'
  BY <1>1, <1>2 DEF Ordered, NoneAside
<1>8. Debts'
  <2>1. owed' \subseteq active' \cup done' \cup Finishing'
    BY <1>1, <1>3 DEF Ordered, Debts, Finishing
  <2> QED BY <1>1, <1>4, <1>6, <2>1 DEF Debts
<1>9. Alone'
  <2> SUFFICES ASSUME NEW u \in Users, pc'[u] \in {"submit", "accept"} PROVE FALSE
    BY DEF Alone
  <2>1. u # a /\ pc[u] \in {"submit", "accept"}
    BY <1>2 DEF Actors
  <2>2. a \notin Users
    BY <1>1, <2>1 DEF Ordered, Alone, SubmitLabels, Preparing
  <2>3. active # {}
    BY <1>5, <2>2 DEF Actors
  <2> QED BY <2>1, <2>3 DEF Ordered, Alone
<1> QED BY <1>7, <1>8, <1>9 DEF Ordered

LEMMA RecountOrdered ==
  ASSUME GroupTypes, PInv, Completion, Ordered, NEW a \in Actors, Recount(a)
  PROVE  Ordered'
<1> USE DEF flags, lists, items, work, history
<1>1. /\ pc[a] = "recount" /\ lock = Nobody /\ stopped' = (stopped \/ active = {})
      /\ UNCHANGED <<delayed, owed, active, done, finishing, completing>>
  BY DEF Recount
<1>2. pc'[a] \in {"idle", "body"} /\ \A b \in Actors \ {a} : pc'[b] = pc[b]
  BY ReturnFacts DEF Recount
<1>3. ~completing /\ (active = {} => owed = {})
  BY <1>1, LockFree, NothingOwed
<1>4. NoneAside'
  BY <1>1, <1>2 DEF Ordered, NoneAside
<1>5. Debts'
  <2>1. active # {} => ~stopped
    BY DEF Ordered, Debts
  <2> QED BY <1>1, <1>3, <2>1 DEF Ordered, Debts, Finishing
<1>6. Alone'
  <2> SUFFICES ASSUME NEW u \in Users, pc'[u] \in {"submit", "accept"} PROVE FALSE
    BY DEF Alone
  <2>1. u # a /\ pc[u] \in {"submit", "accept"}
    BY <1>2 DEF Actors
  <2>2. a \in Threads
    BY <1>1, <2>1 DEF Ordered, Alone, SubmitLabels, Preparing, Actors
  <2>3. active # {}
    BY <1>1, <2>2, BusyActive, LabelFacts
  <2> QED BY <2>1, <2>3 DEF Ordered, Alone
<1> QED BY <1>4, <1>5, <1>6 DEF Ordered

LEMMA CallOrdered ==
  ASSUME GroupTypes, PInv, Completion, orderly => Ordered, NEW a \in Actors, Call(a), orderly'
  PROVE  Ordered'
<1> USE DEF flags, lists, items, work, history
<1>0. orderly
  BY DEF Call, Submit, SubmitCompleting, SubmitNow, Accept, Recount, Delay, Schedule, Stop, SetStopping
<1>1. Ordered
  BY <1>0
<1>2. ASSUME SubmitCompleting(a) PROVE FALSE
  <2>1. pc[a] = "submit" /\ completing
    BY <1>2 DEF SubmitCompleting
  <2>2. a \in Threads
    BY <1>1, <2>1 DEF Ordered, Alone, Actors
  <2>3. active # {}
    BY <2>1, <2>2, BusyActive, LabelFacts
  <2> QED BY <2>1, <2>3 DEF Completion
<1>3. ASSUME NEW i \in Items, Delay(a, i) PROVE FALSE
  BY <1>1, <1>3 DEF Delay, Ordered, NoneAside
<1>4. ASSUME NEW i \in Items, Schedule(a, i) PROVE Ordered'
  <2>1. UNCHANGED <<delayed, owed, active, done, finishing, completing, stopped>> /\ pc[a] = "schedule"
    BY <1>4 DEF Schedule
  <2>2. CASE batch[a] = {i}
    BY <1>1, <1>4, <2>1, <2>2, LabelFacts, MoveOrdered DEF Schedule, SubmitLabels
  <2>3. CASE batch[a] # {i}
    BY <1>1, <1>4, <2>1, <2>3, StayOrdered DEF Schedule
  <2> QED BY <2>2, <2>3
<1>5. CASE Stop(a)
  BY <1>1, <1>5, LabelFacts, MoveOrdered DEF Stop, SubmitLabels, Preparing
<1>6. CASE SetStopping(a)
  <2>1. UNCHANGED <<delayed, owed, active, done, finishing, completing, stopped>> /\ Return(a)
    BY <1>6 DEF SetStopping
  <2>2. Goto(a, Caller(a)) /\ Caller(a) \in {"idle", "body"} /\ Caller(a) \in GroupLabels
    BY <2>1, ReturnFacts
  <2> QED BY <1>1, <2>1, <2>2, MoveOrdered DEF SubmitLabels, Preparing
<1> QED BY <1>1, <1>2, <1>3, <1>4, <1>5, <1>6, SubmitOrdered, SubmitNowOrdered, AcceptOrdered, RecountOrdered DEF Call

LEMMA WaitingOrdered ==
  ASSUME GroupTypes, Ordered, NEW u \in Users, Waiting(u)
  PROVE  Ordered'
<1> USE DEF flags, lists, items, work, history
<1>1. u \in Actors
  BY DEF Actors
<1>2. PICK l \in {"waited", "waitlock", "timedout", "wait", "idle"} : Goto(u, l)
  BY DEF Waiting, Wait, Look, EnterWait, EndWait, WaitTimesOut, Resume
<1>3. UNCHANGED <<delayed, owed, active, done, finishing, completing, stopped>>
  BY DEF Waiting, Wait, Look, EnterWait, EndWait, WaitTimesOut, Resume
<1> QED BY <1>1, <1>2, <1>3, LabelFacts, MoveOrdered DEF SubmitLabels, Preparing

LEMMA DoneOrdered ==
  ASSUME GroupTypes, PInv, Completion, Ordered, NEW t \in Threads, Done(t)
  PROVE  Ordered'
<1>1. /\ t \in Actors /\ job[t] \in active /\ active' = active \ {job[t]} /\ lock = Nobody
      /\ UNCHANGED <<stopped, delayed, owed>>
      /\ \/ /\ active' = {} /\ finishing' = [finishing EXCEPT ![t] = done \cup {job[t]}] /\ done' = {}
            /\ Goto(t, "complete")
         \/ /\ active' # {} /\ done' = done \cup {job[t]} /\ Goto(t, "take")
            /\ UNCHANGED <<completing, finishing>>
  BY DoneFacts
<1>2. ~stopped /\ owed \subseteq active \cup done
  BY <1>1, LockFree DEF Ordered, Debts
<1>3. pc'[t] \in {"complete", "take"} /\ \A b \in Actors \ {t} : pc'[b] = pc[b]
  BY <1>1, LabelFacts, MoveFacts
<1>4. NoneAside'
  BY <1>1, <1>3 DEF Ordered, NoneAside
<1>5. Debts'
  <2>1. owed' \subseteq active' \cup done' \cup Finishing'
    <3>1. CASE active' # {}
      BY <1>1, <1>2, <3>1
    <3>2. CASE active' = {}
      <4>1. finishing'[t] = done \cup {job[t]}
        BY <1>1, <3>2 DEF GroupTypes
      <4>2. finishing'[t] \subseteq Finishing'
        BY DEF Finishing
      <4> QED BY <1>1, <1>2, <3>2, <4>1, <4>2
    <3> QED BY <3>1, <3>2
  <2> QED BY <1>1, <1>2, <2>1 DEF Debts
<1>6. Alone'
  <2> SUFFICES ASSUME NEW u \in Users, pc'[u] \in {"submit", "accept"} PROVE FALSE
    BY DEF Alone
  <2>1. pc[u] \in {"submit", "accept"}
    BY <1>3 DEF Actors
  <2> QED BY <1>1, <2>1 DEF Ordered, Alone
<1> QED BY <1>4, <1>5, <1>6 DEF Ordered

LEMMA GroupCompleteOrdered ==
  ASSUME GroupTypes, Ordered, NEW t \in Threads, NEW i \in Items, GroupComplete(t, i)
  PROVE  Ordered'
<1> USE DEF flags, lists
<1>1. owed' = owed \ {i} /\ UNCHANGED <<delayed, active, done, completing, stopped, pc>>
  BY DEF GroupComplete
<1>2. \A s \in Threads : finishing[s] \ {i} \subseteq finishing'[s]
  BY DEF GroupComplete, GroupTypes, Actors
<1>3. Finishing \ {i} \subseteq Finishing'
  BY <1>2 DEF Finishing
<1>4. Debts'
  BY <1>1, <1>3 DEF Ordered, Debts
<1> QED BY <1>1, <1>4 DEF Ordered, NoneAside, Alone

LEMMA FinishedOrdered ==
  ASSUME GroupTypes, Completion, Ordered, NEW t \in Threads, Finished(t)
  PROVE  Ordered'
<1> USE DEF flags, lists, items, work, history
<1>1. /\ pc[t] = "complete" /\ finishing[t] = {} /\ stopped' = TRUE /\ completing' = FALSE
      /\ UNCHANGED <<delayed, owed, active, done, finishing>>
  BY DEF Finished
<1>2. completing /\ active = {} /\ done = {} /\ lock = t
  BY <1>1 DEF Completion
<1>3. Finishing = {}
  BY <1>1, <1>2 DEF Completion, Finishing
<1>4. owed = {}
  BY <1>2, <1>3 DEF Ordered, Debts
<1>5. Goto(t, "take") /\ t \in Actors
  BY DEF Finished, Ordered, NoneAside, Actors
<1>6. pc'[t] = "take" /\ \A b \in Actors \ {t} : pc'[b] = pc[b]
  BY <1>5, LabelFacts, MoveFacts
<1>7. NoneAside' /\ Debts'
  BY <1>1, <1>2, <1>4, <1>6 DEF Ordered, NoneAside, Debts
<1>8. Alone'
  <2> SUFFICES ASSUME NEW u \in Users, pc'[u] \in {"submit", "accept"} PROVE FALSE
    BY DEF Alone
  <2>1. pc[u] \in {"submit", "accept"}
    BY <1>6 DEF Actors
  <2> QED BY <1>2, <2>1 DEF Ordered, Alone
<1> QED BY <1>7, <1>8 DEF Ordered

LEMMA PoolOrdered ==
  ASSUME GroupTypes, PInv, Completion, orderly => Ordered, NEW t \in Threads, Pool(t), orderly'
  PROVE  Ordered'
<1> USE DEF flags, lists, items, work, history
<1>0. t \in Actors
  BY DEF Actors
<1>1. ASSUME NEW i \in Items, GroupCompleteResubmits(t, i) PROVE FALSE
  BY <1>1 DEF GroupCompleteResubmits
<1>2. CASE ~orderly
  <2>1. orderly' = orderly \/ \E i \in Items : GroupCompleteResubmits(t, i)
    BY DEF Pool, TakeStopping, TimerAsks, TimerFires, Execute, GroupComplete, Succeed, Fail, Done, Finished,
           LetWaitsEnd, LookAgain, ResubmitRefused
  <2> QED BY <1>1, <1>2, <2>1
<1>3. CASE orderly
  <2>0. Ordered
    BY <1>3
  <2>1. ASSUME NEW i \in Items, TakeStopping(t, i) \/ Execute(t, i) PROVE Ordered'
    BY <1>0, <2>0, <2>1, LabelFacts, MoveOrdered DEF TakeStopping, Execute, SubmitLabels, Preparing
  <2>2. ASSUME NEW i \in Items, TimerFires(t, i) PROVE Ordered'
    BY <2>0, <2>2, StayOrdered DEF TimerFires
  <2>3. ASSUME NEW i \in Items, TimerAsks(t, i) PROVE Ordered'
    <3>1. UNCHANGED <<delayed, owed, active, done, finishing, completing, stopped>>
      BY <2>3 DEF TimerAsks
    <3>2. Goto(t, "finish") \/ Goto(t, "take")
      BY <2>3 DEF TimerAsks, GoOn
    <3> QED BY <1>0, <2>0, <3>1, <3>2, LabelFacts, MoveOrdered DEF SubmitLabels, Preparing
  <2>4. CASE Succeed(t) \/ Fail(t)
    <3>1. UNCHANGED <<delayed, owed, active, done, finishing, completing, stopped>>
      BY <2>4 DEF Succeed, Fail
    <3>2. Goto(t, "finish") \/ Goto(t, "take") \/ Goto(t, "failed")
      BY <2>4 DEF Succeed, Fail, GoOn
    <3> QED BY <1>0, <2>0, <3>1, <3>2, LabelFacts, MoveOrdered DEF SubmitLabels, Preparing
  <2>5. CASE LetWaitsEnd(t) \/ LookAgain(t) \/ ResubmitRefused(t)
    BY <1>0, <2>0, <2>5 DEF LetWaitsEnd, LookAgain, ResubmitRefused, Ordered, NoneAside
  <2> QED BY <1>1, <2>0, <2>1, <2>2, <2>3, <2>4, <2>5, DoneOrdered, GroupCompleteOrdered, FinishedOrdered DEF Pool
<1> QED BY <1>2, <1>3

-----------------------------------------------------------------------------
(* wait()                                                                  *)

Promise == Awaiting /\ WaitMeansComplete

\* A step that leaves waits alone keeps what they promise, as long as what is
\* owed does not shrink.
LEMMA SamePromise ==
  ASSUME Promise, owed \subseteq owed', UNCHANGED awaited, orderly' => orderly,
         \A u \in Users : pc'[u] = "waited" => pc[u] = "waited"
  PROVE  Promise'
BY DEF Promise, Awaiting, WaitMeansComplete

LEMMA CallPromise ==
  ASSUME GroupTypes, Promise, NEW a \in Actors, Call(a)
  PROVE  Promise'
<1> USE DEF flags, lists, items, work, history
<1>1. owed \subseteq owed' /\ UNCHANGED awaited
  BY DEF Call, Submit, SubmitCompleting, SubmitNow, Accept, Recount, Delay, Schedule, Stop, SetStopping
<1>2. orderly' => orderly
  BY DEF Call, Submit, SubmitCompleting, SubmitNow, Accept, Recount, Delay, Schedule, Stop, SetStopping
<1>3. \/ UNCHANGED pc
      \/ Return(a)
      \/ \E l \in {"submit", "delay", "accept", "schedule", "recount", "stop"} : Goto(a, l)
  BY DEF Call, Submit, SubmitCompleting, SubmitNow, Accept, Recount, Delay, Schedule, Stop, SetStopping
<1>4. \A u \in Users : pc'[u] = "waited" => pc[u] = "waited"
  <2>1. CASE Return(a)
    BY <2>1, ReturnFacts DEF Actors
  <2>2. ASSUME NEW l \in {"submit", "delay", "accept", "schedule", "recount", "stop"}, Goto(a, l)
        PROVE  \A u \in Users : pc'[u] = "waited" => pc[u] = "waited"
    BY <2>2, LabelFacts, MoveFacts DEF Actors
  <2> QED BY <1>3, <2>1, <2>2
<1> QED BY <1>1, <1>2, <1>4, SamePromise

LEMMA PoolPromise ==
  ASSUME GroupTypes, Promise, NEW t \in Threads, Pool(t)
  PROVE  Promise'
<1> USE DEF flags, lists, items, work, history
<1>0. t \in Actors /\ t \notin Users
  BY GroupAssumption DEF Actors
<1>1. orderly' => orderly
  BY DEF Pool, TakeStopping, TimerAsks, TimerFires, Execute, GroupComplete, GroupCompleteResubmits, Succeed, Fail,
         Done, Finished, LetWaitsEnd, LookAgain, ResubmitRefused
<1>2. UNCHANGED pc \/ \E l : Goto(t, l)
  BY DEF Pool, TakeStopping, TimerAsks, TimerFires, Execute, GroupComplete, GroupCompleteResubmits, Succeed, Fail,
         Done, Finished, LetWaitsEnd, LookAgain, ResubmitRefused, GoOn
<1>3. \A u \in Users : pc'[u] = pc[u]
  BY <1>0, <1>2 DEF Goto, GroupTypes, Actors
<1>4. \/ UNCHANGED <<owed, awaited>>
      \/ \E i \in Items : owed \ {i} \subseteq owed' /\ awaited' = [u \in Users |-> awaited[u] \ {i}]
  BY DEF Pool, TakeStopping, TimerAsks, TimerFires, Execute, GroupComplete, GroupCompleteResubmits, Succeed, Fail,
         Done, Finished, LetWaitsEnd, LookAgain, ResubmitRefused
<1>5. CASE UNCHANGED <<owed, awaited>>
  BY <1>1, <1>3, <1>5, SamePromise
<1>6. ASSUME NEW i \in Items, owed \ {i} \subseteq owed', awaited' = [u \in Users |-> awaited[u] \ {i}]
      PROVE  Promise'
  <2>1. \A u \in Users : awaited'[u] = awaited[u] \ {i}
    BY <1>6
  <2> QED BY <1>1, <1>3, <1>6, <2>1 DEF Promise, Awaiting, WaitMeansComplete
<1> QED BY <1>4, <1>5, <1>6

LEMMA WaitingPromise ==
  ASSUME GroupTypes, Completion, orderly => Ordered, Promise, NEW u \in Users, Waiting(u)
  PROVE  Promise'
<1> USE DEF flags, lists, items, work, history
<1>0. u \in Actors /\ UNCHANGED <<owed, orderly>>
  BY DEF Waiting, Wait, Look, EnterWait, EndWait, WaitTimesOut, Resume, Actors
<1>1. PICK l \in {"waited", "waitlock", "timedout", "wait", "idle"} : Goto(u, l)
  BY DEF Waiting, Wait, Look, EnterWait, EndWait, WaitTimesOut, Resume
<1>2. pc'[u] = l /\ \A v \in Users \ {u} : pc'[v] = pc[v]
  BY <1>0, <1>1, LabelFacts, MoveFacts DEF Actors
<1>3. awaited'[u] \in {awaited[u], owed, {}} /\ \A v \in Users \ {u} : awaited'[v] = awaited[v]
  BY DEF Waiting, Wait, Look, EnterWait, EndWait, WaitTimesOut, Resume, GroupTypes
<1>4. Awaiting'
  BY <1>0, <1>3 DEF Promise, Awaiting
<1>5. ASSUME orderly, pc'[u] = "waited" PROVE awaited'[u] = {}
  <2>1. CASE Wait(u)
    <3>1. awaited'[u] = owed
      BY <2>1 DEF Wait, GroupTypes
    <3>2. stopped
      BY <1>0, <1>5, <2>1, LabelFacts DEF Wait, Goto, GroupTypes
    <3> QED BY <1>5, <3>1, <3>2 DEF Ordered, Debts
  <2>2. CASE Look(u) \/ EndWait(u)
    <3>1. lock = Nobody /\ UNCHANGED awaited
      BY <2>2 DEF Look, EndWait
    <3>2. active = {}
      BY <1>0, <1>5, <2>2 DEF Look, EndWait, Goto, GroupTypes
    <3> QED BY <1>5, <3>1, <3>2, NothingOwed DEF Promise, Awaiting
  <2>3. CASE EnterWait(u) \/ WaitTimesOut(u) \/ Resume(u)
    BY <1>0, <1>5, <2>3 DEF EnterWait, WaitTimesOut, Resume, Goto, GroupTypes
  <2> QED BY <2>1, <2>2, <2>3 DEF Waiting
<1>6. WaitMeansComplete'
  BY <1>0, <1>2, <1>3, <1>5 DEF Promise, WaitMeansComplete
<1> QED BY <1>4, <1>6 DEF Promise

-----------------------------------------------------------------------------
(* The group                                                               *)

LEMMA GInvInit == Init => GInv
<1> SUFFICES ASSUME Init PROVE GInv
  OBVIOUS
<1> USE DEF Init
<1>1. \A a \in Actors : pc[a] \in {"idle", "take"} /\ job[a] = Nobody /\ batch[a] = {} /\ finishing[a] = {}
  OBVIOUS
<1>2. \A t \in Threads : pc[t] = "take"
  BY GroupAssumption DEF Actors
<1>3. GroupTypes
  BY LabelFacts DEF GroupTypes, Actors
<1>4. PInv
  <2>1. InHand /\ Apart /\ Unowned /\ Parents
    BY <1>1, <1>2, LabelFacts DEF InHand, Apart, Unowned, Parents, Preparing, Actors
  <2>2. \A i \in Items : OnePlace(i)
    BY <1>1, GroupAssumption DEF OnePlace, Workers, Schedulers, Actors
  <2> QED BY <2>1, <2>2 DEF PInv
<1>5. Completion
  BY <1>1, <1>2 DEF Completion, Actors
<1>6. Ordered
  BY <1>1 DEF Ordered, NoneAside, Debts, Alone, Actors
<1>7. Awaiting /\ WaitMeansComplete
  BY DEF Awaiting, WaitMeansComplete
<1> QED BY <1>3, <1>4, <1>5, <1>6, <1>7 DEF GInv, WInv

LEMMA GInvStep == GInv /\ [Next]_vars => GInv'
<1> SUFFICES ASSUME GInv, [Next]_vars PROVE GInv'
  OBVIOUS
<1>0. /\ GroupTypes /\ PInv /\ Completion /\ (orderly => Ordered) /\ Promise
      /\ InHand /\ \A i \in Items : OnePlace(i)
  BY DEF GInv, WInv, PInv, Promise
<1>1. ASSUME NEW a \in Actors, Call(a) PROVE GInv'
  BY <1>0, <1>1, CallTypes, CallPlace, CallCompletion, CallOrdered, CallPromise DEF GInv, WInv, Promise
<1>2. ASSUME NEW t \in Threads, Pool(t) PROVE GInv'
  BY <1>0, <1>2, PoolTypes, PoolPlace, PoolCompletion, PoolOrdered, PoolPromise DEF GInv, WInv, Promise
<1>3. ASSUME NEW u \in Users, Waiting(u) PROVE GInv'
  <2>1. orderly' = orderly
    BY <1>3 DEF Waiting, Wait, Look, EnterWait, EndWait, WaitTimesOut, Resume, history
  <2> QED BY <1>0, <1>3, <2>1, WaitingTypes, WaitingPlace, WaitingCompletion, WaitingOrdered, WaitingPromise
          DEF GInv, WInv, Promise
<1>4. CASE UNCHANGED vars
  <2> USE <1>4 DEF vars, flags, lists, items, work, history
  <2>1. GroupTypes'
    BY <1>0 DEF GroupTypes
  <2>2. PInv'
    BY <1>0, StayPlace DEF SameItems
  <2>3. Completion' /\ (orderly' => Ordered')
    BY <1>0, StayCompletion, StayOrdered
  <2>4. Promise'
    BY <1>0, SamePromise
  <2> QED BY <2>1, <2>2, <2>3, <2>4 DEF GInv, WInv, Promise
<1> QED BY <1>1, <1>2, <1>3, <1>4 DEF Next

LEMMA GInvHolds == Spec => []GInv
BY GInvInit, GInvStep, PTL DEF Spec

LEMMA OnePlaceCounts ==
  ASSUME GroupTypes, PInv
  PROVE  NeverConcurrent
<1> SUFFICES ASSUME NEW i \in Items PROVE Places(i) = IF i \in active THEN 1 ELSE 0
  BY DEF NeverConcurrent
<1> DEFINE Here == {a \in Actors : pc[a] = "schedule" /\ i \in batch[a] /\ nextwork[i] # "none"}
<1>1. Places(i) = scheduled[i] + Cardinality(Workers(i)) + Cardinality(Here)
  BY DEF Places, Workers
<1>2. Here = IF nextwork[i] = "none" THEN {} ELSE Schedulers(i)
  BY DEF Schedulers
<1>3. Cardinality({}) = 0 /\ \A x : Cardinality({x}) = 1
  BY FS_EmptySet, FS_Singleton
<1> HIDE DEF Here
<1> QED BY <1>1, <1>2, <1>3 DEF PInv, OnePlace

(* No work item is executed by two threads at a time or left in the queues *)
(* while a thread has it, and none that is active is lost: submissions,    *)
(* timers, reschedulings, stops, failures and completions interleaved in   *)
(* any way move an item from one place to the next. *)
THEOREM NeverConcurrentHolds == Spec => []NeverConcurrent
<1>1. GInv => NeverConcurrent
  BY OnePlaceCounts DEF GInv
<1> QED BY <1>1, GInvHolds, PTL

(* wait() that reports no time out has waited for every group_complete()   *)
(* of what was submitted before it was called, whether it found the group  *)
(* stopped, looked once or polled, in an orderly use of the group. *)
THEOREM WaitMeansCompleteHolds == Spec => []WaitMeansComplete
<1>1. GInv => WaitMeansComplete
  BY DEF GInv, WInv
<1> QED BY <1>1, GInvHolds, PTL

-----------------------------------------------------------------------------
(* THE POOL *)

(* The part of TypeOK that the counters need. *)
Counters ==
  /\ queued \in Nat /\ timers \in Nat /\ total \in Int
  /\ pool_pc \in [PoolActors -> Labels]

(* Who has added an item but not counted it, and who has taken one that is *)
(* still counted. *)
Counting == {a \in PoolActors : pool_pc[a] = "count"}
Taking == {t \in PoolThreads : pool_pc[t] = "taken"}

IInv == Counters /\ Accounted

-----------------------------------------------------------------------------
LEMMA CountingFinite ==
  ASSUME NEW S \in SUBSET PoolActors
  PROVE  IsFiniteSet(S) /\ Cardinality(S) \in Nat
<1>1. IsFiniteSet(PoolActors)
  BY PoolAssumption, FS_Union DEF PoolActors
<1>2. IsFiniteSet(S)
  BY <1>1, FS_Subset
<1> QED BY <1>2, FS_CardinalityType

(* One more, or one less. *)
LEMMA OneMore ==
  ASSUME NEW S \in SUBSET PoolActors, NEW a \in PoolActors, a \notin S
  PROVE  Cardinality(S \cup {a}) = Cardinality(S) + 1
BY CountingFinite, FS_AddElement

LEMMA OneLess ==
  ASSUME NEW S \in SUBSET PoolActors, NEW a \in S
  PROVE  Cardinality(S \ {a}) = Cardinality(S) - 1
BY CountingFinite, FS_RemoveElement

(* Moves of one or two actors between labels at which they neither count   *)
(* nor take leave both sets alone. *)
LEMMA Elsewhere ==
  ASSUME Counters, NEW a \in PoolActors, NEW b \in PoolActors,
         NEW l \in Labels \ {"count", "taken"}, NEW m \in Labels \ {"count", "taken"},
         pool_pc[a] \notin {"count", "taken"}, pool_pc[b] \notin {"count", "taken"},
         pool_pc' = [pool_pc EXCEPT ![a] = l, ![b] = m]
  PROVE  Counting' = Counting /\ Taking' = Taking /\ pool_pc' \in [PoolActors -> Labels]
BY DEF Counters, Counting, Taking, PoolActors, Labels

LEMMA AccountedSets ==
  /\ Accounted <=> total = queued + timers + Cardinality(Taking) - Cardinality(Counting)
  /\ Accounted' <=> total' = queued' + timers' + Cardinality(Taking') - Cardinality(Counting')
BY DEF Accounted, Taking, Counting

LEMMA Sets == Counting \in SUBSET PoolActors /\ Taking \in SUBSET PoolActors
BY DEF Counting, Taking, PoolActors

(* Steps that only move actors elsewhere. *)
LEMMA Moves ==
  ASSUME IInv, UNCHANGED queues, NEW a \in PoolActors, NEW b \in PoolActors,
         NEW l \in Labels \ {"count", "taken"}, NEW m \in Labels \ {"count", "taken"},
         pool_pc[a] \notin {"count", "taken"}, pool_pc[b] \notin {"count", "taken"},
         pool_pc' = [pool_pc EXCEPT ![a] = l, ![b] = m]
  PROVE  IInv'
<1>1. Counting' = Counting /\ Taking' = Taking /\ pool_pc' \in [PoolActors -> Labels]
  BY Elsewhere DEF IInv
<1> QED BY <1>1 DEF IInv, Counters, Accounted, Counting, Taking, queues

LEMMA MoveOne ==
  ASSUME IInv, UNCHANGED queues, NEW a \in PoolActors, NEW l \in Labels \ {"count", "taken"},
         pool_pc[a] \notin {"count", "taken"}, PoolGoto(a, l)
  PROVE  IInv'
<1>1. pool_pc' = [pool_pc EXCEPT ![a] = l, ![a] = l]
  BY DEF PoolGoto, IInv, Counters
<1> QED BY <1>1, Moves

(* The four steps that move an item or count it. *)
LEMMA SubmitStep == ASSUME IInv, NEW a \in PoolActors, SubmitWorkItem(a) PROVE IInv'
<1>1. Counting' = Counting \cup {a} /\ a \notin Counting /\ Taking' = Taking
  BY DEF SubmitWorkItem, PoolGoto, IInv, Counters, Counting, Taking, PoolActors, Labels
<1>2. Cardinality(Counting') = Cardinality(Counting) + 1
  BY <1>1, Sets, OneMore
<1>3. \/ queued' = queued + 1 /\ timers' = timers
      \/ timers' = timers + 1 /\ queued' = queued
  BY DEF SubmitWorkItem
<1>4. total' = total /\ pool_pc' \in [PoolActors -> Labels]
  BY DEF SubmitWorkItem, PoolGoto, IInv, Counters, Labels
<1>5. Cardinality(Counting) \in Nat /\ Cardinality(Taking) \in Nat
  BY Sets, CountingFinite
<1>6. Cardinality(Taking') = Cardinality(Taking)
  BY <1>1
<1>7. total = queued + timers + Cardinality(Taking) - Cardinality(Counting)
  BY AccountedSets DEF IInv
<1>8. queued \in Nat /\ timers \in Nat /\ total \in Int
  BY DEF IInv, Counters
<1>9. total' = queued' + timers' + Cardinality(Taking') - Cardinality(Counting')
  <2>1. CASE queued' = queued + 1 /\ timers' = timers
    BY <2>1, <1>2, <1>4, <1>5, <1>6, <1>7, <1>8
  <2>2. CASE timers' = timers + 1 /\ queued' = queued
    BY <2>2, <1>2, <1>4, <1>5, <1>6, <1>7, <1>8
  <2> QED BY <1>3, <2>1, <2>2
<1> QED BY <1>3, <1>4, <1>8, <1>9, AccountedSets DEF IInv, Counters

LEMMA CountStep == ASSUME IInv, NEW a \in PoolActors, Count(a) PROVE IInv'
<1>1. Counting' = Counting \ {a} /\ a \in Counting /\ Taking' = Taking
  BY DEF Count, PoolGoto, IInv, Counters, Counting, Taking, PoolActors, Labels
<1>2. Cardinality(Counting') = Cardinality(Counting) - 1
  BY <1>1, Sets, OneLess
<1>3. queued' = queued /\ timers' = timers /\ total' = total + 1 /\ pool_pc' \in [PoolActors -> Labels]
  BY DEF Count, PoolGoto, IInv, Counters, Labels
<1>4. Cardinality(Counting) \in Nat /\ Cardinality(Taking) \in Nat
  BY Sets, CountingFinite
<1> QED BY <1>1, <1>2, <1>3, <1>4, AccountedSets DEF IInv, Counters

LEMMA TakeStep == ASSUME IInv, NEW t \in PoolThreads, Take(t) PROVE IInv'
<1>1. Taking' = Taking \cup {t} /\ t \notin Taking /\ Counting' = Counting
  BY DEF Take, PoolGoto, IInv, Counters, Counting, Taking, PoolActors, Labels
<1>2. Cardinality(Taking') = Cardinality(Taking) + 1
  BY <1>1, Sets, OneMore DEF PoolActors
<1>3. queued' = queued - 1 /\ queued > 0 /\ timers' = timers /\ total' = total
  BY DEF Take
<1>4. pool_pc' \in [PoolActors -> Labels]
  BY DEF Take, PoolGoto, IInv, Counters, Labels
<1>5. Cardinality(Counting) \in Nat /\ Cardinality(Taking) \in Nat
  BY Sets, CountingFinite
<1> QED BY <1>1, <1>2, <1>3, <1>4, <1>5, AccountedSets DEF IInv, Counters

LEMMA DiscountStep == ASSUME IInv, NEW t \in PoolThreads, Discount(t) PROVE IInv'
<1>1. Taking' = Taking \ {t} /\ t \in Taking /\ Counting' = Counting
  BY DEF Discount, PoolGoto, IInv, Counters, Counting, Taking, PoolActors, Labels
<1>2. Cardinality(Taking') = Cardinality(Taking) - 1
  BY <1>1, Sets, OneLess
<1>3. queued' = queued /\ timers' = timers /\ total' = total - 1 /\ pool_pc' \in [PoolActors -> Labels]
  BY DEF Discount, PoolGoto, IInv, Counters, Labels
<1>4. Cardinality(Counting) \in Nat /\ Cardinality(Taking) \in Nat
  BY Sets, CountingFinite
<1> QED BY <1>1, <1>2, <1>3, <1>4, AccountedSets DEF IInv, Counters

-----------------------------------------------------------------------------
LEMMA Initially == PoolInit => IInv
<1> SUFFICES ASSUME PoolInit PROVE IInv
  OBVIOUS
<1>1. Counting = {} /\ Taking = {}
  BY DEF PoolInit, Counting, Taking, PoolActors
<1>2. Cardinality(Counting) = 0 /\ Cardinality(Taking) = 0
  BY <1>1, FS_EmptySet
<1>3. Counters
  BY DEF PoolInit, Counters, Labels
<1> QED BY <1>2, <1>3, AccountedSets DEF IInv, PoolInit

LEMMA Inductive == IInv /\ [PoolNext]_poolvars => IInv'
<1> SUFFICES ASSUME IInv, [PoolNext]_poolvars PROVE IInv'
  OBVIOUS
<1> USE DEF Labels
<1>1. ASSUME NEW a \in PoolActors, SubmitWorkItem(a) PROVE IInv'
  BY <1>1, SubmitStep
<1>2. ASSUME NEW a \in PoolActors, Count(a) PROVE IInv'
  BY <1>2, CountStep
<1>3. ASSUME NEW a \in PoolActors, LastHasNoWork(a) \/ StartFails(a) \/ WakeSome(a) PROVE IInv'
  BY <1>3, MoveOne DEF LastHasNoWork, StartFails, WakeSome, PoolReturn, PoolCaller, queues
<1>4. ASSUME NEW a \in PoolActors, StartFirst(a) PROVE IInv'
  <2>1. PICK t \in PoolThreads : AddThread(a, PoolCaller(a), t)
    BY <1>4 DEF StartFirst
  <2> QED BY <1>4, <2>1, Moves DEF StartFirst, AddThread, PoolCaller, PoolActors, queues
<1>5. ASSUME NEW t \in PoolThreads, Take(t) PROVE IInv'
  BY <1>5, TakeStep
<1>6. ASSUME NEW t \in PoolThreads, Discount(t) PROVE IInv'
  BY <1>6, DiscountStep
<1>7. ASSUME NEW t \in PoolThreads, LookInVain(t) \/ Leave(t) \/ Sleep(t) \/ WakeUp(t) PROVE IInv'
  BY <1>7, MoveOne DEF LookInVain, Leave, Left, Sleep, WakeUp, PoolActors, queues
<1>8. ASSUME NEW t \in PoolThreads, Executed(t) \/ EnoughRun(t) \/ TooManyRun(t) \/ Quit(t) PROVE IInv'
  BY <1>8, MoveOne DEF Executed, EnoughRun, TooManyRun, Quit, Left, PoolActors, queues
<1>9. ASSUME NEW t \in PoolThreads, TooFewRun(t) PROVE IInv'
  <2>1. PICK u \in PoolThreads : AddThread(t, "look", u)
    BY <1>9 DEF TooFewRun
  <2> QED BY <1>9, <2>1, Moves DEF TooFewRun, AddThread, PoolActors, queues
<1>10. CASE TimerDue
  BY <1>10 DEF TimerDue, IInv, Counters, Accounted
<1>11. CASE UNCHANGED poolvars
  BY <1>11 DEF poolvars, queues, IInv, Counters, Accounted
<1> QED
  BY <1>1, <1>2, <1>3, <1>4, <1>5, <1>6, <1>7, <1>8, <1>9, <1>10, <1>11 DEF PoolNext, Submitting, Work

(* The counter from which the pool derives how many threads to wake or to  *)
(* start agrees with the queues, however submitting and executing threads  *)
(* interleave, for any number of them. *)
THEOREM AccountedHolds == PoolSpec => []Accounted
<1>1. IInv => Accounted
  BY DEF IInv
<1> QED BY <1>1, Initially, Inductive, PTL DEF PoolSpec

-----------------------------------------------------------------------------
(* Types. *)

LEMMA SleepersFacts ==
  ASSUME sleeping \in Seq(PoolThreads)
  PROVE  /\ Sleepers \subseteq PoolThreads
         /\ \A t : t \in Sleepers <=> \E k \in DOMAIN sleeping : sleeping[k] = t
BY DEF Sleepers

(* Unlinking one element keeps the others. *)
LEMMA RemoveFacts ==
  ASSUME NEW s \in Seq(PoolThreads), NEW k \in DOMAIN s, NEW r, r = RemoveFromList(s, k)
  PROVE  /\ r \in Seq(PoolThreads)
         /\ \A j \in DOMAIN s \ {k} : \E i \in DOMAIN r : r[i] = s[j]
         /\ \A i \in DOMAIN r : \E j \in DOMAIN s \ {k} : r[i] = s[j]
<1>1. DOMAIN s = 1..Len(s) /\ Len(s) \in Nat /\ Len(s) >= 1 /\ k \in 1..Len(s)
  OBVIOUS
<1>2. r = [i \in 1..Len(s) - 1 |-> IF i < k THEN s[i] ELSE s[i + 1]]
  BY DEF RemoveFromList
<1>3. DOMAIN r = 1..Len(s) - 1
  BY <1>2
<1>4. r \in Seq(PoolThreads)
  BY <1>1, <1>2
<1>5. ASSUME NEW j \in DOMAIN s \ {k} PROVE \E i \in DOMAIN r : r[i] = s[j]
  <2>1. CASE j < k
    BY <2>1, <1>1, <1>2, <1>3
  <2>2. CASE j > k
    <3>1. j - 1 \in DOMAIN r /\ ~(j - 1 < k) /\ (j - 1) + 1 = j
      BY <2>2, <1>1, <1>3
    <3> QED BY <3>1, <1>2, <1>3
  <2> QED BY <2>1, <2>2, <1>1
<1>6. ASSUME NEW i \in DOMAIN r PROVE \E j \in DOMAIN s \ {k} : r[i] = s[j]
  <2>1. CASE i < k
    BY <2>1, <1>1, <1>2, <1>3
  <2>2. CASE ~(i < k)
    <3>1. i + 1 \in DOMAIN s \ {k} /\ r[i] = s[i + 1]
      BY <2>2, <1>1, <1>2, <1>3
    <3> QED BY <3>1
  <2> QED BY <2>1, <2>2
<1> QED BY <1>4, <1>5, <1>6

LEMMA RemoveDistinct ==
  ASSUME NEW s \in Seq(PoolThreads), NEW k \in DOMAIN s, NEW r, r = RemoveFromList(s, k),
         \A i, j \in DOMAIN s : s[i] = s[j] => i = j
  PROVE  \A i, j \in DOMAIN r : r[i] = r[j] => i = j
<1> SUFFICES ASSUME NEW i \in DOMAIN r, NEW j \in DOMAIN r, r[i] = r[j] PROVE i = j
  OBVIOUS
<1>1. DOMAIN s = 1..Len(s) /\ Len(s) \in Nat /\ k \in 1..Len(s)
  OBVIOUS
<1>2. r = [x \in 1..Len(s) - 1 |-> IF x < k THEN s[x] ELSE s[x + 1]]
  BY DEF RemoveFromList
<1>3. DOMAIN r = 1..Len(s) - 1
  BY <1>2
<1>4. r[i] = s[IF i < k THEN i ELSE i + 1] /\ r[j] = s[IF j < k THEN j ELSE j + 1]
  BY <1>2, <1>3
<1>5. (IF i < k THEN i ELSE i + 1) \in DOMAIN s /\ (IF j < k THEN j ELSE j + 1) \in DOMAIN s
  BY <1>1, <1>3
<1>6. (IF i < k THEN i ELSE i + 1) = (IF j < k THEN j ELSE j + 1)
  BY <1>4, <1>5
<1> QED BY <1>6, <1>1, <1>3

LEMMA TypeStep == PoolTypeOK /\ [PoolNext]_poolvars => PoolTypeOK'
<1> SUFFICES ASSUME PoolTypeOK, [PoolNext]_poolvars PROVE PoolTypeOK'
  OBVIOUS
<1> USE PoolAssumption DEF PoolTypeOK, Labels, PoolGoto, queues, pool
<1>1. ASSUME NEW a \in PoolActors, SubmitWorkItem(a) \/ Count(a) PROVE PoolTypeOK'
  <2>1. Sleepers' = Sleepers
    BY <1>1 DEF SubmitWorkItem, Count, Sleepers
  <2>2. queued' \in Nat /\ timers' \in Nat /\ total' \in Int /\ appended' \in 0..MaxItems
    <3>1. /\ queued \in Nat /\ timers \in Nat /\ total \in Int
          /\ appended \in 0..MaxItems /\ MaxItems \in Nat
      OBVIOUS
    <3>2. \/ /\ appended < MaxItems /\ appended' = appended + 1 /\ total' = total
             /\ \/ queued' = queued + 1 /\ timers' = timers
                \/ timers' = timers + 1 /\ queued' = queued
          \/ /\ total' = total + 1
             /\ queued' = queued /\ timers' = timers /\ appended' = appended
      BY <1>1 DEF SubmitWorkItem, Count
    <3> QED BY ONLY <3>1, <3>2
  <2>3. pool_pc' \in [PoolActors -> Labels] /\ seen' \in [PoolActors -> Int]
    BY <1>1 DEF SubmitWorkItem, Count
  <2> QED BY <1>1, <2>1, <2>2, <2>3 DEF SubmitWorkItem, Count
<1>2. ASSUME NEW a \in PoolActors, LastHasNoWork(a) \/ StartFails(a) PROVE PoolTypeOK'
  BY <1>2 DEF LastHasNoWork, StartFails, PoolReturn, PoolCaller, Sleepers
<1>3. ASSUME NEW a \in PoolActors, WakeSome(a) PROVE PoolTypeOK'
  <2>1. Sleepers' = Sleepers /\ notified' \subseteq Sleepers
    BY <1>3 DEF WakeSome, Sleepers
  <2> QED BY <1>3, <2>1 DEF WakeSome, PoolReturn, PoolCaller
<1>4. ASSUME NEW a \in PoolActors, StartFirst(a) PROVE PoolTypeOK'
  BY <1>4 DEF StartFirst, AddThread, PoolCaller, Sleepers, PoolActors
<1>5. ASSUME NEW t \in PoolThreads, Take(t) \/ Discount(t) \/ LookInVain(t) PROVE PoolTypeOK'
  <2>1. Sleepers' = Sleepers
    BY <1>5 DEF Take, Discount, LookInVain, Sleepers
  <2>2. queued' \in Nat /\ timers' \in Nat /\ total' \in Int
    BY <1>5 DEF Take, Discount, LookInVain
  <2>3. pool_pc' \in [PoolActors -> Labels]
    BY <1>5 DEF Take, Discount, LookInVain
  <2>4. seen' \in [PoolActors -> Int]
    BY <1>5 DEF Take, Discount, LookInVain
  <2> QED BY <1>5, <2>1, <2>2, <2>3, <2>4 DEF Take, Discount, LookInVain
<1>6. ASSUME NEW t \in PoolThreads, Leave(t) \/ Quit(t) PROVE PoolTypeOK'
  <2>1. Sleepers' = Sleepers
    BY <1>6 DEF Leave, Quit, Sleepers
  <2>2. pool_pc' \in [PoolActors -> Labels] /\ seen' \in [PoolActors -> Int] /\ threadpool_active' \subseteq PoolThreads
    BY <1>6 DEF Leave, Quit, Left, PoolActors
  <2> QED BY <1>6, <2>1, <2>2 DEF Leave, Quit
<1>7. ASSUME NEW t \in PoolThreads, Sleep(t) PROVE PoolTypeOK'
  <2>1. sleeping' \in Seq(PoolThreads) /\ Sleepers \subseteq Sleepers'
    BY <1>7 DEF Sleep, Sleepers
  <2> QED BY <1>7, <2>1 DEF Sleep, PoolActors
<1>8. ASSUME NEW t \in PoolThreads, WakeUp(t) PROVE PoolTypeOK'
  <2>1. PICK k \in DOMAIN sleeping : sleeping[k] = t /\ sleeping' = RemoveFromList(sleeping, k)
    BY <1>8 DEF WakeUp
  <2>2. /\ sleeping' \in Seq(PoolThreads)
        /\ \A j \in DOMAIN sleeping \ {k} : \E i \in DOMAIN sleeping' : sleeping'[i] = sleeping[j]
    BY <2>1, RemoveFacts
  <2>3. Sleepers \ {t} \subseteq Sleepers'
    BY <2>1, <2>2 DEF Sleepers
  <2> QED BY <1>8, <2>2, <2>3 DEF WakeUp
<1>9. ASSUME NEW t \in PoolThreads, Executed(t) \/ EnoughRun(t) \/ TooManyRun(t) PROVE PoolTypeOK'
  BY <1>9 DEF Executed, EnoughRun, TooManyRun, Sleepers, PoolActors
<1>10. ASSUME NEW t \in PoolThreads, TooFewRun(t) PROVE PoolTypeOK'
  BY <1>10 DEF TooFewRun, AddThread, Sleepers, PoolActors
<1>11. CASE TimerDue
  BY <1>11 DEF TimerDue, Sleepers
<1>12. CASE UNCHANGED poolvars
  BY <1>12 DEF poolvars, Sleepers
<1> QED
  BY <1>1, <1>2, <1>3, <1>4, <1>5, <1>6, <1>7, <1>8, <1>9, <1>10, <1>11, <1>12
  DEF PoolNext, Submitting, Work

(* Type correctness: nothing is taken from an empty queue, and only those  *)
(* that sleep have been notified. *)
THEOREM TypeCorrect == PoolSpec => []PoolTypeOK
<1>1. PoolInit => PoolTypeOK
  BY PoolAssumption DEF PoolInit, PoolTypeOK, Labels, Sleepers, PoolActors
<1> QED BY <1>1, TypeStep, PTL DEF PoolSpec

-----------------------------------------------------------------------------
(* The lists of threads. *)

Awake == Labels \ {"unborn", "sleep"}

(* Whoever is awake and stays so does not disturb the lists. *)
LEMMA StaysAwake ==
  ASSUME PoolTypeOK, InLists, NEW a \in PoolActors, NEW l \in Awake, pool_pc[a] \in Awake, PoolGoto(a, l),
         sleeping' = sleeping, threadpool_active' = threadpool_active
  PROVE  InLists'
BY DEF PoolTypeOK, InLists, Sleepers, Awake, PoolGoto, PoolActors

LEMMA ThreadAdded ==
  ASSUME PoolTypeOK, InLists, NEW a \in PoolActors, NEW l \in Awake, pool_pc[a] \in Awake,
         NEW t \in PoolThreads, AddThread(a, l, t), sleeping' = sleeping
  PROVE  InLists'
<1>1. Sleepers' = Sleepers
  BY DEF Sleepers
<1>2. ASSUME NEW u \in PoolThreads
      PROVE  /\ u \in Sleepers <=> pool_pc'[u] = "sleep"
             /\ u \in threadpool_active' <=> pool_pc'[u] \notin {"unborn", "sleep"}
  BY DEF PoolTypeOK, InLists, AddThread, Awake, Labels, PoolActors
<1> QED BY <1>1, <1>2 DEF InLists

LEMMA ListsStep == PoolTypeOK /\ InLists /\ [PoolNext]_poolvars => InLists'
<1> SUFFICES ASSUME PoolTypeOK, InLists, [PoolNext]_poolvars PROVE InLists'
  OBVIOUS
<1> USE DEF Awake, Labels, pool
<1>1. ASSUME NEW a \in PoolActors, SubmitWorkItem(a) \/ Count(a) PROVE InLists'
  BY <1>1, StaysAwake DEF SubmitWorkItem, Count
<1>2. ASSUME NEW a \in PoolActors, LastHasNoWork(a) \/ StartFails(a) \/ WakeSome(a) PROVE InLists'
  BY <1>2, StaysAwake DEF LastHasNoWork, StartFails, WakeSome, PoolReturn, PoolCaller
<1>3. ASSUME NEW a \in PoolActors, StartFirst(a) PROVE InLists'
  BY <1>3, ThreadAdded DEF StartFirst, PoolCaller
<1>4. ASSUME NEW t \in PoolThreads, Take(t) \/ Discount(t) \/ LookInVain(t) PROVE InLists'
  BY <1>4, StaysAwake DEF Take, Discount, LookInVain, PoolActors
<1>5. ASSUME NEW t \in PoolThreads, Executed(t) \/ EnoughRun(t) \/ TooManyRun(t) PROVE InLists'
  BY <1>5, StaysAwake DEF Executed, EnoughRun, TooManyRun, PoolActors
<1>6. ASSUME NEW t \in PoolThreads, TooFewRun(t) PROVE InLists'
  BY <1>6, ThreadAdded DEF TooFewRun, PoolActors
<1>7. ASSUME NEW t \in PoolThreads, Leave(t) \/ Quit(t) PROVE InLists'
  BY <1>7 DEF Leave, Quit, Left, PoolGoto, PoolTypeOK, InLists, Sleepers, PoolActors
<1>8. ASSUME NEW t \in PoolThreads, Sleep(t) PROVE InLists'
  <2>1. /\ sleeping' = Append(sleeping, t) /\ threadpool_active' = threadpool_active \ {t}
        /\ pool_pc' = [pool_pc EXCEPT ![t] = "sleep"] /\ pool_pc[t] = "none"
    BY <1>8 DEF Sleep, PoolGoto
  <2>2. t \notin Sleepers
    BY <2>1 DEF InLists
  <2>3. Sleepers' = Sleepers \cup {t}
    <3>1. /\ DOMAIN sleeping' = 1..Len(sleeping) + 1 /\ DOMAIN sleeping = 1..Len(sleeping)
          /\ Len(sleeping) \in Nat
          /\ \A i \in 1..Len(sleeping) : sleeping'[i] = sleeping[i]
          /\ sleeping'[Len(sleeping) + 1] = t
      BY <2>1 DEF PoolTypeOK
    <3>2. Sleepers' \subseteq Sleepers \cup {t}
      BY <3>1 DEF Sleepers
    <3>3. Sleepers \cup {t} \subseteq Sleepers'
      BY <3>1 DEF Sleepers
    <3> QED BY <3>2, <3>3
  <2>4. ASSUME NEW u \in PoolThreads
        PROVE  /\ u \in Sleepers' <=> pool_pc'[u] = "sleep"
               /\ u \in threadpool_active' <=> pool_pc'[u] \notin {"unborn", "sleep"}
    BY <2>1, <2>3 DEF PoolTypeOK, InLists, PoolActors
  <2>5. \A i, j \in DOMAIN sleeping' : sleeping'[i] = sleeping'[j] => i = j
    BY <2>1, <2>2 DEF InLists, Sleepers, PoolTypeOK
  <2> QED BY <2>4, <2>5 DEF InLists
<1>9. ASSUME NEW t \in PoolThreads, WakeUp(t) PROVE InLists'
  <2>1. PICK k \in DOMAIN sleeping : sleeping[k] = t /\ sleeping' = RemoveFromList(sleeping, k)
    BY <1>9 DEF WakeUp
  <2>2. threadpool_active' = threadpool_active \cup {t} /\ pool_pc' = [pool_pc EXCEPT ![t] = "woken"]
    BY <1>9 DEF WakeUp, PoolGoto
  <2>3. /\ \A j \in DOMAIN sleeping \ {k} : \E i \in DOMAIN sleeping' : sleeping'[i] = sleeping[j]
        /\ \A i \in DOMAIN sleeping' : \E j \in DOMAIN sleeping \ {k} : sleeping'[i] = sleeping[j]
    BY <2>1, RemoveFacts DEF PoolTypeOK
  <2>6. \A i, j \in DOMAIN sleeping' : sleeping'[i] = sleeping'[j] => i = j
    BY <2>1, RemoveDistinct DEF PoolTypeOK, InLists
  <2>4. Sleepers' = Sleepers \ {t}
    BY <2>1, <2>3 DEF Sleepers, InLists
  <2>5. ASSUME NEW u \in PoolThreads
        PROVE  /\ u \in Sleepers' <=> pool_pc'[u] = "sleep"
               /\ u \in threadpool_active' <=> pool_pc'[u] \notin {"unborn", "sleep"}
    BY <2>2, <2>4 DEF PoolTypeOK, InLists, PoolActors
  <2> QED BY <2>5, <2>6 DEF InLists
<1>10. CASE TimerDue \/ UNCHANGED poolvars
  BY <1>10 DEF TimerDue, poolvars, InLists, Sleepers
<1> QED
  BY <1>1, <1>2, <1>3, <1>4, <1>5, <1>6, <1>7, <1>8, <1>9, <1>10 DEF PoolNext, Submitting, Work

(* Every thread is in exactly the list that goes with what it does, once,  *)
(* however threads are started, sleep, wake up, leave and quit: the sizes  *)
(* of the lists, by which the pool decides, are the numbers of threads. *)
THEOREM InListsHolds == PoolSpec => []InLists
<1>1. PoolInit => PoolTypeOK /\ InLists
  BY PoolAssumption DEF PoolInit, PoolTypeOK, InLists, Labels, Sleepers, PoolActors
<1> QED BY <1>1, TypeStep, ListsStep, PTL DEF PoolSpec

=============================================================================
