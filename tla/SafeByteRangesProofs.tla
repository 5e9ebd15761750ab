------------------------ MODULE SafeByteRangesProofs ------------------------
(***************************************************************************)
(* Proofs about SafeByteRanges, for any number of processes, threads,      *)
(* guards and entities and for every workload.                             *)
(*                                                                         *)
(* The inductive invariant SInv speaks of each entity of each process.  As *)
(* long as the process uses it in the way the code expects (Orderly), the  *)
(* map says exactly who has the entity and the byte is locked as the map   *)
(* says (Good).  That this is so for the thread that returns from a wait   *)
(* for a byte follows from what it saw before it gave up _m (Asking), for  *)
(* others only remove marks while nobody crosses; and that the history in  *)
(* crossed and wild is complete (Remembered, Noticed) lets Good be claimed *)
(* of exactly the entities that are Orderly.                               *)
(***************************************************************************)
EXTENDS SafeByteRanges, FiniteSetTheorems, TLAPS

\* What a guard may ask for.
Wants(g) == UNION {Range(s) : s \in requests[g]}

Busy(g) == pc[g] \notin {"idle", "held"}
Cur(g) == entities[g][n[g]]
Upgrading == {"upgrade", "upgraded", "upgrade_refused"}

\* A thread does one thing at a time.
OneThing == \A f, g \in Guards : Me(f) = Me(g) /\ Busy(f) /\ Busy(g) => f = g

\* Where the loops are.
Placed(g) ==
  /\ \A i, j \in DOMAIN entities[g] : entities[g][i].value = entities[g][j].value => i = j
  /\ Range(entities[g]) \subseteq Wants(g)
  /\ pc[g] # "idle" => entities[g] # << >>
  /\ pc[g] \in {"idle", "enter", "sleep"} => n[g] = 1
  /\ pc[g] \in AskingPCs \cup {"entity", "undo", "deadlock"} => n[g] \in 1..Len(entities[g])

\* What a thread that asks for a byte had seen in the map: no other thread adds its marks.
Asking(g) ==
  /\ pc[g] \in Upgrading => Cur(g).exclusive /\ (valid[g] => Entry(g).there)
  /\ pc[g] \in {"ask", "asked", "upgrade", "upgraded"} => Entry(g).writer # Me(g)
  /\ pc[g] \in {"ask", "asked"} => Me(g) \notin Entry(g).readers

\* An entry is there for somebody.
Shaped(p, e) ==
  /\ entry[p][e].there => entry[p][e].writer # Nobody \/ entry[p][e].readers # {}
  /\ ~entry[p][e].there => entry[p][e] = Absent

Compatible ==
  \A p, q \in Processes, e \in Entities : p # q => ~Conflict(locks[p][e], locks[q][e])

\* The history is complete.
Remembered(p, e) == Crossing(p, e) => e \in crossed[p]
Noticed(g) == pc[g] = "upgraded" /\ ~valid[g] => Proc(g) \in wild

\* A writer shares with nobody else.
Alone(p, e) == entry[p][e].writer # Nobody => entry[p][e].readers \subseteq {entry[p][e].writer}

\* A thread has as many marks as guards on the entity.
Counted(p, e) ==
  \A t \in Threads :
    /\ entry[p][e].writer # t /\ t \notin entry[p][e].readers => Owners(p, e, t) = {}
    /\ (entry[p][e].writer = t <=> t \notin entry[p][e].readers) =>
         \E f \in Guards : Owners(p, e, t) = {f}
    /\ entry[p][e].writer = t /\ t \in entry[p][e].readers =>
         \E f, h \in Guards : f # h /\ Owners(p, e, t) = {f, h}

Labelled(p, e) ==
  \A g \in Guards : \A x \in Owned(g) :
    Proc(g) = p /\ x.value = e /\ ~Nests(Me(g), e) =>
      IF x.exclusive THEN entry[p][e].writer = Me(g) ELSE Me(g) \in entry[p][e].readers

\* The byte is locked as the map says, or as the thread asked that is about to change it.
Locked(p, e) ==
  /\ entry[p][e].there => locks[p][e] # "unlocked"
  /\ entry[p][e].writer # Nobody => locks[p][e] = "exclusive"
  /\ locks[p][e] # "unlocked" /\ ~entry[p][e].there => Granted(p, e) # {}
  /\ \A g \in Granted(p, e) : locks[p][e] = Kind(Cur(g))

Good(p, e) == Alone(p, e) /\ Counted(p, e) /\ Labelled(p, e) /\ Locked(p, e)

SInv ==
  /\ TypeOK /\ OneThing /\ Compatible
  /\ \A g \in Guards : Placed(g) /\ Asking(g) /\ Noticed(g)
  /\ \A p \in Processes, e \in Entities :
       Shaped(p, e) /\ Remembered(p, e) /\ (Orderly(p, e) => Good(p, e))

-----------------------------------------------------------------------------
(* Types                                                                   *)

\* Moving the contended entity to the front and shuffling the rest.
LEMMA ReorderedFacts ==
  ASSUME NEW s \in Seq(Entity), NEW c, NEW r \in Reordered(s, c)
  PROVE  /\ r \in Seq(Entity) /\ Len(r) = Len(s) /\ Range(r) \subseteq Range(s)
         /\ (\A i, j \in DOMAIN s : s[i].value = s[j].value => i = j) =>
              \A i, j \in DOMAIN r : r[i].value = r[j].value => i = j
<1>1. PICK p \in Bijection(1..Len(s), 1..Len(s)) : r = [k \in 1..Len(s) |-> s[p[k]]]
  BY DEF Reordered
<1>2. p \in [1..Len(s) -> 1..Len(s)] /\ \A i, j \in 1..Len(s) : p[i] = p[j] => i = j
  BY DEF Bijection, Injection, IsInjective
<1>3. r \in Seq(Entity) /\ Len(r) = Len(s)
  BY <1>1, <1>2
<1>4. DOMAIN r = 1..Len(s) /\ DOMAIN s = 1..Len(s) /\ \A k \in 1..Len(s) : r[k] = s[p[k]] /\ p[k] \in DOMAIN s
  BY <1>1, <1>2
<1>5. Range(r) \subseteq Range(s)
  BY <1>4 DEF Range
<1> QED BY <1>2, <1>3, <1>4, <1>5

\* What a guard asks for.
LEMMA RequestFacts ==
  ASSUME CodeTypes, NEW g \in Guards, NEW s \in requests[g]
  PROVE  /\ s \in Seq(Entity) /\ s # << >> /\ Range(s) \subseteq Wants(g)
         /\ \A i, j \in DOMAIN s : s[i].value = s[j].value => i = j
<1>1. requests \in Workloads /\ s \in UNION {requests[h] : h \in Guards}
  BY DEF CodeTypes
<1>2. Range(s) \subseteq Wants(g)
  BY DEF Wants
<1> QED BY <1>1, <1>2, SafeByteRangesAssumption

LEMMA ProcType == \A g \in Guards : Proc(g) \in Processes /\ Me(g) \in Threads
BY SafeByteRangesAssumption DEF Proc, Me

\* The entity a loop is at.
LEMMA CurType ==
  ASSUME CodeTypes, NEW g \in Guards, NEW k \in DOMAIN entities[g]
  PROVE  /\ entities[g][k] \in Entity /\ entities[g][k].value \in Entities
         /\ entities[g][k].exclusive \in BOOLEAN /\ entities[g][k] \in Range(entities[g])
<1>1. entities[g] \in Seq(Entity)
  BY DEF CodeTypes
<1>2. entities[g][k] \in Entity
  BY <1>1
<1> QED BY <1>2 DEF Entity, Range

PCs == {"idle", "enter", "entity", "undo", "deadlock", "sleep", "held",
        "unlock", "unlocking"} \cup AskingPCs
Infos == [there : BOOLEAN, writer : Threads \cup {Nobody}, readers : SUBSET Threads]
Lists == Seq(Entity)

LEMMA Types ==
  CodeTypes <=>
    /\ requests \in Workloads /\ locks \in [Processes -> [Entities -> LockKinds]]
    /\ entry \in [Processes -> [Entities -> Infos]]
    /\ m \in [Processes -> Guards \cup {Nobody}] /\ pc \in [Guards -> PCs]
    /\ entities \in [Guards -> Lists] /\ n \in [Guards -> Nat \ {0}]
    /\ contended \in [Guards -> Nat] /\ sleeps \in [Guards -> BOOLEAN]
    /\ valid \in [Guards -> BOOLEAN] /\ deadline \in [Guards -> {"none", "steady", "utc"}]
    /\ expired \in [Guards -> BOOLEAN]
BY DEF CodeTypes, PCs, Infos, Lists

LEMMA AbsentType == Absent \in Infos
BY DEF Absent, Infos

LEMMA EmptyList == << >> \in Lists
BY DEF Lists

\* A byte set to a kind of lock, and an entry set to some information.
LEMMA SetRangeFacts ==
  ASSUME locks \in [Processes -> [Entities -> LockKinds]], NEW p \in Processes, NEW R, NEW k \in LockKinds
  PROVE  /\ SetRange(locks, p, R, k) \in [Processes -> [Entities -> LockKinds]]
         /\ \A q \in Processes, e \in Entities :
              SetRange(locks, p, R, k)[q][e] = IF q = p /\ e \in R THEN k ELSE locks[q][e]
BY DEF SetRange

LEMMA SetEntryFacts ==
  ASSUME entry \in [Processes -> [Entities -> Infos]], NEW p \in Processes, NEW e \in Entities,
         NEW info \in Infos, SetEntry(p, e, info)
  PROVE  /\ entry' \in [Processes -> [Entities -> Infos]]
         /\ \A q \in Processes, d \in Entities :
              entry'[q][d] = IF q = p /\ d = e THEN info ELSE entry[q][d]
BY DEF SetEntry

LEMMA LeaveTypes ==
  ASSUME CodeTypes, NEW G, Leave(G)
  PROVE  /\ pc' \in [Guards -> PCs] /\ entities' \in [Guards -> Lists]
         /\ n' \in [Guards -> Nat \ {0}] /\ contended' \in [Guards -> Nat]
         /\ sleeps' \in [Guards -> BOOLEAN] /\ valid' \in [Guards -> BOOLEAN]
         /\ deadline' \in [Guards -> {"none", "steady", "utc"}] /\ expired' \in [Guards -> BOOLEAN]
<1>1. pc' \in [Guards -> PCs] /\ "idle" \in PCs
  BY Types DEF Leave, PCs
<1>2. entities' \in [Guards -> Lists]
  BY Types, EmptyList DEF Leave
<1>3. n' \in [Guards -> Nat \ {0}] /\ contended' \in [Guards -> Nat]
  BY Types DEF Leave
<1>4. sleeps' \in [Guards -> BOOLEAN]
  BY Types, Zenon DEF Leave
<1>5. valid' \in [Guards -> BOOLEAN]
  BY Types, Zenon DEF Leave
<1>6. deadline' \in [Guards -> {"none", "steady", "utc"}]
  BY Types DEF Leave
<1>7. expired' \in [Guards -> BOOLEAN]
  BY Types, Zenon DEF Leave
<1> QED BY <1>1, <1>2, <1>3, <1>4, <1>5, <1>6, <1>7

-----------------------------------------------------------------------------
(* What each step changes                                                  *)

\* All guards but g are where they were.
Still(g) ==
  /\ requests' = requests
  /\ \A f \in Guards \ {g} : pc'[f] = pc[f] /\ entities'[f] = entities[f] /\ n'[f] = n[f]

\* The map and the bytes are as they were, and so are the iterators of other guards than g.
Quiet(g) == locks' = locks /\ entry' = entry /\ \A f \in Guards \ {g} : valid'[f] = valid[f]

LEMMA GotoFacts ==
  ASSUME CodeTypes, NEW g \in Guards, NEW l \in PCs, Goto(g, l)
  PROVE  pc' \in [Guards -> PCs] /\ pc'[g] = l /\ \A f \in Guards \ {g} : pc'[f] = pc[f]
BY Types DEF Goto

LEMMA LeaveFacts ==
  ASSUME CodeTypes, NEW G \in SUBSET Guards, Leave(G)
  PROVE  /\ \A g \in G : pc'[g] = "idle" /\ n'[g] = 1 /\ entities'[g] = << >> /\ valid'[g]
         /\ \A g \in Guards \ G : /\ pc'[g] = pc[g] /\ n'[g] = n[g] /\ entities'[g] = entities[g]
                                  /\ valid'[g] = valid[g]
<1>1. \A g \in Guards : valid'[g] = IF g \in G THEN TRUE ELSE valid[g]
  BY DEF Leave
<1>2. \A g \in G : valid'[g]
  BY <1>1
<1>3. \A g \in Guards \ G : valid'[g] = valid[g]
  BY <1>1
<1> QED BY <1>2, <1>3 DEF Leave

\* The steps that change nothing but where g is.
Plain(g) == 
  \/ Enter(g) \/ LeaveToAsk(g) \/ Relock(g) \/ ThreadContends(g) \/ Interrupt(g) \/ Refused(g)
  \/ Wake(g) \/ WakeEarly(g) \/ Expire(g) \/ Unlock(g) \/ EnterUnlock(g)

LEMMA LockFrame ==
  ASSUME CodeTypes, NEW g \in Guards, Lock(g)
  PROVE  /\ CodeTypes' /\ Still(g) /\ Quiet(g) /\ pc[g] = "idle" /\ pc'[g] = "enter" /\ n'[g] = n[g]
         /\ \E s \in requests[g] : entities'[g] = s
<1>1. PICK s \in requests[g], d \in Deadlines[g], x \in BOOLEAN :
        /\ entities' = [entities EXCEPT ![g] = s]
        /\ deadline' = [deadline EXCEPT ![g] = d]
        /\ expired' = [expired EXCEPT ![g] = x]
  BY DEF Lock
<1>2. UNCHANGED <<requests, locks, entry, m, n, contended, sleeps, valid>> /\ Goto(g, "enter") /\ pc[g] = "idle"
  BY DEF Lock
<1>3. s \in Lists /\ d \in {"none", "steady", "utc"}
  BY RequestFacts, SafeByteRangesAssumption DEF Lists
<1>4. "enter" \in PCs
  BY DEF PCs
<1>5. /\ entities' \in [Guards -> Lists] /\ entities'[g] = s
      /\ \A f \in Guards \ {g} : entities'[f] = entities[f]
  BY <1>1, <1>3, Types
<1>6. expired' \in [Guards -> BOOLEAN]
  BY <1>1, Types
<1>7. deadline' \in [Guards -> {"none", "steady", "utc"}]
  BY <1>1, <1>3, Types
<1>8. pc' \in [Guards -> PCs] /\ pc'[g] = "enter" /\ \A f \in Guards \ {g} : pc'[f] = pc[f]
  BY <1>2, <1>4, GotoFacts
<1>9. CodeTypes'
  BY <1>2, <1>5, <1>6, <1>7, <1>8, Types DEF CodeTypes, PCs, Lists, Infos
<1> QED BY <1>2, <1>5, <1>8, <1>9 DEF Still, Quiet

LEMMA PlainFrame ==
  ASSUME CodeTypes, NEW g \in Guards, Plain(g)
  PROVE  CodeTypes' /\ Still(g) /\ Quiet(g) /\ entities'[g] = entities[g]
<1>1. UNCHANGED <<requests, locks, entry, entities, deadline>>
  BY DEF Plain, Enter, LeaveToAsk, Relock, ThreadContends, Interrupt, Refused, Wake, WakeEarly,
         Expire, Unlock, EnterUnlock, call
<1>2. /\ pc' \in [Guards -> PCs] /\ \A f \in Guards \ {g} : pc'[f] = pc[f]
  <2>1. pc' = pc \/ \E l \in PCs : pc' = [pc EXCEPT ![g] = l]
    BY DEF Plain, Enter, LeaveToAsk, Relock, ThreadContends, Interrupt, Refused, Wake, WakeEarly,
           Expire, Unlock, EnterUnlock, Goto, Contended, PCs, AskingPCs
  <2> QED BY <2>1, Types
<1>3. n' \in [Guards -> Nat \ {0}] /\ \A f \in Guards \ {g} : n'[f] = n[f]
  <2>1. n' = n \/ n' = [n EXCEPT ![g] = 1]
    BY DEF Plain, Enter, LeaveToAsk, Relock, ThreadContends, Interrupt, Refused, Wake, WakeEarly,
           Expire, Unlock, EnterUnlock
  <2> QED BY <2>1, Types
<1>4. m' \in [Processes -> Guards \cup {Nobody}]
  <2>1. m' = m \/ \E k \in Guards \cup {Nobody} : m' = [m EXCEPT ![Proc(g)] = k]
    BY DEF Plain, Enter, LeaveToAsk, Relock, ThreadContends, Interrupt, Refused, Wake, WakeEarly,
           Expire, Unlock, EnterUnlock, TakeM, DropM
  <2> QED BY <2>1, Types
<1>5. contended' \in [Guards -> Nat]
  <2>1. contended' = contended \/ \E k \in Nat : contended' = [contended EXCEPT ![g] = k]
    <3>1. n[g] \in Nat
      BY Types
    <3> QED BY <3>1 DEF Plain, Enter, LeaveToAsk, Relock, ThreadContends, Interrupt, Refused, Wake, WakeEarly,
                 Expire, Unlock, EnterUnlock, Contended
  <2> QED BY <2>1, Types
<1>6. sleeps' \in [Guards -> BOOLEAN]
  <2>1. sleeps' = sleeps \/ \E b \in BOOLEAN : sleeps' = [sleeps EXCEPT ![g] = b]
    BY DEF Plain, Enter, LeaveToAsk, Relock, ThreadContends, Interrupt, Refused, Wake, WakeEarly,
           Expire, Unlock, EnterUnlock
  <2> QED BY <2>1, Types
<1>7. valid' \in [Guards -> BOOLEAN] /\ \A f \in Guards \ {g} : valid'[f] = valid[f]
  <2>1. valid' = valid \/ valid' = [valid EXCEPT ![g] = TRUE]
    BY DEF Plain, Enter, LeaveToAsk, Relock, ThreadContends, Interrupt, Refused, Wake, WakeEarly,
           Expire, Unlock, EnterUnlock
  <2> QED BY <2>1, Types
<1>8. expired' \in [Guards -> BOOLEAN]
  <2>1. expired' = expired \/ expired' = [expired EXCEPT ![g] = TRUE]
    BY DEF Plain, Enter, LeaveToAsk, Relock, ThreadContends, Interrupt, Refused, Wake, WakeEarly,
           Expire, Unlock, EnterUnlock
  <2> QED BY <2>1, Types
<1>9. CodeTypes'
  BY <1>1, <1>2, <1>3, <1>4, <1>5, <1>6, <1>7, <1>8, Types DEF CodeTypes, PCs, Lists, Infos
<1> QED BY <1>1, <1>2, <1>3, <1>7, <1>9 DEF Still, Quiet

\* Guard g returns from lock() or unlock().
LEMMA LeaveFrame ==
  ASSUME CodeTypes, NEW g \in Guards, Fail(g) \/ Unlocked(g)
  PROVE  CodeTypes' /\ Still(g) /\ Quiet(g) /\ pc'[g] = "idle" /\ n'[g] = 1 /\ entities'[g] = << >>
<1>1. Leave({g}) /\ UNCHANGED <<requests, locks, entry>> /\ m' = [m EXCEPT ![Proc(g)] = Nobody]
  BY DEF Fail, Unlocked, DropM
<1>2. m' \in [Processes -> Guards \cup {Nobody}]
  BY <1>1, Types
<1>3. /\ pc' \in [Guards -> PCs] /\ entities' \in [Guards -> Lists]
      /\ n' \in [Guards -> Nat \ {0}] /\ contended' \in [Guards -> Nat]
      /\ sleeps' \in [Guards -> BOOLEAN] /\ valid' \in [Guards -> BOOLEAN]
      /\ deadline' \in [Guards -> {"none", "steady", "utc"}] /\ expired' \in [Guards -> BOOLEAN]
  BY <1>1, LeaveTypes
<1>4. CodeTypes'
  BY <1>1, <1>2, <1>3, Types DEF CodeTypes, PCs, Lists, Infos
<1>5. /\ pc'[g] = "idle" /\ n'[g] = 1 /\ entities'[g] = << >> /\ valid'[g]
      /\ \A f \in Guards \ {g} : /\ pc'[f] = pc[f] /\ n'[f] = n[f] /\ entities'[f] = entities[f]
                                 /\ valid'[f] = valid[f]
  <2>1. {g} \in SUBSET Guards /\ g \in {g}
    OBVIOUS
  <2> QED BY <1>1, <2>1, LeaveFacts
<1> QED BY <1>1, <1>4, <1>5 DEF Still, Quiet

LEMMA RetryFrame ==
  ASSUME CodeTypes, NEW g \in Guards, Retry(g)
  PROVE  /\ CodeTypes' /\ Still(g) /\ Quiet(g) /\ pc[g] = "undo" /\ n[g] = 1 /\ n'[g] = 1
         /\ pc'[g] \in {"sleep", "enter"}
         /\ \E s \in Reordered(entities[g], contended[g]) : entities'[g] = s
<1>1. PICK s \in Reordered(entities[g], contended[g]) : entities' = [entities EXCEPT ![g] = s]
  BY DEF Retry
<1>2. /\ UNCHANGED <<requests, locks, entry, n, contended, sleeps, valid, deadline, expired>>
      /\ pc[g] = "undo" /\ n[g] = 1 /\ m' = [m EXCEPT ![Proc(g)] = Nobody]
      /\ \E l \in {"sleep", "enter"} : pc' = [pc EXCEPT ![g] = l]
  BY DEF Retry, DropM, Goto
<1>3. s \in Lists
  BY ReorderedFacts DEF CodeTypes, Lists
<1>4. /\ entities' \in [Guards -> Lists] /\ entities'[g] = s
      /\ \A f \in Guards \ {g} : entities'[f] = entities[f]
  BY <1>1, <1>3, Types
<1>5. m' \in [Processes -> Guards \cup {Nobody}]
  BY <1>2, Types
<1>6. pc' \in [Guards -> PCs] /\ pc'[g] \in {"sleep", "enter"} /\ \A f \in Guards \ {g} : pc'[f] = pc[f]
  <2>1. {"sleep", "enter"} \subseteq PCs
    BY DEF PCs
  <2> QED BY <1>2, <2>1, Types
<1>7. CodeTypes'
  BY <1>2, <1>4, <1>5, <1>6, Types DEF CodeTypes, PCs, Lists, Infos
<1> QED BY <1>2, <1>4, <1>6, <1>7 DEF Still, Quiet

\* The map changes at most at e of g's process, to info, and so do the bytes, to k.
Sets(g, e, info, k) ==
  /\ \A q \in Processes, d \in Entities :
       /\ entry'[q][d] = IF q = Proc(g) /\ d = e THEN info ELSE entry[q][d]
       /\ locks'[q][d] = IF q = Proc(g) /\ d = e THEN k ELSE locks[q][d]

LEMMA CurPlaced ==
  ASSUME CodeTypes, NEW g \in Guards, Placed(g), pc[g] \in AskingPCs \cup {"entity"}
  PROVE  /\ n[g] \in DOMAIN entities[g] /\ Cur(g) \in Entity /\ Cur(g).value \in Entities
         /\ Cur(g).exclusive \in BOOLEAN /\ Cur(g) \in Range(entities[g])
         /\ Cur(g) = [value |-> Cur(g).value, exclusive |-> Cur(g).exclusive]
         /\ Entry(g) = entry[Proc(g)][Cur(g).value] /\ Entry(g) \in Infos
<1>1. entities[g] \in Seq(Entity)
  BY DEF CodeTypes
<1>2. n[g] \in DOMAIN entities[g]
  BY <1>1 DEF Placed
<1>3. /\ Cur(g) \in Entity /\ Cur(g).value \in Entities
      /\ Cur(g).exclusive \in BOOLEAN /\ Cur(g) \in Range(entities[g])
  BY <1>2, CurType DEF Cur
<1>4. Cur(g) = [value |-> Cur(g).value, exclusive |-> Cur(g).exclusive]
  BY <1>3 DEF Entity
<1>5. Entry(g) = entry[Proc(g)][Cur(g).value]
  BY DEF Entry, Cur
<1>6. entry[Proc(g)][Cur(g).value] \in Infos
  BY <1>3, Types, ProcType
<1> QED BY <1>2, <1>3, <1>4, <1>5, <1>6

LEMMA OwnedEarly ==
  ASSUME NEW g
  PROVE  pc[g] \notin {"held", "unlock", "unlocking"} =>
           Owned(g) = {entities[g][i] : i \in 1..(n[g] - 1)}
BY DEF Owned

LEMMA OwnedLate ==
  ASSUME NEW g
  PROVE  /\ pc[g] \in {"held", "unlock"} => Owned(g) = Range(entities[g])
         /\ pc[g] = "unlocking" => Owned(g) = {entities[g][i] : i \in n[g]..Len(entities[g])}
BY DEF Owned

\* Going on to the next entity, the guard has the one it was at.
LEMMA AdvanceFacts ==
  ASSUME CodeTypes, NEW g \in Guards, Placed(g), pc[g] \in AskingPCs \cup {"entity"},
         Advance(g), entities' = entities
  PROVE  /\ pc' \in [Guards -> PCs] /\ n' \in [Guards -> Nat \ {0}]
         /\ m' \in [Processes -> Guards \cup {Nobody}]
         /\ \A f \in Guards \ {g} : pc'[f] = pc[f] /\ n'[f] = n[f]
         /\ pc'[g] \in {"held", "entity"}
         /\ pc'[g] = "entity" => n'[g] \in 1..Len(entities[g])
         /\ Owned(g)' = Owned(g) \cup {Cur(g)}
<1> DEFINE L == Len(entities[g])
           s == entities[g]
           k == n[g]
<1>1. s \in Lists /\ L \in Nat /\ DOMAIN s = 1..L /\ k \in 1..L
  BY CurPlaced, Types DEF Lists
<1>2. m' \in [Processes -> Guards \cup {Nobody}]
  <2>1. \E x \in Guards \cup {Nobody} : m' = [m EXCEPT ![Proc(g)] = x]
    BY DEF Advance, DropM
  <2> QED BY <2>1, Types
<1>3. pc[g] \notin {"held", "unlock", "unlocking"}
  BY DEF AskingPCs
<1>4. Owned(g) = {s[i] : i \in 1..(k - 1)}
  BY <1>3 DEF Owned
<1>5. "held" \in PCs /\ "entity" \in PCs
  BY DEF PCs
<1>6. CASE k = L
  <2>1. pc' = [pc EXCEPT ![g] = "held"] /\ n' = n
    BY <1>6 DEF Advance, Goto
  <2>2. pc' \in [Guards -> PCs] /\ pc'[g] = "held" /\ \A f \in Guards \ {g} : pc'[f] = pc[f]
    BY <1>5, <2>1, Types
  <2>3. Owned(g)' = {s[i] : i \in 1..L}
    BY <1>1, <2>2 DEF Owned, Range
  <2>4. 1..L = (1..(k - 1)) \cup {k}
    BY <1>1, <1>6
  <2> HIDE DEF L, s, k
  <2>5. Owned(g)' = Owned(g) \cup {s[k]}
    BY <1>4, <2>3, <2>4
  <2> QED BY <1>2, <2>1, <2>2, <2>5, Types DEF Cur, s, k
<1>7. CASE k # L
  <2>1. pc' = [pc EXCEPT ![g] = "entity"] /\ n' = [n EXCEPT ![g] = @ + 1]
    BY <1>7 DEF Advance, Goto
  <2>2. pc' \in [Guards -> PCs] /\ pc'[g] = "entity" /\ \A f \in Guards \ {g} : pc'[f] = pc[f]
    BY <1>5, <2>1, Types
  <2>3. n' \in [Guards -> Nat \ {0}] /\ n'[g] = k + 1 /\ \A f \in Guards \ {g} : n'[f] = n[f]
    <3>1. n \in [Guards -> Nat \ {0}]
      BY Types
    <3>2. n[g] \in Nat \ {0} /\ n[g] + 1 \in Nat \ {0}
      BY <3>1
    <3>3. n' = [n EXCEPT ![g] = n[g] + 1]
      BY <2>1
    <3> QED BY ONLY <3>1, <3>2, <3>3, g \in Guards
  <2>4. Owned(g)' = {s[i] : i \in 1..(k + 1 - 1)}
    <3>0. pc'[g] \notin {"held", "unlock", "unlocking"}
      BY <2>2
    <3>1. Owned(g)' = {entities'[g][i] : i \in 1..(n'[g] - 1)}
      <4>1. (pc[g] \notin {"held", "unlock", "unlocking"} =>
               Owned(g) = {entities[g][i] : i \in 1..(n[g] - 1)})'
        BY OwnedEarly, PTL
      <4> QED BY <3>0, <4>1
    <3>2. n'[g] - 1 = k + 1 - 1 /\ entities'[g] = s
      <4>1. n'[g] = k + 1
        BY <2>3
      <4>2. n'[g] - 1 = k + 1 - 1
        BY <1>1, <4>1
      <4>3. entities'[g] = s
        BY Zenon
      <4> QED BY <4>2, <4>3
    <3>3. {entities'[g][i] : i \in 1..(n'[g] - 1)} = {s[i] : i \in 1..(n'[g] - 1)}
      BY ONLY <3>2, Zenon
    <3>4. {s[i] : i \in 1..(n'[g] - 1)} = {s[i] : i \in 1..(k + 1 - 1)}
      BY ONLY <3>2, Zenon
    <3> QED BY ONLY <3>1, <3>3, <3>4, Zenon
  <2>5. 1..(k + 1 - 1) = (1..(k - 1)) \cup {k} /\ k + 1 \in 1..L
    BY <1>1, <1>7
  <2> HIDE DEF L, s, k
  <2>6. Owned(g)' = Owned(g) \cup {s[k]}
    BY <1>4, <2>4, <2>5
  <2> QED BY <1>2, <2>2, <2>3, <2>5, <2>6 DEF Cur, s, k, L
<1> QED BY <1>6, <1>7

LEMMA AskFrame ==
  ASSUME CodeTypes, NEW g \in Guards, Placed(g), Ask(g)
  PROVE  /\ CodeTypes' /\ Still(g) /\ entry' = entry /\ valid' = valid
         /\ entities'[g] = entities[g] /\ n'[g] = n[g]
         /\ \/ locks' = locks /\ \/ pc[g] = "ask" /\ pc'[g] = "refused"
                                 \/ pc[g] = "upgrade" /\ pc'[g] = "upgrade_refused"
            \/ /\ \/ pc[g] = "ask" /\ pc'[g] = "asked"
                  \/ pc[g] = "upgrade" /\ pc'[g] = "upgraded"
               /\ Grantable(locks, Proc(g), {Cur(g).value}, Kind(Cur(g)))
               /\ \A q \in Processes, d \in Entities :
                    locks'[q][d] = IF q = Proc(g) /\ d = Cur(g).value THEN Kind(Cur(g)) ELSE locks[q][d]
<1>1. /\ UNCHANGED <<requests, entry, m, n, entities, contended, sleeps, valid, deadline, expired>>
      /\ pc[g] \in {"ask", "upgrade"}
  BY DEF Ask, call
<1>2. Kind(Cur(g)) \in LockKinds
  BY DEF Kind, LockKinds
<1>3. {"asked", "refused", "upgraded", "upgrade_refused"} \subseteq PCs
  BY DEF PCs, AskingPCs
<1>4. CASE /\ Outcome(g) = "granted"
           /\ locks' = SetRange(locks, Proc(g), {Cur(g).value}, Kind(Cur(g)))
           /\ Goto(g, IF pc[g] = "ask" THEN "asked" ELSE "upgraded")
  <2>1. Grantable(locks, Proc(g), {Cur(g).value}, Kind(Cur(g)))
    BY <1>4 DEF Outcome, LockOutcome, Cur
  <2>2. /\ locks' \in [Processes -> [Entities -> LockKinds]]
        /\ \A q \in Processes, d \in Entities :
             locks'[q][d] = IF q = Proc(g) /\ d \in {Cur(g).value} THEN Kind(Cur(g)) ELSE locks[q][d]
    BY <1>2, <1>4, SetRangeFacts, ProcType, Types
  <2>3. pc' \in [Guards -> PCs] /\ \A f \in Guards \ {g} : pc'[f] = pc[f]
    BY <1>3, <1>4, Types DEF Goto
  <2>4. \/ pc[g] = "ask" /\ pc'[g] = "asked"
        \/ pc[g] = "upgrade" /\ pc'[g] = "upgraded"
    BY <1>1, <1>4, Types DEF Goto
  <2>5. CodeTypes'
    BY <1>1, <2>2, <2>3, Types DEF CodeTypes, PCs, Lists, Infos
  <2> QED BY <1>1, <2>1, <2>2, <2>3, <2>4, <2>5 DEF Still
<1>5. CASE Goto(g, IF pc[g] = "ask" THEN "refused" ELSE "upgrade_refused") /\ UNCHANGED locks
  <2>3. pc' \in [Guards -> PCs] /\ \A f \in Guards \ {g} : pc'[f] = pc[f]
    BY <1>3, <1>5, Types DEF Goto
  <2>4. \/ pc[g] = "ask" /\ pc'[g] = "refused"
        \/ pc[g] = "upgrade" /\ pc'[g] = "upgrade_refused"
    BY <1>1, <1>5, Types DEF Goto
  <2>5. CodeTypes'
    BY <1>1, <1>5, <2>3, Types DEF CodeTypes, PCs, Lists, Infos
  <2> QED BY <1>1, <1>5, <2>3, <2>4, <2>5 DEF Still
<1> QED BY <1>4, <1>5 DEF Ask, Cur

\* A thread that finds the entity in the map joins its readers.
LEMMA JoinFrame ==
  ASSUME CodeTypes, NEW g \in Guards, Placed(g), JoinReaders(g)
  PROVE  /\ CodeTypes' /\ Still(g) /\ locks' = locks /\ valid' = valid /\ entities'[g] = entities[g]
         /\ pc[g] = "entity" /\ pc'[g] \in {"held", "entity"}
         /\ pc'[g] = "entity" => n'[g] \in 1..Len(entities[g])
         /\ Owned(g)' = Owned(g) \cup {Cur(g)}
         /\ Entry(g).there /\ ~Cur(g).exclusive /\ Me(g) \notin Entry(g).readers
         /\ Sets(g, Cur(g).value, [Entry(g) EXCEPT !.readers = @ \cup {Me(g)}],
                 locks[Proc(g)][Cur(g).value])
<1> DEFINE info == [Entry(g) EXCEPT !.readers = @ \cup {Me(g)}]
<1>1. /\ UNCHANGED <<requests, locks, entities, contended, sleeps, valid, deadline, expired>>
      /\ pc[g] = "entity" /\ Advance(g) /\ Entry(g).there /\ ~Cur(g).exclusive /\ Me(g) \notin Entry(g).readers
      /\ SetEntry(Proc(g), Cur(g).value, info)
  BY DEF JoinReaders, call, Cur
<1>2. Cur(g).value \in Entities /\ Entry(g) \in Infos
  BY <1>1, CurPlaced
<1>3. info \in Infos
  BY <1>2, ProcType DEF Infos
<1> HIDE DEF info
<1>4. /\ entry' \in [Processes -> [Entities -> Infos]]
      /\ \A q \in Processes, d \in Entities :
           entry'[q][d] = IF q = Proc(g) /\ d = Cur(g).value THEN info ELSE entry[q][d]
  BY <1>1, <1>2, <1>3, SetEntryFacts, ProcType, Types
<1>5. /\ pc' \in [Guards -> PCs] /\ n' \in [Guards -> Nat \ {0}]
      /\ m' \in [Processes -> Guards \cup {Nobody}]
      /\ \A f \in Guards \ {g} : pc'[f] = pc[f] /\ n'[f] = n[f]
      /\ pc'[g] \in {"held", "entity"}
      /\ pc'[g] = "entity" => n'[g] \in 1..Len(entities[g])
      /\ Owned(g)' = Owned(g) \cup {Cur(g)}
  BY <1>1, AdvanceFacts
<1>6. CodeTypes'
  BY <1>1, <1>4, <1>5, Types DEF CodeTypes, PCs, Lists, Infos
<1>7. Sets(g, Cur(g).value, info, locks[Proc(g)][Cur(g).value])
  BY <1>1, <1>4 DEF Sets
<1> QED BY <1>1, <1>5, <1>6, <1>7 DEF Still, info

\* A new entry in the map.
NewInfo(g) ==
  [there |-> TRUE, writer |-> IF Cur(g).exclusive THEN Me(g) ELSE Nobody,
   readers |-> IF Cur(g).exclusive THEN {} ELSE {Me(g)}]

LEMMA InsertFrame ==
  ASSUME CodeTypes, NEW g \in Guards, Placed(g), Insert(g)
  PROVE  /\ CodeTypes' /\ Still(g) /\ valid' = valid /\ entities'[g] = entities[g] /\ pc[g] = "asked"
         /\ \/ /\ ~Entry(g).there /\ pc'[g] \in {"held", "entity"}
               /\ pc'[g] = "entity" => n'[g] \in 1..Len(entities[g])
               /\ Owned(g)' = Owned(g) \cup {Cur(g)}
               /\ Sets(g, Cur(g).value, NewInfo(g), locks[Proc(g)][Cur(g).value])
            \/ /\ Entry(g).there /\ pc'[g] = "entity" /\ n'[g] = n[g] /\ entry' = entry
               /\ Sets(g, Cur(g).value, Entry(g), "unlocked")
<1>1. /\ UNCHANGED <<requests, entities, contended, sleeps, valid, deadline, expired>> /\ pc[g] = "asked"
  BY DEF Insert, call
<1>2. Cur(g).value \in Entities /\ Entry(g) \in Infos /\ Entry(g) = entry[Proc(g)][Cur(g).value]
  BY <1>1, CurPlaced DEF AskingPCs
<1>3. NewInfo(g) \in Infos
  BY ProcType DEF Infos, NewInfo
<1>4. CASE /\ ~Entry(g).there /\ SetEntry(Proc(g), Cur(g).value, NewInfo(g))
           /\ Advance(g) /\ UNCHANGED locks
  <2>1. /\ entry' \in [Processes -> [Entities -> Infos]]
        /\ \A q \in Processes, d \in Entities :
             entry'[q][d] = IF q = Proc(g) /\ d = Cur(g).value THEN NewInfo(g) ELSE entry[q][d]
    BY <1>2, <1>3, <1>4, SetEntryFacts, ProcType, Types
  <2>2. /\ pc' \in [Guards -> PCs] /\ n' \in [Guards -> Nat \ {0}]
        /\ m' \in [Processes -> Guards \cup {Nobody}]
        /\ \A f \in Guards \ {g} : pc'[f] = pc[f] /\ n'[f] = n[f]
        /\ pc'[g] \in {"held", "entity"}
        /\ pc'[g] = "entity" => n'[g] \in 1..Len(entities[g])
        /\ Owned(g)' = Owned(g) \cup {Cur(g)}
    BY <1>1, <1>4, AdvanceFacts DEF AskingPCs
  <2>3. CodeTypes'
    BY <1>1, <1>4, <2>1, <2>2, Types DEF CodeTypes, PCs, Lists, Infos
  <2>4. Sets(g, Cur(g).value, NewInfo(g), locks[Proc(g)][Cur(g).value])
    BY <1>4, <2>1 DEF Sets
  <2> QED BY <1>1, <1>4, <2>2, <2>3, <2>4 DEF Still
<1>5. CASE /\ Entry(g).there /\ TakeM(g) /\ locks' = SetRange(locks, Proc(g), {Cur(g).value}, "unlocked")
           /\ Goto(g, "entity") /\ UNCHANGED <<entry, n>>
  <2>1. "unlocked" \in LockKinds /\ "entity" \in PCs
    BY DEF LockKinds, PCs
  <2>2. /\ locks' \in [Processes -> [Entities -> LockKinds]]
        /\ \A q \in Processes, d \in Entities :
             locks'[q][d] = IF q = Proc(g) /\ d \in {Cur(g).value} THEN "unlocked" ELSE locks[q][d]
    BY <1>5, <2>1, SetRangeFacts, ProcType, Types
  <2>3. m' \in [Processes -> Guards \cup {Nobody}]
    BY <1>5, Types DEF TakeM
  <2>4. pc' \in [Guards -> PCs] /\ pc'[g] = "entity" /\ \A f \in Guards \ {g} : pc'[f] = pc[f]
    BY <1>5, <2>1, GotoFacts
  <2>5. CodeTypes'
    BY <1>1, <1>5, <2>2, <2>3, <2>4, Types DEF CodeTypes, PCs, Lists, Infos
  <2>6. Sets(g, Cur(g).value, Entry(g), "unlocked")
    BY <1>2, <1>5, <2>2 DEF Sets
  <2> QED BY <1>1, <1>5, <2>4, <2>5, <2>6 DEF Still
<1> QED BY <1>4, <1>5 DEF Insert, Cur, NewInfo

LEMMA UpgradedFrame ==
  ASSUME CodeTypes, NEW g \in Guards, Placed(g), Upgraded(g)
  PROVE  /\ CodeTypes' /\ Still(g) /\ locks' = locks /\ valid' = valid /\ entities'[g] = entities[g]
         /\ pc[g] = "upgraded" /\ pc'[g] \in {"held", "entity"}
         /\ pc'[g] = "entity" => n'[g] \in 1..Len(entities[g])
         /\ Owned(g)' = Owned(g) \cup {Cur(g)}
         /\ \/ /\ valid[g]
               /\ Sets(g, Cur(g).value, [Entry(g) EXCEPT !.writer = Me(g)], locks[Proc(g)][Cur(g).value])
            \/ ~valid[g] /\ entry' = entry
<1> DEFINE info == [Entry(g) EXCEPT !.writer = Me(g)]
<1>1. /\ UNCHANGED <<requests, locks, entities, contended, sleeps, valid, deadline, expired>>
      /\ pc[g] = "upgraded" /\ Advance(g)
  BY DEF Upgraded, call
<1>2. Cur(g).value \in Entities /\ Entry(g) \in Infos
  BY <1>1, CurPlaced DEF AskingPCs
<1>3. info \in Infos
  BY <1>2, ProcType DEF Infos
<1>4. /\ pc' \in [Guards -> PCs] /\ n' \in [Guards -> Nat \ {0}]
      /\ m' \in [Processes -> Guards \cup {Nobody}]
      /\ \A f \in Guards \ {g} : pc'[f] = pc[f] /\ n'[f] = n[f]
      /\ pc'[g] \in {"held", "entity"}
      /\ pc'[g] = "entity" => n'[g] \in 1..Len(entities[g])
      /\ Owned(g)' = Owned(g) \cup {Cur(g)}
  BY <1>1, AdvanceFacts DEF AskingPCs
<1>5. CASE valid[g]
  <2>1. SetEntry(Proc(g), Cur(g).value, info)
    BY <1>5 DEF Upgraded, Cur
  <2> HIDE DEF info
  <2>2. /\ entry' \in [Processes -> [Entities -> Infos]]
        /\ \A q \in Processes, d \in Entities :
             entry'[q][d] = IF q = Proc(g) /\ d = Cur(g).value THEN info ELSE entry[q][d]
    BY <1>2, <1>3, <2>1, SetEntryFacts, ProcType, Types
  <2>3. CodeTypes'
    BY <1>1, <1>4, <2>2, Types DEF CodeTypes, PCs, Lists, Infos
  <2>4. Sets(g, Cur(g).value, info, locks[Proc(g)][Cur(g).value])
    BY <1>1, <2>2 DEF Sets
  <2> QED BY <1>1, <1>4, <1>5, <2>3, <2>4 DEF Still, info
<1>6. CASE ~valid[g]
  <2>1. entry' = entry
    BY <1>6 DEF Upgraded
  <2>2. CodeTypes'
    BY <1>1, <1>4, <2>1, Types DEF CodeTypes, PCs, Lists, Infos
  <2> QED BY <1>1, <1>4, <1>6, <2>1, <2>2 DEF Still
<1> QED BY <1>5, <1>6

\* What guard g leaves of an entry when it unlocks entity e.
Left(g, e) ==
  LET info == entry[Proc(g)][e]
  IN  IF info.writer = Me(g) THEN info.readers ELSE info.readers \ {Me(g)}

Dropped(g, e) ==
  \/ /\ Left(g, e) = {} /\ Sets(g, e, Absent, "unlocked")
     /\ \A f \in Guards :
          valid'[f] => valid[f] /\ ~(Proc(f) = Proc(g) /\ pc[f] \in Upgrading /\ Cur(f).value = e)
  \/ /\ Left(g, e) # {} /\ entry[Proc(g)][e].writer = Me(g)
     /\ Grantable(locks, Proc(g), {e}, "shared")
     /\ Sets(g, e, [entry[Proc(g)][e] EXCEPT !.writer = Nobody], "shared")
     /\ valid' = valid
  \/ /\ Left(g, e) # {} /\ entry[Proc(g)][e].writer # Me(g)
     /\ Sets(g, e, [entry[Proc(g)][e] EXCEPT !.readers = Left(g, e)], locks[Proc(g)][e])
     /\ valid' = valid

LEMMA DropFacts ==
  ASSUME CodeTypes, NEW g \in Guards, NEW e \in Entities, Drop(g, e)
  PROVE  /\ entry' \in [Processes -> [Entities -> Infos]]
         /\ locks' \in [Processes -> [Entities -> LockKinds]]
         /\ valid' \in [Guards -> BOOLEAN]
         /\ entry[Proc(g)][e].there /\ Dropped(g, e)
<1> DEFINE p == Proc(g)
           info == entry[p][e]
           left == Left(g, e)
<1>1. p \in Processes /\ Me(g) \in Threads
  BY ProcType
<1>2. info \in Infos
  BY <1>1, Types
<1>3. left \in SUBSET Threads
  BY <1>2 DEF Left, Infos
<1>4. info.there
  BY DEF Drop
<1>5. "unlocked" \in LockKinds /\ "shared" \in LockKinds
  BY DEF LockKinds
<1>6. CASE left = {}
  <2>1. /\ locks' = SetRange(locks, p, {e}, "unlocked") /\ SetEntry(p, e, Absent)
        /\ valid' = [f \in Guards |->
                       valid[f] /\ ~(/\ Proc(f) = p /\ pc[f] \in {"upgrade", "upgraded", "upgrade_refused"}
                                     /\ entities[f][n[f]].value = e)]
    BY <1>6 DEF Drop, Left
  <2>2. /\ locks' \in [Processes -> [Entities -> LockKinds]]
        /\ \A q \in Processes, d \in Entities :
             locks'[q][d] = IF q = p /\ d \in {e} THEN "unlocked" ELSE locks[q][d]
    BY <1>1, <1>5, <2>1, SetRangeFacts, Types
  <2>3. /\ entry' \in [Processes -> [Entities -> Infos]]
        /\ \A q \in Processes, d \in Entities :
             entry'[q][d] = IF q = p /\ d = e THEN Absent ELSE entry[q][d]
    BY <1>1, <2>1, SetEntryFacts, AbsentType, Types
  <2>4. Sets(g, e, Absent, "unlocked")
    BY <2>2, <2>3 DEF Sets
  <2>5. valid' \in [Guards -> BOOLEAN]
    BY <2>1, Zenon
  <2>6. \A f \in Guards :
          valid'[f] => valid[f] /\ ~(Proc(f) = Proc(g) /\ pc[f] \in Upgrading /\ Cur(f).value = e)
    BY <2>1, Zenon DEF Upgrading, Cur
  <2> QED BY <1>4, <1>6, <2>2, <2>3, <2>4, <2>5, <2>6 DEF Dropped
<1>7. CASE left # {} /\ info.writer = Me(g)
  <2>1. /\ LockOutcome(locks, p, {e}, "shared", "none") = "granted"
        /\ locks' = SetRange(locks, p, {e}, "shared")
        /\ SetEntry(p, e, [info EXCEPT !.writer = Nobody])
        /\ valid' = valid
    BY <1>7 DEF Drop, Left
  <2>2. Grantable(locks, p, {e}, "shared")
    BY <2>1 DEF LockOutcome
  <2>3. [info EXCEPT !.writer = Nobody] \in Infos
    BY <1>2 DEF Infos
  <2>4. /\ locks' \in [Processes -> [Entities -> LockKinds]]
        /\ \A q \in Processes, d \in Entities :
             locks'[q][d] = IF q = p /\ d \in {e} THEN "shared" ELSE locks[q][d]
    BY <1>1, <1>5, <2>1, SetRangeFacts, Types
  <2> DEFINE new == [info EXCEPT !.writer = Nobody]
  <2>5. new \in Infos /\ SetEntry(p, e, new)
    BY <2>1, <2>3
  <2> HIDE DEF new
  <2>6. /\ entry' \in [Processes -> [Entities -> Infos]]
        /\ \A q \in Processes, d \in Entities :
             entry'[q][d] = IF q = p /\ d = e THEN new ELSE entry[q][d]
    BY <1>1, <2>5, SetEntryFacts, Types
  <2>7. Sets(g, e, new, "shared")
    BY <2>4, <2>6 DEF Sets
  <2> QED BY <1>4, <1>7, <2>1, <2>2, <2>4, <2>6, <2>7, Types DEF Dropped, new
<1>8. CASE left # {} /\ info.writer # Me(g)
  <2>1. /\ SetEntry(p, e, [info EXCEPT !.readers = left])
        /\ locks' = locks /\ valid' = valid
    BY <1>8 DEF Drop, Left
  <2> DEFINE new == [info EXCEPT !.readers = left]
  <2>2. new \in Infos /\ SetEntry(p, e, new)
    BY <1>2, <1>3, <2>1 DEF Infos
  <2> HIDE DEF new
  <2>3. /\ entry' \in [Processes -> [Entities -> Infos]]
        /\ \A q \in Processes, d \in Entities :
             entry'[q][d] = IF q = p /\ d = e THEN new ELSE entry[q][d]
    BY <1>1, <2>2, SetEntryFacts, Types
  <2>4. Sets(g, e, new, locks[p][e])
    BY <2>1, <2>3 DEF Sets
  <2> QED BY <1>4, <1>8, <2>1, <2>3, <2>4, Types DEF Dropped, new
<1> QED BY <1>6, <1>7, <1>8

\* Undoing, or unlocking, guard g gives up one entity.
LEMMA UndoFrame ==
  ASSUME CodeTypes, NEW g \in Guards, Placed(g), Undo(g)
  PROVE  /\ CodeTypes' /\ Still(g) /\ pc[g] \in {"undo", "deadlock"} /\ pc'[g] = pc[g]
         /\ entities'[g] = entities[g] /\ n'[g] \in 1..Len(entities[g])
         /\ \E x \in Range(entities[g]) :
              /\ x \in Owned(g) /\ Owned(g)' = Owned(g) \ {x}
              /\ x.value \in Entities /\ entry[Proc(g)][x.value].there /\ Dropped(g, x.value)
<1> DEFINE s == entities[g]
           L == Len(entities[g])
           k == n[g]
           x == s[k - 1]
<1>1. /\ UNCHANGED <<requests, m, pc, entities, contended, sleeps, deadline, expired>>
      /\ pc[g] \in {"undo", "deadlock"} /\ n[g] > 1 /\ Drop(g, x.value)
      /\ n' = [n EXCEPT ![g] = @ - 1]
  BY DEF Undo, call
<1>2. s \in Lists /\ L \in Nat /\ DOMAIN s = 1..L /\ k \in 1..L
  BY <1>1, Types DEF Lists, Placed
<1>3. k - 1 \in 1..L /\ k - 1 \in DOMAIN s
  BY <1>1, <1>2
<1>4. x \in Range(s) /\ x.value \in Entities
  BY <1>3, CurType
<1>5. n' \in [Guards -> Nat \ {0}] /\ n'[g] = k - 1 /\ \A f \in Guards \ {g} : n'[f] = n[f]
  <2>1. n \in [Guards -> Nat \ {0}]
    BY Types
  <2>2. n[g] - 1 \in Nat \ {0}
    BY <1>1, <2>1
  <2>3. n' = [n EXCEPT ![g] = n[g] - 1]
    BY <1>1
  <2> QED BY ONLY <2>1, <2>2, <2>3, g \in Guards
<1>6. /\ entry' \in [Processes -> [Entities -> Infos]]
      /\ locks' \in [Processes -> [Entities -> LockKinds]]
      /\ valid' \in [Guards -> BOOLEAN]
      /\ entry[Proc(g)][x.value].there /\ Dropped(g, x.value)
  BY <1>1, <1>4, DropFacts
<1>7. CodeTypes'
  BY <1>1, <1>5, <1>6, Types DEF CodeTypes, PCs, Lists, Infos
<1>8. pc[g] \notin {"held", "unlock", "unlocking"} /\ pc'[g] \notin {"held", "unlock", "unlocking"}
  BY <1>1
<1>9. Owned(g) = {s[i] : i \in 1..(k - 1)}
  BY <1>8, OwnedEarly
<1>10. Owned(g)' = {s[i] : i \in 1..(k - 1 - 1)}
  <2>1. Owned(g)' = {entities'[g][i] : i \in 1..(n'[g] - 1)}
    <3>1. (pc[g] \notin {"held", "unlock", "unlocking"} =>
             Owned(g) = {entities[g][i] : i \in 1..(n[g] - 1)})'
      BY OwnedEarly, PTL
    <3> QED BY <1>8, <3>1
  <2>2. entities' = entities /\ n'[g] - 1 = k - 1 - 1
    BY <1>1, <1>2, <1>5
  <2> QED BY ONLY <2>1, <2>2, Zenon
<1>11. \A i, j \in DOMAIN s : s[i].value = s[j].value => i = j
  BY DEF Placed
<1> HIDE DEF s, L, k
<1>12. 1..(k - 1) = (1..(k - 1 - 1)) \cup {k - 1} /\ k - 1 \notin 1..(k - 1 - 1)
        /\ 1..(k - 1) \subseteq 1..L
  BY <1>2, <1>3
<1>13. Owned(g)' = Owned(g) \ {x} /\ x \in Owned(g)
  <2> DEFINE R == 1..(k - 1)
             K == 1..(k - 1 - 1)
  <2>1. R = K \cup {k - 1} /\ k - 1 \notin K /\ R \subseteq DOMAIN s
    BY <1>2, <1>12
  <2>2. Owned(g) = {s[i] : i \in R} /\ Owned(g)' = {s[i] : i \in K}
    BY <1>9, <1>10
  <2> HIDE DEF R, K
  <2>3. Owned(g) = Owned(g)' \cup {x}
    BY <2>1, <2>2
  <2>4. x \notin Owned(g)'
    BY <1>11, <2>1, <2>2
  <2> QED BY <2>3, <2>4
<1> QED BY <1>1, <1>3, <1>4, <1>5, <1>6, <1>7, <1>13 DEF Still, s, L, k

LEMMA GiveFrame ==
  ASSUME CodeTypes, NEW g \in Guards, Placed(g), GiveEntity(g)
  PROVE  /\ CodeTypes' /\ Still(g) /\ pc[g] = "unlocking" /\ pc'[g] = pc[g]
         /\ entities'[g] = entities[g]
         /\ \E x \in Range(entities[g]) :
              /\ x \in Owned(g) /\ Owned(g)' = Owned(g) \ {x}
              /\ x.value \in Entities /\ entry[Proc(g)][x.value].there /\ Dropped(g, x.value)
<1> DEFINE s == entities[g]
           L == Len(entities[g])
           k == n[g]
           x == s[k]
<1>1. /\ UNCHANGED <<requests, m, pc, entities, contended, sleeps, deadline, expired>>
      /\ pc[g] = "unlocking" /\ n[g] <= Len(entities[g]) /\ Drop(g, x.value)
      /\ n' = [n EXCEPT ![g] = @ + 1]
  BY DEF GiveEntity, call
<1>2. s \in Lists /\ L \in Nat /\ DOMAIN s = 1..L /\ k \in 1..L
  <2>1. s \in Lists /\ n[g] \in Nat \ {0}
    BY Types
  <2>2. L \in Nat /\ DOMAIN s = 1..L
    BY <2>1 DEF Lists
  <2>3. k <= L
    BY <1>1
  <2> QED BY <2>1, <2>2, <2>3
<1>4. x \in Range(s) /\ x.value \in Entities
  BY <1>2, CurType
<1>5. n' \in [Guards -> Nat \ {0}] /\ n'[g] = k + 1 /\ \A f \in Guards \ {g} : n'[f] = n[f]
  <2>1. n \in [Guards -> Nat \ {0}]
    BY Types
  <2>2. n[g] + 1 \in Nat \ {0}
    BY <1>1, <2>1
  <2>3. n' = [n EXCEPT ![g] = n[g] + 1]
    BY <1>1
  <2> QED BY ONLY <2>1, <2>2, <2>3, g \in Guards
<1>6. /\ entry' \in [Processes -> [Entities -> Infos]]
      /\ locks' \in [Processes -> [Entities -> LockKinds]]
      /\ valid' \in [Guards -> BOOLEAN]
      /\ entry[Proc(g)][x.value].there /\ Dropped(g, x.value)
  BY <1>1, <1>4, DropFacts
<1>7. CodeTypes'
  BY <1>1, <1>5, <1>6, Types DEF CodeTypes, PCs, Lists, Infos
<1>9. Owned(g) = {s[i] : i \in k..L}
  BY <1>1, OwnedLate
<1>10. Owned(g)' = {s[i] : i \in (k + 1)..L}
  <2>1. Owned(g)' = {entities'[g][i] : i \in n'[g]..Len(entities'[g])}
    <3>1. (pc[g] = "unlocking" => Owned(g) = {entities[g][i] : i \in n[g]..Len(entities[g])})'
      BY OwnedLate, PTL
    <3> QED BY <1>1, <3>1
  <2>2. entities' = entities /\ n'[g] = k + 1
    BY <1>1, <1>5
  <2> QED BY ONLY <2>1, <2>2, Zenon
<1>11. \A i, j \in DOMAIN s : s[i].value = s[j].value => i = j
  BY DEF Placed
<1> HIDE DEF s, L, k
<1>12. k..L = ((k + 1)..L) \cup {k} /\ k \notin (k + 1)..L /\ k..L \subseteq 1..L
  BY <1>2
<1>13. Owned(g)' = Owned(g) \ {x} /\ x \in Owned(g)
  <2> DEFINE R == k..L
             K == (k + 1)..L
  <2>1. R = K \cup {k} /\ k \notin K /\ R \subseteq DOMAIN s
    BY <1>2, <1>12
  <2>2. Owned(g) = {s[i] : i \in R} /\ Owned(g)' = {s[i] : i \in K}
    BY <1>9, <1>10
  <2> HIDE DEF R, K
  <2>3. Owned(g) = Owned(g)' \cup {x}
    BY <2>1, <2>2
  <2>4. x \notin Owned(g)'
    BY <1>11, <2>1, <2>2
  <2> QED BY <2>3, <2>4
<1> QED BY <1>1, <1>4, <1>5, <1>6, <1>7, <1>13 DEF Still, s, L, k

\* A process exits.
LEMMA ExitFrame ==
  ASSUME CodeTypes, NEW p \in Processes, Exit(p)
  PROVE  /\ CodeTypes' /\ requests' = requests
         /\ \A g \in Guards : Proc(g) = p =>
              pc'[g] = "idle" /\ n'[g] = 1 /\ entities'[g] = << >>
         /\ \A g \in Guards : Proc(g) # p =>
              /\ pc'[g] = pc[g] /\ n'[g] = n[g] /\ entities'[g] = entities[g] /\ valid'[g] = valid[g]
         /\ \A q \in Processes, d \in Entities :
              /\ locks'[q][d] = IF q = p THEN "unlocked" ELSE locks[q][d]
              /\ entry'[q][d] = IF q = p THEN Absent ELSE entry[q][d]
<1> DEFINE G == {g \in Guards : Proc(g) = p}
<1>1. /\ locks' = SetRange(locks, p, Entities, "unlocked")
      /\ entry' = [entry EXCEPT ![p] = [e \in Entities |-> Absent]]
      /\ m' = [m EXCEPT ![p] = Nobody] /\ Leave(G) /\ requests' = requests
  BY DEF Exit
<1>2. "unlocked" \in LockKinds
  BY DEF LockKinds
<1>3. /\ locks' \in [Processes -> [Entities -> LockKinds]]
      /\ \A q \in Processes, d \in Entities :
           locks'[q][d] = IF q = p /\ d \in Entities THEN "unlocked" ELSE locks[q][d]
  BY <1>1, <1>2, SetRangeFacts, Types
<1>4. /\ entry' \in [Processes -> [Entities -> Infos]]
      /\ \A q \in Processes, d \in Entities :
           entry'[q][d] = IF q = p THEN Absent ELSE entry[q][d]
  BY <1>1, AbsentType, Types
<1>5. m' \in [Processes -> Guards \cup {Nobody}]
  BY <1>1, Types
<1>6. G \in SUBSET Guards
  OBVIOUS
<1>7. /\ \A g \in G : pc'[g] = "idle" /\ n'[g] = 1 /\ entities'[g] = << >> /\ valid'[g]
      /\ \A g \in Guards \ G : /\ pc'[g] = pc[g] /\ n'[g] = n[g] /\ entities'[g] = entities[g]
                               /\ valid'[g] = valid[g]
  BY <1>1, <1>6, LeaveFacts
<1>8. /\ pc' \in [Guards -> PCs] /\ entities' \in [Guards -> Lists]
      /\ n' \in [Guards -> Nat \ {0}] /\ contended' \in [Guards -> Nat]
      /\ sleeps' \in [Guards -> BOOLEAN] /\ valid' \in [Guards -> BOOLEAN]
      /\ deadline' \in [Guards -> {"none", "steady", "utc"}] /\ expired' \in [Guards -> BOOLEAN]
  BY <1>1, LeaveTypes
<1>9. CodeTypes'
  BY <1>1, <1>3, <1>4, <1>5, <1>8, Types DEF CodeTypes, PCs, Lists, Infos
<1> QED BY <1>1, <1>3, <1>4, <1>7, <1>9

-----------------------------------------------------------------------------
(* What guards want and have                                               *)

\* A guard owns what it was asked for only.
LEMMA OwnedIn ==
  ASSUME CodeTypes, NEW g \in Guards, Placed(g)
  PROVE  /\ Owned(g) \subseteq Range(entities[g]) /\ Owned(g) \subseteq Wants(g)
         /\ pc[g] \in {"idle", "enter", "sleep"} => Owned(g) = {}
         /\ pc[g] \in AskingPCs \cup {"entity"} => 
              Cur(g) \in Wants(g) /\ \A x \in Owned(g) : x.value # Cur(g).value
<1> DEFINE s == entities[g]
           k == n[g]
           L == Len(entities[g])
<1>1. s \in Lists /\ k \in Nat \ {0} /\ pc[g] \in PCs
  BY Types
<1>2. L \in Nat /\ DOMAIN s = 1..L
  BY <1>1 DEF Lists
<1>3. \A i, j \in DOMAIN s : s[i].value = s[j].value => i = j
  BY DEF Placed
<1>4. Range(s) \subseteq Wants(g)
  BY DEF Placed
<1>5. \A i \in DOMAIN s : s[i] \in Range(s)
  BY DEF Range
<1>6. pc[g] \in {"idle", "enter", "sleep"} => k = 1
  BY DEF Placed
<1>7. pc[g] \in AskingPCs \cup {"entity", "undo", "deadlock"} => k \in 1..L
  BY DEF Placed
<1>8. CASE pc[g] \in {"held", "unlock", "unlocking"}
  <2>1. Owned(g) = Range(s) \/ Owned(g) = {s[i] : i \in k..L}
    BY <1>8, OwnedLate
  <2>2. k..L \subseteq DOMAIN s
    BY <1>1, <1>2
  <2>3. pc[g] \notin AskingPCs \cup {"entity", "idle", "enter", "sleep"}
    BY <1>8 DEF AskingPCs
  <2> HIDE DEF s, k, L
  <2>4. {s[i] : i \in k..L} \subseteq Range(s)
    BY <1>5, <2>2
  <2> QED BY <1>4, <2>1, <2>3, <2>4 DEF s
<1>9. CASE pc[g] \notin {"held", "unlock", "unlocking"}
  <2>1. Owned(g) = {s[i] : i \in 1..(k - 1)}
    BY <1>9, OwnedEarly
  <2>2. k = 1 \/ k \in 1..L
    BY <1>1, <1>6, <1>7, <1>9 DEF PCs
  <2>3. 1..(k - 1) \subseteq DOMAIN s /\ (k = 1 => 1..(k - 1) = {}) /\ k \notin 1..(k - 1)
    BY <1>1, <1>2, <2>2
  <2>4. pc[g] \in AskingPCs \cup {"entity"} => k \in DOMAIN s
    BY <1>2, <1>7
  <2>5. Cur(g) = s[k]
    BY DEF Cur
  <2> HIDE DEF s, k, L
  <2>6. Owned(g) \subseteq Range(s)
    BY <1>5, <2>1, <2>3
  <2>7. pc[g] \in AskingPCs \cup {"entity"} => 
          s[k] \in Range(s) /\ \A x \in Owned(g) : x.value # s[k].value
    BY <1>3, <1>5, <2>1, <2>3, <2>4
  <2>8. k = 1 => Owned(g) = {}
    BY <2>1, <2>3
  <2> QED BY <1>4, <1>6, <2>5, <2>6, <2>7, <2>8 DEF s
<1> QED BY <1>8, <1>9

LEMMA OneThingStep ==
  ASSUME OneThing, NEW g \in Guards, Still(g),
         Busy(g) \/ \A f \in Guards : Me(f) = Me(g) => ~Busy(f)
  PROVE  OneThing'
<1>1. \A f \in Guards \ {g} : Busy(f)' => Busy(f)
  BY DEF Still, Busy
<1>2. \A f \in Guards \ {g} : Me(f) = Me(g) => ~Busy(f)
  BY DEF OneThing
<1> QED BY <1>1, <1>2 DEF OneThing

LEMMA WantsSame ==
  ASSUME requests' = requests, NEW g \in Guards
  PROVE  Wants(g)' = Wants(g)
BY DEF Wants

LEMMA PlacedOther ==
  ASSUME requests' = requests, NEW f \in Guards, Placed(f),
         pc'[f] = pc[f], n'[f] = n[f], entities'[f] = entities[f]
  PROVE  Placed(f)'
BY WantsSame DEF Placed

\* Where guard g may go without changing the list it works through.
LEMMA PlacedMoved ==
  ASSUME requests' = requests, NEW g \in Guards, Placed(g), entities'[g] = entities[g],
         pc'[g] # "idle" => pc[g] # "idle",
         pc'[g] \in {"idle", "enter", "sleep"} => n'[g] = 1,
         pc'[g] \in AskingPCs \cup {"entity", "undo", "deadlock"} => n'[g] \in 1..Len(entities[g])
  PROVE  Placed(g)'
BY WantsSame DEF Placed

LEMMA PlacedEmpty ==
  ASSUME requests' = requests, NEW g \in Guards, entities'[g] = << >>, pc'[g] = "idle", n'[g] = 1
  PROVE  Placed(g)'
BY DEF Placed, AskingPCs, Range

LEMMA OwnedOther ==
  ASSUME NEW f \in Guards, pc'[f] = pc[f], n'[f] = n[f], entities'[f] = entities[f]
  PROVE  Owned(f)' = Owned(f)
BY DEF Owned

\* Who uses an entity asked for it.
LEMMA WantsUses ==
  ASSUME NEW g \in Guards, NEW x \in Wants(g)
  PROVE  Uses(g, x.value)
BY DEF Wants, Uses

LEMMA OwnersUse ==
  ASSUME CodeTypes, \A f \in Guards : Placed(f), NEW p, NEW e, NEW t, NEW g \in Owners(p, e, t)
  PROVE  g \in Guards /\ Proc(g) = p /\ Me(g) = t /\ Uses(g, e)
<1>1. g \in Guards /\ Proc(g) = p /\ Me(g) = t /\ Has(g, e)
  BY DEF Owners
<1>2. PICK x \in Owned(g) : x.value = e
  BY <1>1 DEF Has
<1>3. x \in Wants(g)
  BY <1>1, OwnedIn
<1> QED BY <1>1, <1>2, <1>3, WantsUses

-----------------------------------------------------------------------------
(* Steps that change neither the map nor what a guard owns                 *)

QuietMove(g) ==
  /\ Still(g) /\ Quiet(g) /\ Owned(g)' = Owned(g)
  /\ pc'[g] \in AskingPCs => n'[g] = n[g] /\ entities'[g] = entities[g]
  /\ pc[g] \in {"asked", "upgraded"} \/ pc'[g] \in {"asked", "upgraded"} =>
       pc'[g] = pc[g] /\ n'[g] = n[g] /\ entities'[g] = entities[g]
  /\ pc'[g] \in {"ask", "upgrade"} =>
       \/ pc[g] = pc'[g]
       \/ pc[g] = "entity" /\ Entry(g).writer = Nobody /\ (pc'[g] = "ask" => ~Entry(g).there)
  /\ pc'[g] \in Upgrading =>
       \/ pc[g] \in Upgrading /\ valid'[g] = valid[g]
       \/ pc[g] = "entity" /\ Entry(g).there /\ Cur(g).exclusive

\* A step that stays among the states before an entity is had keeps what is owned.
LEMMA EarlySame ==
  ASSUME NEW g, entities'[g] = entities[g], n'[g] = n[g],
         pc[g] \notin {"held", "unlock", "unlocking"}, pc'[g] \notin {"held", "unlock", "unlocking"}
  PROVE  Owned(g)' = Owned(g)
<1>1. Owned(g) = {entities[g][i] : i \in 1..(n[g] - 1)}
  BY OwnedEarly
<1>2. Owned(g)' = {entities'[g][i] : i \in 1..(n'[g] - 1)}
  <2>1. (pc[g] \notin {"held", "unlock", "unlocking"} =>
           Owned(g) = {entities[g][i] : i \in 1..(n[g] - 1)})'
    BY OwnedEarly, PTL
  <2> QED BY <2>1
<1> QED BY ONLY <1>1, <1>2, entities'[g] = entities[g], n'[g] = n[g], Zenon

\* At the first index nothing is owned.
LEMMA OwnsNothing ==
  ASSUME NEW g
  PROVE  /\ pc[g] \notin {"held", "unlock", "unlocking"} /\ n[g] = 1 => Owned(g) = {}
         /\ (pc[g] \notin {"held", "unlock", "unlocking"} /\ n[g] = 1 => Owned(g) = {})'
<1>1. pc[g] \notin {"held", "unlock", "unlocking"} /\ n[g] = 1 => Owned(g) = {}
  <2>1. 1..(1 - 1) = {}
    OBVIOUS
  <2> QED BY <2>1, OwnedEarly
<1>2. (pc[g] \notin {"held", "unlock", "unlocking"} /\ n[g] = 1 => Owned(g) = {})'
  BY <1>1, PTL
<1> QED BY <1>1, <1>2

LEMMA LockMove ==
  ASSUME CodeTypes, NEW g \in Guards, Placed(g), Lock(g)
  PROVE  CodeTypes' /\ QuietMove(g) /\ Placed(g)' /\ \A f \in Guards : Me(f) = Me(g) => ~Busy(f)
<1>1. /\ CodeTypes' /\ Still(g) /\ Quiet(g) /\ pc[g] = "idle" /\ pc'[g] = "enter" /\ n'[g] = n[g]
  BY LockFrame
<1>2. PICK s \in requests[g] : entities'[g] = s
  BY LockFrame
<1>3. \A f \in Guards : Me(f) = Me(g) => ~Busy(f)
  BY DEF Lock, Busy
<1>4. n[g] = 1
  BY <1>1 DEF Placed
<1>5. Owned(g) = {} /\ Owned(g)' = {}
  BY <1>1, <1>4, OwnsNothing
<1>6. Placed(g)'
  <2>1. /\ s # << >> /\ Range(s) \subseteq Wants(g)
        /\ \A i, j \in DOMAIN s : s[i].value = s[j].value => i = j
    BY <1>2, RequestFacts
  <2>2. Wants(g)' = Wants(g)
    BY <1>1, WantsSame DEF Still
  <2> QED BY <1>1, <1>2, <1>4, <2>1, <2>2 DEF Placed, AskingPCs
<1>7. QuietMove(g)
  BY <1>1, <1>5 DEF QuietMove, AskingPCs, Upgrading
<1> QED BY <1>1, <1>3, <1>6, <1>7

LEMMA LeaveMove ==
  ASSUME CodeTypes, NEW g \in Guards, Placed(g), Fail(g) \/ Unlocked(g)
  PROVE  CodeTypes' /\ QuietMove(g) /\ Placed(g)' /\ Busy(g)
<1>1. CodeTypes' /\ Still(g) /\ Quiet(g) /\ pc'[g] = "idle" /\ n'[g] = 1 /\ entities'[g] = << >>
  BY LeaveFrame
<1>2. \/ pc[g] \in {"undo", "deadlock"} /\ n[g] = 1
      \/ pc[g] = "unlocking" /\ n[g] > Len(entities[g])
  BY DEF Fail, Unlocked
<1>3. Owned(g)' = {}
  BY <1>1, OwnsNothing
<1>4. Owned(g) = {}
  <2>1. CASE pc[g] \in {"undo", "deadlock"} /\ n[g] = 1
    BY <2>1, OwnsNothing
  <2>2. CASE pc[g] = "unlocking" /\ n[g] > Len(entities[g])
    <3>1. Owned(g) = {entities[g][i] : i \in n[g]..Len(entities[g])}
      BY <2>2, OwnedLate
    <3>2. n[g] \in Nat /\ Len(entities[g]) \in Nat
      BY Types DEF Lists
    <3>3. n[g]..Len(entities[g]) = {}
      BY <2>2, <3>2
    <3> QED BY <3>1, <3>3
  <2> QED BY <1>2, <2>1, <2>2
<1>5. Placed(g)'
  BY <1>1, PlacedEmpty DEF Still
<1>6. QuietMove(g) /\ Busy(g)
  BY <1>1, <1>2, <1>3, <1>4 DEF QuietMove, AskingPCs, Upgrading, Busy
<1> QED BY <1>1, <1>5, <1>6

LEMMA RetryMove ==
  ASSUME CodeTypes, NEW g \in Guards, Placed(g), Retry(g)
  PROVE  CodeTypes' /\ QuietMove(g) /\ Placed(g)' /\ Busy(g)
<1>1. /\ CodeTypes' /\ Still(g) /\ Quiet(g) /\ pc[g] = "undo" /\ n[g] = 1 /\ n'[g] = 1
      /\ pc'[g] \in {"sleep", "enter"}
  BY RetryFrame
<1>2. PICK s \in Reordered(entities[g], contended[g]) : entities'[g] = s
  BY RetryFrame
<1>3. Owned(g) = {} /\ Owned(g)' = {}
  BY <1>1, OwnsNothing
<1>4. Placed(g)'
  <2>1. /\ entities[g] \in Seq(Entity) /\ entities[g] # << >> /\ Range(entities[g]) \subseteq Wants(g)
        /\ \A i, j \in DOMAIN entities[g] : entities[g][i].value = entities[g][j].value => i = j
    BY <1>1 DEF CodeTypes, Placed
  <2>2. /\ s \in Seq(Entity) /\ Len(s) = Len(entities[g]) /\ Range(s) \subseteq Wants(g)
        /\ \A i, j \in DOMAIN s : s[i].value = s[j].value => i = j
    BY <2>1, ReorderedFacts
  <2>3. s # << >>
    BY <2>1, <2>2
  <2>4. Wants(g)' = Wants(g)
    BY <1>1, WantsSame DEF Still
  <2> QED BY <1>1, <1>2, <2>2, <2>3, <2>4 DEF Placed, AskingPCs
<1>5. QuietMove(g) /\ Busy(g)
  BY <1>1, <1>3 DEF QuietMove, AskingPCs, Upgrading, Busy
<1> QED BY <1>1, <1>4, <1>5

LEMMA PlainMove ==
  ASSUME CodeTypes, NEW g \in Guards, Placed(g), Plain(g)
  PROVE  /\ CodeTypes' /\ QuietMove(g) /\ Placed(g)'
         /\ Busy(g) \/ \A f \in Guards : Me(f) = Me(g) => ~Busy(f)
<1>1. CodeTypes' /\ Still(g) /\ Quiet(g) /\ entities'[g] = entities[g] /\ requests' = requests
  BY PlainFrame DEF Still
<1>2. n[g] \in Nat \ {0} /\ entities[g] \in Lists /\ pc \in [Guards -> PCs] /\ n \in [Guards -> Nat \ {0}]
      /\ valid \in [Guards -> BOOLEAN]
  BY Types
<1>3. CASE Enter(g)
  <2>1. pc[g] = "enter" /\ pc'[g] = "entity" /\ n'[g] = 1
    BY <1>2, <1>3 DEF Enter, Goto
  <2>2. n[g] = 1 /\ entities[g] # << >>
    BY <2>1 DEF Placed
  <2>3. 1 \in 1..Len(entities[g])
    BY <1>2, <2>2 DEF Lists
  <2>4. Owned(g)' = Owned(g)
    BY <1>1, <2>1, <2>2, EarlySame
  <2>5. Placed(g)'
    BY <1>1, <2>1, <2>3, PlacedMoved
  <2> QED BY <1>1, <2>1, <2>4, <2>5 DEF QuietMove, AskingPCs, Upgrading, Busy
<1>4. CASE LeaveToAsk(g)
  <2>1. pc[g] = "entity" /\ n'[g] = n[g] /\ valid'[g] /\ Entry(g).writer = Nobody
    BY <1>2, <1>4 DEF LeaveToAsk
  <2>2. /\ Entry(g).there => pc'[g] = "upgrade" /\ Cur(g).exclusive
        /\ ~Entry(g).there => pc'[g] = "ask"
    BY <1>2, <1>4 DEF LeaveToAsk, Goto, Cur
  <2>3. pc'[g] \in {"ask", "upgrade"} /\ n[g] \in 1..Len(entities[g])
    BY <2>1, <2>2 DEF Placed
  <2>4. Owned(g)' = Owned(g)
    BY <1>1, <2>1, <2>3, EarlySame
  <2>5. Placed(g)'
    BY <1>1, <2>1, <2>3, PlacedMoved
  <2> QED BY <1>1, <2>1, <2>2, <2>3, <2>4, <2>5 DEF QuietMove, AskingPCs, Upgrading, Busy
<1>5. CASE Relock(g) \/ ThreadContends(g)
  <2>1. pc[g] = "entity" /\ n'[g] = n[g] /\ pc'[g] \in {"deadlock", "undo"}
    BY <1>2, <1>5 DEF Relock, ThreadContends, Contended, Goto
  <2>3. n[g] \in 1..Len(entities[g])
    BY <2>1 DEF Placed
  <2>4. Owned(g)' = Owned(g)
    BY <1>1, <2>1, EarlySame
  <2>5. Placed(g)'
    BY <1>1, <2>1, <2>3, PlacedMoved
  <2> QED BY <1>1, <2>1, <2>4, <2>5 DEF QuietMove, AskingPCs, Upgrading, Busy
<1>6. CASE Interrupt(g)
  <2>1. /\ n'[g] = n[g] /\ valid' = valid
        /\ \/ pc[g] = "ask" /\ pc'[g] = "refused"
           \/ pc[g] = "upgrade" /\ pc'[g] = "upgrade_refused"
    BY <1>2, <1>6 DEF Interrupt, Goto
  <2>3. n[g] \in 1..Len(entities[g])
    BY <2>1 DEF Placed, AskingPCs
  <2>4. Owned(g)' = Owned(g)
    BY <1>1, <2>1, EarlySame
  <2>5. Placed(g)'
    BY <1>1, <2>1, <2>3, PlacedMoved
  <2> QED BY <1>1, <2>1, <2>4, <2>5 DEF QuietMove, AskingPCs, Upgrading, Busy
<1>7. CASE Refused(g)
  <2>1. n'[g] = n[g] /\ pc[g] \in {"refused", "upgrade_refused"} /\ pc'[g] = "undo"
    BY <1>2, <1>7 DEF Refused, Contended, Goto
  <2>3. n[g] \in 1..Len(entities[g])
    BY <2>1 DEF Placed, AskingPCs
  <2>4. Owned(g)' = Owned(g)
    BY <1>1, <2>1, EarlySame
  <2>5. Placed(g)'
    BY <1>1, <2>1, <2>3, PlacedMoved
  <2> QED BY <1>1, <2>1, <2>4, <2>5 DEF QuietMove, AskingPCs, Upgrading, Busy
<1>8. CASE Wake(g) \/ WakeEarly(g)
  <2>1. n'[g] = n[g] /\ pc[g] = "sleep" /\ pc'[g] = "enter"
    BY <1>2, <1>8 DEF Wake, WakeEarly, Goto
  <2>3. n[g] = 1
    BY <2>1 DEF Placed
  <2>4. Owned(g)' = Owned(g)
    BY <1>1, <2>1, EarlySame
  <2>5. Placed(g)'
    BY <1>1, <2>1, <2>3, PlacedMoved DEF AskingPCs
  <2> QED BY <1>1, <2>1, <2>4, <2>5 DEF QuietMove, AskingPCs, Upgrading, Busy
<1>9. CASE Expire(g)
  <2>1. n' = n /\ pc' = pc /\ valid' = valid /\ pc[g] \notin {"idle", "held", "unlock", "unlocking"}
    BY <1>9 DEF Expire
  <2>4. Owned(g)' = Owned(g)
    BY <1>1, <2>1, EarlySame
  <2>5. Placed(g)'
    BY <1>1, <2>1, PlacedOther
  <2> QED BY <1>1, <2>1, <2>4, <2>5 DEF QuietMove, AskingPCs, Upgrading, Busy
<1>10. CASE Unlock(g)
  <2>1. n'[g] = n[g] /\ pc[g] = "held" /\ pc'[g] = "unlock"
    BY <1>2, <1>10 DEF Unlock, Goto
  <2>2. \A f \in Guards : Me(f) = Me(g) => ~Busy(f)
    BY <1>10 DEF Unlock, Busy
  <2>4. Owned(g)' = Owned(g)
    BY <1>1, <2>1 DEF Owned
  <2>5. Placed(g)'
    BY <1>1, <2>1, PlacedMoved DEF AskingPCs
  <2> QED BY <1>1, <2>1, <2>2, <2>4, <2>5 DEF QuietMove, AskingPCs, Upgrading
<1>11. CASE EnterUnlock(g)
  <2>1. n'[g] = 1 /\ pc[g] = "unlock" /\ pc'[g] = "unlocking"
    BY <1>2, <1>11 DEF EnterUnlock, Goto
  <2>2. Owned(g) = Range(entities[g])
    BY <2>1, OwnedLate
  <2>3. Owned(g)' = {entities'[g][i] : i \in n'[g]..Len(entities'[g])}
    <3>1. (pc[g] = "unlocking" => Owned(g) = {entities[g][i] : i \in n[g]..Len(entities[g])})'
      BY OwnedLate, PTL
    <3> QED BY <2>1, <3>1
  <2>4. DOMAIN entities[g] = 1..Len(entities[g])
    BY <1>2 DEF Lists
  <2>5. Owned(g)' = Owned(g)
    <3>1. Range(entities[g]) = {entities[g][i] : i \in 1..Len(entities[g])}
      BY <2>4 DEF Range
    <3>2. Owned(g)' = {entities[g][i] : i \in 1..Len(entities[g])}
      BY ONLY <1>1, <2>1, <2>3, Zenon
    <3> QED BY <2>2, <3>1, <3>2
  <2>6. Placed(g)'
    BY <1>1, <2>1, PlacedMoved DEF AskingPCs
  <2> QED BY <1>1, <2>1, <2>5, <2>6 DEF QuietMove, AskingPCs, Upgrading, Busy
<1> QED BY <1>3, <1>4, <1>5, <1>6, <1>7, <1>8, <1>9, <1>10, <1>11 DEF Plain

-----------------------------------------------------------------------------
(* What holds of entity e in process p                                     *)

LEMMA SInvParts ==
  ASSUME SInv
  PROVE  /\ CodeTypes /\ OneThing /\ Compatible
         /\ \A f \in Guards : Placed(f) /\ Asking(f) /\ Noticed(f)
         /\ \A q \in Processes, d \in Entities :
              Shaped(q, d) /\ Remembered(q, d) /\ (Orderly(q, d) => Good(q, d))
BY DEF SInv, TypeOK

\* What each step is shown to do, before it is remembered.
Preserved ==
  /\ CodeTypes' /\ OneThing' /\ Compatible'
  /\ \A f \in Guards : Placed(f)' /\ Asking(f)'
  /\ \A q \in Processes, d \in Entities :
       Shaped(q, d)' /\ (Orderly(q, d) /\ ~Crossing(q, d)' => Good(q, d)')

\* Guards own of entity d what they owned.
Keeps(q, d) ==
  \A f \in Guards : Proc(f) = q =>
    \A y : y.value = d => (y \in Owned(f)' <=> y \in Owned(f))

LEMMA OwnersSame ==
  ASSUME NEW q, NEW d, Keeps(q, d), NEW t
  PROVE  Owners(q, d, t)' = Owners(q, d, t)
<1>1. \A f \in Guards : Proc(f) = q => (Has(f, d)' <=> Has(f, d))
  BY DEF Keeps, Has
<1> QED BY <1>1 DEF Owners

LEMMA NestsSame ==
  ASSUME requests' = requests, NEW t, NEW e
  PROVE  Nests(t, e)' <=> Nests(t, e)
<1>1. \A g \in Guards : Uses(g, e)' <=> Uses(g, e)
  BY DEF Uses
<1> QED BY <1>1 DEF Nests

\* The guards that are granted a byte are those that were.
LEMMA GrantedSame ==
  ASSUME NEW g \in Guards, NEW q, NEW d, Still(g),
         g \in Granted(q, d) \/ g \in Granted(q, d)' => pc'[g] = pc[g] /\ Cur(g)' = Cur(g)
  PROVE  Granted(q, d)' = Granted(q, d) /\ \A f \in Granted(q, d) : Cur(f)' = Cur(f)
<1>1. \A f \in Guards : f \in Granted(q, d) <=>
        Proc(f) = q /\ pc[f] \in {"asked", "upgraded"} /\ Cur(f).value = d
  BY DEF Granted, Cur
<1>2. \A f \in Guards : f \in Granted(q, d)' <=>
        Proc(f) = q /\ pc'[f] \in {"asked", "upgraded"} /\ Cur(f)'.value = d
  BY DEF Granted, Cur
<1>3. \A f \in Guards \ {g} : pc'[f] = pc[f] /\ Cur(f)' = Cur(f)
  BY DEF Still, Cur
<1>4. Granted(q, d) \subseteq Guards /\ Granted(q, d)' \subseteq Guards
  BY DEF Granted
<1>5. \A f \in Guards : f \in Granted(q, d)' <=> f \in Granted(q, d)
  BY <1>1, <1>2, <1>3
<1>6. \A f \in Granted(q, d) : Cur(f)' = Cur(f)
  BY <1>3, <1>4
<1> QED BY <1>4, <1>5, <1>6

LEMMA GoodSame ==
  ASSUME requests' = requests, NEW q \in Processes, NEW d \in Entities, Good(q, d), Keeps(q, d),
         entry'[q][d] = entry[q][d], locks'[q][d] = locks[q][d],
         Granted(q, d)' = Granted(q, d), \A f \in Granted(q, d) : Cur(f)' = Cur(f)
  PROVE  Good(q, d)'
<1>1. Alone(q, d)'
  BY DEF Good, Alone
<1>2. Counted(q, d)'
  <2>1. \A t \in Threads : Owners(q, d, t)' = Owners(q, d, t)
    BY OwnersSame
  <2> QED BY <2>1 DEF Good, Counted
<1>3. Labelled(q, d)'
  <2>1. SUFFICES ASSUME NEW f \in Guards, NEW x \in Owned(f)', Proc(f) = q, x.value = d, ~Nests(Me(f), d)'
                 PROVE  IF x.exclusive THEN entry'[q][d].writer = Me(f) ELSE Me(f) \in entry'[q][d].readers
    BY DEF Labelled
  <2>2. x \in Owned(f) /\ ~Nests(Me(f), d)
    BY <2>1, NestsSame DEF Keeps
  <2> QED BY <2>1, <2>2 DEF Good, Labelled
<1>4. Locked(q, d)'
  <2>1. \A f \in Granted(q, d) : Kind(Cur(f))' = Kind(Cur(f))
    BY DEF Kind
  <2> QED BY <2>1 DEF Good, Locked
<1> QED BY <1>1, <1>2, <1>3, <1>4 DEF Good

LEMMA ShapedSame ==
  ASSUME NEW q, NEW d, Shaped(q, d), entry'[q][d] = entry[q][d]
  PROVE  Shaped(q, d)'
BY DEF Shaped

\* Entities that the step is not about.
LEMMA KeepsElse ==
  ASSUME NEW g \in Guards, NEW q \in Processes, NEW d \in Entities, NEW e, Still(g),
         q # Proc(g) \/ d # e, \A y : y.value # e => (y \in Owned(g)' <=> y \in Owned(g))
  PROVE  Keeps(q, d)
<1>1. \A f \in Guards \ {g} : Owned(f)' = Owned(f)
  BY OwnedOther DEF Still
<1> QED BY <1>1 DEF Keeps

LEMMA GoodElse ==
  ASSUME NEW g \in Guards, NEW q \in Processes, NEW d \in Entities, NEW e, Still(g), Good(q, d),
         q # Proc(g) \/ d # e, \A y : y.value # e => (y \in Owned(g)' <=> y \in Owned(g)),
         pc[g] \in {"asked", "upgraded"} => Cur(g).value = e,
         pc'[g] \in {"asked", "upgraded"} => Cur(g)'.value = e,
         entry'[q][d] = entry[q][d], locks'[q][d] = locks[q][d]
  PROVE  Good(q, d)'
<1>1. Keeps(q, d)
  BY KeepsElse
<1>2. g \notin Granted(q, d)
  BY DEF Granted, Cur
<1>3. g \notin Granted(q, d)'
  BY DEF Granted, Cur
<1>4. Granted(q, d)' = Granted(q, d) /\ \A f \in Granted(q, d) : Cur(f)' = Cur(f)
  BY <1>2, <1>3, GrantedSame
<1> QED BY <1>1, <1>4, GoodSame DEF Still

-----------------------------------------------------------------------------
(* Threads that ask meanwhile                                              *)

\* The map gets no marks but g's.
Modest(g) ==
  \A q \in Processes, d \in Entities :
    /\ entry'[q][d].writer \in {entry[q][d].writer, Nobody, Me(g)}
    /\ entry'[q][d].readers \subseteq entry[q][d].readers \cup {Me(g)}

\* An iterator that is still valid points to an entry if it did.
KeepsIterators(g) ==
  \A f \in Guards \ {g} : pc[f] \in Upgrading /\ valid'[f] =>
    valid[f] /\ (entry[Proc(f)][Cur(f).value].there => entry'[Proc(f)][Cur(f).value].there)

LEMMA AskingOther ==
  ASSUME CodeTypes, NEW g \in Guards, NEW f \in Guards \ {g}, Still(g), Placed(f), Asking(f),
         Modest(g), KeepsIterators(g), Me(f) = Me(g) => ~Busy(f)
  PROVE  Asking(f)'
<1>1. pc'[f] = pc[f] /\ Cur(f)' = Cur(f)
  BY DEF Still, Cur
<1>2. Entry(f) = entry[Proc(f)][Cur(f).value] /\ Entry(f)' = entry'[Proc(f)][Cur(f)'.value]
  BY DEF Entry, Cur
<1>3. CASE pc[f] \in AskingPCs
  <2>1. Cur(f).value \in Entities /\ Proc(f) \in Processes /\ Me(f) \in Threads /\ Me(f) # Nobody
    BY <1>3, CurPlaced, ProcType, SafeByteRangesAssumption
  <2>2. Me(f) # Me(g)
    BY <1>3 DEF Busy, AskingPCs
  <2>3. /\ Entry(f)'.writer \in {Entry(f).writer, Nobody, Me(g)}
        /\ Entry(f)'.readers \subseteq Entry(f).readers \cup {Me(g)}
    BY <1>1, <1>2, <2>1 DEF Modest
  <2>4. pc[f] \in Upgrading /\ valid'[f] => valid[f] /\ (Entry(f).there => Entry(f)'.there)
    BY <1>1, <1>2 DEF KeepsIterators
  <2>5. (pc[f] \in Upgrading => Cur(f).exclusive /\ (valid[f] => Entry(f).there))'
    BY <1>1, <2>4 DEF Asking
  <2>6. (pc[f] \in {"ask", "asked", "upgrade", "upgraded"} => Entry(f).writer # Me(f))'
    BY <1>1, <2>1, <2>2, <2>3 DEF Asking
  <2>7. (pc[f] \in {"ask", "asked"} => Me(f) \notin Entry(f).readers)'
    BY <1>1, <2>2, <2>3 DEF Asking
  <2> QED BY <2>5, <2>6, <2>7 DEF Asking
<1>4. CASE pc[f] \notin AskingPCs
  BY <1>1, <1>4 DEF Asking, AskingPCs, Upgrading
<1> QED BY <1>3, <1>4

LEMMA NotAsking ==
  ASSUME NEW g, pc'[g] \notin AskingPCs
  PROVE  Asking(g)'
BY DEF Asking, AskingPCs, Upgrading

-----------------------------------------------------------------------------
(* The steps                                                               *)

LEMMA QuietStep ==
  ASSUME SInv, NEW g \in Guards, QuietMove(g), CodeTypes', Placed(g)',
         Busy(g) \/ \A f \in Guards : Me(f) = Me(g) => ~Busy(f)
  PROVE  Preserved
<1>1. /\ CodeTypes /\ OneThing /\ Compatible /\ \A f \in Guards : Placed(f) /\ Asking(f)
      /\ \A q \in Processes, d \in Entities : Shaped(q, d) /\ (Orderly(q, d) => Good(q, d))
  BY SInvParts
<1>2. /\ Still(g) /\ entry' = entry /\ locks' = locks /\ requests' = requests
      /\ \A f \in Guards \ {g} : valid'[f] = valid[f]
  BY DEF QuietMove, Quiet, Still
<1>3. OneThing'
  BY <1>1, <1>2, OneThingStep
<1>4. Compatible'
  BY <1>1, <1>2 DEF Compatible
<1>5. \A f \in Guards : Placed(f)'
  BY <1>1, <1>2, PlacedOther DEF Still
<1>6. ASSUME NEW f \in Guards \ {g} PROVE Asking(f)'
  <2>1. Modest(g)
    BY <1>2 DEF Modest
  <2>2. KeepsIterators(g)
    BY <1>2 DEF KeepsIterators
  <2>3. Me(f) = Me(g) => ~Busy(f)
    BY <1>1 DEF OneThing
  <2> QED BY <1>1, <1>2, <2>1, <2>2, <2>3, AskingOther
<1>7. Asking(g)'
  <2>1. CASE pc'[g] \notin AskingPCs
    BY <2>1, NotAsking
  <2>2. CASE pc'[g] \in AskingPCs
    <3>1. Cur(g)' = Cur(g) /\ Entry(g)' = Entry(g)
      BY <1>2, <2>2 DEF QuietMove, Cur, Entry
    <3>2. (pc[g] \in Upgrading => Cur(g).exclusive /\ (valid[g] => Entry(g).there))'
      BY <1>1, <3>1 DEF QuietMove, Asking
    <3>3. \/ pc[g] = pc'[g]
          \/ Entry(g).writer = Nobody /\ (pc'[g] = "ask" => ~Entry(g).there) /\ pc[g] = "entity"
          \/ pc'[g] \notin {"ask", "asked", "upgrade", "upgraded"}
      BY DEF QuietMove
    <3>4. CASE pc[g] = pc'[g]
      BY <1>1, <3>1, <3>2, <3>4 DEF Asking
    <3>5. CASE Entry(g).writer = Nobody /\ (pc'[g] = "ask" => ~Entry(g).there) /\ pc[g] = "entity"
      <4>1. Entry(g) = entry[Proc(g)][Cur(g).value] /\ Cur(g).value \in Entities /\ Proc(g) \in Processes
        BY <1>1, <3>5, CurPlaced, ProcType
      <4>2. pc'[g] = "ask" => Entry(g).readers = {}
        BY <1>1, <3>5, <4>1 DEF Shaped, Absent
      <4>3. Me(g) # Nobody /\ pc'[g] # "asked"
        BY <3>5, ProcType, SafeByteRangesAssumption DEF QuietMove
      <4> QED BY <3>1, <3>2, <3>5, <4>2, <4>3 DEF Asking
    <3>6. CASE pc'[g] \notin {"ask", "asked", "upgrade", "upgraded"}
      BY <3>2, <3>6 DEF Asking
    <3> QED BY <3>3, <3>4, <3>5, <3>6
  <2> QED BY <2>1, <2>2
<1>8. ASSUME NEW q \in Processes, NEW d \in Entities
      PROVE  Shaped(q, d)' /\ (Orderly(q, d) => Good(q, d)')
  <2>1. Shaped(q, d)'
    BY <1>1, <1>2, ShapedSame
  <2>2. Keeps(q, d)
    <3>1. \A f \in Guards : Owned(f)' = Owned(f)
      BY <1>2, OwnedOther DEF QuietMove, Still
    <3> QED BY <3>1 DEF Keeps
  <2>3. g \in Granted(q, d) \/ g \in Granted(q, d)' => pc'[g] = pc[g] /\ Cur(g)' = Cur(g)
    <3>1. g \in Granted(q, d) \/ g \in Granted(q, d)' =>
            pc[g] \in {"asked", "upgraded"} \/ pc'[g] \in {"asked", "upgraded"}
      BY DEF Granted
    <3> QED BY <3>1 DEF QuietMove, Cur
  <2>4. Granted(q, d)' = Granted(q, d) /\ \A f \in Granted(q, d) : Cur(f)' = Cur(f)
    BY <1>2, <2>3, GrantedSame
  <2>5. Orderly(q, d) => Good(q, d)'
    BY <1>1, <1>2, <2>2, <2>4, GoodSame
  <2> QED BY <2>1, <2>5
<1>9. \A f \in Guards : Placed(f)' /\ Asking(f)'
  BY <1>5, <1>6, <1>7
<1> QED BY <1>3, <1>4, <1>8, <1>9 DEF Preserved

\* A step of g that concerns entity e only.
LEMMA TouchStep ==
  ASSUME SInv, NEW g \in Guards, NEW e \in Entities, Busy(g), Still(g),
         CodeTypes', Placed(g)', Compatible', pc'[g] \notin AskingPCs,
         pc[g] \in {"asked", "upgraded"} => Cur(g).value = e,
         \A q \in Processes, d \in Entities :
           q # Proc(g) \/ d # e => entry'[q][d] = entry[q][d] /\ locks'[q][d] = locks[q][d],
         \A y : y.value # e => (y \in Owned(g)' <=> y \in Owned(g)),
         Modest(g), KeepsIterators(g), Shaped(Proc(g), e)',
         Orderly(Proc(g), e) /\ ~Crossing(Proc(g), e)' => Good(Proc(g), e)'
  PROVE  Preserved
<1>1. /\ CodeTypes /\ OneThing /\ Compatible /\ \A f \in Guards : Placed(f) /\ Asking(f)
      /\ \A q \in Processes, d \in Entities : Shaped(q, d) /\ (Orderly(q, d) => Good(q, d))
  BY SInvParts
<1>2. OneThing'
  BY <1>1, OneThingStep
<1>3. \A f \in Guards : Placed(f)'
  BY <1>1, PlacedOther DEF Still
<1>4. \A f \in Guards : Asking(f)'
  <2>1. \A f \in Guards \ {g} : Me(f) = Me(g) => ~Busy(f)
    BY <1>1 DEF OneThing
  <2>2. \A f \in Guards \ {g} : Asking(f)'
    BY <1>1, <2>1, AskingOther
  <2> QED BY <2>2, NotAsking
<1>5. ASSUME NEW q \in Processes, NEW d \in Entities
      PROVE  Shaped(q, d)' /\ (Orderly(q, d) /\ ~Crossing(q, d)' => Good(q, d)')
  <2>1. CASE q # Proc(g) \/ d # e
    <3>1. entry'[q][d] = entry[q][d] /\ locks'[q][d] = locks[q][d]
      BY <2>1
    <3>2. pc'[g] \notin {"asked", "upgraded"}
      BY DEF AskingPCs
    <3>3. Good(q, d) => Good(q, d)'
      BY <2>1, <3>1, <3>2, GoodElse
    <3>4. Shaped(q, d)'
      BY <1>1, <3>1, ShapedSame
    <3> QED BY <1>1, <3>3, <3>4
  <2>2. CASE q = Proc(g) /\ d = e
    BY <2>2
  <2> QED BY <2>1, <2>2
<1> QED BY <1>2, <1>3, <1>4, <1>5 DEF Preserved

\* While nobody crosses, who has been granted a byte is the only one with marks.
LEMMA OnlyUser ==
  ASSUME NEW p, NEW e, NEW g \in Granted(p, e), ~Crossing(p, e)
  PROVE  /\ \A f \in Granted(p, e) : Me(f) = Me(g)
         /\ entry[p][e].readers \subseteq {Me(g)}
         /\ entry[p][e].writer \in {Me(g), Nobody}
<1>1. \A t \in Users(p, e) : t = Me(g)
  BY DEF Crossing, Users
<1> QED BY <1>1 DEF Users

\* In an orderly process nobody crosses.
LEMMA OrderlyCalm ==
  ASSUME SInv, NEW p \in Processes, NEW e \in Entities, Orderly(p, e)
  PROVE  ~Crossing(p, e) /\ Good(p, e)
BY SInvParts DEF Remembered, Orderly

LEMMA AskStep ==
  ASSUME SInv, NEW g \in Guards, Ask(g)
  PROVE  Preserved
<1> DEFINE p == Proc(g)
           e == Cur(g).value
<1>1. /\ CodeTypes /\ OneThing /\ Compatible /\ \A f \in Guards : Placed(f) /\ Asking(f)
      /\ \A q \in Processes, d \in Entities : Shaped(q, d) /\ (Orderly(q, d) => Good(q, d))
  BY SInvParts
<1>2. /\ CodeTypes' /\ Still(g) /\ entry' = entry /\ valid' = valid
      /\ entities'[g] = entities[g] /\ n'[g] = n[g]
      /\ \/ locks' = locks /\ \/ pc[g] = "ask" /\ pc'[g] = "refused"
                              \/ pc[g] = "upgrade" /\ pc'[g] = "upgrade_refused"
         \/ /\ \/ pc[g] = "ask" /\ pc'[g] = "asked"
               \/ pc[g] = "upgrade" /\ pc'[g] = "upgraded"
            /\ Grantable(locks, p, {e}, Kind(Cur(g)))
            /\ \A q \in Processes, d \in Entities :
                 locks'[q][d] = IF q = p /\ d = e THEN Kind(Cur(g)) ELSE locks[q][d]
  BY <1>1, AskFrame
<1>3. pc[g] \in {"ask", "upgrade"} /\ pc[g] \in AskingPCs /\ Busy(g) /\ pc'[g] \in AskingPCs
  BY <1>2 DEF AskingPCs, Busy
<1>4. /\ e \in Entities /\ p \in Processes /\ Entry(g) = entry[p][e]
      /\ Cur(g).exclusive \in BOOLEAN /\ n[g] \in 1..Len(entities[g])
  BY <1>1, <1>3, CurPlaced, ProcType DEF Placed
<1>5. requests' = requests
  BY <1>2 DEF Still
<1>6. pc[g] \notin {"held", "unlock", "unlocking"} /\ pc'[g] \notin {"held", "unlock", "unlocking"}
  BY <1>2
<1>7. Owned(g)' = Owned(g)
  BY <1>2, <1>6, EarlySame
<1>8. Cur(g)' = Cur(g) /\ Entry(g)' = Entry(g)
  BY <1>2 DEF Cur, Entry
<1>9. OneThing'
  BY <1>1, <1>2, <1>3, OneThingStep
<1>10. \A f \in Guards : Placed(f)'
  <2>1. pc'[g] \notin {"idle", "enter", "sleep"} /\ pc[g] # "idle"
    BY <1>2
  <2>2. Placed(g)'
    BY <1>1, <1>2, <1>4, <1>5, <2>1, PlacedMoved
  <2> QED BY <1>1, <1>2, <1>5, <2>2, PlacedOther DEF Still
<1>11. Compatible'
  <2>1. CASE locks' = locks
    BY <1>1, <2>1 DEF Compatible
  <2>2. CASE /\ Grantable(locks, p, {e}, Kind(Cur(g)))
             /\ \A q \in Processes, d \in Entities :
                  locks'[q][d] = IF q = p /\ d = e THEN Kind(Cur(g)) ELSE locks[q][d]
    <3>1. DOMAIN locks = Processes
      BY <1>1, Types
    <3>2. \A q \in Processes \ {p} : ~Conflict(locks[q][e], Kind(Cur(g))) /\ ~Conflict(Kind(Cur(g)), locks[q][e])
      BY <2>2, <3>1 DEF Grantable, Conflict
    <3> QED BY <1>1, <2>2, <3>2 DEF Compatible
  <2> QED BY <1>2, <2>1, <2>2
<1> HIDE DEF p, e
<1>12. \A f \in Guards : Asking(f)'
  <2>1. ASSUME NEW f \in Guards \ {g} PROVE Asking(f)'
    <3>1. Modest(g)
      BY <1>2 DEF Modest
    <3>2. KeepsIterators(g)
      BY <1>2 DEF KeepsIterators
    <3>3. Me(f) = Me(g) => ~Busy(f)
      BY <1>1, <1>3 DEF OneThing
    <3> QED BY <1>1, <1>2, <3>1, <3>2, <3>3, AskingOther
  <2>2. Asking(g)'
    <3>1. (pc[g] \in Upgrading => Cur(g).exclusive /\ (valid[g] => Entry(g).there))'
      BY <1>1, <1>2, <1>8 DEF Asking, Upgrading
    <3>2. (pc[g] \in {"ask", "asked", "upgrade", "upgraded"} => Entry(g).writer # Me(g))'
      BY <1>1, <1>2, <1>8 DEF Asking
    <3>3. (pc[g] \in {"ask", "asked"} => Me(g) \notin Entry(g).readers)'
      BY <1>1, <1>2, <1>8 DEF Asking
    <3> QED BY <3>1, <3>2, <3>3 DEF Asking
  <2> QED BY <2>1, <2>2
<1>13. ASSUME NEW q \in Processes, NEW d \in Entities, Orderly(q, d), ~Crossing(q, d)' PROVE Good(q, d)'
  <2>1. Keeps(q, d) /\ Good(q, d)
    <3>1. \A f \in Guards : Owned(f)' = Owned(f)
      BY <1>2, <1>7, OwnedOther DEF Still
    <3> QED BY <1>1, <1>13, <3>1 DEF Keeps
  <2>2. CASE locks' = locks /\ pc'[g] \notin {"asked", "upgraded"}
    <3>1. g \notin Granted(q, d) /\ g \notin Granted(q, d)'
      BY <1>3, <2>2 DEF Granted
    <3>2. Granted(q, d)' = Granted(q, d) /\ \A f \in Granted(q, d) : Cur(f)' = Cur(f)
      BY <1>2, <3>1, GrantedSame
    <3> QED BY <1>2, <1>5, <2>1, <2>2, <3>2, GoodSame
  <2>3. CASE q # p \/ d # e
    <3>1. locks'[q][d] = locks[q][d]
      BY <1>2, <2>3
    <3>2. g \notin Granted(q, d) /\ g \notin Granted(q, d)'
      BY <1>3, <1>8, <2>3 DEF Granted, Cur, p, e
    <3>3. Granted(q, d)' = Granted(q, d) /\ \A f \in Granted(q, d) : Cur(f)' = Cur(f)
      BY <1>2, <3>2, GrantedSame
    <3> QED BY <1>2, <1>5, <2>1, <3>1, <3>3, GoodSame
  <2>4. CASE /\ q = p /\ d = e /\ pc'[g] \in {"asked", "upgraded"}
             /\ locks'[q][d] = Kind(Cur(g))
             /\ \/ pc[g] = "ask" /\ pc'[g] = "asked"
                \/ pc[g] = "upgrade" /\ pc'[g] = "upgraded"
    <3>1. g \in Granted(q, d)'
      <4>1. entities'[g][n'[g]].value = d /\ Proc(g) = q
        BY <1>8, <2>4 DEF Cur, p, e
      <4> QED BY <2>4, <4>1 DEF Granted
    <3>2. \A f \in Granted(q, d)' : f = g
      <4>1. SUFFICES ASSUME NEW f \in Granted(q, d)', f # g PROVE FALSE
        OBVIOUS
      <4>2. Me(f) = Me(g)
        BY <1>13, <3>1 DEF Crossing, Users
      <4>3. f \in Guards /\ pc'[f] \in {"asked", "upgraded"}
        BY DEF Granted
      <4>4. Busy(f)' /\ Busy(g)'
        BY <2>4, <4>3 DEF Busy
      <4> QED BY <1>9, <4>1, <4>2, <4>3, <4>4 DEF OneThing
    <3>3. Kind(Cur(g))' = Kind(Cur(g))
      BY <1>8 DEF Kind
    <3>4. \A f \in Granted(q, d)' : locks'[q][d] = Kind(Cur(f))'
      BY <2>4, <3>2, <3>3
    <3>5. Alone(q, d)' /\ Counted(q, d)' /\ Labelled(q, d)'
      <4>1. \A t \in Threads : Owners(q, d, t)' = Owners(q, d, t)
        BY <2>1, OwnersSame
      <4>2. Counted(q, d)'
        BY <1>2, <2>1, <4>1 DEF Good, Counted
      <4>3. Labelled(q, d)'
        <5>1. SUFFICES ASSUME NEW f \in Guards, NEW x \in Owned(f)', Proc(f) = q, x.value = d, ~Nests(Me(f), d)'
                       PROVE  IF x.exclusive THEN entry'[q][d].writer = Me(f) ELSE Me(f) \in entry'[q][d].readers
          BY DEF Labelled
        <5>2. x \in Owned(f) /\ ~Nests(Me(f), d)
          BY <1>5, <2>1, <5>1, NestsSame DEF Keeps
        <5> QED BY <1>2, <2>1, <5>1, <5>2 DEF Good, Labelled
      <4> QED BY <1>2, <2>1, <4>2, <4>3 DEF Good, Alone
    <3>6. Kind(Cur(g)) # "unlocked" /\ (pc[g] = "upgrade" => Kind(Cur(g)) = "exclusive")
      BY <1>1 DEF Kind, Asking, Upgrading
    <3>7. pc[g] = "ask" => ~entry[q][d].there
      <4>1. SUFFICES ASSUME pc[g] = "ask" PROVE ~entry[q][d].there
        OBVIOUS
      <4>2. entry[q][d].writer # Me(g) /\ Me(g) \notin entry[q][d].readers
        BY <1>1, <1>4, <2>4, <4>1 DEF Asking
      <4>3. entry[q][d].readers \subseteq {Me(g)} /\ entry[q][d].writer \in {Me(g), Nobody}
        BY <1>2, <1>13, <3>1 DEF Crossing, Users
      <4> QED BY <1>1, <4>2, <4>3 DEF Shaped
    <3>8. entry[q][d].writer # Nobody => entry[q][d].there
      BY <1>1 DEF Shaped, Absent
    <3>9. Locked(q, d)'
      <4>1. (entry[q][d].there => locks[q][d] # "unlocked")'
        BY <2>4, <3>6
      <4>2. (entry[q][d].writer # Nobody => locks[q][d] = "exclusive")'
        BY <1>2, <2>4, <3>6, <3>7, <3>8
      <4>3. Granted(q, d)' # {}
        BY <3>1
      <4> QED BY <3>4, <4>1, <4>2, <4>3 DEF Locked
    <3> QED BY <3>5, <3>9 DEF Good
  <2>5. \/ locks' = locks /\ pc'[g] \notin {"asked", "upgraded"}
        \/ /\ pc'[g] \in {"asked", "upgraded"} /\ locks'[p][e] = Kind(Cur(g))
           /\ \/ pc[g] = "ask" /\ pc'[g] = "asked"
              \/ pc[g] = "upgrade" /\ pc'[g] = "upgraded"
    <3>1. CASE locks' = locks /\ pc'[g] \in {"refused", "upgrade_refused"}
      BY <3>1
    <3>2. CASE /\ \/ pc[g] = "ask" /\ pc'[g] = "asked"
                  \/ pc[g] = "upgrade" /\ pc'[g] = "upgraded"
               /\ \A r \in Processes, c \in Entities :
                    locks'[r][c] = IF r = p /\ c = e THEN Kind(Cur(g)) ELSE locks[r][c]
      BY <1>4, <3>2
    <3> QED BY <1>2, <3>1, <3>2
  <2> QED BY <2>2, <2>3, <2>4, <2>5
<1>14. \A q \in Processes, d \in Entities : Shaped(q, d)'
  BY <1>1, <1>2, ShapedSame
<1> QED BY <1>2, <1>9, <1>10, <1>11, <1>12, <1>13, <1>14 DEF Preserved

\* Guard g has entity e, which it had not.
LEMMA OwnersGain ==
  ASSUME NEW g \in Guards, NEW e, ~Has(g, e), Has(g, e)', \A f \in Guards \ {g} : Owned(f)' = Owned(f)
  PROVE  /\ g \notin Owners(Proc(g), e, Me(g))
         /\ Owners(Proc(g), e, Me(g))' = Owners(Proc(g), e, Me(g)) \cup {g}
         /\ \A t \in Threads \ {Me(g)} : Owners(Proc(g), e, t)' = Owners(Proc(g), e, t)
<1>1. \A f \in Guards \ {g} : Has(f, e)' <=> Has(f, e)
  BY DEF Has
<1> QED BY <1>1 DEF Owners

\* Guard g no longer has entity e.
LEMMA OwnersLose ==
  ASSUME NEW g \in Guards, NEW e, Has(g, e), ~Has(g, e)', \A f \in Guards \ {g} : Owned(f)' = Owned(f)
  PROVE  /\ g \in Owners(Proc(g), e, Me(g))
         /\ Owners(Proc(g), e, Me(g))' = Owners(Proc(g), e, Me(g)) \ {g}
         /\ \A t \in Threads \ {Me(g)} : Owners(Proc(g), e, t)' = Owners(Proc(g), e, t)
<1>1. \A f \in Guards \ {g} : Has(f, e)' <=> Has(f, e)
  BY DEF Has
<1> QED BY <1>1 DEF Owners

\* Who is granted the byte, when g is not any more.
LEMMA GrantedLess ==
  ASSUME NEW g \in Guards, NEW p, NEW e, Still(g), pc'[g] \notin AskingPCs
  PROVE  /\ Granted(p, e)' = Granted(p, e) \ {g}
         /\ \A f \in Granted(p, e)' : Kind(Cur(f))' = Kind(Cur(f))
<1>1. \A f \in Guards : f \in Granted(p, e) <=>
        Proc(f) = p /\ pc[f] \in {"asked", "upgraded"} /\ Cur(f).value = e
  BY DEF Granted, Cur
<1>2. \A f \in Guards : f \in Granted(p, e)' <=>
        Proc(f) = p /\ pc'[f] \in {"asked", "upgraded"} /\ Cur(f)'.value = e
  BY DEF Granted, Cur
<1>3. \A f \in Guards \ {g} : pc'[f] = pc[f] /\ Cur(f)' = Cur(f)
  BY DEF Still, Cur
<1>4. pc'[g] \notin {"asked", "upgraded"}
  BY DEF AskingPCs
<1>5. Granted(p, e) \subseteq Guards /\ Granted(p, e)' \subseteq Guards
  BY DEF Granted
<1>6. Granted(p, e)' = Granted(p, e) \ {g}
  BY <1>1, <1>2, <1>3, <1>4, <1>5
<1>7. \A f \in Granted(p, e)' : Cur(f)' = Cur(f)
  BY <1>3, <1>5, <1>6
<1> QED BY <1>6, <1>7 DEF Kind

LEMMA JoinStep ==
  ASSUME SInv, NEW g \in Guards, JoinReaders(g)
  PROVE  Preserved
<1>1. /\ CodeTypes /\ OneThing /\ Compatible /\ \A f \in Guards : Placed(f) /\ Asking(f)
      /\ \A q \in Processes, d \in Entities : Shaped(q, d) /\ (Orderly(q, d) => Good(q, d))
  BY SInvParts
<1> DEFINE p == Proc(g)
<1>2. p \in Processes /\ Me(g) \in Threads /\ Me(g) # Nobody
  BY ProcType, SafeByteRangesAssumption
<1>3. /\ CodeTypes' /\ Still(g) /\ locks' = locks /\ valid' = valid /\ entities'[g] = entities[g]
      /\ pc[g] = "entity" /\ pc'[g] \in {"held", "entity"}
      /\ pc'[g] = "entity" => n'[g] \in 1..Len(entities[g])
      /\ Owned(g)' = Owned(g) \cup {Cur(g)}
      /\ Entry(g).there /\ ~Cur(g).exclusive /\ Me(g) \notin Entry(g).readers
      /\ Sets(g, Cur(g).value, [Entry(g) EXCEPT !.readers = @ \cup {Me(g)}], locks[p][Cur(g).value])
  BY <1>1, JoinFrame
<1>4. /\ Cur(g).value \in Entities /\ Entry(g) = entry[p][Cur(g).value]
      /\ \A x \in Owned(g) : x.value # Cur(g).value
  BY <1>1, <1>3, CurPlaced, OwnedIn
<1>5. PICK e \in Entities : e = Cur(g).value
  BY <1>4
<1>6. Busy(g) /\ pc'[g] \notin AskingPCs /\ pc'[g] \notin {"idle", "enter", "sleep", "undo", "deadlock"}
  BY <1>3 DEF Busy, AskingPCs
<1>7. \A q \in Processes, d \in Entities :
        q # p \/ d # e => entry'[q][d] = entry[q][d] /\ locks'[q][d] = locks[q][d]
  BY <1>3, <1>5 DEF Sets
<1>8. /\ entry'[p][e].readers = entry[p][e].readers \cup {Me(g)}
      /\ entry'[p][e].writer = entry[p][e].writer /\ entry'[p][e].there /\ entry[p][e].there
      /\ Me(g) \notin entry[p][e].readers
  <2>1. entry'[p][e] = [entry[p][e] EXCEPT !.readers = @ \cup {Me(g)}]
    BY <1>2, <1>3, <1>4, <1>5 DEF Sets
  <2>2. entry[p][e] \in Infos
    BY <1>1, <1>2, Types
  <2>3. entry[p][e].there /\ Me(g) \notin entry[p][e].readers
    BY <1>3, <1>4, <1>5
  <2> QED BY <2>1, <2>2, <2>3 DEF Infos
<1>9. entry[p][e].writer \in {Nobody, Me(g)}
  BY <1>4, <1>5 DEF JoinReaders
<1>10. requests' = requests /\ \A f \in Guards \ {g} : Owned(f)' = Owned(f)
  BY <1>3, OwnedOther DEF Still
<1>11. Placed(g)'
  BY <1>1, <1>3, <1>6, <1>10, PlacedMoved
<1>12. Compatible'
  BY <1>1, <1>3 DEF Compatible
<1>13. ~Has(g, e) /\ Has(g, e)'
  BY <1>3, <1>4, <1>5 DEF Has
<1>14. Modest(g)
  BY <1>7, <1>8 DEF Modest
<1>15. KeepsIterators(g)
  <2>1. \A f \in Guards : pc[f] \in Upgrading => Proc(f) \in Processes /\ Cur(f).value \in Entities
    BY <1>1, CurPlaced, ProcType DEF Upgrading, AskingPCs
  <2> QED BY <1>3, <1>7, <1>8, <2>1 DEF KeepsIterators
<1>16. Shaped(p, e)'
  BY <1>8 DEF Shaped
<1> HIDE DEF p
<1>17. ASSUME Orderly(p, e) PROVE Good(p, e)'
  <2>1. Good(p, e)
    BY <1>1, <1>2, <1>17
  <2>2. /\ g \notin Owners(p, e, Me(g))
        /\ Owners(p, e, Me(g))' = Owners(p, e, Me(g)) \cup {g}
        /\ \A t \in Threads \ {Me(g)} : Owners(p, e, t)' = Owners(p, e, t)
    BY <1>10, <1>13, OwnersGain DEF p
  <2>3. Alone(p, e)'
    BY <1>8, <1>9, <2>1 DEF Good, Alone
  <2>4. Counted(p, e)'
    <3>1. ASSUME NEW t \in Threads \ {Me(g)}
          PROVE  (t \in entry'[p][e].readers <=> t \in entry[p][e].readers) /\ Owners(p, e, t)' = Owners(p, e, t)
      BY <1>8, <2>2
    <3>2. CASE entry[p][e].writer = Me(g)
      <4>1. PICK f \in Guards : Owners(p, e, Me(g)) = {f}
        BY <1>2, <1>8, <2>1, <3>2 DEF Good, Counted
      <4>2. f # g /\ Owners(p, e, Me(g))' = {f, g}
        BY <2>2, <4>1
      <4> QED BY <1>8, <2>1, <3>1, <3>2, <4>2 DEF Good, Counted
    <3>3. CASE entry[p][e].writer # Me(g)
      <4>1. Owners(p, e, Me(g)) = {}
        BY <1>2, <1>8, <2>1, <3>3 DEF Good, Counted
      <4>2. Owners(p, e, Me(g))' = {g}
        BY <2>2, <4>1
      <4> QED BY <1>8, <2>1, <3>1, <3>3, <4>2 DEF Good, Counted
    <3> QED BY <3>2, <3>3
  <2>5. Labelled(p, e)'
    <3>1. SUFFICES ASSUME NEW f \in Guards, NEW x \in Owned(f)', Proc(f) = p, x.value = e, ~Nests(Me(f), e)'
                   PROVE  IF x.exclusive THEN entry'[p][e].writer = Me(f) ELSE Me(f) \in entry'[p][e].readers
      BY DEF Labelled
    <3>2. CASE x \in Owned(f)
      <4>1. ~Nests(Me(f), e)
        BY <1>10, <3>1, NestsSame
      <4> QED BY <1>8, <2>1, <3>1, <3>2, <4>1 DEF Good, Labelled
    <3>3. CASE f = g /\ x = Cur(g)
      BY <1>3, <1>8, <3>3
    <3> QED BY <1>3, <1>10, <3>2, <3>3
  <2>6. Locked(p, e)'
    <3>1. /\ Granted(p, e)' = Granted(p, e) \ {g}
          /\ \A f \in Granted(p, e)' : Kind(Cur(f))' = Kind(Cur(f))
      BY <1>3, <1>6, GrantedLess
    <3> QED BY <1>3, <1>8, <2>1, <3>1 DEF Good, Locked
  <2> QED BY <2>3, <2>4, <2>5, <2>6 DEF Good
<1>18. \A y : y.value # e => (y \in Owned(g)' <=> y \in Owned(g))
  BY <1>3, <1>5
<1> QED BY <1>3, <1>6, <1>7, <1>11, <1>12, <1>14, <1>15, <1>16, <1>17, <1>18, TouchStep DEF p

LEMMA InsertStep ==
  ASSUME SInv, NEW g \in Guards, Insert(g)
  PROVE  Preserved
<1>1. /\ CodeTypes /\ OneThing /\ Compatible /\ \A f \in Guards : Placed(f) /\ Asking(f)
      /\ \A q \in Processes, d \in Entities : Shaped(q, d) /\ (Orderly(q, d) => Good(q, d))
  BY SInvParts
<1> DEFINE p == Proc(g)
<1>2. p \in Processes /\ Me(g) \in Threads /\ Me(g) # Nobody
  BY ProcType, SafeByteRangesAssumption
<1>3. /\ CodeTypes' /\ Still(g) /\ valid' = valid /\ entities'[g] = entities[g] /\ pc[g] = "asked"
      /\ \/ /\ ~Entry(g).there /\ pc'[g] \in {"held", "entity"}
            /\ pc'[g] = "entity" => n'[g] \in 1..Len(entities[g])
            /\ Owned(g)' = Owned(g) \cup {Cur(g)}
            /\ Sets(g, Cur(g).value, NewInfo(g), locks[p][Cur(g).value])
         \/ /\ Entry(g).there /\ pc'[g] = "entity" /\ n'[g] = n[g] /\ entry' = entry
            /\ Sets(g, Cur(g).value, Entry(g), "unlocked")
  BY <1>1, InsertFrame
<1>4. /\ Cur(g).value \in Entities /\ Entry(g) = entry[p][Cur(g).value]
      /\ Cur(g).exclusive \in BOOLEAN /\ n[g] \in 1..Len(entities[g])
      /\ \A x \in Owned(g) : x.value # Cur(g).value
  BY <1>1, <1>3, CurPlaced, OwnedIn DEF AskingPCs, Placed
<1>5. PICK e \in Entities : e = Cur(g).value
  BY <1>4
<1>6. Busy(g) /\ pc'[g] \notin AskingPCs /\ pc'[g] \notin {"idle", "enter", "sleep", "undo", "deadlock"}
  BY <1>3 DEF Busy, AskingPCs
<1>7. \A q \in Processes, d \in Entities :
        q # p \/ d # e => entry'[q][d] = entry[q][d] /\ locks'[q][d] = locks[q][d]
  BY <1>3, <1>5 DEF Sets
<1>8. requests' = requests /\ \A f \in Guards \ {g} : Owned(f)' = Owned(f)
  BY <1>3, OwnedOther DEF Still
<1>9. Placed(g)'
  <2>1. pc'[g] \in AskingPCs \cup {"entity", "undo", "deadlock"} => n'[g] \in 1..Len(entities[g])
    BY <1>3, <1>4, <1>6
  <2> QED BY <1>1, <1>3, <1>6, <1>8, <2>1, PlacedMoved
<1>10. g \in Granted(p, e)
  BY <1>3, <1>5 DEF Granted, Cur
<1>11. /\ Granted(p, e)' = Granted(p, e) \ {g}
       /\ \A f \in Granted(p, e)' : Kind(Cur(f))' = Kind(Cur(f))
  BY <1>3, <1>6, GrantedLess
<1>12. Shaped(p, e) /\ entry[p][e] \in Infos
  BY <1>1, <1>2, Types
<1> HIDE DEF p
<1>13. /\ Compatible' /\ Modest(g) /\ KeepsIterators(g) /\ Shaped(p, e)'
       /\ Orderly(p, e) => Good(p, e)'
       /\ \A y : y.value # e => (y \in Owned(g)' <=> y \in Owned(g))
  <2>1. CASE /\ ~Entry(g).there /\ Owned(g)' = Owned(g) \cup {Cur(g)}
             /\ Sets(g, Cur(g).value, NewInfo(g), locks[p][Cur(g).value])
    <3>1. \A q \in Processes, d \in Entities : locks'[q][d] = locks[q][d]
      BY <1>5, <2>1 DEF Sets, p
    <3>2. Compatible'
      BY <1>1, <3>1 DEF Compatible
    <3>3. entry[p][e] = Absent
      BY <1>4, <1>5, <1>12, <2>1 DEF Shaped
    <3>4. entry'[p][e] = NewInfo(g)
      BY <1>2, <1>5, <2>1 DEF Sets, p
    <3>5. /\ entry'[p][e].there
          /\ entry'[p][e].writer = IF Cur(g).exclusive THEN Me(g) ELSE Nobody
          /\ entry'[p][e].readers = IF Cur(g).exclusive THEN {} ELSE {Me(g)}
      BY <3>4 DEF NewInfo
    <3>6. Modest(g)
      BY <1>7, <3>5 DEF Modest
    <3>7. KeepsIterators(g)
      <4>1. \A f \in Guards : pc[f] \in Upgrading => Proc(f) \in Processes /\ Cur(f).value \in Entities
        BY <1>1, CurPlaced, ProcType DEF Upgrading, AskingPCs
      <4> QED BY <1>3, <1>7, <3>5, <4>1 DEF KeepsIterators
    <3>8. Shaped(p, e)'
      BY <1>2, <3>5 DEF Shaped
    <3>9. ASSUME Orderly(p, e) PROVE Good(p, e)'
      <4>1. Good(p, e)
        BY <1>1, <1>2, <3>9
      <4>2. \A t \in Threads : Owners(p, e, t) = {}
        <5>1. entry[p][e].writer = Nobody /\ entry[p][e].readers = {}
          BY <3>3 DEF Absent
        <5> QED BY <4>1, <5>1, SafeByteRangesAssumption DEF Good, Counted
      <4>3. ~Has(g, e) /\ Has(g, e)'
        BY <1>4, <1>5, <2>1 DEF Has
      <4>4. /\ Owners(p, e, Me(g))' = {g}
            /\ \A t \in Threads \ {Me(g)} : Owners(p, e, t)' = {}
        BY <1>2, <1>8, <4>2, <4>3, OwnersGain DEF p
      <4>5. Alone(p, e)'
        BY <3>5 DEF Alone
      <4>6. Counted(p, e)'
        BY <1>2, <3>5, <4>4, SafeByteRangesAssumption DEF Counted
      <4>7. Labelled(p, e)'
        <5>1. SUFFICES ASSUME NEW f \in Guards, NEW x \in Owned(f)', Proc(f) = p, x.value = e
                       PROVE  IF x.exclusive THEN entry'[p][e].writer = Me(f) ELSE Me(f) \in entry'[p][e].readers
          BY DEF Labelled
        <5>2. Owners(p, e, Me(f)) = {}
          BY <4>2, ProcType
        <5>3. f = g
          <6>1. f # g => x \in Owned(f)
            BY <1>8
          <6>2. x \notin Owned(f)
            BY <5>1, <5>2 DEF Owners, Has
          <6> QED BY <6>1, <6>2
        <5>4. x = Cur(g)
          BY <1>4, <1>5, <2>1, <5>1, <5>3
        <5> QED BY <3>5, <5>3, <5>4
      <4>8. Locked(p, e)'
        <5>1. locks'[p][e] = locks[p][e] /\ locks[p][e] = Kind(Cur(g))
          BY <1>2, <1>10, <3>1, <4>1 DEF Good, Locked
        <5>2. \A f \in Granted(p, e)' : locks'[p][e] = Kind(Cur(f))'
          BY <1>11, <4>1, <5>1 DEF Good, Locked
        <5>3. locks'[p][e] # "unlocked" /\ (entry'[p][e].writer # Nobody => locks'[p][e] = "exclusive")
          BY <3>5, <5>1 DEF Kind
        <5> QED BY <3>5, <5>2, <5>3 DEF Locked
      <4> QED BY <4>5, <4>6, <4>7, <4>8 DEF Good
    <3>10. \A y : y.value # e => (y \in Owned(g)' <=> y \in Owned(g))
      BY <1>5, <2>1
    <3> QED BY <3>2, <3>6, <3>7, <3>8, <3>9, <3>10
  <2>2. CASE /\ Entry(g).there /\ pc'[g] = "entity" /\ n'[g] = n[g] /\ entry' = entry
             /\ Sets(g, Cur(g).value, Entry(g), "unlocked")
    <3>1. Compatible'
      <4>1. \A q \in Processes, d \in Entities : locks'[q][d] \in {"unlocked", locks[q][d]}
        BY <1>5, <2>2 DEF Sets, p
      <4> QED BY <1>1, <4>1 DEF Compatible, Conflict
    <3>2. Owned(g)' = Owned(g)
      BY <1>3, <2>2, EarlySame
    <3>3. Modest(g) /\ KeepsIterators(g)
      BY <1>3, <2>2 DEF Modest, KeepsIterators
    <3>4. Shaped(p, e)'
      BY <1>12, <2>2, ShapedSame
    <3>5. ~Orderly(p, e)
      <4>1. SUFFICES ASSUME Orderly(p, e) PROVE FALSE
        OBVIOUS
      <4>2. entry[p][e].readers \subseteq {Me(g)} /\ entry[p][e].writer \in {Me(g), Nobody}
        BY <1>2, <1>10, <4>1, OrderlyCalm, OnlyUser
      <4>3. entry[p][e].writer # Me(g) /\ Me(g) \notin entry[p][e].readers
        BY <1>1, <1>3, <1>4, <1>5 DEF Asking
      <4> QED BY <1>4, <1>5, <1>12, <2>2, <4>2, <4>3 DEF Shaped
    <3> QED BY <3>1, <3>2, <3>3, <3>4, <3>5
  <2> QED BY <1>3, <2>1, <2>2 DEF p
<1>14. pc[g] \in {"asked", "upgraded"} => Cur(g).value = e
  BY <1>5
<1> QED BY <1>3, <1>6, <1>7, <1>9, <1>13, <1>14, TouchStep DEF p

LEMMA UpgradedStep ==
  ASSUME SInv, NEW g \in Guards, Upgraded(g)
  PROVE  Preserved
<1>1. /\ CodeTypes /\ OneThing /\ Compatible /\ \A f \in Guards : Placed(f) /\ Asking(f) /\ Noticed(f)
      /\ \A q \in Processes, d \in Entities : Shaped(q, d) /\ (Orderly(q, d) => Good(q, d))
  BY SInvParts
<1> DEFINE p == Proc(g)
<1>2. p \in Processes /\ Me(g) \in Threads /\ Me(g) # Nobody
  BY ProcType, SafeByteRangesAssumption
<1>3. /\ CodeTypes' /\ Still(g) /\ locks' = locks /\ valid' = valid /\ entities'[g] = entities[g]
      /\ pc[g] = "upgraded" /\ pc'[g] \in {"held", "entity"}
      /\ pc'[g] = "entity" => n'[g] \in 1..Len(entities[g])
      /\ Owned(g)' = Owned(g) \cup {Cur(g)}
      /\ \/ /\ valid[g]
            /\ Sets(g, Cur(g).value, [Entry(g) EXCEPT !.writer = Me(g)], locks[p][Cur(g).value])
         \/ ~valid[g] /\ entry' = entry
  BY <1>1, UpgradedFrame
<1>4. /\ Cur(g).value \in Entities /\ Entry(g) = entry[p][Cur(g).value] /\ Cur(g) \in Wants(g)
      /\ \A x \in Owned(g) : x.value # Cur(g).value
      /\ Cur(g).exclusive /\ (valid[g] => Entry(g).there) /\ Entry(g).writer # Me(g)
  BY <1>1, <1>3, CurPlaced, OwnedIn DEF AskingPCs, Asking, Upgrading
<1>5. PICK e \in Entities : e = Cur(g).value
  BY <1>4
<1>6. Busy(g) /\ pc'[g] \notin AskingPCs /\ pc'[g] \notin {"idle", "enter", "sleep", "undo", "deadlock"}
  BY <1>3 DEF Busy, AskingPCs
<1>7. \A q \in Processes, d \in Entities :
        q # p \/ d # e => entry'[q][d] = entry[q][d] /\ locks'[q][d] = locks[q][d]
  BY <1>3, <1>5 DEF Sets
<1>8. requests' = requests /\ \A f \in Guards \ {g} : Owned(f)' = Owned(f)
  BY <1>3, OwnedOther DEF Still
<1>9. Placed(g)'
  BY <1>1, <1>3, <1>6, <1>8, PlacedMoved
<1>10. g \in Granted(p, e)
  BY <1>3, <1>5 DEF Granted, Cur
<1>11. /\ Granted(p, e)' = Granted(p, e) \ {g}
       /\ \A f \in Granted(p, e)' : Kind(Cur(f))' = Kind(Cur(f))
  BY <1>3, <1>6, GrantedLess
<1>12. Shaped(p, e) /\ entry[p][e] \in Infos
  BY <1>1, <1>2, Types
<1>13. Compatible'
  BY <1>1, <1>3 DEF Compatible
<1>14. \/ entry' = entry /\ ~valid[g]
       \/ /\ valid[g] /\ entry'[p][e].readers = entry[p][e].readers
          /\ entry'[p][e].writer = Me(g) /\ entry'[p][e].there
  <2>1. CASE entry'[p][e] = [entry[p][e] EXCEPT !.writer = Me(g)] /\ valid[g]
    BY <1>4, <1>5, <1>12, <2>1 DEF Infos
  <2>2. CASE valid[g] /\ Sets(g, Cur(g).value, [Entry(g) EXCEPT !.writer = Me(g)], locks[p][Cur(g).value])
    <3>1. entry'[p][e] = [entry[p][e] EXCEPT !.writer = Me(g)]
      BY <1>2, <1>4, <1>5, <2>2 DEF Sets
    <3> QED BY <2>1, <2>2, <3>1
  <2> QED BY <1>3, <2>2
<1>15. Modest(g)
  BY <1>7, <1>14 DEF Modest
<1>16. KeepsIterators(g)
  <2>1. \A f \in Guards : pc[f] \in Upgrading => Proc(f) \in Processes /\ Cur(f).value \in Entities
    BY <1>1, CurPlaced, ProcType DEF Upgrading, AskingPCs
  <2> QED BY <1>3, <1>7, <1>14, <2>1 DEF KeepsIterators
<1>17. Shaped(p, e)'
  BY <1>2, <1>12, <1>14 DEF Shaped
<1>18. \A y : y.value # e => (y \in Owned(g)' <=> y \in Owned(g))
  BY <1>3, <1>5
<1> HIDE DEF p
<1>19. ASSUME Orderly(p, e) PROVE Good(p, e)'
  <2>1. Good(p, e) /\ ~Crossing(p, e)
    BY <1>2, <1>19, OrderlyCalm
  <2>2. valid[g]
    BY <1>1, <1>3, <1>19 DEF Noticed, Orderly, p
  <2>3. /\ entry'[p][e].readers = entry[p][e].readers
        /\ entry'[p][e].writer = Me(g) /\ entry'[p][e].there
    BY <1>14, <2>2
  <2>4. entry[p][e].readers = {Me(g)} /\ entry[p][e].writer = Nobody
    <3>1. entry[p][e].readers \subseteq {Me(g)} /\ entry[p][e].writer \in {Me(g), Nobody}
      BY <1>10, <2>1, OnlyUser
    <3>2. entry[p][e].there /\ entry[p][e].writer # Me(g)
      BY <1>4, <1>5, <2>2 DEF p
    <3> QED BY <1>12, <3>1, <3>2 DEF Shaped
  <2>5. ~Has(g, e) /\ Has(g, e)'
    BY <1>3, <1>4, <1>5 DEF Has
  <2>6. PICK f \in Guards : Owners(p, e, Me(g)) = {f}
    BY <1>2, <2>1, <2>4 DEF Good, Counted
  <2>7. \A t \in Threads \ {Me(g)} : Owners(p, e, t) = {}
    BY <2>1, <2>4, SafeByteRangesAssumption DEF Good, Counted
  <2>8. /\ f # g /\ Owners(p, e, Me(g))' = {f, g}
        /\ \A t \in Threads \ {Me(g)} : Owners(p, e, t)' = {}
    BY <1>8, <2>5, <2>6, <2>7, OwnersGain DEF p
  <2>9. Alone(p, e)'
    BY <2>3, <2>4 DEF Alone
  <2>10. Counted(p, e)'
    BY <1>2, <2>3, <2>4, <2>8 DEF Counted
  <2>11. Labelled(p, e)'
    <3>1. SUFFICES ASSUME NEW h \in Guards, NEW x \in Owned(h)', Proc(h) = p, x.value = e, ~Nests(Me(h), e)'
                   PROVE  FALSE
      BY DEF Labelled
    <3>2. h \in Owners(p, e, Me(h))'
      BY <3>1 DEF Owners, Has
    <3>3. Me(h) = Me(g)
      BY <2>8, <3>2, ProcType
    <3>4. Uses(g, e)
      BY <1>4, <1>5, WantsUses
    <3>5. Me(f) = Me(g) /\ Uses(f, e)
      BY <1>1, <2>6, OwnersUse
    <3>6. Nests(Me(g), e)
      BY <2>8, <3>4, <3>5 DEF Nests
    <3> QED BY <1>8, <3>1, <3>3, <3>6, NestsSame
  <2>12. Locked(p, e)'
    <3>1. locks'[p][e] = locks[p][e] /\ locks[p][e] = "exclusive"
      BY <1>3, <1>4, <1>10, <2>1 DEF Good, Locked, Kind
    <3>2. \A h \in Granted(p, e)' : locks'[p][e] = Kind(Cur(h))'
      BY <1>11, <2>1, <3>1 DEF Good, Locked
    <3> QED BY <2>3, <3>1, <3>2 DEF Locked
  <2> QED BY <2>9, <2>10, <2>11, <2>12 DEF Good
<1>20. pc[g] \in {"asked", "upgraded"} => Cur(g).value = e
  BY <1>5
<1> QED BY <1>3, <1>6, <1>7, <1>9, <1>13, <1>15, <1>16, <1>17, <1>18, <1>19, <1>20, TouchStep DEF p
\* What becomes of the entry.
LEMMA DroppedEntry ==
  ASSUME CodeTypes, NEW g \in Guards, NEW e \in Entities, Dropped(g, e), entry[Proc(g)][e].there
  PROVE  \/ /\ Left(g, e) = {} /\ entry'[Proc(g)][e] = Absent /\ locks'[Proc(g)][e] = "unlocked"
         \/ /\ Left(g, e) # {} /\ entry'[Proc(g)][e].there /\ entry'[Proc(g)][e].readers = Left(g, e)
            /\ \/ /\ entry[Proc(g)][e].writer = Me(g) /\ entry'[Proc(g)][e].writer = Nobody
                  /\ locks'[Proc(g)][e] = "shared"
               \/ /\ entry[Proc(g)][e].writer # Me(g)
                  /\ entry'[Proc(g)][e].writer = entry[Proc(g)][e].writer
                  /\ locks'[Proc(g)][e] = locks[Proc(g)][e]
<1> DEFINE info == entry[Proc(g)][e]
<1>1. info \in Infos /\ Proc(g) \in Processes
  BY ProcType, Types
<1>2. CASE Left(g, e) = {} /\ Sets(g, e, Absent, "unlocked")
  BY <1>1, <1>2 DEF Sets
<1>3. CASE /\ Left(g, e) # {} /\ info.writer = Me(g)
           /\ Sets(g, e, [info EXCEPT !.writer = Nobody], "shared")
  <2>1. entry'[Proc(g)][e] = [info EXCEPT !.writer = Nobody] /\ locks'[Proc(g)][e] = "shared"
    BY <1>1, <1>3 DEF Sets
  <2>2. Left(g, e) = info.readers
    BY <1>3 DEF Left
  <2> HIDE DEF info
  <2>3. /\ entry'[Proc(g)][e].readers = info.readers /\ entry'[Proc(g)][e].writer = Nobody
        /\ entry'[Proc(g)][e].there = info.there
    BY <1>1, <2>1 DEF Infos
  <2> QED BY <1>3, <2>1, <2>2, <2>3 DEF info
<1>4. CASE /\ Left(g, e) # {} /\ info.writer # Me(g)
           /\ Sets(g, e, [info EXCEPT !.readers = Left(g, e)], locks[Proc(g)][e])
  <2>1. entry'[Proc(g)][e] = [info EXCEPT !.readers = Left(g, e)] /\ locks'[Proc(g)][e] = locks[Proc(g)][e]
    BY <1>1, <1>4 DEF Sets
  <2> HIDE DEF info
  <2>3. /\ entry'[Proc(g)][e].readers = Left(g, e) /\ entry'[Proc(g)][e].writer = info.writer
        /\ entry'[Proc(g)][e].there = info.there
    BY <1>1, <2>1 DEF Infos
  <2> QED BY <1>4, <2>1, <2>3 DEF info
<1> QED BY <1>2, <1>3, <1>4 DEF Dropped

\* Nobody has entity e.
LEMMA GoodGone ==
  ASSUME NEW p, NEW e, entry'[p][e] = Absent, locks'[p][e] = "unlocked",
         Granted(p, e)' = {}, \A t \in Threads : Owners(p, e, t)' = {}
  PROVE  Good(p, e)'
<1>1. Absent.readers = {} /\ Absent.writer = Nobody /\ Absent.there = FALSE
  BY DEF Absent
<1>2. Alone(p, e)'
  BY <1>1 DEF Alone
<1>3. Counted(p, e)'
  BY <1>1, SafeByteRangesAssumption DEF Counted
<1>4. Labelled(p, e)'
  <2>1. SUFFICES ASSUME NEW f \in Guards, NEW x \in Owned(f)', Proc(f) = p, x.value = e PROVE FALSE
    BY DEF Labelled
  <2>2. f \in Owners(p, e, Me(f))'
    BY <2>1 DEF Owners, Has
  <2> QED BY <2>2, ProcType
<1>5. Locked(p, e)'
  BY <1>1 DEF Locked
<1> QED BY <1>2, <1>3, <1>4, <1>5 DEF Good

LEMMA DropStep ==
  ASSUME SInv, NEW g \in Guards, CodeTypes', Still(g), Placed(g)',
         pc[g] \in {"undo", "deadlock", "unlocking"}, pc'[g] = pc[g],
         NEW e \in Entities, NEW x \in Owned(g), x.value = e, Owned(g)' = Owned(g) \ {x},
         entry[Proc(g)][e].there, Dropped(g, e)
  PROVE  Preserved
<1>1. /\ CodeTypes /\ OneThing /\ Compatible /\ \A f \in Guards : Placed(f) /\ Asking(f)
      /\ \A q \in Processes, d \in Entities : Shaped(q, d) /\ (Orderly(q, d) => Good(q, d))
  BY SInvParts
<1> DEFINE p == Proc(g)
<1>2. p \in Processes /\ Me(g) \in Threads /\ Me(g) # Nobody
  BY ProcType, SafeByteRangesAssumption
<1>3. Busy(g) /\ pc'[g] \notin AskingPCs /\ pc[g] \notin {"asked", "upgraded"}
  BY DEF Busy, AskingPCs
<1>4. requests' = requests /\ \A f \in Guards \ {g} : Owned(f)' = Owned(f)
  BY OwnedOther DEF Still
<1>5. \A q \in Processes, d \in Entities :
        q # p \/ d # e => entry'[q][d] = entry[q][d] /\ locks'[q][d] = locks[q][d]
  BY DEF Dropped, Sets
<1>6. \/ /\ Left(g, e) = {} /\ entry'[p][e] = Absent /\ locks'[p][e] = "unlocked"
      \/ /\ Left(g, e) # {} /\ entry'[p][e].there /\ entry'[p][e].readers = Left(g, e)
         /\ \/ /\ entry[p][e].writer = Me(g) /\ entry'[p][e].writer = Nobody
               /\ locks'[p][e] = "shared"
            \/ /\ entry[p][e].writer # Me(g)
               /\ entry'[p][e].writer = entry[p][e].writer
               /\ locks'[p][e] = locks[p][e]
  BY <1>1, DroppedEntry
<1>7. Absent.readers = {} /\ Absent.writer = Nobody /\ Absent.there = FALSE
  BY DEF Absent
<1>8. Left(g, e) = IF entry[p][e].writer = Me(g) THEN entry[p][e].readers ELSE entry[p][e].readers \ {Me(g)}
  BY DEF Left
<1>9. Compatible'
  <2>1. CASE \A q \in Processes, d \in Entities : locks'[q][d] \in {"unlocked", locks[q][d]}
    BY <1>1, <2>1 DEF Compatible, Conflict
  <2>2. CASE Grantable(locks, p, {e}, "shared") /\ locks'[p][e] = "shared"
    <3>1. DOMAIN locks = Processes
      BY <1>1, Types
    <3>2. \A q \in Processes \ {p} : ~Conflict(locks[q][e], "shared") /\ ~Conflict("shared", locks[q][e])
      BY <2>2, <3>1 DEF Grantable, Conflict
    <3> QED BY <1>1, <1>5, <2>2, <3>2 DEF Compatible
  <2>3. \/ locks'[p][e] = "unlocked" \/ locks'[p][e] = locks[p][e]
        \/ Grantable(locks, p, {e}, "shared") /\ locks'[p][e] = "shared"
    BY <1>2 DEF Dropped, Sets
  <2> QED BY <1>5, <2>1, <2>2, <2>3
<1>10. Modest(g)
  <2>1. entry'[p][e].writer \in {entry[p][e].writer, Nobody}
    BY <1>6, <1>7
  <2>2. entry'[p][e].readers \subseteq entry[p][e].readers
    BY <1>6, <1>7, <1>8
  <2> QED BY <1>5, <2>1, <2>2 DEF Modest
<1>11. KeepsIterators(g)
  <2>1. SUFFICES ASSUME NEW f \in Guards \ {g}, pc[f] \in Upgrading, valid'[f]
                 PROVE  valid[f] /\ (entry[Proc(f)][Cur(f).value].there => entry'[Proc(f)][Cur(f).value].there)
    BY DEF KeepsIterators
  <2>2. Proc(f) \in Processes /\ Cur(f).value \in Entities
    BY <1>1, <2>1, CurPlaced, ProcType DEF Upgrading, AskingPCs
  <2>3. valid[f] /\ (Left(g, e) = {} => ~(Proc(f) = p /\ Cur(f).value = e))
    BY <2>1 DEF Dropped
  <2>4. CASE Proc(f) = p /\ Cur(f).value = e
    BY <1>6, <2>3, <2>4
  <2>5. CASE Proc(f) # p \/ Cur(f).value # e
    BY <1>5, <2>2, <2>3, <2>5
  <2> QED BY <2>4, <2>5
<1>12. Shaped(p, e)'
  BY <1>6, <1>7 DEF Shaped
<1>13. Has(g, e) /\ ~Has(g, e)'
  <2>1. Placed(g) /\ Owned(g) \subseteq Range(entities[g])
    BY <1>1, OwnedIn
  <2>2. \A y, z \in Range(entities[g]) : y.value = z.value => y = z
    BY <2>1 DEF Placed, Range
  <2>3. \A y \in Owned(g)' : y.value # e
    BY <2>1, <2>2
  <2> QED BY <2>3 DEF Has
<1>14. /\ Granted(p, e)' = Granted(p, e) \ {g}
       /\ g \in Owners(p, e, Me(g))
       /\ Owners(p, e, Me(g))' = Owners(p, e, Me(g)) \ {g}
       /\ \A t \in Threads \ {Me(g)} : Owners(p, e, t)' = Owners(p, e, t)
  BY <1>3, <1>4, <1>13, OwnersLose, GrantedLess
<1>15. \A y : y.value # e => (y \in Owned(g)' <=> y \in Owned(g))
  OBVIOUS
<1> HIDE DEF p
<1>16. ASSUME Orderly(p, e) PROVE Good(p, e)'
  <2>1. Good(p, e) /\ ~Crossing(p, e)
    BY <1>2, <1>16, OrderlyCalm
  <2>2. entry[p][e].writer = Me(g) \/ Me(g) \in entry[p][e].readers
    BY <1>2, <1>14, <2>1 DEF Good, Counted
  <2>3. Granted(p, e)' = {}
    <3>1. SUFFICES ASSUME NEW f \in Granted(p, e) PROVE FALSE
      BY <1>14
    <3>2. entry[p][e].readers \subseteq {Me(f)} /\ entry[p][e].writer \in {Me(f), Nobody}
      BY <2>1, OnlyUser
    <3>3. f \in Guards /\ Me(f) = Me(g) /\ Busy(f) /\ pc[f] \in {"asked", "upgraded"}
      BY <1>2, <2>2, <3>2 DEF Granted, Busy
    <3> QED BY <1>1, <1>3, <3>3 DEF OneThing
  <2>4. CASE entry[p][e].writer = Me(g) /\ Me(g) \in entry[p][e].readers
    <3>1. entry[p][e].readers = {Me(g)}
      BY <2>1, <2>4, <1>2 DEF Good, Alone
    <3>2. /\ entry'[p][e].there /\ entry'[p][e].readers = {Me(g)} /\ entry'[p][e].writer = Nobody
          /\ locks'[p][e] = "shared"
      BY <1>6, <1>8, <2>4, <3>1
    <3>3. PICK f, h \in Guards : f # h /\ Owners(p, e, Me(g)) = {f, h}
      BY <1>2, <2>1, <2>4 DEF Good, Counted
    <3>4. \E k \in Guards : Owners(p, e, Me(g))' = {k}
      <4>1. g = f \/ g = h
        BY <1>14, <3>3
      <4> QED BY <1>14, <3>3, <4>1
    <3>5. \A t \in Threads \ {Me(g)} : Owners(p, e, t)' = {}
      BY <1>14, <2>1, <2>4, <3>1 DEF Good, Counted
    <3>6. Alone(p, e)'
      BY <3>2 DEF Alone
    <3>7. Counted(p, e)'
      BY <1>2, <3>2, <3>4, <3>5, SafeByteRangesAssumption DEF Counted
    <3>8. Labelled(p, e)'
      <4>1. SUFFICES ASSUME NEW k \in Guards, NEW y \in Owned(k)', Proc(k) = p, y.value = e, ~Nests(Me(k), e)'
                     PROVE  FALSE
        BY DEF Labelled
      <4>2. k \in Owners(p, e, Me(k))'
        BY <4>1 DEF Owners, Has
      <4>3. Me(k) = Me(g)
        BY <3>5, <4>2, ProcType
      <4>4. Me(f) = Me(g) /\ Uses(f, e) /\ Me(h) = Me(g) /\ Uses(h, e)
        BY <1>1, <3>3, OwnersUse
      <4>5. Nests(Me(g), e)
        BY <3>3, <4>4 DEF Nests
      <4> QED BY <1>4, <4>1, <4>3, <4>5, NestsSame
    <3>9. Locked(p, e)'
      BY <2>3, <3>2 DEF Locked
    <3> QED BY <3>6, <3>7, <3>8, <3>9 DEF Good
  <2>5. CASE ~(entry[p][e].writer = Me(g) /\ Me(g) \in entry[p][e].readers)
    <3>1. Owners(p, e, Me(g)) = {g}
      <4>1. \E f \in Guards : Owners(p, e, Me(g)) = {f}
        BY <1>2, <2>1, <2>2, <2>5 DEF Good, Counted
      <4> QED BY <1>14, <4>1
    <3>2. Owners(p, e, Me(g))' = {}
      BY <1>14, <3>1
    <3>3. CASE Left(g, e) = {}
      <4>1. \A t \in Threads \ {Me(g)} : t \notin entry[p][e].readers /\ entry[p][e].writer # t
        <5>1. entry[p][e].readers \subseteq {Me(g)}
          BY <1>8, <3>3
        <5>2. entry[p][e].writer \in {Me(g), Nobody}
          BY <2>1, <2>2, <5>1 DEF Good, Alone
        <5> QED BY <5>1, <5>2, SafeByteRangesAssumption
      <4>2. \A t \in Threads : Owners(p, e, t)' = {}
        BY <1>14, <2>1, <3>2, <4>1 DEF Good, Counted
      <4> QED BY <1>6, <2>3, <3>3, <4>2, GoodGone
    <3>4. CASE Left(g, e) # {}
      <4>1. Me(g) \in entry[p][e].readers /\ entry[p][e].writer = Nobody
        <5>1. entry[p][e].writer # Me(g)
          BY <1>2, <1>8, <2>1, <2>5, <3>4 DEF Good, Alone
        <5> QED BY <2>1, <2>2, <5>1 DEF Good, Alone
      <4>2. /\ entry'[p][e].there /\ entry'[p][e].readers = entry[p][e].readers \ {Me(g)}
            /\ entry'[p][e].writer = Nobody /\ locks'[p][e] = locks[p][e]
        BY <1>2, <1>6, <1>8, <3>4, <4>1
      <4>3. Alone(p, e)'
        BY <4>2 DEF Alone
      <4>4. Counted(p, e)'
        <5>1. ASSUME NEW t \in Threads \ {Me(g)}
              PROVE  /\ t \in entry'[p][e].readers <=> t \in entry[p][e].readers
                     /\ Owners(p, e, t)' = Owners(p, e, t)
          BY <1>14, <4>2
        <5> QED BY <1>2, <2>1, <3>2, <4>1, <4>2, <5>1, SafeByteRangesAssumption DEF Good, Counted
      <4>5. Labelled(p, e)'
        <5>1. SUFFICES ASSUME NEW k \in Guards, NEW y \in Owned(k)', Proc(k) = p, y.value = e, ~Nests(Me(k), e)'
                       PROVE  IF y.exclusive THEN entry'[p][e].writer = Me(k) ELSE Me(k) \in entry'[p][e].readers
          BY DEF Labelled
        <5>2. k # g
          BY <1>13, <5>1 DEF Has
        <5>3. y \in Owned(k) /\ ~Nests(Me(k), e)
          BY <1>4, <5>1, <5>2, NestsSame
        <5>4. Me(k) # Me(g)
          <6>1. k \in Owners(p, e, Me(k))
            BY <5>1, <5>3 DEF Owners, Has
          <6> QED BY <3>1, <5>2, <6>1
        <5>5. IF y.exclusive THEN entry[p][e].writer = Me(k) ELSE Me(k) \in entry[p][e].readers
          BY <2>1, <5>1, <5>3 DEF Good, Labelled
        <5> QED BY <4>1, <4>2, <5>4, <5>5
      <4>6. Locked(p, e)'
        BY <2>1, <2>3, <4>2 DEF Good, Locked, p
      <4> QED BY <4>3, <4>4, <4>5, <4>6 DEF Good
    <3> QED BY <3>3, <3>4
  <2> QED BY <2>4, <2>5
<1> QED BY <1>3, <1>5, <1>9, <1>10, <1>11, <1>12, <1>15, <1>16, TouchStep DEF p

\* Nobody has or wants anything of it.
LEMMA GoodUnused ==
  ASSUME NEW q \in Processes, NEW d \in Entities, Unused(q, d)'
  PROVE  Good(q, d)'
<1>1. /\ entry'[q][d] = Absent /\ locks'[q][d] = "unlocked" /\ Granted(q, d)' = {}
      /\ \A f \in Guards : Proc(f) = q => ~Has(f, d)'
  BY DEF Unused
<1>2. \A t \in Threads : Owners(q, d, t)' = {}
  BY <1>1 DEF Owners
<1> QED BY <1>1, <1>2, GoodGone

LEMMA ExitStep ==
  ASSUME SInv, NEW p \in Processes, Exit(p)
  PROVE  Preserved /\ \A e \in Entities : Unused(p, e)'
<1>1. /\ CodeTypes /\ OneThing /\ Compatible /\ \A f \in Guards : Placed(f) /\ Asking(f)
      /\ \A q \in Processes, d \in Entities : Shaped(q, d) /\ (Orderly(q, d) => Good(q, d))
  BY SInvParts
<1>2. /\ CodeTypes' /\ requests' = requests
      /\ \A g \in Guards : Proc(g) = p =>
           pc'[g] = "idle" /\ n'[g] = 1 /\ entities'[g] = << >>
      /\ \A g \in Guards : Proc(g) # p =>
           /\ pc'[g] = pc[g] /\ n'[g] = n[g] /\ entities'[g] = entities[g] /\ valid'[g] = valid[g]
      /\ \A q \in Processes, d \in Entities :
           /\ locks'[q][d] = IF q = p THEN "unlocked" ELSE locks[q][d]
           /\ entry'[q][d] = IF q = p THEN Absent ELSE entry[q][d]
  BY <1>1, ExitFrame
<1>3. OneThing'
  <2>1. \A f \in Guards : Busy(f)' => Busy(f)
    BY <1>2 DEF Busy
  <2> QED BY <1>1, <2>1 DEF OneThing
<1>4. Compatible'
  BY <1>1, <1>2 DEF Compatible, Conflict
<1>5. ASSUME NEW f \in Guards PROVE Placed(f)' /\ Asking(f)'
  <2>1. CASE Proc(f) = p
    <3>1. Placed(f)'
      BY <1>2, <2>1, PlacedEmpty
    <3>2. pc'[f] \notin AskingPCs
      BY <1>2, <2>1 DEF AskingPCs
    <3> QED BY <3>1, <3>2, NotAsking
  <2>2. CASE Proc(f) # p
    <3>1. Placed(f)'
      BY <1>1, <1>2, <2>2, PlacedOther
    <3>2. pc'[f] = pc[f] /\ Cur(f)' = Cur(f) /\ valid'[f] = valid[f]
      BY <1>2, <2>2 DEF Cur
    <3>3. CASE pc[f] \in AskingPCs
      <4>1. Cur(f).value \in Entities /\ Proc(f) \in Processes
        BY <1>1, <3>3, CurPlaced, ProcType
      <4>2. Entry(f)' = Entry(f)
        <5>1. Entry(f) = entry[Proc(f)][Cur(f).value] /\ Entry(f)' = entry'[Proc(f)][Cur(f)'.value]
          BY DEF Entry, Cur
        <5> QED BY <1>2, <2>2, <3>2, <4>1, <5>1
      <4>3. Asking(f)'
        BY <1>1, <3>2, <4>2 DEF Asking
      <4> QED BY <3>1, <4>3
    <3>4. CASE pc[f] \notin AskingPCs
      BY <3>1, <3>2, <3>4, NotAsking
    <3> QED BY <3>3, <3>4
  <2> QED BY <2>1, <2>2
<1>6. ASSUME NEW d \in Entities PROVE Unused(p, d)'
  <2>1. entry'[p][d] = Absent /\ locks'[p][d] = "unlocked"
    BY <1>2
  <2>2. Granted(p, d)' = {}
    BY <1>2 DEF Granted
  <2>3. ASSUME NEW f \in Guards, Proc(f) = p PROVE ~Has(f, d)'
    <3>1. (pc[f] \notin {"held", "unlock", "unlocking"} /\ n[f] = 1 => Owned(f) = {})'
      BY OwnsNothing
    <3>2. Owned(f)' = {}
      BY <1>2, <2>3, <3>1
    <3> QED BY <3>2 DEF Has
  <2> QED BY <2>1, <2>2, <2>3 DEF Unused
<1>7. ASSUME NEW q \in Processes, NEW d \in Entities
      PROVE  Shaped(q, d)' /\ (Orderly(q, d) => Good(q, d)')
  <2>1. CASE q = p
    <3>1. entry'[q][d] = Absent /\ Unused(q, d)'
      BY <1>2, <1>6, <2>1
    <3>2. Shaped(q, d)'
      BY <3>1 DEF Shaped, Absent
    <3> QED BY <3>1, <3>2, GoodUnused
  <2>2. CASE q # p
    <3>1. entry'[q][d] = entry[q][d] /\ locks'[q][d] = locks[q][d]
      BY <1>2, <2>2
    <3>2. \A f \in Guards : Proc(f) = q => pc'[f] = pc[f] /\ Cur(f)' = Cur(f) /\ Owned(f)' = Owned(f)
      BY <1>2, <2>2, OwnedOther DEF Cur
    <3>3. Keeps(q, d)
      BY <3>2 DEF Keeps
    <3>4. Granted(q, d)' = Granted(q, d) /\ \A f \in Granted(q, d) : Cur(f)' = Cur(f)
      <4>1. \A f \in Guards : f \in Granted(q, d) <=>
              Proc(f) = q /\ pc[f] \in {"asked", "upgraded"} /\ Cur(f).value = d
        BY DEF Granted, Cur
      <4>2. \A f \in Guards : f \in Granted(q, d)' <=>
              Proc(f) = q /\ pc'[f] \in {"asked", "upgraded"} /\ Cur(f)'.value = d
        BY DEF Granted, Cur
      <4>3. Granted(q, d) \subseteq Guards /\ Granted(q, d)' \subseteq Guards
        BY DEF Granted
      <4> QED BY <3>2, <4>1, <4>2, <4>3
    <3>5. Orderly(q, d) => Good(q, d)'
      BY <1>1, <1>2, <3>1, <3>3, <3>4, GoodSame
    <3> QED BY <1>1, <3>1, <3>5, ShapedSame
  <2> QED BY <2>1, <2>2
<1> QED BY <1>2, <1>3, <1>4, <1>5, <1>6, <1>7 DEF Preserved

-----------------------------------------------------------------------------
(* The history, and the whole                                              *)

LEMMA SInvKept ==
  ASSUME SInv, Preserved, NEW gone \in SUBSET Processes, Remember(gone),
         \A p \in gone, e \in Entities : Unused(p, e)'
  PROVE  SInv'
<1>1. /\ crossed \in [Processes -> SUBSET Entities]
      /\ wild \in SUBSET Processes
  BY DEF SInv, TypeOK
<1>2. /\ CodeTypes' /\ OneThing' /\ Compatible'
      /\ \A f \in Guards : Placed(f)' /\ Asking(f)'
      /\ \A q \in Processes, d \in Entities :
           Shaped(q, d)' /\ (Orderly(q, d) /\ ~Crossing(q, d)' => Good(q, d)')
  BY DEF Preserved
<1>3. /\ crossed' \in [Processes -> SUBSET Entities]
      /\ \A q \in Processes, d \in Entities :
           d \in crossed'[q] <=> ~Unused(q, d)' /\ (d \in crossed[q] \/ Crossing(q, d)')
  BY DEF Remember
<1>4. /\ wild' \in SUBSET Processes
      /\ \A q \in Processes :
           q \in wild' <=> \/ q \in wild \ gone
                           \/ \E g \in Guards : Proc(g) = q /\ pc'[g] = "upgraded" /\ ~valid'[g]
  BY DEF Remember
<1>5. TypeOK'
  BY <1>2, <1>3, <1>4 DEF TypeOK
<1>6. \A f \in Guards : Noticed(f)'
  BY <1>4, ProcType DEF Noticed
<1>7. ASSUME NEW q \in Processes, NEW d \in Entities
      PROVE  Remembered(q, d)' /\ (Orderly(q, d)' => Good(q, d)')
  <2>1. Remembered(q, d)'
    <3>1. Crossing(q, d)' => ~Unused(q, d)'
      BY DEF Crossing, Unused
    <3> QED BY <1>3, <3>1 DEF Remembered
  <2>2. CASE Unused(q, d)'
    BY <2>1, <2>2, GoodUnused
  <2>3. CASE ~Unused(q, d)'
    <3>1. Orderly(q, d)' => q \notin wild' /\ d \notin crossed'[q]
      BY DEF Orderly
    <3>2. Orderly(q, d)' => Orderly(q, d) /\ ~Crossing(q, d)'
      BY <1>3, <1>4, <2>3, <3>1 DEF Orderly
    <3> QED BY <1>2, <2>1, <3>2
  <2> QED BY <2>2, <2>3
<1> QED BY <1>2, <1>5, <1>6, <1>7 DEF SInv

LEMMA SInvSame ==
  ASSUME SInv, UNCHANGED vars
  PROVE  SInv'
<1>1. /\ requests' = requests /\ locks' = locks /\ entry' = entry /\ m' = m /\ pc' = pc
      /\ entities' = entities /\ n' = n /\ contended' = contended /\ sleeps' = sleeps
      /\ valid' = valid /\ deadline' = deadline /\ expired' = expired
      /\ crossed' = crossed /\ wild' = wild
  BY DEF vars
<1>2. TypeOK' /\ OneThing' /\ Compatible'
  BY <1>1 DEF SInv, TypeOK, CodeTypes, OneThing, Compatible, Busy
<1>3. \A f \in Guards : Owned(f)' = Owned(f) /\ Cur(f)' = Cur(f)
  BY <1>1 DEF Owned, Cur
<1>4. \A f \in Guards : Placed(f)'
  BY <1>1, PlacedOther DEF SInv
<1>5. \A f \in Guards : Asking(f)' /\ Noticed(f)'
  BY <1>1 DEF SInv, Asking, Noticed, Cur, Entry
<1>6. ASSUME NEW q \in Processes, NEW d \in Entities
      PROVE  Shaped(q, d)' /\ Remembered(q, d)' /\ (Orderly(q, d)' => Good(q, d)')
  <2>1. Granted(q, d)' = Granted(q, d) /\ \A f \in Granted(q, d) : Cur(f)' = Cur(f)
    BY <1>1 DEF Granted, Cur
  <2>2. Remembered(q, d)'
    BY <1>1, <2>1 DEF SInv, Remembered, Crossing, Users
  <2>3. Keeps(q, d)
    BY <1>3 DEF Keeps
  <2>4. Orderly(q, d)' => Good(q, d)
    BY <1>1 DEF SInv, Orderly
  <2>5. Good(q, d) => Good(q, d)'
    BY <1>1, <2>1, <2>3, GoodSame
  <2>6. Shaped(q, d)'
    BY <1>1 DEF SInv, Shaped
  <2> QED BY <2>2, <2>4, <2>5, <2>6
<1> QED BY <1>2, <1>4, <1>5, <1>6 DEF SInv

LEMMA StepPreserved ==
  ASSUME SInv, NEW g \in Guards,
         Lock(g) \/ Unlock(g) \/ Interrupt(g) \/ Expire(g) \/ WakeEarly(g) \/ Step(g)
  PROVE  Preserved
<1>1. CodeTypes /\ \A f \in Guards : Placed(f)
  BY SInvParts
<1>2. CASE Plain(g)
  BY <1>1, <1>2, PlainMove, QuietStep
<1>3. CASE Lock(g)
  BY <1>1, <1>3, LockMove, QuietStep
<1>4. CASE Fail(g) \/ Unlocked(g)
  BY <1>1, <1>4, LeaveMove, QuietStep
<1>5. CASE Retry(g)
  BY <1>1, <1>5, RetryMove, QuietStep
<1>6. CASE Ask(g) \/ JoinReaders(g) \/ Insert(g) \/ Upgraded(g)
  BY <1>6, AskStep, JoinStep, InsertStep, UpgradedStep
<1>7. CASE Undo(g)
  <2>1. /\ CodeTypes' /\ Still(g) /\ pc[g] \in {"undo", "deadlock"} /\ pc'[g] = pc[g]
        /\ entities'[g] = entities[g] /\ n'[g] \in 1..Len(entities[g])
    BY <1>1, <1>7, UndoFrame
  <2>2. PICK x \in Range(entities[g]) :
          /\ x \in Owned(g) /\ Owned(g)' = Owned(g) \ {x}
          /\ x.value \in Entities /\ entry[Proc(g)][x.value].there /\ Dropped(g, x.value)
    BY <1>1, <1>7, UndoFrame
  <2>3. pc'[g] \notin {"idle", "enter", "sleep"} /\ requests' = requests
    BY <2>1 DEF Still
  <2>4. Placed(g)'
    BY <1>1, <2>1, <2>3, PlacedMoved
  <2> QED BY <2>1, <2>2, <2>4, DropStep
<1>8. CASE GiveEntity(g)
  <2>1. /\ CodeTypes' /\ Still(g) /\ pc[g] = "unlocking" /\ pc'[g] = pc[g] /\ entities'[g] = entities[g]
    BY <1>1, <1>8, GiveFrame
  <2>2. PICK x \in Range(entities[g]) :
          /\ x \in Owned(g) /\ Owned(g)' = Owned(g) \ {x}
          /\ x.value \in Entities /\ entry[Proc(g)][x.value].there /\ Dropped(g, x.value)
    BY <1>1, <1>8, GiveFrame
  <2>3. /\ pc'[g] \notin AskingPCs \cup {"idle", "enter", "sleep", "entity", "undo", "deadlock"}
        /\ requests' = requests
    BY <2>1 DEF Still, AskingPCs
  <2>4. Placed(g)'
    BY <1>1, <2>1, <2>3, PlacedMoved
  <2> QED BY <2>1, <2>2, <2>4, DropStep
<1> QED BY <1>2, <1>3, <1>4, <1>5, <1>6, <1>7, <1>8 DEF Step, Plain

LEMMA NextSInv ==
  ASSUME SInv, [Next]_vars
  PROVE  SInv'
<1>1. ASSUME NEW g \in Guards, Remember({}),
             Lock(g) \/ Unlock(g) \/ Interrupt(g) \/ Expire(g) \/ WakeEarly(g) \/ Step(g)
      PROVE  SInv'
  <2>1. Preserved
    BY <1>1, StepPreserved
  <2> QED BY <1>1, <2>1, SInvKept
<1>2. ASSUME NEW p \in Processes, Exit(p), Remember({p}) PROVE SInv'
  BY <1>2, ExitStep, SInvKept
<1>3. CASE UNCHANGED vars
  BY <1>3, SInvSame
<1> QED BY <1>1, <1>2, <1>3 DEF Next

LEMMA InitSInv == Init => SInv
<1> SUFFICES ASSUME Init PROVE SInv
  OBVIOUS
<1>1. CodeTypes
  <2>1. locks \in [Processes -> [Entities -> LockKinds]]
    BY DEF Init, NoLocks, LockKinds
  <2>2. entry \in [Processes -> [Entities -> Infos]]
    BY AbsentType DEF Init
  <2>3. pc \in [Guards -> PCs]
    BY DEF Init, PCs
  <2>4. entities \in [Guards -> Lists]
    BY EmptyList DEF Init
  <2>5. /\ requests \in Workloads /\ m \in [Processes -> Guards \cup {Nobody}]
        /\ n \in [Guards -> Nat \ {0}] /\ contended \in [Guards -> Nat]
        /\ deadline \in [Guards -> {"none", "steady", "utc"}]
    BY DEF Init
  <2>6. /\ sleeps \in [Guards -> BOOLEAN] /\ valid \in [Guards -> BOOLEAN]
        /\ expired \in [Guards -> BOOLEAN]
    BY Zenon DEF Init
  <2> QED BY <2>1, <2>2, <2>3, <2>4, <2>5, <2>6, Types
<1>2. TypeOK
  BY <1>1 DEF Init, TypeOK
<1>3. /\ \A g \in Guards : pc[g] = "idle" /\ n[g] = 1 /\ entities[g] = << >>
      /\ \A p \in Processes, e \in Entities : entry[p][e] = Absent /\ locks[p][e] = "unlocked"
  BY DEF Init, NoLocks
<1>4. OneThing
  BY <1>3 DEF OneThing, Busy
<1>5. Compatible
  BY <1>3 DEF Compatible, Conflict
<1>6. \A g \in Guards : Placed(g) /\ Asking(g) /\ Noticed(g)
  BY <1>3 DEF Placed, Asking, Noticed, Upgrading, AskingPCs, Range
<1>7. ASSUME NEW p \in Processes, NEW e \in Entities
      PROVE  Shaped(p, e) /\ Remembered(p, e) /\ Good(p, e)
  <2>1. entry[p][e].readers = {} /\ entry[p][e].writer = Nobody /\ ~entry[p][e].there /\ entry[p][e] = Absent
    <3>1. entry[p][e] = Absent
      BY <1>3
    <3>2. Absent.readers = {} /\ Absent.writer = Nobody /\ ~Absent.there
      BY DEF Absent
    <3> QED BY <3>1, <3>2, Zenon
  <2>2. Granted(p, e) = {}
    BY <1>3 DEF Granted
  <2>3. \A f \in Guards : Owned(f) = {}
    BY <1>3, OwnsNothing
  <2>4. \A t \in Threads : Owners(p, e, t) = {}
    BY <2>3 DEF Owners, Has
  <2>5. Alone(p, e) /\ Labelled(p, e)
    BY <2>1, <2>3 DEF Alone, Labelled
  <2>6. Counted(p, e)
    BY <2>1, <2>4, SafeByteRangesAssumption DEF Counted
  <2>7. Locked(p, e)
    BY <1>3, <2>1, <2>2 DEF Locked
  <2>8. Shaped(p, e) /\ Remembered(p, e)
    BY <2>1, <2>2 DEF Shaped, Remembered, Crossing
  <2> QED BY <2>5, <2>6, <2>7, <2>8 DEF Good
<1> QED BY <1>2, <1>4, <1>5, <1>6, <1>7 DEF SInv

LEMMA Always == Spec => []SInv
BY InitSInv, NextSInv, PTL DEF Spec

-----------------------------------------------------------------------------
(* The theorems                                                            *)

\* The variables of safe_byte_ranges keep their types, whatever the threads lock.
THEOREM TypeCorrect == Spec => []TypeOK
<1>1. SInv => TypeOK
  BY DEF SInv
<1> QED BY <1>1, Always, PTL

LEMMA MarksCounted ==
  ASSUME NEW p, NEW e, NEW t \in Threads, Counted(p, e)
  PROVE  Cardinality(Marks(p, e, t)) = Cardinality(Owners(p, e, t))
<1>1. Cardinality({}) = 0 /\ \A x : Cardinality({x}) = 1
  BY FS_EmptySet, FS_Singleton
<1>2. \A x, y : x # y => Cardinality({x, y}) = 2
  <2>1. SUFFICES ASSUME NEW x, NEW y, x # y PROVE Cardinality({x, y}) = 2
    OBVIOUS
  <2>2. IsFiniteSet({x}) /\ Cardinality({x}) = 1
    BY FS_Singleton
  <2>3. Cardinality({x} \cup {y}) = Cardinality({x}) + 1
    BY <2>1, <2>2, FS_AddElement
  <2>4. {x} \cup {y} = {x, y}
    OBVIOUS
  <2> QED BY <2>2, <2>3, <2>4
<1>3. CASE entry[p][e].writer # t /\ t \notin entry[p][e].readers
  <2>1. Marks(p, e, t) = {} /\ Owners(p, e, t) = {}
    BY <1>3 DEF Marks, Counted
  <2> QED BY <2>1
<1>4. CASE entry[p][e].writer = t <=> t \notin entry[p][e].readers
  <2>1. PICK f \in Guards : Owners(p, e, t) = {f}
    BY <1>4 DEF Counted
  <2>2. Marks(p, e, t) = {"exclusive"} \/ Marks(p, e, t) = {"shared"}
    BY <1>4 DEF Marks
  <2> QED BY <1>1, <2>1, <2>2
<1>5. CASE entry[p][e].writer = t /\ t \in entry[p][e].readers
  <2>1. PICK f, h \in Guards : f # h /\ Owners(p, e, t) = {f, h}
    BY <1>5 DEF Counted
  <2>2. Marks(p, e, t) = {"exclusive", "shared"}
    BY <1>5 DEF Marks
  <2>3. Cardinality({"exclusive", "shared"}) = 2
    <3>1. "exclusive" # "shared"
      OBVIOUS
    <3> QED BY ONLY <1>2, <3>1, Zenon
  <2>4. Cardinality({f, h}) = 2
    BY <1>2, <2>1
  <2> QED BY <2>1, <2>2, <2>3, <2>4
<1> QED BY <1>3, <1>4, <1>5

\* In _thread_locks each thread has a mark for each guard with which it has an entity, of the
\* kind that was asked for unless the thread nests locks on it, and an entry is there for
\* somebody: whatever _lock() undid, retried or gave up and whatever other threads did while
\* _m was given up, as long as no byte was granted across another thread of the process.
THEOREM AccountedHolds == Spec => []Accounted
<1>1. SInv => Accounted
  <2> SUFFICES ASSUME SInv, NEW p \in Processes, NEW e \in Entities, Orderly(p, e)
               PROVE  /\ \A t \in Threads :
                           /\ Cardinality(Marks(p, e, t)) = Cardinality(Owners(p, e, t))
                           /\ \A g \in Owners(p, e, t) : \A x \in Owned(g) :
                                (x.value = e /\ ~Nests(t, e)) => Kind(x) \in Marks(p, e, t)
                      /\ entry[p][e].there => \E t \in Threads : Marks(p, e, t) # {}
    BY DEF Accounted
  <2>1. Good(p, e) /\ Shaped(p, e) /\ CodeTypes
    BY DEF SInv, TypeOK
  <2>2. ASSUME NEW t \in Threads PROVE Cardinality(Marks(p, e, t)) = Cardinality(Owners(p, e, t))
    BY <2>1, MarksCounted DEF Good
  <2>3. ASSUME NEW t \in Threads, NEW g \in Owners(p, e, t), NEW x \in Owned(g), x.value = e, ~Nests(t, e)
        PROVE  Kind(x) \in Marks(p, e, t)
    <3>1. g \in Guards /\ Proc(g) = p /\ Me(g) = t
      BY DEF Owners
    <3>2. IF x.exclusive THEN entry[p][e].writer = t ELSE t \in entry[p][e].readers
      BY <2>1, <2>3, <3>1 DEF Good, Labelled
    <3> QED BY <3>2 DEF Kind, Marks
  <2>4. ASSUME entry[p][e].there PROVE \E t \in Threads : Marks(p, e, t) # {}
    <3>1. entry[p][e] \in Infos
      BY <2>1, Types
    <3>2. \E t \in Threads : entry[p][e].writer = t \/ t \in entry[p][e].readers
      BY <2>1, <2>4, <3>1 DEF Shaped, Infos
    <3> QED BY <3>2 DEF Marks
  <2> QED BY <2>2, <2>3, <2>4
<1> QED BY <1>1, Always, PTL

\* What _thread_locks says a process has the kernel has locked for it, exclusively if there is
\* a writer, whichever of its threads came first, and a byte without an entry is on its way
\* to one, as long as no byte was granted across another thread of the process.
THEOREM BackedHolds == Spec => []Backed
<1>1. SInv => Backed
  BY DEF SInv, Good, Locked, Backed
<1> QED BY <1>1, Always, PTL

\* What a guard holds is in the map and locked.
LEMMA HeldBacked ==
  ASSUME SInv, NEW f \in Guards, pc[f] = "held", NEW x \in Range(entities[f]),
         Orderly(Proc(f), x.value), ~Nests(Me(f), x.value)
  PROVE  /\ x.value \in Entities /\ x \in Owned(f)
         /\ Good(Proc(f), x.value) /\ Shaped(Proc(f), x.value)
         /\ IF x.exclusive THEN entry[Proc(f)][x.value].writer = Me(f)
            ELSE Me(f) \in entry[Proc(f)][x.value].readers
         /\ locks[Proc(f)][x.value] # "unlocked"
         /\ x.exclusive => locks[Proc(f)][x.value] = "exclusive"
<1> DEFINE p == Proc(f)
           e == x.value
<1>1. e \in Entities
  <2>1. entities[f] \in Seq(Entity)
    BY DEF SInv, TypeOK, CodeTypes
  <2>2. x \in Entity
    BY <2>1 DEF Range
  <2> QED BY <2>2 DEF Entity
<1>2. Good(p, e) /\ Shaped(p, e)
  BY <1>1, ProcType DEF SInv
<1>3. x \in Owned(f)
  BY OwnedLate
<1>4. IF x.exclusive THEN entry[p][e].writer = Me(f) ELSE Me(f) \in entry[p][e].readers
  BY <1>2, <1>3 DEF Good, Labelled
<1>5. entry[p][e].there /\ (x.exclusive => entry[p][e].writer # Nobody)
  <2>1. entry[p][e] = Absent => entry[p][e].writer = Nobody /\ entry[p][e].readers = {}
    BY DEF Absent
  <2>2. Me(f) # Nobody
    BY ProcType, SafeByteRangesAssumption
  <2> QED BY <1>2, <1>4, <2>1, <2>2 DEF Shaped
<1> QED BY <1>1, <1>2, <1>3, <1>4, <1>5 DEF Good, Locked

\* No two threads hold guards on one entity in conflicting ways: in one process _thread_locks
\* keeps them apart, between two the kernel does.  Any number of threads in any number of
\* processes may mix shared and exclusive locks of it; excluded are threads that nest locks
\* on the entity, and a byte granted across another thread of the process.
THEOREM ExclusionHolds == Spec => []Exclusion
<1>1. SInv => Exclusion
  <2> SUFFICES ASSUME SInv, NEW f \in Guards, NEW g \in Guards, NEW e \in Entities,
                      NEW j \in HoldsOf(f, e), NEW k \in HoldsOf(g, e),
                      Me(f) # Me(g), ~Nests(Me(f), e), ~Nests(Me(g), e),
                      Orderly(Proc(f), e), Orderly(Proc(g), e), Conflict(j, k)
               PROVE  FALSE
    BY DEF Exclusion
  <2>1. pc[f] = "held" /\ pc[g] = "held"
    BY DEF HoldsOf
  <2>2. PICK x \in Range(entities[f]) :
          x.value = e /\ j = IF x.exclusive THEN "exclusive" ELSE "shared"
    BY DEF HoldsOf
  <2>3. PICK y \in Range(entities[g]) :
          y.value = e /\ k = IF y.exclusive THEN "exclusive" ELSE "shared"
    BY DEF HoldsOf
  <2>4. x.exclusive \/ y.exclusive
    BY <2>2, <2>3 DEF Conflict
  <2>5. /\ Good(Proc(f), e)
        /\ IF x.exclusive THEN entry[Proc(f)][e].writer = Me(f) ELSE Me(f) \in entry[Proc(f)][e].readers
        /\ locks[Proc(f)][e] # "unlocked" /\ (x.exclusive => locks[Proc(f)][e] = "exclusive")
    BY <2>1, <2>2, HeldBacked
  <2>6. /\ IF y.exclusive THEN entry[Proc(g)][e].writer = Me(g) ELSE Me(g) \in entry[Proc(g)][e].readers
        /\ locks[Proc(g)][e] # "unlocked" /\ (y.exclusive => locks[Proc(g)][e] = "exclusive")
    BY <2>1, <2>3, HeldBacked
  <2>7. CASE Proc(f) = Proc(g)
    <3>1. Alone(Proc(f), e)
      BY <2>5 DEF Good
    <3>2. Me(f) # Nobody /\ Me(g) # Nobody
      BY ProcType, SafeByteRangesAssumption
    <3> QED BY <2>4, <2>5, <2>6, <2>7, <3>1, <3>2 DEF Alone
  <2>8. CASE Proc(f) # Proc(g)
    <3>1. Conflict(locks[Proc(f)][e], locks[Proc(g)][e])
      BY <2>4, <2>5, <2>6 DEF Conflict
    <3> QED BY <2>8, <3>1, ProcType DEF SInv, Compatible
  <2> QED BY <2>7, <2>8
<1> QED BY <1>1, Always, PTL

=============================================================================
