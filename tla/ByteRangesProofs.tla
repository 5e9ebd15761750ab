-------------------------- MODULE ByteRangesProofs --------------------------
(***************************************************************************)
(* Proofs about ByteRanges, for every number of threads, entities and      *)
(* requests: type correctness and, when no two threads share an instance,  *)
(* exclusion, the absence of residue, sleeping empty handed, and that the  *)
(* algorithm implements SharedFsMutex.                                     *)
(***************************************************************************)
EXTENDS ByteRanges, TLAPS

(* No two threads work through the same byte_ranges instance. *)
Separate == \A t, u \in Threads : HandleOf[t] = HandleOf[u] => t = u

-----------------------------------------------------------------------------
(* The inductive invariant.  Owned(t) are the indices into entities[t]     *)
(* whose byte thread t has, which depends on which loop it is in.          *)
Owned(t) ==
  CASE pc[t] = "idle"      -> {}
    [] pc[t] = "locking"   -> {i \in DOMAIN entities[t] : i < n[t]}
    [] pc[t] = "undo"      -> {i \in DOMAIN entities[t] : i < n[t]}
    [] pc[t] = "held"      -> DOMAIN entities[t]
    [] pc[t] = "unlocking" -> {i \in DOMAIN entities[t] : i >= n[t]}

(* Where the loop index may be. *)
InLoop ==
  \A t \in Threads :
    pc[t] # "idle" =>
      /\ 1 \in DOMAIN entities[t]
      /\ DistinctValues(entities[t])
      /\ pc[t] # "held" => n[t] \in DOMAIN entities[t]
      /\ pc[t] = "undo" => contended[t] \in DOMAIN entities[t]

(* A thread's handle has the byte of every owned index, of its kind ... *)
HasOwned ==
  \A t \in Threads : \A i \in Owned(t) :
    locks[HandleOf[t]][entities[t][i].value] = Kind(entities[t][i])

(* ... and no other byte. *)
HasOnlyOwned ==
  \A h \in Handles, e \in Entities :
    locks[h][e] # "unlocked" =>
      \E t \in Threads : HandleOf[t] = h /\ \E i \in Owned(t) : entities[t][i].value = e

(* What the kernel guarantees of the lock table. *)
Compatible ==
  \A g, h \in Handles : g # h => \A e \in Entities : ~Conflict(locks[g][e], locks[h][e])

IInv == TypeOK /\ InLoop /\ HasOwned /\ HasOnlyOwned /\ Compatible

-----------------------------------------------------------------------------
(* Reordering a sequence neither adds nor drops entities: it permutes the  *)
(* indices.                                                                *)
LEMMA ReorderedFacts ==
  ASSUME NEW s \in Seq(Entity), NEW f \in Nat, NEW r \in Reordered(s, f)
  PROVE  /\ r \in Seq(Entity)
         /\ Len(r) = Len(s)
         /\ DistinctValues(s) => DistinctValues(r)
<1>1. PICK p \in Bijection(1..Len(s), 1..Len(s)) : r = [i \in 1..Len(s) |-> s[p[i]]]
  BY DEF Reordered
<1>2. /\ p \in [1..Len(s) -> 1..Len(s)]
      /\ \A i, j \in 1..Len(s) : p[i] = p[j] => i = j
  BY DEF Bijection, Injection, Surjection, IsInjective
<1>3. r \in Seq(Entity) /\ Len(r) = Len(s)
  BY <1>1, <1>2
<1>4. ASSUME DistinctValues(s) PROVE DistinctValues(r)
  <2>1. DOMAIN r = 1..Len(s) /\ DOMAIN s = 1..Len(s)
    BY <1>1
  <2>2. \A i \in 1..Len(s) : r[i] = s[p[i]] /\ p[i] \in DOMAIN s
    BY <1>1, <1>2, <2>1
  <2>3. \A i, j \in DOMAIN r : r[i].value = r[j].value => p[i] = p[j]
    BY <1>4, <2>1, <2>2 DEF DistinctValues
  <2> QED BY <1>2, <2>1, <2>3 DEF DistinctValues
<1> QED BY <1>3, <1>4

(* Leaving lock() or unlock() resets a thread's variables to typed values. *)
LEMMA LeaveTypes ==
  ASSUME TypeOK, NEW T, Leave(T)
  PROVE  /\ pc' \in [Threads -> {"idle", "locking", "undo", "held", "unlocking"}]
         /\ entities' \in [Threads -> Seq(Entity)]
         /\ n' \in [Threads -> Nat \ {0}]
         /\ contended' \in [Threads -> Nat]
         /\ deadline' \in [Threads -> {"none", "steady", "utc"}]
         /\ expired' \in [Threads -> BOOLEAN]
<1>1. pc' \in [Threads -> {"idle", "locking", "undo", "held", "unlocking"}]
  BY DEF TypeOK, Leave
<1>2. entities' \in [Threads -> Seq(Entity)]
  BY DEF TypeOK, Leave
<1>3. n' \in [Threads -> Nat \ {0}] /\ contended' \in [Threads -> Nat]
  BY DEF TypeOK, Leave
<1>4. deadline' \in [Threads -> {"none", "steady", "utc"}]
  BY DEF TypeOK, Leave
<1>5. expired' \in [Threads -> BOOLEAN]
  BY Zenon DEF TypeOK, Leave
<1> QED BY <1>1, <1>2, <1>3, <1>4, <1>5

(* Every value stays in its type: the invariant that TypeOK is.            *)
LEMMA TypeStep == TypeOK /\ [Next]_vars => TypeOK'
<1> SUFFICES ASSUME TypeOK, [Next]_vars PROVE TypeOK'
  OBVIOUS
<1> USE ByteRangesAssumption
<1>1. ASSUME NEW t \in Threads, Lock(t) PROVE TypeOK'
  BY <1>1 DEF TypeOK, Lock, Goto
<1>2. ASSUME NEW t \in Threads, TakeByte(t) PROVE TypeOK'
  BY <1>2 DEF TypeOK, TakeByte, Goto, SetRange, LockKinds, Kind
<1>3. ASSUME NEW t \in Threads, Contend(t) \/ Interrupt(t) PROVE TypeOK'
  BY <1>3 DEF TypeOK, Contend, Interrupt, Goto
<1>4. ASSUME NEW t \in Threads, Undo(t) PROVE TypeOK'
  BY <1>4 DEF TypeOK, Undo, SetRange, LockKinds
<1>5. ASSUME NEW t \in Threads, TimeOut(t) PROVE TypeOK'
  BY <1>5, LeaveTypes DEF TypeOK, TimeOut
<1>6. ASSUME NEW t \in Threads, Retry(t) PROVE TypeOK'
  <2>1. PICK s \in Reordered(entities[t], contended[t]) :
          entities' = [entities EXCEPT ![t] = s]
    BY <1>6 DEF Retry
  <2>2. s \in Seq(Entity)
    BY <2>1, ReorderedFacts DEF TypeOK
  <2> QED BY <1>6, <2>1, <2>2 DEF TypeOK, Retry, Goto
<1>7. ASSUME NEW t \in Threads, Expire(t) PROVE TypeOK'
  BY <1>7 DEF TypeOK, Expire
<1>8. ASSUME NEW t \in Threads, Unlock(t) PROVE TypeOK'
  BY <1>8 DEF TypeOK, Unlock, Goto
<1>9. ASSUME NEW t \in Threads, GiveByte(t) PROVE TypeOK'
  <2>1. locks' \in [Handles -> [Entities -> LockKinds]]
    BY <1>9 DEF TypeOK, GiveByte, SetRange, LockKinds
  <2>2. CASE Leave({t})
    BY <2>1, <2>2, LeaveTypes DEF TypeOK
  <2>3. CASE /\ n' = [n EXCEPT ![t] = @ + 1]
             /\ UNCHANGED <<pc, entities, contended, deadline, expired>>
    BY <2>1, <2>3 DEF TypeOK
  <2> QED BY <1>9, <2>2, <2>3 DEF GiveByte
<1>10. ASSUME NEW h \in Handles, Exit(h) PROVE TypeOK'
  <2>1. locks' \in [Handles -> [Entities -> LockKinds]]
    BY <1>10 DEF TypeOK, Exit, SetRange, LockKinds
  <2> QED BY <1>10, <2>1, LeaveTypes DEF TypeOK, Exit
<1>11. CASE UNCHANGED vars
  BY <1>11 DEF TypeOK, vars
<1> QED
  BY <1>1, <1>2, <1>3, <1>4, <1>5, <1>6, <1>7, <1>8, <1>9, <1>10, <1>11 DEF Next, Step

(* Type correctness: loop indices stay natural numbers and the entities    *)
(* stay a sequence of entities through every reordering, whoever shares    *)
(* an instance with whom.                                                  *)
THEOREM TypeCorrect == Spec => []TypeOK
<1>1. Init => TypeOK
  BY ByteRangesAssumption DEF Init, TypeOK, NoLocks, LockKinds
<1> QED BY <1>1, TypeStep, PTL DEF Spec

-----------------------------------------------------------------------------
(* The indices a thread owns are indices of its entities. *)
LEMMA OwnedFacts ==
  ASSUME TypeOK, NEW t \in Threads
  PROVE  /\ Owned(t) \subseteq DOMAIN entities[t]
         /\ \A i \in Owned(t) : entities[t][i] \in Entity /\ entities[t][i].value \in Entities
<1>1. Owned(t) \subseteq DOMAIN entities[t]
  BY DEF TypeOK, Owned
<1>2. entities[t] \in Seq(Entity)
  BY DEF TypeOK
<1>3. \A i \in Owned(t) : entities[t][i] \in Entity
  BY <1>1, <1>2
<1> QED BY <1>1, <1>3 DEF Entity

(* A thread whose state a step leaves alone owns what it owned. *)
LEMMA OwnedFrame ==
  ASSUME NEW u, pc'[u] = pc[u], n'[u] = n[u], entities'[u] = entities[u]
  PROVE  Owned(u)' = Owned(u)
BY DEF Owned

(* A step that changes neither the lock table nor what any thread owns.    *)
LEMMA SameOwnership ==
  ASSUME IInv, TypeOK', InLoop', locks' = locks,
         \A u \in Threads : /\ Owned(u)' = Owned(u)
                            /\ \A i \in Owned(u) : entities'[u][i] = entities[u][i]
  PROVE  IInv'
<1>1. HasOwned'
  BY DEF IInv, HasOwned
<1>2. HasOnlyOwned'
  BY DEF IInv, HasOnlyOwned
<1>3. Compatible'
  BY DEF IInv, Compatible
<1> QED BY <1>1, <1>2, <1>3 DEF IInv

(* A step that gives back the byte of one owned index. *)
LEMMA GiveBack ==
  ASSUME IInv, Separate, TypeOK', InLoop', NEW t \in Threads, NEW j \in Owned(t),
         locks' = SetRange(locks, HandleOf[t], {entities[t][j].value}, "unlocked"),
         Owned(t)' = Owned(t) \ {j},
         \A i \in Owned(t)' : entities'[t][i] = entities[t][i],
         \A u \in Threads \ {t} : Owned(u)' = Owned(u) /\ entities'[u] = entities[u],
         DistinctValues(entities[t])
  PROVE  IInv'
<1> DEFINE h == HandleOf[t]
           v == entities[t][j].value
<1> USE ByteRangesAssumption
<1>0. h \in Handles /\ v \in Entities
  BY OwnedFacts DEF IInv
<1>1. \A g \in Handles, x \in Entities :
        locks'[g][x] = IF g = h /\ x = v THEN "unlocked" ELSE locks[g][x]
  BY <1>0 DEF IInv, TypeOK, SetRange
<1> HIDE DEF h, v
<1>2. HasOwned'
  <2> SUFFICES ASSUME NEW u \in Threads, NEW i \in Owned(u)'
               PROVE  locks'[HandleOf[u]][entities'[u][i].value] = Kind(entities'[u][i])
    BY DEF HasOwned, Kind
  <2>1. CASE u = t
    <3>1. i \in Owned(t) /\ i # j /\ entities'[t][i] = entities[t][i]
      BY <2>1
    <3>2. entities[t][i].value # v /\ entities[t][i].value \in Entities
      BY <3>1, OwnedFacts DEF DistinctValues, IInv, v
    <3>3. locks[HandleOf[t]][entities[t][i].value] = Kind(entities[t][i])
      BY <3>1 DEF IInv, HasOwned
    <3>4. locks'[HandleOf[t]][entities[t][i].value] = Kind(entities[t][i])
      BY <1>0, <1>1, <3>2, <3>3 DEF h
    <3> QED BY <2>1, <3>1, <3>4
  <2>2. CASE u # t
    <3>1. HandleOf[u] # h /\ HandleOf[u] \in Handles
      BY <2>2 DEF Separate, h
    <3>2. i \in Owned(u) /\ entities'[u][i] = entities[u][i]
      BY <2>2
    <3>3. entities[u][i].value \in Entities
      BY <3>2, OwnedFacts DEF IInv
    <3>4. locks[HandleOf[u]][entities[u][i].value] = Kind(entities[u][i])
      BY <3>2 DEF IInv, HasOwned
    <3>5. locks'[HandleOf[u]][entities[u][i].value] = Kind(entities[u][i])
      BY <1>1, <3>1, <3>3, <3>4
    <3> QED BY <3>2, <3>5
  <2> QED BY <2>1, <2>2
<1>3. HasOnlyOwned'
  <2> SUFFICES ASSUME NEW g \in Handles, NEW e \in Entities, locks'[g][e] # "unlocked"
               PROVE  \E u \in Threads : HandleOf[u] = g
                                  /\ \E i \in Owned(u)' : entities'[u][i].value = e
    BY DEF HasOnlyOwned
  <2>1. locks[g][e] # "unlocked" /\ (g = h => e # v)
    BY <1>1
  <2>2. PICK u \in Threads : HandleOf[u] = g /\ \E i \in Owned(u) : entities[u][i].value = e
    BY <2>1 DEF IInv, HasOnlyOwned
  <2>3. PICK i \in Owned(u) : entities[u][i].value = e
    BY <2>2
  <2>4. i \in Owned(u)' /\ entities'[u][i] = entities[u][i]
    BY <2>1, <2>2, <2>3 DEF h, v
  <2> QED BY <2>2, <2>3, <2>4
<1>4. Compatible'
  <2> SUFFICES ASSUME NEW g \in Handles, NEW k \in Handles, g # k, NEW x \in Entities
               PROVE  ~Conflict(locks'[g][x], locks'[k][x])
    BY DEF Compatible, Conflict
  <2>1. ~Conflict(locks[g][x], locks[k][x])
    BY DEF IInv, Compatible
  <2>2. /\ locks'[g][x] \in {"unlocked", locks[g][x]}
        /\ locks'[k][x] \in {"unlocked", locks[k][x]}
    BY <1>1
  <2> QED BY <2>1, <2>2 DEF Conflict
<1> QED BY <1>2, <1>3, <1>4 DEF IInv

(* A granted byte joins what the thread owns; the kernel saw no conflict.  *)
LEMMA TakeByteStep ==
  ASSUME IInv, Separate, TypeOK', NEW t \in Threads, TakeByte(t)
  PROVE  IInv'
<1> DEFINE h == HandleOf[t]
           e == entities[t][n[t]]
<1> USE ByteRangesAssumption
<1>0. n[t] \in DOMAIN entities[t] /\ DistinctValues(entities[t]) /\ entities[t] \in Seq(Entity)
  BY DEF IInv, TypeOK, InLoop, TakeByte
<1>1. /\ h \in Handles /\ e \in Entity /\ e.value \in Entities
      /\ n[t] \in DOMAIN entities[t] /\ DistinctValues(entities[t])
  <2>1. e \in Entity
    BY <1>0
  <2>2. e.value \in Entities
    BY <2>1 DEF Entity
  <2> QED BY <1>0, <2>1, <2>2
<1>2. \A g \in Handles, x \in Entities :
        locks'[g][x] = IF g = h /\ x = e.value THEN Kind(e) ELSE locks[g][x]
  BY <1>1 DEF IInv, TypeOK, SetRange, TakeByte
<1>3. \A g \in Handles \ {h} : ~Conflict(locks[g][e.value], Kind(e))
  BY <1>1 DEF IInv, TypeOK, TakeByte, Outcome, LockOutcome, Grantable
<1>4. Owned(t)' = Owned(t) \cup {n[t]} /\ n[t] \notin Owned(t)
  <2>1. pc[t] = "locking" /\ entities' = entities /\ n'[t] = n[t] + 1
    BY DEF IInv, TypeOK, TakeByte
  <2>2. Owned(t) = {i \in DOMAIN entities[t] : i < n[t]}
    BY <2>1 DEF Owned
  <2>3. CASE n[t] = Len(entities[t])
    <3>1. pc'[t] = "held"
      BY <2>3 DEF IInv, TypeOK, TakeByte, Goto
    <3>2. Owned(t)' = DOMAIN entities[t]
      BY <2>1, <3>1 DEF Owned
    <3> QED BY <1>1, <2>2, <2>3, <3>2 DEF IInv, TypeOK
  <2>4. CASE n[t] # Len(entities[t])
    <3>1. pc'[t] = "locking"
      BY <2>4 DEF IInv, TypeOK, TakeByte, Goto
    <3>2. Owned(t)' = {i \in DOMAIN entities[t] : i < n[t] + 1}
      BY <2>1, <3>1 DEF Owned
    <3> QED BY <1>1, <2>2, <2>4, <3>2 DEF IInv, TypeOK
  <2> QED BY <2>3, <2>4
<1>5. \A u \in Threads \ {t} : Owned(u)' = Owned(u)
  BY OwnedFrame DEF IInv, TypeOK, TakeByte, Goto
<1>6. entities' = entities
  BY DEF TakeByte
<1>7. InLoop'
  BY <1>1 DEF IInv, TypeOK, InLoop, TakeByte, Goto
<1>8. HasOwned'
  <2> SUFFICES ASSUME NEW u \in Threads, NEW i \in Owned(u)'
               PROVE  locks'[HandleOf[u]][entities[u][i].value] = Kind(entities[u][i])
    BY <1>6 DEF HasOwned, Kind
  <2>1. CASE u = t /\ i = n[t]
    BY <1>1, <1>2, <2>1
  <2>2. CASE u = t /\ i # n[t]
    <3>1. i \in Owned(t) /\ entities[t][i].value # e.value /\ entities[t][i].value \in Entities
      BY <1>1, <1>4, <2>2, OwnedFacts DEF DistinctValues, IInv
    <3> QED BY <1>1, <1>2, <2>2, <3>1 DEF IInv, HasOwned
  <2>3. CASE u # t
    <3>1. HandleOf[u] # h /\ HandleOf[u] \in Handles
      BY <2>3 DEF Separate
    <3>2. i \in Owned(u) /\ entities[u][i].value \in Entities
      BY <1>5, <2>3, OwnedFacts DEF IInv
    <3> QED BY <1>2, <3>1, <3>2 DEF IInv, HasOwned
  <2> QED BY <2>1, <2>2, <2>3
<1>9. HasOnlyOwned'
  <2> SUFFICES ASSUME NEW g \in Handles, NEW x \in Entities, locks'[g][x] # "unlocked"
               PROVE  \E u \in Threads : HandleOf[u] = g
                                  /\ \E i \in Owned(u)' : entities[u][i].value = x
    BY <1>6 DEF HasOnlyOwned
  <2>1. CASE g = h /\ x = e.value
    BY <1>4, <2>1
  <2>2. CASE ~(g = h /\ x = e.value)
    <3>1. locks[g][x] # "unlocked"
      BY <1>1, <1>2, <2>2
    <3> QED BY <1>4, <1>5, <3>1 DEF IInv, HasOnlyOwned
  <2> QED BY <2>1, <2>2
<1>10. Compatible'
  BY <1>1, <1>2, <1>3 DEF IInv, Compatible, Conflict
<1> QED BY <1>7, <1>8, <1>9, <1>10 DEF IInv

(* When the kernel drops all the locks of a handle, its thread owns none.  *)
LEMMA ExitStep ==
  ASSUME IInv, Separate, TypeOK', NEW h \in Handles, Exit(h)
  PROVE  IInv'
<1> USE ByteRangesAssumption
<1>1. \A g \in Handles, x \in Entities :
        locks'[g][x] = IF g = h THEN "unlocked" ELSE locks[g][x]
  BY DEF IInv, TypeOK, Exit, SetRange
<1>2. ASSUME NEW u \in Threads, HandleOf[u] = h
      PROVE  pc'[u] = "idle" /\ Owned(u)' = {}
  BY <1>2 DEF Exit, Leave, Owned
<1>3. ASSUME NEW u \in Threads, HandleOf[u] # h
      PROVE  /\ pc'[u] = pc[u] /\ n'[u] = n[u] /\ contended'[u] = contended[u]
             /\ entities'[u] = entities[u] /\ Owned(u)' = Owned(u)
  BY <1>3, OwnedFrame DEF Exit, Leave
<1>4. InLoop'
  BY <1>2, <1>3 DEF IInv, InLoop
<1>5. HasOwned'
  <2> SUFFICES ASSUME NEW u \in Threads, NEW i \in Owned(u)'
               PROVE  locks'[HandleOf[u]][entities'[u][i].value] = Kind(entities'[u][i])
    BY DEF HasOwned, Kind
  <2>1. HandleOf[u] # h /\ HandleOf[u] \in Handles
    BY <1>2
  <2>2. i \in Owned(u) /\ entities'[u] = entities[u] /\ entities[u][i].value \in Entities
    BY <1>3, <2>1, OwnedFacts DEF IInv
  <2>3. locks[HandleOf[u]][entities[u][i].value] = Kind(entities[u][i])
    BY <2>2 DEF IInv, HasOwned
  <2>4. locks'[HandleOf[u]][entities[u][i].value] = Kind(entities[u][i])
    BY <1>1, <2>1, <2>2, <2>3
  <2> QED BY <2>2, <2>4
<1>6. HasOnlyOwned'
  <2> SUFFICES ASSUME NEW g \in Handles, NEW e \in Entities, locks'[g][e] # "unlocked"
               PROVE  \E u \in Threads : HandleOf[u] = g
                                  /\ \E i \in Owned(u)' : entities'[u][i].value = e
    BY DEF HasOnlyOwned
  <2>1. g # h /\ locks[g][e] # "unlocked"
    BY <1>1
  <2>2. PICK u \in Threads : HandleOf[u] = g /\ \E i \in Owned(u) : entities[u][i].value = e
    BY <2>1 DEF IInv, HasOnlyOwned
  <2> QED BY <1>3, <2>1, <2>2
<1>7. Compatible'
  <2> SUFFICES ASSUME NEW g \in Handles, NEW k \in Handles, g # k, NEW x \in Entities
               PROVE  ~Conflict(locks'[g][x], locks'[k][x])
    BY DEF Compatible, Conflict
  <2>1. ~Conflict(locks[g][x], locks[k][x])
    BY DEF IInv, Compatible
  <2>2. /\ locks'[g][x] \in {"unlocked", locks[g][x]}
        /\ locks'[k][x] \in {"unlocked", locks[k][x]}
    BY <1>1
  <2> QED BY <2>1, <2>2 DEF Conflict
<1> QED BY <1>4, <1>5, <1>6, <1>7 DEF IInv

(* Every step of the system preserves the inductive invariant. *)
LEMMA InvStep == Separate /\ IInv /\ [Next]_vars => IInv'
<1> SUFFICES ASSUME Separate, IInv, [Next]_vars PROVE IInv'
  OBVIOUS
<1> USE ByteRangesAssumption
<1>0. TypeOK /\ TypeOK'
  BY TypeStep DEF IInv
<1>1. ASSUME NEW t \in Threads, Lock(t) PROVE IInv'
  <2>1. PICK s \in Requests : entities' = [entities EXCEPT ![t] = s]
    BY <1>1 DEF Lock
  <2>2. s \in Seq(Entity) /\ s # << >> /\ DistinctValues(s) /\ 1 \in DOMAIN s
    BY <2>1
  <2>3. pc'[t] = "locking" /\ n'[t] = 1 /\ entities'[t] = s /\ locks' = locks
    BY <1>0, <1>1, <2>1 DEF TypeOK, Lock, Goto
  <2>4. \A u \in Threads \ {t} : /\ pc'[u] = pc[u] /\ n'[u] = n[u]
                                 /\ entities'[u] = entities[u] /\ contended'[u] = contended[u]
    BY <1>0, <1>1, <2>1 DEF TypeOK, Lock, Goto
  <2>5. InLoop'
    BY <2>2, <2>3, <2>4 DEF IInv, InLoop
  <2>6. Owned(t) = {} /\ Owned(t)' = {}
    <3>1. Owned(t) = {}
      BY <1>1 DEF Lock, Owned
    <3>2. Owned(t)' = {i \in DOMAIN s : i < 1}
      BY <2>3 DEF Owned
    <3>3. DOMAIN s = 1..Len(s)
      BY <2>2
    <3> QED BY <3>1, <3>2, <3>3
  <2>7. \A u \in Threads : /\ Owned(u)' = Owned(u)
                           /\ \A i \in Owned(u) : entities'[u][i] = entities[u][i]
    BY <2>4, <2>6, OwnedFrame
  <2> QED BY <1>0, <2>3, <2>5, <2>7, SameOwnership
<1>2. ASSUME NEW t \in Threads, TakeByte(t) PROVE IInv'
  BY <1>0, <1>2, TakeByteStep
<1>3. ASSUME NEW t \in Threads, Contend(t) \/ Interrupt(t) PROVE IInv'
  <2>1. /\ locks' = locks /\ entities' = entities /\ n' = n
        /\ pc[t] = "locking" /\ pc' = [pc EXCEPT ![t] = "undo"]
        /\ contended' = [contended EXCEPT ![t] = n[t]]
    BY <1>3 DEF Contend, Interrupt, Goto
  <2>2. InLoop'
    BY <1>0, <2>1 DEF IInv, TypeOK, InLoop
  <2>3. Owned(t)' = Owned(t)
    BY <1>0, <2>1 DEF TypeOK, Owned
  <2>4. \A u \in Threads \ {t} : Owned(u)' = Owned(u)
    BY <1>0, <2>1, OwnedFrame DEF TypeOK
  <2> QED BY <1>0, <2>1, <2>2, <2>3, <2>4, SameOwnership
<1>4. ASSUME NEW t \in Threads, Undo(t) PROVE IInv'
  <2>1. /\ pc[t] = "undo" /\ pc' = pc /\ entities' = entities /\ contended' = contended
        /\ n' = [n EXCEPT ![t] = n[t] - 1] /\ n[t] > 1 /\ n[t] \in Nat
        /\ locks' = SetRange(locks, HandleOf[t], {entities[t][n[t] - 1].value}, "unlocked")
    BY <1>0, <1>4 DEF TypeOK, Undo
  <2>2. n[t] \in DOMAIN entities[t] /\ DOMAIN entities[t] = 1..Len(entities[t])
        /\ DistinctValues(entities[t])
    BY <1>0, <2>1 DEF IInv, TypeOK, InLoop
  <2>3. Owned(t) = {i \in DOMAIN entities[t] : i < n[t]}
    BY <2>1 DEF Owned
  <2>4. Owned(t)' = {i \in DOMAIN entities[t] : i < n[t] - 1}
    BY <1>0, <2>1 DEF TypeOK, Owned
  <2>5. n[t] - 1 \in Owned(t) /\ Owned(t)' = Owned(t) \ {n[t] - 1}
    BY <2>1, <2>2, <2>3, <2>4
  <2>6. InLoop'
    BY <1>0, <2>1, <2>2 DEF IInv, TypeOK, InLoop
  <2>7. \A u \in Threads \ {t} : Owned(u)' = Owned(u) /\ entities'[u] = entities[u]
    BY <1>0, <2>1, OwnedFrame DEF TypeOK
  <2> QED BY <1>0, <2>1, <2>2, <2>5, <2>6, <2>7, GiveBack
<1>5. ASSUME NEW t \in Threads, TimeOut(t) PROVE IInv'
  <2>1. pc[t] = "undo" /\ n[t] = 1 /\ locks' = locks /\ pc'[t] = "idle"
    BY <1>0, <1>5 DEF TimeOut, Leave
  <2>2. \A u \in Threads \ {t} : /\ pc'[u] = pc[u] /\ n'[u] = n[u]
                                 /\ entities'[u] = entities[u] /\ contended'[u] = contended[u]
    BY <1>5 DEF TimeOut, Leave
  <2>3. InLoop'
    BY <2>1, <2>2 DEF IInv, InLoop
  <2>4. Owned(t) = {} /\ Owned(t)' = {}
    <3>1. Owned(t) = {i \in DOMAIN entities[t] : i < 1}
      BY <2>1 DEF Owned
    <3>2. DOMAIN entities[t] = 1..Len(entities[t])
      BY <1>0 DEF TypeOK
    <3>3. Owned(t)' = {}
      BY <2>1 DEF Owned
    <3> QED BY <3>1, <3>2, <3>3
  <2>5. \A u \in Threads : /\ Owned(u)' = Owned(u)
                           /\ \A i \in Owned(u) : entities'[u][i] = entities[u][i]
    BY <2>2, <2>4, OwnedFrame
  <2> QED BY <1>0, <2>1, <2>3, <2>5, SameOwnership
<1>6. ASSUME NEW t \in Threads, Retry(t) PROVE IInv'
  <2>1. PICK s \in Reordered(entities[t], contended[t]) :
          entities' = [entities EXCEPT ![t] = s]
    BY <1>6 DEF Retry
  <2>2. /\ pc[t] = "undo" /\ n[t] = 1 /\ n' = n /\ locks' = locks
        /\ pc' = [pc EXCEPT ![t] = "locking"]
        /\ contended' = [contended EXCEPT ![t] = 0]
    BY <1>6 DEF Retry, Goto
  <2>3. /\ s \in Seq(Entity) /\ Len(s) = Len(entities[t]) /\ DistinctValues(s)
        /\ DOMAIN s = 1..Len(s) /\ DOMAIN entities[t] = 1..Len(entities[t])
    <3>1. entities[t] \in Seq(Entity) /\ contended[t] \in Nat /\ DistinctValues(entities[t])
      BY <1>0, <2>2 DEF IInv, TypeOK, InLoop
    <3> QED BY <2>1, <3>1, ReorderedFacts
  <2>4. 1 \in DOMAIN s
    BY <2>2, <2>3 DEF IInv, InLoop
  <2>5. InLoop'
    BY <1>0, <2>1, <2>2, <2>3, <2>4 DEF IInv, TypeOK, InLoop
  <2>6. Owned(t) = {} /\ Owned(t)' = {}
    <3>1. Owned(t) = {i \in DOMAIN entities[t] : i < 1}
      BY <2>2 DEF Owned
    <3>2. Owned(t)' = {i \in DOMAIN s : i < 1}
      BY <1>0, <2>1, <2>2 DEF TypeOK, Owned
    <3> QED BY <2>3, <3>1, <3>2
  <2>7. \A u \in Threads : /\ Owned(u)' = Owned(u)
                           /\ \A i \in Owned(u) : entities'[u][i] = entities[u][i]
    BY <1>0, <2>1, <2>2, <2>6, OwnedFrame DEF TypeOK
  <2> QED BY <1>0, <2>2, <2>5, <2>7, SameOwnership
<1>7. ASSUME NEW t \in Threads, Expire(t) PROVE IInv'
  <2>1. UNCHANGED <<locks, pc, entities, n, contended>>
    BY <1>7 DEF Expire
  <2> QED BY <1>0, <2>1, OwnedFrame, SameOwnership DEF IInv, InLoop
<1>8. ASSUME NEW t \in Threads, Unlock(t) PROVE IInv'
  <2>1. /\ pc[t] = "held" /\ pc' = [pc EXCEPT ![t] = "unlocking"]
        /\ n' = [n EXCEPT ![t] = 1]
        /\ UNCHANGED <<locks, entities, contended>>
    BY <1>8 DEF Unlock, Goto
  <2>2. DOMAIN entities[t] = 1..Len(entities[t]) /\ Len(entities[t]) \in Nat
    BY <1>0 DEF TypeOK
  <2>3. 1 \in DOMAIN entities[t]
    BY <2>1, <2>2 DEF IInv, InLoop
  <2>4. InLoop'
    BY <1>0, <2>1, <2>3 DEF IInv, TypeOK, InLoop
  <2>5. Owned(t)' = Owned(t)
    <3>1. Owned(t) = DOMAIN entities[t]
      BY <2>1 DEF Owned
    <3>2. Owned(t)' = {i \in DOMAIN entities[t] : i >= 1}
      BY <1>0, <2>1 DEF TypeOK, Owned
    <3> QED BY <2>2, <3>1, <3>2
  <2>6. \A u \in Threads \ {t} : Owned(u)' = Owned(u)
    BY <1>0, <2>1, OwnedFrame DEF TypeOK
  <2> QED BY <1>0, <2>1, <2>4, <2>5, <2>6, SameOwnership
<1>9. ASSUME NEW t \in Threads, GiveByte(t) PROVE IInv'
  <2>1. /\ pc[t] = "unlocking" /\ n[t] \in DOMAIN entities[t] /\ DistinctValues(entities[t])
        /\ DOMAIN entities[t] = 1..Len(entities[t]) /\ Len(entities[t]) \in Nat
        /\ locks' = SetRange(locks, HandleOf[t], {entities[t][n[t]].value}, "unlocked")
    <3>1. /\ pc[t] = "unlocking"
          /\ locks' = SetRange(locks, HandleOf[t], {entities[t][n[t]].value}, "unlocked")
      BY <1>9 DEF GiveByte
    <3>2. n[t] \in DOMAIN entities[t] /\ DistinctValues(entities[t])
      BY <3>1 DEF IInv, InLoop
    <3>3. entities[t] \in Seq(Entity)
      BY <1>0 DEF TypeOK
    <3> QED BY <3>1, <3>2, <3>3
  <2>2. Owned(t) = {i \in DOMAIN entities[t] : i >= n[t]}
    BY <2>1 DEF Owned
  <2>3. CASE /\ n[t] < Len(entities[t])
             /\ n' = [n EXCEPT ![t] = @ + 1]
             /\ UNCHANGED <<pc, entities, contended, deadline, expired>>
    <3>1. Owned(t)' = {i \in DOMAIN entities[t] : i >= n[t] + 1}
      BY <1>0, <2>1, <2>3 DEF TypeOK, Owned
    <3>2. n[t] \in Owned(t) /\ Owned(t)' = Owned(t) \ {n[t]}
      BY <2>1, <2>2, <3>1
    <3>3. InLoop'
      BY <1>0, <2>1, <2>3 DEF IInv, TypeOK, InLoop
    <3>4. \A u \in Threads \ {t} : Owned(u)' = Owned(u) /\ entities'[u] = entities[u]
      BY <1>0, <2>3, OwnedFrame DEF TypeOK
    <3> QED BY <1>0, <2>1, <2>3, <3>2, <3>3, <3>4, GiveBack
  <2>4. CASE n[t] = Len(entities[t]) /\ Leave({t})
    <3>1. pc'[t] = "idle" /\ Owned(t)' = {}
      BY <2>4 DEF Leave, Owned
    <3>2. n[t] \in Owned(t) /\ Owned(t)' = Owned(t) \ {n[t]}
      BY <2>1, <2>2, <2>4, <3>1
    <3>3. \A u \in Threads \ {t} : /\ pc'[u] = pc[u] /\ n'[u] = n[u]
                                   /\ entities'[u] = entities[u] /\ contended'[u] = contended[u]
      BY <2>4 DEF Leave
    <3>4. InLoop'
      BY <3>1, <3>3 DEF IInv, InLoop
    <3>5. \A u \in Threads \ {t} : Owned(u)' = Owned(u) /\ entities'[u] = entities[u]
      BY <3>3, OwnedFrame
    <3> QED BY <1>0, <2>1, <3>1, <3>2, <3>4, <3>5, GiveBack
  <2> QED BY <1>9, <2>3, <2>4 DEF GiveByte
<1>10. ASSUME NEW h \in Handles, Exit(h) PROVE IInv'
  BY <1>0, <1>10, ExitStep
<1>11. CASE UNCHANGED vars
  <2>1. UNCHANGED <<locks, pc, entities, n, contended>>
    BY <1>11 DEF vars
  <2> QED BY <1>0, <2>1, OwnedFrame, SameOwnership DEF IInv, InLoop
<1> QED
  BY <1>1, <1>2, <1>3, <1>4, <1>5, <1>6, <1>7, <1>8, <1>9, <1>10, <1>11 DEF Next, Step

(* The inductive invariant holds in every state the algorithm reaches when *)
(* no two threads share an instance.                                       *)
LEMMA Invariance ==
  ASSUME Separate
  PROVE  Spec => []IInv
<1>1. Init => IInv
  <2> SUFFICES ASSUME Init PROVE IInv
    OBVIOUS
  <2>1. TypeOK
    BY ByteRangesAssumption DEF Init, TypeOK, NoLocks, LockKinds
  <2>2. InLoop
    BY DEF Init, InLoop
  <2>3. \A t \in Threads : Owned(t) = {}
    BY DEF Init, Owned
  <2>4. \A h \in Handles, e \in Entities : locks[h][e] = "unlocked"
    BY DEF Init, NoLocks
  <2> QED BY <2>1, <2>2, <2>3, <2>4 DEF IInv, HasOwned, HasOnlyOwned, Compatible, Conflict
<1>2. IInv /\ [Next]_vars => IInv'
  BY InvStep
<1> QED BY <1>1, <1>2, PTL DEF Spec

-----------------------------------------------------------------------------
(* The invariant gives the properties. *)
LEMMA GrantIsLocked ==
  ASSUME IInv, NEW t \in Threads, NEW e \in Entities
  PROVE  held[t][e] # "unlocked" => held[t][e] = locks[HandleOf[t]][e]
<1>1. CASE \E x \in BOOLEAN : Holds(t, e, x)
  <2>1. PICK x \in BOOLEAN : Holds(t, e, x)
    BY <1>1
  <2>2. PICK i \in DOMAIN entities[t] : entities[t][i] = [value |-> e, exclusive |-> x]
    BY <2>1 DEF Holds
  <2>3. i \in Owned(t) /\ DistinctValues(entities[t])
    BY <2>1, <2>2 DEF Holds, Owned, IInv, InLoop
  <2>4. locks[HandleOf[t]][e] = Kind([value |-> e, exclusive |-> x])
    BY <2>2, <2>3 DEF IInv, HasOwned
  <2>5. ~Holds(t, e, ~x)
    <3> SUFFICES ASSUME Holds(t, e, ~x) PROVE FALSE
      OBVIOUS
    <3>1. PICK j \in DOMAIN entities[t] : entities[t][j] = [value |-> e, exclusive |-> ~x]
      BY DEF Holds
    <3>2. i = j
      BY <2>2, <2>3, <3>1 DEF DistinctValues
    <3>3. entities[t][i].exclusive = x /\ entities[t][j].exclusive = ~x
      BY <2>2, <3>1
    <3> QED BY <3>2, <3>3
  <2>6. CASE x = TRUE
    BY <2>1, <2>4, <2>6 DEF held, Grant, Kind
  <2>7. CASE x = FALSE
    BY <2>1, <2>4, <2>5, <2>7 DEF held, Grant, Kind
  <2> QED BY <2>6, <2>7
<1>2. CASE ~\E x \in BOOLEAN : Holds(t, e, x)
  BY <1>2 DEF held, Grant
<1> QED BY <1>1, <1>2

LEMMA InvExclusion ==
  ASSUME Separate, IInv
  PROVE  Exclusion
<1> SUFFICES ASSUME NEW t \in Threads, NEW u \in Threads, t # u, NEW e \in Entities
             PROVE  ~Conflict(held[t][e], held[u][e])
  BY DEF Exclusion, Mutex!Exclusion, Mutex!Clash, Conflict
<1>1. HandleOf[t] # HandleOf[u] /\ HandleOf[t] \in Handles /\ HandleOf[u] \in Handles
  BY ByteRangesAssumption DEF Separate
<1>2. ~Conflict(locks[HandleOf[t]][e], locks[HandleOf[u]][e])
  BY <1>1 DEF IInv, Compatible
<1> QED BY <1>2, GrantIsLocked DEF Conflict

(* Mutual exclusion, for every number of threads, entities and requests:   *)
(* as long as no two threads lock through the same byte_ranges instance,   *)
(* no two guards hold an entity in conflicting ways, whichever interleaving *)
(* of the locking, undoing and unlocking loops, time outs, signals and     *)
(* process exits led there.                                                *)
THEOREM ExclusionHolds ==
  ASSUME Separate
  PROVE  Spec => []Exclusion
<1>1. IInv => Exclusion
  BY InvExclusion
<1> QED BY <1>1, Invariance, PTL

(* Neither a failed lock() nor an unlock() nor the end of a process leaves *)
(* a byte locked behind it.                                                *)
THEOREM NoResidueHolds ==
  ASSUME Separate
  PROVE  Spec => []NoResidue
<1>1. IInv => NoResidue
  <2> SUFFICES ASSUME IInv, NEW h \in Handles,
                      \A t \in Threads : HandleOf[t] = h => pc[t] = "idle",
                      NEW e \in Entities, locks[h][e] # "unlocked"
               PROVE  FALSE
    BY DEF NoResidue
  <2>1. PICK t \in Threads : HandleOf[t] = h /\ Owned(t) # {}
    BY DEF IInv, HasOnlyOwned
  <2> QED BY <2>1 DEF Owned
<1> QED BY <1>1, Invariance, PTL

(* A thread asleep in the kernel on its first byte owns no byte, so no     *)
(* cycle of sleeping threads can form, for any number of threads.          *)
THEOREM NeverSleepsHoldingHolds ==
  ASSUME Separate
  PROVE  Spec => []NeverSleepsHolding
<1>1. IInv => NeverSleepsHolding
  <2> SUFFICES ASSUME IInv, NEW t \in Threads, pc[t] = "locking", Outcome(t) = "blocked",
                      NEW e \in Entities, locks[HandleOf[t]][e] # "unlocked"
               PROVE  FALSE
    BY DEF NeverSleepsHolding
  <2>1. n[t] = 1
    BY DEF Outcome, LockOutcome, SubDeadline
  <2>2. PICK u \in Threads : HandleOf[u] = HandleOf[t] /\ Owned(u) # {}
    BY ByteRangesAssumption DEF IInv, HasOnlyOwned
  <2>3. u = t
    BY <2>2 DEF Separate
  <2>4. Owned(t) = {i \in DOMAIN entities[t] : i < 1}
    BY <2>1 DEF Owned
  <2>5. DOMAIN entities[t] = 1..Len(entities[t])
    BY DEF IInv, TypeOK
  <2> QED BY <2>2, <2>3, <2>4, <2>5
<1> QED BY <1>1, Invariance, PTL

-----------------------------------------------------------------------------
(* A step after which no thread but those of T may hold anything else.     *)
LEMMA SameGrant ==
  ASSUME NEW u \in Threads, entities'[u] = entities[u],
         (pc'[u] = "held") <=> (pc[u] = "held")
  PROVE  held'[u] = held[u]
BY DEF held, Grant, Holds

LEMMA NoGrant ==
  ASSUME NEW u \in Threads, pc[u] # "held"
  PROVE  held[u] = Mutex!Nothing
BY DEF held, Grant, Holds, Mutex!Nothing

LEMMA HeldIsFunction ==
  ASSUME NEW T \in SUBSET Threads,
         \A u \in Threads : held'[u] = IF u \in T THEN Mutex!Nothing ELSE held[u]
  PROVE  Mutex!Next
<1>1. held' = [u \in Threads |-> IF u \in T THEN Mutex!Nothing ELSE held[u]]
  BY DEF held
<1> QED BY <1>1 DEF Mutex!Next, Mutex!Release

(* Seen through the guards, the last byte taken is Acquire, the start of   *)
(* unlock() and the exit of a holder are Release, all else stutters.       *)
LEMMA StepSimulation ==
  ASSUME Separate, IInv, IInv', [Next]_vars
  PROVE  [Mutex!Next]_held
<1> USE ByteRangesAssumption
<1>0. TypeOK /\ TypeOK'
  BY DEF IInv
<1>1. ASSUME \A u \in Threads : held'[u] = held[u]
      PROVE  held' = held
  BY <1>1 DEF held
<1>2. ASSUME NEW t \in Threads, pc[t] # "held", pc'[t] # "held",
             \A u \in Threads \ {t} : pc'[u] = pc[u] /\ entities'[u] = entities[u]
      PROVE  held' = held
  <2>1. held[t] = Mutex!Nothing
    BY <1>2, NoGrant
  <2>2. held'[t] = Mutex!Nothing
    BY <1>2 DEF held, Grant, Holds, Mutex!Nothing
  <2>3. \A u \in Threads \ {t} : held'[u] = held[u]
    BY <1>2, SameGrant
  <2> QED BY <1>1, <2>1, <2>2, <2>3
<1>3. ASSUME NEW t \in Threads, TakeByte(t) PROVE [Mutex!Next]_held
  <2>1. /\ pc[t] = "locking" /\ entities' = entities
        /\ \A u \in Threads \ {t} : pc'[u] = pc[u] /\ entities'[u] = entities[u]
    BY <1>0, <1>3 DEF TypeOK, TakeByte, Goto
  <2>2. held[t] = Mutex!Nothing
    BY <2>1, NoGrant
  <2>3. \A u \in Threads \ {t} : held'[u] = held[u]
    BY <2>1, SameGrant
  <2>4. held' = [held EXCEPT ![t] = held'[t]]
    BY <2>3 DEF held
  <2>5. held'[t] \in Mutex!Grants
    BY DEF held, Grant, Mutex!Grants, Mutex!Kinds
  <2>6. Exclusion'
    <3>1. IInv => Exclusion
      BY InvExclusion
    <3> QED BY <3>1, InvExclusion, PTL
  <2>7. \A u \in Threads \ {t} : ~Mutex!Clash(held'[t], held[u])
    BY <2>3, <2>6 DEF Exclusion, Mutex!Exclusion, Mutex!Clash
  <2>8. Mutex!Acquire(t)
    BY <2>2, <2>4, <2>5, <2>7 DEF Mutex!Acquire
  <2> QED BY <2>8 DEF Mutex!Next
<1>4. ASSUME NEW t \in Threads, Unlock(t) PROVE [Mutex!Next]_held
  <2>1. /\ pc'[t] = "unlocking"
        /\ \A u \in Threads \ {t} : pc'[u] = pc[u] /\ entities'[u] = entities[u]
    BY <1>0, <1>4 DEF TypeOK, Unlock, Goto
  <2>2. held'[t] = Mutex!Nothing
    BY <2>1 DEF held, Grant, Holds, Mutex!Nothing
  <2>3. \A u \in Threads \ {t} : held'[u] = held[u]
    BY <2>1, SameGrant
  <2>4. \A u \in Threads : held'[u] = IF u \in {t} THEN Mutex!Nothing ELSE held[u]
    BY <2>2, <2>3
  <2> QED BY <2>4, HeldIsFunction
<1>5. ASSUME NEW h \in Handles, Exit(h) PROVE [Mutex!Next]_held
  <2> DEFINE T == {u \in Threads : HandleOf[u] = h}
  <2>1. /\ \A u \in T : pc'[u] = "idle"
        /\ \A u \in Threads \ T : pc'[u] = pc[u] /\ entities'[u] = entities[u]
    BY <1>5 DEF Exit, Leave
  <2>2. \A u \in T : held'[u] = Mutex!Nothing
    BY <2>1 DEF held, Grant, Holds, Mutex!Nothing
  <2>3. \A u \in Threads \ T : held'[u] = held[u]
    BY <2>1, SameGrant
  <2>4. \A u \in Threads : held'[u] = IF u \in T THEN Mutex!Nothing ELSE held[u]
    BY <2>2, <2>3
  <2> HIDE DEF T
  <2>5. T \in SUBSET Threads
    BY DEF T
  <2> QED BY <2>4, <2>5, HeldIsFunction
<1>6. ASSUME NEW t \in Threads,
             Lock(t) \/ Contend(t) \/ Interrupt(t) \/ Undo(t) \/ Retry(t) \/ TimeOut(t) \/ GiveByte(t)
      PROVE  held' = held
  <2>1. pc[t] # "held" /\ pc'[t] # "held"
    BY <1>0, <1>6 DEF TypeOK, Lock, Contend, Interrupt, Undo, Retry, TimeOut, GiveByte, Goto, Leave
  <2>2. \A u \in Threads \ {t} : pc'[u] = pc[u] /\ entities'[u] = entities[u]
    <3>1. CASE TimeOut(t) \/ GiveByte(t)
      BY <3>1 DEF TimeOut, GiveByte, Leave
    <3>2. CASE Lock(t) \/ Retry(t)
      BY <1>0, <3>2 DEF TypeOK, Lock, Retry, Goto
    <3>3. CASE Contend(t) \/ Interrupt(t) \/ Undo(t)
      BY <1>0, <3>3 DEF TypeOK, Contend, Interrupt, Undo, Goto
    <3> QED BY <1>6, <3>1, <3>2, <3>3
  <2> QED BY <1>2, <2>1, <2>2
<1>7. ASSUME NEW t \in Threads, Expire(t) PROVE held' = held
  BY <1>1, <1>7, SameGrant DEF Expire
<1>8. CASE UNCHANGED vars
  BY <1>1, <1>8, SameGrant DEF vars
<1> QED BY <1>3, <1>4, <1>5, <1>6, <1>7, <1>8 DEF Next, Step

(* byte_ranges implements the abstract shared_fs_mutex: whatever its loops *)
(* do byte by byte, its users see locks granted whole and given back whole *)
(* and never in conflict.                                                  *)
THEOREM Refinement ==
  ASSUME Separate
  PROVE  Spec => Refines
<1>1. Init => Mutex!Init
  BY DEF Init, Mutex!Init, Mutex!Nothing, held, Grant, Holds
<1>2. IInv /\ IInv' /\ [Next]_vars => [Mutex!Next]_held
  BY StepSimulation
<1> QED BY <1>1, <1>2, Invariance, PTL DEF Spec, Refines, Mutex!Spec

=============================================================================
