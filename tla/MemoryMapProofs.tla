-------------------------- MODULE MemoryMapProofs ---------------------------
(***************************************************************************)
(* Proofs about MemoryMap, for any number of instances, indices, slots and *)
(* entities: those that have the in use byte locked use the index the lock *)
(* file names, the spinlocks of an index are locked exactly as its users   *)
(* have them, and users of one index exclude each other.                   *)
(***************************************************************************)
EXTENDS MemoryMap, FiniteSetTheorems, WellFoundedInduction, TLAPS

-----------------------------------------------------------------------------
(* The inductive invariant, the part about the lock file                   *)

Using == Locking \cup {"held", "unlocking"}
Labels == {"closed", "open"} \cup Opening \cup Closing \cup Using

Creating == {"create", "write", "downgrade"}
Removing == {"truncate", "unlink", "aborted"}
Joining == {"read", "opentemp", "unavailable"}

(* Where an instance is tells how it has the in use byte locked. *)
LockedAs(i) ==
  /\ pc[i] \in {"closed", "join", "last"} => locks[i]["lockinuse"] = "unlocked"
  /\ pc[i] \in Creating \cup Removing => locks[i]["lockinuse"] = "exclusive"
  /\ pc[i] \in Joining \cup {"drop"} => locks[i]["lockinuse"] = "shared"
  /\ pc[i] \in {"open"} \cup Using => locks[i]["lockinuse"] \in {"shared", "unlocked"}

Granted == \A i, j \in Insts : i # j => ~Conflict(locks[i]["lockinuse"], locks[j]["lockinuse"])

(* Which index it has open. *)
Opened(i) ==
  /\ pc[i] \in {"write", "downgrade", "drop", "last", "open"} \cup Removing \cup Using => temp[i] \in Indices
  /\ pc[i] \in {"downgrade", "opentemp"} => temp[i] = path
  /\ pc[i] \in {"write", "downgrade"} => temp[i] \in linked

FInv ==
  /\ locks \in [Insts -> [Offsets -> LockKinds]]
  /\ path \in Indices \cup {None} /\ linked \subseteq Indices
  /\ pc \in [Insts -> Labels] /\ temp \in [Insts -> Indices \cup {None}]
  /\ \A i \in Insts : LockedAs(i) /\ Opened(i)
  /\ Granted
  /\ OneIndex

-----------------------------------------------------------------------------
(* The part about the spinlocks                                            *)

(* No slot is twice in a table. *)
Distinct(s) == \A j, k \in DOMAIN s : s[j].value = s[k].value => j = k

(* What an instance at label has of a call: the entities e, the table l,    *)
(* how far it is (m), and where it met with contention (c). *)
InCall(label, e, l, m, c) ==
  /\ label \notin Using => l = << >> /\ m = 1
  /\ label \in Using =>
       /\ Distinct(l) /\ Len(l) > 0
       /\ e \in Requests /\ Range(l) = Range(HashEntities(e))
  /\ label \in Locking \cup {"unlocking"} => m \in 1..Len(l)
  /\ label = "held" => m = Len(l) + 1
  /\ label = "undo" => c \in 1..Len(l)

Table(i) == InCall(pc[i], entities[i], list[i], n[i], contended[i])

(* The entries that it has locked. *)
Took(label, l, m) ==
  IF label = "unlocking" THEN {l[k] : k \in m..Len(l)} ELSE {l[k] : k \in 1..m - 1}

(* Who has slot s of index x locked. *)
Ent(s, exclusive) == [value |-> s, exclusive |-> exclusive]
Readers(x, s) == {i \in Insts : temp[i] = x /\ Ent(s, FALSE) \in Taking(i)}
Writers(x, s) == {i \in Insts : temp[i] = x /\ Ent(s, TRUE) \in Taking(i)}

(* A spinlock is at least as locked as its users have it, and exactly as   *)
(* locked where nobody died. *)
Cell(x, s) ==
  /\ index[x][s].readers >= Cardinality(Readers(x, s))
  /\ Writers(x, s) # {} => index[x][s].writer /\ Readers(x, s) = {}
  /\ \A i, j \in Writers(x, s) : i = j
  /\ x \notin abandoned =>
       /\ index[x][s].readers = Cardinality(Readers(x, s))
       /\ index[x][s].writer => Writers(x, s) # {}

Spinlock == [writer : BOOLEAN, readers : Nat]

SInv ==
  /\ index \in [Indices -> [Slots -> Spinlock]]
  /\ entities \in [Insts -> Seq(Entity)] /\ list \in [Insts -> Seq(Entry)]
  /\ n \in [Insts -> Nat] /\ contended \in [Insts -> Nat]
  /\ \A i \in Insts : Table(i)
  /\ \A x \in Indices, s \in Slots : Cell(x, s)

IInv == FInv /\ SInv

-----------------------------------------------------------------------------
(* The lock file                                                           *)

LEMMA SetRangeFacts ==
  ASSUME locks \in [Insts -> [Offsets -> LockKinds]], NEW i \in Insts, NEW range, NEW kind \in LockKinds,
         locks' = SetRange(locks, i, range, kind)
  PROVE  /\ locks' \in [Insts -> [Offsets -> LockKinds]]
         /\ \A j \in Insts \ {i} : locks'[j] = locks[j]
         /\ "lockinuse" \in range => locks'[i]["lockinuse"] = kind
         /\ "lockinuse" \notin range => locks'[i]["lockinuse"] = locks[i]["lockinuse"]
<1> HIDE DEF LockKinds
<1> DEFINE f == [o \in Offsets |-> IF o \in range THEN kind ELSE locks[i][o]]
<1>1. DOMAIN locks[i] = Offsets /\ "lockinuse" \in Offsets
  BY DEF Offsets
<1>2. locks' = [locks EXCEPT ![i] = f]
  BY <1>1 DEF SetRange
<1>3. f \in [Offsets -> LockKinds]
  OBVIOUS
<1>4. f["lockinuse"] = IF "lockinuse" \in range THEN kind ELSE locks[i]["lockinuse"]
  BY <1>1
<1> HIDE DEF f
<1> QED BY <1>2, <1>3, <1>4

(* Instance i goes on at label with index x open and the in use byte       *)
(* locked as kind. *)
LEMMA FileStep ==
  ASSUME FInv, NEW i \in Insts, NEW kind \in LockKinds, NEW x \in Indices \cup {None},
         pc' \in [Insts -> Labels], \A j \in Insts \ {i} : pc'[j] = pc[j],
         temp' \in [Insts -> Indices \cup {None}], temp'[i] = x, \A j \in Insts \ {i} : temp'[j] = temp[j],
         locks' \in [Insts -> [Offsets -> LockKinds]], locks'[i]["lockinuse"] = kind,
         \A j \in Insts \ {i} : locks'[j] = locks[j],
         path' \in Indices \cup {None}, linked' \subseteq Indices,
         \/ kind \in {"unlocked", locks[i]["lockinuse"]}
         \/ \A j \in Insts \ {i} : ~Conflict(locks[j]["lockinuse"], kind)
         \/ locks[i]["lockinuse"] = "exclusive",
         (path' = path /\ linked \subseteq linked') \/ locks[i]["lockinuse"] = "exclusive",
         LockedAs(i)', Opened(i)',
         kind = "shared" /\ pc'[i] \notin Joining => x = path' /\ path' \in linked'
  PROVE  FInv'
<1>1. /\ \A j \in Insts : locks[j]["lockinuse"] \in LockKinds /\ LockedAs(j) /\ Opened(j)
      /\ Granted /\ OneIndex
  BY DEF FInv, Offsets
<1>2. Granted'
  <2> SUFFICES ASSUME NEW j \in Insts, NEW k \in Insts, j # k
               PROVE  ~Conflict(locks'[j]["lockinuse"], locks'[k]["lockinuse"])
    BY DEF Granted
  <2>1. \A a, b : Conflict(a, b) <=> Conflict(b, a)
    BY DEF Conflict
  <2>2. ASSUME NEW m \in Insts \ {i} PROVE ~Conflict(locks[m]["lockinuse"], kind)
    <3>1. ~Conflict(locks[m]["lockinuse"], locks[i]["lockinuse"])
      BY <1>1 DEF Granted
    <3>2. CASE kind = "unlocked"
      BY <3>2 DEF Conflict
    <3>3. CASE kind = locks[i]["lockinuse"]
      BY <3>1, <3>3
    <3>4. CASE locks[i]["lockinuse"] = "exclusive"
      <4>1. locks[m]["lockinuse"] = "unlocked"
        BY <3>1, <3>4 DEF Conflict
      <4> QED BY <4>1 DEF Conflict
    <3> QED BY <3>2, <3>3, <3>4
  <2>3. CASE j = i
    BY <2>1, <2>2, <2>3
  <2>4. CASE k = i
    BY <2>1, <2>2, <2>4
  <2>5. CASE j # i /\ k # i
    BY <1>1, <2>5 DEF Granted
  <2> QED BY <2>3, <2>4, <2>5
<1>3. ASSUME NEW j \in Insts \ {i}, locks[j]["lockinuse"] # "unlocked"
      PROVE  path' = path /\ linked \subseteq linked'
  <2>1. ~Conflict(locks[j]["lockinuse"], locks[i]["lockinuse"])
    BY <1>1 DEF Granted
  <2> QED BY <1>3, <2>1 DEF Conflict
<1>4. \A j \in Insts : LockedAs(j)'
  <2>1. \A j \in Insts \ {i} : LockedAs(j)'
    BY <1>1 DEF LockedAs
  <2> QED BY <2>1
<1>5. \A j \in Insts : Opened(j)'
  <2>1. ASSUME NEW j \in Insts \ {i} PROVE Opened(j)'
    <3>1. pc[j] \in {"write", "downgrade", "opentemp"} => locks[j]["lockinuse"] # "unlocked"
      BY <1>1 DEF LockedAs, Creating, Joining
    <3> QED BY <1>1, <1>3, <3>1 DEF Opened
  <2> QED BY <2>1
<1>6. OneIndex'
  <2> SUFFICES ASSUME NEW j \in Insts, locks'[j]["lockinuse"] = "shared", pc'[j] \notin Joining
               PROVE  temp'[j] = path' /\ path' \in linked'
    BY DEF OneIndex, Joining
  <2>1. CASE j = i
    BY <2>1
  <2>2. CASE j # i
    BY <1>1, <1>3, <2>2 DEF OneIndex, Joining
  <2> QED BY <2>1, <2>2
<1> QED BY <1>2, <1>4, <1>5, <1>6 DEF FInv

LEMMA Goes ==
  ASSUME FInv, NEW i \in Insts, NEW label \in Labels, Goto(i, label)
  PROVE  pc' \in [Insts -> Labels] /\ pc'[i] = label /\ \A j \in Insts \ {i} : pc'[j] = pc[j]
BY DEF FInv, Goto

LEMMA ClosedFacts ==
  ASSUME FInv, NEW i \in Insts, Closed({i})
  PROVE  /\ locks' \in [Insts -> [Offsets -> LockKinds]] /\ locks'[i]["lockinuse"] = "unlocked"
         /\ \A j \in Insts \ {i} : locks'[j] = locks[j]
         /\ temp' \in [Insts -> Indices \cup {None}] /\ temp'[i] = None
         /\ \A j \in Insts \ {i} : temp'[j] = temp[j]
<1> DEFINE f == [o \in Offsets |-> "unlocked"]
<1>1. f \in [Offsets -> LockKinds] /\ f["lockinuse"] = "unlocked"
  BY DEF LockKinds, Offsets
<1>2. locks \in [Insts -> [Offsets -> LockKinds]] /\ temp \in [Insts -> Indices \cup {None}]
  BY DEF FInv
<1>3. /\ locks' = [j \in Insts |-> IF j \in {i} THEN f ELSE locks[j]]
      /\ temp' = [j \in Insts |-> IF j \in {i} THEN None ELSE temp[j]]
  BY DEF Closed
<1> HIDE DEF f, LockKinds, Offsets
<1> QED BY <1>1, <1>2, <1>3

LEMMA StaysFacts ==
  ASSUME FInv, NEW i \in Insts
  PROVE  /\ locks \in [Insts -> [Offsets -> LockKinds]] /\ locks[i]["lockinuse"] \in LockKinds
         /\ temp \in [Insts -> Indices \cup {None}] /\ temp[i] \in Indices \cup {None}
         /\ path \in Indices \cup {None} /\ linked \subseteq Indices
         /\ LockedAs(i) /\ Opened(i) /\ Granted /\ OneIndex
         /\ pc \in [Insts -> Labels] /\ pc[i] \in Labels
BY DEF FInv, Offsets

LEMMA Grants ==
  ASSUME FInv, NEW i \in Insts, NEW range, "lockinuse" \in range, NEW kind, NEW nd,
         LockOutcome(locks, i, range, kind, nd) = "granted"
  PROVE  \A j \in Insts \ {i} : ~Conflict(locks[j]["lockinuse"], kind)
BY DEF FInv, LockOutcome, Grantable

(* An instance that gives up its handles leaves the others alone. *)
LEMMA LeaveFile ==
  ASSUME FInv, NEW i \in Insts, Closed({i}), Goto(i, "closed"), path' = path,
         \/ linked' = linked
         \/ locks[i]["lockinuse"] = "exclusive" /\ linked' \subseteq linked
  PROVE  FInv'
<1>1. "closed" \in Labels /\ "unlocked" \in LockKinds /\ "closed" \notin Joining
  BY DEF Labels, LockKinds, Joining
<1>2. pc' \in [Insts -> Labels] /\ pc'[i] = "closed" /\ \A j \in Insts \ {i} : pc'[j] = pc[j]
  BY <1>1, Goes
<1>3. path' \in Indices \cup {None} /\ linked' \subseteq Indices
  BY DEF FInv
<1>4. LockedAs(i)' /\ Opened(i)'
  BY <1>2, ClosedFacts DEF LockedAs, Opened, Creating, Removing, Joining, Using, Locking
<1> QED BY <1>1, <1>2, <1>3, <1>4, ClosedFacts, FileStep

LEMMA OpenFile ==
  ASSUME FInv, NEW i \in Insts, OpenStep(i)
  PROVE  FInv'
<1> USE DEF call
<1>0. /\ locks \in [Insts -> [Offsets -> LockKinds]] /\ locks[i]["lockinuse"] \in LockKinds
      /\ temp \in [Insts -> Indices \cup {None}] /\ temp[i] \in Indices \cup {None}
      /\ path \in Indices \cup {None} /\ linked \subseteq Indices
      /\ LockedAs(i) /\ Opened(i) /\ Granted /\ OneIndex
      /\ pc \in [Insts -> Labels] /\ pc[i] \in Labels
  BY StaysFacts
<1>1. /\ "unlocked" \in LockKinds /\ "shared" \in LockKinds /\ "exclusive" \in LockKinds
      /\ "lockinuse" \in Offsets
  BY DEF LockKinds, Offsets
<1>2. {"create", "join", "read", "opentemp", "open", "unavailable", "write", "downgrade", "drop"} \subseteq Labels
  BY DEF Labels, Opening
<1>3. CASE Open(i) /\ LockOutcome(locks, i, Offsets, "exclusive", "zero") = "granted"
  <2>1. /\ pc[i] = "closed" /\ locks' = SetRange(locks, i, Offsets, "exclusive") /\ Goto(i, "create")
        /\ path' = path /\ linked' = linked /\ temp' = temp
    BY <1>3 DEF Open
  <2>2. pc' \in [Insts -> Labels] /\ pc'[i] = "create" /\ \A j \in Insts \ {i} : pc'[j] = pc[j]
    BY <1>2, <2>1, Goes
  <2>3. /\ locks' \in [Insts -> [Offsets -> LockKinds]] /\ locks'[i]["lockinuse"] = "exclusive"
        /\ \A j \in Insts \ {i} : locks'[j] = locks[j]
    BY <1>0, <1>1, <2>1, SetRangeFacts
  <2>4. \A j \in Insts \ {i} : ~Conflict(locks[j]["lockinuse"], "exclusive")
    BY <1>1, <1>3, Grants
  <2>5. LockedAs(i)' /\ Opened(i)'
    BY <2>2, <2>3 DEF LockedAs, Opened, Creating, Removing, Joining, Using, Locking
  <2> QED BY <1>0, <1>1, <2>1, <2>2, <2>3, <2>4, <2>5, FileStep
<1>4. CASE Open(i) /\ LockOutcome(locks, i, Offsets, "exclusive", "zero") # "granted"
  <2>1. /\ pc[i] = "closed" /\ locks' = locks /\ Goto(i, "join")
        /\ path' = path /\ linked' = linked /\ temp' = temp
    BY <1>4 DEF Open
  <2>2. pc' \in [Insts -> Labels] /\ pc'[i] = "join" /\ \A j \in Insts \ {i} : pc'[j] = pc[j]
    BY <1>2, <2>1, Goes
  <2>3. locks[i]["lockinuse"] = "unlocked"
    BY <1>0, <2>1 DEF LockedAs
  <2>4. LockedAs(i)' /\ Opened(i)'
    BY <2>1, <2>2, <2>3 DEF LockedAs, Opened, Creating, Removing, Joining, Using, Locking
  <2> QED BY <1>0, <1>1, <2>1, <2>2, <2>3, <2>4, FileStep
<1>5. CASE Join(i)
  <2>1. /\ pc[i] = "join" /\ locks' = SetRange(locks, i, {"lockinuse"}, "shared") /\ Goto(i, "read")
        /\ LockOutcome(locks, i, {"lockinuse"}, "shared", "none") = "granted"
        /\ path' = path /\ linked' = linked /\ temp' = temp
    BY <1>5 DEF Join
  <2>2. pc' \in [Insts -> Labels] /\ pc'[i] = "read" /\ \A j \in Insts \ {i} : pc'[j] = pc[j]
    BY <1>2, <2>1, Goes
  <2>3. /\ locks' \in [Insts -> [Offsets -> LockKinds]] /\ locks'[i]["lockinuse"] = "shared"
        /\ \A j \in Insts \ {i} : locks'[j] = locks[j]
    BY <1>0, <1>1, <2>1, SetRangeFacts
  <2>4. \A j \in Insts \ {i} : ~Conflict(locks[j]["lockinuse"], "shared")
    BY <1>1, <2>1, Grants
  <2>5. LockedAs(i)' /\ Opened(i)' /\ pc'[i] \in Joining
    BY <2>2, <2>3 DEF LockedAs, Opened, Creating, Removing, Joining, Using, Locking
  <2> QED BY <1>0, <1>1, <2>1, <2>2, <2>3, <2>4, <2>5, FileStep
<1>6. CASE ReadPath(i)
  <2>1. /\ pc[i] = "read" /\ locks' = locks /\ Goto(i, "opentemp")
        /\ path' = path /\ linked' = linked /\ temp' = [temp EXCEPT ![i] = path]
    BY <1>6 DEF ReadPath, file
  <2>2. pc' \in [Insts -> Labels] /\ pc'[i] = "opentemp" /\ \A j \in Insts \ {i} : pc'[j] = pc[j]
    BY <1>2, <2>1, Goes
  <2>3. temp' \in [Insts -> Indices \cup {None}] /\ temp'[i] = path /\ \A j \in Insts \ {i} : temp'[j] = temp[j]
    BY <1>0, <2>1
  <2>4. locks[i]["lockinuse"] = "shared"
    BY <1>0, <2>1 DEF LockedAs, Joining
  <2>5. LockedAs(i)' /\ Opened(i)' /\ pc'[i] \in Joining
    BY <2>1, <2>2, <2>3, <2>4 DEF LockedAs, Opened, Creating, Removing, Joining, Using, Locking
  <2> QED BY <1>0, <1>1, <2>1, <2>2, <2>3, <2>4, <2>5, FileStep
<1>7. CASE OpenTemp(i)
  <2>1. /\ pc[i] = "opentemp" /\ locks' = locks
        /\ Goto(i, IF temp[i] \in linked THEN "open" ELSE "unavailable")
        /\ path' = path /\ linked' = linked /\ temp' = temp
    BY <1>7 DEF OpenTemp, file
  <2>2. locks[i]["lockinuse"] = "shared" /\ temp[i] = path
    BY <1>0, <2>1 DEF LockedAs, Joining, Opened
  <2>3. CASE temp[i] \in linked
    <3>1. pc' \in [Insts -> Labels] /\ pc'[i] = "open" /\ \A j \in Insts \ {i} : pc'[j] = pc[j]
      BY <1>2, <2>1, <2>3, Goes
    <3>2. LockedAs(i)' /\ Opened(i)'
      BY <1>0, <2>1, <2>2, <2>3, <3>1 DEF LockedAs, Opened, Creating, Removing, Joining, Using, Locking
    <3> QED BY <1>0, <1>1, <2>1, <2>2, <2>3, <3>1, <3>2, FileStep
  <2>4. CASE temp[i] \notin linked
    <3>1. pc' \in [Insts -> Labels] /\ pc'[i] = "unavailable" /\ \A j \in Insts \ {i} : pc'[j] = pc[j]
      BY <1>2, <2>1, <2>4, Goes
    <3>2. LockedAs(i)' /\ Opened(i)' /\ pc'[i] \in Joining
      BY <2>1, <2>2, <3>1 DEF LockedAs, Opened, Creating, Removing, Joining, Using, Locking
    <3> QED BY <1>0, <1>1, <2>1, <2>2, <3>1, <3>2, FileStep
  <2> QED BY <2>3, <2>4
<1>8. CASE Unavailable(i)
  BY <1>8, LeaveFile DEF Unavailable
<1>9. CASE Create(i)
  <2>1. PICK x \in Indices : linked' = linked \cup {x} /\ temp' = [temp EXCEPT ![i] = x]
    BY <1>9 DEF Create
  <2>2. pc[i] = "create" /\ locks' = locks /\ Goto(i, "write") /\ path' = path
    BY <1>9 DEF Create
  <2>3. pc' \in [Insts -> Labels] /\ pc'[i] = "write" /\ \A j \in Insts \ {i} : pc'[j] = pc[j]
    BY <1>2, <2>2, Goes
  <2>4. temp' \in [Insts -> Indices \cup {None}] /\ temp'[i] = x /\ \A j \in Insts \ {i} : temp'[j] = temp[j]
    BY <1>0, <2>1
  <2>5. locks[i]["lockinuse"] = "exclusive" /\ linked \subseteq linked' /\ linked' \subseteq Indices
    BY <1>0, <2>1, <2>2 DEF LockedAs, Creating
  <2>6. LockedAs(i)' /\ Opened(i)'
    BY <2>1, <2>2, <2>3, <2>4, <2>5 DEF LockedAs, Opened, Creating, Removing, Joining, Using, Locking
  <2> QED BY <1>0, <1>1, <2>1, <2>2, <2>3, <2>4, <2>5, <2>6, FileStep
<1>10. CASE WritePath(i)
  <2>1. /\ pc[i] = "write" /\ locks' = locks /\ Goto(i, "downgrade")
        /\ path' = temp[i] /\ linked' = linked /\ temp' = temp
    BY <1>10 DEF WritePath
  <2>2. pc' \in [Insts -> Labels] /\ pc'[i] = "downgrade" /\ \A j \in Insts \ {i} : pc'[j] = pc[j]
    BY <1>2, <2>1, Goes
  <2>3. locks[i]["lockinuse"] = "exclusive" /\ temp[i] \in linked /\ temp[i] \in Indices
    BY <1>0, <2>1 DEF LockedAs, Creating, Opened
  <2>4. LockedAs(i)' /\ Opened(i)'
    BY <2>1, <2>2, <2>3 DEF LockedAs, Opened, Creating, Removing, Joining, Using, Locking
  <2> QED BY <1>0, <1>1, <2>1, <2>2, <2>3, <2>4, FileStep
<1>11. CASE Downgrade(i)
  <2>1. /\ pc[i] = "downgrade" /\ locks' = SetRange(locks, i, {"lockinuse"}, "shared") /\ Goto(i, "drop")
        /\ path' = path /\ linked' = linked /\ temp' = temp
    BY <1>11 DEF Downgrade
  <2>2. pc' \in [Insts -> Labels] /\ pc'[i] = "drop" /\ \A j \in Insts \ {i} : pc'[j] = pc[j]
    BY <1>2, <2>1, Goes
  <2>3. locks[i]["lockinuse"] = "exclusive" /\ temp[i] \in linked /\ temp[i] \in Indices /\ temp[i] = path
    BY <1>0, <2>1 DEF LockedAs, Creating, Opened
  <2>4. /\ locks' \in [Insts -> [Offsets -> LockKinds]] /\ locks'[i]["lockinuse"] = "shared"
        /\ \A j \in Insts \ {i} : locks'[j] = locks[j]
    BY <1>0, <1>1, <2>1, SetRangeFacts
  <2>5. LockedAs(i)' /\ Opened(i)'
    BY <2>1, <2>2, <2>3, <2>4 DEF LockedAs, Opened, Creating, Removing, Joining, Using, Locking
  <2> QED BY <1>0, <1>1, <2>1, <2>2, <2>3, <2>4, <2>5, FileStep
<1>12. CASE DropExclusive(i)
  <2>1. /\ pc[i] = "drop" /\ locks' = SetRange(locks, i, Offsets, "unlocked") /\ Goto(i, "open")
        /\ path' = path /\ linked' = linked /\ temp' = temp
    BY <1>12 DEF DropExclusive
  <2>2. pc' \in [Insts -> Labels] /\ pc'[i] = "open" /\ \A j \in Insts \ {i} : pc'[j] = pc[j]
    BY <1>2, <2>1, Goes
  <2>3. /\ locks' \in [Insts -> [Offsets -> LockKinds]] /\ locks'[i]["lockinuse"] = "unlocked"
        /\ \A j \in Insts \ {i} : locks'[j] = locks[j]
    BY <1>0, <1>1, <2>1, SetRangeFacts
  <2>4. LockedAs(i)' /\ Opened(i)'
    BY <1>0, <2>1, <2>2, <2>3 DEF LockedAs, Opened, Creating, Removing, Joining, Using, Locking
  <2> QED BY <1>0, <1>1, <2>1, <2>2, <2>3, <2>4, FileStep
<1>13. CASE OpenFails(i)
  BY <1>13, LeaveFile DEF OpenFails
<1> QED BY <1>3, <1>4, <1>5, <1>6, <1>7, <1>8, <1>9, <1>10, <1>11, <1>12, <1>13 DEF OpenStep

LEMMA CloseFile ==
  ASSUME FInv, NEW i \in Insts, CloseStep(i)
  PROVE  FInv'
<1> USE DEF call
<1>0. /\ locks \in [Insts -> [Offsets -> LockKinds]] /\ locks[i]["lockinuse"] \in LockKinds
      /\ temp \in [Insts -> Indices \cup {None}] /\ temp[i] \in Indices \cup {None}
      /\ path \in Indices \cup {None} /\ linked \subseteq Indices
      /\ LockedAs(i) /\ Opened(i) /\ Granted /\ OneIndex
      /\ pc \in [Insts -> Labels] /\ pc[i] \in Labels
  BY StaysFacts
<1>1. /\ "unlocked" \in LockKinds /\ "exclusive" \in LockKinds /\ "lockinuse" \in Offsets
  BY DEF LockKinds, Offsets
<1>2. {"last", "truncate", "unlink", "aborted"} \subseteq Labels
  BY DEF Labels, Closing
<1>3. CASE Close(i)
  <2>1. /\ pc[i] = "open" /\ locks' = SetRange(locks, i, {"lockinuse"}, "unlocked") /\ Goto(i, "last")
        /\ path' = path /\ linked' = linked /\ temp' = temp
    BY <1>3 DEF Close
  <2>2. pc' \in [Insts -> Labels] /\ pc'[i] = "last" /\ \A j \in Insts \ {i} : pc'[j] = pc[j]
    BY <1>2, <2>1, Goes
  <2>3. /\ locks' \in [Insts -> [Offsets -> LockKinds]] /\ locks'[i]["lockinuse"] = "unlocked"
        /\ \A j \in Insts \ {i} : locks'[j] = locks[j]
    BY <1>0, <1>1, <2>1, SetRangeFacts
  <2>4. LockedAs(i)' /\ Opened(i)'
    BY <1>0, <2>1, <2>2, <2>3 DEF LockedAs, Opened, Creating, Removing, Joining, Using, Locking
  <2> QED BY <1>0, <1>1, <2>1, <2>2, <2>3, <2>4, FileStep
<1>4. CASE TryLast(i) /\ LockOutcome(locks, i, Offsets, "exclusive", "zero") = "granted"
  <2>1. /\ pc[i] = "last" /\ locks' = SetRange(locks, i, Offsets, "exclusive") /\ Goto(i, "truncate")
        /\ path' = path /\ linked' = linked /\ temp' = temp
    BY <1>4 DEF TryLast
  <2>2. pc' \in [Insts -> Labels] /\ pc'[i] = "truncate" /\ \A j \in Insts \ {i} : pc'[j] = pc[j]
    BY <1>2, <2>1, Goes
  <2>3. /\ locks' \in [Insts -> [Offsets -> LockKinds]] /\ locks'[i]["lockinuse"] = "exclusive"
        /\ \A j \in Insts \ {i} : locks'[j] = locks[j]
    BY <1>0, <1>1, <2>1, SetRangeFacts
  <2>4. \A j \in Insts \ {i} : ~Conflict(locks[j]["lockinuse"], "exclusive")
    BY <1>1, <1>4, Grants
  <2>5. LockedAs(i)' /\ Opened(i)'
    BY <1>0, <2>1, <2>2, <2>3 DEF LockedAs, Opened, Creating, Removing, Joining, Using, Locking
  <2> QED BY <1>0, <1>1, <2>1, <2>2, <2>3, <2>4, <2>5, FileStep
<1>5. CASE TryLast(i) /\ LockOutcome(locks, i, Offsets, "exclusive", "zero") # "granted"
  BY <1>5, LeaveFile DEF TryLast
<1>6. CASE Truncate(i)
  <2>1. /\ pc[i] = "truncate" /\ locks' = locks /\ Goto(i, "unlink")
        /\ path' = None /\ linked' = linked /\ temp' = temp
    BY <1>6 DEF Truncate
  <2>2. pc' \in [Insts -> Labels] /\ pc'[i] = "unlink" /\ \A j \in Insts \ {i} : pc'[j] = pc[j]
    BY <1>2, <2>1, Goes
  <2>3. locks[i]["lockinuse"] = "exclusive" /\ temp[i] \in Indices
    BY <1>0, <2>1 DEF LockedAs, Removing, Opened
  <2>4. LockedAs(i)' /\ Opened(i)'
    BY <2>1, <2>2, <2>3 DEF LockedAs, Opened, Creating, Removing, Joining, Using, Locking
  <2> QED BY <1>0, <1>1, <2>1, <2>2, <2>3, <2>4, FileStep
<1>7. CASE UnlinkTemp(i) /\ temp[i] \in linked
  <2>1. /\ pc[i] = "unlink" /\ path' = path /\ linked' = linked \ {temp[i]} /\ Closed({i}) /\ Goto(i, "closed")
    BY <1>7 DEF UnlinkTemp
  <2>2. locks[i]["lockinuse"] = "exclusive"
    BY <1>0, <2>1 DEF LockedAs, Removing
  <2> QED BY <2>1, <2>2, LeaveFile
<1>8. CASE UnlinkTemp(i) /\ temp[i] \notin linked
  <2>1. /\ pc[i] = "unlink" /\ locks' = locks /\ Goto(i, "aborted")
        /\ path' = path /\ linked' = linked /\ temp' = temp
    BY <1>8 DEF UnlinkTemp
  <2>2. pc' \in [Insts -> Labels] /\ pc'[i] = "aborted" /\ \A j \in Insts \ {i} : pc'[j] = pc[j]
    BY <1>2, <2>1, Goes
  <2>3. locks[i]["lockinuse"] = "exclusive" /\ temp[i] \in Indices
    BY <1>0, <2>1 DEF LockedAs, Removing, Opened
  <2>4. LockedAs(i)' /\ Opened(i)'
    BY <2>1, <2>2, <2>3 DEF LockedAs, Opened, Creating, Removing, Joining, Using, Locking
  <2> QED BY <1>0, <1>1, <2>1, <2>2, <2>3, <2>4, FileStep
<1> QED BY <1>3, <1>4, <1>5, <1>6, <1>7, <1>8 DEF CloseStep

(* lock() and unlock() leave the lock file alone. *)
LEMMA LockFile ==
  ASSUME FInv, NEW i \in Insts, LockStep(i)
  PROVE  /\ FInv'
         /\ UNCHANGED <<file, temp>>
         /\ pc[i] \in {"open"} \cup Using /\ pc'[i] \in {"open"} \cup Using
         /\ \A j \in Insts \ {i} : pc'[j] = pc[j]
<1>0. /\ locks \in [Insts -> [Offsets -> LockKinds]] /\ locks[i]["lockinuse"] \in LockKinds
      /\ temp \in [Insts -> Indices \cup {None}] /\ temp[i] \in Indices \cup {None}
      /\ path \in Indices \cup {None} /\ linked \subseteq Indices
      /\ LockedAs(i) /\ Opened(i) /\ Granted /\ OneIndex
      /\ pc \in [Insts -> Labels] /\ pc[i] \in Labels
  BY StaysFacts
<1>1. /\ UNCHANGED <<file, temp>> /\ pc[i] \in {"open"} \cup Using
      /\ \E label \in {"open"} \cup Using : pc' = [pc EXCEPT ![i] = label]
  <2>1. pc = [pc EXCEPT ![i] = pc[i]]
    BY <1>0
  <2>2. CASE Lock(i)
    BY <2>2 DEF Lock, Using, Locking, Goto
  <2>3. CASE TakeSlot(i)
    BY <2>3 DEF TakeSlot, Using, Locking, Goto
  <2>4. CASE Contend(i)
    BY <2>4 DEF Contend, Using, Locking, Goto
  <2>5. CASE Undo(i)
    BY <2>1, <2>5 DEF Undo, Using, Locking
  <2>6. CASE TimeOut(i)
    BY <2>6 DEF TimeOut, Using, Locking, Goto
  <2>7. CASE Retry(i)
    BY <2>7 DEF Retry, Using, Locking, Goto
  <2>8. CASE Expire(i)
    BY <2>1, <2>8 DEF Expire, Using, Locking
  <2>9. CASE Unlock(i)
    BY <2>9 DEF Unlock, Using, Locking, Goto
  <2>10. CASE GiveSlot(i)
    BY <2>1, <2>10 DEF GiveSlot, Using, Locking, Goto
  <2> QED BY <2>2, <2>3, <2>4, <2>5, <2>6, <2>7, <2>8, <2>9, <2>10 DEF LockStep
<1>2. PICK label \in {"open"} \cup Using : pc' = [pc EXCEPT ![i] = label]
  BY <1>1
<1>3. pc' \in [Insts -> Labels] /\ pc'[i] = label /\ \A j \in Insts \ {i} : pc'[j] = pc[j]
  BY <1>0, <1>2 DEF Labels
<1>4. /\ locks' = locks /\ path' = path /\ linked' = linked /\ temp' = temp
  BY <1>1 DEF file
<1>5. locks[i]["lockinuse"] \in {"shared", "unlocked"} /\ temp[i] \in Indices
  BY <1>0, <1>1 DEF LockedAs, Opened
<1>6. pc[i] \notin Joining /\ pc'[i] \notin Joining /\ pc'[i] \in {"open"} \cup Using
  BY <1>1, <1>2, <1>3 DEF Joining, Using, Locking
<1>7. LockedAs(i)'
  BY <1>4, <1>5, <1>6 DEF LockedAs, Creating, Removing, Joining, Using, Locking
<1>8. Opened(i)'
  BY <1>4, <1>5, <1>6 DEF Opened, Creating, Removing, Joining, Using, Locking
<1>9. locks[i]["lockinuse"] = "shared" => temp[i] = path /\ path \in linked
  BY <1>0, <1>6 DEF OneIndex, Joining
<1>10. FInv'
  BY <1>0, <1>3, <1>4, <1>7, <1>8, <1>9, FileStep
<1> QED BY <1>1, <1>3, <1>6, <1>10

LEMMA RebootFile ==
  ASSUME FInv, Reboot
  PROVE  FInv'
<1> DEFINE f == [o \in Offsets |-> "unlocked"]
<1>1. f \in [Offsets -> LockKinds] /\ f["lockinuse"] = "unlocked"
  BY DEF LockKinds, Offsets
<1>2. /\ linked' = {} /\ path' = path /\ pc' = [i \in Insts |-> "closed"]
      /\ locks' = [j \in Insts |-> IF j \in Insts THEN f ELSE locks[j]]
      /\ temp' = [j \in Insts |-> IF j \in Insts THEN None ELSE temp[j]]
  BY DEF Reboot, Closed
<1> HIDE DEF f
<1>3. /\ locks' \in [Insts -> [Offsets -> LockKinds]] /\ \A i \in Insts : locks'[i]["lockinuse"] = "unlocked"
  <2> HIDE DEF LockKinds, Offsets
  <2> QED BY <1>1, <1>2
<1>4. pc' \in [Insts -> Labels] /\ \A i \in Insts : pc'[i] = "closed"
  BY <1>2 DEF Labels
<1>5. temp' \in [Insts -> Indices \cup {None}]
  BY <1>2
<1>6. \A i \in Insts : LockedAs(i)' /\ Opened(i)'
  BY <1>3, <1>4 DEF LockedAs, Opened, Creating, Removing, Joining, Using, Locking
<1>7. Granted' /\ OneIndex'
  BY <1>3 DEF Granted, OneIndex, Conflict
<1>8. path' \in Indices \cup {None} /\ linked' \subseteq Indices
  BY <1>2 DEF FInv
<1> QED BY <1>3, <1>4, <1>5, <1>6, <1>7, <1>8 DEF FInv

-----------------------------------------------------------------------------
(* The spinlocks                                                           *)

LEMMA EntFacts ==
  \A s, t : /\ Ent(s, TRUE) = Ent(t, TRUE) <=> s = t
            /\ Ent(s, FALSE) = Ent(t, FALSE) <=> s = t
            /\ Ent(s, TRUE) # Ent(t, FALSE)
BY DEF Ent

LEMMA UserFacts ==
  \A x, s : /\ IsFiniteSet(Readers(x, s)) /\ Cardinality(Readers(x, s)) \in Nat
            /\ \A i \in Insts : /\ i \in Readers(x, s) <=> temp[i] = x /\ Ent(s, FALSE) \in Taking(i)
                                /\ i \in Writers(x, s) <=> temp[i] = x /\ Ent(s, TRUE) \in Taking(i)
<1> TAKE x, s
<1>1. IsFiniteSet(Insts) /\ Readers(x, s) \in SUBSET Insts
  BY MemoryMapAssumption DEF Readers
<1>2. IsFiniteSet(Readers(x, s))
  BY <1>1, FS_Subset
<1>3. Cardinality(Readers(x, s)) \in Nat
  BY <1>2, FS_CardinalityType
<1> QED BY <1>2, <1>3 DEF Readers, Writers

LEMMA SpinlockFacts ==
  ASSUME NEW old \in Spinlock, NEW b \in BOOLEAN
  PROVE  /\ Taken(old, b) \in Spinlock
         /\ (b => Taken(old, b).writer) /\ (~b => Taken(old, b).writer = old.writer)
         /\ Taken(old, b).readers = old.readers + (IF b THEN 0 ELSE 1)
         /\ b \/ old.readers > 0 => Given(old, b) \in Spinlock
         /\ (b => ~Given(old, b).writer) /\ (~b => Given(old, b).writer = old.writer)
         /\ Given(old, b).readers = old.readers - (IF b THEN 0 ELSE 1)
<1>1. Taken(old, b) \in Spinlock
  <2>1. Taken(old, TRUE) \in Spinlock
    BY DEF Taken, Spinlock
  <2>2. Taken(old, FALSE) \in Spinlock
    BY DEF Taken, Spinlock
  <2>3. CASE b = TRUE
    BY <2>1, <2>3
  <2>4. CASE b = FALSE
    BY <2>2, <2>4
  <2> QED BY <2>3, <2>4
<1>2. (b => Taken(old, b).writer) /\ (~b => Taken(old, b).writer = old.writer)
  <2>1. CASE b = TRUE
    <3>1. Taken(old, TRUE).writer
      BY DEF Taken, Spinlock
    <3> QED BY <2>1, <3>1
  <2>2. CASE b = FALSE
    <3>1. Taken(old, FALSE).writer = old.writer
      BY DEF Taken, Spinlock
    <3> QED BY <2>2, <3>1
  <2> QED BY <2>1, <2>2
<1>3. Taken(old, b).readers = old.readers + (IF b THEN 0 ELSE 1)
  BY DEF Taken, Spinlock
<1>4. b \/ old.readers > 0 => Given(old, b) \in Spinlock
  <2>1. Given(old, TRUE) \in Spinlock
    BY DEF Given, Spinlock
  <2>2. old.readers > 0 => Given(old, FALSE) \in Spinlock
    BY DEF Given, Spinlock
  <2>3. CASE b = TRUE
    BY <2>1, <2>3
  <2>4. CASE b = FALSE
    BY <2>2, <2>4
  <2> QED BY <2>3, <2>4
<1>5. (b => ~Given(old, b).writer) /\ (~b => Given(old, b).writer = old.writer)
  <2>1. CASE b = TRUE
    <3>1. ~Given(old, TRUE).writer
      BY DEF Given, Spinlock
    <3> QED BY <2>1, <3>1
  <2>2. CASE b = FALSE
    <3>1. Given(old, FALSE).writer = old.writer
      BY DEF Given, Spinlock
    <3> QED BY <2>2, <3>1
  <2> QED BY <2>1, <2>2
<1>6. Given(old, b).readers = old.readers - (IF b THEN 0 ELSE 1)
  BY DEF Given, Spinlock
<1> QED BY <1>1, <1>2, <1>3, <1>4, <1>5, <1>6

LEMMA AddsEntry ==
  \A A, s, t : /\ Ent(t, TRUE) \in A \cup {Ent(s, TRUE)} <=> Ent(t, TRUE) \in A \/ t = s
               /\ Ent(t, FALSE) \in A \cup {Ent(s, TRUE)} <=> Ent(t, FALSE) \in A
               /\ Ent(t, FALSE) \in A \cup {Ent(s, FALSE)} <=> Ent(t, FALSE) \in A \/ t = s
               /\ Ent(t, TRUE) \in A \cup {Ent(s, FALSE)} <=> Ent(t, TRUE) \in A
BY EntFacts

(* Somebody locks a spinlock. *)
LEMMA TakeCell ==
  ASSUME SInv, NEW i \in Insts, NEW x \in Indices, NEW s \in Slots, NEW b \in BOOLEAN,
         temp[i] = x, temp' = temp, abandoned' = abandoned,
         \A j \in Insts \ {i} : Taking(j)' = Taking(j),
         Taking(i)' = Taking(i) \cup {Ent(s, b)},
         Ent(s, TRUE) \notin Taking(i), Ent(s, FALSE) \notin Taking(i),
         Lockable(index[x][s], b),
         index' = [index EXCEPT ![x][s] = Taken(index[x][s], b)]
  PROVE  /\ index' \in [Indices -> [Slots -> Spinlock]]
         /\ \A y \in Indices, t \in Slots : Cell(y, t)'
<1> DEFINE old == index[x][s]
           new == Taken(old, b)
           R == Readers(x, s)
           W == Writers(x, s)
<1>1. index \in [Indices -> [Slots -> Spinlock]] /\ old \in Spinlock /\ old.readers \in Nat
  BY DEF SInv, Spinlock
<1>2. /\ new \in Spinlock /\ (b => new.writer) /\ (~b => new.writer = old.writer)
      /\ new.readers = old.readers + (IF b THEN 0 ELSE 1)
  BY <1>1, SpinlockFacts
<1>3. ~old.writer /\ (b => old.readers = 0)
  BY DEF Lockable
<1>4. /\ old.readers >= Cardinality(R) /\ (W # {} => old.writer)
      /\ x \notin abandoned => old.readers = Cardinality(R)
  BY DEF SInv, Cell
<1>5. IsFiniteSet(R) /\ Cardinality(R) \in Nat /\ i \notin R /\ W = {}
  BY <1>3, <1>4, UserFacts
<1> HIDE DEF old, new
<1>6. /\ index' \in [Indices -> [Slots -> Spinlock]] /\ index'[x][s] = new
      /\ \A y \in Indices, t \in Slots : y # x \/ t # s => index'[y][t] = index[y][t]
  <2>1. index' = [index EXCEPT ![x][s] = new]
    BY DEF new, old
  <2> HIDE DEF Spinlock
  <2> QED BY <1>1, <1>2, <2>1
<1>7. \A y \in Indices, t \in Slots :
        /\ Readers(y, t)' = IF y = x /\ t = s /\ ~b THEN Readers(y, t) \cup {i} ELSE Readers(y, t)
        /\ Writers(y, t)' = IF y = x /\ t = s /\ b THEN Writers(y, t) \cup {i} ELSE Writers(y, t)
  <2> TAKE y \in Indices, t \in Slots
  <2>1. \A j \in Insts : /\ Ent(t, FALSE) \in Taking(j)' <=> Ent(t, FALSE) \in Taking(j) \/ (j = i /\ t = s /\ ~b)
                         /\ Ent(t, TRUE) \in Taking(j)' <=> Ent(t, TRUE) \in Taking(j) \/ (j = i /\ t = s /\ b)
    <3>1. CASE b = TRUE
      <4>1. Taking(i)' = Taking(i) \cup {Ent(s, TRUE)}
        BY <3>1
      <4>2. /\ Ent(t, FALSE) \in Taking(i)' <=> Ent(t, FALSE) \in Taking(i) \/ (t = s /\ ~b)
            /\ Ent(t, TRUE) \in Taking(i)' <=> Ent(t, TRUE) \in Taking(i) \/ (t = s /\ b)
        <5> DEFINE A == Taking(i)
        <5>1. Taking(i)' = A \cup {Ent(s, TRUE)}
          BY <4>1
        <5> HIDE DEF A
        <5>2. /\ Ent(t, FALSE) \in Taking(i)' <=> Ent(t, FALSE) \in A \/ (t = s /\ ~b)
              /\ Ent(t, TRUE) \in Taking(i)' <=> Ent(t, TRUE) \in A \/ (t = s /\ b)
          BY <3>1, <5>1, AddsEntry
        <5> QED BY <5>2 DEF A
      <4> QED BY <4>2
    <3>2. CASE b = FALSE
      <4>1. Taking(i)' = Taking(i) \cup {Ent(s, FALSE)}
        BY <3>2
      <4>2. /\ Ent(t, FALSE) \in Taking(i)' <=> Ent(t, FALSE) \in Taking(i) \/ (t = s /\ ~b)
            /\ Ent(t, TRUE) \in Taking(i)' <=> Ent(t, TRUE) \in Taking(i) \/ (t = s /\ b)
        <5> DEFINE A == Taking(i)
        <5>1. Taking(i)' = A \cup {Ent(s, FALSE)}
          BY <4>1
        <5> HIDE DEF A
        <5>2. /\ Ent(t, FALSE) \in Taking(i)' <=> Ent(t, FALSE) \in A \/ (t = s /\ ~b)
              /\ Ent(t, TRUE) \in Taking(i)' <=> Ent(t, TRUE) \in A \/ (t = s /\ b)
          BY <3>2, <5>1, AddsEntry
        <5> QED BY <5>2 DEF A
      <4> QED BY <4>2
    <3> QED BY <3>1, <3>2
  <2>2. /\ Readers(y, t)' = {j \in Insts : temp[j] = y /\ Ent(t, FALSE) \in Taking(j)'}
        /\ Writers(y, t)' = {j \in Insts : temp[j] = y /\ Ent(t, TRUE) \in Taking(j)'}
    BY DEF Readers, Writers
  <2> QED BY <2>1, <2>2 DEF Readers, Writers
<1>8. ASSUME NEW y \in Indices, NEW t \in Slots, y # x \/ t # s PROVE Cell(y, t)'
  <2>1. Writers(y, t)' = Writers(y, t) /\ Readers(y, t)' = Readers(y, t) /\ index'[y][t] = index[y][t]
    BY <1>6, <1>7, <1>8
  <2>2. Cell(y, t)
    BY DEF SInv
  <2> QED BY <2>1, <2>2 DEF Cell
<1> HIDE DEF R, W
<1>9. CASE b
  <2>1. R = {}
    BY <1>1, <1>3, <1>4, <1>5, <1>9, FS_EmptySet
  <2>2. Writers(x, s)' = {i} /\ Readers(x, s)' = {} /\ Cardinality({}) = 0
    BY <1>5, <1>7, <1>9, <2>1, FS_EmptySet DEF R, W
  <2>3. new.writer /\ new.readers = 0
    BY <1>1, <1>2, <1>3, <1>9
  <2>4. Cell(x, s)'
    BY <1>6, <2>2, <2>3 DEF Cell
  <2> QED BY <1>6, <1>8, <2>4
<1>10. CASE ~b
  <2>1. Writers(x, s)' = {} /\ Readers(x, s)' = R \cup {i}
    BY <1>5, <1>7, <1>10 DEF R, W
  <2>2. Cardinality(R \cup {i}) = Cardinality(R) + 1
    BY <1>5, FS_AddElement
  <2>3. ~new.writer /\ new.readers = old.readers + 1
    BY <1>1, <1>2, <1>3, <1>10
  <2>4. /\ new.readers >= Cardinality(R \cup {i})
        /\ x \notin abandoned => new.readers = Cardinality(R \cup {i})
    BY <1>1, <1>4, <1>5, <2>2, <2>3
  <2>5. Cell(x, s)'
    BY <1>6, <2>1, <2>3, <2>4 DEF Cell
  <2> QED BY <1>6, <1>8, <2>5
<1> QED BY <1>9, <1>10

(* Somebody unlocks one that he has. *)
LEMMA GiveCell ==
  ASSUME SInv, NEW i \in Insts, NEW x \in Indices, NEW s \in Slots, NEW b \in BOOLEAN,
         temp[i] = x, temp' = temp, abandoned' = abandoned,
         \A j \in Insts \ {i} : Taking(j)' = Taking(j),
         Taking(i)' = Taking(i) \ {Ent(s, b)}, Ent(s, b) \in Taking(i),
         index' = [index EXCEPT ![x][s] = Given(index[x][s], b)]
  PROVE  /\ index' \in [Indices -> [Slots -> Spinlock]]
         /\ \A y \in Indices, t \in Slots : Cell(y, t)'
<1> DEFINE old == index[x][s]
           new == Given(old, b)
           R == Readers(x, s)
           W == Writers(x, s)
<1>1. index \in [Indices -> [Slots -> Spinlock]] /\ old \in Spinlock /\ old.readers \in Nat
  BY DEF SInv, Spinlock
<1>2. /\ old.readers >= Cardinality(R) /\ (W # {} => old.writer /\ R = {})
      /\ \A j, k \in W : j = k
      /\ x \notin abandoned => old.readers = Cardinality(R) /\ (old.writer => W # {})
  BY DEF SInv, Cell
<1>3. IsFiniteSet(R) /\ Cardinality(R) \in Nat
  BY UserFacts
<1>4. (b => i \in W) /\ (~b => i \in R)
  BY UserFacts
<1> HIDE DEF old, R, W
<1>5. ~b => Cardinality(R) > 0 /\ old.readers > 0
  BY <1>1, <1>2, <1>3, <1>4, FS_EmptySet
<1>6. /\ new \in Spinlock /\ (b => ~new.writer) /\ (~b => new.writer = old.writer)
      /\ new.readers = old.readers - (IF b THEN 0 ELSE 1)
  BY <1>1, <1>5, SpinlockFacts
<1> HIDE DEF new
<1>7. /\ index' \in [Indices -> [Slots -> Spinlock]] /\ index'[x][s] = new
      /\ \A y \in Indices, t \in Slots : y # x \/ t # s => index'[y][t] = index[y][t]
  <2>1. index' = [index EXCEPT ![x][s] = new]
    BY DEF new, old
  <2> HIDE DEF Spinlock
  <2> QED BY <1>1, <1>6, <2>1
<1>8. \A y \in Indices, t \in Slots :
        /\ Readers(y, t)' = IF y = x /\ t = s /\ ~b THEN Readers(y, t) \ {i} ELSE Readers(y, t)
        /\ Writers(y, t)' = IF y = x /\ t = s /\ b THEN Writers(y, t) \ {i} ELSE Writers(y, t)
  <2> TAKE y \in Indices, t \in Slots
  <2>1. \A j \in Insts : /\ Ent(t, FALSE) \in Taking(j)' <=> Ent(t, FALSE) \in Taking(j) /\ ~(j = i /\ t = s /\ ~b)
                         /\ Ent(t, TRUE) \in Taking(j)' <=> Ent(t, TRUE) \in Taking(j) /\ ~(j = i /\ t = s /\ b)
    <3>1. CASE b = TRUE
      <4>1. Taking(i)' = Taking(i) \ {Ent(s, TRUE)}
        BY <3>1
      <4> QED BY <3>1, <4>1, EntFacts
    <3>2. CASE b = FALSE
      <4>1. Taking(i)' = Taking(i) \ {Ent(s, FALSE)}
        BY <3>2
      <4> QED BY <3>2, <4>1, EntFacts
    <3> QED BY <3>1, <3>2
  <2>2. /\ Readers(y, t)' = {j \in Insts : temp[j] = y /\ Ent(t, FALSE) \in Taking(j)'}
        /\ Writers(y, t)' = {j \in Insts : temp[j] = y /\ Ent(t, TRUE) \in Taking(j)'}
    BY DEF Readers, Writers
  <2> QED BY <2>1, <2>2 DEF Readers, Writers
<1>9. ASSUME NEW y \in Indices, NEW t \in Slots, y # x \/ t # s PROVE Cell(y, t)'
  <2>1. Writers(y, t)' = Writers(y, t) /\ Readers(y, t)' = Readers(y, t) /\ index'[y][t] = index[y][t]
    BY <1>7, <1>8, <1>9
  <2>2. Cell(y, t)
    BY DEF SInv
  <2> QED BY <2>1, <2>2 DEF Cell
<1>10. CASE b
  <2>1. W = {i} /\ R = {}
    BY <1>2, <1>4, <1>10
  <2>2. Writers(x, s)' = {} /\ Readers(x, s)' = {} /\ Cardinality({}) = 0
    BY <1>8, <1>10, <2>1, FS_EmptySet DEF R, W
  <2>3. ~new.writer /\ new.readers = old.readers
    BY <1>1, <1>6, <1>10
  <2>4. new.readers >= 0 /\ (x \notin abandoned => new.readers = 0)
    BY <1>1, <1>2, <2>1, <2>2, <2>3
  <2>5. Cell(x, s)'
    BY <1>7, <2>2, <2>3, <2>4 DEF Cell
  <2> QED BY <1>7, <1>9, <2>5
<1>11. CASE ~b
  <2>1. W = {}
    BY <1>2, <1>4, <1>11
  <2>2. Writers(x, s)' = {} /\ Readers(x, s)' = R \ {i}
    BY <1>8, <1>11, <2>1 DEF R, W
  <2>3. Cardinality(R \ {i}) = Cardinality(R) - 1
    BY <1>3, <1>4, <1>11, FS_RemoveElement
  <2>4. new.readers = old.readers - 1 /\ (x \notin abandoned => ~new.writer)
    BY <1>1, <1>2, <1>6, <1>11, <2>1
  <2>5. /\ new.readers >= Cardinality(R \ {i})
        /\ x \notin abandoned => new.readers = Cardinality(R \ {i})
    BY <1>1, <1>2, <1>3, <2>3, <2>4
  <2>6. Cell(x, s)'
    BY <1>7, <2>2, <2>4, <2>5 DEF Cell
  <2> QED BY <1>7, <1>9, <2>6
<1> QED BY <1>10, <1>11

-----------------------------------------------------------------------------
(* The table of a request                                                  *)

LEMMA MinFacts ==
  ASSUME NEW S, S \subseteq Nat, S # {}
  PROVE  Min(S) \in S /\ \A y \in S : Min(S) <= y
<1>1. PICK x \in S : \A y \in S : <<y, x>> \notin OpToRel(<, Nat)
  <2> HIDE DEF OpToRel
  <2> QED BY NatLessThanWellFounded, WFMin
<1>2. \A y \in S : x <= y
  <2> TAKE y \in S
  <2>1. x \in Nat /\ y \in Nat
    OBVIOUS
  <2>2. ~(y < x)
    BY <1>1, <2>1 DEF OpToRel
  <2> QED BY <2>1, <2>2
<1> QED BY <1>2 DEF Min

(* The table of a request is not empty, has no slot twice, and has a slot  *)
(* exclusively if an entity of it is wanted so. *)
LEMMA HashFacts ==
  ASSUME NEW s \in Requests
  PROVE  /\ HashEntities(s) \in Seq(Entry) /\ Len(HashEntities(s)) > 0 /\ Distinct(HashEntities(s))
         /\ \A m \in DOMAIN HashEntities(s), k \in DOMAIN s :
              HashEntities(s)[m].value = Hash[s[k].value] /\ s[k].exclusive => HashEntities(s)[m].exclusive
<1> DEFINE slot(k) == Hash[s[k].value]
           again == {k \in DOMAIN s : \E j \in 1..k - 1 : slot(j) = slot(k)}
           size == IF again = {} THEN Len(s) ELSE Min(again) - 1
           some(k) == \E j \in DOMAIN s : slot(j) = slot(k) /\ s[j].exclusive
           t == HashEntities(s)
<1>1. t = [k \in 1..size |-> [value |-> slot(k), exclusive |-> some(k)]]
  BY DEF HashEntities
<1>2. s \in Seq(Entity) /\ s # << >>
  BY MemoryMapAssumption
<1>3. Len(s) \in Nat /\ Len(s) > 0 /\ DOMAIN s = 1..Len(s) /\ \A k \in 1..Len(s) : s[k] \in Entity
  <2> HIDE DEF Entity
  <2> QED BY <1>2
<1>4. \A k \in 1..Len(s) : slot(k) \in Slots
  BY <1>3, MemoryMapAssumption DEF Entity
<1>5. again \subseteq 1..Len(s) /\ 1 \notin again
  BY <1>3
<1>6. /\ size \in Nat /\ 1 <= size /\ size <= Len(s)
      /\ \A k \in 1..size : k \notin again
  <2> HIDE DEF again
  <2>1. CASE again = {}
    BY <1>3, <2>1
  <2>2. CASE again # {}
    <3>1. again \subseteq Nat
      BY <1>3, <1>5
    <3>2. Min(again) \in again /\ \A y \in again : Min(again) <= y
      BY <2>2, <3>1, MinFacts
    <3>3. Min(again) \in 1..Len(s) /\ Min(again) # 1
      BY <1>5, <3>2
    <3>4. size = Min(again) - 1
      BY <2>2
    <3> HIDE DEF size
    <3> QED BY <1>3, <3>2, <3>3, <3>4
  <2> QED BY <2>1, <2>2
<1>7. \A j, k \in 1..size : j < k => slot(j) # slot(k)
  <2> SUFFICES ASSUME NEW j \in 1..size, NEW k \in 1..size, j < k, slot(j) = slot(k) PROVE FALSE
    OBVIOUS
  <2> HIDE DEF size
  <2>1. k \in DOMAIN s /\ j \in 1..k - 1
    BY <1>3, <1>6
  <2>2. k \in again
    BY <2>1
  <2> QED BY <1>6, <2>2
<1> HIDE DEF size, again
<1>8. DOMAIN t = 1..size /\ \A k \in 1..size : t[k].value = slot(k) /\ t[k].exclusive = some(k)
  <2> HIDE DEF slot, some, t
  <2> QED BY <1>1
<1>9. t \in Seq(Entry) /\ Len(t) = size
  <2>1. \A k \in 1..size : slot(k) \in Slots /\ some(k) \in BOOLEAN
    BY <1>3, <1>4, <1>6
  <2> HIDE DEF slot, some, t
  <2>2. \A k \in 1..size : [value |-> slot(k), exclusive |-> some(k)] \in Entry
    BY <2>1 DEF Entry
  <2>3. t \in [1..size -> Entry]
    <3> HIDE DEF Entry
    <3> QED BY <1>1, <2>2
  <2> HIDE DEF Entry
  <2> QED BY <1>6, <2>3
<1>10. Distinct(t)
  <2> SUFFICES ASSUME NEW j \in DOMAIN t, NEW k \in DOMAIN t, t[j].value = t[k].value PROVE j = k
    BY DEF Distinct
  <2>1. j \in 1..size /\ k \in 1..size /\ slot(j) = slot(k)
    BY <1>8
  <2> HIDE DEF slot, t
  <2> QED BY <1>6, <1>7, <2>1
<1>11. ASSUME NEW m \in DOMAIN t, NEW k \in DOMAIN s, t[m].value = Hash[s[k].value], s[k].exclusive
       PROVE  t[m].exclusive
  BY <1>8, <1>11
<1> QED BY <1>6, <1>9, <1>10, <1>11

(* What it means to go through a table. *)
LEMMA TookNone == \A label, l : label # "unlocking" => Took(label, l, 1) = {}
BY DEF Took

LEMMA EntryFacts ==
  ASSUME NEW l \in Seq(Entry), NEW m \in 1..Len(l)
  PROVE  l[m].value \in Slots /\ l[m].exclusive \in BOOLEAN /\ l[m] = Ent(l[m].value, l[m].exclusive)
<1>1. l[m] \in Entry
  <2> HIDE DEF Entry
  <2> QED OBVIOUS
<1> DEFINE e == l[m]
<1> HIDE DEF e
<1>2. e \in Entry => e.value \in Slots /\ e.exclusive \in BOOLEAN /\ e = Ent(e.value, e.exclusive)
  BY DEF Entry, Ent
<1> QED BY <1>1, <1>2 DEF e

LEMMA SeqFacts ==
  ASSUME NEW l \in Seq(Entry)
  PROVE  Len(l) \in Nat /\ DOMAIN l = 1..Len(l)
OBVIOUS

LEMMA TookNext ==
  ASSUME NEW l \in Seq(Entry), Distinct(l), NEW m \in 1..Len(l),
         NEW label, NEW label2, label # "unlocking", label2 # "unlocking"
  PROVE  /\ Took(label2, l, m + 1) = Took(label, l, m) \cup {l[m]}
         /\ Ent(l[m].value, TRUE) \notin Took(label, l, m)
         /\ Ent(l[m].value, FALSE) \notin Took(label, l, m)
<1>1. Len(l) \in Nat /\ DOMAIN l = 1..Len(l)
  BY SeqFacts
<1>2. Took(label, l, m) = {l[k] : k \in 1..m - 1} /\ Took(label2, l, m + 1) = {l[k] : k \in 1..m}
  BY <1>1 DEF Took
<1>3. 1..m = (1..m - 1) \cup {m}
  BY <1>1
<1>4. ASSUME NEW b, Ent(l[m].value, b) \in Took(label, l, m) PROVE FALSE
  <2>1. PICK k \in 1..m - 1 : l[k] = Ent(l[m].value, b)
    BY <1>2, <1>4
  <2>2. l[k].value = l[m].value
    BY <2>1 DEF Ent
  <2>3. k \in DOMAIN l /\ m \in DOMAIN l /\ k # m
    BY <1>1
  <2> QED BY <2>2, <2>3 DEF Distinct
<1>5. Took(label2, l, m + 1) = Took(label, l, m) \cup {l[m]}
  BY <1>2, <1>3
<1> QED BY <1>4, <1>5

LEMMA TookLess ==
  ASSUME NEW l \in Seq(Entry), Distinct(l), NEW m \in 1..Len(l), m > 1, NEW label, label # "unlocking"
  PROVE  /\ m - 1 \in 1..Len(l) /\ l[m - 1] \in Took(label, l, m)
         /\ Took(label, l, m - 1) = Took(label, l, m) \ {l[m - 1]}
<1>1. Len(l) \in Nat /\ DOMAIN l = 1..Len(l)
  BY SeqFacts
<1> DEFINE p == m - 1
<1>2. p \in 1..Len(l) /\ m = p + 1
  BY <1>1
<1> HIDE DEF p
<1>3. Took(label, l, m) = Took(label, l, p) \cup {l[p]} /\ l[p] \notin Took(label, l, p)
  <2>1. Took(label, l, p + 1) = Took(label, l, p) \cup {l[p]}
    BY <1>2, TookNext
  <2>2. Ent(l[p].value, TRUE) \notin Took(label, l, p)
    BY <1>2, TookNext
  <2>3. Ent(l[p].value, FALSE) \notin Took(label, l, p)
    BY <1>2, TookNext
  <2>4. l[p].exclusive \in BOOLEAN /\ l[p] = Ent(l[p].value, l[p].exclusive)
    BY <1>2, EntryFacts
  <2>5. CASE l[p].exclusive = TRUE
    BY <1>2, <2>1, <2>2, <2>4, <2>5
  <2>6. CASE l[p].exclusive = FALSE
    BY <1>2, <2>1, <2>3, <2>4, <2>6
  <2> QED BY <2>4, <2>5, <2>6
<1>4. p \in 1..Len(l) /\ l[p] \in Took(label, l, m) /\ Took(label, l, p) = Took(label, l, m) \ {l[p]}
  BY <1>2, <1>3
<1> QED BY <1>4 DEF p

LEMMA TookRest ==
  ASSUME NEW l \in Seq(Entry), Distinct(l), NEW m \in 1..Len(l)
  PROVE  /\ l[m] \in Took("unlocking", l, m)
         /\ Took("unlocking", l, m + 1) = Took("unlocking", l, m) \ {l[m]}
         /\ m = Len(l) => Took("unlocking", l, m) \ {l[m]} = {}
<1>1. Len(l) \in Nat /\ DOMAIN l = 1..Len(l)
  BY SeqFacts
<1>2. /\ Took("unlocking", l, m) = {l[k] : k \in m..Len(l)}
      /\ Took("unlocking", l, m + 1) = {l[k] : k \in m + 1..Len(l)}
  BY DEF Took
<1>3. m..Len(l) = (m + 1..Len(l)) \cup {m}
  BY <1>1
<1>4. ASSUME NEW k \in m + 1..Len(l) PROVE l[k] # l[m]
  <2>1. k \in DOMAIN l /\ m \in DOMAIN l /\ k # m
    BY <1>1
  <2> QED BY <2>1 DEF Distinct
<1>5. m = Len(l) => m + 1..Len(l) = {}
  BY <1>1
<1> QED BY <1>2, <1>3, <1>4, <1>5

LEMMA TookAll ==
  ASSUME NEW l \in Seq(Entry)
  PROVE  Took("held", l, Len(l) + 1) = Range(l) /\ Took("unlocking", l, 1) = Range(l)
<1>1. Len(l) \in Nat /\ DOMAIN l = 1..Len(l)
  BY SeqFacts
<1>2. Len(l) + 1 - 1 = Len(l)
  BY <1>1
<1> QED BY <1>1, <1>2 DEF Took, Range

-----------------------------------------------------------------------------
(* Steps of the spinlocks                                                  *)

LEMMA CallFacts ==
  ASSUME SInv, NEW i \in Insts
  PROVE  /\ entities[i] \in Seq(Entity) /\ list[i] \in Seq(Entry) /\ n[i] \in Nat /\ contended[i] \in Nat
         /\ InCall(pc[i], entities[i], list[i], n[i], contended[i])
         /\ Taking(i) = Took(pc[i], list[i], n[i])
         /\ entities = [entities EXCEPT ![i] = entities[i]] /\ list = [list EXCEPT ![i] = list[i]]
         /\ n = [n EXCEPT ![i] = n[i]] /\ contended = [contended EXCEPT ![i] = contended[i]]
<1> DEFINE T == Seq(Entry)
           E == Seq(Entity)
<1>1. entities \in [Insts -> E] /\ list \in [Insts -> T] /\ n \in [Insts -> Nat] /\ contended \in [Insts -> Nat]
  BY DEF SInv
<1> HIDE DEF T, E
<1>2. /\ entities[i] \in E /\ list[i] \in T /\ n[i] \in Nat /\ contended[i] \in Nat
      /\ entities = [entities EXCEPT ![i] = entities[i]] /\ list = [list EXCEPT ![i] = list[i]]
      /\ n = [n EXCEPT ![i] = n[i]] /\ contended = [contended EXCEPT ![i] = contended[i]]
  BY <1>1
<1>3. InCall(pc[i], entities[i], list[i], n[i], contended[i])
  BY DEF SInv, Table
<1>4. Taking(i) = Took(pc[i], list[i], n[i])
  BY DEF Taking, Took
<1> QED BY <1>2, <1>3, <1>4 DEF T, E

(* What instance i has of its call afterwards, however it comes by it. *)
LEMMA CallStep ==
  ASSUME SInv, NEW i \in Insts,
         entities'[i] \in Seq(Entity), list'[i] \in Seq(Entry), n'[i] \in Nat, contended'[i] \in Nat,
         entities' = [entities EXCEPT ![i] = entities'[i]], list' = [list EXCEPT ![i] = list'[i]],
         n' = [n EXCEPT ![i] = n'[i]], contended' = [contended EXCEPT ![i] = contended'[i]],
         \A j \in Insts \ {i} : pc'[j] = pc[j],
         InCall(pc'[i], entities'[i], list'[i], n'[i], contended'[i])
  PROVE  /\ entities' \in [Insts -> Seq(Entity)] /\ list' \in [Insts -> Seq(Entry)]
         /\ n' \in [Insts -> Nat] /\ contended' \in [Insts -> Nat]
         /\ \A j \in Insts : Table(j)'
         /\ Taking(i)' = Took(pc'[i], list'[i], n'[i]) /\ \A j \in Insts \ {i} : Taking(j)' = Taking(j)
<1> DEFINE T == Seq(Entry)
           E == Seq(Entity)
           e == entities'[i]
           l == list'[i]
           m == n'[i]
           c == contended'[i]
<1>1. /\ entities \in [Insts -> E] /\ list \in [Insts -> T] /\ n \in [Insts -> Nat] /\ contended \in [Insts -> Nat]
      /\ e \in E /\ l \in T /\ m \in Nat /\ c \in Nat
  BY DEF SInv
<1>2. /\ entities' = [entities EXCEPT ![i] = e] /\ list' = [list EXCEPT ![i] = l]
      /\ n' = [n EXCEPT ![i] = m] /\ contended' = [contended EXCEPT ![i] = c]
  BY Zenon
<1> HIDE DEF T, E, e, l, m, c
<1>3. entities' \in [Insts -> E] /\ list' \in [Insts -> T] /\ n' \in [Insts -> Nat] /\ contended' \in [Insts -> Nat]
  BY <1>1, <1>2
<1>4. \A j \in Insts \ {i} : entities'[j] = entities[j] /\ list'[j] = list[j] /\ n'[j] = n[j] /\ contended'[j] = contended[j]
  BY <1>1, <1>2
<1>5. Table(i)'
  BY DEF Table
<1>6. \A j \in Insts \ {i} : Table(j)'
  <2> HIDE DEF InCall
  <2> QED BY <1>4 DEF Table, SInv
<1>7. Taking(i)' = Took(pc'[i], list'[i], n'[i])
  BY DEF Taking, Took
<1>8. ASSUME NEW j \in Insts \ {i} PROVE Taking(j)' = Taking(j)
  <2>1. pc'[j] = pc[j] /\ list'[j] = list[j] /\ n'[j] = n[j]
    BY <1>4
  <2>2. Taking(j) = Took(pc[j], list[j], n[j]) /\ Taking(j)' = Took(pc'[j], list'[j], n'[j])
    BY DEF Taking, Took
  <2> QED BY <2>1, <2>2
<1> QED BY <1>3, <1>5, <1>6, <1>7, <1>8 DEF T, E

(* A spinlock that nobody touches, while its users stay or die. *)
LEMMA FrameCell ==
  ASSUME SInv, NEW x \in Indices, NEW s \in Slots, index'[x] = index[x], x \in abandoned => x \in abandoned',
         \A j \in Insts : \/ Taking(j)' = Taking(j) /\ (Taking(j) = {} \/ temp'[j] = temp[j])
                          \/ Taking(j)' = {} /\ (temp[j] = x => x \in abandoned')
  PROVE  Cell(x, s)'
<1>1. Cell(x, s)
  BY DEF SInv
<1>2. /\ Readers(x, s)' = {j \in Insts : temp'[j] = x /\ Ent(s, FALSE) \in Taking(j)'}
      /\ Writers(x, s)' = {j \in Insts : temp'[j] = x /\ Ent(s, TRUE) \in Taking(j)'}
  BY DEF Readers, Writers
<1>3. Readers(x, s)' \subseteq Readers(x, s) /\ Writers(x, s)' \subseteq Writers(x, s)
  BY <1>2 DEF Readers, Writers
<1>4. x \notin abandoned' => Readers(x, s)' = Readers(x, s) /\ Writers(x, s)' = Writers(x, s)
  BY <1>2 DEF Readers, Writers
<1>5. IsFiniteSet(Readers(x, s)) /\ Cardinality(Readers(x, s)) \in Nat
  BY UserFacts
<1> DEFINE R == Readers(x, s)
           Rn == Readers(x, s)'
           W == Writers(x, s)
           Wn == Writers(x, s)'
<1> HIDE DEF R, Rn, W, Wn
<1>6. Cardinality(Rn) <= Cardinality(R) /\ Cardinality(Rn) \in Nat
  <2>1. IsFiniteSet(R) /\ Rn \in SUBSET R
    BY <1>3, <1>5 DEF R, Rn
  <2>2. IsFiniteSet(Rn) /\ Cardinality(Rn) <= Cardinality(R)
    BY <2>1, FS_Subset
  <2> QED BY <2>2, FS_CardinalityType
<1>7. index[x][s].readers \in Nat
  BY DEF SInv, Spinlock
<1>8. /\ index[x][s].readers >= Cardinality(R) /\ (W # {} => index[x][s].writer /\ R = {})
      /\ \A i, j \in W : i = j
      /\ x \notin abandoned => index[x][s].readers = Cardinality(R) /\ (index[x][s].writer => W # {})
  BY <1>1 DEF Cell, R, W
<1>9. /\ index'[x][s].readers >= Cardinality(Rn) /\ (Wn # {} => index'[x][s].writer /\ Rn = {})
      /\ \A i, j \in Wn : i = j
      /\ x \notin abandoned' => index'[x][s].readers = Cardinality(Rn) /\ (index'[x][s].writer => Wn # {})
  <2>1. index'[x][s] = index[x][s] /\ Rn \subseteq R /\ Wn \subseteq W /\ Cardinality(R) \in Nat
    BY <1>3, <1>5 DEF R, Rn, W, Wn
  <2>2. x \notin abandoned' => Rn = R /\ Wn = W
    BY <1>4 DEF R, Rn, W, Wn
  <2>3. index'[x][s].readers >= Cardinality(Rn)
    BY <1>6, <1>7, <1>8, <2>1
  <2> QED BY <1>8, <2>1, <2>2, <2>3
<1> QED BY <1>9 DEF Cell, Rn, Wn

(* An instance that neither locks nor unlocks has nothing. *)
LEMMA IdleStep ==
  ASSUME SInv, NEW i \in Insts, UNCHANGED call, pc[i] \notin Using, pc'[i] \notin Using,
         \A j \in Insts \ {i} : pc'[j] = pc[j]
  PROVE  /\ entities' \in [Insts -> Seq(Entity)] /\ list' \in [Insts -> Seq(Entry)]
         /\ n' \in [Insts -> Nat] /\ contended' \in [Insts -> Nat]
         /\ \A j \in Insts : Table(j)'
         /\ Taking(i) = {} /\ \A j \in Insts : Taking(j)' = Taking(j)
<1>1. /\ entities[i] \in Seq(Entity) /\ list[i] \in Seq(Entry) /\ n[i] \in Nat /\ contended[i] \in Nat
      /\ InCall(pc[i], entities[i], list[i], n[i], contended[i]) /\ Taking(i) = Took(pc[i], list[i], n[i])
  BY CallFacts
<1>2. entities' = entities /\ list' = list /\ n' = n /\ contended' = contended
  BY DEF call
<1>3. /\ entities' = [entities EXCEPT ![i] = entities'[i]] /\ list' = [list EXCEPT ![i] = list'[i]]
      /\ n' = [n EXCEPT ![i] = n'[i]] /\ contended' = [contended EXCEPT ![i] = contended'[i]]
  BY <1>2, CallFacts
<1>4. list[i] = << >> /\ n[i] = 1 /\ InCall(pc'[i], entities'[i], list'[i], n'[i], contended'[i])
  BY <1>1, <1>2 DEF InCall, Using, Locking
<1>5. /\ entities' \in [Insts -> Seq(Entity)] /\ list' \in [Insts -> Seq(Entry)]
      /\ n' \in [Insts -> Nat] /\ contended' \in [Insts -> Nat]
      /\ \A j \in Insts : Table(j)'
      /\ Taking(i)' = Took(pc'[i], list'[i], n'[i]) /\ \A j \in Insts \ {i} : Taking(j)' = Taking(j)
  BY <1>1, <1>2, <1>3, <1>4, CallStep
<1>6. Took(pc'[i], list'[i], n'[i]) = {} /\ Took(pc[i], list[i], n[i]) = {}
  <2>1. pc'[i] # "unlocking" /\ pc[i] # "unlocking"
    BY DEF Using
  <2> QED BY <1>2, <1>4, <2>1, TookNone
<1> QED BY <1>1, <1>5, <1>6

(* ... and comes and goes without anybody noticing. *)
LEMMA IdleSpin ==
  ASSUME SInv, NEW i \in Insts, UNCHANGED call, pc[i] \notin Using, pc'[i] \notin Using,
         \A j \in Insts \ {i} : pc'[j] = pc[j] /\ temp'[j] = temp[j],
         index' = index, abandoned' = abandoned
  PROVE  SInv'
<1>1. /\ entities' \in [Insts -> Seq(Entity)] /\ list' \in [Insts -> Seq(Entry)]
      /\ n' \in [Insts -> Nat] /\ contended' \in [Insts -> Nat]
      /\ \A j \in Insts : Table(j)'
      /\ Taking(i) = {} /\ \A j \in Insts : Taking(j)' = Taking(j)
  BY IdleStep
<1>2. ASSUME NEW x \in Indices, NEW s \in Slots PROVE Cell(x, s)'
  <2>1. \A j \in Insts : Taking(j)' = Taking(j) /\ (Taking(j) = {} \/ temp'[j] = temp[j])
    BY <1>1
  <2>2. index'[x] = index[x] /\ (x \in abandoned => x \in abandoned')
    OBVIOUS
  <2> QED BY <2>1, <2>2, FrameCell
<1>3. index' \in [Indices -> [Slots -> Spinlock]]
  BY DEF SInv
<1> QED BY <1>1, <1>2, <1>3 DEF SInv

LEMMA CreateSpin ==
  ASSUME FInv, SInv, NEW i \in Insts, Create(i)
  PROVE  SInv'
<1>1. /\ pc[i] = "create" /\ Goto(i, "write") /\ UNCHANGED call
  BY DEF Create
<1>2. PICK y \in Indices \ (linked \cup Range(temp)) :
        /\ index' = [index EXCEPT ![y] = Unlocked] /\ temp' = [temp EXCEPT ![i] = y]
        /\ abandoned' = abandoned \ {y}
  BY DEF Create
<1>3. temp \in [Insts -> Indices \cup {None}] /\ pc \in [Insts -> Labels]
  BY DEF FInv
<1>4. pc'[i] = "write" /\ \A j \in Insts \ {i} : pc'[j] = pc[j]
  BY <1>1, <1>3 DEF Goto
<1>5. \A j \in Insts \ {i} : temp'[j] = temp[j] /\ temp[j] # y
  BY <1>2, <1>3 DEF Range
<1>6. pc[i] \notin Using /\ pc'[i] \notin Using
  BY <1>1, <1>4 DEF Using, Locking
<1>7. /\ entities' \in [Insts -> Seq(Entity)] /\ list' \in [Insts -> Seq(Entry)]
      /\ n' \in [Insts -> Nat] /\ contended' \in [Insts -> Nat]
      /\ \A j \in Insts : Table(j)'
      /\ Taking(i) = {} /\ \A j \in Insts : Taking(j)' = Taking(j)
  BY <1>1, <1>4, <1>6, IdleStep
<1>8. Unlocked \in [Slots -> Spinlock] /\ \A s \in Slots : Unlocked[s].readers = 0 /\ ~Unlocked[s].writer
  <2>1. Free \in Spinlock /\ Free.readers = 0 /\ ~Free.writer
    BY DEF Free, Spinlock
  <2> QED BY <2>1 DEF Unlocked
<1> DEFINE T == [Slots -> Spinlock]
<1>9. index' \in [Indices -> T] /\ index'[y] = Unlocked /\ \A x \in Indices \ {y} : index'[x] = index[x]
  <2>1. index \in [Indices -> T] /\ Unlocked \in T
    BY <1>8 DEF SInv
  <2> HIDE DEF T
  <2> QED BY <1>2, <2>1
<1>10. ASSUME NEW x \in Indices \ {y}, NEW s \in Slots PROVE Cell(x, s)'
  <2>1. \A j \in Insts : Taking(j)' = Taking(j) /\ (Taking(j) = {} \/ temp'[j] = temp[j])
    BY <1>5, <1>7
  <2>2. index'[x] = index[x] /\ (x \in abandoned => x \in abandoned')
    BY <1>2, <1>9
  <2> QED BY <2>1, <2>2, FrameCell
<1>11. ASSUME NEW s \in Slots PROVE Cell(y, s)'
  <2>1. /\ Readers(y, s)' = {j \in Insts : temp'[j] = y /\ Ent(s, FALSE) \in Taking(j)'}
        /\ Writers(y, s)' = {j \in Insts : temp'[j] = y /\ Ent(s, TRUE) \in Taking(j)'}
    BY DEF Readers, Writers
  <2>2. Readers(y, s)' = {} /\ Writers(y, s)' = {} /\ Cardinality({}) = 0
    BY <1>5, <1>7, <2>1, FS_EmptySet
  <2>3. index'[y][s].readers = 0 /\ ~index'[y][s].writer
    BY <1>8, <1>9
  <2> QED BY <2>2, <2>3 DEF Cell
<1>12. \A x \in Indices, s \in Slots : Cell(x, s)'
  BY <1>10, <1>11
<1> QED BY <1>7, <1>9, <1>12 DEF SInv

LEMMA OpenSpin ==
  ASSUME FInv, SInv, NEW i \in Insts, OpenStep(i)
  PROVE  SInv'
<1>1. temp \in [Insts -> Indices \cup {None}] /\ pc \in [Insts -> Labels]
  BY DEF FInv
<1>2. CASE Create(i)
  BY <1>2, CreateSpin
<1>3. CASE ~Create(i)
  <2>1. /\ UNCHANGED call /\ index' = index /\ abandoned' = abandoned
    BY <1>3 DEF OpenStep, Open, Join, ReadPath, OpenTemp, Unavailable, WritePath, Downgrade, DropExclusive,
                OpenFails, file
  <2>2. \A j \in Insts \ {i} : temp'[j] = temp[j]
    BY <1>1, <1>3 DEF OpenStep, Open, Join, ReadPath, OpenTemp, Unavailable, WritePath, Downgrade, DropExclusive,
                OpenFails, Closed
  <2>3. pc[i] \notin Using /\ \E label \in Labels \ Using : Goto(i, label)
    BY <1>3 DEF OpenStep, Open, Join, ReadPath, OpenTemp, Unavailable, WritePath, Downgrade, DropExclusive,
                OpenFails, Labels, Opening, Using, Locking
  <2>4. pc'[i] \notin Using /\ \A j \in Insts \ {i} : pc'[j] = pc[j]
    BY <1>1, <2>3 DEF Goto
  <2> QED BY <2>1, <2>2, <2>3, <2>4, IdleSpin
<1> QED BY <1>2, <1>3

LEMMA CloseSpin ==
  ASSUME FInv, SInv, NEW i \in Insts, CloseStep(i)
  PROVE  SInv'
<1>1. temp \in [Insts -> Indices \cup {None}] /\ pc \in [Insts -> Labels]
  BY DEF FInv
<1>2. /\ UNCHANGED call /\ index' = index /\ abandoned' = abandoned
  BY DEF CloseStep, Close, TryLast, Truncate, UnlinkTemp
<1>3. \A j \in Insts \ {i} : temp'[j] = temp[j]
  BY <1>1 DEF CloseStep, Close, TryLast, Truncate, UnlinkTemp, Closed
<1>4. pc[i] \notin Using /\ \E label \in Labels \ Using : Goto(i, label)
  BY DEF CloseStep, Close, TryLast, Truncate, UnlinkTemp, Labels, Closing, Using, Locking
<1>5. pc'[i] \notin Using /\ \A j \in Insts \ {i} : pc'[j] = pc[j]
  BY <1>1, <1>4 DEF Goto
<1> QED BY <1>2, <1>3, <1>4, <1>5, IdleSpin

(* A step of a call that locks and unlocks nothing. *)
LEMMA QuietSpin ==
  ASSUME SInv, NEW i \in Insts,
         entities'[i] \in Seq(Entity), list'[i] \in Seq(Entry), n'[i] \in Nat, contended'[i] \in Nat,
         entities' = [entities EXCEPT ![i] = entities'[i]], list' = [list EXCEPT ![i] = list'[i]],
         n' = [n EXCEPT ![i] = n'[i]], contended' = [contended EXCEPT ![i] = contended'[i]],
         \A j \in Insts \ {i} : pc'[j] = pc[j],
         InCall(pc'[i], entities'[i], list'[i], n'[i], contended'[i]),
         Took(pc'[i], list'[i], n'[i]) = Took(pc[i], list[i], n[i]),
         temp' = temp, index' = index, abandoned' = abandoned
  PROVE  SInv'
<1>1. /\ entities' \in [Insts -> Seq(Entity)] /\ list' \in [Insts -> Seq(Entry)]
      /\ n' \in [Insts -> Nat] /\ contended' \in [Insts -> Nat]
      /\ \A j \in Insts : Table(j)'
      /\ Taking(i)' = Took(pc'[i], list'[i], n'[i]) /\ \A j \in Insts \ {i} : Taking(j)' = Taking(j)
  BY CallStep
<1>2. Taking(i) = Took(pc[i], list[i], n[i])
  BY CallFacts
<1>3. ASSUME NEW x \in Indices, NEW s \in Slots PROVE Cell(x, s)'
  <2>1. \A j \in Insts : Taking(j)' = Taking(j) /\ (Taking(j) = {} \/ temp'[j] = temp[j])
    BY <1>1, <1>2
  <2>2. index'[x] = index[x] /\ (x \in abandoned => x \in abandoned')
    OBVIOUS
  <2> QED BY <2>1, <2>2, FrameCell
<1>4. index' \in [Indices -> [Slots -> Spinlock]]
  BY DEF SInv
<1> QED BY <1>1, <1>3, <1>4 DEF SInv

LEMMA Domains ==
  ASSUME FInv, SInv
  PROVE  /\ DOMAIN entities = Insts /\ DOMAIN list = Insts /\ DOMAIN n = Insts /\ DOMAIN contended = Insts
         /\ DOMAIN pc = Insts /\ pc = [j \in Insts |-> pc[j]]
<1>1. DOMAIN pc = Insts /\ pc = [j \in Insts |-> pc[j]]
  BY DEF FInv
<1>2. DOMAIN entities = Insts /\ DOMAIN list = Insts
  <2> DEFINE T == Seq(Entry)
             E == Seq(Entity)
  <2>1. entities \in [Insts -> E] /\ list \in [Insts -> T]
    BY DEF SInv
  <2> HIDE DEF T, E
  <2> QED BY <2>1
<1>3. DOMAIN n = Insts /\ DOMAIN contended = Insts
  BY DEF SInv
<1> QED BY <1>1, <1>2, <1>3

LEMMA LockSpin ==
  ASSUME FInv, SInv, NEW i \in Insts, Lock(i)
  PROVE  SInv'
<1>1. PICK s \in Requests :
        /\ entities' = [entities EXCEPT ![i] = s] /\ list' = [list EXCEPT ![i] = HashEntities(s)]
  BY DEF Lock
<1>2. pc[i] = "open" /\ Goto(i, "try") /\ n' = n /\ contended' = contended
  BY DEF Lock
<1>3. temp' = temp /\ index' = index /\ abandoned' = abandoned
  BY DEF Lock, file
<1> DEFINE h == HashEntities(s)
<1>4. s \in Seq(Entity) /\ h \in Seq(Entry) /\ Len(h) > 0 /\ Distinct(h)
  BY HashFacts, MemoryMapAssumption
<1>5. list' = [list EXCEPT ![i] = h]
  BY <1>1
<1> HIDE DEF h
<1>6. entities'[i] = s /\ list'[i] = h
  BY <1>1, <1>5, Domains
<1>7. pc'[i] = "try" /\ \A j \in Insts \ {i} : pc'[j] = pc[j]
  BY <1>2, Domains DEF Goto
<1>8. n[i] = 1 /\ contended[i] \in Nat
  BY <1>2, CallFacts DEF InCall, Using, Locking
<1>9. n' = [n EXCEPT ![i] = n[i]] /\ contended' = [contended EXCEPT ![i] = contended[i]]
  BY <1>2, CallFacts
<1>10. InCall("try", s, h, 1, contended[i])
  <2>1. 1 \in 1..Len(h)
    BY <1>4, SeqFacts
  <2>2. Range(h) = Range(HashEntities(s))
    BY DEF h
  <2> QED BY <1>4, <2>1, <2>2 DEF InCall, Using, Locking
<1>11. Took("try", h, 1) = {} /\ Took("open", list[i], 1) = {}
  BY TookNone
<1>12. entities' = [entities EXCEPT ![i] = entities'[i]] /\ list' = [list EXCEPT ![i] = list'[i]]
  BY <1>1, <1>5, <1>6
<1>13. n' = [n EXCEPT ![i] = n'[i]] /\ contended' = [contended EXCEPT ![i] = contended'[i]]
  BY <1>2, <1>9
<1>14. n'[i] = 1 /\ contended'[i] = contended[i] /\ n'[i] \in Nat /\ contended'[i] \in Nat
  BY <1>2, <1>8
<1>15. entities'[i] \in Seq(Entity) /\ list'[i] \in Seq(Entry)
  BY <1>4, <1>6
<1>16. InCall(pc'[i], entities'[i], list'[i], n'[i], contended'[i])
  BY <1>6, <1>7, <1>10, <1>14
<1>17. Took(pc'[i], list'[i], n'[i]) = Took(pc[i], list[i], n[i])
  BY <1>2, <1>6, <1>7, <1>8, <1>11, <1>14
<1> QED BY <1>3, <1>7, <1>12, <1>13, <1>14, <1>15, <1>16, <1>17, QuietSpin

LEMMA ContendSpin ==
  ASSUME FInv, SInv, NEW i \in Insts, Contend(i)
  PROVE  SInv'
<1>1. /\ pc[i] = "try" /\ Goto(i, "undo") /\ contended' = [contended EXCEPT ![i] = n[i]]
      /\ entities' = entities /\ list' = list /\ n' = n
  BY DEF Contend
<1>2. temp' = temp /\ index' = index /\ abandoned' = abandoned
  BY DEF Contend, file
<1>3. pc'[i] = "undo" /\ contended'[i] = n[i] /\ \A j \in Insts \ {i} : pc'[j] = pc[j]
  BY <1>1, Domains DEF Goto
<1>4. /\ entities[i] \in Seq(Entity) /\ list[i] \in Seq(Entry) /\ n[i] \in Nat
      /\ entities' = [entities EXCEPT ![i] = entities[i]] /\ list' = [list EXCEPT ![i] = list[i]]
      /\ n' = [n EXCEPT ![i] = n[i]]
  BY <1>1, CallFacts
<1>5. InCall("undo", entities[i], list[i], n[i], n[i])
  <2>1. InCall("try", entities[i], list[i], n[i], contended[i])
    BY <1>1, CallFacts
  <2> QED BY <2>1 DEF InCall, Using, Locking
<1>6. Took("undo", list[i], n[i]) = Took("try", list[i], n[i])
  BY DEF Took
<1> QED BY <1>1, <1>2, <1>3, <1>4, <1>5, <1>6, QuietSpin

LEMMA TimeOutSpin ==
  ASSUME FInv, SInv, NEW i \in Insts, TimeOut(i)
  PROVE  SInv'
<1>1. /\ pc[i] = "undo" /\ n[i] = 1 /\ Goto(i, "open")
      /\ entities' = [entities EXCEPT ![i] = << >>] /\ list' = [list EXCEPT ![i] = << >>]
      /\ n' = [n EXCEPT ![i] = 1] /\ contended' = [contended EXCEPT ![i] = 0]
  BY DEF TimeOut, Leave
<1>2. temp' = temp /\ index' = index /\ abandoned' = abandoned
  BY DEF TimeOut, file
<1>3. pc'[i] = "open" /\ \A j \in Insts \ {i} : pc'[j] = pc[j]
  BY <1>1, Domains DEF Goto
<1>4. entities'[i] = << >> /\ list'[i] = << >> /\ n'[i] = 1 /\ contended'[i] = 0
  BY <1>1, Domains
<1>5. << >> \in Seq(Entity) /\ << >> \in Seq(Entry)
  OBVIOUS
<1>6. InCall("open", << >>, << >>, 1, 0)
  BY DEF InCall, Using, Locking
<1>7. Took("open", << >>, 1) = {} /\ Took("undo", list[i], 1) = {}
  BY TookNone
<1>8. /\ entities' = [entities EXCEPT ![i] = entities'[i]] /\ list' = [list EXCEPT ![i] = list'[i]]
      /\ n' = [n EXCEPT ![i] = n'[i]] /\ contended' = [contended EXCEPT ![i] = contended'[i]]
  BY <1>1, <1>4
<1>9. entities'[i] \in Seq(Entity) /\ list'[i] \in Seq(Entry) /\ n'[i] \in Nat /\ contended'[i] \in Nat
  BY <1>4, <1>5
<1>10. InCall(pc'[i], entities'[i], list'[i], n'[i], contended'[i])
  BY <1>3, <1>4, <1>6
<1>11. Took(pc'[i], list'[i], n'[i]) = Took(pc[i], list[i], n[i])
  BY <1>1, <1>3, <1>4, <1>7
<1> QED BY <1>2, <1>3, <1>8, <1>9, <1>10, <1>11, QuietSpin

LEMMA ExpireSpin ==
  ASSUME FInv, SInv, NEW i \in Insts, Expire(i)
  PROVE  SInv'
<1>1. /\ entities' = entities /\ list' = list /\ n' = n /\ contended' = contended /\ pc' = pc
      /\ temp' = temp /\ index' = index /\ abandoned' = abandoned
  BY DEF Expire, file
<1>2. /\ entities[i] \in Seq(Entity) /\ list[i] \in Seq(Entry) /\ n[i] \in Nat /\ contended[i] \in Nat
      /\ InCall(pc[i], entities[i], list[i], n[i], contended[i])
  BY CallFacts
<1>3. /\ entities' = [entities EXCEPT ![i] = entities'[i]] /\ list' = [list EXCEPT ![i] = list'[i]]
      /\ n' = [n EXCEPT ![i] = n'[i]] /\ contended' = [contended EXCEPT ![i] = contended'[i]]
  BY <1>1, CallFacts
<1> QED BY <1>1, <1>2, <1>3, QuietSpin

(* Shuffling a table keeps what is in it. *)
LEMMA ReorderedFacts ==
  ASSUME NEW l \in Seq(Entry), Distinct(l), NEW c, NEW s \in Reordered(l, c)
  PROVE  s \in Seq(Entry) /\ Len(s) = Len(l) /\ Distinct(s) /\ Range(s) = Range(l)
<1> DEFINE D == 1..Len(l)
<1>1. PICK p \in Bijection(D, D) : s = [k \in D |-> l[p[k]]]
  BY DEF Reordered
<1>2. Len(l) \in Nat /\ DOMAIN l = D
  BY SeqFacts
<1>3. l \in [D -> Entry]
  <2> HIDE DEF Entry
  <2> QED BY <1>2
<1>4. p \in [D -> D] /\ (\A a, b \in D : p[a] = p[b] => a = b) /\ (\A t \in D : \E a \in D : p[a] = t)
  <2> HIDE DEF D
  <2> QED BY DEF Bijection, Injection, Surjection, IsInjective
<1>5. s \in [D -> Entry]
  <2> HIDE DEF D, Entry
  <2> QED BY <1>1, <1>3, <1>4
<1>6. s \in Seq(Entry) /\ Len(s) = Len(l)
  <2> HIDE DEF Entry
  <2> QED BY <1>2, <1>5
<1>7. DOMAIN s = D /\ \A k \in D : s[k] = l[p[k]] /\ p[k] \in D
  <2> HIDE DEF D
  <2> QED BY <1>1, <1>4
<1> HIDE DEF D
<1>8. Distinct(s)
  <2> SUFFICES ASSUME NEW a \in DOMAIN s, NEW b \in DOMAIN s, s[a].value = s[b].value PROVE a = b
    BY DEF Distinct
  <2>1. a \in D /\ b \in D /\ p[a] \in DOMAIN l /\ p[b] \in DOMAIN l /\ s[a] = l[p[a]] /\ s[b] = l[p[b]]
    BY <1>2, <1>7
  <2>2. l[p[a]].value = l[p[b]].value
    BY <2>1
  <2>3. p[a] = p[b]
    BY <2>1, <2>2 DEF Distinct
  <2> QED BY <1>4, <2>1, <2>3
<1>9. Range(s) = Range(l)
  BY <1>2, <1>4, <1>7 DEF Range
<1> QED BY <1>6, <1>8, <1>9

LEMMA RetrySpin ==
  ASSUME FInv, SInv, NEW i \in Insts, Retry(i)
  PROVE  SInv'
<1>1. PICK s \in Reordered(list[i], contended[i]) : list' = [list EXCEPT ![i] = s]
  BY DEF Retry
<1>2. /\ pc[i] = "undo" /\ n[i] = 1 /\ Goto(i, "try") /\ n' = n /\ entities' = entities
      /\ contended' = [contended EXCEPT ![i] = 0]
  BY DEF Retry
<1>3. temp' = temp /\ index' = index /\ abandoned' = abandoned
  BY DEF Retry, file
<1>4. pc'[i] = "try" /\ \A j \in Insts \ {i} : pc'[j] = pc[j]
  BY <1>2, Domains DEF Goto
<1>5. /\ entities[i] \in Seq(Entity) /\ list[i] \in Seq(Entry)
      /\ InCall("undo", entities[i], list[i], n[i], contended[i])
  BY <1>2, CallFacts
<1>6. /\ Distinct(list[i]) /\ Len(list[i]) > 0 /\ entities[i] \in Requests
      /\ Range(list[i]) = Range(HashEntities(entities[i]))
  BY <1>5 DEF InCall, Using, Locking
<1>7. s \in Seq(Entry) /\ Len(s) = Len(list[i]) /\ Distinct(s) /\ Range(s) = Range(list[i])
  <2> DEFINE l == list[i]
             c == contended[i]
  <2>1. l \in Seq(Entry) /\ Distinct(l) /\ s \in Reordered(l, c)
    BY <1>1, <1>5, <1>6
  <2> HIDE DEF l, c
  <2>2. s \in Seq(Entry) /\ Len(s) = Len(l) /\ Distinct(s) /\ Range(s) = Range(l)
    BY <2>1, ReorderedFacts
  <2> QED BY <2>2 DEF l
<1>8. list'[i] = s /\ contended'[i] = 0 /\ n'[i] = 1 /\ entities'[i] = entities[i]
  BY <1>1, <1>2, Domains
<1>9. n' = [n EXCEPT ![i] = n'[i]] /\ entities' = [entities EXCEPT ![i] = entities'[i]]
  BY <1>2, CallFacts
<1>10. list' = [list EXCEPT ![i] = list'[i]] /\ contended' = [contended EXCEPT ![i] = contended'[i]]
  BY <1>1, <1>2, <1>8
<1>11. entities'[i] \in Seq(Entity) /\ list'[i] \in Seq(Entry) /\ n'[i] \in Nat /\ contended'[i] \in Nat
  BY <1>5, <1>7, <1>8
<1>12. InCall("try", entities[i], s, 1, 0)
  <2>1. 1 \in 1..Len(s)
    BY <1>6, <1>7, SeqFacts
  <2> QED BY <1>6, <1>7, <2>1 DEF InCall, Using, Locking
<1>13. InCall(pc'[i], entities'[i], list'[i], n'[i], contended'[i])
  BY <1>4, <1>8, <1>12
<1>14. Took(pc'[i], list'[i], n'[i]) = Took(pc[i], list[i], n[i])
  <2>1. Took("try", s, 1) = {} /\ Took("undo", list[i], 1) = {}
    BY TookNone
  <2> QED BY <1>2, <1>4, <1>8, <2>1
<1> QED BY <1>3, <1>4, <1>9, <1>10, <1>11, <1>13, <1>14, QuietSpin

(* What unlock() hashes is what lock() locked. *)
LEMMA UnlockSpin ==
  ASSUME FInv, SInv, NEW i \in Insts, Unlock(i)
  PROVE  SInv'
<1> DEFINE h == HashEntities(entities[i])
<1>1. /\ pc[i] = "held" /\ Goto(i, "unlocking") /\ entities' = entities /\ contended' = contended
      /\ list' = [list EXCEPT ![i] = h] /\ n' = [n EXCEPT ![i] = 1]
  BY DEF Unlock
<1>2. temp' = temp /\ index' = index /\ abandoned' = abandoned
  BY DEF Unlock, file
<1>3. pc'[i] = "unlocking" /\ \A j \in Insts \ {i} : pc'[j] = pc[j]
  BY <1>1, Domains DEF Goto
<1>4. /\ entities[i] \in Seq(Entity) /\ list[i] \in Seq(Entry) /\ contended[i] \in Nat
      /\ InCall("held", entities[i], list[i], n[i], contended[i])
  BY <1>1, CallFacts
<1>5. n[i] = Len(list[i]) + 1 /\ entities[i] \in Requests /\ Range(list[i]) = Range(h)
  BY <1>4 DEF InCall, Using, Locking
<1>6. h \in Seq(Entry) /\ Len(h) > 0 /\ Distinct(h)
  BY <1>5, HashFacts
<1>7. InCall("unlocking", entities[i], h, 1, contended[i])
  <2>1. 1 \in 1..Len(h)
    BY <1>6, SeqFacts
  <2> QED BY <1>5, <1>6, <2>1 DEF InCall, Using, Locking
<1> HIDE DEF h
<1>8. list'[i] = h /\ n'[i] = 1 /\ entities'[i] = entities[i] /\ contended'[i] = contended[i]
  BY <1>1, Domains
<1>9. contended' = [contended EXCEPT ![i] = contended'[i]] /\ entities' = [entities EXCEPT ![i] = entities'[i]]
  BY <1>1, CallFacts
<1>10. list' = [list EXCEPT ![i] = list'[i]] /\ n' = [n EXCEPT ![i] = n'[i]]
  BY <1>1, <1>8
<1>11. entities'[i] \in Seq(Entity) /\ list'[i] \in Seq(Entry) /\ n'[i] \in Nat /\ contended'[i] \in Nat
  BY <1>4, <1>6, <1>8
<1>12. InCall(pc'[i], entities'[i], list'[i], n'[i], contended'[i])
  BY <1>3, <1>7, <1>8
<1>13. Took(pc'[i], list'[i], n'[i]) = Took(pc[i], list[i], n[i])
  <2>1. Took("unlocking", h, 1) = Range(h)
    BY <1>6, TookAll
  <2>2. Took("held", list[i], Len(list[i]) + 1) = Range(list[i])
    BY <1>4, TookAll
  <2> QED BY <1>1, <1>3, <1>5, <1>8, <2>1, <2>2
<1> QED BY <1>2, <1>3, <1>9, <1>10, <1>11, <1>12, <1>13, QuietSpin

LEMMA UserTable ==
  ASSUME FInv, SInv, NEW i \in Insts, pc[i] \in Locking \cup {"unlocking"}
  PROVE  /\ list[i] \in Seq(Entry) /\ Distinct(list[i]) /\ n[i] \in 1..Len(list[i])
         /\ Len(list[i]) > 0 /\ Len(list[i]) \in Nat /\ temp[i] \in Indices
<1>1. list[i] \in Seq(Entry) /\ InCall(pc[i], entities[i], list[i], n[i], contended[i])
  BY CallFacts
<1>2. pc[i] \in Using
  BY DEF Using
<1>3. Opened(i) /\ Len(list[i]) \in Nat
  BY <1>1, StaysFacts, SeqFacts
<1> QED BY <1>1, <1>2, <1>3 DEF InCall, Opened

LEMMA TakeSlotSpin ==
  ASSUME FInv, SInv, NEW i \in Insts, TakeSlot(i)
  PROVE  SInv'
<1> DEFINE l == list[i]
           m == n[i]
           s == l[m].value
           b == l[m].exclusive
           x == temp[i]
           label == IF m = Len(l) THEN "held" ELSE "try"
<1>1. /\ pc[i] = "try" /\ Goto(i, label) /\ Lockable(index[x][s], b)
      /\ index' = [index EXCEPT ![x][s] = Taken(index[x][s], b)]
  BY DEF TakeSlot, Slot, SetSlot
<1>2. /\ n' = [n EXCEPT ![i] = m + 1] /\ entities' = entities /\ list' = list /\ contended' = contended
      /\ temp' = temp /\ abandoned' = abandoned
  BY DEF TakeSlot, file
<1>3. l \in Seq(Entry) /\ Distinct(l) /\ m \in 1..Len(l) /\ Len(l) > 0 /\ Len(l) \in Nat /\ x \in Indices
  BY <1>1, UserTable DEF Locking
<1>4. s \in Slots /\ b \in BOOLEAN /\ l[m] = Ent(s, b)
  <2> HIDE DEF l, m
  <2> QED BY <1>3, EntryFacts
<1>5. label \in {"held", "try"} /\ label # "unlocking"
  OBVIOUS
<1>6. /\ Took(label, l, m + 1) = Took("try", l, m) \cup {l[m]}
      /\ Ent(s, TRUE) \notin Took("try", l, m) /\ Ent(s, FALSE) \notin Took("try", l, m)
  <2> HIDE DEF l, m, label
  <2> QED BY <1>3, <1>5, TookNext
<1>7. pc'[i] = label /\ \A j \in Insts \ {i} : pc'[j] = pc[j]
  BY <1>1, Domains DEF Goto
<1>8. /\ n'[i] = m + 1 /\ n'[i] \in Nat /\ list'[i] = l /\ list'[i] \in Seq(Entry)
      /\ n' = [n EXCEPT ![i] = n'[i]]
  BY <1>2, <1>3, Domains
<1>9. /\ entities'[i] = entities[i] /\ entities'[i] \in Seq(Entity)
      /\ contended'[i] = contended[i] /\ contended'[i] \in Nat
      /\ entities' = [entities EXCEPT ![i] = entities'[i]] /\ list' = [list EXCEPT ![i] = list'[i]]
      /\ contended' = [contended EXCEPT ![i] = contended'[i]]
  BY <1>2, CallFacts
<1>10. InCall(label, entities[i], l, m + 1, contended[i])
  <2>1. InCall("try", entities[i], l, m, contended[i])
    BY <1>1, CallFacts
  <2>2. (label = "held" => m + 1 = Len(l) + 1) /\ (label = "try" => m + 1 \in 1..Len(l))
    BY <1>3
  <2> HIDE DEF l, m, label
  <2> QED BY <1>5, <2>1, <2>2 DEF InCall, Using, Locking
<1>11. InCall(pc'[i], entities'[i], list'[i], n'[i], contended'[i])
  BY <1>7, <1>8, <1>9, <1>10
<1>12. /\ entities' \in [Insts -> Seq(Entity)] /\ list' \in [Insts -> Seq(Entry)]
       /\ n' \in [Insts -> Nat] /\ contended' \in [Insts -> Nat]
       /\ \A j \in Insts : Table(j)'
       /\ Taking(i)' = Took(pc'[i], list'[i], n'[i]) /\ \A j \in Insts \ {i} : Taking(j)' = Taking(j)
  BY <1>7, <1>8, <1>9, <1>11, CallStep
<1>13. Taking(i) = Took("try", l, m)
  BY <1>1, CallFacts
<1> HIDE DEF l, m, s, b, x, label
<1>14. /\ Taking(i)' = Taking(i) \cup {Ent(s, b)}
       /\ Ent(s, TRUE) \notin Taking(i) /\ Ent(s, FALSE) \notin Taking(i)
  BY <1>4, <1>6, <1>7, <1>8, <1>12, <1>13
<1>15. temp[i] = x
  BY DEF x
<1>16. index' \in [Indices -> [Slots -> Spinlock]] /\ \A y \in Indices, t \in Slots : Cell(y, t)'
  BY <1>1, <1>2, <1>3, <1>4, <1>12, <1>14, <1>15, TakeCell
<1> QED BY <1>12, <1>16 DEF SInv

LEMMA UndoSpin ==
  ASSUME FInv, SInv, NEW i \in Insts, Undo(i)
  PROVE  SInv'
<1> DEFINE l == list[i]
           m == n[i]
           p == m - 1
           s == l[p].value
           b == l[p].exclusive
           x == temp[i]
<1>1. /\ pc[i] = "undo" /\ m > 1 /\ pc' = pc
      /\ index' = [index EXCEPT ![x][s] = Given(index[x][s], b)]
  BY DEF Undo, Slot, SetSlot
<1>2. /\ n' = [n EXCEPT ![i] = p] /\ entities' = entities /\ list' = list /\ contended' = contended
      /\ temp' = temp /\ abandoned' = abandoned
  BY DEF Undo, file
<1>3. l \in Seq(Entry) /\ Distinct(l) /\ m \in 1..Len(l) /\ Len(l) > 0 /\ Len(l) \in Nat /\ x \in Indices
  BY <1>1, UserTable DEF Locking
<1>4. p \in 1..Len(l) /\ l[p] \in Took("undo", l, m) /\ Took("undo", l, p) = Took("undo", l, m) \ {l[p]}
  <2> HIDE DEF l, m
  <2> QED BY <1>1, <1>3, TookLess
<1>5. s \in Slots /\ b \in BOOLEAN /\ l[p] = Ent(s, b)
  <2> HIDE DEF l, p
  <2> QED BY <1>3, <1>4, EntryFacts
<1>6. /\ n'[i] = p /\ n'[i] \in Nat /\ list'[i] = l /\ list'[i] \in Seq(Entry)
      /\ n' = [n EXCEPT ![i] = n'[i]]
  BY <1>2, <1>3, <1>4, Domains
<1>7. /\ entities'[i] = entities[i] /\ entities'[i] \in Seq(Entity)
      /\ contended'[i] = contended[i] /\ contended'[i] \in Nat
      /\ entities' = [entities EXCEPT ![i] = entities'[i]] /\ list' = [list EXCEPT ![i] = list'[i]]
      /\ contended' = [contended EXCEPT ![i] = contended'[i]]
  BY <1>2, CallFacts
<1>8. InCall("undo", entities[i], l, p, contended[i])
  <2>1. InCall("undo", entities[i], l, m, contended[i])
    BY <1>1, CallFacts
  <2> HIDE DEF l, m, p
  <2> QED BY <1>4, <2>1 DEF InCall, Using, Locking
<1>9. InCall(pc'[i], entities'[i], list'[i], n'[i], contended'[i]) /\ pc'[i] = "undo"
  BY <1>1, <1>6, <1>7, <1>8
<1>10. /\ entities' \in [Insts -> Seq(Entity)] /\ list' \in [Insts -> Seq(Entry)]
       /\ n' \in [Insts -> Nat] /\ contended' \in [Insts -> Nat]
       /\ \A j \in Insts : Table(j)'
       /\ Taking(i)' = Took(pc'[i], list'[i], n'[i]) /\ \A j \in Insts \ {i} : Taking(j)' = Taking(j)
  BY <1>1, <1>6, <1>7, <1>9, CallStep
<1>11. Taking(i) = Took("undo", l, m)
  BY <1>1, CallFacts
<1> HIDE DEF l, m, s, b, x, p
<1>12. Taking(i)' = Taking(i) \ {Ent(s, b)} /\ Ent(s, b) \in Taking(i)
  BY <1>4, <1>5, <1>6, <1>9, <1>10, <1>11
<1>13. temp[i] = x
  BY DEF x
<1>14. index' \in [Indices -> [Slots -> Spinlock]] /\ \A y \in Indices, t \in Slots : Cell(y, t)'
  BY <1>1, <1>2, <1>3, <1>5, <1>10, <1>12, <1>13, GiveCell
<1> QED BY <1>10, <1>14 DEF SInv

LEMMA LeaveFacts ==
  ASSUME FInv, SInv, NEW i \in Insts, Leave(i), pc'[i] \in {"open", "closed"},
         \A j \in Insts \ {i} : pc'[j] = pc[j]
  PROVE  /\ entities' \in [Insts -> Seq(Entity)] /\ list' \in [Insts -> Seq(Entry)]
         /\ n' \in [Insts -> Nat] /\ contended' \in [Insts -> Nat]
         /\ \A j \in Insts : Table(j)'
         /\ Taking(i)' = {} /\ \A j \in Insts \ {i} : Taking(j)' = Taking(j)
<1>1. /\ entities' = [entities EXCEPT ![i] = << >>] /\ list' = [list EXCEPT ![i] = << >>]
      /\ n' = [n EXCEPT ![i] = 1] /\ contended' = [contended EXCEPT ![i] = 0]
  BY DEF Leave
<1>2. entities'[i] = << >> /\ list'[i] = << >> /\ n'[i] = 1 /\ contended'[i] = 0
  BY <1>1, Domains
<1>3. << >> \in Seq(Entity) /\ << >> \in Seq(Entry)
  OBVIOUS
<1>4. /\ entities' = [entities EXCEPT ![i] = entities'[i]] /\ list' = [list EXCEPT ![i] = list'[i]]
      /\ n' = [n EXCEPT ![i] = n'[i]] /\ contended' = [contended EXCEPT ![i] = contended'[i]]
  BY <1>1, <1>2
<1>5. entities'[i] \in Seq(Entity) /\ list'[i] \in Seq(Entry) /\ n'[i] \in Nat /\ contended'[i] \in Nat
  BY <1>2, <1>3
<1>6. InCall("open", << >>, << >>, 1, 0) /\ InCall("closed", << >>, << >>, 1, 0)
  BY DEF InCall, Using, Locking
<1>7. InCall(pc'[i], entities'[i], list'[i], n'[i], contended'[i])
  BY <1>2, <1>6
<1>8. Took(pc'[i], list'[i], n'[i]) = {}
  <2>1. Took("open", << >>, 1) = {} /\ Took("closed", << >>, 1) = {}
    BY TookNone
  <2> QED BY <1>2, <2>1
<1> QED BY <1>4, <1>5, <1>7, <1>8, CallStep

LEMMA GiveSlotSpin ==
  ASSUME FInv, SInv, NEW i \in Insts, GiveSlot(i)
  PROVE  SInv'
<1> DEFINE l == list[i]
           m == n[i]
           s == l[m].value
           b == l[m].exclusive
           x == temp[i]
<1>1. /\ pc[i] = "unlocking" /\ index' = [index EXCEPT ![x][s] = Given(index[x][s], b)]
      /\ temp' = temp /\ abandoned' = abandoned
  BY DEF GiveSlot, Slot, SetSlot, file
<1>2. l \in Seq(Entry) /\ Distinct(l) /\ m \in 1..Len(l) /\ Len(l) > 0 /\ Len(l) \in Nat /\ x \in Indices
  BY <1>1, UserTable
<1>3. /\ l[m] \in Took("unlocking", l, m)
      /\ Took("unlocking", l, m + 1) = Took("unlocking", l, m) \ {l[m]}
      /\ m = Len(l) => Took("unlocking", l, m) \ {l[m]} = {}
  <2> HIDE DEF l, m
  <2> QED BY <1>2, TookRest
<1>4. s \in Slots /\ b \in BOOLEAN /\ l[m] = Ent(s, b)
  <2> HIDE DEF l, m
  <2> QED BY <1>2, EntryFacts
<1>5. Taking(i) = Took("unlocking", l, m)
  BY <1>1, CallFacts
<1>6. /\ entities' \in [Insts -> Seq(Entity)] /\ list' \in [Insts -> Seq(Entry)]
      /\ n' \in [Insts -> Nat] /\ contended' \in [Insts -> Nat]
      /\ \A j \in Insts : Table(j)'
      /\ Taking(i)' = Took("unlocking", l, m) \ {l[m]} /\ \A j \in Insts \ {i} : Taking(j)' = Taking(j)
  <2>1. CASE m < Len(l)
    <3>1. /\ n' = [n EXCEPT ![i] = m + 1] /\ pc' = pc /\ entities' = entities /\ list' = list
          /\ contended' = contended
      BY <1>2, <2>1 DEF GiveSlot
    <3>2. /\ n'[i] = m + 1 /\ n'[i] \in Nat /\ list'[i] = l /\ list'[i] \in Seq(Entry)
          /\ n' = [n EXCEPT ![i] = n'[i]]
      BY <1>2, <3>1, Domains
    <3>3. /\ entities'[i] = entities[i] /\ entities'[i] \in Seq(Entity)
          /\ contended'[i] = contended[i] /\ contended'[i] \in Nat
          /\ entities' = [entities EXCEPT ![i] = entities'[i]] /\ list' = [list EXCEPT ![i] = list'[i]]
          /\ contended' = [contended EXCEPT ![i] = contended'[i]]
      BY <3>1, CallFacts
    <3>4. InCall("unlocking", entities[i], l, m + 1, contended[i])
      <4>1. InCall("unlocking", entities[i], l, m, contended[i])
        BY <1>1, CallFacts
      <4>2. m + 1 \in 1..Len(l)
        BY <1>2, <2>1
      <4> HIDE DEF l, m
      <4> QED BY <4>1, <4>2 DEF InCall, Using, Locking
    <3>5. InCall(pc'[i], entities'[i], list'[i], n'[i], contended'[i]) /\ pc'[i] = "unlocking"
      BY <1>1, <3>1, <3>2, <3>3, <3>4
    <3>6. /\ entities' \in [Insts -> Seq(Entity)] /\ list' \in [Insts -> Seq(Entry)]
          /\ n' \in [Insts -> Nat] /\ contended' \in [Insts -> Nat]
          /\ \A j \in Insts : Table(j)'
          /\ Taking(i)' = Took(pc'[i], list'[i], n'[i]) /\ \A j \in Insts \ {i} : Taking(j)' = Taking(j)
      BY <3>1, <3>2, <3>3, <3>5, CallStep
    <3>7. Taking(i)' = Took("unlocking", l, m + 1)
      BY <3>2, <3>5, <3>6
    <3> QED BY <1>3, <3>6, <3>7
  <2>2. CASE m = Len(l)
    <3>1. Leave(i) /\ Goto(i, "open")
      BY <1>2, <2>2 DEF GiveSlot
    <3>2. pc'[i] = "open" /\ \A j \in Insts \ {i} : pc'[j] = pc[j]
      BY <3>1, Domains DEF Goto
    <3>3. /\ entities' \in [Insts -> Seq(Entity)] /\ list' \in [Insts -> Seq(Entry)]
          /\ n' \in [Insts -> Nat] /\ contended' \in [Insts -> Nat]
          /\ \A j \in Insts : Table(j)'
          /\ Taking(i)' = {} /\ \A j \in Insts \ {i} : Taking(j)' = Taking(j)
      BY <3>1, <3>2, LeaveFacts
    <3> QED BY <1>3, <2>2, <3>3
  <2> QED BY <1>2, <2>1, <2>2
<1> HIDE DEF l, m, s, b, x
<1>7. Taking(i)' = Taking(i) \ {Ent(s, b)} /\ Ent(s, b) \in Taking(i)
  BY <1>3, <1>4, <1>5, <1>6
<1>8. temp[i] = x
  BY DEF x
<1>9. index' \in [Indices -> [Slots -> Spinlock]] /\ \A y \in Indices, t \in Slots : Cell(y, t)'
  BY <1>1, <1>2, <1>4, <1>6, <1>7, <1>8, GiveCell
<1> QED BY <1>6, <1>9 DEF SInv

(* Who dies takes no spinlock with him, but his index counts as abandoned. *)
LEMMA ExitSpin ==
  ASSUME FInv, SInv, NEW i \in Insts, Exit(i)
  PROVE  SInv'
<1>1. Closed({i}) /\ Leave(i) /\ Goto(i, "closed") /\ index' = index
  BY DEF Exit
<1>2. abandoned \subseteq abandoned' /\ (pc[i] \in Using => temp[i] \in abandoned')
  BY DEF Exit, Using
<1>3. pc'[i] = "closed" /\ \A j \in Insts \ {i} : pc'[j] = pc[j]
  BY <1>1, Domains DEF Goto
<1>4. \A j \in Insts \ {i} : temp'[j] = temp[j]
  BY <1>1, ClosedFacts
<1>5. /\ entities' \in [Insts -> Seq(Entity)] /\ list' \in [Insts -> Seq(Entry)]
      /\ n' \in [Insts -> Nat] /\ contended' \in [Insts -> Nat]
      /\ \A j \in Insts : Table(j)'
      /\ Taking(i)' = {} /\ \A j \in Insts \ {i} : Taking(j)' = Taking(j)
  BY <1>1, <1>3, LeaveFacts
<1>6. pc[i] \notin Using => Taking(i) = {}
  <2>1. InCall(pc[i], entities[i], list[i], n[i], contended[i]) /\ Taking(i) = Took(pc[i], list[i], n[i])
    BY CallFacts
  <2>2. pc[i] \notin Using => n[i] = 1 /\ pc[i] # "unlocking"
    BY <2>1 DEF InCall, Using
  <2> QED BY <2>1, <2>2, TookNone
<1>7. ASSUME NEW x \in Indices, NEW s \in Slots PROVE Cell(x, s)'
  <2>1. \A j \in Insts : \/ Taking(j)' = Taking(j) /\ (Taking(j) = {} \/ temp'[j] = temp[j])
                         \/ Taking(j)' = {} /\ (temp[j] = x => x \in abandoned')
    BY <1>2, <1>4, <1>5, <1>6
  <2>2. index'[x] = index[x] /\ (x \in abandoned => x \in abandoned')
    BY <1>1, <1>2
  <2> QED BY <2>1, <2>2, FrameCell
<1>8. index' \in [Indices -> [Slots -> Spinlock]]
  BY <1>1 DEF SInv
<1> QED BY <1>5, <1>7, <1>8 DEF SInv

(* With nobody in a call every spinlock is free: so it begins, and so it   *)
(* is after a reboot. *)
Fresh ==
  /\ pc = [i \in Insts |-> "closed"] /\ temp = [i \in Insts |-> None]
  /\ entities = [i \in Insts |-> << >>] /\ list = [i \in Insts |-> << >>] /\ n = [i \in Insts |-> 1]
  /\ contended = [i \in Insts |-> 0] /\ index = [x \in Indices |-> Unlocked]

LEMMA FreshTables == Fresh => SInv
<1> SUFFICES ASSUME Fresh PROVE SInv
  OBVIOUS
<1> USE DEF Fresh
<1>1. << >> \in Seq(Entity) /\ << >> \in Seq(Entry)
  OBVIOUS
<1>2. /\ entities \in [Insts -> Seq(Entity)] /\ list \in [Insts -> Seq(Entry)]
      /\ n \in [Insts -> Nat] /\ contended \in [Insts -> Nat]
  <2> DEFINE T == Seq(Entry)
             E == Seq(Entity)
  <2>1. << >> \in T /\ << >> \in E
    OBVIOUS
  <2> HIDE DEF T, E
  <2>2. entities \in [Insts -> E] /\ list \in [Insts -> T]
    BY <2>1
  <2> QED BY <2>2 DEF T, E
<1>3. ASSUME NEW i \in Insts PROVE Table(i)
  <2>1. InCall("closed", << >>, << >>, 1, 0)
    BY DEF InCall, Using, Locking
  <2>2. pc[i] = "closed" /\ entities[i] = << >> /\ list[i] = << >> /\ n[i] = 1 /\ contended[i] = 0
    OBVIOUS
  <2> QED BY <2>1, <2>2 DEF Table
<1>4. Unlocked \in [Slots -> Spinlock] /\ \A s \in Slots : Unlocked[s].readers = 0 /\ ~Unlocked[s].writer
  <2>1. Free \in Spinlock /\ Free.readers = 0 /\ ~Free.writer
    BY DEF Free, Spinlock
  <2> QED BY <2>1 DEF Unlocked
<1>5. index \in [Indices -> [Slots -> Spinlock]]
  <2> DEFINE T == [Slots -> Spinlock]
  <2>1. Unlocked \in T
    BY <1>4
  <2> HIDE DEF T
  <2>2. index \in [Indices -> T]
    BY <2>1
  <2> QED BY <2>2 DEF T
<1>6. ASSUME NEW x \in Indices, NEW s \in Slots PROVE Cell(x, s)
  <2>1. x # None /\ \A i \in Insts : temp[i] = None
    BY MemoryMapAssumption
  <2>2. Readers(x, s) = {} /\ Writers(x, s) = {} /\ Cardinality({}) = 0
    BY <2>1, FS_EmptySet DEF Readers, Writers
  <2>3. index[x][s].readers = 0 /\ ~index[x][s].writer
    BY <1>4
  <2> QED BY <2>2, <2>3 DEF Cell
<1> QED BY <1>2, <1>3, <1>5, <1>6 DEF SInv

-----------------------------------------------------------------------------
(* The inductive invariant                                                 *)

LEMMA InitInv == Init => IInv
<1> SUFFICES ASSUME Init PROVE IInv
  OBVIOUS
<1>1. SInv
  <2>1. Fresh
    BY DEF Init, Fresh
  <2> QED BY <2>1, FreshTables
<1>2. FInv
  <2> DEFINE f == [o \in Offsets |-> "unlocked"]
  <2>1. f \in [Offsets -> LockKinds] /\ f["lockinuse"] = "unlocked"
    BY DEF LockKinds, Offsets
  <2>2. locks = [i \in Insts |-> f]
    BY DEF Init, NoLocks
  <2> HIDE DEF f
  <2>3. locks \in [Insts -> [Offsets -> LockKinds]] /\ \A i \in Insts : locks[i]["lockinuse"] = "unlocked"
    <3> HIDE DEF LockKinds, Offsets
    <3> QED BY <2>1, <2>2
  <2>4. /\ pc \in [Insts -> Labels] /\ \A i \in Insts : pc[i] = "closed"
        /\ temp \in [Insts -> Indices \cup {None}] /\ path \in Indices \cup {None} /\ linked \subseteq Indices
    BY DEF Init, Labels
  <2>5. \A i \in Insts : LockedAs(i) /\ Opened(i)
    BY <2>3, <2>4 DEF LockedAs, Opened, Creating, Removing, Joining, Using, Locking
  <2>6. Granted /\ OneIndex
    BY <2>3 DEF Granted, OneIndex, Conflict
  <2> QED BY <2>3, <2>4, <2>5, <2>6 DEF FInv
<1> QED BY <1>1, <1>2 DEF IInv

LEMMA StutterInv == IInv /\ UNCHANGED vars => IInv'
<1> SUFFICES ASSUME IInv, UNCHANGED vars PROVE IInv'
  OBVIOUS
<1>1. /\ locks' = locks /\ path' = path /\ linked' = linked /\ index' = index /\ pc' = pc /\ temp' = temp
      /\ entities' = entities /\ list' = list /\ n' = n /\ contended' = contended /\ abandoned' = abandoned
  BY DEF vars
<1>2. FInv'
  BY <1>1 DEF IInv, FInv, LockedAs, Opened, Granted, OneIndex
<1>3. \A j \in Insts : Taking(j)' = Taking(j)
  BY <1>1 DEF Taking
<1>4. \A j \in Insts : Table(j)'
  BY <1>1 DEF IInv, SInv, Table
<1>5. ASSUME NEW x \in Indices, NEW s \in Slots PROVE Cell(x, s)'
  BY <1>1, <1>3, FrameCell DEF IInv
<1>6. SInv'
  BY <1>1, <1>4, <1>5 DEF IInv, SInv
<1> QED BY <1>2, <1>6 DEF IInv

LEMMA NextInv == IInv /\ Next => IInv'
<1> SUFFICES ASSUME IInv, Next PROVE IInv'
  OBVIOUS
<1>0. FInv /\ SInv
  BY DEF IInv
<1>1. ASSUME NEW i \in Insts, OpenStep(i) PROVE IInv'
  BY <1>0, <1>1, OpenFile, OpenSpin DEF IInv
<1>2. ASSUME NEW i \in Insts, CloseStep(i) PROVE IInv'
  BY <1>0, <1>2, CloseFile, CloseSpin DEF IInv
<1>3. ASSUME NEW i \in Insts, LockStep(i) PROVE IInv'
  <2>1. FInv'
    BY <1>0, <1>3, LockFile
  <2>2. SInv'
    BY <1>0, <1>3, LockSpin, TakeSlotSpin, ContendSpin, UndoSpin, TimeOutSpin, RetrySpin, ExpireSpin,
       UnlockSpin, GiveSlotSpin DEF LockStep
  <2> QED BY <2>1, <2>2 DEF IInv
<1>4. ASSUME NEW i \in Insts, Exit(i) PROVE IInv'
  <2>1. Closed({i}) /\ Goto(i, "closed") /\ path' = path /\ linked' = linked
    BY <1>4 DEF Exit
  <2>2. FInv'
    BY <1>0, <2>1, LeaveFile
  <2> QED BY <1>0, <1>4, <2>2, ExitSpin DEF IInv
<1>5. CASE Reboot
  <2>1. FInv'
    BY <1>0, <1>5, RebootFile
  <2>2. Fresh'
    BY <1>5 DEF Reboot, Closed, Fresh
  <2>3. (Fresh => SInv)'
    BY FreshTables, PTL
  <2> QED BY <2>1, <2>2, <2>3 DEF IInv
<1> QED BY <1>1, <1>2, <1>3, <1>4, <1>5 DEF Next

(* The inductive invariant of memory_map: where an instance is tells how   *)
(* it has the in use byte locked and which index it has open, and the      *)
(* spinlocks agree with the tables of those who go through them. *)
THEOREM Invariant == Spec => []IInv
BY InitInv, NextInv, StutterInv, PTL DEF Spec

(* fs_mutex_map and ~memory_map(): all users that have the in use byte     *)
(* locked use the index that the lock file names, and it is there. *)
THEOREM OneIndexHolds == Spec => []OneIndex
<1>1. IInv => OneIndex
  BY DEF IInv, FInv
<1> QED BY <1>1, Invariant, PTL

(* lock() and unlock(): a spinlock of an index with which nobody died is   *)
(* locked exactly as the instances on their way through it have it. *)
THEOREM AccountedHolds == Spec => []Accounted
<1>1. IInv => Accounted
  <2> SUFFICES ASSUME IInv, NEW x \in Indices \ abandoned, NEW s \in Slots
               PROVE  /\ index[x][s].readers = Cardinality(Readers(x, s))
                      /\ index[x][s].writer <=> Writers(x, s) # {}
    BY DEF Accounted, Readers, Writers, Ent
  <2>1. Cell(x, s)
    BY DEF IInv, SInv
  <2> QED BY <2>1 DEF Cell
<1> QED BY <1>1, Invariant, PTL

(* Who holds an entity has its slot locked in its index. *)
LEMMA HeldSlot ==
  ASSUME IInv, AllEntered, NEW i \in Insts, NEW e \in Entities, NEW b \in BOOLEAN, Holds(i, e, b)
  PROVE  /\ temp[i] \in Indices /\ Hash[e] \in Slots
         /\ Ent(Hash[e], TRUE) \in Taking(i) \/ (~b /\ Ent(Hash[e], FALSE) \in Taking(i))
<1>1. FInv /\ SInv
  BY DEF IInv
<1>2. pc[i] = "held"
  BY DEF Holds
<1> DEFINE q == entities[i]
           h == HashEntities(q)
<1>3. PICK k \in DOMAIN q : q[k] = [value |-> e, exclusive |-> b]
  BY DEF Holds
<1>4. /\ list[i] \in Seq(Entry) /\ n[i] = Len(list[i]) + 1 /\ q \in Requests /\ Range(list[i]) = Range(h)
      /\ Taking(i) = Took("held", list[i], n[i])
  BY <1>1, <1>2, CallFacts DEF InCall, Using, Locking
<1>5. Taking(i) = Range(h)
  <2>1. Took("held", list[i], Len(list[i]) + 1) = Range(list[i])
    BY <1>4, TookAll
  <2> QED BY <1>4, <2>1
<1>6. temp[i] \in Indices
  BY <1>1, <1>2, StaysFacts DEF Opened, Using
<1> HIDE DEF q
<1>7. PICK m \in DOMAIN h : h[m].value = Hash[q[k].value]
  BY <1>4 DEF AllEntered
<1>8. q[k].value = e /\ q[k].exclusive = b
  BY <1>3
<1>9. h \in Seq(Entry) /\ (q[k].exclusive => h[m].exclusive)
  BY <1>4, <1>7, HashFacts
<1> HIDE DEF h
<1>10. h[m].value \in Slots /\ h[m].exclusive \in BOOLEAN /\ h[m] = Ent(h[m].value, h[m].exclusive)
  <2>1. m \in 1..Len(h)
    BY <1>7, <1>9, SeqFacts
  <2> QED BY <1>9, <2>1, EntryFacts
<1>11. h[m] \in Taking(i)
  BY <1>5, <1>7 DEF Range
<1>12. h[m].value = Hash[e] /\ Hash[e] \in Slots
  BY <1>7, <1>8, <1>10
<1>13. CASE h[m].exclusive = TRUE
  BY <1>6, <1>10, <1>11, <1>12, <1>13
<1>14. CASE h[m].exclusive = FALSE
  BY <1>6, <1>8, <1>9, <1>10, <1>11, <1>12, <1>14
<1> QED BY <1>10, <1>13, <1>14

(* lock(): users of one index never hold an entity in conflicting ways,    *)
(* whatever collides in it and whoever dies, if every entity of a request  *)
(* finds its slot in the table that _hash_entities makes. *)
THEOREM IndexExclusionHolds == ASSUME AllEntered PROVE Spec => []IndexExclusion
<1>1. IInv => IndexExclusion
  <2> SUFFICES ASSUME IInv, NEW i \in Insts, NEW j \in Insts, i # j, temp[i] = temp[j],
                      NEW e \in Entities, NEW b \in BOOLEAN, Holds(i, e, TRUE), Holds(j, e, b)
               PROVE  FALSE
    BY DEF IndexExclusion, Clash
  <2>1. temp[i] \in Indices /\ Hash[e] \in Slots /\ Ent(Hash[e], TRUE) \in Taking(i)
    BY HeldSlot
  <2>2. Ent(Hash[e], TRUE) \in Taking(j) \/ Ent(Hash[e], FALSE) \in Taking(j)
    BY HeldSlot
  <2> DEFINE x == temp[i]
             s == Hash[e]
  <2>3. Cell(x, s)
    BY <2>1 DEF IInv, SInv
  <2>4. i \in Writers(x, s) /\ (j \in Writers(x, s) \/ j \in Readers(x, s))
    BY <2>1, <2>2 DEF Writers, Readers
  <2> QED BY <2>3, <2>4 DEF Cell
<1> QED BY <1>1, Invariant, PTL

=============================================================================
