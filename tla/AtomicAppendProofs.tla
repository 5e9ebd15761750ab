------------------------- MODULE AtomicAppendProofs -------------------------
(***************************************************************************)
(* Proofs about AtomicAppend, for any number of instances, entities,       *)
(* requests and records, any size of the buffer and any interval between   *)
(* two bumps of the header: the header passes no live request, requests    *)
(* are granted in the order of the file, none is orphaned, and the         *)
(* algorithm implements SharedFsMutex.                                     *)
(***************************************************************************)
EXTENDS AtomicAppend, WellFoundedInduction, TLAPS

(* Everybody opens the file before anybody locks, and records have hashes. *)
(* Without the first, a late opener resets a file in use; without the      *)
(* second, an instance takes another's record for its own.                 *)
Orderly == OpenFirst /\ ~SkipHashing /\ Insts # {}

-----------------------------------------------------------------------------
(* The inductive invariant                                                 *)

Idle == {"closed", "ready", "bump", "write"}
Labels == {"new", "append", "find", "held"} \cup Idle \cup Opening \cup Waiting

AnyRecord == [id : Insts \cup {Nobody, Dead}, entities : SUBSET Entity]

Types ==
  /\ locks \in [Insts -> [Offsets -> LockKinds]]
  /\ records \in Seq(AnyRecord)
  /\ header \in Nat /\ known \in [Insts -> Nat]
  /\ mine \in [Insts -> Nat] /\ at \in [Insts -> Nat]
  /\ pc \in [Insts -> Labels]
  /\ entities \in [Insts -> SUBSET Entity]

(* Nobody locks before all have opened the file.  Until then the header is *)
(* new, and whoever has not opened the file has no lock on it.             *)
BeforeUse ==
  ~AllOpen =>
    /\ header = 1
    /\ \A i \in Insts : /\ pc[i] \in {"new", "closed", "ready"} \cup Opening
                        /\ known[i] \in {0, 1}

Unlocked == \A i \in Insts : pc[i] = "new" => \A o \in Header : locks[i][o] = "unlocked"

(* Instance j is about to truncate the file, and keeps the others out. *)
Resets(j) ==
  /\ pc[j] = "truncate" /\ locks[j][Last] = "exclusive"
  /\ \A i \in Insts \ {j} : pc[i] \in {"new", "guard"}

(* What earlier users left is removed before anybody gets past the guard. *)
StaleFile ==
  ~AllOpen /\ records # << >> => (\A i \in Insts : pc[i] = "new") \/ \E j \in Insts : Resets(j)

(* No copy of the header is ahead of the file: what is appended later is   *)
(* not before it.                                                          *)
HeaderInFile ==
  /\ header \in 1..Len(records) + 1
  /\ \A i \in Insts : known[i] <= Len(records) + 1
  /\ \A i \in Insts : pc[i] \notin {"new", "closed"} \cup Opening => known[i] >= 1

(* Everything before a copy of the header is completed. *)
Completed ==
  AllOpen => \A k \in DOMAIN records :
    (k < header \/ \E i \in Insts : k < known[i]) => records[k] = Zero

Request(i) == [id |-> i, entities |-> entities[i]]
InFile == Waiting \cup {"held"}

(* Each instance has the record it thinks it has. *)
HasRecord ==
  \A i \in Insts :
    /\ pc[i] \in {"append", "find"} => mine[i] \in 1..Len(records) + 1
    /\ pc[i] = "find" => \E k \in mine[i]..Len(records) : records[k] = Request(i)
    /\ pc[i] \in InFile => mine[i] \in DOMAIN records /\ records[mine[i]] = Request(i)

(* Each record that is not completed belongs to an instance, which has no  *)
(* other.                                                                  *)
Owned ==
  AllOpen =>
    /\ \A k \in DOMAIN records :
         records[k] # Zero =>
           \E i \in Insts : /\ records[k].id = i
                            /\ pc[i] = "find" \/ (pc[i] \in InFile /\ mine[i] = k)
    /\ \A k, l \in DOMAIN records : records[k].id = records[l].id /\ records[k] # Zero => k = l

(* What an instance has scanned is not in its way, and never will be. *)
Clear(i, from) ==
  \A k \in from..mine[i] - 1 : ~InTheWay(records[k].entities, entities[i])

ScannedBy(i) ==
  /\ pc[i] \in {"tag", "reload", "batch", "wait", "woken"} => at[i] < mine[i] /\ Clear(i, at[i] + 1)
  /\ pc[i] \in {"batch", "wait", "woken"} => known[i] <= at[i]
  /\ pc[i] \in {"granted", "held"} => Clear(i, 1)

Scanned == \A i \in Insts : ScannedBy(i)

IInv ==
  /\ Types /\ BeforeUse /\ Unlocked /\ StaleFile /\ HeaderInFile
  /\ Completed /\ HasRecord /\ Owned /\ Scanned

-----------------------------------------------------------------------------
(* Least and greatest elements                                             *)

LEMMA MinFacts ==
  ASSUME NEW S, S \subseteq Nat, S # {}
  PROVE  Min(S) \in S /\ \A y \in S : Min(S) <= y
<1>1. PICK x \in S : \A y \in S : <<y, x>> \notin OpToRel(<, Nat)
  <2> HIDE DEF OpToRel
  <2> QED BY NatLessThanWellFounded, WFMin
<1>2. \A y \in S : x <= y
  <2> TAKE y \in S
  <2>1. x \in Nat /\ y \in Nat
    OBVIOUS
  <2>2. ~(y < x)
    BY <1>1, <2>1 DEF OpToRel
  <2> QED BY <2>1, <2>2
<1> QED BY <1>2 DEF Min

LEMMA MaxFacts ==
  ASSUME NEW n \in Nat, NEW S, S \subseteq 0..n, S # {}
  PROVE  Max(S) \in S /\ \A y \in S : Max(S) >= y
<1> DEFINE T == {n - x : x \in S}
<1>1. T \subseteq Nat /\ T # {}
  OBVIOUS
<1>2. Min(T) \in T /\ \A y \in T : Min(T) <= y
  BY <1>1, MinFacts
<1>3. PICK x \in S : Min(T) = n - x
  BY <1>2
<1>4. \A y \in S : x >= y
  <2> TAKE y \in S
  <2>1. n - x <= n - y
    BY <1>2, <1>3
  <2> QED BY <2>1
<1> QED BY <1>4 DEF Max

LEMMA MaxPair ==
  ASSUME NEW x \in Int, NEW y \in Int
  PROVE  Max({x, y}) = IF x >= y THEN x ELSE y
BY DEF Max

LEMMA MinPair ==
  ASSUME NEW x \in Int, NEW y \in Int
  PROVE  Min({x, y}) = IF x <= y THEN x ELSE y
BY DEF Min

-----------------------------------------------------------------------------
(* Opening and closing                                                     *)

LEMMA InUse ==
  ASSUME BeforeUse, NEW i \in Insts, pc[i] \notin {"new", "closed", "ready"} \cup Opening
  PROVE  AllOpen
BY DEF BeforeUse

(* An instance that has opened the file changes nothing about who has. *)
LEMMA StaysOpen ==
  ASSUME Types, NEW i \in Insts, NEW l, Goto(i, l),
         l \notin Opening \cup {"new"}, pc[i] \notin Opening \cup {"new"}
  PROVE  AllOpen' <=> AllOpen
BY DEF AllOpen, Goto, Types

LEMMA EmptyFile == << >> \in Seq(AnyRecord)
OBVIOUS

LEMMA InitInv == Orderly /\ Init => IInv
<1> SUFFICES ASSUME Orderly, Init PROVE IInv
  OBVIOUS
<1> USE DEF Init
<1>1. Types
  <2>1. records \in Seq(AnyRecord)
    <3>1. \A r \in Requests : [id |-> Dead, entities |-> r] \in AnyRecord
      BY AtomicAppendAssumption DEF AnyRecord
    <3>2. \A x \in AnyRecord : <<x>> \in Seq(AnyRecord)
      OBVIOUS
    <3>3. CASE records = << >>
      BY <3>3, EmptyFile
    <3>4. CASE \E r \in Requests : records = <<[id |-> Dead, entities |-> r]>>
      BY <3>1, <3>2, <3>4
    <3> QED BY <3>3, <3>4
  <2>2. locks \in [Insts -> [Offsets -> LockKinds]] /\ pc \in [Insts -> Labels]
    BY DEF NoLocks, LockKinds, Labels
  <2> QED BY <2>1, <2>2 DEF Types
<1>2. ~AllOpen
  BY DEF AllOpen, Orderly
<1>3. BeforeUse /\ StaleFile
  BY DEF BeforeUse, StaleFile
<1>4. Unlocked
  BY AtomicAppendAssumption DEF Unlocked, NoLocks, Header, Body, Last, Offsets
<1>5. HeaderInFile
  BY <1>1 DEF HeaderInFile, Types
<1>6. Completed /\ HasRecord /\ Owned /\ Scanned
  BY <1>2 DEF Completed, HasRecord, Owned, Scanned, ScannedBy, InFile, Waiting
<1> QED BY <1>1, <1>3, <1>4, <1>5, <1>6 DEF IInv

LEMMA SetRangeFacts ==
  ASSUME Types, NEW i \in Insts, NEW R, NEW kind \in LockKinds
  PROVE  /\ SetRange(locks, i, R, kind) \in [Insts -> [Offsets -> LockKinds]]
         /\ \A j \in Insts \ {i} : SetRange(locks, i, R, kind)[j] = locks[j]
         /\ \A o \in Offsets : SetRange(locks, i, R, kind)[i][o] = IF o \in R THEN kind ELSE locks[i][o]
BY DEF SetRange, Types

(* The six actions of opening. *)
OpenStep(i) ==
  \/ Open(i) \/ Truncate(i) \/ WriteHeader(i) \/ TakeGuard(i) \/ UnlockHeader(i) \/ ReadHeader(i)

LEMMA OpenInv ==
  ASSUME Orderly, IInv, NEW i \in Insts, OpenStep(i)
  PROVE  IInv'
<1> USE DEF OpenStep
<1>0. Types /\ BeforeUse /\ Unlocked /\ StaleFile /\ HeaderInFile
  BY DEF IInv
<1>1. ~AllOpen /\ pc[i] \in {"new"} \cup Opening
  BY DEF Orderly, AllOpen, Open, Truncate, WriteHeader, TakeGuard, UnlockHeader, ReadHeader, Opening
<1>2. /\ header = 1 /\ header' = 1
      /\ \A j \in Insts : pc[j] \in {"new", "closed", "ready"} \cup Opening /\ known[j] \in {0, 1}
  BY <1>0, <1>1 DEF BeforeUse, Open, Truncate, WriteHeader, TakeGuard, UnlockHeader, ReadHeader
<1>3. mine' = mine /\ at' = at /\ entities' = entities
  BY DEF call, Open, Truncate, WriteHeader, TakeGuard, UnlockHeader, ReadHeader
<1>4. records' = records \/ records' = << >>
  BY DEF Open, Truncate, WriteHeader, TakeGuard, UnlockHeader, ReadHeader
<1>5. /\ locks' \in [Insts -> [Offsets -> LockKinds]]
      /\ \A j \in Insts \ {i} : locks'[j] = locks[j]
  <2>1. CASE locks' = locks
    BY <1>0, <2>1 DEF Types
  <2>2. CASE \E R \in {Header, {Last}}, k \in LockKinds : locks' = SetRange(locks, i, R, k)
    BY <1>0, <2>2, SetRangeFacts
  <2> QED BY <2>1, <2>2 DEF LockKinds, Open, Truncate, WriteHeader, TakeGuard, UnlockHeader, ReadHeader
<1>6. /\ \A j \in Insts \ {i} : known'[j] = known[j]
      /\ known'[i] \in {known[i], 1} /\ known' \in [Insts -> Nat]
      /\ ReadHeader(i) => known'[i] = 1
  BY <1>0, <1>2 DEF Types, Open, Truncate, WriteHeader, TakeGuard, UnlockHeader, ReadHeader
<1>7. /\ \A j \in Insts \ {i} : pc'[j] = pc[j]
      /\ pc'[i] \in {"ready"} \cup Opening
      /\ pc' \in [Insts -> Labels]
      /\ pc'[i] = "ready" => ReadHeader(i)
  <2>1. \A l \in {"ready"} \cup Opening : Goto(i, l) =>
          /\ \A j \in Insts \ {i} : pc'[j] = pc[j]
          /\ pc'[i] = l /\ pc' \in [Insts -> Labels]
    BY <1>0 DEF Goto, Types, Labels, Idle
  <2> QED BY <2>1 DEF Opening, Open, Truncate, WriteHeader, TakeGuard, UnlockHeader, ReadHeader
<1>8. Types'
  <2>1. records' \in Seq(AnyRecord)
    <3>1. CASE records' = records
      BY <1>0, <3>1 DEF Types
    <3>2. CASE records' = << >>
      BY <3>2, Zenon, EmptyFile
    <3> QED BY <1>4, <3>1, <3>2
  <2> QED BY <1>0, <1>2, <1>3, <1>5, <1>6, <1>7, <2>1 DEF Types
<1>9. BeforeUse'
  BY <1>0, <1>2, <1>6, <1>7 DEF BeforeUse
<1>10. Unlocked'
  BY <1>0, <1>5, <1>7 DEF Unlocked, Opening
<1>11. HeaderInFile'
  <2>1. Len(records') \in Nat
    BY <1>8 DEF Types
  <2>2. \A j \in Insts : known'[j] \in {0, 1}
    BY <1>2, <1>6
  <2>3. ASSUME NEW j \in Insts, pc'[j] \notin {"new", "closed"} \cup Opening PROVE known'[j] >= 1
    <3>1. CASE j = i
      BY <1>6, <1>7, <2>3, <3>1
    <3>2. CASE j # i
      BY <1>0, <1>6, <1>7, <2>3, <3>2 DEF HeaderInFile
    <3> QED BY <3>1, <3>2
  <2> QED BY <1>2, <2>1, <2>2, <2>3 DEF HeaderInFile
<1>12. StaleFile'
  <2> SUFFICES ASSUME records' # << >>
               PROVE  \E j \in Insts : Resets(j)'
    BY DEF StaleFile
  <2>1. records # << >> /\ records' = records
    BY <1>4
  <2>2. CASE \A j \in Insts : pc[j] = "new"
    <3>1. Open(i)
      BY <2>2 DEF Truncate, WriteHeader, TakeGuard, UnlockHeader, ReadHeader
    <3>2. Grantable(locks, i, Header, "exclusive")
      BY <1>0, <2>2 DEF Grantable, Conflict, Unlocked, Types
    <3>3. Last \in Header /\ Last \in Offsets
      BY AtomicAppendAssumption DEF Last, Header, Offsets
    <3>4. locks' = SetRange(locks, i, Header, "exclusive") /\ Goto(i, "truncate")
      BY <3>1, <3>2 DEF Open, LockOutcome
    <3>5. pc'[i] = "truncate" /\ locks'[i][Last] = "exclusive"
      BY <1>0, <3>3, <3>4, SetRangeFacts DEF Goto, Types, LockKinds
    <3>6. \A j \in Insts \ {i} : pc'[j] \in {"new", "guard"}
      BY <1>7, <2>2
    <3> QED BY <3>5, <3>6 DEF Resets
  <2>3. ASSUME NEW j \in Insts, Resets(j) PROVE Resets(j)'
    <3>1. Last \in Header /\ Last \in Offsets
      BY AtomicAppendAssumption DEF Last, Header, Offsets
    <3>2. i # j
      <4> SUFFICES ASSUME i = j PROVE FALSE
        OBVIOUS
      <4>1. Truncate(i)
        BY <2>3 DEF Resets, Open, WriteHeader, TakeGuard, UnlockHeader, ReadHeader
      <4> QED BY <2>1, <4>1 DEF Truncate
    <3>3. ~Grantable(locks, i, Header, "exclusive") /\ ~Grantable(locks, i, {Last}, "shared")
      BY <1>0, <2>3, <3>1, <3>2 DEF Resets, Grantable, Conflict, Types
    <3>4. pc'[i] = "guard"
      <4>1. pc[i] \in {"new", "guard"}
        BY <2>3, <3>2 DEF Resets
      <4>2. ~TakeGuard(i)
        BY <3>3 DEF TakeGuard, LockOutcome
      <4>3. Open(i)
        BY <4>1, <4>2 DEF Truncate, WriteHeader, UnlockHeader, ReadHeader
      <4>4. Goto(i, "guard")
        BY <3>3, <4>3 DEF Open, LockOutcome
      <4> QED BY <1>0, <4>4 DEF Goto, Types
    <3>5. \A k \in Insts \ {j} : pc'[k] \in {"new", "guard"}
      BY <1>7, <2>3, <3>4 DEF Resets
    <3> QED BY <1>5, <1>7, <2>3, <3>2, <3>5 DEF Resets
  <2> QED BY <1>0, <1>1, <2>1, <2>2, <2>3 DEF StaleFile
<1>13. AllOpen' => records' = << >>
  <2> SUFFICES ASSUME AllOpen', records' # << >> PROVE FALSE
    OBVIOUS
  <2>1. ReadHeader(i)
    BY <1>7 DEF AllOpen
  <2>2. records # << >> /\ pc[i] = "read_header"
    BY <1>4, <2>1 DEF ReadHeader
  <2> QED BY <1>0, <1>1, <2>2 DEF StaleFile, Resets
<1>14. Completed' /\ Owned'
  BY <1>13 DEF Completed, Owned
<1>15. \A j \in Insts : pc'[j] \in {"new", "closed", "ready"} \cup Opening
  BY <1>2, <1>7
<1>16. HasRecord' /\ Scanned'
  BY <1>15 DEF HasRecord, Scanned, ScannedBy, InFile, Waiting, Opening
<1> QED BY <1>8, <1>9, <1>10, <1>11, <1>12, <1>14, <1>16 DEF IInv

LEMMA CloseInv ==
  ASSUME Orderly, IInv, NEW i \in Insts, Close(i)
  PROVE  IInv'
<1>0. Types /\ BeforeUse /\ Unlocked /\ StaleFile /\ HeaderInFile
  BY DEF IInv
<1>1. /\ pc[i] = "ready" /\ Goto(i, "closed")
      /\ records' = records /\ header' = header /\ mine' = mine /\ at' = at /\ entities' = entities
      /\ locks' = SetRange(locks, i, Offsets, "unlocked") /\ known' = [known EXCEPT ![i] = 0]
  BY DEF Close, call
<1>2. /\ pc' \in [Insts -> Labels] /\ pc'[i] = "closed"
      /\ \A j \in Insts \ {i} : pc'[j] = pc[j]
  BY <1>0, <1>1 DEF Goto, Types, Labels, Idle
<1>3. /\ known' \in [Insts -> Nat] /\ known'[i] = 0
      /\ \A j \in Insts \ {i} : known'[j] = known[j]
  BY <1>0, <1>1 DEF Types
<1>4. /\ locks' \in [Insts -> [Offsets -> LockKinds]]
      /\ \A j \in Insts \ {i} : locks'[j] = locks[j]
  BY <1>0, <1>1, SetRangeFacts DEF LockKinds
<1>5. AllOpen' <=> AllOpen
  BY <1>0, <1>1, StaysOpen DEF Opening
<1>6. Types'
  BY <1>0, <1>1, <1>2, <1>3, <1>4 DEF Types
<1>7. BeforeUse'
  BY <1>0, <1>1, <1>2, <1>3, <1>5 DEF BeforeUse
<1>8. Unlocked'
  BY <1>0, <1>2, <1>4 DEF Unlocked
<1>9. StaleFile'
  BY <1>0, <1>1, <1>5 DEF StaleFile, Resets
<1>10. HeaderInFile'
  <2>1. Len(records) \in Nat
    BY <1>0 DEF Types
  <2> QED BY <1>0, <1>1, <1>2, <1>3, <2>1 DEF HeaderInFile
<1>11. Completed'
  <2>0. DOMAIN records \subseteq Nat \ {0}
    BY <1>0 DEF Types
  <2>1. \A j \in Insts : \A k \in DOMAIN records : k < known'[j] => k < known[j]
    BY <1>0, <1>3, <2>0
  <2> QED BY <1>1, <1>5, <2>1 DEF IInv, Completed
<1>12. HasRecord'
  BY <1>1, <1>2 DEF IInv, HasRecord, Request, InFile, Waiting
<1>13. Owned'
  BY <1>1, <1>2, <1>5 DEF IInv, Owned, InFile, Waiting
<1>14. Scanned'
  BY <1>1, <1>2, <1>3 DEF IInv, Scanned, ScannedBy, Clear
<1> QED BY <1>6, <1>7, <1>8, <1>9, <1>10, <1>11, <1>12, <1>13, <1>14 DEF IInv

-----------------------------------------------------------------------------
(* Waiting                                                                 *)

(* When the file is in use, the part of the invariant about opening holds  *)
(* of itself.                                                              *)
LEMMA Used ==
  ASSUME AllOpen'
  PROVE  BeforeUse' /\ StaleFile' /\ Unlocked'
BY DEF AllOpen, BeforeUse, StaleFile, Unlocked

(* Instance i waits, and goes on waiting or is granted its request: all    *)
(* that has to be shown is what it has scanned.                            *)
LEMMA WaitInv ==
  ASSUME IInv, NEW i \in Insts, NEW l \in InFile, pc[i] \in InFile, Goto(i, l),
         records' = records, header' = header, mine' = mine, entities' = entities,
         locks' \in [Insts -> [Offsets -> LockKinds]],
         known' \in {known, [known EXCEPT ![i] = header]},
         NEW n \in Nat, at' = [at EXCEPT ![i] = n],
         ScannedBy(i)'
  PROVE  IInv'
<1>0. Types /\ BeforeUse /\ HeaderInFile
  BY DEF IInv
<1>1. AllOpen /\ AllOpen'
  BY <1>0, InUse, StaysOpen DEF InFile, Waiting, Opening
<1>2. /\ pc' \in [Insts -> Labels] /\ pc'[i] = l
      /\ \A j \in Insts \ {i} : pc'[j] = pc[j]
  BY <1>0 DEF Goto, Types, Labels, InFile
<1>3. /\ known' \in [Insts -> Nat] /\ known'[i] \in {known[i], header}
      /\ \A j \in Insts \ {i} : known'[j] = known[j]
  BY <1>0 DEF Types
<1>4. at' \in [Insts -> Nat] /\ \A j \in Insts \ {i} : at'[j] = at[j]
  BY <1>0 DEF Types
<1>5. Types'
  BY <1>0, <1>2, <1>3, <1>4 DEF Types
<1>6. HeaderInFile'
  <2>1. Len(records) \in Nat
    BY <1>0 DEF Types
  <2>2. known[i] >= 1
    BY <1>0 DEF HeaderInFile, InFile, Waiting, Opening
  <2>3. \A j \in Insts : known'[j] <= Len(records) + 1
    <3> TAKE j \in Insts
    <3>1. known[j] <= Len(records) + 1 /\ header <= Len(records) + 1
      BY <1>0, <2>1 DEF HeaderInFile
    <3> QED BY <1>3, <3>1
  <2>4. \A j \in Insts : pc'[j] \notin {"new", "closed"} \cup Opening => known'[j] >= 1
    <3> TAKE j \in Insts
    <3>1. header >= 1
      BY <1>0, <2>1 DEF HeaderInFile
    <3> QED BY <1>0, <1>2, <1>3, <2>2, <3>1 DEF HeaderInFile
  <2> QED BY <1>0, <2>3, <2>4 DEF HeaderInFile
<1>7. Completed'
  BY <1>1, <1>3 DEF IInv, Completed
<1>8. HasRecord'
  BY <1>2 DEF IInv, HasRecord, Request, InFile, Waiting
<1>9. Owned'
  BY <1>1, <1>2 DEF IInv, Owned, InFile, Waiting
<1>10. Scanned'
  BY <1>2, <1>3, <1>4 DEF IInv, Scanned, ScannedBy, Clear
<1> QED BY <1>1, <1>5, <1>6, <1>7, <1>8, <1>9, <1>10, Used DEF IInv

LEMMA KeepsAt ==
  ASSUME Types, NEW i \in Insts, at' = at
  PROVE  at[i] \in Nat /\ at' = [at EXCEPT ![i] = at[i]]
BY DEF Types

LEMMA TagInv ==
  ASSUME IInv, NEW i \in Insts, Tag(i)
  PROVE  IInv'
<1>0. Types /\ ScannedBy(i)
  BY DEF IInv, Scanned
<1>1. /\ pc[i] = "tag" /\ Goto(i, "reload") /\ locks' = SetRange(locks, i, {mine[i]}, "exclusive")
      /\ records' = records /\ header' = header /\ mine' = mine /\ entities' = entities
      /\ known' = known /\ at' = at
  BY DEF Tag, call
<1>2. pc'[i] = "reload"
  BY <1>0, <1>1 DEF Goto, Types
<1>3. ScannedBy(i)'
  BY <1>0, <1>1, <1>2 DEF ScannedBy, Clear
<1>4. locks' \in [Insts -> [Offsets -> LockKinds]]
  BY <1>0, <1>1, SetRangeFacts DEF LockKinds
<1>5. {pc[i], "reload"} \subseteq InFile
  BY <1>1 DEF InFile, Waiting
<1> QED BY <1>0, <1>1, <1>3, <1>4, <1>5, KeepsAt, WaitInv

(* What is before the header is completed, and so not in the way. *)
LEMMA ZeroClear == \A s : ~InTheWay(Zero.entities, s)
BY DEF InTheWay, Zero

LEMMA ReloadInv ==
  ASSUME IInv, NEW i \in Insts, Reload(i)
  PROVE  IInv'
<1>0. Types /\ BeforeUse /\ Completed /\ HasRecord /\ ScannedBy(i)
  BY DEF IInv, Scanned
<1> DEFINE l == IF at[i] < header THEN "granted" ELSE "batch"
<1>1. /\ pc[i] = "reload" /\ Goto(i, l) /\ locks' = locks
      /\ records' = records /\ header' = header /\ mine' = mine /\ entities' = entities
      /\ known' = [known EXCEPT ![i] = header] /\ at' = at
  BY DEF Reload, call
<1>2. pc'[i] = l /\ known'[i] = header
  BY <1>0, <1>1 DEF Goto, Types
<1>3. AllOpen
  BY <1>0, <1>1, InUse DEF Opening
<1>4. /\ mine[i] \in DOMAIN records /\ DOMAIN records = 1..Len(records) /\ Len(records) \in Nat
      /\ at[i] \in Nat /\ header \in Nat /\ mine[i] \in Nat
  BY <1>0, <1>1 DEF Types, HasRecord, InFile, Waiting
<1>5. /\ {pc[i], "granted", "batch"} \subseteq InFile
      /\ locks' \in [Insts -> [Offsets -> LockKinds]]
  BY <1>0, <1>1 DEF Types, InFile, Waiting
<1>6. CASE at[i] < header
  <2>1. ASSUME NEW k \in 1..mine[i] - 1 PROVE ~InTheWay(records[k].entities, entities[i])
    <3>1. CASE k <= at[i]
      <4>1. k \in DOMAIN records /\ k < header
        BY <1>4, <1>6, <3>1
      <4>2. records[k] = Zero
        BY <1>0, <1>3, <4>1 DEF Completed
      <4> QED BY <4>2, ZeroClear
    <3>2. CASE k > at[i]
      <4>1. k \in at[i] + 1..mine[i] - 1
        BY <1>4, <3>2
      <4> QED BY <1>0, <1>1, <4>1 DEF ScannedBy, Clear
    <3> QED BY <1>4, <3>1, <3>2
  <2>2. pc'[i] = "granted" /\ Goto(i, "granted")
    BY <1>1, <1>2, <1>6
  <2>3. ScannedBy(i)'
    BY <1>1, <2>1, <2>2 DEF ScannedBy, Clear
  <2> HIDE DEF l
  <2> QED BY <1>0, <1>1, <1>5, <2>2, <2>3, KeepsAt, WaitInv
<1>7. CASE ~(at[i] < header)
  <2>1. pc'[i] = "batch" /\ Goto(i, "batch") /\ header <= at[i]
    BY <1>1, <1>2, <1>4, <1>7
  <2>2. ScannedBy(i)'
    BY <1>0, <1>1, <1>2, <2>1 DEF ScannedBy, Clear
  <2> HIDE DEF l
  <2> QED BY <1>0, <1>1, <1>5, <2>1, <2>2, KeepsAt, WaitInv
<1> QED BY <1>6, <1>7

LEMMA BatchInv ==
  ASSUME IInv, NEW i \in Insts, Batch(i)
  PROVE  IInv'
<1>0. Types /\ BeforeUse /\ HeaderInFile /\ Completed /\ HasRecord /\ ScannedBy(i)
  BY DEF IInv, Scanned
<1> DEFINE low == IF at[i] > BufRecords - 1 THEN at[i] - (BufRecords - 1) ELSE 1
           first == Max({known[i], low})
           blocking == {k \in first..at[i] : k <= Len(records) /\ InTheWay(records[k].entities, entities[i])}
<1>1. /\ pc[i] = "batch" /\ locks' = locks /\ known' = known
      /\ records' = records /\ header' = header /\ mine' = mine /\ entities' = entities
      /\ \/ /\ blocking = {} /\ at' = [at EXCEPT ![i] = first - 1]
            /\ Goto(i, IF first - 1 >= known[i] THEN "reload" ELSE "granted")
         \/ /\ blocking # {} /\ at' = [at EXCEPT ![i] = Max(blocking)]
            /\ Goto(i, "wait")
  BY DEF Batch, call
<1>2. AllOpen
  BY <1>0, <1>1, InUse DEF Opening
<1>3. /\ mine[i] \in DOMAIN records /\ DOMAIN records = 1..Len(records) /\ Len(records) \in Nat
      /\ at[i] \in Nat /\ mine[i] \in Nat /\ known[i] \in Nat
  BY <1>0, <1>1 DEF Types, HasRecord, InFile, Waiting
<1>4. known[i] >= 1 /\ known[i] <= at[i] /\ at[i] < mine[i]
  BY <1>0, <1>1 DEF HeaderInFile, ScannedBy, Opening
<1>5. first \in Nat /\ first >= known[i] /\ first <= at[i]
  <2>1. low \in Nat /\ 1 <= low /\ low <= at[i]
    BY <1>3, <1>4, AtomicAppendAssumption
  <2> HIDE DEF low
  <2>2. first = IF known[i] >= low THEN known[i] ELSE low
    BY <1>3, <2>1, MaxPair
  <2> QED BY <1>3, <1>4, <2>1, <2>2
<1>6. locks' \in [Insts -> [Offsets -> LockKinds]]
  BY <1>0, <1>1 DEF Types
<1>7. \A k \in at[i] + 1..mine[i] - 1 : ~InTheWay(records[k].entities, entities[i])
  BY <1>0, <1>1 DEF ScannedBy, Clear
<1> HIDE DEF first
<1>8. \A k \in first..at[i] : k \notin blocking => ~InTheWay(records[k].entities, entities[i])
  BY <1>3, <1>4, <1>5
<1>9. CASE blocking = {}
  <2> DEFINE l == IF first - 1 >= known[i] THEN "reload" ELSE "granted"
  <2>1. at' = [at EXCEPT ![i] = first - 1] /\ Goto(i, l) /\ first - 1 \in Nat
    BY <1>1, <1>3, <1>4, <1>5, <1>9
  <2>2. pc'[i] = l /\ at'[i] = first - 1 /\ known'[i] = known[i]
    BY <1>0, <1>1, <2>1 DEF Goto, Types
  <2>3. \A k \in first..mine[i] - 1 : ~InTheWay(records[k].entities, entities[i])
    <3> TAKE k \in first..mine[i] - 1
    <3>1. k \in first..at[i] \/ k \in at[i] + 1..mine[i] - 1
      BY <1>3, <1>5
    <3> QED BY <1>7, <1>8, <1>9, <3>1
  <2>4. {pc[i], "reload", "granted"} \subseteq InFile
    BY <1>1 DEF InFile, Waiting
  <2>5. CASE first - 1 >= known[i]
    <3>1. (first - 1) + 1 = first /\ first - 1 < mine[i]
      BY <1>3, <1>4, <1>5
    <3>2. pc'[i] = "reload" /\ Goto(i, "reload")
      BY <2>1, <2>2, <2>5
    <3>3. ScannedBy(i)'
      BY <1>1, <2>2, <2>3, <3>1, <3>2 DEF ScannedBy, Clear
    <3> HIDE DEF l
    <3> QED BY <1>1, <1>6, <2>1, <2>4, <3>2, <3>3, WaitInv
  <2>6. CASE ~(first - 1 >= known[i])
    <3>1. ASSUME NEW k \in 1..mine[i] - 1 PROVE ~InTheWay(records[k].entities, entities[i])
      <4>1. CASE k < first
        <5>1. k \in DOMAIN records /\ k < known[i]
          BY <1>3, <1>4, <1>5, <2>6, <4>1
        <5>2. records[k] = Zero
          BY <1>0, <1>2, <5>1 DEF Completed
        <5> QED BY <5>2, ZeroClear
      <4>2. CASE k >= first
        BY <1>3, <1>5, <2>3, <4>2
      <4> QED BY <1>3, <1>5, <4>1, <4>2
    <3>2. pc'[i] = "granted" /\ Goto(i, "granted")
      BY <2>1, <2>2, <2>6
    <3>3. ScannedBy(i)'
      BY <1>1, <3>1, <3>2 DEF ScannedBy, Clear
    <3> HIDE DEF l
    <3> QED BY <1>1, <1>6, <2>1, <2>4, <3>2, <3>3, WaitInv
  <2> QED BY <2>5, <2>6
<1>10. CASE blocking # {}
  <2>1. at' = [at EXCEPT ![i] = Max(blocking)] /\ Goto(i, "wait")
    BY <1>1, <1>10
  <2>2. blocking \subseteq 0..at[i]
    BY <1>3, <1>5
  <2>3. Max(blocking) \in blocking /\ \A y \in blocking : Max(blocking) >= y
    <3> HIDE DEF blocking
    <3> QED BY <1>3, <1>10, <2>2, MaxFacts
  <2>4. Max(blocking) \in first..at[i]
    BY <2>3
  <2> DEFINE m == Max(blocking)
  <2>5. m \in Nat /\ m <= at[i] /\ known[i] <= m /\ m < mine[i]
    BY <1>3, <1>4, <1>5, <2>4
  <2>6. \A k \in m + 1..mine[i] - 1 : ~InTheWay(records[k].entities, entities[i])
    <3> TAKE k \in m + 1..mine[i] - 1
    <3>1. k \in first..at[i] \/ k \in at[i] + 1..mine[i] - 1
      BY <1>3, <1>5, <2>4
    <3>2. k \notin blocking
      BY <2>3, <2>5, <1>3
    <3> QED BY <1>7, <1>8, <3>1, <3>2
  <2> HIDE DEF m
  <2>7. pc'[i] = "wait" /\ at'[i] = m /\ known'[i] = known[i]
    BY <1>0, <1>1, <2>1 DEF Goto, Types, m
  <2>8. ScannedBy(i)'
    BY <1>1, <2>5, <2>6, <2>7 DEF ScannedBy, Clear
  <2>9. {pc[i], "wait"} \subseteq InFile
    BY <1>1 DEF InFile, Waiting
  <2> QED BY <1>1, <1>6, <2>1, <2>5, <2>8, <2>9, WaitInv DEF m
<1> QED BY <1>9, <1>10

LEMMA SleepInv ==
  ASSUME IInv, NEW i \in Insts, Wait(i)
  PROVE  IInv'
<1>0. Types /\ ScannedBy(i)
  BY DEF IInv, Scanned
<1>1. /\ pc[i] = "wait" /\ records' = records /\ header' = header /\ mine' = mine
      /\ entities' = entities /\ known' = known /\ at' = at
  BY DEF Wait, call
<1>2. locks' \in [Insts -> [Offsets -> LockKinds]]
  <2>1. CASE locks' = locks
    BY <1>0, <2>1 DEF Types
  <2>2. CASE locks' = SetRange(locks, i, {at[i]}, "shared")
    BY <1>0, <2>2, SetRangeFacts DEF LockKinds
  <2> QED BY <2>1, <2>2 DEF Wait
<1>3. ASSUME NEW l \in {"woken", "failed"}, Goto(i, l)
      PROVE  IInv'
  <2>1. pc'[i] = l
    BY <1>0, <1>3 DEF Goto, Types
  <2>2. ScannedBy(i)'
    BY <1>0, <1>1, <2>1 DEF ScannedBy, Clear
  <2>3. l \in InFile /\ pc[i] \in InFile
    BY <1>1 DEF InFile, Waiting
  <2> QED BY <1>0, <1>1, <1>2, <1>3, <2>2, <2>3, KeepsAt, WaitInv
<1> QED BY <1>3 DEF Wait

LEMMA WokenInv ==
  ASSUME IInv, NEW i \in Insts, Woken(i)
  PROVE  IInv'
<1>0. Types /\ ScannedBy(i)
  BY DEF IInv, Scanned
<1>1. /\ pc[i] = "woken" /\ records' = records /\ header' = header /\ mine' = mine
      /\ entities' = entities /\ known' = known /\ at' = at
  BY DEF Woken, call
<1>2. locks' \in [Insts -> [Offsets -> LockKinds]]
  <2>1. CASE locks' = locks
    BY <1>0, <2>1 DEF Types
  <2>2. CASE locks' = SetRange(locks, i, {at[i]}, "unlocked")
    BY <1>0, <2>2, SetRangeFacts DEF LockKinds
  <2> QED BY <2>1, <2>2 DEF Woken
<1>3. at[i] >= known[i]
  BY <1>0, <1>1 DEF ScannedBy, Types
<1>4. ASSUME NEW l \in {"reload", "failed"}, Goto(i, l)
      PROVE  IInv'
  <2>1. pc'[i] = l
    BY <1>0, <1>4 DEF Goto, Types
  <2>2. ScannedBy(i)'
    BY <1>0, <1>1, <2>1 DEF ScannedBy, Clear
  <2>3. l \in InFile /\ pc[i] \in InFile
    BY <1>1 DEF InFile, Waiting
  <2> QED BY <1>0, <1>1, <1>2, <1>4, <2>2, <2>3, KeepsAt, WaitInv
<1> QED BY <1>3, <1>4 DEF Woken

LEMMA ReturnInv ==
  ASSUME IInv, NEW i \in Insts, Return(i)
  PROVE  IInv'
<1>0. Types /\ ScannedBy(i)
  BY DEF IInv, Scanned
<1>1. /\ pc[i] \in {"granted", "failed"} /\ records' = records /\ header' = header
      /\ mine' = mine /\ entities' = entities /\ known' = known /\ at' = at
  BY DEF Return, call
<1>2. locks' \in [Insts -> [Offsets -> LockKinds]]
  <2>1. CASE locks' = locks
    BY <1>0, <2>1 DEF Types
  <2>2. CASE locks' = SetRange(locks, i, {mine[i]}, "unlocked")
    BY <1>0, <2>2, SetRangeFacts DEF LockKinds
  <2> QED BY <2>1, <2>2 DEF Return
<1>3. ASSUME NEW l \in {"held", "abandon"}, Goto(i, l), l = "held" => pc[i] = "granted"
      PROVE  IInv'
  <2>1. pc'[i] = l
    BY <1>0, <1>3 DEF Goto, Types
  <2>2. ScannedBy(i)'
    BY <1>0, <1>1, <1>3, <2>1 DEF ScannedBy, Clear
  <2>3. l \in InFile /\ pc[i] \in InFile
    BY <1>1 DEF InFile, Waiting
  <2> QED BY <1>0, <1>1, <1>2, <1>3, <2>2, <2>3, KeepsAt, WaitInv
<1> QED BY <1>3 DEF Return

\* A call of _lock() fails.
LEMMA LockFailsInv ==
  ASSUME IInv, NEW i \in Insts, LockFails(i)
  PROVE  IInv'
<1>0. Types /\ ScannedBy(i)
  BY DEF IInv, Scanned
<1>1. /\ pc[i] \in {"tag", "reload", "batch", "wait"} /\ Goto(i, "failed")
      /\ records' = records /\ header' = header /\ mine' = mine /\ locks' = locks
      /\ entities' = entities /\ known' = known /\ at' = at
  BY DEF LockFails, call
<1>2. pc'[i] = "failed"
  BY <1>0, <1>1 DEF Goto, Types
<1>3. ScannedBy(i)'
  BY <1>0, <1>1, <1>2 DEF ScannedBy, Clear
<1>4. "failed" \in InFile /\ pc[i] \in InFile
  BY <1>1 DEF InFile, Waiting
<1>5. locks' \in [Insts -> [Offsets -> LockKinds]]
  BY <1>0, <1>1 DEF Types
<1> QED BY <1>0, <1>1, <1>3, <1>4, <1>5, KeepsAt, WaitInv

LEMMA ExpireInv ==
  ASSUME IInv, UNCHANGED <<locks, records, header, pc, known, mine, at, entities>>
  PROVE  IInv'
BY DEF IInv, Types, BeforeUse, AllOpen, Unlocked, StaleFile, Resets, HeaderInFile, Completed,
       HasRecord, Request, Owned, Scanned, ScannedBy, Clear

-----------------------------------------------------------------------------
(* Appending and finding a request                                         *)

LEMMA FileFacts ==
  ASSUME Types
  PROVE  Len(records) \in Nat /\ DOMAIN records = 1..Len(records)
BY DEF Types

(* An instance without a record in the file owns none. *)
LEMMA NoRecord ==
  ASSUME IInv, AllOpen, NEW i \in Insts, pc[i] # "find", pc[i] \notin InFile
  PROVE  \A k \in DOMAIN records : records[k].id # i
<1> SUFFICES ASSUME NEW k \in DOMAIN records, records[k].id = i PROVE FALSE
  OBVIOUS
<1>1. records[k] # Zero
  BY AtomicAppendAssumption DEF Zero
<1> QED BY <1>1 DEF IInv, Owned

LEMMA LockInv ==
  ASSUME Orderly, IInv, NEW i \in Insts, Lock(i)
  PROVE  IInv'
<1>0. Types /\ BeforeUse /\ HeaderInFile /\ Completed /\ HasRecord /\ Owned /\ Scanned
  BY DEF IInv
<1>1. /\ pc[i] = "ready" /\ Goto(i, "append") /\ AllOpen
      /\ records' = records /\ header' = header /\ known' = known /\ at' = at /\ locks' = locks
      /\ mine' = [mine EXCEPT ![i] = Len(records) + 1]
  BY DEF Lock, Orderly
<1>2. PICK r \in Requests : entities' = [entities EXCEPT ![i] = r]
  BY DEF Lock
<1>3. r \subseteq Entity
  BY AtomicAppendAssumption
<1>4. Len(records) \in Nat /\ DOMAIN records = 1..Len(records)
  BY <1>0, FileFacts
<1>5. /\ pc' \in [Insts -> Labels] /\ pc'[i] = "append"
      /\ \A j \in Insts \ {i} : pc'[j] = pc[j]
  BY <1>0, <1>1 DEF Goto, Types, Labels
<1>6. /\ mine' \in [Insts -> Nat] /\ mine'[i] = Len(records) + 1
      /\ \A j \in Insts \ {i} : mine'[j] = mine[j]
  BY <1>0, <1>1, <1>4 DEF Types
<1>7. /\ entities' \in [Insts -> SUBSET Entity]
      /\ \A j \in Insts \ {i} : entities'[j] = entities[j]
  BY <1>0, <1>2, <1>3 DEF Types
<1>8. AllOpen'
  BY <1>0, <1>1, StaysOpen DEF Opening
<1>9. Types'
  BY <1>0, <1>1, <1>5, <1>6, <1>7 DEF Types
<1>10. HeaderInFile'
  BY <1>0, <1>1, <1>5 DEF HeaderInFile, Opening
<1>11. Completed'
  BY <1>0, <1>1 DEF Completed
<1>12. HasRecord'
  <2> SUFFICES ASSUME NEW j \in Insts
               PROVE  /\ pc'[j] \in {"append", "find"} => mine'[j] \in 1..Len(records) + 1
                      /\ pc'[j] = "find" => \E k \in mine'[j]..Len(records) : records[k] = Request(j)'
                      /\ pc'[j] \in InFile => mine'[j] \in DOMAIN records /\ records[mine'[j]] = Request(j)'
    BY <1>1 DEF HasRecord, InFile, Waiting
  <2>1. CASE j = i
    BY <1>4, <1>5, <1>6, <2>1 DEF InFile, Waiting
  <2>2. CASE j # i
    <3>1. pc'[j] = pc[j] /\ mine'[j] = mine[j] /\ Request(j)' = Request(j)
      BY <1>5, <1>6, <1>7, <2>2 DEF Request
    <3> QED BY <1>0, <3>1 DEF HasRecord
  <2> QED BY <2>1, <2>2
<1>13. Owned'
  <2>1. \A k \in DOMAIN records : records[k].id # i
    BY <1>1, NoRecord DEF InFile, Waiting
  <2> QED BY <1>0, <1>1, <1>5, <1>6, <2>1 DEF Owned, InFile, Waiting
<1>14. Scanned'
  BY <1>0, <1>1, <1>5, <1>6, <1>7 DEF Scanned, ScannedBy, Clear
<1> QED BY <1>8, <1>9, <1>10, <1>11, <1>12, <1>13, <1>14, Used DEF IInv

LEMMA AppendInv ==
  ASSUME IInv, NEW i \in Insts, AppendRequest(i)
  PROVE  IInv'
<1>0. Types /\ BeforeUse /\ HeaderInFile /\ Completed /\ HasRecord /\ Owned /\ Scanned
  BY DEF IInv
<1>1. /\ pc[i] = "append" /\ Goto(i, "find") /\ records' = Append(records, Request(i))
      /\ header' = header /\ known' = known /\ at' = at /\ locks' = locks
      /\ mine' = mine /\ entities' = entities
  BY DEF AppendRequest, Request, call
<1>2. AllOpen
  BY <1>0, <1>1, InUse DEF Opening
<1>3. AllOpen'
  BY <1>0, <1>1, <1>2, StaysOpen DEF Opening
<1>4. Len(records) \in Nat /\ DOMAIN records = 1..Len(records)
  BY <1>0, FileFacts
<1> DEFINE new == Len(records) + 1
<1>5. Request(i) \in AnyRecord
  BY <1>0 DEF Types, Request, AnyRecord
<1>6. /\ records' \in Seq(AnyRecord) /\ Len(records') = new /\ DOMAIN records' = 1..new
      /\ records'[new] = Request(i) /\ \A k \in 1..Len(records) : records'[k] = records[k]
  BY <1>0, <1>1, <1>5 DEF Types
<1>7. /\ pc' \in [Insts -> Labels] /\ pc'[i] = "find"
      /\ \A j \in Insts \ {i} : pc'[j] = pc[j]
  BY <1>0, <1>1 DEF Goto, Types, Labels
<1>8. new \in Nat /\ new \notin 1..Len(records) /\ 1..new = 1..Len(records) \cup {new}
  BY <1>4
<1>9. Types'
  BY <1>0, <1>1, <1>6, <1>7 DEF Types
<1>10. HeaderInFile'
  <2>1. header \in 1..new + 1 /\ \A j \in Insts : known[j] <= new + 1
    BY <1>0, <1>4 DEF HeaderInFile, Types
  <2>2. known[i] >= 1
    BY <1>0, <1>1 DEF HeaderInFile, Opening
  <2> QED BY <1>0, <1>1, <1>6, <1>7, <2>1, <2>2 DEF HeaderInFile
<1>11. Completed'
  <2>1. ~(new < header) /\ \A j \in Insts : ~(new < known[j])
    BY <1>0, <1>4 DEF HeaderInFile, Types
  <2> QED BY <1>0, <1>1, <1>2, <1>4, <1>6, <1>8, <2>1 DEF Completed
<1>12. HasRecord'
  <2> SUFFICES ASSUME NEW j \in Insts
               PROVE  /\ pc'[j] \in {"append", "find"} => mine[j] \in 1..new + 1
                      /\ pc'[j] = "find" => \E k \in mine[j]..new : records'[k] = Request(j)
                      /\ pc'[j] \in InFile => mine[j] \in 1..new /\ records'[mine[j]] = Request(j)
    BY <1>1, <1>6 DEF HasRecord, Request, InFile, Waiting
  <2>0. mine[j] \in Nat
    BY <1>0 DEF Types
  <2>1. CASE j = i
    <3>1. mine[i] \in 1..new
      BY <1>0, <1>1, <1>4 DEF HasRecord
    <3>2. new \in mine[i]..new
      BY <1>4, <2>0, <2>1, <3>1
    <3> QED BY <1>4, <1>6, <1>7, <2>1, <3>1, <3>2 DEF InFile, Waiting
  <2>2. CASE j # i
    <3>1. pc'[j] = pc[j]
      BY <1>7, <2>2
    <3>2. pc[j] \in {"append", "find"} => mine[j] \in 1..new + 1
      BY <1>0, <1>4, <2>0 DEF HasRecord
    <3>3. ASSUME pc[j] = "find" PROVE \E k \in mine[j]..new : records'[k] = Request(j)
      <4>1. PICK k \in mine[j]..Len(records) : records[k] = Request(j)
        BY <1>0, <3>3 DEF HasRecord
      <4>2. mine[j] \in 1..new
        BY <1>0, <3>3 DEF HasRecord
      <4>3. k \in 1..Len(records) /\ k \in mine[j]..new
        BY <1>4, <2>0, <4>2
      <4> QED BY <1>6, <4>1, <4>3
    <3>4. pc[j] \in InFile => mine[j] \in 1..new /\ records'[mine[j]] = Request(j)
      BY <1>0, <1>4, <1>6, <1>8 DEF HasRecord
    <3> QED BY <3>1, <3>2, <3>3, <3>4
  <2> QED BY <2>1, <2>2
<1>13. Owned'
  <2>1. \A k \in 1..Len(records) : records[k].id # i
    BY <1>1, <1>2, <1>4, NoRecord DEF InFile, Waiting
  <2>2. records'[new].id = i
    BY <1>6 DEF Request
  <2> HIDE DEF new
  <2>3. ASSUME NEW k \in 1..new, records'[k] # Zero
        PROVE  \E j \in Insts : /\ records'[k].id = j
                                /\ pc'[j] = "find" \/ (pc'[j] \in InFile /\ mine[j] = k)
    <3>1. CASE k = new
      BY <1>7, <2>2, <3>1
    <3>2. CASE k \in 1..Len(records)
      <4>1. records'[k] = records[k]
        BY <1>6, <3>2
      <4>2. PICK j \in Insts : /\ records[k].id = j
                               /\ pc[j] = "find" \/ (pc[j] \in InFile /\ mine[j] = k)
        BY <1>0, <1>2, <1>4, <2>3, <3>2, <4>1 DEF Owned
      <4>3. pc'[j] = pc[j]
        BY <1>7, <2>1, <3>2, <4>2
      <4> QED BY <4>1, <4>2, <4>3
    <3> QED BY <1>8, <3>1, <3>2
  <2>4. ASSUME NEW k \in 1..new, NEW l \in 1..new, records'[k].id = records'[l].id, records'[k] # Zero
        PROVE  k = l
    <3>1. CASE k \in 1..Len(records) /\ l \in 1..Len(records)
      BY <1>0, <1>2, <1>4, <1>6, <2>4, <3>1 DEF Owned
    <3>2. CASE k = new /\ l \in 1..Len(records)
      BY <1>6, <2>1, <2>2, <2>4, <3>2
    <3>3. CASE l = new /\ k \in 1..Len(records)
      BY <1>6, <2>1, <2>2, <2>4, <3>3
    <3> QED BY <1>8, <3>1, <3>2, <3>3
  <2> QED BY <1>1, <1>6, <2>3, <2>4 DEF Owned
<1>14. Scanned'
  <2> SUFFICES ASSUME NEW j \in Insts PROVE ScannedBy(j)'
    BY DEF Scanned
  <2>1. CASE j = i
    BY <1>7, <2>1 DEF ScannedBy
  <2>2. CASE j # i /\ pc[j] \in InFile
    <3>1. mine[j] \in 1..Len(records)
      BY <1>0, <1>4, <2>2 DEF HasRecord
    <3>2. Clear(j, 1) => Clear(j, 1)'
      BY <1>1, <1>4, <1>6, <3>1 DEF Clear
    <3>3. at[j] \in Nat /\ pc'[j] = pc[j] /\ at' = at /\ known' = known /\ mine' = mine
      BY <1>0, <1>1, <1>7, <2>2 DEF Types
    <3>4. Clear(j, at[j] + 1) => Clear(j, at[j] + 1)'
      BY <1>1, <1>4, <1>6, <3>1, <3>3 DEF Clear
    <3>5. ScannedBy(j)
      BY <1>0 DEF Scanned
    <3> QED BY <3>2, <3>3, <3>4, <3>5 DEF ScannedBy
  <2>3. CASE j # i /\ pc[j] \notin InFile
    BY <1>7, <2>3 DEF ScannedBy, InFile, Waiting
  <2> QED BY <2>1, <2>2, <2>3
<1> QED BY <1>3, <1>9, <1>10, <1>11, <1>12, <1>13, <1>14, Used DEF IInv

(* The record found is the own: it is the only one with the own hash. *)
LEMMA FoundFacts ==
  ASSUME Orderly, IInv, AllOpen, NEW i \in Insts, pc[i] = "find",
         NEW found, found = {k \in mine[i]..Len(records) : SameHash(i, records[k])}
  PROVE  /\ Min(found) \in DOMAIN records
         /\ records[Min(found)] = Request(i)
         /\ \A k \in DOMAIN records : records[k].id = i => k = Min(found)
<1>0. Types /\ HasRecord /\ Owned
  BY DEF IInv
<1>1. Len(records) \in Nat /\ DOMAIN records = 1..Len(records)
  BY <1>0, FileFacts
<1>2. mine[i] \in 1..Len(records) + 1
  BY <1>0 DEF HasRecord
<1>3. PICK k \in mine[i]..Len(records) : records[k] = Request(i)
  BY <1>0 DEF HasRecord
<1>4. k \in DOMAIN records /\ records[k].id = i
  BY <1>1, <1>2, <1>3 DEF Request
<1>5. k \in found
  BY <1>3, <1>4 DEF SameHash
<1>6. found \subseteq DOMAIN records /\ found \subseteq Nat
  BY <1>1, <1>2
<1>7. Min(found) \in found
  BY <1>5, <1>6, MinFacts
<1>8. records[Min(found)].id = i
  BY <1>7 DEF SameHash, Orderly
<1>9. records[k] # Zero
  BY <1>4, AtomicAppendAssumption DEF Zero
<1>10. \A l \in DOMAIN records : records[l].id = i => l = k
  BY <1>0, <1>4, <1>9 DEF Owned
<1>11. Min(found) = k
  BY <1>6, <1>7, <1>8, <1>10
<1> QED BY <1>3, <1>4, <1>10, <1>11

LEMMA FindInv ==
  ASSUME Orderly, IInv, NEW i \in Insts, Find(i)
  PROVE  IInv'
<1>0. Types /\ BeforeUse /\ HeaderInFile /\ Completed /\ HasRecord /\ Owned /\ Scanned
  BY DEF IInv
<1> DEFINE found == {k \in mine[i]..Len(records) : SameHash(i, records[k])}
           m == Min(found)
<1>1. /\ pc[i] = "find" /\ locks' = locks /\ records' = records /\ header' = header
      /\ known' = known /\ entities' = entities
      /\ mine' = [mine EXCEPT ![i] = m] /\ at' = [at EXCEPT ![i] = m - 1]
  BY DEF Find, call
<1>2. PICK l \in {"tag", "reload"} : Goto(i, l)
  BY DEF Find
<1>3. AllOpen
  BY <1>0, <1>1, InUse DEF Opening
<1>4. AllOpen'
  BY <1>0, <1>1, <1>2, <1>3, StaysOpen DEF Opening
<1>5. /\ m \in DOMAIN records /\ records[m] = Request(i)
      /\ \A k \in DOMAIN records : records[k].id = i => k = m
  BY <1>1, <1>3, FoundFacts
<1> HIDE DEF m, found
<1>6. m \in Nat /\ m - 1 \in Nat /\ m - 1 < m /\ (m - 1) + 1 = m
  BY <1>0, <1>5, FileFacts
<1>7. /\ pc' \in [Insts -> Labels] /\ pc'[i] = l
      /\ \A j \in Insts \ {i} : pc'[j] = pc[j]
  BY <1>0, <1>2 DEF Goto, Types, Labels, Waiting
<1>8. /\ mine' \in [Insts -> Nat] /\ mine'[i] = m
      /\ \A j \in Insts \ {i} : mine'[j] = mine[j]
  BY <1>0, <1>1, <1>6 DEF Types
<1>9. /\ at' \in [Insts -> Nat] /\ at'[i] = m - 1
      /\ \A j \in Insts \ {i} : at'[j] = at[j]
  BY <1>0, <1>1, <1>6 DEF Types
<1>10. Types'
  BY <1>0, <1>1, <1>7, <1>8, <1>9 DEF Types
<1>11. HeaderInFile'
  BY <1>0, <1>1, <1>7 DEF HeaderInFile, Opening
<1>12. Completed'
  BY <1>0, <1>1, <1>3 DEF Completed
<1>13. HasRecord'
  BY <1>0, <1>1, <1>5, <1>7, <1>8 DEF HasRecord, Request, InFile, Waiting
<1>14. Owned'
  <2>1. l \in InFile
    BY DEF InFile, Waiting
  <2> QED BY <1>0, <1>1, <1>3, <1>5, <1>7, <1>8, <2>1 DEF Owned
<1>15. Scanned'
  <2> SUFFICES ASSUME NEW j \in Insts PROVE ScannedBy(j)'
    BY DEF Scanned
  <2>1. CASE j = i
    <3>1. \A k \in m..m - 1 : FALSE
      BY <1>6
    <3>2. Clear(i, at[i] + 1)'
      BY <1>6, <1>8, <1>9, <3>1 DEF Clear
    <3> QED BY <1>6, <1>7, <1>8, <1>9, <2>1, <3>2 DEF ScannedBy
  <2>2. CASE j # i
    BY <1>0, <1>1, <1>7, <1>8, <1>9, <2>2 DEF Scanned, ScannedBy, Clear
  <2> QED BY <2>1, <2>2
<1> QED BY <1>4, <1>10, <1>11, <1>12, <1>13, <1>14, <1>15, Used DEF IInv

-----------------------------------------------------------------------------
(* Completing a request                                                    *)

LEMMA UnlockInv ==
  ASSUME IInv, NEW i \in Insts, Unlock(i)
  PROVE  IInv'
<1>0. Types /\ BeforeUse /\ HeaderInFile /\ Completed /\ HasRecord /\ Owned /\ Scanned
  BY DEF IInv
<1> DEFINE m == mine[i]
<1>1. /\ pc[i] \in {"held", "abandon"} /\ locks' = locks /\ header' = header /\ known' = known
      /\ records' = [k \in DOMAIN records |-> IF k = m THEN Zero ELSE records[k]]
      /\ mine' = [mine EXCEPT ![i] = 0] /\ at' = [at EXCEPT ![i] = 0]
      /\ entities' = [entities EXCEPT ![i] = {}]
  BY DEF Unlock, Forget
<1>2. PICK l \in {"bump", "ready"} : Goto(i, l)
  BY DEF Unlock
<1>3. AllOpen
  BY <1>0, <1>1, InUse DEF Opening
<1>4. AllOpen'
  BY <1>0, <1>1, <1>2, <1>3, StaysOpen DEF Opening
<1>5. Len(records) \in Nat /\ DOMAIN records = 1..Len(records)
  BY <1>0, FileFacts
<1>6. m \in DOMAIN records /\ records[m] = Request(i)
  BY <1>0, <1>1 DEF HasRecord, InFile, Waiting
<1>7. \A k \in DOMAIN records : records[k].id = i => k = m
  <2>1. records[m].id = i
    BY <1>6 DEF Request
  <2>2. records[m] # Zero
    BY <2>1, AtomicAppendAssumption DEF Zero
  <2> QED BY <1>0, <1>3, <1>6, <2>1, <2>2 DEF Owned
<1> HIDE DEF m
<1>8. /\ DOMAIN records' = DOMAIN records
      /\ records'[m] = Zero
      /\ \A k \in DOMAIN records : k # m => records'[k] = records[k]
  BY <1>1, <1>6
<1>9. records' \in Seq(AnyRecord) /\ Len(records') = Len(records)
  <2>1. Zero \in AnyRecord
    BY DEF Zero, AnyRecord
  <2>2. \A k \in 1..Len(records) : records[k] \in AnyRecord
    BY <1>0, <1>5 DEF Types
  <2>3. records' \in [1..Len(records) -> AnyRecord]
    BY <1>1, <1>5, <2>1, <2>2
  <2> HIDE DEF AnyRecord
  <2> QED BY <1>5, <2>3
<1>10. /\ pc' \in [Insts -> Labels] /\ pc'[i] = l
       /\ \A j \in Insts \ {i} : pc'[j] = pc[j]
  BY <1>0, <1>2 DEF Goto, Types, Labels, Idle
<1>11. /\ mine' \in [Insts -> Nat] /\ at' \in [Insts -> Nat] /\ entities' \in [Insts -> SUBSET Entity]
       /\ \A j \in Insts \ {i} : mine'[j] = mine[j] /\ at'[j] = at[j] /\ entities'[j] = entities[j]
  BY <1>0, <1>1 DEF Types
<1>12. Types'
  BY <1>0, <1>1, <1>9, <1>10, <1>11 DEF Types
<1>13. HeaderInFile'
  <2>1. known[i] >= 1
    BY <1>0, <1>1 DEF HeaderInFile, Opening
  <2> QED BY <1>0, <1>1, <1>9, <1>10, <2>1 DEF HeaderInFile
<1>14. Completed'
  BY <1>0, <1>1, <1>3, <1>8 DEF Completed
<1>15. HasRecord'
  <2> SUFFICES ASSUME NEW j \in Insts
               PROVE  /\ pc'[j] \in {"append", "find"} => mine'[j] \in 1..Len(records) + 1
                      /\ pc'[j] = "find" => \E k \in mine'[j]..Len(records) : records'[k] = Request(j)'
                      /\ pc'[j] \in InFile => mine'[j] \in DOMAIN records /\ records'[mine'[j]] = Request(j)'
    BY <1>8, <1>9 DEF HasRecord, InFile, Waiting
  <2>1. CASE j = i
    BY <1>10, <2>1 DEF InFile, Waiting
  <2>2. CASE j # i
    <3>1. pc'[j] = pc[j] /\ mine'[j] = mine[j] /\ Request(j)' = Request(j) /\ mine[j] \in Nat
      BY <1>0, <1>10, <1>11, <2>2 DEF Request, Types
    <3>2. \A k \in DOMAIN records : records[k] = Request(j) => records'[k] = Request(j)
      BY <1>6, <1>8, <2>2 DEF Request
    <3>3. ASSUME pc[j] = "find" PROVE \E k \in mine[j]..Len(records) : records'[k] = Request(j)
      <4>1. PICK k \in mine[j]..Len(records) : records[k] = Request(j)
        BY <1>0, <3>3 DEF HasRecord
      <4>2. mine[j] \in 1..Len(records) + 1
        BY <1>0, <3>3 DEF HasRecord
      <4>3. k \in DOMAIN records
        BY <1>5, <3>1, <4>2
      <4> QED BY <3>2, <4>1, <4>3
    <3>4. pc[j] \in InFile => mine[j] \in DOMAIN records /\ records'[mine[j]] = Request(j)
      BY <1>0, <3>2 DEF HasRecord
    <3>5. pc[j] \in {"append", "find"} => mine[j] \in 1..Len(records) + 1
      BY <1>0 DEF HasRecord
    <3> QED BY <3>1, <3>3, <3>4, <3>5
  <2> QED BY <2>1, <2>2
<1>16. Owned'
  <2>1. ASSUME NEW k \in DOMAIN records, records'[k] # Zero
        PROVE  \E j \in Insts : /\ records'[k].id = j
                                /\ pc'[j] = "find" \/ (pc'[j] \in InFile /\ mine'[j] = k)
    <3>1. k # m /\ records'[k] = records[k]
      BY <1>8, <2>1
    <3>2. PICK j \in Insts : /\ records[k].id = j
                             /\ pc[j] = "find" \/ (pc[j] \in InFile /\ mine[j] = k)
      BY <1>0, <1>3, <2>1, <3>1 DEF Owned
    <3>3. j # i
      BY <1>7, <3>1, <3>2
    <3> QED BY <1>10, <1>11, <3>1, <3>2, <3>3
  <2>2. ASSUME NEW k \in DOMAIN records, NEW n \in DOMAIN records,
               records'[k].id = records'[n].id, records'[k] # Zero
        PROVE  k = n
    <3>1. k # m /\ records'[k] = records[k]
      BY <1>8, <2>2
    <3>2. records[k].id \in Insts
      BY <1>0, <1>3, <2>2, <3>1 DEF Owned
    <3>3. n # m
      BY <1>8, <2>2, <3>1, <3>2, AtomicAppendAssumption DEF Zero
    <3> QED BY <1>0, <1>3, <1>8, <2>2, <3>1, <3>3 DEF Owned
  <2> QED BY <1>8, <2>1, <2>2 DEF Owned
<1>17. Scanned'
  <2> SUFFICES ASSUME NEW j \in Insts PROVE ScannedBy(j)'
    BY DEF Scanned
  <2>1. CASE j = i
    BY <1>10, <2>1 DEF ScannedBy
  <2>2. CASE j # i /\ pc[j] \in InFile
    <3>1. mine[j] \in DOMAIN records
      BY <1>0, <2>2 DEF HasRecord
    <3>2. /\ pc'[j] = pc[j] /\ at'[j] = at[j] /\ known'[j] = known[j] /\ mine'[j] = mine[j]
          /\ entities'[j] = entities[j] /\ at[j] \in Nat /\ mine[j] \in Nat
      BY <1>0, <1>1, <1>10, <1>11, <2>2 DEF Types
    <3>3. \A k \in DOMAIN records : InTheWay(records'[k].entities, entities[j]) => InTheWay(records[k].entities, entities[j])
      BY <1>8, ZeroClear
    <3>4. Clear(j, 1) => Clear(j, 1)'
      BY <1>5, <3>1, <3>2, <3>3 DEF Clear
    <3>5. Clear(j, at[j] + 1) => Clear(j, at[j] + 1)'
      BY <1>5, <3>1, <3>2, <3>3 DEF Clear
    <3>6. ScannedBy(j)
      BY <1>0 DEF Scanned
    <3> QED BY <3>2, <3>4, <3>5, <3>6 DEF ScannedBy
  <2>3. CASE j # i /\ pc[j] \notin InFile
    BY <1>10, <2>3 DEF ScannedBy, InFile, Waiting
  <2> QED BY <2>1, <2>2, <2>3
<1> QED BY <1>4, <1>12, <1>13, <1>14, <1>15, <1>16, <1>17, Used DEF IInv

(* An instance that brings the header up to date changes only the header.  *)
LEMMA BringUpInv ==
  ASSUME IInv, NEW i \in Insts, pc[i] \in {"bump", "write"},
         NEW l \in {"bump", "write", "ready"}, Goto(i, l),
         UNCHANGED <<locks, records, mine, at, entities>>,
         header' \in Nat, header' \in 1..Len(records) + 1,
         NEW n \in Nat, known' = [known EXCEPT ![i] = n], 1 <= n, n <= Len(records) + 1,
         \A k \in DOMAIN records : k < header' \/ k < n => records[k] = Zero
  PROVE  IInv'
<1>0. Types /\ BeforeUse /\ HeaderInFile /\ Completed /\ HasRecord /\ Owned /\ Scanned
  BY DEF IInv
<1>1. AllOpen
  BY <1>0, InUse DEF Opening
<1>2. AllOpen'
  BY <1>0, <1>1, StaysOpen DEF Opening
<1>3. /\ pc' \in [Insts -> Labels] /\ pc'[i] = l
      /\ \A j \in Insts \ {i} : pc'[j] = pc[j]
  BY <1>0 DEF Goto, Types, Labels, Idle
<1>4. /\ known' \in [Insts -> Nat] /\ known'[i] = n
      /\ \A j \in Insts \ {i} : known'[j] = known[j]
  BY <1>0 DEF Types
<1>5. Types'
  BY <1>0, <1>3, <1>4 DEF Types
<1>6. HeaderInFile'
  BY <1>0, <1>3, <1>4 DEF HeaderInFile
<1>7. Completed'
  BY <1>0, <1>1, <1>4 DEF Completed
<1>8. HasRecord'
  BY <1>0, <1>3 DEF HasRecord, Request, InFile, Waiting
<1>9. Owned'
  BY <1>0, <1>1, <1>3 DEF Owned, InFile, Waiting
<1>10. Scanned'
  BY <1>0, <1>3, <1>4 DEF Scanned, ScannedBy, Clear
<1> QED BY <1>2, <1>5, <1>6, <1>7, <1>8, <1>9, <1>10, Used DEF IInv

(* The scan from a copy of the header, however old, stops at the first     *)
(* record that is not completed, or at the end of what was read.           *)
LEMMA BumpInv ==
  ASSUME IInv, NEW i \in Insts, Bump(i)
  PROVE  IInv'
<1>0. Types /\ BeforeUse /\ HeaderInFile /\ Completed
  BY DEF IInv
<1> DEFINE read == known[i] + BufRecords - 1
           last == Min({Len(records), read})
           live == {k \in known[i]..last : records[k] # Zero}
           n == IF live # {} THEN Min(live) ELSE Max({known[i], last + 1})
<1>1. /\ pc[i] = "bump" /\ UNCHANGED <<locks, records, mine, at, entities>> /\ header' = header
      /\ known' = [known EXCEPT ![i] = n]
  BY DEF Bump, call
<1>2. PICK l \in {"bump", "write"} : Goto(i, l)
  BY DEF Bump
<1>3. AllOpen
  BY <1>0, <1>1, InUse DEF Opening
<1>4. Len(records) \in Nat /\ DOMAIN records = 1..Len(records)
  BY <1>0, FileFacts
<1>5. known[i] \in Nat /\ 1 <= known[i] /\ known[i] <= Len(records) + 1
  BY <1>0, <1>1 DEF HeaderInFile, Types, Opening
<1>6. last \in Nat /\ last <= Len(records)
  <2>1. read \in Nat
    BY <1>5, AtomicAppendAssumption
  <2> HIDE DEF read
  <2> QED BY <1>4, <2>1, MinPair
<1> HIDE DEF last
<1>7. \A k \in DOMAIN records : k < known[i] \/ k < header => records[k] = Zero
  BY <1>0, <1>3 DEF Completed
<1>8. header \in Nat /\ header \in 1..Len(records) + 1
  BY <1>0 DEF HeaderInFile, Types
<1>9. n \in Nat /\ 1 <= n /\ n <= Len(records) + 1 /\ \A k \in DOMAIN records : k < n => records[k] = Zero
  <2>1. CASE live # {}
    <3>1. live \subseteq Nat
      BY <1>5, <1>6
    <3>2. Min(live) \in live /\ \A y \in live : Min(live) <= y
      <4> HIDE DEF live
      <4> QED BY <2>1, <3>1, MinFacts
    <3>3. n = Min(live)
      BY <2>1
    <3>4. n \in known[i]..last /\ \A y \in live : n <= y
      BY <3>2, <3>3
    <3> HIDE DEF n
    <3>5. ASSUME NEW k \in DOMAIN records, k < n PROVE records[k] = Zero
      <4>1. CASE k < known[i]
        BY <1>7, <4>1
      <4>2. CASE k >= known[i]
        <5>1. k \in known[i]..last /\ ~(n <= k)
          BY <1>4, <1>5, <1>6, <3>4, <3>5, <4>2
        <5> QED BY <3>4, <5>1
      <4> QED BY <1>4, <1>5, <4>1, <4>2
    <3> QED BY <1>4, <1>5, <1>6, <3>4, <3>5
  <2>2. CASE live = {}
    <3>1. n = IF known[i] >= last + 1 THEN known[i] ELSE last + 1
      BY <1>5, <1>6, <2>2, MaxPair
    <3> HIDE DEF n
    <3>2. ASSUME NEW k \in DOMAIN records, k < n PROVE records[k] = Zero
      <4>1. CASE k < known[i]
        BY <1>7, <4>1
      <4>2. CASE k >= known[i]
        <5>1. k \in known[i]..last
          BY <1>4, <1>5, <1>6, <3>1, <3>2, <4>2
        <5> QED BY <2>2, <5>1
      <4> QED BY <1>4, <1>5, <4>1, <4>2
    <3> QED BY <1>4, <1>5, <1>6, <3>1, <3>2
  <2> QED BY <2>1, <2>2
<1> HIDE DEF n
<1> QED BY <1>1, <1>2, <1>7, <1>8, <1>9, BringUpInv

LEMMA WriteBumpInv ==
  ASSUME IInv, NEW i \in Insts, WriteBump(i)
  PROVE  IInv'
<1>0. Types /\ BeforeUse /\ HeaderInFile /\ Completed
  BY DEF IInv
<1>1. /\ pc[i] = "write" /\ Goto(i, "ready") /\ header' = known[i] /\ known' = known
      /\ UNCHANGED <<locks, records, mine, at, entities>>
  BY DEF WriteBump, call
<1>2. AllOpen
  BY <1>0, <1>1, InUse DEF Opening
<1>3. Len(records) \in Nat
  BY <1>0, FileFacts
<1>4. known[i] \in Nat /\ 1 <= known[i] /\ known[i] <= Len(records) + 1
  BY <1>0, <1>1 DEF HeaderInFile, Types, Opening
<1>5. \A k \in DOMAIN records : k < known[i] => records[k] = Zero
  BY <1>0, <1>2 DEF Completed
<1>6. known' = [known EXCEPT ![i] = known[i]]
  BY <1>0, <1>1 DEF Types
<1>7. header' \in Nat /\ header' \in 1..Len(records) + 1
  BY <1>1, <1>3, <1>4
<1> QED BY <1>1, <1>4, <1>5, <1>6, <1>7, BringUpInv

LEMMA BumpFailsInv ==
  ASSUME IInv, NEW i \in Insts, BumpFails(i)
  PROVE  IInv'
<1>0. Types /\ BeforeUse /\ HeaderInFile /\ Completed
  BY DEF IInv
<1>1. /\ pc[i] \in {"bump", "write"} /\ header' = header /\ known' = known
      /\ UNCHANGED <<locks, records, mine, at, entities>>
  BY DEF BumpFails, call
<1>2. PICK l \in {"write", "ready"} : Goto(i, l)
  BY DEF BumpFails
<1>3. AllOpen
  BY <1>0, <1>1, InUse DEF Opening
<1>4. known[i] \in Nat /\ 1 <= known[i] /\ known[i] <= Len(records) + 1
  BY <1>0, <1>1 DEF HeaderInFile, Types, Opening
<1>5. \A k \in DOMAIN records : k < known[i] \/ k < header => records[k] = Zero
  BY <1>0, <1>3 DEF Completed
<1>6. header \in Nat /\ header \in 1..Len(records) + 1
  BY <1>0 DEF HeaderInFile, Types
<1>7. known' = [known EXCEPT ![i] = known[i]]
  BY <1>0, <1>1 DEF Types
<1> QED BY <1>1, <1>2, <1>4, <1>5, <1>6, <1>7, BringUpInv

-----------------------------------------------------------------------------
(* The invariant of the specification, and what it says                    *)

LEMMA NextInv == Orderly /\ IInv /\ [Next]_vars => IInv'
<1> SUFFICES ASSUME Orderly, IInv, [Next]_vars PROVE IInv'
  OBVIOUS
<1>1. CASE UNCHANGED vars
  BY <1>1, ExpireInv DEF vars, call
<1>2. ASSUME NEW i \in Insts, Expire(i) PROVE IInv'
  BY <1>2, ExpireInv DEF Expire, call
<1>3. ASSUME NEW i \in Insts, Open(i) \/ Close(i) \/ Lock(i) \/ Unlock(i) \/ Step(i)
      PROVE  IInv'
  <2>1. CASE OpenStep(i)
    BY <2>1, OpenInv
  <2>2. CASE Tag(i) \/ Reload(i) \/ Batch(i) \/ Wait(i) \/ Woken(i) \/ Return(i)
    BY <2>2, TagInv, ReloadInv, BatchInv, SleepInv, WokenInv, ReturnInv
  <2>3. CASE Close(i) \/ Lock(i) \/ AppendRequest(i) \/ Find(i)
    BY <2>3, CloseInv, LockInv, AppendInv, FindInv
  <2>4. CASE Unlock(i) \/ Bump(i) \/ WriteBump(i)
    BY <2>4, UnlockInv, BumpInv, WriteBumpInv
  <2> QED BY <1>3, <2>1, <2>2, <2>3, <2>4 DEF OpenStep, Step
<1>4. ASSUME NEW i \in Insts, LockFails(i) \/ BumpFails(i) PROVE IInv'
  BY <1>4, LockFailsInv, BumpFailsInv
<1> QED BY <1>1, <1>2, <1>3, <1>4 DEF Next

(* The invariant holds throughout: the file, the header, every cached copy *)
(* of it and what each instance has scanned agree.                         *)
THEOREM Invariant ==
  ASSUME Orderly
  PROVE  Spec => []IInv
<1>1. Init => IInv
  BY InitInv
<1>2. IInv /\ [Next]_vars => IInv'
  BY NextInv
<1> QED BY <1>1, <1>2, PTL DEF Spec

(* unlock() may write back a first_known_good that it read long ago and    *)
(* scanned forward from; still every record before the header in the file, *)
(* and before any copy of it, is completed.                                *)
THEOREM KnownGoodHolds ==
  ASSUME Orderly
  PROVE  Spec => []KnownGood
<1>1. IInv => KnownGood
  <2> SUFFICES ASSUME IInv PROVE KnownGood
    OBVIOUS
  <2>1. CASE AllOpen
    BY <2>1 DEF KnownGood, IInv, Completed
  <2>2. CASE ~AllOpen
    <3>1. header = 1 /\ DOMAIN records = 1..Len(records) /\ Len(records) \in Nat
      BY <2>2, FileFacts DEF IInv, BeforeUse
    <3> QED BY <2>2, <3>1 DEF KnownGood
  <2> QED BY <2>1, <2>2
<1> QED BY <1>1, Invariant, PTL

(* _lock() returns only when no earlier record in its way is left, and     *)
(* none appears until unlock(): appended records come after.               *)
THEOREM NoOvertakingHolds ==
  ASSUME Orderly
  PROVE  Spec => []NoOvertaking
<1>1. IInv => NoOvertaking
  BY DEF NoOvertaking, IInv, Scanned, ScannedBy, Clear
<1> QED BY <1>1, Invariant, PTL

(* Every record in the file that is not zero belongs to an instance that   *)
(* is on its way to zero it, the ones of failed lock() calls too.          *)
THEOREM NoOrphanHolds ==
  ASSUME Orderly
  PROVE  Spec => []NoOrphan
<1>1. IInv => NoOrphan
  BY DEF NoOrphan, IInv, Owned, InFile
<1> QED BY <1>1, Invariant, PTL

-----------------------------------------------------------------------------
(* AtomicAppend implements SharedFsMutex                                   *)

LEMMA NoGrant ==
  ASSUME NEW i \in Insts
  PROVE  /\ pc[i] # "held" => held[i] = Mutex!Nothing
         /\ pc'[i] # "held" => held'[i] = Mutex!Nothing
BY DEF held, Holds, Mutex!Nothing

(* The later of two requests that are granted is not in the way of the     *)
(* earlier one.                                                            *)
LEMMA GuardsApart == IInv => Exclusion
<1> SUFFICES ASSUME IInv, NEW i \in Insts, NEW j \in Insts, i # j, Mutex!Clash(held[i], held[j])
             PROVE  FALSE
  BY DEF Exclusion, Mutex!Exclusion
<1>1. PICK e \in Entities : /\ held[i][e] # "unlocked" /\ held[j][e] # "unlocked"
                            /\ "exclusive" \in {held[i][e], held[j][e]}
  BY DEF Mutex!Clash
<1>2. PICK x \in BOOLEAN, y \in BOOLEAN : Holds(i, e, x) /\ Holds(j, e, y) /\ (x \/ y)
  BY <1>1 DEF held
<1>3. pc[i] = "held" /\ pc[j] = "held" /\ InTheWay(entities[i], entities[j]) /\ InTheWay(entities[j], entities[i])
  BY <1>2 DEF Holds, InTheWay
<1>4. /\ mine[i] \in DOMAIN records /\ records[mine[i]] = Request(i)
      /\ mine[j] \in DOMAIN records /\ records[mine[j]] = Request(j)
  BY <1>3 DEF IInv, HasRecord, InFile
<1>5. mine[i] # mine[j]
  BY <1>4 DEF Request
<1>6. DOMAIN records = 1..Len(records) /\ Len(records) \in Nat
  BY FileFacts DEF IInv
<1>7. Clear(i, 1) /\ Clear(j, 1)
  BY <1>3 DEF IInv, Scanned, ScannedBy
<1>8. records[mine[i]].entities = entities[i] /\ records[mine[j]].entities = entities[j]
  BY <1>4 DEF Request
<1>9. CASE mine[i] < mine[j]
  <2>1. mine[i] \in 1..mine[j] - 1
    BY <1>4, <1>6, <1>9
  <2> QED BY <1>3, <1>7, <1>8, <2>1 DEF Clear
<1>10. CASE mine[j] < mine[i]
  <2>1. mine[j] \in 1..mine[i] - 1
    BY <1>4, <1>6, <1>10
  <2> QED BY <1>3, <1>7, <1>8, <2>1 DEF Clear
<1> QED BY <1>4, <1>5, <1>6, <1>9, <1>10

Action(i) ==
  \/ Open(i) \/ Close(i) \/ Lock(i) \/ Unlock(i) \/ Expire(i) \/ Step(i)
  \/ LockFails(i) \/ BumpFails(i)

(* A step of one instance leaves the others where they are. *)
LEMMA Frame ==
  ASSUME Types, NEW i \in Insts, Action(i), NEW j \in Insts, j # i
  PROVE  pc'[j] = pc[j] /\ entities'[j] = entities[j]
BY DEF Action, Step, Open, Truncate, WriteHeader, TakeGuard, UnlockHeader, ReadHeader, Close, Lock,
       AppendRequest, Find, Tag, Reload, Batch, Wait, Woken, Return, Expire, Unlock, Forget, Bump,
       WriteBump, LockFails, BumpFails, Goto, call, Types

LEMMA OnlyReturnGrants ==
  ASSUME Types, NEW i \in Insts, Action(i), pc'[i] = "held"
  PROVE  pc[i] = "granted"
BY DEF Action, Step, Open, Truncate, WriteHeader, TakeGuard, UnlockHeader, ReadHeader, Close, Lock,
       AppendRequest, Find, Tag, Reload, Batch, Wait, Woken, Return, Expire, Waiting, Unlock, Bump,
       WriteBump, LockFails, BumpFails, Goto, Types

(* Seen through the guards, the return of a lock() that was granted is     *)
(* Acquire, unlock() is Release, and all else stutters.                    *)
LEMMA StepSimulation ==
  ASSUME IInv, IInv', [Next]_vars
  PROVE  [Mutex!Next]_held
<1>0. Types
  BY DEF IInv
<1>1. CASE UNCHANGED vars
  BY <1>1 DEF held, Holds, vars, call
<1>2. ASSUME NEW i \in Insts, Action(i)
      PROVE  [Mutex!Next]_held
  <2>1. \A j \in Insts \ {i} : held'[j] = held[j]
    <3> SUFFICES ASSUME NEW j \in Insts \ {i} PROVE held'[j] = held[j]
      OBVIOUS
    <3>1. pc'[j] = pc[j] /\ entities'[j] = entities[j]
      BY <1>0, <1>2, Frame
    <3> QED BY <3>1 DEF held, Holds
  <2>2. CASE pc'[i] = "held"
    <3>1. held[i] = Mutex!Nothing
      BY <1>0, <1>2, <2>2, OnlyReturnGrants, NoGrant
    <3>2. held' = [held EXCEPT ![i] = held'[i]]
      <4>1. held = [j \in Insts |-> held[j]] /\ held' = [j \in Insts |-> held'[j]]
        BY DEF held
      <4> QED BY <2>1, <4>1
    <3>3. held'[i] \in Mutex!Grants
      BY DEF held, Mutex!Grants, Mutex!Kinds
    <3>4. Exclusion'
      BY GuardsApart, PTL
    <3>5. \A j \in Insts \ {i} : ~Mutex!Clash(held'[i], held'[j])
      BY <3>4 DEF Exclusion, Mutex!Exclusion, Mutex!Clash
    <3>6. \A j \in Insts \ {i} : ~Mutex!Clash(held'[i], held[j])
      BY <2>1, <3>5
    <3>7. Mutex!Acquire(i)
      BY <3>1, <3>2, <3>3, <3>6 DEF Mutex!Acquire
    <3> QED BY <3>7 DEF Mutex!Next
  <2>3. CASE pc'[i] # "held"
    <3>1. held'[i] = Mutex!Nothing
      BY <2>3, NoGrant
    <3>2. \A j \in Insts : held'[j] = IF j \in {i} THEN Mutex!Nothing ELSE held[j]
      BY <2>1, <3>1
    <3>3. held' = [j \in Insts |-> IF j \in {i} THEN Mutex!Nothing ELSE held[j]]
      BY <3>2 DEF held
    <3>4. Mutex!Release({i})
      BY <3>3 DEF Mutex!Release
    <3> QED BY <3>4 DEF Mutex!Next
  <2> QED BY <2>2, <2>3
<1> QED BY <1>1, <1>2 DEF Next, Action

(* atomic_append implements the abstract shared_fs_mutex: however appends, *)
(* backward scans, zeroing and bumps of the header interleave, requests    *)
(* are granted whole, given back whole and never in conflict.              *)
THEOREM Refinement ==
  ASSUME Orderly
  PROVE  Spec => Refines
<1>1. Init => Mutex!Init
  BY DEF Init, Mutex!Init, Mutex!Nothing, held, Holds
<1>2. IInv /\ IInv' /\ [Next]_vars => [Mutex!Next]_held
  BY StepSimulation
<1> QED BY <1>1, <1>2, Invariant, PTL DEF Spec, Refines, Mutex!Spec

(* No two guards of atomic_append ever conflict, though an instance looks  *)
(* only at the records that were before its own when it scanned.           *)
THEOREM ExclusionHolds ==
  ASSUME Orderly
  PROVE  Spec => []Exclusion
BY Invariant, GuardsApart, PTL

=============================================================================
