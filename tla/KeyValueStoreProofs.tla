------------------------ MODULE KeyValueStoreProofs -------------------------
(***************************************************************************)
(* Serialised, UpdatesBased and RecordsIntact hold for any finite set of   *)
(* processes, any keys, small files and transactions, and whoever dies     *)
(* when.  RecordsIntact assumes that one process opens the store at a      *)
(* time: of two, one could truncate the file the other has just claimed.   *)
(***************************************************************************)
EXTENDS KeyValueStore, FiniteSetTheorems, TLAPS

InStore == {"mmaps", "ready", "read"} \cup Committing

\* Where a process is tells what its loop variable and its small file are.
PlacedAt(p) ==
  /\ pc[p] \in {"create", "truncate", "retry"} => at[p] \in Files
  /\ pc[p] = "read" => at[p] \in Keys /\ ~In(p, at[p])
  /\ pc[p] \in {"shared", "exclusive", "insert"} => at[p] \in 1..Len(items[p])
  /\ pc[p] = "insert" => items[p][at[p]].kind = "insertion"
  /\ pc[p] = "apply" => at[p] \in 1..Len(items[p]) + 1
  /\ pc[p] \in InStore => mine[p] # 0
  /\ mine[p] # 0 /\ pc[p] \notin {"closing", "hash"} => owner[mine[p]] = p

Placed == \A p \in Procs : PlacedAt(p)

\* A transaction has one item for each key, fetched at a counter that is not zero.
KeyedAt(p) ==
  /\ \A m, n \in DOMAIN items[p] : items[p][m].key = items[p][n].key => m = n
  /\ \A n \in DOMAIN items[p] : /\ items[p][n].tc # 0
                                /\ pc[p] # "apply" => items[p][n].kind # "erased"

Keyed == \A p \in Procs : KeyedAt(p)

-----------------------------------------------------------------------------
(* The locks in the index                                                  *)

KeysOf(p) == {items[p][n].key : n \in DOMAIN items[p]}

\* The keys a process has locked shared, and those it has locked exclusively.
SharedBy(p) ==
  IF pc[p] = "read" THEN {at[p]}
  ELSE IF pc[p] = "shared" THEN Sharing(p, at[p])
  ELSE IF pc[p] \in {"count", "append", "fill"} THEN Sharing(p, Len(items[p]) + 1)
  ELSE {}

Holding(p) ==
  IF pc[p] \in {"exclusive", "insert"} THEN {items[p][n].key : n \in 1..at[p] - 1}
  ELSE IF pc[p] = "begin" THEN KeysOf(p)
  ELSE IF pc[p] = "apply" THEN {items[p][n].key : n \in {n \in DOMAIN items[p] : items[p][n].kind # "erased"}}
  ELSE {}

Sharers(k) == {p \in Procs : k \in SharedBy(p)}

\* Those that died may have left a lock as it was: it is at least as locked as the living
\* need it.
LocksRight ==
  /\ \A k \in Keys : \/ locked[k] = -1 /\ Sharers(k) = {}
                     \/ locked[k] >= Cardinality(Sharers(k))
  /\ \A k \in Keys : ~Here(k) => locked[k] = 0
  /\ \A p \in Procs : \A k \in Holding(p) : locked[k] = -1
  /\ \A p, q \in Procs : p # q => Holding(p) \cap Holding(q) = {}
  /\ \A p \in Procs : \A k \in SharedBy(p) \cup Holding(p) : Here(k)

-----------------------------------------------------------------------------
(* What the index shows                                                    *)

Shows(k) == IF Here(k) THEN Top(k) ELSE 0

\* A process that has a key for itself and did not write it yet, or again, leaves what
\* the last one showed; what it is about to write is what it began with.
PendingAt(p) ==
  /\ pc[p] \in {"exclusive", "insert", "begin"} =>
       \A k \in Holding(p) : Shows(k) = Latest(k)
  /\ pc[p] = "apply" => \A n \in DOMAIN items[p] :
       LET i == items[p][n]
       IN  IF n < at[p] THEN i.kind # "erased" => Shows(i.key) = Latest(i.key)
           ELSE /\ i.kind # "erased"
                /\ Latest(i.key) = IF i.kind = "removal" THEN 0 ELSE mytx[p]

Pending == \A p \in Procs : PendingAt(p)

\* The value of an update was looked at again when the key was locked.
RecheckedAt(p) ==
  \A n \in DOMAIN items[p] :
    /\ pc[p] = "begin" \/ (pc[p] \in {"exclusive", "insert"} /\ n < at[p])
    /\ items[p][n].kind = "update"
    => Top(items[p][n].key) = items[p][n].tc

Rechecked == \A p \in Procs : RecheckedAt(p)

LInv == LocksRight /\ Pending /\ Rechecked /\ Serialised /\ UpdatesBased

SInv == TypeOK /\ Placed /\ Keyed /\ LInv

-----------------------------------------------------------------------------
(* The records                                                             *)

IsAt(f, off, k, tc) ==
  f \in Files /\ off \in 1..Len(cells[f]) /\ cells[f][off] = [key |-> k, tc |-> tc]

Pointed ==
  \A k \in Keys : Here(k) => \A n \in 1..Depth :
    index[k][n].tc # 0 => IsAt(index[k][n].file, index[k][n].off, k, index[k][n].tc)

\* Nobody else writes to the small file a process has claimed.
AppendingAt(p) ==
  /\ pc[p] = "append" => base[p] = Len(cells[mine[p]])
  /\ pc[p] = "fill" => /\ Len(cells[mine[p]]) = base[p] + Len(items[p])
                       /\ \A n \in base[p] + 1..Len(cells[mine[p]]) : cells[mine[p]][n].tc = 0
  /\ pc[p] \in {"exclusive", "insert", "begin", "apply"} =>
       \A n \in DOMAIN items[p] : IsAt(mine[p], items[p][n].off, items[p][n].key, mytx[p])

Appending == \A p \in Procs : AppendingAt(p)

\* A small file is truncated before anybody else can find it.
Unclaimed ==
  /\ \A f \in Files \ made : cells[f] = << >> /\ owner[f] = Nobody
  /\ \A p \in Procs : pc[p] \in {"truncate", "retry"} => at[p] \in made
  /\ \A p \in Procs : pc[p] = "truncate" => cells[at[p]] = << >> /\ owner[at[p]] = Nobody
  /\ \A p, q \in Procs : pc[p] \in Opening /\ pc[q] \in Opening => p = q

RInv == Pointed /\ Appending /\ Unclaimed

-----------------------------------------------------------------------------
(* Types                                                                   *)

Same(p) ==
  \A q \in Procs \ {p} : /\ pc'[q] = pc[q] /\ mine'[q] = mine[q] /\ at'[q] = at[q]
                         /\ items'[q] = items[q] /\ base'[q] = base[q] /\ mytx'[q] = mytx[q]

LEMMA Empties ==
  /\ << >> \in Numbers /\ << >> \in Contents /\ << >> \in Transactions /\ << >> \in Logs
  /\ << >> \in Histories
<1>1. << >> \in Numbers
  BY DEF Numbers
<1>2. << >> \in Contents
  BY DEF Contents
<1>3. << >> \in Transactions
  BY DEF Transactions
<1>4. << >> \in Logs
  BY DEF Logs
<1> QED BY <1>1, <1>2, <1>3, <1>4 DEF Histories

LEMMA NonEmpty ==
  ASSUME NEW S, NEW s \in Seq(S), s # << >>
  PROVE  /\ Len(s) \in Nat \ {0} /\ 1 \in DOMAIN s /\ Len(s) \in DOMAIN s
         /\ s[1] \in S /\ s[Len(s)] \in S
<1>1. Len(s) \in Nat /\ DOMAIN s = 1..Len(s) /\ Len(s) # 0
  OBVIOUS
<1>2. 1 \in DOMAIN s /\ Len(s) \in DOMAIN s
  BY <1>1
<1> QED BY <1>1, <1>2

LEMMA Elements ==
  ASSUME NEW S, NEW s \in Seq(S)
  PROVE  Len(s) \in Nat /\ DOMAIN s = 1..Len(s) /\ \A n \in 1..Len(s) : s[n] \in S
OBVIOUS

LEMMA Tuple ==
  ASSUME NEW S, NEW len \in Nat, NEW t, t = [n \in 1..len |-> t[n]], \A n \in 1..len : t[n] \in S
  PROVE  t \in Seq(S) /\ Len(t) = len
OBVIOUS

LEMMA Joined ==
  ASSUME NEW s \in Contents, NEW t \in Contents
  PROVE  /\ s \o t \in Contents /\ Len(s) \in Nat /\ Len(t) \in Nat /\ Len(s \o t) = Len(s) + Len(t)
         /\ \A n \in 1..Len(s) : (s \o t)[n] = s[n]
         /\ \A n \in 1..Len(t) : (s \o t)[Len(s) + n] = t[n]
<1> DEFINE C == [key : Nat, tc : Nat]
<1>1. s \in Seq(C) /\ t \in Seq(C)
  BY DEF Contents
<1>2. Contents = Seq(C)
  BY DEF Contents
<1> HIDE DEF C
<1>3. /\ s \o t \in Seq(C) /\ Len(s) \in Nat /\ Len(t) \in Nat /\ Len(s \o t) = Len(s) + Len(t)
      /\ \A n \in 1..Len(s) : (s \o t)[n] = s[n]
      /\ \A n \in 1..Len(t) : (s \o t)[Len(s) + n] = t[n]
  BY <1>1
<1> QED BY <1>2, <1>3

LEMMA GotoType ==
  ASSUME TypeOK, NEW p \in Procs, NEW l \in Labels, Goto(p, l)
  PROVE  /\ pc' \in [Procs -> Labels] /\ pc'[p] = l
         /\ \A q \in Procs \ {p} : pc'[q] = pc[q]
BY DEF Goto, TypeOK

LEMMA GoneType ==
  ASSUME TypeOK, NEW p \in Procs, Gone(p)
  PROVE  /\ pc' \in [Procs -> Labels] /\ first' \in Procs \cup {Nobody} /\ users' \subseteq Procs
         /\ owner' \in [Files -> Procs \cup {Nobody}]
         /\ small' \in [Procs -> Numbers] /\ mapped' \in [Procs -> BOOLEAN]
         /\ mine' \in [Procs -> 0..MaxFiles] /\ at' \in [Procs -> Nat]
         /\ items' \in [Procs -> Transactions] /\ base' \in [Procs -> Nat] /\ mytx' \in [Procs -> Nat]
         /\ Same(p) /\ pc'[p] = "closed" /\ mine'[p] = 0 /\ items'[p] = << >>
         /\ \A f \in Files : owner'[f] = IF owner[f] = p THEN Nobody ELSE owner[f]
<1>1. "closed" \in Labels
  BY DEF Labels
<1>2. /\ pc' \in [Procs -> Labels] /\ pc'[p] = "closed" /\ \A q \in Procs \ {p} : pc'[q] = pc[q]
  BY <1>1, GotoType DEF Gone
<1>3. /\ first' \in Procs \cup {Nobody} /\ users' \subseteq Procs
      /\ owner' \in [Files -> Procs \cup {Nobody}]
      /\ \A f \in Files : owner'[f] = IF owner[f] = p THEN Nobody ELSE owner[f]
  BY DEF Gone, TypeOK
<1>4. 0 \in 0..MaxFiles /\ 0 \in Nat
  BY KeyValueStoreAssumption
<1>5. /\ small' \in [Procs -> Numbers] /\ mapped' \in [Procs -> BOOLEAN]
      /\ mine' \in [Procs -> 0..MaxFiles] /\ at' \in [Procs -> Nat]
  BY <1>4, Empties DEF Gone, TypeOK
<1>6. items' \in [Procs -> Transactions] /\ base' \in [Procs -> Nat] /\ mytx' \in [Procs -> Nat]
  BY <1>4, Empties DEF Gone, TypeOK
<1>7. /\ mine'[p] = 0 /\ items'[p] = << >>
      /\ \A q \in Procs \ {p} : /\ mine'[q] = mine[q] /\ at'[q] = at[q] /\ items'[q] = items[q]
                                /\ base'[q] = base[q] /\ mytx'[q] = mytx[q]
  BY DEF Gone, TypeOK
<1> QED BY <1>2, <1>3, <1>5, <1>6, <1>7 DEF Same

LEMMA EndsType ==
  ASSUME TypeOK, NEW p \in Procs, Ends(p)
  PROVE  /\ pc' \in [Procs -> Labels] /\ at' \in [Procs -> Nat]
         /\ items' \in [Procs -> Transactions] /\ base' \in [Procs -> Nat] /\ mytx' \in [Procs -> Nat]
         /\ Same(p) /\ pc'[p] = "ready" /\ items'[p] = << >>
         /\ small' = small /\ mapped' = mapped /\ mine' = mine
<1>1. "ready" \in Labels
  BY DEF Labels
<1>2. /\ pc' \in [Procs -> Labels] /\ pc'[p] = "ready" /\ \A q \in Procs \ {p} : pc'[q] = pc[q]
  BY <1>1, GotoType DEF Ends
<1>3. items' \in [Procs -> Transactions] /\ base' \in [Procs -> Nat] /\ mytx' \in [Procs -> Nat] /\ at' \in [Procs -> Nat]
  BY Empties DEF Ends, TypeOK
<1>4. /\ items'[p] = << >> /\ small' = small /\ mapped' = mapped /\ mine' = mine
      /\ \A q \in Procs \ {p} : at'[q] = at[q] /\ items'[q] = items[q] /\ base'[q] = base[q] /\ mytx'[q] = mytx[q]
  BY DEF Ends, TypeOK
<1> QED BY <1>2, <1>3, <1>4 DEF Same

\* A process that dies leaves the index and the files as they are.
LEMMA DiesType ==
  ASSUME TypeOK, NEW p \in Procs, Dies(p), UNCHANGED <<shared, calls>>, crashes' \in 0..MaxCrashes
  PROVE  TypeOK' /\ Same(p)
<1>1. died' \in BOOLEAN /\ torn' \in BOOLEAN /\ log' = log
  BY DEF Dies, TypeOK
<1>2. UNCHANGED <<magic, writes, counter, index, locked, made, cells>>
  BY DEF shared
<1> QED BY <1>1, <1>2, GoneType DEF Dies, TypeOK

LEMMA ClaimType ==
  ASSUME TypeOK, NEW p \in Procs, Claim(p), at[p] \in Files
  PROVE  /\ pc' \in [Procs -> Labels] /\ owner' \in [Files -> Procs \cup {Nobody}]
         /\ small' \in [Procs -> Numbers] /\ mine' \in [Procs -> 0..MaxFiles] /\ at' \in [Procs -> Nat]
         /\ pc'[p] = "scan"
         /\ \A q \in Procs \ {p} : pc'[q] = pc[q] /\ mine'[q] = mine[q] /\ at'[q] = at[q]
         /\ \/ /\ mine[p] = 0 /\ owner[at[p]] = Nobody /\ mine'[p] = at[p]
               /\ owner' = [owner EXCEPT ![at[p]] = p]
            \/ mine' = mine /\ owner' = owner
<1>1. "scan" \in Labels
  BY DEF Labels, Opening
<1>2. pc' \in [Procs -> Labels] /\ pc'[p] = "scan" /\ \A q \in Procs \ {p} : pc'[q] = pc[q]
  BY <1>1, GotoType DEF Claim
<1>3. Append(small[p], at[p]) \in Numbers
  <2>1. small[p] \in Seq(Nat) /\ at[p] \in Nat
    BY DEF TypeOK, Numbers
  <2> QED BY <2>1 DEF Numbers
<1>4. small' \in [Procs -> Numbers]
  BY <1>3 DEF Claim, TypeOK
<1>5. at' \in [Procs -> Nat] /\ \A q \in Procs \ {p} : at'[q] = at[q]
  BY DEF Claim, TypeOK
<1>6. at[p] \in 0..MaxFiles
  BY KeyValueStoreAssumption DEF Files
<1>7. CASE mine[p] = 0 /\ owner[at[p]] = Nobody
  <2>1. owner' = [owner EXCEPT ![at[p]] = p] /\ mine' = [mine EXCEPT ![p] = at[p]]
    BY <1>7 DEF Claim
  <2>2. owner' \in [Files -> Procs \cup {Nobody}] /\ mine' \in [Procs -> 0..MaxFiles]
    BY <1>6, <2>1 DEF TypeOK
  <2>3. mine'[p] = at[p] /\ \A q \in Procs \ {p} : mine'[q] = mine[q]
    BY <2>1 DEF TypeOK
  <2> QED BY <1>2, <1>4, <1>5, <1>7, <2>1, <2>2, <2>3
<1>8. CASE ~(mine[p] = 0 /\ owner[at[p]] = Nobody)
  <2>1. owner' = owner /\ mine' = mine
    BY <1>8 DEF Claim
  <2> QED BY <1>2, <1>4, <1>5, <2>1 DEF TypeOK
<1> QED BY <1>7, <1>8

Constructor(p) ==
  \/ Open(p) \/ FirstEntrant(p) \/ WriteHeader(p) \/ ShareIndex(p) \/ Scan(p) \/ Create(p)
  \/ Truncate(p) \/ Retry(p) \/ Opened(p) \/ UseMmaps(p)

\* The constructor and use_mmaps() keep the types.
LEMMA ConstructorType ==
  ASSUME TypeOK, Placed, NEW p \in Procs, Constructor(p)
  PROVE  TypeOK' /\ Same(p)
<1> USE DEF shared, flocks, local, hist
<1>0. {"first", "header", "share", "scan", "create", "truncate", "retry", "opened", "mmaps", "ready", "closed"}
        \subseteq Labels
  BY DEF Labels, Opening
<1>1. CASE Open(p)
  <2>1. \E l \in {"first", "share"} : Goto(p, l)
    BY <1>1 DEF Open
  <2>2. pc' \in [Procs -> Labels] /\ \A q \in Procs \ {p} : pc'[q] = pc[q]
    BY <1>0, <2>1, GotoType
  <2>3. first' \in Procs \cup {Nobody} /\ calls' \in 0..MaxCalls
    BY <1>1, KeyValueStoreAssumption DEF Open, TypeOK
  <2> QED BY <1>1, <2>2, <2>3 DEF Open, TypeOK, Same
<1>2. CASE FirstEntrant(p)
  <2>1. \E l \in {"header", "share"} : Goto(p, l)
    BY <1>2 DEF FirstEntrant
  <2>2. pc' \in [Procs -> Labels] /\ \A q \in Procs \ {p} : pc'[q] = pc[q]
    BY <1>0, <2>1, GotoType
  <2>3. first' \in Procs \cup {Nobody} /\ writes' \in [Files -> Int] /\ magic' \in {"empty", "zero", "good", "bad"}
    BY <1>2 DEF FirstEntrant, TypeOK
  <2> QED BY <1>2, <2>2, <2>3 DEF FirstEntrant, TypeOK, Same
<1>3. CASE WriteHeader(p)
  <2>2. pc' \in [Procs -> Labels] /\ \A q \in Procs \ {p} : pc'[q] = pc[q]
    BY <1>0, <1>3, GotoType DEF WriteHeader
  <2> QED BY <1>3, <2>2 DEF WriteHeader, TypeOK, Same
<1>4. CASE ShareIndex(p)
  <2>1. \E l \in {"scan", "closed"} : Goto(p, l)
    BY <1>4 DEF ShareIndex
  <2>2. pc' \in [Procs -> Labels] /\ \A q \in Procs \ {p} : pc'[q] = pc[q]
    BY <1>0, <2>1, GotoType
  <2>3. users' \subseteq Procs /\ at' \in [Procs -> Nat] /\ \A q \in Procs \ {p} : at'[q] = at[q]
    BY <1>4 DEF ShareIndex, TypeOK
  <2> QED BY <1>4, <2>2, <2>3 DEF ShareIndex, TypeOK, Same
<1>5. CASE Scan(p)
  <2>1. CASE at[p] \in made
    <3>1. at[p] \in Files /\ Claim(p)
      BY <1>5, <2>1 DEF Scan, TypeOK
    <3> QED BY <1>5, <3>1, ClaimType DEF Scan, TypeOK, Same
  <2>2. CASE at[p] \notin made
    <3>1. \E l \in {"create", "opened"} : Goto(p, l)
      BY <1>5, <2>2 DEF Scan
    <3>2. pc' \in [Procs -> Labels] /\ \A q \in Procs \ {p} : pc'[q] = pc[q]
      BY <1>0, <3>1, GotoType
    <3>3. UNCHANGED <<owner, mine, small, at>>
      BY <1>5, <2>2 DEF Scan
    <3> QED BY <1>5, <3>2, <3>3 DEF Scan, TypeOK, Same
  <2> QED BY <2>1, <2>2
<1>6. CASE Create(p)
  <2>1. \E l \in {"scan", "truncate"} : Goto(p, l)
    BY <1>6 DEF Create
  <2>2. pc' \in [Procs -> Labels] /\ \A q \in Procs \ {p} : pc'[q] = pc[q]
    BY <1>0, <2>1, GotoType
  <2>3. at[p] \in Files
    BY <1>6 DEF Create, Placed, PlacedAt
  <2>4. at' \in [Procs -> Nat] /\ made' \subseteq Files /\ \A q \in Procs \ {p} : at'[q] = at[q]
    BY <1>6, <2>3 DEF Create, TypeOK
  <2> QED BY <1>6, <2>2, <2>4 DEF Create, TypeOK, Same
<1>7. CASE Truncate(p)
  <2>1. pc' \in [Procs -> Labels] /\ \A q \in Procs \ {p} : pc'[q] = pc[q]
    BY <1>0, <1>7, GotoType DEF Truncate
  <2>2. at[p] \in Files
    BY <1>7 DEF Truncate, Placed, PlacedAt
  <2> DEFINE c == cells[at[p]]
             new == IF c = << >> THEN <<Padding>> ELSE <<c[1]>>
  <2>3. new \in Contents
    <3>1. c \in Contents
      BY <2>2 DEF TypeOK
    <3> HIDE DEF c
    <3>2. CASE c = << >>
      <4>1. <<Padding>> \in Contents
        BY DEF Contents, Padding
      <4> QED BY <3>2, <4>1
    <3>3. CASE c # << >>
      <4>1. c[1] \in [key : Nat, tc : Nat]
        BY <3>1, <3>3, NonEmpty DEF Contents
      <4>2. <<c[1]>> \in Contents
        BY <4>1 DEF Contents
      <4> QED BY <3>3, <4>2
    <3> QED BY <3>2, <3>3
  <2>4. cells' = [cells EXCEPT ![at[p]] = new]
    BY <1>7 DEF Truncate
  <2>5. cells' \in [Files -> Contents]
    <3> HIDE DEF new
    <3> QED BY <2>3, <2>4 DEF TypeOK
  <2> QED BY <1>7, <2>1, <2>5 DEF Truncate, TypeOK, Same
<1>8. CASE Retry(p)
  <2>1. at[p] \in Files /\ Claim(p)
    BY <1>8 DEF Retry, Placed, PlacedAt
  <2> QED BY <1>8, <2>1, ClaimType DEF Retry, TypeOK, Same
<1>9. CASE Opened(p)
  <2> DEFINE dirty == mine[p] # 0 /\ writes[mine[p]] # 0
  <2>1. magic' \in {"empty", "zero", "good", "bad"}
    BY <1>9 DEF Opened, TypeOK
  <2>2. UNCHANGED <<writes, counter, index, locked, made, cells, calls, crashes, log, died, torn>>
    BY <1>9 DEF Opened
  <2>3. CASE mine[p] = 0 \/ dirty
    <3>1. Gone(p)
      BY <1>9, <2>3 DEF Opened
    <3> HIDE DEF dirty
    <3> QED BY <2>1, <2>2, <3>1, GoneType DEF TypeOK
  <2>4. CASE ~(mine[p] = 0 \/ dirty)
    <3>1. /\ \E l \in {"mmaps", "ready"} : Goto(p, l)
          /\ at' = [at EXCEPT ![p] = 0] /\ UNCHANGED <<first, users, owner, small, mapped, mine, items, base, mytx>>
      BY <1>9, <2>4 DEF Opened
    <3>2. pc' \in [Procs -> Labels] /\ \A q \in Procs \ {p} : pc'[q] = pc[q]
      BY <1>0, <3>1, GotoType
    <3> HIDE DEF dirty
    <3> QED BY <2>1, <2>2, <3>1, <3>2 DEF TypeOK, Same
  <2> QED BY <2>3, <2>4
<1>10. CASE UseMmaps(p)
  <2>1. pc' \in [Procs -> Labels] /\ \A q \in Procs \ {p} : pc'[q] = pc[q]
    BY <1>0, <1>10, GotoType DEF UseMmaps
  <2> QED BY <1>10, <2>1 DEF UseMmaps, TypeOK, Same
<1> QED BY <1>1, <1>2, <1>3, <1>4, <1>5, <1>6, <1>7, <1>8, <1>9, <1>10 DEF Constructor


LEMMA HereFacts ==
  ASSUME TypeOK, NEW k \in Keys
  PROVE  /\ 1 \in 1..Depth
         /\ Here(k) => /\ index[k] \in [1..Depth -> Values] /\ index[k][1] \in Values /\ Top(k) \in Nat
<1>1. 1 \in 1..Depth
  BY KeyValueStoreAssumption
<1>2. index[k] \in Histories
  BY DEF TypeOK
<1>3. ASSUME Here(k) PROVE index[k] \in [1..Depth -> Values]
  BY <1>2, <1>3 DEF Here, Histories
<1>4. ASSUME Here(k) PROVE index[k][1] \in Values
  BY <1>1, <1>3, <1>4
<1>5. ASSUME Here(k) PROVE Top(k) \in Nat
  BY <1>4, <1>5 DEF Top, Values
<1> QED BY <1>1, <1>3, <1>4, <1>5

LEMMA SequenceFacts ==
  ASSUME NEW s \in Transactions
  PROVE  /\ Len(s) \in Nat /\ DOMAIN s = 1..Len(s) /\ \A n \in DOMAIN s : s[n] \in ItemType
         /\ Len(s) = 0 <=> s = << >>
BY DEF Transactions

LEMMA AppendItem ==
  ASSUME NEW s \in Transactions, NEW i \in ItemType
  PROVE  /\ Append(s, i) \in Transactions /\ Len(s) \in Nat /\ Len(Append(s, i)) = Len(s) + 1
         /\ DOMAIN Append(s, i) = 1..Len(s) + 1
         /\ \A n \in 1..Len(s) : Append(s, i)[n] = s[n]
         /\ Append(s, i)[Len(s) + 1] = i
BY DEF Transactions

LEMMA SetItem ==
  ASSUME NEW s \in Transactions, NEW n \in DOMAIN s, NEW i \in ItemType
  PROVE  /\ [s EXCEPT ![n] = i] \in Transactions
         /\ DOMAIN [s EXCEPT ![n] = i] = DOMAIN s
         /\ Len([s EXCEPT ![n] = i]) = Len(s)
         /\ [s EXCEPT ![n] = i][n] = i
         /\ \A m \in DOMAIN s \ {n} : [s EXCEPT ![n] = i][m] = s[m]
BY DEF Transactions

LEMMA ItemsStep ==
  ASSUME TypeOK, NEW p \in Procs, NEW s \in Transactions, items' = [items EXCEPT ![p] = s]
  PROVE  /\ items' \in [Procs -> Transactions] /\ items'[p] = s
         /\ \A q \in Procs \ {p} : items'[q] = items[q]
BY DEF TypeOK

LEMMA SortedFacts ==
  ASSUME TypeOK, NEW p \in Procs, NEW s \in Sorted({i \in Range(items[p]) : Staged(i)})
  PROVE  /\ s \in Transactions
         /\ \A n \in DOMAIN s : \E m \in DOMAIN items[p] : s[n] = items[p][m]
         /\ \A m, n \in DOMAIN s : m # n => s[m] # s[n]
<1> DEFINE S == {i \in Range(items[p]) : Staged(i)}
           D == 1..Cardinality(S)
<1>1. s \in [D -> S] /\ \A m, n \in D : m # n => s[m] # s[n]
  BY DEF Sorted, SetToSeqs
<1>2. items[p] \in Transactions
  BY DEF TypeOK
<1>3. Cardinality(S) \in Nat
  <2> DEFINE f == items[p]
             E == 1..Len(items[p])
  <2>1. Len(items[p]) \in Nat /\ DOMAIN f = E
    BY <1>2, SequenceFacts
  <2>2. IsFiniteSet(E)
    BY <2>1, FS_Interval
  <2>3. IsFiniteSet({f[n] : n \in E})
    <3>1. f \in Surjection(E, {f[n] : n \in E})
      <4>1. f \in Seq(ItemType)
        BY <1>2 DEF Transactions
      <4>2. f = [n \in E |-> f[n]]
        BY <4>1, <2>1
      <4> HIDE DEF f, E
      <4> QED BY <4>2 DEF Surjection
    <3> HIDE DEF E, f
    <3> QED BY <2>2, <3>1, FS_Surjection
  <2>4. S \subseteq {f[n] : n \in E}
    BY <2>1 DEF Range
  <2>5. IsFiniteSet(S)
    <3> HIDE DEF S, E, f
    <3> QED BY <2>3, <2>4, FS_Subset
  <2> QED BY <2>5, FS_CardinalityType
<1>4. S \subseteq ItemType
  BY <1>2, SequenceFacts DEF Range
<1>5. \A i \in S : \E m \in DOMAIN items[p] : i = items[p][m]
  BY DEF Range
<1> HIDE DEF S
<1>6. s \in Seq(ItemType)
  BY <1>1, <1>3, <1>4
<1> QED BY <1>1, <1>5, <1>6 DEF Transactions

\* The destructor keeps them.
LEMMA CloseType ==
  ASSUME TypeOK, Placed, NEW p \in Procs, Close(p) \/ CloseIndex(p) \/ Closed(p)
  PROVE  TypeOK' /\ Same(p)
<1> USE DEF shared, flocks, local, hist
<1>0. {"closing", "hash"} \subseteq Labels
  BY DEF Labels
<1>1. CASE Close(p)
  <2>1. pc' \in [Procs -> Labels] /\ \A q \in Procs \ {p} : pc'[q] = pc[q]
    BY <1>0, <1>1, GotoType DEF Close
  <2>2. owner' \in [Files -> Procs \cup {Nobody}]
    BY <1>1 DEF Close, TypeOK
  <2> QED BY <1>1, <2>1, <2>2 DEF Close, TypeOK, Same
<1>2. CASE CloseIndex(p)
  <2>1. pc' \in [Procs -> Labels] /\ \A q \in Procs \ {p} : pc'[q] = pc[q]
    BY <1>0, <1>2, GotoType DEF CloseIndex
  <2>2. users' \subseteq Procs /\ first' \in Procs \cup {Nobody}
    BY <1>2 DEF CloseIndex, TypeOK
  <2> QED BY <1>2, <2>1, <2>2 DEF CloseIndex, TypeOK, Same
<1>3. CASE Closed(p)
  <2>1. Gone(p) /\ UNCHANGED <<magic, writes, counter, index, locked, made, cells, calls, crashes, log, died, torn>>
    BY <1>3 DEF Closed
  <2> QED BY <2>1, GoneType DEF TypeOK
<1> QED BY <1>1, <1>2, <1>3

LEMMA NewItem ==
  ASSUME NEW k \in Keys, NEW tc \in Int, NEW op \in {"fetched", "write", "remove"}
  PROVE  Item(k, tc, op) \in ItemType
BY DEF Item, ItemType, Kinds

\* What p adds to its transaction.
LEMMA Adding ==
  ASSUME TypeOK, NEW p \in Procs, NEW i \in ItemType, items' = [items EXCEPT ![p] = Append(@, i)]
  PROVE  /\ items' \in [Procs -> Transactions] /\ items'[p] = Append(items[p], i)
         /\ \A q \in Procs \ {p} : items'[q] = items[q]
<1>1. items[p] \in Transactions
  BY DEF TypeOK
<1>2. Append(items[p], i) \in Transactions
  BY <1>1, AppendItem
<1>3. items' = [items EXCEPT ![p] = Append(items[p], i)]
  OBVIOUS
<1> HIDE DEF Transactions
<1> DEFINE s == Append(items[p], i)
<1>4. s \in Transactions /\ items' = [items EXCEPT ![p] = s]
  BY <1>2, <1>3
<1> HIDE DEF s
<1>5. items' \in [Procs -> Transactions] /\ items'[p] = s /\ \A q \in Procs \ {p} : items'[q] = items[q]
  BY <1>4, ItemsStep
<1> QED BY <1>5 DEF s

LEMMA FetchType ==
  ASSUME TypeOK, NEW p \in Procs, NEW k \in Keys, Fetch(p, k)
  PROVE  TypeOK' /\ Same(p)
<1> USE DEF flocks, hist
<1>1. UNCHANGED <<magic, writes, counter, index, made, cells, first, users, owner, calls, crashes, log, died, torn>>
  BY DEF Fetch
<1>2. CASE Ends(p) /\ UNCHANGED locked
  BY <1>1, <1>2, EndsType DEF TypeOK
<1>3. CASE Fetched(p, k, Fresh) /\ UNCHANGED <<locked, pc, small, mapped, mine, at, base, mytx>>
  <2>1. Item(k, Fresh, "fetched") \in ItemType
    BY NewItem DEF Fresh
  <2>2. items' \in [Procs -> Transactions] /\ \A q \in Procs \ {p} : items'[q] = items[q]
    BY <1>3, <2>1, Adding DEF Fetched
  <2> QED BY <1>1, <1>3, <2>2 DEF TypeOK, Same
<1>4. CASE /\ locked' = [locked EXCEPT ![k] = @ + 1]
           /\ Goto(p, "read") /\ at' = [at EXCEPT ![p] = k]
           /\ UNCHANGED <<small, mapped, mine, items, base, mytx>>
  <2>1. "read" \in Labels /\ k \in Nat
    BY KeyValueStoreAssumption DEF Labels
  <2>2. pc' \in [Procs -> Labels] /\ \A q \in Procs \ {p} : pc'[q] = pc[q]
    BY <1>4, <2>1, GotoType
  <2>3. at' \in [Procs -> Nat] /\ locked' \in [Keys -> Int] /\ \A q \in Procs \ {p} : at'[q] = at[q]
    BY <1>4, <2>1 DEF TypeOK
  <2> QED BY <1>1, <1>4, <2>2, <2>3 DEF TypeOK, Same
<1> QED BY <1>2, <1>3, <1>4 DEF Fetch

LEMMA CallFacts ==
  ASSUME NEW p \in Procs, NEW c \in Calls[p]
  PROVE  c.key \in Keys /\ c.op \in {"write", "remove"}
BY KeyValueStoreAssumption

\* One item of p's transaction is replaced.
LEMMA Setting ==
  ASSUME TypeOK, NEW p \in Procs, NEW n \in DOMAIN items[p], NEW i \in ItemType,
         items' = [items EXCEPT ![p] = [items[p] EXCEPT ![n] = i]]
  PROVE  /\ items' \in [Procs -> Transactions]
         /\ Len(items'[p]) = Len(items[p]) /\ DOMAIN items'[p] = DOMAIN items[p]
         /\ items'[p][n] = i /\ \A m \in DOMAIN items[p] \ {n} : items'[p][m] = items[p][m]
         /\ \A q \in Procs \ {p} : items'[q] = items[q]
<1> DEFINE s == items[p]
           t == [s EXCEPT ![n] = i]
<1>1. s \in Transactions /\ n \in DOMAIN s /\ items' = [items EXCEPT ![p] = t]
  BY DEF TypeOK
<1> HIDE DEF s
<1>2. /\ t \in Transactions /\ DOMAIN t = DOMAIN s /\ Len(t) = Len(s)
      /\ t[n] = i /\ \A m \in DOMAIN s \ {n} : t[m] = s[m]
  BY <1>1, SetItem
<1> HIDE DEF t
<1>3. items' \in [Procs -> Transactions] /\ items'[p] = t /\ \A q \in Procs \ {p} : items'[q] = items[q]
  BY <1>1, <1>2, ItemsStep
<1> QED BY <1>2, <1>3 DEF s

LEMMA StageType ==
  ASSUME TypeOK, NEW p \in Procs, NEW c \in Calls[p], Stage(p, c)
  PROVE  /\ TypeOK' /\ Same(p)
         /\ DOMAIN items'[p] = DOMAIN items[p]
         /\ \A n \in DOMAIN items[p] : /\ items'[p][n].key = items[p][n].key
                                       /\ items'[p][n].tc = items[p][n].tc
                                       /\ items'[p][n].kind = items[p][n].kind
<1> USE DEF shared, flocks, hist
<1>1. UNCHANGED <<magic, writes, counter, index, locked, made, cells, first, users, owner, pc, small, mapped,
                  mine, at, base, mytx, calls, crashes, log, died, torn>>
  BY DEF Stage
<1>2. PICK n \in DOMAIN items[p] : items' = [items EXCEPT ![p][n].op = c.op]
  BY DEF Stage
<1>3. items[p] \in Transactions /\ items[p][n] \in ItemType
  BY SequenceFacts DEF TypeOK
<1> DEFINE i == [items[p][n] EXCEPT !.op = c.op]
<1>4. i \in ItemType /\ i.key = items[p][n].key /\ i.tc = items[p][n].tc /\ i.kind = items[p][n].kind
  BY <1>3, CallFacts DEF ItemType
<1>5. items' = [items EXCEPT ![p] = [items[p] EXCEPT ![n] = i]]
  BY <1>2
<1> HIDE DEF i
<1>6. /\ items' \in [Procs -> Transactions] /\ DOMAIN items'[p] = DOMAIN items[p]
      /\ items'[p][n] = i /\ \A m \in DOMAIN items[p] \ {n} : items'[p][m] = items[p][m]
      /\ \A q \in Procs \ {p} : items'[q] = items[q]
  BY <1>4, <1>5, Setting
<1>7. TypeOK' /\ Same(p)
  BY <1>1, <1>6 DEF TypeOK, Same
<1> QED BY <1>4, <1>6, <1>7

LEMMA StageUnsafeType ==
  ASSUME TypeOK, NEW p \in Procs, NEW c \in Calls[p], StageUnsafe(p, c)
  PROVE  TypeOK' /\ Same(p) /\ items'[p] = Append(items[p], Item(c.key, Fresh, c.op))
<1> USE DEF shared, flocks, hist
<1>1. UNCHANGED <<magic, writes, counter, index, locked, made, cells, first, users, owner, pc, small, mapped,
                  mine, at, base, mytx, calls, crashes, log, died, torn>>
  BY DEF StageUnsafe
<1> DEFINE i == Item(c.key, Fresh, c.op)
<1>2. i \in ItemType
  BY CallFacts, NewItem DEF Fresh
<1>3. items' = [items EXCEPT ![p] = Append(@, i)]
  BY DEF StageUnsafe
<1> HIDE DEF i
<1>4. /\ items' \in [Procs -> Transactions] /\ items'[p] = Append(items[p], i)
      /\ \A q \in Procs \ {p} : items'[q] = items[q]
  BY <1>2, <1>3, Adding
<1>5. TypeOK' /\ Same(p)
  BY <1>1, <1>4 DEF TypeOK, Same
<1> QED BY <1>4, <1>5 DEF i

LEMMA CommitType ==
  ASSUME TypeOK, NEW p \in Procs, Commit(p)
  PROVE  /\ TypeOK' /\ Same(p)
         /\ \/ Ends(p)
            \/ \E s \in Sorted({i \in Range(items[p]) : Staged(i)}) :
                 /\ items'[p] = s /\ at'[p] = 1 /\ pc'[p] = IF s = << >> THEN "count" ELSE "shared"
                 /\ mine' = mine
<1> USE DEF shared, flocks, hist
<1>1. UNCHANGED <<magic, writes, counter, index, locked, made, cells, first, users, owner, crashes, log, died, torn>>
  BY DEF Commit
<1>2. calls' \in 0..MaxCalls
  BY KeyValueStoreAssumption DEF Commit, TypeOK
<1>3. CASE Ends(p)
  <2>1. TypeOK' /\ Same(p)
    BY <1>1, <1>2, <1>3, EndsType DEF TypeOK
  <2> QED BY <1>3, <2>1
<1>4. CASE ~Ends(p)
  <2>1. PICK s \in Sorted({i \in Range(items[p]) : Staged(i)}) :
          /\ items' = [items EXCEPT ![p] = s]
          /\ Goto(p, IF s = << >> THEN "count" ELSE "shared")
    BY <1>4 DEF Commit
  <2>2. at' = [at EXCEPT ![p] = 1] /\ UNCHANGED <<small, mapped, mine, base, mytx>>
    BY <1>4 DEF Commit
  <2> DEFINE l == IF s = << >> THEN "count" ELSE "shared"
  <2>3. l \in Labels
    BY DEF Labels, Committing
  <2>4. Goto(p, l)
    BY <2>1
  <2>5. s \in Transactions
    BY SortedFacts
  <2> HIDE DEF l
  <2>6. pc' \in [Procs -> Labels] /\ pc'[p] = l /\ \A q \in Procs \ {p} : pc'[q] = pc[q]
    BY <2>3, <2>4, GotoType
  <2>7. /\ items' \in [Procs -> Transactions] /\ items'[p] = s
        /\ \A q \in Procs \ {p} : items'[q] = items[q]
    BY <2>1, <2>5, ItemsStep
  <2>8. at' \in [Procs -> Nat] /\ at'[p] = 1 /\ \A q \in Procs \ {p} : at'[q] = at[q]
    BY <2>2 DEF TypeOK
  <2>9. TypeOK' /\ Same(p)
    BY <1>1, <1>2, <2>2, <2>6, <2>7, <2>8 DEF TypeOK, Same
  <2> QED BY <2>2, <2>6, <2>7, <2>8, <2>9 DEF l
<1> QED BY <1>3, <1>4

LEMMA MineFacts ==
  ASSUME TypeOK, Placed, NEW p \in Procs, pc[p] \in InStore
  PROVE  mine[p] \in Files /\ owner[mine[p]] = p /\ cells[mine[p]] \in Contents
<1>1. mine[p] \in 0..MaxFiles /\ mine[p] # 0
  BY DEF TypeOK, Placed, PlacedAt
<1>2. mine[p] \in Files
  BY <1>1, KeyValueStoreAssumption DEF Files
<1>3. pc[p] \notin {"closing", "hash"}
  BY DEF InStore, Committing
<1> QED BY <1>1, <1>2, <1>3 DEF TypeOK, Placed, PlacedAt

\* What find() does with the lock it has.
LEMMA ReadType ==
  ASSUME TypeOK, Placed, LocksRight, NEW p \in Procs, Read(p)
  PROVE  /\ TypeOK' /\ Same(p)
         /\ at[p] \in Keys /\ Here(at[p])
         /\ \/ Dies(p) /\ locked' = locked
            \/ /\ locked' = [locked EXCEPT ![at[p]] = @ - 1] /\ log' = log /\ owner' = owner
               /\ \/ Ends(p)
                  \/ /\ pc'[p] = "ready" /\ mine' = mine
                     /\ \E tc \in Int \ {0} : items'[p] = Append(items[p], Item(at[p], tc, "fetched"))
<1> USE DEF flocks, hist
<1> DEFINE k == at[p]
           v == index[k][1]
<1>1. pc[p] = "read" /\ k \in Keys
  BY DEF Read, Placed, PlacedAt
<1>2. Here(k)
  BY <1>1 DEF LocksRight, SharedBy
<1>3. v \in Values /\ v.tc \in Nat
  BY <1>1, <1>2, HereFacts DEF Values
<1>4. UNCHANGED <<writes, counter, index, made, cells, calls, crashes>>
  BY DEF Read
<1>5. CASE Dies(p) /\ UNCHANGED <<magic, locked>>
  <2>1. crashes' \in 0..MaxCrashes
    BY <1>4 DEF TypeOK
  <2>2. UNCHANGED <<shared, calls>>
    BY <1>4, <1>5 DEF shared
  <2>3. TypeOK' /\ Same(p)
    BY <1>5, <2>1, <2>2, DiesType
  <2> QED BY <1>1, <1>2, <1>5, <2>3
<1>6. CASE ~(Dies(p) /\ UNCHANGED <<magic, locked>>)
  <2>1. locked' = [locked EXCEPT ![k] = @ - 1] /\ UNCHANGED <<first, users, owner, log, died, torn>>
    BY <1>6 DEF Read
  <2>2. locked' \in [Keys -> Int]
    BY <2>1, <1>1 DEF TypeOK
  <2>3. CASE magic' = "bad" /\ Ends(p)
    <3>1. TypeOK' /\ Same(p)
      BY <1>4, <2>1, <2>2, <2>3, EndsType DEF TypeOK
    <3> QED BY <1>1, <1>2, <2>1, <2>3, <3>1
  <2>4. CASE ~(magic' = "bad" /\ Ends(p))
    <3>1. /\ Fetched(p, k, IF v.tc = 0 THEN Fresh ELSE v.tc)
          /\ Goto(p, "ready") /\ at' = [at EXCEPT ![p] = 0]
          /\ UNCHANGED <<magic, small, mapped, mine, base, mytx>>
      BY <1>6, <2>4 DEF Read
    <3> DEFINE tc == IF v.tc = 0 THEN Fresh ELSE v.tc
    <3>2. tc \in Int \ {0}
      BY <1>3 DEF Fresh
    <3>3. Fetched(p, k, tc)
      BY <3>1
    <3> HIDE DEF tc
    <3>4. Item(k, tc, "fetched") \in ItemType
      BY <1>1, <3>2, NewItem
    <3>5. /\ items' \in [Procs -> Transactions] /\ items'[p] = Append(items[p], Item(k, tc, "fetched"))
          /\ \A q \in Procs \ {p} : items'[q] = items[q]
      BY <3>3, <3>4, Adding DEF Fetched
    <3>6. "ready" \in Labels
      BY DEF Labels
    <3>7. pc' \in [Procs -> Labels] /\ pc'[p] = "ready" /\ \A q \in Procs \ {p} : pc'[q] = pc[q]
      BY <3>1, <3>6, GotoType
    <3>8. at' \in [Procs -> Nat] /\ \A q \in Procs \ {p} : at'[q] = at[q]
      BY <3>1 DEF TypeOK
    <3>9. TypeOK' /\ Same(p)
      BY <1>4, <2>1, <2>2, <3>1, <3>5, <3>7, <3>8 DEF TypeOK, Same
    <3> QED BY <1>1, <1>2, <2>1, <3>1, <3>2, <3>5, <3>7, <3>9
  <2> QED BY <2>3, <2>4
<1> QED BY <1>5, <1>6

\* The kind of one item is set, as commit() does with toupdate.
SetKind(p, n, kind) == items' = [items EXCEPT ![p][n].kind = kind]

LEMMA Taking ==
  ASSUME TypeOK, NEW p \in Procs, NEW n \in DOMAIN items[p], NEW kind \in Kinds, SetKind(p, n, kind)
  PROVE  /\ items' \in [Procs -> Transactions]
         /\ Len(items'[p]) = Len(items[p]) /\ DOMAIN items'[p] = DOMAIN items[p]
         /\ items'[p][n].kind = kind
         /\ \A m \in DOMAIN items[p] : /\ items'[p][m].key = items[p][m].key
                                       /\ items'[p][m].tc = items[p][m].tc
                                       /\ items'[p][m].off = items[p][m].off
                                       /\ m # n => items'[p][m].kind = items[p][m].kind
         /\ \A q \in Procs \ {p} : items'[q] = items[q]
<1>1. items[p] \in Transactions /\ items[p][n] \in ItemType
  BY SequenceFacts DEF TypeOK
<1> DEFINE i == [items[p][n] EXCEPT !.kind = kind]
<1>2. /\ i \in ItemType /\ i.key = items[p][n].key /\ i.tc = items[p][n].tc
      /\ i.off = items[p][n].off /\ i.kind = kind
  BY <1>1 DEF ItemType
<1>3. items' = [items EXCEPT ![p] = [items[p] EXCEPT ![n] = i]]
  BY DEF SetKind
<1> HIDE DEF i
<1>4. /\ items' \in [Procs -> Transactions]
      /\ Len(items'[p]) = Len(items[p]) /\ DOMAIN items'[p] = DOMAIN items[p]
      /\ items'[p][n] = i /\ \A m \in DOMAIN items[p] \ {n} : items'[p][m] = items[p][m]
      /\ \A q \in Procs \ {p} : items'[q] = items[q]
  BY ONLY TypeOK, p \in Procs, n \in DOMAIN items[p], <1>2, <1>3, Setting
<1> QED BY <1>2, <1>4

LEMMA UnsharedType ==
  ASSUME TypeOK, NEW ks
  PROVE  Unshared(ks) \in [Keys -> Int]
BY DEF Unshared, TypeOK

LEMMA LockSharedType ==
  ASSUME TypeOK, Placed, NEW p \in Procs, LockShared(p)
  PROVE  LET n == at[p]
             i == items[p][n]
         IN  /\ TypeOK' /\ Same(p) /\ n \in DOMAIN items[p] /\ i \in ItemType
             /\ index' = index /\ log' = log /\ owner' = owner /\ mine' = mine
             /\ \/ /\ locked' = Unshared(Sharing(p, n)) /\ Ends(p)
                \/ /\ at'[p] = n + 1 /\ pc'[p] = IF n = Len(items[p]) THEN "count" ELSE "shared"
                   /\ Len(items'[p]) = Len(items[p]) /\ DOMAIN items'[p] = DOMAIN items[p]
                   /\ \A m \in DOMAIN items[p] : /\ items'[p][m].key = items[p][m].key
                                                 /\ items'[p][m].tc = items[p][m].tc
                                                 /\ m # n => items'[p][m].kind = items[p][m].kind
                   /\ \/ ~Here(i.key) /\ items'[p][n].kind = "insertion" /\ locked' = locked
                      \/ /\ Here(i.key) /\ locked[i.key] >= 0
                         /\ items'[p][n].kind \in {"removal", "update"}
                         /\ locked' = [locked EXCEPT ![i.key] = @ + 1]
<1> USE DEF flocks, hist
<1> DEFINE n == at[p]
           i == items[p][n]
           l == IF n = Len(items[p]) THEN "count" ELSE "shared"
<1>1. pc[p] = "shared" /\ UNCHANGED <<magic, writes, counter, index, made, cells, first, users, owner, calls, crashes,
                                     log, died, torn>>
  BY DEF LockShared
<1>2. n \in DOMAIN items[p] /\ i \in ItemType
  <2>1. items[p] \in Transactions /\ n \in 1..Len(items[p])
    BY <1>1 DEF TypeOK, Placed, PlacedAt
  <2> QED BY <2>1, SequenceFacts
<1>3. i.key \in Keys
  BY <1>2 DEF ItemType
<1>4. l \in Labels
  BY DEF Labels, Committing
<1>5. ASSUME NEW kind \in Kinds, items' = [items EXCEPT ![p][n].kind = kind], at' = [at EXCEPT ![p] = n + 1],
             Goto(p, l), UNCHANGED <<small, mapped, mine, base, mytx>>, locked' \in [Keys -> Int]
      PROVE  /\ TypeOK' /\ Same(p) /\ at'[p] = n + 1 /\ pc'[p] = l
             /\ Len(items'[p]) = Len(items[p]) /\ DOMAIN items'[p] = DOMAIN items[p]
             /\ items'[p][n].kind = kind
             /\ \A m \in DOMAIN items[p] : /\ items'[p][m].key = items[p][m].key
                                           /\ items'[p][m].tc = items[p][m].tc
                                           /\ m # n => items'[p][m].kind = items[p][m].kind
  <2>0. n \in Nat
    BY DEF TypeOK
  <2> HIDE DEF i, l, n
  <2>1. pc' \in [Procs -> Labels] /\ pc'[p] = l /\ \A q \in Procs \ {p} : pc'[q] = pc[q]
    BY <1>4, <1>5, GotoType
  <2>2. at' \in [Procs -> Nat] /\ at'[p] = n + 1 /\ \A q \in Procs \ {p} : at'[q] = at[q]
    BY <1>5, <2>0 DEF TypeOK
  <2>3. /\ items' \in [Procs -> Transactions] /\ items'[p][n].kind = kind
        /\ Len(items'[p]) = Len(items[p]) /\ DOMAIN items'[p] = DOMAIN items[p]
        /\ \A m \in DOMAIN items[p] : /\ items'[p][m].key = items[p][m].key
                                      /\ items'[p][m].tc = items[p][m].tc
                                      /\ m # n => items'[p][m].kind = items[p][m].kind
        /\ \A q \in Procs \ {p} : items'[q] = items[q]
    <3>1. n \in DOMAIN items[p] /\ kind \in Kinds /\ SetKind(p, n, kind)
      BY <1>2, <1>5 DEF SetKind
    <3> QED BY ONLY TypeOK, p \in Procs, <3>1, Taking
  <2>4. TypeOK' /\ Same(p)
    BY <1>1, <1>5, <2>1, <2>2, <2>3 DEF TypeOK, Same
  <2> QED BY <2>1, <2>2, <2>3, <2>4
<1>6. CASE locked' = Unshared(Sharing(p, n)) /\ Ends(p)
  <2>1. locked' \in [Keys -> Int]
    BY <1>6, UnsharedType
  <2>2. TypeOK' /\ Same(p) /\ mine' = mine
    BY <1>1, <1>6, <2>1, EndsType DEF TypeOK
  <2> QED BY <1>1, <1>2, <1>6, <2>2
<1>7. CASE /\ ~Here(i.key) /\ locked' = locked
           /\ items' = [items EXCEPT ![p][n].kind = "insertion"] /\ at' = [at EXCEPT ![p] = n + 1]
           /\ Goto(p, l) /\ UNCHANGED <<small, mapped, mine, base, mytx>>
  <2>1. "insertion" \in Kinds /\ locked' \in [Keys -> Int]
    BY <1>7 DEF Kinds, TypeOK
  <2> QED BY <1>1, <1>2, <1>5, <1>7, <2>1
<1>8. CASE \E kind \in {"removal", "update"} :
           /\ Here(i.key) /\ locked[i.key] >= 0 /\ locked' = [locked EXCEPT ![i.key] = @ + 1]
           /\ items' = [items EXCEPT ![p][n].kind = kind] /\ at' = [at EXCEPT ![p] = n + 1]
           /\ Goto(p, l) /\ UNCHANGED <<small, mapped, mine, base, mytx>>
  <2>1. PICK kind \in {"removal", "update"} :
           /\ Here(i.key) /\ locked[i.key] >= 0 /\ locked' = [locked EXCEPT ![i.key] = @ + 1]
           /\ items' = [items EXCEPT ![p][n].kind = kind] /\ at' = [at EXCEPT ![p] = n + 1]
           /\ Goto(p, l) /\ UNCHANGED <<small, mapped, mine, base, mytx>>
    BY <1>8
  <2>2. kind \in Kinds
    BY DEF Kinds
  <2>3. locked' \in [Keys -> Int]
    BY <1>3, <2>1 DEF TypeOK
  <2> QED BY <1>1, <1>2, <1>5, <2>1, <2>2, <2>3
<1>9. \/ locked' = Unshared(Sharing(p, n)) /\ Ends(p)
      \/ /\ ~Here(i.key) /\ locked' = locked
         /\ items' = [items EXCEPT ![p][n].kind = "insertion"] /\ at' = [at EXCEPT ![p] = n + 1]
         /\ Goto(p, l) /\ UNCHANGED <<small, mapped, mine, base, mytx>>
      \/ \E kind \in {"removal", "update"} :
           /\ Here(i.key) /\ locked[i.key] >= 0 /\ locked' = [locked EXCEPT ![i.key] = @ + 1]
           /\ items' = [items EXCEPT ![p][n].kind = kind] /\ at' = [at EXCEPT ![p] = n + 1]
           /\ Goto(p, l) /\ UNCHANGED <<small, mapped, mine, base, mytx>>
  BY DEF LockShared
<1> QED BY <1>6, <1>7, <1>8, <1>9

LEMMA CountType ==
  ASSUME TypeOK, Placed, NEW p \in Procs, Count(p)
  PROVE  /\ TypeOK' /\ Same(p) /\ pc'[p] = "append" /\ base'[p] = Len(cells[mine[p]])
         /\ mytx'[p] = counter + 1
<1> USE DEF flocks, hist
<1>1. pc[p] = "count" /\ UNCHANGED <<magic, writes, index, locked, made, cells, first, users, owner, small, mapped,
                                    mine, at, items, calls, crashes, log, died, torn>>
  BY DEF Count
<1>2. "append" \in Labels /\ pc[p] \in InStore
  BY <1>1 DEF Labels, Committing, InStore
<1>3. pc' \in [Procs -> Labels] /\ pc'[p] = "append" /\ \A q \in Procs \ {p} : pc'[q] = pc[q]
  BY <1>2, GotoType DEF Count
<1>4. Len(cells[mine[p]]) \in Nat
  <2> DEFINE c == cells[mine[p]]
  <2>1. c \in Contents
    BY <1>2, MineFacts
  <2> HIDE DEF c
  <2>2. Len(c) \in Nat
    BY <2>1 DEF Contents
  <2> QED BY <2>2 DEF c
<1>5. counter' \in Nat /\ mytx' \in [Procs -> Nat] /\ mytx'[p] = counter + 1 /\ \A q \in Procs \ {p} : mytx'[q] = mytx[q]
  BY DEF Count, TypeOK
<1>6. /\ base' \in [Procs -> Nat] /\ base'[p] = Len(cells[mine[p]])
      /\ \A q \in Procs \ {p} : base'[q] = base[q]
  BY <1>4 DEF Count, TypeOK
<1>7. TypeOK' /\ Same(p)
  BY <1>1, <1>3, <1>5, <1>6 DEF TypeOK, Same
<1> QED BY <1>3, <1>5, <1>6, <1>7

LEMMA OffsetsFacts ==
  ASSUME TypeOK, NEW p \in Procs
  PROVE  /\ Offsets(p) \in Transactions /\ Len(Offsets(p)) = Len(items[p]) /\ DOMAIN Offsets(p) = DOMAIN items[p]
         /\ \A n \in DOMAIN items[p] : /\ Offsets(p)[n].key = items[p][n].key /\ Offsets(p)[n].tc = items[p][n].tc
                                       /\ Offsets(p)[n].kind = items[p][n].kind
                                       /\ Offsets(p)[n].off = base[p] + n
<1> DEFINE s == items[p]
           b == base[p]
           t == [n \in DOMAIN s |-> [s[n] EXCEPT !.off = b + n]]
<1>1. s \in Transactions /\ b \in Nat /\ Offsets(p) = t
  BY DEF TypeOK, Offsets
<1> HIDE DEF s, b
<1>2. Len(s) \in Nat /\ DOMAIN s = 1..Len(s) /\ \A n \in DOMAIN s : s[n] \in ItemType
  BY <1>1, SequenceFacts
<1>3. ASSUME NEW n \in DOMAIN s
      PROVE  /\ t[n] \in ItemType /\ t[n].key = s[n].key /\ t[n].tc = s[n].tc /\ t[n].kind = s[n].kind
             /\ t[n].off = b + n
  <2>1. b + n \in Nat
    BY <1>1, <1>2
  <2>2. s[n] \in ItemType
    BY <1>2
  <2> QED BY <2>1, <2>2 DEF ItemType
<1>4. DOMAIN t = 1..Len(s) /\ t = [n \in 1..Len(s) |-> t[n]]
  BY <1>2
<1> HIDE DEF t
<1>5. t \in Seq(ItemType) /\ Len(t) = Len(s)
  BY <1>2, <1>3, <1>4
<1> QED BY <1>1, <1>2, <1>3, <1>4, <1>5 DEF Transactions, s, b

LEMMA RecordsFacts ==
  ASSUME TypeOK, NEW p \in Procs
  PROVE  /\ Records(p) \in Contents /\ Len(Records(p)) = Len(items[p])
         /\ \A n \in DOMAIN items[p] : /\ Records(p)[n] = Record(p, n) /\ Record(p, n) \in [key : Nat, tc : Nat]
<1> DEFINE s == items[p]
           t == [n \in DOMAIN s |-> Record(p, n)]
<1>1. s \in Transactions /\ mytx[p] \in Nat /\ Records(p) = t
  BY DEF TypeOK, Records
<1>2. Len(s) \in Nat /\ DOMAIN s = 1..Len(s) /\ \A n \in DOMAIN s : s[n] \in ItemType
  BY <1>1, SequenceFacts
<1>3. ASSUME NEW n \in DOMAIN s PROVE Record(p, n) \in [key : Nat, tc : Nat]
  <2>1. s[n].key \in Nat
    BY <1>2, KeyValueStoreAssumption DEF ItemType
  <2> QED BY <1>1, <2>1 DEF Record
<1> HIDE DEF s
<1>4. DOMAIN t = 1..Len(s) /\ t = [n \in 1..Len(s) |-> t[n]] /\ \A n \in DOMAIN s : t[n] = Record(p, n)
  BY <1>2
<1> HIDE DEF t
<1>5. t \in Seq([key : Nat, tc : Nat]) /\ Len(t) = Len(s)
  BY <1>2, <1>3, <1>4
<1> QED BY <1>1, <1>3, <1>4, <1>5 DEF Contents, s

LEMMA WrittenType ==
  ASSUME TypeOK, NEW p \in Procs, Written(p), cells' \in [Files -> Contents]
  PROVE  /\ TypeOK' /\ Same(p)
         /\ index' = index /\ log' = log /\ owner' = owner /\ mine' = mine /\ made' = made
         /\ locked' = Unshared(Sharing(p, Len(items[p]) + 1))
         /\ \/ Ends(p)
            \/ /\ items'[p] = Offsets(p) /\ at'[p] = 1 /\ base' = base /\ mytx' = mytx
               /\ pc'[p] = IF items[p] = << >> THEN "begin" ELSE "exclusive"
<1> USE DEF flocks, hist
<1>1. UNCHANGED <<magic, writes, counter, index, made, first, users, owner, calls, crashes, log, died, torn>>
  BY DEF Written
<1>2. locked' = Unshared(Sharing(p, Len(items[p]) + 1)) /\ locked' \in [Keys -> Int]
  BY UnsharedType DEF Written
<1>3. CASE Ends(p)
  <2>1. TypeOK' /\ Same(p) /\ mine' = mine
    BY <1>1, <1>2, <1>3, EndsType DEF TypeOK
  <2> QED BY <1>1, <1>2, <1>3, <2>1
<1>4. CASE ~Ends(p)
  <2> DEFINE l == IF items[p] = << >> THEN "begin" ELSE "exclusive"
             s == Offsets(p)
  <2>1. /\ items' = [items EXCEPT ![p] = s] /\ Goto(p, l) /\ at' = [at EXCEPT ![p] = 1]
        /\ UNCHANGED <<small, mapped, mine, base, mytx>>
    BY <1>4 DEF Written
  <2>2. l \in Labels
    BY DEF Labels, Committing
  <2>3. s \in Transactions
    BY OffsetsFacts
  <2> HIDE DEF l, s
  <2>4. pc' \in [Procs -> Labels] /\ pc'[p] = l /\ \A q \in Procs \ {p} : pc'[q] = pc[q]
    BY <2>1, <2>2, GotoType
  <2>5. /\ items' \in [Procs -> Transactions] /\ items'[p] = s
        /\ \A q \in Procs \ {p} : items'[q] = items[q]
    BY <2>1, <2>3, ItemsStep
  <2>6. at' \in [Procs -> Nat] /\ at'[p] = 1 /\ \A q \in Procs \ {p} : at'[q] = at[q]
    BY <2>1 DEF TypeOK
  <2>7. TypeOK' /\ Same(p)
    BY <1>1, <1>2, <2>1, <2>4, <2>5, <2>6 DEF TypeOK, Same
  <2> QED BY <1>1, <1>2, <2>1, <2>4, <2>5, <2>6, <2>7 DEF l, s
<1> QED BY <1>3, <1>4

\* p writes to its own file only.
LEMMA FileStep ==
  ASSUME TypeOK, NEW f \in Files, NEW c \in Contents, cells' = [cells EXCEPT ![f] = c]
  PROVE  cells' \in [Files -> Contents] /\ cells'[f] = c /\ \A g \in Files \ {f} : cells'[g] = cells[g]
BY DEF TypeOK

LEMMA AppendRecordsType ==
  ASSUME TypeOK, Placed, NEW p \in Procs, AppendRecords(p)
  PROVE  /\ cells' \in [Files -> Contents] /\ cells'[mine[p]] = cells[mine[p]] \o Records(p)
         /\ \A g \in Files \ {mine[p]} : cells'[g] = cells[g]
<1> DEFINE f == mine[p]
           r == Records(p)
           c == cells[f]
<1>1. pc[p] \in InStore
  BY DEF AppendRecords, InStore, Committing
<1>2. f \in Files /\ c \in Contents /\ r \in Contents
  BY <1>1, MineFacts, RecordsFacts
<1>3. cells' = [cells EXCEPT ![f] = c \o r]
  BY DEF AppendRecords
<1> HIDE DEF f, r, c
<1>4. c \o r \in Contents
  BY <1>2 DEF Contents
<1>5. cells' \in [Files -> Contents] /\ cells'[f] = c \o r /\ \A g \in Files \ {f} : cells'[g] = cells[g]
  BY <1>2, <1>3, <1>4, FileStep
<1> QED BY <1>5 DEF f, r, c

Extended(c, len) == [n \in 1..len |-> IF n <= Len(c) THEN c[n] ELSE Padding]

LEMMA ExtendedFacts ==
  ASSUME NEW c \in Contents, NEW len \in Nat
  PROVE  /\ Extended(c, len) \in Contents /\ Len(Extended(c, len)) = len
         /\ \A n \in 1..len : Extended(c, len)[n] = IF n <= Len(c) THEN c[n] ELSE Padding
<1> DEFINE t == Extended(c, len)
<1>1. DOMAIN t = 1..len /\ \A n \in 1..len : t[n] = IF n <= Len(c) THEN c[n] ELSE Padding
  BY DEF Extended
<1>2. Len(c) \in Nat /\ \A n \in 1..Len(c) : c[n] \in [key : Nat, tc : Nat]
  BY Elements DEF Contents
<1>3. Padding \in [key : Nat, tc : Nat]
  BY DEF Padding
<1>4. \A n \in 1..len : t[n] \in [key : Nat, tc : Nat]
  BY <1>1, <1>2, <1>3
<1>5. t = [n \in 1..len |-> t[n]]
  BY DEF Extended
<1> HIDE DEF t
<1> DEFINE C == [key : Nat, tc : Nat]
<1>7. \A n \in 1..len : t[n] \in C
  BY <1>4
<1>6. t \in Seq(C) /\ Len(t) = len
  <2> HIDE DEF C
  <2> QED BY <1>5, <1>7, Tuple
<1> QED BY <1>1, <1>6 DEF Contents, t

LEMMA ExtendMapType ==
  ASSUME TypeOK, Placed, NEW p \in Procs, ExtendMap(p)
  PROVE  /\ TypeOK' /\ Same(p) /\ pc'[p] = "fill"
         /\ cells'[mine[p]] = Extended(cells[mine[p]], base[p] + Len(items[p]))
         /\ \A g \in Files \ {mine[p]} : cells'[g] = cells[g]
<1> USE DEF flocks, hist, local
<1> DEFINE f == mine[p]
           c == cells[f]
           len == base[p] + Len(items[p])
           t == Extended(c, len)
<1>1. pc[p] \in InStore /\ "fill" \in Labels
  BY DEF ExtendMap, InStore, Committing, Labels
<1>2. f \in Files /\ c \in Contents
  BY <1>1, MineFacts
<1>3. len \in Nat
  <2>1. items[p] \in Transactions /\ base[p] \in Nat
    BY DEF TypeOK
  <2> QED BY <2>1, SequenceFacts
<1>4. cells' = [cells EXCEPT ![f] = t]
  BY DEF ExtendMap, Extended
<1>5. UNCHANGED <<magic, writes, counter, index, locked, made, first, users, owner, small, mapped, mine, at, items,
                  base, mytx, calls, crashes, log, died, torn>>
  BY DEF ExtendMap
<1>6. t \in Contents
  <2> HIDE DEF c, len
  <2> QED BY <1>2, <1>3, ExtendedFacts
<1> HIDE DEF t
<1>7. cells' \in [Files -> Contents] /\ cells'[f] = t /\ \A g \in Files \ {f} : cells'[g] = cells[g]
  <2> HIDE DEF f
  <2> QED BY <1>2, <1>4, <1>6, FileStep
<1>8. pc' \in [Procs -> Labels] /\ pc'[p] = "fill" /\ \A q \in Procs \ {p} : pc'[q] = pc[q]
  BY <1>1, GotoType DEF ExtendMap
<1>9. TypeOK' /\ Same(p)
  BY <1>5, <1>7, <1>8 DEF TypeOK, Same
<1> QED BY <1>7, <1>8, <1>9 DEF t

LEMMA FillMapType ==
  ASSUME TypeOK, Placed, NEW p \in Procs, FillMap(p)
  PROVE  /\ cells' \in [Files -> Contents] /\ Len(cells'[mine[p]]) = Len(cells[mine[p]])
         /\ \A n \in 1..Len(cells[mine[p]]) :
              cells'[mine[p]][n] = IF n - base[p] \in DOMAIN items[p] THEN Record(p, n - base[p])
                                   ELSE cells[mine[p]][n]
         /\ \A g \in Files \ {mine[p]} : cells'[g] = cells[g]
<1> DEFINE f == mine[p]
           c == cells[f]
           t == [n \in DOMAIN c |-> IF n - base[p] \in DOMAIN items[p] THEN Record(p, n - base[p]) ELSE c[n]]
<1>1. pc[p] \in InStore
  BY DEF FillMap, InStore, Committing
<1>2. f \in Files /\ c \in Contents
  BY <1>1, MineFacts
<1>3. cells' = [cells EXCEPT ![f] = t]
  BY DEF FillMap
<1> HIDE DEF c
<1>4. Len(c) \in Nat /\ DOMAIN c = 1..Len(c) /\ \A n \in 1..Len(c) : c[n] \in [key : Nat, tc : Nat]
  BY <1>2, Elements DEF Contents
<1>5. /\ t = [n \in 1..Len(c) |-> t[n]]
      /\ \A n \in 1..Len(c) : t[n] = IF n - base[p] \in DOMAIN items[p] THEN Record(p, n - base[p]) ELSE c[n]
  BY <1>4
<1>6. \A n \in 1..Len(c) : t[n] \in [key : Nat, tc : Nat]
  BY <1>4, <1>5, RecordsFacts
<1> HIDE DEF t
<1>7. t \in Seq([key : Nat, tc : Nat]) /\ Len(t) = Len(c)
  BY <1>4, <1>5, <1>6
<1>8. t \in Contents
  BY <1>7 DEF Contents
<1>9. cells' \in [Files -> Contents] /\ cells'[f] = t /\ \A g \in Files \ {f} : cells'[g] = cells[g]
  <2> HIDE DEF f
  <2> QED BY <1>2, <1>3, <1>8, FileStep
<1> QED BY <1>5, <1>7, <1>9 DEF c

LEMMA AppendFailsType ==
  ASSUME TypeOK, NEW p \in Procs, AppendFails(p)
  PROVE  TypeOK' /\ Same(p)
<1> USE DEF flocks, hist
<1>1. locked' \in [Keys -> Int]
  BY UnsharedType DEF AppendFails
<1>2. UNCHANGED <<magic, writes, counter, index, made, cells, first, users, owner, calls, crashes, log, died, torn>>
  BY DEF AppendFails
<1> QED BY <1>1, <1>2, EndsType DEF AppendFails, TypeOK

LEMMA HistoryHere ==
  ASSUME NEW h \in [1..Depth -> Values]
  PROVE  h # << >> /\ h \in Histories
<1>1. 1 \in DOMAIN h
  BY KeyValueStoreAssumption
<1>2. DOMAIN << >> = {}
  OBVIOUS
<1> QED BY <1>1, <1>2 DEF Histories

LEMMA EmptyFacts ==
  Empty \in [1..Depth -> Values] /\ Empty[1].tc = 0
<1>1. NoValue \in Values
  BY KeyValueStoreAssumption DEF NoValue, Values
<1>2. 1 \in 1..Depth
  BY KeyValueStoreAssumption
<1> QED BY <1>1, <1>2 DEF Empty, NoValue

\* An entry is locked exclusively.
LEMMA LocksType ==
  ASSUME TypeOK, NEW p \in Procs, NEW k \in Keys, Locks(p, k)
  PROVE  /\ locked' \in [Keys -> Int] /\ at' \in [Procs -> Nat] /\ pc' \in [Procs -> Labels]
         /\ Same(p) /\ at'[p] = at[p] + 1
         /\ pc'[p] = IF at[p] = Len(items[p]) THEN "begin" ELSE "exclusive"
         /\ UNCHANGED <<first, users, owner, small, mapped, mine, items, base, mytx, log, died, torn>>
         /\ locked' = [locked EXCEPT ![k] = -1]
<1> USE DEF flocks, hist
<1> DEFINE l == IF at[p] = Len(items[p]) THEN "begin" ELSE "exclusive"
<1>1. l \in Labels
  BY DEF Labels, Committing
<1>2. /\ locked' = [locked EXCEPT ![k] = -1] /\ at' = [at EXCEPT ![p] = @ + 1] /\ Goto(p, l)
      /\ UNCHANGED <<first, users, owner, small, mapped, mine, items, base, mytx, log, died, torn>>
  BY DEF Locks
<1> HIDE DEF l
<1>3. pc' \in [Procs -> Labels] /\ pc'[p] = l /\ \A q \in Procs \ {p} : pc'[q] = pc[q]
  BY <1>1, <1>2, GotoType
<1>4. /\ locked' \in [Keys -> Int] /\ at' \in [Procs -> Nat] /\ at'[p] = at[p] + 1
      /\ \A q \in Procs \ {p} : at'[q] = at[q]
  BY <1>2 DEF TypeOK
<1>5. Same(p)
  BY <1>2, <1>3, <1>4 DEF Same
<1> QED BY <1>2, <1>3, <1>4, <1>5 DEF l

LEMMA ItemFacts ==
  ASSUME TypeOK, NEW p \in Procs
  PROVE  /\ Len(items[p]) \in Nat /\ DOMAIN items[p] = 1..Len(items[p])
         /\ \A n \in DOMAIN items[p] : /\ items[p][n] \in ItemType /\ items[p][n].key \in Keys
                                       /\ items[p][n].tc \in Int /\ items[p][n].kind \in Kinds
                                       /\ items[p][n].off \in Nat
<1>1. items[p] \in Transactions
  BY DEF TypeOK
<1>2. /\ Len(items[p]) \in Nat /\ DOMAIN items[p] = 1..Len(items[p])
      /\ \A n \in DOMAIN items[p] : items[p][n] \in ItemType
  BY <1>1, SequenceFacts
<1>3. \A i \in ItemType : i.key \in Keys /\ i.tc \in Int /\ i.kind \in Kinds /\ i.off \in Nat
  BY DEF ItemType
<1> QED BY <1>2, <1>3

LEMMA LockExclusiveType ==
  ASSUME TypeOK, Placed, NEW p \in Procs, LockExclusive(p)
  PROVE  LET i == items[p][at[p]]
         IN  /\ TypeOK' /\ Same(p) /\ at[p] \in DOMAIN items[p]
             /\ index' = index
             /\ \/ Dies(p) /\ UNCHANGED locked
                \/ Here(i.key) /\ locked[i.key] = 0 /\ ~Changed(i) /\ Locks(p, i.key)
                \/ /\ pc'[p] = "insert" /\ i.kind = "insertion"
                   /\ UNCHANGED <<owner, mine, locked, at, items, base, mytx, log>>
<1> USE DEF flocks, hist, local
<1> DEFINE i == items[p][at[p]]
<1>1. pc[p] = "exclusive" /\ UNCHANGED <<magic, writes, counter, index, made, cells, calls, crashes>>
  BY DEF LockExclusive
<1>2. at[p] \in DOMAIN items[p]
  BY <1>1, ItemFacts DEF Placed, PlacedAt
<1>3. i.key \in Keys
  BY <1>2, ItemFacts
<1>4. CASE Dies(p) /\ UNCHANGED locked
  <2>1. UNCHANGED <<shared, calls>> /\ crashes' \in 0..MaxCrashes
    BY <1>1, <1>4 DEF shared, TypeOK
  <2>2. TypeOK' /\ Same(p)
    BY <1>4, <2>1, DiesType
  <2> QED BY <1>1, <1>2, <1>4, <2>2
<1>5. CASE Here(i.key) /\ locked[i.key] = 0 /\ ~Changed(i) /\ Locks(p, i.key)
  <2> DEFINE k == i.key
  <2>1. k \in Keys /\ Locks(p, k)
    BY <1>3, <1>5
  <2> HIDE DEF k
  <2>2. /\ locked' \in [Keys -> Int] /\ at' \in [Procs -> Nat] /\ pc' \in [Procs -> Labels] /\ Same(p)
        /\ UNCHANGED <<first, users, owner, small, mapped, mine, items, base, mytx, log, died, torn>>
    BY <2>1, LocksType
  <2>3. TypeOK'
    BY <1>1, <2>2 DEF TypeOK
  <2> QED BY <1>1, <1>2, <1>5, <2>2, <2>3
<1>6. CASE i.kind = "insertion" /\ Goto(p, "insert") /\ UNCHANGED <<locked, flocks, local, hist>>
  <2>1. "insert" \in Labels
    BY DEF Labels, Committing
  <2>2. pc' \in [Procs -> Labels] /\ pc'[p] = "insert" /\ \A q \in Procs \ {p} : pc'[q] = pc[q]
    BY <1>6, <2>1, GotoType
  <2>3. TypeOK' /\ Same(p)
    BY <1>1, <1>6, <2>2 DEF TypeOK, Same
  <2> QED BY <1>1, <1>2, <1>6, <2>2, <2>3
<1> QED BY <1>4, <1>5, <1>6 DEF LockExclusive

LEMMA InsertType ==
  ASSUME TypeOK, Placed, NEW p \in Procs, Insert(p)
  PROVE  LET k == items[p][at[p]].key
         IN  /\ TypeOK' /\ Same(p) /\ at[p] \in DOMAIN items[p] /\ k \in Keys
             /\ \/ Dies(p) /\ UNCHANGED <<index, locked>>
                \/ Here(k) /\ locked[k] = 0 /\ Locks(p, k) /\ UNCHANGED index
                \/ ~Here(k) /\ Locks(p, k) /\ index' = [index EXCEPT ![k] = Empty]
<1> USE DEF flocks, hist, local
<1> DEFINE k == items[p][at[p]].key
<1>1. pc[p] = "insert" /\ UNCHANGED <<magic, writes, counter, made, cells, calls, crashes>>
  BY DEF Insert
<1>2. at[p] \in DOMAIN items[p]
  BY <1>1, ItemFacts DEF Placed, PlacedAt
<1>3. k \in Keys
  BY <1>2, ItemFacts
<1>4. CASE Dies(p) /\ UNCHANGED <<index, locked>>
  <2>1. UNCHANGED <<shared, calls>> /\ crashes' \in 0..MaxCrashes
    BY <1>1, <1>4 DEF shared, TypeOK
  <2>2. TypeOK' /\ Same(p)
    BY <1>4, <2>1, DiesType
  <2> QED BY <1>1, <1>2, <1>3, <1>4, <2>2
<1>5. ASSUME Locks(p, k), index' \in [Keys -> Histories] PROVE TypeOK' /\ Same(p)
  <2> HIDE DEF k
  <2>2. /\ locked' \in [Keys -> Int] /\ at' \in [Procs -> Nat] /\ pc' \in [Procs -> Labels] /\ Same(p)
        /\ UNCHANGED <<first, users, owner, small, mapped, mine, items, base, mytx, log, died, torn>>
    BY <1>3, <1>5, LocksType
  <2> QED BY <1>1, <1>5, <2>2 DEF TypeOK
<1>6. CASE Here(k) /\ locked[k] = 0 /\ Locks(p, k) /\ UNCHANGED index
  <2>1. index' \in [Keys -> Histories]
    BY <1>6 DEF TypeOK
  <2> QED BY <1>2, <1>3, <1>5, <1>6, <2>1
<1>7. CASE ~Here(k) /\ Locks(p, k) /\ index' = [index EXCEPT ![k] = Empty]
  <2>1. Empty \in Histories
    BY EmptyFacts, HistoryHere
  <2>2. index' \in [Keys -> Histories]
    BY <1>7, <2>1 DEF TypeOK
  <2> QED BY <1>2, <1>3, <1>5, <1>7, <2>2
<1> QED BY <1>4, <1>6, <1>7 DEF Insert

Entry(p, n) == [tc |-> mytx[p], base |-> items[p][n].tc, kind |-> items[p][n].kind]

\* What a transaction that begins to write adds to the log of its keys.
LEMMA BeginLog ==
  ASSUME TypeOK, Keyed, NEW p \in Procs,
         log' = [k \in Keys |-> IF ~In(p, k) THEN log[k]
                                ELSE LET i == CHOOSE i \in Range(items[p]) : i.key = k
                                     IN  Append(log[k], [tc |-> mytx[p], base |-> i.tc, kind |-> i.kind])]
  PROVE  /\ log' \in [Keys -> Logs]
         /\ \A k \in Keys : ~In(p, k) => log'[k] = log[k]
         /\ \A n \in DOMAIN items[p] : log'[items[p][n].key] = Append(log[items[p][n].key], Entry(p, n))
<1>1. \A k \in Keys : ~In(p, k) => log'[k] = log[k]
  OBVIOUS
<1>2. ASSUME NEW n \in DOMAIN items[p]
      PROVE  log'[items[p][n].key] = Append(log[items[p][n].key], Entry(p, n))
  <2> DEFINE k == items[p][n].key
             i == CHOOSE i \in Range(items[p]) : i.key = k
  <2>1. k \in Keys /\ In(p, k)
    BY ItemFacts DEF In
  <2>2. items[p][n] \in Range(items[p])
    BY DEF Range
  <2>3. i \in Range(items[p]) /\ i.key = k
    BY <2>2
  <2>4. PICK m \in DOMAIN items[p] : i = items[p][m]
    BY <2>3 DEF Range
  <2>5. m = n
    BY <2>3, <2>4 DEF Keyed, KeyedAt
  <2>6. log'[k] = Append(log[k], [tc |-> mytx[p], base |-> i.tc, kind |-> i.kind])
    BY <2>1
  <2> HIDE DEF i
  <2> QED BY <2>4, <2>5, <2>6 DEF Entry
<1>3. ASSUME NEW k \in Keys PROVE log'[k] \in Logs
  <2>1. CASE ~In(p, k)
    BY <1>1, <2>1 DEF TypeOK
  <2>2. CASE In(p, k)
    <3>1. PICK n \in DOMAIN items[p] : items[p][n].key = k
      BY <2>2 DEF In
    <3> DEFINE e == Entry(p, n)
               s == log[k]
    <3>2. log'[k] = Append(s, e)
      BY <1>2, <3>1
    <3>3. e \in [tc : Nat, base : Int, kind : Kinds]
      BY ItemFacts DEF Entry, TypeOK
    <3>4. s \in Logs
      BY DEF TypeOK
    <3> HIDE DEF s, e
    <3>5. Append(s, e) \in Logs
      BY <3>3, <3>4 DEF Logs
    <3> QED BY <3>2, <3>5
  <2> QED BY <2>1, <2>2
<1>4. log' = [k \in Keys |-> log'[k]]
  OBVIOUS
<1>5. log' \in [Keys -> Logs]
  BY ONLY <1>3, <1>4
<1> QED BY <1>1, <1>2, <1>5

LEMMA BeginType ==
  ASSUME TypeOK, Placed, Keyed, NEW p \in Procs, Begin(p)
  PROVE  /\ TypeOK' /\ Same(p) /\ UNCHANGED <<magic, counter, index, locked, made, cells, calls, crashes>>
         /\ \/ Dies(p)
            \/ Ends(p) /\ UNCHANGED <<log, owner>> /\ items[p] = << >>
            \/ /\ pc'[p] = "apply" /\ at'[p] = 1
               /\ UNCHANGED <<owner, mine, items, base, mytx>>
               /\ \A k \in Keys : ~In(p, k) => log'[k] = log[k]
               /\ \A n \in DOMAIN items[p] : log'[items[p][n].key] = Append(log[items[p][n].key], Entry(p, n))
<1> USE DEF flocks, hist
<1>1. pc[p] = "begin" /\ UNCHANGED <<magic, counter, index, locked, made, cells, calls, crashes>>
  BY DEF Begin
<1>2. CASE Dies(p) /\ UNCHANGED writes
  <2>1. UNCHANGED <<shared, calls>> /\ crashes' \in 0..MaxCrashes
    BY <1>1, <1>2 DEF shared, TypeOK
  <2>2. TypeOK' /\ Same(p)
    BY <1>2, <2>1, DiesType
  <2> QED BY <1>1, <1>2, <2>2
<1>3. CASE items[p] = << >> /\ Ends(p) /\ UNCHANGED <<writes, first, users, owner, log, died, torn>>
  <2>1. TypeOK' /\ Same(p)
    BY <1>1, <1>3, EndsType DEF TypeOK
  <2> QED BY <1>1, <1>3, <2>1
<1>4. CASE /\ ~(Dies(p) /\ UNCHANGED writes)
           /\ ~(items[p] = << >> /\ Ends(p) /\ UNCHANGED <<writes, first, users, owner, log, died, torn>>)
  <2>1. /\ writes' = [writes EXCEPT ![mine[p]] = @ + 1]
        /\ Goto(p, "apply") /\ at' = [at EXCEPT ![p] = 1]
        /\ UNCHANGED <<first, users, owner, small, mapped, mine, items, base, mytx, died, torn>>
    BY <1>4 DEF Begin
  <2>2. log' = [k \in Keys |-> IF ~In(p, k) THEN log[k]
                               ELSE LET i == CHOOSE i \in Range(items[p]) : i.key = k
                                    IN  Append(log[k], [tc |-> mytx[p], base |-> i.tc, kind |-> i.kind])]
    BY <1>4 DEF Begin
  <2>3. /\ log' \in [Keys -> Logs] /\ \A k \in Keys : ~In(p, k) => log'[k] = log[k]
        /\ \A n \in DOMAIN items[p] : log'[items[p][n].key] = Append(log[items[p][n].key], Entry(p, n))
    BY ONLY TypeOK, Keyed, p \in Procs, <2>2, BeginLog
  <2>4. "apply" \in Labels /\ pc[p] \in InStore
    BY <1>1 DEF Labels, Committing, InStore
  <2>5. pc' \in [Procs -> Labels] /\ pc'[p] = "apply" /\ \A q \in Procs \ {p} : pc'[q] = pc[q]
    BY <2>1, <2>4, GotoType
  <2>6. /\ at' \in [Procs -> Nat] /\ at'[p] = 1 /\ writes' \in [Files -> Int]
        /\ \A q \in Procs \ {p} : at'[q] = at[q]
    BY <2>1, <2>4, MineFacts DEF TypeOK
  <2>7. log' \in [Keys -> Logs]
    BY <2>3
  <2>8. TypeOK' /\ Same(p)
    BY ONLY <1>1, <2>1, <2>5, <2>6, <2>7, TypeOK DEF TypeOK, Same
  <2> QED BY ONLY <1>1, <2>1, <2>3, <2>5, <2>6, <2>8
<1> QED BY <1>2, <1>3, <1>4

LEMMA PushedFacts ==
  ASSUME NEW h \in [1..Depth -> Values], NEW v \in Values
  PROVE  /\ Pushed(h, v) \in [1..Depth -> Values] /\ Pushed(h, v)[1] = v
         /\ \A n \in 1..Depth : Pushed(h, v)[n] = v \/ \E m \in 1..Depth : Pushed(h, v)[n] = h[m]
<1>1. 1 \in 1..Depth /\ \A n \in 1..Depth : n # 1 => n - 1 \in 1..Depth
  BY KeyValueStoreAssumption
<1> QED BY <1>1 DEF Pushed

\* What the process p is about to put at the head of a history.
NewHead(p) ==
  LET i == items[p][at[p]]
  IN  IF i.kind = "removal" THEN NoValue ELSE [tc |-> mytx[p], file |-> mine[p], off |-> i.off]

LEMMA ApplyType ==
  ASSUME TypeOK, Placed, LocksRight, Pending, NEW p \in Procs, Apply(p)
  PROVE  LET i == items[p][at[p]]
             h == Pushed(index[i.key], NewHead(p))
         IN  /\ TypeOK' /\ Same(p) /\ at[p] \in DOMAIN items[p] /\ i.key \in Keys
             /\ i.key \in Holding(p) /\ Here(i.key) /\ i.kind # "erased"
             /\ at'[p] = at[p] + 1 /\ UNCHANGED <<owner, pc, mine, base, mytx, log, cells, made>>
             /\ Len(items'[p]) = Len(items[p]) /\ DOMAIN items'[p] = DOMAIN items[p]
             /\ \A m \in DOMAIN items[p] : /\ items'[p][m].key = items[p][m].key
                                           /\ items'[p][m].tc = items[p][m].tc
                                           /\ items'[p][m].off = items[p][m].off
                                           /\ m # at[p] => items'[p][m].kind = items[p][m].kind
             /\ h \in [1..Depth -> Values] /\ h # << >>
             /\ \A k \in Keys \ {i.key} : index'[k] = index[k] /\ locked'[k] = locked[k]
             /\ \/ /\ index'[i.key] = h /\ locked' = locked /\ items'[p][at[p]].kind = i.kind
                \/ /\ index'[i.key] = << >> /\ locked'[i.key] = 0 /\ items'[p][at[p]].kind = "erased"
                   /\ i.kind = "removal"
<1> USE DEF flocks, hist
<1> DEFINE i == items[p][at[p]]
           v == NewHead(p)
           h == Pushed(index[i.key], v)
           gone == i.kind = "removal" /\ \A n \in 1..Depth : h[n].tc = 0
<1>1. /\ pc[p] = "apply" /\ at[p] <= Len(items[p])
      /\ UNCHANGED <<magic, writes, counter, made, cells, first, users, owner, pc, small, mapped, mine, base, mytx,
                     calls, crashes, log, died, torn>>
  BY DEF Apply
<1>2. at[p] \in DOMAIN items[p]
  BY <1>1, ItemFacts DEF Placed, PlacedAt, TypeOK
<1>3. i.key \in Keys /\ i \in ItemType /\ i.off \in Nat /\ i.kind \in Kinds
  BY <1>2, ItemFacts
<1>4. i.kind # "erased"
  BY <1>1, <1>2 DEF Pending, PendingAt, TypeOK
<1>5. i.key \in Holding(p) /\ Here(i.key)
  <2>1. i.key \in Holding(p)
    BY <1>1, <1>2, <1>4 DEF Holding
  <2> QED BY <2>1 DEF LocksRight
<1>6. index[i.key] \in [1..Depth -> Values]
  BY <1>3, <1>5, HereFacts
<1>7. v \in Values
  BY <1>3, KeyValueStoreAssumption DEF NewHead, Values, NoValue, TypeOK
<1>8. h \in [1..Depth -> Values] /\ h # << >>
  <2>1. h \in [1..Depth -> Values]
    BY <1>6, <1>7, PushedFacts
  <2> HIDE DEF h
  <2> QED BY <2>1, HistoryHere
<1>9. /\ index' = [index EXCEPT ![i.key] = IF gone THEN << >> ELSE h]
      /\ locked' = [locked EXCEPT ![i.key] = IF gone THEN 0 ELSE @]
      /\ items' = [items EXCEPT ![p][at[p]].kind = IF gone THEN "erased" ELSE @]
      /\ at' = [at EXCEPT ![p] = @ + 1]
  BY DEF Apply, NewHead
<1> DEFINE kind == IF gone THEN "erased" ELSE i.kind
           g == IF gone THEN << >> ELSE h
           l == IF gone THEN 0 ELSE locked[i.key]
           k == i.key
           n == at[p]
<1>10. kind \in Kinds /\ SetKind(p, n, kind)
  BY <1>3, <1>9 DEF SetKind, Kinds
<1>11. g \in Histories /\ l \in Int
  BY <1>3, <1>8, HistoryHere, Empties DEF TypeOK
<1>12. index' = [index EXCEPT ![k] = g] /\ locked' = [locked EXCEPT ![k] = l]
  BY <1>9
<1>13. \/ g = h /\ l = locked[k] /\ kind = i.kind
       \/ g = << >> /\ l = 0 /\ kind = "erased" /\ i.kind = "removal"
  OBVIOUS
<1>14. at' \in [Procs -> Nat] /\ at'[p] = at[p] + 1 /\ \A q \in Procs \ {p} : at'[q] = at[q]
  BY <1>9 DEF TypeOK
<1> HIDE DEF g, l, kind, n
<1>15. /\ items' \in [Procs -> Transactions]
       /\ Len(items'[p]) = Len(items[p]) /\ DOMAIN items'[p] = DOMAIN items[p]
       /\ items'[p][n].kind = kind
       /\ \A m \in DOMAIN items[p] : /\ items'[p][m].key = items[p][m].key
                                     /\ items'[p][m].tc = items[p][m].tc
                                     /\ items'[p][m].off = items[p][m].off
                                     /\ m # n => items'[p][m].kind = items[p][m].kind
       /\ \A q \in Procs \ {p} : items'[q] = items[q]
  <2>1. n \in DOMAIN items[p]
    BY <1>2 DEF n
  <2> QED BY ONLY TypeOK, p \in Procs, <1>10, <2>1, Taking
<1> HIDE DEF k
<1>16. k \in Keys
  BY <1>3 DEF k
<1>17. /\ index' \in [Keys -> Histories] /\ locked' \in [Keys -> Int] /\ index'[k] = g /\ locked'[k] = l
       /\ \A j \in Keys \ {k} : index'[j] = index[j] /\ locked'[j] = locked[j]
  BY <1>11, <1>12, <1>16 DEF TypeOK
<1>18. l = locked[k] => locked' = locked
  BY <1>12, <1>16 DEF TypeOK
<1>19. TypeOK' /\ Same(p)
  BY ONLY TypeOK, <1>1, <1>14, <1>15, <1>17 DEF TypeOK, Same
<1> HIDE DEF h, v, gone
<1> QED BY ONLY <1>1, <1>2, <1>3, <1>4, <1>5, <1>8, <1>13, <1>14, <1>15, <1>17, <1>18, <1>19 DEF k, n, h, v

LEMMA FinishType ==
  ASSUME TypeOK, Placed, NEW p \in Procs, Finish(p)
  PROVE  TypeOK' /\ Same(p)
<1> USE DEF flocks, hist
<1>1. pc[p] = "apply" /\ UNCHANGED <<magic, counter, index, made, cells, first, users, owner, calls, crashes,
                                    log, died, torn>>
  BY DEF Finish
<1>2. mine[p] \in Files
  BY <1>1, MineFacts DEF InStore, Committing
<1>3. writes' \in [Files -> Int]
  BY <1>2 DEF Finish, TypeOK
<1>4. locked' \in [Keys -> Int]
  BY DEF Finish, TypeOK
<1>5. Ends(p)
  BY DEF Finish
<1> QED BY <1>1, <1>3, <1>4, <1>5, EndsType DEF TypeOK

LEMMA CrashType ==
  ASSUME TypeOK, NEW p \in Procs, Crash(p)
  PROVE  TypeOK' /\ Same(p)
<1>1. Dies(p) /\ UNCHANGED <<shared, calls>>
  BY DEF Crash
<1>2. crashes' \in 0..MaxCrashes
  BY KeyValueStoreAssumption DEF Crash, TypeOK
<1> QED BY <1>1, <1>2, DiesType

-----------------------------------------------------------------------------
(* Where the processes are, and what their transactions have               *)

OwnersKept(p) == \A f \in Files : owner[f] \in Procs \ {p} => owner'[f] = owner[f]

Kept(p) == PlacedAt(p)' /\ KeyedAt(p)' /\ OwnersKept(p)

\* Nobody else's place is disturbed.
LEMMA KeptAll ==
  ASSUME TypeOK, Placed, Keyed, NEW p \in Procs, Same(p), Kept(p)
  PROVE  Placed' /\ Keyed'
<1>1. ASSUME NEW q \in Procs \ {p} PROVE PlacedAt(q)' /\ KeyedAt(q)'
  <2>1. pc'[q] = pc[q] /\ mine'[q] = mine[q] /\ at'[q] = at[q] /\ items'[q] = items[q]
    BY DEF Same
  <2>2. KeyedAt(q)'
    BY <2>1 DEF Keyed, KeyedAt
  <2>3. PlacedAt(q)
    BY DEF Placed
  <2>4. ASSUME mine[q] # 0, owner[mine[q]] = q PROVE owner'[mine[q]] = q
    <3>1. mine[q] \in Files
      BY <2>4, KeyValueStoreAssumption DEF TypeOK, Files
    <3> QED BY <2>4, <3>1 DEF Kept, OwnersKept
  <2>5. PlacedAt(q)'
    <3>1. In(q, at[q])' <=> In(q, at[q])
      BY <2>1 DEF In
    <3> QED BY <2>1, <2>3, <2>4, <3>1 DEF PlacedAt
  <2> QED BY <2>2, <2>5
<1> QED BY <1>1 DEF Kept, Placed, Keyed

LEMMA GoneKept ==
  ASSUME TypeOK, NEW p \in Procs, Gone(p)
  PROVE  Kept(p)
<1>1. /\ pc'[p] = "closed" /\ mine'[p] = 0 /\ items'[p] = << >>
      /\ \A f \in Files : owner'[f] = IF owner[f] = p THEN Nobody ELSE owner[f]
  BY GoneType
<1>2. OwnersKept(p)
  BY <1>1 DEF OwnersKept
<1>3. PlacedAt(p)'
  BY <1>1 DEF PlacedAt, InStore, Committing
<1>4. DOMAIN items'[p] = {}
  BY <1>1
<1>5. KeyedAt(p)'
  BY <1>4 DEF KeyedAt
<1> QED BY <1>2, <1>3, <1>5 DEF Kept

LEMMA EndsKept ==
  ASSUME TypeOK, Placed, NEW p \in Procs, pc[p] \in InStore, Ends(p), owner' = owner
  PROVE  Kept(p)
<1>1. pc'[p] = "ready" /\ items'[p] = << >> /\ mine' = mine
  BY EndsType
<1>2. OwnersKept(p)
  BY DEF OwnersKept
<1>3. mine[p] # 0 /\ owner[mine[p]] = p
  BY MineFacts DEF Placed, PlacedAt
<1>4. PlacedAt(p)'
  BY <1>1, <1>3 DEF PlacedAt
<1>5. DOMAIN items'[p] = {}
  BY <1>1
<1>6. KeyedAt(p)'
  BY <1>5 DEF KeyedAt
<1> QED BY <1>2, <1>4, <1>6 DEF Kept

\* A step in which p neither leaves the store nor gets another small file.
LEMMA InsideKept ==
  ASSUME TypeOK, Placed, NEW p \in Procs, pc[p] \in InStore, owner' = owner, mine' = mine
  PROVE  /\ OwnersKept(p)
         /\ mine'[p] # 0 /\ owner'[mine'[p]] = p
BY MineFacts DEF OwnersKept, Placed, PlacedAt

LEMMA ConstructorKept ==
  ASSUME TypeOK, Placed, Keyed, NEW p \in Procs, Constructor(p)
  PROVE  Kept(p)
<1> USE DEF shared, flocks, local, hist
<1>0. PlacedAt(p) /\ KeyedAt(p)
  BY DEF Placed, Keyed
<1>a. ASSUME NEW l \in Labels, Goto(p, l) PROVE pc'[p] = l
  BY <1>a, GotoType
<1>b. {"first", "header", "share", "scan", "create", "truncate", "retry", "opened", "mmaps", "ready", "closed"}
        \subseteq Labels
  BY DEF Labels, Opening
<1>c. ASSUME items' = items, pc[p] # "apply", pc'[p] # "apply" PROVE KeyedAt(p)'
  BY <1>0, <1>c DEF KeyedAt
<1>d. ASSUME owner' = owner PROVE OwnersKept(p)
  BY <1>d DEF OwnersKept
<1>e. ASSUME Claim(p), at[p] \in Files, pc[p] \in {"scan", "retry"} PROVE OwnersKept(p) /\ PlacedAt(p)'
  <2>1. /\ pc'[p] = "scan"
        /\ \/ /\ mine[p] = 0 /\ owner[at[p]] = Nobody /\ mine'[p] = at[p]
              /\ owner' = [owner EXCEPT ![at[p]] = p]
           \/ mine' = mine /\ owner' = owner
    BY <1>e, ClaimType
  <2>2. OwnersKept(p)
    BY <1>e, <2>1, KeyValueStoreAssumption DEF OwnersKept, TypeOK
  <2>3. mine'[p] # 0 => owner'[mine'[p]] = p
    <3>1. CASE /\ mine[p] = 0 /\ owner[at[p]] = Nobody /\ mine'[p] = at[p]
               /\ owner' = [owner EXCEPT ![at[p]] = p]
      BY <1>e, <3>1 DEF TypeOK
    <3>2. CASE mine' = mine /\ owner' = owner
      BY <1>0, <1>e, <3>2 DEF PlacedAt
    <3> QED BY <2>1, <3>1, <3>2
  <2>4. PlacedAt(p)'
    BY <2>1, <2>3 DEF PlacedAt, InStore, Committing
  <2> QED BY <2>2, <2>4
<1>1. CASE Open(p)
  <2>1. \E l \in {"first", "share"} : Goto(p, l)
    BY <1>1 DEF Open
  <2>2. pc'[p] \in {"first", "share"}
    BY <1>a, <1>b, <2>1
  <2>3. pc[p] = "closed" /\ UNCHANGED <<items, mine, owner>>
    BY <1>1 DEF Open
  <2>4. PlacedAt(p)'
    BY <1>0, <2>2, <2>3 DEF PlacedAt, InStore, Committing
  <2> QED BY <1>c, <1>d, <2>2, <2>3, <2>4 DEF Kept
<1>2. CASE FirstEntrant(p)
  <2>1. \E l \in {"header", "share"} : Goto(p, l)
    BY <1>2 DEF FirstEntrant
  <2>2. pc'[p] \in {"header", "share"}
    BY <1>a, <1>b, <2>1
  <2>3. pc[p] = "first" /\ UNCHANGED <<items, mine, owner>>
    BY <1>2 DEF FirstEntrant
  <2>4. PlacedAt(p)'
    BY <1>0, <2>2, <2>3 DEF PlacedAt, InStore, Committing
  <2> QED BY <1>c, <1>d, <2>2, <2>3, <2>4 DEF Kept
<1>3. CASE WriteHeader(p)
  <2>1. pc'[p] = "share"
    BY <1>3, <1>a, <1>b DEF WriteHeader
  <2>2. pc[p] = "header" /\ UNCHANGED <<items, mine, owner>>
    BY <1>3 DEF WriteHeader
  <2>3. PlacedAt(p)'
    BY <1>0, <2>1, <2>2 DEF PlacedAt, InStore, Committing
  <2> QED BY <1>c, <1>d, <2>1, <2>2, <2>3 DEF Kept
<1>4. CASE ShareIndex(p)
  <2>1. \E l \in {"scan", "closed"} : Goto(p, l)
    BY <1>4 DEF ShareIndex
  <2>2. pc'[p] \in {"scan", "closed"}
    BY <1>a, <1>b, <2>1
  <2>3. pc[p] = "share" /\ UNCHANGED <<items, mine, owner>>
    BY <1>4 DEF ShareIndex
  <2>4. PlacedAt(p)'
    BY <1>0, <2>2, <2>3 DEF PlacedAt, InStore, Committing
  <2> QED BY <1>c, <1>d, <2>2, <2>3, <2>4 DEF Kept
<1>5. CASE Scan(p)
  <2>1. pc[p] = "scan" /\ items' = items
    BY <1>5 DEF Scan
  <2>2. CASE at[p] \in made
    <3>1. at[p] \in Files /\ Claim(p)
      BY <1>5, <2>2 DEF Scan, TypeOK
    <3>2. pc'[p] = "scan"
      BY <3>1, <1>a, <1>b DEF Claim
    <3> QED BY <1>c, <1>e, <2>1, <3>1, <3>2 DEF Kept
  <2>3. CASE at[p] \notin made
    <3>1. /\ Goto(p, IF at[p] \in Files /\ mine[p] = 0 THEN "create" ELSE "opened")
          /\ UNCHANGED <<owner, mine, at>>
      BY <1>5, <2>3 DEF Scan
    <3>2. pc'[p] = IF at[p] \in Files /\ mine[p] = 0 THEN "create" ELSE "opened"
      BY <1>a, <1>b, <3>1
    <3>3. PlacedAt(p)'
      BY <1>0, <2>1, <3>1, <3>2 DEF PlacedAt, InStore, Committing
    <3> QED BY <1>c, <1>d, <2>1, <3>1, <3>2, <3>3 DEF Kept
  <2> QED BY <2>2, <2>3
<1>6. CASE Create(p)
  <2>1. pc[p] = "create" /\ UNCHANGED <<items, mine, owner>>
    BY <1>6 DEF Create
  <2>2. pc'[p] = "scan" \/ (pc'[p] = "truncate" /\ at' = at)
    BY <1>6, <1>a, <1>b DEF Create
  <2>3. PlacedAt(p)'
    BY <1>0, <2>1, <2>2 DEF PlacedAt, InStore, Committing
  <2> QED BY <1>c, <1>d, <2>1, <2>2, <2>3 DEF Kept
<1>7. CASE Truncate(p)
  <2>1. pc[p] = "truncate" /\ UNCHANGED <<items, mine, owner, at>>
    BY <1>7 DEF Truncate
  <2>2. pc'[p] = "retry"
    BY <1>7, <1>a, <1>b DEF Truncate
  <2>3. PlacedAt(p)'
    BY <1>0, <2>1, <2>2 DEF PlacedAt, InStore, Committing
  <2> QED BY <1>c, <1>d, <2>1, <2>2, <2>3 DEF Kept
<1>8. CASE Retry(p)
  <2>1. pc[p] = "retry" /\ Claim(p) /\ items' = items /\ at[p] \in Files
    BY <1>0, <1>8 DEF Retry, PlacedAt
  <2>2. pc'[p] = "scan"
    BY <2>1, <1>a, <1>b DEF Claim
  <2> QED BY <1>c, <1>e, <2>1, <2>2 DEF Kept
<1>9. CASE Opened(p)
  <2>1. CASE Gone(p)
    BY <2>1, GoneKept
  <2>2. CASE ~Gone(p)
    <3>1. /\ pc[p] = "opened" /\ mine[p] # 0 /\ \E l \in {"mmaps", "ready"} : Goto(p, l)
          /\ UNCHANGED <<owner, mine, items>>
      BY <1>9, <2>2 DEF Opened
    <3>2. pc'[p] \in {"mmaps", "ready"}
      BY <1>a, <1>b, <3>1
    <3>3. PlacedAt(p)'
      BY <1>0, <3>1, <3>2 DEF PlacedAt, InStore, Committing
    <3> QED BY <1>c, <1>d, <3>1, <3>2, <3>3 DEF Kept
  <2> QED BY <2>1, <2>2
<1>10. CASE UseMmaps(p)
  <2>1. pc[p] = "mmaps" /\ UNCHANGED <<items, mine, owner>>
    BY <1>10 DEF UseMmaps
  <2>2. pc'[p] = "ready"
    BY <1>10, <1>a, <1>b DEF UseMmaps
  <2>3. PlacedAt(p)'
    BY <1>0, <2>1, <2>2 DEF PlacedAt, InStore, Committing
  <2> QED BY <1>c, <1>d, <2>1, <2>2, <2>3 DEF Kept
<1> QED BY <1>1, <1>2, <1>3, <1>4, <1>5, <1>6, <1>7, <1>8, <1>9, <1>10 DEF Constructor

LEMMA CloseKept ==
  ASSUME TypeOK, Placed, Keyed, NEW p \in Procs, Close(p) \/ CloseIndex(p) \/ Closed(p)
  PROVE  Kept(p)
<1> USE DEF shared, flocks, local, hist
<1>0. KeyedAt(p)
  BY DEF Keyed
<1>1. CASE Close(p)
  <2>1. pc[p] = "ready" /\ pc[p] \in InStore /\ pc'[p] = "closing" /\ items' = items /\ mine' = mine
    BY <1>1, GotoType DEF Close, Labels, InStore
  <2>2. mine[p] \in Files /\ owner[mine[p]] = p /\ owner' = [owner EXCEPT ![mine[p]] = Nobody]
    BY <1>1, <2>1, MineFacts DEF Close
  <2>3. OwnersKept(p)
    BY <2>2 DEF OwnersKept, TypeOK
  <2>4. PlacedAt(p)'
    BY <2>1 DEF PlacedAt, InStore, Committing
  <2>5. KeyedAt(p)'
    BY <1>0, <2>1 DEF KeyedAt
  <2> QED BY <2>3, <2>4, <2>5 DEF Kept
<1>2. CASE CloseIndex(p)
  <2>1. pc[p] = "closing" /\ pc'[p] = "hash" /\ items' = items /\ mine' = mine /\ owner' = owner
    BY <1>2, GotoType DEF CloseIndex, Labels
  <2>2. PlacedAt(p)'
    BY <2>1 DEF PlacedAt, InStore, Committing
  <2>3. KeyedAt(p)'
    BY <1>0, <2>1 DEF KeyedAt
  <2> QED BY <2>1, <2>2, <2>3 DEF Kept, OwnersKept
<1>3. CASE Closed(p)
  BY <1>3, GoneKept DEF Closed
<1> QED BY <1>1, <1>2, <1>3

\* An item for a key the transaction did not have is added.
LEMMA AddedKeyed ==
  ASSUME TypeOK, Keyed, NEW p \in Procs, NEW k \in Keys, NEW tc \in Int \ {0}, NEW op \in {"fetched", "write", "remove"},
         pc[p] # "apply", ~In(p, k), items'[p] = Append(items[p], Item(k, tc, op))
  PROVE  KeyedAt(p)'
<1> DEFINE s == items[p]
           i == Item(k, tc, op)
<1>1. s \in Transactions /\ i \in ItemType
  BY NewItem DEF TypeOK
<1>2. i.key = k /\ i.tc # 0 /\ i.kind = "none"
  BY DEF Item
<1>3. items'[p] = Append(s, i)
  OBVIOUS
<1>4. KeyedAt(p) /\ \A n \in DOMAIN s : s[n].key # k
  BY DEF Keyed, In
<1>5. DOMAIN s = 1..Len(s)
  BY <1>1, SequenceFacts
<1>6. \A m, n \in DOMAIN s : s[m].key = s[n].key => m = n
  BY <1>4 DEF KeyedAt
<1>7. \A n \in DOMAIN s : s[n].tc # 0 /\ s[n].kind # "erased"
  BY <1>4 DEF KeyedAt
<1> HIDE DEF s, i
<1> DEFINE t == Append(s, i)
<1>8. /\ Len(s) \in Nat /\ DOMAIN t = 1..Len(s) + 1
      /\ \A n \in 1..Len(s) : t[n] = s[n]
      /\ t[Len(s) + 1] = i
  BY <1>1, AppendItem
<1> HIDE DEF t
<1>9. \A n \in DOMAIN t : n \in DOMAIN s \/ n = Len(s) + 1
  BY <1>5, <1>8
<1>10. \A n \in DOMAIN t : t[n].tc # 0 /\ t[n].kind # "erased"
  BY <1>2, <1>5, <1>7, <1>8, <1>9
<1>11. ASSUME NEW m \in DOMAIN t, NEW n \in DOMAIN t, t[m].key = t[n].key PROVE m = n
  <2>1. CASE m \in DOMAIN s /\ n \in DOMAIN s
    BY <1>5, <1>6, <1>8, <1>11, <2>1
  <2>2. CASE m = Len(s) + 1 /\ n \in DOMAIN s
    BY <1>2, <1>4, <1>5, <1>8, <1>11, <2>2
  <2>3. CASE n = Len(s) + 1 /\ m \in DOMAIN s
    BY <1>2, <1>4, <1>5, <1>8, <1>11, <2>3
  <2> QED BY <1>9, <2>1, <2>2, <2>3
<1>12. items'[p] = t
  BY <1>3 DEF t
<1> QED BY <1>10, <1>11, <1>12 DEF KeyedAt

\* What find(), update() and remove() do.
LEMMA StagingKept ==
  ASSUME TypeOK, Placed, Keyed, NEW p \in Procs, NEW c \in Calls[p],
         Fetch(p, c.key) \/ Stage(p, c) \/ StageUnsafe(p, c)
  PROVE  Kept(p)
<1> USE DEF shared, flocks, hist
<1>0. pc[p] = "ready" /\ pc[p] \in InStore /\ c.key \in Keys
  BY CallFacts DEF Fetch, Stage, StageUnsafe, InStore
<1>1. owner' = owner
  BY DEF Fetch, Stage, StageUnsafe
<1>2. ASSUME mine' = mine, pc'[p] \in {"ready", "read"}, pc'[p] = "read" => at'[p] \in Keys /\ ~In(p, at[p])'
      PROVE  OwnersKept(p) /\ PlacedAt(p)'
  <2>1. OwnersKept(p) /\ mine'[p] # 0 /\ owner'[mine'[p]] = p
    BY <1>0, <1>1, <1>2, InsideKept
  <2> QED BY <1>2, <2>1 DEF PlacedAt
<1>3. CASE Fetch(p, c.key)
  <2> DEFINE k == c.key
  <2>1. k \in Keys /\ Fetch(p, k) /\ ~In(p, k)
    BY <1>0, <1>3 DEF Fetch
  <2> HIDE DEF k
  <2>2. CASE Ends(p)
    BY <1>0, <1>1, <2>2, EndsKept
  <2>3. CASE Fetched(p, k, Fresh) /\ UNCHANGED <<pc, mine, at>>
    <3>1. Fresh \in Int \ {0} /\ "fetched" \in {"fetched", "write", "remove"}
      BY DEF Fresh
    <3>2. items'[p] = Append(items[p], Item(k, Fresh, "fetched"))
      BY <2>1, <2>3, <3>1, NewItem, Adding DEF Fetched
    <3>3. KeyedAt(p)'
      BY <1>0, <2>1, <3>1, <3>2, AddedKeyed
    <3> QED BY <1>0, <1>2, <2>3, <3>3 DEF Kept
  <2>4. CASE Goto(p, "read") /\ at' = [at EXCEPT ![p] = k] /\ UNCHANGED <<mine, items>>
    <3>1. pc'[p] = "read" /\ at'[p] = k
      BY <2>4, GotoType DEF Labels, TypeOK
    <3>2. KeyedAt(p)'
      BY <1>0, <2>4, <3>1 DEF Keyed, KeyedAt
    <3>3. ~In(p, at[p])'
      BY <2>1, <2>4, <3>1 DEF In
    <3> QED BY <1>2, <2>1, <2>4, <3>1, <3>2, <3>3 DEF Kept
  <2> QED BY <2>1, <2>2, <2>3, <2>4 DEF Fetch
<1>4. CASE Stage(p, c)
  <2>1. pc' = pc /\ mine' = mine
    BY <1>4 DEF Stage
  <2>2. /\ DOMAIN items'[p] = DOMAIN items[p]
        /\ \A n \in DOMAIN items[p] : /\ items'[p][n].key = items[p][n].key
                                      /\ items'[p][n].tc = items[p][n].tc
                                      /\ items'[p][n].kind = items[p][n].kind
    BY <1>4, StageType
  <2>3. KeyedAt(p)'
    BY <2>1, <2>2 DEF Keyed, KeyedAt
  <2> QED BY <1>0, <1>2, <2>1, <2>3 DEF Kept
<1>5. CASE StageUnsafe(p, c)
  <2>1. pc' = pc /\ mine' = mine /\ ~In(p, c.key)
    BY <1>5 DEF StageUnsafe
  <2> DEFINE k == c.key
             op == c.op
  <2>2. items'[p] = Append(items[p], Item(k, Fresh, op))
    BY <1>5, StageUnsafeType
  <2>3. Fresh \in Int \ {0} /\ op \in {"fetched", "write", "remove"} /\ k \in Keys /\ ~In(p, k)
    BY <2>1, CallFacts DEF Fresh
  <2> HIDE DEF k, op
  <2>4. KeyedAt(p)'
    BY <1>0, <2>2, <2>3, AddedKeyed
  <2> QED BY <1>0, <1>2, <2>1, <2>4 DEF Kept
<1> QED BY <1>3, <1>4, <1>5

LEMMA CommitKept ==
  ASSUME TypeOK, Placed, Keyed, NEW p \in Procs, Commit(p)
  PROVE  Kept(p)
<1>1. pc[p] = "ready" /\ owner' = owner /\ pc[p] \in InStore
  BY DEF Commit, flocks, InStore
<1>2. CASE Ends(p)
  BY <1>1, <1>2, EndsKept
<1>3. CASE \E s \in Sorted({i \in Range(items[p]) : Staged(i)}) :
             /\ items'[p] = s /\ at'[p] = 1 /\ pc'[p] = IF s = << >> THEN "count" ELSE "shared"
             /\ mine' = mine
  <2>1. PICK s \in Sorted({i \in Range(items[p]) : Staged(i)}) :
             /\ items'[p] = s /\ at'[p] = 1 /\ pc'[p] = IF s = << >> THEN "count" ELSE "shared"
             /\ mine' = mine
    BY <1>3
  <2>2. /\ s \in Transactions
        /\ \A n \in DOMAIN s : \E m \in DOMAIN items[p] : s[n] = items[p][m]
        /\ \A m, n \in DOMAIN s : m # n => s[m] # s[n]
    BY SortedFacts
  <2>3. Len(s) \in Nat /\ (Len(s) = 0 <=> s = << >>)
    BY <2>2, SequenceFacts
  <2>4. OwnersKept(p) /\ mine'[p] # 0 /\ owner'[mine'[p]] = p
    BY <1>1, <2>1, InsideKept
  <2>5. pc'[p] = "shared" => at'[p] \in 1..Len(items'[p])
    BY <2>1, <2>3
  <2>6. pc'[p] \in {"count", "shared"}
    BY <2>1
  <2>7. PlacedAt(p)'
    BY <2>4, <2>5, <2>6 DEF PlacedAt
  <2>8. KeyedAt(p)
    BY DEF Keyed
  <2>9. \A n \in DOMAIN s : s[n].tc # 0 /\ s[n].kind # "erased"
    BY <1>1, <2>2, <2>8 DEF KeyedAt
  <2>10. \A m, n \in DOMAIN s : s[m].key = s[n].key => m = n
    <3> SUFFICES ASSUME NEW m \in DOMAIN s, NEW n \in DOMAIN s, s[m].key = s[n].key PROVE m = n
      OBVIOUS
    <3>1. PICK i \in DOMAIN items[p] : s[m] = items[p][i]
      BY <2>2
    <3>2. PICK j \in DOMAIN items[p] : s[n] = items[p][j]
      BY <2>2
    <3>3. i = j
      BY <2>8, <3>1, <3>2 DEF KeyedAt
    <3> QED BY <2>2, <3>1, <3>2, <3>3
  <2>11. KeyedAt(p)'
    BY <2>1, <2>9, <2>10 DEF KeyedAt
  <2> QED BY <2>4, <2>7, <2>11 DEF Kept
<1> QED BY <1>2, <1>3, CommitType

LEMMA LockSharedKept ==
  ASSUME TypeOK, Placed, Keyed, NEW p \in Procs, LockShared(p)
  PROVE  Kept(p)
<1>1. pc[p] = "shared" /\ pc[p] \in InStore
  BY DEF LockShared, InStore, Committing
<1>2. owner' = owner /\ mine' = mine /\ at[p] \in DOMAIN items[p]
  BY LockSharedType
<1>3. CASE Ends(p)
  BY <1>1, <1>2, <1>3, EndsKept
<1>4. CASE ~Ends(p)
  <2>1. /\ at'[p] = at[p] + 1 /\ pc'[p] = IF at[p] = Len(items[p]) THEN "count" ELSE "shared"
        /\ Len(items'[p]) = Len(items[p]) /\ DOMAIN items'[p] = DOMAIN items[p]
        /\ items'[p][at[p]].kind # "erased"
        /\ \A m \in DOMAIN items[p] : /\ items'[p][m].key = items[p][m].key
                                      /\ items'[p][m].tc = items[p][m].tc
                                      /\ m # at[p] => items'[p][m].kind = items[p][m].kind
    BY <1>4, LockSharedType
  <2>2. OwnersKept(p) /\ mine'[p] # 0 /\ owner'[mine'[p]] = p
    BY <1>1, <1>2, InsideKept
  <2>3. pc'[p] = "shared" => at'[p] \in 1..Len(items'[p])
    BY <1>2, <2>1, ItemFacts
  <2>4. PlacedAt(p)'
    BY <2>1, <2>2, <2>3 DEF PlacedAt
  <2>5. KeyedAt(p)'
    BY <1>1, <1>2, <2>1 DEF Keyed, KeyedAt
  <2> QED BY <2>2, <2>4, <2>5 DEF Kept
<1> QED BY <1>3, <1>4

LEMMA ReadKept ==
  ASSUME TypeOK, Placed, Keyed, LocksRight, NEW p \in Procs, Read(p)
  PROVE  Kept(p)
<1>1. pc[p] = "read" /\ pc[p] \in InStore /\ at[p] \in Keys /\ ~In(p, at[p])
  BY DEF Read, InStore, Placed, PlacedAt
<1>2. CASE Dies(p)
  BY <1>2, GoneKept DEF Dies
<1>3. CASE owner' = owner /\ Ends(p)
  BY <1>1, <1>3, EndsKept
<1>4. CASE /\ owner' = owner /\ pc'[p] = "ready" /\ mine' = mine
           /\ \E tc \in Int \ {0} : items'[p] = Append(items[p], Item(at[p], tc, "fetched"))
  <2>1. OwnersKept(p) /\ mine'[p] # 0 /\ owner'[mine'[p]] = p
    BY <1>1, <1>4, InsideKept
  <2>2. PlacedAt(p)'
    BY <1>4, <2>1 DEF PlacedAt
  <2>3. PICK tc \in Int \ {0} : items'[p] = Append(items[p], Item(at[p], tc, "fetched"))
    BY <1>4
  <2>4. KeyedAt(p)'
    <3> DEFINE k == at[p]
               op == "fetched"
    <3>1. /\ k \in Keys /\ ~In(p, k) /\ op \in {"fetched", "write", "remove"} /\ pc[p] # "apply"
          /\ items'[p] = Append(items[p], Item(k, tc, op))
      BY <1>1, <2>3
    <3> HIDE DEF k, op
    <3> QED BY <3>1, AddedKeyed
  <2> QED BY <2>1, <2>2, <2>4 DEF Kept
<1> QED BY <1>2, <1>3, <1>4, ReadType

\* The records are written, or not, and the shared locks released.
LEMMA WritingKept ==
  ASSUME TypeOK, Placed, Keyed, NEW p \in Procs,
         Count(p) \/ AppendRecords(p) \/ AppendFails(p) \/ ExtendMap(p) \/ FillMap(p)
  PROVE  Kept(p)
<1> USE DEF shared, flocks, local, hist
<1>1. pc[p] \in {"count", "append", "fill"} /\ pc[p] \in InStore
  BY DEF Count, AppendRecords, AppendFails, ExtendMap, FillMap, InStore, Committing
<1>2. CASE Count(p) \/ ExtendMap(p)
  <2>1. owner' = owner /\ mine' = mine /\ items' = items
    BY <1>2 DEF Count, ExtendMap
  <2>2. pc'[p] \in {"append", "fill"}
    BY <1>2, CountType, ExtendMapType
  <2>3. OwnersKept(p) /\ mine'[p] # 0 /\ owner'[mine'[p]] = p
    BY <1>1, <2>1, InsideKept
  <2>4. PlacedAt(p)'
    BY <2>2, <2>3 DEF PlacedAt
  <2>5. KeyedAt(p)'
    BY <1>1, <2>1, <2>2 DEF Keyed, KeyedAt
  <2> QED BY <2>3, <2>4, <2>5 DEF Kept
<1>3. CASE AppendFails(p)
  BY <1>1, <1>3, EndsKept DEF AppendFails
<1>4. CASE AppendRecords(p) \/ FillMap(p)
  <2>1. Written(p) /\ cells' \in [Files -> Contents]
    BY <1>4, AppendRecordsType, FillMapType DEF AppendRecords, FillMap
  <2>2. owner' = owner /\ mine' = mine
    BY <2>1, WrittenType
  <2>3. CASE Ends(p)
    BY <1>1, <2>2, <2>3, EndsKept
  <2>4. CASE /\ items'[p] = Offsets(p) /\ at'[p] = 1
             /\ pc'[p] = IF items[p] = << >> THEN "begin" ELSE "exclusive"
    <3>1. OwnersKept(p) /\ mine'[p] # 0 /\ owner'[mine'[p]] = p
      BY <1>1, <2>2, InsideKept
    <3>2. /\ Len(items'[p]) = Len(items[p]) /\ DOMAIN items'[p] = DOMAIN items[p]
          /\ \A n \in DOMAIN items[p] : /\ items'[p][n].key = items[p][n].key /\ items'[p][n].tc = items[p][n].tc
                                        /\ items'[p][n].kind = items[p][n].kind
      BY <2>4, OffsetsFacts
    <3>3. items[p] # << >> => 1 \in 1..Len(items[p])
      <4>1. items[p] \in Transactions
        BY DEF TypeOK
      <4> QED BY <4>1, SequenceFacts
    <3>4. PlacedAt(p)'
      BY <2>4, <3>1, <3>2, <3>3 DEF PlacedAt
    <3>5. KeyedAt(p)'
      BY <1>1, <3>2 DEF Keyed, KeyedAt
    <3> QED BY <3>1, <3>4, <3>5 DEF Kept
  <2> QED BY <2>1, <2>3, <2>4, WrittenType
<1> QED BY <1>2, <1>3, <1>4

LEMMA LocksKept ==
  ASSUME TypeOK, Placed, Keyed, NEW p \in Procs, NEW k \in Keys, pc[p] \in {"exclusive", "insert"}, Locks(p, k)
  PROVE  Kept(p)
<1>1. pc[p] \in InStore /\ at[p] \in 1..Len(items[p]) /\ Len(items[p]) \in Nat
  BY ItemFacts DEF InStore, Committing, Placed, PlacedAt
<1>2. /\ at'[p] = at[p] + 1 /\ owner' = owner /\ mine' = mine /\ items' = items
      /\ pc'[p] = IF at[p] = Len(items[p]) THEN "begin" ELSE "exclusive"
  BY LocksType
<1>3. OwnersKept(p) /\ mine'[p] # 0 /\ owner'[mine'[p]] = p
  BY <1>1, <1>2, InsideKept
<1>4. pc'[p] = "exclusive" => at'[p] \in 1..Len(items'[p])
  BY <1>1, <1>2
<1>5. PlacedAt(p)'
  BY <1>2, <1>3, <1>4 DEF PlacedAt
<1>6. KeyedAt(p)'
  BY <1>2 DEF Keyed, KeyedAt
<1> QED BY <1>3, <1>5, <1>6 DEF Kept

LEMMA LockingKept ==
  ASSUME TypeOK, Placed, Keyed, NEW p \in Procs, LockExclusive(p) \/ Insert(p)
  PROVE  Kept(p)
<1>1. CASE Dies(p)
  BY <1>1, GoneKept DEF Dies
<1>2. pc[p] \in {"exclusive", "insert"} /\ pc[p] \in InStore
  BY DEF LockExclusive, Insert, InStore, Committing
<1>3. CASE \E k \in Keys : Locks(p, k)
  BY <1>2, <1>3, LocksKept
<1>4. at[p] \in DOMAIN items[p] /\ items[p][at[p]].key \in Keys
  BY LockExclusiveType, InsertType, ItemFacts
<1>5. CASE /\ pc'[p] = "insert" /\ items[p][at[p]].kind = "insertion"
           /\ UNCHANGED <<owner, mine, at, items>>
  <2>1. OwnersKept(p) /\ mine'[p] # 0 /\ owner'[mine'[p]] = p
    BY <1>2, <1>5, InsideKept
  <2>2. PlacedAt(p)'
    BY <1>4, <1>5, <2>1, ItemFacts DEF PlacedAt
  <2>3. KeyedAt(p)'
    BY <1>2, <1>5 DEF Keyed, KeyedAt
  <2> QED BY <2>1, <2>2, <2>3 DEF Kept
<1> QED BY <1>1, <1>3, <1>4, <1>5, LockExclusiveType, InsertType

LEMMA ApplyingKept ==
  ASSUME TypeOK, Placed, Keyed, LocksRight, Pending, NEW p \in Procs, Begin(p) \/ Apply(p) \/ Finish(p)
  PROVE  Kept(p)
<1>1. pc[p] \in {"begin", "apply"} /\ pc[p] \in InStore
  BY DEF Begin, Apply, Finish, InStore, Committing
<1>2. CASE Begin(p)
  <2>1. CASE Dies(p)
    BY <2>1, GoneKept DEF Dies
  <2>2. CASE Ends(p) /\ owner' = owner
    BY <1>1, <2>2, EndsKept
  <2>3. CASE pc'[p] = "apply" /\ at'[p] = 1 /\ UNCHANGED <<owner, mine, items>>
    <3>1. OwnersKept(p) /\ mine'[p] # 0 /\ owner'[mine'[p]] = p
      BY <1>1, <2>3, InsideKept
    <3>2. 1 \in 1..Len(items[p]) + 1
      BY ItemFacts
    <3>3. PlacedAt(p)'
      BY <2>3, <3>1, <3>2 DEF PlacedAt
    <3>4. KeyedAt(p)'
      BY <2>3 DEF Keyed, KeyedAt
    <3> QED BY <3>1, <3>3, <3>4 DEF Kept
  <2> QED BY <1>2, <2>1, <2>2, <2>3, BeginType
<1>3. CASE Apply(p)
  <2>1. /\ at'[p] = at[p] + 1 /\ UNCHANGED <<owner, pc, mine>>
        /\ Len(items'[p]) = Len(items[p]) /\ DOMAIN items'[p] = DOMAIN items[p] /\ at[p] \in DOMAIN items[p]
        /\ \A m \in DOMAIN items[p] : items'[p][m].key = items[p][m].key /\ items'[p][m].tc = items[p][m].tc
    BY <1>3, ApplyType
  <2>2. OwnersKept(p) /\ mine'[p] # 0 /\ owner'[mine'[p]] = p
    BY <1>1, <2>1, InsideKept
  <2>3. at'[p] \in 1..Len(items'[p]) + 1 /\ pc'[p] = "apply"
    <3>1. at[p] \in 1..Len(items[p]) /\ Len(items[p]) \in Nat
      BY <2>1, ItemFacts
    <3>2. at'[p] = at[p] + 1 /\ Len(items'[p]) = Len(items[p])
      BY <2>1
    <3>3. pc[p] = "apply" /\ pc' = pc
      BY <1>3, <2>1 DEF Apply
    <3> QED BY ONLY <3>1, <3>2, <3>3
  <2>4. PlacedAt(p)'
    BY <2>2, <2>3 DEF PlacedAt
  <2>5. KeyedAt(p)'
    BY <2>1, <2>3 DEF Keyed, KeyedAt
  <2> QED BY <2>2, <2>4, <2>5 DEF Kept
<1>4. CASE Finish(p)
  BY <1>1, <1>4, EndsKept DEF Finish, flocks
<1> QED BY <1>2, <1>3, <1>4

-----------------------------------------------------------------------------
(* Locks and what the index shows                                          *)

KeysLocked == \A p \in Procs : SharedBy(p) \subseteq Keys /\ Holding(p) \subseteq Keys

LEMMA LockedKeys == TypeOK /\ Placed => KeysLocked
<1> SUFFICES ASSUME TypeOK, Placed, NEW p \in Procs
             PROVE  SharedBy(p) \subseteq Keys /\ Holding(p) \subseteq Keys
  BY DEF KeysLocked
<1>1. PlacedAt(p) /\ at[p] \in Nat
  BY DEF Placed, TypeOK
<1>2. /\ Len(items[p]) \in Nat /\ DOMAIN items[p] = 1..Len(items[p])
      /\ \A n \in DOMAIN items[p] : items[p][n].key \in Keys
  BY ItemFacts
<1>3. \A m \in 1..Len(items[p]) + 1 : Sharing(p, m) \subseteq Keys
  <2> SUFFICES ASSUME NEW m \in 1..Len(items[p]) + 1, NEW j \in 1..m - 1 PROVE items[p][j].key \in Keys
    BY DEF Sharing
  <2>1. j \in 1..Len(items[p])
    BY <1>2
  <2> QED BY <1>2, <2>1
<1>4. SharedBy(p) \subseteq Keys
  <2>1. pc[p] = "read" => {at[p]} \subseteq Keys
    BY <1>1 DEF PlacedAt
  <2>2. pc[p] = "shared" => at[p] \in 1..Len(items[p]) + 1
    BY <1>1, <1>2 DEF PlacedAt
  <2>3. Len(items[p]) + 1 \in 1..Len(items[p]) + 1
    BY <1>2
  <2> QED BY <1>3, <2>1, <2>2, <2>3 DEF SharedBy
<1>5. Holding(p) \subseteq Keys
  <2>1. ASSUME pc[p] \in {"exclusive", "insert"}, NEW n \in 1..at[p] - 1 PROVE items[p][n].key \in Keys
    <3>1. n \in 1..Len(items[p])
      BY <1>1, <1>2, <2>1 DEF PlacedAt
    <3> QED BY <1>2, <3>1
  <2> QED BY <1>2, <2>1 DEF Holding, KeysOf
<1> QED BY <1>4, <1>5

LEMMA Others ==
  ASSUME NEW p \in Procs, Same(p), NEW q \in Procs \ {p}
  PROVE  SharedBy(q)' = SharedBy(q) /\ Holding(q)' = Holding(q)
<1>1. pc'[q] = pc[q] /\ at'[q] = at[q] /\ items'[q] = items[q]
  BY DEF Same
<1>2. \A n : Sharing(q, n)' = Sharing(q, n)
  BY <1>1 DEF Sharing
<1>3. SharedBy(q)' = SharedBy(q)
  BY <1>1, <1>2 DEF SharedBy, Sharing
<1>4. Holding(q)' = Holding(q)
  BY <1>1 DEF Holding, KeysOf
<1> QED BY <1>3, <1>4

\* Others are not disturbed by what happens to keys they do not hold.
LEMMA OthersPending ==
  ASSUME TypeOK, Pending, Rechecked, NEW p \in Procs, Same(p), NEW q \in Procs \ {p},
         \A k \in Holding(q) : index'[k] = index[k] /\ log'[k] = log[k]
  PROVE  PendingAt(q)' /\ RecheckedAt(q)'
<1>1. pc'[q] = pc[q] /\ at'[q] = at[q] /\ items'[q] = items[q] /\ mytx'[q] = mytx[q]
  BY DEF Same
<1>2. Holding(q)' = Holding(q)
  BY Others
<1>3. \A k \in Holding(q) : Shows(k)' = Shows(k) /\ Latest(k)' = Latest(k) /\ Top(k)' = Top(k)
  BY DEF Shows, Latest, Here, Top
<1>4. PendingAt(q) /\ RecheckedAt(q)
  BY DEF Pending, Rechecked
<1>5. pc[q] \in {"exclusive", "insert", "begin"} => \A k \in Holding(q) : Shows(k)' = Latest(k)'
  BY <1>3, <1>4 DEF PendingAt
<1>6. ASSUME pc[q] = "apply", NEW n \in DOMAIN items[q], items[q][n].kind # "erased" PROVE items[q][n].key \in Holding(q)
  BY <1>6 DEF Holding
<1>7. ASSUME pc[q] = "apply", NEW n \in DOMAIN items[q]
      PROVE  IF n < at[q] THEN items[q][n].kind # "erased" => Shows(items[q][n].key)' = Latest(items[q][n].key)'
             ELSE /\ items[q][n].kind # "erased"
                  /\ Latest(items[q][n].key)' = IF items[q][n].kind = "removal" THEN 0 ELSE mytx[q]
  <2>1. IF n < at[q] THEN items[q][n].kind # "erased" => Shows(items[q][n].key) = Latest(items[q][n].key)
        ELSE /\ items[q][n].kind # "erased"
             /\ Latest(items[q][n].key) = IF items[q][n].kind = "removal" THEN 0 ELSE mytx[q]
    BY <1>4, <1>7 DEF PendingAt
  <2>2. items[q][n].kind # "erased" => /\ Shows(items[q][n].key)' = Shows(items[q][n].key)
                                       /\ Latest(items[q][n].key)' = Latest(items[q][n].key)
    BY <1>1, <1>3, <1>6, <1>7
  <2> QED BY <2>1, <2>2
<1>8. PendingAt(q)'
  BY <1>1, <1>2, <1>5, <1>7 DEF PendingAt
<1>9. ASSUME NEW n \in DOMAIN items[q], pc[q] = "begin" \/ (pc[q] \in {"exclusive", "insert"} /\ n < at[q])
      PROVE  items[q][n].key \in Holding(q)
  <2>1. n \in Nat /\ 1 <= n /\ at[q] \in Nat
    <3>1. DOMAIN items[q] = 1..Len(items[q]) /\ Len(items[q]) \in Nat
      BY ItemFacts
    <3> QED BY <3>1 DEF TypeOK
  <2>2. pc[q] \in {"exclusive", "insert"} => n \in 1..at[q] - 1
    BY <1>9, <2>1
  <2> QED BY <1>9, <2>2 DEF Holding, KeysOf
<1>10. RecheckedAt(q)'
  BY <1>1, <1>3, <1>4, <1>9 DEF RecheckedAt
<1> QED BY <1>8, <1>10

LEMMA SharersFacts ==
  ASSUME NEW k
  PROVE  /\ IsFiniteSet(Sharers(k)) /\ Cardinality(Sharers(k)) \in Nat
         /\ Cardinality(Sharers(k)) = 0 <=> Sharers(k) = {}
<1>1. Sharers(k) \subseteq Procs /\ IsFiniteSet(Procs)
  BY KeyValueStoreAssumption DEF Sharers
<1>2. IsFiniteSet(Sharers(k))
  BY <1>1, FS_Subset
<1> QED BY <1>2, FS_CardinalityType, FS_EmptySet

\* How the number of sharers of a key moves when p's own locks do.
LEMMA SharersMove ==
  ASSUME NEW p \in Procs, Same(p), NEW k
  PROVE  /\ Sharers(k)' \subseteq Sharers(k) \cup {p}
         /\ IsFiniteSet(Sharers(k)') /\ Cardinality(Sharers(k)') \in Nat
         /\ (Cardinality(Sharers(k)') = 0) <=> (Sharers(k)' = {})
         /\ Cardinality(Sharers(k)') <= Cardinality(Sharers(k)) + 1
         /\ (k \in SharedBy(p)' => k \in SharedBy(p)) =>
              /\ Cardinality(Sharers(k)') <= Cardinality(Sharers(k)) /\ Sharers(k)' \subseteq Sharers(k)
         /\ k \in SharedBy(p) /\ k \notin SharedBy(p)' =>
              Cardinality(Sharers(k)') = Cardinality(Sharers(k)) - 1 /\ p \in Sharers(k)
<1> DEFINE S == Sharers(k)
           T == Sharers(k)'
<1>1. \A q \in Procs \ {p} : SharedBy(q)' = SharedBy(q)
  BY Others
<1>2. S = {q \in Procs : k \in SharedBy(q)} /\ T = {q \in Procs : k \in SharedBy(q)'}
  BY DEF Sharers
<1>3. T \subseteq S \cup {p}
  BY <1>1, <1>2
<1>4. (k \in SharedBy(p)' => k \in SharedBy(p)) => T \subseteq S
  BY <1>1, <1>2
<1>5. k \in SharedBy(p) /\ k \notin SharedBy(p)' => p \in S /\ T = S \ {p}
  BY <1>1, <1>2
<1>6. IsFiniteSet(S) /\ Cardinality(S) \in Nat
  BY SharersFacts
<1> HIDE DEF S, T
<1>7. IsFiniteSet(S \cup {p}) /\ Cardinality(S \cup {p}) <= Cardinality(S) + 1 /\ Cardinality(S \cup {p}) \in Nat
  <2>1. /\ IsFiniteSet(S \cup {p})
        /\ Cardinality(S \cup {p}) = IF p \in S THEN Cardinality(S) ELSE Cardinality(S) + 1
    BY <1>6, FS_AddElement
  <2> QED BY <1>6, <2>1
<1>8. IsFiniteSet(T) /\ Cardinality(T) <= Cardinality(S \cup {p})
  BY <1>3, <1>7, FS_Subset
<1>9. Cardinality(T) \in Nat /\ (Cardinality(T) = 0 <=> T = {})
  BY <1>8, FS_CardinalityType, FS_EmptySet
<1>10. T \subseteq S => Cardinality(T) <= Cardinality(S)
  BY <1>6, FS_Subset
<1>11. p \in S => Cardinality(S \ {p}) = Cardinality(S) - 1
  BY <1>6, FS_RemoveElement
<1>12. Cardinality(T) <= Cardinality(S) + 1
  BY <1>6, <1>7, <1>8, <1>9
<1> QED BY <1>3, <1>4, <1>5, <1>8, <1>9, <1>10, <1>11, <1>12 DEF S, T

\* A step that locks or releases shared locks only, if any.
SharesOnly(p) ==
  \A k \in Keys :
    \/ locked'[k] = locked[k] /\ (k \in SharedBy(p)' => k \in SharedBy(p))
    \/ locked'[k] = locked[k] + 1 /\ locked[k] >= 0 /\ Here(k)
    \/ locked'[k] = locked[k] - 1 /\ k \in SharedBy(p) /\ k \notin SharedBy(p)'

LEMMA SharedStep ==
  ASSUME SInv, TypeOK', Placed', NEW p \in Procs, Same(p), index' = index, log' = log,
         Holding(p)' = {}, pc'[p] # "apply", SharesOnly(p)
  PROVE  LInv'
<1> USE DEF SInv, LInv
<1>1. \A q \in Procs \ {p} : SharedBy(q)' = SharedBy(q) /\ Holding(q)' = Holding(q)
  BY Others
<1>2. \A k : Here(k)' <=> Here(k)
  BY DEF Here
<1>3. SharedBy(p)' \subseteq Keys /\ \A q \in Procs : SharedBy(q) \subseteq Keys /\ Holding(q) \subseteq Keys
  <2>1. (TypeOK /\ Placed => KeysLocked)'
    BY LockedKeys, PTL
  <2> QED BY <2>1, LockedKeys DEF KeysLocked
<1>4. ASSUME NEW k \in Keys
      PROVE  /\ (locked'[k] = -1 /\ Sharers(k)' = {}) \/ locked'[k] >= Cardinality(Sharers(k)')
             /\ locked'[k] >= 0 => locked[k] >= 0
             /\ locked[k] = -1 => locked'[k] = -1
             /\ ~Here(k) => locked'[k] = 0
             /\ k \in SharedBy(p)' => Here(k)
  <2> DEFINE l == locked[k]
             m == locked'[k]
             c == Cardinality(Sharers(k))
             d == Cardinality(Sharers(k)')
  <2>1. l \in Int /\ m \in Int
    BY DEF TypeOK
  <2>2. c \in Nat /\ (c = 0 <=> Sharers(k) = {})
    BY SharersFacts
  <2>3. /\ d \in Nat /\ d <= c + 1
        /\ (k \in SharedBy(p)' => k \in SharedBy(p)) => d <= c /\ Sharers(k)' \subseteq Sharers(k)
        /\ k \in SharedBy(p) /\ k \notin SharedBy(p)' => d = c - 1 /\ p \in Sharers(k)
    BY SharersMove
  <2>4. (l = -1 /\ Sharers(k) = {}) \/ l >= c
    BY DEF LocksRight
  <2>5. ~Here(k) => l = 0
    BY DEF LocksRight
  <2>6. \A q \in Procs : k \in SharedBy(q) => Here(k)
    BY DEF LocksRight
  <2>7. \/ m = l /\ (k \in SharedBy(p)' => k \in SharedBy(p))
        \/ m = l + 1 /\ l >= 0 /\ Here(k)
        \/ m = l - 1 /\ k \in SharedBy(p) /\ k \notin SharedBy(p)'
    BY DEF SharesOnly
  <2> HIDE DEF l, m, c, d
  <2>8. CASE m = l /\ (k \in SharedBy(p)' => k \in SharedBy(p))
    <3>1. (m = -1 /\ Sharers(k)' = {}) \/ m >= d
      BY <2>1, <2>2, <2>3, <2>4, <2>8
    <3> QED BY <2>1, <2>5, <2>6, <2>8, <3>1 DEF l, m, d
  <2>9. CASE m = l + 1 /\ l >= 0 /\ Here(k)
    <3>1. m >= d /\ l # -1
      BY <2>1, <2>2, <2>3, <2>4, <2>9
    <3> QED BY <2>1, <2>9, <3>1 DEF l, m, d
  <2>10. CASE m = l - 1 /\ k \in SharedBy(p) /\ k \notin SharedBy(p)'
    <3>1. l >= c /\ p \in Sharers(k) /\ d = c - 1
      BY <2>3, <2>4, <2>10
    <3>2. m >= d /\ l >= 0 /\ l # -1
      BY <2>1, <2>2, <2>3, <2>10, <3>1
    <3> QED BY <2>1, <2>6, <2>10, <3>2 DEF l, m, d
  <2> QED BY <2>7, <2>8, <2>9, <2>10
<1>5. LocksRight'
  <2>1. \A k \in Keys : \/ locked'[k] = -1 /\ Sharers(k)' = {}
                        \/ locked'[k] >= Cardinality(Sharers(k)')
    BY <1>4
  <2>2. \A k \in Keys : ~Here(k)' => locked'[k] = 0
    BY <1>2, <1>4
  <2>3. \A q \in Procs : \A k \in Holding(q)' : locked'[k] = -1
    BY <1>1, <1>3, <1>4 DEF LocksRight
  <2>4. \A q, r \in Procs : q # r => Holding(q)' \cap Holding(r)' = {}
    BY <1>1 DEF LocksRight
  <2>5. \A q \in Procs : \A k \in SharedBy(q)' \cup Holding(q)' : Here(k)'
    BY <1>1, <1>2, <1>3, <1>4 DEF LocksRight
  <2> QED BY <2>1, <2>2, <2>3, <2>4, <2>5 DEF LocksRight
<1>6. PendingAt(p)'
  BY DEF PendingAt
<1>7. RecheckedAt(p)'
  <2>1. /\ Len(items'[p]) \in Nat /\ DOMAIN items'[p] = 1..Len(items'[p]) /\ at'[p] \in Nat
    <3>1. items'[p] \in Transactions /\ at'[p] \in Nat
      BY DEF TypeOK
    <3> QED BY <3>1, SequenceFacts
  <2>2. ASSUME NEW n \in DOMAIN items'[p], pc'[p] = "begin" \/ (pc'[p] \in {"exclusive", "insert"} /\ n < at'[p])
        PROVE  FALSE
    <3>1. pc'[p] \in {"exclusive", "insert"} => n \in 1..at'[p] - 1
      BY <2>1, <2>2
    <3>2. items'[p][n].key \in Holding(p)'
      BY <2>2, <3>1 DEF Holding, KeysOf
    <3> QED BY <3>2
  <2> QED BY <2>2 DEF RecheckedAt
<1>8. \A q \in Procs \ {p} : PendingAt(q)' /\ RecheckedAt(q)'
  BY OthersPending
<1>9. Pending' /\ Rechecked'
  BY <1>6, <1>7, <1>8 DEF Pending, Rechecked
<1>10. Serialised'
  <2>1. \A k : Top(k)' = Top(k) /\ Latest(k)' = Latest(k)
    BY DEF Top, Latest
  <2> QED BY <1>2, <1>4, <2>1 DEF Serialised
<1>11. UpdatesBased'
  BY DEF UpdatesBased
<1> QED BY <1>5, <1>9, <1>10, <1>11

\* p has no lock after the step, and did not release one.
LEMMA FreeStep ==
  ASSUME SInv, TypeOK', Placed', NEW p \in Procs, Same(p), index' = index, log' = log, locked' = locked,
         pc'[p] \notin Committing \cup {"read"}
  PROVE  LInv'
<1>1. SharedBy(p)' = {} /\ Holding(p)' = {} /\ pc'[p] # "apply"
  BY DEF SharedBy, Holding, Committing
<1>2. SharesOnly(p)
  BY <1>1 DEF SharesOnly
<1> QED BY <1>1, <1>2, SharedStep

LEMMA GoneStep ==
  ASSUME SInv, TypeOK', Placed', NEW p \in Procs, Gone(p), index' = index, log' = log, locked' = locked
  PROVE  LInv'
<1>1. Same(p) /\ pc'[p] = "closed"
  BY GoneType DEF SInv
<1> QED BY <1>1, FreeStep DEF Committing

LEMMA ConstructorLocks ==
  ASSUME SInv, TypeOK', Placed', NEW p \in Procs, Constructor(p)
  PROVE  LInv'
<1> USE DEF shared, flocks, local, hist
<1>1. index' = index /\ log' = log /\ locked' = locked
  BY DEF Constructor, Open, FirstEntrant, WriteHeader, ShareIndex, Scan, Create, Truncate, Retry, Opened, UseMmaps
<1>2. Same(p)
  BY ConstructorType DEF SInv
<1>3. CASE Gone(p)
  BY <1>1, <1>3, GoneStep
<1>4. CASE ~Gone(p)
  <2> DEFINE L == {"first", "header", "share", "scan", "create", "truncate", "retry", "opened", "mmaps", "ready",
                   "closed"}
  <2>1. \E l \in L : Goto(p, l)
    <3>1. CASE Open(p) \/ FirstEntrant(p) \/ WriteHeader(p) \/ ShareIndex(p)
      BY <3>1 DEF Open, FirstEntrant, WriteHeader, ShareIndex
    <3>2. CASE Scan(p) \/ Create(p) \/ Truncate(p) \/ Retry(p)
      BY <3>2 DEF Scan, Create, Truncate, Retry, Claim
    <3>3. CASE Opened(p) \/ UseMmaps(p)
      BY <1>4, <3>3 DEF Opened, UseMmaps
    <3> QED BY <3>1, <3>2, <3>3 DEF Constructor
  <2>2. L \subseteq Labels
    BY DEF Labels, Opening
  <2>3. pc'[p] \in L
    BY <2>1, <2>2, GotoType DEF SInv
  <2>4. pc'[p] \notin Committing \cup {"read"}
    BY <2>3 DEF Committing
  <2> QED BY <1>1, <1>2, <2>4, FreeStep
<1> QED BY <1>3, <1>4

LEMMA CloseLocks ==
  ASSUME SInv, TypeOK', Placed', NEW p \in Procs, Close(p) \/ CloseIndex(p) \/ Closed(p)
  PROVE  LInv'
<1> USE DEF shared, flocks, local, hist
<1>1. index' = index /\ log' = log /\ locked' = locked
  BY DEF Close, CloseIndex, Closed
<1>2. Same(p)
  BY CloseType DEF SInv
<1>3. pc'[p] \in {"closing", "hash", "closed"}
  <2>1. CASE Close(p) \/ CloseIndex(p)
    BY <2>1, GotoType DEF Close, CloseIndex, Labels, SInv
  <2>2. CASE Closed(p)
    BY <2>2, GoneType DEF Closed, SInv
  <2> QED BY <2>1, <2>2
<1>4. pc'[p] \notin Committing \cup {"read"}
  BY <1>3 DEF Committing
<1> QED BY <1>1, <1>2, <1>4, FreeStep

LEMMA EndsStep ==
  ASSUME SInv, TypeOK', Placed', NEW p \in Procs, Ends(p), index' = index, log' = log, locked' = locked
  PROVE  LInv'
<1>1. Same(p) /\ pc'[p] = "ready"
  BY EndsType DEF SInv
<1> QED BY <1>1, FreeStep DEF Committing

\* find() takes a shared lock on an entry that is there.
LEMMA StagingLocks ==
  ASSUME SInv, TypeOK', Placed', NEW p \in Procs, NEW c \in Calls[p],
         Fetch(p, c.key) \/ Stage(p, c) \/ StageUnsafe(p, c)
  PROVE  LInv'
<1> USE DEF shared, flocks, hist
<1>1. index' = index /\ log' = log /\ pc[p] = "ready" /\ c.key \in Keys
  BY CallFacts DEF Fetch, Stage, StageUnsafe
<1>2. Same(p)
  BY <1>1, FetchType, StageType, StageUnsafeType DEF SInv
<1>3. CASE locked' = locked /\ Ends(p)
  BY <1>1, <1>3, EndsStep
<1>4. CASE locked' = locked /\ pc' = pc
  BY <1>1, <1>2, <1>4, FreeStep DEF Committing
<1>5. CASE /\ Here(c.key) /\ locked[c.key] >= 0 /\ locked' = [locked EXCEPT ![c.key] = @ + 1]
           /\ Goto(p, "read") /\ at' = [at EXCEPT ![p] = c.key]
  <2>1. pc'[p] = "read" /\ at'[p] = c.key
    BY <1>5, GotoType DEF Labels, TypeOK, SInv
  <2>2. SharedBy(p)' = {c.key} /\ Holding(p)' = {}
    BY <2>1 DEF SharedBy, Holding
  <2>3. SharesOnly(p)
    BY <1>1, <1>5, <2>2 DEF SharesOnly, TypeOK, SInv
  <2> QED BY <1>1, <1>2, <2>1, <2>2, <2>3, SharedStep
<1> QED BY <1>3, <1>4, <1>5 DEF Fetch, Stage, StageUnsafe

LEMMA ReadLocks ==
  ASSUME SInv, TypeOK', Placed', NEW p \in Procs, Read(p)
  PROVE  LInv'
<1> USE DEF SInv, LInv
<1>1. Same(p) /\ at[p] \in Keys /\ pc[p] = "read" /\ index' = index
  BY ReadType DEF Read
<1>2. CASE Dies(p) /\ locked' = locked
  BY <1>1, <1>2, GoneStep DEF Dies
<1>3. CASE locked' = [locked EXCEPT ![at[p]] = @ - 1] /\ log' = log /\ pc'[p] = "ready"
  <2>1. SharedBy(p) = {at[p]} /\ SharedBy(p)' = {} /\ Holding(p)' = {}
    BY <1>1, <1>3 DEF SharedBy, Holding
  <2>2. SharesOnly(p)
    BY <1>1, <1>3, <2>1 DEF SharesOnly, TypeOK
  <2> QED BY <1>1, <1>3, <2>1, <2>2, SharedStep
<1> QED BY <1>2, <1>3, ReadType, EndsType

LEMMA CommitLocks ==
  ASSUME SInv, TypeOK', Placed', NEW p \in Procs, Commit(p)
  PROVE  LInv'
<1> USE DEF shared, hist
<1>1. index' = index /\ log' = log /\ locked' = locked
  BY DEF Commit
<1>2. Same(p)
  BY CommitType DEF SInv
<1>3. CASE Ends(p)
  BY <1>1, <1>3, EndsStep
<1>4. CASE \E s \in Sorted({i \in Range(items[p]) : Staged(i)}) :
             /\ items'[p] = s /\ at'[p] = 1 /\ pc'[p] = IF s = << >> THEN "count" ELSE "shared"
  <2>1. at'[p] = 1 /\ pc'[p] = IF items'[p] = << >> THEN "count" ELSE "shared"
    BY <1>4
  <2>2. \A n \in Int : n = 1 => 1..n - 1 = {}
    OBVIOUS
  <2>3. Sharing(p, 1)' = {}
    BY <2>2 DEF Sharing
  <2>4. items'[p] = << >> => Len(items'[p]) + 1 = 1
    OBVIOUS
  <2>5. SharedBy(p)' = {} /\ Holding(p)' = {} /\ pc'[p] # "apply"
    BY <2>1, <2>3, <2>4 DEF SharedBy, Holding, Sharing
  <2>6. SharesOnly(p)
    BY <1>1, <2>5 DEF SharesOnly
  <2> QED BY <1>1, <1>2, <2>5, <2>6, SharedStep
<1> QED BY <1>3, <1>4, CommitType DEF SInv

\* All shared locks p has are released.
LEMMA ReleaseStep ==
  ASSUME SInv, TypeOK', Placed', NEW p \in Procs, Same(p), index' = index, log' = log,
         locked' = Unshared(SharedBy(p)), SharedBy(p)' = {}, Holding(p)' = {}, pc'[p] # "apply"
  PROVE  LInv'
<1>1. SharesOnly(p)
  BY DEF SharesOnly, Unshared
<1> QED BY <1>1, SharedStep

LEMMA LockSharedLocks ==
  ASSUME SInv, TypeOK', Placed', NEW p \in Procs, LockShared(p)
  PROVE  LInv'
<1> DEFINE n == at[p]
           k == items[p][n].key
<1>1. Same(p) /\ n \in DOMAIN items[p] /\ index' = index /\ log' = log /\ pc[p] = "shared"
  BY LockSharedType DEF LockShared, SInv
<1>2. SharedBy(p) = Sharing(p, n)
  BY <1>1 DEF SharedBy
<1>3. CASE locked' = Unshared(Sharing(p, n)) /\ Ends(p)
  <2>1. pc'[p] = "ready"
    BY <1>3, EndsType DEF SInv
  <2>2. SharedBy(p)' = {} /\ Holding(p)' = {} /\ pc'[p] # "apply"
    BY <2>1 DEF SharedBy, Holding
  <2> QED BY <1>1, <1>2, <1>3, <2>2, ReleaseStep
<1>4. CASE ~(locked' = Unshared(Sharing(p, n)) /\ Ends(p))
  <2>1. /\ at'[p] = n + 1 /\ pc'[p] = IF n = Len(items[p]) THEN "count" ELSE "shared"
        /\ Len(items'[p]) = Len(items[p]) /\ DOMAIN items'[p] = DOMAIN items[p]
        /\ \A m \in DOMAIN items[p] : /\ items'[p][m].key = items[p][m].key
                                      /\ m # n => items'[p][m].kind = items[p][m].kind
        /\ \/ items'[p][n].kind = "insertion" /\ locked' = locked
           \/ /\ Here(k) /\ locked[k] >= 0 /\ locked' = [locked EXCEPT ![k] = @ + 1]
    BY <1>4, LockSharedType DEF SInv
  <2>2. Len(items[p]) \in Nat /\ DOMAIN items[p] = 1..Len(items[p]) /\ n \in Nat
    BY ItemFacts DEF SInv, TypeOK
  <2>3. SharedBy(p)' = {items'[p][j].key : j \in {j \in 1..n + 1 - 1 : items'[p][j].kind # "insertion"}}
    BY <2>1, <2>2 DEF SharedBy, Sharing
  <2>4. Holding(p)' = {} /\ pc'[p] # "apply"
    BY <2>1 DEF Holding
  <2>5. ASSUME NEW x \in SharedBy(p)'
        PROVE  x \in SharedBy(p) \/ (x = k /\ items'[p][n].kind # "insertion")
    <3>1. PICK j \in 1..n + 1 - 1 : x = items'[p][j].key /\ items'[p][j].kind # "insertion"
      BY <2>3, <2>5
    <3>2. j \in DOMAIN items[p] /\ (j = n \/ j \in 1..n - 1)
      BY <1>1, <2>2
    <3>3. CASE j = n
      BY <2>1, <3>1, <3>2, <3>3
    <3>4. CASE j # n
      <4>1. x = items[p][j].key /\ items[p][j].kind # "insertion" /\ j \in 1..n - 1
        BY <2>1, <3>1, <3>2, <3>4
      <4>2. x \in Sharing(p, n)
        BY <4>1 DEF Sharing
      <4> QED BY <1>2, <4>2
    <3> QED BY <3>3, <3>4
  <2>6. k \in Keys
    BY <1>1, ItemFacts DEF SInv
  <2> HIDE DEF k, n
  <2>7. SharesOnly(p)
    <3>1. CASE items'[p][n].kind = "insertion" /\ locked' = locked
      BY <2>5, <3>1 DEF SharesOnly
    <3>2. CASE Here(k) /\ locked[k] >= 0 /\ locked' = [locked EXCEPT ![k] = @ + 1]
      <4>1. locked'[k] = locked[k] + 1 /\ \A j \in Keys \ {k} : locked'[j] = locked[j]
        BY <2>6, <3>2 DEF SInv, TypeOK
      <4> QED BY <2>5, <3>2, <4>1 DEF SharesOnly
    <3> QED BY <2>1, <3>1, <3>2
  <2> QED BY <1>1, <2>4, <2>7, SharedStep
<1> QED BY <1>3, <1>4

LEMMA WritingLocks ==
  ASSUME SInv, TypeOK', Placed', NEW p \in Procs,
         Count(p) \/ AppendRecords(p) \/ AppendFails(p) \/ ExtendMap(p) \/ FillMap(p)
  PROVE  LInv'
<1> USE DEF shared, flocks, local, hist
<1>1. pc[p] \in {"count", "append", "fill"} /\ SharedBy(p) = Sharing(p, Len(items[p]) + 1)
  BY DEF Count, AppendRecords, AppendFails, ExtendMap, FillMap, SharedBy
<1>2. CASE Count(p) \/ ExtendMap(p)
  <2>1. Same(p) /\ pc'[p] \in {"append", "fill"}
    BY <1>2, CountType, ExtendMapType DEF SInv
  <2>2. index' = index /\ log' = log /\ locked' = locked /\ items' = items
    BY <1>2 DEF Count, ExtendMap
  <2>3. SharedBy(p)' = SharedBy(p) /\ Holding(p)' = {} /\ pc'[p] # "apply"
    BY <1>1, <2>1, <2>2 DEF SharedBy, Holding, Sharing
  <2>4. SharesOnly(p)
    BY <2>2, <2>3 DEF SharesOnly
  <2> QED BY <2>1, <2>2, <2>3, <2>4, SharedStep
<1>3. CASE AppendFails(p)
  <2>1. Same(p) /\ pc'[p] = "ready"
    BY <1>3, EndsType DEF AppendFails, SInv
  <2>2. index' = index /\ log' = log /\ locked' = Unshared(SharedBy(p))
    BY <1>1, <1>3 DEF AppendFails
  <2>3. SharedBy(p)' = {} /\ Holding(p)' = {} /\ pc'[p] # "apply"
    BY <2>1 DEF SharedBy, Holding
  <2> QED BY <2>1, <2>2, <2>3, ReleaseStep
<1>4. CASE AppendRecords(p) \/ FillMap(p)
  <2>1. Written(p) /\ cells' \in [Files -> Contents]
    BY <1>4, AppendRecordsType, FillMapType DEF AppendRecords, FillMap, SInv
  <2>2. Same(p) /\ index' = index /\ log' = log /\ locked' = Unshared(SharedBy(p))
    BY <1>1, <2>1, WrittenType DEF SInv
  <2>3. SharedBy(p)' = {} /\ Holding(p)' = {} /\ pc'[p] # "apply"
    <3>1. CASE Ends(p)
      <4>1. pc'[p] = "ready"
        BY <3>1, EndsType DEF SInv
      <4> QED BY <4>1 DEF SharedBy, Holding
    <3>2. CASE /\ items'[p] = Offsets(p) /\ at'[p] = 1
               /\ pc'[p] = IF items[p] = << >> THEN "begin" ELSE "exclusive"
      <4>1. DOMAIN items'[p] = DOMAIN items[p]
        BY <3>2, OffsetsFacts DEF SInv
      <4>2. items[p] = << >> => DOMAIN items[p] = {}
        OBVIOUS
      <4>3. \A n \in Int : n = 1 => 1..n - 1 = {}
        OBVIOUS
      <4> QED BY <3>2, <4>1, <4>2, <4>3 DEF SharedBy, Holding, KeysOf
    <3> QED BY <2>1, <3>1, <3>2, WrittenType DEF SInv
  <2> QED BY <2>2, <2>3, ReleaseStep
<1> QED BY <1>2, <1>3, <1>4

\* One more key is locked exclusively.
LEMMA LocksStep ==
  ASSUME SInv, TypeOK', Placed', NEW p \in Procs, NEW k \in Keys, pc[p] \in {"exclusive", "insert"},
         k = items[p][at[p]].key, Locks(p, k), locked[k] = 0,
         Here(k)', \A j \in Keys \ {k} : index'[j] = index[j], Shows(k)' = Shows(k),
         items[p][at[p]].kind = "update" => Top(k)' = items[p][at[p]].tc
  PROVE  LInv'
<1> USE DEF SInv, LInv
<1>1. /\ Same(p) /\ at'[p] = at[p] + 1 /\ items' = items /\ log' = log
      /\ pc'[p] = IF at[p] = Len(items[p]) THEN "begin" ELSE "exclusive"
      /\ locked' = [locked EXCEPT ![k] = -1]
  BY LocksType
<1>2. \A q \in Procs \ {p} : SharedBy(q)' = SharedBy(q) /\ Holding(q)' = Holding(q)
  BY <1>1, Others
<1>3. SharedBy(p) = {} /\ SharedBy(p)' = {}
  BY <1>1 DEF SharedBy
<1>4. at[p] \in 1..Len(items[p]) /\ Len(items[p]) \in Nat /\ DOMAIN items[p] = 1..Len(items[p])
  BY ItemFacts DEF Placed, PlacedAt
<1>5. Holding(p)' = Holding(p) \cup {k}
  <2>1. 1..at[p] = (1..at[p] - 1) \cup {at[p]}
    BY <1>4
  <2>2. Holding(p) = {items[p][n].key : n \in 1..at[p] - 1}
    BY DEF Holding
  <2>3. Holding(p)' = {items[p][n].key : n \in 1..at[p]}
    <3>1. at'[p] - 1 = at[p]
      BY <1>1, <1>4
    <3>2. CASE at[p] = Len(items[p])
      BY <1>1, <1>4, <3>2 DEF Holding, KeysOf
    <3>3. CASE at[p] # Len(items[p])
      BY <1>1, <3>1, <3>3 DEF Holding
    <3> QED BY <3>2, <3>3
  <2> QED BY <2>1, <2>2, <2>3
<1>6. Sharers(k) = {} /\ \A j : Sharers(j)' = Sharers(j)
  <2>1. Sharers(k) = {}
    BY SharersFacts DEF LocksRight
  <2>2. \A j : Sharers(j)' = Sharers(j)
    BY <1>2, <1>3 DEF Sharers
  <2> QED BY <2>1, <2>2
<1>7. \A q \in Procs : SharedBy(q) \subseteq Keys /\ Holding(q) \subseteq Keys
  BY LockedKeys DEF KeysLocked
<1>8. \A q \in Procs : k \notin Holding(q)
  BY DEF LocksRight
<1>9. locked'[k] = -1 /\ \A j \in Keys \ {k} : locked'[j] = locked[j]
  BY <1>1 DEF TypeOK
<1>10. \A j \in Keys \ {k} : /\ Here(j)' <=> Here(j)
                             /\ Shows(j)' = Shows(j) /\ Top(j)' = Top(j)
  BY DEF Here, Shows, Top
<1>11. \A j : Latest(j)' = Latest(j)
  BY <1>1 DEF Latest
<1>12. LocksRight'
  <2>1. \A j \in Keys : \/ locked'[j] = -1 /\ Sharers(j)' = {}
                        \/ locked'[j] >= Cardinality(Sharers(j)')
    BY <1>6, <1>9 DEF LocksRight
  <2>2. \A j \in Keys : ~Here(j)' => locked'[j] = 0
    BY <1>9, <1>10 DEF LocksRight
  <2>3. \A q \in Procs : \A j \in Holding(q)' : locked'[j] = -1
    BY <1>2, <1>5, <1>7, <1>8, <1>9 DEF LocksRight
  <2>4. \A q, r \in Procs : q # r => Holding(q)' \cap Holding(r)' = {}
    BY <1>2, <1>5, <1>8 DEF LocksRight
  <2>5. \A q \in Procs : \A j \in SharedBy(q)' \cup Holding(q)' : Here(j)'
    BY <1>2, <1>3, <1>5, <1>7, <1>10 DEF LocksRight
  <2> QED BY <2>1, <2>2, <2>3, <2>4, <2>5 DEF LocksRight
<1>13. Serialised'
  BY <1>9, <1>10, <1>11 DEF Serialised, Shows
<1>14. UpdatesBased'
  BY <1>1 DEF UpdatesBased
<1>15. \A q \in Procs \ {p} : PendingAt(q)' /\ RecheckedAt(q)'
  <2>1. \A q \in Procs \ {p} : \A j \in Holding(q) : index'[j] = index[j] /\ log'[j] = log[j]
    BY <1>1, <1>7, <1>8
  <2> QED BY <1>1, <2>1, OthersPending
<1>16. PendingAt(p)'
  <2>1. \A j \in Holding(p) : Shows(j) = Latest(j)
    BY DEF Pending, PendingAt
  <2>2. Shows(k) = Latest(k)
    BY DEF Serialised, Shows
  <2>3. \A j \in Holding(p)' : Shows(j)' = Latest(j)'
    BY <1>5, <1>7, <1>10, <1>11, <2>1, <2>2
  <2> QED BY <1>1, <2>3 DEF PendingAt
<1>17. RecheckedAt(p)'
  <2> SUFFICES ASSUME NEW n \in DOMAIN items[p], items[p][n].kind = "update", pc'[p] = "begin" \/ n < at'[p]
               PROVE  \A j : j = items[p][n].key => Top(j)' = items[p][n].tc
    BY <1>1 DEF RecheckedAt, Top
  <2>1. n = at[p] \/ n < at[p]
    BY <1>1, <1>4
  <2>2. CASE n = at[p]
    BY <2>2
  <2>3. CASE n < at[p]
    <3>1. Top(items[p][n].key) = items[p][n].tc
      BY <2>3 DEF Rechecked, RecheckedAt
    <3>2. n \in 1..at[p] - 1
      BY <1>4, <2>3
    <3>3. items[p][n].key \in Holding(p)
      BY <3>2 DEF Holding
    <3>4. items[p][n].key \in Keys \ {k}
      BY <1>7, <1>8, <3>3
    <3> QED BY <1>10, <3>1, <3>4
  <2> QED BY <2>1, <2>2, <2>3
<1>18. Pending' /\ Rechecked'
  BY <1>15, <1>16, <1>17 DEF Pending, Rechecked
<1> QED BY <1>12, <1>13, <1>14, <1>18

LEMMA LockingLocks ==
  ASSUME SInv, TypeOK', Placed', NEW p \in Procs, LockExclusive(p) \/ Insert(p)
  PROVE  LInv'
<1> DEFINE k == items[p][at[p]].key
<1>1. pc[p] \in {"exclusive", "insert"} /\ Same(p) /\ at[p] \in DOMAIN items[p] /\ k \in Keys
  <2>1. pc[p] \in {"exclusive", "insert"}
    BY DEF LockExclusive, Insert
  <2>2. Same(p) /\ at[p] \in DOMAIN items[p]
    BY LockExclusiveType, InsertType DEF SInv
  <2> QED BY <2>1, <2>2, ItemFacts DEF SInv
<1>2. CASE Dies(p) /\ index' = index /\ locked' = locked
  BY <1>2, GoneStep DEF Dies
<1>3. CASE LockExclusive(p) /\ ~Dies(p)
  <2>1. index' = index
    BY <1>3, LockExclusiveType DEF SInv
  <2>2. CASE Here(k) /\ locked[k] = 0 /\ ~Changed(items[p][at[p]]) /\ Locks(p, k)
    <3>1. items[p][at[p]].kind = "update" => Top(k) = items[p][at[p]].tc
      BY <2>2 DEF Changed
    <3> HIDE DEF k
    <3>2. \A x : (Here(x)' <=> Here(x)) /\ Top(x)' = Top(x) /\ Shows(x)' = Shows(x)
      BY <2>1 DEF Here, Top, Shows
    <3> DEFINE x == k
    <3>3. x \in Keys /\ x = items[p][at[p]].key /\ Locks(p, x) /\ locked[x] = 0 /\ Here(x)
          /\ (items[p][at[p]].kind = "update" => Top(x) = items[p][at[p]].tc)
      BY <1>1, <2>2, <3>1 DEF k
    <3>4. \A y \in Keys : /\ y = items[p][at[p]].key /\ Locks(p, y) /\ locked[y] = 0 /\ Here(y)
                          /\ (items[p][at[p]].kind = "update" => Top(y) = items[p][at[p]].tc)
                          => LInv'
      <4> SUFFICES ASSUME NEW y \in Keys, y = items[p][at[p]].key, Locks(p, y), locked[y] = 0, Here(y),
                          items[p][at[p]].kind = "update" => Top(y) = items[p][at[p]].tc
                   PROVE  LInv'
        OBVIOUS
      <4>1. /\ Here(y)' /\ Shows(y)' = Shows(y) /\ \A j \in Keys \ {y} : index'[j] = index[j]
            /\ items[p][at[p]].kind = "update" => Top(y)' = items[p][at[p]].tc
        BY <2>1, <3>2
      <4> QED BY <1>1, <4>1, LocksStep
    <3> QED BY <3>3, <3>4
  <2>3. CASE pc'[p] = "insert" /\ UNCHANGED <<locked, at, items, log>>
    <3> USE DEF SInv, LInv
    <3>1. pc[p] = "exclusive"
      BY <1>3 DEF LockExclusive
    <3>2. SharedBy(p)' = SharedBy(p) /\ Holding(p)' = Holding(p)
      BY <2>3, <3>1 DEF SharedBy, Holding
    <3>3. \A q \in Procs : SharedBy(q)' = SharedBy(q) /\ Holding(q)' = Holding(q)
      BY <1>1, <3>2, Others
    <3>4. \A j : /\ Sharers(j)' = Sharers(j) /\ (Here(j)' <=> Here(j)) /\ Top(j)' = Top(j)
                 /\ Shows(j)' = Shows(j) /\ Latest(j)' = Latest(j)
      BY <2>1, <2>3, <3>3 DEF Sharers, Here, Top, Shows, Latest
    <3>5. LocksRight'
      BY <2>3, <3>3, <3>4 DEF LocksRight
    <3>6. PendingAt(p)'
      BY <2>3, <3>1, <3>2, <3>4 DEF Pending, PendingAt
    <3>7. RecheckedAt(p)'
      BY <2>1, <2>3, <3>1 DEF Rechecked, RecheckedAt, Top
    <3>8. \A q \in Procs \ {p} : PendingAt(q)' /\ RecheckedAt(q)'
      BY <1>1, <2>1, <2>3, OthersPending
    <3>9. Pending' /\ Rechecked'
      BY <3>6, <3>7, <3>8 DEF Pending, Rechecked
    <3>10. Serialised' /\ UpdatesBased'
      BY <2>3, <3>4 DEF Serialised, UpdatesBased
    <3> QED BY <3>5, <3>9, <3>10
  <2> QED BY <1>3, <2>2, <2>3, LockExclusiveType DEF SInv
<1>4. CASE Insert(p) /\ ~Dies(p)
  <2>1. items[p][at[p]].kind = "insertion"
    BY <1>4 DEF Insert, SInv, Placed, PlacedAt
  <2>2. ASSUME NEW y \in Keys, y = items[p][at[p]].key, Locks(p, y), locked[y] = 0,
               Here(y)', Shows(y)' = Shows(y), \A j \in Keys \ {y} : index'[j] = index[j]
        PROVE  LInv'
    <3>1. items[p][at[p]].kind = "update" => Top(y)' = items[p][at[p]].tc
      BY <2>1
    <3> QED BY <1>1, <2>2, <3>1, LocksStep
  <2>3. ASSUME NEW y \in Keys, y = k PROVE LInv'
    <3>1. CASE Here(y) /\ locked[y] = 0 /\ Locks(p, y) /\ UNCHANGED index
      <4>1. Here(y)' /\ Shows(y)' = Shows(y)
        BY <3>1 DEF Here, Shows, Top
      <4> QED BY <2>2, <2>3, <3>1, <4>1
    <3>2. CASE ~Here(y) /\ Locks(p, y) /\ index' = [index EXCEPT ![y] = Empty]
      <4>1. locked[y] = 0
        BY <3>2 DEF SInv, LInv, LocksRight
      <4>2. index'[y] = Empty /\ \A j \in Keys \ {y} : index'[j] = index[j]
        BY <3>2 DEF SInv, TypeOK
      <4>3. Empty # << >> /\ Empty[1].tc = 0
        BY EmptyFacts, HistoryHere
      <4>4. Here(y)' /\ Shows(y)' = Shows(y)
        BY <3>2, <4>2, <4>3 DEF Here, Shows, Top
      <4> QED BY <2>2, <2>3, <3>2, <4>1, <4>2, <4>4
    <3> QED BY <1>4, <2>3, <3>1, <3>2, InsertType DEF SInv
  <2> QED BY <1>1, <2>3
<1>5. Dies(p) => index' = index /\ locked' = locked
  <2>1. CASE LockExclusive(p)
    BY <2>1 DEF LockExclusive, Dies, Gone, Locks, Goto, local, SInv, TypeOK
  <2>2. CASE Insert(p)
    BY <2>2 DEF Insert, Dies, Gone, Locks, Goto, SInv, TypeOK
  <2> QED BY <2>1, <2>2
<1> QED BY <1>2, <1>3, <1>4, <1>5

LEMMA LogAppend ==
  ASSUME NEW s \in Logs, NEW e \in [tc : Nat, base : Int, kind : Kinds]
  PROVE  /\ Len(s) \in Nat /\ DOMAIN s = 1..Len(s)
         /\ Append(s, e) # << >> /\ Last(Append(s, e)) = e
         /\ DOMAIN Append(s, e) = 1..Len(s) + 1
         /\ \A n \in 1..Len(s) : Append(s, e)[n] = s[n]
         /\ Append(s, e)[Len(s) + 1] = e
         /\ s # << >> => Len(s) >= 1 /\ Last(s) = s[Len(s)]
<1> DEFINE C == [tc : Nat, base : Int, kind : Kinds]
<1>1. s \in Seq(C) /\ e \in C
  BY DEF Logs
<1> HIDE DEF C
<1>2. Len(s) \in Nat /\ DOMAIN s = 1..Len(s) /\ (s # << >> => Len(s) >= 1)
  BY <1>1
<1>3. /\ Append(s, e) \in Seq(C) /\ Len(Append(s, e)) = Len(s) + 1
      /\ DOMAIN Append(s, e) = 1..Len(s) + 1
      /\ \A n \in 1..Len(s) : Append(s, e)[n] = s[n]
      /\ Append(s, e)[Len(s) + 1] = e
  BY <1>1
<1>4. Append(s, e) # << >>
  <2>1. Len(<< >>) = 0
    OBVIOUS
  <2> QED BY <1>2, <1>3, <2>1
<1>5. Last(Append(s, e)) = e /\ Last(s) = s[Len(s)]
  BY <1>3 DEF Last
<1> QED BY <1>2, <1>3, <1>4, <1>5

LEMMA EntryType ==
  ASSUME TypeOK, NEW p \in Procs, NEW n \in DOMAIN items[p]
  PROVE  /\ Entry(p, n) \in [tc : Nat, base : Int, kind : Kinds]
         /\ Entry(p, n).tc = mytx[p] /\ Entry(p, n).base = items[p][n].tc /\ Entry(p, n).kind = items[p][n].kind
BY ItemFacts DEF Entry, TypeOK

\* The transaction begins to write.
LEMMA BeginLocks ==
  ASSUME SInv, TypeOK', Placed', NEW p \in Procs, Begin(p)
  PROVE  LInv'
<1> USE DEF SInv, LInv
<1>1. Same(p) /\ pc[p] = "begin" /\ index' = index /\ locked' = locked
  BY BeginType DEF Begin
<1>2. CASE Dies(p)
  BY <1>1, <1>2, GoneStep DEF Dies
<1>3. CASE Ends(p) /\ log' = log
  BY <1>1, <1>3, EndsStep
<1>4. CASE ~Dies(p) /\ ~(Ends(p) /\ log' = log)
  <2>1. /\ pc'[p] = "apply" /\ at'[p] = 1 /\ items' = items /\ mytx' = mytx
        /\ \A k \in Keys : ~In(p, k) => log'[k] = log[k]
        /\ \A n \in DOMAIN items[p] : log'[items[p][n].key] = Append(log[items[p][n].key], Entry(p, n))
    BY <1>4, BeginType
  <2>2. Holding(p) = KeysOf(p) /\ \A k : In(p, k) <=> k \in Holding(p)
    BY <1>1 DEF Holding, KeysOf, In
  <2>3. \A n \in DOMAIN items[p] : items[p][n].kind # "erased"
    BY <1>1 DEF Keyed, KeyedAt
  <2>4. SharedBy(p)' = SharedBy(p) /\ Holding(p)' = Holding(p)
    <3>1. SharedBy(p)' = {} /\ SharedBy(p) = {}
      BY <1>1, <2>1 DEF SharedBy
    <3>2. Holding(p)' = {items[p][n].key : n \in {n \in DOMAIN items[p] : items[p][n].kind # "erased"}}
      BY <2>1 DEF Holding
    <3>3. Holding(p)' = KeysOf(p)
      BY <2>3, <3>2 DEF KeysOf
    <3> QED BY <2>2, <3>1, <3>3
  <2>5. \A q \in Procs : SharedBy(q)' = SharedBy(q) /\ Holding(q)' = Holding(q)
    BY <1>1, <2>4, Others
  <2>6. \A j : /\ Sharers(j)' = Sharers(j) /\ (Here(j)' <=> Here(j)) /\ Top(j)' = Top(j) /\ Shows(j)' = Shows(j)
    BY <1>1, <2>5 DEF Sharers, Here, Top, Shows
  <2>7. LocksRight'
    BY <1>1, <2>5, <2>6 DEF LocksRight
  <2>8. \A q \in Procs : Holding(q) \subseteq Keys
    BY LockedKeys DEF KeysLocked
  <2>9. \A k \in Keys : k \notin Holding(p) => log'[k] = log[k] /\ Latest(k)' = Latest(k)
    BY <2>1, <2>2 DEF Latest
  <2>10. \A q \in Procs \ {p} : PendingAt(q)' /\ RecheckedAt(q)'
    <3>1. \A q \in Procs \ {p} : \A k \in Holding(q) : index'[k] = index[k] /\ log'[k] = log[k]
      BY <1>1, <2>8, <2>9 DEF LocksRight
    <3> QED BY <1>1, <3>1, OthersPending
  <2>11. RecheckedAt(p)'
    BY <2>1 DEF RecheckedAt
  <2>12. ASSUME NEW n \in DOMAIN items[p], NEW k \in Keys, k = items[p][n].key
         PROVE  Latest(k)' = IF items[p][n].kind = "removal" THEN 0 ELSE mytx[p]
    <3> DEFINE s == log[k]
               e == Entry(p, n)
    <3>1. s \in Logs /\ e \in [tc : Nat, base : Int, kind : Kinds] /\ log'[k] = Append(s, e)
      BY <2>1, <2>12, EntryType DEF TypeOK
    <3>2. e.tc = mytx[p] /\ e.kind = items[p][n].kind
      BY EntryType
    <3> HIDE DEF s, e
    <3>3. log'[k] # << >> /\ Last(log'[k]) = e
      BY <3>1, LogAppend
    <3> QED BY <3>2, <3>3 DEF Latest, Shown
  <2>13. PendingAt(p)'
    <3>1. ASSUME NEW n \in DOMAIN items[p]
          PROVE  /\ ~(n < 1) /\ items[p][n].kind # "erased"
                 /\ Latest(items[p][n].key)' = IF items[p][n].kind = "removal" THEN 0 ELSE mytx[p]
      <4>1. items[p][n].key \in Keys /\ n \in Nat /\ 1 <= n
        <5>1. DOMAIN items[p] = 1..Len(items[p]) /\ Len(items[p]) \in Nat /\ items[p][n].key \in Keys
          BY ItemFacts
        <5> QED BY <5>1
      <4>2. \A k \in Keys : k = items[p][n].key => Latest(k)' = IF items[p][n].kind = "removal" THEN 0 ELSE mytx[p]
        BY <2>12
      <4>3. Latest(items[p][n].key)' = IF items[p][n].kind = "removal" THEN 0 ELSE mytx[p]
        BY <2>1, <4>1, <4>2 DEF Latest
      <4> QED BY <2>3, <4>1, <4>3
    <3> QED BY <2>1, <3>1 DEF PendingAt
  <2>14. Pending' /\ Rechecked'
    BY <2>10, <2>11, <2>13 DEF Pending, Rechecked
  <2>15. Serialised'
    <3>1. \A k \in Keys : locked[k] >= 0 => k \notin Holding(p)
      BY DEF LocksRight
    <3> QED BY <1>1, <2>6, <2>9, <3>1 DEF Serialised
  <2>16. UpdatesBased'
    <3> SUFFICES ASSUME NEW k \in Keys, NEW n \in DOMAIN log'[k], log'[k][n].kind = "update"
                 PROVE  n > 1 /\ log'[k][n].base = Shown(log'[k][n - 1])
      BY DEF UpdatesBased, Shown
    <3>0. \A m \in DOMAIN log[k] : log[k][m].kind = "update" => m > 1 /\ log[k][m].base = Shown(log[k][m - 1])
      BY DEF UpdatesBased
    <3>1. CASE k \notin Holding(p)
      BY <2>9, <3>0, <3>1
    <3>2. CASE k \in Holding(p)
      <4>1. PICK m \in DOMAIN items[p] : items[p][m].key = k
        BY <2>2, <3>2 DEF In
      <4> DEFINE s == log[k]
                 e == Entry(p, m)
      <4>2. s \in Logs /\ e \in [tc : Nat, base : Int, kind : Kinds] /\ log'[k] = Append(s, e)
        BY <2>1, <4>1, EntryType DEF TypeOK
      <4>3. e.base = items[p][m].tc /\ e.kind = items[p][m].kind
        BY EntryType
      <4>4. \A j \in DOMAIN s : s[j].kind = "update" => j > 1 /\ s[j].base = Shown(s[j - 1])
        BY <3>0
      <4>5. e.kind = "update" => s # << >> /\ e.base = Shown(Last(s))
        <5> SUFFICES ASSUME e.kind = "update" PROVE s # << >> /\ e.base = Shown(Last(s))
          OBVIOUS
        <5>1. Top(k) = items[p][m].tc
          BY <1>1, <4>1, <4>3 DEF Rechecked, RecheckedAt
        <5>2. Here(k) /\ Shows(k) = Latest(k)
          BY <1>1, <3>2 DEF LocksRight, Pending, PendingAt
        <5>3. items[p][m].tc # 0
          BY DEF Keyed, KeyedAt
        <5>4. Latest(k) = e.base /\ Latest(k) # 0
          BY <4>3, <5>1, <5>2, <5>3 DEF Shows
        <5> QED BY <5>4 DEF Latest
      <4> HIDE DEF s, e
      <4>6. /\ Len(s) \in Nat /\ DOMAIN s = 1..Len(s)
            /\ DOMAIN log'[k] = 1..Len(s) + 1
            /\ \A j \in 1..Len(s) : log'[k][j] = s[j]
            /\ log'[k][Len(s) + 1] = e
            /\ s # << >> => Len(s) >= 1 /\ Last(s) = s[Len(s)]
        BY <4>2, LogAppend
      <4>7. CASE n \in 1..Len(s)
        <5>1. n > 1 /\ log'[k][n].base = Shown(s[n - 1])
          BY <4>4, <4>6, <4>7
        <5>2. n - 1 \in 1..Len(s)
          BY <4>6, <4>7, <5>1
        <5> QED BY <4>6, <5>1, <5>2
      <4>8. CASE n = Len(s) + 1
        <5>1. e.kind = "update" /\ log'[k][n] = e
          BY <4>6, <4>8
        <5>2. Len(s) >= 1 /\ e.base = Shown(s[Len(s)])
          BY <4>5, <4>6, <5>1
        <5>3. n > 1 /\ n - 1 = Len(s) /\ n - 1 \in 1..Len(s)
          BY <4>6, <4>8, <5>2
        <5>4. log'[k][n - 1] = s[Len(s)]
          BY <4>6, <5>3
        <5> QED BY <5>1, <5>2, <5>3, <5>4
      <4>9. n \in 1..Len(s) \/ n = Len(s) + 1
        BY <4>6
      <4> QED BY <4>7, <4>8, <4>9
    <3> QED BY <3>1, <3>2
  <2> QED BY <2>7, <2>14, <2>15, <2>16
<1> QED BY <1>2, <1>3, <1>4

\* One key of the transaction is written; an entry without a value goes, and its lock.
LEMMA ApplyLocks ==
  ASSUME SInv, TypeOK', Placed', NEW p \in Procs, Apply(p)
  PROVE  LInv'
<1> USE DEF SInv, LInv
<1> DEFINE i == items[p][at[p]]
           h == Pushed(index[i.key], NewHead(p))
<1>1. PICK k \in Keys : k = i.key
  BY ApplyType
<1>2. /\ Same(p) /\ at[p] \in DOMAIN items[p] /\ k \in Holding(p) /\ Here(k) /\ i.kind # "erased"
      /\ at'[p] = at[p] + 1 /\ pc' = pc /\ mytx' = mytx /\ log' = log
      /\ Len(items'[p]) = Len(items[p]) /\ DOMAIN items'[p] = DOMAIN items[p]
  BY <1>1, ApplyType
<1>3. \A m \in DOMAIN items[p] : /\ items'[p][m].key = items[p][m].key
                                 /\ m # at[p] => items'[p][m].kind = items[p][m].kind
  BY ApplyType
<1>4. \A j \in Keys \ {k} : index'[j] = index[j] /\ locked'[j] = locked[j]
  BY <1>1, ApplyType
<1>5. \/ index'[k] = h /\ h # << >> /\ locked' = locked /\ items'[p][at[p]].kind = i.kind
      \/ /\ index'[k] = << >> /\ locked'[k] = 0 /\ items'[p][at[p]].kind = "erased"
         /\ i.kind = "removal"
  BY <1>1, ApplyType
<1>6. pc[p] = "apply" /\ at[p] \in Nat
  BY DEF Apply, TypeOK
<1>7. h[1].tc = IF i.kind = "removal" THEN 0 ELSE mytx[p]
  <2>1. 1 \in 1..Depth
    BY KeyValueStoreAssumption
  <2> QED BY <2>1 DEF Pushed, NewHead, NoValue
<1>8. Latest(k) = IF i.kind = "removal" THEN 0 ELSE mytx[p]
  BY <1>1, <1>2, <1>6 DEF Pending, PendingAt
<1>9. Shows(k)' = Latest(k)
  BY <1>5, <1>7, <1>8 DEF Shows, Here, Top
<1>10. \A j : Latest(j)' = Latest(j)
  BY <1>2 DEF Latest
<1> HIDE DEF h
<1>11. \A q \in Procs \ {p} : SharedBy(q)' = SharedBy(q) /\ Holding(q)' = Holding(q)
  BY <1>2, Others
<1>12. SharedBy(p) = {} /\ SharedBy(p)' = {} /\ \A j : Sharers(j)' = Sharers(j)
  BY <1>2, <1>6, <1>11 DEF SharedBy, Sharers
<1>13. \A q \in Procs : Holding(q) \subseteq Keys /\ SharedBy(q) \subseteq Keys
  BY LockedKeys DEF KeysLocked
<1>14. \A m \in DOMAIN items[p] : m # at[p] => items[p][m].key # k
  BY <1>1, <1>2 DEF Keyed, KeyedAt
<1>15. Holding(p)' = {items'[p][m].key : m \in {m \in DOMAIN items[p] : items'[p][m].kind # "erased"}}
  BY <1>2, <1>6 DEF Holding
<1>16. Holding(p) = {items[p][m].key : m \in {m \in DOMAIN items[p] : items[p][m].kind # "erased"}}
  BY <1>6 DEF Holding
<1>17. /\ Holding(p)' \subseteq Holding(p)
       /\ items'[p][at[p]].kind = "erased" => k \notin Holding(p)'
  <2>1. ASSUME NEW x \in Holding(p)' PROVE x \in Holding(p) /\ (items'[p][at[p]].kind = "erased" => x # k)
    <3>1. PICK m \in DOMAIN items[p] : x = items'[p][m].key /\ items'[p][m].kind # "erased"
      BY <1>15, <2>1
    <3>2. CASE m = at[p]
      BY <1>1, <1>2, <1>3, <3>1, <3>2
    <3>3. CASE m # at[p]
      <4>1. x = items[p][m].key /\ items[p][m].kind # "erased"
        BY <1>3, <3>1, <3>3
      <4> QED BY <1>14, <1>16, <3>3, <4>1
    <3> QED BY <3>2, <3>3
  <2> QED BY <2>1
<1>18. \A j \in Keys \ {k} : (Here(j)' <=> Here(j)) /\ Shows(j)' = Shows(j)
  BY <1>4 DEF Here, Shows, Top
<1>19. \/ Here(k)' /\ locked' = locked
       \/ ~Here(k)' /\ locked'[k] = 0 /\ k \notin Holding(p)'
  BY <1>5, <1>17 DEF Here
<1>20. locked[k] = -1 /\ Sharers(k) = {} /\ \A q \in Procs \ {p} : k \notin Holding(q)
  <2>1. locked[k] = -1 /\ \A q \in Procs \ {p} : k \notin Holding(q)
    BY <1>2 DEF LocksRight
  <2>2. Sharers(k) = {}
    <3>1. (locked[k] = -1 /\ Sharers(k) = {}) \/ locked[k] >= Cardinality(Sharers(k))
      BY DEF LocksRight
    <3>2. Cardinality(Sharers(k)) \in Nat
      BY SharersFacts
    <3> QED BY <2>1, <3>1, <3>2
  <2> QED BY <2>1, <2>2
<1>21. LocksRight'
  <2>1. ASSUME NEW j \in Keys PROVE \/ locked'[j] = -1 /\ Sharers(j)' = {}
                                    \/ locked'[j] >= Cardinality(Sharers(j)')
    <3>1. CASE j # k
      BY <1>4, <1>12, <3>1 DEF LocksRight
    <3>2. CASE j = k
      BY <1>12, <1>19, <1>20, <3>2, FS_EmptySet
    <3> QED BY <3>1, <3>2
  <2>2. \A j \in Keys : ~Here(j)' => locked'[j] = 0
    BY <1>4, <1>18, <1>19 DEF LocksRight
  <2>3. ASSUME NEW q \in Procs, NEW j \in Holding(q)' PROVE locked'[j] = -1 /\ Here(j)' /\ j \in Holding(q)
    <3>1. j \in Holding(q) /\ j \in Keys
      BY <1>11, <1>13, <1>17, <2>3
    <3>2. locked[j] = -1 /\ Here(j)
      BY <3>1 DEF LocksRight
    <3>3. CASE j # k
      BY <1>4, <1>18, <3>1, <3>2, <3>3
    <3>4. CASE j = k
      <4>1. q = p
        BY <1>20, <3>1, <3>4
      <4> QED BY <1>19, <2>3, <3>1, <3>2, <3>4, <4>1
    <3> QED BY <3>1, <3>3, <3>4
  <2>4. \A q, r \in Procs : q # r => Holding(q)' \cap Holding(r)' = {}
    BY <2>3 DEF LocksRight
  <2>5. \A q \in Procs : \A j \in SharedBy(q)' : Here(j)'
    <3> SUFFICES ASSUME NEW q \in Procs, NEW j \in SharedBy(q)' PROVE Here(j)'
      OBVIOUS
    <3>1. q # p /\ j \in SharedBy(q) /\ j \in Keys
      BY <1>11, <1>12, <1>13
    <3>2. j # k
      BY <1>20, <3>1 DEF Sharers
    <3> QED BY <1>18, <3>1, <3>2 DEF LocksRight
  <2> QED BY <2>1, <2>2, <2>3, <2>4, <2>5 DEF LocksRight
<1>22. Serialised'
  <2>1. ASSUME NEW j \in Keys, locked'[j] >= 0 PROVE Shows(j)' = Latest(j)'
    <3>1. CASE j = k
      BY <1>9, <1>10, <3>1
    <3>2. CASE j # k
      BY <1>4, <1>10, <1>18, <2>1, <3>2 DEF Serialised, Shows
    <3> QED BY <3>1, <3>2
  <2> QED BY <2>1 DEF Serialised, Shows
<1>23. UpdatesBased'
  BY <1>2 DEF UpdatesBased
<1>24. \A q \in Procs \ {p} : PendingAt(q)' /\ RecheckedAt(q)'
  <2>1. \A q \in Procs \ {p} : \A j \in Holding(q) : index'[j] = index[j] /\ log'[j] = log[j]
    BY <1>2, <1>4, <1>13, <1>20
  <2> QED BY <1>2, <2>1, OthersPending
<1>25. RecheckedAt(p)'
  BY <1>2, <1>6 DEF RecheckedAt
<1>26. PendingAt(p)'
  <2>1. ASSUME NEW m \in DOMAIN items[p], NEW j \in Keys, j = items[p][m].key
        PROVE  IF m < at'[p] THEN items'[p][m].kind # "erased" => Shows(j)' = Latest(j)'
               ELSE /\ items'[p][m].kind # "erased"
                    /\ Latest(j)' = IF items'[p][m].kind = "removal" THEN 0 ELSE mytx[p]
    <3>1. IF m < at[p] THEN items[p][m].kind # "erased" => Shows(j) = Latest(j)
          ELSE /\ items[p][m].kind # "erased"
               /\ Latest(j) = IF items[p][m].kind = "removal" THEN 0 ELSE mytx[p]
      BY <1>6, <2>1 DEF Pending, PendingAt
    <3>2. m \in Nat
      <4>1. DOMAIN items[p] = 1..Len(items[p]) /\ Len(items[p]) \in Nat
        BY ItemFacts
      <4> QED BY <4>1
    <3>3. CASE m = at[p]
      <4>1. j = k /\ m < at'[p]
        BY <1>1, <1>2, <1>6, <2>1, <3>3
      <4> QED BY <1>9, <1>10, <4>1
    <3>4. CASE m # at[p]
      <4>1. j # k /\ items'[p][m].kind = items[p][m].kind
        BY <1>3, <1>14, <2>1, <3>4
      <4>2. m < at'[p] <=> m < at[p]
        BY <1>2, <1>6, <3>2, <3>4
      <4> QED BY <1>10, <1>18, <2>1, <3>1, <4>1, <4>2
    <3> QED BY <3>3, <3>4
  <2>2. ASSUME NEW m \in DOMAIN items'[p]
        PROVE  IF m < at'[p] THEN items'[p][m].kind # "erased" => Shows(items[p][m].key)' = Latest(items[p][m].key)'
               ELSE /\ items'[p][m].kind # "erased"
                    /\ Latest(items[p][m].key)' = IF items'[p][m].kind = "removal" THEN 0 ELSE mytx[p]
    <3>1. m \in DOMAIN items[p] /\ items[p][m].key \in Keys /\ items'[p][m].key = items[p][m].key
      BY <1>2, <1>3, <2>2, ItemFacts
    <3>2. \A j \in Keys : j = items[p][m].key =>
            IF m < at'[p] THEN items'[p][m].kind # "erased" => Shows(j)' = Latest(j)'
            ELSE /\ items'[p][m].kind # "erased"
                 /\ Latest(j)' = IF items'[p][m].kind = "removal" THEN 0 ELSE mytx[p]
      BY <2>1, <3>1
    <3>3. \A j \in Keys : j = items'[p][m].key => /\ Shows(items[p][m].key)' = Shows(j)'
                                                 /\ Latest(items[p][m].key)' = Latest(j)'
      BY DEF Shows, Latest, Here, Top
    <3> QED BY <3>1, <3>2, <3>3
  <2>3. pc'[p] = "apply" /\ mytx'[p] = mytx[p]
    BY <1>2, <1>6
  <2> QED BY <2>2, <2>3 DEF PendingAt
<1>27. Pending' /\ Rechecked'
  BY <1>24, <1>25, <1>26 DEF Pending, Rechecked
<1> QED BY <1>21, <1>22, <1>23, <1>27

LEMMA FinishLocks ==
  ASSUME SInv, TypeOK', Placed', NEW p \in Procs, Finish(p)
  PROVE  LInv'
<1> USE DEF SInv, LInv
<1>1. /\ Same(p) /\ pc[p] = "apply" /\ pc'[p] = "ready" /\ index' = index /\ log' = log
      /\ at[p] > Len(items[p])
  BY EndsType DEF Finish, hist
<1>2. locked' = [k \in Keys |-> IF k \in Holding(p) THEN 0 ELSE locked[k]]
  <2>1. \A k : (\E i \in Range(items[p]) : i.key = k /\ i.kind # "erased") <=> k \in Holding(p)
    BY <1>1 DEF Holding, Range
  <2> QED BY <2>1 DEF Finish
<1>3. SharedBy(p)' = {} /\ SharedBy(p) = {} /\ Holding(p)' = {}
  BY <1>1 DEF SharedBy, Holding
<1>4. \A q \in Procs \ {p} : SharedBy(q)' = SharedBy(q) /\ Holding(q)' = Holding(q)
  BY <1>1, Others
<1>5. \A j : /\ Sharers(j)' = Sharers(j) /\ (Here(j)' <=> Here(j)) /\ Top(j)' = Top(j) /\ Shows(j)' = Shows(j)
             /\ Latest(j)' = Latest(j)
  BY <1>1, <1>3, <1>4 DEF Sharers, Here, Top, Shows, Latest
<1>6. ASSUME NEW k \in Holding(p) PROVE Shows(k) = Latest(k)
  <2>1. PICK n \in DOMAIN items[p] : k = items[p][n].key /\ items[p][n].kind # "erased"
    BY <1>1, <1>6 DEF Holding
  <2>2. n < at[p]
    <3>1. DOMAIN items[p] = 1..Len(items[p]) /\ Len(items[p]) \in Nat /\ at[p] \in Nat
      BY ItemFacts DEF TypeOK
    <3> QED BY <1>1, <3>1
  <2> QED BY <1>1, <2>1, <2>2 DEF Pending, PendingAt
<1>7. \A k \in Keys : k \in Holding(p) => Sharers(k) = {} /\ locked'[k] = 0
  <2> SUFFICES ASSUME NEW k \in Keys, k \in Holding(p) PROVE Sharers(k) = {} /\ locked'[k] = 0
    OBVIOUS
  <2>1. locked[k] = -1 /\ ((locked[k] = -1 /\ Sharers(k) = {}) \/ locked[k] >= Cardinality(Sharers(k)))
    BY DEF LocksRight
  <2>2. Cardinality(Sharers(k)) \in Nat
    BY SharersFacts
  <2> QED BY <1>2, <2>1, <2>2
<1>8. \A k \in Keys : k \notin Holding(p) => locked'[k] = locked[k]
  BY <1>2
<1>9. \A q \in Procs : Holding(q) \subseteq Keys
  BY LockedKeys DEF KeysLocked
<1>10. LocksRight'
  <2>1. \A j \in Keys : \/ locked'[j] = -1 /\ Sharers(j)' = {}
                        \/ locked'[j] >= Cardinality(Sharers(j)')
    BY <1>5, <1>7, <1>8, FS_EmptySet DEF LocksRight
  <2>2. \A j \in Keys : ~Here(j)' => locked'[j] = 0
    BY <1>5, <1>7, <1>8 DEF LocksRight
  <2>3. \A q \in Procs : \A j \in Holding(q)' : locked'[j] = -1
    <3> SUFFICES ASSUME NEW q \in Procs, NEW j \in Holding(q)' PROVE locked'[j] = -1
      OBVIOUS
    <3>1. q # p /\ j \in Holding(q) /\ j \in Keys
      BY <1>3, <1>4, <1>9
    <3>2. j \notin Holding(p)
      BY <3>1 DEF LocksRight
    <3> QED BY <1>8, <3>1, <3>2 DEF LocksRight
  <2>4. \A q, r \in Procs : q # r => Holding(q)' \cap Holding(r)' = {}
    BY <1>3, <1>4 DEF LocksRight
  <2>5. \A q \in Procs : \A j \in SharedBy(q)' \cup Holding(q)' : Here(j)'
    BY <1>3, <1>4, <1>5 DEF LocksRight
  <2> QED BY <2>1, <2>2, <2>3, <2>4, <2>5 DEF LocksRight
<1>11. Serialised'
  <2>1. ASSUME NEW j \in Keys, locked'[j] >= 0 PROVE Shows(j)' = Latest(j)'
    <3>1. CASE j \in Holding(p)
      BY <1>5, <1>6, <3>1
    <3>2. CASE j \notin Holding(p)
      BY <1>5, <1>8, <2>1, <3>2 DEF Serialised, Shows
    <3> QED BY <3>1, <3>2
  <2> QED BY <2>1 DEF Serialised, Shows
<1>12. UpdatesBased'
  BY <1>1 DEF UpdatesBased
<1>13. PendingAt(p)' /\ RecheckedAt(p)'
  BY <1>1 DEF PendingAt, RecheckedAt
<1>14. \A q \in Procs \ {p} : PendingAt(q)' /\ RecheckedAt(q)'
  BY <1>1, OthersPending
<1>15. Pending' /\ Rechecked'
  BY <1>13, <1>14 DEF Pending, Rechecked
<1> QED BY <1>10, <1>11, <1>12, <1>15

LEMMA CrashLocks ==
  ASSUME SInv, TypeOK', Placed', NEW p \in Procs, Crash(p)
  PROVE  LInv'
BY GoneStep DEF Crash, Dies, shared

-----------------------------------------------------------------------------
(* Together                                                                *)

\* The store of a process that is gone.
LEMMA UsedFacts ==
  ASSUME Used
  PROVE  /\ cells \in [Files -> Contents] /\ \A f \in Files \ {1} : cells[f] = << >>
         /\ index \in [Keys -> Histories]
         /\ \A k \in Keys :
              /\ index[k] \in [1..Depth -> Values] /\ index[k][1].tc = 1 /\ index[k][1].file = 1
              /\ IsAt(1, index[k][1].off, k, 1)
              /\ \A n \in 1..Depth : n # 1 => index[k][n].tc = 0
<1>1. PICK ks \in SetToSeqs(Keys) :
       /\ cells = [f \in Files |-> IF f # 1 THEN << >>
                     ELSE <<Padding>> \o [n \in DOMAIN ks |-> [key |-> ks[n], tc |-> 1]]]
       /\ index = [k \in Keys |-> [Empty EXCEPT ![1] =
                     [tc |-> 1, file |-> 1, off |-> 1 + CHOOSE n \in DOMAIN ks : ks[n] = k]]]
  BY DEF Used
<1> DEFINE N == Cardinality(Keys)
           D == 1..N
           r == [n \in DOMAIN ks |-> [key |-> ks[n], tc |-> 1]]
           C == [key : Nat, tc : Nat]
<1>2. N \in Nat /\ 1 \in Files /\ 1 \in 0..MaxFiles /\ 1 \in 1..Depth
  BY KeyValueStoreAssumption, FS_CardinalityType DEF Files
<1>3. ks \in [D -> Keys] /\ \A i, j \in D : i # j => ks[i] # ks[j]
  BY DEF SetToSeqs
<1>4. \A k \in Keys : \E n \in D : ks[n] = k
  <2>1. ks \in Injection(D, Keys)
    BY <1>3 DEF Injection, IsInjective
  <2>2. Cardinality(D) = N
    BY <1>2, FS_Interval
  <2>3. ks \in Surjection(D, Keys)
    <3> HIDE DEF D
    <3> QED BY <2>1, <2>2, FS_Injection, KeyValueStoreAssumption
  <2> QED BY <2>3 DEF Surjection
<1>5. r \in Seq(C) /\ Len(r) = N /\ \A n \in D : r[n] = [key |-> ks[n], tc |-> 1]
  <2>1. DOMAIN ks = D /\ \A n \in D : [key |-> ks[n], tc |-> 1] \in C
    BY <1>3, KeyValueStoreAssumption
  <2>2. r = [n \in 1..N |-> r[n]] /\ \A n \in 1..N : r[n] \in C
    BY <2>1
  <2>3. \A n \in D : r[n] = [key |-> ks[n], tc |-> 1]
    BY <2>1
  <2> HIDE DEF r, C
  <2>4. r \in Seq(C) /\ Len(r) = N
    BY <1>2, <2>2, Tuple
  <2> QED BY <2>3, <2>4
<1> DEFINE c == <<Padding>> \o r
<1>6. c \in Contents /\ Len(c) = N + 1 /\ \A n \in D : c[n + 1] = r[n]
  <2> DEFINE d == <<Padding>>
  <2>1. d \in Contents /\ Len(d) = 1
    BY DEF Padding, Contents
  <2>2. r \in Contents /\ Len(r) = N
    BY <1>5 DEF Contents
  <2> HIDE DEF r, d, N
  <2>3. /\ d \o r \in Contents /\ Len(d \o r) = Len(d) + Len(r)
        /\ \A n \in 1..Len(r) : (d \o r)[Len(d) + n] = r[n]
    BY <2>1, <2>2, Joined
  <2>4. Len(d \o r) = N + 1 /\ \A n \in D : Len(d) + n = n + 1
    BY <1>2, <2>1, <2>2, <2>3
  <2>5. \A n \in D : (d \o r)[n + 1] = r[n]
    BY <2>2, <2>3, <2>4
  <2> QED BY <2>3, <2>4, <2>5 DEF d
<1>7. cells[1] = c /\ cells \in [Files -> Contents] /\ \A f \in Files \ {1} : cells[f] = << >>
  <2>1. cells = [f \in Files |-> IF f # 1 THEN << >> ELSE c]
    BY <1>1
  <2>2. c \in Contents
    BY <1>6
  <2> HIDE DEF c
  <2> QED BY <1>2, <2>1, <2>2, Empties
<1> DEFINE Off(k) == CHOOSE n \in DOMAIN ks : ks[n] = k
<1>8. ASSUME NEW k \in Keys
      PROVE  /\ index[k] \in [1..Depth -> Values] /\ index[k][1].tc = 1 /\ index[k][1].file = 1
             /\ IsAt(1, index[k][1].off, k, 1)
             /\ \A n \in 1..Depth : n # 1 => index[k][n].tc = 0
  <2>1. DOMAIN ks = D
    BY <1>3
  <2>2. Off(k) \in D /\ ks[Off(k)] = k
    BY <1>4, <2>1
  <2> DEFINE m == Off(k)
             v == [tc |-> 1, file |-> 1, off |-> 1 + m]
  <2>3. m \in D /\ ks[m] = k
    BY <2>2
  <2>4. index[k] = [Empty EXCEPT ![1] = v]
    BY <1>1
  <2> HIDE DEF m
  <2>5. v \in Values /\ v.tc = 1 /\ v.file = 1 /\ v.off = 1 + m
    BY <1>2, <2>3 DEF Values
  <2>6. c[1 + m] = [key |-> k, tc |-> 1] /\ 1 + m \in 1..Len(c)
    <3>1. 1 + m = m + 1 /\ 1 + m \in 1..N + 1
      BY <1>2, <2>3
    <3>2. c[m + 1] = r[m] /\ r[m] = [key |-> ks[m], tc |-> 1]
      <4> HIDE DEF c, r, D
      <4> QED BY <1>5, <1>6, <2>3
    <3> HIDE DEF c, r
    <3> QED BY <1>6, <2>3, <3>1, <3>2
  <2> HIDE DEF v, c
  <2>7. /\ [Empty EXCEPT ![1] = v] \in [1..Depth -> Values] /\ [Empty EXCEPT ![1] = v][1] = v
        /\ \A n \in 1..Depth : n # 1 => [Empty EXCEPT ![1] = v][n] = Empty[n]
    BY <1>2, <2>5, EmptyFacts
  <2>8. \A n \in 1..Depth : Empty[n].tc = 0
    BY DEF Empty, NoValue
  <2>9. IsAt(1, 1 + m, k, 1)
    BY <1>2, <1>7, <2>6 DEF IsAt
  <2> QED BY <2>4, <2>5, <2>7, <2>8, <2>9
<1>9. index \in [Keys -> Histories]
  <2>1. \A k \in Keys : index[k] \in Histories
    BY <1>8, HistoryHere
  <2>2. index = [k \in Keys |-> index[k]]
    BY <1>1
  <2> QED BY ONLY <2>1, <2>2
<1> QED BY <1>7, <1>8, <1>9

LEMMA InitType == Init => TypeOK
<1> SUFFICES ASSUME Init PROVE TypeOK
  OBVIOUS
<1>1. /\ writes \in [Files -> Int] /\ locked \in [Keys -> Int] /\ owner \in [Files -> Procs \cup {Nobody}]
      /\ first \in Procs \cup {Nobody} /\ users \subseteq Procs
  BY DEF Init
<1>2. /\ pc \in [Procs -> Labels] /\ small \in [Procs -> Numbers] /\ mapped \in [Procs -> BOOLEAN]
      /\ items \in [Procs -> Transactions]
  BY Empties DEF Init, Labels
<1>3. /\ mine \in [Procs -> 0..MaxFiles] /\ at \in [Procs -> Nat] /\ base \in [Procs -> Nat] /\ mytx \in [Procs -> Nat]
      /\ calls \in 0..MaxCalls /\ crashes \in 0..MaxCrashes /\ died \in BOOLEAN /\ torn \in BOOLEAN
  <2>1. 0 \in 0..MaxFiles /\ 0 \in 0..MaxCalls /\ 0 \in 0..MaxCrashes /\ 0 \in Nat
    BY KeyValueStoreAssumption
  <2>2. /\ mine = [p \in Procs |-> 0] /\ at = [p \in Procs |-> 0]
        /\ base = [p \in Procs |-> 0] /\ mytx = [p \in Procs |-> 0]
        /\ calls = 0 /\ crashes = 0 /\ died = FALSE /\ torn = FALSE
    BY DEF Init
  <2> QED BY <2>1, <2>2
<1>4. /\ magic \in {"empty", "zero", "good", "bad"} /\ counter \in Nat /\ made \subseteq Files
      /\ index \in [Keys -> Histories] /\ cells \in [Files -> Contents] /\ log \in [Keys -> Logs]
  <2>1. CASE New
    BY <2>1, Empties DEF New
  <2>2. CASE Used
    <3>1. magic = "good" /\ counter = 1 /\ made = {1} /\ 1 \in Files
      BY <2>2, KeyValueStoreAssumption DEF Used, Files
    <3> DEFINE e == [tc |-> 1, base |-> Fresh, kind |-> "insertion"]
    <3>2. <<e>> \in Logs
      <4> DEFINE C == [tc : Nat, base : Int, kind : Kinds]
      <4>1. e \in C
        BY DEF Fresh, Kinds
      <4> HIDE DEF e, C
      <4>2. <<e>> \in Seq(C)
        BY <4>1
      <4> QED BY <4>2 DEF Logs, C
    <3>3. log = [k \in Keys |-> <<e>>]
      BY <2>2 DEF Used
    <3> HIDE DEF e
    <3>4. log \in [Keys -> Logs]
      BY <3>2, <3>3
    <3> QED BY <2>2, <3>1, <3>4, UsedFacts
  <2> QED BY <2>1, <2>2 DEF Init
<1> QED BY <1>1, <1>2, <1>3, <1>4 DEF TypeOK

LEMMA InitSInv == Init => SInv
<1> SUFFICES ASSUME Init PROVE SInv
  OBVIOUS
<1>1. TypeOK
  BY InitType
<1>2. \A p \in Procs : pc[p] = "closed" /\ mine[p] = 0 /\ items[p] = << >>
  BY DEF Init
<1>3. Placed
  BY <1>2 DEF Placed, PlacedAt, InStore, Committing
<1>4. \A p \in Procs : DOMAIN items[p] = {}
  BY <1>2
<1>5. Keyed
  BY <1>4 DEF Keyed, KeyedAt
<1>6. \A p \in Procs : SharedBy(p) = {} /\ Holding(p) = {}
  BY <1>2 DEF SharedBy, Holding
<1>7. \A k \in Keys : Sharers(k) = {} /\ locked[k] = 0
  BY <1>6 DEF Sharers, Init
<1>8. LocksRight
  <2>1. Cardinality({}) = 0
    BY FS_EmptySet
  <2>2. \A k \in Keys : locked[k] = 0 /\ locked[k] >= Cardinality(Sharers(k))
    BY <1>7, <2>1
  <2>3. /\ \A p, q \in Procs : p # q => Holding(p) \cap Holding(q) = {}
        /\ \A p \in Procs : \A k \in Holding(p) : locked[k] = -1
        /\ \A p \in Procs : \A k \in SharedBy(p) \cup Holding(p) : Here(k)
    BY <1>6
  <2> QED BY <2>2, <2>3 DEF LocksRight
<1>9. Pending /\ Rechecked
  BY <1>2 DEF Pending, PendingAt, Rechecked, RecheckedAt
<1>10. Serialised /\ UpdatesBased
  <2>1. CASE New
    <3>1. \A k \in Keys : index[k] = << >> /\ log[k] = << >>
      BY <2>1 DEF New
    <3>2. \A k \in Keys : DOMAIN log[k] = {}
      BY <3>1
    <3> QED BY <3>1, <3>2 DEF Serialised, UpdatesBased, Here, Latest
  <2>2. CASE Used
    <3> DEFINE e == [tc |-> 1, base |-> Fresh, kind |-> "insertion"]
    <3>1. \A k \in Keys : Here(k) /\ Top(k) = 1
      BY <2>2, UsedFacts, HistoryHere DEF Here, Top
    <3>2. \A k \in Keys : log[k] = <<e>>
      BY <2>2 DEF Used
    <3>3. e.kind = "insertion" /\ e.tc = 1
      OBVIOUS
    <3> HIDE DEF e
    <3>4. <<e>> # << >> /\ Last(<<e>>) = e /\ DOMAIN <<e>> = {1} /\ <<e>>[1] = e
      BY DEF Last
    <3>5. \A k \in Keys : Latest(k) = 1
      BY <3>2, <3>3, <3>4 DEF Latest, Shown
    <3>6. Serialised
      BY <3>1, <3>5 DEF Serialised
    <3>7. UpdatesBased
      BY <3>2, <3>3, <3>4 DEF UpdatesBased
    <3> QED BY <3>6, <3>7
  <2> QED BY <2>1, <2>2 DEF Init
<1> QED BY <1>1, <1>3, <1>5, <1>8, <1>9, <1>10 DEF SInv, LInv

\* Every step of a process keeps what the locks protect.
LEMMA SInvStep ==
  ASSUME SInv, NEW p \in Procs, Steps(p) \/ Client(p) \/ Crash(p)
  PROVE  SInv' /\ Same(p) /\ Kept(p)
<1> USE DEF SInv, LInv
<1>0. ASSUME TypeOK', Same(p), Kept(p), Placed' => LInv' PROVE SInv' /\ Same(p) /\ Kept(p)
  BY <1>0, KeptAll
<1>1. CASE Constructor(p)
  BY <1>0, <1>1, ConstructorType, ConstructorKept, ConstructorLocks
<1>2. CASE Close(p) \/ CloseIndex(p) \/ Closed(p)
  BY <1>0, <1>2, CloseType, CloseKept, CloseLocks
<1>3. CASE \E c \in Calls[p] : Fetch(p, c.key) \/ Stage(p, c) \/ StageUnsafe(p, c)
  <2>1. PICK c \in Calls[p] : Fetch(p, c.key) \/ Stage(p, c) \/ StageUnsafe(p, c)
    BY <1>3
  <2>2. TypeOK' /\ Same(p)
    BY <2>1, CallFacts, FetchType, StageType, StageUnsafeType
  <2> QED BY <1>0, <2>1, <2>2, StagingKept, StagingLocks
<1>4. CASE Read(p)
  BY <1>0, <1>4, ReadType, ReadKept, ReadLocks
<1>5. CASE Commit(p)
  BY <1>0, <1>5, CommitType, CommitKept, CommitLocks
<1>6. CASE LockShared(p)
  BY <1>0, <1>6, LockSharedType, LockSharedKept, LockSharedLocks
<1>7. CASE Count(p) \/ AppendRecords(p) \/ AppendFails(p) \/ ExtendMap(p) \/ FillMap(p)
  <2>1. TypeOK' /\ Same(p)
    BY <1>7, CountType, AppendRecordsType, FillMapType, WrittenType, AppendFailsType, ExtendMapType
       DEF AppendRecords, FillMap
  <2> QED BY <1>0, <1>7, <2>1, WritingKept, WritingLocks
<1>8. CASE LockExclusive(p) \/ Insert(p)
  BY <1>0, <1>8, LockExclusiveType, InsertType, LockingKept, LockingLocks
<1>9. CASE Begin(p)
  BY <1>0, <1>9, BeginType, ApplyingKept, BeginLocks
<1>10. CASE Apply(p)
  BY <1>0, <1>10, ApplyType, ApplyingKept, ApplyLocks
<1>11. CASE Finish(p)
  BY <1>0, <1>11, FinishType, ApplyingKept, FinishLocks
<1>12. CASE Crash(p)
  BY <1>0, <1>12, CrashType, GoneKept, CrashLocks DEF Crash, Dies
<1> QED BY <1>1, <1>2, <1>3, <1>4, <1>5, <1>6, <1>7, <1>8, <1>9, <1>10, <1>11, <1>12
        DEF Steps, Client, Constructor

LEMMA SInvStutter ==
  ASSUME SInv, UNCHANGED vars
  PROVE  SInv'
<1> USE DEF vars, shared, flocks, local, hist
<1>1. TypeOK' /\ Placed' /\ Keyed'
  BY DEF SInv, TypeOK, Placed, PlacedAt, Keyed, KeyedAt, In
<1>2. \A p : SharedBy(p)' = SharedBy(p) /\ Holding(p)' = Holding(p)
  BY DEF SharedBy, Holding, Sharing, KeysOf
<1>3. \A k : /\ Sharers(k)' = Sharers(k) /\ (Here(k)' <=> Here(k)) /\ Top(k)' = Top(k)
             /\ Shows(k)' = Shows(k) /\ Latest(k)' = Latest(k)
  BY <1>2 DEF Sharers, Here, Top, Shows, Latest
<1>4. LocksRight' /\ Serialised' /\ UpdatesBased'
  BY <1>2, <1>3 DEF SInv, LInv, LocksRight, Serialised, UpdatesBased
<1>5. Pending' /\ Rechecked'
  BY <1>2, <1>3 DEF SInv, LInv, Pending, PendingAt, Rechecked, RecheckedAt, Shows, Latest, Here, Top
<1> QED BY <1>1, <1>4, <1>5 DEF SInv, LInv

LEMMA SInvAlways == Spec => []SInv
<1>1. SInv /\ [Next]_vars => SInv'
  BY SInvStep, SInvStutter DEF Next
<1> QED BY <1>1, InitSInv, PTL DEF Spec

\* Whatever the processes, the index, the files and the transactions are what
\* the code takes them for: every field of every variable has its type.
THEOREM TypeCorrect == Spec => []TypeOK
BY SInvAlways, PTL DEF SInv

\* Whenever an entry of the index can be locked by a reader it has what the
\* last transaction to start writing gave it, whatever processes died.
THEOREM SerialisedHolds == Spec => []Serialised
BY SInvAlways, PTL DEF SInv, LInv

\* No update of an entry that commit() found when it first looked replaces another
\* value than the one that was fetched for it.
THEOREM UpdatesBasedHolds == Spec => []UpdatesBased
BY SInvAlways, PTL DEF SInv, LInv

-----------------------------------------------------------------------------
(* The records the index points at                                         *)

Appends == {"append", "fill", "exclusive", "insert", "begin", "apply"}

LEMMA AppendsIn == Appends \subseteq InStore
BY DEF Appends, InStore, Committing

\* What a process relies on in its own file is there as long as the file and
\* what the process remembers are.
LEMMA OthersAppending ==
  ASSUME Appending, NEW p \in Procs, Same(p), NEW q \in Procs \ {p},
         pc[q] \in Appends => cells'[mine[q]] = cells[mine[q]]
  PROVE  AppendingAt(q)'
<1>1. /\ pc'[q] = pc[q] /\ mine'[q] = mine[q] /\ items'[q] = items[q] /\ base'[q] = base[q]
      /\ mytx'[q] = mytx[q]
  BY DEF Same
<1>2. AppendingAt(q)
  BY DEF Appending
<1>3. CASE pc[q] \in Appends
  BY <1>1, <1>2, <1>3 DEF AppendingAt, IsAt
<1>4. CASE pc[q] \notin Appends
  BY <1>1, <1>4 DEF AppendingAt, Appends
<1> QED BY <1>3, <1>4

\* A step that does not touch the small files.
LEMMA QuietRecords ==
  ASSUME RInv, NEW p \in Procs, Same(p), Pointed', AppendingAt(p)', cells' = cells, made' = made,
         \A f \in Files : owner'[f] \in {owner[f], Nobody}, TypeOK,
         pc'[p] \in Opening => pc[p] \in Opening, pc'[p] \notin {"truncate", "retry"}
  PROVE  RInv'
<1>1. \A q \in Procs \ {p} : AppendingAt(q)'
  BY OthersAppending DEF RInv
<1>2. Appending'
  BY <1>1 DEF Appending
<1>3. \A q \in Procs \ {p} : pc'[q] = pc[q] /\ at'[q] = at[q]
  BY DEF Same
<1>4. Unclaimed'
  <2>1. \A f \in Files \ made' : cells'[f] = << >> /\ owner'[f] = Nobody
    BY DEF RInv, Unclaimed
  <2>2. \A q \in Procs : pc'[q] \in {"truncate", "retry"} => at'[q] \in made'
    BY <1>3 DEF RInv, Unclaimed
  <2>3. ASSUME NEW q \in Procs, pc'[q] = "truncate" PROVE cells'[at'[q]] = << >> /\ owner'[at'[q]] = Nobody
    <3>1. q # p /\ pc[q] = "truncate" /\ at'[q] = at[q]
      BY <1>3, <2>3
    <3>2. cells[at[q]] = << >> /\ owner[at[q]] = Nobody /\ at[q] \in Files
      BY <3>1 DEF RInv, Unclaimed, TypeOK
    <3> QED BY <3>1, <3>2
  <2>4. \A q, r \in Procs : pc'[q] \in Opening /\ pc'[r] \in Opening => q = r
    BY <1>3 DEF RInv, Unclaimed
  <2> QED BY <2>1, <2>2, <2>3, <2>4 DEF Unclaimed
<1> QED BY <1>2, <1>4 DEF RInv

LEMMA SamePointed ==
  ASSUME RInv, index' = index, cells' = cells
  PROVE  Pointed'
BY DEF RInv, Pointed, Here, IsAt

\* Records stay where they are, though a file grows or its padding is filled.
LEMMA GrownPointed ==
  ASSUME RInv, TypeOK, index' = index,
         \A f \in Files : \A n \in 1..Len(cells[f]) :
           cells[f][n].tc # 0 => n \in 1..Len(cells'[f]) /\ cells'[f][n] = cells[f][n]
  PROVE  Pointed'
<1> SUFFICES ASSUME NEW k \in Keys, Here(k), NEW n \in 1..Depth, index[k][n].tc # 0
             PROVE  IsAt(index[k][n].file, index[k][n].off, k, index[k][n].tc)'
  BY DEF Pointed, Here
<1>1. IsAt(index[k][n].file, index[k][n].off, k, index[k][n].tc)
  BY DEF RInv, Pointed
<1> DEFINE g == index[k][n].file
           o == index[k][n].off
<1>2. g \in Files /\ o \in 1..Len(cells[g]) /\ cells[g][o] = [key |-> k, tc |-> index[k][n].tc]
  BY <1>1 DEF IsAt
<1>3. cells[g][o].tc # 0
  BY <1>2
<1>4. o \in 1..Len(cells'[g]) /\ cells'[g][o] = cells[g][o]
  BY <1>2, <1>3
<1> QED BY <1>2, <1>4 DEF IsAt

\* p writes to the file it has claimed.
LEMMA OwnWrite ==
  ASSUME SInv, RInv, NEW p \in Procs, pc[p] \in InStore, Same(p), index' = index, made' = made, owner' = owner,
         AppendingAt(p)', pc'[p] \in InStore,
         \A g \in Files \ {mine[p]} : cells'[g] = cells[g],
         \A n \in 1..Len(cells[mine[p]]) :
           cells[mine[p]][n].tc # 0 => n \in 1..Len(cells'[mine[p]]) /\ cells'[mine[p]][n] = cells[mine[p]][n]
  PROVE  RInv'
<1> USE DEF SInv
<1>1. mine[p] \in Files /\ owner[mine[p]] = p
  BY MineFacts
<1>2. Pointed'
  <2>1. \A f \in Files : \A n \in 1..Len(cells[f]) :
          cells[f][n].tc # 0 => n \in 1..Len(cells'[f]) /\ cells'[f][n] = cells[f][n]
    <3> SUFFICES ASSUME NEW f \in Files, NEW n \in 1..Len(cells[f]), cells[f][n].tc # 0
                 PROVE  n \in 1..Len(cells'[f]) /\ cells'[f][n] = cells[f][n]
      OBVIOUS
    <3>1. CASE f = mine[p]
      BY <3>1
    <3>2. CASE f # mine[p]
      BY <3>2
    <3> QED BY <3>1, <3>2
  <2> QED BY <2>1, GrownPointed
<1>3. ASSUME NEW q \in Procs \ {p}, pc[q] \in Appends PROVE cells'[mine[q]] = cells[mine[q]]
  <2>1. mine[q] \in Files /\ owner[mine[q]] = q
    BY <1>3, MineFacts, AppendsIn
  <2> QED BY <1>1, <2>1
<1>4. Appending'
  BY <1>3, OthersAppending DEF Appending, RInv
<1>5. \A q \in Procs \ {p} : pc'[q] = pc[q] /\ at'[q] = at[q]
  BY DEF Same
<1>6. pc'[p] \notin Opening
  BY DEF InStore, Committing, Opening
<1>7. "truncate" \in Opening /\ "retry" \in Opening
  BY DEF Opening
<1>8. mine[p] \in made
  BY <1>1, KeyValueStoreAssumption DEF RInv, Unclaimed
<1>9. Unclaimed'
  <2>1. \A f \in Files \ made' : cells'[f] = << >> /\ owner'[f] = Nobody
    BY <1>8 DEF RInv, Unclaimed
  <2>2. \A q \in Procs : pc'[q] \in {"truncate", "retry"} => at'[q] \in made'
    BY <1>5, <1>6, <1>7 DEF RInv, Unclaimed
  <2>3. ASSUME NEW q \in Procs, pc'[q] = "truncate" PROVE cells'[at'[q]] = << >> /\ owner'[at'[q]] = Nobody
    <3>1. q # p /\ pc[q] = "truncate" /\ at'[q] = at[q]
      BY <1>5, <1>6, <1>7, <2>3
    <3>2. cells[at[q]] = << >> /\ owner[at[q]] = Nobody /\ at[q] \in Files
      BY <3>1 DEF RInv, Unclaimed, TypeOK
    <3>3. at[q] # mine[p]
      BY <1>1, <3>2, KeyValueStoreAssumption
    <3> QED BY <3>1, <3>2, <3>3
  <2>4. \A q, r \in Procs : pc'[q] \in Opening /\ pc'[r] \in Opening => q = r
    BY <1>5, <1>6 DEF RInv, Unclaimed
  <2> QED BY <2>1, <2>2, <2>3, <2>4 DEF Unclaimed
<1> QED BY <1>2, <1>4, <1>9 DEF RInv

LEMMA GoneRecords ==
  ASSUME RInv, TypeOK, NEW p \in Procs, Gone(p), index' = index, cells' = cells, made' = made
  PROVE  RInv'
<1>1. Same(p) /\ pc'[p] = "closed" /\ \A f \in Files : owner'[f] \in {owner[f], Nobody}
  BY GoneType
<1>2. Pointed'
  BY SamePointed
<1>3. AppendingAt(p)' /\ pc'[p] \notin Opening /\ pc'[p] \notin {"truncate", "retry"}
  BY <1>1 DEF AppendingAt, Opening
<1> QED BY <1>1, <1>2, <1>3, QuietRecords

\* A step in which p stays, has nothing in its file yet, and touches no file.
LEMMA IdleRecords ==
  ASSUME RInv, TypeOK, NEW p \in Procs, Same(p), index' = index, cells' = cells, made' = made,
         \A f \in Files : owner'[f] \in {owner[f], Nobody}, pc'[p] \notin Appends,
         pc'[p] \in Opening => pc[p] \in Opening, pc'[p] \notin {"truncate", "retry"}
  PROVE  RInv'
<1>1. Pointed'
  BY SamePointed
<1>2. AppendingAt(p)'
  BY DEF AppendingAt, Appends
<1> QED BY <1>1, <1>2, QuietRecords

LEMMA ClaimRecords ==
  ASSUME SInv, RInv, NEW p \in Procs, Same(p), Claim(p), at[p] \in made, pc[p] \in Opening,
         index' = index, cells' = cells, made' = made
  PROVE  RInv'
<1> USE DEF SInv
<1>1. /\ pc'[p] = "scan"
      /\ \A f \in Files \ {at[p]} : owner'[f] = owner[f]
  <2>1. at[p] \in Files
    BY DEF TypeOK
  <2> QED BY <2>1, ClaimType DEF TypeOK
<1>2. Pointed'
  BY SamePointed
<1>3. AppendingAt(p)'
  BY <1>1 DEF AppendingAt
<1>4. Appending'
  BY <1>3, OthersAppending DEF Appending, RInv
<1>5. \A q \in Procs \ {p} : pc'[q] = pc[q] /\ at'[q] = at[q] /\ pc[q] \notin Opening
  BY DEF Same, RInv, Unclaimed
<1>6. "truncate" \in Opening /\ "retry" \in Opening
  BY DEF Opening
<1>7. Unclaimed'
  <2>1. \A f \in Files \ made' : cells'[f] = << >> /\ owner'[f] = Nobody
    BY <1>1 DEF RInv, Unclaimed
  <2>2. \A q \in Procs : pc'[q] \notin {"truncate", "retry"}
    BY <1>1, <1>5, <1>6
  <2>3. \A q, r \in Procs : pc'[q] \in Opening /\ pc'[r] \in Opening => q = r
    BY <1>5
  <2> QED BY <2>1, <2>2, <2>3 DEF Unclaimed
<1> QED BY <1>2, <1>4, <1>7 DEF RInv

LEMMA OpeningRecords ==
  ASSUME OpenSerially, SInv, RInv, NEW p \in Procs, Open(p) \/ Create(p) \/ Truncate(p), Same(p)
  PROVE  RInv'
<1> USE DEF shared, flocks, local, hist, SInv
<1>0. index' = index /\ owner' = owner
  BY DEF Open, Create, Truncate
<1>a. \A q \in Procs \ {p} : pc'[q] = pc[q] /\ at'[q] = at[q] /\ mine'[q] = mine[q]
  BY DEF Same
<1>b. {"first", "share", "scan", "truncate", "retry", "create"} \subseteq Opening /\ Opening \subseteq Labels
      /\ Opening \cap Appends = {}
  BY DEF Opening, Labels, Appends
<1>1. CASE Open(p)
  <2>1. \A q \in Procs : pc[q] \notin Opening
    BY <1>1 DEF Open
  <2>2. \E l \in {"first", "share"} : Goto(p, l)
    BY <1>1 DEF Open
  <2>3. pc'[p] \in {"first", "share"}
    BY <1>b, <2>2, GotoType
  <2>4. cells' = cells /\ made' = made
    BY <1>1 DEF Open
  <2>5. Pointed'
    BY <1>0, <2>4, SamePointed
  <2>6. AppendingAt(p)'
    BY <2>3 DEF AppendingAt
  <2>7. Appending'
    BY <2>4, <2>6, OthersAppending DEF Appending, RInv
  <2>8. \A q \in Procs : pc'[q] \notin {"truncate", "retry"}
    BY <1>a, <1>b, <2>1, <2>3
  <2>9. Unclaimed'
    BY <1>0, <1>a, <2>1, <2>4, <2>8 DEF RInv, Unclaimed
  <2> QED BY <2>5, <2>7, <2>9 DEF RInv
<1>2. ASSUME pc[p] \in Opening PROVE \A q \in Procs \ {p} : pc'[q] \notin Opening
  BY <1>a, <1>2 DEF RInv, Unclaimed
<1>3. CASE Create(p)
  <2>1. pc[p] = "create" /\ at[p] \in Files /\ cells' = cells
    BY <1>3 DEF Create, Placed, PlacedAt
  <2>2. pc[p] \in Opening
    BY <1>b, <2>1
  <2>3. Pointed'
    BY <1>0, <2>1, SamePointed
  <2>4. \/ pc'[p] = "scan" /\ made' = made
        \/ pc'[p] = "truncate" /\ at[p] \notin made /\ made' = made \cup {at[p]} /\ at' = at
    BY <1>3, <1>b, GotoType DEF Create
  <2>5. AppendingAt(p)'
    BY <2>4 DEF AppendingAt
  <2>6. Appending'
    BY <2>1, <2>5, OthersAppending DEF Appending, RInv
  <2>7. \A q \in Procs \ {p} : pc'[q] \notin Opening
    BY <1>2, <2>2
  <2>8. \A q \in Procs \ {p} : pc'[q] \notin {"truncate", "retry"}
    BY <1>b, <2>7
  <2>9. Unclaimed'
    BY <1>0, <2>1, <2>4, <2>7, <2>8 DEF RInv, Unclaimed
  <2> QED BY <2>3, <2>6, <2>9 DEF RInv
<1>4. CASE Truncate(p)
  <2>1. pc[p] = "truncate" /\ at[p] \in Files /\ made' = made /\ at' = at
    BY <1>4 DEF Truncate, Placed, PlacedAt
  <2>2. pc[p] \in Opening
    BY <1>b, <2>1
  <2>3. cells[at[p]] = << >> /\ owner[at[p]] = Nobody /\ at[p] \in made
    BY <2>1 DEF RInv, Unclaimed
  <2>4. pc'[p] = "retry" /\ \A g \in Files \ {at[p]} : cells'[g] = cells[g]
    BY <1>4, <1>b, GotoType DEF Truncate, TypeOK
  <2>5. Pointed'
    <3>1. \A f \in Files : \A n \in 1..Len(cells[f]) :
            cells[f][n].tc # 0 => n \in 1..Len(cells'[f]) /\ cells'[f][n] = cells[f][n]
      <4> SUFFICES ASSUME NEW f \in Files, NEW n \in 1..Len(cells[f])
                   PROVE  cells'[f] = cells[f]
        OBVIOUS
      <4>1. f # at[p]
        BY <2>3
      <4> QED BY <2>4, <4>1
    <3> QED BY <1>0, <3>1, GrownPointed
  <2>6. AppendingAt(p)'
    BY <2>4 DEF AppendingAt
  <2>7. ASSUME NEW q \in Procs \ {p}, pc[q] \in Appends PROVE cells'[mine[q]] = cells[mine[q]]
    <3>1. mine[q] \in Files /\ owner[mine[q]] = q
      BY <2>7, MineFacts, AppendsIn
    <3>2. mine[q] # at[p]
      BY <2>3, <3>1, KeyValueStoreAssumption
    <3> QED BY <2>4, <3>1, <3>2
  <2>8. Appending'
    BY <2>6, <2>7, OthersAppending DEF Appending, RInv
  <2>9. \A q \in Procs \ {p} : pc'[q] \notin Opening
    BY <1>2, <2>2
  <2>10. \A q \in Procs \ {p} : pc'[q] \notin {"truncate", "retry"}
    BY <1>b, <2>9
  <2>11. Unclaimed'
    BY <1>0, <2>1, <2>3, <2>4, <2>9, <2>10 DEF RInv, Unclaimed
  <2> QED BY <2>5, <2>8, <2>11 DEF RInv
<1> QED BY <1>1, <1>3, <1>4

LEMMA ConstructorRecords ==
  ASSUME OpenSerially, SInv, RInv, NEW p \in Procs, Constructor(p), Same(p)
  PROVE  RInv'
<1> USE DEF shared, flocks, local, hist, SInv
<1>1. CASE Open(p) \/ Create(p) \/ Truncate(p)
  BY <1>1, OpeningRecords
<1>2. CASE Scan(p) /\ at[p] \in made
  <2>1. Claim(p) /\ pc[p] \in Opening /\ index' = index /\ cells' = cells /\ made' = made
    BY <1>2 DEF Scan, Opening
  <2> QED BY <1>2, <2>1, ClaimRecords
<1>3. CASE Retry(p)
  <2>1. Claim(p) /\ pc[p] = "retry" /\ index' = index /\ cells' = cells /\ made' = made
    BY <1>3 DEF Retry
  <2>2. pc[p] \in Opening /\ at[p] \in made
    BY <2>1 DEF Opening, RInv, Unclaimed
  <2> QED BY <2>1, <2>2, ClaimRecords
<1>4. CASE Gone(p) /\ Opened(p)
  <2>1. index' = index /\ cells' = cells /\ made' = made
    BY <1>4 DEF Opened
  <2> QED BY <1>4, <2>1, GoneRecords
<1>5. CASE \/ FirstEntrant(p) \/ WriteHeader(p) \/ ShareIndex(p) \/ (Scan(p) /\ at[p] \notin made)
           \/ (Opened(p) /\ ~Gone(p)) \/ UseMmaps(p)
  <2> DEFINE L == {"header", "share", "scan", "closed", "create", "opened", "mmaps", "ready"}
  <2>1. index' = index /\ cells' = cells /\ made' = made /\ owner' = owner
    BY <1>5 DEF FirstEntrant, WriteHeader, ShareIndex, Scan, Opened, UseMmaps
  <2>2. \E l \in L : Goto(p, l)
    BY <1>5 DEF FirstEntrant, WriteHeader, ShareIndex, Scan, Opened, UseMmaps
  <2>3. L \subseteq Labels
    BY DEF Labels, Opening
  <2>4. pc'[p] \in L
    BY <2>2, <2>3, GotoType
  <2>5. pc[p] \in Opening \/ (pc[p] = "mmaps" /\ pc'[p] = "ready")
    BY <1>5, GotoType DEF FirstEntrant, WriteHeader, ShareIndex, Scan, Opened, UseMmaps, Opening, Labels
  <2>6. /\ pc'[p] \in Opening => pc[p] \in Opening
        /\ pc'[p] \notin {"truncate", "retry"} /\ pc'[p] \notin Appends
    BY <2>4, <2>5 DEF Opening, Appends
  <2> QED BY <2>1, <2>6, IdleRecords
<1> QED BY <1>1, <1>2, <1>3, <1>4, <1>5 DEF Constructor

LEMMA EndsRecords ==
  ASSUME RInv, TypeOK, NEW p \in Procs, Ends(p), UNCHANGED <<index, cells, made, owner>>
  PROVE  RInv'
<1>1. Same(p) /\ pc'[p] = "ready"
  BY EndsType
<1>2. pc'[p] \notin Opening /\ pc'[p] \notin Appends /\ pc'[p] \notin {"truncate", "retry"}
  BY <1>1 DEF Opening, Appends
<1> QED BY <1>1, <1>2, IdleRecords

\* Closing the store, and what a transaction does before it counts.
LEMMA IdlingRecords ==
  ASSUME RInv, TypeOK, NEW p \in Procs, Same(p), UNCHANGED <<index, cells, made>>,
         \A f \in Files : owner'[f] \in {owner[f], Nobody},
         NEW l \in {"closing", "hash", "ready", "read", "count", "shared"}, Goto(p, l)
  PROVE  RInv'
<1>1. l \in Labels
  BY DEF Labels, Committing
<1>2. pc'[p] = l
  BY <1>1, GotoType
<1>3. pc'[p] \notin Opening /\ pc'[p] \notin Appends /\ pc'[p] \notin {"truncate", "retry"}
  BY <1>2 DEF Opening, Appends
<1> QED BY <1>3, IdleRecords

LEMMA CloseRecords ==
  ASSUME SInv, RInv, NEW p \in Procs, Close(p) \/ CloseIndex(p) \/ Closed(p), Same(p)
  PROVE  RInv'
<1> USE DEF shared, flocks, local, hist, SInv
<1>1. UNCHANGED <<index, cells, made>>
  BY DEF Close, CloseIndex, Closed
<1>2. CASE Closed(p)
  BY <1>1, <1>2, GoneRecords DEF Closed
<1>3. CASE Close(p) \/ CloseIndex(p)
  <2>1. \A f \in Files : owner'[f] \in {owner[f], Nobody}
    BY <1>3 DEF Close, CloseIndex, TypeOK
  <2>2. Goto(p, "closing") \/ Goto(p, "hash")
    BY <1>3 DEF Close, CloseIndex
  <2> QED BY <1>1, <2>1, <2>2, IdlingRecords
<1> QED BY <1>2, <1>3

LEMMA StagingRecords ==
  ASSUME SInv, RInv, NEW p \in Procs, NEW c \in Calls[p],
         Fetch(p, c.key) \/ Stage(p, c) \/ StageUnsafe(p, c), Same(p)
  PROVE  RInv'
<1> USE DEF shared, flocks, local, hist, SInv
<1>1. UNCHANGED <<index, cells, made, owner>>
  BY DEF Fetch, Stage, StageUnsafe
<1>2. CASE Ends(p)
  BY <1>1, <1>2, EndsRecords
<1>3. CASE Goto(p, "read")
  BY <1>1, <1>3, IdlingRecords
<1>4. CASE UNCHANGED pc
  <2>1. pc'[p] = "ready"
    BY <1>4 DEF Fetch, Stage, StageUnsafe
  <2>2. pc'[p] \notin Opening /\ pc'[p] \notin Appends /\ pc'[p] \notin {"truncate", "retry"}
    BY <2>1 DEF Opening, Appends
  <2> QED BY <1>1, <2>2, IdleRecords
<1> QED BY <1>2, <1>3, <1>4 DEF Fetch, Stage, StageUnsafe

LEMMA WaitingRecords ==
  ASSUME SInv, RInv, NEW p \in Procs, Read(p) \/ Commit(p) \/ LockShared(p) \/ AppendFails(p) \/ Finish(p), Same(p)
  PROVE  RInv'
<1> USE DEF shared, flocks, local, hist, SInv
<1>1. UNCHANGED <<index, cells, made>>
  BY DEF Read, Commit, LockShared, AppendFails, Finish
<1>2. CASE Gone(p)
  BY <1>1, <1>2, GoneRecords
<1>3. CASE ~Gone(p)
  <2>1. UNCHANGED owner
    BY <1>3 DEF Read, Commit, LockShared, AppendFails, Finish, Dies
  <2>2. CASE Ends(p)
    BY <1>1, <2>1, <2>2, EndsRecords
  <2>3. CASE ~Ends(p)
    <3>1. \E l \in {"ready", "count", "shared"} : Goto(p, l)
      BY <1>3, <2>3 DEF Read, Commit, LockShared, AppendFails, Finish, Dies
    <3> QED BY <1>1, <2>1, <3>1, IdlingRecords
  <2> QED BY <2>2, <2>3
<1> QED BY <1>2, <1>3

Writing == {"exclusive", "insert", "begin", "apply"}

\* The records of p stay where they are while it locks its keys and writes them.
LEMMA KeepsAppending ==
  ASSUME RInv, NEW p \in Procs, pc[p] \in Writing, pc'[p] \in Writing, cells' = cells,
         mine'[p] = mine[p], mytx'[p] = mytx[p], DOMAIN items'[p] = DOMAIN items[p],
         \A n \in DOMAIN items[p] : items'[p][n].key = items[p][n].key /\ items'[p][n].off = items[p][n].off
  PROVE  AppendingAt(p)'
<1>1. AppendingAt(p) /\ pc'[p] \notin {"append", "fill"}
  BY DEF RInv, Appending, Writing
<1>2. \A n \in DOMAIN items[p] : IsAt(mine[p], items[p][n].off, items[p][n].key, mytx[p])
  BY <1>1 DEF AppendingAt, Writing
<1>3. \A n \in DOMAIN items'[p] : IsAt(mine[p], items[p][n].off, items[p][n].key, mytx[p])'
  BY <1>2 DEF IsAt
<1> QED BY <1>1, <1>3 DEF AppendingAt, IsAt

LEMMA WritingIn == Writing \cap (Opening \cup {"truncate", "retry"}) = {}
BY DEF Writing, Opening

LEMMA CountRecords ==
  ASSUME SInv, RInv, NEW p \in Procs, Count(p)
  PROVE  RInv'
<1> USE DEF flocks, hist, SInv
<1>1. UNCHANGED <<index, cells, made, owner, mine>>
  BY DEF Count
<1>2. Same(p) /\ pc'[p] = "append" /\ base'[p] = Len(cells[mine[p]])
  BY CountType
<1>3. AppendingAt(p)'
  BY <1>1, <1>2 DEF AppendingAt
<1>4. pc'[p] \notin Opening /\ pc'[p] \notin {"truncate", "retry"}
  BY <1>2 DEF Opening
<1> QED BY <1>1, <1>2, <1>3, <1>4, SamePointed, QuietRecords

LEMMA LockExclusiveRecords ==
  ASSUME SInv, RInv, NEW p \in Procs, LockExclusive(p)
  PROVE  RInv'
<1> USE DEF SInv
<1> DEFINE i == items[p][at[p]]
<1>1. pc[p] = "exclusive" /\ UNCHANGED <<index, cells, made>>
  BY DEF LockExclusive
<1>2. /\ Same(p) /\ at[p] \in DOMAIN items[p]
      /\ \/ Dies(p)
         \/ Locks(p, i.key)
         \/ pc'[p] = "insert" /\ UNCHANGED <<owner, mine, items, mytx>>
  BY LockExclusiveType
<1>3. CASE Dies(p)
  BY <1>1, <1>3, GoneRecords DEF Dies
<1>4. CASE ~Dies(p)
  <2>1. i.key \in Keys
    BY <1>2, ItemFacts
  <2>2. pc'[p] \in Writing /\ UNCHANGED <<owner, mine, items, mytx>>
    BY <1>2, <1>4, <2>1, LocksType DEF Writing
  <2>3. AppendingAt(p)'
    BY <1>1, <2>2, KeepsAppending DEF Writing
  <2> QED BY <1>1, <1>2, <2>2, <2>3, WritingIn, SamePointed, QuietRecords
<1> QED BY <1>3, <1>4

LEMMA InsertRecords ==
  ASSUME SInv, RInv, NEW p \in Procs, Insert(p)
  PROVE  RInv'
<1> USE DEF SInv
<1> DEFINE k == items[p][at[p]].key
<1>1. pc[p] = "insert" /\ UNCHANGED <<cells, made>>
  BY DEF Insert
<1>2. /\ Same(p) /\ k \in Keys
      /\ \/ Dies(p) /\ UNCHANGED index
         \/ Locks(p, k) /\ (UNCHANGED index \/ index' = [index EXCEPT ![k] = Empty])
  BY InsertType
<1>3. CASE Dies(p) /\ UNCHANGED index
  BY <1>1, <1>3, GoneRecords DEF Dies
<1>4. CASE Locks(p, k) /\ (UNCHANGED index \/ index' = [index EXCEPT ![k] = Empty])
  <2> HIDE DEF k
  <2>2. pc'[p] \in Writing /\ UNCHANGED <<owner, mine, items, mytx>>
    BY <1>2, <1>4, LocksType DEF Writing
  <2>3. AppendingAt(p)'
    BY <1>1, <2>2, KeepsAppending DEF Writing
  <2>4. Pointed'
    <3>1. CASE UNCHANGED index
      BY <1>1, <3>1, SamePointed
    <3>2. CASE index' = [index EXCEPT ![k] = Empty]
      <4> SUFFICES ASSUME NEW j \in Keys, Here(j)', NEW n \in 1..Depth, index'[j][n].tc # 0
                   PROVE  IsAt(index[j][n].file, index[j][n].off, j, index[j][n].tc)'
        BY DEF Pointed
      <4>1. j # k
        <5>1. \A m \in 1..Depth : Empty[m].tc = 0
          BY DEF Empty, NoValue
        <5> QED BY <3>2, <5>1 DEF TypeOK
      <4>2. index'[j] = index[j] /\ Here(j)
        BY <3>2, <4>1 DEF TypeOK, Here
      <4>3. IsAt(index[j][n].file, index[j][n].off, j, index[j][n].tc)
        BY <4>2 DEF RInv, Pointed
      <4> QED BY <1>1, <4>2, <4>3 DEF IsAt
    <3> QED BY <1>4, <3>1, <3>2
  <2> QED BY <1>1, <1>2, <2>2, <2>3, <2>4, WritingIn, QuietRecords
<1> QED BY <1>2, <1>3, <1>4

LEMMA BeginRecords ==
  ASSUME SInv, RInv, NEW p \in Procs, Begin(p)
  PROVE  RInv'
<1> USE DEF SInv
<1>1. pc[p] = "begin"
  BY DEF Begin
<1>2. /\ Same(p) /\ UNCHANGED <<index, made, cells>>
      /\ \/ Dies(p)
         \/ Ends(p) /\ UNCHANGED owner
         \/ pc'[p] = "apply" /\ UNCHANGED <<owner, mine, items, mytx>>
  BY BeginType
<1>3. CASE Dies(p)
  BY <1>2, <1>3, GoneRecords DEF Dies
<1>4. CASE Ends(p) /\ UNCHANGED owner
  BY <1>2, <1>4, EndsRecords
<1>5. CASE pc'[p] = "apply" /\ UNCHANGED <<owner, mine, items, mytx>>
  <2>1. pc[p] \in Writing /\ pc'[p] \in Writing
    BY <1>1, <1>5 DEF Writing
  <2>2. AppendingAt(p)'
    BY <1>2, <1>5, <2>1, KeepsAppending
  <2> QED BY <1>2, <1>5, <2>1, <2>2, WritingIn, SamePointed, QuietRecords
<1> QED BY <1>2, <1>3, <1>4, <1>5

LEMMA ApplyRecords ==
  ASSUME SInv, RInv, NEW p \in Procs, Apply(p)
  PROVE  RInv'
<1> USE DEF SInv, LInv
<1> DEFINE i == items[p][at[p]]
           k == i.key
           v == NewHead(p)
           h == Pushed(index[k], v)
<1>1. pc[p] = "apply"
  BY DEF Apply
<1>2. /\ Same(p) /\ at[p] \in DOMAIN items[p] /\ k \in Keys /\ Here(k)
      /\ UNCHANGED <<owner, pc, mine, mytx, cells, made>>
      /\ DOMAIN items'[p] = DOMAIN items[p]
      /\ \A m \in DOMAIN items[p] : items'[p][m].key = items[p][m].key /\ items'[p][m].off = items[p][m].off
      /\ \A j \in Keys \ {k} : index'[j] = index[j]
      /\ index'[k] = h \/ index'[k] = << >>
  BY ApplyType
<1>3. pc[p] \in Writing /\ pc'[p] \in Writing
  BY <1>1, <1>2 DEF Writing
<1>4. AppendingAt(p)'
  BY <1>2, <1>3, KeepsAppending
<1>5. v.tc # 0 => IsAt(v.file, v.off, k, v.tc)
  <2>1. IsAt(mine[p], i.off, k, mytx[p])
    BY <1>1, <1>2 DEF RInv, Appending, AppendingAt
  <2> HIDE DEF i
  <2>2. v = NoValue \/ v = [tc |-> mytx[p], file |-> mine[p], off |-> i.off]
    BY DEF NewHead, i
  <2> HIDE DEF v, k
  <2> QED BY <2>1, <2>2 DEF NoValue
<1>6. index[k] \in [1..Depth -> Values] /\ v \in Values
  <2>1. index[k] \in [1..Depth -> Values]
    BY <1>2, HereFacts
  <2>2. i.off \in Nat
    BY <1>2, ItemFacts
  <2>3. v \in Values
    BY <2>2, KeyValueStoreAssumption DEF NewHead, Values, NoValue, TypeOK
  <2> QED BY <2>1, <2>3
<1>7. \A n \in 1..Depth : h[n] = v \/ \E m \in 1..Depth : h[n] = index[k][m]
  <2> HIDE DEF v, k
  <2> QED BY <1>6, PushedFacts
<1> HIDE DEF h, v, k
<1>8. \A n \in 1..Depth : h[n].tc # 0 => IsAt(h[n].file, h[n].off, k, h[n].tc)
  <2>1. \A n \in 1..Depth : index[k][n].tc # 0 => IsAt(index[k][n].file, index[k][n].off, k, index[k][n].tc)
    BY <1>2 DEF RInv, Pointed
  <2> SUFFICES ASSUME NEW n \in 1..Depth, h[n].tc # 0 PROVE IsAt(h[n].file, h[n].off, k, h[n].tc)
    OBVIOUS
  <2>2. CASE h[n] = v
    BY <1>5, <2>2
  <2>3. CASE \E m \in 1..Depth : h[n] = index[k][m]
    BY <2>1, <2>3
  <2> QED BY <1>7, <2>2, <2>3
<1>9. Pointed'
  <2> SUFFICES ASSUME NEW j \in Keys, Here(j)', NEW n \in 1..Depth, index'[j][n].tc # 0
               PROVE  IsAt(index[j][n].file, index[j][n].off, j, index[j][n].tc)'
    BY DEF Pointed
  <2>1. IsAt(index'[j][n].file, index'[j][n].off, j, index'[j][n].tc)
    <3>1. CASE j = k
      <4>1. index'[j] = h
        BY <1>2, <3>1 DEF Here
      <4> QED BY <1>8, <3>1, <4>1
    <3>2. CASE j # k
      <4>1. index'[j] = index[j] /\ Here(j)
        BY <1>2, <3>2 DEF Here
      <4> QED BY <4>1 DEF RInv, Pointed
    <3> QED BY <3>1, <3>2
  <2> QED BY <1>2, <2>1 DEF IsAt
<1> QED BY <1>2, <1>3, <1>4, <1>9, WritingIn, QuietRecords

\* What the records of p are once they are written.
LEMMA WrittenRecords ==
  ASSUME SInv, RInv, NEW p \in Procs, pc[p] \in InStore, Written(p), cells' \in [Files -> Contents],
         \A g \in Files \ {mine[p]} : cells'[g] = cells[g],
         \A n \in 1..Len(cells[mine[p]]) :
           cells[mine[p]][n].tc # 0 => n \in 1..Len(cells'[mine[p]]) /\ cells'[mine[p]][n] = cells[mine[p]][n],
         \A n \in DOMAIN items[p] : /\ base[p] + n \in 1..Len(cells'[mine[p]])
                                    /\ cells'[mine[p]][base[p] + n] = Record(p, n)
  PROVE  RInv'
<1> USE DEF SInv
<1>1. /\ Same(p) /\ UNCHANGED <<index, owner, mine, made>>
      /\ \/ Ends(p)
         \/ /\ items'[p] = Offsets(p) /\ mytx' = mytx
            /\ pc'[p] = IF items[p] = << >> THEN "begin" ELSE "exclusive"
  BY WrittenType
<1>2. CASE Ends(p)
  <2>1. pc'[p] = "ready"
    BY <1>2, EndsType
  <2>2. AppendingAt(p)' /\ pc'[p] \in InStore
    BY <2>1 DEF AppendingAt, InStore
  <2> QED BY <1>1, <2>2, OwnWrite
<1>3. CASE /\ items'[p] = Offsets(p) /\ mytx' = mytx
           /\ pc'[p] = IF items[p] = << >> THEN "begin" ELSE "exclusive"
  <2>1. pc'[p] \in {"begin", "exclusive"} /\ pc'[p] \in InStore
    BY <1>3 DEF InStore, Committing
  <2>2. mine[p] \in Files
    BY MineFacts
  <2>3. /\ DOMAIN items'[p] = DOMAIN items[p]
        /\ \A n \in DOMAIN items[p] : items'[p][n].key = items[p][n].key /\ items'[p][n].off = base[p] + n
    BY <1>3, OffsetsFacts
  <2>4. ASSUME NEW n \in DOMAIN items'[p]
        PROVE  IsAt(mine[p], items[p][n].off, items[p][n].key, mytx[p])'
    <3>1. n \in DOMAIN items[p] /\ items'[p][n].off = base[p] + n /\ items'[p][n].key = items[p][n].key
      BY <2>3
    <3>2. base[p] + n \in 1..Len(cells'[mine[p]]) /\ cells'[mine[p]][base[p] + n] = Record(p, n)
      BY <3>1
    <3>3. mine'[p] = mine[p] /\ mytx'[p] = mytx[p]
      BY <1>1, <1>3
    <3> QED BY ONLY <2>2, <3>1, <3>2, <3>3 DEF IsAt, Record
  <2>5. AppendingAt(p)'
    BY <2>1, <2>4 DEF AppendingAt
  <2> QED BY <1>1, <2>1, <2>5, OwnWrite
<1> QED BY <1>1, <1>2, <1>3

LEMMA AppendRecordsRecords ==
  ASSUME SInv, RInv, NEW p \in Procs, AppendRecords(p)
  PROVE  RInv'
<1> USE DEF SInv
<1> DEFINE c == cells[mine[p]]
           r == Records(p)
           d == cells'[mine[p]]
<1>1. pc[p] = "append" /\ pc[p] \in InStore /\ Written(p)
  BY DEF AppendRecords, InStore, Committing
<1>2. cells' \in [Files -> Contents] /\ d = c \o r /\ \A g \in Files \ {mine[p]} : cells'[g] = cells[g]
  BY AppendRecordsType
<1>3. c \in Contents /\ r \in Contents /\ base[p] = Len(c)
  BY <1>1, MineFacts, RecordsFacts DEF RInv, Appending, AppendingAt
<1>4. Len(r) = Len(items[p]) /\ DOMAIN items[p] = 1..Len(items[p]) /\ \A n \in DOMAIN items[p] : r[n] = Record(p, n)
  BY RecordsFacts, ItemFacts
<1> HIDE DEF c, r, d
<1>5. /\ Len(c) \in Nat /\ Len(r) \in Nat /\ Len(d) = Len(c) + Len(r)
      /\ \A n \in 1..Len(c) : d[n] = c[n]
      /\ \A n \in 1..Len(r) : d[Len(c) + n] = r[n]
  BY ONLY <1>2, <1>3, Joined
<1>6. \A n \in 1..Len(c) : n \in 1..Len(d) /\ d[n] = c[n]
  BY ONLY <1>5
<1>7. \A n \in 1..Len(r) : Len(c) + n \in 1..Len(d)
  BY ONLY <1>5
<1>8. \A n \in DOMAIN items[p] : base[p] + n \in 1..Len(d) /\ d[base[p] + n] = Record(p, n)
  BY ONLY <1>3, <1>4, <1>5, <1>7
<1> QED BY <1>1, <1>2, <1>6, <1>8, WrittenRecords DEF c, d

LEMMA FillMapRecords ==
  ASSUME SInv, RInv, NEW p \in Procs, FillMap(p)
  PROVE  RInv'
<1> USE DEF SInv
<1> DEFINE c == cells[mine[p]]
           d == cells'[mine[p]]
           b == base[p]
           N == Len(items[p])
<1>1. pc[p] = "fill" /\ pc[p] \in InStore /\ Written(p)
  BY DEF FillMap, InStore, Committing
<1>2. /\ cells' \in [Files -> Contents] /\ Len(d) = Len(c)
      /\ \A n \in 1..Len(c) : d[n] = IF n - b \in DOMAIN items[p] THEN Record(p, n - b) ELSE c[n]
      /\ \A g \in Files \ {mine[p]} : cells'[g] = cells[g]
  BY FillMapType
<1>3. Len(c) = b + N /\ \A n \in b + 1..Len(c) : c[n].tc = 0
  BY <1>1 DEF RInv, Appending, AppendingAt
<1>4. b \in Nat /\ N \in Nat /\ DOMAIN items[p] = 1..N
  BY ItemFacts DEF TypeOK
<1> HIDE DEF c, d, b, N
<1>5. ASSUME NEW n \in 1..Len(c), c[n].tc # 0 PROVE n \in 1..Len(d) /\ d[n] = c[n]
  <2>1. n \notin b + 1..Len(c)
    BY ONLY <1>3, <1>5
  <2>2. n - b \notin 1..N
    BY ONLY <1>3, <1>4, <2>1, n \in 1..Len(c)
  <2> QED BY ONLY <1>2, <1>4, <2>2, n \in 1..Len(c)
<1>6. ASSUME NEW n \in DOMAIN items[p] PROVE b + n \in 1..Len(d) /\ d[b + n] = Record(p, n)
  <2>1. b + n \in 1..Len(c) /\ (b + n) - b = n
    BY ONLY <1>3, <1>4, n \in DOMAIN items[p]
  <2> QED BY ONLY <1>2, <2>1, n \in DOMAIN items[p]
<1> QED BY <1>1, <1>2, <1>5, <1>6, WrittenRecords DEF c, d, b

LEMMA ExtendMapRecords ==
  ASSUME SInv, RInv, NEW p \in Procs, ExtendMap(p)
  PROVE  RInv'
<1> USE DEF SInv
<1> DEFINE c == cells[mine[p]]
           d == cells'[mine[p]]
           b == base[p]
           N == Len(items[p])
<1>1. /\ pc[p] = "append" /\ pc[p] \in InStore
      /\ UNCHANGED <<index, made, owner, mine, items, base>>
  BY DEF ExtendMap, InStore, Committing, flocks, local
<1>2. /\ Same(p) /\ pc'[p] = "fill" /\ d = Extended(c, b + N)
      /\ \A g \in Files \ {mine[p]} : cells'[g] = cells[g]
  BY ExtendMapType
<1>3. c \in Contents /\ b = Len(c)
  BY <1>1, MineFacts DEF RInv, Appending, AppendingAt
<1>4. b \in Nat /\ N \in Nat
  BY ItemFacts DEF TypeOK
<1> HIDE DEF c, d, b, N
<1>5. b + N \in Nat
  BY <1>4
<1>6. Len(d) = b + N /\ \A n \in 1..b + N : d[n] = IF n <= Len(c) THEN c[n] ELSE Padding
  BY ONLY <1>2, <1>3, <1>5, ExtendedFacts
<1>7. \A n \in 1..Len(c) : n \in 1..Len(d) /\ d[n] = c[n]
  BY ONLY <1>3, <1>4, <1>6
<1>8. \A n \in b + 1..Len(d) : n \in 1..b + N /\ ~(n <= Len(c))
  BY ONLY <1>3, <1>4, <1>6
<1>9. \A n \in b + 1..Len(d) : d[n].tc = 0
  BY ONLY <1>6, <1>8 DEF Padding
<1>10. AppendingAt(p)'
  BY <1>1, <1>2, <1>6, <1>9 DEF AppendingAt, d, b, N
<1>11. pc'[p] \in InStore
  BY <1>2 DEF InStore, Committing
<1> QED BY <1>1, <1>2, <1>7, <1>10, <1>11, OwnWrite DEF c, d

\* Every step of a process leaves the records where the index has them.
LEMMA RInvStep ==
  ASSUME OpenSerially, SInv, RInv, NEW p \in Procs, Steps(p) \/ Client(p) \/ Crash(p)
  PROVE  RInv'
<1>0. Same(p)
  BY SInvStep
<1>1. CASE Constructor(p)
  BY <1>0, <1>1, ConstructorRecords
<1>2. CASE Close(p) \/ CloseIndex(p) \/ Closed(p)
  BY <1>0, <1>2, CloseRecords
<1>3. CASE \E c \in Calls[p] : Fetch(p, c.key) \/ Stage(p, c) \/ StageUnsafe(p, c)
  BY <1>0, <1>3, StagingRecords
<1>4. CASE Read(p) \/ Commit(p) \/ LockShared(p) \/ AppendFails(p) \/ Finish(p)
  BY <1>0, <1>4, WaitingRecords
<1>5. CASE Count(p) \/ AppendRecords(p) \/ ExtendMap(p) \/ FillMap(p)
  BY <1>5, CountRecords, AppendRecordsRecords, ExtendMapRecords, FillMapRecords
<1>6. CASE LockExclusive(p) \/ Insert(p) \/ Begin(p) \/ Apply(p)
  BY <1>6, LockExclusiveRecords, InsertRecords, BeginRecords, ApplyRecords
<1>7. CASE Crash(p)
  <2>1. TypeOK /\ Gone(p) /\ UNCHANGED <<index, cells, made>>
    BY <1>7 DEF Crash, Dies, shared, SInv
  <2> QED BY <2>1, GoneRecords
<1> QED BY <1>1, <1>2, <1>3, <1>4, <1>5, <1>6, <1>7 DEF Steps, Client, Constructor

LEMMA RInvStutter ==
  ASSUME RInv, UNCHANGED vars
  PROVE  RInv'
<1> USE DEF vars, shared, flocks, local, hist
<1>1. Pointed'
  BY SamePointed
<1>2. Appending' /\ Unclaimed'
  BY DEF RInv, Appending, AppendingAt, IsAt, Unclaimed
<1> QED BY <1>1, <1>2 DEF RInv

LEMMA InitRInv == Init => RInv
<1> SUFFICES ASSUME Init PROVE RInv
  OBVIOUS
<1>1. \A p \in Procs : pc[p] = "closed"
  BY DEF Init
<1>2. Appending
  BY <1>1 DEF Appending, AppendingAt
<1>3. Pointed /\ \A f \in Files \ made : cells[f] = << >>
  <2>1. CASE New
    BY <2>1 DEF New, Pointed, Here
  <2>2. CASE Used
    <3>1. \A k \in Keys : /\ index[k][1].tc = 1 /\ index[k][1].file = 1 /\ IsAt(1, index[k][1].off, k, 1)
                          /\ \A n \in 1..Depth : n # 1 => index[k][n].tc = 0
      BY <2>2, UsedFacts
    <3>2. Pointed
      <4> SUFFICES ASSUME NEW k \in Keys, NEW n \in 1..Depth, index[k][n].tc # 0
                   PROVE  IsAt(index[k][n].file, index[k][n].off, k, index[k][n].tc)
        BY DEF Pointed
      <4>1. n = 1
        BY <3>1
      <4> QED BY <3>1, <4>1
    <3>3. \A f \in Files \ {1} : cells[f] = << >>
      BY <2>2, UsedFacts
    <3>4. made = {1}
      BY <2>2 DEF Used
    <3> QED BY <3>2, <3>3, <3>4
  <2> QED BY <2>1, <2>2 DEF Init
<1>4. Unclaimed
  <2>1. \A f \in Files : owner[f] = Nobody
    BY DEF Init
  <2>2. \A p \in Procs : pc[p] \notin Opening /\ pc[p] \notin {"truncate", "retry"}
    BY <1>1 DEF Opening
  <2> QED BY <1>3, <2>1, <2>2 DEF Unclaimed
<1> QED BY <1>2, <1>3, <1>4 DEF RInv

LEMMA RInvAlways ==
  ASSUME OpenSerially
  PROVE  Spec => []RInv
<1>1. SInv /\ RInv /\ [Next]_vars => RInv'
  BY RInvStep, RInvStutter DEF Next
<1> QED BY <1>1, InitRInv, SInvAlways, PTL DEF Spec

LEMMA PointedIntact == TypeOK /\ Pointed => RecordsIntact
<1> SUFFICES ASSUME Pointed, NEW k \in Keys, Here(k), NEW n \in 1..Depth, index[k][n].tc # 0
             PROVE  RecordAt(index[k][n].file, index[k][n].off) = [key |-> k, tc |-> index[k][n].tc]
  BY DEF RecordsIntact
<1>1. IsAt(index[k][n].file, index[k][n].off, k, index[k][n].tc)
  BY DEF Pointed
<1> QED BY <1>1 DEF IsAt, RecordAt

\* As long as the store is opened by one process at a time, every revision in
\* the index is the record that was appended for it, in the small file and at
\* the offset it names, whatever processes died in the middle of a commit().
THEOREM RecordsIntactHolds ==
  ASSUME OpenSerially
  PROVE  Spec => []RecordsIntact
<1>1. SInv /\ RInv => RecordsIntact
  BY PointedIntact DEF SInv, RInv
<1> QED BY <1>1, SInvAlways, RInvAlways, PTL

=============================================================================
