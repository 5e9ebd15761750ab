--------------------------- MODULE KeyValueStore ----------------------------
(***************************************************************************)
(* programs/key-value-store: processes that open one store for writing and *)
(* run transactions on it.  The store is an index file all processes map,  *)
(* with a lock per key inside the map, and small files of records, each    *)
(* appended to by the one process that has claimed it.                     *)
(*                                                                         *)
(* A record is one 64-byte cell of a small file; cell 1 is the padding     *)
(* truncate(64) makes.  A lock in the index is memory of the index file:   *)
(* it outlives the process that took it.  Locks on the files are the       *)
(* kernel's and go with their process.  A process has one thread.          *)
(***************************************************************************)
EXTENDS Integers, FiniteSets, SequencesExt

CONSTANTS
  Procs,         \* the processes
  Nobody,        \* no process
  Keys,          \* key_type, in the order commit() sorts by
  Capacity,      \* hashtableentries
  Depth,         \* revisions of a value the index keeps (4)
  MaxFiles,      \* small files a store may have (48)
  MaxCalls,      \* bound: how often the store is opened or a commit() begun
  Mappers,       \* bound: the processes that call use_mmaps(), when they have opened
  Calls,         \* bound: what the transactions of each process may stage
  MaxCrashes,    \* bound: processes that are killed
  OpenSerially   \* bound: at most one process is opening the store

ASSUME KeyValueStoreAssumption ==
  /\ Nobody \notin Procs /\ IsFiniteSet(Procs)
  /\ Keys \subseteq Nat /\ IsFiniteSet(Keys)
  /\ Capacity \in Nat /\ Depth \in Nat \ {0} /\ MaxFiles \in Nat \ {0}
  /\ MaxCalls \in Nat /\ MaxCrashes \in Nat
  /\ Calls \in [Procs -> SUBSET [key : Keys, op : {"write", "remove"}, safe : BOOLEAN]]
  /\ Mappers \subseteq Procs /\ OpenSerially \in BOOLEAN

VARIABLES
  magic,     \* index::magic, "empty" before truncate(), "zero" before the header
  writes,    \* index::writes_occurring
  counter,   \* index::transaction_counter, its low 48 bits
  index,     \* open_hash_index: each key's history, << >> if it has no entry
  locked,    \* each entry's lock: -1 exclusive, else the number of sharers
  made,      \* the small files that exist
  cells,     \* what they hold
  first,     \* who has the index file's in-use byte exclusively
  users,     \* who has it shared
  owner,     \* who has the in-use byte of each small file
  pc,
  small,     \* _smallfiles.blocking or .mapped, as file numbers
  mapped,    \* use_mmaps() was called
  mine,      \* _mysmallfileidx, 0 for none
  at,        \* the loop's n: small file or item
  items,     \* transaction::_items with commit()'s toupdate
  base,      \* value_offset before the first item
  mytx,      \* this_transaction_counter
  calls, crashes,
  log,       \* history: what each transaction that began to write did to a key
  died,      \* history: some process died with the store open
  torn       \* history: some process died while it wrote

shared == <<magic, writes, counter, index, locked, made, cells>>
flocks == <<first, users, owner>>
local == <<small, mapped, mine, at, items, base, mytx>>
hist == <<log, died, torn>>
vars == <<shared, flocks, pc, local, calls, crashes, hist>>

-----------------------------------------------------------------------------
(* Data                                                                    *)

Files == 1..MaxFiles
Fresh == -1                        \* the counter of a key without a value
NoValue == [tc |-> 0, file |-> 0, off |-> 0]
Padding == [key |-> 0, tc |-> 0]
Empty == [n \in 1..Depth |-> NoValue]

Here(k) == index[k] # << >>
Top(k) == index[k][1].tc

Opening == {"first", "header", "share", "scan", "create", "truncate", "retry", "opened"}
Committing == {"shared", "count", "append", "fill", "exclusive",
               "insert", "begin", "apply"}

Labels == {"closed", "mmaps", "ready", "read", "closing", "hash"} \cup Opening \cup Committing
Values == [tc : Nat, file : 0..MaxFiles, off : Nat]
Histories == [1..Depth -> Values] \cup {<< >>}
Contents == Seq([key : Nat, tc : Nat])
Numbers == Seq(Nat)
Kinds == {"none", "insertion", "update", "removal", "erased"}
ItemType == [key : Keys, tc : Int, op : {"fetched", "write", "remove"}, kind : Kinds, off : Nat]
Transactions == Seq(ItemType)
Logs == Seq([tc : Nat, base : Int, kind : Kinds])

TypeOK ==
  /\ magic \in {"empty", "zero", "good", "bad"} /\ counter \in Nat
  /\ writes \in [Files -> Int] /\ made \subseteq Files
  /\ index \in [Keys -> Histories] /\ locked \in [Keys -> Int]
  /\ cells \in [Files -> Contents]
  /\ first \in Procs \cup {Nobody} /\ users \subseteq Procs
  /\ owner \in [Files -> Procs \cup {Nobody}]
  /\ pc \in [Procs -> Labels] /\ mapped \in [Procs -> BOOLEAN]
  /\ small \in [Procs -> Numbers] /\ mine \in [Procs -> 0..MaxFiles] /\ at \in [Procs -> Nat]
  /\ items \in [Procs -> Transactions] /\ base \in [Procs -> Nat] /\ mytx \in [Procs -> Nat]
  /\ calls \in 0..MaxCalls /\ crashes \in 0..MaxCrashes
  /\ log \in [Keys -> Logs]
  /\ died \in BOOLEAN /\ torn \in BOOLEAN

(* A new directory, or a store in which a transaction of a process that    *)
(* is gone wrote every key.                                                *)
New ==
  /\ magic = "empty" /\ counter = 0 /\ made = {}
  /\ cells = [f \in Files |-> << >>]
  /\ index = [k \in Keys |-> << >>]
  /\ log = [k \in Keys |-> << >>]

Used ==
  /\ magic = "good" /\ counter = 1 /\ made = {1}
  /\ \E ks \in SetToSeqs(Keys) :
       /\ \A m, n \in DOMAIN ks : m < n => ks[m] < ks[n]
       /\ cells = [f \in Files |-> IF f # 1 THEN << >>
                     ELSE <<Padding>> \o [n \in DOMAIN ks |-> [key |-> ks[n], tc |-> 1]]]
       /\ index = [k \in Keys |-> [Empty EXCEPT ![1] =
                     [tc |-> 1, file |-> 1, off |-> 1 + CHOOSE n \in DOMAIN ks : ks[n] = k]]]
  /\ log = [k \in Keys |-> <<[tc |-> 1, base |-> Fresh, kind |-> "insertion"]>>]

Init ==
  /\ New \/ Used
  /\ writes = [f \in Files |-> 0]
  /\ locked = [k \in Keys |-> 0]
  /\ first = Nobody /\ users = {} /\ owner = [f \in Files |-> Nobody]
  /\ pc = [p \in Procs |-> "closed"]
  /\ small = [p \in Procs |-> << >>]
  /\ mapped = [p \in Procs |-> FALSE]
  /\ mine = [p \in Procs |-> 0] /\ at = [p \in Procs |-> 0]
  /\ items = [p \in Procs |-> << >>]
  /\ base = [p \in Procs |-> 0] /\ mytx = [p \in Procs |-> 0]
  /\ calls = 0 /\ crashes = 0
  /\ died = FALSE /\ torn = FALSE

Goto(p, l) == pc' = [pc EXCEPT ![p] = l]

(* The process goes: its memory and its locks on files, not its locks in   *)
(* the index.                                                              *)
Gone(p) ==
  /\ Goto(p, "closed")
  /\ first' = IF first = p THEN Nobody ELSE first
  /\ users' = users \ {p}
  /\ owner' = [f \in Files |-> IF owner[f] = p THEN Nobody ELSE owner[f]]
  /\ small' = [small EXCEPT ![p] = << >>]
  /\ mapped' = [mapped EXCEPT ![p] = FALSE]
  /\ mine' = [mine EXCEPT ![p] = 0]
  /\ at' = [at EXCEPT ![p] = 0]
  /\ items' = [items EXCEPT ![p] = << >>]
  /\ base' = [base EXCEPT ![p] = 0]
  /\ mytx' = [mytx EXCEPT ![p] = 0]

Dies(p) == Gone(p) /\ died' = TRUE /\ torn' = (torn \/ pc[p] = "apply") /\ UNCHANGED log

(* commit() returns, or an exception is thrown: the transaction is over.   *)
Ends(p) ==
  /\ Goto(p, "ready")
  /\ items' = [items EXCEPT ![p] = << >>]
  /\ at' = [at EXCEPT ![p] = 0]
  /\ base' = [base EXCEPT ![p] = 0]
  /\ mytx' = [mytx EXCEPT ![p] = 0]
  /\ UNCHANGED <<small, mapped, mine>>

-----------------------------------------------------------------------------
(* The constructor                                                         *)

(* An exclusive lock on the in-use byte makes p the first entrant.         *)
Open(p) ==
  /\ pc[p] = "closed" /\ calls < MaxCalls
  /\ OpenSerially => \A q \in Procs : pc[q] \notin Opening
  /\ calls' = calls + 1
  /\ IF first = Nobody /\ users = {}
     THEN first' = p /\ Goto(p, "first")
     ELSE UNCHANGED first /\ Goto(p, "share")
  /\ UNCHANGED <<shared, users, owner, local, crashes, hist>>

(* The first entrant sizes a new index, or resets the counts of writes.    *)
FirstEntrant(p) ==
  /\ pc[p] = "first"
  /\ IF magic = "empty"
     THEN magic' = "zero" /\ Goto(p, "header") /\ UNCHANGED <<writes, first>>
     ELSE /\ writes' = [f \in Files |-> 0]
          /\ first' = Nobody /\ Goto(p, "share") /\ UNCHANGED magic
  /\ UNCHANGED <<counter, index, locked, made, cells, users, owner, local, calls, crashes, hist>>

WriteHeader(p) ==
  /\ pc[p] = "header"
  /\ magic' = "good" /\ writes' = [f \in Files |-> 0]
  /\ first' = Nobody /\ Goto(p, "share")
  /\ UNCHANGED <<counter, index, locked, made, cells, users, owner, local, calls, crashes, hist>>

(* The shared lock waits for an entrant; then the magic is checked, and    *)
(* corrupted_store or unknown_store thrown.                                *)
ShareIndex(p) ==
  /\ pc[p] = "share" /\ first = Nobody
  /\ IF magic = "good"
     THEN /\ users' = users \cup {p} /\ Goto(p, "scan")
          /\ at' = [at EXCEPT ![p] = 1]
     ELSE Goto(p, "closed") /\ UNCHANGED <<users, at>>
  /\ UNCHANGED <<shared, first, owner, small, mapped, mine, items, base, mytx, calls, crashes, hist>>

(* An existing small file is opened, and claimed if p needs one and nobody *)
(* has it.                                                                 *)
Claim(p) ==
  LET n == at[p]
  IN  /\ IF mine[p] = 0 /\ owner[n] = Nobody
         THEN owner' = [owner EXCEPT ![n] = p] /\ mine' = [mine EXCEPT ![p] = n]
         ELSE UNCHANGED <<owner, mine>>
      /\ small' = [small EXCEPT ![p] = Append(@, n)]
      /\ at' = [at EXCEPT ![p] = n + 1]
      /\ Goto(p, "scan")

Scan(p) ==
  /\ pc[p] = "scan"
  /\ IF at[p] \in made
     THEN Claim(p)
     ELSE /\ Goto(p, IF at[p] \in Files /\ mine[p] = 0 THEN "create" ELSE "opened")
          /\ UNCHANGED <<owner, mine, small, at>>
  /\ UNCHANGED <<shared, first, users, mapped, items, base, mytx, calls, crashes, hist>>

(* A small file someone else made meanwhile is skipped.                    *)
Create(p) ==
  /\ pc[p] = "create"
  /\ IF at[p] \in made
     THEN /\ at' = [at EXCEPT ![p] = @ + 1] /\ Goto(p, "scan") /\ UNCHANGED made
     ELSE /\ made' = made \cup {at[p]} /\ Goto(p, "truncate") /\ UNCHANGED at
  /\ UNCHANGED <<magic, writes, counter, index, locked, cells, flocks, small, mapped, mine, items,
                 base, mytx, calls, crashes, hist>>

Truncate(p) ==
  /\ pc[p] = "truncate"
  /\ cells' = [cells EXCEPT ![at[p]] = IF @ = << >> THEN <<Padding>> ELSE <<@[1]>>]
  /\ Goto(p, "retry")
  /\ UNCHANGED <<magic, writes, counter, index, locked, made, flocks, local, calls, crashes, hist>>

Retry(p) ==
  /\ pc[p] = "retry"
  /\ Claim(p)
  /\ UNCHANGED <<shared, first, users, mapped, items, base, mytx, calls, crashes, hist>>

(* maximum_writers_reached, or the small file's last owner died writing.   *)
Opened(p) ==
  /\ pc[p] = "opened"
  /\ LET dirty == mine[p] # 0 /\ writes[mine[p]] # 0
     IN  /\ magic' = IF dirty THEN "bad" ELSE magic
         /\ IF mine[p] = 0 \/ dirty
            THEN Gone(p)
            ELSE /\ Goto(p, IF p \in Mappers THEN "mmaps" ELSE "ready")
                 /\ at' = [at EXCEPT ![p] = 0]
                 /\ UNCHANGED <<flocks, small, mapped, mine, items, base, mytx>>
  /\ UNCHANGED <<writes, counter, index, locked, made, cells, calls, crashes, hist>>

UseMmaps(p) ==
  /\ pc[p] = "mmaps"
  /\ mapped' = [mapped EXCEPT ![p] = TRUE]
  /\ Goto(p, "ready")
  /\ UNCHANGED <<shared, flocks, small, mine, at, items, base, mytx, calls, crashes, hist>>

(* The destructor gives up the small file, then the index; the last user   *)
(* has the in-use byte exclusively while it hashes the index.              *)
Close(p) ==
  /\ pc[p] = "ready" /\ items[p] = << >>
  /\ owner' = [owner EXCEPT ![mine[p]] = Nobody]
  /\ Goto(p, "closing")
  /\ UNCHANGED <<shared, first, users, local, calls, crashes, hist>>

CloseIndex(p) ==
  /\ pc[p] = "closing"
  /\ users' = users \ {p}
  /\ first' = IF users = {p} /\ first = Nobody THEN p ELSE first
  /\ Goto(p, "hash")
  /\ UNCHANGED <<shared, owner, local, calls, crashes, hist>>

Closed(p) ==
  /\ pc[p] = "hash"
  /\ Gone(p)
  /\ UNCHANGED <<shared, calls, crashes, hist>>

-----------------------------------------------------------------------------
(* A transaction                                                           *)

Item(k, tc, op) == [key |-> k, tc |-> tc, op |-> op, kind |-> "none", off |-> 0]
In(p, k) == \E n \in DOMAIN items[p] : items[p][n].key = k
Fetched(p, k, tc) == items' = [items EXCEPT ![p] = Append(@, Item(k, tc, "fetched"))]

(* find() of a key not fetched yet: corrupted_store, no entry, or the      *)
(* entry's shared lock.                                                    *)
Fetch(p, k) ==
  /\ pc[p] = "ready" /\ ~In(p, k)
  /\ \/ /\ magic # "good" /\ Ends(p) /\ UNCHANGED locked
     \/ /\ magic = "good" /\ ~Here(k)
        /\ Fetched(p, k, Fresh)
        /\ UNCHANGED <<locked, pc, small, mapped, mine, at, base, mytx>>
     \/ /\ magic = "good" /\ Here(k) /\ locked[k] >= 0
        /\ locked' = [locked EXCEPT ![k] = @ + 1]
        /\ Goto(p, "read") /\ at' = [at EXCEPT ![p] = k]
        /\ UNCHANGED <<small, mapped, mine, items, base, mytx>>
  /\ UNCHANGED <<magic, writes, counter, index, made, cells, flocks, calls, crashes, hist>>

RecordAt(f, off) == IF off <= Len(cells[f]) THEN cells[f][off] ELSE Padding

(* A record in a small file p has not opened ends in abort(), with the     *)
(* lock; one that is not the key's of this counter spoils the store.       *)
Read(p) ==
  LET k == at[p]
      v == index[k][1]
      known == v.file \in DOMAIN small[p]
      good == known /\ RecordAt(small[p][v.file], v.off) = [key |-> k, tc |-> v.tc]
  IN  /\ pc[p] = "read"
      /\ IF v.tc # 0 /\ ~known
         THEN Dies(p) /\ UNCHANGED <<magic, locked>>
         ELSE /\ locked' = [locked EXCEPT ![k] = @ - 1]
              /\ IF v.tc = 0 \/ good
                 THEN /\ Fetched(p, k, IF v.tc = 0 THEN Fresh ELSE v.tc)
                      /\ Goto(p, "ready") /\ at' = [at EXCEPT ![p] = 0]
                      /\ UNCHANGED <<magic, small, mapped, mine, base, mytx>>
                 ELSE magic' = "bad" /\ Ends(p)
              /\ UNCHANGED <<flocks, hist>>
      /\ UNCHANGED <<writes, counter, index, made, cells, calls, crashes>>

(* update() and remove() of a fetched key, to which nothing is staged yet. *)
Stage(p, c) ==
  /\ c.safe /\ pc[p] = "ready"
  /\ \E n \in DOMAIN items[p] :
       /\ items[p][n].key = c.key /\ items[p][n].op = "fetched"
       /\ items' = [items EXCEPT ![p][n].op = c.op]
  /\ UNCHANGED <<shared, flocks, pc, small, mapped, mine, at, base, mytx, calls, crashes, hist>>

(* update_unsafe() and remove_unsafe() of a key that was not fetched.      *)
StageUnsafe(p, c) ==
  /\ ~c.safe /\ pc[p] = "ready" /\ ~In(p, c.key)
  /\ items' = [items EXCEPT ![p] = Append(@, Item(c.key, Fresh, c.op))]
  /\ UNCHANGED <<shared, flocks, pc, small, mapped, mine, at, base, mytx, calls, crashes, hist>>

-----------------------------------------------------------------------------
(* transaction::commit()                                                   *)

Staged(i) == i.op # "fetched"
SortedNot(S) == SetToSeqs(S)    \* mutant: the items are in any order
Sorted(S) == {s \in SetToSeqs(S) : \A m, n \in DOMAIN s : m < n => s[m].key < s[n].key}

Commit(p) ==
  /\ pc[p] = "ready" /\ items[p] # << >>
  /\ calls < MaxCalls /\ calls' = calls + 1
  /\ IF magic # "good"
     THEN Ends(p)
     ELSE /\ \E s \in Sorted({i \in Range(items[p]) : Staged(i)}) :
               /\ items' = [items EXCEPT ![p] = s]
               /\ Goto(p, IF s = << >> THEN "count" ELSE "shared")
          /\ at' = [at EXCEPT ![p] = 1]
          /\ UNCHANGED <<small, mapped, mine, base, mytx>>
  /\ UNCHANGED <<shared, flocks, crashes, hist>>

(* The keys commit() has share locked while it looks at item n.            *)
Sharing(p, n) == {items[p][j].key : j \in {j \in 1..n - 1 : items[p][j].kind # "insertion"}}
Unshared(ks) == [k \in Keys |-> IF k \in ks THEN locked[k] - 1 ELSE locked[k]]

(* An entry changed since it was fetched aborts the transaction early.     *)
LockShared(p) ==
  LET n == at[p]
      i == items[p][n]
      Take(kind) == /\ items' = [items EXCEPT ![p][n].kind = kind]
                    /\ at' = [at EXCEPT ![p] = n + 1]
                    /\ Goto(p, IF n = Len(items[p]) THEN "count" ELSE "shared")
                    /\ UNCHANGED <<small, mapped, mine, base, mytx>>
  IN  /\ pc[p] = "shared"
      /\ \/ ~Here(i.key) /\ Take("insertion") /\ UNCHANGED locked
         \/ /\ Here(i.key) /\ locked[i.key] >= 0
            /\ IF i.tc # Fresh /\ Top(i.key) # i.tc
               THEN locked' = Unshared(Sharing(p, n)) /\ Ends(p)
               ELSE /\ locked' = [locked EXCEPT ![i.key] = @ + 1]
                    /\ Take(IF i.op = "remove" THEN "removal" ELSE "update")
      /\ UNCHANGED <<magic, writes, counter, index, made, cells, flocks, calls, crashes, hist>>

(* The counter is incremented; then the length of p's own file is read.    *)
Count(p) ==
  /\ pc[p] = "count"
  /\ counter' = counter + 1
  /\ mytx' = [mytx EXCEPT ![p] = counter + 1]
  /\ base' = [base EXCEPT ![p] = Len(cells[mine[p]])]
  /\ Goto(p, "append")
  /\ UNCHANGED <<magic, writes, index, locked, made, cells, flocks, small, mapped, mine, at, items,
                 calls, crashes, hist>>

Record(p, n) == [key |-> items[p][n].key, tc |-> mytx[p]]
Records(p) == [n \in DOMAIN items[p] |-> Record(p, n)]
OffsetsOfStart(p) ==     \* mutant: the record's first byte instead of its end
  [n \in DOMAIN items[p] |-> [items[p][n] EXCEPT !.off = base[p] + n - 1]]
Offsets(p) == [n \in DOMAIN items[p] |-> [items[p][n] EXCEPT !.off = base[p] + n]]

(* The records are written and the history items made of base; the shared  *)
(* locks are released and the magic is looked at again.                    *)
Written(p) ==
  /\ locked' = Unshared(Sharing(p, Len(items[p]) + 1))
  /\ IF magic # "good"
     THEN Ends(p)
     ELSE /\ items' = [items EXCEPT ![p] = Offsets(p)]
          /\ Goto(p, IF items[p] = << >> THEN "begin" ELSE "exclusive")
          /\ at' = [at EXCEPT ![p] = 1]
          /\ UNCHANGED <<small, mapped, mine, base, mytx>>
  /\ UNCHANGED <<magic, writes, counter, index, made, flocks, calls, crashes, hist>>

(* The gather write.                                                       *)
AppendRecords(p) ==
  /\ pc[p] = "append"
  /\ cells' = [cells EXCEPT ![mine[p]] = @ \o Records(p)]
  /\ Written(p)

(* The write, or the truncate() of the map, fails and is thrown.           *)
AppendFails(p) ==
  /\ pc[p] = "append" /\ items[p] # << >>
  /\ locked' = Unshared(Sharing(p, Len(items[p]) + 1))
  /\ Ends(p)
  /\ UNCHANGED <<magic, writes, counter, index, made, cells, flocks, calls, crashes, hist>>

(* A large transaction of a mapped store extends its file, then fills it.  *)
ExtendMap(p) ==
  /\ pc[p] = "append" /\ mapped[p] /\ items[p] # << >>
  /\ cells' = [cells EXCEPT ![mine[p]] = [n \in 1..base[p] + Len(items[p]) |->
                 IF n <= Len(@) THEN @[n] ELSE Padding]]
  /\ Goto(p, "fill")
  /\ UNCHANGED <<magic, writes, counter, index, locked, made, flocks, local, calls, crashes, hist>>

FillMap(p) ==
  /\ pc[p] = "fill"
  /\ cells' = [cells EXCEPT ![mine[p]] = [n \in DOMAIN @ |->
                 IF n - base[p] \in DOMAIN items[p] THEN Record(p, n - base[p]) ELSE @[n]]]
  /\ Written(p)

(* Mutant: the iterator, and the lock with it, is not kept.                *)
LocksBriefly(p, k) ==
  /\ UNCHANGED locked
  /\ at' = [at EXCEPT ![p] = @ + 1]
  /\ Goto(p, IF at[p] = Len(items[p]) THEN "begin" ELSE "exclusive")
  /\ UNCHANGED <<flocks, small, mapped, mine, items, base, mytx, hist>>

(* From here an exception runs removeinserted, whose loop starts at rend() *)
(* and moves away from rbegin(): it leaves the vector and the process dies *)
(* with the exclusive locks it has.                                        *)
Locks(p, k) ==
  /\ locked' = [locked EXCEPT ![k] = -1]
  /\ at' = [at EXCEPT ![p] = @ + 1]
  /\ Goto(p, IF at[p] = Len(items[p]) THEN "begin" ELSE "exclusive")
  /\ UNCHANGED <<flocks, small, mapped, mine, items, base, mytx, hist>>

ChangedNever(i) == i.kind = "insertion"    \* mutant: only checked in the first pass

(* Whether commit() aborts at an item whose entry it has just locked.      *)
Changed(i) == i.kind = "insertion" \/ (i.kind = "update" /\ Top(i.key) # i.tc)

LockExclusive(p) ==
  LET i == items[p][at[p]]
  IN  /\ pc[p] = "exclusive"
      /\ \/ /\ Here(i.key) /\ locked[i.key] = 0
            /\ IF Changed(i) THEN Dies(p) /\ UNCHANGED locked ELSE Locks(p, i.key)
         \/ /\ ~Here(i.key) /\ UNCHANGED locked
            /\ IF i.kind # "insertion"
               THEN Dies(p)
               ELSE Goto(p, "insert") /\ UNCHANGED <<flocks, local, hist>>
      /\ UNCHANGED <<magic, writes, counter, index, made, cells, calls, crashes>>

(* insert() returns the entry that exists if another process was faster.   *)
Insert(p) ==
  LET k == items[p][at[p]].key
  IN  /\ pc[p] = "insert"
      /\ \/ Here(k) /\ locked[k] = 0 /\ Locks(p, k) /\ UNCHANGED index
         \/ /\ ~Here(k)
            /\ IF Cardinality({j \in Keys : Here(j)}) >= Capacity
               THEN Dies(p) /\ UNCHANGED <<index, locked>>
               ELSE index' = [index EXCEPT ![k] = Empty] /\ Locks(p, k)
      /\ UNCHANGED <<magic, writes, counter, made, cells, calls, crashes>>

Begin(p) ==
  /\ pc[p] = "begin"
  /\ IF magic # "good"
     THEN (IF items[p] = << >> THEN Ends(p) /\ UNCHANGED <<flocks, hist>> ELSE Dies(p))
          /\ UNCHANGED writes
     ELSE /\ writes' = [writes EXCEPT ![mine[p]] = @ + 1]
          /\ Goto(p, "apply") /\ at' = [at EXCEPT ![p] = 1]
          /\ log' = [k \in Keys |-> IF ~In(p, k) THEN log[k]
                                   ELSE LET i == CHOOSE i \in Range(items[p]) : i.key = k
                                        IN  Append(log[k], [tc |-> mytx[p], base |-> i.tc, kind |-> i.kind])]
          /\ UNCHANGED <<flocks, small, mapped, mine, items, base, mytx, died, torn>>
  /\ UNCHANGED <<magic, counter, index, locked, made, cells, calls, crashes>>

(* memmove() of the history and its new head; an entry with no value left  *)
(* is erased, and its lock with it.                                        *)
Pushed(h, v) == [n \in 1..Depth |-> IF n = 1 THEN v ELSE h[n - 1]]

Apply(p) ==
  /\ pc[p] = "apply" /\ at[p] <= Len(items[p])
  /\ LET i == items[p][at[p]]
         v == IF i.kind = "removal" THEN NoValue
              ELSE [tc |-> mytx[p], file |-> mine[p], off |-> i.off]
         h == Pushed(index[i.key], v)
         gone == i.kind = "removal" /\ \A n \in 1..Depth : h[n].tc = 0
     IN  /\ index' = [index EXCEPT ![i.key] = IF gone THEN << >> ELSE h]
         /\ locked' = [locked EXCEPT ![i.key] = IF gone THEN 0 ELSE @]
         /\ items' = [items EXCEPT ![p][at[p]].kind = IF gone THEN "erased" ELSE @]
  /\ at' = [at EXCEPT ![p] = @ + 1]
  /\ UNCHANGED <<magic, writes, counter, made, cells, flocks, pc, small, mapped, mine, base, mytx,
                 calls, crashes, hist>>

Finish(p) ==
  /\ pc[p] = "apply" /\ at[p] > Len(items[p])
  /\ writes' = [writes EXCEPT ![mine[p]] = @ - 1]
  /\ locked' = [k \in Keys |-> IF \E i \in Range(items[p]) : i.key = k /\ i.kind # "erased"
                               THEN 0 ELSE locked[k]]
  /\ Ends(p)
  /\ UNCHANGED <<magic, counter, index, made, cells, flocks, calls, crashes, hist>>

(* A process is killed in a call; between calls it would leave no more     *)
(* behind than the destructor does.                                        *)
Crash(p) ==
  /\ pc[p] \in Opening \cup Committing \cup {"read"} /\ crashes < MaxCrashes
  /\ crashes' = crashes + 1
  /\ Dies(p)
  /\ UNCHANGED <<shared, calls>>

Steps(p) ==
  \/ FirstEntrant(p) \/ WriteHeader(p) \/ ShareIndex(p) \/ Scan(p) \/ Create(p)
  \/ Truncate(p) \/ Retry(p) \/ Opened(p) \/ CloseIndex(p) \/ Closed(p) \/ Read(p)
  \/ LockShared(p) \/ Count(p) \/ AppendRecords(p) \/ AppendFails(p)
  \/ ExtendMap(p) \/ FillMap(p) \/ LockExclusive(p) \/ Insert(p)
  \/ Begin(p) \/ Apply(p) \/ Finish(p)

Client(p) ==
  \/ Open(p) \/ UseMmaps(p) \/ Close(p) \/ Commit(p)
  \/ \E c \in Calls[p] : Fetch(p, c.key) \/ Stage(p, c) \/ StageUnsafe(p, c)

Next == \E p \in Procs : Steps(p) \/ Client(p) \/ Crash(p)

Spec == Init /\ [][Next]_vars

(* A call that was made goes on; a lock in the index is spun on.           *)
FairSpec == Spec /\ \A p \in Procs : WF_vars(Steps(p))

-----------------------------------------------------------------------------
(* Properties                                                              *)

Shown(e) == IF e.kind = "removal" THEN 0 ELSE e.tc
Latest(k) == IF log[k] = << >> THEN 0 ELSE Shown(Last(log[k]))

(* Whenever a key can be locked by a reader, the index has for it what the *)
(* last transaction to start writing gave it: find() never sees a part of  *)
(* a transaction, not even of one whose process died while it wrote.       *)
Serialised ==
  \A k \in Keys : locked[k] >= 0 => (IF Here(k) THEN Top(k) ELSE 0) = Latest(k)

(* An update that commit() performs of a key whose entry it found when it  *)
(* looked replaces exactly the value that was fetched for it: no value is  *)
(* overwritten unseen.  This is not so of an update() of a key that was    *)
(* fetched as absent (InsertionsNew), nor of a removal (FetchedIsCurrent). *)
UpdatesBased ==
  \A k \in Keys : \A n \in DOMAIN log[k] :
    log[k][n].kind = "update" => n > 1 /\ log[k][n].base = Shown(log[k][n - 1])

(* Every revision in the index points at the record that was appended for  *)
(* it, in the small file and at the offset it names.                       *)
RecordsIntact ==
  \A k \in Keys : Here(k) => \A n \in 1..Depth :
    LET v == index[k][n]
    IN  v.tc # 0 => RecordAt(v.file, v.off) = [key |-> k, tc |-> v.tc]

(* The store is marked as corrupted only after a process died writing.     *)
HonestMagic == magic = "bad" => torn

(* Since commit() locks keys in order, commits and fetches never wait for  *)
(* each other for ever: as long as no process dies each of them returns.   *)
CommitReturns ==
  \A p \in Procs :
    pc[p] \in Committing \cup {"read"} ~> (pc[p] \in {"ready", "closed"} \/ died)

(* What commit() documents: it throws if a key's value was updated since   *)
(* it was fetched for this transaction; here, of the keys that had a value *)
(* then, and of those that had none.  Neither holds.                       *)
FetchedIsCurrent ==
  \A k \in Keys : \A n \in DOMAIN log[k] :
    log[k][n].base # Fresh => n > 1 /\ log[k][n].base = Shown(log[k][n - 1])

InsertionsNew ==
  \A k \in Keys : \A n \in DOMAIN log[k] :
    log[k][n].kind = "insertion" => n = 1 \/ Shown(log[k][n - 1]) = 0

=============================================================================
