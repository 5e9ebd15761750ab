----------------------------- MODULE MemoryMap ------------------------------
(***************************************************************************)
(* algorithm::shared_fs_mutex::memory_map on POSIX.  The lock file holds   *)
(* the path of a temporary file, the index, which every user maps into     *)
(* memory: a table of shared spinlocks, into which entities are hashed.    *)
(* Two bytes of the lock file tell whether it is in use: its first user    *)
(* locks both exclusively while he makes the index, every other one locks  *)
(* the second byte shared, and the last one to leave removes the index.    *)
(*                                                                         *)
(* An instance has one lock() at a time here; those of several threads     *)
(* that share it interleave like those of several instances.  An index is  *)
(* its inode: a name that was unlinked may be used again.                  *)
(***************************************************************************)
EXTENDS ByteRangeLocks, Naturals, Sequences, Functions, FiniteSetsExt

CONSTANTS
  Insts,       \* memory_map objects, each with a handle on the lock file
  Indices,     \* bound: the temporary files there can be
  None,        \* no index
  Entities, Requests,
  Slots,       \* the spinlocks of an index
  Hash,        \* the slot of an entity
  Crashes      \* do instances die, with or without the whole machine?

Entity == [value : Entities, exclusive : BOOLEAN]
Entry == [value : Slots, exclusive : BOOLEAN]

ASSUME MemoryMapAssumption ==
  /\ IsFiniteSet(Insts)
  /\ None \notin Indices
  /\ Hash \in [Entities -> Slots]
  /\ \A s \in Requests : s \in Seq(Entity) /\ s # << >>
  /\ Crashes \in BOOLEAN

VARIABLES
  locks,      \* the lock table of the lock file
  path,       \* the index whose path the lock file has
  linked,     \* the temporary files there are
  index,      \* the spinlocks in each of them
  pc, temp,   \* where each instance is, and the index it has open
  entities,   \* what its guard is for
  list,       \* entity_to_idx
  n,
  contended,  \* was_contended
  expired,    \* has the deadline of lock() passed, if it has one?
  abandoned   \* the indices that somebody died with (a history variable)

vars == <<locks, path, linked, index, pc, temp, entities, list, n, contended, expired, abandoned>>
file == <<locks, path, linked, abandoned>>
call == <<entities, list, n, contended, expired>>

(* _initialisingoffset and _lockinuseoffset *)
Offsets == {"initialising", "lockinuse"}

(* A spinlock is free, locked, or shared by so many. *)
Free == [writer |-> FALSE, readers |-> 0]
Unlocked == [s \in Slots |-> Free]

Opening == {"join", "read", "opentemp", "unavailable", "create", "write", "downgrade", "drop"}
Closing == {"last", "truncate", "unlink", "aborted"}
Locking == {"try", "undo"}

TypeOK ==
  /\ locks \in [Insts -> [Offsets -> LockKinds]]
  /\ path \in Indices \cup {None} /\ linked \subseteq Indices
  /\ index \in [Indices -> [Slots -> [writer : BOOLEAN, readers : Nat]]]
  /\ pc \in [Insts -> {"closed", "open", "held", "unlocking"} \cup Opening \cup Closing \cup Locking]
  /\ temp \in [Insts -> Indices \cup {None}]
  /\ entities \in [Insts -> Seq(Entity)]
  /\ list \in [Insts -> Seq(Entry)]
  /\ n \in [Insts -> Nat \ {0}]
  /\ contended \in [Insts -> Nat]
  /\ expired \in [Insts -> BOOLEAN]
  /\ abandoned \subseteq Indices

(* The lock file is new, or its last user died and the index is stale. *)
Init ==
  /\ locks = NoLocks(Insts, Offsets)
  /\ path \in Indices \cup {None}
  /\ linked = {}
  /\ index = [x \in Indices |-> Unlocked]
  /\ pc = [i \in Insts |-> "closed"]
  /\ temp = [i \in Insts |-> None]
  /\ entities = [i \in Insts |-> << >>]
  /\ list = [i \in Insts |-> << >>]
  /\ n = [i \in Insts |-> 1]
  /\ contended = [i \in Insts |-> 0]
  /\ expired = [i \in Insts |-> FALSE]
  /\ abandoned = {}

Goto(i, label) == pc' = [pc EXCEPT ![i] = label]

(* The handles of the instances of I are closed: their locks go. *)
Closed(I) ==
  /\ locks' = [i \in Insts |-> IF i \in I THEN [o \in Offsets |-> "unlocked"] ELSE locks[i]]
  /\ temp' = [i \in Insts |-> IF i \in I THEN None ELSE temp[i]]

-----------------------------------------------------------------------------
(* fs_mutex_map: who gets both bytes at once is the first user. *)
Open(i) ==
  /\ pc[i] = "closed"
  /\ IF LockOutcome(locks, i, Offsets, "exclusive", "zero") = "granted"
     THEN locks' = SetRange(locks, i, Offsets, "exclusive") /\ Goto(i, "create")
     ELSE Goto(i, "join") /\ UNCHANGED locks
  /\ UNCHANGED <<path, linked, abandoned, index, temp, call>>

(* Others wait for the second byte, *)
Join(i) ==
  /\ pc[i] = "join"
  /\ LockOutcome(locks, i, {"lockinuse"}, "shared", "none") = "granted"
  /\ locks' = SetRange(locks, i, {"lockinuse"}, "shared")
  /\ Goto(i, "read")
  /\ UNCHANGED <<path, linked, abandoned, index, temp, call>>

(* read the path *)
ReadPath(i) ==
  /\ pc[i] = "read"
  /\ temp' = [temp EXCEPT ![i] = path]
  /\ Goto(i, "opentemp")
  /\ UNCHANGED <<file, index, call>>

(* and open and map what it names. *)
OpenTemp(i) ==
  /\ pc[i] = "opentemp"
  /\ Goto(i, IF temp[i] \in linked THEN "open" ELSE "unavailable")
  /\ UNCHANGED <<file, index, temp, call>>

(* errc::no_lock_available *)
Unavailable(i) ==
  /\ pc[i] = "unavailable"
  /\ Closed({i})
  /\ Goto(i, "closed")
  /\ UNCHANGED <<path, linked, abandoned, index, call>>

(* The first user makes and maps an index, all zeros, *)
Create(i) ==
  /\ pc[i] = "create"
  /\ \E x \in Indices \ (linked \cup Range(temp)) :
       /\ linked' = linked \cup {x}
       /\ index' = [index EXCEPT ![x] = Unlocked]
       /\ temp' = [temp EXCEPT ![i] = x]
       /\ abandoned' = abandoned \ {x}
  /\ Goto(i, "write")
  /\ UNCHANGED <<locks, path, call>>

(* writes its path *)
WritePath(i) ==
  /\ pc[i] = "write"
  /\ path' = temp[i]
  /\ Goto(i, "downgrade")
  /\ UNCHANGED <<locks, linked, abandoned, index, temp, call>>

(* and locks the second byte shared, in place of his exclusive lock. *)
Downgrade(i) ==
  /\ pc[i] = "downgrade"
  /\ locks' = SetRange(locks, i, {"lockinuse"}, "shared")
  /\ Goto(i, "drop")
  /\ UNCHANGED <<path, linked, abandoned, index, temp, call>>

(* The new guard is assigned to the old one, which unlocks BOTH bytes. *)
DropExclusive(i) ==
  /\ pc[i] = "drop"
  /\ locks' = SetRange(locks, i, Offsets, "unlocked")
  /\ Goto(i, "open")
  /\ UNCHANGED <<path, linked, abandoned, index, temp, call>>

(* Any system call of fs_mutex_map may fail: handles and guards go, the    *)
(* temporary file stays.                                                   *)
OpenFails(i) ==
  /\ Crashes
  /\ pc[i] \in {"join", "read", "opentemp", "create", "write", "downgrade"}
  /\ Closed({i})
  /\ Goto(i, "closed")
  /\ UNCHANGED <<path, linked, abandoned, index, call>>

-----------------------------------------------------------------------------
(* ~memory_map(), with no lock held: the guard on the second byte goes, *)
Close(i) ==
  /\ pc[i] = "open"
  /\ locks' = SetRange(locks, i, {"lockinuse"}, "unlocked")
  /\ Goto(i, "last")
  /\ UNCHANGED <<path, linked, abandoned, index, temp, call>>

(* Wrong: asks for the first byte only. *)
TryLastOneByte(i) ==
  /\ pc[i] = "last"
  /\ \/ /\ LockOutcome(locks, i, {"initialising"}, "exclusive", "zero") = "granted"
        /\ locks' = SetRange(locks, i, {"initialising"}, "exclusive")
        /\ Goto(i, "truncate")
        /\ UNCHANGED temp
     \/ /\ LockOutcome(locks, i, {"initialising"}, "exclusive", "zero") = "timed_out"
        /\ Closed({i})
        /\ Goto(i, "closed")
  /\ UNCHANGED <<path, linked, abandoned, index, call>>

(* and who can lock both bytes is the last user *)
TryLast(i) ==
  /\ pc[i] = "last"
  /\ \/ /\ LockOutcome(locks, i, Offsets, "exclusive", "zero") = "granted"
        /\ locks' = SetRange(locks, i, Offsets, "exclusive")
        /\ Goto(i, "truncate")
        /\ UNCHANGED temp
     \/ /\ LockOutcome(locks, i, Offsets, "exclusive", "zero") = "timed_out"
        /\ Closed({i})
        /\ Goto(i, "closed")
  /\ UNCHANGED <<path, linked, abandoned, index, call>>

(* who empties the lock file *)
Truncate(i) ==
  /\ pc[i] = "truncate"
  /\ path' = None
  /\ Goto(i, "unlink")
  /\ UNCHANGED <<locks, linked, abandoned, index, temp, call>>

(* and unlinks the index; if it is gone already he aborts the process. *)
UnlinkTemp(i) ==
  /\ pc[i] = "unlink"
  /\ IF temp[i] \in linked
     THEN linked' = linked \ {temp[i]} /\ Closed({i}) /\ Goto(i, "closed")
     ELSE UNCHANGED <<linked, locks, temp>> /\ Goto(i, "aborted")
  /\ UNCHANGED <<path, abandoned, index, call>>

-----------------------------------------------------------------------------
(* Wrong: a collision does not make the entry exclusive. *)
HashKeepsKind(s) ==
  LET slot(k) == Hash[s[k].value]
      again == {k \in DOMAIN s : \E j \in 1..k - 1 : slot(j) = slot(k)}
      size == IF again = {} THEN Len(s) ELSE Min(again) - 1
  IN  [k \in 1..size |-> [value |-> slot(k), exclusive |-> s[k].exclusive]]

(***************************************************************************)
(* _hash_entities.  A collision with an earlier entity makes that one's    *)
(* entry exclusive if need be, and the slot is not entered twice.  But the *)
(* loop compares an entity with entity_to_idx[0..n-1] although the table   *)
(* is shorter than n after a collision, and from then on that range holds  *)
(* the new entry itself: no later entity is entered any more.              *)
(***************************************************************************)
HashEntities(s) ==
  LET slot(k) == Hash[s[k].value]
      again == {k \in DOMAIN s : \E j \in 1..k - 1 : slot(j) = slot(k)}
      size == IF again = {} THEN Len(s) ELSE Min(again) - 1
  IN  [k \in 1..size |->
         [value |-> slot(k),
          exclusive |-> \E j \in DOMAIN s : slot(j) = slot(k) /\ s[j].exclusive]]

(* try_lock(), try_lock_shared() and the unlocks of a spinlock *)
Lockable(s, exclusive) == ~s.writer /\ (exclusive => s.readers = 0)
Taken(s, exclusive) == IF exclusive THEN [s EXCEPT !.writer = TRUE] ELSE [s EXCEPT !.readers = @ + 1]
Given(s, exclusive) == IF exclusive THEN [s EXCEPT !.writer = FALSE] ELSE [s EXCEPT !.readers = @ - 1]

SetSlot(i, e, spinlock) == index' = [index EXCEPT ![temp[i]][e.value] = spinlock]
Slot(i, e) == index[temp[i]][e.value]

(* _lock() up to the loop. *)
Lock(i) ==
  /\ pc[i] = "open"
  /\ \E s \in Requests :
       /\ entities' = [entities EXCEPT ![i] = s]
       /\ list' = [list EXCEPT ![i] = HashEntities(s)]
  /\ Goto(i, "try")
  /\ UNCHANGED <<file, index, temp, n, contended, expired>>

TakeSlot(i) ==
  LET e == list[i][n[i]] IN
  /\ pc[i] = "try"
  /\ Lockable(Slot(i, e), e.exclusive)
  /\ SetSlot(i, e, Taken(Slot(i, e), e.exclusive))
  /\ n' = [n EXCEPT ![i] = @ + 1]
  /\ Goto(i, IF n[i] = Len(list[i]) THEN "held" ELSE "try")
  /\ UNCHANGED <<file, temp, entities, list, contended, expired>>

Contend(i) ==
  LET e == list[i][n[i]] IN
  /\ pc[i] = "try"
  /\ ~Lockable(Slot(i, e), e.exclusive)
  /\ contended' = [contended EXCEPT ![i] = n[i]]
  /\ Goto(i, "undo")
  /\ UNCHANGED <<file, index, temp, entities, list, n, expired>>

(* Wrong: the first entry is not undone. *)
UndoNotFirst(i) ==
  LET e == list[i][n[i] - 1] IN
  /\ pc[i] = "undo"
  /\ n[i] > 1
  /\ IF n[i] = 2 THEN UNCHANGED index ELSE SetSlot(i, e, Given(Slot(i, e), e.exclusive))
  /\ n' = [n EXCEPT ![i] = @ - 1]
  /\ UNCHANGED <<file, pc, temp, entities, list, contended, expired>>

(* The undo scope guard. *)
Undo(i) ==
  LET e == list[i][n[i] - 1] IN
  /\ pc[i] = "undo"
  /\ n[i] > 1
  /\ SetSlot(i, e, Given(Slot(i, e), e.exclusive))
  /\ n' = [n EXCEPT ![i] = @ - 1]
  /\ UNCHANGED <<file, pc, temp, entities, list, contended, expired>>

(* lock() or unlock() of instance i ends, and with it its locals. *)
Leave(i) ==
  /\ entities' = [entities EXCEPT ![i] = << >>]
  /\ list' = [list EXCEPT ![i] = << >>]
  /\ n' = [n EXCEPT ![i] = 1]
  /\ contended' = [contended EXCEPT ![i] = 0]
  /\ expired' = [expired EXCEPT ![i] = FALSE]

TimeOut(i) ==
  /\ pc[i] = "undo"
  /\ n[i] = 1
  /\ expired[i]
  /\ Leave(i)
  /\ Goto(i, "open")
  /\ UNCHANGED <<file, index, temp>>

(* The contended entry goes to the front, the rest is shuffled. *)
Reordered(s, first) ==
  { [k \in 1..Len(s) |-> s[p[k]]] :
      p \in {q \in Bijection(1..Len(s), 1..Len(s)) : q[1] = first} }

Retry(i) ==
  /\ pc[i] = "undo"
  /\ n[i] = 1
  /\ ~expired[i]
  /\ \E s \in Reordered(list[i], contended[i]) : list' = [list EXCEPT ![i] = s]
  /\ contended' = [contended EXCEPT ![i] = 0]
  /\ Goto(i, "try")
  /\ UNCHANGED <<file, index, temp, entities, n, expired>>

Expire(i) ==
  /\ pc[i] \in Locking
  /\ ~expired[i]
  /\ expired' = [expired EXCEPT ![i] = TRUE]
  /\ UNCHANGED <<file, index, pc, temp, entities, list, n, contended>>

(* unlock(entities) hashes them anew. *)
Unlock(i) ==
  /\ pc[i] = "held"
  /\ list' = [list EXCEPT ![i] = HashEntities(entities[i])]
  /\ n' = [n EXCEPT ![i] = 1]
  /\ Goto(i, "unlocking")
  /\ UNCHANGED <<file, index, temp, entities, contended, expired>>

GiveSlot(i) ==
  LET e == list[i][n[i]] IN
  /\ pc[i] = "unlocking"
  /\ SetSlot(i, e, Given(Slot(i, e), e.exclusive))
  /\ \/ /\ n[i] < Len(list[i])
        /\ n' = [n EXCEPT ![i] = @ + 1]
        /\ UNCHANGED <<pc, entities, list, contended, expired>>
     \/ /\ n[i] = Len(list[i])
        /\ Leave(i)
        /\ Goto(i, "open")
  /\ UNCHANGED <<file, temp>>

-----------------------------------------------------------------------------
(* A process dies: the kernel gives back its locks on the lock file, but   *)
(* nobody the spinlocks it had.  Bound: one such death per index.           *)
Exit(i) ==
  /\ Crashes
  /\ pc[i] # "closed"
  /\ \/ /\ pc[i] \in Locking \cup {"held", "unlocking"}
        /\ temp[i] \notin abandoned
        /\ abandoned' = abandoned \cup {temp[i]}
     \/ /\ pc[i] \notin Locking \cup {"held", "unlocking"}
        /\ UNCHANGED abandoned
  /\ Closed({i})
  /\ Leave(i)
  /\ Goto(i, "closed")
  /\ UNCHANGED <<path, linked, index>>

(* The power goes: the memory backed directory of temporary files is empty *)
(* afterwards, the lock file stays.  (Had it been a directory on a disk,   *)
(* it would be as if all processes had died.)                              *)
Reboot ==
  /\ Crashes
  /\ linked # {}
  /\ linked' = {}
  /\ index' = [x \in Indices |-> Unlocked]
  /\ Closed(Insts)
  /\ pc' = [i \in Insts |-> "closed"]
  /\ entities' = [i \in Insts |-> << >>]
  /\ list' = [i \in Insts |-> << >>]
  /\ n' = [i \in Insts |-> 1]
  /\ contended' = [i \in Insts |-> 0]
  /\ expired' = [i \in Insts |-> FALSE]
  /\ abandoned' = {}
  /\ UNCHANGED path

OpenStep(i) ==
  \/ Open(i) \/ Join(i) \/ ReadPath(i) \/ OpenTemp(i) \/ Unavailable(i) \/ Create(i)
  \/ WritePath(i) \/ Downgrade(i) \/ DropExclusive(i) \/ OpenFails(i)

CloseStep(i) == Close(i) \/ TryLast(i) \/ Truncate(i) \/ UnlinkTemp(i)

LockStep(i) ==
  \/ Lock(i) \/ TakeSlot(i) \/ Contend(i) \/ Undo(i) \/ TimeOut(i) \/ Retry(i) \/ Expire(i)
  \/ Unlock(i) \/ GiveSlot(i)

Next == (\E i \in Insts : OpenStep(i) \/ CloseStep(i) \/ LockStep(i) \/ Exit(i)) \/ Reboot

Spec == Init /\ [][Next]_vars

-----------------------------------------------------------------------------
Holds(i, e, exclusive) ==
  pc[i] = "held" /\ \E k \in DOMAIN entities[i] : entities[i][k] = [value |-> e, exclusive |-> exclusive]

Clash(i, j) == \E e \in Entities, x \in BOOLEAN : Holds(i, e, TRUE) /\ Holds(j, e, x)

(* No request has an entity in a new slot after a collision: each of its   *)
(* entities finds its slot in the table (see HashEntities). *)
AllEntered ==
  \A s \in Requests : \A k \in DOMAIN s :
    \E m \in DOMAIN HashEntities(s) : HashEntities(s)[m].value = Hash[s[k].value]

(* Instances of one lock file never hold an entity in conflicting ways.    *)
(* This does not hold, as they may use different indices (DropExclusive). *)
Exclusion == \A i, j \in Insts : i # j => ~Clash(i, j)

(* ... as far as they use the same index, whatever collides in it, whoever *)
(* comes, leaves, times out or dies, if AllEntered.                        *)
IndexExclusion == \A i, j \in Insts : (i # j /\ temp[i] = temp[j]) => ~Clash(i, j)

(* All users that have the second byte locked use the index that the lock  *)
(* file names, and it is there: neither a first nor a last user, nor a     *)
(* stale path, comes between.                                              *)
OneIndex ==
  \A i \in Insts :
    (locks[i]["lockinuse"] = "shared" /\ pc[i] \notin {"read", "opentemp", "unavailable"})
      => temp[i] = path /\ path \in linked

(* The entries of list that instance i has locked. *)
Taking(i) ==
  IF pc[i] = "unlocking" THEN { list[i][k] : k \in n[i]..Len(list[i]) }
  ELSE { list[i][k] : k \in 1..n[i] - 1 }

(* A spinlock is locked exactly as the instances on their way through      *)
(* lock() and unlock() have it: shuffling, undoing, hashing a second time  *)
(* and time outs neither leave one behind nor unlock one twice.            *)
Accounted ==
  \A x \in Indices \ abandoned, s \in Slots :
    LET Have(exclusive) == {i \in Insts : temp[i] = x /\ [value |-> s, exclusive |-> exclusive] \in Taking(i)}
    IN  /\ index[x][s].readers = Cardinality(Have(FALSE))
        /\ index[x][s].writer <=> Have(TRUE) # {}

=============================================================================
