---------------------------- MODULE AtomicAppend ----------------------------
(***************************************************************************)
(* algorithm::shared_fs_mutex::atomic_append on POSIX: lock requests are   *)
(* appended to a shared file, and a request is granted once no earlier,    *)
(* uncompleted request conflicts with it.  A completed request is zeroed;  *)
(* the header says up to which record all are known to be completed.       *)
(*                                                                         *)
(* Record k stands for the 128 bytes at offset 128 * k, so record 1 is the *)
(* first after the header.  A read or a write of records or of the header  *)
(* is one step: a torn one fails its hash check and is read again.  Each   *)
(* instance is used by one thread that has at most one lock at a time.     *)
(***************************************************************************)
EXTENDS ByteRangeLocks, Naturals, Sequences, FiniteSetsExt

CONSTANTS
  Insts,         \* the atomic_append instances, each with a handle of its own
  Nobody,        \* the unique_id of a zeroed record
  Dead,          \* the unique_id of a record an earlier use of the file left
  Entities,      \* the values of entity_type
  Requests,      \* the sets of entities callers lock
  Deadlines,     \* the kinds of deadline callers pass
  Spins,         \* the values of spin_not_sleep callers pass
  SkipHashing,   \* skip_hashing: records carry no hash
  BumpEvery,     \* an unlock of every so manieth record bumps the header (32)
  BufRecords,    \* the records in one read (48)
  MaxRecords,    \* bound: requests that are ever appended
  OpenFirst,     \* bound: all instances open the file, once, before any locks
  MayFail        \* bound: the instances whose system calls may fail

Entity == [value : Entities, exclusive : BOOLEAN]

ASSUME AtomicAppendAssumption ==
  /\ Nobody \notin Insts /\ Dead \notin Insts /\ Nobody # Dead
  /\ Requests \subseteq SUBSET Entity
  /\ Deadlines \subseteq {"none", "steady", "utc"}
  /\ Spins \subseteq BOOLEAN
  /\ SkipHashing \in BOOLEAN /\ OpenFirst \in BOOLEAN
  /\ BumpEvery \in Nat \ {0} /\ BufRecords \in Nat \ {0} /\ MaxRecords \in Nat
  /\ MayFail \subseteq Insts

VARIABLES
  locks,     \* the lock table: the header's bytes 0..126 and 127, the records
  records,   \* the records in the file
  header,    \* header.first_known_good in the file
  pc,        \* where each instance's thread is
  known,     \* _header.first_known_good, as each instance last read it
  mine,      \* my_lock_request_offset, then out.hint
  at,        \* record_offset
  entities,  \* out.entities
  deadline, expired, spin

vars == <<locks, records, header, pc, known, mine, at, entities, deadline, expired, spin>>
call == <<entities, deadline, spin>>

(* Lockable offsets: the records, the header's last byte and its others.   *)
Body == 0
Last == MaxRecords + 1
Header == {Body, Last}
Offsets == 0..MaxRecords + 1

Record == [id : Insts \cup {Nobody, Dead}, entities : Requests \cup {{}}]
Zero == [id |-> Nobody, entities |-> {}]

Opening == {"truncate", "write_header", "guard", "unlock_header", "read_header"}
Waiting == {"tag", "reload", "batch", "wait", "woken", "granted", "failed", "abandon"}

TypeOK ==
  /\ locks \in [Insts -> [Offsets -> LockKinds]]
  /\ records \in Seq(Record) /\ Len(records) <= MaxRecords
  /\ header \in 1..MaxRecords + 1
  /\ pc \in [Insts -> {"new", "closed", "ready", "append", "find", "held", "bump", "write"}
                        \cup Opening \cup Waiting]
  /\ known \in [Insts -> 0..MaxRecords + 1]
  /\ mine \in [Insts -> 0..MaxRecords + 1]
  /\ at \in [Insts -> 0..MaxRecords]
  /\ entities \in [Insts -> Requests \cup {{}}]
  /\ deadline \in [Insts -> {"none", "steady", "utc"}]
  /\ expired \in [Insts -> BOOLEAN]
  /\ spin \in [Insts -> BOOLEAN]

(* The lock file may be new or stale: left by processes that all died.     *)
Init ==
  /\ locks = NoLocks(Insts, Offsets)
  /\ records \in {<< >>} \cup { <<[id |-> Dead, entities |-> r]>> : r \in Requests }
  /\ header = 1
  /\ pc = [i \in Insts |-> "new"]
  /\ known = [i \in Insts |-> 0]
  /\ mine = [i \in Insts |-> 0]
  /\ at = [i \in Insts |-> 0]
  /\ entities = [i \in Insts |-> {}]
  /\ deadline = [i \in Insts |-> "none"]
  /\ expired = [i \in Insts |-> FALSE]
  /\ spin = [i \in Insts |-> FALSE]

Goto(i, label) == pc' = [pc EXCEPT ![i] = label]

-----------------------------------------------------------------------------
(* fs_mutex_append: whoever gets the whole header exclusively, without     *)
(* waiting, believes to be the first user of the file and resets it.       *)
Open(i) ==
  /\ pc[i] = "new" \/ (pc[i] = "closed" /\ ~OpenFirst)
  /\ IF LockOutcome(locks, i, Header, "exclusive", "zero") = "granted"
     THEN /\ locks' = SetRange(locks, i, Header, "exclusive")
          /\ Goto(i, "truncate")
     ELSE /\ Goto(i, "guard")
          /\ UNCHANGED locks
  /\ UNCHANGED <<records, header, known, mine, at, expired, call>>

Truncate(i) ==
  /\ pc[i] = "truncate"
  /\ records' = << >>
  /\ Goto(i, "write_header")
  /\ UNCHANGED <<locks, header, known, mine, at, expired, call>>

WriteHeader(i) ==
  /\ pc[i] = "write_header"
  /\ header' = 1
  /\ Goto(i, "guard")
  /\ UNCHANGED <<locks, records, known, mine, at, expired, call>>

(* The shared lock on the header's last byte that tells later openers that *)
(* they are not the first.  It replaces this handle's exclusive one.       *)
TakeGuard(i) ==
  /\ pc[i] = "guard"
  /\ LockOutcome(locks, i, {Last}, "shared", "none") = "granted"
  /\ locks' = SetRange(locks, i, {Last}, "shared")
  /\ Goto(i, IF locks[i][Body] = "exclusive" THEN "unlock_header" ELSE "read_header")
  /\ UNCHANGED <<records, header, known, mine, at, expired, call>>

(* lockresult.value().unlock() unlocks all of the header, last byte too.   *)
UnlockHeader(i) ==
  /\ pc[i] = "unlock_header"
  /\ locks' = SetRange(locks, i, Header, "unlocked")
  /\ Goto(i, "read_header")
  /\ UNCHANGED <<records, header, known, mine, at, expired, call>>

(* The constructor reads and caches the header. *)
ReadHeader(i) ==
  /\ pc[i] = "read_header"
  /\ known' = [known EXCEPT ![i] = header]
  /\ Goto(i, "ready")
  /\ UNCHANGED <<locks, records, header, mine, at, expired, call>>

(* The destructor: the tag goes with _guard, the other locks with _h.      *)
Close(i) ==
  /\ pc[i] = "ready"
  /\ locks' = SetRange(locks, i, Offsets, "unlocked")
  /\ known' = [known EXCEPT ![i] = 0]
  /\ Goto(i, "closed")
  /\ UNCHANGED <<records, header, mine, at, expired, call>>

-----------------------------------------------------------------------------
AllOpen == \A j \in Insts : pc[j] \notin Opening \cup {"new"}

Appending == {j \in Insts : pc[j] = "append"}

(* _lock() up to the fetch of the file's length.  More than twelve         *)
(* entities are refused before anything happens.                           *)
Lock(i) ==
  /\ pc[i] = "ready"
  /\ OpenFirst => AllOpen
  /\ Len(records) + Cardinality(Appending) < MaxRecords
  /\ \E r \in Requests, d \in Deadlines, x \in BOOLEAN, s \in Spins :
       /\ d = "none" => ~x
       /\ entities' = [entities EXCEPT ![i] = r]
       /\ deadline' = [deadline EXCEPT ![i] = d]
       /\ expired' = [expired EXCEPT ![i] = x]
       /\ spin' = [spin EXCEPT ![i] = s]
  /\ mine' = [mine EXCEPT ![i] = Len(records) + 1]
  /\ Goto(i, "append")
  /\ UNCHANGED <<locks, records, header, known, at>>

(* The atomic append of the request. *)
AppendRequest(i) ==
  /\ pc[i] = "append"
  /\ records' = Append(records, [id |-> i, entities |-> entities[i]])
  /\ Goto(i, "find")
  /\ UNCHANGED <<locks, header, known, mine, at, expired, call>>

(* Does the hash of a record equal that of i's request?  Without hashing   *)
(* the field is zero in every record there is.                             *)
SameHash(i, r) == SkipHashing \/ r.id = i

(* Searches for the record just written, from the old length on. *)
Find(i) ==
  LET found == {k \in mine[i]..Len(records) : SameHash(i, records[k])} IN
  /\ pc[i] = "find"
  /\ found # {}
  /\ mine' = [mine EXCEPT ![i] = Min(found)]
  /\ at' = [at EXCEPT ![i] = Min(found) - 1]
  /\ Goto(i, IF spin[i] THEN "reload" ELSE "tag")
  /\ UNCHANGED <<locks, records, header, known, expired, call>>

(* Locks the own record "so others can sleep on me". *)
Tag(i) ==
  /\ pc[i] = "tag"
  /\ LockOutcome(locks, i, {mine[i]}, "exclusive", "none") = "granted"
  /\ locks' = SetRange(locks, i, {mine[i]}, "exclusive")
  /\ Goto(i, "reload")
  /\ UNCHANGED <<records, header, known, mine, at, expired, call>>

(* Refreshes the header; nothing before first_known_good is of interest.   *)
Reload(i) ==
  /\ pc[i] = "reload"
  /\ known' = [known EXCEPT ![i] = header]
  /\ Goto(i, IF at[i] < header THEN "granted" ELSE "batch")
  /\ UNCHANGED <<locks, records, header, mine, at, expired, call>>

(* Mutant of InTheWay: a reader and a writer do not see each other. *)
InTheWayWriters(r, s) ==
  \E x \in r, y \in s : x.value = y.value /\ (x.exclusive /\ y.exclusive)

InTheWay(r, s) ==
  \E x \in r, y \in s : x.value = y.value /\ (x.exclusive \/ y.exclusive)

(* Mutant of Batch: the first record of the buffer is never looked at. *)
BatchNotFirst(i) ==
  LET first == Max({known[i], IF at[i] > BufRecords - 1 THEN at[i] - (BufRecords - 1) ELSE 1})
      blocking == {k \in first + 1..at[i] : k <= Len(records) /\ InTheWay(records[k].entities, entities[i])}
  IN  /\ pc[i] = "batch"
      /\ \/ /\ blocking = {}
            /\ at' = [at EXCEPT ![i] = first - 1]
            /\ Goto(i, IF first - 1 >= known[i] THEN "reload" ELSE "granted")
         \/ /\ blocking # {}
            /\ at' = [at EXCEPT ![i] = Max(blocking)]
            /\ Goto(i, "wait")
      /\ UNCHANGED <<locks, records, header, known, mine, expired, call>>

(* Reads a buffer full of records that ends at record `at', and skips from *)
(* there backwards what is completed or does not conflict.                 *)
Batch(i) ==
  LET first == Max({known[i], IF at[i] > BufRecords - 1 THEN at[i] - (BufRecords - 1) ELSE 1})
      blocking == {k \in first..at[i] : k <= Len(records) /\ InTheWay(records[k].entities, entities[i])}
  IN  /\ pc[i] = "batch"
      /\ \/ /\ blocking = {}
            /\ at' = [at EXCEPT ![i] = first - 1]
            /\ Goto(i, IF first - 1 >= known[i] THEN "reload" ELSE "granted")
         \/ /\ blocking # {}
            /\ at' = [at EXCEPT ![i] = Max(blocking)]
            /\ Goto(i, "wait")
      /\ UNCHANGED <<locks, records, header, known, mine, expired, call>>

(* Sleeps on the record in the way with a shared lock, or spins.  Both go  *)
(* on to look at the time; a deadline POSIX cannot serve is an error.      *)
WaitOutcome(i) ==
  LockOutcome(locks, i, {at[i]}, "shared", PartialDeadline(deadline[i], expired[i]))

Wait(i) ==
  /\ pc[i] = "wait"
  /\ \/ /\ spin[i]
        /\ Goto(i, "woken")
        /\ UNCHANGED locks
     \/ /\ ~spin[i]
        /\ WaitOutcome(i) = "granted"
        /\ locks' = SetRange(locks, i, {at[i]}, "shared")
        /\ Goto(i, "woken")
     \/ /\ ~spin[i]
        /\ WaitOutcome(i) = "not_supported"
        /\ Goto(i, "failed")
        /\ UNCHANGED locks
  /\ UNCHANGED <<records, header, known, mine, at, expired, call>>

(* Gives the shared lock back at once, and tries again unless timed out.   *)
Woken(i) ==
  /\ pc[i] = "woken"
  /\ locks' = IF spin[i] THEN locks ELSE SetRange(locks, i, {at[i]}, "unlocked")
  /\ Goto(i, IF deadline[i] # "none" /\ expired[i] THEN "failed"
             ELSE IF at[i] >= known[i] THEN "reload" ELSE "granted")
  /\ UNCHANGED <<records, header, known, mine, at, expired, call>>

(* A lock or a read fails once the request is in the file: hint is set and *)
(* disableunlock released, so that the guard zeroes the request.           *)
LockFails(i) ==
  /\ i \in MayFail /\ pc[i] \in {"tag", "reload", "batch", "wait"}
  /\ Goto(i, "failed")
  /\ UNCHANGED <<locks, records, header, known, mine, at, expired, call>>

Expire(i) ==
  /\ pc[i] \in Waiting
  /\ deadline[i] # "none"
  /\ ~expired[i]
  /\ expired' = [expired EXCEPT ![i] = TRUE]
  /\ UNCHANGED <<locks, records, header, pc, known, mine, at, call>>

(* Mutant of Return: my_request_guard is released, not destroyed. *)
ReturnKeepsTag(i) ==
  /\ pc[i] \in {"granted", "failed"}
  /\ Goto(i, IF pc[i] = "granted" THEN "held" ELSE "abandon")
  /\ UNCHANGED <<locks, records, header, known, mine, at, expired, call>>

(* Mutant of Return: a failed _lock() has released the guard. *)
ReturnReleased(i) ==
  /\ pc[i] \in {"granted", "failed"}
  /\ locks' = IF spin[i] THEN locks ELSE SetRange(locks, i, {mine[i]}, "unlocked")
  /\ Goto(i, IF pc[i] = "granted" THEN "held" ELSE "ready")
  /\ UNCHANGED <<records, header, known, mine, at, expired, call>>

(* _lock() returns: my_request_guard is a local and gives its lock back.   *)
Return(i) ==
  /\ pc[i] \in {"granted", "failed"}
  /\ locks' = IF spin[i] THEN locks ELSE SetRange(locks, i, {mine[i]}, "unlocked")
  /\ Goto(i, IF pc[i] = "granted" THEN "held" ELSE "abandon")
  /\ UNCHANGED <<records, header, known, mine, at, expired, call>>

-----------------------------------------------------------------------------
(* unlock(entities, hint), called by the guard of a lock held, and by the  *)
(* one lock() destroys when _lock() has failed: the record is zeroed, and  *)
(* every BumpEvery records the header is brought up to date.               *)
Forget(i) ==
  /\ entities' = [entities EXCEPT ![i] = {}]
  /\ deadline' = [deadline EXCEPT ![i] = "none"]
  /\ expired' = [expired EXCEPT ![i] = FALSE]
  /\ spin' = [spin EXCEPT ![i] = FALSE]
  /\ mine' = [mine EXCEPT ![i] = 0]
  /\ at' = [at EXCEPT ![i] = 0]

Unlock(i) ==
  /\ pc[i] \in {"held", "abandon"}
  /\ records' = [k \in DOMAIN records |-> IF k = mine[i] THEN Zero ELSE records[k]]
  /\ Goto(i, IF mine[i] % BumpEvery = 0 THEN "bump" ELSE "ready")
  /\ Forget(i)
  /\ UNCHANGED <<locks, header, known>>

(* Mutant of Bump: first_known_good ends up after the record found live. *)
BumpPastLive(i) ==
  LET last == Min({Len(records), known[i] + BufRecords - 1})
      live == {k \in known[i]..last : records[k] # Zero}
  IN  /\ pc[i] = "bump"
      /\ known' = [known EXCEPT ![i] = IF live # {} THEN Min(live) + 1
                                       ELSE Max({known[i], last + 1})]
      /\ Goto(i, IF last < known[i] + BufRecords - 1 THEN "write" ELSE "bump")
      /\ UNCHANGED <<locks, records, header, mine, at, expired, call>>

(* One read of the forward scan, from the CACHED first_known_good: skips   *)
(* the completed records in front, and is the last if the read was short.  *)
Bump(i) ==
  LET last == Min({Len(records), known[i] + BufRecords - 1})
      live == {k \in known[i]..last : records[k] # Zero}
  IN  /\ pc[i] = "bump"
      /\ known' = [known EXCEPT ![i] = IF live # {} THEN Min(live)
                                       ELSE Max({known[i], last + 1})]
      /\ Goto(i, IF last < known[i] + BufRecords - 1 THEN "write" ELSE "bump")
      /\ UNCHANGED <<locks, records, header, mine, at, expired, call>>

WriteBump(i) ==
  /\ pc[i] = "write"
  /\ header' = known[i]
  /\ Goto(i, "ready")
  /\ UNCHANGED <<locks, records, known, mine, at, expired, call>>

(* A read that fails ends the forward scan, as far as it has come; that    *)
(* the header could not be written goes unnoticed.                         *)
BumpFails(i) ==
  /\ i \in MayFail /\ pc[i] \in {"bump", "write"}
  /\ Goto(i, IF pc[i] = "bump" THEN "write" ELSE "ready")
  /\ UNCHANGED <<locks, records, header, known, mine, at, expired, call>>

(* What the code of an instance does next without being asked. *)
Step(i) ==
  \/ Truncate(i) \/ WriteHeader(i) \/ TakeGuard(i) \/ UnlockHeader(i) \/ ReadHeader(i)
  \/ AppendRequest(i) \/ Find(i) \/ Tag(i) \/ Reload(i) \/ Batch(i) \/ Wait(i) \/ Woken(i)
  \/ Return(i) \/ Bump(i) \/ WriteBump(i)

Next == \E i \in Insts : \/ Open(i) \/ Close(i) \/ Lock(i) \/ Unlock(i) \/ Expire(i) \/ Step(i)
                         \/ LockFails(i) \/ BumpFails(i)

Spec == Init /\ [][Next]_vars

(* A running thread keeps running, and the kernel does not pass over a     *)
(* sleeper for ever; an abandoned request is code, not a user's choice.    *)
Running ==
  \A i \in Insts :
    /\ WF_vars(Step(i)) /\ WF_vars(pc[i] = "abandon" /\ Unlock(i))
    /\ SF_vars(Tag(i)) /\ SF_vars(Wait(i))

HoldersUnlock == \A i \in Insts : WF_vars(Unlock(i))

RunningSpec == Spec /\ Running
FairSpec == RunningSpec /\ HoldersUnlock

-----------------------------------------------------------------------------
Holds(i, e, exclusive) ==
  pc[i] = "held" /\ [value |-> e, exclusive |-> exclusive] \in entities[i]

held == [i \in Insts |-> [e \in Entities |-> IF Holds(i, e, TRUE) THEN "exclusive"
                                             ELSE IF Holds(i, e, FALSE) THEN "shared"
                                             ELSE "unlocked"]]

Mutex == INSTANCE SharedFsMutex WITH Lockers <- Insts

(* No two instances hold an entity in conflicting ways, however the stale  *)
(* caches of the header, the zeroing and the scans interleave.             *)
Exclusion == Mutex!Exclusion

(* atomic_append grants whole requests and gives whole requests back. *)
Refines == Mutex!Spec

(* Requests are granted in the order they were appended: no request is     *)
(* granted over an earlier one in its way that is not completed.           *)
NoOvertaking ==
  \A i \in Insts :
    pc[i] \in {"granted", "held"} =>
      \A k \in 1..mine[i] - 1 : ~InTheWay(records[k].entities, entities[i])

(* Whatever stale copy of the header is written back, every record before  *)
(* first_known_good, in the file or cached, is completed for good.         *)
KnownGood ==
  \A k \in DOMAIN records :
    (k < header \/ \E i \in Insts : AllOpen /\ k < known[i]) => records[k] = Zero

(* A request in the file is somebody's: one that nobody will ever zero     *)
(* would block all others for ever.  Also after a lock() that failed.      *)
NoOrphan ==
  AllOpen => \A k \in DOMAIN records :
    records[k] # Zero =>
      \E i \in Insts : /\ records[k].id = i
                       /\ pc[i] = "find" \/ (pc[i] \in Waiting \cup {"held"} /\ mine[i] = k)

(* Whoever asks for a lock without a deadline gets it in the end, if all   *)
(* holders unlock and no system call of its own fails.                     *)
LockReturns ==
  \A i \in Insts : (pc[i] = "append" /\ deadline[i] = "none") ~> pc[i] \in {"held", "failed"}

=============================================================================
