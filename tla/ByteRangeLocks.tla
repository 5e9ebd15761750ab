--------------------------- MODULE ByteRangeLocks ---------------------------
(***************************************************************************)
(* The advisory byte range locks that lockable_byte_io_handle gives on     *)
(* POSIX, as every shared_fs_mutex algorithm uses them.                     *)
(*                                                                         *)
(* A lock table maps an open file (a handle: F_OFD_* locks belong to the   *)
(* open file description) and an offset to the kind of lock that handle    *)
(* has on that offset.  Three facts of fcntl() matter to the callers:      *)
(*   - a handle never conflicts with itself;                               *)
(*   - a new lock REPLACES what the handle had on each offset of the range; *)
(*   - an unlock removes whatever the handle has on each offset.           *)
(***************************************************************************)

LockKinds == {"unlocked", "shared", "exclusive"}

(* fcntl()'s compatibility of two locks of different handles on one offset. *)
Conflict(a, b) ==
  /\ a # "unlocked"
  /\ b # "unlocked"
  /\ "exclusive" \in {a, b}

NoLocks(handles, offsets) == [h \in handles |-> [o \in offsets |-> "unlocked"]]

(* Would the kernel grant h a lock of this kind on every offset of range?  *)
Grantable(table, h, range, kind) ==
  \A g \in DOMAIN table \ {h}, o \in range : ~Conflict(table[g][o], kind)

SetRange(table, h, range, kind) ==
  [table EXCEPT ![h] = [o \in DOMAIN table[h] |->
                          IF o \in range THEN kind ELSE table[h][o]]]

(***************************************************************************)
(* lock_file_range(range, kind, nd).  nd is what the function can tell of  *)
(* its deadline: "none" (operator bool is false: F_OFD_SETLKW), "zero" (a  *)
(* valid deadline whose nsecs is 0: F_OFD_SETLK) or "timed" (any other     *)
(* valid deadline, refused before the kernel is asked).  "blocked" is the  *)
(* outcome of a call that has not returned.                                *)
(***************************************************************************)
LockOutcome(table, h, range, kind, nd) ==
  IF nd = "timed" THEN "not_supported"
  ELSE IF Grantable(table, h, range, kind) THEN "granted"
  ELSE IF nd = "zero" THEN "timed_out"
  ELSE "blocked"

(* Mutant of PartialDeadline: the caller's deadline is not passed on. *)
PartialDeadlineDropped(d, expired) == "none"

(***************************************************************************)
(* The deadline handed to lock_file_range for a caller's deadline d, which *)
(* is "none", "steady" (a duration; expired once began + duration has      *)
(* passed, from the start for try_lock's zero duration) or "utc".  The     *)
(* code starts from a default constructed deadline, whose steady member is *)
(* false, and assigns only its nsecs member, which shares its storage with *)
(* utc.tv_sec: a remainder of zero leaves nd an INVALID deadline, that is, *)
(* none at all, and a positive one makes it a valid absolute one.          *)
(***************************************************************************)
PartialDeadline(d, expired) ==
  CASE d = "none"   -> "none"
    [] d = "utc"    -> "timed"
    [] d = "steady" -> IF expired THEN "none" ELSE "timed"

=============================================================================
