------------------------------ MODULE FsHandle ------------------------------
(***************************************************************************)
(* fs_handle on Linux: relink(), link(), unlink() and parent_path_handle() *)
(* of handles to files, while others rename files and directories.         *)
(*                                                                         *)
(* A handle knows its file, the name it was opened by as the kernel tracks *)
(* it (at), and the inode it cached.  To act on the file it asks for its   *)
(* path, opens the directory of that path again and compares the inode of  *)
(* the leaf there: three system calls with everybody else in between.  A   *)
(* place is a leaf of a directory object; a path is a leaf below the       *)
(* directory's present name.  An inode stands for its device and number.   *)
(* The handles are handles to files, not to directories.                   *)
(***************************************************************************)
EXTENDS Integers, FiniteSets

CONSTANTS
  Handles,
  Dirs,         \* the directories
  Labels,       \* the names directories may have
  Leaves,       \* the names files may have in each of them
  Inodes,       \* the files
  None,         \* no file, no directory, no name
  Volume,       \* the file system each directory is on
  Home,         \* and each file
  NoReplace,    \* the file systems that know RENAME_NOREPLACE
  MaxMoves,     \* bound: what others do to the names, and calls on other handles
  Restless      \* bound: others' renames do not count

Places == Dirs \X Leaves

ASSUME FsHandleAssumption ==
  /\ None \notin Inodes \cup Dirs \cup Places
  /\ IsFiniteSet(Labels) /\ Cardinality(Labels) >= Cardinality(Dirs)
  /\ DOMAIN Volume = Dirs /\ DOMAIN Home = Inodes
  /\ MaxMoves \in Nat /\ Restless \in BOOLEAN

VARIABLES
  label,      \* the name of each directory
  entry,      \* the file at each place
  linkable,   \* the files made without a name that have had none yet
  file,       \* the handle's descriptor: the file it is open on, None if closed
  at,         \* the name the kernel tracks for it, None once "(deleted)"
  inode,      \* _devid and _inode, None before _fetch_inode()
  flags,      \* "anonymous_inode", "disable_safety_unlinks"
  pc,
  call,       \* the call in progress
  path,       \* current_path(), as the directory's name and the leaf
  dirh,       \* the directory opened by that path
  late,       \* the deadline of the call has passed
  result,     \* what the last call returned
  moves,
  touched     \* history: files whose names others changed under a handle's feet

tree == <<label, entry, linkable>>
handle == <<file, at, inode, flags>>
frame == <<pc, call, path, dirh, late, result>>
fsvars == <<tree, handle, frame, moves, touched>>

-----------------------------------------------------------------------------
(* What a call is, and where it stands                                     *)

Ops == {"parent", "relink", "link", "unlink"}
Request == [op : Ops, to : Places, replace : BOOLEAN, timed : BOOLEAN]
Results == {"none", "ok", "exists", "missing", "crossdevice", "unsupported", "timedout"}

Idle(h) == pc[h] = "idle"

\* The leaf the call has found its file at, and acts on by name.
Target(h) == <<dirh[h], path[h][2]>>

\* From the match of the inode to the last system call on the name.
Window == {"act", "linkat", "reopen", "unlinkat"}

\* The names a call in that window relies on: what it matched, and what it linked.
Relied(h) == {Target(h)} \cup (IF pc[h] \in {"reopen", "unlinkat"} THEN {call[h].to} ELSE {})

-----------------------------------------------------------------------------
(* The file system                                                         *)

SameVolume(p, q) == Volume[p[1]] = Volume[q[1]]

\* rename(p, q): the descriptors opened by name p follow, those of what was at q
\* lose their name.  Two names of one file are left as they are.
Rename(p, q) ==
  IF entry[p] = entry[q]
  THEN UNCHANGED <<entry, at>>
  ELSE /\ entry' = [entry EXCEPT ![q] = entry[p], ![p] = None]
       /\ at' = [h \in Handles |-> IF at[h] = q THEN None
                                   ELSE IF at[h] = p THEN q ELSE at[h]]

\* unlink(p)
Remove(p) ==
  /\ entry' = [entry EXCEPT ![p] = None]
  /\ at' = [h \in Handles |-> IF at[h] = p THEN None ELSE at[h]]

\* What renameat() says to moving p to q.
RenameError(p, q, replace) ==
  IF entry[p] = None THEN "missing"
  ELSE IF ~SameVolume(p, q) THEN "crossdevice"
  ELSE IF ~replace /\ entry[q] # None THEN "exists"
  ELSE "ok"

\* What linkat() says to a link at q to file f, None if there is no such file.
LinkError(f, q) ==
  IF f = None THEN "missing"
  ELSE IF entry[q] # None THEN "exists"
  ELSE IF Home[f] # Volume[q[1]] THEN "crossdevice"
  ELSE "ok"

\* The files whose name this step changes in the window of a call of one of H.
Disturbed(H) ==
  UNION {{entry[p], entry'[p]} : p \in {p \in UNION {Relied(h) : h \in {g \in H : pc[g] \in Window}} :
                                          entry'[p] # entry[p]}}

-----------------------------------------------------------------------------
(* The calls                                                               *)

\* A call that has returned leaves nothing of its locals.
Return(h, r) ==
  /\ pc' = [pc EXCEPT ![h] = "idle"]
  /\ result' = [result EXCEPT ![h] = r]
  /\ path' = [path EXCEPT ![h] = None]
  /\ dirh' = [dirh EXCEPT ![h] = None]
  /\ late' = [late EXCEPT ![h] = FALSE]
  /\ call' = [call EXCEPT ![h] = None]

Goto(h, l) ==
  /\ pc' = [pc EXCEPT ![h] = l]
  /\ UNCHANGED <<result, path, dirh, late, call>>

\* relink() of an anonymous inode and link() first try without looking for the name.
Begin(h, c, expired) ==
  /\ Idle(h) /\ file[h] # None
  /\ call' = [call EXCEPT ![h] = c]
  /\ late' = [late EXCEPT ![h] = expired]
  /\ pc' = [pc EXCEPT ![h] = CASE c.op = "relink" /\ "anonymous_inode" \in flags[h] -> "anonymous"
                                [] c.op = "link" -> "linkfd"
                                [] OTHER -> "path"]
  /\ UNCHANGED <<result, path, dirh>>

\* The file of a handle as linkat() sees it: one that has lost its last name cannot
\* be linked again, only one that never had a name.
Linked(h) ==
  IF file[h] \in linkable \/ \E p \in Places : entry[p] = file[h] THEN file[h] ELSE None

LinkIt(h) ==
  /\ entry' = [entry EXCEPT ![call[h].to] = file[h]]
  /\ linkable' = linkable \ {file[h]}

\* relink() of an O_TMPFILE inode: a link through /proc/self/fd.
RelinkAnonymous(h) ==
  /\ pc[h] = "anonymous"
  /\ LET e == IF call[h].replace THEN "unsupported"
              ELSE LinkError(Linked(h), call[h].to)
     IN /\ Return(h, e)
        /\ IF e = "ok"
           THEN /\ LinkIt(h)
                /\ flags' = [flags EXCEPT ![h] = @ \ {"anonymous_inode"}]
           ELSE UNCHANGED <<entry, linkable, flags>>
  /\ touched' = touched \cup Disturbed(Handles \ {h})
  /\ UNCHANGED <<label, file, at, inode, moves>>

\* link() by descriptor: AT_EMPTY_PATH, then /proc/self/fd.
LinkFd(h) ==
  /\ pc[h] = "linkfd"
  /\ LET e == LinkError(Linked(h), call[h].to)
     IN \/ /\ e = "ok"
           /\ LinkIt(h)
           /\ Return(h, "ok")
        \/ /\ e = "exists"
           /\ UNCHANGED <<entry, linkable>>
           /\ Return(h, "exists")
        \/ /\ e \notin {"ok", "exists"}
           /\ UNCHANGED <<entry, linkable>>
           /\ Goto(h, "path")
  /\ touched' = touched \cup Disturbed(Handles \ {h})
  /\ UNCHANGED <<label, handle, moves>>

\* containing_directory(): current_path(); _fetch_inode() has been called before.
Path(h) ==
  /\ pc[h] = "path"
  /\ inode' = [inode EXCEPT ![h] = IF @ = None THEN file[h] ELSE @]
  /\ \/ /\ at[h] = None
        /\ Return(h, "missing")
     \/ /\ at[h] # None
        /\ path' = [path EXCEPT ![h] = <<label[at[h][1]], at[h][2]>>]
        /\ pc' = [pc EXCEPT ![h] = "open"]
        /\ UNCHANGED <<result, dirh, late, call>>
  /\ UNCHANGED <<tree, file, at, flags, moves, touched>>

\* Mutant: a directory that is gone is tried again by the same path.
OpenDirAgain(h) ==
  /\ pc[h] = "open"
  /\ \/ /\ \A d \in Dirs : label[d] # path[h][1]
        /\ Goto(h, "open")
     \/ \E d \in Dirs :
          /\ label[d] = path[h][1]
          /\ dirh' = [dirh EXCEPT ![h] = d]
          /\ pc' = [pc EXCEPT ![h] = "stat"]
          /\ UNCHANGED <<result, path, late, call>>
  /\ UNCHANGED <<tree, handle, moves, touched>>

\* Opens the directory of that path; if there is none, starts again.
OpenDir(h) ==
  /\ pc[h] = "open"
  /\ \/ /\ \A d \in Dirs : label[d] # path[h][1]
        /\ Goto(h, "path")
     \/ \E d \in Dirs :
          /\ label[d] = path[h][1]
          /\ dirh' = [dirh EXCEPT ![h] = d]
          /\ pc' = [pc EXCEPT ![h] = IF "disable_safety_unlinks" \in flags[h] THEN "act" ELSE "stat"]
          /\ UNCHANGED <<result, path, late, call>>
  /\ UNCHANGED <<tree, handle, moves, touched>>

\* Mutant: any file by that name will do.
StatAny(h) ==
  /\ pc[h] = "stat"
  /\ Goto(h, IF entry[Target(h)] = None THEN "path" ELSE "act")
  /\ UNCHANGED <<tree, handle, moves, touched>>

\* Compares the inode of the leaf with the handle's.  Only a name that is there
\* and is another file's looks at the deadline.
Stat(h) ==
  /\ pc[h] = "stat"
  /\ LET e == entry[Target(h)]
     IN \/ e = None /\ Goto(h, "path")
        \/ e = inode[h] /\ Goto(h, "act")
        \/ /\ e \notin {None, inode[h]}
           /\ IF late[h] THEN Return(h, "timedout") ELSE Goto(h, "path")
  /\ UNCHANGED <<tree, handle, moves, touched>>

\* parent_path_handle() returns the directory.
Parent(h) ==
  /\ pc[h] = "act" /\ call[h].op = "parent"
  /\ Return(h, "ok")
  /\ UNCHANGED <<tree, handle, moves, touched>>

Unlink(h) ==
  /\ pc[h] = "act" /\ call[h].op = "unlink"
  /\ IF entry[Target(h)] = None
     THEN Return(h, "missing") /\ UNCHANGED <<entry, at>>
     ELSE Return(h, "ok") /\ Remove(Target(h))
  /\ touched' = touched \cup Disturbed(Handles \ {h})
  /\ UNCHANGED <<label, linkable, file, inode, flags, moves>>

\* link() by the name found.
Link(h) ==
  /\ pc[h] = "act" /\ call[h].op = "link"
  /\ LET e == LinkError(entry[Target(h)], call[h].to)
     IN /\ Return(h, e)
        /\ entry' = IF e = "ok" THEN [entry EXCEPT ![call[h].to] = entry[Target(h)]] ELSE entry
  /\ touched' = touched \cup Disturbed(Handles \ {h})
  /\ UNCHANGED <<label, linkable, handle, moves>>

\* Mutant: a file system that does not know RENAME_NOREPLACE gets a plain renameat().
RelinkPlain(h) ==
  /\ pc[h] = "act" /\ call[h].op = "relink"
  /\ LET plain == call[h].replace \/ Volume[dirh[h]] \notin NoReplace
         e == RenameError(Target(h), call[h].to, plain)
     IN /\ Return(h, e)
        /\ IF e = "ok" THEN Rename(Target(h), call[h].to) ELSE UNCHANGED <<entry, at>>
  /\ touched' = touched \cup Disturbed(Handles \ {h})
  /\ UNCHANGED <<label, linkable, file, inode, flags, moves>>

\* relink(): renameat() to replace, else renameat2(RENAME_NOREPLACE), which only a
\* name that exists makes final.
Relink(h) ==
  /\ pc[h] = "act" /\ call[h].op = "relink"
  /\ LET to == call[h].to
         known == call[h].replace \/ Volume[dirh[h]] \in NoReplace
         e == RenameError(Target(h), to, call[h].replace)
     IN \/ /\ known /\ e = "ok"
           /\ Rename(Target(h), to)
           /\ Return(h, "ok")
        \/ /\ known /\ e # "ok" /\ (call[h].replace \/ e = "exists")
           /\ UNCHANGED <<entry, at>>
           /\ Return(h, e)
        \/ /\ ~call[h].replace /\ (~known \/ e \notin {"ok", "exists"})
           /\ UNCHANGED <<entry, at>>
           /\ Goto(h, "linkat")
  /\ touched' = touched \cup Disturbed(Handles \ {h})
  /\ UNCHANGED <<label, linkable, file, inode, flags, moves>>

\* Otherwise a hard link,
LinkAt(h) ==
  /\ pc[h] = "linkat"
  /\ LET e == LinkError(entry[Target(h)], call[h].to)
     IN IF e = "ok"
        THEN /\ entry' = [entry EXCEPT ![call[h].to] = entry[Target(h)]]
             /\ Goto(h, "reopen")
        ELSE Return(h, e) /\ UNCHANGED entry
  /\ touched' = touched \cup Disturbed(Handles \ {h})
  /\ UNCHANGED <<label, linkable, handle, moves>>

\* a new descriptor by the new name, for the kernel to track that one,
Reopen(h) ==
  /\ pc[h] = "reopen"
  /\ LET new == entry[call[h].to]
     IN IF new = None
        THEN /\ UNCHANGED <<file, at>>
             /\ result' = [result EXCEPT ![h] = "missing"]
        ELSE /\ file' = [file EXCEPT ![h] = new]
             /\ at' = [at EXCEPT ![h] = call[h].to]
             /\ result' = [result EXCEPT ![h] = "ok"]
  /\ pc' = [pc EXCEPT ![h] = "unlinkat"]
  /\ UNCHANGED <<tree, inode, flags, call, path, dirh, late, moves, touched>>

\* and the old name goes whether or not that worked.
UnlinkAt(h) ==
  /\ pc[h] = "unlinkat"
  /\ IF entry[Target(h)] = None
     THEN Return(h, "missing") /\ UNCHANGED <<entry, at>>
     ELSE Return(h, result[h]) /\ Remove(Target(h))
  /\ touched' = touched \cup Disturbed(Handles \ {h})
  /\ UNCHANGED <<label, linkable, file, inode, flags, moves>>

\* Time passes.
Elapse(h) ==
  /\ ~Idle(h) /\ call[h].timed /\ ~late[h]
  /\ late' = [late EXCEPT ![h] = TRUE]
  /\ UNCHANGED <<tree, handle, pc, call, path, dirh, result, moves, touched>>

Step(h) ==
  \/ RelinkAnonymous(h) \/ LinkFd(h)
  \/ Path(h) \/ OpenDir(h) \/ Stat(h)
  \/ Parent(h) \/ Unlink(h) \/ Link(h) \/ Relink(h)
  \/ LinkAt(h) \/ Reopen(h) \/ UnlinkAt(h)

-----------------------------------------------------------------------------
(* Everybody else                                                          *)

OthersRename(p, q) ==
  /\ moves < MaxMoves
  /\ p # q /\ RenameError(p, q, TRUE) = "ok"
  /\ Rename(p, q)
  /\ touched' = touched \cup Disturbed(Handles) \cup {entry[q]}
  /\ moves' = IF Restless THEN moves ELSE moves + 1
  /\ UNCHANGED <<label, linkable, file, inode, flags, frame>>

OthersUnlink(p) ==
  /\ moves < MaxMoves /\ entry[p] # None
  /\ Remove(p)
  /\ touched' = touched \cup Disturbed(Handles) \cup {entry[p]}
  /\ moves' = moves + 1
  /\ UNCHANGED <<label, linkable, file, inode, flags, frame>>

OthersRenameDir(d, l) ==
  /\ moves < MaxMoves /\ \A e \in Dirs : label[e] # l
  /\ label' = [label EXCEPT ![d] = l]
  /\ moves' = moves + 1
  /\ UNCHANGED <<entry, linkable, handle, frame, touched>>

Others ==
  \/ \E p, q \in Places : OthersRename(p, q)
  \/ \E p \in Places : OthersUnlink(p)
  \/ \E d \in Dirs, l \in Labels : OthersRenameDir(d, l)

-----------------------------------------------------------------------------
FsTypeOK ==
  /\ label \in [Dirs -> Labels] /\ entry \in [Places -> Inodes \cup {None}]
  /\ linkable \subseteq Inodes
  /\ file \in [Handles -> Inodes \cup {None}]
  /\ at \in [Handles -> Places \cup {None}]
  /\ inode \in [Handles -> Inodes \cup {None}]
  /\ flags \in [Handles -> SUBSET {"anonymous_inode", "disable_safety_unlinks"}]
  /\ pc \in [Handles -> {"idle", "anonymous", "linkfd", "path", "open", "stat"} \cup Window]
  /\ call \in [Handles -> Request \cup {None}]
  /\ path \in [Handles -> (Labels \X Leaves) \cup {None}]
  /\ dirh \in [Handles -> Dirs \cup {None}]
  /\ late \in [Handles -> BOOLEAN]
  /\ result \in [Handles -> Results]
  /\ moves \in 0..MaxMoves
  /\ touched \subseteq Inodes \cup {None}
=============================================================================
