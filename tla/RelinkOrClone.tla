--------------------------- MODULE RelinkOrClone ----------------------------
(***************************************************************************)
(* algorithm::relink_or_clone_copy_unlink(): moves a file with relink() if *)
(* that works, else makes a copy of it in an anonymous inode at the        *)
(* destination, gives the copy its name and unlinks the source.  The       *)
(* handles of the copy are Temp (desth) and Temp2 (desth2).  Users use     *)
(* their own handles meanwhile.  The file systems know O_TMPFILE, and a    *)
(* random name is one that nobody has.                                     *)
(***************************************************************************)
EXTENDS FsHandle

CONSTANTS
  Src, Temp, Temp2,  \* the handles of the algorithm
  Users,             \* the handles of others in the same program
  Randoms,           \* leaves that are random names
  Blank,             \* the content of a new file
  Originals,         \* bound: where the files and directories are at first, and the
                     \* files that users have opened by name or made without one
  Deadlines,         \* bound: whether the calls have one
  MaxJobs            \* bound: calls of the algorithm

ASSUME RelinkOrCloneAssumption ==
  /\ Handles = {Src, Temp, Temp2} \cup Users
  /\ Cardinality(Handles) = 3 + Cardinality(Users)
  /\ Randoms \subseteq Leaves
  /\ \A o \in Originals : /\ Src \in DOMAIN o.opened
                          /\ \A h \in DOMAIN o.opened : o.opened[h] \in DOMAIN o.entry
                          /\ Users = (DOMAIN o.opened \cup DOMAIN o.made) \ {Src}
  /\ Deadlines \subseteq BOOLEAN /\ MaxJobs \in Nat

VARIABLES
  stage,      \* where the algorithm is
  job,        \* its arguments: where to, atomic_replace, whether there is a deadline
  random,     \* the random name of the copy
  over,       \* its deadline has passed
  data,       \* what is in each file
  outcome,    \* what the last call returned: "moved" is false, "copied" is true
  jobs,
  moving,     \* history: what was in the file when the call began
  forgone     \* history: contents a call was asked to remove or to replace

algorithm == <<stage, job, random, over, data, outcome, jobs, moving>>
vars == <<fsvars, algorithm, forgone>>

Contents == {data[i] : i \in Inodes} \ {Blank}
Named(c) == {p \in Places : entry[p] # None /\ data[entry[p]] = c}
Interfered(c) == \E i \in touched \ {None} : data[i] = c

\* What a relink takes the place of; NeverReplaces says when it may.
Replaced ==
  {data[entry[call[h].to]] : h \in
     {h \in Handles : /\ pc[h] = "act" /\ call[h].op = "relink"
                      /\ pc'[h] = "idle" /\ result'[h] = "ok"
                      /\ entry[call[h].to] \notin {None, entry[Target(h)]}}}

-----------------------------------------------------------------------------
(* The steps of the algorithm                                              *)

Ask(op, to, replace, timed) == [op |-> op, to |-> to, replace |-> replace, timed |-> timed]

\* Calls a member function of one of its handles.
Invoke(h, op, to, replace, l) ==
  /\ Begin(h, Ask(op, to, replace, job.timed), over)
  /\ stage' = l
  /\ UNCHANGED <<tree, handle, moves, touched, job, random, over, data, outcome, jobs, moving>>

\* With the default deadline of thirty seconds.
InvokeDefault(h, op, l) ==
  /\ Begin(h, Ask(op, job.to, FALSE, TRUE), FALSE)
  /\ stage' = l
  /\ UNCHANGED <<tree, handle, moves, touched, job, random, over, data, outcome, jobs, moving>>

Proceed(l) ==
  /\ stage' = l
  /\ UNCHANGED <<fsvars, job, random, over, data, outcome, jobs, moving>>

\* Returns, and the handles of the copy close.
Finish(r) ==
  /\ stage' = "idle" /\ outcome' = r
  /\ job' = None /\ random' = None /\ over' = FALSE /\ moving' = Blank
  /\ file' = [file EXCEPT ![Temp] = None, ![Temp2] = None]
  /\ at' = [at EXCEPT ![Temp] = None, ![Temp2] = None]
  /\ UNCHANGED <<tree, inode, flags, frame, moves, touched, data, jobs>>

Start(to, replace, timed) ==
  /\ stage = "idle" /\ jobs < MaxJobs
  /\ Begin(Src, Ask("relink", to, replace, timed), FALSE)
  /\ stage' = "relink"
  /\ job' = [to |-> to, replace |-> replace, timed |-> timed]
  /\ over' = FALSE
  /\ jobs' = jobs + 1
  /\ moving' = data[file[Src]]
  /\ UNCHANGED <<tree, handle, moves, touched, random, data, outcome>>

\* A relink that fails is a reason to copy, whatever the error, but for a name in
\* the way that must not be replaced.
Relinked ==
  /\ stage = "relink" /\ Idle(Src)
  /\ \/ result[Src] = "ok" /\ Finish("moved")
     \/ result[Src] = "exists" /\ ~job.replace /\ Finish("failed")
     \/ result[Src] # "ok" /\ (result[Src] # "exists" \/ job.replace) /\ Proceed("temp")

\* temp_inode(): a file without a name.
TempInode ==
  /\ stage = "temp"
  /\ \/ Finish("failed")
     \/ \E i \in Inodes :
          /\ \A p \in Places : entry[p] # i
          /\ \A h \in Handles : file[h] # i
          /\ Home[i] = Volume[job.to[1]]
          /\ file' = [file EXCEPT ![Temp] = i]
          /\ at' = [at EXCEPT ![Temp] = None]
          /\ inode' = [inode EXCEPT ![Temp] = None]
          /\ flags' = [flags EXCEPT ![Temp] = {"anonymous_inode", "disable_safety_unlinks"}]
          /\ data' = [data EXCEPT ![i] = Blank]
          /\ linkable' = linkable \cup {i}
          /\ stage' = IF job.replace THEN "copy" ELSE "probe"
          /\ UNCHANGED <<label, entry, frame, moves, touched, job, random, over, outcome, jobs, moving>>

\* Whether there is a file at the destination, before the copy is made.
Probe ==
  /\ stage = "probe"
  /\ IF entry[job.to] = None THEN Proceed("copy") ELSE Finish("failed")

\* clone_extents_to() and stamp(): all of the file, or an error.
Copy ==
  /\ stage = "copy"
  /\ \/ Finish("failed")
     \/ /\ data' = [data EXCEPT ![file[Temp]] = data[file[Src]]]
        /\ stage' = "link"
        /\ UNCHANGED <<fsvars, job, random, over, outcome, jobs, moving>>

\* The copy gets the name of the destination.
LinkCopy ==
  /\ stage = "link"
  /\ IF over THEN Finish("failed") ELSE Invoke(Temp, "link", job.to, FALSE, "linked")

LinkedCopy ==
  /\ stage = "linked" /\ Idle(Temp)
  /\ \/ result[Temp] = "ok" /\ Proceed("stamp")
     \/ result[Temp] = "exists" /\ job.replace /\ Proceed("random")
     \/ result[Temp] # "ok" /\ (result[Temp] # "exists" \/ ~job.replace) /\ Finish("failed")

\* There is a file to be replaced: a random name first,
LinkRandom ==
  /\ stage = "random"
  /\ \/ over /\ Finish("failed")
     \/ /\ ~over
        /\ \E l \in Randoms :
             /\ entry[<<job.to[1], l>>] = None
             /\ random' = <<job.to[1], l>>
             /\ Begin(Temp, Ask("link", random', FALSE, TRUE), FALSE)
        /\ stage' = "randomed"
        /\ UNCHANGED <<tree, handle, moves, touched, job, over, data, outcome, jobs, moving>>

LinkedRandom ==
  /\ stage = "randomed" /\ Idle(Temp)
  /\ \/ result[Temp] = "ok" /\ Proceed("open")
     \/ result[Temp] = "exists" /\ Proceed("random")
     \/ result[Temp] \notin {"ok", "exists"} /\ Finish("failed")

\* which is opened, and has to be the copy still,
OpenRandom ==
  /\ stage = "open"
  /\ LET p == random
     IN \/ /\ entry[p] = None
           /\ Finish("failed")
        \/ /\ entry[p] \notin {None, file[Temp]}
           /\ Proceed("random")
        \/ /\ entry[p] = file[Temp]
           /\ file' = [file EXCEPT ![Temp2] = entry[p]]
           /\ at' = [at EXCEPT ![Temp2] = p]
           /\ inode' = [inode EXCEPT ![Temp] = file[Temp], ![Temp2] = entry[p]]
           /\ flags' = [flags EXCEPT ![Temp2] = {}]
           /\ stage' = "relinkcopy"
           /\ UNCHANGED <<tree, frame, moves, touched, job, random, over, data, outcome, jobs, moving>>

\* and that name is relinked over the destination.
RelinkCopy ==
  /\ stage = "relinkcopy"
  /\ Invoke(Temp2, "relink", job.to, job.replace, "relinkedcopy")

Swap(f) == [f EXCEPT ![Temp] = f[Temp2], ![Temp2] = f[Temp]]

RelinkedCopy ==
  /\ stage = "relinkedcopy" /\ Idle(Temp2)
  /\ \/ /\ result[Temp2] = "ok"
        /\ file' = Swap(file) /\ at' = Swap(at) /\ inode' = Swap(inode) /\ flags' = Swap(flags)
        /\ stage' = "stamp"
        /\ UNCHANGED <<tree, frame, moves, touched, job, random, over, data, outcome, jobs, moving>>
     \/ /\ result[Temp2] # "ok"
        /\ InvokeDefault(Temp2, "unlink", "dropping")

Dropped ==
  /\ stage = "dropping" /\ Idle(Temp2)
  /\ Finish("failed")

\* From here an error unlinks the copy again.
Stamp ==
  /\ stage = "stamp"
  /\ \/ Invoke(Src, "unlink", job.to, FALSE, "unlinking")
     \/ InvokeDefault(Temp, "unlink", "undoing")

\* Mutant: whether the source could be unlinked is ignored.
UnlinkedRegardless ==
  /\ stage = "unlinking" /\ Idle(Src)
  /\ stage' = "idle" /\ outcome' = "copied"
  /\ job' = None /\ random' = None /\ over' = FALSE /\ moving' = Blank
  /\ file' = [file EXCEPT ![Src] = file[Temp], ![Temp] = None, ![Temp2] = None]
  /\ at' = [at EXCEPT ![Src] = at[Temp], ![Temp] = None, ![Temp2] = None]
  /\ UNCHANGED <<tree, inode, flags, frame, moves, touched, data, jobs>>

\* The source is gone: the handle takes over the descriptor of the copy, and of
\* nothing else the handle knows, if their behaviours are the same.
Unlinked ==
  /\ stage = "unlinking" /\ Idle(Src)
  /\ \/ /\ result[Src] = "ok"
        /\ stage' = "idle" /\ outcome' = "copied"
        /\ job' = None /\ random' = None /\ over' = FALSE /\ moving' = Blank
        /\ file' = [file EXCEPT ![Src] = file[Temp], ![Temp] = None, ![Temp2] = None]
        /\ at' = [at EXCEPT ![Src] = at[Temp], ![Temp] = None, ![Temp2] = None]
        /\ UNCHANGED <<tree, inode, flags, frame, moves, touched, data, jobs>>
     \/ result[Src] = "ok" /\ Finish("failed")
     \/ result[Src] # "ok" /\ InvokeDefault(Temp, "unlink", "undoing")

Undone ==
  /\ stage = "undoing" /\ Idle(Temp)
  /\ Finish("failed")

Algorithm ==
  \/ Relinked \/ TempInode \/ Probe \/ Copy \/ LinkCopy \/ LinkedCopy
  \/ LinkRandom \/ LinkedRandom \/ OpenRandom \/ RelinkCopy \/ RelinkedCopy
  \/ Dropped \/ Stamp \/ Unlinked \/ Undone

\* The handles in a call with the default deadline instead.
Thirty == IF stage \in {"randomed", "dropping", "undoing"} THEN {Temp, Temp2} ELSE {}

\* The deadline of the call passes, for the calls it makes as well.
Expire ==
  /\ stage # "idle" /\ job.timed /\ ~over
  /\ over' = TRUE
  /\ late' = [h \in Handles |-> late[h] \/ (h \notin Users \cup Thirty /\ ~Idle(h))]
  /\ UNCHANGED <<tree, handle, pc, call, path, dirh, result, moves, touched,
                 stage, job, random, data, outcome, jobs, moving>>

-----------------------------------------------------------------------------
(* The specification                                                       *)

Somewhere == CHOOSE p \in Places : TRUE

\* Where files are moved and linked to, and what is asked of a handle.
Destinations == Dirs \X (Leaves \ Randoms)

Requests ==
       {Ask("relink", to, r, t) : to \in Destinations, r \in BOOLEAN, t \in Deadlines}
  \cup {Ask("link", to, FALSE, t) : to \in Destinations, t \in Deadlines}
  \cup {Ask(op, Somewhere, FALSE, t) : op \in {"parent", "unlink"}, t \in Deadlines}

Init ==
  /\ \E o \in Originals :
       /\ label = o.label
       /\ entry = [p \in Places |-> IF p \in DOMAIN o.entry THEN o.entry[p] ELSE None]
       /\ at = [h \in Handles |-> IF h \in DOMAIN o.opened THEN o.opened[h] ELSE None]
       /\ file = [h \in Handles |-> IF h \in DOMAIN o.opened THEN entry[at[h]]
                                     ELSE IF h \in DOMAIN o.made THEN o.made[h] ELSE None]
       /\ flags = [h \in Handles |-> IF h \in DOMAIN o.made
                                      THEN {"anonymous_inode", "disable_safety_unlinks"} ELSE {}]
       /\ linkable = {o.made[h] : h \in DOMAIN o.made}
  /\ inode = [h \in Handles |-> None]
  /\ pc = [h \in Handles |-> "idle"]
  /\ call = [h \in Handles |-> None]
  /\ dirh = [h \in Handles |-> None]
  /\ path = [h \in Handles |-> None]
  /\ late = [h \in Handles |-> FALSE]
  /\ result = [h \in Handles |-> "none"]
  /\ moves = 0 /\ touched = {}
  /\ stage = "idle" /\ over = FALSE
  /\ job = None /\ random = None
  /\ data = [i \in Inodes |-> IF \E p \in Places : entry[p] = i THEN i ELSE Blank]
  /\ outcome = "none" /\ jobs = 0 /\ moving = Blank /\ forgone = {}

UserCall(h, c) ==
  /\ moves < MaxMoves
  /\ Begin(h, c, FALSE)
  /\ moves' = moves + 1
  /\ forgone' = IF c.op = "unlink" THEN forgone \cup {data[file[h]]} ELSE forgone
  /\ UNCHANGED <<tree, handle, touched, algorithm>>

HandleStep(h) ==
  /\ Step(h)
  /\ forgone' = forgone \cup Replaced
  /\ UNCHANGED algorithm

Timer(h) ==
  /\ h \in Users \cup Thirty
  /\ Elapse(h)
  /\ UNCHANGED <<algorithm, forgone>>

Mover ==
  \/ Algorithm /\ UNCHANGED forgone
  \/ \E h \in {Src, Temp, Temp2} : HandleStep(h)

Clock ==
  \/ Expire /\ UNCHANGED forgone
  \/ \E h \in Handles : Timer(h)

Next ==
  \/ \E to \in Destinations, r \in BOOLEAN, t \in Deadlines : Start(to, r, t) /\ UNCHANGED forgone
  \/ Mover
  \/ \E h \in Users, c \in Requests : UserCall(h, c)
  \/ \E h \in Users : HandleStep(h)
  \/ Clock
  \/ Others /\ UNCHANGED <<algorithm, forgone>>

Spec == Init /\ [][Next]_vars

\* Every thread goes on with its call, and time passes.
FairSpec ==
  /\ Spec
  /\ WF_vars(Mover) /\ WF_vars(Clock)
  /\ \A h \in Users : WF_vars(HandleStep(h))

-----------------------------------------------------------------------------
(* Properties                                                              *)

\* No file is lost.  What is in a file keeps a name through every relink(), unlink()
\* and relink_or_clone_copy_unlink(), interrupted by others at any system call,
\* unless a call was asked to remove it or took its place, somebody else removed it, or its
\* name changed between the check of the inode and the use of the name.
NoLoss == \A c \in Contents : c \in forgone \/ Interfered(c) \/ Named(c) # {}

\* A call of relink_or_clone_copy_unlink() that succeeds has moved the file: what was in
\* it has one name, no more and no less, and the handle is open on it.
MovedOnce ==
  [][ stage # "idle" /\ stage' = "idle" /\ outcome' # "failed" =>
        \/ moving \in forgone \/ Interfered(moving)
        \/ Cardinality(Named(moving)) = 1 /\ data[file'[Src]] = moving ]_vars

\* A call without atomic_replace takes the place of no other file: not with renameat2(),
\* not with the link, and not with the copy, whoever makes a file there meanwhile.
NeverReplaces ==
  [][ \A p \in Places :
        moves' = moves /\ entry[p] # None /\ entry'[p] \notin {None, entry[p]} =>
          \E h \in Handles : /\ pc[h] # "idle" /\ pc'[h] = "idle"
                            /\ call[h].to = p /\ call[h].replace
                            /\ (h \notin Users => job.replace) ]_vars

\* Every call with a deadline returns, once others leave the names alone: as calls and
\* interference are bounded, in the end no call is in progress.
CallsReturn == <>[](stage = "idle" /\ \A h \in Handles : Idle(h))

\* A file that was moved is reached by its handle: "src on return is the relinked handle"
\* (clone.hpp:89).  Its path is where the file is, and its inode is the file's.
HandleFollows ==
  outcome = "copied" /\ moves = 0 =>
    /\ at[Src] # None /\ entry[at[Src]] = file[Src]
    /\ inode[Src] = file[Src]
=============================================================================
