------------------------------- MODULE Reduce -------------------------------
(***************************************************************************)
(* algorithm::reduce() on Linux: removes a directory and all there is in   *)
(* it, in rounds of algorithm::traverse(), while others add entries to the *)
(* tree, remove and move them.                                             *)
(*                                                                         *)
(* Of traverse() this module uses what Traverse shows: every directory     *)
(* found is visited once, by some thread, and it returns when all threads  *)
(* are done (the one thread of the rounds after the sixteenth is a case of *)
(* that).  A directory is opened by its path from the top, which others    *)
(* may have changed.  An entry stands for its name, and others leave that  *)
(* of the directory itself alone.  The only counters that are kept apart   *)
(* are items_removed and whether any of the others is above zero.          *)
(***************************************************************************)
EXTENDS Integers, FiniteSets, Sequences

CONSTANTS
  Threads,
  Dirs, Files,  \* the entries there are or may be
  Top,          \* the directory to reduce
  None,         \* no directory: the entry is not in the tree
  Layouts,      \* the trees to start from: the directory each entry is in
  StuckSets,    \* the entries that cannot be removed, or opened if directories
  Held,         \* the directories others have open
  Faults,       \* may the system fail?
  MaxMoves      \* bound: what others do to the tree

Entries == (Dirs \cup Files) \ {Top}

ASSUME ReduceAssumption ==
  /\ Top \in Dirs /\ Dirs \cap Files = {} /\ None \notin Dirs \cup Files
  /\ Layouts \subseteq [Entries -> Dirs \cup {None}]
  /\ StuckSets \subseteq SUBSET Entries
  /\ Held \subseteq Dirs /\ Faults \in BOOLEAN /\ MaxMoves \in Nat
  /\ IsFiniteSet(Dirs) /\ IsFiniteSet(Files)

VARIABLES
  parent,         \* the directory each entry is in
  gone,           \* history: what has been in the tree and was removed
  stuck,
  renamed,        \* topdirh has its random name
  stage,          \* of reduce()
  outcome,
  todo,           \* the directories traverse() has still to visit, by path
  pc, path,       \* what each thread does, in which directory
  contents,       \* of it, those not dealt with yet
  kept,           \* and those directories to be visited
  items_removed,
  not_removed,    \* directory_open_failed + failed_to_remove + failed_to_rename > 0
  begun, late,    \* visitor.begin is set; visitor.timeout has passed since
  moves,
  before,         \* history: items_removed as the round began
  disturbed,      \* history: others did something in this round
  unseen,         \* history: others put an entry in Top after it was read
  moved           \* history: others moved an entry

tree == <<parent, gone>>
workers == <<pc, path, contents, kept>>
timer == <<begun, late>>
history == <<before, disturbed, unseen, moved>>
vars == <<tree, stuck, renamed, stage, outcome, todo, workers, items_removed, not_removed,
          timer, moves, history>>

In(d) == {e \in Entries : parent[e] = d}
Exists(d) == IF d = Top THEN outcome # "ok" ELSE parent[d] # None
LastOf(p) == IF p = << >> THEN Top ELSE p[Len(p)]

\* Does path p still lead from Top to its directory?
Leads(p) == \A i \in DOMAIN p : parent[p[i]] = IF i = 1 THEN Top ELSE p[i - 1]

TypeOK ==
  /\ parent \in [Entries -> Dirs \cup {None}] /\ gone \subseteq Entries /\ stuck \subseteq Entries
  /\ renamed \in BOOLEAN /\ stage \in {"hide", "round", "traverse", "unlink", "done"}
  /\ outcome \in {"none", "ok", "not_empty", "timed_out", "error"}
  /\ todo \subseteq Seq(Dirs)
  /\ pc \in [Threads -> {"idle", "read", "remove"}] /\ path \in [Threads -> Seq(Dirs)]
  /\ contents \in [Threads -> SUBSET Entries] /\ kept \in [Threads -> SUBSET Dirs]
  /\ items_removed \in Nat /\ not_removed \in BOOLEAN
  /\ begun \in BOOLEAN /\ late \in BOOLEAN /\ moves \in 0..MaxMoves
  /\ before \in Nat /\ disturbed \in BOOLEAN /\ unseen \in BOOLEAN /\ moved \in BOOLEAN

Idle == \A t \in Threads : pc[t] = "idle"

Init ==
  /\ parent \in Layouts /\ gone = {} /\ stuck \in StuckSets
  /\ renamed = FALSE /\ stage = "hide" /\ outcome = "none"
  /\ todo = {} /\ pc = [t \in Threads |-> "idle"] /\ path = [t \in Threads |-> << >>]
  /\ contents = [t \in Threads |-> {}] /\ kept = [t \in Threads |-> {}]
  /\ items_removed = 0 /\ not_removed = FALSE /\ begun = FALSE /\ late = FALSE
  /\ moves = 0 /\ before = 0 /\ disturbed = FALSE /\ unseen = FALSE /\ moved = FALSE

-----------------------------------------------------------------------------
(* reduce()                                                                *)

\* Tries to give the directory a random name, again while that one exists.
Hide ==
  /\ stage = "hide"
  /\ renamed' \in BOOLEAN
  /\ stage' = "round"
  /\ UNCHANGED <<tree, stuck, outcome, todo, workers, items_removed, not_removed,
                 timer, moves, history>>

\* Calls traverse(), with the counts of what failed at zero.
Round ==
  /\ stage = "round"
  /\ stage' = "traverse"
  /\ todo' = {<< >>}
  /\ not_removed' = FALSE
  /\ before' = items_removed /\ disturbed' = FALSE /\ unseen' = FALSE
  /\ UNCHANGED <<tree, stuck, renamed, outcome, workers, items_removed, timer, moves, moved>>

Finish(r) == stage' = "done" /\ outcome' = r

\* Mutant: the time is looked at only when nothing remains.
RoundEndsUntimed ==
  /\ stage = "traverse" /\ todo = {} /\ Idle
  /\ \/ ~not_removed /\ stage' = "unlink" /\ UNCHANGED <<outcome, begun>>
     \/ not_removed /\ stage' = "round" /\ begun' = TRUE /\ UNCHANGED outcome
  /\ UNCHANGED <<tree, stuck, renamed, todo, workers, items_removed, not_removed, late,
                 moves, history>>

\* traverse() has returned: reduction_round() of the visitor starts its clock in the
\* first round that leaves something and gives up in a later one.
RoundEnds ==
  /\ stage = "traverse" /\ todo = {} /\ Idle
  /\ \/ ~not_removed /\ stage' = "unlink" /\ UNCHANGED <<outcome, begun>>
     \/ not_removed /\ late /\ Finish("timed_out") /\ UNCHANGED begun
     \/ not_removed /\ ~late /\ stage' = "round" /\ begun' = TRUE /\ UNCHANGED outcome
  /\ UNCHANGED <<tree, stuck, renamed, todo, workers, items_removed, not_removed, late,
                 moves, history>>

\* traverse() fails, when its threads have ended and whatever is left to visit.
TraverseFails ==
  /\ Faults
  /\ stage = "traverse" /\ Idle
  /\ Finish("error")
  /\ todo' = {}
  /\ UNCHANGED <<tree, stuck, renamed, workers, items_removed, not_removed, timer, moves,
                 history>>

\* topdirh.unlink(), which only an empty directory allows.
UnlinkTop ==
  /\ stage = "unlink"
  /\ \/ In(Top) # {} /\ Finish("not_empty") /\ UNCHANGED items_removed
     \/ In(Top) = {} /\ Finish("ok") /\ items_removed' = items_removed + 1
  /\ UNCHANGED <<tree, stuck, renamed, todo, workers, not_removed, timer, moves, history>>

\* Time passes.
Elapse ==
  /\ begun /\ ~late /\ stage # "done"
  /\ late' = TRUE
  /\ UNCHANGED <<tree, stuck, renamed, stage, outcome, todo, workers, items_removed,
                 not_removed, begun, moves, history>>

-----------------------------------------------------------------------------
(* The threads of traverse(), with reduce_visitor                          *)

\* Opens one of the directories to visit.
Open(t) ==
  /\ stage = "traverse" /\ pc[t] = "idle"
  /\ \E p \in todo :
       /\ Leads(p) /\ LastOf(p) \notin stuck
       /\ todo' = todo \ {p}
       /\ path' = [path EXCEPT ![t] = p]
  /\ pc' = [pc EXCEPT ![t] = "read"]
  /\ UNCHANGED <<tree, stuck, renamed, stage, outcome, contents, kept, items_removed,
                 not_removed, timer, moves, history>>

\* One that cannot be opened is passed over.  It counts as failed if the path did not
\* begin at the top: there nothing is renamed, and elsewhere renameat() is asked to
\* rename the random name, which does not exist, to the entry.
OpenFails(t) ==
  /\ stage = "traverse" /\ pc[t] = "idle"
  /\ \E p \in todo :
       /\ ~Leads(p) \/ LastOf(p) \in stuck
       /\ todo' = todo \ {p}
       /\ not_removed' \in {not_removed, not_removed \/ Len(p) > 1}
  /\ UNCHANGED <<tree, stuck, renamed, stage, outcome, workers, items_removed, timer,
                 moves, history>>

Read(t) ==
  LET d == LastOf(path[t])
  IN /\ pc[t] = "read"
     /\ pc' = [pc EXCEPT ![t] = "remove"]
     /\ contents' = [contents EXCEPT ![t] = In(d)]
     /\ unseen' = (unseen /\ d # Top)
     /\ UNCHANGED <<tree, stuck, renamed, stage, outcome, todo, path, kept, items_removed,
                    not_removed, timer, moves, before, disturbed, moved>>

\* What unlinkat() can remove from directory d; what is no longer there, or not yet
\* empty, it cannot.
Removable(e, d) == parent[e] = d /\ e \notin stuck /\ (e \in Dirs => In(e) = {})

\* detail::remove(): a file that is not there counts as removed, as somebody else did
\* it; a directory that is not there does not, as errno is looked at before rmdir().
Succeeds(e, d) == Removable(e, d) \/ (e \in Files /\ parent[e] # d)

Taken(t, e) == contents' = [contents EXCEPT ![t] = @ \ {e}]

Unlinkat(e, d) ==
  IF Removable(e, d)
  THEN parent' = [parent EXCEPT ![e] = None] /\ gone' = gone \cup {e}
  ELSE UNCHANGED tree

\* Mutant: a directory that cannot be removed is not gone into.
RemoveOnly(t, e) ==
  LET d == LastOf(path[t])
  IN /\ pc[t] = "remove" /\ e \in contents[t]
     /\ Taken(t, e)
     /\ Unlinkat(e, d)
     /\ \/ Succeeds(e, d) /\ items_removed' = items_removed + 1 /\ UNCHANGED not_removed
        \/ ~Succeeds(e, d) /\ not_removed' = TRUE /\ UNCHANGED items_removed
     /\ UNCHANGED <<stuck, renamed, stage, outcome, todo, pc, path, kept, timer, moves, history>>

\* Mutant: a directory left for the traversal is no failure to remove it.
RemoveLenient(t, e) ==
  LET d == LastOf(path[t])
  IN /\ pc[t] = "remove" /\ e \in contents[t]
     /\ Taken(t, e)
     /\ Unlinkat(e, d)
     /\ kept' = [kept EXCEPT ![t] = IF e \in Dirs /\ ~Succeeds(e, d) THEN @ \cup {e} ELSE @]
     /\ \/ Succeeds(e, d) /\ items_removed' = items_removed + 1 /\ UNCHANGED not_removed
        \/ /\ ~Succeeds(e, d)
           /\ not_removed' = (not_removed \/ e \in Files) /\ UNCHANGED items_removed
     /\ UNCHANGED <<stuck, renamed, stage, outcome, todo, pc, path, timer, moves, history>>

\* Mutant: every entry counts as removed.
RemoveCountsAll(t, e) ==
  LET d == LastOf(path[t])
  IN /\ pc[t] = "remove" /\ e \in contents[t]
     /\ Taken(t, e)
     /\ Unlinkat(e, d)
     /\ kept' = [kept EXCEPT ![t] = IF e \in Dirs /\ ~Succeeds(e, d) THEN @ \cup {e} ELSE @]
     /\ items_removed' = items_removed + 1
     /\ not_removed' = (not_removed \/ ~Succeeds(e, d))
     /\ UNCHANGED <<stuck, renamed, stage, outcome, todo, pc, path, timer, moves, history>>

\* post_enumeration() of the visitor, for one entry.  The rename of a file that could
\* not be unlinked changes nothing, as above.
RemoveEntry(t, e) ==
  LET d == LastOf(path[t])
  IN /\ pc[t] = "remove" /\ e \in contents[t]
     /\ Taken(t, e)
     /\ Unlinkat(e, d)
     /\ kept' = [kept EXCEPT ![t] = IF e \in Dirs /\ ~Succeeds(e, d) THEN @ \cup {e} ELSE @]
     /\ \/ Succeeds(e, d) /\ items_removed' = items_removed + 1 /\ UNCHANGED not_removed
        \/ ~Succeeds(e, d) /\ not_removed' = TRUE /\ UNCHANGED items_removed
     /\ UNCHANGED <<stuck, renamed, stage, outcome, todo, pc, path, timer, moves, history>>

\* The directories that remain are to be visited.
AddWork(t) ==
  /\ pc[t] = "remove" /\ contents[t] = {}
  /\ todo' = todo \cup {Append(path[t], e) : e \in kept[t]}
  /\ kept' = [kept EXCEPT ![t] = {}]
  /\ path' = [path EXCEPT ![t] = << >>]
  /\ pc' = [pc EXCEPT ![t] = "idle"]
  /\ UNCHANGED <<tree, stuck, renamed, stage, outcome, contents, items_removed, not_removed,
                 timer, moves, history>>

Thread(t) ==
  \/ Open(t) \/ OpenFails(t) \/ Read(t) \/ AddWork(t)
  \/ \E e \in Entries : RemoveEntry(t, e)

-----------------------------------------------------------------------------
(* Everybody else: by path until the tree has its random name, and in the  *)
(* directories they have open.                                             *)

Reached(d) == Exists(d) /\ (d \in Held \/ ~renamed)

\* d is e or below it.
Below(d, e) ==
  \E p \in UNION {[1..n -> Dirs] : n \in 1..Cardinality(Dirs)} :
    /\ p[1] = e /\ p[Len(p)] = d
    /\ \A i \in 2..Len(p) : p[i] # Top /\ parent[p[i]] = p[i - 1]

Meddle(d) ==
  /\ stage # "done" /\ moves < MaxMoves
  /\ moves' = moves + 1
  /\ disturbed' = TRUE
  /\ unseen' = (unseen \/ d = Top)
  /\ UNCHANGED <<stuck, renamed, stage, outcome, todo, workers, items_removed, not_removed,
                 timer, before>>

OthersAdd(e, d) ==
  /\ parent[e] = None /\ e \notin gone
  /\ Reached(d)
  /\ parent' = [parent EXCEPT ![e] = d]
  /\ Meddle(d)
  /\ UNCHANGED <<gone, moved>>

OthersMove(e, d) ==
  /\ parent[e] \notin {None, d} /\ Reached(parent[e]) /\ Reached(d)
  /\ e \in Dirs => ~Below(d, e)
  /\ parent' = [parent EXCEPT ![e] = d]
  /\ Meddle(d)
  /\ moved' = TRUE
  /\ UNCHANGED gone

OthersRemove(e) ==
  /\ parent[e] # None /\ Reached(parent[e]) /\ Removable(e, parent[e])
  /\ parent' = [parent EXCEPT ![e] = None]
  /\ gone' = gone \cup {e}
  /\ Meddle(None)
  /\ UNCHANGED moved

Others ==
  \E e \in Entries : OthersRemove(e) \/ \E d \in Dirs : OthersAdd(e, d) \/ OthersMove(e, d)

-----------------------------------------------------------------------------
Reducer == Hide \/ Round \/ RoundEnds \/ UnlinkTop
Done == stage = "done" /\ UNCHANGED vars
Next == Reducer \/ TraverseFails \/ Elapse \/ Others \/ Done \/ \E t \in Threads : Thread(t)

Spec == Init /\ [][Next]_vars

\* reduce() and the threads keep running, and time passes.
FairSpec ==
  /\ Spec /\ WF_vars(Reducer) /\ WF_vars(Elapse)
  /\ \A t \in Threads : WF_vars(Thread(t))

-----------------------------------------------------------------------------
(* Properties                                                              *)

\* reduce() fails to remove the directory at its end only if others put something into
\* it after the last round had read it.
FailsForAReason == outcome = "not_empty" => unseen

\* "the total number of filesystem entries removed is returned" (reduce.hpp:155): none is
\* counted twice, unless others moved entries within the tree, and none is missed but
\* those that others removed.
Tally ==
  outcome = "ok" =>
    /\ items_removed >= Cardinality(gone) + 1 - moves
    /\ ~moved => items_removed <= Cardinality(gone) + 1

\* No round is in vain: one in which others did nothing and that leaves something has
\* removed something, or met what cannot be removed.
Progress ==
  [][ RoundEnds /\ not_removed /\ ~disturbed =>
        items_removed > before \/ \E e \in stuck : parent[e] # None ]_vars

\* reduce() returns, by its time out if in no other way.
Terminates == <>(stage = "done")
=============================================================================
