----------------------------- MODULE TreeProofs -----------------------------
(***************************************************************************)
(* Proofs about the two algorithms that walk a tree of directories.        *)
(*                                                                         *)
(* Traverse, for any finite tree and any number of threads: when           *)
(* traverse() succeeds every directory found has been visited exactly      *)
(* once, and when it returns no thread is left.  The inductive invariant   *)
(* has a part about directories, QInv, and one about threads, LInv.        *)
(*                                                                         *)
(* Reduce, for any tree, any number of threads and whatever others do to   *)
(* the tree: FailsForAReason, Tally and Progress.  Each has an inductive   *)
(* invariant of its own: Ind, about who is to deal with what is in the     *)
(* directory itself, TInv, about who has which entry in hand, and PInv,    *)
(* about what is to be visited in a round that has removed nothing.        *)
(***************************************************************************)
EXTENDS Traverse, Reduce, FiniteSetTheorems, WellFoundedInduction, TLAPS

-----------------------------------------------------------------------------
(* The inductive invariant, the part about directories                     *)

Labels == InRun \cup OfMain \cup OfThread

Types ==
  /\ workqueue \in Seq(Seq(Directories)) /\ workqueue_base \in Nat
  /\ known_dirs_remaining \in Int /\ dirs_processed \in Int
  /\ at \in [Workers -> Labels]
  /\ work \in [Workers -> Directories \cup {Nobody}] /\ level \in [Workers -> Nat]
  /\ newwork \in [Workers -> Seq(Directories)]
  /\ found \subseteq Directories /\ visits \in [Directories -> Nat]

(* What is in the lists of F, and that nothing is in them twice. *)
All(F) == UNION {Range(F[x]) : x \in DOMAIN F}
NoRepeats(F) ==
  /\ \A x \in DOMAIN F : IsInjective(F[x])
  /\ \A x, y \in DOMAIN F : x # y => Range(F[x]) \cap Range(F[y]) = {}

(* A directory that was found is in one of the lists, in the hands of a    *)
(* worker, about to be added to a list, or has been visited.               *)
Queued == All(workqueue)
Visiting == {work[w] : w \in {v \in Workers : at[v] = "visit"}}
Adding == All(newwork)
Seen == {d \in Directories : visits[d] # 0}

(* A visit has failed: traverse() will not succeed. *)
Lost == run_error \/ at[Main] = "error" \/ \E w \in Workers : at[w] = "failed"

(* It is in one of them only, *)
Apart ==
  /\ Queued \cap (Adding \cup Visiting \cup Seen) = {}
  /\ Adding \cap (Visiting \cup Seen) = {}
  /\ Visiting \cap Seen = {}

(* and there only once. *)
Once ==
  /\ NoRepeats(workqueue) /\ NoRepeats(newwork)
  /\ \A w \in Workers : at[w] # "add" => newwork[w] = << >>
  /\ \A w \in Workers : at[w] = "visit" => work[w] \in Directories
  /\ \A v, w \in Workers : at[v] = "visit" /\ at[w] = "visit" /\ work[v] = work[w] => v = w
  /\ \A d \in Directories : visits[d] \in {0, 1}

Tracked ==
  /\ Queued \cup Adding \cup Visiting \cup Seen \subseteq found
  /\ ~Lost => found \subseteq Queued \cup Adding \cup Visiting \cup Seen
  /\ Root \in found

(* Nothing is found but in a directory that has been visited. *)
Parents == \A d, e \in Directories : e \in Subdirs[d] /\ e \in found => d \in Seen

Counts ==
  /\ known_dirs_remaining = Cardinality(Queued)
  /\ dirs_processed = Cardinality(found \ (Queued \cup Adding))

Levels ==
  /\ workqueue_base \in DOMAIN workqueue
  /\ \A w \in Workers : at[w] \in {"visit", "add"} => level[w] \in DOMAIN workqueue
  /\ \A l \in 1..workqueue_base - 1 : workqueue[l] = << >>

QInv == Types /\ Apart /\ Once /\ Tracked /\ Parents /\ Counts /\ Levels

-----------------------------------------------------------------------------
(* The part about threads                                                  *)

(* While the caller visits directories itself it is alone. *)
Alone ==
  /\ at[Main] \in InRun \cup {"first"} => ~done /\ ~run_error /\ Unborn = WorkerThreads
  /\ at[Main] \in {"spawn", "failing"} => Unborn # {} /\ (done => run_error)

Resting == {"asleep", "woken"}
Sleepers == {t \in WorkerThreads : at[t] \in Resting \cup {"dead"}}

(* The last thread to sleep has seen that no directory remains. *)
Slept ==
  /\ threads_sleeping = Cardinality(Sleepers)
  /\ \A t \in WorkerThreads : at[t] \in {"exit", "dead"} => done
  /\ ~done /\ (\A t \in WorkerThreads : at[t] \in Resting) => known_dirs_remaining = 0

(* When all have to stop, and not because of a failure, nothing is left. *)
Drained ==
  done /\ ~Lost /\ Unborn = {} =>
    /\ known_dirs_remaining = 0
    /\ \A t \in WorkerThreads : at[t] \in Resting \cup {"exit", "dead"}

Returning ==
  /\ Returned => \A t \in WorkerThreads : at[t] \in {"none", "dead"}
  /\ at[Main] = "success" => known_dirs_remaining = 0 /\ ~Lost

LInv == Alone /\ Slept /\ Drained /\ Returning

IInv == QInv /\ LInv

-----------------------------------------------------------------------------
(* Sequences without repetitions                                           *)

LEMMA TailFacts ==
  ASSUME NEW S, NEW s \in Seq(S), s # << >>, IsInjective(s)
  PROVE  /\ Range(Tail(s)) = Range(s) \ {Head(s)}
         /\ IsInjective(Tail(s))
         /\ Head(s) \in Range(s)
<1>1. /\ Len(s) \in Nat /\ Len(s) > 0 /\ DOMAIN s = 1..Len(s)
      /\ Tail(s) \in Seq(S) /\ Len(Tail(s)) = Len(s) - 1 /\ DOMAIN Tail(s) = 1..Len(s) - 1
      /\ \A k \in 1..Len(s) - 1 : Tail(s)[k] = s[k + 1]
      /\ Head(s) = s[1]
  OBVIOUS
<1>2. \A j, k \in DOMAIN s : s[j] = s[k] => j = k
  BY DEF IsInjective
<1>3. IsInjective(Tail(s))
  <2> SUFFICES ASSUME NEW j \in 1..Len(s) - 1, NEW k \in 1..Len(s) - 1, Tail(s)[j] = Tail(s)[k] PROVE j = k
    BY <1>1 DEF IsInjective
  <2>1. s[j + 1] = s[k + 1] /\ j + 1 \in DOMAIN s /\ k + 1 \in DOMAIN s
    BY <1>1
  <2> QED BY <1>2, <2>1
<1>4. Range(Tail(s)) = Range(s) \ {Head(s)}
  <2>1. ASSUME NEW k \in DOMAIN Tail(s) PROVE Tail(s)[k] \in Range(s) \ {Head(s)}
    <3>1. Tail(s)[k] = s[k + 1] /\ k + 1 \in DOMAIN s /\ 1 \in DOMAIN s /\ k + 1 # 1
      BY <1>1
    <3> QED BY <1>1, <1>2, <3>1 DEF Range
  <2>2. ASSUME NEW k \in DOMAIN s, s[k] # Head(s) PROVE s[k] \in Range(Tail(s))
    <3>1. k - 1 \in DOMAIN Tail(s) /\ Tail(s)[k - 1] = s[k]
      BY <1>1, <2>2
    <3> QED BY <3>1 DEF Range
  <2> QED BY <2>1, <2>2 DEF Range
<1> QED BY <1>1, <1>3, <1>4 DEF Range

LEMMA ConcatFacts ==
  ASSUME NEW S, NEW s \in Seq(S), NEW t \in Seq(S)
  PROVE  /\ s \o t \in Seq(S) /\ Len(s \o t) = Len(s) + Len(t)
         /\ Range(s \o t) = Range(s) \cup Range(t)
         /\ IsInjective(s) /\ IsInjective(t) /\ Range(s) \cap Range(t) = {} => IsInjective(s \o t)
<1> DEFINE u == s \o t
<1>1. /\ Len(s) \in Nat /\ Len(t) \in Nat /\ DOMAIN s = 1..Len(s) /\ DOMAIN t = 1..Len(t)
      /\ u \in Seq(S) /\ Len(u) = Len(s) + Len(t) /\ DOMAIN u = 1..Len(s) + Len(t)
      /\ \A k \in 1..Len(s) + Len(t) : u[k] = IF k <= Len(s) THEN s[k] ELSE t[k - Len(s)]
  OBVIOUS
<1> HIDE DEF u
<1>2. \A k \in DOMAIN u : (k \in DOMAIN s /\ u[k] = s[k]) \/ (k - Len(s) \in DOMAIN t /\ u[k] = t[k - Len(s)])
  BY <1>1
<1>3. \A k \in DOMAIN s : k \in DOMAIN u /\ u[k] = s[k]
  BY <1>1
<1>4. \A k \in DOMAIN t : k + Len(s) \in DOMAIN u /\ u[k + Len(s)] = t[k]
  BY <1>1
<1>5. Range(u) = Range(s) \cup Range(t)
  BY <1>2, <1>3, <1>4 DEF Range
<1>6. ASSUME IsInjective(s), IsInjective(t), Range(s) \cap Range(t) = {} PROVE IsInjective(u)
  <2> SUFFICES ASSUME NEW j \in DOMAIN u, NEW k \in DOMAIN u, u[j] = u[k] PROVE j = k
    BY DEF IsInjective
  <2>1. \A p, q \in DOMAIN s : s[p] = s[q] => p = q
    BY <1>6 DEF IsInjective
  <2>2. \A p, q \in DOMAIN t : t[p] = t[q] => p = q
    BY <1>6 DEF IsInjective
  <2>3. \A p \in DOMAIN s, q \in DOMAIN t : s[p] # t[q]
    BY <1>6 DEF Range
  <2>4. j - Len(s) = k - Len(s) => j = k
    BY <1>1
  <2> QED BY <1>2, <2>1, <2>2, <2>3, <2>4
<1> QED BY <1>1, <1>5, <1>6 DEF u

LEMMA CountSeq ==
  ASSUME NEW S, NEW s \in Seq(S), IsInjective(s)
  PROVE  IsFiniteSet(Range(s)) /\ Cardinality(Range(s)) = Len(s)
<1>1. Len(s) \in Nat /\ DOMAIN s = 1..Len(s) /\ s \in [1..Len(s) -> S]
  OBVIOUS
<1>2. s \in [1..Len(s) -> Range(s)]
  BY <1>1 DEF Range
<1>3. s \in Bijection(1..Len(s), Range(s))
  BY <1>1, <1>2 DEF Bijection, Injection, Surjection, Range
<1>4. ExistsBijection(1..Len(s), Range(s))
  BY <1>3 DEF ExistsBijection
<1>5. IsFiniteSet(1..Len(s)) /\ Cardinality(1..Len(s)) = Len(s)
  BY <1>1, FS_Interval
<1> QED BY <1>4, <1>5, FS_Bijection

LEMMA SetToSeqsFacts ==
  ASSUME NEW S, IsFiniteSet(S), NEW s \in SetToSeqs(S)
  PROVE  s \in Seq(S) /\ IsInjective(s) /\ Range(s) = S
<1> DEFINE n == Cardinality(S)
<1>1. n \in Nat
  BY FS_CardinalityType
<1>2. s \in [1..n -> S] /\ \A i, j \in 1..n : i # j => s[i] # s[j]
  BY DEF SetToSeqs
<1> HIDE DEF n
<1>3. s \in Seq(S) /\ DOMAIN s = 1..n
  BY <1>1, <1>2
<1>4. IsInjective(s)
  BY <1>2, <1>3 DEF IsInjective
<1>5. s \in Injection(1..n, S)
  BY <1>2, <1>4 DEF Injection
<1>6. Cardinality(1..n) = Cardinality(S)
  BY <1>1, FS_Interval DEF n
<1>7. s \in Surjection(1..n, S)
  BY <1>5, <1>6, FS_Injection
<1> QED BY <1>3, <1>4, <1>7 DEF Surjection, Range

(* One of the lists is replaced by another. *)
LEMMA Replace ==
  ASSUME NEW F, NEW x \in DOMAIN F, NoRepeats(F), NEW s, IsInjective(s),
         Range(s) \cap (All(F) \ Range(F[x])) = {},
         NEW G, DOMAIN G = DOMAIN F, G[x] = s, \A y \in DOMAIN F : y # x => G[y] = F[y]
  PROVE  NoRepeats(G) /\ All(G) = (All(F) \ Range(F[x])) \cup Range(s)
<1>1. \A y \in DOMAIN F : y # x => Range(F[y]) \subseteq All(F) \ Range(F[x])
  BY DEF All, NoRepeats
<1>2. NoRepeats(G)
  <2>1. \A y \in DOMAIN G : IsInjective(G[y])
    BY DEF NoRepeats
  <2>2. ASSUME NEW y \in DOMAIN G, NEW z \in DOMAIN G, y # z
        PROVE  Range(G[y]) \cap Range(G[z]) = {}
    <3>1. CASE y = x
      <4>1. G[y] = s /\ G[z] = F[z] /\ Range(F[z]) \subseteq All(F) \ Range(F[x])
        BY <1>1, <2>2, <3>1
      <4> QED BY <4>1
    <3>2. CASE z = x
      <4>1. G[z] = s /\ G[y] = F[y] /\ Range(F[y]) \subseteq All(F) \ Range(F[x])
        BY <1>1, <2>2, <3>2
      <4> QED BY <4>1
    <3>3. CASE y # x /\ z # x
      BY <2>2, <3>3 DEF NoRepeats
    <3> QED BY <3>1, <3>2, <3>3
  <2> QED BY <2>1, <2>2 DEF NoRepeats
<1>3. All(G) \subseteq (All(F) \ Range(F[x])) \cup Range(s)
  BY <1>1 DEF All
<1>4. (All(F) \ Range(F[x])) \cup Range(s) \subseteq All(G)
  <2>1. ASSUME NEW e \in All(F), e \notin Range(F[x]) PROVE e \in All(G)
    <3>1. PICK y \in DOMAIN F : e \in Range(F[y])
      BY DEF All
    <3>2. y # x
      BY <2>1, <3>1
    <3> QED BY <3>1, <3>2 DEF All
  <2>2. Range(s) \subseteq All(G)
    BY DEF All
  <2> QED BY <2>1, <2>2
<1> QED BY <1>2, <1>3, <1>4

LEMMA AppendEmpty ==
  ASSUME NEW S, NEW F \in Seq(Seq(S)), NoRepeats(F), NEW G, G = Append(F, << >>)
  PROVE  /\ G \in Seq(Seq(S)) /\ Len(G) = Len(F) + 1
         /\ DOMAIN G = 1..Len(F) + 1 /\ DOMAIN F = 1..Len(F) /\ Len(F) \in Nat
         /\ \A k \in DOMAIN F : G[k] = F[k]
         /\ NoRepeats(G) /\ All(G) = All(F)
<1>1. << >> \in Seq(S)
  OBVIOUS
<1>2. /\ Len(F) \in Nat /\ DOMAIN F = 1..Len(F) /\ DOMAIN G = 1..Len(F) + 1
      /\ \A k \in DOMAIN F : G[k] = F[k] /\ k \in DOMAIN G
      /\ Len(F) + 1 \in DOMAIN G /\ G[Len(F) + 1] = << >>
  OBVIOUS
<1>3. G \in Seq(Seq(S)) /\ Len(G) = Len(F) + 1
  <2> DEFINE T == Seq(S)
  <2>1. << >> \in T /\ F \in Seq(T)
    BY <1>1
  <2> HIDE DEF T
  <2>2. G \in Seq(T) /\ Len(G) = Len(F) + 1
    BY <2>1
  <2> QED BY <2>2 DEF T
<1>4. \A k \in DOMAIN G : k \in DOMAIN F \/ G[k] = << >>
  BY <1>2
<1>5. Range(<< >>) = {} /\ IsInjective(<< >>)
  BY DEF Range, IsInjective
<1>6. All(G) = All(F)
  BY <1>2, <1>4, <1>5 DEF All
<1>7. NoRepeats(G)
  <2>1. \A k \in DOMAIN G : IsInjective(G[k])
    BY <1>2, <1>4, <1>5 DEF NoRepeats
  <2>2. ASSUME NEW y \in DOMAIN G, NEW z \in DOMAIN G, y # z
        PROVE  Range(G[y]) \cap Range(G[z]) = {}
    <3>1. CASE y \in DOMAIN F /\ z \in DOMAIN F
      BY <1>2, <2>2, <3>1 DEF NoRepeats
    <3>2. CASE G[y] = << >> \/ G[z] = << >>
      BY <1>5, <3>2
    <3> QED BY <1>4, <3>1, <3>2
  <2> QED BY <2>1, <2>2 DEF NoRepeats
<1> QED BY <1>2, <1>3, <1>6, <1>7

LEMMA MinFacts ==
  ASSUME NEW S, S \subseteq Nat, S # {}
  PROVE  Min(S) \in S /\ \A y \in S : Min(S) <= y
<1>1. PICK x \in S : \A y \in S : <<y, x>> \notin OpToRel(<, Nat)
  <2> HIDE DEF OpToRel
  <2> QED BY NatLessThanWellFounded, WFMin
<1>2. \A y \in S : x <= y
  <2> TAKE y \in S
  <2>1. x \in Nat /\ y \in Nat
    OBVIOUS
  <2>2. ~(y < x)
    BY <1>1, <2>1 DEF OpToRel
  <2> QED BY <2>1, <2>2
<1> QED BY <1>2 DEF Min

-----------------------------------------------------------------------------
(* Directories move from place to place                                    *)

LEMMA FiniteFound ==
  ASSUME Types
  PROVE  \A S : S \subseteq found => IsFiniteSet(S) /\ Cardinality(S) \in Nat
<1> SUFFICES ASSUME NEW S, S \subseteq found PROVE IsFiniteSet(S) /\ Cardinality(S) \in Nat
  OBVIOUS
<1>1. IsFiniteSet(Directories) /\ S \in SUBSET Directories
  BY TraverseAssumption DEF Types
<1>2. IsFiniteSet(S)
  BY <1>1, FS_Subset
<1> QED BY <1>2, FS_CardinalityType

LEMMA QueueFacts ==
  ASSUME Types
  PROVE  /\ Len(workqueue) \in Nat /\ DOMAIN workqueue = 1..Len(workqueue)
         /\ \A l \in DOMAIN workqueue : workqueue[l] \in Seq(Directories)
         /\ DOMAIN newwork = Workers /\ \A w \in Workers : newwork[w] \in Seq(Directories)
<1> DEFINE T == Seq(Directories)
<1>1. workqueue \in Seq(T) /\ newwork \in [Workers -> T]
  BY DEF Types
<1> HIDE DEF T
<1>2. /\ Len(workqueue) \in Nat /\ DOMAIN workqueue = 1..Len(workqueue)
      /\ \A l \in DOMAIN workqueue : workqueue[l] \in T
      /\ DOMAIN newwork = Workers /\ \A w \in Workers : newwork[w] \in T
  BY <1>1
<1> QED BY <1>2 DEF T

(* A step that moves no directory, but may give up one in hand. *)
LEMMA QueueFrame ==
  ASSUME QInv, UNCHANGED <<queues, locals, marks>>, at' \in [Workers -> Labels],
         \A w \in Workers : /\ at'[w] = "visit" => at[w] = "visit"
                            /\ at'[w] = "add" <=> at[w] = "add",
         Lost => Lost',
         ~Lost' => \A w \in Workers : at[w] = "visit" => at'[w] = "visit"
  PROVE  QInv'
<1> USE DEF queues, locals, marks
<1>1. /\ workqueue' = workqueue /\ workqueue_base' = workqueue_base
      /\ known_dirs_remaining' = known_dirs_remaining /\ dirs_processed' = dirs_processed
      /\ work' = work /\ level' = level /\ newwork' = newwork /\ found' = found /\ visits' = visits
  OBVIOUS
<1>2. Queued' = Queued /\ Adding' = Adding /\ Seen' = Seen
  BY <1>1 DEF Queued, Adding, Seen
<1>3. Visiting' \subseteq Visiting /\ (~Lost' => Visiting' = Visiting)
  BY <1>1 DEF Visiting
<1>4. Types'
  BY <1>1 DEF QInv, Types
<1>5. Apart'
  BY <1>2, <1>3 DEF QInv, Apart
<1>6. Once'
  BY <1>1 DEF QInv, Once
<1>7. Tracked'
  BY <1>1, <1>2, <1>3 DEF QInv, Tracked
<1>8. Parents'
  BY <1>1, <1>2 DEF QInv, Parents
<1>9. Counts'
  BY <1>1, <1>2 DEF QInv, Counts
<1>10. Levels'
  BY <1>1 DEF QInv, Levels
<1> QED BY <1>4, <1>5, <1>6, <1>7, <1>8, <1>9, <1>10 DEF QInv

LEMMA TakeInv ==
  ASSUME QInv, NEW w \in Workers, TakeWork(w)
  PROVE  QInv'
<1>0. Types /\ Apart /\ Once /\ Tracked /\ Parents /\ Counts /\ Levels
  BY DEF QInv
<1> DEFINE l == Min(NonEmpty)
           d == Head(workqueue[l])
<1>1. /\ at[w] = "run" /\ NonEmpty # {} /\ Goto(w, "visit")
      /\ work' = [work EXCEPT ![w] = d] /\ level' = [level EXCEPT ![w] = l]
      /\ workqueue' = [workqueue EXCEPT ![l] = Tail(workqueue[l])]
      /\ workqueue_base' = l
      /\ dirs_processed' = dirs_processed + 1 /\ known_dirs_remaining' = known_dirs_remaining - 1
      /\ run_error' = run_error /\ newwork' = newwork /\ found' = found /\ visits' = visits
  BY DEF TakeWork, pool, marks
<1>2. /\ Len(workqueue) \in Nat /\ DOMAIN workqueue = 1..Len(workqueue)
      /\ \A k \in DOMAIN workqueue : workqueue[k] \in Seq(Directories)
  BY <1>0, QueueFacts
<1>3. workqueue_base \in 1..Len(workqueue)
  BY <1>0, <1>2 DEF Levels
<1>4. NonEmpty \subseteq Nat
  BY <1>2, <1>3 DEF NonEmpty
<1>5. l \in NonEmpty /\ \A k \in NonEmpty : l <= k
  BY <1>1, <1>4, MinFacts
<1>6. l \in DOMAIN workqueue /\ l \in Nat /\ workqueue[l] # << >> /\ workqueue_base <= l
  BY <1>2, <1>3, <1>5 DEF NonEmpty
<1> HIDE DEF l
<1>7. /\ Range(Tail(workqueue[l])) = Range(workqueue[l]) \ {d}
      /\ IsInjective(Tail(workqueue[l])) /\ d \in Range(workqueue[l])
      /\ Tail(workqueue[l]) \in Seq(Directories) /\ d \in Directories
  <2> DEFINE s == workqueue[l]
  <2>1. s \in Seq(Directories) /\ s # << >> /\ IsInjective(s)
    BY <1>0, <1>2, <1>6 DEF Once, NoRepeats
  <2>2. Tail(s) \in Seq(Directories) /\ Head(s) \in Directories
    BY <2>1
  <2> HIDE DEF s
  <2>3. /\ Range(Tail(s)) = Range(s) \ {Head(s)}
        /\ IsInjective(Tail(s)) /\ Head(s) \in Range(s)
    BY <2>1, TailFacts
  <2> QED BY <2>2, <2>3 DEF s
<1> HIDE DEF d
<1>8. /\ DOMAIN workqueue' = DOMAIN workqueue /\ workqueue' \in Seq(Seq(Directories))
      /\ workqueue'[l] = Tail(workqueue[l])
      /\ \A k \in DOMAIN workqueue : k # l => workqueue'[k] = workqueue[k]
  <2> DEFINE T == Seq(Directories)
             t == Tail(workqueue[l])
  <2>1. t \in T /\ workqueue \in Seq(T) /\ workqueue' = [workqueue EXCEPT ![l] = t]
    BY <1>0, <1>1, <1>7 DEF Types
  <2> HIDE DEF T, t
  <2>2. /\ DOMAIN workqueue' = DOMAIN workqueue /\ workqueue' \in Seq(T)
        /\ workqueue'[l] = t
        /\ \A k \in DOMAIN workqueue : k # l => workqueue'[k] = workqueue[k]
    BY <1>6, <2>1
  <2> QED BY <2>2 DEF T, t
<1>9. NoRepeats(workqueue') /\ Queued' = Queued \ {d} /\ d \in Queued
  <2>1. NoRepeats(workqueue)
    BY <1>0 DEF Once
  <2>2. d \in Queued /\ Range(workqueue[l]) \subseteq All(workqueue)
    BY <1>6, <1>7 DEF Queued, All
  <2>3. Range(Tail(workqueue[l])) \cap (All(workqueue) \ Range(workqueue[l])) = {}
    BY <1>7
  <2>4. /\ NoRepeats(workqueue')
        /\ All(workqueue') = (All(workqueue) \ Range(workqueue[l])) \cup Range(Tail(workqueue[l]))
    <3> DEFINE F == workqueue
               G == workqueue'
               t == Tail(workqueue[l])
    <3>1. /\ l \in DOMAIN F /\ NoRepeats(F) /\ IsInjective(t)
          /\ Range(t) \cap (All(F) \ Range(F[l])) = {}
          /\ DOMAIN G = DOMAIN F /\ G[l] = t /\ \A y \in DOMAIN F : y # l => G[y] = F[y]
      BY <1>6, <1>7, <1>8, <2>1, <2>3
    <3> HIDE DEF F, G, t
    <3>2. NoRepeats(G) /\ All(G) = (All(F) \ Range(F[l])) \cup Range(t)
      BY <3>1, Replace
    <3> QED BY <3>2 DEF F, G, t
  <2> QED BY <1>7, <2>2, <2>4 DEF Queued
<1>10. /\ at' \in [Workers -> Labels] /\ at'[w] = "visit"
       /\ \A v \in Workers \ {w} : at'[v] = at[v]
  BY <1>0, <1>1 DEF Goto, Types, Labels, InRun
<1>11. /\ work' \in [Workers -> Directories \cup {Nobody}] /\ work'[w] = d
       /\ level' \in [Workers -> Nat] /\ level'[w] = l
       /\ \A v \in Workers \ {w} : work'[v] = work[v] /\ level'[v] = level[v]
  BY <1>0, <1>1, <1>6, <1>7 DEF Types
<1>12. Adding' = Adding /\ Seen' = Seen /\ Visiting' = Visiting \cup {d}
  <2>1. Adding' = Adding /\ Seen' = Seen
    BY <1>1 DEF Adding, Seen
  <2>2. Visiting' = Visiting \cup {d}
    BY <1>1, <1>10, <1>11 DEF Visiting
  <2> QED BY <2>1, <2>2
<1>13. Lost' <=> Lost
  <2>1. \A v \in Workers : /\ at'[v] = "failed" <=> at[v] = "failed"
                           /\ at'[v] = "error" <=> at[v] = "error"
    BY <1>1, <1>10
  <2>2. Main \in Workers
    BY DEF Workers
  <2> QED BY <1>1, <2>1, <2>2 DEF Lost
<1>14. Types'
  <2>1. workqueue_base' \in Nat /\ dirs_processed' \in Int /\ known_dirs_remaining' \in Int
    BY <1>0, <1>1, <1>6 DEF Types
  <2>2. newwork' \in [Workers -> Seq(Directories)] /\ found' \subseteq Directories /\ visits' \in [Directories -> Nat]
    BY <1>0, <1>1 DEF Types
  <2> QED BY <1>8, <1>10, <1>11, <2>1, <2>2 DEF Types
<1>15. Apart'
  BY <1>0, <1>9, <1>12 DEF Apart
<1>16. Once'
  <2>1. \A v \in Workers : at[v] = "visit" => work[v] # d
    BY <1>0, <1>9 DEF Apart, Visiting
  <2>2. NoRepeats(newwork') /\ \A v \in Workers : at'[v] # "add" => newwork'[v] = << >>
    BY <1>0, <1>1, <1>10 DEF Once
  <2>3. \A v \in Workers : at'[v] = "visit" => work'[v] \in Directories
    BY <1>0, <1>7, <1>10, <1>11 DEF Once
  <2>4. \A u, v \in Workers : at'[u] = "visit" /\ at'[v] = "visit" /\ work'[u] = work'[v] => u = v
    BY <1>0, <1>10, <1>11, <2>1 DEF Once
  <2>5. \A e \in Directories : visits'[e] \in {0, 1}
    BY <1>0, <1>1 DEF Once
  <2> QED BY <1>9, <2>2, <2>3, <2>4, <2>5 DEF Once
<1>17. Tracked'
  BY <1>0, <1>1, <1>9, <1>12, <1>13 DEF Tracked
<1>18. Parents'
  BY <1>0, <1>1, <1>12 DEF Parents
<1>19. Counts'
  <2>1. IsFiniteSet(Queued) /\ Cardinality(Queued) \in Nat
    BY <1>0, FiniteFound DEF Tracked
  <2>2. Cardinality(Queued') = Cardinality(Queued) - 1
    BY <1>9, <2>1, FS_RemoveElement
  <2> DEFINE T == found \ (Queued \cup Adding)
  <2>3. IsFiniteSet(T) /\ Cardinality(T) \in Nat
    BY <1>0, FiniteFound
  <2>4. (found \ (Queued \cup Adding))' = T \cup {d} /\ d \notin T
    BY <1>0, <1>1, <1>9, <1>12 DEF Apart, Tracked
  <2>5. Cardinality(T \cup {d}) = Cardinality(T) + 1
    BY <2>3, <2>4, FS_AddElement
  <2> QED BY <1>0, <1>1, <2>2, <2>4, <2>5 DEF Counts
<1>20. Levels'
  <2>1. ASSUME NEW k \in 1..l - 1 PROVE workqueue'[k] = << >>
    <3>1. k \in DOMAIN workqueue /\ k # l /\ ~(l <= k)
      BY <1>2, <1>6
    <3>2. k \notin NonEmpty
      BY <1>5, <3>1
    <3>3. workqueue[k] = << >>
      BY <1>0, <1>2, <1>3, <3>1, <3>2 DEF NonEmpty, Levels
    <3> QED BY <1>8, <3>1, <3>3
  <2> QED BY <1>0, <1>1, <1>6, <1>8, <1>10, <1>11, <2>1 DEF Levels
<1> QED BY <1>14, <1>15, <1>16, <1>17, <1>18, <1>19, <1>20 DEF QInv

(* The directory in hand has been visited. *)
LEMMA VisitedFacts ==
  ASSUME QInv, NEW w \in Workers, at[w] = "visit", Visited(w), NEW label \in {"add", "ran"},
         Goto(w, label), work' = work, run_error' = run_error
  PROVE  /\ work[w] \in Directories /\ work[w] \in Visiting /\ work[w] \notin Seen
         /\ Visiting' = Visiting \ {work[w]} /\ Seen' = Seen \cup {work[w]}
         /\ visits' \in [Directories -> Nat] /\ \A e \in Directories : visits'[e] \in {0, 1}
         /\ at' \in [Workers -> Labels] /\ at'[w] = label
         /\ \A v \in Workers \ {w} : at'[v] = at[v]
         /\ Lost' <=> Lost
<1> DEFINE d == work[w]
<1>0. Types /\ Apart /\ Once
  BY DEF QInv
<1>1. d \in Directories /\ d \in Visiting
  BY <1>0 DEF Once, Visiting
<1>2. d \notin Seen
  BY <1>0, <1>1 DEF Apart
<1>3. visits[d] = 0
  BY <1>1, <1>2 DEF Seen
<1>4. /\ at' \in [Workers -> Labels] /\ at'[w] = label
      /\ \A v \in Workers \ {w} : at'[v] = at[v]
  BY <1>0 DEF Goto, Types, Labels, InRun
<1>5. Visiting' = Visiting \ {d}
  <2>1. \A v \in Workers : at'[v] = "visit" <=> v # w /\ at[v] = "visit"
    BY <1>4
  <2>2. \A v \in Workers : at[v] = "visit" /\ v # w => work[v] # d
    BY <1>0 DEF Once
  <2>3. Visiting' = {work[v] : v \in {u \in Workers : at'[u] = "visit"}}
    BY DEF Visiting
  <2> QED BY <2>1, <2>2, <2>3 DEF Visiting
<1> HIDE DEF d
<1>6. visits' = [visits EXCEPT ![d] = visits[d] + 1]
  BY DEF Visited, d
<1>7. visits' \in [Directories -> Nat] /\ visits'[d] = 1 /\ \A e \in Directories : e # d => visits'[e] = visits[e]
  BY <1>0, <1>1, <1>3, <1>6 DEF Types
<1>8. \A e \in Directories : visits'[e] \in {0, 1}
  BY <1>0, <1>7 DEF Once
<1>9. Seen' = Seen \cup {d}
  BY <1>1, <1>7 DEF Seen
<1>10. Lost' <=> Lost
  <2>1. \A v \in Workers : /\ at'[v] = "failed" <=> at[v] = "failed"
                           /\ at'[v] = "error" <=> at[v] = "error"
    BY <1>4
  <2>2. Main \in Workers
    BY DEF Workers
  <2> QED BY <2>1, <2>2 DEF Lost
<1> QED BY <1>1, <1>2, <1>4, <1>5, <1>7, <1>8, <1>9, <1>10 DEF d

LEMMA SkipInv ==
  ASSUME QInv, NEW w \in Workers, Skip(w)
  PROVE  QInv'
<1>0. Types /\ Apart /\ Once /\ Tracked /\ Parents /\ Counts /\ Levels
  BY DEF QInv
<1>1. /\ at[w] = "visit" /\ Visited(w) /\ Goto(w, "ran")
      /\ workqueue' = workqueue /\ workqueue_base' = workqueue_base
      /\ known_dirs_remaining' = known_dirs_remaining /\ dirs_processed' = dirs_processed
      /\ run_error' = run_error
      /\ work' = work /\ level' = level /\ newwork' = newwork /\ found' = found
  BY DEF Skip, queues, pool, locals
<1> DEFINE d == work[w]
<1>2. /\ d \in Directories /\ d \in Visiting /\ d \notin Seen
      /\ Visiting' = Visiting \ {d} /\ Seen' = Seen \cup {d}
      /\ visits' \in [Directories -> Nat] /\ \A e \in Directories : visits'[e] \in {0, 1}
      /\ at' \in [Workers -> Labels] /\ at'[w] = "ran"
      /\ \A v \in Workers \ {w} : at'[v] = at[v]
      /\ Lost' <=> Lost
  BY <1>1, VisitedFacts
<1> HIDE DEF d
<1>3. Queued' = Queued /\ Adding' = Adding
  BY <1>1 DEF Queued, Adding
<1>4. Types'
  BY <1>0, <1>1, <1>2 DEF Types
<1>5. Apart'
  BY <1>0, <1>2, <1>3 DEF Apart
<1>6. Once'
  <2>1. \A v \in Workers : /\ at'[v] = "visit" => at[v] = "visit"
                           /\ at'[v] = "add" <=> at[v] = "add"
    BY <1>1, <1>2
  <2>2. NoRepeats(workqueue') /\ NoRepeats(newwork') /\ \A v \in Workers : at'[v] # "add" => newwork'[v] = << >>
    BY <1>0, <1>1, <2>1 DEF Once
  <2> QED BY <1>0, <1>1, <1>2, <2>1, <2>2 DEF Once
<1>7. Tracked'
  BY <1>0, <1>1, <1>2, <1>3 DEF Tracked
<1>8. Parents'
  BY <1>0, <1>1, <1>2 DEF Parents
<1>9. Counts'
  BY <1>0, <1>1, <1>3 DEF Counts
<1>10. Levels'
  BY <1>0, <1>1, <1>2 DEF Levels
<1> QED BY <1>4, <1>5, <1>6, <1>7, <1>8, <1>9, <1>10 DEF QInv

LEMMA VisitInv ==
  ASSUME QInv, NEW w \in Workers, Visit(w)
  PROVE  QInv'
<1>0. Types /\ Apart /\ Once /\ Tracked /\ Parents /\ Counts /\ Levels
  BY DEF QInv
<1> DEFINE d == work[w]
<1>1. /\ at[w] = "visit" /\ Visited(w) /\ Goto(w, "add")
      /\ workqueue' = workqueue /\ workqueue_base' = workqueue_base
      /\ known_dirs_remaining' = known_dirs_remaining /\ dirs_processed' = dirs_processed
      /\ run_error' = run_error /\ work' = work /\ level' = level
  BY DEF Visit, queues, pool
<1>2. PICK picked \in SUBSET Subdirs[d] :
        /\ found' = found \cup picked
        /\ \E s \in SetToSeqs(picked) : newwork' = [newwork EXCEPT ![w] = s]
  BY DEF Visit
<1>3. PICK s \in SetToSeqs(picked) : newwork' = [newwork EXCEPT ![w] = s]
  BY <1>2
<1>4. /\ d \in Directories /\ d \in Visiting /\ d \notin Seen
      /\ Visiting' = Visiting \ {d} /\ Seen' = Seen \cup {d}
      /\ visits' \in [Directories -> Nat] /\ \A e \in Directories : visits'[e] \in {0, 1}
      /\ at' \in [Workers -> Labels] /\ at'[w] = "add"
      /\ \A v \in Workers \ {w} : at'[v] = at[v]
      /\ Lost' <=> Lost
  BY <1>1, VisitedFacts
<1> HIDE DEF d
<1>5. picked \subseteq Directories /\ picked \cap found = {} /\ IsFiniteSet(picked)
  <2>1. Subdirs[d] \subseteq Directories /\ IsFiniteSet(Directories)
    BY <1>4, TraverseAssumption
  <2>2. picked \subseteq Directories
    BY <1>2, <2>1
  <2>3. picked \cap found = {}
    BY <1>0, <1>2, <1>4, <2>2 DEF Parents
  <2> QED BY <2>1, <2>2, <2>3, FS_Subset
<1>6. s \in Seq(picked) /\ IsInjective(s) /\ Range(s) = picked
  BY <1>3, <1>5, SetToSeqsFacts
<1>7. s \in Seq(Directories)
  BY <1>5, <1>6
<1>8. DOMAIN newwork = Workers /\ newwork \in [Workers -> Seq(Directories)] /\ newwork[w] = << >>
  BY <1>0, <1>1 DEF Types, Once
<1>9. /\ DOMAIN newwork' = Workers /\ newwork'[w] = s
      /\ \A v \in Workers : v # w => newwork'[v] = newwork[v]
      /\ newwork' \in [Workers -> Seq(Directories)]
  <2> DEFINE T == Seq(Directories)
  <2>1. newwork \in [Workers -> T] /\ s \in T
    BY <1>7, <1>8
  <2> HIDE DEF T
  <2>2. /\ DOMAIN newwork' = Workers /\ newwork'[w] = s
        /\ \A v \in Workers : v # w => newwork'[v] = newwork[v]
        /\ newwork' \in [Workers -> T]
    BY <1>3, <2>1
  <2> QED BY <2>2 DEF T
<1>10. NoRepeats(newwork') /\ Adding' = Adding \cup picked
  <2> DEFINE F == newwork
             G == newwork'
  <2>1. Range(<< >>) = {}
    BY DEF Range
  <2>2. All(F) \subseteq found
    BY <1>0 DEF Tracked, Adding
  <2>3. /\ w \in DOMAIN F /\ NoRepeats(F) /\ IsInjective(s)
        /\ Range(s) \cap (All(F) \ Range(F[w])) = {} /\ Range(F[w]) = {}
        /\ DOMAIN G = DOMAIN F /\ G[w] = s /\ \A y \in DOMAIN F : y # w => G[y] = F[y]
    BY <1>0, <1>5, <1>6, <1>8, <1>9, <2>1, <2>2 DEF Once
  <2> HIDE DEF F, G
  <2>4. NoRepeats(G) /\ All(G) = (All(F) \ Range(F[w])) \cup Range(s)
    BY <2>3, Replace
  <2>5. All(G) = All(F) \cup picked
    BY <1>6, <2>3, <2>4
  <2> QED BY <2>4, <2>5 DEF F, G, Adding
<1>11. Queued' = Queued
  BY <1>1 DEF Queued
<1>12. Types'
  BY <1>0, <1>1, <1>2, <1>4, <1>5, <1>9 DEF Types
<1>13. Apart'
  BY <1>0, <1>2, <1>4, <1>5, <1>10, <1>11 DEF Apart, Tracked
<1>14. Once'
  <2>1. \A v \in Workers : at'[v] = "visit" => at[v] = "visit"
    BY <1>1, <1>4
  <2>2. \A v \in Workers : at'[v] # "add" => newwork'[v] = << >>
    BY <1>0, <1>4, <1>9 DEF Once
  <2>3. NoRepeats(workqueue')
    BY <1>0, <1>1 DEF Once
  <2> QED BY <1>0, <1>1, <1>4, <1>10, <2>1, <2>2, <2>3 DEF Once
<1>15. Tracked'
  BY <1>0, <1>2, <1>4, <1>10, <1>11 DEF Tracked
<1>16. Parents'
  <2> SUFFICES ASSUME NEW x \in Directories, NEW e \in Directories, e \in Subdirs[x], e \in found' PROVE x \in Seen'
    BY DEF Parents
  <2>1. CASE e \in found
    BY <1>0, <1>4, <2>1 DEF Parents
  <2>2. CASE e \in picked
    <3>1. x = d
      BY <1>2, <1>4, <2>2, TraverseAssumption
    <3> QED BY <1>4, <3>1
  <2> QED BY <1>2, <2>1, <2>2
<1>17. Counts'
  <2>1. found' \ (Queued' \cup Adding') = found \ (Queued \cup Adding)
    BY <1>0, <1>2, <1>5, <1>10, <1>11
  <2> QED BY <1>0, <1>1, <1>11, <2>1 DEF Counts
<1>18. Levels'
  <2>1. \A v \in Workers : at'[v] \in {"visit", "add"} => at[v] \in {"visit", "add"}
    BY <1>1, <1>4
  <2> QED BY <1>0, <1>1, <2>1 DEF Levels
<1> QED BY <1>12, <1>13, <1>14, <1>15, <1>16, <1>17, <1>18 DEF QInv

LEMMA GrownFacts ==
  ASSUME Types, NoRepeats(workqueue), NEW l \in DOMAIN workqueue, NEW F, F = Grown(l)
  PROVE  /\ F \in Seq(Seq(Directories)) /\ NoRepeats(F) /\ All(F) = Queued
         /\ DOMAIN workqueue \subseteq DOMAIN F /\ l + 1 \in DOMAIN F /\ l + 1 \in Nat /\ l + 1 >= 1
         /\ \A k \in DOMAIN workqueue : F[k] = workqueue[k]
<1>1. Len(workqueue) \in Nat /\ DOMAIN workqueue = 1..Len(workqueue)
  BY QueueFacts
<1>2. workqueue \in Seq(Seq(Directories)) /\ l \in 1..Len(workqueue) /\ l + 1 \in 1..Len(workqueue) + 1
  BY <1>1 DEF Types
<1>3. CASE Len(workqueue) < l + 1
  <2>1. F = Append(workqueue, << >>)
    BY <1>3 DEF Grown
  <2>2. /\ F \in Seq(Seq(Directories)) /\ DOMAIN F = 1..Len(workqueue) + 1
        /\ \A k \in DOMAIN workqueue : F[k] = workqueue[k]
        /\ NoRepeats(F) /\ All(F) = All(workqueue)
    <3> SUFFICES ASSUME NEW E, E = workqueue
                 PROVE  /\ F \in Seq(Seq(Directories)) /\ DOMAIN F = 1..Len(E) + 1
                        /\ \A k \in DOMAIN E : F[k] = E[k]
                        /\ NoRepeats(F) /\ All(F) = All(E)
      OBVIOUS
    <3>1. E \in Seq(Seq(Directories)) /\ NoRepeats(E) /\ F = Append(E, << >>)
      BY <1>2, <2>1
    <3>2. F \in Seq(Seq(Directories))
      BY <3>1, AppendEmpty
    <3>3. DOMAIN F = 1..Len(E) + 1
      BY <3>1, AppendEmpty
    <3>4. \A k \in DOMAIN E : F[k] = E[k]
      BY <3>1, AppendEmpty
    <3>5. NoRepeats(F) /\ All(F) = All(E)
      BY <3>1, AppendEmpty
    <3> QED BY <3>2, <3>3, <3>4, <3>5
  <2>3. DOMAIN workqueue \subseteq DOMAIN F /\ l + 1 \in DOMAIN F /\ l + 1 \in Nat /\ l + 1 >= 1
    BY <1>1, <1>2, <2>2
  <2> QED BY <2>2, <2>3 DEF Queued
<1>4. CASE ~(Len(workqueue) < l + 1)
  <2>1. F = workqueue
    BY <1>4 DEF Grown
  <2>2. l + 1 \in DOMAIN workqueue /\ l + 1 \in Nat /\ l + 1 >= 1
    BY <1>1, <1>2, <1>4
  <2> QED BY <1>2, <2>1, <2>2 DEF Queued
<1> QED BY <1>3, <1>4

LEMMA AddInv ==
  ASSUME QInv, NEW w \in Workers, AddNewWork(w)
  PROVE  QInv'
<1>0. Types /\ Apart /\ Once /\ Tracked /\ Parents /\ Counts /\ Levels
  BY DEF QInv
<1> DEFINE l == level[w] + 1
           s == newwork[w]
           F == Grown(level[w])
           G == workqueue'
           t == F[l] \o s
<1>1. /\ at[w] = "add" /\ Goto(w, "updated")
      /\ known_dirs_remaining' = known_dirs_remaining + Len(s) /\ dirs_processed' = dirs_processed
      /\ G = [F EXCEPT ![l] = t]
      /\ workqueue_base' = Min({l, workqueue_base})
      /\ newwork' = [newwork EXCEPT ![w] = << >>]
      /\ run_error' = run_error /\ work' = work /\ level' = level /\ found' = found /\ visits' = visits
  BY DEF AddNewWork, pool, marks
<1>2. /\ Len(workqueue) \in Nat /\ DOMAIN workqueue = 1..Len(workqueue)
      /\ \A k \in DOMAIN workqueue : workqueue[k] \in Seq(Directories)
      /\ DOMAIN newwork = Workers /\ s \in Seq(Directories)
  BY <1>0, QueueFacts
<1>3. level[w] \in DOMAIN workqueue /\ NoRepeats(workqueue) /\ workqueue \in Seq(Seq(Directories))
  BY <1>0, <1>1 DEF Levels, Once, Types
<1>4. /\ F \in Seq(Seq(Directories)) /\ NoRepeats(F) /\ All(F) = Queued
      /\ DOMAIN workqueue \subseteq DOMAIN F /\ l \in DOMAIN F /\ l \in Nat /\ l >= 1
      /\ \A k \in DOMAIN workqueue : F[k] = workqueue[k]
  BY <1>0, <1>3, GrownFacts
<1> HIDE DEF l, s, F
<1>5. Range(s) \subseteq Adding /\ IsInjective(s) /\ Range(s) \cap Queued = {}
  <2>1. Range(s) \subseteq Adding
    BY <1>2 DEF Adding, All, s
  <2>2. IsInjective(s)
    BY <1>0, <1>2 DEF Once, NoRepeats, s
  <2> QED BY <1>0, <2>1, <2>2 DEF Apart
<1>6. F[l] \in Seq(Directories) /\ IsInjective(F[l]) /\ Range(F[l]) \subseteq Queued
  <2> DEFINE T == Seq(Directories)
  <2>1. F \in Seq(T)
    BY <1>4
  <2> HIDE DEF T
  <2>2. F[l] \in T
    BY <1>4, <2>1
  <2> QED BY <1>4, <2>2 DEF T, NoRepeats, All
<1>7. /\ t \in Seq(Directories) /\ Range(t) = Range(F[l]) \cup Range(s) /\ IsInjective(t)
  <2> DEFINE r == F[l]
  <2>1. r \in Seq(Directories) /\ s \in Seq(Directories) /\ IsInjective(r) /\ IsInjective(s) /\ Range(r) \cap Range(s) = {}
    BY <1>2, <1>5, <1>6
  <2> HIDE DEF r
  <2>2. r \o s \in Seq(Directories) /\ Range(r \o s) = Range(r) \cup Range(s) /\ IsInjective(r \o s)
    BY <2>1, ConcatFacts
  <2> QED BY <2>2 DEF r
<1> HIDE DEF t
<1>8. /\ DOMAIN G = DOMAIN F /\ G \in Seq(Seq(Directories)) /\ G[l] = t
      /\ \A k \in DOMAIN F : k # l => G[k] = F[k]
  <2> DEFINE T == Seq(Directories)
  <2>1. F \in Seq(T) /\ t \in T
    BY <1>4, <1>7
  <2> HIDE DEF T, G
  <2>2. /\ DOMAIN G = DOMAIN F /\ G \in Seq(T) /\ G[l] = t
        /\ \A k \in DOMAIN F : k # l => G[k] = F[k]
    BY <1>1, <1>4, <2>1
  <2> QED BY <2>2 DEF T
<1>9. NoRepeats(workqueue') /\ Queued' = Queued \cup Range(s)
  <2> HIDE DEF G
  <2>1. /\ l \in DOMAIN F /\ NoRepeats(F) /\ IsInjective(t)
        /\ Range(t) \cap (All(F) \ Range(F[l])) = {}
        /\ DOMAIN G = DOMAIN F /\ G[l] = t /\ \A y \in DOMAIN F : y # l => G[y] = F[y]
    BY <1>4, <1>5, <1>7, <1>8
  <2>2. NoRepeats(G) /\ All(G) = (All(F) \ Range(F[l])) \cup Range(t)
    BY <2>1, Replace
  <2>3. All(G) = Queued \cup Range(s)
    BY <1>4, <1>6, <1>7, <2>2
  <2> QED BY <2>2, <2>3 DEF G, Queued
<1>10. /\ newwork' \in [Workers -> Seq(Directories)] /\ newwork'[w] = << >>
       /\ \A v \in Workers : v # w => newwork'[v] = newwork[v]
  <2> DEFINE T == Seq(Directories)
  <2>1. newwork \in [Workers -> T] /\ << >> \in T
    BY <1>0 DEF Types
  <2> HIDE DEF T
  <2>2. /\ newwork' \in [Workers -> T] /\ newwork'[w] = << >>
        /\ \A v \in Workers : v # w => newwork'[v] = newwork[v]
    BY <1>1, <2>1
  <2> QED BY <2>2 DEF T
<1>11. NoRepeats(newwork') /\ Adding' = Adding \ Range(s)
  <2> DEFINE H == newwork
             K == newwork'
             e == << >>
  <2>1. Range(e) = {} /\ IsInjective(e)
    BY DEF Range, IsInjective
  <2>2. /\ w \in DOMAIN H /\ NoRepeats(H) /\ IsInjective(e)
        /\ Range(e) \cap (All(H) \ Range(H[w])) = {}
        /\ DOMAIN K = DOMAIN H /\ K[w] = e /\ \A y \in DOMAIN H : y # w => K[y] = H[y]
    BY <1>0, <1>2, <1>10, <2>1 DEF Once
  <2> HIDE DEF H, K, e
  <2>3. NoRepeats(K) /\ All(K) = (All(H) \ Range(H[w])) \cup Range(e)
    BY <2>2, Replace
  <2>4. All(K) = All(H) \ Range(H[w])
    BY <2>1, <2>3
  <2> QED BY <2>3, <2>4 DEF H, K, Adding, s
<1>12. /\ at' \in [Workers -> Labels] /\ at'[w] = "updated"
       /\ \A v \in Workers \ {w} : at'[v] = at[v]
  BY <1>0, <1>1 DEF Goto, Types, Labels, InRun
<1>13. Visiting' = Visiting /\ Seen' = Seen
  <2>1. \A v \in Workers : at'[v] = "visit" <=> at[v] = "visit"
    BY <1>1, <1>12
  <2> QED BY <1>1, <2>1 DEF Visiting, Seen
<1>14. Lost' <=> Lost
  <2>1. \A v \in Workers : /\ at'[v] = "failed" <=> at[v] = "failed"
                           /\ at'[v] = "error" <=> at[v] = "error"
    BY <1>1, <1>12
  <2>2. Main \in Workers
    BY DEF Workers
  <2> QED BY <1>1, <2>1, <2>2 DEF Lost
<1>15. workqueue_base \in DOMAIN workqueue /\ workqueue_base \in Nat
  BY <1>0 DEF Levels, Types
<1>16. /\ workqueue_base' \in {l, workqueue_base}
       /\ workqueue_base' <= l /\ workqueue_base' <= workqueue_base
  <2> DEFINE S == {l, workqueue_base}
  <2>1. S \subseteq Nat /\ S # {}
    BY <1>4, <1>15
  <2>2. Min(S) \in S /\ \A y \in S : Min(S) <= y
    BY <2>1, MinFacts
  <2> QED BY <1>1, <2>2
<1>17. Types'
  <2>1. workqueue_base' \in Nat /\ dirs_processed' \in Int /\ known_dirs_remaining' \in Int
    <3>1. Len(s) \in Nat
      BY <1>2
    <3> QED BY <1>0, <1>1, <1>4, <1>16, <3>1 DEF Types
  <2>2. /\ work' \in [Workers -> Directories \cup {Nobody}] /\ level' \in [Workers -> Nat]
        /\ found' \subseteq Directories /\ visits' \in [Directories -> Nat]
    BY <1>0, <1>1 DEF Types
  <2> QED BY <1>8, <1>10, <1>12, <2>1, <2>2 DEF Types
<1>18. Apart'
  BY <1>0, <1>5, <1>9, <1>11, <1>13 DEF Apart
<1>19. Once'
  <2>1. \A v \in Workers : at'[v] = "visit" => at[v] = "visit"
    BY <1>1, <1>12
  <2>2. \A v \in Workers : at'[v] # "add" => newwork'[v] = << >>
    BY <1>0, <1>10, <1>12 DEF Once
  <2> QED BY <1>0, <1>1, <1>9, <1>11, <2>1, <2>2 DEF Once
<1>20. Tracked'
  BY <1>0, <1>1, <1>5, <1>9, <1>11, <1>13, <1>14 DEF Tracked
<1>21. Parents'
  BY <1>0, <1>1, <1>13 DEF Parents
<1>22. Counts'
  <2>1. IsFiniteSet(Queued) /\ Cardinality(Queued) \in Nat
    BY <1>0, FiniteFound DEF Tracked
  <2>2. IsFiniteSet(Range(s)) /\ Cardinality(Range(s)) = Len(s) /\ Len(s) \in Nat
    BY <1>2, <1>5, CountSeq
  <2>3. Cardinality({}) = 0
    BY FS_EmptySet
  <2>4. Queued \cap Range(s) = {}
    BY <1>5
  <2>5. Cardinality(Queued \cup Range(s)) = Cardinality(Queued) + Cardinality(Range(s)) - Cardinality(Queued \cap Range(s))
    BY <2>1, <2>2, FS_Union
  <2>6. Cardinality(Queued') = Cardinality(Queued) + Len(s)
    <3>1. Cardinality(Queued \cap Range(s)) = 0
      BY <2>3, <2>4
    <3>2. Cardinality(Queued \cup Range(s)) = Cardinality(Queued) + Len(s)
      BY <2>1, <2>2, <2>5, <3>1
    <3> QED BY <1>9, <3>2
  <2>7. found' \ (Queued' \cup Adding') = found \ (Queued \cup Adding)
    BY <1>1, <1>5, <1>9, <1>11
  <2> QED BY <1>0, <1>1, <2>6, <2>7 DEF Counts
<1>23. Levels'
  <2>1. workqueue_base' \in DOMAIN workqueue'
    BY <1>4, <1>8, <1>15, <1>16
  <2>2. \A v \in Workers : at'[v] \in {"visit", "add"} => level'[v] \in DOMAIN workqueue'
    BY <1>0, <1>1, <1>4, <1>8, <1>12 DEF Levels
  <2>3. ASSUME NEW b, b = workqueue_base', NEW k \in 1..b - 1 PROVE workqueue'[k] = << >>
    <3>1. b \in Nat /\ workqueue_base \in 1..Len(workqueue) /\ b <= workqueue_base /\ b <= l
      BY <1>2, <1>4, <1>15, <1>16, <2>3
    <3>2. k \in 1..workqueue_base - 1 /\ k # l /\ k \in DOMAIN workqueue
      BY <1>2, <1>4, <3>1
    <3>3. workqueue[k] = << >>
      BY <1>0, <3>2 DEF Levels
    <3> QED BY <1>4, <1>8, <3>2, <3>3
  <2> QED BY <2>1, <2>2, <2>3 DEF Levels
<1> QED BY <1>17, <1>18, <1>19, <1>20, <1>21, <1>22, <1>23 DEF QInv

-----------------------------------------------------------------------------
(* Steps that move no directory                                            *)

LEMMA WorkerFacts == Main \in Workers /\ Main \notin WorkerThreads /\ \A t \in WorkerThreads : t \in Workers /\ t # Main
BY TraverseAssumption DEF Workers

(* w goes on at label; others may be notified. *)
Moves(w, label) ==
  /\ at' \in [Workers -> Labels] /\ at'[w] = label
  /\ \A v \in Workers \ {w} :
       \/ at'[v] = at[v]
       \/ at[v] = "asleep" /\ at'[v] = "woken"
       \/ at[v] = "waiting" /\ at'[v] = "notified"

LEMMA GotoMoves ==
  ASSUME Types, NEW w \in Workers, NEW label \in Labels, Goto(w, label)
  PROVE  Moves(w, label)
BY DEF Types, Goto, Moves

LEMMA NotifyMainMoves ==
  ASSUME Types, NEW t \in WorkerThreads, NEW label \in Labels, NotifyMain(t, label)
  PROVE  Moves(t, label)
<1>1. at \in [Workers -> Labels] /\ "notified" \in Labels
  BY DEF Types, Labels, OfMain
<1>2. Main \in Workers /\ t \in Workers /\ t # Main
  BY WorkerFacts
<1> HIDE DEF Labels
<1>3. at' = [at EXCEPT ![t] = label, ![Main] = IF at[Main] = "waiting" THEN "notified" ELSE at[Main]]
  BY <1>2 DEF NotifyMain
<1> QED BY <1>1, <1>2, <1>3 DEF Moves

LEMMA NotifyThreadsMoves ==
  ASSUME Types, NEW w \in Workers, NEW label \in Labels, NotifyThreads(w, label)
  PROVE  Moves(w, label)
<1>1. at \in [Workers -> Labels] /\ "woken" \in Labels
  BY DEF Types, Labels, OfThread
<1> HIDE DEF Labels
<1> QED BY <1>1 DEF NotifyThreads, Moves

LEMMA LostKept ==
  ASSUME NEW w \in Workers, NEW label, Moves(w, label), run_error => run_error',
         at[w] = "failed" => run_error' \/ (w = Main /\ label = "error"), at[w] # "error"
  PROVE  Lost => Lost'
<1>1. CASE run_error
  BY <1>1 DEF Lost
<1>2. CASE at[Main] = "error"
  BY <1>2, WorkerFacts DEF Moves, Lost
<1>3. ASSUME NEW v \in Workers, at[v] = "failed" PROVE Lost'
  <2>1. CASE v = w
    BY <1>3, <2>1 DEF Moves, Lost
  <2>2. CASE v # w
    BY <1>3, <2>2 DEF Moves, Lost
  <2> QED BY <2>1, <2>2
<1> QED BY <1>1, <1>2, <1>3 DEF Lost

LEMMA MoveFrame ==
  ASSUME QInv, UNCHANGED <<queues, locals, marks>>, NEW w \in Workers, NEW label, Moves(w, label),
         at[w] # "add", label \notin {"visit", "add"}, run_error => run_error',
         at[w] = "visit" => label = "failed",
         at[w] = "failed" => run_error' \/ (w = Main /\ label = "error"), at[w] # "error"
  PROVE  QInv' /\ (Lost => Lost')
<1>1. Lost => Lost'
  BY LostKept
<1>2. at' \in [Workers -> Labels]
  BY DEF Moves
<1>3. \A v \in Workers : /\ at'[v] = "visit" => at[v] = "visit"
                         /\ at'[v] = "add" <=> at[v] = "add"
  BY DEF Moves
<1>4. ~Lost' => \A v \in Workers : at[v] = "visit" => at'[v] = "visit"
  <2> SUFFICES ASSUME NEW v \in Workers, at[v] = "visit", at'[v] # "visit" PROVE Lost'
    OBVIOUS
  <2>1. v = w /\ at'[w] = "failed"
    BY DEF Moves
  <2> QED BY <2>1 DEF Lost
<1> QED BY <1>1, <1>2, <1>3, <1>4, QueueFrame

-----------------------------------------------------------------------------
(* Threads come and go                                                           *)

LEMMA SleeperFacts ==
  IsFiniteSet(Sleepers) /\ Cardinality(Sleepers) \in Nat /\ IsFiniteSet(WorkerThreads) /\ Cardinality(WorkerThreads) \in Nat
<1>1. IsFiniteSet(WorkerThreads) /\ Sleepers \in SUBSET WorkerThreads
  BY TraverseAssumption DEF Sleepers
<1>2. IsFiniteSet(Sleepers)
  BY <1>1, FS_Subset
<1> QED BY <1>1, <1>2, FS_CardinalityType

(* What a step in run() leaves alone. *)
LEMMA RunFrame ==
  ASSUME LInv, NEW w \in Workers, NEW label \in InRun \cup {"first"}, Moves(w, label), UNCHANGED pool,
         at[w] \in InRun \cup {"first"}, w # Main => at[w] \in InRun /\ label \in InRun,
         Lost => Lost',
         \A v \in Workers \ {w} : at'[v] = at[v]
  PROVE  LInv'
<1> USE DEF pool
<1>0. Alone /\ Slept /\ Drained /\ Returning
  BY DEF LInv
<1>1. at'[w] = label
  BY DEF Moves
<1>2. Unborn' = Unborn /\ Sleepers' = Sleepers
  <2>1. \A t \in WorkerThreads : /\ at'[t] = "none" <=> at[t] = "none"
                                 /\ at'[t] \in Resting \cup {"dead"} <=> at[t] \in Resting \cup {"dead"}
    <3> TAKE t \in WorkerThreads
    <3>1. t \in Workers /\ t # Main
      BY WorkerFacts
    <3>2. CASE t = w
      BY <1>1, <3>1, <3>2 DEF InRun, Resting
    <3>3. CASE t # w
      BY <3>1, <3>3
    <3> QED BY <3>2, <3>3
  <2> QED BY <2>1 DEF Unborn, Sleepers
<1>3. CASE w = Main
  <2>1. ~done /\ ~run_error /\ Unborn = WorkerThreads /\ WorkerThreads # {}
    BY <1>0, <1>3, TraverseAssumption DEF Alone
  <2>2. PICK t \in WorkerThreads : at[t] = "none" /\ at'[t] = "none"
    BY <1>2, <2>1 DEF Unborn
  <2>3. at'[Main] \in InRun \cup {"first"}
    BY <1>1, <1>3
  <2>4. Alone'
    BY <1>2, <2>1, <2>3 DEF Alone, InRun
  <2>5. Slept'
    <3>1. \A u \in WorkerThreads : at'[u] = "none"
      BY <1>2, <2>1 DEF Unborn
    <3> QED BY <1>0, <1>2, <2>2, <3>1 DEF Slept, Resting
  <2>6. Drained'
    BY <2>1 DEF Drained
  <2>7. Returning'
    BY <2>3 DEF Returning, Returned, InRun
  <2> QED BY <2>4, <2>5, <2>6, <2>7 DEF LInv
<1>4. CASE w # Main
  <2>1. w \in WorkerThreads /\ at'[Main] = at[Main] /\ at[w] \in InRun /\ at'[w] \in InRun
    BY <1>1, <1>4, WorkerFacts DEF Workers
  <2>2. at[w] \notin Resting \cup {"exit", "dead", "none"} /\ at'[w] \notin Resting \cup {"exit", "dead", "none"}
    BY <2>1 DEF InRun, Resting
  <2>3. Alone'
    BY <1>0, <1>2, <2>1 DEF Alone
  <2>4. Slept'
    <3>1. \A t \in WorkerThreads : at'[t] \in {"exit", "dead"} => done'
      BY <1>0, <2>2, WorkerFacts DEF Slept
    <3> QED BY <1>0, <1>2, <2>1, <2>2, <3>1 DEF Slept
  <2>5. Drained'
    <3>1. ~(done /\ ~Lost /\ Unborn = {})
      BY <1>0, <2>1, <2>2 DEF Drained
    <3> QED BY <1>2, <3>1 DEF Drained
  <2>6. Returning'
    <3>1. ~Returned
      BY <1>0, <2>1, <2>2 DEF Returning
    <3> QED BY <2>1, <3>1 DEF Returning, Returned
  <2> QED BY <2>3, <2>4, <2>5, <2>6 DEF LInv
<1> QED BY <1>3, <1>4

(* A step of a thread outside run(). *)
LEMMA ThreadFrame ==
  ASSUME LInv, NEW t \in WorkerThreads, NEW label \in InRun \cup {"loop", "asleep", "woken", "exit", "dead"},
         Moves(t, label), at[t] \notin {"none", "dead"},
         known_dirs_remaining' = known_dirs_remaining,
         done => done', run_error => run_error', done' /\ ~done => run_error', Lost => Lost',
         label \in Resting \cup {"dead"} /\ at[t] \notin Resting => threads_sleeping' = threads_sleeping + 1,
         label \notin Resting \cup {"dead"} /\ at[t] \in Resting => threads_sleeping' = threads_sleeping - 1,
         (label \in Resting \cup {"dead"} <=> at[t] \in Resting) => threads_sleeping' = threads_sleeping,
         label \in {"exit", "dead"} => done',
         done /\ at[t] \in Resting \cup {"exit"} => label \in Resting \cup {"exit", "dead"},
         label \in Resting => at[t] \in Resting \/ known_dirs_remaining = 0
  PROVE  LInv'
<1>0. Alone /\ Slept /\ Drained /\ Returning
  BY DEF LInv
<1>1. at'[t] = label
  BY DEF Moves
<1>2. \A u \in WorkerThreads \ {t} : \/ at'[u] = at[u]
                                     \/ at[u] = "asleep" /\ at'[u] = "woken"
                                     \/ at[u] = "waiting" /\ at'[u] = "notified"
  BY WorkerFacts DEF Moves
<1>3. \/ at'[Main] = at[Main]
      \/ at[Main] = "asleep" /\ at'[Main] = "woken"
      \/ at[Main] = "waiting" /\ at'[Main] = "notified"
  BY WorkerFacts DEF Moves
<1>4. Unborn' = Unborn /\ t \notin Unborn
  <2>1. \A u \in WorkerThreads : at'[u] = "none" <=> at[u] = "none"
    BY <1>1, <1>2 DEF InRun
  <2> QED BY <2>1 DEF Unborn
<1>5. \A u \in WorkerThreads \ {t} : /\ at'[u] \in Resting <=> at[u] \in Resting
                                     /\ at'[u] \in {"exit", "dead"} <=> at[u] \in {"exit", "dead"}
                                     /\ at'[u] = "dead" <=> at[u] = "dead"
  BY <1>2 DEF Resting
<1>6. Sleepers' = IF label \in Resting \cup {"dead"} THEN Sleepers \cup {t} ELSE Sleepers \ {t}
  <2>1. \A u \in WorkerThreads \ {t} : u \in Sleepers' <=> u \in Sleepers
    BY <1>5 DEF Sleepers
  <2>2. t \in Sleepers' <=> label \in Resting \cup {"dead"}
    BY <1>1 DEF Sleepers
  <2>3. Sleepers \subseteq WorkerThreads /\ Sleepers' \subseteq WorkerThreads
    BY DEF Sleepers
  <2> QED BY <2>1, <2>2, <2>3
<1>7. threads_sleeping' = Cardinality(Sleepers')
  <2>1. IsFiniteSet(Sleepers) /\ Cardinality(Sleepers) \in Nat /\ threads_sleeping = Cardinality(Sleepers)
    BY <1>0, SleeperFacts DEF Slept
  <2>0. t \in Sleepers <=> at[t] \in Resting
    BY DEF Sleepers
  <2>2. CASE label \in Resting \cup {"dead"} /\ at[t] \notin Resting
    <3>1. Sleepers' = Sleepers \cup {t} /\ t \notin Sleepers
      BY <1>6, <2>0, <2>2
    <3> QED BY <2>1, <2>2, <3>1, FS_AddElement
  <2>3. CASE label \notin Resting \cup {"dead"} /\ at[t] \in Resting
    <3>1. Sleepers' = Sleepers \ {t} /\ t \in Sleepers
      BY <1>6, <2>0, <2>3
    <3> QED BY <2>1, <2>3, <3>1, FS_RemoveElement
  <2>4. CASE label \in Resting \cup {"dead"} <=> at[t] \in Resting
    <3>1. Sleepers' = Sleepers
      BY <1>6, <2>0, <2>4
    <3> QED BY <2>1, <2>4, <3>1
  <2> QED BY <2>2, <2>3, <2>4
<1>8. Alone'
  <2>1. ~(at'[Main] \in InRun \cup {"first"})
    <3>1. at[Main] \notin InRun \cup {"first"}
      BY <1>0, <1>4 DEF Alone
    <3> QED BY <1>3, <3>1 DEF InRun
  <2>2. at'[Main] \in {"spawn", "failing"} => Unborn' # {} /\ (done' => run_error')
    BY <1>0, <1>3, <1>4 DEF Alone
  <2> QED BY <2>1, <2>2 DEF Alone
<1>9. Slept'
  <2>1. ASSUME NEW u \in WorkerThreads, at'[u] \in {"exit", "dead"} PROVE done'
    <3>1. CASE u = t
      BY <1>1, <2>1, <3>1
    <3>2. CASE u # t
      BY <1>0, <1>5, <2>1, <3>2 DEF Slept
    <3> QED BY <3>1, <3>2
  <2>2. ASSUME ~done', \A u \in WorkerThreads : at'[u] \in Resting PROVE known_dirs_remaining' = 0
    <3>1. CASE at[t] \in Resting
      <4>1. \A u \in WorkerThreads : at[u] \in Resting
        BY <1>5, <2>2, <3>1
      <4> QED BY <1>0, <2>2, <4>1 DEF Slept
    <3>2. CASE at[t] \notin Resting
      BY <1>1, <2>2, <3>2
    <3> QED BY <3>1, <3>2
  <2> QED BY <1>7, <2>1, <2>2 DEF Slept
<1>10. Drained'
  <2> SUFFICES ASSUME done', ~Lost', Unborn' = {}
               PROVE  known_dirs_remaining' = 0 /\ \A u \in WorkerThreads : at'[u] \in Resting \cup {"exit", "dead"}
    BY DEF Drained
  <2>1. done /\ ~Lost /\ Unborn = {}
    BY <1>4 DEF Lost
  <2>2. known_dirs_remaining = 0 /\ \A u \in WorkerThreads : at[u] \in Resting \cup {"exit", "dead"}
    BY <1>0, <2>1 DEF Drained
  <2>3. at'[t] \in Resting \cup {"exit", "dead"}
    BY <1>1, <2>1, <2>2
  <2> QED BY <1>5, <2>2, <2>3
<1>11. Returning'
  <2>1. ~Returned
    BY <1>0 DEF Returning
  <2>2. ~Returned'
    BY <1>3, <2>1 DEF Returned
  <2> QED BY <2>2 DEF Returning, Returned
<1> QED BY <1>8, <1>9, <1>10, <1>11 DEF LInv

(* A step of the caller once it has stopped visiting directories. *)
LEMMA CallerFrame ==
  ASSUME LInv, NEW label \in OfMain \ {"first", "success", "error"}, Moves(Main, label),
         at[Main] \in OfMain \ {"first", "success", "error"},
         known_dirs_remaining' = known_dirs_remaining, threads_sleeping' = threads_sleeping,
         run_error' = run_error, done => done',
         done' /\ ~done /\ Unborn = {} => known_dirs_remaining = 0 /\ \A t \in WorkerThreads : at[t] \in Resting,
         label \in {"spawn", "failing"} => at[Main] = "spawn" /\ done' = done
  PROVE  LInv'
<1>0. Alone /\ Slept /\ Drained /\ Returning
  BY DEF LInv
<1>1. at'[Main] = label
  BY DEF Moves
<1>2. \A u \in WorkerThreads : \/ at'[u] = at[u]
                               \/ at[u] = "asleep" /\ at'[u] = "woken"
                               \/ at[u] = "waiting" /\ at'[u] = "notified"
  BY WorkerFacts DEF Moves
<1>3. \A u \in WorkerThreads : /\ at'[u] \in Resting <=> at[u] \in Resting
                               /\ at'[u] \in {"exit", "dead"} <=> at[u] \in {"exit", "dead"}
                               /\ at'[u] = "dead" <=> at[u] = "dead"
                               /\ at'[u] = "none" <=> at[u] = "none"
  BY <1>2 DEF Resting
<1>4. Unborn' = Unborn /\ Sleepers' = Sleepers
  BY <1>3 DEF Unborn, Sleepers
<1>5. Lost => Lost'
  <2>1. at[Main] # "failed" /\ at[Main] # "error" /\ Main \in Workers
    BY WorkerFacts DEF OfMain
  <2> QED BY <2>1, LostKept
<1>6. Alone'
  <2>1. at'[Main] \notin InRun \cup {"first"}
    BY <1>1 DEF OfMain, InRun
  <2> QED BY <1>0, <1>1, <1>4, <2>1 DEF Alone
<1>7. Slept'
  BY <1>0, <1>3, <1>4 DEF Slept
<1>8. Drained'
  BY <1>0, <1>3, <1>4, <1>5 DEF Drained
<1>9. Returning'
  BY <1>1 DEF Returning, Returned
<1> QED BY <1>6, <1>7, <1>8, <1>9 DEF LInv

-----------------------------------------------------------------------------
(* The invariant is inductive                                              *)

LEMMA RunInv ==
  ASSUME IInv, NEW w \in Workers, Run(w)
  PROVE  IInv'
<1> USE DEF queues, pool, locals, marks
<1>0. QInv /\ LInv /\ Types
  BY DEF IInv, QInv
<1>1. PICK label \in InRun : /\ Goto(w, label) /\ UNCHANGED pool
                             /\ at[w] \in InRun \ {"failed", "ran"}
  <2>1. CASE TakeWork(w)
    BY <2>1 DEF TakeWork, InRun
  <2>2. CASE NoWork(w)
    BY <2>2 DEF NoWork, InRun
  <2>3. CASE Visit(w)
    BY <2>3 DEF Visit, InRun
  <2>4. CASE Skip(w)
    BY <2>4 DEF Skip, InRun
  <2>5. CASE AddNewWork(w)
    BY <2>5 DEF AddNewWork, InRun
  <2>6. CASE Updated(w)
    BY <2>6 DEF Updated, InRun
  <2>7. CASE RunFails(w)
    BY <2>7 DEF RunFails, InRun
  <2> QED BY <2>1, <2>2, <2>3, <2>4, <2>5, <2>6, <2>7 DEF Run
<1>2. label \in Labels /\ at[w] # "error" /\ at[w] # "failed"
  BY <1>1 DEF Labels, InRun
<1>3. Moves(w, label)
  BY <1>0, <1>1, <1>2, GotoMoves
<1>4. Lost => Lost'
  BY <1>1, <1>2, <1>3, LostKept
<1>5. \A v \in Workers \ {w} : at'[v] = at[v]
  BY <1>0, <1>1 DEF Goto, Types
<1>6. LInv'
  BY <1>0, <1>1, <1>3, <1>4, <1>5, RunFrame
<1>7. QInv'
  <2>1. CASE TakeWork(w)
    BY <1>0, <2>1, TakeInv
  <2>2. CASE Visit(w)
    BY <1>0, <2>2, VisitInv
  <2>3. CASE Skip(w)
    BY <1>0, <2>3, SkipInv
  <2>4. CASE AddNewWork(w)
    BY <1>0, <2>4, AddInv
  <2>5. CASE NoWork(w) \/ Updated(w)
    <3>1. /\ UNCHANGED <<queues, locals, marks>> /\ Goto(w, "ran") /\ run_error' = run_error
          /\ at[w] \in {"run", "updated"}
      BY <2>5 DEF NoWork, Updated
    <3>2. Moves(w, "ran")
      BY <1>0, <3>1, GotoMoves DEF Labels, InRun
    <3> QED BY <1>0, <3>1, <3>2, MoveFrame
  <2>6. CASE RunFails(w)
    <3>1. /\ UNCHANGED <<queues, locals, marks>> /\ Goto(w, "failed") /\ run_error' = run_error
          /\ at[w] \in {"visit", "updated"}
      BY <2>6 DEF RunFails
    <3>2. Moves(w, "failed")
      BY <1>0, <3>1, GotoMoves DEF Labels, InRun
    <3> QED BY <1>0, <3>1, <3>2, MoveFrame
  <2> QED BY <2>1, <2>2, <2>3, <2>4, <2>5, <2>6 DEF Run
<1> QED BY <1>6, <1>7 DEF IInv

LEMMA ThreadInv ==
  ASSUME IInv, NEW t \in WorkerThreads, WorkerThread(t) \/ SpuriousWakeup(t)
  PROVE  IInv'
<1> USE DEF queues, pool, locals, marks
<1>0. QInv /\ LInv /\ Types /\ t \in Workers /\ t # Main
  BY WorkerFacts DEF IInv, QInv
<1>1. /\ "loop" \in Labels /\ "asleep" \in Labels /\ "woken" \in Labels /\ "run" \in Labels
      /\ "exit" \in Labels /\ "dead" \in Labels
  BY DEF Labels, InRun, OfThread
<1>2. CASE Begin(t)
  <2>1. /\ at[t] = "begin" /\ Goto(t, "loop") /\ UNCHANGED <<queues, locals, marks>>
        /\ threads_sleeping' = threads_sleeping /\ done' = done /\ run_error' = run_error
    BY <1>2 DEF Begin
  <2>2. Moves(t, "loop")
    BY <1>0, <1>1, <2>1, GotoMoves
  <2>3. QInv' /\ (Lost => Lost')
    BY <1>0, <2>1, <2>2, MoveFrame
  <2>4. LInv'
    BY <1>0, <2>1, <2>2, <2>3, ThreadFrame DEF Resting
  <2> QED BY <2>3, <2>4 DEF IInv
<1>3. CASE Sleep(t)
  <2>1. /\ at[t] = "loop" /\ NotifyMain(t, "asleep") /\ UNCHANGED <<queues, locals, marks>>
        /\ ~done /\ known_dirs_remaining = 0
        /\ threads_sleeping' = threads_sleeping + 1 /\ done' = done /\ run_error' = run_error
    BY <1>3 DEF Sleep
  <2>2. Moves(t, "asleep")
    BY <1>0, <1>1, <2>1, NotifyMainMoves
  <2>3. QInv' /\ (Lost => Lost')
    BY <1>0, <2>1, <2>2, MoveFrame
  <2>4. LInv'
    BY <1>0, <2>1, <2>2, <2>3, ThreadFrame DEF Resting
  <2> QED BY <2>3, <2>4 DEF IInv
<1>4. CASE WakeEverybody(t)
  <2>1. /\ at[t] = "loop" /\ NotifyThreads(t, "run") /\ UNCHANGED <<queues, locals, marks>>
        /\ ~done /\ UNCHANGED pool
    BY <1>4 DEF WakeEverybody
  <2>2. Moves(t, "run")
    BY <1>0, <1>1, <2>1, NotifyThreadsMoves
  <2>3. QInv' /\ (Lost => Lost')
    BY <1>0, <2>1, <2>2, MoveFrame
  <2>4. LInv'
    BY <1>0, <2>1, <2>2, <2>3, ThreadFrame DEF Resting, InRun
  <2> QED BY <2>3, <2>4 DEF IInv
<1>5. CASE Awake(t) /\ done
  <2>1. /\ at[t] = "woken" /\ Goto(t, "exit") /\ UNCHANGED <<queues, locals, marks>>
        /\ done /\ done' = done /\ run_error' = run_error /\ threads_sleeping' = threads_sleeping - 1
    BY <1>5 DEF Awake
  <2>2. Moves(t, "exit")
    BY <1>0, <1>1, <2>1, GotoMoves
  <2>3. QInv' /\ (Lost => Lost')
    BY <1>0, <2>1, <2>2, MoveFrame
  <2>4. LInv'
    BY <1>0, <2>1, <2>2, <2>3, ThreadFrame DEF Resting
  <2> QED BY <2>3, <2>4 DEF IInv
<1>6. CASE Awake(t) /\ ~done
  <2>1. /\ at[t] = "woken" /\ Goto(t, "run") /\ UNCHANGED <<queues, locals, marks>>
        /\ ~done /\ done' = done /\ run_error' = run_error /\ threads_sleeping' = threads_sleeping - 1
    BY <1>6 DEF Awake
  <2>2. Moves(t, "run")
    BY <1>0, <1>1, <2>1, GotoMoves
  <2>3. QInv' /\ (Lost => Lost')
    BY <1>0, <2>1, <2>2, MoveFrame
  <2>4. LInv'
    BY <1>0, <2>1, <2>2, <2>3, ThreadFrame DEF Resting, InRun
  <2> QED BY <2>3, <2>4 DEF IInv
<1>7. CASE Ran(t)
  <2>1. /\ at[t] = "ran" /\ Goto(t, "loop") /\ UNCHANGED <<queues, locals, marks, pool>>
    BY <1>7 DEF Ran
  <2>2. Moves(t, "loop")
    BY <1>0, <1>1, <2>1, GotoMoves
  <2>3. QInv' /\ (Lost => Lost')
    BY <1>0, <2>1, <2>2, MoveFrame
  <2>4. LInv'
    BY <1>0, <2>1, <2>2, <2>3, ThreadFrame DEF Resting
  <2> QED BY <2>3, <2>4 DEF IInv
<1>8. CASE Failed(t)
  <2>1. /\ at[t] = "failed" /\ Goto(t, "exit") /\ UNCHANGED <<queues, locals, marks>>
        /\ done' /\ run_error' /\ threads_sleeping' = threads_sleeping
    BY <1>8 DEF Failed
  <2>2. Moves(t, "exit")
    BY <1>0, <1>1, <2>1, GotoMoves
  <2>3. QInv' /\ (Lost => Lost')
    BY <1>0, <2>1, <2>2, MoveFrame
  <2>4. LInv'
    BY <1>0, <2>1, <2>2, <2>3, ThreadFrame DEF Resting
  <2> QED BY <2>3, <2>4 DEF IInv
<1>9. CASE Exit(t)
  <2>1. /\ NotifyMain(t, "dead") /\ UNCHANGED <<queues, locals, marks>>
        /\ at[t] = "exit" \/ (at[t] = "loop" /\ done)
        /\ threads_sleeping' = threads_sleeping + 1 /\ done' = done /\ run_error' = run_error
    BY <1>9 DEF Exit
  <2>2. Moves(t, "dead")
    BY <1>0, <1>1, <2>1, NotifyMainMoves
  <2>3. QInv' /\ (Lost => Lost')
    BY <1>0, <2>1, <2>2, MoveFrame
  <2>4. done
    BY <1>0, <2>1 DEF LInv, Slept
  <2>5. LInv'
    BY <1>0, <2>1, <2>2, <2>3, <2>4, ThreadFrame DEF Resting
  <2> QED BY <2>3, <2>5 DEF IInv
<1>10. CASE SpuriousWakeup(t)
  <2>1. /\ at[t] = "asleep" /\ Goto(t, "woken") /\ UNCHANGED <<queues, locals, marks, pool>>
    BY <1>10 DEF SpuriousWakeup
  <2>2. Moves(t, "woken")
    BY <1>0, <1>1, <2>1, GotoMoves
  <2>3. QInv' /\ (Lost => Lost')
    BY <1>0, <2>1, <2>2, MoveFrame
  <2>4. LInv'
    BY <1>0, <2>1, <2>2, <2>3, ThreadFrame DEF Resting
  <2> QED BY <2>3, <2>4 DEF IInv
<1> QED BY <1>2, <1>3, <1>4, <1>5, <1>6, <1>7, <1>8, <1>9, <1>10 DEF WorkerThread

LEMMA FirstInv ==
  ASSUME IInv, FirstRun \/ FirstRan \/ FirstFailed \/ FirstDone
  PROVE  IInv'
<1> USE DEF queues, pool, locals, marks
<1>0. QInv /\ LInv /\ Types /\ Main \in Workers
  BY WorkerFacts DEF IInv, QInv
<1>1. /\ "run" \in Labels /\ "first" \in Labels /\ "error" \in Labels /\ "spawn" \in Labels /\ "success" \in Labels
  BY DEF Labels, InRun, OfMain
<1>2. CASE FirstRun
  <2>1. /\ at[Main] = "first" /\ Goto(Main, "run") /\ UNCHANGED <<queues, locals, marks>> /\ UNCHANGED pool
    BY <1>2 DEF FirstRun
  <2>2. Moves(Main, "run")
    BY <1>0, <1>1, <2>1, GotoMoves
  <2>3. QInv' /\ (Lost => Lost')
    BY <1>0, <2>1, <2>2, MoveFrame
  <2>4. \A v \in Workers \ {Main} : at'[v] = at[v]
    BY <1>0, <2>1 DEF Goto, Types
  <2>5. LInv'
    BY <1>0, <2>1, <2>2, <2>3, <2>4, RunFrame DEF InRun
  <2> QED BY <2>3, <2>5 DEF IInv
<1>3. CASE FirstRan
  <2>1. /\ at[Main] = "ran" /\ Goto(Main, "first") /\ UNCHANGED <<queues, locals, marks>> /\ UNCHANGED pool
    BY <1>3 DEF FirstRan
  <2>2. Moves(Main, "first")
    BY <1>0, <1>1, <2>1, GotoMoves
  <2>3. QInv' /\ (Lost => Lost')
    BY <1>0, <2>1, <2>2, MoveFrame
  <2>4. \A v \in Workers \ {Main} : at'[v] = at[v]
    BY <1>0, <2>1 DEF Goto, Types
  <2>5. LInv'
    BY <1>0, <2>1, <2>2, <2>3, <2>4, RunFrame DEF InRun
  <2> QED BY <2>3, <2>5 DEF IInv
<1>4. ASSUME NEW label \in {"error", "spawn", "success"}, Goto(Main, label),
             UNCHANGED <<queues, locals, marks>>, UNCHANGED pool,
             at[Main] = IF label = "error" THEN "failed" ELSE "first",
             label = "success" => known_dirs_remaining = 0
      PROVE  IInv'
  <2>1. Moves(Main, label)
    BY <1>0, <1>1, <1>4, GotoMoves
  <2>2. QInv'
    <3>1. at[Main] # "add" /\ label \notin {"visit", "add"} /\ at[Main] # "visit" /\ at[Main] # "error"
      BY <1>4
    <3> QED BY <1>0, <1>4, <2>1, <3>1, MoveFrame
  <2>3. ~done /\ ~run_error /\ Unborn = WorkerThreads /\ WorkerThreads # {}
    BY <1>0, <1>4, TraverseAssumption DEF LInv, Alone, InRun
  <2>4. at'[Main] = label /\ \A t \in WorkerThreads : at'[t] = at[t] /\ at[t] = "none"
    BY <1>0, <1>4, <2>3, WorkerFacts DEF Goto, Types, Unborn
  <2>5. Unborn' = WorkerThreads /\ Sleepers' = Sleepers
    BY <2>4 DEF Unborn, Sleepers
  <2>6. Alone'
    BY <1>4, <2>3, <2>4, <2>5 DEF Alone, InRun
  <2>7. Slept'
    BY <1>0, <1>4, <2>3, <2>4, <2>5 DEF LInv, Slept, Resting
  <2>8. Drained'
    BY <1>4, <2>3 DEF Drained
  <2>9. Returning'
    <3>1. \A t \in WorkerThreads : at'[t] \in {"none", "dead"}
      BY <2>4
    <3>2. label = "success" => ~Lost'
      BY <1>4, <2>3, <2>4 DEF Lost, Workers
    <3> QED BY <1>4, <2>4, <3>1, <3>2 DEF Returning
  <2> QED BY <2>2, <2>6, <2>7, <2>8, <2>9 DEF IInv, LInv
<1>5. CASE FirstFailed
  <2>1. /\ at[Main] = "failed" /\ Goto(Main, "error") /\ UNCHANGED <<queues, locals, marks>> /\ UNCHANGED pool
    BY <1>5 DEF FirstFailed
  <2> QED BY <1>4, <2>1
<1>6. CASE FirstDone
  <2>1. known_dirs_remaining \in Nat
    BY <1>0, FiniteFound DEF QInv, Counts, Tracked
  <2>2. /\ at[Main] = "first" /\ UNCHANGED <<queues, locals, marks>> /\ UNCHANGED pool
        /\ Goto(Main, IF known_dirs_remaining > 0 THEN "spawn" ELSE "success")
    BY <1>6 DEF FirstDone
  <2>3. CASE known_dirs_remaining > 0
    <3>1. Goto(Main, "spawn")
      BY <2>2, <2>3
    <3> QED BY <1>4, <2>2, <3>1
  <2>4. CASE ~(known_dirs_remaining > 0)
    <3>1. Goto(Main, "success") /\ known_dirs_remaining = 0
      BY <2>1, <2>2, <2>4
    <3> QED BY <1>4, <2>2, <3>1
  <2> QED BY <2>3, <2>4
<1> QED BY <1>2, <1>3, <1>5, <1>6

LEMMA SpawnInv ==
  ASSUME IInv, NEW t \in WorkerThreads, Spawn(t)
  PROVE  IInv'
<1> USE DEF queues, pool, locals, marks
<1>0. QInv /\ LInv /\ Types /\ Main \in Workers /\ t \in Workers /\ t # Main
  BY WorkerFacts DEF IInv, QInv
<1>1. /\ at[Main] = "spawn" /\ at[t] = "none" /\ UNCHANGED <<queues, locals, marks>> /\ UNCHANGED pool
      /\ at' = [at EXCEPT ![t] = "begin", ![Main] = IF Unborn = {t} THEN "wait" ELSE at[Main]]
  BY <1>0 DEF Spawn, Unborn
<1>2. "begin" \in Labels /\ "wait" \in Labels /\ at \in [Workers -> Labels]
  BY <1>0 DEF Labels, OfThread, OfMain, Types
<1>3. /\ at' \in [Workers -> Labels] /\ at'[t] = "begin"
      /\ at'[Main] = (IF Unborn = {t} THEN "wait" ELSE "spawn")
      /\ \A v \in Workers \ {t, Main} : at'[v] = at[v]
  <2> HIDE DEF Labels
  <2> QED BY <1>0, <1>1, <1>2
<1>4. Lost' <=> Lost
  <2>1. \A v \in Workers : at'[v] = "failed" <=> at[v] = "failed"
    BY <1>1, <1>3
  <2> QED BY <1>1, <1>3, <2>1 DEF Lost
<1>5. QInv'
  <2>1. \A v \in Workers : /\ at'[v] = "visit" <=> at[v] = "visit"
                           /\ at'[v] = "add" <=> at[v] = "add"
    BY <1>1, <1>3
  <2> QED BY <1>0, <1>1, <1>3, <1>4, <2>1, QueueFrame
<1>6. Unborn' = Unborn \ {t} /\ t \in Unborn
  BY <1>0, <1>1, <1>3, WorkerFacts DEF Unborn
<1>7. Sleepers' = Sleepers
  BY <1>0, <1>1, <1>3, WorkerFacts DEF Sleepers, Resting
<1>8. Alone /\ Slept /\ Drained /\ Returning
  BY <1>0 DEF LInv
<1>9. done => run_error
  BY <1>1, <1>8 DEF Alone
<1>10. Alone'
  BY <1>1, <1>3, <1>6, <1>9 DEF Alone, InRun
<1>11. Slept'
  <2>1. \A u \in WorkerThreads : at'[u] \in {"exit", "dead"} => at[u] \in {"exit", "dead"}
    BY <1>0, <1>3, WorkerFacts
  <2> QED BY <1>1, <1>3, <1>7, <1>8, <2>1 DEF Slept, Resting
<1>12. Drained'
  BY <1>1, <1>9 DEF Drained, Lost
<1>13. Returning'
  BY <1>3 DEF Returning, Returned
<1> QED BY <1>5, <1>10, <1>11, <1>12, <1>13 DEF IInv, LInv

(* When everybody sleeps and nobody has been told to stop, nothing is left. *)
LEMMA AllAsleep ==
  ASSUME LInv, ~done, threads_sleeping >= Cardinality(WorkerThreads)
  PROVE  known_dirs_remaining = 0 /\ \A t \in WorkerThreads : at[t] \in Resting
<1>1. Slept
  BY DEF LInv
<1>2. Sleepers \in SUBSET WorkerThreads
  BY DEF Sleepers
<1>3. Cardinality(Sleepers) <= Cardinality(WorkerThreads) /\ (Cardinality(WorkerThreads) = Cardinality(Sleepers) => WorkerThreads = Sleepers)
  BY <1>2, SleeperFacts, FS_Subset
<1>4. WorkerThreads = Sleepers
  BY <1>1, <1>3, SleeperFacts DEF Slept
<1>5. \A t \in WorkerThreads : at[t] \in Resting
  BY <1>1, <1>4 DEF Slept, Sleepers
<1> QED BY <1>1, <1>5 DEF Slept

LEMMA CallerInv ==
  ASSUME IInv, SpawnFails \/ HandleFailure \/ Wait \/ Waited \/ Drain \/ Notify \/ Relock \/ MainSpuriousWakeup
  PROVE  IInv'
<1> USE DEF queues, pool, locals, marks
<1>0. QInv /\ LInv /\ Types /\ Main \in Workers
  BY WorkerFacts DEF IInv, QInv
<1>1. OfMain \subseteq Labels
  BY DEF Labels
<1>2. ASSUME NEW label \in OfMain \ {"first", "success", "error"}, Moves(Main, label),
             at[Main] \in OfMain \ {"first", "success", "error"},
             UNCHANGED <<queues, locals, marks>>, threads_sleeping' = threads_sleeping,
             run_error' = run_error, done => done',
             done' /\ ~done /\ Unborn = {} => known_dirs_remaining = 0 /\ \A t \in WorkerThreads : at[t] \in Resting,
             label \in {"spawn", "failing"} => at[Main] = "spawn" /\ done' = done
      PROVE  IInv'
  <2>1. /\ at[Main] # "add" /\ at[Main] # "visit" /\ at[Main] # "failed" /\ at[Main] # "error"
        /\ label \notin {"visit", "add"}
    BY <1>2 DEF OfMain
  <2>2. QInv'
    BY <1>0, <1>2, <2>1, MoveFrame
  <2>3. LInv'
    BY <1>0, <1>2, CallerFrame
  <2> QED BY <2>2, <2>3 DEF IInv
<1>3. CASE SpawnFails
  <2>1. /\ at[Main] = "spawn" /\ Goto(Main, "failing") /\ UNCHANGED <<queues, locals, marks>> /\ UNCHANGED pool
    BY <1>3 DEF SpawnFails
  <2>2. Moves(Main, "failing")
    BY <1>0, <1>1, <2>1, GotoMoves DEF OfMain
  <2> QED BY <1>2, <2>1, <2>2 DEF OfMain
<1>4. CASE HandleFailure
  <2>1. /\ at[Main] = "failing" /\ Goto(Main, "drain") /\ UNCHANGED <<queues, locals, marks>>
        /\ done' /\ threads_sleeping' = threads_sleeping /\ run_error' = run_error
    BY <1>4 DEF HandleFailure
  <2>2. Moves(Main, "drain")
    BY <1>0, <1>1, <2>1, GotoMoves DEF OfMain
  <2>3. Unborn # {}
    BY <1>0, <2>1 DEF LInv, Alone
  <2> QED BY <1>2, <2>1, <2>2, <2>3 DEF OfMain
<1>5. CASE Wait
  <2>1. /\ at[Main] \in {"wait", "notified"} /\ Goto(Main, "waiting") /\ UNCHANGED <<queues, locals, marks>> /\ UNCHANGED pool
    BY <1>5 DEF Wait
  <2>2. Moves(Main, "waiting")
    BY <1>0, <1>1, <2>1, GotoMoves DEF OfMain
  <2> QED BY <1>2, <2>1, <2>2 DEF OfMain
<1>6. CASE Waited
  <2>1. /\ at[Main] \in {"wait", "notified"} /\ Goto(Main, "drain") /\ UNCHANGED <<queues, locals, marks>>
        /\ threads_sleeping >= Cardinality(WorkerThreads) \/ done
        /\ done' /\ threads_sleeping' = threads_sleeping /\ run_error' = run_error
    BY <1>6 DEF Waited
  <2>2. Moves(Main, "drain")
    BY <1>0, <1>1, <2>1, GotoMoves DEF OfMain
  <2>3. ~done => known_dirs_remaining = 0 /\ \A t \in WorkerThreads : at[t] \in Resting
    BY <1>0, <2>1, AllAsleep
  <2> QED BY <1>2, <2>1, <2>2, <2>3 DEF OfMain
<1>7. CASE MainSpuriousWakeup
  <2>1. /\ at[Main] = "waiting" /\ Goto(Main, "notified") /\ UNCHANGED <<queues, locals, marks>> /\ UNCHANGED pool
    BY <1>7 DEF MainSpuriousWakeup
  <2>2. Moves(Main, "notified")
    BY <1>0, <1>1, <2>1, GotoMoves DEF OfMain
  <2> QED BY <1>2, <2>1, <2>2 DEF OfMain
<1>8. CASE Drain
  <2>1. /\ at[Main] = "drain" /\ UNCHANGED <<queues, locals, marks>> /\ UNCHANGED pool
        /\ Goto(Main, "notify") \/ Goto(Main, "join")
    BY <1>8 DEF Drain
  <2>2. CASE Goto(Main, "notify")
    <3>1. Moves(Main, "notify")
      BY <1>0, <1>1, <2>2, GotoMoves DEF OfMain
    <3> QED BY <1>2, <2>1, <3>1 DEF OfMain
  <2>3. CASE Goto(Main, "join")
    <3>1. Moves(Main, "join")
      BY <1>0, <1>1, <2>3, GotoMoves DEF OfMain
    <3> QED BY <1>2, <2>1, <3>1 DEF OfMain
  <2> QED BY <2>1, <2>2, <2>3
<1>9. CASE Notify
  <2>1. /\ at[Main] = "notify" /\ NotifyThreads(Main, "relock") /\ UNCHANGED <<queues, locals, marks>> /\ UNCHANGED pool
    BY <1>9 DEF Notify
  <2>2. Moves(Main, "relock")
    BY <1>0, <1>1, <2>1, NotifyThreadsMoves DEF OfMain
  <2> QED BY <1>2, <2>1, <2>2 DEF OfMain
<1>10. CASE Relock
  <2>1. /\ at[Main] = "relock" /\ Goto(Main, "drain") /\ UNCHANGED <<queues, locals, marks>> /\ UNCHANGED pool
    BY <1>10 DEF Relock
  <2>2. Moves(Main, "drain")
    BY <1>0, <1>1, <2>1, GotoMoves DEF OfMain
  <2> QED BY <1>2, <2>1, <2>2 DEF OfMain
<1> QED BY <1>3, <1>4, <1>5, <1>6, <1>7, <1>8, <1>9, <1>10

LEMMA JoinInv ==
  ASSUME IInv, Join
  PROVE  IInv'
<1> USE DEF queues, pool, locals, marks
<1>0. QInv /\ LInv /\ Types /\ Main \in Workers
  BY WorkerFacts DEF IInv, QInv
<1>1. /\ at[Main] = "join" /\ UNCHANGED <<queues, locals, marks>> /\ UNCHANGED pool
      /\ \A t \in WorkerThreads : at[t] \in {"none", "dead"}
      /\ Goto(Main, IF run_error \/ Unborn # {} THEN "error" ELSE "success")
  BY DEF Join
<1>2. PICK label \in {"error", "success"} : Goto(Main, label) /\ (label = "success" => ~run_error /\ Unborn = {})
  BY <1>1
<1>3. Moves(Main, label)
  BY <1>0, <1>2, GotoMoves DEF Labels, OfMain
<1>4. QInv'
  BY <1>0, <1>1, <1>2, <1>3, MoveFrame
<1>5. at'[Main] = label /\ \A t \in WorkerThreads : at'[t] = at[t]
  BY <1>0, <1>2, WorkerFacts DEF Goto, Types
<1>6. Unborn' = Unborn /\ Sleepers' = Sleepers
  BY <1>5 DEF Unborn, Sleepers
<1>7. Alone /\ Slept /\ Drained /\ Returning
  BY <1>0 DEF LInv
<1>8. \A v \in Workers : at[v] # "failed" /\ at'[v] # "failed"
  BY <1>1, <1>2, <1>5 DEF Workers
<1>9. Lost => Lost'
  BY <1>1, <1>8 DEF Lost
<1>10. Alone'
  BY <1>5 DEF Alone, InRun
<1>11. Slept'
  BY <1>1, <1>5, <1>6, <1>7 DEF Slept
<1>12. Drained'
  BY <1>1, <1>5, <1>6, <1>7, <1>9 DEF Drained
<1>13. Returning'
  <2>1. \A t \in WorkerThreads : at'[t] \in {"none", "dead"}
    BY <1>1, <1>5
  <2>2. ASSUME label = "success" PROVE known_dirs_remaining = 0 /\ ~Lost'
    <3>1. ~Lost /\ ~Lost' /\ Unborn = {}
      BY <1>1, <1>2, <1>5, <1>8, <2>2 DEF Lost
    <3>2. PICK t \in WorkerThreads : at[t] = "dead"
      BY <1>1, <3>1, TraverseAssumption DEF Unborn
    <3>3. done
      BY <1>7, <3>2 DEF Slept
    <3> QED BY <1>7, <3>1, <3>3 DEF Drained
  <2> QED BY <1>1, <1>5, <2>1, <2>2 DEF Returning
<1> QED BY <1>4, <1>10, <1>11, <1>12, <1>13 DEF IInv, LInv

LEMMA InitInv == TraverseInit => IInv
<1> SUFFICES ASSUME TraverseInit PROVE IInv
  OBVIOUS
<1>1. /\ workqueue = << <<Root>> >> /\ workqueue_base = 1
      /\ known_dirs_remaining = 1 /\ dirs_processed = 0
      /\ threads_sleeping = 0 /\ done = FALSE /\ run_error = FALSE
      /\ at = [w \in Workers |-> IF w = Main THEN "first" ELSE "none"]
      /\ work = [w \in Workers |-> Nobody] /\ level = [w \in Workers |-> 0]
      /\ newwork = [w \in Workers |-> << >>]
      /\ found = {Root} /\ visits = [d \in Directories |-> 0]
  BY DEF TraverseInit
<1>2. Root \in Directories /\ WorkerThreads # {} /\ Subdirs \in [Directories -> SUBSET (Directories \ {Root})]
  BY TraverseAssumption
<1>3. /\ \A w \in Workers : at[w] = IF w = Main THEN "first" ELSE "none"
      /\ at \in [Workers -> Labels]
  BY <1>1 DEF Labels, OfMain, OfThread
<1>4. at[Main] = "first" /\ \A t \in WorkerThreads : at[t] = "none"
  BY <1>3, WorkerFacts
<1>5. \A w \in Workers : at[w] \in {"first", "none"}
  BY <1>3
<1>6. Unborn = WorkerThreads /\ Sleepers = {}
  BY <1>4 DEF Unborn, Sleepers, Resting
<1>7. ~Lost
  BY <1>1, <1>4, <1>5 DEF Lost
<1>8. LInv
  <2>1. threads_sleeping = Cardinality(Sleepers)
    BY <1>1, <1>6, FS_EmptySet
  <2>2. Alone
    BY <1>1, <1>4, <1>6 DEF Alone
  <2>3. Slept
    BY <1>2, <1>4, <2>1 DEF Slept, Resting
  <2>4. Drained
    BY <1>1 DEF Drained
  <2>5. Returning
    BY <1>4 DEF Returning, Returned
  <2> QED BY <2>2, <2>3, <2>4, <2>5 DEF LInv
<1>9. Types
  <2>1. workqueue \in Seq(Seq(Directories))
    <3>1. <<Root>> \in Seq(Directories)
      BY <1>2
    <3> DEFINE T == Seq(Directories)
               r == <<Root>>
    <3>2. r \in T /\ workqueue = <<r>>
      BY <1>1, <3>1
    <3> HIDE DEF T, r
    <3>3. workqueue \in Seq(T)
      BY <3>2
    <3> QED BY <3>3 DEF T
  <2>2. newwork \in [Workers -> Seq(Directories)]
    <3> DEFINE T == Seq(Directories)
    <3>1. << >> \in T
      OBVIOUS
    <3> HIDE DEF T
    <3>2. newwork \in [Workers -> T]
      BY <1>1, <3>1
    <3> QED BY <3>2 DEF T
  <2> QED BY <1>1, <1>2, <1>3, <2>1, <2>2 DEF Types
<1>10. /\ DOMAIN workqueue = {1} /\ workqueue[1] = <<Root>>
       /\ Range(<<Root>>) = {Root} /\ IsInjective(<<Root>>)
       /\ Range(<< >>) = {} /\ IsInjective(<< >>)
  <2>1. DOMAIN workqueue = {1} /\ workqueue[1] = <<Root>>
    BY <1>1
  <2>2. Range(<<Root>>) = {Root} /\ IsInjective(<<Root>>)
    BY DEF Range, IsInjective
  <2>3. Range(<< >>) = {} /\ IsInjective(<< >>)
    BY DEF Range, IsInjective
  <2> QED BY <2>1, <2>2, <2>3
<1>11. DOMAIN newwork = Workers /\ \A w \in Workers : newwork[w] = << >>
  BY <1>1
<1>12. Queued = {Root} /\ NoRepeats(workqueue)
  BY <1>10 DEF Queued, All, NoRepeats
<1>13. Adding = {} /\ NoRepeats(newwork)
  BY <1>10, <1>11 DEF Adding, All, NoRepeats
<1>14. Visiting = {} /\ Seen = {}
  BY <1>1, <1>5 DEF Visiting, Seen
<1>15. Apart
  BY <1>12, <1>13, <1>14 DEF Apart
<1>16. Once
  BY <1>1, <1>5, <1>11, <1>12, <1>13 DEF Once
<1>17. Tracked
  BY <1>1, <1>12, <1>13, <1>14 DEF Tracked
<1>18. Parents
  BY <1>1, <1>2 DEF Parents
<1>19. Counts
  <2>1. Cardinality({Root}) = 1 /\ Cardinality({}) = 0
    BY FS_Singleton, FS_EmptySet
  <2>2. found \ (Queued \cup Adding) = {}
    BY <1>1, <1>12
  <2> QED BY <1>1, <1>12, <2>1, <2>2 DEF Counts
<1>20. Levels
  BY <1>1, <1>5, <1>10 DEF Levels
<1> QED BY <1>8, <1>9, <1>15, <1>16, <1>17, <1>18, <1>19, <1>20 DEF IInv, QInv

LEMMA StutterInv ==
  ASSUME IInv, UNCHANGED traverse_vars
  PROVE  IInv'
<1>1. /\ workqueue' = workqueue /\ workqueue_base' = workqueue_base
      /\ known_dirs_remaining' = known_dirs_remaining /\ dirs_processed' = dirs_processed
      /\ work' = work /\ level' = level /\ newwork' = newwork /\ found' = found /\ visits' = visits
      /\ threads_sleeping' = threads_sleeping /\ done' = done /\ run_error' = run_error /\ at' = at
  BY DEF traverse_vars, queues, pool, locals, marks
<1>2. Lost' <=> Lost
  BY <1>1 DEF Lost
<1>3. QInv'
  <2>1. QInv /\ at \in [Workers -> Labels]
    BY DEF IInv, QInv, Types
  <2> QED BY <1>1, <1>2, <2>1, QueueFrame DEF queues, locals, marks
<1>4. Unborn' = Unborn /\ Sleepers' = Sleepers /\ (Returned' <=> Returned)
  BY <1>1 DEF Unborn, Sleepers, Returned
<1>5. LInv'
  BY <1>1, <1>2, <1>4 DEF IInv, LInv, Alone, Slept, Drained, Returning
<1> QED BY <1>3, <1>5 DEF IInv

LEMMA NextInv ==
  ASSUME IInv, [TraverseNext]_traverse_vars
  PROVE  IInv'
<1>1. ASSUME NEW w \in Workers, Run(w) PROVE IInv'
  BY <1>1, RunInv
<1>2. ASSUME NEW t \in WorkerThreads, WorkerThread(t) \/ SpuriousWakeup(t) PROVE IInv'
  BY <1>2, ThreadInv
<1>3. CASE Caller
  <2>1. CASE FirstRun \/ FirstRan \/ FirstFailed \/ FirstDone
    BY <2>1, FirstInv
  <2>2. ASSUME NEW t \in WorkerThreads, Spawn(t) PROVE IInv'
    BY <2>2, SpawnInv
  <2>3. CASE SpawnFails \/ HandleFailure \/ Wait \/ Waited \/ Drain \/ Notify \/ Relock
    BY <2>3, CallerInv
  <2>4. CASE Join
    BY <2>4, JoinInv
  <2> QED BY <1>3, <2>1, <2>2, <2>3, <2>4 DEF Caller
<1>4. CASE MainSpuriousWakeup
  BY <1>4, CallerInv
<1>5. CASE UNCHANGED traverse_vars
  BY <1>5, StutterInv
<1> QED BY <1>1, <1>2, <1>3, <1>4, <1>5 DEF TraverseNext, Step

(* The inductive invariant holds throughout: every directory found is in   *)
(* exactly one of the lists, the hands of a worker or the visited ones,    *)
(* the counters count them, and threads sleep only when none remains. *)
THEOREM Invariant == TraverseSpec => []IInv
<1>1. TraverseInit => IInv
  BY InitInv
<1>2. IInv /\ [TraverseNext]_traverse_vars => IInv'
  BY NextInv
<1> QED BY <1>1, <1>2, PTL DEF TraverseSpec

(* traverse() does not stop early: when it succeeds, whatever the tree,    *)
(* the number of threads and their interleaving, the lists are empty,      *)
(* every directory found has been visited exactly once, and the number     *)
(* returned is theirs. *)
THEOREM CompleteHolds == TraverseSpec => []Complete
<1>1. IInv => Complete
  <2> SUFFICES ASSUME IInv, at[Main] = "success"
               PROVE  /\ \A l \in DOMAIN workqueue : workqueue[l] = << >>
                      /\ \A d \in found : visits[d] = 1
                      /\ dirs_processed = Cardinality(found)
    BY DEF Complete
  <2>0. Types /\ Once /\ Tracked /\ Counts
    BY DEF IInv, QInv
  <2>1. known_dirs_remaining = 0 /\ ~Lost /\ \A t \in WorkerThreads : at[t] \in {"none", "dead"}
    BY DEF IInv, LInv, Returning, Returned
  <2>2. Queued = {}
    <3>1. IsFiniteSet(Queued) /\ Cardinality(Queued) = 0
      BY <2>0, <2>1, FiniteFound DEF Tracked, Counts
    <3> QED BY <3>1, FS_EmptySet
  <2>3. ASSUME NEW l \in DOMAIN workqueue PROVE workqueue[l] = << >>
    <3>1. workqueue[l] \in Seq(Directories)
      BY <2>0, QueueFacts
    <3>2. Range(workqueue[l]) = {}
      BY <2>2 DEF Queued, All
    <3> DEFINE s == workqueue[l]
    <3>3. s \in Seq(Directories) /\ \A k \in 1..Len(s) : s[k] \in Range(s)
      BY <3>1 DEF Range
    <3> HIDE DEF s
    <3>4. Len(s) = 0
      <4>1. Len(s) \in Nat /\ ~(1 \in 1..Len(s))
        BY <3>2, <3>3 DEF s
      <4> QED BY <4>1
    <3>5. s = << >>
      BY <3>3, <3>4
    <3> QED BY <3>5 DEF s
  <2>4. \A w \in Workers : at[w] # "add" /\ at[w] # "visit"
    BY <2>1 DEF Workers
  <2>5. Adding = {} /\ Visiting = {}
    <3>1. Range(<< >>) = {}
      BY DEF Range
    <3>2. DOMAIN newwork = Workers /\ \A w \in Workers : newwork[w] = << >>
      BY <2>0, <2>4, QueueFacts DEF Once
    <3>3. Adding = {}
      BY <3>1, <3>2 DEF Adding, All
    <3> QED BY <2>4, <3>3 DEF Visiting
  <2>6. \A d \in found : visits[d] = 1
    BY <2>0, <2>1, <2>2, <2>5 DEF Tracked, Once, Seen
  <2>7. dirs_processed = Cardinality(found)
    <3>1. found \ (Queued \cup Adding) = found
      BY <2>2, <2>5
    <3> QED BY <2>0, <3>1 DEF Counts
  <2> QED BY <2>3, <2>6, <2>7
<1> QED BY <1>1, Invariant, PTL

(* When traverse() returns, whatever the result, every thread that was     *)
(* started has ended: none is left that could use the state on its stack. *)
THEOREM QuiescentHolds == TraverseSpec => []Quiescent
<1>1. IInv => Quiescent
  BY DEF IInv, LInv, Returning, Quiescent
<1> QED BY <1>1, Invariant, PTL

(* A thread that finds known_dirs_remaining zero and sleeps misses nothing *)
(* run() would have found, and one that is woken finds the lists from      *)
(* workqueue_base on, though others have raised and lowered it since. *)
THEOREM QueueSoundHolds == TraverseSpec => []QueueSound
<1>1. IInv => QueueSound
  <2> SUFFICES ASSUME IInv PROVE QueueSound
    OBVIOUS
  <2>0. Types /\ Tracked /\ Counts /\ Levels
    BY DEF IInv, QInv
  <2>1. IsFiniteSet(Queued) /\ Cardinality(Queued) \in Nat /\ known_dirs_remaining = Cardinality(Queued)
    BY <2>0, FiniteFound DEF Tracked, Counts
  <2>2. known_dirs_remaining > 0 <=> Queued # {}
    BY <2>1, FS_EmptySet
  <2>3. /\ Len(workqueue) \in Nat /\ DOMAIN workqueue = 1..Len(workqueue)
        /\ \A l \in DOMAIN workqueue : workqueue[l] \in Seq(Directories)
        /\ workqueue_base \in 1..Len(workqueue)
    BY <2>0, QueueFacts DEF Levels
  <2>4. ASSUME NEW l \in NonEmpty PROVE Queued # {}
    <3> DEFINE s == workqueue[l]
    <3>1. l \in DOMAIN workqueue /\ s \in Seq(Directories) /\ s # << >>
      BY <2>3 DEF NonEmpty
    <3>2. s[1] \in Range(s)
      <4> HIDE DEF s
      <4> QED BY <3>1 DEF Range
    <3> QED BY <3>1, <3>2 DEF Queued, All
  <2>5. ASSUME Queued # {} PROVE NonEmpty # {}
    <3>1. PICK l \in DOMAIN workqueue : Range(workqueue[l]) # {}
      BY <2>5 DEF Queued, All
    <3>2. Range(<< >>) = {}
      BY DEF Range
    <3>3. workqueue[l] # << >>
      BY <3>1, <3>2
    <3>4. l \notin 1..workqueue_base - 1
      BY <2>0, <3>3 DEF Levels
    <3>5. l \in workqueue_base..Len(workqueue)
      BY <2>3, <3>4
    <3> QED BY <3>3, <3>5 DEF NonEmpty
  <2> QED BY <2>2, <2>4, <2>5 DEF QueueSound
<1> QED BY <1>1, Invariant, PTL

-----------------------------------------------------------------------------
(* Reduce: what is in the directory itself                                 *)

\* Thread t has still to read Top, or has in contents all that is in it.
Watches(t) ==
  /\ LastOf(path[t]) = Top
  /\ pc[t] = "read" \/ (pc[t] = "remove" /\ In(Top) \subseteq contents[t])

\* What is in Top is known to be nothing, or others put it there unseen.
Settled == unseen \/ In(Top) = {}

\* While nothing has failed, Top is still to be visited, or somebody has what is in it.
Pursued ==
  stage = "traverse" /\ ~not_removed =>
    Settled \/ << >> \in todo \/ \E t \in Threads : Watches(t)

Cleared == stage = "unlink" => Settled
Quiet == stage # "traverse" => Idle
Ended == outcome # "none" => stage = "done"

Ind == TypeOK /\ Pursued /\ Cleared /\ Quiet /\ Ended /\ FailsForAReason

-----------------------------------------------------------------------------
(* Types                                                                   *)

LEMMA EmptyPath == << >> \in Seq(Dirs)
  OBVIOUS

LEMMA InitType == Init => TypeOK
<1> SUFFICES ASSUME Init PROVE TypeOK
  OBVIOUS
<1>1. parent \in [Entries -> Dirs \cup {None}] /\ stuck \subseteq Entries
  BY ReduceAssumption DEF Init
<1>2. path \in [Threads -> Seq(Dirs)]
  BY EmptyPath DEF Init
<1>3. contents \in [Threads -> SUBSET Entries] /\ kept \in [Threads -> SUBSET Dirs]
  BY DEF Init
<1>4. moves \in 0..MaxMoves
  BY ReduceAssumption DEF Init
<1> QED
  BY <1>1, <1>2, <1>3, <1>4 DEF Init, TypeOK

\* Every step of reduce() itself and of the clock keeps the types.
LEMMA MainType ==
  ASSUME TypeOK, Reducer \/ TraverseFails \/ Elapse \/ Done
  PROVE  TypeOK'
<1>1. CASE Hide
  BY <1>1 DEF Hide, TypeOK, tree, workers, timer, history
<1>2. CASE Round
  BY <1>2, EmptyPath DEF Round, TypeOK, tree, workers, timer
<1>3. CASE RoundEnds
  BY <1>3 DEF RoundEnds, Finish, TypeOK, tree, workers, history
<1>4. CASE UnlinkTop
  BY <1>4 DEF UnlinkTop, Finish, TypeOK, tree, workers, timer, history
<1>5. CASE TraverseFails
  BY <1>5 DEF TraverseFails, Finish, TypeOK, tree, workers, timer, history
<1>6. CASE Elapse
  BY <1>6 DEF Elapse, TypeOK, tree, workers, history
<1>7. CASE Done
  BY <1>7 DEF Done, TypeOK, vars, tree, workers, timer, history
<1> QED
  BY <1>1, <1>2, <1>3, <1>4, <1>5, <1>6, <1>7 DEF Reducer

\* Every step of a thread keeps the types.
LEMMA ThreadType ==
  ASSUME TypeOK, NEW t \in Threads, Thread(t)
  PROVE  TypeOK'
<1>1. CASE Open(t)
  BY <1>1 DEF Open, TypeOK, tree, timer, history
<1>2. CASE OpenFails(t)
  <2>1. not_removed' \in BOOLEAN
    BY <1>2 DEF OpenFails, TypeOK
  <2> QED
    BY <1>2, <2>1 DEF OpenFails, TypeOK, tree, workers, timer, history
<1>3. CASE Read(t)
  <2>1. unseen' \in BOOLEAN
    BY <1>3 DEF Read
  <2> QED
    BY <1>3, <2>1 DEF Read, In, TypeOK, tree, timer
<1>4. CASE AddWork(t)
  <2>1. path[t] \in Seq(Dirs) /\ kept[t] \subseteq Dirs
    BY DEF TypeOK
  <2>2. \A e \in kept[t] : Append(path[t], e) \in Seq(Dirs)
    BY <2>1
  <2>3. todo' \subseteq Seq(Dirs)
    BY <1>4, <2>2 DEF AddWork, TypeOK
  <2> QED
    BY <1>4, <2>3, EmptyPath DEF AddWork, TypeOK, tree, timer, history
<1>5. ASSUME NEW e \in Entries, RemoveEntry(t, e) PROVE TypeOK'
  <2>1. /\ parent' \in [Entries -> Dirs \cup {None}]
        /\ gone' \subseteq Entries
    BY <1>5 DEF RemoveEntry, Unlinkat, TypeOK, tree
  <2>2. /\ contents' \in [Threads -> SUBSET Entries]
        /\ kept' \in [Threads -> SUBSET Dirs]
    BY <1>5 DEF RemoveEntry, Taken, TypeOK
  <2>3. \/ items_removed' = items_removed + 1 /\ not_removed' = not_removed
        \/ items_removed' = items_removed /\ not_removed' = TRUE
    BY <1>5 DEF RemoveEntry
  <2>4. items_removed' \in Nat
    BY <2>3 DEF TypeOK
  <2>5. not_removed' \in BOOLEAN
    BY <2>3, Zenon DEF TypeOK
  <2>6. /\ UNCHANGED <<stuck, renamed, stage, outcome, todo, pc, path, begun, late, moves>>
        /\ UNCHANGED <<before, disturbed, unseen, moved>>
    BY <1>5 DEF RemoveEntry, timer, history
  <2> QED
    BY <2>1, <2>2, <2>4, <2>5, <2>6 DEF TypeOK
<1> QED
  BY <1>1, <1>2, <1>3, <1>4, <1>5 DEF Thread

\* Whatever others do keeps the types.
LEMMA OthersType ==
  ASSUME TypeOK, Others
  PROVE  TypeOK'
<1>1. ASSUME NEW d, Meddle(d)
      PROVE  moves' \in 0..MaxMoves /\ unseen' \in BOOLEAN /\ disturbed' \in BOOLEAN
  BY <1>1, ReduceAssumption DEF Meddle, TypeOK
<1>2. ASSUME NEW e \in Entries, OthersRemove(e) PROVE TypeOK'
  BY <1>1, <1>2 DEF OthersRemove, Meddle, TypeOK, workers, timer
<1>3. ASSUME NEW e \in Entries, NEW d \in Dirs, OthersAdd(e, d) PROVE TypeOK'
  BY <1>1, <1>3 DEF OthersAdd, Meddle, TypeOK, workers, timer
<1>4. ASSUME NEW e \in Entries, NEW d \in Dirs, OthersMove(e, d) PROVE TypeOK'
  BY <1>1, <1>4 DEF OthersMove, Meddle, TypeOK, workers, timer
<1> QED
  BY <1>2, <1>3, <1>4 DEF Others

LEMMA NextType == TypeOK /\ [Next]_vars => TypeOK'
<1> SUFFICES ASSUME TypeOK, [Next]_vars PROVE TypeOK'
  OBVIOUS
<1>1. CASE UNCHANGED vars
  BY <1>1 DEF TypeOK, vars, tree, workers, timer, history
<1> QED
  BY <1>1, MainType, ThreadType, OthersType DEF Next

\* The variables of reduce() keep their types.
THEOREM TypeCorrect == Spec => []TypeOK
  BY InitType, NextType, PTL DEF Spec

-----------------------------------------------------------------------------
(* The invariant                                                           *)

LEMMA InitInd == Init => Ind
<1> SUFFICES ASSUME Init PROVE Ind
  OBVIOUS
<1>1. Pursued /\ Cleared /\ Ended /\ FailsForAReason
  BY DEF Init, Pursued, Cleared, Ended, FailsForAReason
<1>2. Quiet
  BY DEF Init, Quiet, Idle
<1> QED
  BY <1>1, <1>2, InitType DEF Ind

\* Every step of reduce() itself and of the clock keeps the invariant.
LEMMA MainInd ==
  ASSUME Ind, Reducer \/ TraverseFails \/ Elapse \/ Done
  PROVE  Pursued' /\ Cleared' /\ Quiet' /\ Ended' /\ FailsForAReason'
<1> USE DEF Ind
<1>1. CASE Hide
  BY <1>1 DEF Hide, Pursued, Cleared, Quiet, Idle, Ended, FailsForAReason, workers, history
<1>2. CASE Round
  BY <1>2 DEF Round, Pursued, Cleared, Quiet, Ended, FailsForAReason
<1>3. CASE RoundEnds
  <2>1. Idle' /\ (Settled <=> Settled') /\ outcome = "none" /\ unseen' = unseen
    BY <1>3 DEF RoundEnds, Idle, Settled, In, Ended, tree, workers, history
  <2>2. ~not_removed => Settled
    BY <1>3 DEF RoundEnds, Pursued, Idle, Watches
  <2> QED
    BY <1>3, <2>1, <2>2
    DEF RoundEnds, Finish, Pursued, Cleared, Quiet, Ended, FailsForAReason
<1>4. CASE UnlinkTop
  BY <1>4 DEF UnlinkTop, Finish, Pursued, Cleared, Settled, Quiet, Idle, Ended,
              FailsForAReason, workers, history
<1>5. CASE TraverseFails
  BY <1>5 DEF TraverseFails, Finish, Pursued, Cleared, Quiet, Idle, Ended, FailsForAReason,
              workers
<1>6. CASE Elapse
  BY <1>6 DEF Elapse, Pursued, Cleared, Settled, In, Watches, LastOf, Quiet, Idle, Ended,
              FailsForAReason, tree, workers, history
<1>7. CASE Done
  BY <1>7 DEF Done, Pursued, Cleared, Settled, In, Watches, LastOf, Quiet, Idle, Ended,
              FailsForAReason, vars, tree, workers, history
<1> QED
  BY <1>1, <1>2, <1>3, <1>4, <1>5, <1>6, <1>7 DEF Reducer

\* As long as nothing enters Top, a thread that took no step watches it as before.
LEMMA StillWatches ==
  ASSUME NEW u, Watches(u), In(Top)' \subseteq In(Top),
         pc'[u] = pc[u], path'[u] = path[u], contents'[u] = contents[u]
  PROVE  Watches(u)'
  BY DEF Watches, LastOf

\* What a thread does keeps Top pursued: a visit begins by reading Top, ends with none
\* of what was read left, and removes or reports each in between.
LEMMA ThreadPursues ==
  ASSUME Ind, NEW t \in Threads, Thread(t), stage = "traverse", ~not_removed'
  PROVE  Settled' \/ << >> \in todo' \/ \E u \in Threads : Watches(u)'
<1> USE DEF Ind
<1>1. CASE Open(t)
  <2>1. PICK p \in todo : todo' = todo \ {p} /\ path' = [path EXCEPT ![t] = p]
    BY <1>1 DEF Open
  <2>2. /\ UNCHANGED <<parent, unseen, not_removed, contents>>
        /\ pc' = [pc EXCEPT ![t] = "read"] /\ pc[t] = "idle"
    BY <1>1 DEF Open, tree, history
  <2>3. CASE Settled
    BY <2>2, <2>3 DEF Settled, In
  <2>4. CASE << >> \in todo
    <3>1. CASE p = << >>
      <4>1. path'[t] = << >> /\ pc'[t] = "read"
        BY <2>1, <2>2, <3>1 DEF TypeOK
      <4> QED
        BY <4>1 DEF Watches, LastOf
    <3> QED
      BY <2>1, <2>4, <3>1
  <2>5. ASSUME NEW u \in Threads, Watches(u) PROVE Watches(u)'
    <3>1. u # t
      BY <2>2, <2>5 DEF Watches
    <3> QED
      BY <2>1, <2>2, <2>5, <3>1, StillWatches DEF In, TypeOK
  <2> QED
    BY <2>2, <2>3, <2>4, <2>5 DEF Pursued
<1>2. CASE OpenFails(t)
  <2>1. UNCHANGED <<parent, unseen, contents, pc, path>> /\ ~not_removed
    BY <1>2 DEF OpenFails, TypeOK, tree, workers, history
  <2>2. Leads(<< >>) /\ LastOf(<< >>) \notin stuck
    BY ReduceAssumption DEF Leads, LastOf, TypeOK, Entries
  <2>3. << >> \in todo => << >> \in todo'
    BY <1>2, <2>2 DEF OpenFails
  <2>4. Settled => Settled'
    BY <2>1 DEF Settled, In
  <2>5. ASSUME NEW u \in Threads, Watches(u) PROVE Watches(u)'
    BY <2>1, <2>5, StillWatches DEF In
  <2> QED
    BY <2>1, <2>3, <2>4, <2>5 DEF Pursued
<1>3. CASE Read(t)
  <2>1. /\ UNCHANGED <<parent, todo, path, not_removed>>
        /\ pc' = [pc EXCEPT ![t] = "remove"]
        /\ contents' = [contents EXCEPT ![t] = In(LastOf(path[t]))]
        /\ unseen' = (unseen /\ LastOf(path[t]) # Top)
    BY <1>3 DEF Read, tree
  <2>2. CASE LastOf(path[t]) = Top
    <3>1. pc'[t] = "remove" /\ contents'[t] = In(Top) /\ In(Top)' = In(Top)
      BY <2>1, <2>2 DEF TypeOK, In
    <3>2. Watches(t)'
      BY <2>1, <2>2, <3>1 DEF Watches, LastOf
    <3> QED
      BY <3>2
  <2>3. CASE LastOf(path[t]) # Top
    <3>1. Settled => Settled'
      BY <2>1, <2>3 DEF Settled, In
    <3>2. ASSUME NEW u \in Threads, Watches(u) PROVE Watches(u)'
      <4>1. u # t
        BY <2>3, <3>2 DEF Watches
      <4> QED
        BY <2>1, <3>2, <4>1, StillWatches DEF In, TypeOK
    <3> QED
      BY <2>1, <3>1, <3>2 DEF Pursued
  <2> QED
    BY <2>2, <2>3
<1>4. CASE AddWork(t)
  <2>1. /\ UNCHANGED <<parent, unseen, not_removed, contents>>
        /\ todo \subseteq todo' /\ contents[t] = {} /\ pc[t] = "remove"
        /\ pc' = [pc EXCEPT ![t] = "idle"] /\ path' = [path EXCEPT ![t] = << >>]
    BY <1>4 DEF AddWork, tree, history
  <2>2. Settled => Settled'
    BY <2>1 DEF Settled, In
  <2>3. Watches(t) => Settled
    BY <2>1 DEF Watches, Settled
  <2>4. ASSUME NEW u \in Threads, Watches(u), u # t PROVE Watches(u)'
    BY <2>1, <2>4, StillWatches DEF In, TypeOK
  <2> QED
    BY <2>1, <2>2, <2>3, <2>4 DEF Pursued
<1>5. ASSUME NEW e \in Entries, RemoveEntry(t, e)
      PROVE  Settled' \/ << >> \in todo' \/ \E u \in Threads : Watches(u)'
  <2> DEFINE d == LastOf(path[t])
  <2>1. /\ UNCHANGED <<unseen, todo, pc, path, not_removed>> /\ Succeeds(e, d)
        /\ contents' = [contents EXCEPT ![t] = @ \ {e}]
        /\ parent' = IF Removable(e, d) THEN [parent EXCEPT ![e] = None] ELSE parent
    BY <1>5 DEF RemoveEntry, Taken, Unlinkat, tree, history
  <2>2. In(Top)' \subseteq In(Top)
    BY <2>1, ReduceAssumption DEF In, TypeOK
  <2>3. Settled => Settled'
    BY <2>1, <2>2 DEF Settled
  <2>4. ASSUME Watches(t) PROVE Watches(t)'
    <3>1. pc[t] = "remove" /\ d = Top
      BY <1>5, <2>4 DEF Watches, RemoveEntry
    <3>2. e \notin In(Top)'
      BY <2>1, <3>1, ReduceAssumption DEF Succeeds, Removable, In, TypeOK
    <3>3. contents'[t] = contents[t] \ {e}
      BY <2>1 DEF TypeOK
    <3> QED
      BY <2>1, <2>2, <2>4, <3>1, <3>2, <3>3 DEF Watches, LastOf
  <2>5. ASSUME NEW u \in Threads, Watches(u), u # t PROVE Watches(u)'
    BY <2>1, <2>2, <2>5, StillWatches DEF TypeOK
  <2> QED
    BY <2>1, <2>3, <2>4, <2>5 DEF Pursued
<1> QED
  BY <1>1, <1>2, <1>3, <1>4, <1>5 DEF Thread

\* A thread takes steps only while traverse() runs, and leaves reduce() where it is.
LEMMA ThreadInd ==
  ASSUME Ind, NEW t \in Threads, Thread(t)
  PROVE  Pursued' /\ Cleared' /\ Quiet' /\ Ended' /\ FailsForAReason'
<1>1. stage = "traverse"
  BY DEF Ind, Quiet, Idle, Thread, Open, OpenFails, Read, AddWork, RemoveEntry
<1>2. UNCHANGED <<stage, outcome>>
  BY DEF Thread, Open, OpenFails, Read, AddWork, RemoveEntry
<1>3. outcome = "none"
  BY <1>1 DEF Ind, Ended
<1>4. Pursued'
  BY <1>1, ThreadPursues DEF Pursued
<1> QED
  BY <1>1, <1>2, <1>3, <1>4 DEF Cleared, Quiet, Ended, FailsForAReason

\* What others do: nothing enters Top but unseen.
LEMMA OthersInd ==
  ASSUME Ind, Others
  PROVE  Pursued' /\ Cleared' /\ Quiet' /\ Ended' /\ FailsForAReason'
<1>1. /\ UNCHANGED <<stage, outcome, todo, pc, path, contents, not_removed>>
      /\ unseen => unseen'
  BY DEF Others, OthersRemove, OthersAdd, OthersMove, Meddle, workers
<1>2. unseen' \/ In(Top)' \subseteq In(Top)
  <2>1. ASSUME NEW e \in Entries, OthersRemove(e) PROVE In(Top)' \subseteq In(Top)
    BY <2>1, ReduceAssumption DEF OthersRemove, In, Ind, TypeOK
  <2>2. ASSUME NEW e \in Entries, NEW d \in Dirs, OthersAdd(e, d) \/ OthersMove(e, d)
        PROVE  unseen' \/ In(Top)' \subseteq In(Top)
    <3>1. parent' = [parent EXCEPT ![e] = d] /\ Meddle(d)
      BY <2>2 DEF OthersAdd, OthersMove
    <3>2. CASE d = Top
      BY <3>1, <3>2 DEF Meddle
    <3>3. CASE d # Top
      BY <3>1, <3>3 DEF In, Ind, TypeOK
    <3> QED
      BY <3>2, <3>3
  <2> QED
    BY <2>1, <2>2 DEF Others
<1>3. Settled => Settled'
  BY <1>1, <1>2 DEF Settled
<1>4. ASSUME NEW u \in Threads, Watches(u), ~unseen' PROVE Watches(u)'
  BY <1>1, <1>2, <1>4, StillWatches
<1>5. Pursued'
  BY <1>1, <1>3, <1>4 DEF Ind, Pursued, Settled
<1>6. Cleared' /\ Quiet' /\ Ended' /\ FailsForAReason'
  BY <1>1, <1>3 DEF Ind, Cleared, Quiet, Idle, Ended, FailsForAReason
<1> QED
  BY <1>5, <1>6

LEMMA NextInd == Ind /\ [Next]_vars => Ind'
<1> SUFFICES ASSUME Ind, [Next]_vars PROVE Ind'
  OBVIOUS
<1>1. TypeOK'
  BY NextType DEF Ind
<1>2. CASE UNCHANGED vars
  BY <1>1, <1>2 DEF Ind, Pursued, Cleared, Settled, In, Watches, LastOf, Quiet, Idle, Ended,
                    FailsForAReason, vars, tree, workers, history
<1>3. CASE Next
  <2>1. Pursued' /\ Cleared' /\ Quiet' /\ Ended' /\ FailsForAReason'
    BY <1>3, MainInd, ThreadInd, OthersInd DEF Next
  <2> QED
    BY <1>1, <2>1 DEF Ind
<1> QED
  BY <1>2, <1>3

\* Whatever the tree, the threads, the faults and what others do, reduce() finds the
\* directory not empty at its end (reduce.ipp: the last topdirh.unlink()) only if others
\* put something into it after the last round had read it.
THEOREM FailsForAReasonHolds == Spec => []FailsForAReason
<1>1. Ind => FailsForAReason
  BY DEF Ind
<1> QED
  BY <1>1, InitInd, NextInd, PTL DEF Spec

-----------------------------------------------------------------------------
(* The inductive invariant of Tally                                        *)

Prefix(p, q) == Len(p) <= Len(q) /\ \A k \in 1..Len(p) : p[k] = q[k]
Above(p, k) == IF k = 1 THEN Top ELSE p[k - 1]

Busy == {t \in Threads : pc[t] # "idle"}
Live == todo \cup {path[t] : t \in Busy}
InHand(t) == contents[t] \cup kept[t]
Pending == UNION {contents[t] : t \in Threads}

\* An entry that is in the tree, or was.
Known(e) == parent[e] # None \/ e \in gone

\* What is removed stays away.
GoneOut == \A e \in gone : parent[e] = None

Hands ==
  \A t \in Threads : /\ pc[t] # "remove" => InHand(t) = {}
                     /\ kept[t] \subseteq Entries
                     /\ \A e \in InHand(t) : Known(e)

PathsKnown == \A p \in Live : \A k \in DOMAIN p : p[k] \in Entries /\ Known(p[k])

\* No directory to visit is below another, or below one that somebody is in.
Separate ==
  /\ \A p, q \in todo : Prefix(p, q) => p = q
  /\ \A t \in Busy : \A p \in todo : ~Prefix(path[t], p) /\ ~Prefix(p, path[t])
  /\ \A t, u \in Busy : Prefix(path[t], path[u]) => t = u

\* The directory an entry has been in, if nobody moved it: all agree about it.
HomeOf(home) ==
  /\ \A e \in Entries : parent[e] # None => home[e] = parent[e]
  /\ \A t \in Threads : \A e \in InHand(t) : home[e] = LastOf(path[t])
  /\ \A p \in Live : \A k \in DOMAIN p : home[p[k]] = Above(p, k)

Homes == ~moved => \E home \in [Entries -> Dirs \cup {None}] : HomeOf(home)

TopRemoved == IF outcome = "ok" THEN 1 ELSE 0

Counted ==
  /\ items_removed >= Cardinality(gone) + TopRemoved - moves
  /\ ~moved => items_removed <= Cardinality(gone \ Pending) + TopRemoved

TInv == GoneOut /\ Hands /\ PathsKnown /\ Separate /\ Homes /\ Counted

-----------------------------------------------------------------------------
(* Paths                                                                   *)

LEMMA AppendFacts ==
  ASSUME NEW p \in Seq(Dirs), NEW e \in Dirs
  PROVE  /\ Append(p, e) \in Seq(Dirs) /\ Len(Append(p, e)) = Len(p) + 1 /\ Len(p) \in Nat
         /\ DOMAIN p = 1..Len(p) /\ DOMAIN Append(p, e) = 1..Len(p) + 1
         /\ \A k \in 1..Len(p) : Append(p, e)[k] = p[k]
         /\ Append(p, e)[Len(p) + 1] = e
OBVIOUS

LEMMA SamePath ==
  ASSUME NEW p \in Seq(Dirs), NEW q \in Seq(Dirs), Len(p) = Len(q), \A k \in 1..Len(p) : p[k] = q[k]
  PROVE  p = q
OBVIOUS

LEMMA PrefixOfAppend ==
  ASSUME NEW p \in Seq(Dirs), NEW q \in Seq(Dirs), NEW e \in Dirs, Prefix(q, Append(p, e))
  PROVE  Prefix(q, p) \/ q = Append(p, e)
<1> DEFINE a == Append(p, e)
<1>1. /\ a \in Seq(Dirs) /\ Len(a) = Len(p) + 1 /\ Len(p) \in Nat /\ \A k \in 1..Len(p) : a[k] = p[k]
  BY AppendFacts
<1>2. Len(q) \in Nat /\ Len(q) <= Len(a) /\ \A k \in 1..Len(q) : q[k] = a[k]
  BY DEF Prefix
<1> HIDE DEF a
<1>3. CASE Len(q) = Len(a)
  <2>1. q = a
    BY <1>1, <1>2, <1>3, SamePath
  <2> QED BY <2>1 DEF a
<1>4. CASE Len(q) <= Len(p)
  BY <1>1, <1>2, <1>4 DEF Prefix
<1> QED BY <1>1, <1>2, <1>3, <1>4

LEMMA AppendPrefix ==
  ASSUME NEW p \in Seq(Dirs), NEW q \in Seq(Dirs), NEW e \in Dirs, Prefix(Append(p, e), q)
  PROVE  Prefix(p, q)
<1> DEFINE a == Append(p, e)
<1>1. /\ Len(a) = Len(p) + 1 /\ Len(p) \in Nat /\ Len(q) \in Nat /\ \A k \in 1..Len(p) : a[k] = p[k]
  BY AppendFacts
<1>2. Len(a) <= Len(q) /\ \A k \in 1..Len(a) : a[k] = q[k]
  BY DEF Prefix
<1> HIDE DEF a
<1> QED BY <1>1, <1>2 DEF Prefix

LEMMA PrefixRefl == \A p \in Seq(Dirs) : Prefix(p, p)
BY DEF Prefix

\* A path that goes by the homes of its entries is known by its end.
LEMMA OnePath ==
  ASSUME NEW home, NEW p \in Seq(Dirs), NEW q \in Seq(Dirs),
         \A k \in DOMAIN p : p[k] \in Entries /\ home[p[k]] = Above(p, k),
         \A k \in DOMAIN q : q[k] \in Entries /\ home[q[k]] = Above(q, k),
         LastOf(p) = LastOf(q), Len(p) <= Len(q)
  PROVE  p = q
<1> DEFINE P == Len(p)
           Q == Len(q)
<1>1. P \in Nat /\ Q \in Nat /\ DOMAIN p = 1..P /\ DOMAIN q = 1..Q /\ P <= Q
  OBVIOUS
<1>2. (P = 0 <=> p = << >>) /\ (Q = 0 <=> q = << >>)
  OBVIOUS
<1>3. Top \notin Entries
  BY DEF Entries
<1> HIDE DEF P, Q
<1>4. \A k \in 1..P : p[k] = q[Q - P + k]
  <2> DEFINE S == {j \in 0..P - 1 : p[P - j] # q[Q - j]}
  <2>1. CASE S = {}
    <3>1. ASSUME NEW k \in 1..P PROVE p[k] = q[Q - P + k]
      <4>1. P - k \in 0..P - 1 /\ P - (P - k) = k /\ Q - (P - k) = Q - P + k
        BY <1>1
      <4>2. P - k \notin S
        BY <2>1
      <4> QED BY <4>1, <4>2
    <3> QED BY <3>1
  <2>2. CASE S # {}
    <3>1. PICK j \in S : \A i \in S : j <= i
      <4>1. S \subseteq Nat
        BY <1>1
      <4>2. PICK x \in S : \A y \in S : <<y, x>> \notin OpToRel(<, Nat)
        <5> HIDE DEF OpToRel, S
        <5> QED BY <2>2, <4>1, NatLessThanWellFounded, WFMin
      <4>3. ASSUME NEW y \in S PROVE x <= y
        <5>1. x \in Nat /\ y \in Nat
          BY <4>1
        <5>2. ~(y < x)
          BY <4>2, <5>1 DEF OpToRel
        <5> QED BY <5>1, <5>2
      <4> QED BY <4>3
    <3>2. j \in 0..P - 1 /\ p[P - j] # q[Q - j]
      OBVIOUS
    <3>3. j # 0
      <4>1. ASSUME j = 0 PROVE FALSE
        <5>1. P > 0 /\ Q > 0 /\ P - j = P /\ Q - j = Q
          BY <1>1, <3>2, <4>1
        <5>2. LastOf(p) = p[P] /\ LastOf(q) = q[Q]
          BY <1>2, <5>1 DEF LastOf, P, Q
        <5> QED BY <3>2, <5>1, <5>2
      <4> QED BY <4>1
    <3> DEFINE i == j - 1
    <3>4. i \in 0..P - 1 /\ i < j /\ P - i = P - j + 1 /\ Q - i = Q - j + 1
      BY <1>1, <3>2, <3>3
    <3>5. i \notin S
      BY <3>1, <3>2, <3>4
    <3>6. p[P - i] = q[Q - i]
      BY <3>4, <3>5
    <3>7. /\ P - i \in DOMAIN p /\ Q - i \in DOMAIN q /\ P - i # 1 /\ Q - i # 1
          /\ (P - i) - 1 = P - j /\ (Q - i) - 1 = Q - j
      BY <1>1, <3>2, <3>3, <3>4
    <3>8. Above(p, P - i) = p[P - j] /\ Above(q, Q - i) = q[Q - j]
      BY <3>7 DEF Above
    <3> QED BY <3>2, <3>6, <3>7, <3>8
  <2> QED BY <2>1, <2>2
<1>5. CASE P = Q
  <2>1. \A k \in 1..P : p[k] = q[k]
    BY <1>1, <1>4, <1>5
  <2> QED BY <1>5, <2>1, SamePath DEF P, Q
<1>6. CASE P < Q /\ P = 0
  <2>1. LastOf(p) = Top /\ LastOf(q) = q[Q] /\ Q \in DOMAIN q
    BY <1>1, <1>2, <1>6 DEF LastOf, P, Q
  <2> QED BY <1>3, <2>1
<1>7. CASE P < Q /\ P > 0
  <2> DEFINE m == Q - P + 1
  <2>1. 1 \in 1..P /\ m \in 1..Q /\ m # 1 /\ m - 1 \in 1..Q /\ p[1] = q[m]
    BY <1>1, <1>4, <1>7
  <2>2. Above(p, 1) = Top /\ Above(q, m) = q[m - 1]
    BY <2>1 DEF Above
  <2>3. home[p[1]] = Top /\ home[q[m]] = q[m - 1] /\ q[m - 1] \in Entries
    BY <1>1, <2>1, <2>2
  <2> QED BY <1>3, <2>1, <2>3
<1> QED BY <1>1, <1>5, <1>6, <1>7

-----------------------------------------------------------------------------
(* The steps of reduce() itself                                            *)

LEMMA GoneFacts ==
  \A S \in SUBSET Entries : /\ IsFiniteSet(S) /\ Cardinality(S) \in Nat
                            /\ \A e \in Entries \ S : Cardinality(S \cup {e}) = Cardinality(S) + 1
                            /\ \A R \in SUBSET S : Cardinality(R) <= Cardinality(S)
<1> TAKE S \in SUBSET Entries
<1>1. IsFiniteSet(Entries)
  <2>1. IsFiniteSet(Dirs) /\ IsFiniteSet(Files)
    BY ReduceAssumption
  <2>2. IsFiniteSet(Dirs \cup Files)
    BY <2>1, FS_Union
  <2>3. Entries \in SUBSET (Dirs \cup Files)
    BY DEF Entries
  <2> QED BY <2>2, <2>3, FS_Subset
<1>2. IsFiniteSet(S)
  BY <1>1, FS_Subset
<1>3. Cardinality(S) \in Nat
  BY <1>2, FS_CardinalityType
<1>4. \A e \in Entries \ S : Cardinality(S \cup {e}) = Cardinality(S) + 1
  BY <1>2, FS_AddElement
<1>5. \A R \in SUBSET S : Cardinality(R) <= Cardinality(S)
  BY <1>2, FS_Subset
<1> QED BY <1>2, <1>3, <1>4, <1>5

LEMMA InitTInv == Init => TInv
<1> SUFFICES ASSUME Init PROVE TInv
  OBVIOUS
<1>1. /\ parent \in [Entries -> Dirs \cup {None}] /\ gone = {} /\ todo = {} /\ Busy = {} /\ Live = {}
      /\ \A t \in Threads : InHand(t) = {} /\ kept[t] = {}
  BY ReduceAssumption DEF Init, Busy, Live, InHand
<1>2. GoneOut /\ PathsKnown /\ Separate
  BY <1>1 DEF GoneOut, PathsKnown, Separate
<1>3. Hands
  BY <1>1 DEF Hands
<1>4. Homes
  BY <1>1 DEF Homes, HomeOf
<1>5. Counted
  <2>1. items_removed = 0 /\ moves = 0 /\ TopRemoved = 0 /\ gone \ Pending = {} /\ Cardinality({}) = 0
    BY <1>1, FS_EmptySet DEF Init, TopRemoved
  <2> QED BY <1>1, <2>1 DEF Counted
<1> QED BY <1>2, <1>3, <1>4, <1>5 DEF TInv

\* Nobody is in a directory when traverse() begins, and less may be left to visit.
LEMMA MainFrame ==
  ASSUME TypeOK, TInv, UNCHANGED <<tree, workers, moves, moved>>,
         todo' \subseteq todo \/ (todo' = {<< >>} /\ Idle),
         items_removed' + TopRemoved = items_removed + TopRemoved', items_removed' \in Nat
  PROVE  TInv'
<1>1. /\ parent' = parent /\ gone' = gone /\ pc' = pc /\ path' = path /\ contents' = contents /\ kept' = kept
      /\ moves' = moves /\ moved' = moved
  BY DEF tree, workers
<1>2. GoneOut /\ Hands /\ PathsKnown /\ Separate /\ Homes /\ Counted
  BY DEF TInv
<1>3. Busy' = Busy /\ (\A t \in Threads : InHand(t)' = InHand(t)) /\ \A e \in Entries : Known(e)' = Known(e)
  BY <1>1 DEF Busy, InHand, Known
<1>4. GoneOut'
  BY <1>1, <1>2 DEF GoneOut
<1>5. Hands'
  BY <1>1, <1>2 DEF Hands, InHand, Known
<1>6. \A p \in Live' : p \in Live \/ DOMAIN p = {}
  <2>1. CASE todo' \subseteq todo
    BY <1>1, <1>3, <2>1 DEF Live
  <2>2. CASE todo' = {<< >>} /\ Idle
    <3>1. DOMAIN << >> = {}
      OBVIOUS
    <3> QED BY <1>1, <1>3, <2>2, <3>1 DEF Live
  <2> QED BY <2>1, <2>2
<1>7. PathsKnown'
  BY <1>1, <1>2, <1>6 DEF PathsKnown, Known
<1>8. Separate'
  <2>1. CASE todo' \subseteq todo
    BY <1>1, <1>2, <1>3, <2>1 DEF Separate
  <2>2. CASE todo' = {<< >>} /\ Idle
    <3>1. Busy' = {}
      BY <1>3, <2>2 DEF Busy, Idle
    <3> QED BY <2>2, <3>1 DEF Separate
  <2> QED BY <2>1, <2>2
<1>9. Homes'
  <2> SUFFICES ASSUME ~moved PROVE \E home \in [Entries -> Dirs \cup {None}] : HomeOf(home)'
    BY <1>1 DEF Homes
  <2>1. PICK home \in [Entries -> Dirs \cup {None}] : HomeOf(home)
    BY <1>2 DEF Homes
  <2>2. HomeOf(home)'
    BY <1>1, <1>3, <1>6, <2>1 DEF HomeOf
  <2> QED BY <2>2
<1>10. Counted'
  <2>1. Pending' = Pending
    BY <1>1 DEF Pending
  <2>2. /\ Cardinality(gone) \in Nat /\ Cardinality(gone \ Pending) \in Nat /\ items_removed \in Nat /\ moves \in Nat
        /\ TopRemoved \in Nat /\ TopRemoved' \in Nat
    BY GoneFacts, ReduceAssumption DEF TypeOK, TopRemoved
  <2> QED BY <1>1, <1>2, <2>1, <2>2 DEF Counted
<1> QED BY <1>4, <1>5, <1>7, <1>8, <1>9, <1>10 DEF TInv

LEMMA MainTInv ==
  ASSUME Ind, TInv, Reducer \/ TraverseFails \/ Elapse \/ UNCHANGED vars
  PROVE  TInv'
<1>1. TypeOK /\ Quiet /\ Ended /\ items_removed \in Nat
  BY DEF Ind, TypeOK
<1>2. CASE Hide
  <2>1. UNCHANGED <<tree, workers, moves, moved>> /\ todo' = todo /\ items_removed' = items_removed /\ outcome' = outcome
    BY <1>2 DEF Hide, history
  <2> QED BY <1>1, <2>1, MainFrame DEF TopRemoved
<1>3. CASE Round
  <2>1. UNCHANGED <<tree, workers, moves, moved>> /\ todo' = {<< >>} /\ items_removed' = items_removed /\ outcome' = outcome
    BY <1>3 DEF Round
  <2>2. Idle
    BY <1>1, <1>3 DEF Quiet, Round
  <2> QED BY <1>1, <2>1, <2>2, MainFrame DEF TopRemoved
<1>4. CASE RoundEnds
  <2>1. UNCHANGED <<tree, workers, moves, moved>> /\ todo' = todo /\ items_removed' = items_removed
    BY <1>4 DEF RoundEnds, history
  <2>2. outcome = "none" /\ outcome' # "ok"
    BY <1>1, <1>4 DEF RoundEnds, Finish, Ended
  <2>3. TopRemoved = 0 /\ TopRemoved' = 0
    BY <2>2 DEF TopRemoved
  <2> QED BY <1>1, <2>1, <2>3, MainFrame
<1>5. CASE UnlinkTop
  <2>1. UNCHANGED <<tree, workers, moves, moved>> /\ todo' = todo
    BY <1>5 DEF UnlinkTop, history
  <2>2. /\ outcome = "none"
        /\ \/ outcome' = "not_empty" /\ items_removed' = items_removed
           \/ outcome' = "ok" /\ items_removed' = items_removed + 1
    BY <1>1, <1>5 DEF UnlinkTop, Finish, Ended
  <2>3. /\ TopRemoved = 0
        /\ \/ TopRemoved' = 0 /\ items_removed' = items_removed
           \/ TopRemoved' = 1 /\ items_removed' = items_removed + 1
    BY <1>1, <2>2 DEF TopRemoved
  <2>4. items_removed' \in Nat /\ items_removed' + TopRemoved = items_removed + TopRemoved'
    BY <1>1, <2>3
  <2> QED BY <1>1, <2>1, <2>4, MainFrame
<1>6. CASE TraverseFails
  <2>1. UNCHANGED <<tree, workers, moves, moved>> /\ todo' = {} /\ items_removed' = items_removed
    BY <1>6 DEF TraverseFails, history
  <2>2. outcome = "none" /\ outcome' # "ok"
    BY <1>1, <1>6 DEF TraverseFails, Finish, Ended
  <2>3. TopRemoved = 0 /\ TopRemoved' = 0
    BY <2>2 DEF TopRemoved
  <2> QED BY <1>1, <2>1, <2>3, MainFrame
<1>7. CASE Elapse
  <2>1. UNCHANGED <<tree, workers, moves, moved>> /\ todo' = todo /\ items_removed' = items_removed /\ outcome' = outcome
    BY <1>7 DEF Elapse, history
  <2> QED BY <1>1, <2>1, MainFrame DEF TopRemoved
<1>8. CASE UNCHANGED vars
  <2>1. UNCHANGED <<tree, workers, moves, moved>> /\ todo' = todo /\ items_removed' = items_removed /\ outcome' = outcome
    BY <1>8 DEF vars, history
  <2> QED BY <1>1, <2>1, MainFrame DEF TopRemoved
<1> QED BY <1>2, <1>3, <1>4, <1>5, <1>6, <1>7, <1>8 DEF Reducer

-----------------------------------------------------------------------------
(* The steps of threads                                                    *)

LEMMA OneVisitor ==
  ASSUME TypeOK, PathsKnown, Separate, NEW home, HomeOf(home), NEW t \in Busy, NEW u \in Busy,
         LastOf(path[t]) = LastOf(path[u])
  PROVE  t = u
<1> DEFINE p == path[t]
           q == path[u]
<1>1. p \in Seq(Dirs) /\ q \in Seq(Dirs) /\ p \in Live /\ q \in Live
  BY DEF TypeOK, Busy, Live
<1>2. /\ \A k \in DOMAIN p : p[k] \in Entries /\ home[p[k]] = Above(p, k)
      /\ \A k \in DOMAIN q : q[k] \in Entries /\ home[q[k]] = Above(q, k)
  BY <1>1 DEF PathsKnown, HomeOf
<1>3. LastOf(p) = LastOf(q)
  OBVIOUS
<1>4. Len(p) \in Nat /\ Len(q) \in Nat
  BY <1>1
<1>5. p = q
  <2> HIDE DEF p, q
  <2>1. CASE Len(p) <= Len(q)
    BY <1>1, <1>2, <1>3, <2>1, OnePath
  <2>2. CASE Len(q) <= Len(p)
    BY <1>1, <1>2, <1>3, <2>2, OnePath
  <2> QED BY <1>4, <2>1, <2>2
<1>6. Prefix(p, q)
  BY <1>1, <1>5, PrefixRefl
<1> QED BY <1>6 DEF Separate

\* No two threads have an entry in hand.
LEMMA OneHand ==
  ASSUME TypeOK, TInv, ~moved, NEW t \in Threads, NEW u \in Threads,
         NEW e \in contents[t], e \in contents[u]
  PROVE  t = u
<1>1. GoneOut /\ Hands /\ PathsKnown /\ Separate /\ Homes
  BY DEF TInv
<1>2. PICK home \in [Entries -> Dirs \cup {None}] : HomeOf(home)
  BY <1>1 DEF Homes
<1>3. e \in InHand(t) /\ e \in InHand(u)
  BY DEF InHand
<1>4. t \in Busy /\ u \in Busy
  BY <1>1, <1>3 DEF Hands, Busy
<1>5. LastOf(path[t]) = LastOf(path[u])
  BY <1>2, <1>3 DEF HomeOf
<1> QED BY <1>1, <1>2, <1>4, <1>5, OneVisitor

LEMMA OpenTInv ==
  ASSUME TypeOK, TInv, NEW t \in Threads, Open(t)
  PROVE  TInv'
<1>1. PICK p \in todo : todo' = todo \ {p} /\ path' = [path EXCEPT ![t] = p]
  BY DEF Open
<1>2. /\ pc[t] = "idle" /\ pc' = [pc EXCEPT ![t] = "read"]
      /\ parent' = parent /\ gone' = gone /\ contents' = contents /\ kept' = kept /\ moved' = moved
      /\ moves' = moves /\ items_removed' = items_removed /\ outcome' = outcome
  BY DEF Open, tree, history
<1>3. GoneOut /\ Hands /\ PathsKnown /\ Separate /\ Homes /\ Counted
  BY DEF TInv
<1>4. pc \in [Threads -> {"idle", "read", "remove"}] /\ path \in [Threads -> Seq(Dirs)]
  BY DEF TypeOK
<1>5. /\ path'[t] = p /\ pc'[t] = "read"
      /\ \A u \in Threads \ {t} : path'[u] = path[u] /\ pc'[u] = pc[u]
  <2> DEFINE T == Seq(Dirs)
  <2>1. path \in [Threads -> T]
    BY <1>4
  <2> HIDE DEF T
  <2> QED BY <1>1, <1>2, <1>4, <2>1
<1>6. t \notin Busy /\ Busy' = Busy \cup {t}
  BY <1>2, <1>5 DEF Busy
<1>7. InHand(t) = {} /\ \A u \in Threads : InHand(u)' = InHand(u)
  BY <1>2, <1>3 DEF Hands, InHand
<1>8. \A e : Known(e)' = Known(e)
  BY <1>2 DEF Known
<1>9. Live' \subseteq Live
  <2>1. \A u \in Busy' : path'[u] \in Live
    BY <1>5, <1>6 DEF Live, Busy
  <2> QED BY <1>1, <2>1 DEF Live
<1>10. GoneOut'
  BY <1>2, <1>3 DEF GoneOut
<1>11. Hands'
  BY <1>2, <1>3, <1>5, <1>7, <1>8 DEF Hands
<1>12. PathsKnown'
  BY <1>3, <1>8, <1>9 DEF PathsKnown
<1>13. Separate'
  <2>1. \A q, r \in todo' : Prefix(q, r) => q = r
    BY <1>1, <1>3 DEF Separate
  <2>2. ASSUME NEW u \in Busy', NEW q \in todo' PROVE ~Prefix(path'[u], q) /\ ~Prefix(q, path'[u])
    <3>1. CASE u = t
      BY <1>1, <1>3, <1>5, <3>1 DEF Separate
    <3>2. CASE u # t
      BY <1>1, <1>3, <1>5, <1>6, <3>2 DEF Separate, Busy
    <3> QED BY <3>1, <3>2
  <2>3. ASSUME NEW u \in Busy', NEW v \in Busy', Prefix(path'[u], path'[v]) PROVE u = v
    <3>1. CASE u # t /\ v # t
      BY <1>3, <1>5, <1>6, <2>3, <3>1 DEF Separate, Busy
    <3>2. CASE u = t /\ v # t
      BY <1>3, <1>5, <1>6, <2>3, <3>2 DEF Separate, Busy
    <3>3. CASE u # t /\ v = t
      BY <1>3, <1>5, <1>6, <2>3, <3>3 DEF Separate, Busy
    <3> QED BY <3>1, <3>2, <3>3
  <2> QED BY <2>1, <2>2, <2>3 DEF Separate
<1>14. Homes'
  <2> SUFFICES ASSUME ~moved PROVE \E home \in [Entries -> Dirs \cup {None}] : HomeOf(home)'
    BY <1>2 DEF Homes
  <2>1. PICK home \in [Entries -> Dirs \cup {None}] : HomeOf(home)
    BY <1>3 DEF Homes
  <2>2. \A u \in Threads : \A e \in InHand(u)' : home[e] = LastOf(path'[u])
    BY <1>5, <1>7, <2>1 DEF HomeOf
  <2>3. HomeOf(home)'
    BY <1>2, <1>9, <2>1, <2>2 DEF HomeOf
  <2> QED BY <2>3
<1>15. Counted'
  <2>1. Pending' = Pending /\ TopRemoved' = TopRemoved
    BY <1>2 DEF Pending, TopRemoved
  <2> QED BY <1>2, <1>3, <2>1 DEF Counted
<1> QED BY <1>10, <1>11, <1>12, <1>13, <1>14, <1>15 DEF TInv

LEMMA ReadTInv ==
  ASSUME TypeOK, TInv, NEW t \in Threads, Read(t)
  PROVE  TInv'
<1> DEFINE d == LastOf(path[t])
<1>1. /\ pc[t] = "read" /\ pc' = [pc EXCEPT ![t] = "remove"] /\ contents' = [contents EXCEPT ![t] = In(d)]
      /\ parent' = parent /\ gone' = gone /\ kept' = kept /\ moved' = moved /\ path' = path /\ todo' = todo
      /\ moves' = moves /\ items_removed' = items_removed /\ outcome' = outcome
  BY DEF Read, tree
<1>2. GoneOut /\ Hands /\ PathsKnown /\ Separate /\ Homes /\ Counted
  BY DEF TInv
<1>3. /\ pc \in [Threads -> {"idle", "read", "remove"}] /\ contents \in [Threads -> SUBSET Entries]
      /\ gone \subseteq Entries /\ path[t] \in Seq(Dirs) /\ None \notin Dirs /\ Top \in Dirs
  BY ReduceAssumption DEF TypeOK
<1>4. d \in Dirs /\ \A e \in In(d) : parent[e] = d /\ parent[e] # None /\ e \in Entries
  <2>1. d \in Dirs
    <3> DEFINE p == path[t]
    <3>1. p \in Seq(Dirs) /\ Top \in Dirs
      BY <1>3
    <3> HIDE DEF p
    <3>2. LastOf(p) \in Dirs
      BY <3>1 DEF LastOf
    <3> QED BY <3>2 DEF p
  <2> QED BY <1>3, <2>1 DEF In
<1> HIDE DEF d
<1>5. /\ contents'[t] = In(d) /\ pc'[t] = "remove"
      /\ \A u \in Threads \ {t} : contents'[u] = contents[u] /\ pc'[u] = pc[u]
  BY <1>1, <1>3
<1>6. Busy' = Busy /\ Live' = Live
  <2>1. Busy' = Busy
    BY <1>1, <1>5 DEF Busy
  <2> QED BY <1>1, <2>1 DEF Live
<1>7. /\ InHand(t) = {} /\ contents[t] = {} /\ kept[t] = {} /\ InHand(t)' = In(d)
      /\ \A u \in Threads \ {t} : InHand(u)' = InHand(u)
  BY <1>1, <1>2, <1>5 DEF Hands, InHand
<1>8. \A e : Known(e)' = Known(e)
  BY <1>1 DEF Known
<1>9. GoneOut' /\ PathsKnown' /\ Separate'
  BY <1>1, <1>2, <1>6, <1>8 DEF GoneOut, PathsKnown, Separate
<1>10. Hands'
  <2>1. \A e \in In(d) : Known(e)
    BY <1>4 DEF Known
  <2> QED BY <1>1, <1>2, <1>5, <1>7, <1>8, <2>1 DEF Hands
<1>11. Homes'
  <2> SUFFICES ASSUME ~moved PROVE \E home \in [Entries -> Dirs \cup {None}] : HomeOf(home)'
    BY <1>1 DEF Homes
  <2>1. PICK home \in [Entries -> Dirs \cup {None}] : HomeOf(home)
    BY <1>2 DEF Homes
  <2>2. \A e \in In(d) : home[e] = d /\ d = LastOf(path[t])
    BY <1>4, <2>1 DEF HomeOf, d
  <2>3. \A u \in Threads : \A e \in InHand(u)' : home[e] = LastOf(path'[u])
    BY <1>1, <1>7, <2>1, <2>2 DEF HomeOf
  <2>4. HomeOf(home)'
    BY <1>1, <1>6, <2>1, <2>3 DEF HomeOf
  <2> QED BY <2>4
<1>12. Counted'
  <2>1. \A e \in In(d) : e \notin gone
    BY <1>2, <1>4 DEF GoneOut
  <2>2. \A e : e \in Pending' <=> e \in Pending \/ e \in In(d)
    BY <1>5, <1>7 DEF Pending
  <2>3. gone' \ Pending' = gone \ Pending /\ TopRemoved' = TopRemoved
    BY <1>1, <2>1, <2>2 DEF TopRemoved
  <2> QED BY <1>1, <1>2, <2>3 DEF Counted
<1> QED BY <1>9, <1>10, <1>11, <1>12 DEF TInv

LEMMA RemoveTInv ==
  ASSUME TypeOK, TInv, NEW t \in Threads, NEW e \in Entries, RemoveEntry(t, e)
  PROVE  TInv'
<1> DEFINE d == LastOf(path[t])
<1>1. /\ pc[t] = "remove" /\ e \in contents[t] /\ contents' = [contents EXCEPT ![t] = @ \ {e}]
      /\ kept' = [kept EXCEPT ![t] = IF e \in Dirs /\ ~Succeeds(e, d) THEN @ \cup {e} ELSE @]
  BY DEF RemoveEntry, Taken
<1>2. /\ pc' = pc /\ path' = path /\ todo' = todo /\ moves' = moves /\ outcome' = outcome /\ moved' = moved
  BY DEF RemoveEntry, history
<1>3. \/ Removable(e, d) /\ parent' = [parent EXCEPT ![e] = None] /\ gone' = gone \cup {e}
      \/ ~Removable(e, d) /\ parent' = parent /\ gone' = gone
  BY DEF RemoveEntry, Unlinkat, tree
<1>4. \/ Succeeds(e, d) /\ items_removed' = items_removed + 1
      \/ ~Succeeds(e, d) /\ items_removed' = items_removed
  BY DEF RemoveEntry
<1>5. GoneOut /\ Hands /\ PathsKnown /\ Separate /\ Homes /\ Counted
  BY DEF TInv
<1>6. /\ parent \in [Entries -> Dirs \cup {None}] /\ contents \in [Threads -> SUBSET Entries]
      /\ kept \in [Threads -> SUBSET Dirs] /\ gone \subseteq Entries /\ path[t] \in Seq(Dirs)
      /\ None \notin Dirs /\ Top \in Dirs /\ Dirs \cap Files = {}
  BY ReduceAssumption DEF TypeOK
<1>7. d \in Dirs
  <2> DEFINE p == path[t]
  <2>1. p \in Seq(Dirs) /\ Top \in Dirs
    BY <1>6
  <2> HIDE DEF p
  <2>2. LastOf(p) \in Dirs
    BY <2>1 DEF LastOf
  <2> QED BY <2>2 DEF p
<1>8. /\ contents'[t] = contents[t] \ {e} /\ kept'[t] \subseteq kept[t] \cup {e}
      /\ \A u \in Threads \ {t} : contents'[u] = contents[u] /\ kept'[u] = kept[u]
  BY <1>1, <1>6
<1>9. /\ \A u \in Threads : InHand(u)' \subseteq InHand(u)
      /\ Busy' = Busy /\ Live' = Live
  <2>1. Busy' = Busy
    BY <1>2 DEF Busy
  <2> QED BY <1>1, <1>2, <1>8, <2>1 DEF InHand, Live
<1>10. Removable(e, d) => parent[e] = d /\ parent[e] # None /\ e \notin gone /\ Succeeds(e, d)
  BY <1>5, <1>6, <1>7 DEF Removable, Succeeds, GoneOut
<1>11. /\ \A x \in Entries : Known(x) => Known(x)'
       /\ \A x \in Entries : parent'[x] # None => parent'[x] = parent[x]
  BY <1>3, <1>6 DEF Known
<1>12. GoneOut'
  BY <1>3, <1>5, <1>6 DEF GoneOut
<1>13. Hands'
  <2>1. \A u \in Threads : InHand(u) \subseteq Entries
    BY <1>5, <1>6 DEF Hands, InHand
  <2>2. \A u \in Threads : kept'[u] \subseteq Entries
    BY <1>5, <1>8 DEF Hands
  <2>3. \A u \in Threads : pc'[u] # "remove" => InHand(u)' = {}
    BY <1>2, <1>5, <1>9 DEF Hands
  <2>4. \A u \in Threads : \A x \in InHand(u)' : Known(x)'
    BY <1>5, <1>9, <1>11, <2>1 DEF Hands
  <2> QED BY <2>2, <2>3, <2>4 DEF Hands
<1>14. PathsKnown'
  BY <1>5, <1>9, <1>11 DEF PathsKnown
<1>15. Separate'
  BY <1>2, <1>5, <1>9 DEF Separate
<1>16. Homes'
  <2> SUFFICES ASSUME ~moved PROVE \E home \in [Entries -> Dirs \cup {None}] : HomeOf(home)'
    BY <1>2 DEF Homes
  <2>1. PICK home \in [Entries -> Dirs \cup {None}] : HomeOf(home)
    BY <1>5 DEF Homes
  <2>2. HomeOf(home)'
    BY <1>2, <1>9, <1>11, <2>1 DEF HomeOf
  <2> QED BY <2>2
<1>17. /\ items_removed \in Nat /\ moves \in Nat /\ TopRemoved \in Nat /\ TopRemoved' = TopRemoved
       /\ Cardinality(gone) \in Nat /\ Cardinality(gone \ Pending) \in Nat
       /\ gone \ Pending \in SUBSET Entries /\ gone \in SUBSET Entries
  BY <1>2, <1>6, GoneFacts, ReduceAssumption DEF TypeOK, TopRemoved
<1>18. items_removed' >= Cardinality(gone') + TopRemoved' - moves'
  <2>1. items_removed >= Cardinality(gone) + TopRemoved - moves
    BY <1>5 DEF Counted
  <2>2. CASE Removable(e, d)
    <3>1. Cardinality(gone') = Cardinality(gone) + 1 /\ items_removed' = items_removed + 1
      BY <1>3, <1>4, <1>10, <1>17, <2>2, GoneFacts
    <3> QED BY <1>2, <1>17, <2>1, <3>1
  <2>3. CASE ~Removable(e, d)
    <3>1. gone' = gone /\ items_removed' \in {items_removed, items_removed + 1}
      BY <1>3, <1>4, <2>3
    <3> QED BY <1>2, <1>17, <2>1, <3>1
  <2> QED BY <2>2, <2>3
<1>19. ASSUME ~moved PROVE items_removed' <= Cardinality(gone' \ Pending') + TopRemoved'
  <2>1. items_removed <= Cardinality(gone \ Pending) + TopRemoved
    BY <1>5, <1>19 DEF Counted
  <2>2. \A x : x \in Pending' <=> x \in Pending /\ x # e
    <3>1. \A u \in Threads : e \in contents[u] => u = t
      BY <1>1, <1>19, OneHand
    <3>2. \A u \in Threads : contents'[u] = contents[u] \ {e}
      BY <1>8, <3>1
    <3> QED BY <3>2 DEF Pending
  <2>3. e \in Pending
    BY <1>1 DEF Pending
  <2>4. CASE Succeeds(e, d)
    <3>1. e \in gone'
      <4>1. CASE Removable(e, d)
        BY <1>3, <4>1
      <4>2. CASE ~Removable(e, d)
        <5>1. PICK home \in [Entries -> Dirs \cup {None}] : HomeOf(home)
          BY <1>5, <1>19 DEF Homes
        <5>2. parent[e] # d /\ e \in InHand(t)
          BY <1>1, <2>4, <4>2 DEF Succeeds, InHand
        <5>3. home[e] = d
          BY <5>1, <5>2 DEF HomeOf
        <5>4. parent[e] = None
          BY <5>1, <5>2, <5>3 DEF HomeOf
        <5>5. e \in gone
          BY <1>5, <5>2, <5>4 DEF Hands, Known
        <5> QED BY <1>3, <4>2, <5>5
      <4> QED BY <4>1, <4>2
    <3>2. gone' \ Pending' = (gone \ Pending) \cup {e}
      BY <1>3, <2>2, <2>3, <3>1
    <3>3. Cardinality((gone \ Pending) \cup {e}) = Cardinality(gone \ Pending) + 1
      BY <1>17, <2>3, GoneFacts
    <3>4. items_removed' = items_removed + 1
      BY <1>4, <2>4
    <3>5. Cardinality(gone' \ Pending') = Cardinality(gone \ Pending) + 1
      BY <3>2, <3>3
    <3> QED BY <1>17, <2>1, <3>4, <3>5
  <2>5. CASE ~Succeeds(e, d)
    <3>1. gone' = gone /\ items_removed' = items_removed
      BY <1>3, <1>4, <1>10, <2>5
    <3>2. gone \ Pending \in SUBSET (gone' \ Pending') /\ gone' \ Pending' \in SUBSET Entries
      BY <1>6, <2>2, <3>1
    <3>3. Cardinality(gone \ Pending) <= Cardinality(gone' \ Pending') /\ Cardinality(gone' \ Pending') \in Nat
      BY <3>2, GoneFacts
    <3> QED BY <1>17, <2>1, <3>1, <3>3
  <2> QED BY <2>4, <2>5
<1>20. Counted'
  BY <1>2, <1>18, <1>19 DEF Counted
<1> QED BY <1>12, <1>13, <1>14, <1>15, <1>16, <1>20 DEF TInv

LEMMA AddWorkTInv ==
  ASSUME TypeOK, TInv, NEW t \in Threads, AddWork(t)
  PROVE  TInv'
<1> DEFINE p == path[t]
           new == {Append(p, e) : e \in kept[t]}
<1>1. /\ pc[t] = "remove" /\ contents[t] = {} /\ pc' = [pc EXCEPT ![t] = "idle"]
      /\ todo' = todo \cup new /\ kept' = [kept EXCEPT ![t] = {}] /\ path' = [path EXCEPT ![t] = << >>]
  BY DEF AddWork
<1>2. /\ parent' = parent /\ gone' = gone /\ contents' = contents /\ moved' = moved /\ moves' = moves
      /\ items_removed' = items_removed /\ outcome' = outcome
  BY DEF AddWork, tree, history
<1>3. GoneOut /\ Hands /\ PathsKnown /\ Separate /\ Homes /\ Counted
  BY DEF TInv
<1>4. /\ pc \in [Threads -> {"idle", "read", "remove"}] /\ path \in [Threads -> Seq(Dirs)]
      /\ kept \in [Threads -> SUBSET Dirs] /\ p \in Seq(Dirs) /\ todo \subseteq Seq(Dirs)
  BY DEF TypeOK
<1>5. /\ pc'[t] = "idle" /\ kept'[t] = {}
      /\ \A u \in Threads \ {t} : path'[u] = path[u] /\ pc'[u] = pc[u] /\ kept'[u] = kept[u]
  <2> DEFINE T == Seq(Dirs)
  <2>1. path \in [Threads -> T]
    BY <1>4
  <2> HIDE DEF T, new
  <2> QED BY <1>1, <1>4, <2>1
<1>6. t \in Busy /\ Busy' = Busy \ {t}
  BY <1>1, <1>5 DEF Busy
<1>7. InHand(t)' = {} /\ \A u \in Threads \ {t} : InHand(u)' = InHand(u)
  BY <1>1, <1>2, <1>5 DEF InHand
<1>8. \A e : Known(e)' = Known(e)
  BY <1>2 DEF Known
<1>9. p \in Live /\ Live' \subseteq Live \cup new
  <2>1. \A u \in Busy' : path'[u] \in Live
    BY <1>5, <1>6 DEF Live, Busy
  <2> QED BY <1>1, <1>6, <2>1 DEF Live
<1>10. \A e \in kept[t] : e \in Entries /\ e \in Dirs /\ e \in InHand(t) /\ Known(e)
  BY <1>3, <1>4 DEF Hands, InHand
<1>11. new \subseteq Seq(Dirs)
  <2>1. \A e \in kept[t] : Append(p, e) \in Seq(Dirs)
    BY <1>4, <1>10, AppendFacts
  <2> QED BY <2>1
<1> HIDE DEF p
<1>12. GoneOut'
  BY <1>2, <1>3 DEF GoneOut
<1>13. Hands'
  BY <1>3, <1>5, <1>7, <1>8 DEF Hands
<1>14. PathsKnown'
  <2> SUFFICES ASSUME NEW q \in Live', NEW k \in DOMAIN q PROVE q[k] \in Entries /\ Known(q[k])
    BY <1>8 DEF PathsKnown
  <2>1. CASE q \in Live
    BY <1>3, <2>1 DEF PathsKnown
  <2>2. CASE q \in new
    <3>1. PICK e \in kept[t] : q = Append(p, e)
      BY <2>2
    <3>2. e \in Dirs /\ e \in Entries /\ Known(e)
      BY <1>10
    <3>3. /\ Len(p) \in Nat /\ DOMAIN p = 1..Len(p) /\ DOMAIN q = 1..Len(p) + 1
          /\ \A j \in 1..Len(p) : q[j] = p[j]
          /\ q[Len(p) + 1] = e
      BY <1>4, <3>1, <3>2, AppendFacts
    <3>4. CASE k \in 1..Len(p)
      BY <1>3, <1>9, <3>3, <3>4 DEF PathsKnown
    <3>5. CASE k = Len(p) + 1
      BY <3>2, <3>3, <3>5
    <3> QED BY <3>3, <3>4, <3>5
  <2> QED BY <1>9, <2>1, <2>2
<1>15. Separate'
  <2>1. ASSUME NEW q \in new, NEW r \in Seq(Dirs), Prefix(q, r) PROVE Prefix(p, r)
    <3>1. PICK e \in kept[t] : q = Append(p, e)
      BY <2>1
    <3> QED BY <1>4, <1>10, <2>1, <3>1, AppendPrefix
  <2>2. ASSUME NEW q \in new, NEW r \in Seq(Dirs), Prefix(r, q) PROVE Prefix(r, p) \/ r = q
    <3>1. PICK e \in kept[t] : q = Append(p, e)
      BY <2>2
    <3> QED BY <1>4, <1>10, <2>2, <3>1, PrefixOfAppend
  <2>3. \A q \in new : ~Prefix(q, p)
    <3> TAKE q \in new
    <3>1. PICK e \in kept[t] : q = Append(p, e)
      OBVIOUS
    <3>2. Len(q) = Len(p) + 1 /\ Len(p) \in Nat
      BY <1>4, <1>10, <3>1, AppendFacts
    <3> QED BY <3>2 DEF Prefix
  <2>4. \A q \in todo : ~Prefix(p, q) /\ ~Prefix(q, p)
    BY <1>3, <1>6 DEF Separate, p
  <2>5. \A u \in Busy' : u \in Busy /\ u # t /\ path'[u] = path[u] /\ path[u] \in Seq(Dirs)
    BY <1>4, <1>5, <1>6 DEF Busy
  <2>6. \A u \in Busy' : ~Prefix(p, path'[u]) /\ ~Prefix(path'[u], p)
    BY <1>3, <1>6, <2>5 DEF Separate, p
  <2>7. ASSUME NEW q \in todo', NEW r \in todo', Prefix(q, r) PROVE q = r
    <3>0. q \in Seq(Dirs) /\ r \in Seq(Dirs)
      BY <1>1, <1>4, <1>11
    <3>1. CASE q \in todo /\ r \in todo
      BY <1>3, <2>7, <3>1 DEF Separate
    <3>2. CASE q \in new /\ r \in todo
      BY <2>1, <2>4, <2>7, <3>0, <3>2
    <3>3. CASE q \in todo /\ r \in new
      BY <2>2, <2>4, <2>7, <3>0, <3>3
    <3>4. CASE q \in new /\ r \in new
      BY <2>2, <2>3, <2>7, <3>0, <3>4
    <3> QED BY <1>1, <3>1, <3>2, <3>3, <3>4
  <2>8. ASSUME NEW u \in Busy', NEW q \in todo' PROVE ~Prefix(path'[u], q) /\ ~Prefix(q, path'[u])
    <3>1. CASE q \in todo
      BY <1>3, <2>5, <3>1 DEF Separate
    <3>2. CASE q \in new
      <4>1. ~Prefix(q, path'[u])
        BY <2>1, <2>5, <2>6, <3>2
      <4>2. ASSUME Prefix(path'[u], q) PROVE FALSE
        <5>1. path'[u] = q
          BY <2>2, <2>5, <2>6, <3>2, <4>2
        <5>2. Prefix(q, path'[u])
          BY <2>5, <5>1, PrefixRefl
        <5> QED BY <4>1, <5>2
      <4> QED BY <4>1, <4>2
    <3> QED BY <1>1, <3>1, <3>2
  <2>9. \A u, v \in Busy' : Prefix(path'[u], path'[v]) => u = v
    BY <1>3, <2>5 DEF Separate
  <2> QED BY <2>7, <2>8, <2>9 DEF Separate
<1>16. Homes'
  <2> SUFFICES ASSUME ~moved PROVE \E home \in [Entries -> Dirs \cup {None}] : HomeOf(home)'
    BY <1>2 DEF Homes
  <2>1. PICK home \in [Entries -> Dirs \cup {None}] : HomeOf(home)
    BY <1>3 DEF Homes
  <2>2. \A u \in Threads : \A e \in InHand(u)' : home[e] = LastOf(path'[u])
    BY <1>5, <1>7, <2>1 DEF HomeOf
  <2>3. ASSUME NEW q \in Live', NEW k \in DOMAIN q PROVE home[q[k]] = Above(q, k)
    <3>1. CASE q \in Live
      BY <2>1, <3>1 DEF HomeOf
    <3>2. CASE q \in new
      <4>1. PICK e \in kept[t] : q = Append(p, e)
        BY <3>2
      <4>2. e \in Dirs
        BY <1>10
      <4>3. /\ Len(p) \in Nat /\ DOMAIN p = 1..Len(p) /\ DOMAIN q = 1..Len(p) + 1
            /\ \A j \in 1..Len(p) : q[j] = p[j]
            /\ q[Len(p) + 1] = e
        BY <1>4, <4>1, <4>2, AppendFacts
      <4>4. CASE k \in 1..Len(p)
        <5>1. home[p[k]] = Above(p, k)
          BY <1>9, <2>1, <4>3, <4>4 DEF HomeOf
        <5>2. Above(q, k) = Above(p, k)
          <6>1. k # 1 => k - 1 \in 1..Len(p)
            BY <4>3, <4>4
          <6> QED BY <4>3, <6>1 DEF Above
        <5> QED BY <4>3, <4>4, <5>1, <5>2
      <4>5. CASE k = Len(p) + 1
        <5>1. home[e] = LastOf(p)
          BY <1>10, <2>1 DEF HomeOf, p
        <5>2. CASE Len(p) = 0
          <6>1. p = << >>
            BY <1>4, <5>2
          <6>2. LastOf(p) = Top /\ Above(q, k) = Top
            BY <4>5, <5>2, <6>1 DEF LastOf, Above
          <6> QED BY <4>3, <4>5, <5>1, <6>2
        <5>3. CASE Len(p) > 0
          <6>1. p # << >> /\ k # 1 /\ k - 1 = Len(p) /\ k - 1 \in 1..Len(p)
            BY <1>4, <4>3, <4>5, <5>3
          <6>2. LastOf(p) = p[Len(p)] /\ Above(q, k) = q[Len(p)]
            BY <6>1 DEF LastOf, Above
          <6> QED BY <4>3, <4>5, <5>1, <6>1, <6>2
        <5> QED BY <4>3, <5>2, <5>3
      <4> QED BY <4>3, <4>4, <4>5
    <3> QED BY <1>9, <3>1, <3>2
  <2>4. HomeOf(home)'
    BY <1>2, <2>1, <2>2, <2>3 DEF HomeOf
  <2> QED BY <2>4
<1>17. Counted'
  <2>1. Pending' = Pending /\ TopRemoved' = TopRemoved
    BY <1>2 DEF Pending, TopRemoved
  <2> QED BY <1>2, <1>3, <2>1 DEF Counted
<1> QED BY <1>12, <1>13, <1>14, <1>15, <1>16, <1>17 DEF TInv

LEMMA OpenFailsTInv ==
  ASSUME TypeOK, TInv, NEW t \in Threads, OpenFails(t)
  PROVE  TInv'
<1>1. /\ UNCHANGED <<tree, workers, moves, moved>> /\ todo' \subseteq todo
      /\ items_removed' = items_removed /\ outcome' = outcome
  BY DEF OpenFails, history
<1>2. items_removed \in Nat /\ TopRemoved' = TopRemoved /\ TopRemoved \in Nat
  BY <1>1 DEF TypeOK, TopRemoved
<1>3. items_removed' \in Nat /\ items_removed' + TopRemoved = items_removed + TopRemoved'
  BY <1>1, <1>2
<1> QED BY <1>1, <1>3, MainFrame

-----------------------------------------------------------------------------
(* What others do                                                          *)

\* Each thing they do is allowed for in the count, as it may take one entry away.
LEMMA MeddleFrame ==
  ASSUME TypeOK, TInv, NEW d, Meddle(d), TypeOK',
         GoneOut', Homes', moved => moved',
         gone \subseteq gone', Cardinality(gone') <= Cardinality(gone) + 1,
         \A e \in Entries : Known(e) => Known(e)'
  PROVE  TInv'
<1>1. /\ pc' = pc /\ path' = path /\ contents' = contents /\ kept' = kept /\ todo' = todo
      /\ items_removed' = items_removed /\ outcome' = outcome /\ moves' = moves + 1
  BY DEF Meddle, workers
<1>2. GoneOut /\ Hands /\ PathsKnown /\ Separate /\ Homes /\ Counted
  BY DEF TInv
<1>3. contents \in [Threads -> SUBSET Entries] /\ gone' \subseteq Entries /\ gone \subseteq Entries
  BY DEF TypeOK
<1>4. Busy' = Busy /\ Live' = Live /\ (\A t \in Threads : InHand(t)' = InHand(t))
  <2>1. Busy' = Busy
    BY <1>1 DEF Busy
  <2> QED BY <1>1, <2>1 DEF Live, InHand
<1>5. Hands'
  <2>1. \A t \in Threads : InHand(t) \subseteq Entries
    BY <1>2, <1>3 DEF Hands, InHand
  <2> QED BY <1>1, <1>2, <1>4, <2>1 DEF Hands
<1>6. PathsKnown'
  BY <1>2, <1>4 DEF PathsKnown
<1>7. Separate'
  BY <1>1, <1>2, <1>4 DEF Separate
<1>8. Counted'
  <2>1. Pending' = Pending /\ TopRemoved' = TopRemoved /\ TopRemoved \in Nat
    BY <1>1 DEF Pending, TopRemoved
  <2>2. /\ Cardinality(gone) \in Nat /\ Cardinality(gone') \in Nat /\ items_removed \in Nat /\ moves \in Nat
    BY <1>3, GoneFacts, ReduceAssumption DEF TypeOK
  <2>3. items_removed' >= Cardinality(gone') + TopRemoved' - moves'
    <3>1. items_removed >= Cardinality(gone) + TopRemoved - moves
      BY <1>2 DEF Counted
    <3> QED BY <1>1, <2>1, <2>2, <3>1
  <2>4. ASSUME ~moved' PROVE items_removed' <= Cardinality(gone' \ Pending') + TopRemoved'
    <3>1. items_removed <= Cardinality(gone \ Pending) + TopRemoved
      BY <1>2, <2>4 DEF Counted
    <3>2. gone \ Pending \in SUBSET (gone' \ Pending) /\ gone' \ Pending \in SUBSET Entries
      BY <1>3
    <3>3. /\ Cardinality(gone \ Pending) <= Cardinality(gone' \ Pending)
          /\ Cardinality(gone \ Pending) \in Nat /\ Cardinality(gone' \ Pending) \in Nat
      <4>1. gone \ Pending \in SUBSET Entries
        BY <1>3
      <4> QED BY <3>2, <4>1, GoneFacts
    <3> QED BY <1>1, <2>1, <2>2, <3>1, <3>3
  <2> QED BY <2>3, <2>4 DEF Counted
<1> QED BY <1>2, <1>5, <1>6, <1>7, <1>8 DEF TInv

\* An entry that others remove keeps its home.
LEMMA OthersRemoveTInv ==
  ASSUME TypeOK, TInv, TypeOK', NEW e \in Entries, OthersRemove(e)
  PROVE  TInv'
<1>1. /\ parent[e] # None /\ parent' = [parent EXCEPT ![e] = None] /\ gone' = gone \cup {e}
      /\ Meddle(None) /\ moved' = moved
  BY DEF OthersRemove
<1>2. /\ parent \in [Entries -> Dirs \cup {None}] /\ gone \subseteq Entries
      /\ GoneOut /\ Homes
  BY DEF TypeOK, TInv
<1>3. GoneOut'
  BY <1>1, <1>2 DEF GoneOut
<1>4. \A x \in Entries : (Known(x) => Known(x)') /\ (parent'[x] # None => parent'[x] = parent[x])
  BY <1>1, <1>2 DEF Known
<1>5. Cardinality(gone') <= Cardinality(gone) + 1
  <2>1. e \notin gone
    BY <1>1, <1>2 DEF GoneOut
  <2>2. Cardinality(gone') = Cardinality(gone) + 1 /\ Cardinality(gone) \in Nat
    BY <1>1, <1>2, <2>1, GoneFacts
  <2> QED BY <2>2
<1>6. Homes'
  <2> SUFFICES ASSUME ~moved PROVE \E home \in [Entries -> Dirs \cup {None}] : HomeOf(home)'
    BY <1>1 DEF Homes
  <2>1. PICK home \in [Entries -> Dirs \cup {None}] : HomeOf(home)
    BY <1>2 DEF Homes
  <2>2. pc' = pc /\ path' = path /\ contents' = contents /\ kept' = kept /\ todo' = todo
    BY <1>1 DEF Meddle, workers
  <2>3. Live' = Live /\ (\A t \in Threads : InHand(t)' = InHand(t))
    BY <2>2 DEF Live, Busy, InHand
  <2>4. HomeOf(home)'
    BY <1>4, <2>1, <2>2, <2>3 DEF HomeOf
  <2> QED BY <2>4
<1> QED BY <1>1, <1>3, <1>4, <1>5, <1>6, MeddleFrame

\* One that they add gets its home, as nobody knows of it yet.
LEMMA OthersAddTInv ==
  ASSUME TypeOK, TInv, TypeOK', NEW e \in Entries, NEW d \in Dirs, OthersAdd(e, d)
  PROVE  TInv'
<1>1. /\ parent[e] = None /\ e \notin gone /\ parent' = [parent EXCEPT ![e] = d] /\ gone' = gone
      /\ Meddle(d) /\ moved' = moved
  BY DEF OthersAdd
<1>2. /\ parent \in [Entries -> Dirs \cup {None}] /\ gone \subseteq Entries
      /\ contents \in [Threads -> SUBSET Entries] /\ None \notin Dirs
      /\ GoneOut /\ Homes /\ Hands /\ PathsKnown
  BY ReduceAssumption DEF TypeOK, TInv
<1>3. GoneOut'
  BY <1>1, <1>2 DEF GoneOut
<1>4. ~Known(e) /\ \A x \in Entries : Known(x) => Known(x)'
  BY <1>1, <1>2 DEF Known
<1>5. Cardinality(gone') <= Cardinality(gone) + 1
  <2>1. Cardinality(gone) \in Nat
    BY <1>2, GoneFacts
  <2> QED BY <1>1, <2>1
<1>6. Homes'
  <2> SUFFICES ASSUME ~moved PROVE \E home \in [Entries -> Dirs \cup {None}] : HomeOf(home)'
    BY <1>1 DEF Homes
  <2>1. PICK home \in [Entries -> Dirs \cup {None}] : HomeOf(home)
    BY <1>2 DEF Homes
  <2> DEFINE new == [home EXCEPT ![e] = d]
  <2>2. new \in [Entries -> Dirs \cup {None}] /\ new[e] = d /\ \A x \in Entries \ {e} : new[x] = home[x]
    BY <2>1
  <2> HIDE DEF new
  <2>3. pc' = pc /\ path' = path /\ contents' = contents /\ kept' = kept /\ todo' = todo
    BY <1>1 DEF Meddle, workers
  <2>4. Live' = Live /\ (\A t \in Threads : InHand(t)' = InHand(t))
    BY <2>3 DEF Live, Busy, InHand
  <2>5. \A x \in Entries : parent'[x] # None => new[x] = parent'[x]
    BY <1>1, <1>2, <2>1, <2>2 DEF HomeOf
  <2>6. \A t \in Threads : \A x \in InHand(t) : new[x] = LastOf(path[t])
    <3>1. \A t \in Threads : \A x \in InHand(t) : x \in Entries \ {e}
      BY <1>2, <1>4 DEF Hands, InHand
    <3> QED BY <2>1, <2>2, <3>1 DEF HomeOf
  <2>7. \A p \in Live : \A k \in DOMAIN p : new[p[k]] = Above(p, k)
    <3>1. \A p \in Live : \A k \in DOMAIN p : p[k] \in Entries \ {e}
      BY <1>2, <1>4 DEF PathsKnown
    <3> QED BY <2>1, <2>2, <3>1 DEF HomeOf
  <2>8. HomeOf(new)'
    BY <2>3, <2>4, <2>5, <2>6, <2>7 DEF HomeOf, new
  <2> QED BY <2>2, <2>8
<1> QED BY <1>1, <1>3, <1>4, <1>5, <1>6, MeddleFrame

\* Once they have moved one, only the lower bound is claimed.
LEMMA OthersMoveTInv ==
  ASSUME TypeOK, TInv, TypeOK', NEW e \in Entries, NEW d \in Dirs, OthersMove(e, d)
  PROVE  TInv'
<1>1. /\ parent[e] # None /\ parent' = [parent EXCEPT ![e] = d] /\ gone' = gone
      /\ Meddle(d) /\ moved' = TRUE
  BY DEF OthersMove
<1>2. /\ parent \in [Entries -> Dirs \cup {None}] /\ gone \subseteq Entries
      /\ None \notin Dirs /\ GoneOut
  BY ReduceAssumption DEF TypeOK, TInv
<1>3. GoneOut'
  BY <1>1, <1>2 DEF GoneOut
<1>4. \A x \in Entries : Known(x) => Known(x)'
  BY <1>1, <1>2 DEF Known
<1>5. Cardinality(gone') <= Cardinality(gone) + 1
  <2>1. Cardinality(gone) \in Nat
    BY <1>2, GoneFacts
  <2> QED BY <1>1, <2>1
<1>6. Homes' /\ (moved => moved')
  BY <1>1 DEF Homes
<1> QED BY <1>1, <1>3, <1>4, <1>5, <1>6, MeddleFrame

-----------------------------------------------------------------------------
LEMMA NextTInv == Ind /\ TInv /\ [Next]_vars => TInv'
<1> SUFFICES ASSUME Ind, TInv, [Next]_vars PROVE TInv'
  OBVIOUS
<1>1. TypeOK /\ TypeOK'
  BY NextType DEF Ind
<1>2. CASE Reducer \/ TraverseFails \/ Elapse \/ UNCHANGED vars
  BY <1>2, MainTInv
<1>3. ASSUME NEW t \in Threads, Thread(t) PROVE TInv'
  BY <1>1, <1>3, OpenTInv, OpenFailsTInv, ReadTInv, AddWorkTInv, RemoveTInv DEF Thread
<1>4. CASE Others
  BY <1>1, <1>4, OthersRemoveTInv, OthersAddTInv, OthersMoveTInv DEF Others
<1> QED BY <1>2, <1>3, <1>4 DEF Next, Done

\* The number of entries that reduce() returns (reduce.ipp: items_removed of the visitor,
\* and one for the directory itself) is, for any tree, any number of threads and whatever
\* others do, at least that of the entries removed less one for each thing others did,
\* and at most that if nobody moved an entry.
THEOREM TallyHolds == Spec => []Tally
<1>1. Ind /\ TInv => Tally
  <2> SUFFICES ASSUME Ind, TInv, outcome = "ok"
               PROVE  /\ items_removed >= Cardinality(gone) + 1 - moves
                      /\ ~moved => items_removed <= Cardinality(gone) + 1
    BY DEF Tally
  <2>1. TopRemoved = 1 /\ Counted /\ gone \in SUBSET Entries /\ items_removed \in Nat
    BY DEF Ind, TypeOK, TInv, TopRemoved
  <2>2. gone \ Pending \in SUBSET gone /\ gone \ Pending \in SUBSET Entries
    BY <2>1
  <2>3. /\ Cardinality(gone \ Pending) <= Cardinality(gone)
        /\ Cardinality(gone \ Pending) \in Nat /\ Cardinality(gone) \in Nat
    BY <2>1, <2>2, GoneFacts
  <2> QED BY <2>1, <2>3 DEF Counted
<1> QED
  BY <1>1, InitInd, NextInd, InitTInv, NextTInv, PTL DEF Spec


-----------------------------------------------------------------------------
(* The invariant of Progress                                               *)

\* Has the round been in vain so far?  Nothing was removed, others did nothing, and
\* what cannot be removed is not in the tree.
Vain ==
  /\ stage = "traverse" /\ ~disturbed /\ items_removed = before
  /\ \A e \in stuck : parent[e] = None

Worth(p) == Leads(p) /\ (p # << >> => In(LastOf(p)) # {})

\* In such a round all that threads know of the tree is so, and no directory below Top
\* is to be visited that is empty.
Fresh ==
  /\ \A p \in todo : Worth(p)
  /\ \A t \in Threads :
       /\ pc[t] = "read" => Worth(path[t])
       /\ pc[t] = "remove" =>
            /\ Leads(path[t])
            /\ \A e \in contents[t] : parent[e] = LastOf(path[t])
            /\ \A e \in kept[t] : parent[e] = LastOf(path[t]) /\ In(e) # {}

\* Thread t is in a directory that is not empty and not Top, or has one to be visited.
Deeper(t) ==
  \/ pc[t] = "read" /\ path[t] # << >>
  \/ pc[t] = "remove" /\ contents[t] # {} /\ path[t] # << >>
  \/ pc[t] = "remove" /\ kept[t] # {}

\* What was not removed is, or has in it, a directory that is still to be gone through.
Owing == not_removed => (\E p \in todo : p # << >>) \/ \E t \in Threads : Deeper(t)

PInv == before <= items_removed /\ (Vain => Fresh /\ Owing)

LEMMA InitPInv == Init => PInv
BY DEF Init, PInv, Vain

\* In a round in vain every directory to visit can be opened.
LEMMA CanOpen ==
  ASSUME TypeOK, TInv, Vain, Fresh, NEW p \in todo
  PROVE  Leads(p) /\ LastOf(p) \notin stuck
<1>1. Leads(p)
  BY DEF Fresh, Worth
<1>2. CASE p = << >>
  BY <1>1, <1>2 DEF TypeOK, LastOf, Entries
<1>3. CASE p # << >>
  <2>1. p \in Seq(Dirs) /\ p \in Live
    BY DEF TypeOK, Live
  <2>2. Len(p) \in DOMAIN p /\ LastOf(p) = p[Len(p)]
    BY <1>3, <2>1 DEF LastOf
  <2> DEFINE k == Len(p)
  <2>3. k # 1 => k - 1 \in DOMAIN p
    <3>1. DOMAIN p = 1..k /\ k \in Nat
      BY <2>1
    <3>2. k \in DOMAIN p
      BY <2>2
    <3> HIDE DEF k
    <3> QED BY <3>1, <3>2
  <2> HIDE DEF k
  <2>4. p[k] \in Entries /\ parent[p[k]] = Above(p, k)
    BY <1>1, <2>1, <2>2 DEF Leads, Above, TInv, PathsKnown, k
  <2>5. Above(p, k) \in Dirs
    <3>1. k # 1 => p[k - 1] \in Dirs
      BY <2>1, <2>3
    <3> QED BY <3>1, ReduceAssumption DEF Above
  <2>6. parent[p[k]] # None
    BY <2>4, <2>5, ReduceAssumption
  <2> QED BY <1>1, <2>2, <2>6 DEF Vain, k
<1> QED BY <1>2, <1>3

\* The path to an entry of the directory that p leads to.
LEMMA LeadsOn ==
  ASSUME NEW p \in Seq(Dirs), NEW e \in Dirs, Leads(p), parent[e] = LastOf(p)
  PROVE  Leads(Append(p, e)) /\ LastOf(Append(p, e)) = e /\ Append(p, e) # << >>
<1> DEFINE q == Append(p, e)
           n == Len(p)
<1>1. /\ q \in Seq(Dirs) /\ Len(q) = n + 1 /\ n \in Nat
      /\ DOMAIN p = 1..n /\ DOMAIN q = 1..n + 1
      /\ \A k \in 1..n : q[k] = p[k]
      /\ q[n + 1] = e
  BY AppendFacts
<1>2. q # << >>
  BY <1>1
<1>3. n = 0 <=> p = << >>
  OBVIOUS
<1>4. LastOf(p) = IF n = 0 THEN Top ELSE p[n]
  BY <1>3 DEF LastOf
<1> HIDE DEF q, n
<1>5. LastOf(q) = e
  BY <1>1, <1>2 DEF LastOf
<1>6. ASSUME NEW k \in DOMAIN q PROVE parent[q[k]] = IF k = 1 THEN Top ELSE q[k - 1]
  <2>1. CASE k \in 1..n
    <3>1. k # 1 => k - 1 \in 1..n
      BY <1>1, <2>1
    <3> QED BY <1>1, <2>1, <3>1 DEF Leads
  <2>2. CASE k = n + 1
    <3>1. n # 0 => n \in 1..n /\ k # 1 /\ k - 1 = n
      BY <1>1, <2>2
    <3>2. n = 0 => k = 1
      BY <2>2
    <3> QED BY <1>1, <1>4, <2>2, <3>1, <3>2
  <2> QED BY <1>1, <2>1, <2>2
<1> QED BY <1>2, <1>5, <1>6 DEF Leads, q

\* A step that leaves the tree alone leaves what leads where as it is.
LEMMA SameTree ==
  ASSUME parent' = parent, stuck' = stuck
  PROVE  /\ \A d : In(d)' = In(d)
         /\ \A p : Leads(p)' = Leads(p)
         /\ \A p : Worth(p)' = Worth(p)
<1>1. \A d : In(d)' = In(d)
  BY DEF In
<1>2. \A p : Leads(p)' = Leads(p)
  BY DEF Leads
<1> QED BY <1>1, <1>2 DEF Worth, LastOf

\* All but the threads: the clock aside, a step begins or ends the round or disturbs it.
LEMMA MainPInv ==
  ASSUME Ind, TInv, PInv, Reducer \/ TraverseFails \/ Elapse \/ Others \/ UNCHANGED vars
  PROVE  PInv'
<1>0. before \in Nat /\ items_removed \in Nat /\ before <= items_removed
  BY DEF Ind, TypeOK, PInv
<1>1. CASE Hide
  BY <1>1 DEF Hide, PInv, Vain, history
<1>2. CASE Round
  <2>1. /\ todo' = {<< >>} /\ ~not_removed' /\ before' = items_removed
        /\ items_removed' = items_removed /\ pc' = pc /\ \A t \in Threads : pc[t] = "idle"
    BY <1>2 DEF Round, Ind, Quiet, Idle, workers
  <2>2. Worth(<< >>)'
    BY DEF Worth, Leads
  <2>3. Fresh'
    BY <2>1, <2>2 DEF Fresh
  <2>4. Owing'
    BY <2>1 DEF Owing
  <2> QED BY <1>0, <2>1, <2>3, <2>4 DEF PInv
<1>3. CASE RoundEnds \/ TraverseFails
  <2>1. stage' # "traverse" /\ before' = before /\ items_removed' = items_removed
    BY <1>3 DEF RoundEnds, TraverseFails, Finish, history
  <2> QED BY <1>0, <2>1 DEF PInv, Vain
<1>4. CASE UnlinkTop
  <2>1. stage' # "traverse" /\ before' = before /\ items_removed' \in {items_removed, items_removed + 1}
    BY <1>4 DEF UnlinkTop, Finish, history
  <2> QED BY <1>0, <2>1 DEF PInv, Vain
<1>5. CASE Elapse \/ UNCHANGED vars
  <2>1. UNCHANGED <<parent, stuck, stage, todo, pc, path, contents, kept, items_removed,
                    not_removed, before, disturbed>>
    BY <1>5 DEF Elapse, vars, tree, workers, history
  <2>2. Vain' = Vain
    BY <2>1 DEF Vain
  <2>3. Fresh' = Fresh
    BY <2>1, SameTree DEF Fresh, LastOf
  <2>4. Owing' = Owing
    BY <2>1 DEF Owing, Deeper
  <2> QED BY <1>0, <2>1, <2>2, <2>3, <2>4 DEF PInv
<1>6. CASE Others
  <2>1. disturbed' = TRUE /\ before' = before /\ items_removed' = items_removed
    BY <1>6 DEF Others, OthersRemove, OthersAdd, OthersMove, Meddle
  <2> QED BY <1>0, <2>1 DEF PInv, Vain
<1> QED BY <1>1, <1>2, <1>3, <1>4, <1>5, <1>6 DEF Reducer

LEMMA OpenPInv ==
  ASSUME Ind, TInv, PInv, NEW t \in Threads, Open(t)
  PROVE  PInv'
<1>1. PICK p \in todo : todo' = todo \ {p} /\ path' = [path EXCEPT ![t] = p]
  BY DEF Open
<1>2. /\ pc[t] = "idle" /\ pc' = [pc EXCEPT ![t] = "read"]
      /\ UNCHANGED <<parent, stuck, stage, contents, kept, items_removed, not_removed,
                     before, disturbed>>
  BY DEF Open, tree, history
<1>3. /\ pc'[t] = "read" /\ path'[t] = p
      /\ \A u \in Threads \ {t} : pc'[u] = pc[u] /\ path'[u] = path[u]
  <2>1. pc \in [Threads -> {"idle", "read", "remove"}]
    BY DEF Ind, TypeOK
  <2>2. path \in [Threads -> Seq(Dirs)]
    BY DEF Ind, TypeOK
  <2> DEFINE S == Seq(Dirs)
  <2>3. path \in [Threads -> S]
    BY <2>2
  <2> HIDE DEF S
  <2> QED BY <1>1, <1>2, <2>1, <2>3
<1>4. Vain' = Vain
  BY <1>2 DEF Vain
<1>5. ASSUME Vain PROVE Fresh' /\ Owing'
  <2>1. Fresh /\ Owing
    BY <1>5 DEF PInv
  <2>2. Worth(p)
    BY <2>1 DEF Fresh
  <2>3. Fresh'
    <3>1. \A q \in todo' : Worth(q)'
      BY <1>1, <1>2, <2>1, SameTree DEF Fresh
    <3>2. ASSUME NEW u \in Threads, u # t
          PROVE  /\ pc'[u] = "read" => Worth(path'[u])
                 /\ pc'[u] = "remove" =>
                      /\ Leads(path'[u])
                      /\ \A e \in contents'[u] : parent[e] = LastOf(path'[u])
                      /\ \A e \in kept'[u] : parent[e] = LastOf(path'[u]) /\ In(e) # {}
      BY <1>2, <1>3, <2>1, <3>2 DEF Fresh
    <3>3. pc'[t] = "read" /\ Worth(path'[t])
      BY <1>3, <2>2
    <3> QED BY <1>2, <3>1, <3>2, <3>3, SameTree DEF Fresh, LastOf
  <2>4. Owing'
    <3> SUFFICES ASSUME not_removed PROVE (\E q \in todo' : q # << >>) \/ \E u \in Threads : Deeper(u)'
      BY <1>2 DEF Owing
    <3>1. CASE p # << >>
      <4>1. Deeper(t)'
        BY <1>3, <3>1 DEF Deeper
      <4> QED BY <4>1
    <3>2. CASE \E q \in todo : q # << >> /\ q # p
      BY <1>1, <3>2
    <3>3. ASSUME NEW u \in Threads, Deeper(u) PROVE Deeper(u)'
      <4>1. u # t
        BY <1>2, <3>3 DEF Deeper
      <4> QED BY <1>2, <1>3, <3>3, <4>1 DEF Deeper
    <3> QED BY <2>1, <3>1, <3>2, <3>3 DEF Owing
  <2> QED BY <2>3, <2>4
<1> QED BY <1>2, <1>4, <1>5 DEF PInv

LEMMA OpenFailsPInv ==
  ASSUME Ind, TInv, PInv, NEW t \in Threads, OpenFails(t)
  PROVE  PInv'
<1>1. UNCHANGED <<parent, stuck, stage, items_removed, before, disturbed>>
  BY DEF OpenFails, tree, history
<1>2. Vain' = Vain
  BY <1>1 DEF Vain
<1>3. ~Vain
  <2> SUFFICES ASSUME Vain PROVE FALSE
    OBVIOUS
  <2>1. Fresh /\ TypeOK
    BY DEF PInv, Ind
  <2>2. PICK p \in todo : ~Leads(p) \/ LastOf(p) \in stuck
    BY DEF OpenFails
  <2> QED BY <2>1, <2>2, CanOpen
<1> QED BY <1>1, <1>2, <1>3 DEF PInv

LEMMA ReadPInv ==
  ASSUME Ind, TInv, PInv, NEW t \in Threads, Read(t)
  PROVE  PInv'
<1> DEFINE d == LastOf(path[t])
           c == In(d)
<1>1. /\ pc[t] = "read" /\ pc' = [pc EXCEPT ![t] = "remove"]
      /\ contents' = [contents EXCEPT ![t] = c]
      /\ UNCHANGED <<parent, stuck, stage, todo, path, kept, items_removed, not_removed,
                     before, disturbed>>
  BY DEF Read, tree
<1> HIDE DEF c
<1>2. /\ pc'[t] = "remove" /\ contents'[t] = c
      /\ \A u \in Threads \ {t} : pc'[u] = pc[u] /\ contents'[u] = contents[u]
  BY <1>1 DEF Ind, TypeOK
<1>3. Vain' = Vain
  BY <1>1 DEF Vain
<1>4. kept[t] = {}
  BY <1>1 DEF TInv, Hands, InHand
<1>5. ASSUME Vain PROVE Fresh' /\ Owing'
  <2>1. Fresh /\ Owing /\ Worth(path[t])
    BY <1>1, <1>5 DEF PInv, Fresh
  <2>2. Fresh'
    <3>1. \A q \in todo' : Worth(q)'
      BY <1>1, <2>1, SameTree DEF Fresh
    <3>2. ASSUME NEW u \in Threads, u # t
          PROVE  /\ pc'[u] = "read" => Worth(path'[u])
                 /\ pc'[u] = "remove" =>
                      /\ Leads(path'[u])
                      /\ \A e \in contents'[u] : parent[e] = LastOf(path'[u])
                      /\ \A e \in kept'[u] : parent[e] = LastOf(path'[u]) /\ In(e) # {}
      BY <1>1, <1>2, <2>1, <3>2 DEF Fresh
    <3>3. /\ pc'[t] = "remove" /\ Leads(path'[t]) /\ kept'[t] = {}
          /\ \A e \in contents'[t] : parent[e] = LastOf(path'[t])
      <4>1. \A e \in c : parent[e] = d
        BY DEF c, In
      <4> QED BY <1>1, <1>2, <1>4, <2>1, <4>1 DEF Worth
    <3> QED BY <1>1, <3>1, <3>2, <3>3, SameTree DEF Fresh, LastOf
  <2>3. ASSUME NEW u \in Threads, Deeper(u) PROVE Deeper(u)'
    <3>1. CASE u = t
      <4>1. path[t] # << >> /\ c # {}
        BY <1>1, <2>1, <2>3, <3>1 DEF Deeper, Worth, c
      <4> QED BY <1>1, <1>2, <3>1, <4>1 DEF Deeper
    <3>2. CASE u # t
      BY <1>1, <1>2, <2>3, <3>2 DEF Deeper
    <3> QED BY <3>1, <3>2
  <2>4. Owing'
    BY <1>1, <2>1, <2>3 DEF Owing
  <2> QED BY <2>2, <2>4
<1> QED BY <1>1, <1>3, <1>5 DEF PInv

\* The directories a thread could not remove are to be visited.
LEMMA AddWorkPInv ==
  ASSUME Ind, TInv, PInv, NEW t \in Threads, AddWork(t)
  PROVE  PInv'
<1> DEFINE p == path[t]
           K == kept[t]
           new == {Append(p, e) : e \in K}
<1>1. /\ pc[t] = "remove" /\ contents[t] = {} /\ todo' = todo \cup new
      /\ pc' = [pc EXCEPT ![t] = "idle"] /\ path' = [path EXCEPT ![t] = << >>]
      /\ kept' = [kept EXCEPT ![t] = {}]
      /\ UNCHANGED <<parent, stuck, stage, contents, items_removed, not_removed,
                     before, disturbed>>
  BY DEF AddWork, tree, history
<1>2. p \in Seq(Dirs) /\ K \subseteq Dirs
  BY DEF Ind, TypeOK
<1>3. /\ pc'[t] = "idle"
      /\ \A u \in Threads \ {t} : pc'[u] = pc[u] /\ path'[u] = path[u] /\ kept'[u] = kept[u]
  <2> DEFINE S == Seq(Dirs)
  <2>1. path \in [Threads -> S] /\ pc \in [Threads -> {"idle", "read", "remove"}]
    BY DEF Ind, TypeOK
  <2>2. kept \in [Threads -> SUBSET Dirs]
    BY DEF Ind, TypeOK
  <2> HIDE DEF S, new
  <2> QED BY <1>1, <2>1, <2>2
<1>4. Vain' = Vain
  BY <1>1 DEF Vain
<1>5. ASSUME Vain PROVE Fresh' /\ Owing'
  <2>1. Fresh /\ Owing
    BY <1>5 DEF PInv
  <2>2. Leads(p) /\ \A e \in K : parent[e] = LastOf(p) /\ In(e) # {}
    BY <1>1, <2>1 DEF Fresh
  <2>3. ASSUME NEW e \in K PROVE Worth(Append(p, e)) /\ Append(p, e) # << >>
    <3>1. e \in Dirs /\ parent[e] = LastOf(p) /\ In(e) # {}
      BY <1>2, <2>2
    <3>2. Leads(Append(p, e)) /\ LastOf(Append(p, e)) = e /\ Append(p, e) # << >>
      BY <1>2, <2>2, <3>1, LeadsOn
    <3> QED BY <3>1, <3>2 DEF Worth
  <2>4. Fresh'
    <3>1. \A q \in todo' : Worth(q)
      BY <1>1, <2>1, <2>3 DEF Fresh
    <3>2. ASSUME NEW u \in Threads, u # t
          PROVE  /\ pc'[u] = "read" => Worth(path'[u])
                 /\ pc'[u] = "remove" =>
                      /\ Leads(path'[u])
                      /\ \A e \in contents'[u] : parent[e] = LastOf(path'[u])
                      /\ \A e \in kept'[u] : parent[e] = LastOf(path'[u]) /\ In(e) # {}
      BY <1>1, <1>3, <2>1, <3>2 DEF Fresh
    <3> HIDE DEF new
    <3> QED BY <1>1, <1>3, <3>1, <3>2, SameTree DEF Fresh, LastOf
  <2>5. Owing'
    <3> SUFFICES ASSUME not_removed PROVE (\E q \in todo' : q # << >>) \/ \E u \in Threads : Deeper(u)'
      BY <1>1 DEF Owing
    <3>1. CASE \E q \in todo : q # << >>
      BY <1>1, <3>1
    <3>2. CASE K # {}
      BY <1>1, <2>3, <3>2
    <3>3. ASSUME NEW u \in Threads, Deeper(u), K = {} PROVE Deeper(u)'
      <4>1. u # t
        BY <1>1, <3>3 DEF Deeper
      <4> HIDE DEF new
      <4> QED BY <1>1, <1>3, <3>3, <4>1 DEF Deeper
    <3> QED BY <2>1, <3>1, <3>2, <3>3 DEF Owing
  <2> QED BY <2>4, <2>5
<1> QED BY <1>1, <1>4, <1>5 DEF PInv

\* In a round in vain, what cannot be removed is a directory that is not empty.
LEMMA RemovePInv ==
  ASSUME Ind, TInv, PInv, NEW t \in Threads, NEW e \in Entries, RemoveEntry(t, e)
  PROVE  PInv'
<1> DEFINE d == LastOf(path[t])
<1>0. before \in Nat /\ items_removed \in Nat /\ before <= items_removed
  BY DEF Ind, TypeOK, PInv
<1>1. /\ pc[t] = "remove" /\ e \in contents[t]
      /\ contents' = [contents EXCEPT ![t] = @ \ {e}]
      /\ kept' = [kept EXCEPT ![t] = IF e \in Dirs /\ ~Succeeds(e, d) THEN @ \cup {e} ELSE @]
      /\ UNCHANGED <<stuck, stage, todo, pc, path, before, disturbed>>
  BY DEF RemoveEntry, Taken, history
<1>2. CASE Succeeds(e, d)
  <2>1. items_removed' = items_removed + 1
    BY <1>2 DEF RemoveEntry
  <2>2. items_removed' # before' /\ before' <= items_removed'
    BY <1>0, <1>1, <2>1
  <2> QED BY <2>2 DEF PInv, Vain
<1>3. CASE ~Succeeds(e, d)
  <2>1. items_removed' = items_removed /\ not_removed' = TRUE /\ parent' = parent
    BY <1>3 DEF RemoveEntry, Unlinkat, Succeeds, tree
  <2>2. Vain' = Vain
    BY <1>1, <2>1 DEF Vain
  <2>3. ASSUME Vain PROVE Fresh' /\ Owing'
    <3>1. Fresh
      BY <2>3 DEF PInv
    <3>2. parent[e] = d
      BY <1>1, <3>1 DEF Fresh
    <3>3. d \in Dirs
      <4>1. path[t] \in Seq(Dirs)
        BY DEF Ind, TypeOK
      <4> QED BY <4>1, ReduceAssumption DEF LastOf
    <3>4. e \notin stuck
      BY <2>3, <3>2, <3>3, ReduceAssumption DEF Vain
    <3>5. e \in Dirs /\ In(e) # {}
      BY <1>3, <3>2, <3>4 DEF Succeeds, Removable
    <3>6. /\ contents'[t] = contents[t] \ {e} /\ kept'[t] = kept[t] \cup {e}
          /\ \A u \in Threads \ {t} : contents'[u] = contents[u] /\ kept'[u] = kept[u]
      <4>1. kept' = [kept EXCEPT ![t] = @ \cup {e}]
        BY <1>1, <1>3, <3>5
      <4> QED BY <1>1, <4>1 DEF Ind, TypeOK
    <3>7. Fresh'
      <4>1. ASSUME NEW u \in Threads
            PROVE  /\ pc'[u] = "read" => Worth(path'[u])
                   /\ pc'[u] = "remove" =>
                        /\ Leads(path'[u])
                        /\ \A x \in contents'[u] : parent[x] = LastOf(path'[u])
                        /\ \A x \in kept'[u] : parent[x] = LastOf(path'[u]) /\ In(x) # {}
        <5>1. pc'[u] = pc[u] /\ path'[u] = path[u]
          BY <1>1
        <5>2. CASE u = t
          BY <1>1, <3>1, <3>2, <3>5, <3>6, <5>1, <5>2 DEF Fresh
        <5>3. CASE u # t
          BY <3>1, <3>6, <5>1, <5>3 DEF Fresh
        <5> QED BY <5>2, <5>3
      <4> QED BY <1>1, <2>1, <3>1, <4>1, SameTree DEF Fresh, LastOf
    <3>8. Deeper(t)'
      BY <1>1, <3>6 DEF Deeper
    <3>9. Owing'
      BY <3>8 DEF Owing
    <3> QED BY <3>7, <3>9
  <2> QED BY <1>0, <1>1, <2>1, <2>2, <2>3 DEF PInv
<1> QED BY <1>2, <1>3

LEMMA NextPInv == Ind /\ TInv /\ PInv /\ [Next]_vars => PInv'
<1> SUFFICES ASSUME Ind, TInv, PInv, [Next]_vars PROVE PInv'
  OBVIOUS
<1>1. CASE Reducer \/ TraverseFails \/ Elapse \/ Others \/ UNCHANGED vars
  BY <1>1, MainPInv
<1>2. ASSUME NEW t \in Threads, Thread(t) PROVE PInv'
  BY <1>2, OpenPInv, OpenFailsPInv, ReadPInv, AddWorkPInv, RemovePInv DEF Thread
<1> QED BY <1>1, <1>2 DEF Next, Done

\* A round of reduce() (reduce.ipp: the loop around traverse()) that leaves something,
\* and in which others did nothing, has removed an entry or met one that cannot be
\* removed, for any tree and any number of threads: so rounds are not repeated in vain.
THEOREM ProgressHolds == Spec => Progress
<1> DEFINE Gains == RoundEnds /\ not_removed /\ ~disturbed =>
                      items_removed > before \/ \E e \in stuck : parent[e] # None
<1>1. Ind /\ PInv => Gains
  <2> SUFFICES ASSUME Ind, PInv, RoundEnds, not_removed, ~disturbed,
                      \A e \in stuck : parent[e] = None
               PROVE  items_removed > before
    OBVIOUS
  <2>1. stage = "traverse" /\ todo = {} /\ \A t \in Threads : pc[t] = "idle"
    BY DEF RoundEnds, Idle
  <2>2. ~Owing
    BY <2>1 DEF Owing, Deeper
  <2>3. items_removed # before
    BY <2>1, <2>2 DEF PInv, Vain
  <2> QED BY <2>3 DEF PInv, Ind, TypeOK
<1>2. Ind /\ PInv /\ [Next]_vars => [Gains]_vars
  BY <1>1
<1> QED
  BY <1>2, InitInd, NextInd, InitTInv, NextTInv, InitPInv, NextPInv, PTL DEF Spec, Progress

=============================================================================
