-------------------------- MODULE MCSafeByteRanges --------------------------
(***************************************************************************)
(* Small instances of SafeByteRanges: process p1 has the threads t1, t2    *)
(* and t3, process p2 has t4.  t1 and t4 have a second guard to nest with. *)
(***************************************************************************)
EXTENDS SafeByteRanges, TLC

CONSTANTS g1, g2, g3, g4, h1, h4, t1, t2, t3, t4, p1, p2, a, b

X(v) == [value |-> v, exclusive |-> TRUE]
S(v) == [value |-> v, exclusive |-> FALSE]

MCThreadOf == g1 :> t1 @@ g2 :> t2 @@ g3 :> t3 @@ g4 :> t4 @@ h1 :> t1 @@ h4 :> t4
MCProcessOf == t1 :> p1 @@ t2 :> p1 @@ t3 :> p1 @@ t4 :> p2

(* The guards of G all make these requests. *)
Use(G, requests_) == [g \in Guards |-> IF g \in G THEN requests_ ELSE {}]

NoDeadline == [g \in Guards |-> {"none"}]
SomeDeadlines == [NoDeadline EXCEPT ![g1] = {"none", "steady"}, ![h1] = {"utc"}]

(* one thread per process, which nests locks on one entity *)
Nesting == Use({g1, h1, g4, h4}, { <<X(a)>>, <<S(a)>> })
(* one thread per process and two entities *)
TwoProcesses == Use({g1, g4}, { <<X(a), X(b)>>, <<X(b), S(a)>>, <<S(a), S(b)>> })
(* threads of one process and two entities; the third thread shares *)
ThreeThreads == [Use({g1, g2}, { <<X(a), S(b)>>, <<S(b), X(a)>> }) EXCEPT ![g3] = { <<S(b)>> }]
(* two threads of a process and another process, which all mix the kinds *)
Mixed == [Use({g1}, { <<X(a)>>, <<S(a)>> }) EXCEPT ![g2] = { <<S(a)>> }, ![g4] = { <<X(a)>> }]
(* the same with two entities, which a thread gets or undoes one by one *)
MixedTwo == [Use({g1, g4}, { <<X(a), S(b)>> }) EXCEPT ![g2] = { <<X(a)>>, <<S(b)>> }]

All == { Nesting, TwoProcesses, ThreeThreads, Mixed, MixedTwo }

=============================================================================
