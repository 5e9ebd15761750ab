-------------------------- MODULE LockFilesProofs ---------------------------
(***************************************************************************)
(* Proofs about LockFiles, for every number of instances, entities and     *)
(* requests, with and without dying processes: type correctness, that the  *)
(* files in the directory are exactly those somebody has to unlink or died *)
(* with, and that the algorithm implements SharedFsMutex.                  *)
(***************************************************************************)
EXTENDS LockFiles, TLAPS

(* The indices into _hs of the handles instance i has open. *)
OpenAt(i) ==
  CASE pc[i] = "held"      -> 1..Len(paths[i])
    [] pc[i] = "unlocking" -> n[i]..Len(paths[i])
    [] OTHER               -> 1..n[i] - 1

(* Where the loop indices may be; an idle instance has nothing open. *)
InLoop ==
  \A i \in Insts :
    /\ pc[i] = "idle" => n[i] = 1
    /\ pc[i] \notin {"idle", "held"} => n[i] \in 1..Len(paths[i])
    /\ pc[i] = "held" => paths[i] # << >>

(* No two paths of a request are the same file. *)
PathsDistinct ==
  \A i \in Insts : \A j, k \in DOMAIN paths[i] : paths[i][j] = paths[i][k] => j = k

(* Every entity a guard would hold has its file among the paths, in        *)
(* whichever order the entities are.                                       *)
PathsCover ==
  \A i \in Insts : \A j \in DOMAIN entities[i] :
    \E k \in DOMAIN paths[i] : paths[i][k] = entities[i][j].value

IInv == TypeOK /\ InLoop /\ PathsDistinct /\ PathsCover /\ FilesOwned

-----------------------------------------------------------------------------
LEMMA ReorderedFacts ==
  ASSUME NEW s \in Seq(Entity), NEW f, NEW r \in Reordered(s, f)
  PROVE  /\ r \in Seq(Entity)
         /\ \A j \in DOMAIN r : \E k \in DOMAIN s : r[j] = s[k]
<1>1. PICK p \in Bijection(1..Len(s), 1..Len(s)) : r = [k \in 1..Len(s) |-> s[p[k]]]
  BY DEF Reordered
<1>2. p \in [1..Len(s) -> 1..Len(s)]
  BY DEF Bijection, Injection
<1>3. r \in Seq(Entity)
  BY <1>1, <1>2
<1>4. DOMAIN r = 1..Len(s) /\ DOMAIN s = 1..Len(s)
  BY <1>1
<1> QED BY <1>1, <1>2, <1>3, <1>4

LEMMA LeaveTypes ==
  ASSUME TypeOK, NEW i \in Insts, Leave(i)
  PROVE  /\ pc' \in [Insts -> {"idle", "create", "undo", "fail", "held", "unlocking"}]
         /\ entities' \in [Insts -> Seq(Entity)]
         /\ paths' \in [Insts -> Seq(Entities)]
         /\ n' \in [Insts -> Nat \ {0}]
         /\ contended' \in [Insts -> Nat]
         /\ timed' \in [Insts -> BOOLEAN]
         /\ expired' \in [Insts -> BOOLEAN]
<1>1. pc' \in [Insts -> {"idle", "create", "undo", "fail", "held", "unlocking"}]
  BY DEF TypeOK, Leave, Goto
<1>2. entities' \in [Insts -> Seq(Entity)] /\ paths' \in [Insts -> Seq(Entities)]
  BY DEF TypeOK, Leave
<1>3. n' \in [Insts -> Nat \ {0}] /\ contended' \in [Insts -> Nat]
  BY DEF TypeOK, Leave
<1>4. timed' \in [Insts -> BOOLEAN] /\ expired' \in [Insts -> BOOLEAN]
  BY DEF TypeOK, Leave
<1> QED BY <1>1, <1>2, <1>3, <1>4

(* Every value stays in its type. *)
LEMMA TypeStep ==
  ASSUME TypeOK, [Next]_vars
  PROVE  TypeOK'
<1> USE LockFilesAssumption
<1>1. ASSUME NEW i \in Insts, Lock(i) PROVE TypeOK'
  <2>1. PICK s \in Requests, d \in BOOLEAN :
          /\ entities' = [entities EXCEPT ![i] = s]
          /\ paths' = [paths EXCEPT ![i] = [k \in 1..Len(s) |-> s[k].value]]
          /\ timed' = [timed EXCEPT ![i] = d]
    BY <1>1 DEF Lock
  <2>2. s \in Seq(Entity)
    OBVIOUS
  <2>3. [k \in 1..Len(s) |-> s[k].value] \in Seq(Entities)
    <3>1. \A k \in 1..Len(s) : s[k].value \in Entities
      <4>1. \A k \in 1..Len(s) : s[k] \in Entity
        BY <2>2
      <4> QED BY <4>1 DEF Entity
    <3> QED BY <2>2, <3>1
  <2>4. pc' \in [Insts -> {"idle", "create", "undo", "fail", "held", "unlocking"}]
    BY <1>1 DEF TypeOK, Lock, Goto
  <2>5. entities' \in [Insts -> Seq(Entity)] /\ paths' \in [Insts -> Seq(Entities)]
    BY <2>1, <2>2, <2>3 DEF TypeOK
  <2>6. timed' \in [Insts -> BOOLEAN]
    BY <2>1 DEF TypeOK
  <2> QED BY <1>1, <2>4, <2>5, <2>6 DEF TypeOK, Lock
<1>2. ASSUME NEW i \in Insts, Create(i) PROVE TypeOK'
  <2>1. files' \in [Entities -> Insts \cup {Nobody, Stale}]
    BY <1>2 DEF TypeOK, Create
  <2>2. pc' \in [Insts -> {"idle", "create", "undo", "fail", "held", "unlocking"}]
    BY <1>2 DEF TypeOK, Create, Goto
  <2>3. n' \in [Insts -> Nat \ {0}]
    BY <1>2 DEF TypeOK, Create
  <2> QED BY <1>2, <2>1, <2>2, <2>3 DEF TypeOK, Create
<1>3. ASSUME NEW i \in Insts, Collide(i) \/ CreateFails(i) PROVE TypeOK'
  BY <1>3 DEF TypeOK, Collide, CreateFails, Goto
<1>4. ASSUME NEW i \in Insts, Undo(i) PROVE TypeOK'
  <2>1. files' \in [Entities -> Insts \cup {Nobody, Stale}]
    BY <1>4 DEF TypeOK, Undo
  <2>2. n[i] - 1 \in Nat \ {0}
    BY <1>4 DEF TypeOK, Undo
  <2>3. n' \in [Insts -> Nat \ {0}]
    BY <1>4, <2>2 DEF TypeOK, Undo
  <2> QED BY <1>4, <2>1, <2>3 DEF TypeOK, Undo
<1>5. ASSUME NEW i \in Insts, Fail(i) PROVE TypeOK'
  BY <1>5, LeaveTypes DEF TypeOK, Fail
<1>6. ASSUME NEW i \in Insts, Retry(i) PROVE TypeOK'
  <2>1. PICK s \in Reordered(entities[i], contended[i]) :
          entities' = [entities EXCEPT ![i] = s]
    BY <1>6 DEF Retry
  <2>2. s \in Seq(Entity)
    BY <2>1, ReorderedFacts DEF TypeOK
  <2> QED BY <1>6, <2>1, <2>2 DEF TypeOK, Retry, Goto
<1>7. ASSUME NEW i \in Insts, Expire(i) PROVE TypeOK'
  BY <1>7 DEF TypeOK, Expire
<1>8. ASSUME NEW i \in Insts, Unlock(i) PROVE TypeOK'
  BY <1>8 DEF TypeOK, Unlock, Goto
<1>9. ASSUME NEW i \in Insts, CloseFile(i) PROVE TypeOK'
  <2>1. files' \in [Entities -> Insts \cup {Nobody, Stale}]
    BY <1>9 DEF TypeOK, CloseFile
  <2>2. CASE Leave(i)
    BY <2>1, <2>2, LeaveTypes DEF TypeOK
  <2>3. CASE /\ n' = [n EXCEPT ![i] = @ + 1]
             /\ UNCHANGED <<pc, entities, paths, contended, timed, expired>>
    BY <2>1, <2>3 DEF TypeOK
  <2> QED BY <1>9, <2>2, <2>3 DEF CloseFile
<1>10. ASSUME NEW i \in Insts, Exit(i) PROVE TypeOK'
  <2>1. files' \in [Entities -> Insts \cup {Nobody, Stale}]
    BY <1>10 DEF TypeOK, Exit
  <2> QED BY <1>10, <2>1, LeaveTypes DEF TypeOK, Exit
<1>11. CASE UNCHANGED vars
  BY <1>11 DEF TypeOK, vars
<1> QED
  BY <1>1, <1>2, <1>3, <1>4, <1>5, <1>6, <1>7, <1>8, <1>9, <1>10, <1>11 DEF Next, Step

(* Type correctness: no loop index falls below the first handle, and what  *)
(* is reordered stays a sequence of entities, for any number of instances. *)
THEOREM TypeCorrect == Spec => []TypeOK
<1>1. Init => TypeOK
  BY LockFilesAssumption DEF Init, TypeOK
<1>2. TypeOK /\ [Next]_vars => TypeOK'
  BY TypeStep
<1> QED BY <1>1, <1>2, PTL DEF Spec

-----------------------------------------------------------------------------
(* An action of one instance leaves the others' locals alone. *)
LEMMA Frame ==
  ASSUME TypeOK, NEW i \in Insts,
         Lock(i) \/ Step(i) \/ CreateFails(i) \/ Unlock(i) \/ Expire(i) \/ Exit(i),
         NEW j \in Insts \ {i}
  PROVE  pc'[j] = pc[j] /\ n'[j] = n[j] /\ paths'[j] = paths[j] /\ entities'[j] = entities[j]
<1>1. CASE Fail(i) \/ Exit(i)
  BY <1>1 DEF TypeOK, Fail, Exit, Leave, Goto
<1>2. CASE CloseFile(i)
  <2>1. CASE Leave(i)
    BY <2>1 DEF TypeOK, Leave, Goto
  <2>2. CASE n' = [n EXCEPT ![i] = @ + 1] /\ UNCHANGED <<pc, entities, paths>>
    BY <2>2 DEF TypeOK
  <2> QED BY <1>2, <2>1, <2>2 DEF CloseFile
<1>3. CASE Lock(i) \/ Retry(i)
  BY <1>3 DEF TypeOK, Lock, Retry, Goto
<1>4. CASE Create(i) \/ Collide(i) \/ CreateFails(i)
  BY <1>4 DEF TypeOK, Create, Collide, CreateFails, Goto
<1>5. CASE Undo(i) \/ Unlock(i) \/ Expire(i)
  BY <1>5 DEF TypeOK, Undo, Unlock, Expire, Goto
<1> QED BY <1>1, <1>2, <1>3, <1>4, <1>5 DEF Step

(* Loop indices stay where the loops put them. *)
LEMMA InLoopStep ==
  ASSUME TypeOK, InLoop, [Next]_vars
  PROVE  InLoop'
<1> DEFINE Ok(i) == /\ pc[i] = "idle" => n[i] = 1
                    /\ pc[i] \notin {"idle", "held"} => n[i] \in 1..Len(paths[i])
                    /\ pc[i] = "held" => paths[i] # << >>
<1> SUFFICES ASSUME NEW i \in Insts, Lock(i) \/ Step(i) \/ CreateFails(i) \/ Unlock(i) \/ Expire(i) \/ Exit(i)
             PROVE  Ok(i)'
  <2>1. CASE UNCHANGED vars
    BY <2>1 DEF InLoop, vars
  <2>2. CASE Next
    <3>1. PICK i \in Insts : Lock(i) \/ Step(i) \/ CreateFails(i) \/ Unlock(i) \/ Expire(i) \/ Exit(i)
      BY <2>2 DEF Next
    <3>2. \A j \in Insts \ {i} : Ok(j)'
      BY <3>1, Frame DEF InLoop
    <3> QED BY <3>1, <3>2 DEF InLoop
  <2> QED BY <2>1, <2>2
<1>0. Ok(i) /\ n[i] \in Nat \ {0} /\ Len(paths[i]) \in Nat
  BY DEF InLoop, TypeOK
<1>1. CASE Lock(i)
  <2>1. PICK s \in Requests : paths' = [paths EXCEPT ![i] = [k \in 1..Len(s) |-> s[k].value]]
    BY <1>1 DEF Lock
  <2>2. s \in Seq(Entity) /\ s # << >>
    BY LockFilesAssumption
  <2>3. Len(s) \in Nat \ {0}
    BY <2>2
  <2>4. Len(paths'[i]) = Len(s)
    BY <2>1, <2>3 DEF TypeOK
  <2>5. n'[i] = 1 /\ pc'[i] = "create"
    BY <1>0, <1>1 DEF Lock, Goto, TypeOK
  <2> QED BY <2>3, <2>4, <2>5
<1>2. CASE Create(i)
  BY <1>0, <1>2 DEF Create, Goto, TypeOK
<1>3. CASE Collide(i) \/ CreateFails(i)
  BY <1>0, <1>3 DEF Collide, CreateFails, Goto, TypeOK
<1>4. CASE Undo(i)
  BY <1>0, <1>4 DEF Undo, TypeOK
<1>5. CASE Leave(i)
  BY <1>5 DEF Leave, Goto, TypeOK
<1>6. CASE Retry(i)
  BY <1>0, <1>6 DEF Retry, Goto, TypeOK
<1>7. CASE Unlock(i)
  <2>1. Len(paths[i]) >= 1
    BY <1>0, <1>7 DEF Unlock, TypeOK
  <2> QED BY <1>7, <2>1 DEF Unlock, Goto, TypeOK
<1>8. CASE Expire(i)
  BY <1>0, <1>8 DEF Expire
<1>9. CASE CloseFile(i)
  <2>1. CASE n[i] < Len(paths[i]) /\ n' = [n EXCEPT ![i] = @ + 1] /\ UNCHANGED <<pc, paths>>
    BY <1>0, <1>9, <2>1 DEF CloseFile, TypeOK
  <2> QED BY <1>5, <1>9, <2>1 DEF CloseFile
<1> QED
  BY <1>1, <1>2, <1>3, <1>4, <1>5, <1>6, <1>7, <1>8, <1>9 DEF Step, Fail, Exit

(* The paths of a request stay distinct, and those of its entities. *)
LEMMA PathsStep ==
  ASSUME TypeOK, PathsDistinct, PathsCover, [Next]_vars
  PROVE  PathsDistinct' /\ PathsCover'
<1> DEFINE Ok(i) ==
      /\ \A j, k \in DOMAIN paths[i] : paths[i][j] = paths[i][k] => j = k
      /\ \A j \in DOMAIN entities[i] : \E k \in DOMAIN paths[i] : paths[i][k] = entities[i][j].value
<1> SUFFICES ASSUME NEW i \in Insts, Lock(i) \/ Step(i) \/ CreateFails(i) \/ Unlock(i) \/ Expire(i) \/ Exit(i)
             PROVE  Ok(i)'
  <2>1. CASE UNCHANGED vars
    BY <2>1 DEF PathsDistinct, PathsCover, vars
  <2>2. CASE Next
    <3>1. PICK i \in Insts : Lock(i) \/ Step(i) \/ CreateFails(i) \/ Unlock(i) \/ Expire(i) \/ Exit(i)
      BY <2>2 DEF Next
    <3>2. \A j \in Insts \ {i} : Ok(j)'
      BY <3>1, Frame DEF PathsDistinct, PathsCover
    <3>3. \A j \in Insts : Ok(j)'
      BY <3>1, <3>2
    <3> QED BY <3>3 DEF PathsDistinct, PathsCover
  <2> QED BY <2>1, <2>2
<1>0. Ok(i)
  BY DEF PathsDistinct, PathsCover
<1>1. CASE Lock(i)
  <2>1. PICK s \in Requests :
          /\ entities' = [entities EXCEPT ![i] = s]
          /\ paths' = [paths EXCEPT ![i] = [k \in 1..Len(s) |-> s[k].value]]
    BY <1>1 DEF Lock
  <2>2. s \in Seq(Entity) /\ DistinctValues(s)
    BY LockFilesAssumption
  <2>3. entities'[i] = s /\ paths'[i] = [k \in 1..Len(s) |-> s[k].value] /\ DOMAIN s = 1..Len(s)
    BY <2>1, <2>2 DEF TypeOK
  <2> QED BY <2>2, <2>3 DEF DistinctValues
<1>2. CASE Retry(i)
  <2>1. PICK s \in Reordered(entities[i], contended[i]) : entities' = [entities EXCEPT ![i] = s]
    BY <1>2 DEF Retry
  <2>2. \A j \in DOMAIN s : \E k \in DOMAIN entities[i] : s[j] = entities[i][k]
    BY <2>1, ReorderedFacts DEF TypeOK
  <2>3. entities'[i] = s /\ paths'[i] = paths[i]
    BY <1>2, <2>1 DEF Retry, TypeOK
  <2> QED BY <1>0, <2>2, <2>3
<1>3. CASE Leave(i)
  <2>1. entities'[i] = << >> /\ paths'[i] = << >>
    BY <1>3 DEF Leave, TypeOK
  <2> QED BY <2>1
<1>4. CASE UNCHANGED <<entities, paths>>
  BY <1>0, <1>4
<1> QED
  BY <1>1, <1>2, <1>3, <1>4
     DEF Step, Create, Collide, CreateFails, Undo, Fail, Unlock, CloseFile, Expire, Exit

(* In this state and in the next, Open names the files of these indices. *)
LEMMA OpenIs ==
  ASSUME NEW i \in Insts
  PROVE  /\ Open(i) = { paths[i][k] : k \in OpenAt(i) }
         /\ Open(i)' = { paths'[i][k] : k \in OpenAt(i)' }
BY DEF Open, OpenAt

(* Each step opens or closes the one file it creates or unlinks.           *)
LEMMA FilesOwnedStep ==
  ASSUME IInv, TypeOK', InLoop', [Next]_vars
  PROVE  FilesOwned'
<1> USE LockFilesAssumption
<1>0. TypeOK /\ InLoop /\ PathsDistinct /\ FilesOwned
  BY DEF IInv
<1>1. CASE UNCHANGED vars
  BY <1>0, <1>1 DEF FilesOwned, Open, vars
<1>2. ASSUME NEW i \in Insts, Lock(i) \/ Step(i) \/ CreateFails(i) \/ Unlock(i) \/ Expire(i) \/ Exit(i)
      PROVE  FilesOwned'
  <2>1. \A j \in Insts \ {i} : Open(j)' = Open(j)
    BY <1>0, <1>2, Frame DEF Open
  <2>2. /\ n[i] \in Nat \ {0} /\ Len(paths[i]) \in Nat
        /\ DOMAIN paths[i] = 1..Len(paths[i])
        /\ \A k \in DOMAIN paths[i] : paths[i][k] \in Entities
    BY <1>0 DEF TypeOK
  (* Whatever an action does to one file e, the rest follows. *)
  <2>3. ASSUME NEW e \in Entities, NEW w \in {i, Nobody},
               files' = [files EXCEPT ![e] = w], files[e] \in {i, Nobody},
               Open(i)' = IF w = i THEN Open(i) \cup {e} ELSE Open(i) \ {e}
        PROVE  FilesOwned'
    <3> SUFFICES ASSUME NEW f \in Entities, NEW j \in Insts
                 PROVE  files'[f] = j <=> f \in Open(j)'
      BY DEF FilesOwned
    <3>1. files[f] = j <=> f \in Open(j)
      BY <1>0 DEF FilesOwned
    <3>2. files'[f] = IF f = e THEN w ELSE files[f]
      BY <1>0, <2>3 DEF TypeOK
    <3>3. CASE j = i
      BY <2>3, <3>1, <3>2, <3>3
    <3>4. CASE j # i
      <4>1. Open(j)' = Open(j)
        BY <2>1, <3>4
      <4> QED BY <2>3, <3>1, <3>2, <3>4, <4>1
    <3> QED BY <3>3, <3>4
  <2>4. ASSUME files' = files, Open(i)' = Open(i) PROVE FilesOwned'
    BY <1>0, <2>1, <2>4 DEF FilesOwned
  <2>5. CASE Create(i)
    <3> DEFINE e == paths[i][n[i]]
    <3>1. n[i] \in DOMAIN paths[i] /\ e \in Entities
      BY <1>0, <2>2, <2>5 DEF Create, InLoop
    <3>2. OpenAt(i) = 1..n[i] - 1
      BY <2>5 DEF Create, OpenAt
    <3>3. OpenAt(i)' = 1..n[i] /\ paths' = paths
      BY <1>0, <2>2, <2>5 DEF Create, OpenAt, Goto, TypeOK
    <3>4. Open(i)' = { paths[i][k] : k \in 1..n[i] }
      BY <3>3, OpenIs
    <3>5. Open(i) = { paths[i][k] : k \in 1..n[i] - 1 }
      BY <1>0, <3>2, OpenIs
    <3>6. 1..n[i] = (1..n[i] - 1) \cup {n[i]}
      BY <2>2
    <3>7. Open(i)' = Open(i) \cup {e}
      BY <3>4, <3>5, <3>6
    <3>8. files' = [files EXCEPT ![e] = i] /\ files[e] = Nobody
      BY <2>5 DEF Create
    <3> QED BY <2>3, <3>1, <3>7, <3>8
  <2>6. CASE Undo(i)
    <3> DEFINE e == paths[i][n[i] - 1]
    <3>1. n[i] - 1 \in DOMAIN paths[i] /\ n[i] - 1 \in Nat \ {0}
      BY <1>0, <2>2, <2>6 DEF Undo, InLoop
    <3>2. e \in Entities
      BY <2>2, <3>1
    <3>3. OpenAt(i) = 1..n[i] - 1
      BY <2>6 DEF Undo, OpenAt
    <3>4. OpenAt(i)' = 1..n[i] - 2 /\ paths' = paths
      BY <1>0, <2>2, <2>6 DEF Undo, OpenAt, TypeOK
    <3>5. Open(i)' = { paths[i][k] : k \in 1..n[i] - 2 }
      BY <3>4, OpenIs
    <3>6. Open(i) = { paths[i][k] : k \in 1..n[i] - 1 }
      BY <1>0, <3>3, OpenIs
    <3>7. 1..n[i] - 1 = (1..n[i] - 2) \cup {n[i] - 1} /\ n[i] - 1 \notin 1..n[i] - 2
      BY <2>2, <3>1
    <3>8. \A k \in 1..n[i] - 2 : k \in DOMAIN paths[i] /\ paths[i][k] # e
      BY <1>0, <2>2, <3>1, <3>7 DEF PathsDistinct
    <3>9. Open(i)' = Open(i) \ {e}
      BY <3>5, <3>6, <3>7, <3>8
    <3>10. files[e] = i
      BY <1>0, <3>2, <3>6, <3>7 DEF FilesOwned
    <3>11. files' = [files EXCEPT ![e] = Nobody]
      BY <2>6 DEF Undo
    <3> QED BY <2>3, <3>2, <3>9, <3>10, <3>11
  <2>7. CASE CloseFile(i)
    <3> DEFINE e == paths[i][n[i]]
    <3>1. n[i] \in DOMAIN paths[i]
      BY <1>0, <2>2, <2>7 DEF CloseFile, InLoop
    <3>2. e \in Entities
      BY <2>2, <3>1
    <3>3. OpenAt(i) = n[i]..Len(paths[i])
      BY <2>7 DEF CloseFile, OpenAt
    <3>4. Open(i) = { paths[i][k] : k \in n[i]..Len(paths[i]) }
      BY <1>0, <3>3, OpenIs
    <3>5. Open(i)' = { paths[i][k] : k \in n[i] + 1..Len(paths[i]) }
      <4>1. CASE n' = [n EXCEPT ![i] = @ + 1] /\ UNCHANGED <<pc, paths>>
        <5>1. OpenAt(i)' = n[i] + 1..Len(paths[i])
          BY <1>0, <2>7, <4>1 DEF CloseFile, OpenAt, TypeOK
        <5> QED BY <4>1, <5>1, OpenIs
      <4>2. CASE n[i] = Len(paths[i]) /\ Leave(i)
        <5>1. n'[i] = 1 /\ pc'[i] = "idle"
          BY <1>0, <4>2 DEF Leave, Goto, TypeOK
        <5>2. OpenAt(i)' = {}
          BY <5>1 DEF OpenAt
        <5>3. n[i] + 1..Len(paths[i]) = {}
          BY <2>2, <4>2
        <5> QED BY <5>2, <5>3, OpenIs
      <4> QED BY <2>7, <4>1, <4>2 DEF CloseFile
    <3>6. /\ n[i]..Len(paths[i]) = (n[i] + 1..Len(paths[i])) \cup {n[i]}
          /\ n[i] \notin n[i] + 1..Len(paths[i])
      BY <2>2, <3>1
    <3>7. \A k \in n[i] + 1..Len(paths[i]) : k \in DOMAIN paths[i] /\ paths[i][k] # e
      BY <1>0, <2>2, <3>1, <3>6 DEF PathsDistinct
    <3>8. Open(i)' = Open(i) \ {e}
      BY <3>4, <3>5, <3>6, <3>7
    <3>9. files[e] = i
      BY <1>0, <3>2, <3>4, <3>6 DEF FilesOwned
    <3>10. files' = [files EXCEPT ![e] = Nobody]
      BY <2>7 DEF CloseFile
    <3> QED BY <2>3, <3>2, <3>8, <3>9, <3>10
  <2>8. CASE Exit(i)
    <3>1. n'[i] = 1 /\ pc'[i] = "idle"
      BY <1>0, <2>8 DEF Exit, Leave, Goto, TypeOK
    <3>2. OpenAt(i)' = {}
      BY <3>1 DEF OpenAt
    <3>3. Open(i)' = {}
      BY <3>2, OpenIs
    <3>4. \A e \in Entities : files'[e] = IF files[e] = i THEN Stale ELSE files[e]
      BY <2>8 DEF Exit
    <3> QED BY <1>0, <2>1, <3>3, <3>4 DEF FilesOwned
  <2>9. CASE Lock(i) \/ Fail(i)
    <3>1. n[i] = 1 /\ pc[i] \notin {"held", "unlocking"} /\ files' = files
      BY <1>0, <2>9 DEF Lock, Fail, InLoop
    <3>2. n'[i] = 1 /\ pc'[i] \notin {"held", "unlocking"}
      BY <1>0, <2>9, <3>1 DEF Lock, Fail, Leave, Goto, TypeOK
    <3>3. OpenAt(i) = {} /\ OpenAt(i)' = {}
      BY <3>1, <3>2 DEF OpenAt
    <3>4. Open(i) = {} /\ Open(i)' = {}
      BY <1>0, <3>3, OpenIs
    <3> QED BY <2>4, <3>1, <3>4
  <2>10. CASE Collide(i) \/ CreateFails(i) \/ Retry(i) \/ Expire(i)
    <3>1. /\ files' = files /\ n' = n /\ paths' = paths
          /\ pc[i] \notin {"held", "unlocking"} /\ pc'[i] \notin {"held", "unlocking"}
      BY <1>0, <2>10 DEF Collide, CreateFails, Retry, Expire, Goto, TypeOK
    <3>2. Open(i)' = Open(i)
      BY <3>1 DEF Open
    <3> QED BY <2>4, <3>1, <3>2
  <2>11. CASE Unlock(i)
    <3>1. files' = files /\ n'[i] = 1 /\ paths' = paths /\ pc[i] = "held" /\ pc'[i] = "unlocking"
      BY <1>0, <2>11 DEF Unlock, Goto, TypeOK
    <3>2. Open(i)' = Open(i)
      BY <3>1 DEF Open
    <3> QED BY <2>4, <3>1, <3>2
  <2> QED
    BY <1>2, <2>5, <2>6, <2>7, <2>8, <2>9, <2>10, <2>11 DEF Step
<1> QED BY <1>1, <1>2 DEF Next

LEMMA Invariance == Spec => []IInv
<1>1. Init => IInv
  BY LockFilesAssumption
     DEF Init, IInv, TypeOK, InLoop, PathsDistinct, PathsCover, FilesOwned, Open
<1>2. IInv /\ [Next]_vars => IInv'
  <2> SUFFICES ASSUME IInv, [Next]_vars PROVE IInv'
    OBVIOUS
  <2>1. TypeOK'
    BY TypeStep DEF IInv
  <2>2. InLoop'
    BY InLoopStep DEF IInv
  <2>3. PathsDistinct' /\ PathsCover'
    BY PathsStep DEF IInv
  <2>4. FilesOwned'
    BY <2>1, <2>2, FilesOwnedStep
  <2> QED BY <2>1, <2>2, <2>3, <2>4 DEF IInv
<1> QED BY <1>1, <1>2, PTL DEF Spec

(* No way through lock() and unlock(), whichever file could not be created *)
(* and whoever died, leaves a file behind that its creator will not unlink *)
(* or unlinks a file that somebody else relies on.                         *)
THEOREM FilesOwnedHolds == Spec => []FilesOwned
<1>1. IInv => FilesOwned
  BY DEF IInv
<1> QED BY <1>1, Invariance, PTL

-----------------------------------------------------------------------------
LEMMA NoGrant ==
  ASSUME NEW i \in Insts
  PROVE  /\ pc[i] # "held" => held[i] = Mutex!Nothing
         /\ pc'[i] # "held" => held'[i] = Mutex!Nothing
BY DEF held, Holds, Mutex!Nothing

(* A guard holds only entities whose files its instance has created. *)
GuardsOwn == \A i \in Insts, e \in Entities : held[i][e] # "unlocked" => files[e] = i

LEMMA HeldOwned == IInv => GuardsOwn
<1> SUFFICES ASSUME IInv, NEW i \in Insts, NEW e \in Entities, held[i][e] # "unlocked"
             PROVE  files[e] = i
  BY DEF GuardsOwn
<1>1. PICK x \in BOOLEAN : Holds(i, e, x)
  BY DEF held
<1>2. PICK j \in DOMAIN entities[i] : entities[i][j] = [value |-> e, exclusive |-> x]
  BY <1>1 DEF Holds
<1>3. PICK k \in DOMAIN paths[i] : paths[i][k] = e
  BY <1>2 DEF IInv, PathsCover
<1>4. k \in OpenAt(i)
  BY <1>1, <1>3 DEF Holds, OpenAt, IInv, TypeOK
<1> QED BY <1>3, <1>4, OpenIs DEF IInv, FilesOwned

(* Seen through the guards, the creation of the last file is Acquire, the  *)
(* start of unlock() and the death of a holder are Release, all else       *)
(* stutters.                                                               *)
LEMMA StepSimulation ==
  ASSUME IInv, IInv', [Next]_vars
  PROVE  [Mutex!Next]_held
<1>0. TypeOK
  BY DEF IInv
<1>1. CASE UNCHANGED vars
  BY <1>1 DEF held, Holds, vars
<1>2. ASSUME NEW i \in Insts, Lock(i) \/ Step(i) \/ CreateFails(i) \/ Unlock(i) \/ Expire(i) \/ Exit(i)
      PROVE  [Mutex!Next]_held
  <2>1. \A j \in Insts \ {i} : held'[j] = held[j]
    <3> SUFFICES ASSUME NEW j \in Insts \ {i} PROVE held'[j] = held[j]
      OBVIOUS
    <3>1. pc'[j] = pc[j] /\ entities'[j] = entities[j]
      BY <1>0, <1>2, Frame
    <3> QED BY <3>1 DEF held, Holds
  <2>2. CASE pc'[i] = "held"
    <3>1. CASE Create(i)
      <4>1. held[i] = Mutex!Nothing
        BY <3>1, NoGrant DEF Create
      <4>2. held' = [held EXCEPT ![i] = held'[i]]
        <5>1. held = [j \in Insts |-> held[j]] /\ held' = [j \in Insts |-> held'[j]]
          BY DEF held
        <5> QED BY <2>1, <5>1
      <4>3. held'[i] \in Mutex!Grants
        BY DEF held, Mutex!Grants, Mutex!Kinds
      <4>4. ASSUME NEW j \in Insts \ {i}, NEW e \in Entities,
                   held'[i][e] # "unlocked", held[j][e] # "unlocked"
            PROVE  FALSE
        <5>1. GuardsOwn'
          BY HeldOwned, PTL
        <5>2. files'[e] = i /\ files'[e] = j
          BY <2>1, <4>4, <5>1 DEF GuardsOwn
        <5> QED BY <5>2
      <4>5. \A j \in Insts \ {i} : ~Mutex!Clash(held'[i], held[j])
        BY <4>4 DEF Mutex!Clash
      <4>6. Mutex!Acquire(i)
        BY <4>1, <4>2, <4>3, <4>5 DEF Mutex!Acquire
      <4> QED BY <4>6 DEF Mutex!Next
    <3>2. CASE ~Create(i)
      BY <1>0, <1>2, <2>2, <3>2
         DEF Lock, Step, Collide, CreateFails, Undo, Fail, Retry, Unlock, CloseFile, Expire, Exit,
             Leave, Goto, TypeOK
    <3> QED BY <3>1, <3>2
  <2>3. CASE pc'[i] # "held"
    <3>1. held'[i] = Mutex!Nothing
      BY <2>3, NoGrant
    <3>2. \A j \in Insts : held'[j] = IF j \in {i} THEN Mutex!Nothing ELSE held[j]
      BY <2>1, <3>1
    <3>3. held' = [j \in Insts |-> IF j \in {i} THEN Mutex!Nothing ELSE held[j]]
      BY <3>2 DEF held
    <3>4. Mutex!Release({i})
      BY <3>3 DEF Mutex!Release
    <3> QED BY <3>4 DEF Mutex!Next
  <2> QED BY <2>2, <2>3
<1> QED BY <1>1, <1>2 DEF Next

(* lock_files implements the abstract shared_fs_mutex: however the files   *)
(* of several lockers are created, collide and are unlinked, guards are    *)
(* granted whole, given back whole and never in conflict.                  *)
THEOREM Refinement == Spec => Refines
<1>1. Init => Mutex!Init
  BY DEF Init, Mutex!Init, Mutex!Nothing, held, Holds
<1>2. IInv /\ IInv' /\ [Next]_vars => [Mutex!Next]_held
  BY StepSimulation
<1> QED BY <1>1, <1>2, Invariance, PTL DEF Spec, Refines, Mutex!Spec

-----------------------------------------------------------------------------
(* What an implementation of SharedFsMutex promises                        *)

LEMMA ClashFacts ==
  ASSUME NEW a, NEW b
  PROVE  (Mutex!Clash(a, b) <=> Mutex!Clash(b, a)) /\ ~Mutex!Clash(a, Mutex!Nothing)
BY DEF Mutex!Clash, Mutex!Nothing

(* The abstract specification excludes conflicting holders although it     *)
(* compares a request only with what is held when it is granted.           *)
LEMMA MutexExcludes == Mutex!Spec => []Mutex!Exclusion
<1> DEFINE MInv == Mutex!TypeOK /\ Mutex!Exclusion
<1>1. Mutex!Init => MInv
  BY ClashFacts DEF Mutex!Init, Mutex!TypeOK, Mutex!Exclusion, Mutex!Grants, Mutex!Kinds, Mutex!Nothing
<1>2. MInv /\ [Mutex!Next]_held => MInv'
  <2> SUFFICES ASSUME MInv, [Mutex!Next]_held PROVE MInv'
    OBVIOUS
  <2> HIDE DEF held
  <2>1. ASSUME NEW l \in Insts, Mutex!Acquire(l) PROVE MInv'
    <3>1. PICK g \in Mutex!Grants : /\ \A m \in Insts \ {l} : ~Mutex!Clash(g, held[m])
                                    /\ held' = [held EXCEPT ![l] = g]
      BY <2>1 DEF Mutex!Acquire
    <3>2. Mutex!TypeOK'
      BY <3>1 DEF Mutex!TypeOK
    <3>3. \A m \in Insts : held'[m] = IF m = l THEN g ELSE held[m]
      BY <3>1 DEF Mutex!TypeOK
    <3>4. Mutex!Exclusion'
      BY <3>1, <3>3, ClashFacts DEF Mutex!Exclusion
    <3> QED BY <3>2, <3>4
  <2>2. ASSUME NEW S \in SUBSET Insts, Mutex!Release(S) PROVE MInv'
    <3>1. \A m \in Insts : held'[m] = IF m \in S THEN Mutex!Nothing ELSE held[m]
      BY <2>2 DEF Mutex!Release
    <3>2. Mutex!TypeOK'
      BY <2>2 DEF Mutex!Release, Mutex!TypeOK, Mutex!Grants, Mutex!Kinds, Mutex!Nothing
    <3>3. Mutex!Exclusion'
      BY <3>1, ClashFacts DEF Mutex!Exclusion
    <3> QED BY <3>2, <3>3
  <2>3. CASE UNCHANGED held
    BY <2>3 DEF Mutex!TypeOK, Mutex!Exclusion, Mutex!Clash
  <2> QED BY <2>1, <2>2, <2>3 DEF Mutex!Next
<1> QED BY <1>1, <1>2, PTL DEF Mutex!Spec

(* No two guards of lock_files ever conflict, whoever dies: a file left    *)
(* behind blocks others, and never lets one in.                            *)
THEOREM ExclusionHolds == Spec => []Mutex!Exclusion
BY Refinement, MutexExcludes, PTL DEF Refines

=============================================================================
