--------------------------- MODULE ProcessProofs ---------------------------
(***************************************************************************)
(* Proofs about Process for any number of ids, any exit codes and any      *)
(* forms of clone: the process tree stays consistent, no process is lost,  *)
(* a process ends once, and the exit code of a zombie is final.            *)
(***************************************************************************)
EXTENDS Process, TLAPS

(* Ids are numbers and Main is one.                                        *)
LEMMA IdFacts == Main \in Ids /\ \A i \in Ids : i \in Nat /\ i >= Main
  BY MaxIdAssumption DEF Main, Ids

(* main() has built init, and there is no thread yet.                      *)
LEMMA InitIInv == Init => IInv
  <1> SUFFICES ASSUME Init PROVE IInv
    BY Zenon
  <1>1. TypeOK
    BY IdFacts, MaxIdAssumption, CodesAssumption DEF Init, TypeOK, PCs
  <1>2. FamilyTree /\ NotLost /\ EndsOnce
    BY Zenon DEF Init, FamilyTree, NotLost, EndsOnce
  <1>3. IdInv /\ NewInv /\ OwnerInv
    BY IdFacts DEF Init, IdInv, NewInv, OwnerInv, Main
  <1>4. ThreadInv /\ FoundInv
    BY Zenon DEF Init, ThreadInv, FoundInv, Active
  <1> QED
    BY <1>1, <1>2, <1>3, <1>4, Zenon DEF IInv

(* The next id is in use nowhere.                                          *)
LEMMA NextIdFresh ==
  ASSUME IInv, next_id \in Ids
  PROVE  /\ next_id \in Nat /\ next_id # Main /\ next_id + 1 \in 2..MaxId + 1
         /\ next_id < next_id + 1
         /\ \A i \in Ids : i < next_id => i # next_id /\ i < next_id + 1
         /\ next_id \notin procs /\ pc[next_id] = "none" /\ ~is_zombie[next_id]
         /\ \A u \in Ids : pc[u] # "none" => process[u] # next_id
         /\ \A u \in Ids : pc[u] \in {"build", "thread"} => new[u] # next_id
  <1>1. next_id \in 2..MaxId + 1
    BY Zenon DEF IInv, TypeOK
  <1>2. next_id \in Nat /\ next_id # Main /\ next_id + 1 \in 2..MaxId + 1
    BY <1>1, MaxIdAssumption DEF Ids, Main
  <1>3. \A i \in Ids : i < next_id => i # next_id /\ i < next_id + 1
    BY <1>2, IdFacts
  <1>4. next_id \notin procs /\ pc[next_id] = "none" /\ ~is_zombie[next_id]
    BY <1>2, <1>3, Zenon DEF IInv, IdInv
  <1>5. \A u \in Ids : pc[u] # "none" => process[u] # next_id
    BY <1>4, Zenon DEF IInv, IdInv
  <1>6. \A u \in Ids : pc[u] \in {"build", "thread"} => new[u] # next_id
    BY <1>3, Zenon DEF IInv, NewInv, TypeOK
  <1> QED
    BY <1>2, <1>3, <1>4, <1>5, <1>6

(* A thread goes on to a place outside sys_clone while the ids, processes  *)
(* and tasks being created stay: what is said of them still holds.         *)
LEMMA MoveIds ==
  ASSUME IInv, NEW t \in Ids, NEW x \in PCs, pc[t] # "none",
         x \notin {"none", "build", "thread"}, pc' = [pc EXCEPT ![t] = x],
         UNCHANGED <<next_id, procs, process, new, owner>>,
         \A p \in Ids : parent'[p] \in procs,
         \A p \in Ids : is_zombie'[p] => is_zombie[p] \/ p = process[t]
  PROVE  IdInv' /\ NewInv' /\ OwnerInv'
  <1>1. \A u \in Ids : pc'[u] = IF u = t THEN x ELSE pc[u]
    BY Zenon DEF IInv, TypeOK
  <1>2. \A u \in Ids : new[u] \in Ids /\ process[u] \in Ids
    BY Zenon DEF IInv, TypeOK
  <1>3. \A u \in Ids : (pc'[u] = "none") <=> (pc[u] = "none")
    BY ONLY <1>1, pc[t] # "none", x \notin {"none", "build", "thread"}, Zenon
  <1>4. \A u \in Ids : pc'[u] \in {"build", "thread"} => u # t /\ pc'[u] = pc[u]
    BY ONLY <1>1, x \notin {"none", "build", "thread"}, Zenon
  <1>5. NewInv'
    <2> SUFFICES ASSUME NEW u \in Ids, pc'[u] \in {"build", "thread"}
                 PROVE  /\ new[u] < next_id /\ new[u] # Main /\ pc'[new[u]] = "none"
                        /\ ~is_zombie'[new[u]]
                        /\ \A v \in Ids : pc'[v] # "none" => process[v] # new[u]
                        /\ \A v \in Ids : v # u /\ pc'[v] \in {"build", "thread"}
                                            => new[v] # new[u]
      BY Zenon DEF NewInv
    <2>1. /\ new[u] < next_id /\ new[u] # Main /\ pc[new[u]] = "none" /\ ~is_zombie[new[u]]
          /\ \A v \in Ids : pc[v] # "none" => process[v] # new[u]
          /\ \A v \in Ids : v # u /\ pc[v] \in {"build", "thread"} => new[v] # new[u]
      BY <1>4, Zenon DEF IInv, NewInv
    <2>2. ~is_zombie'[new[u]]
      BY <1>2, <2>1, Zenon
    <2> QED
      BY ONLY <1>2, <1>3, <1>4, <2>1, <2>2, u \in Ids, Zenon
  <1>6. OwnerInv'
    BY <1>4, Zenon DEF IInv, OwnerInv
  <1>7. \A u \in Ids : pc'[u] # "none" => u < next_id' /\ process'[u] \in procs' \ {Main}
    BY <1>3, Zenon DEF IInv, IdInv
  <1>8. process[t] \in procs \ {Main}
    BY Zenon DEF IInv, IdInv
  <1>9. /\ Main \in procs' /\ ~is_zombie'[Main]
        /\ \A p \in Ids : (p \in procs' => p < next_id') /\ (is_zombie'[p] => p \in procs')
    BY <1>8, IdFacts, Zenon DEF IInv, IdInv
  <1>10. IdInv'
    BY <1>7, <1>9, Zenon DEF IdInv
  <1> QED
    BY ONLY <1>5, <1>6, <1>10, Zenon

(* A thread goes on without leaving or joining a thread group.             *)
LEMMA MoveThread ==
  ASSUME IInv, NEW t \in Ids, NEW x \in {"out", "scan", "free", "code", "exit", "group", "gone"},
         Active(t) <=> x \notin {"group", "gone"}, pc[t] # "none",
         pc' = [pc EXCEPT ![t] = x], UNCHANGED <<threads, process, is_zombie>>
  PROVE  ThreadInv' /\ EndsOnce'
  <1>1. \A u \in Ids : pc'[u] = IF u = t THEN x ELSE pc[u]
    BY Zenon DEF IInv, TypeOK
  <1>2. \A u \in Ids : Active(u)' <=> Active(u)
    BY <1>1, ZenonT(40) DEF Active
  <1>3. ThreadInv'
    BY <1>2, Zenon DEF IInv, ThreadInv
  <1>4. ASSUME NEW u \in Ids, NEW v \in Ids, u # v,
               pc'[u] \in {"zombie", "reparent"}, process[v] = process[u]
        PROVE  pc'[v] \in {"none", "group", "gone"}
    <2>1. pc[u] \in {"zombie", "reparent"}
      BY <1>1, <1>4, Zenon
    <2>2. pc[v] \in {"none", "group", "gone"}
      BY <1>4, <2>1, Zenon DEF IInv, EndsOnce
    <2> QED
      BY <1>1, <2>2, Zenon DEF Active
  <1>5. EndsOnce'
    BY <1>4, Zenon DEF IInv, EndsOnce
  <1> QED
    BY ONLY <1>3, <1>5, Zenon

(* run_user_app builds a process, its thread and its task.                 *)
LEMMA RunUserAppIInv ==
  ASSUME IInv, RunUserApp
  PROVE  IInv'
  <1> USE IdFacts DEF IInv, TypeOK, RunUserApp, Goto, treeVars, groupVars, cloneVars, waitVars
  <1>0. next_id \in Ids
    BY Zenon
  <1>1. TypeOK'
    BY <1>0, NextIdFresh, ZenonT(40) DEF PCs
  <1>2. FamilyTree'
    BY DEF FamilyTree, IdInv, OwnerInv
  <1>3. NotLost'
    BY DEF NotLost, FamilyTree, IdInv, OwnerInv, FoundInv
  <1>4. EndsOnce'
    BY DEF EndsOnce, IdInv, NewInv, OwnerInv, ThreadInv, Active
  <1>5. IdInv'
    BY DEF IdInv, NewInv, OwnerInv, FamilyTree
  <1>6. NewInv'
    BY <1>0, NextIdFresh, ZenonT(40) DEF NewInv
  <1>7. OwnerInv'
    BY DEF IdInv, NewInv, OwnerInv
  <1>8. ThreadInv'
    BY DEF IdInv, NewInv, OwnerInv, ThreadInv, Active
  <1>9. FoundInv'
    BY DEF IdInv, FoundInv
  <1> QED
    BY ONLY <1>1, <1>2, <1>3, <1>4, <1>5, <1>6, <1>7, <1>8, <1>9, Zenon DEF IInv

(* sys_clone takes an id.                                                  *)
LEMMA CloneIInv ==
  ASSUME IInv, NEW t \in Ids, NEW kind \in Kinds, Clone(t, kind)
  PROVE  IInv'
  <1> USE IdFacts DEF IInv, TypeOK, Clone, Goto, treeVars, groupVars, cloneVars, waitVars
  <1>0. next_id \in Ids
    BY Zenon
  <1>1. TypeOK'
    BY <1>0, NextIdFresh, ZenonT(40) DEF PCs
  <1>2. FamilyTree'
    BY Zenon DEF FamilyTree, IdInv, OwnerInv
  <1>3. NotLost'
    BY Zenon DEF NotLost, FamilyTree, IdInv, OwnerInv, FoundInv
  <1>4. EndsOnce'
    BY DEF EndsOnce, IdInv, NewInv, OwnerInv, ThreadInv, Active
  <1>5. IdInv'
    BY DEF IdInv, NewInv, OwnerInv, FamilyTree
  <1>6. NewInv'
    BY <1>0, NextIdFresh, ZenonT(40) DEF NewInv
  <1>7. OwnerInv'
    BY <1>0, NextIdFresh, ZenonT(40) DEF IdInv, OwnerInv
  <1>8. ThreadInv'
    BY DEF IdInv, NewInv, OwnerInv, ThreadInv, Active
  <1>9. FoundInv'
    BY Zenon DEF IdInv, FoundInv
  <1> QED
    BY ONLY <1>1, <1>2, <1>3, <1>4, <1>5, <1>6, <1>7, <1>8, <1>9, Zenon DEF IInv

(* sys_clone fails after it took an id.                                    *)
LEMMA CloneErrorIInv ==
  ASSUME IInv, NEW t \in Ids, CloneError(t)
  PROVE  IInv'
  <1> USE IdFacts DEF IInv, TypeOK, CloneError, Goto, treeVars, groupVars, cloneVars, waitVars
  <1>0. next_id \in Ids
    BY Zenon
  <1>1. TypeOK'
    BY <1>0, NextIdFresh, Zenon DEF PCs
  <1>2. FamilyTree'
    BY Zenon DEF FamilyTree, IdInv, OwnerInv
  <1>3. NotLost'
    BY Zenon DEF NotLost, FamilyTree, IdInv, OwnerInv, FoundInv
  <1>4. EndsOnce'
    BY Zenon DEF EndsOnce, IdInv, NewInv, OwnerInv, ThreadInv, Active
  <1>5. IdInv'
    BY DEF IdInv, NewInv, OwnerInv, FamilyTree
  <1>6. NewInv'
    BY <1>0, NextIdFresh, ZenonT(40) DEF NewInv
  <1>7. OwnerInv'
    BY Zenon DEF IdInv, NewInv, OwnerInv
  <1>8. ThreadInv'
    BY Zenon DEF IdInv, NewInv, OwnerInv, ThreadInv, Active
  <1>9. FoundInv'
    BY Zenon DEF IdInv, FoundInv
  <1> QED
    BY ONLY <1>1, <1>2, <1>3, <1>4, <1>5, <1>6, <1>7, <1>8, <1>9, Zenon DEF IInv

(* sys_clone fails in copying the address space.                           *)
LEMMA CloneNoMemoryIInv ==
  ASSUME IInv, NEW t \in Ids, CloneNoMemory(t)
  PROVE  IInv'
  <1> USE IdFacts DEF IInv, TypeOK, CloneNoMemory, Goto, treeVars, groupVars, cloneVars, waitVars
  <1>1. TypeOK'
    BY MaxIdAssumption, Zenon DEF PCs, Ids, Main
  <1>2. FamilyTree'
    BY Zenon DEF FamilyTree, IdInv, OwnerInv
  <1>3. NotLost'
    BY Zenon DEF NotLost, FamilyTree, IdInv, OwnerInv, FoundInv
  <1>4. EndsOnce'
    BY DEF EndsOnce, IdInv, NewInv, OwnerInv, ThreadInv, Active
  <1>5. IdInv'
    BY DEF IdInv, NewInv, OwnerInv, FamilyTree
  <1>6. NewInv'
    BY DEF IdInv, NewInv, OwnerInv
  <1>7. OwnerInv'
    BY Zenon DEF IdInv, NewInv, OwnerInv
  <1>8. ThreadInv'
    BY DEF IdInv, NewInv, OwnerInv, ThreadInv, Active
  <1>9. FoundInv'
    BY Zenon DEF IdInv, FoundInv
  <1> QED
    BY ONLY <1>1, <1>2, <1>3, <1>4, <1>5, <1>6, <1>7, <1>8, <1>9, Zenon DEF IInv

(* The new process is put in the tree.                                     *)
LEMMA CloneBuildIInv ==
  ASSUME IInv, NEW t \in Ids, CloneBuild(t)
  PROVE  IInv'
  <1> USE IdFacts DEF IInv, TypeOK, CloneBuild, Goto, treeVars, groupVars, cloneVars, waitVars
  <1>1. TypeOK'
    BY MaxIdAssumption, Zenon DEF PCs, Ids, Main
  <1>2. FamilyTree'
    BY DEF FamilyTree, IdInv, OwnerInv
  <1>3. NotLost'
    BY DEF NotLost, FamilyTree, IdInv, OwnerInv, FoundInv
  <1>4. EndsOnce'
    BY DEF EndsOnce, IdInv, NewInv, OwnerInv, ThreadInv, Active
  <1>5. IdInv'
    BY DEF IdInv, NewInv, OwnerInv, FamilyTree
  <1>6. NewInv'
    BY DEF IdInv, NewInv, OwnerInv
  <1>7. OwnerInv'
    BY DEF IdInv, NewInv, OwnerInv
  <1>8. ThreadInv'
    BY DEF IdInv, NewInv, OwnerInv, ThreadInv, Active
  <1>9. FoundInv'
    BY ZenonT(40) DEF IdInv, FoundInv
  <1> QED
    BY ONLY <1>1, <1>2, <1>3, <1>4, <1>5, <1>6, <1>7, <1>8, <1>9, Zenon DEF IInv

(* The new thread is put in its thread group.                              *)
LEMMA CloneThreadIInv ==
  ASSUME IInv, NEW t \in Ids, CloneThread(t)
  PROVE  IInv'
  <1> USE IdFacts DEF IInv, TypeOK, CloneThread, Goto, treeVars, groupVars, cloneVars, waitVars
  <1>1. TypeOK'
    BY DEF PCs
  <1>2. FamilyTree'
    BY Zenon DEF FamilyTree, IdInv, OwnerInv
  <1>3. NotLost'
    BY Zenon DEF NotLost, FamilyTree, IdInv, OwnerInv, FoundInv
  <1>4. EndsOnce'
    BY SMTT(40) DEF EndsOnce, IdInv, NewInv, OwnerInv, ThreadInv, Active
  <1>5. IdInv'
    BY DEF IdInv, NewInv, OwnerInv, FamilyTree
  <1>6. NewInv'
    BY SMTT(40) DEF IdInv, NewInv, OwnerInv
  <1>7. OwnerInv'
    BY DEF IdInv, NewInv, OwnerInv
  <1>8. ASSUME NEW p \in Ids, NEW u \in Ids
        PROVE  (u \in threads[p] <=> (Active(u) /\ process[u] = p))'
    <2>1. pc[new[t]] = "none" /\ new[t] # t
      BY Zenon DEF NewInv
    <2>2. CASE u = new[t]
      <3>1. \A q \in Ids : u \notin threads[q]
        BY <2>1, <2>2, Zenon DEF ThreadInv, Active
      <3>2. Active(u)' /\ process'[u] = owner[t]
        BY <2>1, <2>2, Zenon DEF Active
      <3> QED
        BY <2>2, <3>1, <3>2, Zenon
    <2>3. CASE u # new[t]
      <3>1. u \in threads'[p] <=> u \in threads[p]
        BY <2>3, Zenon
      <3>2. Active(u)' <=> Active(u)
        BY <2>1, <2>3, Zenon DEF Active
      <3> QED
        BY <2>3, <3>1, <3>2 DEF ThreadInv
    <2> QED
      BY <2>2, <2>3, Zenon
  <1>9. FoundInv'
    BY Zenon DEF IdInv, FoundInv
  <1> QED
    BY ONLY <1>1, <1>2, <1>3, <1>4, <1>5, <1>6, <1>7, <1>8, <1>9, Zenon DEF IInv, ThreadInv

(* sys_waitpid collects the children.                                      *)
LEMMA WaitPidIInv ==
  ASSUME IInv, NEW t \in Ids, NEW which \in {Ids} \cup {{p} : p \in Ids},
         NEW opts \in SUBSET WaitOptions, WaitPid(t, which, opts)
  PROVE  IInv'
  <1>a. /\ pc[t] = "out" /\ pc' = [pc EXCEPT ![t] = "scan"]
        /\ UNCHANGED <<next_id, procs, parent, process, new, owner, threads, is_zombie>>
    BY Zenon DEF WaitPid, Goto, treeVars, groupVars, cloneVars
  <1>b. \A p \in Ids : parent'[p] \in procs
    BY <1>a, Zenon DEF IInv, IdInv
  <1>c. IdInv' /\ NewInv' /\ OwnerInv'
    BY <1>a, <1>b, MoveIds, Zenon DEF PCs
  <1>d. ThreadInv' /\ EndsOnce'
    BY <1>a, MoveThread, Zenon DEF Active
  <1> USE IdFacts DEF IInv, TypeOK, WaitPid, Goto, treeVars, groupVars, cloneVars, waitVars
  <1>1. TypeOK'
    BY MaxIdAssumption, Zenon DEF PCs, Ids, Main
  <1>2. FamilyTree'
    BY Zenon DEF FamilyTree, IdInv, OwnerInv
  <1>3. NotLost'
    BY Zenon DEF NotLost, FamilyTree, IdInv, OwnerInv, FoundInv
  <1>9. FoundInv'
    BY ZenonT(40) DEF IdInv, FoundInv
  <1> QED
    BY ONLY <1>1, <1>2, <1>3, <1>c, <1>d, <1>9, Zenon DEF IInv

(* sys_waitpid looks at one child.                                         *)
LEMMA WaitScanIInv ==
  ASSUME IInv, NEW t \in Ids, WaitScan(t)
  PROVE  IInv'
  <1> USE IdFacts DEF IInv, TypeOK, WaitScan, Goto, treeVars, groupVars, cloneVars, waitVars
  <1>0. PICK c \in rest[t] :
          /\ rest' = [rest EXCEPT ![t] = @ \ {c}]
          /\ \/ /\ is_zombie[c]
                /\ found' = [found EXCEPT ![t] = c]
                /\ pc' = [pc EXCEPT ![t] = IF "WNOWAIT" \in options[t] THEN "code" ELSE "free"]
             \/ UNCHANGED <<found, pc>>
    BY Zenon
  <1>1. TypeOK'
    <2>1. c \in Ids
      BY <1>0, Zenon
    <2>2. rest' \in [Ids -> SUBSET Ids]
      BY <1>0, Zenon
    <2>3. found' \in [Ids -> Ids]
      <3>1. found' = found \/ found' = [found EXCEPT ![t] = c]
        BY <1>0, Zenon
      <3>2. found \in [Ids -> Ids]
        BY Zenon
      <3> QED
        BY ONLY <2>1, <3>1, <3>2, Zenon
    <2>4. pc' \in [Ids -> PCs]
      <3>1. pc' = pc \/ pc' = [pc EXCEPT ![t] = "code"] \/ pc' = [pc EXCEPT ![t] = "free"]
        BY <1>0, Zenon
      <3>2. pc \in [Ids -> PCs]
        BY Zenon
      <3> QED
        BY ONLY <3>1, <3>2, Zenon DEF PCs
    <2>5. UNCHANGED <<next_id, app, treeVars, groupVars, process, cloneVars, snapshot,
                      options, status>>
      BY Zenon
    <2> QED
      BY ONLY <2>2, <2>3, <2>4, <2>5, TypeOK, Zenon DEF TypeOK, treeVars, groupVars, cloneVars
  <1>2. FamilyTree'
    BY Zenon DEF FamilyTree, IdInv, OwnerInv
  <1>3. NotLost'
    BY Zenon DEF NotLost, FamilyTree, IdInv, OwnerInv, FoundInv
  <1>4. EndsOnce'
    BY SMTT(40) DEF EndsOnce, IdInv, NewInv, OwnerInv, ThreadInv, Active
  <1>5. IdInv'
    BY DEF IdInv, NewInv, OwnerInv, FamilyTree
  <1>6. NewInv'
    BY SMTT(40) DEF IdInv, NewInv, OwnerInv
  <1>7. OwnerInv'
    BY SMTT(40) DEF IdInv, NewInv, OwnerInv
  <1>8. ThreadInv'
    BY DEF IdInv, NewInv, OwnerInv, ThreadInv, Active
  <1>9. FoundInv'
    BY <1>0 DEF FoundInv
  <1> QED
    BY ONLY <1>1, <1>2, <1>3, <1>4, <1>5, <1>6, <1>7, <1>8, <1>9, Zenon DEF IInv

(* sys_waitpid found no zombie.                                            *)
LEMMA WaitAgainIInv ==
  ASSUME IInv, NEW t \in Ids, WaitAgain(t)
  PROVE  IInv'
  <1>c. /\ pc[t] = "scan"
        /\ UNCHANGED <<next_id, procs, parent, process, new, owner, threads, is_zombie>>
    BY Zenon DEF WaitAgain, treeVars, groupVars, cloneVars
  <1>d. PICK x \in {"scan", "out"} : pc' = [pc EXCEPT ![t] = x]
    BY <1>c DEF WaitAgain, Return, Goto, IInv, TypeOK
  <1>e. \A p \in Ids : parent'[p] \in procs
    BY <1>c, Zenon DEF IInv, IdInv
  <1>f. IdInv' /\ NewInv' /\ OwnerInv'
    BY <1>c, <1>d, <1>e, MoveIds, Zenon DEF PCs
  <1>g. ThreadInv' /\ EndsOnce'
    BY <1>c, <1>d, MoveThread, Zenon DEF PCs, Active
  <1> USE IdFacts DEF IInv, TypeOK, WaitAgain, Goto, Return, treeVars, groupVars, cloneVars, waitVars
  <1>0. \/ /\ snapshot' = [snapshot EXCEPT ![t] = {}]
           /\ rest' = [rest EXCEPT ![t] = {}]
           /\ found' = [found EXCEPT ![t] = Main]
           /\ options' = [options EXCEPT ![t] = {}]
           /\ pc' = [pc EXCEPT ![t] = "out"]
        \/ /\ rest' = [rest EXCEPT ![t] = snapshot[t]]
           /\ UNCHANGED <<snapshot, found, options, pc>>
    BY Zenon
  <1>a. snapshot[t] \in SUBSET Ids
    BY Zenon
  <1>b. pc' = pc \/ pc' = [pc EXCEPT ![t] = "out"]
    BY <1>0, Zenon
  <1>1. TypeOK'
    <2>1. UNCHANGED <<next_id, app, treeVars, groupVars, process, cloneVars, status>>
      BY Zenon
    <2>2. snapshot' \in [Ids -> SUBSET Ids] /\ rest' \in [Ids -> SUBSET Ids]
      <3>1. snapshot' = snapshot \/ snapshot' = [snapshot EXCEPT ![t] = {}]
        BY ONLY <1>0, Zenon
      <3>2. rest' = [rest EXCEPT ![t] = {}] \/ rest' = [rest EXCEPT ![t] = snapshot[t]]
        BY ONLY <1>0, Zenon
      <3>3. snapshot \in [Ids -> SUBSET Ids] /\ rest \in [Ids -> SUBSET Ids]
        BY Zenon
      <3> QED
        BY ONLY <3>1, <3>2, <3>3, <1>a, Zenon
    <2>3. found' \in [Ids -> Ids] /\ options' \in [Ids -> SUBSET WaitOptions]
      <3>1. found' = found \/ found' = [found EXCEPT ![t] = Main]
        BY <1>0, Zenon
      <3>2. options' = options \/ options' = [options EXCEPT ![t] = {}]
        BY <1>0, Zenon
      <3>3. found \in [Ids -> Ids] /\ options \in [Ids -> SUBSET WaitOptions]
        BY Zenon
      <3> QED
        BY ONLY <3>1, <3>2, <3>3, IdFacts
    <2>4. pc' \in [Ids -> PCs]
      <3>1. "out" \in PCs
        BY Zenon DEF PCs
      <3>2. pc \in [Ids -> PCs]
        BY Zenon
      <3> QED
        BY ONLY <1>b, <3>1, <3>2, Zenon
    <2> QED
      BY ONLY <2>1, <2>2, <2>3, <2>4, TypeOK, Zenon DEF TypeOK, treeVars, groupVars, cloneVars
  <1>2. FamilyTree'
    BY Zenon DEF FamilyTree, IdInv, OwnerInv
  <1>3. NotLost'
    BY Zenon DEF NotLost, FamilyTree, IdInv, OwnerInv, FoundInv
  <1>9. FoundInv'
    BY DEF IdInv, FoundInv
  <1> QED
    BY ONLY <1>1, <1>2, <1>3, <1>f, <1>g, <1>9, Zenon DEF IInv

(* sys_waitpid frees a zombie.                                             *)
LEMMA WaitFreeIInv ==
  ASSUME IInv, NEW t \in Ids, WaitFree(t)
  PROVE  IInv'
  <1>a. /\ pc[t] = "free" /\ pc' = [pc EXCEPT ![t] = "code"]
        /\ UNCHANGED <<next_id, procs, process, new, owner, parent, threads, is_zombie>>
    BY Zenon DEF WaitFree, Goto, treeVars, groupVars, cloneVars, waitVars
  <1>y. \A p \in Ids : parent'[p] \in procs
    BY <1>a, Zenon DEF IInv, IdInv
  <1>b. IdInv' /\ NewInv' /\ OwnerInv'
    BY <1>a, <1>y, MoveIds, Zenon DEF PCs
  <1>c. ThreadInv' /\ EndsOnce'
    BY <1>a, MoveThread, Zenon DEF PCs, Active
  <1> USE IdFacts DEF IInv, TypeOK, WaitFree, Goto, treeVars, groupVars, cloneVars, waitVars
  <1>1. TypeOK'
    BY MaxIdAssumption, Zenon DEF PCs, Ids, Main
  <1>2. FamilyTree'
    BY SMTT(40) DEF FamilyTree, IdInv, OwnerInv
  <1>3. NotLost'
    BY DEF NotLost, FamilyTree, IdInv, OwnerInv, FoundInv
  <1>9. FoundInv'
    BY Zenon DEF IdInv, FoundInv
  <1> QED
    BY ONLY <1>1, <1>2, <1>3, <1>b, <1>c, <1>9, Zenon DEF IInv

(* sys_waitpid returns.                                                    *)
LEMMA WaitCodeIInv ==
  ASSUME IInv, NEW t \in Ids, WaitCode(t)
  PROVE  IInv'
  <1>a. /\ pc[t] = "code" /\ pc' = [pc EXCEPT ![t] = "out"]
        /\ UNCHANGED <<next_id, procs, process, new, owner, parent, threads, is_zombie>>
    BY Zenon DEF WaitCode, Goto, Return, treeVars, groupVars, cloneVars, waitVars
  <1>y. \A p \in Ids : parent'[p] \in procs
    BY <1>a, Zenon DEF IInv, IdInv
  <1>b. IdInv' /\ NewInv' /\ OwnerInv'
    BY <1>a, <1>y, MoveIds, Zenon DEF PCs
  <1>c. ThreadInv' /\ EndsOnce'
    BY <1>a, MoveThread, Zenon DEF PCs, Active
  <1> USE IdFacts DEF IInv, TypeOK, WaitCode, Goto, Return, treeVars, groupVars, cloneVars, waitVars
  <1>1. TypeOK'
    BY MaxIdAssumption, Zenon DEF PCs, Ids, Main
  <1>2. FamilyTree'
    BY Zenon DEF FamilyTree, IdInv, OwnerInv
  <1>3. NotLost'
    BY Zenon DEF NotLost, FamilyTree, IdInv, OwnerInv, FoundInv
  <1>9. FoundInv'
    BY DEF IdInv, FoundInv
  <1> QED
    BY ONLY <1>1, <1>2, <1>3, <1>b, <1>c, <1>9, Zenon DEF IInv

(* do_exit is called.                                                      *)
LEMMA ExitIInv ==
  ASSUME IInv, NEW t \in Ids, NEW code \in Codes, NEW group \in BOOLEAN, Exit(t, code, group)
  PROVE  IInv'
  <1>a. /\ pc[t] = "out" /\ pc' = [pc EXCEPT ![t] = "exit"]
        /\ UNCHANGED <<next_id, procs, process, new, owner, parent, threads, is_zombie>>
    BY Zenon DEF Exit, Goto, treeVars, groupVars, cloneVars, waitVars
  <1>y. \A p \in Ids : parent'[p] \in procs
    BY <1>a, Zenon DEF IInv, IdInv
  <1>b. IdInv' /\ NewInv' /\ OwnerInv'
    BY <1>a, <1>y, MoveIds, Zenon DEF PCs
  <1>c. ThreadInv' /\ EndsOnce'
    BY <1>a, MoveThread, Zenon DEF PCs, Active
  <1> USE IdFacts DEF IInv, TypeOK, Exit, Goto, treeVars, groupVars, cloneVars, waitVars
  <1>1. TypeOK'
    BY MaxIdAssumption, Zenon DEF PCs, Ids, Main
  <1>2. FamilyTree'
    BY Zenon DEF FamilyTree, IdInv, OwnerInv
  <1>3. NotLost'
    BY Zenon DEF NotLost, FamilyTree, IdInv, OwnerInv, FoundInv
  <1>9. FoundInv'
    BY Zenon DEF IdInv, FoundInv
  <1> QED
    BY ONLY <1>1, <1>2, <1>3, <1>b, <1>c, <1>9, Zenon DEF IInv

(* A thread leaves its thread group.                                       *)
LEMMA ThreadExitIInv ==
  ASSUME IInv, NEW t \in Ids, ThreadExit(t)
  PROVE  IInv'
  <1>a. /\ pc[t] = "exit"
        /\ pc' = [pc EXCEPT ![t] = IF threads[process[t]] \ {t} = {} THEN "zombie" ELSE "group"]
        /\ UNCHANGED <<next_id, procs, process, new, owner, parent, is_zombie>>
    BY Zenon DEF ThreadExit, Goto, treeVars, groupVars, cloneVars, waitVars
  <1>y. \A p \in Ids : parent'[p] \in procs
    BY <1>a, Zenon DEF IInv, IdInv
  <1>b. IdInv' /\ NewInv' /\ OwnerInv'
    BY <1>a, <1>y, MoveIds, Zenon DEF PCs
  <1> USE IdFacts DEF IInv, TypeOK, ThreadExit, Goto, treeVars, groupVars, cloneVars, waitVars
  <1>1. TypeOK'
    BY MaxIdAssumption, Zenon DEF PCs, Ids, Main
  <1>2. FamilyTree'
    BY Zenon DEF FamilyTree, IdInv, OwnerInv
  <1>3. NotLost'
    BY Zenon DEF NotLost, FamilyTree, IdInv, OwnerInv, FoundInv
  <1>4. EndsOnce'
    <2>1. \A p \in Ids : is_zombie[p] => threads'[p] = {}
      BY Zenon DEF EndsOnce
    <2>2. ASSUME NEW u \in Ids, NEW v \in Ids, u # v,
                 pc'[u] \in {"zombie", "reparent"}, process[v] = process[u]
          PROVE  pc'[v] \in {"none", "group", "gone"}
      <3>1. CASE u = t
        <4>1. v \notin threads[process[t]]
          BY <2>2, <3>1, Zenon
        <4>2. ~Active(v)
          BY <2>2, <3>1, <4>1 DEF ThreadInv
        <4>3. pc[v] \notin {"zombie", "reparent"}
          BY <2>2, <3>1, Zenon DEF EndsOnce
        <4> QED
          BY <2>2, <3>1, <4>2, <4>3, Zenon DEF Active, PCs
      <3>2. CASE u # t
        BY <2>2, <3>2, Zenon DEF EndsOnce
      <3> QED
        BY <3>1, <3>2, Zenon
    <2> QED
      BY <2>1, <2>2, Zenon DEF EndsOnce
  <1>8. ThreadInv'
    <2>1. \A u \in Ids : Active(u)' <=> Active(u) /\ u # t
      BY ONLY <1>a, pc \in [Ids -> PCs], t \in Ids, Zenon DEF Active
    <2>2. \A p \in Ids : threads'[p] = IF p = process[t] THEN threads[p] \ {t} ELSE threads[p]
      BY Zenon
    <2>3. ASSUME NEW p \in Ids, NEW u \in Ids
          PROVE  u \in threads'[p] <=> (Active(u)' /\ process[u] = p)
      <3>1. u \in threads[p] <=> (Active(u) /\ process[u] = p)
        BY ONLY ThreadInv, p \in Ids, u \in Ids, Zenon DEF ThreadInv
      <3>2. u \in threads'[p] <=> (u \in threads[p] /\ ~(p = process[t] /\ u = t))
        BY ONLY <2>2, p \in Ids, Zenon
      <3> QED
        BY ONLY <2>1, <3>1, <3>2, u \in Ids, Zenon
    <2> QED
      BY ONLY <1>a, <2>3, Zenon DEF ThreadInv
  <1>9. FoundInv'
    BY Zenon DEF IdInv, FoundInv
  <1> QED
    BY ONLY <1>1, <1>2, <1>3, <1>4, <1>b, <1>8, <1>9, Zenon DEF IInv

(* The last thread makes its process a zombie.                             *)
LEMMA BecomeZombieIInv ==
  ASSUME IInv, NEW t \in Ids, BecomeZombie(t)
  PROVE  IInv'
  <1>a. /\ pc[t] = "zombie" /\ pc' = [pc EXCEPT ![t] = "reparent"]
        /\ UNCHANGED <<next_id, procs, process, new, owner, parent, threads>>
    BY Zenon DEF BecomeZombie, Goto, treeVars, groupVars, cloneVars, waitVars
  <1>z. \A p \in Ids : is_zombie'[p] => is_zombie[p] \/ p = process[t]
    BY Zenon DEF BecomeZombie, IInv, TypeOK
  <1>y. \A p \in Ids : parent'[p] \in procs
    BY <1>a, Zenon DEF IInv, IdInv
  <1>b. IdInv' /\ NewInv' /\ OwnerInv'
    BY <1>a, <1>y, <1>z, MoveIds, Zenon DEF PCs
  <1> USE IdFacts DEF IInv, TypeOK, BecomeZombie, Goto, treeVars, groupVars, cloneVars, waitVars
  <1>1. TypeOK'
    BY MaxIdAssumption, Zenon DEF PCs, Ids, Main
  <1>2. FamilyTree'
    BY Zenon DEF FamilyTree, IdInv, OwnerInv
  <1>3. NotLost'
    <2>1. UNCHANGED <<procs, children, parent>>
      BY Zenon
    <2>2. \A p \in Ids : is_zombie[p] => is_zombie'[p]
      BY Zenon
    <2> QED
      BY ONLY <2>1, <2>2, NotLost, procs \subseteq Ids, Zenon DEF NotLost
  <1>4. EndsOnce'
    <2>1. ASSUME NEW u \in threads[process[t]] PROVE FALSE
      <3>1. u \in Ids /\ Active(u) /\ process[u] = process[t]
        BY <2>1 DEF ThreadInv
      <3> QED
        BY <3>1, Zenon DEF EndsOnce, Active
    <2>2. \A p \in Ids : is_zombie'[p] => threads[p] = {}
      BY <2>1, Zenon DEF EndsOnce
    <2>3. \A u, v \in Ids :
            (u # v /\ pc'[u] \in {"zombie", "reparent"} /\ process[v] = process[u])
              => pc'[v] \in {"none", "group", "gone"}
      BY DEF EndsOnce
    <2> QED
      BY <2>2, <2>3, Zenon DEF EndsOnce
  <1>8. ThreadInv'
    <2>1. \A u \in Ids : Active(u)' <=> Active(u)
      BY ONLY <1>a, pc \in [Ids -> PCs], Zenon DEF Active
    <2> QED
      BY ONLY <1>a, <2>1, ThreadInv, Zenon DEF ThreadInv
  <1>9. FoundInv'
    BY Zenon DEF IdInv, FoundInv
  <1> QED
    BY ONLY <1>1, <1>2, <1>3, <1>4, <1>b, <1>8, <1>9, Zenon DEF IInv

(* The children of a zombie go to init.                                    *)
LEMMA ReparentIInv ==
  ASSUME IInv, NEW t \in Ids, Reparent(t)
  PROVE  IInv'
  <1>a. /\ pc[t] = "reparent" /\ pc' = [pc EXCEPT ![t] = "group"]
        /\ UNCHANGED <<next_id, procs, process, new, owner, threads, is_zombie>>
    BY Zenon DEF Reparent, Goto, treeVars, groupVars, cloneVars, waitVars
  <1>z. \A p \in Ids : parent'[p] \in procs
    BY Zenon DEF Reparent, IInv, IdInv
  <1>b. IdInv' /\ NewInv' /\ OwnerInv'
    BY <1>a, <1>z, MoveIds, Zenon DEF PCs
  <1>c. ThreadInv' /\ EndsOnce'
    BY <1>a, MoveThread, Zenon DEF PCs, Active
  <1> USE IdFacts DEF IInv, TypeOK, Reparent, Goto, treeVars, groupVars, cloneVars, waitVars
  <1>1. TypeOK'
    BY MaxIdAssumption, Zenon DEF PCs, Ids, Main
  <1>0. process[t] \in Ids /\ process[t] # Main
    BY Zenon DEF IdInv
  <1>2. ASSUME NEW p \in Ids, NEW q \in Ids, q \in children'[p]
        PROVE  p \in procs /\ q \in procs /\ parent'[q] = p
    <2>1. CASE q \in children[process[t]]
      <3>1. parent[q] = process[t] /\ q \in procs /\ parent'[q] = Main
        BY <1>0, <2>1, Zenon DEF FamilyTree
      <3>2. p = Main
        BY <1>0, <1>2, <3>1, Zenon DEF FamilyTree
      <3> QED
        BY <3>1, <3>2, Zenon DEF IdInv
    <2>2. CASE q \notin children[process[t]]
      <3>1. q \in children[p] /\ parent'[q] = parent[q]
        BY <1>0, <1>2, <2>2, Zenon
      <3> QED
        BY <3>1, Zenon DEF FamilyTree
    <2> QED
      BY <2>1, <2>2, Zenon
  <1>3. ASSUME NEW p \in procs \ {Main}, ~is_zombie[p]
        PROVE  p \in children'[parent'[p]]
    <2>1. p \in Ids /\ p \in children[parent[p]]
      BY <1>3, Zenon DEF NotLost
    <2>2. CASE p \in children[process[t]]
      BY <1>0, <2>1, <2>2, Zenon
    <2>3. CASE p \notin children[process[t]]
      <3>1. parent'[p] = parent[p] /\ parent[p] # process[t]
        BY <2>1, <2>3, Zenon
      <3> QED
        BY <1>0, <2>1, <3>1, Zenon
    <2> QED
      BY <2>2, <2>3, Zenon
  <1>9. FoundInv'
    BY Zenon DEF IdInv, FoundInv
  <1>10. UNCHANGED <<procs, is_zombie>>
    BY Zenon
  <1> QED
    BY ONLY <1>1, <1>2, <1>3, <1>b, <1>c, <1>9, <1>10, Zenon DEF IInv, FamilyTree, NotLost

(* The thread group is marked and the task exits.                          *)
LEMMA GroupExitIInv ==
  ASSUME IInv, NEW t \in Ids, GroupExit(t)
  PROVE  IInv'
  <1>a. /\ pc[t] = "group" /\ pc' = [pc EXCEPT ![t] = "gone"]
        /\ UNCHANGED <<next_id, procs, process, new, owner, parent, threads, is_zombie>>
    BY Zenon DEF GroupExit, Goto, treeVars, groupVars, cloneVars, waitVars
  <1>y. \A p \in Ids : parent'[p] \in procs
    BY <1>a, Zenon DEF IInv, IdInv
  <1>b. IdInv' /\ NewInv' /\ OwnerInv'
    BY <1>a, <1>y, MoveIds, Zenon DEF PCs
  <1>c. ThreadInv' /\ EndsOnce'
    BY <1>a, MoveThread, Zenon DEF PCs, Active
  <1> USE IdFacts DEF IInv, TypeOK, GroupExit, Goto, treeVars, groupVars, cloneVars, waitVars
  <1>1. TypeOK'
    <2>1. status[t].group \in BOOLEAN /\ group_exited[process[t]] \in BOOLEAN
      BY Zenon
    <2>2. (group_exited[process[t]] \/ status[t].group) \in BOOLEAN
      BY <2>1, Zenon
    <2>3. group_exited' \in [Ids -> BOOLEAN]
      BY <2>2, Zenon
    <2>4. status' \in [Ids -> [code : Codes, group : BOOLEAN]]
      BY CodesAssumption, Zenon
    <2> QED
      BY <2>3, <2>4, Zenon DEF PCs
  <1>2. FamilyTree'
    BY Zenon DEF FamilyTree, IdInv, OwnerInv
  <1>3. NotLost'
    BY Zenon DEF NotLost, FamilyTree, IdInv, OwnerInv, FoundInv
  <1>9. FoundInv'
    BY Zenon DEF IdInv, FoundInv
  <1> QED
    BY ONLY <1>1, <1>2, <1>3, <1>b, <1>c, <1>9, Zenon DEF IInv

(* A step that changes nothing.                                            *)
LEMMA StutterIInv ==
  ASSUME IInv, UNCHANGED vars
  PROVE  IInv'
  <1>1. UNCHANGED <<next_id, app, procs, parent, children, is_zombie, threads, exit_code,
                    group_exited, process, pc, new, owner, snapshot, rest, found,
                    options, status>>
    BY Zenon DEF vars, treeVars, groupVars, cloneVars, waitVars
  <1>2. TypeOK'
    BY ONLY <1>1, IInv, Zenon DEF IInv, TypeOK
  <1>3. FamilyTree' /\ NotLost' /\ EndsOnce'
    BY ONLY <1>1, IInv, Zenon DEF IInv, FamilyTree, NotLost, EndsOnce
  <1>4. IdInv' /\ NewInv' /\ OwnerInv'
    BY ONLY <1>1, IInv, Zenon DEF IInv, IdInv, NewInv, OwnerInv
  <1>5. ThreadInv' /\ FoundInv'
    BY ONLY <1>1, IInv, Zenon DEF IInv, ThreadInv, FoundInv, Active
  <1> QED
    BY ONLY <1>2, <1>3, <1>4, <1>5, Zenon DEF IInv

(* The invariant is inductive: one case for each action.                   *)
LEMMA NextIInv ==
  ASSUME IInv, [Next]_vars
  PROVE  IInv'
  <1>1. CASE RunUserApp
    BY <1>1, RunUserAppIInv, Zenon
  <1>2. ASSUME NEW t \in Ids, Call(t)
        PROVE  IInv'
    <2>1. ASSUME NEW kind \in Kinds, Clone(t, kind)
          PROVE  IInv'
      BY <2>1, CloneIInv, Zenon
    <2>2. CASE CloneError(t)
      BY <2>2, CloneErrorIInv, Zenon
    <2>3. CASE CloneNoMemory(t)
      BY <2>3, CloneNoMemoryIInv, Zenon
    <2>4. ASSUME NEW which \in {Ids} \cup {{p} : p \in Ids},
                 NEW opts \in SUBSET WaitOptions, WaitPid(t, which, opts)
          PROVE  IInv'
      BY <2>4, WaitPidIInv, Zenon
    <2>5. ASSUME NEW code \in Codes, NEW group \in BOOLEAN, Exit(t, code, group)
          PROVE  IInv'
      BY <2>5, ExitIInv, Zenon
    <2> QED
      BY <1>2, <2>1, <2>2, <2>3, <2>4, <2>5, Zenon DEF Call
  <1>3. ASSUME NEW t \in Ids, Step(t)
        PROVE  IInv'
    <2>1. CASE CloneBuild(t)
      BY <2>1, CloneBuildIInv, Zenon
    <2>2. CASE CloneThread(t)
      BY <2>2, CloneThreadIInv, Zenon
    <2>3. CASE WaitScan(t)
      BY <2>3, WaitScanIInv, Zenon
    <2>4. CASE WaitAgain(t)
      BY <2>4, WaitAgainIInv, Zenon
    <2>5. CASE WaitFree(t)
      BY <2>5, WaitFreeIInv, Zenon
    <2>6. CASE WaitCode(t)
      BY <2>6, WaitCodeIInv, Zenon
    <2>7. CASE ThreadExit(t)
      BY <2>7, ThreadExitIInv, Zenon
    <2>8. CASE BecomeZombie(t)
      BY <2>8, BecomeZombieIInv, Zenon
    <2>9. CASE Reparent(t)
      BY <2>9, ReparentIInv, Zenon
    <2>10. CASE GroupExit(t)
      BY <2>10, GroupExitIInv, Zenon
    <2> QED
      BY <1>3, <2>1, <2>2, <2>3, <2>4, <2>5, <2>6, <2>7, <2>8, <2>9, <2>10, Zenon DEF Step
  <1>4. CASE UNCHANGED vars
    BY <1>4, StutterIInv, Zenon
  <1> QED
    BY <1>1, <1>2, <1>3, <1>4, Zenon DEF Next

-----------------------------------------------------------------------------
(* IInv holds in every reachable state of clone, waitpid and exit, for any *)
(* number of ids, any exit codes and any kinds of clone.                   *)
THEOREM IInvAlways == Spec => []IInv
  <1>1. Init => IInv
    BY InitIInv, Zenon
  <1>2. IInv /\ [Next]_vars => IInv'
    BY NextIInv, Zenon
  <1> QED
    BY <1>1, <1>2, PTL DEF Spec

(* The process table, the thread groups and every call's locals keep their *)
(* types.                                                                  *)
THEOREM TypeOKAlways == Spec => []TypeOK
  <1>1. IInv => TypeOK
    BY Zenon DEF IInv
  <1> QED
    BY <1>1, IInvAlways, PTL

(* Process::children and Process::parent agree under every interleaving of *)
(* ProcessBuilder::build, Process::exit and Process::free.                 *)
THEOREM FamilyTreeAlways == Spec => []FamilyTree
  <1>1. IInv => FamilyTree
    BY Zenon DEF IInv
  <1> QED
    BY <1>1, IInvAlways, PTL

(* A process that has not exited stays in its parent's children map.       *)
THEOREM NotLostAlways == Spec => []NotLost
  <1>1. IInv => NotLost
    BY Zenon DEF IInv
  <1> QED
    BY <1>1, IInvAlways, PTL

(* Exactly one of the threads that leave a process runs Process::exit, and *)
(* no thread joins a zombie.                                               *)
THEOREM EndsOnceAlways == Spec => []EndsOnce
  <1>1. IInv => EndsOnce
    BY Zenon DEF IInv
  <1> QED
    BY <1>1, IInvAlways, PTL

(* A thread that runs Thread::exit is still in its thread group, so its    *)
(* process is no zombie yet: the code a waitpid reads after free() is the  *)
(* one the process ended with.                                             *)
THEOREM FinalCodeAlways == Spec => FinalCode
  <1> DEFINE Kept ==
        \A p \in Ids : is_zombie[p] => exit_code'[p] = exit_code[p] /\ is_zombie'[p]
  <1>1. ASSUME IInv, [Next]_vars
        PROVE  Kept
    <2> USE <1>1 DEF IInv, TypeOK, vars, treeVars, groupVars, cloneVars, waitVars, Goto, Return
    <2>1. CASE UNCHANGED vars
      BY <2>1, Zenon
    <2>2. CASE RunUserApp
      BY <2>2, Zenon DEF RunUserApp
    <2>3. ASSUME NEW t \in Ids, Call(t)
          PROVE  Kept
      BY <2>3, Zenon DEF Call, Clone, CloneError, CloneNoMemory, WaitPid, Exit
    <2>4. ASSUME NEW t \in Ids, ThreadExit(t)
          PROVE  Kept
      <3>1. ~is_zombie[process[t]]
        BY <2>4, SMTT(40) DEF ThreadExit, ThreadInv, EndsOnce, Active
      <3> QED
        BY <2>4, <3>1, Zenon DEF ThreadExit
    <2>5. ASSUME NEW t \in Ids, Step(t), ~ThreadExit(t)
          PROVE  Kept
      BY <2>5, Zenon DEF Step, CloneBuild, CloneThread, WaitScan, WaitAgain, WaitFree, WaitCode,
                  BecomeZombie, Reparent, GroupExit
    <2> QED
      BY <2>1, <2>2, <2>3, <2>4, <2>5, Zenon DEF Next
  <1>2. IInv /\ [Next]_vars => [Kept]_vars
    BY <1>1, Zenon
  <1> QED
    BY <1>2, IInvAlways, PTL DEF Spec, FinalCode

=============================================================================
