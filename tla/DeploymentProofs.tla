-------------------------- MODULE DeploymentProofs --------------------------
(* Theorems about Deployment, for any number of infrastructure targets,    *)
(* deployments, deletions and faults, and any choice of requests.          *)
EXTENDS Deployment, TLAPS

Manifests == {"a", "b"}
Ages == {"fresh", "stale", "old"}
RowStatus == {"none", "starting", "running", "error", "lost"}
DepStatus == {"none", "in_progress", "done", "failed"}
Health == {"none", "running", "error"}

\* The bounds of the constants as plain facts of arithmetic.
LEMMA Bounds ==
  /\ 0 \in 0..Targets /\ 0 \in 0..MaxDeps /\ 1 \in 1..Targets
  /\ 0 \in 0..MaxDeletes /\ 0 \in 0..MaxFaults
  BY DeploymentAssumption

\* No row is a row.
LEMMA NoRowType == NoRow \in Row
  BY Bounds DEF Row, NoRow

\* The fields of a row.
LEMMA RowFields ==
  ASSUME NEW w \in Row
  PROVE  /\ w.status \in RowStatus /\ w.infra \in 0..Targets
         /\ w.gen \in 0..MaxDeps /\ w.man \in Manifests /\ w.id \in 0..MaxDeps
  BY DEF Row, RowStatus, Manifests

\* The changes that actions make to a row keep its shape.
LEMMA RowFacts ==
  ASSUME NEW w \in Row, NEW s \in RowStatus, NEW i \in 0..Targets
  PROVE  /\ [w EXCEPT !.status = s] \in Row
         /\ [w EXCEPT !.status = s, !.infra = i] \in Row
  BY DEF Row, RowStatus

\* RecordMapper.update leaves a row.
LEMMA MergeType ==
  ASSUME row \in Row, NEW v \in Row, NEW w \in Row
  PROVE  Merge(v, w) \in Row
  BY DEF Merge, Row

\* The fields of a deployment.
LEMMA DepFields ==
  ASSUME NEW u \in Deployment
  PROVE  /\ u.pc \in DepPC /\ u.kind \in AnyKind /\ u.target \in 0..Targets
         /\ u.from \in 0..Targets /\ u.man \in Manifests /\ u.seen \in Row
         /\ u.status \in DepStatus /\ u.age \in Ages
  BY DEF Deployment, Manifests, DepStatus, Ages

\* What the steps of a thread do to its record keeps the record's shape.
LEMMA DepMoves ==
  ASSUME NEW u \in Deployment, NEW p \in DepPC
  PROVE  /\ [u EXCEPT !.pc = p] \in Deployment
         /\ [u EXCEPT !.pc = p, !.age = "fresh"] \in Deployment
  BY DEF Deployment

\* A deployment that has read the row,
LEMMA DepReads ==
  ASSUME NEW u \in Deployment, NEW p \in DepPC, NEW w \in Row
  PROVE  /\ [u EXCEPT !.pc = p, !.seen = w] \in Deployment
         /\ [u EXCEPT !.pc = p, !.seen = w, !.age = "fresh"] \in Deployment
  BY DEF Deployment

\* and one whose result is saved.
LEMMA DepEnds ==
  ASSUME NEW u \in Deployment, NEW p \in DepPC, NEW s \in DepStatus,
         NEW a \in Ages
  PROVE  /\ [u EXCEPT !.pc = p, !.age = a, !.status = s] \in Deployment
         /\ [u EXCEPT !.status = s, !.age = a] \in Deployment
         /\ [u EXCEPT !.age = a] \in Deployment
  BY DEF Deployment, DepStatus, Ages

\* The row a deployment writes.
LEMMA DescribedType ==
  ASSUME dep \in [Dep -> Deployment], NEW d \in Dep,
         NEW s \in {"starting", "running"}
  PROVE  Described(d, s) \in Row
<1>1. /\ dep[d].target \in 0..Targets /\ dep[d].man \in {"a", "b"}
  BY DepFields DEF Manifests
<1>2. d \in 0..MaxDeps BY DeploymentAssumption DEF Dep
<1>3. QED BY <1>1, <1>2 DEF Described, Row

\* The thread of a deployment goes on or fails: its record keeps its shape.
LEMMA GoesType ==
  ASSUME dep \in [Dep -> Deployment], NEW d \in Dep, NEW p \in DepPC
  PROVE  /\ Goes(d, p) => dep' \in [Dep -> Deployment]
         /\ GoesOn(d, p) => dep' \in [Dep -> Deployment]
         /\ Fails(d) => dep' \in [Dep -> Deployment]
<1>1. "fail" \in DepPC /\ NoRow \in Row BY NoRowType DEF DepPC
<1>2. dep[d] \in Deployment OBVIOUS
<1>3. /\ [dep[d] EXCEPT !.pc = p] \in Deployment
      /\ [dep[d] EXCEPT !.pc = p, !.age = "fresh"] \in Deployment
  BY <1>2, DepMoves
<1>4. [dep[d] EXCEPT !.pc = "fail", !.seen = NoRow] \in Deployment
  BY <1>1, <1>2, DepReads
<1>5. QED BY <1>3, <1>4 DEF Goes, GoesOn, Fails

\* JobDeployer.delete_job leaves instances.
LEMMA UndeployType ==
  ASSUME inst \in [Infra -> Instance], NEW i, Undeploy(i)
  PROVE  inst' \in [Infra -> Instance]
<1>1. NoInstance \in Instance BY Bounds DEF NoInstance, Instance
<1>2. QED BY <1>1 DEF Undeploy

\* The count of faults stays within its bound.
LEMMA FaultType ==
  ASSUME faults \in 0..MaxFaults, Fault \/ UNCHANGED faults
  PROVE  faults' \in 0..MaxFaults
  BY DeploymentAssumption DEF Fault

\* Type correctness of the initial state.
LEMMA TypeInit == Init => TypeOK
<1> SUFFICES ASSUME Init PROVE TypeOK OBVIOUS
<1> USE Bounds
<1>1. NoInstance \in Instance BY DEF NoInstance, Instance
<1>2. Unused \in Deployment BY NoRowType DEF Unused, Deployment, DepPC, AnyKind
<1>3. NoDelete \in Delete BY NoRowType DEF NoDelete, Delete
<1>4. NoSync \in Sync BY NoRowType DEF NoSync, Sync
<1>5. /\ inst \in [Infra -> Instance] /\ dep \in [Dep -> Deployment]
  BY <1>1, <1>2 DEF Init
<1>6. /\ row \in Row /\ trash \subseteq Dep /\ ndep \in 0..MaxDeps
      /\ del \in Delete /\ ndel \in 0..MaxDeletes /\ sync \in Sync
      /\ verified \subseteq Dep /\ ready \subseteq Dep /\ overlap \subseteq Dep
      /\ misled \in {"no", "yes"} /\ faults \in 0..MaxFaults
  BY <1>3, <1>4, NoRowType DEF Init
<1>7. QED BY <1>5, <1>6 DEF TypeOK

\* A request that passed the concurrency check adds a deployment.
LEMMA TypeRequested ==
  ASSUME TypeOK, NEW u \in Deployment, Requested(u)
  PROVE  TypeOK'
<1>1. ndep + 1 \in Dep /\ ndep' \in 0..MaxDeps
  BY DeploymentAssumption DEF TypeOK, Requested, Dep
<1>2. dep' \in [Dep -> Deployment] BY DEF TypeOK, Requested
<1>3. overlap' \subseteq Dep BY <1>1 DEF TypeOK, Requested
<1>4. QED BY <1>1, <1>2, <1>3 DEF TypeOK, Requested

\* So do redeploying, reprovisioning and moving, with what the row says.
LEMMA TypeAgain ==
  ASSUME TypeOK, NEW kind, NEW i \in Infra, RequestAgain(kind, i)
  PROVE  TypeOK'
<1> DEFINE u == [Unused EXCEPT !.pc = "insert", !.kind = kind, !.target = i,
                               !.from = row.infra, !.man = row.man]
<1>1. row \in Row BY DEF TypeOK
<1>2. row.infra \in 0..Targets /\ row.man \in {"a", "b"}
  BY <1>1, RowFields DEF Manifests
<1>3. kind \in AnyKind /\ i \in 0..Targets
  BY DeploymentAssumption DEF RequestAgain, AnyKind, Infra
<1>4. u \in Deployment
  BY <1>2, <1>3, NoRowType DEF Unused, Deployment, DepPC
<1>5. Requested(u) BY DEF RequestAgain
<1> HIDE DEF u
<1>6. QED BY <1>4, <1>5, TypeRequested

\* Requests keep the types.
LEMMA TypeRequest == ASSUME TypeOK, Request PROVE TypeOK'
<1>1. ASSUME NEW i \in Infra, NEW kind \in Kind, RequestDeploy(kind, i)
      PROVE  TypeOK'
  <2> DEFINE u == [Unused EXCEPT !.pc = "insert", !.kind = kind, !.target = i]
  <2>1. kind \in AnyKind /\ i \in 0..Targets
    BY DeploymentAssumption DEF Infra
  <2>2. u \in Deployment BY <2>1, NoRowType, Bounds
                         DEF Unused, Deployment, DepPC
  <2>3. Requested(u) BY <1>1 DEF RequestDeploy
  <2> HIDE DEF u
  <2>4. QED BY <2>2, <2>3, TypeRequested
<1>2. ASSUME NEW i \in Infra, NEW kind \in Kind, RequestAgain(kind, i)
      PROVE  TypeOK'
  BY <1>2, TypeAgain
<1>3. CASE Reconcile
  <2>1. PICK i \in Infra : RequestAgain("reprovision", i) BY <1>3 DEF Reconcile
  <2>2. QED BY <2>1, TypeAgain
<1>4. CASE RequestDelete
  <2>1. row \in Row /\ ndel' \in 0..MaxDeletes
    BY <1>4, DeploymentAssumption DEF TypeOK, RequestDelete
  <2>2. del' \in Delete BY <1>4, <2>1 DEF RequestDelete, Delete
  <2>3. overlap' \subseteq Dep BY <1>4 DEF TypeOK, RequestDelete
  <2>4. QED BY <1>4, <2>1, <2>2, <2>3 DEF TypeOK, RequestDelete
<1>5. CASE EditManifest
  <2>1. row' \in Row BY <1>5 DEF TypeOK, EditManifest, Row
  <2>2. QED BY <1>5, <2>1 DEF TypeOK, EditManifest, history
<1>6. QED BY <1>1, <1>2, <1>3, <1>4, <1>5 DEF Request

\* A step of a deployment's thread that only moves the thread on.
LEMMA TypeGoes ==
  ASSUME TypeOK, dep' \in [Dep -> Deployment],
         UNCHANGED <<row, trash, inst, ndep, del, ndel, sync, history, faults>>
  PROVE  TypeOK'
  BY DEF TypeOK, history

\* So do all steps of the thread of a deployment,
LEMMA TypeThread == ASSUME TypeOK, NEW d \in Dep, ThreadStep(d) PROVE TypeOK'
<1>0. /\ dep \in [Dep -> Deployment] /\ inst \in [Infra -> Instance]
      /\ row \in Row /\ faults \in 0..MaxFaults
  BY DEF TypeOK
<1>d. /\ dep[d] \in Deployment /\ dep[d].seen \in Row
      /\ dep[d].status \in DepStatus /\ dep[d].kind \in AnyKind
  BY <1>0, DepFields
<1>1. CASE Insert(d)
  <2> DEFINE p == CASE dep[d].kind = "build" -> "over"
                    [] dep[d].kind = "redeploy" -> "build"
                    [] dep[d].kind \in {"reprovision", "move"} -> "provision"
                    [] OTHER -> "start"
  <2>1. p \in DepPC BY <1>d DEF DepPC, AnyKind
  <2>2. dep' = [dep EXCEPT ![d].status = "in_progress", ![d].age = "fresh",
                           ![d].pc = p]
    BY <1>1 DEF Insert
  <2> HIDE DEF p
  <2>3. [dep[d] EXCEPT !.status = "in_progress", !.age = "fresh", !.pc = p]
          \in Deployment
    BY <1>d, <2>1 DEF Deployment
  <2>5. dep' \in [Dep -> Deployment] BY <1>0, <2>2, <2>3
  <2>4. QED BY <1>1, <2>5, TypeGoes DEF Insert
<1>2. CASE Start(d)
  BY <1>0, <1>2, GoesType, TypeGoes DEF Start, DepPC
<1>3. CASE Build(d)
  BY <1>0, <1>3, GoesType, TypeGoes DEF Build, DepPC
<1>4. CASE Provision(d)
  <2>1. dep' \in [Dep -> Deployment]
    BY <1>0, <1>4, GoesType DEF Provision, DepPC
  <2>2. [gen |-> d, health |-> "error"] \in Instance
    BY DeploymentAssumption DEF Instance, Dep
  <2>3. inst' \in [Infra -> Instance] BY <1>0, <1>4, <2>2 DEF Provision
  <2>4. faults' \in 0..MaxFaults BY <1>0, <1>4, FaultType DEF Provision
  <2>5. QED BY <1>4, <2>1, <2>3, <2>4 DEF TypeOK, Provision, history
<1>5. CASE SaveRead(d)
  <2>1. "save" \in DepPC BY DEF DepPC
  <2>4. [dep[d] EXCEPT !.pc = "save", !.seen = row] \in Deployment
    BY <1>0, <1>d, <2>1, DepReads
  <2>2. dep' \in [Dep -> Deployment] BY <1>0, <1>5, <2>4 DEF SaveRead
  <2>3. QED BY <1>5, <2>2, TypeGoes DEF SaveRead
<1>6. CASE Save(d)
  <2>1. Described(d, "starting") \in Row BY <1>0, DescribedType
  <2>2. row' \in Row BY <1>0, <1>d, <1>6, <2>1, MergeType DEF Save
  <2>3. "check" \in DepPC /\ NoRow \in Row BY NoRowType DEF DepPC
  <2>6. [dep[d] EXCEPT !.pc = "check", !.seen = NoRow, !.age = "fresh"]
          \in Deployment
    BY <1>d, <2>3, DepReads
  <2>4. dep' \in [Dep -> Deployment]
    BY <1>0, <1>6, <2>3, <2>6, GoesType DEF Save
  <2>5. QED BY <1>6, <2>2, <2>4 DEF TypeOK, Save, history
<1>7. CASE CheckAlive(d)
  <2>1. dep' \in [Dep -> Deployment]
    BY <1>0, <1>7, GoesType DEF CheckAlive, CheckFailed, DepPC
  <2>2. verified' \subseteq Dep BY <1>7 DEF TypeOK, CheckAlive
  <2>3. QED BY <1>7, <2>1, <2>2 DEF TypeOK, CheckAlive
<1>16. CASE CheckReady(d)
  <2>1. dep' \in [Dep -> Deployment]
    BY <1>0, <1>16, GoesType DEF CheckReady, CheckFailed, DepPC
  <2>2. inst' \in [Infra -> Instance] BY <1>0, <1>16 DEF CheckReady, Instance
  <2>3. ready' \subseteq Dep BY <1>16 DEF TypeOK, CheckReady
  <2>4. QED BY <1>16, <2>1, <2>2, <2>3 DEF TypeOK, CheckReady
<1>8. CASE Rollback(d)
  <2>1. dep' \in [Dep -> Deployment]
    BY <1>0, <1>8, GoesType DEF Rollback, DepPC
  <2>2. inst' \in [Infra -> Instance]
    BY <1>0, <1>8, UndeployType DEF Rollback
  <2>3. faults' \in 0..MaxFaults BY <1>0, <1>8, FaultType DEF Rollback
  <2>4. QED BY <1>8, <2>1, <2>2, <2>3 DEF TypeOK, Rollback, history
<1>9. CASE Unsave(d)
  <2>1. dep' \in [Dep -> Deployment] BY <1>0, <1>9, GoesType DEF Unsave, DepPC
  <2>2. QED BY <1>9, <2>1, NoRowType DEF TypeOK, Unsave, history
<1>10. CASE Post(d)
  BY <1>0, <1>10, GoesType, TypeGoes DEF Post, DepPC
<1>11. CASE RunRead(d)
  <2>1. "run" \in DepPC BY DEF DepPC
  <2>4. [dep[d] EXCEPT !.pc = "run", !.seen = row] \in Deployment
    BY <1>0, <1>d, <2>1, DepReads
  <2>2. dep' \in [Dep -> Deployment]
    BY <1>0, <1>11, <2>1, <2>4, GoesType DEF RunRead
  <2>3. QED BY <1>11, <2>2, TypeGoes DEF RunRead
<1>12. CASE Run(d)
  <2>1. Described(d, "running") \in Row BY <1>0, DescribedType
  <2>2. row' \in Row BY <1>0, <1>d, <1>12, <2>1, MergeType DEF Run
  <2> DEFINE p == IF dep[d].kind = "move" THEN "decommission" ELSE "ok"
  <2>3. p \in DepPC /\ NoRow \in Row BY NoRowType DEF DepPC
  <2>4. CASE dep[d].seen.id = row.id
    <3>1. dep' = [dep EXCEPT ![d].seen = NoRow, ![d].age = "fresh", ![d].pc = p]
      BY <1>12, <2>4 DEF Run
    <3> HIDE DEF p
    <3>2. [dep[d] EXCEPT !.seen = NoRow, !.age = "fresh", !.pc = p] \in Deployment
      BY <1>d, <2>3 DEF Deployment
    <3>3. dep' \in [Dep -> Deployment] BY <1>0, <3>1, <3>2
    <3>4. QED BY <1>12, <2>2, <3>3 DEF TypeOK, Run, history
  <2>5. CASE dep[d].seen.id # row.id
    <3>1. dep' \in [Dep -> Deployment]
      BY <1>0, <1>12, <2>3, <2>5, GoesType DEF Run
    <3>2. QED BY <1>12, <2>2, <3>1 DEF TypeOK, Run, history
  <2>6. QED BY <2>4, <2>5
<1>13. CASE Decommission(d)
  <2>1. dep' \in [Dep -> Deployment]
    BY <1>0, <1>13, GoesType DEF Decommission, DepPC
  <2>2. inst' \in [Infra -> Instance]
    BY <1>0, <1>13, UndeployType DEF Decommission
  <2>3. faults' \in 0..MaxFaults BY <1>0, <1>13, FaultType DEF Decommission
  <2>4. QED BY <1>13, <2>1, <2>2, <2>3 DEF TypeOK, Decommission, history
<1>14. CASE Finish(d)
  <2> DEFINE s == IF dep[d].pc = "ok" THEN "done" ELSE "failed"
  <2>1. s \in DepStatus /\ "over" \in DepPC /\ "fresh" \in Ages
    BY DEF DepStatus, DepPC, Ages
  <2>4. dep' = [dep EXCEPT ![d].pc = "over", ![d].age = "fresh", ![d].status = s]
    BY <1>14 DEF Finish
  <2> HIDE DEF s
  <2>5. [dep[d] EXCEPT !.pc = "over", !.age = "fresh", !.status = s] \in Deployment
    BY <1>d, <2>1, DepEnds
  <2>2. dep' \in [Dep -> Deployment] BY <1>0, <2>4, <2>5
  <2>3. QED BY <1>14, <2>2, TypeGoes DEF Finish
<1>15. QED
  BY <1>1, <1>2, <1>3, <1>4, <1>5, <1>6, <1>7, <1>8, <1>9, <1>10, <1>11,
     <1>12, <1>13, <1>14, <1>16 DEF ThreadStep

\* of the thread of a deletion (the key it puts in the trash is one by Keyed),
LEMMA TypeDelete == ASSUME TypeOK, Keyed, DeleteStep PROVE TypeOK'
<1>0. del \in Delete /\ del.job \in Row /\ NoDelete \in Delete
  BY NoRowType DEF TypeOK, Delete, NoDelete
<1>1. CASE DeleteInstance
  <2>1. del' \in Delete BY <1>0, <1>1 DEF DeleteInstance, Delete
  <2>2. inst \in [Infra -> Instance] /\ faults \in 0..MaxFaults BY DEF TypeOK
  <2>3. inst' \in [Infra -> Instance]
    BY <1>1, <2>2, UndeployType DEF DeleteInstance
  <2>4. faults' \in 0..MaxFaults BY <1>1, <2>2, FaultType DEF DeleteInstance
  <2>5. QED BY <1>1, <2>1, <2>3, <2>4 DEF TypeOK, DeleteInstance, history
<1>2. CASE DeleteToTrash
  <2>1. del' \in Delete BY <1>0, <1>2 DEF DeleteToTrash, Delete
  <2>2. del.job.id \in Dep BY <1>2 DEF Keyed, DeleteToTrash
  <2>3. trash' \subseteq Dep BY <1>2, <2>2 DEF TypeOK, DeleteToTrash
  <2>4. QED BY <1>2, <2>1, <2>3 DEF TypeOK, DeleteToTrash, history
<1>3. CASE DeleteModel
  BY <1>0, <1>3, NoRowType DEF TypeOK, DeleteModel, history
<1>4. QED BY <1>1, <1>2, <1>3 DEF DeleteStep

\* of sync_registry_jobs,
LEMMA TypeSync == ASSUME TypeOK, SyncStart \/ SyncStep PROVE TypeOK'
<1>0. /\ sync \in Sync /\ row \in Row /\ NoSync \in Sync
      /\ sync.found \in 0..Targets /\ sync.health \in Health
      /\ sync.job \in Row /\ sync.seen \in Row /\ sync.next \in 1..Targets
  BY NoRowType, Bounds DEF TypeOK, Sync, NoSync, Health
<1>1. CASE SyncStart
  <2>1. sync' \in Sync
    BY <1>1, NoRowType, Bounds DEF SyncStart, NoSync, Sync
  <2>2. QED BY <1>1, <2>1 DEF TypeOK, SyncStart, history
<1>2. CASE SyncList
  <2> DEFINE i == sync.next
             n == IF i < Targets THEN i + 1 ELSE 1
             p == IF i < Targets THEN "list" ELSE "registry"
             after == [sync EXCEPT !.next = n, !.pc = p]
             listed == [after EXCEPT !.found = i, !.health = inst[i].health]
  <2>1. n \in 1..Targets /\ p \in {"list", "registry"} /\ i \in 0..Targets
        /\ i \in Infra
    BY <1>0, DeploymentAssumption DEF Infra
  <2>2. inst[i].health \in {"none", "running", "error"}
    BY <2>1 DEF TypeOK, Instance
  <2>3. sync' \in {after, listed} BY <1>2 DEF SyncList
  <2> HIDE DEF n, p, i
  <2>4. after \in Sync BY <1>0, <2>1 DEF Sync
  <2>5. listed \in Sync BY <2>1, <2>2, <2>4 DEF Sync
  <2>6. sync' \in Sync BY <2>3, <2>4, <2>5
  <2>7. faults' \in 0..MaxFaults
    BY <1>2, FaultType DEF TypeOK, SyncList
  <2>8. QED BY <1>2, <2>6, <2>7 DEF TypeOK, SyncList, history
<1>3. CASE SyncRegistry
  <2>1. Synced \in Row
    <3>1. sync.health \in RowStatus /\ "lost" \in RowStatus
      BY <1>0 DEF Health, RowStatus
    <3>2. QED BY <1>0, <3>1, RowFacts DEF Synced
  <2>2. [NoSync EXCEPT !.pc = "read", !.job = Synced] \in Sync
    BY <2>1, <1>0 DEF Sync
  <2>3. sync' \in Sync BY <1>0, <1>3, <2>2 DEF SyncRegistry
  <2>4. QED BY <1>3, <2>3 DEF TypeOK, SyncRegistry, history
<1>4. CASE SyncRead
  <2>1. sync' \in Sync BY <1>0, <1>4 DEF SyncRead, Sync
  <2>2. QED BY <1>4, <2>1 DEF TypeOK, SyncRead, history
<1>5. CASE SyncWrite
  <2>1. row' \in Row BY <1>0, <1>5, MergeType DEF SyncWrite
  <2>2. QED BY <1>0, <1>5, <2>1 DEF TypeOK, SyncWrite
<1>6. QED BY <1>1, <1>2, <1>3, <1>4, <1>5 DEF SyncStep

\* and what else may happen: delays, crashes, restarts, lost instances.
LEMMA TypeEvent ==
  ASSUME TypeOK,
         \/ \E d \in Dep : Slow(d)
         \/ Crash \/ StartupCheck
         \/ \E i \in Infra : Lose(i)
  PROVE  TypeOK'
<1>0. /\ dep \in [Dep -> Deployment] /\ inst \in [Infra -> Instance]
      /\ faults \in 0..MaxFaults /\ NoRow \in Row /\ sync \in Sync
      /\ NoDelete \in Delete /\ NoSync \in Sync
  BY NoRowType, Bounds DEF TypeOK, NoDelete, Delete, NoSync, Sync
<1>1. ASSUME NEW d \in Dep, Slow(d) PROVE TypeOK'
  <2>1. \A a \in Ages : [dep[d] EXCEPT !.age = a] \in Deployment
    BY <1>0 DEF Deployment, Ages
  <2>2. dep' \in [Dep -> Deployment] BY <1>0, <1>1, <2>1 DEF Slow, Ages
  <2>3. QED BY <1>1, <2>2, TypeGoes DEF Slow
<1>2. CASE Crash
  <2>1. \A d \in Dep : [dep[d] EXCEPT !.pc = "dead", !.seen = NoRow] \in Deployment
    <3>1. ASSUME NEW e \in Deployment PROVE [e EXCEPT !.pc = "dead", !.seen = NoRow] \in Deployment
      BY NoRowType DEF Deployment, DepPC
    <3>2. QED
      BY <1>0, <3>1
  <2>2. dep' \in [Dep -> Deployment]
    <3>1. PICK gone \in SUBSET {d \in Dep : Working(d)} :
            dep' = [d \in Dep |->
                      IF d \in gone THEN [dep[d] EXCEPT !.pc = "dead",
                                                       !.seen = NoRow]
                                    ELSE dep[d]]
      BY <1>2 DEF Crash
    <3>2. QED BY <1>0, <2>1, <3>1
  <2>3. faults' \in 0..MaxFaults BY <1>0, <1>2, FaultType DEF Crash
  <2>4. del' \in Delete BY <1>0, <1>2 DEF Crash, TypeOK
  <2>5. QED BY <1>2, <2>2, <2>3, <2>4 DEF TypeOK, Crash, history
<1>3. CASE StartupCheck
  <2>1. \A d \in Dep : [dep[d] EXCEPT !.status = "failed", !.age = "fresh"]
                          \in Deployment
    BY <1>0 DEF Deployment
  <2>2. dep' \in [Dep -> Deployment] BY <1>0, <1>3, <2>1 DEF StartupCheck
  <2>3. faults' \in 0..MaxFaults BY <1>0, <1>3, FaultType DEF StartupCheck
  <2>4. QED BY <1>0, <1>3, <2>2, <2>3 DEF TypeOK, StartupCheck, history
<1>4. ASSUME NEW i \in Infra, Lose(i) PROVE TypeOK'
  <2>1. [inst[i] EXCEPT !.health = "error"] \in Instance
    BY <1>0 DEF Instance
  <2>2. inst' \in [Infra -> Instance]
    BY <1>0, <1>4, <2>1, UndeployType DEF Lose
  <2>3. faults' \in 0..MaxFaults BY <1>0, <1>4, FaultType DEF Lose
  <2>4. QED BY <1>4, <2>2, <2>3 DEF TypeOK, Lose, history
<1>5. QED BY <1>1, <1>2, <1>3, <1>4

-----------------------------------------------------------------------------
\* What a step of the thread of d does to the records of threads.
Moved(d, p) ==
    /\ \A e \in Dep : e # d => dep'[e] = dep[e]
    /\ dep'[d].pc = p

\* What a step of one thread does to the deployments.
LEMMA MovedBy ==
  ASSUME dep \in [Dep -> Deployment], NEW d \in Dep, NEW p
  PROVE  /\ Goes(d, p) => Moved(d, p) /\ dep'[d].status = dep[d].status
         /\ GoesOn(d, p) => Moved(d, p) /\ dep'[d].status = dep[d].status
         /\ Fails(d) => Moved(d, "fail") /\ dep'[d].status = dep[d].status
  BY DEF Goes, GoesOn, Fails, Moved, Deployment

\* Which pc a step may lead to, and which step ends with status "done".
LEMMA ThreadMoves ==
  ASSUME TypeOK, NEW d \in Dep, ThreadStep(d)
  PROVE  /\ \E p \in DepPC : Moved(d, p)
         /\ dep'[d].pc = "run" => RunRead(d)
         /\ dep'[d].pc \in {"ready", "post", "reread", "run", "decommission", "ok"} =>
              \/ dep[d].pc \in {"ready", "post", "reread", "run", "decommission"}
              \/ d \in verified'
         /\ dep'[d].pc \in {"post", "reread", "run", "decommission", "ok"} =>
              \/ dep[d].pc \in {"post", "reread", "run", "decommission"}
              \/ CheckReady(d) /\ inst[dep[d].target].gen # 0
         /\ dep'[d].status = "done" =>
              dep[d].status = "done" \/ dep[d].pc = "ok"
<1>0. dep \in [Dep -> Deployment] /\ dep[d] \in Deployment BY DEF TypeOK
<1> USE <1>0, MovedBy
<1>1. CASE Insert(d)
  BY <1>1, DepFields DEF Insert, Moved, Deployment, DepPC, AnyKind
<1>2. CASE Start(d) BY <1>2 DEF Start, Moved, DepPC
<1>3. CASE Build(d) BY <1>3 DEF Build, Moved, DepPC
<1>4. CASE Provision(d) BY <1>4 DEF Provision, Moved, DepPC
<1>5. CASE SaveRead(d) BY <1>5 DEF SaveRead, Moved, DepPC, Deployment
<1>6. CASE Save(d) BY <1>6 DEF Save, Moved, DepPC, Deployment
<1>7. CASE CheckAlive(d) BY <1>7 DEF CheckAlive, CheckFailed, Moved, DepPC
<1>16. CASE CheckReady(d) BY <1>16 DEF CheckReady, CheckFailed, Moved, DepPC
<1>8. CASE Rollback(d) BY <1>8 DEF Rollback, Moved, DepPC
<1>9. CASE Unsave(d) BY <1>9 DEF Unsave, Moved, DepPC
<1>10. CASE Post(d) BY <1>10 DEF Post, Moved, DepPC
<1>11. CASE RunRead(d) BY <1>11 DEF RunRead, Moved, DepPC, Deployment
<1>12. CASE Run(d) BY <1>12 DEF Run, Moved, DepPC, Deployment
<1>13. CASE Decommission(d) BY <1>13 DEF Decommission, Moved, DepPC
<1>14. CASE Finish(d) BY <1>14 DEF Finish, Moved, DepPC, Deployment
<1>15. QED
  BY <1>1, <1>2, <1>3, <1>4, <1>5, <1>6, <1>7, <1>8, <1>9, <1>10, <1>11,
     <1>12, <1>13, <1>14, <1>16 DEF ThreadStep

\* What the steps other than a thread's do to the records of threads.
LEMMA OthersMove ==
  ASSUME TypeOK, Next, ~ \E d \in Dep : ThreadStep(d)
  PROVE  \A e \in Dep :
           /\ dep'[e].pc = dep[e].pc \/ dep'[e].pc \in {"insert", "dead"}
           /\ dep'[e].pc = "run" => dep'[e].seen = dep[e].seen
           /\ dep'[e].status = "done" => dep[e].status = "done"
<1>0. dep \in [Dep -> Deployment] BY DEF TypeOK
<1> USE <1>0
<1>1. CASE Request
  <2>1. ASSUME NEW u, u.pc = "insert", u.status = "none", Requested(u)
        PROVE  \A e \in Dep :
           /\ dep'[e].pc = dep[e].pc \/ dep'[e].pc \in {"insert", "dead"}
           /\ dep'[e].pc = "run" => dep'[e].seen = dep[e].seen
           /\ dep'[e].status = "done" => dep[e].status = "done"
    BY <2>1 DEF Requested
  <2>2. ASSUME NEW i \in Infra, NEW kind, RequestDeploy(kind, i)
        PROVE  \E u : u.pc = "insert" /\ u.status = "none" /\ Requested(u)
    BY <2>2 DEF RequestDeploy, Unused
  <2>3. ASSUME NEW i \in Infra, NEW kind, RequestAgain(kind, i)
        PROVE  \E u : u.pc = "insert" /\ u.status = "none" /\ Requested(u)
    BY <2>3 DEF RequestAgain, Unused
  <2>4. CASE RequestDelete \/ EditManifest
    BY <2>4 DEF RequestDelete, EditManifest
  <2>5. QED BY <1>1, <2>1, <2>2, <2>3, <2>4 DEF Request, Reconcile
<1>2. ASSUME NEW d \in Dep, Slow(d)
      PROVE  \A e \in Dep : /\ dep'[e].pc = dep[e].pc
                            /\ dep'[e].seen = dep[e].seen
                            /\ dep'[e].status = dep[e].status
  BY <1>2 DEF Slow, Deployment
<1>3. CASE DeleteStep \/ SyncStart \/ SyncStep \/ \E i \in Infra : Lose(i)
  BY <1>3 DEF DeleteStep, DeleteInstance, DeleteToTrash, DeleteModel,
              SyncStart, SyncStep, SyncList, SyncRegistry, SyncRead, SyncWrite,
              Lose
<1>4. CASE Crash
  <2>1. PICK gone \in SUBSET {d \in Dep : Working(d)} :
          dep' = [d \in Dep |->
                    IF d \in gone THEN [dep[d] EXCEPT !.pc = "dead",
                                                     !.seen = NoRow]
                                  ELSE dep[d]]
    BY <1>4 DEF Crash
  <2>2. \A e \in Dep : \/ dep'[e] = dep[e]
                        \/ dep'[e] = [dep[e] EXCEPT !.pc = "dead", !.seen = NoRow]
    BY <2>1
  <2>3. \A e \in Dep :
          LET u == [dep[e] EXCEPT !.pc = "dead", !.seen = NoRow]
          IN  u.pc = "dead" /\ u.status = dep[e].status
    BY DEF Deployment
  <2>4. QED BY <2>2, <2>3
<1>5. CASE StartupCheck BY <1>5 DEF StartupCheck, Deployment
<1>6. QED BY <1>1, <1>2, <1>3, <1>4, <1>5 DEF Next

\* A key is either zero or a deployment.
LEMMA InDep == ASSUME NEW n \in 0..MaxDeps PROVE n \in Dep <=> n # 0
  BY DeploymentAssumption DEF Dep

\* Every step keeps the keys: whoever writes a row has compared keys before.
LEMMA KeyedNext == ASSUME TypeOK, Keyed, [Next]_vars PROVE Keyed'
<1>0. /\ dep \in [Dep -> Deployment] /\ row \in Row /\ row.id \in 0..MaxDeps
      /\ sync \in Sync /\ del \in Delete
  BY RowFields DEF TypeOK
<1>k. \A v, w : Merge(v, w).id = row.id BY DEF Merge
<1>1. row'.status # "none" => row'.id \in Dep
  <2>1. CASE row' = row BY <2>1 DEF Keyed
  <2>2. CASE row' = NoRow BY <2>2 DEF NoRow
  <2>3. ASSUME NEW d \in Dep, Save(d) PROVE row'.id \in Dep \/ row' = row
    BY <1>0, <1>k, <2>3, InDep DEF Save, Described
  <2>4. ASSUME NEW d \in Dep, Run(d) PROVE row'.id \in Dep \/ row' = row
    BY <1>k, <2>4 DEF Run, Keyed
  <2>5. CASE SyncWrite BY <1>k, <2>1, <2>5 DEF SyncWrite, Keyed
  <2>6. CASE EditManifest BY <1>0, <2>6 DEF EditManifest, Keyed, Row
  <2>7. ASSUME NEW d \in Dep, ThreadStep(d), row' # row, row' # NoRow
        PROVE  Save(d) \/ Run(d)
    BY <2>7 DEF ThreadStep, Insert, Start, Build, Provision, SaveRead, CheckAlive, CheckReady,
                Rollback, Unsave, Post, RunRead, Decommission, Finish
  <2>8. ASSUME Next, ~ \E d \in Dep : ThreadStep(d), row' # row, row' # NoRow
        PROVE  SyncWrite \/ EditManifest
    BY <2>8 DEF Next, Request, RequestDeploy, RequestAgain, Reconcile,
                Requested, RequestDelete, DeleteStep, DeleteInstance,
                DeleteToTrash, DeleteModel, SyncStart, SyncStep, SyncList,
                SyncRegistry, SyncRead, Slow, Crash, StartupCheck, Lose
  <2>9. QED
    BY <2>1, <2>2, <2>3, <2>4, <2>5, <2>6, <2>7, <2>8 DEF vars
<1>2. del'.pc # "idle" => del'.job.id \in Dep
  <2>1. CASE del' = del BY <2>1 DEF Keyed
  <2>2. CASE del' = NoDelete BY <2>2 DEF NoDelete
  <2>3. CASE RequestDelete BY <2>3 DEF RequestDelete, Keyed
  <2>4. CASE DeleteInstance
    BY <1>0, <2>2, <2>4 DEF DeleteInstance, Keyed, Delete
  <2>5. CASE DeleteToTrash BY <1>0, <2>5 DEF DeleteToTrash, Keyed, Delete
  <2>6. ASSUME NEW d \in Dep, ThreadStep(d) PROVE del' = del
    BY <2>6 DEF ThreadStep, Insert, Start, Build, Provision, SaveRead, Save,
                CheckAlive, CheckReady, Rollback, Unsave, Post, RunRead, Run, Decommission, Finish
  <2>7. ASSUME Next, ~ \E d \in Dep : ThreadStep(d), del' # del, del' # NoDelete
        PROVE  RequestDelete \/ DeleteInstance \/ DeleteToTrash
    BY <2>7 DEF Next, Request, RequestDeploy, RequestAgain, Reconcile,
                Requested, EditManifest, DeleteStep, DeleteModel, SyncStart,
                SyncStep, SyncList, SyncRegistry, SyncRead, SyncWrite, Slow,
                Crash, StartupCheck, Lose
  <2>8. QED BY <2>1, <2>2, <2>3, <2>4, <2>5, <2>6, <2>7 DEF vars
<1>3. \A e \in Dep : dep'[e].pc = "run" => dep'[e].seen.id \in Dep
  <2>1. ASSUME NEW d \in Dep, ThreadStep(d), NEW e \in Dep, dep'[e].pc = "run"
        PROVE  dep'[e].seen.id \in Dep
    <3>1. CASE e # d BY <2>1, <3>1, ThreadMoves DEF Moved, Keyed
    <3>2. CASE e = d
      <4>1. RunRead(d) BY <2>1, <3>2, ThreadMoves
      <4>2. row.status # "none" /\ dep'[d].seen = row
        BY <1>0, <2>1, <3>2, <4>1 DEF RunRead, Fails, Deployment
      <4>3. QED BY <3>2, <4>2 DEF Keyed
    <3>3. QED BY <3>1, <3>2
  <2>2. ASSUME Next, ~ \E d \in Dep : ThreadStep(d), NEW e \in Dep,
               dep'[e].pc = "run"
        PROVE  dep'[e].seen.id \in Dep
    BY <2>2, OthersMove DEF Keyed
  <2>3. CASE UNCHANGED vars BY <2>3 DEF vars, Keyed
  <2>4. QED BY <2>1, <2>2, <2>3
<1>4. sync'.pc = "write" => sync'.seen.id \in Dep
  <2>1. CASE sync' = sync BY <2>1 DEF Keyed
  <2>2. CASE sync' = NoSync BY <2>2 DEF NoSync
  <2>3. CASE SyncRead BY <1>0, <2>2, <2>3 DEF SyncRead, Keyed, Sync
  <2>4. CASE SyncStart \/ SyncList \/ SyncRegistry
    <3>1. SyncStart => sync'.pc = "list" BY DEF SyncStart, NoSync
    <3>2. SyncList => sync'.pc \in {"list", "registry"}
      BY <1>0 DEF SyncList, Sync
    <3>3. SyncRegistry => sync'.pc \in {"read", "idle"}
      <4>1. NoSync.pc = "idle" BY DEF NoSync
      <4>2. \A w : [NoSync EXCEPT !.pc = "read", !.job = w].pc = "read"
        BY DEF NoSync
      <4>3. QED BY <4>1, <4>2 DEF SyncRegistry
    <3>4. QED BY <2>4, <3>1, <3>2, <3>3
  <2>5. ASSUME NEW d \in Dep, ThreadStep(d) PROVE sync' = sync
    BY <2>5 DEF ThreadStep, Insert, Start, Build, Provision, SaveRead, Save,
                CheckAlive, CheckReady, Rollback, Unsave, Post, RunRead, Run, Decommission, Finish
  <2>6. ASSUME Next, ~ \E d \in Dep : ThreadStep(d), sync' # sync, sync' # NoSync
        PROVE  SyncStart \/ SyncList \/ SyncRegistry \/ SyncRead
    BY <2>6 DEF Next, Request, RequestDeploy, RequestAgain, Reconcile,
                Requested, RequestDelete, EditManifest, DeleteStep,
                DeleteInstance, DeleteToTrash, DeleteModel, SyncStep, SyncWrite,
                Slow, Crash, StartupCheck, Lose
  <2>7. QED BY <2>1, <2>2, <2>3, <2>4, <2>5, <2>6 DEF vars
<1>5. QED BY <1>1, <1>2, <1>3, <1>4 DEF Keyed

-----------------------------------------------------------------------------
\* Every step keeps the types.
LEMMA TypeNext == ASSUME TypeOK, Keyed, [Next]_vars PROVE TypeOK'
<1>1. CASE Next
  BY <1>1, TypeRequest, TypeThread, TypeDelete, TypeSync, TypeEvent DEF Next
<1>2. CASE UNCHANGED vars BY <1>2 DEF vars, TypeOK
<1>3. QED BY <1>1, <1>2

\* The initial state has no rows and no writers.
LEMMA KeyedInit == Init => Keyed
  BY DEF Init, Keyed, NoRow, NoDelete, NoSync, Unused

\* The row of the job, the trash, the infrastructures, the deployment records
\* and all threads keep their shape in every reachable state.
THEOREM TypeCorrect == Spec => []TypeOK
<1>1. Init => TypeOK /\ Keyed BY TypeInit, KeyedInit
<1>2. TypeOK /\ Keyed /\ [Next]_vars => (TypeOK /\ Keyed)'
  BY TypeNext, KeyedNext
<1>3. QED BY <1>1, <1>2, PTL DEF Spec

\* What update_job writes belongs to a row that exists: neither the Supervisor
\* nor a late deployment brings back a job that was deleted in between, and a
\* deletion moves an existing job to the trash.
THEOREM RowsAreKeyed == Spec => []Keyed
<1>1. Init => TypeOK /\ Keyed BY TypeInit, KeyedInit
<1>2. TypeOK /\ Keyed /\ [Next]_vars => (TypeOK /\ Keyed)'
  BY TypeNext, KeyedNext
<1>3. QED BY <1>1, <1>2, PTL DEF Spec

-----------------------------------------------------------------------------
\* The first part of DoneWasVerified is inductive once it speaks of every step
\* after the answer of /live, not only of the stored result.
VerifiedInv ==
    \A d \in Dep :
      \/ dep[d].pc \in {"ready", "post", "reread", "run", "decommission", "ok"}
      \/ dep[d].status = "done"
      => d \in verified

\* What was verified stays verified.
LEMMA VerifiedGrows ==
  ASSUME [Next]_vars
  PROVE  verified \subseteq verified' /\ ready \subseteq ready'
<1>1. ASSUME NEW d \in Dep, ThreadStep(d)
      PROVE  verified \subseteq verified' /\ ready \subseteq ready'
  BY <1>1 DEF ThreadStep, Insert, Start, Build, Provision, SaveRead, Save, CheckAlive, CheckReady,
              Rollback, Unsave, Post, RunRead, Run, Decommission, Finish, history
<1>2. ASSUME Next, ~ \E d \in Dep : ThreadStep(d)
      PROVE  verified' = verified /\ ready' = ready
  BY <1>2 DEF Next, Request, RequestDeploy, RequestAgain, Reconcile, Requested,
              RequestDelete, EditManifest, DeleteStep, DeleteInstance,
              DeleteToTrash, DeleteModel, SyncStart, SyncStep, SyncList,
              SyncRegistry, SyncRead, SyncWrite, Slow, Crash, StartupCheck,
              Lose, history
<1>3. QED BY <1>1, <1>2 DEF vars

\* A thread gets past the check only by passing it.
LEMMA VerifiedNext ==
  ASSUME TypeOK, VerifiedInv, [Next]_vars PROVE VerifiedInv'
<1>1. ASSUME NEW d \in Dep, ThreadStep(d) PROVE VerifiedInv'
  <2>1. \A e \in Dep : e # d => dep'[e] = dep[e]
    BY <1>1, ThreadMoves DEF Moved
  <2>2. \/ dep'[d].pc \in {"ready", "post", "reread", "run", "decommission", "ok"}
        \/ dep'[d].status = "done"
        => d \in verified'
    BY <1>1, ThreadMoves, VerifiedGrows DEF VerifiedInv
  <2>3. QED BY <2>1, <2>2, VerifiedGrows DEF VerifiedInv
<1>2. ASSUME Next, ~ \E d \in Dep : ThreadStep(d) PROVE VerifiedInv'
  BY <1>2, OthersMove, VerifiedGrows DEF VerifiedInv
<1>3. CASE UNCHANGED vars BY <1>3 DEF vars, VerifiedInv
<1>4. QED BY <1>1, <1>2, <1>3

-----------------------------------------------------------------------------
(* What the steps change *)

\* A step of the thread of d, apart from row and instances.
Kept(d, p) ==
    /\ Moved(d, p)
    /\ dep'[d].kind = dep[d].kind /\ dep'[d].target = dep[d].target
    /\ dep'[d].from = dep[d].from

\* The three ways in which a thread goes on.
LEMMA KeptBy ==
  ASSUME dep \in [Dep -> Deployment], NEW d \in Dep, NEW p
  PROVE  /\ Goes(d, p) => Kept(d, p) /\ dep'[d].status = dep[d].status
         /\ GoesOn(d, p) => Kept(d, p) /\ dep'[d].status = dep[d].status
         /\ Fails(d) => Kept(d, "fail") /\ dep'[d].status = dep[d].status
  BY DEF Goes, GoesOn, Fails, Kept, Moved, Deployment

\* A thread that works changes its own record, and neither the trash nor what
\* the other threads work on.
LEMMA ThreadKeeps ==
  ASSUME TypeOK, NEW d \in Dep, ThreadStep(d)
  PROVE  /\ \E p \in DepPC \ {"unused", "insert", "dead"} : Kept(d, p)
         /\ Working(d)
         /\ UNCHANGED <<trash, ndep, del, sync, overlap, misled>>
         /\ UNCHANGED faults \/ Fault
         /\ dep[d].pc = "insert" => dep'[d].status = "in_progress"
         /\ dep[d].status # "none" => dep'[d].status # "none"
         /\ dep'[d].status = "failed" => dep[d].status = "failed" \/ dep'[d].pc = "over"
         /\ dep[d].kind = "build" /\ dep[d].pc = "insert" => dep'[d].pc = "over"
         /\ dep[d].kind = "deploy" /\ dep'[d].pc \in {"build", "provision", "read", "save"}
              => \/ dep[d].pc = "start" /\ ~Protected(d)
                 \/ dep[d].pc \in {"build", "provision", "read"}
<1>0. dep \in [Dep -> Deployment] /\ dep[d] \in Deployment BY DEF TypeOK
<1> USE <1>0, KeptBy
<1>1. CASE Insert(d)
  <2> DEFINE p == CASE dep[d].kind = "build" -> "over"
                    [] dep[d].kind = "redeploy" -> "build"
                    [] dep[d].kind \in {"reprovision", "move"} -> "provision"
                    [] OTHER -> "start"
  <2>1. dep' = [dep EXCEPT ![d].status = "in_progress", ![d].age = "fresh",
                           ![d].pc = p]
    BY <1>1 DEF Insert
  <2>2. dep[d].pc = "insert" /\ p \in {"over", "build", "provision", "start"}
    BY <1>1 DEF Insert
  <2>3. /\ dep[d].kind = "build" => p = "over"
        /\ dep[d].kind = "deploy" => p = "start"
    OBVIOUS
  <2> HIDE DEF p
  <2>4. Kept(d, p) /\ dep'[d].status = "in_progress" /\ dep'[d].pc = p
    BY <2>1 DEF Kept, Moved, Deployment
  <2>5. QED BY <1>1, <2>2, <2>3, <2>4 DEF Insert, Working, DepPC, history
<1>2. CASE Start(d) BY <1>2 DEF Start, Kept, Moved, Working, DepPC, history
<1>3. CASE Build(d) BY <1>3 DEF Build, Kept, Moved, Working, DepPC, history
<1>4. CASE Provision(d) BY <1>4 DEF Provision, Kept, Moved, Working, DepPC, history
<1>5. CASE SaveRead(d)
  BY <1>5 DEF SaveRead, Kept, Moved, Working, DepPC, Deployment, history
<1>6. CASE Save(d)
  <2>1. Kept(d, "check") \/ Kept(d, "fail")
    <3>1. CASE dep[d].seen.id = row.id
      BY <1>6, <3>1 DEF Save, Kept, Moved, Deployment
    <3>2. QED BY <1>6, <3>1 DEF Save
  <2>2. dep'[d].status = dep[d].status
    <3>1. CASE dep[d].seen.id = row.id BY <1>6, <3>1 DEF Save, Deployment
    <3>2. QED BY <1>6, <3>1 DEF Save
  <2>3. QED BY <1>6, <2>1, <2>2 DEF Save, Kept, Moved, Working, DepPC, history
<1>7. CASE CheckAlive(d)
  BY <1>7 DEF CheckAlive, CheckFailed, Kept, Moved, Working, DepPC
<1>16. CASE CheckReady(d)
  BY <1>16 DEF CheckReady, CheckFailed, Kept, Moved, Working, DepPC
<1>8. CASE Rollback(d) BY <1>8 DEF Rollback, Kept, Moved, Working, DepPC, history
<1>9. CASE Unsave(d) BY <1>9 DEF Unsave, Kept, Moved, Working, DepPC, history
<1>10. CASE Post(d) BY <1>10 DEF Post, Kept, Moved, Working, DepPC, history
<1>11. CASE RunRead(d)
  <2>1. /\ Kept(d, "run") \/ Kept(d, "fail")
        /\ dep'[d].status = dep[d].status
    <3>1. CASE row.status # "none"
      BY <1>11, <3>1 DEF RunRead, Kept, Moved, Deployment
    <3>2. QED BY <1>11, <3>1 DEF RunRead
  <2>2. QED BY <1>11, <2>1 DEF RunRead, Kept, Moved, Working, DepPC, history
<1>12. CASE Run(d)
  <2>1. /\ Kept(d, "decommission") \/ Kept(d, "ok") \/ Kept(d, "fail")
        /\ dep'[d].status = dep[d].status
    <3>1. CASE dep[d].seen.id = row.id
      BY <1>12, <3>1 DEF Run, Kept, Moved, Deployment
    <3>2. QED BY <1>12, <3>1 DEF Run
  <2>2. QED BY <1>12, <2>1 DEF Run, Kept, Moved, Working, DepPC, history
<1>13. CASE Decommission(d)
  BY <1>13 DEF Decommission, Kept, Moved, Working, DepPC, history
<1>14. CASE Finish(d)
  BY <1>14 DEF Finish, Kept, Moved, Working, DepPC, Deployment, history
<1>15. QED
  BY <1>1, <1>2, <1>3, <1>4, <1>5, <1>6, <1>7, <1>8, <1>9, <1>10, <1>11,
     <1>12, <1>13, <1>14, <1>16 DEF ThreadStep

\* A new deployment, as the requests describe it.
New(u) ==
    /\ u \in Deployment /\ u.pc = "insert" /\ u.status = "none" /\ u.target \in Infra
    /\ \/ u.kind \in {"deploy", "force", "build"}
       \/ /\ u.kind \in {"redeploy", "reprovision", "move"}
          /\ row.status # "none" /\ u.from = row.infra
          /\ IF u.kind = "move" THEN u.target # row.infra ELSE u.target = row.infra

\* The requests of deployments.
LEMMA RequestStarts ==
  ASSUME TypeOK, NEW i \in Infra, NEW kind \in AnyKind,
         RequestDeploy(kind, i) \/ RequestAgain(kind, i)
  PROVE  \E u : New(u) /\ Requested(u)
<1>0. /\ NoRow \in Row /\ i \in 0..Targets /\ "fresh" \in Ages
      /\ row.infra \in 0..Targets /\ row.man \in {"a", "b"}
  BY NoRowType, RowFields, DeploymentAssumption DEF TypeOK, Infra, Ages, Manifests
<1>1. CASE RequestDeploy(kind, i)
  <2> DEFINE u == [Unused EXCEPT !.pc = "insert", !.kind = kind, !.target = i]
  <2>1. u \in Deployment BY <1>0, Bounds DEF Unused, Deployment, DepPC, AnyKind
  <2>2. u.pc = "insert" /\ u.status = "none" /\ u.target = i /\ u.kind = kind
    BY DEF Unused
  <2>3. Requested(u) /\ kind \in {"deploy", "force", "build"}
    BY <1>1 DEF RequestDeploy
  <2> HIDE DEF u
  <2>4. QED BY <2>1, <2>2, <2>3 DEF New
<1>2. CASE RequestAgain(kind, i)
  <2> DEFINE u == [Unused EXCEPT !.pc = "insert", !.kind = kind, !.target = i,
                                 !.from = row.infra, !.man = row.man]
  <2>1. u \in Deployment BY <1>0 DEF Unused, Deployment, DepPC, AnyKind
  <2>2. /\ u.pc = "insert" /\ u.status = "none" /\ u.target = i /\ u.kind = kind
        /\ u.from = row.infra
    BY DEF Unused
  <2>3. /\ Requested(u) /\ kind \in {"redeploy", "reprovision", "move"}
        /\ row.status # "none"
        /\ IF kind = "move" THEN i # row.infra ELSE i = row.infra
    BY <1>2 DEF RequestAgain
  <2> HIDE DEF u
  <2>4. QED BY <2>1, <2>2, <2>3 DEF New
<1>3. QED BY <1>1, <1>2

\* The steps that are neither a thread's nor a request's.
Aside ==
    \/ RequestDelete \/ DeleteStep \/ EditManifest
    \/ \E d \in Dep : Slow(d)
    \/ SyncStart \/ SyncStep
    \/ Crash \/ StartupCheck
    \/ \E i \in Infra : Lose(i)

\* A step is a thread's, a request or one of those.
LEMMA OtherSteps ==
  ASSUME TypeOK, Next, ~ \E d \in Dep : ThreadStep(d)
  PROVE  Aside \/ \E u : New(u) /\ Requested(u)
<1>1. ASSUME NEW i \in Infra, NEW kind \in Kind,
             RequestDeploy(kind, i) \/ RequestAgain(kind, i)
      PROVE  \E u : New(u) /\ Requested(u)
  BY <1>1, RequestStarts, DeploymentAssumption
<1>2. Reconcile => \E u : New(u) /\ Requested(u)
  BY RequestStarts DEF Reconcile, AnyKind
<1>3. QED BY <1>1, <1>2 DEF Next, Request, Aside

\* They only end threads, or halt deployments that nobody works on.
LEMMA AsideKeeps ==
  ASSUME TypeOK, Aside
  PROVE  /\ ndep' = ndep
         /\ UNCHANGED faults \/ Fault
         /\ \A e \in Dep :
              /\ dep'[e].kind = dep[e].kind /\ dep'[e].target = dep[e].target
              /\ dep'[e].from = dep[e].from
              /\ dep'[e].pc = "save" => dep'[e].seen = dep[e].seen
              /\ dep'[e].pc = dep[e].pc \/ (Working(e) /\ dep'[e].pc = "dead")
              /\ \/ dep'[e].status = dep[e].status
                 \/ dep[e].status = "in_progress" /\ dep'[e].status = "failed" /\ Fault
<1>0. dep \in [Dep -> Deployment] BY DEF TypeOK
<1>1. CASE RequestDelete \/ EditManifest \/ DeleteStep \/ SyncStart \/ SyncStep
           \/ \E i \in Infra : Lose(i)
  BY <1>1 DEF RequestDelete, EditManifest, DeleteStep, DeleteInstance, DeleteToTrash,
     DeleteModel, SyncStart, SyncStep, SyncList, SyncRegistry, SyncRead, SyncWrite,
     Lose
<1>2. ASSUME NEW d \in Dep, Slow(d)
      PROVE  /\ UNCHANGED <<ndep, faults>>
             /\ \A e \in Dep :
                  /\ dep'[e].kind = dep[e].kind /\ dep'[e].target = dep[e].target
                  /\ dep'[e].from = dep[e].from /\ dep'[e].seen = dep[e].seen
                  /\ dep'[e].pc = dep[e].pc /\ dep'[e].status = dep[e].status
  BY <1>0, <1>2 DEF Slow, Deployment
<1>3. CASE Crash
  <2>1. PICK gone \in SUBSET {d \in Dep : Working(d)} :
          dep' = [d \in Dep |->
                    IF d \in gone THEN [dep[d] EXCEPT !.pc = "dead", !.seen = NoRow]
                                  ELSE dep[d]]
    BY <1>3 DEF Crash
  <2>2. \A e \in Dep : \/ dep'[e] = dep[e]
                        \/ /\ Working(e)
                           /\ dep'[e] = [dep[e] EXCEPT !.pc = "dead", !.seen = NoRow]
    BY <2>1
  <2>3. \A e \in Dep :
          LET u == [dep[e] EXCEPT !.pc = "dead", !.seen = NoRow]
          IN  /\ u.pc = "dead" /\ u.status = dep[e].status /\ u.kind = dep[e].kind
              /\ u.target = dep[e].target /\ u.from = dep[e].from
    BY <1>0 DEF Deployment
  <2>4. ndep' = ndep /\ Fault BY <1>3 DEF Crash
  <2>5. QED BY <2>2, <2>3, <2>4
<1>4. CASE StartupCheck BY <1>0, <1>4 DEF StartupCheck, Deployment
<1>5. QED BY <1>1, <1>2, <1>3, <1>4 DEF Aside

-----------------------------------------------------------------------------
(* The rows, the threads and the Supervisor, whatever overlaps or fails *)

\* Deployments are numbered in turn, and know where to run.
DepsOK ==
    \A d \in Dep :
      /\ dep[d].pc # "unused" <=> d <= ndep
      /\ dep[d].pc = "unused" => dep[d].kind = "deploy"
      /\ dep[d].pc # "unused" => dep[d].target \in Infra
      /\ dep[d].kind = "move" => dep[d].target # dep[d].from
      /\ dep[d].pc \in {"unused", "insert"} => dep[d].status = "none"
      /\ dep[d].pc \notin {"unused", "insert", "dead"} => dep[d].status # "none"
      /\ dep[d].kind = "build" => dep[d].pc \in {"insert", "over", "dead"}

\* A deployment without a fault is reported as failed only at its end.
FailedAtEnd ==
    faults = 0 => \A d \in Dep : dep[d].status = "failed" => dep[d].pc = "over"

\* A row is there with all its columns, or not at all.
RowOK ==
    /\ row.status = "none" => row = NoRow
    /\ row.status # "none" =>
         /\ row.infra \in Infra /\ row.gen \in Dep /\ row.gen <= ndep
         /\ row.id \in Dep /\ dep[row.id].status # "none"

\* What sync_registry_jobs is about to write is a job it found, or a lost one.
SyncOK ==
    /\ \A i \in Infra : inst[i].gen # 0 => inst[i].health # "none"
    /\ sync.found # 0 => sync.health # "none"
    /\ sync.pc \in {"read", "write"} =>
         /\ sync.job.status # "none"
         /\ sync.job.infra \in Infra
         /\ sync.job.gen \in Dep /\ sync.job.gen <= ndep

\* Whoever works next to another one is on record as overlapping.
OverlapOK ==
    \A d \in Dep : Working(d) =>
      /\ \A e \in Dep \ {d} : Working(e) => d \in overlap
      /\ del.pc # "idle" => d \in overlap

\* A deployment that is not forced has found no job and no trashed one, and as
\* long as it is alone there is none.
ClaimOK ==
    \A d \in Dep :
      dep[d].kind = "deploy" /\ dep[d].pc \in {"build", "provision", "read", "save"}
        => (row.status = "none" /\ trash = {}) \/ d \in overlap

ThreadsInv == DepsOK /\ FailedAtEnd /\ RowOK /\ SyncOK /\ OverlapOK /\ ClaimOK

\* A new deployment gets the next number.
LEMMA RequestKeeps ==
  ASSUME TypeOK, DepsOK, NEW u, New(u), Requested(u)
  PROVE  /\ ndep + 1 \in Dep /\ ndep' = ndep + 1 /\ dep'[ndep + 1] = u
         /\ \A e \in Dep : e # ndep + 1 => dep'[e] = dep[e]
         /\ dep[ndep + 1].pc = "unused" /\ dep[ndep + 1].status = "none"
         /\ UNCHANGED <<row, trash, inst, del, sync, misled, faults>>
<1>1. ndep \in 0..MaxDeps /\ dep \in [Dep -> Deployment] /\ ndep < MaxDeps
  BY DEF TypeOK, Requested
<1>2. ndep + 1 \in Dep /\ ~(ndep + 1 <= ndep)
  BY <1>1, DeploymentAssumption DEF Dep
<1>3. dep[ndep + 1].pc = "unused" /\ dep[ndep + 1].status = "none"
  BY <1>2 DEF DepsOK
<1>4. QED BY <1>1, <1>2, <1>3 DEF Requested

\* Deployments keep their numbers, whoever takes a step.
LEMMA DepsNext ==
  ASSUME TypeOK, DepsOK, FailedAtEnd, Next
  PROVE  DepsOK' /\ FailedAtEnd' /\ ndep <= ndep' /\ ndep' \in Nat
<1>0. dep \in [Dep -> Deployment] /\ ndep \in Nat /\ faults \in Nat
  BY DeploymentAssumption DEF TypeOK
<1>1. ASSUME NEW d \in Dep, ThreadStep(d)
      PROVE  DepsOK' /\ FailedAtEnd' /\ ndep' = ndep
  <2>1. PICK p \in DepPC \ {"unused", "insert", "dead"} : Kept(d, p)
    BY <1>1, ThreadKeeps
  <2>2. /\ ndep' = ndep /\ Working(d)
        /\ UNCHANGED faults \/ Fault
        /\ dep[d].pc = "insert" => dep'[d].status = "in_progress"
        /\ dep[d].status # "none" => dep'[d].status # "none"
        /\ dep'[d].status = "failed" => dep[d].status = "failed" \/ dep'[d].pc = "over"
        /\ dep[d].kind = "build" /\ dep[d].pc = "insert" => dep'[d].pc = "over"
    BY <1>1, ThreadKeeps
  <2>3. /\ dep[d].pc # "unused" /\ d <= ndep /\ dep[d].target \in Infra
        /\ dep[d].pc \notin {"over", "dead"}
    BY <2>2 DEF Working, DepsOK
  <2>4. dep'[d].pc \notin {"unused", "insert", "dead"}
    BY <2>1 DEF Kept, Moved
  <2>5. dep'[d].status # "none" BY <2>2, <2>3 DEF DepsOK
  <2>6. DepsOK'
    <3> SUFFICES ASSUME NEW e \in Dep
                 PROVE  /\ dep'[e].pc # "unused" <=> e <= ndep
                        /\ dep'[e].pc = "unused" => dep'[e].kind = "deploy"
                        /\ dep'[e].pc # "unused" => dep'[e].target \in Infra
                        /\ dep'[e].kind = "move" => dep'[e].target # dep'[e].from
                        /\ dep'[e].pc \in {"unused", "insert"} => dep'[e].status = "none"
                        /\ dep'[e].pc \notin {"unused", "insert", "dead"}
                             => dep'[e].status # "none"
                        /\ dep'[e].kind = "build" => dep'[e].pc \in {"insert", "over", "dead"}
      BY <2>2 DEF DepsOK, Infra, Dep
    <3>1. CASE e = d BY <2>1, <2>2, <2>3, <2>4, <2>5, <3>1 DEF Kept, DepsOK
    <3>2. CASE e # d BY <2>1, <3>2 DEF Kept, Moved, DepsOK
    <3>3. QED BY <3>1, <3>2
  <2>7. FailedAtEnd'
    <3>1. faults' = 0 => faults = 0 BY <1>0, <2>2 DEF Fault
    <3>2. \A e \in Dep : faults = 0 /\ dep'[e].status = "failed" => dep'[e].pc = "over"
      <4> TAKE e \in Dep
      <4>1. CASE e = d BY <2>2, <2>3, <4>1 DEF FailedAtEnd
      <4>2. CASE e # d BY <2>1, <4>2 DEF Kept, Moved, FailedAtEnd
      <4>3. QED BY <4>1, <4>2
    <3>3. QED BY <3>1, <3>2 DEF FailedAtEnd
  <2>8. QED BY <2>2, <2>6, <2>7
<1>2. ASSUME NEW u, New(u), Requested(u)
      PROVE  DepsOK' /\ FailedAtEnd' /\ ndep' = ndep + 1
  <2>0. /\ ndep + 1 \in Dep /\ ndep' = ndep + 1 /\ dep'[ndep + 1] = u
        /\ \A e \in Dep : e # ndep + 1 => dep'[e] = dep[e]
        /\ faults' = faults
    BY <1>2, RequestKeeps
  <2>1. /\ u.pc = "insert" /\ u.status = "none" /\ u.target \in Infra
        /\ u.kind = "move" => u.target # u.from
    BY <1>2 DEF New
  <2>2. \A e \in Dep : e # ndep + 1 => (e <= ndep + 1 <=> e <= ndep)
    BY <1>0 DEF Dep
  <2>3. DepsOK'
    BY <2>0, <2>1, <2>2 DEF DepsOK, Infra, Dep
  <2>4. FailedAtEnd' BY <2>0, <2>1 DEF FailedAtEnd
  <2>5. QED BY <2>0, <2>3, <2>4
<1>3. ASSUME Aside PROVE DepsOK' /\ FailedAtEnd' /\ ndep' = ndep
  <2>1. /\ ndep' = ndep
        /\ UNCHANGED faults \/ Fault
        /\ \A e \in Dep :
             /\ dep'[e].kind = dep[e].kind /\ dep'[e].target = dep[e].target
             /\ dep'[e].from = dep[e].from
             /\ dep'[e].pc = dep[e].pc \/ (Working(e) /\ dep'[e].pc = "dead")
             /\ \/ dep'[e].status = dep[e].status
                \/ dep[e].status = "in_progress" /\ dep'[e].status = "failed" /\ Fault
    BY <1>3, AsideKeeps
  <2>2. DepsOK' BY <2>1 DEF DepsOK, Working, Infra, Dep
  <2>3. FailedAtEnd' BY <1>0, <2>1 DEF FailedAtEnd, Fault, Working
  <2>4. QED BY <2>1, <2>2, <2>3
<1>4. CASE \E d \in Dep : ThreadStep(d) BY <1>0, <1>1, <1>4
<1>5. CASE ~ \E d \in Dep : ThreadStep(d)
  BY <1>0, <1>2, <1>3, <1>5, OtherSteps
<1>6. QED BY <1>4, <1>5

\* Deployments that are recorded stay so.
LEMMA StatusStays ==
  ASSUME TypeOK, DepsOK, FailedAtEnd, Next, NEW e \in Dep, dep[e].status # "none"
  PROVE  dep'[e].status # "none"
<1>1. ASSUME NEW d \in Dep, ThreadStep(d) PROVE dep'[e].status # "none"
  <2>1. dep'[d].status # "none" \/ e # d BY <1>1, ThreadKeeps
  <2>2. e # d => dep'[e] = dep[e] BY <1>1, ThreadKeeps DEF Kept, Moved
  <2>3. QED BY <2>1, <2>2
<1>2. ASSUME NEW u, New(u), Requested(u) PROVE dep'[e].status # "none"
  BY <1>2, RequestKeeps
<1>3. Aside => dep'[e].status # "none" BY AsideKeeps
<1>4. QED BY <1>1, <1>2, <1>3, OtherSteps

\* What a thread does to the row: it writes its own description, changes what
\* the row has, or removes it.
LEMMA ThreadRow ==
  ASSUME TypeOK, Keyed, NEW d \in Dep, ThreadStep(d)
  PROVE  /\ \/ row' = row
            \/ row' = NoRow
            \/ row' = Described(d, "starting")
            \/ /\ row.id \in Dep
               /\ \E v \in Row, w \in {Described(d, "starting"), Described(d, "running")} :
                      row' = Merge(v, w)
         /\ dep'[d].pc \in {"build", "provision", "read", "save"} => row' = row
<1>0. /\ dep \in [Dep -> Deployment] /\ row \in Row /\ row.id \in 0..MaxDeps
      /\ dep[d].seen \in Row
  BY RowFields, DepFields DEF TypeOK
<1>1. CASE Save(d)
  <2>1. CASE dep[d].seen.id = row.id /\ row.id = 0
    <3>1. row' = Described(d, "starting") /\ dep'[d].pc = "check"
      BY <1>0, <1>1, <2>1 DEF Save, Deployment
    <3>2. QED BY <3>1
  <2>2. CASE dep[d].seen.id = row.id /\ row.id # 0
    <3>1. row' = Merge(dep[d].seen, Described(d, "starting")) /\ dep'[d].pc = "check"
      BY <1>0, <1>1, <2>2 DEF Save, Deployment
    <3>2. row.id \in Dep BY <1>0, <2>2, InDep
    <3>3. QED BY <1>0, <3>1, <3>2
  <2>3. CASE dep[d].seen.id # row.id
    BY <1>0, <1>1, <2>3 DEF Save
  <2>4. QED BY <2>1, <2>2, <2>3
<1>2. CASE Run(d)
  <2>1. CASE dep[d].seen.id = row.id
    <3>1. /\ row' = Merge(dep[d].seen, Described(d, "running"))
          /\ dep'[d].pc \in {"decommission", "ok"}
      BY <1>0, <1>2, <2>1 DEF Run, Deployment
    <3>2. row.id \in Dep BY <1>2, <2>1 DEF Keyed, Run
    <3>3. QED BY <1>0, <3>1, <3>2
  <2>2. CASE dep[d].seen.id # row.id BY <1>0, <1>2, <2>2 DEF Run
  <2>3. QED BY <2>1, <2>2
<1>3. CASE Unsave(d)
  <2>1. row' = NoRow /\ dep'[d].pc = "fail"
    BY <1>0, <1>3, MovedBy DEF Unsave, Moved
  <2>2. QED BY <2>1
<1>4. QED
  BY <1>1, <1>2, <1>3 DEF ThreadStep, Insert, Start, Build, Provision, SaveRead,
     CheckAlive, CheckReady, Rollback, Post, RunRead, Decommission, Finish

\* What everything else does to it.
LEMMA OtherRow ==
  ASSUME TypeOK, Keyed, Next, ~ \E d \in Dep : ThreadStep(d)
  PROVE  \/ row' = row
         \/ row' = NoRow /\ DeleteModel
         \/ row' = [row EXCEPT !.man = "b"] /\ EditManifest
         \/ /\ row' = Merge(sync.seen, sync.job) /\ SyncWrite
            /\ row.id \in Dep
<1>1. ASSUME NEW u, New(u), Requested(u) PROVE row' = row BY <1>1 DEF Requested
<1>2. SyncWrite /\ row' # row => /\ row' = Merge(sync.seen, sync.job)
                                 /\ row.id \in Dep
  BY DEF SyncWrite, Keyed
<1>3. Aside => \/ row' = row
               \/ row' = NoRow /\ DeleteModel
               \/ row' = [row EXCEPT !.man = "b"] /\ EditManifest
               \/ SyncWrite
  BY DEF Aside, RequestDelete, EditManifest, DeleteStep, DeleteInstance,
     DeleteToTrash, DeleteModel, Slow, SyncStart, SyncStep, SyncList, SyncRegistry,
     SyncRead, Crash, StartupCheck, Lose
<1>4. QED BY <1>1, <1>2, <1>3, OtherSteps

\* A row that is updated with a complete one is complete.
LEMMA MergeComplete ==
  ASSUME row \in Row, RowOK, row.id \in Dep, NEW v \in Row, NEW w \in Row,
         NEW n \in Nat, ndep \in Nat, ndep <= n,
         w.status # "none", w.infra \in Infra, w.gen \in Dep, w.gen <= n
  PROVE  /\ Merge(v, w).status # "none" /\ Merge(v, w).infra \in Infra
         /\ Merge(v, w).gen \in Dep /\ Merge(v, w).gen <= n
         /\ Merge(v, w).id = row.id
<1>1. row.status # "none"
  <2>1. NoRow.id = 0 /\ 0 \notin Dep BY DeploymentAssumption DEF NoRow, Dep
  <2>2. QED BY <2>1 DEF RowOK
<1>2. /\ row.infra \in Infra /\ row.gen \in Dep /\ row.gen <= n
  <2>1. row.gen \in Nat BY <1>1 DEF RowOK, Dep
  <2>2. row.infra \in Infra /\ row.gen \in Dep /\ row.gen <= ndep BY <1>1 DEF RowOK
  <2>3. QED BY <2>1, <2>2
<1>3. QED BY <1>1, <1>2 DEF Merge

\* Rows stay complete.
LEMMA RowNext ==
  ASSUME TypeOK, Keyed, DepsOK, FailedAtEnd, RowOK, SyncOK, Next
  PROVE  RowOK'
<1>0. /\ row \in Row /\ row.id \in 0..MaxDeps /\ ndep \in Nat /\ ndep <= ndep'
      /\ ndep' \in Nat /\ dep \in [Dep -> Deployment] /\ sync \in Sync
      /\ sync.seen \in Row /\ sync.job \in Row
  BY RowFields, DepsNext DEF TypeOK, Sync
<1> DEFINE Complete(w) == /\ w.status # "none" /\ w.infra \in Infra /\ w.gen \in Dep
                          /\ w.gen <= ndep' /\ w.id \in Dep
<1>1. row.status # "none" => Complete(row) /\ dep[row.id].status # "none"
  <2>1. row.status # "none" => row.gen \in Nat /\ row.gen <= ndep BY DEF RowOK, Dep
  <2>2. QED BY <1>0, <2>1 DEF RowOK
<1>2. row.id \in Dep => row.status # "none"
  <2>1. NoRow.id = 0 /\ 0 \notin Dep BY DeploymentAssumption DEF NoRow, Dep
  <2>2. QED BY <2>1 DEF RowOK
<1>3. CASE row' = row
  BY <1>1, <1>3, StatusStays DEF RowOK, Infra, Dep
<1>4. CASE row' = NoRow BY <1>4 DEF RowOK, NoRow
<1>5. ASSUME NEW w, row' = w, Complete(w), dep'[w.id].status # "none"
      PROVE  RowOK'
  BY <1>5 DEF RowOK, Infra, Dep
<1>6. ASSUME NEW d \in Dep, ThreadStep(d) PROVE RowOK'
  <2>1. dep[d].target \in Infra /\ d <= ndep' /\ dep'[d].status # "none"
    <3>1. dep[d].pc # "unused" BY <1>6, ThreadKeeps DEF Working
    <3>2. dep[d].target \in Infra /\ d <= ndep /\ d \in Nat BY <3>1 DEF DepsOK, Dep
    <3>3. dep[d].status # "none" \/ dep[d].pc = "insert"
      BY <1>6, <3>1, ThreadKeeps DEF DepsOK, Working
    <3>4. dep'[d].status # "none"
      BY <1>6, <3>3, ThreadKeeps
    <3>5. QED BY <1>0, <3>2, <3>4
  <2>2. ASSUME NEW s \in {"starting", "running"}
        PROVE  /\ Described(d, s) \in Row /\ Described(d, s).status # "none"
               /\ Described(d, s).infra = dep[d].target
               /\ Described(d, s).gen = d /\ Described(d, s).id = d
    BY <1>0, DescribedType DEF Described
  <2>3. CASE row' = Described(d, "starting")
    BY <1>3, <1>5, <2>1, <2>2, <2>3
  <2>4. ASSUME row.id \in Dep, NEW v \in Row,
               NEW w \in {Described(d, "starting"), Described(d, "running")},
               row' = Merge(v, w)
        PROVE  RowOK'
    <3>1. CASE row' = row BY <1>3, <3>1
    <3>2. CASE row' # row
      <4>1. w \in Row /\ w.status # "none" /\ w.infra \in Infra /\ w.gen = d
        BY <2>1, <2>2, <2>4, <3>2
      <4>2. /\ Merge(v, w).status # "none" /\ Merge(v, w).infra \in Infra
            /\ Merge(v, w).gen \in Dep /\ Merge(v, w).gen <= ndep'
            /\ Merge(v, w).id = row.id
        BY <1>0, <2>1, <2>4, <3>2, <4>1, MergeComplete
      <4>3. dep'[row.id].status # "none" BY <1>1, <1>2, <2>4, StatusStays
      <4>4. QED BY <1>5, <2>4, <4>2, <4>3
    <3>3. QED BY <3>1, <3>2
  <2>5. QED BY <1>3, <1>4, <1>6, <2>3, <2>4, ThreadRow
<1>7. CASE ~ \E d \in Dep : ThreadStep(d)
  <2>1. CASE row' = [row EXCEPT !.man = "b"] /\ EditManifest
    <3>1. row.status # "none" BY <2>1 DEF EditManifest
    <3>2. LET w == [row EXCEPT !.man = "b"]
          IN  /\ w.status = row.status /\ w.infra = row.infra /\ w.gen = row.gen
              /\ w.id = row.id
      BY <1>0 DEF Row
    <3>3. Complete(row') /\ row'.id = row.id BY <1>1, <2>1, <3>1, <3>2
    <3>4. dep'[row.id].status # "none" BY <1>1, <3>1, StatusStays
    <3>5. QED BY <1>5, <3>3, <3>4
  <2>2. CASE row' = Merge(sync.seen, sync.job) /\ SyncWrite /\ row.id \in Dep
    <3>1. /\ sync.job.status # "none" /\ sync.job.infra \in Infra
          /\ sync.job.gen \in Dep /\ sync.job.gen <= ndep
      BY <2>2 DEF SyncOK, SyncWrite
    <3>2. sync.job.gen <= ndep' BY <1>0, <3>1 DEF Dep
    <3>3. Complete(row') /\ row'.id = row.id
      BY <1>0, <2>2, <3>1, <3>2, MergeComplete
    <3>4. dep'[row.id].status # "none" BY <1>1, <1>2, <2>2, StatusStays
    <3>5. QED BY <1>5, <3>3, <3>4
  <2>3. QED BY <1>3, <1>4, <1>7, <2>1, <2>2, OtherRow
<1>8. QED BY <1>6, <1>7

\* Every instance has a health, whoever takes a step.
LEMMA HealthNext ==
  ASSUME TypeOK, Next, \A i \in Infra : inst[i].gen # 0 => inst[i].health # "none"
  PROVE  \A i \in Infra : inst'[i].gen # 0 => inst'[i].health # "none"
<1>0. inst \in [Infra -> Instance] BY DEF TypeOK
<1>1. NoInstance.gen = 0 BY DEF NoInstance
<1>2. ASSUME NEW j, Undeploy(j)
      PROVE  \A i \in Infra : inst'[i].gen # 0 => inst'[i].health # "none"
  BY <1>0, <1>1, <1>2 DEF Undeploy
<1>3. ASSUME NEW d \in Dep, ThreadStep(d)
      PROVE  \A i \in Infra : inst'[i].gen # 0 => inst'[i].health # "none"
  <2>1. CASE Provision(d)
    <3>1. [gen |-> d, health |-> "error"].health # "none" OBVIOUS
    <3>2. QED BY <1>0, <2>1, <3>1 DEF Provision
  <2>2. CASE CheckReady(d) BY <1>0, <2>2 DEF CheckReady, Instance
  <2>3. CASE Rollback(d) \/ Decommission(d)
    BY <1>2, <2>3 DEF Rollback, Decommission
  <2>4. QED
    BY <1>3, <2>1, <2>2, <2>3 DEF ThreadStep, Insert, Start, Build, SaveRead, Save,
       Unsave, Post, CheckAlive, RunRead, Run, Finish
<1>4. CASE \E u : New(u) /\ Requested(u) BY <1>4 DEF Requested
<1>5. ASSUME NEW j \in Infra, Lose(j)
      PROVE  \A i \in Infra : inst'[i].gen # 0 => inst'[i].health # "none"
  BY <1>0, <1>2, <1>5 DEF Lose, Instance
<1>6. CASE DeleteInstance BY <1>2, <1>6 DEF DeleteInstance
<1>7. CASE Aside
  BY <1>5, <1>6, <1>7 DEF Aside, RequestDelete, EditManifest, DeleteStep,
     DeleteToTrash, DeleteModel, Slow, SyncStart, SyncStep, SyncList, SyncRegistry,
     SyncRead, SyncWrite, Crash, StartupCheck
<1>8. QED BY <1>3, <1>4, <1>7, OtherSteps

\* A pass of sync_registry_jobs works with jobs that were there.
LEMMA SyncNext ==
  ASSUME TypeOK, Keyed, DepsOK, FailedAtEnd, RowOK, SyncOK, Next
  PROVE  SyncOK'
<1>0. /\ row \in Row /\ sync \in Sync /\ sync.next \in Infra /\ inst \in [Infra -> Instance]
      /\ ndep \in Nat /\ ndep <= ndep' /\ ndep' \in Nat /\ sync.found \in 0..Targets
      /\ sync.health \in Health
  BY DepsNext, DeploymentAssumption DEF TypeOK, Sync, Infra, Health
<1>1. \A i \in Infra : inst'[i].gen # 0 => inst'[i].health # "none"
  BY HealthNext DEF SyncOK
<1> DEFINE Good(s, n) == /\ s.found # 0 => s.health # "none"
                         /\ s.pc \in {"read", "write"} =>
                              /\ s.job.status # "none" /\ s.job.infra \in Infra
                              /\ s.job.gen \in Dep /\ s.job.gen <= n
<1>2. Good(sync, ndep) BY DEF SyncOK
<1>3. Good(sync, ndep')
  <2>1. sync.job.gen \in Dep /\ sync.job.gen <= ndep => sync.job.gen <= ndep'
    BY <1>0 DEF Dep
  <2>2. QED BY <1>2, <2>1
<1>4. SUFFICES Good(sync', ndep') BY <1>1 DEF SyncOK, Infra, Dep
<1>5. CASE sync' = sync BY <1>3, <1>5
<1>6. CASE sync' = NoSync BY <1>6 DEF NoSync
<1>7. CASE SyncStart BY <1>7 DEF SyncStart, NoSync
<1>8. CASE SyncList
  <2> DEFINE i == sync.next
             n == IF i < Targets THEN i + 1 ELSE 1
             p == IF i < Targets THEN "list" ELSE "registry"
             after == [sync EXCEPT !.next = n, !.pc = p]
  <2>1. after.pc \in {"list", "registry"} /\ after.found = sync.found
        /\ after.health = sync.health
    BY <1>0 DEF Sync
  <2>2. CASE sync' = after BY <1>3, <2>1, <2>2
  <2>3. CASE inst[i].gen # 0 /\ sync' = [after EXCEPT !.found = i, !.health = inst[i].health]
    <3>1. /\ sync'.pc \in {"list", "registry"} /\ sync'.health = inst[i].health
      BY <1>0, <2>1, <2>3 DEF Sync
    <3>2. inst[i].health # "none" BY <1>0, <2>3 DEF SyncOK
    <3>3. QED BY <3>1, <3>2
  <2>4. QED BY <1>8, <2>2, <2>3 DEF SyncList
<1>9. CASE SyncRegistry
  <2>1. CASE ~SyncSkips /\ sync' = [NoSync EXCEPT !.pc = "read", !.job = Synced]
    <3>1. sync'.pc = "read" /\ sync'.job = Synced /\ sync'.found = 0
      BY <2>1 DEF NoSync
    <3>2. /\ row.infra \in Infra /\ row.gen \in Dep /\ row.gen <= ndep
      BY <2>1 DEF SyncSkips, RowOK
    <3>3. sync.found # 0 => sync.found \in Infra /\ sync.health # "none"
      BY <1>0, <1>2, DeploymentAssumption DEF Infra
    <3>4. /\ Synced.status # "none" /\ Synced.infra \in Infra /\ Synced.gen = row.gen
      BY <1>0, <3>2, <3>3 DEF Synced, Row
    <3>5. row.gen <= ndep' BY <1>0, <3>2 DEF Dep
    <3>6. QED BY <3>1, <3>2, <3>4, <3>5
  <2>2. QED BY <1>6, <1>9, <2>1 DEF SyncRegistry
<1>10. CASE SyncRead
  <2>1. CASE sync' = [sync EXCEPT !.pc = "write", !.seen = row]
    <3>1. /\ sync'.found = sync.found /\ sync'.health = sync.health /\ sync'.job = sync.job
          /\ sync.pc = "read"
      BY <1>0, <1>10, <2>1 DEF Sync, SyncRead
    <3>2. QED BY <1>3, <3>1
  <2>2. QED BY <1>6, <1>10, <2>1 DEF SyncRead
<1>11. CASE SyncWrite BY <1>6, <1>11 DEF SyncWrite
<1>12. ASSUME NEW d \in Dep, ThreadStep(d) PROVE sync' = sync
  BY <1>12, ThreadKeeps
<1>13. ASSUME NEW u, New(u), Requested(u) PROVE sync' = sync
  BY <1>13 DEF Requested
<1>14. CASE Aside
  BY <1>5, <1>6, <1>7, <1>8, <1>9, <1>10, <1>11, <1>14 DEF Aside, RequestDelete,
     EditManifest, DeleteStep, DeleteInstance, DeleteToTrash, DeleteModel, Slow,
     SyncStep, Crash, StartupCheck, Lose
<1>15. QED BY <1>5, <1>12, <1>13, <1>14, OtherSteps

\* Overlaps stay on record, and everything is recorded that begins while
\* something else is going on.
LEMMA OverlapNext ==
  ASSUME TypeOK, DepsOK, OverlapOK, Next
  PROVE  OverlapOK' /\ overlap \subseteq overlap'
<1>1. ASSUME NEW d \in Dep, ThreadStep(d) PROVE OverlapOK' /\ overlap' = overlap
  <2>1. /\ \A e \in Dep : e # d => dep'[e] = dep[e]
        /\ Working(d) /\ UNCHANGED <<del, overlap>>
    BY <1>1, ThreadKeeps DEF Kept, Moved
  <2>2. \A e \in Dep : Working(e)' => Working(e) BY <2>1 DEF Working
  <2>3. QED BY <2>1, <2>2 DEF OverlapOK
<1>2. ASSUME NEW u, New(u), Requested(u) PROVE OverlapOK' /\ overlap \subseteq overlap'
  <2> DEFINE others == {d \in Dep : Working(d)}
  <2>1. /\ ndep + 1 \in Dep /\ \A e \in Dep : e # ndep + 1 => dep'[e] = dep[e]
        /\ UNCHANGED del
    BY <1>2, RequestKeeps
  <2>2. \A e \in Dep : Working(e)' => e \in others \/ e = ndep + 1
    BY <2>1 DEF Working
  <2>3. overlap' = IF others = {} /\ del.pc = "idle" THEN overlap
                   ELSE overlap \cup others \cup {ndep + 1}
    BY <1>2 DEF Requested
  <2>4. CASE others = {} /\ del.pc = "idle"
    BY <2>1, <2>2, <2>3, <2>4 DEF OverlapOK
  <2>5. CASE ~(others = {} /\ del.pc = "idle")
    BY <2>1, <2>2, <2>3, <2>5 DEF OverlapOK
  <2>6. QED BY <2>3, <2>4, <2>5
<1>3. ASSUME Aside PROVE OverlapOK' /\ overlap \subseteq overlap'
  <2>1. \A e \in Dep : Working(e)' => Working(e)
    BY <1>3, AsideKeeps DEF Working
  <2>2. CASE RequestDelete
    <3>1. overlap' = overlap \cup {d \in Dep : Working(d)} BY <2>2 DEF RequestDelete
    <3>2. QED BY <2>1, <3>1 DEF OverlapOK
  <2>3. CASE ~RequestDelete
    <3>1. overlap' = overlap
      BY <1>3, <2>3 DEF Aside, EditManifest, DeleteStep, DeleteInstance, DeleteToTrash,
         DeleteModel, Slow, SyncStart, SyncStep, SyncList, SyncRegistry, SyncRead,
         SyncWrite, Crash, StartupCheck, Lose, history
    <3>2. del' = del \/ del.pc # "idle" \/ del' = NoDelete
      BY <1>3, <2>3 DEF Aside, EditManifest, DeleteStep, DeleteInstance, DeleteToTrash,
         DeleteModel, Slow, SyncStart, SyncStep, SyncList, SyncRegistry, SyncRead,
         SyncWrite, Crash, StartupCheck, Lose
    <3>3. NoDelete.pc = "idle" BY DEF NoDelete
    <3>4. QED BY <2>1, <3>1, <3>2, <3>3 DEF OverlapOK
  <2>4. QED BY <2>2, <2>3
<1>4. QED BY <1>1, <1>2, <1>3, OtherSteps

\* What a deployment has found stays so as long as it is alone.
LEMMA ClaimNext ==
  ASSUME TypeOK, Keyed, DepsOK, RowOK, OverlapOK, ClaimOK, Next
  PROVE  ClaimOK'
<1> SUFFICES ASSUME NEW e \in Dep, dep'[e].kind = "deploy",
                    dep'[e].pc \in {"build", "provision", "read", "save"},
                    e \notin overlap'
             PROVE  row'.status = "none" /\ trash' = {}
  BY DEF ClaimOK
<1>0. e \notin overlap BY OverlapNext
<1>1. ASSUME NEW d \in Dep, ThreadStep(d) PROVE row'.status = "none" /\ trash' = {}
  <2>0. PICK p : Kept(d, p) BY <1>1, ThreadKeeps
  <2>1. CASE e = d
    <3>1. row' = row /\ trash' = trash /\ dep[d].kind = "deploy"
      BY <1>1, <2>0, <2>1, ThreadRow, ThreadKeeps DEF Kept
    <3>2. \/ dep[d].pc = "start" /\ ~Protected(d)
          \/ dep[d].pc \in {"build", "provision", "read"}
      BY <1>1, <2>1, <3>1, ThreadKeeps
    <3>3. QED BY <1>0, <2>1, <3>1, <3>2 DEF ClaimOK, Protected
  <2>2. CASE e # d
    <3>1. dep'[e] = dep[e] BY <2>0, <2>2 DEF Kept, Moved
    <3>2. Working(e) /\ Working(d) BY <1>1, <3>1, ThreadKeeps DEF Working
    <3>3. QED BY <1>0, <2>2, <3>2 DEF OverlapOK
  <2>3. QED BY <2>1, <2>2
<1>2. ASSUME NEW u, New(u), Requested(u) PROVE row'.status = "none" /\ trash' = {}
  <2>1. /\ dep'[ndep + 1] = u /\ u.pc = "insert" /\ UNCHANGED <<row, trash>>
        /\ \A f \in Dep : f # ndep + 1 => dep'[f] = dep[f]
    BY <1>2, RequestKeeps DEF New
  <2>2. dep'[e] = dep[e] BY <2>1
  <2>3. QED BY <1>0, <2>1, <2>2 DEF ClaimOK
<1>3. ASSUME Aside PROVE row'.status = "none" /\ trash' = {}
  <2>1. dep'[e].pc = dep[e].pc /\ dep'[e].kind = dep[e].kind BY <1>3, AsideKeeps
  <2>2. row.status = "none" /\ trash = {} BY <1>0, <2>1 DEF ClaimOK
  <2>3. del.pc = "idle" BY <1>0, <2>1 DEF OverlapOK, Working
  <2>4. row.id = 0 /\ 0 \notin Dep BY <2>2, DeploymentAssumption DEF RowOK, NoRow, Dep
  <2>5. trash' = trash
    BY <1>3, <2>3 DEF Aside, RequestDelete, EditManifest, DeleteStep, DeleteInstance,
       DeleteToTrash, DeleteModel, Slow, SyncStart, SyncStep, SyncList, SyncRegistry,
       SyncRead, SyncWrite, Crash, StartupCheck, Lose
  <2>6. row' = row
    BY <1>3, <2>2, <2>3, <2>4 DEF Aside, RequestDelete, EditManifest, DeleteStep,
       DeleteInstance, DeleteToTrash, DeleteModel, Slow, SyncStart, SyncStep, SyncList,
       SyncRegistry, SyncRead, SyncWrite, Crash, StartupCheck, Lose, Keyed
  <2>7. QED BY <2>2, <2>5, <2>6
<1>4. QED BY <1>1, <1>2, <1>3, OtherSteps

\* The initial state has nothing to explain.
LEMMA ThreadsInit == Init => ThreadsInv
<1> SUFFICES ASSUME Init PROVE ThreadsInv OBVIOUS
<1>1. DepsOK /\ FailedAtEnd
  BY DeploymentAssumption DEF Init, DepsOK, FailedAtEnd, Unused, Dep
<1>2. RowOK BY DEF Init, RowOK, NoRow
<1>3. SyncOK BY DEF Init, SyncOK, NoSync, NoInstance
<1>4. OverlapOK /\ ClaimOK BY DEF Init, OverlapOK, ClaimOK, Working, Unused, Dep
<1>5. QED BY <1>1, <1>2, <1>3, <1>4 DEF ThreadsInv

\* Every step keeps all of it.
LEMMA ThreadsNext ==
  ASSUME TypeOK, Keyed, ThreadsInv, [Next]_vars
  PROVE  ThreadsInv'
<1>1. CASE Next
  BY <1>1, DepsNext, RowNext, SyncNext, OverlapNext, ClaimNext DEF ThreadsInv
<1>2. CASE UNCHANGED vars
  <2>1. DepsOK' /\ FailedAtEnd' BY <1>2 DEF vars, ThreadsInv, DepsOK, FailedAtEnd
  <2>2. RowOK' /\ SyncOK' BY <1>2 DEF vars, ThreadsInv, RowOK, SyncOK
  <2>3. OverlapOK' /\ ClaimOK'
    BY <1>2 DEF vars, ThreadsInv, OverlapOK, ClaimOK, Working
  <2>4. QED BY <2>1, <2>2, <2>3 DEF ThreadsInv
<1>3. QED BY <1>1, <1>2

\* A deployment that is not forced writes no row over an existing job and none
\* for a name and version that was deleted before, unless it overlapped with
\* another request: _protect_job_overwriting, called long before the write.
THEOREM ClaimsAreProtected == Spec => ClaimProtected
<1>1. Init => TypeOK /\ Keyed /\ ThreadsInv BY TypeInit, KeyedInit, ThreadsInit
<1>2. TypeOK /\ Keyed /\ ThreadsInv /\ [Next]_vars => (TypeOK /\ Keyed /\ ThreadsInv)'
  BY TypeNext, KeyedNext, ThreadsNext
<1>3. ThreadsInv =>
        [\A d \in Dep :
           dep[d].kind = "deploy" /\ dep[d].pc = "save" /\ dep'[d].pc = "check"
              => (row.status = "none" /\ trash = {}) \/ d \in overlap]_vars
  BY DEF ThreadsInv, ClaimOK
<1>4. QED BY <1>1, <1>2, <1>3, PTL DEF Spec, ClaimProtected

-----------------------------------------------------------------------------
(* Who answered the health checks *)

\* As long as a deployment is alone, nobody replaces its instance before it has
\* answered that it is ready.
ReadyInv ==
    \A d \in Dep : d \notin overlap =>
      /\ dep[d].pc \in {"read", "save", "check", "ready"} =>
           inst[dep[d].target].gen \in {0, d}
      /\ \/ dep[d].pc \in {"post", "reread", "run", "decommission", "ok"}
         \/ dep[d].status = "done"
         => d \in ready

\* From the instance's creation on, a thread leaves it as it is.
LEMMA OwnSteps ==
  ASSUME TypeOK, DepsOK, NEW d \in Dep, ThreadStep(d),
         dep'[d].pc \in {"read", "save", "check", "ready"}
  PROVE  \/ inst'[dep[d].target].gen = d
         \/ dep[d].pc \in {"read", "save", "check"} /\ inst' = inst
<1>0. /\ dep \in [Dep -> Deployment] /\ inst \in [Infra -> Instance]
      /\ dep[d].target \in Infra
  BY ThreadKeeps DEF TypeOK, DepsOK, Working
<1> USE <1>0, KeptBy
<1>1. CASE Insert(d) BY <1>1 DEF Insert, Deployment
<1>2. CASE Provision(d) BY <1>2 DEF Provision, Kept, Moved
<1>3. CASE SaveRead(d) \/ Save(d) \/ CheckAlive(d)
  BY <1>3 DEF SaveRead, Save, CheckAlive
<1>4. CASE Start(d) \/ Build(d) \/ CheckReady(d) \/ Rollback(d) \/ Unsave(d) \/ Post(d)
  BY <1>4 DEF Start, Build, CheckReady, CheckFailed, Rollback, Unsave, Post, Kept, Moved
<1>5. CASE RunRead(d)
  <2>1. CASE row.status = "none" BY <1>5, <2>1 DEF RunRead, Kept, Moved
  <2>2. CASE row.status # "none" BY <1>5, <2>2 DEF RunRead, Deployment
  <2>3. QED BY <2>1, <2>2
<1>6. CASE Run(d)
  <2>1. CASE dep[d].seen.id = row.id BY <1>6, <2>1 DEF Run, Deployment
  <2>2. CASE dep[d].seen.id # row.id BY <1>6, <2>2 DEF Run, Kept, Moved
  <2>3. QED BY <2>1, <2>2
<1>7. CASE Decommission(d) BY <1>7 DEF Decommission, Kept, Moved
<1>8. CASE Finish(d) BY <1>8 DEF Finish, Deployment
<1>9. QED
  BY <1>1, <1>2, <1>3, <1>4, <1>5, <1>6, <1>7, <1>8 DEF ThreadStep

\* Whoever replaces it overlaps with the deployment.
LEMMA ReadyNext ==
  ASSUME TypeOK, ThreadsInv, ReadyInv, [Next]_vars PROVE ReadyInv'
<1>0. /\ dep \in [Dep -> Deployment] /\ inst \in [Infra -> Instance]
      /\ DepsOK /\ OverlapOK /\ NoInstance.gen = 0
  BY DEF TypeOK, ThreadsInv, NoInstance
<1>1. ready \subseteq ready' BY VerifiedGrows
<1>2. ASSUME NEW d \in Dep, ThreadStep(d) PROVE ReadyInv'
  <2>1. PICK p : Kept(d, p) BY <1>2, ThreadKeeps
  <2>2. /\ \A e \in Dep : e # d => dep'[e] = dep[e]
        /\ dep'[d].target = dep[d].target /\ Working(d) /\ overlap' = overlap
    BY <1>2, <2>1, ThreadKeeps DEF Kept, Moved
  <2>3. ASSUME NEW e \in Dep, e # d, e \notin overlap,
               dep[e].pc \in {"read", "save", "check", "ready"}
        PROVE  FALSE
    BY <1>0, <2>2, <2>3 DEF OverlapOK, Working
  <2>4. ASSUME d \notin overlap, dep'[d].pc \in {"read", "save", "check", "ready"}
        PROVE  inst'[dep[d].target].gen \in {0, d}
    BY <1>0, <1>2, <2>4, OwnSteps DEF ReadyInv
  <2>5. ASSUME d \notin overlap,
               \/ dep'[d].pc \in {"post", "reread", "run", "decommission", "ok"}
               \/ dep'[d].status = "done"
        PROVE  d \in ready'
    <3>1. CASE \/ dep[d].pc \in {"post", "reread", "run", "decommission", "ok"}
               \/ dep[d].status = "done"
      BY <1>1, <2>5, <3>1 DEF ReadyInv
    <3>2. CASE CheckReady(d) /\ inst[dep[d].target].gen # 0
      <4>1. dep[d].pc = "ready" BY <3>2 DEF CheckReady
      <4>2. inst[dep[d].target].gen = d BY <2>5, <3>2, <4>1 DEF ReadyInv
      <4>3. dep'[d].pc \in {"fail", "rollback"} \/ ready' = ready \cup {d}
        BY <1>0, <3>2, <4>2, KeptBy DEF CheckReady, CheckFailed, Kept, Moved
      <4>4. dep'[d].status = dep[d].status
        BY <1>0, <3>2, KeptBy DEF CheckReady, CheckFailed
      <4>5. QED BY <1>1, <2>5, <4>1, <4>3, <4>4 DEF ReadyInv
    <3>3. QED BY <1>2, <2>5, <3>1, <3>2, ThreadMoves
  <2>6. QED BY <1>1, <2>2, <2>3, <2>4, <2>5 DEF ReadyInv
<1>3. ASSUME NEW u, New(u), Requested(u) PROVE ReadyInv'
  <2>1. /\ dep'[ndep + 1] = u /\ u.pc = "insert" /\ u.status = "none" /\ inst' = inst
        /\ \A f \in Dep : f # ndep + 1 => dep'[f] = dep[f]
        /\ overlap \subseteq overlap'
    BY <1>0, <1>3, RequestKeeps DEF New, Requested
  <2>2. QED BY <1>1, <2>1 DEF ReadyInv
<1>4. ASSUME Next, Aside PROVE ReadyInv'
  <2>1. overlap \subseteq overlap' BY <1>0, <1>4, OverlapNext
  <2>2. ASSUME NEW e \in Dep, e \notin overlap', dep'[e].pc \in {"read", "save", "check", "ready"}
        PROVE  inst'[dep'[e].target].gen \in {0, e}
    <3>1. /\ dep[e].pc = dep'[e].pc /\ dep'[e].target = dep[e].target /\ Working(e)
      BY <1>4, <2>2, AsideKeeps DEF Working
    <3>2. /\ del.pc = "idle" /\ dep[e].target \in Infra
          /\ inst[dep[e].target].gen \in {0, e}
      BY <1>0, <2>1, <2>2, <3>1 DEF OverlapOK, DepsOK, ReadyInv, Working
    <3>3. \/ inst' = inst
          \/ \E i \in Infra : Lose(i)
      BY <1>4, <3>2 DEF Aside, RequestDelete, EditManifest, DeleteStep, DeleteInstance,
         DeleteToTrash, DeleteModel, Slow, SyncStart, SyncStep, SyncList, SyncRegistry,
         SyncRead, SyncWrite, Crash, StartupCheck
    <3>4. ASSUME NEW i \in Infra, Lose(i) PROVE inst'[dep[e].target].gen \in {0, e}
      BY <1>0, <3>2, <3>4 DEF Lose, Undeploy, Instance
    <3>5. QED BY <3>1, <3>2, <3>3, <3>4
  <2>3. ASSUME NEW e \in Dep, e \notin overlap',
               \/ dep'[e].pc \in {"post", "reread", "run", "decommission", "ok"}
               \/ dep'[e].status = "done"
        PROVE  e \in ready'
    <3>1. dep'[e].pc = dep[e].pc \/ dep'[e].pc = "dead" BY <1>4, AsideKeeps
    <3>2. dep'[e].status = "done" => dep[e].status = "done" BY <1>4, AsideKeeps
    <3>3. QED BY <1>1, <2>1, <2>3, <3>1, <3>2 DEF ReadyInv
  <2>4. QED BY <2>2, <2>3 DEF ReadyInv
<1>5. CASE UNCHANGED vars BY <1>5 DEF vars, ReadyInv
<1>6. QED BY <1>2, <1>3, <1>4, <1>5, OtherSteps

\* A deployment whose result is "done" was verified by check_job_condition: the
\* instance that answered /live was its own, whatever other deployments,
\* deletions, restarts and passes of sync_registry_jobs did in the meantime, and
\* so was the one that answered /ready unless another request overlapped.
THEOREM VerifiedBeforeDone == Spec => []DoneWasVerified
<1>1. Init => TypeOK /\ Keyed /\ ThreadsInv BY TypeInit, KeyedInit, ThreadsInit
<1>2. Init => VerifiedInv /\ ReadyInv BY DEF Init, VerifiedInv, ReadyInv, Unused
<1>3. TypeOK /\ Keyed /\ ThreadsInv /\ [Next]_vars => (TypeOK /\ Keyed /\ ThreadsInv)'
  BY TypeNext, KeyedNext, ThreadsNext
<1>4. TypeOK /\ ThreadsInv /\ VerifiedInv /\ ReadyInv /\ [Next]_vars
        => VerifiedInv' /\ ReadyInv'
  BY VerifiedNext, ReadyNext
<1>5. VerifiedInv /\ ReadyInv => DoneWasVerified
  BY DEF VerifiedInv, ReadyInv, DoneWasVerified
<1>6. QED BY <1>1, <1>2, <1>3, <1>4, <1>5, PTL DEF Spec

-----------------------------------------------------------------------------
(* Where the job runs while nothing disturbs it *)

\* None of the causes that AtOddsHasCause names.
Calm == /\ faults = 0 /\ overlap = {} /\ misled = "no"
        /\ ~ \E d \in Dep : Replaces(d)

Settled ==
    /\ row.status # "lost"
    /\ \A i \in Infra : inst[i].gen = IF i = row.infra THEN row.gen ELSE 0

Nowhere == \A i \in Infra : inst[i].gen = 0

\* What a deployment has found, until it writes the row.
Found(d) ==
    /\ row.gen # d
    /\ dep[d].kind = "force" => row.status = "none"
    /\ dep[d].kind = "deploy" /\ dep[d].pc \notin {"insert", "start"} =>
         row.status = "none"
    /\ dep[d].kind \in {"redeploy", "reprovision"} => dep[d].target = row.infra
    /\ dep[d].kind = "move" => row.status # "none" /\ dep[d].from = row.infra

\* Its instance runs, the row is still the former one,
Staged(d) ==
    /\ row.status # "lost"
    /\ \A i \in Infra : inst[i].gen = IF i = dep[d].target THEN d
                                      ELSE IF i = row.infra THEN row.gen ELSE 0

\* and the row is the deployment's; a job that moves still runs at its origin.
Saved(d) ==
    /\ row.status # "lost" /\ row.infra = dep[d].target /\ row.gen = d
    /\ \A i \in Infra :
         IF i = dep[d].target THEN inst[i].gen = d
         ELSE /\ inst[i].gen # d
              /\ inst[i].gen = 0 \/ (dep[d].kind = "move" /\ i = dep[d].from)

\* What holds at each step of the thread of a deployment. A move that fails is
\* one of the causes.
Phase(d) ==
    /\ dep[d].pc \in {"insert", "start", "build", "provision"} => Settled /\ Found(d)
    /\ dep[d].pc \in {"read", "save"} => Staged(d) /\ Found(d)
    /\ dep[d].pc = "save" => /\ dep[d].seen.id = row.id
                             /\ dep[d].seen.infra = row.infra
                             /\ dep[d].seen.gen = row.gen
    /\ dep[d].pc \in {"check", "ready", "post", "reread", "run", "decommission"}
         => Saved(d)
    /\ dep[d].pc = "decommission" => dep[d].kind = "move"
    /\ dep[d].pc = "ok" => Settled
    /\ dep[d].pc = "rollback" /\ dep[d].kind # "move" => Saved(d)
    /\ dep[d].pc = "unsave" /\ dep[d].kind # "move" => Nowhere
    /\ dep[d].pc = "fail" /\ dep[d].kind # "move" => Settled

\* Stronger than AtOddsHasCause, and inductive with ThreadsInv.
PlacesInv ==
    Calm => /\ \A d \in Dep : Working(d) => Phase(d)
            /\ del.pc = "infra" => Settled /\ del.job.infra = row.infra
            /\ del.pc \in {"trash", "model"} => Nowhere
            /\ Quiet => Settled
\* The parts of PlacesInv for a calm state.
InPlace ==
    /\ \A d \in Dep : Working(d) => Phase(d)
    /\ del.pc = "infra" => Settled /\ del.job.infra = row.infra
    /\ del.pc \in {"trash", "model"} => Nowhere
    /\ Quiet => Settled

\* What is calm now has been so before, and no step was a failure.
LEMMA CalmBefore ==
  ASSUME TypeOK, ThreadsInv, Next, Calm'
  PROVE  Calm /\ ~Fault
<1>0. DepsOK /\ FailedAtEnd /\ OverlapOK /\ faults \in Nat /\ DepsOK'
  BY DepsNext, DeploymentAssumption DEF ThreadsInv, TypeOK
<1>1. UNCHANGED faults \/ Fault
  BY ThreadKeeps, AsideKeeps, OtherSteps DEF Requested
<1>2. faults = 0 /\ ~Fault BY <1>0, <1>1 DEF Calm, Fault
<1>3. overlap = {} BY <1>0, OverlapNext DEF Calm
<1>4. misled = "no"
  <2>1. misled' \in {misled, "yes"}
    <3>1. Aside => misled' \in {misled, "yes"}
      BY DEF Aside, RequestDelete, EditManifest, DeleteStep, DeleteInstance,
         DeleteToTrash, DeleteModel, Slow, SyncStart, SyncStep, SyncList, SyncRegistry,
         SyncRead, SyncWrite, Crash, StartupCheck, Lose, history
    <3>2. QED BY <3>1, ThreadKeeps, OtherSteps DEF Requested
  <2>2. QED BY <2>1 DEF Calm
<1>5. ASSUME NEW d \in Dep, dep[d].kind \in {"move", "force"} PROVE dep'[d].kind = dep[d].kind
  <2>1. ASSUME NEW e \in Dep, ThreadStep(e) PROVE dep'[d].kind = dep[d].kind
    BY <2>1, ThreadKeeps DEF Kept, Moved
  <2>2. ASSUME NEW u, New(u), Requested(u) PROVE dep'[d].kind = dep[d].kind
    BY <1>0, <1>5, <2>2, RequestKeeps DEF DepsOK
  <2>3. Aside => dep'[d].kind = dep[d].kind BY AsideKeeps
  <2>4. QED BY <2>1, <2>2, <2>3, OtherSteps
<1>6. ASSUME NEW d \in Dep, dep[d].status = "failed" PROVE dep'[d].status = "failed"
  <2>1. dep[d].pc = "over" BY <1>0, <1>2, <1>6 DEF FailedAtEnd
  <2>2. ASSUME NEW e \in Dep, ThreadStep(e) PROVE dep'[d].status = "failed"
    BY <1>6, <2>1, <2>2, ThreadKeeps DEF Kept, Moved, Working
  <2>3. ASSUME NEW u, New(u), Requested(u) PROVE dep'[d].status = "failed"
    BY <1>0, <1>6, <2>3, RequestKeeps
  <2>4. Aside => dep'[d].status = "failed" BY <1>6, AsideKeeps
  <2>5. QED BY <2>2, <2>3, <2>4, OtherSteps
<1>7. ASSUME NEW d \in Dep, Replaces(d) PROVE Replaces(d)'
  <2>1. CASE dep[d].kind = "move" /\ dep[d].status = "failed"
    BY <1>5, <1>6, <2>1 DEF Replaces
  <2>2. CASE dep[d].kind = "force" /\ \E e \in Dep : e < d /\ dep[e].status # "none"
    BY <1>0, <1>5, <2>2, StatusStays DEF Replaces, Dep
  <2>3. QED BY <1>7, <2>1, <2>2 DEF Replaces
<1>8. QED BY <1>2, <1>3, <1>4, <1>7 DEF Calm, Dep

\* Row and instances as far as PlacesInv speaks of them.
SamePlace ==
    /\ row'.infra = row.infra /\ row'.gen = row.gen /\ row'.id = row.id
    /\ row'.status = "none" <=> row.status = "none"
    /\ row.status # "lost" => row'.status # "lost"
    /\ \A i \in Infra : inst'[i].gen = inst[i].gen

\* Steps that leave them alone keep all that PlacesInv says.
LEMMA StillThere ==
  ASSUME InPlace, SamePlace, del' = del,
         \A e \in Dep : /\ dep'[e].kind = dep[e].kind /\ dep'[e].target = dep[e].target
                        /\ dep'[e].from = dep[e].from /\ dep'[e].pc = dep[e].pc
                        /\ dep'[e].pc = "save" => dep'[e].seen = dep[e].seen
  PROVE  InPlace'
<1>1. (Settled => Settled') /\ (Nowhere => Nowhere')
  BY DEF SamePlace, Settled, Nowhere, Infra
<1>2. ASSUME NEW d \in Dep, Phase(d) PROVE Phase(d)'
  <2>1. /\ Found(d) => Found(d)'
        /\ Staged(d) => Staged(d)'
        /\ Saved(d) => Saved(d)'
    BY DEF SamePlace, Found, Staged, Saved, Infra
  <2>2. dep[d].pc = "save" /\ dep[d].seen.id = row.id /\ dep[d].seen.infra = row.infra
          /\ dep[d].seen.gen = row.gen
        => /\ dep'[d].seen.id = row'.id /\ dep'[d].seen.infra = row'.infra
           /\ dep'[d].seen.gen = row'.gen
    BY DEF SamePlace
  <2>3. QED BY <1>1, <1>2, <2>1, <2>2 DEF Phase
<1>3. QED BY <1>1, <1>2 DEF InPlace, SamePlace, Quiet, Working, Dep

\* A row that is there runs somewhere, and no other target runs it.
Located ==
    /\ row.status # "none" => ~Nowhere
    /\ \A i \in Infra : inst[i].gen = row.gen /\ row.gen # 0 => i = row.infra

\* As long as that is so, sync_registry_jobs moves nothing without writing what
\* is no longer true.
LEMMA SyncPlace ==
  ASSUME TypeOK, Keyed, RowOK, SyncOK, SyncWrite, misled' = "no", Located
  PROVE  SamePlace
<1>0. /\ row \in Row /\ sync \in Sync /\ sync.job \in Row /\ sync.seen \in Row
      /\ 0 \notin Dep /\ inst' = inst
  BY DeploymentAssumption DEF TypeOK, Sync, Dep, SyncWrite
<1>1. ~Outdated BY DEF SyncWrite
<1>2. CASE sync.seen.id # row.id
  BY <1>0, <1>2 DEF SyncWrite, SamePlace
<1>3. CASE sync.seen.id = row.id
  <2>1. row.id \in Dep /\ sync.pc = "write" BY <1>3 DEF Keyed, SyncWrite
  <2>2. row.status # "none" /\ row.gen \in Dep BY <1>0, <2>1 DEF RowOK, NoRow
  <2>3. /\ sync.job.status # "none" /\ sync.job.infra \in Infra
    BY <2>1 DEF SyncOK
  <2>4. sync.job.gen = row.gen /\ sync.job.status # "lost"
    BY <1>1, <2>2 DEF Outdated, Located, Nowhere
  <2>5. inst[sync.job.infra].gen = row.gen BY <1>1, <2>4 DEF Outdated
  <2>6. sync.job.infra = row.infra BY <1>0, <2>2, <2>3, <2>5 DEF Located
  <2>7. row' = Merge(sync.seen, sync.job) BY <1>3 DEF SyncWrite
  <2>8. /\ row'.infra = row.infra /\ row'.gen = row.gen /\ row'.id = row.id
        /\ row'.status # "none" /\ (row.status # "lost" => row'.status # "lost")
    BY <2>2, <2>3, <2>4, <2>6, <2>7 DEF Merge
  <2>9. QED BY <1>0, <2>2, <2>8 DEF SamePlace
<1>4. QED BY <1>2, <1>3

\* That is so whenever the job is settled, and at all the steps of a deployment
\* that change it.
LEMMA LocatedWhen ==
  ASSUME TypeOK, DepsOK, RowOK
  PROVE  /\ Settled => Located
         /\ \A d \in Dep : /\ Working(d) /\ Staged(d) /\ Found(d) => Located
                           /\ Working(d) /\ Saved(d) => Located
<1>0. 0 \notin Dep /\ 0 \notin Infra BY DeploymentAssumption DEF Dep, Infra
<1>1. Settled => Located BY <1>0 DEF Settled, Located, Nowhere, RowOK, NoRow
<1>2. ASSUME NEW d \in Dep, Working(d) PROVE dep[d].target \in Infra
  BY <1>2 DEF Working, DepsOK
<1>3. ASSUME NEW d \in Dep, Working(d), Staged(d), Found(d) PROVE Located
  BY <1>0, <1>2, <1>3 DEF Staged, Found, Located, Nowhere
<1>4. ASSUME NEW d \in Dep, Working(d), Saved(d) PROVE Located
  BY <1>0, <1>2, <1>4 DEF Saved, Located, Nowhere
<1>5. QED BY <1>1, <1>3, <1>4

\* A job that was saved and does not move is settled.
LEMMA SavedIsSettled ==
  ASSUME DepsOK, NEW d \in Dep, Saved(d), dep[d].kind # "move"
  PROVE  Settled
  BY DEF Saved, Settled

\* What a step of a deployment owes to PlacesInv.
Advances(d) ==
    /\ dep'[d].pc # "over" => Phase(d)'
    /\ dep'[d].pc = "over" => Settled'

\* The steps before the instance is there.
LEMMA EarlySteps ==
  ASSUME TypeOK, ThreadsInv, NEW d \in Dep, Phase(d), ~Fault,
         Insert(d) \/ Start(d) \/ Build(d) \/ Provision(d)
  PROVE  Advances(d)
<1>0. /\ dep \in [Dep -> Deployment] /\ dep[d].kind \in AnyKind
      /\ inst \in [Infra -> Instance] /\ DepsOK
  BY DepFields DEF TypeOK, ThreadsInv
<1>1. /\ dep[d].pc \in {"insert", "start", "build", "provision"}
      /\ ThreadStep(d) /\ row' = row
  BY DEF ThreadStep, Insert, Start, Build, Provision
<1>2. Settled /\ Found(d) BY <1>1 DEF Phase
<1>3. PICK p : Kept(d, p) BY <1>1, ThreadKeeps
<1>4. /\ dep'[d].pc = p /\ dep'[d].kind = dep[d].kind
      /\ dep'[d].target = dep[d].target /\ dep'[d].from = dep[d].from
  BY <1>3 DEF Kept, Moved
<1>5. CASE ~Provision(d)
  <2>1. inst' = inst BY <1>5 DEF Insert, Start, Build
  <2>2. Settled' BY <1>1, <1>2, <2>1 DEF Settled
  <2>3. p \in {"over", "fail"} \/ (p \in {"start", "build", "provision"} /\ Found(d)')
    <3>1. CASE Insert(d)
      <4>1. /\ p \in {"over", "start", "build", "provision"}
            /\ dep[d].kind = "deploy" => p = "start"
        BY <1>0, <1>4, <3>1 DEF Insert, Deployment
      <4>2. QED BY <1>1, <1>2, <1>4, <4>1 DEF Found
    <3>2. CASE Start(d)
      <4>1. p = "fail" \/ (p = "build" /\ ~Protected(d))
        BY <1>0, <1>4, <3>2, KeptBy DEF Start, Kept, Moved
      <4>2. QED BY <1>1, <1>2, <1>4, <4>1 DEF Found, Protected
    <3>3. CASE Build(d)
      <4>1. p = "fail" \/ (p = "provision" /\ dep[d].pc = "build")
        BY <1>0, <1>4, <3>3, KeptBy DEF Build, Kept, Moved
      <4>2. QED BY <1>1, <1>2, <1>4, <4>1 DEF Found
    <3>4. QED BY <1>5, <3>1, <3>2, <3>3
  <2>4. QED BY <1>4, <2>2, <2>3 DEF Advances, Phase
<1>6. CASE Provision(d)
  <2>0. dep[d].pc = "provision" BY <1>6 DEF Provision
  <2>1. CASE Fails(d) /\ inst' = inst
    <3>1. p = "fail" BY <1>0, <1>4, <2>1, KeptBy DEF Kept, Moved
    <3>2. Settled' BY <1>1, <1>2, <2>1 DEF Settled
    <3>3. QED BY <1>4, <3>1, <3>2 DEF Advances, Phase
  <2>2. CASE /\ inst' = [inst EXCEPT ![dep[d].target] = [gen |-> d, health |-> "error"]]
             /\ GoesOn(d, "read")
    <3>1. p = "read" BY <1>0, <1>4, <2>2, KeptBy DEF Kept, Moved
    <3>2. \A i \in Infra : inst'[i].gen = IF i = dep[d].target THEN d ELSE inst[i].gen
      BY <1>0, <2>2
    <3>3. Staged(d)' BY <1>1, <1>2, <1>4, <3>2 DEF Settled, Staged, Infra
    <3>4. Found(d)' BY <1>1, <1>2, <1>4, <2>0, <3>1 DEF Found
    <3>5. QED BY <1>4, <3>1, <3>3, <3>4 DEF Advances, Phase
  <2>3. QED BY <1>6, <2>1, <2>2 DEF Provision
<1>7. QED BY <1>5, <1>6

\* Save: from the instance to the row.
LEMMA SaveSteps ==
  ASSUME TypeOK, ThreadsInv, NEW d \in Dep, Phase(d), SaveRead(d) \/ Save(d)
  PROVE  Advances(d)
<1>0. /\ dep \in [Dep -> Deployment] /\ dep[d].kind \in AnyKind /\ row \in Row
      /\ inst \in [Infra -> Instance] /\ DepsOK /\ RowOK /\ dep[d].target \in Infra
      /\ dep[d].seen \in Row /\ 0 \notin Dep /\ 0 \notin Infra
  BY DepFields, DeploymentAssumption
     DEF TypeOK, ThreadsInv, DepsOK, SaveRead, Save, Dep, Infra
<1>1. /\ dep[d].pc \in {"read", "save"} /\ ThreadStep(d) /\ inst' = inst
  BY DEF ThreadStep, SaveRead, Save
<1>2. Staged(d) /\ Found(d) BY <1>1 DEF Phase
<1>3. PICK p : Kept(d, p) BY <1>1, ThreadKeeps
<1>4. /\ dep'[d].pc = p /\ dep'[d].kind = dep[d].kind
      /\ dep'[d].target = dep[d].target /\ dep'[d].from = dep[d].from
  BY <1>3 DEF Kept, Moved
<1>5. CASE SaveRead(d)
  <2>1. p = "save" /\ dep'[d].seen = row /\ row' = row
    BY <1>0, <1>4, <1>5 DEF SaveRead, Deployment
  <2>2. Staged(d)' BY <1>1, <1>2, <1>4, <2>1 DEF Staged
  <2>3. Found(d)' BY <1>1, <1>2, <1>4, <1>5, <2>1 DEF Found, SaveRead
  <2>4. QED BY <1>4, <2>1, <2>2, <2>3 DEF Advances, Phase
<1>6. CASE Save(d)
  <2>0. dep[d].pc = "save" BY <1>6 DEF Save
  <2>1. /\ dep[d].seen.id = row.id /\ dep[d].seen.infra = row.infra
        /\ dep[d].seen.gen = row.gen
    BY <2>0 DEF Phase
  <2>2. p = "check" /\ row' = IF row.id = 0 THEN Described(d, "starting")
                              ELSE Merge(dep[d].seen, Described(d, "starting"))
    BY <1>0, <1>4, <1>6, <2>1 DEF Save, Deployment
  <2>3. /\ row'.status # "lost" /\ row'.infra = dep[d].target /\ row'.gen = d
    BY <1>2, <2>1, <2>2 DEF Described, Merge, Staged
  <2>4. row.status = "none" \/ dep[d].target = row.infra
          \/ (dep[d].kind = "move" /\ dep[d].from = row.infra)
    <3>1. dep[d].kind # "build" BY <1>0, <2>0 DEF DepsOK
    <3>2. QED BY <1>0, <1>2, <2>0, <3>1 DEF Found, AnyKind
  <2>5. row.status = "none" => row.infra = 0 BY <1>0 DEF RowOK, NoRow
  <2>6. \A i \in Infra :
          IF i = dep[d].target THEN inst[i].gen = d
          ELSE /\ inst[i].gen # d
               /\ inst[i].gen = 0 \/ (dep[d].kind = "move" /\ i = dep[d].from)
    BY <1>0, <1>2, <2>4, <2>5 DEF Staged, Found
  <2>7. Saved(d)' BY <1>1, <1>4, <2>3, <2>6 DEF Saved, Infra
  <2>8. QED BY <1>4, <2>2, <2>7 DEF Advances, Phase
<1>7. QED BY <1>5, <1>6

\* The steps that end in success, or not.
LEMMA LateSteps ==
  ASSUME TypeOK, ThreadsInv, NEW d \in Dep, Phase(d), ~Fault,
         CheckAlive(d) \/ CheckReady(d) \/ Post(d) \/ RunRead(d) \/ Run(d)
  PROVE  Advances(d)
<1>0. /\ dep \in [Dep -> Deployment] /\ dep[d].kind \in AnyKind /\ row \in Row
      /\ inst \in [Infra -> Instance] /\ DepsOK
  BY DepFields DEF TypeOK, ThreadsInv
<1>1. /\ dep[d].pc \in {"check", "ready", "post", "reread", "run"} /\ ThreadStep(d)
      /\ \A i \in Infra : inst'[i].gen = inst[i].gen
  <2>1. CheckReady(d) => \A i \in Infra : inst'[i].gen = inst[i].gen
    BY <1>0 DEF CheckReady, Instance
  <2>2. QED BY <2>1 DEF ThreadStep, CheckAlive, CheckReady, Post, RunRead, Run
<1>2. Saved(d) BY <1>1 DEF Phase
<1>3. PICK p : Kept(d, p) BY <1>1, ThreadKeeps
<1>4. /\ dep'[d].pc = p /\ dep'[d].kind = dep[d].kind
      /\ dep'[d].target = dep[d].target /\ dep'[d].from = dep[d].from
  BY <1>3 DEF Kept, Moved
<1>5. /\ p \in {"ready", "post", "reread", "run", "fail", "decommission", "ok", "rollback"}
      /\ p = "decommission" <=> (Run(d) /\ dep[d].kind = "move" /\ p # "fail")
  <2>1. CASE CheckAlive(d)
    BY <1>0, <1>4, <2>1, KeptBy DEF CheckAlive, CheckFailed, Kept, Moved, Run
  <2>6. CASE CheckReady(d)
    BY <1>0, <1>4, <2>6, KeptBy DEF CheckReady, CheckFailed, Kept, Moved, Run
  <2>2. CASE Post(d) BY <1>0, <1>4, <2>2, KeptBy DEF Post, Kept, Moved, Run
  <2>3. CASE RunRead(d)
    <3>1. CASE row.status = "none"
      BY <1>0, <1>4, <2>3, <3>1, KeptBy DEF RunRead, Kept, Moved, Run
    <3>2. CASE row.status # "none"
      BY <1>0, <1>4, <2>3, <3>2 DEF RunRead, Deployment, Run
    <3>3. QED BY <3>1, <3>2
  <2>4. CASE Run(d)
    <3>1. CASE dep[d].seen.id = row.id BY <1>0, <1>4, <2>4, <3>1 DEF Run, Deployment
    <3>2. CASE dep[d].seen.id # row.id
      BY <1>0, <1>4, <2>4, <3>2, KeptBy DEF Run, Kept, Moved
    <3>3. QED BY <3>1, <3>2
  <2>5. QED BY <2>1, <2>2, <2>3, <2>4, <2>6
<1>6. /\ row'.status # "lost" /\ row'.infra = dep[d].target /\ row'.gen = d
  <2>1. CASE row' = row BY <1>2, <2>1 DEF Saved
  <2>2. CASE row' = Merge(dep[d].seen, Described(d, "running"))
    BY <1>2, <2>2 DEF Saved, Merge, Described
  <2>3. QED BY <2>1, <2>2 DEF CheckAlive, CheckReady, Post, RunRead, Run
<1>7. Saved(d)' BY <1>1, <1>2, <1>4, <1>6 DEF Saved, Infra
<1>8. dep[d].kind # "move" => Settled'
  BY <1>4, <1>7 DEF Saved, Settled
<1>9. p = "ok" => dep[d].kind # "move"
  <2>1. p = "ok" => Run(d)
    <3>1. RunRead(d) => p # "ok"
      <4>1. CASE RunRead(d) /\ row.status # "none"
        BY <1>0, <1>4, <4>1 DEF RunRead, Deployment
      <4>2. CASE RunRead(d) /\ row.status = "none"
        BY <1>0, <1>4, <4>2, KeptBy DEF RunRead, Kept, Moved
      <4>3. QED BY <4>1, <4>2
    <3>2. CheckAlive(d) \/ CheckReady(d) \/ Post(d) => p # "ok"
      BY <1>0, <1>4, KeptBy DEF CheckAlive, CheckReady, CheckFailed, Post, Kept, Moved
    <3>3. QED BY <3>1, <3>2
  <2>2. QED BY <1>5, <2>1
<1>10. QED BY <1>4, <1>5, <1>7, <1>8, <1>9 DEF Advances, Phase

\* The steps after them.
LEMMA LastSteps ==
  ASSUME TypeOK, ThreadsInv, NEW d \in Dep, Phase(d), ~Fault, Calm',
         Rollback(d) \/ Unsave(d) \/ Decommission(d) \/ Finish(d)
  PROVE  Advances(d)
<1>0. /\ dep \in [Dep -> Deployment] /\ inst \in [Infra -> Instance] /\ DepsOK
      /\ NoInstance.gen = 0 /\ 0 \notin Infra
  BY DeploymentAssumption DEF TypeOK, ThreadsInv, NoInstance, Infra
<1>1. ThreadStep(d) BY DEF ThreadStep
<1>3. PICK p : Kept(d, p) BY <1>1, ThreadKeeps
<1>4. /\ dep'[d].pc = p /\ dep'[d].kind = dep[d].kind
      /\ dep'[d].target = dep[d].target /\ dep'[d].from = dep[d].from
  BY <1>3 DEF Kept, Moved
<1>5. CASE Rollback(d)
  <2>1. p = "unsave" /\ Undeploy(dep[d].target) /\ dep[d].pc = "rollback"
    BY <1>0, <1>4, <1>5, KeptBy DEF Rollback, Kept, Moved
  <2>2. dep[d].kind # "move" => Nowhere'
    BY <1>0, <2>1 DEF Phase, Saved, Undeploy, Nowhere, Infra
  <2>3. QED BY <1>4, <2>1, <2>2 DEF Advances, Phase
<1>6. CASE Unsave(d)
  <2>1. p = "fail" /\ row' = NoRow /\ inst' = inst /\ dep[d].pc = "unsave"
    BY <1>0, <1>4, <1>6, KeptBy DEF Unsave, Kept, Moved
  <2>2. dep[d].kind # "move" => Settled'
    BY <1>0, <2>1 DEF Phase, Nowhere, Settled, NoRow
  <2>3. QED BY <1>4, <2>1, <2>2 DEF Advances, Phase
<1>7. CASE Decommission(d)
  <2>1. dep[d].pc = "decommission" /\ dep[d].kind = "move" /\ Saved(d)
    BY <1>7 DEF Decommission, Phase
  <2>2. CASE p = "fail" BY <1>4, <2>1, <2>2 DEF Advances, Phase
  <2>3. CASE p # "fail"
    <3>1. ~Fails(d) BY <1>0, <1>4, <2>3, KeptBy DEF Kept, Moved
    <3>2. p = "ok" /\ Undeploy(dep[d].from) /\ row' = row
      BY <1>0, <1>4, <1>7, <2>1, <3>1, KeptBy DEF Decommission, Kept, Moved, Saved
    <3>3. dep[d].from # dep[d].target BY <1>0, <2>1 DEF DepsOK
    <3>4. Settled'
      BY <1>0, <2>1, <3>2, <3>3 DEF Saved, Settled, Undeploy, Infra
    <3>5. QED BY <1>4, <3>2, <3>4 DEF Advances, Phase
  <2>4. QED BY <2>2, <2>3
<1>8. CASE Finish(d)
  <2>1. /\ p = "over" /\ row' = row /\ inst' = inst /\ dep[d].pc \in {"ok", "fail"}
        /\ dep[d].pc = "fail" => dep'[d].status = "failed"
    BY <1>0, <1>4, <1>8 DEF Finish, Deployment
  <2>2. dep[d].pc = "fail" => dep[d].kind # "move"
    BY <1>4, <2>1 DEF Calm, Replaces, Dep
  <2>3. Settled BY <2>1, <2>2 DEF Phase
  <2>4. Settled' BY <2>1, <2>3 DEF Settled
  <2>5. QED BY <1>4, <2>1, <2>4 DEF Advances
<1>9. QED BY <1>5, <1>6, <1>7, <1>8

\* While it is calm whoever works is alone.
LEMMA CalmIsAlone ==
  ASSUME OverlapOK, overlap = {}, NEW d \in Dep, Working(d)
  PROVE  del.pc = "idle" /\ \A e \in Dep : Working(e) => e = d
  BY DEF OverlapOK

\* A step of a thread.
LEMMA InPlaceThread ==
  ASSUME TypeOK, ThreadsInv, InPlace, Calm, Calm', ~Fault,
         NEW d \in Dep, ThreadStep(d)
  PROVE  InPlace'
<1>1. /\ Working(d) /\ del' = del /\ Phase(d)
      /\ \A e \in Dep : e # d => dep'[e] = dep[e]
  BY ThreadKeeps DEF Kept, Moved, InPlace
<1>2. del.pc = "idle" /\ \A e \in Dep : Working(e) => e = d
  BY <1>1, CalmIsAlone DEF ThreadsInv, Calm
<1>3. dep'[d].pc \notin {"unused", "insert", "dead"}
  BY ThreadKeeps DEF Kept, Moved
<1>4. Advances(d)
  BY <1>1, EarlySteps, SaveSteps, LateSteps, LastSteps DEF ThreadStep
<1>5. \A e \in Dep : e # d => ~Working(e)'
  BY <1>1, <1>2 DEF Working
<1>6. Quiet' => dep'[d].pc = "over" BY <1>3 DEF Quiet, Working, Dep
<1>7. Working(d)' => dep'[d].pc # "over" BY DEF Working
<1>8. QED
  BY <1>1, <1>2, <1>4, <1>5, <1>6, <1>7 DEF InPlace, Advances, Dep

\* A request of a deployment.
LEMMA InPlaceRequest ==
  ASSUME TypeOK, ThreadsInv, InPlace, Calm, Calm', NEW u, New(u), Requested(u)
  PROVE  InPlace'
<1>0. DepsOK /\ RowOK /\ ndep \in Nat BY DEF ThreadsInv, TypeOK
<1>n. PICK n \in Dep : n = ndep + 1 BY <1>0, RequestKeeps
<1>1. /\ dep'[n] = u /\ \A e \in Dep : e # n => dep'[e] = dep[e]
      /\ UNCHANGED <<row, inst, del>>
  BY <1>0, <1>n, RequestKeeps
<1>2. del.pc = "idle" /\ \A e \in Dep : ~Working(e)
  BY DEF Requested, Calm
<1>3. Settled BY <1>2 DEF InPlace, Quiet
<1>4. Settled' BY <1>1, <1>3 DEF Settled
<1>5. u.pc = "insert" /\ u.status = "none" BY DEF New
<1>6. Found(n)'
  <2>1. row.gen # n
    <3>1. row.status = "none" => row.gen = 0 BY <1>0 DEF RowOK, NoRow
    <3>2. row.status # "none" => row.gen \in Nat /\ row.gen <= ndep
      BY <1>0 DEF RowOK, Dep
    <3>3. QED BY <1>0, <1>n, <3>1, <3>2
  <2>2. u.kind = "force" => row.status = "none"
    <3> SUFFICES ASSUME u.kind = "force", row.status # "none" PROVE FALSE OBVIOUS
    <3>1. row.id \in Dep /\ dep[row.id].status # "none" BY <1>0 DEF RowOK
    <3>2. row.id <= ndep BY <1>0, <3>1 DEF DepsOK
    <3>3. row.id < n /\ dep'[row.id].status # "none"
      BY <1>0, <1>n, <1>1, <3>1, <3>2 DEF Dep
    <3>4. Replaces(n)' BY <1>1, <3>1, <3>3 DEF Replaces, Dep
    <3>5. QED BY <1>1, <3>4 DEF Calm, Dep
  <2>3. QED BY <1>1, <1>5, <2>1, <2>2 DEF Found, New
<1>7. Phase(n)' BY <1>1, <1>4, <1>5, <1>6 DEF Phase
<1>8. \A e \in Dep : Working(e)' => e = n BY <1>1, <1>2 DEF Working
<1>9. QED BY <1>1, <1>2, <1>4, <1>7, <1>8 DEF InPlace, Dep

\* A deletion, from its request to its end.
LEMMA InPlaceDelete ==
  ASSUME TypeOK, ThreadsInv, InPlace, Calm, Calm', ~Fault, RequestDelete \/ DeleteStep
  PROVE  InPlace'
<1>0. inst \in [Infra -> Instance] /\ NoInstance.gen = 0 /\ 0 \notin Infra /\ del \in Delete
  BY DEF TypeOK, NoInstance, Infra
<1>1. dep' = dep /\ \A d \in Dep : ~Working(d)
  <2>1. RequestDelete => \A d \in Dep : ~Working(d) BY DEF RequestDelete, Calm
  <2>2. DeleteStep => del.pc # "idle"
    BY DEF DeleteStep, DeleteInstance, DeleteToTrash, DeleteModel
  <2>3. DeleteStep => \A d \in Dep : ~Working(d)
    BY <2>2, CalmIsAlone DEF ThreadsInv, Calm
  <2>4. QED
    BY <2>1, <2>3 DEF RequestDelete, DeleteStep, DeleteInstance, DeleteToTrash,
       DeleteModel
<1>2. \A d \in Dep : ~Working(d)' BY <1>1 DEF Working
<1>3. CASE RequestDelete
  <2>1. Settled BY <1>1, <1>3 DEF InPlace, Quiet, RequestDelete
  <2>2. del'.pc = "infra" /\ del'.job = row /\ UNCHANGED <<row, inst>>
    BY <1>3, <2>1 DEF RequestDelete, Settled
  <2>3. Settled' BY <2>1, <2>2 DEF Settled
  <2>4. QED BY <1>2, <2>2, <2>3 DEF InPlace, Quiet, Dep
<1>4. CASE DeleteInstance
  <2>1. Settled /\ del.job.infra = row.infra BY <1>4 DEF DeleteInstance, InPlace
  <2>2. Undeploy(del.job.infra) /\ del' = [del EXCEPT !.pc = "trash"]
    BY <1>4 DEF DeleteInstance
  <2>3. del'.pc = "trash" BY <1>0, <2>2 DEF Delete
  <2>4. Nowhere' BY <1>0, <2>1, <2>2 DEF Settled, Undeploy, Nowhere, Infra
  <2>5. QED BY <1>2, <2>3, <2>4 DEF InPlace, Quiet, Dep
<1>5. CASE DeleteToTrash
  <2>1. Nowhere BY <1>5 DEF DeleteToTrash, InPlace
  <2>2. del'.pc = "model" /\ inst' = inst BY <1>0, <1>5 DEF DeleteToTrash, Delete
  <2>3. Nowhere' BY <2>1, <2>2 DEF Nowhere
  <2>4. QED BY <1>2, <2>2, <2>3 DEF InPlace, Quiet, Dep
<1>6. CASE DeleteModel
  <2>1. Nowhere BY <1>6 DEF DeleteModel, InPlace
  <2>2. row' = NoRow /\ inst' = inst /\ del'.pc = "idle"
    BY <1>6 DEF DeleteModel, NoDelete
  <2>3. Settled' BY <1>0, <2>1, <2>2 DEF Nowhere, Settled, NoRow
  <2>4. QED BY <1>2, <2>2, <2>3 DEF InPlace, Dep
<1>7. QED BY <1>3, <1>4, <1>5, <1>6 DEF DeleteStep

\* The Supervisor's write.
LEMMA InPlaceSync ==
  ASSUME TypeOK, Keyed, ThreadsInv, InPlace, Calm, Calm', SyncWrite
  PROVE  InPlace'
<1>0. DepsOK /\ RowOK /\ SyncOK BY DEF ThreadsInv
<1>1. UNCHANGED <<inst, dep, del>> BY DEF SyncWrite
<1>2. CASE Located
  <2>1. SamePlace BY <1>0, <1>2, SyncPlace DEF Calm
  <2>2. QED BY <1>1, <2>1, StillThere
<1>3. CASE ~Located
  <2>1. ~Settled BY <1>0, <1>3, LocatedWhen
  <2>2. ASSUME NEW d \in Dep, Working(d) PROVE Phase(d)'
    <3>1. Phase(d) BY <2>2 DEF InPlace
    <3>2. ~(Staged(d) /\ Found(d)) /\ ~Saved(d) BY <1>0, <1>3, <2>2, LocatedWhen
    <3>3. dep[d].pc \in {"rollback", "unsave", "fail"}
      BY <2>1, <2>2, <3>1, <3>2, DepFields DEF TypeOK, Phase, Working, DepPC
    <3>4. Nowhere => Nowhere' BY <1>1 DEF Nowhere
    <3>5. QED BY <1>1, <2>1, <3>1, <3>2, <3>3, <3>4 DEF Phase
  <2>3. \A d \in Dep : Working(d)' => Working(d) BY <1>1 DEF Working
  <2>4. del.pc # "infra" /\ ~Quiet BY <2>1 DEF InPlace
  <2>5. ~Quiet' BY <1>1, <2>4 DEF Quiet, Working
  <2>6. Nowhere => Nowhere' BY <1>1 DEF Nowhere
  <2>7. QED BY <1>1, <2>2, <2>3, <2>4, <2>5, <2>6 DEF InPlace, Dep
<1>4. QED BY <1>2, <1>3

\* Steps that change neither row nor instances, or only the manifest.
LEMMA InPlaceRest ==
  ASSUME TypeOK, ThreadsInv, InPlace, Calm', ~Fault, Aside,
         ~RequestDelete, ~DeleteStep, ~SyncWrite
  PROVE  InPlace'
<1>0. dep \in [Dep -> Deployment] /\ row \in Row BY DEF TypeOK
<1>1. SamePlace /\ del' = del
  <2>1. EditManifest => SamePlace /\ del' = del
    BY <1>0 DEF EditManifest, SamePlace, Row
  <2>2. \/ EditManifest
        \/ UNCHANGED <<row, inst, del>>
    BY DEF Aside, Slow, SyncStart, SyncStep, SyncList, SyncRegistry, SyncRead, Crash,
       StartupCheck, Lose
  <2>3. QED BY <2>1, <2>2 DEF SamePlace
<1>2. \A e \in Dep : dep'[e].pc = dep[e].pc
  <2>1. \A d \in Dep : Slow(d) => \A e \in Dep : dep'[e].pc = dep[e].pc
    BY <1>0 DEF Slow, Deployment
  <2>2. (\E d \in Dep : Slow(d)) \/ dep' = dep
    BY DEF Aside, EditManifest, SyncStart, SyncStep, SyncList, SyncRegistry, SyncRead,
       Crash, StartupCheck, Lose
  <2>3. QED BY <2>1, <2>2
<1>3. \A e \in Dep : /\ dep'[e].kind = dep[e].kind /\ dep'[e].target = dep[e].target
                     /\ dep'[e].from = dep[e].from
                     /\ dep'[e].pc = "save" => dep'[e].seen = dep[e].seen
  BY AsideKeeps
<1>4. QED BY <1>1, <1>2, <1>3, StillThere

\* Every step keeps PlacesInv.
LEMMA PlacesNext ==
  ASSUME TypeOK, Keyed, ThreadsInv, PlacesInv, [Next]_vars
  PROVE  PlacesInv'
<1> SUFFICES ASSUME Calm' PROVE InPlace' BY DEF PlacesInv, InPlace
<1>1. CASE Next
  <2>1. Calm /\ ~Fault BY <1>1, CalmBefore
  <2>2. InPlace BY <2>1 DEF PlacesInv, InPlace
  <2>3. QED
    BY <1>1, <2>1, <2>2, InPlaceThread, InPlaceRequest, InPlaceDelete, InPlaceSync,
       InPlaceRest, OtherSteps
<1>2. CASE UNCHANGED vars
  <2>1. Calm BY <1>2 DEF vars, Calm, Replaces
  <2>2. InPlace BY <2>1 DEF PlacesInv, InPlace
  <2>3. SamePlace /\ del' = del /\ dep' = dep BY <1>2 DEF vars, SamePlace
  <2>4. QED BY <2>2, <2>3, StillThere
<1>3. QED BY <1>1, <1>2

\* When every request has been dealt with, the job runs where its row says, as
\* the deployment its row names, and nowhere else, but for the causes that
\* AtOddsHasCause names: for any number of targets, deployments, deletions and
\* passes of sync_registry_jobs.
THEOREM OddsAreCaused == Spec => []AtOddsHasCause
<1>1. Init => TypeOK /\ Keyed /\ ThreadsInv BY TypeInit, KeyedInit, ThreadsInit
<1>2. Init => PlacesInv
  <2> SUFFICES ASSUME Init PROVE InPlace BY DEF PlacesInv, InPlace
  <2>1. Settled
    BY DeploymentAssumption DEF Init, Settled, NoRow, NoInstance, Infra
  <2>2. \A d \in Dep : ~Working(d) BY DEF Init, Working, Unused
  <2>3. QED BY <2>1, <2>2 DEF Init, InPlace, NoDelete
<1>3. TypeOK /\ Keyed /\ ThreadsInv /\ PlacesInv /\ [Next]_vars
        => (TypeOK /\ Keyed /\ ThreadsInv /\ PlacesInv)'
  BY TypeNext, KeyedNext, ThreadsNext, PlacesNext
<1>4. PlacesInv => AtOddsHasCause
  BY DEF PlacesInv, AtOddsHasCause, Calm, Settled
<1>5. QED BY <1>1, <1>2, <1>3, <1>4, PTL DEF Spec

=============================================================================
