-------------------------- MODULE OwnershipProofs --------------------------
(***************************************************************************)
(* The proof that LoadBalancers implements Ownership, for any number of    *)
(* Services and Load Balancers, when operations on a Service do not        *)
(* overlap and no two Services may use the same name.                      *)
(***************************************************************************)
EXTENDS LoadBalancersProofs

\* An operation is under way only for a Service that exists, and one of the
\* deletion only while the Service is being deleted; what it is about to delete
\* carried the label when it was read.
PhaseInv ==
    /\ \A s \in Services, k \in Kinds : ~Idle(s, k) => phase[s] \in {"live", "deleting"}
    /\ \A s \in Services :
          worker[s]["service"].pc \in {"get", "lookup", "delete", "release"} =>
              phase[s] = "deleting"
    /\ \A s \in Services :
          worker[s]["service"].pc = "delete" => worker[s]["service"].luid = s

\* Only Load Balancers that exist carry a label.
LabelInv == \A l \in LBs : ~Present(l) => cloud[l].uid = None

RInv == IInv /\ PhaseInv /\ LabelInv

----------------------------------------------------------------------------
(* The labels.                                                             *)

\* The project after l was given a new record.
LEMMA OneLB ==
    ASSUME TypeOK, LabelInv, NEW l \in LBs, NEW r, cloud' = [cloud EXCEPT ![l] = r],
           r.st = "present" \/ r.uid = None
    PROVE  LabelInv'
<1>1. \A m \in LBs : cloud'[m] = IF m = l THEN r ELSE cloud[m]
  BY DEF TypeOK
<1>2. QED
  BY <1>1 DEF LabelInv, Present

LEMMA InfoLabels ==
    ASSUME IInv, LabelInv, NEW s \in Services, NEW k \in Kinds, changeHCLBInfo(s, k)
    PROVE  LabelInv'
<1> DEFINE w == worker[s][k]
<1>1. CASE cloud' = cloud
  BY <1>1 DEF LabelInv, Present
<1>2. ASSUME NEW u, NEW n, Present(w.lb),
             cloud' = [cloud EXCEPT ![w.lb].uid = u, ![w.lb].name = n]
      PROVE  LabelInv'
  <2>1. cloud \in [LBs -> LBRecord] /\ w.lb \in LBs
    BY DEF changeHCLBInfo, At, IInv, TypeOK
  <2>2. /\ cloud'[w.lb] = [cloud[w.lb] EXCEPT !.uid = u, !.name = n]
        /\ \A m \in LBs \ {w.lb} : cloud'[m] = cloud[m]
    BY <1>2, <2>1
  <2>3. cloud[w.lb] \in LBRecord /\ cloud[w.lb].st = "present"
    BY <1>2, <2>1 DEF Present
  <2>4. cloud'[w.lb].st = "present"
    BY <2>2, <2>3 DEF LBRecord
  <2>5. QED
    BY <2>2, <2>4 DEF LabelInv, Present
<1>3. QED
  BY <1>1, <1>2 DEF changeHCLBInfo

LEMMA LabelStep ==
    ASSUME IInv, LabelInv, [Next]_vars
    PROVE  LabelInv'
<1>0. TypeOK /\ cloud \in [LBs -> LBRecord]
  BY DEF IInv, TypeOK
<1>1. CASE cloud' = cloud
  BY <1>1 DEF LabelInv, Present
<1>2. ASSUME NEW s \in Services, NEW k \in Kinds, Create(s, k)
      PROVE  LabelInv'
  <2>1. ASSUME NEW l \in LBs, NEW n, cloud' = [cloud EXCEPT ![l] = NewLB(s, n)]
        PROVE  LabelInv'
    <3>1. NewLB(s, n).st = "present"
      BY DEF NewLB
    <3>2. QED
      BY <1>0, <2>1, <3>1, OneLB
  <2>2. QED
    BY <1>1, <1>2, <2>1 DEF Create
<1>3. ASSUME NEW s \in Services, Delete(s)
      PROVE  LabelInv'
  <2>1. [Unused EXCEPT !.st = "deleted"].uid = None
    BY DEF Unused
  <2>2. worker[s]["service"].lb \in LBs
    BY <1>3 DEF Delete, At, IInv, TypeOK, Kinds
  <2>3. QED
    BY <1>0, <1>1, <1>3, <2>1, <2>2, OneLB DEF Delete
<1>4. ASSUME NEW l \in LBs, NEW n, ImportLB(l, n)
      PROVE  LabelInv'
  <2>1. [Unused EXCEPT !.st = "present", !.name = n].uid = None
    BY DEF Unused
  <2>2. QED
    BY <1>0, <1>4, <2>1, OneLB DEF ImportLB
<1>5. ASSUME NEW l \in LBs, ToggleProtection(l)
      PROVE  LabelInv'
  <2>1. cloud[l] \in LBRecord
    BY <1>0
  <2>2. \A m \in LBs : cloud'[m].st = cloud[m].st /\ cloud'[m].uid = cloud[m].uid
    BY <1>0, <1>5, <2>1 DEF ToggleProtection, LBRecord
  <2>3. QED
    BY <2>2 DEF LabelInv, Present
<1>6. CASE User
  BY <1>1, <1>4, <1>5, <1>6 DEF User, CreateService, EditAnnotations, DeleteService
<1>7. ASSUME NEW s \in Services, NEW k \in Kinds, WorkerStep(s, k) \/ CallFails(s, k)
      PROVE  LabelInv'
  BY <1>1, <1>2, <1>7, InfoLabels
  DEF WorkerStep, CallFails, GetByK8SServiceUID, GetByName, FinishPass
<1>8. ASSUME NEW s \in Services,
             StartEnsure(s) \/ StartUpdate(s) \/ StartDelete(s) \/ DeleteStep(s)
      PROVE  LabelInv'
  BY <1>1, <1>3, <1>8
  DEF StartEnsure, StartUpdate, StartDelete, DeleteStep, GetLoadBalancer, deleteLoadBalancer,
      Release
<1>9. CASE Restart
  BY <1>1, <1>9 DEF Restart
<1>10. CASE UNCHANGED vars
  BY <1>1, <1>10 DEF vars
<1>11. QED
  BY <1>6, <1>7, <1>8, <1>9, <1>10 DEF Next

----------------------------------------------------------------------------
(* Operations and phases.                                                  *)

\* An operation moves on to w, and the Services stay as they are.
LEMMA OneWorker ==
    ASSUME TypeOK, PhaseInv, NEW s \in Services, NEW k \in Kinds, NEW w,
           worker' = [worker EXCEPT ![s][k] = w], UNCHANGED phase,
           w.pc # "idle" => phase[s] \in {"live", "deleting"},
           w.pc \in {"get", "lookup", "delete", "release"} => phase[s] = "deleting",
           w.pc = "delete" => w.luid = s
    PROVE  PhaseInv'
<1>1. \A t \in Services, j \in Kinds :
          worker'[t][j] = IF t = s /\ j = k THEN w ELSE worker[t][j]
  BY DEF TypeOK
<1>2. "service" \in Kinds
  BY DEF Kinds
<1>3. QED
  BY <1>1, <1>2 DEF PhaseInv, Idle

\* An operation ends.
LEMMA EndPhase ==
    ASSUME TypeOK, PhaseInv, NEW s \in Services, NEW k \in Kinds, UNCHANGED phase,
           worker' = [worker EXCEPT ![s][k] = IdleWorker]
    PROVE  PhaseInv'
<1>1. IdleWorker.pc = "idle"
  BY DEF IdleWorker
<1>2. QED
  BY <1>1, OneWorker

\* An operation of Ensure or Update moves on.
LEMMA PassPhase ==
    ASSUME TypeOK, cloud' \in [LBs -> LBRecord], PhaseInv, NEW s \in Services, NEW k \in Kinds,
           ~Idle(s, k), UNCHANGED phase,
           NEW pc \in {"name", "create", "info", "rest"},
           Goto(s, k, pc) \/ \E l \in LBs : Hold(s, k, l, pc)
    PROVE  PhaseInv'
<1>1. pc \in PCs
  BY DEF PCs
<1>2. PICK w \in WorkerRecord : w.pc = pc /\ worker' = [worker EXCEPT ![s][k] = w]
  BY <1>1, GotoType, HoldType
<1>3. phase[s] \in {"live", "deleting"}
  BY DEF PhaseInv
<1>4. QED
  BY <1>2, <1>3, OneWorker

\* The finalizer goes at the end of the only operation on the Service.
LEMMA ReleasePhase ==
    ASSUME IInv, PhaseInv, NEW s \in Services, ~Idle(s, "service"), Release(s)
    PROVE  PhaseInv'
<1>0. TypeOK /\ "service" \in Kinds /\ "node" \in Kinds /\ Kinds = {"service", "node"}
  BY DEF IInv, Kinds
<1>1. worker[s]["node"].pc = "idle"
  BY <1>0 DEF IInv, SerialInv, Idle
<1>2. /\ \A t \in Services \ {s} : worker'[t] = worker[t] /\ phase'[t] = phase[t]
      /\ \A k \in Kinds : worker'[s][k].pc = "idle"
  BY <1>0, <1>1 DEF Release, Return, Proceed, TypeOK, IdleWorker
<1>3. QED
  BY <1>0, <1>2 DEF PhaseInv, Idle

LEMMA WorkerPhase ==
    ASSUME IInv, TypeOK', PhaseInv, NEW s \in Services, NEW k \in Kinds,
           WorkerStep(s, k) \/ CallFails(s, k)
    PROVE  PhaseInv'
<1>0. /\ TypeOK /\ cloud' \in [LBs -> LBRecord] /\ ~Idle(s, k) /\ UNCHANGED phase
      /\ worker[s][k].pc = "info" => worker[s][k].lb \in LBs
  BY DEF IInv, TypeOK, WorkerStep, CallFails, GetByK8SServiceUID, GetByName, Create,
         changeHCLBInfo, FinishPass, At, Idle
<1>1. CASE Abort(s, k) \/ Fault(s, k) \/ Return(s, k)
  <2>1. worker' = [worker EXCEPT ![s][k] = IdleWorker]
    BY <1>1 DEF Abort, Fault, Return, Proceed
  <2>2. QED
    BY <1>0, <2>1, EndPhase
<1>2. CASE \E pc \in {"name", "create", "info", "rest"} :
              Goto(s, k, pc) \/ \E l \in LBs : Hold(s, k, l, pc)
  BY <1>0, <1>2, PassPhase
<1>3. CASE GetByK8SServiceUID(s, k)
  BY <1>1, <1>2, <1>3 DEF GetByK8SServiceUID
<1>4. CASE GetByName(s, k)
  BY <1>1, <1>2, <1>4 DEF GetByName, Named
<1>5. CASE Create(s, k)
  BY <1>1, <1>2, <1>5 DEF Create
<1>6. CASE changeHCLBInfo(s, k)
  BY <1>0, <1>1, <1>2, <1>6 DEF changeHCLBInfo, At
<1>7. CASE FinishPass(s, k)
  BY <1>1, <1>7 DEF FinishPass
<1>8. CASE CallFails(s, k)
  BY <1>1, <1>8 DEF CallFails
<1>9. QED
  BY <1>3, <1>4, <1>5, <1>6, <1>7, <1>8 DEF WorkerStep

LEMMA DeletePhase ==
    ASSUME IInv, TypeOK', PhaseInv, NEW s \in Services, DeleteStep(s)
    PROVE  PhaseInv'
<1>0. /\ TypeOK /\ cloud' \in [LBs -> LBRecord] /\ ~Idle(s, "service")
      /\ "service" \in Kinds /\ phase[s] = "deleting"
  BY DEF IInv, TypeOK, DeleteStep, GetLoadBalancer, deleteLoadBalancer, Delete, Release, At,
         Idle, Kinds, PhaseInv
<1>1. ASSUME UNCHANGED phase, Abort(s, "service") \/ Fault(s, "service")
      PROVE  PhaseInv'
  <2>1. worker' = [worker EXCEPT ![s]["service"] = IdleWorker]
    BY <1>1 DEF Abort, Fault
  <2>2. QED
    BY <1>0, <1>1, <2>1, EndPhase
<1>2. ASSUME Release(s)
      PROVE  PhaseInv'
  BY <1>0, <1>2, ReleasePhase
<1>3. ASSUME UNCHANGED phase, NEW pc \in {"lookup", "release"}, Goto(s, "service", pc)
      PROVE  PhaseInv'
  <2>1. PICK w \in WorkerRecord :
            w.pc = pc /\ worker' = [worker EXCEPT ![s]["service"] = w]
    BY <1>0, <1>3, GotoType DEF PCs
  <2>2. QED
    BY <1>0, <1>3, <2>1, OneWorker
<1>4. ASSUME UNCHANGED <<phase, cloud>>, NEW l \in LBs, Labelled(s) = {l},
             Hold(s, "service", l, "delete")
      PROVE  PhaseInv'
  <2>1. PICK w \in WorkerRecord : /\ w.pc = "delete" /\ w.luid = cloud'[l].uid
                                 /\ worker' = [worker EXCEPT ![s]["service"] = w]
    BY <1>0, <1>4, HoldType DEF PCs
  <2>2. cloud'[l].uid = s
    BY <1>4 DEF Labelled
  <2>3. QED
    BY <1>0, <1>4, <2>1, <2>2, OneWorker
<1>5. CASE GetLoadBalancer(s)
  BY <1>1, <1>3, <1>5 DEF GetLoadBalancer, LetGo
<1>6. CASE deleteLoadBalancer(s)
  BY <1>1, <1>3, <1>4, <1>6 DEF deleteLoadBalancer, IgnoreProtected, LetGo
<1>7. CASE Delete(s)
  BY <1>1, <1>3, <1>7 DEF Delete, LetGo
<1>8. QED
  BY <1>2, <1>5, <1>6, <1>7 DEF DeleteStep

LEMMA StartPhase ==
    ASSUME IInv, PhaseInv, NEW s \in Services,
           StartEnsure(s) \/ StartUpdate(s) \/ StartDelete(s)
    PROVE  PhaseInv'
<1>0. TypeOK /\ UNCHANGED phase
  BY DEF IInv, StartEnsure, StartUpdate, StartDelete
<1>1. ASSUME NEW k \in Kinds, NEW pc, Start(s, k, pc), phase[s] \in {"live", "deleting"},
             pc = "get" => phase[s] = "deleting", pc \in {"uid", "get"}
      PROVE  PhaseInv'
  <2> DEFINE w == [IdleWorker EXCEPT !.pc = pc, !.annot = annot[s], !.bad = bad[s]]
  <2>1. w.pc = pc /\ worker' = [worker EXCEPT ![s][k] = w]
    BY <1>1 DEF Start, IdleWorker
  <2> HIDE DEF w
  <2>2. QED
    BY <1>0, <1>1, <2>1, OneWorker
<1>2. QED
  BY <1>1 DEF StartEnsure, StartUpdate, StartDelete, Kinds

LEMMA UserPhase ==
    ASSUME IInv, PhaseInv, User
    PROVE  PhaseInv'
<1>0. UNCHANGED worker /\ phase \in [Services -> Phases]
  BY DEF User, CreateService, EditAnnotations, DeleteService, ToggleProtection, ImportLB,
         IInv, TypeOK
<1>1. CASE UNCHANGED phase
  BY <1>0, <1>1 DEF PhaseInv, Idle
<1>2. ASSUME NEW s \in Services, NEW q \in {"absent", "live"}, phase[s] = q,
             phase' = [phase EXCEPT ![s] = IF q = "absent" THEN "live" ELSE "deleting"]
      PROVE  PhaseInv'
  <2>1. /\ \A t \in Services : t # s => phase'[t] = phase[t]
        /\ phase'[s] \in {"live", "deleting"} /\ (phase[s] = "live" => phase'[s] = "deleting")
    BY <1>0, <1>2
  <2>2. "service" \in Kinds /\ phase[s] # "deleting"
    BY <1>2 DEF Kinds
  <2>3. QED
    BY <1>0, <2>1, <2>2 DEF PhaseInv, Idle
<1>3. QED
  BY <1>1, <1>2 DEF User, CreateService, EditAnnotations, DeleteService, ToggleProtection, ImportLB

LEMMA NextRInv ==
    ASSUME Serialised, NamesNotShared
    PROVE  RInv /\ [Next]_vars => RInv'
<1> SUFFICES ASSUME RInv, [Next]_vars PROVE RInv'
  OBVIOUS
<1>1. IInv /\ PhaseInv /\ IInv' /\ LabelInv'
  BY NextInv, LabelStep DEF RInv
<1>2. TypeOK'
  BY <1>1 DEF IInv
<1>3. CASE UNCHANGED vars
  <2>1. UNCHANGED <<phase, worker>>
    BY <1>3 DEF vars
  <2>2. QED
    BY <1>1, <2>1 DEF RInv, PhaseInv, Idle
<1>4. CASE Restart
  <2>1. \A s \in Services, k \in Kinds : worker'[s][k] = IdleWorker
    BY <1>4 DEF Restart
  <2>2. PhaseInv'
    BY <2>1 DEF PhaseInv, Idle, IdleWorker, Kinds
  <2>3. QED
    BY <1>1, <2>2 DEF RInv
<1>5. CASE Next /\ ~Restart
  <2>1. PhaseInv'
    BY <1>1, <1>2, <1>5, WorkerPhase, DeletePhase, StartPhase, UserPhase DEF Next
  <2>2. QED
    BY <1>1, <2>1 DEF RInv
<1>6. QED
  BY <1>3, <1>4, <1>5

LEMMA InitRInv == Init => RInv
<1> SUFFICES ASSUME Init PROVE RInv
  OBVIOUS
<1>1. PhaseInv
  BY DEF Init, PhaseInv, Idle, IdleWorker, Kinds
<1>2. LabelInv
  BY DEF Init, LabelInv, Unused
<1>3. QED
  BY <1>1, <1>2, InitInv DEF RInv

----------------------------------------------------------------------------
(* Every step is a step of Ownership, or changes nothing of it.            *)

\* What two states must have in common to look the same.
Unmoved == \A s \in Services : Standing(s)' = Standing(s)

LEMMA Stutter ==
    ASSUME Unmoved, UNCHANGED cloud
    PROVE  UNCHANGED Promised!vars
BY DEF Unmoved, Promised!vars

LEMMA SameWorkers ==
    ASSUME UNCHANGED <<phase, worker>>
    PROVE  Unmoved
BY DEF Unmoved, Standing, Releasing, At

\* An operation of s moves on to w.
LEMMA OneStanding ==
    ASSUME TypeOK, NEW s \in Services, NEW k \in Kinds, NEW w, UNCHANGED phase,
           worker' = [worker EXCEPT ![s][k] = w]
    PROVE  /\ \A t \in Services \ {s} : Standing(t)' = Standing(t)
           /\ k # "service" => Unmoved
           /\ Standing(s)' = IF k = "service" /\ w.pc = "release" THEN "leaving"
                             ELSE IF k = "service" THEN phase[s] ELSE Standing(s)
           /\ k = "service" /\ w.pc # "release" /\ ~Releasing(s) => Unmoved
<1>1. "service" \in Kinds
  BY DEF Kinds
<1>2. \A t \in Services : worker'[t]["service"]
                            = IF t = s /\ k = "service" THEN w ELSE worker[t]["service"]
  BY <1>1 DEF TypeOK
<1>3. QED
  BY <1>2 DEF Unmoved, Standing, Releasing, At

\* A Service whose finalizer is about to go has no other operation.
LEMMA BusyStanding ==
    ASSUME RInv, NEW s \in Services, NEW k \in Kinds, ~Idle(s, k), worker[s][k].pc # "release"
    PROVE  ~Releasing(s) /\ Standing(s) = phase[s] /\ phase[s] \in {"live", "deleting"}
<1>1. "service" \in Kinds /\ (Releasing(s) => ~Idle(s, "service"))
  BY DEF Kinds, Idle, Releasing, At
<1>2. ~Releasing(s)
  BY <1>1 DEF RInv, IInv, SerialInv, Idle, Releasing, At
<1>3. QED
  BY <1>2 DEF RInv, PhaseInv, Standing

LEMMA LeavingIsDeleting ==
    ASSUME RInv, NEW s \in Services, Releasing(s)
    PROVE  phase[s] = "deleting" /\ Standing(s) = "leaving"
BY DEF RInv, PhaseInv, Releasing, At, Standing

LEMMA WorkerStanding ==
    ASSUME RInv, TypeOK', NEW s \in Services, NEW k \in Kinds, WorkerStep(s, k)
    PROVE  Unmoved /\ Standing(s) \in {"live", "deleting"}
<1>0. /\ TypeOK /\ cloud' \in [LBs -> LBRecord] /\ ~Idle(s, k) /\ UNCHANGED phase
      /\ worker[s][k].pc = "info" => worker[s][k].lb \in LBs
      /\ worker[s][k].pc # "release"
  BY DEF RInv, IInv, TypeOK, WorkerStep, GetByK8SServiceUID, GetByName, Create,
         changeHCLBInfo, FinishPass, At, Idle
<1>1. ASSUME NEW w, w.pc # "release", worker' = [worker EXCEPT ![s][k] = w]
      PROVE  Unmoved
  BY <1>0, <1>1, BusyStanding, OneStanding
<1>2. ASSUME Abort(s, k) \/ Fault(s, k) \/ Return(s, k)
      PROVE  Unmoved
  <2>1. worker' = [worker EXCEPT ![s][k] = IdleWorker] /\ IdleWorker.pc # "release"
    BY <1>2 DEF Abort, Fault, Return, Proceed, IdleWorker
  <2>2. QED
    BY <1>1, <2>1
<1>3. ASSUME NEW pc \in {"name", "create", "info", "rest"},
             Goto(s, k, pc) \/ \E l \in LBs : Hold(s, k, l, pc)
      PROVE  Unmoved
  <2>1. pc \in PCs /\ pc # "release"
    BY DEF PCs
  <2>2. PICK w \in WorkerRecord : w.pc = pc /\ worker' = [worker EXCEPT ![s][k] = w]
    BY <1>0, <1>3, <2>1, GotoType, HoldType
  <2>3. QED
    BY <1>1, <2>1, <2>2
<1>4. Unmoved
  BY <1>0, <1>2, <1>3
  DEF WorkerStep, GetByK8SServiceUID, GetByName, Named, Create, changeHCLBInfo, At, FinishPass
<1>5. QED
  BY <1>0, <1>4, BusyStanding

\* The Service owns what carries its label.
LEMMA OwnedIsLabelled ==
    ASSUME LabelInv, NEW s \in Services
    PROVE  Promised!Owned(s) = LabelledIn(cloud, s)
BY LoadBalancersAssumption
DEF LoadBalancersAssumption, Promised!Owned, LabelledIn, LabelInv, Present

LEMMA CreateRefines ==
    ASSUME RInv, TypeOK', NEW s \in Services, NEW k \in Kinds, Create(s, k)
    PROVE  [Promised!Next]_(Promised!vars)
<1>0. Unmoved /\ Standing(s) \in {"live", "deleting"}
  BY WorkerStanding DEF WorkerStep
<1>1. CASE UNCHANGED cloud
  BY <1>0, <1>1, Stutter
<1>2. ASSUME NEW l \in LBs, NEW n, cloud[l] = Unused, cloud' = [cloud EXCEPT ![l] = NewLB(s, n)]
      PROVE  Promised!Create(s, l)
  <2>1. cloud \in [LBs -> LBRecord]
    BY DEF RInv, IInv, TypeOK
  <2>2. /\ cloud[l].st = "unused" /\ cloud[l].protect = FALSE
        /\ cloud'[l].st = "present" /\ cloud'[l].uid = s /\ cloud'[l].protect = FALSE
        /\ \A m \in LBs \ {l} : cloud'[m] = cloud[m]
    BY <1>2, <2>1 DEF Unused, NewLB
  <2>3. [t \in Services |-> Standing(t)]' = [t \in Services |-> Standing(t)]
    BY <1>0 DEF Unmoved
  <2>4. LabelledIn(cloud, s) = {}
    BY DEF RInv, IInv, OpOK, Create, At
  <2>5. Promised!Owned(s) = {}
    BY <2>4, OwnedIsLabelled DEF RInv
  <2>6. QED
    BY <1>0, <2>2, <2>3, <2>5 DEF Promised!Create
<1>3. QED
  BY <1>1, <1>2 DEF Create, Promised!Next

\* A Load Balancer without an owner becomes that of s, which owns none.
LEMMA AdoptRefines ==
    ASSUME NEW s \in Services, NEW l \in LBs, Standing(s) \in {"live", "deleting"},
           Unmoved, Promised!Owned(s) = {},
           cloud[l].st = "present", cloud[l].uid = None,
           cloud'[l].st = "present", cloud'[l].uid = s, cloud'[l].protect = cloud[l].protect,
           \A m \in LBs \ {l} : cloud'[m] = cloud[m]
    PROVE  Promised!Next
<1>1. Promised!Adopt(s, l)
  BY DEF Promised!Adopt, Unmoved
<1>2. QED
  BY <1>1 DEF Promised!Next

LEMMA InfoRefines ==
    ASSUME NamesNotShared, RInv, TypeOK', NEW s \in Services, NEW k \in Kinds,
           changeHCLBInfo(s, k)
    PROVE  [Promised!Next]_(Promised!vars)
<1> DEFINE w == worker[s][k]
           l == w.lb
<1>0. /\ cloud \in [LBs -> LBRecord] /\ Unmoved /\ OpOK(cloud, s, w)
      /\ w.pc = "info" /\ l \in LBs /\ w.luid \in {None, s} /\ IInv
      /\ Standing(s) \in {"live", "deleting"}
  <2>1. w.pc = "info" /\ IInv /\ OpOK(cloud, s, w)
    BY DEF changeHCLBInfo, At, RInv, IInv
  <2>2. cloud \in [LBs -> LBRecord] /\ l \in LBs /\ w.luid \in {None, s}
    BY <2>1 DEF IInv, TypeOK, OpOK
  <2>3. Unmoved /\ Standing(s) \in {"live", "deleting"}
    BY WorkerStanding DEF WorkerStep
  <2>4. QED
    BY <2>1, <2>2, <2>3
<1>1. CASE UNCHANGED cloud
  BY <1>0, <1>1, Stutter
<1>2. ASSUME NEW n, NEW u, Present(l), u = (IF SetLabel(s, w) THEN LabelsSent(s, w) ELSE cloud[l].uid),
             cloud' = [cloud EXCEPT ![l].uid = u, ![l].name = n]
      PROVE  [Promised!Next]_(Promised!vars)
  <2>1. cloud[l] \in LBRecord /\ cloud[l].st = "present"
    BY <1>0, <1>2 DEF Present
  <2>2. cloud[l].name \in Own(s) /\ (w.luid = s => cloud[l].uid = s)
    BY <1>0, <2>1 DEF OpOK
  <2>3. u = s
    BY <1>0, <1>2, <2>2, LoadBalancersAssumption
    DEF LoadBalancersAssumption, SetLabel, LabelsSent
  <2>4. /\ cloud'[l] = [cloud[l] EXCEPT !.uid = s, !.name = n]
        /\ \A m \in LBs \ {l} : cloud'[m] = cloud[m]
    BY <1>0, <1>2, <2>3
  <2>5. /\ cloud'[l].st = "present" /\ cloud'[l].uid = s /\ cloud'[l].protect = cloud[l].protect
    BY <2>1, <2>4 DEF LBRecord
  <2>6. cloud[l].uid \in {None, s}
    BY <1>0, <1>2, <2>2, OwnLabel
  <2> HIDE DEF w, l
  <2>7. CASE cloud[l].uid = s
    <3>1. \A m \in LBs : /\ cloud'[m].st = cloud[m].st /\ cloud'[m].uid = cloud[m].uid
                         /\ cloud'[m].protect = cloud[m].protect
      BY <2>1, <2>4, <2>5, <2>7
    <3>2. QED
      BY <1>0, <3>1 DEF Promised!vars, Unmoved
  <2>8. CASE cloud[l].uid = None
    <3>1. None # s
      BY LoadBalancersAssumption DEF LoadBalancersAssumption
    <3>2. LabelledIn(cloud, s) \subseteq {l}
      BY <1>0, <2>2, <2>8, <3>1 DEF OpOK, l
    <3>3. Promised!Owned(s) = {}
      BY <2>8, <3>1, <3>2, OwnedIsLabelled DEF RInv, LabelledIn
    <3>4. QED
      BY <1>0, <2>1, <2>4, <2>5, <2>8, <3>3, AdoptRefines
  <2>9. QED
    BY <2>6, <2>7, <2>8
<1>3. QED
  BY <1>1, <1>2 DEF changeHCLBInfo

\* What letting s go does to the life of the Services.
LEMMA LetGoStanding ==
    ASSUME RInv, NEW s \in Services, worker[s]["service"].pc \in {"get", "lookup", "delete"},
           LetGo(s), UNCHANGED phase
    PROVE  /\ Standing(s) = "deleting" /\ Standing(s)' = "leaving"
           /\ \A t \in Services \ {s} : Standing(t)' = Standing(t)
<1>1. TypeOK /\ "service" \in Kinds /\ "release" \in PCs
  BY DEF RInv, IInv, Kinds, PCs
<1>2. PICK w \in WorkerRecord :
          w.pc = "release" /\ worker' = [worker EXCEPT ![s]["service"] = w]
  BY <1>1, GotoType DEF LetGo
<1>3. phase[s] = "deleting" /\ ~Releasing(s)
  BY DEF RInv, PhaseInv, Releasing, At
<1>4. QED
  BY <1>1, <1>2, <1>3, OneStanding DEF Standing

\* The Service is let go, and nothing else changes.
LEMMA LetGoRefines ==
    ASSUME RInv, NEW s \in Services, worker[s]["service"].pc \in {"get", "lookup", "delete"},
           UNCHANGED <<phase, cloud>>, LetGo(s), \A l \in LabelledIn(cloud, s) : cloud[l].protect
    PROVE  Promised!Next
<1>1. \A l \in Promised!Owned(s) : l \in LBs /\ cloud[l].protect
  BY OwnedIsLabelled DEF RInv, LabelledIn
<1>2. /\ Standing(s) = "deleting" /\ Standing(s)' = "leaving"
      /\ \A t \in Services \ {s} : Standing(t)' = Standing(t)
  BY LetGoStanding
<1>3. Promised!LetGo(s, {})
  BY <1>1, <1>2 DEF Promised!LetGo
<1>4. QED
  BY <1>3 DEF Promised!Next

\* A Load Balancer of s is deleted, and s may be let go with it.
LEMMA RemoveRefines ==
    ASSUME NEW s \in Services, NEW l \in LBs, Standing(s) = "deleting",
           \/ Unmoved
           \/ /\ Standing(s)' = "leaving"
              /\ \A t \in Services \ {s} : Standing(t)' = Standing(t),
           Promised!Owned(s) \subseteq {l},
           cloud[l].st = "present", cloud[l].uid = s, cloud[l].protect = FALSE,
           cloud'[l].st = "deleted", cloud'[l].uid = None, cloud'[l].protect = FALSE,
           \A m \in LBs \ {l} : cloud'[m] = cloud[m]
    PROVE  Promised!Next
<1>1. \/ [t \in Services |-> Standing(t)]' = [t \in Services |-> Standing(t)]
      \/ Promised!LetGo(s, {l})
  BY DEF Promised!LetGo, Unmoved
<1>2. Promised!Remove(s, l)
  BY <1>1 DEF Promised!Remove
<1>3. QED
  BY <1>2 DEF Promised!Next

\* An operation of the Service controller ends before s is gone.
LEMMA EndRefines ==
    ASSUME RInv, NEW s \in Services, NEW k \in Kinds,
           worker' = [worker EXCEPT ![s][k] = IdleWorker], UNCHANGED <<phase, cloud>>
    PROVE  [Promised!Next]_(Promised!vars)
<1>0. TypeOK /\ IdleWorker.pc # "release"
  BY DEF RInv, IInv, IdleWorker
<1>1. CASE k # "service" \/ ~Releasing(s)
  BY <1>0, <1>1, OneStanding, Stutter
<1>2. CASE k = "service" /\ Releasing(s)
  <2>1. /\ Standing(s) = "leaving" /\ Standing(s)' = "deleting"
        /\ \A t \in Services \ {s} : Standing(t)' = Standing(t)
    BY <1>0, <1>2, OneStanding, LeavingIsDeleting
  <2>2. Promised!Stay({s})
    BY <2>1 DEF Promised!Stay
  <2>3. QED
    BY <2>2 DEF Promised!Next
<1>3. QED
  BY <1>1, <1>2

\* A restart takes every Service that was about to go back to its deletion.
LEMMA RestartRefines ==
    ASSUME RInv, Restart
    PROVE  [Promised!Next]_(Promised!vars)
<1> DEFINE S == {s \in Services : Releasing(s)}
<1>1. UNCHANGED <<phase, cloud>> /\ \A s \in Services : ~Releasing(s)'
  BY DEF Restart, Releasing, At, IdleWorker, Kinds
<1>2. \A s \in S : Standing(s) = "leaving" /\ Standing(s)' = "deleting"
  BY <1>1, LeavingIsDeleting DEF Standing
<1>3. \A s \in Services \ S : Standing(s)' = Standing(s)
  BY <1>1 DEF Standing
<1>4. CASE S = {}
  BY <1>1, <1>3, <1>4, Stutter DEF Unmoved
<1>5. CASE S # {}
  <2>1. Promised!Stay(S)
    BY <1>1, <1>2, <1>3, <1>5 DEF Promised!Stay
  <2>2. S \in SUBSET Services
    OBVIOUS
  <2>3. QED
    BY <2>1, <2>2 DEF Promised!Next
<1>6. QED
  BY <1>4, <1>5

LEMMA ReleaseRefines ==
    ASSUME RInv, NEW s \in Services, Release(s)
    PROVE  Promised!Next
<1>1. TypeOK /\ "service" \in Kinds /\ Releasing(s) /\ phase \in [Services -> Phases]
  BY DEF RInv, IInv, TypeOK, Kinds, Release, Releasing
<1>2. worker' = [worker EXCEPT ![s]["service"] = IdleWorker] /\ IdleWorker.pc # "release"
  BY DEF Release, Return, Proceed, IdleWorker
<1>3. \A t \in Services : /\ worker'[t]["service"] = IF t = s THEN IdleWorker ELSE worker[t]["service"]
                          /\ phase'[t] = IF t = s THEN "gone" ELSE phase[t]
  BY <1>1, <1>2 DEF TypeOK, Release
<1>4. /\ Standing(s) = "leaving" /\ Standing(s)' = "gone"
      /\ \A t \in Services \ {s} : Standing(t)' = Standing(t)
  BY <1>1, <1>2, <1>3 DEF Standing, Releasing, At
<1>5. UNCHANGED cloud
  BY DEF Release
<1>6. Promised!Finish(s)
  BY <1>4, <1>5 DEF Promised!Finish
<1>7. QED
  BY <1>6 DEF Promised!Next

LEMMA DeleteRefines ==
    ASSUME NamesNotShared, RInv, TypeOK', NEW s \in Services, DeleteStep(s)
    PROVE  [Promised!Next]_(Promised!vars)
<1> DEFINE w == worker[s]["service"]
           d == w.lb
<1>0. /\ cloud \in [LBs -> LBRecord] /\ OpOK(cloud, s, w) /\ phase[s] = "deleting"
      /\ IInv /\ LabelInv /\ TypeOK /\ "service" \in Kinds
      /\ cloud' \in [LBs -> LBRecord] /\ {"lookup", "delete"} \subseteq PCs
  BY DEF DeleteStep, GetLoadBalancer, deleteLoadBalancer, Delete, Release, At, RInv, PhaseInv,
         IInv, TypeOK, Kinds, PCs
<1>1. CASE Release(s)
  BY <1>1, ReleaseRefines
<1> SUFFICES ASSUME ~Release(s) PROVE [Promised!Next]_(Promised!vars)
  BY <1>1
<1>2. /\ w.pc \in {"get", "lookup", "delete"} /\ UNCHANGED phase /\ ~Releasing(s)
      /\ Standing(s) = "deleting"
  BY <1>0 DEF DeleteStep, GetLoadBalancer, deleteLoadBalancer, Delete, At, Releasing, Standing
<1>3. ASSUME NEW v, v.pc # "release", worker' = [worker EXCEPT ![s]["service"] = v]
      PROVE  Unmoved
  BY <1>0, <1>2, <1>3, OneStanding
<1>4. ASSUME Abort(s, "service") \/ Fault(s, "service")
      PROVE  Unmoved
  <2>1. worker' = [worker EXCEPT ![s]["service"] = IdleWorker] /\ IdleWorker.pc # "release"
    BY <1>4 DEF Abort, Fault, IdleWorker
  <2>2. QED
    BY <1>3, <2>1
<1>5. ASSUME NEW pc \in {"lookup", "delete"},
             Goto(s, "service", pc) \/ \E l \in LBs : Hold(s, "service", l, pc)
      PROVE  Unmoved
  <2>1. PICK v \in WorkerRecord : v.pc = pc /\ worker' = [worker EXCEPT ![s]["service"] = v]
    BY <1>0, <1>5, GotoType, HoldType
  <2>2. QED
    BY <1>3, <2>1
<1>6. CASE GetLoadBalancer(s)
  <2>1. CASE NotFoundByUID(s) /\ LetGo(s)
    BY <1>2, <1>6, <2>1, LetGoRefines, LabelledNow DEF GetLoadBalancer, NotFoundByUID
  <2>2. QED
    BY <1>4, <1>5, <1>6, <2>1, Stutter DEF GetLoadBalancer
<1>7. CASE deleteLoadBalancer(s)
  <2>1. CASE NotFoundByUID(s) /\ LetGo(s)
    BY <1>2, <1>7, <2>1, LetGoRefines, LabelledNow DEF deleteLoadBalancer, NotFoundByUID
  <2>2. ASSUME NEW l \in LBs, Labelled(s) = {l}, cloud[l].protect, LetGo(s)
        PROVE  Promised!Next
    BY <1>2, <1>7, <2>2, LetGoRefines, LabelledNow DEF deleteLoadBalancer
  <2>3. QED
    BY <1>4, <1>5, <1>7, <2>1, <2>2, Stutter DEF deleteLoadBalancer, IgnoreProtected
<1>8. CASE Delete(s)
  <2>1. /\ d \in LBs /\ LabelledIn(cloud, s) \subseteq {d} /\ w.luid = s
        /\ cloud[d].st = "present" => cloud[d].uid = s
    BY <1>0, <1>8 DEF Delete, At, OpOK, RInv, PhaseInv
  <2>2. LetGo(s) => /\ Standing(s)' = "leaving"
                    /\ \A t \in Services \ {s} : Standing(t)' = Standing(t)
    BY <1>2, LetGoStanding
  <2>3. ~Present(d) /\ UNCHANGED cloud /\ LetGo(s) => Promised!Next
    BY <1>2, <2>1, LetGoRefines DEF LabelledIn, Present
  <2> HIDE DEF w, d
  <2>4. ASSUME Present(d), ~cloud[d].protect, LetGo(s) \/ Fault(s, "service"),
               cloud' = [cloud EXCEPT ![d] = [Unused EXCEPT !.st = "deleted"]]
        PROVE  Promised!Next
    <3>1. /\ cloud[d].st = "present" /\ cloud[d].uid = s /\ cloud[d].protect = FALSE
      BY <1>0, <2>1, <2>4 DEF Present, LBRecord
    <3>2. /\ cloud'[d].st = "deleted" /\ cloud'[d].uid = None /\ cloud'[d].protect = FALSE
          /\ \A m \in LBs \ {d} : cloud'[m] = cloud[m]
      BY <1>0, <2>1, <2>4 DEF Unused
    <3>3. Promised!Owned(s) \subseteq {d}
      BY <1>0, <2>1, OwnedIsLabelled
    <3>4. \/ Unmoved
          \/ /\ Standing(s)' = "leaving"
             /\ \A t \in Services \ {s} : Standing(t)' = Standing(t)
      BY <1>4, <2>2, <2>4
    <3>5. QED
      BY <1>2, <2>1, <3>1, <3>2, <3>3, <3>4, RemoveRefines
  <2>5. QED
    BY <1>4, <1>8, <2>3, <2>4, Stutter DEF Delete, DeleteNotFound, d, w
<1>9. QED
  BY <1>6, <1>7, <1>8 DEF DeleteStep

LEMMA UserRefines ==
    ASSUME RInv, User
    PROVE  [Promised!Next]_(Promised!vars)
<1>0. /\ cloud \in [LBs -> LBRecord] /\ phase \in [Services -> Phases]
      /\ \A s \in Services : Releasing(s)' = Releasing(s)
      /\ \A s \in Services : Releasing(s) => phase[s] = "deleting"
  <2>1. UNCHANGED worker
    BY DEF User, CreateService, EditAnnotations, DeleteService, ToggleProtection, ImportLB
  <2>2. QED
    BY <2>1, LeavingIsDeleting DEF RInv, IInv, TypeOK, Releasing, At
<1>1. ASSUME NEW s \in Services, NEW n, NEW b, CreateService(s, n, b) \/ EditAnnotations(s, n, b)
      PROVE  [Promised!Next]_(Promised!vars)
  <2>1. CASE CreateService(s, n, b)
    <3>1. /\ Standing(s) = "absent" /\ Standing(s)' = "live"
          /\ \A t \in Services \ {s} : Standing(t)' = Standing(t)
      BY <1>0, <2>1 DEF CreateService, Standing
    <3>3. Promised!Appear(s)
      BY <2>1, <3>1 DEF CreateService, Promised!Appear
    <3>4. QED
      BY <3>3 DEF Promised!Next
  <2>2. CASE EditAnnotations(s, n, b)
    BY <2>2, SameWorkers, Stutter DEF EditAnnotations
  <2>3. QED
    BY <1>1, <2>1, <2>2
<1>2. ASSUME NEW s \in Services, DeleteService(s)
      PROVE  Promised!Next
  <2>1. /\ Standing(s) = "live" /\ Standing(s)' = "deleting"
        /\ \A t \in Services \ {s} : Standing(t)' = Standing(t)
    BY <1>0, <1>2 DEF DeleteService, Standing
  <2>2. Promised!Withdraw(s)
    BY <1>2, <2>1 DEF DeleteService, Promised!Withdraw
  <2>3. QED
    BY <2>2 DEF Promised!Next
<1>3. ASSUME NEW l \in LBs, ToggleProtection(l)
      PROVE  Promised!Next
  <2>1. cloud[l] \in LBRecord
    BY <1>0
  <2>2. /\ cloud[l].st = "present" /\ cloud'[l].st = cloud[l].st /\ cloud'[l].uid = cloud[l].uid
        /\ cloud'[l].protect = ~cloud[l].protect /\ \A m \in LBs \ {l} : cloud'[m] = cloud[m]
    BY <1>0, <1>3, <2>1 DEF ToggleProtection, Present, LBRecord
  <2>3. Promised!Protect(l)
    <3>1. [t \in Services |-> Standing(t)]' = [t \in Services |-> Standing(t)]
      BY <1>3, SameWorkers DEF ToggleProtection, Unmoved
    <3>2. \A m \in LBs : cloud'[m].st = cloud[m].st /\ cloud'[m].uid = cloud[m].uid
      BY <2>2
    <3>3. [m \in LBs |-> cloud'[m].protect]
             = [[m \in LBs |-> cloud[m].protect] EXCEPT ![l] = ~cloud[l].protect]
      BY <2>2
    <3>4. QED
      BY <2>2, <3>1, <3>2, <3>3 DEF Promised!Protect
  <2>4. QED
    BY <2>3 DEF Promised!Next
<1>4. ASSUME NEW l \in LBs, NEW n, ImportLB(l, n)
      PROVE  Promised!Next
  <2>1. /\ cloud[l].st = "unused" /\ cloud[l].uid = None /\ cloud[l].protect = FALSE
        /\ cloud'[l].st = "present" /\ cloud'[l].uid = None /\ cloud'[l].protect = FALSE
        /\ \A m \in LBs \ {l} : cloud'[m] = cloud[m]
    BY <1>0, <1>4 DEF ImportLB, Unused
  <2>2. Promised!Import(l)
    <3>1. [t \in Services |-> Standing(t)]' = [t \in Services |-> Standing(t)]
      BY <1>4, SameWorkers DEF ImportLB, Unmoved
    <3>2. \A m \in LBs : cloud'[m].uid = cloud[m].uid /\ cloud'[m].protect = cloud[m].protect
      BY <2>1
    <3>3. QED
      BY <2>1, <3>1, <3>2 DEF Promised!Import
  <2>3. QED
    BY <2>2 DEF Promised!Next
<1>5. QED
  BY <1>1, <1>2, <1>3, <1>4 DEF User

LEMMA StartRefines ==
    ASSUME RInv, NEW s \in Services, StartEnsure(s) \/ StartUpdate(s) \/ StartDelete(s)
    PROVE  [Promised!Next]_(Promised!vars)
<1>0. TypeOK /\ UNCHANGED <<phase, cloud>>
  BY DEF RInv, IInv, StartEnsure, StartUpdate, StartDelete
<1>1. PICK k \in Kinds, pc \in {"uid", "get"} : Start(s, k, pc)
  BY DEF StartEnsure, StartUpdate, StartDelete, Kinds
<1> DEFINE w == [IdleWorker EXCEPT !.pc = pc, !.annot = annot[s], !.bad = bad[s]]
<1>2. w.pc # "release" /\ worker' = [worker EXCEPT ![s][k] = w]
  BY <1>1 DEF Start, IdleWorker
<1>3. k = "service" => ~Releasing(s)
  BY <1>1 DEF Start, Idle, Releasing, At
<1> HIDE DEF w
<1>4. Unmoved
  BY <1>0, <1>2, <1>3, OneStanding
<1>5. QED
  BY <1>0, <1>4, Stutter

LEMMA StepRefines ==
    ASSUME NamesNotShared, RInv, [Next]_vars
    PROVE  [Promised!Next]_(Promised!vars)
<1>0. TypeOK'
  BY NextType DEF RInv, IInv
<1>1. ASSUME NEW s \in Services, NEW k \in Kinds, WorkerStep(s, k)
      PROVE  [Promised!Next]_(Promised!vars)
  BY <1>0, <1>1, CreateRefines, InfoRefines, WorkerStanding, Stutter
  DEF WorkerStep, GetByK8SServiceUID, GetByName, FinishPass
<1>2. ASSUME NEW s \in Services, NEW k \in Kinds, CallFails(s, k)
      PROVE  [Promised!Next]_(Promised!vars)
  BY <1>2, EndRefines DEF CallFails, Fault
<1>3. CASE UNCHANGED vars
  BY <1>3, SameWorkers, Stutter DEF vars
<1>4. QED
  BY <1>0, <1>1, <1>2, <1>3, StartRefines, DeleteRefines, RestartRefines, UserRefines DEF Next

LEMMA InitRefines == Init => Promised!Init
<1> SUFFICES ASSUME Init PROVE Promised!Init
  OBVIOUS
<1>1. \A s \in Services : Standing(s) = "absent"
  BY DEF Init, Standing, Releasing, At, IdleWorker, Kinds
<1>2. QED
  BY <1>1 DEF Init, Unused, Promised!Init

\* The calls that EnsureLoadBalancer, UpdateLoadBalancer and
\* EnsureLoadBalancerDeleted make, failed ones and restarts between them
\* included, implement Ownership in its strong form: nothing is taken from
\* another Service, nothing is deleted but by its owner, nothing is adopted for
\* a Service that is leaving or gone, and a Service leaves only from a moment at
\* which it owns nothing that could be deleted.
THEOREM OwnershipImplemented ==
    ASSUME Serialised, NamesNotShared
    PROVE  Spec => OwnershipKept
<1>1. QED
  BY InitRInv, NextRInv, InitRefines, StepRefines, PTL DEF Spec, OwnershipKept, Promised!Spec
=============================================================================
