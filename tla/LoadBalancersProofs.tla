------------------------ MODULE LoadBalancersProofs ------------------------
(***************************************************************************)
(* Proofs about LoadBalancers, for any number of Services and Load         *)
(* Balancers: the ownership of Load Balancers is unique and the finalizer  *)
(* goes last, when operations on a Service do not overlap and no two       *)
(* Services may use the same name.                                         *)
(***************************************************************************)
EXTENDS LoadBalancers, TLAPS

\* The names under which a Service looks for its Load Balancer.
Own(s) == {s} \cup NamesOf[s]

\* What the theorems assume of the deployment.
NamesNotShared ==
    \A s, t \in Services : s # t => NamesOf[s] \cap NamesOf[t] = {}

\* The Load Balancers that carry the label of s in the project c.
LabelledIn(c, s) == {l \in LBs : c[l].st = "present" /\ c[l].uid = s}

\* A labelled Load Balancer has a name its Service owns, and no Service has
\* two of them.
CloudOK(c) ==
    /\ \A l \in LBs, s \in Services : l \in LabelledIn(c, s) => c[l].name \in Own(s)
    /\ \A s \in Services : \A l, m \in LabelledIn(c, s) : l = m

\* What an operation w of the Service s may rely on in the project c: the
\* annotation it was called with and the Load Balancer it holds are the
\* Service's own, and between the lookup by label and the write no other
\* Load Balancer gets the label.
OpOK(c, s, w) ==
    /\ w.annot \in NamesOf[s] \cup {None}
    /\ w.pc \in {"info", "rest", "delete"} =>
          /\ w.lb \in LBs
          /\ w.luid \in {None, s}
          /\ c[w.lb].st # "unused"
          /\ c[w.lb].st = "present" =>
                 c[w.lb].name \in Own(s) /\ (w.luid = s => c[w.lb].uid = s)
    /\ w.pc \in {"name", "create"} => LabelledIn(c, s) = {}
    /\ w.pc = "info" /\ w.luid # s => LabelledIn(c, s) \subseteq {w.lb}
    /\ w.pc = "delete" => LabelledIn(c, s) \subseteq {w.lb}

\* One operation at a time on a Service.
SerialInv ==
    \A s \in Services : \A j, k \in Kinds : j # k => Idle(s, j) \/ Idle(s, k)

IInv ==
    /\ TypeOK
    /\ \A s \in Services : annot[s] \in NamesOf[s] \cup {None}
    /\ SerialInv
    /\ CloudOK(cloud)
    /\ \A s \in Services, k \in Kinds : OpOK(cloud, s, worker[s][k])

----------------------------------------------------------------------------
(* Type correctness.                                                       *)

LEMMA NamesOfNames ==
    ASSUME NEW s \in Services
    PROVE  NamesOf[s] \subseteq Names
BY DEF Names

LEMMA IdleWorkerType == IdleWorker \in WorkerRecord
BY DEF IdleWorker, WorkerRecord, PCs, LBNames

LEMMA UnusedType == Unused \in LBRecord
BY DEF Unused, LBRecord

\* What a step that assigns one operation does to all of them.
LEMMA WorkerUpdate ==
    ASSUME TypeOK, NEW s \in Services, NEW k \in Kinds, NEW w \in WorkerRecord,
           worker' = [worker EXCEPT ![s][k] = w]
    PROVE  /\ worker' \in [Services -> [Kinds -> WorkerRecord]]
           /\ worker'[s][k] = w
           /\ \A t \in Services, j \in Kinds : t # s \/ j # k => worker'[t][j] = worker[t][j]
BY DEF TypeOK

\* Operations that end and operations that move on keep the types.
LEMMA AbortType ==
    ASSUME TypeOK, NEW s \in Services, NEW k \in Kinds,
           Abort(s, k) \/ Fault(s, k) \/ Return(s, k)
    PROVE  /\ worker' = [worker EXCEPT ![s][k] = IdleWorker]
           /\ dirty' \in [Services -> BOOLEAN]
           /\ faults' \in 0 .. MaxFaults
<1>1. worker' = [worker EXCEPT ![s][k] = IdleWorker]
  BY DEF Abort, Fault, Return, Proceed
<1>2. dirty' = [dirty EXCEPT ![s] = TRUE] \/ dirty' = dirty
  BY DEF Abort, Fault, Return, Proceed
<1>3. dirty \in [Services -> BOOLEAN]
  BY DEF TypeOK
<1>4. dirty' \in [Services -> BOOLEAN]
  BY <1>2, <1>3
<1>5. faults' = faults \/ (faults < MaxFaults /\ faults' = faults + 1)
  BY DEF Abort, Fault, Return, Proceed
<1>6. faults' \in 0 .. MaxFaults
  BY <1>5, LoadBalancersAssumption DEF LoadBalancersAssumption, TypeOK
<1>7. QED
  BY <1>1, <1>4, <1>6

LEMMA GotoType ==
    ASSUME TypeOK, NEW s \in Services, NEW k \in Kinds, NEW pc \in PCs, Goto(s, k, pc)
    PROVE  \E w \in WorkerRecord :
              /\ w = [worker[s][k] EXCEPT !.pc = pc]
              /\ w.pc = pc /\ w.annot = worker[s][k].annot /\ w.bad = worker[s][k].bad
              /\ w.lb = worker[s][k].lb /\ w.luid = worker[s][k].luid
              /\ worker' = [worker EXCEPT ![s][k] = w]
<1>1. worker[s][k] \in WorkerRecord
  BY DEF TypeOK
<1>2. [worker[s][k] EXCEPT !.pc = pc] \in WorkerRecord
  BY <1>1 DEF WorkerRecord
<1>3. QED
  BY <1>1, <1>2 DEF Goto, Proceed, WorkerRecord

LEMMA HoldType ==
    ASSUME TypeOK, NEW s \in Services, NEW k \in Kinds, NEW pc \in PCs, NEW l \in LBs,
           cloud' \in [LBs -> LBRecord], Hold(s, k, l, pc)
    PROVE  \E w \in WorkerRecord :
              /\ w.pc = pc /\ w.annot = worker[s][k].annot
              /\ w.lb = l /\ w.luid = cloud'[l].uid
              /\ worker' = [worker EXCEPT ![s][k] = w]
<1>1. worker[s][k] \in WorkerRecord /\ cloud'[l] \in LBRecord
  BY DEF TypeOK
<1>2. cloud'[l].name \in LBNames \cup {None} /\ cloud'[l].uid \in Services \cup {None}
  BY <1>1 DEF LBRecord
<1> DEFINE w == [worker[s][k] EXCEPT !.pc = pc, !.lb = l, !.lname = cloud'[l].name,
                                     !.luid = cloud'[l].uid]
<1>3. w \in WorkerRecord
  BY <1>1, <1>2 DEF WorkerRecord
<1>4. w.pc = pc /\ w.annot = worker[s][k].annot /\ w.lb = l /\ w.luid = cloud'[l].uid
  BY <1>1 DEF WorkerRecord
<1>5. worker' = [worker EXCEPT ![s][k] = w]
  BY DEF Hold, Proceed
<1>6. QED
  BY <1>3, <1>4, <1>5

\* A step of an operation: all that is left to show is the types of the
\* variables that the step treats in its own way.
LEMMA OperationType ==
    ASSUME TypeOK, NEW s \in Services, NEW k \in Kinds, NEW w \in WorkerRecord,
           worker' = [worker EXCEPT ![s][k] = w],
           w.pc \in {"info", "rest", "delete"} => w.lb \in LBs,
           phase' \in [Services -> Phases], dirty' \in [Services -> BOOLEAN],
           status' \in [Services -> LBs \cup {None}], cloud' \in [LBs -> LBRecord],
           faults' \in 0 .. MaxFaults, UNCHANGED <<annot, bad, edits>>
    PROVE  TypeOK'
<1>1. /\ worker' \in [Services -> [Kinds -> WorkerRecord]]
      /\ worker'[s][k] = w
      /\ \A t \in Services, j \in Kinds : t # s \/ j # k => worker'[t][j] = worker[t][j]
  BY DEF TypeOK
<1>2. \A t \in Services, j \in Kinds :
          worker'[t][j].pc \in {"info", "rest", "delete"} => worker'[t][j].lb \in LBs
  BY <1>1 DEF TypeOK
<1>3. QED
  BY <1>1, <1>2 DEF TypeOK

LEMMA ProceedType ==
    ASSUME TypeOK, NEW s \in Services, NEW k \in Kinds, NEW w \in WorkerRecord,
           worker' = [worker EXCEPT ![s][k] = w],
           w.pc \in {"info", "rest", "delete"} => w.lb \in LBs,
           cloud' \in [LBs -> LBRecord],
           UNCHANGED <<phase, annot, bad, dirty, status, faults, edits>>
    PROVE  TypeOK'
<1>1. /\ phase' \in [Services -> Phases] /\ dirty' \in [Services -> BOOLEAN]
      /\ status' \in [Services -> LBs \cup {None}] /\ faults' \in 0 .. MaxFaults
  BY DEF TypeOK
<1>2. QED
  BY <1>1, OperationType

LEMMA EndType ==
    ASSUME TypeOK, NEW s \in Services, NEW k \in Kinds,
           Abort(s, k) \/ Fault(s, k) \/ Return(s, k),
           cloud' \in [LBs -> LBRecord], phase' \in [Services -> Phases],
           status' \in [Services -> LBs \cup {None}], UNCHANGED <<annot, bad, edits>>
    PROVE  TypeOK'
<1>1. IdleWorker.pc = "idle"
  BY DEF IdleWorker
<1>2. QED
  BY <1>1, AbortType, IdleWorkerType, OperationType

LEMMA GotoStepType ==
    ASSUME TypeOK, NEW s \in Services, NEW k \in Kinds, NEW pc \in PCs, Goto(s, k, pc),
           pc \in {"info", "rest", "delete"} => worker[s][k].lb \in LBs,
           UNCHANGED <<phase, annot, bad, status, edits, cloud>>
    PROVE  TypeOK'
<1>1. PICK w \in WorkerRecord : /\ w.pc = pc /\ w.lb = worker[s][k].lb
                               /\ worker' = [worker EXCEPT ![s][k] = w]
  BY GotoType
<1>2. UNCHANGED <<dirty, faults>> /\ cloud' \in [LBs -> LBRecord]
  BY DEF Goto, Proceed, TypeOK
<1>3. QED
  BY <1>1, <1>2, ProceedType

LEMMA HoldStepType ==
    ASSUME TypeOK, NEW s \in Services, NEW k \in Kinds, NEW pc \in PCs, NEW l \in LBs,
           Hold(s, k, l, pc), cloud' \in [LBs -> LBRecord],
           UNCHANGED <<phase, annot, bad, status, edits>>
    PROVE  TypeOK'
<1>1. PICK w \in WorkerRecord : w.lb = l /\ worker' = [worker EXCEPT ![s][k] = w]
  BY HoldType
<1>2. UNCHANGED <<dirty, faults>>
  BY DEF Hold, Proceed
<1>3. QED
  BY <1>1, <1>2, ProceedType

\* TypeOK is kept by the operations of the Service controller and node sync.
LEMMA StartType ==
    ASSUME TypeOK, NEW s \in Services, StartEnsure(s) \/ StartUpdate(s) \/ StartDelete(s)
    PROVE  TypeOK'
<1>1. ASSUME NEW k \in Kinds, NEW pc \in {"uid", "get"}, Start(s, k, pc),
             dirty' \in [Services -> BOOLEAN],
             UNCHANGED <<phase, annot, bad, status, cloud, faults, edits>>
      PROVE  TypeOK'
  <2> DEFINE w == [IdleWorker EXCEPT !.pc = pc, !.annot = annot[s], !.bad = bad[s]]
  <2>1. IdleWorker \in WorkerRecord
    BY IdleWorkerType
  <2>2. annot[s] \in Names \cup {None} /\ bad[s] \in BOOLEAN
    BY DEF TypeOK
  <2>3. w \in WorkerRecord /\ w.pc = pc
    BY <2>1, <2>2 DEF WorkerRecord, PCs
  <2>4. worker' = [worker EXCEPT ![s][k] = w]
    BY <1>1 DEF Start
  <2>5. /\ phase' \in [Services -> Phases] /\ cloud' \in [LBs -> LBRecord]
        /\ status' \in [Services -> LBs \cup {None}] /\ faults' \in 0 .. MaxFaults
    BY <1>1 DEF TypeOK
  <2>6. QED
    BY <1>1, <2>3, <2>4, <2>5, OperationType
<1>2. [dirty EXCEPT ![s] = FALSE] \in [Services -> BOOLEAN] /\ dirty \in [Services -> BOOLEAN]
  BY DEF TypeOK
<1>3. QED
  BY <1>1, <1>2 DEF StartEnsure, StartUpdate, StartDelete, Kinds

LEMMA WorkerStepType ==
    ASSUME TypeOK, NEW s \in Services, NEW k \in Kinds, WorkerStep(s, k)
    PROVE  TypeOK'
<1> DEFINE w == worker[s][k]
<1>0. /\ cloud \in [LBs -> LBRecord] /\ phase \in [Services -> Phases]
      /\ status \in [Services -> LBs \cup {None}] /\ w \in WorkerRecord
      /\ w.pc \in {"info", "rest", "delete"} => w.lb \in LBs
  BY DEF TypeOK
<1>1. CASE GetByK8SServiceUID(s, k)
  <2>1. UNCHANGED <<phase, annot, bad, status, edits, cloud>>
    BY <1>1 DEF GetByK8SServiceUID
  <2>2. CASE Goto(s, k, "name")
    BY <1>0, <2>1, <2>2, GotoStepType DEF PCs
  <2>3. CASE \E l \in LBs : Hold(s, k, l, "info")
    BY <1>0, <2>1, <2>3, HoldStepType DEF PCs
  <2>4. CASE Abort(s, k)
    BY <1>0, <2>1, <2>4, EndType
  <2>5. QED
    BY <1>1, <2>2, <2>3, <2>4 DEF GetByK8SServiceUID
<1>2. CASE GetByName(s, k)
  <2>1. UNCHANGED <<phase, annot, bad, status, edits, cloud>>
    BY <1>2 DEF GetByName
  <2>2. CASE Goto(s, k, "create")
    BY <1>0, <2>1, <2>2, GotoStepType DEF PCs
  <2>3. CASE \E l \in LBs : Hold(s, k, l, "info")
    BY <1>0, <2>1, <2>3, HoldStepType DEF PCs
  <2>4. CASE Return(s, k)
    BY <1>0, <2>1, <2>4, EndType
  <2>5. QED
    BY <1>2, <2>2, <2>3, <2>4 DEF GetByName, Named
<1>3. CASE Create(s, k)
  <2>1. UNCHANGED <<phase, annot, bad, status, edits>>
    BY <1>3 DEF Create
  <2>2. ASSUME NEW l \in LBs, cloud' = [cloud EXCEPT ![l] = NewLB(s, LoadBalancerName(s, w))]
        PROVE  cloud' \in [LBs -> LBRecord]
    <3>1. LoadBalancerName(s, w) \in LBNames
      BY <1>0 DEF LoadBalancerName, LBNames, WorkerRecord
    <3>2. QED
      BY <1>0, <2>2, <3>1 DEF NewLB, LBRecord
  <2>3. ASSUME NEW l \in LBs, cloud' \in [LBs -> LBRecord], Hold(s, k, l, "info")
        PROVE  TypeOK'
    BY <2>1, <2>3, HoldStepType DEF PCs
  <2>4. ASSUME cloud' \in [LBs -> LBRecord], Fault(s, k) \/ Abort(s, k)
        PROVE  TypeOK'
    BY <1>0, <2>1, <2>4, EndType
  <2>5. QED
    BY <1>0, <1>3, <2>2, <2>3, <2>4 DEF Create
<1>4. CASE changeHCLBInfo(s, k)
  <2>1. UNCHANGED <<phase, annot, bad, status, edits>> /\ w.lb \in LBs
    BY <1>0, <1>4 DEF changeHCLBInfo, At
  <2>2. CASE cloud' = cloud /\ (Goto(s, k, "rest") \/ Abort(s, k))
    <3>1. CASE Goto(s, k, "rest")
      BY <1>0, <2>1, <2>2, <3>1, GotoStepType DEF PCs
    <3>2. CASE Abort(s, k)
      BY <1>0, <2>1, <2>2, <3>2, EndType
    <3>3. QED
      BY <2>2, <3>1, <3>2
  <2>3. CASE /\ cloud' = [cloud EXCEPT
                     ![w.lb].uid = IF SetLabel(s, w) THEN LabelsSent(s, w) ELSE @,
                     ![w.lb].name = IF SetName(w) THEN w.annot ELSE @]
             /\ Hold(s, k, w.lb, "rest") \/ Fault(s, k)
    <3>1. LabelsSent(s, w) \in Services \cup {None} /\ w.annot \in LBNames \cup {None}
      BY <1>0 DEF LabelsSent, WorkerRecord, LBNames
    <3>2. cloud' \in [LBs -> LBRecord]
      BY <1>0, <2>1, <2>3, <3>1, SMTT(30) DEF LBRecord
    <3>3. CASE Hold(s, k, w.lb, "rest")
      BY <2>1, <3>2, <3>3, HoldStepType DEF PCs
    <3>4. CASE Fault(s, k)
      BY <1>0, <2>1, <3>2, <3>4, EndType
    <3>5. QED
      BY <2>3, <3>3, <3>4
  <2>4. QED
    BY <1>4, <2>2, <2>3 DEF changeHCLBInfo
<1>5. CASE FinishPass(s, k)
  <2>1. UNCHANGED <<phase, annot, bad, cloud, edits>> /\ w.lb \in LBs
    BY <1>0, <1>5 DEF FinishPass, At
  <2>2. status' \in [Services -> LBs \cup {None}]
    BY <1>0, <1>5, <2>1 DEF FinishPass
  <2>3. Return(s, k) \/ Abort(s, k)
    BY <1>5 DEF FinishPass
  <2>4. QED
    BY <1>0, <2>1, <2>2, <2>3, EndType
<1>6. QED
  BY <1>1, <1>2, <1>3, <1>4, <1>5 DEF WorkerStep

LEMMA DeleteStepType ==
    ASSUME TypeOK, NEW s \in Services, DeleteStep(s)
    PROVE  TypeOK'
<1> DEFINE w == worker[s]["service"]
<1>0. /\ "service" \in Kinds
      /\ cloud \in [LBs -> LBRecord] /\ phase \in [Services -> Phases]
      /\ status \in [Services -> LBs \cup {None}]
      /\ w.pc \in {"info", "rest", "delete"} => w.lb \in LBs
  BY DEF TypeOK, Kinds
<1>1. UNCHANGED <<annot, bad, status, edits>>
  BY DEF DeleteStep, GetLoadBalancer, deleteLoadBalancer, Delete, Release
<1>2. ASSUME LetGo(s), UNCHANGED phase, cloud' \in [LBs -> LBRecord]
      PROVE  TypeOK'
  <2>1. PICK v \in WorkerRecord :
            v.pc = "release" /\ worker' = [worker EXCEPT ![s]["service"] = v]
    BY <1>0, <1>2, GotoType DEF LetGo, PCs
  <2>2. UNCHANGED <<dirty, faults>>
    BY <1>2 DEF LetGo, Goto, Proceed
  <2>3. QED
    BY <1>0, <1>1, <1>2, <2>1, <2>2, ProceedType
<1>3. ASSUME Abort(s, "service") \/ Fault(s, "service"), UNCHANGED phase,
             cloud' \in [LBs -> LBRecord]
      PROVE  TypeOK'
  BY <1>0, <1>1, <1>3, EndType
<1>4. CASE GetLoadBalancer(s)
  <2>1. cloud' = cloud
    BY <1>4 DEF GetLoadBalancer
  <2>2. CASE Goto(s, "service", "lookup") /\ UNCHANGED phase
    BY <1>0, <1>1, <2>1, <2>2, GotoStepType DEF PCs
  <2>3. QED
    BY <1>0, <1>2, <1>3, <1>4, <2>1, <2>2 DEF GetLoadBalancer
<1>5. CASE deleteLoadBalancer(s)
  <2>1. cloud' = cloud
    BY <1>5 DEF deleteLoadBalancer
  <2>2. ASSUME NEW l \in LBs, Hold(s, "service", l, "delete"), UNCHANGED phase
        PROVE  TypeOK'
    BY <1>0, <1>1, <2>1, <2>2, HoldStepType DEF PCs
  <2>3. QED
    BY <1>0, <1>2, <1>3, <1>5, <2>1, <2>2 DEF deleteLoadBalancer, IgnoreProtected
<1>6. CASE Delete(s)
  <2>1. w.lb \in LBs
    BY <1>0, <1>6 DEF Delete, At
  <2>2. [Unused EXCEPT !.st = "deleted"] \in LBRecord
    BY UnusedType DEF LBRecord
  <2>3. cloud' \in [LBs -> LBRecord]
    BY <1>0, <1>6, <2>1, <2>2 DEF Delete
  <2>4. QED
    BY <1>2, <1>3, <1>6, <2>3 DEF Delete
<1>7. CASE Release(s)
  <2>1. Return(s, "service") /\ phase' \in [Services -> Phases] /\ cloud' = cloud
    BY <1>0, <1>7 DEF Release, Phases
  <2>2. QED
    BY <1>0, <1>1, <1>7, <2>1, EndType
<1>8. QED
  BY <1>4, <1>5, <1>6, <1>7 DEF DeleteStep

LEMMA FailureType ==
    ASSUME TypeOK, Restart \/ \E s \in Services, k \in Kinds : CallFails(s, k)
    PROVE  TypeOK'
<1>1. ASSUME NEW s \in Services, NEW k \in Kinds, CallFails(s, k)
      PROVE  TypeOK'
  <2>1. /\ cloud' \in [LBs -> LBRecord] /\ phase' \in [Services -> Phases]
        /\ status' \in [Services -> LBs \cup {None}]
    BY <1>1 DEF CallFails, TypeOK
  <2>2. QED
    BY <1>1, <2>1, EndType DEF CallFails
<1>2. CASE Restart
  <2>1. dirty' \in [Services -> BOOLEAN]
    BY <1>2 DEF Restart
  <2>2. faults' \in 0 .. MaxFaults
    BY <1>2, LoadBalancersAssumption DEF LoadBalancersAssumption, Restart, TypeOK
  <2>3. worker' \in [Services -> [Kinds -> WorkerRecord]]
    BY <1>2, IdleWorkerType DEF Restart
  <2>4. \A s \in Services, k \in Kinds : worker'[s][k].pc = "idle"
    BY <1>2 DEF Restart, IdleWorker
  <2>5. QED
    BY <1>2, <2>1, <2>2, <2>3, <2>4 DEF Restart, TypeOK
<1>3. QED
  BY <1>1, <1>2

LEMMA UserType ==
    ASSUME TypeOK, User
    PROVE  TypeOK'
<1>0. /\ phase \in [Services -> Phases] /\ annot \in [Services -> Names \cup {None}]
      /\ bad \in [Services -> BOOLEAN] /\ dirty \in [Services -> BOOLEAN]
      /\ cloud \in [LBs -> LBRecord]
  BY DEF TypeOK
<1>1. ASSUME Edit
      PROVE  edits' \in 0 .. MaxEdits
  BY <1>1, LoadBalancersAssumption DEF LoadBalancersAssumption, Edit, TypeOK
<1>2. ASSUME NEW s \in Services, NEW n \in NamesOf[s] \cup {None}, NEW b \in BadValues,
             CreateService(s, n, b) \/ EditAnnotations(s, n, b)
      PROVE  TypeOK'
  <2>1. n \in Names \cup {None}
    BY NamesOfNames
  <2>2. annot' \in [Services -> Names \cup {None}]
    BY <1>0, <1>2, <2>1 DEF CreateService, EditAnnotations
  <2>3. /\ bad' = [bad EXCEPT ![s] = b] /\ dirty' = [dirty EXCEPT ![s] = TRUE]
        /\ UNCHANGED <<status, cloud, worker, faults>>
    BY <1>2 DEF CreateService, EditAnnotations
  <2>4. bad' \in [Services -> BOOLEAN] /\ dirty' \in [Services -> BOOLEAN]
    BY <1>0, <2>3, LoadBalancersAssumption DEF LoadBalancersAssumption
  <2>5. phase' \in [Services -> Phases]
    BY <1>0, <1>2 DEF CreateService, EditAnnotations, Phases
  <2>6. edits' \in 0 .. MaxEdits
    BY <1>1, <1>2 DEF CreateService, EditAnnotations, TypeOK
  <2>7. QED
    BY <2>2, <2>3, <2>4, <2>5, <2>6 DEF TypeOK
<1>3. ASSUME NEW s \in Services, DeleteService(s)
      PROVE  TypeOK'
  <2>1. dirty' \in [Services -> BOOLEAN]
    BY <1>0, <1>3 DEF DeleteService
  <2>2. phase' \in [Services -> Phases]
    BY <1>0, <1>3 DEF DeleteService, Phases
  <2>3. QED
    BY <1>3, <2>1, <2>2 DEF DeleteService, TypeOK
<1>4. ASSUME NEW l \in LBs, ToggleProtection(l) \/ \E n \in LBNames : ImportLB(l, n)
      PROVE  TypeOK'
  <2>1. CASE ToggleProtection(l)
    <3>1. cloud'= [cloud EXCEPT ![l] = [cloud[l] EXCEPT !.protect = ~cloud[l].protect]]
      BY <2>1 DEF ToggleProtection
    <3>2. cloud[l] \in LBRecord /\ (~cloud[l].protect) \in BOOLEAN
      BY <1>0 DEF LBRecord
    <3>3. [cloud[l] EXCEPT !.protect = ~cloud[l].protect] \in LBRecord
      BY <3>2 DEF LBRecord
    <3>4. cloud' \in [LBs -> LBRecord]
      BY <1>0, <3>1, <3>3
    <3>5. QED
      BY <1>1, <2>1, <3>4 DEF ToggleProtection, TypeOK
  <2>2. ASSUME NEW n \in LBNames, ImportLB(l, n)
        PROVE  TypeOK'
    <3>1. [Unused EXCEPT !.st = "present", !.name = n] \in LBRecord
      BY UnusedType DEF LBRecord
    <3>2. cloud' \in [LBs -> LBRecord]
      BY <1>0, <2>2, <3>1 DEF ImportLB
    <3>3. QED
      BY <1>1, <2>2, <3>2 DEF ImportLB, TypeOK
  <2>3. QED
    BY <1>4, <2>1, <2>2
<1>5. QED
  BY <1>2, <1>3, <1>4 DEF User

LEMMA InitType == Init => TypeOK
<1> SUFFICES ASSUME Init PROVE TypeOK
  OBVIOUS
<1>1. /\ phase \in [Services -> Phases] /\ annot \in [Services -> Names \cup {None}]
      /\ status \in [Services -> LBs \cup {None}]
  BY DEF Init, Phases
<1>2. bad \in [Services -> BOOLEAN] /\ dirty \in [Services -> BOOLEAN]
  BY DEF Init
<1>3. cloud \in [LBs -> LBRecord] /\ worker \in [Services -> [Kinds -> WorkerRecord]]
  BY UnusedType, IdleWorkerType DEF Init
<1>4. \A s \in Services, k \in Kinds : worker[s][k].pc = "idle"
  BY DEF Init, IdleWorker
<1>5. faults \in 0 .. MaxFaults /\ edits \in 0 .. MaxEdits
  BY LoadBalancersAssumption DEF LoadBalancersAssumption, Init
<1>6. QED
  BY <1>1, <1>2, <1>3, <1>4, <1>5 DEF TypeOK

LEMMA NextType == TypeOK /\ [Next]_vars => TypeOK'
<1> SUFFICES ASSUME TypeOK, [Next]_vars PROVE TypeOK'
  OBVIOUS
<1>1. CASE Next
  BY <1>1, StartType, DeleteStepType, WorkerStepType, FailureType, UserType DEF Next
<1>2. CASE UNCHANGED vars
  BY <1>2 DEF vars, TypeOK
<1>3. QED
  BY <1>1, <1>2

\* Every operation always has the parts of the Load Balancer it needs for its
\* next call: between its lookup and its end it holds one.
THEOREM TypeCorrect == Spec => []TypeOK
<1>1. QED
  BY InitType, NextType, PTL DEF Spec

----------------------------------------------------------------------------
(* What happens in the project while one Service works on a Load Balancer. *)

LEMMA OwnDisjoint ==
    ASSUME NamesNotShared, NEW s \in Services, NEW t \in Services, s # t
    PROVE  Own(s) \cap Own(t) = {}
<1>1. NamesOf[s] \subseteq Names /\ NamesOf[t] \subseteq Names
  BY NamesOfNames
<1>2. Services \cap Names = {}
  BY LoadBalancersAssumption DEF LoadBalancersAssumption
<1>3. QED
  BY <1>1, <1>2 DEF NamesNotShared, Own

\* Names, labels and existence are all that matters.
LEMMA SameCloud ==
    ASSUME NEW c, NEW d,
           \A l \in LBs : d[l].st = c[l].st /\ d[l].name = c[l].name /\ d[l].uid = c[l].uid
    PROVE  /\ \A s \in Services : LabelledIn(d, s) = LabelledIn(c, s)
           /\ CloudOK(c) => CloudOK(d)
           /\ \A s \in Services : \A w : OpOK(c, s, w) => OpOK(d, s, w)
<1>1. \A s \in Services : LabelledIn(d, s) = LabelledIn(c, s)
  BY DEF LabelledIn
<1>2. CloudOK(c) => CloudOK(d)
  BY <1>1 DEF CloudOK, LabelledIn
<1>3. ASSUME NEW s \in Services, NEW w, OpOK(c, s, w)
      PROVE  OpOK(d, s, w)
  BY <1>1, <1>3 DEF OpOK
<1>4. QED
  BY <1>1, <1>2, <1>3

\* A Load Balancer without a label appears.
LEMMA ImportedCloud ==
    ASSUME NEW c, NEW d, NEW l \in LBs, \A m \in LBs \ {l} : d[m] = c[m],
           c[l].st = "unused", d[l].st = "present", d[l].uid = None
    PROVE  /\ CloudOK(c) => CloudOK(d)
           /\ \A s \in Services : \A w : OpOK(c, s, w) => OpOK(d, s, w)
<1>1. \A s \in Services : LabelledIn(d, s) = LabelledIn(c, s)
  BY LoadBalancersAssumption DEF LoadBalancersAssumption, LabelledIn
<1>2. CloudOK(c) => CloudOK(d)
  BY <1>1, LoadBalancersAssumption DEF LoadBalancersAssumption, CloudOK, LabelledIn
<1>3. ASSUME NEW s \in Services, NEW w, OpOK(c, s, w)
      PROVE  OpOK(d, s, w)
  BY <1>1, <1>3 DEF OpOK
<1>4. QED
  BY <1>2, <1>3

\* The Service s changes, creates or deletes l, which is its own.
LEMMA OwnedCloud ==
    ASSUME NamesNotShared, NEW c, NEW d, NEW l \in LBs, NEW s \in Services,
           \A m \in LBs \ {l} : d[m] = c[m], CloudOK(c),
           c[l].st \in {"unused", "present"}, d[l].st \in {"present", "deleted"},
           c[l].st = "present" => c[l].name \in Own(s),
           d[l].st = "present" =>
               d[l].name \in Own(s) /\ d[l].uid = s /\ LabelledIn(c, s) \subseteq {l}
    PROVE  /\ CloudOK(d)
           /\ \A t \in Services \ {s} : \A w : OpOK(c, t, w) => OpOK(d, t, w)
           /\ d[l].st = "present" => LabelledIn(d, s) = {l}
           /\ d[l].st = "deleted" => LabelledIn(d, s) = LabelledIn(c, s) \ {l}
<1>1. \A t \in Services \ {s} : Own(s) \cap Own(t) = {}
  BY OwnDisjoint
<1>2. \A t \in Services \ {s} : LabelledIn(d, t) = LabelledIn(c, t) /\ l \notin LabelledIn(c, t)
  BY <1>1 DEF LabelledIn, CloudOK
<1>3. d[l].st = "present" => LabelledIn(d, s) = {l}
  BY DEF LabelledIn
<1>4. d[l].st = "deleted" => LabelledIn(d, s) = LabelledIn(c, s) \ {l}
  BY DEF LabelledIn
<1>5. CloudOK(d)
  <2>1. ASSUME NEW m \in LBs, NEW t \in Services, m \in LabelledIn(d, t)
        PROVE  d[m].name \in Own(t)
    BY <1>2, <1>3, <1>4, <2>1 DEF CloudOK
  <2>2. ASSUME NEW t \in Services, NEW m \in LabelledIn(d, t), NEW n \in LabelledIn(d, t)
        PROVE  m = n
    BY <1>2, <1>3, <1>4, <2>2 DEF CloudOK
  <2>3. QED
    BY <2>1, <2>2 DEF CloudOK
<1>6. ASSUME NEW t \in Services \ {s}, NEW w, OpOK(c, t, w)
      PROVE  OpOK(d, t, w)
  <2>1. LabelledIn(d, t) = LabelledIn(c, t)
    BY <1>2
  <2>2. w.pc \in {"info", "rest", "delete"} => w.lb \in LBs \ {l}
    BY <1>1, <1>6 DEF OpOK
  <2>3. QED
    BY <1>6, <2>1, <2>2 DEF OpOK
<1>7. QED
  BY <1>3, <1>4, <1>5, <1>6

----------------------------------------------------------------------------
(* The inductive invariant.                                                *)

\* An operation that has ended relies on nothing.
LEMMA IdleOpOK ==
    ASSUME NEW c, NEW s \in Services
    PROVE  OpOK(c, s, IdleWorker)
BY DEF OpOK, IdleWorker

\* A step of one operation keeps the invariant if it leaves the project as the
\* operations of the other Services need it and its own operation in order.
LEMMA OperationStep ==
    ASSUME IInv, TypeOK', NEW s \in Services, NEW k \in Kinds, NEW w \in WorkerRecord,
           worker' = [worker EXCEPT ![s][k] = w], UNCHANGED annot,
           \A j \in Kinds \ {k} : Idle(s, j),
           CloudOK(cloud'), OpOK(cloud', s, w),
           \A t \in Services \ {s} : \A v : OpOK(cloud, t, v) => OpOK(cloud', t, v)
    PROVE  IInv'
<1>0. TypeOK
  BY DEF IInv
<1>1. /\ worker'[s][k] = w
      /\ \A t \in Services, j \in Kinds : t # s \/ j # k => worker'[t][j] = worker[t][j]
  BY <1>0 DEF TypeOK
<1>2. ASSUME NEW t \in Services, NEW j \in Kinds
      PROVE  OpOK(cloud', t, worker'[t][j])
  <2>1. CASE t = s /\ j = k
    BY <1>1, <2>1
  <2>2. CASE t = s /\ j # k
    <3>1. worker'[t][j] = worker[t][j] /\ worker[t][j].pc = "idle"
      BY <1>1, <2>2 DEF Idle
    <3>2. worker[t][j].annot \in NamesOf[t] \cup {None}
      BY DEF IInv, OpOK
    <3>3. QED
      BY <3>1, <3>2 DEF OpOK
  <2>3. CASE t # s
    <3>1. worker'[t][j] = worker[t][j] /\ OpOK(cloud, t, worker[t][j])
      BY <1>1, <2>3 DEF IInv
    <3>2. QED
      BY <2>3, <3>1
  <2>4. QED
    BY <2>1, <2>2, <2>3
<1>3. SerialInv'
  <2>1. SerialInv
    BY DEF IInv
  <2>2. ASSUME NEW t \in Services, NEW i \in Kinds, NEW j \in Kinds, i # j
        PROVE  worker'[t][i].pc = "idle" \/ worker'[t][j].pc = "idle"
    BY <1>1, <2>1, <2>2 DEF SerialInv, Idle
  <2>3. QED
    BY <2>2 DEF SerialInv, Idle
<1>4. \A t \in Services : annot'[t] \in NamesOf[t] \cup {None}
  BY DEF IInv
<1>5. QED
  BY <1>2, <1>3, <1>4 DEF IInv

\* An operation ends, in a project the other Services can live with.
LEMMA EndStep ==
    ASSUME IInv, TypeOK', NEW s \in Services, NEW k \in Kinds, ~Idle(s, k),
           Abort(s, k) \/ Fault(s, k) \/ Return(s, k), UNCHANGED annot,
           CloudOK(cloud'),
           \A t \in Services \ {s} : \A v : OpOK(cloud, t, v) => OpOK(cloud', t, v)
    PROVE  IInv'
<1>1. worker' = [worker EXCEPT ![s][k] = IdleWorker]
  BY DEF Abort, Fault, Return, Proceed
<1>2. \A j \in Kinds \ {k} : Idle(s, j)
  BY DEF IInv, SerialInv
<1>3. QED
  BY <1>1, <1>2, IdleWorkerType, IdleOpOK, OperationStep

\* An operation ends without having changed the project.
LEMMA EndUnchanged ==
    ASSUME IInv, TypeOK', NEW s \in Services, NEW k \in Kinds, ~Idle(s, k),
           Abort(s, k) \/ Fault(s, k) \/ Return(s, k), UNCHANGED <<annot, cloud>>
    PROVE  IInv'
<1>1. CloudOK(cloud') /\ \A t \in Services : \A v : OpOK(cloud, t, v) => OpOK(cloud', t, v)
  BY DEF IInv
<1>2. QED
  BY <1>1, EndStep

\* An operation moves on without having changed the project.
LEMMA ProceedUnchanged ==
    ASSUME IInv, TypeOK', NEW s \in Services, NEW k \in Kinds, NEW w \in WorkerRecord,
           ~Idle(s, k), worker' = [worker EXCEPT ![s][k] = w], UNCHANGED <<annot, cloud>>,
           OpOK(cloud, s, w)
    PROVE  IInv'
<1>1. CloudOK(cloud') /\ \A t \in Services : \A v : OpOK(cloud, t, v) => OpOK(cloud', t, v)
  BY DEF IInv
<1>2. \A j \in Kinds \ {k} : Idle(s, j)
  BY DEF IInv, SerialInv
<1>3. OpOK(cloud', s, w)
  OBVIOUS
<1>4. QED
  BY <1>1, <1>2, <1>3, OperationStep

LEMMA StartStep ==
    ASSUME Serialised, IInv, TypeOK', NEW s \in Services,
           StartEnsure(s) \/ StartUpdate(s) \/ StartDelete(s)
    PROVE  IInv'
<1>1. PICK k \in Kinds, pc \in {"uid", "get"} : Start(s, k, pc)
  BY DEF StartEnsure, StartUpdate, StartDelete, Kinds
<1>2. UNCHANGED <<annot, cloud>>
  BY DEF StartEnsure, StartUpdate, StartDelete
<1> DEFINE w == [IdleWorker EXCEPT !.pc = pc, !.annot = annot[s], !.bad = bad[s]]
<1>3. worker' = [worker EXCEPT ![s][k] = w] /\ \A j \in Kinds : Idle(s, j)
  BY <1>1 DEF Start
<1>4. annot[s] \in NamesOf[s] \cup {None} /\ annot[s] \in Names \cup {None} /\ bad[s] \in BOOLEAN
  BY DEF IInv, TypeOK
<1>5. w \in WorkerRecord /\ w.pc = pc /\ w.annot = annot[s]
  BY <1>4, IdleWorkerType DEF WorkerRecord, PCs
<1>6. OpOK(cloud', s, w)
  BY <1>4, <1>5 DEF OpOK
<1>7. CloudOK(cloud') /\ \A t \in Services : \A v : OpOK(cloud, t, v) => OpOK(cloud', t, v)
  BY <1>2 DEF IInv
<1>8. QED
  BY <1>2, <1>3, <1>5, <1>6, <1>7, OperationStep

LEMMA LabelledNow ==
    ASSUME NEW s \in Services
    PROVE  Labelled(s) = LabelledIn(cloud, s)
BY DEF Labelled, LabelledIn, Present

\* The name an operation looks for is one of the Service's own.
LEMMA NameOwned ==
    ASSUME IInv, NEW s \in Services, NEW k \in Kinds
    PROVE  LoadBalancerName(s, worker[s][k]) \in Own(s)
<1>1. worker[s][k].annot \in NamesOf[s] \cup {None}
  BY DEF IInv, OpOK
<1>2. QED
  BY <1>1 DEF LoadBalancerName, Own

\* A Load Balancer whose name the Service owns has its label or none.
LEMMA OwnLabel ==
    ASSUME NamesNotShared, IInv, NEW s \in Services, NEW l \in LBs,
           Present(l), cloud[l].name \in Own(s)
    PROVE  cloud[l].uid \in {None, s}
<1>1. cloud[l].uid \in Services \cup {None}
  BY DEF IInv, TypeOK, LBRecord
<1>2. ASSUME NEW t \in Services \ {s}, cloud[l].uid = t
      PROVE  FALSE
  <2>1. cloud[l].name \in Own(t)
    BY <1>2 DEF IInv, CloudOK, LabelledIn, Present
  <2>2. QED
    BY <2>1, OwnDisjoint
<1>3. QED
  BY <1>1, <1>2

LEMMA LookupStep ==
    ASSUME NamesNotShared, IInv, TypeOK', NEW s \in Services, NEW k \in Kinds,
           GetByK8SServiceUID(s, k) \/ GetByName(s, k)
    PROVE  IInv'
<1> DEFINE w == worker[s][k]
<1>0. /\ ~Idle(s, k) /\ UNCHANGED <<annot, cloud>> /\ OpOK(cloud, s, w)
      /\ TypeOK /\ w.annot \in NamesOf[s] \cup {None}
      /\ cloud' \in [LBs -> LBRecord] /\ {"name", "create", "info"} \subseteq PCs
  BY DEF GetByK8SServiceUID, GetByName, At, Idle, IInv, TypeOK, OpOK, PCs
<1>1. ASSUME NEW pc \in {"name", "create"}, Goto(s, k, pc), LabelledIn(cloud, s) = {}
      PROVE  IInv'
  <2>1. PICK v \in WorkerRecord : /\ v.pc = pc /\ v.annot = w.annot
                                 /\ worker' = [worker EXCEPT ![s][k] = v]
    BY <1>0, <1>1, GotoType
  <2>2. OpOK(cloud, s, v)
    BY <1>0, <1>1, <2>1 DEF OpOK
  <2>3. QED
    BY <1>0, <2>1, <2>2, ProceedUnchanged
<1>2. ASSUME NEW l \in LBs, Hold(s, k, l, "info"), Present(l), cloud[l].name \in Own(s),
             cloud[l].uid = s \/ LabelledIn(cloud, s) = {}
      PROVE  IInv'
  <2>1. PICK v \in WorkerRecord : /\ v.pc = "info" /\ v.annot = w.annot
                                 /\ v.lb = l /\ v.luid = cloud'[l].uid
                                 /\ worker' = [worker EXCEPT ![s][k] = v]
    BY <1>0, <1>2, HoldType
  <2>2. cloud[l].uid \in {None, s}
    BY <1>2, OwnLabel
  <2>3. OpOK(cloud, s, v)
    BY <1>0, <1>2, <2>1, <2>2 DEF OpOK, Present
  <2>4. QED
    BY <1>0, <2>1, <2>3, ProceedUnchanged
<1>3. CASE Abort(s, k) \/ Return(s, k)
  BY <1>0, <1>3, EndUnchanged
<1>4. CASE GetByK8SServiceUID(s, k)
  <2>1. ASSUME NEW l \in LBs, Labelled(s) = {l}
        PROVE  Present(l) /\ cloud[l].name \in Own(s) /\ cloud[l].uid = s
    BY <2>1 DEF IInv, CloudOK, LabelledIn, Labelled, Present
  <2>2. QED
    BY <1>1, <1>2, <1>3, <1>4, <2>1, LabelledNow DEF GetByK8SServiceUID, NotFoundByUID
<1>5. CASE GetByName(s, k)
  <2>1. LabelledIn(cloud, s) = {}
    BY <1>0, <1>5 DEF GetByName, At, OpOK
  <2>2. ASSUME NEW l \in Named(LoadBalancerName(s, w))
        PROVE  l \in LBs /\ Present(l) /\ cloud[l].name \in Own(s)
    BY NameOwned DEF Named
  <2>3. QED
    BY <1>1, <1>2, <1>3, <1>5, <2>1, <2>2 DEF GetByName
<1>6. QED
  BY <1>4, <1>5

LEMMA CreateStep ==
    ASSUME NamesNotShared, IInv, TypeOK', NEW s \in Services, NEW k \in Kinds, Create(s, k)
    PROVE  IInv'
<1> DEFINE w == worker[s][k]
           n == LoadBalancerName(s, w)
<1>0. /\ ~Idle(s, k) /\ UNCHANGED annot /\ OpOK(cloud, s, w) /\ CloudOK(cloud)
      /\ TypeOK /\ w.annot \in NamesOf[s] \cup {None} /\ cloud \in [LBs -> LBRecord]
      /\ cloud' \in [LBs -> LBRecord] /\ "info" \in PCs /\ LabelledIn(cloud, s) = {}
  BY DEF Create, At, Idle, IInv, TypeOK, OpOK, PCs
<1>1. CASE cloud' = cloud /\ Abort(s, k)
  BY <1>0, <1>1, EndUnchanged
<1>2. ASSUME NEW l \in LBs, cloud[l] = Unused, cloud' = [cloud EXCEPT ![l] = NewLB(s, n)],
             Hold(s, k, l, "info") \/ Fault(s, k)
      PROVE  IInv'
  <2>1. /\ cloud[l].st = "unused" /\ cloud'[l].st = "present" /\ cloud'[l].uid = s
        /\ cloud'[l].name = n /\ \A m \in LBs \ {l} : cloud'[m] = cloud[m]
    BY <1>0, <1>2 DEF Unused, NewLB
  <2>2. n \in Own(s)
    BY NameOwned
  <2>3. /\ CloudOK(cloud')
        /\ \A t \in Services \ {s} : \A v : OpOK(cloud, t, v) => OpOK(cloud', t, v)
    BY <1>0, <2>1, <2>2, OwnedCloud
  <2>4. CASE Fault(s, k)
    BY <1>0, <2>3, <2>4, EndStep
  <2>5. CASE Hold(s, k, l, "info")
    <3>1. PICK v \in WorkerRecord : /\ v.pc = "info" /\ v.annot = w.annot
                                   /\ v.lb = l /\ v.luid = cloud'[l].uid
                                   /\ worker' = [worker EXCEPT ![s][k] = v]
      BY <1>0, <2>5, HoldType
    <3>2. OpOK(cloud', s, v)
      BY <1>0, <2>1, <2>2, <3>1 DEF OpOK
    <3>3. \A j \in Kinds \ {k} : Idle(s, j)
      BY <1>0 DEF IInv, SerialInv
    <3>4. QED
      BY <1>0, <2>3, <3>1, <3>2, <3>3, OperationStep
  <2>6. QED
    BY <1>2, <2>4, <2>5
<1>3. QED
  BY <1>1, <1>2 DEF Create

LEMMA InfoStep ==
    ASSUME NamesNotShared, IInv, TypeOK', NEW s \in Services, NEW k \in Kinds,
           changeHCLBInfo(s, k)
    PROVE  IInv'
<1> DEFINE w == worker[s][k]
           l == w.lb
<1>0. /\ ~Idle(s, k) /\ UNCHANGED annot /\ OpOK(cloud, s, w) /\ CloudOK(cloud)
      /\ TypeOK /\ w.annot \in NamesOf[s] \cup {None} /\ cloud \in [LBs -> LBRecord]
      /\ cloud' \in [LBs -> LBRecord] /\ "rest" \in PCs /\ w.pc = "info"
      /\ l \in LBs /\ w.luid \in {None, s}
  BY DEF changeHCLBInfo, At, Idle, IInv, TypeOK, OpOK, PCs
<1>1. CASE cloud' = cloud /\ Abort(s, k)
  BY <1>0, <1>1, EndUnchanged
<1>2. CASE cloud' = cloud /\ Goto(s, k, "rest")
  <2>1. PICK v \in WorkerRecord : /\ v.pc = "rest" /\ v.annot = w.annot
                                 /\ v.lb = w.lb /\ v.luid = w.luid
                                 /\ worker' = [worker EXCEPT ![s][k] = v]
    BY <1>0, <1>2, GotoType
  <2>2. OpOK(cloud, s, v)
    BY <1>0, <2>1 DEF OpOK
  <2>3. QED
    BY <1>0, <1>2, <2>1, <2>2, ProceedUnchanged
<1>3. CASE /\ Present(l)
           /\ cloud' = [cloud EXCEPT
                     ![l].uid = IF SetLabel(s, w) THEN LabelsSent(s, w) ELSE @,
                     ![l].name = IF SetName(w) THEN w.annot ELSE @]
           /\ Hold(s, k, l, "rest") \/ Fault(s, k)
  <2>1. cloud[l].name \in Own(s) /\ (w.luid = s => cloud[l].uid = s)
    BY <1>0, <1>3 DEF OpOK, Present
  <2>2. cloud[l] \in LBRecord
    BY <1>0
  <2>3. /\ cloud'[l].st = "present"
        /\ cloud'[l].uid = IF SetLabel(s, w) THEN LabelsSent(s, w) ELSE cloud[l].uid
        /\ cloud'[l].name = IF SetName(w) THEN w.annot ELSE cloud[l].name
        /\ \A m \in LBs \ {l} : cloud'[m] = cloud[m]
    <3> DEFINE u == IF SetLabel(s, w) THEN LabelsSent(s, w) ELSE cloud[l].uid
               n == IF SetName(w) THEN w.annot ELSE cloud[l].name
    <3>1. cloud' = [cloud EXCEPT ![l].uid = u, ![l].name = n]
      BY <1>0, <1>3
    <3>2. cloud[l].st = "present"
      BY <1>3 DEF Present
    <3> HIDE DEF u, n
    <3>3. /\ cloud'[l] = [cloud[l] EXCEPT !.uid = u, !.name = n]
          /\ \A m \in LBs \ {l} : cloud'[m] = cloud[m]
      BY <1>0, <3>1
    <3>4. cloud'[l].st = "present" /\ cloud'[l].uid = u /\ cloud'[l].name = n
      BY <2>2, <3>2, <3>3 DEF LBRecord
    <3> QED
      BY <3>3, <3>4 DEF u, n
  <2>4. cloud'[l].uid = s
    BY <1>0, <2>1, <2>3, LoadBalancersAssumption
    DEF LoadBalancersAssumption, SetLabel, LabelsSent
  <2>5. cloud'[l].name \in Own(s)
    <3>1. CASE SetName(w)
      <4>1. w.annot \in NamesOf[s]
        BY <1>0, <3>1 DEF SetName
      <4>2. cloud'[l].name = w.annot
        BY <2>3, <3>1
      <4>3. QED
        BY <4>1, <4>2 DEF Own
    <3>2. CASE ~SetName(w)
      BY <2>1, <2>3, <3>2
    <3>3. QED
      BY <3>1, <3>2
  <2>6. LabelledIn(cloud, s) \subseteq {l}
    <3>1. CASE w.luid # s
      BY <1>0, <3>1 DEF OpOK
    <3>2. CASE w.luid = s
      BY <1>0, <1>3, <2>1, <3>2 DEF CloudOK, LabelledIn, Present
    <3>3. QED
      BY <3>1, <3>2
  <2>7. /\ CloudOK(cloud')
        /\ \A t \in Services \ {s} : \A v : OpOK(cloud, t, v) => OpOK(cloud', t, v)
    <3>1. cloud[l].st = "present"
      BY <1>3 DEF Present
    <3>2. CloudOK(cloud) /\ l \in LBs /\ \A m \in LBs \ {l} : cloud'[m] = cloud[m]
      BY <1>0, <2>3
    <3>3. cloud'[l].st = "present"
      BY <2>3
    <3> HIDE DEF l
    <3>4. QED
      BY <2>1, <2>4, <2>5, <2>6, <3>1, <3>2, <3>3, OwnedCloud
  <2>8. CASE Fault(s, k)
    BY <1>0, <2>7, <2>8, EndStep
  <2>9. CASE Hold(s, k, l, "rest")
    <3>1. PICK v \in WorkerRecord : /\ v.pc = "rest" /\ v.annot = w.annot
                                   /\ v.lb = l /\ v.luid = cloud'[l].uid
                                   /\ worker' = [worker EXCEPT ![s][k] = v]
      BY <1>0, <2>9, HoldType
    <3>2. OpOK(cloud', s, v)
      BY <1>0, <2>3, <2>4, <2>5, <3>1 DEF OpOK
    <3>3. \A j \in Kinds \ {k} : Idle(s, j)
      BY <1>0 DEF IInv, SerialInv
    <3>4. QED
      BY <1>0, <2>7, <3>1, <3>2, <3>3, OperationStep
  <2>10. QED
    BY <1>3, <2>8, <2>9
<1>4. QED
  BY <1>1, <1>2, <1>3 DEF changeHCLBInfo

LEMMA FinishStep ==
    ASSUME IInv, TypeOK', NEW s \in Services, NEW k \in Kinds,
           FinishPass(s, k) \/ CallFails(s, k)
    PROVE  IInv'
<1>1. ~Idle(s, k) /\ UNCHANGED <<annot, cloud>>
  BY DEF FinishPass, CallFails, At, Idle
<1>2. Abort(s, k) \/ Fault(s, k) \/ Return(s, k)
  BY DEF FinishPass, CallFails
<1>3. QED
  BY <1>1, <1>2, EndUnchanged

LEMMA DeletionStep ==
    ASSUME NamesNotShared, IInv, TypeOK', NEW s \in Services, DeleteStep(s)
    PROVE  IInv'
<1> DEFINE w == worker[s]["service"]
           l == w.lb
<1>0. /\ ~Idle(s, "service") /\ UNCHANGED annot /\ OpOK(cloud, s, w) /\ CloudOK(cloud)
      /\ TypeOK /\ w.annot \in NamesOf[s] \cup {None} /\ cloud \in [LBs -> LBRecord]
      /\ cloud' \in [LBs -> LBRecord] /\ {"lookup", "delete", "release"} \subseteq PCs
      /\ "service" \in Kinds
  BY DEF DeleteStep, GetLoadBalancer, deleteLoadBalancer, Delete, Release, At, Idle, IInv,
         TypeOK, OpOK, PCs, Kinds
<1>1. ASSUME cloud' = cloud, Abort(s, "service") \/ Release(s)
      PROVE  IInv'
  BY <1>0, <1>1, EndUnchanged DEF Release
<1>2. ASSUME NEW pc \in {"lookup", "release"}, Goto(s, "service", pc)
      PROVE  \E v \in WorkerRecord : /\ OpOK(cloud, s, v) /\ OpOK(cloud', s, v)
                                     /\ worker' = [worker EXCEPT ![s]["service"] = v]
  <2>1. PICK v \in WorkerRecord : /\ v.pc = pc /\ v.annot = w.annot
                                 /\ worker' = [worker EXCEPT ![s]["service"] = v]
    BY <1>0, <1>2, GotoType
  <2>2. OpOK(cloud, s, v) /\ OpOK(cloud', s, v)
    BY <1>0, <2>1 DEF OpOK
  <2>3. QED
    BY <2>1, <2>2
<1>9. ASSUME cloud' = cloud, Goto(s, "service", "lookup") \/ LetGo(s)
      PROVE  IInv'
  BY <1>0, <1>2, <1>9, ProceedUnchanged DEF LetGo
<1>3. ASSUME NEW m \in LBs, Labelled(s) = {m}, cloud' = cloud, Hold(s, "service", m, "delete")
      PROVE  IInv'
  <2>1. PICK v \in WorkerRecord : /\ v.pc = "delete" /\ v.annot = w.annot
                                 /\ v.lb = m /\ v.luid = cloud'[m].uid
                                 /\ worker' = [worker EXCEPT ![s]["service"] = v]
    BY <1>0, <1>3, HoldType
  <2>2. LabelledIn(cloud, s) = {m}
    BY <1>3, LabelledNow
  <2>3. cloud[m].st = "present" /\ cloud[m].uid = s /\ cloud[m].name \in Own(s)
    BY <1>0, <2>2 DEF CloudOK, LabelledIn
  <2>4. OpOK(cloud, s, v)
    BY <1>0, <1>3, <2>1, <2>2, <2>3 DEF OpOK
  <2>5. QED
    BY <1>0, <1>3, <2>1, <2>4, ProceedUnchanged
<1>4. ASSUME At(s, "service", "delete"), Present(l),
             cloud' = [cloud EXCEPT ![l] = [Unused EXCEPT !.st = "deleted"]],
             LetGo(s) \/ Fault(s, "service")
      PROVE  IInv'
  <2>1. l \in LBs /\ cloud[l].st = "present" /\ cloud[l].name \in Own(s)
    BY <1>0, <1>4 DEF At, OpOK, Present
  <2>2. cloud'[l].st = "deleted" /\ \A m \in LBs \ {l} : cloud'[m] = cloud[m]
    BY <1>0, <1>4, <2>1 DEF Unused
  <2>3. /\ CloudOK(cloud')
        /\ \A t \in Services \ {s} : \A v : OpOK(cloud, t, v) => OpOK(cloud', t, v)
    <3> HIDE DEF l
    <3>1. QED
      BY <1>0, <2>1, <2>2, OwnedCloud
  <2>4. CASE Fault(s, "service")
    BY <1>0, <2>3, <2>4, EndStep
  <2>5. CASE LetGo(s)
    <3>1. \A j \in Kinds \ {"service"} : Idle(s, j)
      BY <1>0 DEF IInv, SerialInv
    <3>2. QED
      BY <1>0, <1>2, <2>3, <2>5, <3>1, OperationStep DEF LetGo
  <2>6. QED
    BY <1>4, <2>4, <2>5
<1>5. CASE GetLoadBalancer(s)
  BY <1>1, <1>5, <1>9 DEF GetLoadBalancer
<1>6. CASE deleteLoadBalancer(s)
  BY <1>1, <1>3, <1>6, <1>9 DEF deleteLoadBalancer, IgnoreProtected
<1>7. CASE Delete(s)
  BY <1>1, <1>4, <1>7, <1>9 DEF Delete
<1>8. CASE Release(s)
  BY <1>1, <1>8 DEF Release
<1>10. QED
  BY <1>5, <1>6, <1>7, <1>8 DEF DeleteStep

LEMMA RestartStep ==
    ASSUME IInv, TypeOK', Restart
    PROVE  IInv'
<1>1. \A s \in Services, k \in Kinds : worker'[s][k] = IdleWorker
  BY DEF Restart
<1>2. \A s \in Services, k \in Kinds : OpOK(cloud', s, worker'[s][k])
  BY <1>1, IdleOpOK
<1>3. SerialInv'
  BY <1>1 DEF SerialInv, Idle, IdleWorker
<1>4. UNCHANGED <<annot, cloud>>
  BY DEF Restart
<1>5. QED
  BY <1>2, <1>3, <1>4 DEF IInv

LEMMA UserStep ==
    ASSUME IInv, TypeOK', User
    PROVE  IInv'
<1>0. worker' = worker
  BY DEF User, CreateService, EditAnnotations, DeleteService, ToggleProtection, ImportLB
<1>1. SerialInv'
  BY <1>0 DEF IInv, SerialInv, Idle
<1>2. \A s \in Services : annot'[s] \in NamesOf[s] \cup {None}
  <2>1. \A s \in Services : annot[s] \in NamesOf[s] \cup {None}
    BY DEF IInv
  <2>2. annot \in [Services -> Names \cup {None}]
    BY DEF IInv, TypeOK
  <2>3. QED
    BY <2>1, <2>2
    DEF User, CreateService, EditAnnotations, DeleteService, ToggleProtection, ImportLB
<1>3. /\ CloudOK(cloud) => CloudOK(cloud')
      /\ \A s \in Services : \A w : OpOK(cloud, s, w) => OpOK(cloud', s, w)
  <2>0. cloud \in [LBs -> LBRecord]
    BY DEF IInv, TypeOK
  <2>1. CASE cloud' = cloud
    BY <2>1
  <2>2. ASSUME NEW l \in LBs, ToggleProtection(l)
        PROVE  <1>3!1 /\ <1>3!2
    <3>1. cloud[l] \in LBRecord
      BY <2>0
    <3>2. \A m \in LBs : /\ cloud'[m].st = cloud[m].st /\ cloud'[m].name = cloud[m].name
                         /\ cloud'[m].uid = cloud[m].uid
      BY <2>0, <2>2, <3>1 DEF ToggleProtection, LBRecord
    <3>3. QED
      BY <3>2, SameCloud
  <2>3. ASSUME NEW l \in LBs, NEW n \in LBNames, ImportLB(l, n)
        PROVE  <1>3!1 /\ <1>3!2
    <3>1. /\ cloud[l].st = "unused" /\ cloud'[l].st = "present" /\ cloud'[l].uid = None
          /\ \A m \in LBs \ {l} : cloud'[m] = cloud[m]
      BY <2>0, <2>3 DEF ImportLB, Unused
    <3>2. QED
      BY <3>1, ImportedCloud
  <2>4. QED
    BY <2>1, <2>2, <2>3 DEF User, CreateService, EditAnnotations, DeleteService
<1>4. QED
  BY <1>0, <1>1, <1>2, <1>3 DEF IInv

LEMMA InitInv == Init => IInv
<1> SUFFICES ASSUME Init PROVE IInv
  OBVIOUS
<1>1. TypeOK
  BY InitType
<1>2. \A s \in Services, k \in Kinds : worker[s][k] = IdleWorker
  BY DEF Init
<1>3. SerialInv
  BY <1>2 DEF SerialInv, Idle, IdleWorker
<1>4. CloudOK(cloud)
  BY DEF Init, Unused, CloudOK, LabelledIn
<1>5. \A s \in Services : annot[s] \in NamesOf[s] \cup {None}
  BY DEF Init
<1>6. QED
  BY <1>1, <1>2, <1>3, <1>4, <1>5, IdleOpOK DEF IInv

LEMMA NextInv ==
    ASSUME Serialised, NamesNotShared
    PROVE  IInv /\ [Next]_vars => IInv'
<1> SUFFICES ASSUME IInv, [Next]_vars PROVE IInv'
  OBVIOUS
<1>1. TypeOK'
  BY NextType DEF IInv
<1>2. CASE UNCHANGED vars
  <2>1. SerialInv'
    BY <1>2 DEF vars, IInv, SerialInv, Idle
  <2>2. QED
    BY <1>1, <1>2, <2>1 DEF vars, IInv
<1>3. CASE Next
  <2>1. ASSUME NEW s \in Services, NEW k \in Kinds, WorkerStep(s, k) \/ CallFails(s, k)
        PROVE  IInv'
    BY <1>1, <2>1, LookupStep, CreateStep, InfoStep, FinishStep DEF WorkerStep
  <2>2. QED
    BY <1>1, <1>3, <2>1, StartStep, DeletionStep, RestartStep, UserStep DEF Next
<1>4. QED
  BY <1>2, <1>3

\* The invariant bounds the Load Balancers that carry a Service's label.
LEMMA InvUniqueOwner == IInv => UniqueOwner
BY LabelledNow DEF IInv, CloudOK, UniqueOwner

\* EnsureLoadBalancer never labels two Load Balancers with the UID of one
\* Service, for any number of Services, Load Balancers, names, failed calls
\* and restarts, as long as no name is shared and operations do not overlap.
THEOREM OwnerIsUnique ==
    ASSUME Serialised, NamesNotShared
    PROVE  Spec => []UniqueOwner
<1>1. QED
  BY InitInv, NextInv, InvUniqueOwner, PTL DEF Spec

\* The finalizer goes only after the deletion has ended.
LEMMA GoneStep ==
    ASSUME TypeOK, [Next]_vars, NEW s \in Services, phase[s] # "gone", phase'[s] = "gone"
    PROVE  Releasing(s)
<1>0. phase \in [Services -> Phases]
  BY DEF TypeOK
<1>1. ASSUME NEW t \in Services, DeleteStep(t)
      PROVE  t = s /\ Release(s)
  BY <1>0, <1>1 DEF DeleteStep, GetLoadBalancer, deleteLoadBalancer, Delete, Release
<1>2. ASSUME NEW t \in Services, NEW k \in Kinds, WorkerStep(t, k) \/ CallFails(t, k)
      PROVE  phase' = phase
  BY <1>2 DEF WorkerStep, CallFails, GetByK8SServiceUID, GetByName, Create,
              changeHCLBInfo, FinishPass
<1>3. ASSUME NEW t \in Services, StartEnsure(t) \/ StartUpdate(t) \/ StartDelete(t)
      PROVE  phase' = phase
  BY <1>3 DEF StartEnsure, StartUpdate, StartDelete
<1>4. CASE Restart
  BY <1>4 DEF Restart
<1>5. ASSUME User
      PROVE  FALSE
  BY <1>0, <1>5 DEF User, CreateService, EditAnnotations, DeleteService, ToggleProtection,
                    ImportLB
<1>6. CASE UNCHANGED vars
  BY <1>6 DEF vars
<1>7. QED
  BY <1>1, <1>2, <1>3, <1>4, <1>5, <1>6 DEF Next, Release, Releasing

\* The deletion ends at a moment at which the label of the Service is on no
\* Load Balancer that could have been deleted.
LEMMA LetGoStep ==
    ASSUME IInv, [Next]_vars, NEW s \in Services, ~Releasing(s), Releasing(s)'
    PROVE  Loose(s)' = {}
<1>0. /\ TypeOK /\ cloud \in [LBs -> LBRecord] /\ "service" \in Kinds
      /\ worker \in [Services -> [Kinds -> WorkerRecord]]
      /\ OpOK(cloud, s, worker[s]["service"])
  BY DEF IInv, TypeOK, Kinds
<1>1. ASSUME NEW t \in Services, NEW k \in Kinds, NEW w, w.pc # "release",
             worker' = [worker EXCEPT ![t][k] = w]
      PROVE  FALSE
  <2>1. worker'[s]["service"] = IF t = s /\ k = "service" THEN w ELSE worker[s]["service"]
    BY <1>0, <1>1
  <2>2. QED
    BY <1>1, <2>1 DEF Releasing, At
<1>2. ASSUME NEW t \in Services, NEW k \in Kinds,
             Abort(t, k) \/ Fault(t, k) \/ Return(t, k)
      PROVE  FALSE
  <2>1. worker' = [worker EXCEPT ![t][k] = IdleWorker] /\ IdleWorker.pc # "release"
    BY <1>2 DEF Abort, Fault, Return, Proceed, IdleWorker
  <2>2. QED
    BY <1>1, <2>1
<1>3. ASSUME NEW t \in Services, NEW k \in Kinds, NEW pc \in PCs \ {"release"},
             \/ Goto(t, k, pc)
             \/ cloud' \in [LBs -> LBRecord] /\ \E l \in LBs : Hold(t, k, l, pc)
      PROVE  FALSE
  <2>1. PICK w \in WorkerRecord : w.pc = pc /\ worker' = [worker EXCEPT ![t][k] = w]
    BY <1>0, <1>3, GotoType, HoldType
  <2>2. QED
    BY <1>1, <2>1
<1>4. cloud' \in [LBs -> LBRecord] /\ {"lookup", "delete", "name", "create", "info", "rest"} \subseteq PCs
  BY <1>0, NextType DEF TypeOK, PCs
<1>5. ASSUME NEW t \in Services, NEW k \in Kinds, WorkerStep(t, k) \/ CallFails(t, k)
      PROVE  FALSE
  <2>1. worker[t][k].pc = "info" => worker[t][k].lb \in LBs
    BY <1>0 DEF TypeOK
  <2>2. QED
    BY <1>2, <1>3, <1>4, <1>5, <2>1
    DEF WorkerStep, CallFails, GetByK8SServiceUID, GetByName, Named, Create,
        changeHCLBInfo, At, FinishPass
<1>6. ASSUME NEW t \in Services, StartEnsure(t) \/ StartUpdate(t) \/ StartDelete(t)
      PROVE  FALSE
  <2>1. ASSUME NEW k \in Kinds, NEW pc \in {"uid", "get"}, Start(t, k, pc)
        PROVE  FALSE
    <3> DEFINE w == [IdleWorker EXCEPT !.pc = pc, !.annot = annot[t], !.bad = bad[t]]
    <3>1. w.pc = pc /\ worker' = [worker EXCEPT ![t][k] = w]
      BY <2>1 DEF Start, IdleWorker
    <3> HIDE DEF w
    <3>2. QED
      BY <1>1, <3>1
  <2>2. QED
    BY <1>6, <2>1 DEF StartEnsure, StartUpdate, StartDelete, Kinds
<1>7. ASSUME Restart \/ User \/ UNCHANGED vars
      PROVE  FALSE
  <2>1. CASE Restart
    BY <1>0, <2>1 DEF Restart, Releasing, At, IdleWorker
  <2>2. CASE User \/ UNCHANGED vars
    <3>1. worker' = worker
      BY <2>2 DEF User, vars, CreateService, EditAnnotations, DeleteService,
                  ToggleProtection, ImportLB
    <3>2. QED
      BY <3>1 DEF Releasing, At
  <2>3. QED
    BY <1>7, <2>1, <2>2
<1>8. ASSUME NEW t \in Services, DeleteStep(t)
      PROVE  t = s /\ LetGo(s)
  <2>1. LetGo(t)
    BY <1>0, <1>2, <1>3, <1>4, <1>8
    DEF DeleteStep, GetLoadBalancer, deleteLoadBalancer, IgnoreProtected, Delete, Release
  <2>2. worker' = [worker EXCEPT ![t]["service"] = [worker[t]["service"] EXCEPT !.pc = "release"]]
    BY <2>1 DEF LetGo, Goto, Proceed
  <2>3. t # s => worker'[s]["service"] = worker[s]["service"]
    BY <1>0, <2>2
  <2>4. QED
    BY <2>1, <2>3 DEF Releasing, At
<1>9. DeleteStep(s) /\ LetGo(s)
  BY <1>5, <1>6, <1>7, <1>8 DEF Next
<1>10. SUFFICES ASSUME NEW l \in LabelledIn(cloud', s) PROVE cloud'[l].protect
  BY DEF LabelledIn, Loose, Labelled, Present
<1>11. \A pc \in {"lookup", "delete"} : ~Goto(s, "service", pc)
  BY <1>0, <1>3, <1>4
<1>12. ~(\E m \in LBs : Hold(s, "service", m, "delete"))
  BY <1>0, <1>3, <1>4
<1>13. ~Abort(s, "service") /\ ~Fault(s, "service") /\ ~Return(s, "service")
  BY <1>0, <1>2
<1>14. CASE GetLoadBalancer(s)
  BY <1>10, <1>11, <1>13, <1>14, LabelledNow DEF GetLoadBalancer, NotFoundByUID
<1>15. CASE deleteLoadBalancer(s)
  <2>1. cloud' = cloud
    BY <1>15 DEF deleteLoadBalancer
  <2>2. \/ Labelled(s) = {}
        \/ \E m \in LBs : Labelled(s) = {m} /\ cloud[m].protect
    BY <1>12, <1>13, <1>15 DEF deleteLoadBalancer, NotFoundByUID
  <2>3. QED
    BY <1>10, <2>1, <2>2, LabelledNow
<1>16. CASE Delete(s)
  <2> DEFINE d == worker[s]["service"].lb
  <2>1. d \in LBs /\ LabelledIn(cloud, s) \subseteq {d}
    BY <1>0, <1>16 DEF Delete, At, OpOK
  <2>2. CASE ~Present(d) /\ cloud' = cloud
    BY <1>10, <2>1, <2>2 DEF LabelledIn, Present
  <2>3. CASE cloud' = [cloud EXCEPT ![d] = [Unused EXCEPT !.st = "deleted"]]
    BY <1>0, <1>10, <2>1, <2>3 DEF LabelledIn, Unused
  <2>4. QED
    BY <1>13, <1>16, <2>2, <2>3 DEF Delete, DeleteNotFound
<1>17. CASE Release(s)
  BY <1>13, <1>17 DEF Release
<1>18. QED
  BY <1>9, <1>14, <1>15, <1>16, <1>17 DEF DeleteStep

\* Until the finalizer is gone, no operation of any Service gives this one a
\* Load Balancer: a user does, if anyone.
LEMMA GapStep ==
    ASSUME NamesNotShared, IInv, [Next]_vars, NEW s \in Services, Releasing(s)
    PROVE  Loose(s)' \subseteq Loose(s) \/ edits' # edits
<1>0. /\ TypeOK /\ cloud \in [LBs -> LBRecord] /\ Kinds = {"service", "node"}
      /\ None \notin Services
  BY LoadBalancersAssumption DEF IInv, TypeOK, Kinds, LoadBalancersAssumption
<1>1. CASE cloud' = cloud
  BY <1>1 DEF Loose, Labelled, Present
<1>2. ASSUME NEW l \in LBs, \A m \in LBs \ {l} : cloud'[m] = cloud[m],
             cloud'[l].st = "present" => cloud'[l].uid # s
      PROVE  Loose(s)' \subseteq Loose(s)
  BY <1>2 DEF Loose, Labelled, Present
<1>3. ASSUME NEW k \in Kinds, NEW pc \in {"create", "info"}
      PROVE  ~At(s, k, pc)
  <2>1. "service" \in Kinds /\ "node" \in Kinds /\ worker[s]["node"].pc = "idle"
    BY <1>0 DEF IInv, SerialInv, Idle, Releasing, At
  <2>2. QED
    BY <1>0, <2>1 DEF Releasing, At
<1>4. ASSUME NEW t \in Services, NEW k \in Kinds, Create(t, k)
      PROVE  Loose(s)' \subseteq Loose(s)
  <2>1. t # s
    BY <1>3, <1>4 DEF Create
  <2>2. ASSUME NEW l \in LBs, NEW n, cloud' = [cloud EXCEPT ![l] = NewLB(t, n)]
        PROVE  Loose(s)' \subseteq Loose(s)
    <3>1. cloud'[l].uid = t /\ \A m \in LBs \ {l} : cloud'[m] = cloud[m]
      BY <1>0, <2>2 DEF NewLB
    <3>2. QED
      BY <1>2, <2>1, <3>1
  <2>3. QED
    BY <1>1, <1>4, <2>2 DEF Create
<1>5. ASSUME NEW t \in Services, NEW k \in Kinds, changeHCLBInfo(t, k)
      PROVE  Loose(s)' \subseteq Loose(s)
  <2> DEFINE w == worker[t][k]
  <2>1. t # s
    BY <1>3, <1>5 DEF changeHCLBInfo
  <2>2. w.lb \in LBs /\ w.luid \in {None, t} /\ OpOK(cloud, t, w) /\ w.pc = "info"
    BY <1>5 DEF changeHCLBInfo, At, IInv, OpOK
  <2>3. ASSUME NEW u, NEW n, Present(w.lb), u = IF SetLabel(t, w) THEN LabelsSent(t, w) ELSE cloud[w.lb].uid,
               cloud' = [cloud EXCEPT ![w.lb].uid = u, ![w.lb].name = n]
        PROVE  Loose(s)' \subseteq Loose(s)
    <3>1. cloud[w.lb] \in LBRecord
      BY <1>0, <2>2
    <3>2. w.luid = t => cloud[w.lb].uid = t
      BY <2>2, <2>3 DEF OpOK, Present
    <3>3. u = t
      BY <1>0, <2>2, <2>3, <3>2 DEF SetLabel, LabelsSent
    <3>4. cloud'[w.lb] = [cloud[w.lb] EXCEPT !.uid = u, !.name = n]
          /\ \A m \in LBs \ {w.lb} : cloud'[m] = cloud[m]
      BY <1>0, <2>2, <2>3
    <3>5. cloud'[w.lb].uid = t
      BY <3>1, <3>3, <3>4 DEF LBRecord
    <3> HIDE DEF w
    <3>6. QED
      BY <1>2, <2>1, <2>2, <3>4, <3>5
  <2>4. QED
    BY <1>1, <1>5, <2>3 DEF changeHCLBInfo
<1>6. ASSUME NEW t \in Services, Delete(t)
      PROVE  Loose(s)' \subseteq Loose(s)
  <2> DEFINE d == worker[t]["service"].lb
  <2>1. d \in LBs
    BY <1>0, <1>6 DEF Delete, At, TypeOK
  <2>2. ASSUME cloud' = [cloud EXCEPT ![d] = [Unused EXCEPT !.st = "deleted"]]
        PROVE  Loose(s)' \subseteq Loose(s)
    <3>1. cloud'[d].st = "deleted" /\ \A m \in LBs \ {d} : cloud'[m] = cloud[m]
      BY <1>0, <2>1, <2>2 DEF Unused
    <3>2. QED
      BY <1>2, <2>1, <3>1
  <2>3. QED
    BY <1>1, <1>6, <2>2 DEF Delete
<1>7. ASSUME NEW l \in LBs, ToggleProtection(l) \/ \E n \in LBNames : ImportLB(l, n)
      PROVE  edits' # edits
  <2>1. edits \in 0 .. MaxEdits /\ MaxEdits \in Nat
    BY <1>0, LoadBalancersAssumption DEF TypeOK, LoadBalancersAssumption
  <2>2. edits' = edits + 1
    BY <1>7 DEF ToggleProtection, ImportLB, Edit
  <2>3. QED
    BY <2>1, <2>2
<1>8. CASE User
  BY <1>1, <1>7, <1>8 DEF User, CreateService, EditAnnotations, DeleteService
<1>9. ASSUME NEW t \in Services, NEW k \in Kinds, WorkerStep(t, k) \/ CallFails(t, k)
      PROVE  Loose(s)' \subseteq Loose(s)
  BY <1>1, <1>4, <1>5, <1>9
  DEF WorkerStep, CallFails, GetByK8SServiceUID, GetByName, FinishPass
<1>10. ASSUME NEW t \in Services,
              StartEnsure(t) \/ StartUpdate(t) \/ StartDelete(t) \/ DeleteStep(t)
       PROVE  Loose(s)' \subseteq Loose(s)
  BY <1>1, <1>6, <1>10
  DEF StartEnsure, StartUpdate, StartDelete, DeleteStep, GetLoadBalancer, deleteLoadBalancer,
      Release
<1>11. CASE Restart \/ UNCHANGED vars
  BY <1>1, <1>11 DEF Restart, vars
<1>12. QED
  BY <1>8, <1>9, <1>10, <1>11 DEF Next

\* EnsureLoadBalancerDeleted returns nil only at a moment at which every Load
\* Balancer labelled with the UID of the Service is deleted or protected, the
\* finalizer goes only then, and nothing but a user brings an unprotected one
\* back before it is gone.
THEOREM FinalizerGoesLast ==
    ASSUME Serialised, NamesNotShared
    PROVE  Spec => FinalizerReleased
<1>1. ASSUME IInv, [Next]_vars, NEW s \in Services
      PROVE  /\ phase[s] # "gone" /\ phase'[s] = "gone" => Releasing(s)
             /\ ~Releasing(s) /\ Releasing(s)' => Loose(s)' = {}
             /\ Releasing(s) => \/ Loose(s)' \subseteq Loose(s)
                                \/ edits' # edits
                                \/ At(s, "node", "info")
  <2>1. TypeOK
    BY <1>1 DEF IInv
  <2>2. QED
    BY <1>1, <2>1, GoneStep, LetGoStep, GapStep
<1>2. IInv /\ [Next]_vars =>
          [\A s \in Services :
              /\ phase[s] # "gone" /\ phase'[s] = "gone" => Releasing(s)
              /\ ~Releasing(s) /\ Releasing(s)' => Loose(s)' = {}
              /\ Releasing(s) => \/ Loose(s)' \subseteq Loose(s)
                                 \/ edits' # edits
                                 \/ At(s, "node", "info")]_vars
  BY <1>1
<1>3. QED
  BY <1>2, InitInv, NextInv, PTL DEF Spec, FinalizerReleased
=============================================================================
