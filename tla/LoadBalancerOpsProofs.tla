------------------------ MODULE LoadBalancerOpsProofs ------------------------
(***************************************************************************)
(* Proofs about LoadBalancerOps, for any servers, ports, specs, limits,    *)
(* edits and failures: once nothing is due and the last pass ran alone,    *)
(* the Load Balancer is what the Service and the nodes ask for, whatever   *)
(* passes overlapped before, and no pass undoes what the one before it     *)
(* did.                                                                    *)
(*                                                                         *)
(* The properties speak of the Load Balancer between two passes.  The      *)
(* inductive invariant says what each stage of a pass may rely on.  Of the *)
(* networks this holds for two passes beside one another: a pass only ever *)
(* detaches others and attaches the cluster's.  Of the rest it holds for a *)
(* pass that runs alone: the part of the Load Balancer that is still ahead *)
(* is as in the copy the pass works on, and the part that is behind is as  *)
(* the Service asks for.                                                   *)
(***************************************************************************)
EXTENDS LoadBalancerOps, FiniteSetTheorems, TLAPS

PassFields == {"at", "op", "svc", "nodes", "lb", "robot", "changed", "todo", "left",
               "number", "skipped", "moved"}
Attributes == {"rdns4", "rdns6", "alg", "ltype", "pub"}

\* The pass has its copy of the Load Balancer.
Running == pass.at \notin {"idle", "get"}

----------------------------------------------------------------------------
(* The parts of a pass.                                                    *)

\* ReconcileHCLB up to the stage that sets an attribute.
UpTo(f) ==
    CASE f = "rdns4" -> {"rdns4"}
      [] f = "rdns6" -> {"rdns4", "rdns6"}
      [] f = "alg"   -> {"rdns4", "rdns6", "algorithm"}
      [] f = "ltype" -> {"rdns4", "rdns6", "algorithm", "type"}
      [] f = "pub"   -> {"rdns4", "rdns6", "algorithm", "type", "detach", "attach",
                         "retry", "public"}

NetStages == {"rdns4", "rdns6", "algorithm", "type", "detach"}
LBStages == {"rdns4", "rdns6", "algorithm", "type", "detach", "attach", "retry", "public"}
TargetStages == {"robot", "remove", "add"}
ServiceStages == {"services", "leftover"}

\* The listen ports, and the targets, have not been looked at yet.
ServicesAhead ==
    \/ pass.at \in LBStages \cup {"cert"}
    \/ pass.at \in TargetStages /\ pass.op = "update"
ServicesBehind == Running /\ ~ServicesAhead /\ pass.at \notin ServiceStages

TargetsAhead ==
    \/ pass.at \in LBStages \cup {"robot"}
    \/ pass.at \in ServiceStages \cup {"cert"} /\ pass.op = "ensure"
TargetsBehind == Running /\ ~TargetsAhead /\ pass.at \notin {"remove", "add"}

----------------------------------------------------------------------------
(* The inductive invariant: what holds of any pass.                        *)

PassTypes(p) ==
    p # IdlePass =>
        /\ DOMAIN p = PassFields
        /\ p.at \in Stages \ {"idle"}
        /\ p.op \in {"ensure", "update"}
        /\ p.svc \in Specs
        /\ p.number \in Int
        /\ p.changed \in BOOLEAN /\ p.moved \in BOOLEAN
        /\ p.at # "get" => IsLB(p.lb)

\* What a pass that runs alone leaves behind is known, else nothing is.
AloneTypes ==
    /\ alone \in BOOLEAN
    /\ alone => other = IdlePass
    /\ ~alone => seen = None
    /\ pass = IdlePass => other = IdlePass

TypeInv ==
    /\ svc \in Specs
    /\ nodes \subseteq Servers \cup RobotServers
    /\ robot \in [RobotServers -> SUBSET Families]
    /\ IsLB(lb)
    /\ PassTypes(pass) /\ PassTypes(other)
    /\ AloneTypes
    /\ ensure \in BOOLEAN /\ update \in BOOLEAN
    /\ faults \in 0 .. MaxFaults /\ edits \in 0 .. MaxEdits

OwnNets == {NetworkID} \ {None}

\* The networks of the Load Balancer that a pass relies on.
NetFacts(p, nets) ==
    p # IdlePass /\ p.at # "get" =>
        /\ p.lb.nets \cap OwnNets \subseteq nets
        /\ p.at \in NetStages =>
              /\ nets \subseteq p.todo \cup OwnNets
              /\ NetworkID \notin p.todo
              /\ ~p.changed \/ p.at # "detach" => p.todo = p.lb.nets \ {NetworkID}
        /\ p.at \in {"attach", "retry"} =>
              /\ nets \subseteq OwnNets
              /\ ~p.changed => p.lb.nets \subseteq OwnNets
        /\ p.at \notin NetStages \cup {"attach", "retry"} =>
              /\ nets = OwnNets
              /\ ~p.changed => p.lb.nets = OwnNets

\* The networks that any call leaves: others go, the cluster's comes.
NetsMove(old, new) == new \subseteq old \cup OwnNets /\ old \cap OwnNets \subseteq new

Ensuring(p) == p # IdlePass /\ p.op = "ensure"

NetInv ==
    /\ NetFacts(pass, lb.nets) /\ NetFacts(other, lb.nets)
    /\ ~ensure /\ ~Ensuring(pass) /\ ~Ensuring(other) => lb.nets = OwnNets /\ status = OwnNets

----------------------------------------------------------------------------
(* The inductive invariant: what holds of a pass that runs alone.          *)

\* Unless one is due, the pass was called with what is there now.
FreshInv ==
    pass # IdlePass => /\ ~ensure => pass.svc = svc
                       /\ ~update => pass.nodes = nodes

AttrInv ==
    Running => \A f \in Attributes :
        IF pass.at \in UpTo(f) THEN lb[f] = pass.lb[f]
                               ELSE pass.svc[f] # None => lb[f] = pass.svc[f]

\* Every port of the Service has looked up the managed certificate.
CertInv ==
    /\ ServicesBehind \/ pass.at \in ServiceStages =>
          pass.svc.cert \in certs \cup TakenNames \cup {None}
    /\ \/ ServicesBehind
       \/ pass.at \in ServiceStages /\ pass.todo # PortsOf(pass.svc.ports)
       => CertResolved

PortInv ==
    /\ ServicesAhead => lb.ports = pass.lb.ports
    /\ pass.at \in ServiceStages =>
          /\ pass.todo \subseteq PortsOf(pass.svc.ports)
          /\ pass.left \subseteq Ports
          /\ pass.at = "leftover" => pass.todo = {}
          /\ \A p \in Ports \ pass.todo : pass.svc.ports[p] # None =>
                lb.ports[p] = pass.svc.ports[p] /\ p \notin pass.left
          /\ \A p \in Ports \ pass.left : pass.svc.ports[p] = None => lb.ports[p] = None
    /\ ServicesBehind => lb.ports = pass.svc.ports

\* No target is left that the pass does not want.
StrayInv ==
    /\ TargetsAhead \/ pass.at = "remove" => lb.targets \subseteq pass.lb.targets
    /\ pass.at = "remove" =>
          /\ (lb.targets \cap Targets) \ PassWanted \subseteq pass.todo
          /\ pass.todo \subseteq (pass.lb.targets \cap Targets) \ PassWanted
    /\ pass.at = "add" => pass.todo \subseteq PassWanted
    /\ pass.at = "add" \/ TargetsBehind => lb.targets \cap Targets \subseteq PassWanted

\* No target the pass wants is lost, unless a server is deleted meanwhile.
MissingInv ==
    ~update =>
        /\ TargetsAhead => lb.targets = pass.lb.targets
        /\ pass.at = "remove" => pass.lb.targets \cap PassWanted \subseteq lb.targets
        /\ pass.at = "add" => PassWanted \subseteq lb.targets \cup pass.todo \cup pass.skipped
        /\ TargetsBehind => PassWanted \subseteq lb.targets \cup pass.skipped

SettledInv == ConfigConverged /\ ServicesConverged /\ TargetsConverged

\* What a successful pass established holds until a pass starts from something
\* else, or beside another one.
SeenWanted == Wanted(seen.svc, seen.nodes, seen.robot)
SeenInv ==
    seen # None =>
        /\ lb.ports = seen.svc.ports
        /\ lb.targets \cap Targets \subseteq SeenWanted
        /\ pass # IdlePass => pass.svc = seen.svc /\ pass.nodes = seen.nodes
        /\ Running => pass.lb.targets \cap Targets \subseteq SeenWanted
        /\ pass.at \in {"remove", "add"} \/ TargetsBehind => pass.robot = seen.robot

Inv == /\ TypeInv /\ NetInv /\ SettledInv /\ SeenInv
       /\ alone => FreshInv /\ AttrInv /\ CertInv /\ PortInv /\ StrayInv /\ MissingInv

----------------------------------------------------------------------------
(* What a step of a pass leaves alone.                                     *)

\* The pass goes on.
Continues ==
    /\ pass # IdlePass /\ pass.at \notin {"idle", "get"}
    /\ pass' # IdlePass /\ DOMAIN pass' = PassFields
    /\ pass'.at \in Stages \ {"idle", "get"}
    /\ pass'.op = pass.op /\ pass'.svc = pass.svc /\ pass'.nodes = pass.nodes
    /\ pass'.lb = pass.lb
    /\ pass'.number \in Int
    /\ pass'.changed \in BOOLEAN /\ pass'.moved \in BOOLEAN
    /\ pass.changed => pass'.changed
    /\ IsLB(lb')
    /\ UNCHANGED <<other, alone, status, ensure, update, svc, nodes, robot, edits>>
    /\ seen' \in {seen, None}
    /\ faults' \in 0 .. MaxFaults

\* The pass ends with an error.
GivesUp ==
    /\ pass # IdlePass
    /\ GiveUp
    /\ IsLB(lb') /\ NetsMove(lb.nets, lb'.nets)
    /\ UNCHANGED <<certs, status, svc, nodes, robot, edits>>
    /\ faults' \in 0 .. MaxFaults

LEMMA IdleFacts == IdlePass.at = "idle" /\ DOMAIN IdlePass = {"at"}
BY DEF IdlePass

\* In the stages of a pass the record has its fields.
LEMMA PassFacts ==
    ASSUME TypeInv, pass.at \notin {"idle", "get"}
    PROVE  /\ pass # IdlePass
           /\ DOMAIN pass = PassFields
           /\ pass.at \in Stages \ {"idle"}
           /\ pass.op \in {"ensure", "update"}
           /\ pass.svc \in Specs
           /\ pass.number \in Int
           /\ pass.changed \in BOOLEAN /\ pass.moved \in BOOLEAN
           /\ IsLB(pass.lb)
<1>1. pass # IdlePass
  BY IdleFacts
<1>2. QED
  BY <1>1 DEF TypeInv, PassTypes

LEMMA NetsStay ==
    ASSUME NEW nets
    PROVE  NetsMove(nets, nets)
BY DEF NetsMove

\* What a pass relies on is not disturbed by the calls of the other one.
LEMMA NetFactsStay ==
    ASSUME NEW p, NEW old, NEW new, NetFacts(p, old), NetsMove(old, new)
    PROVE  NetFacts(p, new) /\ (old = OwnNets => new = OwnNets)
BY DEF NetFacts, NetsMove

\* Between two passes the invariant of a pass that runs alone claims nothing.
LEMMA IdleInv ==
    ASSUME pass' = IdlePass
    PROVE  FreshInv' /\ AttrInv' /\ CertInv' /\ PortInv' /\ StrayInv' /\ MissingInv'
<1>1. pass'.at = "idle"
  BY IdleFacts
<1>2. ~Running' /\ ~ServicesAhead' /\ ~TargetsAhead'
  BY <1>1 DEF Running, ServicesAhead, TargetsAhead, LBStages, NetStages, TargetStages,
              ServiceStages
<1>3. QED
  BY <1>1, <1>2 DEF FreshInv, AttrInv, CertInv, PortInv, StrayInv, MissingInv, ServicesBehind,
                    TargetsBehind, ServiceStages

LEMMA GivesUpInv ==
    ASSUME Inv, GivesUp
    PROVE  Inv'
<1>0. TypeInv /\ NetInv /\ pass.op \in {"ensure", "update"}
      /\ ensure \in BOOLEAN /\ update \in BOOLEAN
  BY DEF Inv, GivesUp, TypeInv, PassTypes
<1>1. /\ pass' = other /\ other' = IdlePass /\ alone' = alone /\ seen' = None
      /\ ensure' \in BOOLEAN /\ update' \in BOOLEAN
      /\ ensure' \/ update'
      /\ ensure' = FALSE => ensure = FALSE /\ pass.op = "update"
  BY <1>0 DEF GivesUp, GiveUp, EndPass
<1>2. TypeInv'
  BY <1>0, <1>1 DEF GivesUp, TypeInv, PassTypes, AloneTypes
<1>3. NetInv'
  <2>1. NetFacts(other, lb'.nets)
    BY <1>0, NetFactsStay DEF NetInv, GivesUp
  <2>2. ~ensure' /\ ~Ensuring(other) => lb'.nets = OwnNets /\ status' = OwnNets
    BY <1>0, <1>1, NetFactsStay DEF NetInv, GivesUp, Ensuring
  <2>3. NetFacts(IdlePass, lb'.nets) /\ ~Ensuring(IdlePass)
    BY DEF NetFacts, Ensuring
  <2>4. QED
    BY <1>1, <2>1, <2>2, <2>3 DEF NetInv, NetFacts, Ensuring, OwnNets
<1>4. SettledInv' /\ SeenInv'
  BY <1>1
  DEF SettledInv, ConfigConverged, ServicesConverged, TargetsConverged, Settled, Quiet, SeenInv
<1>5. alone' => pass' = IdlePass
  BY <1>0, <1>1 DEF TypeInv, AloneTypes
<1>6. QED
  BY <1>2, <1>3, <1>4, <1>5, IdleInv DEF Inv

\* The parts of the invariant that no step of a pass that goes on disturbs.
LEMMA ContinuesInv ==
    ASSUME Inv, Continues
    PROVE  TypeInv' /\ SettledInv' /\ (alone => FreshInv') /\ alone' = alone
           /\ (~alone => SeenInv')
<1>0. /\ TypeInv /\ pass.op \in {"ensure", "update"} /\ pass.svc \in Specs /\ IsLB(pass.lb)
      /\ alone' = alone
  BY PassFacts DEF Inv, Continues
<1>1. PassTypes(pass)' /\ PassTypes(other)' /\ AloneTypes'
  BY <1>0 DEF Continues, PassTypes, TypeInv, AloneTypes
<1>2. TypeInv'
  BY <1>0, <1>1 DEF Continues, TypeInv
<1>3. alone => FreshInv'
  BY <1>0 DEF Continues, FreshInv, Inv
<1>4. SettledInv'
  BY DEF Continues, SettledInv, ConfigConverged, ServicesConverged, TargetsConverged, Settled,
         Quiet
<1>5. ~alone => seen' = None
  BY <1>0 DEF Continues, TypeInv, AloneTypes
<1>6. QED
  BY <1>0, <1>2, <1>3, <1>4, <1>5 DEF SeenInv

\* Networks: the pass can rely on what is there after its step.
LEMMA NetGoesOn ==
    ASSUME NetInv, Continues, NetsMove(lb.nets, lb'.nets), NetFacts(pass', lb'.nets)
    PROVE  NetInv'
<1>1. NetFacts(other, lb'.nets) /\ other' = other /\ status' = status /\ ensure' = ensure
      /\ (lb.nets = OwnNets => lb'.nets = OwnNets)
  BY NetFactsStay DEF NetInv, Continues
<1>2. Ensuring(pass') <=> Ensuring(pass)
  BY DEF Continues, Ensuring
<1>3. QED
  BY <1>1, <1>2 DEF NetInv, NetFacts, Ensuring, OwnNets

\* The step leaves them alone, and is not the last one that may not.
LEMMA NetFrame ==
    ASSUME NetInv, Continues, lb'.nets = lb.nets,
           pass.at \in NetStages => pass'.todo = pass.todo /\ pass.at # "detach",
           pass.at \in NetStages <=> pass'.at \in NetStages,
           pass.at \in {"attach", "retry"} <=> pass'.at \in {"attach", "retry"}
    PROVE  NetInv'
<1>1. ~pass'.changed => ~pass.changed
  BY DEF Continues
<1>2. NetFacts(pass', lb'.nets)
  BY <1>1 DEF NetInv, NetFacts, Continues
<1>3. QED
  BY <1>2, NetsStay, NetGoesOn

LEMMA AttrFrame ==
    ASSUME AttrInv, Continues, \A f \in Attributes : lb'[f] = lb[f],
           \A f \in Attributes : pass.at \in UpTo(f) <=> pass'.at \in UpTo(f)
    PROVE  AttrInv'
BY DEF AttrInv, Continues, Running

\* Outside ReconcileHCLB no attribute is ahead.
LEMMA NoneAhead ==
    ASSUME NEW at, at \notin LBStages, NEW f \in Attributes
    PROVE  at \notin UpTo(f)
BY DEF LBStages, Attributes, UpTo

LEMMA PortFrame ==
    ASSUME PortInv, CertInv, Continues, certs' = certs, lb'.ports = lb.ports,
           pass.at \notin ServiceStages, pass'.at \notin ServiceStages,
           ServicesAhead <=> ServicesAhead'
    PROVE  PortInv' /\ CertInv'
<1>1. ServicesBehind <=> ServicesBehind'
  BY DEF ServicesBehind, Continues, Running
<1>2. CertResolved' <=> CertResolved
  BY DEF CertResolved, GetCertificateByLabel, Continues
<1>3. QED
  BY <1>1, <1>2 DEF PortInv, CertInv, Continues

LEMMA WantedFrame ==
    ASSUME Continues, pass'.robot = pass.robot
    PROVE  PassWanted' = PassWanted
BY DEF Continues, PassWanted

LEMMA TargetFrame ==
    ASSUME StrayInv, MissingInv, Continues, lb'.targets = lb.targets,
           pass'.robot = pass.robot, pass'.skipped = pass.skipped,
           pass.at \notin {"remove", "add"}, pass'.at \notin {"remove", "add"},
           TargetsAhead <=> TargetsAhead'
    PROVE  StrayInv' /\ MissingInv'
<1>1. TargetsBehind <=> TargetsBehind'
  BY DEF TargetsBehind, Continues, Running
<1>2. PassWanted' = PassWanted
  BY WantedFrame
<1>3. StrayInv'
  BY <1>1, <1>2 DEF StrayInv, Continues
<1>4. MissingInv'
  BY <1>1, <1>2 DEF MissingInv, Continues
<1>5. QED
  BY <1>3, <1>4

\* The step leaves the targets alone, and the ports that were seen.
LEMMA SeenFrame ==
    ASSUME SeenInv, Continues, seen' = seen, pass'.robot = pass.robot,
           seen # None => lb'.ports = lb.ports, lb'.targets = lb.targets,
           TargetsAhead <=> TargetsAhead'
    PROVE  SeenInv'
<1>1. pass.at \in {"remove", "add"} \/ TargetsBehind <=> ~TargetsAhead
  BY DEF TargetsBehind, Continues, Running, TargetsAhead, LBStages, NetStages, ServiceStages
<1>2. (pass.at \in {"remove", "add"} \/ TargetsBehind)' <=> ~TargetsAhead'
  BY DEF TargetsBehind, Continues, Running, TargetsAhead, LBStages, NetStages, ServiceStages
<1>3. SeenWanted' = SeenWanted
  BY DEF SeenWanted
<1>4. QED
  BY <1>1, <1>2, <1>3 DEF SeenInv, Continues, Running

----------------------------------------------------------------------------
(* How the steps of a pass end.                                            *)

LEMMA FaultsFacts ==
    ASSUME TypeInv
    PROVE  /\ faults \in 0 .. MaxFaults
           /\ faults < MaxFaults => faults + 1 \in 0 .. MaxFaults
BY LoadBalancerOpsAssumption DEF LoadBalancerOpsAssumption, TypeInv

LEMMA AbortGivesUp ==
    ASSUME TypeInv, pass.at \notin {"idle", "get"}, Abort
    PROVE  GivesUp
BY PassFacts, FaultsFacts, NetsStay DEF Abort, GivesUp, Env, TypeInv

LEMMA FaultGivesUp ==
    ASSUME TypeInv, pass.at \notin {"idle", "get"}, NEW l, IsLB(l), Fault(l),
           NetsMove(lb.nets, l.nets)
    PROVE  GivesUp
BY PassFacts, FaultsFacts DEF Fault, GivesUp, Env

\* The pass goes on with the same fields but at and changed.
GoesOn(stage) ==
    /\ Continues
    /\ pass'.at = stage
    /\ UNCHANGED <<certs, seen>>
    /\ pass'.robot = pass.robot /\ pass'.todo = pass.todo /\ pass'.left = pass.left
    /\ pass'.skipped = pass.skipped

LEMMA GotoGoesOn ==
    ASSUME TypeInv, pass.at \notin {"idle", "get"}, NEW stage \in Stages \ {"idle", "get"}, Goto(stage)
    PROVE  GoesOn(stage) /\ lb' = lb
<1>1. pass' = [pass EXCEPT !.at = stage] /\ lb' = lb
      /\ UNCHANGED <<certs, other, alone, status, ensure, update, seen, faults, svc, nodes,
                     robot, edits>>
  BY DEF Goto, Continue, Env, Beside
<1>2. DOMAIN pass = PassFields
  BY PassFacts
<1>3. pass'.at # "idle"
  BY <1>1, <1>2 DEF PassFields
<1>4. QED
  BY <1>1, <1>2, <1>3, PassFacts, FaultsFacts, IdleFacts DEF GoesOn, Continues, PassFields, TypeInv

\* The record q of the pass after a call: what it has to do may be less.
KeptBy(q, stage) ==
    /\ DOMAIN q = PassFields /\ q.at = stage /\ q.op = pass.op /\ q.svc = pass.svc
    /\ q.nodes = pass.nodes /\ q.lb = pass.lb /\ q.robot = pass.robot
    /\ q.skipped = pass.skipped
    /\ q.number = pass.number /\ q.moved = pass.moved

LEMMA CallToEnds ==
    ASSUME TypeInv, pass.at \notin {"idle", "get"}, NEW stage \in Stages \ {"idle", "get"},
           NEW q, KeptBy(q, stage), NEW l, IsLB(l), CallTo(q, l), NetsMove(lb.nets, l.nets)
    PROVE  \/ GivesUp
           \/ /\ Continues /\ UNCHANGED <<certs, seen>> /\ lb' = l
              /\ KeptBy(pass', stage) /\ pass'.changed
              /\ pass'.todo = q.todo /\ pass'.left = q.left
<1>1. CASE Fault(l)
  BY <1>1, FaultGivesUp
<1>2. CASE Continue([q EXCEPT !.changed = TRUE], l)
  <2>1. pass' = [q EXCEPT !.changed = TRUE] /\ lb' = l
        /\ UNCHANGED <<certs, other, alone, status, ensure, update, seen, faults, svc, nodes,
                       robot, edits>>
    BY <1>2 DEF Continue, Env, Beside
  <2>2. DOMAIN pass' = PassFields /\ pass'.changed
        /\ \A f \in PassFields \ {"changed"} : pass'[f] = q[f]
    BY <2>1 DEF KeptBy, PassFields
  <2>3. KeptBy(pass', stage) /\ pass'.todo = q.todo /\ pass'.left = q.left
        /\ pass'.changed = TRUE
    BY <2>1, <2>2 DEF KeptBy, PassFields
  <2>4. Continues
    BY <2>1, <2>3, PassFacts, FaultsFacts, IdleFacts DEF Continues, KeptBy
  <2>5. QED
    BY <2>1, <2>3, <2>4
<1>3. QED
  BY <1>1, <1>2 DEF CallTo

LEMMA CallEnds ==
    ASSUME TypeInv, pass.at \notin {"idle", "get"}, NEW stage \in Stages \ {"idle", "get"},
           NEW l, IsLB(l), Call(stage, l), NetsMove(lb.nets, l.nets)
    PROVE  GivesUp \/ (GoesOn(stage) /\ lb' = l /\ pass'.changed)
<1> DEFINE q == [pass EXCEPT !.at = stage]
<1>1. DOMAIN pass = PassFields
  BY PassFacts
<1>2. KeptBy(q, stage) /\ q.todo = pass.todo /\ q.left = pass.left /\ CallTo(q, l)
  BY <1>1 DEF KeptBy, PassFields, Call
<1> HIDE DEF q
<1>3. QED
  BY <1>2, CallToEnds DEF GoesOn, KeptBy

----------------------------------------------------------------------------
(* ReconcileHCLB.                                                          *)

LBFields == {"rdns4", "rdns6", "alg", "ltype", "nets", "pub", "ports", "targets"}

\* The attribute f becomes what the Service asks for, and nothing else changes.
AttrStep(f, next) ==
    /\ GoesOn(next)
    /\ \A g \in LBFields \ {f} : lb'[g] = lb[g]
    /\ (lb' = lb /\ pass.svc[f] \in {None, pass.lb[f]}) \/ lb'[f] = pass.svc[f]

\* The stages of the attributes.
AttrTable(f, stage, next) ==
    \/ f = "rdns4" /\ stage = "rdns4" /\ next = "rdns6"
    \/ f = "rdns6" /\ stage = "rdns6" /\ next = "algorithm"
    \/ f = "alg" /\ stage = "algorithm" /\ next = "type"
    \/ f = "ltype" /\ stage = "type" /\ next = "detach"
    \/ f = "pub" /\ stage = "public" /\ next = AfterLB

LEMMA AttrStepInv ==
    ASSUME Inv, NEW f, NEW next, AttrTable(f, pass.at, next), AttrStep(f, next)
    PROVE  Inv'
<1>0. Continues /\ pass'.at = next /\ UNCHANGED <<certs, seen>>
      /\ pass'.robot = pass.robot /\ pass'.skipped = pass.skipped
      /\ TypeInv /\ pass.op \in {"ensure", "update"}
  BY PassFacts DEF AttrStep, GoesOn, Continues, Inv
<1>1. /\ lb'.nets = lb.nets /\ lb'.ports = lb.ports /\ lb'.targets = lb.targets
      /\ f \in Attributes /\ \A g \in Attributes \ {f} : lb'[g] = lb[g]
  BY DEF AttrStep, AttrTable, LBFields, Attributes
<1>2. /\ pass.at \notin ServiceStages /\ pass'.at \notin ServiceStages
      /\ pass.at \notin {"remove", "add"} /\ pass'.at \notin {"remove", "add"}
      /\ pass.at \in NetStages => pass'.todo = pass.todo /\ pass.at # "detach"
      /\ pass.at \in NetStages <=> pass'.at \in NetStages
      /\ pass.at \in {"attach", "retry"} <=> pass'.at \in {"attach", "retry"}
  BY <1>0 DEF AttrTable, AfterLB, ServiceStages, NetStages, AttrStep, GoesOn
<1>3. ServicesAhead /\ ServicesAhead' /\ TargetsAhead /\ TargetsAhead'
  BY <1>0 DEF AttrTable, AfterLB, ServicesAhead, TargetsAhead, LBStages, NetStages,
              TargetStages, ServiceStages, Continues
<1>4. NetInv'
  BY <1>0, <1>1, <1>2, NetFrame DEF Inv
<1> SUFFICES ASSUME alone
             PROVE  AttrInv' /\ CertInv' /\ PortInv' /\ StrayInv' /\ MissingInv' /\ SeenInv'
  BY <1>0, <1>4, ContinuesInv DEF Inv
<1>5. PortInv' /\ CertInv'
  BY <1>0, <1>1, <1>2, <1>3, PortFrame DEF Inv
<1>6. StrayInv' /\ MissingInv'
  BY <1>0, <1>1, <1>2, <1>3, TargetFrame DEF Inv
<1>7. SeenInv'
  BY <1>0, <1>1, <1>3, SeenFrame DEF Inv
<1>8. AttrInv'
  <2>1. /\ pass.at \in UpTo(f) /\ pass'.at \notin UpTo(f)
        /\ \A g \in Attributes \ {f} : pass.at \in UpTo(g) <=> pass'.at \in UpTo(g)
    BY <1>0 DEF AttrTable, AfterLB, UpTo, Attributes
  <2>2. lb[f] = pass.lb[f]
    BY <1>0, <1>1, <2>1 DEF Inv, AttrInv, Continues, Running
  <2>3. pass'.svc[f] # None => lb'[f] = pass'.svc[f]
    BY <1>0, <2>2 DEF AttrStep, Continues
  <2>4. \A g \in Attributes \ {f} :
           IF pass'.at \in UpTo(g) THEN lb'[g] = pass'.lb[g]
                                   ELSE pass'.svc[g] # None => lb'[g] = pass'.svc[g]
    BY <1>0, <1>1, <2>1 DEF Inv, AttrInv, Continues, Running
  <2>5. QED
    BY <2>1, <2>3, <2>4 DEF AttrInv
<1>9. QED
  BY <1>5, <1>6, <1>7, <1>8

LEMMA ChangeAttribute ==
    ASSUME Inv, NEW f \in Attributes, NEW next, AttrTable(f, pass.at, next),
           \/ pass.svc[f] \in {None, pass.lb[f]} /\ Goto(next)
           \/ Abort
           \/ (f = "ltype" => pass.svc[f] \in Types) /\ Call(next, [lb EXCEPT ![f] = pass.svc[f]])
    PROVE  Inv'
<1>0. TypeInv /\ IsLB(lb) /\ pass.at \notin {"idle", "get"}
  BY DEF Inv, TypeInv, AttrTable
<1>1. next \in Stages \ {"idle", "get"}
  BY DEF AttrTable, Stages, AfterLB
<1>2. CASE pass.svc[f] \in {None, pass.lb[f]} /\ Goto(next)
  <2>1. AttrStep(f, next)
    BY <1>0, <1>1, <1>2, GotoGoesOn DEF AttrStep
  <2>2. QED
    BY <2>1, AttrStepInv
<1>3. CASE Abort
  BY <1>0, <1>3, AbortGivesUp, GivesUpInv
<1>4. CASE (f = "ltype" => pass.svc[f] \in Types) /\ Call(next, [lb EXCEPT ![f] = pass.svc[f]])
  <2> DEFINE l == [lb EXCEPT ![f] = pass.svc[f]]
  <2>1. /\ IsLB(l) /\ NetsMove(lb.nets, l.nets) /\ l[f] = pass.svc[f]
        /\ \A g \in LBFields \ {f} : l[g] = lb[g]
    BY <1>0, <1>4, NetsStay DEF Attributes, IsLB, LBFields
  <2>2. Call(next, l)
    BY <1>4
  <2> HIDE DEF l
  <2>3. GivesUp \/ (GoesOn(next) /\ lb' = l)
    BY <1>0, <1>1, <2>1, <2>2, CallEnds
  <2>4. CASE GoesOn(next) /\ lb' = l
    <3>1. AttrStep(f, next)
      BY <2>1, <2>4 DEF AttrStep
    <3>2. QED
      BY <3>1, AttrStepInv
  <2>5. QED
    BY <2>3, <2>4, GivesUpInv
<1>5. QED
  BY <1>2, <1>3, <1>4

LEMMA AttributesInv ==
    ASSUME Inv,
           changeIPv4RDNS \/ changeIPv6RDNS \/ changeAlgorithm \/ changeType
             \/ togglePublicInterface
    PROVE  Inv'
<1>1. CASE changeIPv4RDNS
  <2>1. AttrTable("rdns4", pass.at, "rdns6")
    BY <1>1 DEF changeIPv4RDNS, Change, AttrTable
  <2>2. QED
    BY <1>1, <2>1, ChangeAttribute DEF changeIPv4RDNS, Change, Attributes
<1>2. CASE changeIPv6RDNS
  <2>1. AttrTable("rdns6", pass.at, "algorithm")
    BY <1>2 DEF changeIPv6RDNS, Change, AttrTable
  <2>2. QED
    BY <1>2, <2>1, ChangeAttribute DEF changeIPv6RDNS, Change, Attributes
<1>3. CASE changeAlgorithm
  <2>1. AttrTable("alg", pass.at, "type")
    BY <1>3 DEF changeAlgorithm, Change, AttrTable
  <2>2. QED
    BY <1>3, <2>1, ChangeAttribute DEF changeAlgorithm, Change, Attributes
<1>4. CASE changeType
  <2>1. AttrTable("ltype", pass.at, "detach")
    BY <1>4 DEF changeType, AttrTable
  <2>2. pass.svc.ltype \in Types \cup {None}
    BY <1>4, PassFacts, LoadBalancerOpsAssumption
    DEF changeType, Inv, LoadBalancerOpsAssumption
  <2>3. QED
    BY <1>4, <2>1, <2>2, ChangeAttribute DEF changeType, Attributes
<1>5. CASE togglePublicInterface
  <2>1. AttrTable("pub", pass.at, AfterLB)
    BY <1>5 DEF togglePublicInterface, Change, AttrTable
  <2>2. QED
    BY <1>5, <2>1, ChangeAttribute DEF togglePublicInterface, Change, Attributes
<1>6. QED
  BY <1>1, <1>2, <1>3, <1>4, <1>5

\* A step of ReconcileHCLB that leaves everything but the networks alone.
LEMMA NetStepInv ==
    ASSUME Inv, Continues, UNCHANGED <<certs, seen>>,
           NetsMove(lb.nets, lb'.nets), NetFacts(pass', lb'.nets),
           pass'.robot = pass.robot, pass'.skipped = pass.skipped,
           \A g \in LBFields \ {"nets"} : lb'[g] = lb[g],
           pass.at \in {"detach", "attach", "retry"},
           pass'.at \in {"detach", "attach", "retry", "public"}
    PROVE  Inv'
<1>1. /\ lb'.ports = lb.ports /\ lb'.targets = lb.targets
      /\ \A g \in Attributes : lb'[g] = lb[g]
  BY DEF LBFields, Attributes
<1>2. ServicesAhead /\ ServicesAhead' /\ TargetsAhead /\ TargetsAhead'
  BY DEF ServicesAhead, TargetsAhead, LBStages, NetStages
<1> SUFFICES ASSUME alone
             PROVE  AttrInv' /\ CertInv' /\ PortInv' /\ StrayInv' /\ MissingInv' /\ SeenInv'
  BY ContinuesInv, NetGoesOn DEF Inv
<1>3. PortInv' /\ CertInv'
  BY <1>1, <1>2, PortFrame DEF Inv, ServiceStages
<1>4. StrayInv' /\ MissingInv'
  BY <1>1, <1>2, TargetFrame DEF Inv
<1>5. SeenInv'
  BY <1>1, <1>2, SeenFrame DEF Inv
<1>6. \A f \in Attributes : pass.at \in UpTo(f) <=> pass'.at \in UpTo(f)
  BY DEF Attributes, UpTo
<1>7. AttrInv'
  BY <1>1, <1>6, AttrFrame DEF Inv
<1>8. QED
  BY <1>3, <1>4, <1>5, <1>7

LEMMA NetworkFacts ==
    /\ NetworkID \in Networks \cup {None} /\ None \notin Networks
    /\ NetworkID # None => OwnNets = {NetworkID}
    /\ NetworkID = None => OwnNets = {}
BY LoadBalancerOpsAssumption DEF LoadBalancerOpsAssumption, OwnNets

LEMMA DetachInv ==
    ASSUME Inv, detachFromNetwork
    PROVE  Inv'
<1>0. /\ TypeInv /\ IsLB(lb) /\ pass.at = "detach" /\ IsLB(pass.lb) /\ pass # IdlePass
      /\ DOMAIN pass = PassFields
      /\ pass.lb.nets \subseteq Networks /\ pass.lb.nets \cap OwnNets \subseteq lb.nets
      /\ lb.nets \subseteq pass.todo \cup OwnNets /\ NetworkID \notin pass.todo
      /\ ~pass.changed => pass.todo = pass.lb.nets \ {NetworkID}
  BY PassFacts DEF Inv, TypeInv, detachFromNetwork, IsLB, NetInv, NetFacts, NetStages
<1>1. CASE pass.todo = {} /\ Goto("attach")
  <2>1. GoesOn("attach") /\ lb' = lb
    BY <1>0, <1>1, GotoGoesOn DEF Stages
  <2>2. NetFacts(pass', lb'.nets)
    <3>1. lb'.nets \subseteq OwnNets /\ pass'.lb.nets \cap OwnNets \subseteq lb'.nets
      BY <1>0, <1>1, <2>1 DEF GoesOn, Continues
    <3>2. ~pass'.changed => pass'.lb.nets \subseteq OwnNets
      BY <1>0, <1>1, <2>1, NetworkFacts DEF GoesOn, Continues
    <3>3. QED
      BY <2>1, <3>1, <3>2 DEF NetFacts, GoesOn, NetStages
  <2>3. QED
    BY <1>0, <2>1, <2>2, NetStepInv, NetsStay DEF GoesOn
<1>2. CASE Abort
  BY <1>0, <1>2, AbortGivesUp, GivesUpInv
<1>3. ASSUME NEW n \in pass.todo, n \in lb.nets,
             CallTo([pass EXCEPT !.todo = @ \ {n}], [lb EXCEPT !.nets = @ \ {n}])
      PROVE  Inv'
  <2> DEFINE l == [lb EXCEPT !.nets = @ \ {n}]
             q == [pass EXCEPT !.todo = @ \ {n}]
  <2>1. IsLB(l) /\ l.nets = lb.nets \ {n} /\ \A g \in LBFields \ {"nets"} : l[g] = lb[g]
    BY <1>0 DEF IsLB, LBFields
  <2>2. NetsMove(lb.nets, l.nets)
    BY <1>0, <1>3, <2>1 DEF NetsMove, OwnNets
  <2>3. KeptBy(q, "detach") /\ q.todo = pass.todo \ {n} /\ CallTo(q, l)
    BY <1>0, <1>3 DEF KeptBy, PassFields
  <2> HIDE DEF l, q
  <2>4. \/ GivesUp
        \/ /\ Continues /\ UNCHANGED <<certs, seen>> /\ lb' = l
           /\ KeptBy(pass', "detach") /\ pass'.todo = q.todo /\ pass'.changed
    BY <1>0, <2>1, <2>2, <2>3, CallToEnds DEF Stages
  <2>5. CASE ~GivesUp
    <3>1. lb'.nets = lb.nets \ {n} /\ pass'.todo = pass.todo \ {n} /\ pass'.at = "detach"
          /\ pass'.changed /\ pass'.lb = pass.lb
      BY <2>1, <2>3, <2>4, <2>5 DEF KeptBy
    <3>2. NetFacts(pass', lb'.nets)
      <4>1. n \notin OwnNets
        BY <1>0, <1>3 DEF OwnNets
      <4>2. /\ pass'.lb.nets \cap OwnNets \subseteq lb'.nets
            /\ lb'.nets \subseteq pass'.todo \cup OwnNets /\ NetworkID \notin pass'.todo
        BY <1>0, <3>1, <4>1
      <4>3. QED
        BY <3>1, <4>2 DEF NetFacts, NetStages
    <3>3. QED
      BY <1>0, <2>1, <2>2, <2>4, <2>5, <3>1, <3>2, NetStepInv DEF KeptBy
  <2>6. QED
    BY <2>5, GivesUpInv
<1>4. QED
  BY <1>1, <1>2, <1>3 DEF detachFromNetwork

LEMMA AttachInv ==
    ASSUME Inv, attachToNetwork
    PROVE  Inv'
<1>0. /\ TypeInv /\ IsLB(lb) /\ pass.at \in {"attach", "retry"} /\ pass # IdlePass
      /\ lb.nets \subseteq OwnNets /\ pass.lb.nets \cap OwnNets \subseteq lb.nets
      /\ ~pass.changed => pass.lb.nets \subseteq OwnNets
      /\ pass.lb.nets \subseteq Networks /\ DOMAIN pass = PassFields
  BY PassFacts DEF Inv, TypeInv, attachToNetwork, IsLB, NetInv, NetFacts, NetStages
<1>a. ASSUME GoesOn("public"), lb'.nets = OwnNets,
             \A g \in LBFields \ {"nets"} : lb'[g] = lb[g],
             pass'.changed \/ pass.lb.nets = OwnNets
      PROVE  Inv'
  <2>1. NetFacts(pass', lb'.nets)
    BY <1>a DEF NetFacts, NetStages, GoesOn, Continues
  <2>2. NetsMove(lb.nets, lb'.nets)
    BY <1>0, <1>a DEF NetsMove
  <2>3. QED
    BY <1>0, <1>a, <2>1, <2>2, NetStepInv DEF GoesOn
<1>1. CASE /\ pass.at = "attach"
           /\ NetworkID = None \/ NetworkID \in pass.lb.nets
           /\ Goto("public")
  <2>1. GoesOn("public") /\ lb' = lb
    BY <1>0, <1>1, GotoGoesOn DEF Stages
  <2>2. lb.nets = OwnNets /\ (~pass.changed => pass.lb.nets = OwnNets)
    BY <1>0, <1>1, NetworkFacts
  <2>3. ~pass'.changed => ~pass.changed
    BY <2>1 DEF GoesOn, Continues
  <2>4. QED
    BY <1>a, <2>1, <2>2, <2>3
<1>2. CASE /\ NetworkID # None /\ NetworkID \notin pass.lb.nets
           /\ Call("public", [lb EXCEPT !.nets = @ \cup {NetworkID}])
  <2> DEFINE l == [lb EXCEPT !.nets = @ \cup {NetworkID}]
  <2>0. NetworkID \in Networks /\ OwnNets = {NetworkID}
    BY <1>2, NetworkFacts
  <2>1. /\ IsLB(l) /\ l.nets = lb.nets \cup {NetworkID}
        /\ \A g \in LBFields \ {"nets"} : l[g] = lb[g]
    BY <1>0, <2>0 DEF IsLB, LBFields
  <2>2. l.nets = OwnNets /\ NetsMove(lb.nets, l.nets)
    BY <1>0, <2>0, <2>1 DEF NetsMove
  <2>3. Call("public", l)
    BY <1>2
  <2> HIDE DEF l
  <2>4. GivesUp \/ (GoesOn("public") /\ lb' = l /\ pass'.changed)
    BY <1>0, <2>1, <2>2, <2>3, CallEnds DEF Stages
  <2>5. QED
    BY <1>a, <2>1, <2>2, <2>4, GivesUpInv
<1>3. CASE Abort
  BY <1>0, <1>3, AbortGivesUp, GivesUpInv
<1>4. CASE /\ pass.at = "attach"
           /\ NetworkID # None /\ NetworkID \notin pass.lb.nets
           /\ faults < MaxFaults
           /\ faults' = faults + 1
           /\ pass' = [pass EXCEPT !.at = "retry"]
           /\ UNCHANGED <<lb, certs, Beside, status, ensure, update, seen, Env>>
  <2>1. /\ pass'.at = "retry" /\ UNCHANGED <<lb, certs, seen>>
        /\ pass'.robot = pass.robot /\ pass'.skipped = pass.skipped
        /\ pass'.changed = pass.changed /\ pass'.lb = pass.lb
    BY <1>0, <1>4 DEF PassFields
  <2>2. Continues
    BY <1>0, <1>4, <2>1, PassFacts, FaultsFacts, IdleFacts
    DEF Continues, PassFields, Env, Beside, Stages
  <2>3. NetFacts(pass', lb'.nets)
    BY <1>0, <2>1 DEF NetFacts, NetStages
  <2>4. QED
    BY <1>0, <2>1, <2>2, <2>3, NetStepInv, NetsStay
<1>5. QED
  BY <1>1, <1>2, <1>3, <1>4 DEF attachToNetwork

----------------------------------------------------------------------------
(* ReconcileHCLBServices.                                                  *)

LEMMA PortsEqual ==
    ASSUME NEW f, NEW g, IsPorts(f), IsPorts(g), \A p \in Ports : f[p] = g[p]
    PROVE  f = g
BY DEF IsPorts

\* The Load Balancer l with other options at one port.
WithPort(l, p, v) == [l EXCEPT !.ports[p] = v]

LEMMA PortEffect ==
    ASSUME NEW l, IsLB(l), NEW p, NEW v
    PROVE  /\ IsLB(WithPort(l, p, v))
           /\ p \in Ports => WithPort(l, p, v).ports[p] = v
           /\ \A q \in Ports \ {p} : WithPort(l, p, v).ports[q] = l.ports[q]
           /\ \A g \in LBFields \ {"ports"} : WithPort(l, p, v)[g] = l[g]
<1> DEFINE k == WithPort(l, p, v)
<1>1. /\ DOMAIN k = LBFields /\ k.ports = [l.ports EXCEPT ![p] = v]
      /\ \A g \in LBFields \ {"ports"} : k[g] = l[g]
  BY DEF IsLB, LBFields, WithPort
<1> HIDE DEF k
<1>2. k.ports = [q \in Ports |-> IF q = p THEN v ELSE l.ports[q]]
  <2>1. l.ports = [q \in Ports |-> l.ports[q]]
    BY DEF IsLB, IsPorts
  <2>2. QED
    BY <1>1, <2>1
<1>3. /\ p \in Ports => k.ports[p] = v
      /\ \A q \in Ports \ {p} : k.ports[q] = l.ports[q]
      /\ IsPorts(k.ports)
  BY <1>2 DEF IsPorts
<1>4. IsLB(k)
  BY <1>1, <1>3 DEF IsLB, LBFields
<1>5. QED
  BY <1>1, <1>3, <1>4 DEF k

LEMMA SvcPorts ==
    ASSUME TypeInv, pass.at \notin {"idle", "get"}
    PROVE  /\ IsPorts(pass.svc.ports) /\ IsPorts(pass.lb.ports) /\ IsPorts(lb.ports)
           /\ PortsOf(pass.svc.ports) = {p \in Ports : pass.svc.ports[p] # None}
           /\ PortsOf(pass.lb.ports) = {p \in Ports : pass.lb.ports[p] # None}
<1>1. IsPorts(pass.svc.ports) /\ IsPorts(pass.lb.ports) /\ IsPorts(lb.ports)
  BY PassFacts, LoadBalancerOpsAssumption DEF LoadBalancerOpsAssumption, IsLB, TypeInv
<1>2. ASSUME NEW f, IsPorts(f)
      PROVE  PortsOf(f) = {p \in Ports : f[p] # None}
  <2>1. DOMAIN f = Ports
    BY <1>2 DEF IsPorts
  <2>2. QED
    BY <2>1 DEF PortsOf
<1>3. QED
  BY <1>1, <1>2

\* A step of ReconcileHCLBServices, its own part of the invariant apart.
LEMMA ServiceStepInv ==
    ASSUME Inv, Continues, alone => PortInv' /\ CertInv', seen' = seen,
           pass'.robot = pass.robot, pass'.skipped = pass.skipped,
           \A g \in LBFields \ {"ports"} : lb'[g] = lb[g],
           seen # None => lb'.ports = lb.ports,
           pass.at \in ServiceStages \cup {"cert"},
           pass'.at \in ServiceStages \cup {AfterServices}
    PROVE  Inv'
<1>0. pass.op \in {"ensure", "update"} /\ pass'.op = pass.op
  BY PassFacts DEF Inv, Continues
<1>1. /\ lb'.nets = lb.nets /\ lb'.targets = lb.targets
      /\ \A g \in Attributes : lb'[g] = lb[g]
  BY DEF LBFields, Attributes
<1>2. TargetsAhead <=> TargetsAhead'
  BY <1>0 DEF TargetsAhead, LBStages, ServiceStages, AfterServices
<1>3. /\ pass.at \notin LBStages /\ pass'.at \notin LBStages
      /\ pass.at \notin {"remove", "add"} /\ pass'.at \notin {"remove", "add"}
  BY DEF LBStages, ServiceStages, AfterServices
<1>4. NetInv'
  BY <1>1, <1>3, NetFrame DEF Inv, LBStages, NetStages
<1> SUFFICES ASSUME alone PROVE AttrInv' /\ StrayInv' /\ MissingInv' /\ SeenInv'
  BY <1>4, ContinuesInv DEF Inv
<1>5. StrayInv' /\ MissingInv'
  BY <1>1, <1>2, <1>3, TargetFrame DEF Inv
<1>6. SeenInv'
  BY <1>1, <1>2, SeenFrame DEF Inv
<1>7. AttrInv'
  BY <1>1, <1>3, NoneAhead, AttrFrame DEF Inv
<1>8. QED
  BY <1>5, <1>6, <1>7

LEMMA CertificateInv ==
    ASSUME Inv, reconcileManagedCertificate
    PROVE  Inv'
<1>0. TypeInv /\ pass.at = "cert" /\ pass.at \notin {"idle", "get"}
  BY DEF Inv, reconcileManagedCertificate
<1>1. CASE Abort
  BY <1>0, <1>1, AbortGivesUp, GivesUpInv
<1>2. CASE /\ pass' = EnterServices
           /\ UNCHANGED <<lb, Beside, status, ensure, update, seen, faults, Env>>
           /\ pass.svc.cert \in certs' \cup TakenNames \cup {None}
  <2>1. DOMAIN pass = PassFields
    BY <1>0, PassFacts
  <2>2. /\ pass'.at = "services"
        /\ pass'.robot = pass.robot /\ pass'.skipped = pass.skipped
        /\ pass'.todo = PortsOf(pass.svc.ports) /\ pass'.left = PortsOf(pass.lb.ports)
    BY <1>2, <2>1 DEF PassFields, EnterServices
  <2>a. Continues
    BY <1>0, <1>2, <2>1, <2>2, PassFacts, FaultsFacts, IdleFacts
    DEF Continues, PassFields, EnterServices, Env, Beside, Stages, TypeInv
  <2>3. pass'.svc = pass.svc /\ pass'.lb = pass.lb /\ lb' = lb
    BY <1>2, <2>a DEF Continues
  <2>4. ASSUME alone PROVE PortInv' /\ CertInv'
    <3>1. lb.ports = pass.lb.ports
      BY <1>0, <2>4 DEF Inv, PortInv, ServicesAhead
    <3>2. PortInv'
      BY <1>0, <2>2, <2>3, <3>1, SvcPorts
      DEF PortInv, ServiceStages, ServicesAhead, ServicesBehind, LBStages, TargetStages
    <3>3. CertInv'
      BY <1>2, <2>2, <2>3 DEF CertInv, ServicesBehind, ServiceStages
    <3>4. QED
      BY <3>2, <3>3
  <2>5. QED
    BY <1>0, <1>2, <2>2, <2>3, <2>a, <2>4, ServiceStepInv DEF ServiceStages
<1>3. QED
  BY <1>1, <1>2 DEF reconcileManagedCertificate, CreateManagedCertificate, Continue

\* The ports seen by the last pass are those of the Service of this one.
LEMMA SeenPorts ==
    ASSUME SeenInv, pass.at \notin {"idle", "get"}, seen # None
    PROVE  lb.ports = pass.svc.ports
BY IdleFacts DEF SeenInv

LEMMA SeenAlone ==
    ASSUME TypeInv, seen # None
    PROVE  alone
BY DEF TypeInv, AloneTypes

\* The services stages go on with a call that changes one port: to what the
\* Service asks for, if the pass runs alone.
LEMMA PortStepInv ==
    ASSUME Inv, pass.at \in ServiceStages, NEW p, NEW v, NEW l, NEW q,
           l = WithPort(lb, p, v), CallTo(q, l), KeptBy(q, pass.at),
           pass.at = "services" => CertResolved,
           alone => /\ p \in Ports /\ v = pass.svc.ports[p]
                    /\ q.todo = pass.todo \ {p} /\ q.left = pass.left \ {p}
    PROVE  Inv'
<1>0. TypeInv /\ IsLB(lb) /\ pass.at \notin {"idle", "get"} /\ SeenInv
      /\ pass.at \in Stages \ {"idle", "get"}
  BY DEF Inv, TypeInv, ServiceStages, Stages
<1>1. /\ IsLB(l) /\ (p \in Ports => l.ports[p] = v)
      /\ \A g \in Ports \ {p} : l.ports[g] = lb.ports[g]
      /\ \A g \in LBFields \ {"ports"} : l[g] = lb[g]
  BY <1>0, PortEffect
<1>2. NetsMove(lb.nets, l.nets)
  BY <1>1, NetsStay DEF LBFields
<1>3. \/ GivesUp
      \/ /\ Continues /\ UNCHANGED <<certs, seen>> /\ lb' = l
         /\ KeptBy(pass', pass.at) /\ pass'.todo = q.todo /\ pass'.left = q.left
  BY <1>0, <1>1, <1>2, CallToEnds
<1>4. CASE ~GivesUp
  <2>1. /\ Continues /\ lb' = l /\ UNCHANGED <<certs, seen>> /\ pass'.at = pass.at
        /\ pass'.svc = pass.svc /\ pass'.todo = q.todo /\ pass'.left = q.left
        /\ pass'.robot = pass.robot /\ pass'.skipped = pass.skipped
    BY <1>3, <1>4 DEF KeptBy
  <2>2. pass.at \notin LBStages \cup TargetStages \cup {"cert"}
    BY DEF ServiceStages, LBStages, TargetStages
  <2>3. ASSUME alone PROVE PortInv' /\ CertInv'
    <3>0. /\ PortInv /\ CertInv /\ p \in Ports /\ v = pass.svc.ports[p]
          /\ pass'.todo = pass.todo \ {p} /\ pass'.left = pass.left \ {p}
      BY <2>1, <2>3 DEF Inv
    <3>1. /\ pass'.todo \subseteq PortsOf(pass'.svc.ports)
          /\ pass'.left \subseteq Ports
          /\ pass'.at = "leftover" => pass'.todo = {}
      BY <2>1, <3>0 DEF PortInv
    <3>2. \A g \in Ports \ pass'.todo : pass'.svc.ports[g] # None =>
             lb'.ports[g] = pass'.svc.ports[g] /\ g \notin pass'.left
      BY <1>1, <2>1, <3>0 DEF PortInv
    <3>3. \A g \in Ports \ pass'.left : pass'.svc.ports[g] = None => lb'.ports[g] = None
      BY <1>1, <2>1, <3>0 DEF PortInv
    <3>4. ~ServicesAhead' /\ ~ServicesBehind'
      BY <2>1, <2>2 DEF ServicesAhead, ServicesBehind
    <3>5. PortInv'
      BY <3>1, <3>2, <3>3, <3>4 DEF PortInv
    <3>6. CertResolved
      <4>1. CASE pass.at = "leftover"
        <5>1. pass.todo = {}
          BY <3>0, <4>1 DEF PortInv, ServiceStages
        <5>2. PortsOf(pass.svc.ports) # {}
          BY <1>0, PassFacts, LoadBalancerOpsAssumption DEF LoadBalancerOpsAssumption
        <5>3. QED
          BY <3>0, <4>1, <5>1, <5>2 DEF CertInv, ServiceStages
      <4>2. QED
        BY <4>1 DEF ServiceStages
    <3>7. CertInv'
      BY <2>1, <3>0, <3>4, <3>6 DEF CertInv, CertResolved, GetCertificateByLabel
    <3>8. QED
      BY <3>5, <3>7
  <2>4. seen # None => lb'.ports = lb.ports
    <3>1. SUFFICES ASSUME seen # None PROVE l.ports = lb.ports
      BY <2>1
    <3>2. \A g \in Ports : l.ports[g] = lb.ports[g]
      BY <1>0, <1>1, <3>1, SeenPorts, SeenAlone
    <3>3. IsPorts(l.ports) /\ IsPorts(lb.ports)
      BY <1>0, <1>1 DEF IsLB
    <3>4. QED
      BY <3>2, <3>3, PortsEqual
  <2>5. QED
    BY <1>1, <2>1, <2>3, <2>4, ServiceStepInv
<1>5. QED
  BY <1>4, GivesUpInv

LEMMA ReconcilePortInv ==
    ASSUME Inv, NEW p \in Ports, reconcilePort(p)
    PROVE  Inv'
<1>0. /\ TypeInv /\ pass.at = "services" /\ pass.at \notin {"idle", "get"}
      /\ DOMAIN pass = PassFields
  BY PassFacts DEF Inv, reconcilePort
<1>1. CASE Abort
  BY <1>0, <1>1, AbortGivesUp, GivesUpInv
<1>2. CASE ~Abort
  <2> DEFINE l == [lb EXCEPT !.ports[p] = pass.svc.ports[p]]
             q == [pass EXCEPT !.todo = @ \ {p}, !.left = @ \ {p}]
  <2>1. CallTo(q, l) /\ CertResolved
    BY <1>2 DEF reconcilePort
  <2>2. /\ KeptBy(q, pass.at)
        /\ q.todo = pass.todo \ {p} /\ q.left = pass.left \ {p}
    BY <1>0 DEF PassFields, KeptBy
  <2>3. l = WithPort(lb, p, pass.svc.ports[p])
    BY DEF WithPort
  <2> HIDE DEF l, q
  <2>4. QED
    BY <1>0, <2>1, <2>2, <2>3, PortStepInv DEF ServiceStages
<1>3. QED
  BY <1>1, <1>2

LEMMA LeftOverInv ==
    ASSUME Inv, removeLeftOver
    PROVE  Inv'
<1>0. /\ TypeInv /\ pass.at \in ServiceStages /\ pass.at \notin {"idle", "get"}
      /\ DOMAIN pass = PassFields /\ (alone => PortInv /\ CertInv)
      /\ pass.op \in {"ensure", "update"}
  BY PassFacts DEF Inv, removeLeftOver, ServiceStages
<1>1. CASE pass.at = "services" /\ pass.todo = {} /\ Goto("leftover")
  <2>1. GoesOn("leftover") /\ lb' = lb
    BY <1>0, <1>1, GotoGoesOn DEF Stages
  <2>2. pass'.svc = pass.svc /\ pass'.todo = pass.todo /\ pass'.left = pass.left
        /\ pass'.at = "leftover" /\ certs' = certs
    BY <2>1 DEF GoesOn, Continues
  <2>3. ~ServicesAhead' /\ ~ServicesBehind'
    BY <2>2 DEF ServiceStages, ServicesAhead, ServicesBehind, LBStages, TargetStages
  <2>4. alone => PortInv'
    BY <1>0, <1>1, <2>1, <2>2, <2>3 DEF PortInv
  <2>5. alone => CertInv'
    BY <1>0, <1>1, <2>2, <2>3
    DEF CertInv, CertResolved, GetCertificateByLabel, ServiceStages
  <2>6. QED
    BY <1>0, <2>1, <2>2, <2>4, <2>5, ServiceStepInv DEF GoesOn, ServiceStages
<1>2. CASE pass.at = "leftover" /\ pass.left = {} /\ Goto(AfterServices)
  <2>0. AfterServices \in Stages \ {"idle", "get"} /\ AfterServices \in {"robot", "reload"}
    BY DEF AfterServices, Stages
  <2>1. GoesOn(AfterServices) /\ lb' = lb
    BY <1>0, <1>2, <2>0, GotoGoesOn
  <2>2. pass'.svc = pass.svc /\ pass'.at = AfterServices /\ pass'.op = pass.op /\ certs' = certs
    BY <2>1 DEF GoesOn, Continues
  <2>3. alone => lb.ports = pass.svc.ports
    <3>1. alone => \A p \in Ports : lb.ports[p] = pass.svc.ports[p]
      BY <1>0, <1>2 DEF PortInv
    <3>2. QED
      BY <1>0, <3>1, SvcPorts, PortsEqual
  <2>4. alone => PortInv'
    BY <1>0, <2>0, <2>1, <2>2, <2>3
    DEF PortInv, ServiceStages, ServicesAhead, LBStages, TargetStages, AfterServices
  <2>5. alone => CertInv'
    <3>1. SUFFICES ASSUME alone PROVE CertInv'
      OBVIOUS
    <3>2. pass.todo = {}
      BY <1>0, <1>2, <3>1 DEF PortInv
    <3>3. PortsOf(pass.svc.ports) # {}
      BY <1>0, PassFacts, LoadBalancerOpsAssumption DEF LoadBalancerOpsAssumption
    <3>4. CertResolved /\ pass.svc.cert \in certs \cup TakenNames \cup {None}
      BY <1>0, <3>1, <3>2, <3>3 DEF CertInv
    <3>5. QED
      BY <2>2, <3>4 DEF CertInv, CertResolved, GetCertificateByLabel
  <2>6. QED
    BY <1>0, <2>1, <2>2, <2>4, <2>5, ServiceStepInv DEF GoesOn
<1>3. CASE Abort
  BY <1>0, <1>3, AbortGivesUp, GivesUpInv
<1>4. ASSUME pass.at = "leftover", NEW p \in pass.left,
             CallTo([pass EXCEPT !.left = @ \ {p}], [lb EXCEPT !.ports[p] = None])
      PROVE  Inv'
  <2> DEFINE l == [lb EXCEPT !.ports[p] = None]
             q == [pass EXCEPT !.left = @ \ {p}]
  <2>1. CallTo(q, l) /\ l = WithPort(lb, p, None)
    BY <1>4 DEF WithPort
  <2>2. alone => p \in Ports /\ pass.todo = {} /\ pass.svc.ports[p] = None
    BY <1>0, <1>4 DEF PortInv
  <2>3. /\ KeptBy(q, pass.at)
        /\ q.todo = pass.todo /\ q.left = pass.left \ {p}
    BY <1>0 DEF PassFields, KeptBy
  <2> HIDE DEF l, q
  <2>4. alone => q.todo = pass.todo \ {p}
    BY <2>2, <2>3
  <2>5. QED
    BY <1>0, <1>4, <2>1, <2>2, <2>3, <2>4, PortStepInv
<1>5. QED
  BY <1>1, <1>2, <1>3, <1>4 DEF removeLeftOver

----------------------------------------------------------------------------
(* ReconcileHCLBTargets.                                                   *)

\* A step of ReconcileHCLBTargets, its own part of the invariant apart.
LEMMA TargetStepInv ==
    ASSUME Inv, Continues, alone => StrayInv' /\ MissingInv' /\ SeenInv', certs' = certs,
           \A g \in LBFields \ {"targets"} : lb'[g] = lb[g],
           pass.at \in TargetStages, pass'.at \in TargetStages \cup {AfterTargets}
    PROVE  Inv'
<1>0. pass.op \in {"ensure", "update"} /\ pass'.op = pass.op
  BY PassFacts DEF Inv, Continues
<1>1. /\ lb'.nets = lb.nets /\ lb'.ports = lb.ports
      /\ \A g \in Attributes : lb'[g] = lb[g]
  BY DEF LBFields, Attributes
<1>2. ServicesAhead <=> ServicesAhead'
  BY <1>0 DEF ServicesAhead, LBStages, TargetStages, AfterTargets
<1>3. /\ pass.at \notin LBStages /\ pass'.at \notin LBStages
      /\ pass.at \notin ServiceStages /\ pass'.at \notin ServiceStages
  BY DEF LBStages, ServiceStages, TargetStages, AfterTargets
<1>4. NetInv'
  BY <1>1, <1>3, NetFrame DEF Inv, LBStages, NetStages
<1> SUFFICES ASSUME alone PROVE AttrInv' /\ CertInv' /\ PortInv'
  BY <1>4, ContinuesInv DEF Inv
<1>5. PortInv' /\ CertInv'
  BY <1>1, <1>2, <1>3, PortFrame DEF Inv
<1>6. AttrInv'
  BY <1>1, <1>3, NoneAhead, AttrFrame DEF Inv
<1>7. QED
  BY <1>5, <1>6

LEMMA ListInv ==
    ASSUME Inv, listRobotServers
    PROVE  Inv'
<1>0. /\ TypeInv /\ pass.at = "robot" /\ pass.at \notin {"idle", "get"}
      /\ DOMAIN pass = PassFields /\ SeenInv
  BY PassFacts DEF Inv, listRobotServers
<1>1. CASE Abort
  BY <1>0, <1>1, AbortGivesUp, GivesUpInv
<1>2. CASE ~Abort
  <2> DEFINE rob == IF UseRobot THEN robot ELSE [r \in RobotServers |-> {}]
             extra == (pass.lb.targets \cap Targets) \ Wanted(pass.svc, pass.nodes, rob)
             count == Cardinality(pass.lb.targets)
  <2>1. /\ pass' = [pass EXCEPT !.at = "remove", !.robot = rob, !.todo = extra, !.number = count]
        /\ seen' = IF seen # None /\ seen.robot = rob THEN seen ELSE None
        /\ UNCHANGED <<lb, certs, other, alone, status, ensure, update, faults, svc, nodes,
                       robot, edits>>
    BY <1>2 DEF listRobotServers, Env, Beside
  <2>2. count \in Int
    <3>1. IsFiniteSet(pass.lb.targets)
      BY <1>0, PassFacts DEF IsLB
    <3>2. QED
      BY <3>1, FS_CardinalityType
  <2>3. extra = (pass.lb.targets \cap Targets) \ Wanted(pass.svc, pass.nodes, rob)
    OBVIOUS
  <2> HIDE DEF rob, extra, count
  <2>4. /\ pass'.at = "remove" /\ pass'.robot = rob /\ pass'.todo = extra
    BY <1>0, <2>1 DEF PassFields
  <2>a. Continues
    BY <1>0, <2>1, <2>2, <2>4, PassFacts, FaultsFacts, IdleFacts
    DEF Continues, PassFields, Stages, TypeInv
  <2>5. /\ pass'.svc = pass.svc /\ pass'.nodes = pass.nodes /\ pass'.lb = pass.lb
        /\ lb' = lb /\ update' = update /\ pass # IdlePass /\ pass' # IdlePass
    BY <2>1, <2>a DEF Continues
  <2>6. PassWanted' = Wanted(pass.svc, pass.nodes, rob)
    BY <2>4, <2>5 DEF PassWanted
  <2>7. TargetsAhead /\ ~TargetsAhead' /\ ~TargetsBehind'
    BY <1>0, <2>4 DEF TargetsAhead, TargetsBehind, LBStages, ServiceStages
  <2>8. alone => StrayInv'
    BY <1>0, <2>3, <2>4, <2>5, <2>6, <2>7 DEF Inv, StrayInv
  <2>9. alone => MissingInv'
    BY <1>0, <2>4, <2>5, <2>6, <2>7 DEF Inv, MissingInv
  <2>10. SeenInv'
    <3>1. SUFFICES ASSUME seen' # None PROVE SeenInv'
      BY DEF SeenInv
    <3>2. seen' = seen /\ seen # None /\ seen.robot = rob
      BY <2>1, <3>1
    <3>3. SeenWanted' = SeenWanted
      BY <3>2 DEF SeenWanted
    <3>4. QED
      BY <1>0, <2>4, <2>5, <2>7, <3>2, <3>3 DEF SeenInv, Running
  <2>11. QED
    BY <1>0, <2>1, <2>4, <2>5, <2>a, <2>8, <2>9, <2>10, TargetStepInv DEF TargetStages
<1>3. QED
  BY <1>1, <1>2

\* After the listing, what was seen is what is wanted.
LEMMA SeenIsWanted ==
    ASSUME SeenInv, pass.at \in {"remove", "add"}, seen # None
    PROVE  PassWanted = SeenWanted /\ pass.lb.targets \cap Targets \subseteq PassWanted
BY IdleFacts DEF SeenInv, Running, PassWanted, SeenWanted

\* The pass goes on among the targets: its copy of the world is kept.
TargetsGoOn(p) ==
    /\ DOMAIN p = PassFields /\ p.op = pass.op /\ p.svc = pass.svc
    /\ p.nodes = pass.nodes /\ p.lb = pass.lb /\ p.robot = pass.robot
    /\ p.number \in Int /\ p.changed \in BOOLEAN /\ p.moved \in BOOLEAN
    /\ pass.changed => p.changed

LEMMA TargetsContinue ==
    ASSUME TypeInv, pass.at \notin {"idle", "get"}, NEW p, NEW l, Continue(p, l), TargetsGoOn(p), IsLB(l),
           p.at \in Stages \ {"idle", "get"}
    PROVE  /\ Continues /\ pass' = p /\ lb' = l /\ UNCHANGED <<certs, seen>>
           /\ PassWanted' = PassWanted
<1>1. Continues /\ pass' = p /\ lb' = l /\ UNCHANGED <<certs, seen>>
  BY PassFacts, FaultsFacts, IdleFacts DEF Continue, Continues, TargetsGoOn, Env, Beside
<1>2. QED
  BY <1>1 DEF TargetsGoOn, PassWanted

\* A server has one target, public or private.
LEMMA TargetKinds ==
    ASSUME NEW t \in Targets \cup {OtherTarget}, t[1] = "server"
    PROVE  t \in ServerTargets
<1>1. OtherTarget[1] # "server" /\ \A u \in IPTargets : u[1] # "server"
  BY DEF OtherTarget, IPTargets
<1>2. QED
  BY <1>1 DEF Targets

LEMMA RemoveInv ==
    ASSUME Inv, removeTarget
    PROVE  Inv'
<1>0. /\ TypeInv /\ pass.at = "remove" /\ pass.at \notin {"idle", "get"}
      /\ DOMAIN pass = PassFields /\ SeenInv /\ IsLB(lb) /\ IsLB(pass.lb)
      /\ ~TargetsAhead /\ ~TargetsBehind
      /\ alone => StrayInv /\ MissingInv
  BY PassFacts
  DEF Inv, TypeInv, removeTarget, TargetsAhead, TargetsBehind, LBStages, ServiceStages
<1>1. CASE pass.todo = {} /\ Continue(EnterAdd, lb)
  <2>1. /\ TargetsGoOn(EnterAdd) /\ EnterAdd.at = "add"
        /\ EnterAdd.todo = PassWanted \ pass.lb.targets
    BY <1>0, PassFacts DEF EnterAdd, TargetsGoOn, PassFields
  <2>2. /\ Continues /\ pass' = EnterAdd /\ lb' = lb /\ UNCHANGED <<certs, seen>>
        /\ PassWanted' = PassWanted
    BY <1>0, <1>1, <2>1, TargetsContinue DEF Stages
  <2>3. /\ pass'.at = "add" /\ pass'.todo = PassWanted \ pass.lb.targets
        /\ ~TargetsAhead' /\ ~TargetsBehind' /\ update' = update
    BY <2>1, <2>2 DEF TargetsAhead, TargetsBehind, LBStages, ServiceStages, Continues
  <2>4. alone => StrayInv'
    BY <1>0, <1>1, <2>2, <2>3 DEF StrayInv
  <2>5. alone => MissingInv'
    BY <1>0, <2>2, <2>3 DEF MissingInv
  <2>6. SeenInv'
    BY <1>0, <2>1, <2>2, <2>3, SeenFrame DEF TargetsGoOn
  <2>7. QED
    BY <1>0, <2>2, <2>3, <2>4, <2>5, <2>6, TargetStepInv DEF TargetStages
<1>2. CASE Abort
  BY <1>0, <1>2, AbortGivesUp, GivesUpInv
<1>3. ASSUME NEW t \in pass.todo, Named(t) # {},
             \/ Continue([pass EXCEPT !.todo = @ \ {t}, !.moved = TRUE, !.number = @ - 1],
                         [lb EXCEPT !.targets = @ \ Named(t)])
             \/ Fault([lb EXCEPT !.targets = @ \ Named(t)])
      PROVE  Inv'
  <2> DEFINE l == [lb EXCEPT !.targets = @ \ Named(t)]
             next == [pass EXCEPT !.todo = @ \ {t}, !.moved = TRUE, !.number = @ - 1]
             rest == lb.targets \ Named(t)
  <2>1. /\ rest \subseteq lb.targets /\ rest \subseteq Targets \cup {OtherTarget}
        /\ IsFiniteSet(rest)
    BY <1>0, FS_Subset DEF IsLB
  <2>2. /\ IsLB(l) /\ l.targets = lb.targets \ Named(t)
        /\ \A g \in LBFields \ {"targets"} : l[g] = lb[g]
    BY <1>0, <2>1 DEF IsLB, LBFields
  <2>3. NetsMove(lb.nets, l.nets)
    BY <2>2, NetsStay DEF LBFields
  <2>4. pass.number - 1 \in Int
    BY <1>0, PassFacts
  <2>5. /\ TargetsGoOn(next) /\ next.at = "remove" /\ next.todo = pass.todo \ {t}
    BY <1>0, <2>4, PassFacts DEF TargetsGoOn, PassFields
  <2>6. Continue(next, l) \/ Fault(l)
    BY <1>3
  <2> HIDE DEF l, next
  <2>7. CASE Fault(l)
    BY <1>0, <2>2, <2>3, <2>7, FaultGivesUp, GivesUpInv
  <2>8. CASE Continue(next, l)
    <3>1. /\ Continues /\ pass' = next /\ lb' = l /\ UNCHANGED <<certs, seen>>
          /\ PassWanted' = PassWanted
      BY <1>0, <2>2, <2>5, <2>8, TargetsContinue DEF Stages
    <3>2. /\ pass'.at = "remove" /\ pass'.todo = pass.todo \ {t} /\ pass'.lb = pass.lb
          /\ lb'.targets = lb.targets \ Named(t) /\ update' = update
          /\ ~TargetsAhead' /\ ~TargetsBehind'
      BY <2>2, <2>5, <3>1
      DEF TargetsAhead, TargetsBehind, LBStages, ServiceStages, Continues
    <3>3. ASSUME alone PROVE StrayInv' /\ MissingInv' /\ SeenInv'
      <4>1. t \in (pass.lb.targets \cap Targets) \ PassWanted
            /\ lb.targets \subseteq pass.lb.targets
        BY <1>0, <1>3, <3>3 DEF StrayInv
      <4>2. Named(t) = {t} \cap lb.targets
        <5>1. t \in lb.targets => t \in Named(t)
          BY DEF Named
        <5>2. ASSUME NEW u \in Named(t) PROVE u = t /\ u \in lb.targets
          <6>1. u \in lb.targets /\ u[1] = t[1] /\ u[2] = t[2] /\ (t[1] = "server" \/ u = t)
            BY <5>2 DEF Named
          <6>2. u \in pass.lb.targets /\ t \in pass.lb.targets
                /\ u \in Targets \cup {OtherTarget} /\ t \in Targets \cup {OtherTarget}
            BY <1>0, <4>1, <6>1 DEF IsLB
          <6>3. CASE t[1] = "server"
            <7>1. u \in ServerTargets /\ t \in ServerTargets
              BY <6>1, <6>2, <6>3, TargetKinds
            <7>2. QED
              BY <1>0, <6>1, <6>2, <7>1 DEF IsLB
          <6>4. QED
            BY <6>1, <6>3
        <5>3. QED
          BY <5>1, <5>2 DEF Named
      <4>3. lb'.targets = lb.targets \ {t}
        BY <3>2, <4>2
      <4>4. StrayInv'
        BY <1>0, <3>1, <3>2, <3>3, <4>3 DEF StrayInv
      <4>5. MissingInv'
        BY <1>0, <3>1, <3>2, <3>3, <4>1, <4>3 DEF MissingInv
      <4>6. seen = None
        BY <1>0, <4>1, SeenIsWanted
      <4>7. QED
        BY <3>1, <4>4, <4>5, <4>6 DEF SeenInv
    <3>4. QED
      BY <1>0, <2>2, <3>1, <3>2, <3>3, TargetStepInv DEF TargetStages
  <2>9. QED
    BY <2>6, <2>7, <2>8
<1>4. QED
  BY <1>1, <1>2, <1>3 DEF removeTarget

\* A step of the additions that leaves the Load Balancer alone: each target
\* that is dropped from the list is noted as skipped.
LEMMA AddQuietInv ==
    ASSUME Inv, pass.at = "add", NEW p, Continue(p, lb), TargetsGoOn(p),
           p.at \in {"add", AfterTargets}, p.todo \subseteq pass.todo,
           pass.skipped \subseteq p.skipped,
           pass.todo \subseteq p.skipped \cup (IF p.at = "add" THEN p.todo ELSE {})
    PROVE  Inv'
<1>0. /\ TypeInv /\ pass.at \notin {"idle", "get"} /\ SeenInv /\ IsLB(lb)
      /\ ~TargetsAhead /\ pass.op \in {"ensure", "update"}
      /\ alone => StrayInv /\ MissingInv
  BY PassFacts DEF Inv, TypeInv, TargetsAhead, LBStages, ServiceStages
<1>1. p.at \in Stages \ {"idle", "get"} /\ p.at # "remove" /\ pass.at # "remove"
  BY DEF Stages, AfterTargets
<1>2. /\ Continues /\ pass' = p /\ lb' = lb /\ UNCHANGED <<certs, seen>>
      /\ PassWanted' = PassWanted
  BY <1>0, <1>1, TargetsContinue
<1>3. ~TargetsAhead' /\ update' = update /\ (p.at = "add" => ~TargetsBehind')
  BY <1>0, <1>2 DEF TargetsAhead, TargetsBehind, LBStages, ServiceStages, Continues, AfterTargets
<1>4. alone => StrayInv'
  BY <1>0, <1>1, <1>2, <1>3 DEF StrayInv
<1>5. alone => MissingInv'
  <2> SUFFICES ASSUME alone PROVE MissingInv'
    OBVIOUS
  <2>1. ~update => PassWanted \subseteq lb.targets \cup pass.todo \cup pass.skipped
    BY <1>0 DEF MissingInv
  <2>2. CASE p.at = "add"
    BY <1>2, <1>3, <2>1, <2>2 DEF MissingInv
  <2>3. CASE p.at # "add"
    BY <1>1, <1>2, <1>3, <2>1, <2>3 DEF MissingInv
  <2>4. QED
    BY <2>2, <2>3
<1>6. SeenInv'
  BY <1>0, <1>2, <1>3, SeenFrame DEF TargetsGoOn
<1>7. QED
  BY <1>2, <1>4, <1>5, <1>6, TargetStepInv DEF TargetStages

LEMMA NextInTodo == NextTargets \subseteq pass.todo
BY DEF NextTargets

LEMMA SkipInv ==
    ASSUME Inv, NEW t \in Targets, skipTarget(t)
    PROVE  Inv'
<1> DEFINE p == [pass EXCEPT !.todo = @ \ {t}, !.skipped = @ \cup {t}]
<1>0. TypeInv /\ pass.at = "add" /\ pass.at \notin {"idle", "get"} /\ DOMAIN pass = PassFields
  BY PassFacts DEF Inv, skipTarget
<1>1. /\ TargetsGoOn(p) /\ p.at = "add" /\ p.todo = pass.todo \ {t}
      /\ p.skipped = pass.skipped \cup {t}
  BY <1>0, PassFacts DEF TargetsGoOn, PassFields
<1>2. Continue(p, lb)
  BY DEF skipTarget
<1> HIDE DEF p
<1>3. QED
  BY <1>0, <1>1, <1>2, AddQuietInv

LEMMA LeaveInv ==
    ASSUME Inv, leaveTargets
    PROVE  Inv'
<1> DEFINE p == [pass EXCEPT !.at = AfterTargets, !.changed = @ \/ pass.moved]
<1>0. /\ TypeInv /\ pass.at = "add" /\ pass.at \notin {"idle", "get"} /\ DOMAIN pass = PassFields
      /\ pass.todo = {}
  BY PassFacts DEF Inv, leaveTargets
<1>1. /\ TargetsGoOn(p) /\ p.at = AfterTargets /\ p.todo = pass.todo
      /\ p.skipped = pass.skipped
  BY <1>0, PassFacts DEF TargetsGoOn, PassFields
<1>2. Continue(p, lb)
  BY DEF leaveTargets
<1> HIDE DEF p
<1>3. QED
  BY <1>0, <1>1, <1>2, AddQuietInv

LEMMA AddInv ==
    ASSUME Inv, NEW t \in Targets, addTarget(t)
    PROVE  Inv'
<1>0. /\ TypeInv /\ pass.at = "add" /\ pass.at \notin {"idle", "get"} /\ DOMAIN pass = PassFields
      /\ t \in pass.todo /\ SeenInv /\ IsLB(lb)
      /\ alone => StrayInv /\ MissingInv /\ t \in PassWanted
  BY PassFacts, NextInTodo DEF Inv, TypeInv, addTarget, StrayInv
<1>1. CASE Continue([pass EXCEPT !.at = AfterTargets, !.skipped = @ \cup pass.todo], lb)
  <2> DEFINE p == [pass EXCEPT !.at = AfterTargets, !.skipped = @ \cup pass.todo]
  <2>1. /\ TargetsGoOn(p) /\ p.at = AfterTargets /\ p.todo = pass.todo
        /\ p.skipped = pass.skipped \cup pass.todo
    BY <1>0, PassFacts DEF TargetsGoOn, PassFields
  <2>2. Continue(p, lb)
    BY <1>1
  <2> HIDE DEF p
  <2>3. QED
    BY <1>0, <2>1, <2>2, AddQuietInv
<1>2. CASE Abort
  BY <1>0, <1>2, AbortGivesUp, GivesUpInv
<1>3. CASE /\ Named(t) = {}
           /\ \/ Continue([pass EXCEPT !.todo = @ \ {t}, !.moved = TRUE, !.number = @ + 1],
                          [lb EXCEPT !.targets = @ \cup {t}])
              \/ Fault([lb EXCEPT !.targets = @ \cup {t}])
  <2> DEFINE l == [lb EXCEPT !.targets = @ \cup {t}]
             next == [pass EXCEPT !.todo = @ \ {t}, !.moved = TRUE, !.number = @ + 1]
             more == lb.targets \cup {t}
  <2>1. more \subseteq Targets \cup {OtherTarget} /\ IsFiniteSet(more)
    BY <1>0, FS_AddElement DEF IsLB
  <2>a. \A u, v \in more \cap ServerTargets : u[2] = v[2] => u = v
    <3>1. \A u \in lb.targets : u[1] = t[1] /\ u[2] = t[2] => t[1] # "server"
      BY <1>3 DEF Named
    <3>2. \A u \in ServerTargets : u[1] = "server"
      BY DEF ServerTargets
    <3>3. QED
      BY <1>0, <3>1, <3>2 DEF IsLB
  <2>2. /\ IsLB(l) /\ l.targets = lb.targets \cup {t}
        /\ \A g \in LBFields \ {"targets"} : l[g] = lb[g]
    BY <1>0, <2>1, <2>a DEF IsLB, LBFields
  <2>3. NetsMove(lb.nets, l.nets) /\ l.ports = lb.ports
    BY <2>2, NetsStay DEF LBFields
  <2>4. /\ TargetsGoOn(next) /\ next.at = "add" /\ next.todo = pass.todo \ {t}
        /\ next.skipped = pass.skipped
    BY <1>0, PassFacts DEF TargetsGoOn, PassFields
  <2>5. Continue(next, l) \/ Fault(l)
    BY <1>3
  <2> HIDE DEF l, next
  <2>6. CASE Fault(l)
    BY <1>0, <2>2, <2>3, <2>6, FaultGivesUp, GivesUpInv
  <2>7. CASE Continue(next, l)
    <3>1. /\ Continues /\ pass' = next /\ lb' = l /\ UNCHANGED <<certs, seen>>
          /\ PassWanted' = PassWanted
      BY <1>0, <2>2, <2>4, <2>7, TargetsContinue DEF Stages
    <3>2. /\ pass'.at = "add" /\ pass'.todo = pass.todo \ {t} /\ pass'.lb = pass.lb
          /\ pass'.skipped = pass.skipped
          /\ lb'.targets = lb.targets \cup {t} /\ update' = update
          /\ ~TargetsAhead /\ ~TargetsAhead' /\ ~TargetsBehind'
      BY <1>0, <2>2, <2>4, <3>1
      DEF TargetsAhead, TargetsBehind, LBStages, ServiceStages, Continues
    <3>3. alone => StrayInv'
      BY <1>0, <3>1, <3>2 DEF StrayInv
    <3>4. alone => MissingInv'
      BY <1>0, <3>1, <3>2 DEF MissingInv
    <3>5. SeenInv'
      <4>1. SUFFICES ASSUME seen # None PROVE SeenInv'
        BY <3>1 DEF SeenInv
      <4>2. t \in SeenWanted
        BY <1>0, <4>1, SeenIsWanted, SeenAlone
      <4>3. SeenWanted' = SeenWanted /\ lb'.ports = lb.ports
        BY <2>3, <3>1 DEF SeenWanted
      <4>4. /\ pass'.svc = pass.svc /\ pass'.nodes = pass.nodes /\ pass'.robot = pass.robot
            /\ pass # IdlePass
        BY <2>4, <3>1 DEF TargetsGoOn, Continues
      <4>5. QED
        BY <1>0, <3>1, <3>2, <4>1, <4>2, <4>3, <4>4 DEF SeenInv, Running
    <3>6. QED
      BY <1>0, <2>2, <3>1, <3>2, <3>3, <3>4, <3>5, TargetStepInv DEF TargetStages
  <2>8. QED
    BY <2>5, <2>6, <2>7
<1>4. QED
  BY <1>1, <1>2, <1>3 DEF addTarget

----------------------------------------------------------------------------
(* The begin and the end of a pass.                                        *)

LEMMA ReloadInv ==
    ASSUME Inv, reload
    PROVE  Inv'
<1>0. /\ TypeInv /\ NetInv /\ pass.at = "reload" /\ pass.at \notin {"idle", "get"}
      /\ pass # IdlePass
      /\ pass.op \in {"ensure", "update"} /\ pass.changed \in BOOLEAN
      /\ ensure \in BOOLEAN /\ update \in BOOLEAN /\ AloneTypes
  BY PassFacts DEF Inv, TypeInv, reload
<1>1. /\ pass' = other /\ other' = IdlePass /\ alone' = alone
      /\ alone => seen' = [svc |-> pass.svc, nodes |-> pass.nodes, robot |-> pass.robot,
                           skipped |-> pass.skipped]
      /\ ~alone => seen' = None
      /\ status' = IF pass.op = "update" THEN status
                   ELSE IF pass.changed THEN lb.nets ELSE pass.lb.nets
      /\ UNCHANGED <<lb, certs, ensure, update, faults, svc, nodes, robot, edits>>
  BY DEF reload, EndPass, Success, Env
<1>2. TypeInv'
  BY <1>0, <1>1 DEF TypeInv, PassTypes, AloneTypes
<1>3. NetInv'
  <2>1. lb.nets = OwnNets /\ (~pass.changed => pass.lb.nets = OwnNets)
    BY <1>0 DEF NetInv, NetFacts, NetStages
  <2>2. pass.op = "ensure" => status' = OwnNets
    BY <1>1, <2>1
  <2>3. pass.op = "update" /\ ~ensure /\ ~Ensuring(other) => status' = OwnNets
    BY <1>0, <1>1 DEF NetInv, Ensuring
  <2>4. NetFacts(IdlePass, lb.nets) /\ ~Ensuring(IdlePass)
    BY DEF NetFacts, Ensuring
  <2>5. QED
    BY <1>0, <1>1, <2>1, <2>2, <2>3, <2>4 DEF NetInv, NetFacts, Ensuring, OwnNets
<1>4. alone => pass' = IdlePass
  BY <1>0, <1>1 DEF AloneTypes
<1>5. CASE ~alone
  <2>1. SettledInv' /\ SeenInv'
    BY <1>1, <1>5
    DEF SettledInv, ConfigConverged, ServicesConverged, TargetsConverged, Settled, SeenInv
  <2>2. QED
    BY <1>1, <1>2, <1>3, <1>5, <2>1 DEF Inv
<1> SUFFICES ASSUME alone PROVE SettledInv' /\ SeenInv'
  BY <1>1, <1>2, <1>3, <1>4, <1>5, IdleInv DEF Inv
<1>6. FreshInv /\ AttrInv /\ CertInv /\ PortInv /\ StrayInv /\ MissingInv
  BY DEF Inv
<1>7. /\ seen'.svc = pass.svc /\ seen'.nodes = pass.nodes /\ seen'.robot = pass.robot
      /\ seen'.skipped = pass.skipped
  BY <1>1
<1>8. /\ ServicesBehind /\ TargetsBehind /\ pass.at \notin LBStages
  BY <1>0
  DEF ServicesBehind, TargetsBehind, ServicesAhead, TargetsAhead, Running, LBStages,
      TargetStages, ServiceStages
<1>9. /\ lb.ports = pass.svc.ports
      /\ lb.nets = OwnNets
      /\ lb.targets \cap Targets \subseteq PassWanted
      /\ update = FALSE => PassWanted \subseteq lb.targets \cup pass.skipped
      /\ pass.svc.cert # None => GetCertificateByLabel /\ pass.svc.cert \in certs \cup TakenNames
      /\ \A f \in Attributes : pass.svc[f] # None => lb[f] = pass.svc[f]
  <2>1. /\ lb.ports = pass.svc.ports
        /\ pass.svc.cert # None =>
              GetCertificateByLabel /\ pass.svc.cert \in certs \cup TakenNames
    BY <1>6, <1>8 DEF PortInv, CertInv, CertResolved
  <2>2. lb.nets = OwnNets
    BY <1>0 DEF NetInv, NetFacts, NetStages
  <2>3. /\ lb.targets \cap Targets \subseteq PassWanted
        /\ update = FALSE => PassWanted \subseteq lb.targets \cup pass.skipped
    BY <1>6, <1>8 DEF StrayInv, MissingInv
  <2>4. \A f \in Attributes : pass.svc[f] # None => lb[f] = pass.svc[f]
    BY <1>0, <1>6, <1>8, NoneAhead DEF AttrInv, Running
  <2>5. QED
    BY <2>1, <2>2, <2>3, <2>4
<1>10. SettledInv'
  <2>1. SUFFICES ASSUME ensure' = FALSE, update' = FALSE PROVE SettledInv'
    BY <1>0, <1>1
    DEF SettledInv, ConfigConverged, ServicesConverged, TargetsConverged, Settled, Quiet
  <2>2. svc' = pass.svc /\ nodes' = pass.nodes
    BY <1>0, <1>1, <1>6, <2>1 DEF FreshInv
  <2>3. ConfigConverged'
    BY <1>1, <1>9, <2>2 DEF ConfigConverged, Attributes, OwnNets, GetCertificateByLabel
  <2>4. ServicesConverged'
    BY <1>1, <1>9, <2>2 DEF ServicesConverged
  <2>5. TargetsConverged'
    BY <1>1, <1>7, <1>9, <2>1, <2>2 DEF TargetsConverged, PassWanted
  <2>6. QED
    BY <2>3, <2>4, <2>5 DEF SettledInv
<1>11. SeenInv'
  <2>1. SeenWanted' = PassWanted
    BY <1>7 DEF SeenWanted, PassWanted
  <2>2. pass' = IdlePass /\ pass'.at = "idle"
    BY <1>4, IdleFacts
  <2>3. QED
    BY <1>1, <1>7, <1>9, <2>1, <2>2
    DEF SeenInv, Running, TargetsBehind
<1>12. QED
  BY <1>10, <1>11

\* A pass that has no copy of the Load Balancer yet relies on nothing of it.
LEMMA GetFacts ==
    ASSUME pass' # IdlePass, pass'.at = "get", pass'.svc = svc', pass'.nodes = nodes'
    PROVE  FreshInv' /\ AttrInv' /\ CertInv' /\ PortInv' /\ StrayInv' /\ MissingInv'
<1>1. ~Running' /\ ~ServicesAhead' /\ ~TargetsAhead'
  BY DEF Running, ServicesAhead, TargetsAhead, LBStages, TargetStages, ServiceStages
<1>2. QED
  BY <1>1 DEF FreshInv, AttrInv, CertInv, PortInv, StrayInv, MissingInv, ServicesBehind,
              TargetsBehind, ServiceStages

LEMMA BeginInv ==
    ASSUME Inv, BeginEnsure \/ BeginUpdate
    PROVE  Inv'
<1>0. /\ TypeInv /\ NetInv /\ SeenInv /\ AloneTypes
      /\ IsLB(lb) /\ svc \in Specs /\ ensure \in BOOLEAN /\ update \in BOOLEAN
  BY DEF Inv, TypeInv
<1>1. PICK op \in {"ensure", "update"} :
         /\ Begin(op)
         /\ ensure' \in BOOLEAN /\ update' \in BOOLEAN
         /\ op = "update" => ensure' = ensure
  BY <1>0 DEF BeginEnsure, BeginUpdate
<1>2. /\ pass' = NewPass(op)
      /\ UNCHANGED <<lb, certs, status, faults, svc, nodes, robot, edits>>
      /\ BeginAlone \/ BeginBeside(op)
  BY <1>1 DEF Begin, Env
<1>3. /\ DOMAIN pass' = PassFields /\ pass'.at = "get" /\ pass'.op = op
      /\ pass'.svc = svc /\ pass'.nodes = nodes
  BY <1>2 DEF PassFields, NewPass
<1>4. /\ pass' # IdlePass
      /\ ~Running' /\ ~TargetsBehind' /\ pass'.at \notin {"remove", "add"}
  BY <1>3, IdleFacts DEF Running, TargetsBehind
<1>5. \/ /\ pass = IdlePass /\ alone' = TRUE /\ other' = other /\ other = IdlePass
         /\ seen' = IF seen # None /\ seen.svc = svc /\ seen.nodes = nodes THEN seen ELSE None
      \/ alone' = FALSE /\ seen' = None /\ other' = pass /\ other = IdlePass /\ pass # IdlePass
  BY <1>0, <1>2 DEF BeginAlone, BeginBeside, AloneTypes
<1>6. TypeInv'
  <2>1. PassTypes(pass')
    <3>1. pass'.changed \in BOOLEAN /\ pass'.moved \in BOOLEAN /\ pass'.number \in Int
      BY <1>2 DEF NewPass
    <3>2. /\ pass'.svc \in Specs /\ pass'.op \in {"ensure", "update"}
          /\ pass'.at = "get" /\ DOMAIN pass' = PassFields
      BY <1>0, <1>1, <1>3
    <3>3. QED
      BY <3>1, <3>2 DEF PassTypes, Stages
  <2>2. PassTypes(other')
    BY <1>0, <1>5 DEF TypeInv
  <2>3. AloneTypes'
    BY <1>4, <1>5 DEF AloneTypes
  <2>4. QED
    BY <1>0, <1>1, <1>2, <2>1, <2>2, <2>3 DEF TypeInv, PassTypes
<1>7. NetInv'
  <2>1. NetFacts(pass', lb'.nets)
    BY <1>3 DEF NetFacts
  <2>2. NetFacts(other', lb'.nets)
    BY <1>0, <1>2, <1>5 DEF NetInv
  <2>3. ~ensure' /\ ~Ensuring(pass') /\ ~Ensuring(other') => lb'.nets = OwnNets /\ status' = OwnNets
    <3>1. SUFFICES ASSUME ~ensure', ~Ensuring(pass'), ~Ensuring(other')
                   PROVE  lb.nets = OwnNets /\ status = OwnNets
      BY <1>2
    <3>2. op = "update" /\ ~ensure
      BY <1>1, <1>3, <1>4, <3>1 DEF Ensuring
    <3>3. ~Ensuring(pass) /\ ~Ensuring(other)
      BY <1>5, <3>1 DEF Ensuring
    <3>4. QED
      BY <1>0, <3>2, <3>3 DEF NetInv
  <2>4. QED
    BY <2>1, <2>2, <2>3 DEF NetInv, NetFacts, Ensuring, OwnNets
<1>8. SettledInv'
  BY <1>4
  DEF SettledInv, ConfigConverged, ServicesConverged, TargetsConverged, Settled, Quiet
<1>9. SeenInv'
  <2>1. SUFFICES ASSUME seen' # None PROVE SeenInv'
    BY DEF SeenInv
  <2>2. seen' = seen /\ seen # None /\ seen.svc = svc /\ seen.nodes = nodes
    BY <1>5, <2>1
  <2>3. SeenWanted' = SeenWanted
    BY <2>2 DEF SeenWanted
  <2>4. QED
    BY <1>0, <1>2, <1>3, <1>4, <2>2, <2>3 DEF SeenInv
<1>10. pass'.svc = svc' /\ pass'.nodes = nodes'
  BY <1>2, <1>3
<1>11. QED
  BY <1>3, <1>4, <1>6, <1>7, <1>8, <1>9, <1>10, GetFacts DEF Inv

LEMMA GetLBInv ==
    ASSUME Inv, getLB
    PROVE  Inv'
<1>0. /\ TypeInv /\ NetInv /\ SeenInv /\ IsLB(lb) /\ pass.at = "get" /\ pass # IdlePass
      /\ PassTypes(pass) /\ DOMAIN pass = PassFields
  BY IdleFacts DEF Inv, TypeInv, getLB, PassTypes
<1>1. /\ pass' = [pass EXCEPT !.at = "rdns4", !.lb = lb, !.todo = lb.nets \ {NetworkID}]
      /\ UNCHANGED <<lb, certs, other, alone, status, ensure, update, seen, faults, svc, nodes,
                     robot, edits>>
  BY DEF getLB, Continue, Beside, Env
<1>2. /\ DOMAIN pass' = PassFields /\ pass'.at = "rdns4" /\ pass'.lb = lb
      /\ pass'.todo = lb.nets \ {NetworkID} /\ pass'.op = pass.op /\ pass'.svc = pass.svc
      /\ pass'.nodes = pass.nodes /\ pass'.changed = pass.changed
      /\ pass'.number = pass.number /\ pass'.moved = pass.moved
  BY <1>0, <1>1 DEF PassFields
<1>3. /\ pass' # IdlePass /\ ServicesAhead' /\ ~ServicesBehind' /\ TargetsAhead'
      /\ ~TargetsBehind' /\ pass'.at \notin ServiceStages
  BY <1>2, IdleFacts
  DEF ServicesAhead, ServicesBehind, TargetsAhead, TargetsBehind, LBStages, ServiceStages
<1>4. TypeInv'
  <2>1. PassTypes(pass')
    BY <1>0, <1>2 DEF PassTypes, Stages
  <2>2. AloneTypes' /\ PassTypes(other')
    BY <1>0, <1>1, <1>3 DEF AloneTypes, TypeInv
  <2>3. QED
    BY <1>0, <1>1, <2>1, <2>2 DEF TypeInv, PassTypes
<1>5. NetInv'
  <2>1. NetFacts(pass', lb'.nets)
    <3>1. None \notin lb.nets
      BY <1>0, NetworkFacts DEF IsLB
    <3>2. lb.nets \subseteq pass'.todo \cup OwnNets /\ NetworkID \notin pass'.todo
      BY <1>2, <3>1 DEF OwnNets
    <3>3. QED
      BY <1>1, <1>2, <3>2 DEF NetFacts, NetStages
  <2>2. Ensuring(pass') <=> Ensuring(pass)
    BY <1>0, <1>2, <1>3 DEF Ensuring
  <2>3. QED
    BY <1>0, <1>1, <2>1, <2>2 DEF NetInv, NetFacts, Ensuring, OwnNets
<1>6. SettledInv'
  BY <1>3
  DEF SettledInv, ConfigConverged, ServicesConverged, TargetsConverged, Settled, Quiet
<1>7. SeenInv'
  <2>1. SeenWanted' = SeenWanted
    BY <1>1 DEF SeenWanted
  <2>2. QED
    BY <1>0, <1>1, <1>2, <1>3, <2>1 DEF SeenInv
<1>8. ASSUME alone
      PROVE  FreshInv' /\ AttrInv' /\ CertInv' /\ PortInv' /\ StrayInv' /\ MissingInv'
  <2>1. FreshInv'
    BY <1>0, <1>1, <1>2, <1>8 DEF Inv, FreshInv
  <2>2. AttrInv'
    BY <1>1, <1>2 DEF AttrInv, Attributes, UpTo
  <2>3. CertInv' /\ PortInv' /\ StrayInv' /\ MissingInv'
    BY <1>1, <1>2, <1>3 DEF CertInv, PortInv, StrayInv, MissingInv
  <2>4. QED
    BY <2>1, <2>2, <2>3
<1>9. QED
  BY <1>1, <1>4, <1>5, <1>6, <1>7, <1>8 DEF Inv

\* The other pass makes the next call: only when neither runs alone.
LEMMA SwitchInv ==
    ASSUME Inv, Switch
    PROVE  Inv'
<1>1. /\ ~alone /\ seen = None /\ pass # IdlePass /\ other # IdlePass
      /\ pass' = other /\ other' = pass
      /\ UNCHANGED <<lb, certs, alone, status, ensure, update, seen, faults, svc, nodes, robot,
                     edits>>
  BY DEF Inv, TypeInv, AloneTypes, Switch, Env
<1>2. TypeInv'
  BY <1>1 DEF Inv, TypeInv, PassTypes, AloneTypes
<1>3. NetInv'
  BY <1>1 DEF Inv, NetInv, NetFacts, Ensuring, OwnNets
<1>4. SettledInv' /\ SeenInv'
  BY <1>1
  DEF SettledInv, ConfigConverged, ServicesConverged, TargetsConverged, Settled, SeenInv
<1>5. QED
  BY <1>1, <1>2, <1>3, <1>4 DEF Inv

----------------------------------------------------------------------------
(* The cluster and the project change.                                     *)

LEMMA ChangeInv ==
    ASSUME Inv, UNCHANGED <<certs, pass, other, alone, status, seen, faults>>,
           svc' \in Specs, nodes' \subseteq Servers \cup RobotServers,
           robot' \in [RobotServers -> SUBSET Families], edits' \in 0 .. MaxEdits,
           ensure' \in BOOLEAN, update' \in BOOLEAN,
           ensure => ensure', update => update',
           svc' # svc => ensure', nodes' # nodes => update',
           \/ lb' = lb
           \/ /\ update' /\ IsLB(lb') /\ lb'.targets \subseteq lb.targets
              /\ \A g \in LBFields \ {"targets"} : lb'[g] = lb[g]
    PROVE  Inv'
<1>1. /\ IsLB(lb') /\ lb'.nets = lb.nets /\ lb'.ports = lb.ports
      /\ \A f \in Attributes : lb'[f] = lb[f]
      /\ lb'.targets \subseteq lb.targets /\ (~update' => lb'.targets = lb.targets)
  BY DEF Inv, TypeInv, LBFields, Attributes
<1>2. /\ PassWanted' = PassWanted /\ SeenWanted' = SeenWanted
      /\ ServicesAhead' = ServicesAhead /\ ServicesBehind' = ServicesBehind
      /\ TargetsAhead' = TargetsAhead /\ TargetsBehind' = TargetsBehind
      /\ Running' = Running
  BY DEF PassWanted, SeenWanted, ServicesAhead, ServicesBehind, TargetsAhead, TargetsBehind,
         Running
<1>3. TypeInv'
  <2>1. PassTypes(pass)' /\ PassTypes(other)' /\ AloneTypes'
    BY DEF Inv, TypeInv, PassTypes, AloneTypes
  <2>2. QED
    BY <1>1, <2>1 DEF Inv, TypeInv
<1>4. NetInv'
  BY <1>1 DEF Inv, NetInv, NetFacts, Ensuring, OwnNets
<1>5. alone => FreshInv'
  BY DEF Inv, FreshInv
<1>6. alone => AttrInv'
  BY <1>1, <1>2 DEF Inv, AttrInv
<1>7. alone => CertInv' /\ PortInv'
  BY <1>1, <1>2 DEF Inv, CertInv, CertResolved, GetCertificateByLabel, PortInv
<1>8. alone => StrayInv'
  BY <1>1, <1>2 DEF Inv, StrayInv
<1>9. alone => MissingInv'
  BY <1>1, <1>2 DEF Inv, MissingInv
<1>10. SettledInv'
  <2>1. SUFFICES ASSUME Settled' PROVE SettledInv'
    BY DEF SettledInv, ConfigConverged, ServicesConverged, TargetsConverged
  <2>2. Settled /\ svc' = svc /\ nodes' = nodes /\ lb'.targets = lb.targets
    BY <1>1, <2>1 DEF Settled, Quiet
  <2>3. ConfigConverged'
    BY <1>1, <2>2
    DEF Inv, SettledInv, ConfigConverged, Attributes, GetCertificateByLabel
  <2>4. ServicesConverged'
    BY <1>1, <2>2 DEF Inv, SettledInv, ServicesConverged
  <2>5. TargetsConverged'
    BY <1>1, <2>2 DEF Inv, SettledInv, TargetsConverged
  <2>6. QED
    BY <2>3, <2>4, <2>5 DEF SettledInv
<1>11. SeenInv'
  BY <1>1, <1>2 DEF Inv, SeenInv
<1>12. QED
  BY <1>3, <1>4, <1>5, <1>6, <1>7, <1>8, <1>9, <1>10, <1>11 DEF Inv

LEMMA EditsInv ==
    ASSUME Inv, NEW n \in Servers \cup RobotServers,
           \/ EditService \/ ChangeNodes(n) \/ DeleteServer(n)
           \/ n \in RobotServers /\ ChangeRobot(n)
    PROVE  Inv'
<1>0. /\ svc \in Specs /\ nodes \subseteq Servers \cup RobotServers
      /\ robot \in [RobotServers -> SUBSET Families] /\ IsLB(lb)
      /\ ensure \in BOOLEAN /\ update \in BOOLEAN
      /\ edits \in 0 .. MaxEdits /\ MaxEdits \in Nat
  BY LoadBalancerOpsAssumption DEF Inv, TypeInv, LoadBalancerOpsAssumption
<1>1. edits' \in 0 .. MaxEdits
  BY <1>0 DEF EditService, ChangeNodes, DeleteServer, ChangeRobot, Edit
<1>2. CASE EditService
  BY <1>0, <1>1, <1>2, ChangeInv DEF EditService, Beside
<1>3. CASE ChangeNodes(n)
  BY <1>0, <1>1, <1>3, ChangeInv DEF ChangeNodes, Beside
<1>4. CASE DeleteServer(n)
  <2> DEFINE rest == {t \in lb.targets : t[2] # n}
  <2>1. rest \subseteq Targets \cup {OtherTarget} /\ IsFiniteSet(rest)
    BY <1>0, FS_Subset DEF IsLB
  <2>2. lb' = [lb EXCEPT !.targets = rest]
    BY <1>4 DEF DeleteServer
  <2>3. rest \subseteq lb.targets
    OBVIOUS
  <2> HIDE DEF rest
  <2>4. /\ IsLB(lb') /\ lb'.targets \subseteq lb.targets
        /\ \A g \in LBFields \ {"targets"} : lb'[g] = lb[g]
    BY <1>0, <2>1, <2>2, <2>3 DEF IsLB, LBFields
  <2>5. QED
    BY <1>0, <1>1, <1>4, <2>4, ChangeInv DEF DeleteServer, Beside
<1>5. CASE n \in RobotServers /\ ChangeRobot(n)
  <2>1. robot' \in [RobotServers -> SUBSET Families]
    BY <1>0, <1>5 DEF ChangeRobot
  <2>2. QED
    BY <1>0, <1>1, <1>5, <2>1, ChangeInv DEF ChangeRobot, Beside
<1>6. QED
  BY <1>2, <1>3, <1>4, <1>5

----------------------------------------------------------------------------
(* The theorems.                                                           *)

LEMMA InitInv == Init => Inv
<1> SUFFICES ASSUME Init PROVE Inv
  OBVIOUS
<1>1. /\ pass = IdlePass /\ other = IdlePass /\ alone = TRUE /\ seen = None /\ ensure = TRUE
      /\ IsLB(lb) /\ update = FALSE /\ pass.at = "idle"
  BY LoadBalancerOpsAssumption, IdleFacts DEF Init, LoadBalancerOpsAssumption
<1>2. TypeInv
  <2>1. robot \in [RobotServers -> SUBSET Families]
    BY DEF Init
  <2>2. faults \in 0 .. MaxFaults /\ edits \in 0 .. MaxEdits
    BY LoadBalancerOpsAssumption DEF Init, LoadBalancerOpsAssumption
  <2>3. svc \in Specs /\ nodes \subseteq Servers \cup RobotServers
    BY DEF Init
  <2>4. QED
    BY <1>1, <2>1, <2>2, <2>3 DEF TypeInv, PassTypes, AloneTypes
<1>3. NetInv /\ SeenInv
  BY <1>1 DEF NetInv, NetFacts, SeenInv
<1>4. ~Running /\ ~ServicesAhead /\ ~TargetsAhead
  BY <1>1 DEF Running, ServicesAhead, TargetsAhead, LBStages, TargetStages, ServiceStages
<1>5. FreshInv /\ AttrInv /\ CertInv /\ PortInv /\ StrayInv /\ MissingInv
  BY <1>1, <1>4 DEF FreshInv, AttrInv, CertInv, PortInv, StrayInv, MissingInv, ServicesBehind,
                    TargetsBehind, ServiceStages
<1>6. SettledInv
  BY <1>1
  DEF SettledInv, ConfigConverged, ServicesConverged, TargetsConverged, Settled, Quiet
<1>7. QED
  BY <1>2, <1>3, <1>5, <1>6 DEF Inv

LEMMA CallFailsInv ==
    ASSUME Inv, callFails
    PROVE  Inv'
<1>1. GivesUp
  BY FaultsFacts, NetsStay DEF callFails, GivesUp, Env, Inv, TypeInv
<1>2. QED
  BY <1>1, GivesUpInv

LEMMA StepInv == Inv /\ [Next]_vars => Inv'
<1> SUFFICES ASSUME Inv, [Next]_vars PROVE Inv'
  OBVIOUS
<1>1. CASE UNCHANGED vars
  BY <1>1, ChangeInv DEF vars, Inv, TypeInv
<1>2. CASE BeginEnsure \/ BeginUpdate \/ Switch
  BY <1>2, BeginInv, SwitchInv
<1>3. CASE ReconcileStep
  BY <1>3, GetLBInv, AttributesInv, DetachInv, AttachInv, CertificateInv, ReconcilePortInv, LeftOverInv, ListInv,
     RemoveInv, LeaveInv, SkipInv, AddInv, ReloadInv
  DEF ReconcileStep
<1>4. CASE callFails
  BY <1>4, CallFailsInv
<1>5. CASE EditService
  BY <1>5, ChangeInv, LoadBalancerOpsAssumption
  DEF EditService, Edit, Beside, Inv, TypeInv, LoadBalancerOpsAssumption
<1>6. CASE \E n \in Servers \cup RobotServers : ChangeNodes(n) \/ DeleteServer(n)
  BY <1>6, EditsInv
<1>7. CASE \E r \in RobotServers : ChangeRobot(r)
  BY <1>7, EditsInv
<1>8. QED
  BY <1>1, <1>2, <1>3, <1>4, <1>5, <1>6, <1>7 DEF Next

LEMMA Invariance == Spec => []Inv
BY InitInv, StepInv, PTL DEF Spec

\* TypeOK, whatever the edits, failures and overlaps: in particular the Load
\* Balancer never has two targets for one server, because a server that is a
\* target is not added again.
THEOREM TypeCorrect == Spec => []TypeOK
<1>1. Inv => TypeOK
  BY IdleFacts DEF Inv, TypeInv, PassTypes, AloneTypes, TypeOK, IsPass, Stages
<1>2. QED
  BY <1>1, Invariance, PTL

\* ConfigConverged, for any attributes, networks and failures: once nothing is
\* due and the last pass ran alone, the Load Balancer has the attributes of the
\* annotations, is in the cluster's network only, and the one certificate with
\* the Service's label is found (ReconcileHCLB and the first part of
\* ReconcileHCLBServices).  Passes may have overlapped before.
THEOREM ConfigConverges == Spec => []ConfigConverged
<1>1. Inv => ConfigConverged
  BY DEF Inv, SettledInv
<1>2. QED
  BY <1>1, Invariance, PTL

\* ServicesConverged, for any ports and options: once nothing is due and the
\* last pass ran alone, the Load Balancer listens on the ports of the Service
\* and on no others (ReconcileHCLBServices), whatever an overlapping pass with
\* an older Service wrote before.
THEOREM ServicesConverge == Spec => []ServicesConverged
<1>1. Inv => ServicesConverged
  BY DEF Inv, SettledInv
<1>2. QED
  BY <1>1, Invariance, PTL

\* TargetsConverged, for any servers, limits and addresses: once nothing is due
\* and the last pass ran alone, no target is left that the nodes do not account
\* for, and each one missing was skipped for a limit (ReconcileHCLBTargets),
\* whatever an overlapping pass with older nodes added or removed before.
THEOREM TargetsConverge == Spec => []TargetsConverged
<1>1. Inv => TargetsConverged
  BY DEF Inv, SettledInv
<1>2. QED
  BY <1>1, Invariance, PTL

\* StatusFresh, also when passes overlap: once nothing is due, the private
\* networks published in the Service's status are those of the Load Balancer
\* (the reload at the end of EnsureLoadBalancer, and UpdateLoadBalancer that
\* publishes nothing).  A pass only ever detaches other networks and attaches
\* the cluster's, so a pass beside another cannot undo what that one did.
THEOREM StatusIsFresh == Spec => []StatusFresh
<1>1. Inv => StatusFresh
  <2>1. SUFFICES ASSUME Inv, Quiet PROVE status = lb.nets
    BY DEF StatusFresh
  <2>2. pass = IdlePass /\ other = IdlePass /\ ~ensure
    BY <2>1 DEF Inv, TypeInv, AloneTypes, Quiet
  <2>3. QED
    BY <2>1, <2>2 DEF Inv, NetInv, Ensuring
<1>2. QED
  BY <1>1, Invariance, PTL

\* The Load Balancer after a step has the targets and the ports it had.
Preserves(l) == lb.targets \subseteq l.targets /\ l.ports = lb.ports

LEMMA AttributesPreserve ==
    ASSUME Inv,
           \/ changeIPv4RDNS \/ changeIPv6RDNS \/ changeAlgorithm \/ changeType
           \/ togglePublicInterface \/ detachFromNetwork \/ attachToNetwork
    PROVE  Preserves(lb')
<1>1. DOMAIN lb = LBFields
  BY DEF Inv, TypeInv, IsLB, LBFields
<1>2. \A v, f : f \in Attributes \cup {"nets"} => Preserves([lb EXCEPT ![f] = v])
  BY <1>1 DEF Attributes, LBFields, Preserves
<1>3. lb' = lb \/ \E f \in Attributes \cup {"nets"} : \E v : lb' = [lb EXCEPT ![f] = v]
  <2>1. CASE changeIPv4RDNS
    BY <2>1 DEF changeIPv4RDNS, Change, Call, CallTo, Goto, Continue, Abort, Fault, Attributes
  <2>2. CASE changeIPv6RDNS
    BY <2>2 DEF changeIPv6RDNS, Change, Call, CallTo, Goto, Continue, Abort, Fault, Attributes
  <2>3. CASE changeAlgorithm
    BY <2>3 DEF changeAlgorithm, Change, Call, CallTo, Goto, Continue, Abort, Fault, Attributes
  <2>4. CASE changeType
    BY <2>4 DEF changeType, Call, CallTo, Goto, Continue, Abort, Fault, Attributes
  <2>5. CASE togglePublicInterface
    BY <2>5 DEF togglePublicInterface, Change, Call, CallTo, Goto, Continue, Abort, Fault, Attributes
  <2>6. CASE detachFromNetwork
    BY <2>6 DEF detachFromNetwork, CallTo, Goto, Continue, Abort, Fault
  <2>7. CASE attachToNetwork
    BY <2>7 DEF attachToNetwork, Call, CallTo, Goto, Continue, Abort, Fault
  <2>8. QED
    BY <2>1, <2>2, <2>3, <2>4, <2>5, <2>6, <2>7
<1>4. CASE \E f \in Attributes \cup {"nets"} : \E v : lb' = [lb EXCEPT ![f] = v]
  <2>1. PICK f \in Attributes \cup {"nets"} : \E v : lb' = [lb EXCEPT ![f] = v]
    BY <1>4
  <2>2. PICK v : lb' = [lb EXCEPT ![f] = v]
    BY <2>1
  <2>3. Preserves([lb EXCEPT ![f] = v])
    BY <1>2
  <2>4. QED
    BY <2>2, <2>3
<1>5. CASE lb' = lb
  BY <1>5 DEF Preserves
<1>6. QED
  BY <1>3, <1>4, <1>5

\* A port set to what the Service asks for has it already.
LEMMA PortsPreserve ==
    ASSUME Inv, seen # None, pass.at \notin {"idle", "get"}, NEW p \in Ports
    PROVE  Preserves([lb EXCEPT !.ports[p] = pass.svc.ports[p]])
<1> DEFINE l == [lb EXCEPT !.ports[p] = pass.svc.ports[p]]
<1>0. TypeInv /\ SeenInv /\ IsLB(lb)
  BY DEF Inv, TypeInv
<1>a. l = WithPort(lb, p, pass.svc.ports[p])
  BY DEF WithPort
<1> HIDE DEF l
<1>1. /\ IsLB(l) /\ l.ports[p] = pass.svc.ports[p]
      /\ \A q \in Ports \ {p} : l.ports[q] = lb.ports[q]
      /\ \A g \in LBFields \ {"ports"} : l[g] = lb[g]
  BY <1>0, <1>a, PortEffect
<1>2. \A q \in Ports : l.ports[q] = lb.ports[q]
  BY <1>0, <1>1, SeenPorts
<1>3. IsPorts(l.ports) /\ IsPorts(lb.ports)
  BY <1>0, <1>1 DEF IsLB
<1>4. l.ports = lb.ports /\ l.targets = lb.targets
  BY <1>1, <1>2, <1>3, PortsEqual DEF LBFields
<1>5. QED
  BY <1>4 DEF Preserves, l

LEMMA SeenPreserved ==
    ASSUME Inv, seen # None, Next, nodes' = nodes
    PROVE  Preserves(lb')
<1>0. Preserves(lb)
  BY DEF Preserves
<1>a. alone
  BY SeenAlone DEF Inv
<1>1. CASE BeginEnsure \/ BeginUpdate \/ Switch \/ getLB \/ callFails \/ reload \/ EditService
  BY <1>0, <1>1 DEF BeginEnsure, BeginUpdate, Begin, Switch, getLB, Continue, callFails, reload,
                    EditService
<1>2. CASE \/ changeIPv4RDNS \/ changeIPv6RDNS \/ changeAlgorithm \/ changeType
           \/ togglePublicInterface \/ detachFromNetwork \/ attachToNetwork
  BY <1>2, AttributesPreserve
<1>3. CASE \/ reconcileManagedCertificate \/ listRobotServers \/ leaveTargets
           \/ \E t \in Targets : skipTarget(t)
  BY <1>0, <1>3 DEF reconcileManagedCertificate, listRobotServers, leaveTargets, skipTarget,
                    Continue, Abort
<1>4. CASE \E p \in Ports : reconcilePort(p)
  BY <1>0, <1>4, PortsPreserve DEF reconcilePort, CallTo, Continue, Abort, Fault
<1>5. CASE removeLeftOver
  <2>1. ASSUME NEW p \in pass.left, pass.at = "leftover"
        PROVE  p \in Ports /\ pass.svc.ports[p] = None
    BY <1>a, <2>1 DEF Inv, PortInv, ServiceStages
  <2>2. \A p \in pass.left : pass.at = "leftover" => Preserves([lb EXCEPT !.ports[p] = None])
    <3>1. SUFFICES ASSUME NEW p \in pass.left, pass.at = "leftover"
                   PROVE  Preserves([lb EXCEPT !.ports[p] = None])
      OBVIOUS
    <3>2. Preserves([lb EXCEPT !.ports[p] = pass.svc.ports[p]])
      BY <2>1, <3>1, PortsPreserve
    <3>3. QED
      BY <2>1, <3>1, <3>2
  <2>3. QED
    BY <1>0, <1>5, <2>2 DEF removeLeftOver, Goto, CallTo, Continue, Abort, Fault
<1>6. CASE removeTarget
  <2>1. pass.todo = {}
    BY <1>a, <1>6, SeenIsWanted DEF removeTarget, Inv, StrayInv
  <2>2. QED
    BY <1>0, <1>6, <2>1 DEF removeTarget, Continue
<1>7. CASE \E t \in Targets : addTarget(t)
  <2>1. \A t : Preserves([lb EXCEPT !.targets = @ \cup {t}])
    BY DEF Preserves, Inv, TypeInv, IsLB
  <2>2. QED
    BY <1>0, <1>7, <2>1 DEF addTarget, Continue, Abort, Fault
<1>8. CASE \E n \in Servers \cup RobotServers : ChangeNodes(n) \/ DeleteServer(n)
  BY <1>0, <1>8 DEF ChangeNodes, DeleteServer
<1>9. CASE \E r \in RobotServers : ChangeRobot(r)
  BY <1>0, <1>9 DEF ChangeRobot
<1>10. QED
  BY <1>1, <1>2, <1>3, <1>4, <1>5, <1>6, <1>7, <1>8, <1>9 DEF Next, ReconcileStep

\* NoChurn: while the Service, the nodes and the dedicated servers stay as the
\* last pass saw them, which ran alone and succeeded, no step takes away a
\* target or changes a listen port, in the middle of a pass or with a failing
\* call, until two passes run beside one another.
THEOREM NothingChurns == Spec => NoChurn
<1>1. Inv /\ [Next]_vars =>
        [/\ seen # None
         /\ seen.svc = svc /\ seen.nodes = nodes /\ seen.robot = robot
         /\ Inputs' = Inputs
         => lb.targets \subseteq lb'.targets /\ lb'.ports = lb.ports]_vars
  <2>1. SUFFICES ASSUME Inv, Next, seen # None, Inputs' = Inputs
                 PROVE  lb.targets \subseteq lb'.targets /\ lb'.ports = lb.ports
    OBVIOUS
  <2>2. Inputs.nodes = nodes /\ Inputs'.nodes = nodes'
    BY DEF Inputs
  <2>3. nodes' = nodes
    BY <2>1, <2>2
  <2>4. QED
    BY <2>1, <2>3, SeenPreserved DEF Preserves
<1>2. QED
  BY <1>1, Invariance, PTL DEF Spec, NoChurn
=============================================================================
