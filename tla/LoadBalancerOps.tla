-------------------------- MODULE LoadBalancerOps --------------------------
(***************************************************************************)
(* The passes of internal/hcops/load_balancer.go over one Load Balancer:   *)
(* ReconcileHCLB (attributes, networks), ReconcileHCLBServices (listen     *)
(* ports and the managed certificate) and ReconcileHCLBTargets (server and *)
(* IP targets), in the order in which EnsureLoadBalancer and               *)
(* UpdateLoadBalancer of hcloud/load_balancers.go call them.               *)
(*                                                                         *)
(* A pass works on the copy of the Load Balancer it was given: the calls   *)
(* change the Load Balancer in the project, never that copy.  Each call is *)
(* a step; any error ends the pass and leaves what was done.               *)
(*                                                                         *)
(* The queue calls EnsureLoadBalancer and the node sync UpdateLoadBalancer *)
(* for one Service at the same time.  Each pass has its own copies of the  *)
(* Service, the nodes and the Load Balancer, and the calls mix.            *)
(***************************************************************************)
EXTENDS Integers, FiniteSets

CONSTANTS None,          \* not set
          Invalid,       \* an annotation that does not parse
          Servers,       \* Hetzner Cloud servers that can be nodes
          RobotServers,  \* dedicated servers that can be nodes
          Networks,
          NetworkID,     \* the network of the cluster, or None
          Ports,         \* numbers of listen ports
          Types,         \* types of Load Balancers
          Limit,         \* the number of targets of each type, scaled down
          TakenNames,    \* names of certificates without the Service's label
          Specs,         \* the Services' specs and annotations considered
          InitLBs,       \* Load Balancers as found by the first pass
          UseRobot,      \* RobotClient is not nil
          MaxFaults,     \* bound on failing calls
          MaxEdits       \* bound on changes of spec, nodes and dedicated servers

Families == {"ipv4", "ipv6"}
ServerTargets == {"server"} \X Servers \X {"public", "private"}
IPTargets == {"ip"} \X RobotServers \X Families

\* A target of another type (label selector): counted, never touched.
OtherTarget == <<"label_selector", "other", "public">>
Targets == ServerTargets \cup IPTargets

\* A function of the listen ports.
IsPorts(f) == f = [p \in Ports |-> f[p]]

\* A Load Balancer in the project.
IsLB(l) ==
    /\ DOMAIN l = {"rdns4", "rdns6", "alg", "ltype", "nets", "pub", "ports", "targets"}
    /\ l.nets \subseteq Networks
    /\ l.ltype \in Types
    /\ IsPorts(l.ports)
    /\ l.targets \subseteq Targets \cup {OtherTarget} /\ IsFiniteSet(l.targets)
    /\ \A t, u \in l.targets \cap ServerTargets : t[2] = u[2] => t = u

\* The listen ports that a Service, or a Load Balancer, has.
PortsOf(ports) == {p \in DOMAIN ports : ports[p] # None}

ASSUME LoadBalancerOpsAssumption ==
    /\ Servers \cap RobotServers = {}
    /\ NetworkID \in Networks \cup {None}
    /\ None \notin Networks
    /\ Limit \in [Types -> Nat]
    /\ UseRobot \in BOOLEAN
    /\ MaxFaults \in Nat
    /\ MaxEdits \in Nat
    /\ \A s \in Specs : /\ s.ltype \in Types \cup {None}
                       /\ IsPorts(s.ports) /\ PortsOf(s.ports) # {}
    /\ \A l \in InitLBs : IsLB(l)

VARIABLES svc,      \* spec and annotations of the Service
          nodes,    \* the servers that are nodes of the cluster
          robot,    \* what ServerGetList reports: the addresses of each server
          lb,       \* the Load Balancer in the project
          certs,    \* managed certificates labelled with the Service's UID
          pass,     \* the pass that makes the next call
          other,    \* the pass beside it, if both are in progress
          alone,    \* no other pass ran beside the present or else the last one
          status,   \* private networks published in the Service's status
          ensure,   \* EnsureLoadBalancer is due
          update,   \* UpdateLoadBalancer is due
          seen,     \* inputs of the last pass, if it succeeded
          faults,
          edits

vars == <<svc, nodes, robot, lb, certs, pass, other, alone, status, ensure, update, seen,
          faults, edits>>

Stages == {"idle", "get", "rdns4", "rdns6", "algorithm", "type", "detach", "attach", "retry",
           "public", "cert", "services", "leftover", "robot", "remove", "add", "reload"}

IdlePass == [at |-> "idle"]

Inputs == [svc |-> svc, nodes |-> nodes, robot |-> robot]

Init ==
    /\ svc \in Specs
    /\ nodes \in SUBSET (Servers \cup RobotServers)
    /\ robot = [r \in RobotServers |-> Families]
    /\ lb \in InitLBs
    /\ certs = {}
    /\ pass = IdlePass
    /\ other = IdlePass
    /\ alone = TRUE
    /\ status = {}
    /\ ensure = TRUE
    /\ update = FALSE
    /\ seen = None
    /\ faults = 0
    /\ edits = 0

----------------------------------------------------------------------------
(* How a pass goes on, or ends.                                            *)

Env == <<svc, nodes, robot, edits>>
Beside == <<other, alone>>

\* The two passes make their calls in any order.
Switch ==
    /\ other # IdlePass
    /\ pass' = other
    /\ other' = pass
    /\ UNCHANGED <<lb, certs, alone, status, ensure, update, seen, faults, Env>>

\* The copy p of the pass replaces pass; the call changed the LB to l.
Continue(p, l) ==
    /\ pass' = p
    /\ lb' = l
    /\ UNCHANGED <<certs, Beside, status, ensure, update, seen, faults, Env>>

Goto(stage) == Continue([pass EXCEPT !.at = stage], lb)

\* The pass is over; the one beside it, if any, goes on.
EndPass ==
    /\ pass' = other
    /\ other' = IdlePass
    /\ UNCHANGED alone

\* An error: the queue, or the node sync, tries again.
GiveUp ==
    /\ EndPass
    /\ ensure' = (ensure \/ pass.op = "ensure")
    /\ update' = (update \/ pass.op = "update")
    /\ seen' = None

Abort == GiveUp /\ UNCHANGED <<lb, certs, status, faults, Env>>

\* A call that takes effect and whose action then fails or is lost.
Fault(l) ==
    /\ faults < MaxFaults
    /\ faults' = faults + 1
    /\ lb' = l
    /\ GiveUp
    /\ UNCHANGED <<certs, status, Env>>

\* The call that changes the LB to l is made and the pass is then p.
CallTo(p, l) == Continue([p EXCEPT !.changed = TRUE], l) \/ Fault(l)
Call(stage, l) == CallTo([pass EXCEPT !.at = stage], l)

----------------------------------------------------------------------------
(* EnsureLoadBalancer and UpdateLoadBalancer.                              *)

\* The Service and the nodes are those that the caller has read.
NewPass(op) ==
    [at |-> "get", op |-> op, svc |-> svc, nodes |-> nodes, lb |-> None,
     robot |-> [r \in RobotServers |-> {}], changed |-> FALSE, todo |-> {},
     left |-> {}, number |-> 0, skipped |-> {}, moved |-> FALSE]

\* No pass is in progress.
BeginAlone ==
    /\ pass = IdlePass
    /\ alone' = TRUE
    /\ seen' = IF seen # None /\ seen.svc = svc /\ seen.nodes = nodes THEN seen ELSE None
    /\ UNCHANGED other

\* The other worker's pass is in progress.
BeginBeside(op) ==
    /\ pass # IdlePass /\ pass.op # op
    /\ other = IdlePass
    /\ other' = pass
    /\ alone' = FALSE
    /\ seen' = None

Begin(op) ==
    /\ BeginAlone \/ BeginBeside(op)
    /\ pass' = NewPass(op)
    /\ UNCHANGED <<lb, certs, status, faults, Env>>

BeginEnsure == ensure /\ Begin("ensure") /\ ensure' = FALSE /\ UNCHANGED update
BeginUpdate == update /\ Begin("update") /\ update' = FALSE /\ UNCHANGED ensure

\* The LB is found.  What is to be detached are the networks of the copy other
\* than the cluster's.
getLB ==
    /\ pass.at = "get"
    /\ Continue([pass EXCEPT !.at = "rdns4", !.lb = lb, !.todo = lb.nets \ {NetworkID}], lb)

\* Services come before targets in EnsureLoadBalancer, after them in Update.
AfterLB == IF pass.op = "ensure" THEN "cert" ELSE "robot"
AfterServices == IF pass.op = "ensure" THEN "robot" ELSE "reload"
AfterTargets == IF pass.op = "ensure" THEN "reload" ELSE "cert"

----------------------------------------------------------------------------
(* ReconcileHCLB.                                                          *)

\* One attribute: nothing to do, an annotation that does not parse, or a call,
\* which may be refused if it would repeat what another pass did.
Change(stage, next, want, have, l) ==
    /\ pass.at = stage
    /\ \/ want \in {None, have} /\ Goto(next)
       \/ want = Invalid /\ Abort
       \/ want \notin {None, Invalid, have} /\ Call(next, l)
       \/ want \notin {None, Invalid, have} /\ l = lb /\ Abort

changeIPv4RDNS ==
    Change("rdns4", "rdns6", pass.svc.rdns4, pass.lb.rdns4, [lb EXCEPT !.rdns4 = pass.svc.rdns4])

changeIPv6RDNS ==
    Change("rdns6", "algorithm", pass.svc.rdns6, pass.lb.rdns6, [lb EXCEPT !.rdns6 = pass.svc.rdns6])

changeAlgorithm ==
    Change("algorithm", "type", pass.svc.alg, pass.lb.alg, [lb EXCEPT !.alg = pass.svc.alg])

\* Mutant: the type is sent whether it is annotated or not.
SendAnyType ==
    LET t == pass.svc.ltype
    IN  /\ pass.at = "type"
        /\ \/ t = pass.lb.ltype /\ Goto("detach")
           \/ t # pass.lb.ltype /\ Call("detach", [lb EXCEPT !.ltype = t])

\* The API refuses a type with room for fewer targets than the LB has, and may
\* refuse the one that it has.
changeType ==
    LET t == pass.svc.ltype
    IN  /\ pass.at = "type"
        /\ \/ t \in {None, pass.lb.ltype} /\ Goto("detach")
           \/ /\ t \notin {None, pass.lb.ltype}
              /\ Cardinality(lb.targets) <= Limit[t]
              /\ Call("detach", [lb EXCEPT !.ltype = t])
           \/ /\ t \notin {None, pass.lb.ltype}
              /\ Cardinality(lb.targets) > Limit[t] \/ t = lb.ltype
              /\ Abort

\* One after the other; it is an error if one is detached already.
detachFromNetwork ==
    /\ pass.at = "detach"
    /\ \/ pass.todo = {} /\ Goto("attach")
       \/ \E n \in pass.todo :
            \/ n \notin lb.nets /\ Abort
            \/ /\ n \in lb.nets
               /\ CallTo([pass EXCEPT !.todo = @ \ {n}], [lb EXCEPT !.nets = @ \ {n}])

\* Mutant: a conflict is taken for success.
ConflictIgnored ==
    /\ pass.at = "attach"
    /\ \/ (NetworkID = None \/ NetworkID \in pass.lb.nets) /\ Goto("public")
       \/ /\ NetworkID # None /\ NetworkID \notin pass.lb.nets
          /\ \/ Call("public", [lb EXCEPT !.nets = @ \cup {NetworkID}])
             \/ Goto("public")

\* A conflict or a lock is tried once more; it is an error if the LB has been
\* attached in the meantime.
attachToNetwork ==
    LET l == [lb EXCEPT !.nets = @ \cup {NetworkID}]
    IN  \/ /\ pass.at = "attach"
           /\ NetworkID = None \/ NetworkID \in pass.lb.nets
           /\ Goto("public")
        \/ /\ pass.at \in {"attach", "retry"}
           /\ NetworkID # None /\ NetworkID \notin pass.lb.nets
           /\ \/ NetworkID \notin lb.nets /\ Call("public", l)
              \/ NetworkID \in lb.nets /\ Abort
        \/ /\ pass.at = "attach"
           /\ NetworkID # None /\ NetworkID \notin pass.lb.nets
           /\ faults < MaxFaults
           /\ faults' = faults + 1
           /\ pass' = [pass EXCEPT !.at = "retry"]
           /\ UNCHANGED <<lb, certs, Beside, status, ensure, update, seen, Env>>

\* pub stands for the public interface being enabled.
togglePublicInterface ==
    Change("public", AfterLB, pass.svc.pub, pass.lb.pub, [lb EXCEPT !.pub = pass.svc.pub])

----------------------------------------------------------------------------
(* ReconcileHCLBServices.                                                  *)

EnterServices == [pass EXCEPT !.at = "services", !.todo = PortsOf(pass.svc.ports),
                              !.left = PortsOf(pass.lb.ports)]

\* Mutant: ErrAlreadyExists is an error.
CertificateOnlyOnce ==
    LET c == pass.svc.cert
    IN  /\ pass.at = "cert"
        /\ \/ (c = Invalid \/ c \in certs) /\ Abort
           \/ /\ c \notin certs /\ c # Invalid
              /\ certs' = certs \cup ({c} \ {None})
              /\ pass' = EnterServices
              /\ UNCHANGED <<lb, Beside, status, ensure, update, seen, faults, Env>>

\* ErrAlreadyExists is ignored, whether the certificate of that name carries the
\* Service's label or not.
CreateManagedCertificate(c) == certs' = certs \cup ({c} \ TakenNames)

reconcileManagedCertificate ==
    LET c == pass.svc.cert
    IN  /\ pass.at = "cert"
        /\ \/ c = Invalid /\ Abort
           \/ c = None /\ Continue(EnterServices, lb)
           \/ /\ c \notin {None, Invalid}
              /\ CreateManagedCertificate(c)
              /\ pass' = EnterServices
              /\ UNCHANGED <<lb, Beside, status, ensure, update, seen, faults, Env>>

\* ErrNotFound or ErrNonUniqueResult unless one certificate has the label.
GetCertificateByLabel == Cardinality(certs) = 1

\* buildAddServiceOpts and buildUpdateServiceOpts look up the managed certificate.
CertResolved == pass.svc.cert = None \/ GetCertificateByLabel

\* Mutant: a port the copy has is left as it is.
AddMissingPort(p) ==
    LET next == [pass EXCEPT !.todo = @ \ {p}, !.left = @ \ {p}]
    IN  /\ pass.at = "services"
        /\ p \in pass.todo
        /\ \/ ~CertResolved /\ Abort
           \/ /\ CertResolved /\ pass.lb.ports[p] = None
              /\ CallTo(next, [lb EXCEPT !.ports[p] = pass.svc.ports[p]])
           \/ CertResolved /\ pass.lb.ports[p] # None /\ Continue(next, lb)

\* The project agrees with the copy whether there is a listen port p.
AsCopied(p) == (pass.lb.ports[p] = None) = (lb.ports[p] = None)

\* One port of the Service: updated when the copy has it, added otherwise.
\* The options sent are those of the Service in both cases.  The API refuses to
\* add a port that is there and to update one that is not.
reconcilePort(p) ==
    /\ pass.at = "services"
    /\ p \in pass.todo
    /\ \/ ~(CertResolved /\ AsCopied(p)) /\ Abort
       \/ /\ CertResolved /\ AsCopied(p)
          /\ CallTo([pass EXCEPT !.todo = @ \ {p}, !.left = @ \ {p}],
                    [lb EXCEPT !.ports[p] = pass.svc.ports[p]])

\* The listen ports of the copy that no port of the Service uses.
removeLeftOver ==
    \/ pass.at = "services" /\ pass.todo = {} /\ Goto("leftover")
    \/ /\ pass.at = "leftover"
       /\ \/ pass.left = {} /\ Goto(AfterServices)
          \/ \E p \in pass.left :
                \/ lb.ports[p] = None /\ Abort
                \/ /\ lb.ports[p] # None
                   /\ CallTo([pass EXCEPT !.left = @ \ {p}], [lb EXCEPT !.ports[p] = None])

----------------------------------------------------------------------------
(* ReconcileHCLBTargets.                                                   *)

\* The addresses of a dedicated server used as targets (robotTargetIPs).
robotTargetIPs(s, r, rob) ==
    {f \in rob[r] : s.family \in {f, "dualstack"}}

\* The targets the Load Balancer should have.
Wanted(s, ns, rob) ==
    {<<"server", n, IF s.private THEN "private" ELSE "public">> : n \in ns \cap Servers}
      \cup {t \in IPTargets : t[2] \in ns /\ t[3] \in robotTargetIPs(s, t[2], rob)}

PassWanted == Wanted(pass.svc, pass.nodes, pass.robot)

\* The limit the code knows for the type of the copy.
maxTargetsReached(number, type) == number >= Limit[type]

\* Mutant: an error of ServerGetList is taken for an empty list.
ListErrorIsEmpty ==
    /\ pass.at = "robot"
    /\ \E rob \in {robot, [r \in RobotServers |-> {}]} :
          pass' = [pass EXCEPT !.at = "remove", !.robot = rob,
                      !.todo = (pass.lb.targets \cap Targets) \ Wanted(pass.svc, pass.nodes, rob),
                      !.number = Cardinality(pass.lb.targets)]
    /\ UNCHANGED <<lb, certs, Beside, status, ensure, update, seen, faults, Env>>

\* The annotations are parsed and the dedicated servers listed.
listRobotServers ==
    LET rob == IF UseRobot THEN robot ELSE [r \in RobotServers |-> {}]
    IN  /\ pass.at = "robot"
        /\ \/ /\ pass.svc.family = Invalid \/ (pass.svc.private /\ NetworkID = None)
              /\ Abort
           \/ /\ pass.svc.family # Invalid /\ (pass.svc.private => NetworkID # None)
              /\ pass' = [pass EXCEPT !.at = "remove", !.robot = rob,
                             !.todo = (pass.lb.targets \cap Targets) \ Wanted(pass.svc, pass.nodes, rob),
                             !.number = Cardinality(pass.lb.targets)]
              /\ seen' = IF seen # None /\ seen.robot = rob THEN seen ELSE None
              /\ UNCHANGED <<lb, certs, Beside, status, ensure, update, faults, Env>>

\* Mutant: a target that was removed to be created anew counts as present.
EnterAddNoRecreate ==
    [pass EXCEPT !.at = "add",
                 !.todo = {t \in PassWanted : \A u \in pass.lb.targets : u[2] # t[2]}]

EnterAdd == [pass EXCEPT !.at = "add", !.todo = PassWanted \ pass.lb.targets]

\* The target of the LB that t names in a call: a server has one, be it private
\* or public.
Named(t) == {u \in lb.targets : u[1] = t[1] /\ u[2] = t[2] /\ (t[1] = "server" \/ u = t)}

\* RemoveServerTarget and RemoveIPTarget; a target that is gone is an error.
removeTarget ==
    /\ pass.at = "remove"
    /\ \/ pass.todo = {} /\ Continue(EnterAdd, lb)
       \/ \E t \in pass.todo :
            \/ Named(t) = {} /\ Abort
            \/ /\ Named(t) # {}
               /\ LET l == [lb EXCEPT !.targets = @ \ Named(t)]
                  IN  \/ Continue([pass EXCEPT !.todo = @ \ {t}, !.moved = TRUE,
                                               !.number = @ - 1], l)
                      \/ Fault(l)

\* Server targets come before IP targets, in any order among themselves.
NextTargets ==
    IF pass.todo \cap ServerTargets # {} THEN pass.todo \cap ServerTargets ELSE pass.todo

\* The event LoadBalancerTargetsReached is emitted and the target left out.
skipTarget(t) ==
    /\ pass.at = "add"
    /\ t \in NextTargets
    /\ maxTargetsReached(pass.number, pass.lb.ltype)
    /\ Continue([pass EXCEPT !.todo = @ \ {t}, !.skipped = @ \cup {t}], lb)

\* AddServerTarget and AddIPTarget.  When the API reports its own limit the
\* rest of the targets is dropped and the pass goes on as if unchanged.  It is
\* an error if another pass has added the target.
addTarget(t) ==
    /\ pass.at = "add"
    /\ t \in NextTargets
    /\ ~maxTargetsReached(pass.number, pass.lb.ltype)
    /\ \/ Named(t) # {} /\ Abort
       \/ /\ Named(t) = {}
          /\ Cardinality(lb.targets) < Limit[lb.ltype]
          /\ LET l == [lb EXCEPT !.targets = @ \cup {t}]
             IN  \/ Continue([pass EXCEPT !.todo = @ \ {t}, !.moved = TRUE, !.number = @ + 1], l)
                 \/ Fault(l)
       \/ /\ Cardinality(lb.targets) >= Limit[lb.ltype]
          /\ Continue([pass EXCEPT !.at = AfterTargets, !.skipped = @ \cup pass.todo], lb)

leaveTargets ==
    /\ pass.at = "add"
    /\ pass.todo = {}
    /\ Continue([pass EXCEPT !.at = AfterTargets, !.changed = @ \/ pass.moved], lb)

----------------------------------------------------------------------------
(* The end of a pass.                                                      *)

\* What the pass has worked for, if nothing else touched the Load Balancer.
Success ==
    seen' = IF alone THEN [svc |-> pass.svc, nodes |-> pass.nodes, robot |-> pass.robot,
                           skipped |-> pass.skipped]
            ELSE None

\* Mutant: the status is built from the copy.
NoReload ==
    /\ pass.at = "reload"
    /\ EndPass
    /\ Success
    /\ status' = IF pass.op = "update" THEN status ELSE pass.lb.nets
    /\ UNCHANGED <<lb, certs, ensure, update, faults, Env>>

\* EnsureLoadBalancer reads the LB again if something changed and publishes
\* its addresses; UpdateLoadBalancer just returns.
reload ==
    /\ pass.at = "reload"
    /\ EndPass
    /\ Success
    /\ status' = IF pass.op = "update" THEN status
                 ELSE IF pass.changed THEN lb.nets ELSE pass.lb.nets
    /\ UNCHANGED <<lb, certs, ensure, update, faults, Env>>

\* A call fails without effect, or the process restarts (then the Service is
\* replayed to it, which is what a failed Ensure leads to).
callFails ==
    /\ pass # IdlePass
    /\ faults < MaxFaults
    /\ faults' = faults + 1
    /\ GiveUp
    /\ UNCHANGED <<lb, certs, status, Env>>

ReconcileStep ==
    \/ getLB
    \/ changeIPv4RDNS \/ changeIPv6RDNS \/ changeAlgorithm \/ changeType
    \/ detachFromNetwork \/ attachToNetwork \/ togglePublicInterface
    \/ reconcileManagedCertificate
    \/ \E p \in Ports : reconcilePort(p)
    \/ removeLeftOver
    \/ listRobotServers \/ removeTarget \/ leaveTargets
    \/ \E t \in Targets : skipTarget(t) \/ addTarget(t)
    \/ reload

----------------------------------------------------------------------------
(* The cluster and the project change.                                     *)

Edit == edits < MaxEdits /\ edits' = edits + 1

EditService ==
    /\ Edit
    /\ svc' \in Specs \ {svc}
    /\ ensure' = TRUE
    /\ UNCHANGED <<nodes, robot, lb, certs, pass, Beside, status, update, seen, faults>>

ChangeNodes(n) ==
    /\ Edit
    /\ nodes' = IF n \in nodes THEN nodes \ {n} ELSE nodes \cup {n}
    /\ update' = TRUE
    /\ UNCHANGED <<svc, robot, lb, certs, pass, Beside, status, ensure, seen, faults>>

\* A server is deleted: the API drops its target, the node goes away.
DeleteServer(n) ==
    /\ Edit
    /\ n \in nodes \cap Servers
    /\ nodes' = nodes \ {n}
    /\ lb' = [lb EXCEPT !.targets = {t \in @ : t[2] # n}]
    /\ update' = TRUE
    /\ UNCHANGED <<svc, robot, certs, pass, Beside, status, ensure, seen, faults>>

\* Nothing tells the controller when a dedicated server changes.
ChangeRobot(r) ==
    /\ Edit
    /\ robot' \in {[robot EXCEPT ![r] = fs] : fs \in SUBSET Families \ {robot[r]}}
    /\ UNCHANGED <<svc, nodes, lb, certs, pass, Beside, status, ensure, update, seen, faults>>

Next ==
    \/ BeginEnsure \/ BeginUpdate \/ Switch \/ ReconcileStep \/ callFails
    \/ EditService
    \/ \E n \in Servers \cup RobotServers : ChangeNodes(n) \/ DeleteServer(n)
    \/ \E r \in RobotServers : ChangeRobot(r)

Spec == Init /\ [][Next]_vars

\* The queue and the node sync start what is due, and passes in progress go on;
\* nothing is assumed of the turns that two of them take.
Fairness == WF_vars(BeginEnsure) /\ WF_vars(BeginUpdate) /\ WF_vars(ReconcileStep)
FairSpec == Spec /\ Fairness

----------------------------------------------------------------------------
(* Properties.                                                             *)

\* A pass p: none, or one with the Service that it was given.
IsPass(p) ==
    p # IdlePass =>
        /\ p.at \in Stages \ {"idle"}
        /\ p.op \in {"ensure", "update"}
        /\ p.svc \in Specs
        /\ p.number \in Int

TypeOK ==
    /\ svc \in Specs
    /\ nodes \subseteq Servers \cup RobotServers
    /\ robot \in [RobotServers -> SUBSET Families]
    /\ IsLB(lb)
    /\ IsPass(pass) /\ IsPass(other)
    /\ pass = IdlePass => other = IdlePass
    /\ faults \in 0 .. MaxFaults /\ edits \in 0 .. MaxEdits

\* Nothing is due, and nothing in progress.
Quiet == pass = IdlePass /\ ~ensure /\ ~update

\* And no pass ran beside the last one: a pass with an older Service, older
\* nodes or an older copy may else have made the last call.
Settled == Quiet /\ alone

\* Once nothing is due and the last pass ran alone, the attributes of the Load
\* Balancer are those of the annotations, it is in the network of the cluster
\* and in no other, and one managed certificate is found, the one asked for
\* unless its name was taken, whatever calls failed and passes overlapped before.
ConfigConverged ==
    Settled =>
        /\ \A f \in {"rdns4", "rdns6", "alg", "ltype", "pub"} : svc[f] # None => lb[f] = svc[f]
        /\ lb.nets = {NetworkID} \ {None}
        /\ svc.cert # None => GetCertificateByLabel /\ svc.cert \in certs \cup TakenNames

\* Once nothing is due and the last pass ran alone, the Load Balancer listens
\* on the ports of the Service, with their present options, and on no others.
ServicesConverged == Settled => lb.ports = svc.ports

\* Once nothing is due and the last pass ran alone, the targets are those of
\* the nodes: none is left from an earlier state, and each one missing was
\* reported or refused for the limit.  The dedicated servers are the ones the
\* last pass was told of.
TargetsConverged ==
    Settled =>
        LET wanted == Wanted(svc, nodes, seen.robot)
        IN  /\ lb.targets \cap Targets \subseteq wanted
            /\ wanted \ lb.targets \subseteq seen.skipped

\* Once nothing is due the private networks in the Service's status are those
\* of the Load Balancer, also after passes beside one another.
StatusFresh == Quiet => status = lb.nets

\* While the Service, the nodes and the dedicated servers stay as the last pass
\* saw them, which ran alone and succeeded, no pass takes a target or a port
\* away.
NoChurn ==
    [][/\ seen # None
       /\ seen.svc = svc /\ seen.nodes = nodes /\ seen.robot = robot
       /\ Inputs' = Inputs
       => lb.targets \subseteq lb'.targets /\ lb'.ports = lb.ports]_vars

\* No pass can succeed: an annotation does not parse, private targets are
\* asked for without a network, no certificate or more than one would carry the
\* Service's label, or the targets do not fit the type asked for.
Blocked ==
    \/ Invalid \in {svc.alg, svc.pub, svc.cert, svc.family}
    \/ svc.private /\ NetworkID = None
    \/ svc.cert # None /\ Cardinality(certs \cup ({svc.cert} \ TakenNames)) # 1
    \/ svc.ltype # None /\ Cardinality(lb.targets) > Limit[svc.ltype]

\* When changes and failures stop, the passes end with nothing left to do.
Converges == <>[](Quiet \/ Blocked)

\* http-managed-certificate-name "contains the names of the managed certificate
\* to create by the Cloud Controller manager" (annotation/load_balancer.go): a
\* valid Service is eventually served, whatever name it asks for.
CertificateServed == <>[]Quiet
=============================================================================
