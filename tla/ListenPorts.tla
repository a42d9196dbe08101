---------------------------- MODULE ListenPorts ----------------------------
(***************************************************************************)
(* The options of listen ports: how hclbServiceOptsBuilder                 *)
(* (internal/hcops/load_balancer.go) turns the annotations of a Service    *)
(* into the options of AddService and UpdateService, how                   *)
(* ReconcileHCLBServices calls these for the ports of the Service, and how *)
(* LBToService (internal/annotation) copies options back for the status.   *)
(* LoadBalancerOps, which has one value per port, is about the rest of the *)
(* pass.                                                                   *)
(*                                                                         *)
(* The node sync calls UpdateLoadBalancer beside the EnsureLoadBalancer of *)
(* the queue, each with the Service and the copy of the listen ports that  *)
(* it read: pass is the one that acts next, other one that waits.          *)
(*                                                                         *)
(* An option that no annotation sets is not sent: the API gives it its     *)
(* default when the port is added, and leaves it as it is on an update.    *)
(***************************************************************************)
EXTENDS Naturals, Sequences

CONSTANTS None,        \* not set, not sent, no status
          Invalid,     \* an annotation that does not parse
          Default,     \* what the API uses for an option it is not given
          CertNames,   \* names of uploaded certificates
          Specs,       \* annotations and ports of the Service
          InitPorts,   \* the listen ports of the Load Balancer at first
          MaxFaults,   \* bound on failing calls
          MaxEdits     \* bound on changes of the Service and of certificates

VARIABLES svc,      \* annotations (those that are set) and ports of the Service
          certs,    \* uploaded certificates in the project
          lb,       \* the listen ports in the project and their options
          pass,     \* the pass that makes the next call
          other,    \* the pass beside it, if both are in progress
          alone,    \* no other pass ran beside the present or else the last one
          apart,    \* nor beside any since the last Ensure that ran alone
          status,   \* ipMode published in the status of the Service
          ensure,   \* EnsureLoadBalancer is due
          update,   \* UpdateLoadBalancer is due
          faults,
          edits

vars == <<svc, certs, lb, pass, other, alone, apart, status, ensure, update, faults, edits>>
world == <<svc, certs, edits>>
history == <<alone, apart>>

HTTPKeys == {"cookieName", "cookieLifetime", "certificates", "redirectHTTP", "stickySessions"}
HealthKeys == {"hcProtocol", "hcPort", "hcInterval", "hcTimeout", "hcRetries"}
HealthHTTPKeys == {"hcDomain", "hcPath", "hcTLS", "hcStatusCodes"}
Options == {"destination", "protocol", "proxy"} \cup HTTPKeys \cup HealthKeys \cup HealthHTTPKeys

\* Annotations that are strings or lists of strings: every value parses.
StringKeys == {"cookieName", "certificates", "hcDomain", "hcPath", "hcStatusCodes", "certType"}

Protocols == {"tcp", "http", "https"}

\* Listen ports as the API returns them.
HasPortTypes(l) ==
    \A n \in DOMAIN l : /\ DOMAIN l[n] = Options
                        /\ l[n]["protocol"] \in Protocols
                        /\ l[n]["hcProtocol"] \in Protocols

\* Annotations: none for the destination, which is the NodePort.
HasAnnotationTypes(a) ==
    /\ DOMAIN a \subseteq (Options \ {"destination"}) \cup {"certType"}
    /\ \A k \in DOMAIN a : a[k] # None
    /\ \A k \in DOMAIN a \cap StringKeys : a[k] # Invalid
    /\ \A k \in DOMAIN a \cap {"protocol", "hcProtocol"} : a[k] \in Protocols \cup {Invalid}

ASSUME ListenPortsAssumption ==
    /\ None # Invalid /\ None \notin Protocols \cup {"managed"}
    /\ \A s \in Specs : Len(s.ports) \in Nat \ {0} /\ HasAnnotationTypes(s.ann)
    /\ \A s \in Specs : \A i \in 1 .. Len(s.ports) : s.ports[i].node # None
    /\ \A l \in InitPorts : HasPortTypes(l)
    /\ MaxFaults \in Nat
    /\ MaxEdits \in Nat

IdlePass == [at |-> "idle"]

Init ==
    /\ svc \in Specs
    /\ certs = CertNames
    /\ lb \in InitPorts
    /\ pass = IdlePass
    /\ other = IdlePass
    /\ alone = TRUE
    /\ apart = TRUE
    /\ status = None
    /\ ensure = TRUE
    /\ update = FALSE
    /\ faults = 0
    /\ edits = 0

----------------------------------------------------------------------------
(* hclbServiceOptsBuilder.  The annotations are a function a of those set. *)

\* The value of an annotation, None for ErrNotSet.
FromService(a, k) == IF k \in DOMAIN a THEN a[k] ELSE None

OrElse(v, default) == IF v = None THEN default ELSE v

\* Mutant: no protocol without the annotation.
NoDefault(a) == FromService(a, "protocol")

protocol(a) == OrElse(FromService(a, "protocol"), "tcp")

\* The protocol of the Service, if none is given for the health check.
healthProtocol(a) == OrElse(FromService(a, "hcProtocol"), protocol(a))

\* One of the annotations that are not only for HTTP is set.
addHealthCheck(a) == HealthKeys \cap DOMAIN a # {}

Managed(a) == FromService(a, "certType") = "managed"

\* resolveCertsByNameOrID: a name must exist, an ID is used as it is.  The pass
\* has made sure of the managed certificate before (LoadBalancerOps).
CertsResolved(a) ==
    Managed(a) \/ FromService(a, "certificates") \in (CertNames \cap certs) \cup {None, "id"}

\* The annotations that the builder parses.
ParsedKeys(a) ==
    {k \in DOMAIN a \ StringKeys : k = "hcTLS" => healthProtocol(a) # "tcp"}

\* Mutant: an error is forgotten when the next annotation is read.
LastErrorOnly(a) == FromService(a, "hcRetries") # Invalid

\* Mutant: all annotations are parsed whatever the protocol.
ExtractAll(a) == CertsResolved(a) /\ \A k \in DOMAIN a : a[k] # Invalid

\* extract and extractHealthCheck: do keeps the first error.
extract(a) == CertsResolved(a) /\ \A k \in ParsedKeys(a) : a[k] # Invalid

\* Mutant: the health check stays on the port it had.
KeepHealthPort(a, nodePort) ==
    [k \in Options |-> CASE k = "destination" -> nodePort
                         [] k = "protocol" -> protocol(a)
                         [] k = "hcProtocol" -> IF addHealthCheck(a) THEN healthProtocol(a) ELSE "tcp"
                         [] k = "certificates" /\ Managed(a) -> "managed"
                         [] OTHER -> FromService(a, k)]

\* buildAddServiceOpts and buildUpdateServiceOpts, which fill in the same
\* options; None stands for a nil pointer.
buildServiceOpts(a, nodePort) ==
    [k \in Options |->
        CASE k = "destination" -> nodePort
          [] k = "protocol" -> protocol(a)
          [] k = "certificates" /\ Managed(a) -> "managed"
          [] k = "hcProtocol" -> IF addHealthCheck(a) THEN healthProtocol(a) ELSE "tcp"
          [] k = "hcPort" -> OrElse(FromService(a, "hcPort"), nodePort)
          [] k \in HealthHTTPKeys ->
                IF addHealthCheck(a) /\ healthProtocol(a) # "tcp" THEN FromService(a, k) ELSE None
          [] OTHER -> FromService(a, k)]

----------------------------------------------------------------------------
(* The API.                                                                *)

Defaults == [k \in Options |-> Default]

\* Options that are not sent keep the value they have.
Apply(sent, have) == [k \in Options |-> OrElse(sent[k], have[k])]

\* The listen ports l with the port n set to o, and without n.
WithPort(l, n, o) == [p \in DOMAIN l \cup {n} |-> IF p = n THEN o ELSE l[p]]
WithoutPort(l, n) == [p \in DOMAIN l \ {n} |-> l[p]]

----------------------------------------------------------------------------
(* ReconcileHCLBServices.                                                  *)

Numbers(s) == {s.ports[i].port : i \in 1 .. Len(s.ports)}

\* left is hclbListenPorts, next the index of the port of the Service.
NewPass(op) == [at |-> "get", op |-> op, svc |-> svc, next |-> 1, left |-> {}]

\* No pass is in progress.
BeginAlone(op) ==
    /\ pass = IdlePass
    /\ pass' = NewPass(op)
    /\ alone' = TRUE
    /\ apart' = (apart \/ op = "ensure")
    /\ UNCHANGED other

\* One that the other worker called is in progress.
BeginBeside(op) ==
    /\ pass # IdlePass /\ pass.op # op
    /\ other = IdlePass
    /\ pass' = NewPass(op)
    /\ other' = pass
    /\ alone' = FALSE
    /\ apart' = FALSE

Begin(op) ==
    /\ BeginAlone(op) \/ BeginBeside(op)
    /\ UNCHANGED <<lb, status, faults, world>>

BeginEnsure == ensure /\ Begin("ensure") /\ ensure' = FALSE /\ UNCHANGED update
BeginUpdate == update /\ Begin("update") /\ update' = FALSE /\ UNCHANGED ensure

\* The two passes make their calls in any order.
Switch ==
    /\ other # IdlePass
    /\ pass' = other
    /\ other' = pass
    /\ UNCHANGED <<lb, history, status, ensure, update, faults, world>>

Continue(p, l) ==
    /\ pass' = p
    /\ lb' = l
    /\ UNCHANGED <<other, history, status, ensure, update, faults, world>>

\* The pass is over, the one beside it goes on.
EndPass ==
    /\ pass' = other
    /\ other' = IdlePass
    /\ UNCHANGED history

\* An error: the queue, or the node sync, tries again.
GiveUp ==
    /\ EndPass
    /\ ensure' = (ensure \/ pass.op = "ensure")
    /\ update' = (update \/ pass.op = "update")
    /\ UNCHANGED <<status, world>>

Abort == GiveUp /\ UNCHANGED <<lb, faults>>

\* The call changes the listen ports to l, and its action fails or is lost.
Fault(l) ==
    /\ faults < MaxFaults
    /\ faults' = faults + 1
    /\ lb' = l
    /\ GiveUp

\* The copy: the listen ports as the lookup returns them.
getLB ==
    /\ pass.at = "get"
    /\ Continue([pass EXCEPT !.at = "ports", !.left = DOMAIN lb], lb)

\* Mutant: the listen ports of the project decide, not those of the copy.
ExistsInProject(n) == n \in DOMAIN lb

\* The number is in hclbListenPorts, from which each port is deleted.
portExists(n) == n \in pass.left

\* One port: updated if the copy has its number, added otherwise.  The API
\* refuses to update a port that is not there and to add one that is.
reconcilePort ==
    LET a == pass.svc.ann
        port == pass.svc.ports[pass.next]
        sent == buildServiceOpts(a, port.node)
        next == [pass EXCEPT !.next = @ + 1, !.left = @ \ {port.port}]
        updated == WithPort(lb, port.port, Apply(sent, lb[port.port]))
        added == WithPort(lb, port.port, Apply(sent, Defaults))
    IN  /\ pass.at = "ports"
        /\ pass.next <= Len(pass.svc.ports)
        /\ \/ ~extract(a) /\ Abort
           \/ /\ extract(a) /\ portExists(port.port) /\ port.port \in DOMAIN lb
              /\ Continue(next, updated) \/ Fault(updated)
           \/ /\ extract(a) /\ ~portExists(port.port) /\ port.port \notin DOMAIN lb
              /\ Continue(next, added) \/ Fault(added)
           \/ /\ extract(a) /\ portExists(port.port) # (port.port \in DOMAIN lb)
              /\ Abort

\* The ports of the copy that no port of the Service uses, in any order; it is
\* an error if one is gone.
removeLeftOver ==
    \/ /\ pass.at = "ports"
       /\ pass.next > Len(pass.svc.ports)
       /\ Continue([pass EXCEPT !.at = "leftover"], lb)
    \/ /\ pass.at = "leftover"
       /\ \E n \in pass.left :
             LET l == WithoutPort(lb, n)
             IN  \/ n \in DOMAIN lb /\ Continue([pass EXCEPT !.left = @ \ {n}], l)
                 \/ n \in DOMAIN lb /\ Fault(l)
                 \/ n \notin DOMAIN lb /\ Abort

\* A call fails without effect, or the process restarts.
callFails ==
    /\ pass # IdlePass
    /\ faults < MaxFaults
    /\ faults' = faults + 1
    /\ GiveUp
    /\ UNCHANGED lb

----------------------------------------------------------------------------
(* The end of EnsureLoadBalancer: the Load Balancer is read again.         *)

\* Mutant: the annotation is read from the Service as it was.
OwnAnnotation(a, n) == a

\* What LBToService writes into the copy of the Service: options of the first
\* listen port n, in the order of the API, that has the number of a port.
LBToService(a, n) ==
    [k \in DOMAIN a \cup {"proxy", "protocol"} |->
        IF k \in {"proxy", "protocol"} THEN lb[n][k] ELSE a[k]]

\* getLBStatus: the mode of the addresses; the addresses are not modelled.
ipMode(a) == IF FromService(a, "proxy") = TRUE THEN "Proxy" ELSE "VIP"

\* The annotations stay as they are if the Load Balancer has none of the ports.
Annotated ==
    LET common == DOMAIN lb \cap Numbers(pass.svc)
    IN  IF common = {} THEN {pass.svc.ann} ELSE {LBToService(pass.svc.ann, n) : n \in common}

publish ==
    /\ pass.at = "leftover"
    /\ pass.left = {}
    /\ EndPass
    /\ \/ pass.op = "ensure" /\ \E a \in Annotated : status' = ipMode(a)
       \/ pass.op = "update" /\ UNCHANGED status
    /\ UNCHANGED <<lb, ensure, update, faults, world>>

----------------------------------------------------------------------------
(* Users and nodes.                                                        *)

Edit == edits < MaxEdits /\ edits' = edits + 1

EditService(s) ==
    /\ Edit
    /\ s # svc
    /\ svc' = s
    /\ ensure' = TRUE
    /\ UNCHANGED <<certs, lb, pass, other, history, status, update, faults>>

\* A certificate is uploaded or deleted; nothing tells the controller.
ChangeCertificate(c) ==
    /\ Edit
    /\ certs' = IF c \in certs THEN certs \ {c} ELSE certs \cup {c}
    /\ UNCHANGED <<svc, lb, pass, other, history, status, ensure, update, faults>>

NodesChange ==
    /\ Edit
    /\ update' = TRUE
    /\ UNCHANGED <<svc, certs, lb, pass, other, history, status, ensure, faults>>

----------------------------------------------------------------------------
PassStep == getLB \/ reconcilePort \/ removeLeftOver \/ publish

Next ==
    \/ BeginEnsure \/ BeginUpdate \/ Switch \/ PassStep \/ callFails
    \/ \E s \in Specs : EditService(s)
    \/ \E c \in CertNames : ChangeCertificate(c)
    \/ NodesChange

Spec == Init /\ [][Next]_vars

\* The queue and the node sync start what is due, and passes in progress go on;
\* nothing is assumed of the turns that two of them take.
FairSpec == Spec /\ WF_vars(BeginEnsure) /\ WF_vars(BeginUpdate) /\ WF_vars(PassStep)

----------------------------------------------------------------------------
(* Properties.                                                             *)

\* A pass p: none, or one with its Service and the place in it.
IsPass(p) ==
    p # IdlePass =>
        /\ p.at \in {"get", "ports", "leftover"}
        /\ p.op \in {"ensure", "update"}
        /\ p.svc \in Specs
        /\ p.next \in 1 .. Len(p.svc.ports) + 1

TypeOK ==
    /\ svc \in Specs
    /\ certs \subseteq CertNames
    /\ HasPortTypes(lb)
    /\ IsPass(pass) /\ IsPass(other)
    /\ pass = IdlePass => other = IdlePass
    /\ status \in {None, "VIP", "Proxy"}
    /\ faults \in 0 .. MaxFaults /\ edits \in 0 .. MaxEdits

\* Nothing is due, and nothing in progress.
Quiet == pass = IdlePass /\ ~ensure /\ ~update

\* Once nothing is due and the last pass ran alone, the listen ports are those
\* of the Service, whatever calls failed half way and whatever passes with an
\* older Service overlapped before: each leads to its NodePort, has every
\* option whose annotation is set, and its health check is on the port of the
\* annotation or else follows the NodePort.
PortsServed ==
    Quiet /\ alone =>
        /\ DOMAIN lb = Numbers(svc)
        /\ \A i \in 1 .. Len(svc.ports) :
              LET have == lb[svc.ports[i].port]
                  a == svc.ann
              IN  /\ have["destination"] = svc.ports[i].node
                  /\ "protocol" \notin DOMAIN a => have["protocol"] = "tcp"
                  /\ "hcPort" \notin DOMAIN a => have["hcPort"] = have["destination"]
                  /\ HealthKeys \cap DOMAIN a = {} => have["hcProtocol"] = "tcp"
                  /\ \A k \in (DOMAIN a \cap Options) \ HealthHTTPKeys :
                        have[k] = a[k] \/ (k = "certificates" /\ have[k] = "managed")
                  /\ \A k \in DOMAIN a \cap HealthHTTPKeys :
                        HealthKeys \cap DOMAIN a # {} /\ have["hcProtocol"] # "tcp" => have[k] = a[k]

\* Once nothing is due, and no two passes overlapped since the last Ensure, the
\* ipMode in the status is that of a listen port, and that of all of them if
\* the annotation is set: it never says VIP while the Load Balancer uses the
\* proxy protocol on every port, also after the annotation was removed and the
\* option stayed.
ModeMatchesPorts ==
    Quiet /\ apart =>
        /\ \E n \in DOMAIN lb : (status = "Proxy") <=> (lb[n]["proxy"] = TRUE)
        /\ "proxy" \in DOMAIN svc.ann => ((status = "Proxy") <=> (svc.ann["proxy"] = TRUE))

\* The annotations cannot be turned into options.
Malformed(a) ==
    \/ \E k \in DOMAIN a \ {"hcTLS"} : a[k] = Invalid
    \/ FromService(a, "hcTLS") = Invalid /\ "tcp" # healthProtocol(a)

\* A pass with an annotation that does not parse touches no listen port: it
\* neither applies the options read before, nor goes on to remove others.
MalformedLeavesPorts ==
    [][pass # IdlePass /\ Malformed(pass.svc.ann) => lb' = lb]_vars

\* The first of the ports with a number.
FirstWith(s, n) ==
    s.ports[CHOOSE i \in 1 .. Len(s.ports) :
                /\ s.ports[i].port = n
                /\ \A j \in 1 .. Len(s.ports) : s.ports[j].port = n => i <= j]

\* If two ports of a Service have one number (as for TCP and UDP), a pass sets
\* the listen port to the first, and the second never replaces it, unless
\* another pass removes the port in between.
FirstPortWins ==
    [][alone =>
        \A n \in DOMAIN lb' :
          n \notin DOMAIN lb \/ lb'[n] # lb[n]
             => lb'[n]["destination"] = FirstWith(pass.svc, n).node]_vars

\* No pass can succeed: an annotation does not parse, a certificate is not
\* there, or two ports have the same number.
Blocked ==
    \/ Malformed(svc.ann)
    \/ svc.ann # << >> /\ ~CertsResolved(svc.ann)
    \/ \E i, j \in 1 .. Len(svc.ports) : i # j /\ svc.ports[i].port = svc.ports[j].port

\* When changes and failures stop, the passes end with nothing left to do.
PassesSucceed == <>[](Quiet \/ Blocked)
=============================================================================
