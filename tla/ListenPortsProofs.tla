------------------------- MODULE ListenPortsProofs -------------------------
(***************************************************************************)
(* Proofs about ListenPorts, for any Services, listen ports, certificates, *)
(* edits, failures and passes beside one another: once nothing is due and  *)
(* a pass ran alone, the listen ports serve the Service; the status says   *)
(* how, if that pass was an Ensure or followed one; of two ports with one  *)
(* number the first wins; and annotations that do not parse leave the      *)
(* listen ports alone.                                                     *)
(*                                                                         *)
(* The inductive invariant splits the listen ports in the middle of a pass *)
(* into those that are left of the copy and those that were dealt with;    *)
(* the two are disjoint, which is why a second port with the same number   *)
(* is always refused.  It says so of passes that run alone only: a pass    *)
(* from idle begins with nothing assumed of the listen ports.              *)
(***************************************************************************)
EXTENDS ListenPorts, TLAPS

Fields == {"at", "op", "svc", "next", "left"}

Running == pass.at # "idle"

\* The numbers of the ports of the Service that the pass has dealt with.
Done == {pass.svc.ports[i].port : i \in 1 .. pass.next - 1}

\* A listen port with the options have serves the NodePort node as the
\* annotations a ask for.
Serves(have, a, node) ==
    /\ have["destination"] = node
    /\ "protocol" \notin DOMAIN a => have["protocol"] = "tcp"
    /\ "hcPort" \notin DOMAIN a => have["hcPort"] = have["destination"]
    /\ HealthKeys \cap DOMAIN a = {} => have["hcProtocol"] = "tcp"
    /\ \A k \in (DOMAIN a \cap Options) \ HealthHTTPKeys :
          have[k] = a[k] \/ (k = "certificates" /\ have[k] = "managed")
    /\ \A k \in DOMAIN a \cap HealthHTTPKeys :
          HealthKeys \cap DOMAIN a # {} /\ have["hcProtocol"] # "tcp" => have[k] = a[k]

----------------------------------------------------------------------------
(* The inductive invariant.                                                *)

\* A pass p whose annotations are malformed is still at its first port.
PassTypes(p) ==
    p # IdlePass =>
        /\ DOMAIN p = Fields
        /\ p.at \in {"get", "ports", "leftover"}
        /\ p.op \in {"ensure", "update"}
        /\ p.svc \in Specs
        /\ p.next \in 1 .. Len(p.svc.ports) + 1
        /\ p.at = "get" => p.next = 1
        /\ p.at = "leftover" => p.next = Len(p.svc.ports) + 1
        /\ Malformed(p.svc.ann) => p.at \in {"get", "ports"} /\ p.next = 1

\* A pass that runs alone has none beside it.
AloneTypes ==
    /\ alone \in BOOLEAN /\ apart \in BOOLEAN
    /\ apart => alone
    /\ alone => other = IdlePass
    /\ pass = IdlePass => other = IdlePass

TypeInv ==
    /\ svc \in Specs
    /\ certs \subseteq CertNames
    /\ HasPortTypes(lb)
    /\ PassTypes(pass) /\ PassTypes(other)
    /\ AloneTypes
    /\ status \in {None, "VIP", "Proxy"}
    /\ ensure \in BOOLEAN /\ update \in BOOLEAN
    /\ faults \in 0 .. MaxFaults /\ edits \in 0 .. MaxEdits

\* Unless one is due, the pass was called with the Service as it is.
FreshInv == Running /\ ~ensure => pass.svc = svc

\* The listen ports are those that are left of the copy and those dealt with,
\* and the latter are as the Service asks for.
DoneInv ==
    pass.at \in {"ports", "leftover"} =>
        /\ DOMAIN lb = pass.left \cup Done
        /\ pass.left \cap Done = {}
        /\ \A i \in 1 .. pass.next - 1 :
              Serves(lb[pass.svc.ports[i].port], pass.svc.ann, pass.svc.ports[i].node)

\* The published mode fits the listen ports l of the Service.
ModeFits(l) ==
    /\ DOMAIN l = Numbers(svc)
    /\ \E n \in DOMAIN l : (status = "Proxy") <=> (l[n]["proxy"] = TRUE)
    /\ "proxy" \in DOMAIN svc.ann => ((status = "Proxy") <=> (svc.ann["proxy"] = TRUE))

\* What EnsureLoadBalancer published stays true until it is due again: the node
\* sync finds the listen ports it expects.
ModeInv == ~ensure /\ (Running => pass.op = "update") => ModeFits(lb)

Inv ==
    /\ TypeInv
    /\ alone => FreshInv /\ DoneInv
    /\ apart => ModeInv
    /\ PortsServed

----------------------------------------------------------------------------
(* The options of a port.                                                  *)

\* The builder reports an error for malformed annotations, whatever
\* certificates there are.
LEMMA MalformedIsError ==
    ASSUME NEW s \in Specs, Malformed(s.ann)
    PROVE  ~extract(s.ann)
<1> DEFINE a == s.ann
<1>0. HasAnnotationTypes(a) /\ None # Invalid
  BY ListenPortsAssumption DEF ListenPortsAssumption
<1>1. ASSUME NEW k \in DOMAIN a \ {"hcTLS"}, a[k] = Invalid
      PROVE  k \in ParsedKeys(a)
  BY <1>0, <1>1 DEF HasAnnotationTypes, ParsedKeys
<1>2. ASSUME FromService(a, "hcTLS") = Invalid, "tcp" # healthProtocol(a)
      PROVE  "hcTLS" \in ParsedKeys(a) /\ a["hcTLS"] = Invalid
  <2>1. "hcTLS" \in DOMAIN a /\ a["hcTLS"] = Invalid
    BY <1>0, <1>2 DEF FromService
  <2>2. "hcTLS" \notin StringKeys
    BY DEF StringKeys
  <2>3. QED
    BY <1>2, <2>1, <2>2 DEF ParsedKeys
<1>3. QED
  BY <1>1, <1>2 DEF Malformed, extract

\* Annotations that are accepted name protocols.
LEMMA ProtocolTypes ==
    ASSUME NEW s \in Specs, extract(s.ann)
    PROVE  protocol(s.ann) \in Protocols /\ healthProtocol(s.ann) \in Protocols
<1> DEFINE a == s.ann
<1>0. HasAnnotationTypes(a) /\ None \notin Protocols
  BY ListenPortsAssumption DEF ListenPortsAssumption
<1>1. \A k \in DOMAIN a \cap {"protocol", "hcProtocol"} : a[k] \in Protocols
  <2>1. \A k \in DOMAIN a \cap {"protocol", "hcProtocol"} : k \in ParsedKeys(a)
    BY DEF ParsedKeys, StringKeys
  <2>2. QED
    BY <1>0, <2>1 DEF HasAnnotationTypes, extract
<1>2. protocol(a) \in Protocols
  BY <1>0, <1>1 DEF protocol, OrElse, FromService, Protocols
<1>3. healthProtocol(a) \in Protocols
  BY <1>0, <1>1, <1>2 DEF healthProtocol, OrElse, FromService
<1>4. QED
  BY <1>2, <1>3

\* What the builder sends, option by option.
LEMMA Sent ==
    ASSUME NEW a, NEW node
    PROVE  LET sent == buildServiceOpts(a, node)
           IN  /\ sent["destination"] = node
               /\ sent["protocol"] = protocol(a)
               /\ sent["hcProtocol"] = IF addHealthCheck(a) THEN healthProtocol(a) ELSE "tcp"
               /\ sent["hcPort"] = OrElse(FromService(a, "hcPort"), node)
               /\ Managed(a) => sent["certificates"] = "managed"
               /\ \A k \in HealthHTTPKeys :
                     addHealthCheck(a) /\ healthProtocol(a) # "tcp" => sent[k] = FromService(a, k)
               /\ \A k \in Options \ (HealthHTTPKeys \cup {"destination", "protocol", "hcProtocol", "hcPort"}) :
                     sent[k] = FromService(a, k) \/ (k = "certificates" /\ Managed(a))
<1>1. /\ "destination" \in Options /\ "protocol" \in Options /\ "hcProtocol" \in Options
      /\ "hcPort" \in Options /\ "certificates" \in Options /\ HealthHTTPKeys \subseteq Options
  BY DEF Options, HealthKeys, HTTPKeys
<1>2. HealthHTTPKeys \cap {"destination", "protocol", "hcProtocol", "hcPort", "certificates"} = {}
  BY DEF HealthHTTPKeys
<1>3. QED
  BY <1>1, <1>2 DEF buildServiceOpts

\* The options of a port are complete, and the proxy protocol is as the
\* annotation says, or as it was in the options have.
ProxyApplied(new, a, have) ==
    /\ DOMAIN new = Options
    /\ new["protocol"] \in Protocols /\ new["hcProtocol"] \in Protocols
    /\ "proxy" \in DOMAIN a => new["proxy"] = a["proxy"]
    /\ "proxy" \notin DOMAIN a => new["proxy"] = have["proxy"]

\* Options that are sent take effect, on a port that is there or on a new one.
LEMMA AppliedServes ==
    ASSUME NEW s \in Specs, extract(s.ann), NEW node, node # None, NEW have,
           NEW new, new = Apply(buildServiceOpts(s.ann, node), have)
    PROVE  Serves(new, s.ann, node) /\ ProxyApplied(new, s.ann, have)
<1> DEFINE a == s.ann
           sent == buildServiceOpts(a, node)
<1>0. HasAnnotationTypes(a) /\ None \notin Protocols \cup {"managed"}
  BY ListenPortsAssumption DEF ListenPortsAssumption
<1>1. protocol(a) \in Protocols /\ healthProtocol(a) \in Protocols
  BY ProtocolTypes
<1>2. /\ sent["destination"] = node
      /\ sent["protocol"] = protocol(a)
      /\ sent["hcProtocol"] = IF addHealthCheck(a) THEN healthProtocol(a) ELSE "tcp"
      /\ sent["hcPort"] = OrElse(FromService(a, "hcPort"), node)
      /\ Managed(a) => sent["certificates"] = "managed"
      /\ \A k \in HealthHTTPKeys :
            addHealthCheck(a) /\ healthProtocol(a) # "tcp" => sent[k] = FromService(a, k)
      /\ \A k \in Options \ (HealthHTTPKeys \cup {"destination", "protocol", "hcProtocol", "hcPort"}) :
            sent[k] = FromService(a, k) \/ (k = "certificates" /\ Managed(a))
  BY Sent
<1>3. \A k \in Options : new[k] = IF sent[k] = None THEN have[k] ELSE sent[k]
  BY DEF Apply, OrElse
<1>4. DOMAIN new = Options
  BY DEF Apply
<1>5. /\ \A k \in DOMAIN a : FromService(a, k) = a[k] /\ a[k] # None
      /\ \A k : k \notin DOMAIN a => FromService(a, k) = None
      /\ DOMAIN a \subseteq (Options \ {"destination"}) \cup {"certType"}
  BY <1>0 DEF HasAnnotationTypes, FromService
<1> HIDE DEF a, sent
<1>6. /\ "destination" \in Options /\ "protocol" \in Options /\ "hcProtocol" \in Options
      /\ "hcPort" \in Options /\ "certificates" \in Options /\ HealthHTTPKeys \subseteq Options
      /\ "proxy" \in Options /\ "tcp" \in Protocols /\ "hcProtocol" \in HealthKeys
      /\ {"destination", "protocol", "hcProtocol", "hcPort", "certificates", "proxy"}
            \cap HealthHTTPKeys = {}
      /\ "certType" \notin Options
  BY DEF Options, HealthKeys, HTTPKeys, HealthHTTPKeys, Protocols
<1>7. /\ new["destination"] = node
      /\ new["protocol"] = protocol(a) /\ new["hcProtocol"] = sent["hcProtocol"]
      /\ sent["hcProtocol"] \in Protocols
      /\ "protocol" \in DOMAIN a => protocol(a) = a["protocol"]
      /\ "protocol" \notin DOMAIN a => protocol(a) = "tcp"
  BY <1>0, <1>1, <1>2, <1>3, <1>5, <1>6 DEF protocol, OrElse
<1>8. /\ "hcPort" \notin DOMAIN a => new["hcPort"] = node
      /\ "hcPort" \in DOMAIN a => new["hcPort"] = a["hcPort"]
  BY <1>2, <1>3, <1>5, <1>6 DEF OrElse
<1>9. /\ HealthKeys \cap DOMAIN a = {} => new["hcProtocol"] = "tcp"
      /\ HealthKeys \cap DOMAIN a # {} => new["hcProtocol"] = healthProtocol(a)
      /\ "hcProtocol" \in DOMAIN a => new["hcProtocol"] = a["hcProtocol"]
  <2>1. addHealthCheck(a) <=> HealthKeys \cap DOMAIN a # {}
    BY DEF addHealthCheck
  <2>2. "hcProtocol" \in DOMAIN a => addHealthCheck(a) /\ healthProtocol(a) = a["hcProtocol"]
    BY <1>5, <1>6, <2>1 DEF healthProtocol, OrElse
  <2>3. QED
    BY <1>2, <1>7, <2>1, <2>2
<1>10. \A k \in (DOMAIN a \cap Options) \ HealthHTTPKeys :
          new[k] = a[k] \/ (k = "certificates" /\ new[k] = "managed")
  <2>1. SUFFICES ASSUME NEW k \in (DOMAIN a \cap Options) \ HealthHTTPKeys
                 PROVE  new[k] = a[k] \/ (k = "certificates" /\ new[k] = "managed")
    OBVIOUS
  <2>2. CASE k \in {"protocol", "hcProtocol", "hcPort"}
    BY <1>7, <1>8, <1>9, <2>1, <2>2
  <2>3. CASE k \notin {"protocol", "hcProtocol", "hcPort"}
    <3>1. k # "destination"
      BY <1>5, <1>6, <2>1
    <3>2. sent[k] = a[k] \/ (k = "certificates" /\ sent[k] = "managed")
      BY <1>2, <1>5, <2>1, <2>3, <3>1
    <3>3. QED
      BY <1>0, <1>3, <1>5, <2>1, <3>2
  <2>4. QED
    BY <2>2, <2>3
<1>11. \A k \in DOMAIN a \cap HealthHTTPKeys :
          HealthKeys \cap DOMAIN a # {} /\ new["hcProtocol"] # "tcp" => new[k] = a[k]
  <2>1. HealthKeys \cap DOMAIN a # {} /\ new["hcProtocol"] # "tcp" =>
            addHealthCheck(a) /\ healthProtocol(a) # "tcp"
    BY <1>9 DEF addHealthCheck
  <2>2. QED
    BY <1>2, <1>3, <1>5, <1>6, <2>1
<1>12. /\ "proxy" \in DOMAIN a => new["proxy"] = a["proxy"]
       /\ "proxy" \notin DOMAIN a => new["proxy"] = have["proxy"]
  BY <1>2, <1>3, <1>5, <1>6
<1>13. Serves(new, a, node)
  BY <1>7, <1>8, <1>9, <1>10, <1>11 DEF Serves
<1>14. QED
  BY <1>1, <1>4, <1>7, <1>12, <1>13 DEF a, ProxyApplied

----------------------------------------------------------------------------
(* Passes.                                                                 *)

LEMMA IdleFacts == IdlePass.at = "idle"
BY DEF IdlePass

\* A pass in progress, by its fields.
LEMMA PassFacts ==
    ASSUME TypeInv, pass.at # "idle"
    PROVE  /\ pass # IdlePass
           /\ DOMAIN pass = Fields
           /\ pass.at \in {"get", "ports", "leftover"}
           /\ pass.op \in {"ensure", "update"}
           /\ pass.svc \in Specs
           /\ Len(pass.svc.ports) \in Nat \ {0}
           /\ pass.next \in 1 .. Len(pass.svc.ports) + 1
           /\ pass.at = "get" => pass.next = 1
           /\ pass.at = "leftover" => pass.next = Len(pass.svc.ports) + 1
           /\ Malformed(pass.svc.ann) => pass.at \in {"get", "ports"} /\ pass.next = 1
<1>1. pass # IdlePass
  BY IdleFacts
<1>2. QED
  BY <1>1, ListenPortsAssumption DEF TypeInv, PassTypes, ListenPortsAssumption

\* The type invariant when a pass ends and the other, if any, goes on.
LEMMA EndTypes ==
    ASSUME TypeInv, EndPass, HasPortTypes(lb'), UNCHANGED <<svc, certs, edits>>,
           status' \in {None, "VIP", "Proxy"}, ensure' \in BOOLEAN, update' \in BOOLEAN,
           faults' \in 0 .. MaxFaults
    PROVE  /\ TypeInv'
           /\ alone' = alone /\ apart' = apart
           /\ alone => pass' = IdlePass /\ pass'.at = "idle"
<1>1. pass' = other /\ other' = IdlePass /\ alone' = alone /\ apart' = apart
  BY DEF EndPass, history
<1>2. PassTypes(pass)' /\ PassTypes(other)' /\ AloneTypes'
  BY <1>1 DEF TypeInv, PassTypes, AloneTypes
<1>3. QED
  BY <1>1, <1>2, IdleFacts DEF TypeInv, AloneTypes

\* A pass that ends with an error.
LEMMA GiveUpInv ==
    ASSUME Inv, pass.at # "idle", GiveUp, HasPortTypes(lb'), faults' \in 0 .. MaxFaults,
           apart /\ ~ensure /\ pass.op = "update" => ModeFits(lb')
    PROVE  Inv'
<1>0. TypeInv /\ pass.op \in {"ensure", "update"} /\ ensure \in BOOLEAN /\ update \in BOOLEAN
  BY PassFacts DEF Inv, TypeInv
<1>1. /\ EndPass
      /\ ensure' \in BOOLEAN /\ update' \in BOOLEAN /\ (ensure' \/ update')
      /\ ensure' = FALSE => ensure = FALSE /\ pass.op = "update"
      /\ UNCHANGED <<status, svc, certs, edits>>
  BY <1>0 DEF GiveUp, world
<1>2. /\ TypeInv' /\ alone' = alone /\ apart' = apart
      /\ alone => pass' = IdlePass /\ pass'.at = "idle"
  BY <1>0, <1>1, EndTypes DEF TypeInv
<1>3. alone' => FreshInv' /\ DoneInv'
  BY <1>2 DEF FreshInv, DoneInv, Running
<1>4. apart' => ModeInv'
  <2>1. SUFFICES ASSUME apart, ensure' = FALSE PROVE ModeFits(lb)'
    BY <1>1, <1>2 DEF ModeInv
  <2>2. ModeFits(lb')
    BY <1>0, <1>1, <2>1
  <2>3. QED
    BY <1>1, <2>2 DEF ModeFits
<1>5. PortsServed'
  BY <1>1 DEF PortsServed, Quiet
<1>6. QED
  BY <1>2, <1>3, <1>4, <1>5 DEF Inv

\* A pass that goes on, and the listen ports it leaves.
LEMMA GoOnInv ==
    ASSUME Inv, pass.at # "idle", NEW p, NEW l, Continue(p, l),
           DOMAIN p = Fields, p.at \in {"ports", "leftover"}, p.op = pass.op,
           p.svc = pass.svc, p.next \in 1 .. Len(pass.svc.ports) + 1,
           p.at = "leftover" => p.next = Len(pass.svc.ports) + 1,
           Malformed(pass.svc.ann) => p.at = "ports" /\ p.next = 1, HasPortTypes(l),
           apart /\ ~ensure /\ pass.op = "update" => ModeFits(l),
           alone =>
              LET done == {p.svc.ports[i].port : i \in 1 .. p.next - 1}
              IN  DOMAIN l = p.left \cup done /\ p.left \cap done = {},
           alone =>
              \A i \in 1 .. p.next - 1 :
                 Serves(l[p.svc.ports[i].port], p.svc.ann, p.svc.ports[i].node)
    PROVE  Inv'
<1>0. TypeInv /\ pass.op \in {"ensure", "update"} /\ pass.svc \in Specs /\ pass # IdlePass
  BY PassFacts DEF Inv
<1>1. /\ pass' = p /\ lb' = l
      /\ UNCHANGED <<other, alone, apart, status, ensure, update, faults, svc, certs, edits>>
  BY DEF Continue, world, history
<1>2. pass' # IdlePass /\ pass'.at # "idle"
  BY <1>1, IdleFacts
<1>3. TypeInv'
  <2>1. PassTypes(pass)' /\ PassTypes(other)' /\ AloneTypes'
    BY <1>0, <1>1, <1>2 DEF TypeInv, PassTypes, AloneTypes
  <2>2. QED
    BY <1>0, <1>1, <2>1 DEF TypeInv
<1>4. alone' => FreshInv'
  BY <1>0, <1>1 DEF Inv, FreshInv, Running
<1>5. alone' => DoneInv'
  BY <1>1 DEF DoneInv, Done
<1>6. apart' => ModeInv'
  <2>1. SUFFICES ASSUME apart, ~ensure, pass.op = "update" PROVE ModeFits(lb)'
    BY <1>1, <1>2 DEF ModeInv, Running
  <2>2. ModeFits(l)
    BY <2>1
  <2>3. QED
    BY <1>1, <2>2 DEF ModeFits
<1>7. PortsServed'
  BY <1>2, IdleFacts DEF PortsServed, Quiet
<1>8. QED
  BY <1>3, <1>4, <1>5, <1>6, <1>7 DEF Inv

\* The port of the Service at which the pass is.
Current == pass.svc.ports[pass.next]

\* The call for one port, made for a number that no earlier port has.
LEMMA PortCall ==
    ASSUME Inv, pass.at = "ports", pass.next <= Len(pass.svc.ports), extract(pass.svc.ann),
           NEW have, NEW l,
           l = WithPort(lb, Current.port,
                        Apply(buildServiceOpts(pass.svc.ann, Current.node), have)),
           \/ Current.port \in pass.left /\ have = lb[Current.port]
           \/ Current.port \notin DOMAIN lb
    PROVE  /\ alone => Current.port \notin Done
           /\ HasPortTypes(l)
           /\ DOMAIN l = DOMAIN lb \cup {Current.port}
           /\ Serves(l[Current.port], pass.svc.ann, Current.node)
           /\ \A p \in DOMAIN lb \ {Current.port} : l[p] = lb[p]
           /\ apart /\ ~ensure /\ pass.op = "update" => ModeFits(l)
<1> DEFINE n == Current.port
           a == pass.svc.ann
           new == Apply(buildServiceOpts(a, Current.node), have)
<1>0. /\ TypeInv /\ pass.svc \in Specs /\ pass.at # "idle"
      /\ alone => FreshInv /\ DoneInv
      /\ apart => alone /\ ModeInv
      /\ pass.next \in 1 .. Len(pass.svc.ports) /\ Len(pass.svc.ports) \in Nat
      /\ HasPortTypes(lb)
  BY PassFacts DEF Inv, TypeInv, AloneTypes
<1>1. Current.node # None
  BY <1>0, ListenPortsAssumption DEF Current, ListenPortsAssumption
<1>a. new = Apply(buildServiceOpts(a, Current.node), have) /\ l = WithPort(lb, n, new)
  OBVIOUS
<1>2. /\ Serves(new, a, Current.node)
      /\ DOMAIN new = Options
      /\ new["protocol"] \in Protocols /\ new["hcProtocol"] \in Protocols
      /\ "proxy" \in DOMAIN a => new["proxy"] = a["proxy"]
      /\ "proxy" \notin DOMAIN a => new["proxy"] = have["proxy"]
  <2>1. Serves(new, a, Current.node) /\ ProxyApplied(new, a, have)
    BY <1>0, <1>1, AppliedServes
  <2>2. QED
    BY <2>1 DEF ProxyApplied
<1> HIDE DEF new
<1>4. DOMAIN l = DOMAIN lb \cup {n} /\ l[n] = new /\ \A p \in DOMAIN lb \ {n} : l[p] = lb[p]
  BY <1>a DEF WithPort
<1>5. alone => DOMAIN lb = pass.left \cup Done /\ pass.left \cap Done = {}
  BY <1>0 DEF DoneInv
<1>6. alone => n \notin Done
  BY <1>5
<1>7. HasPortTypes(l)
  BY <1>0, <1>2, <1>4 DEF HasPortTypes
<1>8. apart /\ ~ensure /\ pass.op = "update" => ModeFits(l)
  <2>1. SUFFICES ASSUME apart, ~ensure, pass.op = "update" PROVE ModeFits(l)
    OBVIOUS
  <2>2. ModeFits(lb) /\ pass.svc = svc
    BY <1>0, <2>1 DEF ModeInv, FreshInv, Running
  <2>3. n \in Numbers(svc)
    BY <1>0, <2>2 DEF Numbers, Current
  <2>4. n \in DOMAIN lb /\ have = lb[n] /\ DOMAIN l = Numbers(svc)
    BY <1>4, <2>2, <2>3 DEF ModeFits
  <2>5. PICK m \in DOMAIN lb : (status = "Proxy") <=> (lb[m]["proxy"] = TRUE)
    BY <2>2 DEF ModeFits
  <2>6. (status = "Proxy") <=> (l[m]["proxy"] = TRUE)
    <3>1. CASE m # n
      BY <1>4, <2>5, <3>1
    <3>2. CASE m = n /\ "proxy" \in DOMAIN a
      BY <1>2, <1>4, <2>2, <3>2 DEF ModeFits
    <3>3. CASE m = n /\ "proxy" \notin DOMAIN a
      BY <1>2, <1>4, <2>4, <2>5, <3>3
    <3>4. QED
      BY <3>1, <3>2, <3>3
  <2>7. m \in DOMAIN l
    BY <1>4
  <2>8. QED
    BY <2>2, <2>4, <2>6, <2>7 DEF ModeFits
<1>9. QED
  BY <1>2, <1>4, <1>6, <1>7, <1>8

LEMMA FaultsFacts ==
    ASSUME TypeInv
    PROVE  /\ faults \in 0 .. MaxFaults
           /\ faults < MaxFaults => faults + 1 \in 0 .. MaxFaults
BY ListenPortsAssumption DEF ListenPortsAssumption, TypeInv

LEMMA AbortInv ==
    ASSUME Inv, pass.at # "idle", Abort
    PROVE  Inv'
<1>1. apart /\ ~ensure /\ pass.op = "update" => ModeFits(lb')
  BY DEF Abort, GiveUp, world, Inv, ModeInv, ModeFits
<1>2. QED
  BY <1>1, GiveUpInv DEF Abort, Inv, TypeInv

\* The calls that reconcilePort makes, and what it makes them from.
LEMMA PortCalls ==
    ASSUME Inv, reconcilePort
    PROVE  \/ Abort
           \/ /\ pass.at = "ports" /\ pass.next <= Len(pass.svc.ports) /\ extract(pass.svc.ann)
              /\ \E have, l :
                    /\ l = WithPort(lb, Current.port,
                                    Apply(buildServiceOpts(pass.svc.ann, Current.node), have))
                    /\ \/ Current.port \in pass.left /\ have = lb[Current.port]
                       \/ Current.port \notin DOMAIN lb
                    /\ \/ Continue([pass EXCEPT !.next = @ + 1, !.left = @ \ {Current.port}], l)
                       \/ Fault(l)
BY DEF reconcilePort, portExists, Current

LEMMA ReconcilePortInv ==
    ASSUME Inv, reconcilePort
    PROVE  Inv'
<1>0. /\ TypeInv /\ (alone => DoneInv) /\ pass.at = "ports" /\ pass.at # "idle"
      /\ DOMAIN pass = Fields /\ pass.svc \in Specs
      /\ pass.next <= Len(pass.svc.ports)
      /\ pass.next \in 1 .. Len(pass.svc.ports) /\ Len(pass.svc.ports) \in Nat \ {0}
  BY PassFacts DEF Inv, reconcilePort
<1>1. CASE Abort
  BY <1>0, <1>1, AbortInv
<1>2. CASE ~Abort
  <2>1. extract(pass.svc.ann)
    BY <1>2, PortCalls
  <2>2. PICK have, l :
            /\ l = WithPort(lb, Current.port,
                            Apply(buildServiceOpts(pass.svc.ann, Current.node), have))
            /\ \/ Current.port \in pass.left /\ have = lb[Current.port]
               \/ Current.port \notin DOMAIN lb
            /\ \/ Continue([pass EXCEPT !.next = @ + 1, !.left = @ \ {Current.port}], l)
               \/ Fault(l)
    BY <1>2, PortCalls
  <2>3. /\ alone => Current.port \notin Done
        /\ HasPortTypes(l)
        /\ DOMAIN l = DOMAIN lb \cup {Current.port}
        /\ Serves(l[Current.port], pass.svc.ann, Current.node)
        /\ \A p \in DOMAIN lb \ {Current.port} : l[p] = lb[p]
        /\ apart /\ ~ensure /\ pass.op = "update" => ModeFits(l)
    BY <1>0, <2>1, <2>2, PortCall
  <2>4. CASE Fault(l)
    <3>1. GiveUp /\ lb' = l /\ faults' \in 0 .. MaxFaults
      BY <1>0, <2>4, FaultsFacts DEF Fault
    <3>2. QED
      BY <1>0, <2>3, <3>1, GiveUpInv
  <2>5. CASE Continue([pass EXCEPT !.next = @ + 1, !.left = @ \ {Current.port}], l)
    <3> DEFINE p == [pass EXCEPT !.next = @ + 1, !.left = @ \ {Current.port}]
    <3>1. /\ DOMAIN p = Fields /\ p.at = "ports" /\ p.op = pass.op /\ p.svc = pass.svc
          /\ p.next = pass.next + 1 /\ p.left = pass.left \ {Current.port}
      BY <1>0 DEF Fields
    <3>2. Continue(p, l)
      BY <2>5
    <3> HIDE DEF p
    <3>3. /\ p.next \in 1 .. Len(pass.svc.ports) + 1
          /\ 1 .. p.next - 1 = (1 .. pass.next - 1) \cup {pass.next}
      BY <1>0, <3>1
    <3>4. ~Malformed(pass.svc.ann)
      BY <1>0, <2>1, MalformedIsError
    <3>5. {p.svc.ports[i].port : i \in 1 .. p.next - 1} = Done \cup {Current.port}
      BY <3>1, <3>3 DEF Done, Current
    <3>6. alone =>
             /\ DOMAIN l = p.left \cup {p.svc.ports[i].port : i \in 1 .. p.next - 1}
             /\ p.left \cap {p.svc.ports[i].port : i \in 1 .. p.next - 1} = {}
      BY <1>0, <2>3, <3>1, <3>5 DEF DoneInv
    <3>7. alone =>
             \A i \in 1 .. p.next - 1 :
                Serves(l[p.svc.ports[i].port], p.svc.ann, p.svc.ports[i].node)
      <4>1. SUFFICES ASSUME alone, NEW i \in 1 .. p.next - 1
                     PROVE  Serves(l[pass.svc.ports[i].port], pass.svc.ann, pass.svc.ports[i].node)
        BY <3>1
      <4>2. CASE i = pass.next
        BY <2>3, <4>2 DEF Current
      <4>3. CASE i \in 1 .. pass.next - 1
        <5>1. pass.svc.ports[i].port \in Done
          BY <4>3 DEF Done
        <5>2. l[pass.svc.ports[i].port] = lb[pass.svc.ports[i].port]
          BY <1>0, <2>3, <4>1, <5>1 DEF DoneInv
        <5>3. QED
          BY <1>0, <4>1, <4>3, <5>2 DEF DoneInv
      <4>4. QED
        BY <3>3, <4>1, <4>2, <4>3
    <3>8. QED
      BY <1>0, <2>3, <3>1, <3>2, <3>3, <3>4, <3>6, <3>7, GoOnInv
  <2>6. QED
    BY <2>2, <2>4, <2>5
<1>3. QED
  BY <1>1, <1>2

\* When all ports of the Service are dealt with, the others are left.
LEMMA AllDone ==
    ASSUME TypeInv, pass.at = "leftover"
    PROVE  /\ Done = Numbers(pass.svc) /\ ~Malformed(pass.svc.ann)
           /\ 1 .. pass.next - 1 = 1 .. Len(pass.svc.ports)
<1>1. /\ pass.next = Len(pass.svc.ports) + 1 /\ Len(pass.svc.ports) \in Nat
      /\ ~Malformed(pass.svc.ann)
  BY PassFacts
<1>2. pass.next - 1 = Len(pass.svc.ports)
  BY <1>1
<1>3. QED
  BY <1>1, <1>2 DEF Done, Numbers

LEMMA LeftOverInv ==
    ASSUME Inv, removeLeftOver
    PROVE  Inv'
<1>0. /\ TypeInv /\ pass.at # "idle" /\ DOMAIN pass = Fields
      /\ apart => alone /\ ModeInv
      /\ pass.op \in {"ensure", "update"} /\ HasPortTypes(lb)
      /\ alone =>
            /\ FreshInv
            /\ DOMAIN lb = pass.left \cup Done /\ pass.left \cap Done = {}
            /\ \A i \in 1 .. pass.next - 1 :
                  Serves(lb[pass.svc.ports[i].port], pass.svc.ann, pass.svc.ports[i].node)
      /\ pass.next \in 1 .. Len(pass.svc.ports) + 1 /\ Len(pass.svc.ports) \in Nat \ {0}
  BY PassFacts DEF Inv, TypeInv, AloneTypes, removeLeftOver, DoneInv
<1>1. CASE /\ pass.at = "ports"
           /\ pass.next > Len(pass.svc.ports)
           /\ Continue([pass EXCEPT !.at = "leftover"], lb)
  <2> DEFINE p == [pass EXCEPT !.at = "leftover"]
  <2>1. /\ DOMAIN p = Fields /\ p.at = "leftover" /\ p.op = pass.op /\ p.svc = pass.svc
        /\ p.next = pass.next /\ p.left = pass.left
    BY <1>0 DEF Fields
  <2>2. Continue(p, lb)
    BY <1>1
  <2> HIDE DEF p
  <2>3. pass.next = Len(pass.svc.ports) + 1 /\ pass.next # 1
    BY <1>0, <1>1
  <2>4. ~Malformed(pass.svc.ann)
    BY <1>0, <2>3, PassFacts
  <2>5. apart /\ ~ensure /\ pass.op = "update" => ModeFits(lb)
    BY <1>0 DEF ModeInv
  <2>6. {p.svc.ports[i].port : i \in 1 .. p.next - 1} = Done
    BY <2>1 DEF Done
  <2>7. QED
    BY <1>0, <2>1, <2>2, <2>3, <2>4, <2>5, <2>6, GoOnInv
<1>2. ASSUME pass.at = "leftover", NEW n \in pass.left, n \in DOMAIN lb,
             \/ Continue([pass EXCEPT !.left = @ \ {n}], WithoutPort(lb, n))
             \/ Fault(WithoutPort(lb, n))
      PROVE  Inv'
  <2> DEFINE p == [pass EXCEPT !.left = @ \ {n}]
             l == WithoutPort(lb, n)
  <2>1. /\ DOMAIN p = Fields /\ p.at = "leftover" /\ p.op = pass.op /\ p.svc = pass.svc
        /\ p.next = pass.next /\ p.left = pass.left \ {n}
    BY <1>0, <1>2 DEF Fields
  <2>2. DOMAIN l = DOMAIN lb \ {n} /\ \A m \in DOMAIN lb \ {n} : l[m] = lb[m]
    BY DEF WithoutPort
  <2>3. Continue(p, l) \/ Fault(l)
    BY <1>2
  <2> HIDE DEF p, l
  <2>4. HasPortTypes(l)
    BY <1>0, <2>2 DEF HasPortTypes
  <2>5. apart /\ ~ensure /\ pass.op = "update" => ModeFits(l)
    <3>1. SUFFICES ASSUME apart, ~ensure, pass.op = "update" PROVE FALSE
      OBVIOUS
    <3>2. DOMAIN lb = Numbers(pass.svc)
      <4>1. ModeFits(lb)
        BY <1>0, <3>1 DEF ModeInv
      <4>2. pass.svc = svc
        BY <1>0, <3>1 DEF FreshInv, Running
      <4>3. QED
        BY <4>1, <4>2 DEF ModeFits
    <3>3. QED
      BY <1>0, <1>2, <3>1, <3>2, AllDone
  <2>6. CASE Fault(l)
    <3>1. GiveUp /\ lb' = l /\ faults' \in 0 .. MaxFaults
      BY <1>0, <2>6, FaultsFacts DEF Fault
    <3>2. QED
      BY <1>0, <2>4, <2>5, <3>1, GiveUpInv
  <2>7. CASE Continue(p, l)
    <3>1. {p.svc.ports[i].port : i \in 1 .. p.next - 1} = Done
      BY <2>1 DEF Done
    <3>2. alone => DOMAIN l = p.left \cup Done /\ p.left \cap Done = {}
      BY <1>0, <1>2, <2>1, <2>2
    <3>3. alone =>
             \A i \in 1 .. p.next - 1 :
                Serves(l[p.svc.ports[i].port], p.svc.ann, p.svc.ports[i].node)
      <4>1. SUFFICES ASSUME alone, NEW i \in 1 .. pass.next - 1
                     PROVE  Serves(l[pass.svc.ports[i].port], pass.svc.ann, pass.svc.ports[i].node)
        BY <2>1
      <4>2. pass.svc.ports[i].port \in Done
        BY DEF Done
      <4>3. l[pass.svc.ports[i].port] = lb[pass.svc.ports[i].port]
        BY <1>0, <1>2, <2>2, <4>1, <4>2
      <4>4. QED
        BY <1>0, <4>1, <4>3
    <3>4. ~Malformed(pass.svc.ann) /\ pass.next = Len(pass.svc.ports) + 1
      BY <1>0, <1>2, PassFacts
    <3>5. QED
      BY <1>0, <2>1, <2>4, <2>5, <2>7, <3>1, <3>2, <3>3, <3>4, GoOnInv
  <2>8. QED
    BY <2>3, <2>6, <2>7
<1>3. CASE Abort
  BY <1>0, <1>3, AbortInv
<1>4. QED
  BY <1>1, <1>2, <1>3 DEF removeLeftOver

LEMMA PublishInv ==
    ASSUME Inv, publish
    PROVE  Inv'
<1>0. /\ TypeInv /\ pass.at = "leftover" /\ pass.left = {} /\ pass # IdlePass
      /\ alone => FreshInv /\ DoneInv
      /\ apart => alone /\ ModeInv
      /\ pass.op \in {"ensure", "update"} /\ ensure \in BOOLEAN /\ update \in BOOLEAN
  BY PassFacts DEF Inv, TypeInv, AloneTypes, publish
<1>1. EndPass /\ UNCHANGED <<lb, ensure, update, faults, svc, certs, edits>>
  BY DEF publish, world
<1>2. alone =>
         /\ DOMAIN lb = Numbers(pass.svc)
         /\ \A i \in 1 .. Len(pass.svc.ports) :
               Serves(lb[pass.svc.ports[i].port], pass.svc.ann, pass.svc.ports[i].node)
  BY <1>0, AllDone DEF DoneInv
<1>3. alone /\ ensure = FALSE => pass.svc = svc
  BY <1>0 DEF FreshInv, Running
<1>4. status' \in {None, "VIP", "Proxy"}
  BY <1>0 DEF publish, ipMode, TypeInv
<1>5. /\ TypeInv' /\ alone' = alone /\ apart' = apart
      /\ alone => pass' = IdlePass /\ pass'.at = "idle"
  BY <1>0, <1>1, <1>4, EndTypes DEF TypeInv
<1>6. alone' => FreshInv' /\ DoneInv'
  BY <1>5 DEF FreshInv, DoneInv, Running
<1>7. PortsServed'
  <2>1. SUFFICES ASSUME alone, ensure = FALSE PROVE PortsServed'
    BY <1>0, <1>1, <1>5 DEF PortsServed, Quiet
  <2>2. QED
    BY <1>1, <1>2, <1>3, <2>1 DEF PortsServed, Serves
<1>8. apart' => ModeInv'
  <2>1. SUFFICES ASSUME apart, ensure = FALSE PROVE ModeFits(lb)'
    BY <1>0, <1>1, <1>5 DEF ModeInv
  <2>2. CASE pass.op = "update" /\ status' = status
    BY <1>0, <1>1, <2>1, <2>2 DEF ModeInv, ModeFits
  <2>3. ASSUME NEW n \in DOMAIN lb \cap Numbers(pass.svc),
               status' = ipMode(LBToService(pass.svc.ann, n))
        PROVE  ModeFits(lb)'
    <3>1. FromService(LBToService(pass.svc.ann, n), "proxy") = lb[n]["proxy"]
      BY DEF FromService, LBToService
    <3>2. (status' = "Proxy") <=> (lb[n]["proxy"] = TRUE)
      BY <2>3, <3>1 DEF ipMode
    <3>3. "proxy" \in DOMAIN pass.svc.ann => lb[n]["proxy"] = pass.svc.ann["proxy"]
      <4>1. PICK i \in 1 .. Len(pass.svc.ports) : pass.svc.ports[i].port = n
        BY <2>3 DEF Numbers
      <4>2. Serves(lb[n], pass.svc.ann, pass.svc.ports[i].node)
        BY <1>0, <1>2, <2>1, <4>1
      <4>3. "proxy" \in Options \ HealthHTTPKeys /\ "proxy" # "certificates"
        BY DEF Options, HealthHTTPKeys
      <4>4. QED
        BY <4>2, <4>3 DEF Serves
    <3>4. QED
      BY <1>0, <1>1, <1>2, <1>3, <2>1, <2>3, <3>2, <3>3 DEF ModeFits
  <2>4. DOMAIN lb \cap Numbers(pass.svc) # {}
    <3>1. Len(pass.svc.ports) \in Nat \ {0}
      BY <1>0, PassFacts
    <3>2. pass.svc.ports[1].port \in Numbers(pass.svc)
      BY <3>1 DEF Numbers
    <3>3. QED
      BY <1>0, <1>2, <2>1, <3>2
  <2>5. QED
    BY <1>0, <2>2, <2>3, <2>4 DEF publish, Annotated
<1>9. QED
  BY <1>5, <1>6, <1>7, <1>8 DEF Inv

\* The passes take turns: only passes beside one another do.
LEMMA SwitchInv ==
    ASSUME Inv, Switch
    PROVE  Inv'
<1>1. /\ other # IdlePass /\ pass' = other /\ other' = pass
      /\ UNCHANGED <<lb, alone, apart, status, ensure, update, faults, svc, certs, edits>>
  BY DEF Switch, world, history
<1>2. ~alone /\ ~apart /\ pass # IdlePass
  BY <1>1 DEF Inv, TypeInv, AloneTypes
<1>3. PassTypes(pass)' /\ PassTypes(other)' /\ AloneTypes'
  BY <1>1, <1>2 DEF Inv, TypeInv, PassTypes, AloneTypes
<1>4. TypeInv'
  BY <1>1, <1>3 DEF Inv, TypeInv
<1>5. PortsServed'
  BY <1>1, <1>2 DEF PortsServed
<1>6. QED
  BY <1>1, <1>2, <1>4, <1>5 DEF Inv

\* A pass that begins: beside another one, nothing is claimed of it.
LEMMA BeginInv ==
    ASSUME Inv, BeginEnsure \/ BeginUpdate
    PROVE  Inv'
<1>0. /\ TypeInv /\ svc \in Specs
      /\ ensure \in BOOLEAN /\ update \in BOOLEAN /\ Len(svc.ports) \in Nat \ {0}
  BY ListenPortsAssumption DEF Inv, TypeInv, ListenPortsAssumption
<1>1. PICK op \in {"ensure", "update"} :
         /\ Begin(op)
         /\ ensure' \in BOOLEAN /\ update' \in BOOLEAN
         /\ op = "update" => ensure' = ensure
  BY <1>0 DEF BeginEnsure, BeginUpdate
<1>2. pass' = NewPass(op) /\ UNCHANGED <<lb, status, faults, svc, certs, edits>>
  BY <1>1 DEF Begin, BeginAlone, BeginBeside, world
<1>3. /\ DOMAIN pass' = Fields /\ pass'.at = "get" /\ pass'.op = op /\ pass'.svc = svc
      /\ pass'.next = 1 /\ pass' # IdlePass
  BY <1>2, IdleFacts DEF Fields, NewPass
<1>4. TypeInv'
  <2>1. PassTypes(pass)'
    BY <1>0, <1>1, <1>2, <1>3 DEF PassTypes
  <2>2. PassTypes(other)' /\ AloneTypes'
    BY <1>0, <1>1, <1>3 DEF TypeInv, PassTypes, AloneTypes, Begin, BeginAlone, BeginBeside
  <2>3. QED
    BY <1>0, <1>1, <1>2, <2>1, <2>2 DEF TypeInv
<1>5. FreshInv' /\ DoneInv'
  BY <1>2, <1>3 DEF FreshInv, DoneInv
<1>6. apart' => ModeInv'
  <2>1. SUFFICES ASSUME apart', ~ensure', op = "update" PROVE ModeFits(lb)'
    BY <1>3 DEF ModeInv, Running
  <2>2. apart /\ pass = IdlePass /\ ~ensure
    <3>1. ~ensure
      BY <1>1, <2>1
    <3>2. ~BeginBeside(op)
      BY <2>1 DEF BeginBeside
    <3>3. BeginAlone(op)
      BY <1>1, <3>2 DEF Begin
    <3>4. pass = IdlePass /\ (apart \/ op = "ensure")
      BY <2>1, <3>3 DEF BeginAlone
    <3>5. QED
      BY <2>1, <3>1, <3>4
  <2>3. ModeFits(lb)
    BY <2>2, IdleFacts DEF Inv, ModeInv, Running
  <2>4. QED
    BY <1>2, <2>3 DEF ModeFits
<1>7. PortsServed'
  BY <1>3 DEF PortsServed, Quiet
<1>8. QED
  BY <1>4, <1>5, <1>6, <1>7 DEF Inv

\* The copy is made: all of it is left to be dealt with.
LEMMA GetLBInv ==
    ASSUME Inv, getLB
    PROVE  Inv'
<1>0. /\ TypeInv /\ pass.at = "get" /\ pass.at # "idle" /\ DOMAIN pass = Fields
      /\ pass.next \in 1 .. Len(pass.svc.ports) + 1 /\ Len(pass.svc.ports) \in Nat \ {0}
      /\ HasPortTypes(lb) /\ (apart => ModeInv)
  BY PassFacts DEF getLB, Inv, TypeInv
<1> DEFINE p == [pass EXCEPT !.at = "ports", !.left = DOMAIN lb]
<1>1. /\ DOMAIN p = Fields /\ p.at = "ports" /\ p.op = pass.op /\ p.svc = pass.svc
      /\ p.next = pass.next /\ p.left = DOMAIN lb
  BY <1>0 DEF Fields
<1>2. Continue(p, lb)
  BY DEF getLB
<1> HIDE DEF p
<1>3. pass.next = 1
  BY <1>0, PassFacts
<1>4. 1 .. p.next - 1 = {}
  BY <1>1, <1>3
<1>5. apart /\ ~ensure /\ pass.op = "update" => ModeFits(lb)
  BY <1>0 DEF ModeInv
<1>6. QED
  BY <1>0, <1>1, <1>2, <1>3, <1>4, <1>5, GoOnInv

LEMMA CallFailsInv ==
    ASSUME Inv, callFails
    PROVE  Inv'
<1>1. pass.at # "idle"
  BY DEF callFails, Inv, TypeInv, PassTypes
<1>2. GiveUp /\ lb' = lb /\ faults' \in 0 .. MaxFaults
  BY FaultsFacts DEF callFails, Inv
<1>3. apart /\ ~ensure /\ pass.op = "update" => ModeFits(lb')
  BY <1>2 DEF Inv, ModeInv, ModeFits, GiveUp, world
<1>4. QED
  BY <1>1, <1>2, <1>3, GiveUpInv DEF Inv, TypeInv

\* Users, certificates and nodes change.
LEMMA ChangeInv ==
    ASSUME Inv, UNCHANGED <<lb, pass, other, alone, apart, status, faults>>,
           svc' \in Specs, certs' \subseteq CertNames,
           ensure' \in BOOLEAN, update' \in BOOLEAN, edits' \in 0 .. MaxEdits,
           ensure => ensure', update => update', svc' # svc => ensure'
    PROVE  Inv'
<1>1. TypeInv'
  BY DEF Inv, TypeInv, PassTypes, AloneTypes
<1>2. alone' => FreshInv' /\ DoneInv'
  BY DEF Inv, FreshInv, DoneInv, Running, Done
<1>3. apart' => ModeInv'
  <2>1. SUFFICES ASSUME apart, ~ensure', (Running => pass.op = "update") PROVE ModeFits(lb)'
    BY DEF ModeInv, Running
  <2>2. ModeFits(lb) /\ svc' = svc
    BY <2>1 DEF Inv, ModeInv
  <2>3. QED
    BY <2>2 DEF ModeFits
<1>4. PortsServed'
  <2>1. SUFFICES ASSUME (Quiet /\ alone)' PROVE PortsServed'
    BY DEF PortsServed
  <2>2. Quiet /\ alone /\ svc' = svc
    BY <2>1 DEF Quiet
  <2>3. QED
    BY <2>2 DEF Inv, PortsServed
<1>5. QED
  BY <1>1, <1>2, <1>3, <1>4 DEF Inv

LEMMA EditsInv ==
    ASSUME Inv,
           \/ \E s \in Specs : EditService(s)
           \/ \E c \in CertNames : ChangeCertificate(c)
           \/ NodesChange
    PROVE  Inv'
<1>0. /\ svc \in Specs /\ certs \subseteq CertNames /\ ensure \in BOOLEAN /\ update \in BOOLEAN
      /\ edits \in 0 .. MaxEdits /\ MaxEdits \in Nat
  BY ListenPortsAssumption DEF Inv, TypeInv, ListenPortsAssumption
<1>1. edits' \in 0 .. MaxEdits
  BY <1>0 DEF EditService, ChangeCertificate, NodesChange, Edit
<1>2. QED
  BY <1>0, <1>1, ChangeInv DEF EditService, ChangeCertificate, NodesChange, history

LEMMA InitInv == Init => Inv
<1> SUFFICES ASSUME Init PROVE Inv
  OBVIOUS
<1>1. /\ pass = IdlePass /\ pass.at = "idle" /\ ensure = TRUE
      /\ other = IdlePass /\ alone = TRUE /\ apart = TRUE
  BY IdleFacts DEF Init
<1>2. HasPortTypes(lb) /\ svc \in Specs /\ certs \subseteq CertNames /\ update = FALSE
  BY ListenPortsAssumption DEF Init, ListenPortsAssumption
<1>3. faults \in 0 .. MaxFaults /\ edits \in 0 .. MaxEdits /\ status = None
  BY ListenPortsAssumption DEF Init, ListenPortsAssumption
<1>4. TypeInv
  BY <1>1, <1>2, <1>3 DEF TypeInv, PassTypes, AloneTypes
<1>5. FreshInv /\ DoneInv /\ ModeInv /\ PortsServed
  BY <1>1 DEF FreshInv, DoneInv, ModeInv, PortsServed, Quiet, Running
<1>6. QED
  BY <1>4, <1>5 DEF Inv

LEMMA StepInv == Inv /\ [Next]_vars => Inv'
<1> SUFFICES ASSUME Inv, [Next]_vars PROVE Inv'
  OBVIOUS
<1>1. CASE UNCHANGED vars
  BY <1>1, ChangeInv DEF vars, Inv, TypeInv
<1>2. CASE Next
  BY <1>2, BeginInv, SwitchInv, GetLBInv, ReconcilePortInv, LeftOverInv, PublishInv, CallFailsInv, EditsInv
  DEF Next, PassStep
<1>3. QED
  BY <1>1, <1>2

LEMMA Invariance == Spec => []Inv
BY InitInv, StepInv, PTL DEF Spec

----------------------------------------------------------------------------
(* The theorems.                                                           *)

\* The listen ports have every option and real protocols: no annotation that
\* does not parse ever reaches the API (hclbServiceOptsBuilder).
THEOREM TypeCorrect == Spec => []TypeOK
<1>1. Inv => TypeOK
  BY DEF Inv, TypeInv, PassTypes, AloneTypes, TypeOK, IsPass
<1>2. QED
  BY <1>1, Invariance, PTL

\* PortsServed, for any annotations, ports, certificates, failures and passes
\* that overlapped before: once nothing is due and the last pass ran alone,
\* each listen port leads to its NodePort and has the options of the
\* annotations that are set (ReconcileHCLBServices).
THEOREM PortsAreServed == Spec => []PortsServed
<1>1. Inv => PortsServed
  BY DEF Inv
<1>2. QED
  BY <1>1, Invariance, PTL

\* ModeMatchesPorts, for any Services: once nothing is due and no passes have
\* overlapped since the last Ensure, the ipMode in the status is that of a
\* listen port, and the one the annotation asks for if it is set (LBToService
\* and getLBStatus).
THEOREM ModeIsThatOfPorts == Spec => []ModeMatchesPorts
<1>1. Inv => ModeMatchesPorts
  <2>1. SUFFICES ASSUME Inv, Quiet, apart PROVE ModeFits(lb)
    BY DEF ModeMatchesPorts, ModeFits
  <2>2. QED
    BY <2>1, IdleFacts DEF Inv, ModeInv, Quiet, Running
<1>2. QED
  BY <1>1, Invariance, PTL

\* The steps that change no listen port.
LEMMA PortsUntouched ==
    ASSUME Inv, Next, ~reconcilePort, ~removeLeftOver
    PROVE  lb' = lb
BY DEF Next, PassStep, BeginEnsure, BeginUpdate, Begin, Switch, getLB, Continue, publish, callFails, EditService,
       ChangeCertificate, NodesChange

\* A step changes the options of no listen port but the current one, to which
\* it gives the NodePort of the current port, the first with its number.
LEMMA OnlyCurrent ==
    ASSUME Inv, alone, Next, NEW n \in DOMAIN lb', n \notin DOMAIN lb \/ lb'[n] # lb[n]
    PROVE  /\ lb'[n]["destination"] = Current.node
           /\ pass.next \in 1 .. Len(pass.svc.ports)
           /\ n = Current.port /\ n \notin Done
<1>1. CASE ~reconcilePort /\ ~removeLeftOver
  BY <1>1, PortsUntouched
<1>2. CASE removeLeftOver
  <2>1. lb' = lb \/ \E m : lb' = WithoutPort(lb, m)
    BY <1>2 DEF removeLeftOver, Continue, Fault, Abort
  <2>2. QED
    BY <2>1 DEF WithoutPort
<1>3. CASE reconcilePort
  <2>1. ~Abort
    BY DEF Abort
  <2>2. /\ pass.at = "ports" /\ pass.next <= Len(pass.svc.ports) /\ extract(pass.svc.ann)
        /\ pass.next \in 1 .. Len(pass.svc.ports)
    BY <1>3, <2>1, PortCalls, PassFacts DEF Inv
  <2>3. PICK have, l :
            /\ l = WithPort(lb, Current.port,
                            Apply(buildServiceOpts(pass.svc.ann, Current.node), have))
            /\ \/ Current.port \in pass.left /\ have = lb[Current.port]
               \/ Current.port \notin DOMAIN lb
            /\ \/ Continue([pass EXCEPT !.next = @ + 1, !.left = @ \ {Current.port}], l)
               \/ Fault(l)
    BY <1>3, <2>1, PortCalls
  <2>4. lb' = l
    BY <2>3 DEF Continue, Fault
  <2>5. /\ Current.port \notin Done
        /\ DOMAIN l = DOMAIN lb \cup {Current.port}
        /\ Serves(l[Current.port], pass.svc.ann, Current.node)
        /\ \A p \in DOMAIN lb \ {Current.port} : l[p] = lb[p]
    BY <2>2, <2>3, PortCall
  <2>6. n = Current.port
    BY <2>4, <2>5
  <2>7. QED
    BY <2>2, <2>4, <2>5, <2>6 DEF Serves
<1>4. QED
  BY <1>1, <1>2, <1>3

\* FirstPortWins, for any ports: a pass alone sets a listen port to the first of
\* the ports of the Service with its number, never to a later one
\* (hclbListenPorts, from which each number is deleted when it is used).
THEOREM FirstWins == Spec => FirstPortWins
<1>1. Inv /\ [Next]_vars =>
        [alone =>
          \A n \in DOMAIN lb' :
            n \notin DOMAIN lb \/ lb'[n] # lb[n]
               => lb'[n]["destination"] = FirstWith(pass.svc, n).node]_vars
  <2>1. SUFFICES ASSUME Inv, alone, Next, NEW n \in DOMAIN lb', n \notin DOMAIN lb \/ lb'[n] # lb[n]
                 PROVE  lb'[n]["destination"] = FirstWith(pass.svc, n).node
    OBVIOUS
  <2> DEFINE ports == pass.svc.ports
             First(i) == /\ ports[i].port = n
                         /\ \A j \in 1 .. Len(ports) : ports[j].port = n => i <= j
  <2>2. /\ lb'[n]["destination"] = Current.node
        /\ pass.next \in 1 .. Len(ports)
        /\ n = Current.port /\ n \notin Done
    BY <2>1, OnlyCurrent
  <2>3. \A j \in 1 .. Len(ports) : ports[j].port = n => pass.next <= j
    <3>1. SUFFICES ASSUME NEW j \in 1 .. Len(ports), j < pass.next PROVE ports[j].port # n
      BY <2>2
    <3>2. j \in 1 .. pass.next - 1
      BY <2>2, <3>1
    <3>3. QED
      BY <2>2, <3>2 DEF Done
  <2>4. First(pass.next)
    BY <2>2, <2>3 DEF Current
  <2>5. \A i \in 1 .. Len(ports) : First(i) => i = pass.next
    BY <2>2, <2>3, <2>4
  <2>6. (CHOOSE i \in 1 .. Len(ports) : First(i)) = pass.next
    BY <2>2, <2>4, <2>5
  <2>7. FirstWith(pass.svc, n) = Current
    BY <2>6 DEF FirstWith, Current
  <2>8. QED
    BY <2>2, <2>7
<1>2. QED
  BY <1>1, Invariance, PTL DEF Spec, FirstPortWins

\* For any Service, ReconcileHCLBServices touches no listen port in a pass with
\* an annotation that does not parse: do keeps the first error, and the pass
\* ends before its first call.
THEOREM MalformedIsHarmless == Spec => MalformedLeavesPorts
<1>1. Inv /\ [Next]_vars => [pass # IdlePass /\ Malformed(pass.svc.ann) => lb' = lb]_vars
  <2>1. SUFFICES ASSUME Inv, Next, pass # IdlePass, Malformed(pass.svc.ann) PROVE lb' = lb
    OBVIOUS
  <2>2. /\ TypeInv /\ pass.at # "idle" /\ pass.svc \in Specs
        /\ pass.at \in {"get", "ports"} /\ pass.next = 1 /\ Len(pass.svc.ports) \in Nat \ {0}
    <3>1. TypeInv /\ pass.at # "idle"
      BY <2>1 DEF Inv, TypeInv, PassTypes
    <3>2. QED
      BY <2>1, <3>1, PassFacts
  <2>3. CASE reconcilePort
    BY <2>1, <2>2, <2>3, MalformedIsError, PortCalls DEF Abort
  <2>4. CASE removeLeftOver
    BY <2>2, <2>4 DEF removeLeftOver
  <2>5. QED
    BY <2>1, <2>3, <2>4, PortsUntouched
<1>2. QED
  BY <1>1, Invariance, PTL DEF Spec, MalformedLeavesPorts
=============================================================================
