--------------------------- MODULE MCListenPorts ---------------------------
(***************************************************************************)
(* Small instances of ListenPorts.                                         *)
(***************************************************************************)
EXTENDS ListenPorts, TLC

One(n) == <<[port |-> 80, node |-> n]>>
Two(m, n) == <<[port |-> 80, node |-> m], [port |-> 443, node |-> n]>>
Twice == <<[port |-> 80, node |-> 30001], [port |-> 80, node |-> 30002]>>
Nothing == << >>

Spec1(a, ports) == [ann |-> a, ports |-> ports]

PortSpecs ==
    {Spec1(Nothing, One(30002)),
     Spec1("proxy" :> TRUE @@ "hcPort" :> 30009, Two(30001, 30002)),
     Spec1("protocol" :> "https" @@ "certificates" :> "web" @@ "hcPath" :> "health"
             @@ "hcInterval" :> 5 @@ "redirectHTTP" :> TRUE, Two(30001, 30002)),
     Spec1("protocol" :> "http" @@ "hcPath" :> "health" @@ "cookieName" :> "sticky"
             @@ "stickySessions" :> TRUE @@ "proxy" :> FALSE, One(30001)),
     Spec1("certType" :> "managed" @@ "protocol" :> "https" @@ "hcProtocol" :> "tcp"
             @@ "hcTLS" :> Invalid @@ "hcRetries" :> 3, Two(30002, 30001)),
     Spec1("proxy" :> Invalid @@ "hcTimeout" :> 1, One(30001)),
     Spec1("protocol" :> "http" @@ "hcTLS" :> Invalid, Two(30001, 30002)),
     Spec1("cookieLifetime" :> 60 @@ "certificates" :> "id", Twice)}

NoListenPort == << >>
Other(proxy) ==
    [Defaults EXCEPT !["protocol"] = "http", !["hcProtocol"] = "tcp", !["proxy"] = proxy]
InitListenPorts ==
    {NoListenPort, 8080 :> Other(FALSE), 80 :> Other(Default) @@ 443 :> Other(TRUE)}
=============================================================================
