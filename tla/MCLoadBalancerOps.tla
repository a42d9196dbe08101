------------------------- MODULE MCLoadBalancerOps -------------------------
(***************************************************************************)
(* Small instances of LoadBalancerOps.  The limits of lb11, lb21 and lb31  *)
(* (25, 75, 150) are scaled down.                                          *)
(***************************************************************************)
EXTENDS LoadBalancerOps

NoPorts == [p \in Ports |-> None]
Limits == [t \in Types |-> IF t = "lb11" THEN 2 ELSE 3]

Plain == [rdns4 |-> None, rdns6 |-> None, alg |-> None, ltype |-> None, pub |-> None,
          private |-> FALSE, family |-> "ipv4", cert |-> None,
          ports |-> [NoPorts EXCEPT ![80] = "tcp"]]

Fresh == [rdns4 |-> "default", rdns6 |-> "default", alg |-> "round_robin", ltype |-> "lb11",
          nets |-> {}, pub |-> TRUE, ports |-> NoPorts, targets |-> {}]

\* LBs created by other means, in networks the cluster does not use and with a
\* listen port that no Service has.
Imported == [Fresh EXCEPT !.nets = Networks \ {NetworkID}, !.targets = {OtherTarget},
                          !.ports = [NoPorts EXCEPT ![443] = "tcp"]]

\* Old and new Services that ask for different things: other options of the
\* port, a certificate of its own or one whose name is taken, or annotations
\* that do not parse.
ConfigSpecs ==
    {[Plain EXCEPT !.rdns4 = "web", !.cert = "managed", !.ports[80] = "https"],
     [Plain EXCEPT !.rdns4 = "api", !.cert = "taken"],
     [Plain EXCEPT !.alg = Invalid, !.cert = Invalid]}

TargetSpecs ==
    {[Plain EXCEPT !.family = "dualstack"],
     [Plain EXCEPT !.private = TRUE, !.family = "ipv6", !.ltype = "lb21"]}

OnlyFresh == {Fresh}
OnlyImported == {Imported}

CertSpecs == {[Plain EXCEPT !.cert = c, !.ports = [p \in Ports |-> "https"]] : c \in {"one", "two"}}
=============================================================================
