-------------------------- MODULE MCLoadBalancers --------------------------
(***************************************************************************)
(* Small instances of LoadBalancers.  Services and Load Balancers are      *)
(* interchangeable.                                                        *)
(***************************************************************************)
EXTENDS LoadBalancers, TLC

\* Every Service may ask for the same name; no Service sets the annotation.
SharedNames == [s \in Services |-> {"web"}]
NoNames == [s \in Services |-> {}]

Symmetry == Permutations(Services) \cup Permutations(LBs)
=============================================================================
