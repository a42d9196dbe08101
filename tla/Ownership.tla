----------------------------- MODULE Ownership -----------------------------
(***************************************************************************)
(* What hcloud/load_balancers.go promises about the Load Balancers of a    *)
(* project, whatever it does to get there: which Service owns which of     *)
(* them, when it may come to own one, and when a Load Balancer or a        *)
(* Service may go.  LoadBalancers implements this specification.           *)
(***************************************************************************)
EXTENDS Naturals

CONSTANTS Services, LBs, None,
          Overlap,  \* node sync may overlap the queue's work on a Service
          Shared    \* two Services may ask for the same name

VARIABLES state,    \* life of the Service
          owner,    \* the Service a Load Balancer belongs to
          life,     \* "unused", "present" or "deleted"
          locked    \* deletion protection

vars == <<state, owner, life, locked>>

Owned(s) == {l \in LBs : owner[l] = s}

Init ==
    /\ state = [s \in Services |-> "absent"]
    /\ owner = [l \in LBs |-> None]
    /\ life = [l \in LBs |-> "unused"]
    /\ locked = [l \in LBs |-> FALSE]

Appear(s) ==
    /\ state[s] = "absent"
    /\ state' = [state EXCEPT ![s] = "live"]
    /\ UNCHANGED <<owner, life, locked>>

Withdraw(s) ==
    /\ state[s] = "live"
    /\ state' = [state EXCEPT ![s] = "deleting"]
    /\ UNCHANGED <<owner, life, locked>>

\* A Service that owns nothing gets a new Load Balancer.
Create(s, l) ==
    /\ state[s] \in {"live", "deleting"}
    /\ Owned(s) = {}
    /\ life[l] = "unused"
    /\ life' = [life EXCEPT ![l] = "present"]
    /\ owner' = [owner EXCEPT ![l] = s]
    /\ UNCHANGED <<state, locked>>

\* A Service that owns nothing adopts a Load Balancer, a free one unless names
\* are shared; it may be too late for it only if operations overlap.
Adopt(s, l) ==
    /\ state[s] \in {"live", "deleting"} \/ (Overlap /\ state[s] \in {"leaving", "gone"})
    /\ Owned(s) = {}
    /\ life[l] = "present"
    /\ owner[l] = None \/ Shared
    /\ owner' = [owner EXCEPT ![l] = s]
    /\ UNCHANGED <<state, life, locked>>

\* s is let go at a moment when it owns nothing outside R that could be deleted.
LetGo(s, R) ==
    /\ state[s] = "deleting"
    /\ \A l \in Owned(s) \ R : locked[l]
    /\ state' = [state EXCEPT ![s] = "leaving"]

\* It goes later, whatever has happened to what it owns in between ...
Finish(s) ==
    /\ state[s] = "leaving"
    /\ state' = [state EXCEPT ![s] = "gone"]
    /\ UNCHANGED <<owner, life, locked>>

\* ... or some stay, since they could not be told, and it is decided anew.
Stay(S) ==
    /\ S # {} /\ \A s \in S : state[s] = "leaving"
    /\ state' = [s \in Services |-> IF s \in S THEN "deleting" ELSE state[s]]
    /\ UNCHANGED <<owner, life, locked>>

\* A Load Balancer is deleted for a Service that is being deleted, its owner
\* unless names are shared, and never one that belongs to no Service.
Remove(s, l) ==
    /\ state[s] = "deleting"
    /\ life[l] = "present" /\ ~locked[l]
    /\ owner[l] = s \/ (Shared /\ owner[l] # None)
    /\ life' = [life EXCEPT ![l] = "deleted"]
    /\ owner' = [owner EXCEPT ![l] = None]
    /\ UNCHANGED locked
    /\ UNCHANGED state \/ LetGo(s, {l})

Import(l) ==
    /\ life[l] = "unused"
    /\ life' = [life EXCEPT ![l] = "present"]
    /\ UNCHANGED <<state, owner, locked>>

Protect(l) ==
    /\ life[l] = "present"
    /\ locked' = [locked EXCEPT ![l] = ~@]
    /\ UNCHANGED <<state, owner, life>>

Next ==
    \/ \E s \in Services :
          \/ Appear(s) \/ Withdraw(s)
          \/ LetGo(s, {}) /\ UNCHANGED <<owner, life, locked>>
          \/ Finish(s)
          \/ \E l \in LBs : Create(s, l) \/ Adopt(s, l) \/ Remove(s, l)
    \/ \E S \in SUBSET Services : Stay(S)
    \/ \E l \in LBs : Import(l) \/ Protect(l)

Spec == Init /\ [][Next]_vars
=============================================================================
