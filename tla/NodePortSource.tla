--------------------------- MODULE NodePortSource ---------------------------
(***************************************************************************)
(* hcloud/node_port_source.go: the controller keeps the addresses of a     *)
(* Load Balancer in spec.loadBalancerSourceRanges of its Service, next to  *)
(* the entries of users, and records in an annotation which ones it added. *)
(*                                                                         *)
(* EnsureLoadBalancer works on the copy of the Service its informer had,   *)
(* which may be old.  The write reads the Service again and is guarded by  *)
(* the resourceVersion of that read.  Source ranges are sets here: their   *)
(* order is kept by the code and by nothing that depends on it.            *)
(***************************************************************************)
EXTENDS Naturals, FiniteSets

CONSTANTS CIDRs,         \* spellings of source ranges
          NetOf,         \* the network each spelling describes
          PublicCIDR,    \* the public IPv4 of the Load Balancer, as a /32
          PrivateCIDRs,  \* the addresses it can have in private networks
          Default,       \* HCLOUD_LOAD_BALANCERS_RESTRICT_NODE_PORT_SOURCE
          Settings,      \* values of the annotation: TRUE, FALSE, Unset, Invalid
          Unset, Invalid,
          MaxTries,      \* attempts of retry.RetryOnConflict
          MaxFaults,     \* bound on failing calls
          MaxEdits       \* bound on what users do

ASSUME NodePortSourceAssumption ==
    /\ DOMAIN NetOf = CIDRs
    /\ {PublicCIDR} \cup PrivateCIDRs \subseteq CIDRs
    /\ Default \in BOOLEAN
    /\ MaxTries \in Nat \ {0}
    /\ MaxFaults \in Nat
    /\ MaxEdits \in Nat

VARIABLES obj,     \* the Service in the API server
          cache,   \* the Service as the informer has it
          lb,      \* the addresses of the Load Balancer
          users,   \* history: the entries users own, set by them and not removed
          dirty,   \* the Service waits in the queue
          op,      \* the call in progress
          faults,
          edits

vars == <<obj, cache, lb, users, dirty, op, faults, edits>>

ServiceObject ==
    [rv : Nat, ranges : SUBSET CIDRs, managed : SUBSET CIDRs, restrict : Settings,
     deny : BOOLEAN, phase : {"lb", "other", "deleting", "gone"}]

LBState == [pub : BOOLEAN, nets : SUBSET PrivateCIDRs]

Idle == [at |-> "idle"]

Init ==
    /\ obj \in [rv : {0}, ranges : SUBSET CIDRs, managed : {{}}, restrict : Settings,
                deny : BOOLEAN, phase : {"lb"}]
    /\ cache = obj
    /\ lb \in LBState
    /\ users = obj.ranges
    /\ dirty = TRUE
    /\ op = Idle
    /\ faults = 0
    /\ edits = 0

----------------------------------------------------------------------------
(* The pure part.                                                          *)

sameCIDR(a, b) == NetOf[a] = NetOf[b]
containsCIDR(list, c) == \E d \in list : sameCIDR(d, c)

\* Unset and empty fall back to the default; Invalid does not parse.
restrictNodePortSourceEnabled(s) == IF s.restrict = Unset THEN Default ELSE s.restrict

lbSourceCIDRs(l) == (IF l.pub THEN {PublicCIDR} ELSE {}) \cup l.nets

\* Mutant: the entries of the annotation go, whoever listed them first.
OwnedAll(current, previous, wanted) == wanted

\* Mutant: what is no longer wanted is kept.
KeepAll(current, previous, wanted) ==
    current \cup {w \in wanted : ~containsCIDR(current, w)}

desiredSourceRanges(current, previous, wanted) ==
    LET kept == {c \in current : containsCIDR(previous, c) => containsCIDR(wanted, c)}
    IN  kept \cup {w \in wanted : ~containsCIDR(kept, w)}

ownedEntries(current, previous, wanted) ==
    {w \in wanted : containsCIDR(current, w) => containsCIDR(previous, w)}

----------------------------------------------------------------------------
(* The call in progress.                                                   *)

\* An error of a reconciliation is retried; one of a removal is only logged.
Abort(o) == op' = Idle /\ dirty' = (dirty \/ o.kind = "reconcile")

\* The entries a reconciliation wants, given the copy of the Service and the
\* Load Balancer; a removal wants none.
WantedFor(s) ==
    IF restrictNodePortSourceEnabled(s) = TRUE /\ ~s.deny THEN lbSourceCIDRs(lb) ELSE {}

\* setManagedSourceRanges, up to its early return.
Enter(kind, wanted) ==
    IF wanted = {} /\ cache.managed = {}
    THEN op' = Idle
    ELSE op' = [at |-> "get", kind |-> kind, wanted |-> wanted, tries |-> MaxTries]

\* reconcileNodePortSource, called by EnsureLoadBalancer.
reconcileNodePortSource ==
    /\ op = Idle
    /\ dirty
    /\ cache.phase = "lb"
    /\ \/ /\ restrictNodePortSourceEnabled(cache) = Invalid
          /\ op' = Idle
          /\ UNCHANGED dirty
       \/ /\ restrictNodePortSourceEnabled(cache) # Invalid
          /\ dirty' = FALSE
          /\ IF /\ restrictNodePortSourceEnabled(cache) = TRUE /\ ~cache.deny
                /\ lbSourceCIDRs(lb) = {}
             THEN op' = Idle
             ELSE Enter("reconcile", WantedFor(cache))
    /\ UNCHANGED <<obj, cache, lb, users, faults, edits>>

\* removeNodePortSource, called by EnsureLoadBalancerDeleted.
removeNodePortSource ==
    /\ op = Idle
    /\ dirty
    /\ cache.phase \in {"other", "deleting", "gone"}
    /\ dirty' = FALSE
    /\ Enter("remove", {})
    /\ UNCHANGED <<obj, cache, lb, users, faults, edits>>

\* Each attempt reads the Service and computes the patch.
getLatest ==
    /\ op.at = "get"
    /\ \/ obj.phase \in {"deleting", "gone"} /\ op' = Idle
       \/ /\ obj.phase \in {"lb", "other"}
          /\ LET ranges == desiredSourceRanges(obj.ranges, obj.managed, op.wanted)
                 owned == ownedEntries(obj.ranges, obj.managed, op.wanted)
             IN  IF ranges = obj.ranges /\ owned = obj.managed
                 THEN op' = Idle
                 ELSE op' = [at |-> "patch", kind |-> op.kind, wanted |-> op.wanted,
                             tries |-> op.tries, rv |-> obj.rv, ranges |-> ranges, owned |-> owned]
    /\ UNCHANGED <<obj, cache, lb, users, dirty, faults, edits>>

\* Mutant: the patch carries no resourceVersion.
Unguarded(o) == TRUE

\* The API server accepts a patch only for the version it was computed from.
Accepts(o) == o.rv = obj.rv

\* Mutant: one attempt too many.
RetryOnceMore(o) == o.tries > 0

\* RetryOnConflict has an attempt left.
RetryLeft(o) == o.tries > 1

\* A Service that is not of type LoadBalancer cannot have source ranges, and one
\* that is gone cannot be patched.
Storable(o) ==
    /\ obj.phase # "gone"
    /\ obj.phase = "other" => o.ranges = {}

\* The Service the API server stores.
Patched(o) == [obj EXCEPT !.rv = @ + 1, !.ranges = o.ranges, !.managed = o.owned]

patch ==
    /\ op.at = "patch"
    /\ \/ /\ Accepts(op) /\ Storable(op)
          /\ obj' = Patched(op)
          /\ \/ op' = Idle /\ UNCHANGED <<dirty, faults>>
             \/ faults < MaxFaults /\ faults' = faults + 1 /\ Abort(op)
       \/ /\ ~Accepts(op) /\ obj.phase # "gone" /\ RetryLeft(op)
          /\ op' = [at |-> "get", kind |-> op.kind, wanted |-> op.wanted, tries |-> op.tries - 1]
          /\ UNCHANGED <<obj, dirty, faults>>
       \/ /\ \/ obj.phase = "gone"
             \/ ~Accepts(op) /\ ~RetryLeft(op)
             \/ Accepts(op) /\ ~Storable(op)
          /\ Abort(op)
          /\ UNCHANGED <<obj, faults>>
    /\ UNCHANGED <<cache, lb, users, edits>>

\* A call fails without effect.
callFails ==
    /\ op # Idle
    /\ faults < MaxFaults
    /\ faults' = faults + 1
    /\ Abort(op)
    /\ UNCHANGED <<obj, cache, lb, users, edits>>

----------------------------------------------------------------------------
(* Kubernetes and its users.                                               *)

\* The informer catches up and queues the Service.
informerSync ==
    /\ cache # obj
    /\ cache' = obj
    /\ dirty' = TRUE
    /\ UNCHANGED <<obj, lb, users, op, faults, edits>>

Edit == edits < MaxEdits /\ edits' = edits + 1

Store(o) == obj' = [o EXCEPT !.rv = obj.rv + 1]

\* A user adds an entry.  The controller owns networks, not spellings: an entry
\* for a network that the annotation lists becomes one of the controller's.
AddEntry(c) ==
    /\ Edit
    /\ obj.phase = "lb"
    /\ c \notin obj.ranges
    /\ Store([obj EXCEPT !.ranges = @ \cup {c}])
    /\ users' = IF containsCIDR(obj.managed, c) THEN users ELSE users \cup {c}
    /\ UNCHANGED <<cache, lb, dirty, op, faults>>

\* A user removes an entry, possibly one the controller added.
RemoveEntry(c) ==
    /\ Edit
    /\ obj.phase = "lb"
    /\ c \in obj.ranges
    /\ Store([obj EXCEPT !.ranges = @ \ {c}])
    /\ users' = users \ {c}
    /\ UNCHANGED <<cache, lb, dirty, op, faults>>

\* A user changes an annotation.
EditAnnotations(r, d) ==
    /\ Edit
    /\ obj.phase = "lb"
    /\ Store([obj EXCEPT !.restrict = r, !.deny = d])
    /\ UNCHANGED <<cache, lb, users, dirty, op, faults>>

\* The Service changes its type, and its source ranges are removed with it, or
\* it is deleted.
LeaveType ==
    /\ Edit
    /\ obj.phase = "lb"
    /\ \/ Store([obj EXCEPT !.phase = "other", !.ranges = {}]) /\ users' = {}
       \/ Store([obj EXCEPT !.phase = "deleting"]) /\ UNCHANGED users
    /\ UNCHANGED <<cache, lb, dirty, op, faults>>

\* The finalizer is gone after the removal was tried.
Vanish ==
    /\ obj.phase = "deleting"
    /\ Store([obj EXCEPT !.phase = "gone"])
    /\ UNCHANGED <<cache, lb, users, dirty, op, faults, edits>>

\* The same pass that sees a change of the network annotations gives the
\* Load Balancer its new addresses.
ChangeLB(l) ==
    /\ Edit
    /\ obj.phase = "lb"
    /\ lb' = l
    /\ dirty' = TRUE
    /\ UNCHANGED <<obj, cache, users, op, faults>>

Controller == reconcileNodePortSource \/ removeNodePortSource \/ getLatest \/ patch

User ==
    \/ \E c \in CIDRs : AddEntry(c) \/ RemoveEntry(c)
    \/ \E r \in Settings, d \in BOOLEAN : EditAnnotations(r, d)
    \/ LeaveType
    \/ \E l \in LBState : ChangeLB(l)

Next == Controller \/ callFails \/ informerSync \/ Vanish \/ User

Spec == Init /\ [][Next]_vars

----------------------------------------------------------------------------
(* Properties.                                                             *)

OpRecord ==
    {Idle}
      \cup [at : {"get"}, kind : {"reconcile", "remove"}, wanted : SUBSET CIDRs, tries : 1 .. MaxTries]
      \cup [at : {"patch"}, kind : {"reconcile", "remove"}, wanted : SUBSET CIDRs, tries : 1 .. MaxTries,
            rv : Nat, ranges : SUBSET CIDRs, owned : SUBSET CIDRs]

TypeOK ==
    /\ obj \in ServiceObject
    /\ cache \in ServiceObject
    /\ lb \in LBState
    /\ users \subseteq CIDRs
    /\ dirty \in BOOLEAN
    /\ op \in OpRecord
    /\ faults \in 0 .. MaxFaults
    /\ edits \in 0 .. MaxEdits

\* "Entries set by anyone else keep their place and are never removed"
\* (desiredSourceRanges): what a user set, unless the annotation listed it by
\* then, stays until a user removes it, across changes of address, of the
\* setting, and edits that race with the patch.
UserEntriesKept == users \subseteq obj.ranges

\* Nothing is in progress or due, and the informer has caught up.
Settled == op = Idle /\ ~dirty /\ cache = obj

\* The entries of the Service are exactly those of its users and, when the
\* NodePort is restricted, the addresses of the Load Balancer: none of the
\* controller's own is left over, and none is missing.
SourcesExact ==
    Settled /\ obj.phase = "lb" /\ (WantedFor(obj) = {} => restrictNodePortSourceEnabled(obj) = FALSE \/ obj.deny)
       => /\ \A w \in WantedFor(obj) : containsCIDR(obj.ranges, w)
          /\ \A c \in obj.ranges : c \in users \/ containsCIDR(WantedFor(obj), c)
          /\ \A c \in obj.managed : c \in WantedFor(obj)
=============================================================================
