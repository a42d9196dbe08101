--------------------------- MODULE LoadBalancers ---------------------------
(***************************************************************************)
(* How hcloud/load_balancers.go ties Kubernetes Services to Hetzner Cloud  *)
(* Load Balancers: lookup by UID label, lookup by name, creation, adoption *)
(* and deletion.  What a pass does to the Load Balancer once it is found   *)
(* (attributes, services, targets) is the module LoadBalancerOps.          *)
(*                                                                         *)
(* The Service controller of k8s.io/cloud-provider (external) runs, for    *)
(* each Service, one operation at a time from its work queue               *)
(* (EnsureLoadBalancer, or GetLoadBalancer then EnsureLoadBalancerDeleted) *)
(* and, from another goroutine, UpdateLoadBalancer when the nodes change.  *)
(* Every call to the Hetzner Cloud API is a step of its own; what a worker *)
(* knows between two calls is its copy of the Service and of the Load      *)
(* Balancer.  A call may fail with or without having had its effect.       *)
(***************************************************************************)
EXTENDS Naturals, FiniteSets

CONSTANTS Services,    \* Services of type LoadBalancer, named by their UID
          LBs,         \* ids of Load Balancers, each used at most once
          NamesOf,     \* per Service, the values its annotation
                       \* load-balancer.hetzner.cloud/name may take
          BadValues,   \* whether annotations that do not parse may be set
          None,        \* an annotation or a label that is not set; no LB
          Serialised,  \* node sync never overlaps the queue's work on a Service
          MaxFaults,   \* bound on failed calls and restarts
          MaxEdits     \* bound on what users do after creating the Services

Names == UNION {NamesOf[s] : s \in Services}

\* The default name is derived from the UID and differs from every annotation.
ASSUME LoadBalancersAssumption ==
    /\ DOMAIN NamesOf = Services
    /\ None \notin Services \cup LBs \cup Names
    /\ Services \cap Names = {}
    /\ Serialised \in BOOLEAN
    /\ BadValues \subseteq BOOLEAN
    /\ MaxFaults \in Nat
    /\ MaxEdits \in Nat

VARIABLES phase,   \* life of the Service object
          annot,   \* its name annotation
          bad,     \* an annotation read only by getLBStatus does not parse
          dirty,   \* the Service waits in the queue of the Service controller
          status,  \* the LB whose addresses are in the Service's status
          cloud,   \* the Load Balancers of the Hetzner Cloud project
          worker,  \* the operations in progress
          faults,
          edits

vars == <<phase, annot, bad, dirty, status, cloud, worker, faults, edits>>

Kinds == {"service", "node"}
Phases == {"absent", "live", "deleting", "gone"}
PCs == {"idle", "uid", "name", "create", "info", "rest", "get", "lookup", "delete", "release"}
LBNames == Services \cup Names

\* A Load Balancer: its name, the value of its label hcloud-ccm/service-uid
\* and its deletion protection.
LBRecord == [st : {"unused", "present", "deleted"},
             name : LBNames \cup {None},
             uid : Services \cup {None},
             protect : BOOLEAN]

\* An operation: what it does next, the annotations of the Service it was
\* called with, the Load Balancer it holds and that Load Balancer's name and
\* label when it was read.
WorkerRecord == [pc : PCs,
                 annot : Names \cup {None},
                 bad : BOOLEAN,
                 lb : LBs \cup {None},
                 lname : LBNames \cup {None},
                 luid : Services \cup {None}]

Unused == [st |-> "unused", name |-> None, uid |-> None, protect |-> FALSE]
IdleWorker == [pc |-> "idle", annot |-> None, bad |-> FALSE,
               lb |-> None, lname |-> None, luid |-> None]

Init ==
    /\ phase = [s \in Services |-> "absent"]
    /\ annot = [s \in Services |-> None]
    /\ bad = [s \in Services |-> FALSE]
    /\ dirty = [s \in Services |-> FALSE]
    /\ status = [s \in Services |-> None]
    /\ cloud = [l \in LBs |-> Unused]
    /\ worker = [s \in Services |-> [k \in Kinds |-> IdleWorker]]
    /\ faults = 0
    /\ edits = 0

----------------------------------------------------------------------------
(* The Hetzner Cloud API, as the code uses it.                             *)

Present(l) == cloud[l].st = "present"
Labelled(s) == {l \in LBs : Present(l) /\ cloud[l].uid = s}
Named(n) == {l \in LBs : Present(l) /\ cloud[l].name = n}

\* Names of Load Balancers are unique in a project.
NameFree(n, l) == Named(n) \subseteq {l}

----------------------------------------------------------------------------
(* How an operation continues, or ends.                                    *)

Idle(s, k) == worker[s][k].pc = "idle"

\* Mutant: the copy of the Load Balancer is not kept.
HoldNothing(s, k, l, pc) ==
    /\ worker' = [worker EXCEPT ![s][k].pc = pc]
    /\ UNCHANGED <<dirty, faults>>

\* Mutant: the annotation is ignored when looking for the name.
DefaultNameOnly(s, w) == s

\* Mutant: any error of the lookup is taken for ErrNotFound.
ErrorIsNotFound(s) == TRUE

\* Mutant: any error of the deletion is taken for ErrorCodeNotFound.
ErrorIsDeleted(l) == TRUE

Proceed(s, k, w) ==
    /\ worker' = [worker EXCEPT ![s][k] = w]
    /\ UNCHANGED <<dirty, faults>>

Goto(s, k, pc) == Proceed(s, k, [worker[s][k] EXCEPT !.pc = pc])

\* The operation keeps a copy of the Load Balancer l as the API returned it.
Hold(s, k, l, pc) ==
    Proceed(s, k, [worker[s][k] EXCEPT !.pc = pc, !.lb = l,
                                       !.lname = cloud'[l].name,
                                       !.luid = cloud'[l].uid])

Return(s, k) == Proceed(s, k, IdleWorker)

\* An error is returned: the Service controller puts the key back in its
\* queue, the node sync retries at its next run.
Abort(s, k) ==
    /\ worker' = [worker EXCEPT ![s][k] = IdleWorker]
    /\ dirty' = IF k = "service" THEN [dirty EXCEPT ![s] = TRUE] ELSE dirty
    /\ UNCHANGED faults

\* The call fails for a reason outside the model.
Fault(s, k) ==
    /\ faults < MaxFaults
    /\ faults' = faults + 1
    /\ worker' = [worker EXCEPT ![s][k] = IdleWorker]
    /\ dirty' = IF k = "service" THEN [dirty EXCEPT ![s] = TRUE] ELSE dirty

At(s, k, pc) == worker[s][k].pc = pc

\* GetLoadBalancerName
LoadBalancerName(s, w) == IF w.annot # None THEN w.annot ELSE s

Start(s, k, pc) ==
    /\ Idle(s, k)
    /\ Serialised => \A j \in Kinds : Idle(s, j)
    /\ worker' = [worker EXCEPT ![s][k] =
                    [IdleWorker EXCEPT !.pc = pc, !.annot = annot[s], !.bad = bad[s]]]

----------------------------------------------------------------------------
(* EnsureLoadBalancer and UpdateLoadBalancer.                              *)

StartEnsure(s) ==
    /\ phase[s] = "live"
    /\ dirty[s]
    /\ Start(s, "service", "uid")
    /\ dirty' = [dirty EXCEPT ![s] = FALSE]
    /\ UNCHANGED <<phase, annot, bad, status, cloud, faults, edits>>

StartUpdate(s) ==
    /\ phase[s] = "live"
    /\ Start(s, "node", "uid")
    /\ UNCHANGED <<phase, annot, bad, dirty, status, cloud, faults, edits>>

\* The lookup by the label ends with ErrNotFound.
NotFoundByUID(s) == Labelled(s) = {}

\* Mutant: the Load Balancer is looked up by its name only.
NameOnly(s, k) ==
    /\ At(s, k, "uid")
    /\ Goto(s, k, "name")
    /\ UNCHANGED <<phase, annot, bad, status, cloud, edits>>

\* More than one match is ErrNonUniqueResult.
GetByK8SServiceUID(s, k) ==
    /\ At(s, k, "uid")
    /\ UNCHANGED cloud
    /\ \/ NotFoundByUID(s) /\ Goto(s, k, "name")
       \/ \E l \in LBs : Labelled(s) = {l} /\ Hold(s, k, l, "info")
       \/ \E l, m \in Labelled(s) : l # m /\ Abort(s, k)
    /\ UNCHANGED <<phase, annot, bad, status, edits>>

\* Mutant: UpdateLoadBalancer creates the Load Balancer, too.
CreateAnyway(s, k) ==
    LET n == LoadBalancerName(s, worker[s][k])
    IN  /\ At(s, k, "name")
        /\ UNCHANGED cloud
        /\ \/ \E l \in Named(n) : Hold(s, k, l, "info")
           \/ Named(n) = {} /\ Goto(s, k, "create")
        /\ UNCHANGED <<phase, annot, bad, status, edits>>

\* Not found: EnsureLoadBalancer creates, UpdateLoadBalancer returns nil.
GetByName(s, k) ==
    LET n == LoadBalancerName(s, worker[s][k])
    IN  /\ At(s, k, "name")
        /\ UNCHANGED cloud
        /\ \/ \E l \in Named(n) : Hold(s, k, l, "info")
           \/ Named(n) = {} /\ k = "service" /\ Goto(s, k, "create")
           \/ Named(n) = {} /\ k = "node" /\ Return(s, k)
        /\ UNCHANGED <<phase, annot, bad, status, edits>>

NewLB(s, n) == [st |-> "present", name |-> n, uid |-> s, protect |-> FALSE]

\* The label is part of the create request.  The creation can take effect and
\* WatchAction or GetByID still fail.  The API refuses a name that is in use
\* and a Load Balancer beyond the limit of the project.
Create(s, k) ==
    LET n == LoadBalancerName(s, worker[s][k])
    IN  /\ At(s, k, "create")
        /\ \/ /\ Named(n) = {}
              /\ \E l \in LBs :
                    /\ cloud[l] = Unused
                    /\ cloud' = [cloud EXCEPT ![l] = NewLB(s, n)]
                    /\ Hold(s, k, l, "info") \/ Fault(s, k)
           \/ /\ Named(n) # {} \/ \A l \in LBs : cloud[l] # Unused
              /\ UNCHANGED cloud
              /\ Abort(s, k)
        /\ UNCHANGED <<phase, annot, bad, status, edits>>

\* The labels sent when the label of the held LB is not the Service's UID:
\* the UID, then every label of the held copy on top of it.
LabelsSent(s, w) == IF w.luid = None THEN s ELSE w.luid

SetLabel(s, w) == w.luid # s
SetName(w) == w.annot # None /\ w.annot # w.lname

changeHCLBInfo(s, k) ==
    LET w == worker[s][k]
    IN  /\ At(s, k, "info")
        /\ \/ ~SetLabel(s, w) /\ ~SetName(w) /\ UNCHANGED cloud /\ Goto(s, k, "rest")
           \/ /\ SetLabel(s, w) \/ SetName(w)
              /\ Present(w.lb)
              /\ SetName(w) => NameFree(w.annot, w.lb)
              /\ cloud' = [cloud EXCEPT
                    ![w.lb].uid = IF SetLabel(s, w) THEN LabelsSent(s, w) ELSE @,
                    ![w.lb].name = IF SetName(w) THEN w.annot ELSE @]
              /\ Hold(s, k, w.lb, "rest") \/ Fault(s, k)
           \/ /\ SetLabel(s, w) \/ SetName(w)
              /\ ~Present(w.lb) \/ (SetName(w) /\ ~NameFree(w.annot, w.lb))
              /\ UNCHANGED cloud
              /\ Abort(s, k)
        /\ UNCHANGED <<phase, annot, bad, status, edits>>

\* The rest of the pass (LoadBalancerOps) needs the LB to exist.  Ensure then
\* computes the status, which the Service controller stores; Update does not.
FinishPass(s, k) ==
    LET w == worker[s][k]
    IN  /\ At(s, k, "rest")
        /\ UNCHANGED cloud
        /\ \/ Present(w.lb) /\ k = "node" /\ Return(s, k) /\ UNCHANGED status
           \/ /\ Present(w.lb) /\ k = "service" /\ ~w.bad
              /\ Return(s, k)
              /\ status' = [status EXCEPT ![s] = w.lb]
           \/ /\ ~Present(w.lb) \/ (k = "service" /\ w.bad)
              /\ Abort(s, k)
              /\ UNCHANGED status
        /\ UNCHANGED <<phase, annot, bad, edits>>

----------------------------------------------------------------------------
(* Deletion: the Service controller calls GetLoadBalancer, then, when it   *)
(* reports an LB, EnsureLoadBalancerDeleted.  When nothing is left to      *)
(* delete the call returns, after removeNodePortSource, and the Service    *)
(* controller drops the finalizer: anything may happen in between.         *)

StartDelete(s) ==
    /\ phase[s] = "deleting"
    /\ dirty[s]
    /\ Start(s, "service", "get")
    /\ dirty' = [dirty EXCEPT ![s] = FALSE]
    /\ UNCHANGED <<phase, annot, bad, status, cloud, faults, edits>>

\* There is nothing to delete, or no more: the operation is to return nil.
LetGo(s) == Goto(s, "service", "release")

\* Mutant: a protected Load Balancer makes the deletion fail.
ProtectedIsError(s) == Abort(s, "service")

\* A protected Load Balancer is logged and left alone.
IgnoreProtected(s) == LetGo(s)

GetLoadBalancer(s) ==
    /\ At(s, "service", "get")
    /\ UNCHANGED cloud
    /\ \/ NotFoundByUID(s) /\ LetGo(s)
       \/ /\ \E l \in LBs : Labelled(s) = {l}
          /\ ~worker[s]["service"].bad
          /\ Goto(s, "service", "lookup")
       \/ /\ \/ \E l, m \in Labelled(s) : l # m
             \/ Labelled(s) # {} /\ worker[s]["service"].bad
          /\ Abort(s, "service")
    /\ UNCHANGED <<phase, annot, bad, status, edits>>

\* The lookup of deleteLoadBalancer and its test of the protection.
deleteLoadBalancer(s) ==
    /\ At(s, "service", "lookup")
    /\ UNCHANGED cloud
    /\ \/ NotFoundByUID(s) /\ LetGo(s)
       \/ \E l \in LBs : Labelled(s) = {l} /\ cloud[l].protect /\ IgnoreProtected(s)
       \/ \E l \in LBs :
             Labelled(s) = {l} /\ ~cloud[l].protect /\ Hold(s, "service", l, "delete")
       \/ \E l, m \in Labelled(s) : l # m /\ Abort(s, "service")
    /\ UNCHANGED <<phase, annot, bad, status, edits>>

DeleteNotFound(l) == ~Present(l)

\* An LB that no longer exists counts as deleted; one that was protected in
\* the meantime is refused.
Delete(s) ==
    LET l == worker[s]["service"].lb
    IN  /\ At(s, "service", "delete")
        /\ \/ /\ Present(l) /\ ~cloud[l].protect
              /\ cloud' = [cloud EXCEPT ![l] = [Unused EXCEPT !.st = "deleted"]]
              /\ LetGo(s) \/ Fault(s, "service")
           \/ DeleteNotFound(l) /\ UNCHANGED cloud /\ LetGo(s)
           \/ Present(l) /\ cloud[l].protect /\ UNCHANGED cloud /\ Abort(s, "service")
        /\ UNCHANGED <<phase, annot, bad, status, edits>>

\* The call has returned nil and the finalizer is removed.
Release(s) ==
    /\ At(s, "service", "release")
    /\ Return(s, "service")
    /\ phase' = [phase EXCEPT ![s] = "gone"]
    /\ UNCHANGED <<annot, bad, status, cloud, edits>>

----------------------------------------------------------------------------
(* Failures.                                                               *)

\* A call fails without effect.
CallFails(s, k) ==
    /\ ~Idle(s, k)
    /\ Fault(s, k)
    /\ UNCHANGED <<phase, annot, bad, status, cloud, edits>>

\* The process restarts and its informers replay every Service.
Restart ==
    /\ faults < MaxFaults
    /\ faults' = faults + 1
    /\ worker' = [s \in Services |-> [k \in Kinds |-> IdleWorker]]
    /\ dirty' = [s \in Services |-> phase[s] \in {"live", "deleting"}]
    /\ UNCHANGED <<phase, annot, bad, status, cloud, edits>>

----------------------------------------------------------------------------
(* Users.                                                                  *)

CreateService(s, n, b) ==
    /\ phase[s] = "absent"
    /\ phase' = [phase EXCEPT ![s] = "live"]
    /\ annot' = [annot EXCEPT ![s] = n]
    /\ bad' = [bad EXCEPT ![s] = b]
    /\ dirty' = [dirty EXCEPT ![s] = TRUE]
    /\ UNCHANGED <<status, cloud, worker, faults, edits>>

Edit == edits < MaxEdits /\ edits' = edits + 1

\* A new name only where updates cannot overlap the queue's work.
EditAnnotations(s, n, b) ==
    /\ Edit
    /\ phase[s] \in {"live", "deleting"}
    /\ Serialised \/ n = annot[s]
    /\ annot' = [annot EXCEPT ![s] = n]
    /\ bad' = [bad EXCEPT ![s] = b]
    /\ dirty' = [dirty EXCEPT ![s] = TRUE]
    /\ UNCHANGED <<phase, status, cloud, worker, faults>>

DeleteService(s) ==
    /\ phase[s] = "live"
    /\ phase' = [phase EXCEPT ![s] = "deleting"]
    /\ dirty' = [dirty EXCEPT ![s] = TRUE]
    /\ UNCHANGED <<annot, bad, status, cloud, worker, faults, edits>>

\* A Load Balancer created by other means, to be adopted by its name.
ImportLB(l, n) ==
    /\ Edit
    /\ cloud[l] = Unused
    /\ Named(n) = {}
    /\ cloud' = [cloud EXCEPT ![l] = [Unused EXCEPT !.st = "present", !.name = n]]
    /\ UNCHANGED <<phase, annot, bad, dirty, status, worker, faults>>

ToggleProtection(l) ==
    /\ Edit
    /\ Present(l)
    /\ cloud' = [cloud EXCEPT ![l].protect = ~@]
    /\ UNCHANGED <<phase, annot, bad, dirty, status, worker, faults>>

----------------------------------------------------------------------------
WorkerStep(s, k) ==
    \/ GetByK8SServiceUID(s, k)
    \/ GetByName(s, k)
    \/ Create(s, k)
    \/ changeHCLBInfo(s, k)
    \/ FinishPass(s, k)

DeleteStep(s) ==
    \/ GetLoadBalancer(s)
    \/ deleteLoadBalancer(s)
    \/ Delete(s)
    \/ Release(s)

User ==
    \/ \E s \in Services : \E n \in NamesOf[s] \cup {None}, b \in BadValues :
            CreateService(s, n, b) \/ EditAnnotations(s, n, b)
    \/ \E s \in Services : DeleteService(s)
    \/ \E l \in LBs : ToggleProtection(l) \/ \E n \in LBNames : ImportLB(l, n)

Next ==
    \/ \E s \in Services : StartEnsure(s) \/ StartUpdate(s) \/ StartDelete(s) \/ DeleteStep(s)
    \/ \E s \in Services, k \in Kinds : WorkerStep(s, k) \/ CallFails(s, k)
    \/ Restart
    \/ User

Spec == Init /\ [][Next]_vars

\* The work queue hands out every key it holds and every operation runs to
\* its end; users and failures owe nothing.
Fairness ==
    \A s \in Services :
        /\ WF_vars(StartEnsure(s)) /\ WF_vars(StartDelete(s)) /\ WF_vars(DeleteStep(s))
        /\ \A k \in Kinds : WF_vars(WorkerStep(s, k))

FairSpec == Spec /\ Fairness

----------------------------------------------------------------------------
(* Properties.                                                             *)

TypeOK ==
    /\ phase \in [Services -> Phases]
    /\ annot \in [Services -> Names \cup {None}]
    /\ bad \in [Services -> BOOLEAN]
    /\ dirty \in [Services -> BOOLEAN]
    /\ status \in [Services -> LBs \cup {None}]
    /\ cloud \in [LBs -> LBRecord]
    /\ worker \in [Services -> [Kinds -> WorkerRecord]]
    /\ \A s \in Services, k \in Kinds :
            worker[s][k].pc \in {"info", "rest", "delete"} => worker[s][k].lb \in LBs
    /\ faults \in 0 .. MaxFaults
    /\ edits \in 0 .. MaxEdits

\* No two Load Balancers carry the UID of the same Service, whatever calls
\* fail after their effect and wherever the process restarts: a second one
\* would make every later GetByK8SServiceUID fail with ErrNonUniqueResult.
UniqueOwner == \A s \in Services : \A l, m \in Labelled(s) : l = m

Releasing(s) == At(s, "service", "release")

\* The life of the Service, with the time between the end of the deletion of
\* its Load Balancer and the removal of its finalizer told apart.
Standing(s) == IF Releasing(s) THEN "leaving" ELSE phase[s]

\* The Load Balancers of s that are not protected.
Loose(s) == {l \in Labelled(s) : ~cloud[l].protect}

\* EnsureLoadBalancerDeleted lets the finalizer of a Service go only after a
\* moment in which no Load Balancer labelled with its UID was left, except
\* protected ones.  Until the finalizer is gone only a user who lifts the
\* protection, or a node sync that overlaps, can change that.
FinalizerReleased ==
    [][\A s \in Services :
          /\ phase[s] # "gone" /\ phase'[s] = "gone" => Releasing(s)
          /\ ~Releasing(s) /\ Releasing(s)' => Loose(s)' = {}
          /\ Releasing(s) => \/ Loose(s)' \subseteq Loose(s)
                             \/ edits' # edits
                             \/ At(s, "node", "info")]_vars

\* What is promised (module Ownership): the owner is the label, and the names,
\* annotations, queues and operations in progress are nobody's business.
Promised ==
    INSTANCE Ownership
    WITH state <- [s \in Services |-> Standing(s)],
         owner <- [l \in LBs |-> cloud[l].uid],
         life <- [l \in LBs |-> cloud[l].st],
         locked <- [l \in LBs |-> cloud[l].protect],
         Overlap <- ~Serialised,
         Shared <- \E s, t \in Services : s # t /\ NamesOf[s] \cap NamesOf[t] # {}

\* Every step of every operation, failed calls and restarts included, is a step
\* of Ownership or changes nothing of it: a Service gets a Load Balancer only
\* while it owns none, one that belongs to no Service is never deleted, and
\* nothing is deleted but for a Service that is being deleted.
OwnershipKept == Promised!Spec

\* A Service that is being deleted is eventually gone, as long as GetLoadBalancer
\* can build its status.
DeletionCompletes ==
    \A s \in Services : phase[s] = "deleting" ~> (phase[s] = "gone" \/ bad[s])

\* "If you delete this Service in Kubernetes, the hcloud-cloud-controller-manager
\* will delete the associated Load Balancer" (docs/load_balancers.md), unless it
\* is protected: the Load Balancer the Service's status pointed to does not
\* outlive the last Service that used it.
DeletedWithService ==
    [][\A s \in Services :
          /\ phase[s] # "gone" /\ phase'[s] = "gone"
          /\ \A t \in Services \ {s} : phase[t] \in {"absent", "gone"}
          => \A l \in LBs : status[s] = l /\ Present(l)' => cloud'[l].protect]_vars
=============================================================================
