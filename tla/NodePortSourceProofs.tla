------------------------ MODULE NodePortSourceProofs ------------------------
(***************************************************************************)
(* Proofs about NodePortSource, for any set of source ranges, any number   *)
(* of attempts and any number of failures and edits.                       *)
(*                                                                         *)
(* UserEntriesKept is not inductive: what a patch writes was computed in   *)
(* an earlier step.  Two facts make it so.  No entry of a user describes a *)
(* network the annotation lists, so the controller takes none for its own; *)
(* and a patch the API server will accept is the one computed from the     *)
(* Service as it still is.                                                 *)
(*                                                                         *)
(* SourcesExact also needs that every entry which is not a user's belongs  *)
(* to a network of the annotation, that the copy of the informer is a      *)
(* version the Service had, and that a call works for what this copy wants *)
(* unless the Service is due again.                                        *)
(***************************************************************************)
EXTENDS NodePortSource, TLAPS

\* The entries of the users are on the Service, and not in the annotation.
UsersApart(o, u) ==
    /\ u \subseteq o.ranges
    /\ \A c \in u : ~containsCIDR(o.managed, c)

\* A patch is never from the future, and is current when it will be accepted.
PatchCurrent(p, o) ==
    p.at = "patch" =>
       /\ p.rv <= o.rv
       /\ p.rv = o.rv => /\ p.ranges = desiredSourceRanges(o.ranges, o.managed, p.wanted)
                         /\ p.owned = ownedEntries(o.ranges, o.managed, p.wanted)

IInv == TypeOK /\ UsersApart(obj, users) /\ PatchCurrent(op, obj)

----------------------------------------------------------------------------
(* Lemmas about the pure part.                                             *)

\* What the controller computes is a set of source ranges.
LEMMA ComputedTypes ==
    ASSUME NEW cur \in SUBSET CIDRs, NEW prev \in SUBSET CIDRs, NEW want \in SUBSET CIDRs
    PROVE  /\ desiredSourceRanges(cur, prev, want) \in SUBSET CIDRs
           /\ ownedEntries(cur, prev, want) \in SUBSET CIDRs
  BY DEF desiredSourceRanges, ownedEntries

\* The addresses a reconciliation asks for are source ranges.
LEMMA WantedTypes ==
    ASSUME NEW s, lb \in LBState
    PROVE  WantedFor(s) \in SUBSET CIDRs
  BY NodePortSourceAssumption DEF NodePortSourceAssumption, WantedFor, lbSourceCIDRs, LBState

\* Replacing the controller's own entries leaves alone whatever describes no
\* network that the annotation lists.
LEMMA OthersKept ==
    ASSUME NEW cur \in SUBSET CIDRs, NEW prev \in SUBSET CIDRs, NEW want \in SUBSET CIDRs,
           NEW c \in cur, ~containsCIDR(prev, c)
    PROVE  c \in desiredSourceRanges(cur, prev, want)
  BY DEF desiredSourceRanges

\* And the annotation does not list it afterwards either.
LEMMA OthersNotOwned ==
    ASSUME NEW cur \in SUBSET CIDRs, NEW prev \in SUBSET CIDRs, NEW want \in SUBSET CIDRs,
           NEW c \in cur, ~containsCIDR(prev, c)
    PROVE  ~containsCIDR(ownedEntries(cur, prev, want), c)
<1> SUFFICES ASSUME NEW w \in ownedEntries(cur, prev, want), sameCIDR(w, c)
             PROVE  FALSE
  BY DEF containsCIDR
<1>1. containsCIDR(cur, w)
  BY DEF containsCIDR, sameCIDR
<1>2. PICK d \in prev : sameCIDR(d, w)
  BY <1>1 DEF ownedEntries, containsCIDR
<1>3. sameCIDR(d, c)
  BY <1>2 DEF sameCIDR
<1> QED
  BY <1>3 DEF containsCIDR

\* The patch of the current Service keeps the entries of the users.
LEMMA PatchKeepsUsers ==
    ASSUME NEW o \in ServiceObject, NEW u \in SUBSET CIDRs, UsersApart(o, u),
           NEW want \in SUBSET CIDRs, NEW p \in ServiceObject,
           p.ranges = desiredSourceRanges(o.ranges, o.managed, want),
           p.managed = ownedEntries(o.ranges, o.managed, want)
    PROVE  UsersApart(p, u)
<1>1. o.ranges \in SUBSET CIDRs /\ o.managed \in SUBSET CIDRs
  BY DEF ServiceObject
<1> SUFFICES ASSUME NEW c \in u
             PROVE  c \in p.ranges /\ ~containsCIDR(p.managed, c)
  BY DEF UsersApart
<1>2. c \in o.ranges /\ ~containsCIDR(o.managed, c)
  BY DEF UsersApart
<1> QED
  BY <1>1, <1>2, OthersKept, OthersNotOwned

----------------------------------------------------------------------------
(* The initial states and the steps.                                       *)

LEMMA InitIInv == Init => IInv
<1> SUFFICES ASSUME Init PROVE IInv
  OBVIOUS
<1>1. obj \in ServiceObject /\ obj.managed = {} /\ users = obj.ranges
  BY DEF Init, ServiceObject
<1>2. op \in OpRecord /\ op.at = "idle"
  BY DEF Init, OpRecord, Idle
<1>3. TypeOK
  BY <1>1, <1>2, NodePortSourceAssumption DEF TypeOK, Init, NodePortSourceAssumption, ServiceObject
<1>4. UsersApart(obj, users)
  BY <1>1 DEF UsersApart, containsCIDR
<1> QED
  BY <1>2, <1>3, <1>4 DEF IInv, PatchCurrent

\* An edit of the Service that keeps the entries of the users apart makes every
\* patch computed before it unacceptable.
LEMMA EditKeepsIInv ==
    ASSUME IInv, NEW o \in ServiceObject, obj' = [o EXCEPT !.rv = obj.rv + 1],
           UsersApart(o, users'), users' \in SUBSET CIDRs, edits' \in 0 .. MaxEdits,
           UNCHANGED <<cache, lb, dirty, op, faults>>
    PROVE  IInv'
<1>1. /\ obj' \in ServiceObject
      /\ obj'.rv = obj.rv + 1 /\ obj.rv \in Nat
      /\ obj'.ranges = o.ranges
      /\ obj'.managed = o.managed
  BY DEF IInv, TypeOK, ServiceObject
<1>2. TypeOK'
  BY <1>1 DEF IInv, TypeOK
<1>3. UsersApart(obj', users')
  BY <1>1 DEF UsersApart
<1>4. op.at = "patch" => op.rv \in Nat
  BY DEF IInv, TypeOK, OpRecord, Idle
<1>5. PatchCurrent(op', obj')
  BY <1>1, <1>4 DEF IInv, PatchCurrent
<1> QED
  BY <1>2, <1>3, <1>5 DEF IInv

\* A step that ends or begins a call without writing to the Service.
LEMMA CallKeepsIInv ==
    ASSUME IInv, UNCHANGED <<obj, cache, lb, users, edits>>,
           op' \in OpRecord, PatchCurrent(op', obj), dirty' \in BOOLEAN, faults' \in 0 .. MaxFaults
    PROVE  IInv'
  BY DEF IInv, TypeOK, UsersApart, PatchCurrent, desiredSourceRanges, ownedEntries

\* A call that is over.
LEMMA IdleOK == Idle \in OpRecord /\ (\A o : PatchCurrent(Idle, o))
  BY DEF OpRecord, Idle, PatchCurrent

LEMMA EnterOK ==
    ASSUME NEW kind \in {"reconcile", "remove"}, NEW wanted \in SUBSET CIDRs, Enter(kind, wanted)
    PROVE  op' \in OpRecord /\ PatchCurrent(op', obj)
<1>1. CASE op' = Idle
  BY <1>1, IdleOK
<1>2. CASE op' = [at |-> "get", kind |-> kind, wanted |-> wanted, tries |-> MaxTries]
  BY <1>2, NodePortSourceAssumption DEF OpRecord, PatchCurrent, NodePortSourceAssumption
<1> QED
  BY <1>1, <1>2 DEF Enter

\* Every step keeps the invariant.
LEMMA NextIInv == IInv /\ [Next]_vars => IInv'
<1> SUFFICES ASSUME IInv, [Next]_vars PROVE IInv'
  OBVIOUS
<1> USE NodePortSourceAssumption DEF NodePortSourceAssumption
<1>1. CASE reconcileNodePortSource
  <2>1. dirty' \in BOOLEAN
    BY <1>1 DEF reconcileNodePortSource, IInv, TypeOK
  <2>2. op' = Idle \/ Enter("reconcile", WantedFor(cache))
    BY <1>1 DEF reconcileNodePortSource
  <2>3. WantedFor(cache) \in SUBSET CIDRs
    BY WantedTypes DEF IInv, TypeOK
  <2>4. op' \in OpRecord /\ PatchCurrent(op', obj)
    BY <2>2, <2>3, EnterOK, IdleOK
  <2> QED
    BY <1>1, <2>1, <2>4, CallKeepsIInv DEF reconcileNodePortSource, IInv, TypeOK
<1>2. CASE removeNodePortSource
  <2>1. op' \in OpRecord /\ PatchCurrent(op', obj)
    BY <1>2, EnterOK DEF removeNodePortSource
  <2> QED
    BY <1>2, <2>1, CallKeepsIInv DEF removeNodePortSource, IInv, TypeOK
<1>3. CASE getLatest
  <2> DEFINE ranges == desiredSourceRanges(obj.ranges, obj.managed, op.wanted)
             owned == ownedEntries(obj.ranges, obj.managed, op.wanted)
             p == [at |-> "patch", kind |-> op.kind, wanted |-> op.wanted, tries |-> op.tries,
                   rv |-> obj.rv, ranges |-> ranges, owned |-> owned]
  <2>1. /\ op.kind \in {"reconcile", "remove"}
        /\ op.wanted \in SUBSET CIDRs
        /\ op.tries \in 1 .. MaxTries
    BY <1>3 DEF getLatest, IInv, TypeOK, OpRecord, Idle
  <2>2. obj.ranges \in SUBSET CIDRs /\ obj.managed \in SUBSET CIDRs /\ obj.rv \in Nat
    BY DEF IInv, TypeOK, ServiceObject
  <2>3. ranges \in SUBSET CIDRs /\ owned \in SUBSET CIDRs
    BY <2>1, <2>2, ComputedTypes
  <2>4. p \in OpRecord
    <3> HIDE DEF ranges, owned
    <3> QED
      BY <2>1, <2>2, <2>3 DEF OpRecord
  <2>5. PatchCurrent(p, obj)
    BY <2>2 DEF PatchCurrent
  <2>6. op' = Idle \/ op' = p
    BY <1>3 DEF getLatest
  <2>7. op' \in OpRecord /\ PatchCurrent(op', obj)
    <3> HIDE DEF p
    <3> QED
      BY <2>4, <2>5, <2>6, IdleOK
  <2> QED
    BY <1>3, <2>7, CallKeepsIInv DEF getLatest, IInv, TypeOK
<1>4. CASE patch
  <2>1. /\ op \in OpRecord /\ op.at = "patch"
        /\ op.kind \in {"reconcile", "remove"}
        /\ op.wanted \in SUBSET CIDRs
        /\ op.tries \in 1 .. MaxTries
        /\ op.rv \in Nat
        /\ op.ranges \in SUBSET CIDRs
        /\ op.owned \in SUBSET CIDRs
    BY <1>4 DEF patch, IInv, TypeOK, OpRecord, Idle
  <2>2. CASE Accepts(op) /\ obj' = Patched(op) /\ op' = Idle
    <3>1. /\ obj' \in ServiceObject
          /\ obj'.ranges = op.ranges
          /\ obj'.managed = op.owned
      <4>1. obj \in ServiceObject
        BY DEF IInv, TypeOK
      <4>2. obj' = [obj EXCEPT !.rv = @ + 1, !.ranges = op.ranges, !.managed = op.owned]
        BY <2>2 DEF Patched
      <4>3. obj'.ranges = op.ranges /\ obj'.managed = op.owned
        BY <4>1, <4>2 DEF ServiceObject
      <4> DEFINE o1 == [obj EXCEPT !.rv = @ + 1]
                 o2 == [o1 EXCEPT !.ranges = op.ranges]
      <4>4. o1 \in ServiceObject
        BY <4>1 DEF ServiceObject
      <4>5. o2 \in ServiceObject
        <5> HIDE DEF o1
        <5> QED
          BY <2>1, <4>4 DEF ServiceObject
      <4>6. [o2 EXCEPT !.managed = op.owned] \in ServiceObject
        <5> HIDE DEF o1, o2
        <5> QED
          BY <2>1, <4>5 DEF ServiceObject
      <4> QED
        BY <4>2, <4>3, <4>6
    <3>2. /\ op.ranges = desiredSourceRanges(obj.ranges, obj.managed, op.wanted)
          /\ op.owned = ownedEntries(obj.ranges, obj.managed, op.wanted)
      BY <2>1, <2>2 DEF IInv, PatchCurrent, Accepts
    <3>3. obj \in ServiceObject /\ users \in SUBSET CIDRs /\ UsersApart(obj, users)
      BY DEF IInv, TypeOK
    <3>4. UsersApart(obj', users)
      BY <2>1, <3>1, <3>2, <3>3, PatchKeepsUsers
    <3>5. dirty' \in BOOLEAN
      BY <1>4 DEF patch, Abort, IInv, TypeOK
    <3>6. faults' \in 0 .. MaxFaults
      BY <1>4 DEF patch, IInv, TypeOK
    <3>7. UNCHANGED <<cache, lb, users, edits>>
      BY <1>4 DEF patch
    <3>8. TypeOK'
      BY <2>2, <3>1, <3>5, <3>6, <3>7, IdleOK DEF IInv, TypeOK
    <3>9. PatchCurrent(op', obj')
      BY <2>2, IdleOK
    <3> QED
      BY <3>4, <3>7, <3>8, <3>9 DEF IInv
  <2>3. CASE /\ RetryLeft(op)
             /\ op' = [at |-> "get", kind |-> op.kind, wanted |-> op.wanted, tries |-> op.tries - 1]
             /\ UNCHANGED <<obj, dirty, faults>>
    <3>1. op' \in OpRecord /\ PatchCurrent(op', obj)
      BY <2>1, <2>3 DEF OpRecord, PatchCurrent, RetryLeft
    <3> QED
      BY <1>4, <2>3, <3>1, CallKeepsIInv DEF patch, IInv, TypeOK
  <2>4. CASE Abort(op) /\ UNCHANGED <<obj, faults>>
    <3>1. op' = Idle /\ dirty' \in BOOLEAN
      BY <2>4 DEF Abort, IInv, TypeOK
    <3> QED
      BY <1>4, <2>4, <3>1, IdleOK, CallKeepsIInv DEF patch, IInv, TypeOK
  <2> QED
    BY <1>4, <2>2, <2>3, <2>4 DEF patch, Abort
<1>5. CASE callFails
  <2>1. op' = Idle /\ dirty' \in BOOLEAN
    BY <1>5 DEF callFails, Abort, IInv, TypeOK
  <2>2. faults' \in 0 .. MaxFaults
    BY <1>5 DEF callFails, IInv, TypeOK
  <2> QED
    BY <1>5, <2>1, <2>2, IdleOK, CallKeepsIInv DEF callFails
<1>6. CASE informerSync
  BY <1>6 DEF informerSync, IInv, TypeOK, UsersApart, PatchCurrent, desiredSourceRanges, ownedEntries
<1>7. CASE Vanish
  <2> DEFINE o == [obj EXCEPT !.phase = "gone"]
  <2>1. o \in ServiceObject /\ UsersApart(o, users)
    BY DEF IInv, TypeOK, ServiceObject, UsersApart
  <2>2. obj' = [o EXCEPT !.rv = obj.rv + 1]
    BY <1>7 DEF Vanish, Store
  <2> HIDE DEF o
  <2> QED
    BY <1>7, <2>1, <2>2, EditKeepsIInv DEF Vanish, IInv, TypeOK
<1>8. ASSUME NEW c \in CIDRs, AddEntry(c)
      PROVE  IInv'
  <2> DEFINE o == [obj EXCEPT !.ranges = @ \cup {c}]
  <2>1. CASE ~containsCIDR(obj.managed, c)
    <3>1. o \in ServiceObject /\ users' = users \cup {c} /\ users' \in SUBSET CIDRs
      BY <1>8, <2>1 DEF AddEntry, IInv, TypeOK, ServiceObject
    <3>2. o.ranges = obj.ranges \cup {c} /\ o.managed = obj.managed
      BY DEF IInv, TypeOK, ServiceObject
    <3>3. UsersApart(o, users')
      BY <2>1, <3>1, <3>2 DEF IInv, UsersApart
    <3>4. obj' = [o EXCEPT !.rv = obj.rv + 1]
      BY <1>8 DEF AddEntry, Store
    <3>5. edits' \in 0 .. MaxEdits
      BY <1>8 DEF AddEntry, Edit, IInv, TypeOK
    <3> HIDE DEF o
    <3> QED
      BY <1>8, <3>1, <3>3, <3>4, <3>5, EditKeepsIInv DEF AddEntry
  <2>2. CASE containsCIDR(obj.managed, c)
    <3>1. o \in ServiceObject /\ users' = users /\ users' \in SUBSET CIDRs
      BY <1>8, <2>2 DEF AddEntry, IInv, TypeOK, ServiceObject
    <3>2. o.ranges = obj.ranges \cup {c} /\ o.managed = obj.managed
      BY DEF IInv, TypeOK, ServiceObject
    <3>3. UsersApart(o, users')
      BY <3>1, <3>2 DEF IInv, UsersApart
    <3>4. obj' = [o EXCEPT !.rv = obj.rv + 1]
      BY <1>8 DEF AddEntry, Store
    <3>5. edits' \in 0 .. MaxEdits
      BY <1>8 DEF AddEntry, Edit, IInv, TypeOK
    <3> HIDE DEF o
    <3> QED
      BY <1>8, <3>1, <3>3, <3>4, <3>5, EditKeepsIInv DEF AddEntry
  <2> QED
    BY <2>1, <2>2
<1>9. ASSUME NEW c \in CIDRs, RemoveEntry(c)
      PROVE  IInv'
  <2> DEFINE o == [obj EXCEPT !.ranges = @ \ {c}]
  <2>1. o \in ServiceObject /\ users' = users \ {c} /\ users' \in SUBSET CIDRs
    BY <1>9 DEF RemoveEntry, IInv, TypeOK, ServiceObject
  <2>2. o.ranges = obj.ranges \ {c} /\ o.managed = obj.managed
    BY DEF IInv, TypeOK, ServiceObject
  <2>3. UsersApart(o, users')
    BY <2>1, <2>2 DEF IInv, UsersApart
  <2>4. obj' = [o EXCEPT !.rv = obj.rv + 1]
    BY <1>9 DEF RemoveEntry, Store
  <2>5. edits' \in 0 .. MaxEdits
    BY <1>9 DEF RemoveEntry, Edit, IInv, TypeOK
  <2> HIDE DEF o
  <2> QED
    BY <1>9, <2>1, <2>3, <2>4, <2>5, EditKeepsIInv DEF RemoveEntry
<1>10. ASSUME NEW r \in Settings, NEW d \in BOOLEAN, EditAnnotations(r, d)
       PROVE  IInv'
  <2> DEFINE o == [obj EXCEPT !.restrict = r, !.deny = d]
  <2>1. obj \in ServiceObject
    BY DEF IInv, TypeOK
  <2>2. o \in ServiceObject
    BY <2>1 DEF ServiceObject
  <2>3. o.ranges = obj.ranges /\ o.managed = obj.managed
    BY <2>1 DEF ServiceObject
  <2>4. UsersApart(o, users)
    BY <2>3 DEF IInv, UsersApart
  <2>5. obj' = [o EXCEPT !.rv = obj.rv + 1]
    BY <1>10 DEF EditAnnotations, Store
  <2>6. edits' \in 0 .. MaxEdits
    BY <1>10 DEF EditAnnotations, Edit, IInv, TypeOK
  <2>7. users' = users /\ users' \in SUBSET CIDRs
    BY <1>10 DEF EditAnnotations, IInv, TypeOK
  <2> HIDE DEF o
  <2> QED
    BY <1>10, <2>2, <2>4, <2>5, <2>6, <2>7, EditKeepsIInv DEF EditAnnotations
<1>11. CASE LeaveType
  <2>1. obj \in ServiceObject /\ users \in SUBSET CIDRs
    BY DEF IInv, TypeOK
  <2>2. edits' \in 0 .. MaxEdits
    BY <1>11 DEF LeaveType, Edit, IInv, TypeOK
  <2>3. CASE Store([obj EXCEPT !.phase = "other", !.ranges = {}]) /\ users' = {}
    <3> DEFINE o == [obj EXCEPT !.phase = "other", !.ranges = {}]
    <3>1. o \in ServiceObject
      BY <2>1 DEF ServiceObject
    <3>2. UsersApart(o, users')
      BY <2>3 DEF UsersApart
    <3>3. obj' = [o EXCEPT !.rv = obj.rv + 1]
      BY <2>3 DEF Store
    <3> HIDE DEF o
    <3> QED
      BY <1>11, <2>2, <2>3, <3>1, <3>2, <3>3, EditKeepsIInv DEF LeaveType
  <2>4. CASE Store([obj EXCEPT !.phase = "deleting"]) /\ UNCHANGED users
    <3> DEFINE o == [obj EXCEPT !.phase = "deleting"]
    <3>1. o \in ServiceObject /\ o.ranges = obj.ranges /\ o.managed = obj.managed
      BY <2>1 DEF ServiceObject
    <3>2. UsersApart(o, users')
      BY <2>4, <3>1 DEF IInv, UsersApart
    <3>3. obj' = [o EXCEPT !.rv = obj.rv + 1]
      BY <2>4 DEF Store
    <3> HIDE DEF o
    <3> QED
      BY <1>11, <2>1, <2>2, <2>4, <3>1, <3>2, <3>3, EditKeepsIInv DEF LeaveType
  <2> QED
    BY <1>11, <2>3, <2>4 DEF LeaveType
<1>12. ASSUME NEW l \in LBState, ChangeLB(l)
       PROVE  IInv'
  <2>1. edits' \in 0 .. MaxEdits
    BY <1>12 DEF ChangeLB, Edit, IInv, TypeOK
  <2>2. TypeOK'
    BY <1>12, <2>1 DEF ChangeLB, IInv, TypeOK
  <2> QED
    BY <1>12, <2>2 DEF ChangeLB, IInv, UsersApart, PatchCurrent, desiredSourceRanges, ownedEntries
<1>13. CASE UNCHANGED vars
  BY <1>13 DEF vars, IInv, TypeOK, UsersApart, PatchCurrent, desiredSourceRanges, ownedEntries
<1>14. CASE User
  BY <1>8, <1>9, <1>10, <1>11, <1>12, <1>14 DEF User
<1> QED
  BY <1>1, <1>2, <1>3, <1>4, <1>5, <1>6, <1>7, <1>13, <1>14 DEF Next, Controller

----------------------------------------------------------------------------
(* The theorem.                                                            *)

\* setManagedSourceRanges never removes an entry that a user set, whatever the
\* order of its reads and patches, the edits of users and the failures.  An entry
\* for a network which the controller has added already is not the user's.
THEOREM UserEntriesStay == Spec => []UserEntriesKept
<1>1. IInv => UserEntriesKept
  BY DEF IInv, UsersApart, UserEntriesKept
<1> QED
  BY <1>1, InitIInv, NextIInv, PTL DEF Spec

\* The Service, the cached copy, the call in progress and the counters stay
\* well-formed; in particular RetryOnConflict never runs out of attempts and
\* goes on (setManagedSourceRanges).
THEOREM TypeCorrect == Spec => []TypeOK
<1>1. IInv => TypeOK
  BY DEF IInv
<1> QED
  BY <1>1, InitIInv, NextIInv, PTL DEF Spec

----------------------------------------------------------------------------
(* The source ranges are exact once the controller has settled.            *)

\* Every entry is one of the users or of a network that the annotation lists.
Explained(o, u) == \A c \in o.ranges : c \in u \/ containsCIDR(o.managed, c)

\* The informer's copy is a version the Service had.
CacheOld == cache.rv <= obj.rv /\ (cache.rv = obj.rv => cache = obj)

\* The setting and the addresses say what is wanted.
Firm(s) == WantedFor(s) = {} => restrictNodePortSourceEnabled(s) = FALSE \/ s.deny

\* Nothing is missing, and nothing is left over in the annotation.
Exact(s) ==
    /\ \A w \in WantedFor(s) : containsCIDR(s.ranges, w)
    /\ s.managed \subseteq WantedFor(s)

\* Unless the Service is due again, a call works for what the copy it began
\* with wants, and it ends only when that is on the Service.
CallFits ==
    ~dirty /\ cache.phase = "lb" =>
        /\ op # Idle => op.kind = "reconcile" /\ op.wanted = WantedFor(cache)
        /\ op = Idle /\ cache = obj /\ Firm(obj) => Exact(obj)

ExactInv == IInv /\ Explained(obj, users) /\ CacheOld /\ CallFits

\* What a patch writes is explained by the annotation it writes.
LEMMA PatchExplained ==
    ASSUME NEW cur \in SUBSET CIDRs, NEW prev \in SUBSET CIDRs, NEW want \in SUBSET CIDRs,
           NEW u, \A c \in cur : c \in u \/ containsCIDR(prev, c),
           NEW c \in desiredSourceRanges(cur, prev, want)
    PROVE  c \in u \/ containsCIDR(ownedEntries(cur, prev, want), c)
<1> DEFINE kept == {d \in cur : containsCIDR(prev, d) => containsCIDR(want, d)}
<1>1. CASE c \in kept /\ c \notin u
  <2>1. containsCIDR(prev, c) /\ containsCIDR(want, c) /\ c \in cur
    BY <1>1
  <2>2. PICK w \in want : sameCIDR(w, c)
    BY <2>1 DEF containsCIDR
  <2>3. containsCIDR(prev, w)
    BY <2>1, <2>2 DEF containsCIDR, sameCIDR
  <2> QED
    BY <2>2, <2>3 DEF ownedEntries, containsCIDR
<1>2. CASE c \in want /\ ~containsCIDR(kept, c)
  <2>1. ASSUME containsCIDR(cur, c), ~containsCIDR(prev, c) PROVE FALSE
    <3>1. PICK d \in cur : sameCIDR(d, c)
      BY <2>1 DEF containsCIDR
    <3>2. ~containsCIDR(prev, d)
      BY <2>1, <3>1 DEF containsCIDR, sameCIDR
    <3>3. d \in kept
      BY <3>2
    <3> QED
      BY <1>2, <3>1, <3>3 DEF containsCIDR
  <2>2. c \in ownedEntries(cur, prev, want)
    BY <1>2, <2>1 DEF ownedEntries
  <2> QED
    BY <2>2 DEF containsCIDR, sameCIDR
<1> QED
  BY <1>1, <1>2 DEF desiredSourceRanges

\* A Service that a pass finds as it should be is exact.
LEMMA FixedExact ==
    ASSUME NEW cur \in SUBSET CIDRs, NEW prev \in SUBSET CIDRs, NEW want \in SUBSET CIDRs,
           cur = desiredSourceRanges(cur, prev, want), prev = ownedEntries(cur, prev, want)
    PROVE  (\A w \in want : containsCIDR(cur, w)) /\ prev \subseteq want
<1> DEFINE kept == {d \in cur : containsCIDR(prev, d) => containsCIDR(want, d)}
<1>1. prev \subseteq want
  BY DEF ownedEntries
<1>2. ASSUME NEW w \in want PROVE containsCIDR(cur, w)
  <2>1. CASE containsCIDR(kept, w)
    BY <2>1 DEF containsCIDR
  <2>2. CASE ~containsCIDR(kept, w)
    <3>1. w \in cur
      BY <2>2 DEF desiredSourceRanges
    <3> QED
      BY <3>1 DEF containsCIDR, sameCIDR
  <2> QED
    BY <2>1, <2>2
<1> QED
  BY <1>1, <1>2

\* A step that stores a new version of the Service.
LEMMA StoreFits ==
    ASSUME ExactInv, obj'.rv = obj.rv + 1, UNCHANGED <<cache, lb>>,
           ~dirty' => ~dirty, op' = op \/ op' = Idle
    PROVE  CacheOld' /\ CallFits'
<1>1. obj.rv \in Nat /\ cache.rv \in Nat
  BY DEF ExactInv, IInv, TypeOK, ServiceObject
<1>2. cache.rv <= obj.rv
  BY DEF ExactInv, CacheOld
<1>3. cache'.rv < obj'.rv /\ cache' # obj'
  BY <1>1, <1>2
<1>4. CacheOld'
  BY <1>1, <1>3 DEF CacheOld
<1>5. WantedFor(cache)' = WantedFor(cache)
  BY DEF WantedFor, restrictNodePortSourceEnabled, lbSourceCIDRs
<1>6. CallFits'
  BY <1>3, <1>5 DEF ExactInv, CallFits
<1> QED
  BY <1>4, <1>6

\* A step of a call that leaves the Service alone.
LEMMA CallExplained ==
    ASSUME ExactInv, UNCHANGED <<obj, cache, users>>
    PROVE  Explained(obj, users)' /\ CacheOld'
BY DEF ExactInv, Explained, CacheOld, containsCIDR, sameCIDR

LEMMA AbortFits ==
    ASSUME ExactInv, UNCHANGED <<obj, cache, lb>>, op # Idle, Abort(op)
    PROVE  CallFits'
<1>1. op' = Idle /\ dirty' = (dirty \/ op.kind = "reconcile")
  BY DEF Abort
<1>2. CASE ~dirty /\ cache.phase = "lb"
  <2>1. op.kind = "reconcile"
    BY <1>2 DEF ExactInv, CallFits
  <2>2. dirty' = TRUE
    BY <1>1, <2>1
  <2> QED
    BY <2>2 DEF CallFits
<1>3. CASE dirty
  <2>1. dirty' = TRUE
    BY <1>1, <1>3
  <2> QED
    BY <2>1 DEF CallFits
<1>4. CASE cache.phase # "lb"
  BY <1>4 DEF CallFits
<1> QED
  BY <1>2, <1>3, <1>4 DEF ExactInv, IInv, TypeOK

LEMMA ReconcileFits ==
    ASSUME ExactInv, reconcileNodePortSource
    PROVE  CallFits'
<1>0. UNCHANGED <<obj, cache, lb>> /\ WantedFor(cache)' = WantedFor(cache) /\ WantedFor(obj)' = WantedFor(obj)
  BY DEF reconcileNodePortSource, WantedFor, restrictNodePortSourceEnabled, lbSourceCIDRs
<1>1. CASE restrictNodePortSourceEnabled(cache) = Invalid /\ UNCHANGED dirty
  <2>1. dirty' = TRUE
    BY <1>1 DEF reconcileNodePortSource, ExactInv, IInv, TypeOK
  <2> QED
    BY <2>1 DEF CallFits
<1>2. CASE /\ restrictNodePortSourceEnabled(cache) = TRUE /\ ~cache.deny /\ lbSourceCIDRs(lb) = {}
           /\ op' = Idle
  <2>1. WantedFor(cache) = {}
    BY <1>2 DEF WantedFor
  <2>2. ~Firm(cache)
    BY <1>2, <2>1 DEF Firm
  <2>3. ~Firm(cache)'
    BY <1>0, <2>2 DEF Firm, restrictNodePortSourceEnabled
  <2> QED
    BY <1>0, <1>2, <2>3 DEF CallFits
<1>3. CASE Enter("reconcile", WantedFor(cache))
  <2>1. CASE WantedFor(cache) = {} /\ cache.managed = {} /\ op' = Idle
    <3>1. cache' = obj' => Exact(obj)'
      BY <1>0, <2>1 DEF Exact
    <3> QED
      BY <2>1, <3>1 DEF CallFits
  <2>2. CASE op' = [at |-> "get", kind |-> "reconcile", wanted |-> WantedFor(cache), tries |-> MaxTries]
    <3>1. op'.kind = "reconcile" /\ op'.wanted = WantedFor(cache) /\ op'.at = "get"
      BY <2>2
    <3>2. op' # Idle
      BY <3>1 DEF Idle
    <3> QED
      BY <1>0, <3>1, <3>2 DEF CallFits
  <2> QED
    BY <1>3, <2>1, <2>2 DEF Enter
<1> QED
  BY <1>1, <1>2, <1>3 DEF reconcileNodePortSource

LEMMA GetFits ==
    ASSUME ExactInv, getLatest
    PROVE  CallFits'
<1>0. /\ UNCHANGED <<obj, cache, lb, dirty>>
      /\ WantedFor(cache)' = WantedFor(cache) /\ WantedFor(obj)' = WantedFor(obj)
  BY DEF getLatest, WantedFor, restrictNodePortSourceEnabled, lbSourceCIDRs
<1>1. op.at = "get" /\ op # Idle /\ op.wanted \in SUBSET CIDRs
  BY DEF getLatest, Idle, ExactInv, IInv, TypeOK, OpRecord
<1> SUFFICES ASSUME ~dirty, cache.phase = "lb"
             PROVE  /\ op' # Idle => op'.kind = "reconcile" /\ op'.wanted = WantedFor(cache)
                    /\ op' = Idle /\ cache = obj /\ Firm(obj) => Exact(obj)'
  BY <1>0 DEF CallFits, Firm, restrictNodePortSourceEnabled
<1>2. op.kind = "reconcile" /\ op.wanted = WantedFor(cache)
  BY <1>1 DEF ExactInv, CallFits
<1> DEFINE ranges == desiredSourceRanges(obj.ranges, obj.managed, op.wanted)
           owned == ownedEntries(obj.ranges, obj.managed, op.wanted)
<1>3. CASE op' = [at |-> "patch", kind |-> op.kind, wanted |-> op.wanted, tries |-> op.tries,
                  rv |-> obj.rv, ranges |-> ranges, owned |-> owned]
  <2>1. op'.kind = op.kind /\ op'.wanted = op.wanted /\ op'.at = "patch"
    BY <1>3
  <2>2. op' # Idle
    BY <2>1 DEF Idle
  <2> QED
    BY <1>2, <2>1, <2>2
<1>4. CASE op' = Idle /\ obj.phase \in {"deleting", "gone"}
  BY <1>4
<1>5. CASE op' = Idle /\ ranges = obj.ranges /\ owned = obj.managed
  <2>1. obj.ranges \in SUBSET CIDRs /\ obj.managed \in SUBSET CIDRs
    BY DEF ExactInv, IInv, TypeOK, ServiceObject
  <2>2. (\A w \in op.wanted : containsCIDR(obj.ranges, w)) /\ obj.managed \subseteq op.wanted
    BY <1>1, <1>5, <2>1, FixedExact
  <2>3. cache = obj => Exact(obj)
    BY <1>2, <2>2 DEF Exact
  <2>4. Exact(obj) => Exact(obj)'
    BY <1>0 DEF Exact, containsCIDR, sameCIDR
  <2> QED
    BY <1>5, <2>3, <2>4
<1> QED
  BY <1>3, <1>4, <1>5 DEF getLatest

LEMMA PatchExact ==
    ASSUME ExactInv, patch
    PROVE  Explained(obj, users)' /\ CacheOld' /\ CallFits'
<1>0. op.at = "patch" /\ op # Idle /\ UNCHANGED <<cache, lb, users>>
  BY DEF patch, Idle
<1>1. /\ op.wanted \in SUBSET CIDRs /\ op.ranges \in SUBSET CIDRs /\ op.owned \in SUBSET CIDRs
      /\ obj \in ServiceObject /\ obj.ranges \in SUBSET CIDRs /\ obj.managed \in SUBSET CIDRs
  BY <1>0 DEF ExactInv, IInv, TypeOK, OpRecord, ServiceObject, Idle
<1>2. CASE Accepts(op) /\ obj' = Patched(op) /\ op' = Idle
  <2>1. obj'.rv = obj.rv + 1 /\ obj'.ranges = op.ranges /\ obj'.managed = op.owned
    BY <1>1, <1>2 DEF Patched, ServiceObject
  <2>2. /\ op.ranges = desiredSourceRanges(obj.ranges, obj.managed, op.wanted)
        /\ op.owned = ownedEntries(obj.ranges, obj.managed, op.wanted)
    BY <1>0, <1>2 DEF ExactInv, IInv, PatchCurrent, Accepts
  <2>3. \A c \in obj.ranges : c \in users \/ containsCIDR(obj.managed, c)
    BY DEF ExactInv, Explained
  <2>4. \A c \in op.ranges : c \in users \/ containsCIDR(op.owned, c)
    BY <1>1, <2>2, <2>3, PatchExplained
  <2>5. Explained(obj, users)'
    BY <1>0, <2>1, <2>4 DEF Explained, containsCIDR, sameCIDR
  <2>6. ~dirty' => ~dirty
    BY <1>2 DEF patch, Abort
  <2> QED
    BY <1>0, <1>2, <2>1, <2>5, <2>6, StoreFits
<1>3. CASE /\ op' = [at |-> "get", kind |-> op.kind, wanted |-> op.wanted, tries |-> op.tries - 1]
           /\ UNCHANGED <<obj, dirty>>
  <2>1. op'.kind = op.kind /\ op'.wanted = op.wanted /\ op'.at = "get"
    BY <1>3
  <2>2. op' # Idle /\ WantedFor(cache)' = WantedFor(cache)
    BY <1>0, <2>1 DEF Idle, WantedFor, restrictNodePortSourceEnabled, lbSourceCIDRs
  <2>3. CallFits'
    BY <1>0, <1>3, <2>1, <2>2 DEF ExactInv, CallFits
  <2> QED
    BY <1>0, <1>3, <2>3, CallExplained
<1>4. CASE Abort(op) /\ UNCHANGED obj
  BY <1>0, <1>4, AbortFits, CallExplained
<1> QED
  BY <1>2, <1>3, <1>4 DEF patch, Abort

\* An edit of the Service: the queue, the copy and the call stay as they are.
LEMMA EditExact ==
    ASSUME ExactInv, NEW o \in ServiceObject, obj' = [o EXCEPT !.rv = obj.rv + 1],
           Explained(o, users'), UNCHANGED <<cache, lb, dirty, op>>
    PROVE  Explained(obj, users)' /\ CacheOld' /\ CallFits'
<1>1. /\ obj'.rv = obj.rv + 1
      /\ obj'.ranges = o.ranges
      /\ obj'.managed = o.managed
  BY DEF ServiceObject
<1>2. Explained(obj, users)'
  BY <1>1 DEF Explained, containsCIDR, sameCIDR
<1> QED
  BY <1>1, <1>2, StoreFits

LEMMA UserExact ==
    ASSUME ExactInv, Vanish \/ User
    PROVE  Explained(obj, users)' /\ CacheOld' /\ CallFits'
<1>0. obj \in ServiceObject /\ Explained(obj, users)
  BY DEF ExactInv, IInv, TypeOK
<1>1. CASE Vanish
  <2> DEFINE o == [obj EXCEPT !.phase = "gone"]
  <2>1. o \in ServiceObject /\ o.ranges = obj.ranges /\ o.managed = obj.managed
    BY <1>0 DEF ServiceObject
  <2>2. obj' = [o EXCEPT !.rv = obj.rv + 1] /\ users' = users
    BY <1>1 DEF Vanish, Store
  <2> HIDE DEF o
  <2>3. Explained(o, users')
    BY <1>0, <2>1, <2>2 DEF Explained
  <2> QED
    BY <1>1, <2>1, <2>2, <2>3, EditExact DEF Vanish
<1>2. ASSUME NEW c \in CIDRs, AddEntry(c)
      PROVE  Explained(obj, users)' /\ CacheOld' /\ CallFits'
  <2> DEFINE o == [obj EXCEPT !.ranges = @ \cup {c}]
  <2>1. o \in ServiceObject /\ o.ranges = obj.ranges \cup {c} /\ o.managed = obj.managed
    BY <1>0 DEF ServiceObject
  <2>2. obj' = [o EXCEPT !.rv = obj.rv + 1]
    BY <1>2 DEF AddEntry, Store
  <2>3. users' = IF containsCIDR(obj.managed, c) THEN users ELSE users \cup {c}
    BY <1>2 DEF AddEntry
  <2> HIDE DEF o
  <2>4. Explained(o, users')
    BY <1>0, <2>1, <2>3 DEF Explained
  <2> QED
    BY <1>2, <2>1, <2>2, <2>4, EditExact DEF AddEntry
<1>3. ASSUME NEW c \in CIDRs, RemoveEntry(c)
      PROVE  Explained(obj, users)' /\ CacheOld' /\ CallFits'
  <2> DEFINE o == [obj EXCEPT !.ranges = @ \ {c}]
  <2>1. o \in ServiceObject /\ o.ranges = obj.ranges \ {c} /\ o.managed = obj.managed
    BY <1>0 DEF ServiceObject
  <2>2. obj' = [o EXCEPT !.rv = obj.rv + 1] /\ users' = users \ {c}
    BY <1>3 DEF RemoveEntry, Store
  <2> HIDE DEF o
  <2>3. Explained(o, users')
    BY <1>0, <2>1, <2>2 DEF Explained
  <2> QED
    BY <1>3, <2>1, <2>2, <2>3, EditExact DEF RemoveEntry
<1>4. ASSUME NEW r \in Settings, NEW d \in BOOLEAN, EditAnnotations(r, d)
      PROVE  Explained(obj, users)' /\ CacheOld' /\ CallFits'
  <2> DEFINE o == [obj EXCEPT !.restrict = r, !.deny = d]
  <2>1. o \in ServiceObject
    BY <1>0 DEF ServiceObject
  <2>2. o.ranges = obj.ranges /\ o.managed = obj.managed
    BY <1>0 DEF ServiceObject
  <2>3. obj' = [o EXCEPT !.rv = obj.rv + 1] /\ users' = users
    BY <1>4 DEF EditAnnotations, Store
  <2> HIDE DEF o
  <2>4. Explained(o, users')
    BY <1>0, <2>2, <2>3 DEF Explained
  <2> QED
    BY <1>4, <2>1, <2>3, <2>4, EditExact DEF EditAnnotations
<1>5. CASE LeaveType
  <2>1. CASE Store([obj EXCEPT !.phase = "other", !.ranges = {}]) /\ users' = {}
    <3> DEFINE o == [obj EXCEPT !.phase = "other", !.ranges = {}]
    <3>1. o \in ServiceObject
      BY <1>0 DEF ServiceObject
    <3>2. o.ranges = {}
      BY <1>0 DEF ServiceObject
    <3>3. obj' = [o EXCEPT !.rv = obj.rv + 1]
      BY <2>1 DEF Store
    <3> HIDE DEF o
    <3>4. Explained(o, users')
      BY <3>2 DEF Explained
    <3> QED
      BY <1>5, <3>1, <3>3, <3>4, EditExact DEF LeaveType
  <2>2. CASE Store([obj EXCEPT !.phase = "deleting"]) /\ UNCHANGED users
    <3> DEFINE o == [obj EXCEPT !.phase = "deleting"]
    <3>1. o \in ServiceObject /\ o.ranges = obj.ranges /\ o.managed = obj.managed
      BY <1>0 DEF ServiceObject
    <3>2. obj' = [o EXCEPT !.rv = obj.rv + 1] /\ users' = users
      BY <2>2 DEF Store
    <3> HIDE DEF o
    <3>3. Explained(o, users')
      BY <1>0, <3>1, <3>2 DEF Explained
    <3> QED
      BY <1>5, <3>1, <3>2, <3>3, EditExact DEF LeaveType
  <2> QED
    BY <1>5, <2>1, <2>2 DEF LeaveType
<1>6. ASSUME NEW l \in LBState, ChangeLB(l)
      PROVE  Explained(obj, users)' /\ CacheOld' /\ CallFits'
  <2>1. dirty' = TRUE /\ UNCHANGED <<obj, cache, users>>
    BY <1>6 DEF ChangeLB
  <2> QED
    BY <2>1, CallExplained DEF CallFits
<1> QED
  BY <1>1, <1>2, <1>3, <1>4, <1>5, <1>6 DEF User

LEMMA InitExact == Init => ExactInv
<1> SUFFICES ASSUME Init PROVE ExactInv
  OBVIOUS
<1>1. Explained(obj, users)
  BY DEF Init, Explained
<1>2. obj.rv = 0 /\ cache = obj /\ dirty = TRUE
  BY DEF Init
<1> QED
  BY <1>1, <1>2, InitIInv DEF ExactInv, CacheOld, CallFits

LEMMA NextExact == ExactInv /\ [Next]_vars => ExactInv'
<1> SUFFICES ASSUME ExactInv, [Next]_vars PROVE Explained(obj, users)' /\ CacheOld' /\ CallFits'
  BY NextIInv DEF ExactInv
<1>1. CASE reconcileNodePortSource
  BY <1>1, CallExplained, ReconcileFits DEF reconcileNodePortSource
<1>2. CASE removeNodePortSource
  <2>1. UNCHANGED <<obj, cache, users>> /\ cache.phase # "lb"
    BY <1>2 DEF removeNodePortSource
  <2> QED
    BY <2>1, CallExplained DEF CallFits
<1>3. CASE getLatest
  BY <1>3, CallExplained, GetFits DEF getLatest
<1>4. CASE patch
  BY <1>4, PatchExact
<1>5. CASE callFails
  BY <1>5, CallExplained, AbortFits DEF callFails
<1>6. CASE informerSync
  <2>1. dirty' = TRUE /\ cache' = obj /\ obj' = obj /\ users' = users
    BY <1>6 DEF informerSync
  <2>2. Explained(obj, users)'
    BY <2>1 DEF ExactInv, Explained, containsCIDR, sameCIDR
  <2>3. obj.rv \in Nat
    BY DEF ExactInv, IInv, TypeOK, ServiceObject
  <2> QED
    BY <2>1, <2>2, <2>3 DEF CacheOld, CallFits
<1>7. CASE Vanish \/ User
  BY <1>7, UserExact
<1>8. CASE UNCHANGED vars
  <2>1. UNCHANGED <<obj, cache, lb, users, dirty, op>>
    BY <1>8 DEF vars
  <2>2. CallFits'
    BY <2>1 DEF ExactInv, CallFits, Firm, Exact, WantedFor, restrictNodePortSourceEnabled,
                lbSourceCIDRs, containsCIDR, sameCIDR
  <2> QED
    BY <2>1, <2>2, CallExplained
<1> QED
  BY <1>1, <1>2, <1>3, <1>4, <1>5, <1>6, <1>7, <1>8 DEF Next, Controller

\* Once reconcileNodePortSource has nothing left to do, the source ranges of
\* the Service are those of its users and the addresses of the Load Balancer,
\* for any spellings of networks and whatever happened between the read of the
\* Service and the patch.
THEOREM SourcesAreExact == Spec => []SourcesExact
<1>1. ExactInv => SourcesExact
  <2> SUFFICES ASSUME ExactInv, Settled, obj.phase = "lb", Firm(obj)
               PROVE  /\ \A w \in WantedFor(obj) : containsCIDR(obj.ranges, w)
                      /\ \A c \in obj.ranges : c \in users \/ containsCIDR(WantedFor(obj), c)
                      /\ \A c \in obj.managed : c \in WantedFor(obj)
    BY DEF SourcesExact, Firm
  <2>1. Exact(obj)
    BY DEF ExactInv, CallFits, Settled
  <2>2. \A c \in obj.ranges : c \in users \/ containsCIDR(obj.managed, c)
    BY DEF ExactInv, Explained
  <2> QED
    BY <2>1, <2>2 DEF Exact, containsCIDR
<1> QED
  BY <1>1, InitExact, NextExact, PTL DEF Spec
=============================================================================
