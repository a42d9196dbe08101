------------------------ MODULE RobotInstancesProofs ------------------------
(***************************************************************************)
(* Proofs about RobotInstances, for any callers, servers and names, any    *)
(* timeout and waiting time, and any number of failures and changes.       *)
(*                                                                         *)
(* Type correctness includes the mutex: what a caller keeps between two    *)
(* steps of a section depends on nobody else being in one.  Each other     *)
(* property has an invariant of its own.  ForcedInv: a forced load that    *)
(* the cache has forgotten is older than the timeout.  LimitInv: while the *)
(* last refusal of Robot stands, the limit is set with its time, and no    *)
(* lookup that began after it has passed the check.  GenInv: a list, in    *)
(* the cache or on its way, was read with the present credentials.         *)
(* KeptInv: the list that gave a Node its provider ID is not newer than    *)
(* the one in the cache or any that is still to be stored.                 *)
(***************************************************************************)
EXTENDS RobotInstances, FiniteSetTheorems, TLAPS

----------------------------------------------------------------------------
(* Type correctness.                                                       *)

Stages == {"idle", "check", "wait", "reset", "zero", "lock", "robot", "answer", "set", "stamp", "done"}

\* The results of an operation.
Results ==
    [ans : {"limited", "error"}]
      \cup [ans : {"none", "list"}, from : 0 .. MaxEdits]
      \cup [ans : {"found"}, from : 0 .. MaxEdits, pid : ProviderIDs]

CallRecord ==
    [at : Stages, op : Ops \cup {None}, node : Names \cup {None}, pid : ProviderIDs \cup {None},
     gen : 0 .. MaxEdits, seen : Nat, again : BOOLEAN, force : BOOLEAN,
     answer : Answers \cup {None}, res : Results \cup {None}]

Lookups == {"metadata", "exists"}

\* What the stage of an operation says about the rest of its record.
Shape(o) ==
    /\ o.at # "idle" => o.op \in Ops /\ (o.op \in Lookups => o.node \in Names)
    /\ o.again => o.op \in Lookups
    /\ o.force => o.again
    /\ o.at = "answer" => o.answer \in Answers
    /\ o.at = "done" => o.res \in Results

\* An operation calls Robot only while it holds the mutex.
Mutex == \A c \in Callers : call[c].at \in {"robot", "answer"} <=> holder = c

\* The calls that Robot refused and that the rate limit does not know of yet.
Refused == {c \in Callers : call[c].at \in {"set", "stamp"}}

\* The state apart from the operations and the rate limit.
StateTypes ==
    /\ servers \in Lists
    /\ \A s \in Servers : servers[s].ver <= edits
    /\ nodes \in [Names -> ProviderIDs \cup {None}]
    /\ m = None \/ m \in [list : Answers, at : 0 .. clock]
    /\ forced \in [Names -> (0 .. clock) \cup {None}]
    /\ lastForce \in [Names -> (0 .. clock) \cup {None}]
    /\ holder \in Callers \cup {None}
    /\ gen \in 0 .. edits
    /\ clock \in Times /\ faults \in 0 .. MaxFaults /\ edits \in 0 .. MaxEdits

CallTypes == call \in [Callers -> CallRecord] /\ \A c \in Callers : Shape(call[c])

LimitTypes ==
    /\ limit \in [exceeded : BOOLEAN, lastChecked : (0 .. clock) \cup {None}]
    /\ refused \in [n : Nat, at : 0 .. clock, undone : BOOLEAN]

\* Each call that Robot refuses is a fault, and is counted once.
RefusalsCounted == IsFiniteSet(Refused) /\ refused.n + Cardinality(Refused) <= faults

TypeInv == StateTypes /\ CallTypes /\ LimitTypes /\ Mutex

\* Records of operations, after a step.
LEMMA RecordAt ==
    ASSUME NEW o \in CallRecord, NEW pc \in Stages
    PROVE  /\ [o EXCEPT !.at = pc] \in CallRecord
           /\ Shape(o) /\ o.at # "idle" /\ pc \notin {"answer", "done"} => Shape([o EXCEPT !.at = pc])
<1>1. [o EXCEPT !.at = pc] \in CallRecord
  BY DEF CallRecord
<1>2. Shape(o) /\ o.at # "idle" /\ pc \notin {"answer", "done"} => Shape([o EXCEPT !.at = pc])
  BY DEF CallRecord, Shape
<1> QED
  BY <1>1, <1>2

LEMMA RecordEnd ==
    ASSUME NEW o \in CallRecord, Shape(o), o.at # "idle", NEW r \in Results
    PROVE  /\ End(o, r) \in CallRecord
           /\ Shape(End(o, r))
           /\ End(o, r).at = "done" /\ End(o, r).res = r
           /\ End(o, r).op = o.op /\ End(o, r).node = o.node /\ End(o, r).pid = o.pid
           /\ End(o, r).gen = o.gen /\ End(o, r).seen = o.seen
<1> DEFINE o1 == [o EXCEPT !.at = "done"]
           o2 == [o1 EXCEPT !.again = FALSE]
           o3 == [o2 EXCEPT !.force = FALSE]
           o4 == [o3 EXCEPT !.answer = None]
           o5 == [o4 EXCEPT !.res = r]
<1>1. End(o, r) = o5
  BY DEF End
<1>2. o1 \in CallRecord
  BY DEF CallRecord, Stages
<1>3. o2 \in CallRecord
  <2> HIDE DEF o1
  <2> QED
    BY <1>2 DEF CallRecord
<1>4. o3 \in CallRecord
  <2> HIDE DEF o2
  <2> QED
    BY <1>3 DEF CallRecord
<1>5. o4 \in CallRecord
  <2> HIDE DEF o3
  <2> QED
    BY <1>4 DEF CallRecord
<1>6. o5 \in CallRecord
  <2> HIDE DEF o4
  <2> QED
    BY <1>5 DEF CallRecord
<1>7. /\ o5.at = "done" /\ o5.res = r /\ o5.op = o.op /\ o5.node = o.node /\ o5.pid = o.pid
      /\ o5.gen = o.gen /\ o5.seen = o.seen /\ o5.again = FALSE /\ o5.force = FALSE
  BY DEF CallRecord
<1> HIDE DEF o5
<1>8. Shape(o5)
  BY <1>7 DEF Shape
<1> QED
  BY <1>1, <1>6, <1>7, <1>8

LEMMA ResultType ==
    ASSUME NEW o \in CallRecord, NEW a \in Answers
    PROVE  /\ Result(o, a) \in Results
           /\ Result(o, a).ans \in {"none", "list", "found"}
           /\ Result(o, a).from = a.gen
           /\ o.op = "lbpass" => Result(o, a).ans = "list"
           /\ Result(o, a).ans = "none" => o.op # "lbpass"
<1>1. a.of \in Lists /\ a.gen \in 0 .. MaxEdits
  BY DEF Answers
<1> DEFINE found == IF o.pid # None THEN getRobotServerByID(o, a.of) ELSE getRobotServerByName(o, a.of)
           s == CHOOSE s \in found : TRUE
           f == [ans |-> "found", from |-> a.gen, pid |-> [id |-> s, ver |-> a.of[s].ver]]
<1>2. Result(o, a) = IF o.op = "lbpass" THEN [ans |-> "list", from |-> a.gen]
                     ELSE IF found = {} THEN [ans |-> "none", from |-> a.gen] ELSE f
  BY DEF Result
<1>3. found \subseteq Servers
  BY DEF getRobotServerByID, getRobotServerByName, CallRecord, ProviderIDs
<1>4. ASSUME found # {} PROVE f \in Results
  <2>1. s \in found
    BY <1>4
  <2>2. s \in Servers
    BY <1>3, <2>1
  <2> HIDE DEF s, found
  <2>3. [id |-> s, ver |-> a.of[s].ver] \in ProviderIDs
    BY <1>1, <2>2 DEF Lists, ProviderIDs
  <2> QED
    BY <1>1, <2>3 DEF Results
<1>5. [ans |-> "list", from |-> a.gen] \in Results /\ [ans |-> "none", from |-> a.gen] \in Results
  BY <1>1 DEF Results
<1> HIDE DEF found
<1>6. Result(o, a) \in Results
  BY <1>2, <1>4, <1>5
<1> QED
  BY <1>2, <1>6

\* An operation stays what it is until it returns.
SameOp(o, r) ==
    r.op = o.op /\ r.node = o.node /\ r.pid = o.pid /\ r.gen = o.gen /\ r.seen = o.seen

LEMMA UseType ==
    ASSUME NEW o \in CallRecord, Shape(o), o.at # "idle", NEW a \in Answers
    PROVE  /\ Use(o, a) \in CallRecord
           /\ Shape(Use(o, a))
           /\ SameOp(o, Use(o, a))
           /\ \/ Use(o, a).at = "lock" /\ o.op \in Lookups
              \/ Use(o, a).at = "done" /\ Use(o, a).res = Result(o, a)
<1>1. CASE Result(o, a).ans = "none" /\ o.pid = None /\ ~o.again
  <2> DEFINE o1 == [o EXCEPT !.at = "lock"]
             o2 == [o1 EXCEPT !.again = TRUE]
             o3 == [o2 EXCEPT !.answer = None]
  <2>1. Use(o, a) = o3
    BY <1>1 DEF Use
  <2>2. o1 \in CallRecord
    BY DEF CallRecord, Stages
  <2>3. o2 \in CallRecord
    <3> HIDE DEF o1
    <3> QED
      BY <2>2 DEF CallRecord
  <2>4. o3 \in CallRecord
    <3> HIDE DEF o2
    <3> QED
      BY <2>3 DEF CallRecord
  <2>5. o3.at = "lock" /\ o3.op = o.op /\ o3.node = o.node /\ o3.pid = o.pid /\ o3.gen = o.gen
        /\ o3.seen = o.seen /\ o3.again = TRUE
    BY DEF CallRecord
  <2>6. o.op \in Lookups
    BY <1>1, ResultType DEF Shape, Ops, Lookups
  <2> HIDE DEF o3
  <2>7. Shape(o3)
    BY <2>5, <2>6 DEF Shape, Ops, Lookups
  <2> QED
    BY <2>1, <2>4, <2>5, <2>6, <2>7 DEF SameOp
<1>2. CASE ~(Result(o, a).ans = "none" /\ o.pid = None /\ ~o.again)
  <2>1. Use(o, a) = End(o, Result(o, a))
    BY <1>2 DEF Use
  <2>2. Result(o, a) \in Results
    BY ResultType
  <2> QED
    BY <2>1, <2>2, RecordEnd DEF SameOp
<1> QED
  BY <1>1, <1>2

\* Only the operation of c changes, to a record that is well-formed.
Moved(c) ==
    /\ call' \in [Callers -> CallRecord]
    /\ Shape(call'[c])
    /\ \A d \in Callers : d # c => call'[d] = call[d]

LEMMA MoveTo ==
    ASSUME CallTypes, NEW c \in Callers, NEW r \in CallRecord, Shape(r),
           call' = [call EXCEPT ![c] = r]
    PROVE  Moved(c) /\ call'[c] = r
BY DEF CallTypes, Moved

LEMMA MoveAt ==
    ASSUME CallTypes, NEW c \in Callers, NEW pc \in Stages \ {"answer", "done"}, Goto(c, pc),
           call[c].at # "idle"
    PROVE  /\ Moved(c) /\ SameOp(call[c], call'[c]) /\ call'[c].at = pc
           /\ call'[c].again = call[c].again /\ call'[c].force = call[c].force
<1> DEFINE r == [call[c] EXCEPT !.at = pc]
<1>1. call[c] \in CallRecord /\ Shape(call[c])
  BY DEF CallTypes
<1>2. r \in CallRecord /\ Shape(r)
  BY <1>1, RecordAt
<1>3. call' = [call EXCEPT ![c] = r]
  BY DEF Goto
<1>4. SameOp(call[c], r) /\ r.at = pc /\ r.again = call[c].again /\ r.force = call[c].force
  BY <1>1 DEF CallRecord, SameOp
<1> HIDE DEF r
<1>5. Moved(c) /\ call'[c] = r
  BY <1>2, <1>3, MoveTo
<1> QED
  BY <1>4, <1>5

LEMMA MoveEnd ==
    ASSUME CallTypes, NEW c \in Callers, NEW r \in Results, call[c].at # "idle",
           call' = [call EXCEPT ![c] = End(@, r)]
    PROVE  Moved(c) /\ SameOp(call[c], call'[c]) /\ call'[c].at = "done" /\ call'[c].res = r
<1>1. call[c] \in CallRecord /\ Shape(call[c])
  BY DEF CallTypes
<1>2. call' = [call EXCEPT ![c] = End(call[c], r)]
  OBVIOUS
<1>3. Moved(c) /\ call'[c] = End(call[c], r)
  BY <1>1, <1>2, RecordEnd, MoveTo
<1> QED
  BY <1>1, <1>3, RecordEnd DEF SameOp

LEMMA MoveUse ==
    ASSUME CallTypes, NEW c \in Callers, NEW a \in Answers, call[c].at # "idle",
           call' = [call EXCEPT ![c] = Use(call[c], a)]
    PROVE  /\ Moved(c) /\ SameOp(call[c], call'[c])
           /\ \/ call'[c].at = "lock" /\ call[c].op \in Lookups
              \/ call'[c].at = "done" /\ call'[c].res = Result(call[c], a)
<1>1. call[c] \in CallRecord /\ Shape(call[c])
  BY DEF CallTypes
<1>2. Moved(c) /\ call'[c] = Use(call[c], a)
  BY <1>1, UseType, MoveTo
<1> QED
  BY <1>1, <1>2, UseType

\* The parts of a well-typed state that most steps leave alone.
LEMMA TypeStep ==
    ASSUME TypeInv, NEW c \in Callers, Moved(c),
           UNCHANGED <<servers, gen, clock, edits>>,
           nodes' \in [Names -> ProviderIDs \cup {None}],
           m' = None \/ m' \in [list : Answers, at : 0 .. clock],
           forced' \in [Names -> (0 .. clock) \cup {None}],
           lastForce' \in [Names -> (0 .. clock) \cup {None}],
           faults' \in 0 .. MaxFaults,
           LimitTypes',
           call'[c].at \in {"robot", "answer"} <=> holder' = c,
           holder' = holder \/ (holder = None /\ holder' = c) \/ (holder = c /\ holder' = None)
    PROVE  TypeInv'
<1>0. None \notin Callers
  BY RobotInstancesAssumption DEF RobotInstancesAssumption
<1>1. CallTypes'
  BY DEF TypeInv, CallTypes, Moved
<1>2. StateTypes'
  BY DEF TypeInv, StateTypes
<1>3. Mutex'
  BY <1>0 DEF TypeInv, Mutex, Moved
<1> QED
  BY <1>1, <1>2, <1>3 DEF TypeInv

\* The rate limit and the callers: a step that leaves the mutex and the cache alone.
LEMMA LimitStep ==
    ASSUME TypeInv, NEW c \in Callers, Moved(c),
           UNCHANGED <<nodes, m, forced, holder, lastForce, world>>,
           faults' \in 0 .. MaxFaults, LimitTypes',
           call[c].at \notin {"robot", "answer"}, call'[c].at \notin {"robot", "answer"}
    PROVE  TypeInv'
<1>1. UNCHANGED <<servers, gen, clock, edits>>
  BY DEF world
<1>2. call'[c].at \in {"robot", "answer"} <=> holder' = c
  BY DEF TypeInv, Mutex
<1>3. /\ nodes' \in [Names -> ProviderIDs \cup {None}]
      /\ m' = None \/ m' \in [list : Answers, at : 0 .. clock]
      /\ forced' \in [Names -> (0 .. clock) \cup {None}]
      /\ lastForce' \in [Names -> (0 .. clock) \cup {None}]
  BY DEF TypeInv, StateTypes
<1> QED
  BY <1>1, <1>2, <1>3, TypeStep

LEMMA Errors == [ans |-> "limited"] \in Results /\ ErrorResult \in Results
BY DEF Results, ErrorResult

\* An operation that has not begun.
LEMMA IdleType == Idle \in CallRecord /\ Shape(Idle) /\ Idle.at = "idle"
<1>1. Idle \in CallRecord
  BY RobotInstancesAssumption DEF RobotInstancesAssumption, Idle, CallRecord, Stages
<1>2. Shape(Idle)
  BY DEF Idle, Shape
<1> QED
  BY <1>1, <1>2 DEF Idle

LEMMA InitType == Init => TypeInv /\ RefusalsCounted
<1> SUFFICES ASSUME Init PROVE TypeInv /\ RefusalsCounted
  OBVIOUS
<1> USE RobotInstancesAssumption DEF RobotInstancesAssumption
<1>1. StateTypes
  BY DEF Init, StateTypes, Lists, Times
<1>2. CallTypes /\ \A c \in Callers : call[c].at = "idle"
  BY IdleType DEF Init, CallTypes
<1>3. LimitTypes
  BY DEF Init, LimitTypes
<1>4. Mutex
  BY <1>2 DEF Init, Mutex
<1>5. Refused = {}
  BY <1>2 DEF Refused
<1>6. refused.n = 0 /\ faults = 0
  BY DEF Init
<1>7. RefusalsCounted
  BY <1>5, <1>6, FS_EmptySet DEF RefusalsCounted
<1> QED
  BY <1>1, <1>2, <1>3, <1>4, <1>7 DEF TypeInv

\* Each step of a caller leaves the state well-typed.
LEMMA CheckType ==
    ASSUME TypeInv, NEW c \in Callers, checkExceeded(c) \/ checkWaitTime(c)
    PROVE  /\ TypeInv' /\ Moved(c) /\ SameOp(call[c], call'[c])
           /\ call[c].at \in {"check", "wait"} /\ call'[c].at \in {"wait", "lock", "reset", "done"}
           /\ call'[c].at = "done" => call'[c].res = [ans |-> "limited"]
           /\ UNCHANGED <<nodes, m, forced, holder, limit, lastForce, refused, faults, world>>
<1>1. UNCHANGED <<nodes, m, forced, holder, limit, lastForce, refused, faults, world>>
  BY DEF checkExceeded, checkWaitTime
<1>2. CallTypes
  BY DEF TypeInv
<1>3. call[c].at \in {"check", "wait"}
  BY DEF checkExceeded, checkWaitTime, At
<1>4. \/ \E pc \in {"wait", "lock", "reset"} : Goto(c, pc)
      \/ call' = [call EXCEPT ![c] = End(@, [ans |-> "limited"])]
  BY DEF checkExceeded, checkWaitTime
<1>5. /\ Moved(c) /\ SameOp(call[c], call'[c])
      /\ call'[c].at \in {"wait", "lock", "reset", "done"}
      /\ call'[c].at = "done" => call'[c].res = [ans |-> "limited"]
  <2>1. ASSUME NEW pc \in {"wait", "lock", "reset"}, Goto(c, pc)
        PROVE  Moved(c) /\ SameOp(call[c], call'[c]) /\ call'[c].at = pc
    <3>1. pc \in Stages \ {"answer", "done"}
      BY DEF Stages
    <3> QED
      BY <1>2, <1>3, <2>1, <3>1, MoveAt
  <2>2. CASE call' = [call EXCEPT ![c] = End(@, [ans |-> "limited"])]
    BY <1>2, <1>3, <2>2, MoveEnd, Errors
  <2> QED
    BY <1>4, <2>1, <2>2
<1>6. faults' \in 0 .. MaxFaults /\ LimitTypes'
  BY <1>1 DEF TypeInv, StateTypes, LimitTypes, world
<1>7. TypeInv'
  BY <1>1, <1>3, <1>5, <1>6, LimitStep
<1> QED
  BY <1>1, <1>3, <1>5, <1>7

LEMMA ResetType ==
    ASSUME TypeInv, NEW c \in Callers, resetLimit(c)
    PROVE  /\ TypeInv' /\ Moved(c) /\ SameOp(call[c], call'[c])
           /\ \/ call[c].at = "reset" /\ call'[c].at = "zero"
              \/ call[c].at = "zero" /\ call'[c].at = "lock"
           /\ refused'.n = refused.n /\ refused'.at = refused.at
           /\ refused'.undone = (refused.undone \/ call[c].seen < refused.n)
           /\ UNCHANGED <<nodes, m, forced, holder, lastForce, faults, world>>
<1>1. UNCHANGED <<nodes, m, forced, holder, lastForce, faults, world>>
  BY DEF resetLimit
<1>2. CallTypes /\ LimitTypes
  BY DEF TypeInv
<1>3. /\ Moved(c) /\ SameOp(call[c], call'[c])
      /\ \/ call[c].at = "reset" /\ call'[c].at = "zero"
         \/ call[c].at = "zero" /\ call'[c].at = "lock"
  <2>1. CASE At(c, "reset") /\ Goto(c, "zero")
    BY <1>2, <2>1, MoveAt DEF At, Stages
  <2>2. CASE At(c, "zero") /\ Goto(c, "lock")
    BY <1>2, <2>2, MoveAt DEF At, Stages
  <2> QED
    BY <2>1, <2>2 DEF resetLimit
<1>4. /\ refused'.n = refused.n /\ refused'.at = refused.at
      /\ refused'.undone = (refused.undone \/ call[c].seen < refused.n)
      /\ refused' \in [n : Nat, at : 0 .. clock, undone : BOOLEAN]
  <2>1. refused' = [refused EXCEPT !.undone = refused.undone \/ call[c].seen < refused.n]
    BY DEF resetLimit
  <2> QED
    BY <1>2, <2>1 DEF LimitTypes
<1>5. limit' \in [exceeded : BOOLEAN, lastChecked : (0 .. clock) \cup {None}]
  BY <1>2 DEF resetLimit, LimitTypes
<1>6. LimitTypes' /\ faults' \in 0 .. MaxFaults
  BY <1>1, <1>4, <1>5 DEF TypeInv, StateTypes, LimitTypes, world
<1>7. TypeInv'
  BY <1>1, <1>3, <1>6, LimitStep
<1> QED
  BY <1>1, <1>3, <1>4, <1>7

LEMMA SetType ==
    ASSUME TypeInv, NEW c \in Callers, setLimit(c)
    PROVE  /\ TypeInv' /\ Moved(c) /\ SameOp(call[c], call'[c])
           /\ \/ /\ call[c].at = "set" /\ call'[c].at = "stamp" /\ refused' = refused
                 /\ limit'.exceeded = TRUE /\ limit'.lastChecked = limit.lastChecked
              \/ /\ call[c].at = "stamp" /\ call'[c].at = "done" /\ call'[c].res = ErrorResult
                 /\ refused'.n = refused.n + 1 /\ refused'.at = clock
                 /\ refused'.undone = ~limit.exceeded
                 /\ limit'.exceeded = limit.exceeded /\ limit'.lastChecked = clock
           /\ UNCHANGED <<nodes, m, forced, holder, lastForce, faults, world>>
<1>1. UNCHANGED <<nodes, m, forced, holder, lastForce, faults, world>>
  BY DEF setLimit
<1>2. CallTypes /\ LimitTypes /\ clock \in Nat
  BY RobotInstancesAssumption DEF RobotInstancesAssumption, TypeInv, StateTypes, Times
<1>3. CASE At(c, "set") /\ limit' = [limit EXCEPT !.exceeded = TRUE] /\ Goto(c, "stamp") /\ UNCHANGED refused
  <2>1. Moved(c) /\ SameOp(call[c], call'[c]) /\ call[c].at = "set" /\ call'[c].at = "stamp"
    BY <1>2, <1>3, MoveAt DEF At, Stages
  <2>2. LimitTypes' /\ limit'.exceeded = TRUE /\ limit'.lastChecked = limit.lastChecked
    BY <1>1, <1>2, <1>3 DEF LimitTypes, world
  <2>3. TypeInv'
    BY <1>1, <2>1, <2>2, LimitStep DEF TypeInv, StateTypes
  <2> QED
    BY <1>1, <1>3, <2>1, <2>2, <2>3
<1>4. CASE /\ At(c, "stamp")
           /\ limit' = [limit EXCEPT !.lastChecked = LimitTime]
           /\ call' = [call EXCEPT ![c] = End(@, ErrorResult)]
           /\ refused' = [n |-> refused.n + 1, at |-> clock, undone |-> ~limit.exceeded]
  <2>1. /\ Moved(c) /\ SameOp(call[c], call'[c]) /\ call[c].at = "stamp" /\ call'[c].at = "done"
        /\ call'[c].res = ErrorResult
    BY <1>2, <1>4, MoveEnd, Errors DEF At
  <2>2. /\ LimitTypes'
        /\ limit'.exceeded = limit.exceeded /\ limit'.lastChecked = clock
    BY <1>1, <1>2, <1>4 DEF LimitTypes, LimitTime, world
  <2>3. /\ refused'.n = refused.n + 1 /\ refused'.at = clock
        /\ refused'.undone = ~limit.exceeded
    BY <1>4
  <2>4. TypeInv'
    BY <1>1, <2>1, <2>2, LimitStep DEF TypeInv, StateTypes
  <2> QED
    BY <1>1, <2>1, <2>2, <2>3, <2>4
<1> QED
  BY <1>3, <1>4 DEF setLimit

\* The state of the cache and of the Nodes, as far as the steps below need it.
LEMMA Cache ==
    ASSUME TypeInv
    PROVE  /\ nodes \in [Names -> ProviderIDs \cup {None}]
           /\ m = None \/ m \in [list : Answers, at : 0 .. clock]
           /\ forced \in [Names -> (0 .. clock) \cup {None}]
           /\ lastForce \in [Names -> (0 .. clock) \cup {None}]
           /\ faults \in 0 .. MaxFaults
           /\ clock \in Nat /\ edits \in 0 .. MaxEdits /\ gen \in 0 .. MaxEdits
           /\ CallTypes /\ LimitTypes /\ None \notin Callers
BY RobotInstancesAssumption DEF RobotInstancesAssumption, TypeInv, StateTypes, Times

LEMMA AcquireType ==
    ASSUME TypeInv, NEW c \in Callers, Acquire(c)
    PROVE  /\ TypeInv' /\ Moved(c) /\ SameOp(call[c], call'[c])
           /\ call[c].at = "lock" /\ holder = None
           /\ \/ /\ call'[c].at = "robot" /\ m' \in {m, None}
                 /\ call'[c].force = (call[c].again /\ ~nodeHasAlreadyForcedRefresh(call[c].node))
                 /\ IF call'[c].force THEN forced' = [forced EXCEPT ![call[c].node] = None]
                                      ELSE forced' = forced
              \/ /\ m # None /\ m' = m /\ m.list \in Answers /\ forced' = forced /\ holder' = None
                 /\ \/ call'[c].at = "lock" /\ call[c].op \in Lookups
                    \/ call'[c].at = "done" /\ call'[c].res = Result(call[c], m.list)
           /\ UNCHANGED <<nodes, limit, lastForce, refused, faults, world>>
<1>1. /\ UNCHANGED <<nodes, limit, lastForce, refused, faults, world>>
      /\ call[c].at = "lock" /\ holder = None
  BY DEF Acquire, At
<1> DEFINE force == call[c].again /\ ~nodeHasAlreadyForcedRefresh(call[c].node)
           cached == IF force THEN None ELSE m
<1>2. /\ m' = cached
      /\ forced' = IF force THEN [forced EXCEPT ![call[c].node] = None] ELSE forced
  BY DEF Acquire
<1>3. force \in BOOLEAN /\ call[c] \in CallRecord /\ Shape(call[c])
  BY DEF TypeInv, CallTypes, CallRecord
<1>4. /\ m' = None \/ m' \in [list : Answers, at : 0 .. clock]
      /\ forced' \in [Names -> (0 .. clock) \cup {None}]
  BY <1>2, Cache
<1>5. LimitTypes'
  BY <1>1, Cache DEF LimitTypes, world
<1>6. CASE shouldSync(cached)
  <2>1. holder' = c /\ call' = [call EXCEPT ![c].at = "robot", ![c].force = force]
    BY <1>6 DEF Acquire, LockDuringCall
  <2> DEFINE o1 == [call[c] EXCEPT !.at = "robot"]
             o2 == [o1 EXCEPT !.force = force]
  <2>2. call' = [call EXCEPT ![c] = o2]
    BY <2>1
  <2>3. o1 \in CallRecord
    BY <1>3 DEF CallRecord, Stages
  <2>4. o2 \in CallRecord
    <3> HIDE DEF o1, force
    <3> QED
      BY <1>3, <2>3 DEF CallRecord
  <2>5. o2.at = "robot" /\ o2.force = force /\ SameOp(call[c], o2) /\ o2.again = call[c].again
    <3> HIDE DEF force
    <3> QED
      BY <1>3 DEF CallRecord, SameOp
  <2>6. Shape(o2)
    <3>1. o2.force => o2.again
      BY <2>5
    <3> HIDE DEF o2
    <3> QED
      BY <1>1, <1>3, <2>5, <3>1 DEF Shape, SameOp
  <2>7. Moved(c) /\ call'[c] = o2
    <3> HIDE DEF o2
    <3> QED
      BY <2>2, <2>4, <2>6, MoveTo, Cache
  <2>8. call'[c].at = "robot" /\ call'[c].force = force /\ SameOp(call[c], call'[c])
    BY <2>5, <2>7
  <2>9. TypeInv'
    BY <1>1, <1>4, <1>5, <2>1, <2>7, <2>8, TypeStep, Cache DEF world
  <2>10. m' \in {m, None} /\ IF call'[c].force THEN forced' = [forced EXCEPT ![call[c].node] = None]
                                              ELSE forced' = forced
    BY <1>2, <2>8
  <2> QED
    BY <1>1, <2>7, <2>8, <2>9, <2>10
<1>7. CASE ~shouldSync(cached)
  <2>1. call' = [call EXCEPT ![c] = Use(call[c], cached.list)] /\ holder' = holder
    BY <1>7 DEF Acquire
  <2>2. cached = m /\ m # None /\ forced' = forced
    BY <1>2, <1>7 DEF shouldSync
  <2>3. m.list \in Answers
    BY <2>2, Cache
  <2> HIDE DEF cached, force
  <2>4. call' = [call EXCEPT ![c] = Use(call[c], m.list)]
    BY <2>1, <2>2
  <2>5. /\ Moved(c) /\ SameOp(call[c], call'[c])
        /\ \/ call'[c].at = "lock" /\ call[c].op \in Lookups
           \/ call'[c].at = "done" /\ call'[c].res = Result(call[c], m.list)
    BY <1>1, <2>3, <2>4, MoveUse, Cache
  <2>6. TypeInv'
    BY <1>1, <1>4, <1>5, <2>1, <2>5, TypeStep, Cache DEF world
  <2> QED
    BY <1>1, <1>2, <2>1, <2>2, <2>3, <2>5, <2>6
<1> QED
  BY <1>6, <1>7

LEMMA AnswerType ==
    ASSUME TypeInv, NEW c \in Callers, robotAnswers(c)
    PROVE  /\ TypeInv' /\ Moved(c) /\ SameOp(call[c], call'[c])
           /\ call[c].at = "robot" /\ call'[c].at = "answer" /\ holder = c
           /\ call'[c].answer = [of |-> servers, gen |-> gen]
           /\ call'[c].force = call[c].force
           /\ UNCHANGED <<nodes, m, forced, holder, limit, lastForce, refused, faults, world>>
<1>1. /\ UNCHANGED <<nodes, m, forced, holder, limit, lastForce, refused, faults, world>>
      /\ call[c].at = "robot"
  BY DEF robotAnswers, At
<1>2. holder = c
  BY <1>1 DEF TypeInv, Mutex
<1>3. call[c] \in CallRecord /\ Shape(call[c])
  BY DEF TypeInv, CallTypes
<1> DEFINE a == [of |-> servers, gen |-> gen]
           o1 == [call[c] EXCEPT !.at = "answer"]
           o2 == [o1 EXCEPT !.answer = a]
<1>4. a \in Answers
  BY Cache DEF Answers, TypeInv, StateTypes
<1>5. call' = [call EXCEPT ![c] = o2]
  BY DEF robotAnswers
<1>6. o1 \in CallRecord
  BY <1>3 DEF CallRecord, Stages
<1> HIDE DEF a
<1>7. o2 \in CallRecord
  <2> HIDE DEF o1
  <2> QED
    BY <1>4, <1>6 DEF CallRecord
<1>8. /\ o2.at = "answer" /\ o2.answer = a /\ SameOp(call[c], o2)
      /\ o2.force = call[c].force /\ o2.again = call[c].again
  BY <1>3 DEF CallRecord, SameOp
<1> HIDE DEF o2
<1>9. Shape(o2)
  BY <1>1, <1>3, <1>4, <1>8 DEF Shape, SameOp
<1>10. Moved(c) /\ call'[c] = o2
  BY <1>5, <1>7, <1>9, MoveTo, Cache
<1>11. LimitTypes'
  BY <1>1, Cache DEF LimitTypes, world
<1>12. TypeInv'
  BY <1>1, <1>2, <1>8, <1>10, <1>11, TypeStep, Cache DEF world
<1> QED
  BY <1>1, <1>2, <1>8, <1>10, <1>12 DEF a

LEMMA SyncType ==
    ASSUME TypeInv, NEW c \in Callers, syncIfNeeded(c)
    PROVE  /\ TypeInv' /\ Moved(c) /\ SameOp(call[c], call'[c])
           /\ call[c].at = "answer" /\ holder = c /\ holder' = None
           /\ call[c].answer \in Answers
           /\ m' = [list |-> call[c].answer, at |-> clock]
           /\ \/ call'[c].at = "lock" /\ call[c].op \in Lookups
              \/ call'[c].at = "done" /\ call'[c].res = Result(call[c], call[c].answer)
           /\ IF call[c].force
              THEN forced' = [forced EXCEPT ![call[c].node] = clock]
                   /\ lastForce' = [lastForce EXCEPT ![call[c].node] = clock]
              ELSE UNCHANGED <<forced, lastForce>>
           /\ UNCHANGED <<nodes, limit, refused, faults, world>>
<1>1. /\ UNCHANGED <<nodes, limit, refused, faults, world>>
      /\ call[c].at = "answer" /\ holder' = None
      /\ m' = [list |-> call[c].answer, at |-> clock]
      /\ call' = [call EXCEPT ![c] = Use(call[c], call[c].answer)]
  BY DEF syncIfNeeded, At
<1>2. IF call[c].force
      THEN forced' = [forced EXCEPT ![call[c].node] = clock]
           /\ lastForce' = [lastForce EXCEPT ![call[c].node] = clock]
      ELSE UNCHANGED <<forced, lastForce>>
  BY DEF syncIfNeeded
<1>3. holder = c
  BY <1>1 DEF TypeInv, Mutex
<1>4. call[c].answer \in Answers
  BY <1>1, Cache DEF CallTypes, Shape
<1>5. /\ Moved(c) /\ SameOp(call[c], call'[c])
      /\ \/ call'[c].at = "lock" /\ call[c].op \in Lookups
         \/ call'[c].at = "done" /\ call'[c].res = Result(call[c], call[c].answer)
  BY <1>1, <1>4, MoveUse, Cache
<1>6. /\ forced' \in [Names -> (0 .. clock) \cup {None}]
      /\ lastForce' \in [Names -> (0 .. clock) \cup {None}]
  <2>1. clock \in (0 .. clock) \cup {None}
    BY Cache
  <2> QED
    BY <1>2, <2>1, Cache
<1>7. m' \in [list : Answers, at : 0 .. clock]
  BY <1>1, <1>4, Cache
<1>8. LimitTypes'
  BY <1>1, Cache DEF LimitTypes, world
<1>9. TypeInv'
  BY <1>1, <1>3, <1>5, <1>6, <1>7, <1>8, TypeStep, Cache DEF world
<1> QED
  BY <1>1, <1>2, <1>3, <1>4, <1>5, <1>9

LEMMA FailsType ==
    ASSUME TypeInv, NEW c \in Callers, robotFails(c)
    PROVE  /\ TypeInv' /\ Moved(c) /\ SameOp(call[c], call'[c])
           /\ call[c].at = "robot" /\ holder = c /\ holder' = None
           /\ \/ call'[c].at = "set"
              \/ call'[c].at = "done" /\ call'[c].res = ErrorResult
           /\ faults' = faults + 1
           /\ UNCHANGED <<nodes, m, forced, limit, lastForce, refused, world>>
<1>1. /\ UNCHANGED <<nodes, m, forced, limit, lastForce, refused, world>>
      /\ call[c].at = "robot" /\ holder' = None
      /\ faults' = faults + 1 /\ faults < MaxFaults
  BY DEF robotFails, At
<1>2. holder = c
  BY <1>1 DEF TypeInv, Mutex
<1>3. /\ Moved(c) /\ SameOp(call[c], call'[c])
      /\ \/ call'[c].at = "set"
         \/ call'[c].at = "done" /\ call'[c].res = ErrorResult
  <2>1. CASE Goto(c, "set")
    BY <1>1, <2>1, MoveAt, Cache DEF Stages
  <2>2. CASE call' = [call EXCEPT ![c] = End(@, ErrorResult)]
    BY <1>1, <2>2, MoveEnd, Errors, Cache
  <2> QED
    BY <2>1, <2>2 DEF robotFails
<1>4. LimitTypes'
  BY <1>1, Cache DEF LimitTypes, world
<1>5. faults' \in 0 .. MaxFaults
  BY <1>1, Cache, RobotInstancesAssumption DEF RobotInstancesAssumption
<1>6. TypeInv'
  BY <1>1, <1>2, <1>3, <1>4, <1>5, TypeStep, Cache DEF world
<1> QED
  BY <1>1, <1>2, <1>3, <1>6

LEMMA BeginType ==
    ASSUME TypeInv, NEW c \in Callers, Begin(c)
    PROVE  /\ TypeInv' /\ Moved(c)
           /\ call[c].at = "idle"
           /\ call'[c].gen = gen
           /\ \/ /\ call'[c].at = "check" /\ call'[c].op \in Lookups /\ call'[c].node \in Names
                 /\ call'[c].pid = nodes[call'[c].node] /\ call'[c].seen = refused.n
              \/ /\ call'[c].at = "lock" /\ call'[c].op = "lbpass" /\ call'[c].pid = None
                 /\ call'[c].seen = 0
           /\ UNCHANGED <<nodes, m, forced, holder, limit, lastForce, refused, faults, world>>
<1>1. /\ UNCHANGED <<nodes, m, forced, holder, limit, lastForce, refused, faults, world>>
      /\ call[c] = Idle
  BY DEF Begin, lookupServer, listDedicatedServers
<1>2. call[c].at = "idle"
  BY <1>1, IdleType
<1>3. /\ Moved(c) /\ call'[c].gen = gen
      /\ \/ /\ call'[c].at = "check" /\ call'[c].op \in Lookups /\ call'[c].node \in Names
            /\ call'[c].pid = nodes[call'[c].node] /\ call'[c].seen = refused.n
         \/ /\ call'[c].at = "lock" /\ call'[c].op = "lbpass" /\ call'[c].pid = None
            /\ call'[c].seen = 0
  <2>1. ASSUME NEW op \in Lookups, NEW n \in Names, lookupServer(c, op, n)
        PROVE  /\ Moved(c) /\ call'[c].gen = gen
               /\ call'[c].at = "check" /\ call'[c].op \in Lookups /\ call'[c].node \in Names
               /\ call'[c].pid = nodes[call'[c].node] /\ call'[c].seen = refused.n
    <3> DEFINE o1 == [Idle EXCEPT !.at = "check"]
               o2 == [o1 EXCEPT !.op = op]
               o3 == [o2 EXCEPT !.node = n]
               o4 == [o3 EXCEPT !.pid = nodes[n]]
               o5 == [o4 EXCEPT !.gen = gen]
               o6 == [o5 EXCEPT !.seen = refused.n]
    <3>1. call' = [call EXCEPT ![c] = o6]
      BY <2>1 DEF lookupServer
    <3>2. Idle \in CallRecord /\ gen \in 0 .. MaxEdits /\ nodes \in [Names -> ProviderIDs \cup {None}]
          /\ refused.n \in Nat
      BY IdleType, Cache DEF LimitTypes
    <3>3. o1 \in CallRecord
      BY <3>2 DEF CallRecord, Stages
    <3>4. o2 \in CallRecord
      <4> HIDE DEF o1
      <4> QED
        BY <3>2, <3>3 DEF CallRecord, Stages, Ops, Lookups
    <3>5. o3 \in CallRecord
      <4> HIDE DEF o2
      <4> QED
        BY <3>2, <3>4 DEF CallRecord, Stages, Ops, Lookups
    <3>6. o4 \in CallRecord
      <4> HIDE DEF o3
      <4> QED
        BY <3>2, <3>5 DEF CallRecord, Stages, Ops, Lookups
    <3>7. o5 \in CallRecord
      <4> HIDE DEF o4
      <4> QED
        BY <3>2, <3>6 DEF CallRecord, Stages, Ops, Lookups
    <3>8. o6 \in CallRecord
      <4> HIDE DEF o5
      <4> QED
        BY <3>2, <3>7 DEF CallRecord, Stages, Ops, Lookups
    <3>9. /\ o6.at = "check" /\ o6.op = op /\ o6.node = n /\ o6.pid = nodes[n] /\ o6.gen = gen
          /\ o6.seen = refused.n /\ o6.again = FALSE /\ o6.force = FALSE
      BY DEF Idle
    <3> HIDE DEF o6
    <3>10. Shape(o6)
      BY <3>9 DEF Shape, Ops, Lookups
    <3>11. Moved(c) /\ call'[c] = o6
      BY <3>1, <3>8, <3>10, MoveTo, Cache
    <3> QED
      BY <3>9, <3>11
  <2>2. ASSUME listDedicatedServers(c)
        PROVE  /\ Moved(c) /\ call'[c].gen = gen
               /\ call'[c].at = "lock" /\ call'[c].op = "lbpass" /\ call'[c].pid = None
               /\ call'[c].seen = 0
    <3> DEFINE o1 == [Idle EXCEPT !.at = "lock"]
               o2 == [o1 EXCEPT !.op = "lbpass"]
               o3 == [o2 EXCEPT !.gen = gen]
    <3>1. call' = [call EXCEPT ![c] = o3]
      BY <2>2 DEF listDedicatedServers
    <3>2. Idle \in CallRecord /\ gen \in 0 .. MaxEdits /\ nodes \in [Names -> ProviderIDs \cup {None}]
          /\ refused.n \in Nat
      BY IdleType, Cache DEF LimitTypes
    <3>3. o1 \in CallRecord
      BY <3>2 DEF CallRecord, Stages
    <3>4. o2 \in CallRecord
      <4> HIDE DEF o1
      <4> QED
        BY <3>2, <3>3 DEF CallRecord, Stages, Ops, Lookups
    <3>5. o3 \in CallRecord
      <4> HIDE DEF o2
      <4> QED
        BY <3>2, <3>4 DEF CallRecord, Stages, Ops, Lookups
    <3>6. /\ o3.at = "lock" /\ o3.op = "lbpass" /\ o3.pid = None /\ o3.gen = gen
          /\ o3.seen = 0 /\ o3.again = FALSE /\ o3.force = FALSE
      BY DEF Idle
    <3> HIDE DEF o3
    <3>7. Shape(o3)
      BY <3>6 DEF Shape, Ops, Lookups
    <3>8. Moved(c) /\ call'[c] = o3
      BY <3>1, <3>5, <3>7, MoveTo, Cache
    <3> QED
      BY <3>6, <3>8
  <2> QED
    BY <2>1, <2>2 DEF Begin, Lookups
<1>4. LimitTypes'
  BY <1>1, Cache DEF LimitTypes, world
<1>5. TypeInv'
  BY <1>1, <1>2, <1>3, <1>4, LimitStep, Cache
<1> QED
  BY <1>1, <1>2, <1>3, <1>5

LEMMA ReturnType ==
    ASSUME TypeInv, NEW c \in Callers, Return(c)
    PROVE  /\ TypeInv' /\ Moved(c)
           /\ call[c].at = "done" /\ call'[c].at = "idle"
           /\ \/ nodes' = nodes
              \/ nodes' = [nodes EXCEPT ![call[c].node] = None]
              \/ call[c].res.ans = "found" /\ nodes' = [nodes EXCEPT ![call[c].node] = call[c].res.pid]
           /\ UNCHANGED <<m, forced, holder, limit, lastForce, refused, faults, world>>
<1>1. /\ UNCHANGED <<m, forced, holder, limit, lastForce, refused, faults, world>>
      /\ call[c].at = "done"
      /\ call' = [call EXCEPT ![c] = Idle]
  BY DEF Return, At
<1>2. Moved(c) /\ call'[c].at = "idle"
  BY <1>1, MoveTo, IdleType, Cache
<1>3. \/ nodes' = nodes
      \/ nodes' = [nodes EXCEPT ![call[c].node] = None]
      \/ call[c].res.ans = "found" /\ nodes' = [nodes EXCEPT ![call[c].node] = call[c].res.pid]
  BY DEF Return
<1>4. nodes' \in [Names -> ProviderIDs \cup {None}]
  <2>1. call[c].res.ans = "found" => call[c].res.pid \in ProviderIDs
    BY <1>1, Cache DEF CallTypes, Shape, Results
  <2>2. nodes \in [Names -> ProviderIDs \cup {None}]
    BY Cache
  <2>3. CASE nodes' = [nodes EXCEPT ![call[c].node] = None]
    BY <2>2, <2>3
  <2>4. CASE call[c].res.ans = "found" /\ nodes' = [nodes EXCEPT ![call[c].node] = call[c].res.pid]
    BY <2>1, <2>2, <2>4
  <2> QED
    BY <1>3, <2>2, <2>3, <2>4
<1>5. LimitTypes' /\ holder # c
  BY <1>1, Cache DEF LimitTypes, world, TypeInv, Mutex
<1>6. TypeInv'
  BY <1>1, <1>2, <1>4, <1>5, TypeStep, Cache DEF world
<1> QED
  BY <1>1, <1>2, <1>3, <1>6

\* The steps of Robot, of time and of the watcher of the credentials.
LEMMA WorldType ==
    ASSUME TypeInv, SetCredentials \/ Tick \/ \E s \in Servers, n \in Names \cup {None} : Rename(s, n)
    PROVE  TypeInv'
<1> USE RobotInstancesAssumption DEF RobotInstancesAssumption
<1>1. CASE SetCredentials
  <2>1. /\ edits \in 0 .. MaxEdits /\ edits < MaxEdits /\ edits' = edits + 1
        /\ gen \in 0 .. edits /\ gen' = gen + 1
        /\ forced' = [n \in Names |-> None] /\ lastForce' = [n \in Names |-> None] /\ m' = None
        /\ UNCHANGED <<servers, nodes, holder, limit, call, refused, clock, faults>>
    BY <1>1 DEF SetCredentials, TypeInv, StateTypes
  <2>2. gen' \in 0 .. edits' /\ edits' \in 0 .. MaxEdits
    BY <2>1
  <2>3. \A s \in Servers : servers[s].ver \in Nat
    BY DEF TypeInv, StateTypes, Lists
  <2>4. \A s \in Servers : servers'[s].ver <= edits'
    BY <2>1, <2>3 DEF TypeInv, StateTypes
  <2>5. StateTypes'
    BY <2>1, <2>2, <2>4 DEF TypeInv, StateTypes
  <2> QED
    BY <2>1, <2>5 DEF TypeInv, CallTypes, LimitTypes, Mutex
<1>2. CASE Tick
  <2>1. clock \in Nat /\ clock' = clock + 1 /\ 0 .. clock \subseteq 0 .. clock' /\ clock' \in Times
    BY <1>2, Cache DEF Tick, Times
  <2>2. UNCHANGED <<servers, nodes, m, forced, holder, limit, call, gen, lastForce, refused, faults, edits>>
    BY <1>2 DEF Tick
  <2>3. StateTypes'
    <3>1. m' = None \/ m' \in [list : Answers, at : 0 .. clock']
      BY <2>1, <2>2, Cache
    <3>2. /\ forced' \in [Names -> (0 .. clock') \cup {None}]
          /\ lastForce' \in [Names -> (0 .. clock') \cup {None}]
      BY <2>1, <2>2, Cache
    <3> QED
      BY <2>1, <2>2, <3>1, <3>2 DEF TypeInv, StateTypes
  <2>4. LimitTypes'
    BY <2>1, <2>2 DEF TypeInv, LimitTypes
  <2> QED
    BY <2>2, <2>3, <2>4 DEF TypeInv, CallTypes, Mutex
<1>3. ASSUME NEW s \in Servers, NEW n \in Names \cup {None}, Rename(s, n)
      PROVE  TypeInv'
  <2>1. /\ servers \in Lists /\ servers[s].ver \in 0 .. edits /\ edits \in 0 .. MaxEdits
        /\ edits < MaxEdits /\ edits' = edits + 1
        /\ servers' = [servers EXCEPT ![s] = [name |-> n, ver |-> servers[s].ver + 1]]
    BY <1>3 DEF Rename, TypeInv, StateTypes, Lists
  <2>2. servers' \in Lists
    <3>1. [name |-> n, ver |-> servers[s].ver + 1] \in [name : Names \cup {None}, ver : 0 .. MaxEdits]
      BY <2>1
    <3> QED
      BY <2>1, <3>1 DEF Lists
  <2>3. \A t \in Servers : servers'[t].ver <= edits'
    BY <2>1 DEF Lists, TypeInv, StateTypes
  <2>4. gen \in 0 .. edits' /\ edits' \in 0 .. MaxEdits
    BY <2>1 DEF TypeInv, StateTypes
  <2>5. StateTypes'
    BY <1>3, <2>2, <2>3, <2>4 DEF Rename, TypeInv, StateTypes
  <2> QED
    BY <1>3, <2>5 DEF Rename, TypeInv, CallTypes, LimitTypes, Mutex
<1> QED
  BY <1>1, <1>2, <1>3

\* The steps of the callers, as the lemmas above describe them.
LEMMA NextCases ==
    ASSUME [Next]_vars
    PROVE  \/ \E c \in Callers : \/ Begin(c) \/ Acquire(c) \/ robotFails(c)
                                 \/ checkExceeded(c) \/ checkWaitTime(c) \/ resetLimit(c) \/ setLimit(c)
                                 \/ robotAnswers(c) \/ syncIfNeeded(c) \/ Return(c)
           \/ SetCredentials \/ Tick
           \/ \E s \in Servers, n \in Names \cup {None} : Rename(s, n)
           \/ UNCHANGED vars
BY DEF Next, Continue

LEMMA NextType == TypeInv /\ [Next]_vars => TypeInv'
<1> SUFFICES ASSUME TypeInv, [Next]_vars PROVE TypeInv'
  OBVIOUS
<1>1. ASSUME NEW c \in Callers,
             \/ Begin(c) \/ Acquire(c) \/ robotFails(c)
             \/ checkExceeded(c) \/ checkWaitTime(c) \/ resetLimit(c) \/ setLimit(c)
             \/ robotAnswers(c) \/ syncIfNeeded(c) \/ Return(c)
      PROVE  TypeInv'
  BY <1>1, BeginType, AcquireType, FailsType, CheckType, ResetType, SetType, AnswerType, SyncType, ReturnType
<1>2. CASE UNCHANGED vars
  BY <1>2 DEF vars, TypeInv, StateTypes, CallTypes, LimitTypes, Mutex
<1> QED
  BY <1>1, <1>2, WorldType, NextCases

\* A step between two other stages leaves the set of refused calls as it is.
LEMMA RefusedSame ==
    ASSUME NEW c \in Callers, Moved(c),
           call[c].at \in {"set", "stamp"} <=> call'[c].at \in {"set", "stamp"}
    PROVE  Refused' = Refused
BY DEF Refused, Moved

LEMMA NextRefusals == TypeInv /\ RefusalsCounted /\ [Next]_vars => RefusalsCounted'
<1> SUFFICES ASSUME TypeInv, RefusalsCounted, [Next]_vars PROVE RefusalsCounted'
  OBVIOUS
<1>0. /\ IsFiniteSet(Refused) /\ Cardinality(Refused) \in Nat /\ refused.n \in Nat /\ faults \in Nat
      /\ refused.n + Cardinality(Refused) <= faults
  BY FS_CardinalityType, Cache DEF RefusalsCounted, LimitTypes
<1>1. ASSUME NEW c \in Callers,
             \/ Begin(c) \/ Acquire(c) \/ checkExceeded(c) \/ checkWaitTime(c) \/ resetLimit(c)
             \/ robotAnswers(c) \/ syncIfNeeded(c) \/ Return(c)
      PROVE  RefusalsCounted'
  <2>1. /\ Moved(c) /\ refused'.n = refused.n /\ faults' = faults
        /\ call[c].at \notin {"set", "stamp"} /\ call'[c].at \notin {"set", "stamp"}
    BY <1>1, BeginType, AcquireType, CheckType, ResetType, AnswerType, SyncType, ReturnType
  <2>2. Refused' = Refused
    BY <2>1, RefusedSame
  <2> QED
    BY <2>1, <2>2 DEF RefusalsCounted
<1>2. ASSUME NEW c \in Callers, robotFails(c)
      PROVE  RefusalsCounted'
  <2>1. Moved(c) /\ refused' = refused /\ faults' = faults + 1 /\ call[c].at = "robot" /\ call'[c].at \in {"set", "done"}
    BY <1>2, FailsType
  <2>2. c \notin Refused
    BY <2>1 DEF Refused
  <2>3. CASE call'[c].at = "set"
    <3>1. Refused' = Refused \cup {c}
      BY <2>1, <2>3 DEF Refused, Moved
    <3>2. IsFiniteSet(Refused') /\ Cardinality(Refused') = Cardinality(Refused) + 1
      BY <1>0, <2>2, <3>1, FS_AddElement
    <3> QED
      BY <1>0, <2>1, <3>2 DEF RefusalsCounted
  <2>4. CASE call'[c].at = "done"
    <3>1. Refused' = Refused
      BY <2>1, <2>4, RefusedSame
    <3> QED
      BY <1>0, <2>1, <3>1 DEF RefusalsCounted
  <2> QED
    BY <2>1, <2>3, <2>4
<1>3. ASSUME NEW c \in Callers, setLimit(c)
      PROVE  RefusalsCounted'
  <2>1. Moved(c) /\ faults' = faults
    BY <1>3, SetType
  <2>2. CASE call[c].at = "set" /\ call'[c].at = "stamp" /\ refused' = refused
    BY <2>1, <2>2, RefusedSame DEF RefusalsCounted
  <2>3. CASE call[c].at = "stamp" /\ call'[c].at = "done" /\ refused'.n = refused.n + 1
    <3>1. Refused' = Refused \ {c} /\ c \in Refused
      BY <2>1, <2>3 DEF Refused, Moved
    <3>2. IsFiniteSet(Refused') /\ Cardinality(Refused') = Cardinality(Refused) - 1
      BY <1>0, <3>1, FS_RemoveElement
    <3> QED
      BY <1>0, <2>1, <2>3, <3>2 DEF RefusalsCounted
  <2> QED
    BY <1>3, <2>2, <2>3, SetType
<1>4. CASE \/ SetCredentials \/ Tick
           \/ \E s \in Servers, n \in Names \cup {None} : Rename(s, n)
           \/ UNCHANGED vars
  <2>1. UNCHANGED <<call, refused, faults>>
    BY <1>4 DEF SetCredentials, Tick, Rename, vars
  <2> QED
    BY <2>1 DEF RefusalsCounted, Refused
<1> QED
  BY <1>1, <1>2, <1>3, <1>4, NextCases

LEMMA Typing == Spec => []TypeInv
BY InitType, NextType, PTL DEF Spec

\* The state of the cache, of the rate limit and of the operations is well-formed:
\* whoever holds the mutex of the cache is at its call to Robot, times are never in
\* the future, and each refusal recorded is one that Robot gave.
THEOREM TypeCorrect == Spec => []TypeOK
<1>1. TypeInv /\ RefusalsCounted => TypeOK
  <2> SUFFICES ASSUME TypeInv, RefusalsCounted PROVE TypeOK
    OBVIOUS
  <2>1. \A c \in Callers : /\ call[c].op \in Ops \cup {None}
                           /\ call[c].pid \in ProviderIDs \cup {None}
                           /\ call[c].answer \in Answers \cup {None}
    BY Cache DEF CallTypes, CallRecord
  <2>2. holder = None \/ call[holder].at \in {"robot", "answer"}
    BY DEF TypeInv, Mutex, StateTypes
  <2>3. Cardinality(Refused) \in Nat
    BY FS_CardinalityType DEF RefusalsCounted
  <2>4. refused.n \in 0 .. MaxFaults
    <3>1. refused.n \in Nat /\ faults \in 0 .. MaxFaults /\ MaxFaults \in Nat
      BY Cache, RobotInstancesAssumption DEF RobotInstancesAssumption, LimitTypes
    <3> QED
      BY <2>3, <3>1 DEF RefusalsCounted
  <2>5. refused \in [n : 0 .. MaxFaults, at : 0 .. clock, undone : BOOLEAN]
    BY <2>4, Cache DEF LimitTypes
  <2> QED
    BY <2>1, <2>2, <2>5, Cache DEF TypeOK, TypeInv, StateTypes, LimitTypes
<1> QED
  BY <1>1, InitType, NextType, NextRefusals, PTL DEF Spec

----------------------------------------------------------------------------
(* The forced refreshes.                                                   *)

\* A forced load that forcedRefreshServerNames no longer knows of is too old to
\* suppress another one.
ForcedInv ==
    \A n \in Names : \/ lastForce[n] = None
                     \/ forced[n] = lastForce[n]
                     \/ clock > lastForce[n] + Timeout

\* A name for which a refresh may be forced was not loaded for within the timeout.
LEMMA MayForce ==
    ASSUME TypeInv, ForcedInv, NEW n \in Names, ~nodeHasAlreadyForcedRefresh(n)
    PROVE  lastForce[n] = None \/ clock > lastForce[n] + Timeout
<1>1. /\ clock \in Nat /\ Timeout \in Nat /\ None \notin Nat
      /\ forced[n] \in (0 .. clock) \cup {None} /\ lastForce[n] \in (0 .. clock) \cup {None}
  BY Cache, RobotInstancesAssumption DEF RobotInstancesAssumption
<1> QED
  BY <1>1 DEF ForcedInv, nodeHasAlreadyForcedRefresh

LEMMA NextForced == TypeInv /\ ForcedInv /\ [Next]_vars => ForcedInv'
<1> SUFFICES ASSUME TypeInv, ForcedInv, [Next]_vars PROVE ForcedInv'
  OBVIOUS
<1>0. /\ clock \in Nat /\ Timeout \in Nat /\ None \notin Nat
      /\ \A n \in Names : lastForce[n] \in (0 .. clock) \cup {None}
      /\ forced \in [Names -> (0 .. clock) \cup {None}]
      /\ lastForce \in [Names -> (0 .. clock) \cup {None}]
  BY Cache, RobotInstancesAssumption DEF RobotInstancesAssumption
<1>1. ASSUME NEW c \in Callers,
             \/ Begin(c) \/ robotFails(c) \/ checkExceeded(c) \/ checkWaitTime(c) \/ resetLimit(c)
             \/ setLimit(c) \/ robotAnswers(c) \/ Return(c)
      PROVE  ForcedInv'
  <2>1. UNCHANGED <<forced, lastForce, clock>>
    BY <1>1, BeginType, FailsType, CheckType, ResetType, SetType, AnswerType, ReturnType DEF world
  <2> QED
    BY <2>1 DEF ForcedInv
<1>2. ASSUME NEW c \in Callers, Acquire(c)
      PROVE  ForcedInv'
  <2>1. UNCHANGED <<lastForce, clock>>
    BY <1>2, AcquireType DEF world
  <2>2. CASE forced' = forced
    BY <2>1, <2>2 DEF ForcedInv
  <2>3. CASE forced' = [forced EXCEPT ![call[c].node] = None] /\ ~nodeHasAlreadyForcedRefresh(call[c].node)
    <3> SUFFICES ASSUME NEW n \in Names
                 PROVE  \/ lastForce[n] = None \/ forced'[n] = lastForce[n]
                        \/ clock > lastForce[n] + Timeout
      BY <2>1 DEF ForcedInv
    <3>1. CASE n = call[c].node
      BY <2>3, <3>1, MayForce
    <3>2. CASE n # call[c].node
      BY <1>0, <2>3, <3>2 DEF ForcedInv
    <3> QED
      BY <3>1, <3>2
  <2> QED
    BY <1>2, <2>2, <2>3, AcquireType
<1>3. ASSUME NEW c \in Callers, syncIfNeeded(c)
      PROVE  ForcedInv'
  <2>1. clock' = clock
    BY <1>3, SyncType DEF world
  <2>2. CASE UNCHANGED <<forced, lastForce>>
    BY <2>1, <2>2 DEF ForcedInv
  <2>3. CASE /\ forced' = [forced EXCEPT ![call[c].node] = clock]
             /\ lastForce' = [lastForce EXCEPT ![call[c].node] = clock]
    BY <1>0, <2>1, <2>3 DEF ForcedInv
  <2> QED
    BY <1>3, <2>2, <2>3, SyncType
<1>4. CASE SetCredentials
  BY <1>4 DEF SetCredentials, ForcedInv
<1>5. CASE Tick
  BY <1>0, <1>5 DEF Tick, ForcedInv
<1>6. CASE UNCHANGED vars \/ \E s \in Servers, n \in Names \cup {None} : Rename(s, n)
  BY <1>6 DEF vars, Rename, ForcedInv
<1> QED
  BY <1>1, <1>2, <1>3, <1>4, <1>5, <1>6, NextCases

\* getRobotServerByName forces at most one load of the list for a missing name
\* within the timeout of the cache, whatever the callers do and however often the
\* cache is loaded meanwhile, unless the credentials change.
THEOREM ForcedOnce == Spec => ForcedOncePerTimeout
<1> DEFINE OnlyOnce == \A c \in Callers : At(c, "lock") /\ call'[c].at = "robot" /\ call'[c].force
                          => \/ lastForce[call[c].node] = None
                             \/ clock > lastForce[call[c].node] + Timeout
<1>1. TypeInv /\ ForcedInv /\ [Next]_vars => [OnlyOnce]_vars
  <2> SUFFICES ASSUME TypeInv, ForcedInv, [Next]_vars,
                      NEW c \in Callers, call[c].at = "lock", call'[c].at = "robot", call'[c].force
               PROVE  lastForce[call[c].node] = None \/ clock > lastForce[call[c].node] + Timeout
    BY DEF At
  <2>1. Acquire(c)
    <3>1. ASSUME NEW d \in Callers,
                 \/ Begin(d) \/ robotFails(d) \/ checkExceeded(d) \/ checkWaitTime(d) \/ resetLimit(d)
                 \/ setLimit(d) \/ robotAnswers(d) \/ syncIfNeeded(d) \/ Return(d)
          PROVE  FALSE
      <4>1. Moved(d) /\ (call[d].at # "lock" \/ call'[d].at # "robot")
        BY <3>1, BeginType, FailsType, CheckType, ResetType, SetType, AnswerType, SyncType, ReturnType
      <4> QED
        BY <4>1 DEF Moved
    <3>2. ASSUME NEW d \in Callers, Acquire(d), d # c PROVE FALSE
      BY <3>2, AcquireType DEF Moved
    <3>3. CASE \/ SetCredentials \/ Tick \/ UNCHANGED vars
               \/ \E s \in Servers, n \in Names \cup {None} : Rename(s, n)
      BY <3>3 DEF SetCredentials, Tick, Rename, vars
    <3> QED
      BY <3>1, <3>2, <3>3, NextCases
  <2>2. call[c].again /\ ~nodeHasAlreadyForcedRefresh(call[c].node)
    BY <2>1, AcquireType
  <2>3. call[c].node \in Names
    BY <2>2, Cache DEF CallTypes, Shape
  <2> QED
    BY <2>2, <2>3, MayForce
<1>2. Init => ForcedInv
  BY DEF Init, ForcedInv
<1> QED
  BY <1>1, <1>2, NextForced, InitType, NextType, PTL DEF Spec, ForcedOncePerTimeout

----------------------------------------------------------------------------
(* The rate limit.                                                         *)

\* The waiting time after the last refusal is over.
Waited == clock >= refused.at + WaitTime

\* A refusal that no lookup from before has reset.
Standing == refused.n > 0 /\ ~refused.undone

\* A lookup that isExceeded lets pass, or is about to.
Passing(o) == o.at \in {"reset", "zero", "lock", "robot", "answer"} /\ o.op # "lbpass"

\* A lookup looks at the rate limit, a pass over a Load Balancer does not.
Checking(o) == o.at \in {"check", "wait", "reset", "zero"}

LimitInv ==
    /\ \A c \in Callers : Checking(call[c]) => call[c].op # "lbpass"
    /\ limit.lastChecked # None => refused.n > 0 /\ limit.lastChecked = refused.at
    /\ Standing => Waited \/ (limit.exceeded /\ limit.lastChecked = refused.at)
    /\ \A c \in Callers : call[c].seen <= refused.n
    /\ \A c \in Callers : Standing /\ Passing(call[c]) /\ call[c].seen = refused.n => Waited

LEMMA LimitFacts ==
    ASSUME TypeInv
    PROVE  /\ clock \in Nat /\ WaitTime \in Nat \ {0} /\ None \notin Nat
           /\ refused.n \in Nat /\ refused.at \in Nat /\ refused.undone \in BOOLEAN
           /\ limit.exceeded \in BOOLEAN /\ limit.lastChecked \in Nat \cup {None}
           /\ \A c \in Callers : call[c].seen \in Nat
BY Cache, RobotInstancesAssumption DEF RobotInstancesAssumption, LimitTypes, CallTypes, CallRecord

\* A step that leaves the limit alone, and lets nothing pass which was not to.
LEMMA LimitKept ==
    ASSUME TypeInv, LimitInv, NEW c \in Callers, Moved(c), UNCHANGED <<limit, refused, clock>>,
           call'[c].seen <= refused.n, Checking(call'[c]) => call'[c].op # "lbpass",
           Passing(call'[c]) /\ Standing /\ call'[c].seen = refused.n => Waited
    PROVE  LimitInv'
<1>1. UNCHANGED <<Standing, Waited>>
  BY DEF Standing, Waited
<1>2. ASSUME NEW d \in Callers
      PROVE  /\ call'[d].seen <= refused.n /\ (Checking(call'[d]) => call'[d].op # "lbpass")
             /\ Standing /\ Passing(call'[d]) /\ call'[d].seen = refused.n => Waited
  BY DEF Moved, LimitInv
<1> QED
  BY <1>1, <1>2 DEF LimitInv

LEMMA NextLimit == TypeInv /\ LimitInv /\ [Next]_vars => LimitInv'
<1> SUFFICES ASSUME TypeInv, LimitInv, [Next]_vars PROVE LimitInv'
  OBVIOUS
<1>1. ASSUME NEW c \in Callers, Acquire(c) \/ robotFails(c) \/ robotAnswers(c) \/ syncIfNeeded(c)
      PROVE  LimitInv'
  <2>1. /\ Moved(c) /\ SameOp(call[c], call'[c]) /\ UNCHANGED <<limit, refused, clock>>
        /\ call[c].at \in {"lock", "robot", "answer"} /\ ~Checking(call'[c])
    BY <1>1, AcquireType, FailsType, AnswerType, SyncType DEF world, Checking
  <2>2. call'[c].seen <= refused.n /\ (Passing(call'[c]) => Passing(call[c])) /\ call'[c].seen = call[c].seen
    BY <2>1 DEF Passing, SameOp, LimitInv
  <2> QED
    BY <2>1, <2>2, LimitKept DEF LimitInv
<1>2. ASSUME NEW c \in Callers, Begin(c) \/ Return(c)
      PROVE  LimitInv'
  <2>1. /\ Moved(c) /\ UNCHANGED <<limit, refused, clock>> 
        /\ Passing(call'[c]) => call'[c].op = "lbpass"
        /\ Checking(call'[c]) => call'[c].op # "lbpass"
    BY <1>2, BeginType, ReturnType DEF world, Passing, Checking, Lookups
  <2>2. call'[c].seen <= refused.n
    <3>1. CASE Begin(c)
      BY <3>1, BeginType, LimitFacts
    <3>2. CASE Return(c)
      <4>1. call'[c] = Idle
        BY <3>2, Cache DEF Return, CallTypes
      <4> QED
        BY <4>1, LimitFacts DEF Idle
    <3> QED
      BY <1>2, <3>1, <3>2
  <2> QED
    BY <2>1, <2>2, LimitKept DEF Passing
<1>3. ASSUME NEW c \in Callers, checkExceeded(c)
      PROVE  LimitInv'
  <2>1. Moved(c) /\ SameOp(call[c], call'[c]) /\ UNCHANGED <<limit, refused, clock>>
    BY <1>3, CheckType DEF world
  <2>2. call'[c].at = IF limit.exceeded THEN "wait" ELSE "lock"
    BY <1>3, Cache DEF checkExceeded, Goto, CallTypes, CallRecord
  <2>3. Passing(call'[c]) /\ Standing => Waited
    BY <2>2 DEF Passing, LimitInv
  <2>4. call'[c].seen <= refused.n /\ call'[c].op # "lbpass"
    BY <1>3, <2>1 DEF SameOp, LimitInv, checkExceeded, At, Checking
  <2> QED
    BY <2>1, <2>3, <2>4, LimitKept
<1>4. ASSUME NEW c \in Callers, checkWaitTime(c)
      PROVE  LimitInv'
  <2>1. Moved(c) /\ SameOp(call[c], call'[c]) /\ UNCHANGED <<limit, refused, clock>>
    BY <1>4, CheckType DEF world
  <2>2. WaitOver \/ call'[c].at = "done"
    <3>1. CASE ~WaitOver
      BY <1>4, <3>1, MoveEnd, Errors, Cache DEF checkWaitTime, At
    <3> QED
      BY <3>1
  <2>3. Passing(call'[c]) /\ Standing => Waited
    BY <2>2, LimitFacts DEF Passing, WaitOver, LimitInv, Waited
  <2>4. call'[c].seen <= refused.n /\ call'[c].op # "lbpass"
    BY <1>4, <2>1 DEF SameOp, LimitInv, checkWaitTime, At, Checking
  <2> QED
    BY <2>1, <2>3, <2>4, LimitKept
<1>5. ASSUME NEW c \in Callers, resetLimit(c)
      PROVE  LimitInv'
  <2>1. /\ Moved(c) /\ SameOp(call[c], call'[c]) /\ clock' = clock
        /\ call[c].at \in {"reset", "zero"} /\ call'[c].at \in {"zero", "lock"}
        /\ refused'.n = refused.n /\ refused'.at = refused.at
        /\ refused'.undone = (refused.undone \/ call[c].seen < refused.n)
    BY <1>5, ResetType DEF world
  <2>2. limit'.lastChecked \in {limit.lastChecked, None}
    BY <1>5, Cache DEF resetLimit, LimitTypes
  <2>3. call[c].seen <= refused.n /\ call[c].seen \in Nat /\ call[c].op # "lbpass"
    BY <2>1, LimitFacts DEF LimitInv, Checking
  <2>4. Waited' = Waited
    BY <2>1 DEF Waited
  <2>5. Standing' => ~refused.undone /\ ~(call[c].seen < refused.n) /\ refused.n > 0
    BY <2>1 DEF Standing
  <2>6. Standing' => Standing /\ call[c].seen = refused.n
    BY <2>3, <2>5, LimitFacts DEF Standing
  <2>7. Standing' => Waited
    BY <2>1, <2>3, <2>6 DEF LimitInv, Passing
  <2>8. ASSUME NEW d \in Callers
        PROVE  call'[d].seen <= refused.n /\ (Checking(call'[d]) => call'[d].op # "lbpass")
    BY <2>1, <2>3 DEF Moved, SameOp, LimitInv
  <2> QED
    BY <2>1, <2>2, <2>4, <2>7, <2>8 DEF LimitInv
<1>6. ASSUME NEW c \in Callers, setLimit(c)
      PROVE  LimitInv'
  <2>1. Moved(c) /\ SameOp(call[c], call'[c]) /\ clock' = clock
    BY <1>6, SetType DEF world
  <2>2. ASSUME NEW d \in Callers
        PROVE  /\ call'[d].seen = call[d].seen /\ call'[d].op = call[d].op
               /\ Passing(call'[d]) => Passing(call[d])
               /\ Checking(call'[d]) => Checking(call[d])
    <3>1. ~Passing(call'[c]) /\ ~Checking(call'[c])
      BY <1>6, SetType DEF Passing, Checking
    <3> QED
      BY <2>1, <3>1 DEF Moved, SameOp
  <2>3. CASE refused' = refused /\ limit'.exceeded = TRUE /\ limit'.lastChecked = limit.lastChecked
    <3>1. UNCHANGED <<Standing, Waited>>
      BY <2>1, <2>3 DEF Standing, Waited
    <3> QED
      BY <2>2, <2>3, <3>1 DEF LimitInv
  <2>4. CASE /\ refused'.n = refused.n + 1 /\ refused'.at = clock
             /\ refused'.undone = ~limit.exceeded
             /\ limit'.exceeded = limit.exceeded /\ limit'.lastChecked = clock
    <3>1. Standing' => limit.exceeded
      BY <2>4 DEF Standing
    <3>2. \A d \in Callers : call'[d].seen <= refused.n /\ call'[d].seen \in Nat
      BY <2>2, LimitFacts DEF LimitInv
    <3>3. \A d \in Callers : call'[d].seen <= refused'.n /\ call'[d].seen # refused'.n
      BY <2>4, <3>2, LimitFacts
    <3>4. refused'.n > 0
      BY <2>4, LimitFacts
    <3> QED
      BY <2>2, <2>4, <3>1, <3>3, <3>4 DEF LimitInv
  <2> QED
    BY <1>6, <2>3, <2>4, SetType
<1>7. CASE Tick
  <2>1. clock' = clock + 1 /\ UNCHANGED <<limit, refused, call>>
    BY <1>7 DEF Tick
  <2>2. UNCHANGED Standing /\ (Waited => Waited')
    BY <2>1, LimitFacts DEF Standing, Waited
  <2> QED
    BY <2>1, <2>2 DEF LimitInv
<1>8. CASE SetCredentials \/ UNCHANGED vars \/ \E s \in Servers, n \in Names \cup {None} : Rename(s, n)
  <2>1. UNCHANGED <<limit, refused, call, clock>>
    BY <1>8 DEF SetCredentials, vars, Rename
  <2> QED
    BY <2>1 DEF LimitInv, Standing, Waited, Passing, Checking
<1> QED
  BY <1>1, <1>2, <1>3, <1>4, <1>5, <1>6, <1>7, <1>8, NextCases

\* A lookup that begins within the waiting time after a refusal of Robot does not
\* call Robot, unless a lookup that began before undid the refusal; and a lookup is
\* refused only within the waiting time, for any interleaving of the reads and
\* writes of isExceeded and set.
THEOREM LimitIsRespected == Spec => RateLimitRespected
<1> DEFINE Respected ==
             \A c \in Callers :
                /\ /\ At(c, "lock") /\ call'[c].at = "robot" /\ call[c].op # "lbpass"
                   /\ refused.n > 0 /\ call[c].seen = refused.n
                   => refused.undone \/ clock >= refused.at + WaitTime
                /\ At(c, "wait") /\ call'[c].at = "done"
                   => refused.n > 0 /\ clock < refused.at + WaitTime
<1>1. TypeInv /\ LimitInv /\ [Next]_vars => [Respected]_vars
  <2> SUFFICES ASSUME TypeInv, LimitInv, [Next]_vars PROVE Respected
    OBVIOUS
  <2> SUFFICES ASSUME NEW c \in Callers
               PROVE  /\ /\ call[c].at = "lock" /\ call[c].op # "lbpass"
                         /\ refused.n > 0 /\ call[c].seen = refused.n
                         => refused.undone \/ clock >= refused.at + WaitTime
                      /\ call[c].at = "wait" /\ call'[c].at = "done"
                         => refused.n > 0 /\ clock < refused.at + WaitTime
    BY DEF At
  <2>1. call[c].at = "lock" /\ call[c].op # "lbpass" /\ refused.n > 0 /\ call[c].seen = refused.n
           => refused.undone \/ clock >= refused.at + WaitTime
    BY LimitFacts DEF LimitInv, Standing, Passing, Waited
  <2>2. ASSUME call[c].at = "wait", call'[c].at = "done"
        PROVE  refused.n > 0 /\ clock < refused.at + WaitTime
    <3>1. checkWaitTime(c)
      <4>1. ASSUME NEW d \in Callers,
                   \/ Begin(d) \/ robotFails(d) \/ Acquire(d) \/ resetLimit(d) \/ setLimit(d)
                   \/ checkExceeded(d) \/ robotAnswers(d) \/ syncIfNeeded(d) \/ Return(d)
            PROVE  FALSE
        <5>1. Moved(d) /\ (call[d].at # "wait" \/ call'[d].at # "done")
          <6>1. CASE checkExceeded(d)
            BY <6>1, CheckType DEF checkExceeded, At
          <6> QED
            BY <4>1, <6>1, BeginType, FailsType, AcquireType, ResetType, SetType, AnswerType, SyncType,
               ReturnType
        <5> QED
          BY <2>2, <5>1 DEF Moved
      <4>2. ASSUME NEW d \in Callers, checkWaitTime(d), d # c PROVE FALSE
        BY <2>2, <4>2, CheckType DEF Moved
      <4>3. CASE \/ SetCredentials \/ Tick \/ UNCHANGED vars
                 \/ \E s \in Servers, n \in Names \cup {None} : Rename(s, n)
        BY <2>2, <4>3 DEF SetCredentials, Tick, Rename, vars
      <4> QED
        BY <4>1, <4>2, <4>3, NextCases
    <3>2. ~WaitOver
      <4>1. ASSUME WaitOver PROVE call'[c].at = "reset"
        BY <2>2, <3>1, <4>1, MoveAt, Cache DEF checkWaitTime, Stages
      <4> QED
        BY <2>2, <4>1
    <3> QED
      BY <3>2, LimitFacts DEF WaitOver, LimitInv
  <2> QED
    BY <2>1, <2>2
<1>2. Init => LimitInv
  <2> SUFFICES ASSUME Init PROVE LimitInv
    OBVIOUS
  <2>1. limit.lastChecked = None /\ refused.n = 0 /\ \A c \in Callers : call[c] = Idle
    BY DEF Init
  <2> QED
    BY <2>1 DEF LimitInv, Standing, Checking, Passing, Idle
<1> QED
  BY <1>1, <1>2, NextLimit, InitType, NextType, PTL DEF Spec, RateLimitRespected

----------------------------------------------------------------------------
(* The credentials.                                                        *)

\* What is cached, and what Robot has answered but is not cached yet, was read with
\* the credentials as they are: they change only while nobody holds the mutex.
GenInv ==
    /\ m # None => m.list.gen = gen
    /\ \A c \in Callers : call[c].at = "answer" => call[c].answer.gen = gen
    /\ \A c \in Callers : call[c].at # "idle" => call[c].gen <= gen
    /\ NoListOfOldCredentials

\* The operation of c, as GenInv sees it.
GenOf(o) ==
    /\ o.at = "answer" => o.answer.gen = gen
    /\ o.at # "idle" => o.gen <= gen
    /\ o.at = "done" /\ o.res.ans \in {"found", "none", "list"} => o.res.from >= o.gen

LEMMA GenStep ==
    ASSUME GenInv, NEW c \in Callers, Moved(c), gen' = gen,
           m' # None => m'.list.gen = gen, GenOf(call'[c])
    PROVE  GenInv'
BY DEF GenInv, GenOf, Moved, NoListOfOldCredentials, At

LEMMA NextGen == TypeInv /\ GenInv /\ [Next]_vars => GenInv'
<1> SUFFICES ASSUME TypeInv, GenInv, [Next]_vars PROVE GenInv'
  OBVIOUS
<1>0. gen \in Nat /\ \A c \in Callers : call[c] \in CallRecord /\ call[c].gen \in Nat
  BY Cache DEF CallTypes, CallRecord
<1>1. ASSUME NEW c \in Callers, checkExceeded(c) \/ checkWaitTime(c) \/ resetLimit(c) \/ setLimit(c) \/ robotFails(c)
      PROVE  GenInv'
  <2>1. /\ Moved(c) /\ SameOp(call[c], call'[c]) /\ gen' = gen /\ m' = m /\ call[c].at # "idle"
        /\ call'[c].at # "answer"
        /\ call'[c].at = "done" => call'[c].res = [ans |-> "limited"] \/ call'[c].res = ErrorResult
    BY <1>1, CheckType, ResetType, SetType, FailsType DEF world
  <2>2. GenOf(call'[c])
    BY <2>1 DEF GenOf, GenInv, SameOp, ErrorResult
  <2> QED
    BY <2>1, <2>2, GenStep DEF GenInv
<1>2. ASSUME NEW c \in Callers, Begin(c) \/ Return(c)
      PROVE  GenInv'
  <2>1. /\ Moved(c) /\ gen' = gen /\ m' = m /\ call'[c].at \in {"check", "lock", "idle"}
        /\ call'[c].at # "idle" => call'[c].gen = gen
    BY <1>2, BeginType, ReturnType DEF world
  <2>2. GenOf(call'[c])
    BY <1>0, <2>1 DEF GenOf
  <2> QED
    BY <2>1, <2>2, GenStep DEF GenInv
<1>3. ASSUME NEW c \in Callers, robotAnswers(c)
      PROVE  GenInv'
  <2>1. /\ Moved(c) /\ SameOp(call[c], call'[c]) /\ gen' = gen /\ m' = m /\ call[c].at # "idle"
        /\ call'[c].at = "answer" /\ call'[c].answer = [of |-> servers, gen |-> gen]
    BY <1>3, AnswerType DEF world
  <2>2. GenOf(call'[c])
    BY <2>1 DEF GenOf, GenInv, SameOp
  <2> QED
    BY <2>1, <2>2, GenStep DEF GenInv
<1>4. ASSUME NEW c \in Callers, NEW a \in Answers, a.gen = gen,
             Moved(c), SameOp(call[c], call'[c]), gen' = gen, call[c].at # "idle",
             m' # None => m'.list.gen = gen,
             \/ call'[c].at \in {"lock", "robot"}
             \/ call'[c].at = "done" /\ call'[c].res = Result(call[c], a)
      PROVE  GenInv'
  <2>1. Result(call[c], a).from = gen
    BY <1>0, <1>4, ResultType
  <2>2. GenOf(call'[c])
    BY <1>0, <1>4, <2>1 DEF GenOf, GenInv, SameOp
  <2> QED
    BY <1>4, <2>2, GenStep
<1>5. ASSUME NEW c \in Callers, Acquire(c)
      PROVE  GenInv'
  <2>1. CASE call'[c].at = "robot" /\ m' \in {m, None}
    <3>1. Moved(c) /\ SameOp(call[c], call'[c]) /\ gen' = gen /\ call[c].at = "lock"
      BY <1>5, AcquireType DEF world
    <3>2. GenOf(call'[c])
      BY <2>1, <3>1 DEF GenOf, GenInv, SameOp
    <3> QED
      BY <2>1, <3>1, <3>2, GenStep DEF GenInv
  <2>2. CASE /\ m # None /\ m' = m /\ m.list \in Answers
             /\ \/ call'[c].at = "lock"
                \/ call'[c].at = "done" /\ call'[c].res = Result(call[c], m.list)
    <3>1. Moved(c) /\ SameOp(call[c], call'[c]) /\ gen' = gen /\ call[c].at = "lock"
      BY <1>5, AcquireType DEF world
    <3> QED
      BY <1>4, <2>2, <3>1 DEF GenInv
  <2> QED
    BY <1>5, <2>1, <2>2, AcquireType
<1>6. ASSUME NEW c \in Callers, syncIfNeeded(c)
      PROVE  GenInv'
  <2>1. /\ Moved(c) /\ SameOp(call[c], call'[c]) /\ gen' = gen /\ call[c].at = "answer"
        /\ call[c].answer \in Answers /\ m' = [list |-> call[c].answer, at |-> clock]
        /\ \/ call'[c].at = "lock"
           \/ call'[c].at = "done" /\ call'[c].res = Result(call[c], call[c].answer)
    BY <1>6, SyncType DEF world
  <2>2. call[c].answer.gen = gen /\ m'.list.gen = gen
    BY <2>1 DEF GenInv
  <2> QED
    BY <1>4, <2>1, <2>2
<1>7. CASE SetCredentials
  <2>1. m' = None /\ gen' = gen + 1 /\ call' = call /\ holder = None
    BY <1>7 DEF SetCredentials
  <2>2. \A c \in Callers : call[c].at # "answer"
    BY <2>1, Cache DEF TypeInv, Mutex
  <2>3. \A c \in Callers : call[c].at # "idle" => call[c].gen <= gen'
    BY <1>0, <2>1 DEF GenInv
  <2> QED
    BY <2>1, <2>2, <2>3 DEF GenInv, NoListOfOldCredentials, At
<1>8. CASE Tick \/ UNCHANGED vars \/ \E s \in Servers, n \in Names \cup {None} : Rename(s, n)
  BY <1>8 DEF Tick, vars, Rename, GenInv, NoListOfOldCredentials, At
<1> QED
  BY <1>1, <1>2, <1>3, <1>5, <1>6, <1>7, <1>8, NextCases

\* No operation that starts after SetCredentials gets a list of servers that was
\* loaded with the old credentials, whoever was waiting for Robot meanwhile.
THEOREM OldListsAreDropped == Spec => []NoListOfOldCredentials
<1>1. Init => GenInv
  <2> SUFFICES ASSUME Init PROVE GenInv
    OBVIOUS
  <2>1. m = None /\ \A c \in Callers : call[c].at = "idle"
    BY IdleType DEF Init
  <2> QED
    BY <2>1 DEF GenInv, NoListOfOldCredentials, At
<1>2. GenInv => NoListOfOldCredentials
  BY DEF GenInv
<1> QED
  BY <1>1, <1>2, NextGen, InitType, NextType, PTL DEF Spec

----------------------------------------------------------------------------
(* The Nodes.                                                              *)

\* A provider ID of the Node n was right when it was read, and is not newer than
\* the list S of Robot, the cached list M and any list on its way in the
\* operations C.
Known(p, n, S, M, C) ==
    /\ p.ver <= S[p.id].ver
    /\ p.ver = S[p.id].ver => S[p.id].name = n
    /\ M # None => p.ver <= M.list.of[p.id].ver
    /\ \A c \in Callers : C[c].at = "answer" => p.ver <= C[c].answer.of[p.id].ver

\* A list L that was read from Robot, at some time before S.
Faithful(L, S) ==
    \A s \in Servers : L[s].ver <= S[s].ver /\ (L[s].ver = S[s].ver => L[s].name = S[s].name)

\* What is known of the operation o.
KeptOf(o, S, M, C) ==
    /\ o.at # "idle" /\ o.pid # None => Known(o.pid, o.node, S, M, C)
    /\ o.at = "done" /\ o.res.ans = "found" => Known(o.res.pid, o.node, S, M, C)
    /\ o.at = "answer" => Faithful(o.answer.of, S)
    /\ o.at = "done" /\ o.op = "exists" /\ o.res.ans = "none" /\ o.pid # None
          => S[o.pid.id].ver # o.pid.ver

KeptInv ==
    /\ \A n \in Names : nodes[n] # None => Known(nodes[n], n, servers, m, call)
    /\ m # None => Faithful(m.list.of, servers)
    /\ \A c \in Callers : KeptOf(call[c], servers, m, call)

\* What getRobotServerByID and getRobotServerByName find and miss.
LEMMA ResultMeaning ==
    ASSUME NEW o \in CallRecord, NEW a \in Answers
    PROVE  /\ Result(o, a).ans = "found" =>
                 /\ Result(o, a).pid.id \in Servers
                 /\ a.of[Result(o, a).pid.id].name = o.node
                 /\ Result(o, a).pid.ver = a.of[Result(o, a).pid.id].ver
           /\ Result(o, a).ans = "none" /\ o.pid # None => a.of[o.pid.id].name # o.node
<1> DEFINE found == IF o.pid # None THEN getRobotServerByID(o, a.of) ELSE getRobotServerByName(o, a.of)
           s == CHOOSE s \in found : TRUE
           f == [ans |-> "found", from |-> a.gen, pid |-> [id |-> s, ver |-> a.of[s].ver]]
<1>1. Result(o, a) = IF o.op = "lbpass" THEN [ans |-> "list", from |-> a.gen]
                     ELSE IF found = {} THEN [ans |-> "none", from |-> a.gen] ELSE f
  BY DEF Result
<1>2. \A t \in found : t \in Servers /\ a.of[t].name = o.node
  BY DEF getRobotServerByID, getRobotServerByName, CallRecord, ProviderIDs
<1>3. found = {} /\ o.pid # None => a.of[o.pid.id].name # o.node
  BY DEF getRobotServerByID
<1>4. found # {} => s \in found
  OBVIOUS
<1> HIDE DEF found, s
<1>5. Result(o, a).ans = "found" => found # {} /\ Result(o, a).pid = [id |-> s, ver |-> a.of[s].ver]
  BY <1>1
<1>6. Result(o, a).ans = "none" => found = {}
  BY <1>1
<1> QED
  BY <1>2, <1>3, <1>4, <1>5, <1>6

\* The state after a step in which Robot does not change: the nodes and the
\* operations of others are kept if what is known stays known.
LEMMA KeptStep ==
    ASSUME TypeInv, KeptInv, NEW c \in Callers, Moved(c), servers' = servers,
           nodes' = nodes,
           m' # None => Faithful(m'.list.of, servers),
           \A p, n : Known(p, n, servers, m, call) => Known(p, n, servers, m', call'),
           KeptOf(call'[c], servers, m', call')
    PROVE  KeptInv'
<1>1. \A n \in Names : nodes'[n] # None => Known(nodes'[n], n, servers', m', call')
  BY DEF KeptInv
<1>2. ASSUME NEW d \in Callers PROVE KeptOf(call'[d], servers', m', call')
  <2>1. CASE d # c
    BY <2>1 DEF KeptInv, KeptOf, Moved
  <2> QED
    BY <2>1
<1> QED
  BY <1>1, <1>2 DEF KeptInv

\* A result taken from a list that is in the cache.
LEMMA ResultKept ==
    ASSUME TypeInv, KeptInv, NEW c \in Callers, NEW a \in Answers, NEW N, NEW D,
           call[c].at # "idle", Faithful(a.of, servers),
           call[c].pid # None => call[c].pid.ver <= a.of[call[c].pid.id].ver,
           N # None => N.list = a,
           \A d \in Callers : D[d].at # "answer",
           call[c].pid # None => Known(call[c].pid, call[c].node, servers, N, D),
           SameOp(call[c], D[c]), D[c].at = "done", D[c].res = Result(call[c], a)
    PROVE  KeptOf(D[c], servers, N, D)
<1>0. /\ call[c] \in CallRecord /\ a.of \in Lists /\ servers \in Lists
      /\ call[c].pid \in ProviderIDs \cup {None}
  BY Cache DEF CallTypes, CallRecord, Answers, TypeInv, StateTypes
<1>1. ASSUME D[c].res.ans = "found"
      PROVE  Known(D[c].res.pid, D[c].node, servers, N, D)
  <2> DEFINE p == Result(call[c], a).pid
  <2>1. p.id \in Servers /\ a.of[p.id].name = call[c].node /\ p.ver = a.of[p.id].ver
    BY <1>0, <1>1, ResultMeaning
  <2>2. a.of[p.id].ver \in Nat /\ servers[p.id].ver \in Nat
    BY <1>0, <2>1 DEF Lists
  <2> HIDE DEF p
  <2>3. /\ p.ver <= servers[p.id].ver
        /\ p.ver = servers[p.id].ver => servers[p.id].name = call[c].node
    BY <2>1, <2>2 DEF Faithful
  <2>4. N # None => p.ver <= N.list.of[p.id].ver
    BY <2>1, <2>2
  <2>5. Known(p, call[c].node, servers, N, D)
    BY <2>3, <2>4 DEF Known
  <2> QED
    BY <2>5 DEF p, SameOp
<1>2. ASSUME D[c].res.ans = "none", call[c].pid # None
      PROVE  servers[call[c].pid.id].ver # call[c].pid.ver
  <2> DEFINE p == call[c].pid
  <2>1. p.id \in Servers /\ p.ver \in Nat
    BY <1>0, <1>2 DEF ProviderIDs
  <2>2. a.of[p.id].name # call[c].node
    BY <1>0, <1>2, ResultMeaning
  <2>3. a.of[p.id].ver \in Nat /\ servers[p.id].ver \in Nat
    BY <1>0, <2>1 DEF Lists
  <2>4. p.ver <= a.of[p.id].ver /\ a.of[p.id].ver <= servers[p.id].ver
    BY <1>2, <2>1 DEF Faithful
  <2>5. ASSUME servers[p.id].ver = p.ver PROVE FALSE
    <3>1. a.of[p.id].ver = servers[p.id].ver
      BY <2>1, <2>3, <2>4, <2>5
    <3>2. a.of[p.id].name = servers[p.id].name
      BY <2>1, <3>1 DEF Faithful
    <3>3. servers[p.id].name = call[c].node
      BY <1>2, <2>5 DEF Known
    <3> QED
      BY <2>2, <3>2, <3>3
  <2> QED
    BY <2>5
<1> QED
  BY <1>1, <1>2 DEF KeptOf, SameOp

LEMMA NextKept == TypeInv /\ KeptInv /\ [Next]_vars => KeptInv'
<1> SUFFICES ASSUME TypeInv, KeptInv, [Next]_vars PROVE KeptInv'
  OBVIOUS
<1>1. ASSUME NEW c \in Callers, Moved(c), servers' = servers, nodes' = nodes, m' \in {m, None},
             SameOp(call[c], call'[c]), call[c].at # "idle", call'[c].at # "answer",
             call'[c].at = "done" => call'[c].res.ans \notin {"found", "none"}
      PROVE  KeptInv'
  <2>1. \A p, n : Known(p, n, servers, m, call) => Known(p, n, servers, m', call')
    <3> TAKE p, n
    <3> SUFFICES ASSUME Known(p, n, servers, m, call) PROVE Known(p, n, servers, m', call')
      OBVIOUS
    <3>1. m' # None => p.ver <= m'.list.of[p.id].ver
      BY <1>1 DEF Known
    <3> QED
      BY <1>1, <3>1 DEF Known, Moved
  <2>2. KeptOf(call'[c], servers, m', call')
    BY <1>1, <2>1 DEF KeptInv, KeptOf, SameOp
  <2>3. m' # None => Faithful(m'.list.of, servers)
    BY <1>1 DEF KeptInv
  <2> QED
    BY <1>1, <2>1, <2>2, <2>3, KeptStep
<1>2. ASSUME NEW c \in Callers, checkExceeded(c) \/ checkWaitTime(c) \/ resetLimit(c) \/ setLimit(c) \/ robotFails(c)
      PROVE  KeptInv'
  <2>1. /\ Moved(c) /\ SameOp(call[c], call'[c]) /\ servers' = servers /\ nodes' = nodes /\ m' = m
        /\ call[c].at # "idle" /\ call'[c].at # "answer"
        /\ call'[c].at = "done" => call'[c].res = [ans |-> "limited"] \/ call'[c].res = ErrorResult
    BY <1>2, CheckType, ResetType, SetType, FailsType DEF world
  <2>2. call'[c].at = "done" => call'[c].res.ans \notin {"found", "none"}
    BY <2>1 DEF ErrorResult
  <2> QED
    BY <1>1, <2>1, <2>2
<1>3. ASSUME NEW c \in Callers, Begin(c)
      PROVE  KeptInv'
  <2>1. /\ Moved(c) /\ servers' = servers /\ nodes' = nodes /\ m' = m
        /\ call'[c].at \in {"check", "lock"}
        /\ call'[c].pid # None => call'[c].node \in Names /\ call'[c].pid = nodes[call'[c].node]
    BY <1>3, BeginType DEF world
  <2>2. \A p, n : Known(p, n, servers, m, call) => Known(p, n, servers, m', call')
    BY <2>1 DEF Known, Moved
  <2>3. KeptOf(call'[c], servers, m', call')
    BY <2>1, <2>2 DEF KeptOf, KeptInv
  <2> QED
    BY <2>1, <2>2, <2>3, KeptStep DEF KeptInv
<1>4. ASSUME NEW c \in Callers, Return(c)
      PROVE  KeptInv'
  <2>1. /\ Moved(c) /\ servers' = servers /\ m' = m
        /\ call[c].at = "done" /\ call'[c].at = "idle"
    BY <1>4, ReturnType DEF world
  <2>2. \A p, n : Known(p, n, servers, m, call) => Known(p, n, servers, m', call')
    BY <2>1 DEF Known, Moved
  <2>3. ASSUME NEW n \in Names, nodes'[n] # None
        PROVE  Known(nodes'[n], n, servers, m, call)
    <3>1. CASE nodes'[n] = nodes[n]
      BY <2>3, <3>1 DEF KeptInv
    <3>2. CASE nodes' = [nodes EXCEPT ![call[c].node] = None]
      BY <2>3, <3>2, Cache DEF KeptInv
    <3>3. CASE call[c].res.ans = "found" /\ nodes' = [nodes EXCEPT ![call[c].node] = call[c].res.pid]
      <4>1. CASE n = call[c].node
        BY <2>1, <3>3, <4>1, Cache DEF KeptInv, KeptOf
      <4> QED
        BY <3>1, <3>3, <4>1, Cache
    <3> QED
      BY <1>4, <3>1, <3>2, <3>3, ReturnType
  <2>4. ASSUME NEW d \in Callers PROVE KeptOf(call'[d], servers, m', call')
    <3>1. CASE d = c
      BY <2>1, <3>1 DEF KeptOf
    <3>2. CASE d # c
      BY <2>1, <2>2, <3>2 DEF KeptInv, KeptOf, Moved
    <3> QED
      BY <3>1, <3>2
  <2> QED
    BY <2>1, <2>2, <2>3, <2>4 DEF KeptInv
<1>5. ASSUME NEW c \in Callers, robotAnswers(c)
      PROVE  KeptInv'
  <2>1. /\ Moved(c) /\ SameOp(call[c], call'[c]) /\ servers' = servers /\ nodes' = nodes /\ m' = m
        /\ call[c].at # "idle" /\ call'[c].at = "answer"
        /\ call'[c].answer = [of |-> servers, gen |-> gen]
    BY <1>5, AnswerType DEF world
  <2>2. \A p, n : Known(p, n, servers, m, call) => Known(p, n, servers, m', call')
    <3> TAKE p, n
    <3> SUFFICES ASSUME Known(p, n, servers, m, call) PROVE Known(p, n, servers, m', call')
      OBVIOUS
    <3>1. p.ver <= call'[c].answer.of[p.id].ver
      BY <2>1 DEF Known
    <3>2. m' # None => p.ver <= m'.list.of[p.id].ver
      BY <2>1 DEF Known
    <3> QED
      BY <2>1, <3>1, <3>2 DEF Known, Moved
  <2>3. Faithful(call'[c].answer.of, servers)
    <3>1. \A s \in Servers : servers[s].ver \in Nat
      BY DEF TypeInv, StateTypes, Lists
    <3> QED
      BY <2>1, <3>1 DEF Faithful
  <2>4. KeptOf(call'[c], servers, m', call')
    BY <2>1, <2>2, <2>3 DEF KeptOf, KeptInv, SameOp
  <2> QED
    BY <2>1, <2>2, <2>4, KeptStep DEF KeptInv
<1>6. ASSUME NEW c \in Callers, syncIfNeeded(c)
      PROVE  KeptInv'
  <2>1. /\ TypeInv' /\ Moved(c) /\ SameOp(call[c], call'[c]) /\ servers' = servers /\ nodes' = nodes
        /\ call[c].at = "answer" /\ holder' = None /\ call[c].answer \in Answers
        /\ m' = [list |-> call[c].answer, at |-> clock]
        /\ \/ call'[c].at = "lock"
           \/ call'[c].at = "done" /\ call'[c].res = Result(call[c], call[c].answer)
    BY <1>6, SyncType DEF world
  <2>2. m'.list = call[c].answer /\ Faithful(call[c].answer.of, servers)
    BY <2>1 DEF KeptInv, KeptOf
  <2>3. \A p, n : Known(p, n, servers, m, call) => Known(p, n, servers, m', call')
    <3> TAKE p, n
    <3> SUFFICES ASSUME Known(p, n, servers, m, call) PROVE Known(p, n, servers, m', call')
      OBVIOUS
    <3>1. p.ver <= m'.list.of[p.id].ver
      BY <2>1, <2>2 DEF Known
    <3> QED
      BY <2>1, <3>1 DEF Known, Moved
  <2>4. call[c].pid # None => /\ Known(call[c].pid, call[c].node, servers, m, call)
                              /\ Known(call[c].pid, call[c].node, servers, m', call')
                              /\ call[c].pid.ver <= call[c].answer.of[call[c].pid.id].ver
    BY <2>1, <2>3 DEF KeptInv, KeptOf, Known
  <2>5. \A d \in Callers : call'[d].at # "answer"
    BY <2>1, Cache DEF TypeInv, Mutex
  <2>6. KeptOf(call'[c], servers, m', call')
    <3>1. CASE call'[c].at = "lock"
      BY <2>1, <2>4, <3>1 DEF KeptOf, SameOp
    <3>2. CASE call'[c].at = "done" /\ call'[c].res = Result(call[c], call[c].answer)
      BY <2>1, <2>2, <2>4, <2>5, <3>2, ResultKept
    <3> QED
      BY <2>1, <3>1, <3>2
  <2> QED
    BY <2>1, <2>2, <2>3, <2>6, KeptStep
<1>7. ASSUME NEW c \in Callers, Acquire(c)
      PROVE  KeptInv'
  <2>1. /\ TypeInv' /\ Moved(c) /\ SameOp(call[c], call'[c]) /\ servers' = servers /\ nodes' = nodes
        /\ call[c].at = "lock" /\ holder = None
    BY <1>7, AcquireType DEF world
  <2>2. CASE call'[c].at = "robot" /\ m' \in {m, None}
    BY <1>1, <2>1, <2>2
  <2>3. CASE /\ m # None /\ m' = m /\ m.list \in Answers /\ holder' = None
             /\ \/ call'[c].at = "lock"
                \/ call'[c].at = "done" /\ call'[c].res = Result(call[c], m.list)
    <3>1. CASE call'[c].at = "lock"
      BY <1>1, <2>1, <2>3, <3>1
    <3>2. CASE call'[c].at = "done" /\ call'[c].res = Result(call[c], m.list)
      <4>1. \A d \in Callers : call'[d].at # "answer"
        BY <2>1, <2>3, Cache DEF TypeInv, Mutex
      <4>2. \A p, n : Known(p, n, servers, m, call) => Known(p, n, servers, m', call')
        BY <2>3, <4>1 DEF Known
      <4>3. Faithful(m.list.of, servers)
        BY <2>3 DEF KeptInv
      <4>4. call[c].pid # None => /\ Known(call[c].pid, call[c].node, servers, m, call)
                                  /\ Known(call[c].pid, call[c].node, servers, m', call')
                                  /\ call[c].pid.ver <= m.list.of[call[c].pid.id].ver
        BY <2>1, <2>3, <4>2 DEF KeptInv, KeptOf, Known
      <4>5. KeptOf(call'[c], servers, m', call')
        BY <2>1, <2>3, <3>2, <4>1, <4>3, <4>4, ResultKept
      <4> QED
        BY <2>1, <2>3, <4>2, <4>3, <4>5, KeptStep
    <3> QED
      BY <2>3, <3>1, <3>2
  <2> QED
    BY <1>7, <2>2, <2>3, AcquireType
<1>8. CASE SetCredentials
  <2>1. m' = None /\ UNCHANGED <<servers, nodes, call>>
    BY <1>8 DEF SetCredentials
  <2>2. \A p, n : Known(p, n, servers, m, call) => Known(p, n, servers', m', call')
    BY <2>1 DEF Known
  <2> QED
    BY <2>1, <2>2 DEF KeptInv, KeptOf
<1>9. CASE Tick \/ UNCHANGED vars
  <2>1. UNCHANGED <<servers, nodes, call, m>>
    BY <1>9 DEF Tick, vars
  <2> QED
    BY <2>1 DEF KeptInv
<1>10. ASSUME NEW s \in Servers, NEW n \in Names \cup {None}, Rename(s, n)
       PROVE  KeptInv'
  <2>1. /\ servers \in Lists /\ servers' = [servers EXCEPT ![s] = [name |-> n, ver |-> servers[s].ver + 1]]
        /\ UNCHANGED <<nodes, m, call>>
    BY <1>10 DEF Rename, TypeInv, StateTypes
  <2>2. ASSUME NEW L \in Lists, Faithful(L, servers) PROVE Faithful(L, servers')
    <3> SUFFICES ASSUME NEW t \in Servers
                 PROVE  L[t].ver <= servers'[t].ver /\ (L[t].ver = servers'[t].ver => L[t].name = servers'[t].name)
      BY DEF Faithful
    <3>1. L[t].ver \in Nat /\ servers[t].ver \in Nat /\ L[t].ver <= servers[t].ver
      BY <2>1, <2>2 DEF Faithful, Lists
    <3>2. CASE t = s
      BY <2>1, <3>1, <3>2 DEF Lists
    <3>3. CASE t # s
      BY <2>1, <2>2, <3>3 DEF Faithful, Lists
    <3> QED
      BY <3>2, <3>3
  <2>3. ASSUME NEW p \in ProviderIDs, NEW k, Known(p, k, servers, m, call)
        PROVE  /\ Known(p, k, servers', m', call')
               /\ servers[p.id].ver # p.ver => servers'[p.id].ver # p.ver
    <3>1. p.id \in Servers /\ p.ver \in Nat /\ servers[p.id].ver \in Nat /\ p.ver <= servers[p.id].ver
      BY <2>1, <2>3 DEF Known, Lists, ProviderIDs
    <3>2. CASE p.id = s
      <4>1. servers'[p.id].ver = servers[p.id].ver + 1
        BY <2>1, <3>1, <3>2 DEF Lists
      <4>2. p.ver <= servers'[p.id].ver /\ p.ver # servers'[p.id].ver
        BY <3>1, <4>1
      <4> QED
        BY <2>1, <2>3, <4>2 DEF Known
    <3>3. CASE p.id # s
      <4>1. servers'[p.id] = servers[p.id]
        BY <2>1, <3>1, <3>3 DEF Lists
      <4> QED
        BY <2>1, <2>3, <4>1 DEF Known
    <3> QED
      BY <3>2, <3>3
  <2>4. \A k \in Names : nodes'[k] # None => Known(nodes'[k], k, servers', m', call')
    <3>1. \A k \in Names : nodes[k] # None => nodes[k] \in ProviderIDs
      BY Cache
    <3> QED
      BY <2>1, <2>3, <3>1 DEF KeptInv
  <2>5. m' # None => Faithful(m'.list.of, servers')
    <3>1. m # None => m.list.of \in Lists
      BY Cache DEF Answers
    <3> QED
      BY <2>1, <2>2, <3>1 DEF KeptInv
  <2>6. ASSUME NEW c \in Callers PROVE KeptOf(call'[c], servers', m', call')
    <3>1. /\ call[c].pid # None => call[c].pid \in ProviderIDs
          /\ call[c].at = "done" /\ call[c].res.ans = "found" => call[c].res.pid \in ProviderIDs
          /\ call[c].at = "answer" => call[c].answer.of \in Lists
      BY Cache DEF CallTypes, CallRecord, Shape, Results, Answers
    <3>2. KeptOf(call[c], servers, m, call)
      BY DEF KeptInv
    <3>3. call[c].at # "idle" /\ call[c].pid # None => Known(call[c].pid, call[c].node, servers', m', call')
      BY <2>3, <3>1, <3>2 DEF KeptOf
    <3>4. call[c].at = "done" /\ call[c].res.ans = "found"
             => Known(call[c].res.pid, call[c].node, servers', m', call')
      BY <2>3, <3>1, <3>2 DEF KeptOf
    <3>5. call[c].at = "answer" => Faithful(call[c].answer.of, servers')
      BY <2>2, <3>1, <3>2 DEF KeptOf
    <3>6. call[c].at = "done" /\ call[c].op = "exists" /\ call[c].res.ans = "none" /\ call[c].pid # None
             => servers'[call[c].pid.id].ver # call[c].pid.ver
      BY <2>3, <3>1, <3>2 DEF KeptOf
    <3> QED
      BY <2>1, <3>3, <3>4, <3>5, <3>6 DEF KeptOf
  <2> QED
    BY <2>4, <2>5, <2>6 DEF KeptInv
<1> QED
  BY <1>2, <1>3, <1>4, <1>5, <1>6, <1>7, <1>8, <1>9, <1>10, NextCases

\* InstanceExists reports no Node as gone that got its provider ID from
\* InstanceMetadata and whose server kept its name: no list that a lookup uses is
\* older than the one the provider ID came from.
THEOREM NodesAreKept == Spec => []NodeKept
<1>1. Init => KeptInv
  <2> SUFFICES ASSUME Init PROVE KeptInv
    OBVIOUS
  <2>1. m = None /\ (\A n \in Names : nodes[n] = None) /\ \A c \in Callers : call[c].at = "idle"
    BY IdleType DEF Init
  <2> QED
    BY <2>1 DEF KeptInv, KeptOf
<1>2. KeptInv => NodeKept
  BY DEF KeptInv, KeptOf, NodeKept, At
<1> QED
  BY <1>1, <1>2, NextKept, InitType, NextType, PTL DEF Spec
=============================================================================
