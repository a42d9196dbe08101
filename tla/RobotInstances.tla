--------------------------- MODULE RobotInstances ---------------------------
(***************************************************************************)
(* The list of dedicated servers: the cached Robot client                  *)
(* (robot/client/cache/client.go), the rate limit (hcops/ratelimit.go) and *)
(* what asks for servers: lookups for Nodes (hcloud/instances.go, util.go) *)
(* and passes over Load Balancers.                                         *)
(*                                                                         *)
(* The cache is guarded by a mutex, which is held during a call to Robot.  *)
(* The rate limit is not guarded: each read and write is a step.  Names of *)
(* Nodes are those of dedicated servers ("bm-"); Nodes of cloud servers    *)
(* are looked up in the project and keep no state here.                    *)
(***************************************************************************)
EXTENDS Naturals

CONSTANTS Callers,     \* goroutines of the controllers
          Servers,     \* dedicated servers, by number
          Names,       \* names of servers and Nodes
          None,
          Timeout,     \* CACHE_TIMEOUT
          WaitTime,    \* RATE_LIMIT_WAIT_TIME_ROBOT
          MaxTime,     \* bound on the clock
          MaxFaults,   \* bound on failing calls
          MaxEdits     \* bound on renames and changes of credentials

ASSUME RobotInstancesAssumption ==
    /\ None \notin Callers \cup Servers \cup Names
    /\ None \notin Nat
    /\ Timeout \in Nat
    /\ WaitTime \in Nat \ {0}
    /\ MaxTime \in Nat
    /\ MaxFaults \in Nat
    /\ MaxEdits \in Nat

VARIABLES servers,   \* name of each server in Robot, None if there is none, and its version
          nodes,     \* provider ID of each Node, None while it has none
          m,         \* the cached list, None if there is none
          forced,    \* forcedRefreshServerNames
          holder,    \* who holds the mutex
          limit,     \* rateLimitHandler
          call,      \* the operation of each caller
          gen,       \* how often the credentials were changed
          lastForce, \* history: the last forced load for each name
          refused,   \* history: how often set ended, when it last did, and whether
                     \* an isExceeded that began before has reset it since
          clock,
          faults,
          edits

vars == <<servers, nodes, m, forced, holder, limit, call, gen, lastForce, refused, clock, faults, edits>>
world == <<servers, gen, clock, edits>>

Times == 0 .. MaxTime
Lists == [Servers -> [name : Names \cup {None}, ver : 0 .. MaxEdits]]

\* A provider ID, with the version its server had in the list it came from.
ProviderIDs == [id : Servers, ver : 0 .. MaxEdits]

\* What Robot answers: the servers and the credentials they were read with.
Answers == [of : Lists, gen : 0 .. MaxEdits]

\* An operation: what it was asked, whether it asks again and forces a refresh,
\* the answer of Robot it received, and its result.
Idle == [at |-> "idle", op |-> None, node |-> None, pid |-> None, gen |-> 0, seen |-> 0, again |-> FALSE,
         force |-> FALSE, answer |-> None, res |-> None]

End(o, r) == [o EXCEPT !.at = "done", !.again = FALSE, !.force = FALSE, !.answer = None, !.res = r]

Init ==
    /\ servers \in [Servers -> [name : Names \cup {None}, ver : {0}]]
    /\ \A s, t \in Servers : servers[s].name = servers[t].name => s = t \/ servers[s].name = None
    /\ nodes = [n \in Names |-> None]
    /\ m = None
    /\ forced = [n \in Names |-> None]
    /\ holder = None
    /\ limit = [exceeded |-> FALSE, lastChecked |-> None]
    /\ call = [c \in Callers |-> Idle]
    /\ gen = 0
    /\ lastForce = [n \in Names |-> None]
    /\ refused = [n |-> 0, at |-> 0, undone |-> FALSE]
    /\ clock = 0
    /\ faults = 0
    /\ edits = 0

At(c, pc) == call[c].at = pc
Goto(c, pc) == call' = [call EXCEPT ![c].at = pc]

----------------------------------------------------------------------------
(* rateLimitHandler.  lastChecked is None for the zero time.               *)

\* The waiting time is over.
WaitOver == limit.lastChecked = None \/ clock >= limit.lastChecked + WaitTime

\* Mutant: the rate limit is not checked.
skipCheck(c) ==
    /\ At(c, "check")
    /\ Goto(c, "lock")
    /\ UNCHANGED <<nodes, m, forced, holder, limit, lastForce, refused, faults, world>>

\* isExceeded reads exceeded,
checkExceeded(c) ==
    /\ At(c, "check")
    /\ Goto(c, IF limit.exceeded THEN "wait" ELSE "lock")
    /\ UNCHANGED <<nodes, m, forced, holder, limit, lastForce, refused, faults, world>>

\* reads lastChecked, and refuses the lookup,
checkWaitTime(c) ==
    /\ At(c, "wait")
    /\ IF WaitOver
       THEN Goto(c, "reset")
       ELSE call' = [call EXCEPT ![c] = End(@, [ans |-> "limited"])]
    /\ UNCHANGED <<nodes, m, forced, holder, limit, lastForce, refused, faults, world>>

\* or writes both.
resetLimit(c) ==
    /\ \/ At(c, "reset") /\ limit' = [limit EXCEPT !.exceeded = FALSE] /\ Goto(c, "zero")
       \/ At(c, "zero") /\ limit' = [limit EXCEPT !.lastChecked = None] /\ Goto(c, "lock")
    /\ refused' = [refused EXCEPT !.undone = @ \/ call[c].seen < refused.n]
    /\ UNCHANGED <<nodes, m, forced, holder, lastForce, faults, world>>

\* Mutant: the error is ignored, and the map is empty.
NotFoundResult == [ans |-> "none", from |-> gen]

ErrorResult == [ans |-> "error"]

\* Mutant: the end of the waiting time is stored.
NextTry == clock + WaitTime

LimitTime == clock

\* set, after Robot refused a call.
setLimit(c) ==
    /\ \/ /\ At(c, "set")
          /\ limit' = [limit EXCEPT !.exceeded = TRUE]
          /\ Goto(c, "stamp")
          /\ UNCHANGED refused
       \/ /\ At(c, "stamp")
          /\ limit' = [limit EXCEPT !.lastChecked = LimitTime]
          /\ call' = [call EXCEPT ![c] = End(@, ErrorResult)]
          /\ refused' = [n |-> refused.n + 1, at |-> clock, undone |-> ~limit.exceeded]
    /\ UNCHANGED <<nodes, m, forced, holder, lastForce, faults, world>>

----------------------------------------------------------------------------
(* cacheRobotClient.                                                       *)

\* Mutant: the window ends one tick early.
ForcedBefore(n) == forced[n] # None /\ clock < forced[n] + Timeout

nodeHasAlreadyForcedRefresh(n) == forced[n] # None /\ clock <= forced[n] + Timeout

shouldSync(cached) == cached = None \/ clock > cached.at + Timeout

\* ServerGet and getRobotServerByID: a server that has another name does not
\* belong to the Node.
getRobotServerByID(o, list) == {s \in {o.pid.id} : list[s].name = o.node}

\* getRobotServerByName looks for the name of the Node.
getRobotServerByName(o, list) == {s \in Servers : list[s].name = o.node}

Result(o, a) ==
    LET found == IF o.pid # None THEN getRobotServerByID(o, a.of) ELSE getRobotServerByName(o, a.of)
    IN  IF o.op = "lbpass" THEN [ans |-> "list", from |-> a.gen]
        ELSE IF found = {} THEN [ans |-> "none", from |-> a.gen]
        ELSE LET s == CHOOSE s \in found : TRUE
             IN  [ans |-> "found", from |-> a.gen, pid |-> [id |-> s, ver |-> a.of[s].ver]]

\* What an operation does with the list it gets: a lookup by name that finds
\* nothing asks once more, forcing a refresh.
Use(o, a) ==
    IF Result(o, a).ans = "none" /\ o.pid = None /\ ~o.again
    THEN [o EXCEPT !.at = "lock", !.again = TRUE, !.answer = None]
    ELSE End(o, Result(o, a))

\* Mutant: the mutex is not held during the call to Robot.
NoLock(c) == None

LockDuringCall(c) == c

\* ServerGet, ServerGetList and ServerGetListForceRefresh, up to the call to
\* Robot or, when the cache serves, as a whole.
Acquire(c) ==
    LET o == call[c]
        force == o.again /\ ~nodeHasAlreadyForcedRefresh(o.node)
        cached == IF force THEN None ELSE m
    IN  /\ At(c, "lock")
        /\ holder = None
        /\ m' = cached
        /\ forced' = IF force THEN [forced EXCEPT ![o.node] = None] ELSE forced
        /\ IF shouldSync(cached)
           THEN /\ holder' = LockDuringCall(c)
                /\ call' = [call EXCEPT ![c].at = "robot", ![c].force = force]
           ELSE call' = [call EXCEPT ![c] = Use(o, cached.list)] /\ UNCHANGED holder
        /\ UNCHANGED <<nodes, limit, lastForce, refused, faults, world>>

\* Robot answers with the servers it has, and credentials it knows.
robotAnswers(c) ==
    /\ At(c, "robot")
    /\ call' = [call EXCEPT ![c].at = "answer", ![c].answer = [of |-> servers, gen |-> gen]]
    /\ UNCHANGED <<nodes, m, forced, holder, limit, lastForce, refused, faults, world>>

\* The rest of syncIfNeeded and of its caller.
syncIfNeeded(c) ==
    LET o == call[c]
    IN  /\ At(c, "answer")
        /\ m' = [list |-> o.answer, at |-> clock]
        /\ IF o.force
           THEN forced' = [forced EXCEPT ![o.node] = clock] /\ lastForce' = [lastForce EXCEPT ![o.node] = clock]
           ELSE UNCHANGED <<forced, lastForce>>
        /\ holder' = None
        /\ call' = [call EXCEPT ![c] = Use(o, o.answer)]
        /\ UNCHANGED <<nodes, limit, refused, faults, world>>

\* A call to Robot fails, for the rate limit or otherwise.
robotFails(c) ==
    /\ At(c, "robot")
    /\ faults < MaxFaults
    /\ faults' = faults + 1
    /\ holder' = None
    /\ \/ Goto(c, "set")
       \/ call' = [call EXCEPT ![c] = End(@, ErrorResult)]
    /\ UNCHANGED <<nodes, m, forced, limit, lastForce, refused, world>>

\* The list and the names are dropped with the credentials they belong to.
SetCredentials ==
    /\ holder = None
    /\ edits < MaxEdits
    /\ edits' = edits + 1
    /\ gen' = gen + 1
    /\ m' = None
    /\ forced' = [n \in Names |-> None]
    /\ lastForce' = [n \in Names |-> None]
    /\ UNCHANGED <<servers, nodes, holder, limit, call, refused, clock, faults>>

----------------------------------------------------------------------------
(* The callers.                                                            *)

\* InstanceMetadata and InstanceExists: lookupServer takes the Node as it is.
lookupServer(c, op, n) ==
    /\ call[c] = Idle
    /\ call' = [call EXCEPT ![c] = [Idle EXCEPT !.at = "check", !.op = op, !.node = n,
                                                !.pid = nodes[n], !.gen = gen,
                                                !.seen = refused.n]]
    /\ UNCHANGED <<nodes, m, forced, holder, limit, lastForce, refused, faults, world>>

\* ReconcileHCLBTargets lists the servers, without a look at the rate limit.
listDedicatedServers(c) ==
    /\ call[c] = Idle
    /\ call' = [call EXCEPT ![c] = [Idle EXCEPT !.at = "lock", !.op = "lbpass", !.gen = gen]]
    /\ UNCHANGED <<nodes, m, forced, holder, limit, lastForce, refused, faults, world>>

\* The caller uses the answer: a Node without a provider ID gets one, a Node
\* that does not exist any more is deleted.
Return(c) ==
    LET o == call[c]
    IN  /\ At(c, "done")
        /\ call' = [call EXCEPT ![c] = Idle]
        /\ nodes' = CASE o.op = "metadata" /\ o.res.ans = "found" /\ nodes[o.node] = None ->
                             [nodes EXCEPT ![o.node] = o.res.pid]
                      [] o.op = "exists" /\ o.res.ans = "none" -> [nodes EXCEPT ![o.node] = None]
                      [] OTHER -> nodes
        /\ UNCHANGED <<m, forced, holder, limit, lastForce, refused, faults, world>>

----------------------------------------------------------------------------
(* Robot and time.                                                         *)

\* A server is named, renamed (during provisioning) or cancelled.
Rename(s, n) ==
    /\ edits < MaxEdits
    /\ edits' = edits + 1
    /\ servers[s].name # n
    /\ n # None => \A t \in Servers : servers[t].name # n
    /\ servers' = [servers EXCEPT ![s] = [name |-> n, ver |-> @.ver + 1]]
    /\ UNCHANGED <<nodes, m, forced, holder, limit, call, gen, lastForce, refused, clock, faults>>

Tick ==
    /\ clock < MaxTime
    /\ clock' = clock + 1
    /\ UNCHANGED <<servers, nodes, m, forced, holder, limit, call, gen, lastForce, refused, faults, edits>>

Begin(c) ==
    \/ \E op \in {"metadata", "exists"}, n \in Names : lookupServer(c, op, n)
    \/ listDedicatedServers(c)

Continue(c) ==
    \/ checkExceeded(c) \/ checkWaitTime(c) \/ resetLimit(c) \/ setLimit(c)
    \/ robotAnswers(c) \/ syncIfNeeded(c) \/ Return(c)

Next ==
    \/ \E c \in Callers : Begin(c) \/ Acquire(c) \/ Continue(c) \/ robotFails(c)
    \/ SetCredentials
    \/ \E s \in Servers, n \in Names \cup {None} : Rename(s, n)
    \/ Tick

Spec == Init /\ [][Next]_vars

----------------------------------------------------------------------------
(* Properties.                                                             *)

Ops == {"metadata", "exists", "lbpass"}

TypeOK ==
    /\ servers \in Lists
    /\ nodes \in [Names -> ProviderIDs \cup {None}]
    /\ m = None \/ m \in [list : Answers, at : 0 .. clock]
    /\ forced \in [Names -> (0 .. clock) \cup {None}]
    /\ holder \in Callers \cup {None}
    /\ limit \in [exceeded : BOOLEAN, lastChecked : (0 .. clock) \cup {None}]
    /\ \A c \in Callers :
          /\ call[c].op \in Ops \cup {None}
          /\ call[c].pid \in ProviderIDs \cup {None}
          /\ call[c].answer \in Answers \cup {None}
    /\ holder = None \/ call[holder].at \in {"robot", "answer"}
    /\ gen \in 0 .. MaxEdits
    /\ refused \in [n : 0 .. MaxFaults, at : 0 .. clock, undone : BOOLEAN]
    /\ clock \in Times /\ faults \in 0 .. MaxFaults /\ edits \in 0 .. MaxEdits

\* InstanceExists never reports a Node as gone which got its provider ID from
\* InstanceMetadata and whose server has had the same name ever since, however
\* old the list that was used then and whatever was loaded in between.
NodeKept ==
    \A c \in Callers :
       At(c, "done") /\ call[c].op = "exists" /\ call[c].res.ans = "none" /\ call[c].pid # None
          => servers[call[c].pid.id].ver # call[c].pid.ver

\* "The Robot client suppresses repeated forced refreshes for the same missing
\* name until the normal Robot list cache timeout has elapsed"
\* (getRobotServerByName), unless the credentials change.
ForcedOncePerTimeout ==
    [][\A c \in Callers :
          At(c, "lock") /\ call'[c].at = "robot" /\ call'[c].force
             => \/ lastForce[call[c].node] = None
                \/ clock > lastForce[call[c].node] + Timeout]_vars

\* After Robot refused a call for its rate limit, a lookup that begins within the
\* waiting time does not call Robot, unless a lookup that began before reset the
\* limit while it was set or later (rateLimitHandler has no lock); and no lookup
\* is refused once the waiting time is over.
RateLimitRespected ==
    [][\A c \in Callers :
          /\ /\ At(c, "lock") /\ call'[c].at = "robot" /\ call[c].op # "lbpass"
             /\ refused.n > 0 /\ call[c].seen = refused.n
             => refused.undone \/ clock >= refused.at + WaitTime
          /\ At(c, "wait") /\ call'[c].at = "done"
             => refused.n > 0 /\ clock < refused.at + WaitTime]_vars

\* No operation that starts after a change of the credentials gets a list that
\* was loaded with the old ones (SetCredentials invalidates the cache).
NoListOfOldCredentials ==
    \A c \in Callers :
       At(c, "done") /\ call[c].res.ans \in {"found", "none", "list"} => call[c].res.from >= call[c].gen
=============================================================================
