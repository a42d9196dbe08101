---------------------------- MODULE RoutesProofs ----------------------------
(***************************************************************************)
(* Proofs about Routes, for any servers, nodes, CIDRs and IPs and any      *)
(* number of failures and changes.                                         *)
(*                                                                         *)
(* GoodRouteKept is about a single step, but whether a call takes a good   *)
(* route for a bad one was decided when the routes were listed, and with   *)
(* a cache that may be old.  KeptInv follows this decision: while no IP is *)
(* used twice an entry of the cache that has the IP of a server is the     *)
(* entry of that server, so a good route is listed for its node; the calls *)
(* that are due for its CIDR are then never a deletion, and a creation     *)
(* knows its gateway.  A CIDR whose bad route is being deleted gets no     *)
(* good one before the deletion has ended.                                 *)
(***************************************************************************)
EXTENDS Routes, TLAPS

----------------------------------------------------------------------------
(* Type correctness.                                                       *)

CreateStages == {"server", "reload", "check", "replace", "add"}
DeleteStages == {"pick", "delete"}
EndStages == {"ok", "error"}

\* The call c with the record r.
CallOK(c, r) ==
    /\ c \in CallIDs
    /\ r \in [at : CreateStages \cup DeleteStages \cup EndStages, ip : IPs \cup {None}]
    /\ c[1] = "create" => c[2] \in Names
    /\ r.at \in CreateStages => c[1] = "create"
    /\ r.at \in DeleteStages => c[1] = "delete"

SyncTypes ==
    \/ sync = Idle /\ DOMAIN calls = {}
    \/ /\ sync \in [at : {"list"}, todo : SUBSET CIDRs,
                    listed : SUBSET ((Names \cup {None}) \X CIDRs)]
       /\ DOMAIN calls = {}
    \/ sync = [at |-> "run"]

WorldTypes ==
    /\ nodes \in [Names -> CIDRs \cup {None}]
    /\ servers \in Servers
    /\ Apart(nodes, CIDRs) /\ Apart(servers, IPs)
    /\ net \in Routes /\ network \in Routes
    /\ cache \in Servers
    /\ expired \in BOOLEAN /\ stable \subseteq CIDRs
    /\ used \subseteq IPs
    /\ faults \in 0 .. MaxFaults /\ edits \in 0 .. MaxEdits

CallTypes ==
    /\ calls = [c \in DOMAIN calls |-> calls[c]]
    /\ \A c \in DOMAIN calls : CallOK(c, calls[c])

TypeInv == WorldTypes /\ SyncTypes /\ CallTypes

LEMMA Values ==
    /\ None \notin CIDRs /\ None \notin IPs /\ None \notin Names
    /\ Gone \notin IPs /\ Gone # None
    /\ MaxFaults \in Nat /\ MaxEdits \in Nat /\ ReuseIPs \in BOOLEAN
BY RoutesAssumption DEF RoutesAssumption

\* Only the call c changes.
Moved(c, stage, ip) ==
    /\ DOMAIN calls' = DOMAIN calls
    /\ calls'[c] = Call(stage, ip)
    /\ \A k \in DOMAIN calls : k # c => calls'[k] = calls[k]

LEMMA MoveCall ==
    ASSUME TypeInv, NEW c \in DOMAIN calls, NEW stage, NEW ip \in IPs \cup {None},
           Move(c, stage, ip),
           \/ stage \in CreateStages /\ c[1] = "create"
           \/ stage \in DeleteStages /\ c[1] = "delete"
           \/ stage \in EndStages
    PROVE  CallTypes' /\ Moved(c, stage, ip)
<1>1. calls = [k \in DOMAIN calls |-> calls[k]]
  BY DEF TypeInv, CallTypes
<1>2. Moved(c, stage, ip) /\ calls' = [k \in DOMAIN calls' |-> calls'[k]]
  BY <1>1 DEF Move, Moved
<1>3. CallOK(c, Call(stage, ip))
  BY DEF TypeInv, CallTypes, CallOK, Call, CreateStages, DeleteStages, EndStages
<1> QED
  BY <1>2, <1>3 DEF TypeInv, CallTypes, Moved

\* A step of a call leaves the state well-typed.
LEMMA CallType ==
    ASSUME TypeInv, CallTypes', DOMAIN calls' = DOMAIN calls, sync.at = "run",
           UNCHANGED <<sync, stable, world>>,
           net' \in Routes, network' \in Routes, cache' \in Servers, expired' \in BOOLEAN,
           faults' \in 0 .. MaxFaults
    PROVE  TypeInv'
<1>1. WorldTypes'
  BY DEF TypeInv, WorldTypes, world
<1>2. SyncTypes'
  BY DEF TypeInv, SyncTypes, Idle
<1> QED
  BY <1>1, <1>2 DEF TypeInv

\* Calls are made only while a sync runs.
LEMMA CallsRun ==
    ASSUME TypeInv, NEW c \in DOMAIN calls
    PROVE  sync.at = "run"
BY DEF TypeInv, SyncTypes

LEMMA InitType == Init => TypeInv
<1> SUFFICES ASSUME Init PROVE TypeInv
  OBVIOUS
<1>1. WorldTypes
  BY Values DEF Init, WorldTypes, Servers, Routes
<1>2. DOMAIN calls = {} /\ calls = [c \in DOMAIN calls |-> calls[c]]
  BY DEF Init
<1> QED
  BY <1>1, <1>2 DEF Init, TypeInv, SyncTypes, CallTypes

\* A lookup leaves the cache as it is or loads all servers.
LEMMA Lookup ==
    ASSUME TypeInv, NEW found \in BOOLEAN, getCache(found)
    PROVE  /\ cache' \in Servers /\ expired' \in BOOLEAN
           /\ cache' = cache \/ cache' = servers
           /\ ~found => cache' = servers
BY DEF TypeInv, WorldTypes, getCache, Reload

LEMMA FaultType ==
    ASSUME TypeInv, Fault
    PROVE  faults' \in 0 .. MaxFaults
BY Values DEF TypeInv, WorldTypes, Fault

\* Every call has a destination, and a create call a node.
LEMMA CallFacts ==
    ASSUME TypeInv, NEW c \in DOMAIN calls
    PROVE  /\ c \in CallIDs /\ c[3] \in CIDRs /\ c[1] \in {"create", "delete"}
           /\ c[1] = "create" => c[2] \in Names
           /\ calls[c].at \in CreateStages \cup DeleteStages \cup EndStages
           /\ calls[c].ip \in IPs \cup {None}
           /\ calls[c].at \in CreateStages => c[1] = "create"
           /\ calls[c].at \in DeleteStages => c[1] = "delete"
BY DEF TypeInv, CallTypes, CallOK, CallIDs

LEMMA RouteFacts ==
    ASSUME TypeInv, NEW d \in CIDRs
    PROVE  /\ net[d] \in IPs \cup {None} /\ network[d] \in IPs \cup {None}
           /\ \A ip \in IPs \cup {None} : [net EXCEPT ![d] = ip] \in Routes
BY DEF TypeInv, WorldTypes, Routes

LEMMA CreateLookupType ==
    ASSUME TypeInv, NEW c \in DOMAIN calls, createLookup(c)
    PROVE  /\ TypeInv'
           /\ c[1] = "create"
           /\ cache' = cache \/ cache' = servers
           /\ \/ cache'[c[2]] \in IPs /\ Moved(c, "reload", cache'[c[2]])
              \/ Moved(c, "error", None)
<1> USE CallFacts DEF CreateStages, EndStages
<1>1. c[1] = "create" /\ calls[c].at = "server"
  BY DEF createLookup, At
<1>2. /\ cache' \in Servers /\ expired' \in BOOLEAN
      /\ cache' = cache \/ cache' = servers
  BY DEF createLookup, getCache, Reload, TypeInv, WorldTypes
<1>3. CASE cache'[c[2]] \in IPs /\ Move(c, "reload", cache'[c[2]])
  <2>1. CallTypes' /\ Moved(c, "reload", cache'[c[2]])
    BY <1>1, <1>3, MoveCall
  <2> QED
    BY <1>1, <1>2, <1>3, <2>1, CallType, CallsRun DEF createLookup, Moved, TypeInv, WorldTypes
<1>4. CASE Move(c, "error", None)
  <2>1. CallTypes' /\ Moved(c, "error", None)
    BY <1>1, <1>4, MoveCall
  <2> QED
    BY <1>1, <1>2, <1>4, <2>1, CallType, CallsRun DEF createLookup, Moved, TypeInv, WorldTypes
<1> QED
  BY <1>3, <1>4 DEF createLookup

LEMMA CreateReloadType ==
    ASSUME TypeInv, NEW c \in DOMAIN calls, createReload(c)
    PROVE  /\ TypeInv'
           /\ c[1] = "create" /\ calls[c].at = "reload"
           /\ network' = net
           /\ Moved(c, "check", calls[c].ip)
<1> USE CallFacts DEF CreateStages, EndStages
<1>1. c[1] = "create" /\ calls[c].at = "reload" /\ network' = net
  BY DEF createReload, At, reloadNetwork
<1>2. CallTypes' /\ Moved(c, "check", calls[c].ip)
  BY <1>1, MoveCall DEF createReload
<1> QED
  BY <1>1, <1>2, CallType, CallsRun DEF createReload, Moved, TypeInv, WorldTypes

LEMMA CheckType ==
    ASSUME TypeInv, NEW c \in DOMAIN calls, checkIfRouteAlreadyExists(c)
    PROVE  /\ TypeInv'
           /\ c[1] = "create" /\ calls[c].at = "check"
           /\ cache' = cache \/ cache' = servers
           /\ \/ network[c[3]] = None /\ Moved(c, "add", calls[c].ip)
              \/ Moved(c, "ok", None) \/ Moved(c, "error", None)
              \/ /\ network[c[3]] # None /\ cache'[c[2]] # network[c[3]]
                 /\ Moved(c, "replace", network[c[3]])
<1> USE CallFacts DEF CreateStages, EndStages
<1>1. c[1] = "create" /\ calls[c].at = "check"
  BY DEF checkIfRouteAlreadyExists, At
<1>2. /\ cache' \in Servers /\ expired' \in BOOLEAN
      /\ cache' = cache \/ cache' = servers
  <2>1. CASE UNCHANGED <<cache, expired>>
    BY <2>1 DEF TypeInv, WorldTypes
  <2>2. CASE getCache(cache[c[2]] # Gone)
    BY <2>2, Lookup
  <2> QED
    BY <2>1, <2>2 DEF checkIfRouteAlreadyExists
<1>3. UNCHANGED <<net, network, sync, stable, faults, world>>
  BY DEF checkIfRouteAlreadyExists
<1>4. ASSUME CallTypes', DOMAIN calls' = DOMAIN calls PROVE TypeInv'
  BY <1>2, <1>3, <1>4, CallType, CallsRun DEF TypeInv, WorldTypes
<1>5. CASE network[c[3]] = None /\ Move(c, "add", calls[c].ip)
  <2>1. CallTypes' /\ Moved(c, "add", calls[c].ip)
    BY <1>1, <1>5, MoveCall
  <2> QED
    BY <1>1, <1>2, <1>4, <1>5, <2>1 DEF Moved
<1>6. CASE Move(c, "ok", None) \/ Move(c, "error", None)
  <2>1. CallTypes' /\ (Moved(c, "ok", None) \/ Moved(c, "error", None))
    BY <1>1, <1>6, MoveCall
  <2> QED
    BY <1>1, <1>2, <1>4, <2>1 DEF Moved
<1>7. CASE /\ network[c[3]] # None /\ cache'[c[2]] \in IPs \ {network[c[3]]}
           /\ Move(c, "replace", network[c[3]])
  <2>1. CallTypes' /\ Moved(c, "replace", network[c[3]])
    BY <1>1, <1>7, MoveCall, RouteFacts
  <2> QED
    BY <1>1, <1>2, <1>4, <1>7, <2>1 DEF Moved
<1> QED
  BY <1>5, <1>6, <1>7 DEF checkIfRouteAlreadyExists

LEMMA ReplaceType ==
    ASSUME TypeInv, NEW c \in DOMAIN calls, createReplace(c)
    PROVE  /\ TypeInv'
           /\ c[1] = "create" /\ calls[c].at = "replace"
           /\ Moved(c, "ok", None) \/ Moved(c, "error", None)
           /\ \/ net' = net
              \/ net[c[3]] = calls[c].ip /\ net' = [net EXCEPT ![c[3]] = None]
<1> USE CallFacts DEF CreateStages, EndStages
<1>1. c[1] = "create" /\ calls[c].at = "replace"
  BY DEF createReplace, At
<1>2. Move(c, "ok", None) \/ Move(c, "error", None)
  BY DEF createReplace
<1>3. CallTypes' /\ (Moved(c, "ok", None) \/ Moved(c, "error", None))
  BY <1>2, MoveCall
<1>4. \/ net' = net
      \/ net[c[3]] = calls[c].ip /\ net' = [net EXCEPT ![c[3]] = None]
  BY DEF createReplace, APIDelete
<1>5. net' \in Routes
  BY <1>4, RouteFacts DEF TypeInv, WorldTypes
<1> QED
  BY <1>1, <1>3, <1>4, <1>5, CallType, CallsRun DEF createReplace, Moved, TypeInv, WorldTypes

LEMMA AddType ==
    ASSUME TypeInv, NEW c \in DOMAIN calls, createAdd(c)
    PROVE  /\ TypeInv'
           /\ c[1] = "create" /\ calls[c].at = "add"
           /\ \/ Moved(c, "ok", None) \/ Moved(c, "error", None)
              \/ Moved(c, "server", None) /\ net' = net
           /\ \/ net' = net
              \/ net[c[3]] = None /\ net' = [net EXCEPT ![c[3]] = calls[c].ip]
<1> USE CallFacts DEF CreateStages, EndStages
<1>1. c[1] = "create" /\ calls[c].at = "add"
  BY DEF createAdd, At
<1>2. \/ Move(c, "ok", None) \/ Move(c, "error", None)
      \/ Move(c, "server", None) /\ net' = net
  BY DEF createAdd
<1>3. /\ CallTypes'
      /\ \/ Moved(c, "ok", None) \/ Moved(c, "error", None)
         \/ Moved(c, "server", None) /\ net' = net
  BY <1>1, <1>2, MoveCall
<1>4. \/ net' = net
      \/ net[c[3]] = None /\ net' = [net EXCEPT ![c[3]] = calls[c].ip]
  BY DEF createAdd
<1>5. net' \in Routes
  BY <1>4, RouteFacts DEF TypeInv, WorldTypes
<1>6. faults' \in 0 .. MaxFaults
  BY FaultType DEF createAdd, TypeInv, WorldTypes
<1>7. TypeInv'
  BY <1>3, <1>5, <1>6, CallType, CallsRun DEF createAdd, Moved, TypeInv, WorldTypes
<1> QED
  BY <1>1, <1>3, <1>4, <1>7

LEMMA PickType ==
    ASSUME TypeInv, NEW c \in DOMAIN calls, deletePick(c)
    PROVE  /\ TypeInv'
           /\ c[1] = "delete" /\ calls[c].at = "pick"
           /\ Moved(c, "delete", network[c[3]])
<1> USE CallFacts DEF DeleteStages
<1>1. c[1] = "delete" /\ calls[c].at = "pick"
  BY DEF deletePick, At
<1>2. CallTypes' /\ Moved(c, "delete", network[c[3]])
  BY <1>1, MoveCall, RouteFacts DEF deletePick
<1> QED
  BY <1>1, <1>2, CallType, CallsRun DEF deletePick, Moved, TypeInv, WorldTypes

LEMMA DeleteType ==
    ASSUME TypeInv, NEW c \in DOMAIN calls, deleteRouteFromHcloud(c)
    PROVE  /\ TypeInv'
           /\ c[1] = "delete" /\ calls[c].at = "delete"
           /\ Moved(c, "ok", None) \/ Moved(c, "error", None)
           /\ \/ net' = net
              \/ net[c[3]] = calls[c].ip /\ net' = [net EXCEPT ![c[3]] = None]
<1> USE CallFacts DEF DeleteStages, EndStages
<1>1. c[1] = "delete" /\ calls[c].at = "delete"
  BY DEF deleteRouteFromHcloud, At
<1>2. Move(c, "ok", None) \/ Move(c, "error", None)
  BY DEF deleteRouteFromHcloud
<1>3. CallTypes' /\ (Moved(c, "ok", None) \/ Moved(c, "error", None))
  BY <1>2, MoveCall
<1>4. \/ net' = net
      \/ net[c[3]] = calls[c].ip /\ net' = [net EXCEPT ![c[3]] = None]
  BY DEF deleteRouteFromHcloud, APIDelete
<1>5. net' \in Routes
  BY <1>4, RouteFacts DEF TypeInv, WorldTypes
<1> QED
  BY <1>1, <1>3, <1>4, <1>5, CallType, CallsRun
     DEF deleteRouteFromHcloud, Moved, TypeInv, WorldTypes

LEMMA FailsType ==
    ASSUME TypeInv, NEW c \in CallIDs, callFails(c)
    PROVE  /\ TypeInv'
           /\ c \in DOMAIN calls
           /\ Moved(c, "error", None)
           /\ \/ net' = net
              \/ /\ calls[c].at = "add" /\ net[c[3]] = None
                 /\ net' = [net EXCEPT ![c[3]] = calls[c].ip]
              \/ /\ calls[c].at \in {"delete", "replace"} /\ net[c[3]] = calls[c].ip
                 /\ net' = [net EXCEPT ![c[3]] = None]
<1> USE CallFacts DEF EndStages
<1>1. c \in DOMAIN calls
  BY DEF callFails
<1>2. CallTypes' /\ Moved(c, "error", None)
  BY <1>1, MoveCall DEF callFails
<1>3. \/ net' = net
      \/ /\ calls[c].at = "add" /\ net[c[3]] = None
         /\ net' = [net EXCEPT ![c[3]] = calls[c].ip]
      \/ /\ calls[c].at \in {"delete", "replace"} /\ net[c[3]] = calls[c].ip
         /\ net' = [net EXCEPT ![c[3]] = None]
  BY DEF callFails, APIDelete, At
<1>4. net' \in Routes
  BY <1>1, <1>3, RouteFacts DEF TypeInv, WorldTypes
<1>5. faults' \in 0 .. MaxFaults
  BY FaultType DEF callFails
<1>6. TypeInv'
  BY <1>1, <1>2, <1>4, <1>5, CallType, CallsRun DEF callFails, Moved, TypeInv, WorldTypes
<1> QED
  BY <1>1, <1>2, <1>3, <1>6

LEMMA ListRoutesType ==
    ASSUME TypeInv, ListRoutes
    PROVE  /\ TypeInv'
           /\ network' = net /\ net' = net /\ cache' = cache
           /\ DOMAIN calls = {} /\ DOMAIN calls' = {}
           /\ sync'.at = "list" /\ sync'.listed = {}
           /\ sync'.todo = {d \in CIDRs : net[d] # None}
           /\ UNCHANGED world
<1>1. WorldTypes'
  BY DEF ListRoutes, TypeInv, WorldTypes, world, reloadNetwork
<1>2. /\ sync = Idle /\ calls' = calls
      /\ sync' = [at |-> "list", todo |-> {d \in CIDRs : net[d] # None}, listed |-> {}]
  BY DEF ListRoutes
<1>3. DOMAIN calls = {}
  BY <1>2 DEF TypeInv, SyncTypes, Idle
<1>4. SyncTypes'
  BY <1>2, <1>3 DEF SyncTypes
<1>5. CallTypes'
  BY <1>2 DEF TypeInv, CallTypes
<1> QED
  BY <1>1, <1>2, <1>3, <1>4, <1>5 DEF TypeInv, ListRoutes, reloadNetwork

LEMMA ByIPType ==
    ASSUME NEW k, NEW ip
    PROVE  ByPrivateIP(k, ip) \in Names \cup {None}
BY DEF ByPrivateIP

LEMMA ListTypes ==
    ASSUME TypeInv, sync.at = "list"
    PROVE  /\ sync \in [at : {"list"}, todo : SUBSET CIDRs,
                        listed : SUBSET ((Names \cup {None}) \X CIDRs)]
           /\ DOMAIN calls = {}
BY DEF TypeInv, SyncTypes, Idle

LEMMA RouteToRouteType ==
    ASSUME TypeInv, NEW d \in CIDRs, hcloudRouteToRoute(d)
    PROVE  /\ TypeInv'
           /\ sync.at = "list" /\ sync'.at = "list" /\ d \in sync.todo
           /\ DOMAIN calls = {} /\ DOMAIN calls' = {}
           /\ cache' = cache \/ cache' = servers
           /\ (~ \E n \in Names : cache[n] = network[d]) => cache' = servers
           /\ sync'.todo = sync.todo \ {d}
           /\ sync'.listed = sync.listed \cup {<<ByPrivateIP(cache', network[d]), d>>}
           /\ UNCHANGED <<net, network, stable, world>>
<1>1. /\ sync.at = "list" /\ d \in sync.todo /\ calls' = calls
      /\ UNCHANGED <<net, network, stable, world>>
  BY DEF hcloudRouteToRoute
<1>2. /\ cache' \in Servers /\ expired' \in BOOLEAN
      /\ cache' = cache \/ cache' = servers
      /\ (~ \E n \in Names : cache[n] = network[d]) => cache' = servers
  <2>1. getCache(\E n \in Names : cache[n] = network[d])
    BY DEF hcloudRouteToRoute
  <2> QED
    BY <2>1, Lookup
<1>3. /\ sync \in [at : {"list"}, todo : SUBSET CIDRs,
                   listed : SUBSET ((Names \cup {None}) \X CIDRs)]
      /\ DOMAIN calls = {}
  BY <1>1, ListTypes
<1> DEFINE t == sync.todo \ {d}
           l == sync.listed \cup {<<ByPrivateIP(cache', network[d]), d>>}
<1>4. t \in SUBSET CIDRs
  BY <1>3
<1>5. l \in SUBSET ((Names \cup {None}) \X CIDRs)
  BY <1>3, ByIPType
<1>6. sync' = [sync EXCEPT !.todo = t, !.listed = l]
  BY DEF hcloudRouteToRoute
<1> HIDE DEF t, l
<1>7. /\ sync' \in [at : {"list"}, todo : SUBSET CIDRs,
                    listed : SUBSET ((Names \cup {None}) \X CIDRs)]
      /\ sync'.todo = t /\ sync'.listed = l /\ sync'.at = "list"
  BY <1>3, <1>4, <1>5, <1>6
<1>8. WorldTypes'
  BY <1>1, <1>2 DEF hcloudRouteToRoute, TypeInv, WorldTypes, world
<1>9. TypeInv'
  BY <1>1, <1>3, <1>7, <1>8 DEF TypeInv, SyncTypes, CallTypes
<1> QED
  BY <1>1, <1>2, <1>3, <1>7, <1>9 DEF t, l

\* A call of the sync is for a node without its route, or for a route that
\* fits no node.
LEMMA DueCalls ==
    ASSUME TypeInv, sync.at = "list", NEW c \in Due(sync.listed)
    PROVE  \/ /\ c[1] = "create" /\ c[2] \in Names /\ c[3] \in CIDRs
              /\ nodes[c[2]] = c[3] /\ c = <<"create", c[2], c[3]>>
           \/ /\ c[1] = "delete" /\ c = <<"delete", c[2], c[3]>>
              /\ c[2] \in Names \cup {None} /\ c[3] \in CIDRs
              /\ <<c[2], c[3]>> \in sync.listed
              /\ c[2] = None \/ nodes[c[2]] # c[3]
<1>1. sync.listed \subseteq (Names \cup {None}) \X CIDRs
  BY ListTypes
<1>2. CASE \E n \in Names : nodes[n] # None /\ c = <<"create", n, nodes[n]>>
  BY <1>2 DEF TypeInv, WorldTypes
<1>3. CASE \E r \in sync.listed : (r[1] = None \/ nodes[r[1]] # r[2]) /\ c = <<"delete", r[1], r[2]>>
  <2>1. PICK r \in sync.listed : (r[1] = None \/ nodes[r[1]] # r[2]) /\ c = <<"delete", r[1], r[2]>>
    BY <1>3
  <2>2. r = <<r[1], r[2]>> /\ r[1] \in Names \cup {None} /\ r[2] \in CIDRs
    BY <1>1
  <2> QED
    BY <2>1, <2>2
<1> QED
  BY <1>2, <1>3 DEF Due

LEMMA StartCallsType ==
    ASSUME TypeInv, StartCalls
    PROVE  /\ TypeInv'
           /\ sync.at = "list" /\ sync.todo = {} /\ sync'.at = "run"
           /\ DOMAIN calls' = Due(sync.listed)
           /\ \A c \in DOMAIN calls' :
                 calls'[c] = IF c[1] = "create" THEN Call("server", None) ELSE Call("pick", None)
           /\ UNCHANGED <<net, network, cache, expired, stable, faults, world>>
<1>1. /\ sync.at = "list" /\ sync.todo = {}
      /\ UNCHANGED <<net, network, cache, expired, stable, faults, world>>
      /\ sync' = [at |-> "run"]
  BY DEF StartCalls
<1>2. /\ DOMAIN calls' = Due(sync.listed)
      /\ calls' = [c \in DOMAIN calls' |-> calls'[c]]
      /\ \A c \in DOMAIN calls' :
            calls'[c] = IF c[1] = "create" THEN Call("server", None) ELSE Call("pick", None)
  BY DEF StartCalls
<1>3. ASSUME NEW c \in DOMAIN calls' PROVE CallOK(c, calls'[c])
  <2>1. /\ c \in CallIDs /\ c[1] \in {"create", "delete"}
        /\ c[1] = "create" => c[2] \in Names
    <3>1. c \in Due(sync.listed)
      BY <1>2, <1>3
    <3>2. \/ /\ c[1] = "create" /\ c[2] \in Names /\ c[3] \in CIDRs
             /\ c = <<"create", c[2], c[3]>>
          \/ /\ c[1] = "delete" /\ c[2] \in Names \cup {None} /\ c[3] \in CIDRs
             /\ c = <<"delete", c[2], c[3]>>
      BY <1>1, <3>1, DueCalls
    <3> QED
      BY <3>2 DEF CallIDs
  <2> QED
    BY <1>2, <2>1 DEF CallOK, Call, CreateStages, DeleteStages, EndStages
<1>4. WorldTypes'
  BY <1>1 DEF TypeInv, WorldTypes, world
<1>5. SyncTypes' /\ sync'.at = "run"
  BY <1>1 DEF SyncTypes
<1>6. CallTypes'
  BY <1>2, <1>3 DEF CallTypes
<1> QED
  BY <1>1, <1>2, <1>4, <1>5, <1>6 DEF TypeInv

\* The end of a sync and of a listing that failed.
LEMMA EndType ==
    ASSUME TypeInv, EndSync \/ ListFails
    PROVE  /\ TypeInv'
           /\ sync' = Idle /\ DOMAIN calls' = {}
           /\ UNCHANGED <<net, network, cache, stable, world>>
<1>1. CASE EndSync
  <2>1. /\ sync' = Idle /\ calls' = << >>
        /\ UNCHANGED <<net, network, cache, expired, stable, faults, world>>
    BY <1>1 DEF EndSync
  <2>2. DOMAIN calls' = {} /\ calls' = [c \in DOMAIN calls' |-> calls'[c]]
    BY <2>1
  <2>3. WorldTypes'
    BY <2>1 DEF TypeInv, WorldTypes, world
  <2> QED
    BY <2>1, <2>2, <2>3 DEF TypeInv, SyncTypes, CallTypes
<1>2. CASE ListFails
  <2>1. /\ sync.at = "list" /\ sync' = Idle /\ calls' = calls /\ Fault
        /\ UNCHANGED <<net, network, cache, expired, stable, world>>
    BY <1>2 DEF ListFails
  <2>2. WorldTypes'
    BY <2>1, FaultType DEF TypeInv, WorldTypes, world
  <2> QED
    BY <2>1, <2>2, ListTypes DEF TypeInv, SyncTypes, CallTypes
<1> QED
  BY <1>1, <1>2

\* What happens outside changes nodes, servers and the set of stable CIDRs.
Outside ==
    \/ \E n \in Names : DeleteServer(n)
    \/ \E n \in Names, ip \in IPs \cup {None} : MoveServer(n, ip)
    \/ \E n \in Names, d \in CIDRs : AssignCIDR(n, d)

LEMMA OutsideType ==
    ASSUME TypeInv, Outside
    PROVE  /\ TypeInv'
           /\ UNCHANGED <<net, network, cache, sync, calls>>
           /\ Disturb
<1>1. UNCHANGED <<net, network, cache, expired, sync, calls, faults>> /\ Edit /\ Disturb
  BY DEF Outside, DeleteServer, MoveServer, AssignCIDR
<1>2. edits' \in 0 .. MaxEdits
  BY <1>1, Values DEF Edit, TypeInv, WorldTypes
<1>3. stable' \subseteq CIDRs
  BY <1>1 DEF Disturb, TypeInv, WorldTypes
<1>4. /\ nodes' \in [Names -> CIDRs \cup {None}] /\ servers' \in Servers /\ used' \subseteq IPs
      /\ Apart(nodes', CIDRs) /\ Apart(servers', IPs)
  <2>0. /\ nodes \in [Names -> CIDRs \cup {None}] /\ servers \in Servers /\ used \subseteq IPs
        /\ Apart(nodes, CIDRs) /\ Apart(servers, IPs)
    BY DEF TypeInv, WorldTypes
  <2>1. ASSUME NEW n \in Names, DeleteServer(n) PROVE <1>4
    BY <2>0, <2>1, Values DEF DeleteServer, Servers, Apart
  <2>2. ASSUME NEW n \in Names, NEW ip \in IPs \cup {None}, MoveServer(n, ip) PROVE <1>4
    BY <2>0, <2>2, Values DEF MoveServer, Servers, Apart
  <2>3. ASSUME NEW n \in Names, NEW d \in CIDRs, AssignCIDR(n, d) PROVE <1>4
    BY <2>0, <2>3, Values DEF AssignCIDR, Servers, Apart
  <2> QED
    BY <2>1, <2>2, <2>3 DEF Outside
<1>5. WorldTypes'
  BY <1>1, <1>2, <1>3, <1>4 DEF TypeInv, WorldTypes
<1>6. SyncTypes' /\ CallTypes'
  BY <1>1 DEF TypeInv, SyncTypes, CallTypes, Idle
<1> QED
  BY <1>1, <1>5, <1>6 DEF TypeInv

LEMMA QuietType ==
    ASSUME TypeInv, Expire \/ UNCHANGED vars
    PROVE  TypeInv' /\ UNCHANGED <<net, network, cache, sync, calls, stable, world>>
<1>1. /\ UNCHANGED <<net, network, cache, sync, calls, stable, faults, world>>
      /\ expired' \in BOOLEAN
  BY DEF Expire, vars, world, TypeInv, WorldTypes
<1>2. WorldTypes'
  BY <1>1 DEF TypeInv, WorldTypes, world
<1>3. SyncTypes' /\ CallTypes'
  BY <1>1 DEF TypeInv, SyncTypes, CallTypes, Idle
<1> QED
  BY <1>1, <1>2, <1>3 DEF TypeInv

\* The steps of a call.
CallOf(c) ==
    \/ createLookup(c) \/ createReload(c) \/ checkIfRouteAlreadyExists(c)
    \/ createReplace(c) \/ createAdd(c)
    \/ deletePick(c) \/ deleteRouteFromHcloud(c)

LEMMA NextCases ==
    ASSUME [Next]_vars
    PROVE  \/ ListRoutes \/ (\E d \in CIDRs : hcloudRouteToRoute(d)) \/ StartCalls
           \/ EndSync \/ ListFails
           \/ \E c \in DOMAIN calls : CallOf(c)
           \/ \E c \in CallIDs : callFails(c)
           \/ Outside
           \/ Expire \/ UNCHANGED vars
BY DEF Next, Controller, CallStep, CallOf, Outside

LEMMA CallOfType ==
    ASSUME TypeInv, NEW c \in DOMAIN calls, CallOf(c)
    PROVE  TypeInv'
BY CreateLookupType, CreateReloadType, CheckType, ReplaceType, AddType, PickType, DeleteType
   DEF CallOf

LEMMA NextType == TypeInv /\ [Next]_vars => TypeInv'
<1> SUFFICES ASSUME TypeInv, [Next]_vars PROVE TypeInv'
  OBVIOUS
<1>1. CASE ListRoutes
  BY <1>1, ListRoutesType
<1>2. CASE \E d \in CIDRs : hcloudRouteToRoute(d)
  BY <1>2, RouteToRouteType
<1>3. CASE StartCalls
  BY <1>3, StartCallsType
<1>4. CASE EndSync \/ ListFails
  BY <1>4, EndType
<1>5. CASE \E c \in DOMAIN calls : CallOf(c)
  BY <1>5, CallOfType
<1>6. CASE \E c \in CallIDs : callFails(c)
  BY <1>6, FailsType
<1>7. CASE Outside
  BY <1>7, OutsideType
<1>8. CASE Expire \/ UNCHANGED vars
  BY <1>8, QuietType
<1> QED
  BY <1>1, <1>2, <1>3, <1>4, <1>5, <1>6, <1>7, <1>8, NextCases

LEMMA TypeInvariant == Spec => []TypeInv
BY InitType, NextType, PTL DEF Spec

\* TypeOK holds in every state: the copy of the network and the cache of
\* servers, which goroutines share without a lock, stay well-formed, and a
\* call works with a private IP or with none.
THEOREM TypeCorrect == Spec => []TypeOK
<1>1. TypeInv => TypeOK
  <2> SUFFICES ASSUME TypeInv PROVE TypeOK
    OBVIOUS
  <2>1. DOMAIN calls \subseteq CallIDs /\ \A c \in DOMAIN calls : calls[c].ip \in IPs \cup {None}
    BY CallFacts
  <2> QED
    BY <2>1 DEF TypeOK, TypeInv, WorldTypes
<1> QED
  BY <1>1, TypeInvariant, PTL

----------------------------------------------------------------------------
(* A good route is kept.                                                   *)

\* The node n has the CIDR d, and its server has a private IP.
Owner(n, d) == nodes[n] = d /\ servers[n] \in IPs

\* IPs are not used twice, so an entry of the cache that has the IP of a
\* server is the entry of that server.
HistoryInv ==
    /\ \A n \in Names : servers[n] \in IPs => servers[n] \in used
    /\ \A n \in Names : cache[n] \in IPs => cache[n] \in used
    /\ \A m, n \in Names : cache[m] = servers[n] /\ servers[n] \in IPs => m = n

\* A good route that has been listed is listed for its node, and the cache
\* knows its gateway; a CIDR is listed once.
ListInv ==
    sync.at = "list" =>
        /\ network = net
        /\ \A d \in sync.todo : net[d] # None
        /\ \A r \in sync.listed : r[2] \notin sync.todo /\ net[r[2]] # None
        /\ \A r, s \in sync.listed : r[2] = s[2] => r = s
        /\ \A d \in stable, n \in Names :
              Owner(n, d) /\ net[d] = servers[n] /\ d \notin sync.todo
                  => cache[n] = servers[n] /\ <<n, d>> \in sync.listed

\* No two calls of a kind are about one CIDR.
UniqueCalls ==
    \A c, k \in DOMAIN calls : c[1] = k[1] /\ c[3] = k[3] => c = k

\* The cache knows the gateway of a good route.
CachedInv ==
    sync.at = "run" => \A d \in stable, n \in Names :
        Owner(n, d) /\ (net[d] = servers[n] \/ network[d] = servers[n]) => cache[n] = servers[n]

\* A create call on a stable CIDR is for its owner, takes the IP of the server
\* from the cache, and never replaces the good route.
CreateInv ==
    \A c \in DOMAIN calls : \A n \in Names :
        c[1] = "create" /\ c[3] \in stable /\ Owner(n, c[3]) =>
            /\ c[2] = n
            /\ calls[c].at \in {"reload", "check", "add"} /\ calls[c].ip = servers[n]
                  => cache[n] = servers[n]
            /\ calls[c].at = "replace" => calls[c].ip # servers[n]

\* While a delete call on a stable CIDR is under way, the network has no good
\* route for it: the bad route stays there, so the create call cannot add one.
DeleteInv ==
    \A c \in DOMAIN calls : \A n \in Names :
        c[1] = "delete" /\ c[3] \in stable /\ Owner(n, c[3]) /\ calls[c].at \in DeleteStages =>
            /\ net[c[3]] # servers[n] /\ network[c[3]] # servers[n]
            /\ calls[c].at = "delete" => calls[c].ip # servers[n]
            /\ \A k \in DOMAIN calls :
                  k[1] = "create" /\ k[3] = c[3] /\ calls[k].at \notin EndStages =>
                      /\ net[c[3]] # None /\ network[c[3]] # None
                      /\ calls[k].at # "add"

KeptInv == HistoryInv /\ ListInv /\ UniqueCalls /\ CachedInv /\ CreateInv /\ DeleteInv

LEMMA OwnGateway ==
    ASSUME TypeInv, NEW d \in CIDRs
    PROVE  /\ \A n \in Names : Owner(n, d) => Gateway(d) = servers[n]
           /\ Gateway(d) # None => \E n \in Names : Owner(n, d)
BY DEF TypeInv, WorldTypes, Apart, Owner, Gateway

LEMMA InitKept == Init => KeptInv
<1> SUFFICES ASSUME Init PROVE KeptInv
  OBVIOUS
<1>1. HistoryInv
  BY Values DEF Init, HistoryInv, Servers
<1>2. sync.at = "idle" /\ DOMAIN calls = {}
  BY DEF Init, Idle
<1> QED
  BY <1>1, <1>2 DEF KeptInv, ListInv, UniqueCalls, CachedInv, CreateInv, DeleteInv

\* Steps that leave nodes and servers alone.
LEMMA KeepHistory ==
    ASSUME TypeInv, HistoryInv, UNCHANGED world, cache' = cache \/ cache' = servers
    PROVE  HistoryInv'
BY DEF TypeInv, WorldTypes, Apart, Servers, HistoryInv, world

LEMMA ListRoutesKept ==
    ASSUME TypeInv, KeptInv, ListRoutes
    PROVE  KeptInv'
<1> USE ListRoutesType
<1>1. HistoryInv'
  BY KeepHistory DEF KeptInv
<1>2. ListInv'
  BY Values DEF ListInv, Owner, TypeInv, WorldTypes, world
<1> QED
  BY <1>1, <1>2 DEF KeptInv, UniqueCalls, CachedInv, CreateInv, DeleteInv

LEMMA RouteToRouteKept ==
    ASSUME TypeInv, KeptInv, NEW e \in CIDRs, hcloudRouteToRoute(e)
    PROVE  KeptInv'
<1> USE RouteToRouteType
<1>1. HistoryInv'
  BY KeepHistory DEF KeptInv
<1>2. ListInv'
  <2> DEFINE new == <<ByPrivateIP(cache', network[e]), e>>
  <2>1. /\ sync.at = "list" /\ network = net /\ network' = net' /\ net' = net
        /\ e \in sync.todo /\ sync'.todo = sync.todo \ {e}
        /\ sync'.listed = sync.listed \cup {new}
    BY DEF KeptInv, ListInv
  <2>2. /\ \A r \in sync.listed : r[2] \notin sync.todo /\ net[r[2]] # None
        /\ \A r, s \in sync.listed : r[2] = s[2] => r = s
    BY <2>1 DEF KeptInv, ListInv
  <2>3. new[2] = e
    OBVIOUS
  <2>4. ASSUME NEW d \in stable, NEW n \in Names, Owner(n, d), net[d] = servers[n],
               d \notin sync'.todo
        PROVE  cache'[n] = servers[n] /\ <<n, d>> \in sync'.listed
    <3>1. CASE d # e
      BY <2>1, <2>4, <3>1 DEF KeptInv, ListInv, Owner
    <3>2. CASE d = e
      <4>1. network[e] = servers[n] /\ servers[n] \in IPs
        BY <2>1, <2>4, <3>2 DEF Owner
      <4>2. \E m \in Names : cache'[m] = servers[n]
        BY <4>1
      <4>3. \A m \in Names : cache'[m] = servers[n] => m = n
        BY <1>1, <4>1 DEF HistoryInv, world
      <4>4. ByPrivateIP(cache', network[e]) = n
        BY <4>1, <4>2, <4>3 DEF ByPrivateIP
      <4> QED
        BY <2>1, <3>2, <4>2, <4>3, <4>4
    <3> QED
      BY <3>1, <3>2
  <2>5. net[e] # None
    BY DEF KeptInv, ListInv
  <2> HIDE DEF new
  <2>6. /\ \A r \in sync'.listed : r[2] \notin sync'.todo /\ net'[r[2]] # None
        /\ \A r, s \in sync'.listed : r[2] = s[2] => r = s
    BY <2>1, <2>2, <2>3, <2>5
  <2> QED
    BY <2>1, <2>4, <2>6, RouteToRouteType DEF KeptInv, ListInv, Owner, world
<1> QED
  BY <1>1, <1>2 DEF KeptInv, UniqueCalls, CachedInv, CreateInv, DeleteInv

LEMMA StartCallsKept ==
    ASSUME TypeInv, KeptInv, StartCalls
    PROVE  KeptInv'
<1>0. /\ sync.at = "list" /\ sync.todo = {} /\ sync'.at = "run"
      /\ DOMAIN calls' = Due(sync.listed)
      /\ \A c \in DOMAIN calls' :
            calls'[c] = IF c[1] = "create" THEN Call("server", None) ELSE Call("pick", None)
      /\ UNCHANGED <<net, network, cache, expired, stable, faults, world>>
  BY StartCallsType
<1>1. HistoryInv'
  BY <1>0, KeepHistory DEF KeptInv
<1>2. ListInv'
  BY <1>0 DEF ListInv
<1>3. /\ network = net
      /\ \A r \in sync.listed : net[r[2]] # None
      /\ \A r, s \in sync.listed : r[2] = s[2] => r = s
      /\ \A d \in stable, n \in Names :
            Owner(n, d) /\ net[d] = servers[n] => cache[n] = servers[n] /\ <<n, d>> \in sync.listed
  BY <1>0 DEF KeptInv, ListInv
<1>4. \A c \in DOMAIN calls' :
        \/ /\ c[1] = "create" /\ c[2] \in Names /\ c[3] \in CIDRs
           /\ nodes[c[2]] = c[3] /\ c = <<"create", c[2], c[3]>>
        \/ /\ c[1] = "delete" /\ c = <<"delete", c[2], c[3]>>
           /\ c[2] \in Names \cup {None} /\ c[3] \in CIDRs
           /\ <<c[2], c[3]>> \in sync.listed
           /\ c[2] = None \/ nodes[c[2]] # c[3]
  BY <1>0, DueCalls
<1>5. \A m, n \in Names : nodes[m] = nodes[n] /\ nodes[m] \in CIDRs => m = n
  BY DEF TypeInv, WorldTypes, Apart
<1>6. UniqueCalls'
  <2> SUFFICES ASSUME NEW c \in DOMAIN calls', NEW k \in DOMAIN calls', c[1] = k[1], c[3] = k[3]
               PROVE  c = k
    BY DEF UniqueCalls
  <2>1. CASE c[1] = "create"
    <3>1. /\ c[2] \in Names /\ k[2] \in Names /\ c[3] \in CIDRs
          /\ nodes[c[2]] = c[3] /\ nodes[k[2]] = k[3]
          /\ c = <<"create", c[2], c[3]>> /\ k = <<"create", k[2], k[3]>>
      BY <1>4, <2>1
    <3>2. c[2] = k[2]
      BY <1>5, <3>1
    <3> QED
      BY <3>1, <3>2
  <2>2. CASE c[1] = "delete"
    <3>1. <<c[2], c[3]>> \in sync.listed /\ <<k[2], k[3]>> \in sync.listed
      BY <1>4, <2>2
    <3>2. <<c[2], c[3]>> = <<k[2], k[3]>>
      BY <1>3, <3>1
    <3>3. c = <<"delete", c[2], c[3]>> /\ k = <<"delete", k[2], k[3]>>
      BY <1>4, <2>2
    <3> QED
      BY <3>2, <3>3
  <2> QED
    BY <1>4, <2>1, <2>2
<1>7. CachedInv'
  BY <1>0, <1>3 DEF CachedInv, Owner, world
<1>8. CreateInv'
  <2> SUFFICES ASSUME NEW c \in DOMAIN calls', NEW n \in Names, c[1] = "create", c[3] \in stable,
                      Owner(n, c[3])
               PROVE  c[2] = n /\ calls'[c].at = "server"
    BY <1>0 DEF CreateInv, Owner, world
  <2> QED
    <3>1. c[2] \in Names /\ c[3] \in CIDRs /\ nodes[c[2]] = c[3]
      BY <1>4
    <3>2. c[2] = n
      BY <1>5, <3>1 DEF Owner
    <3>3. calls'[c] = Call("server", None)
      BY <1>0
    <3> QED
      BY <3>2, <3>3 DEF Call
<1>9. DeleteInv'
  <2> SUFFICES ASSUME NEW c \in DOMAIN calls', NEW n \in Names, c[1] = "delete", c[3] \in stable,
                      Owner(n, c[3])
               PROVE  /\ net[c[3]] # servers[n] /\ net[c[3]] # None
                      /\ calls'[c].at = "pick"
                      /\ \A k \in DOMAIN calls' : k[1] = "create" => calls'[k].at = "server"
    BY <1>0, <1>3 DEF DeleteInv, Owner, world
  <2>1. <<c[2], c[3]>> \in sync.listed /\ (c[2] = None \/ nodes[c[2]] # c[3])
    BY <1>4
  <2>2. <<c[2], c[3]>>[2] = c[3]
    OBVIOUS
  <2>3. net[c[3]] # None
    BY <1>3, <2>1, <2>2
  <2>4. net[c[3]] # servers[n]
    <3> SUFFICES ASSUME net[c[3]] = servers[n] PROVE FALSE
      OBVIOUS
    <3>1. <<n, c[3]>> \in sync.listed
      BY <1>3
    <3>2. <<n, c[3]>> = <<c[2], c[3]>>
      BY <1>3, <2>1, <3>1
    <3>3. n = c[2]
      BY <3>2
    <3> QED
      BY <2>1, <3>3, Values DEF Owner
  <2> QED
    BY <1>0, <2>3, <2>4 DEF Call
<1> QED
  BY <1>1, <1>2, <1>6, <1>7, <1>8, <1>9 DEF KeptInv

LEMMA EndKept ==
    ASSUME TypeInv, KeptInv, EndSync \/ ListFails
    PROVE  KeptInv'
<1>1. /\ DOMAIN calls' = {} /\ sync'.at = "idle"
      /\ UNCHANGED <<net, network, cache, stable, world>>
  BY EndType DEF Idle
<1>2. HistoryInv'
  BY <1>1, KeepHistory DEF KeptInv
<1> QED
  BY <1>1, <1>2 DEF KeptInv, ListInv, UniqueCalls, CachedInv, CreateInv, DeleteInv

LEMMA QuietKept ==
    ASSUME TypeInv, KeptInv, Expire \/ UNCHANGED vars
    PROVE  KeptInv'
<1>1. UNCHANGED <<net, network, cache, sync, calls, stable, world>>
  BY QuietType
<1>2. HistoryInv'
  BY <1>1, KeepHistory DEF KeptInv
<1> QED
  BY <1>1, <1>2 DEF KeptInv, ListInv, UniqueCalls, CachedInv, CreateInv, DeleteInv, Owner, world

\* A CIDR that is still stable has the owner it had.
LEMMA SameOwner ==
    ASSUME TypeInv, Outside, NEW d \in stable', NEW n \in Names, Owner(n, d)'
    PROVE  d \in stable /\ Owner(n, d) /\ servers'[n] = servers[n]
<1>1. TypeInv' /\ Disturb
  BY OutsideType
<1>2. d \in CIDRs /\ d \in stable /\ Gateway(d)' = Gateway(d)
  BY <1>1 DEF Disturb, TypeInv, WorldTypes
<1>3. Gateway(d)' = servers'[n]
  BY <1>1, <1>2 DEF TypeInv, WorldTypes, Apart, Owner, Gateway
<1>4. servers'[n] \in IPs
  BY DEF Owner
<1>5. PICK m \in Names : Owner(m, d)
  BY <1>2, <1>3, <1>4, OwnGateway, Values
<1>6. servers[m] = servers'[n]
  BY <1>2, <1>3, <1>5, OwnGateway
<1>7. servers'[n] = servers[n]
  <2>0. servers \in Servers
    BY DEF TypeInv, WorldTypes
  <2>1. ASSUME NEW k \in Names, DeleteServer(k) PROVE <1>7
    BY <1>4, <2>0, <2>1, Values DEF DeleteServer, Servers
  <2>2. ASSUME NEW k \in Names, NEW ip \in IPs \cup {None}, MoveServer(k, ip) PROVE <1>7
    BY <1>4, <1>6, <2>0, <2>2, Values DEF MoveServer, Servers
  <2>3. ASSUME NEW k \in Names, NEW e \in CIDRs, AssignCIDR(k, e) PROVE <1>7
    BY <2>3 DEF AssignCIDR
  <2> QED
    BY <2>1, <2>2, <2>3 DEF Outside
<1>8. m = n
  BY <1>4, <1>6, <1>7 DEF TypeInv, WorldTypes, Apart, Servers
<1> QED
  BY <1>2, <1>5, <1>7, <1>8

\* The one place that needs IPs to be used once.
LEMMA OutsideHistory ==
    ASSUME ReuseIPs = FALSE, TypeInv, HistoryInv, Outside
    PROVE  HistoryInv'
<1>0. servers \in Servers /\ cache' = cache /\ used \subseteq used'
  BY OutsideType DEF TypeInv, WorldTypes, Outside, DeleteServer, MoveServer, AssignCIDR
<1>1. ASSUME NEW k \in Names, DeleteServer(k) PROVE HistoryInv'
  BY <1>0, <1>1, Values DEF DeleteServer, Servers, HistoryInv
<1>2. ASSUME NEW k \in Names, NEW ip \in IPs \cup {None}, MoveServer(k, ip) PROVE HistoryInv'
  BY <1>0, <1>2, Values DEF MoveServer, Servers, HistoryInv
<1>3. ASSUME NEW k \in Names, NEW e \in CIDRs, AssignCIDR(k, e) PROVE HistoryInv'
  BY <1>0, <1>3 DEF AssignCIDR, HistoryInv
<1> QED
  BY <1>1, <1>2, <1>3 DEF Outside

LEMMA OutsideKept ==
    ASSUME ReuseIPs = FALSE, TypeInv, KeptInv, Outside
    PROVE  KeptInv'
<1>0. UNCHANGED <<net, network, cache, sync, calls>>
  BY OutsideType
<1>1. \A d \in stable', n \in Names : Owner(n, d)' => d \in stable /\ Owner(n, d) /\ servers'[n] = servers[n]
  BY SameOwner
<1>2. HistoryInv'
  BY OutsideHistory DEF KeptInv
<1>3. ListInv'
  BY <1>0, <1>1 DEF KeptInv, ListInv
<1>4. UniqueCalls'
  BY <1>0 DEF KeptInv, UniqueCalls
<1>5. CachedInv'
  BY <1>0, <1>1 DEF KeptInv, CachedInv
<1>6. CreateInv'
  BY <1>0, <1>1 DEF KeptInv, CreateInv
<1>7. DeleteInv'
  BY <1>0, <1>1 DEF KeptInv, DeleteInv
<1> QED
  BY <1>2, <1>3, <1>4, <1>5, <1>6, <1>7 DEF KeptInv

\* What every step of the call c has in common.
CallFrame(c) ==
    /\ sync.at = "run"
    /\ UNCHANGED <<sync, stable, nodes, servers, used>>
    /\ DOMAIN calls' = DOMAIN calls
    /\ \A k \in DOMAIN calls : k # c => calls'[k] = calls[k]
    /\ cache' = cache \/ cache' = servers

LEMMA FrameKept ==
    ASSUME TypeInv, KeptInv, NEW c \in DOMAIN calls, CallFrame(c),
           CachedInv', CreateInv', DeleteInv'
    PROVE  KeptInv'
<1>1. HistoryInv'
  BY DEF TypeInv, WorldTypes, Apart, Servers, KeptInv, HistoryInv, CallFrame
<1>2. ListInv' /\ UniqueCalls'
  BY DEF KeptInv, ListInv, UniqueCalls, CallFrame
<1> QED
  BY <1>1, <1>2 DEF KeptInv

\* The cache still knows the gateways, if no route is added or reloaded.
LEMMA FrameCached ==
    ASSUME TypeInv, KeptInv, NEW c \in DOMAIN calls, CallFrame(c),
           \A d \in CIDRs : /\ net'[d] \in {net[d], network[d], None}
                            /\ network'[d] \in {net[d], network[d], None}
    PROVE  CachedInv'
BY Values DEF TypeInv, WorldTypes, KeptInv, CachedInv, CallFrame, Owner

\* The create calls, given what the call c does if it is one.
LEMMA FrameCreate ==
    ASSUME TypeInv, KeptInv, NEW c \in DOMAIN calls, CallFrame(c),
           c[1] = "create" => \A n \in Names :
              c[3] \in stable /\ Owner(n, c[3]) =>
                /\ calls'[c].at \in {"reload", "check", "add"} /\ calls'[c].ip = servers[n]
                      => cache'[n] = servers[n]
                /\ calls'[c].at = "replace" => calls'[c].ip # servers[n]
    PROVE  CreateInv'
<1> SUFFICES ASSUME NEW k \in DOMAIN calls, NEW n \in Names,
                    k[1] = "create", k[3] \in stable, Owner(n, k[3])
             PROVE  /\ k[2] = n
                    /\ calls'[k].at \in {"reload", "check", "add"} /\ calls'[k].ip = servers[n]
                          => cache'[n] = servers[n]
                    /\ calls'[k].at = "replace" => calls'[k].ip # servers[n]
  BY DEF CreateInv, CallFrame, Owner
<1>1. k[2] = n
  BY DEF KeptInv, CreateInv
<1>2. CASE k = c
  BY <1>1, <1>2
<1>3. CASE k # c
  BY <1>1, <1>3 DEF KeptInv, CreateInv, CallFrame
<1> QED
  BY <1>2, <1>3

\* The delete calls, while the create call c moves on and the network has no
\* route that neither it nor its copy had.
LEMMA FrameDelete ==
    ASSUME TypeInv, KeptInv, NEW c \in DOMAIN calls, CallFrame(c),
           c[1] = "create",
           calls[c].at \notin EndStages,
           \A d \in CIDRs : /\ net'[d] = net[d]
                            /\ network'[d] \in {net[d], network[d]},
           calls'[c].at = "add" => network[c[3]] = None
    PROVE  DeleteInv'
<1> SUFFICES ASSUME NEW k \in DOMAIN calls, NEW n \in Names,
                    k[1] = "delete", k[3] \in stable, Owner(n, k[3]), calls[k].at \in DeleteStages
             PROVE  /\ net'[k[3]] # servers[n] /\ network'[k[3]] # servers[n]
                    /\ calls[k].at = "delete" => calls[k].ip # servers[n]
                    /\ \A j \in DOMAIN calls :
                          j[1] = "create" /\ j[3] = k[3] /\ calls'[j].at \notin EndStages =>
                              /\ net'[k[3]] # None /\ network'[k[3]] # None
                              /\ calls'[j].at # "add"
  BY DEF DeleteInv, CallFrame, Owner
<1>1. k[3] \in CIDRs
  BY CallFacts
<1>2. /\ net[k[3]] # servers[n] /\ network[k[3]] # servers[n]
      /\ calls[k].at = "delete" => calls[k].ip # servers[n]
      /\ \A j \in DOMAIN calls :
            j[1] = "create" /\ j[3] = k[3] /\ calls[j].at \notin EndStages =>
                /\ net[k[3]] # None /\ network[k[3]] # None
                /\ calls[j].at # "add"
  BY DEF KeptInv, DeleteInv
<1>3. ASSUME NEW j \in DOMAIN calls, j[1] = "create", j[3] = k[3], calls'[j].at \notin EndStages
      PROVE  /\ net'[k[3]] # None /\ network'[k[3]] # None
             /\ calls'[j].at # "add"
  <2>1. CASE j # c
    BY <1>1, <1>2, <1>3, <2>1 DEF CallFrame
  <2>2. CASE j = c
    BY <1>1, <1>2, <1>3, <2>2
  <2> QED
    BY <2>1, <2>2
<1> QED
  BY <1>1, <1>2, <1>3

LEMMA CreateLookupKept ==
    ASSUME TypeInv, KeptInv, NEW c \in DOMAIN calls, createLookup(c)
    PROVE  KeptInv'
<1>0. \/ calls'[c].at = "reload" /\ calls'[c].ip = cache'[c[2]]
      \/ calls'[c].at = "error"
  <2>1. calls'[c] = Call("reload", cache'[c[2]]) \/ calls'[c] = Call("error", None)
    BY CreateLookupType DEF Moved
  <2> QED
    BY <2>1 DEF Call
<1>1. CallFrame(c) /\ net' = net /\ network' = network /\ calls[c].at = "server"
  BY CreateLookupType, CallsRun DEF createLookup, CallFrame, Moved, world, At
<1>2. CachedInv'
  BY <1>1, FrameCached
<1>3. CreateInv'
  <2>1. \A n \in Names : c[3] \in stable /\ Owner(n, c[3]) => c[2] = n
    BY CreateLookupType DEF KeptInv, CreateInv
  <2>2. \A n \in Names :
           c[3] \in stable /\ Owner(n, c[3]) =>
             /\ calls'[c].at \in {"reload", "check", "add"} /\ calls'[c].ip = servers[n]
                   => cache'[n] = servers[n]
             /\ calls'[c].at = "replace" => calls'[c].ip # servers[n]
    BY <1>0, <2>1
  <2> QED
    BY <1>1, <2>2, FrameCreate
<1>4. DeleteInv'
  BY <1>0, <1>1, FrameDelete, CreateLookupType DEF EndStages
<1> QED
  BY <1>1, <1>2, <1>3, <1>4, FrameKept

LEMMA CreateReloadKept ==
    ASSUME TypeInv, KeptInv, NEW c \in DOMAIN calls, createReload(c)
    PROVE  KeptInv'
<1> USE CreateReloadType, CallsRun
<1>1. CallFrame(c) /\ net' = net /\ network' = net /\ calls[c].at = "reload" /\ cache' = cache
  BY DEF createReload, CallFrame, Moved, world
<1>2. CachedInv'
  BY <1>1, FrameCached
<1>3. calls'[c].at = "check" /\ calls'[c].ip = calls[c].ip
  <2>1. calls'[c] = Call("check", calls[c].ip)
    BY DEF Moved
  <2> QED
    BY <2>1 DEF Call
<1>4. CreateInv'
  <2>1. \A n \in Names : c[3] \in stable /\ Owner(n, c[3]) /\ calls[c].ip = servers[n] => cache[n] = servers[n]
    BY <1>1 DEF KeptInv, CreateInv
  <2> QED
    BY <1>1, <1>3, <2>1, FrameCreate
<1>5. DeleteInv'
  BY <1>1, <1>3, FrameDelete DEF EndStages
<1> QED
  BY <1>1, <1>2, <1>4, <1>5, FrameKept

LEMMA CheckKept ==
    ASSUME TypeInv, KeptInv, NEW c \in DOMAIN calls, checkIfRouteAlreadyExists(c)
    PROVE  KeptInv'
<1> USE CheckType, CallsRun
<1>1. CallFrame(c) /\ net' = net /\ network' = network /\ calls[c].at = "check"
  BY DEF checkIfRouteAlreadyExists, CallFrame, Moved, world
<1>2. CachedInv'
  BY <1>1, FrameCached
<1>3. /\ calls'[c].at \in {"add", "ok", "error", "replace"}
      /\ calls'[c].at = "add" => calls'[c].ip = calls[c].ip /\ network[c[3]] = None
      /\ calls'[c].at = "replace" => calls'[c].ip = network[c[3]] /\ cache'[c[2]] # network[c[3]]
  <2>1. \/ network[c[3]] = None /\ calls'[c] = Call("add", calls[c].ip)
        \/ calls'[c] = Call("ok", None) \/ calls'[c] = Call("error", None)
        \/ cache'[c[2]] # network[c[3]] /\ calls'[c] = Call("replace", network[c[3]])
    BY CheckType DEF Moved
  <2> QED
    BY <2>1 DEF Call
<1>4. CreateInv'
  <2> SUFFICES ASSUME NEW n \in Names, c[3] \in stable, Owner(n, c[3])
               PROVE  /\ calls'[c].at = "add" /\ calls'[c].ip = servers[n] => cache'[n] = servers[n]
                      /\ calls'[c].at = "replace" => calls'[c].ip # servers[n]
    BY <1>1, <1>3, FrameCreate
  <2>1. c[2] = n /\ (calls[c].ip = servers[n] => cache[n] = servers[n])
    BY <1>1 DEF KeptInv, CreateInv
  <2>2. network[c[3]] = servers[n] => cache[n] = servers[n]
    BY <1>1 DEF KeptInv, CachedInv, CallFrame
  <2>3. cache[n] = servers[n] => cache'[n] = servers[n]
    BY <1>1 DEF CallFrame
  <2> QED
    BY <1>3, <2>1, <2>2, <2>3
<1>5. DeleteInv'
  BY <1>1, <1>3, FrameDelete DEF EndStages
<1> QED
  BY <1>1, <1>2, <1>4, <1>5, FrameKept

\* A call ends, and with it the route of its CIDR may go, or come if the call
\* was about to add it.
LEMMA EndedKept ==
    ASSUME TypeInv, KeptInv, NEW c \in DOMAIN calls, CallFrame(c),
           calls[c].at \notin EndStages, calls'[c].at \in EndStages,
           network' = network, cache' = cache,
           \/ net' = net
           \/ net' = [net EXCEPT ![c[3]] = None]
           \/ calls[c].at = "add" /\ net' = [net EXCEPT ![c[3]] = calls[c].ip]
    PROVE  KeptInv'
<1>0. c[3] \in CIDRs /\ c[1] \in {"create", "delete"} /\ (calls[c].at = "add" => c[1] = "create")
  BY CallFacts DEF CreateStages
<1>1. /\ \A d \in CIDRs : d # c[3] => net'[d] = net[d]
      /\ \/ net'[c[3]] = net[c[3]] \/ net'[c[3]] = None
         \/ calls[c].at = "add" /\ net'[c[3]] = calls[c].ip
  BY <1>0 DEF TypeInv, WorldTypes, Routes
<1>2. CreateInv'
  BY FrameCreate DEF EndStages
<1>3. CachedInv'
  <2>1. CASE calls[c].at = "add" /\ net'[c[3]] = calls[c].ip
    <3>1. \A n \in Names : c[3] \in stable /\ Owner(n, c[3]) /\ calls[c].ip = servers[n] => cache[n] = servers[n]
      BY <1>0, <2>1 DEF KeptInv, CreateInv
    <3>2. stable \subseteq CIDRs
      BY DEF TypeInv, WorldTypes
    <3> QED
      BY <1>1, <2>1, <3>1, <3>2 DEF KeptInv, CachedInv, CallFrame, Owner
  <2>2. CASE net'[c[3]] = net[c[3]] \/ net'[c[3]] = None
    BY <1>1, <2>2, FrameCached
  <2> QED
    BY <1>1, <2>1, <2>2
<1>4. DeleteInv'
  <2> SUFFICES ASSUME NEW k \in DOMAIN calls, NEW n \in Names,
                      k[1] = "delete", k[3] \in stable, Owner(n, k[3]), calls'[k].at \in DeleteStages
               PROVE  /\ net'[k[3]] # servers[n] /\ network[k[3]] # servers[n]
                      /\ calls'[k].at = "delete" => calls'[k].ip # servers[n]
                      /\ \A j \in DOMAIN calls :
                            j[1] = "create" /\ j[3] = k[3] /\ calls'[j].at \notin EndStages =>
                                /\ net'[k[3]] # None /\ network[k[3]] # None
                                /\ calls'[j].at # "add"
    BY DEF DeleteInv, CallFrame, Owner
  <2>1. k # c /\ calls'[k] = calls[k] /\ k[3] \in CIDRs
    BY CallFacts DEF CallFrame, EndStages, DeleteStages
  <2>2. /\ net[k[3]] # servers[n] /\ network[k[3]] # servers[n]
        /\ calls[k].at = "delete" => calls[k].ip # servers[n]
        /\ \A j \in DOMAIN calls :
              j[1] = "create" /\ j[3] = k[3] /\ calls[j].at \notin EndStages =>
                  /\ net[k[3]] # None /\ network[k[3]] # None
                  /\ calls[j].at # "add"
    BY <2>1 DEF KeptInv, DeleteInv
  <2>3. CASE k[3] # c[3]
    BY <1>1, <2>1, <2>2, <2>3 DEF CallFrame
  <2>4. CASE k[3] = c[3]
    <3>1. c[1] = "create"
      BY <1>0, <2>1, <2>4 DEF KeptInv, UniqueCalls
    <3>2. \A j \in DOMAIN calls : j[1] = "create" /\ j[3] = k[3] => j = c
      BY <2>4, <3>1 DEF KeptInv, UniqueCalls
    <3>3. calls[c].at # "add"
      BY <2>2, <2>4, <3>1
    <3>4. net'[k[3]] # servers[n]
      BY <1>1, <2>2, <2>4, <3>3, Values DEF Owner
    <3> QED
      BY <2>1, <2>2, <3>2, <3>4
  <2> QED
    BY <2>3, <2>4
<1> QED
  BY <1>2, <1>3, <1>4, FrameKept

LEMMA ReplaceKept ==
    ASSUME TypeInv, KeptInv, NEW c \in DOMAIN calls, createReplace(c)
    PROVE  KeptInv'
<1>1. /\ CallFrame(c) /\ network' = network /\ cache' = cache /\ calls[c].at = "replace"
      /\ net' = net \/ net' = [net EXCEPT ![c[3]] = None]
  BY ReplaceType, CallsRun DEF createReplace, CallFrame, Moved, world
<1>2. calls'[c].at \in EndStages
  <2>1. calls'[c] = Call("ok", None) \/ calls'[c] = Call("error", None)
    BY ReplaceType DEF Moved
  <2> QED
    BY <2>1 DEF Call, EndStages
<1> QED
  BY <1>1, <1>2, EndedKept DEF EndStages

LEMMA AddKept ==
    ASSUME TypeInv, KeptInv, NEW c \in DOMAIN calls, createAdd(c)
    PROVE  KeptInv'
<1>1. /\ CallFrame(c) /\ network' = network /\ cache' = cache
      /\ c[1] = "create" /\ calls[c].at = "add"
      /\ net' = net \/ net' = [net EXCEPT ![c[3]] = calls[c].ip]
  BY AddType, CallsRun DEF createAdd, CallFrame, Moved, world
<1>2. \/ calls'[c].at \in EndStages
      \/ calls'[c].at = "server" /\ net' = net
  <2>1. \/ calls'[c] = Call("ok", None) \/ calls'[c] = Call("error", None)
        \/ calls'[c] = Call("server", None) /\ net' = net
    BY AddType DEF Moved
  <2> QED
    BY <2>1 DEF Call, EndStages
<1>3. CASE calls'[c].at \in EndStages
  BY <1>1, <1>3, EndedKept DEF EndStages
<1>4. CASE calls'[c].at = "server" /\ net' = net
  <2>1. CachedInv'
    BY <1>1, <1>4, FrameCached
  <2>2. CreateInv'
    BY <1>1, <1>4, FrameCreate
  <2>3. DeleteInv'
    BY <1>1, <1>4, FrameDelete DEF EndStages
  <2> QED
    BY <1>1, <2>1, <2>2, <2>3, FrameKept
<1> QED
  BY <1>2, <1>3, <1>4

LEMMA PickKept ==
    ASSUME TypeInv, KeptInv, NEW c \in DOMAIN calls, deletePick(c)
    PROVE  KeptInv'
<1>1. /\ CallFrame(c) /\ net' = net /\ network' = network /\ cache' = cache
      /\ c[1] = "delete" /\ calls[c].at = "pick"
  BY PickType, CallsRun DEF deletePick, CallFrame, Moved, world
<1>2. calls'[c].at = "delete" /\ calls'[c].ip = network[c[3]]
  <2>1. calls'[c] = Call("delete", network[c[3]])
    BY PickType DEF Moved
  <2> QED
    BY <2>1 DEF Call
<1>3. CachedInv'
  BY <1>1, FrameCached
<1>4. CreateInv'
  BY <1>1, FrameCreate
<1>5. DeleteInv'
  <2> SUFFICES ASSUME NEW k \in DOMAIN calls, NEW n \in Names,
                      k[1] = "delete", k[3] \in stable, Owner(n, k[3]), calls'[k].at \in DeleteStages
               PROVE  /\ net[k[3]] # servers[n] /\ network[k[3]] # servers[n]
                      /\ calls'[k].at = "delete" => calls'[k].ip # servers[n]
                      /\ \A j \in DOMAIN calls :
                            j[1] = "create" /\ j[3] = k[3] /\ calls'[j].at \notin EndStages =>
                                /\ net[k[3]] # None /\ network[k[3]] # None
                                /\ calls'[j].at # "add"
    BY <1>1 DEF DeleteInv, CallFrame, Owner
  <2>1. calls[k].at \in DeleteStages
    BY <1>1 DEF CallFrame, DeleteStages
  <2>2. /\ net[k[3]] # servers[n] /\ network[k[3]] # servers[n]
        /\ calls[k].at = "delete" => calls[k].ip # servers[n]
        /\ \A j \in DOMAIN calls :
              j[1] = "create" /\ j[3] = k[3] /\ calls[j].at \notin EndStages =>
                  /\ net[k[3]] # None /\ network[k[3]] # None
                  /\ calls[j].at # "add"
    BY <2>1 DEF KeptInv, DeleteInv
  <2>3. \A j \in DOMAIN calls : j[1] = "create" => calls'[j] = calls[j]
    BY <1>1 DEF CallFrame
  <2>4. calls'[k].at = "delete" => calls'[k].ip # servers[n]
    BY <1>1, <1>2, <2>2 DEF CallFrame
  <2> QED
    BY <2>2, <2>3, <2>4
<1> QED
  BY <1>1, <1>3, <1>4, <1>5, FrameKept

LEMMA DeleteKept ==
    ASSUME TypeInv, KeptInv, NEW c \in DOMAIN calls, deleteRouteFromHcloud(c)
    PROVE  KeptInv'
<1>1. /\ CallFrame(c) /\ network' = network /\ cache' = cache /\ calls[c].at = "delete"
      /\ net' = net \/ net' = [net EXCEPT ![c[3]] = None]
  BY DeleteType, CallsRun DEF deleteRouteFromHcloud, CallFrame, Moved, world
<1>2. calls'[c].at \in EndStages
  <2>1. calls'[c] = Call("ok", None) \/ calls'[c] = Call("error", None)
    BY DeleteType DEF Moved
  <2> QED
    BY <2>1 DEF Call, EndStages
<1> QED
  BY <1>1, <1>2, EndedKept DEF EndStages

LEMMA FailsKept ==
    ASSUME TypeInv, KeptInv, NEW c \in CallIDs, callFails(c)
    PROVE  KeptInv'
<1>1. /\ CallFrame(c) /\ network' = network /\ cache' = cache
      /\ c \in DOMAIN calls /\ calls[c].at \notin EndStages
  BY FailsType, CallsRun DEF callFails, CallFrame, Moved, world, EndStages
<1>2. calls'[c].at \in EndStages
  <2>1. calls'[c] = Call("error", None)
    BY FailsType DEF Moved
  <2> QED
    BY <2>1 DEF Call, EndStages
<1>3. \/ net' = net
      \/ net' = [net EXCEPT ![c[3]] = None]
      \/ calls[c].at = "add" /\ net' = [net EXCEPT ![c[3]] = calls[c].ip]
  BY FailsType
<1> QED
  BY <1>1, <1>2, <1>3, EndedKept

LEMMA NextKept ==
    ASSUME ReuseIPs = FALSE, TypeInv, KeptInv, [Next]_vars
    PROVE  KeptInv'
<1>1. CASE ListRoutes
  BY <1>1, ListRoutesKept
<1>2. CASE \E d \in CIDRs : hcloudRouteToRoute(d)
  BY <1>2, RouteToRouteKept
<1>3. CASE StartCalls
  BY <1>3, StartCallsKept
<1>4. CASE EndSync \/ ListFails
  BY <1>4, EndKept
<1>5. CASE \E c \in DOMAIN calls : CallOf(c)
  BY <1>5, CreateLookupKept, CreateReloadKept, CheckKept, ReplaceKept, AddKept, PickKept, DeleteKept
     DEF CallOf
<1>6. CASE \E c \in CallIDs : callFails(c)
  BY <1>6, FailsKept
<1>7. CASE Outside
  BY <1>7, OutsideKept
<1>8. CASE Expire \/ UNCHANGED vars
  BY <1>8, QuietKept
<1> QED
  BY <1>1, <1>2, <1>3, <1>4, <1>5, <1>6, <1>7, <1>8, NextCases

\* The calls that remove or overwrite routes leave a good one alone.
LEMMA GoodStep ==
    ASSUME TypeInv, KeptInv, [Next]_vars, NEW d \in stable,
           net[d] = Gateway(d), Gateway(d) # None
    PROVE  net'[d] = net[d]
<1>0. d \in CIDRs
  BY DEF TypeInv, WorldTypes
<1>1. PICK n \in Names : Owner(n, d)
  BY <1>0, OwnGateway
<1>2. net[d] = servers[n]
  BY <1>0, <1>1, OwnGateway
<1>3. ASSUME NEW c \in DOMAIN calls,
             \/ net' = net
             \/ calls[c].at = "add" /\ net[c[3]] = None /\ net' = [net EXCEPT ![c[3]] = calls[c].ip]
             \/ /\ calls[c].at \in {"delete", "replace"} /\ net[c[3]] = calls[c].ip
                /\ net' = [net EXCEPT ![c[3]] = None]
      PROVE  net'[d] = net[d]
  <2>0. c[3] \in CIDRs /\ net \in [CIDRs -> IPs \cup {None}]
    BY CallFacts DEF TypeInv, WorldTypes, Routes
  <2>1. CASE c[3] # d
    BY <1>0, <1>3, <2>0, <2>1
  <2>2. CASE c[3] = d /\ calls[c].at = "add" /\ net[c[3]] = None
    BY <1>1, <1>2, <2>2, Values DEF Owner
  <2>3. CASE c[3] = d /\ calls[c].at = "replace"
    <3>1. calls[c].ip # servers[n]
      BY <1>1, <2>3, CallFacts DEF KeptInv, CreateInv, CreateStages
    <3> QED
      BY <1>2, <1>3, <2>3, <3>1
  <2>4. CASE c[3] = d /\ calls[c].at = "delete"
    <3>1. net[d] # servers[n]
      BY <1>1, <2>4, CallFacts DEF KeptInv, DeleteInv, DeleteStages
    <3> QED
      BY <1>2, <3>1
  <2> QED
    BY <1>3, <2>1, <2>2, <2>3, <2>4
<1>4. CASE \E c \in DOMAIN calls : CallOf(c)
  <2>1. PICK c \in DOMAIN calls : CallOf(c)
    BY <1>4
  <2>2. \/ net' = net
        \/ calls[c].at = "add" /\ net[c[3]] = None /\ net' = [net EXCEPT ![c[3]] = calls[c].ip]
        \/ /\ calls[c].at \in {"delete", "replace"} /\ net[c[3]] = calls[c].ip
           /\ net' = [net EXCEPT ![c[3]] = None]
    BY <2>1, ReplaceType, AddType, DeleteType
       DEF CallOf, createLookup, createReload, checkIfRouteAlreadyExists, deletePick
  <2> QED
    BY <1>3, <2>2
<1>5. CASE \E c \in CallIDs : callFails(c)
  <2>1. PICK c \in CallIDs : callFails(c)
    BY <1>5
  <2> QED
    BY <1>3, <2>1, FailsType
<1>6. CASE \/ ListRoutes \/ (\E e \in CIDRs : hcloudRouteToRoute(e)) \/ StartCalls
           \/ EndSync \/ ListFails \/ Outside \/ Expire \/ UNCHANGED vars
  BY <1>6, ListRoutesType, RouteToRouteType, StartCallsType, EndType, OutsideType, QuietType
<1> QED
  BY <1>4, <1>5, <1>6, NextCases

\* GoodRouteKept: as long as no private IP is given to a second server, no
\* call of a sync removes or replaces the route to the node that has owned its
\* CIDR since the sync began (DeleteRoute and CreateRoute of routes.go, with
\* the copy of the network that they share and the cache of servers).
THEOREM GoodRoutesStay ==
    ASSUME ReuseIPs = FALSE
    PROVE  Spec => GoodRouteKept
<1>1. TypeInv /\ KeptInv /\ [Next]_vars => KeptInv'
  BY NextKept
<1>2. TypeInv /\ KeptInv /\ [Next]_vars =>
        [\A d \in stable : net[d] = Gateway(d) /\ Gateway(d) # None => net'[d] = net[d]]_vars
  BY GoodStep
<1> QED
  BY <1>1, <1>2, InitKept, TypeInvariant, PTL DEF Spec, GoodRouteKept
=============================================================================
