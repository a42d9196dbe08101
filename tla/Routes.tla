------------------------------- MODULE Routes -------------------------------
(***************************************************************************)
(* hcloud/routes.go and the AllServersCache of internal/hcops/server.go:   *)
(* the routes of the private network, one for the pod CIDR of each node,   *)
(* its gateway being the private IP of the node's server.                  *)
(*                                                                         *)
(* The route controller of k8s.io/cloud-provider calls ListRoutes, reads   *)
(* the nodes, and then makes all the CreateRoute and DeleteRoute calls of  *)
(* the sync at the same time, one goroutine each.  The calls share the     *)
(* copy of the network (r.network, no lock) and the cache of servers,      *)
(* which is up to ten minutes old.                                         *)
(***************************************************************************)
EXTENDS Naturals, FiniteSets

CONSTANTS Names,       \* names of servers, which are those of their nodes
          CIDRs,       \* destinations of routes, all in the cluster's CIDR
          IPs,         \* private IPs
          None,        \* no node, no route, no IP
          Gone,        \* no server of that name
          ReuseIPs,    \* an IP may be given to another server
          MaxFaults,   \* bound on failing calls and locked networks
          MaxEdits     \* bound on what changes from outside

ASSUME RoutesAssumption ==
    /\ None \notin CIDRs \cup IPs \cup Names
    /\ Gone \notin IPs \cup {None}
    /\ ReuseIPs \in BOOLEAN
    /\ MaxFaults \in Nat
    /\ MaxEdits \in Nat

VARIABLES nodes,     \* the pod CIDR of each node, None if it has none
          servers,   \* the private IP of each server, None if not attached
          net,       \* the routes in the project: the gateway of each CIDR
          network,   \* r.network.Routes
          cache,     \* AllServersCache: servers as they were loaded
          expired,   \* lastRefresh is more than MaxAge ago, or zero
          sync,      \* the sync in progress
          calls,     \* the calls of the sync
          used,      \* IPs that some server or route has or had
          stable,    \* CIDRs whose node and IP did not change during the sync
          faults,
          edits

vars == <<nodes, servers, net, network, cache, expired, sync, calls, used, stable, faults, edits>>
world == <<nodes, servers, used, edits>>

Servers == [Names -> IPs \cup {None, Gone}]
Routes == [CIDRs -> IPs \cup {None}]

\* What a call is about: the kind, the node (None for a blackhole), the CIDR.
CallIDs == {"create", "delete"} \X (Names \cup {None}) \X CIDRs

\* Where a call is; ip is the gateway it works with.
Call(at, ip) == [at |-> at, ip |-> ip]

Idle == [at |-> "idle"]

\* No two servers share an IP, no two nodes a CIDR.
Apart(f, S) == \A m, n \in DOMAIN f : f[m] = f[n] /\ f[m] \in S => m = n

Init ==
    /\ servers \in {s \in Servers : Apart(s, IPs)}
    /\ nodes \in {f \in [Names -> CIDRs \cup {None}] : Apart(f, CIDRs)}
    /\ \A n \in Names : servers[n] = Gone => nodes[n] = None
    /\ net \in Routes
    /\ network = net
    /\ cache = [n \in Names |-> Gone]
    /\ expired = TRUE
    /\ sync = Idle
    /\ calls = << >>
    /\ used = ({servers[n] : n \in Names} \cup {net[d] : d \in CIDRs}) \cap IPs
    /\ stable = CIDRs
    /\ faults = 0
    /\ edits = 0

\* The gateway the route of a CIDR should have.
Gateway(d) ==
    IF \E n \in Names : nodes[n] = d /\ servers[n] \in IPs
    THEN servers[CHOOSE n \in Names : nodes[n] = d]
    ELSE None

Fault == faults < MaxFaults /\ faults' = faults + 1

----------------------------------------------------------------------------
(* AllServersCache.  A lookup holds the lock, so it is one step; it loads  *)
(* all servers if it finds none or if the cache has expired.               *)

Reload == cache' = servers /\ expired' = FALSE

\* getCache: found says whether the cache holds what is looked for.
getCache(found) ==
    IF found /\ ~expired THEN UNCHANGED <<cache, expired>> ELSE Reload

ByPrivateIP(c, ip) == IF \E n \in Names : c[n] = ip THEN CHOOSE n \in Names : c[n] = ip ELSE None

----------------------------------------------------------------------------
(* ListRoutes.                                                             *)

reloadNetwork == network' = net

ListRoutes ==
    /\ sync = Idle
    /\ reloadNetwork
    /\ sync' = [at |-> "list", todo |-> {d \in CIDRs : net[d] # None}, listed |-> {}]
    /\ stable' = CIDRs
    /\ UNCHANGED <<net, cache, expired, calls, faults, world>>

\* Mutant: the gateway is looked up in the cache as it is.
StaleRouteToRoute(d) ==
    /\ sync.at = "list"
    /\ d \in sync.todo
    /\ sync' = [sync EXCEPT !.todo = @ \ {d},
                            !.listed = @ \cup {<<ByPrivateIP(cache, network[d]), d>>}]
    /\ UNCHANGED <<net, network, cache, expired, calls, stable, faults, world>>

\* One route: a gateway that no server has makes it a blackhole.
hcloudRouteToRoute(d) ==
    /\ sync.at = "list"
    /\ d \in sync.todo
    /\ getCache(\E n \in Names : cache[n] = network[d])
    /\ sync' = [sync EXCEPT !.todo = @ \ {d},
                            !.listed = @ \cup {<<ByPrivateIP(cache', network[d]), d>>}]
    /\ UNCHANGED <<net, network, calls, stable, faults, world>>

\* The calls of a sync (route controller): a route for each node that has a
\* CIDR and no such route, and the removal of routes that fit no node.
Due(listed) ==
    {<<"create", n, nodes[n]>> : n \in {m \in Names : nodes[m] # None /\ <<m, nodes[m]>> \notin listed}}
      \cup {<<"delete", r[1], r[2]>> : r \in {s \in listed : s[1] = None \/ nodes[s[1]] # s[2]}}

StartCalls ==
    /\ sync.at = "list"
    /\ sync.todo = {}
    /\ calls' = [c \in Due(sync.listed) |->
                    IF c[1] = "create" THEN Call("server", None) ELSE Call("pick", None)]
    /\ sync' = [at |-> "run"]
    /\ UNCHANGED <<net, network, cache, expired, stable, faults, world>>

\* wg.Wait.
EndSync ==
    /\ sync.at = "run"
    /\ \A c \in DOMAIN calls : calls[c].at \in {"ok", "error"}
    /\ sync' = Idle
    /\ calls' = << >>
    /\ UNCHANGED <<net, network, cache, expired, stable, faults, world>>

\* ListRoutes fails.
ListFails ==
    /\ sync.at = "list"
    /\ Fault
    /\ sync' = Idle
    /\ UNCHANGED <<net, network, cache, expired, calls, stable, world>>

----------------------------------------------------------------------------
(* CreateRoute.                                                            *)

At(c, stage) == c \in DOMAIN calls /\ calls[c].at = stage

Move(c, stage, ip) == calls' = [calls EXCEPT ![c] = Call(stage, ip)]

\* Mutant: the result of the lookup is used whatever it is.
LookupUnchecked(c) ==
    /\ At(c, "server")
    /\ Reload
    /\ Move(c, "reload", cache'[c[2]])
    /\ UNCHANGED <<net, network, sync, stable, faults, world>>

\* The server of the node, looked up once more if it is not in the network.
createLookup(c) ==
    /\ At(c, "server")
    /\ getCache(cache[c[2]] \in IPs)
    /\ IF cache'[c[2]] \in IPs THEN Move(c, "reload", cache'[c[2]]) ELSE Move(c, "error", None)
    /\ UNCHANGED <<net, network, sync, stable, faults, world>>

createReload(c) ==
    /\ At(c, "reload")
    /\ reloadNetwork
    /\ Move(c, "check", calls[c].ip)
    /\ UNCHANGED <<net, cache, expired, sync, stable, faults, world>>

\* The rest of checkIfRouteAlreadyExists, on r.network as it is now; the
\* server is looked up again.
checkIfRouteAlreadyExists(c) ==
    LET gw == network[c[3]]
    IN  /\ At(c, "check")
        /\ \/ /\ gw = None
              /\ Move(c, "add", calls[c].ip)
              /\ UNCHANGED <<cache, expired>>
           \/ /\ gw # None
              /\ getCache(cache[c[2]] # Gone)
              /\ \/ cache'[c[2]] = gw /\ Move(c, "ok", None)
                 \/ cache'[c[2]] \in IPs \ {gw} /\ Move(c, "replace", gw)
                 \/ cache'[c[2]] \in {None, Gone} /\ Move(c, "error", None)
        /\ UNCHANGED <<net, network, sync, stable, faults, world>>

\* Network.DeleteRoute of the API, for a CIDR and the gateway it should have.
APIDelete(d, ip) == net' = [net EXCEPT ![d] = None]

\* The route to another gateway is removed; no new one is added.
createReplace(c) ==
    /\ At(c, "replace")
    /\ \/ /\ net[c[3]] = calls[c].ip
          /\ APIDelete(c[3], calls[c].ip)
          /\ Move(c, "ok", None)
       \/ /\ net[c[3]] # calls[c].ip
          /\ Move(c, "error", None)
          /\ UNCHANGED net
    /\ UNCHANGED <<network, cache, expired, sync, stable, faults, world>>

\* A locked network makes CreateRoute start again.
createAdd(c) ==
    /\ At(c, "add")
    /\ \/ /\ net[c[3]] = None
          /\ net' = [net EXCEPT ![c[3]] = calls[c].ip]
          /\ Move(c, "ok", None)
          /\ UNCHANGED faults
       \/ /\ net[c[3]] # None
          /\ Move(c, "error", None)
          /\ UNCHANGED <<net, faults>>
       \/ /\ Fault
          /\ Move(c, "server", None)
          /\ UNCHANGED net
    /\ UNCHANGED <<network, cache, expired, sync, stable, world>>

----------------------------------------------------------------------------
(* DeleteRoute.                                                            *)

\* The gateway is taken from r.network; without a route it is the nil IP, which
\* IsUnspecified does not tell from a real one.
deletePick(c) ==
    /\ At(c, "pick")
    /\ Move(c, "delete", network[c[3]])
    /\ UNCHANGED <<net, network, cache, expired, sync, stable, faults, world>>

deleteRouteFromHcloud(c) ==
    /\ At(c, "delete")
    /\ \/ /\ calls[c].ip # None /\ net[c[3]] = calls[c].ip
          /\ APIDelete(c[3], calls[c].ip)
          /\ Move(c, "ok", None)
       \/ /\ calls[c].ip = None \/ net[c[3]] # calls[c].ip
          /\ Move(c, "error", None)
          /\ UNCHANGED net
    /\ UNCHANGED <<network, cache, expired, sync, stable, faults, world>>

\* A call of the API fails, before or after its effect.
callFails(c) ==
    /\ c \in DOMAIN calls
    /\ calls[c].at \notin {"ok", "error"}
    /\ Fault
    /\ Move(c, "error", None)
    /\ \/ UNCHANGED net
       \/ At(c, "add") /\ net[c[3]] = None /\ net' = [net EXCEPT ![c[3]] = calls[c].ip]
       \/ /\ At(c, "delete") \/ At(c, "replace")
          /\ net[c[3]] # None /\ net[c[3]] = calls[c].ip
          /\ APIDelete(c[3], calls[c].ip)
    /\ UNCHANGED <<network, cache, expired, sync, stable, world>>

CallStep ==
    \E c \in DOMAIN calls :
        \/ createLookup(c) \/ createReload(c) \/ checkIfRouteAlreadyExists(c)
        \/ createReplace(c) \/ createAdd(c)
        \/ deletePick(c) \/ deleteRouteFromHcloud(c)

----------------------------------------------------------------------------
(* The project and the cluster.                                            *)

\* Ten minutes pass.
Expire ==
    /\ ~expired
    /\ expired' = TRUE
    /\ UNCHANGED <<net, network, cache, sync, calls, stable, faults, world>>

Edit == edits < MaxEdits /\ edits' = edits + 1
Disturb == stable' = {d \in stable : Gateway(d)' = Gateway(d)}

\* A server is deleted and its node with it; the route stays.
DeleteServer(n) ==
    /\ Edit
    /\ servers[n] # Gone
    /\ servers' = [servers EXCEPT ![n] = Gone]
    /\ nodes' = [nodes EXCEPT ![n] = None]
    /\ Disturb
    /\ UNCHANGED <<net, network, cache, expired, sync, calls, used, faults>>

\* A server is created, or detached and attached again.
MoveServer(n, ip) ==
    /\ Edit
    /\ ip # servers[n]
    /\ ip # None => ip \notin {servers[m] : m \in Names}
    /\ ip \in used => ReuseIPs
    /\ servers' = [servers EXCEPT ![n] = ip]
    /\ used' = used \cup ({ip} \ {None})
    /\ UNCHANGED <<nodes, net, network, cache, expired, sync, calls, faults>>
    /\ Disturb

\* A node gets its CIDR, possibly one of a node that has gone.
AssignCIDR(n, d) ==
    /\ Edit
    /\ servers[n] # Gone
    /\ nodes[n] = None
    /\ d \notin {nodes[m] : m \in Names}
    /\ nodes' = [nodes EXCEPT ![n] = d]
    /\ UNCHANGED <<servers, net, network, cache, expired, sync, calls, used, faults>>
    /\ Disturb

Controller ==
    \/ ListRoutes \/ (\E d \in CIDRs : hcloudRouteToRoute(d)) \/ StartCalls \/ CallStep \/ EndSync

Next ==
    \/ Controller \/ ListFails \/ Expire
    \/ \E c \in CallIDs : callFails(c)
    \/ \E n \in Names : DeleteServer(n)
    \/ \E n \in Names, ip \in IPs \cup {None} : MoveServer(n, ip)
    \/ \E n \in Names, d \in CIDRs : AssignCIDR(n, d)

Spec == Init /\ [][Next]_vars

\* The controller syncs over and over, its goroutines run, and time passes.
Fairness == WF_vars(Controller) /\ WF_vars(Expire)
FairSpec == Spec /\ Fairness

----------------------------------------------------------------------------
(* Properties.                                                             *)

TypeOK ==
    /\ nodes \in [Names -> CIDRs \cup {None}]
    /\ servers \in Servers
    /\ net \in Routes /\ network \in Routes
    /\ cache \in Servers
    /\ expired \in BOOLEAN /\ stable \subseteq CIDRs
    /\ used \subseteq IPs
    /\ DOMAIN calls \subseteq CallIDs
    /\ \A c \in DOMAIN calls : calls[c].ip \in IPs \cup {None}
    /\ faults \in 0 .. MaxFaults /\ edits \in 0 .. MaxEdits

\* As long as no private IP is given to a second server, the calls of a sync
\* never remove a route that leads to the node which has owned its CIDR since
\* the sync began, however the goroutines, the shared copy of the network and
\* the old cache play together.
GoodRouteKept ==
    [][\A d \in stable : net[d] = Gateway(d) /\ Gateway(d) # None => net'[d] = net[d]]_vars

\* When changes and failures stop, the network has exactly the routes of the
\* nodes, also if CIDRs and IPs changed hands and the cache was out of date.
RoutesConverge == <>[](\A d \in CIDRs : net[d] = Gateway(d))
=============================================================================
