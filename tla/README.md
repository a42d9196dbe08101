# A TLA+ model of the Hetzner Cloud controller manager

The cloud controller manager connects a Kubernetes cluster with Hetzner Cloud
and with dedicated servers of Hetzner Robot. It keeps a Load Balancer for each
Service of type `LoadBalancer`, routes for the pod networks, and addresses and
metadata for nodes. It holds almost no state of its own: each operation reads
the cluster and the project, makes a sequence of API calls, and may stop after
any of them. The models here make each API call a step of its own.

## Inventory

| Component | State | Operations | What makes it correct |
|---|---|---|---|
| Service to Load Balancer binding (`hcloud/load_balancers.go`, lookup, create, delete and info of `internal/hcops/load_balancer.go`) | the Load Balancers with their name and UID label; the operations in progress | `GetLoadBalancer`, `EnsureLoadBalancer`, `UpdateLoadBalancer`, `EnsureLoadBalancerDeleted` | at most one Load Balancer per Service, none left behind, deletion ends |
| Reconciliation passes (`internal/hcops/load_balancer.go`, `certificates.go`) | attributes, networks, listen ports, targets and certificates in the project; the copy a pass works on | `ReconcileHCLB`, `ReconcileHCLBServices`, `ReconcileHCLBTargets` | the Load Balancer ends up as the Service, the nodes and the dedicated servers ask, whichever call failed; nothing is torn down without reason |
| NodePort source ranges (`hcloud/node_port_source.go`) | `loadBalancerSourceRanges` of the Service and the annotation that says which are the controller's | `reconcileNodePortSource`, `removeNodePortSource` | entries of users survive; the controller's own are exact |
| Routes (`hcloud/routes.go`) and the cache of servers (`internal/hcops/server.go`) | routes of the network, the shared copy of the network, servers loaded up to ten minutes ago | `ListRoutes`, `CreateRoute`, `DeleteRoute`, `ByName`, `ByPrivateIP`, `InvalidateCache` | each node ends up with its route, a good route is not removed |
| Robot client cache (`internal/robot/client/cache`) and rate limit (`internal/hcops/ratelimit.go`) | list of dedicated servers, its age, forced refreshes; the time of the last refusal | `ServerGet`, `ServerGetList`, `ServerGetListForceRefresh`, `SetCredentials`; `SetRateLimit`, `IsRateLimitExceeded` | answers are not older than the timeout nor from old credentials; no call while the limit is exceeded |
| Instances (`hcloud/instances.go`, `util.go`, `internal/providerid`) | none | `InstanceExists`, `InstanceShutdown`, `InstanceMetadata` | a node of an existing server is not reported as gone |
| Options of listen ports (`hclbServiceOptsBuilder` in `internal/hcops/load_balancer.go`, `internal/annotation`) | the listen ports with their options; the status of the Service | `ReconcileHCLBServices` with `extract` and the two builders, `LBToService`, `getLBStatus` | the options that annotations ask for are set, a malformed annotation changes nothing, the status says what the ports do |
| Start-up (`hcloud/cloud.go`, `NewCachedRobotClient`) and credential hot reload (`internal/credentials/hotreload.go`) | the files, the events of the watcher, the values last loaded, the credentials of the clients | `newCloud`, `Watch`, `handleEvent` | when the files stop changing the clients use what is in them |
| Rest of the start-up (`main.go`, environment), metrics, mocks | configuration | | |

How they interact. The Service controller of `k8s.io/cloud-provider` calls the
binding, which calls the passes and then the NodePort source ranges; the node
sync calls `UpdateLoadBalancer` from another goroutine. The passes ask the
Robot client for dedicated servers. The route controller calls the routes, one
goroutine per route. The node controllers call the instances, which ask the
Robot client. The hot reload changes the credentials under all of them.

Hard behaviours: calls that fail after their effect; restarts; two goroutines
on one Service; copies of Load Balancers, Services, networks and servers that
are old when they are used; limits; retries on locks and conflicts. The list
with source lines is `hazards` in `PROJECT.json`.

## Modules

**LoadBalancers** is the binding. `phase`, `annot` and `dirty` are the Service
and its place in the queue, `cloud` is the project, and `worker[s][k]` is the
operation in progress for Service `s` in the queue (`"service"`) or in the node
sync (`"node"`): its program counter, the annotations it was called with and
its copy of the Load Balancer. One action per API call: `GetByK8SServiceUID`,
`GetByName`, `Create`, `changeHCLBInfo`, then `FinishPass`, which stands for
the module LoadBalancerOps and for `getLBStatus`; `GetLoadBalancer`,
`deleteLoadBalancer`, `Delete` for the deletion. When these find nothing (more)
to delete, or something protected, the operation is let go (`LetGo`); the end of
the call, after `removeNodePortSource`, and the removal of the finalizer by the
Service controller are a later step (`Release`), before which users and the node
sync may do anything. Every call may fail before or
after its effect (`CallFails`, and `Fault` inside `Create`, `changeHCLBInfo`
and `Delete`), and the process may restart. Users create, edit and delete
Services, import Load Balancers and protect them. `BadValues` says whether
they may set annotations that do not parse.

**Ownership** is what the binding promises, as a specification of its own: a
Service owns Load Balancers (`owner`), a Load Balancer is unused, present or
deleted (`life`) and may be protected (`locked`). A Service may get a new Load
Balancer or adopt one only while it owns none; a Load Balancer is deleted only
for a Service that is being deleted and owns it. A Service is let go (state
`"leaving"`) at a moment when all it still owns is protected; it goes later, or
stays after all when the call fails. LoadBalancers implements it (`OwnershipKept`) with the
mapping owner = UID label, life = existence in the project, state = phase, with
`"leaving"` for an operation that is about to release the finalizer; names,
annotations, queue and operations are hidden. Two parameters say where the
promise is weaker: with `Overlap` (node sync and queue on the same Service) an
adoption may come when the Service is already gone, and with `Shared` (two
Services that use one name) a Load Balancer may be taken over from, or deleted
for, the other Service.

**LoadBalancerOps** is what the passes do to one Load Balancer once it is
found. `lb` is the Load Balancer in the project, `pass` the pass in progress
with the Service, the nodes and the copy (`pass.lb`) that it works with, none of
which the code updates between calls. The queue's Ensure and the node sync's
Update may both be in progress: `other` is the one that waits, `Switch` lets the
two take turns at any call, and `alone` says that no other pass ran beside the
present or else the last one. The API refuses what another pass has made
impossible: to detach a network, to remove a target or to delete a port that is
gone, to add what is there. `seen` is what the last pass worked with if it ran
alone and succeeded. `certs` are the certificates with the Service's label, by
name; `TakenNames` belong to certificates without it, for which
`CreateManagedCertificate` succeeds (`ErrAlreadyExists` is ignored) and makes
none.
The options of a listen port are one value per port number, which stands for
all of them (the module ListenPorts has the options); a target is a server with
public or private address or an address of a dedicated server. The node
selector of the Service is part of `nodes`. The limits of 25, 75 and 150
targets are scaled down to 2 and 3.

**ListenPorts** is the part of a pass that sets the options of listen ports. A
Service is a function of the annotations that are set and a sequence of ports;
`lb` holds the listen ports with all their options; `pass`, `other`, `Switch` and
`alone` are as in LoadBalancerOps. `apart` says that no two passes overlapped
since the last Ensure that ran alone began. `extract` says whether the
builder finds an error, `buildServiceOpts` what it sends, `Apply` (the API) that
an option which is not sent keeps its value. `pass.left` is `hclbListenPorts`.
At the end of an Ensure `LBToService` copies options of a listen port into the
Service, and `ipMode` derives the mode in the status from them.

**NodePortSource** is the read-modify-write of the source ranges. `obj` is the
Service in the API server, `cache` the informer's copy. Ranges are sets of
spellings; `NetOf` says which spellings describe the same network, as
`sameCIDR` compares them. The five attempts of `retry.DefaultRetry` are
`MaxTries`. As in the docs, the API server does not store source ranges for a
Service of another type.

**Routes** is one sync of the route controller after the other: `ListRoutes`
resolves each gateway through the cache of servers, then all `CreateRoute` and
`DeleteRoute` calls run interleaved, sharing `network` (`r.network`) and
`cache`. A lookup in the cache holds its lock and is one step. What the route
controller calls (`Due`) is modelled from its contract with `routes.go`.

**RobotInstances** is the cached list of dedicated servers and who asks for it.
`m`, `forced` and `holder` are the cache, the forced refreshes and the mutex,
`limit` is the unguarded rate limit, `call[c]` the operation of goroutine `c`.
A section under the mutex that calls Robot is three steps (take the mutex,
Robot answers, store and release), any other is one. `nodes` holds the provider
IDs that `InstanceMetadata` led to; versions of servers tell whether a name has
stayed. Time is a clock; `Tick` may come between any two steps. The rate limit
has no lock, so each read and write of its fields is a step. `refused` is a
history of how often and when it was last set, and whether a lookup that began
earlier has reset it since; `seen` is how often it had been set when a lookup
began.

**HotReload** is the life of the credentials. `at` is what the only goroutine
does next: a stage of `newCloud`, the handling of an event, or nothing. Each read
of a file is a step, so a pair of user and password may be read half before and
half after a change. A mounted secret changes as a whole with one event
`..data`; local files change one by one. Two histories mark the cases in which
the code cannot or does not follow: `missed` (a change without an event) and
`failed` (`SetCredentials` returned an error).

**MCLoadBalancers, MCLoadBalancerOps, MCListenPorts, MCNodePortSource, MCRoutes,
MCRobotInstances, MCHotReload** define the values of constants for TLC.
**LoadBalancersProofs**, **OwnershipProofs** (which extends it),
**LoadBalancerOpsProofs**, **ListenPortsProofs**, **NodePortSourceProofs**,
**RoutesProofs**, **RobotInstancesProofs** and **HotReloadProofs** hold the
theorems.

## Runs

| Run | Checks | Bounds |
|---|---|---|
| `lb_binding` | `UniqueOwner`, `OwnershipKept` (refinement) | 2 Services, 2 Load Balancers, a shared name, 2 faults, 2 edits, annotations that parse; symmetric in Services and Load Balancers |
| `lb_node_sync` | the same and `FinalizerReleased`, `DeletionCompletes` (fair) | 1 Service, 2 Load Balancers, overlapping node sync, 2 faults, 3 edits |
| `ops_config` | `ConfigConverged`, `ServicesConverged`, `StatusFresh`, `Converges` (fair) | 3 specs (a certificate of its own, the name of one that is taken, annotations that do not parse), 2 networks, imported Load Balancer with a port to remove, two passes at a time, 1 fault, 2 edits |
| `ops_targets` | `TargetsConverged`, `NoChurn` | 1 server, 1 dedicated server with two addresses, another target, two passes at a time, limits 2 and 3, 1 fault, 2 edits |
| `node_port_source` | `UserEntriesKept`, `SourcesExact` | 4 spellings of 3 networks, 2 attempts, 1 fault, 2 edits |
| `routes_races` | `GoodRouteKept` | 2 servers, 2 CIDRs, 3 IPs, 1 fault, 2 edits; symmetric |
| `routes_converge` | `RoutesConverge` (fair) | 2 servers that compete for 1 CIDR and 2 IPs, 1 fault, 2 edits |
| `robot_instances` | `NodeKept`, `NoListOfOldCredentials`, `ForcedOncePerTimeout`, `RateLimitRespected` | 2 goroutines, 2 servers that compete for a name, 2 ticks after the start with a timeout of 1, 1 fault, 2 edits; symmetric |
| `listen_ports` | `PortsServed`, `ModeMatchesPorts`, `MalformedLeavesPorts`, `FirstPortWins`, `PassesSucceed` (fair) | 8 Services (valid, malformed, removed annotations, ports with one number), 3 Load Balancers to start with, two passes at a time, 2 faults, 2 edits |
| `hot_reload` | `TokenFollows`, `RobotFollows`, `ComesUp` (fair) | 6 secrets, mounted, local or none, 2 faults, 3 changes of files |
| `lb_adopted`, `ops_certificate` | one violated property each, see below | the smallest instance that shows it |

Why these bounds are enough to be interesting: two Services can compete for a
name and a Load Balancer; two Load Balancers are what `ErrNonUniqueResult`
needs; two faults allow a call that failed after its effect and a restart; the
limit is smaller than the number of possible targets, so a pass removes, skips
and adds in the same run; two edits are a change and a change back, or a
deletion followed by a creation; two goroutines of a sync can meet on one CIDR;
three changes of files are one during the start, one between the reads of a pair
and one after them. Two edits are an old Service, or old nodes, in the pass of the
node sync and a new one in the pass of the queue beside it; the fault makes one
of them end half way. Of the attributes one differs there (`Change` is the same for
all but the type, which differs in `ops_targets`). Each `TypeOK` is checked in one run.

Deadlock checking is off where the system may really stop: Services that are
all gone, a Load Balancer with nothing to reconcile, a Service nobody edits,
files that nobody changes.
The routes are synced for ever, so there it is on.

Fairness. Weak fairness of starting and continuing operations: the work queue
hands out each key it holds, failed keys are put back, goroutines are
scheduled. In LoadBalancerOps and ListenPorts, where two passes take turns, it is
weak fairness of the steps of passes, whichever makes them: no pass is owed its
turn; the one that has it ends after finitely many calls.
In Routes, weak fairness of the periodic sync and of the expiry of
the cache, which is the passing of time. In HotReload, weak fairness of the
process, that is of the one goroutine that reads files, and of Kubernetes, which
starts a container again that has ended. Users and failures owe nothing.

### What the violated properties show

* `DeletedWithService` (`lb_adopted`): `changeHCLBInfo` copies the old labels
  over the new UID. A Load Balancer left behind by one Service (protected when
  that was deleted) and adopted by name by another keeps the first UID; it is
  not deleted with its second Service.
* `CertificateServed` (`ops_certificate`): a renamed managed certificate leaves
  two certificates with the label of the Service, and every later pass fails.

### Limits that the runs made visible

* `UniqueOwner` needs Services that do not use the same name when three of them
  and a rename come together: a stale label write of one can then give another
  a second Load Balancer. The theorem assumes it (`NamesNotShared`); the run
  with two Services does not need to.
* With an overlapping node sync a rename is excluded (`lb_node_sync`).
* The finalizer goes some time after the protection was tested and the label
  looked up. A user who lifts the protection in between, or a node sync that
  labels a Load Balancer late, leaves an unprotected Load Balancer behind.
  `FinalizerReleased` therefore speaks of the moment at which the Service is let
  go, and names the two as the only ones who can change anything after it.
* When the node sync's `UpdateLoadBalancer` overlaps `EnsureLoadBalancer`, the
  one that works for an older Service, older nodes or an older copy may make
  the last call, and both may succeed: the Load Balancer then has old values
  and nothing is due. A target can be taken away or a port rewritten although
  nothing has changed since a pass succeeded. Only the next pass that runs
  alone repairs it, which is why `ConfigConverged`, `ServicesConverged`,
  `TargetsConverged` and `PortsServed` ask for one (`alone`), `ModeMatchesPorts`
  for an Ensure (`apart`), and `NoChurn` begins with one. What happened before
  it does not matter. `StatusFresh` needs no such premise.
* A managed certificate whose name is taken by a certificate without the
  Service's label is not created and not found: unless the Service has one
  from before, whose options are then sent, no pass with that name succeeds
  (`Blocked`).
* `GetLoadBalancer` builds the status, so an annotation that does not parse
  keeps a Service from being deleted until it is corrected (the second case of
  `DeletionCompletes`).
* In the pass that upgrades the type of a Load Balancer, the limit of the old
  type still decides which targets are left out; the next pass adds them.
* `GoodRouteKept` needs IPs that are not given to a second server. Otherwise a
  gateway resolved from the old cache names the server that had the IP before,
  and the route of its successor is removed; `RoutesConverge`, which is checked
  with reuse, says that it comes back.
* The controller owns networks: an entry that a user adds for an address which
  the controller lists already goes with it, so `UserEntriesKept` does not count
  it as the user's, although the comment of `desiredSourceRanges` says of
  entries set by anyone else that they "are never removed".
* `CreateRoute` returns nil after it has only removed the route to another
  gateway (`checkIfRouteAlreadyExists` returns true then); the node is without a
  route until the next sync. `RoutesConverge` says that it gets one.
* `NodeKept` is about Nodes that got their provider ID from `InstanceMetadata`:
  the list that showed the name, or a newer one, is what later lookups use. A
  provider ID set by others can be looked up in a list from before the rename.
* `TargetsConverged` speaks of the dedicated servers the last pass was told of:
  nothing triggers a pass when they change.
* An option whose annotation is removed is not sent any more and stays as it is,
  although `internal/annotation/load_balancer.go` says "Default: false." of the
  proxy protocol. `PortsServed` therefore speaks of annotations that are set, and
  `ModeMatchesPorts` says that the status follows the ports, not the annotation.
* Annotations that are only for HTTP health checks have no effect unless one of
  the other health-check annotations is set, and the protocol of a health check
  defaults to that of the Service if one is (the annotation says "Default: tcp").
* Two ports with the same number make every pass fail after the first of them
  has been set (`Blocked`, `FirstPortWins`).
* `HotReload`: a change before `watcher.Add` or by removing a file raises no
  event that is handled; a failed `SetCredentials` is not tried again, since the
  values to compare with have been replaced; a mounted secret with an unusable
  token is not searched for Robot credentials, so that a pair which was read half
  before and half after an earlier change can stay. The premises of `TokenFollows`
  and `RobotFollows` name these cases.
* Without a Robot client, `..data` ignores Robot, while an event of a local file
  calls `SetCredentials` on nil, and the process starts again, although
  `hotreload.go` says "The robotClient can be nil". A directory without Robot
  files keeps the process from starting (`CannotStart`).
* A refusal by Robot stops the lookups that begin later. One that began before
  and has not asked yet still does, and one that is about to reset the limit
  after an earlier waiting time undoes the refusal (`RateLimitRespected`).

## Proofs

`LoadBalancersProofs` (TLAPS), for any sets of Services, Load Balancers and
names and any bounds on failures and edits:

* `TypeCorrect`: `Spec => []TypeOK`, with no further assumption.
* `OwnerIsUnique`: `Spec => []UniqueOwner`, and `FinalizerGoesLast`:
  `Spec => FinalizerReleased`, both assuming that the operations on a Service
  are serialised and that no two Services can use the same name.

`UniqueOwner` is not inductive: an operation that is about to create or to
relabel acts on what it read earlier. `FinalizerGoesLast` is about the moment a
Service is let go and about what can come between that and the end of its
finalizer. The invariant `IInv` adds what an
operation knows at each program counter: before `Create` no Load Balancer
carries the UID of the Service; before `changeHCLBInfo` the one that is held is
the only one the Service can own; before `Delete` it is the one with the label.
It also states that a Load Balancer labelled with a Service has a name that
only this Service can ask for, so that the operations of different Services do
not meet, and that only one operation per Service is under way. Each action is
one step of the proof, split by who acts.

`OwnershipProofs`, under the same assumptions:

* `OwnershipImplemented`: `Spec => OwnershipKept`, with `Overlap` and `Shared`
  both false, that is without late adoptions and without Services that take from
  each other.

Beyond `IInv` this needs to know for which Services operations are under way: one
only for a Service that exists, one of the deletion only for a Service that is
being deleted (`PhaseInv`); and that a Load Balancer that does not exist has no
label (`LabelInv`), so that the abstract owner is the label. `Create` maps to
`Create`, `changeHCLBInfo` to `Adopt` or to nothing, `Delete` to `Remove`, the
end of a lookup that finds nothing to delete to `LetGo`, `Release` to `Finish`,
and a call that fails or a restart before it to `Stay`; other lookups, failed
calls, starts and restarts change nothing that Ownership sees.

`LoadBalancerOpsProofs`, for any servers, networks, types with any limits, ports
and Services, and any number of failures and edits:

* `TypeCorrect`, `ConfigConverges`, `ServicesConverge`, `TargetsConverge` and
  `StatusIsFresh`: `Spec => []P` for `TypeOK`, `ConfigConverged`,
  `ServicesConverged`, `TargetsConverged` and `StatusFresh`.
* `NothingChurns`: `Spec => NoChurn`.

The properties speak of the moment when nothing is due, while the Load Balancer
is changed call by call from a copy that is never updated, and two passes may
do so at once. About the networks, which depend on no Service, both passes know
enough (`NetInv`): the networks only move towards the cluster's, and what a pass
has behind it stays done; this gives `StatusFresh` with overlaps. The rest of
the invariant is about a pass that runs alone, and asks nothing of the Load
Balancer that it begins with. It says what each stage of the pass may rely on. What is still ahead of it is as in the
copy: the attributes up to the stage that sets them (`AttrInv`), the ports
(`PortInv`), the targets. What is behind it is as the
Service of the pass asks: no stray target is left but those still to be removed
(`StrayInv`), and none is missing but those still to be added or skipped for the
limit (`MissingInv`). A pass that works for an old Service or for old nodes is
followed by another (`FreshInv`). `CertInv` and `SettledInv` carry this over to
the end of the pass, and `SeenInv`, for `NoChurn`, says that while nothing has
changed since the last pass, which was alone and successful, a later one that is
alone finds nothing to do. The
assumption on the constants gives types to the Services and to the Load
Balancers of the initial states; it excludes no value that the code can meet.

`ListenPortsProofs`, for any Services, listen ports and certificates:

* `TypeCorrect`, `PortsAreServed` and `ModeIsThatOfPorts`: `Spec => []P` for
  `TypeOK`, `PortsServed` and `ModeMatchesPorts`.
* `FirstWins`: `Spec => FirstPortWins`, and `MalformedIsHarmless`:
  `Spec => MalformedLeavesPorts`.

In the middle of a pass that runs alone the listen ports are those left of the copy and those
that were dealt with, and the two are disjoint (`DoneInv`); the latter serve the
Service. This is what removes exactly the left-over ports at the end, and what
refuses a second port with the same number. `ModeInv` says which listen port the
status is derived from, as long as passes have been `apart`. A pass with malformed annotations is still at its first
port, which makes the removal of left-over ports harmless. The assumption on
the constants says that a value of an annotation is of the kind its parser
returns, or `Invalid` where it can fail, and that a NodePort is always set.

`HotReloadProofs`, for any contents of the files and any number of changes,
failures and restarts:

* `TypeCorrect`: `Spec => []TypeOK`, with the token of a running process valid.
* `TokenIsFollowed`: `Spec => []TokenFollows`. The invariant says that a token
  which is not yet the one of the files is still to be read: an event that reads
  it is in the queue, or the read in progress has not come to it. While the file
  `token` is about to be read, either there is still no file `hcloud` or an event
  is in the queue; and the value to compare with is the token in use, or empty.
* `RobotIsFollowed`: `Spec => []RobotFollows`. The same for the pair, which is
  read in two steps (`RobotInv`): when the password is about to be read, the user
  that was read is the one in the file, or an event is in the queue that reads
  both again. The value to compare with is the pair in use unless
  `SetCredentials` failed; and only a mounted secret, whose token comes first,
  has the event `..data`.

`NodePortSourceProofs`, for any set of ranges and any number of attempts:

* `TypeCorrect`: `Spec => []TypeOK`.
* `UserEntriesStay`: `Spec => []UserEntriesKept`, with no further assumption.
  The invariant adds that no entry of a user describes a network of the
  annotation, and that a patch which will be accepted (its resourceVersion is
  the current one) is the one computed from the Service as it is.
* `SourcesAreExact`: `Spec => []SourcesExact`. Further, each entry is a user's or
  of a network that the annotation lists (`Explained`); the copy of the informer
  is a version the Service had (`CacheOld`); and unless the Service is due again,
  a call works for what this copy wants and ends only when that is on the
  Service (`CallFits`).

`RoutesProofs`, for any servers, nodes, CIDRs and IPs:

* `TypeCorrect`: `Spec => []TypeOK`, with or without reuse of IPs.
* `GoodRoutesStay`: `Spec => GoodRouteKept`, assuming `ReuseIPs = FALSE`. Without
  the assumption it is false, see above.

Whether a call removes a route was decided when the routes were listed. The
invariant `KeptInv` follows the decision: an IP is not used twice, so an entry
of the cache with the IP of a server is the entry of that server (`HistoryInv`)
and a good route is listed for its node (`ListInv`). In the calls the cache
knows the gateway of a good route (`CachedInv`), no two calls of a kind are about
one CIDR (`UniqueCalls`), a creation never replaces the good route (`CreateInv`),
and a CIDR whose bad route is being removed has no good one, which the creation
running beside it cannot add before the bad one is gone (`DeleteInv`).

`RobotInstancesProofs`, for any goroutines, servers and names, any timeout and
any waiting time:

* `TypeCorrect`: `Spec => []TypeOK`. That the number of refusals stays in its
  bound needs a count: each is a fault that was counted once.
* `ForcedOnce`: `Spec => ForcedOncePerTimeout`. A forced load that
  `forcedRefreshServerNames` no longer knows is older than the timeout.
* `LimitIsRespected`: `Spec => RateLimitRespected`. While a refusal stands and
  its waiting time is not over, the limit is set with the time of the refusal,
  and no lookup that began after it is past the check; the two writes of
  `SetRateLimit` and the reads of `IsRateLimitExceeded` are steps of their own.
* `OldListsAreDropped`: `Spec => []NoListOfOldCredentials`. The cached list and
  those on their way to the cache are of the present credentials, since these
  change only while nobody holds the mutex.
* `NodesAreKept`: `Spec => []NodeKept`. A provider ID is not newer than Robot's
  list, the cached list and the lists on their way, so a list that is looked up
  later shows the server, unless it was renamed since.

The proofs about RobotInstances use that `None` is no number (it is the time of a
load that never was).

Only model-checked: the liveness properties (`DeletionCompletes`, `Converges`,
`RoutesConverge`, `PassesSucceed`, `ComesUp`), since TLAPS has no rules for
fairness here; and the properties of LoadBalancers with an overlapping node sync
or shared names, where `UniqueOwner` holds on the instances of the runs and not
in general.

## Not modelled

* The environment other than `HCLOUD_TOKEN`: read once; the results are
  constants. A Robot user in the environment is left out.
* How annotations are parsed: a value is absent, invalid or a value. Of what
  `LBToService` writes, only what the status is derived from; the addresses and
  the host name in the status; the protocol of a port of a Service.
* More than one pass of a kind over a Load Balancer at a time: the queue and the
  node sync each handle a Service once at a time. The certificates of others
  do not change.
* `LBToService` writes into the Service object it is given. Whether that object
  is used again is up to the Service controller.
* Metrics and logs. An overflow of the watcher, which is only logged.
* Memory-level effects of the unlocked access to `r.network`: the pointer is
  read and written as a whole.
* The metadata of a Node other than its provider ID, and lookups of cloud
  servers, which keep no state.

## Plan

1. LoadBalancers with its proofs, LoadBalancerOps, NodePortSource with its
   proof, Routes, RobotInstances with the rate limit, ListenPorts, HotReload, and
   Ownership with its refinement: done.
2. Services: a composition of LoadBalancers and NodePortSource in which the
   removal of the entries follows the deletion of the Load Balancer.
3. Proofs: every safety property of the passing runs has its theorem. Left are
   the weaker forms of Ownership (`Overlap`, `Shared`) under assumptions weaker
   than serialised operations and unshared names, and `UniqueOwner` with an
   overlapping node sync.
