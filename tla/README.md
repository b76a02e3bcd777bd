# leosatellites in TLA+

A verification development for the LEO satellite simulator in `src/`, an OMNeT++/INET
model whose own logic is C++ under `src/src/`. It models what the simulator's control
modules do to each other's state while satellites move: which links exist, which
satellite serves a user terminal, what each table that packets are routed by contains.
Orbit mathematics is the environment.

## The system

| Part | State it keeps | Operations | Modelled in |
|---|---|---|---|
| `LeoChannelConstructor`, user-terminal side | `activeUserTerminalLinks`, `pendingUserTerminalHandovers`, `nextUserTerminalUpdate`, two timers | `handleMessage`, `refreshUserTerminalLinks`, `completePendingUserTerminalHandovers`, `scheduleUserTerminalHandoverTimer`, `publishNextUserTerminalHandoverTime` | `UserTerminalHandover` |
| `UserTerminalHandoverOracle` | per terminal: handover active, expected end, old and new satellite, next start | `markHardHandoverStarted/Ended`, `setNextHandoverStartTime(s)` | `UserTerminalHandover` |
| `LeoChannelConstructor`, links and interfaces | gates, `ppp` interfaces, `activeGroundStationLinks`, `dirtyPppModules` | `setUpSimulation`, `setUpGSLinks`, `create/removeGroundStationLink`, `create/removeUserTerminalLink`, `updatePPPModules`, `finalizeUserTerminalLinks` | `LinkFabric`, `IslGrid` |
| `LeoIpv4NetworkConfigurator` | `nodeModules`, `moduleGraphIDMap`, `routerIdMap`, `nextHopInterfaceMatrix`, endpoint tables, route files | `assignIDtoModules`, `setIpv4NodeIds`, `addNextHopInterface`, `addIpAddressMap`, `fillNextHopInterfaceMap`, `setGroundStationsWithEndpoints`, `generateTopologyGraph`, `loadConfiguration`, `establishInitialISLs` | `NodeNumbers`, `LinkFabric`, `PacketForwarding`, `IslGrid` |
| `LeoIpv4` | `primaryNextHopInterfaces` | `addKNextHop`, `clearNextHops`, `routeUnicastPacket` | `PacketForwarding` |
| Serving-satellite selection | none (a function of the time) | `selectServingSatelliteForUserTerminalAt` | `ServingSatelliteSelection`, `SelectionContract` |
| Mobility (`INorad`, `NoradA`, `NoradTLE`, `SatelliteMobility`) | propagator state | `updateTime`, look-ahead with save and restore, `setTargetPosition`, `isInterSatelliteLink` | `SatellitePositions`, `IslGrid` |
| `SatelliteNetworkConfigurator`, `LeoNetworkConfigurator` (older network types) | topology, static routes and routing table of every node, a timer | `handleMessage`, `reinvokeConfigurator`, `addStaticRoutes`, `configureAllRoutingTables`, `configureRoutingTable` | `StaticRoutes` |
| `libnorad`, NED files, queues, wrappers | | | not modelled |

How they interact: everything happens inside three events of the constructor. The start
event builds all links; `updateTimer` (period `updateInterval`) follows the satellites;
`userTerminalHandoverTimer` completes hard handovers. Each event changes the links, then
the interfaces, then the configurator's tables, by direct calls. `LeoIpv4` reads the
configurator's tables for every packet, between events. The two older configurators work
alone: at a timer they clear the routing tables of all nodes and compute them anew from
the sky, for networks without a constructor.

What is hard: two timers and a polling slot act on the same pending handovers; a decision
(target satellite, announced handover) is used an interval after it was made, when the
satellites have moved; gates outlive their links and pass from one kind of link to
another; four tables are brought up to date on different paths; routes are recomputed in
one of the two events only; each node's routes are computed apart from the others', but
packets need them all. `PROJECT.json` lists these hazards with their lines.

## Modules

`UserTerminalHandover` is the core. Its state is one record per terminal (link, pending
handover, the oracle's entry), the timers, and the endpoint tables as far as they name a
serving satellite. Actions: `StartSimulation`, `HandleUpdateTimer`, `HandleHandoverTimer`
(both run the whole of `refreshUserTerminalLinks`) and `AdvanceTime`, the kernel moving to
the next event while the satellites move. Times are relative to `simTime()`, so behaviours
of any length have finitely many states. The two timers have one priority in OMNeT++, so
`handoverQueuedFirst` records which was scheduled first. What the handlers read of the sky
is `visible` and `selected`, arbitrary but for the contract of the selection
(`SelectionAllowed`) and for being a function of time: what is computed for the next slot
(`nextSelected`) comes true then. A missing oracle or an empty list of terminals, where the
code returns early, is not an instance of interest and left out, as are the oracle's start
and last-end times, which nothing reads back.

`TerminalConnectivity` is the abstract specification of that component: a terminal is
served, waiting, or idle; it is never moved in one step; it gets the satellite that it
waited for, if it can see it. `UserTerminalHandover!HandoverIsHard` states the refinement.

`UserTerminalOutage` adds two history variables that measure outages for which the policy,
not the sky, is responsible, and count the slots that restarted a wait.

`LinkFabric` models gates, interfaces and tables. `fabric.gate[n]` lists what the gates of
node `n` lead to; the interface of gate `i` is identified with `i`, so is its address, as
in the code, where the address is a function of the module id. The sky picks ground-station
links; user-terminal links change as hard handovers may change them, which is what
`UserTerminalHandover` implements. Operators have the names of the C++ functions. Loops that
create and remove links, where one round takes the gate that another has freed, run link by
link in `ChangeLinks`; in loops over nodes a round touches only entries of its own node, so
they are written for all nodes at once.

`PacketForwarding` extends `LinkFabric` with the routes: the graph with its two orders of
edges and weights, the paths igraph may list, the records of a route file, the tables
that a saving or a loading run builds from them, and `routeUnicastPacket` as the operator
`OutgoingInterface`. Events of the fabric that update routes do so in the same step
(`NewRoutes`). In a loading run the file of an instant may be missing (`RouteFileMissing`):
the code warns and forwards by the tables it has, with interfaces that may have changed
hands. It may end within its header (`RouteFileEmpty`), when all tables have been cleared
already, or after some of its records (`RouteFileCut`), which counts as a complete load and is
not even warned about. `routes` says which tables there are: `"current"`, `"partial"` or
`"old"`. Delivery, shortest ways and the agreement of loaded with saved tables are
promised of current routes, also when earlier loads failed. `OnlyForDestination` is about
the others as well: a packet is never handed to a client or server that it is not for, and to
such a user terminal only when the last update had no file at all. That this case
is real is seen in the run: without its exception the property is violated there, by an
old interface whose gate serves a terminal now.

`ServingSatelliteSelection` is the choice of a satellite for one terminal: the reference
trajectory (`buildReferenceTrajectory`), a candidate's trajectory, which is the satellite's
row of `sky`, the warping distance as a recursive function over the code's matrix, and the
loop with its two candidates, one action per round. `SelectionContract` holds
what `UserTerminalHandover` assumes of it, so that assumption and guarantee are one
definition. Angles are whole degrees and the sky is arbitrary; the code reads nothing else.

`IslGrid` is the grid of inter-satellite links, computed by `setUpSimulation` for the
channels (`LinksFrom`), by `establishInitialISLs` for the routing graph (`EdgesFrom`) and by
`NoradA` as a test on two satellites. Each has its own arithmetic in the code, and its own
definition. One action is one round of a loop. The number of planes is computed by the code
in floating point; both results that rounding can give are in the model. `LinkFabric` and
`PacketForwarding` take links of this form as the constant `InterSatelliteLinks`.

`NodeNumbers` is how nodes get their numbers, which all tables are indexed by: the loops of
the configurator that fill the tables from number to module, module to number and name to
number, the ranges that tell a node's type, and the number that each `LeoIpv4` is told. One
action is one round of a loop. A run that saves routes writes the names of routers to a file
while it fills the table; if it cannot create the directory or the file, the function
returns before the loop and initialization goes on (`WriteModuleIDMappingFails`). The table
then has no satellites and ground stations, so addresses of routers are not
entered into the address map and terminals have no attached node (`addIpAddressMap`,
`setGroundStationsWithEndpoints`); `LinkFabric` and `PacketForwarding` model the runs whose
table is complete. `NetworkSetup` composes it with `IslGrid` in the order in
which a simulation comes up: numbers first, links and edges in the start event, the nodes'
own numbers last. Only there can be said that the routing graph is the network
(`EdgesHaveChannels`): edges join numbers, channels join modules.

`SatellitePositions` is about the instants that the simulator's positions are of. Satellites
move by events of their own (`Move`), the constructor's three events look ahead and then
set the delays of all channels from the positions they find, two of them also the weights of
routes. A position is its instant, a delay the set of instants it was computed from. The
future events are explicit: `queue` says when each one arrives and which others were
scheduled before it, the order in which OMNeT++ handles events of one time. What links exist is arbitrary here,
and so is when a reconnect is due; in the code `reconnectTime` is any instant after now.
The order in which C++ evaluates the arguments of `getDistance`, one of which refreshes what
the others read, is left open.

`StaticRoutes` is the computation that `SatelliteNetworkConfigurator` and
`LeoNetworkConfigurator` repeat at a timer; `par.filterLinks` tells the two apart, and the
other fields of `par` are the modules' parameters. One action is one round of a loop: the
link filter, node by node the paths to it by relaxation, the walk from every destination
to it and the route this gives, the merge into the tables, and, at the timer, all of that
once per autoroute element. Elements are records of what their attributes match. What is
inherited from INET is external: which of several shortest paths is taken is open, and so
are addresses, of which only equality is used. Which ground stations a satellite reaches
is an arbitrary relation that changes between events; satellites are those of `NoradA`,
which the filter casts to. `Lookup` and `Arrives` are the
longest-prefix match and the journey of a packet, for the properties. At start the routes of
all elements are merged into the same tables, and a match keeps the interface of the first
and takes the next hop of the last: where elements disagree (`OneWay` fails) an entry
may name two ends of no link at all. `RoutesOnEnabledLinks` and `PacketsReachDestinations`
except just those destinations and tables; `TablesFollowSky` excepts nothing: after
the timers the tables are rid of it, as of all routes for an earlier sky.

`UserTerminalHandoverProofs`, `LinkFabricProofs`, `PacketForwardingProofs`,
`ServingSatelliteSelectionProofs`, `SatellitePositionsProofs`, `NetworkSetupProofs` and
`StaticRoutesProofs` hold the theorems, `NaturalOrder` facts that they share about least and
greatest elements, induction and recursive functions. The `MC...` modules declare small instances. Operators with an underscore in their name are faulty
variants that show that a property can fail; nothing else uses them.

## Runs

| Run | Instance | Shows |
|---|---|---|
| `handover` | 2 terminals, 2 satellites, U = 2, S = 5, downtimes 1 and 3 | type correctness, link, timer, oracle and table consistency, and the three action properties |
| `fast_polling` | 1 terminal, 2 satellites, U = 3, S = 2, downtimes 1 and 4 | slots overtaken by updates; the refinement of `TerminalConnectivity` |
| `serving_satellite` | 2 satellites, 3 samples, 3 places of different elevation, two of them on either side of north | the contract, least warping distance, the highest satellite wins |
| `network_setup` | up to 4 planes of 2 to 5 satellites, any number up to 16 of them in use, with no other nodes or with two different sets of them | numbers of nodes agree and tell types, with and without a file of names; channels, graph edges and `NoradA` agree; no satellite cut off |
| `satellite_positions` | 3 satellites in a ring, 1 ground station, 1 terminal, U = 3, offset 1, reconnects up to 4 ahead, look-aheads up to 2 | delays of one instant, recent delays, routes that agree with them |
| `outage` | 2 terminals, 1 satellite, U = 2, S = 6, downtimes 1 and 3 | bounds on outages; liveness |
| `link_fabric` | 2 satellites with two parallel links, 1 ground station, 1 terminal, 1 server | all tables follow all links |
| `forwarding` | 2 satellites, 1 ground station, 1 terminal, 1 server, link delays 2, ground delays 1 and 4, routes computed or loaded from files, which may be missing, empty or cut off | delivery, isolation, shortest routes, load equals save |
| `static_routes` | 2 satellites with radio and laser, 2 ground stations, 1 server, 2 autoroute elements that prefer different interfaces, 5 settings, every sky | tables of all nodes lead packets to their destinations over enabled links, again after every timer |
| `address_order` | 3 satellites in a plane, modules in reverse order in memory | a route that is not shortest |
| `ranked_files` | 2 satellites, 1 ground station, `numOfKPaths` = 2 | a loaded table unlike the saved one |
| `several_autoroutes` | as `static_routes`, one autoroute element for ground nodes and one for satellites | routes of one element only |

Bounds. U, S and the downtimes are small numbers without a common factor where it matters,
so that updates, slots and reconnects meet in every order, coincide, and overtake each
other; two terminals share the handover timer and two satellites give every terminal a
choice, and terminals interact in no other way. Outages are measured with one satellite:
what a slot restarts is the same countdown whichever satellite is waited for. In the fabric three links of different
kinds suffice for a gate to pass between kinds. A reconnect may coincide with the moves, with an update,
fall between the two, or overtake an update. Three routers give detours over a ground station and over an inter-satellite
link; the ring of three gives the shortest plane with two ways around. Two constraints
bound the runs that load route files, in which tables of any age multiply with links of any
kind. Of two updates one after the other at least one has a whole file (`OneWholeFileInTwo`),
and only the first satellite serves the terminal (`TerminalsAtFirstSatellite`). A table that
is one update old meets links that changed in that update and any number of handovers
after it, so an old interface does come to lead to a terminal. In the grid four planes
are the fewest in which a plane has two neighbours and another plane that is none, and
four satellites the fewest for which that holds within a plane beside the
wrap; every partial filling occurs. Two satellites and three samples are the fewest in
which a trajectory must be warped to compare and a rival exists; places on both sides of
north make the azimuth wrap. There are no
counters to bound: relative time and reused gates keep the state space finite. Deadlock is not
checked where the model is a function that returns: the selection, and the loops of
`NetworkSetup`. In it the three sets of other nodes are none, more ground stations than clients, and
more clients than ground stations with terminals, so that ranges of
numbers are empty, shorter and longer than the next one. In `static_routes` a packet may
need a detour over another satellite, by radio or laser; one ground station has cost "inf" and must
not be routed through; which satellite's radio is slow, and by how much, differs between the two
elements, so that paths of equal cost exist by the one, and both take different interfaces
of a satellite for one destination; only the second serves all nodes; the settings turn each shortcut of the computation on and off.

Fairness. `Reconnects` needs that the simulation goes on: weak fairness of `Next`, the
kernel dispatching the next event of its queue (in `outage`, of `OutageNext`, the same steps
with their measures). `TablesFollowSky` needs weak fairness of
`Configure`: its timer is scheduled again at the end of every handling, so it fires again
and again, and within one handling the loops run to their end. Nothing else is assumed.

What the runs say beyond passing. A polling slot taken by the very event in which a
reconnect is due replaces the handover and restarts its countdown (`LeoChannelConstructor.cc:607`).
`PostponedOnce` shows that this happens at most once per outage when downtime plus update
interval is shorter than the polling interval, as in the shipped defaults; with a
downtime not shorter than the polling interval a terminal could wait for ever, and
`Reconnects` is not claimed there. When a slot replaces a pending handover the oracle's
old satellite becomes -1, because the terminal has no link by then. In the grid a last
plane that is filled in part is a chain, not a ring, and nothing joins the last plane with
the first: `NoradA` has a test for that seam, but it compares a plane's number with the
number of planes, which no plane has, so it agrees with the code that places the links.
An extra plane from rounding is empty and harmless. The three violation runs
are findings, described in `PROJECT.json`: weights of inter-satellite links depend on the
addresses of modules, route files lose the rank of a path, and with several autoroute
elements the timer leaves the routes of the last one only. The merge of routes (`Merged`)
has a weakness at the start, where all elements meet: a second element that takes another
interface for a destination gives the entry its next hop but not its interface. The run
`static_routes` meets that case, and its properties except what it spoils: nothing
in the repository promises more, and the first timer, which leaves one element's routes,
ends it. The default
route of a node with one interface ignores the link filter; it is harmless where, as in
constellations, radio networks have more than one router.

## Proofs

All by TLAPS, for every value of the constants that satisfies the named assumption of the
module, and never for more than the specification that the runs check.

**Handover** (`UserTerminalHandoverProofs`, under `ConstantsAssumption`: finitely many
terminals, a positive update interval and offset, downtimes between 1 and a bound). The
inductive invariant `IInv` strengthens the checked invariants by what ties the timers
together: before the start nothing is scheduled; after it no event is overdue; the slot
boundary is never missed by more than one update; the handover timer is the minimum of the
pending reconnects; a link may be out of view only while an event is due. None of the
properties is inductive alone: that a link is visible between instants, for example, needs
that an event that is due re-examines every link. The module first proves what each
operation does to one terminal's record, then one lemma per action, then `TypeCorrect`,
`OracleCorrect`, `TimerCorrect`, `LinksVisible` and `EndpointsCorrect`.
The second half of the module proves `Implements`, that every step of the handover is a step of
`TerminalConnectivity` or leaves its variables unchanged, terminal by terminal, and the three
action properties: `HealthyKept`; `Probed`, that no event leaves a terminal in view idle; and
`Predicted`, that what the oracle announced happens at the announced time and nothing else
does. The last one needs a second invariant: while the announced time is ahead, the oracle
holds what the selection for that slot, foreseen in `nextSelected`, will make of the links,
because every event that changes a link announces anew.

**Outages** (in the same module). `OutagesBounded` has an accounting argument: the
elapsed outage plus the time that the pending reconnect still needs never exceeds an update
interval with its offset, one downtime, and one more for each restart; time passing moves
from the second summand to the first, and only a restart adds to the second. `RestartedOnce`
needs that two handled slots are at least a slot less an update apart, so the second would
come after a reconnect that was due before it.

**Selection** (`ServingSatelliteSelectionProofs`, for any number of satellites, sampling and
sky). `SelectionKeepsContract` is the contract that the handover assumes, so with the
theorems above the handover is covered with the selection that the code really has. The
invariant says what both candidates are after each round (`LoopFindsCandidates`): a satellite
already considered that qualifies, or none if none did; that an empty reference trajectory
means an empty sky needs a greatest elevation, by `NaturalOrder`. For that part scores do not
matter. A second invariant says that a candidate's score is the least of those seen, of equal
ones that of the higher satellite, which gives `LeastSelected`, and with two facts about the
warping distance, `HighestSelected`: every cell of the matrix is at least the first, and the
cells on the diagonal are zero for a trajectory and itself. That the matrix exists at all is
proved first, by diagonals, since a recursive function is a `CHOOSE` to the provers.
`ClosestIsSelected` frees this from the matrix: `ClosestSelected` speaks of warpings as
sequences of sample pairs, of the angle between two azimuths as the smallest turn, and of the
highest satellite as the one that outranks all others. By induction along a warping its cost
is never below the cell it has come to, and by induction over the diagonals each cell is the
cost of some warping that ends in it, so the last cell is the least cost of all warpings.

**Positions** (`SatellitePositionsProofs`, under `PositionsAssumption`). Satellites move one by
one, so at an event in the middle of the moves positions could differ. The invariant says of
every satellite that its position's instant is the instant its own move timer was set, and of
every event of the constructor where it stands in the queue: updates come an offset after
the moves and never at their instant, and the handover timer, which may coincide with the
moves, is queued behind all of them, because every update cancels it and schedules it
anew. Hence `OneInstant`, `Recent` and `CurrentDelays`.

**Set-up** (`NetworkSetupProofs`). `GridLinksNeighbours` and `GridLinksAllNeighbours` hold
for every constellation that satisfies `ShapesAssumption`: both loops keep the satellite's
number within or after the plane they are in, so quotient and remainder by the size of a
plane are known, and with them what all three copies of the arithmetic compute; the
converse needs that all satellites before the loop's have their links, and that the loops
do not end before the last. From the neighbours `GridIsConnected` follows: every satellite but
the first has a neighbour with a lower number. `EdgesFollowChannels` compares both loops with
one sequence, the links of the first `n` satellites one after the other (`Accumulated`), which
exists by recursion; no loop skips a satellite or meets one twice. That a round of either
loop gives the same links is a fact about two formulas and proved as one; what follows is
that edges join the numbers of the satellites that channels join, each once. `OneNumberPerNode` and `NumbersTellTypes` hold for any numbers of
nodes: after `k` rounds of its loop a table holds exactly the first `k` numbers and their
nodes, by `getNodeModule`. The two loops over names write other formulas than `getNodeModule`;
`NamesOfNumber` shows that they name the same node, and `NumbersDiffer` that no two numbers
share a node, without which a table could not be inverted. Where the file of names cannot be
created, the invariant says that the table of names holds the endpoints and nothing
else. `SetupImplementsBoth` shows that
the composition is a behaviour of both specifications, so all of this holds in it
(`SetupCorrect`).

**Links** (`LinkFabricProofs`, under `FabricAssumption`: finitely many nodes of five disjoint
kinds, any grid, with parallel links and loops if it has them). Between events the invariant
`RestInv` is close to the properties; what makes it inductive is `FabricInv(f, L, N)`, which
holds of the fabric `f` after every single link operation within an event, `L` being the
links there are by then and `N` those made since interfaces were last brought up to date:
a pair has one gate at each end if it is linked and none if not (`GatesOK`); a gate without
an interface is that of a link of `N` and its node is marked, so that no gate is forgotten
by `addPPPInterfaces` (`NewOK`); an interface up to `ppp` runs and has an address exactly while
its gate is connected, unless the link is a user terminal's and not yet finished
(`InterfacesOK`); the next-hop matrix is right but for gates without an interface
(`MatrixOK`). Each operation keeps it (`CreateLinkKeeps`, `RemoveLinkKeeps`), the loops by a
least counterexample (`ChangeLinksKeeps`), and what follows the loops empties `N`. Hence
`Typed`, `InterfacesFollow`, `MatrixCurrent` and `LinksUndisturbed`. `TablesStayCurrent`
needs in addition that the endpoint tables, which are not recomputed when only ground-station links
change, depend on no gate that such a change touches. `GatesAreReused` is by counting. No bound on
gates is kept by a turn of a loop for its own sake: what is kept is that a gate is made only
at a node without a free one (`NewIfFull`). All gates of such a node are connected, to
different peers (`GatesOK`), so there are no more of them than peers (`FullFits`); a user
terminal has one peer in every intermediate fabric, because links are removed before others
are created; and between satellites, where links may be parallel, the first `k` turns of
`setUpSimulation` make one gate for each end of a link (`GridTurn`), and nothing later
touches those.

**Forwarding** (`PacketForwardingProofs`, under `ForwardingAssumption`: positive delays, any
grid, any addresses). `HandedToDestinations`, `PacketsGetThere`, `WaysAreShortest` and
`LoadsReproduceSaves` state all four properties of the module. The first needs no hypothesis:
whatever tables there are, the gate that an entry names is one that no client or server is
wired to (`EntriesOK`), and tables that are not old name gates between routers, which
no handover gives to a terminal.
Delivery and the agreement of loaded with saved tables need that no run loads files of
several paths (`numOfKPaths > 1 => TRUE \notin LoadFiles`), and shortest ways, besides, that
the addresses of modules follow the order of the grid links (`AddressesInOrder`). Those are
exactly the cases that `ranked_files` and `address_order` refute: the theorems say that
nothing else can go wrong.

The first half is about data. Path lengths, route records and journeys are recursive
functions, which are `CHOOSE` to the provers, so it is proved that they exist
(`RecursionExists`) and unfold, by least counterexamples. A path is cheapest between its ends
only if the rest of it is a way for its second node that is cheaper by one edge
(`NextIsNearer`); every list that igraph may return, however it orders equal paths, has a
cheapest one where the table looks for it (`ListsAreFound`, `PrimaryHopFacts`); and whatever the addresses,
each edge has a weight, so routes lead to their destinations even where they are not
shortest (`EdgeWeightsFacts`). The second half is about time.
`ForwardingInv` joins the invariant of `LinkFabric` with what stays true of tables that grow
old: after a load that succeeded, each entry names a gate that leads now to the next hop of
the record, or none if there is no path (`RoutesOK`). Updates establish it from the matrix;
handovers keep it because gates between routers are never touched by a terminal's link; an
update without a whole file makes no claim but for `EntriesOK`. `ResolvedInv` adds that entries are those of the matrix
of now. A packet's way is then a matter of measure: each hop brings it to a node from which
less remains (`HopBringsCloser`), so the set of nodes nearer than where it is shrinks with
every hop and it arrives within as many hops as there are nodes; a packet without a way is
dropped at its first router (`HopDropsOrStays`). The delay it has met and the cost of the route that
remains never exceed together the cost at the start (`NoDetour`).

**Static routes** (`StaticRoutesProofs`, any network and any autoroute elements that satisfy
`StaticRoutesAssumption`; costs are positive, as `parseCostAttribute` demands). `TypeCorrect`
and `DestinationsOnce`: what must be added to type correctness is where the loops are (a
source is in hand while paths are, and a walk that has come to the source came by a link,
which is what the code dereferences after it); one entry per destination is then kept by
every merge, however the routes were computed. `RoutesEnabled`, with one autoroute element,
is harder than it looks. The paths are computed towards the source and the routes lead away
from it, so the filter must be symmetric. The theorem says of all routes, without exception, that
each leads over an enabled link (`EveryRouteEnabled`), from which the property follows. The merge can combine the interface of one
route with the next hop of another for the same destination. It does no harm because both
are then the same: hosts whose LAN has one router inherit the way of that router, so the
invariant labels every way out of the source with the router it belongs to and says
that routes with a common destination have the same label. The hypothesis `OneElementNetwork`
has, beside the single element, that arrays list nothing twice, that the three kinds of
destination differ, and that a LAN with a single router joins no two radio
nodes, because the shortcut for a node with one interface ignores the filter. With several
elements `EveryRouteEnabled` is false: the merge can leave the next hop
of one route with the interface of another, see *What the runs say*.

Only model-checked: liveness and everything under fairness; and what the tables of all nodes
promise together in `StaticRoutes` (`PacketsReachDestinations`), where longest-prefix matches
of nodes filled by different rounds must agree. That property does not hold of every
configuration, so a theorem would need hypotheses on the costs: the shortcut for a host with
one way out asks no cost, and if the gateway behind it has cost "inf" (`gs1` instead of `gs2`
in the instance of `static_routes`), packets get to where the computed paths lead nobody.

## Not modelled, and the plan

1. `UserTerminalHandover`, its abstraction and outages, runs and proofs of all their safety
   and action properties: done.
2. `LinkFabric` and `PacketForwarding`, their runs, missing and damaged route files included,
   and proofs of all their invariants: done.
3. `ServingSatelliteSelection` and `SelectionContract`, run and proofs: done.
4. `IslGrid`, `NodeNumbers` and `NetworkSetup`, run and proofs: done.
5. `SatellitePositions`, run and proofs: done.
6. `StaticRoutes`, its runs, and proofs of types, of one route per destination and, for one
   autoroute element, of enabled links: done.
7. Left to prove: `PacketsReachDestinations`.

Left out for good: `libnorad` (floating point), NED declarations, queues, the node
configurators and network-layer wrappers (no state that others rely on), of the older
configurators the metrics measured by mock transmissions, `optimizeRoutes`, multicast and
manual routes, logging, the comparison of
`idMap.txt` with the running simulation, which only prints, and route files that end the
simulation with an error (unknown version, legacy format, a next hop without an interface).
