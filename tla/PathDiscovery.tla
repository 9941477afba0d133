---------------------------- MODULE PathDiscovery ----------------------------
(***************************************************************************)
(* Routing between daemons: announces, path requests and path replies      *)
(* (crates/daemon/src/lib.rs, crates/mesh/src/path_request.rs) and the     *)
(* routing table MeshRouter (crates/mesh/src/routing.rs).                  *)
(*                                                                         *)
(* Two daemons are adjacent when each has the other's UDP endpoint.  Every *)
(* route that a daemon installs has quality 1.0 (an announce and a         *)
(* destination's own reply give 1.0, other replies copy it), so the        *)
(* quality is left out and update_route compares hop counts.               *)
(***************************************************************************)
EXTENDS Naturals, Sequences, SequencesExt, FiniteSets

CONSTANTS
    Nodes,       \* the daemons
    Edges,       \* which of them are adjacent: a set of two-element sets
    Requesters,  \* the daemons whose applications send to Destination
    Destination, \* a daemon, or an address that nobody has
    Announcers,  \* the daemons that announce themselves
    MaxHops,     \* MAX_HOPS: 64 in the code
    MaxQueue,    \* bound: how many packets are in flight from one daemon to another
    MaxFaults    \* bound: how many packets are lost or overtake others

ASSUME TopologyAssumption ==
    /\ \A e \in Edges : e \subseteq Nodes /\ Cardinality(e) = 2
    /\ Requesters \subseteq Nodes /\ Announcers \subseteq Nodes
    /\ {MaxHops, MaxQueue, MaxFaults} \subseteq Nat

VARIABLES
    routes,                 \* [Nodes -> [Targets -> Route]]
    pending_path_requests,  \* [Nodes -> SUBSET Targets]: destinations asked for
    peer_keys,              \* [Nodes -> SUBSET Nodes]
    sent_announces,         \* [Nodes -> SUBSET Nodes]: announces passed on
    net,                    \* [Links -> Seq(Packet)]: packets in flight
    faults                  \* how many packets were lost or overtook others

vars == <<routes, pending_path_requests, peer_keys, sent_announces, net, faults>>

Targets == Nodes \cup {Destination}
Adj(n) == {m \in Nodes : {n, m} \in Edges}
Links == {l \in Nodes \X Nodes : l[2] \in Adj(l[1])}
NoRoute == [next_hop |-> "none", hop_count |-> 0]
HasRoute(n, d) == routes[n][d] # NoRoute

\* path is the path of a request or the route of a reply; hops is the hop count of a reply or
\* the remaining hops of an announce; origin is who asked.
Packet(kind, dest, path, hops, origin) ==
    [kind |-> kind, dest |-> dest, path |-> path, hops |-> hops, origin |-> origin]

\* n sends p to the daemons in to.  A packet that is already waiting is not repeated.
Post(queues, n, to, p) ==
    [l \in Links |-> IF l[1] = n /\ l[2] \in to /\ ~Contains(queues[l], p)
                       THEN Append(queues[l], p) ELSE queues[l]]

Init ==
    /\ routes = [n \in Nodes |-> [d \in Targets |-> NoRoute]]
    /\ pending_path_requests = [n \in Nodes |-> {}]
    /\ peer_keys = [n \in Nodes |-> {}]
    /\ sent_announces = [n \in Nodes |-> {}]
    /\ net = [l \in Links |-> <<>>]
    /\ faults = 0

-----------------------------------------------------------------------------
(* The routing table *)

\* A route is replaced only by a shorter one.
update_route(n, d, hop, count) ==
    IF HasRoute(n, d) /\ count >= routes[n][d].hop_count
      THEN routes
      ELSE [routes EXCEPT ![n][d] = [next_hop |-> hop, hop_count |-> count]]

-----------------------------------------------------------------------------
(* send_to: directly, over the route, or else by path discovery *)

Asks(n, d) == d \notin Adj(n) /\ ~HasRoute(n, d) /\ d \notin pending_path_requests[n]

\* What send_to(d, p) of n puts in flight: p, or a path request with an empty path.
Sent(queues, n, d, p) ==
    IF d \in Adj(n) THEN Post(queues, n, {d}, p)
    ELSE IF HasRoute(n, d) THEN Post(queues, n, {routes[n][d].next_hop}, p)
    ELSE IF Asks(n, d) THEN Post(queues, n, Adj(n), Packet("request", d, <<>>, 0, n))
    ELSE queues

\* A path request is remembered by its destination, and nothing ever forgets it.
Requested(n, d) ==
    [pending_path_requests EXCEPT ![n] = IF Asks(n, d) THEN @ \cup {d} ELSE @]

\* An application's packet for d, followed only when it starts a path discovery.
send_to(n, d) ==
    /\ Asks(n, d)
    /\ net' = Sent(net, n, d, Packet("data", d, <<>>, 0, n))
    /\ pending_path_requests' = Requested(n, d)
    /\ UNCHANGED <<routes, peer_keys, sent_announces, faults>>

-----------------------------------------------------------------------------
(* Announces *)

announce(n) ==
    /\ net' = Post(net, n, Adj(n), Packet("announce", n, <<>>, 1, n))
    /\ UNCHANGED <<routes, pending_path_requests, peer_keys, sent_announces, faults>>

\* Mutant: an announce that has used up its hops is passed on.
PassesOnExpired(n, p) == p.dest \notin sent_announces[n]

PassesOn(n, p) == p.hops > 0 /\ p.dest \notin sent_announces[n]

\* The announcer becomes a known peer and a neighbour one hop away, whoever passed the
\* announce on; the announce itself is passed on once, with one hop less.
handle_announce(n, p, rest) ==
    /\ p.kind = "announce"
    /\ peer_keys' = [peer_keys EXCEPT ![n] = @ \cup {p.dest}]
    /\ routes' = update_route(n, p.dest, p.dest, 1)
    /\ IF PassesOn(n, p)
         THEN /\ sent_announces' = [sent_announces EXCEPT ![n] = @ \cup {p.dest}]
              /\ net' = Post(rest, n, Adj(n), [p EXCEPT !.hops = IF @ > 0 THEN @ - 1 ELSE 0])
         ELSE net' = rest /\ UNCHANGED sent_announces
    /\ UNCHANGED pending_path_requests

-----------------------------------------------------------------------------
(* Path requests and replies *)

add_hop(path, n) == IF Contains(path, n) THEN path ELSE Append(path, n)

\* Mutant: a daemon that has asked for an address answers for it.
KnowsPending(n, d) == n = d \/ HasRoute(n, d) \/ d \in pending_path_requests[n]

Knows(n, d) == n = d \/ HasRoute(n, d)

\* The reply's hop count: none at the destination, otherwise that of the route.
AnswerRequest(from, n, p, rest) ==
    LET hops == IF n = p.dest THEN 0 ELSE routes[n][p.dest].hop_count IN
    /\ Knows(n, p.dest)
    /\ net' = Sent(rest, n, from, Packet("reply", p.dest, Reverse(Append(p.path, n)), hops, p.origin))
    /\ pending_path_requests' = Requested(n, from)

\* Flooded to every neighbour, also to the one it came from and to the one who asked.
ForwardRequest(n, p, rest) ==
    /\ ~Knows(n, p.dest)
    /\ net' = IF Len(p.path) >= MaxHops
                THEN rest
                ELSE Post(rest, n, Adj(n), [p EXCEPT !.path = add_hop(@, n)])
    /\ UNCHANGED pending_path_requests

handle_path_request_msg(from, n, p, rest) ==
    /\ p.kind = "request"
    /\ AnswerRequest(from, n, p, rest) \/ ForwardRequest(n, p, rest)
    /\ UNCHANGED <<routes, peer_keys, sent_announces>>

\* The place of n in a route, counted from 0 at the end that answered; n occurs in it.
Position(route, n) == SelectInSeq(route, LAMBDA m : m = n) - 1

\* Mutant: the next hop is the end that answered.
RouteFromReplyToAnswerer(n, p) ==
    IF Position(p.path, n) > 0
      THEN update_route(n, p.dest, p.path[1], p.hops + Position(p.path, n))
      ELSE routes

\* The next hop towards the destination is the one before n.
RouteFromReply(n, p) ==
    IF Position(p.path, n) > 0
      THEN update_route(n, p.dest, p.path[Position(p.path, n)], p.hops + Position(p.path, n))
      ELSE routes

\* The next hop towards whoever asked is the one after n, if there is one.  Without one the
\* request is taken to be the daemon's own; the removal from pending_path_requests uses the
\* request's id although the map is keyed by destination, and removes nothing.
handle_path_reply_msg(n, p, rest) ==
    LET forwarded == Contains(p.path, n) /\ Position(p.path, n) + 1 < Len(p.path)
        hop == p.path[Position(p.path, n) + 2]
    IN
    /\ p.kind = "reply"
    /\ routes' = RouteFromReply(n, p)
    /\ IF forwarded
         THEN /\ net' = Sent(rest, n, hop, p)
              /\ pending_path_requests' = Requested(n, hop)
         ELSE net' = rest /\ UNCHANGED pending_path_requests
    /\ UNCHANGED <<peer_keys, sent_announces>>

-----------------------------------------------------------------------------
(* The medium *)

\* The i-th packet on its way from l[1] to l[2] leaves the medium.
Rest(l, i) == [net EXCEPT ![l] = RemoveAt(@, i)]

\* handle_frame at the daemon that the packet reaches; one that is not the first in its queue
\* overtakes others.
Receive(l, i) ==
    /\ i \in DOMAIN net[l]
    /\ i > 1 => faults < MaxFaults
    /\ faults' = IF i > 1 THEN faults + 1 ELSE faults
    /\ \/ handle_announce(l[2], net[l][i], Rest(l, i))
       \/ handle_path_request_msg(l[1], l[2], net[l][i], Rest(l, i))
       \/ handle_path_reply_msg(l[2], net[l][i], Rest(l, i))

Lose(l, i) ==
    /\ i \in DOMAIN net[l] /\ faults < MaxFaults
    /\ faults' = faults + 1
    /\ net' = Rest(l, i)
    /\ UNCHANGED <<routes, pending_path_requests, peer_keys, sent_announces>>

\* The bound on packets in flight: steps that would exceed it are left out.
Fits == \A l \in Links : Len(net'[l]) <= MaxQueue

Next ==
    \/ \E n \in Requesters : send_to(n, Destination) /\ Fits
    \/ \E n \in Announcers : announce(n) /\ Fits
    \/ \E l \in Links, i \in 1..MaxQueue : Receive(l, i) /\ Fits
    \/ \E l \in Links, i \in 1..MaxQueue : Lose(l, i)

Spec == Init /\ [][Next]_vars

\* The loop of every daemon reads every packet that arrives.
FairSpec == Spec /\ \A l \in Links : WF_vars(Receive(l, 1) /\ Fits)

-----------------------------------------------------------------------------
(* Properties *)

Routes == [next_hop : Nodes \cup {"none"}, hop_count : Nat]

\* Type invariant.
TypeOK ==
    /\ routes \in [Nodes -> [Targets -> Routes]]
    /\ pending_path_requests \in [Nodes -> SUBSET Targets]
    /\ peer_keys \in [Nodes -> SUBSET Nodes]
    /\ sent_announces \in [Nodes -> SUBSET Nodes]
    /\ DOMAIN net = Links /\ faults \in 0..MaxFaults

\* The members of S have no neighbours outside S.
Closed(S) == \A m \in S : Adj(m) \subseteq S

\* A daemon's routes stay in its part of the network: there is none to an address that nobody there
\* has, and none over a daemon elsewhere, whichever replies to whichever requests installed it.
RoutesReachable ==
    /\ TypeOK
    /\ \A S \in SUBSET Nodes : Closed(S) =>
          \A n \in S, d \in Targets : HasRoute(n, d) => {routes[n][d].next_hop, d} \subseteq S

\* Routes lead away from the daemon: it is not its own next hop, has no route to itself unless it
\* hears its own announce, and is one hop away from exactly those destinations that are their own
\* next hop, whatever copies of requests and replies are lost, repeated or overtake each other.
RoutesLeadAway ==
    \A n \in Nodes, d \in Targets : HasRoute(n, d) =>
        /\ n = d => n \in Announcers
        /\ routes[n][d].next_hop = n => n = d
        /\ routes[n][d].hop_count = 1 <=> routes[n][d].next_hop = d

\* An announce reaches the announcer's neighbours and theirs, and nobody further away.
AnnounceReach ==
    \A n \in Nodes : peer_keys[n] \subseteq Adj(n) \cup UNION {Adj(m) : m \in Adj(n)}

\* A path request that nobody can answer stops being flooded.
FloodEnds == <>[](\A l \in Links : \A i \in DOMAIN net[l] : net[l][i].kind # "request")
=============================================================================
