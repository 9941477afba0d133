----------------------------- MODULE PathProofs -----------------------------
(***************************************************************************)
(* Proofs about PathDiscovery, for any network, any number of requests and *)
(* announces, and any loss, duplication and reordering of packets.         *)
(***************************************************************************)
EXTENDS PathDiscovery, TLAPS, SequenceTheorems, WellFoundedInduction

USE TopologyAssumption

-----------------------------------------------------------------------------
(* The inductive invariant *)

PacketType ==
    [kind : {"announce", "request", "reply"}, dest : Targets, path : Seq(Nodes), hops : Nat,
     origin : Nodes]

\* The address d is in every part of the network that n is in and no daemon has a neighbour outside.
Joined(n, d) == \A S \in SUBSET Nodes : n \in S /\ Closed(S) => d \in S

\* What an announce or a reply names is in the receiver's part of the network, and so are the
\* daemons in the path of a packet; the destination of a request may be anywhere or nowhere.
Near(l, p) ==
    /\ p.kind # "request" => Joined(l[2], p.dest)
    /\ \A i \in 1..Len(p.path) : Joined(l[2], p.path[i])

\* A packet p on its way over link l.  An announce with its hop left comes from the announcer, one
\* without from a neighbour.  The destination of a request is not in its path; in the route of a
\* reply it can only be the end that answered, and is exactly if the hop count is 0.
Sane(l, p) ==
    /\ Near(l, p)
    /\ p.kind = "announce" =>
          /\ p.dest \in Announcers
          /\ \/ p.hops = 1 /\ l[1] = p.dest
             \/ p.hops = 0 /\ l[1] \in Adj(p.dest)
    /\ p.kind = "request" => \A i \in 1..Len(p.path) : p.path[i] # p.dest
    /\ p.kind = "reply" =>
          /\ Len(p.path) > 0
          /\ p.hops = 0 <=> p.path[1] = p.dest
          /\ \A i \in 2..Len(p.path) : p.path[i] # p.dest

NetSane(queues) ==
    /\ queues \in [Links -> Seq(PacketType)]
    /\ \A l \in Links : \A i \in 1..Len(queues[l]) : Sane(l, queues[l][i])

RouteSane(n, d, r) ==
    r # NoRoute =>
        /\ r.hop_count > 0
        /\ n = d => n \in Announcers
        /\ r.next_hop = n => n = d
        /\ r.hop_count = 1 <=> r.next_hop = d
        /\ Joined(n, d) /\ Joined(n, r.next_hop)

RoutesSane(table) ==
    /\ table \in [Nodes -> [Targets -> Routes]]
    /\ \A n \in Nodes, d \in Targets : RouteSane(n, d, table[n][d])

PeersSane(peers) ==
    /\ peers \in [Nodes -> SUBSET Nodes]
    /\ \A n \in Nodes : peers[n] \subseteq Adj(n) \cup UNION {Adj(m) : m \in Adj(n)}

PathInv ==
    /\ RoutesSane(routes)
    /\ PeersSane(peer_keys)
    /\ NetSane(net)
    /\ pending_path_requests \in [Nodes -> SUBSET Targets]
    /\ sent_announces \in [Nodes -> SUBSET Nodes]
    /\ faults \in 0..MaxFaults

-----------------------------------------------------------------------------
(* Facts about sequences and the network *)

\* Adjacency is symmetric.
LEMMA AdjSymmetric ==
    ASSUME NEW n \in Nodes, NEW m \in Nodes
    PROVE  m \in Adj(n) <=> n \in Adj(m)
<1>1. {n, m} = {m, n}
  OBVIOUS
<1> QED
  BY <1>1 DEF Adj

\* A link leads from a daemon to one of its neighbours.
LEMMA LinkEnds ==
    ASSUME NEW l \in Links
    PROVE  l[1] \in Nodes /\ l[2] \in Nodes /\ l[2] \in Adj(l[1])
BY DEF Links

\* A daemon is in its own part of the network, and so is all that its neighbours' part contains.
LEMMA JoinedNeighbour ==
    ASSUME NEW n \in Nodes, NEW m \in Nodes, m \in Adj(n)
    PROVE  Joined(n, n) /\ Joined(n, m) /\ \A d : Joined(m, d) => Joined(n, d)
BY DEF Joined, Closed

\* A packet that goes on to a neighbour still names what is in the receiver's part of the network.
LEMMA NearMoves ==
    ASSUME NEW l \in Links, NEW k \in Links, k[1] = l[2], NEW p, Near(l, p)
    PROVE  Near(k, p)
<1>1. k[2] \in Nodes /\ l[2] \in Nodes /\ l[2] \in Adj(k[2])
  BY LinkEnds, AdjSymmetric
<1>2. \A d : Joined(l[2], d) => Joined(k[2], d)
  BY <1>1, JoinedNeighbour
<1> QED
  BY <1>2 DEF Near

\* What is left of a queue when a packet is taken out was in it before.
LEMMA RemoveAtKeeps ==
    ASSUME NEW S, NEW s \in Seq(S), NEW i \in 1..Len(s)
    PROVE  /\ RemoveAt(s, i) \in Seq(S)
           /\ \A j \in 1..Len(RemoveAt(s, i)) : \E k \in 1..Len(s) : RemoveAt(s, i)[j] = s[k]
<1> DEFINE a == SubSeq(s, 1, i - 1)
           b == SubSeq(s, i + 1, Len(s))
<1>0. Len(s) \in Nat /\ i \in Nat
  OBVIOUS
<1>1. a \in Seq(S) /\ Len(a) = i - 1 /\ \A j \in 1..(i - 1) : a[j] = s[j]
  BY <1>0
<1>2. b \in Seq(S) /\ Len(b) = Len(s) - i /\ \A j \in 1..(Len(s) - i) : b[j] = s[i + j]
  BY <1>0
<1>3. RemoveAt(s, i) = a \o b
  BY DEF RemoveAt
<1> HIDE DEF a, b
<1>4. a \o b \in Seq(S) /\ Len(a \o b) = Len(s) - 1
  BY <1>0, <1>1, <1>2
<1>5. ASSUME NEW j \in 1..(Len(s) - 1) PROVE \E k \in 1..Len(s) : (a \o b)[j] = s[k]
  <2>1. CASE j <= i - 1
    <3>1. (a \o b)[j] = s[j] /\ j \in 1..Len(s)
      BY <1>0, <1>1, <1>2, <1>5, <2>1
    <3> QED
      BY <3>1
  <2>2. CASE j > i - 1
    <3>1. (a \o b)[j] = b[j - (i - 1)]
      BY <1>0, <1>1, <1>2, <1>5, <2>2, SMTT(30)
    <3>2. j - (i - 1) \in 1..(Len(s) - i)
      BY <1>0, <1>5, <2>2
    <3>3. b[j - (i - 1)] = s[i + (j - (i - 1))] /\ i + (j - (i - 1)) = j + 1
      BY <1>0, <1>2, <3>2
    <3>4. j + 1 \in 1..Len(s) /\ (a \o b)[j] = s[j + 1]
      BY <1>0, <1>5, <3>1, <3>3
    <3> QED
      BY <3>4
  <2>3. j <= i - 1 \/ j > i - 1
    BY <1>0, <1>5
  <2> QED
    BY <2>1, <2>2, <2>3
<1> QED
  BY <1>3, <1>4, <1>5

\* Taking a packet off the network leaves sane packets.
LEMMA RestSane ==
    ASSUME NetSane(net), NEW l \in Links, NEW i \in 1..Len(net[l])
    PROVE  NetSane(Rest(l, i))
<1>1. net[l] \in Seq(PacketType)
  BY DEF NetSane
<1>2. /\ RemoveAt(net[l], i) \in Seq(PacketType)
      /\ \A j \in 1..Len(RemoveAt(net[l], i)) :
            \E k \in 1..Len(net[l]) : RemoveAt(net[l], i)[j] = net[l][k]
  <2> DEFINE s == net[l]
  <2>1. s \in Seq(PacketType) /\ i \in 1..Len(s)
    BY <1>1
  <2> HIDE DEF s
  <2>2. /\ RemoveAt(s, i) \in Seq(PacketType)
        /\ \A j \in 1..Len(RemoveAt(s, i)) : \E k \in 1..Len(s) : RemoveAt(s, i)[j] = s[k]
    BY ONLY <2>1, RemoveAtKeeps
  <2> QED
    BY <2>2 DEF s
<1> DEFINE q == RemoveAt(net[l], i)
<1> HIDE DEF q
<1>3. Rest(l, i) = [net EXCEPT ![l] = q]
  BY DEF Rest, q
<1>4. Rest(l, i) \in [Links -> Seq(PacketType)]
  BY <1>2, <1>3 DEF NetSane, q
<1>5. ASSUME NEW k \in Links, NEW j \in 1..Len(Rest(l, i)[k])
      PROVE  Sane(k, Rest(l, i)[k][j])
  <2>1. CASE k = l
    <3>1. Rest(l, i)[k] = q
      BY <1>3, <2>1 DEF NetSane
    <3>2. PICK h \in 1..Len(net[l]) : q[j] = net[l][h]
      BY <1>2, <1>5, <3>1 DEF q
    <3> QED
      BY <2>1, <3>1, <3>2 DEF NetSane
  <2>2. CASE k # l
    BY <1>3, <1>5, <2>2 DEF NetSane
  <2> QED
    BY <2>1, <2>2
<1> QED
  BY <1>4, <1>5 DEF NetSane

\* Sending a packet that is sane on every link it is sent over keeps the network sane.
LEMMA PostSane ==
    ASSUME NEW q, NetSane(q), NEW n, NEW to, NEW p \in PacketType,
           \A l \in Links : l[1] = n /\ l[2] \in to => Sane(l, p)
    PROVE  NetSane(Post(q, n, to, p))
<1>1. ASSUME NEW l \in Links
      PROVE  /\ Post(q, n, to, p)[l] \in Seq(PacketType)
             /\ \A i \in 1..Len(Post(q, n, to, p)[l]) : Sane(l, Post(q, n, to, p)[l][i])
  <2>0. q[l] \in Seq(PacketType) /\ \A i \in 1..Len(q[l]) : Sane(l, q[l][i])
    BY DEF NetSane
  <2>1. CASE l[1] = n /\ l[2] \in to /\ ~Contains(q[l], p)
    <3>1. Post(q, n, to, p)[l] = Append(q[l], p)
      BY <2>1 DEF Post
    <3>2. /\ Append(q[l], p) \in Seq(PacketType) /\ Len(Append(q[l], p)) = Len(q[l]) + 1
          /\ Append(q[l], p)[Len(q[l]) + 1] = p
          /\ \A i \in 1..Len(q[l]) : Append(q[l], p)[i] = q[l][i]
      BY <2>0, AppendProperties
    <3>3. Len(q[l]) \in Nat
      BY <2>0
    <3>4. ASSUME NEW i \in 1..(Len(q[l]) + 1) PROVE Sane(l, Append(q[l], p)[i])
      <4>1. CASE i = Len(q[l]) + 1
        BY <2>1, <3>2, <4>1
      <4>2. CASE i # Len(q[l]) + 1
        BY <2>0, <3>2, <3>3, <3>4, <4>2
      <4> QED
        BY <4>1, <4>2
    <3> QED
      BY <3>1, <3>2, <3>4
  <2>2. CASE ~(l[1] = n /\ l[2] \in to /\ ~Contains(q[l], p))
    <3>1. Post(q, n, to, p)[l] = q[l]
      BY <2>2 DEF Post
    <3> QED
      BY <2>0, <3>1
  <2> QED
    BY <2>1, <2>2
<1>2. Post(q, n, to, p) \in [Links -> Seq(PacketType)]
  BY <1>1 DEF Post
<1> QED
  BY <1>1, <1>2 DEF NetSane

-----------------------------------------------------------------------------
(* Facts about routes *)

\* The place of a daemon in a route: none, or its first occurrence.
LEMMA PositionFirst ==
    ASSUME NEW s \in Seq(Nodes), NEW n
    PROVE  \/ Position(s, n) = -1 /\ ~Contains(s, n)
           \/ /\ Position(s, n) \in 0..(Len(s) - 1) /\ s[Position(s, n) + 1] = n
              /\ \A i \in 1..Position(s, n) : s[i] # n
<1> DEFINE I == {i \in 1..Len(s) : s[i] = n}
<1>0. Len(s) \in Nat
  OBVIOUS
<1>1. Position(s, n) = (IF I # {} THEN Min(I) ELSE 0) - 1
  BY DEF Position, SelectInSeq
<1>2. CASE I = {}
  BY <1>1, <1>2 DEF Contains
<1>3. CASE I # {}
  <2>1. \E x \in I : \A y \in I : x <= y
    <3>1. I \subseteq Nat /\ I # {}
      BY <1>3
    <3> HIDE DEF I
    <3>2. OpToRel(<, Nat) = {w \in Nat \X Nat : w[1] < w[2]}
      BY DEF OpToRel
    <3>3. IsWellFoundedOn({w \in Nat \X Nat : w[1] < w[2]}, Nat)
      BY <3>2, NatLessThanWellFounded
    <3>4. PICK x \in I : \A y \in I : ~(<<y, x>> \in {w \in Nat \X Nat : w[1] < w[2]})
      BY <3>1, <3>3, WFMin
    <3>5. ASSUME NEW y \in I PROVE x <= y
      <4>1. x \in Nat /\ y \in Nat /\ ~(<<y, x>> \in {w \in Nat \X Nat : w[1] < w[2]})
        BY <3>1, <3>4, <3>5
      <4> QED
        BY <4>1
    <3> QED
      BY <3>5
  <2>2. Min(I) \in I /\ \A y \in I : Min(I) <= y
    BY <2>1 DEF Min
  <2> HIDE DEF I
  <2>3. Position(s, n) = Min(I) - 1
    BY <1>1, <1>3
  <2>4. Min(I) \in 1..Len(s) /\ s[Min(I)] = n
    BY <2>2 DEF I
  <2>5. \A i \in 1..(Min(I) - 1) : s[i] # n
    <3> SUFFICES ASSUME NEW i \in 1..(Min(I) - 1), s[i] = n PROVE FALSE
      OBVIOUS
    <3>1. i \in I
      BY <1>0, <2>4 DEF I
    <3> QED
      BY <1>0, <2>2, <2>4, <3>1
  <2> QED
    BY <1>0, <2>3, <2>4, <2>5
<1> QED
  BY <1>2, <1>3

\* update_route keeps the table sane when the new route is.
LEMMA UpdateSane ==
    ASSUME RoutesSane(routes), NEW n \in Nodes, NEW d \in Targets,
           NEW hop \in Nodes, NEW count \in Nat,
           RouteSane(n, d, [next_hop |-> hop, hop_count |-> count])
    PROVE  RoutesSane(update_route(n, d, hop, count))
<1> DEFINE r == [next_hop |-> hop, hop_count |-> count]
<1>1. r \in Routes
  BY DEF Routes
<1> HIDE DEF r
<1> DEFINE t == [routes EXCEPT ![n][d] = r]
<1>2. t \in [Nodes -> [Targets -> Routes]]
  BY <1>1 DEF RoutesSane
<1>3. ASSUME NEW m \in Nodes, NEW e \in Targets PROVE RouteSane(m, e, t[m][e])
  <2>1. CASE m = n /\ e = d
    <3>1. t[m][e] = r
      BY <2>1 DEF RoutesSane
    <3> QED
      BY <2>1, <3>1 DEF r
  <2>2. CASE ~(m = n /\ e = d)
    <3>1. t[m][e] = routes[m][e]
      BY <2>2 DEF RoutesSane
    <3> QED
      BY <3>1 DEF RoutesSane
  <2> QED
    BY <2>1, <2>2
<1>4. RoutesSane(t)
  BY <1>2, <1>3 DEF RoutesSane
<1> QED
  BY <1>4 DEF update_route, r

\* What a reply installs is sane: n is not the end that answered, and the daemon before its first
\* occurrence is another one.
LEMMA ReplySane ==
    ASSUME RoutesSane(routes), NEW n \in Nodes, NEW l, NEW p \in PacketType, Sane(l, p),
           p.kind = "reply", Joined(n, p.dest), \A i \in 1..Len(p.path) : Joined(n, p.path[i])
    PROVE  RoutesSane(RouteFromReply(n, p))
<1> DEFINE pos == Position(p.path, n)
<1>1. p.path \in Seq(Nodes) /\ p.dest \in Targets /\ p.hops \in Nat /\ Len(p.path) \in Nat
  BY DEF PacketType
<1>2. CASE pos > 0
  <2>1. /\ pos \in 1..(Len(p.path) - 1) /\ p.path[pos + 1] = n
        /\ \A i \in 1..pos : p.path[i] # n
    <3>1. \/ pos = -1
          \/ /\ pos \in 0..(Len(p.path) - 1) /\ p.path[pos + 1] = n
             /\ \A i \in 1..pos : p.path[i] # n
      BY <1>1, PositionFirst, Zenon
    <3> QED
      BY <1>1, <1>2, <3>1
  <2> HIDE DEF pos
  <2> DEFINE hop == p.path[pos]
             count == p.hops + pos
  <2>2. hop \in Nodes /\ hop # n /\ count \in Nat /\ count > 0
    BY <1>1, <2>1, SMTT(30)
  <2>3. n # p.dest
    <3>1. pos + 1 \in 2..Len(p.path)
      BY <1>1, <2>1
    <3> QED
      BY <2>1, <3>1 DEF Sane
  <2>4. count = 1 <=> hop = p.dest
    <3>1. CASE pos = 1
      BY <1>1, <3>1 DEF Sane
    <3>2. CASE pos # 1
      <4>1. pos \in 2..Len(p.path)
        BY <1>1, <2>1, <3>2
      <4>2. hop # p.dest
        BY <4>1 DEF Sane
      <4> QED
        BY <1>1, <2>1, <3>2, <4>2
    <3> QED
      BY <3>1, <3>2
  <2>7. Joined(n, p.dest) /\ Joined(n, hop)
    <3>1. pos \in 1..Len(p.path)
      BY <1>1, <2>1
    <3> QED
      BY <3>1
  <2> HIDE DEF hop, count
  <2>5. RouteSane(n, p.dest, [next_hop |-> hop, hop_count |-> count])
    BY <2>2, <2>3, <2>4, <2>7 DEF RouteSane
  <2>6. RoutesSane(update_route(n, p.dest, hop, count))
    BY <1>1, <2>2, <2>5, UpdateSane
  <2> QED
    BY <1>2, <2>6 DEF RouteFromReply, pos, hop, count
<1>3. CASE ~(pos > 0)
  BY <1>3 DEF RouteFromReply
<1> QED
  BY <1>2, <1>3

\* Reversing an extended path puts the answering daemon first and keeps the others.
LEMMA AnswerPath ==
    ASSUME NEW s \in Seq(Nodes), NEW n \in Nodes, NEW d, \A i \in 1..Len(s) : s[i] # d,
           \A i \in 1..Len(s) : Joined(n, s[i]), Joined(n, n)
    PROVE  /\ Reverse(Append(s, n)) \in Seq(Nodes) /\ Len(Reverse(Append(s, n))) > 0
           /\ Reverse(Append(s, n))[1] = n
           /\ \A i \in 2..Len(Reverse(Append(s, n))) : Reverse(Append(s, n))[i] # d
           /\ \A i \in 1..Len(Reverse(Append(s, n))) : Joined(n, Reverse(Append(s, n))[i])
<1> DEFINE t == Append(s, n)
           r == Reverse(t)
<1>1. /\ t \in Seq(Nodes) /\ Len(t) = Len(s) + 1 /\ t[Len(s) + 1] = n
      /\ \A i \in 1..Len(s) : t[i] = s[i]
  BY AppendProperties
<1>2. Len(s) \in Nat
  OBVIOUS
<1> HIDE DEF t
<1>3. r = [i \in 1..Len(t) |-> t[(Len(t) - i) + 1]]
  BY DEF Reverse
<1>4. \A i \in 1..Len(t) : t[(Len(t) - i) + 1] \in Nodes
  BY <1>1, <1>2
<1> HIDE DEF r
<1>5. r \in Seq(Nodes) /\ Len(r) = Len(s) + 1
  BY <1>1, <1>2, <1>3, <1>4
<1>6. r[1] = n
  BY <1>1, <1>2, <1>3
<1>7. ASSUME NEW i \in 2..Len(r) PROVE r[i] # d
  <2>1. (Len(t) - i) + 1 \in 1..Len(s) /\ i \in 1..Len(t)
    BY <1>1, <1>2, <1>5, <1>7
  <2>2. r[i] = s[(Len(t) - i) + 1]
    BY <1>1, <1>3, <2>1
  <2> QED
    BY <2>1, <2>2
<1>8. ASSUME NEW i \in 1..Len(r) PROVE Joined(n, r[i])
  <2>1. CASE i = 1
    BY <1>6, <2>1
  <2>2. CASE i # 1
    <3>1. (Len(t) - i) + 1 \in 1..Len(s) /\ i \in 1..Len(t)
      BY <1>1, <1>2, <1>5, <1>8, <2>2
    <3>2. r[i] = s[(Len(t) - i) + 1]
      BY <1>1, <1>3, <3>1
    <3> QED
      BY <3>1, <3>2
  <2> QED
    BY <2>1, <2>2
<1> QED
  BY <1>2, <1>5, <1>6, <1>7, <1>8 DEF r, t

\* send_to puts the packet in flight, or a request with an empty path; both are sane.
LEMMA SentSane ==
    ASSUME NEW q, NetSane(q), NEW n \in Nodes, NEW d \in Targets, NEW p \in PacketType,
           \A l \in Links : l[1] = n => Sane(l, p)
    PROVE  NetSane(Sent(q, n, d, p))
<1> DEFINE req == Packet("request", d, <<>>, 0, n)
<1>1. req \in PacketType /\ req.kind = "request" /\ req.path = <<>>
  BY DEF Packet, PacketType
<1>2. \A l \in Links : Sane(l, req)
  BY <1>1 DEF Sane, Near
<1> HIDE DEF req
<1>3. NetSane(Post(q, n, {d}, p))
  BY PostSane
<1>4. NetSane(Post(q, n, {routes[n][d].next_hop}, p))
  BY PostSane
<1>5. NetSane(Post(q, n, Adj(n), req))
  BY <1>1, <1>2, PostSane
<1> QED
  BY <1>3, <1>4, <1>5 DEF Sent, req

\* What send_to remembers has its type.
LEMMA RequestedType ==
    ASSUME pending_path_requests \in [Nodes -> SUBSET Targets], NEW n \in Nodes, NEW d \in Targets
    PROVE  Requested(n, d) \in [Nodes -> SUBSET Targets]
BY DEF Requested

-----------------------------------------------------------------------------
(* The steps *)

\* handle_announce: the announcer is a neighbour or a neighbour's neighbour.
LEMMA AnnounceStep ==
    ASSUME PathInv, NEW l \in Links, NEW i \in 1..Len(net[l]), NEW rest, NetSane(rest),
           NEW p, p = net[l][i], handle_announce(l[2], p, rest)
    PROVE  /\ RoutesSane(routes') /\ PeersSane(peer_keys') /\ NetSane(net')
           /\ pending_path_requests' \in [Nodes -> SUBSET Targets]
           /\ sent_announces' \in [Nodes -> SUBSET Nodes]
<1> DEFINE n == l[2]
<1>1. p \in PacketType /\ Sane(l, p) /\ p.kind = "announce"
  BY DEF PathInv, NetSane, handle_announce
<1>2. /\ n \in Nodes /\ l[1] \in Nodes /\ n \in Adj(l[1]) /\ l[1] \in Adj(n)
      /\ p.dest \in Nodes /\ p.dest \in Targets /\ p.dest \in Announcers /\ p.hops \in Nat
  BY <1>1, LinkEnds, AdjSymmetric DEF Sane, Targets, PacketType
<1> HIDE DEF n
<1>3. RoutesSane(routes')
  <2>1. RouteSane(n, p.dest, [next_hop |-> p.dest, hop_count |-> 1])
    <3>1. Joined(n, p.dest)
      BY <1>1 DEF Sane, Near, n
    <3> QED
      BY <1>2, <3>1 DEF RouteSane
  <2>2. RoutesSane(update_route(n, p.dest, p.dest, 1))
    BY <1>2, <2>1, UpdateSane DEF PathInv
  <2> QED
    BY <2>2 DEF handle_announce, n
<1>4. p.dest \in Adj(n) \cup UNION {Adj(m) : m \in Adj(n)}
  <2>1. CASE p.hops = 1 /\ l[1] = p.dest
    BY <1>2, <2>1
  <2>2. CASE p.hops = 0 /\ l[1] \in Adj(p.dest)
    <3>1. p.dest \in Adj(l[1])
      BY <1>2, <2>2, AdjSymmetric
    <3> QED
      BY <1>2, <3>1
  <2> QED
    BY <1>1, <2>1, <2>2 DEF Sane
<1>5. PeersSane(peer_keys')
  <2>1. peer_keys' = [peer_keys EXCEPT ![n] = @ \cup {p.dest}]
    BY DEF handle_announce, n
  <2>2. PeersSane(peer_keys)
    BY DEF PathInv
  <2> QED
    BY <1>2, <1>4, <2>1, <2>2 DEF PeersSane
<1>6. sent_announces' \in [Nodes -> SUBSET Nodes] /\ NetSane(net')
  <2>1. CASE PassesOn(n, p)
    <3> DEFINE pp == [p EXCEPT !.hops = IF p.hops > 0 THEN p.hops - 1 ELSE 0]
    <3>1. /\ sent_announces' = [sent_announces EXCEPT ![n] = @ \cup {p.dest}]
          /\ net' = Post(rest, n, Adj(n), pp)
      BY <2>1 DEF handle_announce, n
    <3>2. p.hops = 1 /\ l[1] = p.dest
      BY <1>1, <1>2, <2>1 DEF Sane, PassesOn
    <3>3. /\ pp \in PacketType /\ pp.hops = 0 /\ pp.dest = p.dest /\ pp.kind = "announce"
          /\ pp.path = p.path
      BY <1>1, <1>2, <3>2, SMTT(30) DEF PacketType
    <3> HIDE DEF pp
    <3>4. \A k \in Links : k[1] = n /\ k[2] \in Adj(n) => Sane(k, pp)
      <4> SUFFICES ASSUME NEW k \in Links, k[1] = n PROVE Sane(k, pp)
        OBVIOUS
      <4>1. Near(k, p)
        BY <1>1, NearMoves DEF Sane, n
      <4>2. Near(k, pp)
        BY <1>1, <3>3, <4>1 DEF Near
      <4> QED
        BY <1>2, <3>2, <3>3, <4>2 DEF Sane
    <3> HIDE DEF pp
    <3>5. NetSane(net')
      BY <3>1, <3>3, <3>4, PostSane
    <3> QED
      BY <1>2, <3>1, <3>5 DEF PathInv
  <2>2. CASE ~PassesOn(n, p)
    BY <2>2 DEF handle_announce, n, PathInv
  <2> QED
    BY <2>1, <2>2
<1>7. pending_path_requests' \in [Nodes -> SUBSET Targets]
  BY DEF handle_announce, PathInv
<1> QED
  BY <1>3, <1>5, <1>6, <1>7

\* handle_path_request_msg: the reply names the destination exactly if it is the one that answers.
LEMMA RequestStep ==
    ASSUME PathInv, NEW l \in Links, NEW i \in 1..Len(net[l]), NEW rest, NetSane(rest),
           NEW p, p = net[l][i], handle_path_request_msg(l[1], l[2], p, rest)
    PROVE  /\ RoutesSane(routes') /\ PeersSane(peer_keys') /\ NetSane(net')
           /\ pending_path_requests' \in [Nodes -> SUBSET Targets]
           /\ sent_announces' \in [Nodes -> SUBSET Nodes]
<1> DEFINE n == l[2]
<1>1. p \in PacketType /\ Sane(l, p) /\ p.kind = "request"
  BY DEF PathInv, NetSane, handle_path_request_msg
<1>2. /\ n \in Nodes /\ l[1] \in Nodes /\ l[1] \in Targets
      /\ p.dest \in Targets /\ p.path \in Seq(Nodes) /\ p.origin \in Nodes
  BY <1>1, LinkEnds DEF Targets, PacketType
<1>3. \A j \in 1..Len(p.path) : p.path[j] # p.dest
  BY <1>1 DEF Sane
<1>5. Joined(n, n) /\ \A j \in 1..Len(p.path) : Joined(n, p.path[j])
  BY <1>1 DEF Sane, Near, Joined
<1>6. \A k \in Links : k[1] = n => \A d : Joined(n, d) => Joined(k[2], d)
  <2> SUFFICES ASSUME NEW k \in Links, k[1] = n PROVE \A d : Joined(n, d) => Joined(k[2], d)
    OBVIOUS
  <2>1. k[2] \in Nodes /\ n \in Nodes /\ n \in Adj(k[2])
    BY <1>2, LinkEnds, AdjSymmetric
  <2> QED
    BY <2>1, JoinedNeighbour
<1> HIDE DEF n
<1>4. NetSane(net') /\ pending_path_requests' \in [Nodes -> SUBSET Targets]
  <2>1. CASE AnswerRequest(l[1], n, p, rest)
    <3> DEFINE hops == IF n = p.dest THEN 0 ELSE routes[n][p.dest].hop_count
               r == Reverse(Append(p.path, n))
               reply == Packet("reply", p.dest, r, hops, p.origin)
    <3>1. /\ net' = Sent(rest, n, l[1], reply)
          /\ pending_path_requests' = Requested(n, l[1])
      BY <2>1 DEF AnswerRequest
    <3>2. hops \in Nat /\ (hops = 0 <=> n = p.dest)
      <4>1. RouteSane(n, p.dest, routes[n][p.dest]) /\ routes[n][p.dest] \in Routes
        BY <1>2 DEF PathInv, RoutesSane
      <4>2. n # p.dest => routes[n][p.dest] # NoRoute
        BY <2>1 DEF AnswerRequest, Knows, HasRoute
      <4>3. n # p.dest => routes[n][p.dest].hop_count > 0 /\ routes[n][p.dest].hop_count \in Nat
        BY <4>1, <4>2 DEF RouteSane, Routes
      <4> QED
        BY <4>3, SMTT(30)
    <3>3. /\ r \in Seq(Nodes) /\ Len(r) > 0 /\ r[1] = n
          /\ \A j \in 2..Len(r) : r[j] # p.dest
          /\ \A j \in 1..Len(r) : Joined(n, r[j])
      <4> DEFINE s == p.path
                 d == p.dest
      <4>1. s \in Seq(Nodes) /\ \A j \in 1..Len(s) : s[j] # d
        BY <1>2, <1>3
      <4>3. Joined(n, n) /\ \A j \in 1..Len(s) : Joined(n, s[j])
        BY <1>5
      <4>0. n \in Nodes
        BY <1>2
      <4> HIDE DEF s, d
      <4>2. /\ Reverse(Append(s, n)) \in Seq(Nodes) /\ Len(Reverse(Append(s, n))) > 0
            /\ Reverse(Append(s, n))[1] = n
            /\ \A j \in 2..Len(Reverse(Append(s, n))) : Reverse(Append(s, n))[j] # d
            /\ \A j \in 1..Len(Reverse(Append(s, n))) : Joined(n, Reverse(Append(s, n))[j])
        BY <4>0, <4>1, <4>3, AnswerPath, ZenonT(60)
      <4> QED
        BY <4>2 DEF s, d
    <3> HIDE DEF hops, r
    <3>4. /\ reply \in PacketType /\ reply.kind = "reply" /\ reply.path = r
          /\ reply.dest = p.dest /\ reply.hops = hops
      BY <1>2, <3>2, <3>3 DEF Packet, PacketType
    <3> HIDE DEF reply
    <3>7. Joined(n, p.dest)
      <4>1. CASE n = p.dest
        BY <1>5, <4>1
      <4>2. CASE n # p.dest
        BY <1>2, <2>1, <4>2 DEF AnswerRequest, Knows, HasRoute, PathInv, RoutesSane, RouteSane
      <4> QED
        BY <4>1, <4>2
    <3>5. ASSUME NEW k \in Links, k[1] = n PROVE Sane(k, reply)
      <4>1. Near(k, reply)
        BY <1>6, <3>3, <3>4, <3>5, <3>7 DEF Near
      <4> QED
        BY <3>2, <3>3, <3>4, <4>1 DEF Sane
    <3>6. NetSane(net')
      BY <1>2, <3>1, <3>4, <3>5, SentSane
    <3> QED
      BY <1>2, <3>1, <3>6, RequestedType DEF PathInv
  <2>2. CASE ForwardRequest(n, p, rest)
    <3> DEFINE path == add_hop(p.path, n)
               pp == [p EXCEPT !.path = path]
    <3>1. /\ net' = rest \/ net' = Post(rest, n, Adj(n), pp)
          /\ UNCHANGED pending_path_requests
      BY <2>2 DEF ForwardRequest
    <3>2. /\ path \in Seq(Nodes) /\ \A j \in 1..Len(path) : path[j] # p.dest
          /\ \A j \in 1..Len(path) : Joined(n, path[j])
      <4>1. n # p.dest
        BY <2>2 DEF ForwardRequest, Knows
      <4>2. /\ Append(p.path, n) \in Seq(Nodes) /\ Len(Append(p.path, n)) = Len(p.path) + 1
            /\ Append(p.path, n)[Len(p.path) + 1] = n
            /\ \A j \in 1..Len(p.path) : Append(p.path, n)[j] = p.path[j]
        BY <1>2, AppendProperties
      <4>3. Len(p.path) \in Nat
        BY <1>2
      <4>4. \A j \in 1..(Len(p.path) + 1) : Append(p.path, n)[j] # p.dest
        BY <1>3, <4>1, <4>2, <4>3, SMTT(30)
      <4>5. \A j \in 1..(Len(p.path) + 1) : Joined(n, Append(p.path, n)[j])
        BY <1>5, <4>2, <4>3, SMTT(30)
      <4> QED
        BY <1>2, <1>3, <1>5, <4>2, <4>4, <4>5 DEF add_hop
    <3> HIDE DEF path
    <3>3. pp \in PacketType /\ pp.kind = "request" /\ pp.path = path /\ pp.dest = p.dest
      BY <1>1, <3>2 DEF PacketType
    <3> HIDE DEF pp
    <3>4. \A k \in Links : k[1] = n => Sane(k, pp)
      BY <1>6, <3>2, <3>3 DEF Sane, Near
    <3>5. NetSane(Post(rest, n, Adj(n), pp))
      BY <3>3, <3>4, PostSane
    <3> QED
      BY <3>1, <3>5 DEF PathInv
  <2> QED
    BY <2>1, <2>2 DEF handle_path_request_msg, n
<1> QED
  BY <1>4 DEF handle_path_request_msg, PathInv

\* handle_path_reply_msg: the reply travels on unchanged.
LEMMA ReplyStep ==
    ASSUME PathInv, NEW l \in Links, NEW i \in 1..Len(net[l]), NEW rest, NetSane(rest),
           NEW p, p = net[l][i], handle_path_reply_msg(l[2], p, rest)
    PROVE  /\ RoutesSane(routes') /\ PeersSane(peer_keys') /\ NetSane(net')
           /\ pending_path_requests' \in [Nodes -> SUBSET Targets]
           /\ sent_announces' \in [Nodes -> SUBSET Nodes]
<1> DEFINE n == l[2]
           pos == Position(p.path, n)
           hop == p.path[pos + 2]
<1>1. p \in PacketType /\ Sane(l, p) /\ p.kind = "reply"
  BY DEF PathInv, NetSane, handle_path_reply_msg
<1>2. n \in Nodes /\ p.path \in Seq(Nodes) /\ Len(p.path) \in Nat
  BY <1>1, LinkEnds, SMTT(30) DEF PacketType
<1>3. RoutesSane(routes')
  <2>2. Joined(n, p.dest) /\ \A j \in 1..Len(p.path) : Joined(n, p.path[j])
    BY <1>1 DEF Sane, Near
  <2>1. RoutesSane(RouteFromReply(n, p))
    BY <1>1, <1>2, <2>2, ReplySane DEF PathInv
  <2> QED
    BY <2>1 DEF handle_path_reply_msg
<1>4. NetSane(net') /\ pending_path_requests' \in [Nodes -> SUBSET Targets]
  <2>1. CASE Contains(p.path, n) /\ pos + 1 < Len(p.path)
    <3>1. net' = Sent(rest, n, hop, p) /\ pending_path_requests' = Requested(n, hop)
      BY <2>1 DEF handle_path_reply_msg
    <3>2. \/ pos = -1 /\ ~Contains(p.path, n)
          \/ pos \in 0..(Len(p.path) - 1) /\ p.path[pos + 1] = n
      BY <1>2, PositionFirst, Zenon
    <3> HIDE DEF pos
    <3>3. pos \in Nat /\ pos + 2 \in 1..Len(p.path)
      BY <1>2, <2>1, <3>2, SMTT(30)
    <3>4. hop \in Nodes
      BY <1>2, <3>3
    <3>5. ASSUME NEW k \in Links, k[1] = n PROVE Sane(k, p)
      <4>1. Near(k, p)
        BY <1>1, <3>5, NearMoves DEF Sane
      <4> QED
        BY <1>1, <4>1 DEF Sane
    <3> HIDE DEF n, hop
    <3>6. hop \in Targets
      BY <3>4 DEF Targets
    <3>7. NetSane(net')
      BY <1>1, <1>2, <3>1, <3>5, <3>6, SentSane
    <3> QED
      BY <1>2, <3>1, <3>6, <3>7, RequestedType DEF PathInv
  <2>2. CASE ~(Contains(p.path, n) /\ pos + 1 < Len(p.path))
    BY <2>2 DEF handle_path_reply_msg, PathInv
  <2> QED
    BY <2>1, <2>2
<1> QED
  BY <1>3, <1>4 DEF handle_path_reply_msg, PathInv

\* Every reachable state satisfies the invariant.
THEOREM PathInvariant == Spec => []PathInv
<1>1. Init => PathInv
  <2> SUFFICES ASSUME Init PROVE PathInv
    OBVIOUS
  <2>1. RoutesSane(routes)
    BY DEF Init, RoutesSane, RouteSane, NoRoute, Routes
  <2>2. PeersSane(peer_keys)
    BY DEF Init, PeersSane
  <2>3. NetSane(net)
    BY DEF Init, NetSane
  <2> QED
    BY <2>1, <2>2, <2>3 DEF Init, PathInv
<1>2. PathInv /\ [Next]_vars => PathInv'
  <2> SUFFICES ASSUME PathInv, [Next]_vars PROVE PathInv'
    OBVIOUS
  <2>1. ASSUME NEW n \in Requesters, send_to(n, Destination) PROVE PathInv'
    <3> DEFINE req == Packet("request", Destination, <<>>, 0, n)
    <3>1. n \in Nodes /\ Destination \in Targets
      BY DEF Targets
    <3>2. req \in PacketType /\ req.kind = "request" /\ req.path = <<>>
      BY <3>1 DEF Packet, PacketType
    <3>3. \A l \in Links : Sane(l, req)
      BY <3>2 DEF Sane, Near
    <3>4. net' = Post(net, n, Adj(n), req)
      BY <2>1 DEF send_to, Sent, Asks
    <3> HIDE DEF req
    <3>5. NetSane(net')
      BY <3>2, <3>3, <3>4, PostSane DEF PathInv
    <3>6. pending_path_requests' \in [Nodes -> SUBSET Targets]
      BY <2>1, <3>1, RequestedType DEF send_to, PathInv
    <3> QED
      BY <2>1, <3>5, <3>6 DEF send_to, PathInv
  <2>2. ASSUME NEW n \in Announcers, announce(n) PROVE PathInv'
    <3> DEFINE ann == Packet("announce", n, <<>>, 1, n)
    <3>1. /\ ann \in PacketType /\ ann.kind = "announce" /\ ann.dest = n /\ ann.hops = 1
          /\ ann.path = <<>>
      BY DEF Packet, PacketType, Targets
    <3> HIDE DEF ann
    <3>2. ASSUME NEW l \in Links, l[1] = n /\ l[2] \in Adj(n) PROVE Sane(l, ann)
      <4>1. l[2] \in Nodes /\ n \in Nodes /\ n \in Adj(l[2])
        BY <3>2, LinkEnds, AdjSymmetric
      <4>2. Joined(l[2], n)
        BY <4>1, JoinedNeighbour
      <4> QED
        BY <3>1, <3>2, <4>2 DEF Sane, Near
    <3>3. net' = Post(net, n, Adj(n), ann)
      BY <2>2 DEF announce, ann
    <3>4. NetSane(net')
      BY <3>1, <3>2, <3>3, PostSane DEF PathInv
    <3> QED
      BY <2>2, <3>4 DEF announce, PathInv
  <2>3. ASSUME NEW l \in Links, NEW i, Receive(l, i) PROVE PathInv'
    <3>1. i \in 1..Len(net[l])
      <4>1. net[l] \in Seq(PacketType)
        BY DEF PathInv, NetSane
      <4> QED
        BY <2>3, <4>1 DEF Receive
    <3>2. faults' \in 0..MaxFaults
      BY <2>3 DEF Receive, PathInv
    <3>3. PICK rest, p : rest = Rest(l, i) /\ p = net[l][i]
      OBVIOUS
    <3>4. NetSane(rest)
      BY <3>1, <3>3, RestSane DEF PathInv
    <3>5. \/ handle_announce(l[2], p, rest)
          \/ handle_path_request_msg(l[1], l[2], p, rest)
          \/ handle_path_reply_msg(l[2], p, rest)
      BY <2>3, <3>3 DEF Receive
    <3>6. /\ RoutesSane(routes') /\ PeersSane(peer_keys') /\ NetSane(net')
          /\ pending_path_requests' \in [Nodes -> SUBSET Targets]
          /\ sent_announces' \in [Nodes -> SUBSET Nodes]
      BY <3>1, <3>3, <3>4, <3>5, AnnounceStep, RequestStep, ReplyStep
    <3> QED
      BY <3>2, <3>6 DEF PathInv
  <2>4. ASSUME NEW l \in Links, NEW i, Lose(l, i) PROVE PathInv'
    <3>1. i \in 1..Len(net[l])
      <4>1. net[l] \in Seq(PacketType)
        BY DEF PathInv, NetSane
      <4> QED
        BY <2>4, <4>1 DEF Lose
    <3>2. NetSane(net')
      BY <2>4, <3>1, RestSane DEF Lose, PathInv
    <3> QED
      BY <2>4, <3>2 DEF Lose, PathInv
  <2>5. CASE UNCHANGED vars
    BY <2>5 DEF vars, PathInv
  <2> QED
    BY <2>1, <2>2, <2>3, <2>4, <2>5 DEF Next
<1> QED
  BY <1>1, <1>2, PTL DEF Spec

\* Routes lead away: on every network no daemon is its own next hop or has a route to itself unless
\* it hears its own announce, and it is one hop away from exactly the destinations that are their
\* own next hop (update_route, handle_path_reply), whatever the medium does.
THEOREM RoutesLeadAwayAlways == Spec => []RoutesLeadAway
<1>1. PathInv => RoutesLeadAway
  BY DEF PathInv, RoutesSane, RouteSane, RoutesLeadAway, HasRoute
<1> QED
  BY <1>1, PathInvariant, PTL

\* Routes stay in reach: on every network a daemon's routes lead to destinations that somebody in its
\* part of the network has, over daemons in that part, whichever copies of requests are answered by
\* whom (handle_path_request, handle_path_reply) and whatever the medium does.
THEOREM RoutesAlwaysReachable == Spec => []RoutesReachable
<1>1. PathInv => RoutesReachable
  <2> SUFFICES ASSUME PathInv PROVE RoutesReachable
    OBVIOUS
  <2>1. TypeOK
    BY DEF PathInv, RoutesSane, PeersSane, NetSane, TypeOK
  <2>2. ASSUME NEW S \in SUBSET Nodes, Closed(S), NEW n \in S, NEW d \in Targets, HasRoute(n, d)
        PROVE  {routes[n][d].next_hop, d} \subseteq S
    <3>1. RouteSane(n, d, routes[n][d]) /\ routes[n][d] # NoRoute
      BY <2>2 DEF PathInv, RoutesSane, HasRoute
    <3>2. Joined(n, d) /\ Joined(n, routes[n][d].next_hop)
      BY <3>1 DEF RouteSane
    <3> QED
      BY <2>2, <3>2 DEF Joined
  <2> QED
    BY <2>1, <2>2 DEF RoutesReachable
<1> QED
  BY <1>1, PathInvariant, PTL

\* On every network an announce (handle_announce) makes its sender known to its neighbours and
\* to theirs, and to nobody else.
THEOREM AnnouncesStayNear == Spec => []AnnounceReach
<1>1. PathInv => AnnounceReach
  BY DEF PathInv, PeersSane, AnnounceReach
<1> QED
  BY <1>1, PathInvariant, PTL
=============================================================================
