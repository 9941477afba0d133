----------------------------- MODULE LinkSession -----------------------------
(***************************************************************************)
(* An established link between two daemons: the maintenance pass of        *)
(* Daemon::run (stale links, probes, keepalives, ratchet keys), the        *)
(* handling of the packets of a link in handle_link_data, and Link::send   *)
(* and Link::deliver under them (crates/daemon/src/lib.rs and              *)
(* crates/transport/src/link.rs).                                          *)
(*                                                                         *)
(* A RATCHET packet replaces the receiver's shared_key by a hash of it and *)
(* of the secret of the two ratchet keys.  The ratchet keys do not change  *)
(* during a link, so a key is represented by how many times it was         *)
(* replaced, modulo env.GenMod.  Time is counted in ticks; the clocks      *)
(* last_inbound and last_outbound are kept as ages.                        *)
(***************************************************************************)
EXTENDS Naturals, FiniteSets

CONSTANTS
    RemoteIs,          \* what Link::new is given as the remote: see Remote
    KeepaliveInterval, TrafficTimeout, StaleTime,   \* in ticks: 30 s, 300 s, 600 s
    MaxData,           \* bound: how many payloads an end sends
    MaxFaults,         \* bound: how many packets are lost or duplicated
    MaxGen,            \* bound: no environment tells more keys apart
    Environments       \* the surroundings a link may have: see Environment

ASSUME RemoteAssumption == RemoteIs \in {"identity", "destination"}
ASSUME TimeAssumption ==
    /\ {KeepaliveInterval, TrafficTimeout, StaleTime} \subseteq Nat
    /\ KeepaliveInterval < TrafficTimeout /\ TrafficTimeout < StaleTime
ASSUME BoundAssumption == {MaxData, MaxFaults, MaxGen} \subseteq Nat

\* What happens around a link: its faults, how many keys and ratchet sequence numbers are told
\* apart, and the ends whose applications send payloads.
Environment == [faults : SUBSET {"lose", "dup", "crash", "time"},
                GenMod : 2..MaxGen,
                senders : SUBSET {"a", "b"}]
ASSUME EnvironmentAssumption == Environments \subseteq Environment

VARIABLES
    env,               \* the environment of this behaviour, which does not change
    alive,             \* [Ends -> BOOLEAN]: is the daemon running?
    up,                \* [Ends -> BOOLEAN]: does the daemon hold the channel?
    shared_key,        \* [Ends -> Gen]
    pending_send,      \* [Ends -> BOOLEAN]: ratchet_pending_send
    ratchet_sequence,  \* [Ends -> Gen]
    inbound_age,       \* [Ends -> Age]: now - last_inbound
    outbound_age,      \* [Ends -> Age]: now - last_outbound
    net,               \* packets in flight
    sent,              \* [Ends -> 0..MaxData]: payloads sent so far
    delivered,         \* [Ends -> SUBSET payloads]: what Link::deliver buffered
    faults,            \* how many packets were lost or duplicated
    probed,            \* history: was a probe sent since the last inbound traffic?
    keepalives         \* history: KEEPALIVEs sent since the last tick, up to 2

clocks == <<inbound_age, outbound_age>>
keys == <<shared_key, pending_send, ratchet_sequence>>
history == <<probed, keepalives>>
vars == <<env, alive, up, shared_key, pending_send, ratchet_sequence, inbound_age, outbound_age,
          net, sent, delivered, faults, probed, keepalives>>

Ends == {"a", "b"}
Peer(n) == CHOOSE m \in Ends : m # n
Gen == 0..(MaxGen - 1)
\* Ages above StaleTime are not told apart.
Age == 0..(StaleTime + 1)
NextGen(g) == (g + 1) % env.GenMod
Older(age) == IF age \in 0..StaleTime THEN age + 1 ELSE age

-----------------------------------------------------------------------------
(* Transport identifiers *)

\* Destination::singleton(keys, "daemon"): a hash of the name and the identity.
DestinationHash(n) == {<<"destination", n>>}

\* The remote address of a link: a daemon's connect and handle_linkrequest use the address of
\* the peer's identity, the crates' tests the hash of the peer's destination.
Remote(n) == {<<RemoteIs, n>>}

\* Bytewise exclusive or, here the symmetric difference of sets.
derive_transport_id(local, remote) == (local \ remote) \cup (remote \ local)

TransportId(n) == derive_transport_id(DestinationHash(n), Remote(Peer(n)))

-----------------------------------------------------------------------------
(* Packets.  gen is the key a payload is encrypted with; seq is the payload's number, or the *)
(* sequence number of a RATCHET, which the receiver only logs. *)

Packet == [context : {"DATA", "PROBE", "KEEPALIVE", "RATCHET"}, to : Ends,
           gen : Gen, seq : 0..(MaxGen + MaxData)]
Empty(context, n) == [context |-> context, to |-> Peer(n), gen |-> 0, seq |-> 0]

Init ==
    /\ env \in Environments
    /\ alive = [n \in Ends |-> TRUE]
    /\ up = [n \in Ends |-> TRUE]
    /\ shared_key = [n \in Ends |-> 0]
    /\ pending_send = [n \in Ends |-> TRUE]
    /\ ratchet_sequence = [n \in Ends |-> 0]
    /\ inbound_age = [n \in Ends |-> 0]
    /\ outbound_age = [n \in Ends |-> 0]
    /\ net = {}
    /\ sent = [n \in Ends |-> 0]
    /\ delivered = [n \in Ends |-> {}]
    /\ faults = 0
    /\ probed = [n \in Ends |-> FALSE]
    /\ keepalives = [n \in Ends |-> 0]

-----------------------------------------------------------------------------
(* The maintenance pass of Daemon::run, for the channel to the peer *)

\* Mutant: the age of a link is not looked at.
IsStaleNever(n) == FALSE

IsStale(n) == inbound_age[n] > StaleTime

\* Mutant: the probe is not sent.
ProbesNever(n) == FALSE

Probes(n) == ~IsStale(n) /\ inbound_age[n] > TrafficTimeout

SendsKeepalive(n) == ~IsStale(n) /\ ~Probes(n) /\ outbound_age[n] > KeepaliveInterval

\* Mutant: the ratchet key goes out in every iteration, pending or not.
SendsRatchetAlways(n) == ~IsStale(n)

\* The ratchet pass comes after the removal of stale links.
SendsRatchet(n) == ~IsStale(n) /\ pending_send[n]

Maintenance(n) ==
    {p \in {Empty("PROBE", n)} : Probes(n)} \cup
    {p \in {Empty("KEEPALIVE", n)} : SendsKeepalive(n)} \cup
    {p \in {[context |-> "RATCHET", to |-> Peer(n), gen |-> 0, seq |-> ratchet_sequence[n]]} :
        SendsRatchet(n)}

\* One iteration of the loop.  Only Link::send touches last_outbound, so a keepalive does not.
run(n) ==
    /\ alive[n] /\ up[n]
    /\ IsStale(n) \/ Probes(n) \/ SendsKeepalive(n) \/ SendsRatchet(n)
    /\ up' = [up EXCEPT ![n] = ~IsStale(n)]
    /\ pending_send' = [pending_send EXCEPT ![n] = @ /\ ~SendsRatchet(n)]
    /\ ratchet_sequence' = [ratchet_sequence EXCEPT ![n] = IF SendsRatchet(n) THEN NextGen(@) ELSE @]
    /\ net' = net \cup Maintenance(n)
    /\ probed' = [probed EXCEPT ![n] = @ \/ Probes(n)]
    /\ keepalives' = [keepalives EXCEPT ![n] = IF SendsKeepalive(n) /\ @ < 2 THEN @ + 1 ELSE @]
    /\ UNCHANGED <<env, alive, shared_key, clocks, sent, delivered, faults>>

-----------------------------------------------------------------------------
(* Payloads and link packets *)

\* Link::send, called by send_over_link.
send(n) ==
    /\ alive[n] /\ up[n]
    /\ sent[n] < MaxData
    /\ sent' = [sent EXCEPT ![n] = @ + 1]
    /\ net' = net \cup {[context |-> "DATA", to |-> Peer(n), gen |-> shared_key[n], seq |-> sent'[n]]}
    /\ outbound_age' = [outbound_age EXCEPT ![n] = 0]
    /\ UNCHANGED <<env, alive, up, keys, inbound_age, delivered, faults, history>>

\* Link::deliver succeeds when the transport ids are equal and the payload decrypts.  The
\* empty payload of a KEEPALIVE or a probe is too short to carry an HMAC.
LinkDelivers(p) ==
    /\ TransportId(Peer(p.to)) = TransportId(p.to)
    /\ p.context = "DATA"
    /\ p.gen = shared_key[p.to]

\* DATA and KEEPALIVE go to Link::deliver; an error leaves everything as it was.
Deliver(p) ==
    /\ p.context # "RATCHET"
    /\ IF up[p.to] /\ LinkDelivers(p)
         THEN /\ delivered' = [delivered EXCEPT ![p.to] = @ \cup {p.seq}]
              /\ inbound_age' = [inbound_age EXCEPT ![p.to] = 0]
              /\ probed' = [probed EXCEPT ![p.to] = FALSE]
         ELSE UNCHANGED <<delivered, inbound_age, probed>>
    /\ UNCHANGED <<shared_key, pending_send>>

\* Mutant: a ratchet key whose sequence number is not this end's own is ignored.
RatchetChecksSequence(p) ==
    /\ p.context = "RATCHET"
    /\ IF up[p.to] /\ p.seq = ratchet_sequence[p.to]
         THEN /\ shared_key' = [shared_key EXCEPT ![p.to] = NextGen(@)]
              /\ pending_send' = [pending_send EXCEPT ![p.to] = TRUE]
         ELSE UNCHANGED <<shared_key, pending_send>>
    /\ UNCHANGED <<delivered, inbound_age, probed>>

\* A ratchet key: this end moves to the next key and will send its own ratchet key again.
\* Neither the transport id nor the sequence number is looked at.
Ratchet(p) ==
    /\ p.context = "RATCHET"
    /\ IF up[p.to]
         THEN /\ shared_key' = [shared_key EXCEPT ![p.to] = NextGen(@)]
              /\ pending_send' = [pending_send EXCEPT ![p.to] = TRUE]
         ELSE UNCHANGED <<shared_key, pending_send>>
    /\ UNCHANGED <<delivered, inbound_age, probed>>

handle_link_data(p) ==
    /\ alive[p.to]
    /\ Deliver(p) \/ Ratchet(p)
    /\ UNCHANGED <<env, alive, up, ratchet_sequence, outbound_age, sent, keepalives>>

-----------------------------------------------------------------------------
(* The environment *)

Receive(p) == handle_link_data(p) /\ net' = net \ {p} /\ UNCHANGED faults

Duplicate(p) ==
    /\ "dup" \in env.faults /\ faults < MaxFaults
    /\ handle_link_data(p) /\ faults' = faults + 1 /\ UNCHANGED net

Lose(p) ==
    /\ "lose" \in env.faults /\ faults < MaxFaults
    /\ net' = net \ {p} /\ faults' = faults + 1
    /\ UNCHANGED <<env, alive, up, keys, clocks, sent, delivered, history>>

\* A packet for a daemon that is gone.
Vanish(p) ==
    /\ ~alive[p.to]
    /\ net' = net \ {p}
    /\ UNCHANGED <<env, alive, up, keys, clocks, sent, delivered, faults, history>>

\* The process ends; links are not persisted.
Crash(n) ==
    /\ "crash" \in env.faults /\ alive[n]
    /\ alive' = [alive EXCEPT ![n] = FALSE]
    /\ up' = [up EXCEPT ![n] = FALSE]
    /\ UNCHANGED <<env, keys, clocks, net, sent, delivered, faults, history>>

\* A tick is long: every packet arrives and every loop has done what is due before it ends.
\* A ratchet key is always under way, so it is not waited for.
Tick ==
    /\ "time" \in env.faults
    /\ {p \in net : p.context # "RATCHET"} = {}
    /\ \A n \in Ends : alive[n] /\ up[n] =>
          /\ ~IsStale(n)
          /\ Probes(n) => probed[n]
          /\ SendsKeepalive(n) => keepalives[n] > 0
    /\ inbound_age' = [n \in Ends |-> Older(inbound_age[n])]
    /\ outbound_age' = [n \in Ends |-> Older(outbound_age[n])]
    /\ keepalives' = [n \in Ends |-> 0]
    /\ UNCHANGED <<env, alive, up, keys, net, sent, delivered, faults, probed>>

Next ==
    \/ \E n \in Ends : run(n)
    \/ \E n \in env.senders : send(n)
    \/ \E p \in net : Receive(p)
    \/ \E p \in net : Duplicate(p)
    \/ \E p \in net : Lose(p)
    \/ \E p \in net : Vanish(p)
    \/ \E n \in Ends : Crash(n)
    \/ Tick

Spec == Init /\ [][Next]_vars

(***************************************************************************)
(* Fairness: each daemon's loop runs again and again, every packet that is *)
(* not lost arrives, and time goes on (strongly: Tick is disabled while a  *)
(* packet is in flight, and the loops keep sending).                       *)
(***************************************************************************)
FairSpec ==
    /\ Spec
    /\ \A n \in Ends : WF_vars(run(n))
    /\ \A p \in Packet : WF_vars(p \in net /\ (Receive(p) \/ Vanish(p)))
    /\ SF_vars(Tick)

-----------------------------------------------------------------------------
(* Properties *)

\* Type invariant.
TypeOK ==
    /\ env \in Environments
    /\ alive \in [Ends -> BOOLEAN] /\ up \in [Ends -> BOOLEAN]
    /\ shared_key \in [Ends -> Gen] /\ ratchet_sequence \in [Ends -> Gen]
    /\ pending_send \in [Ends -> BOOLEAN]
    /\ inbound_age \in [Ends -> Age] /\ outbound_age \in [Ends -> Age]
    /\ net \subseteq Packet
    /\ sent \in [Ends -> 0..MaxData]
    /\ delivered \in [Ends -> SUBSET (1..MaxData)]
    /\ faults \in 0..MaxFaults
    /\ probed \in [Ends -> BOOLEAN] /\ keepalives \in [Ends -> 0..2]

BothUp == \A n \in Ends : up[n]

\* In whatever order ratchet keys cross and however often each loop runs in between, the two
\* ends are at most one ratchet step apart, and every RATCHET that is lost or duplicated moves
\* them at most one step further.  Part of it is that the state has its type.
KeyDriftBounded ==
    /\ TypeOK
    /\ \E n \in Ends, d \in 0..(1 + faults) : shared_key[n] = (shared_key[Peer(n)] + d) % env.GenMod

\* Two ends of a link on which no packet was lost or duplicated hold the same key again and
\* again, in whatever order their ratchet keys cross.
KeysMeetAgain == []<>(BothUp /\ faults = 0 => shared_key["a"] = shared_key["b"])

\* No link is closed as stale unless a probe went out since the last traffic arrived.
ProbedBeforeStale ==
    [][\A n \in Ends : alive'[n] /\ up[n] /\ ~up'[n] => probed[n]]_vars

\* The channel to a daemon that stopped is eventually removed.
DeadPeerDetected == \A n \in Ends : ~alive[Peer(n)] ~> ~up[n]

\* Every payload that is sent arrives.
PayloadsArrive ==
    \A n \in Ends, k \in 1..MaxData : sent[n] >= k ~> k \in delivered[Peer(n)]
=============================================================================
