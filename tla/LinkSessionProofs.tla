-------------------------- MODULE LinkSessionProofs --------------------------
(***************************************************************************)
(* Proofs about LinkSession, for every environment, every choice of the    *)
(* three time limits and every number of payloads and faults.              *)
(***************************************************************************)
EXTENDS LinkSession, Integers, FiniteSetTheorems, TLAPS

USE RemoteAssumption, TimeAssumption, BoundAssumption, EnvironmentAssumption

-----------------------------------------------------------------------------
(* The inductive invariants *)

\* The payloads in flight have the numbers of payloads.
PayloadsNumbered == \A p \in net : p.context = "DATA" => p.seq \in 1..MaxData

\* The ratchet keys on their way to n.
Ratchets(n) == {p \in net : p.context = "RATCHET" /\ p.to = n}

\* A ratchet key that n is about to send.
Due(n) == IF pending_send[n] THEN 1 ELSE 0

\* K counts how often each end replaced its key.  What the peer of n has done, will do when the
\* ratchet keys in flight arrive, and will do when n sends the one that is due, exceeds what n has
\* done by at most one: n sends a ratchet key once of its own, and then once for each key it received.
\* Only a duplicate, which is handled and stays in flight, adds to it.
Balanced(K, n) == K[Peer(n)] + Cardinality(Ratchets(Peer(n))) + Due(n) <= 1 + K[n] + faults

Counts(K) ==
    /\ \A n \in Ends : shared_key[n] = K[n] % env.GenMod
    /\ \A n \in Ends : Balanced(K, n)

\* The keys that the two ends have are explained by how often they were replaced.
KeysCounted == \E K \in [Ends -> Nat] : Counts(K)

\* A link that is a tick from being stale, or nearer, was probed.
ProbedInTime ==
    \A n \in Ends : alive[n] /\ up[n] /\ inbound_age[n] > TrafficTimeout + 1 => probed[n]

-----------------------------------------------------------------------------
(* Arithmetic of keys *)

\* Division with remainder.
LEMMA DivMod ==
    ASSUME NEW x \in Nat, NEW M \in Nat \ {0}
    PROVE  x = M * (x \div M) + (x % M) /\ x \div M \in Int /\ x % M \in 0..(M - 1)
OBVIOUS

\* Multiplication distributes over addition and subtraction.
LEMMA Distributes ==
    ASSUME NEW M \in Int, NEW p \in Int, NEW q \in Int
    PROVE  M * (p + q) = M * p + M * q /\ M * (p - q) = M * p - M * q
OBVIOUS

\* The remainder is unique.
LEMMA UniqueRemainder ==
    ASSUME NEW M \in Nat \ {0}, NEW p \in Int, NEW q \in Int,
           NEW r \in 0..(M - 1), NEW s \in 0..(M - 1), M * p + r = M * q + s
    PROVE  r = s
<1>1. \A t \in Int : (t >= 1 => M * t >= M) /\ (t <= -1 => M * t <= 0 - M)
  OBVIOUS
<1>2. M * (p - q) = M * p - M * q
  BY Distributes
<1>3. M * (p - q) = s - r
  BY <1>2, M * p \in Int, M * q \in Int
<1>4. p - q = 0
  BY <1>1, <1>3, p - q \in Int
<1> QED
  BY <1>3, <1>4

\* Steps may be counted before or after the remainder is taken.
LEMMA ModAdd ==
    ASSUME NEW x \in Nat, NEW d \in Nat, NEW M \in Nat \ {0}
    PROVE  ((x % M) + d) % M = (x + d) % M
<1>1. PICK p \in Int, r \in 0..(M - 1) : x = M * p + r /\ r = x % M
  BY DivMod
<1>2. PICK q \in Int, s \in 0..(M - 1) : r + d = M * q + s /\ s = (r + d) % M
  BY r + d \in Nat, DivMod
<1>3. PICK u \in Int, t \in 0..(M - 1) : x + d = M * u + t /\ t = (x + d) % M
  BY x + d \in Nat, DivMod
<1>4. M * (p + q) = M * p + M * q
  BY Distributes
<1>5. \A a, b, c \in Int : x = a + r /\ r + d = b + s /\ x + d = c + t => (a + b) + s = c + t
  BY <1>1, <1>2, <1>3, SMTT(30)
<1>6. M * (p + q) + s = M * u + t
  BY <1>1, <1>2, <1>3, <1>4, <1>5, M * p \in Int, M * q \in Int, M * u \in Int
<1>7. s = t
  BY <1>6, p + q \in Int, UniqueRemainder
<1> QED
  BY <1>1, <1>2, <1>3, <1>7

\* An end's peer is the other end.
LEMMA PeerFacts ==
    /\ Peer("a") = "b" /\ Peer("b") = "a"
    /\ \A n \in Ends : Peer(n) \in Ends /\ Peer(n) # n /\ Peer(Peer(n)) = n
    /\ \A n, m \in Ends : m = n \/ m = Peer(n)
<1>1. \E m \in Ends : m # "a"
  BY DEF Ends
<1>2. \E m \in Ends : m # "b"
  BY DEF Ends
<1>3. Peer("a") = "b" /\ Peer("b") = "a"
  BY <1>1, <1>2 DEF Peer, Ends
<1> QED
  BY <1>3 DEF Ends

\* How many keys an environment tells apart.
LEMMA Moduli ==
    ASSUME TypeOK
    PROVE  /\ env.GenMod \in Nat \ {0} /\ env.GenMod <= MaxGen
           /\ \A g \in Gen : NextGen(g) \in Gen
           /\ 0 \in Gen /\ env.senders \subseteq Ends
<1>1. env.GenMod \in 2..MaxGen /\ env.senders \subseteq Ends /\ MaxGen \in Nat
  BY DEF TypeOK, Environment, Ends
<1>2. \A g \in Nat : g % env.GenMod \in 0..(env.GenMod - 1)
  BY <1>1
<1>3. \A g \in Gen : g + 1 \in Nat
  BY <1>1 DEF Gen
<1> QED
  BY <1>1, <1>2, <1>3 DEF Gen, NextGen

-----------------------------------------------------------------------------
(* Type correctness *)

TypesInv == TypeOK /\ PayloadsNumbered /\ IsFiniteSet(net)

\* What the maintenance pass sends.
LEMMA MaintenanceTypes ==
    ASSUME TypeOK, NEW n \in Ends
    PROVE  /\ Maintenance(n) \subseteq Packet /\ IsFiniteSet(Maintenance(n))
           /\ \A p \in Maintenance(n) : p.context # "DATA"
           /\ \A p \in Maintenance(n) : p.context = "RATCHET" =>
                 /\ p.to = Peer(n) /\ SendsRatchet(n)
                 /\ p = [context |-> "RATCHET", to |-> Peer(n), gen |-> 0, seq |-> ratchet_sequence[n]]
<1> DEFINE r == [context |-> "RATCHET", to |-> Peer(n), gen |-> 0, seq |-> ratchet_sequence[n]]
           All == {Empty("PROBE", n), Empty("KEEPALIVE", n), r}
<1>1. Maintenance(n) \subseteq All
  BY DEF Maintenance
<1>2. Peer(n) \in Ends /\ ratchet_sequence[n] \in Gen /\ 0 \in Gen
  BY PeerFacts, Moduli DEF TypeOK
<1>3. ratchet_sequence[n] \in 0..(MaxGen + MaxData) /\ 0 \in 0..(MaxGen + MaxData)
  BY <1>2 DEF Gen
<1>4. All \subseteq Packet
  BY <1>2, <1>3 DEF Packet, Empty
<1>5. IsFiniteSet(All)
  <2>1. IsFiniteSet({r})
    BY FS_Singleton
  <2>2. IsFiniteSet({r} \cup {Empty("KEEPALIVE", n)})
    BY <2>1, FS_AddElement
  <2>3. IsFiniteSet(({r} \cup {Empty("KEEPALIVE", n)}) \cup {Empty("PROBE", n)})
    BY <2>2, FS_AddElement
  <2>4. All = ({r} \cup {Empty("KEEPALIVE", n)}) \cup {Empty("PROBE", n)}
    OBVIOUS
  <2> HIDE DEF All, r
  <2> QED
    BY <2>3, <2>4
<1>6. IsFiniteSet(Maintenance(n))
  BY <1>1, <1>5, FS_Subset
<1>7. \A p \in All : p.context # "DATA" /\ (p.context = "RATCHET" => p = r)
  BY DEF Empty
<1>8. ASSUME NEW p \in Maintenance(n), p.context = "RATCHET"
      PROVE  p = r /\ p.to = Peer(n) /\ SendsRatchet(n)
  <2>1. p = r /\ p.to = Peer(n)
    BY <1>1, <1>7, <1>8
  <2>2. p # Empty("PROBE", n) /\ p # Empty("KEEPALIVE", n)
    BY <1>8 DEF Empty
  <2> QED
    BY <1>8, <2>1, <2>2 DEF Maintenance
<1> QED
  BY <1>1, <1>4, <1>6, <1>7, <1>8

\* One iteration of the loop of a daemon keeps the types.
LEMMA TypesRun ==
    ASSUME TypesInv, NEW n \in Ends, run(n)
    PROVE  TypesInv'
<1>1. TypeOK /\ PayloadsNumbered /\ IsFiniteSet(net)
  BY DEF TypesInv
<1>2. /\ net' = net \cup Maintenance(n)
      /\ UNCHANGED <<env, alive, shared_key, inbound_age, outbound_age, sent, delivered, faults>>
  BY DEF run, clocks
<1>3. /\ Maintenance(n) \subseteq Packet /\ IsFiniteSet(Maintenance(n))
      /\ \A p \in Maintenance(n) : p.context # "DATA"
  BY <1>1, MaintenanceTypes
<1>4. PayloadsNumbered' /\ IsFiniteSet(net')
  <2>1. IsFiniteSet(net \cup Maintenance(n))
    BY <1>1, <1>3, FS_Union
  <2> QED
    BY <1>1, <1>2, <1>3, <2>1 DEF PayloadsNumbered
<1>5. up' \in [Ends -> BOOLEAN] /\ probed' \in [Ends -> BOOLEAN] /\ pending_send' \in [Ends -> BOOLEAN]
  BY <1>1 DEF run, TypeOK
<1>6. keepalives' \in [Ends -> 0..2]
  <2>1. \A k \in 0..2 : k < 2 => k + 1 \in 0..2
    OBVIOUS
  <2> QED
    BY <1>1, <2>1 DEF run, TypeOK
<1>7. ratchet_sequence' \in [Ends -> Gen]
  BY <1>1, Moduli DEF run, TypeOK
<1>8. net' \subseteq Packet
  BY <1>1, <1>2, <1>3 DEF TypeOK
<1> QED
  BY <1>1, <1>2, <1>4, <1>5, <1>6, <1>7, <1>8 DEF TypesInv, TypeOK

\* Link::send keeps the types.
LEMMA TypesSend ==
    ASSUME TypesInv, NEW n \in Ends, send(n)
    PROVE  TypesInv'
<1>1. TypeOK /\ PayloadsNumbered /\ IsFiniteSet(net)
  BY DEF TypesInv
<1> DEFINE p == [context |-> "DATA", to |-> Peer(n), gen |-> shared_key[n], seq |-> sent[n] + 1]
<1>2. /\ sent' = [sent EXCEPT ![n] = @ + 1] /\ sent[n] < MaxData /\ sent[n] \in 0..MaxData
      /\ outbound_age' = [outbound_age EXCEPT ![n] = 0]
      /\ UNCHANGED <<env, alive, up, shared_key, pending_send, ratchet_sequence, inbound_age,
                     delivered, faults, probed, keepalives>>
  BY <1>1 DEF send, keys, history, TypeOK
<1>3. sent'[n] = sent[n] + 1 /\ sent[n] + 1 \in 1..MaxData /\ MaxData \in Nat
  BY <1>1, <1>2 DEF TypeOK
<1>4. net' = net \cup {p}
  BY <1>3 DEF send
<1>5. p \in Packet /\ p.seq \in 1..MaxData
  <2>1. sent[n] + 1 \in 0..(MaxGen + MaxData)
    BY <1>3
  <2>2. Peer(n) \in Ends /\ shared_key[n] \in Gen
    BY <1>1, PeerFacts DEF TypeOK
  <2> QED
    BY <1>3, <2>1, <2>2 DEF Packet
<1> HIDE DEF p
<1>6. PayloadsNumbered' /\ IsFiniteSet(net') /\ net' \subseteq Packet
  BY <1>1, <1>4, <1>5, FS_AddElement DEF PayloadsNumbered, TypeOK
<1>7. sent' \in [Ends -> 0..MaxData] /\ outbound_age' \in [Ends -> Age]
  BY <1>1, <1>2, <1>3 DEF TypeOK, Age
<1> QED
  BY <1>1, <1>2, <1>6, <1>7 DEF TypesInv, TypeOK

\* Handling a packet of the link keeps the types, whether the packet stays in flight or not.
LEMMA TypesHandle ==
    ASSUME TypesInv, NEW p \in net, handle_link_data(p), net' \subseteq net, faults' \in 0..MaxFaults
    PROVE  TypesInv'
<1>1. TypeOK /\ PayloadsNumbered /\ IsFiniteSet(net)
  BY DEF TypesInv
<1>2. UNCHANGED <<env, alive, up, ratchet_sequence, outbound_age, sent, keepalives>>
  BY DEF handle_link_data
<1>3. p.to \in Ends
  BY <1>1 DEF TypeOK, Packet
<1>4. /\ delivered' \in [Ends -> SUBSET (1..MaxData)] /\ inbound_age' \in [Ends -> Age]
      /\ probed' \in [Ends -> BOOLEAN]
      /\ shared_key' \in [Ends -> Gen] /\ pending_send' \in [Ends -> BOOLEAN]
  <2>1. CASE Deliver(p)
    <3>1. UNCHANGED <<shared_key, pending_send>>
      BY <2>1 DEF Deliver
    <3>2. CASE UNCHANGED <<delivered, inbound_age, probed>>
      BY <1>1, <3>1, <3>2 DEF TypeOK
    <3>3. CASE LinkDelivers(p) /\
               /\ delivered' = [delivered EXCEPT ![p.to] = @ \cup {p.seq}]
               /\ inbound_age' = [inbound_age EXCEPT ![p.to] = 0]
               /\ probed' = [probed EXCEPT ![p.to] = FALSE]
      <4>1. p.seq \in 1..MaxData
        BY <1>1, <3>3 DEF LinkDelivers, PayloadsNumbered
      <4>2. 0 \in Age
        BY DEF Age
      <4> QED
        BY <1>1, <1>3, <3>1, <3>3, <4>1, <4>2 DEF TypeOK
    <3> QED
      BY <2>1, <3>2, <3>3 DEF Deliver
  <2>2. CASE Ratchet(p)
    <3>1. UNCHANGED <<delivered, inbound_age, probed>>
      BY <2>2 DEF Ratchet
    <3>2. CASE UNCHANGED <<shared_key, pending_send>>
      BY <1>1, <3>1, <3>2 DEF TypeOK
    <3>3. CASE /\ shared_key' = [shared_key EXCEPT ![p.to] = NextGen(@)]
               /\ pending_send' = [pending_send EXCEPT ![p.to] = TRUE]
      BY <1>1, <1>3, <3>1, <3>3, Moduli DEF TypeOK
    <3> QED
      BY <2>2, <3>2, <3>3 DEF Ratchet
  <2> QED
    BY <2>1, <2>2 DEF handle_link_data
<1>5. PayloadsNumbered' /\ IsFiniteSet(net') /\ net' \subseteq Packet
  BY <1>1, FS_Subset DEF PayloadsNumbered, TypeOK
<1> QED
  BY <1>1, <1>2, <1>4, <1>5 DEF TypesInv, TypeOK

\* Initially every variable has its type.
LEMMA TypesInit == Init => TypesInv
<1> SUFFICES ASSUME Init PROVE TypesInv
  OBVIOUS
<1>1. 0 \in Gen
  <2>1. env.GenMod \in 2..MaxGen
    BY DEF Init, Environment
  <2> QED
    BY <2>1 DEF Gen
<1>2. TypeOK
  BY <1>1 DEF Init, TypeOK, Age
<1>3. PayloadsNumbered /\ IsFiniteSet(net)
  BY FS_EmptySet DEF Init, PayloadsNumbered
<1> QED
  BY <1>2, <1>3 DEF TypesInv

\* Every step keeps the types.
LEMMA TypesNext == TypesInv /\ [Next]_vars => TypesInv'
<1> SUFFICES ASSUME TypesInv, [Next]_vars PROVE TypesInv'
  OBVIOUS
<1>1. TypeOK /\ PayloadsNumbered /\ IsFiniteSet(net)
  BY DEF TypesInv
<1>2. \A F \in SUBSET net : IsFiniteSet(F)
  BY <1>1, FS_Subset
<1>3. CASE \E n \in Ends : run(n)
  BY <1>3, TypesRun
<1>4. CASE \E n \in env.senders : send(n)
  BY <1>1, <1>4, Moduli, TypesSend
<1>5. ASSUME NEW p \in net, Receive(p) PROVE TypesInv'
  <2>1. handle_link_data(p) /\ net' \subseteq net /\ faults' \in 0..MaxFaults
    BY <1>1, <1>5 DEF Receive, TypeOK
  <2> QED
    BY <2>1, TypesHandle
<1>6. ASSUME NEW p \in net, Duplicate(p) PROVE TypesInv'
  <2>1. handle_link_data(p) /\ net' \subseteq net /\ faults' \in 0..MaxFaults
    BY <1>1, <1>6 DEF Duplicate, TypeOK
  <2> QED
    BY <2>1, TypesHandle
<1>7. ASSUME NEW p \in net, Lose(p) PROVE TypesInv'
  <2>1. /\ net' \subseteq net /\ faults' \in 0..MaxFaults
        /\ UNCHANGED <<env, alive, up, shared_key, pending_send, ratchet_sequence, inbound_age,
                       outbound_age, sent, delivered, probed, keepalives>>
    BY <1>1, <1>7 DEF Lose, keys, clocks, history, TypeOK
  <2> QED
    BY <1>1, <1>2, <2>1 DEF TypesInv, TypeOK, PayloadsNumbered
<1>8. ASSUME NEW p \in net, Vanish(p) PROVE TypesInv'
  <2>1. /\ net' \subseteq net
        /\ UNCHANGED <<env, alive, up, shared_key, pending_send, ratchet_sequence, inbound_age,
                       outbound_age, sent, delivered, faults, probed, keepalives>>
    BY <1>8 DEF Vanish, keys, clocks, history
  <2> QED
    BY <1>1, <1>2, <2>1 DEF TypesInv, TypeOK, PayloadsNumbered
<1>9. ASSUME NEW n \in Ends, Crash(n) PROVE TypesInv'
  <2>1. /\ alive' \in [Ends -> BOOLEAN] /\ up' \in [Ends -> BOOLEAN]
        /\ UNCHANGED <<env, net, shared_key, pending_send, ratchet_sequence, inbound_age,
                       outbound_age, sent, delivered, faults, probed, keepalives>>
    BY <1>1, <1>9 DEF Crash, keys, clocks, history, TypeOK
  <2> QED
    BY <1>1, <2>1 DEF TypesInv, TypeOK, PayloadsNumbered
<1>10. CASE Tick
  <2>1. \A x \in Age : Older(x) \in Age
    BY DEF Age, Older
  <2>2. /\ inbound_age' \in [Ends -> Age] /\ outbound_age' \in [Ends -> Age]
        /\ keepalives' \in [Ends -> 0..2]
        /\ UNCHANGED <<env, alive, up, shared_key, pending_send, ratchet_sequence, net, sent,
                       delivered, faults, probed>>
    BY <1>1, <1>10, <2>1 DEF Tick, keys, TypeOK
  <2> QED
    BY <1>1, <2>2 DEF TypesInv, TypeOK, PayloadsNumbered
<1>11. CASE UNCHANGED vars
  BY <1>1, <1>11 DEF vars, TypesInv, TypeOK, PayloadsNumbered
<1> QED
  BY <1>3, <1>4, <1>5, <1>6, <1>7, <1>8, <1>9, <1>10, <1>11 DEF Next

-----------------------------------------------------------------------------
(* Ratchet keys *)

\* There are finitely many ratchet keys in flight; with fewer packets there are no more.
LEMMA RatchetsFinite ==
    ASSUME IsFiniteSet(net), NEW n
    PROVE  /\ IsFiniteSet(Ratchets(n)) /\ Cardinality(Ratchets(n)) \in Nat
           /\ \A F \in SUBSET Ratchets(n) :
                 Cardinality(F) \in Nat /\ Cardinality(F) <= Cardinality(Ratchets(n))
<1>1. Ratchets(n) \subseteq net
  BY DEF Ratchets
<1> QED
  BY <1>1, FS_Subset, FS_CardinalityType

\* A step that changes no key, makes no ratchet key due and adds no fault keeps the balance of n
\* if no more ratchet keys are in flight to its peer.
LEMMA BalanceKept ==
    ASSUME TypesInv, NEW K \in [Ends -> Nat], NEW n \in Ends, Balanced(K, n),
           Ratchets(Peer(n))' \subseteq Ratchets(Peer(n)),
           pending_send'[n] => pending_send[n],
           faults' \in Nat, faults' >= faults
    PROVE  Balanced(K, n)'
<1>1. /\ Cardinality(Ratchets(Peer(n))) \in Nat /\ Cardinality(Ratchets(Peer(n))') \in Nat
      /\ Cardinality(Ratchets(Peer(n))') <= Cardinality(Ratchets(Peer(n)))
  BY RatchetsFinite DEF TypesInv
<1>2. Due(n)' \in 0..1 /\ Due(n) \in 0..1 /\ Due(n)' <= Due(n)
  BY DEF Due
<1>3. faults \in Nat /\ K[n] \in Nat /\ K[Peer(n)] \in Nat
  BY PeerFacts DEF TypesInv, TypeOK
<1> QED
  BY <1>1, <1>2, <1>3 DEF Balanced

\* One iteration of the loop: the ratchet key that was due is in flight.
LEMMA CountsRun ==
    ASSUME TypesInv, NEW K \in [Ends -> Nat], Counts(K), NEW n \in Ends, run(n)
    PROVE  Counts(K)'
<1>1. TypeOK /\ IsFiniteSet(net)
  BY DEF TypesInv
<1>2. /\ net' = net \cup Maintenance(n) /\ env' = env /\ shared_key' = shared_key /\ faults' = faults
      /\ pending_send' = [pending_send EXCEPT ![n] = @ /\ ~SendsRatchet(n)]
  BY DEF run
<1>3. faults \in Nat /\ pending_send \in [Ends -> BOOLEAN]
  BY <1>1 DEF TypeOK
<1>4. Peer(n) \in Ends /\ Peer(n) # n /\ Peer(Peer(n)) = n
  BY PeerFacts
<1> DEFINE r == [context |-> "RATCHET", to |-> Peer(n), gen |-> 0, seq |-> ratchet_sequence[n]]
<1>5. \A p \in Maintenance(n) : p.context = "RATCHET" => p.to = Peer(n) /\ SendsRatchet(n) /\ p = r
  BY <1>1, MaintenanceTypes
<1> HIDE DEF r
<1>6. Balanced(K, Peer(n))'
  <2>1. Ratchets(Peer(Peer(n)))' \subseteq Ratchets(Peer(Peer(n)))
    BY <1>2, <1>4, <1>5 DEF Ratchets
  <2>2. pending_send'[Peer(n)] = pending_send[Peer(n)]
    BY <1>2, <1>3, <1>4
  <2>3. Balanced(K, Peer(n))
    BY <1>4 DEF Counts
  <2> QED
    BY <1>2, <1>3, <1>4, <2>1, <2>2, <2>3, BalanceKept
<1>7. Balanced(K, n)'
  <2>1. CASE ~SendsRatchet(n)
    <3>1. Ratchets(Peer(n))' \subseteq Ratchets(Peer(n))
      BY <1>2, <1>5, <2>1 DEF Ratchets
    <3>2. pending_send'[n] => pending_send[n]
      BY <1>2, <1>3
    <3> QED
      BY <1>2, <1>3, <3>1, <3>2, BalanceKept DEF Counts
  <2>2. CASE SendsRatchet(n)
    <3>1. pending_send[n] /\ ~pending_send'[n]
      BY <1>2, <1>3, <2>2 DEF SendsRatchet
    <3>2. Due(n) = 1 /\ Due(n)' = 0
      BY <3>1 DEF Due
    <3>3. Ratchets(Peer(n))' \subseteq Ratchets(Peer(n)) \cup {r}
      BY <1>2, <1>5 DEF Ratchets
    <3>4. IsFiniteSet(Ratchets(Peer(n))) /\ Cardinality(Ratchets(Peer(n))) \in Nat
      BY <1>1, RatchetsFinite
    <3>5. /\ IsFiniteSet(Ratchets(Peer(n)) \cup {r})
          /\ Cardinality(Ratchets(Peer(n)) \cup {r}) \in Nat
          /\ Cardinality(Ratchets(Peer(n)) \cup {r}) <= Cardinality(Ratchets(Peer(n))) + 1
      <4>1. /\ IsFiniteSet(Ratchets(Peer(n)) \cup {r})
            /\ Cardinality(Ratchets(Peer(n)) \cup {r}) =
                  IF r \in Ratchets(Peer(n)) THEN Cardinality(Ratchets(Peer(n)))
                                             ELSE Cardinality(Ratchets(Peer(n))) + 1
        BY <3>4, FS_AddElement
      <4> QED
        BY <3>4, <4>1
    <3>6. /\ Cardinality(Ratchets(Peer(n))') \in Nat
          /\ Cardinality(Ratchets(Peer(n))') <= Cardinality(Ratchets(Peer(n)) \cup {r})
      BY <3>3, <3>5, FS_Subset, FS_CardinalityType
    <3>7. Balanced(K, n) /\ K[n] \in Nat /\ K[Peer(n)] \in Nat
      BY <1>4 DEF Counts
    <3> QED
      BY <1>2, <1>3, <3>2, <3>4, <3>5, <3>6, <3>7 DEF Balanced
  <2> QED
    BY <2>1, <2>2
<1> QED
  BY <1>2, <1>6, <1>7, PeerFacts DEF Counts

\* A ratchet key that an end takes: one more for the end, one less in flight or one fault more.
LEMMA CountsRatchet ==
    ASSUME TypesInv, NEW K \in [Ends -> Nat], Counts(K), NEW p \in net, p.context = "RATCHET",
           shared_key' = [shared_key EXCEPT ![p.to] = NextGen(@)],
           pending_send' = [pending_send EXCEPT ![p.to] = TRUE],
           env' = env,
           \/ net' = net \ {p} /\ faults' = faults
           \/ net' = net /\ faults' = faults + 1
    PROVE  \E L \in [Ends -> Nat] : Counts(L)'
<1>1. TypeOK /\ IsFiniteSet(net)
  BY DEF TypesInv
<1> DEFINE b == p.to
           a == Peer(b)
           L == [K EXCEPT ![b] = @ + 1]
<1>2. b \in Ends /\ a \in Ends /\ a # b /\ Peer(a) = b /\ p \in Ratchets(b)
  BY <1>1, PeerFacts DEF TypeOK, Packet, Ratchets
<1>3. /\ faults \in Nat /\ pending_send \in [Ends -> BOOLEAN] /\ shared_key \in [Ends -> Gen]
      /\ env.GenMod \in Nat \ {0}
  BY <1>1, Moduli DEF TypeOK
<1>4. L \in [Ends -> Nat] /\ L[b] = K[b] + 1 /\ L[a] = K[a] /\ K[a] \in Nat /\ K[b] \in Nat
  BY <1>2
<1> HIDE DEF a, b, L
<1>5. \A n \in Ends : shared_key'[n] = L[n] % env'.GenMod
  <2>1. shared_key'[a] = L[a] % env'.GenMod
    BY <1>2, <1>3, <1>4 DEF Counts, b
  <2>2. shared_key'[b] = L[b] % env'.GenMod
    <3>1. shared_key'[b] = NextGen(shared_key[b]) /\ shared_key[b] = K[b] % env.GenMod
      BY <1>2, <1>3 DEF Counts, b
    <3>2. ((K[b] % env.GenMod) + 1) % env.GenMod = (K[b] + 1) % env.GenMod
      BY <1>3, <1>4, ModAdd
    <3> QED
      BY <1>4, <3>1, <3>2 DEF NextGen
  <2> QED
    BY <1>2, <2>1, <2>2, PeerFacts DEF a
<1>6. Balanced(L, b)'
  <2>1. Ratchets(a)' \subseteq Ratchets(a)
    BY DEF Ratchets
  <2>2. /\ Cardinality(Ratchets(a)) \in Nat /\ Cardinality(Ratchets(a)') \in Nat
        /\ Cardinality(Ratchets(a)') <= Cardinality(Ratchets(a))
    BY <1>1, <2>1, RatchetsFinite
  <2>3. Balanced(K, b)
    BY <1>2 DEF Counts
  <2>4. Due(b) \in 0..1 /\ Due(b)' \in 0..1
    BY DEF Due
  <2>5. K[a] + Cardinality(Ratchets(a)) + Due(b) <= 1 + K[b] + faults
    BY <2>3 DEF Balanced, a
  <2>6. faults' \in Nat /\ faults' >= faults
    BY <1>3
  <2>7. L[a] + Cardinality(Ratchets(a)') + Due(b)' <= 1 + L[b] + faults'
    BY <1>3, <1>4, <2>2, <2>4, <2>5, <2>6
  <2> QED
    BY <2>7 DEF Balanced, a
<1>7. Balanced(L, a)'
  <2>1. Balanced(K, a)
    BY <1>2 DEF Counts
  <2>2. K[b] + Cardinality(Ratchets(b)) + Due(a) <= 1 + K[a] + faults
    BY <1>2, <2>1 DEF Balanced
  <2>3. Due(a)' = Due(a) /\ Due(a) \in 0..1
    BY <1>2, <1>3 DEF Due, b
  <2>4. IsFiniteSet(Ratchets(b)) /\ Cardinality(Ratchets(b)) \in Nat
    BY <1>1, RatchetsFinite
  <2>5. L[b] + Cardinality(Ratchets(b)') + Due(a)' <= 1 + L[a] + faults'
    <3>1. CASE net' = net \ {p} /\ faults' = faults
      <4>1. Ratchets(b)' = Ratchets(b) \ {p}
        BY <3>1 DEF Ratchets
      <4>2. Cardinality(Ratchets(b) \ {p}) = Cardinality(Ratchets(b)) - 1
        BY <1>2, <2>4, FS_RemoveElement
      <4> QED
        BY <1>3, <1>4, <2>2, <2>3, <2>4, <3>1, <4>1, <4>2
    <3>2. CASE net' = net /\ faults' = faults + 1
      <4>1. Ratchets(b)' = Ratchets(b)
        BY <3>2 DEF Ratchets
      <4> QED
        BY <1>3, <1>4, <2>2, <2>3, <2>4, <3>2, <4>1
    <3> QED
      BY <3>1, <3>2
  <2> QED
    BY <1>2, <2>5 DEF Balanced
<1>8. \A n \in Ends : Balanced(L, n)'
  BY <1>2, <1>6, <1>7, PeerFacts DEF a
<1> QED
  BY <1>4, <1>5, <1>8 DEF Counts

\* A step that takes no ratchet key and puts none in flight keeps the counts.
LEMMA CountsKept ==
    ASSUME TypesInv, NEW K \in [Ends -> Nat], Counts(K),
           UNCHANGED <<env, shared_key, pending_send>>, faults' \in Nat, faults' >= faults,
           \A p \in net' : p.context = "RATCHET" => p \in net
    PROVE  Counts(K)'
<1>1. \A n : Ratchets(n)' \subseteq Ratchets(n)
  BY DEF Ratchets
<1>2. \A n \in Ends : Balanced(K, n)'
  BY <1>1, BalanceKept DEF Counts
<1> QED
  BY <1>2 DEF Counts

\* Handling a packet keeps the keys counted.
LEMMA CountsHandle ==
    ASSUME TypesInv, KeysCounted, NEW p \in net, handle_link_data(p),
           \/ net' = net \ {p} /\ faults' = faults
           \/ net' = net /\ faults' = faults + 1
    PROVE  KeysCounted'
<1>1. PICK K \in [Ends -> Nat] : Counts(K)
  BY DEF KeysCounted
<1>2. env' = env /\ faults \in Nat
  BY DEF handle_link_data, TypesInv, TypeOK
<1>3. CASE UNCHANGED <<shared_key, pending_send>>
  <2>1. faults' \in Nat /\ faults' >= faults /\ \A q \in net' : q \in net
    BY <1>2
  <2>2. Counts(K)'
    BY <1>1, <1>2, <1>3, <2>1, CountsKept
  <2> QED
    BY <1>1, <2>2 DEF KeysCounted
<1>4. CASE /\ p.context = "RATCHET"
           /\ shared_key' = [shared_key EXCEPT ![p.to] = NextGen(@)]
           /\ pending_send' = [pending_send EXCEPT ![p.to] = TRUE]
  BY <1>1, <1>2, <1>4, CountsRatchet DEF KeysCounted
<1> QED
  BY <1>3, <1>4 DEF handle_link_data, Deliver, Ratchet

\* Every step keeps the keys counted.
LEMMA CountsNext == TypesInv /\ KeysCounted /\ [Next]_vars => KeysCounted'
<1> SUFFICES ASSUME TypesInv, KeysCounted, [Next]_vars PROVE KeysCounted'
  OBVIOUS
<1>1. PICK K \in [Ends -> Nat] : Counts(K)
  BY DEF KeysCounted
<1>2. faults \in Nat
  BY DEF TypesInv, TypeOK
<1>3. CASE \E n \in Ends : run(n)
  BY <1>1, <1>3, CountsRun DEF KeysCounted
<1>4. CASE \E p \in net : Receive(p)
  BY <1>4, CountsHandle DEF Receive
<1>5. CASE \E p \in net : Duplicate(p)
  BY <1>5, CountsHandle DEF Duplicate
<1>6. CASE /\ UNCHANGED <<env, shared_key, pending_send>> /\ faults' \in Nat /\ faults' >= faults
           /\ \A p \in net' : p.context = "RATCHET" => p \in net
  <2>1. Counts(K)'
    BY <1>1, <1>6, CountsKept
  <2> QED
    BY <1>1, <2>1 DEF KeysCounted
<1>7. ASSUME NEW n \in env.senders, send(n) PROVE KeysCounted'
  <2>1. \A p \in net' : p.context = "RATCHET" => p \in net
    BY <1>7 DEF send
  <2> QED
    BY <1>2, <1>6, <1>7, <2>1 DEF send, keys
<1>8. CASE \E p \in net : Lose(p)
  BY <1>2, <1>6, <1>8 DEF Lose, keys
<1>9. CASE \E p \in net : Vanish(p)
  BY <1>2, <1>6, <1>9 DEF Vanish, keys
<1>10. CASE \E n \in Ends : Crash(n)
  BY <1>2, <1>6, <1>10 DEF Crash, keys
<1>11. CASE Tick \/ UNCHANGED vars
  BY <1>2, <1>6, <1>11 DEF Tick, keys, vars
<1> QED
  BY <1>3, <1>4, <1>5, <1>7, <1>8, <1>9, <1>10, <1>11 DEF Next

\* The counts bound how far the keys are apart.
LEMMA CountsBoundDrift == TypesInv /\ KeysCounted => KeyDriftBounded
<1> SUFFICES ASSUME TypesInv, KeysCounted PROVE KeyDriftBounded
  OBVIOUS
<1>1. PICK K \in [Ends -> Nat] : Counts(K)
  BY DEF KeysCounted
<1>2. TypeOK /\ IsFiniteSet(net) /\ faults \in Nat /\ env.GenMod \in Nat \ {0}
  BY Moduli DEF TypesInv, TypeOK
<1>3. PICK n \in Ends : K[Peer(n)] <= K[n]
  BY PeerFacts DEF Ends
<1>4. K[n] \in Nat /\ K[Peer(n)] \in Nat /\ Peer(n) \in Ends /\ Peer(Peer(n)) = n
  BY PeerFacts
<1>5. K[n] <= 1 + K[Peer(n)] + faults
  <2>1. K[n] + Cardinality(Ratchets(n)) + Due(Peer(n)) <= 1 + K[Peer(n)] + faults
    BY <1>1, <1>4 DEF Counts, Balanced
  <2>2. Cardinality(Ratchets(n)) \in Nat /\ Due(Peer(n)) \in Nat
    BY <1>2, RatchetsFinite DEF Due
  <2> QED
    BY <1>2, <1>4, <2>1, <2>2
<1>6. PICK d \in 0..(1 + faults) : K[n] = K[Peer(n)] + d
  BY <1>2, <1>3, <1>4, <1>5, K[n] - K[Peer(n)] \in 0..(1 + faults)
<1>7. ((K[Peer(n)] % env.GenMod) + d) % env.GenMod = (K[Peer(n)] + d) % env.GenMod
  BY <1>2, <1>4, <1>6, ModAdd
<1>8. shared_key[n] = (shared_key[Peer(n)] + d) % env.GenMod
  BY <1>1, <1>4, <1>6, <1>7 DEF Counts
<1> QED
  BY <1>2, <1>8 DEF KeyDriftBounded

\* The two ends of a link are at most one ratchet step apart, and each lost or duplicated packet
\* moves them at most one step further, in whatever order the ratchet keys cross; and every
\* reachable state has its type.
THEOREM KeysStayClose == Spec => []KeyDriftBounded
<1>1. Init => KeysCounted
  <2> SUFFICES ASSUME Init PROVE KeysCounted
    OBVIOUS
  <2> DEFINE K == [n \in Ends |-> 0]
  <2>1. env.GenMod \in Nat \ {0} /\ 0 % env.GenMod = 0
    <3>1. env.GenMod \in 2..MaxGen
      BY DEF Init, Environment
    <3>2. env.GenMod \in Nat \ {0}
      BY <3>1
    <3>3. \A M \in Nat \ {0} : 0 % M = 0
      OBVIOUS
    <3> QED
      BY <3>2, <3>3
  <2>2. \A n : Cardinality(Ratchets(n)) = 0
    <3>1. \A n : Ratchets(n) = {}
      BY DEF Init, Ratchets
    <3> QED
      BY <3>1, FS_EmptySet
  <2>3. \A n \in Ends : Balanced(K, n)
    <3> SUFFICES ASSUME NEW n \in Ends PROVE Balanced(K, n)
      OBVIOUS
    <3>1. Due(n) \in 0..1 /\ K[n] = 0 /\ K[Peer(n)] = 0 /\ faults = 0
      BY PeerFacts DEF Due, Init
    <3> QED
      BY <2>2, <3>1 DEF Balanced
  <2>4. Counts(K)
    BY <2>1, <2>3 DEF Counts, Init
  <2>5. K \in [Ends -> Nat]
    OBVIOUS
  <2> QED
    BY <2>4, <2>5 DEF KeysCounted
<1> QED
  BY <1>1, TypesInit, TypesNext, CountsNext, CountsBoundDrift, PTL DEF Spec

-----------------------------------------------------------------------------
(* Probes *)

\* Initially no time has gone.
LEMMA ProbedInit == Init => ProbedInTime
BY DEF Init, ProbedInTime

\* Every step keeps a link that is nearly stale probed: time goes on only when the probes that
\* are due went out, and traffic that resets the probe resets the age.
LEMMA ProbedNext == TypesInv /\ ProbedInTime /\ [Next]_vars => ProbedInTime'
<1> SUFFICES ASSUME TypesInv, ProbedInTime, [Next]_vars PROVE ProbedInTime'
  OBVIOUS
<1>1. TypeOK /\ TrafficTimeout \in Nat /\ StaleTime \in Nat
  BY DEF TypesInv
<1>2. ASSUME NEW n \in Ends, run(n) PROVE ProbedInTime'
  <2>1. /\ alive' = alive /\ inbound_age' = inbound_age
        /\ \A m \in Ends : (up'[m] => up[m]) /\ (probed[m] => probed'[m])
    BY <1>1, <1>2 DEF run, clocks, TypeOK
  <2> QED
    BY <2>1 DEF ProbedInTime
<1>3. ASSUME NEW n \in env.senders, send(n) PROVE ProbedInTime'
  BY <1>3 DEF send, history, ProbedInTime
<1>4. ASSUME NEW p \in net, handle_link_data(p) PROVE ProbedInTime'
  <2>1. UNCHANGED <<alive, up>> /\ p.to \in Ends
    BY <1>1, <1>4 DEF handle_link_data, TypeOK, Packet
  <2>2. CASE UNCHANGED <<inbound_age, probed>>
    BY <2>1, <2>2 DEF ProbedInTime
  <2>3. CASE /\ inbound_age' = [inbound_age EXCEPT ![p.to] = 0]
             /\ probed' = [probed EXCEPT ![p.to] = FALSE]
    <3>1. inbound_age'[p.to] = 0 /\ ~(0 > TrafficTimeout + 1)
      BY <1>1, <2>1, <2>3 DEF TypeOK
    <3>2. \A m \in Ends \ {p.to} : inbound_age'[m] = inbound_age[m] /\ probed'[m] = probed[m]
      BY <1>1, <2>1, <2>3 DEF TypeOK
    <3> QED
      BY <2>1, <3>1, <3>2 DEF ProbedInTime
  <2> QED
    BY <1>4, <2>2, <2>3 DEF handle_link_data, Deliver, Ratchet
<1>5. ASSUME NEW p \in net, Lose(p) \/ Vanish(p) PROVE ProbedInTime'
  BY <1>5 DEF Lose, Vanish, clocks, history, ProbedInTime
<1>6. ASSUME NEW n \in Ends, Crash(n) PROVE ProbedInTime'
  <2>1. /\ \A m \in Ends : (alive'[m] => alive[m]) /\ (up'[m] => up[m])
        /\ UNCHANGED <<inbound_age, probed>>
    BY <1>1, <1>6 DEF Crash, clocks, history, TypeOK
  <2> QED
    BY <2>1 DEF ProbedInTime
<1>7. CASE Tick
  <2> SUFFICES ASSUME NEW n \in Ends, alive'[n], up'[n], inbound_age'[n] > TrafficTimeout + 1
               PROVE  probed'[n]
    BY DEF ProbedInTime
  <2>1. /\ alive[n] /\ up[n] /\ probed' = probed /\ inbound_age'[n] = Older(inbound_age[n])
        /\ ~IsStale(n) /\ (Probes(n) => probed[n])
    BY <1>7 DEF Tick
  <2>2. inbound_age[n] \in 0..(StaleTime + 1)
    BY <1>1 DEF TypeOK, Age
  <2>3. inbound_age[n] > TrafficTimeout
    BY <1>1, <2>1, <2>2 DEF Older
  <2> QED
    BY <2>1, <2>3 DEF Probes
<1>8. CASE UNCHANGED vars
  BY <1>8 DEF vars, ProbedInTime
<1> QED
  BY <1>2, <1>3, <1>4, <1>5, <1>6, <1>7, <1>8 DEF Next, Receive, Duplicate

\* No link is closed as stale unless a probe went out since the last traffic arrived.
THEOREM StaleLinksWereProbed == Spec => ProbedBeforeStale
<1>1. ASSUME TypesInv, ProbedInTime, Next, NEW n \in Ends, alive'[n], up[n], ~up'[n]
      PROVE  probed[n]
  <2>1. TypeOK /\ TrafficTimeout \in Nat /\ StaleTime \in Nat
    BY <1>1 DEF TypesInv
  <2>2. PICK m \in Ends : run(m) \/ Crash(m)
    BY <1>1 DEF Next, send, Receive, Duplicate, handle_link_data, Lose, Vanish, Tick
  <2>3. m = n
    BY <1>1, <2>1, <2>2 DEF run, Crash, TypeOK
  <2>4. run(n)
    BY <1>1, <2>1, <2>2, <2>3 DEF Crash, TypeOK
  <2>5. alive[n] /\ IsStale(n)
    BY <1>1, <2>1, <2>4 DEF run, TypeOK
  <2>6. inbound_age[n] > TrafficTimeout + 1
    BY <2>1, <2>5 DEF IsStale, TypeOK, Age
  <2> QED
    BY <1>1, <2>5, <2>6 DEF ProbedInTime
<1>2. TypesInv /\ ProbedInTime /\ [Next]_vars =>
        [\A n \in Ends : alive'[n] /\ up[n] /\ ~up'[n] => probed[n]]_vars
  BY <1>1
<1> QED
  BY <1>2, TypesInit, TypesNext, ProbedInit, ProbedNext, PTL DEF Spec, ProbedBeforeStale
=============================================================================
