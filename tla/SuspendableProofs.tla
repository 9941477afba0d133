-------------------------- MODULE SuspendableProofs --------------------------
(***************************************************************************)
(* Proofs about SuspendableLink, for any number of messages, whichever end *)
(* stores its session, and any combination of loss, duplication, restarts  *)
(* and closes.                                                             *)
(***************************************************************************)
EXTENDS SuspendableLink, TLAPS, SequenceTheorems

USE SuspendableAssumption

-----------------------------------------------------------------------------
(* Facts about sequences *)

\* The elements of a sequence are those at its positions 1 to Len.
LEMMA ElementsByIndex ==
    ASSUME NEW S, NEW s \in Seq(S)
    PROVE  /\ DOMAIN s = 1..Len(s) /\ Len(s) \in Nat
           /\ ToSet(s) \subseteq S
           /\ \A e : e \in ToSet(s) <=> \E i \in 1..Len(s) : s[i] = e
<1>1. DOMAIN s = 1..Len(s) /\ Len(s) \in Nat
  OBVIOUS
<1>2. \A e : e \in ToSet(s) <=> \E i \in 1..Len(s) : s[i] = e
  BY <1>1 DEF ToSet
<1>3. \A i \in 1..Len(s) : s[i] \in S
  OBVIOUS
<1> QED
  BY <1>1, <1>2, <1>3

\* The empty sequence has no element and no repetition.
LEMMA EmptyElements == ToSet(<<>>) = {} /\ IsInjective(<<>>)
BY DEF ToSet, IsInjective

\* Appending adds one element, and no repetition if the element is new.
LEMMA AppendElements ==
    ASSUME NEW S, NEW s \in Seq(S), NEW e \in S
    PROVE  /\ Append(s, e) \in Seq(S)
           /\ ToSet(Append(s, e)) = ToSet(s) \cup {e}
           /\ IsInjective(s) /\ e \notin ToSet(s) => IsInjective(Append(s, e))
<1> DEFINE t == Append(s, e)
<1>1. /\ t \in Seq(S) /\ Len(t) = Len(s) + 1 /\ t[Len(s) + 1] = e
      /\ \A i \in 1..Len(s) : t[i] = s[i]
  BY AppendProperties
<1>2. DOMAIN t = 1..Len(s) + 1 /\ DOMAIN s = 1..Len(s) /\ Len(s) \in Nat
  BY <1>1
<1> HIDE DEF t
<1>3. ToSet(t) = ToSet(s) \cup {e}
  <2>1. ASSUME NEW x \in ToSet(t) PROVE x \in ToSet(s) \cup {e}
    <3>1. PICK i \in 1..Len(s) + 1 : t[i] = x
      BY <1>2, <2>1 DEF ToSet
    <3> QED
      BY <1>1, <1>2, <3>1 DEF ToSet
  <2>2. ASSUME NEW x \in ToSet(s) PROVE x \in ToSet(t)
    <3>1. PICK i \in 1..Len(s) : s[i] = x
      BY <1>2, <2>2 DEF ToSet
    <3>2. i \in DOMAIN t /\ t[i] = x
      BY <1>1, <1>2, <3>1
    <3> QED
      BY <3>2 DEF ToSet
  <2>3. e \in ToSet(t)
    <3>1. Len(s) + 1 \in DOMAIN t
      BY <1>2
    <3> QED
      BY <1>1, <3>1 DEF ToSet
  <2> QED
    BY <2>1, <2>2, <2>3
<1>4. ASSUME IsInjective(s), e \notin ToSet(s) PROVE IsInjective(t)
  <2> SUFFICES ASSUME NEW i \in 1..Len(s) + 1, NEW j \in 1..Len(s) + 1, t[i] = t[j]
               PROVE  i = j
    BY <1>2 DEF IsInjective
  <2>1. \A k \in 1..Len(s) : s[k] # e
    BY <1>2, <1>4 DEF ToSet
  <2> QED
    BY <1>1, <1>2, <1>4, <2>1 DEF IsInjective
<1> QED
  BY <1>1, <1>3, <1>4 DEF t

\* Concatenation joins the elements, and repeats none if the two have none in common.
LEMMA ConcatElements ==
    ASSUME NEW S, NEW s \in Seq(S), NEW r \in Seq(S)
    PROVE  /\ s \o r \in Seq(S)
           /\ ToSet(s \o r) = ToSet(s) \cup ToSet(r)
           /\ IsInjective(s) /\ IsInjective(r) /\ ToSet(s) \cap ToSet(r) = {}
                  => IsInjective(s \o r)
<1> DEFINE t == s \o r
<1>1. /\ t \in Seq(S) /\ Len(t) = Len(s) + Len(r)
      /\ \A i \in 1..Len(s) + Len(r) : t[i] = IF i <= Len(s) THEN s[i] ELSE r[i - Len(s)]
  BY ConcatProperties
<1>2. /\ DOMAIN t = 1..Len(s) + Len(r) /\ DOMAIN s = 1..Len(s) /\ DOMAIN r = 1..Len(r)
      /\ Len(s) \in Nat /\ Len(r) \in Nat
  BY <1>1
<1> HIDE DEF t
<1>3. ToSet(t) = ToSet(s) \cup ToSet(r)
  <2>1. ASSUME NEW x \in ToSet(t) PROVE x \in ToSet(s) \cup ToSet(r)
    <3>1. PICK i \in 1..Len(s) + Len(r) : t[i] = x
      BY <1>2, <2>1 DEF ToSet
    <3>2. CASE i <= Len(s)
      <4>1. i \in DOMAIN s /\ s[i] = x
        BY <1>1, <1>2, <3>1, <3>2
      <4> QED
        BY <4>1 DEF ToSet
    <3>3. CASE i > Len(s)
      <4>1. PICK k \in 1..Len(r) : k = i - Len(s)
        BY <1>2, <3>3, i \in Nat, SMTT(30)
      <4>2. k \in DOMAIN r /\ r[k] = x
        BY <1>1, <1>2, <3>1, <3>3, <4>1
      <4> QED
        BY <4>2 DEF ToSet
    <3> QED
      BY <1>2, <3>2, <3>3
  <2>2. ASSUME NEW x \in ToSet(s) PROVE x \in ToSet(t)
    <3>1. PICK i \in 1..Len(s) : s[i] = x
      BY <1>2, <2>2 DEF ToSet
    <3>2. i \in DOMAIN t /\ t[i] = x
      BY <1>1, <1>2, <3>1
    <3> QED
      BY <3>2 DEF ToSet
  <2>3. ASSUME NEW x \in ToSet(r) PROVE x \in ToSet(t)
    <3>1. PICK i \in 1..Len(r) : r[i] = x
      BY <1>2, <2>3 DEF ToSet
    <3>2. PICK k \in 1..Len(s) + Len(r) : k = i + Len(s) /\ k > Len(s) /\ k - Len(s) = i
      BY <1>2, SMTT(30)
    <3>3. k \in DOMAIN t /\ t[k] = x
      BY <1>1, <1>2, <3>1, <3>2
    <3> QED
      BY <3>3 DEF ToSet
  <2> QED
    BY <2>1, <2>2, <2>3
<1>4. ASSUME IsInjective(s), IsInjective(r), ToSet(s) \cap ToSet(r) = {}
      PROVE  IsInjective(t)
  <2> SUFFICES ASSUME NEW i \in 1..Len(s) + Len(r), NEW j \in 1..Len(s) + Len(r), t[i] = t[j]
               PROVE  i = j
    BY <1>2 DEF IsInjective
  <2>1. \A k \in 1..Len(s), l \in 1..Len(r) : s[k] # r[l]
    BY <1>2, <1>4 DEF ToSet
  <2>2. /\ i <= Len(s) => i \in 1..Len(s) /\ t[i] = s[i]
        /\ j <= Len(s) => j \in 1..Len(s) /\ t[j] = s[j]
        /\ i > Len(s) => i - Len(s) \in 1..Len(r) /\ t[i] = r[i - Len(s)]
        /\ j > Len(s) => j - Len(s) \in 1..Len(r) /\ t[j] = r[j - Len(s)]
    BY <1>1, <1>2
  <2>3. CASE i <= Len(s) /\ j <= Len(s)
    BY <1>2, <1>4, <2>2, <2>3 DEF IsInjective
  <2>4. CASE i > Len(s) /\ j > Len(s)
    <3>1. i - Len(s) = j - Len(s)
      BY <1>2, <1>4, <2>2, <2>4 DEF IsInjective
    <3> QED
      BY <1>2, <3>1
  <2> QED
    BY <1>2, <2>1, <2>2, <2>3, <2>4
<1> QED
  BY <1>1, <1>3, <1>4 DEF t

-----------------------------------------------------------------------------
(* The inductive invariants *)

\* A DATA packet carries a message of its sender's application; a proof in flight was sent.
PacketsGenuine ==
    \A p \in net :
        /\ p.type = "DATA" => p.msg \in Msg
        /\ p.type = "PROOF" => p.from \in proved

\* The messages of s were given to send, each once, and none was made into a packet.
Untransmitted(n, s) ==
    /\ IsInjective(s)
    /\ \A m \in ToSet(s) : m <= nsent[n] /\ m \notin ToSet(transmitted[n])

\* What may still be transmitted was not transmitted before: the messages held in memory,
\* and those of the session file for as long as resume may read them back.  In every other
\* state the file may list messages that replay_held has transmitted since.
HeldSound(n) ==
    /\ IsInjective(transmitted[n])
    /\ \A m \in ToSet(transmitted[n]) : m <= nsent[n]
    /\ Untransmitted(n, held_outbound[n])
    /\ state[n] = "Suspended" /\ disk[n].present => Untransmitted(n, disk[n].held)

HeldIsUntransmitted == \A n \in Ends : HeldSound(n)

\* An end without storage never has a session file.
OnlyStoredHasSession == \A n \in Ends \ Stored : disk[n].present = FALSE

SuspendInv ==
    /\ TypeOK
    /\ PacketsGenuine
    /\ ActiveNeedsPeer
    /\ HeldIsUntransmitted
    /\ OnlyStoredHasSession
    /\ AcceptedIsKept

\* The packets that the ends build.
LEMMA BuiltArePackets ==
    /\ \A n \in Ends : Proof(n) \in Packet
    /\ \A n \in Ends, m \in Msg : Data(n, m) \in Packet
BY DEF Proof, Data, Packet, Msg

-----------------------------------------------------------------------------
(* Type correctness *)

\* The initial state is well typed.
LEMMA TypeOKInit == Init => TypeOK
BY DEF Init, TypeOK, NoSession, State, Msg

\* The lifecycle operations keep the state well typed.
LEMMA TypeOKLifecycle ==
    ASSUME TypeOK, NEW n \in Ends,
           establish(n) \/ handle_disconnect(n) \/ resume(n) \/ close(n) \/ restart(n)
    PROVE  TypeOK'
<1>1. /\ held_outbound[n] \in Seq(Msg)
      /\ disk[n] \in [present : BOOLEAN, held : Seq(Msg), key : BOOLEAN]
      /\ derived_key[n] \in BOOLEAN
  BY DEF TypeOK
<1>2. <<>> \in Seq(Msg) /\ NoSession \in [present : BOOLEAN, held : Seq(Msg), key : BOOLEAN]
  BY DEF NoSession
<1>3. ToSet(held_outbound[n]) \subseteq Msg
  BY <1>1, ElementsByIndex
<1>4. CASE establish(n)
  BY <1>4, BuiltArePackets DEF establish, TypeOK, State
<1>5. CASE handle_disconnect(n)
  <2>1. [present |-> TRUE, held |-> held_outbound[n], key |-> derived_key[n]]
            \in [present : BOOLEAN, held : Seq(Msg), key : BOOLEAN]
    BY <1>1
  <2> DEFINE session == [present |-> TRUE, held |-> held_outbound[n], key |-> derived_key[n]]
  <2>2. disk' = [disk EXCEPT ![n] = session] \/ disk' = disk
    BY <1>5 DEF handle_disconnect, suspend
  <2>3. session \in [present : BOOLEAN, held : Seq(Msg), key : BOOLEAN]
    BY <2>1
  <2> HIDE DEF session
  <2>4. disk' \in [Ends -> [present : BOOLEAN, held : Seq(Msg), key : BOOLEAN]]
    BY <2>2, <2>3, ZenonT(30) DEF TypeOK
  <2> QED
    BY <1>5, <2>4 DEF handle_disconnect, suspend, TypeOK, State, history
<1>6. CASE resume(n)
  <2>1. (derived_key[n] \/ disk[n].key) \in BOOLEAN
    BY <1>1
  <2>2. (IF disk[n].present THEN disk[n].held ELSE held_outbound[n]) \in Seq(Msg)
    BY <1>1
  <2>3. held_outbound' \in [Ends -> Seq(Msg)]
    BY <1>6, <2>2 DEF resume, TypeOK
  <2>4. derived_key' \in [Ends -> BOOLEAN]
    BY <1>6, <2>1 DEF resume, TypeOK
  <2> QED
    BY <1>6, <2>3, <2>4 DEF resume, TypeOK, State, history
<1>7. CASE close(n)
  <2>1. discarded' \in [Ends -> SUBSET Msg]
    BY <1>3, <1>7 DEF close, TypeOK
  <2> QED
    BY <1>2, <1>7, <2>1 DEF close, TypeOK, State
<1>8. CASE restart(n)
  <2>1. discarded' \in [Ends -> SUBSET Msg]
    BY <1>3, <1>8 DEF restart, TypeOK
  <2> QED
    BY <1>2, <1>8, <2>1 DEF restart, TypeOK, State
<1> QED
  BY <1>4, <1>5, <1>6, <1>7, <1>8

\* Sending, replaying and receiving messages keep the state well typed.
LEMMA TypeOKData ==
    ASSUME TypeOK, NEW n \in Ends, send(n) \/ replay_held(n) \/ recv(n)
    PROVE  TypeOK'
<1>1. CASE send(n)
  <2> DEFINE m == nsent[n] + 1
  <2>1. m \in Msg /\ nsent' = [nsent EXCEPT ![n] = m]
    BY <1>1 DEF send, TypeOK, Msg
  <2>2. nsent' \in [Ends -> 0..MaxMsgs]
    BY <2>1 DEF TypeOK, Msg
  <2>3. /\ Append(transmitted[n], m) \in Seq(Msg)
        /\ Append(held_outbound[n], m) \in Seq(Msg)
    BY <2>1, AppendElements DEF TypeOK
  <2>4. Data(n, m) \in Packet
    BY <2>1, BuiltArePackets
  <2>5. UNCHANGED <<state, derived_key, inbound, disk, discarded, proved>>
    BY <1>1 DEF send
  <2>6. SendNow(n, m) \/ Hold(n, m)
    BY <1>1 DEF send
  <2> HIDE DEF m
  <2>7. CASE SendNow(n, m)
    <3>1. CASE Big(n, m)
      BY <2>2, <2>5, <2>7, <3>1 DEF SendNow, TypeOK
    <3>2. CASE ~Big(n, m)
      <4>1. /\ net' = net \cup {Data(n, m)}
            /\ accepted' = [accepted EXCEPT ![n] = @ \cup {m}]
            /\ transmitted' = [transmitted EXCEPT ![n] = Append(@, m)]
            /\ UNCHANGED held_outbound
        BY <2>7, <3>2 DEF SendNow
      <4>2. accepted' \in [Ends -> SUBSET Msg]
        BY <2>1, <4>1 DEF TypeOK
      <4>3. transmitted' \in [Ends -> Seq(Msg)]
        BY <2>3, <4>1 DEF TypeOK
      <4> QED
        BY <2>2, <2>4, <2>5, <4>1, <4>2, <4>3 DEF TypeOK
    <3> QED
      BY <3>1, <3>2
  <2>8. CASE Hold(n, m)
    BY <2>1, <2>2, <2>3, <2>5, <2>8 DEF Hold, TypeOK
  <2> QED
    BY <2>6, <2>7, <2>8
<1>2. CASE replay_held(n)
  <2> DEFINE s == held_outbound[n]
  <2>1. s \in Seq(Msg) /\ transmitted[n] \o s \in Seq(Msg) /\ <<>> \in Seq(Msg)
    BY ConcatElements DEF TypeOK
  <2>2. {Data(n, m) : m \in ToSet(s)} \subseteq Packet
    BY <2>1, ElementsByIndex, BuiltArePackets
  <2>3. transmitted' \in [Ends -> Seq(Msg)] /\ net' \subseteq Packet
    <3>1. CASE \A m \in ToSet(s) : ~Big(n, m)
      <4>1. /\ net' = net \cup {Data(n, m) : m \in ToSet(s)}
            /\ transmitted' = [transmitted EXCEPT ![n] = transmitted[n] \o s]
        BY <1>2, <3>1 DEF replay_held
      <4> HIDE DEF s
      <4> QED
        BY <2>1, <2>2, <4>1 DEF TypeOK
    <3>2. CASE ~ \A m \in ToSet(s) : ~Big(n, m)
      <4>1. UNCHANGED <<net, transmitted>>
        BY <1>2, <3>2 DEF replay_held
      <4> QED
        BY <4>1 DEF TypeOK
    <3> QED
      BY <3>1, <3>2
  <2>4. held_outbound' \in [Ends -> Seq(Msg)]
    BY <1>2, <2>1 DEF replay_held, TypeOK
  <2> QED
    BY <1>2, <2>3, <2>4 DEF replay_held, TypeOK
<1>3. CASE recv(n)
  <2>1. inbound[n] \in Seq(Msg) /\ inbound[n] # <<>>
    BY <1>3 DEF recv, TypeOK
  <2>2. Tail(inbound[n]) \in Seq(Msg)
    BY <2>1, HeadTailProperties
  <2> QED
    BY <1>3, <2>2 DEF recv, TypeOK, history
<1> QED
  BY <1>1, <1>2, <1>3

\* What the medium does keeps the state well typed.
LEMMA TypeOKMedium ==
    ASSUME TypeOK, PacketsGenuine, NEW p \in net, NEW n \in Ends, NEW keep \in BOOLEAN,
           Receive(p, n, keep) \/ Lose(p)
    PROVE  TypeOK'
<1>1. net' \subseteq Packet
  BY DEF Receive, Lose, TypeOK
<1>2. CASE Lose(p)
  BY <1>1, <1>2 DEF Lose, TypeOK, history
<1>3. CASE Receive(p, n, keep)
  <2>1. CASE complete_handshake(n, p)
    BY <1>1, <2>1 DEF complete_handshake, TypeOK, State, history
  <2>2. CASE RejectedProof(n, p)
    BY <1>1, <2>2 DEF RejectedProof, TypeOK, history
  <2>3. CASE deliver(n, p)
    <3>1. p.msg \in Msg /\ inbound[n] \in Seq(Msg)
      BY <2>3 DEF deliver, PacketsGenuine, TypeOK
    <3>2. Append(inbound[n], p.msg) \in Seq(Msg)
      BY <3>1, AppendElements
    <3> QED
      BY <1>1, <2>3, <3>2 DEF deliver, TypeOK, history
  <2> QED
    BY <1>3, <2>1, <2>2, <2>3 DEF Receive
<1> QED
  BY <1>2, <1>3

-----------------------------------------------------------------------------
(* Proofs in flight, and the peer of an Active link *)

\* Every step keeps the packets genuine and the peer of every Active end known to have proved.
LEMMA PeerNext ==
    ASSUME TypeOK, PacketsGenuine, ActiveNeedsPeer, [Next]_vars
    PROVE  PacketsGenuine' /\ ActiveNeedsPeer'
<1>1. ASSUME net' \subseteq net, proved' = proved,
             \A n \in Ends : state'[n] = "Active" => state[n] = "Active"
      PROVE  PacketsGenuine' /\ ActiveNeedsPeer'
  BY <1>1 DEF PacketsGenuine, ActiveNeedsPeer
<1>2. ASSUME NEW n \in Ends, establish(n)
      PROVE  PacketsGenuine' /\ ActiveNeedsPeer'
  <2>1. Proof(n).type = "PROOF" /\ Proof(n).from = n
    BY DEF Proof
  <2>2. net' = net \cup {Proof(n)} /\ proved' = proved \cup {n}
    BY <1>2 DEF establish
  <2>3. PacketsGenuine'
    BY <2>1, <2>2 DEF PacketsGenuine
  <2>4. \A m \in Ends : state'[m] = "Active" => state[m] = "Active"
    BY <1>2 DEF establish, TypeOK
  <2> QED
    BY <2>2, <2>3, <2>4 DEF ActiveNeedsPeer
<1>3. ASSUME NEW n \in Ends, handle_disconnect(n) \/ resume(n) \/ close(n) \/ restart(n) \/ recv(n)
      PROVE  PacketsGenuine' /\ ActiveNeedsPeer'
  <2>1. \A m \in Ends : state'[m] = "Active" => state[m] = "Active"
    BY <1>3 DEF handle_disconnect, suspend, resume, close, restart, recv, TypeOK
  <2>2. net' = net /\ proved' = proved
    BY <1>3 DEF handle_disconnect, suspend, resume, close, restart, recv, history
  <2> QED
    BY <1>1, <2>1, <2>2
<1>4. ASSUME NEW n \in Ends, send(n)
      PROVE  PacketsGenuine' /\ ActiveNeedsPeer'
  <2> DEFINE m == nsent[n] + 1
  <2>1. m \in Msg /\ state' = state /\ proved' = proved
    BY <1>4 DEF send, TypeOK, Msg
  <2>2. net' = net \/ net' = net \cup {Data(n, m)}
    BY <1>4 DEF send, SendNow, Hold
  <2>3. Data(n, m).type = "DATA" /\ Data(n, m).msg = m
    BY DEF Data
  <2> HIDE DEF m
  <2> QED
    BY <2>1, <2>2, <2>3 DEF PacketsGenuine, ActiveNeedsPeer
<1>5. ASSUME NEW n \in Ends, replay_held(n)
      PROVE  PacketsGenuine' /\ ActiveNeedsPeer'
  <2>1. state' = state /\ proved' = proved
    BY <1>5 DEF replay_held
  <2>2. \A p \in net' : p \in net \/ \E m \in ToSet(held_outbound[n]) : p = Data(n, m)
    <3>1. net' = net \/ net' = net \cup {Data(n, m) : m \in ToSet(held_outbound[n])}
      BY <1>5 DEF replay_held
    <3> QED
      BY <3>1
  <2>3. ToSet(held_outbound[n]) \subseteq Msg
    BY ElementsByIndex DEF TypeOK
  <2>4. \A m \in Msg : Data(n, m).type = "DATA" /\ Data(n, m).msg = m
    BY DEF Data
  <2> QED
    BY <2>1, <2>2, <2>3, <2>4 DEF PacketsGenuine, ActiveNeedsPeer
<1>6. ASSUME NEW p \in net, NEW n \in Ends, NEW keep \in BOOLEAN, Receive(p, n, keep)
      PROVE  PacketsGenuine' /\ ActiveNeedsPeer'
  <2>1. net' \subseteq net
    BY <1>6 DEF Receive
  <2>2. CASE complete_handshake(n, p)
    <3>1. state' = [state EXCEPT ![n] = "Active"] /\ proved' = proved
      BY <2>2 DEF complete_handshake, history
    <3>2. Peer(n) \in proved
      BY <2>2 DEF complete_handshake, Verifies, PacketsGenuine
    <3> QED
      BY <2>1, <3>1, <3>2 DEF PacketsGenuine, ActiveNeedsPeer, TypeOK
  <2>3. CASE RejectedProof(n, p) \/ deliver(n, p)
    BY <1>1, <2>1, <2>3 DEF RejectedProof, deliver, history
  <2> QED
    BY <1>6, <2>2, <2>3 DEF Receive
<1>7. ASSUME NEW p \in net, Lose(p)
      PROVE  PacketsGenuine' /\ ActiveNeedsPeer'
  BY <1>1, <1>7 DEF Lose, history
<1>8. CASE UNCHANGED vars
  BY <1>1, <1>8 DEF vars
<1>9. Senders \subseteq Ends
  BY DEF Ends
<1> QED
  BY <1>2, <1>3, <1>4, <1>5, <1>6, <1>7, <1>8, <1>9 DEF Next

-----------------------------------------------------------------------------
(* Held and transmitted messages *)

\* An end whose messages, file and state a step leaves alone stays sound.
LEMMA HeldSoundFrame ==
    ASSUME NEW n \in Ends, HeldSound(n),
           nsent'[n] = nsent[n], transmitted'[n] = transmitted[n],
           held_outbound'[n] = held_outbound[n],
           state'[n] = "Suspended" => state[n] = "Suspended" /\ disk'[n] = disk[n]
    PROVE  HeldSound(n)'
BY DEF HeldSound, Untransmitted

\* So does one that empties its held messages without transmitting any.
LEMMA HeldSoundDropped ==
    ASSUME NEW n \in Ends, HeldSound(n),
           nsent'[n] = nsent[n], transmitted'[n] = transmitted[n],
           held_outbound'[n] = <<>>, state'[n] # "Suspended"
    PROVE  HeldSound(n)'
BY EmptyElements DEF HeldSound, Untransmitted

\* The lifecycle operations: suspend writes what is held, and resume reads it back before
\* anything else can have been transmitted.
LEMMA HeldLifecycle ==
    ASSUME TypeOK, HeldIsUntransmitted, NEW n \in Ends,
           establish(n) \/ handle_disconnect(n) \/ resume(n) \/ close(n) \/ restart(n),
           OnlyStoredHasSession
    PROVE  HeldIsUntransmitted'
<1>1. nsent' = nsent /\ transmitted' = transmitted
  BY DEF establish, handle_disconnect, suspend, resume, close, restart, history
<1>2. ASSUME NEW x \in Ends, x # n PROVE HeldSound(x)'
  <2>1. state'[x] = state[x] /\ disk'[x] = disk[x] /\ held_outbound'[x] = held_outbound[x]
    BY <1>2 DEF establish, handle_disconnect, suspend, resume, close, restart, TypeOK
  <2> QED
    BY <1>1, <2>1, HeldSoundFrame DEF HeldIsUntransmitted
<1>3. HeldSound(n)
  BY DEF HeldIsUntransmitted
<1>4. HeldSound(n)'
  <2>1. CASE establish(n)
    BY <1>1, <1>3, <2>1, HeldSoundFrame DEF establish, TypeOK
  <2>2. CASE handle_disconnect(n)
    <3>1. held_outbound' = held_outbound
      BY <2>2 DEF handle_disconnect, suspend
    <3>2. CASE n \in Stored
      <4>1. disk'[n].held = held_outbound[n]
        BY <2>2, <3>2 DEF handle_disconnect, suspend, TypeOK
      <4> QED
        BY <1>1, <1>3, <3>1, <4>1 DEF HeldSound, Untransmitted
    <3>3. CASE n \notin Stored
      <4>1. disk'[n].present = FALSE
        BY <2>2, <3>3 DEF handle_disconnect, suspend, OnlyStoredHasSession
      <4> QED
        BY <1>1, <1>3, <3>1, <4>1 DEF HeldSound, Untransmitted
    <3> QED
      BY <3>2, <3>3
  <2>3. CASE resume(n)
    <3>1. /\ state[n] = "Suspended" /\ state'[n] = "Handshaking"
          /\ held_outbound'[n] = IF disk[n].present THEN disk[n].held ELSE held_outbound[n]
      BY <2>3 DEF resume, TypeOK
    <3> QED
      BY <1>1, <1>3, <3>1 DEF HeldSound, Untransmitted
  <2>4. CASE close(n) \/ restart(n)
    <3>1. state'[n] = "Closed" /\ held_outbound'[n] = <<>>
      BY <2>4 DEF close, restart, TypeOK
    <3> QED
      BY <1>1, <1>3, <3>1, HeldSoundDropped
  <2> QED
    BY <2>1, <2>2, <2>3, <2>4
<1> QED
  BY <1>2, <1>4 DEF HeldIsUntransmitted

\* Sending: the message is new, so it repeats nothing that was transmitted or is held.
LEMMA HeldSend ==
    ASSUME TypeOK, HeldIsUntransmitted, NEW n \in Ends, send(n)
    PROVE  HeldIsUntransmitted'
<1> DEFINE m == nsent[n] + 1
<1>1. /\ m \in Msg /\ nsent' = [nsent EXCEPT ![n] = m] /\ nsent[n] \in Nat
      /\ state' = state /\ disk' = disk
  BY DEF send, TypeOK, Msg
<1>2. SendNow(n, m) \/ Hold(n, m)
  BY DEF send
<1>3. ASSUME NEW x \in Ends, x # n PROVE HeldSound(x)'
  <2>1. /\ nsent'[x] = nsent[x] /\ transmitted'[x] = transmitted[x]
        /\ held_outbound'[x] = held_outbound[x]
    BY <1>1, <1>2, <1>3 DEF SendNow, Hold, TypeOK
  <2> QED
    BY <1>1, <2>1, HeldSoundFrame DEF HeldIsUntransmitted
<1>4. HeldSound(n)
  BY DEF HeldIsUntransmitted
<1>5. /\ transmitted[n] \in Seq(Msg) /\ held_outbound[n] \in Seq(Msg) /\ disk[n].held \in Seq(Msg)
  BY DEF TypeOK
<1>6. /\ ToSet(transmitted[n]) \subseteq Msg /\ ToSet(held_outbound[n]) \subseteq Msg
      /\ ToSet(disk[n].held) \subseteq Msg
  BY <1>5, ElementsByIndex
<1>7. Msg \subseteq Nat
  BY DEF Msg
<1>8. nsent'[n] = m /\ nsent[n] < m
  BY <1>1 DEF TypeOK
<1>9. /\ m \notin ToSet(transmitted[n]) /\ m \notin ToSet(held_outbound[n])
      /\ state[n] = "Suspended" /\ disk[n].present => m \notin ToSet(disk[n].held)
  BY <1>4, <1>6, <1>7, <1>8, <1>1 DEF HeldSound, Untransmitted
<1>10. m <= m /\ \A k \in Msg : k <= nsent[n] => k <= m
  BY <1>1, <1>7, <1>8
<1> HIDE DEF m
<1>11. HeldSound(n)'
  <2>1. CASE SendNow(n, m) /\ ~Big(n, m)
    <3>1. /\ transmitted'[n] = Append(transmitted[n], m) /\ held_outbound'[n] = held_outbound[n]
          /\ state'[n] = "Active"
      BY <1>1, <2>1 DEF SendNow, TypeOK
    <3>2. ToSet(transmitted'[n]) = ToSet(transmitted[n]) \cup {m} /\ IsInjective(transmitted'[n])
      BY <1>1, <1>4, <1>5, <1>9, <3>1, AppendElements DEF HeldSound
    <3>3. \A k \in ToSet(transmitted'[n]) : k <= nsent'[n]
      BY <1>4, <1>6, <1>8, <1>10, <3>2 DEF HeldSound
    <3>4. Untransmitted(n, held_outbound[n])'
      BY <1>4, <1>6, <1>8, <1>9, <1>10, <3>1, <3>2 DEF HeldSound, Untransmitted
    <3> QED
      BY <3>1, <3>2, <3>3, <3>4 DEF HeldSound
  <2>2. CASE SendNow(n, m) /\ Big(n, m)
    <3>1. /\ transmitted'[n] = transmitted[n] /\ held_outbound'[n] = held_outbound[n]
          /\ state'[n] = "Active"
      BY <1>1, <2>2 DEF SendNow, TypeOK
    <3> QED
      BY <1>4, <1>6, <1>8, <1>10, <3>1 DEF HeldSound, Untransmitted
  <2>3. CASE Hold(n, m)
    <3>1. transmitted'[n] = transmitted[n] /\ held_outbound'[n] = Append(held_outbound[n], m)
      BY <2>3 DEF Hold, TypeOK
    <3>2. /\ ToSet(held_outbound'[n]) = ToSet(held_outbound[n]) \cup {m}
          /\ IsInjective(held_outbound'[n])
      BY <1>1, <1>4, <1>5, <1>9, <3>1, AppendElements DEF HeldSound, Untransmitted
    <3>3. Untransmitted(n, held_outbound[n])'
      <4>1. \A k \in ToSet(held_outbound'[n]) : k <= nsent'[n]
        BY <1>4, <1>6, <1>8, <1>10, <3>2 DEF HeldSound, Untransmitted
      <4>2. \A k \in ToSet(held_outbound'[n]) : k \notin ToSet(transmitted'[n])
        BY <1>4, <1>9, <3>1, <3>2 DEF HeldSound, Untransmitted
      <4> QED
        BY <3>2, <4>1, <4>2 DEF Untransmitted
    <3>4. state'[n] = "Suspended" /\ disk'[n].present => Untransmitted(n, disk[n].held)'
      BY <1>1, <1>4, <1>6, <1>8, <1>10, <3>1 DEF HeldSound, Untransmitted
    <3>5. \A k \in ToSet(transmitted'[n]) : k <= nsent'[n]
      BY <1>4, <1>6, <1>8, <1>10, <3>1 DEF HeldSound
    <3> QED
      BY <1>4, <3>1, <3>3, <3>4, <3>5 DEF HeldSound
  <2> QED
    BY <1>2, <2>1, <2>2, <2>3
<1> QED
  BY <1>3, <1>11 DEF HeldIsUntransmitted

\* Replaying: the held messages move to the transmitted ones, or are dropped.
LEMMA HeldReplay ==
    ASSUME TypeOK, HeldIsUntransmitted, NEW n \in Ends, replay_held(n)
    PROVE  HeldIsUntransmitted'
<1>1. /\ state[n] = "Active" /\ state' = state /\ disk' = disk /\ nsent' = nsent
      /\ held_outbound' = [held_outbound EXCEPT ![n] = <<>>]
  BY DEF replay_held
<1>2. \/ transmitted' = transmitted
      \/ transmitted' = [transmitted EXCEPT ![n] = transmitted[n] \o held_outbound[n]]
  BY DEF replay_held
<1>3. ASSUME NEW x \in Ends, x # n PROVE HeldSound(x)'
  <2>1. transmitted'[x] = transmitted[x] /\ held_outbound'[x] = held_outbound[x]
    BY <1>1, <1>2, <1>3 DEF TypeOK
  <2> QED
    BY <1>1, <2>1, HeldSoundFrame DEF HeldIsUntransmitted
<1>4. HeldSound(n)
  BY DEF HeldIsUntransmitted
<1>5. held_outbound'[n] = <<>>
  BY <1>1 DEF TypeOK
<1>6. HeldSound(n)'
  <2>1. CASE transmitted' = transmitted
    BY <1>1, <1>4, <1>5, <2>1, HeldSoundDropped
  <2>2. CASE transmitted' = [transmitted EXCEPT ![n] = transmitted[n] \o held_outbound[n]]
    <3>1. transmitted'[n] = transmitted[n] \o held_outbound[n]
      BY <2>2 DEF TypeOK
    <3>2. transmitted[n] \in Seq(Msg) /\ held_outbound[n] \in Seq(Msg)
      BY DEF TypeOK
    <3>3. ToSet(transmitted[n]) \cap ToSet(held_outbound[n]) = {}
      BY <1>4 DEF HeldSound, Untransmitted
    <3>4. /\ ToSet(transmitted'[n]) = ToSet(transmitted[n]) \cup ToSet(held_outbound[n])
          /\ IsInjective(transmitted'[n])
      BY <1>4, <3>1, <3>2, <3>3, ConcatElements DEF HeldSound, Untransmitted
    <3>5. \A m \in ToSet(transmitted'[n]) : m <= nsent'[n]
      BY <1>1, <1>4, <3>4 DEF HeldSound, Untransmitted
    <3>6. Untransmitted(n, held_outbound[n])'
      BY <1>5, EmptyElements DEF Untransmitted
    <3> QED
      BY <1>1, <3>4, <3>5, <3>6 DEF HeldSound
  <2> QED
    BY <1>2, <2>1, <2>2
<1> QED
  BY <1>3, <1>6 DEF HeldIsUntransmitted

\* Every step keeps the held messages untransmitted.
LEMMA HeldNext ==
    ASSUME TypeOK, OnlyStoredHasSession, HeldIsUntransmitted, [Next]_vars
    PROVE  HeldIsUntransmitted'
<1>1. ASSUME UNCHANGED <<held_outbound, disk, nsent, transmitted>>,
             \A x \in Ends : state'[x] = "Suspended" => state[x] = "Suspended"
      PROVE  HeldIsUntransmitted'
  BY <1>1, HeldSoundFrame DEF HeldIsUntransmitted
<1>2. ASSUME NEW n \in Ends, recv(n) PROVE HeldIsUntransmitted'
  BY <1>1, <1>2 DEF recv, history
<1>3. ASSUME NEW p \in net, NEW n \in Ends, NEW keep \in BOOLEAN, Receive(p, n, keep)
      PROVE  HeldIsUntransmitted'
  <2>1. CASE complete_handshake(n, p)
    BY <1>1, <2>1 DEF complete_handshake, TypeOK, history
  <2>2. CASE RejectedProof(n, p) \/ deliver(n, p)
    BY <1>1, <2>2 DEF RejectedProof, deliver, history
  <2> QED
    BY <1>3, <2>1, <2>2 DEF Receive
<1>4. ASSUME NEW p \in net, Lose(p) PROVE HeldIsUntransmitted'
  BY <1>1, <1>4 DEF Lose, history
<1>5. CASE UNCHANGED vars
  BY <1>1, <1>5 DEF vars
<1>6. Senders \subseteq Ends
  BY DEF Ends
<1> QED
  BY <1>2, <1>3, <1>4, <1>5, <1>6, HeldLifecycle, HeldSend, HeldReplay DEF Next

-----------------------------------------------------------------------------
(* Accepted messages *)

\* Where the messages of end n that send accepted are.
Kept(n) == ToSet(transmitted[n]) \cup ToSet(held_outbound[n]) \cup discarded[n]

\* No step gives an end without storage a session file.
LEMMA StoredNext ==
    ASSUME TypeOK, OnlyStoredHasSession, [Next]_vars
    PROVE  OnlyStoredHasSession'
<1>1. ASSUME NEW n \in Ends, handle_disconnect(n) PROVE OnlyStoredHasSession'
  BY <1>1 DEF handle_disconnect, suspend, OnlyStoredHasSession, TypeOK
<1>2. ASSUME NEW n \in Ends, close(n) PROVE OnlyStoredHasSession'
  BY <1>2 DEF close, OnlyStoredHasSession, TypeOK, NoSession
<1>3. ASSUME UNCHANGED disk PROVE OnlyStoredHasSession'
  BY <1>3 DEF OnlyStoredHasSession
<1>4. ASSUME NEW n \in Ends,
             establish(n) \/ resume(n) \/ restart(n) \/ send(n) \/ replay_held(n) \/ recv(n)
      PROVE  UNCHANGED disk
  BY <1>4 DEF establish, resume, restart, send, replay_held, recv
<1>5. ASSUME NEW p \in net, NEW n \in Ends, NEW keep \in BOOLEAN, Receive(p, n, keep) \/ Lose(p)
      PROVE  UNCHANGED disk
  BY <1>5 DEF Receive, complete_handshake, RejectedProof, deliver, Lose
<1>6. Senders \subseteq Ends /\ "a" \in Ends /\ TRUE \in BOOLEAN
  BY DEF Ends
<1>7. CASE UNCHANGED vars
  BY <1>3, <1>7 DEF vars
<1> QED
  BY <1>1, <1>2, <1>3, <1>4, <1>5, <1>6, <1>7 DEF Next

\* Every step keeps what an end without storage and without too big messages has accepted.
LEMMA KeptNext ==
    ASSUME TypeOK, OnlyStoredHasSession, AcceptedIsKept, [Next]_vars
    PROVE  AcceptedIsKept'
<1> SUFFICES ASSUME NEW x \in Ends \ (Stored \cup BigSenders)
             PROVE  accepted'[x] \subseteq Kept(x)'
  BY DEF AcceptedIsKept, Kept
<1>1. x \in Ends /\ accepted[x] \subseteq Kept(x) /\ disk[x].present = FALSE
  BY DEF AcceptedIsKept, Kept, OnlyStoredHasSession
<1>2. \A m : ~Big(x, m)
  BY DEF Big
<1>3. /\ transmitted[x] \in Seq(Msg) /\ held_outbound[x] \in Seq(Msg)
      /\ discarded[x] \subseteq Msg
  BY <1>1 DEF TypeOK
<1>4. ASSUME accepted'[x] = accepted[x], transmitted'[x] = transmitted[x],
             held_outbound'[x] = held_outbound[x], discarded'[x] = discarded[x]
      PROVE  accepted'[x] \subseteq Kept(x)'
  BY <1>1, <1>4 DEF Kept
<1>5. ASSUME NEW n \in Ends, establish(n) \/ handle_disconnect(n) \/ recv(n)
      PROVE  accepted'[x] \subseteq Kept(x)'
  BY <1>4, <1>5 DEF establish, handle_disconnect, suspend, recv, history
<1>6. ASSUME NEW n \in Ends, resume(n)
      PROVE  accepted'[x] \subseteq Kept(x)'
  <2>1. held_outbound'[x] = held_outbound[x]
    BY <1>1, <1>6 DEF resume, TypeOK
  <2> QED
    BY <1>4, <1>6, <2>1 DEF resume, history
<1>7. ASSUME NEW n \in Ends, close(n) \/ restart(n)
      PROVE  accepted'[x] \subseteq Kept(x)'
  <2>1. accepted' = accepted /\ transmitted' = transmitted
    BY <1>7 DEF close, restart
  <2>2. CASE x = n
    <3>1. held_outbound'[x] = <<>> /\ discarded'[x] = discarded[x] \cup ToSet(held_outbound[x])
      BY <1>1, <1>7, <2>2 DEF close, restart, TypeOK
    <3> QED
      BY <1>1, <2>1, <3>1 DEF Kept
  <2>3. CASE x # n
    <3>1. held_outbound'[x] = held_outbound[x] /\ discarded'[x] = discarded[x]
      BY <1>1, <1>7, <2>3 DEF close, restart, TypeOK
    <3> QED
      BY <1>4, <2>1, <3>1
  <2> QED
    BY <2>2, <2>3
<1>8. ASSUME NEW n \in Ends, send(n)
      PROVE  accepted'[x] \subseteq Kept(x)'
  <2> DEFINE m == nsent[n] + 1
  <2>1. m \in Msg /\ discarded' = discarded
    BY <1>8 DEF send, TypeOK, Msg
  <2>2. SendNow(n, m) \/ Hold(n, m)
    BY <1>8 DEF send
  <2> HIDE DEF m
  <2>3. CASE x # n
    <3>1. /\ accepted'[x] = accepted[x] /\ transmitted'[x] = transmitted[x]
          /\ held_outbound'[x] = held_outbound[x]
      BY <1>1, <2>2, <2>3 DEF SendNow, Hold, TypeOK
    <3> QED
      BY <1>4, <2>1, <3>1
  <2>4. CASE x = n /\ SendNow(n, m)
    <3>1. /\ accepted'[x] = accepted[x] \cup {m}
          /\ transmitted'[x] = Append(transmitted[x], m)
          /\ held_outbound'[x] = held_outbound[x]
      BY <1>1, <1>2, <2>4 DEF SendNow, TypeOK
    <3>2. ToSet(transmitted'[x]) = ToSet(transmitted[x]) \cup {m}
      BY <1>3, <2>1, <3>1, AppendElements
    <3> QED
      BY <1>1, <2>1, <3>1, <3>2 DEF Kept
  <2>5. CASE x = n /\ Hold(n, m)
    <3>1. /\ accepted'[x] = accepted[x] \cup {m}
          /\ transmitted'[x] = transmitted[x]
          /\ held_outbound'[x] = Append(held_outbound[x], m)
      BY <1>1, <2>5 DEF Hold, TypeOK
    <3>2. ToSet(held_outbound'[x]) = ToSet(held_outbound[x]) \cup {m}
      BY <1>3, <2>1, <3>1, AppendElements
    <3> QED
      BY <1>1, <2>1, <3>1, <3>2 DEF Kept
  <2> QED
    BY <2>2, <2>3, <2>4, <2>5
<1>9. ASSUME NEW n \in Ends, replay_held(n)
      PROVE  accepted'[x] \subseteq Kept(x)'
  <2>1. accepted' = accepted /\ discarded' = discarded
    BY <1>9 DEF replay_held
  <2>2. CASE x # n
    <3>1. transmitted'[x] = transmitted[x] /\ held_outbound'[x] = held_outbound[x]
      BY <1>1, <1>9, <2>2 DEF replay_held, TypeOK
    <3> QED
      BY <1>4, <2>1, <3>1
  <2>3. CASE x = n
    <3>1. transmitted'[x] = transmitted[x] \o held_outbound[x]
      BY <1>1, <1>2, <1>9, <2>3 DEF replay_held, TypeOK
    <3>2. ToSet(transmitted'[x]) = ToSet(transmitted[x]) \cup ToSet(held_outbound[x])
      BY <1>3, <3>1, ConcatElements
    <3> QED
      BY <1>1, <2>1, <3>2 DEF Kept
  <2> QED
    BY <2>2, <2>3
<1>10. ASSUME NEW p \in net, NEW n \in Ends, NEW keep \in BOOLEAN, Receive(p, n, keep)
       PROVE  accepted'[x] \subseteq Kept(x)'
  BY <1>4, <1>10 DEF Receive, complete_handshake, RejectedProof, deliver, history
<1>11. ASSUME NEW p \in net, Lose(p)
       PROVE  accepted'[x] \subseteq Kept(x)'
  BY <1>4, <1>11 DEF Lose, history
<1>12. CASE UNCHANGED vars
  BY <1>4, <1>12 DEF vars
<1>13. Senders \subseteq Ends
  BY DEF Ends
<1> QED
  BY <1>5, <1>6, <1>7, <1>8, <1>9, <1>10, <1>11, <1>12, <1>13 DEF Next

-----------------------------------------------------------------------------
(* The theorems *)

\* The inductive invariant holds initially and is kept by every step.
LEMMA SuspendInvariant == Spec => []SuspendInv
<1>1. Init => SuspendInv
  <2> SUFFICES ASSUME Init PROVE SuspendInv
    OBVIOUS
  <2>1. TypeOK
    BY TypeOKInit
  <2>2. PacketsGenuine /\ ActiveNeedsPeer /\ OnlyStoredHasSession /\ AcceptedIsKept
    BY DEF Init, PacketsGenuine, ActiveNeedsPeer, OnlyStoredHasSession, AcceptedIsKept, NoSession
  <2>3. HeldIsUntransmitted
    <3> SUFFICES ASSUME NEW n \in Ends PROVE HeldSound(n)
      BY DEF HeldIsUntransmitted
    <3>1. transmitted[n] = <<>> /\ held_outbound[n] = <<>> /\ disk[n].held = <<>>
      BY DEF Init, NoSession
    <3> QED
      BY <3>1, EmptyElements DEF HeldSound, Untransmitted
  <2> QED
    BY <2>1, <2>2, <2>3 DEF SuspendInv
<1>2. SuspendInv /\ [Next]_vars => SuspendInv'
  <2> SUFFICES ASSUME SuspendInv, [Next]_vars PROVE SuspendInv'
    OBVIOUS
  <2>1. TypeOK /\ PacketsGenuine /\ ActiveNeedsPeer /\ HeldIsUntransmitted
        /\ OnlyStoredHasSession /\ AcceptedIsKept
    BY DEF SuspendInv
  <2>2. TypeOK'
    <3>1. CASE UNCHANGED vars
      BY <2>1, <3>1 DEF vars, TypeOK
    <3>2. CASE Next
      <4>1. Senders \subseteq Ends /\ "a" \in Ends /\ TRUE \in BOOLEAN
        BY DEF Ends
      <4> QED
        BY <2>1, <3>2, <4>1, TypeOKLifecycle, TypeOKData, TypeOKMedium DEF Next
    <3> QED
      BY <3>1, <3>2
  <2>3. PacketsGenuine' /\ ActiveNeedsPeer'
    BY <2>1, PeerNext
  <2>4. HeldIsUntransmitted'
    BY <2>1, HeldNext
  <2>5. OnlyStoredHasSession' /\ AcceptedIsKept'
    BY <2>1, StoredNext, KeptNext
  <2> QED
    BY <2>2, <2>3, <2>4, <2>5 DEF SuspendInv
<1> QED
  BY <1>1, <1>2, PTL DEF Spec

\* No message is transmitted twice by send and replay_held, however often the link is
\* suspended, its session read back from the file or the process restarted; and every
\* reachable state has its type.
THEOREM NothingTransmittedTwice == Spec => []TransmittedOnce
<1>1. SuspendInv => TransmittedOnce
  BY DEF SuspendInv, HeldIsUntransmitted, HeldSound, TransmittedOnce
<1> QED
  BY <1>1, SuspendInvariant, PTL

\* complete_handshake makes a link Active only with a peer that sent a proof, whatever the
\* medium repeats or reflects.
THEOREM ActiveLinkHasPeer == Spec => []ActiveNeedsPeer
<1>1. SuspendInv => ActiveNeedsPeer
  BY DEF SuspendInv
<1> QED
  BY <1>1, SuspendInvariant, PTL

\* Without a session file and without too big messages, what send accepted is transmitted,
\* held, or was held when the link was closed or the process ended.
THEOREM AcceptedMessagesKept == Spec => []AcceptedIsKept
<1>1. SuspendInv => AcceptedIsKept
  BY DEF SuspendInv
<1> QED
  BY <1>1, SuspendInvariant, PTL
=============================================================================
