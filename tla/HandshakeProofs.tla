--------------------------- MODULE HandshakeProofs ---------------------------
(***************************************************************************)
(* Proofs about Handshake, for any set of daemons, any number of ephemeral *)
(* keys and any combination of loss, duplication, reordering, stale links  *)
(* and restarts; and about ApiServer, for any number of clients and lines. *)
(***************************************************************************)
EXTENDS ApiServer, TLAPS

USE NodesAssumption, FreshAssumption, KnownAssumption

-----------------------------------------------------------------------------
(* Facts about the helpers *)

\* An entry that an LRPROOF selects from a pending map is present.
LEMMA SelectedIsPending ==
    ASSUME NEW pending, NEW p, NEW resolved, NEW k, Selects(pending, p, resolved, k)
    PROVE  pending[k] # 0
BY DEF Selects

\* What is in flight after a packet was taken was in flight before.
LEMMA TakeShrinks ==
    ASSUME NEW p, NEW keep
    PROVE  Take(p, keep) \subseteq net
BY DEF Take

\* The packets that the handlers build are messages, whichever fields they carry.
LEMMA BuiltAreMessages ==
    ASSUME NEW n \in Nodes, NEW m \in Nodes, NEW id \in 0..MaxFresh, NEW e \in 0..MaxFresh
    PROVE  /\ LinkRequest(n, m, e) \in Message
           /\ LrProof(n, m, id, e) \in Message
           /\ LinkProof(n, m) \in Message
BY DEF LinkRequest, LrProof, LinkProof, Message

\* The fields of a packet in flight have their types.
LEMMA FieldTypes ==
    ASSUME TypeOK, NEW p \in net
    PROVE  /\ p.src \in Nodes
           /\ p.dst \in Nodes
           /\ p.link_id \in 0..MaxFresh
           /\ p.eph \in 0..MaxFresh
BY DEF TypeOK, Message

\* A fresh ephemeral key is in range and not zero.
LEMMA FreshType ==
    ASSUME TypeOK, fresh < MaxFresh, fresh' = fresh + 1
    PROVE  fresh' \in 0..MaxFresh /\ fresh' \in Eph /\ fresh' # 0
BY DEF TypeOK, Eph

\* What is pending, with or without the address of its peer, is an ephemeral key.
LEMMA PendingType ==
    ASSUME TypeOK, NEW n \in Nodes, NEW m \in Nodes, pending_channels[n][m] # 0
    PROVE  pending_channels[n][m] \in Eph
BY DEF TypeOK, Eph

\* Replacing one channel keeps the table of channels well typed.
LEMMA ChannelsType ==
    ASSUME TypeOK, NEW n \in Nodes, NEW m \in Nodes, NEW c \in ChannelRec
    PROVE  [channels EXCEPT ![n][m] = c] \in [Nodes -> [Nodes -> ChannelRec]]
BY DEF TypeOK

-----------------------------------------------------------------------------
(* Type correctness *)

\* What a connect of n to m does, whether its request goes out or not.
Begins(n, m) ==
    /\ fresh < MaxFresh /\ fresh' = fresh + 1
    /\ pending_channels' = [pending_channels EXCEPT ![n][m] = fresh']
    /\ pending_links' = [pending_links EXCEPT ![n][m] = fresh']
    /\ requested' = requested \cup {[from |-> n, to |-> m, link_id |-> fresh']}
    /\ net' \subseteq net \cup {LinkRequest(n, m, fresh')}
    /\ UNCHANGED <<peer_keys, channels, unresolved, answered>>

\* The initial state is well typed.
LEMMA TypeOKInit == Init => TypeOK
BY DEF Init, LinksInit, TypeOK, NoChannel, ChannelRec, Kind, NoKey

\* An LRPROOF, in each of its outcomes, keeps the tables well typed.
LEMMA TypeOKLrProof ==
    ASSUME TypeOK, NEW p \in net, NEW keep \in BOOLEAN, NEW resolved \in BOOLEAN,
           handle_lrproof(p, keep, resolved)
    PROVE  TypeOK'
<1> DEFINE n == p.dst
<1>1. n \in Nodes /\ p.src \in Nodes /\ p.eph \in 0..MaxFresh
  BY FieldTypes
<1>2. net' \subseteq Message
  BY TakeShrinks DEF handle_lrproof, TypeOK
<1>3. CASE LrProofIgnored(p, resolved)
  BY <1>2, <1>3 DEF LrProofIgnored, handle_lrproof, TypeOK, history
<1>4. CASE LrProofWithoutSecrets(p, resolved)
  <2>1. PICK k \in Nodes :
          /\ Selects(pending_channels[n], p, resolved, k)
          /\ pending_channels' = [pending_channels EXCEPT ![n] =
              [j \in Nodes |-> IF resolved /\ j = p.src THEN pending_channels[n][k]
                               ELSE IF j = k THEN 0
                               ELSE pending_channels[n][j]]]
          /\ unresolved' = IF resolved THEN unresolved
                           ELSE [unresolved EXCEPT ![n] = @ \cup {pending_channels[n][k]}]
    BY <1>4 DEF LrProofWithoutSecrets
  <2>2. [j \in Nodes |-> IF resolved /\ j = p.src THEN pending_channels[n][k]
                         ELSE IF j = k THEN 0
                         ELSE pending_channels[n][j]] \in [Nodes -> 0..MaxFresh]
    BY <1>1 DEF TypeOK
  <2>3. pending_channels' \in [Nodes -> [Nodes -> 0..MaxFresh]]
    BY <1>1, <2>1, <2>2 DEF TypeOK
  <2>4. pending_channels[n][k] \in Eph
    BY <1>1, <2>1, SelectedIsPending, PendingType
  <2>5. unresolved' \in [Nodes -> SUBSET Eph]
    BY <1>1, <2>1, <2>4 DEF TypeOK
  <2> QED
    BY <1>2, <1>4, <2>3, <2>5 DEF LrProofWithoutSecrets, handle_lrproof, TypeOK, history
<1>7. CASE LrProofUnresolved(p, resolved)
  <2>1. p.link_id \in 0..MaxFresh
    BY FieldTypes
  <2>2. CASE ~resolved
    BY <1>2, <1>7, <2>2 DEF LrProofUnresolved, handle_lrproof, TypeOK, history
  <2>3. CASE resolved
    <3>1. /\ pending_channels' = [pending_channels EXCEPT ![n][p.src] = p.link_id]
          /\ unresolved' = [unresolved EXCEPT ![n] = @ \ {p.link_id}]
      BY <1>7, <2>3 DEF LrProofUnresolved
    <3>2. pending_channels' \in [Nodes -> [Nodes -> 0..MaxFresh]]
      BY <1>1, <2>1, <3>1 DEF TypeOK
    <3>3. unresolved' \in [Nodes -> SUBSET Eph]
      BY <1>1, <3>1 DEF TypeOK
    <3> QED
      BY <1>2, <1>7, <3>2, <3>3 DEF LrProofUnresolved, handle_lrproof, TypeOK, history
  <2> QED
    BY <2>2, <2>3
<1>5. CASE LrProofUnknownKey(p, resolved)
  <2>1. pending_links' \in [Nodes -> [Nodes -> 0..MaxFresh]]
    BY <1>1, <1>5 DEF LrProofUnknownKey, TypeOK
  <2> QED
    BY <1>2, <1>5, <2>1 DEF LrProofUnknownKey, handle_lrproof, TypeOK, history
<1>6. CASE LrProofChecked(p, resolved)
  <2>1. PICK k \in Nodes, j \in Nodes :
            /\ pending_channels' = [pending_channels EXCEPT ![n][k] = 0]
            /\ pending_links' = [pending_links EXCEPT ![n][j] = 0]
            /\ IF SignatureVerifies(p, k, pending_links[n][j])
                 THEN channels' = [channels EXCEPT ![n][k] =
                         [kind |-> "initiator", link_id |-> pending_channels[n][k],
                          key |-> <<pending_links[n][j], p.eph>>]]
                 ELSE UNCHANGED channels
    BY <1>6 DEF LrProofChecked
  <2>2. /\ pending_channels' \in [Nodes -> [Nodes -> 0..MaxFresh]]
        /\ pending_links' \in [Nodes -> [Nodes -> 0..MaxFresh]]
    BY <1>1, <2>1 DEF TypeOK
  <2>3. [kind |-> "initiator", link_id |-> pending_channels[n][k],
         key |-> <<pending_links[n][j], p.eph>>] \in ChannelRec
    BY <1>1 DEF TypeOK, ChannelRec, Kind
  <2>4. channels' \in [Nodes -> [Nodes -> ChannelRec]]
    <3>1. CASE SignatureVerifies(p, k, pending_links[n][j])
      <4> DEFINE c == [kind |-> "initiator", link_id |-> pending_channels[n][k],
                       key |-> <<pending_links[n][j], p.eph>>]
      <4>1. channels' = [channels EXCEPT ![n][k] = c]
        BY <2>1, <3>1
      <4>2. c \in ChannelRec
        BY <2>3
      <4> HIDE DEF c
      <4> QED
        BY <1>1, <4>1, <4>2, ChannelsType
    <3>2. CASE ~SignatureVerifies(p, k, pending_links[n][j])
      BY <2>1, <3>2 DEF TypeOK
    <3> QED
      BY <3>1, <3>2
  <2>5. UNCHANGED unresolved
    BY <1>6 DEF LrProofChecked
  <2> QED
    BY <1>2, <2>2, <2>4, <2>5 DEF handle_lrproof, TypeOK, history
<1> QED
  BY <1>3, <1>4, <1>5, <1>6, <1>7 DEF handle_lrproof

\* Beginning a handshake keeps the state well typed.
LEMMA BeginsTyped ==
    ASSUME TypeOK, NEW n \in Nodes, NEW m \in Nodes, Begins(n, m)
    PROVE  TypeOK'
<1>1. fresh' \in 0..MaxFresh /\ fresh' \in Eph
  BY FreshType DEF Begins
<1>2. LinkRequest(n, m, fresh') \in Message
  BY <1>1, BuiltAreMessages
<1>3. [from |-> n, to |-> m, link_id |-> fresh'] \in Request
  BY <1>1 DEF Request
<1> QED
  BY <1>1, <1>2, <1>3 DEF Begins, TypeOK

\* Every step of every daemon, of the timeouts and of the medium keeps the state well typed.
LEMMA TypeOKNext == TypeOK /\ [Next]_vars => TypeOK'
<1> SUFFICES ASSUME TypeOK, [Next]_vars PROVE TypeOK'
  OBVIOUS
<1>1. ASSUME NEW n \in Nodes, NEW m \in Nodes, register_peer(n, m)
      PROVE  TypeOK'
  BY <1>1 DEF register_peer, TypeOK, history
<1>2. ASSUME NEW n \in Initiators, NEW m \in Nodes, connect(n, m)
      PROVE  TypeOK'
  BY <1>2, BeginsTyped DEF connect, Begins
<1>3. ASSUME NEW n \in Legacy, NEW m \in Nodes, establish(n, m)
      PROVE  TypeOK'
  <2>1. LinkProof(n, m) \in Message
    BY BuiltAreMessages
  <2> QED
    BY <1>3, <2>1 DEF establish, TypeOK, history
<1>4. ASSUME NEW p \in net, NEW keep \in BOOLEAN, handle_linkrequest(p, keep)
      PROVE  TypeOK'
  <2> DEFINE n == p.dst
             m == p.src
  <2>1. n \in Nodes /\ m \in Nodes /\ p.link_id \in 0..MaxFresh /\ p.eph \in 0..MaxFresh
    BY FieldTypes
  <2>2. Take(p, keep) \subseteq net
    BY TakeShrinks
  <2>3. CASE m \notin peer_keys[n]
    BY <1>4, <2>2, <2>3 DEF handle_linkrequest, TypeOK
  <2>4. CASE m \in peer_keys[n]
    <3>1. fresh' \in 0..MaxFresh /\ fresh' \in Eph
      BY <1>4, <2>4, FreshType DEF handle_linkrequest
    <3>2. ResponderChannel(p, fresh') \in ChannelRec
      BY <2>1, <3>1 DEF ResponderChannel, ChannelRec, Kind
    <3>3. LrProof(n, m, p.link_id, fresh') \in Message
      BY <2>1, <3>1, BuiltAreMessages
    <3>4. [by |-> n, to |-> m, link_id |-> p.link_id, eph |-> fresh'] \in Answer
      BY <2>1, <3>1 DEF Answer
    <3>5. channels' \in [Nodes -> [Nodes -> ChannelRec]]
      <4>1. channels' = [channels EXCEPT ![n][m] = ResponderChannel(p, fresh')]
        BY <1>4, <2>4 DEF handle_linkrequest
      <4> QED
        BY <2>1, <3>2, <4>1, ChannelsType
    <3>6. net' \subseteq Message
      BY <1>4, <2>2, <2>4, <3>3 DEF handle_linkrequest, TypeOK
    <3> QED
      BY <1>4, <2>4, <3>1, <3>4, <3>5, <3>6 DEF handle_linkrequest, TypeOK
  <2> QED
    BY <2>3, <2>4
<1>5. ASSUME NEW p \in net, NEW keep \in BOOLEAN, handle_linkproof(p, keep)
      PROVE  TypeOK'
  <2> DEFINE c == [kind |-> "legacy", link_id |-> 0, key |-> NoKey]
  <2>1. p.dst \in Nodes /\ p.src \in Nodes
    BY FieldTypes
  <2>2. c \in ChannelRec
    BY DEF ChannelRec, Kind, NoKey
  <2>3. LrProof(p.dst, p.src, 0, 0) \in Message
    BY <2>1, BuiltAreMessages
  <2>4. net' \subseteq Message
    <3>1. \/ net' = Take(p, keep) \cup {LrProof(p.dst, p.src, 0, 0)}
          \/ net' = Take(p, keep)
      BY <1>5 DEF handle_linkproof
    <3> QED
      BY <2>3, <3>1, TakeShrinks DEF TypeOK
  <2>5. channels' = [channels EXCEPT ![p.dst][p.src] = c] \/ channels' = channels
    <3>1. CASE p.src \in peer_keys[p.dst]
      BY <1>5, <3>1 DEF handle_linkproof
    <3>2. CASE p.src \notin peer_keys[p.dst]
      BY <1>5, <3>2 DEF handle_linkproof
    <3> QED
      BY <3>1, <3>2
  <2> HIDE DEF c
  <2>6. channels' \in [Nodes -> [Nodes -> ChannelRec]]
    <3>1. CASE channels' = [channels EXCEPT ![p.dst][p.src] = c]
      BY <2>1, <2>2, <3>1, ChannelsType
    <3>2. CASE channels' = channels
      BY <3>2 DEF TypeOK
    <3> QED
      BY <2>5, <3>1, <3>2
  <2> QED
    BY <1>5, <2>4, <2>6 DEF handle_linkproof, TypeOK, history
<1>6. ASSUME NEW n \in Nodes, NEW m \in Nodes, remove_stale(n, m)
      PROVE  TypeOK'
  <2>1. NoChannel \in ChannelRec
    BY DEF NoChannel, ChannelRec, Kind, NoKey
  <2> QED
    BY <1>6, <2>1 DEF remove_stale, TypeOK, history
<1>7. ASSUME NEW n \in Nodes, restart(n)
      PROVE  TypeOK'
  <2>1. NoChannel \in ChannelRec
    BY DEF NoChannel, ChannelRec, Kind, NoKey
  <2> QED
    BY <1>7, <2>1 DEF restart, TypeOK, history
<1>8. ASSUME NEW p \in net, Lose(p)
      PROVE  TypeOK'
  BY <1>8 DEF Lose, TypeOK, history
<1>9. CASE UNCHANGED vars
  BY <1>9 DEF vars, TypeOK
<1>10. ASSUME NEW p \in net, Receive(p)
       PROVE  TypeOK'
  <2>1. PICK keep \in MayKeep :
            \/ handle_linkrequest(p, keep)
            \/ handle_linkproof(p, keep)
            \/ \E resolved \in BOOLEAN : handle_lrproof(p, keep, resolved)
    BY <1>10 DEF Receive
  <2>2. keep \in BOOLEAN
    BY DEF MayKeep
  <2> QED
    BY <1>4, <1>5, <2>1, <2>2, TypeOKLrProof
<1> QED
  BY <1>1, <1>2, <1>3, <1>6, <1>7, <1>8, <1>9, <1>10 DEF Next

\* Type correctness of the handshake state, for every value of the constants.
THEOREM HandshakeTypeCorrect == Spec => []TypeOK
BY TypeOKInit, TypeOKNext, PTL DEF Spec

-----------------------------------------------------------------------------
(* Authentication *)

\* The initial state satisfies the inductive invariant.
LEMMA AuthInvInit == Init => AuthInv
BY DEF Init, LinksInit, AuthInv, RequestsUnique, PendingRequested, PacketsGenuine, AnswersRequested,
       Authenticated, NoChannel

\* Dropping pending entries keeps the rest of them requested and paired.
LEMMA PendingShrinks ==
    ASSUME PendingRequested, UNCHANGED requested,
           \A n, m \in Nodes :
              /\ pending_channels'[n][m] \in {0, pending_channels[n][m]}
              /\ pending_links'[n][m] \in {0, pending_links[n][m]}
    PROVE  PendingRequested'
<1> SUFFICES ASSUME NEW n \in Nodes, NEW m \in Nodes
             PROVE  /\ pending_channels'[n][m] # 0 =>
                          [from |-> n, to |-> m, link_id |-> pending_channels'[n][m]] \in requested
                    /\ pending_links'[n][m] # 0 =>
                          [from |-> n, to |-> m, link_id |-> pending_links'[n][m]] \in requested
                    /\ pending_channels'[n][m] # 0 /\ pending_links'[n][m] # 0 =>
                          pending_channels'[n][m] = pending_links'[n][m]
  BY DEF PendingRequested
<1>1. /\ pending_channels'[n][m] = 0 \/ pending_channels'[n][m] = pending_channels[n][m]
      /\ pending_links'[n][m] = 0 \/ pending_links'[n][m] = pending_links[n][m]
  OBVIOUS
<1> QED
  BY <1>1 DEF PendingRequested

\* Steps that add no request, answer, packet or pending entry, and whose only effect on the
\* channels is to drop some, keep the invariant.
LEMMA AuthInvShrinks ==
    ASSUME TypeOK, AuthInv,
           UNCHANGED <<fresh, requested, answered>>,
           net' \subseteq net,
           \A n, m \in Nodes :
              /\ pending_channels'[n][m] \in {0, pending_channels[n][m]}
              /\ pending_links'[n][m] \in {0, pending_links[n][m]}
              /\ channels'[n][m] = channels[n][m] \/ channels'[n][m].kind # "initiator"
    PROVE  AuthInv'
<1>1. RequestsUnique' /\ AnswersRequested'
  BY DEF AuthInv, RequestsUnique, AnswersRequested
<1>2. PendingRequested'
  BY PendingShrinks DEF AuthInv
<1>3. PacketsGenuine'
  BY DEF AuthInv, PacketsGenuine
<1>4. Authenticated'
  BY DEF AuthInv, Authenticated
<1> QED
  BY <1>1, <1>2, <1>3, <1>4 DEF AuthInv

\* An LRPROOF that names the link_id of a pending channel comes from that channel's peer.
LEMMA AnswererIsPending ==
    ASSUME TypeOK, AuthInv, NEW p \in net, p.type = "LRPROOF", NEW k \in Nodes,
           pending_channels[p.dst][k] # 0, pending_channels[p.dst][k] = p.link_id
    PROVE  k = p.src
<1>1. p.dst \in Nodes
  BY FieldTypes
<1>2. [by |-> p.src, to |-> p.dst, link_id |-> p.link_id, eph |-> p.eph] \in answered
  BY DEF AuthInv, PacketsGenuine
<1>3. [from |-> p.dst, to |-> p.src, link_id |-> p.link_id] \in requested
  BY <1>2 DEF AuthInv, AnswersRequested
<1>4. [from |-> p.dst, to |-> k, link_id |-> p.link_id] \in requested
  BY <1>1 DEF AuthInv, PendingRequested
<1>5. [from |-> p.dst, to |-> p.src, link_id |-> p.link_id]
        = [from |-> p.dst, to |-> k, link_id |-> p.link_id]
  BY <1>3, <1>4 DEF AuthInv, RequestsUnique
<1> QED
  BY <1>5

\* An LRPROOF whose signature verifies against peer k and the secrets filed under j was made
\* by k for this initiator and this link_id, so j is k and both pending entries are of the
\* attempt it answers.
LEMMA VerifiedAnswersPending ==
    ASSUME TypeOK, AuthInv, NEW p \in net, p.type = "LRPROOF",
           NEW k \in Nodes, NEW j \in Nodes,
           pending_channels[p.dst][k] # 0, pending_links[p.dst][j] # 0,
           SignatureVerifies(p, k, pending_links[p.dst][j])
    PROVE  /\ pending_channels[p.dst][k] = pending_links[p.dst][j]
           /\ [by |-> k, to |-> p.dst, link_id |-> pending_channels[p.dst][k], eph |-> p.eph]
                  \in answered
<1> DEFINE n == p.dst
           e == pending_links[n][j]
           a == [by |-> k, to |-> n, link_id |-> e, eph |-> p.eph]
<1>1. n \in Nodes
  BY FieldTypes
<1>2. p.src = k /\ p.eph # 0 /\ p.link_id = e
  BY DEF SignatureVerifies
<1>3. a \in answered
  BY <1>2 DEF AuthInv, PacketsGenuine
<1>4. [from |-> n, to |-> k, link_id |-> e] \in requested
  BY <1>3 DEF AuthInv, AnswersRequested
<1>5. [from |-> n, to |-> j, link_id |-> e] \in requested
  BY <1>1 DEF AuthInv, PendingRequested
<1>6. j = k
  <2>1. \A r, s \in requested : r.link_id = s.link_id => r = s
    BY DEF AuthInv, RequestsUnique
  <2>2. [from |-> n, to |-> k, link_id |-> e] = [from |-> n, to |-> j, link_id |-> e]
    BY <1>4, <1>5, <2>1
  <2> QED
    BY <2>2
<1>7. pending_channels[n][k] = e
  BY <1>1, <1>6 DEF AuthInv, PendingRequested
<1> QED
  BY <1>3, <1>7

\* The link_id of an LRPROOF that names a request is that of a request to its sender.
LEMMA AnswerIsOfRequest ==
    ASSUME AuthInv, NEW p \in net, p.type = "LRPROOF", p.link_id # 0
    PROVE  [from |-> p.dst, to |-> p.src, link_id |-> p.link_id] \in requested
<1>1. [by |-> p.src, to |-> p.dst, link_id |-> p.link_id, eph |-> p.eph] \in answered
  BY DEF AuthInv, PacketsGenuine
<1> QED
  BY <1>1 DEF AuthInv, AnswersRequested

\* A pending channel that was put back under its link_id is the sender's again: it has no
\* secrets there.
LEMMA ReturnsToItsPeer ==
    ASSUME TypeOK, AuthInv, NEW p \in net, NEW keep \in BOOLEAN, NEW resolved \in BOOLEAN,
           handle_lrproof(p, keep, resolved), LrProofUnresolved(p, resolved)
    PROVE  /\ UNCHANGED <<channels, pending_links>>
           /\ p.link_id # 0
           /\ [from |-> p.dst, to |-> p.src, link_id |-> p.link_id] \in requested
           /\ resolved => /\ pending_channels[p.dst][p.src] = 0
                          /\ pending_links[p.dst][p.src] = 0
           /\ \A a, b \in Nodes :
                 pending_channels'[a][b] = IF resolved /\ a = p.dst /\ b = p.src THEN p.link_id
                                           ELSE pending_channels[a][b]
<1>1. p.dst \in Nodes /\ p.src \in Nodes
  BY FieldTypes
<1>2. p.link_id \in Eph
  BY <1>1 DEF LrProofUnresolved, SelectsUnresolved, TypeOK
<1>3. p.link_id # 0
  BY <1>2 DEF Eph
<1>4. [from |-> p.dst, to |-> p.src, link_id |-> p.link_id] \in requested
  BY <1>3, AnswerIsOfRequest DEF handle_lrproof
<1>5. resolved => pending_channels[p.dst][p.src] = 0 /\ pending_links[p.dst][p.src] = 0
  <2>1. resolved => pending_channels[p.dst][p.src] = 0
    BY DEF LrProofUnresolved, SelectsUnresolved
  <2>2. ASSUME resolved, pending_links[p.dst][p.src] # 0
        PROVE  Selects(pending_links[p.dst], p, resolved, p.src)
    BY <2>2 DEF Selects
  <2> QED
    BY <1>1, <2>1, <2>2 DEF LrProofUnresolved
<1>6. \A a, b \in Nodes :
         pending_channels'[a][b] = IF resolved /\ a = p.dst /\ b = p.src THEN p.link_id
                                   ELSE pending_channels[a][b]
  <2>1. CASE ~resolved
    BY <2>1 DEF LrProofUnresolved
  <2>2. CASE resolved
    <3>1. pending_channels' = [pending_channels EXCEPT ![p.dst][p.src] = p.link_id]
      BY <2>2 DEF LrProofUnresolved
    <3> QED
      BY <1>1, <2>2, <3>1 DEF TypeOK
  <2> QED
    BY <2>1, <2>2
<1>7. UNCHANGED <<channels, pending_links>>
  BY DEF LrProofUnresolved
<1> QED
  BY <1>3, <1>4, <1>5, <1>6, <1>7

\* An LRPROOF keeps the invariant: the only channel it establishes is the verified one.
LEMMA AuthInvLrProof ==
    ASSUME TypeOK, AuthInv, NEW p \in net, NEW keep \in BOOLEAN, NEW resolved \in BOOLEAN,
           handle_lrproof(p, keep, resolved)
    PROVE  AuthInv'
<1> DEFINE n == p.dst
<1>1. n \in Nodes /\ p.src \in Nodes
  BY FieldTypes
<1>2. net' \subseteq net /\ UNCHANGED <<fresh, requested, answered>>
  BY TakeShrinks DEF handle_lrproof, history
<1>3. CASE LrProofIgnored(p, resolved)
  BY <1>2, <1>3, AuthInvShrinks DEF LrProofIgnored
<1>4. CASE LrProofWithoutSecrets(p, resolved)
  <2>1. PICK k \in Nodes :
            /\ Selects(pending_channels[n], p, resolved, k)
            /\ ~ \E j \in Nodes : Selects(pending_links[n], p, resolved, j)
            /\ pending_channels' = [pending_channels EXCEPT ![n] =
                  [j \in Nodes |-> IF resolved /\ j = p.src THEN pending_channels[n][k]
                                   ELSE IF j = k THEN 0
                                   ELSE pending_channels[n][j]]]
            /\ UNCHANGED <<channels, pending_links>>
    BY <1>4 DEF LrProofWithoutSecrets
  <2>2. pending_channels[n][k] # 0
    BY <2>1, SelectedIsPending
  <2>3. resolved => k = p.src
    <3>1. CASE pending_channels[n][p.src] # 0
      BY <2>1, <3>1 DEF Selects
    <3>2. CASE pending_channels[n][p.src] = 0
      <4>1. pending_channels[n][k] = p.link_id
        BY <2>1, <3>2 DEF Selects
      <4> QED
        BY <2>2, <4>1, AnswererIsPending DEF handle_lrproof
    <3> QED
      BY <3>1, <3>2
  <2>4. \A a, b \in Nodes : pending_channels'[a][b] \in {0, pending_channels[a][b]}
    <3> SUFFICES ASSUME NEW a \in Nodes, NEW b \in Nodes
                 PROVE  pending_channels'[a][b] \in {0, pending_channels[a][b]}
      OBVIOUS
    <3>1. CASE a # n
      BY <1>1, <2>1, <3>1 DEF TypeOK
    <3>2. CASE a = n
      <4>1. pending_channels'[n] =
                [j \in Nodes |-> IF resolved /\ j = p.src THEN pending_channels[n][k]
                                 ELSE IF j = k THEN 0
                                 ELSE pending_channels[n][j]]
        BY <1>1, <2>1 DEF TypeOK
      <4> QED
        BY <2>3, <3>2, <4>1
    <3> QED
      BY <3>1, <3>2
  <2> QED
    BY <1>2, <2>1, <2>4, AuthInvShrinks
<1>5. CASE LrProofUnknownKey(p, resolved)
  <2>1. PICK j \in Nodes : /\ pending_links' = [pending_links EXCEPT ![n][j] = 0]
                           /\ UNCHANGED <<channels, pending_channels>>
    BY <1>5 DEF LrProofUnknownKey
  <2>2. \A a, b \in Nodes : pending_links'[a][b] \in {0, pending_links[a][b]}
    BY <1>1, <2>1 DEF TypeOK
  <2> QED
    BY <1>2, <2>1, <2>2, AuthInvShrinks
<1>6. CASE LrProofChecked(p, resolved)
  <2>1. PICK k \in Nodes, j \in Nodes :
            /\ Selects(pending_channels[n], p, resolved, k)
            /\ Selects(pending_links[n], p, resolved, j)
            /\ pending_channels' = [pending_channels EXCEPT ![n][k] = 0]
            /\ pending_links' = [pending_links EXCEPT ![n][j] = 0]
            /\ IF SignatureVerifies(p, k, pending_links[n][j])
                 THEN channels' = [channels EXCEPT ![n][k] =
                         [kind |-> "initiator", link_id |-> pending_channels[n][k],
                          key |-> <<pending_links[n][j], p.eph>>]]
                 ELSE UNCHANGED channels
    BY <1>6 DEF LrProofChecked
  <2>2. \A a, b \in Nodes : /\ pending_channels'[a][b] \in {0, pending_channels[a][b]}
                            /\ pending_links'[a][b] \in {0, pending_links[a][b]}
    BY <1>1, <2>1 DEF TypeOK
  <2>3. CASE ~SignatureVerifies(p, k, pending_links[n][j])
    BY <1>2, <2>1, <2>2, <2>3, AuthInvShrinks
  <2>4. CASE SignatureVerifies(p, k, pending_links[n][j])
    <3> DEFINE e == pending_links[n][j]
               c == [kind |-> "initiator", link_id |-> pending_channels[n][k],
                     key |-> <<e, p.eph>>]
    <3>1. pending_channels[n][k] # 0 /\ pending_links[n][j] # 0
      BY <2>1, SelectedIsPending
    <3>2. /\ pending_channels[n][k] = e
          /\ [by |-> k, to |-> n, link_id |-> pending_channels[n][k], eph |-> p.eph] \in answered
      BY <2>4, <3>1, VerifiedAnswersPending DEF handle_lrproof
    <3>3. channels' = [channels EXCEPT ![n][k] = c]
      BY <2>1, <2>4
    <3>4. /\ c.key[1] = c.link_id
          /\ [by |-> k, to |-> n, link_id |-> c.link_id, eph |-> c.key[2]] \in answered
      BY <3>2
    <3> HIDE DEF c
    <3>5. Authenticated'
      <4> SUFFICES ASSUME NEW a \in Nodes, NEW b \in Nodes, channels'[a][b].kind = "initiator"
                   PROVE  /\ channels'[a][b].key[1] = channels'[a][b].link_id
                          /\ [by |-> b, to |-> a, link_id |-> channels'[a][b].link_id,
                              eph |-> channels'[a][b].key[2]] \in answered'
        BY DEF Authenticated
      <4>1. channels'[a][b] = IF a = n /\ b = k THEN c ELSE channels[a][b]
        BY <1>1, <3>3 DEF TypeOK
      <4>2. CASE a = n /\ b = k
        BY <1>2, <3>4, <4>1, <4>2
      <4>3. CASE ~(a = n /\ b = k)
        BY <1>2, <4>1, <4>3 DEF AuthInv, Authenticated
      <4> QED
        BY <4>2, <4>3
    <3>6. PendingRequested'
      BY <1>2, <2>2, PendingShrinks DEF AuthInv
    <3>7. RequestsUnique' /\ AnswersRequested' /\ PacketsGenuine'
      BY <1>2 DEF AuthInv, RequestsUnique, AnswersRequested, PacketsGenuine
    <3> QED
      BY <3>5, <3>6, <3>7 DEF AuthInv
  <2> QED
    BY <2>3, <2>4
<1>7. CASE LrProofUnresolved(p, resolved)
  <2>1. PendingRequested'
    <3> SUFFICES ASSUME NEW a \in Nodes, NEW b \in Nodes
                 PROVE  /\ pending_channels'[a][b] # 0 =>
                              [from |-> a, to |-> b, link_id |-> pending_channels'[a][b]]
                                  \in requested
                        /\ pending_links'[a][b] # 0 =>
                              [from |-> a, to |-> b, link_id |-> pending_links'[a][b]]
                                  \in requested
                        /\ pending_channels'[a][b] # 0 /\ pending_links'[a][b] # 0 =>
                              pending_channels'[a][b] = pending_links'[a][b]
      BY <1>2 DEF PendingRequested
    <3>1. CASE resolved /\ a = p.dst /\ b = p.src
      BY <1>7, <3>1, ReturnsToItsPeer
    <3>2. CASE ~(resolved /\ a = p.dst /\ b = p.src)
      <4>1. pending_channels'[a][b] = pending_channels[a][b] /\ pending_links' = pending_links
        BY <1>7, <3>2, ReturnsToItsPeer
      <4> QED
        BY <4>1 DEF AuthInv, PendingRequested
    <3> QED
      BY <3>1, <3>2
  <2>2. RequestsUnique' /\ AnswersRequested' /\ PacketsGenuine'
    BY <1>2 DEF AuthInv, RequestsUnique, AnswersRequested, PacketsGenuine
  <2>3. UNCHANGED <<channels, answered>>
    BY <1>2, <1>7, ReturnsToItsPeer
  <2>4. Authenticated'
    BY <2>3 DEF AuthInv, Authenticated
  <2> QED
    BY <2>1, <2>2, <2>4 DEF AuthInv
<1> QED
  BY <1>3, <1>4, <1>5, <1>6, <1>7 DEF handle_lrproof

\* A step that puts at most one packet in flight, a genuine one, and forgets no request and
\* no answer, keeps all packets genuine.
LEMMA GenuineGrows ==
    ASSUME PacketsGenuine, requested \subseteq requested', answered \subseteq answered',
           NEW q, \A x \in net' : x \in net \/ x = q,
           q.type = "LINKREQUEST" =>
              /\ q.eph = q.link_id
              /\ [from |-> q.src, to |-> q.dst, link_id |-> q.link_id] \in requested',
           q.type = "LRPROOF" /\ (q.eph # 0 \/ q.link_id # 0) =>
              [by |-> q.src, to |-> q.dst, link_id |-> q.link_id, eph |-> q.eph] \in answered'
    PROVE  PacketsGenuine'
<1> SUFFICES ASSUME NEW x \in net'
             PROVE  /\ x.type = "LINKREQUEST" =>
                          /\ x.eph = x.link_id
                          /\ [from |-> x.src, to |-> x.dst, link_id |-> x.link_id] \in requested'
                    /\ x.type = "LRPROOF" /\ (x.eph # 0 \/ x.link_id # 0) =>
                          [by |-> x.src, to |-> x.dst, link_id |-> x.link_id, eph |-> x.eph]
                              \in answered'
  BY DEF PacketsGenuine
<1>1. CASE x \in net
  BY <1>1 DEF PacketsGenuine
<1>2. CASE x = q
  BY <1>2
<1> QED
  BY <1>1, <1>2

\* Beginning a handshake keeps the invariant: its link_id is new.
LEMMA BeginsAuth ==
    ASSUME TypeOK, AuthInv, NEW n \in Nodes, NEW m \in Nodes, Begins(n, m)
    PROVE  AuthInv'
<1> DEFINE r == [from |-> n, to |-> m, link_id |-> fresh']
<1>1. n \in Nodes /\ fresh' = fresh + 1 /\ fresh \in Nat /\ fresh' # 0
  BY FreshType DEF Begins, TypeOK
<1>2. requested' = requested \cup {r} /\ answered' = answered /\ channels' = channels
  BY DEF Begins
<1>3. \A s \in requested : s.link_id \in Nat /\ s.link_id <= fresh
  BY DEF AuthInv, RequestsUnique, TypeOK, Request, Eph
<1>4. RequestsUnique'
  <2>1. \A s \in requested' : s.link_id <= fresh'
    BY <1>1, <1>2, <1>3
  <2>2. \A s, t \in requested' : s.link_id = t.link_id => s = t
    <3> SUFFICES ASSUME NEW s \in requested', NEW t \in requested', s.link_id = t.link_id
                 PROVE  s = t
      OBVIOUS
    <3>1. CASE s \in requested /\ t \in requested
      BY <3>1 DEF AuthInv, RequestsUnique
    <3>2. CASE s = r /\ t = r
      BY <3>2
    <3>3. CASE s = r /\ t \in requested
      BY <1>1, <1>3, <3>3
    <3>4. CASE s \in requested /\ t = r
      BY <1>1, <1>3, <3>4
    <3> QED
      BY <1>2, <3>1, <3>2, <3>3, <3>4
  <2> QED
    BY <2>1, <2>2 DEF RequestsUnique
<1>5. PendingRequested'
  <2> SUFFICES ASSUME NEW a \in Nodes, NEW b \in Nodes
               PROVE  /\ pending_channels'[a][b] # 0 =>
                            [from |-> a, to |-> b, link_id |-> pending_channels'[a][b]]
                                \in requested'
                      /\ pending_links'[a][b] # 0 =>
                            [from |-> a, to |-> b, link_id |-> pending_links'[a][b]]
                                \in requested'
                      /\ pending_channels'[a][b] # 0 /\ pending_links'[a][b] # 0 =>
                            pending_channels'[a][b] = pending_links'[a][b]
    BY DEF PendingRequested
  <2>1. CASE a = n /\ b = m
    <3>1. pending_channels'[a][b] = fresh' /\ pending_links'[a][b] = fresh'
      BY <1>1, <2>1 DEF Begins, TypeOK
    <3> QED
      BY <1>2, <2>1, <3>1
  <2>2. CASE ~(a = n /\ b = m)
    <3>1. /\ pending_channels'[a][b] = pending_channels[a][b]
          /\ pending_links'[a][b] = pending_links[a][b]
      BY <1>1, <2>2 DEF Begins, TypeOK
    <3> QED
      BY <1>2, <3>1 DEF AuthInv, PendingRequested
  <2> QED
    BY <2>1, <2>2
<1>6. PacketsGenuine'
  <2>1. \A x \in net' : x \in net \/ x = LinkRequest(n, m, fresh')
    BY DEF Begins
  <2>2. /\ LinkRequest(n, m, fresh').type = "LINKREQUEST"
        /\ LinkRequest(n, m, fresh').eph = fresh'
        /\ LinkRequest(n, m, fresh').link_id = fresh'
        /\ LinkRequest(n, m, fresh').src = n
        /\ LinkRequest(n, m, fresh').dst = m
    BY DEF LinkRequest
  <2> QED
    BY <1>2, <2>1, <2>2, GenuineGrows DEF AuthInv
<1>7. AnswersRequested'
  BY <1>2 DEF AuthInv, AnswersRequested
<1>8. Authenticated'
  BY <1>2 DEF AuthInv, Authenticated
<1> QED
  BY <1>4, <1>5, <1>6, <1>7, <1>8 DEF AuthInv

\* Every step keeps the inductive invariant.
LEMMA AuthInvNext == TypeOK /\ AuthInv /\ [Next]_vars => AuthInv'
<1> SUFFICES ASSUME TypeOK, AuthInv, [Next]_vars PROVE AuthInv'
  OBVIOUS
<1>1. ASSUME NEW n \in Nodes, NEW m \in Nodes, register_peer(n, m)
      PROVE  AuthInv'
  BY <1>1, AuthInvShrinks DEF register_peer, history
<1>2. ASSUME NEW n \in Initiators, NEW m \in Nodes, connect(n, m)
      PROVE  AuthInv'
  BY <1>2, BeginsAuth DEF connect, Begins
<1>3. ASSUME NEW n \in Legacy, NEW m \in Nodes, establish(n, m)
      PROVE  AuthInv'
  <2>1. PacketsGenuine'
    <3>1. net' = net \cup {LinkProof(n, m)} /\ UNCHANGED <<requested, answered>>
      BY <1>3 DEF establish, history
    <3>2. LinkProof(n, m).type = "LINKPROOF"
      BY DEF LinkProof
    <3> QED
      BY <3>1, <3>2, GenuineGrows DEF AuthInv
  <2> QED
    BY <1>3, <2>1 DEF establish, history, AuthInv, RequestsUnique, PendingRequested,
                      AnswersRequested, Authenticated
<1>4. ASSUME NEW p \in net, NEW keep \in BOOLEAN, handle_linkrequest(p, keep)
      PROVE  AuthInv'
  <2> DEFINE n == p.dst
             m == p.src
             a == [by |-> n, to |-> m, link_id |-> p.link_id, eph |-> fresh']
  <2>1. n \in Nodes /\ m \in Nodes
    BY FieldTypes
  <2>2. /\ requested' = requested
        /\ pending_channels' = pending_channels
        /\ pending_links' = pending_links
    BY <1>4 DEF handle_linkrequest
  <2>3. CASE m \notin peer_keys[n]
    <3>1. net' = Take(p, keep) /\ UNCHANGED <<channels, fresh, answered>>
      BY <1>4, <2>3 DEF handle_linkrequest
    <3> QED
      BY <2>2, <3>1, TakeShrinks, AuthInvShrinks
  <2>4. CASE m \in peer_keys[n]
    <3>1. /\ fresh < MaxFresh /\ fresh' = fresh + 1
          /\ channels' = [channels EXCEPT ![n][m] = ResponderChannel(p, fresh')]
          /\ net' = Take(p, keep) \cup {LrProof(n, m, p.link_id, fresh')}
          /\ answered' = answered \cup {a}
      BY <1>4, <2>4 DEF handle_linkrequest
    <3>2. RequestsUnique'
      <4>1. \A r \in requested : r.link_id \in Nat
        BY DEF TypeOK, Request, Eph
      <4>2. fresh \in Nat /\ fresh' = fresh + 1
        BY <3>1 DEF TypeOK
      <4> QED
        BY <2>2, <4>1, <4>2 DEF AuthInv, RequestsUnique
    <3>3. PendingRequested'
      BY <2>2 DEF AuthInv, PendingRequested
    <3>4. [from |-> m, to |-> n, link_id |-> p.link_id] \in requested
      BY <1>4 DEF handle_linkrequest, AuthInv, PacketsGenuine
    <3>5. AnswersRequested'
      <4>1. [from |-> a.to, to |-> a.by, link_id |-> a.link_id] \in requested
        BY <3>4
      <4> HIDE DEF a
      <4> QED
        BY <2>2, <3>1, <4>1 DEF AuthInv, AnswersRequested
    <3>6. PacketsGenuine'
      <4>1. /\ LrProof(n, m, p.link_id, fresh').type = "LRPROOF"
            /\ LrProof(n, m, p.link_id, fresh').src = n
            /\ LrProof(n, m, p.link_id, fresh').dst = m
            /\ LrProof(n, m, p.link_id, fresh').link_id = p.link_id
            /\ LrProof(n, m, p.link_id, fresh').eph = fresh'
        BY DEF LrProof
      <4> QED
        BY <2>2, <3>1, <4>1, TakeShrinks, GenuineGrows DEF AuthInv
    <3>7. Authenticated'
      <4> SUFFICES ASSUME NEW x \in Nodes, NEW y \in Nodes, channels'[x][y].kind = "initiator"
                   PROVE  /\ channels'[x][y].key[1] = channels'[x][y].link_id
                          /\ [by |-> y, to |-> x, link_id |-> channels'[x][y].link_id,
                              eph |-> channels'[x][y].key[2]] \in answered'
        BY DEF Authenticated
      <4>1. channels'[x][y] = IF x = n /\ y = m THEN ResponderChannel(p, fresh')
                              ELSE channels[x][y]
        BY <2>1, <3>1 DEF TypeOK
      <4>2. ResponderChannel(p, fresh').kind # "initiator"
        BY DEF ResponderChannel
      <4>3. channels'[x][y] = channels[x][y]
        BY <4>1, <4>2
      <4> QED
        BY <3>1, <4>3 DEF AuthInv, Authenticated
    <3> QED
      BY <3>2, <3>3, <3>5, <3>6, <3>7 DEF AuthInv
  <2> QED
    BY <2>3, <2>4
<1>5. ASSUME NEW p \in net, NEW keep \in BOOLEAN, handle_linkproof(p, keep)
      PROVE  AuthInv'
  <2> DEFINE n == p.dst
             m == p.src
             c == [kind |-> "legacy", link_id |-> 0, key |-> NoKey]
  <2>1. n \in Nodes /\ m \in Nodes
    BY FieldTypes
  <2>2. UNCHANGED <<pending_channels, pending_links, fresh, requested, answered>>
    BY <1>5 DEF handle_linkproof, history
  <2>3. CASE m \notin peer_keys[n]
    <3>1. net' = Take(p, keep) /\ UNCHANGED channels
      BY <1>5, <2>3 DEF handle_linkproof
    <3> QED
      BY <2>2, <3>1, TakeShrinks, AuthInvShrinks
  <2>4. CASE m \in peer_keys[n]
    <3>1. channels' = [channels EXCEPT ![n][m] = c]
      BY <1>5, <2>4 DEF handle_linkproof
    <3>2. net' = Take(p, keep) \cup {LrProof(n, m, 0, 0)}
      BY <1>5, <2>4 DEF handle_linkproof
    <3>3. c.kind # "initiator"
      OBVIOUS
    <3> HIDE DEF c
    <3>4. \A x, y \in Nodes : channels'[x][y] = channels[x][y] \/ channels'[x][y] = c
      BY <2>1, <3>1 DEF TypeOK
    <3>5. Authenticated'
      BY <2>2, <3>3, <3>4 DEF AuthInv, Authenticated
    <3>6. PacketsGenuine'
      <4>1. /\ LrProof(n, m, 0, 0).type = "LRPROOF"
            /\ LrProof(n, m, 0, 0).link_id = 0
            /\ LrProof(n, m, 0, 0).eph = 0
        BY DEF LrProof
      <4> QED
        BY <2>2, <3>2, <4>1, TakeShrinks, GenuineGrows DEF AuthInv
    <3> QED
      BY <2>2, <3>5, <3>6 DEF AuthInv, RequestsUnique, PendingRequested, AnswersRequested
  <2> QED
    BY <2>3, <2>4
<1>6. ASSUME NEW n \in Nodes, NEW m \in Nodes, remove_stale(n, m)
      PROVE  AuthInv'
  <2>1. \A x, y \in Nodes : channels'[x][y] = channels[x][y] \/ channels'[x][y].kind # "initiator"
    BY <1>6 DEF remove_stale, TypeOK, NoChannel
  <2> QED
    BY <1>6, <2>1, AuthInvShrinks DEF remove_stale, history
<1>7. ASSUME NEW n \in Nodes, restart(n)
      PROVE  AuthInv'
  <2>1. \A x, y \in Nodes :
            /\ pending_channels'[x][y] \in {0, pending_channels[x][y]}
            /\ pending_links'[x][y] \in {0, pending_links[x][y]}
    BY <1>7 DEF restart, TypeOK
  <2>2. \A x, y \in Nodes : channels'[x][y] = channels[x][y] \/ channels'[x][y].kind # "initiator"
    BY <1>7 DEF restart, TypeOK, NoChannel
  <2> QED
    BY <1>7, <2>1, <2>2, AuthInvShrinks DEF restart, history
<1>8. ASSUME NEW p \in net, Lose(p)
      PROVE  AuthInv'
  BY <1>8, AuthInvShrinks DEF Lose, history
<1>9. CASE UNCHANGED vars
  BY <1>9, AuthInvShrinks DEF vars
<1>10. ASSUME NEW p \in net, Receive(p)
       PROVE  AuthInv'
  <2>1. PICK keep \in MayKeep :
            \/ handle_linkrequest(p, keep)
            \/ handle_linkproof(p, keep)
            \/ \E resolved \in BOOLEAN : handle_lrproof(p, keep, resolved)
    BY <1>10 DEF Receive
  <2>2. keep \in BOOLEAN
    BY DEF MayKeep
  <2> QED
    BY <1>4, <1>5, <2>1, <2>2, AuthInvLrProof
<1> QED
  BY <1>1, <1>2, <1>3, <1>6, <1>7, <1>8, <1>9, <1>10 DEF Next

\* Whatever is lost, duplicated, reordered or restarted, and whoever else answers, a link that
\* handle_proof establishes is keyed with an ephemeral key that the remote signed for it.
THEOREM InitiatorIsAuthenticated == Spec => []InitiatorAuthenticated
<1>1. Init => TypeOK /\ AuthInv
  BY TypeOKInit, AuthInvInit
<1>2. TypeOK /\ AuthInv /\ [Next]_vars => (TypeOK /\ AuthInv)'
  BY TypeOKNext, AuthInvNext
<1>3. TypeOK /\ AuthInv => InitiatorAuthenticated
  BY DEF AuthInv, InitiatorAuthenticated
<1> QED
  BY <1>1, <1>2, <1>3, PTL DEF Spec

-----------------------------------------------------------------------------
(* Agreement on the key *)

\* The responder's half of the argument: a channel that handle_linkrequest established is
\* keyed with the pair that its own answer to that request signed.
ResponderAnswered ==
    \A n, m \in Nodes :
        LET c == channels[n][m] IN
        c.kind = "responder" =>
            /\ c.key[1] = c.link_id
            /\ [by |-> n, to |-> m, link_id |-> c.link_id, eph |-> c.key[2]] \in answered

\* Steps that forget no answer and make no responder's channel keep it.
LEMMA ResponderKept ==
    ASSUME ResponderAnswered, answered \subseteq answered',
           \A n, m \in Nodes :
              channels'[n][m] = channels[n][m] \/ channels'[n][m].kind # "responder"
    PROVE  ResponderAnswered'
BY DEF ResponderAnswered

\* An LRPROOF establishes the initiator's channel only.
LEMMA LrProofMakesNoResponder ==
    ASSUME TypeOK, NEW p \in net, NEW keep \in BOOLEAN, NEW resolved \in BOOLEAN,
           handle_lrproof(p, keep, resolved), NEW a \in Nodes, NEW b \in Nodes
    PROVE  channels'[a][b] = channels[a][b] \/ channels'[a][b].kind # "responder"
<1>1. CASE LrProofIgnored(p, resolved)
  BY <1>1 DEF LrProofIgnored
<1>2. CASE LrProofWithoutSecrets(p, resolved)
  BY <1>2 DEF LrProofWithoutSecrets
<1>3. CASE LrProofUnknownKey(p, resolved)
  BY <1>3 DEF LrProofUnknownKey
<1>5. CASE LrProofUnresolved(p, resolved)
  BY <1>5 DEF LrProofUnresolved
<1>4. CASE LrProofChecked(p, resolved)
  <2>1. PICK k \in Nodes, j \in Nodes :
            IF SignatureVerifies(p, k, pending_links[p.dst][j])
              THEN channels' = [channels EXCEPT ![p.dst][k] =
                      [kind |-> "initiator", link_id |-> pending_channels[p.dst][k],
                       key |-> <<pending_links[p.dst][j], p.eph>>]]
              ELSE UNCHANGED channels
    BY <1>4 DEF LrProofChecked
  <2> DEFINE c == [kind |-> "initiator", link_id |-> pending_channels[p.dst][k],
                   key |-> <<pending_links[p.dst][j], p.eph>>]
  <2>2. channels' = [channels EXCEPT ![p.dst][k] = c] \/ channels' = channels
    BY <2>1
  <2>3. c.kind # "responder"
    OBVIOUS
  <2> HIDE DEF c
  <2>4. channels'[a][b] = channels[a][b] \/ channels'[a][b] = c
    <3>1. p.dst \in Nodes
      BY FieldTypes
    <3>2. CASE channels' = channels
      BY <3>2
    <3>3. CASE channels' = [channels EXCEPT ![p.dst][k] = c]
      BY <3>1, <3>3 DEF TypeOK
    <3> QED
      BY <2>2, <3>2, <3>3
  <2> QED
    BY <2>3, <2>4
<1> QED
  BY <1>1, <1>2, <1>3, <1>4, <1>5 DEF handle_lrproof

\* Every step keeps it.
LEMMA ResponderAnsweredNext ==
    TypeOK /\ AuthInv /\ ResponderAnswered /\ [Next]_vars => ResponderAnswered'
<1> SUFFICES ASSUME TypeOK, AuthInv, ResponderAnswered, [Next]_vars PROVE ResponderAnswered'
  OBVIOUS
<1>1. ASSUME NEW n \in Nodes, NEW m \in Nodes, register_peer(n, m)
      PROVE  ResponderAnswered'
  BY <1>1, ResponderKept DEF register_peer, history
<1>2. ASSUME NEW n \in Initiators, NEW m \in Nodes, connect(n, m)
      PROVE  ResponderAnswered'
  BY <1>2, ResponderKept DEF connect
<1>3. ASSUME NEW n \in Legacy, NEW m \in Nodes, establish(n, m)
      PROVE  ResponderAnswered'
  BY <1>3, ResponderKept DEF establish, history
<1>4. ASSUME NEW p \in net, NEW keep \in BOOLEAN, handle_linkrequest(p, keep)
      PROVE  ResponderAnswered'
  <2> DEFINE n == p.dst
             m == p.src
             c == ResponderChannel(p, fresh')
  <2>1. n \in Nodes /\ m \in Nodes
    BY FieldTypes
  <2>2. CASE m \notin peer_keys[n]
    BY <1>4, <2>2, ResponderKept DEF handle_linkrequest
  <2>3. CASE m \in peer_keys[n]
    <3>1. /\ channels' = [channels EXCEPT ![n][m] = c]
          /\ answered' = answered
                \cup {[by |-> n, to |-> m, link_id |-> p.link_id, eph |-> fresh']}
      BY <1>4, <2>3 DEF handle_linkrequest
    <3>2. p.eph = p.link_id
      BY <1>4 DEF handle_linkrequest, AuthInv, PacketsGenuine
    <3>3. /\ c.key[1] = c.link_id
          /\ [by |-> n, to |-> m, link_id |-> c.link_id, eph |-> c.key[2]] \in answered'
      BY <3>1, <3>2 DEF ResponderChannel
    <3>4. answered \subseteq answered'
      BY <3>1
    <3> HIDE DEF c
    <3> SUFFICES ASSUME NEW x \in Nodes, NEW y \in Nodes, channels'[x][y].kind = "responder"
                 PROVE  /\ channels'[x][y].key[1] = channels'[x][y].link_id
                        /\ [by |-> x, to |-> y, link_id |-> channels'[x][y].link_id,
                            eph |-> channels'[x][y].key[2]] \in answered'
      BY DEF ResponderAnswered
    <3>5. channels'[x][y] = IF x = n /\ y = m THEN c ELSE channels[x][y]
      BY <2>1, <3>1 DEF TypeOK
    <3>6. CASE x = n /\ y = m
      BY <3>3, <3>5, <3>6
    <3>7. CASE ~(x = n /\ y = m)
      BY <3>4, <3>5, <3>7 DEF ResponderAnswered
    <3> QED
      BY <3>6, <3>7
  <2> QED
    BY <2>2, <2>3
<1>5. ASSUME NEW p \in net, NEW keep \in BOOLEAN, handle_linkproof(p, keep)
      PROVE  ResponderAnswered'
  <2> DEFINE c == [kind |-> "legacy", link_id |-> 0, key |-> NoKey]
  <2>1. channels' = [channels EXCEPT ![p.dst][p.src] = c] \/ channels' = channels
    BY <1>5 DEF handle_linkproof
  <2>2. c.kind # "responder"
    OBVIOUS
  <2> HIDE DEF c
  <2>3. \A x, y \in Nodes : channels'[x][y] = channels[x][y] \/ channels'[x][y].kind # "responder"
    <3>1. channels \in [Nodes -> [Nodes -> ChannelRec]]
      BY DEF TypeOK
    <3>2. CASE channels' = channels
      BY <3>2
    <3>3. CASE channels' = [channels EXCEPT ![p.dst][p.src] = c]
      <4> TAKE x, y \in Nodes
      <4>1. channels'[x][y] = IF x = p.dst /\ y = p.src THEN c ELSE channels[x][y]
        BY <3>1, <3>3
      <4> QED
        BY <2>2, <4>1
    <3> QED
      BY <2>1, <3>2, <3>3
  <2> QED
    BY <1>5, <2>3, ResponderKept DEF handle_linkproof, history
<1>6. ASSUME NEW p \in net, NEW keep \in BOOLEAN, NEW resolved \in BOOLEAN,
             handle_lrproof(p, keep, resolved)
      PROVE  ResponderAnswered'
  <2>1. \A x, y \in Nodes : channels'[x][y] = channels[x][y] \/ channels'[x][y].kind # "responder"
    BY <1>6, LrProofMakesNoResponder
  <2> QED
    BY <1>6, <2>1, ResponderKept DEF handle_lrproof, history
<1>7. ASSUME NEW n \in Nodes, NEW m \in Nodes, remove_stale(n, m)
      PROVE  ResponderAnswered'
  <2>1. \A x, y \in Nodes : channels'[x][y] = channels[x][y] \/ channels'[x][y].kind # "responder"
    BY <1>7 DEF remove_stale, TypeOK, NoChannel
  <2> QED
    BY <1>7, <2>1, ResponderKept DEF remove_stale, history
<1>8. ASSUME NEW n \in Nodes, restart(n)
      PROVE  ResponderAnswered'
  <2>1. \A x, y \in Nodes : channels'[x][y] = channels[x][y] \/ channels'[x][y].kind # "responder"
    BY <1>8 DEF restart, TypeOK, NoChannel
  <2> QED
    BY <1>8, <2>1, ResponderKept DEF restart, history
<1>9. ASSUME NEW p \in net, Lose(p)
      PROVE  ResponderAnswered'
  BY <1>9, ResponderKept DEF Lose, history
<1>10. CASE UNCHANGED vars
  BY <1>10, ResponderKept DEF vars
<1>11. ASSUME NEW p \in net, Receive(p)
       PROVE  ResponderAnswered'
  <2>1. PICK keep \in MayKeep :
            \/ handle_linkrequest(p, keep)
            \/ handle_linkproof(p, keep)
            \/ \E resolved \in BOOLEAN : handle_lrproof(p, keep, resolved)
    BY <1>11 DEF Receive
  <2>2. keep \in BOOLEAN
    BY DEF MayKeep
  <2> QED
    BY <1>4, <1>5, <1>6, <2>1, <2>2
<1> QED
  BY <1>1, <1>2, <1>3, <1>7, <1>8, <1>9, <1>10, <1>11 DEF Next

\* When both halves were signed for one request that was answered once, they are the same pair.
LEMMA AnsweredOnceAgree == TypeOK /\ AuthInv /\ ResponderAnswered => KeysAgree
<1> SUFFICES ASSUME TypeOK, AuthInv, ResponderAnswered,
                    NEW n \in Nodes, NEW m \in Nodes,
                    channels[n][m].kind = "initiator",
                    channels[m][n].kind = "responder",
                    channels[n][m].link_id = channels[m][n].link_id,
                    AnsweredOnce(channels[n][m].link_id)
             PROVE  channels[n][m].key = channels[m][n].key
  BY DEF KeysAgree
<1> DEFINE c == channels[n][m]
           d == channels[m][n]
           a == [by |-> m, to |-> n, link_id |-> c.link_id, eph |-> c.key[2]]
           b == [by |-> m, to |-> n, link_id |-> d.link_id, eph |-> d.key[2]]
<1>1. c.key[1] = c.link_id /\ a \in answered
  BY DEF AuthInv, Authenticated
<1>2. d.key[1] = d.link_id /\ b \in answered
  BY DEF ResponderAnswered
<1>3. a = b
  BY <1>1, <1>2 DEF AnsweredOnce
<1>4. c.key[1] = d.key[1] /\ c.key[2] = d.key[2]
  BY <1>1, <1>2, <1>3
<1>5. c.key \in (0..MaxFresh) \X (0..MaxFresh) /\ d.key \in (0..MaxFresh) \X (0..MaxFresh)
  BY DEF TypeOK, ChannelRec
<1> QED
  BY <1>4, <1>5

\* The two ends of a link hold the same key, whatever is lost, duplicated, reordered or
\* restarted, as long as handle_linkrequest answered the request of that link once.
THEOREM EndsAgreeOnKey == Spec => []KeysAgree
<1>1. Init => TypeOK /\ AuthInv /\ ResponderAnswered
  BY TypeOKInit, AuthInvInit DEF Init, LinksInit, ResponderAnswered, NoChannel
<1>2. TypeOK /\ AuthInv /\ ResponderAnswered /\ [Next]_vars
        => (TypeOK /\ AuthInv /\ ResponderAnswered)'
  BY TypeOKNext, AuthInvNext, ResponderAnsweredNext
<1> QED
  BY <1>1, <1>2, AnsweredOnceAgree, PTL DEF Spec

-----------------------------------------------------------------------------
(* The secrets of a pending channel *)

\* Whether the medium resolved the sender or not, the entries that an LRPROOF selects, of
\* the pending channels and of their secrets, are the sender's.
LEMMA SelectedIsSender ==
    ASSUME TypeOK, AuthInv, NEW p \in net, p.type = "LRPROOF", NEW resolved \in BOOLEAN,
           NEW k \in Nodes
    PROVE  /\ Selects(pending_channels[p.dst], p, resolved, k) => k = p.src
           /\ Selects(pending_links[p.dst], p, resolved, k) => k = p.src
<1>1. p.dst \in Nodes
  BY FieldTypes
<1>2. ASSUME pending_links[p.dst][k] # 0, pending_links[p.dst][k] = p.link_id
      PROVE  k = p.src
  <2>1. [by |-> p.src, to |-> p.dst, link_id |-> p.link_id, eph |-> p.eph] \in answered
    BY <1>2 DEF AuthInv, PacketsGenuine
  <2>2. [from |-> p.dst, to |-> p.src, link_id |-> p.link_id] \in requested
    BY <2>1 DEF AuthInv, AnswersRequested
  <2>3. [from |-> p.dst, to |-> k, link_id |-> p.link_id] \in requested
    BY <1>1, <1>2 DEF AuthInv, PendingRequested
  <2>4. [from |-> p.dst, to |-> p.src, link_id |-> p.link_id]
          = [from |-> p.dst, to |-> k, link_id |-> p.link_id]
    BY <2>2, <2>3 DEF AuthInv, RequestsUnique
  <2> QED
    BY <2>4
<1> QED
  BY <1>2, AnswererIsPending DEF Selects

\* An LRPROOF that leaves a channel pending leaves its secrets too, if the key was known.
LEMMA LrProofKeepsSecrets ==
    ASSUME TypeOK, AuthInv, NEW p \in net, NEW keep \in BOOLEAN, NEW resolved \in BOOLEAN,
           handle_lrproof(p, keep, resolved), NEW a \in Nodes, NEW b \in Nodes,
           pending_channels[a][b] # 0, pending_links[a][b] = pending_channels[a][b],
           pending_channels'[a][b] # 0, b \in peer_keys[a]
    PROVE  pending_links'[a][b] = pending_channels'[a][b]
<1> DEFINE n == p.dst
<1>1. n \in Nodes /\ p.src \in Nodes /\ p.type = "LRPROOF"
  BY FieldTypes DEF handle_lrproof
<1>2. CASE LrProofIgnored(p, resolved)
  BY <1>2 DEF LrProofIgnored
<1>3. CASE LrProofWithoutSecrets(p, resolved)
  <2>1. PICK k \in Nodes :
          /\ Selects(pending_channels[n], p, resolved, k)
          /\ pending_channels' = [pending_channels EXCEPT ![n] =
                [j \in Nodes |-> IF resolved /\ j = p.src THEN pending_channels[n][k]
                                 ELSE IF j = k THEN 0
                                 ELSE pending_channels[n][j]]]
          /\ UNCHANGED pending_links
    BY <1>3 DEF LrProofWithoutSecrets
  <2>2. k = p.src
    BY <1>1, <2>1, SelectedIsSender
  <2>3. CASE a # n
    BY <1>1, <2>1, <2>3 DEF TypeOK
  <2>4. CASE a = n
    <3>1. pending_channels'[n][b] = IF resolved /\ b = p.src THEN pending_channels[n][k]
                                    ELSE IF b = k THEN 0
                                    ELSE pending_channels[n][b]
      BY <1>1, <2>1 DEF TypeOK
    <3> QED
      BY <2>1, <2>2, <2>4, <3>1
  <2> QED
    BY <2>3, <2>4
<1>4. CASE LrProofUnknownKey(p, resolved)
  <2>1. PICK k \in Nodes, j \in Nodes :
          /\ Selects(pending_channels[n], p, resolved, k)
          /\ Selects(pending_links[n], p, resolved, j)
          /\ k \notin peer_keys[n]
          /\ pending_links' = [pending_links EXCEPT ![n][j] = 0]
          /\ UNCHANGED pending_channels
    BY <1>4 DEF LrProofUnknownKey
  <2>2. k = p.src /\ j = p.src
    BY <1>1, <2>1, SelectedIsSender
  <2>3. ~(a = n /\ b = j)
    BY <2>1, <2>2
  <2> QED
    BY <1>1, <2>1, <2>3 DEF TypeOK
<1>5. CASE LrProofChecked(p, resolved)
  <2>1. PICK k \in Nodes, j \in Nodes :
          /\ Selects(pending_channels[n], p, resolved, k)
          /\ Selects(pending_links[n], p, resolved, j)
          /\ pending_channels' = [pending_channels EXCEPT ![n][k] = 0]
          /\ pending_links' = [pending_links EXCEPT ![n][j] = 0]
    BY <1>5 DEF LrProofChecked
  <2>2. k = p.src /\ j = p.src
    BY <1>1, <2>1, SelectedIsSender
  <2>3. ~(a = n /\ b = k)
    BY <1>1, <2>1 DEF TypeOK
  <2> QED
    BY <1>1, <2>1, <2>2, <2>3 DEF TypeOK
<1>6. CASE LrProofUnresolved(p, resolved)
  BY <1>6, ReturnsToItsPeer
<1> QED
  BY <1>2, <1>3, <1>4, <1>5, <1>6 DEF handle_lrproof

\* As long as the remote's key is known, no sequence of requests, answers, timeouts and
\* restarts strands a pending channel without the secrets that handle_proof needs.
THEOREM SecretsStayWithPending == Spec => PendingKeepsSecrets
<1> DEFINE Kept ==
      \A n, m \in Nodes :
          (/\ pending_channels[n][m] # 0
           /\ pending_links[n][m] = pending_channels[n][m]
           /\ pending_channels'[n][m] # 0
           /\ m \in peer_keys[n])
          => pending_links'[n][m] = pending_channels'[n][m]
<1>1. Init => TypeOK /\ AuthInv
  BY TypeOKInit, AuthInvInit
<1>2. TypeOK /\ AuthInv /\ [Next]_vars => (TypeOK /\ AuthInv)'
  BY TypeOKNext, AuthInvNext
<1>3. TypeOK /\ AuthInv /\ [Next]_vars => [Kept]_vars
  <2> SUFFICES ASSUME TypeOK, AuthInv, Next,
                      NEW a \in Nodes, NEW b \in Nodes,
                      pending_channels[a][b] # 0,
                      pending_links[a][b] = pending_channels[a][b],
                      pending_channels'[a][b] # 0,
                      b \in peer_keys[a]
               PROVE  pending_links'[a][b] = pending_channels'[a][b]
    OBVIOUS
  <2>1. ASSUME UNCHANGED <<pending_channels, pending_links>>
        PROVE  pending_links'[a][b] = pending_channels'[a][b]
    BY <2>1
  <2>2. ASSUME NEW n \in Nodes, NEW m \in Nodes, connect(n, m)
        PROVE  pending_links'[a][b] = pending_channels'[a][b]
    BY <2>2 DEF connect, TypeOK
  <2>3. ASSUME NEW n \in Nodes, restart(n)
        PROVE  pending_links'[a][b] = pending_channels'[a][b]
    BY <2>3 DEF restart, TypeOK
  <2>4. ASSUME NEW p \in net, Receive(p)
        PROVE  pending_links'[a][b] = pending_channels'[a][b]
    <3>1. PICK keep \in MayKeep :
              \/ handle_linkrequest(p, keep)
              \/ handle_linkproof(p, keep)
              \/ \E resolved \in BOOLEAN : handle_lrproof(p, keep, resolved)
      BY <2>4 DEF Receive
    <3>2. keep \in BOOLEAN
      BY DEF MayKeep
    <3>3. CASE handle_linkrequest(p, keep)
      BY <2>1, <3>3 DEF handle_linkrequest
    <3>4. CASE handle_linkproof(p, keep)
      BY <2>1, <3>4 DEF handle_linkproof
    <3>5. CASE \E resolved \in BOOLEAN : handle_lrproof(p, keep, resolved)
      BY <3>2, <3>5, LrProofKeepsSecrets
    <3> QED
      BY <3>1, <3>3, <3>4, <3>5
  <2> QED
    BY <2>1, <2>2, <2>3, <2>4
    DEF Next, register_peer, establish, remove_stale, Lose
<1>4. PendingKeepsSecrets <=> [][Kept]_vars
  BY DEF PendingKeepsSecrets
<1> QED
  BY <1>1, <1>2, <1>3, <1>4, PTL DEF Spec

-----------------------------------------------------------------------------
(* The API: what its commands leave pending *)

Menu == UNION {Lines[c].menu : c \in Clients}

\* The lines that were written, by connection and number.
Refs == {e \in [conn : Clients, n : Nat] : 1 <= e.n /\ e.n <= Len(written[e.conn])}

\* The commands in the channel, in the batch and in the history are lines that were written.
QueuesSound ==
    /\ written \in [Clients -> Seq(Menu)]
    /\ nread \in [Clients -> Nat] /\ \A c \in Clients : nread[c] <= Len(written[c])
    /\ cmd_rx \in Seq(Refs) /\ batch \in Seq(Refs)
    /\ executed \in Seq({executed[k] : k \in DOMAIN executed})
    /\ \A k \in DOMAIN executed : [conn |-> executed[k].conn, n |-> executed[k].n] \in Refs

\* Whom Server can reach it knows the key of.
KeysKnown == peer_addrs \subseteq peer_keys[Server]

InFlight(id) == \E p \in net : p.link_id = id /\ p.type \in {"LINKREQUEST", "LRPROOF"}

\* The key of m and the secrets of the pending link to m are there, and its request or its
\* answer is in flight, or one of them was dropped.
Underway(m) ==
    /\ m \in peer_keys[Server]
    /\ pending_links[Server][m] = pending_channels[Server][m]
    /\ pending_channels[Server][m] \in dropped \/ InFlight(pending_channels[Server][m])

PendingSound == \A m \in Nodes : pending_channels[Server][m] # 0 => Refused(m) \/ Underway(m)

\* Only what a refused connect left can lose its secrets, and come to be under its link_id.
UnresolvedSound ==
    \A id \in unresolved[Server] : \E m \in Nodes :
        Refused(m) /\ [from |-> Server, to |-> m, link_id |-> id] \in requested

ApiInv == TypeOK /\ AuthInv /\ QueuesSound /\ KeysKnown /\ PendingSound /\ UnresolvedSound

\* What no step takes back: lines that were written, commands that were executed.
HistoryGrows ==
    /\ \A c \in Clients : \A n \in Nat :
          1 <= n /\ n <= Len(written[c]) =>
              n <= Len(written'[c]) /\ written'[c][n] = written[c][n]
    /\ \A k \in DOMAIN executed : k \in DOMAIN executed' /\ executed'[k] = executed[k]

\* Seq is monotonic.
LEMMA SeqMonotonic ==
    ASSUME NEW S, NEW T, S \subseteq T, NEW s \in Seq(S)
    PROVE  s \in Seq(T)
  OBVIOUS

\* A sequence is a sequence of its elements.
LEMMA SeqOfElements ==
    ASSUME NEW S, NEW s \in Seq(S)
    PROVE  s \in Seq({s[k] : k \in DOMAIN s})
  OBVIOUS

\* Appending keeps what is there.
LEMMA AppendFacts ==
    ASSUME NEW S, NEW s \in Seq(S), NEW x
    PROVE  /\ Append(s, x) \in Seq(S \cup {x})
           /\ Len(Append(s, x)) = Len(s) + 1
           /\ DOMAIN Append(s, x) = 1..(Len(s) + 1)
           /\ DOMAIN s = 1..Len(s) /\ Len(s) \in Nat
           /\ \A k \in 1..Len(s) : Append(s, x)[k] = s[k]
           /\ Append(s, x)[Len(s) + 1] = x
<1>1. s \in Seq(S \cup {x})
  BY SeqMonotonic
<1> QED
  BY <1>1

\* A refused connect stays refused.
LEMMA RefusedStays ==
    ASSUME QueuesSound, HistoryGrows, NEW m, Refused(m)
    PROVE  Refused(m)'
<1>1. PICK k \in DOMAIN executed :
          /\ Line(executed[k]).cmd = "connect" /\ Line(executed[k]).dest = m
          /\ ~executed[k].result.ok
  BY DEF Refused
<1>2. k \in DOMAIN executed' /\ executed'[k] = executed[k]
  BY DEF HistoryGrows
<1>3. [conn |-> executed[k].conn, n |-> executed[k].n] \in Refs
  BY DEF QueuesSound
<1>4. /\ executed[k].conn \in Clients /\ executed[k].n \in Nat
      /\ 1 <= executed[k].n /\ executed[k].n <= Len(written[executed[k].conn])
  BY <1>3 DEF Refs
<1>5. written'[executed[k].conn][executed[k].n] = written[executed[k].conn][executed[k].n]
  BY <1>4 DEF HistoryGrows
<1>6. /\ written'[executed'[k].conn][executed'[k].n].cmd = "connect"
      /\ written'[executed'[k].conn][executed'[k].n].dest = m
      /\ ~executed'[k].result.ok
  BY <1>1, <1>2, <1>5 DEF Line
<1> QED
  BY <1>2, <1>6 DEF Refused, Line

\* The next command of a batch is a line of the menu, and names a node.
LEMMA HeadIsLine ==
    ASSUME QueuesSound, batch # <<>>
    PROVE  /\ Head(batch) \in Refs /\ Tail(batch) \in Seq(Refs)
           /\ Line(Head(batch)).dest \in Nodes
<1>1. Head(batch) \in Refs /\ Tail(batch) \in Seq(Refs)
  BY DEF QueuesSound
<1>2. Line(Head(batch)) \in Menu
  BY <1>1 DEF QueuesSound, Refs, Line
<1> QED
  BY <1>1, <1>2, LinesAssumption DEF Menu

\* What a step does to the queues of the API and to its history.
QueueStep ==
    /\ QueuesSound'
    /\ HistoryGrows

\* A step that leaves lines, queues and history alone.
LEMMA QueuesUntouched ==
    ASSUME QueuesSound, UNCHANGED <<written, nread, cmd_rx, batch, executed>>
    PROVE  QueueStep
<1>1. Refs' = Refs
  BY DEF Refs
<1>2. QueuesSound'
  BY <1>1 DEF QueuesSound
<1>3. HistoryGrows
  BY DEF HistoryGrows, QueuesSound
<1> QED
  BY <1>2, <1>3 DEF QueueStep

\* A client writes a line.
LEMMA QueuesWritten ==
    ASSUME QueuesSound, NEW c \in Clients, ClientWrites(c)
    PROVE  QueueStep
<1>1. PICK l \in Lines[c].menu : written' = [written EXCEPT ![c] = Append(written[c], l)]
  BY DEF ClientWrites
<1>2. UNCHANGED <<nread, cmd_rx, batch, executed>>
  BY DEF ClientWrites
<1>3. l \in Menu
  BY DEF Menu
<1>4. written[c] \in Seq(Menu)
  BY DEF QueuesSound
<1>5. /\ Append(written[c], l) \in Seq(Menu)
      /\ Len(Append(written[c], l)) = Len(written[c]) + 1 /\ Len(written[c]) \in Nat
      /\ \A n \in 1..Len(written[c]) : Append(written[c], l)[n] = written[c][n]
  BY <1>3, <1>4
<1>6. written'[c] = Append(written[c], l) /\ \A d \in Clients : d # c => written'[d] = written[d]
  BY <1>1 DEF QueuesSound
<1>7. \A d \in Clients : Len(written[d]) \in Nat /\ Len(written'[d]) \in Nat
                         /\ Len(written[d]) <= Len(written'[d])
  <2>1. \A d \in Clients : Len(written[d]) \in Nat
    BY DEF QueuesSound
  <2>2. ASSUME NEW d \in Clients, d # c
        PROVE  Len(written'[d]) = Len(written[d])
    BY ONLY <1>6, <2>2
  <2>3. Len(written'[c]) = Len(written[c]) + 1
    BY ONLY <1>5, <1>6
  <2> QED
    BY ONLY <2>1, <2>2, <2>3
<1>8. HistoryGrows
  <2>1. ASSUME NEW d \in Clients, NEW n \in Nat, 1 <= n, n <= Len(written[d])
        PROVE  n <= Len(written'[d]) /\ written'[d][n] = written[d][n]
    <3>1. n <= Len(written'[d])
      BY ONLY <1>7, <2>1
    <3>2. CASE d # c
      BY ONLY <1>6, <2>1, <3>1, <3>2
    <3>3. CASE d = c
      <4>1. n \in 1..Len(written[c])
        BY ONLY <1>5, <2>1, <3>3
      <4>2. Append(written[c], l)[n] = written[c][n]
        BY ONLY <1>5, <4>1
      <4> QED
        BY ONLY <1>6, <3>1, <3>3, <4>2
    <3> QED
      BY <3>2, <3>3
  <2> QED
    BY <1>2, <2>1 DEF HistoryGrows
<1>9. Refs \subseteq Refs'
  BY <1>7 DEF Refs
<1>10. cmd_rx' \in Seq(Refs') /\ batch' \in Seq(Refs')
  BY <1>2, <1>9, SeqMonotonic DEF QueuesSound
<1>11. written' \in [Clients -> Seq(Menu)]
  BY <1>1, <1>5 DEF QueuesSound
<1>12. \A d \in Clients : nread'[d] <= Len(written'[d])
  BY <1>2, <1>7 DEF QueuesSound
<1>13. QueuesSound'
  BY <1>2, <1>9, <1>10, <1>11, <1>12 DEF QueuesSound
<1> QED
  BY <1>8, <1>13 DEF QueueStep

\* A connection reads its next line, and possibly sends it as a command.
LEMMA QueuesRead ==
    ASSUME QueuesSound, NEW c \in Clients, ReadLine(c),
           \/ UNCHANGED cmd_rx
           \/ cmd_rx' = Append(cmd_rx, [conn |-> c, n |-> nread'[c]])
    PROVE  QueueStep
<1>1. UNCHANGED <<written, batch, executed>> /\ nread' = [nread EXCEPT ![c] = nread[c] + 1]
      /\ nread[c] < Len(written[c])
  BY DEF ReadLine
<1>2. \A d \in Clients : nread[d] \in Nat /\ Len(written[d]) \in Nat /\ nread[d] <= Len(written[d])
  BY DEF QueuesSound
<1>3. nread'[c] = nread[c] + 1 /\ \A d \in Clients : d # c => nread'[d] = nread[d]
  BY <1>1 DEF QueuesSound
<1>4. nread' \in [Clients -> Nat] /\ \A d \in Clients : nread'[d] <= Len(written'[d])
  BY <1>1, <1>2, <1>3 DEF QueuesSound
<1>5. Refs' = Refs
  BY <1>1 DEF Refs
<1>6. [conn |-> c, n |-> nread'[c]] \in Refs
  BY <1>1, <1>2, <1>3 DEF Refs
<1>7. cmd_rx' \in Seq(Refs)
  <2>1. \A e \in Refs : Append(cmd_rx, e) \in Seq(Refs)
    BY DEF QueuesSound
  <2> QED
    BY <1>6, <2>1 DEF QueuesSound
<1>8. QueuesSound'
  BY <1>1, <1>4, <1>5, <1>7 DEF QueuesSound
<1>9. HistoryGrows
  BY <1>1, <1>2 DEF HistoryGrows
<1> QED
  BY <1>8, <1>9 DEF QueueStep

\* The loop takes what is in the channel.
LEMMA QueuesTaken ==
    ASSUME QueuesSound, TakeCommands
    PROVE  QueueStep
<1>1. UNCHANGED <<written, nread, executed>> /\ batch' = cmd_rx /\ cmd_rx' = <<>>
  BY DEF TakeCommands, tasks
<1>2. Refs' = Refs
  BY <1>1 DEF Refs
<1>3. <<>> \in Seq(Refs)
  OBVIOUS
<1>4. QueuesSound'
  BY <1>1, <1>2, <1>3 DEF QueuesSound
<1>5. HistoryGrows
  BY <1>1 DEF HistoryGrows, QueuesSound
<1> QED
  BY <1>4, <1>5 DEF QueueStep

\* A command is executed: it moves from the batch to the history, and a connect that fails is a
\* refused one.
LEMMA QueuesExecuted ==
    ASSUME QueuesSound, NEW cmds, NEW r, Executes(cmds, r)
    PROVE  /\ QueueStep
           /\ ~r.ok /\ cmds = {"connect"} =>
                 \A m \in Nodes : m = Line(Head(batch)).dest => Refused(m)'
<1> DEFINE R == {executed[k] : k \in DOMAIN executed}
<1>1. PICK e : e = Head(batch)
  OBVIOUS
<1>2. PICK x : x = [conn |-> e.conn, n |-> e.n, result |-> r]
  OBVIOUS
<1>3. /\ batch # <<>> /\ Line(e).cmd \in cmds /\ batch' = Tail(batch)
      /\ executed' = Append(executed, x)
      /\ UNCHANGED <<written, nread, cmd_rx>>
  BY <1>1, <1>2 DEF Executes, tasks
<1>4. e \in Refs /\ Tail(batch) \in Seq(Refs) /\ Line(e).dest \in Nodes
  BY <1>1, <1>3, HeadIsLine
<1>5. executed \in Seq(R)
  BY DEF QueuesSound
<1>6. /\ executed' \in Seq(R \cup {x})
      /\ DOMAIN executed = 1..Len(executed) /\ Len(executed) \in Nat
      /\ DOMAIN executed' = 1..(Len(executed) + 1)
      /\ \A k \in 1..Len(executed) : executed'[k] = executed[k]
      /\ executed'[Len(executed) + 1] = x
  <2> HIDE DEF R
  <2> QED
    BY <1>3, <1>5, AppendFacts
<1>7. Refs' = Refs
  BY <1>3 DEF Refs
<1>8. executed' \in Seq({executed'[k] : k \in DOMAIN executed'})
  <2> HIDE DEF R
  <2>1. PICK h : h = executed'
    OBVIOUS
  <2>2. PICK S : S = R \cup {x}
    OBVIOUS
  <2>3. h \in Seq(S)
    BY <1>6, <2>1, <2>2
  <2>4. h \in Seq({h[k] : k \in DOMAIN h})
    BY <2>3, SeqOfElements
  <2> QED
    BY <2>1, <2>4
<1>9. [conn |-> x.conn, n |-> x.n] \in Refs
  BY <1>2, <1>4 DEF Refs
<1>10. ASSUME NEW k \in DOMAIN executed'
       PROVE  [conn |-> executed'[k].conn, n |-> executed'[k].n] \in Refs
  <2>1. k \in 1..Len(executed) \/ k = Len(executed) + 1
    BY ONLY <1>6, k \in DOMAIN executed'
  <2>2. CASE k \in 1..Len(executed)
    <3>1. executed'[k] = executed[k] /\ k \in DOMAIN executed
      BY ONLY <1>6, <2>2
    <3>2. [conn |-> executed[k].conn, n |-> executed[k].n] \in Refs
      BY <3>1 DEF QueuesSound
    <3> QED
      BY ONLY <3>1, <3>2
  <2>3. CASE k = Len(executed) + 1
    BY ONLY <1>6, <1>9, <2>3
  <2> QED
    BY <2>1, <2>2, <2>3
<1>11. QueuesSound'
  BY <1>3, <1>4, <1>7, <1>8, <1>10 DEF QueuesSound
<1>12. HistoryGrows
  BY <1>3, <1>6 DEF HistoryGrows, QueuesSound
<1>13. ASSUME ~r.ok, cmds = {"connect"}, NEW m \in Nodes, m = Line(Head(batch)).dest
       PROVE  Refused(m)'
  <2> DEFINE k == Len(executed) + 1
  <2>1. k \in DOMAIN executed' /\ executed'[k] = x
    BY <1>6
  <2>2. x.conn = e.conn /\ x.n = e.n /\ x.result = r
    BY <1>2
  <2>3. written'[x.conn][x.n].cmd = "connect" /\ written'[x.conn][x.n].dest = m
    BY <1>1, <1>3, <1>13, <2>2 DEF Line
  <2> HIDE DEF k
  <2> QED
    BY <1>13, <2>1, <2>2, <2>3 DEF Refused, Line
<1> QED
  BY <1>11, <1>12, <1>13 DEF QueueStep

\* A step of the API on the links and the peers: none, a key learned from seed_peer or from the
\* announce of Server, a handshake begun by connect, a frame, or the loss of one.
Idle == UNCHANGED <<vars, peer_addrs, dropped>>

Learns ==
    /\ peer_addrs' \subseteq peer_keys'[Server]
    /\ UNCHANGED <<links, dropped>>
    /\ \E n, m \in Nodes : \/ peer_keys' = [peer_keys EXCEPT ![n] = peer_keys[n] \cup {m}]
                           \/ UNCHANGED peer_keys

Connects ==
    /\ UNCHANGED <<peer_addrs, dropped>>
    /\ \E m \in Nodes : /\ Begins(Server, m) /\ net \subseteq net'
                        /\ \/ m \in peer_addrs /\ LinkRequest(Server, m, fresh') \in net'
                           \/ Refused(m)'

Frames ==
    /\ UNCHANGED peer_addrs
    /\ \E p \in net : Receive(p) /\ dropped' = dropped \cup Ignored(p)

Loses ==
    /\ UNCHANGED peer_addrs
    /\ \E p \in net : Lose(p) /\ dropped' = dropped \cup {p.link_id}

ApiStep == QueueStep /\ (Idle \/ Learns \/ Connects \/ Frames \/ Loses)

\* What each step of the API does to the queues, and to the links and the peers.
LEMMA ApiSteps ==
    ASSUME ApiInv, ApiNext
    PROVE  ApiStep
<1>0. QueuesSound /\ KeysKnown
  BY DEF ApiInv
<1>1. ASSUME NEW c \in Clients, ClientWrites(c)
      PROVE  ApiStep
  BY <1>0, <1>1, QueuesWritten DEF ClientWrites, ApiStep, Idle
<1>2. ASSUME NEW c \in Clients, ClientCloses(c) \/ run_api_server(c) \/ ReadEnd(c)
      PROVE  ApiStep
  BY <1>0, <1>2, QueuesUntouched DEF ClientCloses, run_api_server, ReadEnd, ApiStep, Idle
<1>3. ASSUME NEW c \in Clients, Reply(c)
      PROVE  ApiStep
  BY <1>0, <1>3, QueuesUntouched DEF Reply, ApiStep, Idle
<1>4. ASSUME NEW c \in Clients, ReadBlank(c) \/ ReadInvalid(c)
      PROVE  ApiStep
  <2>1. ReadLine(c) /\ UNCHANGED cmd_rx
    BY <1>4 DEF ReadBlank, ReadInvalid
  <2> QED
    BY <1>0, <2>1, QueuesRead DEF ReadLine, ApiStep, Idle
<1>5. ASSUME NEW c \in Clients, NEW cmd, Dispatches(c, cmd)
      PROVE  ApiStep
  <2>1. /\ ReadLine(c)
        /\ \/ UNCHANGED cmd_rx
           \/ cmd_rx' = Append(cmd_rx, [conn |-> c, n |-> nread'[c]])
    BY <1>5 DEF Dispatches
  <2> QED
    BY <1>0, <2>1, QueuesRead DEF ReadLine, ApiStep, Idle
<1>6. CASE TakeCommands
  BY <1>0, <1>6, QueuesTaken DEF TakeCommands, ApiStep, Idle
<1>7. ASSUME NEW cmds, NEW r, Executes(cmds, r), Idle
      PROVE  ApiStep
  BY <1>0, <1>7, QueuesExecuted DEF ApiStep
<1>8. CASE express
  <2>1. PICK r : r = Outcome(Reaches(Line(Head(batch)).dest))
    OBVIOUS
  <2>2. Executes({"express"}, r) /\ Idle
    BY <1>8, <2>1 DEF express, Idle
  <2> QED
    BY <1>7, <2>2
<1>9. CASE publish
  <2>1. PICK r : r = Outcome(Line(Head(batch)).arg # "bad_name")
    OBVIOUS
  <2>2. Executes({"publish"}, r) /\ Idle
    BY <1>9, <2>1 DEF publish, Idle
  <2> QED
    BY <1>7, <2>2
<1>10. CASE status
  <2>1. PICK r : r = DaemonStatus
    OBVIOUS
  <2>2. Executes({"status"}, r) /\ Idle
    BY <1>10, <2>1 DEF status, Idle
  <2> QED
    BY <1>7, <2>2
<1>11. CASE send_over_link
  <2>1. PICK ok \in BOOLEAN : Executes({"send", "send_resource"}, Outcome(ok)) /\ Idle
    BY <1>11 DEF send_over_link, Idle
  <2> QED
    BY <1>7, <2>1
<1>12. CASE ConnectAgain
  <2>1. Executes({"connect"}, Outcome(TRUE)) /\ Idle
    BY <1>12 DEF ConnectAgain, Idle
  <2> QED
    BY <1>7, <2>1
<1>13. CASE seed_peer
  <2>1. PICK l : l = Line(Head(batch))
    OBVIOUS
  <2>2. PICK r : r = Outcome(l.arg # "bad_key")
    OBVIOUS
  <2>3. /\ Executes({"seed_peer"}, r)
        /\ peer_keys' = [peer_keys EXCEPT ![Server] =
                            IF l.arg # "bad_key" THEN peer_keys[Server] \cup {l.dest}
                                                 ELSE peer_keys[Server]]
        /\ peer_addrs' = IF l.arg # "bad_key" THEN add_peer_endpoint(l) ELSE peer_addrs
        /\ UNCHANGED <<links, dropped>>
    BY <1>13, <2>1, <2>2 DEF seed_peer
  <2>4. QueueStep /\ l.dest \in Nodes
    BY <1>0, <2>1, <2>3, QueuesExecuted, HeadIsLine DEF Executes
  <2>5. peer_keys \in [Nodes -> SUBSET Nodes] /\ Server \in Nodes
    BY ServerAssumption DEF ApiInv, TypeOK
  <2>6. CASE l.arg # "bad_key"
    <3>1. peer_keys' = [peer_keys EXCEPT ![Server] = peer_keys[Server] \cup {l.dest}]
      BY <2>3, <2>6
    <3>2. peer_addrs' \subseteq peer_addrs \cup {l.dest}
      BY <2>3, <2>6 DEF add_peer_endpoint
    <3>3. peer_keys'[Server] = peer_keys[Server] \cup {l.dest}
      BY <2>5, <3>1
    <3> QED
      BY <1>0, <2>3, <2>4, <2>5, <3>1, <3>2, <3>3 DEF Learns, KeysKnown, ApiStep
  <2>7. CASE l.arg = "bad_key"
    <3>1. peer_keys' = peer_keys /\ peer_addrs' = peer_addrs
      BY <2>3, <2>5, <2>7
    <3> QED
      BY <1>0, <2>3, <2>4, <3>1 DEF Learns, KeysKnown, ApiStep
  <2> QED
    BY <2>6, <2>7
<1>14. CASE ConnectSent
  <2>1. PICK m : m = Line(Head(batch)).dest
    OBVIOUS
  <2>2. /\ Executes({"connect"}, Outcome(TRUE))
        /\ m \in peer_addrs /\ connect(Server, m) /\ UNCHANGED <<peer_addrs, dropped>>
    BY <1>14, <2>1 DEF ConnectSent, Reaches
  <2>3. QueueStep /\ m \in Nodes
    BY <1>0, <2>1, <2>2, QueuesExecuted, HeadIsLine DEF Executes
  <2>4. Begins(Server, m) /\ net \subseteq net' /\ LinkRequest(Server, m, fresh') \in net'
    BY <2>2 DEF connect, Begins
  <2> QED
    BY <2>2, <2>3, <2>4 DEF Connects, ApiStep
<1>15. CASE ConnectFails
  <2>1. PICK m : m = Line(Head(batch)).dest
    OBVIOUS
  <2>2. Executes({"connect"}, Outcome(FALSE)) /\ ConnectUnsent(m)
    BY <1>15, <2>1 DEF ConnectFails
  <2>3. QueueStep /\ m \in Nodes
    BY <1>0, <2>1, <2>2, QueuesExecuted, HeadIsLine DEF Executes
  <2>4. ~Outcome(FALSE).ok
    BY DEF Outcome
  <2>5. Refused(m)'
    BY <1>0, <2>1, <2>2, <2>3, <2>4, QueuesExecuted
  <2>6. Begins(Server, m) /\ net \subseteq net' /\ UNCHANGED <<peer_addrs, dropped>>
    BY <2>2 DEF ConnectUnsent, Begins
  <2> QED
    BY <2>3, <2>5, <2>6 DEF Connects, ApiStep
<1>16. ASSUME NEW p \in net, handle_frame(p)
       PROVE  ApiStep
  <2>1. /\ UNCHANGED <<peer_addrs, written, nread, cmd_rx, batch, executed>>
        /\ Receive(p) /\ dropped' = dropped \cup Ignored(p)
    BY <1>16 DEF handle_frame, tasks
  <2> QED
    BY <1>0, <2>1, QueuesUntouched DEF Frames, ApiStep
<1>21. ASSUME NEW p \in net, LoseFrame(p)
       PROVE  ApiStep
  <2>1. /\ UNCHANGED <<peer_addrs, written, nread, cmd_rx, batch, executed>>
        /\ Lose(p) /\ dropped' = dropped \cup {p.link_id}
    BY <1>21 DEF LoseFrame, tasks
  <2> QED
    BY <1>0, <2>1, QueuesUntouched DEF Loses, ApiStep
<1>22. ASSUME NEW m \in Nodes \ {Server}, Introduce(m)
       PROVE  ApiStep
  <2>1. /\ UNCHANGED <<peer_addrs, dropped, written, nread, cmd_rx, batch, executed>>
        /\ UNCHANGED links
        /\ peer_keys' = [peer_keys EXCEPT ![m] = peer_keys[m] \cup {Server}]
    BY <1>22 DEF Introduce, register_peer, links, history, tasks
  <2>2. Server \in Nodes /\ peer_keys \in [Nodes -> SUBSET Nodes]
    BY ServerAssumption DEF ApiInv, TypeOK
  <2>3. peer_keys'[Server] = peer_keys[Server]
    BY <2>1, <2>2
  <2>4. Learns
    BY <1>0, <2>1, <2>2, <2>3 DEF Learns, KeysKnown
  <2> QED
    BY <1>0, <2>1, <2>4, QueuesUntouched DEF ApiStep
<1>17. ASSUME NEW c \in Clients, handle_connection(c)
       PROVE  ApiStep
  <2>1. \/ ReadBlank(c) \/ ReadInvalid(c) \/ ReadEnd(c) \/ Reply(c)
        \/ \E cmd \in {"express", "publish", "status", "connect", "send", "send_resource",
                        "seed_peer"} : Dispatches(c, cmd)
    BY <1>17
    DEF handle_connection, handle_express, handle_publish, handle_status, handle_connect,
        handle_send_over_link, handle_send_resource, handle_seed_peer
  <2>2. ASSUME NEW cmd, Dispatches(c, cmd)
        PROVE  ApiStep
    BY <1>5, <2>2
  <2>3. CASE ReadBlank(c) \/ ReadInvalid(c)
    BY <1>4, <2>3
  <2>4. CASE ReadEnd(c)
    BY <1>2, <2>4
  <2>5. CASE Reply(c)
    BY <1>3, <2>5
  <2> QED
    BY <2>1, <2>2, <2>3, <2>4, <2>5
<1>18. CASE run
  BY <1>6, <1>8, <1>9, <1>10, <1>11, <1>12, <1>13, <1>14, <1>15, <1>18 DEF run
<1>19. CASE \E c \in Clients : ClientWrites(c) \/ ClientCloses(c) \/ run_api_server(c)
                              \/ handle_connection(c)
  BY <1>1, <1>2, <1>17, <1>19
<1>20. CASE \/ \E p \in net : handle_frame(p) \/ LoseFrame(p)
            \/ \E m \in Nodes \ {Server} : Introduce(m)
  BY <1>16, <1>20, <1>21, <1>22
<1> QED
  BY <1>18, <1>19, <1>20 DEF ApiNext

\* An LRPROOF that leaves the link to m pending was not the answer to it, so the link is still
\* under way: its own answer would have been checked against its secrets and taken it out.
LEMMA LrProofKeepsUnderway ==
    ASSUME TypeOK, AuthInv, NEW p \in net, NEW keep \in BOOLEAN, NEW resolved \in BOOLEAN,
           handle_lrproof(p, keep, resolved), dropped \subseteq dropped',
           NEW m \in Nodes, Underway(m),
           pending_channels[Server][m] # 0, pending_channels'[Server][m] # 0
    PROVE  Underway(m)'
<1> DEFINE n == p.dst
           IsAnswer == p.link_id = pending_channels[Server][m]
<1>1. n \in Nodes /\ p.src \in Nodes /\ p.type = "LRPROOF" /\ Server \in Nodes
  BY FieldTypes, ServerAssumption DEF handle_lrproof
<1>2. /\ m \in peer_keys[Server] /\ peer_keys' = peer_keys
      /\ pending_links[Server][m] = pending_channels[Server][m]
  BY DEF Underway, handle_lrproof
<1>4. pending_links'[Server][m] = pending_channels'[Server][m]
  BY <1>1, <1>2, LrProofKeepsSecrets
<1>5. ASSUME IsAnswer
      PROVE  n = Server /\ p.src = m
  <2>1. p.link_id = pending_channels[Server][m]
    BY <1>5
  <2>2. [by |-> p.src, to |-> n, link_id |-> p.link_id, eph |-> p.eph] \in answered
    BY <1>1, <2>1 DEF AuthInv, PacketsGenuine
  <2>3. [from |-> n, to |-> p.src, link_id |-> p.link_id] \in requested
    BY <2>2 DEF AuthInv, AnswersRequested
  <2>4. [from |-> Server, to |-> m, link_id |-> p.link_id] \in requested
    BY <1>1, <2>1 DEF AuthInv, PendingRequested
  <2>5. [from |-> n, to |-> p.src, link_id |-> p.link_id]
          = [from |-> Server, to |-> m, link_id |-> p.link_id]
    BY <2>3, <2>4 DEF AuthInv, RequestsUnique
  <2> QED
    BY <2>5
<1>6. ASSUME n = Server
      PROVE  /\ Selects(pending_channels[n], p, resolved, m)
                  => Selects(pending_links[n], p, resolved, m)
             /\ IsAnswer => Selects(pending_channels[n], p, resolved, m)
  <2>1. ASSUME Selects(pending_channels[n], p, resolved, m)
        PROVE  Selects(pending_links[n], p, resolved, m)
    <3>1. m = p.src
      BY <1>1, <2>1, SelectedIsSender
    <3> QED
      BY ONLY <1>2, <1>6, <2>1, <3>1, pending_channels[Server][m] # 0 DEF Selects
  <2>2. ASSUME IsAnswer
        PROVE  Selects(pending_channels[n], p, resolved, m)
    BY ONLY <1>5, <1>6, <2>2, pending_channels[Server][m] # 0 DEF Selects
  <2> QED
    BY <2>1, <2>2
<1>7. ~IsAnswer /\ pending_channels'[Server][m] = pending_channels[Server][m]
  <2>1. CASE LrProofIgnored(p, resolved)
    BY <1>5, <1>6, <2>1 DEF LrProofIgnored
  <2>2. CASE LrProofWithoutSecrets(p, resolved)
    <3>1. PICK k \in Nodes :
            /\ Selects(pending_channels[n], p, resolved, k)
            /\ ~ \E j \in Nodes : Selects(pending_links[n], p, resolved, j)
            /\ pending_channels' = [pending_channels EXCEPT ![n] =
                  [j \in Nodes |-> IF resolved /\ j = p.src THEN pending_channels[n][k]
                                   ELSE IF j = k THEN 0
                                   ELSE pending_channels[n][j]]]
      BY <2>2 DEF LrProofWithoutSecrets
    <3>2. k = p.src
      BY <1>1, <3>1, SelectedIsSender
    <3>3. n # Server \/ m # k
      BY <1>6, <3>1
    <3>4. ~IsAnswer
      BY <1>5, <3>2, <3>3
    <3>5. CASE n # Server
      BY <1>1, <3>1, <3>4, <3>5 DEF TypeOK
    <3>6. CASE n = Server
      <4>1. pending_channels'[n][m] = IF resolved /\ m = p.src THEN pending_channels[n][k]
                                      ELSE IF m = k THEN 0
                                      ELSE pending_channels[n][m]
        BY <1>1, <3>1 DEF TypeOK
      <4> QED
        BY <3>2, <3>3, <3>4, <3>6, <4>1
    <3> QED
      BY <3>5, <3>6
  <2>3. CASE LrProofUnknownKey(p, resolved)
    <3>1. PICK k \in Nodes : Selects(pending_channels[n], p, resolved, k) /\ k \notin peer_keys[n]
      BY <2>3 DEF LrProofUnknownKey
    <3>2. k = p.src
      BY <1>1, <3>1, SelectedIsSender
    <3> QED
      BY <1>2, <1>5, <2>3, <3>1, <3>2 DEF LrProofUnknownKey
  <2>4. CASE LrProofChecked(p, resolved)
    <3>1. PICK k \in Nodes : /\ Selects(pending_channels[n], p, resolved, k)
                             /\ pending_channels' = [pending_channels EXCEPT ![n][k] = 0]
      BY <2>4 DEF LrProofChecked
    <3>2. k = p.src
      BY <1>1, <3>1, SelectedIsSender
    <3>3. n # Server \/ m # k
      BY <1>1, <3>1 DEF TypeOK
    <3>4. pending_channels'[Server][m] = pending_channels[Server][m]
      BY <1>1, <3>1, <3>3 DEF TypeOK
    <3> QED
      BY <1>5, <3>2, <3>3, <3>4
  <2>5. CASE LrProofUnresolved(p, resolved)
    <3>1. ~(resolved /\ Server = p.dst /\ m = p.src)
      BY <2>5, ReturnsToItsPeer
    <3>5. \A a, b \in Nodes :
             pending_channels'[a][b] = IF resolved /\ a = p.dst /\ b = p.src THEN p.link_id
                                       ELSE pending_channels[a][b]
      BY <2>5, ReturnsToItsPeer
    <3>2. pending_channels'[Server][m] = pending_channels[Server][m]
      BY ONLY <1>1, <3>1, <3>5, m \in Nodes
    <3>3. ~ \E j \in Nodes : Selects(pending_links[n], p, resolved, j)
      BY <2>5 DEF LrProofUnresolved
    <3>4. ~IsAnswer
      BY <1>5, <1>6, <3>3
    <3> QED
      BY <3>2, <3>4
  <2> QED
    BY <2>1, <2>2, <2>3, <2>4, <2>5 DEF handle_lrproof
<1>8. InFlight(pending_channels[Server][m]) => InFlight(pending_channels[Server][m])'
  BY <1>7 DEF handle_lrproof, Take, InFlight
<1> QED
  BY <1>2, <1>4, <1>7, <1>8 DEF Underway

\* A LINKREQUEST that is handled for a link under way is answered, or dropped by a peer that does
\* not know the key of Server.
LEMMA LinkRequestKeepsUnderway ==
    ASSUME TypeOK, AuthInv, NEW p \in net, NEW keep \in BOOLEAN,
           handle_linkrequest(p, keep), dropped' = dropped \cup Ignored(p), NEW m \in Nodes, Underway(m),
           pending_channels[Server][m] # 0
    PROVE  Underway(m)'
<1>1. p.dst \in Nodes /\ p.src \in Nodes /\ p.type = "LINKREQUEST" /\ Server \in Nodes
  BY FieldTypes, ServerAssumption DEF handle_linkrequest
<1>2. /\ m \in peer_keys[Server] /\ peer_keys' = peer_keys
      /\ pending_links[Server][m] = pending_channels[Server][m]
      /\ pending_links' = pending_links /\ pending_channels' = pending_channels
  BY DEF Underway, handle_linkrequest
<1>3. CASE pending_channels[Server][m] \in dropped
  BY <1>2, <1>3 DEF Underway
<1>4. CASE p.link_id # pending_channels[Server][m] /\ InFlight(pending_channels[Server][m])
  <2>1. InFlight(pending_channels[Server][m])'
    BY <1>2, <1>4 DEF handle_linkrequest, Take, InFlight
  <2> QED
    BY <1>2, <2>1 DEF Underway
<1>5. CASE p.link_id = pending_channels[Server][m]
  <2>1. p.link_id = pending_channels[Server][m]
    BY <1>5
  <2>2. [from |-> p.src, to |-> p.dst, link_id |-> p.link_id] \in requested
    BY <1>1 DEF AuthInv, PacketsGenuine
  <2>3. [from |-> Server, to |-> m, link_id |-> p.link_id] \in requested
    BY <1>1, <2>1 DEF AuthInv, PendingRequested
  <2>4. [from |-> p.src, to |-> p.dst, link_id |-> p.link_id]
          = [from |-> Server, to |-> m, link_id |-> p.link_id]
    BY <2>2, <2>3 DEF AuthInv, RequestsUnique
  <2>5. p.src = Server /\ p.dst = m
    BY <2>4
  <2>6. CASE p.src \notin peer_keys[p.dst]
    BY <1>1, <1>2, <2>1, <2>6 DEF Ignored, Underway
  <2>7. CASE p.src \in peer_keys[p.dst]
    <3>1. LrProof(p.dst, p.src, p.link_id, fresh') \in net'
      BY <2>7 DEF handle_linkrequest
    <3>2. /\ LrProof(p.dst, p.src, p.link_id, fresh').link_id = p.link_id
          /\ LrProof(p.dst, p.src, p.link_id, fresh').type = "LRPROOF"
      BY DEF LrProof
    <3> QED
      BY <1>2, <2>1, <3>1, <3>2 DEF Underway, InFlight
  <2> QED
    BY <2>6, <2>7
<1> QED
  BY <1>3, <1>4, <1>5 DEF Underway

\* No frame strands a link that is under way.
LEMMA FrameKeepsUnderway ==
    ASSUME TypeOK, AuthInv, NEW p \in net, Receive(p), dropped' = dropped \cup Ignored(p),
           NEW m \in Nodes, Underway(m),
           pending_channels[Server][m] # 0, pending_channels'[Server][m] # 0
    PROVE  Underway(m)'
<1>1. PICK keep \in MayKeep :
          \/ handle_linkrequest(p, keep)
          \/ handle_linkproof(p, keep)
          \/ \E resolved \in BOOLEAN : handle_lrproof(p, keep, resolved)
  BY DEF Receive
<1>2. keep \in BOOLEAN
  BY DEF MayKeep
<1>3. CASE handle_linkrequest(p, keep)
  BY <1>2, <1>3, LinkRequestKeepsUnderway
<1>4. CASE handle_linkproof(p, keep)
  <2>1. UNCHANGED <<peer_keys, pending_channels, pending_links>>
    BY <1>4 DEF handle_linkproof
  <2>2. InFlight(pending_channels[Server][m]) => InFlight(pending_channels[Server][m])'
    BY <1>4, <2>1 DEF handle_linkproof, Take, InFlight
  <2> QED
    BY <2>1, <2>2 DEF Underway
<1>5. CASE \E resolved \in BOOLEAN : handle_lrproof(p, keep, resolved)
  BY <1>2, <1>5, LrProofKeepsUnderway
<1> QED
  BY <1>1, <1>3, <1>4, <1>5

\* A packet is kept in the medium or not.
LEMMA MayKeepIsBoolean == MayKeep \subseteq BOOLEAN
BY DEF MayKeep

\* A frame makes no link of Server pending that was not, except what a refused connect left.
LEMMA FrameBeginsNothing ==
    ASSUME TypeOK, AuthInv, UnresolvedSound, NEW p \in net, Receive(p), NEW m \in Nodes,
           pending_channels'[Server][m] # 0
    PROVE  pending_channels[Server][m] # 0 \/ Refused(m)
<1>1. p.dst \in Nodes /\ p.src \in Nodes /\ Server \in Nodes
  BY FieldTypes, ServerAssumption
<1>2. CASE UNCHANGED pending_channels
  BY <1>2
<1>3. ASSUME NEW resolved \in BOOLEAN, p.type = "LRPROOF", LrProofWithoutSecrets(p, resolved)
      PROVE  pending_channels[Server][m] # 0
  <2>1. PICK k \in Nodes :
          /\ Selects(pending_channels[p.dst], p, resolved, k)
          /\ pending_channels' = [pending_channels EXCEPT ![p.dst] =
                [j \in Nodes |-> IF resolved /\ j = p.src THEN pending_channels[p.dst][k]
                                 ELSE IF j = k THEN 0
                                 ELSE pending_channels[p.dst][j]]]
    BY <1>3 DEF LrProofWithoutSecrets
  <2>2. k = p.src
    BY <1>3, <2>1, SelectedIsSender
  <2>3. CASE p.dst # Server
    BY <1>1, <2>1, <2>3 DEF TypeOK
  <2>4. CASE p.dst = Server
    <3>1. pending_channels'[Server][m] = IF resolved /\ m = p.src THEN pending_channels[Server][k]
                                         ELSE IF m = k THEN 0
                                         ELSE pending_channels[Server][m]
      BY <1>1, <2>1, <2>4 DEF TypeOK
    <3> QED
      BY <2>2, <3>1
  <2> QED
    BY <2>3, <2>4
<1>4. ASSUME NEW resolved \in BOOLEAN, LrProofChecked(p, resolved)
      PROVE  pending_channels[Server][m] # 0
  BY <1>1, <1>4 DEF LrProofChecked, TypeOK
<1>5. ASSUME NEW keep \in BOOLEAN, NEW resolved \in BOOLEAN, handle_lrproof(p, keep, resolved),
             LrProofUnresolved(p, resolved)
      PROVE  pending_channels[Server][m] # 0 \/ Refused(m)
  <2>1. CASE ~(resolved /\ Server = p.dst /\ m = p.src)
    <3>1. \A a, b \in Nodes :
             pending_channels'[a][b] = IF resolved /\ a = p.dst /\ b = p.src THEN p.link_id
                                       ELSE pending_channels[a][b]
      BY <1>5, ReturnsToItsPeer
    <3>2. pending_channels'[Server][m] = pending_channels[Server][m]
      BY ONLY <1>1, <2>1, <3>1, m \in Nodes
    <3> QED
      BY <3>2
  <2>2. CASE resolved /\ Server = p.dst /\ m = p.src
    <3>1. p.link_id \in unresolved[Server]
      BY <1>5, <2>2 DEF LrProofUnresolved, SelectsUnresolved
    <3>2. PICK k \in Nodes :
              Refused(k) /\ [from |-> Server, to |-> k, link_id |-> p.link_id] \in requested
      BY <3>1 DEF UnresolvedSound
    <3>3. [from |-> Server, to |-> m, link_id |-> p.link_id] \in requested
      BY <1>5, <2>2, ReturnsToItsPeer
    <3>4. [from |-> Server, to |-> k, link_id |-> p.link_id]
            = [from |-> Server, to |-> m, link_id |-> p.link_id]
      BY <3>2, <3>3 DEF AuthInv, RequestsUnique
    <3> QED
      BY <3>2, <3>4
  <2> QED
    BY <2>1, <2>2
<1> QED
  BY <1>2, <1>3, <1>4, <1>5, MayKeepIsBoolean
  DEF Receive, handle_linkrequest, handle_linkproof, handle_lrproof, LrProofIgnored,
      LrProofUnknownKey

\* A frame puts nothing under its link_id but what a refused connect left: the rest has secrets.
LEMMA FrameUnresolved ==
    ASSUME TypeOK, AuthInv, PendingSound, UnresolvedSound, NEW p \in net, Receive(p),
           NEW id \in unresolved'[Server]
    PROVE  \E m \in Nodes :
               Refused(m) /\ [from |-> Server, to |-> m, link_id |-> id] \in requested
<1>1. p.dst \in Nodes /\ Server \in Nodes
  BY FieldTypes, ServerAssumption
<1>2. CASE id \in unresolved[Server]
  BY <1>2 DEF UnresolvedSound
<1>3. ASSUME NEW resolved \in BOOLEAN, p.type = "LRPROOF", LrProofWithoutSecrets(p, resolved),
             id \notin unresolved[Server]
      PROVE  \E m \in Nodes :
                 Refused(m) /\ [from |-> Server, to |-> m, link_id |-> id] \in requested
  <2>1. PICK k \in Nodes :
          /\ Selects(pending_channels[p.dst], p, resolved, k)
          /\ ~ \E j \in Nodes : Selects(pending_links[p.dst], p, resolved, j)
          /\ unresolved' = IF resolved THEN unresolved
                           ELSE [unresolved EXCEPT ![p.dst] = @ \cup {pending_channels[p.dst][k]}]
    BY <1>3 DEF LrProofWithoutSecrets
  <2>2. ~resolved /\ p.dst = Server /\ id = pending_channels[Server][k]
    BY <1>1, <1>3, <2>1 DEF TypeOK
  <2>3. id # 0 /\ id = p.link_id
    BY <2>1, <2>2 DEF Selects
  <2>4. [from |-> Server, to |-> k, link_id |-> id] \in requested
    BY <1>1, <2>2, <2>3 DEF AuthInv, PendingRequested
  <2>5. pending_links[Server][k] # id
    BY <2>1, <2>2, <2>3 DEF Selects
  <2>6. Refused(k)
    BY <2>2, <2>3, <2>5 DEF PendingSound, Underway
  <2> QED
    BY <2>4, <2>6
<1>4. ASSUME NEW resolved \in BOOLEAN, LrProofUnresolved(p, resolved)
      PROVE  id \in unresolved[Server]
  <2>1. unresolved \in [Nodes -> SUBSET Eph] /\ Server \in Nodes /\ p.dst \in Nodes
    BY <1>1 DEF TypeOK
  <2>2. CASE unresolved' = unresolved
    BY <2>2
  <2>3. CASE unresolved' = [unresolved EXCEPT ![p.dst] = @ \ {p.link_id}]
    BY <2>1, <2>3
  <2> QED
    BY <1>4, <2>2, <2>3 DEF LrProofUnresolved
<1> QED
  BY <1>2, <1>3, <1>4
  DEF Receive, handle_linkrequest, handle_linkproof, handle_lrproof, LrProofIgnored,
      LrProofUnknownKey, LrProofChecked

\* Losing a packet strands no link whose loss is not noted.
LEMMA LossKeepsUnderway ==
    ASSUME NEW p \in net, Lose(p), dropped' = dropped \cup {p.link_id}, NEW m, Underway(m)
    PROVE  Underway(m)'
<1>1. UNCHANGED <<peer_keys, pending_channels, pending_links>> /\ net' = net \ {p}
  BY DEF Lose
<1>2. CASE p.link_id = pending_channels[Server][m]
  BY <1>1, <1>2 DEF Underway
<1>3. CASE p.link_id # pending_channels[Server][m]
  <2>1. InFlight(pending_channels[Server][m]) => InFlight(pending_channels[Server][m])'
    BY <1>1, <1>3 DEF InFlight
  <2> QED
    BY <1>1, <2>1 DEF Underway
<1> QED
  BY <1>2, <1>3

\* The invariant holds at the start.
LEMMA ApiInvInit == ApiInit => ApiInv
<1> SUFFICES ASSUME ApiInit
             PROVE  ApiInv
  OBVIOUS
<1>1. TypeOK
  BY ServerAssumption, FreshAssumption
  DEF ApiInit, LinksInit, TypeOK, NoChannel, ChannelRec, Kind, NoKey
<1>2. AuthInv
  BY DEF ApiInit, LinksInit, AuthInv, RequestsUnique, PendingRequested, PacketsGenuine,
         AnswersRequested, Authenticated, NoChannel
<1>3. QueuesSound
  <2>1. <<>> \in Seq(Menu) /\ <<>> \in Seq(Refs) /\ Len(<<>>) = 0
    OBVIOUS
  <2>2. executed \in Seq({executed[k] : k \in DOMAIN executed}) /\ DOMAIN executed = {}
    BY DEF ApiInit
  <2> QED
    BY <2>1, <2>2 DEF ApiInit, QueuesSound
<1>4. KeysKnown
  BY ServerAssumption DEF ApiInit, KeysKnown
<1>5. PendingSound
  BY ServerAssumption DEF ApiInit, LinksInit, PendingSound
<1>6. UnresolvedSound
  BY ServerAssumption DEF ApiInit, LinksInit, UnresolvedSound
<1> QED
  BY <1>1, <1>2, <1>3, <1>4, <1>5, <1>6 DEF ApiInv

\* Every step of the API keeps the invariant.
LEMMA ApiInvNext == ApiInv /\ [ApiNext]_apiVars => ApiInv'
<1> SUFFICES ASSUME ApiInv, [ApiNext]_apiVars
             PROVE  ApiInv'
  OBVIOUS
<1>1. /\ TypeOK /\ AuthInv /\ QueuesSound /\ KeysKnown /\ PendingSound /\ UnresolvedSound
      /\ Server \in Nodes
  BY ServerAssumption DEF ApiInv
<1>2. ApiStep
  <2>1. CASE ApiNext
    BY <2>1, ApiSteps
  <2>2. CASE UNCHANGED apiVars
    <3>1. UNCHANGED <<written, nread, cmd_rx, batch, executed>> /\ Idle
      BY <2>2 DEF apiVars, tasks, Idle
    <3> QED
      BY <1>1, <3>1, QueuesUntouched DEF ApiStep
  <2> QED
    BY <2>1, <2>2
<1>3. QueuesSound' /\ HistoryGrows
  BY <1>2 DEF ApiStep, QueueStep
<1>4. \A m \in Nodes : Refused(m) => Refused(m)'
  BY <1>1, <1>3, RefusedStays
<1>10. ASSUME unresolved' = unresolved, requested \subseteq requested'
       PROVE  UnresolvedSound'
  BY <1>1, <1>4, <1>10 DEF UnresolvedSound
<1>5. CASE Idle
  <2>1. TypeOK' /\ AuthInv'
    BY <1>1, <1>5, TypeOKNext, AuthInvNext DEF Idle
  <2>2. KeysKnown' /\ \A m \in Nodes : Underway(m) => Underway(m)'
    BY <1>1, <1>5 DEF Idle, vars, KeysKnown, Underway, InFlight
  <2>3. PendingSound'
    BY <1>1, <1>4, <1>5, <2>2 DEF Idle, vars, PendingSound
  <2>4. UnresolvedSound'
    BY <1>5, <1>10 DEF Idle, vars
  <2> QED
    BY <1>3, <2>1, <2>2, <2>3, <2>4 DEF ApiInv
<1>6. CASE Learns
  <2>1. UNCHANGED <<channels, pending_channels, pending_links, unresolved, net, fresh, requested,
                    answered, dropped>>
    BY <1>6 DEF Learns, links
  <2>2. /\ peer_keys' \in [Nodes -> SUBSET Nodes]
        /\ \A m \in Nodes : peer_keys[m] \subseteq peer_keys'[m]
    <3>1. peer_keys \in [Nodes -> SUBSET Nodes]
      BY <1>1 DEF TypeOK
    <3>2. CASE UNCHANGED peer_keys
      BY <3>1, <3>2
    <3>3. ASSUME NEW n \in Nodes, NEW d \in Nodes,
                 peer_keys' = [peer_keys EXCEPT ![n] = peer_keys[n] \cup {d}]
          PROVE  /\ peer_keys' \in [Nodes -> SUBSET Nodes]
                 /\ \A m \in Nodes : peer_keys[m] \subseteq peer_keys'[m]
      <4>1. peer_keys[n] \cup {d} \in SUBSET Nodes
        BY <3>1
      <4>2. \A m \in Nodes : peer_keys'[m] = IF m = n THEN peer_keys[n] \cup {d}
                                             ELSE peer_keys[m]
        BY <3>1, <3>3
      <4> QED
        BY <3>1, <3>3, <4>1, <4>2
    <3> QED
      BY <1>6, <3>2, <3>3 DEF Learns
  <2>3. TypeOK'
    BY <1>1, <2>1, <2>2 DEF TypeOK
  <2>4. AuthInv'
    BY <1>1, <2>1, AuthInvShrinks
  <2>5. KeysKnown'
    BY <1>1, <1>6, <2>2 DEF Learns, KeysKnown
  <2>6. \A m \in Nodes : Underway(m) => Underway(m)'
    BY <1>1, <2>1, <2>2 DEF Underway, InFlight
  <2>7. PendingSound'
    BY <1>1, <1>4, <2>1, <2>6 DEF PendingSound
  <2>8. UnresolvedSound'
    BY <1>10, <2>1
  <2> QED
    BY <1>3, <2>3, <2>4, <2>5, <2>7, <2>8 DEF ApiInv
<1>7. CASE Connects
  <2>1. PICK m \in Nodes : /\ Begins(Server, m) /\ net \subseteq net'
                           /\ \/ m \in peer_addrs /\ LinkRequest(Server, m, fresh') \in net'
                              \/ Refused(m)'
    BY <1>7 DEF Connects
  <2>2. TypeOK' /\ AuthInv'
    BY <1>1, <2>1, BeginsTyped, BeginsAuth
  <2>3. UNCHANGED <<peer_keys, peer_addrs, dropped, unresolved>> /\ requested \subseteq requested'
    BY <1>7, <2>1 DEF Connects, Begins
  <2>4. KeysKnown'
    BY <1>1, <2>3 DEF KeysKnown
  <2>5. pending_channels'[Server][m] = fresh' /\ pending_links'[Server][m] = fresh'
    BY <1>1, <2>1 DEF Begins, TypeOK
  <2>6. Refused(m)' \/ Underway(m)'
    <3>1. LinkRequest(Server, m, fresh').link_id = fresh'
          /\ LinkRequest(Server, m, fresh').type = "LINKREQUEST"
      BY DEF LinkRequest
    <3>2. m \in peer_addrs => m \in peer_keys'[Server]
      BY <1>1, <2>3 DEF KeysKnown
    <3> QED
      BY <2>1, <2>5, <3>1, <3>2 DEF Underway, InFlight
  <2>7. ASSUME NEW b \in Nodes, b # m, pending_channels'[Server][b] # 0
        PROVE  Refused(b)' \/ Underway(b)'
    <3>1. /\ pending_channels'[Server][b] = pending_channels[Server][b]
          /\ pending_links'[Server][b] = pending_links[Server][b]
      BY <1>1, <2>1, <2>7 DEF Begins, TypeOK
    <3>2. Refused(b) \/ Underway(b)
      BY <1>1, <2>7, <3>1 DEF PendingSound
    <3>3. Underway(b) => Underway(b)'
      BY <2>1, <2>3, <3>1 DEF Underway, InFlight
    <3> QED
      BY <1>4, <3>2, <3>3
  <2>8. PendingSound'
    BY <2>6, <2>7 DEF PendingSound
  <2>9. UnresolvedSound'
    BY <1>10, <2>3
  <2> QED
    BY <1>3, <2>2, <2>4, <2>8, <2>9 DEF ApiInv
<1>8. CASE Frames
  <2>1. PICK p \in net : Receive(p) /\ dropped' = dropped \cup Ignored(p)
    BY <1>8 DEF Frames
  <2>2. TypeOK' /\ AuthInv'
    BY <1>1, <2>1, TypeOKNext, AuthInvNext DEF Next
  <2>3. UNCHANGED <<peer_keys, peer_addrs, requested>>
    BY <1>8, <2>1
    DEF Frames, Receive, handle_linkrequest, handle_linkproof, handle_lrproof, history
  <2>4. KeysKnown'
    BY <1>1, <2>3 DEF KeysKnown
  <2>5. ASSUME NEW m \in Nodes, pending_channels'[Server][m] # 0
        PROVE  Refused(m)' \/ Underway(m)'
    <3>1. CASE pending_channels[Server][m] = 0
      BY <1>1, <1>4, <2>1, <2>5, <3>1, FrameBeginsNothing
    <3>2. CASE pending_channels[Server][m] # 0
      <4>1. Refused(m) \/ Underway(m)
        BY <1>1, <3>2 DEF PendingSound
      <4>2. Underway(m) => Underway(m)'
        BY <1>1, <2>1, <2>5, <3>2, FrameKeepsUnderway
      <4> QED
        BY <1>4, <4>1, <4>2
    <3> QED
      BY <3>1, <3>2
  <2>6. PendingSound'
    BY <2>5 DEF PendingSound
  <2>7. UnresolvedSound'
    <3> SUFFICES ASSUME NEW id \in unresolved'[Server]
                 PROVE  \E m \in Nodes : /\ Refused(m)'
                                         /\ [from |-> Server, to |-> m, link_id |-> id] \in requested'
      BY DEF UnresolvedSound
    <3>1. PICK m \in Nodes :
              Refused(m) /\ [from |-> Server, to |-> m, link_id |-> id] \in requested
      BY <1>1, <2>1, FrameUnresolved
    <3> QED
      BY <1>4, <2>3, <3>1
  <2> QED
    BY <1>3, <2>2, <2>4, <2>6, <2>7 DEF ApiInv
<1>9. CASE Loses
  <2>1. PICK p \in net : Lose(p) /\ dropped' = dropped \cup {p.link_id}
    BY <1>9 DEF Loses
  <2>2. TypeOK' /\ AuthInv'
    BY <1>1, <2>1, TypeOKNext, AuthInvNext DEF Next
  <2>3. UNCHANGED <<peer_keys, peer_addrs, requested, unresolved, pending_channels>>
    BY <1>9, <2>1 DEF Loses, Lose, history
  <2>4. KeysKnown'
    BY <1>1, <2>3 DEF KeysKnown
  <2>5. \A m \in Nodes : Underway(m) => Underway(m)'
    BY <2>1, LossKeepsUnderway
  <2>6. PendingSound'
    BY <1>1, <1>4, <2>3, <2>5 DEF PendingSound
  <2>7. UnresolvedSound'
    BY <1>10, <2>3
  <2> QED
    BY <1>3, <2>2, <2>4, <2>6, <2>7 DEF ApiInv
<1> QED
  BY <1>2, <1>5, <1>6, <1>7, <1>8, <1>9 DEF ApiStep

\* However the commands of the clients and the frames interleave, whichever peers know the daemon
\* and whatever is lost, a link that connect left pending has its request or its answer in flight,
\* unless a connect to that peer was refused or one of the two was lost or ignored.
THEOREM PendingLinksAreUnderway == ApiSpec => []PendingIsUnderway
<1>1. ApiInv => PendingIsUnderway
  BY DEF ApiInv, PendingSound, PendingIsUnderway, Underway, InFlight
<1> QED
  BY <1>1, ApiInvInit, ApiInvNext, PTL DEF ApiSpec

-----------------------------------------------------------------------------
(* The API: answers and lines *)

Command(l) == l.cmd # "blank" /\ ~OnTheSpot(l)

\* The tables of the connections are maps, and a task is in one of its states.
TasksTyped ==
    /\ handler \in [Clients -> {"none", "reading", "waiting", "ended"}]
    /\ DOMAIN oneshot = Clients /\ oneshot = [c \in Clients |-> oneshot[c]]
    /\ DOMAIN answers = Clients /\ answers = [c \in Clients |-> answers[c]]

\* The lines of c that were executed, with their results.
Runs(c) ==
    {<<executed[k].n, executed[k].result>> : k \in {j \in DOMAIN executed : executed[j].conn = c}}

\* A command on its way to the loop: its connection waits for its result, and it was not executed.
Awaited(e) ==
    /\ handler[e.conn] = "waiting" /\ e.n = nread[e.conn] /\ oneshot[e.conn] = <<>>
    /\ Command(written[e.conn][e.n])
    /\ \A k \in DOMAIN executed : ~(executed[k].conn = e.conn /\ executed[k].n = e.n)

Waiting == {e \in Refs : Awaited(e)}

\* No connection has two commands in the channel q and the batch b.
OnePerConn(q, b) ==
    /\ \A i, j \in 1..Len(q) : q[i].conn = q[j].conn => i = j
    /\ \A i, j \in 1..Len(b) : b[i].conn = b[j].conn => i = j
    /\ \A i \in 1..Len(q) : \A j \in 1..Len(b) : q[i].conn # b[j].conn

CommandsSound ==
    /\ cmd_rx \in Seq(Waiting) /\ batch \in Seq(Waiting)
    /\ OnePerConn(cmd_rx, batch)

\* The history holds commands that were read, each once.
ExecutedSound ==
    /\ \A k \in DOMAIN executed :
          /\ executed[k].n <= nread[executed[k].conn]
          /\ Command(written[executed[k].conn][executed[k].n])
    /\ \A k, l \in DOMAIN executed :
          executed[k].conn = executed[l].conn /\ executed[k].n = executed[l].n => k = l

\* A result in a oneshot is that of the line its connection waits for.
ResultSound(c) ==
    \/ oneshot[c] = <<>>
    \/ /\ handler[c] = "waiting"
       /\ \E x \in Runs(c) : x[1] = nread[c] /\ oneshot[c] = <<x[2]>>

\* The answers s to the first m of the lines w of a task in state h are the results of their lines
\* among the executed ones, are in the order of the lines, and none is missing but that of the line
\* the task is busy with or ended on.
Right(n, r, l, ran) == IF OnTheSpot(l) THEN ~r.ok ELSE <<n, r>> \in ran

Truthful(s, w, m, h, ran) ==
    \A i \in 1..Len(s) :
        /\ s[i].n \in 1..m /\ (h = "waiting" => s[i].n < m)
        /\ w[s[i].n].cmd # "blank"
        /\ Right(s[i].n, s[i].result, w[s[i].n], ran)

InOrder(s) == \A i, j \in 1..Len(s) : i < j => s[i].n < s[j].n

Complete(s, w, m, h) ==
    \A n \in 1..m :
        \/ w[n].cmd = "blank"
        \/ \E i \in 1..Len(s) : s[i].n = n
        \/ n = m /\ h \in {"waiting", "ended"}

Matches(s, w, m, h, ran) ==
    /\ s \in Seq({s[i] : i \in DOMAIN s})
    /\ Len(s) <= m /\ (h = "waiting" => Len(s) < m)
    /\ Truthful(s, w, m, h, ran)
    /\ InOrder(s)
    /\ Complete(s, w, m, h)

AnswersSound(c) == Matches(answers[c], written[c], nread[c], handler[c], Runs(c))

AnswerInv ==
    /\ TasksTyped
    /\ CommandsSound
    /\ ExecutedSound
    /\ \A c \in Clients : ResultSound(c)
    /\ \A c \in Clients : AnswersSound(c)

\* More lines are written and more are executed, or the task starts or ends.
LEMMA MatchesKept ==
    ASSUME NEW s, NEW w, NEW v, NEW m \in Nat, NEW h, NEW g, NEW ran, NEW more,
           Matches(s, w, m, h, ran), ran \subseteq more,
           \A n \in 1..m : v[n] = w[n],
           g = h \/ g = "ended" \/ (h = "none" /\ g = "reading")
    PROVE  Matches(s, v, m, g, more)
<1>1. g = "waiting" => h = "waiting"
  OBVIOUS
<1>2. Truthful(s, v, m, g, more)
  <2> SUFFICES ASSUME NEW i \in 1..Len(s)
               PROVE  /\ s[i].n \in 1..m /\ (g = "waiting" => s[i].n < m)
                      /\ v[s[i].n].cmd # "blank"
                      /\ Right(s[i].n, s[i].result, v[s[i].n], more)
    BY DEF Truthful
  <2>1. /\ s[i].n \in 1..m /\ (h = "waiting" => s[i].n < m)
        /\ w[s[i].n].cmd # "blank"
        /\ Right(s[i].n, s[i].result, w[s[i].n], ran)
    BY DEF Matches, Truthful
  <2>2. v[s[i].n] = w[s[i].n]
    BY <2>1
  <2>3. Right(s[i].n, s[i].result, w[s[i].n], more)
    BY <2>1 DEF Right
  <2> QED
    BY <1>1, <2>1, <2>2, <2>3
<1>3. Complete(s, v, m, g)
  <2> SUFFICES ASSUME NEW n \in 1..m
               PROVE  \/ v[n].cmd = "blank"
                      \/ \E i \in 1..Len(s) : s[i].n = n
                      \/ n = m /\ g \in {"waiting", "ended"}
    BY DEF Complete
  <2>1. \/ w[n].cmd = "blank"
        \/ \E i \in 1..Len(s) : s[i].n = n
        \/ n = m /\ h \in {"waiting", "ended"}
    BY DEF Matches, Complete
  <2>2. v[n] = w[n]
    OBVIOUS
  <2> QED
    BY <2>1, <2>2
<1> QED
  BY <1>1, <1>2, <1>3 DEF Matches

\* A line is read: a blank one, one that is sent to the loop, or one on which the task ends.
LEMMA MatchesRead ==
    ASSUME NEW s, NEW w, NEW m \in Nat, NEW h, NEW ran,
           Matches(s, w, m, "reading", ran),
           (w[m + 1].cmd = "blank" /\ h = "reading") \/ h \in {"waiting", "ended"}
    PROVE  Matches(s, w, m + 1, h, ran)
<1>1. Len(s) \in Nat /\ Len(s) < m + 1
  BY DEF Matches
<1>2. Truthful(s, w, m + 1, h, ran)
  <2>1. Truthful(s, w, m, "reading", ran)
    BY DEF Matches
  <2> QED
    BY ONLY <2>1, m \in Nat DEF Truthful
<1>3. Complete(s, w, m + 1, h)
  <2> SUFFICES ASSUME NEW n \in 1..(m + 1)
               PROVE  \/ w[n].cmd = "blank"
                      \/ \E i \in 1..Len(s) : s[i].n = n
                      \/ n = m + 1 /\ h \in {"waiting", "ended"}
    BY DEF Complete
  <2>1. CASE n = m + 1
    BY <2>1
  <2>2. CASE n # m + 1
    <3>1. n \in 1..m
      BY <2>2
    <3>2. Complete(s, w, m, "reading")
      BY DEF Matches
    <3> QED
      BY ONLY <3>1, <3>2 DEF Complete
  <2> QED
    BY <2>1, <2>2
<1> QED
  BY <1>1, <1>2, <1>3 DEF Matches

\* An answer is written, of the line just read or of the one the task was waiting for.
LEMMA MatchesAnswered ==
    ASSUME NEW s, NEW w, NEW m \in Nat, NEW h, NEW ran, NEW l \in Nat, NEW a,
           Matches(s, w, l, h, ran),
           (h = "reading" /\ m = l + 1) \/ (h = "waiting" /\ m = l),
           a.n = m, w[m].cmd # "blank", Right(m, a.result, w[m], ran)
    PROVE  Matches(Append(s, a), w, m, "reading", ran)
<1> DEFINE S == {s[i] : i \in DOMAIN s}
           t == Append(s, a)
<1>1. s \in Seq(S)
  BY DEF Matches
<1>2. /\ t \in Seq(S \cup {a}) /\ Len(t) = Len(s) + 1 /\ Len(s) \in Nat
      /\ \A k \in 1..Len(s) : t[k] = s[k]
      /\ t[Len(s) + 1] = a
  <2> HIDE DEF S
  <2> QED
    BY <1>1, AppendFacts
<1> HIDE DEF t
<1>3. t \in Seq({t[i] : i \in DOMAIN t})
  <2> HIDE DEF S
  <2> QED
    BY <1>2, SeqOfElements
<1>4. Len(s) < m /\ 1 <= m
  BY <1>2 DEF Matches
<1>5. \A i \in 1..Len(s) :
          /\ s[i].n \in 1..m /\ s[i].n < m
          /\ w[s[i].n].cmd # "blank"
          /\ Right(s[i].n, s[i].result, w[s[i].n], ran)
  BY DEF Matches, Truthful
<1>6. \A i \in 1..Len(t) : i \in 1..Len(s) \/ i = Len(s) + 1
  BY <1>2
<1>7. Truthful(t, w, m, "reading", ran)
  <2> SUFFICES ASSUME NEW i \in 1..Len(t)
               PROVE  /\ t[i].n \in 1..m
                      /\ w[t[i].n].cmd # "blank"
                      /\ Right(t[i].n, t[i].result, w[t[i].n], ran)
    BY DEF Truthful
  <2>1. CASE i \in 1..Len(s)
    BY <1>2, <1>5, <2>1
  <2>2. CASE i = Len(s) + 1
    BY <1>2, <1>4, <2>2
  <2> QED
    BY <1>6, <2>1, <2>2
<1>8. InOrder(t)
  <2> SUFFICES ASSUME NEW i \in 1..Len(t), NEW j \in 1..Len(t), i < j
               PROVE  t[i].n < t[j].n
    BY DEF InOrder
  <2>1. i \in 1..Len(s)
    BY <1>2
  <2>2. CASE j \in 1..Len(s)
    <3>1. s[i].n < s[j].n
      BY <2>1, <2>2 DEF Matches, InOrder
    <3> QED
      BY <1>2, <2>1, <2>2, <3>1
  <2>3. CASE j = Len(s) + 1
    BY <1>2, <1>5, <2>1, <2>3
  <2> QED
    BY <1>6, <2>2, <2>3
<1>9. Complete(t, w, m, "reading")
  <2> SUFFICES ASSUME NEW n \in 1..m, w[n].cmd # "blank"
               PROVE  \E i \in 1..Len(t) : t[i].n = n
    BY DEF Complete
  <2>1. CASE n = m
    <3>1. Len(s) + 1 \in 1..Len(t) /\ t[Len(s) + 1].n = n
      BY <1>2, <2>1
    <3> QED
      BY <3>1
  <2>2. CASE n # m
    <3>1. n \in 1..l /\ ~(n = l /\ h \in {"waiting", "ended"})
      BY <2>2
    <3>2. Complete(s, w, l, h)
      BY DEF Matches
    <3>3. PICK i \in 1..Len(s) : s[i].n = n
      BY <3>1, <3>2 DEF Complete
    <3>4. i \in 1..Len(t) /\ t[i].n = n
      BY <1>2, <3>3
    <3> QED
      BY <3>4
  <2> QED
    BY <2>1, <2>2
<1>10. Len(t) <= m
  BY <1>2, <1>4
<1>11. Matches(t, w, m, "reading", ran)
  BY <1>3, <1>7, <1>8, <1>9, <1>10 DEF Matches
<1> QED
  BY <1>11 DEF t

\* A step leaves connection d alone.
Quiet(d) ==
    /\ handler'[d] = handler[d] /\ nread'[d] = nread[d]
    /\ oneshot'[d] = oneshot[d] /\ answers'[d] = answers[d]
    /\ \A k \in DOMAIN executed' : k \in DOMAIN executed \/ executed'[k].conn # d

\* What was executed stays so, with its result, and lines that were read stay what they were.
LEMMA HistoryKept ==
    ASSUME QueuesSound, HistoryGrows, NEW c \in Clients
    PROVE  /\ Runs(c) \subseteq Runs(c)'
           /\ nread[c] \in Nat
           /\ \A n \in 1..nread[c] : written'[c][n] = written[c][n]
<1>1. Runs(c) \subseteq Runs(c)'
  <2> SUFFICES ASSUME NEW x \in Runs(c)
               PROVE  x \in Runs(c)'
    OBVIOUS
  <2>1. PICK k \in DOMAIN executed :
            executed[k].conn = c /\ x = <<executed[k].n, executed[k].result>>
    BY DEF Runs
  <2>2. k \in DOMAIN executed' /\ executed'[k] = executed[k]
    BY DEF HistoryGrows
  <2>3. executed'[k].conn = c /\ x = <<executed'[k].n, executed'[k].result>>
    BY <2>1, <2>2
  <2> QED
    BY <2>2, <2>3 DEF Runs
<1>2. nread[c] \in Nat /\ nread[c] <= Len(written[c]) /\ Len(written[c]) \in Nat
  BY DEF QueuesSound
<1>3. \A n \in 1..nread[c] : n \in Nat /\ 1 <= n /\ n <= Len(written[c])
  BY ONLY <1>2
<1> QED
  BY <1>1, <1>2, <1>3 DEF HistoryGrows

\* A connection that a step leaves alone keeps its answers and its result.
LEMMA QuietKept ==
    ASSUME QueuesSound, HistoryGrows, NEW d \in Clients, Quiet(d), ResultSound(d), AnswersSound(d)
    PROVE  ResultSound(d)' /\ AnswersSound(d)'
<1>1. /\ Runs(d) \subseteq Runs(d)' /\ nread[d] \in Nat
      /\ \A n \in 1..nread[d] : written'[d][n] = written[d][n]
  BY HistoryKept
<1>2. ResultSound(d)'
  BY <1>1 DEF ResultSound, Quiet
<1>3. Matches(answers[d], written'[d], nread[d], handler[d], Runs(d)')
  BY <1>1, MatchesKept DEF AnswersSound
<1> QED
  BY <1>2, <1>3 DEF AnswersSound, Quiet

\* A command of a connection that a step leaves alone is still awaited.
LEMMA QuietAwaited ==
    ASSUME QueuesSound, HistoryGrows, NEW e, e \in Waiting, Quiet(e.conn)
    PROVE  e \in Waiting'
<1>1. e \in Refs /\ Awaited(e)
  BY DEF Waiting
<1>2. /\ e \in [conn : Clients, n : Nat] /\ e.conn \in Clients /\ e.n \in Nat
      /\ 1 <= e.n /\ e.n <= Len(written[e.conn])
  BY <1>1 DEF Refs
<1>3. e.n <= Len(written'[e.conn]) /\ written'[e.conn][e.n] = written[e.conn][e.n]
  BY <1>2 DEF HistoryGrows
<1>4. e \in Refs'
  BY <1>2, <1>3 DEF Refs
<1>5. ASSUME NEW k \in DOMAIN executed'
      PROVE  ~(executed'[k].conn = e.conn /\ executed'[k].n = e.n)
  <2>1. CASE k \in DOMAIN executed
    <3>1. executed'[k] = executed[k]
      BY <2>1 DEF HistoryGrows
    <3> QED
      BY <1>1, <2>1, <3>1 DEF Awaited
  <2>2. CASE k \notin DOMAIN executed
    BY <2>2 DEF Quiet
  <2> QED
    BY <2>1, <2>2
<1>6. Awaited(e)'
  BY <1>1, <1>3, <1>5 DEF Awaited, Quiet
<1> QED
  BY <1>4, <1>6 DEF Waiting

\* A sequence whose elements are in T is a sequence over T.
LEMMA SeqElementwise ==
    ASSUME NEW S, NEW T, NEW s \in Seq(S), \A i \in 1..Len(s) : s[i] \in T
    PROVE  s \in Seq(T)
  OBVIOUS

\* A command of a connection that has none in the queues.
LEMMA OneMore ==
    ASSUME NEW S, NEW q \in Seq(S), NEW b, NEW e \in S, OnePerConn(q, b),
           \A i \in 1..Len(q) : q[i].conn # e.conn,
           \A i \in 1..Len(b) : b[i].conn # e.conn
    PROVE  OnePerConn(Append(q, e), b)
<1>1. /\ Len(Append(q, e)) = Len(q) + 1 /\ Len(q) \in Nat
      /\ \A k \in 1..Len(q) : Append(q, e)[k] = q[k]
      /\ Append(q, e)[Len(q) + 1] = e
  BY AppendFacts
<1>2. PICK t : t = Append(q, e)
  OBVIOUS
<1>3. \A i \in 1..Len(t) : (i \in 1..Len(q) /\ t[i] = q[i]) \/ (i = Len(q) + 1 /\ t[i] = e)
  BY ONLY <1>1, <1>2
<1>4. ASSUME NEW i \in 1..Len(t), NEW j \in 1..Len(t), t[i].conn = t[j].conn
      PROVE  i = j
  <2>1. CASE i \in 1..Len(q) /\ t[i] = q[i] /\ j \in 1..Len(q) /\ t[j] = q[j]
    BY <1>4, <2>1 DEF OnePerConn
  <2>2. CASE i \in 1..Len(q) /\ t[i] = q[i] /\ t[j] = e
    BY <1>4, <2>2
  <2>3. CASE t[i] = e /\ j \in 1..Len(q) /\ t[j] = q[j]
    BY <1>4, <2>3
  <2> QED
    BY <1>3, <2>1, <2>2, <2>3
<1>5. ASSUME NEW i \in 1..Len(t), NEW j \in 1..Len(b)
      PROVE  t[i].conn # b[j].conn
  BY <1>3 DEF OnePerConn
<1>6. OnePerConn(t, b)
  BY <1>4, <1>5 DEF OnePerConn
<1> QED
  BY <1>2, <1>6

\* The first command of the batch leaves: no other is of its connection.
LEMMA OneLess ==
    ASSUME NEW S, NEW q, NEW b \in Seq(S), b # <<>>, OnePerConn(q, b)
    PROVE  /\ OnePerConn(q, Tail(b))
           /\ \A i \in 1..Len(q) : q[i].conn # Head(b).conn
           /\ \A i \in 1..Len(Tail(b)) : Tail(b)[i].conn # Head(b).conn
<1>1. /\ Len(Tail(b)) = Len(b) - 1 /\ Len(b) \in Nat /\ 1 <= Len(b) /\ Head(b) = b[1]
      /\ \A k \in 1..(Len(b) - 1) : Tail(b)[k] = b[k + 1]
  OBVIOUS
<1>2. PICK t : t = Tail(b)
  OBVIOUS
<1>3. \A i \in 1..Len(t) : i + 1 \in 1..Len(b) /\ t[i] = b[i + 1] /\ i \in Nat
  BY ONLY <1>1, <1>2
<1>4. 1 \in 1..Len(b)
  BY ONLY <1>1
<1>5. OnePerConn(q, t)
  <2>1. ASSUME NEW i \in 1..Len(t), NEW j \in 1..Len(t), t[i].conn = t[j].conn
        PROVE  i = j
    <3>1. b[i + 1].conn = b[j + 1].conn /\ i + 1 \in 1..Len(b) /\ j + 1 \in 1..Len(b)
      BY ONLY <1>3, <2>1
    <3>2. i + 1 = j + 1
      BY <3>1 DEF OnePerConn
    <3> QED
      BY <1>3, <3>2
  <2>2. ASSUME NEW i \in 1..Len(q), NEW j \in 1..Len(t)
        PROVE  q[i].conn # t[j].conn
    BY <1>3 DEF OnePerConn
  <2> QED
    BY <2>1, <2>2 DEF OnePerConn
<1>6. \A i \in 1..Len(t) : t[i].conn # b[1].conn
  BY <1>3, <1>4 DEF OnePerConn
<1> QED
  BY <1>1, <1>2, <1>4, <1>5, <1>6 DEF OnePerConn

\* A step of the loop or of the medium between two executions, or a line that a client writes:
\* no connection's task moves.
LEMMA NobodyActs ==
    ASSUME QueuesSound, QueuesSound', HistoryGrows, AnswerInv,
           UNCHANGED <<handler, nread, oneshot, answers, executed>>,
           \/ UNCHANGED <<cmd_rx, batch>>
           \/ batch = <<>> /\ batch' = cmd_rx /\ cmd_rx' = <<>>
    PROVE  AnswerInv'
<1>1. \A d \in Clients : Quiet(d)
  BY DEF Quiet
<1>2. TasksTyped'
  BY DEF AnswerInv, TasksTyped
<1>3. \A d \in Clients : ResultSound(d)' /\ AnswersSound(d)'
  BY <1>1, QuietKept DEF AnswerInv
<1>4. Waiting \subseteq Waiting'
  <2> SUFFICES ASSUME NEW e \in Waiting
               PROVE  e \in Waiting'
    OBVIOUS
  <2>1. e.conn \in Clients
    BY DEF Waiting, Refs
  <2> QED
    BY <1>1, <2>1, QuietAwaited
<1>5. CommandsSound'
  <2>1. cmd_rx \in Seq(Waiting') /\ batch \in Seq(Waiting')
    BY <1>4, SeqMonotonic DEF AnswerInv, CommandsSound
  <2>2. OnePerConn(cmd_rx, batch)
    BY DEF AnswerInv, CommandsSound
  <2>3. CASE UNCHANGED <<cmd_rx, batch>>
    BY <2>1, <2>2, <2>3 DEF CommandsSound
  <2>4. CASE batch = <<>> /\ batch' = cmd_rx /\ cmd_rx' = <<>>
    <3>1. <<>> \in Seq(Waiting') /\ Len(<<>>) = 0
      OBVIOUS
    <3>2. OnePerConn(<<>>, cmd_rx)
      BY <2>2, <3>1 DEF OnePerConn
    <3> QED
      BY <2>1, <2>4, <3>1, <3>2 DEF CommandsSound
  <2> QED
    BY <2>3, <2>4
<1>6. ExecutedSound'
  <2>1. ASSUME NEW k \in DOMAIN executed
        PROVE  /\ executed[k].n <= nread[executed[k].conn]
               /\ Command(written'[executed[k].conn][executed[k].n])
    <3>1. [conn |-> executed[k].conn, n |-> executed[k].n] \in Refs
      BY DEF QueuesSound
    <3>2. written'[executed[k].conn][executed[k].n] = written[executed[k].conn][executed[k].n]
      BY <3>1 DEF Refs, HistoryGrows
    <3> QED
      BY <3>2 DEF AnswerInv, ExecutedSound
  <2> QED
    BY <2>1 DEF AnswerInv, ExecutedSound
<1> QED
  BY <1>2, <1>3, <1>5, <1>6 DEF AnswerInv

\* A step of the task of connection c, which has no command under way.
LEMMA TaskActs ==
    ASSUME QueuesSound, QueuesSound', HistoryGrows, AnswerInv, NEW c \in Clients,
           \A d \in Clients : d # c => Quiet(d),
           handler[c] # "waiting" \/ oneshot[c] # <<>>,
           TasksTyped', ResultSound(c)', AnswersSound(c)',
           UNCHANGED <<executed, batch, written>>,
           nread'[c] = nread[c] \/ nread'[c] = nread[c] + 1,
           \/ UNCHANGED cmd_rx
           \/ /\ [conn |-> c, n |-> nread'[c]] \in Waiting'
              /\ cmd_rx' = Append(cmd_rx, [conn |-> c, n |-> nread'[c]])
    PROVE  AnswerInv'
<1>1. \A d \in Clients : ResultSound(d)' /\ AnswersSound(d)'
  BY QuietKept DEF AnswerInv
<1>2. cmd_rx \in Seq(Waiting) /\ batch \in Seq(Waiting) /\ OnePerConn(cmd_rx, batch)
  BY DEF AnswerInv, CommandsSound
<1>3. ASSUME NEW e \in Waiting
      PROVE  e.conn # c /\ e \in Waiting'
  <2>1. e.conn \in Clients /\ Awaited(e)
    BY DEF Waiting, Refs
  <2>2. e.conn # c
    BY <2>1 DEF Awaited
  <2> QED
    BY <2>1, <2>2, QuietAwaited
<1>4. CommandsSound'
  <2>1. cmd_rx \in Seq(Waiting') /\ batch \in Seq(Waiting')
    BY <1>2, <1>3, SeqMonotonic
  <2>2. CASE UNCHANGED cmd_rx
    BY <1>2, <2>1, <2>2 DEF CommandsSound
  <2>3. ASSUME [conn |-> c, n |-> nread'[c]] \in Waiting',
               cmd_rx' = Append(cmd_rx, [conn |-> c, n |-> nread'[c]])
        PROVE  CommandsSound'
    <3>1. PICK e : e = [conn |-> c, n |-> nread'[c]]
      OBVIOUS
    <3>2. PICK W : W = Waiting'
      OBVIOUS
    <3>3. e \in W /\ cmd_rx \in Seq(W) /\ cmd_rx' = Append(cmd_rx, e) /\ e.conn = c
      BY <2>1, <2>3, <3>1, <3>2
    <3>4. /\ \A i \in 1..Len(cmd_rx) : cmd_rx[i].conn # e.conn
          /\ \A i \in 1..Len(batch) : batch[i].conn # e.conn
      <4>1. /\ \A i \in 1..Len(cmd_rx) : cmd_rx[i] \in Waiting
            /\ \A i \in 1..Len(batch) : batch[i] \in Waiting
        BY <1>2
      <4> QED
        BY <1>3, <3>3, <4>1
    <3>5. OnePerConn(Append(cmd_rx, e), batch)
      BY <1>2, <3>3, <3>4, OneMore
    <3>6. Append(cmd_rx, e) \in Seq(W)
      BY <3>3
    <3> QED
      BY <2>1, <3>2, <3>3, <3>5, <3>6 DEF CommandsSound
  <2> QED
    BY <2>2, <2>3
<1>5. ExecutedSound'
  <2>1. \A d \in Clients : nread[d] \in Nat /\ nread'[d] \in Nat /\ nread[d] <= nread'[d]
    BY DEF QueuesSound, Quiet
  <2>2. \A k \in DOMAIN executed : executed[k].conn \in Clients /\ executed[k].n \in Nat
    BY DEF QueuesSound, Refs
  <2>3. \A k \in DOMAIN executed : executed[k].n <= nread'[executed[k].conn]
    BY <2>1, <2>2 DEF AnswerInv, ExecutedSound
  <2> QED
    BY <2>3 DEF AnswerInv, ExecutedSound
<1> QED
  BY <1>1, <1>4, <1>5 DEF AnswerInv

\* A command of connection e.conn is executed.
LEMMA LoopActs ==
    ASSUME QueuesSound, QueuesSound', HistoryGrows, AnswerInv, NEW cmds, NEW r, Executes(cmds, r)
    PROVE  AnswerInv'
<1>1. PICK e : e = Head(batch)
  OBVIOUS
<1>2. PICK x : x = [conn |-> e.conn, n |-> e.n, result |-> r]
  OBVIOUS
<1>3. /\ batch # <<>> /\ batch' = Tail(batch) /\ executed' = Append(executed, x)
      /\ oneshot' = [oneshot EXCEPT ![e.conn] = <<r>>]
      /\ UNCHANGED <<handler, written, nread, answers, cmd_rx>>
  BY <1>1, <1>2 DEF Executes, tasks
<1>4. cmd_rx \in Seq(Waiting) /\ batch \in Seq(Waiting) /\ OnePerConn(cmd_rx, batch)
  BY DEF AnswerInv, CommandsSound
<1>5. e \in Waiting /\ Tail(batch) \in Seq(Waiting)
  BY <1>1, <1>3, <1>4
<1>6. e \in Refs /\ e.conn \in Clients /\ Awaited(e)
  BY <1>5 DEF Waiting, Refs
<1>7. /\ DOMAIN executed = 1..Len(executed) /\ Len(executed) \in Nat
      /\ DOMAIN executed' = 1..(Len(executed) + 1)
      /\ \A k \in 1..Len(executed) : executed'[k] = executed[k]
      /\ executed'[Len(executed) + 1] = x
  <2>1. PICK S : S = {executed[k] : k \in DOMAIN executed}
    OBVIOUS
  <2>2. executed \in Seq(S)
    BY <2>1 DEF QueuesSound
  <2> QED
    BY <1>3, <2>2, AppendFacts
<1>8. x.conn = e.conn /\ x.n = e.n /\ x.result = r
  BY <1>2
<1>9. TasksTyped'
  BY <1>3, <1>6 DEF AnswerInv, TasksTyped
<1>10. oneshot'[e.conn] = <<r>> /\ \A d \in Clients : d # e.conn => oneshot'[d] = oneshot[d]
  BY <1>3, <1>6 DEF AnswerInv, TasksTyped
<1>11. \A k \in DOMAIN executed' : k \in DOMAIN executed \/ (k = Len(executed) + 1 /\ executed'[k] = x)
  BY ONLY <1>7
<1>12. \A d \in Clients : d # e.conn => Quiet(d)
  BY <1>3, <1>8, <1>10, <1>11 DEF Quiet
<1>13. ResultSound(e.conn)'
  <2>1. handler'[e.conn] = "waiting" /\ nread'[e.conn] = e.n
    BY <1>3, <1>6 DEF Awaited
  <2>2. PICK k : k = Len(executed) + 1
    OBVIOUS
  <2>3. k \in DOMAIN executed' /\ executed'[k] = x
    BY <1>7, <2>2
  <2>4. <<e.n, r>> \in Runs(e.conn)'
    BY <1>8, <2>3 DEF Runs
  <2>5. PICK y : y = <<e.n, r>>
    OBVIOUS
  <2>6. y \in Runs(e.conn)' /\ y[1] = nread'[e.conn] /\ oneshot'[e.conn] = <<y[2]>>
    BY <1>10, <2>1, <2>4, <2>5
  <2> QED
    BY <2>1, <2>6 DEF ResultSound
<1>14. AnswersSound(e.conn)'
  <2>1. /\ Runs(e.conn) \subseteq Runs(e.conn)' /\ nread[e.conn] \in Nat
        /\ \A n \in 1..nread[e.conn] : written'[e.conn][n] = written[e.conn][n]
    BY <1>6, HistoryKept
  <2>2. AnswersSound(e.conn)
    BY <1>6 DEF AnswerInv
  <2>3. Matches(answers[e.conn], written'[e.conn], nread[e.conn], handler[e.conn], Runs(e.conn)')
    BY <2>1, <2>2, MatchesKept DEF AnswersSound
  <2> QED
    BY <1>3, <2>3 DEF AnswersSound
<1>15. \A d \in Clients : ResultSound(d)' /\ AnswersSound(d)'
  BY <1>12, <1>13, <1>14, QuietKept DEF AnswerInv
<1>16. ASSUME NEW f \in Waiting, f.conn # e.conn
       PROVE  f \in Waiting'
  <2>1. f.conn \in Clients
    BY DEF Waiting, Refs
  <2> QED
    BY <1>12, <1>16, <2>1, QuietAwaited
<1>17. CommandsSound'
  <2>1. /\ OnePerConn(cmd_rx, Tail(batch))
        /\ \A i \in 1..Len(cmd_rx) : cmd_rx[i].conn # e.conn
        /\ \A i \in 1..Len(Tail(batch)) : Tail(batch)[i].conn # e.conn
    BY <1>1, <1>3, <1>4, OneLess
  <2>2. \A i \in 1..Len(cmd_rx) : cmd_rx[i] \in Waiting'
    BY <1>4, <1>16, <2>1
  <2>3. \A i \in 1..Len(Tail(batch)) : Tail(batch)[i] \in Waiting'
    <3>1. \A i \in 1..Len(Tail(batch)) : Tail(batch)[i] \in Waiting
      BY <1>5
    <3> QED
      BY <1>16, <2>1, <3>1
  <2>4. cmd_rx \in Seq(Waiting') /\ Tail(batch) \in Seq(Waiting')
    BY <1>4, <1>5, <2>2, <2>3, SeqElementwise
  <2> QED
    BY <1>3, <2>1, <2>4 DEF CommandsSound
<1>18. ExecutedSound'
  <2>1. ASSUME NEW k \in DOMAIN executed'
        PROVE  /\ executed'[k].n <= nread'[executed'[k].conn]
               /\ Command(written'[executed'[k].conn][executed'[k].n])
    <3>1. CASE k \in DOMAIN executed
      BY <1>3, <1>7, <3>1 DEF AnswerInv, ExecutedSound
    <3>2. CASE executed'[k] = x
      <4>1. nread[e.conn] \in Nat
        BY <1>6 DEF QueuesSound
      <4> QED
        BY <1>3, <1>6, <1>8, <3>2, <4>1 DEF Awaited
    <3> QED
      BY <1>11, <3>1, <3>2
  <2>2. ASSUME NEW k \in DOMAIN executed', NEW l \in DOMAIN executed',
               executed'[k].conn = executed'[l].conn, executed'[k].n = executed'[l].n
        PROVE  k = l
    <3>1. \A j \in DOMAIN executed : executed'[j] = executed[j]
      BY <1>7
    <3>2. \A j \in DOMAIN executed : ~(executed[j].conn = x.conn /\ executed[j].n = x.n)
      BY <1>6, <1>8 DEF Awaited
    <3>3. CASE k \in DOMAIN executed /\ l \in DOMAIN executed
      BY <2>2, <3>1, <3>3 DEF AnswerInv, ExecutedSound
    <3>4. CASE k \in DOMAIN executed /\ executed'[l] = x
      BY <2>2, <3>1, <3>2, <3>4
    <3>5. CASE executed'[k] = x /\ l \in DOMAIN executed
      BY <2>2, <3>1, <3>2, <3>5
    <3> QED
      BY <1>11, <3>3, <3>4, <3>5
  <2> QED
    BY <2>1, <2>2 DEF ExecutedSound
<1> QED
  BY <1>9, <1>15, <1>17, <1>18 DEF AnswerInv

\* The task of c answers line n, the one it has just read or the one it was waiting for.
LEMMA TaskResponds ==
    ASSUME QueuesSound, AnswerInv, NEW c \in Clients, NEW n, NEW r, Respond(c, n, r),
           n = nread'[c], UNCHANGED <<written, executed>>,
           (handler[c] = "reading" /\ n = nread[c] + 1) \/ (handler[c] = "waiting" /\ n = nread[c]),
           written[c][n].cmd # "blank", Right(n, r, written[c][n], Runs(c))
    PROVE  /\ handler'[c] # "waiting" /\ handler' \in [Clients -> {"none", "reading", "waiting", "ended"}]
           /\ DOMAIN answers' = Clients /\ answers' = [d \in Clients |-> answers'[d]]
           /\ \A d \in Clients : d # c => handler'[d] = handler[d] /\ answers'[d] = answers[d]
           /\ AnswersSound(c)'
<1>1. nread[c] \in Nat /\ n \in Nat
  BY DEF QueuesSound
<1>2. Matches(answers[c], written[c], nread[c], handler[c], Runs(c))
  BY DEF AnswerInv, AnswersSound
<1>3. Runs(c)' = Runs(c)
  BY DEF Runs
<1>4. CASE /\ answers' = [answers EXCEPT ![c] = Append(answers[c], [n |-> n, result |-> r])]
           /\ handler' = [handler EXCEPT ![c] = "reading"]
  <2>1. PICK a : a = [n |-> n, result |-> r]
    OBVIOUS
  <2>2. a.n = n /\ a.result = r
    BY <2>1
  <2>3. Matches(Append(answers[c], a), written[c], n, "reading", Runs(c))
    BY <1>1, <1>2, <2>2, MatchesAnswered
  <2>4. /\ handler'[c] = "reading" /\ answers'[c] = Append(answers[c], a)
        /\ \A d \in Clients : d # c => handler'[d] = handler[d] /\ answers'[d] = answers[d]
        /\ handler' \in [Clients -> {"none", "reading", "waiting", "ended"}]
        /\ DOMAIN answers' = Clients /\ answers' = [d \in Clients |-> answers'[d]]
    BY <1>4, <2>1 DEF AnswerInv, TasksTyped
  <2>5. AnswersSound(c)'
    BY <1>3, <2>3, <2>4 DEF AnswersSound
  <2> QED
    BY <2>4, <2>5
<1>5. CASE handler' = [handler EXCEPT ![c] = "ended"] /\ UNCHANGED answers
  <2>1. Matches(answers[c], written[c], n, "ended", Runs(c))
    <3>1. CASE handler[c] = "reading" /\ n = nread[c] + 1
      BY <1>1, <1>2, <3>1, MatchesRead
    <3>2. CASE handler[c] = "waiting" /\ n = nread[c]
      BY <1>1, <1>2, <3>2, MatchesKept
    <3> QED
      BY <3>1, <3>2
  <2>2. /\ handler'[c] = "ended" /\ answers'[c] = answers[c]
        /\ \A d \in Clients : d # c => handler'[d] = handler[d] /\ answers'[d] = answers[d]
        /\ handler' \in [Clients -> {"none", "reading", "waiting", "ended"}]
        /\ DOMAIN answers' = Clients /\ answers' = [d \in Clients |-> answers'[d]]
    BY <1>5 DEF AnswerInv, TasksTyped
  <2>3. AnswersSound(c)'
    BY <1>3, <2>1, <2>2 DEF AnswersSound
  <2> QED
    BY <2>2, <2>3
<1> QED
  BY <1>4, <1>5 DEF Respond

\* A task reads a line that it answers itself, or skips.
LEMMA TaskReads ==
    ASSUME QueuesSound, QueuesSound', HistoryGrows, AnswerInv, NEW c \in Clients,
           ReadLine(c), UNCHANGED <<cmd_rx, oneshot>>,
           \/ /\ written[c][nread'[c]].cmd = "blank"
              /\ UNCHANGED <<handler, answers>>
           \/ /\ written[c][nread'[c]].cmd # "blank" /\ OnTheSpot(written[c][nread'[c]])
              /\ Respond(c, nread'[c], Outcome(FALSE))
    PROVE  AnswerInv'
<1>1. PICK n : n = nread'[c]
  OBVIOUS
<1>2. /\ handler[c] = "reading" /\ UNCHANGED <<written, batch, executed>>
      /\ nread' = [nread EXCEPT ![c] = nread[c] + 1]
  BY DEF ReadLine
<1>3. nread[c] \in Nat /\ n = nread[c] + 1 /\ \A d \in Clients : d # c => nread'[d] = nread[d]
  BY <1>1, <1>2 DEF QueuesSound
<1>4. oneshot[c] = <<>>
  BY <1>2 DEF AnswerInv, ResultSound
<1>5. ResultSound(c)'
  BY <1>4 DEF ResultSound
<1>6. Runs(c)' = Runs(c)
  BY <1>2 DEF Runs
<1>7. /\ handler' \in [Clients -> {"none", "reading", "waiting", "ended"}]
      /\ DOMAIN answers' = Clients /\ answers' = [d \in Clients |-> answers'[d]]
      /\ \A d \in Clients : d # c => handler'[d] = handler[d] /\ answers'[d] = answers[d]
      /\ AnswersSound(c)'
  <2>1. CASE written[c][n].cmd = "blank" /\ UNCHANGED <<handler, answers>>
    <3>1. Matches(answers[c], written[c], nread[c], "reading", Runs(c))
      BY <1>2 DEF AnswerInv, AnswersSound
    <3>2. Matches(answers[c], written[c], nread[c] + 1, "reading", Runs(c))
      BY <1>3, <2>1, <3>1, MatchesRead
    <3>3. AnswersSound(c)'
      BY <1>1, <1>2, <1>3, <1>6, <2>1, <3>2 DEF AnswersSound
    <3>4. /\ handler' \in [Clients -> {"none", "reading", "waiting", "ended"}]
          /\ DOMAIN answers' = Clients /\ answers' = [d \in Clients |-> answers'[d]]
      BY <2>1 DEF AnswerInv, TasksTyped
    <3> QED
      BY <2>1, <3>3, <3>4
  <2>2. CASE /\ written[c][n].cmd # "blank" /\ OnTheSpot(written[c][n])
             /\ Respond(c, n, Outcome(FALSE))
    <3>1. Right(n, Outcome(FALSE), written[c][n], Runs(c))
      BY <2>2 DEF Right, Outcome
    <3> QED
      BY <1>1, <1>2, <1>3, <2>2, <3>1, TaskResponds
  <2> QED
    BY <1>1, <2>1, <2>2
<1>8. TasksTyped'
  BY <1>7 DEF AnswerInv, TasksTyped
<1>9. \A d \in Clients : d # c => Quiet(d)
  BY <1>2, <1>3, <1>7 DEF Quiet
<1> QED
  BY <1>1, <1>2, <1>3, <1>5, <1>7, <1>8, <1>9, TaskActs

\* A task reads a line and sends its command.
LEMMA TaskSends ==
    ASSUME QueuesSound, QueuesSound', HistoryGrows, AnswerInv, NEW c \in Clients,
           ReadLine(c), Command(written[c][nread'[c]]),
           cmd_rx' = Append(cmd_rx, [conn |-> c, n |-> nread'[c]]),
           oneshot' = [oneshot EXCEPT ![c] = <<>>],
           handler' = [handler EXCEPT ![c] = "waiting"],
           UNCHANGED answers
    PROVE  AnswerInv'
<1>1. PICK n : n = nread'[c]
  OBVIOUS
<1>2. /\ handler[c] = "reading" /\ UNCHANGED <<written, batch, executed>>
      /\ nread' = [nread EXCEPT ![c] = nread[c] + 1] /\ nread[c] < Len(written[c])
  BY DEF ReadLine
<1>3. /\ nread[c] \in Nat /\ n = nread[c] + 1 /\ n \in Nat /\ Len(written[c]) \in Nat
      /\ \A d \in Clients : d # c => nread'[d] = nread[d]
  BY <1>1, <1>2 DEF QueuesSound
<1>4. /\ handler'[c] = "waiting" /\ oneshot'[c] = <<>>
      /\ \A d \in Clients : d # c => handler'[d] = handler[d] /\ oneshot'[d] = oneshot[d]
  BY DEF AnswerInv, TasksTyped
<1>5. TasksTyped'
  BY DEF AnswerInv, TasksTyped
<1>6. ResultSound(c)'
  BY <1>4 DEF ResultSound
<1>7. AnswersSound(c)'
  <2>1. Matches(answers[c], written[c], nread[c], "reading", Runs(c))
    BY <1>2 DEF AnswerInv, AnswersSound
  <2>2. Matches(answers[c], written[c], nread[c] + 1, "waiting", Runs(c))
    BY <1>3, <2>1, MatchesRead
  <2>3. Runs(c)' = Runs(c)
    BY <1>2 DEF Runs
  <2> QED
    BY <1>1, <1>2, <1>3, <1>4, <2>2, <2>3 DEF AnswersSound
<1>8. \A d \in Clients : d # c => Quiet(d)
  BY <1>2, <1>3, <1>4 DEF Quiet
<1>9. [conn |-> c, n |-> nread'[c]] \in Waiting'
  <2>1. PICK e : e = [conn |-> c, n |-> n]
    OBVIOUS
  <2>2. e.conn = c /\ e.n = n /\ e \in [conn : Clients, n : Nat]
    BY <1>3, <2>1
  <2>3. e \in Refs'
    BY <1>2, <1>3, <2>2 DEF Refs
  <2>4. ASSUME NEW k \in DOMAIN executed, executed[k].conn = c
        PROVE  executed[k].n # n
    <3>1. [conn |-> executed[k].conn, n |-> executed[k].n] \in Refs
      BY DEF QueuesSound
    <3>2. executed[k].n \in Nat
      BY <3>1 DEF Refs
    <3>3. executed[k].n <= nread[c]
      BY <2>4 DEF AnswerInv, ExecutedSound
    <3> QED
      BY ONLY <1>3, <3>2, <3>3
  <2>5. Awaited(e)'
    BY <1>1, <1>2, <1>4, <2>2, <2>4 DEF Awaited
  <2> QED
    BY <1>1, <2>1, <2>3, <2>5 DEF Waiting
<1> QED
  BY <1>1, <1>2, <1>3, <1>5, <1>6, <1>7, <1>8, <1>9, TaskActs

\* A task gets its result and answers.
LEMMA TaskReplies ==
    ASSUME QueuesSound, QueuesSound', HistoryGrows, AnswerInv, NEW c \in Clients, Reply(c)
    PROVE  AnswerInv'
<1>1. /\ handler[c] = "waiting" /\ oneshot[c] # <<>>
      /\ oneshot' = [oneshot EXCEPT ![c] = <<>>]
      /\ UNCHANGED <<written, nread, cmd_rx, batch, executed>>
  BY DEF Reply
<1>2. PICK x \in Runs(c) : x[1] = nread[c] /\ oneshot[c] = <<x[2]>>
  BY <1>1 DEF AnswerInv, ResultSound
<1>3. PICK k \in DOMAIN executed :
          executed[k].conn = c /\ x = <<executed[k].n, executed[k].result>>
  BY DEF Runs
<1>4. PICK r : r = x[2]
  OBVIOUS
<1>5. PICK n : n = nread[c]
  OBVIOUS
<1>6. Head(oneshot[c]) = r
  BY <1>2, <1>4
<1>7. Respond(c, n, r)
  BY <1>5, <1>6 DEF Reply
<1>8. executed[k].n = n /\ <<n, r>> \in Runs(c)
  BY <1>2, <1>3, <1>4, <1>5
<1>9. Command(written[c][n])
  BY <1>3, <1>8 DEF AnswerInv, ExecutedSound
<1>10. written[c][n].cmd # "blank" /\ Right(n, r, written[c][n], Runs(c))
  BY <1>8, <1>9 DEF Command, Right
<1>11. /\ handler'[c] # "waiting"
       /\ handler' \in [Clients -> {"none", "reading", "waiting", "ended"}]
       /\ DOMAIN answers' = Clients /\ answers' = [d \in Clients |-> answers'[d]]
       /\ \A d \in Clients : d # c => handler'[d] = handler[d] /\ answers'[d] = answers[d]
       /\ AnswersSound(c)'
  <2>1. n = nread'[c]
    BY <1>1, <1>5
  <2> QED
    BY <1>1, <1>5, <1>7, <1>10, <2>1, TaskResponds
<1>12. oneshot'[c] = <<>> /\ \A d \in Clients : d # c => oneshot'[d] = oneshot[d]
  BY <1>1 DEF AnswerInv, TasksTyped
<1>13. TasksTyped'
  BY <1>1, <1>11 DEF AnswerInv, TasksTyped
<1>14. ResultSound(c)'
  BY <1>12 DEF ResultSound
<1>15. \A d \in Clients : d # c => Quiet(d)
  BY <1>1, <1>11, <1>12 DEF Quiet
<1> QED
  BY <1>1, <1>11, <1>13, <1>14, <1>15, TaskActs

\* A task starts, or ends with its connection.
LEMMA TaskStartsOrEnds ==
    ASSUME QueuesSound, QueuesSound', HistoryGrows, AnswerInv, NEW c \in Clients,
           \/ handler[c] = "none" /\ handler' = [handler EXCEPT ![c] = "reading"]
           \/ handler[c] = "reading" /\ handler' = [handler EXCEPT ![c] = "ended"],
           UNCHANGED <<written, nread, answers, cmd_rx, batch, oneshot, executed>>
    PROVE  AnswerInv'
<1>1. /\ handler' \in [Clients -> {"none", "reading", "waiting", "ended"}]
      /\ \A d \in Clients : d # c => handler'[d] = handler[d]
      /\ handler'[c] = "ended" \/ (handler[c] = "none" /\ handler'[c] = "reading")
      /\ handler[c] # "waiting"
  BY DEF AnswerInv, TasksTyped
<1>2. TasksTyped'
  BY <1>1 DEF AnswerInv, TasksTyped
<1>3. oneshot[c] = <<>>
  BY <1>1 DEF AnswerInv, ResultSound
<1>4. ResultSound(c)'
  BY <1>3 DEF ResultSound
<1>5. Matches(answers[c], written[c], nread[c], handler'[c], Runs(c))
  <2>1. Matches(answers[c], written[c], nread[c], handler[c], Runs(c)) /\ nread[c] \in Nat
    BY DEF AnswerInv, AnswersSound, QueuesSound
  <2> QED
    BY <1>1, <2>1, MatchesKept
<1>6. AnswersSound(c)'
  BY <1>5 DEF AnswersSound, Runs
<1>7. \A d \in Clients : d # c => Quiet(d)
  BY <1>1 DEF Quiet
<1> QED
  BY <1>1, <1>2, <1>4, <1>6, <1>7, TaskActs

\* Without lines there is nothing to answer.
LEMMA AnswerInvInit == ApiInit => AnswerInv
<1> SUFFICES ASSUME ApiInit
             PROVE  AnswerInv
  OBVIOUS
<1>1. <<>> \in Seq(Waiting) /\ Len(<<>>) = 0 /\ DOMAIN <<>> = {}
  OBVIOUS
<1>2. TasksTyped
  BY DEF ApiInit, TasksTyped
<1>3. CommandsSound
  BY <1>1 DEF ApiInit, CommandsSound, OnePerConn
<1>4. ExecutedSound
  BY <1>1 DEF ApiInit, ExecutedSound
<1>5. \A c \in Clients : ResultSound(c)
  BY DEF ApiInit, ResultSound
<1>6. ASSUME NEW c \in Clients
      PROVE  AnswersSound(c)
  <2>1. answers[c] = <<>> /\ nread[c] = 0 /\ handler[c] = "none"
    BY DEF ApiInit
  <2>2. <<>> \in Seq({<<>>[i] : i \in DOMAIN <<>>})
    BY SeqOfElements
  <2>3. /\ Truthful(<<>>, written[c], 0, "none", Runs(c)) /\ InOrder(<<>>)
        /\ Complete(<<>>, written[c], 0, "none")
    BY <1>1 DEF Truthful, InOrder, Complete
  <2>4. Matches(<<>>, written[c], 0, "none", Runs(c))
    BY <1>1, <2>2, <2>3 DEF Matches
  <2> QED
    BY <2>1, <2>4 DEF AnswersSound
<1> QED
  BY <1>2, <1>3, <1>4, <1>5, <1>6 DEF AnswerInv

\* Every step of the API keeps the answers right.
LEMMA AnswerInvNext == ApiInv /\ AnswerInv /\ [ApiNext]_apiVars => AnswerInv'
<1> SUFFICES ASSUME ApiInv, AnswerInv, [ApiNext]_apiVars
             PROVE  AnswerInv'
  OBVIOUS
<1>1. QueuesSound /\ QueuesSound' /\ HistoryGrows
  <2>1. CASE ApiNext
    BY <2>1, ApiSteps DEF ApiInv, ApiStep, QueueStep
  <2>2. CASE UNCHANGED apiVars
    <3>1. UNCHANGED <<written, nread, cmd_rx, batch, executed>>
      BY <2>2 DEF apiVars, tasks
    <3> QED
      BY <3>1, QueuesUntouched DEF ApiInv, QueueStep
  <2> QED
    BY <2>1, <2>2
<1>2. ASSUME UNCHANGED <<handler, nread, oneshot, answers, executed, cmd_rx, batch>>
      PROVE  AnswerInv'
  BY <1>1, <1>2, NobodyActs
<1>3. ASSUME NEW c \in Clients, ClientWrites(c) \/ ClientCloses(c)
      PROVE  AnswerInv'
  BY <1>2, <1>3 DEF ClientWrites, ClientCloses
<1>4. ASSUME NEW c \in Clients, run_api_server(c) \/ ReadEnd(c)
      PROVE  AnswerInv'
  BY <1>1, <1>4, TaskStartsOrEnds DEF run_api_server, ReadEnd
<1>5. ASSUME NEW c \in Clients, Reply(c)
      PROVE  AnswerInv'
  BY <1>1, <1>5, TaskReplies
<1>6. ASSUME NEW c \in Clients, ReadBlank(c)
      PROVE  AnswerInv'
  BY <1>1, <1>6, TaskReads DEF ReadBlank
<1>7. ASSUME NEW c \in Clients, ReadInvalid(c)
      PROVE  AnswerInv'
  <2>1. written[c][nread'[c]].cmd # "blank" /\ OnTheSpot(written[c][nread'[c]])
    BY <1>7 DEF ReadInvalid, OnTheSpot
  <2> QED
    BY <1>1, <1>7, <2>1, TaskReads DEF ReadInvalid
<1>8. ASSUME NEW c \in Clients, NEW cmd, cmd # "blank", cmd # "invalid", Dispatches(c, cmd)
      PROVE  AnswerInv'
  <2>1. ReadLine(c) /\ written[c][nread'[c]].cmd = cmd
    BY <1>8 DEF Dispatches
  <2>2. ASSUME written[c][nread'[c]].arg = "malformed",
               Respond(c, nread'[c], Outcome(FALSE)),
               UNCHANGED <<cmd_rx, oneshot>>
        PROVE  AnswerInv'
    <3>1. OnTheSpot(written[c][nread'[c]])
      BY <2>2 DEF OnTheSpot
    <3> QED
      BY <1>1, <1>8, <2>1, <2>2, <3>1, TaskReads
  <2>3. ASSUME written[c][nread'[c]].arg # "malformed",
               cmd_rx' = Append(cmd_rx, [conn |-> c, n |-> nread'[c]]),
               oneshot' = [oneshot EXCEPT ![c] = <<>>],
               handler' = [handler EXCEPT ![c] = "waiting"],
               UNCHANGED answers
        PROVE  AnswerInv'
    <3>1. Command(written[c][nread'[c]])
      BY <1>8, <2>1, <2>3 DEF Command, OnTheSpot
    <3> QED
      BY <1>1, <2>1, <2>3, <3>1, TaskSends
  <2> QED
    BY <1>8, <2>2, <2>3 DEF Dispatches
<1>9. ASSUME NEW c \in Clients, handle_connection(c)
      PROVE  AnswerInv'
  <2>1. \/ ReadBlank(c) \/ ReadInvalid(c) \/ ReadEnd(c) \/ Reply(c)
        \/ \E cmd \in {"express", "publish", "status", "connect", "send", "send_resource",
                        "seed_peer"} : Dispatches(c, cmd)
    BY <1>9
    DEF handle_connection, handle_express, handle_publish, handle_status, handle_connect,
        handle_send_over_link, handle_send_resource, handle_seed_peer
  <2>2. ASSUME NEW cmd \in {"express", "publish", "status", "connect", "send", "send_resource",
                            "seed_peer"}, Dispatches(c, cmd)
        PROVE  AnswerInv'
    BY <1>8, <2>2
  <2> QED
    BY <1>4, <1>5, <1>6, <1>7, <2>1, <2>2
<1>10. CASE TakeCommands
  BY <1>1, <1>10, NobodyActs DEF TakeCommands, tasks
<1>11. ASSUME NEW cmds, NEW r, Executes(cmds, r)
       PROVE  AnswerInv'
  BY <1>1, <1>11, LoopActs
<1>12. CASE express
  <2>1. PICK r : r = Outcome(Reaches(Line(Head(batch)).dest))
    OBVIOUS
  <2>2. Executes({"express"}, r)
    BY <1>12, <2>1 DEF express
  <2> QED
    BY <1>11, <2>2
<1>13. CASE publish
  <2>1. PICK r : r = Outcome(Line(Head(batch)).arg # "bad_name")
    OBVIOUS
  <2>2. Executes({"publish"}, r)
    BY <1>13, <2>1 DEF publish
  <2> QED
    BY <1>11, <2>2
<1>14. CASE status
  <2>1. PICK r : r = DaemonStatus
    OBVIOUS
  <2>2. Executes({"status"}, r)
    BY <1>14, <2>1 DEF status
  <2> QED
    BY <1>11, <2>2
<1>15. CASE seed_peer
  <2>1. PICK r : r = Outcome(Line(Head(batch)).arg # "bad_key")
    OBVIOUS
  <2>2. Executes({"seed_peer"}, r)
    BY <1>15, <2>1 DEF seed_peer
  <2> QED
    BY <1>11, <2>2
<1>16. CASE send_over_link
  <2>1. PICK ok \in BOOLEAN : Executes({"send", "send_resource"}, Outcome(ok))
    BY <1>16 DEF send_over_link
  <2> QED
    BY <1>11, <2>1
<1>17. CASE ConnectAgain \/ ConnectSent \/ ConnectFails
  <2>1. \E ok \in BOOLEAN : Executes({"connect"}, Outcome(ok))
    BY <1>17 DEF ConnectAgain, ConnectSent, ConnectFails
  <2> QED
    BY <1>11, <2>1
<1>18. CASE run
  BY <1>10, <1>12, <1>13, <1>14, <1>15, <1>16, <1>17, <1>18 DEF run
<1>19. ASSUME NEW p \in net, handle_frame(p) \/ LoseFrame(p)
       PROVE  AnswerInv'
  BY <1>2, <1>19 DEF handle_frame, LoseFrame, tasks
<1>23. ASSUME NEW m, Introduce(m)
       PROVE  AnswerInv'
  BY <1>2, <1>23 DEF Introduce, tasks
<1>20. CASE UNCHANGED apiVars
  BY <1>2, <1>20 DEF apiVars, tasks
<1>21. CASE \E c \in Clients : ClientWrites(c) \/ ClientCloses(c) \/ run_api_server(c)
                              \/ handle_connection(c)
  BY <1>3, <1>4, <1>9, <1>21
<1>22. CASE \/ \E p \in net : handle_frame(p) \/ LoseFrame(p)
            \/ \E m \in Nodes \ {Server} : Introduce(m)
  BY <1>19, <1>22, <1>23
<1> QED
  BY <1>18, <1>20, <1>21, <1>22 DEF ApiNext

\* What AnswersMatchLines says of answer i of c, when these are the executions of its line.
AnswerRight(c, i, a, runs) ==
    /\ written[c][a.n].cmd # "blank"
    /\ {answers[c][j].n : j \in 1..(i - 1)} =
          {n \in 1..(a.n - 1) : written[c][n].cmd # "blank"}
    /\ IF OnTheSpot(written[c][a.n])
         THEN runs = {} /\ ~a.result.ok
         ELSE \E k \in runs : runs = {k} /\ executed[k].result = a.result

\* It follows from the invariant.
LEMMA AnswerIsRight ==
    ASSUME ApiInv, AnswerInv, NEW c \in Clients, NEW i \in DOMAIN answers[c],
           NEW a, a = answers[c][i],
           NEW runs, runs = {k \in DOMAIN executed : executed[k].conn = c /\ executed[k].n = a.n}
    PROVE  AnswerRight(c, i, a, runs)
<1>1. PICK s : s = answers[c]
  OBVIOUS
<1>2. /\ s \in Seq({s[j] : j \in DOMAIN s})
      /\ Truthful(s, written[c], nread[c], handler[c], Runs(c))
      /\ InOrder(s) /\ Complete(s, written[c], nread[c], handler[c])
      /\ nread[c] \in Nat
  BY <1>1 DEF AnswerInv, AnswersSound, Matches, ApiInv, QueuesSound
<1>3. DOMAIN s = 1..Len(s) /\ Len(s) \in Nat /\ i \in 1..Len(s) /\ a = s[i]
  <2>1. PICK S : S = {s[j] : j \in DOMAIN s}
    OBVIOUS
  <2>2. s \in Seq(S)
    BY <1>2, <2>1
  <2>3. DOMAIN s = 1..Len(s) /\ Len(s) \in Nat
    BY ONLY <2>2
  <2> QED
    BY <1>1, <2>3
<1>4. \A j \in 1..Len(s) : /\ s[j].n \in 1..nread[c] /\ written[c][s[j].n].cmd # "blank"
                           /\ Right(s[j].n, s[j].result, written[c][s[j].n], Runs(c))
  BY <1>2 DEF Truthful
<1>5. {s[j].n : j \in 1..(i - 1)} = {n \in 1..(a.n - 1) : written[c][n].cmd # "blank"}
  <2>1. ASSUME NEW j \in 1..(i - 1)
        PROVE  s[j].n \in 1..(a.n - 1) /\ written[c][s[j].n].cmd # "blank"
    <3>1. j \in 1..Len(s) /\ j < i
      BY ONLY <1>3, j \in 1..(i - 1)
    <3>2. s[j].n < s[i].n
      BY <1>2, <1>3, <3>1 DEF InOrder
    <3>3. s[j].n \in 1..nread[c] /\ s[i].n \in 1..nread[c]
      BY <1>3, <1>4, <3>1
    <3>4. s[j].n \in 1..(s[i].n - 1)
      <4>1. nread[c] \in Nat
        BY <1>2
      <4> QED
        BY ONLY <3>2, <3>3, <4>1
    <3> QED
      BY <1>3, <1>4, <3>1, <3>4
  <2>2. ASSUME NEW n \in 1..(a.n - 1), written[c][n].cmd # "blank"
        PROVE  \E j \in 1..(i - 1) : s[j].n = n
    <3>1. s[i].n \in 1..nread[c]
      BY <1>3, <1>4
    <3>2. n \in 1..nread[c] /\ n < s[i].n /\ n # nread[c]
      <4>1. nread[c] \in Nat /\ n \in 1..(s[i].n - 1)
        BY <1>2, <1>3
      <4> QED
        BY ONLY <3>1, <4>1
    <3>3. PICK j \in 1..Len(s) : s[j].n = n
      BY <1>2, <2>2, <3>2 DEF Complete
    <3>4. ~(i < j) /\ j # i
      <4>1. i < j => s[i].n < s[j].n
        BY <1>2, <1>3 DEF InOrder
      <4> QED
        BY <1>2, <3>1, <3>2, <3>3, <4>1
    <3>5. j \in 1..(i - 1)
      BY ONLY <1>3, <3>4, j \in 1..Len(s)
    <3> QED
      BY <3>3, <3>5
  <2> QED
    BY <2>1, <2>2
<1>6. CASE OnTheSpot(written[c][a.n])
  <2>1. runs = {}
    <3> SUFFICES ASSUME NEW k \in DOMAIN executed, executed[k].conn = c, executed[k].n = a.n
                 PROVE  FALSE
      OBVIOUS
    <3>1. Command(written[c][a.n])
      BY DEF AnswerInv, ExecutedSound
    <3> QED
      BY <1>6, <3>1 DEF Command
  <2>2. ~a.result.ok
    BY <1>3, <1>4, <1>6 DEF Right
  <2> QED
    BY <1>1, <1>3, <1>4, <1>5, <1>6, <2>1, <2>2 DEF AnswerRight
<1>7. CASE ~OnTheSpot(written[c][a.n])
  <2>1. <<a.n, a.result>> \in Runs(c)
    BY <1>3, <1>4, <1>7 DEF Right
  <2>2. PICK k \in DOMAIN executed :
            executed[k].conn = c /\ <<a.n, a.result>> = <<executed[k].n, executed[k].result>>
    BY <2>1 DEF Runs
  <2>3. k \in runs /\ executed[k].result = a.result
    BY <2>2
  <2>4. runs = {k}
    BY <2>2, <2>3 DEF AnswerInv, ExecutedSound
  <2> QED
    BY <1>1, <1>3, <1>4, <1>5, <1>7, <2>3, <2>4 DEF AnswerRight
<1> QED
  BY <1>6, <1>7

\* However the connections and the loop interleave, the i-th answer of a connection is that to its
\* i-th line that is not blank, and the result of the one execution of that line.
THEOREM EveryAnswerIsForItsLine == ApiSpec => []AnswersMatchLines
<1>1. ASSUME ApiInv, AnswerInv
      PROVE  ApiTypeOK
  <2>1. peer_keys \in [Nodes -> SUBSET Nodes] /\ peer_addrs \subseteq Nodes
    BY <1>1, ServerAssumption DEF ApiInv, TypeOK, KeysKnown
  <2>2. handler \in [Clients -> {"none", "reading", "waiting", "ended"}]
    BY <1>1 DEF AnswerInv, TasksTyped
  <2>3. ASSUME NEW c \in Clients
        PROVE  /\ nread[c] \in 0..Len(written[c]) /\ Len(oneshot[c]) <= 1
               /\ Len(answers[c]) <= nread[c]
    <3>1. nread[c] \in 0..Len(written[c])
      BY <1>1 DEF ApiInv, QueuesSound
    <3>2. Len(answers[c]) <= nread[c]
      BY <1>1 DEF AnswerInv, AnswersSound, Matches
    <3>3. oneshot[c] = <<>> \/ \E r : oneshot[c] = <<r>>
      BY <1>1 DEF AnswerInv, ResultSound
    <3>4. CASE oneshot[c] = <<>>
      BY <3>1, <3>2, <3>4
    <3>5. ASSUME NEW r, oneshot[c] = <<r>>
          PROVE  Len(oneshot[c]) <= 1
      <4>1. Len(<<r>>) = 1
        OBVIOUS
      <4> QED
        BY <3>5, <4>1
    <3> QED
      BY <3>1, <3>2, <3>3, <3>4, <3>5
  <2>4. ASSUME NEW i \in DOMAIN cmd_rx
        PROVE  cmd_rx[i].n \in 1..nread[cmd_rx[i].conn]
    <3>1. cmd_rx[i] \in Waiting
      BY <1>1 DEF AnswerInv, CommandsSound
    <3>2. cmd_rx[i].n = nread[cmd_rx[i].conn] /\ cmd_rx[i].n \in Nat /\ 1 <= cmd_rx[i].n
      BY <3>1 DEF Waiting, Awaited, Refs
    <3> QED
      BY <3>2
  <2> QED
    BY <2>1, <2>2, <2>3, <2>4 DEF ApiTypeOK
<1>2. ApiInv /\ AnswerInv => AnswersMatchLines
  <2> SUFFICES ASSUME ApiInv, AnswerInv
               PROVE  AnswersMatchLines
    OBVIOUS
  <2>1. ASSUME NEW c \in Clients, NEW i \in DOMAIN answers[c]
        PROVE  AnswerRight(c, i, answers[c][i],
                           {k \in DOMAIN executed : /\ executed[k].conn = c
                                                    /\ executed[k].n = answers[c][i].n})
    BY AnswerIsRight
  <2> QED
    BY <1>1, <2>1 DEF AnswersMatchLines, AnswerRight
<1> QED
  BY <1>2, ApiInvInit, ApiInvNext, AnswerInvInit, AnswerInvNext, PTL DEF ApiSpec
=============================================================================
