------------------------------ MODULE Handshake ------------------------------
(***************************************************************************)
(* Link establishment between daemons (crates/daemon/src/lib.rs): connect, *)
(* handle_linkrequest, handle_proof and the removal of stale channels.     *)
(*                                                                         *)
(* Ephemeral X25519 keys are numbers drawn from a counter.  The link_id is *)
(* a hash of the LINKREQUEST, which contains the initiator's fresh         *)
(* ephemeral key, so it is represented by that key.  The ECDH secret of    *)
(* ephemeral keys i and r is the pair <<i, r>>.  A signature over          *)
(* (link_id, eph, identity) verifies exactly when the verifier uses the    *)
(* same link_id and eph and the signer's key.  An RNS address and its      *)
(* signing key are both represented by the node.                           *)
(***************************************************************************)
EXTENDS Naturals

CONSTANTS
    Nodes,        \* the daemons
    Initiators,   \* the daemons whose users call connect
    Legacy,       \* the daemons' peers that open links with LINKPROOF instead
    KnownPeers,   \* TRUE: every signing key was registered beforehand (seed_peer)
    MaxFresh,     \* bound: how many ephemeral keys are ever generated
    Faults        \* what happens: "lose", "dup", "stale", "restart"

ASSUME NodesAssumption == Initiators \subseteq Nodes /\ Legacy \subseteq Nodes
ASSUME FreshAssumption == MaxFresh \in Nat
ASSUME KnownAssumption == KnownPeers \in BOOLEAN
ASSUME FaultAssumption == Faults \subseteq {"lose", "dup", "stale", "restart"}

VARIABLES
    peer_keys,         \* [Nodes -> SUBSET Nodes]: peers whose signing key is known
    channels,          \* [Nodes -> [Nodes -> Channel]]: established links by remote
    pending_channels,  \* [Nodes -> [Nodes -> link_id]]: handshakes begun, 0 for none
    pending_links,     \* [Nodes -> [Nodes -> ephemeral_priv]]: their secrets, 0 for none
    unresolved,        \* [Nodes -> SUBSET link_id]: entries of pending_channels that were put
                       \* back under their link_id instead of the remote's address
    net,               \* packets in flight
    fresh,             \* how many ephemeral keys were generated
    requested,         \* history: the LINKREQUESTs that were made
    answered           \* history: the LRPROOFs that were signed

history == <<requested, answered>>
vars == <<peer_keys, channels, pending_channels, pending_links, unresolved, net, fresh,
          requested, answered>>

Eph == 1..MaxFresh
NoKey == <<0, 0>>
Kind == {"none", "initiator", "responder", "legacy"}
ChannelRec == [kind : Kind, link_id : 0..MaxFresh, key : (0..MaxFresh) \X (0..MaxFresh)]
NoChannel == [kind |-> "none", link_id |-> 0, key |-> NoKey]

\* The LINKPROOF of the older handshake; its answer carries a proof over a transport id,
\* which no LRPROOF verification accepts (signer of nothing: eph 0).
LinkRequest(n, m, e) == [type |-> "LINKREQUEST", src |-> n, dst |-> m, link_id |-> e, eph |-> e]
LrProof(n, m, id, e) == [type |-> "LRPROOF", src |-> n, dst |-> m, link_id |-> id, eph |-> e]
LinkProof(n, m) == [type |-> "LINKPROOF", src |-> n, dst |-> m, link_id |-> 0, eph |-> 0]
Message == [type : {"LINKREQUEST", "LRPROOF", "LINKPROOF"}, src : Nodes, dst : Nodes,
            link_id : 0..MaxFresh, eph : 0..MaxFresh]
Request == [from : Nodes, to : Nodes, link_id : Eph]
Answer == [by : Nodes, to : Nodes, link_id : 0..MaxFresh, eph : Eph]

\* No link, established or pending.
LinksInit ==
    /\ channels = [n \in Nodes |-> [m \in Nodes |-> NoChannel]]
    /\ pending_channels = [n \in Nodes |-> [m \in Nodes |-> 0]]
    /\ pending_links = [n \in Nodes |-> [m \in Nodes |-> 0]]
    /\ unresolved = [n \in Nodes |-> {}]
    /\ net = {}
    /\ fresh = 0
    /\ requested = {}
    /\ answered = {}

Init ==
    /\ peer_keys = [n \in Nodes |-> IF KnownPeers THEN Nodes \ {n} ELSE {}]
    /\ LinksInit

-----------------------------------------------------------------------------
(* Learning keys and starting handshakes *)

\* register_peer, from an announce or from seed_peer.
register_peer(n, m) ==
    /\ m \notin peer_keys[n]
    /\ peer_keys' = [peer_keys EXCEPT ![n] = @ \cup {m}]
    /\ UNCHANGED <<channels, pending_channels, pending_links, unresolved, net, fresh, history>>

\* connect does nothing when a channel or a pending channel exists.  It does not ask whether
\* the remote's key is known, and it keeps the pending entries when the send fails.
connect(n, m) ==
    /\ channels[n][m].kind = "none"
    /\ pending_channels[n][m] = 0
    /\ fresh < MaxFresh
    /\ fresh' = fresh + 1
    /\ pending_channels' = [pending_channels EXCEPT ![n][m] = fresh']
    /\ pending_links' = [pending_links EXCEPT ![n][m] = fresh']
    /\ net' = net \cup {LinkRequest(n, m, fresh')}
    /\ requested' = requested \cup {[from |-> n, to |-> m, link_id |-> fresh']}
    /\ UNCHANGED <<peer_keys, channels, unresolved, answered>>

\* A peer that speaks the older protocol: Link::establish sends a LINKPROOF.
establish(n, m) ==
    /\ net' = net \cup {LinkProof(n, m)}
    /\ UNCHANGED <<peer_keys, channels, pending_channels, pending_links, unresolved, fresh, history>>

-----------------------------------------------------------------------------
(* Handlers.  Take(p, keep) removes the packet unless the medium duplicates it. *)

Take(p, keep) == IF keep THEN net ELSE net \ {p}

\* The responder's link: Established, keyed by its fresh ephemeral and the initiator's.
ResponderChannel(p, e) ==
    [kind |-> "responder", link_id |-> p.link_id, key |-> <<p.eph, e>>]

\* Responder: known peers only.  The link is Established at once, under a fresh key, and
\* replaces whatever channel to that peer existed.
handle_linkrequest(p, keep) ==
    LET n == p.dst
        m == p.src
    IN
    /\ p.type = "LINKREQUEST"
    /\ \/ /\ m \in peer_keys[n]
          /\ fresh < MaxFresh
          /\ fresh' = fresh + 1
          /\ channels' = [channels EXCEPT ![n][m] = ResponderChannel(p, fresh')]
          /\ net' = Take(p, keep) \cup {LrProof(n, m, p.link_id, fresh')}
          /\ answered' = answered \cup {[by |-> n, to |-> m, link_id |-> p.link_id, eph |-> fresh']}
       \/ /\ m \notin peer_keys[n]
          /\ net' = Take(p, keep)
          /\ UNCHANGED <<channels, fresh, answered>>
    /\ UNCHANGED <<peer_keys, pending_channels, pending_links, unresolved, requested>>

\* LINKPROOF: a channel without a shared key, replacing whatever was there.
handle_linkproof(p, keep) ==
    LET n == p.dst
        m == p.src
    IN
    /\ p.type = "LINKPROOF"
    /\ IF m \in peer_keys[n]
         THEN /\ channels' = [channels EXCEPT ![n][m] =
                    [kind |-> "legacy", link_id |-> 0, key |-> NoKey]]
              /\ net' = Take(p, keep) \cup {LrProof(n, m, 0, 0)}
         ELSE /\ net' = Take(p, keep)
              /\ UNCHANGED channels
    /\ UNCHANGED <<peer_keys, pending_channels, pending_links, unresolved, fresh, history>>

\* Mutant: no fall back to the link_id when the medium did not resolve the sender.
SelectsBySenderOnly(pending, p, resolved, k) ==
    resolved /\ pending[p.src] # 0 /\ k = p.src

\* The entry of a pending map that an LRPROOF selects: the sender's, when the medium resolved
\* the sender and it has one, otherwise the entry whose link_id the packet names.
Selects(pending, p, resolved, k) ==
    IF resolved /\ pending[p.src] # 0
      THEN k = p.src
      ELSE pending[k] # 0 /\ pending[k] = p.link_id

\* Mutant: the signed link_id is not compared with the pending one.
SignatureIgnoresLinkId(p, k, e) == p.src = k /\ p.eph # 0

\* responder_identity_vk.verify: signed by k over this link_id and this ephemeral key.
SignatureVerifies(p, k, e) == p.src = k /\ p.eph # 0 /\ p.link_id = e

\* The LRPROOF selects a pending channel that was put back under its link_id.
SelectsUnresolved(p, resolved) ==
    /\ ~(resolved /\ pending_channels[p.dst][p.src] # 0)
    /\ p.link_id \in unresolved[p.dst]

\* Nothing pending matches the LRPROOF: ignored.
LrProofIgnored(p, resolved) ==
    /\ ~SelectsUnresolved(p, resolved)
    /\ ~ \E k \in Nodes : Selects(pending_channels[p.dst], p, resolved, k)
    /\ UNCHANGED <<channels, pending_channels, pending_links, unresolved>>

\* A pending channel without its secrets is put back under the address that the medium
\* reported: the sender's, or, when the sender was not resolved, the link_id.
LrProofWithoutSecrets(p, resolved) ==
    LET n == p.dst IN
    \E k \in Nodes :
        /\ Selects(pending_channels[n], p, resolved, k)
        /\ ~ \E j \in Nodes : Selects(pending_links[n], p, resolved, j)
        /\ pending_channels' = [pending_channels EXCEPT ![n] =
              [j \in Nodes |-> IF resolved /\ j = p.src THEN pending_channels[n][k]
                               ELSE IF j = k THEN 0
                               ELSE pending_channels[n][j]]]
        /\ unresolved' = IF resolved THEN unresolved
                         ELSE [unresolved EXCEPT ![n] = @ \cup {pending_channels[n][k]}]
        /\ UNCHANGED <<channels, pending_links>>

\* The same for a channel that is already under its link_id.  Its secrets are gone: it came
\* there without them.
LrProofUnresolved(p, resolved) ==
    LET n == p.dst IN
    /\ SelectsUnresolved(p, resolved)
    /\ ~ \E j \in Nodes : Selects(pending_links[n], p, resolved, j)
    /\ IF resolved
         THEN /\ pending_channels' = [pending_channels EXCEPT ![n][p.src] = p.link_id]
              /\ unresolved' = [unresolved EXCEPT ![n] = @ \ {p.link_id}]
         ELSE UNCHANGED <<pending_channels, unresolved>>
    /\ UNCHANGED <<channels, pending_links>>

\* The remote's key is not known: the pending channel is put back, its secrets are not.
LrProofUnknownKey(p, resolved) ==
    LET n == p.dst IN
    \E k, j \in Nodes :
        /\ Selects(pending_channels[n], p, resolved, k)
        /\ Selects(pending_links[n], p, resolved, j)
        /\ k \notin peer_keys[n]
        /\ pending_links' = [pending_links EXCEPT ![n][j] = 0]
        /\ UNCHANGED <<channels, pending_channels, unresolved>>

\* Mutant: after a bad signature the pending channel is kept although its secrets are gone.
LrProofCheckedKeepsChannel(p, resolved) ==
    LET n == p.dst IN
    \E k, j \in Nodes :
        /\ Selects(pending_channels[n], p, resolved, k)
        /\ Selects(pending_links[n], p, resolved, j)
        /\ k \in peer_keys[n]
        /\ pending_links' = [pending_links EXCEPT ![n][j] = 0]
        /\ IF SignatureVerifies(p, k, pending_links[n][j])
             THEN /\ pending_channels' = [pending_channels EXCEPT ![n][k] = 0]
                  /\ channels' = [channels EXCEPT ![n][k] =
                        [kind |-> "initiator", link_id |-> pending_channels[n][k],
                         key |-> <<pending_links[n][j], p.eph>>]]
             ELSE UNCHANGED <<channels, pending_channels>>
        /\ UNCHANGED unresolved

\* Both entries are taken out; the channel is established if the signature verifies.
LrProofChecked(p, resolved) ==
    LET n == p.dst IN
    \E k, j \in Nodes :
        /\ Selects(pending_channels[n], p, resolved, k)
        /\ Selects(pending_links[n], p, resolved, j)
        /\ k \in peer_keys[n]
        /\ pending_channels' = [pending_channels EXCEPT ![n][k] = 0]
        /\ pending_links' = [pending_links EXCEPT ![n][j] = 0]
        /\ IF SignatureVerifies(p, k, pending_links[n][j])
             THEN channels' = [channels EXCEPT ![n][k] =
                     [kind |-> "initiator", link_id |-> pending_channels[n][k],
                      key |-> <<pending_links[n][j], p.eph>>]]
             ELSE UNCHANGED channels
        /\ UNCHANGED unresolved

handle_lrproof(p, keep, resolved) ==
    /\ p.type = "LRPROOF"
    /\ \/ LrProofIgnored(p, resolved)
       \/ LrProofWithoutSecrets(p, resolved)
       \/ LrProofUnresolved(p, resolved)
       \/ LrProofUnknownKey(p, resolved)
       \/ LrProofChecked(p, resolved)
    /\ net' = Take(p, keep)
    /\ UNCHANGED <<peer_keys, fresh, history>>

-----------------------------------------------------------------------------
(* Timeouts, restarts and the medium *)

\* The run loop drops a channel whose last inbound traffic is older than STALE_TIME.
remove_stale(n, m) ==
    /\ "stale" \in Faults
    /\ channels[n][m].kind # "none"
    /\ channels' = [channels EXCEPT ![n][m] = NoChannel]
    /\ UNCHANGED <<peer_keys, pending_channels, pending_links, unresolved, net, fresh, history>>

\* Daemon::new: nothing of the link state is persisted.
restart(n) ==
    /\ "restart" \in Faults
    /\ peer_keys' = [peer_keys EXCEPT ![n] = IF KnownPeers THEN Nodes \ {n} ELSE {}]
    /\ channels' = [channels EXCEPT ![n] = [m \in Nodes |-> NoChannel]]
    /\ pending_channels' = [pending_channels EXCEPT ![n] = [m \in Nodes |-> 0]]
    /\ pending_links' = [pending_links EXCEPT ![n] = [m \in Nodes |-> 0]]
    /\ unresolved' = [unresolved EXCEPT ![n] = {}]
    /\ UNCHANGED <<net, fresh, history>>

Lose(p) ==
    /\ "lose" \in Faults
    /\ net' = net \ {p}
    /\ UNCHANGED <<peer_keys, channels, pending_channels, pending_links, unresolved, fresh, history>>

MayKeep == IF "dup" \in Faults THEN BOOLEAN ELSE {FALSE}

Receive(p) ==
    \E keep \in MayKeep :
        \/ handle_linkrequest(p, keep)
        \/ handle_linkproof(p, keep)
        \/ \E resolved \in BOOLEAN : handle_lrproof(p, keep, resolved)

Next ==
    \/ \E n \in Nodes, m \in Nodes : n # m /\ register_peer(n, m)
    \/ \E n \in Initiators, m \in Nodes : n # m /\ connect(n, m)
    \/ \E n \in Legacy, m \in Nodes : n # m /\ establish(n, m)
    \/ \E p \in net : Receive(p)
    \/ \E n \in Nodes, m \in Nodes : remove_stale(n, m)
    \/ \E n \in Nodes : restart(n)
    \/ \E p \in net : Lose(p)

Spec == Init /\ [][Next]_vars

-----------------------------------------------------------------------------
(* Properties *)

\* Type invariant.
TypeOK ==
    /\ peer_keys \in [Nodes -> SUBSET Nodes]
    /\ channels \in [Nodes -> [Nodes -> ChannelRec]]
    /\ pending_channels \in [Nodes -> [Nodes -> 0..MaxFresh]]
    /\ pending_links \in [Nodes -> [Nodes -> 0..MaxFresh]]
    /\ unresolved \in [Nodes -> SUBSET Eph]
    /\ net \subseteq Message
    /\ fresh \in 0..MaxFresh
    /\ requested \subseteq Request
    /\ answered \subseteq Answer

Authenticated ==
    \A n, m \in Nodes :
        LET c == channels[n][m] IN
        c.kind = "initiator" =>
            /\ c.key[1] = c.link_id
            /\ [by |-> m, to |-> n, link_id |-> c.link_id, eph |-> c.key[2]] \in answered

\* Authentication: an initiator's channel to m carries a key whose responder half was signed
\* by m itself, for this initiator and this very link_id - whichever LRPROOFs of earlier
\* attempts, of other peers or with an unresolved sender arrive in between.  Part of it is that
\* the state has its type.
InitiatorAuthenticated == TypeOK /\ Authenticated

\* The inductive strengthening of InitiatorAuthenticated.  A link_id belongs to one request;
\* pending entries, packets and answers only name link_ids of the pair of nodes they are
\* about; a pending channel and its secrets, when both are there, are of the same attempt.
RequestsUnique ==
    /\ \A r \in requested : r.link_id <= fresh
    /\ \A r, s \in requested : r.link_id = s.link_id => r = s

PendingRequested ==
    \A n, m \in Nodes :
        /\ pending_channels[n][m] # 0 =>
              [from |-> n, to |-> m, link_id |-> pending_channels[n][m]] \in requested
        /\ pending_links[n][m] # 0 =>
              [from |-> n, to |-> m, link_id |-> pending_links[n][m]] \in requested
        /\ pending_channels[n][m] # 0 /\ pending_links[n][m] # 0 =>
              pending_channels[n][m] = pending_links[n][m]

PacketsGenuine ==
    \A p \in net :
        /\ p.type = "LINKREQUEST" =>
              /\ p.eph = p.link_id
              /\ [from |-> p.src, to |-> p.dst, link_id |-> p.link_id] \in requested
        /\ p.type = "LRPROOF" /\ (p.eph # 0 \/ p.link_id # 0) =>
              [by |-> p.src, to |-> p.dst, link_id |-> p.link_id, eph |-> p.eph] \in answered

AnswersRequested ==
    \A a \in answered : [from |-> a.to, to |-> a.by, link_id |-> a.link_id] \in requested

AuthInv ==
    /\ RequestsUnique
    /\ PendingRequested
    /\ PacketsGenuine
    /\ AnswersRequested
    /\ Authenticated

\* The responder answered the request of this link once: no duplicate of it was handled.
AnsweredOnce(link_id) ==
    \A x, y \in answered : x.link_id = link_id /\ y.link_id = link_id => x = y

\* The two ends of one link (same link_id) hold the same shared key, whichever answers of other
\* attempts were taken in between, unless the request was duplicated: a second answer re-keys
\* the responder alone.
KeysAgree ==
    \A n, m \in Nodes :
        (/\ channels[n][m].kind = "initiator"
         /\ channels[m][n].kind = "responder"
         /\ channels[n][m].link_id = channels[m][n].link_id
         /\ AnsweredOnce(channels[n][m].link_id))
        => channels[n][m].key = channels[m][n].key

\* A channel that stays pending keeps the ephemeral secret that its LRPROOF needs, whatever
\* arrives, except when the remote's key is not known when an LRPROOF selects it.
PendingKeepsSecrets ==
    [][\A n, m \in Nodes :
          (/\ pending_channels[n][m] # 0
           /\ pending_links[n][m] = pending_channels[n][m]
           /\ pending_channels'[n][m] # 0
           /\ m \in peer_keys[n])
          => pending_links'[n][m] = pending_channels'[n][m]]_vars
=============================================================================
