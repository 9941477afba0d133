------------------------------ MODULE ApiServer ------------------------------
(***************************************************************************)
(* The local API of a daemon (crates/daemon/src/api.rs), composed with the *)
(* run loop that executes its commands (Daemon::run) and with link         *)
(* establishment (Handshake).                                              *)
(*                                                                         *)
(* Each connection is a task: it reads a line, sends a command through an  *)
(* unbounded channel, waits for its oneshot, writes the answer and reads   *)
(* the next line.  The run loop takes what the channel holds as one batch  *)
(* between two polls of the media and executes it command by command,      *)
(* while the tasks of the connections go on.                               *)
(*                                                                         *)
(* A line is a record: cmd; dest, the peer it names; arg, "good" or what   *)
(* is wrong with it.  What express, publish and send do beyond their       *)
(* answer is the subject of PathDiscovery, Forwarder, Channel and          *)
(* Resource.                                                               *)
(***************************************************************************)
EXTENDS Handshake, Sequences, FiniteSets

CONSTANTS
    Server,     \* the daemon whose API this is
    Announced,  \* the peers it knows from their announces
    Introduced, \* the peers that know Server from its announce when it starts
    Clients,    \* the connections to the API
    Lines       \* [Clients -> [menu : set of lines, max : Nat, leaves : BOOLEAN]]: what a client
                \* may write, a bound on how many lines it does, and whether it may leave

ASSUME ServerAssumption ==
    /\ Server \in Nodes
    /\ Announced \subseteq Nodes \ {Server} /\ Introduced \subseteq Nodes \ {Server}
ASSUME LinesAssumption ==
    \A c \in Clients : Lines[c].max \in Nat /\ \A l \in Lines[c].menu : l.dest \in Nodes

VARIABLES
    peer_addrs,  \* the peers whose endpoint the media of Server know
    handler,     \* [Clients -> {"none", "reading", "waiting", "ended"}]: the connection's task
    gone,        \* [Clients -> BOOLEAN]: the client has closed the connection
    written,     \* [Clients -> Seq of lines]
    nread,       \* [Clients -> Nat]: how many of them handle_connection has read
    cmd_rx,      \* the unbounded channel: [conn, n] for line n of a connection
    batch,       \* api_commands: taken from the channel and not yet executed
    oneshot,     \* [Clients -> Seq of at most one result]
    answers,     \* history: [Clients -> Seq of [n, result]]: what was written back
    executed,    \* history: Seq of [conn, n, result]
    dropped      \* history: the link_ids of the packets that were lost, or ignored by a peer
                 \* that did not know their sender

links == <<channels, pending_channels, pending_links, unresolved, net, fresh, requested, answered>>
tasks == <<handler, gone, written, nread, answers>>
apiVars == <<vars, peer_addrs, dropped, tasks, cmd_rx, batch, oneshot, executed>>

\* UdpMedium::send knows the endpoint of m.
Reaches(m) == m \in peer_addrs

Line(e) == written[e.conn][e.n]
Outcome(ok) == [ok |-> ok, peers |-> 0, links |-> 0]
Linked == {m \in Nodes : channels[Server][m].kind # "none"}

ApiInit ==
    /\ LinksInit
    /\ peer_keys = [n \in Nodes |->
          IF n = Server THEN Announced
          ELSE IF n \in Introduced THEN Nodes \ {n}
          ELSE Nodes \ {n, Server}]
    /\ peer_addrs = Announced
    /\ handler = [c \in Clients |-> "none"]
    /\ gone = [c \in Clients |-> FALSE]
    /\ written = [c \in Clients |-> <<>>]
    /\ nread = [c \in Clients |-> 0]
    /\ cmd_rx = <<>> /\ batch = <<>>
    /\ oneshot = [c \in Clients |-> <<>>]
    /\ answers = [c \in Clients |-> <<>>]
    /\ executed = <<>>
    /\ dropped = {}

-----------------------------------------------------------------------------
(* Clients *)

Given(c) == {answers[c][i] : i \in DOMAIN answers[c]}
\* The peers of the successful commands that were answered, to whichever client.
Succeeded(cmds) ==
    UNION {{written[c][a.n].dest : a \in {b \in Given(c) : b.result.ok /\ written[c][b.n].cmd \in cmds}} :
               c \in Clients}

\* A client writes a line, whether or not it has the answers to its earlier ones.
ClientWrites(c) ==
    /\ handler[c] # "none" /\ ~gone[c] /\ Len(written[c]) < Lines[c].max
    /\ \E l \in Lines[c].menu :
          written' = [written EXCEPT ![c] = Append(@, l)]
    /\ UNCHANGED <<vars, peer_addrs, dropped, handler, gone, nread, answers, cmd_rx, batch, oneshot, executed>>

\* A client closes its connection; what it wrote can still be read.
ClientCloses(c) ==
    /\ Lines[c].leaves /\ handler[c] \in {"reading", "waiting"} /\ ~gone[c]
    /\ gone' = [gone EXCEPT ![c] = TRUE]
    /\ UNCHANGED <<vars, peer_addrs, dropped, handler, written, nread, answers, cmd_rx, batch, oneshot, executed>>

-----------------------------------------------------------------------------
(* handle_connection *)

run_api_server(c) ==
    /\ handler[c] = "none"
    /\ handler' = [handler EXCEPT ![c] = "reading"]
    /\ UNCHANGED <<vars, peer_addrs, dropped, gone, written, nread, answers, cmd_rx, batch, oneshot, executed>>

\* write_all: the answer, or, to a client that is gone, possibly an error that ends the task.
Respond(c, n, result) ==
    \/ /\ answers' = [answers EXCEPT ![c] = Append(@, [n |-> n, result |-> result])]
       /\ handler' = [handler EXCEPT ![c] = "reading"]
    \/ /\ gone[c]
       /\ handler' = [handler EXCEPT ![c] = "ended"]
       /\ UNCHANGED answers

\* Next line of a connection that waits for one.
ReadLine(c) ==
    /\ handler[c] = "reading" /\ nread[c] < Len(written[c])
    /\ nread' = [nread EXCEPT ![c] = @ + 1]
    /\ UNCHANGED <<vars, peer_addrs, dropped, gone, written, batch, executed>>

ReadBlank(c) ==
    /\ ReadLine(c) /\ written[c][nread'[c]].cmd = "blank"
    /\ UNCHANGED <<handler, answers, cmd_rx, oneshot>>

\* No JSON, no command, or an unknown one.
ReadInvalid(c) ==
    /\ ReadLine(c) /\ written[c][nread'[c]].cmd = "invalid"
    /\ Respond(c, nread'[c], Outcome(FALSE))
    /\ UNCHANGED <<cmd_rx, oneshot>>

\* A field that is missing or not hex is answered on the spot; otherwise cmd_tx.send, and the task
\* waits for a new oneshot.
Dispatches(c, cmd) ==
    LET l == written[c][nread'[c]] IN
    /\ ReadLine(c) /\ l.cmd = cmd
    /\ \/ /\ l.arg = "malformed"
          /\ Respond(c, nread'[c], Outcome(FALSE))
          /\ UNCHANGED <<cmd_rx, oneshot>>
       \/ /\ l.arg # "malformed"
          /\ cmd_rx' = Append(cmd_rx, [conn |-> c, n |-> nread'[c]])
          /\ oneshot' = [oneshot EXCEPT ![c] = <<>>]
          /\ handler' = [handler EXCEPT ![c] = "waiting"]
          /\ UNCHANGED answers

handle_express(c) == Dispatches(c, "express")
handle_publish(c) == Dispatches(c, "publish")
handle_status(c) == Dispatches(c, "status")
handle_connect(c) == Dispatches(c, "connect")
handle_send_over_link(c) == Dispatches(c, "send")
handle_send_resource(c) == Dispatches(c, "send_resource")
handle_seed_peer(c) == Dispatches(c, "seed_peer")

\* rx.await.
Reply(c) ==
    /\ handler[c] = "waiting" /\ oneshot[c] # <<>>
    /\ Respond(c, nread[c], Head(oneshot[c]))
    /\ oneshot' = [oneshot EXCEPT ![c] = <<>>]
    /\ UNCHANGED <<vars, peer_addrs, dropped, gone, written, nread, cmd_rx, batch, executed>>

\* read_line returns 0.
ReadEnd(c) ==
    /\ handler[c] = "reading" /\ gone[c] /\ nread[c] = Len(written[c])
    /\ handler' = [handler EXCEPT ![c] = "ended"]
    /\ UNCHANGED <<vars, peer_addrs, dropped, gone, written, nread, answers, cmd_rx, batch, oneshot, executed>>

handle_connection(c) ==
    \/ ReadBlank(c) \/ ReadInvalid(c) \/ ReadEnd(c) \/ Reply(c)
    \/ handle_express(c) \/ handle_publish(c) \/ handle_status(c) \/ handle_connect(c)
    \/ handle_send_over_link(c) \/ handle_send_resource(c) \/ handle_seed_peer(c)

-----------------------------------------------------------------------------
(* The run loop *)

\* Mutant: the commands stay in the channel.
TakeCommandsAgain ==
    /\ batch = <<>> /\ cmd_rx # <<>>
    /\ batch' = cmd_rx
    /\ UNCHANGED <<vars, peer_addrs, dropped, tasks, cmd_rx, oneshot, executed>>

\* Mutant: the media are polled without a timeout, so commands wait for a frame.
TakeCommandsAfterFrame ==
    /\ batch = <<>> /\ cmd_rx # <<>>
    /\ \E p \in net : p.dst = Server
    /\ batch' = cmd_rx /\ cmd_rx' = <<>>
    /\ UNCHANGED <<vars, peer_addrs, dropped, tasks, oneshot, executed>>

\* try_recv until the channel is empty.
TakeCommands ==
    /\ batch = <<>> /\ cmd_rx # <<>>
    /\ batch' = cmd_rx /\ cmd_rx' = <<>>
    /\ UNCHANGED <<vars, peer_addrs, dropped, tasks, oneshot, executed>>

\* The next command of the batch is one of these, and its result goes to its oneshot.
Executes(cmds, result) ==
    LET e == Head(batch) IN
    /\ batch # <<>> /\ Line(e).cmd \in cmds
    /\ batch' = Tail(batch)
    /\ oneshot' = [oneshot EXCEPT ![e.conn] = <<result>>]
    /\ executed' = Append(executed, [conn |-> e.conn, n |-> e.n, result |-> result])
    /\ UNCHANGED <<tasks, cmd_rx>>

\* send_to: reaches the peers whose endpoint is known.
express ==
    /\ Executes({"express"}, Outcome(Reaches(Line(Head(batch)).dest)))
    /\ UNCHANGED <<vars, peer_addrs, dropped>>

publish ==
    /\ Executes({"publish"}, Outcome(Line(Head(batch)).arg # "bad_name"))
    /\ UNCHANGED <<vars, peer_addrs, dropped>>

DaemonStatus ==
    [ok |-> TRUE, peers |-> Cardinality(peer_keys[Server]), links |-> Cardinality(Linked)]

status ==
    /\ Executes({"status"}, DaemonStatus)
    /\ UNCHANGED <<vars, peer_addrs, dropped>>

\* Without a link it fails; with one, the channel may still refuse the message.
send_over_link ==
    /\ \E ok \in BOOLEAN :
          /\ Executes({"send", "send_resource"}, Outcome(ok))
          /\ ok => Line(Head(batch)).dest \in Linked /\ Reaches(Line(Head(batch)).dest)
    /\ UNCHANGED <<vars, peer_addrs, dropped>>

\* An endpoint that does not parse leaves the medium as it was.
add_peer_endpoint(l) == IF l.arg = "good" THEN peer_addrs \cup {l.dest} ELSE peer_addrs

\* A bad key is refused.  A bad endpoint is only logged: the key is registered and the answer Ok.
seed_peer ==
    LET l == Line(Head(batch))
        ok == l.arg # "bad_key"
    IN
    /\ Executes({"seed_peer"}, Outcome(ok))
    /\ peer_keys' = [peer_keys EXCEPT ![Server] = IF ok THEN @ \cup {l.dest} ELSE @]
    /\ peer_addrs' = IF ok THEN add_peer_endpoint(l) ELSE peer_addrs
    /\ UNCHANGED <<links, dropped>>

\* connect finds a link or a pending one and returns Ok.
ConnectAgain ==
    LET m == Line(Head(batch)).dest IN
    /\ Executes({"connect"}, Outcome(TRUE))
    /\ channels[Server][m].kind # "none" \/ pending_channels[Server][m] # 0
    /\ UNCHANGED <<vars, peer_addrs, dropped>>

ConnectSent ==
    LET m == Line(Head(batch)).dest IN
    /\ Executes({"connect"}, Outcome(TRUE))
    /\ Reaches(m) /\ connect(Server, m)
    /\ UNCHANGED <<peer_addrs, dropped>>

\* What connect leaves behind when send_to has no route: the pending entries, and no request.
ConnectUnsent(m) ==
    /\ ~Reaches(m)
    /\ channels[Server][m].kind = "none" /\ pending_channels[Server][m] = 0
    /\ fresh < MaxFresh /\ fresh' = fresh + 1
    /\ pending_channels' = [pending_channels EXCEPT ![Server][m] = fresh']
    /\ pending_links' = [pending_links EXCEPT ![Server][m] = fresh']
    /\ requested' = requested \cup {[from |-> Server, to |-> m, link_id |-> fresh']}
    /\ UNCHANGED <<peer_keys, channels, unresolved, net, answered, peer_addrs, dropped>>

\* Mutant: the result of send_to is logged and not returned.
ConnectFailsSilently ==
    Executes({"connect"}, Outcome(TRUE)) /\ ConnectUnsent(Line(Head(batch)).dest)

ConnectFails ==
    Executes({"connect"}, Outcome(FALSE)) /\ ConnectUnsent(Line(Head(batch)).dest)

run ==
    \/ TakeCommands
    \/ express \/ publish \/ status \/ send_over_link \/ seed_peer
    \/ ConnectAgain \/ ConnectSent \/ ConnectFails

\* handle_linkrequest ignores a sender whose key it does not know: no answer, no error.
Ignored(p) ==
    IF p.type = "LINKREQUEST" /\ p.src \notin peer_keys[p.dst] THEN {p.link_id} ELSE {}

\* Frames are handled by the same loop: not in the middle of a batch.
handle_frame(p) ==
    /\ p.dst = Server => batch = <<>>
    /\ Receive(p)
    /\ dropped' = dropped \cup Ignored(p)
    /\ UNCHANGED <<peer_addrs, tasks, cmd_rx, batch, oneshot, executed>>

\* The announce of Server reaches m.
Introduce(m) ==
    /\ register_peer(m, Server)
    /\ UNCHANGED <<peer_addrs, dropped, tasks, cmd_rx, batch, oneshot, executed>>

LoseFrame(p) ==
    /\ Lose(p)
    /\ dropped' = dropped \cup {p.link_id}
    /\ UNCHANGED <<peer_addrs, tasks, cmd_rx, batch, oneshot, executed>>

ApiNext ==
    \/ \E c \in Clients : ClientWrites(c) \/ ClientCloses(c) \/ run_api_server(c) \/ handle_connection(c)
    \/ run
    \/ \E p \in net : handle_frame(p) \/ LoseFrame(p)
    \/ \E m \in Nodes \ {Server} : Introduce(m)

(***************************************************************************)
(* Fairness: tokio runs the task of every connection, and the loop never   *)
(* waits for longer than a timeout: it comes back to its commands and to   *)
(* the frames.  Clients need not do anything, an announce need not come,   *)
(* and the medium need not deliver what it loses.                          *)
(***************************************************************************)
ApiSpec ==
    /\ ApiInit /\ [][ApiNext]_apiVars
    /\ \A c \in Clients : WF_apiVars(handle_connection(c))
    /\ WF_apiVars(run)
    /\ WF_apiVars(\E p \in net : handle_frame(p))

-----------------------------------------------------------------------------
(* Properties *)

\* Type invariant.
ApiTypeOK ==
    /\ peer_keys \in [Nodes -> SUBSET Nodes] /\ peer_addrs \subseteq Nodes
    /\ handler \in [Clients -> {"none", "reading", "waiting", "ended"}]
    /\ \A c \in Clients :
          /\ nread[c] \in 0..Len(written[c])
          /\ Len(oneshot[c]) <= 1
          /\ Len(answers[c]) <= nread[c]
    /\ \A i \in DOMAIN cmd_rx : cmd_rx[i].n \in 1..nread[cmd_rx[i].conn]

\* Answered without being executed: no command, or one with a missing or malformed field.
OnTheSpot(l) == l.cmd = "invalid" \/ l.arg = "malformed"

\* However the tasks and the loop interleave, the i-th answer of a connection is the answer to its
\* i-th line that is not blank (the answers before it are those to the lines before it), and it is
\* the result of the one execution of that line: no command is executed twice, none is answered
\* without being executed, none gets another's result.  Part of it is that the state has its type.
AnswersMatchLines ==
    /\ ApiTypeOK
    /\ \A c \in Clients : \A i \in DOMAIN answers[c] :
          LET a == answers[c][i]
              runs == {k \in DOMAIN executed : executed[k].conn = c /\ executed[k].n = a.n}
          IN  /\ written[c][a.n].cmd # "blank"
              /\ {answers[c][j].n : j \in 1..(i - 1)} =
                    {n \in 1..(a.n - 1) : written[c][n].cmd # "blank"}
              /\ IF OnTheSpot(written[c][a.n])
                   THEN runs = {} /\ ~a.result.ok
                   ELSE \E k \in runs : runs = {k} /\ executed[k].result = a.result

\* connect to m was refused for want of a route.
Refused(m) ==
    \E k \in DOMAIN executed :
        Line(executed[k]).cmd = "connect" /\ Line(executed[k]).dest = m /\ ~executed[k].result.ok

\* A pending link of Server is under way: its request or its answer is in flight - except after a
\* connect that was refused, or when one of the two was lost or ignored: nothing times a handshake
\* out, so such an entry stays for ever and makes every later connect answer Ok.
PendingIsUnderway ==
    \A m \in Nodes :
        pending_channels[Server][m] # 0 =>
            \/ Refused(m)
            \/ pending_channels[Server][m] \in dropped
            \/ \E p \in net : p.link_id = pending_channels[Server][m]
                              /\ p.type \in {"LINKREQUEST", "LRPROOF"}

\* Every line that is not blank is answered, unless the client goes.
EveryLineAnswered ==
    \A c \in Clients : \A k \in 1..Lines[c].max :
        (k \in DOMAIN written[c] /\ written[c][k].cmd # "blank")
            ~> (gone[c] \/ \E a \in Given(c) : a.n = k)

\* A packet of a handshake of Server with m was lost, or m ignored it.
HandshakeDropped(m) ==
    \E r \in requested : r.from = Server /\ r.to = m /\ r.link_id \in dropped

\* A client that is told that the daemon is connecting to m gets a link to m with one key on both
\* sides, unless a connect to m was refused, or a packet of a handshake with m was lost or ignored.
LinkAsTold ==
    \A m \in Nodes \ {Server} :
        (m \in Succeeded({"connect"})) ~>
            \/ Refused(m) \/ HandshakeDropped(m)
            \/ /\ channels[Server][m].kind = "initiator"
               /\ channels[m][Server].kind = "responder"
               /\ channels[Server][m].key = channels[m][Server].key
=============================================================================
