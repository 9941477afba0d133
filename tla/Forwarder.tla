----------------------------- MODULE Forwarder -----------------------------
(***************************************************************************)
(* The ICN forwarder of a daemon with faces over links: Forwarder, Pit,    *)
(* ContentStore, Fib, BestRoute and LinkFace (crates/icn/src).             *)
(*                                                                         *)
(* express takes &mut self and keeps it while it waits for a face, so no   *)
(* other operation of the forwarder runs until it returns or its future is *)
(* dropped.  The packets of the link and the clock go on meanwhile.        *)
(*                                                                         *)
(* A name is the sequence of its components, the producer's hash first.    *)
(* The metadata that selectors look at is one bit: whether the data is     *)
(* stale, and whether the interest takes stale data from the cache.        *)
(***************************************************************************)
EXTENDS Naturals, Sequences, SequencesExt, FiniteSetsExt

CONSTANTS
    Names,       \* the names, sequences of components
    Interests,   \* interests: their name, can_be_prefix and must_be_fresh
    Data,        \* data packets: their name, whether they are signed and whether they are stale
    ZeroHash,    \* the producer hash of all zero bytes
    Faces,       \* the ids of link faces
    InFaces,     \* the ids of the faces that interests come from
    Costs,       \* costs of routes
    Capacity,    \* how many data packets the content store keeps
    MaxExpress,  \* bound: how many interests are expressed
    MaxConfig,   \* bound: how many faces, routes and keys are added or removed
    MaxArrivals, \* bound: how many data packets are received, published or arrive unasked
    MaxQueue,    \* bound: how many messages a face has not read yet when one that is no data comes
    Faults       \* what happens: "cancel" (the caller drops express), "link" (a link is closed)

ASSUME ForwarderAssumption ==
    /\ \A n \in Names : n \in Seq({n[i] : i \in DOMAIN n}) \ {<<>>}
    /\ Interests \subseteq [name : Names, can_be_prefix : BOOLEAN, must_be_fresh : BOOLEAN]
    /\ Data \subseteq [name : Names, signed : BOOLEAN, stale : BOOLEAN]
    /\ Costs \subseteq Nat
    /\ Capacity \in Nat \ {0}
    /\ {MaxExpress, MaxConfig, MaxArrivals, MaxQueue} \subseteq Nat
    /\ Faults \subseteq {"cancel", "link"}

VARIABLES
    cs,             \* the data in the content store, most recently used first
    fib,            \* [Names -> Seq([face, cost])]: no face, no entry
    pit,            \* [Names -> Entry]
    nonce_tracker,  \* the pairs of in_face and nonce that were seen
    waiters,        \* the names the notifier holds senders for
    faces,          \* the faces that are registered
    key_store,      \* the producers whose keys are registered
    task,           \* the express that is under way
    asked,          \* [Faces -> SUBSET Interests]: what the peer has to answer
    recv_queue,     \* [Faces -> Seq(Data \cup {Other})]: delivered by the link, not yet read
    permit,         \* [Faces -> BOOLEAN]: data_notify holds a permit
    used,           \* how much of each bound is used
    published,      \* history: the data that was published locally
    abandoned,      \* history: the names whose express was cancelled while pending
    strayed         \* history: the faces with data that is not the answer to the current interest

tables == <<cs, fib, pit, nonce_tracker, waiters, faces, key_store>>
wire == <<asked, recv_queue, permit>>
history == <<published, abandoned, strayed>>
vars == <<cs, fib, pit, nonce_tracker, waiters, faces, key_store, task, asked, recv_queue, permit,
          used, published, abandoned, strayed>>

\* Nonces are random: they are numbered in the order of their first use.
Nonces == 1..MaxExpress

\* A message on a link that is no data packet, such as an interest of the peer.
Other == [other |-> TRUE]

NoEntry == [in_faces |-> {}, satisfied |-> TRUE]
Idle == [state |-> "idle"]

Init ==
    /\ cs = <<>> /\ fib = [n \in Names |-> <<>>] /\ pit = [n \in Names |-> NoEntry]
    /\ nonce_tracker = {} /\ waiters = {} /\ faces = {} /\ key_store = {}
    /\ task = Idle
    /\ asked = [f \in Faces |-> {}] /\ recv_queue = [f \in Faces |-> <<>>]
    /\ permit = [f \in Faces |-> FALSE]
    /\ used = [express |-> 0, config |-> 0, arrivals |-> 0]
    /\ published = {} /\ abandoned = {} /\ strayed = {}

\* One more of what the bound limits.
Use(what, bound) == used[what] < bound /\ used' = [used EXCEPT ![what] = @ + 1]

-----------------------------------------------------------------------------
(* Content store: an LRU cache *)

starts_with(name, prefix) == IsPrefix(prefix, name)

\* The rest of the store: it holds a name at most once.
Without(name) == RemoveFirstMatch(cs, LAMBDA d : d.name = name)

\* put replaces the data of the name, and evicts the least recently used when the store is full.
Inserted(data) ==
    LET all == <<data>> \o Without(data.name) IN SubSeq(all, 1, Min({Capacity, Len(all)}))

\* The data that an interest finds: that of its name or, when the interest can be a prefix,
\* of the longest name that is a prefix of its name.
Hits(interest) ==
    IF interest.can_be_prefix
      THEN {d \in ToSet(cs) : /\ starts_with(interest.name, d.name)
                              /\ \A e \in ToSet(cs) : starts_with(interest.name, e.name) =>
                                                          Len(e.name) <= Len(d.name)}
      ELSE {d \in ToSet(cs) : d.name = interest.name}

\* get makes what it finds the most recently used; get_prefix only peeks.
Touched(interest) ==
    IF interest.can_be_prefix \/ Hits(interest) = {} THEN cs
    ELSE <<CHOOSE d \in Hits(interest) : TRUE>> \o Without(interest.name)

-----------------------------------------------------------------------------
(* Forwarding information base *)

\* Mutant: the new face goes to the end.
SortedAppended(entry) == entry

\* The place of the j-th route: how many are not after it, by cost and, of equal cost, in the
\* order they had.
Place(entry, j) ==
    Cardinality({i \in DOMAIN entry : \/ entry[i].cost < entry[j].cost
                                      \/ (entry[i].cost = entry[j].cost /\ i <= j)})

\* sort_by_key, which is stable.
Sorted(entry) ==
    [k \in DOMAIN entry |-> entry[CHOOSE j \in DOMAIN entry : Place(entry, j) = k]]

\* Fib::insert
WithRoute(entry, face, cost) ==
    IF \E i \in DOMAIN entry : entry[i].face = face
      THEN Sorted([i \in DOMAIN entry |->
                      IF entry[i].face = face THEN [entry[i] EXCEPT !.cost = cost] ELSE entry[i]])
      ELSE Sorted(Append(entry, [face |-> face, cost |-> cost]))

Matching(name) == {p \in Names : fib[p] # <<>> /\ starts_with(name, p)}

\* Fib::lookup: the faces of the longest prefix.
Lookup(name) ==
    IF Matching(name) = {} THEN <<>>
    ELSE fib[CHOOSE p \in Matching(name) : \A q \in Matching(name) : Len(q) <= Len(p)]

-----------------------------------------------------------------------------
(* Pending interest table *)

\* insert_or_aggregate, on a name whose interest is not pending or is.
WithInterest(entry, in_face) ==
    [in_faces |-> IF entry.satisfied THEN {in_face} ELSE entry.in_faces \cup {in_face},
     satisfied |-> FALSE]

\* Pit::satisfy
Satisfied(table, name) == [table EXCEPT ![name].satisfied = TRUE]

\* purge_expired: what is satisfied goes, and of the rest and of the nonces what the clock says.
PurgedFrom(table, nonces) ==
    /\ \E late \in SUBSET {n \in Names : ~table[n].satisfied} :
          pit' = [n \in Names |-> IF table[n].satisfied \/ n \in late THEN NoEntry ELSE table[n]]
    /\ \E late \in SUBSET nonce_tracker : nonce_tracker' = nonces \ late

-----------------------------------------------------------------------------
(* Configuration and data from elsewhere *)

register_face(f) ==
    /\ task = Idle /\ f \notin faces /\ Use("config", MaxConfig)
    /\ faces' = faces \cup {f}
    /\ UNCHANGED <<cs, fib, pit, nonce_tracker, waiters, key_store, task, wire, history>>

\* Fib::remove_face: the face leaves the names below and above the prefix, each of which has it at
\* most once.
WithoutFace(prefix, f) ==
    [n \in Names |-> IF starts_with(n, prefix) \/ starts_with(prefix, n)
                        THEN RemoveFirstMatch(fib[n], LAMBDA r : r.face = f) ELSE fib[n]]

\* The prefix is meant to match everything, and is the root of the zero hash.
unregister_face(f) ==
    /\ task = Idle /\ f \in faces /\ Use("config", MaxConfig)
    /\ faces' = faces \ {f}
    /\ fib' = WithoutFace(<<ZeroHash>>, f)
    /\ UNCHANGED <<cs, pit, nonce_tracker, waiters, key_store, task, wire, history>>

add_route(prefix, f, cost) ==
    /\ task = Idle /\ Use("config", MaxConfig)
    /\ fib' = [fib EXCEPT ![prefix] = WithRoute(@, f, cost)]
    /\ UNCHANGED <<cs, pit, nonce_tracker, waiters, faces, key_store, task, wire, history>>

register_keys(producer) ==
    /\ task = Idle /\ producer \notin key_store /\ Use("config", MaxConfig)
    /\ key_store' = key_store \cup {producer}
    /\ UNCHANGED <<cs, fib, pit, nonce_tracker, waiters, faces, task, wire, history>>

\* Mutant: only the producer is looked up.
verify_data_producer(data) == data.name[1] \in key_store

verify_data(data) == data.name[1] \in key_store /\ data.signed

\* Daemon::publish puts data into the content store as it is.
publish(data) ==
    /\ task = Idle /\ Use("arrivals", MaxArrivals)
    /\ cs' = Inserted(data)
    /\ published' = published \cup {data}
    /\ UNCHANGED <<fib, pit, nonce_tracker, waiters, faces, key_store, task, wire, abandoned,
                   strayed>>

\* Data that cannot be verified changes nothing.
receive_data(data) ==
    /\ task = Idle /\ verify_data(data) /\ Use("arrivals", MaxArrivals)
    /\ waiters' = IF pit[data.name] # NoEntry THEN waiters \ {data.name} ELSE waiters
    /\ cs' = Inserted(data)
    /\ PurgedFrom(Satisfied(pit, data.name), nonce_tracker)
    /\ UNCHANGED <<fib, faces, key_store, task, wire, history>>

-----------------------------------------------------------------------------
(* Expressing an interest.  seen is the face it comes from and its nonce. *)

\* selector_satisfied
SelectorSatisfied(interest, data) == ~(interest.must_be_fresh /\ data.stale)

FromCache(interest) == {d \in Hits(interest) : SelectorSatisfied(interest, d)}

Pending(name) == ~pit[name].satisfied

LoopDetected(interest, seen) ==
    /\ seen \in nonce_tracker
    /\ UNCHANGED <<tables, task, asked, abandoned>>

\* What precedes the decision: the nonce is new, and the content store is consulted.
Recorded(interest, seen) ==
    /\ seen \notin nonce_tracker
    /\ cs' = Touched(interest)

ServeFromCache(interest, seen) ==
    /\ Recorded(interest, seen)
    /\ FromCache(interest) # {}
    /\ nonce_tracker' = nonce_tracker \cup {seen}
    /\ UNCHANGED <<fib, pit, waiters, faces, key_store, task, asked, abandoned>>

\* An interest that is pending already waits for the notifier.
SuppressAggregate(interest, seen) ==
    /\ Recorded(interest, seen)
    /\ FromCache(interest) = {} /\ Pending(interest.name)
    /\ nonce_tracker' = nonce_tracker \cup {seen}
    /\ waiters' = waiters \cup {interest.name}
    /\ task' = [state |-> "suppressed", interest |-> interest]
    /\ UNCHANGED <<fib, pit, faces, key_store, asked, abandoned>>

NoRoute(interest, seen) ==
    /\ Recorded(interest, seen)
    /\ FromCache(interest) = {} /\ ~Pending(interest.name) /\ Lookup(interest.name) = <<>>
    /\ nonce_tracker' = nonce_tracker \cup {seen}
    /\ UNCHANGED <<fib, pit, waiters, faces, key_store, task, asked, abandoned>>

\* The decision to forward; failures are never recorded, so no face is ever in backoff.
Forwarded(interest, seen) ==
    /\ Recorded(interest, seen)
    /\ FromCache(interest) = {} /\ ~Pending(interest.name) /\ Lookup(interest.name) # <<>>
    /\ abandoned' = abandoned \ {interest.name}

BestFace(interest) == Head(Lookup(interest.name)).face

Inserting(interest, in_face) ==
    [pit EXCEPT ![interest.name] = WithInterest(@, in_face)]

\* The route leads to a face that is no longer registered, or never was.
FaceNotFound(interest, seen) ==
    /\ Forwarded(interest, seen)
    /\ BestFace(interest) \notin faces
    /\ nonce_tracker' = nonce_tracker \cup {seen}
    /\ pit' = Satisfied(Inserting(interest, seen[1]), interest.name)
    /\ UNCHANGED <<fib, waiters, faces, key_store, task, asked>>

\* LinkFace::express_interest: the interest goes out on the link.
ForwardTo(interest, seen) ==
    /\ Forwarded(interest, seen)
    /\ BestFace(interest) \in faces
    /\ nonce_tracker' = nonce_tracker \cup {seen}
    /\ pit' = Inserting(interest, seen[1])
    /\ asked' = [asked EXCEPT ![BestFace(interest)] = @ \cup {interest}]
    /\ task' = [state |-> "checking", interest |-> interest, face |-> BestFace(interest)]
    /\ UNCHANGED <<fib, waiters, faces, key_store>>

\* The link refuses to send: link.send returns an error.
SendFails(interest, seen) ==
    /\ "link" \in Faults
    /\ Forwarded(interest, seen)
    /\ BestFace(interest) \in faces
    /\ waiters' = waiters \ {interest.name}
    /\ PurgedFrom(Satisfied(Inserting(interest, seen[1]), interest.name),
                  nonce_tracker \cup {seen})
    /\ UNCHANGED <<fib, faces, key_store, task, asked>>

express(interest, seen) ==
    /\ task = Idle /\ seen[2] <= used.express + 1 /\ Use("express", MaxExpress)
    /\ \/ LoopDetected(interest, seen)
       \/ ServeFromCache(interest, seen)
       \/ SuppressAggregate(interest, seen)
       \/ NoRoute(interest, seen)
       \/ FaceNotFound(interest, seen)
       \/ ForwardTo(interest, seen)
       \/ SendFails(interest, seen)
    /\ UNCHANGED <<recv_queue, permit, published, strayed>>

-----------------------------------------------------------------------------
(* Waiting for the face: the loop of LinkFace::express_interest *)

\* deliver_packet: the message is queued and data_notify gets its permit, of which there is one.
Delivered(f, message) ==
    /\ recv_queue' = [recv_queue EXCEPT ![f] = Append(@, message)]
    /\ permit' = [permit EXCEPT ![f] = TRUE]

\* Data that answers an interest.
Matches(data, interest) ==
    \/ data.name = interest.name
    \/ /\ interest.can_be_prefix
       /\ starts_with(interest.name, data.name)

\* The peer answers an interest once, in any order and however late.
deliver_answer(f) ==
    \E interest \in asked[f], d \in Data :
        /\ Matches(d, interest)
        /\ Delivered(f, d)
        /\ asked' = [asked EXCEPT ![f] = @ \ {interest}]
        /\ UNCHANGED <<tables, task, used, history>>

\* Data that is no answer: the medium repeats a packet, which Link::deliver takes again, or the
\* peer sends data unasked.
deliver_stray(f) ==
    /\ f \in faces /\ Use("arrivals", MaxArrivals)
    /\ \E d \in Data : Delivered(f, d)
    /\ strayed' = strayed \cup {f}
    /\ UNCHANGED <<tables, task, asked, published, abandoned>>

\* Any number of other messages: only the number of those that wait is bounded.
deliver_other(f) ==
    /\ f \in faces /\ Len(recv_queue[f]) < MaxQueue
    /\ Delivered(f, Other)
    /\ UNCHANGED <<tables, task, asked, used, history>>

\* The first message of the queue is data, whatever interest it answers.
Answer == Head(recv_queue[task.face])
HasAnswer == recv_queue[task.face] # <<>> /\ Answer # Other

\* The queue is empty, or its first message is no data packet and dropped: wait for a notification.
CheckFails ==
    /\ task.state = "checking" /\ ~HasAnswer
    /\ recv_queue' = [recv_queue EXCEPT ![task.face] = IF @ = <<>> THEN @ ELSE Tail(@)]
    /\ task' = [task EXCEPT !.state = "waiting"]
    /\ UNCHANGED <<tables, asked, permit, used, history>>

Notified ==
    /\ task.state = "waiting" /\ permit[task.face]
    /\ permit' = [permit EXCEPT ![task.face] = FALSE]
    /\ task' = [task EXCEPT !.state = "checking"]
    /\ UNCHANGED <<tables, asked, recv_queue, used, history>>

\* Mutant: the entry of an interest that timed out stays.
EndedForgets(name) == pit' = pit /\ nonce_tracker' = nonce_tracker /\ waiters' = waiters

\* The interest is satisfied, who waits for it is notified, and the table is purged.
Ended(name) ==
    /\ PurgedFrom(Satisfied(pit, name), nonce_tracker)
    /\ waiters' = waiters \ {name}

\* Mutant: the loop goes on when its timer fires.
TimedOutRestarts ==
    /\ task.state = "waiting"
    /\ task' = [task EXCEPT !.state = "checking"]
    /\ UNCHANGED <<tables, wire, used, history>>

\* Every turn of the loop has a timer of its own: it fires only after a wait without notification,
\* or at the moment of one.
TimedOut ==
    /\ task.state = "waiting"
    /\ Ended(task.interest.name)
    /\ task' = Idle
    /\ strayed' = strayed \cup {task.face}
    /\ UNCHANGED <<cs, fib, faces, key_store, wire, used, published, abandoned>>

\* Mutant: the answer stays in the queue.
AnsweredPeeks ==
    /\ task.state = "checking" /\ HasAnswer
    /\ task' = Idle
    /\ UNCHANGED <<fib, faces, key_store, wire, used, published, abandoned, strayed>>

Answered ==
    /\ task.state = "checking" /\ HasAnswer
    /\ recv_queue' = [recv_queue EXCEPT ![task.face] = Tail(@)]
    /\ task' = Idle
    /\ UNCHANGED <<fib, faces, key_store, asked, permit, used, published, abandoned, strayed>>

AnswerAccepted ==
    /\ Answered /\ verify_data(Answer)
    /\ cs' = Inserted(Answer)
    /\ Ended(task.interest.name)

\* Neither is anybody notified nor the table purged.
AnswerRefused ==
    /\ Answered /\ ~verify_data(Answer)
    /\ pit' = Satisfied(pit, task.interest.name)
    /\ UNCHANGED <<cs, nonce_tracker, waiters>>

\* The caller drops the future of express.
Cancel ==
    /\ "cancel" \in Faults /\ task # Idle
    /\ task' = Idle
    /\ IF task.state = "suppressed" THEN UNCHANGED <<abandoned, strayed>>
       ELSE /\ abandoned' = abandoned \cup {task.interest.name}
            /\ strayed' = strayed \cup {task.face}
    /\ UNCHANGED <<tables, wire, used, published>>

forward_and_wait == CheckFails \/ Notified \/ TimedOut \/ AnswerAccepted \/ AnswerRefused

Next ==
    \/ \E f \in Faces : register_face(f) \/ unregister_face(f)
    \/ \E p \in Names, f \in Faces, c \in Costs : add_route(p, f, c)
    \/ \E p \in {n[1] : n \in Names} : register_keys(p)
    \/ \E d \in Data : publish(d) \/ receive_data(d)
    \/ \E i \in Interests, seen \in InFaces \X Nonces : express(i, seen)
    \/ \E f \in Faces : deliver_answer(f) \/ deliver_stray(f) \/ deliver_other(f)
    \/ forward_and_wait \/ Cancel

Spec == Init /\ [][Next]_vars

\* Fairness: the task that runs express is polled, and the timer of a turn fires if no notification
\* ends the turn before.
FairSpec == Spec /\ WF_vars(forward_and_wait)

-----------------------------------------------------------------------------
(* Properties *)

\* Type invariant; the content store has one entry per name and keeps to its capacity, and a name
\* has one route per face.
TypeOK ==
    /\ cs \in Seq(Data) /\ Len(cs) <= Capacity
    /\ \A i, j \in DOMAIN cs : cs[i].name = cs[j].name => i = j
    /\ fib \in [Names -> Seq([face : Faces, cost : Costs])]
    /\ \A n \in Names : \A i, j \in DOMAIN fib[n] : fib[n][i].face = fib[n][j].face => i = j
    /\ pit \in [Names -> [in_faces : SUBSET InFaces, satisfied : BOOLEAN]]
    /\ nonce_tracker \subseteq InFaces \X Nonces
    /\ waiters \subseteq Names /\ faces \subseteq Faces
    /\ key_store \subseteq {n[1] : n \in Names}
    /\ \/ task = Idle
       \/ task \in [state : {"suppressed"}, interest : Interests]
       \/ task \in [state : {"checking", "waiting"}, interest : Interests, face : Faces]
    /\ asked \in [Faces -> SUBSET Interests]
    /\ recv_queue \in [Faces -> Seq(Data \cup {Other})]
    /\ permit \in [Faces -> BOOLEAN]

\* Whatever faces and links bring in, the content store, which express serves from and puts its
\* answers into, holds only data that was published here or whose signature was verified with the
\* keys of the producer it names.  Part of it is that the state has its type.
OnlyTrustedData ==
    /\ TypeOK
    /\ \A d \in ToSet(cs) : d \in published \/ (d.signed /\ d.name[1] \in key_store)

\* An interest is forwarded to a cheapest face of the longest prefix that has a route, however
\* routes were added, changed and removed.
ForwardedToBest ==
    task.state \in {"checking", "waiting"} =>
        \E p \in Matching(task.interest.name) :
            /\ \A q \in Matching(task.interest.name) : Len(q) <= Len(p)
            /\ \E r \in ToSet(fib[p]) :
                  r.face = task.face /\ \A other \in ToSet(fib[p]) : r.cost <= other.cost

\* An interest is pending only while express waits for it, or after its caller cancelled it: timeouts,
\* errors, refused answers and answers to other interests all leave none behind, so that a later
\* express of the name is not suppressed in favour of one that nobody waits for.
PendingIsAwaited ==
    \A n \in Names : Pending(n) => \/ n \in abandoned
                                   \/ /\ task.state \in {"checking", "waiting"}
                                      /\ task.interest.name = n

\* The answer that express accepts is for the interest it was called with, on every face where each
\* interest was answered before its express ended and nothing but these answers came as data: data that
\* comes late, twice or unasked goes to the next interest of its face, and only of its face.
AnswersTheInterest ==
    [][AnswerAccepted /\ task.face \notin strayed => Matches(Answer, task.interest)]_vars

\* An express that was forwarded returns, by an answer or by its timer, whatever notifications are
\* merged in the single permit and whatever lies in the queue; unless messages keep coming on its
\* face for ever, each of which starts the timer afresh.
ForwardedEnds ==
    \A f \in Faces :
        \/ []<><<Len(recv_queue'[f]) > Len(recv_queue[f])>>_vars
        \/ (task.state \in {"checking", "waiting"} /\ task.face = f) ~> task = Idle
=============================================================================
