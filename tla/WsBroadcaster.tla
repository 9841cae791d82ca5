--------------------------- MODULE WsBroadcaster ---------------------------
(***************************************************************************)
(* The transport of WS /ws/stream (backend/ws_broadcaster.py).  publish()   *)
(* is called by foreign threads and only schedules _dispatch() on the event *)
(* loop, which offers the envelope to a bounded queue per client; one       *)
(* writer task per client drains its queue into the socket.                 *)
(*                                                                          *)
(* Everything but publish() runs on the loop, so that an action is what     *)
(* happens between two awaits.  The route of a client and its writer task   *)
(* interleave at their awaits, and a socket can stall or break at any time. *)
(* A task that is cancelled does nothing more: cancelling it and its end    *)
(* are one step.                                                            *)
(***************************************************************************)
EXTENDS Naturals, Sequences, SequencesExt, FiniteSets

CONSTANTS
    Publishers,     \* threads that publish: the engine's, those of rollback requests
    Clients,        \* connections, each made once
    QueueMax,       \* ws_client_queue_max
    MaxPublished    \* bound: envelopes of one publisher

ASSUME BroadcasterAssumption ==
    /\ QueueMax \in Nat \ {0} /\ MaxPublished \in Nat
    /\ IsFiniteSet(Clients) /\ IsFiniteSet(Publishers)

Hello == "hello"
Envelopes == Publishers \X (1 .. MaxPublished)
Frames == Envelopes \cup {Hello}

VARIABLES
    loop,               \* _loop: "unset", "running" or "closed"
    ready,              \* the loop's scheduled calls of _dispatch, by their envelope
    published,          \* envelopes published, per publisher
    noLoop,             \* _publish_no_loop_count
    clients,            \* _clients
    queue,              \* each client's queue
    dropped, sent,      \* each client's counters
    totalDropped, totalSent,
    route,              \* where ws_stream() is, per client
    writer,             \* its writer task
    socket,             \* its socket: "up", "stalled" or "down"
    closing,            \* close_all()'s list, what is left of it
    server,             \* "up", or "down" once close_all() was called
    dispatched,         \* history: calls of _dispatch()
    offered,            \* history: what _dispatch() put to a client
    wire                \* history: what was handed to its socket, in order

publishVars == <<ready, published, noLoop>>
counters == <<dropped, sent, totalDropped, totalSent>>
serverVars == <<closing, server>>
history == <<dispatched, offered>>
vars == <<loop, publishVars, clients, queue, counters, route, writer, socket, serverVars,
          history, wire>>

Init ==
    /\ loop = "unset" /\ ready = <<>>
    /\ published = [p \in Publishers |-> 0] /\ noLoop = 0
    /\ clients = {} /\ queue = [c \in Clients |-> <<>>]
    /\ dropped = [c \in Clients |-> 0] /\ sent = [c \in Clients |-> 0]
    /\ totalDropped = 0 /\ totalSent = 0
    /\ route = [c \in Clients |-> "new"] /\ writer = [c \in Clients |-> "none"]
    /\ socket = [c \in Clients |-> "up"]
    /\ closing = {} /\ server = "up"
    /\ dispatched = 0
    /\ offered = [c \in Clients |-> <<>>] /\ wire = [c \in Clients |-> <<>>]

-----------------------------------------------------------------------------
(* Publishing *)

\* set_loop(), from the lifespan.
SetLoop ==
    /\ loop = "unset"
    /\ loop' = "running"
    /\ UNCHANGED <<publishVars, clients, queue, counters, route, writer, socket, serverVars,
                   history, wire>>

\* Mutant: a failed publish is not counted.
Publish_Silent(p) ==
    /\ published[p] < MaxPublished
    /\ published' = [published EXCEPT ![p] = @ + 1]
    /\ ready' = IF loop = "running" THEN Append(ready, <<p, published'[p]>>) ELSE ready
    /\ UNCHANGED <<loop, noLoop, clients, queue, counters, route, writer, socket, serverVars,
                   history, wire>>

\* publish(): a call of _dispatch is scheduled; without a loop, or with a closed one,
\* the call is counted and nothing else.
Publish(p) ==
    /\ published[p] < MaxPublished
    /\ published' = [published EXCEPT ![p] = @ + 1]
    /\ IF loop = "running"
         THEN ready' = Append(ready, <<p, published'[p]>>) /\ UNCHANGED noLoop
         ELSE noLoop' = noLoop + 1 /\ UNCHANGED ready
    /\ UNCHANGED <<loop, clients, queue, counters, route, writer, socket, serverVars,
                   history, wire>>

Full(c) == Len(queue[c]) = QueueMax

\* Mutant: on overflow the new envelope is dropped.
Enqueued_DropsNew(c, envelope) == IF Full(c) THEN queue[c] ELSE Append(queue[c], envelope)

\* _enqueue(): on overflow the oldest envelope makes room.
Enqueued(c, envelope) ==
    Append(IF Full(c) THEN Tail(queue[c]) ELSE queue[c], envelope)

\* _dispatch(), on the loop: to every client, in one go.
Dispatch ==
    /\ loop = "running" /\ ready # <<>>
    /\ ready' = Tail(ready) /\ dispatched' = dispatched + 1
    /\ queue' = [c \in Clients |-> IF c \in clients THEN Enqueued(c, Head(ready)) ELSE queue[c]]
    /\ dropped' = [c \in Clients |->
                      IF c \in clients /\ Full(c) THEN dropped[c] + 1 ELSE dropped[c]]
    /\ totalDropped' = totalDropped + Cardinality({c \in clients : Full(c)})
    /\ offered' = [c \in Clients |->
                      IF c \in clients THEN Append(offered[c], Head(ready)) ELSE offered[c]]
    /\ UNCHANGED <<loop, published, noLoop, clients, sent, totalSent, route, writer, socket,
                   serverVars, wire>>

-----------------------------------------------------------------------------
(* A connection: the route's coroutine *)

\* What is sent on a socket that is down raises and goes nowhere.
Handed(c, frame) == IF socket[c] = "down" THEN wire[c] ELSE Append(wire[c], frame)

\* ws_stream() took its status snapshot and awaits accept().
Connect(c) ==
    /\ route[c] = "new" /\ loop = "running" /\ server = "up"
    /\ route' = [route EXCEPT ![c] = "accepting"]
    /\ UNCHANGED <<loop, publishVars, clients, queue, counters, writer, socket, serverVars,
                   history, wire>>

\* accept() raises: the client was never added.
AcceptFails(c) ==
    /\ route[c] = "accepting" /\ socket[c] = "down"
    /\ route' = [route EXCEPT ![c] = "gone"]
    /\ UNCHANGED <<loop, publishVars, clients, queue, counters, writer, socket, serverVars,
                   history, wire>>

\* register(), after accept(): the client is added and its writer task created, before
\* the hello frame is sent; but the writer first runs once this coroutine waits for
\* its send, which is then ahead of the writer's.
Register(c) ==
    /\ route[c] = "accepting" /\ socket[c] # "down"
    /\ clients' = clients \cup {c}
    /\ writer' = [writer EXCEPT ![c] = "waiting"]
    /\ route' = [route EXCEPT ![c] = "hello"]
    /\ wire' = [wire EXCEPT ![c] = Handed(c, Hello)]
    /\ UNCHANGED <<loop, publishVars, queue, counters, socket, serverVars, history>>

\* The send ends, well or with an exception (a timeout too), which is only logged.
HelloEnds(c) ==
    /\ route[c] = "hello"
    /\ route' = [route EXCEPT ![c] = "open"]
    /\ UNCHANGED <<loop, publishVars, clients, queue, counters, writer, socket, serverVars,
                   history, wire>>

\* Mutant: the writer task is left running.
Ended_NotCancelled(c) == writer

\* The writer tasks once c's is cancelled.
Ended(c) == [writer EXCEPT ![c] = IF @ = "none" THEN @ ELSE "ended"]

\* receive_text() raises, as the socket is gone: unregister().
Leave(c) ==
    /\ route[c] = "open" /\ socket[c] = "down"
    /\ route' = [route EXCEPT ![c] = "gone"]
    /\ clients' = clients \ {c}
    /\ writer' = Ended(c)
    /\ UNCHANGED <<loop, publishVars, queue, counters, socket, serverVars, history, wire>>

-----------------------------------------------------------------------------
(* A connection: the writer task *)

\* Mutant: the newest envelope is sent first.
Take_NewestFirst(c) ==
    /\ loop = "running" /\ writer[c] = "waiting" /\ queue[c] # <<>>
    /\ writer' = [writer EXCEPT ![c] = "sending"]
    /\ queue' = [queue EXCEPT ![c] = Front(@)]
    /\ wire' = [wire EXCEPT ![c] = Handed(c, Last(queue[c]))]
    /\ UNCHANGED <<loop, publishVars, clients, counters, route, socket, serverVars, history>>

\* The oldest envelope of the queue is handed to the socket.
Take(c) ==
    /\ loop = "running" /\ writer[c] = "waiting" /\ queue[c] # <<>>
    /\ writer' = [writer EXCEPT ![c] = "sending"]
    /\ queue' = [queue EXCEPT ![c] = Tail(@)]
    /\ wire' = [wire EXCEPT ![c] = Handed(c, Head(queue[c]))]
    /\ UNCHANGED <<loop, publishVars, clients, counters, route, socket, serverVars, history>>

\* Mutant: the writer stops after its first envelope.
Sent_NoLoop(c) ==
    /\ loop = "running" /\ writer[c] = "sending" /\ socket[c] = "up"
    /\ writer' = [writer EXCEPT ![c] = "ended"]
    /\ sent' = [sent EXCEPT ![c] = @ + 1] /\ totalSent' = totalSent + 1
    /\ UNCHANGED <<loop, publishVars, clients, queue, dropped, totalDropped, route, socket,
                   serverVars, history, wire>>

Sent(c) ==
    /\ loop = "running" /\ writer[c] = "sending" /\ socket[c] = "up"
    /\ writer' = [writer EXCEPT ![c] = "waiting"]
    /\ sent' = [sent EXCEPT ![c] = @ + 1] /\ totalSent' = totalSent + 1
    /\ UNCHANGED <<loop, publishVars, clients, queue, dropped, totalDropped, route, socket,
                   serverVars, history, wire>>

\* The send raises, or times out on a stalled socket: the writer returns.  The client
\* stays registered until its route notices.
SendFails(c) ==
    /\ loop = "running" /\ writer[c] = "sending" /\ socket[c] # "up"
    /\ writer' = [writer EXCEPT ![c] = "failed"]
    /\ UNCHANGED <<loop, publishVars, clients, queue, counters, route, socket, serverVars,
                   history, wire>>

-----------------------------------------------------------------------------
(* The shutdown *)

\* close_all() lists the clients.  The server has finished its handshakes by then and
\* takes no new connection.
Shutdown ==
    /\ server = "up" /\ loop = "running"
    /\ \A c \in Clients : route[c] # "accepting"
    /\ server' = "down" /\ closing' = clients
    /\ UNCHANGED <<loop, publishVars, clients, queue, counters, route, writer, socket, history,
                   wire>>

\* It closes a listed socket (an exception is swallowed) ...
CloseSocket(c) ==
    /\ c \in closing /\ socket[c] # "down"
    /\ socket' = [socket EXCEPT ![c] = "down"]
    /\ UNCHANGED <<loop, publishVars, clients, queue, counters, route, writer, serverVars,
                   history, wire>>

\* ... and unregisters the client, which its route may have done or may yet do.
CloseClient(c) ==
    /\ c \in closing /\ socket[c] = "down"
    /\ closing' = closing \ {c}
    /\ clients' = clients \ {c}
    /\ writer' = Ended(c)
    /\ UNCHANGED <<loop, publishVars, queue, counters, route, socket, server, history, wire>>

\* The loop closes; what it had scheduled is never called.
LoopCloses ==
    /\ server = "down" /\ closing = {} /\ loop = "running"
    /\ loop' = "closed"
    /\ UNCHANGED <<publishVars, clients, queue, counters, route, writer, socket, serverVars,
                   history, wire>>

-----------------------------------------------------------------------------
(* The network *)

SocketBecomes(c, state) ==
    /\ route[c] \notin {"new", "gone"}
    /\ socket[c] # state /\ socket[c] # "down"
    /\ socket' = [socket EXCEPT ![c] = state]
    /\ UNCHANGED <<loop, publishVars, clients, queue, counters, route, writer, serverVars,
                   history, wire>>

-----------------------------------------------------------------------------
(* The specification *)

ClientStep(c) ==
    \/ Connect(c) \/ AcceptFails(c) \/ Register(c) \/ HelloEnds(c) \/ Leave(c)
    \/ Take(c) \/ Sent(c) \/ SendFails(c)
    \/ CloseSocket(c) \/ CloseClient(c)
    \/ \E state \in {"up", "stalled", "down"} : SocketBecomes(c, state)

Next ==
    \/ SetLoop \/ Dispatch \/ Shutdown \/ LoopCloses
    \/ \E p \in Publishers : Publish(p)
    \/ \E c \in Clients : ClientStep(c)

Spec == Init /\ [][Next]_vars

\* The event loop runs what is ready, and a send ends: it times out if need be.
Fairness ==
    /\ WF_vars(Dispatch)
    /\ \A c \in Clients : WF_vars(Take(c)) /\ WF_vars(Sent(c)) /\ WF_vars(SendFails(c))

FairSpec == Spec /\ Fairness

-----------------------------------------------------------------------------
(* Properties *)

TypeOK ==
    /\ loop \in {"unset", "running", "closed"} /\ server \in {"up", "down"}
    /\ ready \in Seq(Envelopes) /\ published \in [Publishers -> 0 .. MaxPublished]
    /\ noLoop \in Nat /\ dispatched \in Nat /\ totalDropped \in Nat /\ totalSent \in Nat
    /\ clients \subseteq Clients /\ closing \subseteq Clients
    /\ queue \in [Clients -> Seq(Envelopes)] /\ \A c \in Clients : Len(queue[c]) <= QueueMax
    /\ dropped \in [Clients -> Nat] /\ sent \in [Clients -> Nat]
    /\ route \in [Clients -> {"new", "accepting", "hello", "open", "gone"}]
    /\ writer \in [Clients -> {"none", "waiting", "sending", "failed", "ended"}]
    /\ socket \in [Clients -> {"up", "stalled", "down"}]
    /\ offered \in [Clients -> Seq(Envelopes)] /\ wire \in [Clients -> Seq(Frames)]

\* A client that fell behind still gets the freshest state: its queue holds the last
\* envelopes it was offered, with no gap, however dispatches and sends interleave.
QueueHoldsTheNewest ==
    \A c \in Clients : IsSuffix(queue[c], offered[c])

\* The greeting comes before every envelope, although the client's queue and writer
\* exist before it is sent.
HelloFirst ==
    \A c \in Clients : wire[c] # <<>> => Head(wire[c]) = Hello

\* Of two envelopes of one publisher, e was published first.
Before(e, f) == e[1] = f[1] => e[2] < f[2]

\* No reordering and no duplicate from the thread that published to the socket: the
\* envelopes of one publisher reach a client in the order they were published.
PublishedOrderOnTheWire ==
    \A c \in Clients : \A i, j \in 1 .. Len(wire[c]) :
        (i < j /\ wire[c][i] # Hello /\ wire[c][j] # Hello)
            => Before(wire[c][i], wire[c][j])

SumOf(f, S) == FoldFunctionOnSet(+, 0, f, S)

\* Nothing disappears uncounted: what was published was dispatched, waits for the loop,
\* or is counted as published without one; what a client was offered was sent, dropped
\* by its overflow, is queued, or is the one envelope its writer held when it failed or
\* was cancelled; and the totals of stats() agree with the clients' counters.
NothingLostUncounted ==
    /\ SumOf(published, Publishers) = noLoop + Len(ready) + dispatched
    /\ totalDropped = SumOf(dropped, Clients) /\ totalSent = SumOf(sent, Clients)
    /\ \A c \in Clients :
          LET held == Len(offered[c]) - (sent[c] + dropped[c] + Len(queue[c]))
          IN  /\ held \in 0 .. 1
              /\ writer[c] = "sending" \/ writer[c] = "failed" => held = 1
              /\ writer[c] = "waiting" \/ writer[c] = "none" => held = 0

\* No writer task outlives its client's registration, and none the loop.
NoOrphanWriter ==
    /\ \A c \in Clients : writer[c] \in {"waiting", "sending"} => c \in clients
    /\ loop = "closed" => clients = {}

\* A stalled or broken client delays nobody else: what is queued for a client whose
\* socket takes data is handed to it or dropped as the oldest, while the loop runs.
HealthyClientIsServed ==
    \A c \in Clients, e \in Envelopes :
        (e \in ToSet(queue[c]) /\ c \in clients)
            ~> \/ e \notin ToSet(queue[c])
               \/ socket[c] # "up" \/ writer[c] = "failed" \/ c \notin clients
               \/ loop = "closed"

=============================================================================
