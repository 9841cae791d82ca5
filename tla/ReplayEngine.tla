---------------------------- MODULE ReplayEngine ----------------------------
(***************************************************************************)
(* The replay engine of backend/replay_engine.py: one background thread    *)
(* hands the flows of a capture day to a consumer in micro-batches, while   *)
(* HTTP route threads start it, stop it and queue injected flows.           *)
(*                                                                          *)
(* A step of this module is one critical section of the engine's locks (or  *)
(* one call made outside them), so every interleaving of the replay thread  *)
(* with the callers of start(), stop() and inject() is a behaviour.  Flows  *)
(* are positions in the day's schedule.  The clock is abstracted: the due   *)
(* index a tick computes may be any index from the pointer on (the pacing   *)
(* arithmetic and set_speed(), which touches nothing but the anchors, have  *)
(* a plan of their own in the README).                                      *)
(***************************************************************************)
EXTENDS Naturals, Sequences

CONSTANTS
    Controllers,    \* route threads that may call start() and stop()
    Injectors,      \* route threads that may call POST /api/inject
    MaxStarts,      \* bound: calls of start() that take effect
    MaxLoops,       \* bound: sessions minted in all (starts and loop passes)
    MaxFlows,       \* bound: flows one run may schedule
    MaxInjected,    \* bound: injected flows accepted in all
    QueueMax,       \* replay_injection_queue_max
    MaxBatch        \* replay_max_batch_size

ASSUME BoundsAssumption ==
    /\ MaxStarts \in Nat \ {0} /\ MaxLoops \in Nat /\ MaxFlows \in Nat
    /\ MaxInjected \in Nat /\ QueueMax \in Nat
ASSUME MaxBatchAssumption == MaxBatch \in Nat \ {0}

Threads == 1 .. MaxStarts
NoThread == 0
Sessions == 1 .. MaxLoops

VARIABLES
    running, thread, stopEvent,     \* _running, _thread, _stop_event
    flows, pointer,                 \* Len(_flows), _pointer
    loopFlag, session,              \* _loop_flag, _session_id (minted in order)
    counts,                         \* the four counters of status()
    queue,                          \* _injection_buffer
    tpc, work,                      \* each replay thread: where it is, its batch
    cpc, handle,                    \* each controller: where it is, its `thread`
    ipc,                            \* each injector: where it is
    starts, accepted,               \* threads created, injected flows accepted
    handed, injHanded, runHanded,   \* history: what the consumer was handed
    callsAfterStop,                 \* history: consumer calls since stop() was called
    abandoned,                      \* history: in this run a stop()'s join() raised
    detached                        \* history: stop() returned, a thread lives

engineVars == <<running, thread, stopEvent, flows, pointer, loopFlag, session>>
threadVars == <<tpc, work>>
callerVars == <<cpc, handle, starts, abandoned>>
injectVars == <<queue, ipc, accepted>>
history == <<handed, injHanded, runHanded, callsAfterStop>>
vars == <<engineVars, counts, threadVars, callerVars, injectVars, history, detached>>

-----------------------------------------------------------------------------
(* Threads and batches *)

ThreadStates == {"none", "created", "check", "drain", "emit", "call", "count",
                 "due", "advance", "exhaust", "loop", "ended", "dead"}

\* A replay thread that was created and has not returned from _run_loop.
Live == {t \in Threads : tpc[t] \notin {"none", "dead"}}

\* The scheduled flows at positions from+1 .. to, in order: _flows[from:to].
Slice(from, to) == [i \in 1 .. (to - from) |-> from + i]

SmallerOf(a, b) == IF a < b THEN a ELSE b

\* An injected batch keeps the pointer where it is (`next` is not used).
InjectedBatch(items) ==
    [origin |-> "injected", items |-> items, session |-> 0, next |-> 0]
ReplayBatch(from, to) ==
    [origin |-> "replay", items |-> Slice(from, to), session |-> 0, next |-> to]
NoBatch == InjectedBatch(<<>>)

ZeroCounts == [emitted |-> 0, batches |-> 0, errors |-> 0, failed |-> 0]

\* The controller's call is over; its local variables with it.
Return(c) ==
    /\ cpc' = [cpc EXCEPT ![c] = "idle"]
    /\ handle' = [handle EXCEPT ![c] = NoThread]

Goto(t, place) == tpc' = [tpc EXCEPT ![t] = place]

-----------------------------------------------------------------------------
(* The initial state: __init__ *)

Init ==
    /\ running = FALSE /\ thread = NoThread /\ stopEvent = FALSE
    /\ flows = 0 /\ pointer = 0 /\ loopFlag = FALSE /\ session = 0
    /\ counts = ZeroCounts
    /\ queue = <<>>
    /\ tpc = [t \in Threads |-> "none"]
    /\ work = [t \in Threads |-> NoBatch]
    /\ cpc = [c \in Controllers |-> "idle"]
    /\ handle = [c \in Controllers |-> NoThread]
    /\ ipc = [i \in Injectors |-> "idle"]
    /\ starts = 0 /\ accepted = 0
    /\ handed = [s \in Sessions |-> <<>>] /\ injHanded = <<>> /\ runHanded = 0
    /\ callsAfterStop = 0
    /\ abandoned = FALSE /\ detached = FALSE

-----------------------------------------------------------------------------
(* start() and stop() *)

\* Mutant: a start() while running is let through.
MayStart_Always == TRUE

\* start() is a hard error while running.
MayStart == ~running

\* start(): refused while running; otherwise everything is reset under the
\* state lock and a thread object is published.  n is what start_at and limit
\* leave of the day, and may be zero.
Start(c, n, loop) ==
    /\ cpc[c] = "idle"
    /\ MayStart
    /\ starts < MaxStarts /\ session < MaxLoops
    /\ starts' = starts + 1
    /\ flows' = n /\ loopFlag' = loop
    /\ pointer' = 0 /\ session' = session + 1
    /\ counts' = ZeroCounts /\ runHanded' = 0 /\ callsAfterStop' = 0
    /\ queue' = <<>>
    /\ stopEvent' = FALSE /\ running' = TRUE /\ abandoned' = FALSE
    /\ thread' = starts'
    /\ tpc' = [tpc EXCEPT ![starts'] = "created"]
    /\ handle' = [handle EXCEPT ![c] = starts']
    /\ cpc' = [cpc EXCEPT ![c] = "launch"]
    /\ UNCHANGED <<work, ipc, accepted, handed, injHanded, detached>>

\* start(): thread.start(), after the lock was released.
Launch(c) ==
    /\ cpc[c] = "launch"
    /\ Goto(handle[c], "check")
    /\ Return(c)
    /\ UNCHANGED <<engineVars, counts, work, starts, abandoned, injectVars, history,
                   detached>>

\* stop() with no thread to stop.
StopIdle(c) ==
    /\ cpc[c] = "idle"
    /\ thread = NoThread
    /\ running' = FALSE
    /\ UNCHANGED <<thread, stopEvent, flows, pointer, loopFlag, session, counts,
                   threadVars, callerVars, injectVars, history, detached>>

\* stop(): the thread to join is read and the stop event set under the lock.
StopBegin(c) ==
    /\ cpc[c] = "idle"
    /\ thread # NoThread
    /\ stopEvent' = TRUE
    /\ handle' = [handle EXCEPT ![c] = thread]
    /\ cpc' = [cpc EXCEPT ![c] = "join"]
    /\ UNCHANGED <<running, thread, flows, pointer, loopFlag, session, counts,
                   threadVars, starts, abandoned, injectVars, history, detached>>

\* stop(): join() of a thread that start() has not launched yet raises
\* RuntimeError, and the call ends there: the event stays set, _running too.
JoinRaises(c) ==
    /\ cpc[c] = "join"
    /\ tpc[handle[c]] = "created"
    /\ abandoned' = TRUE
    /\ Return(c)
    /\ UNCHANGED <<engineVars, counts, threadVars, starts, injectVars, history,
                   detached>>

\* stop(): join() returns because the thread ended ...
JoinReturns(c) ==
    /\ cpc[c] = "join"
    /\ tpc[handle[c]] = "dead"
    /\ cpc' = [cpc EXCEPT ![c] = "reset"]
    /\ UNCHANGED <<engineVars, counts, threadVars, handle, starts, abandoned,
                   injectVars, history, detached>>

\* ... or because replay_thread_join_timeout_sec passed first.
JoinTimesOut(c) ==
    /\ cpc[c] = "join"
    /\ tpc[handle[c]] \notin {"created", "dead"}
    /\ cpc' = [cpc EXCEPT ![c] = "reset"]
    /\ UNCHANGED <<engineVars, counts, threadVars, handle, starts, abandoned,
                   injectVars, history, detached>>

\* stop(): the last critical section, whatever the join found.
StopEnd(c) ==
    /\ cpc[c] = "reset"
    /\ running' = FALSE /\ thread' = NoThread
    /\ detached' = (detached \/ Live # {})
    /\ Return(c)
    /\ UNCHANGED <<stopEvent, flows, pointer, loopFlag, session, counts, threadVars,
                   starts, abandoned, injectVars, history>>

-----------------------------------------------------------------------------
(* POST /api/inject and inject() *)

\* inject(): n more flows stay within replay_injection_queue_max.
Fits(n) == Len(queue) + n <= QueueMax

\* The route refuses (409) unless status().running, then builds the flows.
InjectAdmit(i) ==
    /\ ipc[i] = "idle"
    /\ running
    /\ ipc' = [ipc EXCEPT ![i] = "admitted"]
    /\ UNCHANGED <<engineVars, counts, threadVars, callerVars, queue, accepted,
                   history, detached>>

\* Mutant: new flows go in front of the ones that wait.
Appended_InFront(n) == Slice(accepted, accepted + n) \o queue

\* The buffer with n more flows behind the ones that wait.
Appended(n) == queue \o Slice(accepted, accepted + n)

\* inject(): n more flows, if the queue holds them; the answer is 200.
InjectEnqueue(i, n) ==
    /\ ipc[i] = "admitted"
    /\ accepted + n <= MaxInjected
    /\ Fits(n)
    /\ queue' = Appended(n)
    /\ accepted' = accepted + n
    /\ ipc' = [ipc EXCEPT ![i] = "idle"]
    /\ UNCHANGED <<engineVars, counts, threadVars, callerVars, history, detached>>

\* inject(): ReplayEngineError at a full queue; the answer is 409.
InjectRefused(i, n) ==
    /\ ipc[i] = "admitted"
    /\ ~Fits(n)
    /\ ipc' = [ipc EXCEPT ![i] = "idle"]
    /\ UNCHANGED <<engineVars, counts, threadVars, callerVars, queue, accepted,
                   history, detached>>

-----------------------------------------------------------------------------
(* The replay thread: _run_loop, _tick_once, _emit_batch *)

\* Mutant: the loop does not look at the stop event.
LoopHead_IgnoresStop == IF flows = 0 THEN "ended" ELSE "drain"

\* The head of the loop: the stop event, then an empty schedule.
LoopHead == IF stopEvent THEN "dead" ELSE IF flows = 0 THEN "ended" ELSE "drain"

Check(t) ==
    /\ tpc[t] = "check"
    /\ Goto(t, LoopHead)
    /\ UNCHANGED <<engineVars, counts, work, callerVars, injectVars, history, detached>>

\* _drain_injection_buffer().
Drain(t) ==
    /\ tpc[t] = "drain"
    /\ IF queue = <<>>
         THEN /\ Goto(t, "due")
              /\ UNCHANGED <<work, queue>>
         ELSE /\ work' = [work EXCEPT ![t] = InjectedBatch(queue)]
              /\ queue' = <<>>
              /\ Goto(t, "emit")
    /\ UNCHANGED <<engineVars, counts, callerVars, ipc, accepted, history, detached>>

\* _tick_once(): the pointer is read under the lock; nothing is due.
NothingDue(t) ==
    /\ tpc[t] = "due"
    /\ Goto(t, "exhaust")
    /\ UNCHANGED <<engineVars, counts, work, callerVars, injectVars, history, detached>>

\* Mutant: the next tick starts one flow past the batch.
CappedBatch_SkipsOne(idx) ==
    [ReplayBatch(pointer, SmallerOf(idx, pointer + MaxBatch)) EXCEPT !.next = @ + 1]

\* The due flows up to idx, cut at the batch cap; the rest waits for the next tick.
CappedBatch(idx) == ReplayBatch(pointer, SmallerOf(idx, pointer + MaxBatch))

\* _tick_once(): flows up to idx are due.
SomeDue(t, idx) ==
    /\ tpc[t] = "due"
    /\ idx > pointer
    /\ work' = [work EXCEPT ![t] = CappedBatch(idx)]
    /\ Goto(t, "emit")
    /\ UNCHANGED <<engineVars, counts, callerVars, injectVars, history, detached>>

\* _emit_batch(): the batch is numbered and its metadata frozen.
EmitBegin(t) ==
    /\ tpc[t] = "emit"
    /\ counts' = [counts EXCEPT !.batches = @ + 1]
    /\ work' = [work EXCEPT ![t].session = session]
    /\ Goto(t, "call")
    /\ UNCHANGED <<engineVars, callerVars, injectVars, history, detached>>

\* What a call of the consumer adds to the histories, failed or not.
HandOver(t) ==
    /\ IF work[t].origin = "replay"
         THEN /\ handed' = [handed EXCEPT ![work[t].session] = @ \o work[t].items]
              /\ UNCHANGED injHanded
         ELSE /\ injHanded' = injHanded \o work[t].items
              /\ UNCHANGED handed
    /\ runHanded' = runHanded + Len(work[t].items)
    /\ callsAfterStop' = IF stopEvent THEN callsAfterStop + 1 ELSE callsAfterStop

ConsumerReturns(t) ==
    /\ tpc[t] = "call"
    /\ HandOver(t)
    /\ Goto(t, "count")
    /\ UNCHANGED <<engineVars, counts, work, callerVars, injectVars, detached>>

\* Mutant: a raising consumer skips the emitted count.
ConsumerRaises_SkipsCount(t) ==
    /\ tpc[t] = "call"
    /\ HandOver(t)
    /\ counts' = [counts EXCEPT !.errors = @ + 1, !.failed = @ + Len(work[t].items)]
    /\ Goto(t, IF work[t].origin = "replay" THEN "advance" ELSE "due")
    /\ UNCHANGED <<engineVars, work, callerVars, injectVars, detached>>

\* The consumer raised: logged and counted, and the replay goes on.
ConsumerRaises(t) ==
    /\ tpc[t] = "call"
    /\ HandOver(t)
    /\ counts' = [counts EXCEPT !.errors = @ + 1, !.failed = @ + Len(work[t].items)]
    /\ Goto(t, "count")
    /\ UNCHANGED <<engineVars, work, callerVars, injectVars, detached>>

\* _emit_batch(): the emitted count, whatever the consumer did.
EmitEnd(t) ==
    /\ tpc[t] = "count"
    /\ counts' = [counts EXCEPT !.emitted = @ + Len(work[t].items)]
    /\ IF work[t].origin = "replay"
         THEN Goto(t, "advance") /\ UNCHANGED work
         ELSE Goto(t, "due") /\ work' = [work EXCEPT ![t] = NoBatch]
    /\ UNCHANGED <<engineVars, callerVars, injectVars, history, detached>>

\* _tick_once(): the pointer moves to where the batch ended.
Advance(t) ==
    /\ tpc[t] = "advance"
    /\ pointer' = work[t].next
    /\ work' = [work EXCEPT ![t] = NoBatch]
    /\ Goto(t, "exhaust")
    /\ UNCHANGED <<running, thread, stopEvent, flows, loopFlag, session, counts,
                   callerVars, injectVars, history, detached>>

\* Mutants: exhausted one flow too early; never exhausted.
LoopTail_OneShort ==
    IF pointer + 1 < flows THEN "check" ELSE IF loopFlag THEN "loop" ELSE "ended"
LoopTail_Never ==
    IF pointer <= flows THEN "check" ELSE IF loopFlag THEN "loop" ELSE "ended"

\* After a tick: the next one, unless the schedule is exhausted.
LoopTail ==
    IF pointer < flows THEN "check" ELSE IF loopFlag THEN "loop" ELSE "ended"

\* _run_loop: the exhaustion test under the lock, then the loop flag.
Exhaust(t) ==
    /\ tpc[t] = "exhaust"
    /\ Goto(t, LoopTail)
    /\ UNCHANGED <<engineVars, counts, work, callerVars, injectVars, history, detached>>

\* _start_new_loop_iteration(): a new session from the top.
NewLoop(t) ==
    /\ tpc[t] = "loop"
    /\ session < MaxLoops
    /\ session' = session + 1 /\ pointer' = 0
    /\ Goto(t, "check")
    /\ UNCHANGED <<running, thread, stopEvent, flows, loopFlag, counts, work,
                   callerVars, injectVars, history, detached>>

\* Mutant: the thread returns without clearing _running.
Finish_StaysRunning(t) ==
    /\ tpc[t] = "ended"
    /\ UNCHANGED running
    /\ Goto(t, "dead")
    /\ UNCHANGED <<thread, stopEvent, flows, pointer, loopFlag, session, counts, work,
                   callerVars, injectVars, history, detached>>

\* _run_loop: the run is over.
Finish(t) ==
    /\ tpc[t] = "ended"
    /\ running' = FALSE
    /\ Goto(t, "dead")
    /\ UNCHANGED <<thread, stopEvent, flows, pointer, loopFlag, session, counts, work,
                   callerVars, injectVars, history, detached>>

-----------------------------------------------------------------------------
(* The specification *)

ThreadStep(t) ==
    \/ Check(t) \/ Drain(t) \/ NothingDue(t)
    \/ \E idx \in 1 .. flows : SomeDue(t, idx)
    \/ EmitBegin(t) \/ ConsumerReturns(t) \/ ConsumerRaises(t) \/ EmitEnd(t)
    \/ Advance(t) \/ Exhaust(t) \/ NewLoop(t) \/ Finish(t)

ControllerStep(c) ==
    \/ \E n \in 0 .. MaxFlows, loop \in BOOLEAN : Start(c, n, loop)
    \/ Launch(c)
    \/ StopIdle(c) \/ StopBegin(c)
    \/ JoinRaises(c) \/ JoinReturns(c) \/ JoinTimesOut(c) \/ StopEnd(c)

InjectorStep(i) ==
    \/ InjectAdmit(i)
    \/ \E n \in 1 .. QueueMax + 1 : InjectEnqueue(i, n) \/ InjectRefused(i, n)

Next ==
    \/ \E t \in Threads : ThreadStep(t)
    \/ \E c \in Controllers : ControllerStep(c)
    \/ \E i \in Injectors : InjectorStep(i)

Spec == Init /\ [][Next]_vars

\* A launched thread keeps running, a consumer call returns, and a caller inside
\* start() or stop() finishes it.  The clock moves on, so a tick that finds
\* nothing due cannot be the outcome for ever: hence strong fairness of SomeDue.
Fairness ==
    /\ \A t \in Threads :
           /\ WF_vars(ThreadStep(t))
           /\ SF_vars(\E idx \in 1 .. flows : SomeDue(t, idx))
    /\ \A c \in Controllers :
           WF_vars(Launch(c) \/ JoinRaises(c) \/ JoinReturns(c) \/ StopEnd(c))

FairSpec == Spec /\ Fairness

-----------------------------------------------------------------------------
(* Properties *)

Batches ==
    [origin : {"injected", "replay"}, items : Seq(Nat),
     session : 0 .. MaxLoops, next : 0 .. MaxFlows]

Counters == [emitted : Nat, batches : Nat, errors : Nat, failed : Nat]

\* The types of the engine's fields, of its threads and of its callers.
TypeOK ==
    /\ running \in BOOLEAN /\ stopEvent \in BOOLEAN /\ loopFlag \in BOOLEAN
    /\ thread \in Threads \cup {NoThread}
    /\ flows \in 0 .. MaxFlows /\ pointer \in 0 .. MaxFlows /\ session \in 0 .. MaxLoops
    /\ counts \in Counters
    /\ queue \in Seq(Nat) /\ Len(queue) <= QueueMax
    /\ tpc \in [Threads -> ThreadStates] /\ work \in [Threads -> Batches]
    /\ cpc \in [Controllers -> {"idle", "launch", "join", "reset"}]
    /\ handle \in [Controllers -> Threads \cup {NoThread}]
    /\ ipc \in [Injectors -> {"idle", "admitted"}]
    /\ starts \in 0 .. MaxStarts /\ accepted \in Nat
    /\ handed \in [Sessions -> Seq(Nat)] /\ injHanded \in Seq(Nat)
    /\ runHanded \in Nat /\ callsAfterStop \in Nat
    /\ abandoned \in BOOLEAN /\ detached \in BOOLEAN

\* Until some stop() returns over a living thread, at most one replay thread
\* lives: the one _thread names, of an engine that says it is running.  start()
\* trusts _running alone, so two threads on one schedule is what this rules out.
SingleReplayThread ==
    ~detached => \A t \in Live : t = thread /\ running

\* Under the same condition each session's scheduled flows reach the consumer
\* once each, in order and without a gap, whatever the batch cap, the failures
\* of the consumer and the injections did in between.
GaplessStream ==
    ~detached => \A s \in Sessions : handed[s] = Slice(0, Len(handed[s]))

\* The counters of status() agree with what the consumer was handed in this run:
\* emitted_count trails by exactly the batch whose call has returned and is not
\* counted yet, and the failures are a part of what was handed.
CountersAgree ==
    ~detached =>
        /\ \/ counts.emitted = runHanded
           \/ \E t \in Live : /\ tpc[t] = "count"
                               /\ counts.emitted + Len(work[t].items) = runHanded
        /\ counts.failed <= runHanded
        /\ counts.errors <= counts.batches

\* Accepted injected flows are handed over at most once and in the order of
\* their acceptance, and a flow still queued was not handed over before.
InjectedOnceInOrder ==
    ~detached =>
        LET seen == injHanded \o queue
        IN  \A i, j \in 1 .. Len(seen) : i < j => seen[i] < seen[j]

\* Some stop() has set the event and has yet to clear _running.
StopPending == \E c \in Controllers : cpc[c] \in {"join", "reset"}

\* status().running means a thread is there to replay, unless the run was told to
\* stop by a stop() that is still under way, or that join() raised out of: it
\* never returned, and leaves the event set over a thread about to end.
RunningHasThread ==
    running /\ ~detached => Live # {} \/ (stopEvent /\ (StopPending \/ abandoned))

\* An engine that ends by itself has handed over the whole schedule: the only
\* other way from running to not running is a stop(), which clears _thread.
NaturalEndIsComplete ==
    [][running /\ ~running' /\ thread' = thread /\ ~detached
         => Len(handed[session]) = flows]_vars

\* stop() is prompt: once the event is set the thread finishes the tick it is in,
\* at most one injected and one scheduled batch, and hands over nothing more.
StopIsPrompt ==
    ~detached => callsAfterStop <= 2

\* A run that does not loop and is not stopped comes to its end.
ReplayCompletes ==
    (running /\ ~stopEvent /\ ~loopFlag) ~> (~running \/ stopEvent \/ detached)

-----------------------------------------------------------------------------
(* What the documentation says and the code does not keep *)

\* "flows are never dropped": no scheduled flow reaches the consumer before the
\* one in front of it, in any session.
FlowsNeverDropped ==
    \A s \in Sessions : \A i \in 1 .. Len(handed[s]) :
        handed[s][i] > 1 => \E j \in 1 .. i - 1 : handed[s][j] = handed[s][i] - 1

\* "Idempotent", "must not raise": when no stop() is under way, an engine that
\* says it is running has a thread that replays.
RunningMeansReplaying ==
    running /\ ~StopPending => Live # {}

\* An injection answered with 200 is never silently wiped out: it is queued, in
\* the hands of a thread, or was handed to the consumer.
AcceptedInjectionKept ==
    \A n \in 1 .. accepted :
        \/ \E i \in 1 .. Len(queue) : queue[i] = n
        \/ \E i \in 1 .. Len(injHanded) : injHanded[i] = n
        \/ \E t \in Live : /\ work[t].origin = "injected"
                            /\ \E i \in 1 .. Len(work[t].items) : work[t].items[i] = n

=============================================================================
