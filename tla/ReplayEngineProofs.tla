------------------------- MODULE ReplayEngineProofs -------------------------
(***************************************************************************)
(* Machine-checked proofs about ReplayEngine, for every number of callers,  *)
(* starts, sessions, flows and every batch cap.                             *)
(***************************************************************************)
EXTENDS ReplayEngine, TLAPS, SequenceTheorems

-----------------------------------------------------------------------------
(* The parts of the inductive invariant that several sections use *)

\* A thread object is fresh when start() creates it and waits, "created", for
\* the one caller that is about to launch it.
LaunchInv ==
    /\ \A t \in Threads : t > starts => tpc[t] = "none"
    /\ \A c \in Controllers :
           cpc[c] = "launch" => handle[c] \in Threads /\ tpc[handle[c]] = "created"
    /\ \A c, d \in Controllers :
           cpc[c] = "launch" /\ cpc[d] = "launch" /\ handle[c] = handle[d] => c = d

\* The replay batch of thread t was handed over and the pointer has not moved yet.
AheadOfPointer(t) ==
    tpc[t] = "advance" \/ (tpc[t] = "count" /\ work[t].origin = "replay")

\* How far the current session's schedule has been handed over.
Position ==
    IF thread \in Threads /\ AheadOfPointer(thread) THEN work[thread].next ELSE pointer

\* Every session is a prefix of its schedule, the current one up to Position.
SessionsInv ==
    \A s \in Sessions :
        /\ s < session => handed[s] = Slice(0, Len(handed[s]))
        /\ s = session => handed[s] = Slice(0, Position)
        /\ s > session => handed[s] = <<>>

\* A scheduled batch on its way is the piece that starts at the pointer, and a
\* thread that is done with the schedule has moved the pointer to its end.
BatchInv(t) ==
    /\ session \in Sessions
    /\ tpc[t] = "call" => work[t].session = session
    /\ tpc[t] \in {"emit", "call"} /\ work[t].origin = "replay"
          => /\ pointer < work[t].next /\ work[t].next <= flows
             /\ work[t].items = Slice(pointer, work[t].next)
    /\ tpc[t] \in {"loop", "ended"} => pointer = flows

StreamInv ==
    ~detached => /\ pointer <= flows /\ Position <= flows
                 /\ SessionsInv
                 /\ \A t \in Live : BatchInv(t)

\* An engine that runs has published its thread.
RunInv == running => thread \in Threads

\* The consumer calls thread t may still make before it looks at the stop event.
CallsLeft(t) ==
    CASE tpc[t] = "drain" -> 2
      [] tpc[t] \in {"emit", "call"} -> IF work[t].origin = "injected" THEN 2 ELSE 1
      [] tpc[t] = "due" -> 1
      [] tpc[t] = "count" -> IF work[t].origin = "injected" THEN 1 ELSE 0
      [] OTHER -> 0

PromptInv ==
    ~detached =>
        /\ callsAfterStop <= 2
        /\ ~stopEvent => callsAfterStop = 0
        /\ \A t \in Live : callsAfterStop + CallsLeft(t) <= 2

-----------------------------------------------------------------------------
(* Slices of the schedule *)

\* A slice _flows[from:to] is a sequence of to - from positions.
LEMMA SliceType ==
    ASSUME NEW a \in Nat, NEW b \in Nat, a <= b
    PROVE  /\ Slice(a, b) \in Seq(Nat)
           /\ Len(Slice(a, b)) = b - a
           /\ \A i \in 1 .. (b - a) : Slice(a, b)[i] = a + i
<1> DEFINE n == b - a
<1>1. n \in Nat
  BY SMT
<1>2. \A i \in 1 .. n : a + i \in Nat
  BY SMT
<1>3. Slice(a, b) \in [1 .. n -> Nat]
  BY <1>2 DEF Slice
<1>4. Slice(a, b) \in Seq(Nat)
  BY <1>1, <1>3
<1>5. Len(Slice(a, b)) = n
  BY <1>1, <1>3, <1>4
<1> QED
  BY <1>4, <1>5 DEF Slice

\* Nothing lies between a position and itself.
LEMMA SliceEmpty ==
    ASSUME NEW a \in Nat
    PROVE  Slice(a, a) = <<>>
<1>1. Slice(a, a) \in Seq(Nat) /\ Len(Slice(a, a)) = 0
  BY SliceType, SMT
<1> QED
  BY <1>1

\* A prefix of the schedule continued by the batch that follows it is a prefix.
LEMMA SliceConcat ==
    ASSUME NEW p \in Nat, NEW n \in Nat, p <= n
    PROVE  Slice(0, p) \o Slice(p, n) = Slice(0, n)
<1>1. /\ Slice(0, p) \in Seq(Nat) /\ Len(Slice(0, p)) = p
      /\ \A i \in 1 .. p : Slice(0, p)[i] = i
  <2>1. 0 \in Nat /\ 0 <= p /\ p - 0 = p
    OBVIOUS
  <2>2. \A i \in 1 .. p : Slice(0, p)[i] = 0 + i
    BY <2>1, SliceType
  <2> QED
    BY <2>1, <2>2, SliceType
<1>2. /\ Slice(p, n) \in Seq(Nat) /\ Len(Slice(p, n)) = n - p
      /\ \A i \in 1 .. (n - p) : Slice(p, n)[i] = p + i
  BY SliceType
<1>3. /\ Slice(0, n) \in Seq(Nat) /\ Len(Slice(0, n)) = n
      /\ \A i \in 1 .. n : Slice(0, n)[i] = i
  <2>1. 0 \in Nat /\ 0 <= n /\ n - 0 = n
    OBVIOUS
  <2>2. \A i \in 1 .. n : Slice(0, n)[i] = 0 + i
    BY <2>1, SliceType
  <2> QED
    BY <2>1, <2>2, SliceType
<1> DEFINE both == Slice(0, p) \o Slice(p, n)
<1>4. /\ both \in Seq(Nat) /\ Len(both) = n
      /\ \A i \in 1 .. n :
             both[i] = IF i <= p THEN Slice(0, p)[i] ELSE Slice(p, n)[i - p]
  BY <1>1, <1>2, ConcatProperties
<1>5. ASSUME NEW i \in 1 .. n  PROVE both[i] = Slice(0, n)[i]
  <2>1. CASE i <= p
    BY <1>1, <1>3, <1>4, <2>1
  <2>2. CASE ~(i <= p)
    <3>1. i - p \in 1 .. (n - p)
      BY <2>2
    <3> QED
      BY <1>2, <1>3, <1>4, <2>2, <3>1
  <2> QED
    BY <2>1, <2>2
<1> HIDE DEF both
<1>6. both = Slice(0, n)
  BY <1>3, <1>4, <1>5, SeqEqual
<1> QED
  BY <1>6 DEF both

-----------------------------------------------------------------------------
(* Type correctness *)

\* What the loop's two decisions can be, and what a mapped batch is made of.
LEMMA Decisions == LoopHead \in ThreadStates /\ LoopTail \in ThreadStates
BY DEF LoopHead, LoopTail, ThreadStates

\* The batch a tick cuts is a piece of the schedule within its bounds.
LEMMA CappedBatchType ==
    ASSUME TypeOK, NEW idx \in 1 .. flows, idx > pointer
    PROVE  /\ CappedBatch(idx) \in Batches
           /\ CappedBatch(idx).origin = "replay"
           /\ pointer < CappedBatch(idx).next
           /\ CappedBatch(idx).next <= idx
           /\ CappedBatch(idx).items = Slice(pointer, CappedBatch(idx).next)
<1> DEFINE to == SmallerOf(idx, pointer + MaxBatch)
<1>1. /\ pointer \in Nat /\ idx \in Nat /\ idx <= MaxFlows
      /\ MaxLoops \in Nat /\ MaxFlows \in Nat
  BY BoundsAssumption DEF TypeOK
<1>2. /\ to \in Nat /\ pointer < to /\ to <= idx /\ to <= MaxFlows
  <2>1. MaxBatch \in Nat /\ MaxBatch > 0
    BY MaxBatchAssumption
  <2>2. CASE idx < pointer + MaxBatch
    BY <1>1, <2>1, <2>2 DEF SmallerOf
  <2>3. CASE ~(idx < pointer + MaxBatch)
    BY <1>1, <2>1, <2>3 DEF SmallerOf
  <2> QED
    BY <2>2, <2>3
<1> HIDE DEF to
<1>3. Slice(pointer, to) \in Seq(Nat)
  BY <1>1, <1>2, SliceType
<1>4. CappedBatch(idx) = [origin |-> "replay", items |-> Slice(pointer, to),
                          session |-> 0, next |-> to]
  BY DEF CappedBatch, ReplayBatch, to
<1>5. CappedBatch(idx) \in Batches
  BY <1>1, <1>2, <1>3, <1>4 DEF Batches
<1>6. /\ CappedBatch(idx).origin = "replay" /\ CappedBatch(idx).next = to
      /\ CappedBatch(idx).items = Slice(pointer, to)
  BY <1>4
<1> QED
  BY <1>1, <1>2, <1>5, <1>6

\* NoBatch and every injected batch are batches.
LEMMA InjectedBatchType ==
    ASSUME NEW items \in Seq(Nat)
    PROVE  InjectedBatch(items) \in Batches /\ NoBatch \in Batches
<1>1. 0 \in 0 .. MaxLoops /\ 0 \in 0 .. MaxFlows /\ <<>> \in Seq(Nat)
  BY BoundsAssumption
<1> QED
  BY <1>1 DEF InjectedBatch, NoBatch, Batches

\* The fields of a thread's batch.
LEMMA BatchFields ==
    ASSUME TypeOK, NEW t \in Threads
    PROVE  /\ work[t].origin \in {"injected", "replay"}
           /\ work[t].items \in Seq(Nat) /\ Len(work[t].items) \in Nat
           /\ work[t].session \in 0 .. MaxLoops /\ work[t].next \in 0 .. MaxFlows
<1>1. work[t] \in Batches
  BY DEF TypeOK
<1>2. /\ work[t].origin \in {"injected", "replay"} /\ work[t].items \in Seq(Nat)
      /\ work[t].session \in 0 .. MaxLoops /\ work[t].next \in 0 .. MaxFlows
  BY <1>1 DEF Batches
<1> QED
  BY <1>2, LenProperties

\* Counting up leaves the counters natural numbers, and each counting statement
\* moves its own counters alone.
LEMMA CountersAdd ==
    ASSUME TypeOK, NEW n \in Nat
    PROVE  /\ [counts EXCEPT !.batches = @ + 1] \in Counters
           /\ [counts EXCEPT !.errors = @ + 1, !.failed = @ + n] \in Counters
           /\ [counts EXCEPT !.emitted = @ + n] \in Counters
           /\ counts.emitted \in Nat /\ counts.batches \in Nat
           /\ counts.errors \in Nat /\ counts.failed \in Nat
           /\ LET more == [counts EXCEPT !.batches = @ + 1]
              IN  /\ more.emitted = counts.emitted /\ more.batches = counts.batches + 1
                  /\ more.errors = counts.errors /\ more.failed = counts.failed
           /\ LET more == [counts EXCEPT !.errors = @ + 1, !.failed = @ + n]
              IN  /\ more.emitted = counts.emitted /\ more.batches = counts.batches
                  /\ more.errors = counts.errors + 1 /\ more.failed = counts.failed + n
           /\ LET more == [counts EXCEPT !.emitted = @ + n]
              IN  /\ more.emitted = counts.emitted + n /\ more.batches = counts.batches
                  /\ more.errors = counts.errors /\ more.failed = counts.failed
<1> DEFINE e == counts.emitted  b == counts.batches  r == counts.errors  f == counts.failed
<1>1. counts = [emitted |-> e, batches |-> b, errors |-> r, failed |-> f]
  BY DEF TypeOK, Counters
<1>2. e \in Nat /\ b \in Nat /\ r \in Nat /\ f \in Nat
  BY DEF TypeOK, Counters
<1>3. e + n \in Nat /\ b + 1 \in Nat /\ r + 1 \in Nat /\ f + n \in Nat
  BY <1>2
<1>4. [counts EXCEPT !.batches = @ + 1]
        = [emitted |-> e, batches |-> b + 1, errors |-> r, failed |-> f]
  BY <1>1
<1>5. [counts EXCEPT !.errors = @ + 1, !.failed = @ + n]
        = [emitted |-> e, batches |-> b, errors |-> r + 1, failed |-> f + n]
  <2> DEFINE half == [counts EXCEPT !.errors = @ + 1]
  <2>1. [counts EXCEPT !.errors = @ + 1, !.failed = @ + n] = [half EXCEPT !.failed = @ + n]
    OBVIOUS
  <2>2. half = [emitted |-> e, batches |-> b, errors |-> r + 1, failed |-> f]
    BY <1>1
  <2> HIDE DEF half
  <2>3. [half EXCEPT !.failed = @ + n]
          = [emitted |-> e, batches |-> b, errors |-> r + 1, failed |-> f + n]
    BY <2>2
  <2> QED
    BY <2>1, <2>3
<1>6. [counts EXCEPT !.emitted = @ + n]
        = [emitted |-> e + n, batches |-> b, errors |-> r, failed |-> f]
  BY <1>1
<1>7. /\ [counts EXCEPT !.batches = @ + 1] \in Counters
      /\ [counts EXCEPT !.errors = @ + 1, !.failed = @ + n] \in Counters
      /\ [counts EXCEPT !.emitted = @ + n] \in Counters
  BY <1>2, <1>3, <1>4, <1>5, <1>6 DEF Counters
<1> QED
  BY <1>2, <1>4, <1>5, <1>6, <1>7

\* The initial state is well typed.
LEMMA TypeInit == Init => TypeOK
<1> SUFFICES ASSUME Init PROVE TypeOK
  OBVIOUS
<1>1. NoBatch \in Batches /\ <<>> \in Seq(Nat) /\ Len(<<>>) = 0
  <2>1. <<>> \in Seq(Nat)
    OBVIOUS
  <2> QED
    BY <2>1, InjectedBatchType
<1> USE BoundsAssumption DEF Init
<1>2. /\ running \in BOOLEAN /\ stopEvent \in BOOLEAN /\ loopFlag \in BOOLEAN
      /\ abandoned \in BOOLEAN /\ detached \in BOOLEAN
  OBVIOUS
<1>3. /\ thread \in Threads \cup {NoThread}
      /\ flows \in 0 .. MaxFlows /\ pointer \in 0 .. MaxFlows /\ session \in 0 .. MaxLoops
      /\ starts \in 0 .. MaxStarts /\ accepted \in Nat /\ runHanded \in Nat
      /\ callsAfterStop \in Nat
  BY DEF Threads, NoThread
<1>4. counts \in Counters
  BY DEF ZeroCounts, Counters
<1>5. /\ queue \in Seq(Nat) /\ Len(queue) <= QueueMax /\ injHanded \in Seq(Nat)
      /\ handed \in [Sessions -> Seq(Nat)]
  BY <1>1
<1>6. tpc \in [Threads -> ThreadStates] /\ work \in [Threads -> Batches]
  BY <1>1 DEF ThreadStates
<1>7. /\ cpc \in [Controllers -> {"idle", "launch", "join", "reset"}]
      /\ handle \in [Controllers -> Threads \cup {NoThread}]
      /\ ipc \in [Injectors -> {"idle", "admitted"}]
  BY DEF NoThread
<1> QED
  BY <1>1, <1>2, <1>3, <1>4, <1>5, <1>6, <1>7 DEF TypeOK

\* A step of a replay thread keeps every variable in its type.
LEMMA TypeThreadStep ==
    ASSUME TypeOK, NEW t \in Threads, ThreadStep(t)
    PROVE  TypeOK'
<1> USE DEF engineVars, threadVars, callerVars, injectVars, history, Goto
<1>1. CASE Check(t)
  BY <1>1, Decisions DEF Check, TypeOK
<1>2. CASE Drain(t)
  <2>1. CASE queue = <<>>
    BY <1>2, <2>1 DEF Drain, TypeOK, ThreadStates
  <2>2. CASE queue # <<>>
    <3>1. InjectedBatch(queue) \in Batches /\ <<>> \in Seq(Nat) /\ Len(<<>>) = 0
      BY InjectedBatchType DEF TypeOK
    <3>2. queue' \in Seq(Nat) /\ Len(queue') <= QueueMax
      BY <1>2, <2>2, <3>1, BoundsAssumption DEF Drain
    <3> QED
      BY <1>2, <2>2, <3>1, <3>2 DEF Drain, TypeOK, ThreadStates
  <2> QED
    BY <2>1, <2>2
<1>3. CASE NothingDue(t)
  BY <1>3 DEF NothingDue, TypeOK, ThreadStates
<1>4. ASSUME NEW idx \in 1 .. flows, SomeDue(t, idx)
      PROVE  TypeOK'
  <2>1. CappedBatch(idx) \in Batches
    BY <1>4, CappedBatchType DEF SomeDue
  <2> QED
    BY <1>4, <2>1 DEF SomeDue, TypeOK, ThreadStates
<1>5. CASE EmitBegin(t)
  <2>1. counts' \in Counters
    BY <1>5, CountersAdd DEF EmitBegin
  <2>2. [work[t] EXCEPT !.session = session] \in Batches
    <3>1. work[t] \in Batches /\ session \in 0 .. MaxLoops
      BY DEF TypeOK
    <3> QED
      BY <3>1 DEF Batches
  <2>3. work' \in [Threads -> Batches]
    BY <1>5, <2>2 DEF EmitBegin, TypeOK
  <2> QED
    BY <1>5, <2>1, <2>3 DEF EmitBegin, TypeOK, ThreadStates
<1>6. ASSUME HandOver(t)
      PROVE  /\ handed' \in [Sessions -> Seq(Nat)] /\ injHanded' \in Seq(Nat)
             /\ runHanded' \in Nat /\ callsAfterStop' \in Nat
  <2>1. work[t].items \in Seq(Nat) /\ Len(work[t].items) \in Nat
    BY BatchFields
  <2>2. \A q \in Seq(Nat) : q \o work[t].items \in Seq(Nat)
    BY <2>1
  <2>3. runHanded' \in Nat /\ callsAfterStop' \in Nat
    BY <1>6, <2>1 DEF HandOver, TypeOK
  <2>4. injHanded' \in Seq(Nat) /\ handed' \in [Sessions -> Seq(Nat)]
    <3>1. injHanded \in Seq(Nat) /\ handed \in [Sessions -> Seq(Nat)]
      BY DEF TypeOK
    <3>2. CASE work[t].origin = "replay"
      BY <1>6, <2>2, <3>1, <3>2 DEF HandOver
    <3>3. CASE work[t].origin # "replay"
      BY <1>6, <2>2, <3>1, <3>3 DEF HandOver
    <3> QED
      BY <3>2, <3>3
  <2> QED
    BY <2>3, <2>4
<1>7. CASE ConsumerReturns(t)
  BY <1>6, <1>7 DEF ConsumerReturns, TypeOK, ThreadStates
<1>8. CASE ConsumerRaises(t)
  <2>1. Len(work[t].items) \in Nat
    BY BatchFields
  <2>2. counts' \in Counters
    BY <1>8, <2>1, CountersAdd DEF ConsumerRaises
  <2> QED
    BY <1>6, <1>8, <2>2 DEF ConsumerRaises, TypeOK, ThreadStates
<1>9. CASE EmitEnd(t)
  <2>1. Len(work[t].items) \in Nat
    BY BatchFields
  <2>2. counts' \in Counters
    BY <1>9, <2>1, CountersAdd DEF EmitEnd
  <2>3. NoBatch \in Batches
    BY InjectedBatchType, EmptySeq
  <2> QED
    BY <1>9, <2>2, <2>3 DEF EmitEnd, TypeOK, ThreadStates
<1>10. CASE Advance(t)
  <2>1. NoBatch \in Batches
    BY InjectedBatchType, EmptySeq
  <2>2. work[t].next \in 0 .. MaxFlows
    BY BatchFields
  <2> QED
    BY <1>10, <2>1, <2>2 DEF Advance, TypeOK, ThreadStates
<1>11. CASE Exhaust(t)
  BY <1>11, Decisions DEF Exhaust, TypeOK
<1>12. CASE NewLoop(t)
  BY <1>12, BoundsAssumption DEF NewLoop, TypeOK, ThreadStates
<1>13. CASE Finish(t)
  BY <1>13 DEF Finish, TypeOK, ThreadStates
<1> QED
  BY <1>1, <1>2, <1>3, <1>4, <1>5, <1>7, <1>8, <1>9, <1>10, <1>11, <1>12, <1>13
  DEF ThreadStep

\* A step of start() or stop() keeps every variable in its type.
LEMMA TypeControllerStep ==
    ASSUME TypeOK, NEW c \in Controllers, ControllerStep(c)
    PROVE  TypeOK'
<1> USE DEF engineVars, threadVars, callerVars, injectVars, history, Goto, Return
<1>1. ASSUME NEW n \in 0 .. MaxFlows, NEW loop \in BOOLEAN, Start(c, n, loop)
      PROVE  TypeOK'
  <2>1. starts' \in 1 .. MaxStarts /\ starts' \in 0 .. MaxStarts /\ session' \in 0 .. MaxLoops
    BY <1>1, BoundsAssumption DEF Start, TypeOK
  <2>2. counts' \in Counters
    BY <1>1 DEF Start, ZeroCounts, Counters
  <2>3. queue' \in Seq(Nat) /\ Len(queue') <= QueueMax
    BY <1>1, BoundsAssumption, EmptySeq DEF Start
  <2>4. 0 \in 0 .. MaxFlows /\ n \in 0 .. MaxFlows
    BY BoundsAssumption
  <2> QED
    BY <1>1, <2>1, <2>2, <2>3, <2>4 DEF Start, TypeOK, ThreadStates, Threads
<1>2. CASE Launch(c)
  BY <1>2 DEF Launch, TypeOK, ThreadStates
<1>3. CASE StopIdle(c)
  BY <1>3 DEF StopIdle, TypeOK
<1>4. CASE StopBegin(c)
  BY <1>4 DEF StopBegin, TypeOK
<1>5. CASE JoinRaises(c)
  BY <1>5 DEF JoinRaises, TypeOK
<1>6. CASE JoinReturns(c)
  BY <1>6 DEF JoinReturns, TypeOK
<1>7. CASE JoinTimesOut(c)
  BY <1>7 DEF JoinTimesOut, TypeOK
<1>8. CASE StopEnd(c)
  BY <1>8 DEF StopEnd, TypeOK
<1> QED
  BY <1>1, <1>2, <1>3, <1>4, <1>5, <1>6, <1>7, <1>8 DEF ControllerStep

\* A step of an injecting request keeps every variable in its type.
LEMMA TypeInjectorStep ==
    ASSUME TypeOK, NEW i \in Injectors, InjectorStep(i)
    PROVE  TypeOK'
<1> USE DEF engineVars, threadVars, callerVars, injectVars, history
<1>1. CASE InjectAdmit(i)
  BY <1>1 DEF InjectAdmit, TypeOK
<1>2. ASSUME NEW n \in 1 .. QueueMax + 1, InjectEnqueue(i, n)
      PROVE  TypeOK'
  <2>1. /\ accepted \in Nat /\ n \in Nat /\ accepted + n \in Nat /\ QueueMax \in Nat
        /\ accepted <= accepted + n /\ (accepted + n) - accepted = n
    BY BoundsAssumption DEF TypeOK
  <2>2. Slice(accepted, accepted + n) \in Seq(Nat) /\ Len(Slice(accepted, accepted + n)) = n
    BY <2>1, SliceType
  <2>3. queue \in Seq(Nat)
    BY DEF TypeOK
  <2>4. queue' \in Seq(Nat) /\ Len(queue') = Len(queue) + n
    BY <1>2, <2>2, <2>3, ConcatProperties DEF InjectEnqueue, Appended
  <2>5. Len(queue') <= QueueMax
    BY <1>2, <2>4 DEF InjectEnqueue, Fits
  <2> QED
    BY <1>2, <2>1, <2>4, <2>5 DEF InjectEnqueue, TypeOK
<1>3. ASSUME NEW n \in 1 .. QueueMax + 1, InjectRefused(i, n)
      PROVE  TypeOK'
  BY <1>3 DEF InjectRefused, TypeOK
<1> QED
  BY <1>1, <1>2, <1>3 DEF InjectorStep

\* Every step keeps every variable in its type.
LEMMA TypeStep == TypeOK /\ [Next]_vars => TypeOK'
<1> SUFFICES ASSUME TypeOK, [Next]_vars PROVE TypeOK'
  OBVIOUS
<1>1. CASE UNCHANGED vars
  BY <1>1 DEF vars, engineVars, threadVars, callerVars, injectVars, history, TypeOK
<1> QED
  BY <1>1, TypeThreadStep, TypeControllerStep, TypeInjectorStep DEF Next

\* Type correctness: the pointer stays within the longest schedule and the
\* injection queue within its capacity, among the rest.
THEOREM TypeCorrect == Spec => []TypeOK
<1> QED
  BY TypeInit, TypeStep, PTL DEF Spec

-----------------------------------------------------------------------------
(* One replay thread *)

\* What any step of a replay thread t leaves alone: only t moves, and it may
\* clear _running only as it ends.
LEMMA ThreadStepFrame ==
    ASSUME TypeOK, NEW t \in Threads, ThreadStep(t)
    PROVE  /\ t \in Live /\ tpc[t] \notin {"none", "created"}
           /\ \E place \in ThreadStates \ {"none", "created"} : Goto(t, place)
           /\ running' = running \/ (running' = FALSE /\ tpc'[t] = "dead")
           /\ \A u \in Threads : u # t => tpc'[u] = tpc[u] /\ work'[u] = work[u]
           /\ UNCHANGED <<cpc, handle, starts, thread, stopEvent, flows, loopFlag, detached>>
<1> USE DEF engineVars, threadVars, callerVars, injectVars, history
<1>1. /\ tpc[t] \notin {"none", "created", "dead"}
      /\ \E place \in ThreadStates \ {"none", "created"} : Goto(t, place)
      /\ UNCHANGED <<cpc, handle, starts, thread, stopEvent, flows, loopFlag, detached>>
  BY DEF ThreadStep, Check, Drain, NothingDue, SomeDue, EmitBegin, ConsumerReturns,
      ConsumerRaises, EmitEnd, Advance, Exhaust, NewLoop, Finish, LoopHead, LoopTail,
      ThreadStates, Goto
<1>2. running' = running \/ (running' = FALSE /\ tpc'[t] = "dead")
  BY DEF ThreadStep, Check, Drain, NothingDue, SomeDue, EmitBegin, ConsumerReturns,
      ConsumerRaises, EmitEnd, Advance, Exhaust, NewLoop, Finish, Goto, TypeOK
<1>3. \A u \in Threads : u # t => tpc'[u] = tpc[u]
  BY <1>1 DEF Goto, TypeOK
<1>4. work' = work \/ \E b : work' = [work EXCEPT ![t] = b]
  BY DEF ThreadStep, Check, Drain, NothingDue, SomeDue, EmitBegin, ConsumerReturns,
      ConsumerRaises, EmitEnd, Advance, Exhaust, NewLoop, Finish
<1>5. \A u \in Threads : u # t => work'[u] = work[u]
  BY <1>4 DEF TypeOK
<1> QED
  BY <1>1, <1>2, <1>3, <1>5 DEF Live

\* Nobody is launching a thread at first.
LEMMA LaunchInit == Init => LaunchInv
BY DEF Init, LaunchInv, Threads

\* A fresh thread is never one that another caller is about to launch.
LEMMA LaunchStep == TypeOK /\ LaunchInv /\ [Next]_vars => LaunchInv'
<1> SUFFICES ASSUME TypeOK, LaunchInv, [Next]_vars PROVE LaunchInv'
  OBVIOUS
<1> USE DEF engineVars, threadVars, callerVars, injectVars, history
<1>1. ASSUME NEW t \in Threads, ThreadStep(t)  PROVE LaunchInv'
  <2>1. /\ tpc[t] \notin {"none", "created"}
        /\ \E place \in ThreadStates \ {"none", "created"} : Goto(t, place)
        /\ UNCHANGED <<cpc, handle, starts>>
    BY <1>1, ThreadStepFrame
  <2>2. \A u \in Threads : u # t => tpc'[u] = tpc[u]
    BY <2>1 DEF Goto, TypeOK
  <2> QED
    BY <2>1, <2>2 DEF LaunchInv
<1>2. ASSUME NEW c \in Controllers, ControllerStep(c)  PROVE LaunchInv'
  <2>1. ASSUME NEW n \in 0 .. MaxFlows, NEW loop \in BOOLEAN, Start(c, n, loop)
        PROVE  LaunchInv'
    <3>1. starts' = starts + 1 /\ starts' \in Threads /\ starts \in Nat
      BY <2>1, BoundsAssumption DEF Start, TypeOK, Threads
    <3>2. tpc[starts'] = "none"
      BY <3>1 DEF LaunchInv, Threads
    <3>3. /\ tpc' = [tpc EXCEPT ![starts'] = "created"]
          /\ handle' = [handle EXCEPT ![c] = starts']
          /\ cpc' = [cpc EXCEPT ![c] = "launch"]
      BY <2>1 DEF Start
    <3>4. \A d \in Controllers : cpc[d] = "launch" => handle[d] # starts'
      BY <3>2 DEF LaunchInv
    <3>5. \A t \in Threads : t > starts' => tpc'[t] = "none"
      BY <3>1, <3>3 DEF LaunchInv, TypeOK, Threads
    <3>6. \A d \in Controllers : cpc'[d] = "launch" =>
              handle'[d] \in Threads /\ tpc'[handle'[d]] = "created"
      BY <3>1, <3>3, <3>4 DEF LaunchInv, TypeOK
    <3>7. \A d, e \in Controllers :
              cpc'[d] = "launch" /\ cpc'[e] = "launch" /\ handle'[d] = handle'[e] => d = e
      BY <3>1, <3>3, <3>4 DEF LaunchInv, TypeOK
    <3> QED
      BY <3>5, <3>6, <3>7 DEF LaunchInv
  <2>2. CASE Launch(c)
    BY <2>2 DEF Launch, Return, Goto, LaunchInv, TypeOK
  <2>3. CASE StopIdle(c) \/ StopBegin(c) \/ JoinRaises(c) \/ JoinReturns(c) \/ JoinTimesOut(c)
             \/ StopEnd(c)
    <3>1. /\ UNCHANGED <<tpc, starts>>
          /\ \A d \in Controllers :
                cpc'[d] = "launch" => cpc[d] = "launch" /\ handle'[d] = handle[d]
      BY <2>3 DEF StopIdle, StopBegin, JoinRaises, JoinReturns, JoinTimesOut, StopEnd,
          Return, TypeOK
    <3> QED
      BY <3>1 DEF LaunchInv
  <2> QED
    BY <1>2, <2>1, <2>2, <2>3 DEF ControllerStep
<1>3. ASSUME NEW i \in Injectors, InjectorStep(i)  PROVE LaunchInv'
  BY <1>3 DEF InjectorStep, InjectAdmit, InjectEnqueue, InjectRefused, LaunchInv
<1>4. CASE UNCHANGED vars
  BY <1>4 DEF vars, LaunchInv
<1> QED
  BY <1>1, <1>2, <1>3, <1>4 DEF Next

\* No thread lives at first.  The argument for the steps: start() needs _running to be false, so no thread lives when it
\* creates one; the end of stop() clears _running, and if a thread lives then,
\* it is on record as detached.
LEMMA SingleInit == Init => SingleReplayThread
BY DEF Init, SingleReplayThread, Live

\* And every step keeps it so.
LEMMA SingleStep ==
    TypeOK /\ LaunchInv /\ SingleReplayThread /\ [Next]_vars => SingleReplayThread'
<1> SUFFICES ASSUME TypeOK, LaunchInv, SingleReplayThread, [Next]_vars, ~detached'
             PROVE  \A u \in Live' : u = thread' /\ running'
  BY DEF SingleReplayThread
<1> USE DEF engineVars, threadVars, callerVars, injectVars, history
<1>1. ASSUME NEW t \in Threads, ThreadStep(t)
      PROVE  \A u \in Live' : u = thread' /\ running'
  <2>1. /\ t \in Live /\ thread' = thread /\ ~detached
        /\ running' = running \/ (running' = FALSE /\ tpc'[t] = "dead")
        /\ \A u \in Threads : u # t => tpc'[u] = tpc[u]
    BY <1>1, ThreadStepFrame
  <2>2. t = thread /\ running
    BY <2>1 DEF SingleReplayThread
  <2> QED
    BY <2>1, <2>2 DEF SingleReplayThread, Live
<1>2. ASSUME NEW c \in Controllers, ControllerStep(c)
      PROVE  \A u \in Live' : u = thread' /\ running'
  <2>1. ASSUME NEW n \in 0 .. MaxFlows, NEW loop \in BOOLEAN, Start(c, n, loop)
        PROVE  \A u \in Live' : u = thread' /\ running'
    <3>1. Live = {}
      BY <2>1 DEF Start, MayStart, SingleReplayThread
    <3>2. /\ tpc' = [tpc EXCEPT ![starts'] = "created"]
          /\ thread' = starts' /\ running' = TRUE
      BY <2>1 DEF Start
    <3> QED
      BY <3>1, <3>2 DEF Live, TypeOK
  <2>2. CASE Launch(c)
    <3>1. /\ handle[c] \in Threads /\ tpc[handle[c]] = "created"
          /\ tpc' = [tpc EXCEPT ![handle[c]] = "check"]
          /\ UNCHANGED <<thread, running, detached>>
      BY <2>2 DEF Launch, Goto, LaunchInv
    <3> QED
      BY <3>1 DEF Live, TypeOK, SingleReplayThread
  <2>3. CASE StopIdle(c)
    <3>1. Live = {}
      BY <2>3 DEF StopIdle, SingleReplayThread, Live, NoThread, Threads
    <3> QED
      BY <2>3, <3>1 DEF StopIdle, Live
  <2>4. CASE StopBegin(c) \/ JoinRaises(c) \/ JoinReturns(c) \/ JoinTimesOut(c)
    BY <2>4 DEF StopBegin, JoinRaises, JoinReturns, JoinTimesOut, Live, SingleReplayThread
  <2>5. CASE StopEnd(c)
    BY <2>5 DEF StopEnd, Live
  <2> QED
    BY <1>2, <2>1, <2>2, <2>3, <2>4, <2>5 DEF ControllerStep
<1>3. ASSUME NEW i \in Injectors, InjectorStep(i)
      PROVE  \A u \in Live' : u = thread' /\ running'
  BY <1>3 DEF InjectorStep, InjectAdmit, InjectEnqueue, InjectRefused, Live, SingleReplayThread
<1>4. CASE UNCHANGED vars
  BY <1>4 DEF vars, Live, SingleReplayThread
<1> QED
  BY <1>1, <1>2, <1>3, <1>4 DEF Next

-----------------------------------------------------------------------------
(* The stream of flows *)

\* A thread that is ahead of the pointer lives, so without one the schedule has
\* been handed over up to the pointer.
LEMMA PositionIsPointer ==
    ASSUME thread \in Threads => ~AheadOfPointer(thread)
    PROVE  Position = pointer
BY DEF Position

\* Before any start() nothing was handed over.
LEMMA StreamInit == Init => StreamInv /\ RunInv
<1> SUFFICES ASSUME Init PROVE StreamInv /\ RunInv
  OBVIOUS
<1>1. Live = {} /\ thread \notin Threads /\ ~running
  BY DEF Init, Live, Threads, NoThread
<1>2. Position = pointer
  BY <1>1, PositionIsPointer
<1>3. SessionsInv
  BY DEF SessionsInv, Init, Sessions
<1> QED
  BY <1>1, <1>2, <1>3 DEF StreamInv, RunInv, Init

\* What a call of the consumer with thread t's batch does to the sessions.
LEMMA StreamHandOver ==
    ASSUME TypeOK, NEW t \in Threads, t = thread, tpc[t] = "call",
           pointer <= flows, SessionsInv, BatchInv(t), HandOver(t),
           tpc' = [tpc EXCEPT ![t] = "count"], UNCHANGED <<work, pointer, session, thread>>
    PROVE  SessionsInv' /\ Position' <= flows
<1>1. /\ pointer \in Nat /\ flows \in Nat /\ work[t].next \in Nat
      /\ handed \in [Sessions -> Seq(Nat)]
      /\ work[t].origin \in {"injected", "replay"}
  BY BatchFields, BoundsAssumption DEF TypeOK
<1>2. tpc'[t] = "count" /\ Position = pointer
  BY DEF Position, AheadOfPointer, TypeOK
<1>3. session \in Sessions /\ work[t].session = session
  BY DEF BatchInv
<1>4. CASE work[t].origin = "injected"
  <2>1. handed' = handed /\ Position' = pointer
    BY <1>2, <1>4 DEF HandOver, Position, AheadOfPointer
  <2> QED
    BY <1>2, <2>1 DEF SessionsInv
<1>5. CASE work[t].origin = "replay"
  <2>1. /\ pointer < work[t].next /\ work[t].next <= flows
        /\ work[t].items = Slice(pointer, work[t].next)
    BY <1>5 DEF BatchInv
  <2>2. Position' = work[t].next
    BY <1>2, <1>5 DEF Position, AheadOfPointer
  <2>3. handed' = [handed EXCEPT ![session] = @ \o work[t].items]
    BY <1>3, <1>5 DEF HandOver
  <2>4. handed[session] = Slice(0, pointer)
    BY <1>2, <1>3 DEF SessionsInv
  <2>5. handed'[session] = Slice(0, work[t].next)
    <3>1. handed'[session] = handed[session] \o work[t].items
      BY <1>1, <1>3, <2>3
    <3>2. Slice(0, pointer) \o Slice(pointer, work[t].next) = Slice(0, work[t].next)
      <4>1. pointer \in Nat /\ work[t].next \in Nat /\ pointer <= work[t].next
        BY <1>1, <2>1
      <4> QED
        BY <4>1, SliceConcat
    <3> QED
      BY <2>1, <2>4, <3>1, <3>2
  <2>6. \A s \in Sessions : s # session => handed'[s] = handed[s]
    BY <1>1, <2>3
  <2>7. \A s \in Sessions : s \in Nat
    BY DEF Sessions
  <2>8. session \in Nat
    BY <1>3, <2>7
  <2> QED
    BY <2>1, <2>2, <2>5, <2>6, <2>7, <2>8 DEF SessionsInv
<1> QED
  BY <1>1, <1>4, <1>5

\* The one replay thread keeps the stream gapless, step by step.
LEMMA StreamThreadStep ==
    ASSUME TypeOK, SingleReplayThread, StreamInv, ~detached,
           NEW t \in Threads, ThreadStep(t)
    PROVE  StreamInv'
<1> USE DEF engineVars, threadVars, callerVars, injectVars, history
<1>1. /\ t \in Live /\ t = thread /\ thread' = thread /\ flows' = flows
      /\ \A u \in Threads : u # t => tpc'[u] = tpc[u]
  BY ThreadStepFrame DEF SingleReplayThread
<1>2. \A u \in Live' : u = t
  BY <1>1 DEF Live, SingleReplayThread
<1>3. /\ pointer <= flows /\ Position <= flows /\ SessionsInv /\ BatchInv(t)
  BY <1>1 DEF StreamInv
<1>4. /\ pointer \in Nat /\ flows \in Nat /\ flows <= MaxFlows /\ session \in Nat
      /\ work[t].next \in Nat /\ tpc \in [Threads -> ThreadStates]
      /\ work \in [Threads -> Batches] /\ session \in Sessions
  BY <1>3, BatchFields, BoundsAssumption DEF TypeOK, BatchInv
<1> SUFFICES pointer' <= flows /\ Position' <= flows /\ SessionsInv' /\ BatchInv(t)'
  BY <1>1, <1>2 DEF StreamInv
<1>5. ASSUME UNCHANGED <<pointer, session, handed>>, tpc[t] \notin {"advance", "count"},
             tpc'[t] \notin {"advance", "count"}
      PROVE  pointer' <= flows /\ Position' <= flows /\ SessionsInv'
  <2>1. Position = pointer /\ Position' = pointer
    BY <1>1, <1>5 DEF Position, AheadOfPointer
  <2> QED
    BY <1>3, <1>5, <2>1 DEF SessionsInv
<1>6. CASE Check(t)
  <2>1. /\ tpc[t] = "check" /\ tpc'[t] = LoopHead
        /\ UNCHANGED <<pointer, session, handed, work, flows>>
    BY <1>4, <1>6 DEF Check, Goto
  <2>2. LoopHead \in {"dead", "ended", "drain"} /\ (LoopHead = "ended" => flows = 0)
    BY DEF LoopHead
  <2>3. BatchInv(t)'
    BY <1>3, <1>4, <2>1, <2>2 DEF BatchInv
  <2> QED
    BY <1>5, <2>1, <2>2, <2>3
<1>7. CASE Drain(t)
  <2>1. /\ tpc[t] = "drain" /\ tpc'[t] \in {"due", "emit"}
        /\ tpc'[t] = "emit" => work'[t].origin = "injected"
        /\ UNCHANGED <<pointer, session, handed>>
    BY <1>4, <1>7 DEF Drain, Goto, InjectedBatch
  <2>2. BatchInv(t)'
    BY <1>4, <2>1 DEF BatchInv
  <2> QED
    BY <1>5, <2>1, <2>2
<1>8. CASE NothingDue(t)
  <2>1. /\ tpc[t] = "due" /\ tpc'[t] = "exhaust"
        /\ UNCHANGED <<pointer, session, handed>>
    BY <1>4, <1>8 DEF NothingDue, Goto
  <2>2. BatchInv(t)'
    BY <1>4, <2>1 DEF BatchInv
  <2> QED
    BY <1>5, <2>1, <2>2
<1>9. ASSUME NEW idx \in 1 .. flows, SomeDue(t, idx)
      PROVE  pointer' <= flows /\ Position' <= flows /\ SessionsInv' /\ BatchInv(t)'
  <2>1. /\ tpc[t] = "due" /\ tpc'[t] = "emit" /\ work'[t] = CappedBatch(idx)
        /\ UNCHANGED <<pointer, session, handed, flows>>
    BY <1>4, <1>9 DEF SomeDue, Goto
  <2>2. /\ CappedBatch(idx).origin = "replay"
        /\ pointer < CappedBatch(idx).next /\ CappedBatch(idx).next <= idx
        /\ CappedBatch(idx).items = Slice(pointer, CappedBatch(idx).next)
        /\ CappedBatch(idx).next \in Nat
    <3>1. idx > pointer
      BY <1>9 DEF SomeDue
    <3>2. CappedBatch(idx).next \in 0 .. MaxFlows
      BY <3>1, CappedBatchType DEF Batches
    <3> QED
      BY <3>1, <3>2, CappedBatchType, BoundsAssumption
  <2>3. CappedBatch(idx).next <= flows
    BY <1>4, <2>2
  <2>4. BatchInv(t)'
    BY <1>4, <2>1, <2>2, <2>3 DEF BatchInv
  <2> QED
    BY <1>5, <2>1, <2>4
<1>10. CASE EmitBegin(t)
  <2>1. /\ tpc[t] = "emit" /\ tpc'[t] = "call"
        /\ work'[t] = [work[t] EXCEPT !.session = session]
        /\ UNCHANGED <<pointer, session, handed, flows>>
    BY <1>4, <1>10 DEF EmitBegin, Goto
  <2>2. /\ work'[t].session = session /\ work'[t].origin = work[t].origin
        /\ work'[t].next = work[t].next /\ work'[t].items = work[t].items
    <3>1. work[t] \in Batches
      BY <1>4
    <3> QED
      BY <2>1, <3>1 DEF Batches
  <2>3. BatchInv(t)'
    BY <1>3, <2>1, <2>2 DEF BatchInv
  <2> QED
    BY <1>5, <2>1, <2>3
<1>11. CASE ConsumerReturns(t) \/ ConsumerRaises(t)
  <2>1. /\ tpc[t] = "call" /\ HandOver(t)
        /\ tpc' = [tpc EXCEPT ![t] = "count"]
        /\ UNCHANGED <<work, pointer, session, thread>>
    BY <1>11 DEF ConsumerReturns, ConsumerRaises, Goto
  <2>2. SessionsInv' /\ Position' <= flows
    BY <1>1, <1>3, <2>1, StreamHandOver
  <2>3. BatchInv(t)'
    BY <1>4, <2>1 DEF BatchInv
  <2> QED
    BY <1>3, <2>1, <2>2, <2>3
<1>12. CASE EmitEnd(t)
  <2>1. /\ tpc[t] = "count"
        /\ UNCHANGED <<pointer, session, handed>>
        /\ IF work[t].origin = "replay"
             THEN tpc'[t] = "advance" /\ work' = work
             ELSE tpc'[t] = "due"
    BY <1>4, <1>12 DEF EmitEnd, Goto
  <2>2. Position' = Position
    BY <1>1, <2>1 DEF Position, AheadOfPointer
  <2>3. SessionsInv'
    BY <1>3, <2>1, <2>2 DEF SessionsInv
  <2>4. BatchInv(t)'
    BY <1>4, <2>1 DEF BatchInv
  <2> QED
    BY <1>3, <2>1, <2>2, <2>3, <2>4
<1>13. CASE Advance(t)
  <2>1. /\ tpc[t] = "advance" /\ tpc'[t] = "exhaust" /\ pointer' = work[t].next
        /\ UNCHANGED <<session, handed>>
    BY <1>4, <1>13 DEF Advance, Goto
  <2>2. Position = work[t].next /\ Position' = work[t].next
    BY <1>1, <2>1 DEF Position, AheadOfPointer
  <2>3. SessionsInv'
    BY <1>3, <2>1, <2>2 DEF SessionsInv
  <2>4. BatchInv(t)'
    BY <1>4, <2>1 DEF BatchInv
  <2> QED
    BY <1>3, <2>1, <2>2, <2>3, <2>4
<1>14. CASE Exhaust(t)
  <2>1. /\ tpc[t] = "exhaust" /\ tpc'[t] = LoopTail
        /\ UNCHANGED <<pointer, session, handed, flows>>
    BY <1>4, <1>14 DEF Exhaust, Goto
  <2>2. /\ LoopTail \in {"check", "loop", "ended"}
        /\ LoopTail # "check" => pointer = flows
    BY <1>3, <1>4 DEF LoopTail
  <2>3. BatchInv(t)'
    BY <1>4, <2>1, <2>2 DEF BatchInv
  <2> QED
    BY <1>5, <2>1, <2>2, <2>3
<1>15. CASE NewLoop(t)
  <2>1. /\ tpc[t] = "loop" /\ tpc'[t] = "check" /\ pointer' = 0
        /\ session' = session + 1 /\ session' <= MaxLoops /\ handed' = handed
    BY <1>4, <1>15, BoundsAssumption DEF NewLoop, Goto
  <2>2. Position = pointer /\ Position' = 0
    BY <1>1, <2>1 DEF Position, AheadOfPointer
  <2>3. session' \in Sessions
    BY <1>4, <2>1, BoundsAssumption DEF Sessions
  <2>4. Slice(0, 0) = <<>> /\ Len(Slice(0, pointer)) = pointer
    <3>1. 0 \in Nat /\ 0 <= pointer /\ pointer - 0 = pointer
      BY <1>4
    <3> QED
      BY <1>4, <3>1, SliceEmpty, SliceType
  <2>5. SessionsInv'
    <3> SUFFICES ASSUME NEW s \in Sessions
                 PROVE  /\ s < session + 1 => handed[s] = Slice(0, Len(handed[s]))
                        /\ s = session + 1 => handed[s] = Slice(0, 0)
                        /\ s > session + 1 => handed[s] = <<>>
      BY <2>1, <2>2 DEF SessionsInv, Sessions
    <3>1. s \in Nat
      BY DEF Sessions
    <3>2. /\ s < session => handed[s] = Slice(0, Len(handed[s]))
          /\ s = session => handed[s] = Slice(0, pointer)
          /\ s > session => handed[s] = <<>>
      BY <1>3, <2>2 DEF SessionsInv
    <3>3. s = session => handed[s] = Slice(0, Len(handed[s]))
      BY <2>4, <3>2
    <3>4. s > session => handed[s] = Slice(0, 0)
      BY <2>4, <3>2
    <3> QED
      BY <1>4, <3>1, <3>2, <3>3, <3>4
  <2>6. BatchInv(t)'
    BY <2>1, <2>3 DEF BatchInv, Sessions
  <2> QED
    BY <1>4, <2>1, <2>2, <2>5, <2>6
<1>16. CASE Finish(t)
  <2>1. /\ tpc[t] = "ended" /\ tpc'[t] = "dead"
        /\ UNCHANGED <<pointer, session, handed>>
    BY <1>4, <1>16 DEF Finish, Goto
  <2>2. BatchInv(t)'
    BY <1>4, <2>1 DEF BatchInv
  <2> QED
    BY <1>5, <2>1, <2>2
<1> QED
  BY <1>6, <1>7, <1>8, <1>9, <1>10, <1>11, <1>12, <1>13, <1>14, <1>15, <1>16 DEF ThreadStep

\* A step of start() or stop() keeps the stream gapless: start() finds no thread
\* alive, and so does the end of a stop() that is not detached.
LEMMA StreamControllerStep ==
    ASSUME TypeOK, LaunchInv, SingleReplayThread, StreamInv, ~detached',
           NEW c \in Controllers, ControllerStep(c)
    PROVE  StreamInv'
<1> USE DEF engineVars, threadVars, callerVars, injectVars, history
<1>1. ~detached
  BY DEF ControllerStep, Start, Launch, StopIdle, StopBegin, JoinRaises, JoinReturns,
      JoinTimesOut, StopEnd, TypeOK
<1>2. /\ pointer <= flows /\ Position <= flows /\ SessionsInv
      /\ \A t \in Live : BatchInv(t)
  BY <1>1 DEF StreamInv
<1>3. /\ pointer \in Nat /\ flows \in Nat /\ session \in Nat /\ MaxLoops \in Nat
      /\ tpc \in [Threads -> ThreadStates]
  BY BoundsAssumption DEF TypeOK
<1>4. \A t \in Threads : AheadOfPointer(t) => t \in Live
  BY DEF AheadOfPointer, Live
<1>5. ASSUME NEW n \in 0 .. MaxFlows, NEW loop \in BOOLEAN, Start(c, n, loop)
      PROVE  StreamInv'
  <2>1. Live = {}
    BY <1>1, <1>5 DEF Start, MayStart, SingleReplayThread
  <2>2. /\ tpc' = [tpc EXCEPT ![starts'] = "created"] /\ thread' = starts'
        /\ pointer' = 0 /\ flows' = n /\ session' = session + 1 /\ session' <= MaxLoops
        /\ handed' = handed
    BY <1>3, <1>5 DEF Start
  <2>3. Position = pointer
    BY <1>4, <2>1, PositionIsPointer
  <2>4. Position' = 0
    BY <1>3, <2>2 DEF Position, AheadOfPointer
  <2>5. Slice(0, 0) = <<>> /\ Len(Slice(0, pointer)) = pointer
    <3>1. 0 \in Nat /\ 0 <= pointer /\ pointer - 0 = pointer
      BY <1>3
    <3> QED
      BY <1>3, <3>1, SliceEmpty, SliceType
  <2>6. SessionsInv'
    <3> SUFFICES ASSUME NEW s \in Sessions
                 PROVE  /\ s < session + 1 => handed[s] = Slice(0, Len(handed[s]))
                        /\ s = session + 1 => handed[s] = Slice(0, 0)
                        /\ s > session + 1 => handed[s] = <<>>
      BY <2>2, <2>4 DEF SessionsInv, Sessions
    <3>1. s \in Nat
      BY DEF Sessions
    <3>2. /\ s < session => handed[s] = Slice(0, Len(handed[s]))
          /\ s = session => handed[s] = Slice(0, pointer)
          /\ s > session => handed[s] = <<>>
      BY <1>2, <2>3 DEF SessionsInv
    <3>3. s = session => handed[s] = Slice(0, Len(handed[s]))
      BY <2>5, <3>2
    <3>4. s > session => handed[s] = Slice(0, 0)
      BY <2>5, <3>2
    <3> QED
      BY <1>3, <3>1, <3>2, <3>3, <3>4
  <2>7. \A t \in Live' : tpc'[t] = "created"
    BY <1>3, <2>1, <2>2 DEF Live
  <2>8. session' \in Sessions
    BY <1>3, <2>2 DEF Sessions
  <2>9. \A t \in Live' : BatchInv(t)'
    BY <2>7, <2>8 DEF BatchInv
  <2> QED
    BY <2>2, <2>4, <2>6, <2>9 DEF StreamInv
<1>6. CASE Launch(c)
  <2>1. /\ handle[c] \in Threads /\ tpc[handle[c]] = "created"
        /\ tpc' = [tpc EXCEPT ![handle[c]] = "check"]
        /\ UNCHANGED <<thread, flows, pointer, session, handed, work>>
    BY <1>6 DEF Launch, Goto, LaunchInv
  <2>2. \A t \in Threads : AheadOfPointer(t)' <=> AheadOfPointer(t)
    BY <1>3, <2>1 DEF AheadOfPointer
  <2>3. Position' = Position
    BY <2>1, <2>2 DEF Position
  <2>4. SessionsInv'
    BY <1>2, <2>1, <2>3 DEF SessionsInv
  <2>5. \A t \in Live' : t \in Live /\ (tpc'[t] = tpc[t] \/ tpc'[t] = "check")
    BY <1>3, <2>1 DEF Live
  <2>6. \A t \in Live' : BatchInv(t)'
    BY <1>2, <2>1, <2>5 DEF BatchInv
  <2> QED
    BY <1>2, <2>1, <2>3, <2>4, <2>6 DEF StreamInv
<1>7. CASE StopIdle(c) \/ StopBegin(c) \/ JoinRaises(c) \/ JoinReturns(c) \/ JoinTimesOut(c)
  <2>1. UNCHANGED <<thread, flows, pointer, session, handed, work, tpc>>
    BY <1>7 DEF StopIdle, StopBegin, JoinRaises, JoinReturns, JoinTimesOut
  <2>2. Position' = Position /\ Live' = Live
    BY <2>1 DEF Position, AheadOfPointer, Live
  <2>3. SessionsInv'
    BY <1>2, <2>1, <2>2 DEF SessionsInv
  <2>4. \A t \in Live' : BatchInv(t)'
    BY <1>2, <2>1, <2>2 DEF BatchInv
  <2> QED
    BY <1>2, <2>1, <2>2, <2>3, <2>4 DEF StreamInv
<1>8. CASE StopEnd(c)
  <2>1. Live = {} /\ UNCHANGED <<flows, pointer, session, handed, tpc>>
    BY <1>8 DEF StopEnd
  <2>2. Live' = {}
    BY <2>1 DEF Live
  <2>3. Position = pointer
    BY <1>4, <2>1, PositionIsPointer
  <2>4. Position' = pointer
    BY <1>8, <2>1 DEF StopEnd, Position, NoThread, Threads
  <2>5. SessionsInv'
    BY <1>2, <2>1, <2>3, <2>4 DEF SessionsInv
  <2> QED
    BY <1>2, <2>1, <2>2, <2>4, <2>5 DEF StreamInv
<1> QED
  BY <1>5, <1>6, <1>7, <1>8 DEF ControllerStep

\* Every step keeps the stream gapless and a running engine's thread published.
LEMMA StreamStep ==
    TypeOK /\ LaunchInv /\ SingleReplayThread /\ RunInv /\ StreamInv /\ [Next]_vars
        => StreamInv' /\ RunInv'
<1> SUFFICES ASSUME TypeOK, LaunchInv, SingleReplayThread, RunInv, StreamInv, [Next]_vars
             PROVE  StreamInv' /\ RunInv'
  OBVIOUS
<1> USE DEF engineVars, threadVars, callerVars, injectVars, history
<1>1. ASSUME UNCHANGED <<running, thread, flows, pointer, session, handed, work, tpc,
                         detached>>
      PROVE  StreamInv' /\ RunInv'
  <2>1. Position' = Position /\ Live' = Live
    BY <1>1 DEF Position, AheadOfPointer, Live
  <2>2. SessionsInv' <=> SessionsInv
    BY <1>1, <2>1 DEF SessionsInv
  <2>3. \A t : BatchInv(t)' <=> BatchInv(t)
    BY <1>1 DEF BatchInv
  <2> QED
    BY <1>1, <2>1, <2>2, <2>3 DEF StreamInv, RunInv
<1>2. ASSUME NEW t \in Threads, ThreadStep(t)  PROVE StreamInv' /\ RunInv'
  <2>1. thread' = thread /\ detached' = detached /\ (running' => running)
    BY <1>2, ThreadStepFrame
  <2>2. StreamInv'
    <3>1. CASE detached
      BY <2>1, <3>1 DEF StreamInv
    <3>2. CASE ~detached
      BY <1>2, <3>2, StreamThreadStep
    <3> QED
      BY <3>1, <3>2
  <2> QED
    BY <2>1, <2>2 DEF RunInv
<1>3. ASSUME NEW c \in Controllers, ControllerStep(c)  PROVE StreamInv' /\ RunInv'
  <2>1. RunInv'
    <3>1. ASSUME NEW n \in 0 .. MaxFlows, NEW loop \in BOOLEAN, Start(c, n, loop)
          PROVE  RunInv'
      <4>1. starts' = starts + 1 /\ starts < MaxStarts /\ thread' = starts' /\ starts \in Nat
        BY <3>1, BoundsAssumption DEF Start, TypeOK
      <4> QED
        BY <4>1, BoundsAssumption DEF RunInv, Threads
    <3>2. CASE Launch(c) \/ StopIdle(c) \/ StopBegin(c) \/ JoinRaises(c) \/ JoinReturns(c)
               \/ JoinTimesOut(c) \/ StopEnd(c)
      BY <3>2 DEF Launch, StopIdle, StopBegin, JoinRaises, JoinReturns, JoinTimesOut,
          StopEnd, RunInv
    <3> QED
      BY <1>3, <3>1, <3>2 DEF ControllerStep
  <2>2. StreamInv'
    <3>1. CASE detached'
      BY <3>1 DEF StreamInv
    <3>2. CASE ~detached'
      BY <1>3, <3>2, StreamControllerStep
    <3> QED
      BY <3>1, <3>2
  <2> QED
    BY <2>1, <2>2
<1>4. ASSUME NEW i \in Injectors, InjectorStep(i)  PROVE StreamInv' /\ RunInv'
  BY <1>1, <1>4 DEF InjectorStep, InjectAdmit, InjectEnqueue, InjectRefused
<1>5. CASE UNCHANGED vars
  BY <1>1, <1>5 DEF vars
<1> QED
  BY <1>2, <1>3, <1>4, <1>5 DEF Next

-----------------------------------------------------------------------------
(* Prompt stops *)

\* Nothing was handed over and no thread lives at first.
LEMMA PromptInit == Init => PromptInv
BY DEF Init, PromptInv, Live

\* A step of the one thread spends the calls it has left before its next look
\* at the stop event, and gets new ones only if the event is not set.
LEMMA PromptThreadStep ==
    ASSUME TypeOK, SingleReplayThread, PromptInv, ~detached,
           NEW t \in Threads, ThreadStep(t)
    PROVE  PromptInv'
<1> USE DEF engineVars, threadVars, callerVars, injectVars, history
<1>1. /\ t \in Live /\ stopEvent' = stopEvent /\ \A u \in Live' : u = t
  <2>1. /\ t \in Live /\ stopEvent' = stopEvent
        /\ \A u \in Threads : u # t => tpc'[u] = tpc[u]
    BY ThreadStepFrame
  <2> QED
    BY <2>1 DEF Live, SingleReplayThread
<1>2. /\ callsAfterStop \in Nat /\ callsAfterStop <= 2 /\ CallsLeft(t) \in Nat
      /\ ~stopEvent => callsAfterStop = 0
      /\ callsAfterStop + CallsLeft(t) <= 2
      /\ tpc \in [Threads -> ThreadStates] /\ work \in [Threads -> Batches]
      /\ work[t].origin \in {"injected", "replay"}
  BY <1>1, BatchFields DEF PromptInv, TypeOK, CallsLeft
<1> SUFFICES /\ callsAfterStop' <= 2 /\ (~stopEvent => callsAfterStop' = 0)
             /\ callsAfterStop' + CallsLeft(t)' <= 2
  BY <1>1 DEF PromptInv
<1>3. ASSUME callsAfterStop' = callsAfterStop, CallsLeft(t)' \in Nat,
             CallsLeft(t)' <= CallsLeft(t) \/ (~stopEvent /\ CallsLeft(t)' <= 2)
      PROVE  /\ callsAfterStop' <= 2 /\ (~stopEvent => callsAfterStop' = 0)
             /\ callsAfterStop' + CallsLeft(t)' <= 2
  BY <1>2, <1>3
<1>4. CASE Check(t)
  <2>1. tpc'[t] = LoopHead
    BY <1>2, <1>4 DEF Check, Goto
  <2>2. CallsLeft(t)' = 0 \/ (~stopEvent /\ CallsLeft(t)' = 2)
    BY <2>1 DEF LoopHead, CallsLeft
  <2> QED
    BY <1>2, <1>3, <1>4, <2>2 DEF Check
<1>5. CASE Drain(t)
  <2>1. /\ tpc[t] = "drain" /\ callsAfterStop' = callsAfterStop
        /\ tpc'[t] = "due" \/ (tpc'[t] = "emit" /\ work'[t].origin = "injected")
    BY <1>2, <1>5 DEF Drain, Goto, InjectedBatch
  <2>2. CallsLeft(t) = 2 /\ CallsLeft(t)' \in {1, 2}
    BY <2>1 DEF CallsLeft
  <2> QED
    BY <1>3, <2>1, <2>2
<1>6. CASE NothingDue(t)
  <2>1. tpc'[t] = "exhaust" /\ callsAfterStop' = callsAfterStop
    BY <1>2, <1>6 DEF NothingDue, Goto
  <2> QED
    BY <1>2, <1>3, <2>1 DEF CallsLeft
<1>7. ASSUME NEW idx \in 1 .. flows, SomeDue(t, idx)
      PROVE  /\ callsAfterStop' <= 2 /\ (~stopEvent => callsAfterStop' = 0)
             /\ callsAfterStop' + CallsLeft(t)' <= 2
  <2>1. /\ tpc[t] = "due" /\ tpc'[t] = "emit" /\ work'[t].origin = "replay"
        /\ callsAfterStop' = callsAfterStop
    BY <1>2, <1>7, CappedBatchType DEF SomeDue, Goto
  <2>2. CallsLeft(t) = 1 /\ CallsLeft(t)' = 1
    BY <2>1 DEF CallsLeft
  <2> QED
    BY <1>3, <2>1, <2>2
<1>8. CASE EmitBegin(t)
  <2>1. tpc[t] = "emit" /\ tpc'[t] = "call" /\ callsAfterStop' = callsAfterStop
    BY <1>2, <1>8 DEF EmitBegin, Goto
  <2>2. work'[t].origin = work[t].origin
    <3>1. work[t] \in Batches
      BY <1>2
    <3> QED
      BY <1>2, <1>8, <3>1 DEF EmitBegin, Batches
  <2>3. CallsLeft(t)' = CallsLeft(t)
    BY <2>1, <2>2 DEF CallsLeft
  <2> QED
    BY <1>2, <1>3, <2>1, <2>3
<1>9. CASE ConsumerReturns(t) \/ ConsumerRaises(t)
  <2>1. /\ tpc[t] = "call" /\ tpc'[t] = "count" /\ work' = work
        /\ callsAfterStop' = IF stopEvent THEN callsAfterStop + 1 ELSE callsAfterStop
    BY <1>2, <1>9 DEF ConsumerReturns, ConsumerRaises, HandOver, Goto
  <2>2. CallsLeft(t) = CallsLeft(t)' + 1 /\ CallsLeft(t)' \in {0, 1}
    BY <1>2, <2>1 DEF CallsLeft
  <2> QED
    BY <1>2, <2>1, <2>2
<1>10. CASE EmitEnd(t)
  <2>1. /\ tpc[t] = "count" /\ callsAfterStop' = callsAfterStop
        /\ tpc'[t] = IF work[t].origin = "replay" THEN "advance" ELSE "due"
    BY <1>2, <1>10 DEF EmitEnd, Goto
  <2>2. CallsLeft(t)' = CallsLeft(t)
    BY <1>2, <2>1 DEF CallsLeft
  <2> QED
    BY <1>2, <1>3, <2>1, <2>2
<1>11. CASE Advance(t) \/ Exhaust(t) \/ NewLoop(t) \/ Finish(t)
  <2>1. /\ tpc'[t] \in {"exhaust", "check", "loop", "ended", "dead"}
        /\ callsAfterStop' = callsAfterStop
    BY <1>2, <1>11 DEF Advance, Exhaust, NewLoop, Finish, LoopTail, Goto
  <2>2. CallsLeft(t)' = 0
    BY <2>1 DEF CallsLeft
  <2> QED
    BY <1>2, <1>3, <2>1, <2>2
<1> QED
  BY <1>4, <1>5, <1>6, <1>7, <1>8, <1>9, <1>10, <1>11 DEF ThreadStep

\* Every step keeps the account of the calls after a stop.
LEMMA PromptStep ==
    TypeOK /\ LaunchInv /\ SingleReplayThread /\ PromptInv /\ [Next]_vars => PromptInv'
<1> SUFFICES ASSUME TypeOK, LaunchInv, SingleReplayThread, PromptInv, [Next]_vars, ~detached'
             PROVE  PromptInv'
  BY DEF PromptInv
<1> USE DEF engineVars, threadVars, callerVars, injectVars, history
<1>1. ASSUME NEW t \in Threads, ThreadStep(t)  PROVE PromptInv'
  BY <1>1, ThreadStepFrame, PromptThreadStep
<1>2. ASSUME NEW c \in Controllers, ControllerStep(c)  PROVE PromptInv'
  <2>1. ASSUME NEW n \in 0 .. MaxFlows, NEW loop \in BOOLEAN, Start(c, n, loop)
        PROVE  PromptInv'
    <3>1. Live = {}
      BY <2>1 DEF Start, MayStart, SingleReplayThread
    <3>2. callsAfterStop' = 0 /\ tpc' = [tpc EXCEPT ![starts'] = "created"]
      BY <2>1 DEF Start
    <3>3. \A t \in Live' : CallsLeft(t)' = 0
      BY <3>1, <3>2 DEF Live, CallsLeft, TypeOK
    <3> QED
      BY <3>2, <3>3 DEF PromptInv
  <2>2. CASE Launch(c)
    <3>1. /\ handle[c] \in Threads /\ tpc[handle[c]] = "created"
          /\ tpc' = [tpc EXCEPT ![handle[c]] = "check"]
          /\ UNCHANGED <<work, stopEvent, callsAfterStop, detached>>
      BY <2>2 DEF Launch, Goto, LaunchInv
    <3>2. \A t \in Live' : t \in Live /\ CallsLeft(t)' = CallsLeft(t)
      BY <3>1 DEF Live, CallsLeft, TypeOK
    <3> QED
      BY <3>1, <3>2 DEF PromptInv
  <2>3. CASE StopBegin(c)
    <3>1. stopEvent' /\ UNCHANGED <<tpc, work, callsAfterStop, detached>>
      BY <2>3 DEF StopBegin
    <3>2. Live' = Live /\ \A t : CallsLeft(t)' = CallsLeft(t)
      BY <3>1 DEF Live, CallsLeft
    <3> QED
      BY <3>1, <3>2 DEF PromptInv
  <2>4. CASE StopIdle(c) \/ JoinRaises(c) \/ JoinReturns(c) \/ JoinTimesOut(c) \/ StopEnd(c)
    <3>1. UNCHANGED <<tpc, work, callsAfterStop, stopEvent>> /\ ~detached
      BY <2>4 DEF StopIdle, JoinRaises, JoinReturns, JoinTimesOut, StopEnd, TypeOK
    <3>2. Live' = Live /\ \A t : CallsLeft(t)' = CallsLeft(t)
      BY <3>1 DEF Live, CallsLeft
    <3> QED
      BY <3>1, <3>2 DEF PromptInv
  <2> QED
    BY <1>2, <2>1, <2>2, <2>3, <2>4 DEF ControllerStep
<1>3. ASSUME UNCHANGED <<tpc, work, callsAfterStop, stopEvent, detached>>
      PROVE  PromptInv'
  <2>1. Live' = Live /\ \A t : CallsLeft(t)' = CallsLeft(t)
    BY <1>3 DEF Live, CallsLeft
  <2> QED
    BY <1>3, <2>1 DEF PromptInv
<1>4. ASSUME NEW i \in Injectors, InjectorStep(i)  PROVE PromptInv'
  BY <1>3, <1>4 DEF InjectorStep, InjectAdmit, InjectEnqueue, InjectRefused
<1>5. CASE UNCHANGED vars
  BY <1>3, <1>5 DEF vars
<1> QED
  BY <1>1, <1>2, <1>4, <1>5 DEF Next

-----------------------------------------------------------------------------
(* A running engine has its thread *)

\* The published thread lives from start() on, until stop() sets the event or
\* the thread itself clears _running.
AliveInv == running /\ ~stopEvent => thread \in Live

\* No engine runs at first.
LEMMA AliveInit == Init => AliveInv
BY DEF Init, AliveInv

\* A thread dies only where it saw the event or clears _running.
LEMMA AliveStep == TypeOK /\ LaunchInv /\ AliveInv /\ [Next]_vars => AliveInv'
<1> SUFFICES ASSUME TypeOK, LaunchInv, AliveInv, [Next]_vars, running', ~stopEvent'
             PROVE  thread' \in Live'
  BY DEF AliveInv
<1> USE DEF engineVars, threadVars, callerVars, injectVars, history
<1>1. ASSUME NEW t \in Threads, ThreadStep(t)  PROVE thread' \in Live'
  <2>1. /\ running' = running \/ (running' = FALSE /\ tpc'[t] = "dead")
        /\ \A u \in Threads : u # t => tpc'[u] = tpc[u]
        /\ thread' = thread /\ stopEvent' = stopEvent
    BY <1>1, ThreadStepFrame
  <2>2. thread \in Live
    BY <2>1 DEF AliveInv
  <2>3. tpc'[t] \notin {"none", "dead"}
    <3>1. tpc \in [Threads -> ThreadStates]
      BY DEF TypeOK
    <3> QED
      BY <1>1, <2>1, <3>1 DEF ThreadStep, Check, Drain, NothingDue, SomeDue, EmitBegin,
          ConsumerReturns, ConsumerRaises, EmitEnd, Advance, Exhaust, NewLoop, Finish,
          LoopHead, LoopTail, Goto
  <2> QED
    BY <2>1, <2>2, <2>3 DEF Live
<1>2. ASSUME NEW c \in Controllers, ControllerStep(c)  PROVE thread' \in Live'
  <2>1. ASSUME NEW n \in 0 .. MaxFlows, NEW loop \in BOOLEAN, Start(c, n, loop)
        PROVE  thread' \in Live'
    <3>1. starts' = starts + 1 /\ starts' \in Threads
      BY <2>1, BoundsAssumption DEF Start, TypeOK, Threads
    <3>2. thread' = starts' /\ tpc' = [tpc EXCEPT ![starts'] = "created"]
      BY <2>1 DEF Start
    <3> QED
      BY <3>1, <3>2 DEF Live, TypeOK
  <2>2. CASE Launch(c)
    <3>1. /\ tpc' = [tpc EXCEPT ![handle[c]] = "check"] /\ handle[c] \in Threads
          /\ UNCHANGED <<running, stopEvent, thread>>
      BY <2>2 DEF Launch, Goto, LaunchInv
    <3> QED
      BY <3>1 DEF Live, AliveInv, TypeOK
  <2>3. CASE StopIdle(c) \/ StopBegin(c) \/ StopEnd(c)
    BY <2>3 DEF StopIdle, StopBegin, StopEnd
  <2>4. CASE JoinRaises(c) \/ JoinReturns(c) \/ JoinTimesOut(c)
    BY <2>4 DEF JoinRaises, JoinReturns, JoinTimesOut, AliveInv, Live
  <2> QED
    BY <1>2, <2>1, <2>2, <2>3, <2>4 DEF ControllerStep
<1>3. ASSUME NEW i \in Injectors, InjectorStep(i)  PROVE thread' \in Live'
  BY <1>3 DEF InjectorStep, InjectAdmit, InjectEnqueue, InjectRefused, AliveInv, Live
<1>4. CASE UNCHANGED vars
  BY <1>4 DEF vars, AliveInv, Live
<1> QED
  BY <1>1, <1>2, <1>3, <1>4 DEF Next

\* Who set the event of a running engine: a stop() under way, or one that join()
\* raised out of.
ToldInv == running /\ stopEvent => StopPending \/ abandoned

\* No engine runs at first.
LEMMA ToldInit == Init => ToldInv
BY DEF Init, ToldInv

\* A stop() that leaves "join" and "reset" clears _running or has raised.
LEMMA ToldStep == TypeOK /\ ToldInv /\ [Next]_vars => ToldInv'
<1> SUFFICES ASSUME TypeOK, ToldInv, [Next]_vars, running', stopEvent'
             PROVE  StopPending' \/ abandoned'
  BY DEF ToldInv
<1> USE DEF engineVars, threadVars, callerVars, injectVars, history
<1>1. ASSUME running, stopEvent, UNCHANGED <<cpc, abandoned>>
      PROVE  StopPending' \/ abandoned'
  BY <1>1 DEF ToldInv, StopPending
<1>2. ASSUME NEW t \in Threads, ThreadStep(t)  PROVE StopPending' \/ abandoned'
  <2>1. running /\ stopEvent
    BY <1>2, ThreadStepFrame
  <2>2. UNCHANGED <<cpc, abandoned>>
    BY <1>2 DEF ThreadStep, Check, Drain, NothingDue, SomeDue, EmitBegin,
        ConsumerReturns, ConsumerRaises, EmitEnd, Advance, Exhaust, NewLoop, Finish
  <2> QED
    BY <1>1, <2>1, <2>2
<1>3. ASSUME NEW c \in Controllers, ControllerStep(c)  PROVE StopPending' \/ abandoned'
  <2>0. cpc \in [Controllers -> {"idle", "launch", "join", "reset"}]
    BY DEF TypeOK
  <2>1. ASSUME NEW n \in 0 .. MaxFlows, NEW loop \in BOOLEAN, Start(c, n, loop)
        PROVE  FALSE
    BY <2>1 DEF Start
  <2>2. CASE Launch(c)
    <3>1. running /\ stopEvent /\ cpc' = [cpc EXCEPT ![c] = "idle"]
          /\ cpc[c] = "launch" /\ abandoned' = abandoned
      BY <2>2 DEF Launch, Return
    <3> QED
      BY <2>0, <3>1 DEF ToldInv, StopPending
  <2>3. CASE StopIdle(c) \/ StopEnd(c)
    BY <2>3 DEF StopIdle, StopEnd
  <2>4. CASE StopBegin(c)
    BY <2>0, <2>4 DEF StopBegin, StopPending
  <2>5. CASE JoinRaises(c)
    BY <2>5 DEF JoinRaises
  <2>6. CASE JoinReturns(c) \/ JoinTimesOut(c)
    BY <2>0, <2>6 DEF JoinReturns, JoinTimesOut, StopPending
  <2> QED
    BY <1>3, <2>1, <2>2, <2>3, <2>4, <2>5, <2>6 DEF ControllerStep
<1>4. ASSUME NEW i \in Injectors, InjectorStep(i)  PROVE StopPending' \/ abandoned'
  BY <1>1, <1>4 DEF InjectorStep, InjectAdmit, InjectEnqueue, InjectRefused
<1>5. CASE UNCHANGED vars
  BY <1>1, <1>5 DEF vars
<1> QED
  BY <1>2, <1>3, <1>4, <1>5 DEF Next

-----------------------------------------------------------------------------
(* The counters *)

\* The flows thread t's consumer call was given and emitted_count lacks.
Uncounted(t) == IF tpc[t] = "count" THEN Len(work[t].items) ELSE 0

\* The counters trail the hand-overs by the one batch between its call and its
\* count, and a batch still in its call has not failed yet.
AccountInv ==
    ~detached =>
        /\ Live = {} => counts.emitted = runHanded
        /\ \A t \in Live : /\ counts.emitted + Uncounted(t) = runHanded
                           /\ tpc[t] = "call" => counts.errors < counts.batches
        /\ counts.failed <= runHanded
        /\ counts.errors <= counts.batches

\* Nothing is counted at first.
LEMMA AccountInit == Init => AccountInv
BY DEF Init, AccountInv, Live, ZeroCounts

\* A step of the one thread moves a batch from its call to its count, or leaves
\* the account alone.
LEMMA AccountThreadStep ==
    ASSUME TypeOK, SingleReplayThread, AccountInv, ~detached,
           NEW t \in Threads, ThreadStep(t)
    PROVE  AccountInv'
<1> USE DEF engineVars, threadVars, callerVars, injectVars, history
<1> DEFINE n == Len(work[t].items)
<1>1. t \in Live /\ \A u \in Live' : u = t
  <2>1. t \in Live /\ \A u \in Threads : u # t => tpc'[u] = tpc[u]
    BY ThreadStepFrame
  <2> QED
    BY <2>1 DEF Live, SingleReplayThread
<1>2. /\ n \in Nat /\ runHanded \in Nat
      /\ counts.emitted \in Nat /\ counts.batches \in Nat
      /\ counts.errors \in Nat /\ counts.failed \in Nat
      /\ tpc \in [Threads -> ThreadStates] /\ work \in [Threads -> Batches]
  BY BatchFields, CountersAdd DEF TypeOK
<1>3. /\ counts.emitted + Uncounted(t) = runHanded
      /\ tpc[t] = "call" => counts.errors < counts.batches
      /\ counts.failed <= runHanded /\ counts.errors <= counts.batches
  BY <1>1 DEF AccountInv
<1> HIDE DEF n
<1> SUFFICES /\ t \notin Live' => counts'.emitted = runHanded'
             /\ t \in Live' => /\ counts'.emitted + Uncounted(t)' = runHanded'
                               /\ tpc'[t] = "call" => counts'.errors < counts'.batches
             /\ counts'.failed <= runHanded' /\ counts'.errors <= counts'.batches
  BY <1>1 DEF AccountInv
<1>4. ASSUME UNCHANGED <<counts, runHanded>>, tpc[t] # "count", tpc'[t] \notin {"count", "call"}
      PROVE  /\ t \notin Live' => counts'.emitted = runHanded'
             /\ t \in Live' => /\ counts'.emitted + Uncounted(t)' = runHanded'
                               /\ tpc'[t] = "call" => counts'.errors < counts'.batches
             /\ counts'.failed <= runHanded' /\ counts'.errors <= counts'.batches
  BY <1>2, <1>3, <1>4 DEF Uncounted
<1>5. CASE Check(t) \/ Drain(t) \/ NothingDue(t) \/ (\E idx \in 1 .. flows : SomeDue(t, idx))
           \/ Advance(t) \/ Exhaust(t) \/ NewLoop(t) \/ Finish(t)
  <2>1. /\ UNCHANGED <<counts, runHanded>> /\ tpc[t] # "count"
        /\ tpc'[t] \notin {"count", "call"}
    BY <1>2, <1>5 DEF Check, Drain, NothingDue, SomeDue, Advance, Exhaust, NewLoop, Finish,
        LoopHead, LoopTail, Goto
  <2> QED
    BY <1>4, <2>1
<1>6. CASE EmitBegin(t)
  <2>1. /\ tpc[t] = "emit" /\ tpc'[t] = "call" /\ runHanded' = runHanded
        /\ counts' = [counts EXCEPT !.batches = @ + 1]
    BY <1>2, <1>6 DEF EmitBegin, Goto
  <2>2. /\ counts'.emitted = counts.emitted /\ counts'.batches = counts.batches + 1
        /\ counts'.errors = counts.errors /\ counts'.failed = counts.failed
    BY <1>2, <2>1, CountersAdd
  <2>3. t \in Live'
    BY <2>1 DEF Live
  <2> QED
    BY <1>2, <1>3, <2>1, <2>2, <2>3 DEF Uncounted
<1>7. CASE ConsumerReturns(t) \/ ConsumerRaises(t)
  <2>1. /\ tpc[t] = "call" /\ tpc'[t] = "count" /\ work' = work
        /\ runHanded' = runHanded + n
        /\ \/ counts' = counts
           \/ counts' = [counts EXCEPT !.errors = @ + 1, !.failed = @ + n]
    BY <1>2, <1>7 DEF ConsumerReturns, ConsumerRaises, HandOver, Goto, n
  <2>2. /\ counts'.emitted = counts.emitted /\ counts'.batches = counts.batches
        /\ counts'.errors <= counts.errors + 1 /\ counts'.errors \in Nat
        /\ counts'.failed <= counts.failed + n /\ counts'.failed \in Nat
    <3>1. CASE counts' = counts
      BY <1>2, <3>1
    <3>2. CASE counts' = [counts EXCEPT !.errors = @ + 1, !.failed = @ + n]
      <4> DEFINE more == [counts EXCEPT !.errors = @ + 1, !.failed = @ + n]
      <4>1. /\ more.emitted = counts.emitted /\ more.batches = counts.batches
            /\ more.errors = counts.errors + 1 /\ more.failed = counts.failed + n
        BY <1>2, CountersAdd
      <4>2. counts' = more
        BY <3>2
      <4> HIDE DEF more
      <4> QED
        BY <1>2, <4>1, <4>2
    <3> QED
      BY <2>1, <3>1, <3>2
  <2>3. Uncounted(t)' = n /\ Uncounted(t) = 0
    BY <2>1 DEF Uncounted, n
  <2>4. t \in Live'
    BY <2>1 DEF Live
  <2> QED
    BY <1>2, <1>3, <2>1, <2>2, <2>3, <2>4
<1>8. CASE EmitEnd(t)
  <2>1. /\ tpc[t] = "count" /\ tpc'[t] \in {"advance", "due"} /\ runHanded' = runHanded
        /\ counts' = [counts EXCEPT !.emitted = @ + n]
    BY <1>2, <1>8 DEF EmitEnd, Goto, n
  <2>2. /\ counts'.emitted = counts.emitted + n /\ counts'.batches = counts.batches
        /\ counts'.errors = counts.errors /\ counts'.failed = counts.failed
    BY <1>2, <2>1, CountersAdd
  <2>3. Uncounted(t) = n /\ Uncounted(t)' = 0
    BY <2>1 DEF Uncounted, n
  <2> QED
    BY <1>2, <1>3, <2>1, <2>2, <2>3
<1> QED
  BY <1>5, <1>6, <1>7, <1>8 DEF ThreadStep

\* Every step keeps the account; start() opens a new one.
LEMMA AccountStep ==
    TypeOK /\ LaunchInv /\ SingleReplayThread /\ AccountInv /\ [Next]_vars => AccountInv'
<1> SUFFICES ASSUME TypeOK, LaunchInv, SingleReplayThread, AccountInv, [Next]_vars, ~detached'
             PROVE  AccountInv'
  BY DEF AccountInv
<1> USE DEF engineVars, threadVars, callerVars, injectVars, history
<1>1. ASSUME UNCHANGED <<tpc, work, counts, runHanded>>, ~detached
      PROVE  AccountInv'
  <2>1. Live' = Live /\ \A t : Uncounted(t)' = Uncounted(t)
    BY <1>1 DEF Live, Uncounted
  <2> QED
    BY <1>1, <2>1 DEF AccountInv
<1>2. ASSUME NEW t \in Threads, ThreadStep(t)  PROVE AccountInv'
  BY <1>2, ThreadStepFrame, AccountThreadStep
<1>3. ASSUME NEW c \in Controllers, ControllerStep(c)  PROVE AccountInv'
  <2>1. ASSUME NEW n \in 0 .. MaxFlows, NEW loop \in BOOLEAN, Start(c, n, loop)
        PROVE  AccountInv'
    <3>1. Live = {}
      BY <2>1 DEF Start, MayStart, SingleReplayThread
    <3>2. /\ tpc' = [tpc EXCEPT ![starts'] = "created"]
          /\ counts' = ZeroCounts /\ runHanded' = 0
      BY <2>1 DEF Start
    <3>3. \A t \in Live' : tpc'[t] = "created"
      BY <3>1, <3>2 DEF Live, TypeOK
    <3> QED
      BY <3>2, <3>3 DEF AccountInv, Uncounted, ZeroCounts
  <2>2. CASE Launch(c)
    <3>1. /\ handle[c] \in Threads /\ tpc[handle[c]] = "created"
          /\ tpc' = [tpc EXCEPT ![handle[c]] = "check"]
          /\ UNCHANGED <<work, counts, runHanded, detached>>
      BY <2>2 DEF Launch, Goto, LaunchInv
    <3>2. /\ Live' = Live
          /\ \A t \in Live : Uncounted(t)' = Uncounted(t) /\ (tpc'[t] = "call" => tpc[t] = "call")
      BY <3>1 DEF Live, Uncounted, TypeOK
    <3> QED
      BY <3>1, <3>2 DEF AccountInv
  <2>3. CASE StopIdle(c) \/ StopBegin(c) \/ JoinRaises(c) \/ JoinReturns(c) \/ JoinTimesOut(c)
             \/ StopEnd(c)
    <3>1. UNCHANGED <<tpc, work, counts, runHanded>> /\ ~detached
      BY <2>3 DEF StopIdle, StopBegin, JoinRaises, JoinReturns, JoinTimesOut, StopEnd, TypeOK
    <3> QED
      BY <1>1, <3>1
  <2> QED
    BY <1>3, <2>1, <2>2, <2>3 DEF ControllerStep
<1>4. ASSUME NEW i \in Injectors, InjectorStep(i)  PROVE AccountInv'
  BY <1>1, <1>4 DEF InjectorStep, InjectAdmit, InjectEnqueue, InjectRefused
<1>5. CASE UNCHANGED vars
  BY <1>1, <1>5 DEF vars
<1> QED
  BY <1>2, <1>3, <1>4, <1>5 DEF Next

-----------------------------------------------------------------------------
(* The injected flows *)

\* A sequence of accepted flows in order; one whose flows all come before those
\* of another; one whose flows were all accepted.
Increasing(s) == \A i, j \in 1 .. Len(s) : i < j => s[i] < s[j]
Before(s, q) == \A i \in 1 .. Len(s), j \in 1 .. Len(q) : s[i] < q[j]
Accepted(s) == \A i \in 1 .. Len(s) : s[i] <= accepted

\* The injected batch between the buffer and the consumer.
Flight ==
    IF thread \in Threads /\ tpc[thread] \in {"emit", "call"}
          /\ work[thread].origin = "injected"
      THEN work[thread].items ELSE <<>>

\* Handed over, on the way, queued: three stretches of one increasing sequence of
\* accepted flows.  A start() may cut the last two, never reorder them.
OrderInv ==
    ~detached =>
        /\ Increasing(injHanded) /\ Increasing(Flight) /\ Increasing(queue)
        /\ Before(injHanded, Flight) /\ Before(injHanded, queue) /\ Before(Flight, queue)
        /\ Accepted(injHanded) /\ Accepted(Flight) /\ Accepted(queue)

\* The empty sequence fits anywhere.
LEMMA EmptyOrdered ==
    ASSUME NEW s
    PROVE  Increasing(<<>>) /\ Before(<<>>, s) /\ Before(s, <<>>) /\ Accepted(<<>>)
<1>1. \A i \in 1 .. Len(<<>>) : FALSE
  BY EmptySeq
<1> QED
  BY <1>1 DEF Increasing, Before, Accepted

\* Elements of a concatenation come from its two parts.
LEMMA ConcatParts ==
    ASSUME NEW s \in Seq(Nat), NEW q \in Seq(Nat), NEW i \in 1 .. Len(s \o q)
    PROVE  /\ i \in 1 .. Len(s) \/ i - Len(s) \in 1 .. Len(q)
           /\ i \in 1 .. Len(s) => (s \o q)[i] = s[i]
           /\ i \notin 1 .. Len(s) => (s \o q)[i] = q[i - Len(s)]
<1>1. Len(s) \in Nat /\ Len(q) \in Nat /\ i \in Nat /\ 1 <= i
  BY LenProperties
<1>2. Len(s \o q) = Len(s) + Len(q)
  BY ConcatProperties
<1>3. i \in 1 .. Len(s) + Len(q)
  BY <1>2
<1>4. (s \o q)[i] = IF i <= Len(s) THEN s[i] ELSE q[i - Len(s)]
  BY <1>3, ConcatProperties
<1> QED
  BY <1>1, <1>3, <1>4

\* Two ordered stretches make one.
LEMMA ConcatIncreasing ==
    ASSUME NEW s \in Seq(Nat), NEW q \in Seq(Nat),
           Increasing(s), Increasing(q), Before(s, q)
    PROVE  Increasing(s \o q)
<1> SUFFICES ASSUME NEW i \in 1 .. Len(s \o q), NEW j \in 1 .. Len(s \o q), i < j
             PROVE  (s \o q)[i] < (s \o q)[j]
  BY DEF Increasing
<1>1. Len(s) \in Nat /\ i \in Nat /\ j \in Nat /\ 1 <= i /\ 1 <= j
  BY LenProperties
<1>2. CASE j \in 1 .. Len(s)
  <2>1. i \in 1 .. Len(s)
    BY <1>1, <1>2
  <2> QED
    BY <1>2, <2>1, ConcatParts DEF Increasing
<1>3. CASE j \notin 1 .. Len(s) /\ i \in 1 .. Len(s)
  BY <1>3, ConcatParts DEF Before
<1>4. CASE j \notin 1 .. Len(s) /\ i \notin 1 .. Len(s)
  <2>1. i - Len(s) \in 1 .. Len(q) /\ j - Len(s) \in 1 .. Len(q)
    BY <1>4, ConcatParts
  <2>2. i - Len(s) < j - Len(s)
    BY <1>1
  <2>3. q[i - Len(s)] < q[j - Len(s)]
    BY <2>1, <2>2 DEF Increasing
  <2> QED
    BY <1>4, <2>3, ConcatParts
<1> QED
  BY <1>2, <1>3, <1>4

\* What comes before or after both stretches comes before or after the whole.
LEMMA ConcatBefore ==
    ASSUME NEW s \in Seq(Nat), NEW q \in Seq(Nat), NEW r \in Seq(Nat)
    PROVE  /\ Before(s, r) /\ Before(q, r) => Before(s \o q, r)
           /\ Before(r, s) /\ Before(r, q) => Before(r, s \o q)
           /\ Accepted(s) /\ Accepted(q) => Accepted(s \o q)
<1>1. ASSUME Before(s, r), Before(q, r), NEW i \in 1 .. Len(s \o q), NEW j \in 1 .. Len(r)
      PROVE  (s \o q)[i] < r[j]
  BY <1>1, ConcatParts DEF Before
<1>2. ASSUME Before(r, s), Before(r, q), NEW i \in 1 .. Len(r), NEW j \in 1 .. Len(s \o q)
      PROVE  r[i] < (s \o q)[j]
  BY <1>2, ConcatParts DEF Before
<1>3. ASSUME Accepted(s), Accepted(q), NEW i \in 1 .. Len(s \o q)
      PROVE  (s \o q)[i] <= accepted
  BY <1>3, ConcatParts DEF Accepted
<1> QED
  BY <1>1, <1>2, <1>3 DEF Before, Accepted

\* Nothing was injected at first.
LEMMA OrderInit == Init => OrderInv
<1> SUFFICES ASSUME Init PROVE OrderInv
  OBVIOUS
<1>1. injHanded = <<>> /\ Flight = <<>> /\ queue = <<>>
  BY DEF Init, Flight, Threads, NoThread
<1> QED
  BY <1>1, EmptyOrdered DEF OrderInv

\* A step that leaves the three stretches as they are keeps the order.
LEMMA OrderFrame ==
    ASSUME OrderInv, ~detached, UNCHANGED <<injHanded, queue, accepted>>,
           Flight' = Flight \/ Flight' = <<>>
    PROVE  OrderInv'
<1>1. CASE Flight' = Flight
  BY <1>1 DEF OrderInv, Increasing, Before, Accepted
<1>2. CASE Flight' = <<>>
  BY <1>2, EmptyOrdered DEF OrderInv, Increasing, Before, Accepted
<1> QED
  BY <1>1, <1>2

\* The one thread takes the whole buffer, and hands over what it took.
LEMMA OrderThreadStep ==
    ASSUME TypeOK, SingleReplayThread, OrderInv, ~detached,
           NEW t \in Threads, ThreadStep(t)
    PROVE  OrderInv'
<1> USE DEF engineVars, threadVars, callerVars, injectVars, history
<1>1. /\ t = thread /\ thread' = thread
      /\ tpc \in [Threads -> ThreadStates] /\ work \in [Threads -> Batches]
      /\ injHanded \in Seq(Nat) /\ queue \in Seq(Nat) /\ work[t].items \in Seq(Nat)
      /\ work[t].origin \in {"injected", "replay"}
  BY ThreadStepFrame, BatchFields DEF SingleReplayThread, TypeOK
<1>2. CASE Drain(t) /\ queue # <<>>
  <2>1. /\ tpc[t] = "drain" /\ tpc'[t] = "emit" /\ work'[t] = InjectedBatch(queue)
        /\ queue' = <<>> /\ UNCHANGED <<injHanded, accepted>>
    BY <1>1, <1>2 DEF Drain, Goto
  <2>2. Flight' = queue
    BY <1>1, <2>1 DEF Flight, InjectedBatch
  <2>3. /\ Increasing(injHanded)' /\ Increasing(Flight)' /\ Before(injHanded, Flight)'
        /\ Accepted(injHanded)' /\ Accepted(Flight)'
    BY <2>1, <2>2 DEF OrderInv, Increasing, Before, Accepted
  <2>4. /\ Increasing(queue)' /\ Before(injHanded, queue)' /\ Before(Flight, queue)'
        /\ Accepted(queue)'
    BY <2>1, EmptyOrdered DEF Increasing, Before, Accepted
  <2> QED
    BY <2>3, <2>4 DEF OrderInv
<1>3. CASE (ConsumerReturns(t) \/ ConsumerRaises(t)) /\ work[t].origin = "injected"
  <2>1. /\ tpc[t] = "call" /\ tpc'[t] = "count"
        /\ injHanded' = injHanded \o work[t].items /\ UNCHANGED <<queue, accepted>>
    BY <1>1, <1>3 DEF ConsumerReturns, ConsumerRaises, HandOver, Goto
  <2>2. Flight = work[t].items /\ Flight' = <<>>
    BY <1>1, <1>3, <2>1 DEF Flight
  <2> DEFINE joined == injHanded \o Flight
  <2>3. Increasing(joined) /\ Before(joined, queue) /\ Accepted(joined)
    BY <1>1, <2>2, ConcatIncreasing, ConcatBefore DEF OrderInv
  <2>4. injHanded' = joined
    BY <2>1, <2>2
  <2> HIDE DEF joined
  <2>5. /\ Increasing(injHanded)' /\ Before(injHanded, queue)' /\ Accepted(injHanded)'
        /\ Increasing(queue)' /\ Accepted(queue)'
    BY <2>1, <2>3, <2>4 DEF OrderInv, Increasing, Before, Accepted
  <2>6. /\ Increasing(Flight)' /\ Before(injHanded, Flight)' /\ Before(Flight, queue)'
        /\ Accepted(Flight)'
    BY <2>2, EmptyOrdered DEF Increasing, Before, Accepted
  <2> QED
    BY <2>5, <2>6 DEF OrderInv
<1>4. CASE (ConsumerReturns(t) \/ ConsumerRaises(t)) /\ work[t].origin = "replay"
  <2>1. tpc'[t] = "count" /\ UNCHANGED <<injHanded, queue, accepted>>
    BY <1>1, <1>4 DEF ConsumerReturns, ConsumerRaises, HandOver, Goto
  <2>2. Flight' = <<>>
    BY <1>1, <2>1 DEF Flight
  <2> QED
    BY <2>1, <2>2, OrderFrame
<1>5. CASE EmitBegin(t)
  <2>1. /\ tpc[t] = "emit" /\ tpc'[t] = "call" /\ work' = [work EXCEPT ![t].session = session]
        /\ UNCHANGED <<injHanded, queue, accepted>>
    BY <1>1, <1>5 DEF EmitBegin, Goto
  <2>2. work'[t].origin = work[t].origin /\ work'[t].items = work[t].items
    <3>1. work[t] \in Batches
      BY <1>1
    <3> QED
      BY <1>1, <2>1, <3>1 DEF Batches
  <2>3. Flight' = Flight
    BY <1>1, <2>1, <2>2 DEF Flight
  <2> QED
    BY <2>1, <2>3, OrderFrame
<1>6. ASSUME NEW idx \in 1 .. flows, SomeDue(t, idx)
      PROVE  OrderInv'
  <2>1. work'[t].origin = "replay" /\ UNCHANGED <<injHanded, queue, accepted>>
    BY <1>1, <1>6, CappedBatchType DEF SomeDue
  <2>2. Flight' = <<>>
    BY <1>1, <2>1 DEF Flight
  <2> QED
    BY <2>1, <2>2, OrderFrame
<1>7. CASE Check(t) \/ (Drain(t) /\ queue = <<>>) \/ NothingDue(t) \/ EmitEnd(t)
           \/ Advance(t) \/ Exhaust(t) \/ NewLoop(t) \/ Finish(t)
  <2>1. tpc'[t] \notin {"emit", "call"} /\ UNCHANGED <<injHanded, queue, accepted>>
    <3>1. CASE Check(t) \/ (Drain(t) /\ queue = <<>>) \/ NothingDue(t) \/ EmitEnd(t)
      <4>1. tpc'[t] \notin {"emit", "call"} \/ (tpc'[t] = LoopHead)
        BY <1>1, <3>1 DEF Check, Drain, NothingDue, EmitEnd, Goto
      <4> QED
        BY <3>1, <4>1 DEF Check, Drain, NothingDue, EmitEnd, LoopHead
    <3>2. CASE Advance(t) \/ Exhaust(t) \/ NewLoop(t) \/ Finish(t)
      BY <1>1, <3>2 DEF Advance, Exhaust, NewLoop, Finish, LoopTail, Goto
    <3> QED
      BY <1>7, <3>1, <3>2
  <2>2. Flight' = <<>>
    BY <1>1, <2>1 DEF Flight
  <2> QED
    BY <2>1, <2>2, OrderFrame
<1> QED
  BY <1>1, <1>2, <1>3, <1>4, <1>5, <1>6, <1>7 DEF ThreadStep

\* Accepting n more flows appends the next n numbers to the buffer.
LEMMA OrderEnqueue ==
    ASSUME TypeOK, OrderInv, ~detached, NEW i \in Injectors, NEW n \in 1 .. QueueMax + 1,
           InjectEnqueue(i, n)
    PROVE  OrderInv'
<1> USE DEF engineVars, threadVars, callerVars, injectVars, history
<1> DEFINE more == Slice(accepted, accepted + n)
<1>1. /\ accepted \in Nat /\ n \in Nat /\ accepted + n \in Nat
      /\ accepted <= accepted + n /\ (accepted + n) - accepted = n
  BY BoundsAssumption DEF TypeOK
<1>2. /\ more \in Seq(Nat) /\ Len(more) = n
      /\ \A k \in 1 .. n : more[k] = accepted + k
  <2>1. \A k \in 1 .. ((accepted + n) - accepted) : more[k] = accepted + k
    BY <1>1, SliceType
  <2> QED
    BY <1>1, <2>1, SliceType
<1>3. injHanded \in Seq(Nat) /\ queue \in Seq(Nat) /\ Flight \in Seq(Nat)
  <2>1. <<>> \in Seq(Nat)
    BY EmptySeq
  <2> QED
    BY <2>1, BatchFields DEF TypeOK, Flight
<1>4. /\ queue' = queue \o more /\ accepted' = accepted + n
      /\ injHanded' = injHanded /\ Flight' = Flight
  BY DEF InjectEnqueue, Appended, Flight
<1> HIDE DEF more
<1>5. Increasing(more) /\ \A k \in 1 .. Len(more) : accepted < more[k] /\ more[k] <= accepted + n
  BY <1>1, <1>2 DEF Increasing
<1>6. \A s \in Seq(Nat) : Accepted(s) => Before(s, more)
  <2> SUFFICES ASSUME NEW s \in Seq(Nat), Accepted(s), NEW k \in 1 .. Len(s),
                      NEW j \in 1 .. Len(more)
               PROVE  s[k] < more[j]
    BY DEF Before
  <2>1. s[k] \in Nat /\ more[j] \in Nat
    BY <1>2, ElementOfSeq
  <2>2. s[k] <= accepted /\ accepted < more[j]
    BY <1>5 DEF Accepted
  <2> QED
    BY <1>1, <2>1, <2>2
<1>7. \A s \in Seq(Nat) : Accepted(s) => \A k \in 1 .. Len(s) : s[k] <= accepted + n
  <2> SUFFICES ASSUME NEW s \in Seq(Nat), Accepted(s), NEW k \in 1 .. Len(s)
               PROVE  s[k] <= accepted + n
    OBVIOUS
  <2>1. s[k] \in Nat /\ s[k] <= accepted
    BY ElementOfSeq DEF Accepted
  <2> QED
    BY <1>1, <2>1
<1> DEFINE longer == queue \o more
<1>8. Increasing(longer) /\ Before(injHanded, longer) /\ Before(Flight, longer)
  BY <1>2, <1>3, <1>5, <1>6, ConcatIncreasing, ConcatBefore DEF OrderInv
<1>9. \A k \in 1 .. Len(longer) : longer[k] <= accepted + n
  <2> SUFFICES ASSUME NEW k \in 1 .. Len(longer)  PROVE longer[k] <= accepted + n
    OBVIOUS
  <2>1. CASE k \in 1 .. Len(queue)
    BY <1>2, <1>3, <1>7, <2>1, ConcatParts DEF OrderInv
  <2>2. CASE k \notin 1 .. Len(queue)
    BY <1>2, <1>3, <1>5, <2>2, ConcatParts
  <2> QED
    BY <2>1, <2>2
<1>10. queue' = longer
  BY <1>4
<1> HIDE DEF longer
<1>11. /\ Increasing(queue)' /\ Before(injHanded, queue)' /\ Before(Flight, queue)'
       /\ Accepted(queue)'
  BY <1>4, <1>8, <1>9, <1>10 DEF Increasing, Before, Accepted
<1>12. Accepted(injHanded)' /\ Accepted(Flight)'
  BY <1>3, <1>4, <1>7 DEF OrderInv, Accepted
<1>13. Increasing(injHanded)' /\ Increasing(Flight)' /\ Before(injHanded, Flight)'
  BY <1>4 DEF OrderInv, Increasing, Before
<1> QED
  BY <1>11, <1>12, <1>13 DEF OrderInv

\* Every step keeps the injected flows in order.
LEMMA OrderStep ==
    TypeOK /\ LaunchInv /\ SingleReplayThread /\ OrderInv /\ [Next]_vars => OrderInv'
<1> SUFFICES ASSUME TypeOK, LaunchInv, SingleReplayThread, OrderInv, [Next]_vars, ~detached'
             PROVE  OrderInv'
  BY DEF OrderInv
<1> USE DEF engineVars, threadVars, callerVars, injectVars, history
<1>1. ASSUME NEW t \in Threads, ThreadStep(t)  PROVE OrderInv'
  BY <1>1, ThreadStepFrame, OrderThreadStep
<1>2. ASSUME NEW c \in Controllers, ControllerStep(c)  PROVE OrderInv'
  <2>1. ASSUME NEW n \in 0 .. MaxFlows, NEW loop \in BOOLEAN, Start(c, n, loop)
        PROVE  OrderInv'
    <3>1. /\ starts' \in Threads /\ thread' = starts'
          /\ tpc' = [tpc EXCEPT ![starts'] = "created"]
          /\ queue' = <<>> /\ UNCHANGED <<injHanded, accepted, detached>>
      BY <2>1, BoundsAssumption DEF Start, TypeOK, Threads
    <3>2. Flight' = <<>>
      BY <3>1 DEF Flight, TypeOK
    <3>3. Increasing(injHanded)' /\ Accepted(injHanded)'
      BY <3>1 DEF OrderInv, Increasing, Accepted
    <3>4. /\ Increasing(Flight)' /\ Increasing(queue)' /\ Accepted(Flight)' /\ Accepted(queue)'
          /\ Before(injHanded, Flight)' /\ Before(injHanded, queue)' /\ Before(Flight, queue)'
      BY <3>1, <3>2, EmptyOrdered DEF Increasing, Before, Accepted
    <3> QED
      BY <3>3, <3>4 DEF OrderInv
  <2>2. CASE Launch(c)
    <3>1. /\ handle[c] \in Threads /\ tpc[handle[c]] = "created"
          /\ tpc' = [tpc EXCEPT ![handle[c]] = "check"]
          /\ UNCHANGED <<thread, work, injHanded, queue, accepted, detached>>
      BY <2>2 DEF Launch, Goto, LaunchInv
    <3>2. Flight' = Flight
      BY <3>1 DEF Flight, TypeOK
    <3> QED
      BY <3>1, <3>2, OrderFrame
  <2>3. CASE StopIdle(c) \/ StopBegin(c) \/ JoinRaises(c) \/ JoinReturns(c) \/ JoinTimesOut(c)
             \/ StopEnd(c)
    <3>1. /\ UNCHANGED <<tpc, work, injHanded, queue, accepted>> /\ ~detached
          /\ thread' = thread \/ thread' = NoThread
      BY <2>3 DEF StopIdle, StopBegin, JoinRaises, JoinReturns, JoinTimesOut, StopEnd, TypeOK
    <3>2. Flight' = Flight \/ Flight' = <<>>
      BY <3>1 DEF Flight, NoThread, Threads
    <3> QED
      BY <3>1, <3>2, OrderFrame
  <2> QED
    BY <1>2, <2>1, <2>2, <2>3 DEF ControllerStep
<1>3. ASSUME UNCHANGED <<thread, tpc, work, injHanded, queue, accepted, detached>>
      PROVE  OrderInv'
  <2>1. Flight' = Flight
    BY <1>3 DEF Flight
  <2> QED
    BY <1>3, <2>1, OrderFrame
<1>4. ASSUME NEW i \in Injectors, InjectorStep(i)  PROVE OrderInv'
  <2>1. ~detached
    BY <1>4 DEF InjectorStep, InjectAdmit, InjectEnqueue, InjectRefused
  <2>2. ASSUME NEW n \in 1 .. QueueMax + 1, InjectEnqueue(i, n)  PROVE OrderInv'
    BY <2>1, <2>2, OrderEnqueue
  <2>3. CASE InjectAdmit(i) \/ \E n \in 1 .. QueueMax + 1 : InjectRefused(i, n)
    BY <1>3, <2>3 DEF InjectAdmit, InjectRefused
  <2> QED
    BY <1>4, <2>2, <2>3 DEF InjectorStep
<1>5. CASE UNCHANGED vars
  BY <1>3, <1>5 DEF vars
<1> QED
  BY <1>1, <1>2, <1>4, <1>5 DEF Next

-----------------------------------------------------------------------------
(* The theorems *)

\* The inductive invariant.
IInv ==
    /\ TypeOK /\ LaunchInv /\ SingleReplayThread /\ RunInv /\ StreamInv /\ PromptInv
    /\ AliveInv /\ ToldInv /\ AccountInv /\ OrderInv

\* The inductive invariant holds in every reachable state.
LEMMA Invariance == Spec => []IInv
<1>1. Init => IInv
  BY TypeInit, LaunchInit, SingleInit, StreamInit, PromptInit, AliveInit, ToldInit,
     AccountInit, OrderInit DEF IInv
<1>2. IInv /\ [Next]_vars => IInv'
  BY TypeStep, LaunchStep, SingleStep, StreamStep, PromptStep, AliveStep, ToldStep,
     AccountStep, OrderStep DEF IInv
<1> QED
  BY <1>1, <1>2, PTL DEF Spec

\* At most one replay thread, the published one, as long as no stop() returned
\* over a living thread.
THEOREM SingleThread == Spec => []SingleReplayThread
<1>1. IInv => SingleReplayThread
  BY DEF IInv
<1> QED
  BY <1>1, Invariance, PTL

\* Each session's flows reach the consumer once each, in order, without a gap, as
\* long as no stop() returned over a living thread.
THEOREM Gapless == Spec => []GaplessStream
<1>1. IInv => GaplessStream
  <2> SUFFICES ASSUME IInv, ~detached, NEW s \in Sessions
               PROVE  handed[s] = Slice(0, Len(handed[s]))
    BY DEF GaplessStream
  <2>1. /\ s < session => handed[s] = Slice(0, Len(handed[s]))
        /\ s = session => handed[s] = Slice(0, Position)
        /\ s > session => handed[s] = <<>>
    BY DEF IInv, StreamInv, SessionsInv
  <2>2. s \in Nat /\ session \in Nat /\ Position \in Nat /\ 0 <= Position
    BY BatchFields, BoundsAssumption DEF IInv, TypeOK, Position, Sessions
  <2>3. Len(Slice(0, Position)) = Position /\ Slice(0, 0) = <<>>
    <3>1. 0 \in Nat /\ Position - 0 = Position
      BY <2>2
    <3> QED
      BY <2>2, <3>1, SliceType, SliceEmpty
  <2>4. Len(<<>>) = 0
    BY EmptySeq
  <2> QED
    BY <2>1, <2>2, <2>3, <2>4
<1> QED
  BY <1>1, Invariance, PTL

\* An engine that ends without a stop() has handed over its whole schedule.
THEOREM NaturalEnd == Spec => NaturalEndIsComplete
<1>1. IInv /\ [Next]_vars
        => [running /\ ~running' /\ thread' = thread /\ ~detached
              => Len(handed[session]) = flows]_vars
  <2> SUFFICES ASSUME IInv, [Next]_vars, running, ~running', thread' = thread, ~detached
               PROVE  Len(handed[session]) = flows
    OBVIOUS
  <2> USE DEF engineVars, threadVars, callerVars, injectVars, history
  <2>1. thread # NoThread
    BY BoundsAssumption DEF IInv, RunInv, Threads, NoThread
  <2>2. PICK t \in Threads : ThreadStep(t)
    <3>1. ~(UNCHANGED vars) /\ \A i \in Injectors : ~InjectorStep(i)
      BY DEF vars, InjectorStep, InjectAdmit, InjectEnqueue, InjectRefused
    <3>2. \A c \in Controllers : ~ControllerStep(c)
      <4> SUFFICES ASSUME NEW c \in Controllers, ControllerStep(c)  PROVE FALSE
        OBVIOUS
      <4>1. ASSUME NEW n \in 0 .. MaxFlows, NEW loop \in BOOLEAN, Start(c, n, loop)
            PROVE  FALSE
        BY <4>1 DEF Start
      <4> QED
        BY <2>1, <4>1 DEF ControllerStep, Launch, StopIdle, StopBegin, JoinRaises,
            JoinReturns, JoinTimesOut, StopEnd
    <3> QED
      BY <3>1, <3>2 DEF Next
  <2>3. tpc[t] = "ended" /\ t \in Live /\ t = thread
    <3>1. t \in Live /\ t = thread
      BY <2>2, ThreadStepFrame DEF IInv, SingleReplayThread
    <3>2. tpc[t] = "ended"
      BY <2>2 DEF ThreadStep, Check, Drain, NothingDue, SomeDue, EmitBegin, ConsumerReturns,
          ConsumerRaises, EmitEnd, Advance, Exhaust, NewLoop, Finish
    <3> QED
      BY <3>1, <3>2
  <2>4. pointer = flows /\ session \in Sessions /\ Position = pointer
    BY <2>3 DEF IInv, StreamInv, BatchInv, Position, AheadOfPointer
  <2>5. handed[session] = Slice(0, flows)
    BY <2>4 DEF IInv, StreamInv, SessionsInv
  <2>6. flows \in Nat /\ 0 <= flows /\ flows - 0 = flows /\ 0 \in Nat
    BY BoundsAssumption DEF IInv, TypeOK
  <2> QED
    BY <2>5, <2>6, SliceType
<1> QED
  BY <1>1, Invariance, PTL DEF Spec, NaturalEndIsComplete

\* After stop() set the event, the consumer is called at most twice more, once
\* with an injected and once with a scheduled batch.
THEOREM StopPrompt == Spec => []StopIsPrompt
<1>1. IInv => StopIsPrompt
  BY DEF IInv, PromptInv, StopIsPrompt
<1> QED
  BY <1>1, Invariance, PTL

\* An engine that says it is running has a thread that lives, unless a stop() of
\* this run is under way or was ended by the exception of its join().
THEOREM RunningReplays == Spec => []RunningHasThread
<1>1. IInv => RunningHasThread
  BY DEF IInv, AliveInv, ToldInv, RunningHasThread
<1> QED
  BY <1>1, Invariance, PTL

\* The counters of status() account for every flow handed over in this run, as
\* long as no stop() returned over a living thread.
THEOREM CountersAccount == Spec => []CountersAgree
<1>1. IInv => CountersAgree
  <2> SUFFICES ASSUME IInv, ~detached
               PROVE  \/ counts.emitted = runHanded
                      \/ \E t \in Live : /\ tpc[t] = "count"
                                         /\ counts.emitted + Len(work[t].items) = runHanded
    BY DEF IInv, AccountInv, CountersAgree
  <2>1. CASE Live = {}
    BY <2>1 DEF IInv, AccountInv
  <2>2. ASSUME NEW t \in Live, tpc[t] # "count"
        PROVE  counts.emitted = runHanded
    <3>1. counts.emitted \in Nat /\ 0 \in Nat
      BY CountersAdd DEF IInv
    <3>2. counts.emitted + 0 = runHanded
      BY <2>2 DEF IInv, AccountInv, Uncounted
    <3> QED
      BY <3>1, <3>2
  <2>3. ASSUME NEW t \in Live, tpc[t] = "count"
        PROVE  counts.emitted + Len(work[t].items) = runHanded
    BY <2>3 DEF IInv, AccountInv, Uncounted
  <2> QED
    BY <2>1, <2>2, <2>3
<1> QED
  BY <1>1, Invariance, PTL

\* Accepted injected flows reach the consumer at most once, in the order of their
\* acceptance, as long as no stop() returned over a living thread.
THEOREM InjectedInOrder == Spec => []InjectedOnceInOrder
<1>1. IInv => InjectedOnceInOrder
  <2> SUFFICES ASSUME IInv, ~detached  PROVE Increasing(injHanded \o queue)
    BY DEF InjectedOnceInOrder, Increasing
  <2>1. injHanded \in Seq(Nat) /\ queue \in Seq(Nat)
    BY DEF IInv, TypeOK
  <2> QED
    BY <2>1, ConcatIncreasing DEF IInv, OrderInv
<1> QED
  BY <1>1, Invariance, PTL

=============================================================================
