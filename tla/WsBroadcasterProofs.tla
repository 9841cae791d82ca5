-------------------------- MODULE WsBroadcasterProofs --------------------------
(***************************************************************************)
(* Proofs about WsBroadcaster, for any number of clients and publishers and *)
(* every queue bound:                                                       *)
(*   - TypeCorrect: the type invariant;                                      *)
(*   - NewestQueued: a queue is always the newest part of what its client    *)
(*     was offered;                                                          *)
(*   - GreetingFirst, OrderKept: what a socket is handed starts with the     *)
(*     greeting and keeps each publisher's order;                            *)
(*   - WritersEnd: no writer outlives its client's registration;            *)
(*   - Accounted: every envelope is sent, counted as lost, or still held.   *)
(***************************************************************************)
EXTENDS WsBroadcaster, TLAPS, WellFoundedInduction, FiniteSetTheorems, SequenceTheorems

\* The step of a client that changes neither what is queued nor what is on a wire.
Aside(c) ==
    \/ Connect(c) \/ AcceptFails(c) \/ HelloEnds(c) \/ Leave(c) \/ Sent(c) \/ SendFails(c)
    \/ CloseSocket(c) \/ CloseClient(c)
    \/ \E state \in {"up", "stalled", "down"} : SocketBecomes(c, state)

\* A step, by what it does to the queues and the wires.
LEMMA StepCases ==
    ASSUME [Next]_vars
    PROVE  \/ \E p \in Publishers : Publish(p)
           \/ Dispatch
           \/ \E c \in Clients : Register(c) \/ Take(c)
           \/ UNCHANGED <<publishVars, queue, history, wire>>
<1>1. ASSUME NEW c \in Clients, Aside(c)
      PROVE  UNCHANGED <<publishVars, queue, history, wire>>
  BY <1>1 DEF Aside, Connect, AcceptFails, HelloEnds, Leave, Sent, SendFails, CloseSocket,
     CloseClient, SocketBecomes, publishVars, history
<1>2. SetLoop \/ Shutdown \/ LoopCloses \/ UNCHANGED vars
          => UNCHANGED <<publishVars, queue, history, wire>>
  BY DEF SetLoop, Shutdown, LoopCloses, vars, publishVars, history
<1>. QED  BY <1>1, <1>2 DEF Next, ClientStep, Aside

-----------------------------------------------------------------------------
(* Types *)

LEMMA EnqueuedType ==
    ASSUME NEW c \in Clients, queue[c] \in Seq(Envelopes), Len(queue[c]) <= QueueMax,
           NEW e \in Envelopes
    PROVE  Enqueued(c, e) \in Seq(Envelopes) /\ Len(Enqueued(c, e)) <= QueueMax
<1>1. QueueMax \in Nat \ {0} /\ Len(queue[c]) \in Nat
  BY BroadcasterAssumption, LenProperties
<1>2. CASE Full(c)
  <2>1. queue[c] # <<>>
    BY <1>1, <1>2 DEF Full
  <2>2. Tail(queue[c]) \in Seq(Envelopes) /\ Len(Tail(queue[c])) = QueueMax - 1
    BY <1>2, <2>1, HeadTailProperties DEF Full
  <2>. QED  BY <1>1, <1>2, <2>2, AppendProperties DEF Enqueued
<1>3. CASE ~Full(c)
  BY <1>1, <1>3, AppendProperties DEF Enqueued, Full
<1>. QED  BY <1>2, <1>3

LEMMA HandedType ==
    ASSUME NEW c \in Clients, wire[c] \in Seq(Frames), NEW frame \in Frames
    PROVE  Handed(c, frame) \in Seq(Frames)
BY AppendProperties DEF Handed

LEMMA TypeStep ==
    ASSUME TypeOK, [Next]_vars
    PROVE  TypeOK'
<1>. USE DEF publishVars, counters, serverVars, history
<1>1. CASE UNCHANGED vars
  BY <1>1 DEF TypeOK, vars
<1>2. CASE SetLoop \/ Shutdown \/ LoopCloses
  BY <1>2 DEF TypeOK, SetLoop, Shutdown, LoopCloses
<1>3. ASSUME NEW p \in Publishers, Publish(p) PROVE TypeOK'
  <2>1. published[p] + 1 \in 1 .. MaxPublished
    BY <1>3, BroadcasterAssumption DEF TypeOK, Publish
  <2>2. published' \in [Publishers -> 0 .. MaxPublished] /\ published'[p] = published[p] + 1
    BY <1>3, <2>1, BroadcasterAssumption DEF TypeOK, Publish
  <2>3. <<p, published'[p]>> \in Envelopes
    BY <2>1, <2>2 DEF Envelopes
  <2>4. ready' \in Seq(Envelopes) /\ noLoop' \in Nat
    <3> DEFINE e == <<p, published'[p]>>
    <3>1. Append(ready, e) \in Seq(Envelopes)
      BY <2>3, AppendProperties DEF TypeOK
    <3>2. ready' = Append(ready, e) \/ ready' = ready
      BY <1>3 DEF Publish
    <3>3. noLoop' = noLoop \/ noLoop' = noLoop + 1
      BY <1>3 DEF Publish
    <3>4. ready \in Seq(Envelopes) /\ noLoop \in Nat
      BY DEF TypeOK
    <3> HIDE DEF e
    <3>5. ready' \in Seq(Envelopes)
      BY <3>1, <3>2, <3>4
    <3>. QED  BY <3>3, <3>4, <3>5
  <2>5. UNCHANGED <<loop, clients, queue, counters, route, writer, socket, serverVars,
                    history, wire>>
    BY <1>3 DEF Publish
  <2>. QED  BY <2>2, <2>4, <2>5 DEF TypeOK
<1>4. CASE Dispatch
  <2>1. Head(ready) \in Envelopes /\ Tail(ready) \in Seq(Envelopes)
    BY <1>4, HeadTailProperties DEF TypeOK, Dispatch
  <2>2. /\ queue' \in [Clients -> Seq(Envelopes)]
        /\ \A c \in Clients : Len(queue'[c]) <= QueueMax
    <3>1. ASSUME NEW c \in Clients
          PROVE  queue'[c] \in Seq(Envelopes) /\ Len(queue'[c]) <= QueueMax
      BY <1>4, <2>1, EnqueuedType DEF TypeOK, Dispatch
    <3>. QED  BY <1>4, <3>1 DEF Dispatch
  <2>3. offered' \in [Clients -> Seq(Envelopes)]
    BY <1>4, <2>1, AppendProperties DEF TypeOK, Dispatch
  <2>4. Cardinality({c \in clients : Full(c)}) \in Nat
    <3>1. {c \in clients : Full(c)} \subseteq Clients
      BY DEF TypeOK
    <3>. QED  BY <3>1, BroadcasterAssumption, FS_Subset, FS_CardinalityType
  <2>5. totalDropped' \in Nat /\ dispatched' \in Nat /\ dropped' \in [Clients -> Nat]
    BY <1>4, <2>4 DEF TypeOK, Dispatch
  <2>. QED  BY <1>4, <2>1, <2>2, <2>3, <2>5 DEF TypeOK, Dispatch
<1>5. ASSUME NEW c \in Clients, Register(c) PROVE TypeOK'
  <2>1. wire' \in [Clients -> Seq(Frames)]
    BY <1>5, HandedType DEF TypeOK, Register, Frames
  <2>. QED  BY <1>5, <2>1 DEF TypeOK, Register
<1>6. ASSUME NEW c \in Clients, Take(c) PROVE TypeOK'
  <2>1. Head(queue[c]) \in Frames /\ Tail(queue[c]) \in Seq(Envelopes)
        /\ Len(Tail(queue[c])) = Len(queue[c]) - 1
    BY <1>6, HeadTailProperties DEF TypeOK, Take, Frames
  <2>2. wire' \in [Clients -> Seq(Frames)]
    BY <1>6, <2>1, HandedType DEF TypeOK, Take
  <2>3. Len(Tail(queue[c])) <= QueueMax
    BY <2>1, BroadcasterAssumption, LenProperties DEF TypeOK
  <2>. QED  BY <1>6, <2>1, <2>2, <2>3 DEF TypeOK, Take
<1>7. ASSUME NEW c \in Clients, Aside(c) PROVE TypeOK'
  <2>1. CASE Connect(c) \/ AcceptFails(c) \/ HelloEnds(c)
    BY <2>1 DEF TypeOK, Connect, AcceptFails, HelloEnds
  <2>2. CASE Leave(c) \/ CloseClient(c)
    <3>1. clients' = clients \ {c} /\ writer' = Ended(c) /\ closing' \subseteq closing
      BY <2>2 DEF Leave, CloseClient
    <3>2. Ended(c) \in [Clients -> {"none", "waiting", "sending", "failed", "ended"}]
      BY DEF TypeOK, Ended
    <3>3. route' \in [Clients -> {"new", "accepting", "hello", "open", "gone"}]
      BY <2>2 DEF TypeOK, Leave, CloseClient
    <3>4. UNCHANGED <<loop, publishVars, queue, counters, socket, server, history, wire>>
      BY <2>2 DEF Leave, CloseClient
    <3>. QED  BY <3>1, <3>2, <3>3, <3>4 DEF TypeOK
  <2>3. CASE Sent(c) \/ SendFails(c)
    <3>1. writer' \in [Clients -> {"none", "waiting", "sending", "failed", "ended"}]
      BY <2>3 DEF TypeOK, Sent, SendFails
    <3>2. sent' \in [Clients -> Nat] /\ totalSent' \in Nat
      <4>1. sent' = [sent EXCEPT ![c] = @ + 1] \/ sent' = sent
        BY <2>3 DEF Sent, SendFails
      <4>2. totalSent' = totalSent + 1 \/ totalSent' = totalSent
        BY <2>3 DEF Sent, SendFails
      <4>. QED  BY <4>1, <4>2 DEF TypeOK
    <3>3. UNCHANGED <<loop, publishVars, clients, queue, dropped, totalDropped, route, socket,
                      serverVars, history, wire>>
      BY <2>3 DEF Sent, SendFails
    <3>. QED  BY <3>1, <3>2, <3>3 DEF TypeOK
  <2>4. CASE CloseSocket(c) \/ \E state \in {"up", "stalled", "down"} : SocketBecomes(c, state)
    BY <2>4 DEF TypeOK, CloseSocket, SocketBecomes
  <2>. QED  BY <1>7, <2>1, <2>2, <2>3, <2>4 DEF Aside
<1>. QED  BY <1>1, <1>2, <1>3, <1>4, <1>5, <1>6, <1>7 DEF Next, ClientStep, Aside

LEMMA InitType == Init => TypeOK
BY BroadcasterAssumption, EmptySeq DEF Init, TypeOK

\* Whatever happens, every variable has its type and no queue exceeds its bound.
THEOREM TypeCorrect == Spec => []TypeOK
<1>1. Init => TypeOK
  BY InitType
<1>2. TypeOK /\ [Next]_vars => TypeOK'
  BY TypeStep
<1>. QED  BY <1>1, <1>2, PTL DEF Spec

-----------------------------------------------------------------------------
(* The queues *)

\* By positions: s is what t ends with.
EndOf(s, t) ==
    /\ Len(s) <= Len(t)
    /\ \A i \in 1 .. Len(s) : s[i] = t[Len(t) - Len(s) + i]

\* The strengthening of QueueHoldsTheNewest.
QueueInv == \A c \in Clients : EndOf(queue[c], offered[c])

\* What stands at the end of a sequence is its suffix.
LEMMA SuffixByPositions ==
    ASSUME NEW S, NEW s \in Seq(S), NEW t \in Seq(S), EndOf(s, t)
    PROVE  IsSuffix(s, t)
<1>1. Len(s) \in Nat /\ Len(t) \in Nat
  BY LenProperties
<1>2. ASSUME NEW u \in Seq(S)
      PROVE  /\ Reverse(u) \in Seq(S) /\ Len(Reverse(u)) = Len(u)
             /\ \A i \in 1 .. Len(u) : Reverse(u)[i] = u[Len(u) - i + 1]
  <2>1. Len(u) \in Nat
    BY LenProperties
  <2>2. \A i \in 1 .. Len(u) : u[(Len(u) - i) + 1] \in S
    BY <2>1, ElementOfSeq
  <2>. QED  BY <2>1, <2>2 DEF Reverse
<1>3. ASSUME NEW i \in 1 .. Len(s) PROVE Reverse(s)[i] = Reverse(t)[i]
  <2>1. i \in 1 .. Len(t) /\ Len(s) - i + 1 \in 1 .. Len(s)
    BY <1>1 DEF EndOf
  <2>2. Reverse(s)[i] = s[Len(s) - i + 1] /\ Reverse(t)[i] = t[Len(t) - i + 1]
    BY <1>2, <2>1
  <2>3. Len(t) - Len(s) + (Len(s) - i + 1) = Len(t) - i + 1
    BY <1>1
  <2>. QED  BY <2>1, <2>2, <2>3 DEF EndOf
<1>4. SubSeq(Reverse(s), 1, Len(s)) = SubSeq(Reverse(t), 1, Len(s))
  BY <1>1, <1>2, <1>3 DEF EndOf
<1>. QED  BY <1>1, <1>2, <1>4 DEF IsSuffix, IsPrefix, EndOf

\* Positions from the end survive the loss of the first element.
LEMMA OneShorter ==
    ASSUME NEW a \in Nat, NEW b \in Nat, NEW k \in Nat, k = a - 1, NEW i \in 1 .. k
    PROVE  i + 1 \in 1 .. a /\ b - a + (i + 1) = b - k + i
OBVIOUS

LEMMA TailIsNewest ==
    ASSUME NEW S, NEW s \in Seq(S), s # <<>>, NEW t \in Seq(S), EndOf(s, t)
    PROVE  EndOf(Tail(s), t)
<1>. DEFINE r == Tail(s)
<1>1. /\ r \in Seq(S) /\ Len(r) = Len(s) - 1
      /\ \A i \in 1 .. Len(r) : r[i] = s[i + 1]
  BY HeadTailProperties
<1>. HIDE DEF r
<1>2. Len(r) \in Nat /\ Len(s) \in Nat /\ Len(t) \in Nat
  BY <1>1, LenProperties
<1>3. ASSUME NEW i \in 1 .. Len(r) PROVE r[i] = t[Len(t) - Len(r) + i]
  <2>1. i + 1 \in 1 .. Len(s) /\ Len(t) - Len(s) + (i + 1) = Len(t) - Len(r) + i
    BY <1>1, <1>2, OneShorter
  <2>. QED  BY <1>1, <2>1 DEF EndOf
<1>4. Len(r) <= Len(t)
  BY <1>1, <1>2 DEF EndOf
<1>. QED  BY <1>3, <1>4 DEF r, EndOf

\* An envelope offered goes to the end of the queue.
LEMMA AppendIsNewest ==
    ASSUME NEW S, NEW r \in Seq(S), NEW t \in Seq(S), NEW e \in S, EndOf(r, t)
    PROVE  EndOf(Append(r, e), Append(t, e))
<1>. DEFINE q == Append(r, e)
            o == Append(t, e)
<1>1. Len(r) \in Nat /\ Len(t) \in Nat
  BY LenProperties
<1>2. /\ Len(q) = Len(r) + 1 /\ Len(o) = Len(t) + 1
      /\ \A i \in 1 .. Len(r) : q[i] = r[i]
      /\ \A i \in 1 .. Len(t) : o[i] = t[i]
      /\ q[Len(r) + 1] = e /\ o[Len(t) + 1] = e
  BY AppendProperties
<1>. HIDE DEF q, o
<1>3. ASSUME NEW i \in 1 .. Len(q) PROVE q[i] = o[Len(o) - Len(q) + i]
  <2>1. CASE i = Len(r) + 1
    BY <1>1, <1>2, <2>1 DEF EndOf
  <2>2. CASE i \in 1 .. Len(r)
    <3>1. Len(o) - Len(q) + i = Len(t) - Len(r) + i /\ Len(t) - Len(r) + i \in 1 .. Len(t)
      BY <1>1, <1>2, <2>2 DEF EndOf
    <3>. QED  BY <1>2, <2>2, <3>1 DEF EndOf
  <2>. QED  BY <1>1, <1>2, <2>1, <2>2
<1>4. Len(q) <= Len(o)
  BY <1>1, <1>2 DEF EndOf
<1>. QED  BY <1>3, <1>4 DEF q, o, EndOf

LEMMA QueueStep ==
    ASSUME TypeOK, QueueInv, [Next]_vars
    PROVE  QueueInv'
<1>1. CASE Dispatch
  <2>1. Head(ready) \in Envelopes
    BY <1>1, HeadTailProperties DEF TypeOK, Dispatch
  <2>. SUFFICES ASSUME NEW c \in Clients PROVE EndOf(queue'[c], offered'[c])
    BY DEF QueueInv
  <2>2. EndOf(queue[c], offered[c])
    BY DEF QueueInv
  <2>3. CASE c \in clients
    <3> DEFINE kept == IF Full(c) THEN Tail(queue[c]) ELSE queue[c]
    <3>1. /\ queue'[c] = Append(kept, Head(ready))
          /\ offered'[c] = Append(offered[c], Head(ready))
      BY <1>1, <2>3 DEF Dispatch, Enqueued
    <3>2. queue[c] \in Seq(Envelopes) /\ offered[c] \in Seq(Envelopes)
      BY DEF TypeOK
    <3>3. kept \in Seq(Envelopes) /\ EndOf(kept, offered[c])
      <4>1. CASE Full(c)
        <5>1. queue[c] # <<>>
          BY <4>1, BroadcasterAssumption DEF Full
        <5>2. Tail(queue[c]) \in Seq(Envelopes)
          BY <3>2, <5>1, HeadTailProperties
        <5>. QED  BY <2>2, <3>2, <4>1, <5>1, <5>2, TailIsNewest
      <4>2. CASE ~Full(c)
        BY <2>2, <3>2, <4>2
      <4>. QED  BY <4>1, <4>2
    <3> HIDE DEF kept
    <3>. QED  BY <2>1, <3>1, <3>2, <3>3, AppendIsNewest
  <2>4. CASE c \notin clients
    BY <1>1, <2>2, <2>4 DEF Dispatch
  <2>. QED  BY <2>3, <2>4
<1>2. ASSUME NEW d \in Clients, Take(d) PROVE QueueInv'
  <2>1. /\ queue' = [queue EXCEPT ![d] = Tail(@)] /\ offered' = offered
        /\ queue[d] # <<>>
    BY <1>2 DEF Take, history
  <2>2. /\ queue[d] \in Seq(Envelopes) /\ offered[d] \in Seq(Envelopes)
        /\ queue'[d] = Tail(queue[d]) /\ \A c \in Clients \ {d} : queue'[c] = queue[c]
    BY <2>1 DEF TypeOK
  <2>3. EndOf(queue'[d], offered[d])
    BY <2>1, <2>2, TailIsNewest DEF QueueInv
  <2>. QED  BY <2>1, <2>2, <2>3 DEF QueueInv
<1>3. ASSUME UNCHANGED <<queue, offered>> PROVE QueueInv'
  BY <1>3 DEF QueueInv
<1>4. \A p \in Publishers : Publish(p) => UNCHANGED <<queue, offered>>
  BY DEF Publish, history
<1>5. \A c \in Clients : Register(c) => UNCHANGED <<queue, offered>>
  BY DEF Register, history
<1>. QED  BY <1>1, <1>2, <1>3, <1>4, <1>5, StepCases DEF history

\* However dispatches, sends and overflows interleave, a client's queue holds exactly the
\* newest envelopes it was offered.
THEOREM NewestQueued == Spec => []QueueHoldsTheNewest
<1>1. Init => TypeOK /\ QueueInv
  <2>1. Len(<<>>) = 0
    OBVIOUS
  <2>2. EndOf(<<>>, <<>>)
    BY <2>1 DEF EndOf
  <2>. QED  BY <2>2, InitType DEF Init, QueueInv
<1>2. TypeOK /\ QueueInv /\ [Next]_vars => TypeOK' /\ QueueInv'
  BY TypeStep, QueueStep
<1>3. TypeOK /\ QueueInv => QueueHoldsTheNewest
  BY SuffixByPositions DEF TypeOK, QueueInv, QueueHoldsTheNewest
<1>. QED  BY <1>1, <1>2, <1>3, PTL DEF Spec

-----------------------------------------------------------------------------
(* Registrations and writers *)

\* A client that is not registered yet has no writer and an empty wire; a writer exists
\* only behind the greeting, and works only for a registered client; a server that goes
\* down lets nobody in, and its loop closes once it has everybody out.
LifeInv ==
    /\ \A c \in Clients :
          /\ route[c] \in {"new", "accepting"} =>
                c \notin clients /\ writer[c] = "none" /\ wire[c] = <<>>
          /\ wire[c] = <<>> => writer[c] = "none"
          /\ writer[c] \in {"waiting", "sending"} => c \in clients
          /\ server = "down" => route[c] # "accepting"
    /\ server = "down" => clients \subseteq closing
    /\ loop = "closed" => server = "down" /\ closing = {}

LEMMA HandedNotEmpty ==
    ASSUME NEW c \in Clients, wire[c] \in Seq(Frames), NEW frame \in Frames
    PROVE  /\ wire[c] # <<>> => Handed(c, frame) # <<>>
           /\ socket[c] # "down" => Handed(c, frame) # <<>>
BY AppendProperties DEF Handed

LEMMA LifeStep ==
    ASSUME TypeOK, LifeInv, [Next]_vars
    PROVE  LifeInv'
<1>. USE DEF publishVars, counters, serverVars, history
<1>1. CASE UNCHANGED vars
  BY <1>1 DEF LifeInv, vars
<1>2. CASE SetLoop
  BY <1>2 DEF LifeInv, SetLoop
<1>3. CASE Shutdown
  BY <1>3 DEF LifeInv, Shutdown
<1>4. CASE LoopCloses
  BY <1>4 DEF LifeInv, LoopCloses
<1>5. CASE Dispatch \/ \E p \in Publishers : Publish(p)
  BY <1>5 DEF LifeInv, Dispatch, Publish
<1>6. ASSUME NEW c \in Clients, Register(c) PROVE LifeInv'
  <2>1. server = "up" /\ loop # "closed"
    BY <1>6 DEF LifeInv, Register, TypeOK
  <2>2. /\ route'[c] = "hello" /\ writer'[c] = "waiting" /\ clients' = clients \cup {c}
        /\ \A d \in Clients \ {c} :
              route'[d] = route[d] /\ writer'[d] = writer[d] /\ wire'[d] = wire[d]
    BY <1>6 DEF Register, TypeOK
  <2>3. wire'[c] # <<>>
    BY <1>6, HandedNotEmpty DEF Register, TypeOK, Frames
  <2>4. UNCHANGED <<server, loop, closing>>
    BY <1>6 DEF Register
  <2>. QED  BY <2>1, <2>2, <2>3, <2>4 DEF LifeInv
<1>7. ASSUME NEW c \in Clients, Take(c) PROVE LifeInv'
  <2>1. /\ writer'[c] = "sending" /\ writer[c] = "waiting"
        /\ \A d \in Clients \ {c} : writer'[d] = writer[d] /\ wire'[d] = wire[d]
        /\ UNCHANGED <<clients, route, server, loop, closing>>
    BY <1>7 DEF Take, TypeOK
  <2>2. Head(queue[c]) \in Frames
    BY <1>7, HeadTailProperties DEF Take, TypeOK, Frames
  <2>3. wire'[c] # <<>>
    BY <1>7, <2>1, <2>2, HandedNotEmpty DEF Take, TypeOK, LifeInv
  <2>. QED  BY <2>1, <2>3 DEF LifeInv
<1>8. ASSUME NEW c \in Clients, Leave(c) \/ CloseClient(c) PROVE LifeInv'
  <2>1. /\ writer' = Ended(c) /\ clients' = clients \ {c} /\ closing' \subseteq closing
        /\ UNCHANGED <<server, loop, wire>>
        /\ closing \subseteq closing' \cup {c}
        /\ \A d \in Clients : route'[d] \in {route[d], "gone"}
    BY <1>8 DEF Leave, CloseClient, TypeOK
  <2>2. /\ writer'[c] = (IF writer[c] = "none" THEN "none" ELSE "ended")
        /\ \A d \in Clients \ {c} : writer'[d] = writer[d]
    BY <2>1 DEF Ended, TypeOK
  <2>3. loop = "closed" => closing' = {}
    BY <2>1 DEF LifeInv
  <2>4. ASSUME NEW d \in Clients
        PROVE  /\ route'[d] \in {"new", "accepting"} =>
                     d \notin clients' /\ writer'[d] = "none" /\ wire'[d] = <<>>
               /\ wire'[d] = <<>> => writer'[d] = "none"
               /\ writer'[d] \in {"waiting", "sending"} => d \in clients'
               /\ server' = "down" => route'[d] # "accepting"
    BY <2>1, <2>2 DEF LifeInv
  <2>. QED  BY <2>1, <2>3, <2>4 DEF LifeInv
<1>9. ASSUME NEW c \in Clients, Connect(c) \/ AcceptFails(c) \/ HelloEnds(c) PROVE LifeInv'
  <2>1. /\ UNCHANGED <<clients, writer, wire, server, loop, closing>>
        /\ \A d \in Clients \ {c} : route'[d] = route[d]
        /\ \/ route[c] = "new" /\ server = "up"
           \/ route'[c] \in {"gone", "open"}
    BY <1>9 DEF Connect, AcceptFails, HelloEnds, TypeOK
  <2>. QED  BY <2>1 DEF LifeInv
<1>10. ASSUME NEW c \in Clients, Sent(c) \/ SendFails(c) PROVE LifeInv'
  <2>1. /\ UNCHANGED <<clients, route, wire, server, loop, closing>>
        /\ \A d \in Clients \ {c} : writer'[d] = writer[d]
        /\ writer[c] = "sending" /\ writer'[c] \in {"waiting", "failed"}
    BY <1>10 DEF Sent, SendFails, TypeOK
  <2>. QED  BY <2>1 DEF LifeInv
<1>11. ASSUME NEW c \in Clients,
              CloseSocket(c) \/ \E state \in {"up", "stalled", "down"} : SocketBecomes(c, state)
       PROVE  LifeInv'
  BY <1>11 DEF LifeInv, CloseSocket, SocketBecomes
<1>. QED  BY <1>1, <1>2, <1>3, <1>4, <1>5, <1>6, <1>7, <1>8, <1>9, <1>10, <1>11
          DEF Next, ClientStep

LEMMA LifeInvariance == Spec => [](TypeOK /\ LifeInv)
<1>1. Init => TypeOK /\ LifeInv
  BY InitType DEF Init, LifeInv
<1>2. TypeOK /\ LifeInv /\ [Next]_vars => TypeOK' /\ LifeInv'
  BY TypeStep, LifeStep
<1>. QED  BY <1>1, <1>2, PTL DEF Spec

\* A writer task works only for a registered client, whichever of route, shutdown and
\* network ends the connection, and the loop closes on no registered client.
THEOREM WritersEnd == Spec => []NoOrphanWriter
<1>1. TypeOK /\ LifeInv => NoOrphanWriter
  BY DEF LifeInv, NoOrphanWriter, TypeOK
<1>. QED  BY <1>1, LifeInvariance, PTL

-----------------------------------------------------------------------------
(* What a socket is handed *)

\* What Handed() leaves on a wire: all that was there, and at most the new frame.
LEMMA HandedAppends ==
    ASSUME NEW c \in Clients, wire[c] \in Seq(Frames), NEW frame \in Frames
    PROVE  LET w == Handed(c, frame)
           IN /\ w = wire[c] \/ Len(w) = Len(wire[c]) + 1
              /\ \A i \in 1 .. Len(w) :
                    \/ i \in 1 .. Len(wire[c]) /\ w[i] = wire[c][i]
                    \/ i = Len(wire[c]) + 1 /\ w[i] = frame
<1>1. Len(wire[c]) \in Nat
  BY LenProperties
<1>2. CASE socket[c] = "down"
  BY <1>1, <1>2 DEF Handed
<1>3. CASE socket[c] # "down"
  <2> DEFINE w == Append(wire[c], frame)
  <2>1. /\ Len(w) = Len(wire[c]) + 1 /\ w[Len(wire[c]) + 1] = frame
        /\ \A i \in 1 .. Len(wire[c]) : w[i] = wire[c][i]
    BY AppendProperties
  <2>2. Handed(c, frame) = w
    BY <1>3 DEF Handed
  <2> HIDE DEF w
  <2>. QED  BY <1>1, <2>1, <2>2
<1>. QED  BY <1>2, <1>3

\* The greeting, by position, and envelopes only behind it.
GreetingInv ==
    \A c \in Clients : \A i \in 1 .. Len(wire[c]) :
        IF i = 1 THEN wire[c][i] = Hello ELSE wire[c][i] \in Envelopes

LEMMA GreetingStep ==
    ASSUME TypeOK, LifeInv, GreetingInv, [Next]_vars
    PROVE  GreetingInv'
<1>1. ASSUME NEW c \in Clients, Register(c) PROVE GreetingInv'
  <2>1. /\ wire[c] = <<>> /\ Hello \in Frames /\ wire'[c] = Handed(c, Hello)
        /\ \A d \in Clients \ {c} : wire'[d] = wire[d]
    BY <1>1 DEF LifeInv, Register, TypeOK, Frames
  <2>2. \A i \in 1 .. Len(wire'[c]) : i = 1 /\ wire'[c][i] = Hello
    BY <2>1, HandedAppends DEF TypeOK
  <2>. QED  BY <2>1, <2>2 DEF GreetingInv
<1>2. ASSUME NEW c \in Clients, Take(c) PROVE GreetingInv'
  <2>1. /\ wire[c] # <<>> /\ wire'[c] = Handed(c, Head(queue[c]))
        /\ \A d \in Clients \ {c} : wire'[d] = wire[d]
    BY <1>2 DEF LifeInv, Take, TypeOK
  <2>2. Head(queue[c]) \in Envelopes /\ Head(queue[c]) \in Frames
    BY <1>2, HeadTailProperties DEF Take, TypeOK, Frames
  <2>3. Len(wire[c]) \in Nat \ {0}
    BY <2>1, EmptySeq DEF TypeOK
  <2>4. ASSUME NEW i \in 1 .. Len(wire'[c])
        PROVE  \/ i \in 1 .. Len(wire[c]) /\ wire'[c][i] = wire[c][i]
               \/ i # 1 /\ wire'[c][i] \in Envelopes
    BY <2>1, <2>2, <2>3, HandedAppends DEF TypeOK
  <2>. QED  BY <2>1, <2>4 DEF GreetingInv
<1>3. ASSUME UNCHANGED wire PROVE GreetingInv'
  BY <1>3 DEF GreetingInv
<1>4. (\E p \in Publishers : Publish(p)) \/ Dispatch => UNCHANGED wire
  BY DEF Publish, Dispatch
<1>. QED  BY <1>1, <1>2, <1>3, <1>4, StepCases

LEMMA GreetingInvariance == Spec => [](TypeOK /\ LifeInv /\ GreetingInv)
<1>1. Init => TypeOK /\ LifeInv /\ GreetingInv
  BY InitType DEF Init, LifeInv, GreetingInv
<1>2. TypeOK /\ LifeInv /\ GreetingInv /\ [Next]_vars => TypeOK' /\ LifeInv' /\ GreetingInv'
  BY TypeStep, LifeStep, GreetingStep
<1>. QED  BY <1>1, <1>2, PTL DEF Spec

\* Although queue and writer exist before the greeting is sent, nothing overtakes it.
THEOREM GreetingFirst == Spec => []HelloFirst
<1>1. ASSUME TypeOK, GreetingInv, NEW c \in Clients, wire[c] # <<>>
      PROVE  Head(wire[c]) = Hello
  <2>1. Len(wire[c]) \in Nat \ {0} /\ Head(wire[c]) = wire[c][1]
    BY <1>1, EmptySeq DEF TypeOK
  <2>. QED  BY <1>1, <2>1 DEF GreetingInv
<1>2. TypeOK /\ GreetingInv => HelloFirst
  BY <1>1 DEF HelloFirst
<1>. QED  BY <1>2, GreetingInvariance, PTL

-----------------------------------------------------------------------------
(* The order of a publisher's envelopes *)

\* From position k on, s is in order, before all of t, and published.
Ordered(k, s) == \A i, j \in k .. Len(s) : i < j => Before(s[i], s[j])
AllBefore(k, s, t) == \A i \in k .. Len(s), j \in 1 .. Len(t) : Before(s[i], t[j])
AllPublished(k, s) == \A i \in k .. Len(s) : s[i][2] <= published[s[i][1]]

\* What is on a client's wire behind the greeting was published before what is in its
\* queue, and that before what the loop has scheduled; each of the three is in order.
OrderInv ==
    /\ Ordered(1, ready) /\ AllPublished(1, ready)
    /\ \A c \in Clients :
          /\ Ordered(1, queue[c]) /\ AllBefore(1, queue[c], ready) /\ AllPublished(1, queue[c])
          /\ Ordered(2, wire[c]) /\ AllPublished(2, wire[c])
          /\ AllBefore(2, wire[c], queue[c]) /\ AllBefore(2, wire[c], ready)

LEMMA TailPositions ==
    ASSUME NEW S, NEW s \in Seq(S), s # <<>>
    PROVE  /\ Len(s) \in Nat \ {0} /\ Head(s) = s[1]
           /\ Tail(s) \in Seq(S) /\ Len(Tail(s)) = Len(s) - 1
           /\ \A i \in 1 .. Len(Tail(s)) : i + 1 \in 2 .. Len(s) /\ Tail(s)[i] = s[i + 1]
<1>1. Len(s) \in Nat \ {0} /\ Head(s) = s[1]
  BY EmptySeq
<1>2. /\ Tail(s) \in Seq(S) /\ Len(Tail(s)) = Len(s) - 1
      /\ \A i \in 1 .. Len(Tail(s)) : Tail(s)[i] = s[i + 1]
  BY HeadTailProperties
<1> DEFINE n == Len(Tail(s))
<1>3. \A i \in 1 .. n : i + 1 \in 2 .. n + 1
  <2>1. n \in Nat
    BY <1>2, LenProperties
  <2> HIDE DEF n
  <2>. QED  BY <2>1
<1>. QED  BY <1>1, <1>2, <1>3

LEMMA AppendPositions ==
    ASSUME NEW S, NEW s \in Seq(S), NEW e \in S
    PROVE  /\ Len(s) \in Nat /\ Len(Append(s, e)) = Len(s) + 1
           /\ \A i \in 1 .. Len(Append(s, e)) :
                 \/ i \in 1 .. Len(s) /\ Append(s, e)[i] = s[i]
                 \/ i = Len(s) + 1 /\ Append(s, e)[i] = e
BY AppendProperties, LenProperties

\* Losing its first element disturbs no order of a sequence, and the element comes before
\* the rest.
LEMMA TailOrder ==
    ASSUME NEW S, NEW s \in Seq(S), s # <<>>, Ordered(1, s)
    PROVE  /\ Ordered(1, Tail(s))
           /\ \A j \in 1 .. Len(Tail(s)) : Before(Head(s), Tail(s)[j])
<1> DEFINE r == Tail(s)
<1>1. /\ Len(s) \in Nat \ {0} /\ Head(s) = s[1] /\ Len(r) = Len(s) - 1
      /\ \A i \in 1 .. Len(r) : i + 1 \in 2 .. Len(s) /\ r[i] = s[i + 1]
  BY TailPositions
<1> HIDE DEF r
<1>2. ASSUME NEW i \in 1 .. Len(r), NEW j \in 1 .. Len(r), i < j PROVE Before(r[i], r[j])
  <2>1. i + 1 \in 1 .. Len(s) /\ j + 1 \in 1 .. Len(s) /\ i + 1 < j + 1
    BY <1>1, <1>2
  <2>. QED  BY <1>1, <2>1 DEF Ordered
<1>3. ASSUME NEW j \in 1 .. Len(r) PROVE Before(s[1], r[j])
  <2>1. 1 \in 1 .. Len(s) /\ j + 1 \in 1 .. Len(s) /\ 1 < j + 1
    BY <1>1
  <2>. QED  BY <1>1, <2>1 DEF Ordered
<1>. QED  BY <1>1, <1>2, <1>3 DEF r, Ordered

LEMMA TailBetween ==
    ASSUME NEW S, NEW s \in Seq(S), s # <<>>, NEW k, NEW t
    PROVE  /\ AllBefore(1, s, t) => AllBefore(1, Tail(s), t)
           /\ AllBefore(k, t, s) => AllBefore(k, t, Tail(s))
           /\ AllPublished(1, s) => AllPublished(1, Tail(s))
<1> DEFINE r == Tail(s)
<1>1. Len(s) \in Nat /\ \A i \in 1 .. Len(r) : i + 1 \in 2 .. Len(s) /\ r[i] = s[i + 1]
  BY TailPositions
<1> HIDE DEF r
<1>2. \A i \in 1 .. Len(r) : i + 1 \in 1 .. Len(s) /\ r[i] = s[i + 1]
  BY <1>1
<1>. QED  BY <1>2 DEF AllBefore, AllPublished, r

\* An element that comes behind a sequence extends its order.
LEMMA AppendOrder ==
    ASSUME NEW S, NEW s \in Seq(S), NEW e \in S, NEW k \in Nat \ {0}, Ordered(k, s),
           \A i \in k .. Len(s) : Before(s[i], e)
    PROVE  Ordered(k, Append(s, e))
<1> DEFINE r == Append(s, e)
<1>1. /\ Len(s) \in Nat /\ Len(r) = Len(s) + 1
      /\ \A i \in 1 .. Len(r) : \/ i \in 1 .. Len(s) /\ r[i] = s[i]
                                \/ i = Len(s) + 1 /\ r[i] = e
  BY AppendPositions
<1> HIDE DEF r
<1>2. ASSUME NEW i \in k .. Len(r), NEW j \in k .. Len(r), i < j PROVE Before(r[i], r[j])
  <2>1. i \in 1 .. Len(r) /\ j \in 1 .. Len(r) /\ i \in k .. Len(s) /\ r[i] = s[i]
    BY <1>1, <1>2
  <2>2. CASE j \in k .. Len(s)
    BY <1>1, <1>2, <2>1, <2>2 DEF Ordered
  <2>3. CASE j = Len(s) + 1
    BY <1>1, <2>1, <2>3
  <2>. QED  BY <1>1, <2>2, <2>3
<1>. QED  BY <1>2 DEF r, Ordered

LEMMA AppendBetween ==
    ASSUME NEW S, NEW s \in Seq(S), NEW e \in S, NEW k \in Nat \ {0}, NEW j \in Nat, NEW t
    PROVE  /\ AllBefore(k, s, t) /\ (\A i \in 1 .. Len(t) : Before(e, t[i]))
                 => AllBefore(k, Append(s, e), t)
           /\ AllBefore(j, t, s) /\ (\A i \in j .. Len(t) : Before(t[i], e))
                 => AllBefore(j, t, Append(s, e))
           /\ AllPublished(k, s) /\ e[2] <= published[e[1]] => AllPublished(k, Append(s, e))
<1> DEFINE r == Append(s, e)
<1>1. /\ Len(s) \in Nat /\ Len(r) = Len(s) + 1
      /\ \A i \in 1 .. Len(r) : \/ i \in 1 .. Len(s) /\ r[i] = s[i]
                                \/ i = Len(s) + 1 /\ r[i] = e
  BY AppendPositions
<1> HIDE DEF r
<1>2. \A i \in k .. Len(r) : (i \in k .. Len(s) /\ r[i] = s[i]) \/ r[i] = e
  BY <1>1
<1>. QED  BY <1>1, <1>2 DEF AllBefore, AllPublished, r

LEMMA OrderPublish ==
    ASSUME TypeOK, OrderInv, GreetingInv, NEW p \in Publishers, Publish(p)
    PROVE  OrderInv'
<1> DEFINE e == <<p, published'[p]>>
<1>1. /\ queue' = queue /\ wire' = wire
      /\ \/ ready' = Append(ready, e)
         \/ ready' = ready
      /\ published' = [published EXCEPT ![p] = @ + 1] /\ published[p] < MaxPublished
  BY DEF Publish
<1>2. /\ published[p] \in Nat /\ published'[p] = published[p] + 1
      /\ \A q \in Publishers : published[q] \in Nat /\ published[q] <= published'[q]
  BY <1>1, BroadcasterAssumption DEF TypeOK
<1>3. e \in Envelopes /\ e[1] = p /\ e[2] = published[p] + 1 /\ e[2] <= published'[e[1]]
  <2>1. published'[p] \in 1 .. MaxPublished
    BY <1>1, <1>2, BroadcasterAssumption
  <2>. QED  BY <1>2, <2>1 DEF Envelopes
<1> HIDE DEF e
<1>4. ASSUME NEW x \in Envelopes, x[2] <= published[x[1]]
      PROVE  Before(x, e) /\ x[2] <= published'[x[1]]
  <2>1. x[1] \in Publishers /\ x[2] \in Nat
    BY BroadcasterAssumption DEF Envelopes
  <2>2. published[x[1]] \in Nat /\ published[x[1]] <= published'[x[1]]
    BY <1>2, <2>1
  <2>3. published'[x[1]] \in Nat
    BY <1>1, <1>2, <2>1, BroadcasterAssumption DEF TypeOK
  <2>4. x[2] <= published'[x[1]]
    BY <1>4, <2>1, <2>2, <2>3
  <2>5. x[1] = p => x[2] < published[p] + 1
    BY <1>2, <1>4, <2>1
  <2>. QED  BY <1>3, <2>4, <2>5 DEF Before
<1>6. /\ ready \in Seq(Envelopes) /\ \A i \in 1 .. Len(ready) : ready[i] \in Envelopes
      /\ \A c \in Clients : \A i \in 1 .. Len(queue[c]) : queue[c][i] \in Envelopes
      /\ \A c \in Clients : \A i \in 2 .. Len(wire[c]) : wire[c][i] \in Envelopes
  <2>1. ASSUME NEW c \in Clients, NEW i \in 2 .. Len(wire[c]) PROVE wire[c][i] \in Envelopes
    <3>1. i \in 1 .. Len(wire[c]) /\ i # 1
      BY LenProperties DEF TypeOK
    <3>. QED  BY <3>1 DEF GreetingInv
  <2>. QED  BY <2>1, ElementOfSeq DEF TypeOK
<1>7. Ordered(1, ready)' /\ AllPublished(1, ready)'
  <2>2. \A i \in 1 .. Len(ready) : Before(ready[i], e) /\ ready[i][2] <= published'[ready[i][1]]
    BY <1>4, <1>6 DEF OrderInv, AllPublished
  <2>3. CASE ready' = Append(ready, e)
    <3>1. Ordered(1, Append(ready, e))
      BY <1>3, <1>6, <2>2, AppendOrder DEF OrderInv
    <3>2. \A i \in 1 .. Len(Append(ready, e)) :
              Append(ready, e)[i][2] <= published'[Append(ready, e)[i][1]]
      BY <1>3, <1>6, <2>2, AppendPositions
    <3>. QED  BY <2>3, <3>1, <3>2 DEF Ordered, AllPublished
  <2>4. CASE ready' = ready
    BY <2>2, <2>4 DEF OrderInv, Ordered, AllPublished
  <2>. QED  BY <1>1, <2>3, <2>4
<1>8. ASSUME NEW c \in Clients
      PROVE  /\ Ordered(1, queue[c])' /\ AllPublished(1, queue[c])' /\ AllBefore(1, queue[c], ready)'
             /\ Ordered(2, wire[c])' /\ AllPublished(2, wire[c])' /\ AllBefore(2, wire[c], ready)'
             /\ AllBefore(2, wire[c], queue[c])'
  <2>1. /\ \A i \in 1 .. Len(queue[c]) :
              Before(queue[c][i], e) /\ queue[c][i][2] <= published'[queue[c][i][1]]
        /\ \A i \in 2 .. Len(wire[c]) :
              Before(wire[c][i], e) /\ wire[c][i][2] <= published'[wire[c][i][1]]
    BY <1>4, <1>6 DEF OrderInv, AllPublished
  <2>2. AllBefore(1, queue[c], Append(ready, e)) /\ AllBefore(2, wire[c], Append(ready, e))
    BY <1>3, <1>6, <2>1, AppendBetween DEF OrderInv
  <2>3. AllBefore(1, queue[c], ready') /\ AllBefore(2, wire[c], ready')
    BY <1>1, <2>2 DEF OrderInv
  <2>4. queue'[c] = queue[c] /\ wire'[c] = wire[c]
    BY <1>1
  <2>5. AllPublished(1, queue[c])' /\ AllPublished(2, wire[c])'
    BY <2>1, <2>4 DEF AllPublished
  <2>6. AllBefore(1, queue[c], ready)' /\ AllBefore(2, wire[c], ready)'
    BY <2>3, <2>4 DEF AllBefore
  <2>7. Ordered(1, queue[c])' /\ Ordered(2, wire[c])' /\ AllBefore(2, wire[c], queue[c])'
    BY <2>4 DEF OrderInv, Ordered, AllBefore
  <2>. QED  BY <2>5, <2>6, <2>7
<1>. QED  BY <1>7, <1>8 DEF OrderInv

LEMMA OrderDispatch ==
    ASSUME TypeOK, OrderInv, Dispatch
    PROVE  OrderInv'
<1> DEFINE e == Head(ready)
<1>1. /\ ready # <<>> /\ ready' = Tail(ready) /\ UNCHANGED <<wire, published>>
      /\ ready \in Seq(Envelopes) /\ e \in Envelopes /\ e = ready[1] /\ 1 \in 1 .. Len(ready)
      /\ \A c \in Clients :
            queue'[c] = IF c \in clients THEN Enqueued(c, e) ELSE queue[c]
  BY TailPositions, HeadTailProperties DEF Dispatch, TypeOK
<1>2. /\ Ordered(1, Tail(ready)) /\ AllPublished(1, Tail(ready))
      /\ \A j \in 1 .. Len(Tail(ready)) : Before(e, Tail(ready)[j])
      /\ e[2] <= published[e[1]]
  BY <1>1, TailOrder, TailBetween DEF OrderInv, AllPublished
<1> HIDE DEF e
<1>3. ASSUME NEW c \in Clients
      PROVE  /\ Ordered(1, queue'[c]) /\ AllPublished(1, queue'[c])
             /\ AllBefore(1, queue'[c], Tail(ready))
             /\ AllBefore(2, wire[c], Tail(ready)) /\ AllBefore(2, wire[c], queue'[c])
  <2>1. /\ queue[c] \in Seq(Envelopes) /\ Ordered(1, queue[c]) /\ AllPublished(1, queue[c])
        /\ AllBefore(1, queue[c], ready) /\ AllBefore(2, wire[c], queue[c])
        /\ AllBefore(2, wire[c], ready)
    BY DEF OrderInv, TypeOK
  <2>2. AllBefore(1, queue[c], Tail(ready)) /\ AllBefore(2, wire[c], Tail(ready))
    BY <1>1, <2>1, TailBetween
  <2>3. CASE c \in clients
    <3> DEFINE kept == IF Full(c) THEN Tail(queue[c]) ELSE queue[c]
    <3>1. queue'[c] = Append(kept, e)
      BY <1>1, <2>3 DEF Enqueued
    <3>2. /\ kept \in Seq(Envelopes) /\ Ordered(1, kept) /\ AllPublished(1, kept)
          /\ AllBefore(1, kept, ready) /\ AllBefore(1, kept, Tail(ready))
          /\ AllBefore(2, wire[c], kept)
      <4>1. CASE Full(c)
        <5>1. queue[c] # <<>>
          BY <4>1, BroadcasterAssumption DEF Full
        <5>. QED  BY <2>1, <2>2, <4>1, <5>1, TailPositions, TailOrder, TailBetween
      <4>2. CASE ~Full(c)
        BY <2>1, <2>2, <4>2
      <4>. QED  BY <4>1, <4>2
    <3> HIDE DEF kept
    <3>3. /\ \A i \in 1 .. Len(kept) : Before(kept[i], e)
          /\ \A i \in 2 .. Len(wire[c]) : Before(wire[c][i], e)
      BY <1>1, <2>1, <3>2 DEF AllBefore
    <3>4. Ordered(1, Append(kept, e))
      BY <1>1, <3>2, <3>3, AppendOrder
    <3>5. /\ AllPublished(1, Append(kept, e)) /\ AllBefore(1, Append(kept, e), Tail(ready))
          /\ AllBefore(2, wire[c], Append(kept, e))
      <4>1. 1 \in Nat \ {0} /\ 2 \in Nat
        OBVIOUS
      <4>2. AllPublished(1, Append(kept, e))
        BY <1>1, <1>2, <3>2, <4>1, AppendBetween
      <4>3. AllBefore(1, Append(kept, e), Tail(ready))
        BY <1>1, <1>2, <3>2, <4>1, AppendBetween
      <4>4. AllBefore(2, wire[c], Append(kept, e))
        BY <1>1, <3>2, <3>3, <4>1, AppendBetween
      <4>. QED  BY <4>2, <4>3, <4>4
    <3>. QED  BY <2>2, <3>1, <3>4, <3>5
  <2>4. CASE c \notin clients
    BY <1>1, <2>1, <2>2, <2>4
  <2>. QED  BY <2>3, <2>4
<1>. QED  BY <1>1, <1>2, <1>3 DEF OrderInv, Ordered, AllBefore, AllPublished

LEMMA OrderTake ==
    ASSUME TypeOK, OrderInv, LifeInv, NEW c \in Clients, Take(c)
    PROVE  OrderInv'
<1> DEFINE e == Head(queue[c])
           r == Tail(queue[c])
<1>1. /\ queue[c] # <<>> /\ queue'[c] = r /\ wire'[c] = Handed(c, e) /\ wire[c] # <<>>
      /\ \A d \in Clients \ {c} : queue'[d] = queue[d] /\ wire'[d] = wire[d]
      /\ UNCHANGED <<ready, published>>
  BY DEF Take, TypeOK, LifeInv, publishVars
<1>2. /\ queue[c] \in Seq(Envelopes) /\ wire[c] \in Seq(Frames)
      /\ e \in Frames /\ e = queue[c][1] /\ 1 \in 1 .. Len(queue[c])
  BY <1>1, TailPositions, HeadTailProperties DEF TypeOK, Frames
<1>3. /\ Ordered(1, r) /\ AllPublished(1, r) /\ AllBefore(1, r, ready)
      /\ AllBefore(2, wire[c], r) /\ \A j \in 1 .. Len(r) : Before(e, r[j])
  BY <1>1, <1>2, TailOrder, TailBetween DEF OrderInv
<1> HIDE DEF r
<1>4. /\ e[2] <= published[e[1]] /\ \A j \in 1 .. Len(ready) : Before(e, ready[j])
      /\ \A i \in 2 .. Len(wire[c]) : Before(wire[c][i], e)
  BY <1>2 DEF OrderInv, AllPublished, AllBefore
<1> HIDE DEF e
<1>5. wire'[c] \in {wire[c], Append(wire[c], e)}
  BY <1>1 DEF Handed
<1>6. /\ Ordered(2, wire[c]) /\ AllPublished(2, wire[c]) /\ AllBefore(2, wire[c], ready)
  BY DEF OrderInv
<1>7. /\ Ordered(2, wire'[c]) /\ AllPublished(2, wire'[c])
      /\ AllBefore(2, wire'[c], ready) /\ AllBefore(2, wire'[c], r)
  <2>1. Ordered(2, Append(wire[c], e))
    BY <1>2, <1>4, <1>6, AppendOrder
  <2>2. /\ AllPublished(2, Append(wire[c], e)) /\ AllBefore(2, Append(wire[c], e), ready)
        /\ AllBefore(2, Append(wire[c], e), r)
    BY <1>2, <1>3, <1>4, <1>6, AppendBetween
  <2>. QED  BY <1>3, <1>5, <1>6, <2>1, <2>2
<1>. QED  BY <1>1, <1>3, <1>7 DEF OrderInv, Ordered, AllBefore, AllPublished

LEMMA OrderRegister ==
    ASSUME TypeOK, OrderInv, LifeInv, NEW c \in Clients, Register(c)
    PROVE  OrderInv'
<1>1. /\ wire[c] = <<>> /\ wire'[c] = Handed(c, Hello)
      /\ \A d \in Clients \ {c} : wire'[d] = wire[d]
      /\ UNCHANGED <<queue, ready, published>>
  BY DEF Register, LifeInv, TypeOK, publishVars
<1>2. Len(wire'[c]) \in {0, 1}
  <2>1. Len(wire[c]) = 0 /\ Hello \in Frames
    BY <1>1 DEF Frames
  <2>2. Handed(c, Hello) = wire[c] \/ Len(Handed(c, Hello)) = Len(wire[c]) + 1
    BY <2>1, HandedAppends DEF TypeOK
  <2>. QED  BY <1>1, <2>1, <2>2
<1>3. /\ Ordered(2, wire'[c]) /\ AllPublished(2, wire'[c])
      /\ AllBefore(2, wire'[c], ready) /\ AllBefore(2, wire'[c], queue[c])
  BY <1>2 DEF Ordered, AllPublished, AllBefore
<1>. QED  BY <1>1, <1>3 DEF OrderInv, Ordered, AllBefore, AllPublished

LEMMA OrderStep ==
    ASSUME TypeOK, LifeInv, GreetingInv, OrderInv, [Next]_vars
    PROVE  OrderInv'
<1>1. ASSUME UNCHANGED <<publishVars, queue, history, wire>> PROVE OrderInv'
  BY <1>1 DEF OrderInv, Ordered, AllBefore, AllPublished, publishVars
<1>. QED  BY <1>1, OrderPublish, OrderDispatch, OrderTake, OrderRegister, StepCases

\* No reordering and no duplicate anywhere between publish() and the socket, whatever
\* overflows, stalls, disconnects or shuts down on the way.
THEOREM OrderKept == Spec => []PublishedOrderOnTheWire
<1>1. Init => TypeOK /\ LifeInv /\ GreetingInv /\ OrderInv
  BY InitType DEF Init, LifeInv, GreetingInv, OrderInv, Ordered, AllBefore, AllPublished
<1>2. TypeOK /\ LifeInv /\ GreetingInv /\ OrderInv /\ [Next]_vars
          => TypeOK' /\ LifeInv' /\ GreetingInv' /\ OrderInv'
  BY TypeStep, LifeStep, GreetingStep, OrderStep
<1>3. ASSUME TypeOK, GreetingInv, OrderInv PROVE PublishedOrderOnTheWire
  <2>1. ASSUME NEW c \in Clients, NEW i \in 1 .. Len(wire[c]), NEW j \in 1 .. Len(wire[c]),
               i < j, wire[c][i] # Hello
        PROVE  Before(wire[c][i], wire[c][j])
    <3>1. i # 1
      BY <1>3, <2>1 DEF GreetingInv
    <3>2. i \in 2 .. Len(wire[c]) /\ j \in 2 .. Len(wire[c])
      BY <1>3, <2>1, <3>1, LenProperties DEF TypeOK
    <3>. QED  BY <1>3, <2>1, <3>2 DEF OrderInv, Ordered
  <2>. QED  BY <2>1 DEF PublishedOrderOnTheWire
<1>. QED  BY <1>1, <1>2, <1>3, PTL DEF Spec

-----------------------------------------------------------------------------
(* Sums over the clients and the publishers *)

\* A set with 0 that is closed under the successor holds every natural number.
LEMMA NatInduct ==
    ASSUME NEW S, 0 \in S, \A n \in Nat : n \in S => n + 1 \in S
    PROVE  \A n \in Nat : n \in S
<1>. DEFINE T == Nat \ S
            R == OpToRel(<, Nat)
<1>1. IsWellFoundedOn(R, Nat)  BY NatLessThanWellFounded
<1>. SUFFICES ASSUME T # {} PROVE FALSE  OBVIOUS
<1>2. PICK x \in T : \A y \in T : ~ (<<y, x>> \in R)  BY <1>1, WFMin
<1>3. x \in Nat /\ x # 0 /\ x - 1 \in Nat /\ x - 1 \in T  OBVIOUS
<1>4. <<x - 1, x>> \in R  BY <1>3 DEF OpToRel
<1>. QED  BY <1>2, <1>3, <1>4

\* A subset without one of its elements has one element less.
LEMMA OneFewer ==
    ASSUME NEW t, IsFiniteSet(t), NEW x \in t
    PROVE  /\ IsFiniteSet(t \ {x}) /\ Cardinality(t \ {x}) \in Nat
           /\ Cardinality(t) = Cardinality(t \ {x}) + 1
<1>1. IsFiniteSet(t \ {x})  BY FS_Subset
<1>2. Cardinality(t) \in Nat /\ Cardinality(t \ {x}) \in Nat  BY <1>1, FS_CardinalityType
<1>3. Cardinality(t \ {x}) = Cardinality(t) - 1  BY FS_RemoveElement
<1>. QED  BY <1>1, <1>2, <1>3

\* The element of a set that a sum starts with.
FirstOf(s) == CHOOSE y \in s : TRUE

SumsBy(iter, f, S) ==
    /\ SumOf(f, S) = iter[S] /\ iter[{}] = 0
    /\ \A s \in SUBSET S : s # {} => iter[s] = f[FirstOf(s)] + iter[s \ {FirstOf(s)}]

\* The function behind a sum: on each subset, an element's term and the sum of the rest.
LEMMA SumTerms ==
    ASSUME NEW S, IsFiniteSet(S), NEW f
    PROVE  \E iter : SumsBy(iter, f, S)
<1>. DEFINE Body(g, s) == IF s = {} THEN 0 ELSE f[FirstOf(s)] + g[s \ {FirstOf(s)}]
            UpTo(k) == {s \in SUBSET S : Cardinality(s) <= k}
            Sums(g, k) == g = [s \in UpTo(k) |->
                                  IF s = {} THEN 0 ELSE f[FirstOf(s)] + g[s \ {FirstOf(s)}]]
            K == {k \in Nat : \E g : Sums(g, k)}
<1>1. \A s \in SUBSET S : IsFiniteSet(s) /\ Cardinality(s) \in Nat
                          /\ (Cardinality(s) = 0 <=> s = {})
  BY FS_Subset, FS_CardinalityType, FS_EmptySet
<1>2. ASSUME NEW s \in SUBSET S, s # {}
      PROVE  FirstOf(s) \in s /\ s \ {FirstOf(s)} \in SUBSET S /\ Cardinality(s) = Cardinality(s \ {FirstOf(s)}) + 1
  <2>1. FirstOf(s) \in s  BY <1>2 DEF FirstOf
  <2>. QED  BY <1>1, <2>1, OneFewer
<1>3. 0 \in K
  <2>1. \A s \in UpTo(0) : s = {}  BY <1>1
  <2>2. Sums([s \in UpTo(0) |-> 0], 0)  BY <2>1
  <2>. QED  BY <2>2
<1>4. ASSUME NEW k \in Nat, k \in K
      PROVE  k + 1 \in K
  <2>1. PICK g : Sums(g, k)  BY <1>4
  <2>. DEFINE h == [s \in UpTo(k + 1) |-> Body(g, s)]
  <2>2. UpTo(k) \subseteq UpTo(k + 1)  BY <1>1
  <2>3. \A s \in UpTo(k) : g[s] = Body(g, s)  BY <2>1
  <2>4. \A s \in UpTo(k) : h[s] = g[s]  BY <2>2, <2>3
  <2>5. \A s \in UpTo(k + 1) : s # {} => s \ {FirstOf(s)} \in UpTo(k)  BY <1>1, <1>2
  <2>6. \A s \in UpTo(k + 1) : h[s] = Body(g, s)  OBVIOUS
  <2>7. h = [s \in UpTo(k + 1) |-> h[s]]  OBVIOUS
  <2>. HIDE DEF h, UpTo
  <2>8. \A s \in UpTo(k + 1) : h[s] = Body(h, s)  BY <2>4, <2>5, <2>6
  <2>9. Sums(h, k + 1)
    <3>1. h = [s \in UpTo(k + 1) |-> Body(h, s)]
      <4>. HIDE DEF Body
      <4>. QED  BY <2>7, <2>8
    <3>. QED  BY <3>1
  <2>10. k + 1 \in Nat  OBVIOUS
  <2>. HIDE DEF Sums
  <2>. QED  BY <2>9, <2>10
<1>5. \A k \in Nat : k \in K
  <2>. HIDE DEF K
  <2>. QED  BY <1>3, <1>4, NatInduct
<1>6. Cardinality(S) \in Nat /\ UpTo(Cardinality(S)) = SUBSET S
  BY FS_Subset, FS_CardinalityType
<1>. DEFINE All(g) == g = [s \in SUBSET S |-> IF s = {} THEN 0 ELSE f[FirstOf(s)] + g[s \ {FirstOf(s)}]]
            iter == CHOOSE g : All(g)
<1>7. \E g : All(g)
  <2>1. PICK g : Sums(g, Cardinality(S))  BY <1>5, <1>6
  <2>. HIDE DEF UpTo
  <2>2. All(g)  BY <2>1, <1>6
  <2>. QED  BY <2>2
<1>8. All(iter)  BY <1>7
<1>9. SumOf(f, S) = iter[S]
  BY DEF SumOf, FoldFunctionOnSet, MapThenFoldSet, FirstOf
<1>. HIDE DEF iter
<1>10. \A s \in SUBSET S : iter[s] = Body(iter, s)  BY <1>8
<1>11. iter[{}] = 0  BY <1>10
<1>12. ASSUME NEW s \in SUBSET S, s # {}
       PROVE  iter[s] = f[FirstOf(s)] + iter[s \ {FirstOf(s)}]
  BY <1>10, <1>12
<1>13. SumsBy(iter, f, S)  BY <1>9, <1>11, <1>12 DEF SumsBy
<1>. QED  BY <1>13

\* A subset is finite, and empty exactly when it has no element.
LEMMA PartOf ==
    ASSUME NEW S, IsFiniteSet(S), NEW s \in SUBSET S
    PROVE  IsFiniteSet(s) /\ Cardinality(s) \in Nat /\ (Cardinality(s) = 0 <=> s = {})
BY FS_Subset, FS_CardinalityType, FS_EmptySet

\* Two functions that differ by one on a part of a set: their sums differ by its size.
LEMMA SumGrows ==
    ASSUME NEW S, IsFiniteSet(S), NEW f \in [S -> Nat], NEW g \in [S -> Nat], NEW T \in SUBSET S,
           \A y \in S : g[y] = IF y \in T THEN f[y] + 1 ELSE f[y]
    PROVE  SumOf(f, S) \in Nat /\ SumOf(g, S) = SumOf(f, S) + Cardinality(T)
<1>1. PICK a : SumsBy(a, f, S)  BY SumTerms
<1>2. PICK b : SumsBy(b, g, S)  BY SumTerms
<1>. DEFINE Good(s) == a[s] \in Nat /\ b[s] = a[s] + Cardinality(s \cap T)
            K == {k \in Nat : \A s \in SUBSET S : Cardinality(s) = k => Good(s)}
<1>3. ASSUME NEW s \in SUBSET S
      PROVE  /\ IsFiniteSet(s) /\ IsFiniteSet(s \cap T) /\ Cardinality(s) \in Nat
             /\ Cardinality(s \cap T) \in Nat /\ (Cardinality(s) = 0 <=> s = {})
  BY FS_Subset, FS_CardinalityType, FS_EmptySet
<1>4. 0 \in K
  <2>1. {} \cap T = {} /\ Cardinality({}) = 0  BY FS_EmptySet
  <2>2. Good({})  BY <1>1, <1>2, <2>1 DEF SumsBy
  <2>. HIDE DEF Good
  <2>. QED  BY <1>3, <2>2
<1>5. ASSUME NEW k \in Nat, k \in K
      PROVE  k + 1 \in K
  <2>. SUFFICES ASSUME NEW s \in SUBSET S, Cardinality(s) = k + 1
                PROVE  Good(s)
    BY <1>5
  <2>. DEFINE y == FirstOf(s)
              r == s \ {y}
  <2>1. s # {} /\ IsFiniteSet(s)  BY PartOf
  <2>2. y \in s /\ y \in S  BY <2>1 DEF FirstOf
  <2>3. r \in SUBSET S /\ Cardinality(r) = k
    <3>1. Cardinality(r) \in Nat /\ Cardinality(s) = Cardinality(r) + 1
      BY <2>1, <2>2, OneFewer
    <3>2. Cardinality(r) = k
      <4>. HIDE DEF r
      <4>. QED  BY <3>1
    <3>. QED  BY <3>2
  <2>4. a[r] \in Nat /\ b[r] = a[r] + Cardinality(r \cap T)  BY <2>3, <1>5
  <2>5. a[s] = f[y] + a[r] /\ b[s] = g[y] + b[r]  BY <2>1, <1>1, <1>2 DEF SumsBy
  <2>6. f[y] \in Nat /\ g[y] = IF y \in T THEN f[y] + 1 ELSE f[y]  BY <2>2
  <2>7. Cardinality(s \cap T) = IF y \in T THEN Cardinality(r \cap T) + 1 ELSE Cardinality(r \cap T)
    <3>. HIDE DEF y
    <3>1. CASE y \in T
      <4>1. r \cap T = (s \cap T) \ {y} /\ y \in s \cap T  BY <2>2, <3>1
      <4>. QED  BY <3>1, <4>1, <1>3, OneFewer
    <3>2. CASE y \notin T
      <4>1. r \cap T = s \cap T  BY <3>2
      <4>. QED  BY <3>2, <4>1
    <3>. QED  BY <3>1, <3>2
  <2>8. Cardinality(r \cap T) \in Nat  BY <2>3, <1>3
  <2>. HIDE DEF y, r
  <2>. QED  BY <2>4, <2>5, <2>6, <2>7, <2>8
<1>6. \A k \in Nat : k \in K
  <2>. HIDE DEF K
  <2>. QED  BY <1>4, <1>5, NatInduct
<1>7. Good(S)
  <2>1. Cardinality(S) \in Nat  BY FS_CardinalityType
  <2>. HIDE DEF Good
  <2>. QED  BY <2>1, <1>6
<1>8. S \cap T = T  OBVIOUS
<1>. QED  BY <1>1, <1>2, <1>7, <1>8 DEF SumsBy

\* The sum of nothing.
LEMMA SumOfZeros ==
    ASSUME NEW S, IsFiniteSet(S)
    PROVE  SumOf([y \in S |-> 0], S) = 0
<1>. DEFINE f == [y \in S |-> 0]
<1>1. PICK a : SumsBy(a, f, S)  BY SumTerms
<1>. DEFINE K == {k \in Nat : \A s \in SUBSET S : Cardinality(s) = k => a[s] = 0}
<1>2. \A s \in SUBSET S : IsFiniteSet(s) /\ (Cardinality(s) = 0 <=> s = {})
  BY FS_Subset, FS_EmptySet
<1>3. 0 \in K  BY <1>1, <1>2 DEF SumsBy
<1>4. ASSUME NEW k \in Nat, k \in K
      PROVE  k + 1 \in K
  <2>. SUFFICES ASSUME NEW s \in SUBSET S, Cardinality(s) = k + 1
                PROVE  a[s] = 0
    BY <1>4
  <2>1. s # {} /\ IsFiniteSet(s)  BY PartOf
  <2>2. FirstOf(s) \in s  BY <2>1 DEF FirstOf
  <2>3. s \ {FirstOf(s)} \in SUBSET S /\ Cardinality(s \ {FirstOf(s)}) = k
    BY <2>1, <2>2, OneFewer
  <2>4. a[s \ {FirstOf(s)}] = 0  BY <2>3, <1>4
  <2>5. f[FirstOf(s)] = 0  BY <2>2
  <2>. QED  BY <1>1, <2>1, <2>4, <2>5 DEF SumsBy
<1>5. \A k \in Nat : k \in K
  <2>. HIDE DEF K
  <2>. QED  BY <1>3, <1>4, NatInduct
<1>6. Cardinality(S) \in Nat  BY FS_CardinalityType
<1>. QED  BY <1>1, <1>5, <1>6 DEF SumsBy

-----------------------------------------------------------------------------
(* The counters *)

\* What the writer of a client holds.
Held(c) == Len(offered[c]) - (sent[c] + dropped[c] + Len(queue[c]))

HeldInv(c) ==
    /\ Held(c) \in 0 .. 1
    /\ writer[c] = "sending" \/ writer[c] = "failed" => Held(c) = 1
    /\ writer[c] = "waiting" \/ writer[c] = "none" => Held(c) = 0

\* The envelopes of all publishers are where the engine's counters say.
LEMMA PublishedAccount ==
    ASSUME TypeOK, SumOf(published, Publishers) = noLoop + Len(ready) + dispatched, [Next]_vars
    PROVE  SumOf(published', Publishers) = noLoop' + Len(ready') + dispatched'
<1>1. /\ noLoop \in Nat /\ dispatched \in Nat /\ ready \in Seq(Envelopes) /\ Len(ready) \in Nat
      /\ published \in [Publishers -> 0 .. MaxPublished]
  BY LenProperties DEF TypeOK
<1>2. ASSUME NEW p \in Publishers, Publish(p)
      PROVE  SumOf(published', Publishers) = noLoop' + Len(ready') + dispatched'
  <2>1. /\ published' = [published EXCEPT ![p] = @ + 1] /\ dispatched' = dispatched
        /\ \/ ready' = Append(ready, <<p, published'[p]>>) /\ noLoop' = noLoop
           \/ noLoop' = noLoop + 1 /\ ready' = ready
    BY <1>2 DEF Publish, history
  <2>2. /\ published \in [Publishers -> Nat] /\ published' \in [Publishers -> Nat]
        /\ \A y \in Publishers :
               published'[y] = IF y \in {p} THEN published[y] + 1 ELSE published[y]
    <3>1. published \in [Publishers -> Nat]  BY <1>1, BroadcasterAssumption
    <3>. QED  BY <2>1, <3>1
  <2>3. SumOf(published', Publishers) = SumOf(published, Publishers) + Cardinality({p})
        /\ SumOf(published, Publishers) \in Nat
    <3>1. {p} \in SUBSET Publishers /\ IsFiniteSet(Publishers)  BY BroadcasterAssumption
    <3>. QED  BY <2>2, <3>1, SumGrows
  <2>4. Cardinality({p}) = 1  BY FS_Singleton
  <2>5. Len(ready') + noLoop' = Len(ready) + noLoop + 1
    <3>1. Len(Append(ready, <<p, published'[p]>>)) = Len(ready) + 1  BY <1>1
    <3>. QED  BY <2>1, <3>1, <1>1
  <2>6. Len(ready') \in Nat /\ noLoop' \in Nat
    <3>1. Len(Append(ready, <<p, published'[p]>>)) = Len(ready) + 1  BY <1>1
    <3>. QED  BY <2>1, <3>1, <1>1
  <2>. QED  BY <2>1, <2>3, <2>4, <2>5, <2>6, <1>1
<1>3. CASE Dispatch
  <2>1. /\ ready # <<>> /\ ready' = Tail(ready) /\ dispatched' = dispatched + 1
        /\ UNCHANGED <<published, noLoop>>
    BY <1>3 DEF Dispatch
  <2>2. Len(Tail(ready)) = Len(ready) - 1  BY <1>1, <2>1
  <2>. QED  BY <1>1, <2>1, <2>2
<1>4. ASSUME UNCHANGED <<publishVars, queue, history, wire>>
      PROVE  SumOf(published', Publishers) = noLoop' + Len(ready') + dispatched'
  BY <1>4 DEF publishVars, history
<1>5. ASSUME NEW c \in Clients, Register(c) \/ Take(c)
      PROVE  UNCHANGED <<published, noLoop, ready, dispatched>>
  BY <1>5 DEF Register, Take, publishVars, history
<1>. QED  BY <1>2, <1>3, <1>4, <1>5, StepCases

\* A step that counts is a dispatch that overflows or a send that succeeds.
LEMMA CountingSteps ==
    ASSUME [Next]_vars
    PROVE  Dispatch \/ (\E c \in Clients : Sent(c)) \/ UNCHANGED counters
<1>1. ASSUME NEW c \in Clients, ClientStep(c), ~ Sent(c)
      PROVE  UNCHANGED counters
  BY <1>1 DEF ClientStep, Connect, AcceptFails, Register, HelloEnds, Leave, Take, SendFails,
     CloseSocket, CloseClient, SocketBecomes
<1>2. SetLoop \/ Shutdown \/ LoopCloses \/ (\E p \in Publishers : Publish(p)) \/ UNCHANGED vars
          => UNCHANGED counters
  BY DEF SetLoop, Shutdown, LoopCloses, Publish, vars
<1>. QED  BY <1>1, <1>2 DEF Next

\* The totals follow the clients' counters.
LEMMA TotalsStep ==
    ASSUME TypeOK, totalDropped = SumOf(dropped, Clients), totalSent = SumOf(sent, Clients),
           [Next]_vars
    PROVE  totalDropped' = SumOf(dropped', Clients) /\ totalSent' = SumOf(sent', Clients)
<1>1. /\ IsFiniteSet(Clients) /\ dropped \in [Clients -> Nat] /\ sent \in [Clients -> Nat]
      /\ dropped' \in [Clients -> Nat] /\ sent' \in [Clients -> Nat]
  BY BroadcasterAssumption, TypeStep DEF TypeOK
<1>2. CASE Dispatch
  <2>. DEFINE full == {c \in clients : Full(c)}
  <2>1. full \in SUBSET Clients  BY DEF TypeOK
  <2>2. /\ totalDropped' = totalDropped + Cardinality(full)
        /\ \A y \in Clients : dropped'[y] = IF y \in full THEN dropped[y] + 1 ELSE dropped[y]
        /\ sent' = sent /\ totalSent' = totalSent
    BY <1>2 DEF Dispatch
  <2>. HIDE DEF full
  <2>3. SumOf(dropped', Clients) = SumOf(dropped, Clients) + Cardinality(full)
    BY <2>1, <2>2, <1>1, SumGrows
  <2>. QED  BY <2>2, <2>3
<1>3. ASSUME NEW c \in Clients, Sent(c)
      PROVE  totalDropped' = SumOf(dropped', Clients) /\ totalSent' = SumOf(sent', Clients)
  <2>1. /\ sent' = [sent EXCEPT ![c] = @ + 1] /\ totalSent' = totalSent + 1
        /\ UNCHANGED <<dropped, totalDropped>>
    BY <1>3 DEF Sent
  <2>2. \A y \in Clients : sent'[y] = IF y \in {c} THEN sent[y] + 1 ELSE sent[y]
    BY <2>1, <1>1
  <2>3. {c} \in SUBSET Clients  OBVIOUS
  <2>4. SumOf(sent', Clients) = SumOf(sent, Clients) + Cardinality({c})
    BY <2>2, <2>3, <1>1, SumGrows
  <2>5. Cardinality({c}) = 1  BY FS_Singleton
  <2>. QED  BY <2>1, <2>4, <2>5
<1>4. CASE UNCHANGED counters  BY <1>4 DEF counters
<1>. QED  BY <1>2, <1>3, <1>4, CountingSteps

\* Of o offered, with s sent, d dropped and q queued, h are held.
Account(h, o, s, d, q) == h = o - (s + d + q)

\* One more offered, and one more dropped or queued: as many are held.
LEMMA OfferedIsCounted ==
    ASSUME NEW h, NEW o \in Nat, NEW s \in Nat, NEW d \in Nat, NEW q \in Nat,
           Account(h, o, s, d, q)
    PROVE  Account(h, o + 1, s, d + 1, q) /\ Account(h, o + 1, s, d, q + 1)
BY DEF Account

\* What leaves a queue or is refused by it, a writer holds or a counter counts.
LEMMA HeldStep ==
    ASSUME TypeOK, LifeInv, NEW c \in Clients, HeldInv(c), [Next]_vars
    PROVE  HeldInv(c)'
<1>1. /\ offered[c] \in Seq(Envelopes) /\ queue[c] \in Seq(Envelopes)
      /\ Len(offered[c]) \in Nat /\ Len(queue[c]) \in Nat /\ sent[c] \in Nat /\ dropped[c] \in Nat
      /\ Len(queue[c]) <= QueueMax
  BY LenProperties DEF TypeOK
<1>0. /\ Held(c) = Len(offered[c]) - (sent[c] + dropped[c] + Len(queue[c]))
      /\ Held(c)' = Len(offered'[c]) - (sent'[c] + dropped'[c] + Len(queue'[c]))
  BY DEF Held
<1>11. Account(Held(c), Len(offered[c]) + 1, sent[c], dropped[c] + 1, Len(queue[c]))
       /\ Account(Held(c), Len(offered[c]) + 1, sent[c], dropped[c], Len(queue[c]) + 1)
  <2>1. Account(Held(c), Len(offered[c]), sent[c], dropped[c], Len(queue[c]))
    BY <1>0 DEF Account
  <2>. QED  BY <1>1, <2>1, OfferedIsCounted
<1>2. ASSUME UNCHANGED <<offered, sent, dropped, queue>>,
             writer'[c] = writer[c] \/ writer'[c] = "ended"
             \/ (writer[c] = "sending" /\ writer'[c] = "failed")
             \/ (writer[c] = "none" /\ writer'[c] = "waiting")
      PROVE  HeldInv(c)'
  BY <1>2 DEF HeldInv, Held
<1>3. CASE Dispatch
  <2>1. /\ Head(ready) \in Envelopes /\ writer' = writer /\ sent' = sent
        /\ offered'[c] = IF c \in clients THEN Append(offered[c], Head(ready)) ELSE offered[c]
        /\ queue'[c] = IF c \in clients THEN Enqueued(c, Head(ready)) ELSE queue[c]
        /\ dropped'[c] = IF c \in clients /\ Full(c) THEN dropped[c] + 1 ELSE dropped[c]
    BY <1>3, HeadTailProperties DEF Dispatch, TypeOK
  <2>2. Held(c)' = Held(c)
    <3>1. CASE c \notin clients  BY <2>1, <3>1 DEF Held
    <3>2. CASE c \in clients
      <4>0. sent'[c] = sent[c]  BY <2>1
      <4>1. Len(offered'[c]) = Len(offered[c]) + 1  BY <2>1, <3>2, <1>1
      <4>2. CASE Full(c)
        <5>1. queue[c] # <<>>  BY <4>2, BroadcasterAssumption DEF Full
        <5>2. Tail(queue[c]) \in Seq(Envelopes) /\ Len(Tail(queue[c])) = Len(queue[c]) - 1
          BY <5>1, <1>1
        <5>3. queue'[c] = Append(Tail(queue[c]), Head(ready))
          BY <2>1, <3>2, <4>2 DEF Enqueued
        <5>4. Len(queue'[c]) = Len(queue[c])  BY <5>2, <5>3, <2>1, <1>1
        <5>5. dropped'[c] = dropped[c] + 1  BY <2>1, <3>2, <4>2
        <5>. QED  BY <1>0, <1>11, <4>0, <4>1, <5>4, <5>5 DEF Account
      <4>3. CASE ~ Full(c)
        <5>1. Len(queue'[c]) = Len(queue[c]) + 1
          BY <2>1, <3>2, <4>3, <1>1 DEF Enqueued
        <5>2. dropped'[c] = dropped[c]  BY <2>1, <3>2, <4>3
        <5>. QED  BY <1>0, <1>11, <4>0, <4>1, <5>1, <5>2 DEF Account
      <4>. QED  BY <4>2, <4>3
    <3>. QED  BY <3>1, <3>2
  <2>. QED  BY <2>1, <2>2 DEF HeldInv
<1>4. ASSUME NEW d \in Clients, Take(d) PROVE HeldInv(c)'
  <2>1. CASE d = c
    <3>1. /\ queue[c] # <<>> /\ queue'[c] = Tail(queue[c]) /\ writer[c] = "waiting"
          /\ writer'[c] = "sending" /\ UNCHANGED <<offered, sent, dropped>>
      BY <1>4, <2>1 DEF Take, TypeOK, counters, history
    <3>2. Len(Tail(queue[c])) = Len(queue[c]) - 1  BY <3>1, <1>1
    <3>3. Held(c) = 0  BY <3>1 DEF HeldInv
    <3>4. Len(queue'[c]) = Len(queue[c]) - 1  BY <3>1, <3>2
    <3>5. Held(c)' = 1  BY <1>0, <3>1, <3>3, <3>4, <1>1
    <3>. QED  BY <3>1, <3>5 DEF HeldInv
  <2>2. CASE d # c
    <3>1. /\ queue'[c] = queue[c] /\ writer'[c] = writer[c] /\ UNCHANGED <<offered, sent, dropped>>
      BY <1>4, <2>2 DEF Take, TypeOK, counters, history
    <3>. QED  BY <3>1 DEF HeldInv, Held
  <2>. QED  BY <2>1, <2>2
<1>5. ASSUME NEW d \in Clients, Sent(d) PROVE HeldInv(c)'
  <2>1. CASE d = c
    <3>1. /\ sent'[c] = sent[c] + 1 /\ writer[c] = "sending" /\ writer'[c] = "waiting"
          /\ UNCHANGED <<offered, queue, dropped>>
      BY <1>5, <2>1 DEF Sent, TypeOK, history
    <3>2. Held(c) = 1  BY <3>1 DEF HeldInv
    <3>3. Held(c)' = 0  BY <3>1, <3>2, <1>1 DEF Held
    <3>. QED  BY <3>1, <3>3 DEF HeldInv
  <2>2. CASE d # c
    <3>1. /\ sent'[c] = sent[c] /\ writer'[c] = writer[c] /\ UNCHANGED <<offered, queue, dropped>>
      BY <1>5, <2>2 DEF Sent, TypeOK, history
    <3>. QED  BY <3>1 DEF HeldInv, Held
  <2>. QED  BY <2>1, <2>2
<1>6. ASSUME NEW d \in Clients, Register(d) PROVE HeldInv(c)'
  <2>1. writer[d] = "none"  BY <1>6 DEF Register, LifeInv
  <2>2. writer'[c] = IF d = c THEN "waiting" ELSE writer[c]  BY <1>6 DEF Register, TypeOK
  <2>. QED  BY <1>2, <1>6, <2>1, <2>2 DEF Register, counters, history
<1>7. ASSUME NEW d \in Clients, Leave(d) \/ CloseClient(d) PROVE HeldInv(c)'
  <2>1. writer'[c] = writer[c] \/ writer'[c] = "ended"  BY <1>7 DEF Leave, CloseClient, Ended, TypeOK
  <2>. QED  BY <1>2, <1>7, <2>1 DEF Leave, CloseClient, counters, history
<1>8. ASSUME NEW d \in Clients, SendFails(d) PROVE HeldInv(c)'
  <2>1. writer'[c] = writer[c] \/ (writer[c] = "sending" /\ writer'[c] = "failed")
    BY <1>8 DEF SendFails, TypeOK
  <2>. QED  BY <1>2, <1>8, <2>1 DEF SendFails, counters, history
<1>9. ASSUME NEW d \in Clients,
             \/ Connect(d) \/ AcceptFails(d) \/ HelloEnds(d) \/ CloseSocket(d)
             \/ \E state \in {"up", "stalled", "down"} : SocketBecomes(d, state)
      PROVE  HeldInv(c)'
  BY <1>2, <1>9 DEF Connect, AcceptFails, HelloEnds, CloseSocket, SocketBecomes, counters, history
<1>10. CASE SetLoop \/ Shutdown \/ LoopCloses \/ (\E p \in Publishers : Publish(p)) \/ UNCHANGED vars
  BY <1>2, <1>10 DEF SetLoop, Shutdown, LoopCloses, Publish, vars, counters, history
<1>. QED
  BY <1>3, <1>4, <1>5, <1>6, <1>7, <1>8, <1>9, <1>10 DEF Next, ClientStep

\* Nothing disappears uncounted: every envelope published is dispatched, waits or is on
\* record as published without a loop; every one offered was sent, dropped or is queued,
\* but for the one in its writer's hand; and the totals of stats() are the sums of the
\* clients' counters (backend/ws_broadcaster.py).
THEOREM Accounted == Spec => []NothingLostUncounted
<1>. DEFINE Inv == /\ TypeOK /\ LifeInv
                   /\ SumOf(published, Publishers) = noLoop + Len(ready) + dispatched
                   /\ totalDropped = SumOf(dropped, Clients) /\ totalSent = SumOf(sent, Clients)
                   /\ \A c \in Clients : HeldInv(c)
<1>1. Init => Inv
  <2>. SUFFICES ASSUME Init PROVE Inv  OBVIOUS
  <2>1. TypeOK /\ LifeInv  BY InitType DEF Init, LifeInv
  <2>2. IsFiniteSet(Publishers) /\ IsFiniteSet(Clients)  BY BroadcasterAssumption
  <2>3. SumOf(published, Publishers) = 0  BY <2>2, SumOfZeros DEF Init
  <2>4. SumOf(dropped, Clients) = 0  BY <2>2, SumOfZeros DEF Init
  <2>5. SumOf(sent, Clients) = 0  BY <2>2, SumOfZeros DEF Init
  <2>6. noLoop = 0 /\ Len(ready) = 0 /\ dispatched = 0 /\ totalDropped = 0 /\ totalSent = 0
    BY DEF Init
  <2>7. \A c \in Clients : HeldInv(c)  BY DEF Init, HeldInv, Held
  <2>. QED  BY <2>1, <2>3, <2>4, <2>5, <2>6, <2>7
<1>2. Inv /\ [Next]_vars => Inv'
  BY TypeStep, LifeStep, PublishedAccount, TotalsStep, HeldStep
<1>3. Inv => NothingLostUncounted  BY DEF NothingLostUncounted, HeldInv, Held
<1>. QED  BY <1>1, <1>2, <1>3, PTL DEF Spec

=============================================================================
