-------------------------- MODULE ReplayPacingProofs --------------------------
(***************************************************************************)
(* Proofs about ReplayPacing and the gate in front of it, for every capture, *)
(* speed, cap, window and number of callers:                                 *)
(*   - PacingImplementsStream: the tick, anchor and re-anchor arithmetic      *)
(*     implements PacedStream (nothing early, nothing twice, no jump of the   *)
(*     virtual clock);                                                        *)
(*   - GateBoundsBursts: the sliding window admits at most MaxRequests calls  *)
(*     that arrived and were admitted within one window, although readings    *)
(*     are taken outside the lock;                                            *)
(*   - CaptureOrderIsRecovered: the cached day is the capture's order;        *)
(*   - VirtualTimesInBucket: the spread of a bucket's flows keeps to it.      *)
(***************************************************************************)
EXTENDS ReplayPacing, TLAPS, FiniteSetTheorems

-----------------------------------------------------------------------------
(* The schedule a capture file yields is well typed *)

\* The number of positions of a sequence with a property is at most its length.
LEMMA CountedPositions ==
    ASSUME NEW n \in Nat, NEW S \in SUBSET (1 .. n)
    PROVE  Cardinality(S) \in 0 .. n /\ IsFiniteSet(S)
<1>1. IsFiniteSet(1 .. n) /\ Cardinality(1 .. n) = n
  BY FS_Interval
<1>2. S \subseteq 1 .. n
  OBVIOUS
<1>3. IsFiniteSet(S) /\ Cardinality(S) <= Cardinality(1 .. n)
  BY <1>1, <1>2, FS_Subset
<1>4. Cardinality(S) \in Nat
  BY <1>3, FS_CardinalityType
<1>. QED  BY <1>1, <1>3, <1>4

\* Every timestamp of a row is an integer.
LEMMA TimestampType ==
    ASSUME NEW row \in Rows
    PROVE  Timestamp(row) \in Int
<1>1. /\ row.hour \in Int /\ row.minute \in Int /\ row.second \in Int
      /\ Minute \in Int
  BY ReaderAssumption DEF Rows
<1>2. (row.hour + 11) % 12 \in Int
  BY <1>1
<1>. DEFINE h == CorrectedHour(PrintedHour(row.hour))
<1>3. h \in Int
  BY <1>2 DEF CorrectedHour, PrintedHour
<1>4. (60 * h + row.minute) * Minute \in Int
  BY <1>1, <1>3
<1>. HIDE DEF h
<1>5. Timestamp(row) = (60 * h + row.minute) * Minute + (IF row.precise THEN row.second ELSE 0)
  BY DEF Timestamp, At, h
<1>. QED  BY <1>1, <1>4, <1>5

\* The place of a flow in its bucket, and the bucket in the day.
LEMMA BucketBounds ==
    ASSUME NEW n \in Nat, NEW ts \in [1 .. n -> Int], NEW i \in 1 .. n
    PROVE  /\ Below(ts, i) \in 0 .. n /\ UpTo(ts, i) \in 0 .. n
           /\ Below(ts, i) < UpTo(ts, i)
<1>. DEFINE B == {j \in DOMAIN ts : ts[j] < ts[i]}
            U == {j \in DOMAIN ts : ts[j] <= ts[i]}
<1>1. B \in SUBSET (1 .. n) /\ U \in SUBSET (1 .. n)
  OBVIOUS
<1>2. /\ Cardinality(B) \in 0 .. n /\ Cardinality(U) \in 0 .. n
      /\ IsFiniteSet(U) /\ IsFiniteSet(B)
  BY <1>1, CountedPositions
<1>3. B \subseteq U /\ i \in U /\ i \notin B
  OBVIOUS
<1>4. Cardinality(B) <= Cardinality(U) /\ (Cardinality(B) = Cardinality(U) => B = U)
  BY <1>2, <1>3, FS_Subset
<1>5. Cardinality(B) # Cardinality(U)
  BY <1>3, <1>4
<1>6. Below(ts, i) = Cardinality(B) /\ UpTo(ts, i) = Cardinality(U)
  BY DEF Below, UpTo
<1>. HIDE DEF B, U
<1>. QED  BY <1>2, <1>4, <1>5, <1>6

\* Virtual times are integers.
LEMMA VirtualTimeType ==
    ASSUME NEW n \in Nat, NEW ts \in [1 .. n -> Int], NEW i \in 1 .. n
    PROVE  VirtualTime(ts, i) \in Int
<1>. DEFINE b == Below(ts, i)  u == UpTo(ts, i)  g == Gap(ts, i)
<1>1. b \in 0 .. n /\ u \in 0 .. n /\ b < u
  BY BucketBounds
<1>2. Len(ts) = n /\ ts \in Seq(Int)
  OBVIOUS
<1>3. g \in Int
  BY <1>1, <1>2 DEF Gap
<1>4. VirtualTime(ts, i) = ts[i] + ((i - 1 - b) * g) \div (u - b)
  BY DEF VirtualTime
<1>. HIDE DEF b, u, g
<1>5. (i - 1 - b) * g \in Int /\ u - b \in Nat \ {0}
  BY <1>1, <1>3
<1>6. ((i - 1 - b) * g) \div (u - b) \in Int
  BY <1>5
<1>. QED  BY <1>4, <1>6

\* A cached day has as many virtual times as timestamps.
DayOK(day) ==
    /\ day.ts \in Seq(Int) /\ day.virtual \in Seq(Int)
    /\ Len(day.virtual) = Len(day.ts)

LEMMA PreloadedOK ==
    ASSUME NEW f \in Seq(Rows), NEW day \in Preloaded(f)
    PROVE  DayOK(day)
<1>. DEFINE E == Emitted(f)  n == Cardinality(E)
<1>1. n \in Nat
  BY CountedPositions, Len(f) \in Nat DEF Emitted
<1>2. PICK r \in Chronological(f) : day = Schedule(f, r)
  BY DEF Preloaded
<1>3. r \in [1 .. n -> E]
  BY DEF Chronological
<1>. DEFINE ts == [i \in 1 .. Len(r) |-> Timestamp(f[r[i]])]
            vt == [i \in 1 .. Len(r) |-> VirtualTime(ts, i)]
<1>4. Len(r) = n
  BY <1>1, <1>3
<1>5. \A i \in 1 .. n : f[r[i]] \in Rows
  <2>1. E \subseteq 1 .. Len(f)
    BY DEF Emitted
  <2>2. \A m \in 1 .. Len(f) : f[m] \in Rows
    OBVIOUS
  <2>. HIDE DEF E, n
  <2>. QED  BY <1>3, <2>1, <2>2
<1>6. ts \in [1 .. n -> Int]
  BY <1>4, <1>5, TimestampType
<1>7. vt \in [1 .. n -> Int]
  <2>. SUFFICES ASSUME NEW i \in 1 .. n  PROVE VirtualTime(ts, i) \in Int
    BY <1>4
  <2>. HIDE DEF ts, n
  <2>. QED  BY <1>1, <1>6, VirtualTimeType
<1>8. day.ts = ts /\ day.virtual = vt
  BY <1>2 DEF Schedule
<1>. HIDE DEF ts, vt, n
<1>. QED  BY <1>1, <1>6, <1>7, <1>8 DEF DayOK

-----------------------------------------------------------------------------
(* The inductive invariant of the pacing *)

\* The types the clock arithmetic needs.
ClockTypes ==
    /\ clock \in Nat /\ anchorWall \in Nat /\ anchorWall <= clock
    /\ anchorVirtual \in Int /\ speed \in Speeds
    /\ schedule \in Seq(Int)
    /\ pointer \in 0 .. Len(schedule) /\ handed \in 0 .. Len(schedule)
    /\ file \in Captures /\ DayOK(cache)

\* What each place of a tick may rely on, although the anchors may have moved
\* since it read the clock.
TickSound ==
    /\ place \in {"off", "head", "tick", "emit", "store", "tail"}
    /\ place \in {"head", "tick", "emit", "tail"} => handed = pointer
    /\ place = "tick" => now \in Nat /\ now <= clock
    /\ place \in {"emit", "store"} => upto \in pointer .. Len(schedule)
    /\ place = "emit" =>
          \A i \in pointer + 1 .. upto : schedule[i] <= VirtualAt(clock)
    /\ place = "store" => handed = upto

PInv == ClockTypes /\ TickSound

\* Only a run that is under way has a thread in a tick.
RunSound == running \in BOOLEAN /\ (place # "off" => running)

LEMMA RunNext == RunSound /\ [Next]_vars => RunSound'
<1>. SUFFICES ASSUME RunSound, [Next]_vars PROVE RunSound'
  OBVIOUS
<1>1. CASE UNCHANGED <<running, place>>
  BY <1>1 DEF RunSound
<1>2. ASSUME NEW c \in Callers,
             Arrives(c) \/ Admitted(c) \/ Refused(c) \/ Conflict(c) \/ SpeedChecked(c)
      PROVE  UNCHANGED <<running, place>>
  BY <1>2 DEF Arrives, Admitted, Refused, Conflict, SpeedChecked, engineVars, threadVars
<1>3. ASSUME NEW c, NEW s, NEW m, NEW v, NEW again, Start(c, s, m, v, again)
      PROVE  RunSound'
  BY <1>3 DEF Start, RunSound
<1>4. ASSUME NEW c, Stop(c)  PROVE RunSound'
  BY <1>4 DEF Stop, RunSound
<1>5. ASSUME NEW c, NEW v, SetSpeed(c, v)  PROVE UNCHANGED <<running, place>>
  BY <1>5 DEF SetSpeed, threadVars
<1>6. CASE NothingScheduled \/ Finish
  BY <1>6 DEF NothingScheduled, Finish, RunSound
<1>7. CASE ReadClock \/ Decide \/ Emit \/ Store \/ Wait \/ NewPass
  <2>1. running' = running /\ place # "off"
    BY <1>7 DEF ReadClock, Decide, Emit, Store, Wait, NewPass, engineVars
  <2>. QED  BY <2>1 DEF RunSound
<1>8. CASE TimePasses \/ UNCHANGED vars
  BY <1>1, <1>8 DEF TimePasses, vars, pacingVars, engineVars, threadVars
<1>. QED  BY <1>1, <1>2, <1>3, <1>4, <1>5, <1>6, <1>7, <1>8 DEF Next

LEMMA SpeedsArePositive ==
    \A v \in Speeds : v \in Nat /\ v > 0
  BY PacingAssumption

\* A later reading of the clock stands for a later virtual time.
LEMMA LaterIsLater ==
    ASSUME NEW v \in Nat, NEW a \in Int, NEW w \in Int,
           NEW x \in Int, NEW y \in Int, x <= y
    PROVE  a + (x - w) * v <= a + (y - w) * v
<1>1. (y - w) * v = (x - w) * v + (y - x) * v
  OBVIOUS
<1>2. (y - x) * v >= 0
  OBVIOUS
<1>. QED  BY <1>1, <1>2

LEMMA NoTimeNoMove ==
    \A a, w, v \in Int : a + (w - w) * v = a
  OBVIOUS

LEMMA VirtualAtType ==
    ASSUME ClockTypes, NEW w \in Int
    PROVE  VirtualAt(w) \in Int
  BY SpeedsArePositive DEF ClockTypes, VirtualAt

\* One unit of real time moves the virtual clock by the speed.
LEMMA OneUnit ==
    ASSUME ClockTypes
    PROVE  anchorVirtual + ((clock + 1) - anchorWall) * speed
              = VirtualAt(clock) + speed
<1>1. speed \in Nat /\ clock \in Int /\ anchorWall \in Int /\ anchorVirtual \in Int
  BY SpeedsArePositive DEF ClockTypes
<1>2. ((clock + 1) - anchorWall) * speed = (clock - anchorWall) * speed + speed
  BY <1>1
<1>3. (clock - anchorWall) * speed \in Int
  BY <1>1
<1>. QED  BY <1>1, <1>2, <1>3 DEF VirtualAt

\* A tick hands over only flows that are due now, whenever it read the clock.
LEMMA DueAtReadingIsDue ==
    ASSUME ClockTypes, NEW i \in 1 .. Len(schedule),
           now \in Nat, now <= clock, schedule[i] <= VirtualAt(now)
    PROVE  schedule[i] <= VirtualAt(clock)
<1>1. VirtualAt(now) <= VirtualAt(clock)
  <2>1. speed \in Nat /\ clock \in Int /\ now \in Int /\ anchorWall \in Int
        /\ anchorVirtual \in Int
    BY SpeedsArePositive DEF ClockTypes
  <2>. QED  BY <2>1, LaterIsLater DEF VirtualAt
<1>2. VirtualAt(now) \in Int /\ VirtualAt(clock) \in Int
  <2>1. clock \in Int /\ now \in Int
    BY DEF ClockTypes
  <2>. QED  BY <2>1, VirtualAtType
<1>3. schedule[i] \in Int
  BY DEF ClockTypes
<1>. QED  BY <1>1, <1>2, <1>3

LEMMA PInvInit == Init => PInv
<1>. SUFFICES ASSUME Init PROVE PInv
  OBVIOUS
<1>1. DayOK(cache)
  BY DEF Init, DayOK, NotLoaded
<1>2. Speeds # {} /\ 1 \in Speeds
  BY PacingAssumption
<1>3. Len(<<>>) = 0 /\ <<>> \in Seq(Int)
  OBVIOUS
<1>. QED  BY <1>1, <1>2, <1>3 DEF Init, PInv, ClockTypes, TickSound

\* start() cuts an integer schedule out of the cached day.
LEMMA PartType ==
    ASSUME NEW day, DayOK(day), NEW s, NEW m \in Limits \cup {Unset}
    PROVE  /\ Part(day, s, m).from \in Nat /\ Part(day, s, m).count \in Nat
           /\ Part(day, s, m).from + Part(day, s, m).count <= Len(day.virtual)
<1>. DEFINE n == Len(day.ts)
            before == {i \in DOMAIN day.ts : day.ts[i] < s}
            from == IF s = Unset THEN 0 ELSE Cardinality(before)
            left == n - from
            count == IF m = Unset \/ m > left THEN left ELSE m
<1>1. n \in Nat /\ DOMAIN day.ts = 1 .. n
  BY DEF DayOK
<1>2. Cardinality(before) \in 0 .. n
  <2>1. before \in SUBSET (1 .. n)
    BY <1>1
  <2>. HIDE DEF n, before
  <2>. QED  BY <1>1, <2>1, CountedPositions
<1>3. from \in 0 .. n
  <2>. HIDE DEF n, before
  <2>. QED  BY <1>1, <1>2
<1>4. left \in Nat
  <2>. HIDE DEF n, from
  <2>. QED  BY <1>1, <1>3
<1>5. count \in 0 .. left
  <2>. HIDE DEF left
  <2>. QED  BY <1>4, PacingAssumption
<1>6. Part(day, s, m) = [from |-> from, count |-> count]
  BY DEF Part
<1>7. Len(day.virtual) = n
  BY DEF DayOK
<1>8. from + count <= n
  <2>1. left = n - from
    OBVIOUS
  <2>. HIDE DEF n, from, count, left
  <2>. QED  BY <1>1, <1>3, <1>4, <1>5, <2>1
<1>. HIDE DEF n, from, count, left
<1>. QED  BY <1>1, <1>3, <1>4, <1>5, <1>6, <1>7, <1>8

-----------------------------------------------------------------------------
(* Every step keeps the invariant and is a step of PacedStream or a stutter *)

\* What a step of PacedStream is, under the mapping of Stream.
StreamStep == Stream!Next \/ UNCHANGED Stream!vars

\* A step that leaves the engine and its thread alone.
LEMMA GateStep ==
    ASSUME PInv, UNCHANGED <<clock, file, cache, engineVars, threadVars, handed>>
    PROVE  PInv' /\ StreamStep
<1>1. VirtualAt(clock)' = VirtualAt(clock)
  BY DEF VirtualAt, engineVars
<1>2. UNCHANGED Stream!vars
  BY <1>1 DEF Stream!vars, engineVars
<1>3. ClockTypes'
  BY DEF PInv, ClockTypes, DayOK, engineVars
<1>4. TickSound'
  BY <1>1 DEF PInv, TickSound, engineVars, threadVars
<1>. QED  BY <1>2, <1>3, <1>4 DEF PInv, StreamStep

LEMMA StartStep ==
    ASSUME PInv, NEW c, NEW s, NEW m \in Limits \cup {Unset}, NEW v \in Speeds,
           NEW again \in BOOLEAN, Start(c, s, m, v, again)
    PROVE  PInv' /\ StreamStep
<1>1. DayOK(cache')
  <2>1. CASE cache = NotLoaded
    <3>1. cache' \in Preloaded(file)
      BY <2>1 DEF Start
    <3>2. file \in Seq(Rows)
      BY PacingAssumption DEF PInv, ClockTypes
    <3>. QED  BY <3>1, <3>2, PreloadedOK
  <2>2. CASE cache # NotLoaded
    BY <2>2 DEF Start, PInv, ClockTypes
  <2>. QED  BY <2>1, <2>2
<1>. DEFINE part == Part(cache', s, m)
<1>2. /\ part.from \in Nat /\ part.count \in Nat
      /\ part.from + part.count <= Len(cache'.virtual)
  BY <1>1, PartType
<1>3. schedule' = [i \in 1 .. part.count |-> cache'.virtual[part.from + i]]
  BY DEF Start
<1>. HIDE DEF part
<1>4. \A i \in 1 .. part.count : cache'.virtual[part.from + i] \in Int
  <2>. DEFINE V == cache'.virtual
  <2>1. V \in Seq(Int)
    BY <1>1 DEF DayOK
  <2>2. \A i \in 1 .. part.count : part.from + i \in 1 .. Len(V)
    BY <1>2, <2>1
  <2>. HIDE DEF V
  <2>3. \A i \in 1 .. part.count : V[part.from + i] \in Int
    BY <2>1, <2>2
  <2>. QED  BY <2>3 DEF V
<1>5. schedule' \in Seq(Int)
  BY <1>2, <1>3, <1>4
<1>6. anchorVirtual' \in Int /\ anchorVirtual' = FirstVirtual(schedule')
  <2>1. schedule' # <<>> => schedule'[1] \in Int
    BY <1>5
  <2>. QED  BY <2>1 DEF Start, FirstVirtual
<1>7. ClockTypes'
  <2>1. Len(schedule') \in Nat
    BY <1>5
  <2>2. clock' \in Nat /\ anchorWall' \in Nat /\ anchorWall' <= clock'
    BY DEF Start, PInv, ClockTypes
  <2>3. speed' \in Speeds /\ file' \in Captures
    BY DEF Start, PInv, ClockTypes
  <2>4. pointer' \in 0 .. Len(schedule') /\ handed' \in 0 .. Len(schedule')
    <3>1. pointer' = 0 /\ handed' = 0
      BY DEF Start
    <3>. QED  BY <2>1, <3>1
  <2>. QED  BY <1>1, <1>5, <1>6, <2>2, <2>3, <2>4 DEF ClockTypes, DayOK
<1>8. TickSound'
  BY DEF Start, TickSound
<1>9. VirtualAt(clock)' = FirstVirtual(schedule')
  <2>1. VirtualAt(clock)' = anchorVirtual' + (clock - clock) * v
    BY DEF Start, VirtualAt
  <2>2. clock \in Int /\ v \in Int
    BY SpeedsArePositive DEF PInv, ClockTypes
  <2>. QED  BY <1>6, <2>1, <2>2, NoTimeNoMove
<1>10. Stream!Begin
  BY <1>9 DEF Start, Stream!Begin, Stream!Beginning, FirstVirtual
<1>. QED  BY <1>7, <1>8, <1>10 DEF PInv, StreamStep, Stream!Next

LEMMA SetSpeedStep ==
    ASSUME PInv, NEW c, NEW v \in Speeds, SetSpeed(c, v)
    PROVE  PInv' /\ StreamStep
<1>1. VirtualAt(clock) \in Int
  <2>1. ClockTypes /\ clock \in Int
    BY DEF PInv, ClockTypes
  <2>. QED  BY <2>1, VirtualAtType
<1>2. VirtualAt(clock)' = VirtualAt(clock)
  <2>1. anchorVirtual' = VirtualAt(clock)
    BY DEF SetSpeed, VirtualAt
  <2>2. VirtualAt(clock)' = anchorVirtual' + (clock - clock) * v
    BY DEF SetSpeed, VirtualAt
  <2>3. (clock - clock) * v = 0
    BY SpeedsArePositive DEF PInv, ClockTypes
  <2>. QED  BY <1>1, <2>1, <2>2, <2>3
<1>3. ClockTypes'
  BY <1>1 DEF SetSpeed, PInv, ClockTypes, VirtualAt
<1>4. TickSound'
  BY <1>2 DEF SetSpeed, PInv, TickSound, threadVars
<1>5. Stream!ChangeRate
  BY <1>2 DEF SetSpeed, Stream!ChangeRate
<1>. QED  BY <1>3, <1>4, <1>5 DEF PInv, StreamStep, Stream!Next

\* A step of the thread that hands nothing over and moves no anchor; it may end
\* the run.
LEMMA QuietStep ==
    ASSUME PInv, RunSound,
           running' = running \/ (running' = FALSE /\ place' = "off"),
           UNCHANGED <<clock, file, cache, schedule, pointer, speed, anchorWall,
                       anchorVirtual, upto, handed>>,
           \/ place' \in {"off", "head"} /\ place \in {"off", "head", "tail"}
              /\ (place' = "head" => place \in {"head", "tail"})
           \/ place' = "tick" /\ place = "head" /\ now' = clock
    PROVE  PInv' /\ StreamStep
<1>1. VirtualAt(clock)' = VirtualAt(clock)
  BY DEF VirtualAt
<1>2. StreamStep
  <2>1. CASE running' = running
    BY <1>1, <2>1 DEF Stream!vars, StreamStep
  <2>2. CASE running /\ running' = FALSE
    <3>1. Stream!End
      BY <1>1, <2>2 DEF Stream!End
    <3>. QED  BY <3>1 DEF StreamStep, Stream!Next
  <2>3. running \in BOOLEAN
    BY DEF RunSound
  <2>. QED  BY <2>1, <2>2, <2>3
<1>3. ClockTypes'
  BY DEF PInv, ClockTypes, DayOK
<1>4. TickSound'
  BY <1>1 DEF PInv, ClockTypes, TickSound
<1>. QED  BY <1>2, <1>3, <1>4 DEF PInv

LEMMA DecideStep ==
    ASSUME PInv, Decide
    PROVE  PInv' /\ StreamStep
<1>1. VirtualAt(clock)' = VirtualAt(clock)
  BY DEF Decide, VirtualAt
<1>2. UNCHANGED Stream!vars
  BY <1>1 DEF Decide, Stream!vars
<1>3. ClockTypes'
  BY DEF Decide, PInv, ClockTypes, DayOK
<1>4. now \in Nat /\ now <= clock /\ handed = pointer
  BY DEF Decide, PInv, TickSound
<1>5. PICK idx \in pointer .. Len(schedule) :
         /\ IsDueIndex(idx)
         /\ IF idx = pointer
              THEN place' = "tail" /\ UNCHANGED <<upto, lag>>
              ELSE /\ place' = "emit" /\ upto' = Capped(idx)
                   /\ lag' = Latest(VirtualAt(now) - schedule[upto'])
  BY DEF Decide
<1>6. Capped(idx) \in pointer .. idx
  <2>1. pointer \in Nat /\ idx \in Nat /\ pointer <= idx /\ TickCap \in Nat
    BY PacingAssumption DEF PInv, ClockTypes
  <2>. QED  BY <2>1 DEF Capped
<1>7. \A i \in pointer + 1 .. idx : schedule[i] <= VirtualAt(clock)
  <2>. SUFFICES ASSUME NEW i \in pointer + 1 .. idx
                PROVE  schedule[i] <= VirtualAt(clock)
    OBVIOUS
  <2>1. i \in 1 .. Len(schedule)
    BY DEF PInv, ClockTypes
  <2>2. schedule[i] <= VirtualAt(now)
    BY <1>5 DEF IsDueIndex
  <2>. QED  BY <1>4, <2>1, <2>2, DueAtReadingIsDue DEF PInv
<1>8. CASE idx = pointer
  <2>1. place' = "tail"
    BY <1>5, <1>8
  <2>2. TickSound'
    BY <1>4, <2>1 DEF Decide, TickSound
  <2>. QED  BY <1>2, <1>3, <2>2 DEF PInv, StreamStep
<1>9. CASE idx # pointer
  <2>1. place' = "emit" /\ upto' = Capped(idx)
    BY <1>5, <1>9
  <2>2. upto' \in pointer .. Len(schedule)
    BY <1>6, <2>1 DEF PInv, ClockTypes
  <2>3. \A i \in pointer + 1 .. upto' : schedule[i] <= VirtualAt(clock)
    BY <1>6, <1>7, <2>1 DEF PInv, ClockTypes
  <2>4. UNCHANGED <<clock, schedule, pointer, handed>>
    BY DEF Decide
  <2>5. TickSound'
    BY <1>1, <1>4, <2>1, <2>2, <2>3, <2>4 DEF TickSound
  <2>. QED  BY <1>2, <1>3, <2>5 DEF PInv, StreamStep
<1>. QED  BY <1>8, <1>9

LEMMA EmitStep ==
    ASSUME PInv, RunSound, Emit
    PROVE  PInv' /\ StreamStep
<1>1. VirtualAt(clock)' = VirtualAt(clock)
  BY DEF Emit, VirtualAt, engineVars
<1>2. /\ handed = pointer /\ upto \in pointer .. Len(schedule)
      /\ \A i \in pointer + 1 .. upto : schedule[i] <= VirtualAt(clock)
  BY DEF Emit, PInv, TickSound
<1>3. ClockTypes'
  <2>1. upto \in 0 .. Len(schedule)
    BY <1>2 DEF PInv, ClockTypes
  <2>. QED  BY <2>1 DEF Emit, PInv, ClockTypes, DayOK, engineVars
<1>4. TickSound'
  BY <1>2 DEF Emit, PInv, TickSound, engineVars
<1>5. Stream!HandOver
  <2>1. running /\ running' = running
    BY DEF Emit, RunSound, engineVars
  <2>. QED  BY <1>1, <1>2, <2>1 DEF Emit, Stream!HandOver, engineVars
<1>. QED  BY <1>3, <1>4, <1>5 DEF PInv, StreamStep, Stream!Next

LEMMA StoreStep ==
    ASSUME PInv, Store
    PROVE  PInv' /\ StreamStep
<1>1. VirtualAt(clock)' = VirtualAt(clock)
  BY DEF Store, VirtualAt
<1>2. UNCHANGED Stream!vars
  BY <1>1 DEF Store, Stream!vars
<1>3. handed = upto /\ upto \in pointer .. Len(schedule)
  BY DEF Store, PInv, TickSound
<1>4. ClockTypes'
  <2>1. upto \in 0 .. Len(schedule)
    BY <1>3 DEF PInv, ClockTypes
  <2>. QED  BY <2>1 DEF Store, PInv, ClockTypes, DayOK
<1>5. TickSound'
  BY <1>3 DEF Store, TickSound
<1>. QED  BY <1>2, <1>4, <1>5 DEF PInv, StreamStep

LEMMA NewPassStep ==
    ASSUME PInv, RunSound, NewPass
    PROVE  PInv' /\ StreamStep
<1>1. handed = Len(schedule)
  BY DEF NewPass, PInv, TickSound, ClockTypes
<1>2. FirstVirtual(schedule) \in Int
  BY DEF PInv, ClockTypes, FirstVirtual
<1>3. VirtualAt(clock)' = FirstVirtual(schedule)
  <2>1. VirtualAt(clock)' = FirstVirtual(schedule) + (clock - clock) * speed
    BY DEF NewPass, VirtualAt
  <2>2. (clock - clock) * speed = 0
    BY SpeedsArePositive DEF PInv, ClockTypes
  <2>. QED  BY <1>2, <2>1, <2>2
<1>4. ClockTypes'
  BY <1>2 DEF NewPass, PInv, ClockTypes, DayOK
<1>5. TickSound'
  BY DEF NewPass, TickSound
<1>6. Stream!Again
  <2>1. running /\ running' = running
    BY DEF NewPass, RunSound
  <2>. QED  BY <1>1, <1>3, <2>1 DEF NewPass, Stream!Again, Stream!Beginning, FirstVirtual
<1>. QED  BY <1>4, <1>5, <1>6 DEF PInv, StreamStep, Stream!Next

LEMMA TimeStep ==
    ASSUME PInv, TimePasses
    PROVE  PInv' /\ StreamStep
<1>1. clock' = clock + 1 /\ UNCHANGED pacingVars
  BY DEF TimePasses, Elapse
<1>2. VirtualAt(clock)' = VirtualAt(clock) + speed
  <2>1. VirtualAt(clock)' = anchorVirtual + ((clock + 1) - anchorWall) * speed
    BY <1>1 DEF VirtualAt, pacingVars, engineVars
  <2>. QED  BY <2>1, OneUnit DEF PInv
<1>3. ClockTypes'
  BY <1>1 DEF PInv, ClockTypes, DayOK, pacingVars, engineVars
<1>4. VirtualAt(clock) \in Int /\ speed \in Nat
  <2>1. ClockTypes /\ clock \in Int
    BY DEF PInv, ClockTypes
  <2>2. speed \in Nat
    BY SpeedsArePositive DEF PInv, ClockTypes
  <2>. QED  BY <2>1, <2>2, VirtualAtType
<1>5. TickSound'
  <2>1. UNCHANGED <<place, now, upto, pointer, handed, schedule>>
    BY <1>1 DEF pacingVars, engineVars, threadVars
  <2>2. place = "emit" =>
           \A i \in pointer + 1 .. upto : schedule[i] <= VirtualAt(clock)'
    <3>. SUFFICES ASSUME place = "emit", NEW i \in pointer + 1 .. upto
                  PROVE  schedule[i] <= VirtualAt(clock)'
      OBVIOUS
    <3>1. schedule[i] <= VirtualAt(clock)
      BY DEF PInv, TickSound
    <3>2. schedule[i] \in Int
      BY DEF PInv, TickSound, ClockTypes
    <3>. QED  BY <1>2, <1>4, <3>1, <3>2
  <2>3. place = "tick" => now \in Nat /\ now <= clock'
    BY <1>1 DEF PInv, TickSound, ClockTypes
  <2>. QED  BY <2>1, <2>2, <2>3 DEF PInv, TickSound
<1>6. Stream!Pass
  BY <1>1, <1>2 DEF Stream!Pass, pacingVars, engineVars
<1>. QED  BY <1>3, <1>5, <1>6 DEF PInv, StreamStep, Stream!Next

LEMMA PInvNext == PInv /\ RunSound /\ [Next]_vars => PInv' /\ StreamStep
<1>. SUFFICES ASSUME PInv, RunSound, [Next]_vars PROVE PInv' /\ StreamStep
  OBVIOUS
<1>1. ASSUME NEW c \in Callers,
             Arrives(c) \/ Admitted(c) \/ Refused(c) \/ Conflict(c) \/ SpeedChecked(c)
      PROVE  PInv' /\ StreamStep
  <2>1. UNCHANGED <<clock, file, cache, engineVars, threadVars, handed>>
    BY <1>1 DEF Arrives, Admitted, Refused, Conflict, SpeedChecked
  <2>. QED  BY <2>1, GateStep
<1>2. ASSUME NEW c \in Callers, NEW s, NEW m \in Limits \cup {Unset},
             NEW v \in Speeds, NEW again \in BOOLEAN, Start(c, s, m, v, again)
      PROVE  PInv' /\ StreamStep
  BY <1>2, StartStep
<1>3. ASSUME NEW c \in Callers, Stop(c)
      PROVE  PInv' /\ StreamStep
  BY <1>3, QuietStep DEF Stop
<1>4. ASSUME NEW c \in Callers, NEW v \in Speeds, SetSpeed(c, v)
      PROVE  PInv' /\ StreamStep
  BY <1>4, SetSpeedStep
<1>5. CASE NothingScheduled \/ Finish
  BY <1>5, QuietStep DEF NothingScheduled, Finish
<1>6. CASE ReadClock
  BY <1>6, QuietStep DEF ReadClock, engineVars
<1>7. CASE Decide
  BY <1>7, DecideStep
<1>8. CASE Emit
  BY <1>8, EmitStep
<1>9. CASE Store
  BY <1>9, StoreStep
<1>10. CASE Wait
  BY <1>10, QuietStep DEF Wait, engineVars
<1>11. CASE NewPass
  BY <1>11, NewPassStep
<1>12. CASE TimePasses
  BY <1>12, TimeStep
<1>13. CASE UNCHANGED vars
  <2>1. UNCHANGED <<clock, file, cache, engineVars, threadVars, handed>>
    BY <1>13 DEF vars, pacingVars
  <2>. QED  BY <2>1, GateStep
<1>. QED  BY <1>1, <1>2, <1>3, <1>4, <1>5, <1>6, <1>7, <1>8, <1>9, <1>10, <1>11,
             <1>12, <1>13 DEF Next

LEMMA StreamInit == Init => Stream!Init
<1>. SUFFICES ASSUME Init PROVE Stream!Init
  OBVIOUS
<1>1. VirtualAt(clock) = 0
  BY DEF Init, VirtualAt
<1>. QED  BY <1>1, PacingAssumption DEF Init, Stream!Init

\* The replay thread with its ticks, stale clock readings, anchors and operators
\* implements the stream without any of them (replay_engine.py, wall_target,
\* due_index, set_speed, _tick_once and _start_new_loop_iteration).
THEOREM PacingImplementsStream == Spec => PacesTheStream
<1>1. Init => PInv /\ RunSound /\ Stream!Init
  BY PInvInit, StreamInit DEF Init, RunSound
<1>2. PInv /\ RunSound /\ [Next]_vars
        => PInv' /\ RunSound' /\ [Stream!Next]_(Stream!vars)
  BY PInvNext, RunNext DEF StreamStep
<1>. QED  BY <1>1, <1>2, PTL DEF Spec, PacesTheStream, Stream!Spec

-----------------------------------------------------------------------------
(* The gate *)

\* A remembered call is still counted against its key, or it is older than the
\* window: a stale caller can only have pruned what is too old by now.
GInv ==
    /\ clock \in Nat
    /\ IsFiniteSet(DOMAIN calls)
    /\ hits \in [Keys -> SUBSET DOMAIN calls]
    /\ \A k \in Keys : \A n \in hits[k] : calls[n].key = k
    /\ \A c \in Callers : reading[c] # NoReading => reading[c] \in Nat /\ reading[c] <= clock
    /\ DOMAIN reading = Callers
    /\ \A n \in DOMAIN calls :
          /\ calls[n].key \in Keys /\ calls[n].read \in Nat
          /\ n \in hits[calls[n].key] \/ calls[n].read + Window <= clock

LEMMA GateInit == Init => GInv /\ BurstBound
<1>. SUFFICES ASSUME Init PROVE GInv /\ BurstBound
  OBVIOUS
<1>1. DOMAIN calls = {} /\ clock = 0
  BY DEF Init, LimiterInit
<1>2. GInv
  <2>1. IsFiniteSet(DOMAIN calls)
    BY <1>1, FS_EmptySet
  <2>. QED  BY <1>1, <2>1 DEF Init, LimiterInit, GInv
<1>3. BurstBound
  <2>. SUFFICES ASSUME NEW k \in Keys PROVE Cardinality(Burst(k)) <= MaxRequests
    BY DEF BurstBound
  <2>1. Burst(k) = {}
    BY <1>1 DEF Burst
  <2>. QED  BY <2>1, FS_EmptySet, LimiterAssumption
<1>. QED  BY <1>2, <1>3

LEMMA BurstsAreFinite ==
    ASSUME GInv, NEW k
    PROVE  IsFiniteSet(Burst(k)) /\ Cardinality(Burst(k)) \in Nat
<1>1. Burst(k) \in SUBSET DOMAIN calls
  BY DEF Burst
<1>. QED  BY <1>1, FS_Subset, FS_CardinalityType DEF GInv

LEMMA FreshIsFinite ==
    ASSUME GInv, NEW c \in Callers
    PROVE  /\ Fresh(c) \subseteq hits[KeyOf[c]] /\ Fresh(c) \subseteq DOMAIN calls
           /\ IsFiniteSet(Fresh(c)) /\ Cardinality(Fresh(c)) \in Nat
<1>1. KeyOf[c] \in Keys
  BY LimiterAssumption
<1>2. Fresh(c) \subseteq hits[KeyOf[c]] /\ Fresh(c) \in SUBSET DOMAIN calls
  BY <1>1 DEF Fresh, GInv
<1>. QED  BY <1>2, FS_Subset, FS_CardinalityType DEF GInv

\* Dropping what is not fresh keeps the invariant's last clause.
LEMMA PrunedIsOld ==
    ASSUME GInv, NEW c \in Callers, reading[c] # NoReading,
           NEW n \in DOMAIN calls, calls[n].key = KeyOf[c], n \notin Fresh(c)
    PROVE  calls[n].read + Window <= clock
<1>1. reading[c] \in Nat /\ reading[c] <= clock /\ clock \in Nat /\ Window \in Nat
  BY LimiterAssumption DEF GInv
<1>2. calls[n].read \in Nat
  BY DEF GInv
<1>3. CASE n \in hits[KeyOf[c]]
  <2>1. ~(calls[n].read + Window > reading[c])
    BY <1>3 DEF Fresh
  <2>. QED  BY <1>1, <1>2, <2>1
<1>4. CASE n \notin hits[KeyOf[c]]
  BY <1>4 DEF GInv
<1>. QED  BY <1>3, <1>4

LEMMA GateAdmit ==
    ASSUME GInv, BurstBound, NEW c \in Callers, Admit(c), UNCHANGED clock
    PROVE  GInv' /\ BurstBound'
<1>. DEFINE k == KeyOf[c]  new == NewCall  D == DOMAIN calls
            entry == [key |-> KeyOf[c], read |-> reading[c], at |-> clock]
<1>1. k \in Keys
  BY LimiterAssumption
<1>2. new \notin D
  BY DEF Admit, NewCall
<1>3. reading[c] # NoReading /\ reading[c] \in Nat /\ reading[c] <= clock
  BY DEF Admit, GInv
<1>4. calls' = [n \in D \cup {new} |-> IF n = new THEN entry ELSE calls[n]]
  BY DEF Admit
<1>5. /\ DOMAIN calls' = D \cup {new} /\ calls'[new] = entry
      /\ \A n \in D : calls'[n] = calls[n]
  <2>. HIDE DEF D, new, entry
  <2>. QED  BY <1>2, <1>4
<1>6. hits' = [hits EXCEPT ![k] = Fresh(c) \cup {new}]
  BY DEF Admit
<1>7. Fresh(c) \subseteq hits[k] /\ Fresh(c) \subseteq D /\ IsFiniteSet(Fresh(c))
      /\ Cardinality(Fresh(c)) \in Nat
  BY FreshIsFinite
<1>8. IsFiniteSet(DOMAIN calls')
  BY <1>5, FS_AddElement DEF GInv
<1>9. hits \in [Keys -> SUBSET D]
  BY DEF GInv
<1>10. /\ hits'[k] = Fresh(c) \cup {new}
       /\ \A j \in Keys : j # k => hits'[j] = hits[j]
  <2>. HIDE DEF k, new
  <2>. QED  BY <1>1, <1>6, <1>9
<1>11. hits' \in [Keys -> SUBSET DOMAIN calls']
  <2>. HIDE DEF k, new, D
  <2>. QED  BY <1>1, <1>5, <1>6, <1>7, <1>9
<1>12. entry.key = k /\ entry.read = reading[c]
  OBVIOUS
<1>13. \A j \in Keys : \A n \in hits'[j] : calls'[n].key = j
  <2>. SUFFICES ASSUME NEW j \in Keys, NEW n \in hits'[j]
                PROVE  calls'[n].key = j
    OBVIOUS
  <2>1. CASE j = k
    <3>1. n = new \/ n \in hits[k]
      BY <1>7, <1>10, <2>1
    <3>2. n \in hits[k] => n \in D /\ calls[n].key = k
      BY <1>1, <1>9 DEF GInv
    <3>. QED  BY <1>5, <1>12, <2>1, <3>1, <3>2
  <2>2. CASE j # k
    <3>1. n \in hits[j]
      BY <1>10, <2>2
    <3>2. n \in D /\ calls[n].key = j
      BY <1>9, <3>1 DEF GInv
    <3>. QED  BY <1>5, <3>2
  <2>. QED  BY <2>1, <2>2
<1>14. \A n \in D : calls[n].key = k /\ n \notin Fresh(c)
                       => calls[n].read + Window <= clock
  BY <1>3, PrunedIsOld
<1>15. \A n \in DOMAIN calls' :
          /\ calls'[n].key \in Keys /\ calls'[n].read \in Nat
          /\ n \in hits'[calls'[n].key] \/ calls'[n].read + Window <= clock
  <2>. SUFFICES ASSUME NEW n \in DOMAIN calls'
                PROVE  /\ calls'[n].key \in Keys /\ calls'[n].read \in Nat
                       /\ n \in hits'[calls'[n].key] \/ calls'[n].read + Window <= clock
    OBVIOUS
  <2>1. CASE n = new
    BY <1>1, <1>3, <1>5, <1>10, <1>12, <2>1
  <2>2. CASE n # new
    <3>1. n \in D /\ calls'[n] = calls[n]
      BY <1>5, <2>2
    <3>2. /\ calls[n].key \in Keys /\ calls[n].read \in Nat
          /\ n \in hits[calls[n].key] \/ calls[n].read + Window <= clock
      BY <3>1 DEF GInv
    <3>3. CASE calls[n].key = k
      BY <1>10, <1>14, <3>1, <3>2, <3>3
    <3>4. CASE calls[n].key # k
      BY <1>10, <3>1, <3>2, <3>4
    <3>. QED  BY <3>3, <3>4
  <2>. QED  BY <2>1, <2>2
<1>16. /\ DOMAIN reading' = Callers
       /\ \A d \in Callers : reading'[d] # NoReading
                                => reading'[d] \in Nat /\ reading'[d] <= clock
  BY DEF Admit, GInv
<1>17. GInv'
  BY <1>8, <1>11, <1>13, <1>15, <1>16 DEF GInv
<1>18. BurstBound'
  <2>. SUFFICES ASSUME NEW j \in Keys
                PROVE  Cardinality(Burst(j)') <= MaxRequests
    BY DEF BurstBound
  <2>1. CASE j # k
    <3>1. Burst(j)' = Burst(j)
      BY <1>5, <1>12, <2>1 DEF Burst
    <3>. QED  BY <3>1 DEF BurstBound
  <2>2. CASE j = k
    <3>1. Burst(j)' \subseteq Fresh(c) \cup {new}
      <4>. SUFFICES ASSUME NEW n \in Burst(j)', n # new PROVE n \in Fresh(c)
        OBVIOUS
      <4>1. n \in D /\ calls[n].key = k /\ calls[n].read + Window > clock
        BY <1>5, <2>2 DEF Burst
      <4>2. calls[n].read \in Nat /\ clock \in Nat /\ Window \in Nat
        BY <4>1, LimiterAssumption DEF GInv
      <4>3. ~(calls[n].read + Window <= clock)
        BY <4>1, <4>2
      <4>. QED  BY <1>14, <4>1, <4>3
    <3>2. /\ IsFiniteSet(Fresh(c) \cup {new})
          /\ Cardinality(Fresh(c) \cup {new}) = Cardinality(Fresh(c)) + 1
      <4>1. new \notin Fresh(c)
        BY <1>2, <1>7
      <4>. QED  BY <1>7, <4>1, FS_AddElement
    <3>3. Cardinality(Burst(j)') <= Cardinality(Fresh(c) \cup {new})
      BY <3>1, <3>2, FS_Subset
    <3>4. Cardinality(Fresh(c)) < MaxRequests
      BY DEF Admit
    <3>5. Cardinality(Burst(j)') \in Nat
      BY <3>1, <3>2, FS_Subset, FS_CardinalityType
    <3>. QED  BY <1>7, <3>2, <3>3, <3>4, <3>5, LimiterAssumption
  <2>. QED  BY <2>1, <2>2
<1>. QED  BY <1>17, <1>18

LEMMA GateRefuse ==
    ASSUME GInv, BurstBound, NEW c \in Callers, Refuse(c), UNCHANGED clock
    PROVE  GInv' /\ BurstBound'
<1>. DEFINE k == KeyOf[c]
<1>1. k \in Keys
  BY LimiterAssumption
<1>2. hits' = [hits EXCEPT ![k] = Fresh(c)] /\ calls' = calls
  BY DEF Refuse
<1>3. Fresh(c) \subseteq hits[k] /\ Fresh(c) \subseteq DOMAIN calls
  BY FreshIsFinite
<1>4. hits \in [Keys -> SUBSET DOMAIN calls]
  BY DEF GInv
<1>5. hits'[k] = Fresh(c) /\ \A j \in Keys : j # k => hits'[j] = hits[j]
  <2>. HIDE DEF k
  <2>. QED  BY <1>1, <1>2, <1>4
<1>6. hits' \in [Keys -> SUBSET DOMAIN calls']
  <2>. HIDE DEF k
  <2>. QED  BY <1>1, <1>2, <1>3, <1>4
<1>7. \A j \in Keys : \A n \in hits'[j] : calls'[n].key = j
  <2>. HIDE DEF k
  <2>. QED  BY <1>1, <1>2, <1>3, <1>5 DEF GInv
<1>8. \A n \in DOMAIN calls : calls[n].key = k /\ n \notin Fresh(c)
                                  => calls[n].read + Window <= clock
  BY PrunedIsOld DEF Refuse
<1>9. \A n \in DOMAIN calls' :
         /\ calls'[n].key \in Keys /\ calls'[n].read \in Nat
         /\ n \in hits'[calls'[n].key] \/ calls'[n].read + Window <= clock
  <2>. HIDE DEF k
  <2>. QED  BY <1>1, <1>2, <1>5, <1>8 DEF GInv
<1>10. /\ DOMAIN reading' = Callers
       /\ \A d \in Callers : reading'[d] # NoReading
                                => reading'[d] \in Nat /\ reading'[d] <= clock
  BY DEF Refuse, GInv
<1>11. GInv'
  BY <1>2, <1>6, <1>7, <1>9, <1>10 DEF GInv
<1>12. BurstBound'
  BY <1>2 DEF BurstBound, Burst
<1>. QED  BY <1>11, <1>12

LEMMA GateElapse ==
    ASSUME GInv, BurstBound, Elapse
    PROVE  GInv' /\ BurstBound'
<1>. DEFINE R == Remembered(clock + 1)
<1>1. clock' = clock + 1 /\ calls' = [n \in R |-> calls[n]] /\ UNCHANGED <<hits, reading>>
  BY DEF Elapse
<1>2. R \in SUBSET DOMAIN calls
  BY DEF Remembered
<1>3. IsFiniteSet(R)
  BY <1>2, FS_Subset DEF GInv
<1>4. DOMAIN calls' = R /\ \A n \in R : calls'[n] = calls[n]
  BY <1>1
<1>5. \A k \in Keys : hits[k] \subseteq R
  <2>. SUFFICES ASSUME NEW k \in Keys, NEW n \in hits[k] PROVE n \in R
    OBVIOUS
  <2>1. n \in DOMAIN calls /\ calls[n].key = k
    BY DEF GInv
  <2>. QED  BY <2>1 DEF Remembered
<1>6. clock \in Nat /\ Window \in Nat
  BY LimiterAssumption DEF GInv
<1>7. \A n \in DOMAIN calls : calls[n].read \in Nat
  BY DEF GInv
<1>. HIDE DEF R
<1>8. hits' \in [Keys -> SUBSET DOMAIN calls']
  BY <1>1, <1>4, <1>5 DEF GInv
<1>9. \A k \in Keys : \A n \in hits'[k] : calls'[n].key = k
  BY <1>1, <1>4, <1>5 DEF GInv
<1>10. \A n \in DOMAIN calls' :
          /\ calls'[n].key \in Keys /\ calls'[n].read \in Nat
          /\ n \in hits'[calls'[n].key] \/ calls'[n].read + Window <= clock'
  <2>. SUFFICES ASSUME NEW n \in R
                PROVE  /\ calls[n].key \in Keys /\ calls[n].read \in Nat
                       /\ n \in hits[calls[n].key] \/ calls[n].read + Window <= clock + 1
    BY <1>1, <1>4
  <2>1. /\ calls[n].key \in Keys /\ calls[n].read \in Nat
        /\ n \in hits[calls[n].key] \/ calls[n].read + Window <= clock
    BY <1>2 DEF GInv
  <2>. QED  BY <1>6, <2>1
<1>11. /\ DOMAIN reading' = Callers
       /\ \A d \in Callers : reading'[d] # NoReading
                                => reading'[d] \in Nat /\ reading'[d] <= clock'
  BY <1>1, <1>6 DEF GInv
<1>12. GInv'
  BY <1>1, <1>3, <1>4, <1>6, <1>8, <1>9, <1>10, <1>11 DEF GInv
<1>13. BurstBound'
  <2>. SUFFICES ASSUME NEW k \in Keys
                PROVE  Cardinality(Burst(k)') <= MaxRequests
    BY DEF BurstBound
  <2>1. Burst(k)' \subseteq Burst(k)
    BY <1>1, <1>2, <1>4, <1>6, <1>7 DEF Burst
  <2>2. Cardinality(Burst(k)') <= Cardinality(Burst(k)) /\ Cardinality(Burst(k)') \in Nat
    BY <2>1, BurstsAreFinite, FS_Subset, FS_CardinalityType
  <2>3. Cardinality(Burst(k)) <= MaxRequests /\ Cardinality(Burst(k)) \in Nat
    BY BurstsAreFinite DEF BurstBound
  <2>. QED  BY <2>2, <2>3, LimiterAssumption
<1>. QED  BY <1>12, <1>13

LEMMA GateSame ==
    ASSUME GInv, BurstBound, UNCHANGED <<clock, limiterVars>>
    PROVE  GInv' /\ BurstBound'
  BY DEF GInv, BurstBound, Burst, limiterVars

LEMMA GateNext == GInv /\ BurstBound /\ [Next]_vars => (GInv /\ BurstBound)'
<1>. SUFFICES ASSUME GInv, BurstBound, [Next]_vars PROVE GInv' /\ BurstBound'
  OBVIOUS
<1>1. ASSUME NEW c \in Callers, Arrives(c)
      PROVE  GInv' /\ BurstBound'
  <2>1. /\ reading' = [reading EXCEPT ![c] = clock]
        /\ hits' = hits /\ calls' = calls /\ clock' = clock
    BY <1>1 DEF Arrives, Arrive
  <2>2. GInv'
    BY <2>1 DEF GInv
  <2>3. BurstBound'
    BY <2>1 DEF BurstBound, Burst
  <2>. QED  BY <2>2, <2>3
<1>2. ASSUME NEW c \in Callers, Admitted(c)
      PROVE  GInv' /\ BurstBound'
  BY <1>2, GateAdmit DEF Admitted
<1>3. ASSUME NEW c \in Callers, Refused(c)
      PROVE  GInv' /\ BurstBound'
  BY <1>3, GateRefuse DEF Refused
<1>4. CASE TimePasses
  BY <1>4, GateElapse DEF TimePasses
<1>5. ASSUME NEW c \in Callers, Conflict(c) \/ SpeedChecked(c) \/ Stop(c)
      PROVE  GInv' /\ BurstBound'
  BY <1>5, GateSame DEF Conflict, SpeedChecked, Stop
<1>6. ASSUME NEW c \in Callers, NEW v \in Speeds, SetSpeed(c, v)
      PROVE  GInv' /\ BurstBound'
  BY <1>6, GateSame DEF SetSpeed
<1>7. ASSUME NEW c \in Callers, NEW s, NEW m, NEW v, NEW again, Start(c, s, m, v, again)
      PROVE  GInv' /\ BurstBound'
  BY <1>7, GateSame DEF Start
<1>8. CASE \/ NothingScheduled \/ ReadClock \/ Decide \/ Emit \/ Store
           \/ Wait \/ NewPass \/ Finish
  BY <1>8, GateSame
     DEF NothingScheduled, ReadClock, Decide, Emit, Store, Wait, NewPass, Finish
<1>9. CASE UNCHANGED vars
  BY <1>9, GateSame DEF vars
<1>. QED  BY <1>1, <1>2, <1>3, <1>4, <1>5, <1>6, <1>7, <1>8, <1>9 DEF Next

\* Whatever stale clock readings the route threads bring to the lock, no more
\* than MaxRequests calls of an address that arrived and were admitted within one
\* window are let through (security.py, RateLimiter.allow).
THEOREM GateBoundsBursts == Spec => []BurstBound
<1>1. Init => GInv /\ BurstBound
  BY GateInit
<1>2. GInv /\ BurstBound /\ [Next]_vars => (GInv /\ BurstBound)'
  BY GateNext
<1>. QED  BY <1>1, <1>2, PTL DEF Spec

-----------------------------------------------------------------------------
(* The day a capture file yields *)

\* In working hours the hour the file prints is one hour of the day.
LEMMA HourIsRestored ==
    ASSUME NEW h \in 8 .. 19
    PROVE  CorrectedHour(PrintedHour(h)) = h
<1>1. CASE h \in 8 .. 12
  <2>1. (h + 11) % 12 = h - 1
    BY <1>1
  <2>. QED  BY <1>1, <2>1 DEF CorrectedHour, PrintedHour
<1>2. CASE h \in 13 .. 19
  <2>1. (h + 11) % 12 = h - 13
    BY <1>2
  <2>. QED  BY <1>2, <2>1 DEF CorrectedHour, PrintedHour
<1>. QED  BY <1>1, <1>2

LEMMA TimestampIsTrue ==
    ASSUME NEW row \in Rows, row.hour \in 8 .. 19
    PROVE  Timestamp(row) = TrueTime(row)
  BY HourIsRestored DEF Timestamp, TrueTime

\* A row is emitted, or it is in exactly one counter.
LEMMA OneOutcome ==
    ASSUME NEW row \in Rows
    PROVE  /\ Outcomes(row) = {} <=> row.defects = {}
           /\ Outcomes(row) \in {{}, {"ragged"}, {"header"}, {"time"}, {"field"}}
<1>1. row.defects \in SUBSET {"ragged", "header", "field", "time"}
  BY DEF Rows, Defects
<1>2. CASE row.defects = {}
  BY <1>2 DEF Outcomes
<1>3. CASE "ragged" \in row.defects
  <2>1. row.defects # {}
    BY <1>3
  <2>. QED  BY <1>3, <2>1 DEF Outcomes
<1>4. CASE "ragged" \notin row.defects /\ "header" \in row.defects
  <2>1. row.defects # {}
    BY <1>4
  <2>. QED  BY <1>4, <2>1 DEF Outcomes
<1>5. CASE row.defects \cap {"ragged", "header"} = {} /\ "time" \in row.defects
  <2>1. row.defects # {} /\ "ragged" \notin row.defects /\ "header" \notin row.defects
    BY <1>5
  <2>. QED  BY <1>5, <2>1 DEF Outcomes
<1>6. CASE row.defects = {"field"}
  <2>1. row.defects # {} /\ "ragged" \notin row.defects /\ "header" \notin row.defects
        /\ "time" \notin row.defects
    BY <1>6
  <2>. QED  BY <1>6, <2>1 DEF Outcomes
<1>. QED  BY <1>1, <1>2, <1>3, <1>4, <1>5, <1>6

\* Two finite sets without a common element.
LEMMA DisjointUnion ==
    ASSUME NEW S, NEW T, IsFiniteSet(S), IsFiniteSet(T), S \cap T = {}
    PROVE  /\ IsFiniteSet(S \cup T)
           /\ Cardinality(S \cup T) = Cardinality(S) + Cardinality(T)
<1>1. Cardinality({}) = 0
  BY FS_EmptySet
<1>2. Cardinality(S) \in Nat /\ Cardinality(T) \in Nat
  BY FS_CardinalityType
<1>3. Cardinality(S \cap T) = 0
  BY <1>1
<1>4. /\ IsFiniteSet(S \cup T)
      /\ Cardinality(S \cup T) = Cardinality(S) + Cardinality(T) - Cardinality(S \cap T)
  BY FS_Union
<1>. QED  BY <1>2, <1>3, <1>4

\* Every row seen is emitted or in one of the four counters of skipped rows.
LEMMA RowsAreCounted ==
    ASSUME NEW f \in Seq(Rows)
    PROVE  LET skipped == Statistics(f).skipped
           IN  Len(f) = Cardinality(Emitted(f)) + skipped["ragged"]
                   + skipped["header"] + skipped["field"] + skipped["time"]
<1>. DEFINE N == 1 .. Len(f)
            S(d) == {n \in N : d \in Outcomes(f[n])}
            E == Emitted(f)
            A == E \cup S("ragged")
            B == A \cup S("header")
            C == B \cup S("field")
            D == C \cup S("time")
<1>1. Len(f) \in Nat /\ \A n \in N : f[n] \in Rows
  OBVIOUS
<1>2. \A n \in N : Outcomes(f[n]) \in {{}, {"ragged"}, {"header"}, {"time"}, {"field"}}
  BY <1>1, OneOutcome
<1>3. E = {n \in N : Outcomes(f[n]) = {}}
  BY DEF Emitted
<1>4. /\ E \in SUBSET N /\ S("ragged") \in SUBSET N /\ S("header") \in SUBSET N
      /\ S("field") \in SUBSET N /\ S("time") \in SUBSET N
  BY <1>3
<1>5. /\ E \cap S("ragged") = {} /\ A \cap S("header") = {}
      /\ B \cap S("field") = {} /\ C \cap S("time") = {}
      /\ N \subseteq D
  <2>1. ASSUME NEW n \in N
        PROVE  /\ ~ (n \in E /\ n \in S("ragged")) /\ ~ (n \in A /\ n \in S("header"))
               /\ ~ (n \in B /\ n \in S("field")) /\ ~ (n \in C /\ n \in S("time"))
               /\ n \in D
    <3>1. Outcomes(f[n]) \in {{}, {"ragged"}, {"header"}, {"time"}, {"field"}}
      BY <1>2
    <3>2. n \in E <=> Outcomes(f[n]) = {}
      BY <1>3
    <3>. HIDE DEF N, E
    <3>. QED  BY <3>1, <3>2
  <2>. HIDE DEF N, E, S
  <2>. QED  BY <1>4, <2>1
<1>6. D = N
  <2>. HIDE DEF N, E, S
  <2>. QED  BY <1>4, <1>5
<1>7. /\ IsFiniteSet(E) /\ IsFiniteSet(S("ragged")) /\ IsFiniteSet(S("header"))
      /\ IsFiniteSet(S("field")) /\ IsFiniteSet(S("time"))
  <2>. HIDE DEF S, E
  <2>. QED  BY <1>1, <1>4, CountedPositions
<1>8. IsFiniteSet(A) /\ Cardinality(A) = Cardinality(E) + Cardinality(S("ragged"))
  <2>. HIDE DEF S, E
  <2>. QED  BY <1>5, <1>7, DisjointUnion
<1>9. IsFiniteSet(B) /\ Cardinality(B) = Cardinality(A) + Cardinality(S("header"))
  <2>. HIDE DEF S, A
  <2>. QED  BY <1>5, <1>7, <1>8, DisjointUnion
<1>10. IsFiniteSet(C) /\ Cardinality(C) = Cardinality(B) + Cardinality(S("field"))
  <2>. HIDE DEF S, B
  <2>. QED  BY <1>5, <1>7, <1>9, DisjointUnion
<1>11. IsFiniteSet(D) /\ Cardinality(D) = Cardinality(C) + Cardinality(S("time"))
  <2>. HIDE DEF S, C
  <2>. QED  BY <1>5, <1>7, <1>10, DisjointUnion
<1>12. Cardinality(N) = Len(f)
  <2>1. Len(f) \in Nat
    BY <1>1
  <2>2. \A k \in Nat : Cardinality(1 .. k) = k
    BY FS_Interval
  <2>. QED  BY <2>1, <2>2
<1>13. \A d \in Defects : Statistics(f).skipped[d] = Cardinality(S(d))
  BY DEF Statistics
<1>14. {"ragged", "header", "field", "time"} \subseteq Defects
  BY DEF Defects
<1>15. /\ Statistics(f).skipped["ragged"] = Cardinality(S("ragged"))
       /\ Statistics(f).skipped["header"] = Cardinality(S("header"))
       /\ Statistics(f).skipped["field"] = Cardinality(S("field"))
       /\ Statistics(f).skipped["time"] = Cardinality(S("time"))
  <2>. HIDE DEF S
  <2>. QED  BY <1>13, <1>14
<1>. HIDE DEF S, E, A, B, C, D, N
<1>16. Cardinality(D) = Cardinality(E) + Cardinality(S("ragged")) + Cardinality(S("header"))
          + Cardinality(S("field")) + Cardinality(S("time"))
  BY <1>8, <1>9, <1>10, <1>11
<1>17. Len(f) = Cardinality(D)
  BY <1>6, <1>12
<1>18. E = Emitted(f)
  BY DEF E
<1>. QED  BY <1>15, <1>16, <1>17, <1>18

-----------------------------------------------------------------------------
(* A chronological day holds every sound row once, in order *)

LEMMA EmittedRows ==
    ASSUME NEW f \in Seq(Rows)
    PROVE  /\ Emitted(f) \in SUBSET (1 .. Len(f)) /\ IsFiniteSet(Emitted(f))
           /\ Cardinality(Emitted(f)) \in Nat
           /\ Emitted(f) = {n \in 1 .. Len(f) : f[n].defects = {}}
<1>1. Len(f) \in Nat /\ \A n \in 1 .. Len(f) : f[n] \in Rows
  OBVIOUS
<1>2. Emitted(f) \in SUBSET (1 .. Len(f))
  BY DEF Emitted
<1>3. IsFiniteSet(Emitted(f)) /\ Cardinality(Emitted(f)) \in 0 .. Len(f)
  BY <1>1, <1>2, CountedPositions
<1>4. \A n \in 1 .. Len(f) : Outcomes(f[n]) = {} <=> f[n].defects = {}
  BY <1>1, OneOutcome
<1>5. Emitted(f) = {n \in 1 .. Len(f) : f[n].defects = {}}
  BY <1>4 DEF Emitted
<1>. QED  BY <1>2, <1>3, <1>5

LEMMA BeforeIsStrict ==
    ASSUME NEW f \in Seq(Rows), NEW m \in 1 .. Len(f)
    PROVE  ~Before(f, m, m)
<1>1. f[m] \in Rows
  OBVIOUS
<1>2. Timestamp(f[m]) \in Int
  BY <1>1, TimestampType
<1>. QED  BY <1>2 DEF Before

LEMMA EveryRowOnce ==
    ASSUME NEW f \in Seq(Rows), NEW r \in Chronological(f)
    PROVE  /\ DOMAIN r = 1 .. Cardinality(Emitted(f)) /\ r \in Seq(1 .. Len(f))
           /\ Len(r) = Cardinality(Emitted(f))
           /\ {r[i] : i \in DOMAIN r} = Emitted(f)
<1>. DEFINE E == Emitted(f)  n == Cardinality(E)
<1>1. E \in SUBSET (1 .. Len(f)) /\ IsFiniteSet(E) /\ n \in Nat
  BY EmittedRows
<1>2. /\ r \in [1 .. n -> E]
      /\ \A i, j \in DOMAIN r : i < j => Before(f, r[i], r[j])
  BY DEF Chronological
<1>3. \A m \in E : ~Before(f, m, m)
  BY <1>1, BeforeIsStrict
<1>. HIDE DEF E, n
<1>4. IsInjective(r)
  <2>. SUFFICES ASSUME NEW i \in 1 .. n, NEW j \in 1 .. n, i < j PROVE r[i] # r[j]
    BY <1>1, <1>2 DEF IsInjective
  <2>. QED  BY <1>2, <1>3
<1>5. r \in Injection(1 .. n, E)
  BY <1>2, <1>4 DEF Injection
<1>6. Cardinality(1 .. n) = n
  BY <1>1, FS_Interval
<1>7. n = Cardinality(E)
  BY DEF n
<1>8. Cardinality(1 .. n) = Cardinality(E) <=> r \in Surjection(1 .. n, E)
  BY <1>1, <1>5, FS_Injection
<1>9. \A m \in E : \E i \in 1 .. n : r[i] = m
  BY <1>6, <1>7, <1>8 DEF Surjection
<1>10. {r[i] : i \in DOMAIN r} = E
  BY <1>2, <1>9
<1>11. r \in [1 .. n -> 1 .. Len(f)] /\ DOMAIN r = 1 .. n
  BY <1>1, <1>2
<1>12. r \in Seq(1 .. Len(f)) /\ Len(r) = n
  BY <1>1, <1>11
<1>. QED  BY <1>7, <1>10, <1>11, <1>12 DEF E

-----------------------------------------------------------------------------
(* Virtual times in a sorted day *)

Sorted(n, ts) ==
    /\ n \in Nat /\ ts \in [1 .. n -> Int]
    /\ \A i, j \in 1 .. n : i < j => ts[i] <= ts[j]

\* A set of positions with every earlier one is counted by its last.
LEMMA Prefix ==
    ASSUME NEW n \in Nat, NEW S \in SUBSET (1 .. n),
           \A i \in S : \A j \in 1 .. n : j < i => j \in S
    PROVE  Cardinality(S) \in 0 .. n /\ S = 1 .. Cardinality(S)
<1>. DEFINE k == Cardinality(S)
<1>1. IsFiniteSet(S) /\ k \in 0 .. n
  BY CountedPositions
<1>2. IsFiniteSet(1 .. k) /\ Cardinality(1 .. k) = k
  BY <1>1, FS_Interval
<1>3. k = Cardinality(S)
  OBVIOUS
<1>. HIDE DEF k
<1>4. ASSUME NEW m \in S, ~(m <= k)
      PROVE  FALSE
  <2>1. m \in Nat /\ k + 1 \in 1 .. m /\ m <= n
    BY <1>1, <1>4
  <2>2. 1 .. k + 1 \subseteq S
    BY <1>1, <2>1
  <2>3. Cardinality(1 .. k + 1) = k + 1
    BY <1>1, FS_Interval
  <2>4. Cardinality(1 .. k + 1) <= Cardinality(S)
    BY <1>1, <2>2, FS_Subset
  <2>. QED  BY <1>1, <1>3, <2>3, <2>4
<1>5. S \subseteq 1 .. k
  BY <1>1, <1>4
<1>6. S = 1 .. k
  BY <1>2, <1>3, <1>5, FS_Subset
<1>. QED  BY <1>1, <1>3, <1>6

\* The bucket of flow i in a sorted day is the interval Below + 1 .. UpTo.
LEMMA BucketIsInterval ==
    ASSUME NEW n, NEW ts, Sorted(n, ts), NEW i \in 1 .. n
    PROVE  /\ Below(ts, i) \in 0 .. i - 1 /\ UpTo(ts, i) \in i .. n
           /\ \A j \in 1 .. n : ts[j] < ts[i] <=> j <= Below(ts, i)
           /\ \A j \in 1 .. n : ts[j] <= ts[i] <=> j <= UpTo(ts, i)
<1>. DEFINE B == {j \in DOMAIN ts : ts[j] < ts[i]}
            U == {j \in DOMAIN ts : ts[j] <= ts[i]}
            b == Cardinality(B)
            u == Cardinality(U)
<1>1. n \in Nat /\ ts \in [1 .. n -> Int] /\ DOMAIN ts = 1 .. n
      /\ \A k, j \in 1 .. n : k < j => ts[k] <= ts[j]
  BY DEF Sorted
<1>2. B \in SUBSET (1 .. n) /\ U \in SUBSET (1 .. n)
  BY <1>1
<1>3. \A k \in B : \A j \in 1 .. n : j < k => j \in B
  BY <1>1
<1>4. \A k \in U : \A j \in 1 .. n : j < k => j \in U
  BY <1>1
<1>5. i \in U /\ i \notin B
  BY <1>1
<1>6. Below(ts, i) = b /\ UpTo(ts, i) = u
  BY DEF Below, UpTo
<1>7. \A j \in 1 .. n : /\ ts[j] < ts[i] <=> j \in B
                        /\ ts[j] <= ts[i] <=> j \in U
  BY <1>1
<1>. HIDE DEF B, U
<1>8. b \in 0 .. n /\ B = 1 .. b
  BY <1>1, <1>2, <1>3, Prefix
<1>9. u \in 0 .. n /\ U = 1 .. u
  BY <1>1, <1>2, <1>4, Prefix
<1>. HIDE DEF b, u
<1>10. b \in 0 .. i - 1 /\ u \in i .. n
  BY <1>1, <1>5, <1>8, <1>9
<1>11. \A j \in 1 .. n : /\ j \in B <=> j <= b
                         /\ j \in U <=> j <= u
  BY <1>1, <1>8, <1>9
<1>. QED  BY <1>6, <1>7, <1>10, <1>11

\* The gap is never negative, and with a later timestamp it ends at the next one.
LEMMA GapToNext ==
    ASSUME NEW n, NEW ts, Sorted(n, ts), NEW i \in 1 .. n
    PROVE  /\ Gap(ts, i) \in Nat
           /\ \A j \in 1 .. n : ts[i] < ts[j] =>
                 Gap(ts, i) > 0 /\ ts[i] + Gap(ts, i) <= ts[j]
<1>. DEFINE b == Below(ts, i)  u == UpTo(ts, i)
<1>1. n \in Nat /\ ts \in [1 .. n -> Int] /\ Len(ts) = n
      /\ \A k, j \in 1 .. n : k < j => ts[k] <= ts[j]
  BY DEF Sorted
<1>2. /\ b \in 0 .. i - 1 /\ u \in i .. n
      /\ \A j \in 1 .. n : ts[j] < ts[i] <=> j <= b
      /\ \A j \in 1 .. n : ts[j] <= ts[i] <=> j <= u
  BY BucketIsInterval
<1>3. Gap(ts, i) = IF u < n THEN ts[u + 1] - ts[i]
                   ELSE IF b > 0 THEN ts[i] - ts[b] ELSE 0
  BY <1>1 DEF Gap
<1>. HIDE DEF b, u
<1>4. CASE u < n
  <2>1. u + 1 \in 1 .. n /\ ~(ts[u + 1] <= ts[i]) /\ ts[u + 1] \in Int /\ ts[i] \in Int
    BY <1>1, <1>2, <1>4
  <2>2. Gap(ts, i) = ts[u + 1] - ts[i]
    BY <1>3, <1>4
  <2>3. ASSUME NEW j \in 1 .. n, ts[i] < ts[j] PROVE ts[u + 1] <= ts[j]
    <3>1. ts[j] \in Int
      BY <1>1
    <3>2. ~(j <= u)
      BY <1>2, <2>1, <2>3, <3>1
    <3>3. u + 1 = j \/ u + 1 < j
      BY <1>1, <1>2, <3>2
    <3>. QED  BY <1>1, <2>1, <3>1, <3>3
  <2>4. \A j \in 1 .. n : ts[j] \in Int
    BY <1>1
  <2>. QED  BY <2>1, <2>2, <2>3, <2>4
<1>5. CASE ~(u < n)
  <2>1. \A j \in 1 .. n : ts[j] <= ts[i] /\ ts[j] \in Int /\ ts[i] \in Int
    BY <1>1, <1>2, <1>5
  <2>2. b > 0 => b \in 1 .. n
    BY <1>1, <1>2
  <2>3. Gap(ts, i) \in Nat
    BY <1>2, <1>3, <1>5, <2>1, <2>2
  <2>. QED  BY <2>1, <2>3
<1>. QED  BY <1>4, <1>5

\* Integer division: the slots of a bucket stay inside the gap, in order.
LEMMA SlotBounds ==
    ASSUME NEW k \in Nat, NEW g \in Nat, NEW w \in Nat \ {0}, k < w
    PROVE  /\ (k * g) \div w \in Nat
           /\ g > 0 => (k * g) \div w < g
<1>. DEFINE p == k * g  q == p \div w
<1>1. p \in Nat
  OBVIOUS
<1>. HIDE DEF p
<1>2. q \in Nat /\ q * w <= p
  BY <1>1
<1>. HIDE DEF q
<1>3. g > 0 => p < w * g
  BY DEF p
<1>4. g > 0 /\ q >= g => q * w >= g * w
  BY <1>2
<1>5. w * g = g * w /\ g * w \in Nat /\ q * w \in Nat
  BY <1>2
<1>6. g > 0 => q < g
  BY <1>1, <1>2, <1>3, <1>4, <1>5
<1>. QED  BY <1>2, <1>6 DEF p, q

LEMMA SlotsInOrder ==
    ASSUME NEW k \in Nat, NEW m \in Nat, k <= m, NEW g \in Nat, NEW w \in Nat \ {0}
    PROVE  (k * g) \div w <= (m * g) \div w
<1>. DEFINE p == k * g  r == m * g
<1>1. p \in Nat /\ r \in Nat /\ p <= r
  <2>1. m * g = k * g + (m - k) * g
    OBVIOUS
  <2>2. (m - k) * g >= 0
    OBVIOUS
  <2>. QED  BY <2>1, <2>2
<1>. HIDE DEF p, r
<1>2. p \div w <= r \div w
  BY <1>1
<1>. QED  BY <1>2 DEF p, r

\* Virtual times of a sorted day keep to their buckets and their order.
LEMMA SortedDayInBuckets ==
    ASSUME NEW n, NEW ts, Sorted(n, ts), NEW i \in 1 .. n, NEW j \in 1 .. n
    PROVE  /\ ts[i] <= VirtualTime(ts, i)
           /\ ts[i] < ts[j] => VirtualTime(ts, i) < ts[j]
           /\ i < j => VirtualTime(ts, i) <= VirtualTime(ts, j)
<1>1. n \in Nat /\ ts \in [1 .. n -> Int]
      /\ \A k, l \in 1 .. n : k < l => ts[k] <= ts[l]
  BY DEF Sorted
<1>2. ASSUME NEW k \in 1 .. n
      PROVE  /\ VirtualTime(ts, k) \in Int /\ ts[k] <= VirtualTime(ts, k)
             /\ \A l \in 1 .. n : ts[k] < ts[l] => VirtualTime(ts, k) < ts[l]
  <2>. DEFINE b == Below(ts, k)  u == UpTo(ts, k)  g == Gap(ts, k)
              s == ((k - 1 - b) * g) \div (u - b)
  <2>1. b \in 0 .. k - 1 /\ u \in k .. n
    BY BucketIsInterval
  <2>2. /\ g \in Nat
        /\ \A l \in 1 .. n : ts[k] < ts[l] => g > 0 /\ ts[k] + g <= ts[l]
    BY GapToNext
  <2>3. VirtualTime(ts, k) = ts[k] + s
    BY DEF VirtualTime
  <2>. HIDE DEF b, u, g
  <2>4. k - 1 - b \in Nat /\ u - b \in Nat \ {0} /\ k - 1 - b < u - b
    BY <1>1, <2>1
  <2>5. s \in Nat /\ (g > 0 => s < g)
    BY <2>2, <2>4, SlotBounds
  <2>. HIDE DEF s
  <2>6. \A l \in 1 .. n : ts[l] \in Int
    BY <1>1
  <2>. QED  BY <2>2, <2>3, <2>5, <2>6
<1>3. ASSUME i < j
      PROVE  VirtualTime(ts, i) <= VirtualTime(ts, j)
  <2>1. ts[i] \in Int /\ ts[j] \in Int /\ ts[i] <= ts[j]
        /\ VirtualTime(ts, i) \in Int /\ VirtualTime(ts, j) \in Int
    BY <1>1, <1>2, <1>3
  <2>2. CASE ts[i] < ts[j]
    BY <1>2, <2>1, <2>2
  <2>3. CASE ts[i] = ts[j]
    <3>. DEFINE b == Below(ts, i)  u == UpTo(ts, i)  g == Gap(ts, i)
    <3>1. Below(ts, j) = b /\ UpTo(ts, j) = u
      BY <2>3 DEF Below, UpTo
    <3>2. Gap(ts, j) = g
      BY <2>3, <3>1 DEF Gap
    <3>3. b \in 0 .. i - 1 /\ u \in i .. n
      BY BucketIsInterval
    <3>4. g \in Nat
      BY GapToNext
    <3>5. /\ VirtualTime(ts, i) = ts[i] + ((i - 1 - b) * g) \div (u - b)
          /\ VirtualTime(ts, j) = ts[j] + ((j - 1 - b) * g) \div (u - b)
      BY <3>1, <3>2 DEF VirtualTime
    <3>. HIDE DEF b, u, g
    <3>6. i - 1 - b \in Nat /\ j - 1 - b \in Nat /\ i - 1 - b <= j - 1 - b
          /\ u - b \in Nat \ {0}
      BY <1>1, <1>3, <3>3
    <3>7. ((i - 1 - b) * g) \div (u - b) <= ((j - 1 - b) * g) \div (u - b)
      BY <3>4, <3>6, SlotsInOrder
    <3>. DEFINE x == ((i - 1 - b) * g) \div (u - b)  y == ((j - 1 - b) * g) \div (u - b)
    <3>8. x \in Int /\ y \in Int
      <4>1. (i - 1 - b) * g \in Int /\ (j - 1 - b) * g \in Int
        BY <3>4, <3>6
      <4>. QED  BY <3>6, <4>1
    <3>. HIDE DEF x, y
    <3>9. x <= y
      BY <3>7 DEF x, y
    <3>10. VirtualTime(ts, i) = ts[i] + x /\ VirtualTime(ts, j) = ts[i] + y
      BY <2>3, <3>5 DEF x, y
    <3>. QED  BY <2>1, <3>8, <3>9, <3>10
  <2>. QED  BY <2>1, <2>2, <2>3
<1>. QED  BY <1>2, <1>3

-----------------------------------------------------------------------------
(* The cached day *)

\* A day is preloaded once, from its file.
CacheInv ==
    /\ file \in Captures
    /\ cache = NotLoaded \/ cache \in Preloaded(file)

LEMMA CacheNext == CacheInv /\ [Next]_vars => CacheInv'
<1>. SUFFICES ASSUME CacheInv, [Next]_vars PROVE CacheInv'
  OBVIOUS
<1>1. ASSUME NEW c, NEW s, NEW m, NEW v, NEW again, Start(c, s, m, v, again)
      PROVE  CacheInv'
  BY <1>1 DEF Start, CacheInv
<1>2. ASSUME UNCHANGED <<file, cache>>
      PROVE  CacheInv'
  BY <1>2 DEF CacheInv
<1>3. ASSUME NEW c, Arrives(c) \/ Admitted(c) \/ Refused(c) \/ Conflict(c)
                       \/ SpeedChecked(c) \/ Stop(c)
      PROVE  UNCHANGED <<file, cache>>
  BY <1>3 DEF Arrives, Admitted, Refused, Conflict, SpeedChecked, Stop
<1>4. ASSUME NEW c, NEW v, SetSpeed(c, v)
      PROVE  UNCHANGED <<file, cache>>
  BY <1>4 DEF SetSpeed
<1>5. CASE \/ NothingScheduled \/ ReadClock \/ Decide \/ Emit \/ Store
           \/ Wait \/ NewPass \/ Finish
  BY <1>2, <1>5
     DEF NothingScheduled, ReadClock, Decide, Emit, Store, Wait, NewPass, Finish
<1>6. CASE TimePasses \/ UNCHANGED vars
  BY <1>2, <1>6 DEF TimePasses, vars, pacingVars
<1>. QED  BY <1>1, <1>2, <1>3, <1>4, <1>5, <1>6 DEF Next

LEMMA CacheInvariant == Spec => []CacheInv
<1>1. Init => CacheInv
  BY DEF Init, CacheInv
<1>. QED  BY <1>1, CacheNext, PTL DEF Spec

LEMMA DayIsChronological ==
    ASSUME CacheInv, cache # NotLoaded
    PROVE  CaptureOrderRecovered
<1>1. file \in Seq(Rows) /\ \A n \in 1 .. Len(file) : file[n].defects = {}
                                    => file[n].hour \in 8 .. 19
  BY PacingAssumption, WorkingHours DEF CacheInv
<1>2. PICK r \in Chronological(file) : cache = Schedule(file, r)
  BY DEF CacheInv, Preloaded
<1>3. cache.rows = r /\ cache.stats = Statistics(file)
  BY <1>2 DEF Schedule
<1>4. /\ DOMAIN r = 1 .. Cardinality(Emitted(file)) /\ r \in Seq(1 .. Len(file))
      /\ Len(r) = Cardinality(Emitted(file))
      /\ {r[i] : i \in DOMAIN r} = Emitted(file)
  BY <1>1, EveryRowOnce
<1>5. /\ Emitted(file) = {n \in 1 .. Len(file) : file[n].defects = {}}
      /\ Cardinality(Emitted(file)) \in Nat
  BY <1>1, EmittedRows
<1>6. ASSUME NEW i \in DOMAIN r
      PROVE  r[i] \in Int /\ Timestamp(file[r[i]]) = TrueTime(file[r[i]])
  <2>1. r[i] \in Emitted(file)
    BY <1>4
  <2>2. r[i] \in 1 .. Len(file) /\ file[r[i]].defects = {}
    BY <1>5, <2>1
  <2>3. file[r[i]] \in Rows /\ file[r[i]].hour \in 8 .. 19
    BY <1>1, <2>2
  <2>. QED  BY <2>2, <2>3, TimestampIsTrue
<1>7. \A i, j \in DOMAIN r : i < j =>
          LET a == r[i]  b == r[j]
          IN  \/ TrueTime(file[a]) < TrueTime(file[b])
              \/ TrueTime(file[a]) = TrueTime(file[b]) /\ a < b
  <2>. SUFFICES ASSUME NEW i \in DOMAIN r, NEW j \in DOMAIN r, i < j
                PROVE  \/ TrueTime(file[r[i]]) < TrueTime(file[r[j]])
                       \/ TrueTime(file[r[i]]) = TrueTime(file[r[j]]) /\ r[i] < r[j]
    OBVIOUS
  <2>1. Before(file, r[i], r[j])
    BY DEF Chronological
  <2>. QED  BY <1>6, <2>1 DEF Before
<1>8. LET skipped == Statistics(file).skipped
      IN  Statistics(file).seen = Len(r) + skipped["ragged"]
              + skipped["header"] + skipped["field"] + skipped["time"]
  <2>1. Statistics(file).seen = Len(file)
    BY DEF Statistics
  <2>. QED  BY <1>1, <1>4, <2>1, RowsAreCounted
<1>9. {r[i] : i \in DOMAIN r} = {n \in 1 .. Len(file) : file[n].defects = {}}
  BY <1>4, <1>5
<1>. QED  BY <1>3, <1>7, <1>8, <1>9 DEF CaptureOrderRecovered

\* Although the capture shows neither AM nor PM, is out of order and has rows the
\* reader gives up, the cached day holds every sound row once, in the order of
\* capture, and every other row is in exactly one counter (replay_reader.py,
\* _parse_timestamp, _read_day and iter_flows).
THEOREM CaptureOrderIsRecovered == Spec => []CaptureOrderRecovered
<1>1. CacheInv => CaptureOrderRecovered
  BY DayIsChronological DEF CaptureOrderRecovered
<1>. QED  BY <1>1, CacheInvariant, PTL

LEMMA DayIsInBuckets ==
    ASSUME CacheInv
    PROVE  VirtualTimesStayInBucket
<1>1. CASE cache = NotLoaded
  <2>1. cache.ts = <<>>
    BY <1>1 DEF NotLoaded
  <2>2. DOMAIN cache.ts = {}
    BY <2>1
  <2>. QED  BY <2>2 DEF VirtualTimesStayInBucket
<1>2. CASE cache \in Preloaded(file)
  <2>1. file \in Seq(Rows)
    BY PacingAssumption DEF CacheInv
  <2>2. PICK r \in Chronological(file) : cache = Schedule(file, r)
    BY <1>2 DEF Preloaded
  <2>. DEFINE n == Len(r)
              ts == [i \in 1 .. n |-> Timestamp(file[r[i]])]
  <2>3. cache.ts = ts /\ cache.virtual = [i \in 1 .. n |-> VirtualTime(ts, i)]
    BY <2>2 DEF Schedule
  <2>4. /\ n \in Nat /\ DOMAIN r = 1 .. n /\ r \in Seq(1 .. Len(file))
        /\ \A i, j \in 1 .. n : i < j => Before(file, r[i], r[j])
    <3>1. /\ DOMAIN r = 1 .. Cardinality(Emitted(file)) /\ r \in Seq(1 .. Len(file))
          /\ Len(r) = Cardinality(Emitted(file))
      BY <2>1, EveryRowOnce
    <3>2. Cardinality(Emitted(file)) \in Nat
      BY <2>1, EmittedRows
    <3>. QED  BY <3>1, <3>2 DEF Chronological
  <2>5. \A i \in 1 .. n : ts[i] = Timestamp(file[r[i]]) /\ ts[i] \in Int
    <3>. SUFFICES ASSUME NEW i \in 1 .. n PROVE Timestamp(file[r[i]]) \in Int
      OBVIOUS
    <3>1. r[i] \in 1 .. Len(file)
      BY <2>4
    <3>2. file[r[i]] \in Rows
      BY <2>1, <3>1
    <3>. QED  BY <3>2, TimestampType
  <2>6. DOMAIN ts = 1 .. n /\ ts = [i \in 1 .. n |-> ts[i]]
    OBVIOUS
  <2>. HIDE DEF ts, n
  <2>7. Sorted(n, ts)
    <3>1. ts \in [1 .. n -> Int]
      BY <2>5, <2>6
    <3>2. \A i, j \in 1 .. n : i < j => ts[i] <= ts[j]
      BY <2>4, <2>5 DEF Before
    <3>. QED  BY <2>4, <3>1, <3>2 DEF Sorted
  <2>8. \A i \in 1 .. n : cache.virtual[i] = VirtualTime(ts, i)
    BY <2>3
  <2>9. \A i, j \in 1 .. n :
           /\ ts[i] <= VirtualTime(ts, i)
           /\ ts[i] < ts[j] => VirtualTime(ts, i) < ts[j]
           /\ i < j => VirtualTime(ts, i) <= VirtualTime(ts, j)
    BY <2>7, SortedDayInBuckets
  <2>10. cache.ts = ts
    BY <2>3
  <2>. QED  BY <2>6, <2>8, <2>9, <2>10 DEF VirtualTimesStayInBucket
<1>. QED  BY <1>1, <1>2 DEF CacheInv

\* The flows of one timestamp are spread over the time to the next one, never
\* before their own bucket nor into a later one, in order (replay_engine.py,
\* compute_virtual_times).
THEOREM VirtualTimesInBucket == Spec => []VirtualTimesStayInBucket
<1>1. CacheInv => VirtualTimesStayInBucket
  BY DayIsInBuckets
<1>. QED  BY <1>1, CacheInvariant, PTL

=============================================================================
