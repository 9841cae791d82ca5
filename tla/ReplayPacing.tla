---------------------------- MODULE ReplayPacing ----------------------------
(***************************************************************************)
(* The clock arithmetic of backend/replay_engine.py: when a tick of the     *)
(* replay thread hands over which flows, with operators who change the      *)
(* speed, stop and start between its steps.  Every mutating call comes      *)
(* through the gate of RateLimiter, on the same monotonic clock.            *)
(*                                                                          *)
(* A tick reads the clock, later reads the anchors and the pointer under    *)
(* the lock, hands the batch to the consumer without the lock, and stores   *)
(* the new pointer: the four steps of a place each.  stop() is one step,    *)
(* between two ticks; what a stop() does to a tick under way and to other   *)
(* calls is in ReplayEngine, and so are injections and counters.            *)
(***************************************************************************)
EXTENDS ReplayReader, RateLimiter

CONSTANTS
    Captures,       \* the files the day may be
    Speeds,         \* the speeds asked for (0 < speed)
    StartTimes,     \* the start_at values asked for
    Limits,         \* the limit values asked for
    Unset,          \* start_at or limit left out
    TickCap,        \* replay_max_batch_size
    ClockMax        \* bound: the clock stops here

ASSUME PacingAssumption ==
    /\ Speeds \subseteq Nat \ {0} /\ 1 \in Speeds
    /\ TickCap \in Nat \ {0} /\ ClockMax \in Nat
    /\ Limits \subseteq Nat /\ Captures \subseteq Seq(Rows)

\* The fact the reader's hour correction stands on ("Fact 1" in its docstring):
\* the days were captured in working hours, so that a printed hour is one hour.
ASSUME WorkingHours ==
    \A f \in Captures : \A n \in DOMAIN f : f[n].defects = {} => f[n].hour \in 8 .. 19

VARIABLES
    file, cache,            \* the day's capture file and its cached schedule
    running, loop,          \* _running, _loop_flag
    schedule, rows,         \* _virtual_times, _flows (as row numbers)
    pointer, speed,         \* _pointer, _speed
    anchorWall, anchorVirtual,
    place,                  \* where the replay thread is in its tick
    now, upto, lag,         \* its clock reading, the end of its batch, _lag_seconds
    handed,                 \* history: flows handed over in this session
    op                      \* caller -> where it is in a mutating route

engineVars == <<running, loop, schedule, rows, pointer, speed, anchorWall,
                anchorVirtual, lag>>
threadVars == <<place, now, upto>>
pacingVars == <<file, cache, engineVars, threadVars, handed, op>>
vars == <<clock, limiterVars, pacingVars>>

NotLoaded == [rows |-> <<>>, ts |-> <<>>, virtual |-> <<>>, stats |-> Unset]

Init ==
    /\ clock = 0 /\ LimiterInit
    /\ file \in Captures /\ cache = NotLoaded
    /\ running = FALSE /\ loop = FALSE
    /\ schedule = <<>> /\ rows = <<>> /\ pointer = 0 /\ speed = 1
    /\ anchorWall = 0 /\ anchorVirtual = 0 /\ lag = 0
    /\ place = "off" /\ now = 0 /\ upto = 0
    /\ handed = 0
    /\ op = [c \in Callers |-> "idle"]

\* The anchor of a fresh schedule (start() and a new pass of a loop).
FirstVirtual(times) == IF times = <<>> THEN 0 ELSE times[1]

-----------------------------------------------------------------------------
(* start(), stop() and set_speed() behind the gate *)

Arrives(c) ==
    /\ op[c] = "idle"
    /\ Arrive(c)
    /\ op' = [op EXCEPT ![c] = "gate"]
    /\ UNCHANGED <<clock, file, cache, engineVars, threadVars, handed>>

Admitted(c) ==
    /\ Admit(c)
    /\ op' = [op EXCEPT ![c] = "admitted"]
    /\ UNCHANGED <<clock, file, cache, engineVars, threadVars, handed>>

Refused(c) ==
    /\ Refuse(c)
    /\ op' = [op EXCEPT ![c] = "idle"]
    /\ UNCHANGED <<clock, file, cache, engineVars, threadVars, handed>>

Answer(c) == op' = [op EXCEPT ![c] = "idle"]

\* start(): which part of the day start_at and limit leave.
Part(day, startAt, limit) ==
    LET from == IF startAt = Unset THEN 0
                ELSE Cardinality({i \in DOMAIN day.ts : day.ts[i] < startAt})
        left == Len(day.ts) - from
    IN  [from |-> from,
         count |-> IF limit = Unset \/ limit > left THEN left ELSE limit]

\* start(): refused while running; the day is preloaded once, cut to the part
\* asked for, and anchored at its first flow.
Start(c, startAt, limit, v, again) ==
    /\ op[c] = "admitted" /\ ~running /\ place = "off"
    /\ cache' \in IF cache = NotLoaded THEN Preloaded(file) ELSE {cache}
    /\ LET part == Part(cache', startAt, limit)
       IN  /\ schedule' = [i \in 1 .. part.count |-> cache'.virtual[part.from + i]]
           /\ rows' = [i \in 1 .. part.count |-> cache'.rows[part.from + i]]
    /\ pointer' = 0 /\ speed' = v /\ loop' = again /\ lag' = 0
    /\ anchorWall' = clock /\ anchorVirtual' = FirstVirtual(schedule')
    /\ running' = TRUE /\ place' = "head"
    /\ handed' = 0
    /\ Answer(c)
    /\ UNCHANGED <<clock, limiterVars, file, now, upto>>

\* stop(), idempotent: the thread is joined between two ticks.
Stop(c) ==
    /\ op[c] = "admitted" /\ place \in {"off", "head"}
    /\ running' = FALSE /\ place' = "off"
    /\ Answer(c)
    /\ UNCHANGED <<clock, limiterVars, file, cache, loop, schedule, rows, pointer,
                   speed, anchorWall, anchorVirtual, lag, now, upto, handed>>

\* POST /api/replay/start while running, .../speed while not: 409.
Conflict(c) ==
    /\ op[c] = "admitted"
    /\ Answer(c)
    /\ UNCHANGED <<clock, limiterVars, file, cache, engineVars, threadVars, handed>>

\* POST /api/replay/speed: the route has seen the engine running ...
SpeedChecked(c) ==
    /\ op[c] = "admitted" /\ running
    /\ op' = [op EXCEPT ![c] = "speed"]
    /\ UNCHANGED <<clock, limiterVars, file, cache, engineVars, threadVars, handed>>

\* Mutant: the new anchor is computed with the new speed.
SetSpeed_NewSpeed(c, v) ==
    /\ op[c] = "speed"
    /\ anchorVirtual' = anchorVirtual + (clock - anchorWall) * v
    /\ anchorWall' = clock /\ speed' = v
    /\ Answer(c)
    /\ UNCHANGED <<clock, limiterVars, file, cache, running, loop, schedule, rows,
                   pointer, lag, threadVars, handed>>

\* ... and set_speed() re-anchors, whatever became of the engine since.
SetSpeed(c, v) ==
    /\ op[c] = "speed"
    /\ anchorVirtual' = anchorVirtual + (clock - anchorWall) * speed
    /\ anchorWall' = clock /\ speed' = v
    /\ Answer(c)
    /\ UNCHANGED <<clock, limiterVars, file, cache, running, loop, schedule, rows,
                   pointer, lag, threadVars, handed>>

-----------------------------------------------------------------------------
(* The replay thread *)

\* _run_loop: an empty schedule ends the run.
NothingScheduled ==
    /\ place = "head" /\ schedule = <<>>
    /\ running' = FALSE /\ place' = "off"
    /\ UNCHANGED <<clock, limiterVars, file, cache, loop, schedule, rows, pointer,
                   speed, anchorWall, anchorVirtual, lag, now, upto, handed, op>>

\* _run_loop: the clock is read before the tick, without the lock.
ReadClock ==
    /\ place = "head" /\ schedule # <<>>
    /\ now' = clock /\ place' = "tick"
    /\ UNCHANGED <<clock, limiterVars, file, cache, engineVars, upto, handed, op>>

\* The virtual time a clock reading stands for under the current anchors.
VirtualAt(wall) == anchorVirtual + (wall - anchorWall) * speed

\* due_index(): idx is the end of the due flows at the reading `now`.
IsDueIndex(idx) ==
    /\ \A i \in pointer + 1 .. idx : schedule[i] <= VirtualAt(now)
    /\ idx < Len(schedule) => schedule[idx + 1] > VirtualAt(now)

Capped(idx) == IF idx > pointer + TickCap THEN pointer + TickCap ELSE idx

\* max(0.0, ...)
Latest(late) == IF late > 0 THEN late ELSE 0

\* _tick_once: the batch is cut at the cap, and the lag (in virtual units) is
\* what its last flow is late by at the reading of the clock.
Decide ==
    /\ place = "tick"
    /\ \E idx \in pointer .. Len(schedule) :
          /\ IsDueIndex(idx)
          /\ IF idx = pointer
               THEN place' = "tail" /\ UNCHANGED <<upto, lag>>
               ELSE /\ place' = "emit" /\ upto' = Capped(idx)
                    /\ lag' = Latest(VirtualAt(now) - schedule[upto'])
    /\ now' = 0
    /\ UNCHANGED <<clock, limiterVars, file, cache, running, loop, schedule, rows,
                   pointer, speed, anchorWall, anchorVirtual, handed, op>>

\* _emit_batch: the consumer gets the flows up to `upto`.
Emit ==
    /\ place = "emit"
    /\ handed' = upto
    /\ place' = "store"
    /\ UNCHANGED <<clock, limiterVars, file, cache, engineVars, now, upto, op>>

\* _tick_once: the pointer follows once the consumer has returned.
Store ==
    /\ place = "store"
    /\ pointer' = upto /\ upto' = 0
    /\ place' = "tail"
    /\ UNCHANGED <<clock, limiterVars, file, cache, running, loop, schedule, rows, speed,
                   anchorWall, anchorVirtual, lag, now, handed, op>>

\* _run_loop: not exhausted, the thread waits for its next tick.
Wait ==
    /\ place = "tail" /\ pointer < Len(schedule)
    /\ place' = "head"
    /\ UNCHANGED <<clock, limiterVars, file, cache, engineVars, now, upto, handed, op>>

\* _start_new_loop_iteration: exhausted and looping, anchored afresh.
NewPass ==
    /\ place = "tail" /\ pointer >= Len(schedule) /\ loop
    /\ pointer' = 0
    /\ anchorWall' = clock /\ anchorVirtual' = FirstVirtual(schedule)
    /\ handed' = 0 /\ place' = "head"
    /\ UNCHANGED <<clock, limiterVars, file, cache, running, loop, schedule, rows, speed,
                   lag, now, upto, op>>

\* _run_loop: exhausted, the run ends.
Finish ==
    /\ place = "tail" /\ pointer >= Len(schedule) /\ ~loop
    /\ running' = FALSE /\ place' = "off"
    /\ UNCHANGED <<clock, limiterVars, file, cache, loop, schedule, rows, pointer, speed,
                   anchorWall, anchorVirtual, lag, now, upto, handed, op>>

\* Time passes, wherever everyone is.
TimePasses ==
    /\ clock < ClockMax
    /\ Elapse
    /\ UNCHANGED pacingVars

Next ==
    \/ \E c \in Callers :
          \/ Arrives(c) \/ Admitted(c) \/ Refused(c)
          \/ \E s \in StartTimes \cup {Unset}, m \in Limits \cup {Unset},
                v \in Speeds, again \in BOOLEAN : Start(c, s, m, v, again)
          \/ Stop(c) \/ Conflict(c) \/ SpeedChecked(c)
          \/ \E v \in Speeds : SetSpeed(c, v)
    \/ NothingScheduled \/ ReadClock \/ Decide \/ Emit \/ Store
    \/ Wait \/ NewPass \/ Finish
    \/ TimePasses

Spec == Init /\ [][Next]_vars

-----------------------------------------------------------------------------
(* Properties *)

\* The true time of a row, at the resolution the file has for it.
TrueTime(row) == At(row.hour, row.minute, IF row.precise THEN row.second ELSE 0)

\* The cached day holds every sound row once and orders them as they were
\* captured, although the file shows neither AM nor PM and is not in order; rows
\* the file cannot tell apart keep their order in it.  And every row it does not
\* hold is in exactly one counter of ReadStats.
CaptureOrderRecovered ==
    cache # NotLoaded =>
        /\ {cache.rows[i] : i \in DOMAIN cache.rows} =
              {n \in 1 .. Len(file) : file[n].defects = {}}
        /\ \A i, j \in DOMAIN cache.rows : i < j =>
              LET a == cache.rows[i]  b == cache.rows[j]
              IN  \/ TrueTime(file[a]) < TrueTime(file[b])
                  \/ TrueTime(file[a]) = TrueTime(file[b]) /\ a < b
        /\ LET skipped == cache.stats.skipped
           IN  cache.stats.seen = Len(cache.rows) + skipped["ragged"]
                   + skipped["header"] + skipped["field"] + skipped["time"]

\* A flow's virtual time stays within its own bucket: at or after its timestamp,
\* before the next timestamp, and in order.
VirtualTimesStayInBucket ==
    \A i, j \in DOMAIN cache.ts :
        /\ cache.ts[i] <= cache.virtual[i]
        /\ cache.ts[i] < cache.ts[j] => cache.virtual[i] < cache.ts[j]
        /\ i < j => cache.virtual[i] <= cache.virtual[j]

\* The pacing implements PacedStream: the virtual clock the anchors stand for
\* runs at the current speed and is not moved by set_speed(), by a stale clock
\* reading or by a stop; no flow is handed over before its time, out of order,
\* twice in a pass or after the end of the run.
Stream == INSTANCE PacedStream WITH
    on <- running, position <- VirtualAt(clock), rate <- speed, Rates <- Speeds

PacesTheStream == Stream!Spec

=============================================================================
