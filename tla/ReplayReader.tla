---------------------------- MODULE ReplayReader ----------------------------
(***************************************************************************)
(* backend/replay_reader.py and the pure part of backend/replay_engine.py:  *)
(* a capture file, its rows in file order, becomes a chronological schedule *)
(* with one virtual time per flow.                                          *)
(*                                                                          *)
(* A row is what the capture tool recorded (hour, minute, second of the     *)
(* day) and the defects it has in the file.  The file shows the hour on a   *)
(* 12-hour clock without AM or PM, and seconds only if the row is precise.  *)
(***************************************************************************)
EXTENDS Integers, Sequences, FiniteSets

CONSTANT Minute     \* time units in a minute

ASSUME ReaderAssumption == Minute \in Nat \ {0}

Defects == {"ragged", "header", "field", "time"}

Rows ==
    [hour : 0 .. 23, minute : 0 .. 59, second : 0 .. Minute - 1,
     precise : BOOLEAN, defects : SUBSET Defects]

\* The hour the file shows for an hour of the day (1, 2, ..., 12, 1, ...).
PrintedHour(hour) == ((hour + 11) % 12) + 1

\* Mutant: one o'clock is taken for a morning hour.
CorrectedHour_OneIsMorning(h) == IF h \in 2 .. 7 THEN h + 12 ELSE h

\* _parse_timestamp: 1-7 are afternoon hours, 8-12 are morning hours or noon.
CorrectedHour(h) == IF h \in 1 .. 7 THEN h + 12 ELSE h

At(hour, minute, second) == (60 * hour + minute) * Minute + second

\* The time a sound row is given.
Timestamp(row) ==
    At(CorrectedHour(PrintedHour(row.hour)), row.minute,
       IF row.precise THEN row.second ELSE 0)

\* _read_day: the counter a row goes to, the first of the tests it fails; a row
\* _parse_row gives up is a bad timestamp if its timestamp is bad, whatever else.
Outcomes(row) ==
    CASE row.defects = {} -> {}
      [] "ragged" \in row.defects -> {"ragged"}
      [] "ragged" \notin row.defects /\ "header" \in row.defects -> {"header"}
      [] row.defects \cap {"ragged", "header"} = {} /\ "time" \in row.defects -> {"time"}
      [] row.defects = {"field"} -> {"field"}

Emitted(file) == {n \in 1 .. Len(file) : Outcomes(file[n]) = {}}

\* ReadStats.
Statistics(file) ==
    [seen |-> Len(file),
     emitted |-> Cardinality(Emitted(file)),
     skipped |-> [d \in Defects |->
                    Cardinality({n \in 1 .. Len(file) : d \in Outcomes(file[n])})]]

\* iter_flows: a stable sort by timestamp alone, so rows of one timestamp keep
\* their order in the file.
Before(file, m, n) ==
    \/ Timestamp(file[m]) < Timestamp(file[n])
    \/ Timestamp(file[m]) = Timestamp(file[n]) /\ m < n

\* The row numbers (source_row_id) of the day in the order of iter_flows().
Chronological(file) ==
    {rows \in [1 .. Cardinality(Emitted(file)) -> Emitted(file)] :
        \A i, j \in DOMAIN rows : i < j => Before(file, rows[i], rows[j])}

\* The bucket of flow i in sorted timestamps: what lies before it, and its end.
Below(ts, i) == Cardinality({j \in DOMAIN ts : ts[j] < ts[i]})
UpTo(ts, i) == Cardinality({j \in DOMAIN ts : ts[j] <= ts[i]})

\* The time from i's bucket to the next; the last bucket takes the gap before it.
Gap(ts, i) ==
    IF UpTo(ts, i) < Len(ts) THEN ts[UpTo(ts, i) + 1] - ts[i]
    ELSE IF Below(ts, i) > 0 THEN ts[i] - ts[Below(ts, i)] ELSE 0

\* Mutant: the flows are spread over both ends of the gap, k / (N - 1).
VirtualTime_BothEnds(ts, i) ==
    LET others == UpTo(ts, i) - Below(ts, i) - 1
    IN  IF others = 0 THEN ts[i]
        ELSE ts[i] + ((i - 1 - Below(ts, i)) * Gap(ts, i)) \div others

\* compute_virtual_times: the flows of a bucket are spread evenly over its gap.
VirtualTime(ts, i) ==
    ts[i] + ((i - 1 - Below(ts, i)) * Gap(ts, i)) \div (UpTo(ts, i) - Below(ts, i))

\* preload: the cached day, its rows, timestamps and virtual times.
Schedule(file, rows) ==
    LET ts == [i \in 1 .. Len(rows) |-> Timestamp(file[rows[i]])]
    IN  [rows |-> rows, ts |-> ts,
         virtual |-> [i \in 1 .. Len(rows) |-> VirtualTime(ts, i)],
         stats |-> Statistics(file)]

Preloaded(file) == {Schedule(file, rows) : rows \in Chronological(file)}

=============================================================================
