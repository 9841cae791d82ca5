----------------------------- MODULE PacedStream -----------------------------
(***************************************************************************)
(* What a replay promises to whoever watches it: a virtual clock that runs  *)
(* at the current rate and is never moved by a change of rate, and flows    *)
(* that are handed over in order, each once per pass, none before the       *)
(* virtual clock has reached its time.  A stream that has begun starts over *)
(* only at the end of a pass, or once it has ended.  There are no ticks     *)
(* here, no anchors and no thread.                                          *)
(***************************************************************************)
EXTENDS Integers, Sequences

CONSTANT Rates      \* the rates a run may have

VARIABLES
    on,         \* a run is under way
    schedule,   \* the virtual times of the run's flows
    handed,     \* how many of them were handed over in this pass
    position,   \* the virtual clock
    rate        \* virtual units per unit of real time

vars == <<on, schedule, handed, position, rate>>

\* Where the virtual clock stands when a schedule begins.
Beginning(times) == IF times = <<>> THEN 0 ELSE times[1]

Init ==
    /\ on = FALSE /\ schedule = <<>> /\ handed = 0 /\ position = 0
    /\ rate \in Rates

\* A new run, of any schedule and at any rate, after the one before it ended.
Begin ==
    /\ ~on /\ on' = TRUE
    /\ handed' = 0
    /\ position' = Beginning(schedule')
    /\ rate' \in Rates

\* Real time passes, one unit at a time.
Pass ==
    /\ position' = position + rate
    /\ UNCHANGED <<on, schedule, handed, rate>>

\* Some more flows of the run, all of them due.
HandOver ==
    /\ on
    /\ handed' \in handed .. Len(schedule)
    /\ \A i \in handed + 1 .. handed' : schedule[i] <= position
    /\ UNCHANGED <<on, schedule, position, rate>>

\* A change of rate never moves the virtual clock.
ChangeRate ==
    /\ rate' \in Rates
    /\ UNCHANGED <<on, schedule, handed, position>>

\* Another pass over the same schedule, once the whole of it was handed over.
Again ==
    /\ on /\ handed = Len(schedule)
    /\ handed' = 0 /\ position' = Beginning(schedule)
    /\ UNCHANGED <<on, schedule, rate>>

\* The run ends: stopped at any time, or by itself.
End ==
    /\ on /\ on' = FALSE
    /\ UNCHANGED <<schedule, handed, position, rate>>

Next == Begin \/ Pass \/ HandOver \/ ChangeRate \/ Again \/ End

Spec == Init /\ [][Next]_vars

=============================================================================
