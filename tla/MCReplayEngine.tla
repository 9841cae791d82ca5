--------------------------- MODULE MCReplayEngine ---------------------------
(***************************************************************************)
(* ReplayEngine on a small instance: two callers that start and stop, one  *)
(* that injects, short schedules.  Every property of the passing run is     *)
(* claimed up to the step in which a stop() leaves a living thread behind,  *)
(* so that step is taken and checked, and the states after it are not       *)
(* explored further.                                                        *)
(***************************************************************************)
EXTENDS ReplayEngine

NothingLeftBehind == ~detached

\* A day with nothing to replay, or with as many flows as the bound allows.
EmptyOrLong == flows \in {0, MaxFlows}

=============================================================================
