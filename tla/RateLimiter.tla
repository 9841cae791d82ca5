----------------------------- MODULE RateLimiter -----------------------------
(***************************************************************************)
(* The gate in front of every mutating route, backend/security.py: the      *)
(* token check, then a sliding window of admitted calls per client address. *)
(*                                                                          *)
(* allow() reads the clock before it takes the lock and FastAPI runs it on  *)
(* a pool of threads, so a call may be judged long after its reading, and   *)
(* after a call that read the clock later.  The list of timestamps of a key *)
(* is kept as the set of the admitted calls that left them: the code only   *)
(* filters and counts it.                                                   *)
(***************************************************************************)
EXTENDS Naturals, FiniteSets

CONSTANTS
    Callers,        \* route threads
    TokenHolders,   \* the callers that send the configured token
    Keys, KeyOf,    \* client addresses, and each caller's
    Window,         \* rate_limit_window_sec
    MaxRequests,    \* rate_limit_max_requests
    NoReading,      \* no call of the caller is inside allow()
    Calls           \* bound: names for admitted calls that are remembered

ASSUME LimiterAssumption ==
    /\ KeyOf \in [Callers -> Keys] /\ TokenHolders \subseteq Callers
    /\ Window \in Nat \ {0} /\ MaxRequests \in Nat \ {0} /\ NoReading \notin Nat

VARIABLES
    clock,      \* time.monotonic()
    hits,       \* _hits: key -> the admitted calls whose timestamp is kept
    reading,    \* caller -> its `now`, or NoReading outside allow()
    calls       \* history: admitted call -> its key, reading and lock time

limiterVars == <<hits, reading, calls>>

LimiterInit ==
    /\ hits = [k \in Keys |-> {}]
    /\ reading = [c \in Callers |-> NoReading]
    /\ calls = [n \in {} |-> 0]

\* require_api_token: it comes first, so a 401 leaves no trace in the window.
\* allow() then reads the clock.
Arrive(c) ==
    /\ c \in TokenHolders
    /\ reading[c] = NoReading
    /\ reading' = [reading EXCEPT ![c] = clock]
    /\ UNCHANGED <<hits, calls>>

\* Mutant: a hit expires one unit early.
Fresh_Early(c) == {n \in hits[KeyOf[c]] : calls[n].read + Window > reading[c] + 1}

\* The hits of the caller's key that are younger than its cutoff.
Fresh(c) == {n \in hits[KeyOf[c]] : calls[n].read + Window > reading[c]}

NewCall == CHOOSE n \in Calls : n \notin DOMAIN calls

\* allow(), under the lock: the call is recorded with the time it read.
Admit(c) ==
    /\ reading[c] # NoReading
    /\ Cardinality(Fresh(c)) < MaxRequests
    /\ Calls \ DOMAIN calls # {}
    /\ hits' = [hits EXCEPT ![KeyOf[c]] = Fresh(c) \cup {NewCall}]
    /\ calls' = [n \in DOMAIN calls \cup {NewCall} |->
                    IF n = NewCall
                      THEN [key |-> KeyOf[c], read |-> reading[c], at |-> clock]
                      ELSE calls[n]]
    /\ reading' = [reading EXCEPT ![c] = NoReading]

\* allow(), under the lock: 429, and the refused call is not recorded.
Refuse(c) ==
    /\ reading[c] # NoReading
    /\ Cardinality(Fresh(c)) >= MaxRequests
    /\ hits' = [hits EXCEPT ![KeyOf[c]] = Fresh(c)]
    /\ reading' = [reading EXCEPT ![c] = NoReading]
    /\ UNCHANGED calls

\* Calls nobody can ask about any more are dropped from the history.
Remembered(time) ==
    {n \in DOMAIN calls : n \in hits[calls[n].key] \/ calls[n].read + Window > time}

Elapse ==
    /\ clock' = clock + 1
    /\ calls' = [n \in Remembered(clock + 1) |-> calls[n]]
    /\ UNCHANGED <<hits, reading>>

-----------------------------------------------------------------------------
(* Properties *)

\* Calls of one key that both read the clock and were let through within the last
\* Window, of whatever stale readings and in whatever order they took the lock.
\* A call that read the clock before the window and got the lock inside it is not
\* one of them: by the time of the lock alone a window can hold more.
Burst(k) == {n \in DOMAIN calls : calls[n].key = k /\ calls[n].read + Window > clock}

\* At most MaxRequests of them, at every moment.
BurstBound == \A k \in Keys : Cardinality(Burst(k)) <= MaxRequests

=============================================================================
