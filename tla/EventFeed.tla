------------------------------ MODULE EventFeed ------------------------------
(***************************************************************************)
(* How an event gets from the table to the page: it is committed, then      *)
(* published to the sockets that are open (each with a queue that drops     *)
(* its oldest), and the page's hook (frontend/src/lib/useEventStream.ts)    *)
(* shows what arrives and, on every reconnect, asks GET /api/events for     *)
(* what came after the last id it saw (backend/routes.py).                  *)
(*                                                                          *)
(* Events are their ids, 1, 2, ..., in the order of their commits.  There   *)
(* is one page.  Its requests are plain HTTP: they outlive the socket they  *)
(* were made for, and answers and live events arrive in any order.  The     *)
(* table is not pruned here.                                                *)
(***************************************************************************)
EXTENDS Naturals, Sequences, SequencesExt, FiniteSets, FiniteSetsExt

CONSTANTS
    QueueMax,       \* ws_client_queue_max
    BufferMax,      \* MAX_EVENTS_BUFFER: what the page keeps ...
    Limit,          \* ... and asks for: one number in the code, two in small instances
    NotAnswered,
    MaxEvents,      \* bound: events
    MaxOpen,        \* bound: requests of the page in flight
    MaxCuts         \* bound: connections that break or are restarted

ASSUME FeedAssumption ==
    /\ {QueueMax, BufferMax, Limit, MaxEvents, MaxOpen} \subseteq Nat \ {0} /\ MaxCuts \in Nat
    /\ NotAnswered \notin Seq(Nat)

VARIABLES
    stored,         \* the last id in the table
    dispatched,     \* the last id that was offered to the sockets
    link,           \* the page's socket: "waiting" for a timer, "connecting", "open"
    queue,          \* frames on their way to the page: its queue and its socket
    cursor,         \* lastEventIdRef; 0 when null
    screen,         \* the page's events, the front of its list first
    requests,       \* backfills in flight
    cuts,           \* connections that broke
    seen,           \* history: ids the page was given
    excused,        \* history: ids the page need not have been given: there before it was,
                    \* counted as dropped, or lost with a request that failed, with a warning
    cut             \* history: ids beyond the limit of a backfill, reported nowhere

tableVars == <<stored, dispatched>>
pageVars == <<cursor, screen, seen>>
missedVars == <<excused, cut>>
feedVars == <<tableVars, link, queue, pageVars, requests, cuts, missedVars>>

FeedInit ==
    /\ stored = 0 /\ dispatched = 0 /\ link = "waiting" /\ queue = <<>>
    /\ cursor = 0 /\ screen = <<>> /\ requests = {} /\ cuts = 0
    /\ seen = {} /\ excused = {} /\ cut = {}

-----------------------------------------------------------------------------
(* The server's side *)

\* A batch is committed; its envelopes follow.
Commit ==
    /\ stored < MaxEvents
    /\ stored' = stored + 1
    /\ UNCHANGED <<dispatched, link, queue, pageVars, requests, cuts, missedVars>>

\* The envelope of the next event reaches the loop: it goes to the page's queue if the
\* page is connected, and to nobody otherwise.  A full queue drops, and counts, its oldest.
Dispatch ==
    /\ dispatched < stored
    /\ dispatched' = dispatched + 1
    /\ IF link # "open" THEN UNCHANGED <<queue, excused>>
       ELSE IF Len(queue) < QueueMax
         THEN queue' = Append(queue, dispatched') /\ UNCHANGED excused
         ELSE /\ queue' = Append(Tail(queue), dispatched')
              /\ excused' = excused \cup {Head(queue)}
    /\ UNCHANGED <<stored, link, pageVars, requests, cuts, cut>>

\* Mutant: the newest rows after the cursor.
After_Newest(since) ==
    LET first == IF stored > since + Limit THEN stored - Limit + 1 ELSE since + 1
    IN  [i \in 1 .. stored + 1 - first |-> first + i - 1]

\* list_events() with `since`: the oldest rows after it, up to the limit, by id.
After(since) == [i \in 1 .. Min({Limit, stored - since}) |-> since + i]

\* The rows are read.
Answer(r) ==
    /\ r \in requests /\ r.rows = NotAnswered
    /\ requests' = (requests \ {r})
          \cup {[r EXCEPT !.rows = After(r.since), !.upTo = dispatched]}
    /\ UNCHANGED <<tableVars, link, queue, pageVars, cuts, missedVars>>

-----------------------------------------------------------------------------
(* The page: its connection *)

\* connect(), by a timer.
Connect ==
    /\ link = "waiting"
    /\ link' = "connecting"
    /\ UNCHANGED <<tableVars, queue, pageVars, requests, cuts, missedVars>>

\* backfillMissedEvents(), up to its request.
Backfill == [since |-> cursor, rows |-> NotAnswered, upTo |-> 0]

\* accept() and the registration of the socket, then onopen: the first connection of a
\* page that saw nothing yet asks for nothing.
Open ==
    /\ link = "connecting"
    /\ Cardinality(requests) < MaxOpen
    /\ link' = "open" /\ queue' = <<>>
    /\ IF cursor = 0
         THEN excused' = excused \cup 1 .. dispatched /\ UNCHANGED requests
         ELSE requests' = requests \cup {Backfill} /\ UNCHANGED excused
    /\ UNCHANGED <<tableVars, pageVars, cuts, cut>>

\* Mutant: the close handler schedules nothing.
AfterClose_Nothing == "closed"

\* onclose: scheduleReconnect().
AfterClose == "waiting"

\* The connection cannot be made.
Refused ==
    /\ link = "connecting"
    /\ link' = AfterClose
    /\ UNCHANGED <<tableVars, queue, pageVars, requests, cuts, missedVars>>

\* The connection breaks; what was on its way is lost.
Break ==
    /\ link = "open" /\ cuts < MaxCuts
    /\ link' = AfterClose /\ queue' = <<>> /\ cuts' = cuts + 1
    /\ UNCHANGED <<tableVars, pageVars, requests, missedVars>>

\* forceReconnect(): whatever the old socket or timer was about to do is cancelled.
ForceReconnect ==
    /\ cuts < MaxCuts
    /\ link' = "connecting" /\ queue' = <<>> /\ cuts' = cuts + 1
    /\ UNCHANGED <<tableVars, pageVars, requests, missedVars>>

-----------------------------------------------------------------------------
(* The page: what arrives *)

Shorten(list) == SubSeq(list, 1, Min({BufferMax, Len(list)}))

Later(a, b) == Max({a, b})

\* onmessage: a live event goes in front, whether or not it is already on the page.
Live ==
    /\ link = "open" /\ queue # <<>>
    /\ queue' = Tail(queue)
    /\ cursor' = Later(cursor, Head(queue))
    /\ screen' = Shorten(<<Head(queue)>> \o screen)
    /\ seen' = seen \cup {Head(queue)}
    /\ UNCHANGED <<tableVars, link, requests, cuts, missedVars>>

\* Mutant: the rows are put in front without a look at the page.
Folded_Unseen(rows) == Shorten(Reverse(rows) \o screen)

\* The rows, oldest first, each put in front unless the page has it.
Folded(rows) ==
    LET page[n \in 0 .. Len(rows)] ==
          IF n = 0 THEN screen
          ELSE IF rows[n] \in ToSet(page[n - 1]) THEN page[n - 1]
          ELSE <<rows[n]>> \o page[n - 1]
    IN  Shorten(page[Len(rows)])

\* Ids that this answer should have brought and no live frame will bring.
Uncovered(from, to) == {i \in from + 1 .. to : i \notin seen \cup ToSet(queue)}

\* The answer arrives.  That there were more rows than the limit (has_more) is not looked
\* at: they are neither asked for again nor warned of.
Backfilled(r) ==
    /\ r \in requests /\ r.rows # NotAnswered
    /\ requests' = requests \ {r}
    /\ IF r.rows = <<>> THEN UNCHANGED <<cursor, screen, seen>>
       ELSE /\ cursor' = Later(cursor, Last(r.rows))
            /\ screen' = Folded(r.rows)
            /\ seen' = seen \cup ToSet(r.rows)
    /\ cut' = cut \cup Uncovered(r.since + Len(r.rows), r.upTo)
    /\ UNCHANGED <<tableVars, link, queue, cuts, excused>>

\* It fails: a warning on the console, and nothing else.
BackfillFails(r) ==
    /\ r \in requests
    /\ requests' = requests \ {r}
    /\ excused' = excused \cup Uncovered(r.since, dispatched)
    /\ UNCHANGED <<tableVars, link, queue, pageVars, cuts, cut>>

=============================================================================
