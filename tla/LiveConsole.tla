----------------------------- MODULE LiveConsole -----------------------------
(***************************************************************************)
(* The console from start-up to page: scripts/dev-up.sh builds the models   *)
(* that are missing and starts the server; the server loads them once       *)
(* (backend/runtime.py, backend/main.py) and replays only if it has the     *)
(* volumetric one; what the replay stores reaches the page through          *)
(* EventFeed.  The server and the builds can die at any step; the operator  *)
(* runs the script again, stops everything, or rebuilds a model by hand.    *)
(***************************************************************************)
EXTENDS ModelArtifacts, EventFeed

CONSTANT MaxCrashes     \* bound: losses of everything that runs

VARIABLES
    script,     \* dev-up.sh: "idle", a kind it looks at, "awaits" a build, "launch", "replay"
    server,     \* "up" or "down"
    served,     \* kind -> the model the process loaded, or NoModel
    replaying,  \* the replay was started
    crashes     \* crashes so far

deployVars == <<script, server, served, replaying, crashes>>
vars == <<artifactVars, feedVars, deployVars>>

Nothing == [k \in Kinds |-> NoModel]

Init ==
    /\ ArtifactsInit /\ FeedInit
    /\ script = "idle" /\ server = "down" /\ served = Nothing /\ replaying = FALSE
    /\ crashes = 0

-----------------------------------------------------------------------------
(* scripts/dev-up.sh *)

\* What the script does once it is done with a kind.
NextStage(kind) == IF kind = "volumetric" THEN "known" ELSE "launch"

Waiting == [k \in Kinds |-> "awaits " \o k]

Up ==
    /\ script = "idle"
    /\ script' = "volumetric"
    /\ UNCHANGED <<artifactVars, feedVars, server, served, replaying, crashes>>

\* A file that exists counts as built, whatever is in it.
FindModel(kind) ==
    /\ script = kind /\ file[kind] # Absent
    /\ script' = NextStage(kind)
    /\ UNCHANGED <<artifactVars, feedVars, server, served, replaying, crashes>>

BuildModel(kind) ==
    /\ script = kind /\ file[kind] = Absent
    /\ Fit(kind, "script")
    /\ script' = Waiting[kind]
    /\ UNCHANGED <<feedVars, server, served, replaying, crashes>>

\* The build refuses its day: the script ends, or goes on without the second channel.
BuildRefused(kind) ==
    /\ script = kind /\ file[kind] = Absent
    /\ ~ Accepts(kind, TrainedOn(kind))
    /\ script' = IF kind = "volumetric" THEN "idle" ELSE NextStage(kind)
    /\ UNCHANGED <<artifactVars, feedVars, server, served, replaying, crashes>>

BuildAwaited(kind) ==
    /\ script = Waiting[kind] /\ build[kind]["script"] = "none"
    /\ script' = NextStage(kind)
    /\ UNCHANGED <<artifactVars, feedVars, server, served, replaying, crashes>>

\* build_runtime(): without the volumetric model there is no pipeline and no engine; a
\* missing known-threat model only takes its channel away.
Runtime == IF Loadable("volumetric") THEN [k \in Kinds |-> Loaded(k)] ELSE Nothing

\* A server that already answers is left alone, whatever it serves.
Launch ==
    /\ script = "launch"
    /\ script' = "replay"
    /\ IF server = "up" THEN UNCHANGED <<server, served>>
                        ELSE server' = "up" /\ served' = Runtime
    /\ UNCHANGED <<artifactVars, feedVars, replaying, crashes>>

\* POST /api/replay/start: 503 without an engine, which the script only reports.
StartReplay ==
    /\ script = "replay"
    /\ script' = "idle"
    /\ replaying' = (replaying \/ (server = "up" /\ served["volumetric"] # NoModel))
    /\ UNCHANGED <<artifactVars, feedVars, server, served, crashes>>

-----------------------------------------------------------------------------
(* The operator, and failures *)

\* A model that the server reports as unusable is rebuilt by hand, at any time, whether
\* or not the script builds it as well.
Rebuild(kind) ==
    /\ file[kind] # Absent /\ ~ Loadable(kind)
    /\ \E who \in Operators : Fit(kind, who)
    /\ UNCHANGED <<feedVars, deployVars>>

Unanswered == {r \in requests : r.rows = NotAnswered}

\* The sockets of a server that ends close and what it did not answer fails; nobody
\* publishes what it had stored.
Severed ==
    /\ dispatched' = stored
    /\ link' = IF link = "waiting" THEN "waiting" ELSE AfterClose
    /\ queue' = <<>>
    /\ requests' = requests \ Unanswered
    /\ excused' = excused \cup UNION {Uncovered(r.since, dispatched) : r \in Unanswered}
    /\ UNCHANGED <<stored, pageVars, cuts, cut>>

\* scripts/dev-down.sh: the replay is stopped, then the server, whose shutdown stops the
\* engine and closes the sockets.
Down ==
    /\ server = "up" /\ script = "idle"
    /\ server' = "down" /\ served' = Nothing /\ replaying' = FALSE
    /\ crashes < MaxCrashes /\ crashes' = crashes + 1
    /\ Severed
    /\ UNCHANGED <<artifactVars, script>>

\* The machine goes down with everything on it but the page.
Crash ==
    /\ crashes < MaxCrashes /\ crashes' = crashes + 1
    /\ script' = "idle" /\ server' = "down" /\ served' = Nothing /\ replaying' = FALSE
    /\ BuildsDie /\ Severed

-----------------------------------------------------------------------------
(* The specification *)

Building(kind) ==
    /\ \E who \in Builders : OpenFile(kind, who) \/ CloseFile(kind, who)
    /\ UNCHANGED <<feedVars, deployVars>>

Script(kind) ==
    FindModel(kind) \/ BuildModel(kind) \/ BuildRefused(kind) \/ BuildAwaited(kind)

Serving == server = "up"

Feed ==
    /\ \/ replaying /\ Commit
       \/ Serving /\ Dispatch
       \/ \E r \in requests : (Serving /\ Answer(r)) \/ Backfilled(r) \/ BackfillFails(r)
       \/ Connect \/ (Serving /\ Open) \/ (~ Serving /\ Refused) \/ Break \/ ForceReconnect
       \/ Live
    /\ UNCHANGED <<artifactVars, deployVars>>

Next ==
    \/ Up \/ Launch \/ StartReplay \/ Down \/ Crash \/ Feed
    \/ \E kind \in Kinds : Script(kind) \/ Rebuild(kind) \/ Building(kind)

Spec == Init /\ [][Next]_vars

\* The server's loop and its threads run what is ready, the browser delivers what
\* arrived and fires its timers, and a request ends one way or the other.
Fairness ==
    /\ WF_vars(Serving /\ Dispatch /\ UNCHANGED <<artifactVars, deployVars>>)
    /\ WF_vars(Live /\ UNCHANGED <<artifactVars, deployVars>>)
    /\ WF_vars(Connect /\ UNCHANGED <<artifactVars, deployVars>>)
    /\ WF_vars(Serving /\ Open /\ UNCHANGED <<artifactVars, deployVars>>)
    /\ WF_vars((\E r \in requests : Backfilled(r) \/ BackfillFails(r))
                  /\ UNCHANGED <<artifactVars, deployVars>>)

FairSpec == Spec /\ Fairness

-----------------------------------------------------------------------------
(* Properties *)

\* What the process scores with is what a whole build fitted for the features this code
\* reads, the first model on benign rows alone and the second on some attacks: never a
\* torn file, never one an older code left, no second channel beside a missing first,
\* and no replay without the first.
ServedModelsFitTheCode ==
    /\ \A k \in Kinds : served[k] # NoModel =>
          served[k].features = Current
          /\ (Attacks(k, served[k].rows) = {} <=> k = "volumetric")
    /\ served["volumetric"] = NoModel => served = Nothing /\ ~ replaying

\* Of every id up to the page's cursor it is known where it went: it was shown, is being
\* asked for, was there before the page was, fell to a queue's counted overflow or to a
\* backfill that failed, with a warning - or was beyond the limit of a backfill.  There is
\* no other way to miss an event; of the last one nobody is told (BackfillIsGapless).
MissingIsAccounted ==
    \A i \in 1 .. cursor :
        \/ i \in seen \cup excused \cup cut
        \/ \E r \in requests : r.since < i

\* Not kept: a backfill asks "for exactly what was missed while disconnected, gapless by
\* construction" (useEventStream.ts).  More rows than its limit are cut off, nothing asks
\* again, and the next live frame moves the cursor past them.
BackfillIsGapless ==
    \A i \in 1 .. cursor :
        \/ i \in seen \cup excused
        \/ \E r \in requests : r.since < i

\* Whatever breaks on the way, an event that was stored reaches the page, or is one of
\* those excused or cut off, unless the server is down.
EveryEventReachesThePage ==
    \A i \in 1 .. MaxEvents :
        stored >= i ~> (i \in seen \cup excused \cup cut \/ server = "down")

Copies(i) == Cardinality({n \in DOMAIN screen : screen[n] = i})

\* The page may show an event twice, as a live frame is not compared with what a backfill
\* brought before it; but it shows none more often, however many backfills, reconnects
\* and late frames cross, and none that is not in the table.
NoThirdCopy ==
    \A n \in DOMAIN screen : screen[n] <= stored /\ Copies(screen[n]) <= 2

\* Not kept: where a live frame and a backfill bring the same event, "never duplicate"
\* (useEventStream.ts).  Only the backfill looks at what the page already has.
NeverDuplicate ==
    \A n \in DOMAIN screen : Copies(screen[n]) = 1

=============================================================================
