--------------------------- MODULE IngestPipeline ---------------------------
(***************************************************************************)
(* The consumer of the replay engine, backend/ingest.py: one call scores a  *)
(* micro-batch, writes its events, blast radii (CII snapshots) and alerts   *)
(* in ONE database transaction, prunes the events table every so many       *)
(* batches, commits, and only then broadcasts.                              *)
(*                                                                          *)
(* What makes it hard is that the two debounce maps live in memory, outside *)
(* the transaction: a statement or the commit may fail after they changed,  *)
(* and the rollback does not bring them back.  The active-mitigation        *)
(* registry, the third such map, is left to a module of its own.            *)
(*                                                                          *)
(* A flow is the pair of a session and a row of the capture day; what the   *)
(* detectors make of a row is its `kind`.  The database keeps what is       *)
(* committed in `db`; `tx` is what the open transaction sees.               *)
(***************************************************************************)
EXTENDS Naturals, Sequences, FiniteSets

CONSTANTS
    Assets,             \* what AssetRegistry.resolve() may answer
    GraphAssets,        \* the keys of the criticality map: the dependency graph
    MaxSessions,        \* bound: replay sessions
    MaxRows,            \* bound: rows of the capture day
    Contents,           \* the capture days considered: row -> flow
    MaxCalls,           \* bound: consumer calls
    MaxTime,            \* bound: the clock
    MaxFailures,        \* bound: failures of the database, and of the broadcaster
    MaxBatch,           \* replay_max_batch_size
    AlertOnVolumetric,  \* alert_on_volumetric
    HybridGatesAlerts,  \* hybrid_gates_alerts
    AlertDebounce,      \* alert_asset_debounce_sec
    CiiDebounce,        \* cii_debounce_sec
    CacheMax,           \* cii_cache_max_entries, the limit of both maps
    KeepRows,           \* db_event_retention_max_rows
    PruneEvery          \* ingest_retention_check_every_n_batches

Rows == 1 .. MaxRows
Sessions == 1 .. MaxSessions
Calls == 1 .. MaxCalls

\* What the channels say of a row: nothing; a volumetric anomaly under or over
\* the alert floor; a honeytoken touch; only the fused decision at ALERT.
Kinds == {"quiet", "faint", "loud", "tripwire", "hybrid"}
Flows == [asset : Assets, kind : Kinds, origin : {"replay", "injected"}]

ASSUME PipelineAssumption ==
    /\ GraphAssets \subseteq Assets
    /\ Contents \subseteq [Rows -> Flows]
    /\ MaxSessions \in Nat /\ MaxRows \in Nat /\ MaxCalls \in Nat
    /\ MaxTime \in Nat /\ MaxFailures \in Nat
    /\ AlertDebounce \in Nat /\ CiiDebounce \in Nat
    /\ MaxBatch \in Nat \ {0} /\ CacheMax \in Nat \ {0}
    /\ KeepRows \in Nat \ {0} /\ PruneEvery \in Nat \ {0}
    /\ AlertOnVolumetric \in BOOLEAN /\ HybridGatesAlerts \in BOOLEAN

VARIABLES
    content,            \* the capture day
    now,                \* self._clock()
    db, tx,             \* committed tables; the tables as the transaction sees them
    serial,             \* last serial drawn; a rollback does not give it back
    ciiCache,           \* _cii_cache, oldest first
    lastAlert,          \* _last_alert_at, oldest first
    pc, calls,          \* where the call is; the calls so far
    todo,               \* flows of the batch not examined yet, with their event ids
    snap,               \* snapshot id of the flow under examination
    out,                \* envelopes collected, by channel
    stats, batch,       \* IngestStats; the BatchResult in the making
    published,          \* history: ids of the event envelopes published
    touches, failed     \* history: every debounce touch; the calls that raised

memory == <<ciiCache, lastAlert>>
batchVars == <<todo, snap, out, batch>>
history == <<published, touches, failed>>
vars == <<content, now, db, tx, serial, memory, pc, calls, batchVars, stats, history>>

-----------------------------------------------------------------------------
(* The tables, the two maps and the verdicts *)

NoId == 0
EmptyTables == [events |-> {}, snaps |-> {}, alerts |-> {}, tripped |-> {}]
NoEnvelopes == [event |-> <<>>, cii |-> <<>>, alert |-> <<>>]
NoStats == [batches |-> 0, received |-> 0, inserted |-> 0, deduplicated |-> 0, computed |-> 0,
            alerts |-> 0, suppressed |-> 0, pruned |-> 0, lost |-> 0]

IsAnomaly(flow) == flow.kind \in {"faint", "loud", "tripwire"}
IsInjected(flow) == flow.origin = "injected"
IsHybridCandidate(flow) == flow.kind = "hybrid"

\* The flows whose blast radius is computed and whose alert is considered.
Examined(flow) == IsAnomaly(flow) \/ IsHybridCandidate(flow) \/ IsInjected(flow)

\* _alert_decision() and _hybrid_alert_decision(), short of the debounce.
AlertWorthy(flow) ==
    \/ flow.kind = "tripwire"
    \/ flow.kind = "loud" /\ AlertOnVolumetric
    \/ IsHybridCandidate(flow) /\ ~IsInjected(flow) /\ HybridGatesAlerts

Severity(flow) == IF flow.kind = "tripwire" THEN "critical" ELSE "warning"

\* The last n members of a sequence: an OrderedDict after popitem(last=False)s.
Newest(seq, n) == SubSeq(seq, IF Len(seq) > n THEN Len(seq) - n + 1 ELSE 1, Len(seq))

EntryOf(map, asset) == {i \in 1 .. Len(map) : map[i].asset = asset}

\* The map without the entry of an asset.
Without(map, asset) ==
    IF EntryOf(map, asset) = {} THEN map
      ELSE LET i == CHOOSE i \in EntryOf(map, asset) : TRUE
           IN  SubSeq(map, 1, i - 1) \o SubSeq(map, i + 1, Len(map))

\* Set a key of a bounded OrderedDict and move it to the end.
Put(map, entry) == Newest(Append(Without(map, entry.asset), entry), CacheMax)

\* Mutant: the window is one too long.
Fresh_OneLate(map, asset, window) ==
    \E i \in EntryOf(map, asset) : now - map[i].at <= window

\* The asset has an entry younger than the window.
Fresh(map, asset, window) == \E i \in EntryOf(map, asset) : now - map[i].at < window

-----------------------------------------------------------------------------
(* The initial state *)

Init ==
    /\ content \in Contents
    /\ now = 0
    /\ db = EmptyTables /\ tx = EmptyTables /\ serial = 0
    /\ ciiCache = <<>> /\ lastAlert = <<>>
    /\ pc = "idle" /\ calls = 0
    /\ todo = <<>> /\ snap = NoId /\ out = NoEnvelopes /\ batch = NoStats
    /\ stats = NoStats
    /\ published = <<>> /\ touches = <<>> /\ failed = {}

-----------------------------------------------------------------------------
(* One call of the pipeline *)

\* The engine calls with rows lo .. hi of a session (or a drained injection): a
\* new batch, or one that was delivered before.
Deliver(s, lo, hi) ==
    /\ pc = "idle" /\ calls < MaxCalls
    /\ hi < lo + MaxBatch
    /\ \A r \in lo .. hi : content[r].origin = content[lo].origin
    /\ calls' = calls + 1
    /\ todo' = [i \in 1 .. (hi - lo + 1) |-> [session |-> s, row |-> lo + i - 1, id |-> NoId]]
    /\ pc' = "persist"
    /\ UNCHANGED <<content, now, db, tx, serial, memory, snap, out, batch, stats, history>>

\* The unique constraint on (replay_session_id, source_row_id).
Conflicts(f) == \E e \in db.events : e.session = f.session /\ e.row = f.row

\* Mutant: the rows are inserted in the opposite order.
EventId_Reversed(i) == serial + Len(todo) + 1 - i

\* The serial of the i-th row of the batch.
EventId(i) == serial + i

\* The batch with its ids; a row that is there already gets none (ON CONFLICT DO NOTHING).
Stored ==
    [i \in 1 .. Len(todo) |->
        [todo[i] EXCEPT !.id = IF Conflicts(todo[i]) THEN NoId ELSE EventId(i)]]

Inserted == {f \in {Stored[i] : i \in 1 .. Len(todo)} : f.id # NoId}

\* _persist_events(), ids in batch order.  (The scores, _persist_scores(), follow the
\* inserted ids.)
Persist ==
    /\ pc = "persist"
    /\ serial' = serial + Len(todo)
    /\ tx' = [db EXCEPT !.events = @ \cup Inserted]
    /\ todo' = Stored
    /\ out' = [NoEnvelopes EXCEPT !.event = Stored]
    /\ batch' = [NoStats EXCEPT !.received = Len(todo), !.inserted = Cardinality(Inserted),
                                !.deduplicated = Len(todo) - Cardinality(Inserted)]
    /\ pc' = "examine"
    /\ UNCHANGED <<content, now, db, memory, calls, snap, stats, history>>

FlowOf(f) == content[f.row]

\* _handle_anomalies(): not a flow to look at, or one seen in an earlier delivery.
Skip ==
    /\ pc = "examine" /\ todo # <<>>
    /\ ~Examined(FlowOf(Head(todo))) \/ Head(todo).id = NoId
    /\ todo' = Tail(todo)
    /\ UNCHANGED <<content, now, db, tx, serial, memory, pc, calls, snap, out, batch,
                   stats, history>>

\* What every outcome of _cii_for() needs and leaves alone.
CiiStep(asset) ==
    /\ pc = "examine" /\ todo # <<>>
    /\ Examined(FlowOf(Head(todo))) /\ Head(todo).id # NoId
    /\ asset = FlowOf(Head(todo)).asset
    /\ pc' = "decide"
    /\ UNCHANGED <<content, now, db, calls, todo, out, lastAlert, stats, history>>

\* An asset outside the graph has no blast radius.
CiiNone(asset) ==
    /\ CiiStep(asset)
    /\ asset \notin GraphAssets
    /\ snap' = NoId
    /\ UNCHANGED <<tx, serial, ciiCache, batch>>

\* Within the debounce the cached snapshot is linked again.
CiiReuse(asset) ==
    /\ CiiStep(asset)
    /\ asset \in GraphAssets
    /\ Fresh(ciiCache, asset, CiiDebounce)
    /\ \E i \in EntryOf(ciiCache, asset) :
          /\ snap' = ciiCache[i].id
          /\ ciiCache' = Put(ciiCache, ciiCache[i])
    /\ UNCHANGED <<tx, serial, batch>>

\* Otherwise it is computed, flushed for its id, and cached at once.
CiiCompute(asset) ==
    /\ CiiStep(asset)
    /\ asset \in GraphAssets
    /\ ~Fresh(ciiCache, asset, CiiDebounce)
    /\ serial' = serial + 1
    /\ snap' = serial'
    /\ tx' = [tx EXCEPT !.snaps = @ \cup {[id |-> serial', asset |-> asset, at |-> now]}]
    /\ ciiCache' = Put(ciiCache, [asset |-> asset, id |-> serial', at |-> now])
    /\ batch' = [batch EXCEPT !.computed = @ + 1]

\* The cii envelope of the flow under examination, if it has a snapshot.
CiiEnvelope == IF snap = NoId THEN <<>> ELSE <<snap>>

\* The flow is done with; a honeytoken touch goes on record.
Examination(flow) ==
    /\ pc = "decide"
    /\ flow = FlowOf(Head(todo))
    /\ todo' = Tail(todo) /\ snap' = NoId
    /\ UNCHANGED <<content, now, db, calls, ciiCache, stats, published>>

TrippedBy(flow) ==
    IF flow.kind = "tripwire" THEN {[asset |-> flow.asset, at |-> now]} ELSE {}

\* Mutant: one debounce for all assets.
Debounced_AnyAsset(asset) == \E i \in 1 .. Len(lastAlert) : now - lastAlert[i].at < AlertDebounce

\* _debounce_ok(), the question.
Debounced(asset) == Fresh(lastAlert, asset, AlertDebounce)

\* No alert: not worth one, or debounced.  The anomaly's cascade is shown all the
\* same; a hybrid candidate's only together with its alert.
Suppress(flow) ==
    /\ Examination(flow)
    /\ ~AlertWorthy(flow) \/ Debounced(flow.asset)
    /\ IF IsAnomaly(flow) \/ IsInjected(flow)
         THEN /\ out' = [out EXCEPT !.cii = @ \o CiiEnvelope]
              /\ batch' = [batch EXCEPT !.suppressed = @ + 1]
         ELSE UNCHANGED <<out, batch>>
    /\ tx' = [tx EXCEPT !.tripped = @ \cup TrippedBy(flow)]
    /\ pc' = "examine"
    /\ UNCHANGED <<serial, lastAlert, touches, failed>>

\* Mutant: the debounce is not recorded for a hybrid alert.
Touch_NotHybrid(flow) ==
    IF AlertDebounce = 0 \/ IsHybridCandidate(flow)
      THEN UNCHANGED <<lastAlert, touches>>
      ELSE /\ lastAlert' = Put(lastAlert, [asset |-> flow.asset, at |-> now])
           /\ touches' = Append(touches, [asset |-> flow.asset, at |-> now, call |-> calls])

\* _debounce_ok(): the touch is recorded before the alert exists.
Touch(flow) ==
    IF AlertDebounce = 0
      THEN UNCHANGED <<lastAlert, touches>>
      ELSE /\ lastAlert' = Put(lastAlert, [asset |-> flow.asset, at |-> now])
           /\ touches' = Append(touches, [asset |-> flow.asset, at |-> now, call |-> calls])

\* The foreign key of an alert: its snapshot, if it has one, is a row.
SnapshotExists == snap = NoId \/ \E s \in tx.snaps : s.id = snap

\* _create_alert() or _create_hybrid_alert(), flushed.
RaiseAlert(flow) ==
    /\ Examination(flow)
    /\ AlertWorthy(flow) /\ ~Debounced(flow.asset)
    /\ Touch(flow)
    /\ SnapshotExists
    /\ serial' = serial + 1
    /\ tx' = [tx EXCEPT
                !.alerts = @ \cup {[id |-> serial', asset |-> flow.asset, at |-> now,
                                    severity |-> Severity(flow), snap |-> snap]},
                !.tripped = @ \cup TrippedBy(flow)]
    /\ out' = [out EXCEPT !.cii = @ \o CiiEnvelope, !.alert = Append(@, serial')]
    /\ batch' = [batch EXCEPT !.alerts = @ + 1]
    /\ pc' = "examine"
    /\ UNCHANGED failed

\* The call ends with an exception: the session is rolled back, nothing is
\* absorbed, nothing is broadcast.
Abandon ==
    /\ tx' = db
    /\ out' = NoEnvelopes /\ batch' = NoStats
    /\ pc' = "idle"
    /\ failed' = failed \cup {calls}

\* The cached snapshot went down with an earlier batch: the flush of the alert
\* violates the foreign key.
AlertOrphaned(flow) ==
    /\ pc = "decide"
    /\ flow = FlowOf(Head(todo))
    /\ AlertWorthy(flow) /\ ~Debounced(flow.asset)
    /\ Touch(flow)
    /\ ~SnapshotExists
    /\ todo' = <<>> /\ snap' = NoId
    /\ Abandon
    /\ UNCHANGED <<content, now, db, serial, calls, ciiCache, stats, published>>

\* _maybe_prune(): every so many absorbed batches.
PruneDue == (stats.batches + 1) % PruneEvery = 0

\* The oldest events by event time, in any choice among equals.
Oldest(old) ==
    \A e \in old, f \in tx.events \ old : e.row <= f.row

\* _rows_to_prune(): what is beyond the cap.
Overflow == IF Cardinality(tx.events) > KeepRows THEN Cardinality(tx.events) - KeepRows ELSE 0

\* _maybe_prune(), in the same transaction.
Prune(old) ==
    /\ pc = "examine" /\ todo = <<>>
    /\ Cardinality(old) = (IF PruneDue THEN Overflow ELSE 0)
    /\ Oldest(old)
    /\ tx' = [tx EXCEPT !.events = @ \ old]
    /\ batch' = [batch EXCEPT !.pruned = Cardinality(old)]
    /\ pc' = "commit"
    /\ UNCHANGED <<content, now, db, serial, memory, calls, todo, snap, out, stats, history>>

Commit ==
    /\ pc = "commit"
    /\ db' = tx
    /\ pc' = "publish"
    /\ UNCHANGED <<content, now, tx, serial, memory, calls, batchVars, stats, history>>

\* Mutant: what was collected before the failure is still broadcast.
DatabaseFails_Publishes ==
    /\ pc \in {"persist", "examine", "decide", "commit"}
    /\ Cardinality(failed) < MaxFailures
    /\ todo' = <<>> /\ snap' = NoId
    /\ pc' = "publish"
    /\ tx' = db /\ failed' = failed \cup {calls}
    /\ UNCHANGED <<content, now, db, serial, memory, calls, out, batch, stats, published,
                   touches>>

\* A statement, a flush or the commit fails (or, before them, the scorer).
DatabaseFails ==
    /\ pc \in {"persist", "examine", "decide", "commit"}
    /\ Cardinality(failed) < MaxFailures
    /\ todo' = <<>> /\ snap' = NoId
    /\ Abandon
    /\ UNCHANGED <<content, now, db, serial, memory, calls, stats, published, touches>>

\* _broadcast_batch(): a flow that was not inserted is not broadcast again.
NotNew == out.event # <<>> /\ Head(out.event).id = NoId

SkipKnown ==
    /\ pc = "publish" /\ NotNew
    /\ out' = [out EXCEPT !.event = Tail(@)]
    /\ UNCHANGED <<content, now, db, tx, serial, memory, pc, calls, todo, snap, batch, stats,
                   history>>

\* The next envelope is taken: the events in batch order, then the cii, then the alerts.
TakeEnvelope ==
    /\ pc = "publish" /\ ~NotNew
    /\ \/ out.event # <<>> /\ out' = [out EXCEPT !.event = Tail(@)]
       \/ out.event = <<>> /\ out.cii # <<>> /\ out' = [out EXCEPT !.cii = Tail(@)]
       \/ out.event = <<>> /\ out.cii = <<>> /\ out.alert # <<>>
            /\ out' = [out EXCEPT !.alert = Tail(@)]
    /\ UNCHANGED <<content, now, db, tx, serial, memory, pc, calls, todo, snap, batch,
                   touches, failed>>

EnvelopesLeft == out.event # <<>> \/ out.cii # <<>> \/ out.alert # <<>>

\* _safe_publish(): the broadcaster takes it ...
Publish ==
    /\ TakeEnvelope
    /\ published' = IF out.event # <<>> THEN Append(published, Head(out.event).id)
                                        ELSE published
    /\ UNCHANGED stats

\* ... or raises, which is counted and swallowed.
PublishFails ==
    /\ TakeEnvelope
    /\ stats.lost < MaxFailures
    /\ stats' = [stats EXCEPT !.lost = @ + 1]
    /\ UNCHANGED published

\* IngestStats.absorb(): the batch is added to the statistics.
Absorbed ==
    [batches |-> stats.batches + 1,
     received |-> stats.received + batch.received,
     inserted |-> stats.inserted + batch.inserted,
     deduplicated |-> stats.deduplicated + batch.deduplicated,
     computed |-> stats.computed + batch.computed,
     alerts |-> stats.alerts + batch.alerts,
     suppressed |-> stats.suppressed + batch.suppressed,
     pruned |-> stats.pruned, lost |-> stats.lost]

\* Mutant: the pruned rows are not added to the statistics.
Absorb_NotPruned ==
    /\ pc = "publish" /\ ~EnvelopesLeft
    /\ stats' = Absorbed
    /\ batch' = NoStats /\ pc' = "idle"
    /\ UNCHANGED <<content, now, db, tx, serial, memory, calls, todo, snap, out, history>>

\* The last thing a call does, with what it pruned.
Absorb ==
    /\ pc = "publish" /\ ~EnvelopesLeft
    /\ stats' = [Absorbed EXCEPT !.pruned = @ + batch.pruned]
    /\ batch' = NoStats /\ pc' = "idle"
    /\ UNCHANGED <<content, now, db, tx, serial, memory, calls, todo, snap, out, history>>

\* Time passes before a flow is examined, which is the only place the clock is
\* read; the two readings of it for one flow are taken as one.
Tick ==
    /\ now < MaxTime
    /\ pc = "examine" /\ todo # <<>>
    /\ now' = now + 1
    /\ UNCHANGED <<content, db, tx, serial, memory, pc, calls, batchVars, stats, history>>

-----------------------------------------------------------------------------
(* The specification *)

Examine ==
    \/ Skip
    \/ \E asset \in Assets : CiiNone(asset) \/ CiiReuse(asset) \/ CiiCompute(asset)
    \/ \E flow \in Flows : Suppress(flow) \/ RaiseAlert(flow) \/ AlertOrphaned(flow)

Next ==
    \/ \E s \in Sessions, lo \in Rows : \E hi \in lo .. MaxRows : Deliver(s, lo, hi)
    \/ Persist \/ Examine
    \/ \E old \in SUBSET tx.events : Prune(old)
    \/ Commit \/ DatabaseFails
    \/ SkipKnown \/ Publish \/ PublishFails \/ Absorb
    \/ Tick

Spec == Init /\ [][Next]_vars

-----------------------------------------------------------------------------
(* Properties *)

Events == [session : Sessions, row : Rows, id : Nat]
Snapshots == [id : Nat, asset : GraphAssets, at : Nat]
Alerts == [id : Nat, asset : Assets, at : Nat, severity : {"critical", "warning"}, snap : Nat]
Touches == [asset : Assets, at : Nat]
Tables == [events : SUBSET Events, snaps : SUBSET Snapshots, alerts : SUBSET Alerts,
           tripped : SUBSET Touches]
Statistics == [batches : Nat, received : Nat, inserted : Nat, deduplicated : Nat,
               computed : Nat, alerts : Nat, suppressed : Nat, pruned : Nat, lost : Nat]

\* The types of the tables, the maps and the call in progress; neither map exceeds its
\* limit.
TypeOK ==
    /\ content \in [Rows -> Flows]
    /\ db \in Tables /\ tx \in Tables
    /\ now \in Nat /\ serial \in Nat /\ calls \in 0 .. MaxCalls
    /\ ciiCache \in Seq(Snapshots) /\ Len(ciiCache) <= CacheMax
    /\ lastAlert \in Seq(Touches) /\ Len(lastAlert) <= CacheMax
    /\ pc \in {"idle", "persist", "examine", "decide", "commit", "publish"}
    /\ todo \in Seq(Events) /\ snap \in Nat
    /\ out \in [event : Seq(Events), cii : Seq(Nat), alert : Seq(Nat)]
    /\ stats \in Statistics /\ batch \in Statistics
    /\ published \in Seq(Nat)
    /\ touches \in Seq([asset : Assets, at : Nat, call : Nat]) /\ failed \subseteq Nat

\* Between calls the statistics account for the tables, whatever failed, was
\* delivered twice or was pruned in between.
StatsAccountForTables ==
    pc = "idle" =>
        /\ stats.inserted = Cardinality(db.events) + stats.pruned
        /\ stats.received = stats.inserted + stats.deduplicated
        /\ stats.alerts = Cardinality(db.alerts)
        /\ stats.computed = Cardinality(db.snaps)

\* a and b fall into one debounce window (or one instant).
Together(a, b) == a <= b /\ (b - a < AlertDebounce \/ a = b)

\* A honeytoken touch that was committed is alerted: its asset has an alert of the
\* same debounce window, or the window was opened by a batch that failed.
TripwireAccountedFor ==
    \A t \in db.tripped :
        \/ \E a \in db.alerts : a.asset = t.asset /\ Together(a.at, t.at)
        \/ \E i \in 1 .. Len(touches) :
              /\ touches[i].asset = t.asset /\ touches[i].call \in failed
              /\ Together(touches[i].at, t.at)

\* The other assets that were touched from one alert to another.
TouchedBetween(a, b) ==
    {touches[i].asset : i \in
        {j \in 1 .. Len(touches) : a.at <= touches[j].at /\ touches[j].at <= b.at}} \ {a.asset}

\* One incident, one alert: two alerts on an asset within the debounce window
\* need at least CacheMax other assets alerted in between, enough to evict it.
OneAlertPerIncident ==
    AlertDebounce > 0 =>
    \A a, b \in tx.alerts :
        a.asset = b.asset /\ a.id < b.id /\ b.at - a.at < AlertDebounce
            => Cardinality(TouchedBetween(a, b)) >= CacheMax

\* The blast radius linked to an alert is the one of its asset, and no older than
\* the CII debounce; an alert has none only if its asset is outside the graph.
AlertShowsItsBlastRadius ==
    \A a \in db.alerts :
        IF a.asset \in GraphAssets
          THEN \E s \in db.snaps :
                  /\ s.id = a.snap /\ s.asset = a.asset
                  /\ a.at - s.at < CiiDebounce \/ a.at = s.at
          ELSE a.snap = NoId

\* Event envelopes go out in the order of the event ids, without a repetition:
\* the order the live feed and its backfill cursor rely on.
PublishedInIdOrder ==
    \A i, j \in 1 .. Len(published) : i < j => published[i] < published[j]

\* Retention took the row of a flow: the table is at its cap, of rows no older.
TakenByRetention(f, events) ==
    Cardinality(events) = KeepRows /\ \A e \in events : f.row <= e.row

\* An event that is up for broadcast is a row of the committed table, unless the
\* batch that inserted it also pruned it: of a batch that failed nothing goes out.
BroadcastHasItsRow ==
    pc = "publish" =>
        \A i \in 1 .. Len(out.event) :
            LET f == out.event[i]
            IN  f.id = NoId \/ f \in db.events \/ TakenByRetention(f, db.events)

-----------------------------------------------------------------------------
(* What the documentation says and the code does not keep *)

\* "tripwire fired -> ALWAYS alert, severity critical", one per debounce window.
TripwireAlwaysAlerts ==
    \A t \in db.tripped :
        \E a \in db.alerts :
            a.asset = t.asset /\ a.severity = "critical" /\ Together(a.at, t.at)

\* "Data already durable in Postgres": what is up for broadcast is a committed row.
BroadcastIsDurable ==
    pc = "publish" =>
        \A i \in 1 .. Len(out.event) :
            out.event[i].id # NoId => out.event[i] \in db.events

=============================================================================
