----------------------------- MODULE IpsRegistry -----------------------------
(***************************************************************************)
(* The intrusion prevention layer of backend/ingest.py: each decision of    *)
(* the policy engine for an asset is checked against the active-mitigation  *)
(* registry (memory), carried out by the enforcement adapter (outside), and *)
(* recorded in ips_actions (database).  A mitigation ends by its TTL, by a  *)
(* stronger one, or by an operator's rollback request.                      *)
(*                                                                          *)
(* The three places change at different moments.  The ingest thread works   *)
(* inside the batch's transaction, which may still be rolled back; a        *)
(* rollback request runs in another thread, in a transaction of its own,    *)
(* and reaches the registry only after its commit.  Nothing locks the       *)
(* registry between them.                                                   *)
(***************************************************************************)
EXTENDS Naturals, FiniteSets

CONSTANTS
    Assets,         \* target assets
    MaxLevel,       \* PREVENTION_SEVERITY: 1 alert, 2 rate_limit, 3 block, 4 quarantine
    Operators,      \* route threads of POST /api/ips/actions/{id}/rollback
    MaxActions,     \* bound: ids drawn for ips_actions rows
    MaxDecisions,   \* bound: decisions of one batch
    MaxBatches,     \* bound: batches
    MaxTime,        \* bound: the clock
    MaxRestarts,    \* bound: restarts of the process
    Ttl,            \* seconds until a mitigation expires
    RegistryMax,    \* ips_active_action_cache_max_entries
    DryRun          \* ips_dry_run

ASSUME RegistryAssumption ==
    /\ MaxLevel \in 1 .. 4 /\ RegistryMax \in Nat \ {0} /\ Ttl \in Nat \ {0}
    /\ MaxActions \in Nat /\ MaxDecisions \in Nat /\ MaxBatches \in Nat
    /\ MaxTime \in Nat /\ MaxRestarts \in Nat
    /\ DryRun \in BOOLEAN

Levels == 1 .. MaxLevel
ActionIds == 1 .. MaxActions
NoId == 0
NoRow == [asset |-> NoId, level |-> 0, status |-> "none"]

VARIABLES
    now,                \* self._clock()
    rows,               \* ips_actions, as committed
    pending, marks,     \* the batch's transaction: rows added, statuses set
    lastId, batches,    \* serials drawn, batches begun
    registry,           \* _active_ips_actions: the later registered, the larger the id
    enforced,           \* what the adapter enforces
    pc, left, due,      \* the batch: where it is, decisions to come, expired assets
    opc, opId,          \* each operator: where the request is, and its action id
    restarts,           \* restarts so far
    lost, phantom,      \* history: live rows without an entry, entries without a live row
    abortedByAdapter    \* history: an adapter's exception ended a batch

txVars == <<pending, marks>>
batchVars == <<pc, left, due, batches>>
opVars == <<opc, opId>>
history == <<restarts, lost, phantom, abortedByAdapter>>
vars == <<now, rows, txVars, lastId, registry, enforced, batchVars, opVars, history>>

-----------------------------------------------------------------------------
(* Rows, entries and enforcement *)

Alive == {"simulated", "enforced"}
Ended == {"expired", "rolled_back", "superseded"}
IsActivePrevention(level) == level > 1

Ids(S) == {e.id : e \in S}

EntriesOf(asset) == {e \in registry : e.asset = asset}
Entry(asset) == CHOOSE e \in EntriesOf(asset) : TRUE
Without(asset) == registry \ EntriesOf(asset)
Registered == Ids(registry)

Measure(asset, level) == [asset |-> asset, level |-> level]
MeasureOf(row) == Measure(row.asset, row.level)

\* The ids whose rows or statuses the open transaction holds.
PendingIds == Ids(pending)
MarkedIds == Ids(marks)

\* session.get(IpsAction, id) of the batch's session finds a row.
Found(id) == id \in PendingIds \/ rows[id].status # "none"

-----------------------------------------------------------------------------
(* The initial state *)

Init ==
    /\ now = 0
    /\ rows = [id \in ActionIds |-> NoRow]
    /\ pending = {} /\ marks = {} /\ lastId = 0 /\ batches = 0
    /\ registry = {} /\ enforced = {}
    /\ pc = "idle" /\ left = 0 /\ due = {}
    /\ opc = [o \in Operators |-> "idle"] /\ opId = [o \in Operators |-> NoId]
    /\ restarts = 0 /\ lost = {} /\ phantom = {} /\ abortedByAdapter = FALSE

-----------------------------------------------------------------------------
(* The ingest thread: decisions, the TTL sweep, the end of the transaction *)

\* A batch whose flows lead to n decisions other than OBSERVE.
BeginBatch(n) ==
    /\ pc = "idle" /\ batches < MaxBatches
    /\ pc' = "decide" /\ left' = n /\ batches' = batches + 1
    /\ UNCHANGED <<now, rows, txVars, lastId, registry, enforced, due, opVars, history>>

\* The asset is already under an action at least as severe.
Covered(asset, level) == \E e \in EntriesOf(asset) : e.level >= level

\* _apply_ips_action(): a duplicate is neither recorded nor enforced again.
Suppress(asset, level) ==
    /\ pc = "decide" /\ left > 0
    /\ Covered(asset, level)
    /\ left' = left - 1
    /\ UNCHANGED <<now, rows, txVars, lastId, registry, enforced, pc, due, batches, opVars,
                   history>>

\* Mutant: the superseded row keeps its status.
Superseding_NoMark(asset) == {}

\* An escalation ends the weaker action's row, if it has one.
Superseding(asset) ==
    {[id |-> id, status |-> "superseded"] : id \in {k \in Ids(EntriesOf(asset)) : Found(k)}}

\* The registry with a new entry in place of the asset's, before the limit is applied.
Registering(asset, level, id) ==
    Without(asset) \cup {[asset |-> asset, level |-> level, id |-> id, expires |-> now + Ttl]}

\* The oldest entries beyond the limit.
Evicted(full) ==
    {e \in full : Cardinality({newer \in full : newer.id >= e.id}) > RegistryMax}

\* _apply_ips_action(): enforce (an exception counts as "failed"), record, supersede,
\* register, evict the oldest beyond the limit.
Apply(asset, level, result) ==
    /\ pc = "decide" /\ left > 0 /\ lastId < MaxActions
    /\ ~Covered(asset, level)
    /\ result \in {IF DryRun \/ ~IsActivePrevention(level) THEN "simulated" ELSE "enforced",
                   "failed"}
    /\ enforced' = enforced \cup (IF result = "enforced" THEN {Measure(asset, level)} ELSE {})
    /\ lastId' = lastId + 1
    /\ pending' = pending \cup
          {[id |-> lastId', asset |-> asset, level |-> level, status |-> result]}
    /\ marks' = marks \cup Superseding(asset)
    /\ LET full == IF IsActivePrevention(level) THEN Registering(asset, level, lastId')
                                                ELSE registry
       IN  /\ registry' = full \ Evicted(full)
           /\ lost' = lost \cup Ids(Evicted(full))
    /\ left' = left - 1
    /\ UNCHANGED <<now, rows, pc, due, batches, opVars, phantom, restarts,
                   abortedByAdapter>>

\* _maybe_expire_ips_actions(): the expired entries are listed first.
SweepBegin ==
    /\ pc = "decide" /\ left = 0
    /\ pc' = "sweep"
    /\ due' = {e.asset : e \in {f \in registry : f.expires <= now}}
    /\ UNCHANGED <<now, rows, txVars, lastId, registry, enforced, left, batches, opVars, history>>

\* Mutant: the adapter is not told.
Expire_NotReleased(asset) ==
    /\ pc = "sweep" /\ asset \in due
    /\ EntriesOf(asset) # {}
    /\ due' = due \ {asset}
    /\ registry' = Without(asset)
    /\ marks' = marks \cup (IF Found(Entry(asset).id)
                              THEN {[id |-> Entry(asset).id, status |-> "expired"]} ELSE {})
    /\ UNCHANGED <<now, rows, pending, lastId, enforced, pc, left, batches, opVars, history>>

\* Each is popped, rolled back at the adapter and its row marked.
Expire(asset) ==
    /\ pc = "sweep" /\ asset \in due
    /\ EntriesOf(asset) # {}
    /\ due' = due \ {asset}
    /\ registry' = Without(asset)
    /\ enforced' = enforced \ {Measure(asset, Entry(asset).level)}
    /\ marks' = marks \cup (IF Found(Entry(asset).id)
                              THEN {[id |-> Entry(asset).id, status |-> "expired"]} ELSE {})
    /\ UNCHANGED <<now, rows, pending, lastId, pc, left, batches, opVars, history>>

\* The batch ends with an exception: its transaction is rolled back, the registry
\* and the adapter stay as they are.  `popped` left the registry unmarked.
Abort(popped) ==
    /\ pc' = "idle" /\ left' = 0 /\ due' = {}
    /\ pending' = {} /\ marks' = {}
    /\ lost' = lost \cup MarkedIds \cup popped
    /\ phantom' = phantom \cup PendingIds
    /\ UNCHANGED <<now, rows, lastId, enforced, batches, restarts, opVars>>

\* adapter.rollback() raises after the entry was popped; nothing catches it.
ExpireRaises(asset) ==
    /\ pc = "sweep" /\ asset \in due
    /\ EntriesOf(asset) # {}
    /\ registry' = Without(asset)
    /\ Abort({Entry(asset).id})
    /\ abortedByAdapter' = TRUE

\* An operator's request removed the entry since the list was made: pop() raises
\* KeyError.
ExpireMisses(asset) ==
    /\ pc = "sweep" /\ asset \in due
    /\ EntriesOf(asset) = {}
    /\ Abort({})
    /\ UNCHANGED <<registry, abortedByAdapter>>

\* A later statement or the commit fails.
DatabaseFails ==
    /\ pc \in {"decide", "sweep"}
    /\ Abort({})
    /\ UNCHANGED <<registry, abortedByAdapter>>

\* The row of an id once the transaction is through.
Settled(id) ==
    LET base == IF id \in PendingIds THEN CHOOSE p \in pending : p.id = id ELSE rows[id]
        ends == {m.status : m \in {k \in marks : k.id = id}}
    IN  [asset |-> base.asset, level |-> base.level,
         status |-> IF ends = {} THEN base.status ELSE CHOOSE s \in ends : TRUE]

Commit ==
    /\ pc = "sweep" /\ due = {}
    /\ rows' = [id \in ActionIds |-> Settled(id)]
    /\ pending' = {} /\ marks' = {}
    /\ pc' = "idle"
    /\ UNCHANGED <<now, lastId, registry, enforced, left, due, batches, opVars, history>>

-----------------------------------------------------------------------------
(* rollback_ips_action(), in the thread of a request *)

\* The row is loaded; a terminal one or a plain alert is refused (409).
RollbackLoad(o, id) ==
    /\ opc[o] = "idle"
    /\ rows[id].status \in Alive /\ IsActivePrevention(rows[id].level)
    /\ opc' = [opc EXCEPT ![o] = "loaded"] /\ opId' = [opId EXCEPT ![o] = id]
    /\ UNCHANGED <<now, rows, txVars, lastId, registry, enforced, batchVars, history>>

\* Its status is written, whatever it has become since, and committed.
RollbackCommit(o) ==
    /\ opc[o] = "loaded"
    /\ rows' = [rows EXCEPT ![opId[o]].status = "rolled_back"]
    /\ opc' = [opc EXCEPT ![o] = "committed"]
    /\ UNCHANGED <<now, txVars, lastId, registry, enforced, batchVars, opId, history>>

\* The adapter releases the asset ...
RollbackRelease(o) ==
    /\ opc[o] = "committed"
    /\ enforced' = enforced \ {MeasureOf(rows[opId[o]])}
    /\ opc' = [opc EXCEPT ![o] = "released"]
    /\ UNCHANGED <<now, rows, txVars, lastId, registry, batchVars, opId, history>>

\* ... or raises: the request fails with the row already ended.
RollbackRaises(o) ==
    /\ opc[o] = "committed"
    /\ phantom' = phantom \cup {opId[o]}
    /\ opc' = [opc EXCEPT ![o] = "idle"] /\ opId' = [opId EXCEPT ![o] = NoId]
    /\ UNCHANGED <<now, rows, txVars, lastId, registry, enforced, batchVars, lost,
                   restarts, abortedByAdapter>>

\* Mutant: the entry is left alone.
RollbackCheck_NoDelete(o) ==
    /\ opc[o] = "released"
    /\ opc' = [opc EXCEPT ![o] = "idle"] /\ opId' = [opId EXCEPT ![o] = NoId]
    /\ UNCHANGED <<now, rows, txVars, lastId, registry, enforced, batchVars, history>>

\* The asset's entry is looked up: to be deleted if it is this action's.
RollbackCheck(o) ==
    /\ opc[o] = "released"
    /\ IF opId[o] \in Ids(EntriesOf(rows[opId[o]].asset))
         THEN opc' = [opc EXCEPT ![o] = "delete"] /\ UNCHANGED opId
         ELSE opc' = [opc EXCEPT ![o] = "idle"] /\ opId' = [opId EXCEPT ![o] = NoId]
    /\ UNCHANGED <<now, rows, txVars, lastId, registry, enforced, batchVars, history>>

\* del: whatever entry the asset has by now goes (KeyError, a failed request, if none).
RollbackDelete(o) ==
    /\ opc[o] = "delete"
    /\ registry' = Without(rows[opId[o]].asset)
    /\ lost' = lost \cup (Ids(EntriesOf(rows[opId[o]].asset)) \ {opId[o]})
    /\ opc' = [opc EXCEPT ![o] = "idle"] /\ opId' = [opId EXCEPT ![o] = NoId]
    /\ UNCHANGED <<now, rows, txVars, lastId, enforced, batchVars, phantom, restarts,
                   abortedByAdapter>>

\* The commit fails: nothing has happened.
RollbackFails(o) ==
    /\ opc[o] = "loaded"
    /\ opc' = [opc EXCEPT ![o] = "idle"] /\ opId' = [opId EXCEPT ![o] = NoId]
    /\ UNCHANGED <<now, rows, txVars, lastId, registry, enforced, batchVars, history>>

-----------------------------------------------------------------------------
(* The process and its surroundings *)

\* The process restarts with an empty registry, which nothing refills from the
\* database: what is on record as active stays so.
Restart ==
    /\ restarts < MaxRestarts /\ restarts' = restarts + 1
    /\ registry' = {}
    /\ lost' = lost \cup Registered \cup MarkedIds
    /\ phantom' = phantom \cup PendingIds
                    \cup {opId[o] : o \in {p \in Operators : opc[p] = "committed"}}
    /\ pc' = "idle" /\ left' = 0 /\ due' = {}
    /\ pending' = {} /\ marks' = {}
    /\ opc' = [o \in Operators |-> "idle"] /\ opId' = [o \in Operators |-> NoId]
    /\ UNCHANGED <<now, rows, lastId, enforced, batches, abortedByAdapter>>

Tick ==
    /\ now < MaxTime
    /\ now' = now + 1
    /\ UNCHANGED <<rows, txVars, lastId, registry, enforced, batchVars, opVars, history>>

-----------------------------------------------------------------------------
(* The specification *)

IngestStep ==
    \/ \E n \in 0 .. MaxDecisions : BeginBatch(n)
    \/ \E asset \in Assets, level \in Levels :
          \/ Suppress(asset, level)
          \/ \E result \in {"simulated", "enforced", "failed"} : Apply(asset, level, result)
    \/ SweepBegin
    \/ \E asset \in Assets : Expire(asset) \/ ExpireRaises(asset) \/ ExpireMisses(asset)
    \/ DatabaseFails \/ Commit

OperatorStep(o) ==
    \/ \E id \in ActionIds : RollbackLoad(o, id)
    \/ RollbackCommit(o) \/ RollbackRelease(o) \/ RollbackRaises(o)
    \/ RollbackCheck(o) \/ RollbackDelete(o) \/ RollbackFails(o)

Next == IngestStep \/ (\E o \in Operators : OperatorStep(o)) \/ Restart \/ Tick

Spec == Init /\ [][Next]_vars

-----------------------------------------------------------------------------
(* Properties *)

Statuses == {"none", "simulated", "enforced", "failed", "expired", "rolled_back", "superseded"}

\* The types, with the registry within its limit and one entry per asset.
TypeOK ==
    /\ now \in 0 .. MaxTime /\ lastId \in 0 .. MaxActions /\ batches \in 0 .. MaxBatches
    /\ rows \in [ActionIds ->
                    [asset : Assets \cup {NoId}, level : Levels \cup {0}, status : Statuses]]
    /\ pending \subseteq [id : ActionIds, asset : Assets, level : Levels, status : Statuses]
    /\ marks \subseteq [id : ActionIds, status : {"expired", "superseded"}]
    /\ registry \subseteq [asset : Assets, level : Levels, id : ActionIds, expires : Nat]
    /\ IsFiniteSet(registry) /\ Cardinality(registry) <= RegistryMax
    /\ \A e, f \in registry : e.asset = f.asset => e = f
    /\ enforced \subseteq [asset : Assets, level : Levels]
    /\ pc \in {"idle", "decide", "sweep"} /\ due \subseteq Assets /\ left \in 0 .. MaxDecisions
    /\ opc \in [Operators -> {"idle", "loaded", "committed", "released", "delete"}]
    /\ opId \in [Operators -> ActionIds \cup {NoId}]

\* A mitigation on record as active has a registry entry, so that it can expire and
\* be escalated, unless the entry was lost: to a batch that failed after it was
\* popped or replaced, to the limit, or to a rollback request of another action.
ActiveIsTracked ==
    \A id \in ActionIds :
        rows[id].status \in Alive /\ IsActivePrevention(rows[id].level)
            => id \in Registered \cup lost \cup MarkedIds

\* The entry that makes later decisions duplicates stands for a recorded action that
\* has not ended, unless its batch failed or an operator's request is ending it.
EntryIsBacked ==
    \A id \in Registered :
        \/ id \in PendingIds \cup phantom
        \/ rows[id].status \in Alive \cup {"failed"}
        \/ \E o \in Operators : opId[o] = id /\ opc[o] \in {"committed", "released", "delete"}

\* An action that ended by its TTL or by an operator is not enforced any more, unless
\* a later action of the same kind enforces it again, or the adapter is yet to be told
\* (or refused).
EndedIsReleased ==
    \A id \in ActionIds :
        rows[id].status \in {"expired", "rolled_back"} /\ MeasureOf(rows[id]) \in enforced
            => \/ id \in phantom
               \/ \E o \in Operators : opId[o] = id /\ opc[o] = "committed"
               \/ \E later \in id + 1 .. lastId :
                     \/ later \in phantom
                     \/ \E p \in pending : p.id = later /\ MeasureOf(p) = MeasureOf(rows[id])
                     \/ MeasureOf(rows[later]) = MeasureOf(rows[id])

\* An action that has ended, and that neither the open transaction nor a request is about
\* to end once more.
Over(id) ==
    /\ rows[id].status \in Ended
    /\ id \notin MarkedIds \cup phantom
    /\ \A o \in Operators : opId[o] # id

\* An ending is final: no later sweep, escalation or request finds the action again, so
\* that how it ended is not rewritten, unless the adapter refused to release it.
EndingIsFinal ==
    [][\A id \in ActionIds : Over(id) => Over(id)' /\ rows'[id] = rows[id]]_vars

-----------------------------------------------------------------------------
(* What the documentation says and the code does not keep *)

\* "the caller wraps both calls in a try/except": no exception of the adapter ends a
\* batch.
AdapterNeverAbortsBatch == ~abortedByAdapter

\* "FAILED/EXPIRED/ROLLED_BACK/SUPERSEDED are all terminal": a status that ends an action
\* is not replaced by another, although a request and a sweep may both be ending it.
TerminalStatusesStand ==
    [][\A id \in ActionIds : rows[id].status \in Ended => rows'[id].status = rows[id].status]_vars

=============================================================================
