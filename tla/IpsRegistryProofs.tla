--------------------------- MODULE IpsRegistryProofs ---------------------------
(***************************************************************************)
(* Proofs about IpsRegistry, for any number of assets, severities, operators *)
(* and rows, every registry limit and every TTL: the registry, the record    *)
(* and the adapter agree, except where a failure or a concurrent request is  *)
(* on the record as the reason (TypeCorrect, Tracked, Backed, Released), and  *)
(* what is over is not ended again (Final).                                  *)
(***************************************************************************)
EXTENDS IpsRegistry, TLAPS, FiniteSetTheorems, NaturalsInduction, WellFoundedInduction

-----------------------------------------------------------------------------
(* The inductive invariant *)

\* Ids are drawn in order: the open transaction holds the newest, each once; an id without
\* a row says nothing; a request works on a row that exists, and ends it before the rest.
IdInv ==
    /\ \A p \in pending :
          /\ p.id <= lastId /\ rows[p.id].status = "none"
          /\ p.status \in {"simulated", "enforced", "failed"}
          /\ \A q \in pending : p.id = q.id => p = q
    /\ \A e \in registry : e.id <= lastId
    /\ \A id \in ActionIds :
          IF rows[id].status = "none" THEN rows[id].level = 0
             ELSE rows[id].level \in Levels /\ rows[id].asset \in Assets /\ id <= lastId
    /\ \A m \in marks : Found(m.id)
    /\ \A o \in Operators : opc[o] # "idle" =>
          /\ opId[o] \in ActionIds /\ rows[opId[o]].status # "none"
          /\ opc[o] # "loaded" => rows[opId[o]].status \notin Alive

\* An entry agrees with the row it stands for, and is not marked as ended.
EntryInv ==
    \A e \in registry :
        /\ rows[e.id].status # "none" => MeasureOf(rows[e.id]) = MeasureOf(e)
        /\ \A p \in pending : p.id = e.id => MeasureOf(p) = MeasureOf(e)
        /\ e.id \notin MarkedIds

\* The transaction is open while a batch is under way; what the sweep has marked, it has
\* released, and nothing enforces again before the transaction ends.
SweepInv ==
    /\ pc = "idle" => pending = {} /\ marks = {}
    /\ \A m \in marks : m.status = "expired" =>
          /\ pc = "sweep"
          /\ rows[m.id].status # "none" => MeasureOf(rows[m.id]) \notin enforced
          /\ \A p \in pending : p.id = m.id => MeasureOf(p) \notin enforced

\* ActiveIsTracked, of the rows of the open transaction too.
TrackedInv ==
    /\ ActiveIsTracked
    /\ \A p \in pending : p.status \in Alive /\ IsActivePrevention(p.level)
                              => p.id \in Registered \cup lost \cup MarkedIds

IInv ==
    /\ TypeOK /\ IdInv /\ EntryInv /\ SweepInv
    /\ TrackedInv /\ EntryIsBacked /\ EndedIsReleased

LEMMA LevelType == Levels \subseteq Nat /\ ActionIds \subseteq Nat /\ 0 \notin Levels
BY RegistryAssumption DEF Levels, ActionIds

\* What an open transaction or the record knows of an id.
Base(id) == IF id \in PendingIds THEN CHOOSE p \in pending : p.id = id ELSE rows[id]

-----------------------------------------------------------------------------
(* Steps that move only a batch or a request *)

LEMMA InitHolds == Init => IInv
<1>. SUFFICES ASSUME Init PROVE IInv
  OBVIOUS
<1>1. TypeOK
  <2>1. IsFiniteSet({}) /\ Cardinality({}) = 0
    BY FS_EmptySet
  <2>. QED  BY <2>1, RegistryAssumption DEF Init, TypeOK, NoRow, Statuses, NoId
<1>2. IdInv /\ EntryInv /\ SweepInv
  BY DEF Init, IdInv, EntryInv, SweepInv, NoRow
<1>3. TrackedInv /\ EntryIsBacked /\ EndedIsReleased
  BY DEF Init, TrackedInv, ActiveIsTracked, EntryIsBacked, EndedIsReleased, NoRow, Alive,
         Registered, Ids
<1>. QED  BY <1>1, <1>2, <1>3 DEF IInv

\* The facts that a step of the batch's control leaves alone.
LEMMA ControlSteps ==
    ASSUME IInv,
           \/ \E n \in 0 .. MaxDecisions : BeginBatch(n)
           \/ \E asset \in Assets, level \in Levels : Suppress(asset, level)
           \/ SweepBegin \/ Tick \/ UNCHANGED vars
    PROVE  IInv'
<1>1. /\ UNCHANGED <<rows, pending, marks, lastId, registry, enforced, opc, opId, lost,
                     phantom>>
      /\ pc' = pc \/ (pc = "idle" /\ pc' = "decide") \/ (pc = "decide" /\ pc' = "sweep")
  BY DEF BeginBatch, Suppress, SweepBegin, Tick, vars, txVars, opVars, batchVars, history
<1>2. TypeOK'
  <2>1. now' \in 0 .. MaxTime /\ batches' \in 0 .. MaxBatches /\ left' \in 0 .. MaxDecisions
    BY RegistryAssumption DEF IInv, TypeOK, BeginBatch, Suppress, SweepBegin, Tick, vars,
       batchVars
  <2>2. due' \subseteq Assets /\ pc' \in {"idle", "decide", "sweep"}
    BY <1>1 DEF IInv, TypeOK, BeginBatch, Suppress, SweepBegin, Tick, vars, batchVars
  <2>. QED  BY <1>1, <2>1, <2>2 DEF IInv, TypeOK
<1>3. IdInv' /\ EntryInv'
  BY <1>1 DEF IInv, IdInv, EntryInv, Found, PendingIds, MarkedIds
<1>4. SweepInv'
  BY <1>1 DEF IInv, SweepInv
<1>5. TrackedInv' /\ EntryIsBacked' /\ EndedIsReleased'
  BY <1>1 DEF IInv, TrackedInv, ActiveIsTracked, EntryIsBacked, EndedIsReleased, Registered,
     PendingIds, MarkedIds
<1>. QED  BY <1>2, <1>3, <1>4, <1>5 DEF IInv

-----------------------------------------------------------------------------
(* The requests *)

\* A request that begins, fails before its commit, or finds nothing to delete.
LEMMA RequestControl ==
    ASSUME IInv, NEW o \in Operators,
           \/ \E id \in ActionIds : RollbackLoad(o, id)
           \/ RollbackFails(o) \/ RollbackCheck(o)
    PROVE  IInv'
<1>1. /\ UNCHANGED <<now, rows, pending, marks, lastId, registry, enforced, pc, left, due,
                     batches, lost, phantom>>
      /\ \A q \in Operators \ {o} : opc'[q] = opc[q] /\ opId'[q] = opId[q]
      /\ opc' \in [Operators -> {"idle", "loaded", "committed", "released", "delete"}]
      /\ opId' \in [Operators -> ActionIds \cup {NoId}]
  BY DEF IInv, TypeOK, RollbackLoad, RollbackFails, RollbackCheck, txVars, batchVars, history
<1>2. \/ opc'[o] = "idle" /\ opc[o] = "loaded"
      \/ opc'[o] = "idle" /\ opc[o] = "released"
            /\ opId[o] \notin Ids(EntriesOf(rows[opId[o]].asset))
      \/ opc'[o] = "delete" /\ opc[o] = "released" /\ opId'[o] = opId[o]
      \/ /\ opc[o] = "idle" /\ opc'[o] = "loaded" /\ opId'[o] \in ActionIds
         /\ rows[opId'[o]].status \in Alive
  BY DEF IInv, TypeOK, RollbackLoad, RollbackFails, RollbackCheck
<1>3. TypeOK'
  BY <1>1 DEF IInv, TypeOK
<1>4. EntryInv' /\ SweepInv' /\ TrackedInv'
  BY <1>1 DEF IInv, EntryInv, SweepInv, TrackedInv, ActiveIsTracked, MarkedIds, Registered
<1>5. IdInv'
  <2>1. opc'[o] # "idle" =>
          /\ opId'[o] \in ActionIds /\ rows[opId'[o]].status # "none"
          /\ opc'[o] # "loaded" => rows[opId'[o]].status \notin Alive
    BY <1>2 DEF IInv, IdInv, Alive
  <2>. QED  BY <1>1, <2>1 DEF IInv, IdInv, Found, PendingIds
<1>6. EntryIsBacked'
  <2>. SUFFICES ASSUME NEW id \in Registered, id \notin PendingIds \cup phantom,
                       rows[id].status \notin Alive \cup {"failed"}
                PROVE  \E q \in Operators :
                          opId'[q] = id /\ opc'[q] \in {"committed", "released", "delete"}
    BY <1>1 DEF EntryIsBacked, Registered, PendingIds
  <2>1. PICK q \in Operators : opId[q] = id /\ opc[q] \in {"committed", "released", "delete"}
    BY DEF IInv, EntryIsBacked
  <2>2. CASE q # o
    BY <1>1, <2>1, <2>2
  <2>3. CASE q = o
    <3>1. PICK e \in registry : e.id = id
      BY DEF Registered, Ids
    <3>2. rows[id].status # "none"
      BY <2>1, <2>3 DEF IInv, IdInv
    <3>3. rows[id].asset = e.asset
      BY <3>1, <3>2 DEF IInv, EntryInv, MeasureOf, Measure
    <3>4. opId[o] \in Ids(EntriesOf(rows[opId[o]].asset))
      BY <2>1, <2>3, <3>1, <3>3 DEF EntriesOf, Ids
    <3>. QED  BY <1>2, <2>1, <2>3, <3>4
  <2>. QED  BY <2>2, <2>3
<1>7. EndedIsReleased'
  <2>1. \A q \in Operators : opc[q] = "committed" => opc'[q] = "committed" /\ opId'[q] = opId[q]
    BY <1>1, <1>2
  <2>. QED  BY <1>1, <2>1 DEF IInv, EndedIsReleased
<1>. QED  BY <1>3, <1>4, <1>5, <1>6, <1>7 DEF IInv

\* The status of an existing row is overwritten, whatever it has become since.
LEMMA RequestCommits ==
    ASSUME IInv, NEW o \in Operators, RollbackCommit(o)
    PROVE  IInv'
<1> DEFINE id == opId[o]
<1>1. /\ UNCHANGED <<now, pending, marks, lastId, registry, enforced, pc, left, due,
                     batches, lost, phantom, opId>>
      /\ opc[o] = "loaded" /\ opc' = [opc EXCEPT ![o] = "committed"]
      /\ rows' = [rows EXCEPT ![id].status = "rolled_back"]
  BY DEF RollbackCommit, txVars, batchVars, history
<1>2. id \in ActionIds /\ rows[id].status # "none"
  BY <1>1 DEF IInv, IdInv
<1>3. /\ \A k \in ActionIds : MeasureOf(rows'[k]) = MeasureOf(rows[k])
      /\ \A k \in ActionIds : rows'[k].level = rows[k].level /\ rows'[k].asset = rows[k].asset
      /\ \A k \in ActionIds \ {id} : rows'[k] = rows[k]
      /\ rows'[id].status = "rolled_back"
  BY <1>1, <1>2 DEF IInv, TypeOK, MeasureOf, Measure
<1>4. /\ \A k \in ActionIds : rows'[k].status = "none" <=> rows[k].status = "none"
      /\ \A k \in ActionIds : rows'[k].status \in Alive => rows[k].status \in Alive
  BY <1>2, <1>3 DEF Alive
<1>5. /\ opc'[o] = "committed" /\ \A q \in Operators \ {o} : opc'[q] = opc[q]
      /\ opc' \in [Operators -> {"idle", "loaded", "committed", "released", "delete"}]
  BY <1>1 DEF IInv, TypeOK
<1> HIDE DEF id
<1>6. TypeOK'
  <2>1. rows' \in [ActionIds ->
                     [asset : Assets \cup {NoId}, level : Levels \cup {0}, status : Statuses]]
    BY <1>1, <1>2 DEF IInv, TypeOK, Statuses
  <2>. QED  BY <1>1, <1>5, <2>1 DEF IInv, TypeOK
<1>7. IdInv'
  <2>1. \A p \in pending : p.id \in ActionIds
    BY DEF IInv, TypeOK
  <2>2. \A m \in marks : m.id \in ActionIds
    BY DEF IInv, TypeOK
  <2>3. \A q \in Operators : opc'[q] # "idle" =>
          /\ opId[q] \in ActionIds /\ rows'[opId[q]].status # "none"
          /\ opc'[q] # "loaded" => rows'[opId[q]].status \notin Alive
    <3>1. ASSUME NEW q \in Operators, opc'[q] # "idle"
          PROVE  /\ opId[q] \in ActionIds /\ rows'[opId[q]].status # "none"
                 /\ opc'[q] # "loaded" => rows'[opId[q]].status \notin Alive
      <4>1. CASE q = o
        BY <1>2, <1>3, <4>1 DEF Alive, id
      <4>2. CASE q # o
        BY <1>4, <1>5, <3>1, <4>2 DEF IInv, IdInv
      <4>. QED  BY <4>1, <4>2
    <3>. QED  BY <3>1
  <2>4. \A m \in marks : Found(m.id)'
    BY <1>1, <1>4, <2>2 DEF IInv, IdInv, Found, PendingIds
  <2>5. \A k \in ActionIds :
          IF rows'[k].status = "none" THEN rows'[k].level = 0
             ELSE rows'[k].level \in Levels /\ rows'[k].asset \in Assets /\ k <= lastId
    BY <1>3, <1>4 DEF IInv, IdInv
  <2>. QED  BY <1>1, <1>4, <2>1, <2>3, <2>4, <2>5 DEF IInv, IdInv
<1>8. EntryInv' /\ SweepInv'
  <2>1. /\ \A e \in registry : e.id \in ActionIds
        /\ \A m \in marks : m.id \in ActionIds
    BY DEF IInv, TypeOK
  <2>2. EntryInv'
    BY <1>1, <1>3, <1>4, <2>1 DEF IInv, EntryInv, MarkedIds
  <2>3. SweepInv'
    BY <1>1, <1>3, <1>4, <2>1 DEF IInv, SweepInv
  <2>. QED  BY <2>2, <2>3
<1>9. TrackedInv'
  BY <1>1, <1>3, <1>4 DEF IInv, TrackedInv, ActiveIsTracked, MarkedIds, Registered
<1>10. EntryIsBacked'
  <2>1. Registered \subseteq ActionIds
    BY DEF IInv, TypeOK, Registered, Ids
  <2>2. \A q \in Operators : opc[q] \in {"committed", "released", "delete"}
            => opc'[q] \in {"committed", "released", "delete"}
    BY <1>5
  <2>3. opId'[o] = id /\ opc'[o] = "committed"
    BY <1>1, <1>5 DEF id
  <2>. SUFFICES ASSUME NEW k \in Registered
                PROVE  \/ k \in PendingIds \cup phantom
                       \/ rows'[k].status \in Alive \cup {"failed"}
                       \/ \E q \in Operators :
                            opId'[q] = k /\ opc'[q] \in {"committed", "released", "delete"}
    BY <1>1 DEF EntryIsBacked, Registered, PendingIds
  <2>4. CASE k = id
    BY <2>3, <2>4
  <2>5. CASE k # id
    <3>1. rows'[k] = rows[k]
      BY <1>3, <2>1, <2>5
    <3>. QED  BY <1>1, <2>2, <3>1 DEF IInv, EntryIsBacked
  <2>. QED  BY <2>4, <2>5
<1>11. EndedIsReleased'
  <2>. SUFFICES ASSUME NEW k \in ActionIds, rows'[k].status \in {"expired", "rolled_back"},
                       MeasureOf(rows'[k]) \in enforced
                PROVE  \/ k \in phantom
                       \/ \E q \in Operators : opId'[q] = k /\ opc'[q] = "committed"
                       \/ \E later \in k + 1 .. lastId :
                            \/ later \in phantom
                            \/ \E p \in pending :
                                  p.id = later /\ MeasureOf(p) = MeasureOf(rows'[k])
                            \/ MeasureOf(rows'[later]) = MeasureOf(rows'[k])
    BY <1>1 DEF EndedIsReleased
  <2>1. CASE k = id
    BY <1>1, <1>5, <2>1 DEF id
  <2>2. CASE k # id
    <3>1. rows'[k] = rows[k]
      BY <1>3, <2>2
    <3>2. \/ k \in phantom
          \/ \E q \in Operators : opId[q] = k /\ opc[q] = "committed"
          \/ \E later \in k + 1 .. lastId :
               \/ later \in phantom
               \/ \E p \in pending : p.id = later /\ MeasureOf(p) = MeasureOf(rows[k])
               \/ MeasureOf(rows[later]) = MeasureOf(rows[k])
      BY <3>1 DEF IInv, EndedIsReleased
    <3>3. \A later \in k + 1 .. lastId : later \in ActionIds
      BY RegistryAssumption DEF IInv, TypeOK, ActionIds
    <3>4. \A q \in Operators : opc[q] = "committed" => opc'[q] = "committed"
      BY <1>5
    <3>. QED  BY <1>1, <1>3, <3>1, <3>2, <3>3, <3>4
  <2>. QED  BY <2>1, <2>2
<1>. QED  BY <1>6, <1>7, <1>8, <1>9, <1>10, <1>11 DEF IInv

\* Fewer entries are fewer: the registry's type survives a removal.
LEMMA Removal ==
    ASSUME TypeOK, NEW kept, kept \subseteq registry
    PROVE  /\ kept \subseteq [asset : Assets, level : Levels, id : ActionIds, expires : Nat]
           /\ IsFiniteSet(kept) /\ Cardinality(kept) <= RegistryMax
           /\ \A e, f \in kept : e.asset = f.asset => e = f
<1>1. IsFiniteSet(kept) /\ Cardinality(kept) <= Cardinality(registry)
  BY FS_Subset DEF TypeOK
<1>2. Cardinality(kept) \in Nat /\ Cardinality(registry) \in Nat
  BY <1>1, FS_CardinalityType DEF TypeOK
<1>3. Cardinality(registry) <= RegistryMax /\ RegistryMax \in Nat
  BY RegistryAssumption DEF TypeOK
<1>4. Cardinality(kept) <= RegistryMax
  BY <1>1, <1>2, <1>3
<1>. QED  BY <1>1, <1>4 DEF TypeOK

\* The adapter releases, or raises.
LEMMA RequestReleases ==
    ASSUME IInv, NEW o \in Operators, RollbackRelease(o) \/ RollbackRaises(o)
    PROVE  IInv'
<1>1. /\ UNCHANGED <<now, rows, pending, marks, lastId, registry, pc, left, due, batches, lost>>
      /\ opc[o] = "committed" /\ \A q \in Operators \ {o} : opc'[q] = opc[q] /\ opId'[q] = opId[q]
      /\ opc' \in [Operators -> {"idle", "loaded", "committed", "released", "delete"}]
      /\ opId' \in [Operators -> ActionIds \cup {NoId}]
      /\ enforced' \subseteq enforced /\ phantom \subseteq phantom'
  BY DEF IInv, TypeOK, RollbackRelease, RollbackRaises, txVars, batchVars, history
<1>2. \/ /\ opc'[o] = "released" /\ opId'[o] = opId[o]
         /\ MeasureOf(rows[opId[o]]) \notin enforced'
      \/ opc'[o] = "idle" /\ opId[o] \in phantom'
  BY DEF IInv, TypeOK, RollbackRelease, RollbackRaises
<1>3. TypeOK'
  BY <1>1 DEF IInv, TypeOK
<1>4. EntryInv' /\ SweepInv' /\ TrackedInv'
  BY <1>1 DEF IInv, EntryInv, SweepInv, TrackedInv, ActiveIsTracked, MarkedIds, Registered
<1>5. IdInv'
  <2>1. opc'[o] # "idle" =>
          /\ opId'[o] \in ActionIds /\ rows[opId'[o]].status # "none"
          /\ opc'[o] # "loaded" => rows[opId'[o]].status \notin Alive
    BY <1>1, <1>2 DEF IInv, IdInv
  <2>. QED  BY <1>1, <2>1 DEF IInv, IdInv, Found, PendingIds
<1>6. EntryIsBacked'
  <2>. SUFFICES ASSUME NEW id \in Registered, id \notin PendingIds \cup phantom',
                       rows[id].status \notin Alive \cup {"failed"}
                PROVE  \E q \in Operators :
                          opId'[q] = id /\ opc'[q] \in {"committed", "released", "delete"}
    BY <1>1 DEF EntryIsBacked, Registered, PendingIds
  <2>1. PICK q \in Operators : opId[q] = id /\ opc[q] \in {"committed", "released", "delete"}
    BY <1>1 DEF IInv, EntryIsBacked
  <2>. QED  BY <1>1, <1>2, <2>1
<1>7. EndedIsReleased'
  <2>. SUFFICES ASSUME NEW k \in ActionIds, rows[k].status \in {"expired", "rolled_back"},
                       MeasureOf(rows[k]) \in enforced'
                PROVE  \/ k \in phantom'
                       \/ \E q \in Operators : opId'[q] = k /\ opc'[q] = "committed"
                       \/ \E later \in k + 1 .. lastId :
                            \/ later \in phantom'
                            \/ \E p \in pending :
                                  p.id = later /\ MeasureOf(p) = MeasureOf(rows[k])
                            \/ MeasureOf(rows[later]) = MeasureOf(rows[k])
    BY <1>1 DEF EndedIsReleased
  <2>1. \/ k \in phantom
        \/ \E q \in Operators : opId[q] = k /\ opc[q] = "committed"
        \/ \E later \in k + 1 .. lastId :
             \/ later \in phantom
             \/ \E p \in pending : p.id = later /\ MeasureOf(p) = MeasureOf(rows[k])
             \/ MeasureOf(rows[later]) = MeasureOf(rows[k])
    BY <1>1 DEF IInv, EndedIsReleased
  <2>2. ASSUME NEW q \in Operators, opId[q] = k, opc[q] = "committed"
        PROVE  k \in phantom' \/ (opId'[q] = k /\ opc'[q] = "committed")
    BY <1>1, <1>2, <2>2
  <2>. QED  BY <1>1, <2>1, <2>2
<1>. QED  BY <1>3, <1>4, <1>5, <1>6, <1>7 DEF IInv

\* Whatever entry the asset has by now goes.
LEMMA RequestDeletes ==
    ASSUME IInv, NEW o \in Operators, RollbackDelete(o)
    PROVE  IInv'
<1> DEFINE gone == EntriesOf(rows[opId[o]].asset)
<1>1. /\ UNCHANGED <<now, rows, pending, marks, lastId, enforced, pc, left, due, batches,
                     phantom>>
      /\ opc[o] = "delete" /\ opc' = [opc EXCEPT ![o] = "idle"]
      /\ opId' = [opId EXCEPT ![o] = NoId]
      /\ registry' = registry \ gone /\ lost' = lost \cup (Ids(gone) \ {opId[o]})
  BY DEF RollbackDelete, txVars, batchVars, Without
<1>2. /\ \A q \in Operators \ {o} : opc'[q] = opc[q] /\ opId'[q] = opId[q]
      /\ opc'[o] = "idle"
      /\ opc' \in [Operators -> {"idle", "loaded", "committed", "released", "delete"}]
      /\ opId' \in [Operators -> ActionIds \cup {NoId}]
  BY <1>1 DEF IInv, TypeOK
<1> HIDE DEF gone
<1>3. registry' \subseteq registry /\ \A id \in Registered \ Registered' : id \in Ids(gone)
  BY <1>1 DEF Registered, Ids
<1>4. TypeOK'
  BY <1>1, <1>2, <1>3, Removal DEF IInv, TypeOK
<1>5. IdInv' /\ EntryInv' /\ SweepInv'
  BY <1>1, <1>2, <1>3 DEF IInv, IdInv, EntryInv, SweepInv, Found, PendingIds, MarkedIds
<1>6. TrackedInv'
  <2>1. rows[opId[o]].status \notin Alive /\ rows[opId[o]].status # "none"
    BY <1>1 DEF IInv, IdInv
  <2>2. ASSUME NEW id \in Registered, id # opId[o] PROVE id \in Registered' \cup lost'
    BY <1>1, <1>3, <2>2
  <2>3. \A p \in pending : p.id # opId[o]
    BY <2>1 DEF IInv, IdInv
  <2>. QED  BY <1>1, <2>1, <2>2, <2>3 DEF IInv, TrackedInv, ActiveIsTracked, MarkedIds
<1>7. EntryIsBacked'
  <2>. SUFFICES ASSUME NEW id \in Registered', id \notin PendingIds \cup phantom,
                       rows[id].status \notin Alive \cup {"failed"}
                PROVE  \E q \in Operators :
                          opId'[q] = id /\ opc'[q] \in {"committed", "released", "delete"}
    BY <1>1 DEF EntryIsBacked, PendingIds
  <2>1. PICK e \in registry : e.id = id /\ e \notin gone
    BY <1>1 DEF Registered, Ids
  <2>2. id \in Registered
    BY <2>1 DEF Registered, Ids
  <2>3. PICK q \in Operators : opId[q] = id /\ opc[q] \in {"committed", "released", "delete"}
    BY <2>2 DEF IInv, EntryIsBacked
  <2>4. q # o
    <3>. SUFFICES ASSUME q = o PROVE FALSE
      OBVIOUS
    <3>1. rows[id].asset = e.asset
      <4>1. rows[id].status # "none"
        BY <2>3 DEF IInv, IdInv
      <4>. QED  BY <2>1, <4>1 DEF IInv, EntryInv, MeasureOf, Measure
    <3>. QED  BY <2>1, <2>3, <3>1 DEF gone, EntriesOf
  <2>. QED  BY <1>2, <2>3, <2>4
<1>8. EndedIsReleased'
  <2>1. \A q \in Operators : opc[q] = "committed" => opc'[q] = "committed" /\ opId'[q] = opId[q]
    BY <1>1, <1>2
  <2>. QED  BY <1>1, <2>1 DEF IInv, EndedIsReleased
<1>. QED  BY <1>4, <1>5, <1>6, <1>7, <1>8 DEF IInv

-----------------------------------------------------------------------------
(* The ends of a batch *)

\* An asset has one entry at most, so that the entry popped is all the asset had.
LEMMA OneEntry ==
    ASSUME TypeOK, NEW asset, EntriesOf(asset) # {}
    PROVE  EntriesOf(asset) = {Entry(asset)} /\ Entry(asset) \in registry
                /\ Entry(asset).asset = asset
BY DEF TypeOK, EntriesOf, Entry

\* Whatever the transaction held is rolled back; an entry it popped is gone, and what it
\* marked stays unmarked.
LEMMA BatchAborts ==
    ASSUME IInv,
           DatabaseFails \/ \E asset \in Assets : ExpireRaises(asset) \/ ExpireMisses(asset)
    PROVE  IInv'
<1>1. /\ UNCHANGED <<now, rows, lastId, enforced, batches, opc, opId>>
      /\ pc' = "idle" /\ left' = 0 /\ due' = {} /\ pending' = {} /\ marks' = {}
      /\ MarkedIds \cup lost \subseteq lost' /\ phantom' = phantom \cup PendingIds
  BY DEF DatabaseFails, ExpireRaises, ExpireMisses, Abort, opVars
<1>2. registry' \subseteq registry /\ Registered \subseteq Registered' \cup lost'
  <2>1. CASE registry' = registry
    BY <2>1 DEF Registered
  <2>2. ASSUME NEW asset \in Assets, ExpireRaises(asset)
        PROVE  registry' \subseteq registry /\ Registered \subseteq Registered' \cup lost'
    <3>1. /\ registry' = registry \ EntriesOf(asset) /\ Entry(asset).id \in lost'
          /\ EntriesOf(asset) # {}
      BY <2>2 DEF ExpireRaises, Abort, Without
    <3>2. EntriesOf(asset) = {Entry(asset)}
      BY <3>1, OneEntry DEF IInv
    <3>. QED  BY <3>1, <3>2 DEF Registered, Ids
  <2>. QED  BY <2>1, <2>2 DEF DatabaseFails, ExpireMisses
<1>3. TypeOK'
  BY <1>1, <1>2, Removal, RegistryAssumption DEF IInv, TypeOK
<1>4. PendingIds' = {} /\ MarkedIds' = {}
  BY <1>1 DEF PendingIds, MarkedIds, Ids
<1>5. IdInv' /\ EntryInv' /\ SweepInv'
  BY <1>1, <1>2, <1>4 DEF IInv, IdInv, EntryInv, SweepInv
<1>6. TrackedInv'
  BY <1>1, <1>2, <1>4 DEF IInv, TrackedInv, ActiveIsTracked
<1>7. EntryIsBacked'
  <2>1. Registered' \subseteq Registered
    BY <1>2 DEF Registered, Ids
  <2>. QED  BY <1>1, <1>4, <2>1 DEF IInv, EntryIsBacked
<1>8. EndedIsReleased'
  <2>1. \A p \in pending : p.id \in phantom'
    BY <1>1 DEF PendingIds, Ids
  <2>2. UNCHANGED <<rows, lastId, enforced, opc, opId>> /\ phantom \subseteq phantom'
    BY <1>1
  <2>. QED  BY <2>1, <2>2 DEF IInv, EndedIsReleased
<1>. QED  BY <1>3, <1>5, <1>6, <1>7, <1>8 DEF IInv

LEMMA RestartStep ==
    ASSUME IInv, Restart
    PROVE  IInv'
<1>1. /\ UNCHANGED <<now, rows, lastId, enforced, batches>>
      /\ pc' = "idle" /\ left' = 0 /\ due' = {} /\ pending' = {} /\ marks' = {}
      /\ lost' = lost \cup Registered \cup MarkedIds /\ registry' = {}
      /\ phantom' = phantom \cup PendingIds
                       \cup {opId[o] : o \in {p \in Operators : opc[p] = "committed"}}
      /\ opc' = [o \in Operators |-> "idle"] /\ opId' = [o \in Operators |-> NoId]
  BY DEF Restart
<1>2. TypeOK'
  <2>1. registry' \subseteq registry
    BY <1>1
  <2>. QED  BY <1>1, <2>1, Removal, RegistryAssumption DEF IInv, TypeOK
<1>3. PendingIds' = {} /\ MarkedIds' = {} /\ Registered' = {}
  BY <1>1 DEF PendingIds, MarkedIds, Registered, Ids
<1>4. IdInv' /\ EntryInv' /\ SweepInv'
  BY <1>1, <1>3 DEF IInv, IdInv, EntryInv, SweepInv
<1>5. TrackedInv' /\ EntryIsBacked'
  BY <1>1, <1>3 DEF IInv, TrackedInv, ActiveIsTracked, EntryIsBacked
<1>6. EndedIsReleased'
  <2>1. /\ \A p \in pending : p.id \in phantom'
        /\ \A o \in Operators : opc[o] = "committed" => opId[o] \in phantom'
    BY <1>1 DEF PendingIds, Ids
  <2>2. UNCHANGED <<rows, lastId, enforced>> /\ phantom \subseteq phantom'
    BY <1>1
  <2>. QED  BY <2>1, <2>2 DEF IInv, EndedIsReleased
<1>. QED  BY <1>2, <1>4, <1>5, <1>6 DEF IInv

\* What a commit makes of an id.
LEMMA SettledIs ==
    ASSUME IInv, NEW id \in ActionIds
    PROVE  /\ id \notin PendingIds =>
                 /\ Settled(id).asset = rows[id].asset /\ Settled(id).level = rows[id].level
                 /\ id \notin MarkedIds => Settled(id).status = rows[id].status
           /\ \A p \in pending : p.id = id =>
                 /\ Settled(id).asset = p.asset /\ Settled(id).level = p.level
                 /\ id \notin MarkedIds => Settled(id).status = p.status
           /\ id \in MarkedIds => \E m \in marks : m.id = id /\ Settled(id).status = m.status
<1> DEFINE ends == {m.status : m \in {k \in marks : k.id = id}}
<1>1. Settled(id) = [asset |-> Base(id).asset, level |-> Base(id).level,
                     status |-> IF ends = {} THEN Base(id).status ELSE CHOOSE s \in ends : TRUE]
  BY DEF Settled, Base
<1>2. \A p \in pending : p.id = id => Base(id) = p
  <2>1. ASSUME NEW p \in pending, p.id = id PROVE Base(id) = p
    <3>1. id \in PendingIds
      BY <2>1 DEF PendingIds, Ids
    <3>2. \A q \in pending : q.id = id => q = p
      BY <2>1 DEF IInv, IdInv
    <3>. QED  BY <2>1, <3>1, <3>2 DEF Base
  <2>. QED  BY <2>1
<1>3. id \notin PendingIds => Base(id) = rows[id]
  BY DEF Base
<1>4. id \in MarkedIds => \E m \in marks : m.id = id /\ (CHOOSE s \in ends : TRUE) = m.status
                                           /\ ends # {}
  <2>1. id \in MarkedIds => ends # {}
    BY DEF MarkedIds, Ids
  <2>2. ends # {} => (CHOOSE s \in ends : TRUE) \in ends
    OBVIOUS
  <2>. QED  BY <2>1, <2>2
<1>5. id \notin MarkedIds => ends = {}
  BY DEF MarkedIds, Ids
<1> HIDE DEF ends
<1>6. /\ Settled(id).asset = Base(id).asset /\ Settled(id).level = Base(id).level
      /\ Settled(id).status = IF ends = {} THEN Base(id).status ELSE CHOOSE s \in ends : TRUE
  BY <1>1
<1>7. id \notin PendingIds =>
        /\ Settled(id).asset = rows[id].asset /\ Settled(id).level = rows[id].level
        /\ id \notin MarkedIds => Settled(id).status = rows[id].status
  BY <1>3, <1>5, <1>6
<1>8. ASSUME NEW p \in pending, p.id = id
      PROVE  /\ Settled(id).asset = p.asset /\ Settled(id).level = p.level
             /\ id \notin MarkedIds => Settled(id).status = p.status
  <2>1. Base(id) = p
    BY <1>2, <1>8
  <2>. QED  BY <1>5, <1>6, <2>1
<1>9. id \in MarkedIds => \E m \in marks : m.id = id /\ Settled(id).status = m.status
  BY <1>4, <1>6
<1>. QED  BY <1>7, <1>8, <1>9

LEMMA CommitStep ==
    ASSUME IInv, Commit
    PROVE  IInv'
<1>1. /\ UNCHANGED <<now, lastId, registry, enforced, left, due, batches, opc, opId, lost,
                     phantom>>
      /\ pending' = {} /\ marks' = {} /\ pc' = "idle"
      /\ \A id \in ActionIds : rows'[id] = Settled(id)
      /\ DOMAIN rows' = ActionIds /\ rows' = [id \in ActionIds |-> rows'[id]]
  BY DEF Commit, opVars, history
<1>2. PendingIds' = {} /\ MarkedIds' = {} /\ Registered' = Registered
  BY <1>1 DEF PendingIds, MarkedIds, Registered, Ids
<1>3. ASSUME NEW p \in pending
      PROVE  /\ p.id \in ActionIds /\ p.asset \in Assets /\ p.level \in Levels
             /\ p.status \in {"simulated", "enforced", "failed"} /\ p.id <= lastId
             /\ rows[p.id].status = "none" /\ rows[p.id].level = 0
             /\ MeasureOf(rows'[p.id]) = MeasureOf(p)
             /\ rows'[p.id].asset = p.asset /\ rows'[p.id].level = p.level
             /\ p.id \notin MarkedIds => rows'[p.id].status = p.status
  <2>1. /\ p.id \in ActionIds /\ p.asset \in Assets /\ p.level \in Levels
        /\ p.status \in {"simulated", "enforced", "failed"} /\ p.id <= lastId
        /\ rows[p.id].status = "none"
    BY DEF IInv, TypeOK, IdInv
  <2>2. rows[p.id].level = 0
    BY <2>1 DEF IInv, IdInv
  <2>3. /\ rows'[p.id].asset = p.asset /\ rows'[p.id].level = p.level
        /\ p.id \notin MarkedIds => rows'[p.id].status = p.status
    BY <1>1, <2>1, SettledIs
  <2>. QED  BY <2>1, <2>2, <2>3 DEF MeasureOf, Measure
<1>4. ASSUME NEW id \in ActionIds, id \notin PendingIds
      PROVE  /\ MeasureOf(rows'[id]) = MeasureOf(rows[id])
             /\ rows'[id].asset = rows[id].asset /\ rows'[id].level = rows[id].level
             /\ id \notin MarkedIds => rows'[id].status = rows[id].status
  <2>1. /\ rows'[id].asset = rows[id].asset /\ rows'[id].level = rows[id].level
        /\ id \notin MarkedIds => rows'[id].status = rows[id].status
    BY <1>1, <1>4, SettledIs
  <2>. QED  BY <2>1 DEF MeasureOf, Measure
<1>5. ASSUME NEW id \in ActionIds, id \in MarkedIds
      PROVE  \E m \in marks : m.id = id /\ rows'[id].status = m.status
                                /\ m.status \in {"expired", "superseded"}
  <2>1. \E m \in marks : m.id = id /\ Settled(id).status = m.status
    BY <1>5, SettledIs
  <2>2. \A m \in marks : m.status \in {"expired", "superseded"}
    BY DEF IInv, TypeOK
  <2>. QED  BY <1>1, <2>1, <2>2
<1>6. ASSUME NEW id \in ActionIds, id \in MarkedIds, id \notin PendingIds
      PROVE  rows[id].status # "none"
  <2>1. Found(id)
    BY <1>6 DEF IInv, IdInv, MarkedIds, Ids
  <2>. QED  BY <1>6, <2>1 DEF Found
<1>7. \A id \in ActionIds : id \in PendingIds => \E p \in pending : p.id = id
  BY DEF PendingIds, Ids
<1>8. ASSUME NEW id \in ActionIds
      PROVE  IF rows'[id].status = "none" THEN rows'[id].level = 0
                ELSE rows'[id].level \in Levels /\ rows'[id].asset \in Assets /\ id <= lastId
  <2>1. CASE id \in PendingIds
    <3>1. PICK p \in pending : p.id = id
      BY <1>7, <2>1
    <3>2. rows'[id].status # "none"
      BY <1>3, <1>5, <3>1
    <3>. QED  BY <1>3, <3>1, <3>2
  <2>2. CASE id \notin PendingIds
    <3>1. rows[id].status = "none" => rows'[id].status = "none"
      BY <1>4, <1>6, <2>2
    <3>2. rows[id].status # "none" => rows'[id].status # "none"
      BY <1>4, <1>5, <2>2
    <3>. QED  BY <1>4, <2>2, <3>1, <3>2 DEF IInv, IdInv
  <2>. QED  BY <2>1, <2>2
<1>9. TypeOK'
  <2>1. ASSUME NEW id \in ActionIds
        PROVE  rows'[id] \in
                  [asset : Assets \cup {NoId}, level : Levels \cup {0}, status : Statuses]
    <3>1. rows'[id] = [asset |-> Base(id).asset, level |-> Base(id).level,
                       status |-> rows'[id].status]
      BY <1>1 DEF Settled, Base
    <3>2. rows'[id].asset = Base(id).asset /\ rows'[id].level = Base(id).level
      BY <3>1
    <3>3. rows'[id].asset \in Assets \cup {NoId} /\ rows'[id].level \in Levels \cup {0}
      BY <1>3, <1>4, <1>7 DEF IInv, TypeOK
    <3>4. rows'[id].status \in Statuses
      <4>1. CASE id \in MarkedIds
        BY <1>5, <4>1 DEF Statuses
      <4>2. CASE id \notin MarkedIds /\ id \in PendingIds
        BY <1>3, <1>7, <4>2 DEF Statuses
      <4>3. CASE id \notin MarkedIds /\ id \notin PendingIds
        BY <1>4, <4>3 DEF IInv, TypeOK
      <4>. QED  BY <4>1, <4>2, <4>3
    <3> DEFINE a == rows'[id].asset
               l == rows'[id].level
               s == rows'[id].status
    <3>5. rows'[id] = [asset |-> a, level |-> l, status |-> s]
      BY <3>1, <3>2
    <3> HIDE DEF a, l, s
    <3>6. a \in Assets \cup {NoId} /\ l \in Levels \cup {0} /\ s \in Statuses
      BY <3>3, <3>4 DEF a, l, s
    <3>. QED  BY <3>5, <3>6
  <2>2. rows' \in [ActionIds ->
                     [asset : Assets \cup {NoId}, level : Levels \cup {0}, status : Statuses]]
    BY <1>1, <2>1
  <2>. QED  BY <1>1, <2>2 DEF IInv, TypeOK
<1>10. IdInv'
  <2>1. ASSUME NEW id \in ActionIds, rows[id].status # "none"
        PROVE  /\ rows'[id].status # "none"
               /\ rows[id].status \notin Alive => rows'[id].status \notin Alive
    <3>1. id \notin PendingIds
      BY <1>3, <1>7, <2>1
    <3>. QED  BY <1>4, <1>5, <2>1, <3>1 DEF Alive
  <2>2. \A e \in registry : e.id <= lastId
    BY DEF IInv, IdInv
  <2>3. ASSUME NEW o \in Operators, opc[o] # "idle"
        PROVE  /\ opId[o] \in ActionIds /\ rows'[opId[o]].status # "none"
               /\ opc[o] # "loaded" => rows'[opId[o]].status \notin Alive
    BY <2>1, <2>3 DEF IInv, IdInv
  <2>. QED  BY <1>1, <1>8, <2>2, <2>3 DEF IdInv
<1>11. EntryInv' /\ SweepInv'
  <2>1. ASSUME NEW e \in registry, rows'[e.id].status # "none"
        PROVE  MeasureOf(rows'[e.id]) = MeasureOf(e)
    <3>1. e.id \in ActionIds /\ e.id \notin MarkedIds
      BY DEF IInv, TypeOK, EntryInv
    <3>2. CASE e.id \in PendingIds
      <4>1. PICK p \in pending : p.id = e.id
        BY <1>7, <3>1, <3>2
      <4>2. MeasureOf(p) = MeasureOf(e)
        BY <4>1 DEF IInv, EntryInv
      <4>. QED  BY <1>3, <4>1, <4>2
    <3>3. CASE e.id \notin PendingIds
      <4>1. rows[e.id].status # "none"
        BY <1>4, <2>1, <3>1, <3>3
      <4>2. MeasureOf(rows[e.id]) = MeasureOf(e)
        BY <4>1 DEF IInv, EntryInv
      <4>. QED  BY <1>4, <3>1, <3>3, <4>2
    <3>. QED  BY <3>2, <3>3
  <2>. QED  BY <1>1, <1>2, <2>1 DEF EntryInv, SweepInv
<1>12. TrackedInv'
  <2>1. ASSUME NEW id \in ActionIds, rows'[id].status \in Alive,
               IsActivePrevention(rows'[id].level)
        PROVE  id \in Registered \cup lost
    <3>1. id \notin MarkedIds
      BY <1>5, <2>1 DEF Alive
    <3>2. CASE id \in PendingIds
      <4>1. PICK p \in pending : p.id = id
        BY <1>7, <3>2
      <4>2. p.status \in Alive /\ IsActivePrevention(p.level)
        BY <1>3, <2>1, <3>1, <4>1
      <4>. QED  BY <3>1, <4>1, <4>2 DEF IInv, TrackedInv
    <3>3. CASE id \notin PendingIds
      <4>1. rows[id].status \in Alive /\ IsActivePrevention(rows[id].level)
        BY <1>4, <2>1, <3>1, <3>3
      <4>. QED  BY <3>1, <4>1 DEF IInv, TrackedInv, ActiveIsTracked
    <3>. QED  BY <3>2, <3>3
  <2>. QED  BY <1>1, <1>2, <2>1 DEF TrackedInv, ActiveIsTracked
<1>13. EntryIsBacked'
  <2>1. ASSUME NEW id \in Registered, id \notin phantom,
               rows'[id].status \notin Alive \cup {"failed"}
        PROVE  \E o \in Operators :
                  opId[o] = id /\ opc[o] \in {"committed", "released", "delete"}
    <3>1. id \in ActionIds /\ id \notin MarkedIds
      BY DEF IInv, TypeOK, EntryInv, Registered, Ids
    <3>2. id \notin PendingIds
      BY <1>3, <1>7, <2>1, <3>1 DEF Alive
    <3>3. rows[id].status \notin Alive \cup {"failed"}
      BY <1>4, <2>1, <3>1, <3>2
    <3>. QED  BY <2>1, <3>2, <3>3 DEF IInv, EntryIsBacked
  <2>. QED  BY <1>1, <1>2, <2>1 DEF EntryIsBacked
<1>14. EndedIsReleased'
  <2>. SUFFICES ASSUME NEW k \in ActionIds, rows'[k].status \in {"expired", "rolled_back"},
                       MeasureOf(rows'[k]) \in enforced
                PROVE  \/ k \in phantom
                       \/ \E q \in Operators : opId[q] = k /\ opc[q] = "committed"
                       \/ \E later \in k + 1 .. lastId :
                            later \in phantom \/ MeasureOf(rows'[later]) = MeasureOf(rows'[k])
    BY <1>1 DEF EndedIsReleased
  <2>1. k \notin MarkedIds
    <3>. SUFFICES ASSUME k \in MarkedIds PROVE FALSE
      OBVIOUS
    <3>1. PICK m \in marks : m.id = k /\ m.status = "expired"
      BY <1>5
    <3>2. CASE k \in PendingIds
      <4>1. PICK p \in pending : p.id = k
        BY <1>7, <3>2
      <4>2. MeasureOf(p) \notin enforced
        BY <3>1, <4>1 DEF IInv, SweepInv
      <4>. QED  BY <1>3, <4>1, <4>2
    <3>3. CASE k \notin PendingIds
      <4>1. rows[k].status # "none"
        BY <1>6, <3>3
      <4>2. MeasureOf(rows[k]) \notin enforced
        BY <3>1, <4>1 DEF IInv, SweepInv
      <4>. QED  BY <1>4, <3>3, <4>2
    <3>. QED  BY <3>2, <3>3
  <2>2. k \notin PendingIds
    BY <1>3, <1>7, <2>1
  <2>3. /\ rows[k].status \in {"expired", "rolled_back"}
        /\ MeasureOf(rows'[k]) = MeasureOf(rows[k]) /\ rows[k].level \in Levels
    BY <1>4, <2>1, <2>2 DEF IInv, IdInv
  <2>4. \/ k \in phantom
        \/ \E q \in Operators : opId[q] = k /\ opc[q] = "committed"
        \/ \E later \in k + 1 .. lastId :
             \/ later \in phantom
             \/ \E p \in pending : p.id = later /\ MeasureOf(p) = MeasureOf(rows[k])
             \/ MeasureOf(rows[later]) = MeasureOf(rows[k])
    BY <2>3 DEF IInv, EndedIsReleased
  <2>5. ASSUME NEW later \in k + 1 .. lastId, MeasureOf(rows[later]) = MeasureOf(rows[k])
        PROVE  MeasureOf(rows'[later]) = MeasureOf(rows'[k])
    <3>1. later \in ActionIds
      BY RegistryAssumption DEF IInv, TypeOK, ActionIds
    <3>2. rows[later].level = rows[k].level
      BY <2>5 DEF MeasureOf, Measure
    <3>3. later \notin PendingIds
      BY <1>3, <1>7, <2>3, <3>1, <3>2, LevelType
    <3>. QED  BY <1>4, <2>3, <2>5, <3>1, <3>3
  <2>6. \A p \in pending : MeasureOf(p) = MeasureOf(rows[k])
            => MeasureOf(rows'[p.id]) = MeasureOf(rows'[k])
    BY <1>3, <2>3
  <2>. QED  BY <2>4, <2>5, <2>6
<1>. QED  BY <1>9, <1>10, <1>11, <1>12, <1>13, <1>14 DEF IInv

-----------------------------------------------------------------------------
(* The sweep *)

\* Two entries do not share an id that has a row.
LEMMA FoundOnce ==
    ASSUME IInv, NEW e \in registry, NEW f \in registry, e.id = f.id, Found(e.id)
    PROVE  e = f
<1>1. MeasureOf(f) = MeasureOf(e)
  <2>1. CASE rows[e.id].status # "none"
    BY <2>1 DEF IInv, EntryInv
  <2>2. CASE e.id \in PendingIds
    <3>1. PICK p \in pending : p.id = e.id
      BY <2>2 DEF PendingIds, Ids
    <3>2. MeasureOf(p) = MeasureOf(f) /\ MeasureOf(p) = MeasureOf(e)
      BY <3>1 DEF IInv, EntryInv
    <3>. QED  BY <3>2
  <2>. QED  BY <2>1, <2>2 DEF Found
<1>2. f.asset = e.asset
  BY <1>1 DEF MeasureOf, Measure
<1>. QED  BY <1>2 DEF IInv, TypeOK

LEMMA ExpireStep ==
    ASSUME IInv, NEW asset \in Assets, Expire(asset)
    PROVE  IInv'
<1> DEFINE e == Entry(asset)
           marked == IF Found(e.id) THEN {[id |-> e.id, status |-> "expired"]} ELSE {}
<1>1. /\ UNCHANGED <<now, rows, pending, lastId, pc, left, batches, opc, opId, lost, phantom>>
      /\ pc = "sweep" /\ due' \subseteq due /\ registry' = registry \ EntriesOf(asset)
      /\ enforced' = enforced \ {Measure(asset, e.level)} /\ marks' = marks \cup marked
      /\ EntriesOf(asset) # {}
  BY DEF Expire, opVars, history, Without
<1>2. /\ EntriesOf(asset) = {e} /\ e \in registry /\ e.asset = asset
      /\ registry' = registry \ {e} /\ MeasureOf(e) = Measure(asset, e.level)
      /\ e.id \in ActionIds
  BY <1>1, OneEntry DEF IInv, TypeOK, MeasureOf
<1> HIDE DEF e
<1>3. PendingIds' = PendingIds /\ MarkedIds' = MarkedIds \cup Ids(marked)
  BY <1>1 DEF PendingIds, MarkedIds, Ids
<1>4. /\ \A m \in marked : m.id = e.id /\ m.status = "expired" /\ Found(e.id)
      /\ marked \subseteq [id : ActionIds, status : {"expired", "superseded"}]
      /\ Found(e.id) => e.id \in MarkedIds'
  <2>1. CASE Found(e.id)
    <3>1. marked = {[id |-> e.id, status |-> "expired"]}
      BY <2>1
    <3>. QED  BY <1>2, <1>3, <2>1, <3>1 DEF Ids
  <2>2. CASE ~Found(e.id)
    BY <2>2
  <2>. QED  BY <2>1, <2>2
<1> HIDE DEF marked
<1>5. TypeOK'
  <2>1. registry' \subseteq registry /\ marks' \subseteq [id : ActionIds,
                                                          status : {"expired", "superseded"}]
    BY <1>1, <1>4 DEF IInv, TypeOK
  <2>. QED  BY <1>1, <2>1, Removal DEF IInv, TypeOK
<1>6. IdInv'
  BY <1>1, <1>3, <1>4 DEF IInv, IdInv, Found
<1>7. Found(e.id) => /\ rows[e.id].status # "none" => MeasureOf(rows[e.id]) = MeasureOf(e)
                     /\ e.id \in PendingIds => \E p \in pending : p.id = e.id
                     /\ \A p \in pending : p.id = e.id => MeasureOf(p) = MeasureOf(e)
  BY <1>2 DEF IInv, EntryInv, PendingIds, Ids
<1>8. EntryInv'
  <2>1. ASSUME NEW f \in registry', Found(e.id), f.id = e.id PROVE FALSE
    <3>1. f \in registry /\ f # e
      BY <1>2, <2>1
    <3>. QED  BY <1>2, <2>1, <3>1, FoundOnce
  <2>2. \A f \in registry' : f.id \notin MarkedIds'
    <3>1. ASSUME NEW f \in registry', f.id \in MarkedIds' PROVE FALSE
      <4>1. f.id \notin MarkedIds
        BY <1>2 DEF IInv, EntryInv
      <4>2. f.id = e.id /\ Found(e.id)
        BY <1>3, <1>4, <3>1, <4>1 DEF Ids
      <4>. QED  BY <2>1, <4>2
    <3>. QED  BY <3>1
  <2>. QED  BY <1>1, <1>2, <2>2 DEF IInv, EntryInv
<1>9. SweepInv'
  <2>1. ASSUME NEW m \in marked
        PROVE  /\ rows[m.id].status # "none" => MeasureOf(rows[m.id]) \notin enforced'
               /\ \A p \in pending : p.id = m.id => MeasureOf(p) \notin enforced'
    BY <1>1, <1>2, <1>4, <1>7
  <2>. QED  BY <1>1, <2>1 DEF IInv, SweepInv
<1>10. TrackedInv'
  <2>1. Registered \subseteq Registered' \cup {e.id}
    BY <1>2 DEF Registered, Ids
  <2>2. ASSUME NEW id \in ActionIds, rows[id].status \in Alive,
               IsActivePrevention(rows[id].level)
        PROVE  id \in Registered' \cup lost \cup MarkedIds'
    <3>1. id \in Registered \cup lost \cup MarkedIds
      BY <2>2 DEF IInv, TrackedInv, ActiveIsTracked
    <3>2. Found(id)
      BY <2>2 DEF Found, Alive
    <3>. QED  BY <1>3, <1>4, <2>1, <3>1, <3>2
  <2>3. ASSUME NEW p \in pending, p.status \in Alive, IsActivePrevention(p.level)
        PROVE  p.id \in Registered' \cup lost \cup MarkedIds'
    <3>1. p.id \in Registered \cup lost \cup MarkedIds
      BY <2>3 DEF IInv, TrackedInv
    <3>2. Found(p.id)
      BY DEF Found, PendingIds, Ids
    <3>. QED  BY <1>3, <1>4, <2>1, <3>1, <3>2
  <2>. QED  BY <1>1, <2>2, <2>3 DEF TrackedInv, ActiveIsTracked
<1>11. EntryIsBacked'
  <2>1. Registered' \subseteq Registered
    BY <1>2 DEF Registered, Ids
  <2>. QED  BY <1>1, <1>3, <2>1 DEF IInv, EntryIsBacked
<1>12. EndedIsReleased'
  <2>1. enforced' \subseteq enforced
    BY <1>1
  <2>. QED  BY <1>1, <2>1 DEF IInv, EndedIsReleased
<1>. QED  BY <1>5, <1>6, <1>8, <1>9, <1>10, <1>11, <1>12 DEF IInv

-----------------------------------------------------------------------------
(* A decision carried out *)

\* Whatever the registry held, the eviction leaves RegistryMax entries at most.
LEMMA EvictionBounds ==
    ASSUME NEW full, IsFiniteSet(full), \A e \in full : e.id \in Nat
    PROVE  Cardinality(full \ Evicted(full)) <= RegistryMax
<1> DEFINE kept == full \ Evicted(full)
<1>1. RegistryMax \in Nat
  BY RegistryAssumption
<1>2. CASE kept = {}
  <2>1. Cardinality({}) = 0
    BY FS_EmptySet
  <2>. QED  BY <1>1, <1>2, <2>1
<1>3. CASE kept # {}
  <2>1. Ids(kept) \subseteq Nat /\ Ids(kept) # {}
    BY <1>3 DEF Ids
  <2>2. PICK n \in Ids(kept) : \A m \in Ids(kept) : ~(<<m, n>> \in OpToRel(<, Nat))
    <3> HIDE DEF kept
    <3>. QED  BY <2>1, NatLessThanWellFounded, WFMin
  <2>3. \A m \in Ids(kept) : ~(m < n)
    BY <2>1, <2>2 DEF OpToRel
  <2>4. PICK e \in kept : e.id = n
    BY <2>2 DEF Ids
  <2> DEFINE newer == {f \in full : f.id >= e.id}
  <2>5. kept \subseteq newer
    <3>1. ASSUME NEW f \in kept PROVE f.id >= e.id
      <4>1. f.id \in Ids(kept) /\ f.id \in Nat /\ e.id \in Nat
        BY DEF Ids
      <4>. QED  BY <2>3, <2>4, <4>1
    <3>. QED  BY <3>1
  <2>6. IsFiniteSet(newer) /\ Cardinality(newer) \in Nat
    BY FS_Subset, FS_CardinalityType
  <2>7. ~(Cardinality(newer) > RegistryMax)
    BY <2>4 DEF Evicted
  <2>8. IsFiniteSet(kept) /\ Cardinality(kept) <= Cardinality(newer)
    BY <2>5, <2>6, FS_Subset
  <2>9. Cardinality(kept) \in Nat
    BY <2>8, FS_CardinalityType
  <2> HIDE DEF kept, newer
  <2>. QED  BY <1>1, <2>6, <2>7, <2>8, <2>9 DEF kept
<1>. QED  BY <1>2, <1>3

LEMMA ApplyStep ==
    ASSUME IInv, NEW asset \in Assets, NEW level \in Levels, NEW result,
           Apply(asset, level, result)
    PROVE  IInv'
<1> DEFINE new == lastId + 1
           p0 == [id |-> new, asset |-> asset, level |-> level, status |-> result]
           e0 == [asset |-> asset, level |-> level, id |-> new, expires |-> now + Ttl]
           full == IF IsActivePrevention(level) THEN Without(asset) \cup {e0} ELSE registry
<1>1. /\ UNCHANGED <<now, rows, pc, due, batches, opc, opId, phantom>>
      /\ pc = "decide" /\ lastId < MaxActions /\ left > 0 /\ left' = left - 1
      /\ lastId' = new /\ pending' = pending \cup {p0}
      /\ marks' = marks \cup Superseding(asset)
      /\ enforced' = enforced \cup
            (IF result = "enforced" THEN {Measure(asset, level)} ELSE {})
      /\ result \in {"simulated", "enforced", "failed"}
      /\ registry' = full \ Evicted(full) /\ lost' = lost \cup Ids(Evicted(full))
  BY DEF Apply, opVars, Registering
<1>2. /\ lastId \in Nat /\ new \in ActionIds /\ new \notin 0 .. lastId /\ now + Ttl \in Nat
      /\ ActionIds \subseteq Nat
  BY <1>1, RegistryAssumption DEF IInv, TypeOK, ActionIds
<1>3. /\ rows[new].status = "none" /\ new \notin PendingIds /\ new \notin Registered
      /\ new \notin MarkedIds
  <2>1. rows[new].status = "none"
    BY <1>2 DEF IInv, IdInv
  <2>2. new \notin PendingIds /\ new \notin Registered
    BY <1>2 DEF IInv, TypeOK, IdInv, PendingIds, Registered, Ids
  <2>3. new \notin MarkedIds
    BY <2>1, <2>2 DEF IInv, IdInv, Found, MarkedIds, Ids
  <2>. QED  BY <2>1, <2>2, <2>3
<1>4. /\ p0.id = new /\ MeasureOf(p0) = Measure(asset, level) /\ p0.status = result
      /\ e0.id = new /\ MeasureOf(e0) = Measure(asset, level) /\ e0.asset = asset
      /\ p0.level = level
      /\ p0 \in [id : ActionIds, asset : Assets, level : Levels, status : Statuses]
      /\ e0 \in [asset : Assets, level : Levels, id : ActionIds, expires : Nat]
  BY <1>1, <1>2 DEF MeasureOf, Statuses
<1> HIDE DEF new, p0, e0
<1>5. PendingIds' = PendingIds \cup {new}
  BY <1>1, <1>4 DEF PendingIds, Ids
<1>6. /\ MarkedIds' = MarkedIds \cup {k \in Ids(EntriesOf(asset)) : Found(k)}
      /\ \A m \in Superseding(asset) :
            /\ m.status = "superseded" /\ m.id \in Ids(EntriesOf(asset)) /\ Found(m.id)
            /\ m \in [id : ActionIds, status : {"expired", "superseded"}]
  <2>1. Ids(EntriesOf(asset)) \subseteq ActionIds
    BY DEF IInv, TypeOK, EntriesOf, Ids
  <2>2. Ids(Superseding(asset)) = {k \in Ids(EntriesOf(asset)) : Found(k)}
    <3> DEFINE K == {k \in Ids(EntriesOf(asset)) : Found(k)}
    <3>1. Superseding(asset) = {[id |-> k, status |-> "superseded"] : k \in K}
      BY DEF Superseding
    <3> HIDE DEF K
    <3>2. \A k \in K : \E m \in Superseding(asset) : m.id = k
      <4>1. ASSUME NEW k \in K PROVE \E m \in Superseding(asset) : m.id = k
        <5>1. [id |-> k, status |-> "superseded"] \in Superseding(asset)
          BY <3>1
        <5>. QED  BY <5>1
      <4>. QED  BY <4>1
    <3>3. \A m \in Superseding(asset) : m.id \in K
      BY <3>1
    <3>. QED  BY <3>2, <3>3 DEF Ids, K
  <2>3. MarkedIds' = MarkedIds \cup Ids(Superseding(asset))
    BY <1>1 DEF MarkedIds, Ids
  <2>. QED  BY <2>1, <2>2, <2>3 DEF Superseding
\* What becomes of the entries.
<1>7. /\ full \subseteq registry \cup {e0} /\ registry' \subseteq full
      /\ \A e, f \in full : e.asset = f.asset => e = f
      /\ full \subseteq [asset : Assets, level : Levels, id : ActionIds, expires : Nat]
      /\ IsFiniteSet(full)
  <2>1. IsFiniteSet(registry \cup {e0})
    BY FS_AddElement DEF IInv, TypeOK
  <2>2. full \subseteq registry \cup {e0} /\ registry' \subseteq full
    BY <1>1 DEF Without
  <2>3. \A e, f \in full : e.asset = f.asset => e = f
    BY <1>4 DEF IInv, TypeOK, Without, EntriesOf
  <2>4. full \subseteq [asset : Assets, level : Levels, id : ActionIds, expires : Nat]
    BY <1>4, <2>2 DEF IInv, TypeOK
  <2>. QED  BY <2>1, <2>2, <2>3, <2>4, FS_Subset
<1>8. /\ \A k \in Registered : k \in Registered' \cup lost' \/ k \in Ids(EntriesOf(asset))
      /\ IsActivePrevention(level) => new \in Registered' \cup lost'
      /\ Registered' \subseteq Registered \cup {new}
  <2>1. \A e \in full : e.id \in Registered' \cup lost'
    BY <1>1 DEF Registered, Ids
  <2>2. \A e \in registry : e \in full \/ e \in EntriesOf(asset)
    BY DEF Without
  <2>3. IsActivePrevention(level) => e0 \in full
    OBVIOUS
  <2>4. Registered' \subseteq Registered \cup {new}
    BY <1>4, <1>7 DEF Registered, Ids
  <2> HIDE DEF full
  <2>. QED  BY <1>4, <2>1, <2>2, <2>3, <2>4 DEF Registered, Ids
<1>9. Cardinality(full \ Evicted(full)) <= RegistryMax
  <2>1. \A e \in full : e.id \in Nat
    BY <1>2, <1>7
  <2> HIDE DEF full
  <2>. QED  BY <1>7, <2>1, EvictionBounds
<1> HIDE DEF full
<1>10. TypeOK'
  <2>1. /\ IsFiniteSet(registry') /\ Cardinality(registry') <= RegistryMax
        /\ registry' \subseteq [asset : Assets, level : Levels, id : ActionIds, expires : Nat]
        /\ \A e, f \in registry' : e.asset = f.asset => e = f
    BY <1>1, <1>7, <1>9, FS_Subset
  <2>2. lastId' \in 0 .. MaxActions /\ left' \in 0 .. MaxDecisions
    BY <1>1, <1>2, RegistryAssumption DEF IInv, TypeOK, ActionIds
  <2>3. enforced' \subseteq [asset : Assets, level : Levels]
    BY <1>1 DEF IInv, TypeOK, Measure
  <2>4. /\ pending' \subseteq [id : ActionIds, asset : Assets, level : Levels, status : Statuses]
        /\ marks' \subseteq [id : ActionIds, status : {"expired", "superseded"}]
    BY <1>1, <1>4, <1>6 DEF IInv, TypeOK
  <2>. QED  BY <1>1, <2>1, <2>2, <2>3, <2>4 DEF IInv, TypeOK
<1>11. lastId <= new
  BY <1>2 DEF new
<1>12. IdInv'
  <2>1. ASSUME NEW p \in pending'
        PROVE  /\ p.id <= new /\ rows[p.id].status = "none"
               /\ p.status \in {"simulated", "enforced", "failed"}
               /\ \A q \in pending' : p.id = q.id => p = q
    <3>1. \A q \in pending : q.id \in PendingIds /\ q.id \in Nat /\ q.id <= lastId
      BY <1>2 DEF IInv, TypeOK, IdInv, PendingIds, Ids
    <3>2. CASE p = p0
      BY <1>1, <1>2, <1>3, <1>4, <3>1, <3>2
    <3>3. CASE p \in pending
      <4>1. p.id <= new
        BY <1>2, <1>11, <3>1, <3>3
      <4>2. \A q \in pending' : p.id = q.id => p = q
        BY <1>1, <1>3, <1>4, <3>1, <3>3 DEF IInv, IdInv
      <4>. QED  BY <3>3, <4>1, <4>2 DEF IInv, IdInv
    <3>. QED  BY <1>1, <3>2, <3>3
  <2>2. ASSUME NEW e \in registry' PROVE e.id <= new
    <3>1. CASE e = e0
      BY <1>2, <1>4, <3>1
    <3>2. CASE e \in registry
      <4>1. e.id <= lastId /\ e.id \in Nat
        BY <1>2, <3>2 DEF IInv, TypeOK, IdInv
      <4>. QED  BY <1>2, <1>11, <4>1
    <3>. QED  BY <1>7, <3>1, <3>2
  <2>3. ASSUME NEW id \in ActionIds
        PROVE  IF rows[id].status = "none" THEN rows[id].level = 0
                  ELSE rows[id].level \in Levels /\ rows[id].asset \in Assets /\ id <= new
    <3>1. IF rows[id].status = "none" THEN rows[id].level = 0
             ELSE rows[id].level \in Levels /\ rows[id].asset \in Assets /\ id <= lastId
      BY DEF IInv, IdInv
    <3>2. id <= lastId => id <= new
      BY <1>2, <1>11
    <3>. QED  BY <3>1, <3>2
  <2>4. \A m \in marks' : m.id \in PendingIds' \/ rows[m.id].status # "none"
    BY <1>1, <1>5, <1>6 DEF IInv, IdInv, Found
  <2>. QED  BY <1>1, <2>1, <2>2, <2>3, <2>4 DEF IInv, IdInv, Found
<1>13. EntryInv'
  <2>1. \A e \in registry' : e = e0 \/ (e \in registry /\ (IsActivePrevention(level)
                                                            => e \notin EntriesOf(asset)))
    BY <1>7 DEF full, Without
  <2>2. ASSUME NEW e \in registry', e = e0
        PROVE  /\ rows[e.id].status # "none" => MeasureOf(rows[e.id]) = MeasureOf(e)
               /\ \A p \in pending' : p.id = e.id => MeasureOf(p) = MeasureOf(e)
               /\ e.id \notin MarkedIds'
    <3>1. new \notin Ids(EntriesOf(asset))
      BY <1>3 DEF Registered, EntriesOf, Ids
    <3>2. \A p \in pending : p.id # new
      BY <1>3 DEF PendingIds, Ids
    <3>. QED  BY <1>1, <1>3, <1>4, <1>6, <2>2, <3>1, <3>2
  <2>3. ASSUME NEW e \in registry, e \in registry', e # e0
        PROVE  /\ rows[e.id].status # "none" => MeasureOf(rows[e.id]) = MeasureOf(e)
               /\ \A p \in pending' : p.id = e.id => MeasureOf(p) = MeasureOf(e)
               /\ e.id \notin MarkedIds'
    <3>1. e.id # new
      BY <1>3 DEF Registered, Ids
    <3>2. \A p \in pending' : p.id = e.id => MeasureOf(p) = MeasureOf(e)
      BY <1>1, <1>4, <3>1 DEF IInv, EntryInv
    <3>3. ASSUME NEW f \in EntriesOf(asset), f.id = e.id, Found(f.id) PROVE FALSE
      <4>1. f \in registry /\ f.level \in Levels /\ ~(f.level >= level)
        BY DEF Apply, Covered, EntriesOf, IInv, TypeOK
      <4>2. IsActivePrevention(level)
        BY <4>1, LevelType DEF IsActivePrevention, Levels
      <4>3. e = f
        BY <3>3, <4>1, FoundOnce
      <4>. QED  BY <2>1, <2>3, <4>2, <4>3
    <3>4. e.id \notin MarkedIds'
      BY <1>6, <3>3 DEF IInv, EntryInv, Ids
    <3>. QED  BY <3>2, <3>4 DEF IInv, EntryInv
  <2>. QED  BY <1>1, <2>1, <2>2, <2>3 DEF EntryInv

<1>14. SweepInv'
  <2>1. \A m \in marks' : m.status # "expired"
    BY <1>1, <1>6 DEF IInv, SweepInv
  <2>. QED  BY <1>1, <2>1 DEF SweepInv
<1>15. TrackedInv'
  <2>1. ASSUME NEW id \in Registered \cup lost \cup MarkedIds, Found(id)
        PROVE  id \in Registered' \cup lost' \cup MarkedIds'
    BY <1>1, <1>6, <1>8, <2>1
  <2>2. ASSUME NEW id \in ActionIds, rows[id].status \in Alive,
               IsActivePrevention(rows[id].level)
        PROVE  id \in Registered' \cup lost' \cup MarkedIds'
    <3>1. id \in Registered \cup lost \cup MarkedIds /\ Found(id)
      BY <2>2 DEF IInv, TrackedInv, ActiveIsTracked, Found, Alive
    <3>. QED  BY <2>1, <3>1
  <2>3. ASSUME NEW p \in pending', p.status \in Alive, IsActivePrevention(p.level)
        PROVE  p.id \in Registered' \cup lost' \cup MarkedIds'
    <3>1. CASE p = p0
      BY <1>4, <1>8, <2>3, <3>1
    <3>2. CASE p \in pending
      <4>1. p.id \in Registered \cup lost \cup MarkedIds /\ Found(p.id)
        BY <2>3, <3>2 DEF IInv, TrackedInv, Found, PendingIds, Ids
      <4>. QED  BY <2>1, <4>1
    <3>. QED  BY <1>1, <3>1, <3>2
  <2>. QED  BY <1>1, <2>2, <2>3 DEF TrackedInv, ActiveIsTracked
<1>16. EntryIsBacked'
  <2>. SUFFICES ASSUME NEW id \in Registered', id \notin PendingIds' \cup phantom,
                       rows[id].status \notin Alive \cup {"failed"}
                PROVE  \E o \in Operators :
                          opId[o] = id /\ opc[o] \in {"committed", "released", "delete"}
    BY <1>1 DEF EntryIsBacked
  <2>1. id \in Registered /\ id \notin PendingIds
    BY <1>5, <1>8
  <2>. QED  BY <2>1 DEF IInv, EntryIsBacked
<1>17. EndedIsReleased'
  <2>. SUFFICES ASSUME NEW k \in ActionIds, rows[k].status \in {"expired", "rolled_back"},
                       MeasureOf(rows[k]) \in enforced'
                PROVE  \/ k \in phantom
                       \/ \E q \in Operators : opId[q] = k /\ opc[q] = "committed"
                       \/ \E later \in k + 1 .. new :
                            \/ later \in phantom
                            \/ \E p \in pending' :
                                  p.id = later /\ MeasureOf(p) = MeasureOf(rows[k])
                            \/ MeasureOf(rows[later]) = MeasureOf(rows[k])
    BY <1>1 DEF EndedIsReleased
  <2>1. k <= lastId /\ k \in Nat
    BY <1>2 DEF IInv, IdInv
  <2>2. CASE MeasureOf(rows[k]) = Measure(asset, level)
    <3>1. new \in k + 1 .. new
      BY <1>2, <2>1 DEF new
    <3>2. p0 \in pending' /\ p0.id = new /\ MeasureOf(p0) = MeasureOf(rows[k])
      BY <1>1, <1>4, <2>2
    <3>. QED  BY <3>1, <3>2
  <2>3. CASE MeasureOf(rows[k]) \in enforced
    <3>1. \/ k \in phantom
          \/ \E q \in Operators : opId[q] = k /\ opc[q] = "committed"
          \/ \E later \in k + 1 .. lastId :
               \/ later \in phantom
               \/ \E p \in pending : p.id = later /\ MeasureOf(p) = MeasureOf(rows[k])
               \/ MeasureOf(rows[later]) = MeasureOf(rows[k])
      BY <2>3 DEF IInv, EndedIsReleased
    <3>2. k + 1 .. lastId \subseteq k + 1 .. new
      BY <1>2, <1>11, <2>1
    <3>3. pending \subseteq pending'
      BY <1>1
    <3>. QED  BY <3>1, <3>2, <3>3
  <2>. QED  BY <1>1, <2>2, <2>3
<1>. QED  BY <1>10, <1>12, <1>13, <1>14, <1>15, <1>16, <1>17 DEF IInv

-----------------------------------------------------------------------------
(* The theorems *)

LEMMA StepHolds ==
    ASSUME IInv, [Next]_vars
    PROVE  IInv'
<1>1. CASE IngestStep
  BY <1>1, ControlSteps, ApplyStep, ExpireStep, BatchAborts, CommitStep DEF IngestStep
<1>2. ASSUME NEW o \in Operators, OperatorStep(o) PROVE IInv'
  BY <1>2, RequestControl, RequestCommits, RequestReleases, RequestDeletes DEF OperatorStep
<1>3. CASE Restart \/ Tick \/ UNCHANGED vars
  BY <1>3, RestartStep, ControlSteps
<1>. QED  BY <1>1, <1>2, <1>3 DEF Next

LEMMA Invariance == Spec => []IInv
BY InitHolds, StepHolds, PTL DEF Spec

\* The types, one entry per asset, and never more entries than the limit allows.
THEOREM TypeCorrect == Spec => []TypeOK
<1>1. IInv => TypeOK
  BY DEF IInv
<1>. QED  BY <1>1, Invariance, PTL

\* Whatever fails, restarts or runs in between, a mitigation on record as active can
\* still expire and be escalated, or its entry was lost to a failure on the record.
THEOREM Tracked == Spec => []ActiveIsTracked
<1>1. IInv => ActiveIsTracked
  BY DEF IInv, TrackedInv
<1>. QED  BY <1>1, Invariance, PTL

\* An entry never suppresses decisions in the name of an action that has ended.
THEOREM Backed == Spec => []EntryIsBacked
<1>1. IInv => EntryIsBacked
  BY DEF IInv
<1>. QED  BY <1>1, Invariance, PTL

\* What ended by its TTL or by an operator is released at the adapter; an action that was
\* superseded by a stronger one is not in the statement, as nothing releases it.
THEOREM Released == Spec => []EndedIsReleased
<1>1. IInv => EndedIsReleased
  BY DEF IInv
<1>. QED  BY <1>1, Invariance, PTL

\* An action that is over has no entry left by which a sweep or an escalation finds it.
LEMMA OverHasNoEntry ==
    ASSUME IInv, NEW id \in ActionIds, Over(id)
    PROVE  id \notin Registered /\ id \notin PendingIds
<1>1. rows[id].status \notin Alive \cup {"failed", "none"}
  BY DEF Over, Ended, Alive
<1>2. id \notin PendingIds
  BY <1>1 DEF IInv, IdInv, PendingIds, Ids
<1>. QED  BY <1>1, <1>2 DEF IInv, EntryIsBacked, Over

\* No interleaving of batches, requests, failures and restarts ends an action again that is
\* over: its row stays as it is.
THEOREM Final == Spec => EndingIsFinal
<1> DEFINE Kept == \A id \in ActionIds : Over(id) => Over(id)' /\ rows'[id] = rows[id]
<1>1. ASSUME IInv, NEW id \in ActionIds, Over(id), IngestStep
      PROVE  Over(id)' /\ rows'[id] = rows[id]
  <2>1. id \notin Registered /\ id \notin PendingIds /\ id \notin MarkedIds
        /\ \A o \in Operators : opId[o] # id
    BY <1>1, OverHasNoEntry DEF Over
  <2>2. ASSUME NEW n \in 0 .. MaxDecisions, BeginBatch(n) PROVE Over(id)'
    BY <1>1, <2>2 DEF BeginBatch, Over, MarkedIds, txVars, opVars, history
  <2>3. ASSUME NEW asset \in Assets, NEW level \in Levels, Suppress(asset, level)
        PROVE Over(id)'
    BY <1>1, <2>3 DEF Suppress, Over, MarkedIds, txVars, opVars, history
  <2>4. ASSUME NEW asset \in Assets, NEW level \in Levels, NEW result,
               Apply(asset, level, result)
        PROVE  Over(id)'
    <3>1. rows' = rows /\ phantom' = phantom /\ opId' = opId
          /\ marks' = marks \cup Superseding(asset)
      BY <2>4 DEF Apply, opVars
    <3>2. \A m \in Superseding(asset) : m.id \in Registered
      BY DEF Superseding, EntriesOf, Registered, Ids
    <3>3. id \notin MarkedIds'
      BY <2>1, <3>1, <3>2 DEF MarkedIds, Ids
    <3>. QED  BY <1>1, <3>1, <3>3 DEF Over
  <2>5. CASE SweepBegin
    BY <1>1, <2>5 DEF SweepBegin, Over, MarkedIds, txVars, opVars, history
  <2>6. ASSUME NEW asset \in Assets, Expire(asset) PROVE Over(id)'
    <3>1. rows' = rows /\ phantom' = phantom /\ opId' = opId /\ EntriesOf(asset) # {}
          /\ marks' = marks \cup (IF Found(Entry(asset).id)
                             THEN {[id |-> Entry(asset).id, status |-> "expired"]} ELSE {})
      BY <2>6 DEF Expire, opVars, history
    <3>2. Entry(asset).id \in Registered
      BY <1>1, <3>1, OneEntry DEF IInv, Registered, Ids
    <3>3. id \notin MarkedIds'
      BY <2>1, <3>1, <3>2 DEF MarkedIds, Ids
    <3>. QED  BY <1>1, <3>1, <3>3 DEF Over
  <2>7. ASSUME NEW popped, Abort(popped) PROVE Over(id)'
    <3>1. rows' = rows /\ phantom' = phantom \cup PendingIds /\ marks' = {} /\ opId' = opId
      BY <2>7 DEF Abort, opVars
    <3>2. MarkedIds' = {}
      BY <3>1 DEF MarkedIds, Ids
    <3>. QED  BY <1>1, <2>1, <3>1, <3>2 DEF Over
  <2>8. CASE Commit
    <3>1. rows' = [i \in ActionIds |-> Settled(i)] /\ phantom' = phantom /\ opId' = opId
          /\ marks' = {}
      BY <2>8 DEF Commit, opVars, history
    <3>2. /\ Settled(id).asset = rows[id].asset /\ Settled(id).level = rows[id].level
          /\ Settled(id).status = rows[id].status
      BY <1>1, <2>1, SettledIs
    <3>3. Settled(id) = [asset |-> Settled(id).asset, level |-> Settled(id).level,
                         status |-> Settled(id).status]
      BY DEF Settled
    <3>4. rows[id] = [asset |-> rows[id].asset, level |-> rows[id].level,
                      status |-> rows[id].status]
      BY <1>1 DEF IInv, TypeOK
    <3>5. rows'[id] = rows[id]
      BY <3>1, <3>2, <3>3, <3>4
    <3>6. MarkedIds' = {}
      BY <3>1 DEF MarkedIds, Ids
    <3>. QED  BY <1>1, <3>1, <3>5, <3>6 DEF Over
  <2>9. rows' = rows \/ Commit
    BY <1>1 DEF IngestStep, BeginBatch, Suppress, Apply, SweepBegin, Expire, ExpireRaises,
       ExpireMisses, DatabaseFails, Abort
  <2>. QED
    BY <1>1, <2>2, <2>3, <2>4, <2>5, <2>6, <2>7, <2>8, <2>9
    DEF IngestStep, ExpireRaises, ExpireMisses, DatabaseFails
<1>2. ASSUME IInv, NEW id \in ActionIds, Over(id), NEW o \in Operators, OperatorStep(o)
      PROVE  Over(id)' /\ rows'[id] = rows[id]
  <2>1. /\ UNCHANGED txVars /\ opId[o] # id
        /\ \A q \in Operators : opId[q] # id
    BY <1>2 DEF OperatorStep, RollbackLoad, RollbackCommit, RollbackRelease, RollbackRaises,
       RollbackCheck, RollbackDelete, RollbackFails, Over
  <2>2. id # NoId
    BY DEF ActionIds, NoId
  <2>3. \A q \in Operators : opId'[q] # id
    BY <1>2, <2>1, <2>2 DEF OperatorStep, RollbackLoad, RollbackCommit, RollbackRelease,
       RollbackRaises, RollbackCheck, RollbackDelete, RollbackFails, Over, Ended, Alive,
       IInv, TypeOK
  <2>4. rows'[id] = rows[id]
    BY <1>2, <2>1 DEF OperatorStep, RollbackLoad, RollbackCommit, RollbackRelease,
       RollbackRaises, RollbackCheck, RollbackDelete, RollbackFails, IInv, TypeOK
  <2>5. id \notin phantom'
    BY <1>2, <2>1 DEF OperatorStep, RollbackLoad, RollbackCommit, RollbackRelease,
       RollbackRaises, RollbackCheck, RollbackDelete, RollbackFails, Over, history
  <2>6. MarkedIds' = MarkedIds
    BY <2>1 DEF txVars, MarkedIds
  <2>. QED  BY <1>2, <2>3, <2>4, <2>5, <2>6 DEF Over
<1>3. ASSUME IInv, NEW id \in ActionIds, Over(id), Restart
      PROVE  Over(id)' /\ rows'[id] = rows[id]
  <2>1. /\ rows' = rows /\ marks' = {} /\ opId' = [o \in Operators |-> NoId]
        /\ phantom' = phantom \cup PendingIds
                        \cup {opId[o] : o \in {p \in Operators : opc[p] = "committed"}}
    BY <1>3 DEF Restart
  <2>2. id \notin phantom'
    BY <1>3, <2>1, OverHasNoEntry DEF Over
  <2>3. MarkedIds' = {} /\ id # NoId
    BY <2>1 DEF MarkedIds, Ids, ActionIds, NoId
  <2>. QED  BY <1>3, <2>1, <2>2, <2>3 DEF Over
<1>4. ASSUME IInv, NEW id \in ActionIds, Over(id), Tick \/ UNCHANGED vars
      PROVE  Over(id)' /\ rows'[id] = rows[id]
  BY <1>4 DEF Tick, vars, txVars, opVars, history, Over, MarkedIds
<1>5. IInv /\ [Next]_vars => Kept
  BY <1>1, <1>2, <1>3, <1>4 DEF Next
<1>6. IInv /\ [Next]_vars => [Kept]_vars
  BY <1>5
<1>. QED  BY <1>6, Invariance, PTL DEF Spec, EndingIsFinal

=============================================================================
