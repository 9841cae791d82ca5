------------------------ MODULE IngestPipelineProofs ------------------------
(***************************************************************************)
(* Proofs about IngestPipeline, for every capture day, asset and graph, any*)
(* batch size, debounce, cache limit and retention, and any number of calls,*)
(* failures and repeated deliveries: the statistics account for the tables *)
(* (StatisticsAccount); alerts, touches and snapshots agree although the   *)
(* maps in memory survive a rollback (TripwiresKept, IncidentsAlertOnce,   *)
(* BlastRadiusShown); what is broadcast is committed and in order          *)
(* (BroadcastInOrder, BroadcastDurable).                                   *)
(***************************************************************************)
EXTENDS IngestPipeline, TLAPS, SequenceTheorems, FiniteSetTheorems

-----------------------------------------------------------------------------
(* The inductive invariant *)

\* Outside a transaction both views of the tables are one; within, rows only come on top,
\* but for the events that are pruned.
ControlInv ==
    /\ pc \in {"idle", "persist", "publish"} => tx = db
    /\ pc \in {"idle", "persist"} => batch = NoStats
    /\ pc \in {"examine", "decide"} => batch.pruned = 0
    /\ pc = "decide" => todo # <<>>
    /\ db.snaps \subseteq tx.snaps /\ db.alerts \subseteq tx.alerts

\* Every id in use was drawn from the serial.
SerialOf(t) ==
    /\ \A e \in t.events : e.id <= serial
    /\ \A s \in t.snaps : 0 < s.id /\ s.id <= serial
    /\ \A a \in t.alerts : a.id <= serial

SerialInv ==
    /\ SerialOf(db) /\ SerialOf(tx)
    /\ \A k \in 1 .. Len(ciiCache) : 0 < ciiCache[k].id /\ ciiCache[k].id <= serial
    /\ \A i \in 1 .. Len(out.event) : out.event[i].id <= serial
    /\ \A i \in 1 .. Len(published) : published[i] <= serial

\* The statistics with those of the batch account for what the transaction sees.
CountsFor(t, b) ==
    /\ IsFiniteSet(t.events) /\ IsFiniteSet(t.snaps) /\ IsFiniteSet(t.alerts)
    /\ Cardinality(t.events) + stats.pruned + b.pruned = stats.inserted + b.inserted
    /\ Cardinality(t.snaps) = stats.computed + b.computed
    /\ Cardinality(t.alerts) = stats.alerts + b.alerts
    /\ stats.received + b.received
          = stats.inserted + b.inserted + stats.deduplicated + b.deduplicated

CountInv ==
    /\ CountsFor(tx, batch)
    /\ pc # "publish" => CountsFor(db, NoStats)

\* An asset has at most one entry of a map.
OnePerAsset(map) ==
    \A k, l \in 1 .. Len(map) : map[k].asset = map[l].asset => k = l

\* The snapshot linked to the flow under examination.
Linked(asset) ==
    IF asset \in GraphAssets
      THEN /\ snap # NoId
           /\ \A s \in tx.snaps : s.id = snap =>
                 s.asset = asset /\ (now - s.at < CiiDebounce \/ now = s.at)
      ELSE snap = NoId

ShowsBlastRadius(t) ==
    \A a \in t.alerts :
        IF a.asset \in GraphAssets
          THEN \E s \in t.snaps :
                  /\ s.id = a.snap /\ s.asset = a.asset
                  /\ a.at - s.at < CiiDebounce \/ a.at = s.at
          ELSE a.snap = NoId

\* A cached snapshot is the row of its id, or there is no such row any more.
SnapInv ==
    /\ OnePerAsset(ciiCache)
    /\ \A k \in 1 .. Len(ciiCache), s \in tx.snaps : s.id = ciiCache[k].id => s = ciiCache[k]
    /\ pc = "decide" => Linked(FlowOf(Head(todo)).asset)
    /\ ShowsBlastRadius(db) /\ ShowsBlastRadius(tx)

\* Touches are in the order of time ...
InTime ==
    /\ \A i \in 1 .. Len(touches) : touches[i].at <= now
    /\ \A i, j \in 1 .. Len(touches) : i < j => touches[i].at <= touches[j].at

\* ... each is of an alert of this or an earlier call, or of a call that raised ...
OfAnAlert ==
    \A i \in 1 .. Len(touches) :
        \/ touches[i].call \in failed
        \/ \E a \in tx.alerts :
              /\ a.asset = touches[i].asset /\ a.at = touches[i].at
              /\ a \in db.alerts \/ touches[i].call = calls

\* ... and each alert has its touch.
AlertIsTouched ==
    AlertDebounce > 0 =>
    \A a \in tx.alerts : \E i \in 1 .. Len(touches) :
        touches[i].asset = a.asset /\ touches[i].at = a.at

TouchInv == InTime /\ OfAnAlert /\ AlertIsTouched

\* The map holds the last touch of its assets ...
HoldsLastTouch ==
    \A k \in 1 .. Len(lastAlert) :
        /\ \E i \in 1 .. Len(touches) :
              touches[i].asset = lastAlert[k].asset /\ touches[i].at = lastAlert[k].at
        /\ \A i \in 1 .. Len(touches) :
              touches[i].asset = lastAlert[k].asset => touches[i].at <= lastAlert[k].at

\* ... in the order of these ...
InOrderOfTouches ==
    \A k, l \in 1 .. Len(lastAlert), i \in 1 .. Len(touches) :
        k < l /\ touches[i].asset = lastAlert[k].asset
            => \E j \in i + 1 .. Len(touches) : touches[j].asset = lastAlert[l].asset

\* ... and is full of assets that were touched later than one that is not in it.
EvictedByLater ==
    \A i \in 1 .. Len(touches) :
        \/ EntryOf(lastAlert, touches[i].asset) # {}
        \/ /\ Len(lastAlert) = CacheMax
           /\ \A k \in 1 .. Len(lastAlert) :
                 \E j \in i + 1 .. Len(touches) : touches[j].asset = lastAlert[k].asset

LruInv == OnePerAsset(lastAlert) /\ HoldsLastTouch /\ InOrderOfTouches /\ EvictedByLater

\* TripwireAccountedFor, of the open transaction too.
Accounted(t) ==
    \A trip \in t.tripped :
        \/ \E a \in t.alerts : a.asset = trip.asset /\ Together(a.at, trip.at)
        \/ \E i \in 1 .. Len(touches) :
              /\ touches[i].asset = trip.asset /\ touches[i].call \in failed
              /\ Together(touches[i].at, trip.at)

AlertInv == Accounted(db) /\ Accounted(tx) /\ OneAlertPerIncident

\* What is collected for the broadcast is in id order ...
NewInOrder ==
    \A i, j \in 1 .. Len(out.event) :
        i < j /\ out.event[i].id # NoId /\ out.event[j].id # NoId
            => out.event[i].id < out.event[j].id

\* ... and newer than what was broadcast.
NewerThanPublished ==
    \A i \in 1 .. Len(out.event), p \in 1 .. Len(published) :
        out.event[i].id # NoId => published[p] < out.event[i].id

BroadcastInv == NewInOrder /\ NewerThanPublished /\ PublishedInIdOrder

\* From the insert on, what is collected for the broadcast is a row the transaction
\* sees, unless its own retention took it.
HasRow(f) ==
    \/ f.id = NoId \/ f \in tx.events
    \/ pc \in {"commit", "publish"} /\ TakenByRetention(f, tx.events)

RowsInv ==
    pc \in {"examine", "decide", "commit", "publish"} =>
        \A i \in 1 .. Len(out.event) : HasRow(out.event[i])

-----------------------------------------------------------------------------
(* The two maps *)

\* What is left of a map without an asset: all of it, or all but one entry.
LEMMA WithoutFacts ==
    ASSUME NEW S, NEW map \in Seq(S), NEW asset
    PROVE  LET rest == Without(map, asset)
           IN  /\ rest \in Seq(S)
               /\ \/ EntryOf(map, asset) = {} /\ rest = map
                  \/ \E n \in EntryOf(map, asset) :
                        /\ Len(rest) = Len(map) - 1
                        /\ \A i \in 1 .. Len(rest) :
                              rest[i] = IF i < n THEN map[i] ELSE map[i + 1]
<1>1. CASE EntryOf(map, asset) = {}
  BY <1>1 DEF Without
<1>2. CASE EntryOf(map, asset) # {}
  <2>. DEFINE n == CHOOSE i \in EntryOf(map, asset) : TRUE
              front == SubSeq(map, 1, n - 1)
              back == SubSeq(map, n + 1, Len(map))
  <2>1. n \in EntryOf(map, asset) /\ n \in 1 .. Len(map) /\ Len(map) \in Nat
    BY <1>2, LenProperties DEF EntryOf
  <2>2. Without(map, asset) = front \o back
    BY <1>2 DEF Without
  <2>. HIDE DEF n
  <2>3. /\ front \in Seq(S) /\ Len(front) = n - 1
        /\ \A i \in 1 .. n - 1 : front[i] = map[i]
    <3>1. 1 \in 1 .. Len(map) + 1 /\ n - 1 \in 1 - 1 .. Len(map)
      BY <2>1
    <3>2. /\ front \in Seq(S)
          /\ Len(front) = IF 1 <= n - 1 THEN n - 1 - 1 + 1 ELSE 0
          /\ \A i \in 1 .. n - 1 - 1 + 1 : front[i] = map[1 + i - 1]
      BY <3>1, SubSeqProperties
    <3>. HIDE DEF front
    <3>. QED  BY <2>1, <3>2
  <2>4. /\ back \in Seq(S) /\ Len(back) = Len(map) - n
        /\ \A i \in 1 .. Len(map) - n : back[i] = map[n + i]
    <3>1. n + 1 \in 1 .. Len(map) + 1 /\ Len(map) \in (n + 1) - 1 .. Len(map)
      BY <2>1
    <3>2. /\ back \in Seq(S)
          /\ Len(back) = IF n + 1 <= Len(map) THEN Len(map) - (n + 1) + 1 ELSE 0
          /\ \A i \in 1 .. Len(map) - (n + 1) + 1 : back[i] = map[(n + 1) + i - 1]
      BY <3>1, SubSeqProperties
    <3>. HIDE DEF back
    <3>. QED  BY <2>1, <3>2
  <2>. HIDE DEF front, back
  <2>5. /\ front \o back \in Seq(S) /\ Len(front \o back) = Len(map) - 1
        /\ \A i \in 1 .. Len(map) - 1 :
              (front \o back)[i] = IF i < n THEN map[i] ELSE map[i + 1]
    <3>1. /\ front \o back \in Seq(S) /\ Len(front \o back) = Len(front) + Len(back)
          /\ \A i \in 1 .. Len(front) + Len(back) :
                (front \o back)[i] = IF i <= Len(front) THEN front[i] ELSE back[i - Len(front)]
      BY <2>3, <2>4, ConcatProperties
    <3>2. ASSUME NEW i \in 1 .. Len(map) - 1
          PROVE  (front \o back)[i] = IF i < n THEN map[i] ELSE map[i + 1]
      <4>1. CASE i < n
        BY <4>1, <3>1, <2>1, <2>3, <2>4
      <4>2. CASE ~(i < n)
        <5>1. i - (n - 1) \in 1 .. Len(map) - n /\ n + (i - (n - 1)) = i + 1
          BY <4>2, <2>1
        <5>2. back[i - (n - 1)] = map[i + 1]
          BY <5>1, <2>4
        <5>3. (front \o back)[i] = back[i - Len(front)]
          BY <4>2, <3>1, <2>1, <2>3, <2>4
        <5>. QED  BY <5>2, <5>3, <4>2, <2>3
      <4>. QED  BY <4>1, <4>2
    <3>3. Len(front) + Len(back) = Len(map) - 1
      BY <2>1, <2>3, <2>4
    <3>4. front \o back \in Seq(S) /\ Len(front \o back) = Len(map) - 1
      BY <3>1, <3>3
    <3>. QED  BY <3>2, <3>4
  <2>. QED  BY <2>1, <2>2, <2>5
<1>. QED  BY <1>1, <1>2

\* All entries but the last come from a map, in its order and for other assets than the
\* last; one that is missing was there before all that are left, and these fill the map.
KeepsOrder(put, map, asset) ==
    \E q \in [1 .. Len(put) - 1 -> 1 .. Len(map)] :
        /\ \A i \in 1 .. Len(put) - 1 : put[i] = map[q[i]] /\ put[i].asset # asset
        /\ \A i, j \in 1 .. Len(put) - 1 : i < j => q[i] < q[j]
        /\ \A m \in 1 .. Len(map) :
              \/ map[m].asset = asset
              \/ \E i \in 1 .. Len(put) - 1 : q[i] = m
              \/ Len(put) = CacheMax /\ \A i \in 1 .. Len(put) - 1 : m < q[i]

\* Every entry is the one put, or was in the map.
DrawnFrom(put, map, entry) ==
    \A k \in 1 .. Len(put) :
        \/ put[k] = entry
        \/ \E m \in 1 .. Len(map) : put[k] = map[m]

\* Put() writes its entry at the end, and keeps the others in order.
LEMMA PutFacts ==
    ASSUME NEW S, NEW map \in Seq(S), Len(map) <= CacheMax, NEW entry \in S, OnePerAsset(map)
    PROVE  LET put == Put(map, entry)
           IN  /\ put \in Seq(S) /\ Len(put) \in 1 .. CacheMax /\ put[Len(put)] = entry
               /\ OnePerAsset(put) /\ Len(map) <= Len(put)
               /\ DrawnFrom(put, map, entry) /\ KeepsOrder(put, map, entry.asset)
<1>. DEFINE rest == Without(map, entry.asset)
            all == Append(rest, entry)
            put == Put(map, entry)
<1>1. CacheMax \in Nat /\ CacheMax > 0 /\ Len(map) \in Nat
  BY PipelineAssumption, LenProperties
<1>2. PICK n \in 1 .. Len(map) + 1 :
         /\ rest \in Seq(S) /\ Len(rest) = IF n <= Len(map) THEN Len(map) - 1 ELSE Len(map)
         /\ \A i \in 1 .. Len(rest) : rest[i] = IF i < n THEN map[i] ELSE map[i + 1]
         /\ \A i \in 1 .. Len(map) : map[i].asset = entry.asset <=> i = n
  <2>. HIDE DEF rest
  <2>0. /\ rest \in Seq(S)
        /\ \/ EntryOf(map, entry.asset) = {} /\ rest = map
           \/ \E n \in EntryOf(map, entry.asset) :
                 /\ Len(rest) = Len(map) - 1
                 /\ \A i \in 1 .. Len(rest) :
                       rest[i] = IF i < n THEN map[i] ELSE map[i + 1]
    BY WithoutFacts DEF rest
  <2>1. CASE EntryOf(map, entry.asset) = {} /\ rest = map
    <3>1. \A i \in 1 .. Len(map) : map[i].asset # entry.asset
      BY <2>1 DEF EntryOf
    <3>. WITNESS Len(map) + 1 \in 1 .. Len(map) + 1
    <3>. QED  BY <2>0, <2>1, <3>1, <1>1
  <2>2. CASE \E n \in EntryOf(map, entry.asset) :
                 /\ Len(rest) = Len(map) - 1
                 /\ \A i \in 1 .. Len(rest) :
                       rest[i] = IF i < n THEN map[i] ELSE map[i + 1]
    <3>1. PICK n \in EntryOf(map, entry.asset) :
                 /\ Len(rest) = Len(map) - 1
                 /\ \A i \in 1 .. Len(rest) :
                       rest[i] = IF i < n THEN map[i] ELSE map[i + 1]
      BY <2>2
    <3>2. n \in 1 .. Len(map) /\ map[n].asset = entry.asset
      BY DEF EntryOf
    <3>3. \A i \in 1 .. Len(map) : map[i].asset = entry.asset <=> i = n
      BY <3>2 DEF OnePerAsset
    <3>4. n \in 1 .. Len(map) + 1
      BY <3>2, <1>1
    <3>. QED  BY <2>0, <3>1, <3>2, <3>3, <3>4, <1>1
  <2>. QED  BY <2>0, <2>1, <2>2
<1>. HIDE DEF rest
<1>3. /\ all \in Seq(S) /\ Len(all) = Len(rest) + 1
      /\ \A i \in 1 .. Len(rest) : all[i] = rest[i]
      /\ all[Len(rest) + 1] = entry
  BY <1>2, AppendProperties
<1>4. Len(rest) \in Nat /\ Len(rest) <= CacheMax
  BY <1>1, <1>2, LenProperties
<1>. DEFINE d == IF Len(rest) = CacheMax THEN 1 ELSE 0
<1>5. d \in Nat /\ (d = 1 => Len(rest) = CacheMax) /\ (d = 0 => Len(rest) < CacheMax)
      /\ d \in {0, 1}
  BY <1>1, <1>4
<1>6. put = SubSeq(all, d + 1, Len(all))
  <2>1. put = Newest(all, CacheMax)
    BY DEF Put, rest
  <2>. HIDE DEF all, put
  <2>2. CASE Len(rest) = CacheMax
    <3>1. d = 1 /\ Len(all) = CacheMax + 1
      BY <2>2, <1>3
    <3>. HIDE DEF d
    <3>. QED  BY <2>1, <3>1, <1>1 DEF Newest
  <2>3. CASE Len(rest) < CacheMax
    <3>1. d = 0 /\ ~(Len(all) > CacheMax)
      BY <2>3, <1>1, <1>3, <1>4
    <3>. HIDE DEF d
    <3>. QED  BY <2>1, <3>1, <1>1 DEF Newest
  <2>. QED  BY <2>2, <2>3, <1>1, <1>4
<1>. HIDE DEF all, d, put
<1>7. /\ put \in Seq(S) /\ Len(put) = Len(rest) + 1 - d
      /\ \A i \in 1 .. Len(put) : put[i] = all[i + d]
  <2>1. d + 1 \in 1 .. Len(all) + 1 /\ Len(all) \in (d + 1) - 1 .. Len(all)
    BY <1>1, <1>3, <1>4, <1>5
  <2>2. /\ SubSeq(all, d + 1, Len(all)) \in Seq(S)
        /\ Len(SubSeq(all, d + 1, Len(all)))
              = IF d + 1 <= Len(all) THEN Len(all) - (d + 1) + 1 ELSE 0
        /\ \A i \in 1 .. Len(all) - (d + 1) + 1 :
              SubSeq(all, d + 1, Len(all))[i] = all[(d + 1) + i - 1]
    BY <2>1, <1>3, SubSeqProperties
  <2>. QED  BY <2>2, <1>1, <1>3, <1>4, <1>5, <1>6
<1>8. Len(put) \in 1 .. CacheMax /\ put[Len(put)] = entry
  <2>1. Len(put) \in 1 .. CacheMax /\ Len(put) + d = Len(rest) + 1
    BY <1>1, <1>4, <1>5, <1>7
  <2>. QED  BY <2>1, <1>3, <1>7
<1>. DEFINE q == [i \in 1 .. Len(put) - 1 |-> IF i + d < n THEN i + d ELSE i + d + 1]
<1>9. ASSUME NEW i \in 1 .. Len(put) - 1
      PROVE  /\ q[i] \in 1 .. Len(map) /\ put[i] = map[q[i]] /\ q[i] # n
             /\ q[i] = IF i + d < n THEN i + d ELSE i + d + 1
  <2>0. q[i] = IF i + d < n THEN i + d ELSE i + d + 1
    OBVIOUS
  <2>. HIDE DEF q
  <2>1. i \in 1 .. Len(put) /\ i + d \in 1 .. Len(rest)
    BY <1>4, <1>5, <1>7
  <2>2. put[i] = rest[i + d]
    BY <2>1, <1>3, <1>7
  <2>3. CASE n <= Len(map)
    BY <2>0, <2>1, <2>2, <2>3, <1>1, <1>2, <1>5
  <2>4. CASE ~(n <= Len(map))
    <3>1. n = Len(map) + 1 /\ Len(rest) = Len(map)
      BY <2>4, <1>1, <1>2
    <3>. QED  BY <2>0, <2>1, <2>2, <3>1, <1>1, <1>2, <1>5
  <2>. QED  BY <2>3, <2>4
<1>10. ASSUME NEW i \in 1 .. Len(put) - 1 PROVE put[i].asset # entry.asset
  <2>1. q[i] \in 1 .. Len(map) /\ put[i] = map[q[i]] /\ q[i] # n
    BY <1>9
  <2>. HIDE DEF q
  <2>. QED  BY <2>1, <1>2
<1>11. ASSUME NEW i \in 1 .. Len(put) - 1, NEW j \in 1 .. Len(put) - 1, i < j
       PROVE  q[i] < q[j]
  <2>1. /\ q[i] = IF i + d < n THEN i + d ELSE i + d + 1
        /\ q[j] = IF j + d < n THEN j + d ELSE j + d + 1
    BY <1>9
  <2>. HIDE DEF q
  <2>2. i \in Int /\ j \in Int /\ d \in Int /\ n \in Int
    BY <1>5, <1>8
  <2>. QED  BY <2>1, <2>2, <1>11
<1>12. ASSUME NEW m \in 1 .. Len(map)
       PROVE  \/ map[m].asset = entry.asset
              \/ \E i \in 1 .. Len(put) - 1 : q[i] = m
              \/ Len(put) = CacheMax /\ \A i \in 1 .. Len(put) - 1 : m < q[i]
  <2>1. CASE m = n
    BY <2>1, <1>2
  <2>2. CASE m # n /\ (IF m < n THEN m ELSE m - 1) > d
    <3>. DEFINE i == (IF m < n THEN m ELSE m - 1) - d
    <3>1. i \in Int /\ i >= 1 /\ i <= Len(put) - 1
      <4>1. CASE n <= Len(map)
        BY <2>2, <4>1, <1>1, <1>2, <1>4, <1>5, <1>7
      <4>2. CASE ~(n <= Len(map))
        BY <2>2, <4>2, <1>1, <1>2, <1>4, <1>5, <1>7
      <4>. QED  BY <4>1, <4>2
    <3>2. i \in 1 .. Len(put) - 1
      BY <3>1, <1>8
    <3>3. q[i] = IF i + d < n THEN i + d ELSE i + d + 1
      BY <3>2, <1>9
    <3>. HIDE DEF q
    <3>4. q[i] = m
      BY <3>3, <2>2, <1>1, <1>5
    <3>. QED  BY <3>2, <3>4
  <2>3. CASE m # n /\ ~((IF m < n THEN m ELSE m - 1) > d)
    <3>1. d = 1 /\ (IF m < n THEN m ELSE m - 1) = 1
      BY <2>3, <1>1, <1>5
    <3>2. Len(put) = CacheMax
      BY <3>1, <1>5, <1>7, <1>1, <1>4
    <3>3. ASSUME NEW i \in 1 .. Len(put) - 1 PROVE m < q[i]
      <4>1. q[i] = IF i + d < n THEN i + d ELSE i + d + 1
        BY <1>9
      <4>2. i \in Int /\ i >= 1
        BY <1>8
      <4>. HIDE DEF q
      <4>. QED  BY <4>1, <4>2, <3>1, <1>1, <2>3
    <3>. QED  BY <3>2, <3>3
  <2>. QED  BY <2>1, <2>2, <2>3
<1>13. q \in [1 .. Len(put) - 1 -> 1 .. Len(map)]
  BY <1>9
<1>14. OnePerAsset(put)
  <2>. SUFFICES ASSUME NEW i \in 1 .. Len(put), NEW j \in 1 .. Len(put),
                       put[i].asset = put[j].asset, i < j
                PROVE  FALSE
    <3>1. \A i, j \in 1 .. Len(put) : i < j \/ j < i \/ i = j
      BY <1>8
    <3>. QED  BY <3>1 DEF OnePerAsset
  <2>1. i \in 1 .. Len(put) - 1
    BY <1>8
  <2>2. CASE j = Len(put)
    BY <2>1, <2>2, <1>8, <1>10
  <2>3. CASE j # Len(put)
    <3>1. j \in 1 .. Len(put) - 1
      BY <2>3, <1>8
    <3>2. map[q[i]].asset = map[q[j]].asset /\ q[i] < q[j]
      BY <3>1, <2>1, <1>9, <1>11
    <3>3. q[i] \in 1 .. Len(map) /\ q[j] \in 1 .. Len(map)
      BY <3>1, <2>1, <1>9
    <3>. HIDE DEF q
    <3>4. q[i] = q[j]
      BY <3>2, <3>3 DEF OnePerAsset
    <3>. QED  BY <3>2, <3>3, <3>4
  <2>. QED  BY <2>2, <2>3
<1>15. DrawnFrom(put, map, entry)
  <2>1. \A i \in 1 .. Len(put) - 1 : \E m \in 1 .. Len(map) : put[i] = map[m]
    BY <1>9
  <2>2. \A i \in 1 .. Len(put) : i \in 1 .. Len(put) - 1 \/ i = Len(put)
    BY <1>8
  <2>. HIDE DEF q
  <2>. QED  BY <2>1, <2>2, <1>8 DEF DrawnFrom
<1>. HIDE DEF q
<1>16. KeepsOrder(put, map, entry.asset)
  <2>1. \A i \in 1 .. Len(put) - 1 : put[i] = map[q[i]] /\ put[i].asset # entry.asset
    BY <1>9, <1>10
  <2>. QED  BY <2>1, <1>11, <1>12, <1>13 DEF KeepsOrder
<1>17. Len(map) <= Len(put)
  BY <1>1, <1>2, <1>4, <1>5, <1>7
<1>. QED
  BY <1>7, <1>8, <1>14, <1>15, <1>16, <1>17 DEF put


-----------------------------------------------------------------------------
(* The types *)

LEMMA InitType == Init => TypeOK
<1>. SUFFICES ASSUME Init PROVE TypeOK
  OBVIOUS
<1>1. content \in [Rows -> Flows]
  BY PipelineAssumption DEF Init
<1>2. db \in Tables /\ tx \in Tables
  BY DEF Init, EmptyTables, Tables
<1>3. stats \in Statistics /\ batch \in Statistics
  BY DEF Init, NoStats, Statistics
<1>4. out \in [event : Seq(Events), cii : Seq(Nat), alert : Seq(Nat)]
  BY EmptySeq DEF Init, NoEnvelopes
<1>5. /\ ciiCache \in Seq(Snapshots) /\ Len(ciiCache) <= CacheMax
      /\ lastAlert \in Seq(Touches) /\ Len(lastAlert) <= CacheMax
      /\ todo \in Seq(Events) /\ published \in Seq(Nat)
      /\ touches \in Seq([asset : Assets, at : Nat, call : Nat])
  BY EmptySeq, PipelineAssumption DEF Init
<1>6. now \in Nat /\ serial \in Nat /\ calls \in 0 .. MaxCalls /\ snap \in Nat
  BY PipelineAssumption DEF Init, NoId
<1>7. failed \subseteq Nat /\ pc = "idle"
  BY DEF Init
<1>. QED  BY <1>1, <1>2, <1>3, <1>4, <1>5, <1>6, <1>7 DEF TypeOK

\* What the insert adds: at most one event per flow, with an id above all drawn before.
LEMMA StoredFacts ==
    ASSUME TypeOK
    PROVE  /\ Stored \in Seq(Events) /\ Len(Stored) = Len(todo) /\ Len(todo) \in Nat
           /\ \A i \in 1 .. Len(todo) :
                 Stored[i].id # NoId => Stored[i].id = serial + i
           /\ Inserted \subseteq Events /\ IsFiniteSet(Inserted)
           /\ Cardinality(Inserted) \in Nat /\ Cardinality(Inserted) <= Len(todo)
           /\ \A f \in Inserted : f.id # NoId /\ f.id > serial /\ f.id <= serial + Len(todo)
<1>1. Len(todo) \in Nat /\ serial \in Nat /\ \A i \in 1 .. Len(todo) : todo[i] \in Events
  BY LenProperties, ElementOfSeq DEF TypeOK
<1>2. ASSUME NEW i \in 1 .. Len(todo)
      PROVE  Stored[i] \in Events /\ (Stored[i].id # NoId => Stored[i].id = serial + i)
  <2>1. Stored[i] = [todo[i] EXCEPT !.id = IF Conflicts(todo[i]) THEN NoId ELSE EventId(i)]
    BY DEF Stored
  <2>2. EventId(i) = serial + i /\ EventId(i) \in Nat /\ NoId \in Nat
    BY <1>1 DEF EventId, NoId
  <2>3. todo[i] \in [session : Sessions, row : Rows, id : Nat]
    BY <1>1 DEF Events
  <2>4. CASE Conflicts(todo[i])
    BY <2>1, <2>2, <2>3, <2>4 DEF Events
  <2>5. CASE ~Conflicts(todo[i])
    BY <2>1, <2>2, <2>3, <2>5 DEF Events
  <2>. QED  BY <2>4, <2>5
<1>3. Stored = [i \in 1 .. Len(todo) |-> Stored[i]]
  BY DEF Stored
<1>4. Stored \in [1 .. Len(todo) -> Events]
  BY <1>2, <1>3
<1>5. Stored \in Seq(Events) /\ Len(Stored) = Len(todo)
  <2>1. DOMAIN Stored = 1 .. Len(todo)
    BY <1>4
  <2>2. Stored \in Seq(Events)
    BY <1>1, <1>4
  <2>3. Len(Stored) \in Nat /\ DOMAIN Stored = 1 .. Len(Stored)
    BY <2>2, LenProperties
  <2>. QED  BY <2>1, <2>2, <2>3, <1>1
<1>6. /\ IsFiniteSet(1 .. Len(todo)) /\ Cardinality(1 .. Len(todo)) = Len(todo)
  BY <1>1, FS_Interval
<1>. DEFINE image == {Stored[i] : i \in 1 .. Len(todo)}
<1>7. IsFiniteSet(image) /\ Cardinality(image) <= Len(todo)
  <2>1. Stored \in Surjection(1 .. Len(todo), image)
    BY <1>4 DEF Surjection
  <2>. HIDE DEF image
  <2>. QED  BY <2>1, <1>6, FS_Surjection
<1>8. Inserted \subseteq image
  BY DEF Inserted
<1>9. IsFiniteSet(Inserted) /\ Cardinality(Inserted) <= Cardinality(image)
  BY <1>7, <1>8, FS_Subset
<1>10. Cardinality(Inserted) \in Nat /\ Cardinality(image) \in Nat
  BY <1>7, <1>9, FS_CardinalityType
<1>11. ASSUME NEW f \in Inserted
       PROVE  /\ f \in Events /\ f.id # NoId
              /\ f.id > serial /\ f.id <= serial + Len(todo)
  <2>1. PICK i \in 1 .. Len(todo) : f = Stored[i] /\ f.id # NoId
    BY DEF Inserted
  <2>. QED  BY <2>1, <1>1, <1>2
<1>. HIDE DEF image
<1>. QED  BY <1>1, <1>2, <1>5, <1>7, <1>9, <1>10, <1>11


\* A snapshot or an event of the map is of the type of the map, and so is the map after a
\* Put(), provided its assets have one entry each.
LEMMA EntryType ==
    ASSUME TypeOK
    PROVE  /\ \A k \in 1 .. Len(ciiCache) : ciiCache[k] \in Snapshots
           /\ \A k \in 1 .. Len(lastAlert) : lastAlert[k] \in Touches
           /\ \A i \in 1 .. Len(touches) : touches[i] \in [asset : Assets, at : Nat, call : Nat]
           /\ \A i \in 1 .. Len(todo) : todo[i] \in Events
           /\ todo # <<>> => /\ Head(todo) \in Events /\ Tail(todo) \in Seq(Events)
                             /\ FlowOf(Head(todo)) \in Flows
           /\ Len(todo) \in Nat /\ Len(touches) \in Nat /\ Len(lastAlert) \in Nat
           /\ Len(ciiCache) \in Nat /\ Len(published) \in Nat /\ Len(out.event) \in Nat
           /\ \A i \in 1 .. Len(published) : published[i] \in Nat
           /\ \A i \in 1 .. Len(out.event) : out.event[i] \in Events
<1>1. out.event \in Seq(Events)
  BY DEF TypeOK
<1>2. todo # <<>> => Head(todo) \in Events /\ Tail(todo) \in Seq(Events)
  BY HeadTailProperties DEF TypeOK
<1>3. todo # <<>> => FlowOf(Head(todo)) \in Flows
  BY <1>2 DEF TypeOK, FlowOf, Events
<1>. QED  BY <1>1, <1>2, <1>3, LenProperties, ElementOfSeq DEF TypeOK

\* A fact about TypeOK's conjuncts that most steps leave alone.
LEMMA QuietTypes ==
    ASSUME TypeOK, UNCHANGED <<content, db, ciiCache, lastAlert, published, touches>>,
           tx' \in Tables, now' \in Nat, serial' \in Nat, calls' \in 0 .. MaxCalls,
           pc' \in {"idle", "persist", "examine", "decide", "commit", "publish"},
           todo' \in Seq(Events), snap' \in Nat,
           out' \in [event : Seq(Events), cii : Seq(Nat), alert : Seq(Nat)],
           stats' \in Statistics, batch' \in Statistics, failed' \subseteq Nat
    PROVE  TypeOK'
BY DEF TypeOK, Tables, Statistics, Snapshots, Touches, Events, Alerts, Flows, Rows, Sessions,
       Kinds

LEMMA NoThings ==
    /\ NoStats \in Statistics
    /\ NoEnvelopes \in [event : Seq(Events), cii : Seq(Nat), alert : Seq(Nat)]
    /\ <<>> \in Seq(Events)
BY EmptySeq DEF NoStats, NoEnvelopes, Statistics

LEMMA Counters ==
    ASSUME NEW s \in Statistics
    PROVE  /\ s.batches \in Nat /\ s.received \in Nat /\ s.inserted \in Nat
           /\ s.deduplicated \in Nat /\ s.computed \in Nat /\ s.alerts \in Nat
           /\ s.suppressed \in Nat /\ s.pruned \in Nat /\ s.lost \in Nat
BY DEF Statistics

LEMMA OneCounter ==
    ASSUME NEW s \in Statistics, NEW n \in Nat
    PROVE  /\ [s EXCEPT !.computed = n] \in Statistics
           /\ [s EXCEPT !.suppressed = n] \in Statistics
           /\ [s EXCEPT !.alerts = n] \in Statistics
           /\ [s EXCEPT !.pruned = n] \in Statistics
           /\ [s EXCEPT !.lost = n] \in Statistics
BY DEF Statistics

LEMMA DeliverType ==
    ASSUME TypeOK, NEW s \in Sessions, NEW lo \in Rows, NEW hi \in lo .. MaxRows,
           Deliver(s, lo, hi)
    PROVE  TypeOK'
<1>1. todo' \in Seq(Events)
  <2>. DEFINE n == hi - lo + 1
              f == [i \in 1 .. n |-> [session |-> s, row |-> lo + i - 1, id |-> NoId]]
  <2>1. n \in Nat /\ MaxRows \in Nat /\ lo \in Nat /\ lo >= 1 /\ hi \in Int /\ hi <= MaxRows
    BY PipelineAssumption DEF Rows
  <2>2. \A i \in 1 .. n : lo + i - 1 \in Rows
    BY <2>1 DEF Rows
  <2>3. f \in [1 .. n -> Events]
    BY <2>2 DEF Events, NoId
  <2>4. todo' = f
    BY DEF Deliver
  <2>. HIDE DEF f, n
  <2>. QED  BY <2>1, <2>3, <2>4
<1>2. calls' \in 0 .. MaxCalls
  BY PipelineAssumption DEF TypeOK, Deliver
<1>. QED
  BY <1>1, <1>2, QuietTypes DEF TypeOK, Deliver, memory, history

LEMMA PersistType ==
    ASSUME TypeOK, Persist
    PROVE  TypeOK'
<1>1. tx' \in Tables
  <2>1. db.events \cup Inserted \subseteq Events
    BY StoredFacts DEF TypeOK, Tables
  <2>. QED  BY <2>1 DEF TypeOK, Persist, Tables
<1>2. todo' \in Seq(Events) /\ serial' \in Nat
  BY StoredFacts DEF TypeOK, Persist
<1>3. out' \in [event : Seq(Events), cii : Seq(Nat), alert : Seq(Nat)]
  BY StoredFacts, EmptySeq DEF Persist, NoEnvelopes
<1>4. batch' \in Statistics
  <2>1. /\ Len(todo) \in Nat /\ Cardinality(Inserted) \in Nat
        /\ Len(todo) - Cardinality(Inserted) \in Nat
    BY StoredFacts
  <2>2. batch' = [batches |-> 0, received |-> Len(todo), inserted |-> Cardinality(Inserted),
                  deduplicated |-> Len(todo) - Cardinality(Inserted), computed |-> 0,
                  alerts |-> 0, suppressed |-> 0, pruned |-> 0, lost |-> 0]
    BY DEF Persist, NoStats
  <2>. QED  BY <2>1, <2>2 DEF Statistics
<1>. QED
  BY <1>1, <1>2, <1>3, <1>4, QuietTypes DEF TypeOK, Persist, memory, history

LEMMA CiiType ==
    ASSUME TypeOK, OnePerAsset(ciiCache), NEW asset \in Assets,
           CiiNone(asset) \/ CiiReuse(asset) \/ CiiCompute(asset)
    PROVE  TypeOK' /\ OnePerAsset(ciiCache')
<1>1. CASE CiiNone(asset)
  <2>1. UNCHANGED <<tx, serial, ciiCache, batch>> /\ snap' \in Nat
    BY <1>1 DEF CiiNone, NoId
  <2>. QED
    BY <1>1, <2>1, QuietTypes DEF TypeOK, CiiNone, CiiStep, history
<1>2. ASSUME NEW entry \in Snapshots, ciiCache' = Put(ciiCache, entry)
      PROVE  /\ ciiCache' \in Seq(Snapshots) /\ Len(ciiCache') <= CacheMax
             /\ OnePerAsset(ciiCache')
  <2>1. ciiCache \in Seq(Snapshots) /\ Len(ciiCache) <= CacheMax
    BY DEF TypeOK
  <2>2. /\ Put(ciiCache, entry) \in Seq(Snapshots)
        /\ Len(Put(ciiCache, entry)) \in 1 .. CacheMax
        /\ OnePerAsset(Put(ciiCache, entry))
    BY <2>1, PutFacts
  <2>. QED  BY <1>2, <2>2
<1>3. CASE CiiReuse(asset)
  <2>1. PICK i \in EntryOf(ciiCache, asset) :
            snap' = ciiCache[i].id /\ ciiCache' = Put(ciiCache, ciiCache[i])
    BY <1>3 DEF CiiReuse
  <2>2. ciiCache[i] \in Snapshots
    BY EntryType DEF EntryOf
  <2>3. snap' \in Nat
    BY <2>1, <2>2 DEF Snapshots
  <2>4. /\ ciiCache' \in Seq(Snapshots) /\ Len(ciiCache') <= CacheMax
        /\ OnePerAsset(ciiCache')
    BY <1>2, <2>1, <2>2
  <2>. QED
    BY <1>3, <2>3, <2>4 DEF TypeOK, CiiReuse, CiiStep, history
<1>4. CASE CiiCompute(asset)
  <2>1. serial + 1 \in Nat /\ serial' = serial + 1 /\ snap' = serial + 1
    BY <1>4 DEF TypeOK, CiiCompute
  <2>. DEFINE new == [id |-> serial + 1, asset |-> asset, at |-> now]
  <2>2. new \in Snapshots /\ new = [asset |-> asset, id |-> serial + 1, at |-> now]
    BY <1>4, <2>1 DEF CiiCompute, Snapshots, TypeOK
  <2>3. tx' \in Tables
    <3>1. tx' = [tx EXCEPT !.snaps = @ \cup {new}]
      BY <1>4, <2>1 DEF CiiCompute
    <3>. HIDE DEF new
    <3>. QED  BY <3>1, <2>2 DEF TypeOK, Tables
  <2>4. batch' \in Statistics
    <3>1. batch \in Statistics /\ batch.computed + 1 \in Nat
      BY Counters DEF TypeOK
    <3>2. batch' = [batch EXCEPT !.computed = batch.computed + 1]
      BY <1>4 DEF CiiCompute
    <3>. QED  BY <3>1, <3>2, OneCounter
  <2>5. ciiCache' = Put(ciiCache, new)
    BY <1>4, <2>1, <2>2 DEF CiiCompute
  <2>. HIDE DEF new
  <2>6. /\ ciiCache' \in Seq(Snapshots) /\ Len(ciiCache') <= CacheMax
        /\ OnePerAsset(ciiCache')
    BY <1>2, <2>2, <2>5
  <2>7. /\ serial' \in Nat /\ snap' \in Nat /\ pc' = "decide"
        /\ UNCHANGED <<content, now, db, calls, todo, out, lastAlert, stats, history>>
    BY <1>4, <2>1 DEF CiiCompute, CiiStep
  <2>. QED
    BY <2>3, <2>4, <2>6, <2>7 DEF TypeOK, history
<1>. QED  BY <1>1, <1>3, <1>4

\* The touch of an alert, with the debounce on.
LEMMA TouchType ==
    ASSUME TypeOK, OnePerAsset(lastAlert), NEW flow \in Flows, Touch(flow)
    PROVE  /\ lastAlert' \in Seq(Touches) /\ Len(lastAlert') <= CacheMax
           /\ OnePerAsset(lastAlert')
           /\ touches' \in Seq([asset : Assets, at : Nat, call : Nat])
<1>1. CASE AlertDebounce = 0
  BY <1>1 DEF Touch, TypeOK
<1>2. CASE AlertDebounce # 0
  <2>. DEFINE entry == [asset |-> flow.asset, at |-> now]
              touch == [asset |-> flow.asset, at |-> now, call |-> calls]
  <2>1. entry \in Touches /\ touch \in [asset : Assets, at : Nat, call : Nat]
    BY PipelineAssumption DEF TypeOK, Touches, Flows
  <2>2. lastAlert' = Put(lastAlert, entry) /\ touches' = Append(touches, touch)
    BY <1>2 DEF Touch
  <2>. HIDE DEF entry, touch
  <2>3. lastAlert \in Seq(Touches) /\ Len(lastAlert) <= CacheMax
    BY DEF TypeOK
  <2>4. /\ Put(lastAlert, entry) \in Seq(Touches)
        /\ Len(Put(lastAlert, entry)) \in 1 .. CacheMax
        /\ OnePerAsset(Put(lastAlert, entry))
    BY <2>1, <2>3, PutFacts
  <2>5. touches' \in Seq([asset : Assets, at : Nat, call : Nat])
    BY <2>1, <2>2, AppendProperties DEF TypeOK
  <2>. QED  BY <2>2, <2>4, <2>5
<1>. QED  BY <1>1, <1>2


LEMMA AbandonType ==
    ASSUME TypeOK, Abandon
    PROVE  /\ tx' \in Tables /\ batch' \in Statistics /\ failed' \subseteq Nat
           /\ out' \in [event : Seq(Events), cii : Seq(Nat), alert : Seq(Nat)]
<1>1. tx' \in Tables
  BY DEF TypeOK, Abandon
<1>2. /\ batch' \in Statistics
      /\ out' \in [event : Seq(Events), cii : Seq(Nat), alert : Seq(Nat)]
  BY NoThings DEF Abandon
<1>3. failed' \subseteq Nat
  <2>1. failed \subseteq Nat /\ calls \in Nat
    BY PipelineAssumption DEF TypeOK
  <2>. QED  BY <2>1 DEF Abandon
<1>. QED  BY <1>1, <1>2, <1>3

LEMMA SuppressType ==
    ASSUME TypeOK, NEW flow \in Flows, Suppress(flow), todo # <<>>
    PROVE  TypeOK'
<1>1. tx' \in Tables
  <2>1. tx.tripped \cup TrippedBy(flow) \in SUBSET Touches
    BY DEF TypeOK, Tables, TrippedBy, Touches, Flows
  <2>. QED  BY <2>1 DEF TypeOK, Tables, Suppress
<1>2. out' \in [event : Seq(Events), cii : Seq(Nat), alert : Seq(Nat)]
  <2>1. out.cii \o CiiEnvelope \in Seq(Nat)
    BY ConcatProperties, EmptySeq DEF TypeOK, CiiEnvelope
  <2>. QED  BY <2>1 DEF TypeOK, Suppress
<1>3. batch' \in Statistics
  <2>1. batch \in Statistics /\ batch.suppressed + 1 \in Nat
    BY Counters DEF TypeOK
  <2>2. batch' = [batch EXCEPT !.suppressed = batch.suppressed + 1] \/ batch' = batch
    BY DEF Suppress
  <2>. QED  BY <2>1, <2>2, OneCounter
<1>4. todo' \in Seq(Events) /\ snap' \in Nat
  BY EntryType DEF Suppress, Examination, NoId
<1>. QED
  BY <1>1, <1>2, <1>3, <1>4, QuietTypes DEF TypeOK, Suppress, Examination

LEMMA RaiseType ==
    ASSUME TypeOK, OnePerAsset(lastAlert), NEW flow \in Flows, RaiseAlert(flow), todo # <<>>
    PROVE  TypeOK' /\ OnePerAsset(lastAlert')
<1>1. serial' \in Nat /\ serial' = serial + 1
  BY DEF TypeOK, RaiseAlert
<1>2. tx' \in Tables
  <2>. DEFINE alert == [id |-> serial', asset |-> flow.asset, at |-> now,
                        severity |-> Severity(flow), snap |-> snap]
  <2>1. alert \in Alerts
    BY <1>1 DEF TypeOK, Alerts, Severity, Flows
  <2>2. tx.tripped \cup TrippedBy(flow) \in SUBSET Touches
    BY DEF TypeOK, Tables, TrippedBy, Touches, Flows
  <2>3. tx' = [tx EXCEPT !.alerts = tx.alerts \cup {alert},
                         !.tripped = tx.tripped \cup TrippedBy(flow)]
    BY DEF RaiseAlert
  <2>. HIDE DEF alert
  <2>. QED  BY <2>1, <2>2, <2>3 DEF TypeOK, Tables
<1>3. out' \in [event : Seq(Events), cii : Seq(Nat), alert : Seq(Nat)]
  <2>1. out.cii \o CiiEnvelope \in Seq(Nat)
    BY ConcatProperties, EmptySeq DEF TypeOK, CiiEnvelope
  <2>2. Append(out.alert, serial') \in Seq(Nat)
    BY <1>1, AppendProperties DEF TypeOK
  <2>3. out' = [out EXCEPT !.cii = out.cii \o CiiEnvelope, !.alert = Append(out.alert, serial')]
    BY DEF RaiseAlert
  <2>. QED  BY <2>1, <2>2, <2>3 DEF TypeOK
<1>4. batch' \in Statistics
  <2>1. batch \in Statistics /\ batch.alerts + 1 \in Nat
    BY Counters DEF TypeOK
  <2>2. batch' = [batch EXCEPT !.alerts = batch.alerts + 1]
    BY DEF RaiseAlert
  <2>. QED  BY <2>1, <2>2, OneCounter
<1>5. todo' \in Seq(Events) /\ snap' \in Nat
  BY EntryType DEF RaiseAlert, Examination, NoId
<1>6. /\ lastAlert' \in Seq(Touches) /\ Len(lastAlert') <= CacheMax
      /\ OnePerAsset(lastAlert')
      /\ touches' \in Seq([asset : Assets, at : Nat, call : Nat])
  BY TouchType DEF RaiseAlert
<1>. QED
  BY <1>1, <1>2, <1>3, <1>4, <1>5, <1>6 DEF TypeOK, RaiseAlert, Examination

LEMMA OrphanedType ==
    ASSUME TypeOK, OnePerAsset(lastAlert), NEW flow \in Flows, AlertOrphaned(flow)
    PROVE  TypeOK' /\ OnePerAsset(lastAlert')
<1>1. /\ lastAlert' \in Seq(Touches) /\ Len(lastAlert') <= CacheMax
      /\ OnePerAsset(lastAlert')
      /\ touches' \in Seq([asset : Assets, at : Nat, call : Nat])
  BY TouchType DEF AlertOrphaned
<1>2. /\ tx' \in Tables /\ batch' \in Statistics /\ failed' \subseteq Nat
      /\ out' \in [event : Seq(Events), cii : Seq(Nat), alert : Seq(Nat)]
  BY AbandonType DEF AlertOrphaned
<1>3. todo' \in Seq(Events) /\ snap' \in Nat /\ pc' = "idle"
  BY NoThings DEF AlertOrphaned, Abandon, NoId
<1>. QED  BY <1>1, <1>2, <1>3 DEF TypeOK, AlertOrphaned

\* The events are finite sets once and for all, so that what is pruned can be counted.
LEMMA PruneType ==
    ASSUME TypeOK, IsFiniteSet(tx.events), NEW old \in SUBSET tx.events, Prune(old)
    PROVE  TypeOK'
<1>1. tx' \in Tables
  BY DEF TypeOK, Tables, Prune
<1>2. batch' \in Statistics
  <2>1. batch \in Statistics /\ Cardinality(old) \in Nat
    BY FS_Subset, FS_CardinalityType DEF TypeOK
  <2>. QED  BY <2>1, OneCounter DEF Prune
<1>. QED  BY <1>1, <1>2, QuietTypes DEF TypeOK, Prune, memory, history

LEMMA EndingType ==
    ASSUME TypeOK, Commit \/ DatabaseFails \/ SkipKnown \/ Absorb
    PROVE  TypeOK'
<1>1. CASE Commit
  BY <1>1 DEF TypeOK, Commit, memory, batchVars, history
<1>2. CASE DatabaseFails
  <2>1. /\ tx' \in Tables /\ batch' \in Statistics /\ failed' \subseteq Nat
        /\ out' \in [event : Seq(Events), cii : Seq(Nat), alert : Seq(Nat)]
        /\ pc' = "idle"
    BY <1>2, AbandonType DEF DatabaseFails, Abandon
  <2>2. todo' \in Seq(Events) /\ snap' \in Nat
    BY <1>2, NoThings DEF DatabaseFails, NoId
  <2>. QED  BY <1>2, <2>1, <2>2, QuietTypes DEF TypeOK, DatabaseFails, memory
<1>3. CASE SkipKnown
  <2>1. Tail(out.event) \in Seq(Events)
    BY <1>3, HeadTailProperties DEF TypeOK, SkipKnown, NotNew
  <2>2. out' \in [event : Seq(Events), cii : Seq(Nat), alert : Seq(Nat)]
    BY <1>3, <2>1 DEF TypeOK, SkipKnown
  <2>. QED  BY <1>3, <2>2, QuietTypes DEF TypeOK, SkipKnown, memory, history
<1>4. CASE Absorb
  <2>1. Absorbed \in Statistics
    <3>1. stats \in Statistics /\ batch \in Statistics
      BY DEF TypeOK
    <3>2. /\ stats.batches + 1 \in Nat /\ stats.received + batch.received \in Nat
          /\ stats.inserted + batch.inserted \in Nat
          /\ stats.deduplicated + batch.deduplicated \in Nat
          /\ stats.computed + batch.computed \in Nat /\ stats.alerts + batch.alerts \in Nat
          /\ stats.suppressed + batch.suppressed \in Nat
          /\ stats.pruned \in Nat /\ stats.lost \in Nat
      BY <3>1, Counters
    <3>. QED  BY <3>2 DEF Absorbed, Statistics
  <2>2. stats' \in Statistics
    <3>1. stats' = [Absorbed EXCEPT !.pruned = Absorbed.pruned + batch.pruned]
      BY <1>4 DEF Absorb
    <3>2. Absorbed.pruned + batch.pruned \in Nat
      BY <2>1, Counters DEF TypeOK
    <3>. QED  BY <2>1, <3>1, <3>2, OneCounter
  <2>. QED  BY <1>4, <2>2, NoThings, QuietTypes DEF TypeOK, Absorb, memory, history
<1>. QED  BY <1>1, <1>2, <1>3, <1>4

\* What the broadcaster is handed.
LEMMA TakenType ==
    ASSUME TypeOK, TakeEnvelope
    PROVE  out' \in [event : Seq(Events), cii : Seq(Nat), alert : Seq(Nat)]
<1>1. CASE out.event # <<>> /\ out' = [out EXCEPT !.event = Tail(@)]
  <2>1. Tail(out.event) \in Seq(Events)
    BY <1>1, HeadTailProperties DEF TypeOK
  <2>. QED  BY <1>1, <2>1 DEF TypeOK
<1>2. CASE out.cii # <<>> /\ out' = [out EXCEPT !.cii = Tail(@)]
  <2>1. Tail(out.cii) \in Seq(Nat)
    BY <1>2, HeadTailProperties DEF TypeOK
  <2>. QED  BY <1>2, <2>1 DEF TypeOK
<1>3. CASE out.alert # <<>> /\ out' = [out EXCEPT !.alert = Tail(@)]
  <2>1. Tail(out.alert) \in Seq(Nat)
    BY <1>3, HeadTailProperties DEF TypeOK
  <2>. QED  BY <1>3, <2>1 DEF TypeOK
<1>. QED  BY <1>1, <1>2, <1>3 DEF TakeEnvelope

LEMMA PublishType ==
    ASSUME TypeOK, Publish \/ PublishFails
    PROVE  TypeOK'
<1>1. /\ TakeEnvelope
      /\ out' \in [event : Seq(Events), cii : Seq(Nat), alert : Seq(Nat)]
      /\ UNCHANGED <<content, now, db, tx, serial, ciiCache, lastAlert, pc, calls, todo, snap,
                     batch, touches, failed>>
  BY TakenType DEF Publish, PublishFails, TakeEnvelope, memory
<1>2. published' \in Seq(Nat)
  <2>1. out.event # <<>> => Append(published, Head(out.event).id) \in Seq(Nat)
    <3>1. out.event # <<>> => Head(out.event) \in Events
      BY HeadTailProperties DEF TypeOK
    <3>2. out.event # <<>> => Head(out.event).id \in Nat
      BY <3>1 DEF Events
    <3>. QED  BY <3>2, AppendProperties DEF TypeOK
  <2>. QED  BY <2>1 DEF TypeOK, Publish, PublishFails
<1>3. stats' \in Statistics
  <2>1. stats \in Statistics /\ stats.lost + 1 \in Nat
    BY Counters DEF TypeOK
  <2>2. stats' = stats \/ stats' = [stats EXCEPT !.lost = stats.lost + 1]
    BY DEF Publish, PublishFails
  <2>. QED  BY <2>1, <2>2, OneCounter
<1>. QED  BY <1>1, <1>2, <1>3 DEF TypeOK

LEMMA QuietType ==
    ASSUME TypeOK, Skip \/ Tick \/ UNCHANGED vars
    PROVE  TypeOK'
<1>1. CASE Skip
  BY <1>1, EntryType, QuietTypes DEF TypeOK, Skip, memory, history
<1>2. CASE Tick
  <2>1. now' \in Nat
    BY <1>2, PipelineAssumption DEF TypeOK, Tick
  <2>. QED
    BY <1>2, <2>1, QuietTypes DEF TypeOK, Tick, memory, history, batchVars
<1>3. CASE UNCHANGED vars
  BY <1>3, QuietTypes DEF TypeOK, vars, memory, history, batchVars
<1>. QED  BY <1>1, <1>2, <1>3

\* Every step, but for what the maps and the finite tables need.
LEMMA TypeStep ==
    ASSUME TypeOK, [Next]_vars, OnePerAsset(ciiCache), OnePerAsset(lastAlert),
           IsFiniteSet(tx.events), pc = "decide" => todo # <<>>
    PROVE  TypeOK' /\ OnePerAsset(ciiCache') /\ OnePerAsset(lastAlert')
<1>1. ASSUME NEW s \in Sessions, NEW lo \in Rows, NEW hi \in lo .. MaxRows, Deliver(s, lo, hi)
      PROVE  TypeOK' /\ UNCHANGED <<ciiCache, lastAlert>>
  BY <1>1, DeliverType DEF Deliver, memory
<1>2. ASSUME Persist PROVE TypeOK' /\ UNCHANGED <<ciiCache, lastAlert>>
  BY <1>2, PersistType DEF Persist, memory
<1>3. ASSUME NEW asset \in Assets, CiiNone(asset) \/ CiiReuse(asset) \/ CiiCompute(asset)
      PROVE  TypeOK' /\ OnePerAsset(ciiCache') /\ UNCHANGED lastAlert
  BY <1>3, CiiType DEF CiiNone, CiiReuse, CiiCompute, CiiStep
<1>4. ASSUME NEW flow \in Flows, Suppress(flow)
      PROVE  TypeOK' /\ UNCHANGED <<ciiCache, lastAlert>>
  BY <1>4, SuppressType DEF Suppress, Examination
<1>5. ASSUME NEW flow \in Flows, RaiseAlert(flow) \/ AlertOrphaned(flow)
      PROVE  TypeOK' /\ OnePerAsset(lastAlert') /\ UNCHANGED ciiCache
  BY <1>5, RaiseType, OrphanedType DEF RaiseAlert, AlertOrphaned, Examination
<1>6. ASSUME NEW old \in SUBSET tx.events, Prune(old)
      PROVE  TypeOK' /\ UNCHANGED <<ciiCache, lastAlert>>
  BY <1>6, PruneType DEF Prune, memory
<1>7. ASSUME Commit \/ DatabaseFails \/ SkipKnown \/ Absorb
      PROVE  TypeOK' /\ UNCHANGED <<ciiCache, lastAlert>>
  BY <1>7, EndingType DEF Commit, DatabaseFails, SkipKnown, Absorb, memory
<1>8. ASSUME Publish \/ PublishFails PROVE TypeOK' /\ UNCHANGED <<ciiCache, lastAlert>>
  BY <1>8, PublishType DEF Publish, PublishFails, TakeEnvelope, memory
<1>9. ASSUME Skip \/ Tick \/ UNCHANGED vars PROVE TypeOK' /\ UNCHANGED <<ciiCache, lastAlert>>
  BY <1>9, QuietType DEF Skip, Tick, vars, memory
<1>. QED
  BY <1>1, <1>2, <1>3, <1>4, <1>5, <1>6, <1>7, <1>8, <1>9 DEF Next, Examine


-----------------------------------------------------------------------------
(* The transaction, the serial and the counts *)

\* What each step makes of the tables, the counters and the envelopes, field by field.
LEMMA PersistEffect ==
    ASSUME TypeOK, Persist
    PROVE  /\ tx'.events = db.events \cup Inserted /\ tx'.snaps = db.snaps
           /\ tx'.alerts = db.alerts /\ tx'.tripped = db.tripped
           /\ out'.event = Stored
           /\ batch'.received = Len(todo) /\ batch'.inserted = Cardinality(Inserted)
           /\ batch'.deduplicated = Len(todo) - Cardinality(Inserted)
           /\ batch'.pruned = 0 /\ batch'.computed = 0 /\ batch'.alerts = 0
           /\ serial' = serial + Len(todo)
BY DEF TypeOK, Tables, Persist, NoStats, NoEnvelopes

LEMMA ComputeEffect ==
    ASSUME TypeOK, NEW asset \in Assets, CiiCompute(asset)
    PROVE  /\ tx'.snaps = tx.snaps \cup {[id |-> serial + 1, asset |-> asset, at |-> now]}
           /\ tx'.events = tx.events /\ tx'.alerts = tx.alerts /\ tx'.tripped = tx.tripped
           /\ batch'.computed = batch.computed + 1
           /\ batch'.received = batch.received /\ batch'.inserted = batch.inserted
           /\ batch'.deduplicated = batch.deduplicated /\ batch'.pruned = batch.pruned
           /\ batch'.alerts = batch.alerts
           /\ serial' = serial + 1 /\ snap' = serial + 1
           /\ ciiCache' = Put(ciiCache, [asset |-> asset, id |-> serial + 1, at |-> now])
<1>1. /\ tx' = [tx EXCEPT !.snaps = @ \cup {[id |-> serial + 1, asset |-> asset, at |-> now]}]
      /\ batch' = [batch EXCEPT !.computed = @ + 1]
      /\ serial' = serial + 1 /\ snap' = serial + 1
      /\ ciiCache' = Put(ciiCache, [asset |-> asset, id |-> serial + 1, at |-> now])
  BY DEF CiiCompute
<1>2. tx \in Tables /\ batch \in Statistics
  BY DEF TypeOK
<1>. QED  BY <1>1, <1>2 DEF Tables, Statistics

LEMMA SuppressEffect ==
    ASSUME TypeOK, NEW flow \in Flows, Suppress(flow)
    PROVE  /\ tx'.tripped = tx.tripped \cup TrippedBy(flow)
           /\ tx'.events = tx.events /\ tx'.alerts = tx.alerts /\ tx'.snaps = tx.snaps
           /\ batch'.received = batch.received /\ batch'.inserted = batch.inserted
           /\ batch'.deduplicated = batch.deduplicated /\ batch'.pruned = batch.pruned
           /\ batch'.alerts = batch.alerts /\ batch'.computed = batch.computed
           /\ out'.event = out.event
<1>1. /\ tx' = [tx EXCEPT !.tripped = @ \cup TrippedBy(flow)]
      /\ \/ batch' = [batch EXCEPT !.suppressed = @ + 1] \/ batch' = batch
      /\ \/ out' = [out EXCEPT !.cii = @ \o CiiEnvelope] \/ out' = out
  BY DEF Suppress
<1>2. /\ tx \in Tables /\ batch \in Statistics
      /\ out \in [event : Seq(Events), cii : Seq(Nat), alert : Seq(Nat)]
  BY DEF TypeOK
<1>3. out'.event = out.event
  BY <1>1, <1>2
<1>. QED  BY <1>1, <1>2, <1>3 DEF Tables, Statistics

\* The alert a step raises.
NewAlert(flow) ==
    [id |-> serial + 1, asset |-> flow.asset, at |-> now, severity |-> Severity(flow),
     snap |-> snap]

LEMMA RaiseEffect ==
    ASSUME TypeOK, NEW flow \in Flows, RaiseAlert(flow)
    PROVE  /\ tx'.alerts = tx.alerts \cup {NewAlert(flow)}
           /\ tx'.tripped = tx.tripped \cup TrippedBy(flow)
           /\ tx'.events = tx.events /\ tx'.snaps = tx.snaps
           /\ batch'.received = batch.received /\ batch'.inserted = batch.inserted
           /\ batch'.deduplicated = batch.deduplicated /\ batch'.pruned = batch.pruned
           /\ batch'.alerts = batch.alerts + 1 /\ batch'.computed = batch.computed
           /\ out'.event = out.event
           /\ serial' = serial + 1
<1>1. /\ serial' = serial + 1
      /\ tx' = [tx EXCEPT !.alerts = @ \cup {NewAlert(flow)}, !.tripped = @ \cup TrippedBy(flow)]
      /\ batch' = [batch EXCEPT !.alerts = @ + 1]
      /\ out' = [out EXCEPT !.cii = @ \o CiiEnvelope, !.alert = Append(@, serial')]
  BY DEF RaiseAlert, NewAlert
<1>2. /\ tx \in Tables /\ batch \in Statistics
      /\ out \in [event : Seq(Events), cii : Seq(Nat), alert : Seq(Nat)]
  BY DEF TypeOK
<1>3. out'.event = out.event
  BY <1>1, <1>2
<1>4. /\ batch'.received = batch.received /\ batch'.inserted = batch.inserted
      /\ batch'.deduplicated = batch.deduplicated /\ batch'.pruned = batch.pruned
      /\ batch'.alerts = batch.alerts + 1 /\ batch'.computed = batch.computed
  BY <1>1, <1>2 DEF Statistics
<1>. QED  BY <1>1, <1>2, <1>3, <1>4 DEF Tables

LEMMA PruneEffect ==
    ASSUME TypeOK, NEW old \in SUBSET tx.events, Prune(old)
    PROVE  /\ tx'.events = tx.events \ old /\ tx'.snaps = tx.snaps
           /\ tx'.alerts = tx.alerts /\ tx'.tripped = tx.tripped
           /\ batch'.pruned = Cardinality(old)
           /\ batch'.received = batch.received /\ batch'.inserted = batch.inserted
           /\ batch'.deduplicated = batch.deduplicated
           /\ batch'.alerts = batch.alerts /\ batch'.computed = batch.computed
BY DEF TypeOK, Tables, Statistics, Prune

LEMMA AbsorbEffect ==
    ASSUME TypeOK, Absorb
    PROVE  /\ stats'.received = stats.received + batch.received
           /\ stats'.inserted = stats.inserted + batch.inserted
           /\ stats'.deduplicated = stats.deduplicated + batch.deduplicated
           /\ stats'.pruned = stats.pruned + batch.pruned
           /\ stats'.alerts = stats.alerts + batch.alerts
           /\ stats'.computed = stats.computed + batch.computed
           /\ batch' = NoStats
BY DEF TypeOK, Absorb, Absorbed

\* The counters that are compared with the tables do not see a lost envelope.
LEMMA PublishEffect ==
    ASSUME TypeOK, Publish \/ PublishFails
    PROVE  /\ stats'.received = stats.received /\ stats'.inserted = stats.inserted
           /\ stats'.deduplicated = stats.deduplicated /\ stats'.pruned = stats.pruned
           /\ stats'.alerts = stats.alerts /\ stats'.computed = stats.computed
           /\ \/ out.event # <<>> /\ Head(out.event).id # NoId /\ out'.event = Tail(out.event)
              \/ out.event = <<>> /\ out'.event = <<>> /\ published' = published
           /\ \/ published' = published
              \/ published' = Append(published, Head(out.event).id)
           /\ pc = "publish"
           /\ UNCHANGED <<content, now, db, tx, serial, ciiCache, lastAlert, pc, calls, todo,
                          snap, batch, touches, failed>>
<1>1. /\ TakeEnvelope
      /\ stats' = stats \/ stats' = [stats EXCEPT !.lost = @ + 1]
      /\ published' = published
            \/ (out.event # <<>> /\ published' = Append(published, Head(out.event).id))
  BY DEF Publish, PublishFails
<1>2. stats \in Statistics /\ out \in [event : Seq(Events), cii : Seq(Nat), alert : Seq(Nat)]
  BY DEF TypeOK
<1>3. \/ out.event # <<>> /\ Head(out.event).id # NoId /\ out'.event = Tail(out.event)
      \/ out.event = <<>> /\ out'.event = <<>>
  BY <1>1, <1>2 DEF TakeEnvelope, NotNew
<1>4. /\ stats'.received = stats.received /\ stats'.inserted = stats.inserted
      /\ stats'.deduplicated = stats.deduplicated /\ stats'.pruned = stats.pruned
      /\ stats'.alerts = stats.alerts /\ stats'.computed = stats.computed
  BY <1>1, <1>2 DEF Statistics
<1>. QED  BY <1>1, <1>3, <1>4 DEF TakeEnvelope, memory

LEMMA ControlStep ==
    ASSUME TypeOK, ControlInv, [Next]_vars
    PROVE  ControlInv'
<1>1. ASSUME NEW s \in Sessions, NEW lo \in Rows, NEW hi \in lo .. MaxRows, Deliver(s, lo, hi)
      PROVE  ControlInv'
  BY <1>1 DEF ControlInv, Deliver
<1>2. ASSUME Persist PROVE ControlInv'
  BY <1>2, PersistEffect DEF ControlInv, Persist
<1>3. ASSUME NEW asset \in Assets, CiiNone(asset) \/ CiiReuse(asset)
      PROVE  ControlInv'
  BY <1>3 DEF ControlInv, CiiNone, CiiReuse, CiiStep
<1>4. ASSUME NEW asset \in Assets, CiiCompute(asset)
      PROVE  ControlInv'
  BY <1>4, ComputeEffect DEF ControlInv, CiiCompute, CiiStep
<1>5. ASSUME NEW flow \in Flows, Suppress(flow) PROVE ControlInv'
  BY <1>5, SuppressEffect DEF ControlInv, Suppress, Examination
<1>6. ASSUME NEW flow \in Flows, RaiseAlert(flow) PROVE ControlInv'
  BY <1>6, RaiseEffect DEF ControlInv, RaiseAlert, Examination
<1>7. ASSUME NEW flow \in Flows, AlertOrphaned(flow) PROVE ControlInv'
  BY <1>7 DEF ControlInv, AlertOrphaned, Abandon
<1>8. ASSUME NEW old \in SUBSET tx.events, Prune(old) PROVE ControlInv'
  BY <1>8, PruneEffect DEF ControlInv, Prune
<1>9. ASSUME Commit \/ SkipKnown \/ Absorb \/ Skip \/ Tick \/ UNCHANGED vars PROVE ControlInv'
  BY <1>9 DEF ControlInv, Commit, SkipKnown, Absorb, Skip, Tick, vars, batchVars
<1>10. ASSUME DatabaseFails PROVE ControlInv'
  BY <1>10 DEF ControlInv, DatabaseFails, Abandon
<1>11. ASSUME Publish \/ PublishFails PROVE ControlInv'
  BY <1>11 DEF ControlInv, Publish, PublishFails, TakeEnvelope
<1>. QED
  BY <1>1, <1>2, <1>3, <1>4, <1>5, <1>6, <1>7, <1>8, <1>9, <1>10, <1>11 DEF Next, Examine


LEMMA SerialStep ==
    ASSUME TypeOK, ControlInv, SerialInv, OnePerAsset(ciiCache), [Next]_vars
    PROVE  SerialInv'
<1>1. ASSUME serial' = serial, tx' = tx \/ tx' = db \/ tx'.events \subseteq tx.events,
             tx' = tx \/ tx' = db \/ (tx'.snaps = tx.snaps /\ tx'.alerts = tx.alerts),
             db' = db \/ db' = tx, ciiCache' = ciiCache, out' = NoEnvelopes \/ out'.event = out.event,
             published' = published
      PROVE  SerialInv'
  <2>1. \A i \in 1 .. Len(out'.event) : out'.event[i].id <= serial'
    BY <1>1, EmptySeq DEF SerialInv, NoEnvelopes
  <2>2. SerialOf(tx)'
    BY <1>1 DEF SerialInv, SerialOf
  <2>3. SerialOf(db)'
    BY <1>1 DEF SerialInv, SerialOf
  <2>. QED  BY <1>1, <2>1, <2>2, <2>3 DEF SerialInv
<1>2. ASSUME NEW s \in Sessions, NEW lo \in Rows, NEW hi \in lo .. MaxRows, Deliver(s, lo, hi)
      PROVE  SerialInv'
  BY <1>1, <1>2 DEF Deliver, memory, history
<1>3. ASSUME Persist PROVE SerialInv'
  <2>1. /\ serial \in Nat /\ Len(todo) \in Nat /\ serial' = serial + Len(todo)
        /\ \A i \in 1 .. Len(todo) : Stored[i].id <= serial'
        /\ \A f \in Inserted : f.id <= serial'
        /\ Len(Stored) = Len(todo)
    <3>1. serial \in Nat /\ Len(todo) \in Nat /\ serial' = serial + Len(todo)
      BY <1>3, StoredFacts DEF Persist, TypeOK
    <3>. QED  BY <1>3, <3>1, StoredFacts DEF Persist, NoId
  <2>2. /\ \A e \in db.events : e.id \in Nat
        /\ \A s \in db.snaps : s.id \in Nat
        /\ \A a \in db.alerts : a.id \in Nat
        /\ \A k \in 1 .. Len(ciiCache) : ciiCache[k].id \in Nat
        /\ \A i \in 1 .. Len(published) : published[i] \in Nat
    BY EntryType DEF TypeOK, Tables, Events, Snapshots, Alerts
  <2>3. SerialOf(db)'
    BY <1>3, <2>1, <2>2 DEF SerialInv, SerialOf, Persist
  <2>4. SerialOf(tx)'
    BY <1>3, <2>1, <2>2, PersistEffect DEF SerialInv, SerialOf
  <2>5. UNCHANGED <<ciiCache, published>> /\ out'.event = Stored
    BY <1>3, PersistEffect DEF Persist, memory, history
  <2>. QED  BY <2>1, <2>2, <2>3, <2>4, <2>5 DEF SerialInv
<1>4. ASSUME NEW asset \in Assets, CiiNone(asset)
      PROVE  SerialInv'
  BY <1>1, <1>4 DEF CiiNone, CiiStep, history
<1>5. ASSUME NEW asset \in Assets, CiiReuse(asset)
      PROVE  SerialInv'
  <2>1. PICK n \in EntryOf(ciiCache, asset) : ciiCache' = Put(ciiCache, ciiCache[n])
    BY <1>5 DEF CiiReuse
  <2>2. n \in 1 .. Len(ciiCache) /\ ciiCache[n] \in Snapshots
    BY EntryType DEF EntryOf
  <2>3. ciiCache \in Seq(Snapshots) /\ Len(ciiCache) <= CacheMax
    BY DEF TypeOK
  <2>4. \A k \in 1 .. Len(ciiCache') : \E m \in 1 .. Len(ciiCache) : ciiCache'[k] = ciiCache[m]
    <3>1. DrawnFrom(Put(ciiCache, ciiCache[n]), ciiCache, ciiCache[n])
      BY <2>2, <2>3, PutFacts
    <3>. QED  BY <3>1, <2>1, <2>2 DEF DrawnFrom
  <2>5. UNCHANGED <<tx, db, serial, out, published>>
    BY <1>5 DEF CiiReuse, CiiStep, history
  <2>. QED  BY <2>4, <2>5 DEF SerialInv, SerialOf
<1>6. ASSUME NEW asset \in Assets, CiiCompute(asset)
      PROVE  SerialInv'
  <2>. DEFINE new == [asset |-> asset, id |-> serial + 1, at |-> now]
  <2>1. serial \in Nat /\ serial' = serial + 1 /\ new.id = serial + 1
    BY <1>6, ComputeEffect DEF TypeOK
  <2>2. /\ \A e \in db.events \cup tx.events : e.id \in Nat
        /\ \A s \in db.snaps \cup tx.snaps : s.id \in Nat
        /\ \A a \in db.alerts \cup tx.alerts : a.id \in Nat
        /\ \A k \in 1 .. Len(ciiCache) : ciiCache[k].id \in Nat
        /\ \A i \in 1 .. Len(published) : published[i] \in Nat
        /\ \A i \in 1 .. Len(out.event) : out.event[i].id \in Nat
    BY EntryType DEF TypeOK, Tables, Events, Snapshots, Alerts
  <2>3. UNCHANGED <<db, out, published>>
    BY <1>6 DEF CiiCompute, CiiStep, history
  <2>4. SerialOf(db)'
    BY <2>1, <2>2, <2>3 DEF SerialInv, SerialOf
  <2>5. SerialOf(tx)'
    <3>1. /\ tx'.events = tx.events /\ tx'.alerts = tx.alerts
          /\ tx'.snaps = tx.snaps \cup {[id |-> serial + 1, asset |-> asset, at |-> now]}
      BY <1>6, ComputeEffect
    <3>2. \A s \in tx'.snaps : s \in tx.snaps \/ s.id = serial + 1
      BY <3>1
    <3>. QED  BY <3>1, <3>2, <2>1, <2>2 DEF SerialInv, SerialOf
  <2>6. new \in Snapshots
    BY <1>6, <2>1 DEF CiiCompute, Snapshots, TypeOK
  <2>7. \A k \in 1 .. Len(ciiCache') :
            \/ ciiCache'[k] = new
            \/ \E m \in 1 .. Len(ciiCache) : ciiCache'[k] = ciiCache[m]
    <3>1. ciiCache' = Put(ciiCache, new)
      BY <1>6, ComputeEffect
    <3>2. ciiCache \in Seq(Snapshots) /\ Len(ciiCache) <= CacheMax
      BY DEF TypeOK
    <3>. HIDE DEF new
    <3>3. DrawnFrom(Put(ciiCache, new), ciiCache, new)
      BY <3>2, <2>6, PutFacts
    <3>. QED  BY <3>1, <3>3 DEF DrawnFrom
  <2>8. \A k \in 1 .. Len(ciiCache') : 0 < ciiCache'[k].id /\ ciiCache'[k].id <= serial'
    <3>. HIDE DEF new
    <3>. QED  BY <2>1, <2>2, <2>7 DEF SerialInv
  <2>. QED  BY <2>1, <2>2, <2>3, <2>4, <2>5, <2>8 DEF SerialInv
<1>7. ASSUME NEW flow \in Flows, Suppress(flow) PROVE SerialInv'
  BY <1>1, <1>7, SuppressEffect DEF Suppress, Examination
<1>8. ASSUME NEW flow \in Flows, RaiseAlert(flow) PROVE SerialInv'
  <2>1. serial \in Nat /\ serial' = serial + 1 /\ NewAlert(flow).id = serial + 1
    BY <1>8, RaiseEffect DEF TypeOK, NewAlert
  <2>2. /\ \A e \in db.events \cup tx.events : e.id \in Nat
        /\ \A s \in db.snaps \cup tx.snaps : s.id \in Nat
        /\ \A a \in db.alerts \cup tx.alerts : a.id \in Nat
        /\ \A k \in 1 .. Len(ciiCache) : ciiCache[k].id \in Nat
        /\ \A i \in 1 .. Len(published) : published[i] \in Nat
        /\ \A i \in 1 .. Len(out.event) : out.event[i].id \in Nat
    BY EntryType DEF TypeOK, Tables, Events, Snapshots, Alerts
  <2>3. UNCHANGED <<db, ciiCache, published>> /\ out'.event = out.event
    BY <1>8, RaiseEffect DEF RaiseAlert, Examination
  <2>4. SerialOf(db)'
    BY <2>1, <2>2, <2>3 DEF SerialInv, SerialOf
  <2>5. SerialOf(tx)'
    BY <1>8, <2>1, <2>2, RaiseEffect DEF SerialInv, SerialOf
  <2>. QED  BY <2>1, <2>2, <2>3, <2>4, <2>5 DEF SerialInv
<1>9. ASSUME NEW flow \in Flows, AlertOrphaned(flow) PROVE SerialInv'
  BY <1>1, <1>9 DEF AlertOrphaned, Abandon
<1>10. ASSUME NEW old \in SUBSET tx.events, Prune(old) PROVE SerialInv'
  BY <1>1, <1>10, PruneEffect DEF Prune, memory, history
<1>11. ASSUME Commit \/ Absorb \/ Skip \/ Tick \/ UNCHANGED vars PROVE SerialInv'
  BY <1>1, <1>11 DEF Commit, Absorb, Skip, Tick, vars, batchVars, memory, history
<1>12. ASSUME DatabaseFails PROVE SerialInv'
  BY <1>1, <1>12 DEF DatabaseFails, Abandon, memory
<1>13. ASSUME SkipKnown \/ Publish \/ PublishFails PROVE SerialInv'
  <2>1. /\ UNCHANGED <<tx, db, serial, ciiCache>>
        /\ \/ out'.event = Tail(out.event) /\ out.event # <<>>
           \/ out'.event = out.event
        /\ \/ published' = published
           \/ published' = Append(published, Head(out.event).id) /\ out.event # <<>>
    <3>1. CASE SkipKnown
      BY <3>1 DEF SkipKnown, NotNew, TypeOK, memory, history
    <3>2. CASE Publish \/ PublishFails
      BY <3>2, PublishEffect DEF Publish, PublishFails
    <3>. QED  BY <1>13, <3>1, <3>2
  <2>2. out.event \in Seq(Events) /\ published \in Seq(Nat)
    BY DEF TypeOK
  <2>3. out.event # <<>> => /\ Head(out.event) = out.event[1] /\ 1 \in 1 .. Len(out.event)
                            /\ Len(Tail(out.event)) = Len(out.event) - 1
                            /\ \A i \in 1 .. Len(Tail(out.event)) :
                                  Tail(out.event)[i] = out.event[i + 1]
    BY <2>2, HeadTailProperties, LenProperties, EmptySeq
  <2>4. \A i \in 1 .. Len(out'.event) : out'.event[i].id <= serial'
    <3>1. CASE out'.event = out.event
      BY <2>1, <3>1 DEF SerialInv
    <3>2. CASE out'.event = Tail(out.event) /\ out.event # <<>>
      <4>1. \A i \in 1 .. Len(Tail(out.event)) : i + 1 \in 1 .. Len(out.event)
        BY <2>2, <2>3, <3>2, LenProperties
      <4>. QED  BY <2>1, <2>3, <3>2, <4>1 DEF SerialInv
    <3>. QED  BY <2>1, <3>1, <3>2
  <2>5. \A i \in 1 .. Len(published') : published'[i] <= serial'
    <3>1. CASE published' = published
      BY <2>1, <3>1 DEF SerialInv
    <3>2. CASE published' = Append(published, Head(out.event).id) /\ out.event # <<>>
      <4>1. Head(out.event).id <= serial
        BY <2>3, <3>2 DEF SerialInv
      <4>2. /\ Len(published') = Len(published) + 1 /\ Len(published) \in Nat
            /\ \A i \in 1 .. Len(published) : published'[i] = published[i]
            /\ published'[Len(published) + 1] = Head(out.event).id
        BY <3>2, <2>2, AppendProperties, LenProperties
      <4>3. \A i \in 1 .. Len(published') : i \in 1 .. Len(published) \/ i = Len(published) + 1
        BY <4>2
      <4>. QED  BY <2>1, <4>1, <4>2, <4>3 DEF SerialInv
    <3>. QED  BY <2>1, <3>1, <3>2
  <2>. QED  BY <2>1, <2>4, <2>5 DEF SerialInv, SerialOf
<1>. QED
  BY <1>2, <1>3, <1>4, <1>5, <1>6, <1>7, <1>8, <1>9, <1>10, <1>11, <1>12, <1>13
  DEF Next, Examine


\* No snapshot, alert or event is counted twice or forgotten, whether it is inserted,
\* rolled back or pruned.
LEMMA CountStep ==
    ASSUME TypeOK, ControlInv, SerialInv, CountInv, [Next]_vars
    PROVE  CountInv'
<1>. USE DEF CountsFor
<1>0. /\ stats \in Statistics /\ batch \in Statistics
      /\ IsFiniteSet(tx.events) /\ IsFiniteSet(tx.snaps) /\ IsFiniteSet(tx.alerts)
      /\ Cardinality(tx.events) \in Nat /\ Cardinality(tx.snaps) \in Nat
      /\ Cardinality(tx.alerts) \in Nat
  BY FS_CardinalityType DEF TypeOK, CountInv
<1>1. ASSUME UNCHANGED <<tx, db, stats, batch>>, pc' = "publish" \/ pc # "publish"
      PROVE  CountInv'
  BY <1>1 DEF CountInv
<1>2. ASSUME tx' = db, batch' = NoStats, UNCHANGED <<db, stats>>, pc # "publish"
      PROVE  CountInv'
  BY <1>2 DEF CountInv
<1>3. ASSUME NEW s \in Sessions, NEW lo \in Rows, NEW hi \in lo .. MaxRows, Deliver(s, lo, hi)
      PROVE  CountInv'
  BY <1>1, <1>3 DEF Deliver
<1>4. ASSUME Persist PROVE CountInv'
  <2>1. CountsFor(db, NoStats) /\ UNCHANGED <<db, stats>>
    BY <1>4 DEF CountInv, Persist
  <2>2. db.events \cap Inserted = {}
    <3>1. serial \in Nat /\ \A e \in db.events : e.id \in Nat /\ e.id <= serial
      BY DEF TypeOK, Tables, Events, SerialInv, SerialOf
    <3>2. \A f \in Inserted : f.id > serial
      BY StoredFacts
    <3>. QED  BY <3>1, <3>2
  <2>3. /\ IsFiniteSet(db.events \cup Inserted)
        /\ Cardinality(db.events \cup Inserted)
              = Cardinality(db.events) + Cardinality(Inserted)
    <3>1. IsFiniteSet(Inserted) /\ Cardinality(Inserted) \in Nat
      BY StoredFacts
    <3>2. Cardinality(db.events) \in Nat
      BY <2>1, FS_CardinalityType
    <3>3. Cardinality({}) = 0
      BY FS_EmptySet
    <3>4. /\ IsFiniteSet(db.events \cup Inserted)
          /\ Cardinality(db.events \cup Inserted)
                = Cardinality(db.events) + Cardinality(Inserted) - Cardinality({})
      BY <2>1, <2>2, <3>1, FS_Union
    <3>. QED  BY <3>1, <3>2, <3>3, <3>4
  <2>4. /\ Len(todo) \in Nat /\ Cardinality(Inserted) \in Nat
        /\ Cardinality(db.events) \in Nat /\ stats \in Statistics
    BY <2>1, StoredFacts, FS_CardinalityType DEF TypeOK
  <2>5. /\ stats.received \in Nat /\ stats.inserted \in Nat /\ stats.deduplicated \in Nat
        /\ stats.pruned \in Nat /\ stats.computed \in Nat /\ stats.alerts \in Nat
    BY <2>4, Counters
  <2>6. /\ tx'.events = db.events \cup Inserted /\ tx'.snaps = db.snaps
        /\ tx'.alerts = db.alerts
        /\ batch'.received = Len(todo) /\ batch'.inserted = Cardinality(Inserted)
        /\ batch'.deduplicated = Len(todo) - Cardinality(Inserted)
        /\ batch'.pruned = 0 /\ batch'.computed = 0 /\ batch'.alerts = 0
    BY <1>4, PersistEffect
  <2>7. /\ Cardinality(db.events) + stats.pruned = stats.inserted
        /\ Cardinality(db.snaps) = stats.computed /\ Cardinality(db.alerts) = stats.alerts
        /\ stats.received = stats.inserted + stats.deduplicated
        /\ IsFiniteSet(db.snaps) /\ IsFiniteSet(db.alerts)
    BY <2>1, <2>4, <2>5 DEF NoStats
  <2>8. CountsFor(tx, batch)'
    <3>1. stats' = stats
      BY <2>1
    <3>2. IsFiniteSet(tx'.events) /\ IsFiniteSet(tx'.snaps) /\ IsFiniteSet(tx'.alerts)
      BY <2>3, <2>6, <2>7
    <3>3. Cardinality(tx'.events) + stats.pruned + batch'.pruned
             = stats.inserted + batch'.inserted
      <4>1. Cardinality(tx'.events) = Cardinality(db.events) + Cardinality(Inserted)
        BY <2>3, <2>6
      <4>. QED  BY <4>1, <2>4, <2>5, <2>6, <2>7
    <3>4. /\ Cardinality(tx'.snaps) = stats.computed + batch'.computed
          /\ Cardinality(tx'.alerts) = stats.alerts + batch'.alerts
      BY <2>5, <2>6, <2>7
    <3>5. stats.received + batch'.received
             = stats.inserted + batch'.inserted + stats.deduplicated + batch'.deduplicated
      BY <2>4, <2>5, <2>6, <2>7
    <3>. QED  BY <3>1, <3>2, <3>3, <3>4, <3>5
  <2>. QED  BY <2>1, <2>8 DEF CountInv
<1>5. ASSUME NEW asset \in Assets, CiiNone(asset) \/ CiiReuse(asset)
      PROVE  CountInv'
  BY <1>1, <1>5 DEF CiiNone, CiiReuse, CiiStep
<1>6. ASSUME NEW asset \in Assets, CiiCompute(asset)
      PROVE  CountInv'
  <2>. DEFINE new == [id |-> serial + 1, asset |-> asset, at |-> now]
  <2>1. new \notin tx.snaps
    <3>1. \A s \in tx.snaps : s.id \in Nat /\ s.id <= serial
      BY DEF TypeOK, Tables, Snapshots, SerialInv, SerialOf
    <3>2. serial \in Nat /\ new.id = serial + 1
      BY DEF TypeOK
    <3>. HIDE DEF new
    <3>. QED  BY <3>1, <3>2
  <2>2. /\ tx'.snaps = tx.snaps \cup {new}
        /\ tx'.events = tx.events /\ tx'.alerts = tx.alerts
        /\ batch'.computed = batch.computed + 1
        /\ batch'.received = batch.received /\ batch'.inserted = batch.inserted
        /\ batch'.deduplicated = batch.deduplicated /\ batch'.pruned = batch.pruned
        /\ batch'.alerts = batch.alerts
    BY <1>6, ComputeEffect
  <2>. HIDE DEF new
  <2>3. /\ IsFiniteSet(tx.snaps \cup {new})
        /\ Cardinality(tx.snaps \cup {new}) = Cardinality(tx.snaps) + 1
    BY <1>0, <2>1, FS_AddElement
  <2>4. batch.computed \in Nat /\ stats.computed \in Nat
    BY <1>0, Counters
  <2>5. UNCHANGED <<db, stats>> /\ pc # "publish"
    BY <1>6 DEF CiiCompute, CiiStep
  <2>6. CountsFor(tx, batch)'
    BY <1>0, <2>2, <2>3, <2>4, <2>5 DEF CountInv
  <2>. QED  BY <2>5, <2>6 DEF CountInv
<1>7. ASSUME NEW flow \in Flows, Suppress(flow) PROVE CountInv'
  BY <1>7, SuppressEffect DEF CountInv, Suppress, Examination
<1>8. ASSUME NEW flow \in Flows, RaiseAlert(flow) PROVE CountInv'
  <2>1. NewAlert(flow) \notin tx.alerts
    <3>1. \A a \in tx.alerts : a.id \in Nat /\ a.id <= serial
      BY DEF TypeOK, Tables, Alerts, SerialInv, SerialOf
    <3>2. serial \in Nat /\ NewAlert(flow).id = serial + 1
      BY DEF TypeOK, NewAlert
    <3>. QED  BY <3>1, <3>2
  <2>2. /\ tx'.alerts = tx.alerts \cup {NewAlert(flow)}
        /\ tx'.events = tx.events /\ tx'.snaps = tx.snaps
        /\ batch'.received = batch.received /\ batch'.inserted = batch.inserted
        /\ batch'.deduplicated = batch.deduplicated /\ batch'.pruned = batch.pruned
        /\ batch'.alerts = batch.alerts + 1 /\ batch'.computed = batch.computed
    BY <1>8, RaiseEffect
  <2>3. /\ IsFiniteSet(tx.alerts \cup {NewAlert(flow)})
        /\ Cardinality(tx.alerts \cup {NewAlert(flow)}) = Cardinality(tx.alerts) + 1
    BY <1>0, <2>1, FS_AddElement
  <2>4. batch.alerts \in Nat /\ stats.alerts \in Nat
    BY <1>0, Counters
  <2>5. UNCHANGED <<db, stats>> /\ pc # "publish"
    BY <1>8 DEF RaiseAlert, Examination
  <2>6. CountsFor(tx, batch)'
    BY <1>0, <2>2, <2>3, <2>4, <2>5 DEF CountInv
  <2>. QED  BY <2>5, <2>6 DEF CountInv
<1>9. ASSUME NEW flow \in Flows, AlertOrphaned(flow) PROVE CountInv'
  BY <1>2, <1>9 DEF AlertOrphaned, Abandon
<1>10. ASSUME DatabaseFails PROVE CountInv'
  BY <1>2, <1>10 DEF DatabaseFails, Abandon
<1>11. ASSUME NEW old \in SUBSET tx.events, Prune(old) PROVE CountInv'
  <2>1. /\ tx'.events = tx.events \ old /\ tx'.snaps = tx.snaps
        /\ tx'.alerts = tx.alerts
        /\ batch'.pruned = Cardinality(old)
        /\ batch'.received = batch.received /\ batch'.inserted = batch.inserted
        /\ batch'.deduplicated = batch.deduplicated
        /\ batch'.alerts = batch.alerts /\ batch'.computed = batch.computed
    BY <1>11, PruneEffect
  <2>2. batch.pruned = 0 /\ UNCHANGED <<db, stats>> /\ pc # "publish"
    BY <1>11 DEF Prune, ControlInv
  <2>3. /\ IsFiniteSet(tx.events \ old)
        /\ Cardinality(tx.events \ old) = Cardinality(tx.events) - Cardinality(old)
        /\ Cardinality(old) \in Nat
    <3>1. tx.events \cap old = old
      OBVIOUS
    <3>2. IsFiniteSet(old) /\ Cardinality(old) \in Nat
      BY <1>0, FS_Subset, FS_CardinalityType
    <3>3. /\ IsFiniteSet(tx.events \ old)
          /\ Cardinality(tx.events \ old)
                = Cardinality(tx.events) - Cardinality(tx.events \cap old)
      BY <1>0, FS_Difference
    <3>. QED  BY <3>1, <3>2, <3>3
  <2>4. stats.pruned \in Nat /\ stats.inserted \in Nat /\ batch.inserted \in Nat
    BY <1>0, Counters
  <2>5. CountsFor(tx, batch)'
    BY <1>0, <2>1, <2>2, <2>3, <2>4 DEF CountInv
  <2>. QED  BY <2>2, <2>5 DEF CountInv
<1>12. ASSUME Commit \/ Skip \/ Tick \/ SkipKnown \/ UNCHANGED vars PROVE CountInv'
  BY <1>1, <1>12
  DEF CountInv, ControlInv, Commit, Skip, Tick, SkipKnown, vars, batchVars
<1>13. ASSUME Publish \/ PublishFails PROVE CountInv'
  BY <1>13, PublishEffect DEF CountInv
<1>14. ASSUME Absorb PROVE CountInv'
  <2>1. tx = db /\ UNCHANGED <<tx, db>>
    BY <1>14 DEF ControlInv, Absorb
  <2>2. /\ stats'.received = stats.received + batch.received
        /\ stats'.inserted = stats.inserted + batch.inserted
        /\ stats'.deduplicated = stats.deduplicated + batch.deduplicated
        /\ stats'.pruned = stats.pruned + batch.pruned
        /\ stats'.alerts = stats.alerts + batch.alerts
        /\ stats'.computed = stats.computed + batch.computed
        /\ batch' = NoStats
    BY <1>14, AbsorbEffect
  <2>3. /\ stats.received \in Nat /\ stats.inserted \in Nat /\ stats.deduplicated \in Nat
        /\ stats.pruned \in Nat /\ stats.alerts \in Nat /\ stats.computed \in Nat
        /\ batch.received \in Nat /\ batch.inserted \in Nat /\ batch.deduplicated \in Nat
        /\ batch.pruned \in Nat /\ batch.alerts \in Nat /\ batch.computed \in Nat
    BY <1>0, Counters
  <2>. QED  BY <1>0, <2>1, <2>2, <2>3 DEF CountInv, NoStats
<1>. QED
  BY <1>3, <1>4, <1>5, <1>6, <1>7, <1>8, <1>9, <1>10, <1>11, <1>12, <1>13, <1>14
  DEF Next, Examine


-----------------------------------------------------------------------------
(* Snapshots, the cache and the alerts that link them *)

LEMMA SnapStep ==
    ASSUME TypeOK, ControlInv, SerialInv, SnapInv, OnePerAsset(ciiCache'), [Next]_vars
    PROVE  SnapInv'
<1>1. ASSUME ciiCache' = ciiCache, pc' # "decide",
             \/ tx'.snaps = tx.snaps /\ tx'.alerts = tx.alerts
             \/ tx'.snaps = db.snaps /\ tx'.alerts = db.alerts,
             \/ db'.snaps = db.snaps /\ db'.alerts = db.alerts
             \/ db'.snaps = tx.snaps /\ db'.alerts = tx.alerts
      PROVE  SnapInv'
  <2>1. db.snaps \subseteq tx.snaps
    BY DEF ControlInv
  <2>2. ShowsBlastRadius(tx)' /\ ShowsBlastRadius(db)'
    BY <1>1 DEF SnapInv, ShowsBlastRadius
  <2>. QED  BY <1>1, <2>1, <2>2 DEF SnapInv
<1>2. ASSUME NEW s \in Sessions, NEW lo \in Rows, NEW hi \in lo .. MaxRows, Deliver(s, lo, hi)
      PROVE  SnapInv'
  BY <1>1, <1>2 DEF Deliver, memory
<1>3. ASSUME Persist PROVE SnapInv'
  BY <1>1, <1>3, PersistEffect DEF Persist, memory
<1>4. ASSUME NEW asset \in Assets, CiiNone(asset) PROVE SnapInv'
  <2>1. /\ UNCHANGED <<tx, db, ciiCache, todo, now, content>> /\ snap' = NoId
        /\ asset = FlowOf(Head(todo)).asset /\ asset \notin GraphAssets
    BY <1>4 DEF CiiNone, CiiStep
  <2>2. Linked(FlowOf(Head(todo)).asset)'
    BY <2>1 DEF Linked, FlowOf
  <2>. QED  BY <2>1, <2>2 DEF SnapInv, ShowsBlastRadius
<1>5. ASSUME NEW asset \in Assets, CiiReuse(asset) PROVE SnapInv'
  <2>1. PICK n \in EntryOf(ciiCache, asset) :
            snap' = ciiCache[n].id /\ ciiCache' = Put(ciiCache, ciiCache[n])
    BY <1>5 DEF CiiReuse
  <2>2. /\ n \in 1 .. Len(ciiCache) /\ ciiCache[n] \in Snapshots /\ ciiCache[n].asset = asset
        /\ ciiCache \in Seq(Snapshots) /\ Len(ciiCache) <= CacheMax
    BY EntryType DEF EntryOf, TypeOK
  <2>3. /\ UNCHANGED <<tx, db, todo, now, content>>
        /\ asset = FlowOf(Head(todo)).asset /\ asset \in GraphAssets
    BY <1>5 DEF CiiReuse, CiiStep
  <2>4. now - ciiCache[n].at < CiiDebounce
    <3>1. PICK i \in EntryOf(ciiCache, asset) : now - ciiCache[i].at < CiiDebounce
      BY <1>5 DEF CiiReuse, Fresh
    <3>2. i = n
      BY <2>2, <3>1 DEF EntryOf, SnapInv, OnePerAsset
    <3>. QED  BY <3>1, <3>2
  <2>5. Linked(FlowOf(Head(todo)).asset)'
    <3>1. 0 < ciiCache[n].id
      BY <2>2 DEF SerialInv
    <3>2. snap' # NoId
      BY <2>1, <3>1 DEF NoId
    <3>3. \A s \in tx.snaps : s.id = snap' => s.asset = asset /\ now - s.at < CiiDebounce
      BY <2>1, <2>2, <2>4 DEF SnapInv
    <3>. QED  BY <2>3, <3>2, <3>3 DEF Linked, FlowOf
  <2>6. \A k \in 1 .. Len(ciiCache'), s \in tx'.snaps : s.id = ciiCache'[k].id => s = ciiCache'[k]
    <3>1. DrawnFrom(Put(ciiCache, ciiCache[n]), ciiCache, ciiCache[n])
      BY <2>2, PutFacts DEF SnapInv
    <3>2. \A k \in 1 .. Len(ciiCache') : \E m \in 1 .. Len(ciiCache) : ciiCache'[k] = ciiCache[m]
      BY <3>1, <2>1, <2>2 DEF DrawnFrom
    <3>. QED  BY <3>2, <2>3 DEF SnapInv
  <2>. QED  BY <2>3, <2>5, <2>6 DEF SnapInv, ShowsBlastRadius
<1>6. ASSUME NEW asset \in Assets, CiiCompute(asset) PROVE SnapInv'
  <2>. DEFINE new == [asset |-> asset, id |-> serial + 1, at |-> now]
  <2>1. /\ tx'.snaps = tx.snaps \cup {new} /\ tx'.alerts = tx.alerts
        /\ snap' = serial + 1 /\ ciiCache' = Put(ciiCache, new)
    BY <1>6, ComputeEffect
  <2>2. /\ UNCHANGED <<db, todo, now, content>>
        /\ asset = FlowOf(Head(todo)).asset /\ asset \in GraphAssets
    BY <1>6 DEF CiiCompute, CiiStep
  <2>3. serial \in Nat /\ new.id = serial + 1 /\ new.asset = asset /\ new.at = now
    BY DEF TypeOK
  <2>4. new \in Snapshots
    BY <2>2, <2>3 DEF Snapshots, TypeOK
  <2>. HIDE DEF new
  <2>5. \A s \in tx.snaps : s.id \in Nat /\ s.id <= serial
    BY DEF TypeOK, Tables, Snapshots, SerialInv, SerialOf
  <2>6. Linked(FlowOf(Head(todo)).asset)'
    <3>1. snap' # NoId
      BY <2>1, <2>3 DEF NoId
    <3>2. \A s \in tx'.snaps : s.id = snap' => s = new
      BY <2>1, <2>3, <2>5
    <3>. QED  BY <2>2, <2>3, <3>1, <3>2 DEF Linked, FlowOf
  <2>7. \A k \in 1 .. Len(ciiCache'), s \in tx'.snaps : s.id = ciiCache'[k].id => s = ciiCache'[k]
    <3>1. DrawnFrom(Put(ciiCache, new), ciiCache, new)
      BY <2>4, PutFacts DEF SnapInv, TypeOK
    <3>2. ASSUME NEW k \in 1 .. Len(ciiCache'), NEW s \in tx'.snaps, s.id = ciiCache'[k].id
          PROVE  s = ciiCache'[k]
      <4>1. CASE ciiCache'[k] = new
        BY <3>2, <4>1, <2>1, <2>3, <2>5
      <4>2. CASE \E m \in 1 .. Len(ciiCache) : ciiCache'[k] = ciiCache[m]
        <5>1. PICK m \in 1 .. Len(ciiCache) : ciiCache'[k] = ciiCache[m]
          BY <4>2
        <5>2. ciiCache[m].id <= serial /\ ciiCache[m].id \in Nat
          BY EntryType DEF SerialInv, Snapshots
        <5>3. s # new
          BY <3>2, <5>1, <5>2, <2>3
        <5>. QED  BY <3>2, <5>1, <5>3, <2>1 DEF SnapInv
      <4>. QED  BY <4>1, <4>2, <3>1, <2>1 DEF DrawnFrom
    <3>. QED  BY <3>2
  <2>8. ShowsBlastRadius(tx)'
    BY <2>1 DEF SnapInv, ShowsBlastRadius
  <2>9. ShowsBlastRadius(db)'
    BY <2>2 DEF SnapInv, ShowsBlastRadius
  <2>. QED  BY <2>6, <2>7, <2>8, <2>9 DEF SnapInv
<1>7. ASSUME NEW flow \in Flows, Suppress(flow) PROVE SnapInv'
  BY <1>1, <1>7, SuppressEffect DEF Suppress, Examination
<1>8. ASSUME NEW flow \in Flows, RaiseAlert(flow) PROVE SnapInv'
  <2>1. /\ tx'.alerts = tx.alerts \cup {NewAlert(flow)} /\ tx'.snaps = tx.snaps
        /\ UNCHANGED <<db, ciiCache>> /\ pc' # "decide"
    BY <1>8, RaiseEffect DEF RaiseAlert, Examination
  <2>2. /\ flow = FlowOf(Head(todo)) /\ pc = "decide" /\ SnapshotExists
    BY <1>8 DEF RaiseAlert, Examination
  <2>3. Linked(flow.asset)
    BY <2>2 DEF SnapInv
  <2>4. /\ NewAlert(flow).asset = flow.asset /\ NewAlert(flow).at = now
        /\ NewAlert(flow).snap = snap
    BY DEF NewAlert
  <2>5. ASSUME flow.asset \in GraphAssets
        PROVE  \E s \in tx.snaps :
                  /\ s.id = snap /\ s.asset = flow.asset
                  /\ now - s.at < CiiDebounce \/ now = s.at
    BY <2>2, <2>3, <2>5 DEF Linked, SnapshotExists
  <2>6. flow.asset \notin GraphAssets => snap = NoId
    BY <2>3 DEF Linked
  <2>7. ShowsBlastRadius(tx)'
    BY <2>1, <2>4, <2>5, <2>6 DEF SnapInv, ShowsBlastRadius
  <2>. QED  BY <2>1, <2>7 DEF SnapInv, ShowsBlastRadius
<1>9. ASSUME NEW flow \in Flows, AlertOrphaned(flow) PROVE SnapInv'
  BY <1>1, <1>9 DEF AlertOrphaned, Abandon
<1>10. ASSUME DatabaseFails PROVE SnapInv'
  BY <1>1, <1>10 DEF DatabaseFails, Abandon, memory
<1>11. ASSUME NEW old \in SUBSET tx.events, Prune(old) PROVE SnapInv'
  BY <1>1, <1>11, PruneEffect DEF Prune, memory
<1>12. ASSUME Commit \/ Absorb \/ Skip \/ Tick \/ SkipKnown PROVE SnapInv'
  BY <1>1, <1>12 DEF Commit, Absorb, Skip, Tick, SkipKnown, memory
<1>13. ASSUME Publish \/ PublishFails PROVE SnapInv'
  BY <1>1, <1>13, PublishEffect
<1>14. ASSUME UNCHANGED vars PROVE SnapInv'
  BY <1>14 DEF SnapInv, Linked, FlowOf, ShowsBlastRadius, vars, memory, batchVars
<1>. QED
  BY <1>2, <1>3, <1>4, <1>5, <1>6, <1>7, <1>8, <1>9, <1>10, <1>11, <1>12, <1>13, <1>14
  DEF Next, Examine


-----------------------------------------------------------------------------
(* The debounce of the alerts *)

LEMMA TouchEffect ==
    ASSUME TypeOK, NEW flow \in Flows, Touch(flow)
    PROVE  \/ AlertDebounce = 0 /\ UNCHANGED <<lastAlert, touches>>
           \/ /\ AlertDebounce > 0
              /\ lastAlert' = Put(lastAlert, [asset |-> flow.asset, at |-> now])
              /\ Len(touches') = Len(touches) + 1
              /\ \A i \in 1 .. Len(touches) : touches'[i] = touches[i]
              /\ touches'[Len(touches) + 1] = [asset |-> flow.asset, at |-> now, call |-> calls]
<1>1. CASE AlertDebounce = 0
  BY <1>1 DEF Touch
<1>2. CASE AlertDebounce # 0
  <2>. DEFINE touch == [asset |-> flow.asset, at |-> now, call |-> calls]
  <2>1. touch \in [asset : Assets, at : Nat, call : Nat]
    BY PipelineAssumption DEF TypeOK, Flows
  <2>2. /\ lastAlert' = Put(lastAlert, [asset |-> flow.asset, at |-> now])
        /\ touches' = Append(touches, touch)
    BY <1>2 DEF Touch
  <2>3. AlertDebounce > 0
    BY <1>2, PipelineAssumption
  <2>. HIDE DEF touch
  <2>4. /\ Len(touches') = Len(touches) + 1 /\ touches'[Len(touches) + 1] = touch
        /\ \A i \in 1 .. Len(touches) : touches'[i] = touches[i]
    BY <2>1, <2>2, AppendProperties DEF TypeOK
  <2>. QED  BY <2>2, <2>3, <2>4 DEF touch
<1>. QED  BY <1>1, <1>2

\* A step either leaves the touches and their map alone, or touches one asset.
LEMMA TouchSteps ==
    ASSUME TypeOK, [Next]_vars
    PROVE  \/ UNCHANGED <<lastAlert, touches>>
           \/ \E flow \in Flows :
                 Touch(flow) /\ (RaiseAlert(flow) \/ AlertOrphaned(flow))
BY DEF Next, Examine, Deliver, Persist, CiiNone, CiiReuse, CiiCompute, CiiStep, Suppress,
       Examination, RaiseAlert, AlertOrphaned, Prune, Commit, DatabaseFails, SkipKnown, Publish,
       PublishFails, TakeEnvelope, Absorb, Skip, Tick, vars, memory, history

LEMMA LruStep ==
    ASSUME TypeOK, TouchInv, LruInv, NEW flow \in Flows, Touch(flow)
    PROVE  LruInv'
<1>. DEFINE entry == [asset |-> flow.asset, at |-> now]
            n == Len(touches)
<1>1. CASE UNCHANGED <<lastAlert, touches>>
  <2>1. OnePerAsset(lastAlert)' /\ HoldsLastTouch'
    BY <1>1 DEF LruInv, OnePerAsset, HoldsLastTouch
  <2>2. InOrderOfTouches'
    BY <1>1 DEF LruInv, InOrderOfTouches
  <2>3. EvictedByLater'
    BY <1>1 DEF LruInv, EvictedByLater, EntryOf
  <2>. QED  BY <2>1, <2>2, <2>3 DEF LruInv
<1>2. CASE /\ AlertDebounce > 0
           /\ lastAlert' = Put(lastAlert, entry)
           /\ Len(touches') = Len(touches) + 1
           /\ \A i \in 1 .. Len(touches) : touches'[i] = touches[i]
           /\ touches'[Len(touches) + 1] = [asset |-> flow.asset, at |-> now, call |-> calls]
  <2>1. entry \in Touches /\ entry.asset = flow.asset /\ entry.at = now
    BY PipelineAssumption DEF TypeOK, Touches, Flows
  <2>. HIDE DEF entry
  <2>2. /\ lastAlert' \in Seq(Touches) /\ Len(lastAlert') \in 1 .. CacheMax
        /\ lastAlert'[Len(lastAlert')] = entry
        /\ OnePerAsset(lastAlert') /\ Len(lastAlert) <= Len(lastAlert')
        /\ KeepsOrder(lastAlert', lastAlert, flow.asset)
    <3>1. lastAlert \in Seq(Touches) /\ Len(lastAlert) <= CacheMax /\ OnePerAsset(lastAlert)
      BY DEF TypeOK, LruInv
    <3>2. /\ Put(lastAlert, entry) \in Seq(Touches)
          /\ Len(Put(lastAlert, entry)) \in 1 .. CacheMax
          /\ Put(lastAlert, entry)[Len(Put(lastAlert, entry))] = entry
          /\ OnePerAsset(Put(lastAlert, entry))
          /\ Len(lastAlert) <= Len(Put(lastAlert, entry))
          /\ KeepsOrder(Put(lastAlert, entry), lastAlert, entry.asset)
      BY <2>1, <3>1, PutFacts
    <3>3. lastAlert' = Put(lastAlert, entry)
      BY <1>2
    <3>. QED  BY <2>1, <3>2, <3>3
  <2>. DEFINE last == Len(lastAlert')
  <2>3. PICK q \in [1 .. last - 1 -> 1 .. Len(lastAlert)] :
            /\ \A i \in 1 .. last - 1 :
                  lastAlert'[i] = lastAlert[q[i]] /\ lastAlert'[i].asset # flow.asset
            /\ \A i, j \in 1 .. last - 1 : i < j => q[i] < q[j]
            /\ \A m \in 1 .. Len(lastAlert) :
                  \/ lastAlert[m].asset = flow.asset
                  \/ \E i \in 1 .. last - 1 : q[i] = m
                  \/ last = CacheMax /\ \A i \in 1 .. last - 1 : m < q[i]
    BY <2>2 DEF KeepsOrder
  <2>4. /\ n \in Nat /\ last \in Nat /\ last >= 1 /\ CacheMax \in Nat /\ now \in Nat
        /\ lastAlert'[last].asset = flow.asset /\ lastAlert'[last].at = now
        /\ touches'[n + 1].asset = flow.asset /\ touches'[n + 1].at = now
        /\ Len(touches') = n + 1
        /\ \A i \in 1 .. n + 1 : i \in 1 .. n \/ i = n + 1
        /\ \A k \in 1 .. last : k \in 1 .. last - 1 \/ k = last
        /\ \A i \in 1 .. n : touches'[i] = touches[i] /\ i \in 1 .. n + 1
    <3>1. n \in Nat /\ now \in Nat
      BY EntryType DEF TypeOK
    <3>2. CacheMax \in Nat
      BY PipelineAssumption
    <3>3. last \in Nat /\ last >= 1
      BY <2>2, <3>2
    <3>4. /\ \A i \in 1 .. n + 1 : i \in 1 .. n \/ i = n + 1
          /\ \A k \in 1 .. last : k \in 1 .. last - 1 \/ k = last
          /\ \A i \in 1 .. n : i \in 1 .. n + 1
      BY <3>1, <3>3
    <3>5. lastAlert'[last].asset = flow.asset /\ lastAlert'[last].at = now
      BY <2>1, <2>2
    <3>6. /\ touches'[n + 1].asset = flow.asset /\ touches'[n + 1].at = now
          /\ Len(touches') = n + 1
          /\ \A i \in 1 .. n : touches'[i] = touches[i]
      BY <1>2
    <3>. QED  BY <3>1, <3>2, <3>3, <3>4, <3>5, <3>6
  <2>5. ASSUME NEW k \in 1 .. last
        PROVE  /\ \E i \in 1 .. n + 1 :
                     touches'[i].asset = lastAlert'[k].asset /\ touches'[i].at = lastAlert'[k].at
               /\ \A i \in 1 .. n + 1 : touches'[i].asset = lastAlert'[k].asset
                                           => touches'[i].at <= lastAlert'[k].at
    <3>1. CASE k = last
      <4>1. n + 1 \in 1 .. n + 1
        BY <2>4
      <4>2. \A i \in 1 .. n : touches[i].at <= now
        BY DEF TouchInv, InTime
      <4>. QED  BY <3>1, <4>1, <4>2, <2>4
    <3>2. CASE k \in 1 .. last - 1
      <4>1. q[k] \in 1 .. Len(lastAlert) /\ lastAlert'[k] = lastAlert[q[k]]
            /\ lastAlert'[k].asset # flow.asset
        BY <3>2, <2>3
      <4>2. /\ \E i \in 1 .. n : /\ touches[i].asset = lastAlert'[k].asset
                                 /\ touches[i].at = lastAlert'[k].at
            /\ \A i \in 1 .. n : touches[i].asset = lastAlert'[k].asset
                                    => touches[i].at <= lastAlert'[k].at
        BY <4>1 DEF LruInv, HoldsLastTouch
      <4>3. \E i \in 1 .. n + 1 : /\ touches'[i].asset = lastAlert'[k].asset
                                 /\ touches'[i].at = lastAlert'[k].at
        BY <4>2, <2>4
      <4>4. ASSUME NEW i \in 1 .. n + 1, touches'[i].asset = lastAlert'[k].asset
            PROVE  touches'[i].at <= lastAlert'[k].at
        BY <4>1, <4>2, <4>4, <2>4
      <4>. QED  BY <4>3, <4>4
    <3>. QED  BY <3>1, <3>2, <2>4
  <2>6. ASSUME NEW k \in 1 .. last, NEW l \in 1 .. last, NEW i \in 1 .. n + 1,
               k < l, touches'[i].asset = lastAlert'[k].asset
        PROVE  \E j \in i + 1 .. n + 1 : touches'[j].asset = lastAlert'[l].asset
    <3>1. k \in 1 .. last - 1
      BY <2>4, <2>6
    <3>2. q[k] \in 1 .. Len(lastAlert) /\ lastAlert'[k] = lastAlert[q[k]]
          /\ lastAlert'[k].asset # flow.asset
      BY <3>1, <2>3
    <3>3. i \in 1 .. n /\ touches[i].asset = lastAlert[q[k]].asset
      BY <2>4, <2>6, <3>2
    <3>4. CASE l = last
      <4>1. n + 1 \in i + 1 .. n + 1
        BY <3>3, <2>4
      <4>. QED  BY <3>4, <4>1, <2>4
    <3>5. CASE l \in 1 .. last - 1
      <4>1. q[l] \in 1 .. Len(lastAlert) /\ lastAlert'[l] = lastAlert[q[l]] /\ q[k] < q[l]
        BY <3>1, <3>5, <2>3, <2>6
      <4>2. PICK j \in i + 1 .. n : touches[j].asset = lastAlert[q[l]].asset
        BY <3>2, <3>3, <4>1 DEF LruInv, InOrderOfTouches
      <4>3. j \in i + 1 .. n + 1 /\ j \in 1 .. n
        BY <3>3, <2>4
      <4>. QED  BY <4>1, <4>2, <4>3, <2>4
    <3>. QED  BY <3>4, <3>5, <2>4
  <2>7. ASSUME NEW i \in 1 .. n + 1
        PROVE  \/ EntryOf(lastAlert', touches'[i].asset) # {}
               \/ /\ last = CacheMax
                  /\ \A k \in 1 .. last :
                        \E j \in i + 1 .. n + 1 : touches'[j].asset = lastAlert'[k].asset
    <3>1. CASE touches'[i].asset = flow.asset
      <4>1. last \in 1 .. Len(lastAlert')
        BY <2>4
      <4>. QED  BY <3>1, <4>1, <2>4 DEF EntryOf
    <3>2. CASE touches'[i].asset # flow.asset
      <4>1. i \in 1 .. n /\ touches'[i] = touches[i] /\ n + 1 \in i + 1 .. n + 1
        BY <3>2, <2>4
      <4>2. ASSUME last = CacheMax,
                   \A k \in 1 .. last - 1 :
                      \E j \in i + 1 .. n : touches[j].asset = lastAlert'[k].asset
            PROVE  /\ last = CacheMax
                   /\ \A k \in 1 .. last :
                         \E j \in i + 1 .. n + 1 : touches'[j].asset = lastAlert'[k].asset
        <5>1. \A j \in i + 1 .. n : j \in i + 1 .. n + 1 /\ j \in 1 .. n
          BY <4>1, <2>4
        <5>. QED  BY <4>1, <4>2, <5>1, <2>4
      <4>3. CASE EntryOf(lastAlert, touches[i].asset) # {}
        <5>1. PICK m \in 1 .. Len(lastAlert) : lastAlert[m].asset = touches[i].asset
          BY <4>3 DEF EntryOf
        <5>2. CASE \E k \in 1 .. last - 1 : q[k] = m
          <6>1. PICK k \in 1 .. last - 1 : q[k] = m
            BY <5>2
          <6>2. lastAlert'[k].asset = touches'[i].asset /\ k \in 1 .. Len(lastAlert')
            BY <6>1, <5>1, <4>1, <2>3, <2>4
          <6>. QED  BY <6>2 DEF EntryOf
        <5>3. CASE last = CacheMax /\ \A k \in 1 .. last - 1 : m < q[k]
          <6>1. ASSUME NEW k \in 1 .. last - 1
                PROVE  \E j \in i + 1 .. n : touches[j].asset = lastAlert'[k].asset
            <7>1. /\ q[k] \in 1 .. Len(lastAlert) /\ lastAlert'[k] = lastAlert[q[k]]
                  /\ m < q[k]
              BY <5>3, <2>3
            <7>2. i \in 1 .. Len(touches) /\ touches[i].asset = lastAlert[m].asset
              BY <5>1, <4>1
            <7>3. \E j \in i + 1 .. Len(touches) : touches[j].asset = lastAlert[q[k]].asset
              BY <7>1, <7>2 DEF LruInv, InOrderOfTouches
            <7>. QED  BY <7>1, <7>3
          <6>. QED  BY <6>1, <5>3, <4>2
        <5>. QED  BY <5>1, <5>2, <5>3, <4>1, <3>2, <2>3
      <4>4. CASE /\ Len(lastAlert) = CacheMax
                 /\ \A k \in 1 .. Len(lastAlert) :
                       \E j \in i + 1 .. n : touches[j].asset = lastAlert[k].asset
        <5>1. last = CacheMax
          BY <4>4, <2>2, <2>4
        <5>2. ASSUME NEW k \in 1 .. last - 1
              PROVE  \E j \in i + 1 .. n : touches[j].asset = lastAlert'[k].asset
          <6>1. q[k] \in 1 .. Len(lastAlert) /\ lastAlert'[k] = lastAlert[q[k]]
            BY <2>3
          <6>2. \E j \in i + 1 .. n : touches[j].asset = lastAlert[q[k]].asset
            BY <4>4, <6>1
          <6>. QED  BY <6>1, <6>2
        <5>. QED  BY <5>1, <5>2, <4>2
      <4>. QED  BY <4>1, <4>3, <4>4 DEF LruInv, EvictedByLater
    <3>. QED  BY <3>1, <3>2
  <2>8. OnePerAsset(lastAlert)' /\ HoldsLastTouch'
    BY <2>2, <2>4, <2>5 DEF OnePerAsset, HoldsLastTouch
  <2>9. InOrderOfTouches'
    BY <2>4, <2>6 DEF InOrderOfTouches
  <2>10. EvictedByLater'
    BY <2>4, <2>7 DEF EvictedByLater, EntryOf
  <2>. QED  BY <2>8, <2>9, <2>10 DEF LruInv
<1>. QED  BY <1>1, <1>2, TouchEffect DEF entry



\* The touches of before are still there, with at most one more, of now and of this call.
Extends ==
    /\ Len(touches) \in Nat /\ Len(touches') \in {Len(touches), Len(touches) + 1}
    /\ \A i \in 1 .. Len(touches) : i \in 1 .. Len(touches') /\ touches'[i] = touches[i]
    /\ Len(touches') = Len(touches) + 1 =>
          touches'[Len(touches) + 1].at = now /\ touches'[Len(touches) + 1].call = calls

LEMMA TouchesExtend ==
    ASSUME TypeOK, UNCHANGED <<lastAlert, touches>> \/ \E flow \in Flows : Touch(flow)
    PROVE  Extends
<1>1. Len(touches) \in Nat
  BY EntryType
<1>2. CASE UNCHANGED touches
  BY <1>1, <1>2 DEF Extends
<1>3. ASSUME NEW flow \in Flows, Touch(flow) PROVE Extends
  <2>1. CASE UNCHANGED touches
    BY <2>1, <1>2
  <2>2. CASE /\ Len(touches') = Len(touches) + 1
             /\ \A i \in 1 .. Len(touches) : touches'[i] = touches[i]
             /\ touches'[Len(touches) + 1] = [asset |-> flow.asset, at |-> now, call |-> calls]
    BY <1>1, <2>2 DEF Extends
  <2>. QED  BY <1>3, <2>1, <2>2, TouchEffect
<1>. QED  BY <1>2, <1>3

\* The four ways in which alerts, honeytoken touches and their calls can change.
Calm ==
    /\ tx'.alerts = tx.alerts /\ tx'.tripped = tx.tripped
    /\ db' = db \/ db' = tx
    /\ calls' = calls \/ tx = db
    /\ UNCHANGED <<failed, lastAlert, touches>>
    /\ now' \in {now, now + 1}

RolledBack ==
    /\ tx' = db /\ UNCHANGED <<db, calls, now>>
    /\ failed' = failed \cup {calls}
    /\ UNCHANGED <<lastAlert, touches>> \/ \E flow \in Flows : Touch(flow)

LEMMA AlertSteps ==
    ASSUME TypeOK, ControlInv, [Next]_vars
    PROVE  Calm \/ RolledBack \/ \E flow \in Flows : Suppress(flow) \/ RaiseAlert(flow)
<1>1. ASSUME NEW s \in Sessions, NEW lo \in Rows, NEW hi \in lo .. MaxRows, Deliver(s, lo, hi)
      PROVE  Calm
  BY <1>1 DEF Calm, ControlInv, Deliver, memory, history
<1>2. ASSUME Persist PROVE Calm
  BY <1>2, PersistEffect DEF Calm, ControlInv, Persist, memory, history
<1>3. ASSUME NEW asset \in Assets, CiiNone(asset) \/ CiiReuse(asset)
      PROVE  Calm
  BY <1>3 DEF Calm, CiiNone, CiiReuse, CiiStep, history
<1>4. ASSUME NEW asset \in Assets, CiiCompute(asset)
      PROVE  Calm
  BY <1>4, ComputeEffect DEF Calm, CiiCompute, CiiStep, history
<1>5. ASSUME NEW flow \in Flows, AlertOrphaned(flow) PROVE RolledBack
  BY <1>5 DEF RolledBack, AlertOrphaned, Abandon
<1>6. ASSUME NEW old \in SUBSET tx.events, Prune(old) PROVE Calm
  BY <1>6, PruneEffect DEF Calm, Prune, memory, history
<1>7. ASSUME Commit \/ SkipKnown \/ Absorb \/ Skip \/ Tick \/ UNCHANGED vars PROVE Calm
  BY <1>7 DEF Calm, Commit, SkipKnown, Absorb, Skip, Tick, vars, batchVars, memory, history
<1>8. ASSUME DatabaseFails PROVE RolledBack
  BY <1>8 DEF RolledBack, DatabaseFails, Abandon, memory
<1>9. ASSUME Publish \/ PublishFails PROVE Calm
  BY <1>9 DEF Calm, Publish, PublishFails, TakeEnvelope, memory
<1>. QED
  BY <1>1, <1>2, <1>3, <1>4, <1>5, <1>6, <1>7, <1>8, <1>9 DEF Next, Examine

LEMMA RaiseTouches ==
    ASSUME TypeOK, NEW flow \in Flows, RaiseAlert(flow)
    PROVE  /\ Extends /\ UNCHANGED <<db, calls, now, failed>>
           /\ AlertDebounce > 0 => Len(touches') = Len(touches) + 1
           /\ Len(touches') = Len(touches) + 1 =>
                 touches'[Len(touches) + 1].asset = NewAlert(flow).asset
           /\ NewAlert(flow).asset = flow.asset /\ NewAlert(flow).at = now
<1>1. Touch(flow) /\ UNCHANGED <<db, calls, now, failed>>
  BY DEF RaiseAlert, Examination
<1>2. Extends
  BY <1>1, TouchesExtend
<1>3. Len(touches) \in Nat /\ Len(touches) # Len(touches) + 1
  BY EntryType
<1>4. /\ AlertDebounce > 0 => Len(touches') = Len(touches) + 1
      /\ Len(touches') = Len(touches) + 1 => touches'[Len(touches) + 1].asset = flow.asset
  <2>1. CASE AlertDebounce = 0 /\ UNCHANGED touches
    BY <1>3, <2>1
  <2>2. CASE /\ Len(touches') = Len(touches) + 1
             /\ touches'[Len(touches) + 1] = [asset |-> flow.asset, at |-> now, call |-> calls]
    BY <2>2
  <2>. QED  BY <1>1, <2>1, <2>2, TouchEffect
<1>. QED  BY <1>1, <1>2, <1>4 DEF NewAlert

LEMMA TouchStep ==
    ASSUME TypeOK, ControlInv, TouchInv, [Next]_vars
    PROVE  TouchInv'
<1>0. /\ db.alerts \subseteq tx.alerts /\ now \in Nat /\ Len(touches) \in Nat
      /\ \A i \in 1 .. Len(touches) : touches[i].at \in Nat
  BY EntryType DEF ControlInv, TypeOK
<1>1. CASE Calm
  <2>1. InTime'
    BY <1>0, <1>1 DEF Calm, TouchInv, InTime
  <2>2. OfAnAlert'
    <3>1. CASE calls' = calls
      BY <1>0, <1>1, <3>1 DEF Calm, TouchInv, OfAnAlert
    <3>2. CASE tx = db
      BY <1>0, <1>1, <3>2 DEF Calm, TouchInv, OfAnAlert
    <3>. QED  BY <1>1, <3>1, <3>2 DEF Calm
  <2>3. AlertIsTouched'
    BY <1>1 DEF Calm, TouchInv, AlertIsTouched
  <2>. QED  BY <2>1, <2>2, <2>3 DEF TouchInv
<1>2. ASSUME Extends, now' = now PROVE InTime'
  <2>1. ASSUME NEW i \in 1 .. Len(touches') PROVE touches'[i].at <= now
    <3>1. i \in 1 .. Len(touches) \/ (i = Len(touches) + 1 /\ touches'[i].at = now)
      BY <1>0, <1>2 DEF Extends
    <3>. QED  BY <3>1, <1>0, <1>2 DEF Extends, TouchInv, InTime
  <2>2. ASSUME NEW i \in 1 .. Len(touches'), NEW j \in 1 .. Len(touches'), i < j
        PROVE  touches'[i].at <= touches'[j].at
    <3>1. i \in 1 .. Len(touches)
      BY <1>0, <1>2, <2>2 DEF Extends
    <3>2. j \in 1 .. Len(touches) \/ (j = Len(touches) + 1 /\ touches'[j].at = now)
      BY <1>0, <1>2 DEF Extends
    <3>. QED  BY <3>1, <3>2, <1>0, <1>2, <2>2 DEF Extends, TouchInv, InTime
  <2>. QED  BY <1>2, <2>1, <2>2 DEF InTime
<1>3. CASE RolledBack
  <2>1. Extends
    BY <1>3, TouchesExtend DEF RolledBack
  <2>2. InTime'
    BY <1>2, <1>3, <2>1 DEF RolledBack
  <2>3. OfAnAlert'
    <3>1. /\ tx'.alerts = db.alerts /\ db'.alerts = db.alerts
          /\ failed' = failed \cup {calls} /\ calls' = calls
      BY <1>3 DEF RolledBack
    <3>2. ASSUME NEW i \in 1 .. Len(touches')
          PROVE  \/ touches'[i].call \in failed'
                 \/ \E a \in tx'.alerts :
                       /\ a.asset = touches'[i].asset /\ a.at = touches'[i].at
                       /\ a \in db'.alerts \/ touches'[i].call = calls'
      <4>1. CASE i \in 1 .. Len(touches)
        BY <4>1, <3>1, <2>1 DEF Extends, TouchInv, OfAnAlert
      <4>2. CASE i = Len(touches) + 1
        BY <4>2, <3>1, <2>1, <1>0 DEF Extends
      <4>. QED  BY <4>1, <4>2, <2>1, <1>0 DEF Extends
    <3>. QED  BY <3>2 DEF OfAnAlert
  <2>4. AlertIsTouched'
    <3>1. tx'.alerts \subseteq tx.alerts
      BY <1>0, <1>3 DEF RolledBack
    <3>2. ASSUME AlertDebounce > 0, NEW a \in tx'.alerts
          PROVE  \E i \in 1 .. Len(touches') : touches'[i].asset = a.asset /\ touches'[i].at = a.at
      BY <3>1, <3>2, <2>1 DEF Extends, TouchInv, AlertIsTouched
    <3>. QED  BY <3>2 DEF AlertIsTouched
  <2>. QED  BY <2>2, <2>3, <2>4 DEF TouchInv
<1>4. ASSUME NEW flow \in Flows, Suppress(flow) PROVE TouchInv'
  <2>1. UNCHANGED <<db, calls, failed, touches, now>> /\ tx'.alerts = tx.alerts
    BY <1>4, SuppressEffect DEF Suppress, Examination
  <2>. QED  BY <2>1 DEF TouchInv, InTime, OfAnAlert, AlertIsTouched
<1>5. ASSUME NEW flow \in Flows, RaiseAlert(flow) PROVE TouchInv'
  <2>. DEFINE new == NewAlert(flow)
              n == Len(touches)
  <2>1. /\ Extends /\ UNCHANGED <<db, calls, now, failed>>
        /\ AlertDebounce > 0 => Len(touches') = n + 1
        /\ Len(touches') = n + 1 => touches'[n + 1].asset = new.asset
        /\ new.at = now /\ tx'.alerts = tx.alerts \cup {new}
    BY <1>5, RaiseTouches, RaiseEffect
  <2>. HIDE DEF new
  <2>2. InTime'
    BY <1>2, <2>1
  <2>3. OfAnAlert'
    <3>1. ASSUME NEW i \in 1 .. Len(touches')
          PROVE  \/ touches'[i].call \in failed'
                 \/ \E a \in tx'.alerts :
                       /\ a.asset = touches'[i].asset /\ a.at = touches'[i].at
                       /\ a \in db'.alerts \/ touches'[i].call = calls'
      <4>1. CASE i \in 1 .. n
        BY <4>1, <2>1 DEF Extends, TouchInv, OfAnAlert
      <4>2. CASE i = n + 1 /\ Len(touches') = n + 1
        BY <4>2, <2>1 DEF Extends
      <4>. QED  BY <4>1, <4>2, <2>1, <1>0 DEF Extends
    <3>. QED  BY <3>1 DEF OfAnAlert
  <2>4. AlertIsTouched'
    <3>1. ASSUME AlertDebounce > 0, NEW a \in tx'.alerts
          PROVE  \E i \in 1 .. Len(touches') : touches'[i].asset = a.asset /\ touches'[i].at = a.at
      <4>1. CASE a \in tx.alerts
        BY <3>1, <4>1, <2>1 DEF Extends, TouchInv, AlertIsTouched
      <4>2. CASE a = new
        <5>1. n + 1 \in 1 .. Len(touches') /\ touches'[n + 1].at = now
          BY <3>1, <2>1, <1>0 DEF Extends
        <5>. QED  BY <3>1, <4>2, <5>1, <2>1
      <4>. QED  BY <3>1, <4>1, <4>2, <2>1
    <3>. QED  BY <3>1 DEF AlertIsTouched
  <2>. QED  BY <2>2, <2>3, <2>4 DEF TouchInv
<1>. QED  BY <1>1, <1>3, <1>4, <1>5, AlertSteps


\* More touches, more assets touched between two alerts, but finitely many.
LEMMA MoreBetween ==
    ASSUME TypeOK, TypeOK', Extends, NEW a, NEW b
    PROVE  /\ TouchedBetween(a, b) \subseteq TouchedBetween(a, b)'
           /\ IsFiniteSet(TouchedBetween(a, b)')
           /\ Cardinality(TouchedBetween(a, b)) \in Nat
           /\ Cardinality(TouchedBetween(a, b)') \in Nat
           /\ Cardinality(TouchedBetween(a, b)) <= Cardinality(TouchedBetween(a, b)')
<1>1. TouchedBetween(a, b) \subseteq TouchedBetween(a, b)'
  BY DEF TouchedBetween, Extends
<1>2. IsFiniteSet(TouchedBetween(a, b)')
  <2>. DEFINE f == [i \in 1 .. Len(touches') |-> touches'[i].asset]
              image == {touches'[i].asset : i \in 1 .. Len(touches')}
  <2>1. f \in Surjection(1 .. Len(touches'), image)
    BY DEF Surjection
  <2>2. IsFiniteSet(1 .. Len(touches'))
    <3>1. 1 \in Int /\ Len(touches') \in Int
      BY DEF Extends
    <3>. QED  BY <3>1, FS_Interval
  <2>3. TouchedBetween(a, b)' \subseteq image
    BY DEF TouchedBetween
  <2>. HIDE DEF f, image
  <2>4. IsFiniteSet(image)
    BY <2>1, <2>2, FS_Surjection
  <2>. QED  BY <2>3, <2>4, FS_Subset
<1>3. IsFiniteSet(TouchedBetween(a, b))
  BY <1>1, <1>2, FS_Subset
<1>. QED  BY <1>1, <1>2, <1>3, FS_Subset, FS_CardinalityType

\* An alert while the asset has one within the debounce: its entry was evicted, and the
\* map is full of assets that were touched in between.
LEMMA EvictionTakesOthers ==
    ASSUME TypeOK, TypeOK', TouchInv, LruInv, NEW flow \in Flows, Extends, now' = now,
           AlertDebounce > 0, ~Debounced(flow.asset),
           NEW a \in tx.alerts, a.asset = flow.asset, now - a.at < AlertDebounce,
           NEW b, b.at = now
    PROVE  Cardinality(TouchedBetween(a, b)') >= CacheMax
<1>1. /\ CacheMax \in Nat /\ CacheMax > 0 /\ AlertDebounce \in Nat /\ now \in Nat
      /\ a.at \in Nat /\ Len(touches) \in Nat /\ Len(lastAlert) \in Nat
      /\ \A i \in 1 .. Len(touches) : touches[i].at \in Nat
      /\ \A k \in 1 .. Len(lastAlert) : lastAlert[k].at \in Nat
  <2>1. CacheMax \in Nat /\ CacheMax > 0 /\ AlertDebounce \in Nat /\ now \in Nat
    BY PipelineAssumption DEF TypeOK
  <2>2. a.at \in Nat
    BY DEF TypeOK, Tables, Alerts
  <2>3. /\ Len(touches) \in Nat /\ Len(lastAlert) \in Nat
        /\ \A i \in 1 .. Len(touches) : touches[i].at \in Nat
        /\ \A k \in 1 .. Len(lastAlert) : lastAlert[k].at \in Nat
    BY EntryType DEF Touches
  <2>. QED  BY <2>1, <2>2, <2>3
<1>2. PICK i \in 1 .. Len(touches) : touches[i].asset = a.asset /\ touches[i].at = a.at
  BY DEF TouchInv, AlertIsTouched
<1>3. EntryOf(lastAlert, a.asset) = {}
  <2>. SUFFICES ASSUME NEW k \in EntryOf(lastAlert, a.asset) PROVE FALSE
    OBVIOUS
  <2>1. k \in 1 .. Len(lastAlert) /\ lastAlert[k].asset = a.asset
    BY DEF EntryOf
  <2>2. a.at <= lastAlert[k].at
    BY <1>2, <2>1 DEF LruInv, HoldsLastTouch
  <2>3. now - lastAlert[k].at < AlertDebounce
    BY <1>1, <2>1, <2>2
  <2>. QED  BY <2>3 DEF Debounced, Fresh
<1>4. /\ Len(lastAlert) = CacheMax
      /\ \A k \in 1 .. Len(lastAlert) :
            \E j \in i + 1 .. Len(touches) : touches[j].asset = lastAlert[k].asset
  BY <1>2, <1>3 DEF LruInv, EvictedByLater
<1>5. ASSUME NEW k \in 1 .. CacheMax
      PROVE  lastAlert[k].asset \in TouchedBetween(a, b)
  <2>1. PICK j \in i + 1 .. Len(touches) : touches[j].asset = lastAlert[k].asset
    BY <1>4
  <2>2. j \in 1 .. Len(touches) /\ i < j
    BY <1>1
  <2>3. a.at <= touches[j].at /\ touches[j].at <= b.at
    BY <1>2, <2>2 DEF TouchInv, InTime
  <2>4. lastAlert[k].asset # a.asset
    BY <1>3, <1>4 DEF EntryOf
  <2>. QED  BY <2>1, <2>2, <2>3, <2>4 DEF TouchedBetween
<1>. DEFINE f == [k \in 1 .. CacheMax |-> lastAlert[k].asset]
<1>6. f \in Injection(1 .. CacheMax, TouchedBetween(a, b))
  <2>1. f \in [1 .. CacheMax -> TouchedBetween(a, b)]
    BY <1>5
  <2>2. \A k, l \in 1 .. CacheMax : f[k] = f[l] => k = l
    BY <1>4 DEF LruInv, OnePerAsset
  <2>. HIDE DEF f
  <2>. QED  BY <2>1, <2>2 DEF Injection, IsInjective
<1>. HIDE DEF f
<1>7. /\ IsFiniteSet(TouchedBetween(a, b)) /\ Cardinality(TouchedBetween(a, b)) \in Nat
      /\ Cardinality(TouchedBetween(a, b)') \in Nat
      /\ Cardinality(TouchedBetween(a, b)) <= Cardinality(TouchedBetween(a, b)')
  BY MoreBetween, FS_Subset
<1>8. Cardinality(1 .. CacheMax) = CacheMax
  <2>1. 1 \in Int /\ CacheMax \in Int
    BY <1>1
  <2>2. Cardinality(1 .. CacheMax) = IF 1 > CacheMax THEN 0 ELSE CacheMax - 1 + 1
    BY <2>1, FS_Interval
  <2>. QED  BY <2>2, <1>1
<1>9. Cardinality(1 .. CacheMax) <= Cardinality(TouchedBetween(a, b))
  BY <1>6, <1>7, FS_Injection
<1>. QED  BY <1>1, <1>7, <1>8, <1>9

LEMMA IncidentStep ==
    ASSUME TypeOK, TypeOK', ControlInv, SerialInv, TouchInv, LruInv, OneAlertPerIncident,
           [Next]_vars
    PROVE  OneAlertPerIncident'
<1>. SUFFICES ASSUME AlertDebounce > 0, NEW a \in tx'.alerts, NEW b \in tx'.alerts,
                     a.asset = b.asset, a.id < b.id, b.at - a.at < AlertDebounce
              PROVE  Cardinality(TouchedBetween(a, b)') >= CacheMax
  BY DEF OneAlertPerIncident
<1>1. ASSUME a \in tx.alerts, b \in tx.alerts, Extends
      PROVE  Cardinality(TouchedBetween(a, b)') >= CacheMax
  <2>1. Cardinality(TouchedBetween(a, b)) >= CacheMax
    BY <1>1 DEF OneAlertPerIncident
  <2>2. CacheMax \in Nat
    BY PipelineAssumption
  <2>. QED  BY <1>1, <2>1, <2>2, MoreBetween
<1>2. CASE Calm
  BY <1>1, <1>2, TouchesExtend DEF Calm
<1>3. CASE RolledBack
  <2>1. tx'.alerts \subseteq tx.alerts /\ Extends
    BY <1>3, TouchesExtend DEF RolledBack, ControlInv
  <2>. QED  BY <1>1, <2>1
<1>4. ASSUME NEW flow \in Flows, Suppress(flow)
      PROVE  Cardinality(TouchedBetween(a, b)') >= CacheMax
  <2>1. tx'.alerts = tx.alerts /\ Extends
    BY <1>4, SuppressEffect, TouchesExtend DEF Suppress
  <2>. QED  BY <1>1, <2>1
<1>5. ASSUME NEW flow \in Flows, RaiseAlert(flow)
      PROVE  Cardinality(TouchedBetween(a, b)') >= CacheMax
  <2>. DEFINE new == NewAlert(flow)
  <2>1. /\ Extends /\ now' = now /\ new.asset = flow.asset /\ new.at = now
        /\ tx'.alerts = tx.alerts \cup {new} /\ new.id = serial + 1
        /\ ~Debounced(flow.asset) /\ serial \in Nat
    BY <1>5, RaiseTouches, RaiseEffect DEF NewAlert, RaiseAlert, TypeOK
  <2>. HIDE DEF new
  <2>2. \A c \in tx.alerts : c.id \in Nat /\ c.id <= serial
    BY DEF TypeOK, Tables, Alerts, SerialInv, SerialOf
  <2>3. a \in tx.alerts
    BY <2>1, <2>2
  <2>4. CASE b \in tx.alerts
    BY <1>1, <2>1, <2>3, <2>4
  <2>5. CASE b = new
    <3>1. a.asset = flow.asset /\ now - a.at < AlertDebounce /\ b.at = now
      BY <2>1, <2>5
    <3>. QED  BY <2>1, <2>3, <3>1, EvictionTakesOthers
  <2>. QED  BY <2>1, <2>4, <2>5
<1>. QED  BY <1>2, <1>3, <1>4, <1>5, AlertSteps

LEMMA AccountStep ==
    ASSUME TypeOK, TypeOK', ControlInv, TouchInv, LruInv, Accounted(db), Accounted(tx),
           [Next]_vars
    PROVE  Accounted(db)' /\ Accounted(tx)'
<1>1. ASSUME NEW t, NEW u, Accounted(t), Extends, failed \subseteq failed',
             t.alerts \subseteq u.alerts, u.tripped \subseteq t.tripped
      PROVE  \A trip \in u.tripped :
                \/ \E a \in u.alerts : a.asset = trip.asset /\ Together(a.at, trip.at)
                \/ \E i \in 1 .. Len(touches') :
                      /\ touches'[i].asset = trip.asset /\ touches'[i].call \in failed'
                      /\ Together(touches'[i].at, trip.at)
  BY <1>1 DEF Accounted, Extends
<1>2. CASE Calm
  <2>1. Extends /\ failed' = failed
    BY <1>2, TouchesExtend DEF Calm
  <2>2. Accounted(tx)'
    BY <1>2, <2>1, <1>1 DEF Calm, Accounted, Together
  <2>3. Accounted(db)'
    <3>1. CASE db' = db
      BY <1>2, <2>1, <3>1 DEF Calm, Accounted, Together
    <3>2. CASE db' = tx
      BY <1>2, <2>1, <3>2 DEF Calm, Accounted, Together
    <3>. QED  BY <1>2, <3>1, <3>2 DEF Calm
  <2>. QED  BY <2>2, <2>3
<1>3. CASE RolledBack
  <2>1. Extends /\ failed \subseteq failed' /\ db' = db /\ tx' = db
    BY <1>3, TouchesExtend DEF RolledBack
  <2>2. Accounted(db)'
    BY <2>1, <1>1 DEF Accounted, Together
  <2>. QED  BY <2>1, <2>2 DEF Accounted
<1>4. ASSUME NEW flow \in Flows, Suppress(flow) PROVE Accounted(db)' /\ Accounted(tx)'
  <2>1. /\ Extends /\ UNCHANGED <<db, failed, touches>> /\ tx'.alerts = tx.alerts
        /\ tx'.tripped = tx.tripped \cup TrippedBy(flow)
        /\ ~AlertWorthy(flow) \/ Debounced(flow.asset)
    BY <1>4, SuppressEffect, TouchesExtend DEF Suppress, Examination
  <2>2. Accounted(db)'
    BY <2>1 DEF Accounted, Together
  <2>3. ASSUME NEW trip \in TrippedBy(flow)
        PROVE  \/ \E a \in tx.alerts : a.asset = trip.asset /\ Together(a.at, trip.at)
               \/ \E i \in 1 .. Len(touches) :
                     /\ touches[i].asset = trip.asset /\ touches[i].call \in failed
                     /\ Together(touches[i].at, trip.at)
    <3>1. flow.kind = "tripwire" /\ trip.asset = flow.asset /\ trip.at = now
      BY DEF TrippedBy
    <3>2. PICK k \in EntryOf(lastAlert, flow.asset) : now - lastAlert[k].at < AlertDebounce
      BY <2>1, <3>1 DEF AlertWorthy, Debounced, Fresh
    <3>3. PICK i \in 1 .. Len(touches) :
              touches[i].asset = lastAlert[k].asset /\ touches[i].at = lastAlert[k].at
      BY DEF EntryOf, LruInv, HoldsLastTouch
    <3>4. touches[i].asset = flow.asset /\ Together(touches[i].at, now)
      BY <3>2, <3>3 DEF EntryOf, Together, TouchInv, InTime
    <3>. QED  BY <3>1, <3>4 DEF TouchInv, OfAnAlert
  <2>4. Accounted(tx)'
    BY <2>1, <2>3 DEF Accounted, Together
  <2>. QED  BY <2>2, <2>4
<1>5. ASSUME NEW flow \in Flows, RaiseAlert(flow) PROVE Accounted(db)' /\ Accounted(tx)'
  <2>. DEFINE new == NewAlert(flow)
  <2>1. /\ Extends /\ UNCHANGED <<db, failed>> /\ new.asset = flow.asset /\ new.at = now
        /\ tx'.alerts = tx.alerts \cup {new} /\ now \in Nat
        /\ tx'.tripped = tx.tripped \cup TrippedBy(flow)
    BY <1>5, RaiseTouches, RaiseEffect DEF TypeOK
  <2>. HIDE DEF new
  <2>2. Accounted(db)'
    BY <2>1, <1>1 DEF Accounted, Together
  <2>3. \A trip \in TrippedBy(flow) : new.asset = trip.asset /\ Together(new.at, trip.at)
    BY <2>1 DEF TrippedBy, Together
  <2>4. \A trip \in tx.tripped :
            \/ \E a \in tx'.alerts : a.asset = trip.asset /\ Together(a.at, trip.at)
            \/ \E i \in 1 .. Len(touches') :
                  /\ touches'[i].asset = trip.asset /\ touches'[i].call \in failed'
                  /\ Together(touches'[i].at, trip.at)
    BY <2>1 DEF Accounted, Extends
  <2>5. Accounted(tx)'
    BY <2>1, <2>3, <2>4 DEF Accounted, Together
  <2>. QED  BY <2>2, <2>5
<1>. QED  BY <1>2, <1>3, <1>4, <1>5, AlertSteps


-----------------------------------------------------------------------------
(* The broadcast *)

\* What the envelopes still to be broadcast become when the first is dealt with.
LEMMA TailFacts ==
    ASSUME TypeOK, out.event # <<>>
    PROVE  /\ Head(out.event) = out.event[1] /\ 1 \in 1 .. Len(out.event)
           /\ out.event[1].id \in Nat
           /\ Len(out.event) \in Nat /\ Len(Tail(out.event)) = Len(out.event) - 1
           /\ \A i \in 1 .. Len(Tail(out.event)) :
                 i + 1 \in 1 .. Len(out.event) /\ Tail(out.event)[i] = out.event[i + 1]
<1>1. out.event \in Seq(Events)
  BY DEF TypeOK
<1>2. /\ Head(out.event) = out.event[1] /\ Len(out.event) \in Nat
      /\ Len(Tail(out.event)) = Len(out.event) - 1
      /\ \A i \in 1 .. Len(Tail(out.event)) : Tail(out.event)[i] = out.event[i + 1]
  BY <1>1, HeadTailProperties, LenProperties
<1>3. 1 \in 1 .. Len(out.event)
  BY <1>1, EmptySeq
<1>4. out.event[1].id \in Nat
  BY <1>3, EntryType DEF Events
<1>. QED  BY <1>2, <1>3, <1>4

LEMMA BroadcastStep ==
    ASSUME TypeOK, ControlInv, SerialInv, BroadcastInv, [Next]_vars
    PROVE  BroadcastInv'
<1>1. ASSUME out' = NoEnvelopes \/ out'.event = out.event, published' = published
      PROVE  BroadcastInv'
  <2>1. CASE out' = NoEnvelopes
    <3>1. Len(out'.event) = 0
      BY <2>1, EmptySeq DEF NoEnvelopes
    <3>. QED
      BY <1>1, <3>1 DEF BroadcastInv, NewInOrder, NewerThanPublished,
                        PublishedInIdOrder
  <2>2. CASE out'.event = out.event
    <3>1. NewInOrder' /\ NewerThanPublished'
      BY <1>1, <2>2 DEF BroadcastInv, NewInOrder, NewerThanPublished
    <3>2. PublishedInIdOrder'
      BY <1>1 DEF BroadcastInv, PublishedInIdOrder
    <3>. QED  BY <3>1, <3>2 DEF BroadcastInv
  <2>. QED  BY <1>1, <2>1, <2>2
<1>2. ASSUME NEW s \in Sessions, NEW lo \in Rows, NEW hi \in lo .. MaxRows, Deliver(s, lo, hi)
      PROVE  BroadcastInv'
  BY <1>1, <1>2 DEF Deliver, history
<1>3. ASSUME Persist PROVE BroadcastInv'
  <2>1. /\ out'.event = Stored /\ published' = published
        /\ serial \in Nat /\ Len(Stored) \in Nat
        /\ \A i \in 1 .. Len(Stored) : Stored[i].id # NoId => Stored[i].id = serial + i
        /\ \A p \in 1 .. Len(published) : published[p] \in Nat /\ published[p] <= serial
    BY <1>3, PersistEffect, StoredFacts, EntryType DEF Persist, history, TypeOK, SerialInv
  <2>2. NewInOrder'
    BY <2>1 DEF NewInOrder
  <2>3. NewerThanPublished'
    BY <2>1 DEF NewerThanPublished
  <2>4. PublishedInIdOrder'
    BY <2>1 DEF BroadcastInv, PublishedInIdOrder
  <2>. QED  BY <2>2, <2>3, <2>4 DEF BroadcastInv
<1>4. ASSUME NEW asset \in Assets, CiiNone(asset) \/ CiiReuse(asset) \/ CiiCompute(asset)
      PROVE  BroadcastInv'
  BY <1>1, <1>4 DEF CiiNone, CiiReuse, CiiCompute, CiiStep, history
<1>5. ASSUME NEW flow \in Flows, Suppress(flow) \/ RaiseAlert(flow) PROVE BroadcastInv'
  BY <1>1, <1>5, SuppressEffect, RaiseEffect DEF Suppress, RaiseAlert, Examination
<1>6. ASSUME NEW flow \in Flows, AlertOrphaned(flow) PROVE BroadcastInv'
  BY <1>1, <1>6 DEF AlertOrphaned, Abandon
<1>7. ASSUME NEW old \in SUBSET tx.events, Prune(old) PROVE BroadcastInv'
  BY <1>1, <1>7 DEF Prune, history
<1>8. ASSUME Commit PROVE BroadcastInv'
  BY <1>1, <1>8 DEF Commit, batchVars, history
<1>9. ASSUME Absorb \/ Skip \/ Tick \/ UNCHANGED vars PROVE BroadcastInv'
  BY <1>1, <1>9 DEF Absorb, Skip, Tick, vars, batchVars, history
<1>10. ASSUME DatabaseFails PROVE BroadcastInv'
  BY <1>1, <1>10 DEF DatabaseFails, Abandon
<1>11. ASSUME SkipKnown \/ Publish \/ PublishFails PROVE BroadcastInv'
  <2>1. \/ /\ out.event # <<>> /\ out'.event = Tail(out.event)
           /\ \/ published' = published
              \/ /\ published' = Append(published, Head(out.event).id)
                 /\ Head(out.event).id # NoId
        \/ out'.event = out.event /\ published' = published
    <3>1. CASE SkipKnown
      BY <3>1 DEF SkipKnown, NotNew, TypeOK, history
    <3>2. CASE Publish \/ PublishFails
      BY <3>2, PublishEffect
    <3>. QED  BY <1>11, <3>1, <3>2
  <2>2. CASE out'.event = out.event /\ published' = published
    BY <1>1, <2>1, <2>2
  <2>3. CASE out.event # <<>> /\ out'.event = Tail(out.event)
    <3>1. NewInOrder'
      <4>1. ASSUME NEW i \in 1 .. Len(out'.event), NEW j \in 1 .. Len(out'.event), i < j,
                   out'.event[i].id # NoId, out'.event[j].id # NoId
            PROVE  out'.event[i].id < out'.event[j].id
        <5>1. /\ i + 1 \in 1 .. Len(out.event) /\ out'.event[i] = out.event[i + 1]
              /\ j + 1 \in 1 .. Len(out.event) /\ out'.event[j] = out.event[j + 1]
              /\ i + 1 < j + 1
          BY <2>3, <4>1, TailFacts
        <5>. QED  BY <4>1, <5>1 DEF BroadcastInv, NewInOrder
      <4>. QED  BY <4>1 DEF NewInOrder
    <3>3. ASSUME NEW i \in 1 .. Len(out'.event), NEW p \in 1 .. Len(published),
                 out'.event[i].id # NoId
          PROVE  published[p] < out'.event[i].id
      <4>1. i + 1 \in 1 .. Len(out.event) /\ out'.event[i] = out.event[i + 1]
        BY <2>3, TailFacts
      <4>. QED  BY <3>3, <4>1 DEF BroadcastInv, NewerThanPublished
    <3>4. CASE published' = published
      <4>1. NewerThanPublished'
        BY <3>3, <3>4 DEF NewerThanPublished
      <4>2. PublishedInIdOrder'
        BY <3>4 DEF BroadcastInv, PublishedInIdOrder
      <4>. QED  BY <3>1, <4>1, <4>2 DEF BroadcastInv
    <3>5. CASE /\ published' = Append(published, Head(out.event).id)
               /\ Head(out.event).id # NoId
      <4>. DEFINE n == Len(published)
                  id == out.event[1].id
      <4>1. /\ n \in Nat /\ Len(published') = n + 1 /\ published'[n + 1] = id
            /\ \A p \in 1 .. n : published'[p] = published[p]
            /\ id # NoId /\ 1 \in 1 .. Len(out.event)
        <5>1. published \in Seq(Nat) /\ id \in Nat /\ Head(out.event) = out.event[1]
              /\ 1 \in 1 .. Len(out.event)
          BY <2>3, TailFacts DEF TypeOK
        <5>. QED  BY <3>5, <5>1, AppendProperties, LenProperties
      <4>2. \A p \in 1 .. n + 1 : p \in 1 .. n \/ p = n + 1
        BY <4>1
      <4>3. \A p \in 1 .. n : published[p] < id
        BY <4>1 DEF BroadcastInv, NewerThanPublished
      <4>4. NewerThanPublished'
        <5>1. ASSUME NEW i \in 1 .. Len(out'.event), out'.event[i].id # NoId
              PROVE  id < out'.event[i].id
          <6>1. /\ i + 1 \in 1 .. Len(out.event) /\ out'.event[i] = out.event[i + 1]
                /\ 1 < i + 1
            BY <2>3, TailFacts
          <6>. QED  BY <4>1, <5>1, <6>1 DEF BroadcastInv, NewInOrder
        <5>. QED  BY <3>3, <4>1, <4>2, <5>1 DEF NewerThanPublished
      <4>5. PublishedInIdOrder'
        <5>1. ASSUME NEW i \in 1 .. n + 1, NEW j \in 1 .. n + 1, i < j
              PROVE  published'[i] < published'[j]
          <6>1. i \in 1 .. n
            BY <4>1, <5>1
          <6>2. CASE j \in 1 .. n
            BY <4>1, <5>1, <6>1, <6>2 DEF BroadcastInv, PublishedInIdOrder
          <6>3. CASE j = n + 1
            BY <4>1, <4>3, <6>1, <6>3
          <6>. QED  BY <4>2, <6>2, <6>3
        <5>. QED  BY <4>1, <5>1 DEF PublishedInIdOrder
      <4>. QED  BY <3>1, <4>4, <4>5 DEF BroadcastInv
    <3>. QED  BY <2>1, <2>3, <3>4, <3>5, <2>2
  <2>. QED  BY <2>1, <2>2, <2>3
<1>. QED
  BY <1>2, <1>3, <1>4, <1>5, <1>6, <1>7, <1>8, <1>9, <1>10, <1>11 DEF Next, Examine

-----------------------------------------------------------------------------
(* What is broadcast and the rows of the table *)

\* Pruning that takes anything leaves a table at its cap, of rows no older.
LEMMA PruneLeavesTheCap ==
    ASSUME TypeOK, CountInv, NEW old \in SUBSET tx.events, Prune(old), NEW f \in old
    PROVE  TakenByRetention(f, tx'.events)
<1>1. IsFiniteSet(tx.events) /\ Cardinality(tx.events) \in Nat
  BY FS_CardinalityType DEF CountInv, CountsFor
<1>2. IsFiniteSet(old) /\ Cardinality(old) \in Nat /\ Cardinality(old) # 0
  BY <1>1, FS_Subset, FS_CardinalityType, FS_EmptySet
<1>3. Cardinality(old) = Cardinality(tx.events) - KeepRows
  BY <1>1, <1>2, PipelineAssumption DEF Prune, Overflow
<1>4. Cardinality(tx.events \ old) = Cardinality(tx.events) - Cardinality(old)
  <2>1. tx.events \cap old = old
    OBVIOUS
  <2>. QED  BY <1>1, <2>1, FS_Difference
<1>5. tx'.events = tx.events \ old
  BY PruneEffect
<1>6. \A e \in tx.events \ old : f.row <= e.row
  BY DEF Prune, Oldest
<1>. QED
  BY <1>1, <1>2, <1>3, <1>4, <1>5, <1>6, PipelineAssumption DEF TakenByRetention

LEMMA RowsStep ==
    ASSUME TypeOK, ControlInv, CountInv, RowsInv, [Next]_vars
    PROVE  RowsInv'
<1>1. ASSUME pc' \notin {"examine", "decide", "commit", "publish"}
      PROVE  RowsInv'
  BY <1>1 DEF RowsInv
<1>2. ASSUME out'.event = out.event, tx'.events = tx.events,
             pc' = pc \/ pc \in {"examine", "decide", "commit"},
             pc \in {"commit", "publish"} => pc' \in {"commit", "publish"}
      PROVE  RowsInv'
  BY <1>2 DEF RowsInv, HasRow
<1>3. ASSUME NEW s \in Sessions, NEW lo \in Rows, NEW hi \in lo .. MaxRows, Deliver(s, lo, hi)
      PROVE  RowsInv'
  BY <1>1, <1>3 DEF Deliver
<1>4. ASSUME Persist PROVE RowsInv'
  <2>1. out'.event = Stored /\ tx'.events = db.events \cup Inserted
    BY <1>4, PersistEffect
  <2>2. ASSUME NEW i \in 1 .. Len(Stored)
        PROVE  Stored[i].id = NoId \/ Stored[i] \in Inserted
    <3>1. i \in 1 .. Len(todo)
      BY StoredFacts
    <3>. QED  BY <3>1 DEF Inserted
  <2>. QED  BY <2>1, <2>2 DEF RowsInv, HasRow
<1>5. ASSUME NEW asset \in Assets, CiiNone(asset) \/ CiiReuse(asset)
      PROVE  RowsInv'
  BY <1>2, <1>5 DEF CiiNone, CiiReuse, CiiStep
<1>6. ASSUME NEW asset \in Assets, CiiCompute(asset)
      PROVE  RowsInv'
  BY <1>2, <1>6, ComputeEffect DEF CiiCompute, CiiStep
<1>7. ASSUME NEW flow \in Flows, Suppress(flow) PROVE RowsInv'
  BY <1>2, <1>7, SuppressEffect DEF Suppress, Examination
<1>8. ASSUME NEW flow \in Flows, RaiseAlert(flow) PROVE RowsInv'
  BY <1>2, <1>8, RaiseEffect DEF RaiseAlert, Examination
<1>9. ASSUME NEW flow \in Flows, AlertOrphaned(flow) PROVE RowsInv'
  BY <1>1, <1>9 DEF AlertOrphaned, Abandon
<1>10. ASSUME DatabaseFails PROVE RowsInv'
  BY <1>1, <1>10 DEF DatabaseFails, Abandon
<1>11. ASSUME NEW old \in SUBSET tx.events, Prune(old) PROVE RowsInv'
  <2>1. /\ pc = "examine" /\ pc' = "commit" /\ out' = out
        /\ tx'.events = tx.events \ old
    BY <1>11, PruneEffect DEF Prune
  <2>2. ASSUME NEW i \in 1 .. Len(out.event), out.event[i] \in old
        PROVE  TakenByRetention(out.event[i], tx'.events)
    BY <1>11, <2>2, PruneLeavesTheCap
  <2>3. ASSUME NEW i \in 1 .. Len(out.event)
        PROVE  HasRow(out.event[i])'
    <3>1. out.event[i].id = NoId \/ out.event[i] \in tx.events
      BY <2>1 DEF RowsInv, HasRow
    <3>2. out'.event[i] = out.event[i]
      BY <2>1
    <3>3. \/ out.event[i].id = NoId \/ out.event[i] \in tx'.events
          \/ TakenByRetention(out.event[i], tx'.events)
      BY <2>1, <2>2, <3>1
    <3>. QED  BY <2>1, <3>2, <3>3 DEF HasRow, TakenByRetention
  <2>. QED  BY <2>1, <2>3 DEF RowsInv
<1>12. ASSUME Commit PROVE RowsInv'
  BY <1>2, <1>12 DEF Commit, batchVars
<1>13. ASSUME Skip \/ Tick \/ UNCHANGED vars PROVE RowsInv'
  BY <1>2, <1>13 DEF Skip, Tick, vars, batchVars
<1>14. ASSUME Absorb PROVE RowsInv'
  BY <1>1, <1>14 DEF Absorb
<1>15. ASSUME SkipKnown \/ Publish \/ PublishFails PROVE RowsInv'
  <2>1. /\ pc = "publish" /\ pc' = pc /\ tx' = tx
        /\ \/ out.event # <<>> /\ out'.event = Tail(out.event)
           \/ out'.event = out.event
    <3>1. CASE SkipKnown
      BY <3>1 DEF SkipKnown, NotNew, TypeOK
    <3>2. CASE Publish \/ PublishFails
      BY <3>2, PublishEffect
    <3>. QED  BY <1>15, <3>1, <3>2
  <2>2. CASE out'.event = out.event
    BY <1>2, <2>1, <2>2
  <2>3. CASE out.event # <<>> /\ out'.event = Tail(out.event)
    <3>1. ASSUME NEW i \in 1 .. Len(out'.event)
          PROVE  HasRow(out.event[i])'
      <4>1. i + 1 \in 1 .. Len(out.event) /\ out'.event[i] = out.event[i + 1]
        BY <2>3, TailFacts
      <4>2. HasRow(out.event[i + 1])
        BY <2>1, <4>1 DEF RowsInv
      <4>. QED  BY <2>1, <4>1, <4>2 DEF HasRow, TakenByRetention
    <3>. QED  BY <3>1 DEF RowsInv
  <2>. QED  BY <2>1, <2>2, <2>3
<1>. QED
  BY <1>3, <1>4, <1>5, <1>6, <1>7, <1>8, <1>9, <1>10, <1>11, <1>12, <1>13, <1>14, <1>15
  DEF Next, Examine

-----------------------------------------------------------------------------
(* The invariant, and what follows from it *)

IInv ==
    /\ TypeOK /\ ControlInv /\ SerialInv /\ CountInv /\ SnapInv
    /\ TouchInv /\ LruInv /\ AlertInv /\ BroadcastInv /\ RowsInv

LEMMA InitHolds == Init => IInv
<1>. SUFFICES ASSUME Init PROVE IInv
  OBVIOUS
<1>1. TypeOK
  BY InitType
<1>2. /\ Len(<<>>) = 0 /\ Cardinality({}) = 0 /\ IsFiniteSet({})
  BY EmptySeq, FS_EmptySet
<1>3. /\ ciiCache = <<>> /\ lastAlert = <<>> /\ touches = <<>> /\ published = <<>>
      /\ out.event = <<>> /\ pc = "idle" /\ tx = db /\ batch = NoStats /\ stats = NoStats
      /\ db.events = {} /\ db.snaps = {} /\ db.alerts = {} /\ db.tripped = {}
  BY DEF Init, NoEnvelopes, EmptyTables
<1>4. ControlInv /\ SerialInv
  BY <1>2, <1>3 DEF ControlInv, SerialInv, SerialOf
<1>5. CountInv
  BY <1>2, <1>3 DEF CountInv, CountsFor, NoStats
<1>6. SnapInv
  BY <1>2, <1>3 DEF SnapInv, OnePerAsset, ShowsBlastRadius
<1>7. TouchInv
  BY <1>2, <1>3 DEF TouchInv, InTime, OfAnAlert, AlertIsTouched
<1>8. LruInv
  BY <1>2, <1>3
  DEF LruInv, OnePerAsset, HoldsLastTouch, InOrderOfTouches, EvictedByLater
<1>9. AlertInv
  BY <1>3 DEF AlertInv, Accounted, OneAlertPerIncident
<1>10. BroadcastInv
  BY <1>2, <1>3
  DEF BroadcastInv, NewInOrder, NewerThanPublished, PublishedInIdOrder
<1>11. RowsInv
  BY <1>3 DEF RowsInv
<1>. QED  BY <1>1, <1>4, <1>5, <1>6, <1>7, <1>8, <1>9, <1>10, <1>11 DEF IInv

LEMMA StepHolds == IInv /\ [Next]_vars => IInv'
<1>. SUFFICES ASSUME IInv, [Next]_vars PROVE IInv'
  OBVIOUS
<1>1. /\ TypeOK /\ ControlInv /\ SerialInv /\ CountInv /\ SnapInv
      /\ TouchInv /\ LruInv /\ AlertInv /\ BroadcastInv /\ RowsInv
  BY DEF IInv
<1>2. TypeOK' /\ OnePerAsset(ciiCache')
  <2>1. OnePerAsset(ciiCache) /\ OnePerAsset(lastAlert)
    BY <1>1 DEF SnapInv, LruInv
  <2>2. IsFiniteSet(tx.events) /\ (pc = "decide" => todo # <<>>)
    BY <1>1 DEF CountInv, CountsFor, ControlInv
  <2>. QED  BY <1>1, <2>1, <2>2, TypeStep
<1>3. ControlInv' /\ CountInv'
  BY <1>1, ControlStep, CountStep
<1>4. SerialInv' /\ SnapInv'
  BY <1>1, <1>2, SerialStep, SnapStep DEF SnapInv
<1>5. TouchInv'
  BY <1>1, TouchStep
<1>6. LruInv'
  <2>1. CASE UNCHANGED <<lastAlert, touches>>
    <3>1. OnePerAsset(lastAlert)' /\ HoldsLastTouch'
      BY <1>1, <2>1 DEF LruInv, OnePerAsset, HoldsLastTouch
    <3>2. InOrderOfTouches'
      BY <1>1, <2>1 DEF LruInv, InOrderOfTouches
    <3>3. EvictedByLater'
      BY <1>1, <2>1 DEF LruInv, EvictedByLater, EntryOf
    <3>. QED  BY <3>1, <3>2, <3>3 DEF LruInv
  <2>. QED  BY <1>1, <2>1, TouchSteps, LruStep
<1>7. AlertInv'
  <2>1. OneAlertPerIncident'
    BY <1>1, <1>2, IncidentStep DEF AlertInv
  <2>2. Accounted(db)' /\ Accounted(tx)'
    BY <1>1, <1>2, AccountStep DEF AlertInv
  <2>. QED  BY <2>1, <2>2 DEF AlertInv
<1>8. BroadcastInv'
  BY <1>1, BroadcastStep
<1>9. RowsInv'
  BY <1>1, RowsStep
<1>. QED  BY <1>2, <1>3, <1>4, <1>5, <1>6, <1>7, <1>8, <1>9 DEF IInv

LEMMA Invariance == Spec => []IInv
BY InitHolds, StepHolds, PTL DEF Spec

\* Every variable keeps its type, and neither map in memory outgrows its limit.
THEOREM TypeCorrect == Spec => []TypeOK
<1>1. IInv => TypeOK
  BY DEF IInv
<1>. QED  BY <1>1, Invariance, PTL

\* Between calls the counters that IngestStats shows are those of the tables: a batch that
\* was rolled back is in neither, one that was delivered twice is in both once.
THEOREM StatisticsAccount == Spec => []StatsAccountForTables
<1>1. IInv => StatsAccountForTables
  <2>. SUFFICES ASSUME IInv, pc = "idle"
                PROVE  /\ stats.inserted = Cardinality(db.events) + stats.pruned
                       /\ stats.received = stats.inserted + stats.deduplicated
                       /\ stats.alerts = Cardinality(db.alerts)
                       /\ stats.computed = Cardinality(db.snaps)
    BY DEF StatsAccountForTables
  <2>1. CountsFor(db, NoStats) /\ stats \in Statistics
    BY DEF IInv, CountInv, TypeOK
  <2>2. /\ IsFiniteSet(db.events) /\ IsFiniteSet(db.snaps) /\ IsFiniteSet(db.alerts)
        /\ Cardinality(db.events) + stats.pruned + 0 = stats.inserted + 0
        /\ Cardinality(db.snaps) = stats.computed + 0
        /\ Cardinality(db.alerts) = stats.alerts + 0
        /\ stats.received + 0 = stats.inserted + 0 + stats.deduplicated + 0
    BY <2>1 DEF CountsFor, NoStats
  <2>3. /\ Cardinality(db.events) \in Nat /\ stats.received \in Nat /\ stats.inserted \in Nat
        /\ stats.deduplicated \in Nat /\ stats.pruned \in Nat /\ stats.computed \in Nat
        /\ stats.alerts \in Nat
    BY <2>1, <2>2, Counters, FS_CardinalityType
  <2>. QED  BY <2>2, <2>3
<1>. QED  BY <1>1, Invariance, PTL

\* No committed honeytoken touch goes unalerted, but where a call that raised had opened
\* the debounce window of the asset.
THEOREM TripwiresKept == Spec => []TripwireAccountedFor
<1>1. IInv => TripwireAccountedFor
  BY DEF IInv, AlertInv, Accounted, TripwireAccountedFor
<1>. QED  BY <1>1, Invariance, PTL

\* An asset is alerted twice within the debounce only if the map overflowed in between:
\* a rollback never makes the pipeline forget an alert it kept.
THEOREM IncidentsAlertOnce == Spec => []OneAlertPerIncident
<1>1. IInv => OneAlertPerIncident
  BY DEF IInv, AlertInv
<1>. QED  BY <1>1, Invariance, PTL

\* The snapshot an alert links is of its own asset and recent, although the cache it may
\* come from survives a rollback that its row does not.
THEOREM BlastRadiusShown == Spec => []AlertShowsItsBlastRadius
<1>1. IInv => AlertShowsItsBlastRadius
  BY DEF IInv, SnapInv, ShowsBlastRadius, AlertShowsItsBlastRadius
<1>. QED  BY <1>1, Invariance, PTL

\* Event envelopes leave in strictly increasing id order, across batches, failures and
\* batches delivered again.
THEOREM BroadcastInOrder == Spec => []PublishedInIdOrder
<1>1. IInv => PublishedInIdOrder
  BY DEF IInv, BroadcastInv
<1>. QED  BY <1>1, Invariance, PTL

\* Whatever is up for broadcast as an event is a row of the committed table, or was
\* taken by retention in the transaction that inserted it.
THEOREM BroadcastBacked == Spec => []BroadcastHasItsRow
<1>1. IInv => BroadcastHasItsRow
  BY DEF IInv, ControlInv, RowsInv, HasRow, BroadcastHasItsRow
<1>. QED  BY <1>1, Invariance, PTL

=============================================================================
