------------------------- MODULE LiveConsoleProofs -------------------------
(***************************************************************************)
(* Proofs about the console from start-up to page.  What the process        *)
(* scores with follows from what is in the artifact files (ModelsFit);      *)
(* what the page was shown from how the live frames, the backfills under    *)
(* way and the page's cursor cover the table together (FeedCovers), and     *)
(* how often it shows a row from which rows may still arrive twice          *)
(* (PageCopies).                                                            *)
(***************************************************************************)
EXTENDS LiveConsole, SequenceTheorems, FiniteSetTheorems, WellFoundedInduction, TLAPS

-----------------------------------------------------------------------------
(* The inductive invariants *)

\* What a file holds or a build will write.
FilesFit ==
    /\ capture \in Captures
    /\ file = [k \in Kinds |-> file[k]]
    /\ build \in [Kinds -> [Builders -> {"none", "fitted", "writing", "clashing"}]]
    /\ \A k \in Kinds :
          /\ file[k] \notin {Absent, Torn} =>
                file[k] \in {Fitted(k), Outdated(k)} /\ Accepts(k, TrainedOn(k))
          /\ \A who \in Builders : build[k][who] # "none" => Accepts(k, TrainedOn(k))

\* What the process loaded from them.
ServedFit ==
    /\ \A k \in Kinds : served[k] # NoModel =>
          served[k] = Fitted(k) /\ Accepts(k, TrainedOn(k))
    /\ served["volumetric"] = NoModel => served = Nothing /\ ~ replaying
    /\ server \in {"up", "down"} /\ (server = "down" => served = Nothing)

ModelsFit == FilesFit /\ ServedFit

\* The requests of the page: what they ask after, and the rows that answer them.
RowsAfter(since, n) == [i \in 1 .. n |-> since + i]

RequestsFit ==
    \A r \in requests :
        /\ r \in [since : 0 .. cursor, rows : {NotAnswered} \cup Seq(Nat), upTo : 0 .. dispatched]
        /\ r.rows # NotAnswered =>
              \E n \in Nat : r.since + n <= stored /\ r.rows = RowsAfter(r.since, n)

Increasing(list) == \A m, n \in 1 .. Len(list) : m < n => list[m] < list[n]

\* The table, the loop and the page: who is ahead of whom.
FeedType ==
    /\ stored \in Nat /\ dispatched \in 0 .. stored /\ cursor \in 0 .. stored
    /\ queue \in Seq(1 .. dispatched)
    /\ Increasing(queue)
    /\ RequestsFit

\* An answer that is on its way, or will be, brings the id or excuses it.
Covered(i) == \E r \in requests : r.since < i /\ (r.rows = NotAnswered \/ i <= r.upTo)

\* What the page was not given, for whatever reason.
Missed == excused \cup cut

FeedCovers ==
    /\ link = "open" => \A i \in 1 .. dispatched :
          i \in seen \cup Missed \cup ToSet(queue) \/ Covered(i)
    /\ \A i \in 1 .. cursor : i \in seen \cup Missed \/ Covered(i)
    /\ \A i \in dispatched + 1 .. cursor : i \in seen
    /\ \A i \in ToSet(queue) : i <= cursor => i \in seen

AtMostOnce(list, i) ==
    \A m, n \in 1 .. Len(list) : list[m] = i /\ list[n] = i => m = n

AtMostTwice(list, i) ==
    \A l, m, n \in 1 .. Len(list) :
        list[l] = i /\ list[m] = i /\ list[n] = i => l = m \/ m = n \/ l = n

\* An id that may still come as a live frame is on the page once at most.
PageCopies ==
    /\ screen \in Seq(1 .. stored)
    /\ \A i \in Nat : i \in ToSet(queue) \/ i > dispatched => AtMostOnce(screen, i)
    /\ \A i \in Nat : AtMostTwice(screen, i)

-----------------------------------------------------------------------------
(* Induction over the natural numbers, for a set instead of a predicate *)

\* A set with 0 that is closed under the successor holds every natural number.
LEMMA NatInduct ==
  ASSUME NEW S, 0 \in S, \A n \in Nat : n \in S => n + 1 \in S
  PROVE  \A n \in Nat : n \in S
<1>. DEFINE T == Nat \ S
            R == OpToRel(<, Nat)
<1>1. IsWellFoundedOn(R, Nat)  BY NatLessThanWellFounded
<1>. SUFFICES ASSUME T # {} PROVE FALSE  OBVIOUS
<1>2. PICK x \in T : \A y \in T : ~ (<<y, x>> \in R)  BY <1>1, WFMin
<1>3. x \in Nat /\ x # 0 /\ x - 1 \in Nat /\ x - 1 \in T  OBVIOUS
<1>4. <<x - 1, x>> \in R  BY <1>3 DEF OpToRel
<1>. QED  BY <1>2, <1>3, <1>4

-----------------------------------------------------------------------------
(* What is served *)

\* A fitted model is no NoModel, whatever the capture is.
LEMMA FittedIsModel ==
  ASSUME capture \in Captures, NEW kind \in Kinds
  PROVE  /\ Fitted(kind) # NoModel /\ Fitted(kind).features = Current
         /\ Fitted(kind).rows = TrainedOn(kind)
<1>1. capture[kind] \in Seq([at : Nat, attack : BOOLEAN])  BY ArtifactAssumption
<1>2. Len(capture[kind]) \in Nat /\ DOMAIN capture[kind] = 1 .. Len(capture[kind])  BY <1>1
<1>3. TrainedOn(kind) \in SUBSET Nat
  <2>. DEFINE at == SplitAt(capture[kind])
  <2>1. (1 .. at) \subseteq Nat  OBVIOUS
  <2>. QED  BY <1>2, <2>1 DEF TrainedOn
<1>. QED  BY <1>3, ArtifactAssumption DEF Fitted

\* The initial files are of this code or of an older one, and nothing is served.
LEMMA ModelsInit ==
  ASSUME Init
  PROVE  ModelsFit
<1>. USE DEF Init, ArtifactsInit
<1>1. FilesFit
  <2>1. file = [k \in Kinds |-> file[k]]  OBVIOUS
  <2>2. /\ build \in [Kinds -> [Builders -> {"none", "fitted", "writing", "clashing"}]]
        /\ \A k \in Kinds : \A who \in Builders : build[k][who] = "none"
    BY DEF Idle
  <2>3. \A k \in Kinds : file[k] \notin {Absent, Torn} =>
           file[k] \in {Fitted(k), Outdated(k)} /\ Accepts(k, TrainedOn(k))
    OBVIOUS
  <2>. QED  BY <2>1, <2>2, <2>3 DEF FilesFit
<1>2. ServedFit  BY DEF ServedFit, Nothing, Kinds
<1>. QED  BY <1>1, <1>2 DEF ModelsFit

\* What a file is judged by depends on the capture alone.
LEMMA CaptureKeeps ==
  ASSUME capture' = capture, NEW kind \in Kinds
  PROVE  /\ TrainedOn(kind)' = TrainedOn(kind) /\ Fitted(kind)' = Fitted(kind)
         /\ Outdated(kind)' = Outdated(kind)
         /\ Accepts(kind, TrainedOn(kind))' = Accepts(kind, TrainedOn(kind))
<1>1. TrainedOn(kind)' = TrainedOn(kind)  BY DEF TrainedOn, SplitAt
<1>2. Attacks(kind, TrainedOn(kind))' = Attacks(kind, TrainedOn(kind))  BY <1>1 DEF Attacks
<1>. QED  BY <1>1, <1>2 DEF Fitted, Outdated, Accepts

\* The files that a build leaves alone, and the one it writes.
LEMMA FilesAfter ==
  ASSUME FilesFit, capture' = capture, NEW kind \in Kinds, Accepts(kind, TrainedOn(kind)),
         file' = file \/ file' \in {[file EXCEPT ![kind] = c] : c \in {Torn, Fitted(kind)}},
         build' \in [Kinds -> [Builders -> {"none", "fitted", "writing", "clashing"}]],
         \A k \in Kinds \ {kind} : build'[k] = build[k]
  PROVE  FilesFit'
<1>1. file' = [k \in Kinds |-> file'[k]] /\ \A k \in Kinds \ {kind} : file'[k] = file[k]
  BY DEF FilesFit
<1>2. file'[kind] \notin {Absent, Torn} => file'[kind] \in {Fitted(kind), Outdated(kind)}
  BY DEF FilesFit
<1>3. ASSUME NEW k \in Kinds
      PROVE  /\ (file[k] \notin {Absent, Torn} =>
                   file[k] \in {Fitted(k), Outdated(k)} /\ Accepts(k, TrainedOn(k)))'
             /\ (\A who \in Builders : build[k][who] # "none" => Accepts(k, TrainedOn(k)))'
  <2>1. CASE k = kind  BY <2>1, <1>2, CaptureKeeps
  <2>2. CASE k # kind  BY <2>2, <1>1, CaptureKeeps DEF FilesFit
  <2>. QED  BY <2>1, <2>2
<1>. QED  BY <1>1, <1>3 DEF FilesFit

\* A build starts only where the day is accepted.
LEMMA FitKeepsFiles ==
  ASSUME FilesFit, NEW kind \in Kinds, NEW who \in Builders, Fit(kind, who)
  PROVE  FilesFit'
<1>1. /\ capture' = capture /\ file' = file /\ Accepts(kind, TrainedOn(kind))
      /\ build' = [build EXCEPT ![kind][who] = "fitted"]
  BY DEF Fit
<1>2. /\ build' \in [Kinds -> [Builders -> {"none", "fitted", "writing", "clashing"}]]
      /\ \A k \in Kinds \ {kind} : build'[k] = build[k]
  BY <1>1 DEF FilesFit
<1>. QED  BY <1>1, <1>2, FilesAfter

\* While a build writes, the file is torn; when it is done, the file is what was fitted,
\* or torn if it was not alone.
LEMMA BuildingKeepsFiles ==
  ASSUME FilesFit, NEW kind \in Kinds, NEW who \in Builders,
         OpenFile(kind, who) \/ CloseFile(kind, who)
  PROVE  FilesFit'
<1>. DEFINE stages == {"none", "fitted", "writing", "clashing"}
<1>1. /\ capture' = capture /\ Accepts(kind, TrainedOn(kind))
      /\ build \in [Kinds -> [Builders -> stages]]
  BY DEF OpenFile, CloseFile, FilesFit
<1>2. file' \in {[file EXCEPT ![kind] = c] : c \in {Torn, Fitted(kind)}}
  BY DEF OpenFile, CloseFile
<1>3. /\ build' \in [Kinds -> [Builders -> stages]]
      /\ \A k \in Kinds \ {kind} : build'[k] = build[k]
  <2>1. CASE OpenFile(kind, who)
    <3>. DEFINE writers == WritersWith(kind, who)
                stage == IF writers = {who} THEN "writing" ELSE "clashing"
                opened == [w \in Builders |-> IF w \in writers THEN stage ELSE build[kind][w]]
    <3>1. build' = [build EXCEPT ![kind] = opened]  BY <2>1 DEF OpenFile
    <3>2. stage \in stages /\ build[kind] \in [Builders -> stages]  BY <1>1
    <3>3. opened \in [Builders -> stages]  BY <3>2
    <3>. HIDE DEF opened
    <3>. QED  BY <3>1, <3>3, <1>1
  <2>2. CASE CloseFile(kind, who)
    <3>1. build' = [build EXCEPT ![kind][who] = "none"]  BY <2>2 DEF CloseFile
    <3>. QED  BY <3>1, <1>1
  <2>. QED  BY <2>1, <2>2
<1>. QED  BY <1>1, <1>2, <1>3, FilesAfter

\* Builds that die leave what is on disk.
LEMMA DeathKeepsFiles ==
  ASSUME FilesFit, UNCHANGED <<capture, file>>, build' = build \/ build' = Idle
  PROVE  FilesFit'
<1>1. build' \in [Kinds -> [Builders -> {"none", "fitted", "writing", "clashing"}]]
  BY DEF FilesFit, Idle
<1>2. \A k \in Kinds : \A who \in Builders : build'[k][who] \in {"none", build[k][who]}
  BY DEF FilesFit, Idle
<1>. QED  BY <1>1, <1>2, CaptureKeeps DEF FilesFit

\* The runtime loads what is whole and fits, and nothing without the first model.
LEMMA RuntimeFits ==
  ASSUME FilesFit
  PROVE  /\ \A k \in Kinds : Runtime[k] # NoModel => Runtime[k] = Fitted(k) /\ Accepts(k, TrainedOn(k))
         /\ Runtime["volumetric"] = NoModel => Runtime = Nothing
<1>1. "volumetric" \in Kinds  BY DEF Kinds
<1>2. ASSUME NEW k \in Kinds, Loadable(k)
      PROVE  file[k] = Fitted(k) /\ Accepts(k, TrainedOn(k)) /\ file[k] # NoModel
  <2>1. file[k] \in {Fitted(k), Outdated(k)} /\ file[k].features = Current /\ Accepts(k, TrainedOn(k))
    BY <1>2 DEF Loadable, FilesFit
  <2>2. Outdated(k).features = Older /\ Outdated(k).rows = TrainedOn(k)  BY DEF Outdated
  <2>3. file[k] = Fitted(k)  BY <2>1, <2>2 DEF Fitted, Outdated
  <2>. QED  BY <2>1, <2>3, FittedIsModel DEF FilesFit
<1>3. CASE Loadable("volumetric")
  <2>1. Runtime = [k \in Kinds |-> Loaded(k)]  BY <1>3 DEF Runtime
  <2>2. Runtime["volumetric"] # NoModel  BY <2>1, <1>1, <1>2, <1>3 DEF Loaded
  <2>. QED  BY <2>1, <2>2, <1>2 DEF Loaded
<1>4. CASE ~ Loadable("volumetric")  BY <1>4 DEF Runtime, Nothing
<1>. QED  BY <1>3, <1>4

\* The steps of the feed are none of the models'.
LEMMA FeedKeepsModels ==
  ASSUME ModelsFit, UNCHANGED <<artifactVars, server, served, replaying>>
  PROVE  ModelsFit'
<1>1. FilesFit'  BY DeathKeepsFiles DEF ModelsFit, artifactVars
<1>2. \A k \in Kinds : /\ Fitted(k)' = Fitted(k)
                       /\ Accepts(k, TrainedOn(k))' = Accepts(k, TrainedOn(k))
  BY CaptureKeeps DEF artifactVars
<1>3. ServedFit'  BY <1>2 DEF ServedFit, ModelsFit, Nothing
<1>. QED  BY <1>1, <1>3 DEF ModelsFit

\* Every step keeps what is on disk, and what is loaded from it.
LEMMA ModelsStep ==
  ASSUME ModelsFit, [Next]_vars
  PROVE  ModelsFit'
<1>. USE DEF ModelsFit
<1>0. ASSUME capture' = capture, NEW k \in Kinds
      PROVE  /\ Fitted(k)' = Fitted(k)
             /\ Accepts(k, TrainedOn(k))' = Accepts(k, TrainedOn(k))
  BY <1>0, CaptureKeeps
<1>1. CASE Up  BY <1>1, FeedKeepsModels DEF Up
<1>2. CASE Launch
  <2>1. UNCHANGED artifactVars /\ UNCHANGED replaying  BY <1>2 DEF Launch
  <2>2. FilesFit'  BY <2>1, DeathKeepsFiles DEF artifactVars
  <2>3. CASE server = "up"  BY <1>2, <2>3, FeedKeepsModels DEF Launch
  <2>4. CASE server # "up"
    <3>1. server' = "up" /\ served' = Runtime  BY <1>2, <2>4 DEF Launch
    <3>2. \A k \in Kinds : /\ Fitted(k)' = Fitted(k)
                           /\ Accepts(k, TrainedOn(k))' = Accepts(k, TrainedOn(k))
      BY <2>1, <1>0 DEF artifactVars
    <3>3. server = "down" => ~ replaying  BY DEF ServedFit, Nothing, Kinds
    <3>. QED  BY <2>1, <2>2, <2>4, <3>1, <3>2, <3>3, RuntimeFits DEF ServedFit
  <2>. QED  BY <2>3, <2>4
<1>3. CASE StartReplay
  <2>1. UNCHANGED <<artifactVars, server, served>>  BY <1>3 DEF StartReplay
  <2>2. FilesFit'  BY <2>1, DeathKeepsFiles DEF artifactVars
  <2>3. \A k \in Kinds : /\ Fitted(k)' = Fitted(k)
                         /\ Accepts(k, TrainedOn(k))' = Accepts(k, TrainedOn(k))
    BY <2>1, <1>0 DEF artifactVars
  <2>4. Nothing' = Nothing  BY DEF Nothing
  <2>5. replaying' => replaying \/ served["volumetric"] # NoModel  BY <1>3 DEF StartReplay
  <2>6. ServedFit'  BY <2>1, <2>3, <2>4, <2>5 DEF ServedFit
  <2>. QED  BY <2>2, <2>6
<1>4. CASE Down \/ Crash
  <2>1. server' = "down" /\ served' = Nothing /\ ~ replaying' /\ Nothing' = Nothing
    BY <1>4 DEF Down, Crash, Nothing
  <2>2. UNCHANGED <<capture, file>> /\ (build' = build \/ build' = Idle)
    BY <1>4 DEF Down, Crash, BuildsDie, artifactVars
  <2>3. FilesFit'  BY <2>2, DeathKeepsFiles
  <2>4. ServedFit'  BY <2>1 DEF ServedFit, Nothing, Kinds
  <2>. QED  BY <2>3, <2>4
<1>5. CASE Feed  BY <1>5, FeedKeepsModels DEF Feed, deployVars
<1>6. ASSUME NEW kind \in Kinds, Script(kind) \/ Rebuild(kind) \/ Building(kind)
      PROVE  ModelsFit'
  <2>1. UNCHANGED <<capture, server, served, replaying>>
    BY <1>6 DEF Script, FindModel, BuildModel, BuildRefused, BuildAwaited, Rebuild, Building, Fit,
                OpenFile, CloseFile, deployVars, artifactVars
  <2>2. UNCHANGED artifactVars \/ \E who \in Builders :
            Fit(kind, who) \/ OpenFile(kind, who) \/ CloseFile(kind, who)
    BY <1>6 DEF Script, FindModel, BuildModel, BuildRefused, BuildAwaited, Rebuild, Building,
                Builders
  <2>3. FilesFit'
    BY <2>2, FitKeepsFiles, BuildingKeepsFiles, DeathKeepsFiles DEF artifactVars
  <2>4. \A k \in Kinds : /\ Fitted(k)' = Fitted(k)
                         /\ Accepts(k, TrainedOn(k))' = Accepts(k, TrainedOn(k))
    BY <2>1, <1>0
  <2>5. ServedFit'  BY <2>1, <2>4 DEF ServedFit, Nothing
  <2>. QED  BY <2>3, <2>5
<1>7. CASE UNCHANGED vars  BY <1>7, FeedKeepsModels DEF vars, deployVars
<1>. QED  BY <1>1, <1>2, <1>3, <1>4, <1>5, <1>6, <1>7 DEF Next

\* What the process scores with is what a whole build fitted for the features this code
\* reads (load() of backend/streaming.py and backend/supervised_detector.py), the first
\* model on benign rows alone and the second on some attacks, the second never without
\* the first, and no replay without it (build_runtime() of backend/runtime.py).
THEOREM ServedModelsFit == Spec => []ServedModelsFitTheCode
<1>1. ModelsFit => ServedModelsFitTheCode
  <2>. SUFFICES ASSUME ModelsFit PROVE ServedModelsFitTheCode  OBVIOUS
  <2>1. ASSUME NEW k \in Kinds, served[k] # NoModel
        PROVE  /\ served[k].features = Current
               /\ Attacks(k, served[k].rows) = {} <=> k = "volumetric"
    <3>1. served[k] = Fitted(k) /\ Accepts(k, TrainedOn(k))
      BY <2>1 DEF ModelsFit, ServedFit
    <3>2. served[k].features = Current /\ served[k].rows = TrainedOn(k)
      BY <3>1, FittedIsModel DEF ModelsFit, FilesFit
    <3>3. k = "volumetric" \/ k = "known"  BY DEF Kinds
    <3>. QED  BY <3>1, <3>2, <3>3 DEF Accepts
  <2>. QED  BY <2>1 DEF ServedModelsFitTheCode, ModelsFit, ServedFit
<1>. QED  BY <1>1, ModelsInit, ModelsStep, PTL DEF Spec

-----------------------------------------------------------------------------
(* Small facts: the lesser and the greater of two numbers, queues, rows *)

\* Min and Max of a pair.
LEMMA PairBounds ==
  ASSUME NEW a \in Nat, NEW b \in Nat
  PROVE  /\ Min({a, b}) = IF a <= b THEN a ELSE b
         /\ Max({a, b}) = IF a >= b THEN a ELSE b
<1>1. \E x \in {a, b} : \A y \in {a, b} : x <= y  OBVIOUS
<1>2. \E x \in {a, b} : \A y \in {a, b} : x >= y  OBVIOUS
<1>3. Min({a, b}) \in {a, b} /\ \A y \in {a, b} : Min({a, b}) <= y  BY <1>1 DEF Min
<1>4. Max({a, b}) \in {a, b} /\ \A y \in {a, b} : Max({a, b}) >= y  BY <1>2 DEF Max
<1>. QED  BY <1>3, <1>4

\* The cursor only advances.
LEMMA LaterIs ==
  ASSUME NEW a \in Nat, NEW b \in Nat
  PROVE  Later(a, b) = (IF a >= b THEN a ELSE b)
BY PairBounds DEF Later

LEMMA LaterRange ==
  ASSUME NEW a \in Nat, NEW b \in Nat, a <= b, NEW c \in Nat
  PROVE  (b + 1) .. c \subseteq (a + 1) .. c
OBVIOUS

\* The elements of a sequence after its first is gone.
LEMMA QueueTail ==
  ASSUME NEW D, NEW q \in Seq(D), D \subseteq Nat, q # <<>>, Increasing(q)
  PROVE  /\ Tail(q) \in Seq(D) /\ Increasing(Tail(q)) /\ Len(Tail(q)) = Len(q) - 1
         /\ Head(q) \in D /\ Head(q) \in ToSet(q)
         /\ ToSet(Tail(q)) \subseteq ToSet(q) /\ ToSet(q) = {Head(q)} \cup ToSet(Tail(q))
         /\ \A i \in ToSet(Tail(q)) : i \in Nat /\ i > Head(q)
<1>1. Tail(q) \in Seq(D) /\ Len(Tail(q)) = Len(q) - 1 /\ Head(q) = q[1] /\ Len(q) \in Nat \ {0}
  OBVIOUS
<1>2. \A n \in 1 .. Len(q) - 1 : Tail(q)[n] = q[n + 1]  OBVIOUS
<1>3. Increasing(Tail(q))  BY <1>1, <1>2 DEF Increasing
<1>4. \A n \in 1 .. Len(q) : n = 1 \/ (n - 1 \in 1 .. Len(q) - 1 /\ q[n] = Tail(q)[n - 1])
  BY <1>1, <1>2
<1>5. DOMAIN q = 1 .. Len(q) /\ DOMAIN Tail(q) = 1 .. Len(q) - 1  BY <1>1
<1>6. ToSet(Tail(q)) \subseteq ToSet(q)  BY <1>1, <1>2, <1>5 DEF ToSet
<1>7. ToSet(q) \subseteq {Head(q)} \cup ToSet(Tail(q))
  <2>. SUFFICES ASSUME NEW n \in 1 .. Len(q) PROVE q[n] \in {Head(q)} \cup ToSet(Tail(q))
    BY <1>5 DEF ToSet
  <2>1. CASE n = 1  BY <2>1, <1>1
  <2>2. CASE n # 1
    <3>1. n - 1 \in DOMAIN Tail(q) /\ q[n] = Tail(q)[n - 1]  BY <2>2, <1>4, <1>5
    <3>. QED  BY <3>1 DEF ToSet
  <2>. QED  BY <2>1, <2>2
<1>8. Head(q) \in D /\ Head(q) \in ToSet(q)
  <2>1. 1 \in DOMAIN q /\ q[1] \in D  BY <1>1
  <2>. QED  BY <2>1, <1>1 DEF ToSet
<1>9. \A n \in 1 .. Len(q) - 1 : Tail(q)[n] \in Nat /\ Tail(q)[n] > Head(q)
  <2>. SUFFICES ASSUME NEW n \in 1 .. Len(q) - 1
                PROVE  Tail(q)[n] \in Nat /\ Tail(q)[n] > Head(q)
    OBVIOUS
  <2>1. 1 \in 1 .. Len(q) /\ n + 1 \in 1 .. Len(q) /\ 1 < n + 1  BY <1>1
  <2>2. q[1] < q[n + 1]  BY <2>1 DEF Increasing
  <2>3. q[1] \in D /\ q[n + 1] \in D  BY <2>1
  <2>. QED  BY <2>2, <2>3, <1>1, <1>2
<1>10. \A i \in ToSet(Tail(q)) : i \in Nat /\ i > Head(q)
  <2>. SUFFICES ASSUME NEW i \in ToSet(Tail(q)) PROVE i \in Nat /\ i > Head(q)
    OBVIOUS
  <2>1. PICK n \in 1 .. Len(q) - 1 : i = Tail(q)[n]  BY <1>5 DEF ToSet
  <2>. QED  BY <2>1, <1>9
<1>11. ToSet(q) = {Head(q)} \cup ToSet(Tail(q))  BY <1>6, <1>7, <1>8
<1>. QED  BY <1>1, <1>3, <1>6, <1>8, <1>10, <1>11

\* A new greatest element at the end of a queue.
LEMMA QueueAppend ==
  ASSUME NEW d \in Nat, NEW q \in Seq(1 .. d), Increasing(q)
  PROVE  /\ Append(q, d + 1) \in Seq(1 .. d + 1) /\ Increasing(Append(q, d + 1))
         /\ ToSet(Append(q, d + 1)) = ToSet(q) \cup {d + 1}
<1>. DEFINE p == Append(q, d + 1)
<1>1. q \in Seq(1 .. d + 1)  OBVIOUS
<1>2. p \in Seq(1 .. d + 1) /\ Len(p) = Len(q) + 1 /\ Len(q) \in Nat  BY <1>1
<1>3. \A n \in 1 .. Len(p) : p[n] = IF n <= Len(q) THEN q[n] ELSE d + 1  BY <1>1
<1>4. \A n \in 1 .. Len(q) : q[n] \in 1 .. d  OBVIOUS
<1>5. Increasing(p)  BY <1>2, <1>3, <1>4 DEF Increasing
<1>6. DOMAIN p = 1 .. Len(q) + 1 /\ DOMAIN q = 1 .. Len(q)  BY <1>2
<1>7. ToSet(p) \subseteq ToSet(q) \cup {d + 1}  BY <1>2, <1>3, <1>6 DEF ToSet
<1>8. ToSet(q) \subseteq ToSet(p)  BY <1>2, <1>3, <1>6 DEF ToSet
<1>9. d + 1 \in ToSet(p)
  <2>1. Len(q) + 1 \in DOMAIN p /\ p[Len(q) + 1] = d + 1  BY <1>2, <1>3, <1>6
  <2>. QED  BY <2>1 DEF ToSet
<1>. QED  BY <1>2, <1>5, <1>7, <1>8, <1>9

\* A row of a queue is one of the ids it was given.
LEMMA QueueRange ==
  ASSUME NEW D, NEW q \in Seq(D)
  PROVE  ToSet(q) \subseteq D
BY DEF ToSet

LEMMA EmptyQueue == ToSet(<<>>) = {}
BY DEF ToSet

\* The rows that answer a request, as a set, and the last of them.
LEMMA RowsShape ==
  ASSUME NEW since \in Nat, NEW n \in Nat
  PROVE  /\ RowsAfter(since, n) \in Seq(Nat) /\ Len(RowsAfter(since, n)) = n
         /\ ToSet(RowsAfter(since, n)) = since + 1 .. since + n
         /\ n # 0 => RowsAfter(since, n) # <<>> /\ Last(RowsAfter(since, n)) = since + n
         /\ n = 0 => RowsAfter(since, n) = <<>>
<1>. DEFINE rows == RowsAfter(since, n)
<1>1. rows \in Seq(Nat) /\ Len(rows) = n /\ DOMAIN rows = 1 .. n  BY DEF RowsAfter
<1>2. \A i \in 1 .. n : rows[i] = since + i  BY DEF RowsAfter
<1>3. ToSet(rows) \subseteq since + 1 .. since + n  BY <1>1, <1>2 DEF ToSet
<1>4. ASSUME NEW e \in since + 1 .. since + n PROVE e \in ToSet(rows)
  <2>1. e - since \in 1 .. n /\ rows[e - since] = e  BY <1>2
  <2>. QED  BY <2>1, <1>1 DEF ToSet
<1>5. n # 0 => rows # <<>> /\ Last(rows) = since + n  BY <1>1, <1>2 DEF Last
<1>6. n = 0 => rows = <<>>  BY <1>1
<1>. QED  BY <1>1, <1>3, <1>4, <1>5, <1>6

\* list_events() answers with rows of the table, in order, from the cursor on.
LEMMA AnswerShape ==
  ASSUME stored \in Nat, NEW since \in 0 .. stored
  PROVE  \E n \in Nat : since + n <= stored /\ After(since) = RowsAfter(since, n)
<1>. DEFINE n == Min({Limit, stored - since})
<1>1. Limit \in Nat /\ stored - since \in Nat  BY FeedAssumption
<1>2. n \in Nat /\ n <= stored - since  BY <1>1, PairBounds
<1>. QED  BY <1>2 DEF After, RowsAfter

-----------------------------------------------------------------------------
(* What the page was not given is accounted for *)

\* The page is new and so is the table.
LEMMA FeedInit_Covers ==
  ASSUME Init
  PROVE  FeedType /\ FeedCovers
<1>. USE DEF Init, FeedInit
<1>1. <<>> \in Seq(1 .. 0) /\ Increasing(<<>>)  BY DEF Increasing
<1>2. FeedType  BY <1>1 DEF FeedType, RequestsFit
<1>3. FeedCovers  BY EmptyQueue DEF FeedCovers
<1>. QED  BY <1>2, <1>3

\* The requests stay what they are while the cursor, the loop and the table advance.
LEMMA RequestsKeep ==
  ASSUME FeedType, requests' \subseteq requests,
         cursor' \in Nat, cursor <= cursor', dispatched' \in Nat, dispatched <= dispatched',
         stored' \in Nat, stored <= stored'
  PROVE  RequestsFit'
<1>1. ASSUME NEW r \in requests'
      PROVE  /\ r \in [since : 0 .. cursor', rows : {NotAnswered} \cup Seq(Nat),
                       upTo : 0 .. dispatched']
             /\ r.rows # NotAnswered =>
                   \E n \in Nat : r.since + n <= stored' /\ r.rows = RowsAfter(r.since, n)
  <2>1. /\ r \in [since : 0 .. cursor, rows : {NotAnswered} \cup Seq(Nat), upTo : 0 .. dispatched]
        /\ r.rows # NotAnswered =>
              \E n \in Nat : r.since + n <= stored /\ r.rows = RowsAfter(r.since, n)
        /\ cursor \in Nat /\ dispatched \in Nat /\ stored \in Nat
    BY <1>1 DEF FeedType, RequestsFit
  <2>. QED  BY <2>1
<1>. QED  BY <1>1 DEF RequestsFit, RowsAfter

\* A commit: the requests and the queue stay.
LEMMA CommitCovers ==
  ASSUME FeedType, FeedCovers, Commit
  PROVE  (FeedType /\ FeedCovers)'
<1>1. stored' \in Nat /\ stored <= stored' /\ dispatched' \in 0 .. stored' /\ cursor' \in 0 .. stored'
  BY DEF Commit, FeedType, pageVars
<1>2. RequestsFit'  BY <1>1, RequestsKeep DEF Commit, FeedType, pageVars
<1>3. FeedType'  BY <1>1, <1>2 DEF FeedType, Commit, Increasing
<1>4. FeedCovers'  BY DEF FeedCovers, Covered, Commit, pageVars, Missed, missedVars
<1>. QED  BY <1>3, <1>4

\* The envelope of the next event: in the queue of an open page, where it may push the
\* oldest into what is excused.
LEMMA DispatchCovers ==
  ASSUME FeedType, FeedCovers, Dispatch
  PROVE  (FeedType /\ FeedCovers)'
<1>. DEFINE e == dispatched + 1
<1>1. /\ dispatched' = e /\ e \in 1 .. stored /\ dispatched \in Nat /\ stored \in Nat
      /\ cursor \in 0 .. stored /\ queue \in Seq(1 .. dispatched) /\ Increasing(queue)
      /\ UNCHANGED <<stored, link, cursor, screen, seen, requests, cuts>>
  BY DEF Dispatch, FeedType, pageVars
<1>2. PICK q \in Seq(1 .. dispatched) :
        /\ Increasing(q) /\ ToSet(q) \subseteq ToSet(queue)
        /\ ToSet(queue) \subseteq ToSet(q) \cup Missed'
        /\ Missed \subseteq Missed'
        /\ IF link = "open" THEN queue' = Append(q, e) ELSE queue' = q
  <2>1. CASE link # "open"  BY <2>1, <1>1 DEF Dispatch, Missed
  <2>2. CASE link = "open" /\ Len(queue) < QueueMax  BY <2>2, <1>1 DEF Dispatch, Missed
  <2>3. CASE link = "open" /\ ~ Len(queue) < QueueMax
    <3>1. queue' = Append(Tail(queue), e) /\ Missed' = Missed \cup {Head(queue)}
      BY <2>3, <1>1 DEF Dispatch, Missed
    <3>2. queue # <<>>  BY <2>3, FeedAssumption
    <3>3. /\ Tail(queue) \in Seq(1 .. dispatched) /\ Increasing(Tail(queue))
          /\ ToSet(queue) = {Head(queue)} \cup ToSet(Tail(queue))
      BY <3>2, <1>1, QueueTail
    <3>. QED  BY <2>3, <3>1, <3>3
  <2>. QED  BY <2>1, <2>2, <2>3
<1>3. /\ queue' \in Seq(1 .. e) /\ Increasing(queue') /\ ToSet(q) \subseteq ToSet(queue')
      /\ ToSet(queue') \subseteq ToSet(q) \cup {e}
      /\ link = "open" => e \in ToSet(queue')
  <2>1. CASE link = "open"  BY <2>1, <1>1, <1>2, QueueAppend
  <2>2. CASE link # "open"
    <3>1. q \in Seq(1 .. e)  BY <1>1
    <3>. QED  BY <2>2, <1>2, <3>1
  <2>. QED  BY <2>1, <2>2
<1>4. RequestsFit'  BY <1>1, RequestsKeep
<1>5. FeedType'  BY <1>1, <1>3, <1>4 DEF FeedType, Increasing
<1>6. \A i : Covered(i)' <=> Covered(i)  BY <1>1 DEF Covered
<1>7. FeedCovers'
  <2>1. ASSUME link = "open", NEW i \in 1 .. e
        PROVE  i \in seen \cup Missed' \cup ToSet(queue') \/ Covered(i)
    <3>1. CASE i = e  BY <3>1, <2>1, <1>3
    <3>2. CASE i # e
      <4>1. i \in seen \cup Missed \cup ToSet(queue) \/ Covered(i)
        BY <3>2, <2>1, <1>1 DEF FeedCovers
      <4>. QED  BY <4>1, <1>2, <1>3
    <3>. QED  BY <3>1, <3>2
  <2>2. ASSUME NEW i \in 1 .. cursor
        PROVE  i \in seen \cup Missed' \/ Covered(i)
    BY <2>2, <1>2 DEF FeedCovers
  <2>3. ASSUME NEW i \in e + 1 .. cursor
        PROVE  i \in seen
    BY <2>3, <1>1 DEF FeedCovers
  <2>4. ASSUME NEW i \in ToSet(queue'), i <= cursor
        PROVE  i \in seen
    <3>1. CASE i = e  BY <3>1, <2>4, <1>1 DEF FeedCovers
    <3>2. CASE i \in ToSet(q)  BY <3>2, <2>4, <1>2 DEF FeedCovers
    <3>. QED  BY <3>1, <3>2, <2>4, <1>3
  <2>. QED  BY <2>1, <2>2, <2>3, <2>4, <1>1, <1>6 DEF FeedCovers
<1>. QED  BY <1>5, <1>7

\* The answer of a backfill covers what was offered by then; the page saw what the
\* backfills brought it beyond that.
LEMMA AnswerCovers ==
  ASSUME FeedType, FeedCovers, NEW r \in requests, Answer(r)
  PROVE  (FeedType /\ FeedCovers)'
<1>. DEFINE a == [r EXCEPT !.rows = After(r.since), !.upTo = dispatched]
<1>1. /\ r \in [since : 0 .. cursor, rows : {NotAnswered} \cup Seq(Nat), upTo : 0 .. dispatched]
      /\ r.rows = NotAnswered /\ requests' = (requests \ {r}) \cup {a}
      /\ UNCHANGED <<stored, dispatched, link, queue, cursor, screen, seen, cuts, Missed>>
      /\ dispatched \in 0 .. stored /\ cursor \in 0 .. stored /\ stored \in Nat
  BY DEF Answer, FeedType, RequestsFit, tableVars, pageVars, Missed, missedVars
<1>2. PICK n \in Nat : r.since + n <= stored /\ After(r.since) = RowsAfter(r.since, n)
  BY <1>1, AnswerShape
<1>3. /\ a \in [since : 0 .. cursor, rows : {NotAnswered} \cup Seq(Nat), upTo : 0 .. dispatched]
      /\ a.since = r.since /\ a.rows = RowsAfter(r.since, n) /\ a.upTo = dispatched
      /\ a.rows # NotAnswered
  <2>1. r.since \in Nat  BY <1>1
  <2>2. RowsAfter(r.since, n) \in Seq(Nat)  BY <2>1, RowsShape
  <2>3. a.since = r.since /\ a.rows = RowsAfter(r.since, n) /\ a.upTo = dispatched
    BY <1>1, <1>2
  <2>4. a \in [since : 0 .. cursor, rows : {NotAnswered} \cup Seq(Nat), upTo : 0 .. dispatched]
    <3>1. dispatched \in 0 .. dispatched /\ After(r.since) \in {NotAnswered} \cup Seq(Nat)
      BY <1>1, <1>2, <2>2
    <3>2. ASSUME NEW S, NEW T, NEW U, NEW q \in [since : S, rows : T, upTo : U],
                 NEW x \in T, NEW u \in U
          PROVE  [q EXCEPT !.rows = x, !.upTo = u] \in [since : S, rows : T, upTo : U]
      OBVIOUS
    <3>. QED  BY <3>1, <3>2, <1>1
  <2>5. NotAnswered \notin Seq(Nat)  BY FeedAssumption
  <2>. QED  BY <2>2, <2>3, <2>4, <2>5
<1>4. RequestsFit'
  <2>. SUFFICES ASSUME NEW b \in requests'
                PROVE  /\ b \in [since : 0 .. cursor, rows : {NotAnswered} \cup Seq(Nat), upTo : 0 .. dispatched]
                       /\ b.rows # NotAnswered =>
                             \E m \in Nat : b.since + m <= stored /\ b.rows = RowsAfter(b.since, m)
    BY <1>1 DEF RequestsFit, RowsAfter
  <2>1. CASE b \in requests  BY <2>1 DEF FeedType, RequestsFit
  <2>2. CASE b = a  BY <2>2, <1>2, <1>3
  <2>. QED  BY <2>1, <2>2, <1>1
<1>5. FeedType'  BY <1>1, <1>4 DEF FeedType, Increasing
<1>6. ASSUME NEW i \in Nat, Covered(i)
      PROVE  Covered(i)' \/ i > dispatched
  <2>1. PICK b \in requests : b.since < i /\ (b.rows = NotAnswered \/ i <= b.upTo)
    BY <1>6 DEF Covered
  <2>2. CASE b # r  BY <2>1, <2>2, <1>1 DEF Covered
  <2>3. CASE b = r
    <3>1. CASE i <= dispatched
      <4>1. a \in requests' /\ a.since < i /\ i <= a.upTo  BY <2>1, <2>3, <3>1, <1>1, <1>3
      <4>. QED  BY <4>1 DEF Covered
    <3>. QED  BY <3>1, <1>1
  <2>. QED  BY <2>2, <2>3
<1>7. FeedCovers'
  <2>1. ASSUME link = "open", NEW i \in 1 .. dispatched
        PROVE  i \in seen \cup Missed \cup ToSet(queue) \/ Covered(i)'
    <3>1. i \in Nat /\ ~ i > dispatched  BY <1>1
    <3>. QED  BY <2>1, <3>1, <1>6 DEF FeedCovers
  <2>2. ASSUME NEW i \in 1 .. cursor
        PROVE  i \in seen \cup Missed \/ Covered(i)'
    <3>1. CASE i > dispatched  BY <3>1, <2>2, <1>1 DEF FeedCovers
    <3>2. CASE ~ i > dispatched
      <4>1. i \in Nat  BY <1>1
      <4>. QED  BY <3>2, <4>1, <2>2, <1>6 DEF FeedCovers
    <3>. QED  BY <3>1, <3>2
  <2>. QED  BY <2>1, <2>2, <1>1 DEF FeedCovers
<1>. QED  BY <1>5, <1>7

\* Connections that are not made, or break, leave what the page knows alone: only frames
\* of a socket that is gone are lost, and nothing is promised to a page without one.
LEMMA LinkCovers ==
  ASSUME FeedType, FeedCovers, UNCHANGED <<tableVars, pageVars, requests, Missed>>,
         UNCHANGED <<link, queue>> \/ (link' # "open" /\ queue' \in {queue, <<>>})
  PROVE  (FeedType /\ FeedCovers)'
<1>. USE DEF tableVars, pageVars
<1>1. stored \in Nat /\ dispatched \in 0 .. stored /\ cursor \in 0 .. stored
      /\ queue \in Seq(1 .. dispatched) /\ Increasing(queue)
  BY DEF FeedType
<1>2. <<>> \in Seq(1 .. dispatched) /\ Increasing(<<>>)  BY DEF Increasing
<1>3. queue' \in Seq(1 .. dispatched) /\ Increasing(queue') /\ ToSet(queue') \subseteq ToSet(queue)
  BY <1>1, <1>2, EmptyQueue
<1>4. RequestsFit'  BY <1>1, RequestsKeep
<1>5. FeedType'  BY <1>1, <1>3, <1>4 DEF FeedType, Increasing
<1>6. \A i : Covered(i)' <=> Covered(i)  BY DEF Covered
<1>7. FeedCovers'
  <2>1. ASSUME link' = "open", NEW i \in 1 .. dispatched
        PROVE  i \in seen \cup Missed \cup ToSet(queue') \/ Covered(i)
    BY <2>1 DEF FeedCovers
  <2>. QED  BY <2>1, <1>3, <1>6 DEF FeedCovers
<1>. QED  BY <1>5, <1>7

\* A page that connects asks for what came after its cursor, or is new and owed nothing.
LEMMA OpenCovers ==
  ASSUME FeedType, FeedCovers, Open
  PROVE  (FeedType /\ FeedCovers)'
<1>1. /\ stored \in Nat /\ dispatched \in 0 .. stored /\ cursor \in 0 .. stored
      /\ queue' = <<>> /\ link' = "open" /\ UNCHANGED <<stored, dispatched, cursor, screen, seen, cuts>>
      /\ IF cursor = 0
           THEN Missed' = Missed \cup 1 .. dispatched /\ requests' = requests
           ELSE requests' = requests \cup {Backfill} /\ Missed' = Missed
  BY DEF Open, FeedType, tableVars, pageVars, Missed
<1>2. Backfill.since = cursor /\ Backfill.rows = NotAnswered
      /\ Backfill \in [since : 0 .. cursor, rows : {NotAnswered} \cup Seq(Nat), upTo : 0 .. dispatched]
  BY <1>1 DEF Backfill
<1>3. RequestsFit'
  <2>. SUFFICES ASSUME NEW b \in requests'
                PROVE  /\ b \in [since : 0 .. cursor, rows : {NotAnswered} \cup Seq(Nat), upTo : 0 .. dispatched]
                       /\ b.rows # NotAnswered =>
                             \E m \in Nat : b.since + m <= stored /\ b.rows = RowsAfter(b.since, m)
    BY <1>1 DEF RequestsFit, RowsAfter
  <2>1. CASE b \in requests  BY <2>1 DEF FeedType, RequestsFit
  <2>2. CASE b = Backfill  BY <2>2, <1>2
  <2>. QED  BY <2>1, <2>2, <1>1
<1>4. <<>> \in Seq(1 .. dispatched) /\ Increasing(<<>>)  BY DEF Increasing
<1>5. FeedType'  BY <1>1, <1>3, <1>4 DEF FeedType, Increasing
<1>6. ASSUME NEW i, Covered(i) PROVE Covered(i)'
  <2>1. requests \subseteq requests'  BY <1>1
  <2>. QED  BY <1>6, <2>1 DEF Covered
<1>7. FeedCovers'
  <2>1. ASSUME NEW i \in 1 .. cursor
        PROVE  i \in seen \cup Missed' \/ Covered(i)'
    BY <2>1, <1>1, <1>6 DEF FeedCovers
  <2>2. ASSUME NEW i \in 1 .. dispatched
        PROVE  i \in seen \cup Missed' \cup ToSet(queue') \/ Covered(i)'
    <3>1. CASE cursor = 0  BY <3>1, <1>1
    <3>2. CASE cursor # 0 /\ i \in 1 .. cursor  BY <3>2, <2>1
    <3>3. CASE cursor # 0 /\ i \notin 1 .. cursor
      <4>1. Backfill \in requests' /\ Backfill.since < i  BY <3>3, <1>1, <1>2
      <4>. QED  BY <4>1, <1>2 DEF Covered
    <3>. QED  BY <3>1, <3>2, <3>3
  <2>. QED  BY <2>1, <2>2, <1>1, EmptyQueue DEF FeedCovers
<1>. QED  BY <1>5, <1>7

\* A live frame is the least id in the queue: what the cursor skips was not on its way.
LEMMA LiveCovers ==
  ASSUME FeedType, FeedCovers, Live
  PROVE  (FeedType /\ FeedCovers)'
<1>. DEFINE h == Head(queue)
<1>1. /\ stored \in Nat /\ dispatched \in 0 .. stored /\ cursor \in 0 .. stored
      /\ queue \in Seq(1 .. dispatched) /\ Increasing(queue) /\ queue # <<>> /\ link = "open"
      /\ queue' = Tail(queue) /\ cursor' = Later(cursor, h) /\ seen' = seen \cup {h}
      /\ UNCHANGED <<stored, dispatched, link, requests, cuts, Missed>>
  BY DEF Live, FeedType, tableVars, Missed, missedVars
<1>2. /\ queue' \in Seq(1 .. dispatched) /\ Increasing(queue') /\ h \in 1 .. dispatched
      /\ ToSet(queue) = {h} \cup ToSet(queue') /\ \A i \in ToSet(queue') : i \in Nat /\ i > h
  <2>1. (1 .. dispatched) \subseteq Nat  BY <1>1
  <2>2. /\ Tail(queue) \in Seq(1 .. dispatched) /\ Increasing(Tail(queue)) /\ h \in 1 .. dispatched
        /\ ToSet(queue) = {h} \cup ToSet(Tail(queue))
        /\ \A i \in ToSet(Tail(queue)) : i \in Nat /\ i > h
    BY <2>1, <1>1, QueueTail
  <2>. QED  BY <2>2, <1>1
<1>3. cursor' = (IF cursor >= h THEN cursor ELSE h) /\ cursor' \in 0 .. stored /\ cursor <= cursor'
  <2>1. cursor \in Nat /\ h \in Nat  BY <1>1, <1>2
  <2>2. Later(cursor, h) = IF cursor >= h THEN cursor ELSE h  BY <2>1, LaterIs
  <2>. QED  BY <2>1, <2>2, <1>1, <1>2
<1>4. RequestsFit'  BY <1>1, <1>3, RequestsKeep
<1>5. FeedType'  BY <1>1, <1>2, <1>3, <1>4 DEF FeedType, Increasing
<1>6. \A i : Covered(i)' <=> Covered(i)  BY <1>1 DEF Covered
<1>7. FeedCovers'
  <2>1. ASSUME NEW i \in 1 .. dispatched
        PROVE  i \in seen' \cup Missed \cup ToSet(queue') \/ Covered(i)
    BY <2>1, <1>1, <1>2 DEF FeedCovers
  <2>2. ASSUME NEW i \in 1 .. cursor'
        PROVE  i \in seen' \cup Missed \/ Covered(i)
    <3>1. CASE i <= cursor  BY <3>1, <2>2, <1>1, <1>3 DEF FeedCovers
    <3>2. CASE ~ i <= cursor
      <4>1. i \in 1 .. dispatched /\ i <= h  BY <3>2, <2>2, <1>1, <1>2, <1>3
      <4>2. i \notin ToSet(queue')  BY <4>1, <1>1, <1>2
      <4>. QED  BY <4>1, <4>2, <2>1
    <3>. QED  BY <3>1, <3>2
  <2>3. ASSUME NEW i \in dispatched + 1 .. cursor'
        PROVE  i \in seen'
    BY <2>3, <1>1, <1>2, <1>3 DEF FeedCovers
  <2>4. ASSUME NEW i \in ToSet(queue'), i <= cursor'
        PROVE  i \in seen'
    <3>1. i \in Nat /\ i > h /\ i \in ToSet(queue)  BY <2>4, <1>2
    <3>2. i <= cursor  BY <3>1, <2>4, <1>1, <1>2, <1>3
    <3>. QED  BY <3>1, <3>2, <1>1 DEF FeedCovers
  <2>. QED  BY <2>1, <2>2, <2>3, <2>4, <1>1, <1>6 DEF FeedCovers
<1>. QED  BY <1>5, <1>7

\* A request that ends takes its cover along: what it covered and nobody saw is excused,
\* unless it is still in the queue and ahead of the page.
LEMMA RequestEnds ==
  ASSUME FeedType, FeedCovers, NEW r \in requests, NEW to \in Nat, to <= dispatched,
         r.rows = NotAnswered => to = dispatched, r.rows # NotAnswered => to = r.upTo,
         NEW from \in Nat, r.since <= from,
         NEW i \in Nat, r.since < i, r.rows = NotAnswered \/ i <= r.upTo,
         i <= from => i \in seen', seen \subseteq seen',
         Uncovered(from, to) \subseteq Missed',
         i <= cursor \/ i <= dispatched
  PROVE  i \in seen' \cup Missed' \/ (i \in ToSet(queue) /\ i > cursor)
<1>1. /\ r.since \in 0 .. cursor /\ dispatched \in Nat /\ cursor \in Nat
  BY DEF FeedType, RequestsFit
<1>2. CASE i <= from  BY <1>2
<1>3. CASE i > dispatched  BY <1>3, <1>1 DEF FeedCovers
<1>4. CASE ~ i <= from /\ ~ i > dispatched
  <2>1. i \in from + 1 .. to  BY <1>4, <1>1
  <2>2. i \in seen \/ i \in ToSet(queue) \/ i \in Uncovered(from, to)  BY <2>1 DEF Uncovered
  <2>3. i \in ToSet(queue) => i \in seen \/ i > cursor  BY <1>1 DEF FeedCovers
  <2>. QED  BY <2>2, <2>3
<1>. QED  BY <1>2, <1>3, <1>4

\* An answer that arrives: its rows are seen, what it left out of what it covered is
\* excused.
LEMMA BackfilledCovers ==
  ASSUME FeedType, FeedCovers, NEW r \in requests, Backfilled(r)
  PROVE  (FeedType /\ FeedCovers)'
<1>1. /\ stored \in Nat /\ dispatched \in 0 .. stored /\ cursor \in 0 .. stored
      /\ queue \in Seq(1 .. dispatched) /\ Increasing(queue)
      /\ r.rows # NotAnswered /\ requests' = requests \ {r}
      /\ Missed' = Missed \cup Uncovered(r.since + Len(r.rows), r.upTo)
      /\ UNCHANGED <<stored, dispatched, link, queue, cuts>>
  BY DEF Backfilled, FeedType, tableVars, Missed
<1>2. /\ r.since \in 0 .. cursor /\ r.upTo \in 0 .. dispatched
      /\ \E n \in Nat : r.since + n <= stored /\ r.rows = RowsAfter(r.since, n)
  BY <1>1 DEF FeedType, RequestsFit
<1>3. PICK n \in Nat : r.since + n <= stored /\ r.rows = RowsAfter(r.since, n)
  BY <1>2
<1>. DEFINE last == r.since + n
<1>4. r.since \in Nat /\ Len(r.rows) = n /\ last \in 0 .. stored /\ last \in Nat
  <2>1. r.since \in Nat  BY <1>1, <1>2
  <2>2. Len(RowsAfter(r.since, n)) = n  BY <2>1, RowsShape
  <2>. QED  BY <2>1, <2>2, <1>1, <1>2, <1>3
<1>5. /\ cursor' = (IF cursor >= last THEN cursor ELSE last) /\ cursor' \in 0 .. stored
      /\ cursor <= cursor' /\ seen' = seen \cup (r.since + 1 .. last)
  <2>1. CASE r.rows = <<>>
    <3>1. n = 0  BY <2>1, <1>4
    <3>2. cursor' = cursor /\ seen' = seen  BY <2>1 DEF Backfilled
    <3>. QED  BY <3>1, <3>2, <1>1, <1>2
  <2>2. CASE r.rows # <<>>
    <3>1. n # 0  BY <2>2, <1>3, <1>4, RowsShape
    <3>2. Last(r.rows) = last /\ ToSet(r.rows) = r.since + 1 .. last
      BY <3>1, <1>3, <1>4, RowsShape
    <3>3. cursor' = Later(cursor, last) /\ seen' = seen \cup (r.since + 1 .. last)
      BY <2>2, <3>2 DEF Backfilled
    <3>4. cursor \in Nat /\ Later(cursor, last) = IF cursor >= last THEN cursor ELSE last
      BY <1>1, <1>4, LaterIs
    <3>. QED  BY <3>3, <3>4, <1>1, <1>4
  <2>. QED  BY <2>1, <2>2
<1>6. RequestsFit'  BY <1>1, <1>5, RequestsKeep
<1>7. FeedType'  BY <1>1, <1>5, <1>6 DEF FeedType, Increasing
<1>8. ASSUME NEW i \in Nat, Covered(i), i <= cursor \/ i <= dispatched
      PROVE  Covered(i)' \/ i \in seen' \cup Missed' \/ (i \in ToSet(queue) /\ i > cursor)
  <2>1. PICK b \in requests : b.since < i /\ (b.rows = NotAnswered \/ i <= b.upTo)
    BY <1>8 DEF Covered
  <2>2. CASE b # r  BY <2>1, <2>2, <1>1 DEF Covered
  <2>3. CASE b = r
    <3>1. /\ r.upTo \in Nat /\ r.upTo <= dispatched /\ r.since <= last
          /\ i <= last => i \in seen' /\ seen \subseteq seen'
          /\ Uncovered(last, r.upTo) \subseteq Missed'
      BY <2>1, <2>3, <1>1, <1>2, <1>4, <1>5
    <3>2. i <= last => i \in seen'  BY <2>1, <2>3, <1>1, <1>2, <1>4, <1>5
    <3>3. seen \subseteq seen'  BY <1>5
    <3>. QED  BY <2>1, <2>3, <3>1, <3>2, <3>3, <1>1, <1>4, <1>8, RequestEnds
  <2>. QED  BY <2>2, <2>3
<1>9. FeedCovers'
  <2>1. ASSUME link = "open", NEW i \in 1 .. dispatched
        PROVE  i \in seen' \cup Missed' \cup ToSet(queue) \/ Covered(i)'
    <3>1. i \in Nat /\ i <= dispatched  BY <1>1
    <3>2. i \in seen \cup Missed \cup ToSet(queue) \/ Covered(i)  BY <2>1 DEF FeedCovers
    <3>. QED  BY <3>1, <3>2, <1>1, <1>5, <1>8
  <2>2. ASSUME NEW i \in 1 .. cursor'
        PROVE  i \in seen' \cup Missed' \/ Covered(i)'
    <3>1. CASE i <= cursor
      <4>1. i \in Nat /\ i \in 1 .. cursor /\ ~ i > cursor  BY <3>1, <1>1, <1>5
      <4>2. i \in seen \cup Missed \/ Covered(i)  BY <4>1 DEF FeedCovers
      <4>. QED  BY <4>1, <4>2, <3>1, <1>1, <1>5, <1>8
    <3>2. CASE ~ i <= cursor
      <4>1. i \in r.since + 1 .. last  BY <3>2, <1>1, <1>2, <1>4, <1>5
      <4>. QED  BY <4>1, <1>5
    <3>. QED  BY <3>1, <3>2
  <2>3. ASSUME NEW i \in dispatched + 1 .. cursor'
        PROVE  i \in seen'
    <3>1. CASE i <= cursor
      <4>1. i \in dispatched + 1 .. cursor  BY <3>1, <1>1, <1>5
      <4>. QED  BY <4>1, <1>5 DEF FeedCovers
    <3>2. CASE ~ i <= cursor
      <4>1. i \in r.since + 1 .. last  BY <3>2, <1>1, <1>2, <1>4, <1>5
      <4>. QED  BY <4>1, <1>5
    <3>. QED  BY <3>1, <3>2
  <2>4. ASSUME NEW i \in ToSet(queue), i <= cursor'
        PROVE  i \in seen'
    <3>1. CASE i <= cursor  BY <3>1, <1>5 DEF FeedCovers
    <3>2. CASE ~ i <= cursor
      <4>1. i \in 1 .. dispatched  BY <1>1, QueueRange
      <4>2. i \in r.since + 1 .. last  BY <4>1, <3>2, <2>4, <1>1, <1>2, <1>4, <1>5
      <4>. QED  BY <4>2, <1>5
    <3>. QED  BY <3>1, <3>2
  <2>. QED  BY <2>1, <2>2, <2>3, <2>4, <1>1 DEF FeedCovers
<1>. QED  BY <1>7, <1>9

\* Requests that fail, one or all that have no answer yet: what they covered is excused.
LEMMA FailureCovers ==
  ASSUME FeedType, FeedCovers, NEW failed \in SUBSET requests,
         requests' = requests \ failed,
         Missed' = Missed \cup UNION {Uncovered(r.since, dispatched) : r \in failed},
         UNCHANGED <<stored, pageVars>>,
         \/ UNCHANGED <<dispatched, link, queue>>
         \/ dispatched' = stored /\ link' # "open" /\ queue' = <<>>
  PROVE  (FeedType /\ FeedCovers)'
<1>. USE DEF pageVars
<1>1. /\ stored \in Nat /\ dispatched \in 0 .. stored /\ cursor \in 0 .. stored
      /\ queue \in Seq(1 .. dispatched) /\ Increasing(queue)
  BY DEF FeedType
<1>2. <<>> \in Seq(1 .. stored) /\ Increasing(<<>>)  BY DEF Increasing
<1>3. /\ dispatched' \in 0 .. stored /\ dispatched <= dispatched'
      /\ queue' \in Seq(1 .. dispatched') /\ Increasing(queue')
  <2>1. CASE UNCHANGED <<dispatched, link, queue>>  BY <2>1, <1>1
  <2>2. CASE dispatched' = stored /\ queue' = <<>>  BY <2>2, <1>1, <1>2
  <2>. QED  BY <2>1, <2>2
<1>4. RequestsFit'  BY <1>1, <1>3, RequestsKeep
<1>5. FeedType'  BY <1>1, <1>3, <1>4 DEF FeedType, Increasing
<1>6. ASSUME NEW i \in Nat, Covered(i), i <= cursor \/ i <= dispatched
      PROVE  Covered(i)' \/ i \in seen' \cup Missed' \/ (i \in ToSet(queue) /\ i > cursor)
  <2>1. PICK b \in requests : b.since < i /\ (b.rows = NotAnswered \/ i <= b.upTo)
    BY <1>6 DEF Covered
  <2>2. CASE b \notin failed  BY <2>1, <2>2 DEF Covered
  <2>3. CASE b \in failed
    <3>1. b.since \in 0 .. cursor /\ b.upTo \in 0 .. dispatched  BY DEF FeedType, RequestsFit
    <3>2. i \in seen \/ i \in ToSet(queue) \/ i > dispatched \/ i \in Uncovered(b.since, dispatched)
      BY <2>1, <3>1, <1>1 DEF Uncovered
    <3>3. Uncovered(b.since, dispatched) \subseteq Missed'  BY <2>3
    <3>4. i > dispatched => i \in seen  BY <1>1, <1>6 DEF FeedCovers
    <3>5. i \in ToSet(queue) /\ i <= cursor => i \in seen  BY DEF FeedCovers
    <3>. QED  BY <3>2, <3>3, <3>4, <3>5, <1>1
  <2>. QED  BY <2>2, <2>3
<1>7. FeedCovers'
  <2>1. ASSUME link' = "open", NEW i \in 1 .. dispatched'
        PROVE  i \in seen \cup Missed' \cup ToSet(queue') \/ Covered(i)'
    <3>1. UNCHANGED <<dispatched, link, queue>>  BY <2>1
    <3>2. i \in Nat /\ i <= dispatched  BY <3>1, <1>1
    <3>3. i \in seen \cup Missed \cup ToSet(queue) \/ Covered(i)  BY <2>1, <3>1 DEF FeedCovers
    <3>. QED  BY <3>1, <3>2, <3>3, <1>6
  <2>2. ASSUME NEW i \in 1 .. cursor
        PROVE  i \in seen \cup Missed' \/ Covered(i)'
    <3>1. i \in Nat /\ i <= cursor /\ ~ i > cursor  BY <1>1
    <3>2. i \in seen \cup Missed \/ Covered(i)  BY DEF FeedCovers
    <3>. QED  BY <3>1, <3>2, <1>6
  <2>3. \A i \in (dispatched' + 1) .. cursor : i \in seen
    <3>1. dispatched \in Nat /\ dispatched' \in Nat /\ cursor \in Nat /\ dispatched <= dispatched'
      BY <1>1, <1>3
    <3>2. (dispatched' + 1) .. cursor \subseteq (dispatched + 1) .. cursor
      BY <3>1, LaterRange
    <3>. QED  BY <3>2 DEF FeedCovers
  <2>4. ASSUME NEW i \in ToSet(queue'), i <= cursor
        PROVE  i \in seen
    <3>1. queue' = queue  BY <2>4, EmptyQueue
    <3>. QED  BY <3>1, <2>4 DEF FeedCovers
  <2>. QED  BY <2>1, <2>2, <2>3, <2>4 DEF FeedCovers
<1>. QED  BY <1>5, <1>7

\* Every step keeps what covers the table.
LEMMA CoversStep ==
  ASSUME FeedType, FeedCovers, [Next]_vars
  PROVE  (FeedType /\ FeedCovers)'
<1>1. CASE UNCHANGED feedVars  BY <1>1, LinkCovers DEF feedVars, missedVars, Missed
<1>2. CASE Severed
  <2>1. Unanswered \in SUBSET requests  BY DEF Unanswered
  <2>2. /\ requests' = requests \ Unanswered
        /\ Missed' = Missed \cup UNION {Uncovered(r.since, dispatched) : r \in Unanswered}
        /\ UNCHANGED <<stored, pageVars>>
        /\ dispatched' = stored /\ link' # "open" /\ queue' = <<>>
    BY <1>2 DEF Severed, AfterClose, Missed
  <2>. QED  BY <2>1, <2>2, FailureCovers
<1>3. CASE Feed
  <2>1. CASE Commit  BY <2>1, CommitCovers
  <2>2. CASE Dispatch  BY <2>2, DispatchCovers
  <2>3. ASSUME NEW r \in requests, Answer(r) \/ Backfilled(r) \/ BackfillFails(r)
        PROVE  (FeedType /\ FeedCovers)'
    <3>1. CASE Answer(r)  BY <3>1, AnswerCovers
    <3>2. CASE Backfilled(r)  BY <3>2, BackfilledCovers
    <3>3. CASE BackfillFails(r)
      <4>1. /\ {r} \in SUBSET requests /\ requests' = requests \ {r}
            /\ Missed' = Missed \cup UNION {Uncovered(b.since, dispatched) : b \in {r}}
            /\ UNCHANGED <<stored, pageVars, dispatched, link, queue>>
        BY <3>3 DEF BackfillFails, tableVars, Missed
      <4>. QED  BY <4>1, FailureCovers
    <3>. QED  BY <2>3, <3>1, <3>2, <3>3
  <2>4. CASE Connect \/ Refused \/ Break \/ ForceReconnect
    BY <2>4, LinkCovers DEF Connect, Refused, Break, ForceReconnect, AfterClose, missedVars, Missed
  <2>5. CASE Open  BY <2>5, OpenCovers
  <2>6. CASE Live  BY <2>6, LiveCovers
  <2>. QED  BY <1>3, <2>1, <2>2, <2>3, <2>4, <2>5, <2>6 DEF Feed
<1>4. CASE Down \/ Crash  BY <1>4, <1>2 DEF Down, Crash
<1>5. CASE Up \/ Launch \/ StartReplay
           \/ \E kind \in Kinds : Script(kind) \/ Rebuild(kind) \/ Building(kind)
  BY <1>5, <1>1 DEF Up, Launch, StartReplay, Script, FindModel, BuildModel, BuildRefused,
                    BuildAwaited, Rebuild, Building
<1>6. CASE UNCHANGED vars  BY <1>6, <1>1 DEF vars
<1>. QED  BY <1>3, <1>4, <1>5, <1>6 DEF Next

\* There are five ways to miss an id up to the page's cursor, and no other: a backfill still
\* owes it, it was there before the page was, it fell to a counted overflow or to a backfill
\* that failed with a warning, or it was beyond the limit of a backfill, which nothing
\* reports (frontend/src/lib/useEventStream.ts, backend/ws_broadcaster.py).
THEOREM NothingLost == Spec => []MissingIsAccounted
<1>1. FeedCovers => MissingIsAccounted  BY DEF FeedCovers, Covered, MissingIsAccounted, Missed
<1>. QED  BY <1>1, FeedInit_Covers, CoversStep, PTL DEF Spec

-----------------------------------------------------------------------------
(* No row is on the page a third time *)

\* A row in front of the page.
LEMMA PushFront ==
  ASSUME NEW D, NEW list \in Seq(D), NEW e \in D
  PROVE  /\ <<e>> \o list \in Seq(D) /\ Len(<<e>> \o list) = Len(list) + 1
         /\ (<<e>> \o list)[1] = e
         /\ \A n \in 2 .. Len(list) + 1 : n - 1 \in 1 .. Len(list) /\ (<<e>> \o list)[n] = list[n - 1]
OBVIOUS

\* The other rows are on it as often as they were, and this one once more.
LEMMA PushCopies ==
  ASSUME NEW D, NEW list \in Seq(D), NEW e \in D, NEW i
  PROVE  /\ i # e \/ e \notin ToSet(list) =>
              /\ AtMostOnce(list, i) => AtMostOnce(<<e>> \o list, i)
              /\ AtMostTwice(list, i) => AtMostTwice(<<e>> \o list, i)
         /\ AtMostOnce(list, i) => AtMostTwice(<<e>> \o list, i)
<1>. DEFINE p == <<e>> \o list
<1>1. /\ Len(p) = Len(list) + 1 /\ Len(list) \in Nat /\ p[1] = e
      /\ \A n \in 2 .. Len(p) : n - 1 \in 1 .. Len(list) /\ p[n] = list[n - 1]
  BY PushFront
<1>2. \A n \in 1 .. Len(p) : n \in Nat /\ (n = 1 \/ n \in 2 .. Len(p))  BY <1>1
<1>3. e \notin ToSet(list) => \A n \in 1 .. Len(list) : list[n] # e  BY DEF ToSet
<1>. HIDE DEF p
<1>4. ASSUME i # e \/ e \notin ToSet(list), AtMostOnce(list, i)
      PROVE  AtMostOnce(p, i)
  <2>. SUFFICES ASSUME NEW m \in 1 .. Len(p), NEW n \in 1 .. Len(p), p[m] = i, p[n] = i
                PROVE  m = n
    BY DEF AtMostOnce
  <2>1. CASE m = 1 \/ n = 1  BY <2>1, <1>1, <1>2, <1>3, <1>4
  <2>2. CASE m # 1 /\ n # 1
    <3>1. m - 1 = n - 1  BY <2>2, <1>1, <1>2, <1>4 DEF AtMostOnce
    <3>. QED  BY <3>1, <1>2
  <2>. QED  BY <2>1, <2>2
<1>5. ASSUME i # e \/ e \notin ToSet(list), AtMostTwice(list, i)
      PROVE  AtMostTwice(p, i)
  <2>. SUFFICES ASSUME NEW l \in 1 .. Len(p), NEW m \in 1 .. Len(p), NEW n \in 1 .. Len(p),
                       p[l] = i, p[m] = i, p[n] = i
                PROVE  l = m \/ m = n \/ l = n
    BY DEF AtMostTwice
  <2>1. CASE l = 1 \/ m = 1 \/ n = 1  BY <2>1, <1>1, <1>2, <1>3, <1>5
  <2>2. CASE l # 1 /\ m # 1 /\ n # 1
    <3>1. /\ l - 1 \in 1 .. Len(list) /\ m - 1 \in 1 .. Len(list) /\ n - 1 \in 1 .. Len(list)
          /\ list[l - 1] = i /\ list[m - 1] = i /\ list[n - 1] = i
      BY <2>2, <1>1, <1>2
    <3>2. l - 1 = m - 1 \/ m - 1 = n - 1 \/ l - 1 = n - 1  BY <3>1, <1>5 DEF AtMostTwice
    <3>. QED  BY <3>2, <1>2
  <2>. QED  BY <2>1, <2>2
<1>6. ASSUME AtMostOnce(list, i)
      PROVE  AtMostTwice(p, i)
  <2>. SUFFICES ASSUME NEW l \in 1 .. Len(p), NEW m \in 1 .. Len(p), NEW n \in 1 .. Len(p),
                       p[l] = i, p[m] = i, p[n] = i, l # m, m # n, l # n
                PROVE  FALSE
    BY DEF AtMostTwice
  <2>1. ASSUME NEW j \in 1 .. Len(p), NEW k \in 1 .. Len(p), j # 1, k # 1, p[j] = i, p[k] = i
        PROVE  j = k
    <3>1. /\ j - 1 \in 1 .. Len(list) /\ k - 1 \in 1 .. Len(list)
          /\ list[j - 1] = i /\ list[k - 1] = i
      BY <2>1, <1>1, <1>2
    <3>2. j - 1 = k - 1  BY <3>1, <1>6 DEF AtMostOnce
    <3>. QED  BY <3>2, <1>2
  <2>2. CASE l = 1  BY <2>1, <2>2
  <2>3. CASE m = 1  BY <2>1, <2>3
  <2>4. CASE n = 1  BY <2>1, <2>4
  <2>. QED  BY <2>1, <2>2, <2>3, <2>4
<1>. QED  BY <1>4, <1>5, <1>6 DEF p

\* A page that is cut to its length shows nothing more often.
LEMMA ShortenKeeps ==
  ASSUME NEW D, NEW list \in Seq(D)
  PROVE  /\ Shorten(list) \in Seq(D)
         /\ \A i : /\ AtMostOnce(list, i) => AtMostOnce(Shorten(list), i)
                   /\ AtMostTwice(list, i) => AtMostTwice(Shorten(list), i)
<1>. DEFINE n == Min({BufferMax, Len(list)})
<1>1. BufferMax \in Nat /\ Len(list) \in Nat  BY FeedAssumption
<1>2. n \in 0 .. Len(list)  BY <1>1, PairBounds
<1>. HIDE DEF n
<1>3. Shorten(list) = SubSeq(list, 1, n)  BY DEF Shorten, n
<1>4. /\ SubSeq(list, 1, n) \in Seq(D) /\ Len(SubSeq(list, 1, n)) = n
      /\ \A m \in 1 .. n : SubSeq(list, 1, n)[m] = list[m]
  BY <1>1, <1>2
<1>5. (1 .. n) \subseteq 1 .. Len(list)  BY <1>1, <1>2
<1>6. ASSUME NEW i, AtMostOnce(list, i) PROVE AtMostOnce(Shorten(list), i)
  BY <1>3, <1>4, <1>5, <1>6 DEF AtMostOnce
<1>7. ASSUME NEW i, AtMostTwice(list, i) PROVE AtMostTwice(Shorten(list), i)
  BY <1>3, <1>4, <1>5, <1>7 DEF AtMostTwice
<1>. QED  BY <1>3, <1>4, <1>6, <1>7

\* The pages on the way to what a backfill makes of the page.
LEMMA FoldedPages ==
  ASSUME NEW D, screen \in Seq(D), NEW rows \in Seq(D)
  PROVE  \E page :
           /\ page[0] = screen
           /\ \A n \in 1 .. Len(rows) :
                 page[n] = IF rows[n] \in ToSet(page[n - 1]) THEN page[n - 1]
                           ELSE <<rows[n]>> \o page[n - 1]
           /\ Folded(rows) = Shorten(page[Len(rows)])
<1>. DEFINE Step(n, p) == IF rows[n] \in ToSet(p) THEN p ELSE <<rows[n]>> \o p
            Pages(f, k) == f = [n \in 0 .. k |-> IF n = 0 THEN screen
                                    ELSE IF rows[n] \in ToSet(f[n - 1]) THEN f[n - 1]
                                    ELSE <<rows[n]>> \o f[n - 1]]
            S == {k \in Nat : \E f : Pages(f, k)}
<1>1. 0 \in S
  <2>1. Pages([n \in 0 .. 0 |-> screen], 0)  OBVIOUS
  <2>. QED  BY <2>1
<1>2. ASSUME NEW k \in Nat, k \in S
      PROVE  k + 1 \in S
  <2>1. PICK f : Pages(f, k)  BY <1>2
  <2>. DEFINE g == [n \in 0 .. k + 1 |-> IF n <= k THEN f[n] ELSE Step(k + 1, f[k])]
  <2>2. \A n \in 0 .. k : g[n] = f[n]  OBVIOUS
  <2>3. g[k + 1] = Step(k + 1, f[k])  OBVIOUS
  <2>4. f[0] = screen /\ \A n \in 1 .. k : f[n] = Step(n, f[n - 1])
    <3>1. \A n \in 0 .. k : f[n] = IF n = 0 THEN screen ELSE Step(n, f[n - 1])  BY <2>1
    <3>2. 0 \in 0 .. k /\ \A n \in 1 .. k : n \in 0 .. k /\ n # 0  OBVIOUS
    <3>. HIDE DEF Step
    <3>. QED  BY <3>1, <3>2
  <2>5. \A n \in 0 .. k + 1 : g[n] = IF n = 0 THEN screen ELSE Step(n, g[n - 1])
    <3>. SUFFICES ASSUME NEW n \in 0 .. k + 1
                  PROVE  g[n] = IF n = 0 THEN screen ELSE Step(n, g[n - 1])
      OBVIOUS
    <3>. HIDE DEF g, Step
    <3>1. CASE n = 0  BY <3>1, <2>2, <2>4
    <3>2. CASE n \in 1 .. k
      <4>1. n - 1 \in 0 .. k /\ n \in 0 .. k  BY <3>2
      <4>. QED  BY <3>2, <4>1, <2>2, <2>4
    <3>3. CASE n = k + 1
      <4>1. n - 1 = k /\ k \in 0 .. k /\ n # 0  BY <3>3
      <4>. QED  BY <3>3, <4>1, <2>2, <2>3
    <3>. QED  BY <3>1, <3>2, <3>3
  <2>6. g = [n \in 0 .. k + 1 |-> g[n]]  OBVIOUS
  <2>7. g = [n \in 0 .. k + 1 |-> IF n = 0 THEN screen ELSE Step(n, g[n - 1])]
    <3>. HIDE DEF g, Step
    <3>. QED  BY <2>5, <2>6
  <2>8. Pages(g, k + 1)
    <3>. HIDE DEF g
    <3>. QED  BY <2>7
  <2>9. k + 1 \in Nat  OBVIOUS
  <2>. HIDE DEF g, Pages
  <2>. QED  BY <2>8, <2>9
<1>3. \A k \in Nat : k \in S
  <2>. HIDE DEF S
  <2>. QED  BY <1>1, <1>2, NatInduct
<1>4. Len(rows) \in Nat  OBVIOUS
<1>. DEFINE page == CHOOSE f : Pages(f, Len(rows))
<1>5. Pages(page, Len(rows))  BY <1>3, <1>4
<1>6. Folded(rows) = Shorten(page[Len(rows)])  BY DEF Folded
<1>. HIDE DEF page
<1>7. \A n \in 0 .. Len(rows) : page[n] = IF n = 0 THEN screen ELSE Step(n, page[n - 1])
  BY <1>5
<1>8. page[0] = screen /\ \A n \in 1 .. Len(rows) : page[n] = Step(n, page[n - 1])
  <2>1. 0 \in 0 .. Len(rows) /\ \A n \in 1 .. Len(rows) : n \in 0 .. Len(rows) /\ n # 0
    BY <1>4
  <2>. HIDE DEF Step
  <2>. QED  BY <1>7, <2>1
<1>. QED  BY <1>6, <1>8

\* A backfill puts no row beside another copy of itself.
LEMMA FoldedKeeps ==
  ASSUME NEW D, screen \in Seq(D), NEW rows \in Seq(D)
  PROVE  /\ Folded(rows) \in Seq(D)
         /\ \A i : /\ AtMostOnce(screen, i) => AtMostOnce(Folded(rows), i)
                   /\ AtMostTwice(screen, i) => AtMostTwice(Folded(rows), i)
<1>. PICK page :
        /\ page[0] = screen
        /\ \A n \in 1 .. Len(rows) :
              page[n] = IF rows[n] \in ToSet(page[n - 1]) THEN page[n - 1]
                        ELSE <<rows[n]>> \o page[n - 1]
        /\ Folded(rows) = Shorten(page[Len(rows)])
  BY FoldedPages
<1>. DEFINE Keeps(p) == /\ p \in Seq(D)
                        /\ \A i : /\ AtMostOnce(screen, i) => AtMostOnce(p, i)
                                  /\ AtMostTwice(screen, i) => AtMostTwice(p, i)
            S == {n \in Nat : n <= Len(rows) => Keeps(page[n])}
<1>1. Len(rows) \in Nat  OBVIOUS
<1>2. 0 \in S  OBVIOUS
<1>3. ASSUME NEW n \in Nat, n \in S
      PROVE  n + 1 \in S
  <2>. SUFFICES ASSUME n + 1 <= Len(rows) PROVE Keeps(page[n + 1])
    OBVIOUS
  <2>1. Keeps(page[n])  BY <1>1, <1>3
  <2>2. n + 1 \in 1 .. Len(rows) /\ (n + 1) - 1 = n  BY <1>1
  <2>3. rows[n + 1] \in D  BY <2>2
  <2>4. page[n + 1] = IF rows[n + 1] \in ToSet(page[n]) THEN page[n]
                      ELSE <<rows[n + 1]>> \o page[n]
    BY <2>2
  <2>5. CASE rows[n + 1] \in ToSet(page[n])
    <3>1. page[n + 1] = page[n]  BY <2>4, <2>5
    <3>. HIDE DEF Keeps
    <3>. QED  BY <2>1, <3>1
  <2>6. CASE rows[n + 1] \notin ToSet(page[n])
    <3>1. page[n + 1] = <<rows[n + 1]>> \o page[n]  BY <2>4, <2>6
    <3>2. page[n] \in Seq(D)  BY <2>1
    <3>3. Keeps(<<rows[n + 1]>> \o page[n])
      <4>1. <<rows[n + 1]>> \o page[n] \in Seq(D)  BY <2>3, <3>2, PushFront
      <4>2. ASSUME NEW i
            PROVE  /\ AtMostOnce(page[n], i) => AtMostOnce(<<rows[n + 1]>> \o page[n], i)
                   /\ AtMostTwice(page[n], i) => AtMostTwice(<<rows[n + 1]>> \o page[n], i)
        BY <2>3, <2>6, <3>2, PushCopies
      <4>. QED  BY <2>1, <4>1, <4>2
    <3>. HIDE DEF Keeps
    <3>. QED  BY <3>1, <3>3
  <2>. QED  BY <2>5, <2>6
<1>4. \A n \in Nat : n \in S
  <2>. HIDE DEF S
  <2>. QED  BY <1>2, <1>3, NatInduct
<1>5. Keeps(page[Len(rows)])
  <2>1. Len(rows) \in S  BY <1>1, <1>4
  <2>. HIDE DEF Keeps
  <2>. QED  BY <2>1, <1>1
<1>6. /\ Shorten(page[Len(rows)]) \in Seq(D)
      /\ \A i : /\ AtMostOnce(page[Len(rows)], i) => AtMostOnce(Shorten(page[Len(rows)]), i)
                /\ AtMostTwice(page[Len(rows)], i) => AtMostTwice(Shorten(page[Len(rows)]), i)
  BY <1>5, ShortenKeeps
<1>. QED  BY <1>5, <1>6

\* A new page shows nothing.
LEMMA CopiesInit ==
  ASSUME Init
  PROVE  PageCopies
<1>1. screen = <<>> /\ stored = 0  BY DEF Init, FeedInit
<1>2. screen \in Seq(1 .. stored)  BY <1>1
<1>. QED  BY <1>1, <1>2 DEF PageCopies, AtMostOnce, AtMostTwice

\* A step that leaves the page alone puts no old row on its way to it.
LEMMA CopiesKeep ==
  ASSUME PageCopies, screen' = screen, stored \in Nat, stored' \in Nat, stored <= stored',
         dispatched \in Nat, dispatched' \in Nat, dispatched <= dispatched',
         \A i \in ToSet(queue') : i \in ToSet(queue) \/ i > dispatched
  PROVE  PageCopies'
<1>1. screen' \in Seq(1 .. stored')
  <2>1. (1 .. stored) \subseteq 1 .. stored'  OBVIOUS
  <2>2. screen \in Seq(1 .. stored')  BY <2>1 DEF PageCopies
  <2>. QED  BY <2>2
<1>2. ASSUME NEW i \in Nat, i \in ToSet(queue') \/ i > dispatched'
      PROVE  AtMostOnce(screen, i)
  BY <1>2 DEF PageCopies
<1>3. \A i : /\ AtMostOnce(screen, i)' <=> AtMostOnce(screen, i)
             /\ AtMostTwice(screen, i)' <=> AtMostTwice(screen, i)
  BY DEF AtMostOnce, AtMostTwice
<1>. QED  BY <1>1, <1>2, <1>3 DEF PageCopies

\* Live frame: its row was on the page once at most, and is now behind the queue.
LEMMA LiveCopies ==
  ASSUME FeedType, PageCopies, Live
  PROVE  PageCopies'
<1>. DEFINE h == Head(queue)
            p == <<h>> \o screen
<1>1. /\ stored \in Nat /\ dispatched \in 0 .. stored
      /\ queue \in Seq(1 .. dispatched) /\ Increasing(queue) /\ queue # <<>>
      /\ queue' = Tail(queue) /\ UNCHANGED <<stored, dispatched>> /\ screen' = Shorten(p)
      /\ screen \in Seq(1 .. stored)
  BY DEF Live, FeedType, PageCopies, tableVars
<1>2. /\ h \in 1 .. dispatched /\ h \in ToSet(queue) /\ ToSet(queue') \subseteq ToSet(queue)
      /\ h \notin ToSet(queue')
  <2>1. (1 .. dispatched) \subseteq Nat  BY <1>1
  <2>2. /\ h \in 1 .. dispatched /\ h \in ToSet(queue)
        /\ ToSet(Tail(queue)) \subseteq ToSet(queue)
        /\ \A i \in ToSet(Tail(queue)) : i \in Nat /\ i > h
    BY <2>1, <1>1, QueueTail
  <2>. QED  BY <2>1, <2>2, <1>1
<1>3. h \in 1 .. stored /\ h \in Nat  BY <1>1, <1>2
<1>4. p \in Seq(1 .. stored)  BY <1>1, <1>3, PushFront
<1>5. ASSUME NEW i
      PROVE  /\ i # h /\ AtMostOnce(screen, i) => AtMostOnce(p, i)
             /\ i # h /\ AtMostTwice(screen, i) => AtMostTwice(p, i)
             /\ AtMostOnce(screen, i) => AtMostTwice(p, i)
  BY <1>1, <1>3, PushCopies
<1>. HIDE DEF h, p
<1>6. /\ Shorten(p) \in Seq(1 .. stored)
      /\ \A i : /\ AtMostOnce(p, i) => AtMostOnce(Shorten(p), i)
                /\ AtMostTwice(p, i) => AtMostTwice(Shorten(p), i)
  BY <1>4, ShortenKeeps
<1>7. AtMostOnce(screen, h)  BY <1>2, <1>3 DEF PageCopies
<1>8. ASSUME NEW i \in Nat
      PROVE  AtMostTwice(Shorten(p), i)
  BY <1>5, <1>6, <1>7 DEF PageCopies
<1>9. ASSUME NEW i \in Nat, i \in ToSet(queue') \/ i > dispatched
      PROVE  AtMostOnce(Shorten(p), i)
  <2>1. i # h  BY <1>9, <1>1, <1>2
  <2>2. AtMostOnce(screen, i)  BY <1>9, <1>2 DEF PageCopies
  <2>. QED  BY <2>1, <2>2, <1>5, <1>6
<1>10. ASSUME NEW i
       PROVE  /\ AtMostOnce(screen, i)' <=> AtMostOnce(Shorten(p), i)
              /\ AtMostTwice(screen, i)' <=> AtMostTwice(Shorten(p), i)
  BY <1>1 DEF AtMostOnce, AtMostTwice
<1>. QED  BY <1>1, <1>6, <1>8, <1>9, <1>10 DEF PageCopies

\* Backfill: only rows that the page has not go in front of it.
LEMMA BackfilledCopies ==
  ASSUME FeedType, PageCopies, NEW r \in requests, Backfilled(r)
  PROVE  PageCopies'
<1>1. /\ stored \in Nat /\ dispatched \in 0 .. stored /\ cursor \in 0 .. stored
      /\ screen \in Seq(1 .. stored) /\ UNCHANGED <<stored, dispatched, queue>>
      /\ r.rows # NotAnswered
  BY DEF Backfilled, FeedType, PageCopies, tableVars
<1>2. CASE r.rows = <<>>
  <2>1. screen' = screen  BY <1>2 DEF Backfilled
  <2>. QED  BY <2>1, <1>1, CopiesKeep
<1>3. CASE r.rows # <<>>
  <2>1. screen' = Folded(r.rows)  BY <1>3 DEF Backfilled
  <2>2. r.since \in 0 .. cursor /\ \E n \in Nat : r.since + n <= stored /\ r.rows = RowsAfter(r.since, n)
    BY <1>1 DEF FeedType, RequestsFit
  <2>3. PICK n \in Nat : r.since + n <= stored /\ r.rows = RowsAfter(r.since, n)  BY <2>2
  <2>4. r.rows \in Seq(1 .. stored)
    <3>1. r.since \in Nat  BY <2>2, <1>1
    <3>2. \A i \in 1 .. n : r.since + i \in 1 .. stored  BY <3>1, <2>3, <1>1
    <3>. QED  BY <3>2, <2>3 DEF RowsAfter
  <2>5. /\ Folded(r.rows) \in Seq(1 .. stored)
        /\ \A i : /\ AtMostOnce(screen, i) => AtMostOnce(Folded(r.rows), i)
                  /\ AtMostTwice(screen, i) => AtMostTwice(Folded(r.rows), i)
    BY <2>4, <1>1, FoldedKeeps
  <2>6. ASSUME NEW i
        PROVE  /\ AtMostOnce(screen, i)' <=> AtMostOnce(Folded(r.rows), i)
               /\ AtMostTwice(screen, i)' <=> AtMostTwice(Folded(r.rows), i)
    BY <2>1 DEF AtMostOnce, AtMostTwice
  <2>7. \A i \in Nat : i \in ToSet(queue) \/ i > dispatched => AtMostOnce(Folded(r.rows), i)
    BY <2>5 DEF PageCopies
  <2>8. \A i \in Nat : AtMostTwice(Folded(r.rows), i)  BY <2>5 DEF PageCopies
  <2>. QED  BY <1>1, <2>1, <2>5, <2>6, <2>7, <2>8 DEF PageCopies
<1>. QED  BY <1>2, <1>3

\* Dispatch puts a row in the queue that no frame or backfill brought twice.
LEMMA DispatchCopies ==
  ASSUME FeedType, PageCopies, Dispatch
  PROVE  PageCopies'
<1>. DEFINE e == dispatched + 1
<1>1. /\ dispatched' = e /\ dispatched \in Nat /\ stored \in Nat
      /\ queue \in Seq(1 .. dispatched) /\ Increasing(queue) /\ UNCHANGED <<stored, screen>>
  BY DEF Dispatch, FeedType, pageVars
<1>2. ToSet(queue') \subseteq ToSet(queue) \cup {e}
  <2>1. CASE queue' = queue  BY <2>1
  <2>2. CASE queue' = Append(queue, e)
    <3>1. ToSet(Append(queue, e)) = ToSet(queue) \cup {e}  BY <1>1, QueueAppend
    <3>. QED  BY <2>2, <3>1
  <2>3. CASE queue' = Append(Tail(queue), e) /\ queue # <<>>
    <3>1. (1 .. dispatched) \subseteq Nat  BY <1>1
    <3>2. /\ Tail(queue) \in Seq(1 .. dispatched) /\ Increasing(Tail(queue))
          /\ ToSet(Tail(queue)) \subseteq ToSet(queue)
      BY <2>3, <3>1, <1>1, QueueTail
    <3>3. ToSet(Append(Tail(queue), e)) = ToSet(Tail(queue)) \cup {e}
      BY <3>2, <1>1, QueueAppend
    <3>. QED  BY <2>3, <3>2, <3>3
  <2>4. queue = <<>> => Len(queue) < QueueMax  BY FeedAssumption
  <2>. QED  BY <2>1, <2>2, <2>3, <2>4, <1>1 DEF Dispatch
<1>. QED  BY <1>1, <1>2, CopiesKeep

\* No step brings a row a third time.
LEMMA CopiesStep ==
  ASSUME FeedType, PageCopies, [Next]_vars
  PROVE  PageCopies'
<1>0. stored \in Nat /\ dispatched \in 0 .. stored /\ dispatched \in Nat  BY DEF FeedType
<1>1. ASSUME screen' = screen, stored' \in {stored, stored + 1}, dispatched' \in {dispatched, stored},
             queue' \in {queue, <<>>}
      PROVE  PageCopies'
  BY <1>0, <1>1, CopiesKeep, EmptyQueue
<1>2. CASE Feed
  <2>1. CASE Dispatch  BY <2>1, DispatchCopies
  <2>2. CASE Live  BY <2>2, LiveCopies
  <2>3. ASSUME NEW r \in requests, Backfilled(r) PROVE PageCopies'
    BY <2>3, BackfilledCopies
  <2>4. CASE Commit \/ Connect \/ Open \/ Refused \/ Break \/ ForceReconnect
    BY <2>4, <1>1 DEF Commit, Connect, Open, Refused, Break, ForceReconnect, pageVars, tableVars
  <2>5. ASSUME NEW r \in requests, Answer(r) \/ BackfillFails(r) PROVE PageCopies'
    BY <2>5, <1>1 DEF Answer, BackfillFails, pageVars, tableVars
  <2>. QED  BY <1>2, <2>1, <2>2, <2>3, <2>4, <2>5 DEF Feed
<1>3. CASE Down \/ Crash
  BY <1>3, <1>1 DEF Down, Crash, Severed, pageVars
<1>4. CASE Up \/ Launch \/ StartReplay
           \/ \E kind \in Kinds : Script(kind) \/ Rebuild(kind) \/ Building(kind)
  BY <1>4, <1>1 DEF Up, Launch, StartReplay, Script, FindModel, BuildModel, BuildRefused,
                    BuildAwaited, Rebuild, Building, feedVars, pageVars, tableVars
<1>5. CASE UNCHANGED vars  BY <1>5, <1>1 DEF vars, feedVars, pageVars, tableVars
<1>. QED  BY <1>2, <1>3, <1>4, <1>5 DEF Next

\* A set without three elements.
LEMMA TwoAtMost ==
  ASSUME NEW S, IsFiniteSet(S), \A l, m, n \in S : l = m \/ m = n \/ l = n
  PROVE  Cardinality(S) <= 2
<1>1. CASE S = {}  BY <1>1, FS_EmptySet
<1>2. CASE S # {}
  <2>1. PICK m \in S : TRUE  BY <1>2
  <2>2. CASE S = {m}  BY <2>2, FS_Singleton
  <2>3. CASE S # {m}
    <3>1. PICK n \in S : n # m  BY <2>1, <2>3
    <3>2. S = {m} \cup {n}  BY <2>1, <3>1
    <3>3. IsFiniteSet({m}) /\ Cardinality({m}) = 1  BY FS_Singleton
    <3>4. Cardinality({m} \cup {n}) = Cardinality({m}) + 1  BY <3>1, <3>3, FS_AddElement
    <3>. QED  BY <3>2, <3>3, <3>4
  <2>. QED  BY <2>2, <2>3
<1>. QED  BY <1>1, <1>2

\* However backfills, reconnects and late frames cross, no event is on the page a third
\* time, and none that is not in the table (setEvents() of
\* frontend/src/lib/useEventStream.ts: a live frame is not compared with the page).
THEOREM NoThirdCopyShown == Spec => []NoThirdCopy
<1>1. ASSUME FeedType, PageCopies PROVE NoThirdCopy
  <2>. SUFFICES ASSUME NEW n \in DOMAIN screen
                PROVE  screen[n] <= stored /\ Copies(screen[n]) <= 2
    BY DEF NoThirdCopy
  <2>. DEFINE i == screen[n]
              S == {m \in DOMAIN screen : screen[m] = i}
  <2>1. stored \in Nat /\ screen \in Seq(1 .. stored)  BY <1>1 DEF FeedType, PageCopies
  <2>2. DOMAIN screen = 1 .. Len(screen) /\ Len(screen) \in Nat  BY <2>1
  <2>3. i \in 1 .. stored  BY <2>1, <2>2
  <2>4. i \in Nat /\ i <= stored  BY <2>1, <2>3
  <2>5. IsFiniteSet(S)
    <3>1. IsFiniteSet(1 .. Len(screen))  BY <2>2, FS_Interval
    <3>2. S \subseteq 1 .. Len(screen)  BY <2>2
    <3>. QED  BY <3>1, <3>2, FS_Subset
  <2>6. AtMostTwice(screen, i)  BY <1>1, <2>4 DEF PageCopies
  <2>7. \A l, m, k \in S : l = m \/ m = k \/ l = k  BY <2>2, <2>6 DEF AtMostTwice
  <2>8. Cardinality(S) <= 2
    <3>. HIDE DEF S
    <3>. QED  BY <2>5, <2>7, TwoAtMost
  <2>. QED  BY <2>4, <2>8 DEF Copies
<1>2. Init => FeedType /\ FeedCovers /\ PageCopies  BY FeedInit_Covers, CopiesInit
<1>3. FeedType /\ FeedCovers /\ PageCopies /\ [Next]_vars => (FeedType /\ FeedCovers /\ PageCopies)'
  BY CoversStep, CopiesStep
<1>. QED  BY <1>1, <1>2, <1>3, PTL DEF Spec

=============================================================================
