-------------------------- MODULE BeaconingDetector ---------------------------
(***************************************************************************)
(* The periodicity detector (backend/detection/beaconing.py): for each pair *)
(* of addresses the times of its last flows, for at most MaxTrackedPairs    *)
(* pairs, the least recently seen one giving way.  The histories outlive    *)
(* the batch, the transaction and the replay session: nothing resets them.  *)
(***************************************************************************)
EXTENDS HybridFusion, Integers, SequencesExt

CONSTANTS
    MinSamples,         \* beaconing_min_samples
    HistoryPerPair,     \* beaconing_history_per_pair
    MaxTrackedPairs,    \* beaconing_max_tracked_pairs
    MaxCv,              \* beaconing_max_cv, in parts of Unit
    MinInterval, MaxInterval

\* The fields' bounds as far as the verdict depends on them, MaxCv above 0 (a cap of 0
\* divides by zero), and _check_beaconing_interval_window_ordered().
BeaconingInRange ==
    /\ {MinSamples, HistoryPerPair, MaxTrackedPairs, MaxCv, MinInterval, MaxInterval}
         \subseteq Nat \ {0}
    /\ MinSamples >= 3
IntervalsOrdered == MinInterval < MaxInterval

ASSUME BeaconingAssumption == BeaconingInRange /\ IntervalsOrdered

VARIABLE history    \* _history: [pair, times] in the order of the last touch

BeaconingInit == history = <<>>

PairKey(f) == <<f.src, f.dst>>

Known(h, pair) == \E i \in DOMAIN h : h[i].pair = pair
Slot(h, pair) == CHOOSE i \in DOMAIN h : h[i].pair = pair
TimesOf(h, pair) == IF Known(h, pair) THEN h[Slot(h, pair)].times ELSE <<>>
Others(h, pair) == IF Known(h, pair) THEN RemoveAt(h, Slot(h, pair)) ELSE h

LastN(s, n) == SubSeq(s, IF Len(s) > n THEN Len(s) - n + 1 ELSE 1, Len(s))

\* Mutant: a known pair is not moved to the end.
Touch_InPlace(h, f) ==
    LET pair == PairKey(f)
        entry == [pair |-> pair, times |-> LastN(Append(TimesOf(h, pair), f.ts), HistoryPerPair)]
    IN IF Known(h, pair) THEN [h EXCEPT ![Slot(h, pair)] = entry]
       ELSE LastN(Append(h, entry), MaxTrackedPairs)

\* One flow: _touch() and the append.
Touch(h, f) ==
    LET pair == PairKey(f)
        times == LastN(Append(TimesOf(h, pair), f.ts), HistoryPerPair)
    IN LastN(Append(Others(h, pair), [pair |-> pair, times |-> times]), MaxTrackedPairs)

-----------------------------------------------------------------------------
(* The verdict on one pair's times *)

\* The gaps, whatever their sign, that lie in the window.
Usable(times) ==
    LET gaps == [i \in 1 .. Len(times) - 1 |->
                     IF times[i + 1] >= times[i] THEN times[i + 1] - times[i]
                     ELSE times[i] - times[i + 1]]
    IN SelectSeq(gaps, LAMBDA g : MinInterval <= g /\ g <= MaxInterval)

\* cv <= level / Unit * max_cv, of the sample deviation over the mean, squared and
\* brought to integers.
CvAtMost(gaps, level) ==
    LET n == Len(gaps)
        sum == FoldLeft(+, 0, gaps)
        squares == FoldLeft(LAMBDA acc, g : acc + g * g, 0, gaps)
    IN n * (n * squares - sum * sum) * Sure * Sure
         <= (level * MaxCv) * (level * MaxCv) * (n - 1) * sum * sum

\* _verdict_for(): abstains under MinSamples - 1 usable gaps, else 1 - cv / max_cv.
BeaconVerdict(times) ==
    LET gaps == Usable(times)
        levels == {k \in 0 .. Unit : CvAtMost(gaps, Unit - k)}
    IN IF Len(gaps) < MinSamples - 1 THEN Heuristic(FALSE, 0)
       ELSE Heuristic(levels # {}, IF levels = {} THEN 0
                                   ELSE CHOOSE k \in levels : \A l \in levels : l <= k)

-----------------------------------------------------------------------------
(* examine(): each flow is judged with the flows before it in its batch *)

Touched(h, batch) ==
    LET after[i \in 0 .. Len(batch)] ==
            IF i = 0 THEN h ELSE Touch(after[i - 1], batch[i])
    IN after[Len(batch)]

BeaconingVerdicts(h, batch) ==
    [i \in 1 .. Len(batch) |->
        BeaconVerdict(TimesOf(Touched(h, SubSeq(batch, 1, i)), PairKey(batch[i])))]

BeaconingExamine(batch) == history' = Touched(history, batch)

=============================================================================
