---------------------------- MODULE MCLiveConsole ----------------------------
EXTENDS LiveConsole

Row(at, attack) == [at |-> at, attack |-> attack]

Benign == <<Row(1, FALSE), Row(1, FALSE)>>
Dirty == <<Row(1, FALSE), Row(2, TRUE)>>
AttacksThroughout == <<Row(1, TRUE), Row(2, FALSE), Row(2, TRUE)>>
AttacksLate == <<Row(1, FALSE), Row(1, FALSE), Row(2, TRUE)>>

Days(warmup, replayed) == [volumetric |-> warmup, known |-> replayed]
MCCaptures == {Days(Benign, AttacksThroughout), Days(Benign, AttacksLate),
               Days(Dirty, AttacksThroughout), Days(Tail(Benign), AttacksThroughout)}

\* The days of a console that comes up, for the runs about the page.
MCGoodDays == {Days(Benign, AttacksThroughout)}
=============================================================================
