--------------------------- MODULE MCReplayPacing ---------------------------
EXTENDS ReplayPacing, TLC

\* Rows around noon and one o'clock, where the 12-hour clock runs backwards.
Row(hour, minute, second, precise) ==
    [hour |-> hour, minute |-> minute, second |-> second, precise |-> precise,
     defects |-> {}]
Bad(d) == [Row(12, 59, 0, FALSE) EXCEPT !.defects = d]

MCCaptures == {
    \* Minute resolution, out of order over the change from 12:59 to 1:00; two
    \* rows of one timestamp before another timestamp.
    <<Row(13, 0, 1, FALSE), Bad({"header"}), Row(12, 59, 1, FALSE),
      Row(12, 59, 0, FALSE)>>,
    \* Second resolution, with defects; two minute-resolution rows at the end.
    <<Bad({"field", "time"}), Row(11, 59, 1, TRUE), Bad({"ragged", "time"}),
      Row(12, 0, 1, FALSE), Bad({"field"}), Row(12, 0, 0, FALSE)>>,
    \* Nothing to replay.
    <<Bad({"time"})>> }

MCKeyOf == [c \in Callers |-> "home"]
MCKeys == {"home"}
Operators == Permutations(TokenHolders)
MCStartTimes == {At(13, 0, 0)}
=============================================================================
