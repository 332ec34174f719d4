--------------------------- MODULE MCSpeakerWords ---------------------------
EXTENDS SpeakerWords

\* A token on the frames first..last, in ticks.
On(first, last, lead) == [start |-> 2 * first, end |-> 2 * last + 1, lead |-> lead]
Each(leads) == [i \in DOMAIN leads |-> On(i - 1, i - 1, leads[i])]

\* Any similarities of four columns, each with a voiceprint or one without.
MergeInputs ==
    [frames : {<<0, 1, 2, 3>>, <<0, 1, 3, 3>>}, words : {Each(<<TRUE, TRUE, TRUE, TRUE>>)},
     cos : [Pairs -> Cosines], voiced : {Columns, Columns \ {0}, Columns \ {2}},
     expected : 0..2]

Plain(frames, words) ==
    [frames : frames, words : words, cos : {[p \in Pairs |-> 0]}, voiced : {Columns},
     expected : {0}]

\* Columns come in the order of their numbers: which is which does not matter.
InOrder(f) == \A i \in DOMAIN f : f[i] \in {0, Silent} \/ \E j \in 1..(i - 1) : f[j] = f[i] - 1

\* Fourteen words of two speakers, in up to six runs.
LongFrames ==
    {f \in [1..14 -> {0, 1}] :
        f[1] = 0 /\ Cardinality({i \in 2..14 : f[i] # f[i - 1]}) <= 5}
LongInputs == Plain(LongFrames, {Each([i \in 1..14 |-> TRUE])})

\* Six tokens of three speakers and silence, some of which continue a word.
ShortInputs ==
    Plain({f \in [1..6 -> {0, 1, 2, Silent}] : InOrder(f)},
          {Each(<<TRUE, l2, l3, TRUE, l5, TRUE>>) : l2, l3, l5 \in BOOLEAN})

\* Longer tokens, a gap between two of them, and one after the last frame.
Spread == <<On(0, 0, TRUE), On(1, 2, TRUE), On(2, 3, FALSE), On(4, 4, TRUE), On(7, 7, TRUE),
            On(8, 11, TRUE)>>
SpreadInputs == Plain({f \in [1..9 -> {0, 1, Silent}] : InOrder(f)}, {Spread})

\* A word of several tokens, the last of them long.
Drawn == <<On(0, 0, TRUE), On(1, 1, TRUE), On(2, 2, TRUE), On(3, 3, FALSE), On(4, 7, FALSE)>>
\* A word whose end another speaker says, before a long token of that speaker.
Trailing == <<On(0, 0, TRUE), On(1, 1, TRUE), On(2, 2, FALSE), On(3, 3, FALSE), On(4, 7, TRUE)>>
\* A recording that starts inside a word.
Leading == <<On(0, 2, FALSE), On(3, 3, TRUE), On(4, 4, FALSE), On(5, 5, TRUE), On(6, 7, TRUE)>>
DrawnInputs ==
    Plain({f \in [1..8 -> {0, 1, Silent}] : InOrder(f)}, {Drawn, Trailing, Leading})

\* Tokens that overlap in time.
Timed(start, end) == [start |-> start, end |-> end, lead |-> TRUE]
Overlaid == <<Timed(0, 1), Timed(2, 8), Timed(4, 8), Timed(8, 9), Timed(8, 13), Timed(14, 15)>>
OverlaidInputs == Plain({f \in [1..8 -> {0, 1, Silent}] : InOrder(f)}, {Overlaid})

MCInputs == MergeInputs \cup LongInputs \cup ShortInputs \cup SpreadInputs \cup DrawnInputs
            \cup OverlaidInputs
=============================================================================
