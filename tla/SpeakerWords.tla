---------------------------- MODULE SpeakerWords ----------------------------
(***************************************************************************)
(* Who said which word (phoneme-core/src/diarization.rs).  The model gives *)
(* a matrix of frames by speaker columns and a voiceprint per column;      *)
(* whisper gives timed tokens.  run_local_diarization folds columns that   *)
(* are one voice, then down to the number of speakers the user expects;    *)
(* assign_words gives each token the column that is most active in its     *)
(* frames, absorbs flickers into their neighbours one at a time, fills the *)
(* tokens no frame spoke for, keeps written words whole, and numbers the   *)
(* speakers.                                                               *)
(*                                                                         *)
(* The two merges and the smoothing are loops: one action per turn of the  *)
(* loop.  After make_exclusive a frame has one active column or none, and  *)
(* counts 1.  A cosine is a member of an ordered set; that of a column     *)
(* whose voiceprint is the mean of several is any of them.  Left out:      *)
(* blank tokens, which are dropped first, and what the words say.          *)
(***************************************************************************)
EXTENDS Integers, Sequences, FiniteSets

CONSTANTS
    Inputs,         \* what came back for a recording, see InputAssumption
    Columns,        \* speaker columns
    Silent,         \* a frame nobody speaks in, a token nobody is given
    Cosines,        \* similarities of two voiceprints
    Threshold,      \* SPEAKER_MERGE_COSINE
    Step, Half,     \* FRAME_STEP_SECONDS, and half of FRAME_DURATION_SECONDS
    MinTurn,        \* WORD_MIN_TURN_SECS
    MaxIsland,      \* MAX_ISLAND_WORDS
    MaxBracketed    \* MAX_BRACKETED_ISLAND_WORDS

Pairs == {{c, d} : c, d \in Columns} \ {{c} : c \in Columns}
Word == [start : Nat, end : Nat, lead : BOOLEAN]

ASSUME ConstantsAssumption ==
    /\ IsFiniteSet(Columns) /\ Columns \subseteq Nat /\ Silent \notin Nat
    /\ Cosines \subseteq Nat /\ Threshold \in Nat
    /\ Step \in Nat \ {0} /\ Half \in Nat /\ MinTurn \in Nat \ {0}
    /\ MaxIsland \in Nat \ {0} /\ MaxBracketed \in Nat /\ MaxIsland < MaxBracketed

ASSUME InputAssumption == \A in \in Inputs :
    /\ in.frames \in Seq(Columns \cup {Silent})
    /\ in.words \in Seq(Word)
    /\ in.cos \in [Pairs -> Cosines]
    /\ in.voiced \subseteq Columns          \* columns with a voiceprint
    /\ in.expected \in Nat                  \* expected_speakers, 0 if not set

\* whisper's tokens come in order.
ASSUME OrderAssumption == \A in \in Inputs : \A i, j \in 1..Len(in.words) :
    i <= j => /\ in.words[i].start <= in.words[j].start
              /\ in.words[i].end <= in.words[j].end

VARIABLES
    input,      \* the recording
    phase,      \* the step that is next
    groups,     \* merge_similar_clusters: the groups of columns so far
    owner,      \* the column each column is folded into
    live,       \* the columns some frame is active in, after the folding
    near,       \* merge_to_expected_count: cosines of the folded columns
    cols,       \* the column of each token
    raw,        \* observation: cols before the smoothing
    detected,   \* observation: how many live columns the similarity merge left
    speakers    \* speaker_columns: the column of each [Speaker N]

vars == <<input, phase, groups, owner, live, near, cols, raw, detected, speakers>>

Tokens == 1..Len(input.words)
Used == {input.frames[f] : f \in 1..Len(input.frames)} \ {Silent}

Init ==
    /\ input \in Inputs /\ phase = "alike"
    /\ groups = {{c} : c \in Columns} /\ owner = [c \in Columns |-> c]
    /\ live = {} /\ near = input.cos /\ detected = 0
    /\ cols = [i \in Tokens |-> Silent] /\ raw = cols /\ speakers = <<>>

-----------------------------------------------------------------------------
(* Columns that are one voice.                                             *)

Root(group) == CHOOSE c \in group : \A d \in group : c <= d

Clear(c, d) == {c, d} \subseteq input.voiced /\ input.cos[{c, d}] >= Threshold

\* Mutant: one pair of members that sound alike is enough (single linkage).
LinkedOnce(g, h) == \E c \in g, d \in h : Clear(c, d)

\* Complete linkage: every member sounds like every other.
Mergeable(g, h) == \A c \in g, d \in h : Clear(c, d)

\* The groups are kept in the order of their smallest columns.
Candidates == {p \in groups \X groups : Root(p[1]) < Root(p[2]) /\ Mergeable(p[1], p[2])}
Before(c1, d1, c2, d2) == c1 < c2 \/ (c1 = c2 /\ d1 < d2)

MergeAlike ==
    /\ phase = "alike"
    /\ \E p \in Candidates :
         /\ \A q \in Candidates : ~Before(Root(q[1]), Root(q[2]), Root(p[1]), Root(p[2]))
         /\ groups' = (groups \ {p[1], p[2]}) \cup {p[1] \cup p[2]}
    /\ UNCHANGED <<input, phase, owner, live, near, cols, raw, detected, speakers>>

\* apply_canon_mapping: a column counts for the smallest of its group.
FoldAlike ==
    /\ phase = "alike" /\ Candidates = {}
    /\ owner' = [c \in Columns |-> Root(CHOOSE g \in groups : c \in g)]
    /\ live' = {owner'[c] : c \in Used} /\ detected' = Cardinality(live')
    /\ phase' = "prior"
    /\ UNCHANGED <<input, groups, near, cols, raw, speakers>>

-----------------------------------------------------------------------------
(* The number of speakers the user expects.                                *)

\* A column that others were folded into has another voiceprint now.
Measured(p) == \A c \in p : {c} \in groups

StartPrior ==
    /\ phase = "prior" /\ input.expected > 0 /\ Cardinality(live) > input.expected
    /\ near' \in {n \in [Pairs -> Cosines] :
                    \A p \in Pairs : Measured(p) \/ ~(p \subseteq live \cap input.voiced)
                                        => n[p] = input.cos[p]}
    /\ phase' = "expected"
    /\ UNCHANGED <<input, groups, owner, live, cols, raw, detected, speakers>>

NoPrior ==
    /\ phase = "prior" /\ (input.expected = 0 \/ Cardinality(live) <= input.expected)
    /\ phase' = "attribute"
    /\ UNCHANGED <<input, groups, owner, live, near, cols, raw, detected, speakers>>

\* Mutant: the loop stops one merge late.
OneTooMany == Cardinality(live) >= input.expected /\ Cardinality(live \cap input.voiced) >= 2

\* Columns without a voiceprint count, and cannot be merged.
TooMany == Cardinality(live) > input.expected /\ Cardinality(live \cap input.voiced) >= 2

\* The closest two; of equally close ones the first.
Closest(c, d) ==
    \A e, f \in live \cap input.voiced : e < f =>
        \/ near[{e, f}] < near[{c, d}]
        \/ near[{e, f}] = near[{c, d}] /\ ~Before(e, f, c, d)

MergeClosest ==
    /\ phase = "expected" /\ TooMany
    /\ \E c, d \in live \cap input.voiced :
         /\ c < d /\ Closest(c, d)
         /\ owner' = [e \in Columns |-> IF owner[e] = d THEN c ELSE owner[e]]
         /\ live' = live \ {d}
    /\ UNCHANGED <<input, phase, groups, near, cols, raw, detected, speakers>>

PriorEnds ==
    /\ phase = "expected" /\ ~TooMany
    /\ phase' = "attribute"
    /\ UNCHANGED <<input, groups, owner, live, near, cols, raw, detected, speakers>>

-----------------------------------------------------------------------------
(* A column for each token.                                                *)

\* frame_for_time, rounded to the nearest frame; the last frame is the limit.
FrameAt(t) ==
    LET n == (2 * (t - Half) + Step) \div (2 * Step)
        last == Len(input.frames) - 1
    IN IF n < 0 THEN 0 ELSE IF n > last THEN last ELSE n

Window(i) == FrameAt(input.words[i].start) .. FrameAt(input.words[i].end)

Activity(i, c) ==
    Cardinality({f \in Window(i) : /\ f + 1 \in DOMAIN input.frames
                                   /\ input.frames[f + 1] # Silent
                                   /\ owner[input.frames[f + 1]] = c})

\* dominant_column: the first of the most active ones.
Dominant(i) ==
    IF \A c \in Columns : Activity(i, c) = 0 THEN Silent
    ELSE CHOOSE c \in Columns : \A d \in Columns :
            Activity(i, d) < Activity(i, c) \/ (Activity(i, d) = Activity(i, c) /\ c <= d)

Attribute ==
    /\ phase = "attribute"
    /\ cols' = [i \in Tokens |-> Dominant(i)] /\ raw' = cols'
    /\ phase' = "smooth"
    /\ UNCHANGED <<input, groups, owner, live, near, detected, speakers>>

-----------------------------------------------------------------------------
(* Runs of tokens in one column, by their first token.                     *)

Largest(S) == CHOOSE i \in S : \A j \in S : j <= i
Smallest(S) == CHOOSE i \in S : \A j \in S : i <= j

Starts(w) == {i \in DOMAIN w : w[i] # Silent /\ (i = 1 \/ w[i - 1] # w[i])}
Last(w, a) == CHOOSE b \in DOMAIN w :
    /\ a <= b /\ \A i \in a..b : w[i] = w[a]
    /\ b + 1 \in DOMAIN w => w[b + 1] # w[a]

\* spoken_word_count: the tokens that start a word, at least one.
Spoken(first, last) ==
    LET n == Cardinality({i \in first..last : input.words[i].lead})
    IN IF n = 0 THEN 1 ELSE n

Span(first, last) ==
    LET s == input.words[last].end - input.words[first].start
    IN IF s < 0 THEN 0 ELSE s

Run(w, a, b) == [end |-> b, col |-> w[a], words |-> Spoken(a, b), span |-> Span(a, b)]

\* speaker_runs.
SpeakerRuns(w) == [a \in Starts(w) |-> Run(w, a, Last(w, a))]

\* The neighbours of a run, across silence.
Earlier(runs, a) == {b \in DOMAIN runs : b < a}
Later(runs, a) == {b \in DOMAIN runs : b > a}
Prev(runs, a) == runs[Largest(Earlier(runs, a))]
Following(runs, a) == runs[Smallest(Later(runs, a))]

Bracketed(runs, a) ==
    /\ Earlier(runs, a) # {} /\ Later(runs, a) # {}
    /\ Prev(runs, a).col = Following(runs, a).col

Dwarfed(runs, a) ==
    runs[a].words < Prev(runs, a).words /\ runs[a].words < Following(runs, a).words

\* Mutant: a run between two longer ones of one speaker is absorbed at any length.
UncappedAbsorbable(runs, a) ==
    \/ runs[a].words = 1 \/ runs[a].span < MinTurn
    \/ Bracketed(runs, a) /\ (runs[a].words <= MaxIsland \/ Dwarfed(runs, a))

\* Mutant: a single word is left to the length of its run.
PatientAbsorbable(runs, a) ==
    \/ runs[a].span < MinTurn
    \/ /\ Bracketed(runs, a)
       /\ \/ runs[a].words <= MaxIsland
          \/ runs[a].words <= MaxBracketed /\ Dwarfed(runs, a)

Absorbable(runs, a) ==
    \/ runs[a].words = 1 \/ runs[a].span < MinTurn
    \/ /\ Bracketed(runs, a)
       /\ \/ runs[a].words <= MaxIsland
          \/ runs[a].words <= MaxBracketed /\ Dwarfed(runs, a)

\* The longer neighbour, or the one there is; of two alike the previous one.
Target(runs, a) ==
    IF \/ Later(runs, a) = {}
       \/ Earlier(runs, a) # {} /\ Following(runs, a).span <= Prev(runs, a).span
    THEN Prev(runs, a).col ELSE Following(runs, a).col

\* Mutant: a run that has the speaker of its neighbour already counts as progress.
Restless(runs) == {a \in DOMAIN runs : Cardinality(DOMAIN runs) >= 2 /\ Absorbable(runs, a)}

\* Absorbing a run into its own speaker is no progress.
Islands(runs) ==
    {a \in DOMAIN runs :
        Cardinality(DOMAIN runs) >= 2 /\ Absorbable(runs, a) /\ Target(runs, a) # runs[a].col}

\* The smallest island first, of equally small ones the first.
Absorb ==
    /\ phase = "smooth"
    /\ \E runs \in {SpeakerRuns(cols)} : \E islands \in {Islands(runs)}, a \in DOMAIN runs :
         /\ a \in islands
         /\ \A b \in islands : ~Before(runs[b].words, b, runs[a].words, a)
         /\ cols' = [i \in Tokens |-> IF i \in a..runs[a].end THEN Target(runs, a) ELSE cols[i]]
    /\ UNCHANGED <<input, phase, groups, owner, live, near, raw, detected, speakers>>

SmoothEnds ==
    /\ phase = "smooth" /\ \E runs \in {SpeakerRuns(cols)} : Islands(runs) = {}
    /\ phase' = "fill"
    /\ UNCHANGED <<input, groups, owner, live, near, cols, raw, detected, speakers>>

-----------------------------------------------------------------------------
(* Tokens without a column, written words, numbers.                        *)

Attributed == {i \in Tokens : cols[i] # Silent}
Left(i) == {j \in Attributed : j < i}
Right(i) == {j \in Attributed : j > i}
Abs(n) == IF n < 0 THEN -n ELSE n
Gap(i, j) == Abs(input.words[j].start - input.words[i].end)

\* The neighbour that is nearer in time, or the one there is, or none.
Neighbour(i) ==
    IF Left(i) = {} /\ Right(i) = {} THEN Silent
    ELSE IF Left(i) = {} THEN cols[Smallest(Right(i))]
    ELSE IF Right(i) = {} THEN cols[Largest(Left(i))]
    ELSE LET l == Largest(Left(i))  r == Smallest(Right(i))
         IN IF Gap(i, r) < Gap(l, i) THEN cols[r] ELSE cols[l]

\* Mutant: only what stands between two tokens is filled.
InnerFill ==
    /\ phase = "fill"
    /\ cols' = [i \in Tokens |-> IF cols[i] # Silent THEN cols[i]
                                 ELSE IF Left(i) = {} \/ Right(i) = {} THEN Silent
                                 ELSE Neighbour(i)]
    /\ phase' = "join"
    /\ UNCHANGED <<input, groups, owner, live, near, raw, detected, speakers>>

Fill ==
    /\ phase = "fill"
    /\ cols' = [i \in Tokens |-> IF cols[i] # Silent THEN cols[i] ELSE Neighbour(i)]
    /\ phase' = "join"
    /\ UNCHANGED <<input, groups, owner, live, near, raw, detected, speakers>>

\* coalesce_subword_tokens: the token that starts the written word.
Host(i) == Largest({j \in 1..i : j = 1 \/ input.words[j].lead})

Join ==
    /\ phase = "join"
    /\ cols' = [i \in Tokens |-> cols[Host(i)]]
    /\ phase' = "number"
    /\ UNCHANGED <<input, groups, owner, live, near, raw, detected, speakers>>

FirstOf(c) == Smallest({i \in Tokens : cols[i] = c})

\* [Speaker N] in the order of their first tokens.
Number ==
    /\ phase = "number"
    /\ LET found == {cols[i] : i \in Attributed}
           Rank(c) == Cardinality({d \in found : FirstOf(d) <= FirstOf(c)})
       IN speakers' = [n \in 1..Cardinality(found) |-> CHOOSE c \in found : Rank(c) = n]
    /\ phase' = "done"
    /\ UNCHANGED <<input, groups, owner, live, near, cols, raw, detected>>

Next ==
    \/ MergeAlike \/ FoldAlike \/ StartPrior \/ NoPrior \/ MergeClosest \/ PriorEnds
    \/ Attribute \/ Absorb \/ SmoothEnds \/ Fill \/ Join \/ Number

Spec == Init /\ [][Next]_vars
FairSpec == Spec /\ WF_vars(Next)

-----------------------------------------------------------------------------
(* Properties.                                                             *)

\* The types; speakers are columns, whatever the smoothing left of them.
TypeOK ==
    /\ input \in Inputs
    /\ phase \in {"alike", "prior", "expected", "attribute", "smooth", "fill", "join",
                  "number", "done"}
    /\ groups \subseteq SUBSET Columns
    /\ owner \in [Columns -> Columns] /\ live \subseteq Columns
    /\ near \in [Pairs -> Cosines] /\ detected \in Nat
    /\ cols \in [Tokens -> Columns \cup {Silent}] /\ raw \in [Tokens -> Columns \cup {Silent}]
    /\ speakers \in Seq(Columns)

\* Columns are taken for one voice only if each two of them sound alike, so no
\* chain of borderline pairs makes one speaker of two distinct voices; and no
\* two groups that could be one are left (merge_similar_clusters).
MergedVoicesAreAlike ==
    /\ \A g \in groups : \A c, d \in g : c # d => Clear(c, d)
    /\ phase # "alike" => \A g, h \in groups : g # h => ~Mergeable(g, h)

\* When the words are attributed the frames name exactly the speakers the user
\* expects, or as few as the columns without a voiceprint allow; and a recording
\* in which no more were detected keeps those it has (merge_to_expected_count).
PriorHonoured ==
    LET voices == {owner[c] : c \in Used} IN
    phase \in {"attribute", "smooth", "fill", "join", "number", "done"} =>
        IF input.expected = 0 \/ detected <= input.expected
        THEN Cardinality(voices) = detected
        ELSE \/ Cardinality(voices) = input.expected
             \/ /\ Cardinality(voices) > input.expected
                /\ Cardinality(voices \cap input.voiced) <= 1

\* A turn too long to be an island is never merged away, whatever is smoothed,
\* filled and joined around it: the words that start in it stay its speaker's
\* (MAX_BRACKETED_ISLAND_WORDS: "never silently merged").
LongTurnsSurvive ==
    phase \in {"smooth", "fill", "join", "number", "done"} =>
        \A runs \in {SpeakerRuns(raw)} : \A a \in DOMAIN runs :
            runs[a].words > MaxBracketed /\ runs[a].span >= MinTurn =>
                \A i \in a..runs[a].end : input.words[i].lead => cols[i] = raw[i]

\* A token no frame spoke for, in a word of which another token was heard.
HeardInPart(i) == \E j \in Tokens : Host(j) = Host(i) /\ raw[j] # Silent
Overlapping == \E i, j \in Tokens : i < j /\ input.words[j].start < input.words[i].end

\* In a transcript of several speakers no turn is a single word, unless a token of
\* that word, or of the one before it, was heard by no frame: "one word is never a
\* real turn" (smooth_word_speaker_runs).  When tokens do not overlap in time it
\* takes a word that was heard only in part.
NoLoneTurn ==
    phase = "done" =>
        \A runs \in {SpeakerRuns(cols)} : \A a \in DOMAIN runs :
            \/ Cardinality(DOMAIN runs) = 1 \/ runs[a].words > 1
            \/ \E i \in (IF a = 1 THEN 1 ELSE Host(a - 1))..runs[a].end :
                 raw[i] = Silent /\ (HeardInPart(i) \/ Overlapping)

\* If the model heard anybody, every token of the transcript has a speaker, one
\* that the model heard in some token; the numbers run without a gap, each in the
\* order in which its speaker first speaks (backfill_unattributed_words,
\* assign_words).
EveryWordHasASpeaker ==
    LET heard == {raw[i] : i \in Tokens} \ {Silent}
        named == {speakers[n] : n \in 1..Len(speakers)}
    IN phase = "done" =>
        /\ heard # {} => {cols[i] : i \in Tokens} = named
        /\ named \subseteq heard
        /\ \A m, n \in 1..Len(speakers) : m < n => FirstOf(speakers[m]) < FirstOf(speakers[n])

\* The same without the exception (diarization.rs:580: "a lone single word (one
\* word is never a real turn)" is an island to absorb).
NoWordIsATurn ==
    phase = "done" =>
        \A runs \in {SpeakerRuns(cols)} :
            Cardinality(DOMAIN runs) > 1 => \A a \in DOMAIN runs : runs[a].words > 1

\* The attribution comes to its end for every recording ("so this always
\* terminates", smooth_word_speaker_runs).
AttributionEnds == <>(phase = "done")
=============================================================================
