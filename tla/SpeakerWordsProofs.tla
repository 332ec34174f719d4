-------------------------- MODULE SpeakerWordsProofs --------------------------
(***************************************************************************)
(* The safety of the speaker attribution for every recording, every finite *)
(* set of columns and all thresholds.  The invariant carries through the   *)
(* steps what each of them may count on: that the groups partition the     *)
(* columns (Partition), which columns are live (PriorInv), that a token    *)
(* only ever gets a voice that was heard (WordInv), and that a run too     *)
(* long to be an island is still whole (LongInv): a run the smoothing      *)
(* absorbs would have to cover it, and would be as long.                   *)
(*                                                                         *)
(* A second invariant (LoneInv) follows the one-word turns from phase to   *)
(* phase.  A one-word run the smoothing leaves has its own voice across a  *)
(* silence on one side, or is the only voice (Settled).  The filling gives *)
(* a silent token the voice of the nearer heard one (FilledIn), and the    *)
(* joining gives the tokens of a word the voice of its first.  A one-word  *)
(* turn that remains then stands at a silent token, in its word or in the  *)
(* one before, that a word boundary cut off its run (LoneExcused).         *)
(***************************************************************************)
EXTENDS SpeakerWords, FiniteSetTheorems, TLAPS

-----------------------------------------------------------------------------
(* Smallest and largest elements.                                          *)

\* The natural numbers are well-ordered.
LEMMA HasSmallest ==
  ASSUME NEW S \in SUBSET Nat, S # {}
  PROVE  \E m \in S : \A n \in S : m <= n
<1>. DEFINE L == {p \in Nat \X Nat : p[1] < p[2]}
<1>1. IsWellFoundedOn(L, Nat)
  BY NatLessThanWellFounded DEF OpToRel
<1>2. ASSUME NEW m \in Nat, NEW n \in Nat, n < m PROVE <<n, m>> \in L
  <2>. DEFINE p == <<n, m>>
  <2>1. p \in Nat \X Nat /\ p[1] = n /\ p[2] = m
    OBVIOUS
  <2>2. p[1] < p[2]
    BY <2>1, <1>2
  <2>. HIDE DEF p
  <2>3. p \in L
    BY <2>1, <2>2
  <2>. QED
    BY <2>3 DEF p
<1>. HIDE DEF L
<1>3. PICK m \in S : \A n \in S : ~ (<<n, m>> \in L)
  BY <1>1, WFMin
<1>4. ASSUME NEW n \in S PROVE m <= n
  <2>1. ~ (n < m)
    BY <1>2, <1>3, Zenon
  <2>. QED
    BY <2>1
<1>. QED
  BY <1>4

\* What Smallest and Root choose.
LEMMA SmallestIs ==
  ASSUME NEW S \in SUBSET Nat, S # {}
  PROVE  Smallest(S) \in S /\ \A j \in S : Smallest(S) <= j
  BY HasSmallest DEF Smallest

LEMMA RootIs ==
  ASSUME NEW S \in SUBSET Nat, S # {}
  PROVE  Root(S) \in S /\ \A j \in S : Root(S) <= j
  BY HasSmallest DEF Root

\* A bounded set has a largest element.
LEMMA LargestIs ==
  ASSUME NEW n \in Nat, NEW S \in SUBSET (0..n), S # {}
  PROVE  Largest(S) \in S /\ \A j \in S : j <= Largest(S)
<1>. DEFINE T == {i \in 0..n : n - i \in S}
<1>1. T \in SUBSET Nat /\ T # {}
  <2>1. PICK j \in S : TRUE
    OBVIOUS
  <2>2. PICK k \in 0..n : n - k = j
    <3>1. n - j \in 0..n /\ n - (n - j) = j
      BY <2>1
    <3>. QED
      BY <3>1
  <2>3. n - k \in S
    BY <2>1, <2>2
  <2>4. k \in T
    BY <2>3
  <2>5. \A x \in T : x \in Nat
    OBVIOUS
  <2>. HIDE DEF T
  <2>. QED
    BY <2>4, <2>5
<1>2. PICK m \in T : \A k \in T : m <= k
  BY <1>1, HasSmallest
<1>3. n - m \in S
  BY <1>2
<1>4. \A j \in S : j <= n - m
  <2>. SUFFICES ASSUME NEW j \in S PROVE j <= n - m
    OBVIOUS
  <2>1. n - j \in 0..n /\ n - (n - j) = j
    OBVIOUS
  <2>2. n - j \in T
    BY <2>1
  <2>3. m <= n - j
    BY <1>2, <2>2
  <2>. QED
    BY <2>3, <1>2
<1>. QED
  BY <1>3, <1>4 DEF Largest

\* A run has an end: the last token before one that differs.
EndsRun(w, a, e) ==
    /\ e \in DOMAIN w /\ a <= e /\ \A i \in a..e : w[i] = w[a]
    /\ e + 1 \in DOMAIN w => w[e + 1] # w[a]

LEMMA LastIs ==
  ASSUME NEW n \in Nat, NEW w, DOMAIN w = 1..n, NEW a \in 1..n
  PROVE  EndsRun(w, a, Last(w, a))
<1>. DEFINE S == {b \in a..n : b = n \/ w[b + 1] # w[a]}
<1>1. S \in SUBSET Nat /\ S # {}
  <2>1. n \in S /\ \A b \in S : b \in Nat
    OBVIOUS
  <2>. HIDE DEF S
  <2>. QED
    BY <2>1
<1>2. PICK m \in S : \A k \in S : m <= k
  BY <1>1, HasSmallest
<1>3. m \in 1..n /\ a <= m /\ (m + 1 \in 1..n => w[m + 1] # w[a])
  OBVIOUS
<1>4. ASSUME NEW i \in a..m PROVE w[i] = w[a]
  <2>1. CASE i = a
    BY <2>1
  <2>2. CASE i # a
    <3>1. i - 1 \in a..n /\ i - 1 < m /\ (i - 1) + 1 = i
      BY <2>2
    <3>2. i - 1 \notin S
      BY <3>1, <1>2
    <3>. QED
      BY <3>1, <3>2
  <2>. QED
    BY <2>1, <2>2
<1>5. \E e \in DOMAIN w :
        /\ a <= e /\ \A i \in a..e : w[i] = w[a]
        /\ e + 1 \in DOMAIN w => w[e + 1] # w[a]
  BY <1>3, <1>4
<1>. QED
  BY <1>5 DEF Last, EndsRun

-----------------------------------------------------------------------------
(* The invariant.                                                          *)

Partition ==
    /\ \A c \in Columns : \E g \in groups : c \in g
    /\ \A g \in groups : g # {}
    /\ \A g, h \in groups : g \cap h # {} => g = h

\* The live columns are those the folded frames name, counted down to the prior.
PriorInv ==
    /\ phase # "alike" => live = {owner[c] : c \in Used}
    /\ phase = "prior" => detected = Cardinality(live)
    /\ phase = "expected" =>
         /\ input.expected > 0 /\ detected > input.expected
         /\ Cardinality(live) >= input.expected

Wording == {"smooth", "fill", "join", "number", "done"}

\* Smoothing moves tokens between voices that were heard, and leaves silence.
WordInv ==
    /\ phase \in {"smooth", "fill"} => \A i \in Tokens : cols[i] = Silent <=> raw[i] = Silent
    /\ phase \in Wording => \A i \in Tokens : cols[i] # Silent => \E j \in Tokens : raw[j] = cols[i]
    /\ phase \in Wording \ {"smooth", "fill"} =>
         ((\E i \in Tokens : raw[i] # Silent) => \A i \in Tokens : cols[i] # Silent)

\* A long turn keeps all its tokens as long as written words may be cut in two.
Long(a) ==
    /\ a \in Starts(raw)
    /\ Spoken(a, Last(raw, a)) > MaxBracketed /\ Span(a, Last(raw, a)) >= MinTurn

LongInv ==
    /\ phase \in {"smooth", "fill", "join"} =>
         \A a \in Tokens : Long(a) => \A i \in a..Last(raw, a) : cols[i] = raw[i]
    /\ phase \in {"number", "done"} =>
         \A a \in Tokens : Long(a) =>
            \A i \in a..Last(raw, a) : input.words[i].lead => cols[i] = raw[i]

IInv ==
    /\ TypeOK /\ Partition /\ MergedVoicesAreAlike /\ PriorInv /\ PriorHonoured
    /\ WordInv /\ LongInv /\ EveryWordHasASpeaker

\* What the assumptions say of the recording at hand.
LEMMA InputFacts ==
  ASSUME TypeOK
  PROVE  /\ Len(input.words) \in Nat /\ Tokens = 1..Len(input.words)
         /\ \A i \in Tokens : input.words[i] \in Word
         /\ Used \subseteq Columns /\ IsFiniteSet(Used)
         /\ input.voiced \subseteq Columns /\ input.expected \in Nat
         /\ input.cos \in [Pairs -> Cosines]
<1>1. /\ input.frames \in Seq(Columns \cup {Silent})
      /\ input.words \in Seq(Word)
      /\ input.cos \in [Pairs -> Cosines]
      /\ input.voiced \subseteq Columns /\ input.expected \in Nat
  BY InputAssumption DEF TypeOK
<1>2. Used \subseteq Columns
  BY <1>1 DEF Used
<1>3. IsFiniteSet(Used)
  BY <1>2, ConstantsAssumption, FS_Subset
<1>. QED
  BY <1>1, <1>2, <1>3 DEF Tokens

LEMMA InitInv == Init => IInv
<1> SUFFICES ASSUME Init PROVE IInv
  OBVIOUS
<1>1. TypeOK
  <2>1. input \in Inputs /\ input.cos \in [Pairs -> Cosines]
    BY InputAssumption DEF Init
  <2>2. speakers \in Seq(Columns)
    BY DEF Init
  <2>. QED
    BY <2>1, <2>2 DEF Init, TypeOK
<1>2. Partition
  <2>1. groups = {{c} : c \in Columns}
    BY DEF Init
  <2>. QED
    BY <2>1, Zenon DEF Partition
<1>3. MergedVoicesAreAlike
  BY DEF Init, MergedVoicesAreAlike
<1>4. PriorInv /\ PriorHonoured /\ WordInv /\ LongInv /\ EveryWordHasASpeaker
  BY DEF Init, PriorInv, PriorHonoured, WordInv, Wording, LongInv, EveryWordHasASpeaker
<1>. QED
  BY <1>1, <1>2, <1>3, <1>4 DEF IInv

-----------------------------------------------------------------------------
(* Voices.                                                                 *)

LEMMA ClearIsSymmetric ==
  ASSUME NEW c, NEW d, Clear(c, d)
  PROVE  Clear(d, c)
<1>1. {c, d} = {d, c}
  OBVIOUS
<1>. QED
  BY <1>1 DEF Clear

\* Both speak of the recording and of nothing that changes.
LEMMA ClearStays ==
  ASSUME UNCHANGED input
  PROVE  /\ \A c, d : Clear(c, d)' <=> Clear(c, d)
         /\ \A g, h : Mergeable(g, h)' <=> Mergeable(g, h)
  BY DEF Clear, Mergeable

\* While columns are merged there are no words yet.
LEMMA NoWordsYet ==
  ASSUME phase' \in {"alike", "prior", "expected"}
  PROVE  PriorHonoured' /\ WordInv' /\ LongInv' /\ EveryWordHasASpeaker'
  BY DEF PriorHonoured, WordInv, Wording, LongInv, EveryWordHasASpeaker

LEMMA MergeAlikeInv == IInv /\ MergeAlike => IInv'
<1> SUFFICES ASSUME IInv, MergeAlike PROVE IInv'
  OBVIOUS
<1>1. PICK g \in groups, h \in groups :
        /\ Root(g) < Root(h) /\ Mergeable(g, h)
        /\ groups' = (groups \ {g, h}) \cup {g \cup h}
  <2>1. PICK p \in Candidates : groups' = (groups \ {p[1], p[2]}) \cup {p[1] \cup p[2]}
    BY DEF MergeAlike
  <2>2. p[1] \in groups /\ p[2] \in groups /\ Root(p[1]) < Root(p[2]) /\ Mergeable(p[1], p[2])
    BY <2>1 DEF Candidates
  <2>. QED
    BY <2>1, <2>2
<1>2. /\ phase = "alike" /\ phase' = "alike"
      /\ UNCHANGED <<input, owner, live, near, cols, raw, detected, speakers>>
  BY DEF MergeAlike
<1>3. TypeOK'
  BY <1>1, <1>2 DEF TypeOK, IInv, Tokens
<1>4. Partition'
  <2>1. /\ \A c \in Columns : \E k \in groups : c \in k
        /\ \A k \in groups : k # {}
        /\ \A k, l \in groups : k \cap l # {} => k = l
    BY DEF IInv, Partition
  <2>2. ASSUME NEW c \in Columns PROVE \E k \in groups' : c \in k
    <3>1. PICK k \in groups : c \in k
      BY <2>1
    <3>. QED
      BY <1>1, <3>1
  <2>3. \A k \in groups' : k # {}
    BY <1>1, <2>1
  <2>4. ASSUME NEW k \in groups', NEW l \in groups', k \cap l # {} PROVE k = l
    BY <1>1, <2>1, <2>4
  <2>. QED
    BY <2>2, <2>3, <2>4 DEF Partition
<1>5. MergedVoicesAreAlike'
  <2>1. ASSUME NEW k \in groups', NEW c \in k, NEW d \in k, c # d
        PROVE  Clear(c, d)
    <3>1. CASE k \in groups
      BY <2>1, <3>1 DEF IInv, MergedVoicesAreAlike
    <3>2. CASE k = g \cup h /\ c \in g /\ d \in g
      BY <2>1, <3>2 DEF IInv, MergedVoicesAreAlike
    <3>3. CASE k = g \cup h /\ c \in h /\ d \in h
      BY <2>1, <3>3 DEF IInv, MergedVoicesAreAlike
    <3>4. CASE k = g \cup h /\ c \in g /\ d \in h
      BY <1>1, <3>4 DEF Mergeable
    <3>5. CASE k = g \cup h /\ c \in h /\ d \in g
      BY <1>1, <3>5, ClearIsSymmetric DEF Mergeable
    <3>. QED
      BY <1>1, <3>1, <3>2, <3>3, <3>4, <3>5
  <2>. QED
    BY <1>2, <2>1, ClearStays DEF MergedVoicesAreAlike
<1>6. PriorInv'
  BY <1>2 DEF PriorInv
<1>. QED
  BY <1>2, <1>3, <1>4, <1>5, <1>6, NoWordsYet DEF IInv

\* Without a candidate no two groups could be one.
LEMMA NoCandidate ==
  ASSUME TypeOK, Partition, Candidates = {},
         NEW g \in groups, NEW h \in groups, g # h
  PROVE  ~Mergeable(g, h)
<1>1. g \in SUBSET Nat /\ h \in SUBSET Nat /\ g # {} /\ h # {} /\ g \cap h = {}
  BY ConstantsAssumption DEF TypeOK, Partition
<1>2. Root(g) \in g /\ Root(h) \in h
  BY <1>1, RootIs
<1>3. Root(g) < Root(h) \/ Root(h) < Root(g)
  <2>1. Root(g) \in Nat /\ Root(h) \in Nat /\ Root(g) # Root(h)
    BY <1>1, <1>2, Zenon
  <2>. QED
    BY <2>1
<1>4. SUFFICES ASSUME Mergeable(g, h) PROVE FALSE
  OBVIOUS
<1>5. Mergeable(h, g)
  BY <1>4, ClearIsSymmetric DEF Mergeable
<1>6. ASSUME NEW k \in groups, NEW l \in groups, Root(k) < Root(l), Mergeable(k, l)
      PROVE  <<k, l>> \in Candidates
  BY <1>6 DEF Candidates
<1>. QED
  BY <1>3, <1>4, <1>5, <1>6

\* A column is folded into a member of its own group.
LEMMA OwnerIs ==
  ASSUME TypeOK, Partition, NEW c \in Columns
  PROVE  Root(CHOOSE g \in groups : c \in g) \in Columns
<1>1. \E g \in groups : c \in g
  BY DEF Partition
<1>2. DEFINE k == CHOOSE g \in groups : c \in g
<1>3. k \in groups /\ c \in k
  BY <1>1
<1>4. k \in SUBSET Nat /\ k # {} /\ k \subseteq Columns
  BY <1>3, ConstantsAssumption DEF TypeOK
<1>. QED
  BY <1>4, RootIs

LEMMA FoldAlikeInv == IInv /\ FoldAlike => IInv'
<1> SUFFICES ASSUME IInv, FoldAlike PROVE IInv'
  OBVIOUS
<1>1. /\ phase' = "prior" /\ Candidates = {}
      /\ UNCHANGED <<input, groups, near, cols, raw, speakers>>
      /\ owner' = [c \in Columns |-> Root(CHOOSE g \in groups : c \in g)]
      /\ live' = {owner'[c] : c \in Used} /\ detected' = Cardinality(live')
  BY DEF FoldAlike
<1>2. owner' \in [Columns -> Columns]
  BY <1>1, OwnerIs DEF IInv
<1>3. live' \subseteq Columns /\ IsFiniteSet(live') /\ Used' = Used
  <2>1. Used' = Used
    BY <1>1 DEF Used
  <2>2. \A c \in Used : owner'[c] \in Columns
    BY <1>2, InputFacts DEF IInv
  <2>3. live' \subseteq Columns
    <3>1. live' = {owner'[c] : c \in Used}
      BY <1>1
    <3>. QED
      BY <2>2, <3>1, Zenon
  <2>. QED
    BY <2>1, <2>3, ConstantsAssumption, FS_Subset
<1>4. detected' \in Nat
  BY <1>1, <1>3, FS_CardinalityType
<1>5. TypeOK'
  BY <1>1, <1>2, <1>3, <1>4 DEF TypeOK, IInv, Tokens
<1>6. Partition'
  BY <1>1 DEF IInv, Partition
<1>7. MergedVoicesAreAlike'
  BY <1>1, NoCandidate, ClearStays DEF IInv, MergedVoicesAreAlike
<1>8. PriorInv'
  BY <1>1, <1>3 DEF PriorInv
<1>. QED
  BY <1>1, <1>5, <1>6, <1>7, <1>8, NoWordsYet DEF IInv

\* After the first merge the groups stay.
LEMMA GroupsStay ==
  ASSUME Partition, MergedVoicesAreAlike, phase # "alike", phase' # "alike",
         UNCHANGED <<input, groups>>
  PROVE  Partition' /\ MergedVoicesAreAlike'
<1>1. Partition'
  BY DEF Partition
<1>2. MergedVoicesAreAlike'
  BY ClearStays DEF MergedVoicesAreAlike
<1>. QED
  BY <1>1, <1>2

LEMMA StartPriorInv == IInv /\ StartPrior => IInv'
<1> SUFFICES ASSUME IInv, StartPrior PROVE IInv'
  OBVIOUS
<1>1. /\ phase = "prior" /\ phase' = "expected" /\ near' \in [Pairs -> Cosines]
      /\ input.expected > 0 /\ Cardinality(live) > input.expected
      /\ UNCHANGED <<input, groups, owner, live, cols, raw, detected, speakers>>
  BY DEF StartPrior
<1>2. TypeOK'
  BY <1>1 DEF TypeOK, IInv, Tokens
<1>3. Cardinality(live) \in Nat /\ input.expected \in Nat
  BY ConstantsAssumption, FS_Subset, FS_CardinalityType, InputFacts DEF TypeOK, IInv
<1>4. PriorInv'
  BY <1>1, <1>3 DEF PriorInv, IInv, Used
<1>. QED
  BY <1>1, <1>2, <1>4, GroupsStay, NoWordsYet DEF IInv

LEMMA NoPriorInv == IInv /\ NoPrior => IInv'
<1> SUFFICES ASSUME IInv, NoPrior PROVE IInv'
  OBVIOUS
<1>1. /\ phase = "prior" /\ phase' = "attribute"
      /\ input.expected = 0 \/ Cardinality(live) <= input.expected
      /\ UNCHANGED <<input, groups, owner, live, near, cols, raw, detected, speakers>>
  BY DEF NoPrior
<1>2. TypeOK'
  BY <1>1 DEF TypeOK, IInv, Tokens
<1>3. PriorInv'
  BY <1>1 DEF PriorInv, IInv, Used
<1>4. PriorHonoured'
  <2>1. Used' = Used /\ detected = Cardinality({owner[c] : c \in Used})
    BY <1>1 DEF IInv, PriorInv, Used
  <2>2. input.expected = 0 \/ detected <= input.expected
    BY <1>1 DEF IInv, PriorInv
  <2>. QED
    BY <1>1, <2>1, <2>2 DEF PriorHonoured
<1>5. WordInv' /\ LongInv' /\ EveryWordHasASpeaker'
  BY <1>1 DEF WordInv, Wording, LongInv, EveryWordHasASpeaker
<1>. QED
  BY <1>1, <1>2, <1>3, <1>4, <1>5, GroupsStay DEF IInv

LEMMA MergeClosestInv == IInv /\ MergeClosest => IInv'
<1> SUFFICES ASSUME IInv, MergeClosest PROVE IInv'
  OBVIOUS
<1>1. PICK c \in live \cap input.voiced, d \in live \cap input.voiced :
        /\ c < d
        /\ owner' = [e \in Columns |-> IF owner[e] = d THEN c ELSE owner[e]]
        /\ live' = live \ {d}
  BY DEF MergeClosest
<1>2. /\ phase = "expected" /\ phase' = "expected" /\ Cardinality(live) > input.expected
      /\ UNCHANGED <<input, groups, near, cols, raw, detected, speakers>>
  BY DEF MergeClosest, TooMany
<1>3. TypeOK'
  BY <1>1, <1>2 DEF TypeOK, IInv, Tokens
<1>4. /\ IsFiniteSet(live) /\ Cardinality(live) \in Nat /\ input.expected \in Nat
      /\ Cardinality(live \ {d}) = Cardinality(live) - 1
  BY ConstantsAssumption, FS_Subset, FS_CardinalityType, FS_RemoveElement, InputFacts
  DEF TypeOK, IInv
<1>5. live' = {owner'[e] : e \in Used}
  <2>1. live = {owner[e] : e \in Used} /\ Used \subseteq Columns
    BY <1>2, InputFacts DEF IInv, PriorInv
  <2>2. c \in live /\ d \in live /\ c # d /\ c \in Nat /\ d \in Nat
    BY <1>1, ConstantsAssumption DEF IInv, TypeOK
  <2>3. ASSUME NEW e \in Used PROVE owner'[e] \in live \ {d}
    BY <1>1, <2>1, <2>2
  <2>4. ASSUME NEW x \in live \ {d} PROVE \E e \in Used : owner'[e] = x
    BY <1>1, <2>1, <2>2
  <2>. QED
    BY <1>1, <2>3, <2>4
<1>6. PriorInv'
  <2>1. /\ Used' = Used /\ input.expected > 0 /\ detected > input.expected
    BY <1>2 DEF PriorInv, IInv, Used
  <2>2. Cardinality(live') >= input.expected
    BY <1>1, <1>2, <1>4
  <2>. QED
    BY <1>2, <1>5, <2>1, <2>2 DEF PriorInv
<1>. QED
  BY <1>2, <1>3, <1>6, GroupsStay, NoWordsYet DEF IInv

LEMMA PriorEndsInv == IInv /\ PriorEnds => IInv'
<1> SUFFICES ASSUME IInv, PriorEnds PROVE IInv'
  OBVIOUS
<1>1. /\ phase = "expected" /\ phase' = "attribute" /\ ~TooMany
      /\ UNCHANGED <<input, groups, owner, live, near, cols, raw, detected, speakers>>
  BY DEF PriorEnds
<1>2. TypeOK'
  BY <1>1 DEF TypeOK, IInv, Tokens
<1>3. PriorInv'
  BY <1>1 DEF PriorInv, IInv, Used
<1>4. PriorHonoured'
  <2>1. Used' = Used /\ live = {owner[c] : c \in Used}
    BY <1>1 DEF IInv, PriorInv, Used
  <2>2. /\ input.expected > 0 /\ detected > input.expected
        /\ Cardinality(live) >= input.expected
    BY <1>1 DEF IInv, PriorInv
  <2>3. /\ IsFiniteSet(live) /\ Cardinality(live) \in Nat /\ input.expected \in Nat
        /\ Cardinality(live \cap input.voiced) \in Nat
    BY ConstantsAssumption, FS_Subset, FS_CardinalityType, FS_Intersection, InputFacts
    DEF TypeOK, IInv
  <2>4. \/ Cardinality(live) = input.expected
        \/ Cardinality(live) > input.expected /\ Cardinality(live \cap input.voiced) <= 1
    BY <1>1, <2>2, <2>3 DEF TooMany
  <2>5. input.expected # 0 /\ ~(detected <= input.expected)
    BY <2>2, <2>3 DEF IInv, TypeOK
  <2>. QED
    BY <1>1, <2>1, <2>4, <2>5 DEF PriorHonoured
<1>5. WordInv' /\ LongInv' /\ EveryWordHasASpeaker'
  BY <1>1 DEF WordInv, Wording, LongInv, EveryWordHasASpeaker
<1>. QED
  BY <1>1, <1>2, <1>3, <1>4, <1>5, GroupsStay DEF IInv

-----------------------------------------------------------------------------
(* Words.                                                                  *)

\* Once the words are attributed the voices stay.
LEMMA VoicesStay ==
  ASSUME IInv, phase \in {"attribute"} \cup Wording, phase' \in Wording,
         UNCHANGED <<input, groups, owner, live, near, detected>>
  PROVE  Partition' /\ MergedVoicesAreAlike' /\ PriorInv' /\ PriorHonoured'
<1>1. Partition' /\ MergedVoicesAreAlike'
  BY GroupsStay DEF IInv, Wording
<1>2. Used' = Used
  BY DEF Used
<1>3. PriorInv'
  BY <1>2 DEF IInv, PriorInv, Wording
<1>4. PriorHonoured'
  BY <1>2 DEF IInv, PriorHonoured, Wording
<1>. QED
  BY <1>1, <1>3, <1>4

\* The most active column exists.
LEMMA DominantIs ==
  ASSUME TypeOK, NEW i \in Tokens
  PROVE  Dominant(i) \in Columns \cup {Silent}
<1>. DEFINE A(c) == Activity(i, c)
            M == Cardinality(Window(i))
<1>1. IsFiniteSet(Window(i))
  <2>1. /\ input.words[i].start \in Nat /\ input.words[i].end \in Nat
        /\ Len(input.frames) \in Nat
    BY InputFacts, InputAssumption DEF TypeOK, Word
  <2>2. \A t \in Nat : FrameAt(t) \in Int
    <3>1. SUFFICES ASSUME NEW t \in Nat PROVE FrameAt(t) \in Int
      OBVIOUS
    <3>2. 2 * Step \in Nat \ {0} /\ 2 * (t - Half) + Step \in Int
      BY ConstantsAssumption
    <3>3. (2 * (t - Half) + Step) \div (2 * Step) \in Int
      BY <3>2
    <3>. QED
      BY <2>1, <3>3 DEF FrameAt
  <2>. QED
    BY <2>1, <2>2, FS_Interval DEF Window
<1>2. M \in Nat /\ \A c \in Columns : A(c) \in 0..M
  <2>1. M \in Nat
    BY <1>1, FS_CardinalityType
  <2>2. ASSUME NEW c \in Columns PROVE A(c) \in 0..M
    <3>. DEFINE F == {f \in Window(i) : /\ f + 1 \in DOMAIN input.frames
                                        /\ input.frames[f + 1] # Silent
                                        /\ owner[input.frames[f + 1]] = c}
    <3>1. F \in SUBSET Window(i)
      OBVIOUS
    <3>2. IsFiniteSet(F) /\ Cardinality(F) <= M
      BY <1>1, <3>1, FS_Subset
    <3>3. Cardinality(F) \in Nat
      BY <3>2, FS_CardinalityType
    <3>4. A(c) = Cardinality(F)
      BY DEF Activity
    <3>. QED
      BY <2>1, <3>2, <3>3, <3>4
  <2>. QED
    BY <2>1, <2>2
<1>. HIDE DEF A, M
<1>3. CASE Columns = {} \/ \A c \in Columns : A(c) = 0
  BY <1>3 DEF Dominant, A
<1>4. CASE Columns # {} /\ ~(\A c \in Columns : A(c) = 0)
  <2>1. PICK m \in {A(c) : c \in Columns} : \A k \in {A(c) : c \in Columns} : k <= m
    <3>1. {A(c) : c \in Columns} \in SUBSET (0..M) /\ {A(c) : c \in Columns} # {}
      BY <1>2, <1>4
    <3>. QED
      BY <1>2, <3>1, LargestIs
  <2>. DEFINE S == {c \in Columns : A(c) = m}
  <2>2. S \in SUBSET Nat /\ S # {}
    BY <2>1, ConstantsAssumption
  <2>3. PICK c \in S : \A d \in S : c <= d
    BY <2>2, HasSmallest
  <2>4. ASSUME NEW d \in Columns PROVE A(d) < A(c) \/ (A(d) = A(c) /\ c <= d)
    <3>1. A(d) <= m /\ A(d) \in Nat /\ m \in Nat /\ A(c) = m
      BY <1>2, <2>1, <2>3
    <3>2. CASE A(d) = m
      BY <2>3, <3>1, <3>2
    <3>3. CASE A(d) # m
      BY <3>1, <3>3
    <3>. QED
      BY <3>2, <3>3
  <2>5. \E e \in Columns : \A d \in Columns :
          Activity(i, d) < Activity(i, e) \/ (Activity(i, d) = Activity(i, e) /\ e <= d)
    BY <2>3, <2>4 DEF A
  <2>. HIDE DEF S
  <2>. QED
    BY <2>5, <1>4 DEF Dominant, A
<1>. QED
  BY <1>3, <1>4

LEMMA AttributeInv == IInv /\ Attribute => IInv'
<1> SUFFICES ASSUME IInv, Attribute PROVE IInv'
  OBVIOUS
<1>1. /\ phase = "attribute" /\ phase' = "smooth"
      /\ cols' = [i \in Tokens |-> Dominant(i)] /\ raw' = cols'
      /\ UNCHANGED <<input, groups, owner, live, near, detected, speakers>>
  BY DEF Attribute
<1>2. Tokens' = Tokens
  BY <1>1 DEF Tokens
<1>3. cols' \in [Tokens -> Columns \cup {Silent}]
  BY <1>1, DominantIs DEF IInv
<1>4. TypeOK'
  BY <1>1, <1>2, <1>3 DEF TypeOK, IInv
<1>5. WordInv'
  BY <1>1, <1>2 DEF WordInv, Wording
<1>6. LongInv'
  BY <1>1 DEF LongInv
<1>7. EveryWordHasASpeaker'
  BY <1>1 DEF EveryWordHasASpeaker
<1>. QED
  BY <1>1, <1>4, <1>5, <1>6, <1>7, VoicesStay DEF IInv, Wording

\* What a longer stretch counts and spans is no less.
LEMMA Longer ==
  ASSUME TypeOK, NEW a \in Tokens, NEW b \in Tokens, NEW c \in Tokens, NEW d \in Tokens,
         a <= b, b <= c, c <= d
  PROVE  /\ Spoken(b, c) <= Spoken(a, d) /\ Span(b, c) <= Span(a, d)
         /\ Spoken(a, d) \in Nat /\ Span(a, d) \in Nat
         /\ Spoken(b, c) \in Nat /\ Span(b, c) \in Nat
<1>1. Tokens \subseteq Nat
  BY InputFacts
<1>2. \A i \in Tokens : input.words[i].start \in Nat /\ input.words[i].end \in Nat
  BY InputFacts DEF Word
<1>3. Spoken(b, c) <= Spoken(a, d) /\ Spoken(a, d) \in Nat /\ Spoken(b, c) \in Nat
  <2>. DEFINE S == {i \in a..d : input.words[i].lead}
              T == {i \in b..c : input.words[i].lead}
  <2>1. IsFiniteSet(a..d) /\ S \in SUBSET (a..d)
    BY <1>1, FS_Interval
  <2>2. IsFiniteSet(S) /\ Cardinality(S) \in Nat
    BY <2>1, FS_Subset, FS_CardinalityType
  <2>3. T \in SUBSET S
    BY <1>1
  <2>4. Cardinality(T) \in Nat /\ Cardinality(T) <= Cardinality(S)
    BY <2>2, <2>3, FS_Subset, FS_CardinalityType
  <2>5. /\ Spoken(a, d) = IF Cardinality(S) = 0 THEN 1 ELSE Cardinality(S)
        /\ Spoken(b, c) = IF Cardinality(T) = 0 THEN 1 ELSE Cardinality(T)
    BY DEF Spoken
  <2>. HIDE DEF S, T
  <2>. QED
    BY <2>2, <2>4, <2>5
<1>4. Span(b, c) <= Span(a, d) /\ Span(a, d) \in Nat /\ Span(b, c) \in Nat
  <2>1. /\ input.words[a].start <= input.words[b].start
        /\ input.words[c].end <= input.words[d].end
    BY <1>1, OrderAssumption DEF TypeOK, Tokens
  <2>. QED
    BY <1>2, <2>1 DEF Span
<1>. QED
  BY <1>3, <1>4

\* A run that meets a stretch of one column covers it.
LEMMA RunCovers ==
  ASSUME NEW n \in Nat, NEW w, DOMAIN w = 1..n, NEW a \in Starts(w),
         NEW b \in 1..n, NEW c \in 1..n, \A i \in b..c : w[i] = w[b],
         NEW k \in b..c, k \in a..Last(w, a)
  PROVE  a <= b /\ c <= Last(w, a)
<1>1. a \in 1..n /\ (a = 1 \/ w[a - 1] # w[a])
  BY DEF Starts
<1>2. /\ Last(w, a) \in 1..n /\ a <= Last(w, a)
      /\ \A i \in a..Last(w, a) : w[i] = w[a]
      /\ Last(w, a) + 1 \in 1..n => w[Last(w, a) + 1] # w[a]
  <2>1. EndsRun(w, a, Last(w, a))
    BY <1>1, LastIs
  <2>. QED
    BY <2>1 DEF EndsRun
<1>3. w[k] = w[a] /\ w[k] = w[b]
  BY <1>2
<1>4. a <= b
  <2>1. SUFFICES ASSUME b < a PROVE FALSE
    BY <1>1
  <2>2. a - 1 \in b..c /\ a # 1
    BY <1>1, <2>1
  <2>. QED
    BY <1>1, <1>3, <2>2
<1>5. c <= Last(w, a)
  <2>1. SUFFICES ASSUME Last(w, a) < c PROVE FALSE
    BY <1>2
  <2>2. Last(w, a) + 1 \in b..c /\ Last(w, a) + 1 \in 1..n
    BY <1>1, <1>2, <2>1
  <2>. QED
    BY <1>2, <1>3, <2>2
<1>. QED
  BY <1>4, <1>5

\* The ends of the runs of the tokens.
LEMMA TokensLast ==
  ASSUME TypeOK, NEW w \in [Tokens -> Columns \cup {Silent}], NEW a \in Tokens
  PROVE  /\ Last(w, a) \in Tokens /\ a <= Last(w, a)
         /\ \A i \in a..Last(w, a) : i \in Tokens /\ w[i] = w[a]
<1>1. Len(input.words) \in Nat /\ Tokens = 1..Len(input.words) /\ DOMAIN w = Tokens
  BY InputFacts
<1>2. /\ Last(w, a) \in Tokens /\ a <= Last(w, a)
      /\ \A i \in a..Last(w, a) : w[i] = w[a]
  <2>1. EndsRun(w, a, Last(w, a))
    BY <1>1, LastIs
  <2>. QED
    BY <1>1, <2>1 DEF EndsRun
<1>. QED
  BY <1>1, <1>2

\* What is long stays long.
LEMMA LongStays ==
  ASSUME UNCHANGED <<input, raw>>
  PROVE  \A a : (Long(a)' <=> Long(a)) /\ Last(raw, a)' = Last(raw, a)
<1>1. \A a, b : Spoken(a, b)' = Spoken(a, b) /\ Span(a, b)' = Span(a, b)
  BY DEF Spoken, Span
<1>2. \A a : Last(raw, a)' = Last(raw, a)
  BY DEF Last
<1>3. Starts(raw)' = Starts(raw)
  BY DEF Starts
<1>. QED
  BY <1>1, <1>2, <1>3 DEF Long

\* What is absorbed is no long turn, and goes to the voice of another run.
LEMMA AbsorbIs ==
  ASSUME TypeOK, Absorb
  PROVE  \E a \in Starts(cols), b \in Tokens :
           /\ cols[b] # Silent
           /\ Spoken(a, Last(cols, a)) <= MaxBracketed \/ Span(a, Last(cols, a)) < MinTurn
           /\ cols' = [i \in Tokens |-> IF i \in a..Last(cols, a) THEN cols[b] ELSE cols[i]]
<1>. DEFINE runs == SpeakerRuns(cols)
            n == Len(input.words)
<1>1. PICK a \in DOMAIN runs :
        /\ a \in Islands(runs)
        /\ cols' = [i \in Tokens |-> IF i \in a..runs[a].end THEN Target(runs, a) ELSE cols[i]]
  BY DEF Absorb
<1>2. /\ n \in Nat /\ Tokens = 1..n /\ DOMAIN runs = Starts(cols)
      /\ Starts(cols) \subseteq Tokens
      /\ \A b \in Starts(cols) : cols[b] # Silent
      /\ \A b \in Starts(cols) : runs[b] = Run(cols, b, Last(cols, b))
  BY InputFacts DEF SpeakerRuns, Starts, TypeOK
<1>3. \A b \in Starts(cols) : /\ runs[b].end = Last(cols, b) /\ runs[b].col = cols[b]
                              /\ runs[b].words = Spoken(b, Last(cols, b))
                              /\ runs[b].span = Span(b, Last(cols, b))
  BY <1>2 DEF Run
<1>4. Cardinality(DOMAIN runs) >= 2 /\ Absorbable(runs, a)
  BY <1>1 DEF Islands
<1>. HIDE DEF runs, n
<1>5. Spoken(a, Last(cols, a)) <= MaxBracketed \/ Span(a, Last(cols, a)) < MinTurn
  <2>1. /\ Last(cols, a) \in Tokens /\ a \in Tokens /\ a <= Last(cols, a)
    BY <1>1, <1>2, TokensLast DEF TypeOK
  <2>2. Spoken(a, Last(cols, a)) \in Nat
    BY <1>2, <2>1, Longer
  <2>3. \/ runs[a].words = 1 \/ runs[a].span < MinTurn \/ runs[a].words <= MaxIsland
        \/ runs[a].words <= MaxBracketed
    BY <1>4 DEF Absorbable
  <2>. QED
    BY <1>1, <1>2, <1>3, <2>2, <2>3, ConstantsAssumption
<1>6. \E b \in Starts(cols) : Target(runs, a) = cols[b]
  <2>1. /\ Earlier(runs, a) \in SUBSET (0..n) /\ Later(runs, a) \in SUBSET Nat
        /\ Earlier(runs, a) \subseteq DOMAIN runs /\ Later(runs, a) \subseteq DOMAIN runs
    BY <1>2 DEF Earlier, Later
  <2>2. Earlier(runs, a) # {} => \E b \in Starts(cols) : Prev(runs, a).col = cols[b]
    BY <1>2, <1>3, <2>1, LargestIs DEF Prev
  <2>3. Later(runs, a) # {} => \E b \in Starts(cols) : Following(runs, a).col = cols[b]
    BY <1>2, <1>3, <2>1, SmallestIs DEF Following
  <2>4. Earlier(runs, a) # {} \/ Later(runs, a) # {}
    <3>1. SUFFICES ASSUME Earlier(runs, a) = {}, Later(runs, a) = {} PROVE FALSE
      OBVIOUS
    <3>2. \A b \in DOMAIN runs : b = a
      BY <1>1, <1>2, <3>1 DEF Earlier, Later
    <3>3. DOMAIN runs = {a}
      BY <1>1, <3>2
    <3>. QED
      BY <1>4, <3>3, FS_Singleton
  <2>. QED
    BY <2>2, <2>3, <2>4 DEF Target
<1>7. PICK b \in Starts(cols) : Target(runs, a) = cols[b]
  BY <1>6
<1>. QED
  BY <1>1, <1>2, <1>3, <1>5, <1>7

LEMMA AbsorbInv == IInv /\ Absorb => IInv'
<1> SUFFICES ASSUME IInv, Absorb PROVE IInv'
  OBVIOUS
<1>1. /\ phase = "smooth" /\ phase' = "smooth"
      /\ UNCHANGED <<input, groups, owner, live, near, raw, detected, speakers>>
  BY DEF Absorb
<1>2. Tokens' = Tokens /\ Len(input.words) \in Nat /\ Tokens = 1..Len(input.words)
  BY <1>1, InputFacts DEF Tokens, IInv
<1>3. PICK a \in Starts(cols), b \in Tokens :
        /\ cols[b] # Silent
        /\ Spoken(a, Last(cols, a)) <= MaxBracketed \/ Span(a, Last(cols, a)) < MinTurn
        /\ cols' = [i \in Tokens |-> IF i \in a..Last(cols, a) THEN cols[b] ELSE cols[i]]
  BY AbsorbIs DEF IInv
<1>4. /\ a \in Tokens /\ Last(cols, a) \in Tokens /\ a <= Last(cols, a) /\ cols[a] # Silent
      /\ \A i \in a..Last(cols, a) : cols[i] = cols[a]
  <2>1. cols \in [Tokens -> Columns \cup {Silent}] /\ a \in Tokens /\ cols[a] # Silent
    BY DEF Starts, IInv, TypeOK
  <2>. QED
    BY <2>1, TokensLast DEF IInv
<1>5. TypeOK'
  BY <1>1, <1>2, <1>3 DEF TypeOK, IInv
<1>6. WordInv'
  <2>1. /\ \A i \in Tokens : cols[i] = Silent <=> raw[i] = Silent
        /\ \A i \in Tokens : cols[i] # Silent => \E j \in Tokens : raw[j] = cols[i]
    BY <1>1 DEF IInv, WordInv, Wording
  <2>2. ASSUME NEW i \in Tokens
        PROVE  /\ cols'[i] = Silent <=> raw[i] = Silent
               /\ cols'[i] # Silent => \E j \in Tokens : raw[j] = cols'[i]
    <3>1. CASE i \in a..Last(cols, a)
      BY <1>3, <1>4, <2>1, <3>1
    <3>2. CASE i \notin a..Last(cols, a)
      BY <1>3, <2>1, <3>2
    <3>. QED
      BY <3>1, <3>2
  <2>. QED
    BY <1>1, <1>2, <2>2 DEF WordInv, Wording
<1>7. ASSUME NEW r \in Tokens, Long(r), NEW i \in r..Last(raw, r)
      PROVE  cols'[i] = raw[i]
  <2>1. /\ Last(raw, r) \in Tokens /\ r <= Last(raw, r)
        /\ \A j \in r..Last(raw, r) : raw[j] = raw[r]
    <3>1. raw \in [Tokens -> Columns \cup {Silent}]
      BY DEF IInv, TypeOK
    <3>. QED
      BY <3>1, TokensLast DEF IInv
  <2>2. \A j \in r..Last(raw, r) : cols[j] = raw[j]
    BY <1>1, <1>7 DEF IInv, LongInv
  <2>3. i \in Tokens /\ r \in r..Last(raw, r)
    BY <1>2, <2>1
  <2>4. i \notin a..Last(cols, a)
    <3>1. SUFFICES ASSUME i \in a..Last(cols, a) PROVE FALSE
      OBVIOUS
    <3>2. a <= r /\ Last(raw, r) <= Last(cols, a)
      <4>1. \A j \in r..Last(raw, r) : cols[j] = cols[r]
        BY <2>1, <2>2, <2>3
      <4>2. DOMAIN cols = 1..Len(input.words)
        BY <1>2 DEF IInv, TypeOK
      <4>. QED
        BY <1>2, <2>1, <3>1, <4>1, <4>2, RunCovers
    <3>3. /\ Spoken(r, Last(raw, r)) <= Spoken(a, Last(cols, a))
          /\ Span(r, Last(raw, r)) <= Span(a, Last(cols, a))
          /\ Spoken(a, Last(cols, a)) \in Nat /\ Span(a, Last(cols, a)) \in Nat
          /\ Spoken(r, Last(raw, r)) \in Nat /\ Span(r, Last(raw, r)) \in Nat
      BY <1>4, <2>1, <3>2, Longer DEF IInv
    <3>4. Spoken(r, Last(raw, r)) > MaxBracketed /\ Span(r, Last(raw, r)) >= MinTurn
      BY <1>7 DEF Long
    <3>. QED
      BY <1>3, <3>3, <3>4, ConstantsAssumption
  <2>. QED
    BY <1>3, <2>2, <2>3, <2>4
<1>8. LongInv'
  BY <1>1, <1>2, <1>7, LongStays DEF LongInv
<1>9. EveryWordHasASpeaker'
  BY <1>1 DEF EveryWordHasASpeaker
<1>. QED
  BY <1>1, <1>5, <1>6, <1>8, <1>9, VoicesStay DEF IInv, Wording

LEMMA SmoothEndsInv == IInv /\ SmoothEnds => IInv'
<1> SUFFICES ASSUME IInv, SmoothEnds PROVE IInv'
  OBVIOUS
<1>1. /\ phase = "smooth" /\ phase' = "fill"
      /\ UNCHANGED <<input, groups, owner, live, near, cols, raw, detected, speakers>>
  BY DEF SmoothEnds
<1>2. Tokens' = Tokens
  BY <1>1 DEF Tokens
<1>3. TypeOK'
  BY <1>1, <1>2 DEF TypeOK, IInv
<1>4. WordInv'
  BY <1>1, <1>2 DEF WordInv, Wording, IInv
<1>5. LongInv'
  BY <1>1, <1>2, LongStays DEF LongInv, IInv
<1>6. EveryWordHasASpeaker'
  BY <1>1 DEF EveryWordHasASpeaker
<1>. QED
  BY <1>1, <1>3, <1>4, <1>5, <1>6, VoicesStay DEF IInv, Wording

\* A token is filled with the voice of one that has a voice, if there is one.
LEMMA NeighbourIs ==
  ASSUME TypeOK, NEW i \in Tokens, cols[i] = Silent
  PROVE  /\ Attributed # {} => \E j \in Attributed : Neighbour(i) = cols[j]
         /\ Attributed = {} => Neighbour(i) = Silent
<1>. DEFINE n == Len(input.words)
<1>1. n \in Nat /\ Tokens = 1..n
  BY InputFacts
<1>2. /\ Left(i) \in SUBSET (0..n) /\ Right(i) \in SUBSET Nat
      /\ Left(i) \subseteq Attributed /\ Right(i) \subseteq Attributed
  BY <1>1 DEF Left, Right, Attributed
<1>3. Left(i) \cup Right(i) = Attributed
  <2>1. \A j \in Attributed : j \in 1..n /\ j # i
    BY <1>1 DEF Attributed
  <2>. QED
    BY <1>1, <2>1 DEF Left, Right
<1>. HIDE DEF n
<1>4. Left(i) # {} => Largest(Left(i)) \in Attributed
  BY <1>1, <1>2, LargestIs
<1>5. Right(i) # {} => Smallest(Right(i)) \in Attributed
  BY <1>2, SmallestIs
<1>6. CASE Left(i) = {} /\ Right(i) = {}
  BY <1>3, <1>6 DEF Neighbour
<1>7. CASE Left(i) = {} /\ Right(i) # {}
  BY <1>3, <1>5, <1>7 DEF Neighbour
<1>8. CASE Left(i) # {} /\ Right(i) = {}
  BY <1>3, <1>4, <1>8 DEF Neighbour
<1>9. CASE Left(i) # {} /\ Right(i) # {}
  BY <1>3, <1>4, <1>5, <1>9 DEF Neighbour
<1>. QED
  BY <1>6, <1>7, <1>8, <1>9

LEMMA FillInv == IInv /\ Fill => IInv'
<1> SUFFICES ASSUME IInv, Fill PROVE IInv'
  OBVIOUS
<1>1. /\ phase = "fill" /\ phase' = "join"
      /\ cols' = [i \in Tokens |-> IF cols[i] # Silent THEN cols[i] ELSE Neighbour(i)]
      /\ UNCHANGED <<input, groups, owner, live, near, raw, detected, speakers>>
  BY DEF Fill
<1>2. Tokens' = Tokens
  BY <1>1 DEF Tokens
<1>3. /\ \A i \in Tokens : cols[i] = Silent <=> raw[i] = Silent
      /\ \A i \in Tokens : cols[i] # Silent => \E j \in Tokens : raw[j] = cols[i]
  BY <1>1 DEF IInv, WordInv, Wording
<1>4. \A j \in Attributed : j \in Tokens /\ cols[j] # Silent /\ cols[j] \in Columns
  BY DEF Attributed, IInv, TypeOK
<1>5. ASSUME NEW i \in Tokens
      PROVE  /\ cols'[i] = Silent \/ \E j \in Attributed : cols'[i] = cols[j]
             /\ Attributed # {} => cols'[i] # Silent
             /\ cols[i] # Silent => cols'[i] = cols[i]
  <2>1. CASE cols[i] # Silent
    BY <1>1, <2>1 DEF Attributed
  <2>2. CASE cols[i] = Silent
    <3>1. cols'[i] = Neighbour(i)
      BY <1>1, <2>2
    <3>. QED
      BY <1>4, <2>2, <3>1, NeighbourIs DEF IInv
  <2>. QED
    BY <2>1, <2>2
<1>6. TypeOK'
  <2>1. cols' \in [Tokens -> Columns \cup {Silent}]
    BY <1>1, <1>4, <1>5
  <2>. QED
    BY <1>1, <1>2, <2>1 DEF TypeOK, IInv
<1>7. WordInv'
  <2>1. (\E i \in Tokens : raw[i] # Silent) => Attributed # {}
    BY <1>3 DEF Attributed
  <2>2. \A i \in Tokens : cols'[i] # Silent => \E j \in Tokens : raw[j] = cols'[i]
    BY <1>3, <1>4, <1>5
  <2>. QED
    BY <1>1, <1>2, <1>5, <2>1, <2>2 DEF WordInv, Wording
<1>8. LongInv'
  <2>1. ASSUME NEW r \in Tokens, Long(r), NEW i \in r..Last(raw, r)
        PROVE  cols'[i] = raw[i]
    <3>1. raw \in [Tokens -> Columns \cup {Silent}] /\ raw[r] # Silent
      BY <2>1 DEF IInv, TypeOK, Long, Starts
    <3>2. i \in Tokens /\ raw[i] = raw[r]
      BY <3>1, TokensLast DEF IInv
    <3>3. cols[i] = raw[i]
      BY <1>1, <2>1 DEF IInv, LongInv
    <3>. QED
      BY <1>5, <3>1, <3>2, <3>3
  <2>. QED
    BY <1>1, <1>2, <2>1, LongStays DEF LongInv
<1>9. EveryWordHasASpeaker'
  BY <1>1 DEF EveryWordHasASpeaker
<1>. QED
  BY <1>1, <1>6, <1>7, <1>8, <1>9, VoicesStay DEF IInv, Wording

\* The token that starts the written word; of one that does, itself.
LEMMA HostIs ==
  ASSUME TypeOK, NEW i \in Tokens
  PROVE  Host(i) \in Tokens /\ (input.words[i].lead => Host(i) = i)
<1>. DEFINE S == {j \in 1..i : j = 1 \/ input.words[j].lead}
<1>1. Len(input.words) \in Nat /\ Tokens = 1..Len(input.words) /\ i \in Nat /\ 1 <= i
  BY InputFacts
<1>2. 1 \in S /\ \A j \in S : j \in 0..i
  BY <1>1
<1>3. input.words[i].lead => i \in S
  BY <1>1
<1>4. \A j \in S : j \in Tokens /\ j <= i
  BY <1>1
<1>5. Host(i) = Largest(S)
  BY DEF Host
<1>. HIDE DEF S
<1>6. S \in SUBSET (0..i) /\ S # {}
  BY <1>2
<1>7. Largest(S) \in S /\ \A j \in S : j <= Largest(S)
  BY <1>1, <1>6, LargestIs
<1>8. ASSUME i \in S PROVE Largest(S) = i
  <2>1. i <= Largest(S) /\ Largest(S) <= i /\ Largest(S) \in 0..i
    BY <1>2, <1>4, <1>7, <1>8
  <2>. QED
    BY <1>1, <2>1
<1>. QED
  BY <1>3, <1>4, <1>5, <1>7, <1>8

LEMMA JoinInv == IInv /\ Join => IInv'
<1> SUFFICES ASSUME IInv, Join PROVE IInv'
  OBVIOUS
<1>1. /\ phase = "join" /\ phase' = "number"
      /\ cols' = [i \in Tokens |-> cols[Host(i)]]
      /\ UNCHANGED <<input, groups, owner, live, near, raw, detected, speakers>>
  BY DEF Join
<1>2. Tokens' = Tokens
  BY <1>1 DEF Tokens
<1>3. \A i \in Tokens : /\ Host(i) \in Tokens /\ cols'[i] = cols[Host(i)]
                        /\ input.words[i].lead => cols'[i] = cols[i]
  BY <1>1, HostIs DEF IInv
<1>4. TypeOK'
  <2>1. cols' \in [Tokens -> Columns \cup {Silent}]
    BY <1>1, <1>3 DEF IInv, TypeOK
  <2>. QED
    BY <1>1, <1>2, <2>1 DEF TypeOK, IInv
<1>5. WordInv'
  <2>1. /\ \A i \in Tokens : cols[i] # Silent => \E j \in Tokens : raw[j] = cols[i]
        /\ (\E i \in Tokens : raw[i] # Silent) => \A i \in Tokens : cols[i] # Silent
    BY <1>1 DEF IInv, WordInv, Wording
  <2>2. /\ \A i \in Tokens : cols'[i] # Silent => \E j \in Tokens : raw[j] = cols'[i]
        /\ (\E i \in Tokens : raw[i] # Silent) => \A i \in Tokens : cols'[i] # Silent
    BY <1>3, <2>1
  <2>. QED
    BY <1>1, <1>2, <2>2 DEF WordInv, Wording
<1>6. LongInv'
  <2>1. ASSUME NEW r \in Tokens, Long(r), NEW i \in r..Last(raw, r), input.words[i].lead
        PROVE  cols'[i] = raw[i]
    <3>1. raw \in [Tokens -> Columns \cup {Silent}]
      BY DEF IInv, TypeOK
    <3>2. i \in Tokens
      BY <3>1, TokensLast DEF IInv
    <3>3. cols[i] = raw[i]
      BY <1>1, <2>1 DEF IInv, LongInv
    <3>. QED
      BY <1>3, <2>1, <3>2, <3>3
  <2>. QED
    BY <1>1, <1>2, <2>1, LongStays DEF LongInv
<1>7. EveryWordHasASpeaker'
  BY <1>1 DEF EveryWordHasASpeaker
<1>. QED
  BY <1>1, <1>4, <1>5, <1>6, <1>7, VoicesStay DEF IInv, Wording

-----------------------------------------------------------------------------
(* Numbers.                                                                *)

Found == {cols[i] : i \in Attributed}
Rank(c) == Cardinality({d \in Found : FirstOf(d) <= FirstOf(c)})

\* Each voice found is first heard in a token of its own.
LEMMA FirstOfIs ==
  ASSUME TypeOK, NEW c \in Found
  PROVE  FirstOf(c) \in Nat /\ FirstOf(c) \in Tokens /\ cols[FirstOf(c)] = c
<1>. DEFINE S == {i \in Tokens : cols[i] = c}
<1>1. S \in SUBSET Nat /\ S # {}
  BY InputFacts DEF Found, Attributed
<1>2. Smallest(S) \in S
  BY <1>1, SmallestIs
<1>. QED
  BY <1>1, <1>2 DEF FirstOf

\* The ranks of the voices found are the numbers from one to their count, in
\* the order of their first tokens.
LEMMA RankIs ==
  ASSUME TypeOK
  PROVE  /\ Cardinality(Found) \in Nat
         /\ \A n \in 1..Cardinality(Found) : \E c \in Found : Rank(c) = n
         /\ \A c \in Found : Rank(c) \in 1..Cardinality(Found)
         /\ \A c, d \in Found : Rank(c) < Rank(d) => FirstOf(c) < FirstOf(d)
         /\ \A c, d \in Found : Rank(c) = Rank(d) => c = d
<1>. DEFINE Upto(c) == {d \in Found : FirstOf(d) <= FirstOf(c)}
            K == Cardinality(Found)
<1>1. IsFiniteSet(Found) /\ K \in Nat
  <2>1. Found \in SUBSET Columns
    BY DEF Found, Attributed, TypeOK
  <2>. QED
    BY <2>1, ConstantsAssumption, FS_Subset, FS_CardinalityType
<1>2. \A c \in Found : FirstOf(c) \in Nat /\ cols[FirstOf(c)] = c
  BY FirstOfIs
<1>3. \A c \in Found : c \in Upto(c) /\ Upto(c) \in SUBSET Found
  BY <1>2
<1>4. \A c \in Found : IsFiniteSet(Upto(c)) /\ Rank(c) = Cardinality(Upto(c))
  BY <1>1, <1>3, FS_Subset DEF Rank
<1>5. ASSUME NEW c \in Found PROVE Rank(c) \in 1..K
  <2>1. Cardinality(Upto(c)) \in Nat /\ Cardinality(Upto(c)) <= K
    BY <1>1, <1>3, <1>4, FS_Subset, FS_CardinalityType
  <2>2. Cardinality(Upto(c)) # 0
    BY <1>3, <1>4, FS_EmptySet
  <2>. QED
    BY <1>1, <1>4, <2>1, <2>2
<1>6. ASSUME NEW c \in Found, NEW d \in Found, FirstOf(c) < FirstOf(d)
      PROVE  Rank(c) < Rank(d)
  <2>1. Upto(c) \in SUBSET Upto(d) /\ d \notin Upto(c) /\ d \in Upto(d)
    BY <1>2, <1>6
  <2>2. Cardinality(Upto(c)) <= Cardinality(Upto(d))
    BY <1>4, <2>1, FS_Subset
  <2>3. Cardinality(Upto(c)) # Cardinality(Upto(d))
    <3>1. Upto(c) # Upto(d)
      BY <2>1, Zenon
    <3>. QED
      BY <1>4, <2>1, <3>1, FS_Subset
  <2>4. Rank(c) \in 1..K /\ Rank(d) \in 1..K
    BY <1>5
  <2>. QED
    BY <1>1, <1>4, <2>2, <2>3, <2>4
<1>. HIDE DEF Upto
<1>7. ASSUME NEW c \in Found, NEW d \in Found, Rank(c) = Rank(d) PROVE c = d
  <2>1. Rank(c) \in 1..K
    BY <1>5
  <2>2. ~(FirstOf(c) < FirstOf(d)) /\ ~(FirstOf(d) < FirstOf(c))
    BY <1>1, <1>6, <1>7, <2>1
  <2>3. FirstOf(c) = FirstOf(d)
    BY <1>2, <2>2
  <2>. QED
    BY <1>2, <2>3
<1>8. ASSUME NEW n \in 1..K PROVE \E c \in Found : Rank(c) = n
  <2>. DEFINE f == [c \in Found |-> Rank(c)]
  <2>1. f \in Injection(Found, 1..K)
    <3>1. f \in [Found -> 1..K]
      BY <1>5
    <3>2. \A c, d \in Found : f[c] = f[d] => c = d
      BY <1>7
    <3>. HIDE DEF f, K
    <3>. QED
      BY <3>1, <3>2 DEF Injection, IsInjective
  <2>2. IsFiniteSet(1..K) /\ Cardinality(1..K) = K
    BY <1>1, FS_Interval
  <2>. HIDE DEF f
  <2>3. f \in Surjection(Found, 1..K)
    BY <2>1, <2>2, FS_Injection
  <2>4. \E c \in Found : f[c] = n
    BY <2>3 DEF Surjection
  <2>. QED
    BY <2>4 DEF f
<1>9. ASSUME NEW c \in Found, NEW d \in Found, Rank(c) < Rank(d)
      PROVE  FirstOf(c) < FirstOf(d)
  <2>1. Rank(c) \in 1..K /\ Rank(d) \in 1..K
    BY <1>5
  <2>2. ~(FirstOf(d) < FirstOf(c))
    BY <1>1, <1>6, <1>9, <2>1
  <2>3. FirstOf(c) # FirstOf(d)
    <3>1. c # d
      BY <1>1, <1>9, <2>1
    <3>. QED
      BY <1>2, <3>1
  <2>. QED
    BY <1>2, <2>2, <2>3
<1>. QED
  BY <1>1, <1>5, <1>7, <1>8, <1>9

LEMMA NumberInv == IInv /\ Number => IInv'
<1> SUFFICES ASSUME IInv, Number PROVE IInv'
  OBVIOUS
<1>. DEFINE K == Cardinality(Found)
<1>1. /\ phase = "number" /\ phase' = "done"
      /\ UNCHANGED <<input, groups, owner, live, near, cols, raw, detected>>
  BY DEF Number
<1>2. speakers' = [n \in 1..K |-> CHOOSE c \in Found : Rank(c) = n]
  BY DEF Number, Found, Rank
<1>3. Tokens' = Tokens
  BY <1>1 DEF Tokens
<1>4. /\ K \in Nat
      /\ \A n \in 1..K : \E c \in Found : Rank(c) = n
      /\ \A c \in Found : Rank(c) \in 1..K
      /\ \A c, d \in Found : Rank(c) < Rank(d) => FirstOf(c) < FirstOf(d)
      /\ \A c, d \in Found : Rank(c) = Rank(d) => c = d
  BY RankIs DEF IInv
<1>. HIDE DEF K
<1>5. \A n \in 1..K : speakers'[n] \in Found /\ Rank(speakers'[n]) = n
  BY <1>2, <1>4
<1>6. Found \subseteq Columns
  BY DEF Found, Attributed, IInv, TypeOK
<1>7. speakers' \in Seq(Columns) /\ Len(speakers') = K
  BY <1>2, <1>4, <1>5, <1>6
<1>8. TypeOK'
  BY <1>1, <1>3, <1>7 DEF TypeOK, IInv
<1>9. WordInv'
  BY <1>1, <1>3 DEF WordInv, Wording, IInv
<1>10. LongInv'
  BY <1>1, <1>3, LongStays DEF LongInv, IInv
<1>11. EveryWordHasASpeaker'
  <2>. DEFINE heard == {raw[i] : i \in Tokens} \ {Silent}
              named == {speakers'[n] : n \in 1..Len(speakers')}
  <2>1. named = Found
    <3>1. ASSUME NEW c \in Found PROVE c \in named
      <4>1. Rank(c) \in 1..K /\ speakers'[Rank(c)] \in Found
            /\ Rank(speakers'[Rank(c)]) = Rank(c)
        BY <1>4, <1>5
      <4>2. speakers'[Rank(c)] = c
        BY <1>4, <4>1
      <4>. QED
        BY <1>7, <4>1, <4>2
    <3>2. named \subseteq Found
      BY <1>5, <1>7
    <3>. QED
      BY <3>1, <3>2
  <2>2. /\ \A i \in Tokens : cols[i] # Silent => \E j \in Tokens : raw[j] = cols[i]
        /\ (\E i \in Tokens : raw[i] # Silent) => \A i \in Tokens : cols[i] # Silent
    BY <1>1 DEF IInv, WordInv, Wording
  <2>3. Found \subseteq heard
    BY <2>2 DEF Found, Attributed
  <2>4. heard # {} => {cols[i] : i \in Tokens} = Found
    BY <2>2 DEF Found, Attributed
  <2>5. \A m, n \in 1..Len(speakers') : m < n => FirstOf(speakers'[m]) < FirstOf(speakers'[n])
    BY <1>4, <1>5, <1>7
  <2>6. \A c : FirstOf(c)' = FirstOf(c)
    BY <1>1, <1>3 DEF FirstOf
  <2>. HIDE DEF heard, named
  <2>. QED
    BY <1>1, <1>3, <2>1, <2>3, <2>4, <2>5, <2>6 DEF EveryWordHasASpeaker, heard, named
<1>. QED
  BY <1>1, <1>8, <1>9, <1>10, <1>11, VoicesStay DEF IInv, Wording

-----------------------------------------------------------------------------
(* The theorems.                                                           *)

LEMMA StutterInv == IInv /\ UNCHANGED vars => IInv'
<1> SUFFICES ASSUME IInv, UNCHANGED vars PROVE IInv'
  OBVIOUS
<1>1. UNCHANGED <<input, phase, groups, owner, live, near, cols, raw, detected, speakers>>
  BY DEF vars
<1>2. Tokens' = Tokens /\ Used' = Used
  BY <1>1 DEF Tokens, Used
<1>3. TypeOK'
  BY <1>1, <1>2 DEF IInv, TypeOK
<1>4. Partition' /\ MergedVoicesAreAlike'
  BY <1>1, ClearStays DEF IInv, Partition, MergedVoicesAreAlike
<1>5. PriorInv' /\ PriorHonoured'
  BY <1>1, <1>2 DEF IInv, PriorInv, PriorHonoured
<1>6. WordInv'
  BY <1>1, <1>2 DEF IInv, WordInv
<1>7. LongInv'
  BY <1>1, <1>2, LongStays DEF IInv, LongInv
<1>8. EveryWordHasASpeaker'
  <2>1. \A c : FirstOf(c)' = FirstOf(c)
    BY <1>1, <1>2 DEF FirstOf
  <2>. QED
    BY <1>1, <1>2, <2>1 DEF IInv, EveryWordHasASpeaker
<1>. QED
  BY <1>3, <1>4, <1>5, <1>6, <1>7, <1>8 DEF IInv

LEMMA StepInv == IInv /\ [Next]_vars => IInv'
  BY MergeAlikeInv, FoldAlikeInv, StartPriorInv, NoPriorInv, MergeClosestInv, PriorEndsInv,
     AttributeInv, AbsorbInv, SmoothEndsInv, FillInv, JoinInv, NumberInv, StutterInv
  DEF Next

LEMMA Invariant == Spec => []IInv
  BY InitInv, StepInv, PTL DEF Spec

-----------------------------------------------------------------------------
(* Turns of a single word.                                                 *)

\* The token that starts the written word, and what stands between.
LEMMA HostFacts ==
  ASSUME TypeOK, NEW i \in Tokens
  PROVE  /\ Host(i) \in 1..i /\ (Host(i) = 1 \/ input.words[Host(i)].lead)
         /\ \A j \in (Host(i) + 1)..i : ~input.words[j].lead
<1>. DEFINE S == {j \in 1..i : j = 1 \/ input.words[j].lead}
<1>1. i \in Nat /\ 1 <= i
  BY InputFacts
<1>2. S \in SUBSET (0..i) /\ S # {}
  <2>1. 1 \in S /\ \A j \in S : j \in 0..i
    BY <1>1
  <2>. HIDE DEF S
  <2>. QED
    BY <2>1
<1>3. Largest(S) \in S /\ \A j \in S : j <= Largest(S)
  <2>. HIDE DEF S
  <2>. QED
    BY <1>1, <1>2, LargestIs
<1>4. Host(i) = Largest(S)
  BY DEF Host
<1>5. Host(i) \in S /\ \A j \in S : j <= Host(i)
  BY <1>3, <1>4
<1>. HIDE DEF Host
<1>6. ASSUME NEW j \in (Host(i) + 1)..i PROVE ~input.words[j].lead
  <2>1. j \in 1..i /\ ~(j <= Host(i))
    BY <1>1, <1>5
  <2>. QED
    BY <1>5, <2>1
<1>. QED
  BY <1>5, <1>6

LEMMA HostUnique ==
  ASSUME TypeOK, NEW i \in Tokens, NEW h \in 1..i, h = 1 \/ input.words[h].lead,
         \A j \in (h + 1)..i : ~input.words[j].lead
  PROVE  Host(i) = h
<1>1. i \in Nat /\ 1 <= i
  BY InputFacts
<1>2. /\ Host(i) \in 1..i /\ (Host(i) = 1 \/ input.words[Host(i)].lead)
      /\ \A j \in (Host(i) + 1)..i : ~input.words[j].lead
  BY HostFacts
<1>3. CASE Host(i) < h
  BY <1>1, <1>2, <1>3
<1>4. CASE Host(i) > h
  BY <1>1, <1>2, <1>4
<1>. QED
  BY <1>1, <1>2, <1>3, <1>4

\* A stretch that counts one spoken word starts at most one.
LEMMA SpokenOne ==
  ASSUME TypeOK, NEW a \in Tokens, NEW b \in Tokens, a <= b
  PROVE  Spoken(a, b) = 1 <=>
           \A i, j \in a..b : input.words[i].lead /\ input.words[j].lead => i = j
<1>. DEFINE S == {i \in a..b : input.words[i].lead}
<1>1. IsFiniteSet(S) /\ Cardinality(S) \in Nat
  <2>1. Tokens \subseteq Nat
    BY InputFacts
  <2>2. IsFiniteSet(a..b) /\ S \in SUBSET (a..b)
    BY <2>1, FS_Interval
  <2>. QED
    BY <2>2, FS_Subset, FS_CardinalityType
<1>2. Spoken(a, b) = IF Cardinality(S) = 0 THEN 1 ELSE Cardinality(S)
  BY DEF Spoken
<1>3. (\A i, j \in a..b : input.words[i].lead /\ input.words[j].lead => i = j)
        <=> \A i, j \in S : i = j
  OBVIOUS
<1>. HIDE DEF S
<1>4. CASE S = {}
  <2>1. Cardinality(S) = 0
    BY <1>4, FS_EmptySet
  <2>. QED
    BY <1>2, <1>3, <1>4, <2>1
<1>5. CASE \E x \in S : S = {x}
  <2>1. Cardinality(S) = 1
    BY <1>5, FS_Singleton
  <2>. QED
    BY <1>2, <1>3, <1>5, <2>1
<1>6. CASE \E x, y \in S : x # y
  <2>1. PICK x \in S, y \in S : x # y
    BY <1>6
  <2>2. Cardinality({x}) = 1 /\ Cardinality({x, y}) = 2
    <3>1. IsFiniteSet({x}) /\ Cardinality({x}) = 1
      BY FS_Singleton
    <3>2. Cardinality({x} \cup {y}) = 2
      BY <2>1, <3>1, FS_AddElement
    <3>3. {x} \cup {y} = {x, y}
      OBVIOUS
    <3>. QED
      BY <3>1, <3>2, <3>3
  <2>3. Cardinality({x, y}) <= Cardinality(S)
    BY <1>1, FS_Subset
  <2>. QED
    BY <1>1, <1>2, <1>3, <2>1, <2>2, <2>3
<1>. QED
  BY <1>4, <1>5, <1>6

\* Every token that has a column is in a run.
LEMMA RunOf ==
  ASSUME NEW n \in Nat, NEW w, DOMAIN w = 1..n, NEW k \in 1..n, w[k] # Silent
  PROVE  \E s \in Starts(w) : s <= k /\ k <= Last(w, s) /\ w[s] = w[k]
<1>. DEFINE S == {s \in 1..k : \A x \in s..k : w[x] = w[k]}
<1>1. S \in SUBSET Nat /\ S # {}
  <2>1. k \in S /\ \A s \in S : s \in Nat
    OBVIOUS
  <2>. HIDE DEF S
  <2>. QED
    BY <2>1
<1>2. PICK s \in S : \A x \in S : s <= x
  BY <1>1, HasSmallest
<1>3. s \in 1..k /\ \A x \in s..k : w[x] = w[k]
  BY <1>2
<1>4. s = 1 \/ w[s - 1] # w[s]
  <2>1. SUFFICES ASSUME s # 1, w[s - 1] = w[s] PROVE FALSE
    OBVIOUS
  <2>2. s - 1 \in 1..k /\ \A x \in (s - 1)..k : w[x] = w[k]
    BY <1>3, <2>1
  <2>3. s - 1 \in S
    BY <2>2
  <2>. QED
    BY <1>2, <1>3, <2>3
<1>5. s \in Starts(w)
  BY <1>3, <1>4 DEF Starts
<1>6. EndsRun(w, s, Last(w, s))
  BY <1>3, LastIs
<1>7. k <= Last(w, s)
  <2>1. SUFFICES ASSUME Last(w, s) < k PROVE FALSE
    BY <1>3, <1>6 DEF EndsRun
  <2>2. Last(w, s) \in s..k /\ Last(w, s) + 1 \in s..k /\ Last(w, s) + 1 \in 1..n
    BY <1>3, <1>6, <2>1 DEF EndsRun
  <2>. QED
    BY <1>3, <1>6, <2>2 DEF EndsRun
<1>. QED
  BY <1>3, <1>5, <1>7

\* The tokens of w next to one that have a column, if there are any.
Quiet(w, x, y) == \A k \in x..y : w[k] = Silent

LEMMA NextHeard ==
  ASSUME NEW n \in Nat, NEW w, DOMAIN w = 1..n, NEW x \in 1..n
  PROVE  \/ Quiet(w, x + 1, n)
         \/ \E f \in 1..n : x < f /\ w[f] # Silent /\ Quiet(w, x + 1, f - 1)
<1>. DEFINE S == {f \in 1..n : x < f /\ w[f] # Silent}
<1>1. CASE S = {}
  <2>1. \A k \in (x + 1)..n : k \in 1..n /\ k \notin S
    BY <1>1
  <2>. QED
    BY <2>1 DEF Quiet
<1>2. CASE S # {}
  <2>1. S \in SUBSET Nat
    OBVIOUS
  <2>2. PICK f \in S : \A g \in S : f <= g
    BY <1>2, <2>1, HasSmallest
  <2>3. f \in 1..n /\ x < f /\ w[f] # Silent
    BY <2>2
  <2>4. ASSUME NEW k \in (x + 1)..(f - 1) PROVE w[k] = Silent
    <3>1. k \in 1..n /\ x < k /\ ~(f <= k)
      BY <2>3
    <3>. QED
      BY <2>2, <3>1
  <2>. QED
    BY <2>3, <2>4 DEF Quiet
<1>. QED
  BY <1>1, <1>2

LEMMA PrevHeard ==
  ASSUME NEW n \in Nat, NEW w, DOMAIN w = 1..n, NEW x \in 1..n
  PROVE  \/ Quiet(w, 1, x - 1)
         \/ \E p \in 1..n : p < x /\ w[p] # Silent /\ Quiet(w, p + 1, x - 1)
<1>. DEFINE S == {p \in 1..n : p < x /\ w[p] # Silent}
<1>1. CASE S = {}
  <2>1. \A k \in 1..(x - 1) : k \in 1..n /\ k \notin S
    BY <1>1
  <2>. QED
    BY <2>1 DEF Quiet
<1>2. CASE S # {}
  <2>1. S \in SUBSET (0..n)
    OBVIOUS
  <2>2. Largest(S) \in S /\ \A g \in S : g <= Largest(S)
    <3>. HIDE DEF S
    <3>. QED
      BY <1>2, <2>1, LargestIs
  <2>3. PICK p \in S : \A g \in S : g <= p
    BY <2>2
  <2>4. p \in 1..n /\ p < x /\ w[p] # Silent
    BY <2>3
  <2>5. ASSUME NEW k \in (p + 1)..(x - 1) PROVE w[k] = Silent
    <3>1. k \in 1..n /\ k < x /\ ~(k <= p)
      BY <2>4
    <3>. QED
      BY <2>3, <3>1
  <2>. QED
    BY <2>4, <2>5 DEF Quiet
<1>. QED
  BY <1>1, <1>2

\* When no island is left, a run of one word has the column of a neighbour from
\* which silence parts it, or is the only one.
LEMMA OneWordRuns ==
  ASSUME TypeOK, NEW w \in [Tokens -> Columns \cup {Silent}],
         Islands(SpeakerRuns(w)) = {}, NEW s \in Starts(w), Spoken(s, Last(w, s)) = 1
  PROVE  \/ \E p \in Tokens : p < s /\ w[p] = w[s] /\ Quiet(w, p + 1, s - 1)
         \/ \E f \in Tokens : /\ Last(w, s) < f /\ w[f] = w[s]
                              /\ Quiet(w, Last(w, s) + 1, f - 1)
         \/ \A k \in Tokens : w[k] # Silent => w[k] = w[s]
<1>. DEFINE runs == SpeakerRuns(w)
            n == Len(input.words)
            t == Last(w, s)
<1>1. /\ n \in Nat /\ Tokens = 1..n /\ DOMAIN w = 1..n /\ DOMAIN runs = Starts(w)
      /\ Starts(w) \subseteq 1..n
      /\ \A b \in Starts(w) : w[b] # Silent /\ (b = 1 \/ w[b - 1] # w[b])
      /\ \A b \in Starts(w) : runs[b].col = w[b] /\ runs[b].words = Spoken(b, Last(w, b))
  BY InputFacts DEF SpeakerRuns, Starts, Run
<1>2. Islands(runs) = {}
  OBVIOUS
<1>3. /\ t \in 1..n /\ s <= t /\ \A i \in s..t : w[i] = w[s]
      /\ t + 1 \in 1..n => w[t + 1] # w[s]
  <2>1. EndsRun(w, s, Last(w, s))
    BY <1>1, LastIs
  <2>. QED
    BY <1>1, <2>1 DEF EndsRun
<1>4. Absorbable(runs, s)
  BY <1>1 DEF Absorbable
<1>5. \/ Quiet(w, 1, s - 1)
      \/ \E p \in 1..n : p < s /\ w[p] # Silent /\ Quiet(w, p + 1, s - 1)
  BY <1>1, PrevHeard
<1>6. \/ Quiet(w, t + 1, n)
      \/ \E f \in 1..n : t < f /\ w[f] # Silent /\ Quiet(w, t + 1, f - 1)
  BY <1>1, <1>3, NextHeard
<1>. HIDE DEF runs, n, t
<1>7. CASE Cardinality(DOMAIN runs) < 2
  <2>1. ASSUME NEW b \in Starts(w) PROVE b = s
    <3>1. SUFFICES ASSUME b # s PROVE FALSE
      OBVIOUS
    <3>2. IsFiniteSet(Starts(w)) /\ {s, b} \subseteq Starts(w)
      <4>1. IsFiniteSet(1..n)
        BY <1>1, FS_Interval
      <4>. QED
        BY <1>1, <4>1, FS_Subset
    <3>3. Cardinality({s, b}) <= Cardinality(Starts(w)) /\ Cardinality(Starts(w)) \in Nat
      BY <3>2, FS_Subset, FS_CardinalityType
    <3>4. Cardinality({s, b}) = 2
      <4>1. IsFiniteSet({s}) /\ Cardinality({s}) = 1
        BY FS_Singleton
      <4>2. Cardinality({s} \cup {b}) = 2
        BY <3>1, <4>1, FS_AddElement
      <4>3. {s} \cup {b} = {s, b}
        OBVIOUS
      <4>. QED
        BY <4>2, <4>3
    <3>. QED
      BY <1>1, <1>7, <3>3, <3>4
  <2>2. ASSUME NEW k \in Tokens, w[k] # Silent PROVE w[k] = w[s]
    BY <1>1, <2>1, <2>2, RunOf
  <2>. QED
    BY <2>2
<1>8. CASE Cardinality(DOMAIN runs) >= 2
  <2>1. Target(runs, s) = w[s]
    BY <1>1, <1>2, <1>4, <1>8 DEF Islands
  <2>2. ASSUME NEW p \in 1..n, p < s, w[p] # Silent, Quiet(w, p + 1, s - 1)
        PROVE  Earlier(runs, s) # {} /\ Prev(runs, s).col = w[p]
    <3>1. PICK b \in Starts(w) : b <= p /\ p <= Last(w, b) /\ w[b] = w[p]
      BY <1>1, <2>2, RunOf
    <3>2. \A i \in b..p : w[i] = w[p]
      <4>1. EndsRun(w, b, Last(w, b))
        BY <1>1, LastIs
      <4>. QED
        BY <1>1, <3>1, <4>1 DEF EndsRun
    <3>3. b \in Earlier(runs, s)
      BY <1>1, <2>2, <3>1 DEF Earlier
    <3>4. ASSUME NEW d \in Earlier(runs, s) PROVE d <= b
      <4>1. SUFFICES ASSUME b < d PROVE FALSE
        BY <1>1, <3>4 DEF Earlier
      <4>2. d \in Starts(w) /\ d < s
        BY <1>1, <3>4 DEF Earlier
      <4>3. d <= p
        BY <1>1, <2>2, <4>2 DEF Quiet
      <4>4. d - 1 \in b..p /\ d \in b..p /\ d # 1
        BY <1>1, <4>1, <4>2, <4>3
      <4>. QED
        BY <1>1, <3>2, <4>2, <4>4
    <3>5. Largest(Earlier(runs, s)) = b
      <4>1. Earlier(runs, s) \in SUBSET (0..n)
        BY <1>1 DEF Earlier
      <4>2. /\ Largest(Earlier(runs, s)) \in Earlier(runs, s)
            /\ \A j \in Earlier(runs, s) : j <= Largest(Earlier(runs, s))
        BY <1>1, <3>3, <4>1, LargestIs
      <4>. QED
        BY <1>1, <3>3, <3>4, <4>1, <4>2
    <3>. QED
      BY <1>1, <3>1, <3>3, <3>5 DEF Prev
  <2>3. ASSUME NEW f \in 1..n, t < f, w[f] # Silent, Quiet(w, t + 1, f - 1)
        PROVE  Later(runs, s) # {} /\ Following(runs, s).col = w[f]
    <3>1. f \in Starts(w)
      <4>1. w[f - 1] # w[f]
        <5>1. CASE f = t + 1
          BY <1>1, <1>3, <2>3, <5>1
        <5>2. CASE f # t + 1
          BY <1>1, <1>3, <2>3, <5>2 DEF Quiet
        <5>. QED
          BY <5>1, <5>2
      <4>. QED
        BY <1>1, <2>3, <4>1 DEF Starts
    <3>2. f \in Later(runs, s)
      BY <1>1, <1>3, <2>3, <3>1 DEF Later
    <3>3. ASSUME NEW d \in Later(runs, s) PROVE f <= d
      <4>1. SUFFICES ASSUME d < f PROVE FALSE
        BY <1>1, <3>3 DEF Later
      <4>2. d \in Starts(w) /\ s < d
        BY <1>1, <3>3 DEF Later
      <4>3. d <= t
        BY <1>1, <1>3, <2>3, <4>1, <4>2 DEF Quiet
      <4>4. d - 1 \in s..t /\ d \in s..t /\ d # 1
        BY <1>1, <1>3, <4>2, <4>3
      <4>. QED
        BY <1>1, <1>3, <4>2, <4>4
    <3>4. Smallest(Later(runs, s)) = f
      <4>1. Later(runs, s) \in SUBSET Nat
        BY <1>1 DEF Later
      <4>2. /\ Smallest(Later(runs, s)) \in Later(runs, s)
            /\ \A j \in Later(runs, s) : Smallest(Later(runs, s)) <= j
        BY <3>2, <4>1, SmallestIs
      <4>. QED
        BY <1>1, <3>2, <3>3, <4>1, <4>2
    <3>. QED
      BY <1>1, <3>1, <3>2, <3>4 DEF Following
  <2>4. Quiet(w, 1, s - 1) => Earlier(runs, s) = {}
    BY <1>1 DEF Earlier, Quiet
  <2>5. Quiet(w, t + 1, n) => Later(runs, s) = {}
    <3>1. SUFFICES ASSUME Quiet(w, t + 1, n), NEW d \in Later(runs, s) PROVE FALSE
      OBVIOUS
    <3>2. d \in Starts(w) /\ s < d
      BY <1>1, <3>1 DEF Later
    <3>3. d <= t
      BY <1>1, <1>3, <3>1, <3>2 DEF Quiet
    <3>4. d - 1 \in s..t /\ d \in s..t /\ d # 1
      BY <1>1, <1>3, <3>2, <3>3
    <3>. QED
      BY <1>1, <1>3, <3>2, <3>4
  <2>6. Earlier(runs, s) # {} \/ Later(runs, s) # {}
    <3>1. SUFFICES ASSUME Earlier(runs, s) = {}, Later(runs, s) = {} PROVE FALSE
      OBVIOUS
    <3>2. \A b \in DOMAIN runs : b = s
      BY <1>1, <3>1 DEF Earlier, Later
    <3>3. DOMAIN runs = {s}
      BY <1>1, <3>2
    <3>4. Cardinality({s}) = 1
      BY FS_Singleton
    <3>. QED
      BY <1>8, <3>3, <3>4
  <2>7. CASE Target(runs, s) = Prev(runs, s).col /\ Earlier(runs, s) # {}
    <3>1. PICK p \in 1..n : p < s /\ w[p] # Silent /\ Quiet(w, p + 1, s - 1)
      BY <1>5, <2>4, <2>7
    <3>2. w[p] = w[s]
      BY <2>1, <2>2, <2>7, <3>1
    <3>. QED
      BY <1>1, <3>1, <3>2
  <2>8. CASE Target(runs, s) = Following(runs, s).col /\ Later(runs, s) # {}
    <3>1. PICK f \in 1..n : t < f /\ w[f] # Silent /\ Quiet(w, t + 1, f - 1)
      BY <1>6, <2>5, <2>8
    <3>2. w[f] = w[s]
      BY <2>1, <2>3, <2>8, <3>1
    <3>. QED
      BY <1>1, <3>1, <3>2 DEF t
  <2>. QED
    BY <2>6, <2>7, <2>8 DEF Target
<1>9. Cardinality(DOMAIN runs) \in Nat
  <2>1. IsFiniteSet(1..n)
    BY <1>1, FS_Interval
  <2>2. IsFiniteSet(DOMAIN runs)
    BY <1>1, <2>1, FS_Subset
  <2>. QED
    BY <2>2, FS_CardinalityType
<1>. QED
  BY <1>7, <1>8, <1>9

\* A run of one word has a neighbour of its column across silence, or is alone.
Settled(w) == \A s \in Starts(w) : Spoken(s, Last(w, s)) = 1 =>
    \/ \E p \in Tokens : p < s /\ w[p] = w[s] /\ Quiet(w, p + 1, s - 1)
    \/ \E f \in Tokens : Last(w, s) < f /\ w[f] = w[s] /\ Quiet(w, Last(w, s) + 1, f - 1)
    \/ \A k \in Tokens : w[k] # Silent => w[k] = w[s]

\* What the smoothing left, as long as written words may be cut in two.
Smoothed == [i \in Tokens |-> IF raw[i] = Silent THEN Silent ELSE cols[i]]

\* What the filling gave the others.
FilledIn(v) ==
    /\ \A i, l, r \in Tokens :
         l < i /\ i < r /\ raw[l] # Silent /\ raw[r] # Silent /\ Quiet(raw, l + 1, r - 1) =>
            v[i] = IF Gap(i, r) < Gap(l, i) THEN v[r] ELSE v[l]
    /\ \A i, r \in Tokens :
         i < r /\ raw[r] # Silent /\ Quiet(raw, 1, r - 1) => v[i] = v[r]
    /\ \A i, l \in Tokens :
         l < i /\ raw[l] # Silent /\ Quiet(raw, l + 1, Len(input.words)) => v[i] = v[l]
    /\ (\E j \in Tokens : raw[j] # Silent) =>
         \A i \in Tokens : \E j \in Tokens : raw[j] # Silent /\ v[j] = v[i]

\* A turn of a single word comes from a token that was not heard.
Excused(a, e) ==
    \E i \in (IF a = 1 THEN 1 ELSE Host(a - 1))..e :
        raw[i] = Silent /\ (HeardInPart(i) \/ Overlapping)

LoneExcused(w) == \A a \in Starts(w) : Spoken(a, Last(w, a)) = 1 =>
    (\A i \in Tokens : w[i] = w[a]) \/ Excused(a, Last(w, a))

LoneInv ==
    /\ phase = "fill" => \A w : w = cols => Settled(w)
    /\ phase = "join" => /\ \A v : v = cols => FilledIn(v)
                         /\ \A w : w = Smoothed => Settled(w)
    /\ phase \in {"number", "done"} => \A w : w = cols => LoneExcused(w)

\* Of the tokens between two that were heard, those the later one is nearer to come
\* last, when tokens do not overlap.
LEMMA FilledInOrder ==
  ASSUME TypeOK, FilledIn(cols), ~Overlapping,
         NEW i \in Tokens, NEW k \in Tokens, NEW l \in Tokens, NEW r \in Tokens,
         l < i, i <= k, k < r, raw[l] # Silent, raw[r] # Silent, Quiet(raw, l + 1, r - 1),
         cols[i] # cols[l]
  PROVE  cols[k] = cols[r] /\ cols[i] = cols[r]
<1>1. /\ Tokens \subseteq Nat
      /\ \A x \in Tokens : input.words[x].start \in Nat /\ input.words[x].end \in Nat
  BY InputFacts DEF Word
<1>2. \A x, y \in Tokens : x < y => input.words[x].end <= input.words[y].start
  <2>1. \A x, y \in Tokens : x < y => ~ (input.words[y].start < input.words[x].end)
    BY DEF Overlapping
  <2>2. ASSUME NEW x \in Tokens, NEW y \in Tokens, x < y
        PROVE  input.words[x].end <= input.words[y].start
    <3>1. ~ (input.words[y].start < input.words[x].end)
      BY <2>1, <2>2, Zenon
    <3>2. input.words[y].start \in Nat /\ input.words[x].end \in Nat
      BY <1>1
    <3>. QED
      BY <3>1, <3>2
  <2>. QED
    BY <2>2
<1>3. cols[i] = IF Gap(i, r) < Gap(l, i) THEN cols[r] ELSE cols[l]
  BY <1>1 DEF FilledIn
<1>4. Gap(i, r) < Gap(l, i)
  BY <1>3
<1>5. cols[k] = IF Gap(k, r) < Gap(l, k) THEN cols[r] ELSE cols[l]
  BY <1>1 DEF FilledIn
<1>6. /\ input.words[i].end <= input.words[k].end
      /\ input.words[i].start <= input.words[k].start
  BY <1>1, OrderAssumption DEF TypeOK, Tokens
<1>7. \A x, y \in Tokens : x < y => Gap(x, y) = input.words[y].start - input.words[x].end
  <2>1. SUFFICES ASSUME NEW x \in Tokens, NEW y \in Tokens, x < y
                 PROVE  Gap(x, y) = input.words[y].start - input.words[x].end
    OBVIOUS
  <2>2. /\ input.words[x].end \in Nat /\ input.words[y].start \in Nat
        /\ input.words[x].end <= input.words[y].start
    BY <1>1, <1>2, <2>1
  <2>. QED
    BY <2>2 DEF Gap, Abs
<1>8. Gap(k, r) < Gap(l, k)
  <2>1. /\ Gap(i, r) = input.words[r].start - input.words[i].end
        /\ Gap(k, r) = input.words[r].start - input.words[k].end
        /\ Gap(l, i) = input.words[i].start - input.words[l].end
        /\ Gap(l, k) = input.words[k].start - input.words[l].end
    <3>1. i < r /\ l < k
      BY <1>1
    <3>. QED
      BY <1>7, <3>1, Zenon
  <2>2. /\ input.words[i].end \in Nat /\ input.words[k].end \in Nat
        /\ input.words[i].start \in Nat /\ input.words[k].start \in Nat
        /\ input.words[l].end \in Nat /\ input.words[r].start \in Nat
    BY <1>1
  <2>. QED
    BY <1>4, <1>6, <2>1, <2>2
<1>. QED
  BY <1>3, <1>4, <1>5, <1>8

\* Either no token was heard or all have a column.
Voiced ==
    /\ (\E i \in Tokens : cols[i] # Silent) => \E j \in Tokens : raw[j] # Silent
    /\ (\E i \in Tokens : raw[i] # Silent) => \A i \in Tokens : cols[i] # Silent

JoinedTo(u) == \A i \in Tokens : u[i] = cols[Host(i)]

\* After the filling and the joining a turn of one word comes from a smoothed run of
\* one word, which has its neighbour's column: silence stood between the two, and
\* the word boundaries cut it.
LEMMA LoneTurnsAreExcused ==
  ASSUME TypeOK, Settled(Smoothed), FilledIn(cols),
         Voiced, NEW u \in [Tokens -> Columns \cup {Silent}], JoinedTo(u),
         NEW a \in Starts(u), Spoken(a, Last(u, a)) = 1
  PROVE  (\A i \in Tokens : u[i] = u[a]) \/ Excused(a, Last(u, a))
<1>. DEFINE n == Len(input.words)
            e == Last(u, a)
            c == u[a]
            w == Smoothed
            lead(i) == input.words[i].lead
<1>1. /\ n \in Nat /\ Tokens = 1..n /\ DOMAIN u = 1..n
      /\ a \in 1..n /\ c # Silent /\ (a = 1 \/ u[a - 1] # c)
  BY InputFacts DEF Starts
<1>2. /\ e \in 1..n /\ a <= e /\ \A i \in a..e : u[i] = c
      /\ e + 1 \in 1..n => u[e + 1] # c
  <2>1. EndsRun(u, a, e)
    BY <1>1, LastIs
  <2>. QED
    BY <1>1, <2>1 DEF EndsRun
<1>3. /\ w \in [Tokens -> Columns \cup {Silent}] /\ DOMAIN w = 1..n
      /\ \A i \in 1..n : /\ w[i] = Silent <=> raw[i] = Silent
                         /\ w[i] # Silent => w[i] = cols[i]
  <2>1. PICK j \in Tokens : raw[j] # Silent
    <3>1. Host(a) \in Tokens /\ cols[Host(a)] # Silent
      BY <1>1, HostIs DEF JoinedTo
    <3>. QED
      BY <3>1 DEF Voiced
  <2>2. \A i \in Tokens : cols[i] # Silent
    BY <2>1 DEF Voiced
  <2>. QED
    BY <1>1, <2>2 DEF Smoothed, TypeOK
<1>4. \A i \in 1..n : /\ Host(i) \in 1..i /\ (Host(i) = 1 \/ lead(Host(i)))
                      /\ \A j \in (Host(i) + 1)..i : ~lead(j)
                      /\ u[i] = cols[Host(i)]
  BY <1>1, HostFacts DEF JoinedTo
<1>5. \A i \in 1..n : \A g \in 1..i :
        (g = 1 \/ lead(g)) /\ (\A j \in (g + 1)..i : ~lead(j)) => Host(i) = g
  BY <1>1, HostUnique
<1>6. /\ Settled(w)
      /\ \A i \in 1..n : i <= e /\ (a # 1 => Host(a - 1) <= i) /\ 1 <= i /\ raw[i] = Silent
           /\ (Overlapping \/ \E j \in 1..n : Host(j) = Host(i) /\ raw[j] # Silent)
         => Excused(a, e)
  <2>1. ASSUME NEW i \in 1..n, i <= e, a # 1 => Host(a - 1) <= i, raw[i] = Silent,
               Overlapping \/ \E j \in 1..n : Host(j) = Host(i) /\ raw[j] # Silent
        PROVE  Excused(a, e)
    <3>1. HeardInPart(i) \/ Overlapping
      BY <1>1, <2>1 DEF HeardInPart
    <3>2. i \in (IF a = 1 THEN 1 ELSE Host(a - 1))..e
      BY <1>1, <1>2, <1>4, <2>1
    <3>. QED
      BY <2>1, <3>1, <3>2 DEF Excused
  <2>. QED
    BY <2>1
<1>7. \A i, j \in a..e : lead(i) /\ lead(j) => i = j
  BY <1>1, <1>2, SpokenOne
<1>8. /\ \A i, l, r \in 1..n :
           l < i /\ i < r /\ raw[l] # Silent /\ raw[r] # Silent /\ Quiet(raw, l + 1, r - 1) =>
              cols[i] = cols[r] \/ cols[i] = cols[l]
      /\ \A i, r \in 1..n : i < r /\ raw[r] # Silent /\ Quiet(raw, 1, r - 1) => cols[i] = cols[r]
      /\ \A i, l \in 1..n : l < i /\ raw[l] # Silent /\ Quiet(raw, l + 1, n) => cols[i] = cols[l]
  BY <1>1 DEF FilledIn
<1>9. \A x \in 1..(n + 1), y \in 0..n : Quiet(w, x, y) => Quiet(raw, x, y)
  BY <1>1, <1>3 DEF Quiet
<1>10. (\A k \in Tokens : w[k] # Silent => w[k] = c) => \A i \in Tokens : u[i] = c
  <2>1. ASSUME \A k \in Tokens : w[k] # Silent => w[k] = c, NEW i \in Tokens PROVE u[i] = c
    <3>1. Host(i) \in Tokens /\ Host(a) \in Tokens /\ u[a] = cols[Host(a)]
      BY <1>1, HostIs DEF JoinedTo
    <3>2. \E j \in Tokens : raw[j] # Silent
      BY <1>1, <3>1 DEF Voiced, JoinedTo
    <3>3. PICK j \in Tokens : raw[j] # Silent /\ cols[j] = cols[Host(i)]
      BY <3>1, <3>2 DEF FilledIn
    <3>. QED
      BY <1>1, <1>3, <1>4, <2>1, <3>3
  <2>. QED
    BY <2>1
<1>11. \A x \in 1..n : x + 1 \in 1..n /\ ~lead(x + 1) => Host(x + 1) = Host(x)
  <2>1. ASSUME NEW x \in 1..n, x + 1 \in 1..n, ~lead(x + 1) PROVE Host(x + 1) = Host(x)
    <3>1. Host(x) \in 1..(x + 1) /\ \A j \in (Host(x) + 1)..(x + 1) : ~lead(j)
      BY <1>1, <1>4, <2>1
    <3>. QED
      BY <1>4, <1>5, <2>1, <3>1
  <2>. QED
    BY <2>1
<1>12. \A x \in 1..n : x = 1 \/ lead(x) => Host(x) = x
  BY <1>1, <1>5
<1>. HIDE DEF n, e, c, w, lead
<1>13. (a = 1 \/ lead(a)) /\ Host(a) = a /\ cols[a] = c
  <2>1. CASE a = 1
    BY <1>1, <1>4, <1>12, <2>1 DEF c
  <2>2. CASE a # 1
    <3>1. lead(a)
      <4>1. SUFFICES ASSUME ~lead(a) PROVE FALSE
        OBVIOUS
      <4>2. a - 1 \in 1..n /\ (a - 1) + 1 = a
        BY <1>1, <2>2
      <4>3. Host(a) = Host(a - 1)
        BY <1>1, <1>11, <4>1, <4>2
      <4>. QED
        BY <1>1, <1>4, <2>2, <4>2, <4>3 DEF c
    <3>. QED
      BY <1>1, <1>4, <1>12, <3>1 DEF c
  <2>. QED
    BY <2>1, <2>2
<1>14. e + 1 \in 1..n => cols[e + 1] # c
  <2>1. SUFFICES ASSUME e + 1 \in 1..n PROVE cols[e + 1] # c
    OBVIOUS
  <2>2. u[e + 1] # c /\ u[e] = c
    BY <1>1, <1>2, <2>1
  <2>3. lead(e + 1)
    <3>1. SUFFICES ASSUME ~lead(e + 1) PROVE FALSE
      OBVIOUS
    <3>2. Host(e + 1) = Host(e)
      BY <1>2, <1>11, <2>1, <3>1
    <3>. QED
      BY <1>2, <1>4, <2>1, <2>2, <3>2
  <2>. QED
    BY <1>4, <1>12, <2>1, <2>2, <2>3
<1>15. a # 1 => /\ a - 1 \in 1..n /\ Host(a - 1) \in 1..(a - 1) /\ cols[Host(a - 1)] # c
                /\ \A j \in (Host(a - 1) + 1)..(a - 1) : ~lead(j)
                /\ Host(a - 1) = 1 \/ lead(Host(a - 1))
  <2>1. SUFFICES ASSUME a # 1 PROVE a - 1 \in 1..n /\ u[a - 1] # c
    BY <1>4
  <2>. QED
    BY <1>1, <2>1
<1>16. ASSUME NEW s \in Starts(w), NEW t \in 1..n, t = Last(w, s), w[s] = c, t <= e,
              a # 1 => s <= a /\ Host(a - 1) < s,
              a = 1 => Quiet(w, 1, s - 1),
              a - 1 <= t \/ Quiet(w, t + 1, a)
       PROVE  (\A i \in Tokens : u[i] = u[a]) \/ Excused(a, e)
  <2>1. /\ s \in 1..n /\ s <= t /\ (\A i \in s..t : w[i] = c)
        /\ t + 1 \in 1..n => w[t + 1] # c
        /\ s = 1 \/ w[s - 1] # c
    <3>1. s \in 1..n /\ (s = 1 \/ w[s - 1] # w[s])
      BY <1>3, <1>16 DEF Starts
    <3>2. EndsRun(w, s, Last(w, s))
      BY <1>1, <1>3, <3>1, LastIs
    <3>. QED
      BY <1>3, <1>16, <3>1, <3>2 DEF EndsRun
  <2>2. Spoken(s, Last(w, s)) = 1
    <3>1. \A j \in s..t : lead(j) => j \in a..e
      <4>1. CASE a = 1
        BY <1>1, <1>2, <1>16, <2>1, <4>1
      <4>2. CASE a # 1
        <5>1. ASSUME NEW j \in s..t, lead(j), j < a PROVE FALSE
          BY <1>1, <1>15, <1>16, <2>1, <4>2, <5>1
        <5>. QED
          BY <1>1, <1>2, <1>16, <2>1, <5>1
      <4>. QED
        BY <4>1, <4>2
    <3>2. \A i, j \in s..t : lead(i) /\ lead(j) => i = j
      BY <1>7, <3>1
    <3>. QED
      BY <1>1, <1>16, <2>1, <3>2, SpokenOne DEF lead
  <2>3. \/ \E p \in Tokens : p < s /\ w[p] = w[s] /\ Quiet(w, p + 1, s - 1)
        \/ \E f \in Tokens : t < f /\ w[f] = w[s] /\ Quiet(w, t + 1, f - 1)
        \/ \A k \in Tokens : w[k] # Silent => w[k] = w[s]
    BY <1>6, <1>16, <2>2 DEF Settled
  <2>4. ASSUME NEW p \in Tokens, p < s, w[p] = w[s], Quiet(w, p + 1, s - 1)
        PROVE  Excused(a, e)
    <3>1. p \in 1..n /\ p < s - 1 /\ raw[p] # Silent /\ raw[s] # Silent
          /\ cols[p] = c /\ cols[s] = c
      BY <1>1, <1>3, <1>16, <2>1, <2>4
    <3>2. Quiet(raw, p + 1, s - 1)
      BY <1>1, <1>9, <2>1, <2>4, <3>1
    <3>3. \A k \in (p + 1)..(s - 1) : cols[k] = c /\ raw[k] = Silent
      <4>1. SUFFICES ASSUME NEW k \in (p + 1)..(s - 1)
                     PROVE  cols[k] = c /\ raw[k] = Silent
        OBVIOUS
      <4>2. k \in 1..n /\ p < k /\ k < s
        BY <1>1, <2>1, <3>1
      <4>3. cols[k] = cols[s] \/ cols[k] = cols[p]
        BY <1>8, <2>1, <3>1, <3>2, <4>2
      <4>. QED
        BY <3>1, <3>2, <4>3 DEF Quiet
    <3>4. a # 1
      <4>1. SUFFICES ASSUME a = 1 PROVE FALSE
        OBVIOUS
      <4>2. w[p] = Silent
        BY <1>16, <2>1, <3>1, <4>1 DEF Quiet
      <4>. QED
        BY <1>1, <1>3, <3>1, <4>2
    <3>. DEFINE h == Host(a - 1)
    <3>5. h \in 1..(a - 1) /\ cols[h] # c /\ h < s /\ s <= a
      BY <1>15, <1>16, <3>4
    <3>6. h < p
      BY <1>1, <2>1, <3>1, <3>3, <3>5
    <3>7. (h = 1 \/ lead(h)) /\ \A j \in (h + 1)..(a - 1) : ~lead(j)
      BY <1>15, <3>4
    <3>. HIDE DEF h
    <3>8. Host(p) = h
      <4>1. h \in 1..p /\ \A j \in (h + 1)..p : ~lead(j)
        BY <1>1, <2>1, <3>1, <3>5, <3>6, <3>7
      <4>. QED
        BY <1>5, <3>1, <3>7, <4>1
    <3>9. Host(s - 1) = h
      <4>1. s - 1 \in 1..n /\ h \in 1..(s - 1) /\ \A j \in (h + 1)..(s - 1) : ~lead(j)
        BY <1>1, <2>1, <3>1, <3>5, <3>6, <3>7
      <4>. QED
        BY <1>5, <3>7, <4>1
    <3>10. s - 1 \in 1..n /\ s - 1 <= e /\ h <= s - 1 /\ raw[s - 1] = Silent
      BY <1>1, <1>2, <1>16, <2>1, <3>1, <3>3, <3>5
    <3>. QED
      BY <1>6, <3>1, <3>8, <3>9, <3>10 DEF h
  <2>5. ASSUME NEW f \in Tokens, t < f, w[f] = w[s], Quiet(w, t + 1, f - 1)
        PROVE  Excused(a, e)
    <3>1. /\ f \in 1..n /\ t + 1 < f /\ raw[t] # Silent /\ raw[f] # Silent
          /\ cols[t] = c /\ cols[f] = c
      BY <1>1, <1>3, <1>16, <2>1, <2>5
    <3>2. Quiet(raw, t + 1, f - 1)
      BY <1>1, <1>9, <1>16, <2>1, <2>5, <3>1
    <3>3. \A k \in (t + 1)..(f - 1) : cols[k] = c /\ raw[k] = Silent
      BY <1>1, <1>8, <1>16, <2>1, <3>1, <3>2 DEF Quiet
    <3>4. f <= e
      <4>1. SUFFICES ASSUME e < f PROVE FALSE
        BY <1>1, <1>2
      <4>2. e + 1 \in 1..n /\ (e + 1 = f \/ e + 1 \in (t + 1)..(f - 1))
        BY <1>1, <1>2, <1>16, <3>1, <4>1
      <4>. QED
        BY <1>14, <3>1, <3>3, <4>2
    <3>5. a # 1 => Host(a - 1) \in Nat /\ Host(a - 1) < a
      BY <1>1, <1>15
    <3>6. CASE a - 1 <= t /\ ~lead(t + 1)
      <4>1. Host(t + 1) = Host(t)
        BY <1>1, <1>11, <1>16, <2>1, <3>1, <3>6
      <4>2. t + 1 \in 1..n /\ t + 1 <= e /\ raw[t + 1] = Silent /\ (a # 1 => Host(a - 1) <= t + 1)
        <5>1. t + 1 \in (t + 1)..(f - 1)
          BY <1>1, <3>1
        <5>2. raw[t + 1] = Silent
          BY <3>3, <5>1
        <5>3. t + 1 \in 1..n /\ t + 1 <= e
          BY <1>1, <1>2, <3>1, <3>4
        <5>4. a # 1 => Host(a - 1) <= t + 1
          BY <1>1, <3>5, <3>6
        <5>. QED
          BY <5>2, <5>3, <5>4
      <4>. QED
        BY <1>6, <1>16, <3>1, <4>1, <4>2
    <3>7. CASE a - 1 <= t /\ lead(t + 1)
      <4>1. t + 1 \in 1..n /\ t + 1 <= e /\ raw[t + 1] = Silent /\ (a # 1 => Host(a - 1) <= t + 1)
        <5>1. t + 1 \in (t + 1)..(f - 1)
          BY <1>1, <3>1
        <5>2. raw[t + 1] = Silent
          BY <3>3, <5>1
        <5>3. t + 1 \in 1..n /\ t + 1 <= e
          BY <1>1, <1>2, <3>1, <3>4
        <5>4. a # 1 => Host(a - 1) <= t + 1
          BY <1>1, <3>5, <3>7
        <5>. QED
          BY <5>2, <5>3, <5>4
      <4>2. \A j \in (t + 2)..f : ~lead(j)
        <5>1. ASSUME NEW j \in (t + 2)..f, lead(j) PROVE FALSE
          <6>1. t + 1 \in a..e /\ j \in a..e /\ j # t + 1
            BY <1>1, <1>2, <1>16, <3>1, <3>4, <3>7, <5>1
          <6>. QED
            BY <1>7, <3>7, <5>1, <6>1
        <5>. QED
          BY <5>1
      <4>3. Host(f) = t + 1
        <5>1. t + 1 \in 1..f /\ \A j \in ((t + 1) + 1)..f : ~lead(j)
          BY <1>1, <1>16, <3>1, <4>1, <4>2
        <5>. QED
          BY <1>5, <3>1, <3>7, <5>1
      <4>4. Host(t + 1) = t + 1
        BY <1>12, <3>7, <4>1
      <4>. QED
        BY <1>6, <3>1, <4>1, <4>3, <4>4
    <3>8. CASE ~(a - 1 <= t)
      <4>1. a # 1 /\ t + 1 < a /\ Quiet(w, t + 1, a)
        BY <1>1, <1>16, <2>1, <3>8
      <4>2. raw[a] = Silent /\ a < f
        <5>1. w[a] = Silent
          BY <1>1, <1>16, <4>1 DEF Quiet
        <5>2. f \notin (t + 1)..a
          BY <1>1, <1>3, <3>1, <4>1 DEF Quiet
        <5>. QED
          BY <1>1, <1>3, <1>16, <3>1, <5>1, <5>2
      <4>3. \A j \in (a + 1)..f : ~lead(j)
        <5>1. ASSUME NEW j \in (a + 1)..f, lead(j) PROVE FALSE
          <6>1. a \in a..e /\ j \in a..e /\ j # a /\ lead(a)
            BY <1>1, <1>2, <1>13, <3>1, <3>4, <4>1, <5>1
          <6>. QED
            BY <1>7, <5>1, <6>1
        <5>. QED
          BY <5>1
      <4>4. Host(f) = a
        <5>1. a \in 1..f
          BY <1>1, <3>1, <4>2
        <5>. QED
          BY <1>5, <1>13, <3>1, <4>3, <5>1
      <4>5. Host(a - 1) <= a
        BY <1>1, <1>15, <4>1
      <4>. QED
        BY <1>1, <1>2, <1>6, <1>13, <3>1, <4>2, <4>4, <4>5
    <3>. QED
      BY <3>6, <3>7, <3>8
  <2>. QED
    BY <1>10, <1>16, <2>3, <2>4, <2>5 DEF c
<1>17. CASE raw[a] # Silent
  <2>1. w[a] = c /\ w[a] # Silent
    BY <1>1, <1>3, <1>13, <1>17
  <2>2. PICK s \in Starts(w) : s <= a /\ a <= Last(w, s) /\ w[s] = w[a]
    BY <1>1, <1>3, <2>1, RunOf
  <2>. DEFINE t == Last(w, s)
  <2>3. s \in 1..n /\ t \in 1..n /\ \A i \in s..t : w[i] = c
    <3>1. s \in 1..n
      BY <1>3 DEF Starts
    <3>2. EndsRun(w, s, Last(w, s))
      BY <1>1, <1>3, <3>1, LastIs
    <3>. QED
      BY <1>3, <2>1, <2>2, <3>1, <3>2 DEF EndsRun
  <2>. HIDE DEF t
  <2>4. a <= t
    BY <2>2 DEF t
  <2>5. t <= e
    <3>1. SUFFICES ASSUME e < t PROVE FALSE
      BY <1>2, <2>3
    <3>2. e + 1 \in s..t /\ e + 1 \in 1..n
      BY <1>1, <1>2, <2>2, <2>3, <3>1
    <3>3. cols[e + 1] = c
      BY <1>1, <1>3, <2>3, <3>2
    <3>. QED
      BY <1>14, <3>2, <3>3
  <2>6. a # 1 => Host(a - 1) < s
    <3>1. SUFFICES ASSUME a # 1, s <= Host(a - 1) PROVE FALSE
      BY <1>1, <1>15, <2>3
    <3>2. Host(a - 1) \in s..t /\ Host(a - 1) \in 1..n
      BY <1>1, <1>15, <2>3, <2>4, <3>1
    <3>3. cols[Host(a - 1)] = c
      BY <1>1, <1>3, <2>3, <3>2
    <3>. QED
      BY <1>15, <3>1, <3>3
  <2>7. a = 1 => Quiet(w, 1, s - 1)
    BY <2>2, <2>3 DEF Quiet
  <2>. QED
    BY <1>1, <1>16, <2>1, <2>2, <2>3, <2>4, <2>5, <2>6, <2>7 DEF t, e
<1>18. CASE raw[a] = Silent
  <2>1. w[a] = Silent
    BY <1>1, <1>3, <1>18
  <2>2. \/ Quiet(w, 1, a - 1)
        \/ \E p \in 1..n : p < a /\ w[p] # Silent /\ Quiet(w, p + 1, a - 1)
    BY <1>1, <1>3, PrevHeard
  <2>3. \/ Quiet(w, a + 1, n)
        \/ \E f \in 1..n : a < f /\ w[f] # Silent /\ Quiet(w, a + 1, f - 1)
    BY <1>1, <1>3, NextHeard
  <2>4. ~(Quiet(w, 1, a - 1) /\ Quiet(w, a + 1, n))
    <3>1. PICK j \in 1..n : raw[j] # Silent
      BY <1>1, <1>13 DEF Voiced
    <3>2. w[j] # Silent /\ j # a
      BY <1>3, <1>18, <3>1
    <3>. QED
      BY <1>1, <3>1, <3>2 DEF Quiet
  <2>5. ASSUME NEW l \in 1..n, l < a, w[l] = c, Quiet(w, l + 1, a - 1)
        PROVE  (\A i \in Tokens : u[i] = u[a]) \/ Excused(a, e)
    <3>1. a # 1 /\ raw[l] # Silent /\ cols[l] = c /\ w[l] # Silent
      BY <1>1, <1>3, <2>5
    <3>2. Quiet(w, l + 1, a)
      BY <1>1, <2>1, <2>5 DEF Quiet
    <3>. DEFINE h == Host(a - 1)
    <3>3. /\ a - 1 \in 1..n /\ h \in 1..(a - 1) /\ cols[h] # c
          /\ h = Host(a - 1)
      BY <1>15, <3>1
    <3>. HIDE DEF h
    <3>4. CASE l < h
      <4>1. raw[h] = Silent /\ h \in 1..n /\ h <= a /\ h <= e
        BY <1>1, <1>2, <1>3, <2>5, <3>2, <3>3, <3>4 DEF Quiet
      <4>2. Overlapping
        <5>1. SUFFICES ASSUME ~Overlapping PROVE FALSE
          OBVIOUS
        <5>2. CASE Quiet(w, a + 1, n)
          <6>1. Quiet(w, l + 1, n)
            BY <1>1, <3>2, <5>2 DEF Quiet
          <6>2. Quiet(raw, l + 1, n)
            BY <1>1, <1>9, <2>5, <6>1
          <6>. QED
            BY <1>8, <3>1, <3>3, <3>4, <4>1, <6>2
        <5>3. ASSUME NEW f \in 1..n, a < f, w[f] # Silent, Quiet(w, a + 1, f - 1)
              PROVE  FALSE
          <6>1. Quiet(w, l + 1, f - 1)
            BY <1>1, <3>2, <5>3 DEF Quiet
          <6>2. Quiet(raw, l + 1, f - 1)
            BY <1>1, <1>9, <2>5, <5>3, <6>1
          <6>3. raw[f] # Silent
            BY <1>3, <5>3
          <6>4. cols[a] = cols[f] /\ cols[h] = cols[f]
            BY <1>1, <2>5, <3>1, <3>3, <3>4, <4>1, <5>1, <5>3, <6>2, <6>3, FilledInOrder
          <6>. QED
            BY <1>13, <3>3, <6>4
        <5>. QED
          BY <2>3, <5>2, <5>3
      <4>. QED
        BY <1>6, <3>3, <4>1, <4>2
    <3>5. CASE ~(l < h)
      <4>1. PICK s \in Starts(w) : s <= l /\ l <= Last(w, s) /\ w[s] = w[l]
        BY <1>1, <1>3, <3>1, RunOf
      <4>. DEFINE t == Last(w, s)
      <4>2. s \in 1..n /\ t \in 1..n /\ \A i \in s..t : w[i] = c
        <5>1. s \in 1..n
          BY <1>3 DEF Starts
        <5>2. EndsRun(w, s, Last(w, s))
          BY <1>1, <1>3, <5>1, LastIs
        <5>. QED
          BY <1>3, <2>5, <4>1, <5>1, <5>2 DEF EndsRun
      <4>3. l <= t /\ t = Last(w, s)
        BY <4>1
      <4>. HIDE DEF t
      <4>4. t = l
        <5>1. SUFFICES ASSUME l < t PROVE FALSE
          BY <4>2, <4>3
        <5>2. l + 1 \in s..t /\ l + 1 \in (l + 1)..a
          BY <1>1, <2>5, <4>1, <4>2, <5>1
        <5>. QED
          BY <1>1, <3>2, <4>2, <5>2 DEF Quiet
      <4>5. h < s
        <5>1. SUFFICES ASSUME s <= h PROVE FALSE
          BY <3>3, <4>2
        <5>2. h \in s..t /\ h \in 1..n
          BY <1>1, <3>3, <3>5, <4>2, <4>4, <5>1
        <5>3. cols[h] = c
          BY <1>1, <1>3, <4>2, <5>2
        <5>. QED
          BY <3>3, <5>3
      <4>6. t <= e /\ s <= a /\ w[s] = c /\ Quiet(w, t + 1, a)
        BY <1>1, <1>2, <2>5, <3>2, <4>1, <4>2, <4>4
      <4>. QED
        BY <1>16, <3>1, <3>3, <4>2, <4>3, <4>5, <4>6
    <3>. QED
      BY <3>4, <3>5
  <2>6. ASSUME NEW r \in 1..n, a < r, w[r] = c, Quiet(w, a + 1, r - 1),
               \/ Quiet(w, 1, a - 1)
               \/ \E l \in 1..n : l < a /\ w[l] # Silent /\ w[l] # c /\ Quiet(w, l + 1, a - 1)
        PROVE  (\A i \in Tokens : u[i] = u[a]) \/ Excused(a, e)
    <3>1. raw[r] # Silent /\ cols[r] = c /\ Quiet(w, a, r - 1) /\ (a # 1 => Host(a - 1) <= a)
      BY <1>1, <1>3, <1>15, <2>1, <2>6 DEF Quiet
    <3>2. CASE e < r
      <4>1. e + 1 \in 1..n /\ e + 1 < r /\ a < e + 1
        BY <1>1, <1>2, <1>14, <2>6, <3>1, <3>2
      <4>2. CASE Quiet(w, 1, a - 1)
        <5>1. Quiet(w, 1, r - 1)
          BY <1>1, <3>1, <4>2 DEF Quiet
        <5>2. Quiet(raw, 1, r - 1)
          BY <1>1, <1>9, <5>1
        <5>. QED
          BY <1>8, <1>14, <3>1, <4>1, <5>2
      <4>3. ASSUME NEW l \in 1..n, l < a, w[l] # Silent, w[l] # c, Quiet(w, l + 1, a - 1)
            PROVE  Excused(a, e)
        <5>1. raw[l] # Silent /\ cols[l] # c
          BY <1>3, <4>3
        <5>2. Quiet(w, l + 1, r - 1)
          BY <1>1, <3>1, <4>3 DEF Quiet
        <5>3. Quiet(raw, l + 1, r - 1)
          BY <1>1, <1>9, <4>3, <5>2
        <5>4. Overlapping
          <6>1. SUFFICES ASSUME ~Overlapping PROVE FALSE
            OBVIOUS
          <6>2. cols[a] # cols[l] /\ a <= e + 1
            BY <1>1, <1>13, <4>1, <5>1
          <6>3. cols[e + 1] = cols[r]
            BY <1>1, <3>1, <4>1, <4>3, <5>1, <5>3, <6>1, <6>2, FilledInOrder
          <6>. QED
            BY <1>14, <3>1, <4>1, <6>3
        <5>. QED
          BY <1>1, <1>2, <1>6, <1>18, <3>1, <5>4
      <4>. QED
        BY <2>6, <4>2, <4>3
    <3>3. CASE r <= e /\ \A j \in (a + 1)..r : ~lead(j)
      <4>1. Host(r) = a
        <5>1. a \in 1..r
          BY <1>1, <2>6
        <5>. QED
          BY <1>5, <1>13, <3>3, <5>1
      <4>. QED
        BY <1>1, <1>2, <1>6, <1>13, <1>18, <3>1, <4>1
    <3>4. ASSUME r <= e, NEW j \in (a + 1)..r, lead(j)
          PROVE  (\A i \in Tokens : u[i] = u[a]) \/ Excused(a, e)
      <4>1. a = 1
        <5>1. a \in a..e /\ j \in a..e /\ j # a
          BY <1>1, <1>2, <3>4
        <5>. QED
          BY <1>7, <1>13, <3>4, <5>1
      <4>2. CASE j < r
        <5>1. j \in 1..n /\ j <= e /\ raw[j] = Silent
          BY <1>1, <1>2, <1>3, <2>6, <3>4, <4>2 DEF Quiet
        <5>2. \A i \in (j + 1)..r : ~lead(i)
          <6>1. ASSUME NEW i \in (j + 1)..r, lead(i) PROVE FALSE
            <7>1. i \in a..e /\ j \in a..e /\ i # j
              BY <1>1, <1>2, <3>4, <6>1
            <7>. QED
              BY <1>7, <3>4, <6>1, <7>1
          <6>. QED
            BY <6>1
        <5>3. Host(r) = j /\ Host(j) = j
          <6>1. j \in 1..r
            BY <1>1, <3>4
          <6>. QED
            BY <1>5, <1>12, <3>4, <5>1, <5>2, <6>1
        <5>. QED
          BY <1>6, <3>1, <4>1, <5>1, <5>3
      <4>3. CASE j = r
        <5>1. Quiet(w, 1, r - 1)
          BY <3>1, <4>1
        <5>2. PICK s \in Starts(w) : s <= r /\ r <= Last(w, s) /\ w[s] = w[r]
          BY <1>1, <1>3, <2>6, RunOf
        <5>. DEFINE t == Last(w, s)
        <5>3. s \in 1..n /\ t \in 1..n /\ \A i \in s..t : w[i] = c
          <6>1. s \in 1..n
            BY <1>3 DEF Starts
          <6>2. EndsRun(w, s, Last(w, s))
            BY <1>1, <1>3, <6>1, LastIs
          <6>. QED
            BY <1>3, <2>6, <5>2, <6>1, <6>2 DEF EndsRun
        <5>4. r <= t /\ t = Last(w, s)
          BY <5>2
        <5>. HIDE DEF t
        <5>5. s = r
          <6>1. SUFFICES ASSUME s < r PROVE FALSE
            BY <5>2, <5>3
          <6>2. s \in 1..(r - 1)
            BY <5>3, <6>1
          <6>. QED
            BY <1>1, <2>6, <5>1, <5>2, <6>2 DEF Quiet
        <5>6. t <= e
          <6>1. SUFFICES ASSUME e < t PROVE FALSE
            BY <1>2, <5>3
          <6>2. e + 1 \in s..t /\ e + 1 \in 1..n
            BY <1>1, <1>2, <3>4, <5>3, <5>5, <6>1
          <6>3. cols[e + 1] = c
            BY <1>1, <1>3, <5>3, <6>2
          <6>. QED
            BY <1>14, <6>2, <6>3
        <5>7. Quiet(w, 1, s - 1) /\ a - 1 <= t /\ w[s] = c
          BY <2>6, <4>1, <5>1, <5>2, <5>3, <5>5
        <5>. QED
          BY <1>16, <4>1, <5>3, <5>4, <5>6, <5>7
      <4>. QED
        BY <2>6, <3>4, <4>2, <4>3
    <3>. QED
      BY <1>2, <2>6, <3>2, <3>3, <3>4
  <2>7. CASE Quiet(w, a + 1, n)
    <3>1. PICK l \in 1..n : l < a /\ w[l] # Silent /\ Quiet(w, l + 1, a - 1)
      BY <2>2, <2>4, <2>7
    <3>2. Quiet(w, l + 1, n)
      BY <1>1, <2>1, <2>7, <3>1 DEF Quiet
    <3>3. Quiet(raw, l + 1, n) /\ raw[l] # Silent /\ w[l] = cols[l]
      BY <1>1, <1>3, <1>9, <3>1, <3>2
    <3>4. cols[a] = cols[l]
      BY <1>1, <1>8, <3>1, <3>3
    <3>. QED
      BY <1>13, <2>5, <3>1, <3>3, <3>4 DEF e
  <2>8. ASSUME NEW r \in 1..n, a < r, w[r] # Silent, Quiet(w, a + 1, r - 1)
        PROVE  (\A i \in Tokens : u[i] = u[a]) \/ Excused(a, e)
    <3>1. raw[r] # Silent /\ w[r] = cols[r]
      BY <1>3, <2>8
    <3>2. CASE Quiet(w, 1, a - 1)
      <4>1. Quiet(w, 1, r - 1)
        BY <1>1, <2>1, <2>8, <3>2 DEF Quiet
      <4>2. Quiet(raw, 1, r - 1)
        BY <1>1, <1>9, <4>1
      <4>3. cols[a] = cols[r]
        BY <1>1, <1>8, <2>8, <3>1, <4>2
      <4>. QED
        BY <1>13, <2>6, <2>8, <3>1, <3>2, <4>3
    <3>3. ASSUME NEW l \in 1..n, l < a, w[l] # Silent, Quiet(w, l + 1, a - 1)
          PROVE  (\A i \in Tokens : u[i] = u[a]) \/ Excused(a, e)
      <4>1. raw[l] # Silent /\ w[l] = cols[l]
        BY <1>3, <3>3
      <4>2. Quiet(w, l + 1, r - 1)
        BY <1>1, <2>1, <2>8, <3>3 DEF Quiet
      <4>3. Quiet(raw, l + 1, r - 1)
        BY <1>1, <1>9, <3>3, <4>2
      <4>4. cols[a] = cols[r] \/ cols[a] = cols[l]
        BY <1>1, <1>8, <2>8, <3>1, <3>3, <4>1, <4>3
      <4>5. CASE w[l] = c
        BY <2>5, <3>3, <4>5
      <4>6. CASE w[l] # c
        BY <1>13, <2>6, <2>8, <3>1, <3>3, <4>1, <4>4, <4>6
      <4>. QED
        BY <4>5, <4>6
    <3>. QED
      BY <2>2, <3>2, <3>3
  <2>. QED
    BY <2>3, <2>7, <2>8 DEF e
<1>. QED
  BY <1>17, <1>18 DEF e

\* Words and their times do not change.
LEMMA WordsStay ==
  ASSUME UNCHANGED <<input, raw>>
  PROVE  /\ Tokens' = Tokens
         /\ \A w : Settled(w)' <=> Settled(w)
         /\ \A v : FilledIn(v)' <=> FilledIn(v)
         /\ \A w : LoneExcused(w)' <=> LoneExcused(w)
<1>1. Tokens' = Tokens
  BY DEF Tokens
<1>2. \A a, b : Spoken(a, b)' = Spoken(a, b)
  BY DEF Spoken
<1>3. \A w : Settled(w)' <=> Settled(w)
  BY <1>1, <1>2 DEF Settled
<1>4. \A i : Host(i)' = Host(i)
  BY DEF Host
<1>5. \A a, e : Excused(a, e)' <=> Excused(a, e)
  <2>1. \A i : HeardInPart(i)' <=> HeardInPart(i)
    BY <1>1, <1>4 DEF HeardInPart
  <2>2. Overlapping' <=> Overlapping
    BY <1>1 DEF Overlapping
  <2>. QED
    BY <1>4, <2>1, <2>2 DEF Excused
<1>6. \A w : LoneExcused(w)' <=> LoneExcused(w)
  BY <1>1, <1>2, <1>5 DEF LoneExcused
<1>7. \A v : FilledIn(v)' <=> FilledIn(v)
  BY DEF FilledIn, Tokens, Quiet, Gap, Abs
<1>. QED
  BY <1>1, <1>3, <1>6, <1>7

LEMMA SmoothEndsLone == IInv /\ SmoothEnds => LoneInv'
<1> SUFFICES ASSUME IInv, SmoothEnds PROVE LoneInv'
  OBVIOUS
<1>1. /\ phase' = "fill" /\ Islands(SpeakerRuns(cols)) = {}
      /\ UNCHANGED <<input, cols, raw>>
  BY DEF SmoothEnds
<1>2. TypeOK /\ cols \in [Tokens -> Columns \cup {Silent}]
  BY DEF IInv, TypeOK
<1>3. Settled(cols)
  BY <1>1, <1>2, OneWordRuns DEF Settled
<1>4. ASSUME NEW w, w = cols' PROVE Settled(w)'
  <2>1. w = cols
    BY <1>1, <1>4
  <2>2. Settled(w)
    BY <1>3, <2>1
  <2>. QED
    BY <1>1, <2>2, WordsStay
<1>. QED
  BY <1>1, <1>4 DEF LoneInv

\* What is filled takes the column of the nearest token on one side or the other.
LEMMA FillLone == IInv /\ LoneInv /\ Fill => LoneInv'
<1> SUFFICES ASSUME IInv, LoneInv, Fill PROVE LoneInv'
  OBVIOUS
<1>1. /\ phase = "fill" /\ phase' = "join"
      /\ cols' = [i \in Tokens |-> IF cols[i] # Silent THEN cols[i] ELSE Neighbour(i)]
      /\ UNCHANGED <<input, raw>>
  BY DEF Fill
<1>2. /\ TypeOK /\ Tokens' = Tokens /\ Len(input.words) \in Nat
      /\ Tokens = 1..Len(input.words)
      /\ cols \in [Tokens -> Columns \cup {Silent}]
      /\ \A i \in Tokens : cols[i] = Silent <=> raw[i] = Silent
  BY <1>1, WordsStay, InputFacts DEF IInv, TypeOK, WordInv
<1>3. \A i \in Tokens : /\ raw[i] # Silent => cols'[i] = cols[i]
                        /\ raw[i] = Silent => cols'[i] = Neighbour(i)
  BY <1>1, <1>2
<1>4. Attributed = {j \in Tokens : raw[j] # Silent}
  BY <1>2 DEF Attributed
<1>5. ASSUME NEW w, w = Smoothed' PROVE Settled(w)'
  <2>1. Smoothed' = [i \in Tokens |-> IF raw[i] = Silent THEN Silent ELSE cols'[i]]
    BY <1>1, <1>2 DEF Smoothed
  <2>2. \A i \in Tokens : (IF raw[i] = Silent THEN Silent ELSE cols'[i]) = cols[i]
    BY <1>2, <1>3
  <2>3. w = cols
    BY <1>2, <1>5, <2>1, <2>2
  <2>4. Settled(w)
    BY <1>1, <2>3 DEF LoneInv
  <2>. QED
    BY <1>1, <2>4, WordsStay
<1>6. \A i, l \in Tokens :
        l < i /\ raw[l] # Silent /\ Quiet(raw, l + 1, i) => /\ Left(i) # {}
                                                          /\ Largest(Left(i)) = l
  <2>1. SUFFICES ASSUME NEW i \in Tokens, NEW l \in Tokens, l < i, raw[l] # Silent,
                        Quiet(raw, l + 1, i)
                 PROVE  Left(i) # {} /\ Largest(Left(i)) = l
    OBVIOUS
  <2>2. l \in Left(i) /\ \A j \in Left(i) : j <= l /\ j \in Tokens
    BY <1>2, <1>4, <2>1 DEF Left, Quiet
  <2>3. Left(i) \in SUBSET (0..Len(input.words))
    <3>1. Tokens \subseteq 0..Len(input.words)
      BY <1>2
    <3>. QED
      BY <2>2, <3>1
  <2>4. Largest(Left(i)) \in Left(i) /\ \A j \in Left(i) : j <= Largest(Left(i))
    BY <1>2, <2>2, <2>3, LargestIs
  <2>5. ASSUME NEW m, m = Largest(Left(i)) PROVE m = l
    <3>1. m \in Tokens /\ m <= l /\ l <= m
      BY <2>2, <2>4, <2>5
    <3>2. m \in Nat /\ l \in Nat
      BY <1>2, <2>1, <3>1
    <3>. QED
      BY <3>1, <3>2
  <2>. QED
    BY <2>2, <2>5
<1>7. \A i, r \in Tokens :
        i < r /\ raw[r] # Silent /\ Quiet(raw, i, r - 1) => /\ Right(i) # {}
                                                          /\ Smallest(Right(i)) = r
  <2>1. SUFFICES ASSUME NEW i \in Tokens, NEW r \in Tokens, i < r, raw[r] # Silent,
                        Quiet(raw, i, r - 1)
                 PROVE  Right(i) # {} /\ Smallest(Right(i)) = r
    OBVIOUS
  <2>2. r \in Right(i) /\ \A j \in Right(i) : r <= j /\ j \in Tokens
    BY <1>2, <1>4, <2>1 DEF Right, Quiet
  <2>3. Right(i) \in SUBSET Nat
    <3>1. Tokens \subseteq Nat
      BY <1>2
    <3>. QED
      BY <2>2, <3>1
  <2>4. Smallest(Right(i)) \in Right(i) /\ \A j \in Right(i) : Smallest(Right(i)) <= j
    BY <2>2, <2>3, SmallestIs
  <2>5. ASSUME NEW m, m = Smallest(Right(i)) PROVE m = r
    <3>1. m \in Tokens /\ m <= r /\ r <= m
      BY <2>2, <2>4, <2>5
    <3>2. m \in Nat /\ r \in Nat
      BY <1>2, <2>1, <3>1
    <3>. QED
      BY <3>1, <3>2
  <2>. QED
    BY <2>2, <2>5
<1>8. ASSUME NEW i \in Tokens, NEW l \in Tokens, NEW r \in Tokens, l < i, i < r,
             raw[l] # Silent, raw[r] # Silent, Quiet(raw, l + 1, r - 1)
      PROVE  cols'[i] = IF Gap(i, r) < Gap(l, i) THEN cols'[r] ELSE cols'[l]
  <2>1. raw[i] = Silent /\ Quiet(raw, l + 1, i) /\ Quiet(raw, i, r - 1)
    BY <1>2, <1>8 DEF Quiet
  <2>2. /\ Left(i) # {} /\ Largest(Left(i)) = l
        /\ Right(i) # {} /\ Smallest(Right(i)) = r
    BY <1>6, <1>7, <1>8, <2>1
  <2>3. Neighbour(i) = IF Gap(i, r) < Gap(l, i) THEN cols[r] ELSE cols[l]
    BY <2>2 DEF Neighbour
  <2>. QED
    BY <1>3, <1>8, <2>1, <2>3
<1>9. ASSUME NEW i \in Tokens, NEW r \in Tokens, i < r, raw[r] # Silent,
             Quiet(raw, 1, r - 1)
      PROVE  cols'[i] = cols'[r]
  <2>1. raw[i] = Silent /\ Quiet(raw, i, r - 1) /\ Left(i) = {}
    BY <1>2, <1>4, <1>9 DEF Quiet, Left
  <2>2. Right(i) # {} /\ Smallest(Right(i)) = r
    BY <1>7, <1>9, <2>1
  <2>3. Neighbour(i) = cols[r]
    BY <2>1, <2>2 DEF Neighbour
  <2>. QED
    BY <1>3, <1>9, <2>1, <2>3
<1>10. ASSUME NEW i \in Tokens, NEW l \in Tokens, l < i, raw[l] # Silent,
              Quiet(raw, l + 1, Len(input.words))
       PROVE  cols'[i] = cols'[l]
  <2>1. raw[i] = Silent /\ Quiet(raw, l + 1, i) /\ Right(i) = {}
    BY <1>2, <1>4, <1>10 DEF Quiet, Right
  <2>2. Left(i) # {} /\ Largest(Left(i)) = l
    BY <1>6, <1>10, <2>1
  <2>3. Neighbour(i) = cols[l]
    BY <2>1, <2>2 DEF Neighbour
  <2>. QED
    BY <1>3, <1>10, <2>1, <2>3
<1>11. ASSUME NEW g \in Tokens, raw[g] # Silent, NEW i \in Tokens
       PROVE  \E j \in Tokens : raw[j] # Silent /\ cols'[j] = cols'[i]
  <2>1. CASE raw[i] # Silent
    BY <2>1
  <2>2. CASE raw[i] = Silent
    <3>1. PICK j \in Attributed : Neighbour(i) = cols[j]
      BY <1>2, <1>4, <1>11, <2>2, NeighbourIs
    <3>. QED
      BY <1>3, <1>4, <2>2, <3>1
  <2>. QED
    BY <2>1, <2>2
<1>12. ASSUME NEW v, v = cols' PROVE FilledIn(v)'
  <2>1. FilledIn(v)
    BY <1>8, <1>9, <1>10, <1>11, <1>12 DEF FilledIn
  <2>. QED
    BY <1>1, <2>1, WordsStay
<1>. QED
  BY <1>1, <1>5, <1>12 DEF LoneInv

LEMMA JoinLone == IInv /\ LoneInv /\ Join => LoneInv'
<1> SUFFICES ASSUME IInv, LoneInv, Join PROVE LoneInv'
  OBVIOUS
<1>1. /\ phase = "join" /\ phase' = "number"
      /\ cols' = [i \in Tokens |-> cols[Host(i)]]
      /\ UNCHANGED <<input, raw>>
  BY DEF Join
<1>2. TypeOK /\ FilledIn(cols) /\ Settled(Smoothed)
  BY <1>1 DEF IInv, LoneInv
<1>3. Voiced
  BY <1>1 DEF IInv, WordInv, Wording, Voiced
<1>4. ASSUME NEW w, w = cols' PROVE LoneExcused(w)'
  <2>1. w \in [Tokens -> Columns \cup {Silent}]
    BY <1>1, <1>2, <1>4, HostIs DEF TypeOK
  <2>2. JoinedTo(w)
    BY <1>1, <1>4 DEF JoinedTo
  <2>3. LoneExcused(w)
    BY <1>2, <1>3, <2>1, <2>2, LoneTurnsAreExcused DEF LoneExcused
  <2>. QED
    BY <1>1, <2>3, WordsStay
<1>. QED
  BY <1>1, <1>4 DEF LoneInv

\* From then on the columns stay.
LEMMA StepLone == IInv /\ LoneInv /\ [Next]_vars => LoneInv'
<1> SUFFICES ASSUME IInv, LoneInv, [Next]_vars PROVE LoneInv'
  OBVIOUS
<1>1. CASE MergeAlike \/ FoldAlike \/ StartPrior \/ NoPrior \/ MergeClosest \/ PriorEnds
           \/ Attribute \/ Absorb
  <2>1. phase' \in {"alike", "prior", "expected", "attribute", "smooth"}
    BY <1>1 DEF MergeAlike, FoldAlike, StartPrior, NoPrior, MergeClosest, PriorEnds, Attribute,
       Absorb
  <2>. QED
    BY <2>1 DEF LoneInv
<1>2. CASE Number
  <2>1. phase = "number" /\ phase' = "done" /\ UNCHANGED <<input, cols, raw>>
    BY <1>2 DEF Number
  <2>2. ASSUME NEW w, w = cols' PROVE LoneExcused(w)'
    <3>1. LoneExcused(w)
      BY <2>1, <2>2 DEF LoneInv
    <3>. QED
      BY <2>1, <3>1, WordsStay
  <2>. QED
    BY <2>1, <2>2 DEF LoneInv
<1>3. CASE UNCHANGED vars
  <2>1. UNCHANGED <<input, phase, cols, raw>>
    BY <1>3 DEF vars
  <2>2. UNCHANGED <<input, raw>>
    BY <2>1
  <2>3. phase = "fill" => \A w : w = cols' => Settled(w)'
    <3>1. ASSUME phase = "fill", NEW w, w = cols' PROVE Settled(w)'
      <4>1. Settled(w)
        BY <2>1, <3>1 DEF LoneInv
      <4>. QED
        BY <2>2, <4>1, WordsStay
    <3>. QED
      BY <3>1
  <2>4. phase = "join" => /\ \A w : w = Smoothed' => Settled(w)'
                          /\ \A w : w = cols' => FilledIn(w)'
    <3>1. Smoothed' = Smoothed
      BY <2>1 DEF Smoothed, Tokens
    <3>2. ASSUME phase = "join", NEW w, w = Smoothed' PROVE Settled(w)'
      <4>1. Settled(w)
        BY <3>1, <3>2 DEF LoneInv
      <4>. QED
        BY <2>2, <4>1, WordsStay
    <3>3. ASSUME phase = "join", NEW w, w = cols' PROVE FilledIn(w)'
      <4>1. FilledIn(w)
        BY <2>1, <3>3 DEF LoneInv
      <4>. QED
        BY <2>2, <4>1, WordsStay
    <3>. QED
      BY <3>2, <3>3
  <2>5. phase \in {"number", "done"} => \A w : w = cols' => LoneExcused(w)'
    <3>1. ASSUME phase \in {"number", "done"}, NEW w, w = cols' PROVE LoneExcused(w)'
      <4>1. LoneExcused(w)
        BY <2>1, <3>1 DEF LoneInv
      <4>. QED
        BY <2>2, <4>1, WordsStay
    <3>. QED
      BY <3>1
  <2>. QED
    BY <2>1, <2>3, <2>4, <2>5 DEF LoneInv
<1>. QED
  BY <1>1, <1>2, <1>3, SmoothEndsLone, FillLone, JoinLone DEF Next

-----------------------------------------------------------------------------
(* The theorems.                                                           *)

\* A long turn's voice survives as the invariant says.
LEMMA LongTurnsFollow ==
  ASSUME TypeOK, LongInv
  PROVE  LongTurnsSurvive
<1>1. \A a \in Starts(raw) : a \in Tokens
  BY DEF Starts, TypeOK
<1>2. ASSUME NEW a \in Starts(raw),
             SpeakerRuns(raw)[a].words > MaxBracketed, SpeakerRuns(raw)[a].span >= MinTurn
      PROVE  Long(a) /\ SpeakerRuns(raw)[a].end = Last(raw, a)
  BY <1>2 DEF Long, SpeakerRuns, Run
<1>3. DOMAIN SpeakerRuns(raw) = Starts(raw)
  BY DEF SpeakerRuns
<1>4. phase \in Wording =>
        \A a \in Starts(raw) : Long(a) =>
          \A i \in a..Last(raw, a) : input.words[i].lead => cols[i] = raw[i]
  BY <1>1 DEF LongInv, Wording
<1>. QED
  BY <1>2, <1>3, <1>4 DEF LongTurnsSurvive, Wording

\* Each variable keeps its type: whatever is smoothed, filled and joined, the
\* tokens and the numbers name columns of the matrix.
THEOREM TypeCorrect == Spec => []TypeOK
<1>1. IInv => TypeOK
  BY DEF IInv
<1>. QED
  BY <1>1, Invariant, PTL

\* Columns become one voice only if each two of them sound alike, and every two
\* groups that could be one are (merge_similar_clusters).
THEOREM VoicesAlike == Spec => []MergedVoicesAreAlike
<1>1. IInv => MergedVoicesAreAlike
  BY DEF IInv
<1>. QED
  BY <1>1, Invariant, PTL

\* The number of speakers the user expects is met as far as the voiceprints allow,
\* and never undercut (merge_to_expected_count).
THEOREM PriorMet == Spec => []PriorHonoured
<1>1. IInv => PriorHonoured
  BY DEF IInv
<1>. QED
  BY <1>1, Invariant, PTL

\* No sequence of absorptions, nor the filling and joining after it, takes a turn
\* above the ceiling from its speaker (smooth_word_speaker_runs).
THEOREM TurnsSurvive == Spec => []LongTurnsSurvive
<1>1. IInv => LongTurnsSurvive
  BY LongTurnsFollow DEF IInv
<1>. QED
  BY <1>1, Invariant, PTL

\* If anybody was heard every token ends with a speaker that was, and the numbers
\* follow the order of the first tokens (assign_words).
THEOREM WordsAttributed == Spec => []EveryWordHasASpeaker
<1>1. IInv => EveryWordHasASpeaker
  BY DEF IInv
<1>. QED
  BY <1>1, Invariant, PTL

\* However the smoothing, the filling and the joining of written words meet, a turn
\* of a single word stands only at a token no frame spoke for.
THEOREM NoLoneTurns == Spec => []NoLoneTurn
<1>1. Init => LoneInv
  BY DEF Init, LoneInv
<1>2. IInv /\ LoneInv => NoLoneTurn
  <2>1. SUFFICES ASSUME IInv, LoneInv, phase = "done", NEW a \in Starts(cols),
                        Spoken(a, Last(cols, a)) = 1
                 PROVE  Cardinality(Starts(cols)) = 1 \/ Excused(a, Last(cols, a))
    <3>1. DOMAIN SpeakerRuns(cols) = Starts(cols)
      BY DEF SpeakerRuns
    <3>2. \A a \in Starts(cols) : /\ SpeakerRuns(cols)[a].end = Last(cols, a)
                                  /\ SpeakerRuns(cols)[a].words = Spoken(a, Last(cols, a))
      BY DEF SpeakerRuns, Run
    <3>3. ASSUME IInv, NEW a \in Starts(cols)
          PROVE  Spoken(a, Last(cols, a)) \in Nat /\ Spoken(a, Last(cols, a)) >= 1
      <4>1. /\ a \in Tokens /\ Last(cols, a) \in Tokens /\ a <= Last(cols, a) /\ TypeOK
        BY <3>3, TokensLast DEF IInv, TypeOK, Starts
      <4>2. Spoken(a, Last(cols, a)) # 0
        BY DEF Spoken
      <4>3. Spoken(a, Last(cols, a)) \in Nat
        BY <4>1, Longer, InputFacts
      <4>. QED
        BY <4>2, <4>3
    <3>. QED
      BY <3>1, <3>2, <3>3 DEF NoLoneTurn, Excused
  <2>2. LoneExcused(cols)
    BY <2>1 DEF LoneInv
  <2>3. SUFFICES ASSUME \A i \in Tokens : cols[i] = cols[a]
                 PROVE  Cardinality(Starts(cols)) = 1
    BY <2>1, <2>2 DEF LoneExcused
  <2>4. Len(input.words) \in Nat /\ Tokens = 1..Len(input.words) /\ DOMAIN cols = Tokens
    BY <2>1, InputFacts DEF IInv, TypeOK
  <2>5. ASSUME NEW b \in Starts(cols) PROVE b = 1
    <3>1. b \in Tokens /\ (b = 1 \/ cols[b - 1] # cols[b])
      BY <2>4 DEF Starts
    <3>2. b # 1 => b - 1 \in Tokens
      BY <2>4, <3>1
    <3>. QED
      BY <2>3, <3>1, <3>2
  <2>6. Starts(cols) = {1}
    BY <2>1, <2>5
  <2>. QED
    BY <2>6, FS_Singleton
<1>3. QED
  BY <1>1, <1>2, StepLone, Invariant, PTL DEF Spec
=============================================================================
