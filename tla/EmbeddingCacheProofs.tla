------------------------ MODULE EmbeddingCacheProofs ------------------------
(***************************************************************************)
(* The four invariants of EmbeddingCache, for any recordings, callers,     *)
(* searches and bounds.                                                    *)
(*                                                                         *)
(* SnapshotIsCurrent is not inductive: what a patch or a search is about   *)
(* to store was read earlier.  Both are covered by the same statement of   *)
(* what has been read: as long as the generation has not moved, a slot     *)
(* read holds what SQLite holds unless some other caller still owes the    *)
(* snapshot a visit, and that visit will move the generation.              *)
(***************************************************************************)
EXTENDS EmbeddingCache, FiniteSetTheorems, TLAPS

OwedByOther(c, r) == \E d \in Callers \ {c} : Owes(d, r)
Owed(r) == \E d \in Callers : Owes(d, r)

\* The tables a reader has been through.
ReadAt(s) == CASE s = "legacy" -> {"chunks"} [] s = "store" -> {"chunks", "legacy"} [] OTHER -> {}

PatchesAreCurrent ==
  \A c \in Callers : saw[c] = gen =>
    \A s \in Slots : s[1] \in ReadAt(step[c]) /\ s[2] \in touched[c] =>
      got[c][s] = stored[s] \/ OwedByOther(c, s[2])

QueriesAreCurrent ==
  \A q \in Queries : qsaw[q] = gen =>
    \A s \in Slots : s[1] \in ReadAt(qstep[q]) => qgot[q][s] = stored[s] \/ Owed(s[2])

GenerationIsAhead ==
  /\ \A c \in Callers : saw[c] <= gen
  /\ \A q \in Queries : qsaw[q] <= gen

GoneHaveNoVectors == \A s \in Slots : s[2] \notin rows => stored[s] = 0

Coherent ==
  /\ GenerationIsAhead
  /\ PatchesAreCurrent
  /\ QueriesAreCurrent
  /\ SnapshotIsCurrent

IInv ==
  /\ TypeOK
  /\ Coherent
  /\ SnapshotIsBounded
  /\ GoneHaveNoVectors

-----------------------------------------------------------------------------
(* Types.                                                                  *)

USE BoundAssumption, ColdAssumption DEF BoundAssumption, ColdAssumption

(* The variables start in their sets. *)
LEMMA InitTypes == Init => TypeOK
<1> SUFFICES ASSUME Init PROVE TypeOK
  OBVIOUS
<1>1. NoVectors \in [Slots -> Nat] /\ [s \in Slots |-> 1] \in [Slots -> Nat]
  BY DEF NoVectors
<1> QED
  BY <1>1 DEF Init, TypeOK, Patching

(* What a reader keeps is typed. *)
LEMMA ReadingType ==
  ASSUME NEW old \in [Slots -> Nat], NEW table, NEW of, stored \in [Slots -> Nat]
  PROVE  Reading(old, table, of) \in [Slots -> Nat]
BY DEF Reading

(* What a caller gives the snapshot is a snapshot or none. *)
LEMMA PatchedType ==
  ASSUME TypeOK, NEW c \in Callers, cache # Cold
  PROVE  /\ Patched(c) \in [Slots -> Nat]
         /\ Capped(Patched(c)) \in [Slots -> Nat] \cup {Cold}
<1>1. cache \in [Slots -> Nat] /\ got[c] \in [Slots -> Nat]
  BY DEF TypeOK
<1>2. Patched(c) \in [Slots -> Nat]
  BY <1>1 DEF Patched
<1> QED
  BY <1>2 DEF Capped

(* Every step keeps the variables in their sets. *)
LEMMA StepTypes == TypeOK /\ [Next]_vars => TypeOK'
<1> SUFFICES ASSUME TypeOK, [Next]_vars PROVE TypeOK'
  OBVIOUS
<1> USE DEF TypeOK, Patching
<1>none. NoVectors \in [Slots -> Nat]
  BY DEF NoVectors
<1>1. ASSUME NEW c \in Callers, NEW r \in Recs, NewText(c, r) PROVE TypeOK'
  <2>1. text[r] + 1 \in Nat /\ text' = [text EXCEPT ![r] = text[r] + 1]
    BY <1>1 DEF NewText
  <2>2. text' \in [Recs -> Nat] /\ text'[r] \in Nat
    BY <2>1
  <2>3. touched' = [touched EXCEPT ![c] = {r}] /\ input' = [input EXCEPT ![c] = text'[r]]
    BY <1>1 DEF NewText, GivenText
  <2> QED
    BY <1>1, <2>2, <2>3 DEF NewText, GivenText, Goto, snapshot, patch, queries
<1>2. ASSUME NEW c \in Callers, NEW r \in Recs, ListedText(c, r) PROVE TypeOK'
  BY <1>2 DEF ListedText, GivenText, Goto, snapshot, patch, queries
<1>3. ASSUME NEW c \in Callers, NEW r \in Recs, Delete(c, r) PROVE TypeOK'
  BY <1>3 DEF Delete, Without, ThenSync, Goto, snapshot, patch, queries
<1>4. ASSUME NEW c \in Callers, NEW gone \in SUBSET rows, DeleteMany(c, gone) PROVE TypeOK'
  BY <1>4 DEF DeleteMany, Without, ThenSync, Goto, snapshot, patch, queries
<1>5. ASSUME NEW c \in Callers, UpsertChunks(c) PROVE TypeOK'
  <2>1. stored' \in [Slots -> Nat]
    <3>1. PICK r \in touched[c], v \in {input[c], 0} :
                 stored' = [stored EXCEPT ![<<"chunks", r>>] = v]
      BY <1>5 DEF UpsertChunks
    <3>2. v \in Nat /\ stored \in [Slots -> Nat]
      OBVIOUS
    <3> HIDE DEF TypeOK
    <3> QED
      BY <3>1, <3>2
  <2> QED
    BY <1>5, <2>1 DEF UpsertChunks, ThenSync, Goto, snapshot, patch, queries
<1>6. ASSUME NEW c \in Callers, UpsertWhole(c) PROVE TypeOK'
  BY <1>6 DEF UpsertWhole, ThenSync, Goto, snapshot, patch, queries
<1>7. ASSUME NEW c \in Callers, UpsertFails(c) PROVE TypeOK'
  BY <1>7 DEF UpsertFails, Goto, catalog, snapshot, call, patch, queries
<1>8. ASSUME NEW c \in Callers, PatchLoadGen(c) PROVE TypeOK'
  BY <1>8 DEF PatchLoadGen, Goto, catalog, snapshot, call, queries
<1>9. ASSUME NEW c \in Callers, PatchRead(c) PROVE TypeOK'
  <2>1. Reading(got[c], step[c], touched[c]) \in [Slots -> Nat]
    BY ReadingType
  <2>2. got' \in [Callers -> [Slots -> Nat]]
    BY <1>9, <1>none, <2>1 DEF PatchRead
  <2> QED
    BY <1>9, <2>2 DEF PatchRead, Goto, catalog, snapshot, call, queries
<1>10. ASSUME NEW c \in Callers, PatchStore(c) PROVE TypeOK'
  BY <1>10, <1>none, PatchedType DEF PatchStore, Sync, Forget, Goto, catalog, call, queries
<1>11. ASSUME NEW c \in Callers, Invalidate(c) PROVE TypeOK'
  BY <1>11, <1>none DEF Invalidate, Sync, Forget, Goto, catalog, call, queries
<1>12. ASSUME NEW q \in Queries, QueryMiss(q) PROVE TypeOK'
  BY <1>12 DEF QueryMiss, QueryUnchanged, catalog, call, patch
<1>13. ASSUME NEW q \in Queries, QueryLoadGen(q) PROVE TypeOK'
  BY <1>13 DEF QueryLoadGen, QueryUnchanged, catalog, call, patch
<1>14. ASSUME NEW q \in Queries, QueryRead(q) PROVE TypeOK'
  <2>1. Reading(qgot[q], qstep[q], Recs) \in [Slots -> Nat]
    BY ReadingType
  <2>2. qgot' \in [Queries -> [Slots -> Nat]]
    BY <1>14, <1>none, <2>1 DEF QueryRead, QueryEnds
  <2>3. qstep' \in [Queries -> {"idle"} \cup Patching] /\ qsaw' \in [Queries -> Nat]
    BY <1>14 DEF QueryRead, QueryEnds
  <2> QED
    BY <1>14, <2>2, <2>3 DEF QueryRead, QueryUnchanged, catalog, call, patch
<1>15. ASSUME NEW q \in Queries, QueryStore(q) PROVE TypeOK'
  BY <1>15, <1>none DEF QueryStore, QueryEnds, QueryUnchanged, catalog, call, patch
<1>16. CASE UNCHANGED vars
  BY <1>16 DEF vars, catalog, snapshot, call, patch, queries
<1> QED
  BY <1>1, <1>2, <1>3, <1>4, <1>5, <1>6, <1>7, <1>8, <1>9, <1>10, <1>11, <1>12, <1>13,
     <1>14, <1>15, <1>16 DEF Next, CallerNext, QueryNext

-----------------------------------------------------------------------------
(* Coherence, by kind of step.                                             *)

(* A commit: whatever it changed, its caller owes. *)
LEMMA CommitStep ==
  ASSUME TypeOK, Coherent, NEW c \in Callers, NEW how \in {"load", "drop"},
         step[c] \notin Patching \cup {"drop"}, step' = [step EXCEPT ![c] = how],
         \A d \in Callers \ {c} : touched'[d] = touched[d],
         \A s \in Slots : stored'[s] # stored[s] => s[2] \in touched'[c],
         UNCHANGED <<snapshot, patch, queries>>
  PROVE  Coherent'
<1> USE DEF snapshot, patch, queries, Owes, Owed, OwedByOther
<1>1. step \in [Callers -> {"idle", "embed", "whole", "drop", "over"} \cup Patching]
  BY DEF TypeOK
<1>2. \A d \in Callers \ {c}, r \in Recs : Owes(d, r) => Owes(d, r)'
  BY <1>1
<1>3. \A s \in Slots : stored'[s] = stored[s] \/ Owes(c, s[2])'
  BY <1>1 DEF Patching
<1>4. \A r \in Recs : ~Owes(c, r)
  OBVIOUS
<1>slots. \A s \in Slots : s[2] \in Recs
  BY DEF Slots
<1>5. GenerationIsAhead'
  BY DEF Coherent, GenerationIsAhead
<1>6. PatchesAreCurrent'
  <2> SUFFICES ASSUME NEW d \in Callers, saw[d] = gen,
                      NEW s \in Slots, s[1] \in ReadAt(step'[d]), s[2] \in touched'[d]
               PROVE  got[d][s] = stored'[s] \/ OwedByOther(d, s[2])'
    BY DEF PatchesAreCurrent
  <2>1. d # c
    BY <1>1 DEF ReadAt
  <2>2. got[d][s] = stored[s] \/ OwedByOther(d, s[2])
    BY <1>1, <2>1 DEF Coherent, PatchesAreCurrent
  <2>3. OwedByOther(d, s[2]) => OwedByOther(d, s[2])'
    BY <1>2, <1>4, <1>slots
  <2> QED
    BY <1>3, <2>1, <2>2, <2>3
<1>7. \A r \in Recs : Owed(r) => Owed(r)'
  BY <1>2, <1>4
<1>8. QueriesAreCurrent'
  BY <1>3, <1>7, <1>slots DEF Coherent, QueriesAreCurrent
<1>9. SnapshotIsCurrent'
  BY <1>3, <1>7, <1>slots DEF Coherent, SnapshotIsCurrent
<1> QED
  BY <1>5, <1>6, <1>8, <1>9 DEF Coherent

(* A step of a caller that owes nothing before or after. *)
LEMMA QuietStep ==
  ASSUME TypeOK, Coherent, NEW c \in Callers, NEW n \in {"embed", "whole", "over"},
         step[c] \notin Patching \cup {"drop"}, step' = [step EXCEPT ![c] = n],
         \A d \in Callers \ {c} : touched'[d] = touched[d],
         UNCHANGED <<stored, snapshot, patch, queries>>
  PROVE  Coherent'
<1> USE DEF snapshot, patch, queries, Owes, Owed, OwedByOther
<1>1. step \in [Callers -> {"idle", "embed", "whole", "drop", "over"} \cup Patching]
  BY DEF TypeOK
<1>2. \A d \in Callers, r \in Recs : Owes(d, r) => d # c /\ Owes(d, r)'
  BY <1>1
<1>slots. \A s \in Slots : s[2] \in Recs
  BY DEF Slots
<1>5. GenerationIsAhead'
  BY DEF Coherent, GenerationIsAhead
<1>6. PatchesAreCurrent'
  <2> SUFFICES ASSUME NEW d \in Callers, saw[d] = gen,
                      NEW s \in Slots, s[1] \in ReadAt(step'[d]), s[2] \in touched'[d]
               PROVE  got[d][s] = stored[s] \/ OwedByOther(d, s[2])'
    BY DEF PatchesAreCurrent
  <2>1. d # c
    BY <1>1 DEF ReadAt
  <2>2. got[d][s] = stored[s] \/ OwedByOther(d, s[2])
    BY <1>1, <2>1 DEF Coherent, PatchesAreCurrent
  <2> QED
    BY <1>2, <1>slots, <2>2
<1>8. QueriesAreCurrent'
  BY <1>2, <1>slots DEF Coherent, QueriesAreCurrent
<1>9. SnapshotIsCurrent'
  BY <1>2, <1>slots DEF Coherent, SnapshotIsCurrent
<1> QED
  BY <1>5, <1>6, <1>8, <1>9 DEF Coherent

(* The visit to the snapshot: what was read under the old generation is void. *)
LEMMA SyncStep ==
  ASSUME TypeOK, Coherent, NEW c \in Callers, Sync(c), step[c] \in Patching \cup {"drop"},
         cache' # Cold =>
           \A s \in Slots : cache'[s] = stored[s] \/ OwedByOther(c, s[2])
  PROVE  Coherent'
<1>1. /\ step \in [Callers -> {"idle", "embed", "whole", "drop", "over"} \cup Patching]
      /\ gen \in Nat /\ saw \in [Callers -> Nat] /\ qsaw \in [Queries -> Nat]
  BY DEF TypeOK
<1>2. /\ gen' = gen + 1 /\ step' = [step EXCEPT ![c] = after[c]]
      /\ saw' = [saw EXCEPT ![c] = 0] /\ UNCHANGED <<stored, touched, qsaw>>
  BY DEF Sync, Goto, Forget, catalog, call, queries
<1>3. /\ \A d \in Callers : saw'[d] <= gen /\ saw'[d] # gen'
      /\ \A q \in Queries : qsaw'[q] <= gen /\ qsaw'[q] # gen'
  BY <1>1, <1>2 DEF Coherent, GenerationIsAhead
<1>4. GenerationIsAhead'
  BY <1>1, <1>2, <1>3 DEF GenerationIsAhead
<1>5. PatchesAreCurrent' /\ QueriesAreCurrent'
  BY <1>3 DEF PatchesAreCurrent, QueriesAreCurrent
<1>6. \A d \in Callers \ {c}, r \in Recs : Owes(d, r) => Owes(d, r)'
  BY <1>1, <1>2 DEF Owes
<1>7. \A s \in Slots : s[2] \in Recs
  BY DEF Slots
<1>8. SnapshotIsCurrent'
  BY <1>2, <1>6, <1>7 DEF SnapshotIsCurrent, OwedByOther
<1> QED
  BY <1>4, <1>5, <1>8 DEF Coherent

(* A caller on its way to the snapshot loads the generation or reads. *)
LEMMA ReadStep ==
  ASSUME TypeOK, Coherent, NEW c \in Callers, PatchLoadGen(c) \/ PatchRead(c)
  PROVE  Coherent'
<1>1. /\ step \in [Callers -> {"idle", "embed", "whole", "drop", "over"} \cup Patching]
      /\ gen \in Nat /\ saw \in [Callers -> Nat] /\ got \in [Callers -> [Slots -> Nat]]
  BY DEF TypeOK
<1>2. /\ UNCHANGED <<stored, gen, cache, touched, qstep, qsaw, qgot>>
      /\ \A d \in Callers \ {c} : step'[d] = step[d] /\ saw'[d] = saw[d] /\ got'[d] = got[d]
      /\ step[c] \in Patching /\ step'[c] \in Patching \cup {"drop"}
  BY <1>1 DEF PatchLoadGen, PatchRead, Goto, Patching, catalog, snapshot, call, queries
<1>3. \A d \in Callers, r \in Recs : Owes(d, r)' = Owes(d, r)
  BY <1>2 DEF Owes
<1>4. /\ \A r \in Recs : Owed(r)' = Owed(r)
      /\ \A d \in Callers, r \in Recs : OwedByOther(d, r)' = OwedByOther(d, r)
  BY <1>3 DEF Owed, OwedByOther
<1>5. \A s \in Slots : s[2] \in Recs
  BY DEF Slots
<1>6. GenerationIsAhead'
  BY <1>1, <1>2 DEF Coherent, GenerationIsAhead, PatchLoadGen, PatchRead
<1>7. PatchesAreCurrent'
  <2> SUFFICES ASSUME NEW d \in Callers, saw'[d] = gen,
                      NEW s \in Slots, s[1] \in ReadAt(step'[d]), s[2] \in touched[d]
               PROVE  got'[d][s] = stored[s] \/ OwedByOther(d, s[2])
    BY <1>2, <1>4, <1>5 DEF PatchesAreCurrent
  <2>1. CASE d # c
    BY <1>2, <2>1 DEF Coherent, PatchesAreCurrent
  <2>2. CASE d = c /\ PatchLoadGen(c)
    BY <1>1, <2>2 DEF PatchLoadGen, Goto, ReadAt
  <2>3. CASE d = c /\ PatchRead(c)
    <3>1. step'[c] # "drop"
      BY <2>3 DEF ReadAt
    <3>2. /\ got'[c] = Reading(got[c], step[c], touched[c])
          /\ step'[c] = IF step[c] = "chunks" THEN "legacy" ELSE "store"
          /\ saw'[c] = saw[c] /\ step[c] \in {"chunks", "legacy"}
      BY <1>1, <2>3, <3>1 DEF PatchRead, Goto
    <3>3. CASE s[1] = step[c]
      BY <2>3, <3>2, <3>3 DEF Reading
    <3>4. CASE s[1] # step[c]
      <4>1. s[1] \in ReadAt(step[c]) /\ got'[c][s] = got[c][s]
        BY <2>3, <3>2, <3>4 DEF Reading, ReadAt
      <4> QED
        BY <2>3, <3>2, <4>1 DEF Coherent, PatchesAreCurrent
    <3> QED
      BY <3>3, <3>4
  <2> QED
    BY <2>1, <2>2, <2>3
<1>8. QueriesAreCurrent' /\ SnapshotIsCurrent'
  BY <1>2, <1>3, <1>4, <1>5 DEF Coherent, QueriesAreCurrent, SnapshotIsCurrent
<1> QED
  BY <1>6, <1>7, <1>8 DEF Coherent

(* A patch gives the snapshot what it read only if the generation stood. *)
LEMMA PatchStoreStep ==
  ASSUME TypeOK, Coherent, NEW c \in Callers, PatchStore(c)
  PROVE  Coherent'
<1>1. step[c] = "store" /\ Sync(c)
  BY DEF PatchStore
<1> SUFFICES ASSUME cache' # Cold, NEW s \in Slots
             PROVE  cache'[s] = stored[s] \/ OwedByOther(c, s[2])
  BY <1>1, SyncStep DEF Patching
<1>2. cache # Cold /\ gen = saw[c] /\ cache' = Patched(c)
  BY DEF PatchStore, Capped
<1>3. CASE s[2] \in touched[c]
  <2>1. s[1] \in ReadAt(step[c])
    BY <1>1 DEF ReadAt, Slots
  <2>2. cache'[s] = got[c][s]
    BY <1>2, <1>3 DEF Patched
  <2> QED
    BY <1>2, <1>3, <2>1, <2>2 DEF Coherent, PatchesAreCurrent
<1>4. CASE s[2] \notin touched[c]
  <2>1. cache'[s] = cache[s]
    BY <1>2, <1>4 DEF Patched
  <2>2. cache[s] = stored[s] \/ \E d \in Callers : Owes(d, s[2])
    BY <1>2 DEF Coherent, SnapshotIsCurrent
  <2> QED
    BY <1>4, <2>1, <2>2 DEF Owes, OwedByOther
<1> QED
  BY <1>3, <1>4

(* A search reads, and stores only if the generation stood. *)
LEMMA QueryStep ==
  ASSUME TypeOK, Coherent, NEW q \in Queries, QueryNext(q)
  PROVE  Coherent'
<1>1. /\ gen \in Nat /\ qstep \in [Queries -> {"idle"} \cup Patching]
      /\ qsaw \in [Queries -> Nat] /\ qgot \in [Queries -> [Slots -> Nat]]
  BY DEF TypeOK
<1>2. UNCHANGED <<stored, gen, step, touched, saw, got>>
  BY DEF QueryNext, QueryMiss, QueryLoadGen, QueryRead, QueryStore, QueryUnchanged,
         catalog, call, patch
<1>3. \A d \in Callers, r \in Recs : Owes(d, r)' = Owes(d, r)
  BY <1>2 DEF Owes
<1>4. /\ \A r \in Recs : Owed(r)' = Owed(r)
      /\ \A d \in Callers, r \in Recs : OwedByOther(d, r)' = OwedByOther(d, r)
  BY <1>3 DEF Owed, OwedByOther
<1>5. \A s \in Slots : s[2] \in Recs
  BY DEF Slots
<1>6. GenerationIsAhead'
  BY <1>1, <1>2 DEF Coherent, GenerationIsAhead, QueryNext, QueryMiss, QueryLoadGen,
                    QueryRead, QueryStore, QueryEnds
<1>7. PatchesAreCurrent'
  BY <1>2, <1>4, <1>5 DEF Coherent, PatchesAreCurrent
<1>8. QueriesAreCurrent'
  <2> SUFFICES ASSUME NEW p \in Queries, qsaw'[p] = gen,
                      NEW s \in Slots, s[1] \in ReadAt(qstep'[p])
               PROVE  qgot'[p][s] = stored[s] \/ Owed(s[2])
    BY <1>2, <1>4, <1>5 DEF QueriesAreCurrent
  <2>1. CASE p # q
    <3>1. qstep'[p] = qstep[p] /\ qsaw'[p] = qsaw[p] /\ qgot'[p] = qgot[p]
      BY <1>1, <2>1 DEF QueryNext, QueryMiss, QueryLoadGen, QueryRead, QueryStore, QueryEnds
    <3> QED
      BY <3>1 DEF Coherent, QueriesAreCurrent
  <2>2. CASE p = q
    <3>1. qstep'[q] \in {"legacy", "store"}
      BY <2>2 DEF ReadAt
    <3>2. QueryRead(q)
      BY <1>1, <3>1 DEF QueryNext, QueryMiss, QueryLoadGen, QueryStore, QueryEnds
    <3>3. /\ qgot'[q] = Reading(qgot[q], qstep[q], Recs) /\ qsaw'[q] = qsaw[q]
          /\ qstep'[q] = IF qstep[q] = "chunks" THEN "legacy" ELSE "store"
          /\ qstep[q] \in {"chunks", "legacy"}
      BY <1>1, <3>1, <3>2 DEF QueryRead, QueryEnds
    <3>4. CASE s[1] = qstep[q]
      BY <1>5, <2>2, <3>3, <3>4 DEF Reading
    <3>5. CASE s[1] # qstep[q]
      <4>1. s[1] \in ReadAt(qstep[q]) /\ qgot'[q][s] = qgot[q][s]
        BY <2>2, <3>3, <3>5 DEF Reading, ReadAt
      <4> QED
        BY <2>2, <3>3, <4>1 DEF Coherent, QueriesAreCurrent
    <3> QED
      BY <3>4, <3>5
  <2> QED
    BY <2>1, <2>2
<1>9. SnapshotIsCurrent'
  <2>1. CASE cache' = cache
    BY <1>2, <1>3, <1>4, <1>5, <2>1 DEF Coherent, SnapshotIsCurrent
  <2>2. CASE cache' # cache
    <3>1. QueryStore(q)
      BY <2>2 DEF QueryNext, QueryMiss, QueryLoadGen, QueryRead
    <3>2. qstep[q] = "store" /\ qsaw[q] = gen /\ cache' = qgot[q]
      BY <2>2, <3>1 DEF QueryStore
    <3>3. \A s \in Slots : s[1] \in ReadAt(qstep[q])
      BY <3>2 DEF ReadAt, Slots
    <3>4. \A s \in Slots : qgot[q][s] = stored[s] \/ Owed(s[2])
      BY <3>2, <3>3 DEF Coherent, QueriesAreCurrent
    <3> QED
      BY <1>2, <1>3, <1>5, <3>2, <3>4 DEF SnapshotIsCurrent, Owed
  <2> QED
    BY <2>1, <2>2
<1> QED
  BY <1>6, <1>7, <1>8, <1>9 DEF Coherent

-----------------------------------------------------------------------------
(* The bound, and the vectors of deleted recordings.                       *)

(* Both hold after every step. *)
LEMMA BoundStep ==
  TypeOK /\ SnapshotIsBounded /\ GoneHaveNoVectors /\ [Next]_vars
    => SnapshotIsBounded' /\ GoneHaveNoVectors'
<1> SUFFICES ASSUME TypeOK, SnapshotIsBounded, GoneHaveNoVectors, [Next]_vars
             PROVE  SnapshotIsBounded' /\ GoneHaveNoVectors'
  OBVIOUS
<1> USE DEF Goto
<1>a. stored \in [Slots -> Nat]
  BY DEF TypeOK
<1>1. CASE UNCHANGED <<rows, stored, cache>>
  BY <1>1 DEF SnapshotIsBounded, Present, GoneHaveNoVectors
<1>2. ASSUME NEW c \in Callers, NEW r \in Recs, NewText(c, r) \/ ListedText(c, r)
      PROVE  UNCHANGED <<rows, stored, cache>>
  BY <1>2 DEF NewText, ListedText, GivenText, snapshot
<1>3. ASSUME NEW c \in Callers,
             UpsertFails(c) \/ PatchLoadGen(c) \/ PatchRead(c)
      PROVE  UNCHANGED <<rows, stored, cache>>
  BY <1>3 DEF UpsertFails, PatchLoadGen, PatchRead, catalog, snapshot
<1>4. ASSUME NEW q \in Queries, QueryMiss(q) \/ QueryLoadGen(q) \/ QueryRead(q)
      PROVE  UNCHANGED <<rows, stored, cache>>
  BY <1>4 DEF QueryMiss, QueryLoadGen, QueryRead, QueryUnchanged, catalog
<1>5. ASSUME NEW c \in Callers, NEW gone \in SUBSET Recs, rows' = rows \ gone,
             stored' = Without(gone), UNCHANGED cache
      PROVE  SnapshotIsBounded' /\ GoneHaveNoVectors'
  BY <1>5 DEF SnapshotIsBounded, Present, GoneHaveNoVectors, Without
<1>6. ASSUME NEW c \in Callers, NEW r \in Recs, Delete(c, r)
      PROVE  SnapshotIsBounded' /\ GoneHaveNoVectors'
  BY <1>5, <1>6 DEF Delete, ThenSync, snapshot
<1>7. ASSUME NEW c \in Callers, NEW gone \in SUBSET rows, DeleteMany(c, gone)
      PROVE  SnapshotIsBounded' /\ GoneHaveNoVectors'
  <2>1. gone \in SUBSET Recs
    BY DEF TypeOK
  <2> QED
    BY <1>5, <1>7, <2>1 DEF DeleteMany, ThenSync, snapshot
<1>8. ASSUME NEW c \in Callers, UpsertChunks(c) \/ UpsertWhole(c)
      PROVE  SnapshotIsBounded' /\ GoneHaveNoVectors'
  <2>1. UNCHANGED <<rows, cache>>
    BY <1>8 DEF UpsertChunks, UpsertWhole, ThenSync, snapshot
  <2>2. PICK t \in {"chunks", "legacy"}, r \in touched[c], v \in {input[c], 0} :
          (r \in rows \/ v = 0) /\ stored' = [stored EXCEPT ![<<t, r>>] = v]
    BY <1>8 DEF UpsertChunks, UpsertWhole
  <2>3. GoneHaveNoVectors'
    BY <1>a, <2>1, <2>2 DEF GoneHaveNoVectors
  <2> QED
    BY <2>1, <2>3 DEF SnapshotIsBounded, Present
<1>9. ASSUME NEW c \in Callers, PatchStore(c) \/ Invalidate(c)
      PROVE  SnapshotIsBounded' /\ GoneHaveNoVectors'
  <2>1. UNCHANGED <<rows, stored>>
    BY <1>9 DEF PatchStore, Invalidate, Sync, catalog
  <2>2. cache' # Cold => Cardinality(Present(cache')) <= MaxCached
    BY <1>9 DEF PatchStore, Invalidate, Capped
  <2> QED
    BY <2>1, <2>2 DEF SnapshotIsBounded, Present, GoneHaveNoVectors
<1>10. ASSUME NEW q \in Queries, QueryStore(q)
       PROVE  SnapshotIsBounded' /\ GoneHaveNoVectors'
  BY <1>10 DEF QueryStore, QueryUnchanged, catalog, SnapshotIsBounded, Present,
               GoneHaveNoVectors
<1>11. CASE UNCHANGED vars
  BY <1>1, <1>11 DEF vars, catalog, snapshot
<1> QED
  BY <1>1, <1>2, <1>3, <1>4, <1>6, <1>7, <1>8, <1>9, <1>10, <1>11
     DEF Next, CallerNext, QueryNext

-----------------------------------------------------------------------------
(* The theorems.                                                           *)

(* The daemon starts with no snapshot and nothing read. *)
LEMMA InitInv == Init => IInv
<1> SUFFICES ASSUME Init PROVE IInv
  OBVIOUS
<1>1. TypeOK
  BY InitTypes
<1>2. GenerationIsAhead /\ PatchesAreCurrent /\ QueriesAreCurrent
  BY DEF Init, GenerationIsAhead, PatchesAreCurrent, QueriesAreCurrent, ReadAt
<1>3. SnapshotIsCurrent /\ SnapshotIsBounded
  BY DEF Init, SnapshotIsCurrent, SnapshotIsBounded
<1>4. GoneHaveNoVectors
  BY DEF Init, GoneHaveNoVectors, Slots
<1> QED
  BY <1>1, <1>2, <1>3, <1>4 DEF IInv, Coherent

(* Every step keeps the invariant. *)
LEMMA StepInv == IInv /\ [Next]_vars => IInv'
<1> SUFFICES ASSUME IInv, [Next]_vars PROVE IInv'
  OBVIOUS
<1>1. TypeOK /\ Coherent
  BY DEF IInv
<1>2. TypeOK' /\ SnapshotIsBounded' /\ GoneHaveNoVectors'
  BY StepTypes, BoundStep DEF IInv
<1>3. ASSUME NEW c \in Callers, CallerNext(c) PROVE Coherent'
  <2> USE DEF Goto, Patching
  <2>1. ASSUME NEW r \in Recs, NewText(c, r) \/ ListedText(c, r) PROVE Coherent'
    <3>1. /\ step' = [step EXCEPT ![c] = "embed"] /\ step[c] = "idle"
          /\ touched' = [touched EXCEPT ![c] = {r}]
          /\ UNCHANGED <<stored, snapshot, patch, queries>>
      BY <2>1 DEF NewText, ListedText, GivenText
    <3>2. \A d \in Callers \ {c} : touched'[d] = touched[d]
      BY <1>1, <3>1 DEF TypeOK
    <3> QED
      BY <1>1, <3>1, <3>2, QuietStep
  <2>2. ASSUME UpsertFails(c) PROVE Coherent'
    <3>1. /\ step' = [step EXCEPT ![c] = IF step[c] = "embed" THEN "whole" ELSE "over"]
          /\ step[c] \in {"embed", "whole"}
          /\ UNCHANGED <<stored, touched, snapshot, patch, queries>>
      BY <2>2 DEF UpsertFails, catalog, call
    <3> QED
      BY <1>1, <3>1, QuietStep
  <2>3. ASSUME NEW gone \in SUBSET Recs, NEW how \in {"load", "drop"}, step[c] = "idle",
               stored' = Without(gone), touched' = [touched EXCEPT ![c] = gone],
               ThenSync(c, how, "over")
        PROVE  Coherent'
    <3>1. /\ \A d \in Callers \ {c} : touched'[d] = touched[d]
          /\ touched'[c] = gone
      BY <1>1, <2>3 DEF TypeOK
    <3>2. \A s \in Slots : stored'[s] # stored[s] => s[2] \in touched'[c]
      BY <2>3, <3>1 DEF Without
    <3> QED
      BY <1>1, <2>3, <3>1, <3>2, CommitStep DEF ThenSync
  <2>4. ASSUME NEW r \in Recs, Delete(c, r) PROVE Coherent'
    BY <2>3, <2>4 DEF Delete
  <2>5. ASSUME NEW gone \in SUBSET rows, DeleteMany(c, gone) PROVE Coherent'
    <3>1. gone \in SUBSET Recs
      BY <1>1 DEF TypeOK
    <3> QED
      BY <2>3, <2>5, <3>1 DEF DeleteMany
  <2>6. ASSUME UpsertChunks(c) \/ UpsertWhole(c) PROVE Coherent'
    <3>1. PICK t \in {"chunks", "legacy"}, r \in touched[c], v \in {input[c], 0} :
            stored' = [stored EXCEPT ![<<t, r>>] = v]
      BY <2>6 DEF UpsertChunks, UpsertWhole
    <3>2. \A s \in Slots : stored'[s] # stored[s] => s[2] \in touched[c]
      BY <1>1, <3>1 DEF TypeOK
    <3>3. /\ step' = [step EXCEPT ![c] = "load"] /\ step[c] \in {"embed", "whole"}
          /\ UNCHANGED <<touched, snapshot, patch, queries>>
      BY <2>6 DEF UpsertChunks, UpsertWhole, ThenSync
    <3> QED
      BY <1>1, <3>2, <3>3, CommitStep
  <2>7. ASSUME PatchLoadGen(c) \/ PatchRead(c) PROVE Coherent'
    BY <1>1, <2>7, ReadStep
  <2>8. ASSUME PatchStore(c) PROVE Coherent'
    BY <1>1, <2>8, PatchStoreStep
  <2>9. ASSUME Invalidate(c) PROVE Coherent'
    BY <1>1, <2>9, SyncStep DEF Invalidate
  <2> QED
    BY <1>3, <2>1, <2>2, <2>4, <2>5, <2>6, <2>7, <2>8, <2>9 DEF CallerNext
<1>4. ASSUME NEW q \in Queries, QueryNext(q) PROVE Coherent'
  BY <1>1, <1>4, QueryStep
<1>5. CASE UNCHANGED vars
  <2>1. UNCHANGED <<stored, gen, cache, step, touched, saw, got, qstep, qsaw, qgot>>
    BY <1>5 DEF vars, catalog, snapshot, call, patch, queries
  <2>2. GenerationIsAhead'
    BY <1>1, <2>1 DEF Coherent, GenerationIsAhead
  <2>3. PatchesAreCurrent'
    BY <1>1, <2>1 DEF Coherent, PatchesAreCurrent, OwedByOther, Owes, ReadAt
  <2>4. QueriesAreCurrent'
    BY <1>1, <2>1 DEF Coherent, QueriesAreCurrent, Owed, Owes, ReadAt
  <2>5. SnapshotIsCurrent'
    BY <1>1, <2>1 DEF Coherent, SnapshotIsCurrent, Owes
  <2> QED
    BY <1>2, <2>2, <2>3, <2>4, <2>5 DEF Coherent, IInv
<1> QED
  BY <1>2, <1>3, <1>4, <1>5 DEF IInv, Next

(* The invariant holds in every reachable state. *)
THEOREM Invariant == Spec => []IInv
BY InitInv, StepInv, PTL DEF Spec

(* The variables stay in their sets. *)
THEOREM TypesHold == Spec => []TypeOK
<1>1. IInv => TypeOK
  BY DEF IInv
<1> QED
  BY <1>1, Invariant, PTL

(* The snapshot has what SQLite has of every recording no call is still on *)
(* its way for.                                                            *)
THEOREM SnapshotCurrent == Spec => []SnapshotIsCurrent
<1>1. IInv => SnapshotIsCurrent
  BY DEF IInv, Coherent
<1> QED
  BY <1>1, Invariant, PTL

(* The snapshot never grows past its bound. *)
THEOREM SnapshotBounded == Spec => []SnapshotIsBounded
<1>1. IInv => SnapshotIsBounded
  BY DEF IInv
<1> QED
  BY <1>1, Invariant, PTL

(* A deleted recording leaves no vectors, in SQLite or in a snapshot its   *)
(* delete has been to.                                                     *)
THEOREM DeletedGone == Spec => []DeletedAreGone
<1>1. IInv => DeletedAreGone
  BY DEF IInv, Coherent, SnapshotIsCurrent, GoneHaveNoVectors, DeletedAreGone
<1> QED
  BY <1>1, Invariant, PTL

=============================================================================
