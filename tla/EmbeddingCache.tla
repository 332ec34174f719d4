--------------------------- MODULE EmbeddingCache ---------------------------
(***************************************************************************)
(* The vectors of semantic search (phoneme-core/src/catalog/embeddings.rs) *)
(* and the snapshot of them kept in memory.  Every call that changes a     *)
(* vector commits to SQLite first and brings the snapshot up to date       *)
(* afterwards, by patching one recording into it or by dropping it; a      *)
(* search that finds no snapshot reads both tables and stores what it      *)
(* read.  A generation counter, bumped under the write lock of the         *)
(* snapshot, is all that orders these.                                     *)
(*                                                                         *)
(* A vector is the number of the text it was made from, 0 if there is      *)
(* none.  Left out: what a vector holds, ranking, more than one chunk per  *)
(* recording, and the ANN index, which is not compiled by default.         *)
(***************************************************************************)
EXTENDS Integers, FiniteSets

CONSTANTS Recs,       \* recordings
          Callers,    \* tasks that change vectors, one operation each
          Queries,    \* tasks that search, again and again
          Cold,       \* no snapshot
          MaxCached,  \* MAX_CACHED_VECTORS
          MaxText     \* bound: versions of a recording's text

Slots == {"chunks", "legacy"} \X Recs      \* embedding_chunks, embeddings

ASSUME BoundAssumption == MaxText \in Nat \ {0} /\ MaxCached \in Nat
ASSUME ColdAssumption == Cold \notin [Slots -> Nat]

VARIABLES
  rows,       \* catalog: recordings that have a row
  text,       \* catalog: version of each one's text
  stored,     \* catalog: the text each vector was made from
  gen,        \* embedding_cache_gen
  cache,      \* embedding_cache
  step,       \* of each caller: what it does next
  after,      \* what it does when the snapshot is up to date
  touched,    \* the recordings it works on
  input,      \* the text it was given to embed
  saw, got,   \* the generation it loaded and the vectors it read
  qstep, qsaw, qgot  \* the same of each search

catalog == <<rows, text, stored>>
snapshot == <<gen, cache>>
call == <<after, touched, input>>
patch == <<saw, got>>
queries == <<qstep, qsaw, qgot>>
vars == <<catalog, snapshot, step, call, patch, queries>>

NoVectors == [s \in Slots |-> 0]
Patching == {"load", "chunks", "legacy", "store"}

TypeOK ==
  /\ rows \subseteq Recs /\ text \in [Recs -> Nat] /\ stored \in [Slots -> Nat]
  /\ gen \in Nat /\ cache \in [Slots -> Nat] \cup {Cold}
  /\ step \in [Callers -> {"idle", "embed", "whole", "drop", "over"} \cup Patching]
  /\ after \in [Callers -> {"whole", "over"}]
  /\ touched \in [Callers -> SUBSET Recs] /\ input \in [Callers -> Nat]
  /\ saw \in [Callers -> Nat] /\ got \in [Callers -> [Slots -> Nat]]
  /\ qstep \in [Queries -> {"idle"} \cup Patching]
  /\ qsaw \in [Queries -> Nat] /\ qgot \in [Queries -> [Slots -> Nat]]
  \* what embeds and what patches does so for one recording
  /\ \A c \in Callers :
       step[c] \in {"embed", "whole"} \cup Patching \/ after[c] = "whole" =>
         \E r \in Recs : touched[c] = {r}

\* A library that was embedded, or was not; a daemon starts with no snapshot.
Init ==
  /\ rows = Recs /\ text = [r \in Recs |-> 1] /\ stored \in {NoVectors, [s \in Slots |-> 1]}
  /\ gen = 0 /\ cache = Cold
  /\ step = [c \in Callers |-> "idle"] /\ after = [c \in Callers |-> "over"]
  /\ touched = [c \in Callers |-> {}] /\ input = [c \in Callers |-> 0]
  /\ saw = [c \in Callers |-> 0] /\ got = [c \in Callers |-> NoVectors]
  /\ qstep = [q \in Queries |-> "idle"]
  /\ qsaw = [q \in Queries |-> 0] /\ qgot = [q \in Queries |-> NoVectors]

-----------------------------------------------------------------------------
(* Who asks for vectors: embed_and_store is given a text.                  *)

Goto(c, s) == step' = [step EXCEPT ![c] = s]

GivenText(c, r, v) ==
  /\ touched' = [touched EXCEPT ![c] = {r}] /\ input' = [input EXCEPT ![c] = v]
  /\ Goto(c, "embed")
  /\ UNCHANGED <<stored, snapshot, after, patch, queries>>

\* An edit, a re-run or the pipeline has just written the text.
NewText(c, r) ==
  /\ step[c] = "idle" /\ r \in rows /\ text[r] < MaxText
  /\ text' = [text EXCEPT ![r] = @ + 1]
  /\ GivenText(c, r, text'[r]) /\ UNCHANGED rows

\* Re-embed and backfill list every text once and embed them one by one.
ListedText(c, r) ==
  /\ step[c] = "idle" /\ r \in rows
  /\ GivenText(c, r, text[r]) /\ UNCHANGED <<rows, text>>

-----------------------------------------------------------------------------
(* The calls: a commit, then the snapshot.                                 *)

ThenSync(c, how, next) ==
  /\ Goto(c, how) /\ after' = [after EXCEPT ![c] = next]
  /\ UNCHANGED <<input, snapshot, patch, queries>>

\* upsert_chunk_embeddings: one transaction; a blank text leaves no chunks.
\* The row may be gone: then inserting fails, deleting does not.
UpsertChunks(c) ==
  /\ step[c] = "embed"
  /\ \E r \in touched[c], v \in {input[c], 0} :
       /\ r \in rows \/ v = 0
       /\ stored' = [stored EXCEPT ![<<"chunks", r>>] = v]
  /\ ThenSync(c, "load", "whole") /\ UNCHANGED <<rows, text, touched>>

\* Mutant: the vector is written though the row is gone.
UnkeyedUpsertWhole(c) ==
  /\ step[c] = "whole"
  /\ \E r \in touched[c] : stored' = [stored EXCEPT ![<<"legacy", r>>] = input[c]]
  /\ ThenSync(c, "load", "over") /\ UNCHANGED <<rows, text, touched>>

\* upsert_embedding.
UpsertWhole(c) ==
  /\ step[c] = "whole"
  /\ \E r \in touched[c] \cap rows : stored' = [stored EXCEPT ![<<"legacy", r>>] = input[c]]
  /\ ThenSync(c, "load", "over") /\ UNCHANGED <<rows, text, touched>>

\* The model or the write failed: logged, and the next step follows.
UpsertFails(c) ==
  /\ step[c] \in {"embed", "whole"}
  /\ Goto(c, IF step[c] = "embed" THEN "whole" ELSE "over")
  /\ UNCHANGED <<catalog, snapshot, call, patch, queries>>

Without(gone) == [s \in Slots |-> IF s[2] \in gone THEN 0 ELSE stored[s]]

\* delete: the vectors go with the row, by the foreign key.
Delete(c, r) ==
  /\ step[c] = "idle"
  /\ rows' = rows \ {r} /\ stored' = Without({r})
  /\ touched' = [touched EXCEPT ![c] = {r}]
  /\ ThenSync(c, "load", "over") /\ UNCHANGED text

\* The retention sweep, or clear_all_recordings before a rebuild.
DeleteMany(c, gone) ==
  /\ step[c] = "idle"
  /\ rows' = rows \ gone /\ stored' = Without(gone)
  /\ touched' = [touched EXCEPT ![c] = gone]
  /\ ThenSync(c, "drop", "over") /\ UNCHANGED text

-----------------------------------------------------------------------------
(* patch_recording_in_cache and invalidate_embedding_cache.                *)

PatchLoadGen(c) ==
  /\ step[c] = "load"
  /\ saw' = [saw EXCEPT ![c] = gen] /\ Goto(c, "chunks")
  /\ UNCHANGED <<catalog, snapshot, call, got, queries>>

\* A reader keeps what it read of one table while it reads the other.
Reading(old, table, of) ==
  [s \in Slots |-> IF s[1] = table /\ s[2] \in of THEN stored[s] ELSE old[s]]

\* Either read may fail.
PatchRead(c) ==
  /\ step[c] \in {"chunks", "legacy"}
  /\ \/ /\ got' = [got EXCEPT ![c] = Reading(@, step[c], touched[c])]
        /\ Goto(c, IF step[c] = "chunks" THEN "legacy" ELSE "store")
     \/ Goto(c, "drop") /\ got' = [got EXCEPT ![c] = NoVectors]
  /\ UNCHANGED <<catalog, snapshot, call, saw, queries>>

Present(vectors) == {s \in Slots : vectors[s] # 0}
Capped(vectors) == IF Cardinality(Present(vectors)) <= MaxCached THEN vectors ELSE Cold
Patched(c) == [s \in Slots |-> IF s[2] \in touched[c] THEN got[c][s] ELSE cache[s]]

Forget(c) == saw' = [saw EXCEPT ![c] = 0] /\ got' = [got EXCEPT ![c] = NoVectors]
Sync(c) ==
  /\ gen' = gen + 1 /\ Goto(c, after[c]) /\ Forget(c)
  /\ UNCHANGED <<catalog, call, queries>>

\* Mutant: the bound is not looked at.
UncappedPatchStore(c) ==
  /\ step[c] = "store"
  /\ cache' = IF cache = Cold \/ gen # saw[c] THEN Cold ELSE Patched(c)
  /\ Sync(c)

\* Mutant: no look at whether the generation moved since the reads.
TrustingPatchStore(c) ==
  /\ step[c] = "store"
  /\ cache' = IF cache = Cold THEN Cold ELSE Capped(Patched(c))
  /\ Sync(c)

\* Under the write lock.
PatchStore(c) ==
  /\ step[c] = "store"
  /\ cache' = IF cache = Cold \/ gen # saw[c] THEN Cold ELSE Capped(Patched(c))
  /\ Sync(c)

Invalidate(c) ==
  /\ step[c] = "drop"
  /\ cache' = Cold
  /\ Sync(c)

-----------------------------------------------------------------------------
(* embedding_corpus.  A search that finds a snapshot ranks with it and     *)
(* changes nothing.                                                        *)

QueryUnchanged == UNCHANGED <<catalog, gen, step, call, patch>>

QueryEnds(q) ==
  /\ qstep' = [qstep EXCEPT ![q] = "idle"] /\ qsaw' = [qsaw EXCEPT ![q] = 0]
  /\ qgot' = [qgot EXCEPT ![q] = NoVectors]

QueryMiss(q) ==
  /\ qstep[q] = "idle" /\ cache = Cold
  /\ qstep' = [qstep EXCEPT ![q] = "load"]
  /\ QueryUnchanged /\ UNCHANGED <<cache, qsaw, qgot>>

QueryLoadGen(q) ==
  /\ qstep[q] = "load"
  /\ qsaw' = [qsaw EXCEPT ![q] = gen] /\ qstep' = [qstep EXCEPT ![q] = "chunks"]
  /\ QueryUnchanged /\ UNCHANGED <<cache, qgot>>

\* A failed read fails the search.
QueryRead(q) ==
  /\ qstep[q] \in {"chunks", "legacy"}
  /\ \/ /\ qgot' = [qgot EXCEPT ![q] = Reading(@, qstep[q], Recs)]
        /\ qstep' = [qstep EXCEPT ![q] = IF @ = "chunks" THEN "legacy" ELSE "store"]
        /\ UNCHANGED qsaw
     \/ QueryEnds(q)
  /\ QueryUnchanged /\ UNCHANGED cache

\* store_corpus_if_current, under the write lock.
QueryStore(q) ==
  /\ qstep[q] = "store"
  /\ cache' = IF qsaw[q] = gen /\ Cardinality(Present(qgot[q])) <= MaxCached
                THEN qgot[q] ELSE cache
  /\ QueryEnds(q) /\ QueryUnchanged

CallerNext(c) ==
  \/ \E r \in Recs : NewText(c, r) \/ ListedText(c, r) \/ Delete(c, r)
  \/ \E gone \in SUBSET rows : DeleteMany(c, gone)
  \/ UpsertChunks(c) \/ UpsertWhole(c) \/ UpsertFails(c)
  \/ PatchLoadGen(c) \/ PatchRead(c) \/ PatchStore(c) \/ Invalidate(c)
QueryNext(q) == QueryMiss(q) \/ QueryLoadGen(q) \/ QueryRead(q) \/ QueryStore(q)
Next == (\E c \in Callers : CallerNext(c)) \/ (\E q \in Queries : QueryNext(q))

Spec == Init /\ [][Next]_vars

-----------------------------------------------------------------------------
(* What holds.                                                             *)

\* c has committed a change and not yet told the snapshot.
Owes(c, r) == r \in touched[c] /\ step[c] \in Patching \cup {"drop"}

\* A search never ranks with a vector that is not the stored one once the call
\* that changed it has returned: whatever the snapshot has of a recording is
\* what SQLite has, unless a call that touched the recording is still on its
\* way to the snapshot ("a stale vector that ranks wrongly is never an
\* acceptable outcome", catalog/mod.rs).
SnapshotIsCurrent ==
  cache # Cold =>
    \A s \in Slots : cache[s] = stored[s] \/ \E c \in Callers : Owes(c, s[2])

\* The snapshot never grows past its bound, so a library of any size costs a
\* bounded amount of memory.
SnapshotIsBounded == cache # Cold => Cardinality(Present(cache)) <= MaxCached

\* The vectors of a deleted recording are gone, from SQLite at once and from
\* what a search ranks with when the delete has returned, though a task may
\* have been embedding it meanwhile.
DeletedAreGone ==
  \A s \in Slots : s[2] \notin rows =>
    /\ stored[s] = 0
    /\ cache # Cold => cache[s] = 0 \/ \E c \in Callers : Owes(c, s[2])

=============================================================================
