------------------------ MODULE MeetingDigestProofs ------------------------
(***************************************************************************)
(* OneAtATime and DigestSeesAllTracks hold in every behaviour of           *)
(* MeetingDigest, for any finite set of tracks and any bounds.             *)
(*                                                                         *)
(* OneAtATime says how many tasks generate.  Its inductive form is that    *)
(* the claim stands exactly while one does (ClaimedWhileWorking), that no  *)
(* two do (WorkingIsUnique), and that the task a run spawns when it        *)
(* returns has not been there before (SpawnedOnce).                        *)
(*                                                                         *)
(* DigestSeesAllTracks is about tasks that generate.  It is true of them   *)
(* because it was true when they listed the tracks (ListedLast), and it    *)
(* was true then because the statuses they looked at keep up with the      *)
(* inbox and the worker (StatusKeepsUp), which is where a deletion or a    *)
(* retranscribe comes in.                                                  *)
(***************************************************************************)
EXTENDS MeetingDigest, FiniteSetTheorems, TLAPS

TaskPlaces == {"none", "list", "claim", "generate", "save", "release", "over"}
Working == {"generate", "save", "release"}

Types ==
  /\ status \in [Tracks -> Settled \cup {"Queued", "Transcribing", "gone"}]
  /\ text \in Texts /\ pending \subseteq Tracks /\ runs \in [Tracks -> 0 .. MaxRuns]
  /\ current \in Tracks \cup {NoTrack} /\ ran \in BOOLEAN
  /\ at \in [AutoTasks -> TaskPlaces]
  /\ saw \in [AutoTasks -> Texts]
  /\ digest_in_flight \in BOOLEAN
  /\ deletion \in {"no", "rows", "digest", "over"}
  /\ again \in BOOLEAN

RegenTypes ==
  /\ reAt \in [Regens -> {"none", "generate", "save", "over"}]
  /\ reSaw \in [Regens -> Texts]
  /\ digest \in Texts \cup {NoTrack}

\* The tasks that have generated, or never will.
Spent == {k \in AutoTasks : at[k] \in {"save", "release", "over"}}
AttemptsAreSpent == attempts \in Nat /\ attempts <= Cardinality(Spent)

SpawnedOnce ==
  /\ current # NoTrack => runs[current] \in 1 .. MaxRuns
  /\ \A t \in Tracks, n \in 1 .. MaxRuns :
       n > runs[t] \/ (n = runs[t] /\ current = t) => at[<<t, n>>] = "none"

ClaimedWhileWorking == digest_in_flight <=> \E k \in AutoTasks : at[k] \in Working
WorkingIsUnique ==
  \A k, l \in AutoTasks : at[k] \in Working /\ at[l] \in Working => k = l

Straight == deletion = "no" /\ ~again

StatusKeepsUp ==
  Straight =>
    /\ \A t \in Tracks : status[t] # "gone"
    /\ \A t \in pending : status[t] = "Queued"
    /\ current # NoTrack /\ ~ran => status[current] = "Transcribing"

ListedLast ==
  Straight =>
    \A k \in AutoTasks : at[k] \in Working \cup {"claim"} =>
      saw[k] = text /\ pending = {} /\ (current = NoTrack \/ ran)

IInv ==
  /\ Types
  /\ RegenTypes
  /\ AttemptsAreSpent
  /\ SpawnedOnce
  /\ ClaimedWhileWorking
  /\ WorkingIsUnique
  /\ StatusKeepsUp
  /\ ListedLast

-----------------------------------------------------------------------------
(* Types.                                                                   *)

USE TracksAssumption, BoundAssumption DEF TracksAssumption, BoundAssumption

(* The variables start in their sets. *)
LEMMA InitTypes == Init => Types
<1> SUFFICES ASSUME Init PROVE Types
  OBVIOUS
<1>1. /\ status \in [Tracks -> Settled \cup {"Queued", "Transcribing", "gone"}]
      /\ text \in Texts /\ pending \subseteq Tracks /\ runs \in [Tracks -> 0 .. MaxRuns]
      /\ saw \in [AutoTasks -> Texts]
  BY DEF Init, Texts, NoText
<1>2. at \in [AutoTasks -> TaskPlaces]
  BY DEF Init, TaskPlaces
<1>3. ran \in BOOLEAN /\ digest_in_flight \in BOOLEAN /\ again \in BOOLEAN
  BY Zenon DEF Init
<1>4. QED
  BY <1>1, <1>2, <1>3 DEF Types, Init

(* No step takes a variable out of its set. *)
LEMMA StepTypes == Types /\ [Next]_vars => Types'
<1> SUFFICES ASSUME Types, [Next]_vars PROVE Types'
  OBVIOUS
<1> USE DEF Types, tracks, tasks, regens, OthersUnchanged, TaskUnchanged, RegenUnchanged,
            DeleteUnchanged, Mark, Settled, TaskPlaces
<1>1. ASSUME NEW t \in Tracks, RunStart(t) PROVE Types'
  BY <1>1 DEF RunStart
<1>2. ASSUME NEW t \in Tracks, RunSettles(t) PROVE Types'
  BY <1>2 DEF RunSettles, Texts
<1>3. ASSUME NEW t \in Tracks, RunReturns(t) PROVE Types'
  BY <1>3 DEF RunReturns
<1>4. ASSUME NEW t \in Tracks, RunFails(t) PROVE Types'
  BY <1>4 DEF RunFails, Texts
<1>5. ASSUME NEW t \in Tracks, CancelQueued(t) \/ Retranscribe(t) PROVE Types'
  BY <1>5 DEF CancelQueued, Retranscribe
<1>6. ASSUME NEW t \in Tracks, DeleteRow(t) PROVE Types'
  BY <1>6 DEF DeleteRow, Texts
<1>7. ASSUME NEW k \in AutoTasks, TaskStep(k) PROVE Types'
  <2>1. CASE TaskList(k)
    BY <2>1 DEF TaskList
  <2>2. CASE TaskClaim(k) \/ TaskRelease(k)
    <3>1. NoText \in Texts
      BY DEF NoText, Texts
    <3>2. QED
      BY <2>2, <3>1 DEF TaskClaim, TaskRelease
  <2>3. CASE TaskGenerate(k) \/ TaskSave(k)
    BY <2>3 DEF TaskGenerate, TaskSave
  <2>4. QED
    BY <1>7, <2>1, <2>2, <2>3 DEF TaskStep
<1>8. ASSUME NEW g \in Regens, RegenRequest(g) \/ RegenStep(g) PROVE Types'
  BY <1>8 DEF RegenRequest, RegenStep, RegenGenerate, RegenSave
<1>9. CASE DeleteDigest
  BY <1>9 DEF DeleteDigest
<1>10. CASE UNCHANGED vars
  BY <1>10 DEF vars
<1>11. QED
  BY <1>1, <1>2, <1>3, <1>4, <1>5, <1>6, <1>7, <1>8, <1>9, <1>10 DEF Next, WorkerStep

-----------------------------------------------------------------------------
(* One task at a time.                                                      *)

(* A run spawns its task when it returns, and runs are numbered upwards. *)
LEMMA StepSpawnedOnce ==
  ASSUME Types, SpawnedOnce, [Next]_vars
  PROVE  SpawnedOnce'
<1> USE DEF Types, SpawnedOnce, tracks, tasks, OthersUnchanged
<1>1. ASSUME NEW t \in Tracks, RunStart(t) PROVE SpawnedOnce'
  BY <1>1 DEF RunStart
<1>2. ASSUME NEW t \in Tracks, RunReturns(t) PROVE SpawnedOnce'
  BY <1>2 DEF RunReturns, AutoTasks
<1>3. ASSUME NEW t \in Tracks,
             \/ RunSettles(t) \/ RunFails(t) \/ CancelQueued(t) \/ Retranscribe(t)
             \/ DeleteRow(t)
      PROVE  SpawnedOnce'
  BY <1>3 DEF RunSettles, RunFails, CancelQueued, Retranscribe, DeleteRow, DeleteUnchanged
<1>4. ASSUME NEW k \in AutoTasks, TaskStep(k) PROVE SpawnedOnce'
  <2>1. UNCHANGED <<runs, current>>
    BY <1>4 DEF TaskStep, TaskList, TaskClaim, TaskGenerate, TaskSave, TaskRelease,
                TaskUnchanged
  <2>2. at[k] # "none" /\ \A l \in AutoTasks \ {k} : at'[l] = at[l]
    BY <1>4 DEF TaskStep, TaskList, TaskClaim, TaskGenerate, TaskSave, TaskRelease
  <2>3. QED
    BY <2>1, <2>2 DEF AutoTasks
<1>5. CASE DeleteDigest \/ \E g \in Regens : RegenRequest(g) \/ RegenStep(g)
  BY <1>5 DEF DeleteDigest, DeleteUnchanged, RegenRequest, RegenStep, RegenGenerate,
              RegenSave, RegenUnchanged
<1>6. CASE UNCHANGED vars
  BY <1>6 DEF vars
<1>7. QED
  BY <1>1, <1>2, <1>3, <1>4, <1>5, <1>6 DEF Next, WorkerStep

(* Only the task that finds the claim free begins to generate, and the claim *)
(* is given back by the step that ends it.                                   *)
LEMMA StepClaim ==
  ASSUME Types, SpawnedOnce, ClaimedWhileWorking, WorkingIsUnique, [Next]_vars
  PROVE  (ClaimedWhileWorking /\ WorkingIsUnique)'
<1> DEFINE Goal == ClaimedWhileWorking /\ WorkingIsUnique
<1> USE DEF Types, ClaimedWhileWorking, WorkingIsUnique, Working, tracks, tasks,
            OthersUnchanged, TaskUnchanged
<1>1. ASSUME NEW t \in Tracks, RunReturns(t) PROVE Goal'
  <2>1. <<t, runs[t]>> \in AutoTasks /\ at[<<t, runs[t]>>] = "none"
    BY <1>1 DEF RunReturns, SpawnedOnce, AutoTasks
  <2>2. \A k \in AutoTasks : at'[k] \in Working <=> at[k] \in Working
    BY <1>1, <2>1 DEF RunReturns
  <2>3. QED
    BY <1>1, <2>2 DEF RunReturns
<1>2. ASSUME NEW k \in AutoTasks, TaskList(k) PROVE Goal'
  BY <1>2 DEF TaskList
<1>3. ASSUME NEW k \in AutoTasks, TaskClaim(k) PROVE Goal'
  BY <1>3 DEF TaskClaim
<1>4. ASSUME NEW k \in AutoTasks, TaskGenerate(k) \/ TaskSave(k) PROVE Goal'
  <2>1. at[k] \in Working /\ \A l \in AutoTasks : at'[l] \in Working <=> at[l] \in Working
    BY <1>4 DEF TaskGenerate, TaskSave
  <2>2. QED
    BY <1>4, <2>1 DEF TaskGenerate, TaskSave
<1>5. ASSUME NEW k \in AutoTasks, TaskRelease(k) PROVE Goal'
  BY <1>5 DEF TaskRelease
<1>6. CASE UNCHANGED <<at, digest_in_flight>>
  BY <1>6
<1>7. ASSUME NEW t \in Tracks,
             \/ RunStart(t) \/ RunSettles(t) \/ RunFails(t) \/ CancelQueued(t)
             \/ Retranscribe(t) \/ DeleteRow(t)
      PROVE  UNCHANGED <<at, digest_in_flight>>
  BY <1>7 DEF RunStart, RunSettles, RunFails, CancelQueued, Retranscribe, DeleteRow,
              DeleteUnchanged
<1>8. CASE DeleteDigest \/ \E g \in Regens : RegenRequest(g) \/ RegenStep(g)
  BY <1>6, <1>8 DEF DeleteDigest, DeleteUnchanged, RegenRequest, RegenStep, RegenGenerate,
              RegenSave, RegenUnchanged
<1>9. CASE UNCHANGED vars
  BY <1>6, <1>9 DEF vars
<1>10. QED
  BY <1>1, <1>2, <1>3, <1>4, <1>5, <1>6, <1>7, <1>8, <1>9
     DEF Next, WorkerStep, TaskStep

-----------------------------------------------------------------------------
(* What is left of type correctness.                                        *)

(* A digest is made from texts that were listed. *)
LEMMA StepRegenTypes == Types /\ RegenTypes /\ [Next]_vars => RegenTypes'
<1> SUFFICES ASSUME Types, RegenTypes, [Next]_vars PROVE RegenTypes'
  OBVIOUS
<1> USE DEF RegenTypes, Types, tracks, tasks, regens, OthersUnchanged
<1>1. ASSUME NEW t \in Tracks, WorkerStep(t) \/ CancelQueued(t) \/ Retranscribe(t)
      PROVE  RegenTypes'
  BY <1>1 DEF WorkerStep, RunStart, RunSettles, RunReturns, RunFails, CancelQueued, Retranscribe
<1>2. ASSUME NEW t \in Tracks, DeleteRow(t) \/ DeleteDigest PROVE RegenTypes'
  BY <1>2 DEF DeleteRow, DeleteDigest, DeleteUnchanged
<1>3. ASSUME NEW k \in AutoTasks, TaskStep(k) PROVE RegenTypes'
  BY <1>3 DEF TaskStep, TaskList, TaskClaim, TaskGenerate, TaskSave, TaskRelease, TaskUnchanged
<1>4. ASSUME NEW g \in Regens, RegenRequest(g) \/ RegenStep(g) PROVE RegenTypes'
  <2>1. NoText \in Texts
    BY DEF NoText, Texts
  <2>2. QED
    BY <1>4, <2>1 DEF RegenRequest, RegenStep, RegenGenerate, RegenSave
<1>5. CASE DeleteDigest
  BY <1>5 DEF DeleteDigest, DeleteUnchanged
<1>6. CASE UNCHANGED vars
  BY <1>6 DEF vars
<1>7. QED
  BY <1>1, <1>2, <1>3, <1>4, <1>5, <1>6 DEF Next

(* There is one task per run, so there are finitely many. *)
LEMMA TasksAreFinite == IsFiniteSet(AutoTasks)
<1>1. IsFiniteSet(1 .. MaxRuns)
  BY FS_Interval
<1>2. QED
  BY <1>1, FS_Product DEF AutoTasks

(* A task generates at most once, and none comes back. *)
LEMMA StepAttemptsAreSpent ==
  ASSUME Types, SpawnedOnce, AttemptsAreSpent, [Next]_vars
  PROVE  AttemptsAreSpent'
<1>1. IsFiniteSet(Spent) /\ IsFiniteSet(Spent')
  BY TasksAreFinite, FS_Subset DEF Spent
<1>2. ASSUME Spent \subseteq Spent', UNCHANGED attempts PROVE AttemptsAreSpent'
  <2>1. Cardinality(Spent) \in Nat /\ Cardinality(Spent') \in Nat
    BY <1>1, FS_CardinalityType
  <2>2. Cardinality(Spent) <= Cardinality(Spent')
    BY <1>1, <1>2, FS_Subset
  <2>3. QED
    BY <1>2, <2>1, <2>2 DEF AttemptsAreSpent
<1>3. ASSUME NEW t \in Tracks, RunReturns(t) PROVE AttemptsAreSpent'
  <2>1. <<t, runs[t]>> \in AutoTasks /\ at[<<t, runs[t]>>] = "none"
    BY <1>3 DEF RunReturns, Types, SpawnedOnce, AutoTasks
  <2>2. Spent \subseteq Spent'
    BY <1>3, <2>1 DEF RunReturns, Types, Spent
  <2>3. QED
    BY <1>2, <1>3, <2>2 DEF RunReturns
<1>4. ASSUME NEW k \in AutoTasks, TaskGenerate(k) PROVE AttemptsAreSpent'
  <2>1. k \notin Spent /\ Spent' = Spent \cup {k}
    BY <1>4 DEF TaskGenerate, Types, Spent
  <2>2. Cardinality(Spent') = Cardinality(Spent) + 1
    BY <1>1, <2>1, FS_AddElement
  <2>3. QED
    BY <1>1, <1>4, <2>2, FS_CardinalityType DEF TaskGenerate, AttemptsAreSpent
<1>5. ASSUME NEW k \in AutoTasks,
             TaskList(k) \/ TaskClaim(k) \/ TaskSave(k) \/ TaskRelease(k)
      PROVE  AttemptsAreSpent'
  <2>1. Spent \subseteq Spent' /\ UNCHANGED attempts
    BY <1>5 DEF TaskList, TaskClaim, TaskSave, TaskRelease, Types, Spent
  <2>2. QED
    BY <1>2, <2>1
<1>6. CASE UNCHANGED <<at, attempts>>
  BY <1>2, <1>6 DEF Spent
<1>7. ASSUME NEW t \in Tracks,
             \/ RunStart(t) \/ RunSettles(t) \/ RunFails(t) \/ CancelQueued(t)
             \/ Retranscribe(t) \/ DeleteRow(t)
      PROVE  UNCHANGED <<at, attempts>>
  BY <1>7 DEF RunStart, RunSettles, RunFails, CancelQueued, Retranscribe, DeleteRow,
              DeleteUnchanged, OthersUnchanged, tasks
<1>8. CASE DeleteDigest \/ \E g \in Regens : RegenRequest(g) \/ RegenStep(g)
  BY <1>6, <1>8 DEF DeleteDigest, DeleteUnchanged, RegenRequest, RegenStep, RegenGenerate,
              RegenSave, RegenUnchanged, tasks
<1>9. CASE UNCHANGED vars
  BY <1>6, <1>9 DEF vars, tasks
<1>10. QED
  BY <1>3, <1>4, <1>5, <1>6, <1>7, <1>8, <1>9 DEF Next, WorkerStep, TaskStep

-----------------------------------------------------------------------------
(* Digests of the whole meeting.                                            *)

(* While nothing is deleted or retranscribed, a track that is queued or     *)
(* running has a status that says so.                                       *)
LEMMA StepStatusKeepsUp ==
  ASSUME Types, StatusKeepsUp, [Next]_vars
  PROVE  StatusKeepsUp'
<1> USE DEF Types, StatusKeepsUp, Straight, tracks, tasks, Settled, Mark, OthersUnchanged
<1>1. ASSUME NEW t \in Tracks, RunStart(t) PROVE StatusKeepsUp'
  BY <1>1 DEF RunStart
<1>2. ASSUME NEW t \in Tracks, RunSettles(t) PROVE StatusKeepsUp'
  BY <1>2 DEF RunSettles
<1>3. ASSUME NEW t \in Tracks, RunReturns(t) PROVE StatusKeepsUp'
  BY <1>3 DEF RunReturns
<1>4. ASSUME NEW t \in Tracks, RunFails(t) PROVE StatusKeepsUp'
  BY <1>4 DEF RunFails
<1>5. ASSUME NEW t \in Tracks, CancelQueued(t) PROVE StatusKeepsUp'
  BY <1>5 DEF CancelQueued
<1>6. ASSUME NEW t \in Tracks, Retranscribe(t) \/ DeleteRow(t) PROVE StatusKeepsUp'
  BY <1>6 DEF Retranscribe, DeleteRow
<1>7. ASSUME NEW k \in AutoTasks, TaskStep(k) PROVE StatusKeepsUp'
  BY <1>7 DEF TaskStep, TaskList, TaskClaim, TaskGenerate, TaskSave, TaskRelease, TaskUnchanged
<1>8. CASE DeleteDigest \/ \E g \in Regens : RegenRequest(g) \/ RegenStep(g)
  BY <1>8 DEF DeleteDigest, DeleteUnchanged, RegenRequest, RegenStep, RegenGenerate,
              RegenSave, RegenUnchanged
<1>9. CASE UNCHANGED vars
  BY <1>9 DEF vars
<1>10. QED
  BY <1>1, <1>2, <1>3, <1>4, <1>5, <1>6, <1>7, <1>8, <1>9 DEF Next, WorkerStep

(* Once a task has listed settled tracks, nothing is queued or running that *)
(* could write a transcript.                                                *)
LEMMA StepListedLast ==
  ASSUME Types, SpawnedOnce, StatusKeepsUp, ListedLast, [Next]_vars
  PROVE  ListedLast'
<1> USE DEF Types, ListedLast, Straight, Working, tracks, tasks, OthersUnchanged
<1>1. ASSUME NEW t \in Tracks, RunStart(t) PROVE ListedLast'
  BY <1>1 DEF RunStart
<1>2. ASSUME NEW t \in Tracks, RunSettles(t) \/ RunFails(t) PROVE ListedLast'
  BY <1>2 DEF RunSettles, RunFails
<1>3. ASSUME NEW t \in Tracks, RunReturns(t) PROVE ListedLast'
  BY <1>3 DEF RunReturns
<1>4. ASSUME NEW t \in Tracks, CancelQueued(t) \/ Retranscribe(t) \/ DeleteRow(t)
      PROVE  ListedLast'
  BY <1>4 DEF CancelQueued, Retranscribe, DeleteRow, DeleteUnchanged
<1>5. ASSUME NEW k \in AutoTasks, TaskList(k) PROVE ListedLast'
  <2>1. CASE at'[k] = "claim" /\ Straight
    <3>1. \A t \in Tracks : status[t] \in Settled
      BY <1>5, <2>1 DEF TaskList, TaskUnchanged, Rows, StatusKeepsUp, TaskPlaces
    <3>2. pending = {} /\ (current = NoTrack \/ ran)
      BY <2>1, <3>1 DEF StatusKeepsUp, Settled
    <3>3. QED
      BY <1>5, <2>1, <3>2 DEF TaskList, TaskUnchanged
  <2>2. CASE ~(at'[k] = "claim" /\ Straight)
    BY <1>5, <2>2 DEF TaskList, TaskUnchanged
  <2>3. QED
    BY <2>1, <2>2
<1>6. ASSUME NEW k \in AutoTasks,
             TaskClaim(k) \/ TaskGenerate(k) \/ TaskSave(k) \/ TaskRelease(k)
      PROVE  ListedLast'
  BY <1>6 DEF TaskClaim, TaskGenerate, TaskSave, TaskRelease, TaskUnchanged
<1>7. CASE DeleteDigest \/ \E g \in Regens : RegenRequest(g) \/ RegenStep(g)
  BY <1>7 DEF DeleteDigest, DeleteUnchanged, RegenRequest, RegenStep, RegenGenerate,
              RegenSave, RegenUnchanged
<1>8. CASE UNCHANGED vars
  BY <1>8 DEF vars
<1>9. QED
  BY <1>1, <1>2, <1>3, <1>4, <1>5, <1>6, <1>7, <1>8 DEF Next, WorkerStep, TaskStep

-----------------------------------------------------------------------------
(* The theorems.                                                            *)

(* The invariant holds at first: nothing has run and no task is there. *)
LEMMA InitIInv == Init => IInv
<1> SUFFICES ASSUME Init PROVE IInv
  OBVIOUS
<1>1. SpawnedOnce /\ ClaimedWhileWorking /\ WorkingIsUnique /\ ListedLast
  BY DEF Init, SpawnedOnce, ClaimedWhileWorking, WorkingIsUnique, ListedLast, Working, AutoTasks
<1>2. StatusKeepsUp
  BY DEF Init, StatusKeepsUp
<1>3. RegenTypes
  BY DEF Init, RegenTypes, Texts, NoText
<1>4. AttemptsAreSpent
  <2>1. IsFiniteSet(Spent)
    BY TasksAreFinite, FS_Subset DEF Spent
  <2>2. QED
    BY <2>1, FS_CardinalityType DEF Init, AttemptsAreSpent
<1>5. QED
  BY <1>1, <1>2, <1>3, <1>4, InitTypes DEF IInv

(* The invariant is inductive. *)
THEOREM Invariant == Spec => []IInv
<1>1. IInv /\ [Next]_vars => IInv'
  BY StepTypes, StepRegenTypes, StepAttemptsAreSpent, StepSpawnedOnce, StepClaim, StepStatusKeepsUp, StepListedLast DEF IInv
<1>2. QED
  BY <1>1, InitIInv, PTL DEF Spec

(* Type correctness.  Its hard part is the bound on the generations: each   *)
(* run brings one task and each task generates once, whether it fails or not.*)
THEOREM TypeCorrect == Spec => []TypeOK
<1>1. ASSUME IInv PROVE TypeOK
  <2>1. IsFiniteSet(AutoTasks) /\ Cardinality(AutoTasks) \in Nat
    BY TasksAreFinite, FS_CardinalityType
  <2>2. IsFiniteSet(Spent) /\ Cardinality(Spent) \in Nat
    BY TasksAreFinite, FS_Subset, FS_CardinalityType DEF Spent
  <2>3. Cardinality(Spent) <= Cardinality(AutoTasks)
    BY TasksAreFinite, FS_Subset DEF Spent
  <2>4. attempts \in 0 .. Cardinality(AutoTasks)
    BY <1>1, <2>1, <2>2, <2>3 DEF IInv, AttemptsAreSpent
  <2>5. QED
    BY <1>1, <2>4 DEF IInv, Types, RegenTypes, TypeOK, TaskPlaces
<1>2. QED
  BY <1>1, Invariant, PTL

(* However many tracks a meeting has and however its tasks interleave with  *)
(* each other, with cancels, retranscribes and a deletion, at most one task *)
(* generates, and digest_in_flight says whether one does.                   *)
THEOREM OneTaskAtATime == Spec => []OneAtATime
<1>1. ASSUME IInv PROVE OneAtATime
  <2>1. CASE Generating = {}
    BY <1>1, <2>1, FS_EmptySet DEF IInv, ClaimedWhileWorking, Working, Generating, OneAtATime
  <2>2. CASE Generating # {}
    <3>1. PICK k \in AutoTasks : Generating = {k} /\ at[k] \in Working
      BY <1>1, <2>2 DEF IInv, WorkingIsUnique, Working, Generating
    <3>2. digest_in_flight = TRUE
      BY <1>1, <3>1 DEF IInv, Types, ClaimedWhileWorking
    <3>3. QED
      BY <3>1, <3>2, FS_Singleton DEF OneAtATime
  <2>3. QED
    BY <2>1, <2>2
<1>2. QED
  BY <1>1, Invariant, PTL

(* Whatever the number of tracks, a digest in the making is of all of them, *)
(* unless a retranscribe or a deletion came in.                             *)
THEOREM DigestIsOfTheWhole == Spec => []DigestSeesAllTracks
<1>1. IInv => DigestSeesAllTracks
  BY DEF IInv, ListedLast, Straight, Working, Generating, DigestSeesAllTracks
<1>2. QED
  BY <1>1, Invariant, PTL
=============================================================================
