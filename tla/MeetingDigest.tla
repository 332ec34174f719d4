--------------------------- MODULE MeetingDigest ---------------------------
(***************************************************************************)
(* The automatic digest of a meeting (bin/phoneme-daemon/src/              *)
(* queue_worker.rs): the serial worker runs the tracks, and after a run    *)
(* that returned Ok it spawns a task that generates the digest if every    *)
(* track has settled.  Beside it: queued tracks are cancelled, settled     *)
(* ones retranscribed, the digest is regenerated on demand (exec.rs), and  *)
(* the session is deleted (ipc_handler/mod.rs).                            *)
(*                                                                         *)
(* A transcript is the number of the run that wrote it.  Left out: how a   *)
(* run fares inside and the gap between an inbox write and the status that *)
(* goes with it (module Pipeline), what the digest says, other meetings,   *)
(* errors of the catalog, and DeleteRecording of single tracks.            *)
(***************************************************************************)
EXTENDS Integers, FiniteSets

CONSTANTS Tracks,      \* tracks of the meeting
          NoTrack,     \* no track, no digest
          MaxRuns,     \* bound: pipeline runs of one track
          MaxRegens,   \* bound: RerunMeetingDigest requests
          Again,       \* tracks the user may have transcribed again
          MayFail,     \* tracks whose runs may fail or be cancelled; digests
                       \* may fail if there is one
          MayDelete    \* whether the session may be deleted

ASSUME TracksAssumption == IsFiniteSet(Tracks) /\ NoTrack \notin Tracks
ASSUME BoundAssumption ==
  /\ MaxRuns \in Nat \ {0} /\ MaxRegens \in Nat /\ MayDelete \in BOOLEAN
  /\ Again \cup MayFail \subseteq Tracks

\* One spawned task per run, and one per request.
AutoTasks == Tracks \X (1 .. MaxRuns)
Regens == 1 .. MaxRegens
Texts == [Tracks -> 0 .. MaxRuns]

VARIABLES
  status,    \* catalog: status of each track, "gone" when its row is deleted
  text,      \* catalog: its transcript, 0 if none
  pending,   \* inbox: tracks with a queued item
  runs,      \* runs of it begun
  current,   \* the track the worker is running
  ran,       \* its status is final, pipeline::run is about to return Ok
  at, saw,   \* of each task: its next step, the transcripts it listed (none
             \* when it has not listed them or is over)
  reAt, reSaw,  \* the same for the requests
  digest_in_flight,  \* whether the meeting's id is in the set
  digest,    \* catalog: the transcripts the stored digest is made from
  deletion,  \* DeleteSession: next step
  attempts,  \* observation only: digests the tasks have generated
  again      \* observation only: a track was retranscribed

tracks == <<status, text, pending, runs, current, ran>>
tasks == <<at, saw>>
regens == <<reAt, reSaw>>
vars == <<tracks, tasks, regens, digest_in_flight, digest, deletion, attempts, again>>

Settled == {"Done", "Failed", "Cancelled"}
NoText == [t \in Tracks |-> 0]

TypeOK ==
  /\ status \in [Tracks -> Settled \cup {"Queued", "Transcribing", "gone"}]
  /\ text \in Texts /\ pending \subseteq Tracks /\ runs \in [Tracks -> 0 .. MaxRuns]
  /\ current \in Tracks \cup {NoTrack} /\ ran \in BOOLEAN
  /\ at \in [AutoTasks -> {"none", "list", "claim", "generate", "save", "release", "over"}]
  /\ saw \in [AutoTasks -> Texts]
  /\ reAt \in [Regens -> {"none", "generate", "save", "over"}] /\ reSaw \in [Regens -> Texts]
  /\ digest_in_flight \in BOOLEAN
  /\ digest \in Texts \cup {NoTrack}
  /\ deletion \in {"no", "rows", "digest", "over"}
  /\ attempts \in 0 .. Cardinality(AutoTasks) /\ again \in BOOLEAN

Init ==
  /\ status = [t \in Tracks |-> "Queued"] /\ text = NoText
  /\ pending = Tracks /\ runs = [t \in Tracks |-> 0] /\ current = NoTrack /\ ran = FALSE
  /\ at = [k \in AutoTasks |-> "none"] /\ saw = [k \in AutoTasks |-> NoText]
  /\ reAt = [g \in Regens |-> "none"] /\ reSaw = [g \in Regens |-> NoText]
  /\ digest_in_flight = FALSE /\ digest = NoTrack /\ deletion = "no"
  /\ attempts = 0 /\ again = FALSE

-----------------------------------------------------------------------------
(* Runs.                                                                   *)

Mark(t, s) == status' = IF status[t] = "gone" THEN status ELSE [status EXCEPT ![t] = s]
OthersUnchanged == UNCHANGED <<tasks, regens, digest_in_flight, digest, deletion, attempts>>

RunStart(t) ==
  /\ current = NoTrack /\ t \in pending /\ runs[t] < MaxRuns
  /\ current' = t /\ runs' = [runs EXCEPT ![t] = @ + 1] /\ pending' = pending \ {t}
  /\ Mark(t, "Transcribing")
  /\ UNCHANGED <<text, ran, again>> /\ OthersUnchanged

\* The run has written its transcript and its final status, or was cancelled.
RunSettles(t) ==
  /\ current = t /\ ~ran
  /\ ran' = TRUE
  /\ \/ /\ Mark(t, "Done")
        /\ text' = IF status[t] = "gone" THEN text ELSE [text EXCEPT ![t] = runs[t]]
     \/ t \in MayFail /\ Mark(t, "Cancelled") /\ UNCHANGED text
  /\ UNCHANGED <<pending, runs, current, again>> /\ OthersUnchanged

\* Mutant: the digest is not hooked to the end of the run.
UnhookedRunReturns(t) ==
  /\ current = t /\ ran
  /\ current' = NoTrack /\ ran' = FALSE
  /\ UNCHANGED <<status, text, pending, runs, again>> /\ OthersUnchanged

RunReturns(t) ==
  /\ current = t /\ ran
  /\ current' = NoTrack /\ ran' = FALSE
  /\ at' = [at EXCEPT ![<<t, runs[t]>>] = "list"]
  /\ UNCHANGED <<status, text, pending, runs, saw, regens, digest_in_flight, digest, deletion,
                 attempts, again>>

\* A permanent error, of the transcription or of the hook that comes after the
\* transcript: pipeline::run returns Err, and the worker only logs it.
RunFails(t) ==
  /\ current = t /\ ~ran /\ t \in MayFail
  /\ Mark(t, "Failed") /\ current' = NoTrack
  /\ \/ UNCHANGED text
     \/ status[t] # "gone" /\ text' = [text EXCEPT ![t] = runs[t]]
  /\ UNCHANGED <<pending, runs, ran, again>> /\ OthersUnchanged

CancelQueued(t) ==
  /\ t \in MayFail /\ t \in pending
  /\ pending' = pending \ {t} /\ Mark(t, "Cancelled")
  /\ UNCHANGED <<text, runs, current, ran, again>> /\ OthersUnchanged

\* Whatever the track's status; a request while it is queued changes nothing.
Retranscribe(t) ==
  /\ t \in Again /\ status[t] # "gone" /\ runs[t] < MaxRuns
  /\ pending' = pending \cup {t} /\ Mark(t, "Queued") /\ again' = TRUE
  /\ UNCHANGED <<text, runs, current, ran>> /\ OthersUnchanged

-----------------------------------------------------------------------------
(* maybe_generate_meeting_digest, task k.                                  *)

TaskUnchanged == UNCHANGED <<tracks, regens, deletion, again>>
Rows == {t \in Tracks : status[t] # "gone"}

\* Mutant: no look at the other tracks.
HastyTaskList(k) ==
  /\ at[k] = "list"
  /\ saw' = [saw EXCEPT ![k] = text]
  /\ at' = [at EXCEPT ![k] = "claim"]
  /\ TaskUnchanged /\ UNCHANGED <<digest_in_flight, digest, attempts>>

\* The track's row, then the rows of its meeting are read; the task returns
\* unless all of them are settled.
TaskList(k) ==
  /\ at[k] = "list"
  /\ IF k[1] \in Rows /\ \A t \in Rows : status[t] \in Settled
       THEN at' = [at EXCEPT ![k] = "claim"] /\ saw' = [saw EXCEPT ![k] = text]
       ELSE at' = [at EXCEPT ![k] = "over"] /\ UNCHANGED saw
  /\ TaskUnchanged /\ UNCHANGED <<digest_in_flight, digest, attempts>>

\* Mutant: the set is filled but what insert() answers is not looked at.
LooseTaskClaim(k) ==
  /\ at[k] = "claim"
  /\ digest_in_flight' = TRUE
  /\ at' = [at EXCEPT ![k] = "generate"]
  /\ TaskUnchanged /\ UNCHANGED <<saw, digest, attempts>>

TaskClaim(k) ==
  /\ at[k] = "claim"
  /\ digest_in_flight' = TRUE
  /\ IF digest_in_flight
       THEN at' = [at EXCEPT ![k] = "over"] /\ saw' = [saw EXCEPT ![k] = NoText]
       ELSE at' = [at EXCEPT ![k] = "generate"] /\ UNCHANGED saw
  /\ TaskUnchanged /\ UNCHANGED <<digest, attempts>>

\* Mutant: a failed generation returns early.
LeakyTaskGenerate(k) ==
  /\ at[k] = "generate"
  /\ attempts' = attempts + 1
  /\ \E next \in {"save", "over"} : at' = [at EXCEPT ![k] = next]
  /\ TaskUnchanged /\ UNCHANGED <<saw, digest_in_flight, digest>>

\* The LLM call fails, or its result is there to be saved.
TaskGenerate(k) ==
  /\ at[k] = "generate"
  /\ attempts' = attempts + 1
  /\ \E next \in {"save"} \cup (IF MayFail = {} THEN {} ELSE {"release"}) :
       at' = [at EXCEPT ![k] = next]
  /\ TaskUnchanged /\ UNCHANGED <<saw, digest_in_flight, digest>>

TaskSave(k) ==
  /\ at[k] = "save"
  /\ digest' = saw[k]
  /\ at' = [at EXCEPT ![k] = "release"]
  /\ TaskUnchanged /\ UNCHANGED <<saw, digest_in_flight, attempts>>

TaskRelease(k) ==
  /\ at[k] = "release"
  /\ digest_in_flight' = FALSE
  /\ at' = [at EXCEPT ![k] = "over"] /\ saw' = [saw EXCEPT ![k] = NoText]
  /\ TaskUnchanged /\ UNCHANGED <<digest, attempts>>

-----------------------------------------------------------------------------
(* rerun_meeting_digest: no claim.                                         *)

RegenUnchanged == UNCHANGED <<tracks, tasks, digest_in_flight, deletion, attempts, again>>

RegenRequest(g) ==
  /\ reAt[g] = "none" /\ \E t \in Rows : text[t] # 0
  /\ reSaw' = [reSaw EXCEPT ![g] = text]
  /\ reAt' = [reAt EXCEPT ![g] = "generate"]
  /\ RegenUnchanged /\ UNCHANGED digest

RegenGenerate(g) ==
  /\ reAt[g] = "generate"
  /\ \E next \in {"save"} \cup (IF MayFail = {} THEN {} ELSE {"over"}) :
       /\ reAt' = [reAt EXCEPT ![g] = next]
       /\ reSaw' = IF next = "over" THEN [reSaw EXCEPT ![g] = NoText] ELSE reSaw
  /\ RegenUnchanged /\ UNCHANGED digest

RegenSave(g) ==
  /\ reAt[g] = "save"
  /\ digest' = reSaw[g]
  /\ reAt' = [reAt EXCEPT ![g] = "over"] /\ reSaw' = [reSaw EXCEPT ![g] = NoText]
  /\ RegenUnchanged

-----------------------------------------------------------------------------
(* DeleteSession: the rows one by one, then the digest.  The tracks'       *)
(* queued items are left in the inbox.                                     *)

DeleteUnchanged ==
  UNCHANGED <<pending, runs, current, ran, tasks, regens, digest_in_flight, attempts, again>>

DeleteRow(t) ==
  /\ MayDelete /\ deletion \in {"no", "rows"} /\ t \in Rows
  /\ status' = [status EXCEPT ![t] = "gone"] /\ text' = [text EXCEPT ![t] = 0]
  /\ deletion' = IF Rows = {t} THEN "digest" ELSE "rows"
  /\ DeleteUnchanged /\ UNCHANGED digest

DeleteDigest ==
  /\ deletion = "digest"
  /\ digest' = NoTrack /\ deletion' = "over"
  /\ DeleteUnchanged /\ UNCHANGED <<status, text>>

-----------------------------------------------------------------------------
WorkerStep(t) == RunStart(t) \/ RunSettles(t) \/ RunReturns(t) \/ RunFails(t)

TaskStep(k) ==
  TaskList(k) \/ TaskClaim(k) \/ TaskGenerate(k) \/ TaskSave(k) \/ TaskRelease(k)

RegenStep(g) == RegenGenerate(g) \/ RegenSave(g)

Next ==
  \/ \E t \in Tracks : WorkerStep(t) \/ CancelQueued(t) \/ Retranscribe(t) \/ DeleteRow(t)
  \/ \E k \in AutoTasks : TaskStep(k)
  \/ \E g \in Regens : RegenRequest(g) \/ RegenStep(g)
  \/ DeleteDigest

Spec == Init /\ [][Next]_vars

\* The worker claims what is queued, runs end (they have timeouts), and the
\* runtime polls the spawned tasks.
Fairness ==
  /\ \A t \in Tracks : SF_vars(RunStart(t)) /\ WF_vars(WorkerStep(t))
  /\ \A k \in AutoTasks : WF_vars(TaskStep(k))
  /\ \A g \in Regens : WF_vars(RegenStep(g))

FairSpec == Spec /\ Fairness

-----------------------------------------------------------------------------
(* Correctness.                                                            *)

Generating == {k \in AutoTasks : at[k] \in {"generate", "save", "release"}}

(* However the tasks of the two tracks race, one generates at a time, and  *)
(* the claim stands exactly while it does (digest_in_flight).              *)
OneAtATime == Cardinality(Generating) = (IF digest_in_flight THEN 1 ELSE 0)

(* A digest in the making was read when nothing was left to come: unless a *)
(* track was retranscribed or deleted, it is made of the transcripts the   *)
(* tracks have now and will have (the gate on terminal statuses).          *)
DigestSeesAllTracks ==
  deletion = "no" /\ ~again =>
    \A k \in Generating : saw[k] = text /\ pending = {} /\ (current = NoTrack \/ ran)

(* The claim is released whichever way the generation ends.                *)
ClaimIsReleased == digest_in_flight ~> ~digest_in_flight

(* A meeting all of whose tracks were run to the end, once, gets a digest  *)
(* generated, whichever track is the last and however late the tasks run.  *)
CleanMeetingGetsDigest ==
  (\A t \in Tracks : status[t] = "Done" /\ runs[t] = 1) ~>
    (attempts > 0 \/ \E t \in Tracks : status[t] # "Done" \/ runs[t] # 1)

-----------------------------------------------------------------------------
(* What the comments say, and the code does not do.                        *)

(* The digest of tracks that were run once is generated once.              *)
DigestOnce == (\A t \in Tracks : runs[t] <= 1) => attempts <= 1

(* When the last track has settled, its own completion generates the       *)
(* digest of what there is.                                                *)
LastTrackBringsDigest ==
  ((\A t \in Tracks : status[t] \in Settled) /\ \E t \in Tracks : text[t] # 0)
    ~> (attempts > 0)

(* The claim is released so that a retranscribe can run again: in the end  *)
(* the digest is made from the transcripts there are.                      *)
DigestCatchesUp == <>[](digest = text)

(* The digest of a deleted meeting does not outlive its tracks.            *)
DigestGoesWithTracks == deletion = "over" => digest = NoTrack
=============================================================================
