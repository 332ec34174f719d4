------------------------------ MODULE Pipeline ------------------------------
(***************************************************************************)
(* What happens to a recording between the stop of its capture and the     *)
(* status it comes to rest in: the single queue worker                     *)
(* (bin/phoneme-daemon/src/queue_worker.rs), the stages of pipeline::run   *)
(* (pipeline.rs), the requests that act on queued and running work         *)
(* (ipc_handler/mod.rs, recorder/mod.rs), crashes, and the reconciliation  *)
(* of the next start (reconcile.rs).                                       *)
(*                                                                         *)
(* Two stores survive a crash and are written one after the other, never   *)
(* together: the inbox, here two sets of ids whose operations are atomic   *)
(* (module InboxQueue takes them apart), and the status column of the      *)
(* catalog.  The model is about the gaps between the two.                  *)
(*                                                                         *)
(* Left out: transcripts and what the LLM steps write, the whisper permit, *)
(* events, the queue's order and pause switch, the backoff's length, and   *)
(* requests about recordings still being captured (module Recorder).       *)
(***************************************************************************)
EXTENDS Integers, FiniteSets

CONSTANTS Ids,          \* recordings
          Clients,      \* IPC connections
          NoId,         \* no recording
          MaxAttempts,  \* MAX_TRANSIENT_ATTEMPTS
          MaxRequests,  \* bound: enqueue calls in a behaviour
          MaxFaults,    \* bound: catalog and file-system errors
          MaxCrashes    \* bound: crashes

ASSUME NoIdAssumption == NoId \notin Ids
ASSUME BoundAssumption ==
  /\ MaxAttempts \in Nat \ {0}
  /\ MaxRequests \in Nat
  /\ MaxFaults \in Nat
  /\ MaxCrashes \in Nat

VARIABLES
  status,               \* catalog: the status of each row, "absent" if none
  pending, processing,  \* inbox: ids with a file in each directory
  up,                   \* "down", "recovered" (inbox swept, catalog not) or "up"
  wpc, wid,             \* the worker: next step, the item it runs
  slot, token,          \* AppState.processing: id, and whether it is cancelled
  failed,               \* an optional step of the current run failed
  using,                \* the one-time overrides the current run has claimed
  attempts,             \* the worker's count of transient failures
  ledger,               \* <<id, kind>>: the entries of the pending_* maps
  me,                   \* [Clients -> the locals of the handler each one runs]
  requests, faults, crashes

(* Observation only. *)
VARIABLES
  wants,    \* [Ids -> the kind of override the latest enqueued request carried]
  wanted,   \* ... as of the claim of the current run
  asked,    \* ids whose cancellation a user asked for
  dropped,  \* ids cancelled, and not enqueued since
  late,     \* ids marked Queued after their run had settled
  lost      \* ids left in an odd state by an I/O error

inbox == <<pending, processing>>
worker == <<wpc, wid, slot, token, failed, using, attempts>>
bounds == <<requests, faults, crashes>>
ghosts == <<wants, wanted, asked, dropped, late, lost>>
vars == <<status, inbox, up, worker, ledger, me, bounds, ghosts>>

InFlight == {"Queued", "Transcribing", "CleaningUp", "HookRunning", "Summarizing"}
Terminal == {"Done", "StepFailed", "TranscribeFailed", "HookFailed", "Cancelled"}
Statuses == {"absent", "Recording"} \cup InFlight \cup Terminal

\* The rows sweep_stale_catalog_rows looks at.
Swept == {"Recording", "Queued", "Transcribing", "HookRunning"}

\* "recipe" stands for pending_recipe (pending_overrides, the model, is kept
\* the same way), "rerun" for pending_all_overrides.
Kinds == {"recipe", "rerun"}

WorkerSteps == {"idle", "claimed", "start", "transcribe", "checkpoint", "cleanup",
                "cleaning", "persist", "hook", "hooking", "enrich", "finalize", "finish",
                "cancel", "archive", "badAudio", "badHook", "quarantine",
                "retry", "requeue", "markQueued", "giveUp"}

Idle == [at |-> "idle", id |-> NoId, kind |-> "plain"]

TypeOK ==
  /\ status \in [Ids -> Statuses]
  /\ pending \subseteq Ids /\ processing \subseteq Ids
  /\ up \in {"down", "recovered", "up"}
  /\ wpc \in WorkerSteps /\ wid \in Ids \cup {NoId}
  /\ (wpc = "idle") <=> (wid = NoId)
  /\ slot \in {NoId, wid} /\ token \in BOOLEAN
  /\ failed \in BOOLEAN /\ using \subseteq Kinds
  /\ attempts \in [Ids -> 0 .. MaxAttempts - 1]
  /\ ledger \subseteq Ids \X Kinds
  /\ me \in [Clients -> [at : {"idle", "submit", "stashed", "reStatus", "drop"},
                         id : Ids \cup {NoId}, kind : Kinds \cup {"plain"}]]
  /\ requests \in 0 .. MaxRequests
  /\ faults \in 0 .. MaxFaults
  /\ crashes \in 0 .. MaxCrashes
  /\ wants \in [Ids -> Kinds \cup {"plain"}] /\ wanted \in Kinds \cup {"plain"}
  /\ \A s \in {asked, dropped, late, lost} : s \subseteq Ids

Init ==
  /\ status = [i \in Ids |-> "Recording"]
  /\ pending = {} /\ processing = {}
  /\ up = "up"
  /\ wpc = "idle" /\ wid = NoId /\ slot = NoId /\ token = FALSE
  /\ failed = FALSE /\ using = {}
  /\ attempts = [i \in Ids |-> 0]
  /\ ledger = {}
  /\ me = [c \in Clients |-> Idle]
  /\ requests = 0 /\ faults = 0 /\ crashes = 0
  /\ wants = [i \in Ids |-> "plain"] /\ wanted = "plain" /\ asked = {} /\ dropped = {} /\ late = {} /\ lost = {}

-----------------------------------------------------------------------------
\* catalog.update_status: one UPDATE, of no row when the id is gone.
SetStatus(i, s) ==
  status' = IF status[i] = "absent" THEN status ELSE [status EXCEPT ![i] = s]

Fault(i) == faults < MaxFaults /\ faults' = faults + 1 /\ lost' = lost \cup {i}
NoFault == UNCHANGED <<faults, lost>>
\* An error the code makes good, or whose write another one will replace.
Harmless == faults < MaxFaults /\ faults' = faults + 1 /\ UNCHANGED lost

Calls(c) == up = "up" /\ me[c].at = "idle"
Goto(c, place) == me' = [me EXCEPT ![c].at = place]
Return(c) == me' = [me EXCEPT ![c] = Idle]

\* inbox.enqueue; a new request for the id.
Enqueue(i) ==
  /\ pending' = pending \cup {i}
  /\ dropped' = dropped \ {i}
  /\ late' = late \ {i}
  /\ UNCHANGED processing

Works(i) == i \in pending \cup processing
Settling(i) == wid = i /\ wpc \notin {"markQueued", "finish", "archive", "quarantine"}
MarkLate(i) == late' = IF i \in pending \/ Settling(i) \/ status[i] = "absent"
                         THEN late ELSE late \cup {i}

-----------------------------------------------------------------------------
(* Requests.                                                               *)

\* The recorder's stop(): the row says Queued before the file exists.
Submit(c, i) ==
  /\ Calls(c) /\ status[i] = "Recording" /\ requests < MaxRequests
  /\ requests' = requests + 1
  /\ SetStatus(i, "Queued")
  /\ me' = [me EXCEPT ![c] = [at |-> "submit", id |-> i, kind |-> "plain"]]
  /\ UNCHANGED <<inbox, up, worker, ledger, faults, crashes, ghosts>>

SubmitEnqueue(c) ==
  LET i == me[c].id IN
  /\ me[c].at = "submit"
  /\ \/ NoFault /\ Enqueue(i) /\ wants' = [wants EXCEPT ![i] = "plain"]
     \/ Fault(i) /\ UNCHANGED <<inbox, dropped, late, wants>>
  /\ Return(c)
  /\ UNCHANGED <<status, up, worker, ledger, requests, crashes, wanted, asked>>

\* RetranscribeRecording: the overrides, then the file, then the row, with no
\* look at whether the recording is queued or running.  A recipe that is not
\* named leaves the entry of the map alone; a rerun without options clears it.
Retranscribe(c, i, kind) ==
  /\ Calls(c) /\ status[i] \notin {"absent", "Recording"} /\ requests < MaxRequests
  /\ requests' = requests + 1
  /\ ledger' = CASE kind = "recipe" -> (ledger \cup {<<i, "recipe">>}) \ {<<i, "rerun">>}
                 [] kind = "rerun" -> ledger \cup {<<i, "rerun">>}
                 [] kind = "plain" -> ledger \ {<<i, "rerun">>}
  /\ me' = [me EXCEPT ![c] = [at |-> "stashed", id |-> i, kind |-> kind]]
  /\ UNCHANGED <<status, inbox, up, worker, faults, crashes, ghosts>>

RetranscribeEnqueue(c) ==
  LET i == me[c].id IN
  /\ me[c].at = "stashed"
  /\ \/ /\ NoFault /\ Enqueue(i) /\ Goto(c, "reStatus")
        /\ wants' = [wants EXCEPT ![i] = me[c].kind]
        /\ UNCHANGED ledger
     \/ /\ Harmless /\ ledger' = ledger \ ({i} \X Kinds) /\ Return(c)
        /\ UNCHANGED <<inbox, dropped, late, wants>>
  /\ UNCHANGED <<status, up, worker, requests, crashes, wanted, asked>>

RetranscribeStatus(c) ==
  LET i == me[c].id IN
  /\ me[c].at = "reStatus"
  /\ \/ NoFault /\ SetStatus(i, "Queued") /\ MarkLate(i)
     \/ Harmless /\ UNCHANGED <<status, late>>
  /\ Return(c)
  /\ UNCHANGED <<inbox, up, worker, ledger, requests, crashes, wants, wanted, asked, dropped>>

\* CancelQueued (CancelAllQueued does the same for every pending id).
CancelQueued(c, i) ==
  /\ Calls(c) /\ i \in pending
  /\ pending' = pending \ {i}
  /\ me' = [me EXCEPT ![c] = [at |-> "drop", id |-> i, kind |-> "plain"]]
  /\ asked' = asked \cup {i}
  /\ dropped' = IF i \in processing THEN dropped ELSE dropped \cup {i}
  /\ UNCHANGED <<status, processing, up, worker, ledger, bounds, wants, wanted, late, lost>>

CancelQueuedStatus(c) ==
  /\ me[c].at = "drop"
  /\ \/ NoFault /\ SetStatus(me[c].id, "Cancelled")
     \/ Fault(me[c].id) /\ UNCHANGED status
  /\ Return(c)
  /\ UNCHANGED <<inbox, up, worker, ledger, requests, crashes, wants, wanted, asked,
                 dropped, late>>

\* Mutant: the id of the slot is not compared.
LooseCancelProcessing(c, i) ==
  /\ Calls(c) /\ slot # NoId /\ ~token
  /\ token' = TRUE
  /\ asked' = asked \cup {i}
  /\ UNCHANGED <<status, inbox, up, wpc, wid, slot, failed, using, attempts, ledger, me,
                 bounds, wants, wanted, dropped, late, lost>>

\* CancelProcessing: only the item in the slot, and it is acknowledged.
CancelProcessing(c, i) ==
  /\ Calls(c) /\ slot = i /\ ~token
  /\ token' = TRUE
  /\ asked' = asked \cup {i}
  /\ UNCHANGED <<status, inbox, up, wpc, wid, slot, failed, using, attempts, ledger, me,
                 bounds, wants, wanted, dropped, late, lost>>

\* DeleteRecording: the row (and its audio), never the inbox.
DeleteRecording(c, i) ==
  /\ Calls(c) /\ status[i] \notin {"absent", "Recording"}
  /\ status' = [status EXCEPT ![i] = "absent"]
  /\ UNCHANGED <<inbox, up, worker, ledger, me, bounds, ghosts>>

-----------------------------------------------------------------------------
(* The worker: claim, publish the slot, run.                               *)

WStep(place) == wpc' = place /\ UNCHANGED <<wid, slot, token>>

\* pipeline::run has returned: the slot is cleared.
WDone ==
  wpc' = "idle" /\ wid' = NoId /\ slot' = NoId /\ token' = FALSE

\* A `?` inside the run: the item stays in processing/ until a restart, and
\* the worker forgets the attempts.
WBail ==
  /\ Fault(wid) /\ WDone
  /\ attempts' = [attempts EXCEPT ![wid] = 0]

Forget == attempts' = [attempts EXCEPT ![wid] = 0]

WClaim(i) ==
  /\ up = "up" /\ wpc = "idle" /\ i \in pending
  /\ pending' = pending \ {i} /\ processing' = processing \cup {i}
  /\ wpc' = "claimed" /\ wid' = i
  /\ wanted' = wants[i]
  /\ UNCHANGED <<status, up, slot, token, failed, using, attempts, ledger, me, bounds,
                 wants, asked, dropped, late, lost>>

WPublish ==
  /\ wpc = "claimed"
  /\ slot' = wid /\ token' = FALSE
  /\ wpc' = "start"
  /\ UNCHANGED <<status, inbox, up, wid, failed, using, attempts, ledger, me, bounds, ghosts>>

\* Transcribing is best effort; the overrides are claimed before the attempt.
WStart ==
  /\ wpc = "start"
  /\ \/ NoFault /\ SetStatus(wid, "Transcribing")
     \/ Harmless /\ UNCHANGED status
  /\ using' = {kind \in Kinds : <<wid, kind>> \in ledger}
  /\ ledger' = ledger \ ({wid} \X Kinds)
  /\ failed' = FALSE
  /\ WStep("transcribe")
  /\ UNCHANGED <<inbox, up, attempts, me, requests, crashes, wants, wanted, asked,
                 dropped, late>>

\* The select! is biased: a cancelled token wins over a finished transcription.
WTranscribe ==
  /\ wpc = "transcribe"
  /\ \E next \in IF token THEN {"cancel"} ELSE {"checkpoint", "badAudio", "retry"} :
       WStep(next)
  /\ UNCHANGED <<status, inbox, up, failed, using, attempts, ledger, me, bounds, ghosts>>

WCheckpoint ==
  /\ wpc = "checkpoint"
  /\ \E next \in IF token THEN {"cancel"} ELSE {"cleanup", "persist"} : WStep(next)
  /\ UNCHANGED <<status, inbox, up, failed, using, attempts, ledger, me, bounds, ghosts>>

\* One cleanup stands for the recipe's transforms: each looks at the token.
WCleanupStart ==
  /\ wpc = "cleanup"
  /\ \/ NoFault /\ SetStatus(wid, "CleaningUp")
     \/ Harmless /\ UNCHANGED status
  /\ WStep("cleaning")
  /\ UNCHANGED <<inbox, up, failed, using, attempts, ledger, me, requests, crashes,
                 wants, wanted, asked, dropped, late>>

WCleanupEnd ==
  /\ wpc = "cleaning"
  /\ IF token THEN WStep("cancel") /\ UNCHANGED failed
     ELSE WStep("persist") /\ failed' \in {failed, TRUE}
  /\ UNCHANGED <<status, inbox, up, using, attempts, ledger, me, bounds, ghosts>>

\* update_transcript and its `?`; from here on nobody looks at the token.
WPersist ==
  /\ wpc = "persist"
  /\ \/ /\ NoFault /\ \E next \in {"hook", "enrich"} : WStep(next)
        /\ UNCHANGED attempts
     \/ WBail
  /\ UNCHANGED <<status, inbox, up, failed, using, ledger, me, requests, crashes,
                 wants, wanted, asked, dropped, late>>

WHookStart ==
  /\ wpc = "hook"
  /\ \/ NoFault /\ SetStatus(wid, "HookRunning") /\ WStep("hooking") /\ UNCHANGED attempts
     \/ WBail /\ UNCHANGED status
  /\ UNCHANGED <<inbox, up, failed, using, ledger, me, requests, crashes,
                 wants, wanted, asked, dropped, late>>

WHookEnd ==
  /\ wpc = "hooking"
  /\ \/ WStep("enrich") /\ failed' \in {failed, TRUE}
     \/ WStep("badHook") /\ UNCHANGED failed
  /\ UNCHANGED <<status, inbox, up, using, attempts, ledger, me, bounds, ghosts>>

\* Summary, title, tags: best effort, and each sets a busy status of its own,
\* Summarizing or Tagging, for which one stands here.
WEnrich ==
  /\ wpc = "enrich"
  /\ \/ SetStatus(wid, "Summarizing")
     \/ UNCHANGED status
  /\ failed' \in {failed, TRUE}
  /\ WStep("finalize")
  /\ UNCHANGED <<inbox, up, using, attempts, ledger, me, bounds, ghosts>>

WFinalize ==
  /\ wpc = "finalize"
  /\ \/ /\ NoFault /\ SetStatus(wid, IF failed THEN "StepFailed" ELSE "Done")
        /\ WStep("finish") /\ UNCHANGED attempts
     \/ WBail /\ UNCHANGED status
  /\ UNCHANGED <<inbox, up, failed, using, ledger, me, requests, crashes,
                 wants, wanted, asked, dropped, late>>

\* finish_done; the run is over either way.
WFinish ==
  /\ wpc = "finish"
  /\ \/ NoFault /\ processing' = processing \ {wid}
     \/ Fault(wid) /\ UNCHANGED processing
  /\ WDone /\ Forget
  /\ UNCHANGED <<status, pending, up, failed, using, ledger, me, requests, crashes,
                 wants, wanted, asked, dropped, late>>

\* finalize_canceled: the status first, then finish_cancelled, best effort.
WCancelStatus ==
  /\ wpc = "cancel"
  /\ \/ NoFault /\ SetStatus(wid, "Cancelled")
     \/ Fault(wid) /\ UNCHANGED status
  /\ dropped' = IF wid \in pending THEN dropped ELSE dropped \cup {wid}
  /\ WStep("archive")
  /\ UNCHANGED <<inbox, up, failed, using, attempts, ledger, me, requests, crashes,
                 wants, wanted, asked, late>>

\* Mutant: a cancelled item is requeued like one that met a transient error.
RequeueArchive ==
  /\ wpc = "archive"
  /\ \/ NoFault /\ processing' = processing \ {wid} /\ pending' = pending \cup {wid}
     \/ Fault(wid) /\ UNCHANGED inbox
  /\ WDone /\ Forget
  /\ UNCHANGED <<status, up, failed, using, ledger, me, requests, crashes,
                 wants, wanted, asked, dropped, late>>

WArchive ==
  /\ wpc = "archive"
  /\ \/ NoFault /\ processing' = processing \ {wid}
     \/ Fault(wid) /\ UNCHANGED processing
  /\ WDone /\ Forget
  /\ UNCHANGED <<status, pending, up, failed, using, ledger, me, requests, crashes,
                 wants, wanted, asked, dropped, late>>

\* A permanent error: the status, then the quarantine.
WFail(place, s) ==
  /\ wpc = place
  /\ \/ NoFault /\ SetStatus(wid, s) /\ WStep("quarantine") /\ UNCHANGED attempts
     \/ WBail /\ UNCHANGED status
  /\ UNCHANGED <<inbox, up, failed, using, ledger, me, requests, crashes,
                 wants, wanted, asked, dropped, late>>

WBadAudio == WFail("badAudio", "TranscribeFailed")
WBadHook == WFail("badHook", "HookFailed")

WQuarantine ==
  /\ wpc = "quarantine"
  /\ \/ NoFault /\ processing' = processing \ {wid}
     \/ Fault(wid) /\ UNCHANGED processing
  /\ WDone /\ Forget
  /\ UNCHANGED <<status, pending, up, failed, using, ledger, me, requests, crashes,
                 wants, wanted, asked, dropped, late>>

-----------------------------------------------------------------------------
(* The worker after a transient error: the slot is cleared, then the item  *)
(* goes back to pending/, or is given up after MaxAttempts in a row.       *)

\* Mutants: the limit compared with > instead of >=; the count forgotten when
\* the item is requeued.
OffByOneCountAttempt ==
  /\ wpc = "retry"
  /\ slot' = NoId /\ token' = FALSE
  /\ IF attempts[wid] + 1 > MaxAttempts
       THEN wpc' = "giveUp" /\ Forget
       ELSE wpc' = "requeue" /\ attempts' = [attempts EXCEPT ![wid] = @ + 1]
  /\ UNCHANGED <<status, inbox, up, wid, failed, using, ledger, me, bounds, ghosts>>

ForgetfulCountAttempt ==
  /\ wpc = "retry"
  /\ slot' = NoId /\ token' = FALSE
  /\ wpc' = (IF attempts[wid] + 1 >= MaxAttempts THEN "giveUp" ELSE "requeue") /\ Forget
  /\ UNCHANGED <<status, inbox, up, wid, failed, using, ledger, me, bounds, ghosts>>

WCountAttempt ==
  /\ wpc = "retry"
  /\ slot' = NoId /\ token' = FALSE
  /\ IF attempts[wid] + 1 >= MaxAttempts
       THEN wpc' = "giveUp" /\ Forget
       ELSE wpc' = "requeue" /\ attempts' = [attempts EXCEPT ![wid] = @ + 1]
  /\ UNCHANGED <<status, inbox, up, wid, failed, using, ledger, me, bounds, ghosts>>

WRequeue ==
  /\ wpc = "requeue"
  /\ \/ /\ NoFault
        /\ processing' = processing \ {wid} /\ pending' = pending \cup {wid}
        /\ WStep("markQueued") /\ UNCHANGED attempts
     \/ Harmless /\ UNCHANGED inbox /\ WStep("giveUp") /\ Forget
  /\ UNCHANGED <<status, up, failed, using, ledger, me, requests, crashes,
                 wants, wanted, asked, dropped, late>>

WMarkQueued ==
  /\ wpc = "markQueued"
  /\ \/ NoFault /\ SetStatus(wid, "Queued") /\ MarkLate(wid)
     \/ Harmless /\ UNCHANGED <<status, late>>
  /\ WDone
  /\ UNCHANGED <<inbox, up, failed, using, attempts, ledger, me, requests, crashes,
                 wants, wanted, asked, dropped>>

\* Mutants: the status is set but the file is not quarantined; the file is
\* quarantined but the status is left alone.
AbandoningGiveUp ==
  /\ wpc = "giveUp"
  /\ \/ NoFault /\ SetStatus(wid, "TranscribeFailed")
     \/ Fault(wid) /\ UNCHANGED status
  /\ WDone
  /\ UNCHANGED <<inbox, up, failed, using, attempts, ledger, me, requests, crashes,
                 wants, wanted, asked, dropped, late>>

SilentGiveUp ==
  /\ wpc = "giveUp"
  /\ WStep("quarantine")
  /\ UNCHANGED <<status, inbox, up, failed, using, attempts, ledger, me, bounds, ghosts>>

WGiveUp ==
  /\ wpc = "giveUp"
  /\ \/ NoFault /\ SetStatus(wid, "TranscribeFailed")
     \/ Fault(wid) /\ UNCHANGED status
  /\ WStep("quarantine")
  /\ UNCHANGED <<inbox, up, failed, using, attempts, ledger, me, requests, crashes,
                 wants, wanted, asked, dropped, late>>

-----------------------------------------------------------------------------
(* Crash and restart.                                                      *)

Crash ==
  /\ up # "down" /\ crashes < MaxCrashes
  /\ crashes' = crashes + 1
  /\ up' = "down"
  /\ WDone /\ failed' = FALSE /\ using' = {}
  /\ attempts' = [i \in Ids |-> 0]
  /\ ledger' = {}
  /\ me' = [c \in Clients |-> Idle]
  /\ UNCHANGED <<status, inbox, requests, faults, ghosts>>

\* recover_orphans
Recover ==
  /\ up = "down"
  /\ pending' = pending \cup processing /\ processing' = {}
  /\ up' = "recovered"
  /\ UNCHANGED <<status, worker, ledger, me, bounds, ghosts>>

\* Mutant: Queued is missing from the sweep as well.
ShortSweep ==
  /\ up = "recovered"
  /\ status' = [i \in Ids |-> IF status[i] \in Swept \ {"Queued"} /\ ~Works(i)
                                THEN "TranscribeFailed" ELSE status[i]]
  /\ up' = "up"
  /\ UNCHANGED <<inbox, worker, ledger, me, bounds, ghosts>>

\* sweep_stale_catalog_rows; only then do the worker and the IPC server start.
Sweep ==
  /\ up = "recovered"
  /\ status' = [i \in Ids |-> IF status[i] \in Swept /\ ~Works(i)
                                THEN "TranscribeFailed" ELSE status[i]]
  /\ up' = "up"
  /\ UNCHANGED <<inbox, worker, ledger, me, bounds, ghosts>>

-----------------------------------------------------------------------------
HandlerStep(c) ==
  SubmitEnqueue(c) \/ RetranscribeEnqueue(c) \/ RetranscribeStatus(c) \/ CancelQueuedStatus(c)

Request(c, i) ==
  \/ Submit(c, i)
  \/ \E kind \in Kinds \cup {"plain"} : Retranscribe(c, i, kind)
  \/ CancelQueued(c, i) \/ CancelProcessing(c, i) \/ DeleteRecording(c, i)

WorkerStep ==
  \/ \E i \in Ids : WClaim(i)
  \/ WPublish \/ WStart \/ WTranscribe \/ WCheckpoint \/ WCleanupStart \/ WCleanupEnd
  \/ WPersist \/ WHookStart \/ WHookEnd \/ WEnrich \/ WFinalize \/ WFinish
  \/ WCancelStatus \/ WArchive \/ WBadAudio \/ WBadHook \/ WQuarantine
  \/ WCountAttempt \/ WRequeue \/ WMarkQueued \/ WGiveUp

Startup == Recover \/ Sweep

Next ==
  \/ \E c \in Clients : HandlerStep(c) \/ \E i \in Ids : Request(c, i)
  \/ WorkerStep \/ Startup \/ Crash

Spec == Init /\ [][Next]_vars

\* The worker loop, the handlers and startup always take their next step (an
\* LLM call, a hook or a transcription has a timeout); the user is patient
\* about nothing, and claims are in order, so no pending item is passed over
\* for ever.
Fairness ==
  /\ WF_vars(WorkerStep) /\ WF_vars(Startup)
  /\ \A c \in Clients : WF_vars(HandlerStep(c))
  /\ \A i \in Ids : SF_vars(WClaim(i))

FairSpec == Spec /\ Fairness

-----------------------------------------------------------------------------
(* Correctness.                                                            *)

\* The work a busy row speaks of: a file, the run, or a handler about to write
\* the file or the row.
Backed(i) == Works(i) \/ wid = i \/ \E c \in Clients : me[c].id = i

(* A row that says its work is under way is backed by the inbox at every   *)
(* moment, whatever crashes came before.  The sweep at startup             *)
(* (reconcile.rs) passes over CleaningUp and Summarizing; those rows are   *)
(* backed too until a second crash (SweepRepairsAll).  Excepted are rows   *)
(* that met an I/O error and late Queued writes (QueuedMeansWaiting).      *)
BusyRowsHaveWork ==
  up = "up" => \A i \in Ids \ (late \cup lost) :
    status[i] \in InFlight /\ (status[i] \in Swept \/ crashes <= 1) => Backed(i)

(* The worker is on everything in processing/: whichever way a run ends    *)
(* (queue_worker.rs), it leaves no claimed file behind for the next        *)
(* restart to find, unless an I/O error came in between.                   *)
ClaimedIsHeld == up = "up" => processing \subseteq {wid} \cup lost

(* Only what a user asked to cancel ends up Cancelled: the token one run   *)
(* publishes in AppState.processing never reaches another recording.       *)
OnlyAskedIsCancelled == \A i \in Ids : status[i] = "Cancelled" => i \in asked

(* Work that was cancelled, queued or running, is not claimed again short  *)
(* of a new request; a crash or an I/O error in the middle of the cancel   *)
(* is another matter (CancelledNotRerun).                                  *)
CancelledStaysDown ==
  wpc = "claimed" /\ crashes = 0 /\ wid \notin lost => wid \notin dropped

(* Whatever the transcription server does, a file that enters the inbox    *)
(* leaves it (MAX_TRANSIENT_ATTEMPTS bounds the retries), or the item met  *)
(* an I/O error.                                                           *)
InboxDrains == \A i \in Ids : Works(i) ~> ~Works(i) \/ i \in lost

(* ... and a row that is busy comes to rest, but for the late Queued       *)
(* writes.                                                                 *)
RowsComeToRest ==
  \A i \in Ids : status[i] \in InFlight ~> status[i] \notin InFlight \/ i \in late \cup lost

-----------------------------------------------------------------------------
(* What the documentation says, and the code does not do.                  *)

(* CancelProcessing, once acknowledged, ends the run as cancelled, during  *)
(* transcribe, cleanup or summary (crates/phoneme-ipc/src/schema.rs).      *)
CancelIsHonoured == wpc = "finish" => ~token

(* A retranscribe is run with the one-time recipe or options it was        *)
(* accepted with (docs/developer-guide/ipc_integration.md).                *)
OverrideReachesTheRun == wpc = "transcribe" /\ wanted # "plain" => wanted \in using

(* A plain retranscribe is run with none, when no other request for the    *)
(* recording overlaps it (the same page: omitted means the default recipe).*)
PlainRunsPlain ==
  wpc = "transcribe" /\ wanted = "plain" /\ wants[wid] = "plain"
    /\ (\A c \in Clients : me[c].id # wid)
  => using = {}

(* Queued means waiting in the transcription queue (types.rs).             *)
QueuedMeansWaiting == up = "up" => \A i \in Ids : status[i] = "Queued" => Backed(i)

(* No row is left to spin for ever after a restart (reconcile.rs): here the*)
(* status a crash left is CleaningUp, the recovered item is cancelled, and *)
(* a second crash comes before the row is written.                         *)
SweepRepairsAll ==
  up = "up" => \A i \in Ids \ (late \cup lost) : status[i] \in InFlight => Backed(i)

(* A file orphaned in the middle of a cancel is dropped at startup instead *)
(* of run again (the comment in InboxQueue::finish_cancelled, queue.rs).   *)
CancelledNotRerun == wpc = "claimed" => wid \notin dropped
=============================================================================
