-------------------------- MODULE PipelineProofs --------------------------
(***************************************************************************)
(* ClaimedIsHeld, OnlyAskedIsCancelled, BusyRowsHaveWork and               *)
(* CancelledStaysDown hold in every behaviour of Pipeline, for all sets of *)
(* recordings and connections, any number of requests, I/O errors and      *)
(* crashes, and any MAX_TRANSIENT_ATTEMPTS.                                *)
(*                                                                         *)
(* ClaimedIsHeld is about a running daemon.  It survives a crash because   *)
(* recovery empties processing/ before the worker starts (SweptFirst,      *)
(* IdleUnlessUp), and a retry because the file is back in pending/ by the  *)
(* time the worker lets go of the item (RequeuedIsOut).                    *)
(*                                                                         *)
(* OnlyAskedIsCancelled rests on where a Cancelled status is written from: *)
(* a request that withdrew the item, or a run whose token was cancelled.   *)
(* The token speaks of the item in the slot, and the slot of the item that *)
(* is being run, until both are cleared together (TokenIsAsked).           *)
(*                                                                         *)
(* BusyRowsHaveWork is inductive once the item being run no longer counts  *)
(* as work when its final status is written (RowsAreSafe).  For the        *)
(* statuses the sweep passes over it needs that before the first crash     *)
(* only an item that is being run, with its file in processing/, has them  *)
(* (UnsweptIsRunning), so that recovery finds the file (UnsweptHasFile).   *)
(*                                                                         *)
(* CancelledStaysDown follows from where the file of cancelled work is:    *)
(* nowhere, or with the worker that is about to archive it (DroppedIsOut). *)
(* A retry keeps that because the item it requeues is not at the archive.  *)
(***************************************************************************)
EXTENDS Pipeline, TLAPS

HandlerHasId == \A c \in Clients : me[c].at # "idle" => me[c].id \in Ids

IdleUnlessUp == up # "up" => wpc = "idle"
SweptFirst == up = "recovered" => processing = {}
RequeuedIsOut == wpc = "markQueued" => wid \notin processing

TokenIsAsked ==
  /\ token => slot = wid /\ wid \in asked
  /\ wpc \in {"cancel", "archive"} => wid \in asked
WithdrawnIsAsked == \A c \in Clients : me[c].at = "drop" => me[c].id \in asked

Inside == {"cleaning", "persist", "hook", "hooking", "badHook", "enrich", "finalize", "cancel"}
Unswept == InFlight \ Swept
HandlerOwns(i) == \E c \in Clients : me[c].id = i /\ me[c].at \in {"submit", "drop"}
RowIsSafe(i) ==
  status[i] \in InFlight /\ (status[i] \in Swept \/ crashes <= 1) =>
    i \in pending \/ Settling(i) \/ HandlerOwns(i)

RunHasFile == wpc \notin {"idle", "markQueued"} => wid \in processing
UnsweptIsRunning ==
  crashes = 0 => \A i \in Ids \ lost : status[i] \in Unswept => wid = i /\ wpc \in Inside
UnsweptHasFile ==
  up # "up" /\ crashes <= 1 =>
    \A i \in Ids \ (late \cup lost) : status[i] \in Unswept => Works(i)
RowsAreSafe == up = "up" => \A i \in Ids \ (late \cup lost) : RowIsSafe(i)

UpUntilCrash == crashes = 0 => up = "up"
DroppedIsOut ==
  crashes = 0 => \A i \in dropped \ lost :
    i \notin pending /\ (i \in processing => wid = i /\ wpc = "archive")

IInv ==
  /\ TypeOK
  /\ HandlerHasId
  /\ IdleUnlessUp
  /\ SweptFirst
  /\ RequeuedIsOut
  /\ ClaimedIsHeld
  /\ TokenIsAsked
  /\ WithdrawnIsAsked
  /\ OnlyAskedIsCancelled
  /\ RunHasFile
  /\ UnsweptIsRunning
  /\ UnsweptHasFile
  /\ RowsAreSafe
  /\ UpUntilCrash
  /\ DroppedIsOut

-----------------------------------------------------------------------------
(* Types.                                                                   *)

USE NoIdAssumption, BoundAssumption DEF NoIdAssumption, BoundAssumption

(* The variables start in their sets. *)
LEMMA InitTypeOK == Init => TypeOK /\ HandlerHasId
<1> SUFFICES ASSUME Init PROVE TypeOK /\ HandlerHasId
  OBVIOUS
<1>1. /\ status \in [Ids -> Statuses] /\ attempts \in [Ids -> 0 .. MaxAttempts - 1]
      /\ wants \in [Ids -> Kinds \cup {"plain"}] /\ wanted \in Kinds \cup {"plain"}
  BY DEF Init, Statuses
<1>2. me \in [Clients -> [at : {"idle", "submit", "stashed", "reStatus", "drop"},
                          id : Ids \cup {NoId}, kind : Kinds \cup {"plain"}]]
  BY DEF Init, Idle
<1>3. token \in BOOLEAN /\ failed \in BOOLEAN
  BY Zenon DEF Init
<1>4. wpc \in WorkerSteps
  BY DEF Init, WorkerSteps
<1>5. QED
  BY <1>1, <1>2, <1>3, <1>4 DEF Init, TypeOK, HandlerHasId, Idle

(* No request or handler takes a variable out of its set. *)
LEMMA ClientTypeOK ==
  ASSUME TypeOK, HandlerHasId, NEW c \in Clients,
         HandlerStep(c) \/ \E i \in Ids : Request(c, i)
  PROVE  TypeOK' /\ HandlerHasId'
<1> USE DEF TypeOK, HandlerHasId, inbox, worker, bounds, ghosts, Calls, Goto, Return, Idle,
            NoFault, Fault, Harmless, SetStatus, Enqueue, MarkLate
<1>1. ASSUME NEW i \in Ids, Submit(c, i) PROVE TypeOK' /\ HandlerHasId'
  BY <1>1 DEF Submit, Statuses, InFlight
<1>2. ASSUME NEW i \in Ids, NEW kind \in Kinds \cup {"plain"}, Retranscribe(c, i, kind)
      PROVE  TypeOK' /\ HandlerHasId'
  BY <1>2 DEF Retranscribe, Kinds
<1>3. ASSUME NEW i \in Ids, CancelQueued(c, i) PROVE TypeOK' /\ HandlerHasId'
  BY <1>3 DEF CancelQueued
<1>4. ASSUME NEW i \in Ids, CancelProcessing(c, i) PROVE TypeOK' /\ HandlerHasId'
  BY <1>4 DEF CancelProcessing
<1>5. ASSUME NEW i \in Ids, DeleteRecording(c, i) PROVE TypeOK' /\ HandlerHasId'
  BY <1>5 DEF DeleteRecording, Statuses
<1>6. CASE SubmitEnqueue(c)
  BY <1>6 DEF SubmitEnqueue
<1>7. CASE RetranscribeEnqueue(c)
  BY <1>7 DEF RetranscribeEnqueue
<1>8. CASE RetranscribeStatus(c)
  BY <1>8 DEF RetranscribeStatus, Statuses, InFlight
<1>9. CASE CancelQueuedStatus(c)
  BY <1>9 DEF CancelQueuedStatus, Statuses, Terminal
<1>10. QED
  BY <1>1, <1>2, <1>3, <1>4, <1>5, <1>6, <1>7, <1>8, <1>9 DEF HandlerStep, Request

(* No step of the worker does. *)
LEMMA WorkerTypeOK ==
  ASSUME TypeOK, WorkerStep
  PROVE  TypeOK'
<1> USE DEF TypeOK, inbox, worker, bounds, ghosts, NoFault, Fault, Harmless, SetStatus,
            WStep, WDone, Forget, WorkerSteps, Statuses, InFlight, Terminal
<1>1. ASSUME NEW i \in Ids, WClaim(i) PROVE TypeOK'
  BY <1>1 DEF WClaim
<1>2. CASE WPublish
  BY <1>2 DEF WPublish
<1>3. CASE WStart
  <2>1. token' \in BOOLEAN /\ failed' \in BOOLEAN
    BY <1>3, Zenon DEF WStart
  <2>2. QED
    BY <1>3, <2>1 DEF WStart
<1>4. CASE WTranscribe \/ WCheckpoint
  BY <1>4 DEF WTranscribe, WCheckpoint
<1>5. CASE WCleanupStart
  BY <1>5 DEF WCleanupStart
<1>6. CASE WCleanupEnd
  BY <1>6 DEF WCleanupEnd
<1>7. CASE WPersist
  <2>1. token' \in BOOLEAN /\ failed' \in BOOLEAN
    BY <1>7, Zenon DEF WPersist, WBail
  <2>2. QED
    BY <1>7, <2>1 DEF WPersist, WBail
<1>8. CASE WHookStart
  <2>1. token' \in BOOLEAN /\ failed' \in BOOLEAN
    BY <1>8, Zenon DEF WHookStart, WBail
  <2>2. QED
    BY <1>8, <2>1 DEF WHookStart, WBail
<1>9. CASE WHookEnd \/ WEnrich
  BY <1>9 DEF WHookEnd, WEnrich
<1>10. CASE WFinalize
  <2>1. token' \in BOOLEAN /\ failed' \in BOOLEAN
    BY <1>10, Zenon DEF WFinalize, WBail
  <2>2. QED
    BY <1>10, <2>1 DEF WFinalize, WBail
<1>11. CASE WFinish \/ WArchive \/ WQuarantine
  <2>1. token' \in BOOLEAN /\ failed' \in BOOLEAN
    BY <1>11, Zenon DEF WFinish, WArchive, WQuarantine
  <2>2. QED
    BY <1>11, <2>1 DEF WFinish, WArchive, WQuarantine
<1>12. CASE WCancelStatus
  BY <1>12 DEF WCancelStatus
<1>13. CASE WBadAudio \/ WBadHook
  <2>1. token' \in BOOLEAN /\ failed' \in BOOLEAN
    BY <1>13, Zenon DEF WBadAudio, WBadHook, WFail, WBail
  <2>2. QED
    BY <1>13, <2>1 DEF WBadAudio, WBadHook, WFail, WBail
<1>14. CASE WCountAttempt
  <2>1. token' \in BOOLEAN /\ failed' \in BOOLEAN
    BY <1>14, Zenon DEF WCountAttempt
  <2>2. QED
    BY <1>14, <2>1 DEF WCountAttempt
<1>15. CASE WRequeue
  BY <1>15 DEF WRequeue
<1>16. CASE WMarkQueued
  <2>1. token' \in BOOLEAN /\ failed' \in BOOLEAN
    BY <1>16, Zenon DEF WMarkQueued, MarkLate
  <2>2. QED
    BY <1>16, <2>1 DEF WMarkQueued, MarkLate
<1>17. CASE WGiveUp
  BY <1>17 DEF WGiveUp
<1>18. QED
  BY <1>1, <1>2, <1>3, <1>4, <1>5, <1>6, <1>7, <1>8, <1>9, <1>10, <1>11, <1>12, <1>13,
     <1>14, <1>15, <1>16, <1>17 DEF WorkerStep

(* Nor does a crash or what follows it; handlers are the clients' own. *)
LEMMA StepTypeOK ==
  ASSUME TypeOK, HandlerHasId, [Next]_vars
  PROVE  TypeOK' /\ HandlerHasId'
<1> USE DEF inbox, worker, bounds, ghosts
<1>1. CASE \E c \in Clients : HandlerStep(c) \/ \E i \in Ids : Request(c, i)
  BY <1>1, ClientTypeOK
<1>2. CASE WorkerStep
  <2>1. UNCHANGED me
    BY <1>2 DEF WorkerStep, WClaim, WPublish, WStart, WTranscribe, WCheckpoint, WCleanupStart,
       WCleanupEnd, WPersist, WHookStart, WHookEnd, WEnrich, WFinalize, WFinish, WCancelStatus,
       WArchive, WBadAudio, WBadHook, WFail, WQuarantine, WCountAttempt, WRequeue, WMarkQueued,
       WGiveUp
  <2>2. QED
    BY <1>2, <2>1, WorkerTypeOK DEF HandlerHasId
<1>3. CASE Crash
  <2>1. token' \in BOOLEAN /\ failed' \in BOOLEAN
    BY <1>3, Zenon DEF Crash, WDone
  <2>2. /\ me' \in [Clients -> [at : {"idle", "submit", "stashed", "reStatus", "drop"},
                                id : Ids \cup {NoId}, kind : Kinds \cup {"plain"}]]
        /\ HandlerHasId'
    BY <1>3 DEF Crash, Idle, HandlerHasId
  <2>3. QED
    BY <1>3, <2>1, <2>2 DEF Crash, WDone, TypeOK, WorkerSteps
<1>4. CASE Recover
  BY <1>4 DEF Recover, TypeOK, HandlerHasId
<1>5. CASE Sweep
  BY <1>5 DEF Sweep, TypeOK, HandlerHasId, Statuses, Terminal
<1>6. CASE UNCHANGED vars
  BY <1>6 DEF vars, TypeOK, HandlerHasId
<1>7. QED
  BY <1>1, <1>2, <1>3, <1>4, <1>5, <1>6 DEF Next, Startup

-----------------------------------------------------------------------------
(* What is in processing/.                                                  *)

Held == IdleUnlessUp /\ SweptFirst /\ RequeuedIsOut /\ ClaimedIsHeld

(* A step that adds nothing to processing/ and lets the worker keep its item *)
(* leaves everything there held.                                             *)
LEMMA KeepsHeld ==
  ASSUME Held, processing' \subseteq processing, UNCHANGED <<up, wid>>, lost \subseteq lost',
         wpc' = "markQueued" => wid \notin processing', wpc' = "idle" \/ up = "up"
  PROVE  Held'
BY DEF Held, IdleUnlessUp, SweptFirst, RequeuedIsOut, ClaimedIsHeld

(* So does one that lets go of an item whose file is out of processing/, or *)
(* which an I/O error is on record for.                                     *)
LEMMA LettingGoKeepsHeld ==
  ASSUME Held, WDone, processing' \subseteq processing, UNCHANGED up, lost \subseteq lost',
         wid \notin processing' \/ wid \in lost'
  PROVE  Held'
BY DEF Held, IdleUnlessUp, SweptFirst, RequeuedIsOut, ClaimedIsHeld, WDone

(* Every step keeps what is in processing/ held by the worker. *)
LEMMA StepHeld ==
  ASSUME TypeOK, Held, [Next]_vars
  PROVE  Held'
<1> USE DEF inbox, worker, bounds, ghosts, NoFault, Fault, Harmless
<1>1. ASSUME NEW c \in Clients, HandlerStep(c) \/ \E i \in Ids : Request(c, i)
      PROVE  Held'
  <2>1. UNCHANGED <<processing, up, wid, wpc>> /\ lost \subseteq lost'
    BY <1>1 DEF HandlerStep, SubmitEnqueue, RetranscribeEnqueue, RetranscribeStatus,
       CancelQueuedStatus, Request, Submit, Retranscribe, CancelQueued, CancelProcessing,
       DeleteRecording, Enqueue
  <2>2. QED
    BY <2>1 DEF Held, IdleUnlessUp, SweptFirst, RequeuedIsOut, ClaimedIsHeld
<1>2. ASSUME NEW i \in Ids, WClaim(i) PROVE Held'
  BY <1>2 DEF WClaim, TypeOK, Held, IdleUnlessUp, SweptFirst, RequeuedIsOut, ClaimedIsHeld
<1>3. CASE WorkerStep /\ wpc # "idle"
  <2> USE <1>3 DEF WStep
  <2>0. up = "up"
    BY DEF Held, IdleUnlessUp
  <2>1. CASE \/ WPublish \/ WStart \/ WTranscribe \/ WCheckpoint \/ WCleanupStart
             \/ WCleanupEnd \/ WHookEnd \/ WEnrich \/ WCancelStatus \/ WCountAttempt \/ WGiveUp
    BY <2>0, <2>1, KeepsHeld DEF WPublish, WStart, WTranscribe, WCheckpoint, WCleanupStart,
       WCleanupEnd, WHookEnd, WEnrich, WCancelStatus, WCountAttempt, WGiveUp
  <2>2. CASE WRequeue
    BY <2>0, <2>2, KeepsHeld DEF WRequeue
  <2>3. CASE WPersist \/ WHookStart \/ WFinalize \/ WBadAudio \/ WBadHook
    <3>1. CASE WDone /\ wid \in lost'
      BY <2>3, <3>1, LettingGoKeepsHeld DEF WPersist, WHookStart, WFinalize, WBadAudio,
         WBadHook, WFail, WBail
    <3>2. CASE UNCHANGED <<wid, lost>> /\ wpc' # "markQueued"
      BY <2>0, <2>3, <3>2, KeepsHeld DEF WPersist, WHookStart, WFinalize, WBadAudio, WBadHook,
         WFail
    <3>3. QED
      BY <2>3, <3>1, <3>2 DEF WPersist, WHookStart, WFinalize, WBadAudio, WBadHook, WFail, WBail
  <2>4. CASE WFinish \/ WArchive \/ WQuarantine
    BY <2>4, LettingGoKeepsHeld DEF WFinish, WArchive, WQuarantine
  <2>5. CASE WMarkQueued
    BY <2>5, LettingGoKeepsHeld DEF WMarkQueued, Held, RequeuedIsOut
  <2>6. QED
    BY <2>1, <2>2, <2>3, <2>4, <2>5 DEF WorkerStep, WClaim
<1>4. CASE Crash
  BY <1>4 DEF Crash, WDone, Held, IdleUnlessUp, SweptFirst, RequeuedIsOut, ClaimedIsHeld
<1>5. CASE Recover
  BY <1>5 DEF Recover, Held, IdleUnlessUp, SweptFirst, RequeuedIsOut, ClaimedIsHeld
<1>6. CASE Sweep
  BY <1>6 DEF Sweep, Held, IdleUnlessUp, SweptFirst, RequeuedIsOut, ClaimedIsHeld
<1>7. CASE UNCHANGED vars
  BY <1>7 DEF vars, Held, IdleUnlessUp, SweptFirst, RequeuedIsOut, ClaimedIsHeld
<1>8. CASE WorkerStep /\ wpc = "idle"
  BY <1>2, <1>8 DEF WorkerStep, WPublish, WStart, WTranscribe, WCheckpoint, WCleanupStart,
     WCleanupEnd, WPersist, WHookStart, WHookEnd, WEnrich, WFinalize, WFinish, WCancelStatus,
     WArchive, WBadAudio, WBadHook, WFail, WQuarantine, WCountAttempt, WRequeue, WMarkQueued,
     WGiveUp
<1>9. QED
  BY <1>1, <1>3, <1>4, <1>5, <1>6, <1>7, <1>8 DEF Next, Startup

-----------------------------------------------------------------------------
(* Who asked for a cancel.                                                  *)

Asked == TokenIsAsked /\ WithdrawnIsAsked /\ OnlyAskedIsCancelled

(* A request that cancels says so before any status does. *)
LEMMA ClientAsked ==
  ASSUME TypeOK, HandlerHasId, Asked, NEW c \in Clients,
         HandlerStep(c) \/ \E i \in Ids : Request(c, i)
  PROVE  Asked'
<1> USE DEF TypeOK, HandlerHasId, Asked, TokenIsAsked, WithdrawnIsAsked, OnlyAskedIsCancelled,
            inbox, worker, bounds, ghosts, Calls, Goto, Return, Idle, SetStatus, Enqueue
<1>1. ASSUME NEW i \in Ids, Submit(c, i) PROVE Asked'
  BY <1>1 DEF Submit
<1>2. ASSUME NEW i \in Ids, NEW kind \in Kinds \cup {"plain"}, Retranscribe(c, i, kind)
      PROVE  Asked'
  BY <1>2 DEF Retranscribe
<1>3. ASSUME NEW i \in Ids, CancelQueued(c, i) PROVE Asked'
  BY <1>3 DEF CancelQueued
<1>4. ASSUME NEW i \in Ids, CancelProcessing(c, i) PROVE Asked'
  BY <1>4 DEF CancelProcessing
<1>5. ASSUME NEW i \in Ids, DeleteRecording(c, i) PROVE Asked'
  BY <1>5 DEF DeleteRecording
<1>6. CASE SubmitEnqueue(c)
  BY <1>6 DEF SubmitEnqueue
<1>7. CASE RetranscribeEnqueue(c)
  BY <1>7 DEF RetranscribeEnqueue
<1>8. CASE RetranscribeStatus(c)
  BY <1>8 DEF RetranscribeStatus
<1>9. CASE CancelQueuedStatus(c)
  BY <1>9 DEF CancelQueuedStatus
<1>10. QED
  BY <1>1, <1>2, <1>3, <1>4, <1>5, <1>6, <1>7, <1>8, <1>9 DEF HandlerStep, Request

(* The worker takes the cancelled way out only of an item whose token was   *)
(* cancelled, and clears the token when it lets go of the item.             *)
LEMMA WorkerAsked ==
  ASSUME TypeOK, Asked, WorkerStep
  PROVE  Asked'
<1> USE DEF TypeOK, Asked, TokenIsAsked, WithdrawnIsAsked, OnlyAskedIsCancelled,
            inbox, worker, bounds, ghosts, SetStatus, WStep, WDone
<1>1. ASSUME NEW i \in Ids, WClaim(i) PROVE Asked'
  BY <1>1 DEF WClaim
<1>2. CASE WPublish
  BY <1>2 DEF WPublish
<1>3. CASE WStart
  BY <1>3 DEF WStart
<1>4. CASE WTranscribe \/ WCheckpoint
  BY <1>4 DEF WTranscribe, WCheckpoint
<1>5. CASE WCleanupStart \/ WCleanupEnd
  BY <1>5 DEF WCleanupStart, WCleanupEnd
<1>6. CASE WPersist \/ WHookStart \/ WHookEnd
  <2>1. /\ UNCHANGED asked /\ UNCHANGED me /\ wpc' \notin {"cancel", "archive"}
        /\ \A i \in Ids : status'[i] = "Cancelled" => status[i] = "Cancelled"
    BY <1>6 DEF WPersist, WHookStart, WHookEnd, WBail
  <2>2. UNCHANGED <<token, slot, wid>> \/ token' = FALSE
    BY <1>6 DEF WPersist, WHookStart, WHookEnd, WBail
  <2>3. QED
    BY <2>1, <2>2
<1>7. CASE WEnrich \/ WFinalize
  <2>1. /\ UNCHANGED asked /\ UNCHANGED me /\ wpc' \notin {"cancel", "archive"}
        /\ \A i \in Ids : status'[i] = "Cancelled" => status[i] = "Cancelled"
    BY <1>7 DEF WEnrich, WFinalize, WBail
  <2>2. UNCHANGED <<token, slot, wid>> \/ token' = FALSE
    BY <1>7 DEF WEnrich, WFinalize, WBail
  <2>3. QED
    BY <2>1, <2>2
<1>8. CASE WFinish \/ WArchive \/ WQuarantine
  BY <1>8 DEF WFinish, WArchive, WQuarantine
<1>9. CASE WCancelStatus
  BY <1>9 DEF WCancelStatus
<1>10. CASE WBadAudio \/ WBadHook
  BY <1>10 DEF WBadAudio, WBadHook, WFail, WBail
<1>11. CASE WCountAttempt \/ WRequeue
  BY <1>11 DEF WCountAttempt, WRequeue
<1>12. CASE WMarkQueued \/ WGiveUp
  BY <1>12 DEF WMarkQueued, WGiveUp
<1>13. QED
  BY <1>1, <1>2, <1>3, <1>4, <1>5, <1>6, <1>7, <1>8, <1>9, <1>10, <1>11, <1>12
     DEF WorkerStep

(* Every step, a crash included, keeps Cancelled to what was asked for. *)
LEMMA StepAsked ==
  ASSUME TypeOK, HandlerHasId, Asked, [Next]_vars
  PROVE  Asked'
<1> USE DEF Asked, TokenIsAsked, WithdrawnIsAsked, OnlyAskedIsCancelled, inbox, worker,
            bounds, ghosts
<1>1. CASE Crash
  BY <1>1 DEF Crash, WDone, Idle
<1>2. CASE Recover
  BY <1>2 DEF Recover
<1>3. CASE Sweep
  BY <1>3 DEF Sweep, TypeOK
<1>4. CASE UNCHANGED vars
  BY <1>4 DEF vars
<1>5. CASE WorkerStep
  BY <1>5, WorkerAsked
<1>6. CASE \E c \in Clients : HandlerStep(c) \/ \E i \in Ids : Request(c, i)
  BY <1>6, ClientAsked
<1>7. QED
  BY <1>1, <1>2, <1>3, <1>4, <1>5, <1>6 DEF Next, Startup

-----------------------------------------------------------------------------
(* What backs a busy row.                                                   *)

(* The item that is run keeps its file until its run is over. *)
LEMMA StepRunHasFile ==
  ASSUME TypeOK, IdleUnlessUp, RunHasFile, [Next]_vars
  PROVE  RunHasFile'
<1> USE DEF RunHasFile, inbox, worker, bounds, ghosts
<1>1. ASSUME NEW c \in Clients, HandlerStep(c) \/ \E i \in Ids : Request(c, i)
      PROVE  RunHasFile'
  <2>1. UNCHANGED <<processing, wid, wpc>>
    BY <1>1 DEF HandlerStep, SubmitEnqueue, RetranscribeEnqueue, RetranscribeStatus,
       CancelQueuedStatus, Request, Submit, Retranscribe, CancelQueued, CancelProcessing,
       DeleteRecording, Enqueue
  <2>2. QED
    BY <2>1
<1>2. CASE WorkerStep
  <2>1. ASSUME NEW i \in Ids, WClaim(i) PROVE RunHasFile'
    BY <2>1 DEF WClaim
  <2>2. CASE \/ WPublish \/ WStart \/ WTranscribe \/ WCheckpoint \/ WCleanupStart
             \/ WCleanupEnd \/ WHookEnd \/ WEnrich \/ WCancelStatus \/ WCountAttempt \/ WGiveUp
    <3>1. UNCHANGED <<processing, wid>>
      BY <2>2 DEF WPublish, WStart, WTranscribe, WCheckpoint, WCleanupStart, WCleanupEnd,
         WHookEnd, WEnrich, WCancelStatus, WCountAttempt, WGiveUp, WStep
    <3>2. wpc \notin {"idle", "markQueued"}
      BY <2>2 DEF WPublish, WStart, WTranscribe, WCheckpoint, WCleanupStart, WCleanupEnd,
         WHookEnd, WEnrich, WCancelStatus, WCountAttempt, WGiveUp
    <3>3. QED
      BY <3>1, <3>2
  <2>3. CASE WPersist \/ WHookStart \/ WFinalize \/ WBadAudio \/ WBadHook
    BY <2>3 DEF WPersist, WHookStart, WFinalize, WBadAudio, WBadHook, WFail, WBail, WDone, WStep
  <2>4. CASE WFinish \/ WArchive \/ WQuarantine \/ WMarkQueued
    BY <2>4 DEF WFinish, WArchive, WQuarantine, WMarkQueued, WDone
  <2>5. CASE WRequeue
    BY <2>5 DEF WRequeue, WStep
  <2>6. QED
    BY <1>2, <2>1, <2>2, <2>3, <2>4, <2>5 DEF WorkerStep
<1>3. CASE Crash
  BY <1>3 DEF Crash, WDone
<1>4. CASE Startup
  BY <1>4 DEF Startup, Recover, Sweep, IdleUnlessUp
<1>5. CASE UNCHANGED vars
  BY <1>5 DEF vars
<1>6. QED
  BY <1>1, <1>2, <1>3, <1>4, <1>5 DEF Next

(* Before the first crash only the item that is run, in the middle of its   *)
(* run, has a status that the sweep passes over.                            *)
LEMMA StepUnsweptIsRunning ==
  ASSUME TypeOK, HandlerHasId, UnsweptIsRunning, [Next]_vars
  PROVE  UnsweptIsRunning'
<1> USE DEF UnsweptIsRunning, inbox, worker, bounds, ghosts, SetStatus, Fault, NoFault, Harmless
<1>1. ASSUME NEW c \in Clients, HandlerStep(c) \/ \E i \in Ids : Request(c, i)
      PROVE  UnsweptIsRunning'
  <2>1. UNCHANGED <<wid, wpc, crashes>> /\ lost \subseteq lost'
    BY <1>1 DEF HandlerStep, SubmitEnqueue, RetranscribeEnqueue, RetranscribeStatus,
       CancelQueuedStatus, Request, Submit, Retranscribe, CancelQueued, CancelProcessing,
       DeleteRecording
  <2>2. \A i \in Ids : status'[i] \in Unswept => status[i] \in Unswept
    <3>1. CASE HandlerStep(c)
      BY <3>1 DEF HandlerStep, SubmitEnqueue, RetranscribeEnqueue, RetranscribeStatus,
         CancelQueuedStatus, TypeOK, HandlerHasId, Unswept, Swept, InFlight
    <3>2. CASE \E i \in Ids : Request(c, i)
      BY <3>2 DEF Request, Submit, Retranscribe, CancelQueued, CancelProcessing,
         DeleteRecording, TypeOK, Unswept, Swept, InFlight
    <3>3. QED
      BY <1>1, <3>1, <3>2
  <2>3. QED
    BY <2>1, <2>2
<1>2. CASE WorkerStep
  <2> USE DEF TypeOK, Inside, WStep, Unswept, Swept, InFlight
  <2>1. CASE \/ (\E i \in Ids : WClaim(i)) \/ WPublish \/ WTranscribe \/ WCheckpoint
             \/ WCountAttempt \/ WFinish \/ WArchive \/ WQuarantine \/ WRequeue
    <3>1. wpc \notin Inside
      BY <2>1 DEF WClaim, WPublish, WTranscribe, WCheckpoint, WCountAttempt, WFinish, WArchive,
         WQuarantine, WRequeue
    <3>2. UNCHANGED <<status, crashes>> /\ lost \subseteq lost'
      BY <2>1 DEF WClaim, WPublish, WTranscribe, WCheckpoint, WCountAttempt, WFinish, WArchive,
         WQuarantine, WRequeue
    <3>3. QED
      BY <3>1, <3>2
  <2>2. CASE WStart \/ WMarkQueued \/ WGiveUp \/ WBadAudio
    <3>1. wpc \notin Inside
      BY <2>2 DEF WStart, WMarkQueued, WGiveUp, WBadAudio, WFail
    <3>2. UNCHANGED crashes /\ lost \subseteq lost'
      BY <2>2 DEF WStart, WMarkQueued, WGiveUp, WBadAudio, WFail, WBail
    <3>3. \A i \in Ids : status'[i] \in Unswept => status[i] \in Unswept
      BY <2>2 DEF WStart, WMarkQueued, WGiveUp, WBadAudio, WFail, WBail
    <3>4. QED
      BY <3>1, <3>2, <3>3
  <2>3. CASE WCleanupStart \/ WCleanupEnd \/ WHookEnd \/ WEnrich
    <3>1. UNCHANGED <<wid, crashes>> /\ lost \subseteq lost'
      BY <2>3 DEF WCleanupStart, WCleanupEnd, WHookEnd, WEnrich
    <3>2. wpc' \in Inside
      BY <2>3 DEF WCleanupStart, WCleanupEnd, WHookEnd, WEnrich
    <3>3. \A i \in Ids \ {wid} : status'[i] = status[i]
      BY <2>3 DEF WCleanupStart, WCleanupEnd, WHookEnd, WEnrich
    <3>4. QED
      BY <3>1, <3>2, <3>3
  <2>4. CASE WPersist \/ WHookStart \/ WFinalize \/ WBadHook \/ WCancelStatus
    <3>1. UNCHANGED crashes /\ lost \subseteq lost'
      BY <2>4 DEF WPersist, WHookStart, WFinalize, WBadHook, WFail, WBail, WCancelStatus
    <3>2. \A i \in Ids \ {wid} : status'[i] = status[i]
      BY <2>4 DEF WPersist, WHookStart, WFinalize, WBadHook, WFail, WBail, WCancelStatus
    <3>3. \/ wid \in lost' \/ status'[wid] \notin Unswept
          \/ wid' = wid /\ wpc' \in Inside
      BY <2>4 DEF WPersist, WHookStart, WFinalize, WBadHook, WFail, WBail, WCancelStatus
    <3>4. QED
      BY <3>1, <3>2, <3>3
  <2>5. QED
    BY <1>2, <2>1, <2>2, <2>3, <2>4 DEF WorkerStep
<1>3. CASE Crash
  BY <1>3 DEF Crash, TypeOK
<1>4. CASE Recover
  BY <1>4 DEF Recover
<1>5. CASE Sweep
  BY <1>5 DEF Sweep, TypeOK, Unswept, Swept, InFlight
<1>6. CASE UNCHANGED vars
  BY <1>6 DEF vars
<1>7. QED
  BY <1>1, <1>2, <1>3, <1>4, <1>5, <1>6 DEF Next, Startup

(* The worker steps only in a running daemon. *)
LEMMA WorkerIsUp ==
  ASSUME IdleUnlessUp, WorkerStep
  PROVE  up = "up" /\ UNCHANGED up
<1>1. \/ wpc = "idle" /\ up = "up"
      \/ wpc # "idle"
  BY DEF WorkerStep, WClaim, WPublish, WStart, WTranscribe, WCheckpoint, WCleanupStart,
     WCleanupEnd, WPersist, WHookStart, WHookEnd, WEnrich, WFinalize, WFinish, WCancelStatus,
     WArchive, WBadAudio, WBadHook, WFail, WQuarantine, WCountAttempt, WRequeue, WMarkQueued,
     WGiveUp
<1>2. UNCHANGED up
  BY DEF WorkerStep, WClaim, WPublish, WStart, WTranscribe, WCheckpoint, WCleanupStart,
     WCleanupEnd, WPersist, WHookStart, WHookEnd, WEnrich, WFinalize, WFinish, WCancelStatus,
     WArchive, WBadAudio, WBadHook, WFail, WQuarantine, WCountAttempt, WRequeue, WMarkQueued,
     WGiveUp
<1>3. QED
  BY <1>1, <1>2 DEF IdleUnlessUp

(* After a first crash, and until the catalog is swept, such a row has its  *)
(* file: the crash found it in the hands of the worker.                     *)
LEMMA StepUnsweptHasFile ==
  ASSUME TypeOK, HandlerHasId, IdleUnlessUp, RunHasFile, UnsweptIsRunning, UnsweptHasFile,
         [Next]_vars
  PROVE  UnsweptHasFile'
<1> USE DEF UnsweptHasFile, Works, inbox, worker, bounds, ghosts
<1>1. ASSUME NEW c \in Clients, HandlerStep(c), up # "up"
      PROVE  UnsweptHasFile'
  <2> USE DEF TypeOK, HandlerHasId, NoFault, Fault, Harmless, SetStatus, Enqueue, MarkLate,
              Unswept, Swept, InFlight
  <2>1. CASE SubmitEnqueue(c)
    BY <1>1, <2>1 DEF SubmitEnqueue
  <2>2. CASE RetranscribeEnqueue(c)
    BY <1>1, <2>2 DEF RetranscribeEnqueue
  <2>3. CASE RetranscribeStatus(c)
    BY <1>1, <2>3 DEF RetranscribeStatus
  <2>4. CASE CancelQueuedStatus(c)
    BY <1>1, <2>4 DEF CancelQueuedStatus
  <2>5. QED
    BY <1>1, <2>1, <2>2, <2>3, <2>4 DEF HandlerStep
<1>2. CASE Crash
  BY <1>2 DEF Crash, TypeOK, RunHasFile, UnsweptIsRunning, Inside
<1>3. CASE Recover
  BY <1>3 DEF Recover
<1>4. CASE Sweep
  BY <1>4 DEF Sweep
<1>5. CASE UNCHANGED vars
  BY <1>5 DEF vars
<1>6. ASSUME up = "up", UNCHANGED up PROVE UnsweptHasFile'
  BY <1>6
<1>7. ASSUME NEW c \in Clients, NEW i \in Ids, Request(c, i)
      PROVE  up = "up" /\ UNCHANGED up
  BY <1>7 DEF Request, Submit, Retranscribe, CancelQueued, CancelProcessing, DeleteRecording,
     Calls
<1>8. CASE WorkerStep
  BY <1>6, <1>8, WorkerIsUp
<1>9. ASSUME NEW c \in Clients, HandlerStep(c) PROVE UNCHANGED up
  BY <1>9 DEF HandlerStep, SubmitEnqueue, RetranscribeEnqueue, RetranscribeStatus,
     CancelQueuedStatus
<1>10. QED
  BY <1>1, <1>2, <1>3, <1>4, <1>5, <1>6, <1>7, <1>8, <1>9 DEF Next, Startup

(* A handler that makes a row busy, or withdraws its file, is about to make *)
(* good for it; one whose write finds nothing to speak of is late.          *)
LEMMA ClientRowsAreSafe ==
  ASSUME TypeOK, HandlerHasId, RowsAreSafe, up = "up", NEW c \in Clients,
         HandlerStep(c) \/ \E i \in Ids : Request(c, i)
  PROVE  RowsAreSafe'
<1> USE DEF TypeOK, HandlerHasId, RowsAreSafe, RowIsSafe, HandlerOwns, Settling, inbox, worker,
            bounds, ghosts, Calls, Goto, Return, Idle, NoFault, Fault, Harmless, SetStatus,
            Enqueue, InFlight, Swept
<1>1. ASSUME NEW i \in Ids, Submit(c, i) PROVE RowsAreSafe'
  BY <1>1 DEF Submit
<1>2. ASSUME NEW i \in Ids, NEW kind \in Kinds \cup {"plain"}, Retranscribe(c, i, kind)
      PROVE  RowsAreSafe'
  BY <1>2 DEF Retranscribe
<1>3. ASSUME NEW i \in Ids, CancelQueued(c, i) PROVE RowsAreSafe'
  BY <1>3 DEF CancelQueued
<1>4. ASSUME NEW i \in Ids, CancelProcessing(c, i) PROVE RowsAreSafe'
  BY <1>4 DEF CancelProcessing
<1>5. ASSUME NEW i \in Ids, DeleteRecording(c, i) PROVE RowsAreSafe'
  BY <1>5 DEF DeleteRecording
<1>6. CASE SubmitEnqueue(c)
  BY <1>6 DEF SubmitEnqueue
<1>7. CASE RetranscribeEnqueue(c)
  BY <1>7 DEF RetranscribeEnqueue
<1>8. CASE RetranscribeStatus(c)
  BY <1>8 DEF RetranscribeStatus, MarkLate
<1>9. CASE CancelQueuedStatus(c)
  BY <1>9 DEF CancelQueuedStatus
<1>10. QED
  BY <1>1, <1>2, <1>3, <1>4, <1>5, <1>6, <1>7, <1>8, <1>9 DEF HandlerStep, Request

(* The worker lets go of an item only with its row at rest, its file back   *)
(* in pending/, or an I/O error on record.                                  *)
LEMMA WorkerRowsAreSafe ==
  ASSUME TypeOK, RowsAreSafe, up = "up", WorkerStep
  PROVE  RowsAreSafe'
<1> USE DEF TypeOK, RowsAreSafe, RowIsSafe, HandlerOwns, Settling, inbox, worker, bounds,
            ghosts, NoFault, Fault, Harmless, SetStatus, WStep, WDone
<1>1. ASSUME NEW i \in Ids, WClaim(i) PROVE RowsAreSafe'
  BY <1>1 DEF WClaim
<1>2. CASE \/ WPublish \/ WStart \/ WTranscribe \/ WCheckpoint \/ WCleanupStart
           \/ WCleanupEnd \/ WHookEnd \/ WEnrich \/ WCountAttempt
  <2> USE DEF WPublish, WStart, WTranscribe, WCheckpoint, WCleanupStart, WCleanupEnd, WHookEnd,
              WEnrich, WCountAttempt
  <2>1. UNCHANGED <<pending, wid, me, late, crashes>> /\ lost \subseteq lost'
    BY <1>2
  <2>2. wpc' \notin {"markQueued", "finish", "archive", "quarantine"}
    BY <1>2
  <2>3. \A i \in Ids \ {wid} : status'[i] = status[i]
    BY <1>2
  <2>4. QED
    BY <2>1, <2>2, <2>3
<1>3. CASE WPersist \/ WHookStart \/ WFinalize \/ WCancelStatus \/ WBadAudio \/ WBadHook
           \/ WGiveUp
  <2> USE DEF WPersist, WHookStart, WFinalize, WCancelStatus, WBadAudio, WBadHook, WFail,
              WGiveUp, WBail
  <2>1. UNCHANGED <<pending, me, late, crashes>> /\ lost \subseteq lost'
    BY <1>3
  <2>2. \A i \in Ids \ {wid} : status'[i] = status[i]
    BY <1>3
  <2>3. \/ wid \in lost' \/ status'[wid] \notin InFlight
        \/ wid' = wid /\ wpc' \notin {"markQueued", "finish", "archive", "quarantine"}
    BY <1>3 DEF InFlight
  <2>4. QED
    BY <2>1, <2>2, <2>3
<1>4. CASE WFinish \/ WArchive \/ WQuarantine
  <2> USE DEF WFinish, WArchive, WQuarantine
  <2>1. UNCHANGED <<pending, status, me, late, crashes>> /\ lost \subseteq lost'
    BY <1>4
  <2>2. wpc \in {"finish", "archive", "quarantine"}
    BY <1>4
  <2>3. QED
    BY <2>1, <2>2
<1>5. CASE WRequeue
  BY <1>5 DEF WRequeue
<1>6. CASE WMarkQueued
  BY <1>6 DEF WMarkQueued, MarkLate
<1>7. QED
  BY <1>1, <1>2, <1>3, <1>4, <1>5, <1>6 DEF WorkerStep

(* The sweep leaves alone what recovery put back in pending/, and fails the *)
(* other rows that it looks at.                                             *)
LEMMA StepRowsAreSafe ==
  ASSUME TypeOK, HandlerHasId, IdleUnlessUp, SweptFirst, UnsweptHasFile, RowsAreSafe,
         [Next]_vars
  PROVE  RowsAreSafe'
<1> USE DEF inbox, worker, bounds, ghosts
<1>1. ASSUME NEW c \in Clients, HandlerStep(c) \/ \E i \in Ids : Request(c, i)
      PROVE  RowsAreSafe'
  <2>1. UNCHANGED up
    BY <1>1 DEF HandlerStep, SubmitEnqueue, RetranscribeEnqueue, RetranscribeStatus,
       CancelQueuedStatus, Request, Submit, Retranscribe, CancelQueued, CancelProcessing,
       DeleteRecording
  <2>2. CASE up = "up"
    BY <1>1, <2>2, ClientRowsAreSafe
  <2>3. CASE up # "up"
    BY <2>1, <2>3 DEF RowsAreSafe
  <2>4. QED
    BY <2>2, <2>3
<1>2. CASE WorkerStep
  BY <1>2, WorkerIsUp, WorkerRowsAreSafe
<1>3. CASE Crash \/ Recover
  BY <1>3 DEF Crash, Recover, RowsAreSafe
<1>4. CASE Sweep
  <2>1. ASSUME NEW i \in Ids \ (late \cup lost), status'[i] \in InFlight,
               status'[i] \in Swept \/ crashes <= 1
        PROVE  i \in pending
    <3>1. status'[i] = status[i]
      BY <1>4, <2>1 DEF Sweep, InFlight
    <3>2. CASE status[i] \in Swept
      BY <1>4, <2>1, <3>1, <3>2 DEF Sweep, InFlight, Works, SweptFirst
    <3>3. CASE status[i] \notin Swept
      BY <1>4, <2>1, <3>1, <3>3 DEF Sweep, Works, SweptFirst, UnsweptHasFile, Unswept
    <3>4. QED
      BY <3>2, <3>3
  <2>2. QED
    BY <1>4, <2>1 DEF Sweep, RowsAreSafe, RowIsSafe
<1>5. CASE UNCHANGED vars
  BY <1>5 DEF vars, RowsAreSafe, RowIsSafe, HandlerOwns, Settling
<1>6. QED
  BY <1>1, <1>2, <1>3, <1>4, <1>5 DEF Next, Startup

-----------------------------------------------------------------------------
(* Where cancelled work is.                                                 *)

(* Only a crash takes the daemon down. *)
LEMMA StepUpUntilCrash ==
  ASSUME TypeOK, UpUntilCrash, [Next]_vars
  PROVE  UpUntilCrash'
<1> USE DEF UpUntilCrash, inbox, worker, bounds, ghosts
<1>1. ASSUME NEW c \in Clients, HandlerStep(c) \/ \E i \in Ids : Request(c, i)
      PROVE  UpUntilCrash'
  BY <1>1 DEF HandlerStep, SubmitEnqueue, RetranscribeEnqueue, RetranscribeStatus,
     CancelQueuedStatus, Request, Submit, Retranscribe, CancelQueued, CancelProcessing,
     DeleteRecording
<1>2. CASE WorkerStep
  BY <1>2 DEF WorkerStep, WClaim, WPublish, WStart, WTranscribe, WCheckpoint, WCleanupStart,
     WCleanupEnd, WPersist, WHookStart, WHookEnd, WEnrich, WFinalize, WFinish, WCancelStatus,
     WArchive, WBadAudio, WBadHook, WFail, WBail, WQuarantine, WCountAttempt, WRequeue,
     WMarkQueued, WGiveUp
<1>3. CASE Crash
  BY <1>3 DEF Crash, TypeOK
<1>4. CASE Startup
  BY <1>4 DEF Startup, Recover, Sweep
<1>5. CASE UNCHANGED vars
  BY <1>5 DEF vars
<1>6. QED
  BY <1>1, <1>2, <1>3, <1>4, <1>5 DEF Next

(* A request that brings cancelled work back counts as new; one that        *)
(* withdraws a file while a run of the same recording is on cancels the     *)
(* file alone.                                                              *)
LEMMA ClientDropped ==
  ASSUME TypeOK, HandlerHasId, DroppedIsOut, NEW c \in Clients,
         HandlerStep(c) \/ \E i \in Ids : Request(c, i)
  PROVE  DroppedIsOut'
<1> USE DEF TypeOK, HandlerHasId, DroppedIsOut, inbox, worker, bounds, ghosts, NoFault, Fault,
            Harmless, Enqueue
<1>1. CASE SubmitEnqueue(c) \/ RetranscribeEnqueue(c)
  BY <1>1 DEF SubmitEnqueue, RetranscribeEnqueue
<1>2. CASE RetranscribeStatus(c) \/ CancelQueuedStatus(c)
  BY <1>2 DEF RetranscribeStatus, CancelQueuedStatus
<1>3. ASSUME NEW i \in Ids, CancelQueued(c, i) PROVE DroppedIsOut'
  BY <1>3 DEF CancelQueued
<1>4. ASSUME NEW i \in Ids,
             \/ Submit(c, i) \/ CancelProcessing(c, i) \/ DeleteRecording(c, i)
             \/ \E kind \in Kinds \cup {"plain"} : Retranscribe(c, i, kind)
      PROVE  DroppedIsOut'
  BY <1>4 DEF Submit, CancelProcessing, DeleteRecording, Retranscribe
<1>5. QED
  BY <1>1, <1>2, <1>3, <1>4 DEF HandlerStep, Request

(* The run of a cancelled item does nothing with its file but archive it,   *)
(* and the worker claims only what is in pending/.                          *)
LEMMA WorkerDropped ==
  ASSUME TypeOK, RunHasFile, RequeuedIsOut, DroppedIsOut, WorkerStep
  PROVE  DroppedIsOut'
<1> USE DEF TypeOK, RunHasFile, RequeuedIsOut, DroppedIsOut, inbox, worker, bounds, ghosts,
            NoFault, Fault, Harmless, WStep, WDone
<1>1. ASSUME NEW i \in Ids, WClaim(i) PROVE DroppedIsOut'
  BY <1>1 DEF WClaim
<1>2. CASE \/ WPublish \/ WStart \/ WTranscribe \/ WCheckpoint \/ WCleanupStart
           \/ WCleanupEnd \/ WHookEnd \/ WEnrich \/ WCountAttempt \/ WGiveUp
           \/ WPersist \/ WHookStart \/ WFinalize \/ WBadAudio \/ WBadHook \/ WMarkQueued
  <2> USE DEF WPublish, WStart, WTranscribe, WCheckpoint, WCleanupStart, WCleanupEnd, WHookEnd,
              WEnrich, WCountAttempt, WGiveUp, WPersist, WHookStart, WFinalize, WBadAudio,
              WBadHook, WFail, WBail, WMarkQueued
  <2>1. UNCHANGED <<pending, processing, dropped, crashes>> /\ lost \subseteq lost'
    BY <1>2
  <2>2. wpc # "archive"
    BY <1>2
  <2>3. QED
    BY <2>1, <2>2
<1>3. CASE WFinish \/ WQuarantine \/ WArchive
  BY <1>3 DEF WFinish, WQuarantine, WArchive
<1>4. CASE WCancelStatus
  BY <1>4 DEF WCancelStatus
<1>5. CASE WRequeue
  BY <1>5 DEF WRequeue
<1>6. QED
  BY <1>1, <1>2, <1>3, <1>4, <1>5 DEF WorkerStep

(* Until the first crash, cancelled work is in neither directory, or in the *)
(* worker's hands on its way to the archive.                                *)
LEMMA StepDropped ==
  ASSUME TypeOK, HandlerHasId, RunHasFile, RequeuedIsOut, UpUntilCrash, DroppedIsOut,
         [Next]_vars
  PROVE  DroppedIsOut'
<1> USE DEF DroppedIsOut, inbox, worker, bounds, ghosts
<1>1. CASE \E c \in Clients : HandlerStep(c) \/ \E i \in Ids : Request(c, i)
  BY <1>1, ClientDropped
<1>2. CASE WorkerStep
  BY <1>2, WorkerDropped
<1>3. CASE Crash
  BY <1>3 DEF Crash, TypeOK
<1>4. CASE Recover \/ Sweep
  BY <1>4 DEF Recover, Sweep, UpUntilCrash
<1>5. CASE UNCHANGED vars
  BY <1>5 DEF vars
<1>6. QED
  BY <1>1, <1>2, <1>3, <1>4, <1>5 DEF Next, Startup

-----------------------------------------------------------------------------
(* The theorems.                                                            *)

(* The inductive invariant. *)
THEOREM Invariant == Spec => []IInv
<1>1. Init => IInv
  BY InitTypeOK DEF Init, IInv, IdleUnlessUp, SweptFirst, RequeuedIsOut, ClaimedIsHeld,
     TokenIsAsked, WithdrawnIsAsked, OnlyAskedIsCancelled, Idle, RunHasFile, UnsweptIsRunning,
     UnsweptHasFile, RowsAreSafe, RowIsSafe, InFlight, Unswept, UpUntilCrash, DroppedIsOut
<1>2. IInv /\ [Next]_vars => IInv'
  BY StepTypeOK, StepHeld, StepAsked, StepRunHasFile, StepUnsweptIsRunning, StepUnsweptHasFile,
     StepRowsAreSafe, StepUpUntilCrash, StepDropped DEF IInv, Held, Asked
<1>3. QED
  BY <1>1, <1>2, PTL DEF Spec

(* Type correctness: the bounds on the attempts, and that the worker has an *)
(* item exactly while it is at one of its steps.                            *)
THEOREM TypeCorrect == Spec => []TypeOK
<1>1. IInv => TypeOK
  BY DEF IInv
<1>2. QED
  BY <1>1, Invariant, PTL

(* Through retries, failures, cancels and restarts, a running daemon's      *)
(* processing/ holds the item its worker is on, and otherwise only what an  *)
(* I/O error kept there.                                                    *)
THEOREM NothingIsStranded == Spec => []ClaimedIsHeld
<1>1. IInv => ClaimedIsHeld
  BY DEF IInv
<1>2. QED
  BY <1>1, Invariant, PTL

(* However cancels race the worker from one item to the next, none reaches  *)
(* a recording nobody asked to cancel.                                      *)
THEOREM CancelHitsItsTarget == Spec => []OnlyAskedIsCancelled
<1>1. IInv => OnlyAskedIsCancelled
  BY DEF IInv
<1>2. QED
  BY <1>1, Invariant, PTL

(* A row that says its work is under way is backed by a file, the run or a  *)
(* handler, through retries, cancels, deletions and restarts.               *)
THEOREM BusyRowsAreBacked == Spec => []BusyRowsHaveWork
<1>1. IInv => BusyRowsHaveWork
  <2> SUFFICES ASSUME IInv, up = "up", NEW i \in Ids \ (late \cup lost),
                      status[i] \in InFlight, status[i] \in Swept \/ crashes <= 1
               PROVE  Backed(i)
    BY DEF BusyRowsHaveWork
  <2>1. i \in pending \/ Settling(i) \/ HandlerOwns(i)
    BY DEF IInv, RowsAreSafe, RowIsSafe
  <2>2. QED
    BY <2>1 DEF Backed, Works, Settling, HandlerOwns
<1>2. QED
  BY <1>1, Invariant, PTL

(* Whatever else is queued, retried or withdrawn meanwhile, the worker does *)
(* not start on work whose cancellation was accepted, short of a new        *)
(* request, a crash or an I/O error on its file.                            *)
THEOREM CancelledWorkStaysDown == Spec => []CancelledStaysDown
<1>1. IInv => CancelledStaysDown
  BY DEF IInv, CancelledStaysDown, RunHasFile, DroppedIsOut
<1>2. QED
  BY <1>1, Invariant, PTL
=============================================================================
