----------------------------- MODULE InboxQueue -----------------------------
(***************************************************************************)
(* The durable work queue of the phoneme daemon                            *)
(* (crates/phoneme-core/src/queue.rs): four directories, pending/,         *)
(* processing/, done/ and failed/, in which an item is one file and every  *)
(* state change is a rename or an unlink.  One action is one visible       *)
(* file-system step, so a crash, another client of the queue, or the       *)
(* worker can come between any two steps of an operation.                  *)
(*                                                                         *)
(* Three kinds of process use the queue: clients (IPC handlers and the     *)
(* recorder) that enqueue, withdraw, reorder, pause; the single worker     *)
(* that claims an item, runs it and settles it; and startup recovery.      *)
(*                                                                         *)
(* A payload is only ever whole or corrupt; its fields are not modelled.   *)
(* Temporary files are: two enqueues of one id share a temporary path.     *)
(***************************************************************************)
EXTENDS Integers, Sequences, FiniteSets

CONSTANTS Names,        \* file names that can appear, ordered chronologically
          Ids,          \* the names that are canonical RecordingIds
          Clients,      \* tasks that call the queue's client operations
          Manifests,    \* the claim orders a user may set
          DoneKeep,     \* DONE_KEEP: how many done/ markers pruning keeps
          Stuck,        \* files another program holds open for ever
          MaxEnqueues,  \* bound: enqueue calls in a behaviour
          MaxCrashes    \* bound: crashes in a behaviour

ASSUME NamesAssumption == Names \subseteq Nat /\ Ids \subseteq Names
ASSUME ManifestAssumption == Manifests \subseteq Seq(Ids)
ASSUME BoundsAssumption ==
  /\ DoneKeep \in Nat \ {0}
  /\ MaxEnqueues \in Nat
  /\ MaxCrashes \in Nat

NoId == -1
Payload == {"whole", "corrupt"}
File == Payload \cup {"none"}

VARIABLES
  pending, processing,  \* [Names -> File]: the two directories that hold work
  done, failed,         \* sets of names: the two directories of markers
  tmp,                  \* ids with a pending/<id>.json.tmp
  order,                \* pending/.queue-order
  paused,               \* .queue-paused exists
  phase,                \* the daemon: "down", "recovering" or "up"
  todo,                 \* recovery: processing/ entries still to visit
  wpc, wid,             \* the worker: its next step, the item it holds
  scan, worder,         \* the worker: claim_next's snapshot of pending/ and order
  cpc, cid, ctodo,      \* a client: its next step, its id, files left to remove
  enqueues, crashes     \* the bounded counters

(* Observation only: no action of the program reads these. *)
VARIABLES
  owed,       \* ids whose latest accepted request has not been settled
  overlap,    \* ids for which an enqueue and a run were once concurrent
  undeleted   \* ids whose stale processing/ file recovery failed to delete

files == <<pending, processing, done, failed, tmp, order, paused>>
workerVars == <<wpc, wid, scan, worder>>
clientVars == <<cpc, cid, ctodo>>
counters == <<enqueues, crashes>>
ghosts == <<owed, overlap, undeleted>>
vars == <<files, phase, todo, workerVars, clientVars, counters, ghosts>>

WorkerPc == {"check", "scan", "walk", "read", "run", "done_mark", "done_remove",
             "done_prune", "cancel_unmark", "cancel_move", "fail_mark",
             "fail_remove", "requeue_clear", "requeue_move"}
WorkerFree == {"check", "scan", "walk"}
EnqueuePc == {"clear", "write", "rename"}
ClientPc == {"idle", "remove_all"} \cup EnqueuePc

TypeOK ==
  /\ pending \in [Names -> File]
  /\ processing \in [Names -> File]
  /\ done \subseteq Ids
  /\ failed \subseteq Names
  /\ tmp \subseteq Ids
  /\ order \in Seq(Ids)
  /\ paused \in BOOLEAN
  /\ phase \in {"down", "recovering", "up"}
  /\ todo \subseteq Names
  /\ wpc \in WorkerPc
  /\ IF wpc \in WorkerFree THEN wid = NoId ELSE wid \in Ids
  /\ scan \subseteq Names
  /\ worder \in Seq(Ids)
  /\ cpc \in [Clients -> ClientPc]
  /\ cid \in [Clients -> Ids \cup {NoId}]
  /\ \A c \in Clients : cpc[c] \in EnqueuePc => cid[c] \in Ids
  /\ ctodo \in [Clients -> SUBSET Names]
  /\ enqueues \in 0..MaxEnqueues
  /\ crashes \in 0..MaxCrashes
  /\ owed \subseteq Ids
  /\ overlap \subseteq Ids
  /\ undeleted \subseteq Ids

Init ==
  /\ pending = [n \in Names |-> "none"]
  /\ processing = [n \in Names |-> "none"]
  /\ done = {} /\ failed = {} /\ tmp = {}
  /\ order = <<>> /\ paused = FALSE
  /\ phase = "down" /\ todo = {}
  /\ wpc = "check" /\ wid = NoId /\ scan = {} /\ worder = <<>>
  /\ cpc = [c \in Clients |-> "idle"]
  /\ cid = [c \in Clients |-> NoId]
  /\ ctodo = [c \in Clients |-> {}]
  /\ enqueues = 0 /\ crashes = 0
  /\ owed = {} /\ overlap = {} /\ undeleted = {}

Present(dir) == {n \in Names : dir[n] # "none"}

-----------------------------------------------------------------------------
(* Claim order: the ids of the manifest, in its order, then the rest        *)
(* chronologically.  A repeated id counts once: its second path is gone by  *)
(* the time the walk reaches it.                                            *)

Listed(o, n) == \E i \in DOMAIN o : o[i] = n
Place(o, n) == CHOOSE i \in DOMAIN o : o[i] = n /\ \A j \in DOMAIN o : o[j] = n => i <= j
Before(o, m, n) ==
  \/ Listed(o, m) /\ ~Listed(o, n)
  \/ Listed(o, m) /\ Listed(o, n) /\ Place(o, m) < Place(o, n)
  \/ ~Listed(o, m) /\ ~Listed(o, n) /\ m < n
IsNext(f) == f \in scan /\ \A g \in scan \ {f} : Before(worder, f, g)

(* prune_done: keep the DoneKeep newest markers, by name. *)
Newest(S, k) == {n \in S : Cardinality({m \in S : m > n}) < k}

(* The request an item stands for is settled, unless a newer one waits.     *)
Settled(id) == IF pending[id] = "none" THEN owed \ {id} ELSE owed

-----------------------------------------------------------------------------
(* Clients.                                                                 *)

Goto(c, l) == cpc' = [cpc EXCEPT ![c] = l]

EnqueueBegin(c, id) ==
  /\ phase = "up" /\ cpc[c] = "idle" /\ enqueues < MaxEnqueues
  /\ Goto(c, "clear")
  /\ cid' = [cid EXCEPT ![c] = id]
  /\ enqueues' = enqueues + 1
  /\ overlap' = IF processing[id] # "none" THEN overlap \cup {id} ELSE overlap
  /\ UNCHANGED <<files, phase, todo, workerVars, ctodo, crashes, owed, undeleted>>

(* Wrong variant, for testing the properties: the done marker stays. *)
BadEnqueueClear(c) ==
  /\ cpc[c] = "clear"
  /\ failed' = failed \ {cid[c]}
  /\ Goto(c, "write")
  /\ UNCHANGED <<pending, processing, done, tmp, order, paused, phase, todo,
                 workerVars, cid, ctodo, counters, ghosts>>

(* clear_terminal_markers.  No operation reads failed/ to decide anything,  *)
(* so its two unlinks are one step.                                         *)
EnqueueClear(c) ==
  /\ cpc[c] = "clear"
  /\ done' = done \ {cid[c]}
  /\ failed' = failed \ {cid[c]}
  /\ Goto(c, "write")
  /\ UNCHANGED <<pending, processing, tmp, order, paused, phase, todo, workerVars,
                 cid, ctodo, counters, ghosts>>

EnqueueWrite(c) ==
  /\ cpc[c] = "write"
  /\ tmp' = tmp \cup {cid[c]}
  /\ Goto(c, "rename")
  /\ UNCHANGED <<pending, processing, done, failed, order, paused, phase, todo,
                 workerVars, cid, ctodo, counters, ghosts>>

(* The rename replaces a payload already pending.  It fails, and enqueue    *)
(* reports an error, if another enqueue of this id took the temporary file, *)
(* or if the file to replace is held open.                                  *)
EnqueueRename(c) ==
  LET id == cid[c]
      possible == id \in tmp /\ (pending[id] = "none" \/ id \notin Stuck)
  IN
  /\ cpc[c] = "rename"
  /\ \/ /\ possible
        /\ pending' = [pending EXCEPT ![id] = "whole"]
        /\ tmp' = tmp \ {id}
        /\ owed' = owed \cup {id}
     \/ /\ ~possible
        /\ UNCHANGED <<pending, tmp, owed>>
  /\ Goto(c, "idle")
  /\ UNCHANGED <<processing, done, failed, order, paused, phase, todo, workerVars,
                 cid, ctodo, counters, overlap, undeleted>>

(* cancel_pending: withdraw one request that no worker has claimed.         *)
CancelPending(c, id) ==
  /\ phase = "up" /\ cpc[c] = "idle"
  /\ pending[id] # "none" /\ id \notin Stuck
  /\ pending' = [pending EXCEPT ![id] = "none"]
  /\ owed' = owed \ {id}
  /\ UNCHANGED <<processing, done, failed, tmp, order, paused, phase, todo,
                 workerVars, clientVars, counters, overlap, undeleted>>

(* cancel_all_pending: list pending/, unlink each file of the listing, then *)
(* drop the manifest.                                                       *)
CancelAllBegin(c) ==
  /\ phase = "up" /\ cpc[c] = "idle"
  /\ Present(pending) # {}
  /\ Goto(c, "remove_all")
  /\ ctodo' = [ctodo EXCEPT ![c] = Present(pending)]
  /\ UNCHANGED <<files, phase, todo, workerVars, cid, counters, ghosts>>

CancelAllRemove(c, n) ==
  /\ cpc[c] = "remove_all" /\ n \in ctodo[c]
  /\ ctodo' = [ctodo EXCEPT ![c] = @ \ {n}]
  /\ \/ /\ pending[n] # "none" /\ n \notin Stuck
        /\ pending' = [pending EXCEPT ![n] = "none"]
        /\ owed' = owed \ {n}
     \/ UNCHANGED <<pending, owed>>
  /\ UNCHANGED <<processing, done, failed, tmp, order, paused, phase, todo,
                 workerVars, cpc, cid, counters, overlap, undeleted>>

CancelAllEnd(c) ==
  /\ cpc[c] = "remove_all" /\ ctodo[c] = {}
  /\ order' = <<>>
  /\ Goto(c, "idle")
  /\ UNCHANGED <<pending, processing, done, failed, tmp, paused, phase, todo,
                 workerVars, cid, ctodo, counters, ghosts>>

SetOrder(o) ==
  /\ phase = "up" /\ order # o
  /\ order' = o
  /\ UNCHANGED <<pending, processing, done, failed, tmp, paused, phase, todo,
                 workerVars, clientVars, counters, ghosts>>

SetPaused(b) ==
  /\ phase = "up" /\ paused # b
  /\ paused' = b
  /\ UNCHANGED <<pending, processing, done, failed, tmp, order, phase, todo,
                 workerVars, clientVars, counters, ghosts>>

(* dismiss_failed for one name; clear_failed for all of them.               *)
Dismiss(S) ==
  /\ phase = "up" /\ S # {}
  /\ failed' = failed \ S
  /\ UNCHANGED <<pending, processing, done, tmp, order, paused, phase, todo,
                 workerVars, clientVars, counters, ghosts>>
DismissFailed(n) == n \in failed /\ Dismiss({n})
ClearFailed == Dismiss(failed)

-----------------------------------------------------------------------------
(* The worker: claim_next.                                                  *)

WorkerCheck ==
  /\ phase = "up" /\ wpc = "check" /\ ~paused
  /\ wpc' = "scan"
  /\ UNCHANGED <<files, phase, todo, wid, scan, worder, clientVars, counters, ghosts>>

(* ordered_pending: the files to try, and the order to try them in.         *)
WorkerScan ==
  /\ wpc = "scan"
  /\ scan' = Present(pending)
  /\ worder' = order
  /\ wpc' = "walk"
  /\ UNCHANGED <<files, phase, todo, wid, clientVars, counters, ghosts>>

(* A name that is no RecordingId goes to failed/, if it can be moved.       *)
WalkMalformed(f) ==
  /\ wpc = "walk" /\ IsNext(f) /\ f \notin Ids
  /\ scan' = scan \ {f}
  /\ \/ /\ pending[f] # "none" /\ f \notin Stuck
        /\ pending' = [pending EXCEPT ![f] = "none"]
        /\ failed' = failed \cup {f}
     \/ UNCHANGED <<pending, failed>>
  /\ UNCHANGED <<processing, done, tmp, order, paused, phase, todo, wpc, wid, worder,
                 clientVars, counters, ghosts>>

(* The claim itself: the rename that makes the item this worker's.          *)
WalkClaim(f) ==
  /\ wpc = "walk" /\ IsNext(f) /\ f \in Ids
  /\ pending[f] # "none" /\ f \notin Stuck
  /\ pending' = [pending EXCEPT ![f] = "none"]
  /\ processing' = [processing EXCEPT ![f] = pending[f]]
  /\ scan' = scan \ {f}
  /\ wpc' = "read" /\ wid' = f
  /\ owed' = owed \cup {f}
  /\ overlap' = IF \E c \in Clients : cpc[c] \in EnqueuePc /\ cid[c] = f
                THEN overlap \cup {f} ELSE overlap
  /\ UNCHANGED <<done, failed, tmp, order, paused, phase, todo, worder, clientVars,
                 counters, undeleted>>

(* Wrong variant: the first file that cannot be moved ends the walk. *)
BadWalkSkip(f) ==
  /\ wpc = "walk" /\ IsNext(f) /\ f \in Ids
  /\ scan' = {}
  /\ UNCHANGED <<files, phase, todo, wpc, wid, worder, clientVars, counters, ghosts>>

(* The rename failed, the file being locked or gone: try the next file.     *)
WalkSkip(f) ==
  /\ wpc = "walk" /\ IsNext(f) /\ f \in Ids
  /\ scan' = scan \ {f}
  /\ UNCHANGED <<files, phase, todo, wpc, wid, worder, clientVars, counters, ghosts>>

WalkEnd ==
  /\ wpc = "walk" /\ scan = {}
  /\ wpc' = "check"
  /\ UNCHANGED <<files, phase, todo, wid, scan, worder, clientVars, counters, ghosts>>

(* A payload that parses is returned and run; a corrupt one is quarantined  *)
(* by finish_failed and the walk goes on.                                   *)
WorkerRead ==
  /\ wpc = "read"
  /\ IF processing[wid] = "whole"
     THEN wpc' = "run" /\ scan' = {}
     ELSE wpc' = "fail_mark" /\ scan' = scan
  /\ UNCHANGED <<files, phase, todo, wid, worder, clientVars, counters, ghosts>>

(* The pipeline (modelled elsewhere) ends in one of these ways.  "check":   *)
(* an error that settled nothing, which leaves the file in processing/.     *)
RunEnds ==
  /\ wpc = "run"
  /\ \/ /\ wpc' \in {"done_mark", "cancel_unmark", "fail_mark", "requeue_clear"}
        /\ wid' = wid
     \/ /\ wpc' = "check"
        /\ wid' = NoId
  /\ UNCHANGED <<files, phase, todo, scan, worder, clientVars, counters, ghosts>>

-----------------------------------------------------------------------------
(* The worker: finish_done, finish_cancelled, finish_failed, requeue.       *)

Free(l) == wpc' = l /\ wid' = NoId

DoneMark ==
  /\ wpc = "done_mark"
  /\ done' = done \cup {wid}
  /\ owed' = Settled(wid)
  /\ wpc' = "done_remove"
  /\ UNCHANGED <<pending, processing, failed, tmp, order, paused, phase, todo, wid,
                 scan, worder, clientVars, counters, overlap, undeleted>>

DoneRemove ==
  /\ wpc = "done_remove"
  /\ processing' = [processing EXCEPT ![wid] = "none"]
  /\ wpc' = "done_prune"
  /\ UNCHANGED <<pending, done, failed, tmp, order, paused, phase, todo, wid, scan,
                 worder, clientVars, counters, ghosts>>

DonePrune ==
  /\ wpc = "done_prune"
  /\ done' = Newest(done, DoneKeep)
  /\ Free("check")
  /\ UNCHANGED <<pending, processing, failed, tmp, order, paused, phase, todo, scan,
                 worder, clientVars, counters, ghosts>>

CancelUnmark ==
  /\ wpc = "cancel_unmark"
  /\ done' = done \ {wid}
  /\ wpc' = "cancel_move"
  /\ UNCHANGED <<pending, processing, failed, tmp, order, paused, phase, todo, wid,
                 scan, worder, clientVars, counters, ghosts>>

CancelMove ==
  /\ wpc = "cancel_move"
  /\ done' = done \cup {wid}
  /\ processing' = [processing EXCEPT ![wid] = "none"]
  /\ owed' = Settled(wid)
  /\ Free("check")
  /\ UNCHANGED <<pending, failed, tmp, order, paused, phase, todo, scan, worder,
                 clientVars, counters, overlap, undeleted>>

FailMark ==
  /\ wpc = "fail_mark"
  /\ failed' = failed \cup {wid}
  /\ wpc' = "fail_remove"
  /\ UNCHANGED <<pending, processing, done, tmp, order, paused, phase, todo, wid, scan,
                 worder, clientVars, counters, ghosts>>

(* Wrong variant: the worker does not let go of the item. *)
BadFailRemove ==
  /\ wpc = "fail_remove"
  /\ processing' = [processing EXCEPT ![wid] = "none"]
  /\ owed' = Settled(wid)
  /\ wpc' = "check"
  /\ UNCHANGED <<pending, done, failed, tmp, order, paused, phase, todo, wid, scan,
                 worder, clientVars, counters, overlap, undeleted>>

(* A quarantine inside claim_next resumes the walk over what is left of the *)
(* snapshot; a failed run has no snapshot any more.                         *)
FailRemove ==
  /\ wpc = "fail_remove"
  /\ processing' = [processing EXCEPT ![wid] = "none"]
  /\ owed' = Settled(wid)
  /\ Free(IF scan = {} THEN "check" ELSE "walk")
  /\ UNCHANGED <<pending, done, failed, tmp, order, paused, phase, todo, scan, worder,
                 clientVars, counters, overlap, undeleted>>

RequeueClear ==
  /\ wpc = "requeue_clear"
  /\ done' = done \ {wid}
  /\ failed' = failed \ {wid}
  /\ wpc' = "requeue_move"
  /\ UNCHANGED <<pending, processing, tmp, order, paused, phase, todo, wid, scan,
                 worder, clientVars, counters, ghosts>>

RequeueMove ==
  /\ wpc = "requeue_move"
  /\ pending' = [pending EXCEPT ![wid] = processing[wid]]
  /\ processing' = [processing EXCEPT ![wid] = "none"]
  /\ Free("check")
  /\ UNCHANGED <<done, failed, tmp, order, paused, phase, todo, scan, worder,
                 clientVars, counters, ghosts>>

-----------------------------------------------------------------------------
(* Startup: recover_orphans runs before any client or the worker does.      *)

Start ==
  /\ phase = "down"
  /\ phase' = "recovering"
  /\ todo' = Present(processing)
  /\ UNCHANGED <<files, workerVars, clientVars, counters, ghosts>>

Visited(n) == phase = "recovering" /\ n \in todo /\ todo' = todo \ {n}

RecoverMalformed(n) ==
  /\ Visited(n) /\ n \notin Ids
  /\ \/ /\ processing' = [processing EXCEPT ![n] = "none"]
        /\ failed' = failed \cup {n}
     \/ UNCHANGED <<processing, failed>>
  /\ UNCHANGED <<pending, done, tmp, order, paused, phase, workerVars, clientVars,
                 counters, ghosts>>

(* A done marker says the run was over: drop the file.  A failure to delete *)
(* it is ignored.                                                           *)
RecoverDrop(n) ==
  /\ Visited(n) /\ n \in done
  /\ \/ /\ n \notin Stuck
        /\ processing' = [processing EXCEPT ![n] = "none"]
        /\ UNCHANGED undeleted
     \/ /\ undeleted' = undeleted \cup {n}
        /\ UNCHANGED processing
  /\ UNCHANGED <<pending, done, failed, tmp, order, paused, phase, workerVars,
                 clientVars, counters, owed, overlap>>

(* Wrong variant: no test for a done marker. *)
BadRecoverRequeue(n) ==
  /\ Visited(n) /\ n \in Ids
  /\ pending' = [pending EXCEPT ![n] = processing[n]]
  /\ processing' = [processing EXCEPT ![n] = "none"]
  /\ UNCHANGED <<done, failed, tmp, order, paused, phase, workerVars, clientVars,
                 counters, ghosts>>

(* No marker: the run was interrupted, so the item waits again.  A locked   *)
(* file is left for the next start.                                         *)
RecoverRequeue(n) ==
  /\ Visited(n) /\ n \in Ids /\ n \notin done
  /\ \/ /\ n \notin Stuck
        /\ pending' = [pending EXCEPT ![n] = processing[n]]
        /\ processing' = [processing EXCEPT ![n] = "none"]
     \/ UNCHANGED <<pending, processing>>
  /\ UNCHANGED <<done, failed, tmp, order, paused, phase, workerVars, clientVars,
                 counters, ghosts>>

RecoverEnd ==
  /\ phase = "recovering" /\ todo = {}
  /\ phase' = "up"
  /\ UNCHANGED <<files, todo, workerVars, clientVars, counters, ghosts>>

-----------------------------------------------------------------------------
(* The environment.                                                         *)

(* The process or the machine dies.  Nothing is synced to disk before a     *)
(* rename, so a payload in pending/ may come back empty.                    *)
Crash ==
  /\ phase # "down" /\ crashes < MaxCrashes
  /\ crashes' = crashes + 1
  /\ phase' = "down" /\ todo' = {}
  /\ wpc' = "check" /\ wid' = NoId /\ scan' = {} /\ worder' = <<>>
  /\ cpc' = [c \in Clients |-> "idle"]
  /\ cid' = [c \in Clients |-> NoId]
  /\ ctodo' = [c \in Clients |-> {}]
  /\ \/ UNCHANGED pending
     \/ \E id \in Ids : /\ pending[id] = "whole"
                        /\ pending' = [pending EXCEPT ![id] = "corrupt"]
  /\ UNCHANGED <<processing, done, failed, tmp, order, paused, enqueues, ghosts>>

(* A user puts a file that is no recording's into a queue directory.        *)
DropMalformed(n) ==
  /\ n \in Names \ Ids
  /\ pending[n] = "none" /\ processing[n] = "none" /\ n \notin failed
  /\ \/ /\ pending' = [pending EXCEPT ![n] = "corrupt"]
        /\ UNCHANGED processing
     \/ /\ processing' = [processing EXCEPT ![n] = "corrupt"]
        /\ UNCHANGED pending
  /\ UNCHANGED <<done, failed, tmp, order, paused, phase, todo, workerVars,
                 clientVars, counters, ghosts>>

-----------------------------------------------------------------------------
Client(c) ==
  \/ \E id \in Ids : EnqueueBegin(c, id) \/ CancelPending(c, id)
  \/ EnqueueClear(c) \/ EnqueueWrite(c) \/ EnqueueRename(c)
  \/ CancelAllBegin(c) \/ CancelAllEnd(c)
  \/ \E n \in Names : CancelAllRemove(c, n)

User ==
  \/ \E o \in Manifests : SetOrder(o)
  \/ \E b \in BOOLEAN : SetPaused(b)
  \/ \E n \in Names : DismissFailed(n) \/ DropMalformed(n)
  \/ ClearFailed

Finish ==
  \/ DoneMark \/ DoneRemove \/ DonePrune
  \/ CancelUnmark \/ CancelMove
  \/ FailMark \/ FailRemove
  \/ RequeueClear \/ RequeueMove

Walk(f) == WalkMalformed(f) \/ WalkClaim(f) \/ WalkSkip(f)

Worker ==
  \/ WorkerCheck \/ WorkerScan \/ WalkEnd \/ WorkerRead \/ RunEnds \/ Finish
  \/ \E f \in Names : Walk(f)

Recover(n) == RecoverMalformed(n) \/ RecoverDrop(n) \/ RecoverRequeue(n)

Startup == Start \/ RecoverEnd \/ \E n \in Names : Recover(n)

Next == Worker \/ Startup \/ User \/ Crash \/ \E c \in Clients : Client(c)

Spec == Init /\ [][Next]_vars

(* The worker's loop is one async task that never returns while the daemon  *)
(* is up, and startup runs to its end: both are weakly fair.  A file is     *)
(* locked now and then, not at every attempt, and a run does not end in a   *)
(* retry for ever (the worker gives up after MAX_TRANSIENT_ATTEMPTS).       *)
RunSettles == RunEnds /\ wpc' \in {"done_mark", "cancel_unmark", "fail_mark"}
Fairness ==
  /\ WF_vars(Worker) /\ WF_vars(Startup)
  /\ \A id \in Ids : SF_vars(WalkClaim(id))
  /\ SF_vars(RunSettles)
FairSpec == Spec /\ Fairness

-----------------------------------------------------------------------------
(* Properties.                                                              *)

InQueue(id) == pending[id] # "none" \/ processing[id] # "none"

(* Ids whose enqueues and runs never overlapped in time and whose stale     *)
(* file recovery could always delete.                                       *)
Undisturbed == Ids \ (overlap \cup undeleted)

(* A request that enqueue accepted is in pending/ or processing/ until a    *)
(* run settles it or a client withdraws it: no crash between two steps of   *)
(* enqueue, claim_next, the finish operations or recovery loses it.         *)
AcceptedWorkKept == \A id \in owed \cap Undisturbed : InQueue(id)

(* What is queued is owed: once a finish operation has settled an item,     *)
(* neither recovery after a crash in its middle nor pruning of done/ makes  *)
(* the item wait to be run a second time.                                   *)
NothingSettledRerun == \A id \in Undisturbed : pending[id] # "none" => id \in owed

(* The same as AcceptedWorkKept without the exception: what the doc comment *)
(* of clear_terminal_markers promises for a retranscribe that crashes.      *)
EveryRetranscribeSurvives == \A id \in owed : InQueue(id)

(* The same as NothingSettledRerun for ids whose enqueues never overlapped  *)
(* a run: what the comment on DONE_KEEP says a small tail of markers is     *)
(* enough for.                                                              *)
PrunedTailSuffices == \A id \in Ids \ overlap : pending[id] # "none" => id \in owed

(* Where the work of a recording is, as the files and the worker have it.   *)
PlaceOf(id) ==
  IF id \notin Undisturbed THEN "muddled"
  ELSE IF wid = id /\ wpc \notin {"done_remove", "done_prune"} THEN "taken"
  ELSE IF pending[id] # "none" THEN "waiting"
  ELSE IF processing[id] # "none" /\ id \notin done THEN "left"
  ELSE "nowhere"
Places == [id \in Ids |-> PlaceOf(id)]
Debts == owed \cap Undisturbed

Promise == INSTANCE WorkPromise WITH owed <- Debts, place <- Places

(* Step by step the files behave as WorkPromise says: work is taken by one  *)
(* hand at a time, is over only in that hand or withdrawn while it waits,   *)
(* and comes back from a crash or a failed run only by itself.              *)
KeepsWorkPromise == Promise!Spec

(* A file that can be moved is claimed or withdrawn, however many locked,   *)
(* malformed or corrupt files lie before it, unless the queue is paused.    *)
NoFileStarves ==
  \A id \in Ids \ Stuck : pending[id] # "none" ~> pending[id] = "none" \/ paused
=============================================================================
