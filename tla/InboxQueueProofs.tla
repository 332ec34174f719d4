-------------------------- MODULE InboxQueueProofs --------------------------
(***************************************************************************)
(* AcceptedWorkKept and NothingSettledRerun hold in every behaviour of     *)
(* InboxQueue, for all sets of names, ids and clients, and InboxQueue      *)
(* implements WorkPromise: the invariant says of each file what it stands  *)
(* for, and each step then moves at most one recording (OneMoves), as the  *)
(* promise allows.                                                         *)
(*                                                                         *)
(* Neither invariant is inductive.  What makes them so is where an         *)
(* undisturbed id can be: at most one of pending/ and processing/ has it   *)
(* (OnePlace), it has no done marker while it is owed (NoMarkerWhileOwed), *)
(* its file can be in processing/ with nothing owed only between           *)
(* finish_done's marker and the removal of the file, a crash and the next  *)
(* recovery included (LeftoverIsMarked, MarkedBeforeRemoved), recovery     *)
(* only requeues what is there (TodoIsPresent), and an enqueue under way   *)
(* has already made it safe to add the file (EnqueueIsClear).              *)
(***************************************************************************)
EXTENDS InboxQueue, TLAPS

Holding == WorkerPc \ (WorkerFree \cup {"done_prune"})
WorkerHolds == wpc \in Holding => processing[wid] # "none"

IdleUnlessUp ==
  phase # "up" => wpc = "check" /\ \A c \in Clients : cpc[c] = "idle"

OwedIsQueued(id) == id \in owed => InQueue(id)
QueuedIsOwed(id) == pending[id] # "none" => id \in owed
OnePlace(id) == pending[id] = "none" \/ processing[id] = "none"
NoMarkerWhileOwed(id) == id \in owed => id \notin done
LeftoverIsMarked(id) ==
  processing[id] # "none" /\ id \notin owed =>
    /\ id \in done
    /\ \/ phase = "down"
       \/ phase = "recovering" /\ id \in todo
       \/ wpc = "done_remove" /\ wid = id
EnqueueIsClear(id) ==
  \A c \in Clients :
    cid[c] = id =>
      /\ cpc[c] \in EnqueuePc => processing[id] = "none"
      /\ cpc[c] \in {"write", "rename"} => id \notin done
MarkedBeforeRemoved(id) ==
  wpc = "done_remove" /\ wid = id => id \in done /\ id \notin owed
TodoIsPresent(id) == phase = "recovering" /\ id \in todo => processing[id] # "none"

IdInv(id) ==
  /\ OwedIsQueued(id)
  /\ QueuedIsOwed(id)
  /\ OnePlace(id)
  /\ NoMarkerWhileOwed(id)
  /\ LeftoverIsMarked(id)
  /\ EnqueueIsClear(id)
  /\ MarkedBeforeRemoved(id)
  /\ TodoIsPresent(id)

IInv ==
  /\ TypeOK
  /\ WorkerHolds
  /\ IdleUnlessUp
  /\ \A id \in Undisturbed : IdInv(id)

-----------------------------------------------------------------------------
(* Types.                                                                   *)

USE NamesAssumption, BoundsAssumption
USE DEF Payload, File, NoId, NamesAssumption, BoundsAssumption

(* Every variable starts in its set. *)
LEMMA InitTypeOK == Init => TypeOK
<1> SUFFICES ASSUME Init PROVE TypeOK
  OBVIOUS
<1>1. order \in Seq(Ids) /\ worder \in Seq(Ids)
  BY DEF Init
<1>2. /\ pending \in [Names -> File]
      /\ processing \in [Names -> File]
  BY DEF Init
<1>3. /\ cpc \in [Clients -> ClientPc]
      /\ cid \in [Clients -> Ids \cup {NoId}]
      /\ ctodo \in [Clients -> SUBSET Names]
      /\ \A c \in Clients : cpc[c] \in EnqueuePc => cid[c] \in Ids
  BY DEF Init, ClientPc, EnqueuePc
<1>4. /\ wpc \in WorkerPc
      /\ IF wpc \in WorkerFree THEN wid = NoId ELSE wid \in Ids
      /\ phase \in {"down", "recovering", "up"}
  BY DEF Init, WorkerPc, WorkerFree
<1>5. enqueues \in 0..MaxEnqueues /\ crashes \in 0..MaxCrashes
  BY DEF Init
<1>6. /\ done \subseteq Ids /\ failed \subseteq Names /\ tmp \subseteq Ids
      /\ todo \subseteq Names /\ scan \subseteq Names
      /\ owed \subseteq Ids /\ overlap \subseteq Ids /\ undeleted \subseteq Ids
  BY DEF Init
<1>7. paused \in BOOLEAN
  BY Zenon DEF Init
<1>8. QED
  BY <1>1, <1>2, <1>3, <1>4, <1>5, <1>6, <1>7 DEF TypeOK

(* No client operation takes a variable out of its set. *)
LEMMA ClientTypeOK ==
  ASSUME TypeOK, NEW c \in Clients, Client(c)
  PROVE  TypeOK'
<1> USE DEF TypeOK, files, workerVars, clientVars, counters, ghosts, Goto
<1>1. ASSUME NEW id \in Ids, EnqueueBegin(c, id) PROVE TypeOK'
  BY <1>1 DEF EnqueueBegin, EnqueuePc, ClientPc
<1>2. ASSUME NEW id \in Ids, CancelPending(c, id) PROVE TypeOK'
  BY <1>2 DEF CancelPending
<1>3. CASE EnqueueClear(c)
  BY <1>3 DEF EnqueueClear, EnqueuePc, ClientPc
<1>4. CASE EnqueueWrite(c)
  BY <1>4 DEF EnqueueWrite, EnqueuePc, ClientPc
<1>5. CASE EnqueueRename(c)
  <2>1. cid[c] \in Ids
    BY <1>5 DEF EnqueueRename, EnqueuePc
  <2>2. pending' \in [Names -> File] /\ tmp' \subseteq Ids /\ owed' \subseteq Ids
    BY <1>5, <2>1 DEF EnqueueRename
  <2>3. /\ cpc' \in [Clients -> ClientPc]
        /\ \A d \in Clients : cpc'[d] \in EnqueuePc => cid'[d] \in Ids
    BY <1>5 DEF EnqueueRename, EnqueuePc, ClientPc
  <2>4. QED
    BY <1>5, <2>2, <2>3 DEF EnqueueRename
<1>6. CASE CancelAllBegin(c)
  BY <1>6 DEF CancelAllBegin, Present, EnqueuePc, ClientPc
<1>7. CASE CancelAllEnd(c)
  BY <1>7 DEF CancelAllEnd, EnqueuePc, ClientPc
<1>8. ASSUME NEW n \in Names, CancelAllRemove(c, n) PROVE TypeOK'
  BY <1>8 DEF CancelAllRemove
<1>9. QED
  BY <1>1, <1>2, <1>3, <1>4, <1>5, <1>6, <1>7, <1>8 DEF Client

(* No step of the worker takes a variable out of its set. *)
LEMMA WorkerTypeOK ==
  ASSUME TypeOK, Worker
  PROVE  TypeOK'
<1> USE DEF TypeOK, files, workerVars, clientVars, counters, ghosts,
        Settled, Free, WorkerPc, WorkerFree
<1>1. CASE WorkerCheck \/ WalkEnd \/ WorkerRead \/ RunEnds
  BY <1>1 DEF WorkerCheck, WalkEnd, WorkerRead, RunEnds
<1>2. CASE WorkerScan
  BY <1>2 DEF WorkerScan, Present
<1>3. ASSUME NEW f \in Names, Walk(f) PROVE TypeOK'
  <2>1. CASE WalkMalformed(f)
    BY <2>1 DEF WalkMalformed
  <2>2. CASE WalkClaim(f)
    <3>1. f \in Ids /\ pending[f] \in File
      BY <2>2 DEF WalkClaim
    <3>2. pending' \in [Names -> File] /\ processing' \in [Names -> File]
      BY <2>2, <3>1 DEF WalkClaim
    <3>3. QED
      BY <2>2, <3>1, <3>2 DEF WalkClaim
  <2>3. CASE WalkSkip(f)
    BY <2>3 DEF WalkSkip
  <2>4. QED
    BY <1>3, <2>1, <2>2, <2>3 DEF Walk
<1>4. CASE DoneMark \/ DoneRemove
  <2>1. wid \in Ids
    BY <1>4 DEF DoneMark, DoneRemove
  <2>2. CASE DoneMark
    BY <2>1, <2>2 DEF DoneMark
  <2>3. CASE DoneRemove
    BY <2>1, <2>3 DEF DoneRemove
  <2>4. QED
    BY <1>4, <2>2, <2>3
<1>5. CASE DonePrune
  BY <1>5 DEF DonePrune, Newest
<1>6. CASE CancelUnmark \/ CancelMove
  BY <1>6 DEF CancelUnmark, CancelMove
<1>7. CASE FailMark \/ FailRemove
  BY <1>7 DEF FailMark, FailRemove
<1>8. CASE RequeueClear \/ RequeueMove
  <2>1. wid \in Ids
    BY <1>8 DEF RequeueClear, RequeueMove
  <2>2. CASE RequeueClear
    BY <2>1, <2>2 DEF RequeueClear
  <2>3. CASE RequeueMove
    <3>1. processing[wid] \in File /\ wid \in Names
      BY <2>1
    <3>2. pending' \in [Names -> File] /\ processing' \in [Names -> File]
      BY <3>1, <2>3 DEF RequeueMove
    <3>3. QED
      BY <3>2, <2>3 DEF RequeueMove
  <2>4. QED
    BY <1>8, <2>2, <2>3
<1>9. QED
  BY <1>1, <1>2, <1>3, <1>4, <1>5, <1>6, <1>7, <1>8 DEF Worker, Finish

(* No other step does. *)
LEMMA OtherTypeOK ==
  ASSUME TypeOK, Startup \/ User \/ Crash
  PROVE  TypeOK'
<1> USE ManifestAssumption DEF ManifestAssumption, TypeOK, files, workerVars, clientVars, counters,
        ghosts, WorkerPc, WorkerFree
<1>1. CASE Start \/ RecoverEnd
  BY <1>1 DEF Start, RecoverEnd, Present
<1>2. ASSUME NEW n \in Names, Recover(n) PROVE TypeOK'
  BY <1>2 DEF Recover, RecoverMalformed, RecoverDrop, RecoverRequeue, Visited
<1>3. ASSUME NEW o \in Manifests, SetOrder(o) PROVE TypeOK'
  BY <1>3 DEF SetOrder
<1>4. ASSUME NEW b \in BOOLEAN, SetPaused(b) PROVE TypeOK'
  BY <1>4 DEF SetPaused
<1>5. ASSUME NEW n \in Names, DismissFailed(n) \/ DropMalformed(n) PROVE TypeOK'
  <2>1. CASE DismissFailed(n)
    BY <2>1 DEF DismissFailed, Dismiss
  <2>2. CASE DropMalformed(n)
    BY <2>2 DEF DropMalformed
  <2>3. QED
    BY <1>5, <2>1, <2>2
<1>6. CASE ClearFailed
  BY <1>6 DEF ClearFailed, Dismiss
<1>7. CASE Crash
  BY <1>7 DEF Crash, ClientPc, EnqueuePc
<1>8. QED
  BY <1>1, <1>2, <1>3, <1>4, <1>5, <1>6, <1>7 DEF Startup, User

(* The types are an inductive invariant by themselves. *)
LEMMA StepTypeOK == TypeOK /\ [Next]_vars => TypeOK'
<1> SUFFICES ASSUME TypeOK, [Next]_vars PROVE TypeOK'
  OBVIOUS
<1>1. CASE Next
  BY <1>1, ClientTypeOK, WorkerTypeOK, OtherTypeOK DEF Next
<1>2. CASE UNCHANGED vars
  BY <1>2 DEF vars, TypeOK, files, workerVars, clientVars, counters, ghosts
<1>3. QED
  BY <1>1, <1>2

(* Type correctness: every variable of the queue stays in its set. *)
THEOREM TypeCorrect == Spec => []TypeOK
  BY InitTypeOK, StepTypeOK, PTL DEF Spec

-----------------------------------------------------------------------------
(* The inductive invariant.                                                 *)

(* An empty inbox owes nothing and holds nothing. *)
LEMMA InitIInv == Init => IInv
<1> SUFFICES ASSUME Init PROVE IInv
  OBVIOUS
<1>1. TypeOK
  BY InitTypeOK
<1>2. WorkerHolds /\ IdleUnlessUp
  BY DEF Init, WorkerHolds, Holding, WorkerFree, IdleUnlessUp
<1>3. ASSUME NEW id \in Undisturbed PROVE IdInv(id)
  BY DEF Init, Undisturbed, IdInv, OwedIsQueued, InQueue, QueuedIsOwed, OnePlace,
         NoMarkerWhileOwed, LeftoverIsMarked, EnqueueIsClear, MarkedBeforeRemoved, TodoIsPresent, EnqueuePc
<1>4. QED
  BY <1>1, <1>2, <1>3 DEF IInv

(* Only the worker takes files out of processing/ while the daemon is up,   *)
(* and it lets go of an item in the step that does so.                      *)
LEMMA StepWorkerHolds ==
  ASSUME TypeOK, IdleUnlessUp, WorkerHolds, [Next]_vars
  PROVE  WorkerHolds'
<1> USE DEF WorkerHolds, Holding, WorkerPc, WorkerFree, IdleUnlessUp, files, workerVars
<1>1. ASSUME NEW c \in Clients, Client(c) PROVE WorkerHolds'
  BY <1>1 DEF Client, EnqueueBegin, CancelPending, EnqueueClear, EnqueueWrite,
       EnqueueRename, CancelAllBegin, CancelAllEnd, CancelAllRemove
<1>2. CASE User
  <2>1. UNCHANGED workerVars
    BY <1>2 DEF User, SetOrder, SetPaused, DismissFailed, ClearFailed, Dismiss, DropMalformed
  <2>2. \A id \in Ids : processing[id] # "none" => processing'[id] # "none"
    BY <1>2 DEF User, SetOrder, SetPaused, DismissFailed, ClearFailed, Dismiss,
         DropMalformed, TypeOK
  <2>3. QED
    BY <2>1, <2>2 DEF TypeOK
<1>3. CASE Crash \/ Startup
  <2>1. wpc' = "check"
    BY <1>3 DEF Crash, Startup, Start, RecoverEnd, Recover, RecoverMalformed,
         RecoverDrop, RecoverRequeue, Visited
  <2>2. QED
    BY <2>1
<1>4. CASE Worker
  <2>1. CASE WorkerCheck \/ WorkerScan \/ WalkEnd \/ WorkerRead \/ RunEnds
    BY <2>1 DEF WorkerCheck, WorkerScan, WalkEnd, WorkerRead, RunEnds
  <2>2. ASSUME NEW f \in Names, Walk(f) PROVE WorkerHolds'
    BY <2>2 DEF Walk, WalkMalformed, WalkClaim, WalkSkip, TypeOK
  <2>3. CASE Finish
    BY <2>3 DEF Finish, DoneMark, DoneRemove, DonePrune, CancelUnmark, CancelMove,
         FailMark, FailRemove, RequeueClear, RequeueMove, Free
  <2>4. QED
    BY <1>4, <2>1, <2>2, <2>3 DEF Worker
<1>5. CASE UNCHANGED vars
  BY <1>5 DEF vars
<1>6. QED
  BY <1>1, <1>2, <1>3, <1>4, <1>5 DEF Next

(* Before the daemon is up neither the worker nor a client takes a step.    *)
LEMMA StepIdleUnlessUp ==
  ASSUME TypeOK, IdleUnlessUp, [Next]_vars
  PROVE  IdleUnlessUp'
<1> USE DEF IdleUnlessUp
<1>1. ASSUME NEW c \in Clients, Client(c) PROVE IdleUnlessUp'
  <2>1. phase = "up"
    BY <1>1 DEF Client, EnqueueBegin, CancelPending, EnqueueClear, EnqueueWrite,
         EnqueueRename, CancelAllBegin, CancelAllEnd, CancelAllRemove
  <2>2. phase' = phase
    BY <1>1 DEF Client, EnqueueBegin, CancelPending, EnqueueClear, EnqueueWrite,
         EnqueueRename, CancelAllBegin, CancelAllEnd, CancelAllRemove
  <2>3. QED
    BY <2>1, <2>2
<1>2. CASE Worker
  <2>1. phase = "up"
    BY <1>2 DEF Worker, WorkerCheck, WorkerScan, WalkEnd, WorkerRead, RunEnds, Walk,
         WalkMalformed, WalkClaim, WalkSkip, Finish, DoneMark, DoneRemove, DonePrune,
         CancelUnmark, CancelMove, FailMark, FailRemove, RequeueClear, RequeueMove, TypeOK
  <2>2. phase' = phase
    BY <1>2 DEF Worker, WorkerCheck, WorkerScan, WalkEnd, WorkerRead, RunEnds, Walk,
         WalkMalformed, WalkClaim, WalkSkip, Finish, DoneMark, DoneRemove, DonePrune,
         CancelUnmark, CancelMove, FailMark, FailRemove, RequeueClear, RequeueMove
  <2>3. QED
    BY <2>1, <2>2
<1>3. CASE User
  BY <1>3 DEF User, SetOrder, SetPaused, DismissFailed, ClearFailed, Dismiss,
       DropMalformed, workerVars, clientVars
<1>4. CASE Startup
  BY <1>4 DEF Startup, Start, RecoverEnd, Recover, RecoverMalformed, RecoverDrop,
       RecoverRequeue, Visited, workerVars, clientVars
<1>5. CASE Crash
  BY <1>5 DEF Crash
<1>6. CASE UNCHANGED vars
  BY <1>6 DEF vars, workerVars, clientVars
<1>7. QED
  BY <1>1, <1>2, <1>3, <1>4, <1>5, <1>6 DEF Next

(* An id that is undisturbed after a step was so before it. *)
LEMMA UndisturbedShrinks == [Next]_vars => Undisturbed' \subseteq Undisturbed
<1> SUFFICES ASSUME [Next]_vars
             PROVE  overlap \subseteq overlap' /\ undeleted \subseteq undeleted'
  BY DEF Undisturbed
<1> USE DEF ghosts
<1>1. ASSUME NEW c \in Clients, Client(c)
      PROVE  overlap \subseteq overlap' /\ undeleted \subseteq undeleted'
  BY <1>1 DEF Client, EnqueueBegin, CancelPending, EnqueueClear, EnqueueWrite,
       EnqueueRename, CancelAllBegin, CancelAllEnd, CancelAllRemove
<1>2. CASE Worker
  BY <1>2 DEF Worker, WorkerCheck, WorkerScan, WalkEnd, WorkerRead, RunEnds, Walk,
       WalkMalformed, WalkClaim, WalkSkip, Finish, DoneMark, DoneRemove, DonePrune,
       CancelUnmark, CancelMove, FailMark, FailRemove, RequeueClear, RequeueMove
<1>3. CASE User \/ Startup \/ Crash
  BY <1>3 DEF User, SetOrder, SetPaused, DismissFailed, ClearFailed, Dismiss,
       DropMalformed, Startup, Start, RecoverEnd, Recover, RecoverMalformed,
       RecoverDrop, RecoverRequeue, Crash
<1>4. CASE UNCHANGED vars
  BY <1>4 DEF vars
<1>5. QED
  BY <1>1, <1>2, <1>3, <1>4 DEF Next

(* What every lemma on a kind of step assumes: the invariant before the     *)
(* step, and an id that the step leaves undisturbed.                        *)
Assumed(id) ==
  /\ TypeOK /\ WorkerHolds /\ IdleUnlessUp
  /\ id \in Undisturbed /\ id \in Undisturbed'
  /\ IdInv(id)

(* A step that leaves an id's files, its debt, the worker and the startup   *)
(* phase alone, and moves no enqueue of the id on, preserves its invariant. *)
LEMMA QuietStep ==
  ASSUME NEW id \in Ids, IdInv(id),
         pending'[id] = pending[id], processing'[id] = processing[id],
         id \in done' <=> id \in done, id \in owed' <=> id \in owed,
         phase' = phase, todo' = todo,
         wpc = "done_remove" => wpc' = wpc /\ wid' = wid,
         wpc' = "done_remove" => wpc = "done_remove",
         \A c \in Clients : cpc'[c] \in EnqueuePc /\ cid'[c] = id =>
                              cpc'[c] = cpc[c] /\ cid'[c] = cid[c]
  PROVE  IdInv(id)'
  BY DEF IdInv, OwedIsQueued, InQueue, QueuedIsOwed, OnePlace, NoMarkerWhileOwed,
     LeftoverIsMarked, EnqueueIsClear, MarkedBeforeRemoved, TodoIsPresent, EnqueuePc

(* Clients: enqueue adds a file only where no run and no marker can be.     *)
LEMMA ClientIdInv ==
  ASSUME NEW id \in Ids, Assumed(id), NEW c \in Clients, Client(c)
  PROVE  IdInv(id)'
<1> USE DEF Assumed, IdInv, OwedIsQueued, InQueue, QueuedIsOwed, OnePlace,
        NoMarkerWhileOwed, LeftoverIsMarked, EnqueueIsClear, MarkedBeforeRemoved,
        TodoIsPresent, EnqueuePc, Undisturbed, TypeOK, files, workerVars, clientVars, counters, ghosts, Goto
<1>1. ASSUME NEW i \in Ids, EnqueueBegin(c, i) PROVE IdInv(id)'
  BY <1>1 DEF EnqueueBegin
<1>2. ASSUME NEW i \in Ids, CancelPending(c, i) PROVE IdInv(id)'
  BY <1>2 DEF CancelPending
<1>3. CASE EnqueueClear(c)
  BY <1>3 DEF EnqueueClear, WorkerHolds, Holding, WorkerPc, WorkerFree
<1>4. CASE EnqueueWrite(c)
  BY <1>4 DEF EnqueueWrite
<1>5. CASE EnqueueRename(c)
  BY <1>5 DEF EnqueueRename
<1>6. CASE CancelAllBegin(c)
  BY <1>6 DEF CancelAllBegin
<1>7. CASE CancelAllEnd(c)
  BY <1>7 DEF CancelAllEnd
<1>8. ASSUME NEW n \in Names, CancelAllRemove(c, n) PROVE IdInv(id)'
  BY <1>8 DEF CancelAllRemove
<1>9. QED
  BY <1>1, <1>2, <1>3, <1>4, <1>5, <1>6, <1>7, <1>8 DEF Client

(* The worker: a claim takes the file of an owed, unmarked id; a finish     *)
(* operation settles in the step that marks or removes it.                  *)
LEMMA WorkerIdInv ==
  ASSUME NEW id \in Ids, Assumed(id), Worker
  PROVE  IdInv(id)'
<1> USE DEF Assumed, IdInv, OwedIsQueued, InQueue, QueuedIsOwed, OnePlace,
        NoMarkerWhileOwed, LeftoverIsMarked, EnqueueIsClear, MarkedBeforeRemoved,
        TodoIsPresent, EnqueuePc, Undisturbed, TypeOK, IdleUnlessUp, WorkerHolds, Holding, WorkerPc, WorkerFree, files, workerVars,
        clientVars, counters, ghosts, Settled, Free
<1>1. CASE WorkerCheck \/ WorkerScan \/ WalkEnd \/ WorkerRead \/ RunEnds
  BY <1>1 DEF WorkerCheck, WorkerScan, WalkEnd, WorkerRead, RunEnds
<1>2. ASSUME NEW f \in Names, WalkMalformed(f) \/ WalkSkip(f) PROVE IdInv(id)'
  BY <1>2 DEF WalkMalformed, WalkSkip
<1>3. ASSUME NEW f \in Names, WalkClaim(f) PROVE IdInv(id)'
  BY <1>3 DEF WalkClaim
<1>4. CASE DoneMark
  BY <1>4 DEF DoneMark
<1>5. CASE DoneRemove
  <2>1. CASE id = wid
    BY <1>5, <2>1 DEF DoneRemove
  <2>2. CASE id # wid
    BY <1>5, <2>2 DEF DoneRemove
  <2>3. QED
    BY <2>1, <2>2
<1>6. CASE DonePrune
  BY <1>6 DEF DonePrune, Newest
<1>7. CASE CancelUnmark
  <2>1. CASE id = wid
    BY <1>7, <2>1 DEF CancelUnmark
  <2>2. CASE id # wid
    BY <1>7, <2>2 DEF CancelUnmark
  <2>3. QED
    BY <2>1, <2>2
<1>8. CASE CancelMove
  BY <1>8 DEF CancelMove
<1>9. CASE FailMark \/ FailRemove
  BY <1>9 DEF FailMark, FailRemove
<1>10. CASE RequeueClear
  <2>1. CASE id = wid
    BY <1>10, <2>1 DEF RequeueClear
  <2>2. CASE id # wid
    BY <1>10, <2>2 DEF RequeueClear
  <2>3. QED
    BY <2>1, <2>2
<1>11. CASE RequeueMove
  <2>1. CASE id = wid
    BY <1>11, <2>1 DEF RequeueMove
  <2>2. CASE id # wid
    BY <1>11, <2>2 DEF RequeueMove
  <2>3. QED
    BY <2>1, <2>2
<1>12. QED
  BY <1>1, <1>2, <1>3, <1>4, <1>5, <1>6, <1>7, <1>8, <1>9, <1>10, <1>11
     DEF Worker, Walk, Finish

(* Startup, users and crashes: recovery visits every leftover and drops it  *)
(* before the worker or a client can take its marker away.                  *)
LEMMA OtherIdInv ==
  ASSUME NEW id \in Ids, Assumed(id), Startup \/ User \/ Crash
  PROVE  IdInv(id)'
<1> USE DEF Assumed, IdInv, OwedIsQueued, InQueue, QueuedIsOwed, OnePlace,
        NoMarkerWhileOwed, LeftoverIsMarked, EnqueueIsClear, MarkedBeforeRemoved,
        TodoIsPresent, EnqueuePc, Undisturbed, TypeOK, IdleUnlessUp, files, workerVars, clientVars, counters, ghosts
<1>1. CASE Start
  BY <1>1 DEF Start, Present
<1>2. CASE RecoverEnd
  BY <1>2 DEF RecoverEnd
<1>3. ASSUME NEW n \in Names, RecoverMalformed(n) \/ RecoverDrop(n) PROVE IdInv(id)'
  BY <1>3 DEF RecoverMalformed, RecoverDrop, Visited
<1>4. ASSUME NEW n \in Names, RecoverRequeue(n) PROVE IdInv(id)'
  <2>1. CASE id = n
    BY <1>4, <2>1 DEF RecoverRequeue, Visited
  <2>2. CASE id # n
    BY <1>4, <2>2 DEF RecoverRequeue, Visited
  <2>3. QED
    BY <2>1, <2>2
<1>5. ASSUME NEW o \in Manifests, SetOrder(o) PROVE IdInv(id)'
  BY <1>5 DEF SetOrder
<1>6. ASSUME NEW b \in BOOLEAN, SetPaused(b) PROVE IdInv(id)'
  BY <1>6 DEF SetPaused
<1>7. ASSUME NEW n \in Names, DismissFailed(n) \/ DropMalformed(n) PROVE IdInv(id)'
  BY <1>7 DEF DismissFailed, Dismiss, DropMalformed
<1>8. CASE ClearFailed
  BY <1>8 DEF ClearFailed, Dismiss
<1>9. CASE Crash
  BY <1>9 DEF Crash
<1>10. QED
  BY <1>1, <1>2, <1>3, <1>4, <1>5, <1>6, <1>7, <1>8, <1>9 DEF Startup, Recover, User

(* Every step of a client, of the worker, of recovery, and a crash between  *)
(* two of them, keeps the invariant.                                        *)
LEMMA StepIInv == IInv /\ [Next]_vars => IInv'
<1> SUFFICES ASSUME IInv, [Next]_vars PROVE IInv'
  OBVIOUS
<1>1. TypeOK' /\ WorkerHolds' /\ IdleUnlessUp'
  BY StepTypeOK, StepWorkerHolds, StepIdleUnlessUp DEF IInv
<1>2. ASSUME NEW id \in Undisturbed' PROVE IdInv(id)'
  <2>1. id \in Ids /\ Assumed(id)
    BY <1>2, UndisturbedShrinks DEF IInv, Assumed, Undisturbed
  <2>2. CASE Next
    BY <2>1, <2>2, ClientIdInv, WorkerIdInv, OtherIdInv DEF Next
  <2>3. CASE UNCHANGED vars
    BY <2>1, <2>3, QuietStep DEF vars, files, workerVars, clientVars, ghosts, Assumed
  <2>4. QED
    BY <2>2, <2>3
<1>3. QED
  BY <1>1, <1>2 DEF IInv

-----------------------------------------------------------------------------
(* The refinement.  Each step of the queue leaves the place of every        *)
(* recording alone, or moves one of them as WorkPromise allows.             *)

Held(id) == wid = id /\ wpc \notin {"done_remove", "done_prune"}

(* The step leaves the recording where it is, and owes for it what it did.  *)
Untouched(id) ==
  /\ PlaceOf(id)' = PlaceOf(id)
  /\ id \in Debts' <=> id \in Debts

(* What a place depends on. *)
LEMMA PlaceStays ==
  ASSUME NEW id \in Ids, id \in Undisturbed' <=> id \in Undisturbed,
         id \in Undisturbed =>
           /\ id \in owed' <=> id \in owed
           /\ \/ Held(id) /\ Held(id)'
              \/ /\ ~Held(id) /\ ~Held(id)'
                 /\ pending'[id] = "none" <=> pending[id] = "none"
                 /\ processing'[id] = "none" <=> processing[id] = "none"
                 /\ (id \in done' <=> id \in done) \/ processing[id] = "none"
  PROVE  Untouched(id)
<1>1. id \in Debts' <=> id \in Debts
  BY DEF Debts
<1>2. PlaceOf(id)' = PlaceOf(id)
  BY DEF PlaceOf, Held
<1>. QED
  BY <1>1, <1>2 DEF Untouched

(* A step that touches no recording is a stutter of the promise. *)
LEMMA NoneMoves ==
  ASSUME \A id \in Ids : Untouched(id)
  PROVE  UNCHANGED <<Debts, Places>>
<1>1. Debts \subseteq Ids /\ Debts' \subseteq Ids
  BY DEF Debts, Undisturbed
<1>2. Debts' = Debts
  BY <1>1 DEF Untouched
<1>3. Places' = Places
  BY DEF Places, Untouched
<1>. QED
  BY <1>2, <1>3

(* A step that touches one moves that one. *)
LEMMA OneMoves ==
  ASSUME NEW id \in Ids, \A other \in Ids \ {id} : Untouched(other),
         NEW From, NEW to, PlaceOf(id) \in From, PlaceOf(id)' = to
  PROVE  /\ Promise!Moves(id, From, to)
         /\ id \in Debts' => Debts' = Debts \cup {id}
         /\ id \notin Debts' => Debts' = Debts \ {id}
<1>1. Debts \subseteq Ids /\ Debts' \subseteq Ids
  BY DEF Debts, Undisturbed
<1>2. Places[id] \in From
  BY DEF Places
<1>3. Places' = [Places EXCEPT ![id] = to]
  <2>1. Places' = [i \in Ids |-> PlaceOf(i)']
    BY DEF Places
  <2>2. Places \in [Ids -> {PlaceOf(i) : i \in Ids}]
    BY DEF Places
  <2>3. \A i \in Ids : PlaceOf(i)' = IF i = id THEN to ELSE Places[i]
    BY DEF Places, Untouched
  <2>4. Places = [i \in Ids |-> PlaceOf(i)]
    BY DEF Places
  <2>. QED
    BY <2>1, <2>3, <2>4
<1>. QED
  BY <1>1, <1>2, <1>3 DEF Promise!Moves, Untouched

(* A promise's step, or none. *)
Kept == Promise!Next \/ UNCHANGED <<Debts, Places>>

(* Whoever becomes muddled alone makes a step of the promise. *)
LEMMA Muddles ==
  ASSUME NEW id \in Ids, \A other \in Ids \ {id} : Untouched(other),
         id \notin Undisturbed'
  PROVE  Kept
<1>1. PlaceOf(id) \in Promise!States /\ PlaceOf(id)' = "muddled"
  BY DEF PlaceOf, Promise!States
<1>2. id \notin Debts'
  BY DEF Debts
<1>3. Promise!Muddle(id)
  BY <1>1, <1>2, OneMoves DEF Promise!Muddle
<1>. QED
  BY <1>3 DEF Kept, Promise!Next

(* Of an undisturbed id in the worker's hands: it is owed, unmarked, and in *)
(* processing/ only.                                                        *)
LEMMA HeldIs ==
  ASSUME IInv, NEW id \in Undisturbed, wid = id,
         wpc \notin {"done_remove", "done_prune"}
  PROVE  /\ processing[id] # "none" /\ pending[id] = "none"
         /\ id \in owed /\ id \notin done /\ phase = "up"
<1>1. id \in Ids /\ id # NoId
  BY DEF Undisturbed
<1>2. wpc \in Holding
  BY <1>1 DEF IInv, TypeOK, Holding
<1>3. processing[id] # "none"
  BY <1>2 DEF IInv, WorkerHolds
<1>4. phase = "up"
  BY <1>2 DEF IInv, IdleUnlessUp, Holding, WorkerFree
<1>5. IdInv(id)
  BY DEF IInv
<1>6. pending[id] = "none" /\ id \in owed
  BY <1>3, <1>4, <1>5 DEF IdInv, OnePlace, LeftoverIsMarked
<1>7. id \notin done
  BY <1>5, <1>6 DEF IdInv, NoMarkerWhileOwed
<1>. QED
  BY <1>3, <1>4, <1>6, <1>7

(* When the worker is free it holds nothing. *)
LEMMA FreeHolds ==
  ASSUME TypeOK, wpc \in WorkerFree, NEW id \in Ids
  PROVE  wid = NoId /\ id # wid /\ ~Held(id)
  BY DEF TypeOK, Held

(* What a client's step leaves alone. *)
LEMMA ClientSteps ==
  ASSUME TypeOK, NEW c \in Clients, Client(c)
  PROVE  /\ UNCHANGED <<wpc, wid, processing, undeleted>>
         /\ overlap' # overlap => \E id \in Ids : EnqueueBegin(c, id)
  BY DEF Client, EnqueueBegin, CancelPending, EnqueueClear, EnqueueWrite,
     EnqueueRename, CancelAllBegin, CancelAllEnd, CancelAllRemove, files, workerVars,
     clientVars, counters, ghosts

(* Clients accept work, withdraw what waits, or muddle what is being run.   *)
LEMMA ClientKeepsPromise ==
  ASSUME IInv, IInv', NEW c \in Clients, Client(c)
  PROVE  Kept
<1>1. TypeOK /\ UNCHANGED <<wpc, wid, processing, undeleted>>
  BY ClientSteps DEF IInv
<1>2. \A id : Held(id)' <=> Held(id)
  BY <1>1 DEF Held
<1>3. ASSUME NEW i \in Ids, EnqueueBegin(c, i) PROVE Kept
  <2>1. /\ UNCHANGED <<pending, done, owed>>
        /\ overlap' = IF processing[i] # "none" THEN overlap \cup {i} ELSE overlap
    BY <1>3 DEF EnqueueBegin, files, ghosts
  <2>2. ASSUME NEW o \in Ids, o # i \/ overlap' = overlap PROVE Untouched(o)
    <3>1. o \in Undisturbed' <=> o \in Undisturbed
      BY <1>1, <2>1, <2>2 DEF Undisturbed
    <3>. QED
      BY <1>1, <1>2, <2>1, <3>1, PlaceStays
  <2>3. CASE overlap' = overlap
    BY <2>2, <2>3, NoneMoves DEF Kept
  <2>4. CASE overlap' # overlap
    <3>1. i \notin Undisturbed'
      BY <2>1, <2>4 DEF Undisturbed
    <3>. QED
      BY <2>2, <3>1, Muddles
  <2>. QED
    BY <2>3, <2>4
<1>4. ASSUME UNCHANGED overlap PROVE Undisturbed' = Undisturbed
  BY <1>1, <1>4 DEF Undisturbed
<1>5. ASSUME UNCHANGED <<pending, owed, overlap>>,
             \A id \in Undisturbed : (id \in done' <=> id \in done) \/ processing[id] = "none"
      PROVE  Kept
  <2>1. ASSUME NEW o \in Ids PROVE Untouched(o)
    BY <1>1, <1>2, <1>4, <1>5, PlaceStays
  <2>. QED
    BY <2>1, NoneMoves DEF Kept
<1>6. CASE EnqueueClear(c)
  <2>1. /\ UNCHANGED <<pending, owed, overlap>> /\ done' = done \ {cid[c]}
        /\ cpc[c] = "clear"
    BY <1>6 DEF EnqueueClear, ghosts
  <2>2. ASSUME NEW id \in Undisturbed, id = cid[c] PROVE processing[id] = "none"
    <3>1. IdInv(id)
      BY DEF IInv
    <3>. QED
      BY <2>1, <2>2, <3>1 DEF IdInv, EnqueueIsClear, EnqueuePc
  <2>. QED
    BY <1>5, <2>1, <2>2
<1>7. CASE EnqueueWrite(c) \/ CancelAllBegin(c) \/ CancelAllEnd(c)
  <2>1. UNCHANGED <<pending, owed, overlap, done>>
    BY <1>7 DEF EnqueueWrite, CancelAllBegin, CancelAllEnd, files, ghosts
  <2>. QED
    BY <1>5, <2>1
<1>8. CASE EnqueueRename(c)
  <2>1. PICK i \in Ids : i = cid[c] /\ cpc[c] = "rename" /\ UNCHANGED <<done, overlap>>
    BY <1>1, <1>8 DEF EnqueueRename, TypeOK, EnqueuePc
  <2>2. \/ UNCHANGED <<pending, owed>>
        \/ pending' = [pending EXCEPT ![i] = "whole"] /\ owed' = owed \cup {i}
    BY <1>8, <2>1 DEF EnqueueRename
  <2>3. CASE UNCHANGED <<pending, owed>>
    BY <1>5, <2>1, <2>3
  <2>4. CASE pending' = [pending EXCEPT ![i] = "whole"] /\ owed' = owed \cup {i}
    <3>1. ASSUME NEW o \in Ids, o # i \/ o \notin Undisturbed PROVE Untouched(o)
      <4>1. pending' \in [Names -> File] /\ pending \in [Names -> File] /\ o \in Names
        BY <1>1 DEF IInv, TypeOK
      <4>2. o \in Undisturbed' <=> o \in Undisturbed
        BY <1>4, <2>1
      <4>3. o \in Undisturbed => pending'[o] = pending[o] /\ (o \in owed' <=> o \in owed)
        BY <2>4, <3>1, <4>1
      <4>. QED
        BY <1>1, <1>2, <2>1, <4>2, <4>3, PlaceStays
    <3>2. CASE i \notin Undisturbed
      BY <3>1, <3>2, NoneMoves DEF Kept
    <3>3. CASE i \in Undisturbed
      <4>1. processing[i] = "none"
        <5>1. IdInv(i)
          BY <3>3 DEF IInv
        <5>. QED
          BY <2>1, <5>1 DEF IdInv, EnqueueIsClear, EnqueuePc
      <4>2. ~Held(i)
        BY <3>3, <4>1, HeldIs DEF Held
      <4>3. PlaceOf(i) \in {"nowhere", "waiting"}
        BY <3>3, <4>1, <4>2 DEF PlaceOf, Held
      <4>4. pending'[i] = "whole"
        BY <1>1, <2>1, <2>4 DEF TypeOK
      <4>5. PlaceOf(i)' = "waiting"
        BY <1>2, <1>4, <2>1, <3>3, <4>2, <4>4 DEF PlaceOf, Held
      <4>6. i \in Debts'
        BY <1>4, <2>1, <2>4, <3>3 DEF Debts
      <4>7. Promise!Accept(i)
        BY <2>1, <3>1, <4>3, <4>5, <4>6, OneMoves DEF Promise!Accept
      <4>. QED
        BY <2>1, <4>7 DEF Kept, Promise!Next
    <3>. QED
      BY <3>2, <3>3
  <2>. QED
    BY <2>2, <2>3, <2>4
<1>9. ASSUME NEW i \in Names, UNCHANGED <<done, overlap>>, pending[i] # "none",
             pending' = [pending EXCEPT ![i] = "none"], owed' = owed \ {i}
      PROVE  Kept
  <2>1. pending \in [Names -> File] /\ Ids \subseteq Names /\ owed \subseteq Ids
    BY <1>1 DEF TypeOK
  <2>2. ASSUME NEW o \in Ids, o # i \/ o \notin Undisturbed PROVE Untouched(o)
    <3>1. o \in Undisturbed' <=> o \in Undisturbed
      BY <1>4, <1>9
    <3>2. o \in Undisturbed => pending'[o] = pending[o] /\ (o \in owed' <=> o \in owed)
      BY <1>9, <2>1, <2>2
    <3>. QED
      BY <1>1, <1>2, <1>9, <3>1, <3>2, PlaceStays
  <2>3. CASE i \notin Undisturbed
    BY <2>2, <2>3, NoneMoves DEF Kept
  <2>4. CASE i \in Undisturbed
    <3>1. i \in Ids
      BY <2>4 DEF Undisturbed
    <3>2. processing[i] = "none"
      <4>1. IdInv(i)
        BY <2>4 DEF IInv
      <4>. QED
        BY <1>9, <4>1 DEF IdInv, OnePlace
    <3>3. ~Held(i)
      BY <2>4, <3>2, HeldIs DEF Held
    <3>4. PlaceOf(i) \in {"waiting"}
      BY <1>9, <2>4, <3>3 DEF PlaceOf, Held
    <3>5. pending'[i] = "none"
      BY <1>9, <2>1
    <3>6. PlaceOf(i)' = "nowhere"
      BY <1>1, <1>2, <1>4, <1>9, <2>4, <3>2, <3>3, <3>5 DEF PlaceOf, Held
    <3>7. i \notin Debts'
      BY <1>9 DEF Debts
    <3>8. Promise!Withdraw(i)
      BY <2>2, <3>1, <3>4, <3>6, <3>7, OneMoves DEF Promise!Withdraw
    <3>. QED
      BY <3>1, <3>8 DEF Kept, Promise!Next
  <2>. QED
    BY <2>3, <2>4
<1>10. ASSUME NEW i \in Ids, CancelPending(c, i) PROVE Kept
  <2>1. i \in Names
    OBVIOUS
  <2>. QED
    BY <1>9, <1>10, <2>1 DEF CancelPending
<1>11. ASSUME NEW n \in Names, CancelAllRemove(c, n) PROVE Kept
  <2>1. UNCHANGED <<done, overlap>>
    BY <1>11 DEF CancelAllRemove
  <2>2. CASE UNCHANGED <<pending, owed>>
    BY <1>5, <2>1, <2>2
  <2>3. CASE /\ pending[n] # "none" /\ pending' = [pending EXCEPT ![n] = "none"]
             /\ owed' = owed \ {n}
    BY <1>9, <2>1, <2>3
  <2>. QED
    BY <1>11, <2>2, <2>3 DEF CancelAllRemove
<1>. QED
  BY <1>3, <1>6, <1>7, <1>8, <1>10, <1>11 DEF Client

(* The worker is free before and after: only files it does not hold move.   *)
LEMMA WorkerFreeSteps ==
  ASSUME TypeOK, TypeOK', NEW id \in Ids, wpc \in WorkerFree, wpc' \in WorkerFree
  PROVE  ~Held(id) /\ ~Held(id)'
<1>1. ~Held(id)
  BY FreeHolds
<1>2. wid' = NoId /\ id # NoId
  BY DEF TypeOK
<1>. QED
  BY <1>1, <1>2 DEF Held

(* The worker's steps that settle, return and leave nothing.                *)
LEMMA WorkerKeepsPlaces ==
  ASSUME IInv, IInv',
         \/ WorkerCheck \/ WorkerScan \/ WalkEnd \/ WorkerRead
         \/ \E f \in Names : WalkMalformed(f) \/ WalkSkip(f)
         \/ DoneRemove \/ DonePrune \/ CancelUnmark \/ FailMark \/ RequeueClear
  PROVE  Kept
<1>1. TypeOK /\ TypeOK' /\ NoId \notin Ids
  BY DEF IInv
<1>2. SUFFICES ASSUME NEW o \in Ids PROVE Untouched(o)
  BY NoneMoves DEF Kept
<1>3. ASSUME UNCHANGED <<overlap, undeleted>> PROVE o \in Undisturbed' <=> o \in Undisturbed
  BY <1>3 DEF Undisturbed
<1>4. CASE WorkerCheck \/ WorkerScan \/ WalkEnd
  <2>1. /\ wpc \in WorkerFree /\ wpc' \in WorkerFree
        /\ UNCHANGED <<pending, processing, done, owed, overlap, undeleted>>
    BY <1>4 DEF WorkerCheck, WorkerScan, WalkEnd, WorkerFree, files, ghosts
  <2>. QED
    BY <1>1, <1>3, <2>1, WorkerFreeSteps, PlaceStays
<1>5. CASE WorkerRead
  <2>1. /\ wpc = "read" /\ wpc' \in {"run", "fail_mark"}
        /\ UNCHANGED <<wid, pending, processing, done, owed, overlap, undeleted>>
    BY <1>5 DEF WorkerRead, files, ghosts
  <2>2. Held(o)' <=> Held(o)
    BY <2>1 DEF Held
  <2>. QED
    BY <1>3, <2>1, <2>2, PlaceStays
<1>6. ASSUME NEW f \in Names, WalkMalformed(f) \/ WalkSkip(f) PROVE Untouched(o)
  <2>1. /\ wpc \in WorkerFree /\ wpc' \in WorkerFree
        /\ UNCHANGED <<processing, done, owed, overlap, undeleted>>
    BY <1>6 DEF WalkMalformed, WalkSkip, WorkerFree, files, ghosts
  <2>2. pending'[o] = pending[o]
    BY <1>1, <1>6 DEF WalkMalformed, WalkSkip, files, TypeOK
  <2>. QED
    BY <1>1, <1>3, <2>1, <2>2, WorkerFreeSteps, PlaceStays
<1>7. CASE CancelUnmark \/ FailMark \/ RequeueClear
  <2>1. /\ wpc \in {"cancel_unmark", "fail_mark", "requeue_clear"}
        /\ wpc' \in {"cancel_move", "fail_remove", "requeue_move"}
        /\ UNCHANGED <<wid, pending, processing, owed, overlap, undeleted>>
        /\ done' \in {done, done \ {wid}}
    BY <1>7 DEF CancelUnmark, FailMark, RequeueClear, ghosts
  <2>2. Held(o)' <=> Held(o)
    BY <2>1 DEF Held
  <2>3. ~Held(o) => (o \in done' <=> o \in done)
    BY <2>1 DEF Held
  <2>. QED
    BY <1>3, <2>1, <2>2, <2>3, PlaceStays
<1>8. CASE DoneRemove
  <2>1. /\ wpc = "done_remove" /\ wpc' = "done_prune"
        /\ UNCHANGED <<wid, pending, done, owed, overlap, undeleted>>
        /\ processing' = [processing EXCEPT ![wid] = "none"]
    BY <1>8 DEF DoneRemove, ghosts
  <2>2. ~Held(o) /\ ~Held(o)'
    BY <2>1 DEF Held
  <2>3. CASE o # wid
    <3>1. processing'[o] = processing[o]
      BY <1>1, <2>1, <2>3 DEF TypeOK
    <3>. QED
      BY <1>3, <2>1, <2>2, <3>1, PlaceStays
  <2>4. CASE o = wid /\ o \in Undisturbed
    <3>1. IdInv(o) /\ o \in Undisturbed'
      BY <1>3, <2>1, <2>4 DEF IInv
    <3>2. o \in done /\ o \in done'
      BY <2>1, <2>4, <3>1 DEF IdInv, MarkedBeforeRemoved
    <3>3. PlaceOf(o)' = PlaceOf(o)
      BY <2>1, <2>2, <2>4, <3>1, <3>2 DEF PlaceOf, Held
    <3>. QED
      BY <2>1, <2>4, <3>1, <3>3 DEF Untouched, Debts
  <2>5. CASE o \notin Undisturbed
    BY <1>3, <2>1, <2>5, PlaceStays
  <2>. QED
    BY <2>3, <2>4, <2>5
<1>9. CASE DonePrune
  <2>1. /\ wpc = "done_prune" /\ wpc' = "check" /\ wid' = NoId
        /\ UNCHANGED <<pending, processing, owed, overlap, undeleted>>
        /\ done' \subseteq done
    BY <1>9 DEF DonePrune, Free, Newest, ghosts
  <2>2. ~Held(o) /\ ~Held(o)'
    BY <1>1, <2>1 DEF Held
  <2>3. o \in Undisturbed /\ o \in done => processing[o] = "none"
    <3>1. o \in Undisturbed => IdInv(o)
      BY DEF IInv
    <3>2. phase = "up"
      BY <2>1 DEF IInv, IdleUnlessUp
    <3>. QED
      BY <2>1, <3>1, <3>2 DEF IdInv, NoMarkerWhileOwed, LeftoverIsMarked
  <2>. QED
    BY <1>3, <2>1, <2>2, <2>3, PlaceStays
<1>. QED
  BY <1>4, <1>5, <1>6, <1>7, <1>8, <1>9

(* The claim takes one item, and none is taken then; or it muddles a        *)
(* recording that is being submitted again.                                 *)
LEMMA ClaimKeepsPromise ==
  ASSUME IInv, IInv', NEW f \in Names, WalkClaim(f)
  PROVE  Kept
<1>1. /\ wpc = "walk" /\ wpc' = "read" /\ wid' = f /\ f \in Ids /\ pending[f] # "none"
      /\ pending' = [pending EXCEPT ![f] = "none"]
      /\ processing' = [processing EXCEPT ![f] = pending[f]]
      /\ owed' = owed \cup {f} /\ overlap' \in {overlap, overlap \cup {f}}
      /\ UNCHANGED <<done, undeleted>>
  BY DEF WalkClaim
<1>2. TypeOK /\ TypeOK' /\ \A o \in Ids : ~Held(o)
  BY <1>1, FreeHolds DEF IInv, WorkerFree
<1>3. ASSUME NEW o \in Ids, o # f \/ f \notin Undisturbed PROVE Untouched(o)
  <2>1. o \in Undisturbed' <=> o \in Undisturbed
    BY <1>1, <1>3 DEF Undisturbed
  <2>2. CASE o # f
    <3>1. /\ pending'[o] = pending[o] /\ processing'[o] = processing[o]
          /\ o \in owed' <=> o \in owed
      BY <1>1, <1>2, <2>2 DEF TypeOK
    <3>2. ~Held(o)'
      BY <1>1, <2>2 DEF Held
    <3>. QED
      BY <1>1, <1>2, <2>1, <3>1, <3>2, PlaceStays
  <2>3. CASE o \notin Undisturbed
    BY <2>1, <2>3, PlaceStays
  <2>. QED
    BY <1>3, <2>2, <2>3
<1>4. CASE f \notin Undisturbed
  BY <1>3, <1>4, NoneMoves DEF Kept
<1>5. CASE f \notin Undisturbed'
  BY <1>1, <1>3, <1>5, Muddles
<1>6. CASE f \in Undisturbed /\ f \in Undisturbed'
  <2>1. PlaceOf(f) \in {"waiting"}
    BY <1>1, <1>2, <1>6 DEF PlaceOf, Held
  <2>2. PlaceOf(f)' = "taken"
    BY <1>1, <1>6 DEF PlaceOf
  <2>3. f \in Debts' /\ f \in Debts
    <3>1. IdInv(f)
      BY <1>6 DEF IInv
    <3>2. f \in owed
      BY <1>1, <3>1 DEF IdInv, QueuedIsOwed
    <3>. QED
      BY <1>1, <1>6, <3>2 DEF Debts
  <2>4. Promise!Moves(f, {"waiting"}, "taken") /\ Debts' = Debts \cup {f}
    BY <1>1, <1>3, <2>1, <2>2, <2>3, OneMoves
  <2>5. \A other \in Ids : Places[other] # "taken"
    BY <1>2 DEF Places, PlaceOf, Held
  <2>6. Promise!Take(f)
    BY <2>3, <2>4, <2>5 DEF Promise!Take
  <2>. QED
    BY <1>1, <2>6 DEF Kept, Promise!Next
<1>. QED
  BY <1>4, <1>5, <1>6

(* A step that opens the worker's hand touches only the item in it, and     *)
(* that only if it is not muddled.                                          *)
LEMMA HandOpens ==
  ASSUME IInv, IInv', NEW i \in Ids, wid = i, wpc \notin {"done_remove", "done_prune"},
         UNCHANGED <<overlap, undeleted>>, \A o \in Ids : ~Held(o)',
         \A o \in Ids \ {i} :
           /\ pending'[o] = "none" <=> pending[o] = "none"
           /\ processing'[o] = processing[o]
           /\ (o \in done' <=> o \in done) /\ (o \in owed' <=> o \in owed)
  PROVE  /\ i \notin Undisturbed => Kept
         /\ i \in Undisturbed =>
              /\ i \in Undisturbed' /\ \A other \in Ids \ {i} : Untouched(other)
              /\ PlaceOf(i) = "taken" /\ i \in Debts /\ i \notin done
              /\ processing[i] # "none" /\ pending[i] = "none"
<1>1. Undisturbed' = Undisturbed
  BY DEF Undisturbed
<1>2. ASSUME NEW o \in Ids, o # i \/ o \notin Undisturbed PROVE Untouched(o)
  <2>1. CASE o \notin Undisturbed
    BY <1>1, <2>1, PlaceStays
  <2>2. CASE o # i
    <3>1. ~Held(o)
      BY <2>2 DEF Held
    <3>. QED
      BY <1>1, <2>2, <3>1, PlaceStays
  <2>. QED
    BY <1>2, <2>1, <2>2
<1>3. CASE i \notin Undisturbed
  BY <1>2, <1>3, NoneMoves DEF Kept
<1>4. CASE i \in Undisturbed
  BY <1>1, <1>2, <1>4, HeldIs DEF PlaceOf, Debts
<1>. QED
  BY <1>3, <1>4

(* The end of a run: done, cancelled and failed items are settled.          *)
LEMMA SettleKeepsPromise ==
  ASSUME IInv, IInv', DoneMark \/ CancelMove \/ FailRemove
  PROVE  Kept
<1>1. PICK i \in Ids : i = wid /\ wpc \notin {"done_remove", "done_prune"}
  BY DEF DoneMark, CancelMove, FailRemove, IInv, TypeOK, WorkerFree
<1>2. /\ UNCHANGED <<pending, overlap, undeleted>> /\ owed' = Settled(i)
      /\ \/ done' = done \cup {i} /\ processing' = processing
         \/ done' \in {done, done \cup {i}} /\ processing' = [processing EXCEPT ![i] = "none"]
      /\ \/ wpc' = "done_remove"
         \/ wid' = NoId
  BY <1>1 DEF DoneMark, CancelMove, FailRemove, Free
<1>3. TypeOK /\ NoId \notin Ids
  BY DEF IInv
<1>4. \A o \in Ids : ~Held(o)'
  BY <1>2, <1>3 DEF Held
<1>5. ASSUME NEW o \in Ids \ {i}
      PROVE  /\ pending'[o] = "none" <=> pending[o] = "none"
             /\ processing'[o] = processing[o]
             /\ (o \in done' <=> o \in done) /\ (o \in owed' <=> o \in owed)
  BY <1>2, <1>3 DEF TypeOK, Settled
<1>6. CASE i \notin Undisturbed
  BY <1>1, <1>2, <1>4, <1>5, <1>6, HandOpens
<1>7. CASE i \in Undisturbed
  <2>1. /\ i \in Undisturbed' /\ \A other \in Ids \ {i} : Untouched(other)
        /\ PlaceOf(i) \in {"taken"} /\ pending[i] = "none"
    BY <1>1, <1>2, <1>4, <1>5, <1>7, HandOpens
  <2>2. processing'[i] = "none" \/ i \in done'
    BY <1>2, <1>3 DEF TypeOK
  <2>3. PlaceOf(i)' = "nowhere"
    BY <1>2, <1>4, <2>1, <2>2 DEF PlaceOf, Held
  <2>4. i \notin Debts'
    BY <1>2, <2>1 DEF Debts, Settled
  <2>5. Promise!Settle(i)
    BY <2>1, <2>3, <2>4, OneMoves DEF Promise!Settle
  <2>. QED
    BY <2>5 DEF Kept, Promise!Next
<1>. QED
  BY <1>6, <1>7

(* A transient failure puts the item back, where it waits again.            *)
LEMMA RequeueKeepsPromise ==
  ASSUME IInv, IInv', RequeueMove
  PROVE  Kept
<1>1. PICK i \in Ids : i = wid /\ wpc = "requeue_move"
  BY DEF RequeueMove, IInv, TypeOK, WorkerFree
<1>2. /\ UNCHANGED <<done, owed, overlap, undeleted>> /\ wid' = NoId
      /\ pending' = [pending EXCEPT ![i] = processing[i]]
      /\ processing' = [processing EXCEPT ![i] = "none"]
  BY <1>1 DEF RequeueMove, Free, ghosts
<1>3. TypeOK /\ NoId \notin Ids
  BY DEF IInv
<1>4. \A o \in Ids : ~Held(o)'
  BY <1>2, <1>3 DEF Held
<1>5. ASSUME NEW o \in Ids \ {i}
      PROVE  /\ pending'[o] = "none" <=> pending[o] = "none"
             /\ processing'[o] = processing[o]
             /\ (o \in done' <=> o \in done) /\ (o \in owed' <=> o \in owed)
  BY <1>2, <1>3 DEF TypeOK
<1>6. CASE i \notin Undisturbed
  BY <1>1, <1>2, <1>4, <1>5, <1>6, HandOpens
<1>7. CASE i \in Undisturbed
  <2>1. /\ i \in Undisturbed' /\ \A other \in Ids \ {i} : Untouched(other)
        /\ PlaceOf(i) \in {"taken", "left"} /\ i \in Debts /\ processing[i] # "none"
    BY <1>1, <1>2, <1>4, <1>5, <1>7, HandOpens
  <2>2. pending'[i] # "none"
    BY <1>2, <1>3, <2>1 DEF TypeOK
  <2>3. PlaceOf(i)' = "waiting"
    BY <1>4, <2>1, <2>2 DEF PlaceOf, Held
  <2>4. i \in Debts'
    BY <1>2, <2>1 DEF Debts
  <2>5. Promise!Return(i)
    BY <2>1, <2>3, <2>4, OneMoves DEF Promise!Return
  <2>. QED
    BY <2>5 DEF Kept, Promise!Next
<1>. QED
  BY <1>6, <1>7

(* An error that settles nothing, and a crash: what was in hand is left.    *)
LEMMA LeaveKeepsPromise ==
  ASSUME IInv, IInv', NEW i \in Ids, i = wid, wpc \notin {"done_remove", "done_prune"},
         wid' = NoId, UNCHANGED <<processing, done, owed, overlap, undeleted>>,
         \A o \in Ids : pending'[o] = "none" <=> pending[o] = "none"
  PROVE  Kept
<1>1. NoId \notin Ids
  BY DEF IInv
<1>2. \A o \in Ids : ~Held(o)'
  BY <1>1 DEF Held
<1>3. CASE i \notin Undisturbed
  BY <1>2, <1>3, HandOpens
<1>4. CASE i \in Undisturbed
  <2>1. /\ i \in Undisturbed' /\ \A other \in Ids \ {i} : Untouched(other)
        /\ PlaceOf(i) \in {"taken"} /\ i \in Debts /\ i \notin done
        /\ processing[i] # "none" /\ pending[i] = "none"
    BY <1>2, <1>4, HandOpens
  <2>2. PlaceOf(i)' = "left"
    BY <1>2, <2>1 DEF PlaceOf, Held
  <2>3. i \in Debts'
    BY <2>1 DEF Debts
  <2>4. Promise!Leave(i)
    BY <2>1, <2>2, <2>3, OneMoves DEF Promise!Leave
  <2>. QED
    BY <2>4 DEF Kept, Promise!Next
<1>. QED
  BY <1>3, <1>4

(* A run that ends keeps the item in hand for a finish operation, or leaves *)
(* it.                                                                      *)
LEMMA RunEndsKeepsPromise ==
  ASSUME IInv, IInv', RunEnds
  PROVE  Kept
<1>1. PICK i \in Ids : i = wid /\ wpc = "run"
  BY DEF RunEnds, IInv, TypeOK, WorkerFree
<1>2. UNCHANGED <<pending, processing, done, owed, overlap, undeleted>>
  BY DEF RunEnds, files, ghosts
<1>3. CASE wid' = NoId
  BY <1>1, <1>2, <1>3, LeaveKeepsPromise
<1>4. CASE wpc' \in {"done_mark", "cancel_unmark", "fail_mark", "requeue_clear"} /\ wid' = wid
  <2>1. ASSUME NEW o \in Ids PROVE Untouched(o)
    <3>1. Held(o)' <=> Held(o)
      BY <1>1, <1>4 DEF Held
    <3>2. o \in Undisturbed' <=> o \in Undisturbed
      BY <1>2 DEF Undisturbed
    <3>. QED
      BY <1>2, <3>1, <3>2, PlaceStays
  <2>. QED
    BY <2>1, NoneMoves DEF Kept
<1>. QED
  BY <1>3, <1>4 DEF RunEnds

(* Startup: recovery returns what was left, and nothing else.               *)
LEMMA StartupKeepsPromise ==
  ASSUME IInv, IInv', Startup
  PROVE  Kept
<1>1. TypeOK /\ TypeOK' /\ UNCHANGED <<wpc, wid, overlap, owed>> /\ wpc = "check"
  BY DEF Startup, Start, RecoverEnd, Recover, RecoverMalformed, RecoverDrop, RecoverRequeue,
     Visited, IInv, IdleUnlessUp, workerVars, ghosts
<1>2. \A o \in Ids : ~Held(o) /\ ~Held(o)'
  BY <1>1, WorkerFreeSteps DEF WorkerFree
<1>3. ASSUME UNCHANGED undeleted PROVE Undisturbed' = Undisturbed
  BY <1>1, <1>3 DEF Undisturbed
<1>4. CASE Start \/ RecoverEnd
  <2>1. UNCHANGED <<pending, processing, done, undeleted>>
    BY <1>4 DEF Start, RecoverEnd, files, ghosts
  <2>2. ASSUME NEW o \in Ids PROVE Untouched(o)
    BY <1>1, <1>2, <1>3, <2>1, PlaceStays
  <2>. QED
    BY <2>2, NoneMoves DEF Kept
<1>5. ASSUME NEW n \in Names, RecoverMalformed(n) PROVE Kept
  <2>1. n \notin Ids /\ UNCHANGED <<pending, done, undeleted>>
    BY <1>5 DEF RecoverMalformed, ghosts
  <2>2. ASSUME NEW o \in Ids PROVE Untouched(o)
    <3>1. processing'[o] = processing[o]
      BY <1>1, <1>5, <2>1 DEF RecoverMalformed, TypeOK
    <3>. QED
      BY <1>1, <1>2, <1>3, <2>1, <3>1, PlaceStays
  <2>. QED
    BY <2>2, NoneMoves DEF Kept
<1>6. ASSUME NEW n \in Names, RecoverDrop(n) PROVE Kept
  <2>1. n \in Ids /\ n \in done /\ UNCHANGED <<pending, done>>
    BY <1>1, <1>6 DEF RecoverDrop, TypeOK
  <2>2. \/ processing' = [processing EXCEPT ![n] = "none"] /\ UNCHANGED undeleted
        \/ undeleted' = undeleted \cup {n} /\ UNCHANGED processing
    BY <1>6 DEF RecoverDrop
  <2>3. ASSUME NEW o \in Ids \ {n} PROVE Untouched(o)
    <3>1. processing'[o] = processing[o]
      BY <1>1, <2>2 DEF TypeOK
    <3>2. o \in Undisturbed' <=> o \in Undisturbed
      BY <1>1, <2>2 DEF Undisturbed
    <3>. QED
      BY <1>1, <1>2, <2>1, <3>1, <3>2, PlaceStays
  <2>4. CASE UNCHANGED undeleted
    <3>1. PlaceOf(n)' = PlaceOf(n)
      BY <1>2, <1>3, <2>1, <2>4 DEF PlaceOf, Held
    <3>2. n \in Debts' <=> n \in Debts
      BY <1>1, <1>3, <2>4 DEF Debts
    <3>. QED
      BY <2>3, <3>1, <3>2, NoneMoves DEF Kept, Untouched
  <2>5. CASE undeleted' = undeleted \cup {n}
    <3>1. n \notin Undisturbed'
      BY <2>5 DEF Undisturbed
    <3>. QED
      BY <2>1, <2>3, <3>1, Muddles
  <2>. QED
    BY <2>2, <2>4, <2>5
<1>7. ASSUME NEW n \in Names, RecoverRequeue(n) PROVE Kept
  <2>1. /\ n \in Ids /\ n \notin done /\ UNCHANGED <<done, undeleted>>
        /\ phase = "recovering" /\ n \in todo
    BY <1>7 DEF RecoverRequeue, Visited, ghosts
  <2>2. CASE UNCHANGED <<pending, processing>>
    <3>1. ASSUME NEW o \in Ids PROVE Untouched(o)
      BY <1>1, <1>2, <1>3, <2>1, <2>2, PlaceStays
    <3>. QED
      BY <3>1, NoneMoves DEF Kept
  <2>3. CASE /\ pending' = [pending EXCEPT ![n] = processing[n]]
             /\ processing' = [processing EXCEPT ![n] = "none"]
    <3>1. ASSUME NEW o \in Ids, o # n \/ o \notin Undisturbed PROVE Untouched(o)
      <4>1. CASE o # n
        <5>1. pending'[o] = pending[o] /\ processing'[o] = processing[o]
          BY <1>1, <2>3, <4>1 DEF TypeOK
        <5>. QED
          BY <1>1, <1>2, <1>3, <2>1, <5>1, PlaceStays
      <4>2. CASE o \notin Undisturbed
        BY <1>3, <2>1, <4>2, PlaceStays
      <4>. QED
        BY <3>1, <4>1, <4>2
    <3>2. CASE n \notin Undisturbed
      BY <3>1, <3>2, NoneMoves DEF Kept
    <3>3. CASE n \in Undisturbed
      <4>1. IdInv(n)
        BY <3>3 DEF IInv
      <4>2. processing[n] # "none"
        BY <2>1, <4>1 DEF IdInv, TodoIsPresent
      <4>3. pending[n] = "none" /\ n \in owed
        BY <1>1, <2>1, <4>1, <4>2 DEF IdInv, OnePlace, LeftoverIsMarked
      <4>4. PlaceOf(n) \in {"taken", "left"}
        BY <1>2, <2>1, <3>3, <4>2, <4>3 DEF PlaceOf, Held
      <4>5. pending'[n] # "none"
        BY <1>1, <2>1, <2>3, <4>2 DEF TypeOK
      <4>6. PlaceOf(n)' = "waiting"
        BY <1>2, <1>3, <2>1, <3>3, <4>5 DEF PlaceOf, Held
      <4>7. n \in Debts /\ n \in Debts'
        BY <1>1, <1>3, <2>1, <3>3, <4>3 DEF Debts
      <4>8. Promise!Return(n)
        BY <2>1, <3>1, <4>4, <4>6, <4>7, OneMoves DEF Promise!Return
      <4>. QED
        BY <2>1, <4>8 DEF Kept, Promise!Next
    <3>. QED
      BY <3>2, <3>3
  <2>. QED
    BY <1>7, <2>2, <2>3 DEF RecoverRequeue
<1>. QED
  BY <1>4, <1>5, <1>6, <1>7 DEF Startup, Recover

(* Users reorder, pause and tidy: no recording moves.                       *)
LEMMA UserKeepsPromise ==
  ASSUME IInv, IInv', User
  PROVE  Kept
<1>1. TypeOK
  BY DEF IInv
<1>2. UNCHANGED <<done, wpc, wid, owed, overlap, undeleted>>
  BY DEF User, SetOrder, SetPaused, DismissFailed, ClearFailed, Dismiss, DropMalformed,
     workerVars, ghosts
<1>3. ASSUME NEW o \in Ids PROVE pending'[o] = pending[o] /\ processing'[o] = processing[o]
  BY <1>1 DEF User, SetOrder, SetPaused, DismissFailed, ClearFailed, Dismiss, DropMalformed,
     TypeOK
<1>4. ASSUME NEW o \in Ids PROVE Untouched(o)
  <2>1. (Held(o)' <=> Held(o)) /\ (o \in Undisturbed' <=> o \in Undisturbed)
    BY <1>2 DEF Held, Undisturbed
  <2>. QED
    BY <1>2, <1>3, <2>1, PlaceStays
<1>. QED
  BY <1>4, NoneMoves DEF Kept

(* A crash: what was in hand is left, what waited waits.                    *)
LEMMA CrashKeepsPromise ==
  ASSUME IInv, IInv', Crash
  PROVE  Kept
<1>1. TypeOK /\ TypeOK' /\ NoId \notin Ids
  BY DEF IInv
<1>2. /\ UNCHANGED <<processing, done, owed, overlap, undeleted>>
      /\ wpc' = "check" /\ wid' = NoId
  BY DEF Crash, ghosts
<1>3. \A o \in Ids : pending'[o] = "none" <=> pending[o] = "none"
  BY <1>1 DEF Crash, TypeOK
<1>4. CASE \E i \in Ids : i = wid /\ wpc \notin {"done_remove", "done_prune"}
  BY <1>2, <1>3, <1>4, LeaveKeepsPromise
<1>5. CASE \A i \in Ids : ~Held(i)
  <2>1. ASSUME NEW o \in Ids PROVE Untouched(o)
    <3>1. ~Held(o)'
      BY <1>1, <1>2 DEF Held
    <3>2. o \in Undisturbed' <=> o \in Undisturbed
      BY <1>2 DEF Undisturbed
    <3>. QED
      BY <1>2, <1>3, <1>5, <3>1, <3>2, PlaceStays
  <2>. QED
    BY <2>1, NoneMoves DEF Kept
<1>. QED
  BY <1>4, <1>5 DEF Held

(* Each step of the queue is a step of the promise, or a stutter.           *)
LEMMA StepKeepsPromise ==
  IInv /\ IInv' /\ [Next]_vars => [Promise!Next]_<<Debts, Places>>
<1>. SUFFICES ASSUME IInv, IInv', [Next]_vars PROVE Kept
  BY DEF Kept
<1>1. CASE Worker
  <2>1. CASE \E f \in Names : WalkClaim(f)
    BY <2>1, ClaimKeepsPromise
  <2>. QED
    BY <1>1, <2>1, WorkerKeepsPlaces, SettleKeepsPromise, RequeueKeepsPromise,
       RunEndsKeepsPromise DEF Worker, Walk, Finish
<1>2. CASE UNCHANGED vars
  <2>1. ASSUME NEW o \in Ids PROVE Untouched(o)
    BY <1>2 DEF vars, files, workerVars, ghosts, Untouched, Debts, PlaceOf, Undisturbed
  <2>. QED
    BY <2>1, NoneMoves DEF Kept
<1>. QED
  BY <1>1, <1>2, ClientKeepsPromise, StartupKeepsPromise, UserKeepsPromise, CrashKeepsPromise
     DEF Next

-----------------------------------------------------------------------------
(* The theorems.                                                            *)

(* The inductive invariant: of an id no run shared with an enqueue, what is *)
(* owed is in the files and what is in the files is owed.                   *)
THEOREM Invariant == Spec => []IInv
  BY InitIInv, StepIInv, PTL DEF Spec

(* No crash, in whatever step of enqueue, claim_next, the finish operations *)
(* or recovery, loses a request that enqueue accepted.                      *)
THEOREM NoWorkLost == Spec => []AcceptedWorkKept
<1>1. IInv => AcceptedWorkKept
  BY DEF IInv, IdInv, OwedIsQueued, AcceptedWorkKept
<1>2. QED
  BY <1>1, Invariant, PTL

(* No crash and no pruning of done/ makes recovery queue settled work.      *)
THEOREM NoWorkRepeated == Spec => []NothingSettledRerun
<1>1. IInv => NothingSettledRerun
  BY DEF IInv, IdInv, QueuedIsOwed, NothingSettledRerun
<1>2. QED
  BY <1>1, Invariant, PTL

(* The queue implements its promise, whatever crashes between two of its    *)
(* file-system steps (KeepsWorkPromise).                                   *)
THEOREM Implements == Spec => KeepsWorkPromise
<1>1. Init => Promise!Init
  BY DEF Init, Promise!Init, Debts, Places, PlaceOf, Undisturbed
<1>2. IInv /\ IInv' /\ [Next]_vars => [Promise!Next]_<<Debts, Places>>
  BY StepKeepsPromise
<1>3. QED
  BY <1>1, <1>2, Invariant, PTL DEF Spec, KeepsWorkPromise, Promise!Spec
=============================================================================
