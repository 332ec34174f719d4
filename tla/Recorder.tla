------------------------------ MODULE Recorder ------------------------------
(***************************************************************************)
(* The daemon's recorder (bin/phoneme-daemon/src/recorder/{mod,meeting}.rs *)
(* with the capture task of crates/phoneme-audio/src/recorder.rs): single  *)
(* recordings and two-track meetings, started, paused, stopped, toggled    *)
(* and cancelled by concurrent IPC connections, and stopped by one         *)
(* auto-stop watcher per single recording.                                 *)
(*                                                                         *)
(* One action is one stretch of a handler between two awaits that another  *)
(* handler can use: a critical section under the active or meeting mutex,  *)
(* a catalog write, a file write, a message to a capture task.  A mutex is *)
(* a variable of its own only where the code keeps it across such awaits.  *)
(*                                                                         *)
(* Left out: what is captured, the live preview, the idle pre-roll, the    *)
(* events, and the per-recording hotkey overrides.                         *)
(***************************************************************************)
EXTENDS Integers, Sequences, FiniteSets

CONSTANTS Clients,    \* IPC connections
          None,       \* no recording, no owner
          Ops,        \* the requests they send
          Tracks,     \* tracks of a meeting
          MaxRecs,    \* bound: recordings minted in a behaviour
          MaxFaults   \* bound: device, disk and catalog errors in a behaviour

AllOps == {"start", "stop", "cancel", "pause", "resume",
           "startMeeting", "stopMeeting", "toggleMeeting"}

ASSUME OpsAssumption == Ops \subseteq AllOps
ASSUME BoundAssumption ==
  /\ Tracks \in Nat \ {0}
  /\ MaxRecs \in Nat
  /\ MaxFaults \in Nat

Recs == 1 .. MaxRecs

\* The task spawned by start(), which calls stop() when its capture ends.
Watcher(r) == <<"auto-stop", r>>
Watchers == {Watcher(r) : r \in Recs}
Actors == Clients \cup Watchers

ASSUME ActorsAssumption ==
  Clients \cap Watchers = {} /\ None \notin Actors /\ None \notin Recs

VARIABLES
  active,         \* DaemonRecorder.active: the recording of the slot
  activePaused,   \* ... its paused flag
  handle,         \* DaemonRecorder.handle: whose capture it drives
  meeting,        \* DaemonRecorder.meeting: the tracks of the running meeting
  meetingPaused,  \* ... its paused flag
  activeLock, meetingLock, toggleGuard,  \* who keeps each mutex across awaits
  me,             \* [Actors -> the locals of the handler each one runs]
  cap,            \* capture tasks
  row,            \* catalog status of each recording
  wav,            \* whose capture the audio file of a recording holds
  handed,         \* recordings given to the inbox or to the dictation lane
  nextRec, faults

(* Observation only. *)
VARIABLES
  raced,  \* a stop or cancel took a slot whose start() was still in flight
  lost,   \* recordings with an error that was reported or logged, not rolled back
  late    \* tracks whose row pause() or resume() wrote after a stop took them

slots == <<active, activePaused, handle, meeting, meetingPaused>>
locks == <<activeLock, meetingLock, toggleGuard>>
store == <<row, wav, handed>>
ghosts == <<raced, lost, late>>
vars == <<slots, locks, me, cap, store, nextRec, faults, ghosts>>

Idle == [at |-> "idle", rec |-> None, take |-> None, tracks |-> <<>>]

Places == {"idle", "armed", "fired",
           "reserve", "insert", "open", "store", "clear", "unrow",
           "teardown", "join", "mark", "handoff", "enqueue", "cancel", "delete",
           "toggle", "meetStart", "meetCheck", "meetOpen", "meetLock",
           "trackRow", "trackStart", "abort", "drop",
           "meetStop", "haltAll", "align", "trackWav", "trackQueue", "trackFail",
           "pausing", "resuming"}

Statuses == {"absent", "Recording", "Paused", "Transcribing", "Queued",
             "TranscribeFailed"}

SeqRecs == UNION {[1 .. n -> Recs] : n \in 0 .. Tracks}
Elems(s) == {s[i] : i \in DOMAIN s}

TypeOK ==
  /\ active \in Recs \cup {None} /\ activePaused \in BOOLEAN
  /\ handle \in Recs \cup {None}
  /\ meeting \in SeqRecs /\ meetingPaused \in BOOLEAN
  /\ activeLock \in Clients \cup {None}
  /\ meetingLock \in Clients \cup {None}
  /\ toggleGuard \in Clients \cup {None}
  /\ me \in [Actors -> [at : Places, rec : Recs \cup {None},
                        take : Recs \cup {None}, tracks : SeqRecs]]
  /\ cap \in [Recs -> {"none", "live", "ending", "ended"}]
  /\ row \in [Recs -> Statuses]
  /\ wav \in [Recs -> Recs \cup {None}]
  /\ handed \subseteq Recs
  /\ nextRec \in 1 .. MaxRecs + 1
  /\ faults \in 0 .. MaxFaults
  /\ raced \in BOOLEAN /\ lost \subseteq Recs /\ late \subseteq Recs

Init ==
  /\ active = None /\ activePaused = FALSE /\ handle = None
  /\ meeting = <<>> /\ meetingPaused = FALSE
  /\ activeLock = None /\ meetingLock = None /\ toggleGuard = None
  /\ me = [a \in Actors |-> Idle]
  /\ cap = [r \in Recs |-> "none"]
  /\ row = [r \in Recs |-> "absent"]
  /\ wav = [r \in Recs |-> None]
  /\ handed = {}
  /\ nextRec = 1 /\ faults = 0
  /\ raced = FALSE /\ lost = {} /\ late = {}

-----------------------------------------------------------------------------
(* What the handlers are made of.                                          *)

At(a, place) == me[a].at = place
Calls(a, op) == a \in Clients /\ At(a, "idle") /\ op \in Ops
Goto(a, place) == me' = [me EXCEPT ![a].at = place]

\* A handler returns: its guards are dropped with its locals.
Release(lock, a) == IF lock = a THEN None ELSE lock
Return(a) ==
  /\ me' = [me EXCEPT ![a] = Idle]
  /\ activeLock' = Release(activeLock, a)
  /\ meetingLock' = Release(meetingLock, a)
  /\ toggleGuard' = Release(toggleGuard, a)

\* catalog.update_status changes nothing when the row is gone.
UpdateStatus(r, s) ==
  row' = IF row[r] = "absent" THEN row ELSE [row EXCEPT ![r] = s]

Works == UNCHANGED <<faults, lost>>
\* An error the handler rolls back, and one that leaves the recording as it is.
Refused == faults < MaxFaults /\ faults' = faults + 1 /\ UNCHANGED lost
Fails(r) ==
  /\ faults < MaxFaults /\ faults' = faults + 1
  /\ lost' = lost \cup {r}

\* Stop, Cancel or a dropped Recorder: the loop will see it and end.
Halted(c, r) == IF c[r] = "live" THEN [c EXCEPT ![r] = "ending"] ELSE c

Room(n) == nextRec + n - 1 <= MaxRecs

\* The slot belongs to a start() that has not stored its recorder yet.
MidStart ==
  \E a \in Clients : me[a].rec = active /\ me[a].at \in {"insert", "open", "store", "clear"}

-----------------------------------------------------------------------------
(* The capture task.                                                       *)

\* The loop ends, on command or by itself (silence, duration, device lost),
\* and on_done wakes the watcher in either case.
CaptureEnds(r) ==
  /\ cap[r] \in {"live", "ending"}
  /\ cap' = [cap EXCEPT ![r] = "ended"]
  /\ me' = IF At(Watcher(r), "armed")
             THEN [me EXCEPT ![Watcher(r)].at = "fired"] ELSE me
  /\ UNCHANGED <<slots, locks, store, nextRec, faults, ghosts>>

-----------------------------------------------------------------------------
(* start()                                                                 *)

StartCheckMeeting(a) ==
  /\ Calls(a, "start") /\ meetingLock = None /\ meeting = <<>>
  /\ Goto(a, "reserve")
  /\ UNCHANGED <<slots, locks, cap, store, nextRec, faults, ghosts>>

StartReserve(a) ==
  /\ At(a, "reserve") /\ activeLock = None
  /\ active = None /\ Room(1)
  /\ active' = nextRec /\ activePaused' = FALSE
  /\ me' = [me EXCEPT ![a].at = "insert", ![a].rec = nextRec]
  /\ nextRec' = nextRec + 1
  /\ UNCHANGED <<handle, meeting, meetingPaused, locks, cap, store, faults, ghosts>>

StartRefused(a) ==
  /\ At(a, "reserve") /\ activeLock = None
  /\ active # None \/ ~Room(1)
  /\ Return(a)
  /\ UNCHANGED <<slots, cap, store, nextRec, faults, ghosts>>

StartInsertRow(a) ==
  /\ At(a, "insert")
  /\ \/ Works /\ row' = [row EXCEPT ![me[a].rec] = "Recording"] /\ Goto(a, "open")
     \/ Refused /\ Goto(a, "clear") /\ UNCHANGED row
  /\ UNCHANGED <<slots, locks, cap, wav, handed, nextRec, raced, late>>

StartOpenSource(a) ==
  /\ At(a, "open")
  /\ \/ /\ Works
        /\ cap' = [cap EXCEPT ![me[a].rec] = "live"]
        /\ Goto(a, "store")
     \/ Refused /\ Goto(a, "clear") /\ UNCHANGED cap
  /\ UNCHANGED <<slots, locks, store, nextRec, raced, late>>

\* Storing the recorder drops whichever one was there; then the watcher is
\* spawned, on a channel that remembers an end already signalled.
StartStoreHandle(a) ==
  LET r == me[a].rec IN
  /\ At(a, "store")
  /\ handle' = r
  /\ cap' = IF handle = None THEN cap ELSE Halted(cap, handle)
  /\ me' = [me EXCEPT ![a] = Idle,
                      ![Watcher(r)].at = IF cap[r] = "ended" THEN "fired" ELSE "armed"]
  /\ UNCHANGED <<active, activePaused, meeting, meetingPaused, locks, store,
                 nextRec, faults, ghosts>>

\* Roll back: clear the slot, whoever's it is by now, then drop the row (no
\* row when it was the insert that failed).
StartClearSlot(a) ==
  /\ At(a, "clear") /\ activeLock = None
  /\ active' = None /\ activePaused' = FALSE
  /\ Goto(a, "unrow")
  /\ UNCHANGED <<handle, meeting, meetingPaused, locks, cap, store, nextRec, faults, ghosts>>

\* Mutant: the rollback forgets the row.
BadStartDropRow(a) ==
  /\ At(a, "unrow")
  /\ Return(a)
  /\ UNCHANGED <<slots, cap, store, nextRec, faults, ghosts>>

StartDropRow(a) ==
  /\ At(a, "unrow")
  /\ \/ Works /\ row' = [row EXCEPT ![me[a].rec] = "absent"]
     \/ Fails(me[a].rec) /\ UNCHANGED row
  /\ Return(a)
  /\ UNCHANGED <<slots, cap, wav, handed, nextRec, raced, late>>

-----------------------------------------------------------------------------
(* stop(), by a client or by the watcher of a recording whose capture ended.*)

CallsStop(a) == Calls(a, "stop") \/ At(a, "fired")

\* The take, with both halves of the slot there.
StopTake(a) ==
  /\ CallsStop(a) /\ activeLock = None
  /\ active # None /\ handle # None
  /\ me' = [me EXCEPT ![a].at = "teardown", ![a].rec = active, ![a].take = handle]
  /\ active' = None /\ activePaused' = FALSE /\ handle' = None
  /\ raced' = (raced \/ MidStart)
  /\ UNCHANGED <<meeting, meetingPaused, locks, cap, store, nextRec, faults, lost, late>>

\* The recorder is not there yet: NotRecording, but the slot is cleared.
StopTakeHalf(a) ==
  /\ CallsStop(a) /\ activeLock = None
  /\ active # None /\ handle = None
  /\ me' = [me EXCEPT ![a] = Idle]
  /\ active' = None /\ activePaused' = FALSE
  /\ raced' = (raced \/ MidStart)
  /\ UNCHANGED <<handle, meeting, meetingPaused, locks, cap, store, nextRec,
                 faults, lost, late>>

\* The benign NotRecording of a watcher.
WatcherFindsNothing(r) ==
  /\ At(Watcher(r), "fired") /\ activeLock = None /\ active = None
  /\ me' = [me EXCEPT ![Watcher(r)] = Idle]
  /\ UNCHANGED <<slots, locks, cap, store, nextRec, faults, ghosts>>

\* Mutant: the capture is joined but never told to stop.
BadStopSend(a) ==
  /\ At(a, "teardown")
  /\ Goto(a, "join")
  /\ UNCHANGED <<slots, locks, cap, store, nextRec, faults, ghosts>>

\* The preview is torn down; only then is the capture told to stop.
StopSend(a) ==
  /\ At(a, "teardown")
  /\ cap' = Halted(cap, me[a].take)
  /\ Goto(a, "join")
  /\ UNCHANGED <<slots, locks, store, nextRec, faults, ghosts>>

\* Mutant: an error of the audio write is swallowed.
BadStopWriteWav(a) ==
  /\ At(a, "join") /\ cap[me[a].take] = "ended"
  /\ \/ Works /\ wav' = [wav EXCEPT ![me[a].rec] = me[a].take]
     \/ Fails(me[a].rec) /\ UNCHANGED wav
  /\ Goto(a, "mark")
  /\ UNCHANGED <<slots, locks, cap, row, handed, nextRec, raced, late>>

\* The task is joined and its samples written to the recording's path.
StopWriteWav(a) ==
  /\ At(a, "join") /\ cap[me[a].take] = "ended"
  /\ \/ /\ Works /\ wav' = [wav EXCEPT ![me[a].rec] = me[a].take]
        /\ Goto(a, "mark") /\ UNCHANGED locks
     \/ Fails(me[a].rec) /\ Return(a) /\ UNCHANGED wav
  /\ UNCHANGED <<slots, cap, row, handed, nextRec, raced, late>>

StopMark(a) ==
  /\ At(a, "mark")
  /\ \/ /\ Works /\ UpdateStatus(me[a].rec, "Transcribing")
        /\ Goto(a, "handoff") /\ UNCHANGED locks
     \/ Fails(me[a].rec) /\ Return(a) /\ UNCHANGED row
  /\ UNCHANGED <<slots, cap, wav, handed, nextRec, raced, late>>

\* An in-place dictation goes to the fast lane, which transcribes at once;
\* anything else is marked Queued first and enqueued after.
StopFastLane(a) ==
  /\ At(a, "handoff")
  /\ handed' = handed \cup {me[a].rec}
  /\ Return(a)
  /\ UNCHANGED <<slots, cap, row, wav, nextRec, faults, ghosts>>

StopMarkQueued(a) ==
  /\ At(a, "handoff")
  /\ \/ /\ Works /\ UpdateStatus(me[a].rec, "Queued")
        /\ Goto(a, "enqueue") /\ UNCHANGED locks
     \/ Fails(me[a].rec) /\ Return(a) /\ UNCHANGED row
  /\ UNCHANGED <<slots, cap, wav, handed, nextRec, raced, late>>

StopEnqueue(a) ==
  /\ At(a, "enqueue")
  /\ \/ Works /\ handed' = handed \cup {me[a].rec}
     \/ Fails(me[a].rec) /\ UNCHANGED handed
  /\ Return(a)
  /\ UNCHANGED <<slots, cap, row, wav, nextRec, raced, late>>

-----------------------------------------------------------------------------
(* cancel()                                                                *)

\* Mutant: the slot is looked at instead of taken.
PeekCancelTake(a) ==
  /\ Calls(a, "cancel") /\ activeLock = None
  /\ active # None
  /\ me' = [me EXCEPT ![a].at = "cancel", ![a].rec = active, ![a].take = handle]
  /\ raced' = (raced \/ MidStart)
  /\ UNCHANGED <<slots, locks, cap, store, nextRec, faults, lost, late>>

\* Mutant: the recording leaves the slot, its recorder stays behind.
HalfCancelTake(a) ==
  /\ Calls(a, "cancel") /\ activeLock = None
  /\ active # None
  /\ me' = [me EXCEPT ![a].at = "cancel", ![a].rec = active]
  /\ active' = None /\ activePaused' = FALSE
  /\ raced' = (raced \/ MidStart)
  /\ UNCHANGED <<handle, meeting, meetingPaused, locks, cap, store, nextRec, faults,
                 lost, late>>

CancelTake(a) ==
  /\ Calls(a, "cancel") /\ activeLock = None
  /\ active # None
  /\ me' = [me EXCEPT ![a].at = "cancel", ![a].rec = active, ![a].take = handle]
  /\ active' = None /\ activePaused' = FALSE /\ handle' = None
  /\ raced' = (raced \/ MidStart)
  /\ UNCHANGED <<meeting, meetingPaused, locks, cap, store, nextRec, faults, lost, late>>

CancelSend(a) ==
  /\ At(a, "cancel")
  /\ cap' = IF me[a].take = None THEN cap ELSE Halted(cap, me[a].take)
  /\ Goto(a, "delete")
  /\ UNCHANGED <<slots, locks, store, nextRec, faults, ghosts>>

CancelDeleteRow(a) ==
  /\ At(a, "delete")
  /\ me[a].take # None => cap[me[a].take] = "ended"
  /\ \/ Works /\ row' = [row EXCEPT ![me[a].rec] = "absent"]
     \/ Fails(me[a].rec) /\ UNCHANGED row
  /\ Return(a)
  /\ UNCHANGED <<slots, cap, wav, handed, nextRec, raced, late>>

\* With no single recording, the meeting is what is cancelled; its lock is
\* taken inside the critical section of the other.
CancelTakeMeeting(a) ==
  /\ Calls(a, "cancel") /\ activeLock = None /\ active = None
  /\ meetingLock = None /\ meeting # <<>>
  /\ me' = [me EXCEPT ![a].at = "drop", ![a].tracks = meeting]
  /\ meeting' = <<>> /\ meetingPaused' = FALSE
  /\ UNCHANGED <<active, activePaused, handle, locks, cap, store, nextRec, faults, ghosts>>

\* Track by track, for a cancelled meeting and for one that failed to start:
\* cancel and join the capture, then delete the row, going on after an error.
Drops(a) == me[a].at \in {"drop", "abort"} /\ me[a].tracks # <<>>

DropCapture(a) ==
  /\ Drops(a)
  /\ LET r == Head(me[a].tracks) IN cap[r] = "live" /\ cap' = Halted(cap, r)
  /\ UNCHANGED <<slots, locks, me, store, nextRec, faults, ghosts>>

NextTrack(a, place) ==
  IF Len(me[a].tracks) = 1 THEN Return(a)
  ELSE /\ me' = [me EXCEPT ![a].at = place, ![a].tracks = Tail(@)]
       /\ UNCHANGED locks

DropRow(a) ==
  /\ Drops(a)
  /\ LET r == Head(me[a].tracks) IN
       /\ cap[r] = "ended"
       /\ \/ Works /\ row' = [row EXCEPT ![r] = "absent"]
          \/ Fails(r) /\ UNCHANGED row
  /\ NextTrack(a, me[a].at)
  /\ UNCHANGED <<slots, cap, wav, handed, nextRec, raced, late>>

AbortNothing(a) ==
  /\ At(a, "abort") /\ me[a].tracks = <<>>
  /\ Return(a)
  /\ UNCHANGED <<slots, cap, store, nextRec, faults, ghosts>>

-----------------------------------------------------------------------------
(* pause() and resume() keep the active mutex until they return.           *)

PauseSingle(a) ==
  /\ Calls(a, "pause") /\ activeLock = None
  /\ active # None /\ ~activePaused /\ handle # None
  /\ activePaused' = TRUE
  /\ \/ Works /\ UpdateStatus(active, "Paused")
     \/ Fails(active) /\ UNCHANGED row
  /\ UNCHANGED <<active, handle, meeting, meetingPaused, locks, me, cap, wav, handed,
                 nextRec, raced, late>>

ResumeSingle(a) ==
  /\ Calls(a, "resume") /\ activeLock = None
  /\ active # None /\ activePaused
  /\ activePaused' = FALSE
  /\ \/ Works /\ UpdateStatus(active, "Recording")
     \/ Fails(active) /\ UNCHANGED row
  /\ UNCHANGED <<active, handle, meeting, meetingPaused, locks, me, cap, wav, handed,
                 nextRec, raced, late>>

\* Of a meeting, the flag and the captures change under the meeting mutex,
\* the rows after it is released.
FlipMeeting(a, place, pausing) ==
  /\ activeLock = None /\ active = None
  /\ meetingLock = None /\ meeting # <<>> /\ meetingPaused # pausing
  /\ meetingPaused' = pausing
  /\ activeLock' = a
  /\ me' = [me EXCEPT ![a].at = place, ![a].tracks = meeting]
  /\ UNCHANGED <<active, activePaused, handle, meeting, meetingLock, toggleGuard, cap,
                 store, nextRec, faults, ghosts>>

PauseMeeting(a) == Calls(a, "pause") /\ FlipMeeting(a, "pausing", TRUE)
ResumeMeeting(a) == Calls(a, "resume") /\ FlipMeeting(a, "resuming", FALSE)

FlipRow(a) ==
  /\ me[a].at \in {"pausing", "resuming"}
  /\ LET r == Head(me[a].tracks) IN
     \/ /\ Works
        /\ UpdateStatus(r, IF At(a, "pausing") THEN "Paused" ELSE "Recording")
        /\ late' = IF r \in Elems(meeting) THEN late ELSE late \cup {r}
        /\ NextTrack(a, me[a].at)
     \/ Fails(r) /\ Return(a) /\ UNCHANGED <<row, late>>
  /\ UNCHANGED <<slots, cap, wav, handed, nextRec, raced>>

-----------------------------------------------------------------------------
(* start_meeting(), called directly or by toggle_meeting().                *)

MeetingStartCall(a) ==
  /\ Calls(a, "startMeeting")
  /\ Goto(a, "meetStart")
  /\ UNCHANGED <<slots, locks, cap, store, nextRec, faults, ghosts>>

MeetingStopCall(a) ==
  /\ Calls(a, "stopMeeting")
  /\ Goto(a, "meetStop")
  /\ UNCHANGED <<slots, locks, cap, store, nextRec, faults, ghosts>>

\* Mutant: no toggle_guard.
UnguardedToggleCall(a) ==
  /\ Calls(a, "toggleMeeting")
  /\ Goto(a, "toggle")
  /\ UNCHANGED <<slots, locks, cap, store, nextRec, faults, ghosts>>

ToggleCall(a) ==
  /\ Calls(a, "toggleMeeting") /\ toggleGuard = None
  /\ toggleGuard' = a
  /\ Goto(a, "toggle")
  /\ UNCHANGED <<slots, activeLock, meetingLock, cap, store, nextRec, faults, ghosts>>

ToggleDecide(a) ==
  /\ At(a, "toggle") /\ meetingLock = None
  /\ Goto(a, IF meeting # <<>> THEN "meetStop" ELSE "meetStart")
  /\ UNCHANGED <<slots, locks, cap, store, nextRec, faults, ghosts>>

MeetingCheckActive(a) ==
  /\ At(a, "meetStart") /\ activeLock = None
  /\ IF active # None THEN Return(a) ELSE Goto(a, "meetCheck") /\ UNCHANGED locks
  /\ UNCHANGED <<slots, cap, store, nextRec, faults, ghosts>>

MeetingCheckMeeting(a) ==
  /\ At(a, "meetCheck") /\ meetingLock = None
  /\ IF meeting # <<>> THEN Return(a) ELSE Goto(a, "meetOpen") /\ UNCHANGED locks
  /\ UNCHANGED <<slots, cap, store, nextRec, faults, ghosts>>

\* Both sources are opened before any state changes.
MeetingOpenSources(a) ==
  /\ At(a, "meetOpen")
  /\ \/ Works /\ Goto(a, "meetLock") /\ UNCHANGED locks
     \/ Refused /\ Return(a)
  /\ UNCHANGED <<slots, cap, store, nextRec, raced, late>>

\* The meeting mutex is now kept until every track runs, or none does; the
\* single slot is not looked at again.
MeetingLock(a) ==
  /\ At(a, "meetLock") /\ meetingLock = None
  /\ IF meeting # <<>> \/ ~Room(Tracks)
       THEN Return(a) /\ UNCHANGED nextRec
       ELSE /\ meetingLock' = a /\ UNCHANGED <<activeLock, toggleGuard>>
            /\ me' = [me EXCEPT ![a].at = "trackRow", ![a].rec = nextRec]
            /\ nextRec' = nextRec + Tracks
  /\ UNCHANGED <<slots, cap, store, faults, ghosts>>

MeetingInsertRow(a) ==
  /\ At(a, "trackRow")
  /\ \/ Works /\ row' = [row EXCEPT ![me[a].rec] = "Recording"] /\ Goto(a, "trackStart")
     \/ Refused /\ Goto(a, "abort") /\ UNCHANGED row
  /\ UNCHANGED <<slots, locks, cap, wav, handed, nextRec, raced, late>>

MeetingStartTrack(a) ==
  LET r == me[a].rec
      started == Append(me[a].tracks, r) IN
  /\ At(a, "trackStart")
  /\ cap' = [cap EXCEPT ![r] = "live"]
  /\ IF Len(started) < Tracks
       THEN /\ me' = [me EXCEPT ![a].at = "trackRow", ![a].rec = r + 1, ![a].tracks = started]
            /\ UNCHANGED <<meeting, meetingPaused, locks>>
       ELSE meeting' = started /\ meetingPaused' = FALSE /\ Return(a)
  /\ UNCHANGED <<active, activePaused, handle, store, nextRec, faults, ghosts>>

\* Its row goes, then the tracks that did start are rolled back.
MeetingTrackFails(a) ==
  /\ At(a, "trackStart") /\ Refused
  /\ row' = [row EXCEPT ![me[a].rec] = "absent"]
  /\ Goto(a, "abort")
  /\ UNCHANGED <<slots, locks, cap, wav, handed, nextRec, raced, late>>

-----------------------------------------------------------------------------
(* stop_meeting()                                                          *)

\* Mutant: the tracks are looked at instead of taken.
PeekMeetingStopTake(a) ==
  /\ At(a, "meetStop") /\ meetingLock = None
  /\ IF meeting = <<>> THEN Return(a)
     ELSE /\ me' = [me EXCEPT ![a].at = "haltAll", ![a].tracks = meeting]
          /\ UNCHANGED locks
  /\ UNCHANGED <<slots, cap, store, nextRec, faults, ghosts>>

MeetingStopTake(a) ==
  /\ At(a, "meetStop") /\ meetingLock = None
  /\ IF meeting = <<>> THEN Return(a)
     ELSE /\ me' = [me EXCEPT ![a].at = "haltAll", ![a].tracks = meeting]
          /\ UNCHANGED locks
  /\ meeting' = <<>> /\ meetingPaused' = FALSE
  /\ UNCHANGED <<active, activePaused, handle, cap, store, nextRec, faults, ghosts>>

MeetingHaltAll(a) ==
  /\ At(a, "haltAll")
  /\ cap' = [r \in Recs |-> IF r \in Elems(me[a].tracks) /\ cap[r] = "live"
                              THEN "ending" ELSE cap[r]]
  /\ Goto(a, "align")
  /\ UNCHANGED <<slots, locks, store, nextRec, faults, ghosts>>

MeetingAlign(a) ==
  /\ At(a, "align")
  /\ \A r \in Elems(me[a].tracks) : cap[r] = "ended"
  /\ Goto(a, "trackWav")
  /\ UNCHANGED <<slots, locks, cap, store, nextRec, faults, ghosts>>

\* Each track by itself: the audio and the Queued row, then the inbox; an
\* error in either fails this track and the loop goes on.
MeetingWriteTrack(a) ==
  LET r == Head(me[a].tracks) IN
  /\ At(a, "trackWav")
  /\ \/ /\ Works /\ wav' = [wav EXCEPT ![r] = r]
        /\ UpdateStatus(r, "Queued") /\ Goto(a, "trackQueue")
     \/ /\ Fails(r) /\ wav' \in {wav, [wav EXCEPT ![r] = r]}
        /\ Goto(a, "trackFail") /\ UNCHANGED row
  /\ UNCHANGED <<slots, locks, cap, handed, nextRec, raced, late>>

MeetingEnqueueTrack(a) ==
  LET r == Head(me[a].tracks) IN
  /\ At(a, "trackQueue")
  /\ \/ Works /\ handed' = handed \cup {r} /\ NextTrack(a, "trackWav")
     \/ Fails(r) /\ Goto(a, "trackFail") /\ UNCHANGED <<handed, locks>>
  /\ UNCHANGED <<slots, cap, row, wav, nextRec, raced, late>>

\* Mutant: the track is dropped like one that never started.
DroppingMeetingFailTrack(a) ==
  /\ At(a, "trackFail")
  /\ LET r == Head(me[a].tracks) IN
     \/ Works /\ row' = [row EXCEPT ![r] = "absent"]
     \/ Fails(r) /\ UNCHANGED row
  /\ NextTrack(a, "trackWav")
  /\ UNCHANGED <<slots, cap, wav, handed, nextRec, raced, late>>

MeetingFailTrack(a) ==
  /\ At(a, "trackFail")
  /\ LET r == Head(me[a].tracks) IN
     \/ Works /\ UpdateStatus(r, "TranscribeFailed")
     \/ Fails(r) /\ UNCHANGED row
  /\ NextTrack(a, "trackWav")
  /\ UNCHANGED <<slots, cap, wav, handed, nextRec, raced, late>>

-----------------------------------------------------------------------------
\* Steps that wait for a mutex, once the request has been accepted.
Acquires(a) ==
  \/ StartReserve(a) \/ StartRefused(a) \/ StartClearSlot(a)
  \/ ToggleDecide(a) \/ MeetingCheckActive(a) \/ MeetingCheckMeeting(a)
  \/ MeetingLock(a) \/ MeetingStopTake(a)

Continues(a) ==
  \/ StartInsertRow(a) \/ StartOpenSource(a) \/ StartStoreHandle(a) \/ StartDropRow(a)
  \/ StopSend(a) \/ StopWriteWav(a) \/ StopMark(a) \/ StopFastLane(a)
  \/ StopMarkQueued(a) \/ StopEnqueue(a)
  \/ CancelSend(a) \/ CancelDeleteRow(a)
  \/ DropCapture(a) \/ DropRow(a) \/ AbortNothing(a) \/ FlipRow(a)
  \/ MeetingOpenSources(a) \/ MeetingInsertRow(a) \/ MeetingStartTrack(a)
  \/ MeetingTrackFails(a) \/ MeetingHaltAll(a) \/ MeetingAlign(a)
  \/ MeetingWriteTrack(a) \/ MeetingEnqueueTrack(a) \/ MeetingFailTrack(a)

Request(a) ==
  \/ StartCheckMeeting(a) \/ StopTake(a) \/ StopTakeHalf(a)
  \/ CancelTake(a) \/ CancelTakeMeeting(a)
  \/ PauseSingle(a) \/ ResumeSingle(a) \/ PauseMeeting(a) \/ ResumeMeeting(a)
  \/ MeetingStartCall(a) \/ MeetingStopCall(a) \/ ToggleCall(a)

WatcherWakes(r) ==
  StopTake(Watcher(r)) \/ StopTakeHalf(Watcher(r)) \/ WatcherFindsNothing(r)

Next ==
  \/ \E a \in Clients : Request(a)
  \/ \E a \in Actors : Acquires(a) \/ Continues(a)
  \/ \E r \in Recs : CaptureEnds(r) \/ WatcherWakes(r)

Spec == Init /\ [][Next]_vars

\* The runtime polls every ready task and a capture task sees its command;
\* tokio's Mutex is FIFO, so a waiter is not passed over for ever.
Fairness ==
  /\ \A a \in Actors : WF_vars(Continues(a)) /\ SF_vars(Acquires(a))
  /\ \A r \in Recs : /\ WF_vars(cap[r] = "ending" /\ CaptureEnds(r))
                     /\ SF_vars(WatcherWakes(r))

FairSpec == Spec /\ Fairness

-----------------------------------------------------------------------------
(* Correctness.                                                            *)

\* Where the only Recorder that can end capture r may be.
HeldBy(a, r) ==
  \/ me[a].take = r
  \/ At(a, "store") /\ me[a].rec = r
  \/ r \in Elems(me[a].tracks) /\ me[a].at \notin {"pausing", "resuming"}

Holders(r) ==
  {a \in Actors : HeldBy(a, r)}
    \cup (IF handle = r THEN {"handle"} ELSE {})
    \cup (IF r \in Elems(meeting) THEN {"meeting"} ELSE {})

(* A capture is driven from at most one place: however stops, cancels and  *)
(* watchers race, one of them takes it, so no recording is finalized twice *)
(* or finalized and cancelled (the takes of stop, cancel, stop_meeting).   *)
OneHolder == \A r \in Recs : Cardinality(Holders(r)) <= 1

(* A capture that runs can be ended by a request: its Recorder is in the   *)
(* slot beside its recording, in the meeting, or in the hands of a handler.*)
(* Otherwise it keeps the microphone open behind everybody's back.         *)
(* Provided no stop or cancel reached a start() in flight.                 *)
NoOrphanCapture ==
  ~raced => \A r \in Recs :
    cap[r] = "live" => Holders(r) # {} /\ (handle = r => active = r)

(* A row that says a capture is on, or that its audio is being handed over,*)
(* is backed by one: the recording is in a slot or in the hands of a       *)
(* handler, has been handed over, or some error was reported for it.  The  *)
(* proviso again, and no late write of a pause.                            *)
RowsAreBacked ==
  ~raced => \A r \in Recs \ (lost \cup late) :
    row[r] \in {"Recording", "Paused", "Transcribing", "Queued"} =>
      \/ r = active \/ r \in Elems(meeting) \/ r \in handed
      \/ \E a \in Actors : me[a].rec = r \/ r \in Elems(me[a].tracks)

(* What is handed to the pipeline has its audio on disk, and a row that no *)
(* rollback or cancel has deleted or will delete.  The proviso again.      *)
HandedOverWhole ==
  \A r \in handed :
    /\ wav[r] # None
    /\ ~raced => row[r] \in {"Transcribing", "Queued"} \/ r \in late \cup lost

(* While meetings are started and stopped by toggles alone, what a toggle  *)
(* decided on is still so when it acts: never two starts, never two stops  *)
(* (toggle_guard).                                                         *)
ToggleDecisionStands ==
  Ops \cap {"startMeeting", "stopMeeting", "cancel"} = {} =>
    \A a \in Clients :
      /\ At(a, "meetStop") => meeting # <<>>
      /\ me[a].at \in {"meetStart", "meetCheck", "meetOpen", "meetLock"} => meeting = <<>>

(* Once a track has been given up or handed over, nothing sets its row     *)
(* back, except the write of a pause that was overtaken by the stop.       *)
SettledRowsStay ==
  [][~raced => \A r \in Recs \ late' :
       row[r] \in {"Queued", "TranscribeFailed"} =>
         row'[r] \notin {"absent", "Recording", "Paused"}]_vars

\* Where a handler works on one recording, and where on none it has taken.
Minted == {"insert", "open", "store"}
Opening == {"trackRow", "trackStart"}
Flipping == {"pausing", "resuming"}
OnRec == Minted \cup Opening \cup
         {"clear", "unrow", "teardown", "join", "mark", "handoff", "enqueue",
          "cancel", "delete"}
OnOne == OnRec \ Opening

\* The recordings that the locals m of a handler make it work on: its single
\* one, its tracks, and those of its meeting that are still to be started.
Owns(m, r) ==
  \/ m.at \in OnOne /\ m.rec = r
  \/ m.at \notin Flipping /\ r \in Elems(m.tracks)
  \/ m.at \in Opening /\ m.rec <= r /\ r < m.rec + Tracks - Len(m.tracks)

\* Where it brings them up, and where it throws them away.
BringsUp == Minted \cup Opening
Discards == {"clear", "unrow", "cancel", "delete", "drop", "abort"}
Stage(place) ==
  IF place \in BringsUp THEN "starting"
  ELSE IF place \in Discards THEN "discarding" ELSE "finishing"

InStage(r, s) == \E a \in Actors : Owns(me[a], r) /\ Stage(me[a].at) = s

(* The stage of a recording, as the handlers, the slot, the meeting and the*)
(* stores have it; a recording that these do not account for is broken.    *)
StageOf(r) ==
  IF raced \/ r \in lost \cup late THEN "void"
  ELSE IF nextRec <= r THEN "unused"
  ELSE IF InStage(r, "starting") THEN "starting"
  ELSE IF InStage(r, "discarding") THEN "discarding"
  ELSE IF InStage(r, "finishing") THEN "finishing"
  ELSE IF r \in handed /\ wav[r] = r /\ row[r] \in {"Transcribing", "Queued"} THEN "handed"
  ELSE IF r \in Elems(meeting) \cup {active} /\ row[r] # "absent" THEN "capturing"
  ELSE IF r \notin Elems(meeting) \cup {active} /\ row[r] = "absent" THEN "gone"
  ELSE "broken"
Lives == [r \in Recs |-> StageOf(r)]

Life == INSTANCE RecordingLife WITH life <- Lives

(* Each recording is either finished and handed over or discarded, by one  *)
(* of all the stops, cancels, watchers, toggles and failing starts that may*)
(* reach it, and in the order that RecordingLife has.                      *)
FinishedOrDiscarded == Life!Spec

(* Every request returns, so the mutexes it keeps are released.            *)
RequestsReturn ==
  \A a \in Actors : me[a].at \notin {"idle", "armed"} ~> At(a, "idle")

(* What the module's comments promise, and concurrent requests break.      *)

(* "At most one capture": never a single recording beside a meeting.       *)
AtMostOneCapture == ~(active # None /\ meeting # <<>>)

(* stop(): a fresh recorder is never finalized to another recording's path.*)
RecorderGoesHome == \A r \in Recs : wav[r] \in {None, r}

(* start(): the watcher of a recording stops that recording or nothing.    *)
WatcherStopsItsOwn == \A r \in Recs : me[Watcher(r)].rec \in {None, r}

(* A row is Paused only while its capture is paused.                       *)
PausedMeansPaused ==
  \A r \in Recs : row[r] = "Paused" =>
    \/ r = active \/ r \in Elems(meeting)
    \/ \E a \in Actors : me[a].rec = r \/ r \in Elems(me[a].tracks)
=============================================================================
