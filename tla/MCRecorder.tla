----------------------------- MODULE MCRecorder -----------------------------
(* Small instances of Recorder for TLC. *)
EXTENDS Recorder, TLC

\* Singles are stopped by their watchers here, by the same code as by a request.
MixedOps == {"start", "cancel", "startMeeting", "stopMeeting"}
ToggleOps == {"start", "stop", "toggleMeeting", "pause", "resume"}
SingleOps == {"start", "stop", "cancel", "pause", "resume"}
MeetingOps == {"startMeeting", "stopMeeting", "toggleMeeting", "cancel", "pause", "resume"}
ClientSymmetry == Permutations(Clients)
=============================================================================
