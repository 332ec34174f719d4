-------------------------- MODULE MCMeetingDigest --------------------------
(* A meeting of two tracks, whose constants the cfg files give. *)
EXTENDS MeetingDigest
=============================================================================
