---------------------------- MODULE RecordingLife ----------------------------
(***************************************************************************)
(* The life of a recording until the pipeline has it, without handlers,    *)
(* mutexes, slots or capture tasks: it is started, captures, and comes to  *)
(* one end.  Either it is finished and handed over, once, or it is         *)
(* discarded and leaves nothing behind; whoever began with one of the two, *)
(* nobody begins with the other.  Recorder implements it.                  *)
(*                                                                         *)
(* A recording is "void" once an error was reported for it, a pause wrote  *)
(* its row too late, or a stop or cancel hit a start in flight: from then  *)
(* on nothing is promised about it.                                        *)
(***************************************************************************)
CONSTANT Recs

VARIABLE life    \* the stage each recording is in

Stages == {"unused", "starting", "capturing", "finishing", "handed",
           "discarding", "gone", "void"}

Init == life = [r \in Recs |-> "unused"]

\* A track of a meeting that could not start is gone at once.
Paths ==
  {<<"unused", "starting">>, <<"starting", "capturing">>,
   <<"capturing", "finishing">>, <<"finishing", "handed">>,
   <<"starting", "discarding">>, <<"capturing", "discarding">>,
   <<"starting", "gone">>, <<"discarding", "gone">>}

\* The tracks of a meeting go together.
Next ==
  /\ life' \in [Recs -> Stages]
  /\ \A r \in Recs :
       \/ life'[r] = life[r] \/ life'[r] = "void"
       \/ <<life[r], life'[r]>> \in Paths

Spec == Init /\ [][Next]_life
==============================================================================
