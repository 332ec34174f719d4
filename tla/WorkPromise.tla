----------------------------- MODULE WorkPromise -----------------------------
(***************************************************************************)
(* What the inbox promises about each recording whose work it accepts,     *)
(* with no files, markers or crashes in sight: the work waits until the    *)
(* worker takes it, one item at a time; only the worker's hand ends it,    *)
(* only what waits can be withdrawn, and what the worker had to leave      *)
(* comes back to wait, unasked, never to be lost.  InboxQueue implements   *)
(* it.                                                                     *)
(*                                                                         *)
(* A recording that is submitted again while it is being worked on is      *)
(* "muddled": from then on nothing is promised about it.                   *)
(***************************************************************************)
CONSTANT Ids

VARIABLES
  owed,    \* recordings with work that was accepted and is not over
  place    \* where the work is

States == {"nowhere", "waiting", "taken", "left", "muddled"}
Init == owed = {} /\ place = [id \in Ids |-> "nowhere"]

(* The work of a recording goes from a place in From to the place to.       *)
Moves(id, From, to) == place[id] \in From /\ place' = [place EXCEPT ![id] = to]

Accept(id) == Moves(id, {"nowhere", "waiting"}, "waiting") /\ owed' = owed \cup {id}
Withdraw(id) == Moves(id, {"waiting"}, "nowhere") /\ owed' = owed \ {id}
Take(id) ==
  /\ \A other \in Ids : place[other] # "taken"
  /\ Moves(id, {"waiting"}, "taken") /\ UNCHANGED owed
Settle(id) == Moves(id, {"taken"}, "nowhere") /\ owed' = owed \ {id}
Leave(id) == Moves(id, {"taken"}, "left") /\ UNCHANGED owed
Return(id) == Moves(id, {"taken", "left"}, "waiting") /\ UNCHANGED owed
Muddle(id) == Moves(id, States, "muddled") /\ owed' = owed \ {id}

Next ==
  \E id \in Ids :
    \/ Accept(id) \/ Withdraw(id) \/ Take(id) \/ Settle(id)
    \/ Leave(id) \/ Return(id) \/ Muddle(id)

Spec == Init /\ [][Next]_<<owed, place>>
==============================================================================
