---------------------------- MODULE OllamaPromise ----------------------------
(***************************************************************************)
(* What the launcher promises about the local Ollama, whoever calls it and *)
(* in whatever order: an Ollama found running stays the user's for good,   *)
(* and otherwise there is at most one process of our own at a time, which  *)
(* is started again only after it has ended.  OllamaLauncher implements it.*)
(***************************************************************************)
VARIABLES
    owner,      \* whose the Ollama is: "unknown", "theirs" or "ours"
    running     \* a process of ours runs

Init == owner = "unknown" /\ running = FALSE

Find == owner = "unknown" /\ owner' = "theirs" /\ UNCHANGED running

Launch ==
    /\ owner \in {"unknown", "ours"} /\ ~running
    /\ owner' = "ours" /\ running' = TRUE

End == running /\ running' = FALSE /\ UNCHANGED owner

Next == Find \/ Launch \/ End

Spec == Init /\ [][Next]_<<owner, running>>
==============================================================================
