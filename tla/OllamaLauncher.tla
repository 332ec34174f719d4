--------------------------- MODULE OllamaLauncher ---------------------------
(***************************************************************************)
(* The on-demand launch of a local Ollama (ollama_launcher.rs).  Every LLM *)
(* step calls ensure_ready: it probes the endpoint, then takes the ledger's*)
(* mutex, decides with the answer of that probe (which may be old by then),*)
(* spawns `ollama serve` if that is the decision, gives the mutex back and *)
(* waits for the endpoint.  shutdown stops what was spawned.               *)
(*                                                                         *)
(* Nothing is awaited under the mutex, so a decision with its spawn is one *)
(* step.  The processes are numbered in the order of their spawn.  The     *)
(* user starts and stops an Ollama of their own at any time; whoever binds *)
(* the port first has it, and a second `ollama serve` exits.               *)
(***************************************************************************)
EXTENDS Naturals

CONSTANTS
    Callers,    \* LLM steps, questions and digests that call ensure_ready
    Nobody,     \* nobody answers at the endpoint
    User,       \* the user's own Ollama answers
    MaxSpawns,  \* bound on the processes spawned
    MaxUser     \* bound on the starts of the user's own Ollama

ASSUME ConstantsAssumption ==
    /\ MaxSpawns \in Nat /\ MaxUser \in Nat
    /\ Nobody \notin Nat /\ User \notin Nat /\ Nobody # User

VARIABLES
    ledger,     \* Unprobed, NotOurs or Owned
    handle,     \* the process of the Owned entry; 0 before the first spawn
    spawned,    \* processes spawned so far
    live,       \* the processes of ours that have not exited
    listener,   \* who answers at the endpoint: Nobody, User or a process of ours
    stage,      \* where each caller is in ensure_ready
    reachable,  \* callers whose probe was answered
    daemon,     \* "up", "stopping" after launcher.shutdown, "exited", "killed"
    starts,     \* times the user started an Ollama
    late,       \* observation: processes spawned after launcher.shutdown
    first       \* observation: what the first probe of this daemon saw

vars == <<ledger, handle, spawned, live, listener, stage, reachable, daemon, starts,
          late, first>>

Procs == 1..MaxSpawns

Init ==
    /\ ledger = "Unprobed" /\ handle = 0 /\ spawned = 0 /\ live = {}
    /\ listener \in {Nobody, User}
    /\ stage = [c \in Callers |-> "idle"] /\ reachable = {}
    /\ daemon = "up" /\ starts = 0
    /\ late = {} /\ first = "none"

Runs == daemon \in {"up", "stopping"}
OwnedDead == ledger = "Owned" /\ handle \notin live

Goto(c, there) == stage' = [stage EXCEPT ![c] = there]

-----------------------------------------------------------------------------
(* ensure_ready.                                                           *)

\* The probe before the lock.  A server too busy to answer within two seconds
\* counts as unreachable.
Probe(c, answered) ==
    /\ Runs /\ stage[c] = "idle"
    /\ answered => listener # Nobody
    /\ reachable' = IF answered THEN reachable \cup {c} ELSE reachable \ {c}
    /\ Goto(c, "probed")
    /\ first' = IF first # "none" THEN first ELSE IF answered THEN "found" ELSE "absent"
    /\ UNCHANGED <<ledger, handle, spawned, live, listener, daemon, starts, late>>

\* The first probe that gets to decide found an Ollama: it is the user's.
MarkNotOurs(c) ==
    /\ Runs /\ stage[c] = "probed" /\ c \in reachable
    /\ ledger = "Unprobed"
    /\ ledger' = "NotOurs"
    /\ Goto(c, "idle")
    /\ UNCHANGED <<handle, spawned, live, listener, reachable, daemon, starts, late, first>>

\* The endpoint answers, or it is down and not ours to start.
UseOrLeave(c) ==
    /\ Runs /\ stage[c] = "probed"
    /\ \/ c \in reachable /\ ledger # "Unprobed"
       \/ c \notin reachable /\ ledger = "NotOurs"
    /\ Goto(c, "idle")
    /\ UNCHANGED <<ledger, handle, spawned, live, listener, reachable, daemon, starts,
                   late, first>>

\* Our process runs and does not answer yet.
AwaitOwned(c) ==
    /\ Runs /\ stage[c] = "probed" /\ c \notin reachable
    /\ ledger = "Owned" /\ handle \in live
    /\ Goto(c, "waiting")
    /\ UNCHANGED <<ledger, handle, spawned, live, listener, reachable, daemon, starts,
                   late, first>>

\* Mutant: the decision trusts the probe and does not look at the ledger.
SpawnUnseen(c) ==
    /\ Runs /\ stage[c] = "probed" /\ c \notin reachable
    /\ ledger # "NotOurs"
    /\ spawned < MaxSpawns
    /\ spawned' = spawned + 1
    /\ ledger' = "Owned" /\ handle' = spawned + 1
    /\ live' = live \cup {spawned + 1}
    /\ late' = IF daemon = "stopping" THEN late \cup {spawned + 1} ELSE late
    /\ Goto(c, "waiting")
    /\ UNCHANGED <<listener, reachable, daemon, starts, first>>

\* Mutant: an Ollama that was found and went away is replaced.
SpawnOver(c) ==
    /\ Runs /\ stage[c] = "probed" /\ c \notin reachable
    /\ ledger \in {"Unprobed", "NotOurs"} \/ OwnedDead
    /\ spawned < MaxSpawns
    /\ spawned' = spawned + 1
    /\ ledger' = "Owned" /\ handle' = spawned + 1
    /\ live' = live \cup {spawned + 1}
    /\ late' = IF daemon = "stopping" THEN late \cup {spawned + 1} ELSE late
    /\ Goto(c, "waiting")
    /\ UNCHANGED <<listener, reachable, daemon, starts, first>>

\* Down, and never probed or dead: spawn, and own the child.
Spawn(c) ==
    /\ Runs /\ stage[c] = "probed" /\ c \notin reachable
    /\ ledger = "Unprobed" \/ OwnedDead
    /\ spawned < MaxSpawns
    /\ spawned' = spawned + 1
    /\ ledger' = "Owned" /\ handle' = spawned + 1
    /\ live' = live \cup {spawned + 1}
    /\ late' = IF daemon = "stopping" THEN late \cup {spawned + 1} ELSE late
    /\ Goto(c, "waiting")
    /\ UNCHANGED <<listener, reachable, daemon, starts, first>>

\* No `ollama` on the PATH, or it cannot be started: the ledger is unchanged
\* and a later call tries again.
SpawnFails(c) ==
    /\ Runs /\ stage[c] = "probed" /\ c \notin reachable
    /\ ledger = "Unprobed" \/ OwnedDead
    /\ Goto(c, "idle")
    /\ UNCHANGED <<ledger, handle, spawned, live, listener, reachable, daemon, starts,
                   late, first>>

\* wait_ready: something answers, or fifteen seconds are over.
Return(c) ==
    /\ Runs /\ stage[c] = "waiting"
    /\ Goto(c, "idle")
    /\ UNCHANGED <<ledger, handle, spawned, live, listener, reachable, daemon, starts,
                   late, first>>

-----------------------------------------------------------------------------
(* The processes and the user.                                             *)

Bind(p) ==
    /\ p \in live /\ listener = Nobody
    /\ listener' = p
    /\ UNCHANGED <<ledger, handle, spawned, live, stage, reachable, daemon, starts, late,
                   first>>

\* A process of ours ends: the port was taken, it crashed or was killed.
Ended(p) ==
    /\ live' = live \ {p}
    /\ listener' = IF listener = p THEN Nobody ELSE listener

ProcessExits(p) ==
    /\ p \in live
    /\ Ended(p)
    /\ UNCHANGED <<ledger, handle, spawned, stage, reachable, daemon, starts, late, first>>

UserStarts ==
    /\ listener = Nobody /\ starts < MaxUser
    /\ listener' = User /\ starts' = starts + 1
    /\ UNCHANGED <<ledger, handle, spawned, live, stage, reachable, daemon, late, first>>

UserStops ==
    /\ listener = User /\ listener' = Nobody
    /\ UNCHANGED <<ledger, handle, spawned, live, stage, reachable, daemon, starts, late,
                   first>>

-----------------------------------------------------------------------------
(* The end of the daemon.                                                  *)

\* Mutant: shutdown stops only an Ollama that answers.
StopAnswering ==
    /\ daemon = "up" /\ daemon' = "stopping"
    /\ \/ ledger = "Owned" /\ handle \in live /\ listener = handle /\ Ended(handle)
       \/ /\ ~(ledger = "Owned" /\ handle \in live /\ listener = handle)
          /\ UNCHANGED <<live, listener>>
    /\ UNCHANGED <<ledger, handle, spawned, stage, reachable, starts, late, first>>

\* launcher.shutdown, the last thing main does.
Stop ==
    /\ daemon = "up" /\ daemon' = "stopping"
    /\ \/ ledger = "Owned" /\ handle \in live /\ Ended(handle)
       \/ ~(ledger = "Owned" /\ handle \in live) /\ UNCHANGED <<live, listener>>
    /\ UNCHANGED <<ledger, handle, spawned, stage, reachable, starts, late, first>>

\* main returns and the runtime drops the tasks that were not awaited.
Exit ==
    /\ daemon = "stopping" /\ daemon' = "exited"
    /\ UNCHANGED <<ledger, handle, spawned, live, listener, stage, reachable, starts, late,
                   first>>

\* The daemon is killed.  Only on Windows does the job end its children.
Killed ==
    /\ Runs /\ daemon' = "killed"
    /\ UNCHANGED <<ledger, handle, spawned, live, listener, stage, reachable, starts, late,
                   first>>

CallerStep(c) ==
    \/ \E answered \in BOOLEAN : Probe(c, answered)
    \/ MarkNotOurs(c) \/ UseOrLeave(c) \/ AwaitOwned(c)
    \/ Spawn(c) \/ SpawnFails(c) \/ Return(c)

Next ==
    \/ \E c \in Callers : CallerStep(c)
    \/ \E p \in Procs : Bind(p) \/ ProcessExits(p)
    \/ UserStarts \/ UserStops
    \/ Stop \/ Exit \/ Killed

Spec == Init /\ [][Next]_vars

-----------------------------------------------------------------------------
(* Properties.                                                             *)

\* Every variable keeps its type; the handle is the last process spawned.
TypeOK ==
    /\ ledger \in {"Unprobed", "NotOurs", "Owned"}
    /\ spawned \in 0..MaxSpawns /\ handle = spawned
    /\ live \subseteq Procs /\ late \subseteq Procs
    /\ listener \in {Nobody, User} \cup Procs
    /\ stage \in [Callers -> {"idle", "probed", "waiting"}]
    /\ reachable \subseteq Callers
    /\ daemon \in {"up", "stopping", "exited", "killed"}
    /\ starts \in 0..MaxUser
    /\ first \in {"none", "found", "absent"}

\* However many steps call at once and however old their probes are, at most
\* one process of ours runs, and it is the one the ledger owns and shutdown
\* will stop (the mutex from the decision to the stored child).
SingleChild == live \subseteq {handle} /\ (live # {} => ledger = "Owned")

\* A daemon that ends in order leaves nothing of its own running, except what a
\* call that was still under way spawned after the stop (main.rs: the detached
\* IPC tasks are not awaited).
LeavesNothingBehind == daemon = "exited" => live \subseteq late

\* Seen from outside, the launcher does what OllamaPromise says.
Owner == IF ledger = "Unprobed" THEN "unknown"
         ELSE IF ledger = "NotOurs" THEN "theirs" ELSE "ours"
Running == live # {}

Promise == INSTANCE OllamaPromise WITH owner <- Owner, running <- Running

KeepsPromise == Promise!Spec

\* An Ollama that was running when the daemon first probed it is never ours
\* (ollama_launcher.rs:6).
FoundIsNeverOurs == first = "found" => ledger # "Owned"

\* Whatever this daemon launched is stopped again at shutdown
\* (ollama_launcher.rs:10).
StoppedAtShutdown == daemon = "exited" => live = {}
==============================================================================
