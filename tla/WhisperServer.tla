--------------------------- MODULE WhisperServer ---------------------------
(***************************************************************************)
(* One bundled whisper-server, the supervisor that keeps it alive          *)
(* (whisper_supervisor.rs, supervise), and the tasks that transcribe with  *)
(* it: final transcriptions of the pipeline and of the dictation fast lane *)
(* (pipeline.rs, in_place.rs) and ticks of the streaming preview           *)
(* (recorder/preview.rs).  A final may carry a one-job model override: the *)
(* job writes it to a slot, the supervisor restarts the server on that     *)
(* model, and the job's guard clears the slot again.                       *)
(*                                                                         *)
(* The four roles (main, preview, second preview, dictation) run the same  *)
(* loop on a port, a slot and a generation of their own; this module is    *)
(* one of them.  A model is its path; Expand is what Config::expanded      *)
(* makes of a configured path.  The spawn generation is only ever compared *)
(* with a captured value, so it is kept as the set of jobs whose captured  *)
(* value is still the current one.  The length of the back-off (2 s        *)
(* doubling to 60 s) is time and is left out.                              *)
(***************************************************************************)
EXTENDS Sequences, FiniteSets, Naturals

CONSTANTS
    Finals,     \* tasks that make final transcriptions
    Previews,   \* tasks of the streaming preview
    Models,     \* model paths
    OnDisk,     \* the paths at which there is a file
    Expand,     \* [Models -> Models], `~` and %VAR% resolved
    None,       \* no model: no child, or an empty slot
    Settings,   \* the configurations the user switches between
    MaxJobs,    \* bound on the transcriptions started
    MaxEdits,   \* bound on configuration reloads
    MaxFaults   \* bound on child deaths, hangs, failed spawns and Fixes

ASSUME ConstantsAssumption ==
    /\ Finals \cap Previews = {}
    /\ None \notin Models
    /\ OnDisk \subseteq Models
    /\ Expand \in [Models -> Models]
    /\ Settings \subseteq [model : Models, mode : {"bundled", "external"}]
    /\ {MaxJobs, MaxEdits, MaxFaults} \subseteq Nat

Callers == Finals \cup Previews

VARIABLES
    config,     \* AppState.config, as far as this server goes
    closing,    \* the shutdown signal
    sup,        \* where the supervisor is in its loop
    raw,        \* the configuration this iteration loaded
    want,       \* model_to_run of this iteration
    heard,      \* a restart notification is stored in the armed future
    port,       \* the live port is published
    child,      \* model of the running server process, or None
    health,     \* "loading", "ready" or "hung", of that process
    override,   \* the one-job model override slot
    line,       \* whisper_sem: the holder, then the waiters in order
    stage,      \* where each caller is
    asked,      \* the model a caller's job must run on, or None
    bundled,    \* callers whose job saw a bundled mode
    current,    \* callers whose captured generation is the current one
    jobs, edits, faults,    \* the bounded counters
    clean,      \* observation: no respawn was in flight when the slot was set
    ready,      \* observation: callers whose readiness wait was satisfied
    owed        \* observation: a Fix the supervisor has not acted on

supVars  == <<sup, raw, want, heard>>
srvVars  == <<port, child, health>>
jobVars  == <<override, line, stage, asked, bundled, current>>
bounds   == <<jobs, edits, faults>>
seenVars == <<clean, ready, owed>>
vars == <<config, closing, supVars, srvVars, jobVars, bounds, seenVars>>

Init ==
    /\ config \in {c \in Settings : c.mode = "bundled"}
    /\ closing = FALSE
    /\ sup = "top" /\ raw = config /\ want = None /\ heard = FALSE
    /\ port = FALSE /\ child = None /\ health = "loading"
    /\ override = None
    /\ line = <<>>
    /\ stage = [c \in Callers |-> "idle"]
    /\ asked = [c \in Callers |-> None]
    /\ bundled = {} /\ current = {}
    /\ jobs = 0 /\ edits = 0 /\ faults = 0
    /\ clean = {} /\ ready = {} /\ owed = FALSE

-----------------------------------------------------------------------------
(* The supervisor.                                                         *)

EffectiveModel(configured) == IF override # None THEN override ELSE configured

\* What the 1 s poll and the override notification compare: the loaded
\* configuration's path, as it is written, with the path the child was given.
SpecChanged ==
    \/ EffectiveModel(config.model) # want
    \/ config.mode # raw.mode

\* The top of the loop: leave on shutdown; otherwise arm the restart edge and
\* load the configuration.
Return ==
    /\ sup = "top" /\ closing
    /\ sup' = "over"
    /\ UNCHANGED <<config, closing, raw, want, heard, srvVars, jobVars, bounds, seenVars>>

Arm ==
    /\ sup = "top" /\ ~closing
    /\ sup' = "prepare" /\ raw' = config /\ want' = None /\ heard' = FALSE
    /\ UNCHANGED <<config, closing, srvVars, jobVars, bounds, seenVars>>

\* Mutant: the idle gate leaves the last port published.
GoIdleQuietly ==
    /\ sup' = "idle" /\ owed' = FALSE
    /\ UNCHANGED <<config, closing, raw, want, heard, srvVars, jobVars, bounds, clean, ready>>

\* Idle for five seconds with the port cleared: external mode, or no server
\* binary, or no model file.  A restart request is not listened to meanwhile.
GoIdle ==
    /\ sup' = "idle" /\ port' = FALSE /\ owed' = FALSE
    /\ UNCHANGED <<config, closing, raw, want, heard, child, health, jobVars, bounds,
                   clean, ready>>

Prepare ==
    LET model == EffectiveModel(Expand[raw.model]) IN
    /\ sup = "prepare"
    /\ \/ (raw.mode = "external" \/ model \notin OnDisk) /\ GoIdle
       \/ /\ raw.mode = "bundled" /\ model \in OnDisk
          /\ sup' = "publish" /\ want' = model
          /\ UNCHANGED <<config, closing, raw, heard, srvVars, jobVars, bounds, seenVars>>

\* The chosen port is published before the spawn, which also moves the
\* generation on.
Publish ==
    /\ sup = "publish"
    /\ sup' = "spawn" /\ port' = TRUE /\ current' = {}
    /\ UNCHANGED <<config, closing, raw, want, heard, child, health, override, line,
                   stage, asked, bundled, bounds, seenVars>>

Spawn ==
    /\ sup = "spawn"
    /\ sup' = "watch" /\ child' = want /\ health' = "loading"
    /\ UNCHANGED <<config, closing, raw, want, heard, port, jobVars, bounds, seenVars>>

ClearAndBackOff ==
    /\ port' = FALSE /\ sup' = "backoff" /\ heard' = FALSE /\ owed' = FALSE
    /\ UNCHANGED <<config, closing, raw, want, child, health, jobVars, clean, ready>>

SpawnFails ==
    /\ sup = "spawn" /\ faults < MaxFaults
    /\ ClearAndBackOff
    /\ faults' = faults + 1 /\ UNCHANGED <<jobs, edits>>

\* The child's exit is noticed.  The armed future goes with the iteration,
\* a restart request it had stored included.
SeeExit ==
    /\ sup = "watch" /\ child = None
    /\ ClearAndBackOff
    /\ UNCHANGED bounds

Kill == child' = None /\ health' = "loading" /\ owed' = FALSE

\* Mutant: the poll compares the configurations and forgets the slot.
BounceOnReload ==
    /\ sup = "watch" /\ (heard \/ config # raw)
    /\ Kill
    /\ sup' = "top"
    /\ UNCHANGED <<config, closing, raw, want, heard, port, jobVars, bounds, clean, ready>>

Bounce ==
    /\ sup = "watch" /\ (heard \/ SpecChanged)
    /\ Kill
    /\ sup' = "top"
    /\ UNCHANGED <<config, closing, raw, want, heard, port, jobVars, bounds, clean, ready>>

StopServer ==
    /\ sup = "watch" /\ closing
    /\ Kill
    /\ port' = FALSE /\ sup' = "over"
    /\ UNCHANGED <<config, closing, raw, want, heard, jobVars, bounds, clean, ready>>

\* The pause between two attempts is over: it elapsed, or a restart request or
\* the shutdown ended it early.  The idle wait hears only the shutdown.
PauseEnds ==
    /\ \/ sup = "backoff" /\ \/ sup' = "top"
                             \/ closing /\ sup' = "over"
       \/ sup = "idle" /\ \/ sup' = "top"
                          \/ closing /\ sup' = "over"
    /\ heard' = FALSE /\ want' = None
    /\ UNCHANGED <<config, closing, raw, srvVars, jobVars, bounds, seenVars>>

SupervisorStep ==
    \/ Return \/ Arm \/ Prepare \/ Publish \/ Spawn \/ SpawnFails
    \/ SeeExit \/ Bounce \/ StopServer \/ PauseEnds

-----------------------------------------------------------------------------
(* The transcriptions.                                                     *)

Holds(c) == line # <<>> /\ Head(line) = c
InFlight(c) == sup = "publish" /\ want # asked[c]

Goto(c, there) == stage' = [stage EXCEPT ![c] = there]

\* A final queues for the permit, which is handed out in order of arrival.
Begin(c, model) ==
    /\ stage[c] = "idle" /\ jobs < MaxJobs
    /\ jobs' = jobs + 1
    /\ asked' = [asked EXCEPT ![c] = model]
    /\ bundled' = IF config.mode = "bundled" THEN bundled \cup {c} ELSE bundled
    /\ line' = Append(line, c)
    /\ Goto(c, "queued")
    /\ UNCHANGED <<config, closing, supVars, srvVars, override, current, edits, faults,
                   seenVars>>

\* Mutant: the preview does not ask for the permit.
GreedyTick(c) ==
    /\ stage[c] = "idle" /\ jobs < MaxJobs
    /\ jobs' = jobs + 1
    /\ Goto(c, "sending")
    /\ UNCHANGED <<config, closing, supVars, srvVars, override, line, asked, bundled,
                   current, edits, faults, seenVars>>

\* A preview tick runs only when the permit is free at that instant.
Tick(c) ==
    /\ stage[c] = "idle" /\ jobs < MaxJobs
    /\ line = <<>>
    /\ jobs' = jobs + 1
    /\ line' = <<c>>
    /\ Goto(c, "sending")
    /\ UNCHANGED <<config, closing, supVars, srvVars, override, asked, bundled, current,
                   edits, faults, seenVars>>

\* With the permit, a job without an override transcribes; one with an override
\* captures the spawn generation first.
TakePermit(c) ==
    /\ stage[c] = "queued" /\ Holds(c)
    /\ \/ asked[c] = None /\ Goto(c, "sending") /\ UNCHANGED current
       \/ asked[c] # None /\ Goto(c, "captured") /\ current' = current \cup {c}
    /\ UNCHANGED <<config, closing, supVars, srvVars, override, line, asked, bundled,
                   bounds, seenVars>>

\* The slot is set.  Only the bundled server is waited for.
SetSlot(c) ==
    /\ stage[c] = "captured"
    /\ override' = asked[c]
    /\ Goto(c, IF c \in bundled THEN "waiting" ELSE "sending")
    /\ clean' = IF c \in current /\ ~InFlight(c) THEN clean \cup {c} ELSE clean \ {c}
    /\ UNCHANGED <<config, closing, supVars, srvVars, line, asked, bundled, current,
                   bounds, ready, owed>>

\* Mutant: the wait asks /health alone.
AnyServerReady(c) ==
    /\ stage[c] = "waiting"
    /\ child # None /\ health = "ready"
    /\ ready' = ready \cup {c}
    /\ Goto(c, "sending")
    /\ UNCHANGED <<config, closing, supVars, srvVars, override, line, asked, bundled,
                   current, bounds, clean, owed>>

\* The wait is over: the generation has moved and the server answers /health.
ServerReady(c) ==
    /\ stage[c] = "waiting" /\ c \notin current
    /\ child # None /\ health = "ready"
    /\ ready' = ready \cup {c}
    /\ Goto(c, "sending")
    /\ UNCHANGED <<config, closing, supVars, srvVars, override, line, asked, bundled,
                   current, bounds, clean, owed>>

\* Mutant: the wait has no deadline.
NeverGiveUp(c) == FALSE

\* Thirty seconds have gone by: the job transcribes anyway.
GiveUpWaiting(c) ==
    /\ stage[c] = "waiting"
    /\ Goto(c, "sending")
    /\ UNCHANGED <<config, closing, supVars, srvVars, override, line, asked, bundled,
                   current, bounds, seenVars>>

\* The transcription is answered, fails or is cancelled: each way out drops
\* the guard.
Finish(c) ==
    /\ stage[c] = "sending"
    /\ Goto(c, "restore")
    /\ UNCHANGED <<config, closing, supVars, srvVars, override, line, asked, bundled,
                   current, bounds, seenVars>>

\* The language the server reported routes the recording to another model: it
\* is transcribed again, under the permit still held.
Route(c, model) ==
    /\ stage[c] = "sending" /\ asked[c] = None
    /\ child # None /\ health = "ready"
    /\ asked' = [asked EXCEPT ![c] = model]
    /\ current' = current \cup {c}
    /\ Goto(c, "captured")
    /\ UNCHANGED <<config, closing, supVars, srvVars, override, line, bundled, bounds,
                   seenVars>>

\* The guard is dropped, then the permit.
DropGuard(c) ==
    /\ stage[c] = "restore"
    /\ override' = IF asked[c] # None THEN None ELSE override
    /\ Goto(c, "release")
    /\ UNCHANGED <<config, closing, supVars, srvVars, line, asked, bundled, current,
                   bounds, seenVars>>

DropPermit(c) ==
    /\ stage[c] = "release"
    /\ line' = Tail(line)
    /\ asked' = [asked EXCEPT ![c] = None]
    /\ bundled' = bundled \ {c} /\ current' = current \ {c}
    /\ clean' = clean \ {c} /\ ready' = ready \ {c}
    /\ Goto(c, "idle")
    /\ UNCHANGED <<config, closing, supVars, srvVars, override, bounds, owed>>

CallerStep(c) ==
    \/ TakePermit(c) \/ SetSlot(c) \/ ServerReady(c) \/ GiveUpWaiting(c)
    \/ Finish(c) \/ DropGuard(c) \/ DropPermit(c)

-----------------------------------------------------------------------------
(* The server process, the settings, the Doctor and the shutdown.          *)

ModelLoaded ==
    /\ child # None /\ health = "loading"
    /\ health' = "ready"
    /\ UNCHANGED <<config, closing, supVars, port, child, jobVars, bounds, seenVars>>

Fault == faults < MaxFaults /\ faults' = faults + 1 /\ UNCHANGED <<jobs, edits>>

ServerDies ==
    /\ child # None /\ Fault
    /\ child' = None /\ health' = "loading"
    /\ UNCHANGED <<config, closing, supVars, port, jobVars, seenVars>>

ServerHangs ==
    /\ child # None /\ health # "hung" /\ Fault
    /\ health' = "hung"
    /\ UNCHANGED <<config, closing, supVars, port, child, jobVars, seenVars>>

\* Mutant: the notification is listened to only while the child is watched.
DeafFix(swept) ==
    /\ Fault
    /\ child' = IF swept THEN None ELSE child
    /\ health' = IF swept THEN "loading" ELSE health
    /\ heard' = (sup = "watch")
    /\ owed' = (sup \in {"prepare", "publish", "spawn", "watch"})
    /\ UNCHANGED <<config, closing, sup, raw, want, port, jobVars, clean, ready>>

\* RestartWhisper: the sweep kills our servers, when its query runs at all, and
\* the supervisors are notified.  The armed future stores the notification from
\* the top of the loop on; a supervisor that is not waiting does not get it.
Fix(swept) ==
    /\ Fault
    /\ child' = IF swept THEN None ELSE child
    /\ health' = IF swept THEN "loading" ELSE health
    /\ heard' = (sup \in {"prepare", "publish", "spawn", "watch"})
    /\ owed' = heard'
    /\ UNCHANGED <<config, closing, sup, raw, want, port, jobVars, clean, ready>>

Reload(c) ==
    /\ c # config /\ edits < MaxEdits
    /\ config' = c /\ edits' = edits + 1
    /\ UNCHANGED <<closing, supVars, srvVars, jobVars, jobs, faults, seenVars>>

BeginShutdown ==
    /\ ~closing /\ closing' = TRUE
    /\ UNCHANGED <<config, supVars, srvVars, jobVars, bounds, seenVars>>

Next ==
    \/ SupervisorStep
    \/ \E c \in Finals, m \in Models \cup {None} : Begin(c, m)
    \/ \E c \in Finals, m \in Models : Route(c, m)
    \/ \E c \in Previews : Tick(c)
    \/ \E c \in Callers : CallerStep(c)
    \/ ModelLoaded \/ ServerDies \/ ServerHangs
    \/ \E swept \in BOOLEAN : Fix(swept)
    \/ \E c \in Settings : Reload(c)
    \/ BeginShutdown

Spec == Init /\ [][Next]_vars

\* The runtime schedules the supervisor and every task that can go on; waits
\* and requests have deadlines; a healthy process loads its model.  Nothing is
\* assumed of faults, reloads, new jobs or the shutdown.
Fairness ==
    /\ WF_vars(SupervisorStep)
    /\ WF_vars(ModelLoaded)
    /\ \A c \in Callers : WF_vars(CallerStep(c))

FairSpec == Spec /\ Fairness

-----------------------------------------------------------------------------
(* Properties.                                                             *)

\* Every variable keeps its type; a job's override and what it observed of the
\* server end with the job (pending_overrides, claimed once).
TypeOK ==
    /\ config \in Settings /\ raw \in Settings
    /\ {closing, heard, port, owed} \subseteq BOOLEAN
    /\ sup \in {"top", "prepare", "publish", "spawn", "watch", "backoff", "idle", "over"}
    /\ {want, child, override} \subseteq Models \cup {None}
    /\ health \in {"loading", "ready", "hung"}
    /\ line \in Seq(Callers)
    /\ stage \in [Callers -> {"idle", "queued", "captured", "waiting", "sending",
                              "restore", "release"}]
    /\ asked \in [Callers -> Models \cup {None}]
    /\ \A c \in Callers : stage[c] = "idle" =>
         asked[c] = None /\ c \notin bundled \cup current \cup clean \cup ready
    /\ bundled \cup current \cup clean \cup ready \subseteq Callers
    /\ jobs \in 0..MaxJobs /\ edits \in 0..MaxEdits /\ faults \in 0..MaxFaults

\* Only the holder of the permit uses the server, and the slot holds the
\* override of that holder or nothing: no override outlives its job, reaches
\* another job or overwrites another one's (whisper_sem, WhisperOverrideGuard).
SlotIsTheHolders ==
    /\ \A c \in Callers : stage[c] \notin {"idle", "queued"} => Holds(c)
    /\ override # None =>
         /\ line # <<>> /\ asked[Head(line)] = override
         /\ stage[Head(line)] \in {"waiting", "sending", "restore"}

\* A job whose readiness wait was satisfied, and for which no respawn was
\* already under way when it set the slot, is served by the model it asked for
\* or by nothing, and only a change of mode takes the server from under it: the
\* generation keeps the old server's answer from ending the wait
\* (wait_for_whisper_ready), and every respawn under the slot uses it.
ReadyMeansAskedFor ==
    \A c \in clean \cap ready : stage[c] = "sending" =>
        /\ child \in {asked[c], None}
        /\ sup = "watch" /\ SpecChanged => config.mode # raw.mode

\* Consumers and siblings see the truth about the port: it is published as long
\* as a process runs, so a sibling's probe excludes it, and it is cleared, with
\* no process behind it, in every pause between two attempts and after the end.
PortTellsTheTruth ==
    /\ child # None => port
    /\ sup \in {"idle", "backoff"} => ~port /\ child = None
    /\ sup = "over" => child = None

\* A restart request made from the moment the loop is armed is acted on: the
\* child it was meant for goes away (restart_fut armed before the spawn window).
FixIsHeard == owed ~> ~owed

\* Every transcription ends and gives the permit back, whatever the server does
\* (WHISPER_READY_TIMEOUT, the guard dropped on every way out).
TranscriptionsEnd == \A c \in Callers : stage[c] # "idle" ~> stage[c] = "idle"

\* What the server should be doing once nothing changes any more: stopped after
\* a shutdown, idle in external mode or without a model file, else up, on the
\* configured model.
Serving(model) ==
    IF closing THEN sup = "over" /\ child = None
    ELSE IF config.mode = "external" \/ model \notin OnDisk THEN child = None /\ ~port
    ELSE child = model /\ port

\* However the overrides, crashes, reloads and Fixes went, the server settles on
\* what the configuration says, if its path needs no expansion.
SettlesOnConfigured ==
    <>[](Expand[config.model] = config.model => Serving(config.model))

\* The same for any configured path (whisper_supervisor.rs:652, config.rs:4183:
\* `~` in a model path is to work).
TildeSettlesToo == <>[]Serving(Expand[config.model])

\* The pause after a crash is not slept through with a restart requested
\* (whisper_supervisor.rs:24: "a Doctor fix is never lost to a sleeping
\* supervisor").
FixCutsThePause == [][sup = "watch" /\ sup' = "backoff" => ~heard]_vars

\* A job without an override runs on the configured model
\* (pipeline.rs:2728: "the resumed preview then runs the configured model").
PlainJobsRunConfigured ==
    \A c \in Callers :
        stage[c] = "sending" /\ asked[c] = None /\ child # None /\ health = "ready"
            /\ config = raw
        => child = Expand[config.model]
=============================================================================
