------------------------- MODULE WhisperServerProofs -------------------------
(***************************************************************************)
(* The safety of the model swap for every set of callers, every set of     *)
(* models and every bound.  The inductive invariant adds to what is to be  *)
(* shown where the process and its port can be in the supervisor's loop    *)
(* (ServerInv) and, job by job, what the slot, the captured generation and *)
(* the model of the next process have to do with each other (SwapInv).     *)
(***************************************************************************)
EXTENDS WhisperServer, TLAPS

\* A process exists only while it is watched, and it runs the wanted model.
ServerInv ==
    /\ child # None => sup = "watch" /\ child = want
    /\ sup \in {"spawn", "watch"} => port
    /\ sup \in {"idle", "backoff"} => ~port

\* The slot follows the holder's job; and once the slot was set with no respawn
\* in flight, whatever is spawned after the captured generation has moved is
\* spawned on the job's model.
JobSwap(c) ==
    /\ stage[c] \in {"captured", "waiting"} => asked[c] # None
    /\ stage[c] \in {"waiting", "sending"} => override = asked[c]
    /\ c \in clean =>
         asked[c] # None /\ stage[c] \in {"waiting", "sending", "restore", "release"}
    /\ c \in ready =>
         /\ asked[c] # None /\ c \notin current
         /\ stage[c] \in {"sending", "restore", "release"}
    /\ c \in clean /\ stage[c] \in {"waiting", "sending"} =>
         /\ sup = "publish" => want = asked[c]
         /\ sup \in {"spawn", "watch"} /\ c \notin current => want = asked[c]

SwapInv == \A c \in Callers : JobSwap(c)

IInv == TypeOK /\ SlotIsTheHolders /\ ServerInv /\ SwapInv

\* The invariant holds at the start.
LEMMA InitInv == Init => IInv
<1> SUFFICES ASSUME Init PROVE IInv
  OBVIOUS
<1>1. TypeOK
  <2>1. /\ config \in Settings /\ raw \in Settings
        /\ want = None /\ child = None /\ override = None
        /\ sup = "top" /\ health = "loading"
        /\ bundled = {} /\ current = {} /\ clean = {} /\ ready = {}
    BY DEF Init
  <2>2. closing \in BOOLEAN /\ heard \in BOOLEAN /\ port \in BOOLEAN /\ owed \in BOOLEAN
    BY Zenon DEF Init
  <2>3. line \in Seq(Callers)
    BY DEF Init
  <2>4. /\ stage \in [Callers -> {"idle", "queued", "captured", "waiting", "sending",
                                "restore", "release"}]
        /\ asked \in [Callers -> Models \cup {None}]
        /\ \A c \in Callers : stage[c] = "idle" /\ asked[c] = None
    BY DEF Init
  <2>5. jobs \in 0..MaxJobs /\ edits \in 0..MaxEdits /\ faults \in 0..MaxFaults
    BY ConstantsAssumption, SMT DEF Init
  <2> QED
    BY <2>1, <2>2, <2>3, <2>4, <2>5 DEF TypeOK
<1>2. SlotIsTheHolders
  BY DEF Init, SlotIsTheHolders
<1>3. ServerInv
  BY DEF Init, ServerInv
<1>4. SwapInv
  BY DEF Init, SwapInv, JobSwap
<1> QED
  BY <1>1, <1>2, <1>3, <1>4 DEF IInv

-----------------------------------------------------------------------------
(* The supervisor.                                                         *)

\* The supervisor leaves the jobs alone and only moves the generation on.
LEMMA SupervisorFrame ==
  ASSUME SupervisorStep
  PROVE  /\ UNCHANGED <<config, closing, override, line, stage, asked, bundled, jobs, edits,
                        clean, ready>>
         /\ current' \in {current, {}}
<1>1. CASE Return \/ Arm \/ Spawn \/ PauseEnds \/ SeeExit \/ Bounce \/ StopServer \/ SpawnFails
  BY <1>1 DEF Return, Arm, Spawn, PauseEnds, SeeExit, Bounce, StopServer, SpawnFails, Kill,
     ClearAndBackOff, jobVars, bounds, seenVars
<1>2. CASE Prepare \/ Publish
  BY <1>2 DEF Prepare, GoIdle, Publish, jobVars, bounds, seenVars
<1> QED
  BY <1>1, <1>2 DEF SupervisorStep

\* The types of the supervisor's own variables are kept.
LEMMA SupervisorTypes ==
  ASSUME TypeOK, SupervisorStep
  PROVE  TypeOK'
<1>1. /\ sup' \in {"top", "prepare", "publish", "spawn", "watch", "backoff", "idle", "over"}
      /\ raw' \in Settings
      /\ want' \in Models \cup {None} /\ child' \in Models \cup {None}
      /\ health' \in {"loading", "ready", "hung"}
      /\ faults' \in 0..MaxFaults
  <2>1. CASE Return \/ Arm \/ Spawn \/ PauseEnds \/ SeeExit \/ Bounce \/ StopServer
    BY <2>1 DEF Return, Arm, Spawn, PauseEnds, SeeExit, Bounce, StopServer, Kill,
       ClearAndBackOff, srvVars, bounds, TypeOK
  <2>2. CASE SpawnFails
    <3>1. faults' \in 0..MaxFaults
      BY <2>2, ConstantsAssumption, SMT DEF SpawnFails, TypeOK
    <3> QED
      BY <2>2, <3>1 DEF SpawnFails, ClearAndBackOff, TypeOK
  <2>3. CASE Prepare
    <3>1. EffectiveModel(Expand[raw.model]) \in Models
      BY ConstantsAssumption DEF EffectiveModel, TypeOK
    <3> QED
      BY <2>3, <3>1 DEF Prepare, GoIdle, srvVars, bounds, TypeOK
  <2>4. CASE Publish
    BY <2>4 DEF Publish, bounds, TypeOK
  <2> QED
    BY <2>1, <2>2, <2>3, <2>4 DEF SupervisorStep
<1>2. heard' \in BOOLEAN /\ port' \in BOOLEAN /\ owed' \in BOOLEAN
  <2>1. CASE Return \/ Arm \/ Spawn \/ PauseEnds \/ SeeExit \/ Bounce \/ StopServer \/ SpawnFails
    BY <2>1, Zenon DEF Return, Arm, Spawn, PauseEnds, SeeExit, Bounce, StopServer, SpawnFails,
       Kill, ClearAndBackOff, srvVars, bounds, seenVars, TypeOK
  <2>2. CASE Prepare \/ Publish
    BY <2>2, Zenon DEF Prepare, GoIdle, Publish, srvVars, seenVars, TypeOK
  <2> QED
    BY <2>1, <2>2 DEF SupervisorStep
<1>3. closing' \in BOOLEAN
  BY SupervisorFrame, Zenon DEF TypeOK
<1>4. /\ UNCHANGED <<config, closing, override, line, stage, asked, bundled, jobs, edits,
                     clean, ready>>
      /\ current' \subseteq current
  BY SupervisorFrame
<1> QED
  BY <1>1, <1>2, <1>3, <1>4 DEF TypeOK

\* The process, its port and the loop stay together.
LEMMA SupervisorServer ==
  ASSUME TypeOK, ServerInv, SupervisorStep
  PROVE  ServerInv'
<1>1. CASE Return
  BY <1>1 DEF Return, srvVars, ServerInv
<1>2. CASE Arm
  BY <1>2 DEF Arm, srvVars, ServerInv
<1>3. CASE Prepare
  BY <1>3 DEF Prepare, GoIdle, srvVars, ServerInv
<1>4. CASE Publish
  BY <1>4 DEF Publish, ServerInv
<1>5. CASE Spawn
  BY <1>5 DEF Spawn, ServerInv
<1>6. CASE SpawnFails \/ SeeExit
  BY <1>6 DEF SpawnFails, SeeExit, ClearAndBackOff, ServerInv
<1>7. CASE Bounce \/ StopServer
  BY <1>7 DEF Bounce, StopServer, Kill, ServerInv
<1>8. CASE PauseEnds
  BY <1>8 DEF PauseEnds, srvVars, ServerInv
<1> QED
  BY <1>1, <1>2, <1>3, <1>4, <1>5, <1>6, <1>7, <1>8 DEF SupervisorStep

\* Whatever the supervisor prepares while the slot is set is the slot's model.
LEMMA SupervisorSwap ==
  ASSUME TypeOK, SwapInv, SupervisorStep
  PROVE  SwapInv'
<1> SUFFICES ASSUME NEW c \in Callers PROVE JobSwap(c)'
  BY DEF SwapInv
<1>0. JobSwap(c)
  BY DEF SwapInv
<1>1. UNCHANGED <<override, line, stage, asked, clean, ready>> /\ current' \subseteq current
  BY SupervisorFrame
<1>2. ASSUME c \in clean, stage[c] \in {"waiting", "sending"}
      PROVE  /\ sup' = "publish" => want' = asked[c]
             /\ sup' \in {"spawn", "watch"} /\ c \notin current' => want' = asked[c]
  <2>1. override = asked[c] /\ override # None
    BY <1>0, <1>2 DEF JobSwap
  <2>2. CASE Return \/ Arm \/ SpawnFails \/ SeeExit \/ Bounce \/ StopServer \/ PauseEnds
    BY <2>2 DEF Return, Arm, SpawnFails, SeeExit, ClearAndBackOff, Bounce, StopServer,
       PauseEnds
  <2>3. CASE Prepare
    BY <2>1, <2>3 DEF Prepare, GoIdle, EffectiveModel
  <2>4. CASE Publish
    BY <1>0, <1>2, <2>4 DEF Publish, JobSwap
  <2>5. CASE Spawn
    BY <1>0, <1>2, <2>5 DEF Spawn, jobVars, JobSwap
  <2> QED
    BY <2>2, <2>3, <2>4, <2>5 DEF SupervisorStep
<1> QED
  BY <1>0, <1>1, <1>2 DEF JobSwap

\* The supervisor keeps the invariant.
LEMMA SupervisorInv ==
  ASSUME IInv, SupervisorStep
  PROVE  IInv'
<1>1. SlotIsTheHolders'
  BY SupervisorFrame DEF IInv, SlotIsTheHolders, Holds
<1> QED
  BY <1>1, SupervisorTypes, SupervisorServer, SupervisorSwap DEF IInv

-----------------------------------------------------------------------------
(* The callers.                                                            *)

\* While one caller holds the permit the others are idle or queued.
LEMMA Alone ==
  ASSUME IInv, NEW c \in Callers, Holds(c), NEW d \in Callers, d # c
  PROVE  stage[d] \in {"idle", "queued"}
  BY DEF IInv, SlotIsTheHolders, Holds

\* What a job does leaves the supervisor, the process and the types alone.
LEMMA CallerTypes ==
  ASSUME IInv, NEW c \in Callers,
         NEW model \in Models \cup {None},
         Begin(c, model) \/ Tick(c) \/ CallerStep(c) \/ (model # None /\ Route(c, model))
  PROVE  TypeOK' /\ UNCHANGED <<config, closing, supVars, srvVars>>
<1>1. UNCHANGED <<config, closing, supVars, srvVars, edits, faults, owed>>
  BY DEF Begin, Tick, CallerStep, Route, TakePermit, SetSlot, ServerReady, GiveUpWaiting,
     Finish, DropGuard, DropPermit, bounds, seenVars
<1>2. jobs' \in 0..MaxJobs
  <2>1. CASE Begin(c, model) \/ Tick(c)
    BY <2>1, ConstantsAssumption, SMT DEF Begin, Tick, IInv, TypeOK
  <2>2. CASE CallerStep(c) \/ Route(c, model)
    BY <2>2 DEF CallerStep, Route, TakePermit, SetSlot, ServerReady, GiveUpWaiting,
       Finish, DropGuard, DropPermit, bounds, IInv, TypeOK
  <2> QED
    BY <2>1, <2>2
<1>3. override' \in Models \cup {None} /\ asked' \in [Callers -> Models \cup {None}]
  BY DEF Begin, Tick, CallerStep, Route, TakePermit, SetSlot, ServerReady, GiveUpWaiting,
     Finish, DropGuard, DropPermit, IInv, TypeOK
<1>4. stage' \in [Callers -> {"idle", "queued", "captured", "waiting", "sending",
                              "restore", "release"}]
  BY DEF Begin, Tick, CallerStep, Route, TakePermit, SetSlot, ServerReady, GiveUpWaiting,
     Finish, DropGuard, DropPermit, Goto, IInv, TypeOK
<1>5. line' \in Seq(Callers)
  <2>1. CASE Begin(c, model)
    BY <2>1 DEF Begin, IInv, TypeOK
  <2>2. CASE Tick(c)
    BY <2>2 DEF Tick
  <2>3. CASE DropPermit(c)
    <3>1. line # <<>> /\ line \in Seq(Callers)
      BY <2>3 DEF DropPermit, IInv, TypeOK, SlotIsTheHolders, Holds
    <3> QED
      BY <2>3, <3>1 DEF DropPermit
  <2>4. CASE \/ TakePermit(c) \/ SetSlot(c) \/ ServerReady(c) \/ GiveUpWaiting(c)
             \/ Finish(c) \/ DropGuard(c) \/ Route(c, model)
    BY <2>4 DEF TakePermit, SetSlot, ServerReady, GiveUpWaiting, Finish, DropGuard, Route,
       IInv, TypeOK
  <2> QED
    BY <2>1, <2>2, <2>3, <2>4 DEF CallerStep
<1>6. /\ bundled' \cup current' \cup clean' \cup ready' \subseteq Callers
      /\ \A d \in Callers : stage'[d] = "idle" =>
           asked'[d] = None /\ d \notin bundled' \cup current' \cup clean' \cup ready'
  <2>1. CASE Begin(c, model) \/ Tick(c)
    BY <2>1 DEF Begin, Tick, Goto, seenVars, IInv, TypeOK
  <2>2. CASE TakePermit(c) \/ SetSlot(c)
    BY <2>2 DEF TakePermit, SetSlot, Goto, seenVars, IInv, TypeOK
  <2>3. CASE ServerReady(c) \/ GiveUpWaiting(c) \/ Finish(c)
    BY <2>3 DEF ServerReady, GiveUpWaiting, Finish, Goto, seenVars, IInv, TypeOK
  <2>4. CASE Route(c, model)
    BY <2>4 DEF Route, Goto, seenVars, IInv, TypeOK
  <2>5. CASE DropGuard(c) \/ DropPermit(c)
    BY <2>5 DEF DropGuard, DropPermit, Goto, seenVars, IInv, TypeOK
  <2> QED
    BY <2>1, <2>2, <2>3, <2>4, <2>5 DEF CallerStep
<1>7. closing' \in BOOLEAN /\ heard' \in BOOLEAN /\ port' \in BOOLEAN /\ owed' \in BOOLEAN
  BY <1>1, Zenon DEF supVars, srvVars, IInv, TypeOK
<1> QED
  BY <1>1, <1>2, <1>3, <1>4, <1>5, <1>6, <1>7 DEF supVars, srvVars, IInv, TypeOK

\* Only the holder uses the server, and the slot is the holder's.
LEMMA CallerSlot ==
  ASSUME IInv, NEW c \in Callers,
         NEW model \in Models \cup {None},
         Begin(c, model) \/ Tick(c) \/ CallerStep(c) \/ (model # None /\ Route(c, model))
  PROVE  SlotIsTheHolders'
<1> USE DEF IInv, TypeOK, SlotIsTheHolders, SwapInv, JobSwap, Holds, Goto
<1>1. CASE Begin(c, model)
  <2>1. CASE line = <<>>
    <3>1. line' # <<>> /\ Head(line') = c
      BY <1>1, <2>1 DEF Begin
    <3> QED
      BY <1>1, <2>1, <3>1 DEF Begin
  <2>2. CASE line # <<>>
    <3>1. line' # <<>> /\ Head(line') = Head(line) /\ Head(line) \in Callers
      BY <1>1, <2>2 DEF Begin
    <3> QED
      BY <1>1, <2>2, <3>1 DEF Begin
  <2> QED
    BY <2>1, <2>2
<1>2. CASE Tick(c)
  BY <1>2 DEF Tick
<1>3. CASE TakePermit(c)
  BY <1>3 DEF TakePermit
<1>4. CASE SetSlot(c)
  BY <1>4 DEF SetSlot
<1>5. CASE ServerReady(c) \/ GiveUpWaiting(c) \/ Finish(c)
  BY <1>5 DEF ServerReady, GiveUpWaiting, Finish
<1>6. CASE model # None /\ Route(c, model)
  BY <1>6 DEF Route
<1>7. CASE DropGuard(c)
  BY <1>7 DEF DropGuard
<1>8. CASE DropPermit(c)
  <2>1. override = None /\ override' = None
    BY <1>8 DEF DropPermit
  <2>2. \A d \in Callers : stage'[d] \in {"idle", "queued"}
    BY <1>8, Alone DEF DropPermit
  <2> QED
    BY <2>1, <2>2
<1> QED
  BY <1>1, <1>2, <1>3, <1>4, <1>5, <1>6, <1>7, <1>8 DEF CallerStep

\* Every job keeps its relation to the slot and to the next process.
LEMMA CallerSwap ==
  ASSUME IInv, NEW c \in Callers,
         NEW model \in Models \cup {None},
         Begin(c, model) \/ Tick(c) \/ CallerStep(c) \/ (model # None /\ Route(c, model))
  PROVE  SwapInv'
<1> SUFFICES ASSUME NEW d \in Callers PROVE JobSwap(d)'
  BY DEF SwapInv
<1>0. JobSwap(d) /\ JobSwap(c)
  BY DEF IInv, SwapInv
<1>1. UNCHANGED <<sup, want>>
  BY CallerTypes DEF supVars
<1>2. stage \in [Callers -> {"idle", "queued", "captured", "waiting", "sending",
                             "restore", "release"}]
      /\ asked \in [Callers -> Models \cup {None}]
  BY DEF IInv, TypeOK
<1>3. CASE Begin(c, model) \/ Tick(c)
  <2>1. c \notin clean \cup ready /\ stage[c] = "idle" /\ asked[c] = None
    BY <1>3 DEF Begin, Tick, IInv, TypeOK
  <2>2. Tick(c) => override = None
    BY DEF Tick, IInv, SlotIsTheHolders
  <2> QED
    BY <1>0, <1>1, <1>2, <1>3, <2>1, <2>2 DEF Begin, Tick, Goto, seenVars, JobSwap
<1>4. CASE TakePermit(c)
  <2>1. asked[c] = None => override = None
    BY <1>4 DEF TakePermit, Holds, IInv, SlotIsTheHolders
  <2> QED
    BY <1>0, <1>1, <1>2, <1>4, <2>1 DEF TakePermit, Goto, seenVars, JobSwap
<1>5. CASE SetSlot(c)
  <2>1. d # c => stage[d] \in {"idle", "queued"}
    BY <1>5, Alone DEF SetSlot, IInv, SlotIsTheHolders
  <2> QED
    BY <1>0, <1>1, <1>2, <1>5, <2>1 DEF SetSlot, InFlight, Goto, JobSwap
<1>6. CASE ServerReady(c) \/ GiveUpWaiting(c) \/ Finish(c)
  BY <1>0, <1>1, <1>2, <1>6 DEF ServerReady, GiveUpWaiting, Finish, Goto, seenVars, JobSwap
<1>7. CASE model # None /\ Route(c, model)
  BY <1>0, <1>1, <1>2, <1>7 DEF Route, Goto, seenVars, JobSwap
<1>8. CASE DropGuard(c)
  <2>1. d # c => stage[d] \in {"idle", "queued"}
    BY <1>8, Alone DEF DropGuard, IInv, SlotIsTheHolders
  <2> QED
    BY <1>0, <1>1, <1>2, <1>8, <2>1 DEF DropGuard, Goto, seenVars, JobSwap
<1>9. CASE DropPermit(c)
  BY <1>0, <1>1, <1>2, <1>9 DEF DropPermit, Goto, JobSwap
<1> QED
  BY <1>3, <1>4, <1>5, <1>6, <1>7, <1>8, <1>9 DEF CallerStep

\* A step of a caller keeps the invariant.
LEMMA CallerInv ==
  ASSUME IInv, NEW c \in Callers,
         NEW model \in Models \cup {None},
         Begin(c, model) \/ Tick(c) \/ CallerStep(c) \/ (model # None /\ Route(c, model))
  PROVE  IInv'
<1>1. ServerInv'
  BY CallerTypes DEF supVars, srvVars, IInv, ServerInv
<1> QED
  BY <1>1, CallerTypes, CallerSlot, CallerSwap DEF IInv

-----------------------------------------------------------------------------
(* The process, the settings, the Doctor and the shutdown.                 *)

World == \/ ModelLoaded \/ ServerDies \/ ServerHangs
         \/ \E swept \in BOOLEAN : Fix(swept)
         \/ \E c \in Settings : Reload(c)
         \/ BeginShutdown

\* None of these moves the loop or a job; at most the process goes away.
LEMMA WorldInv ==
  ASSUME IInv, World
  PROVE  IInv'
<1>1. /\ UNCHANGED <<sup, raw, want, port, jobVars, jobs, clean, ready>>
      /\ child' \in {child, None}
  BY DEF World, ModelLoaded, ServerDies, ServerHangs, Fix, Reload, BeginShutdown, Fault,
     supVars, srvVars, bounds, seenVars
<1>2. config' \in Settings /\ health' \in {"loading", "ready", "hung"}
  BY DEF World, ModelLoaded, ServerDies, ServerHangs, Fix, Reload, BeginShutdown,
     srvVars, IInv, TypeOK
<1>3. edits' \in 0..MaxEdits
  <2>1. CASE \E c \in Settings : Reload(c)
    BY <2>1, ConstantsAssumption, SMT DEF Reload, IInv, TypeOK
  <2>2. CASE ~\E c \in Settings : Reload(c)
    BY <2>2 DEF World, ModelLoaded, ServerDies, ServerHangs, Fix, BeginShutdown, Fault,
       bounds, IInv, TypeOK
  <2> QED
    BY <2>1, <2>2
<1>4. faults' \in 0..MaxFaults
  <2>1. CASE Fault
    BY <2>1, ConstantsAssumption, SMT DEF Fault, IInv, TypeOK
  <2>2. CASE UNCHANGED faults
    BY <2>2 DEF IInv, TypeOK
  <2> QED
    BY <2>1, <2>2 DEF World, ModelLoaded, ServerDies, ServerHangs, Fix, Reload,
       BeginShutdown, bounds
<1>5. closing' \in BOOLEAN /\ heard' \in BOOLEAN /\ port' \in BOOLEAN /\ owed' \in BOOLEAN
  <2>1. CASE \E swept \in BOOLEAN : Fix(swept)
    <3>1. PICK swept \in BOOLEAN : Fix(swept)
      BY <2>1
    <3>2. heard' = (sup \in {"prepare", "publish", "spawn", "watch"}) /\ owed' = heard'
          /\ closing' = closing /\ port' = port
      BY <3>1 DEF Fix
    <3>3. heard' \in BOOLEAN
      <4> DEFINE listening == sup \in {"prepare", "publish", "spawn", "watch"}
      <4>1. heard' = listening
        BY <3>2
      <4>2. listening \in BOOLEAN
        OBVIOUS
      <4> HIDE DEF listening
      <4> QED
        BY <4>1, <4>2, Zenon
    <3>4. owed' \in BOOLEAN
      BY <3>2, <3>3, Zenon
    <3>5. closing \in BOOLEAN /\ port \in BOOLEAN
      BY Zenon DEF IInv, TypeOK
    <3> QED
      BY <3>2, <3>3, <3>4, <3>5, Zenon
  <2>2. CASE ModelLoaded \/ ServerDies \/ ServerHangs \/ \E c \in Settings : Reload(c)
    BY <2>2, Zenon DEF ModelLoaded, ServerDies, ServerHangs, Reload, supVars, srvVars,
       seenVars, IInv, TypeOK
  <2>3. CASE BeginShutdown
    BY <2>3, Zenon DEF BeginShutdown, supVars, srvVars, seenVars, IInv, TypeOK
  <2> QED
    BY <2>1, <2>2, <2>3 DEF World
<1>6. TypeOK'
  BY <1>1, <1>2, <1>3, <1>4, <1>5 DEF jobVars, IInv, TypeOK
<1>7. SlotIsTheHolders'
  BY <1>1 DEF jobVars, IInv, SlotIsTheHolders, Holds
<1>8. ServerInv'
  BY <1>1 DEF IInv, ServerInv
<1>9. SwapInv'
  BY <1>1 DEF jobVars, IInv, SwapInv, JobSwap
<1> QED
  BY <1>6, <1>7, <1>8, <1>9 DEF IInv

-----------------------------------------------------------------------------

\* The invariant is kept by every step.
LEMMA NextInv == IInv /\ [Next]_vars => IInv'
<1> SUFFICES ASSUME IInv, [Next]_vars PROVE IInv'
  OBVIOUS
<1>1. CASE SupervisorStep
  BY <1>1, SupervisorInv
<1>2. CASE \E c \in Finals, m \in Models \cup {None} : Begin(c, m)
  BY <1>2, CallerInv DEF Callers
<1>3. CASE \E c \in Finals, m \in Models : Route(c, m)
  BY <1>3, CallerInv, ConstantsAssumption DEF Callers
<1>4. CASE \E c \in Previews : Tick(c)
  BY <1>4, CallerInv DEF Callers
<1>5. CASE \E c \in Callers : CallerStep(c)
  BY <1>5, CallerInv
<1>6. CASE World
  BY <1>6, WorldInv
<1>7. CASE UNCHANGED vars
  BY <1>7 DEF vars, supVars, srvVars, jobVars, bounds, seenVars, IInv, TypeOK,
     SlotIsTheHolders, Holds, ServerInv, SwapInv, JobSwap
<1> QED
  BY <1>1, <1>2, <1>3, <1>4, <1>5, <1>6, <1>7 DEF Next, World

\* The inductive invariant holds of every behaviour.
THEOREM Invariant == Spec => []IInv
  BY InitInv, NextInv, PTL DEF Spec

\* Every variable keeps its type (TypeOK).
THEOREM TypesHold == Spec => []TypeOK
<1>1. IInv => TypeOK
  BY DEF IInv
<1> QED
  BY <1>1, Invariant, PTL

\* Only the permit's holder uses the server and sets the slot, and no override
\* outlives its job (SlotIsTheHolders).
THEOREM SlotSafe == Spec => []SlotIsTheHolders
<1>1. IInv => SlotIsTheHolders
  BY DEF IInv
<1> QED
  BY <1>1, Invariant, PTL

\* A satisfied wait with no respawn in flight is served by the model that was
\* asked for (ReadyMeansAskedFor).
THEOREM SwapSafe == Spec => []ReadyMeansAskedFor
<1>1. IInv => ReadyMeansAskedFor
  <2> SUFFICES ASSUME IInv, NEW c \in clean \cap ready, stage[c] = "sending"
               PROVE  /\ child \in {asked[c], None}
                      /\ sup = "watch" /\ SpecChanged => config.mode # raw.mode
    BY DEF ReadyMeansAskedFor
  <2>1. c \in Callers
    BY DEF IInv, TypeOK
  <2>2. asked[c] # None /\ override = asked[c] /\ c \notin current
        /\ (sup = "watch" => want = asked[c])
    BY <2>1 DEF IInv, SwapInv, JobSwap
  <2> QED
    BY <2>2 DEF IInv, ServerInv, SpecChanged, EffectiveModel
<1> QED
  BY <1>1, Invariant, PTL

\* The published port tells consumers and siblings the truth
\* (PortTellsTheTruth).
THEOREM PortSafe == Spec => []PortTellsTheTruth
<1>1. IInv => PortTellsTheTruth
  BY DEF IInv, ServerInv, PortTellsTheTruth
<1> QED
  BY <1>1, Invariant, PTL
==============================================================================
