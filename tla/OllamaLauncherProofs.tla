------------------------ MODULE OllamaLauncherProofs ------------------------
(***************************************************************************)
(* The launcher keeps its promise for every set of callers and every bound.*)
(* The inductive invariant is IInv: the types, that only the process of the*)
(* ledger's entry runs, and what the stages of the daemon's end leave.     *)
(***************************************************************************)
EXTENDS OllamaLauncher, TLAPS

\* After the stop only what was spawned later runs; before it nothing is late.
StopLeaves ==
    /\ daemon \in {"stopping", "exited"} => live \subseteq late
    /\ daemon = "up" => late = {}

IInv == TypeOK /\ SingleChild /\ StopLeaves

\* The steps of a caller, by what they do to the ledger.
KeepsLedger(c) == \/ \E answered \in BOOLEAN : Probe(c, answered)
                  \/ UseOrLeave(c) \/ AwaitOwned(c) \/ SpawnFails(c) \/ Return(c)

\* The invariant holds at the start.
LEMMA InitInv == Init => IInv
  BY ConstantsAssumption, SMT
     DEF Init, IInv, TypeOK, SingleChild, StopLeaves, Procs

\* A step of a caller that spawns nothing changes neither ledger nor processes.
LEMMA QuietStep ==
  ASSUME IInv, NEW c \in Callers, KeepsLedger(c)
  PROVE  IInv' /\ UNCHANGED <<ledger, live>>
<1>1. CASE \E answered \in BOOLEAN : Probe(c, answered)
  <2>1. PICK answered \in BOOLEAN : Probe(c, answered)
    BY <1>1
  <2>2. UNCHANGED <<ledger, handle, spawned, live, listener, daemon, starts, late>>
    BY <2>1 DEF Probe
  <2>3. reachable' \subseteq Callers
    BY <2>1 DEF Probe, IInv, TypeOK
  <2>4. stage' \in [Callers -> {"idle", "probed", "waiting"}]
    BY <2>1 DEF Probe, Goto, IInv, TypeOK
  <2>5. first' \in {"none", "found", "absent"}
    BY <2>1 DEF Probe, IInv, TypeOK
  <2> QED
    BY <2>2, <2>3, <2>4, <2>5 DEF IInv, TypeOK, SingleChild, StopLeaves
<1>2. CASE UseOrLeave(c) \/ AwaitOwned(c) \/ SpawnFails(c) \/ Return(c)
  <2>1. UNCHANGED <<ledger, handle, spawned, live, listener, reachable, daemon, starts,
                    late, first>>
    BY <1>2 DEF UseOrLeave, AwaitOwned, SpawnFails, Return
  <2>2. stage' \in [Callers -> {"idle", "probed", "waiting"}]
    BY <1>2 DEF UseOrLeave, AwaitOwned, SpawnFails, Return, Goto, IInv, TypeOK
  <2> QED
    BY <2>1, <2>2 DEF IInv, TypeOK, SingleChild, StopLeaves
<1> QED
  BY <1>1, <1>2 DEF KeepsLedger

\* Recording the user's Ollama happens only while nothing of ours runs.
LEMMA MarkStep ==
  ASSUME IInv, NEW c \in Callers, MarkNotOurs(c)
  PROVE  IInv' /\ live = {} /\ live' = {}
<1>1. live = {} /\ live' = live
  BY DEF MarkNotOurs, IInv, SingleChild
<1>2. UNCHANGED <<handle, spawned, live, listener, reachable, daemon, starts, late, first>>
  BY DEF MarkNotOurs
<1>3. stage' \in [Callers -> {"idle", "probed", "waiting"}] /\ ledger' = "NotOurs"
  BY DEF MarkNotOurs, Goto, IInv, TypeOK
<1> QED
  BY <1>1, <1>2, <1>3 DEF IInv, TypeOK, SingleChild, StopLeaves

\* A spawn happens only when nothing of ours runs, and leaves its one process.
LEMMA SpawnStep ==
  ASSUME IInv, NEW c \in Callers, Spawn(c)
  PROVE  IInv' /\ live = {} /\ live' = {handle'} /\ ledger # "NotOurs"
               /\ ledger' = "Owned"
<1>1. live = {} /\ ledger # "NotOurs"
  BY DEF Spawn, OwnedDead, IInv, SingleChild
<1>2. spawned' = spawned + 1 /\ spawned + 1 \in Procs /\ spawned' \in 0..MaxSpawns
  BY ConstantsAssumption, SMT DEF Spawn, IInv, TypeOK, Procs
<1>3. ledger' = "Owned" /\ handle' = spawned' /\ live' = {spawned'}
  BY <1>1, <1>2 DEF Spawn
<1>4. late' \subseteq Procs
  BY <1>2 DEF Spawn, IInv, TypeOK
<1>5. UNCHANGED <<listener, reachable, daemon, starts, first>>
  BY DEF Spawn
<1>6. stage' \in [Callers -> {"idle", "probed", "waiting"}]
  BY DEF Spawn, Goto, IInv, TypeOK
<1>7. TypeOK'
  BY <1>2, <1>3, <1>4, <1>5, <1>6 DEF IInv, TypeOK
<1>8. SingleChild'
  BY <1>3 DEF SingleChild
<1>9. StopLeaves'
  <2>1. CASE daemon = "stopping"
    BY <2>1, <1>2, <1>3, <1>5 DEF Spawn, StopLeaves
  <2>2. CASE daemon = "up"
    BY <2>2, <1>5 DEF Spawn, StopLeaves, IInv
  <2> QED
    BY <2>1, <2>2 DEF Spawn, Runs
<1> QED
  BY <1>1, <1>3, <1>7, <1>8, <1>9 DEF IInv

\* A process of ours ends: nothing of ours runs any more.
LEMMA EndedStep ==
  ASSUME IInv, NEW p \in live, Ended(p)
  PROVE  /\ live' = {} /\ live = {p}
         /\ listener' \in {Nobody, User} \cup Procs
<1>1. live = {p}
  BY DEF IInv, SingleChild
<1> QED
  BY <1>1 DEF Ended, IInv, TypeOK

\* The processes' and the user's own steps.
LEMMA WorldStep ==
  ASSUME IInv,
         (\E p \in Procs : Bind(p) \/ ProcessExits(p)) \/ UserStarts \/ UserStops
  PROVE  IInv' /\ ledger' = ledger /\ live' \in {live, {}}
<1>1. CASE \E p \in Procs : Bind(p)
  BY <1>1 DEF Bind, IInv, TypeOK, SingleChild, StopLeaves
<1>2. CASE \E p \in Procs : ProcessExits(p)
  <2>1. PICK p \in Procs : ProcessExits(p)
    BY <1>2
  <2>2. p \in live /\ Ended(p)
    BY <2>1 DEF ProcessExits
  <2>3. live' = {} /\ listener' \in {Nobody, User} \cup Procs
    BY <2>2, EndedStep
  <2>4. UNCHANGED <<ledger, handle, spawned, stage, reachable, daemon, starts, late, first>>
    BY <2>1 DEF ProcessExits
  <2> QED
    BY <2>3, <2>4 DEF IInv, TypeOK, SingleChild, StopLeaves
<1>3. CASE UserStarts
  <2>1. starts' \in 0..MaxUser /\ listener' = User
    BY <1>3, ConstantsAssumption, SMT DEF UserStarts, IInv, TypeOK
  <2>2. UNCHANGED <<ledger, handle, spawned, live, stage, reachable, daemon, late, first>>
    BY <1>3 DEF UserStarts
  <2> QED
    BY <2>1, <2>2 DEF IInv, TypeOK, SingleChild, StopLeaves
<1>4. CASE UserStops
  BY <1>4 DEF UserStops, IInv, TypeOK, SingleChild, StopLeaves
<1> QED
  BY <1>1, <1>2, <1>3, <1>4

\* The end of the daemon: the stop ends the child of the ledger's entry.
LEMMA EndStep ==
  ASSUME IInv, Stop \/ Exit \/ Killed
  PROVE  IInv' /\ ledger' = ledger /\ live' \in {live, {}}
<1>1. CASE Stop
  <2>1. live' = {} /\ listener' \in {Nobody, User} \cup Procs
    <3>1. CASE ledger = "Owned" /\ handle \in live
      <4>1. Ended(handle)
        BY <3>1, <1>1 DEF Stop
      <4> QED
        BY <3>1, <4>1, EndedStep
    <3>2. CASE ~(ledger = "Owned" /\ handle \in live)
      BY <3>2, <1>1 DEF Stop, IInv, SingleChild, TypeOK
    <3> QED
      BY <3>1, <3>2
  <2>2. daemon' = "stopping"
         /\ UNCHANGED <<ledger, handle, spawned, stage, reachable, starts, late, first>>
    BY <1>1 DEF Stop
  <2> QED
    BY <2>1, <2>2 DEF IInv, TypeOK, SingleChild, StopLeaves
<1>2. CASE Exit
  BY <1>2 DEF Exit, IInv, TypeOK, SingleChild, StopLeaves
<1>3. CASE Killed
  BY <1>3 DEF Killed, IInv, TypeOK, SingleChild, StopLeaves
<1> QED
  BY <1>1, <1>2, <1>3

\* The invariant is kept by every step.
LEMMA NextInv == IInv /\ [Next]_vars => IInv'
<1> SUFFICES ASSUME IInv, [Next]_vars PROVE IInv'
  OBVIOUS
<1>1. CASE \E c \in Callers : CallerStep(c)
  <2>1. PICK c \in Callers : CallerStep(c)
    BY <1>1
  <2> QED
    BY <2>1, QuietStep, MarkStep, SpawnStep DEF CallerStep, KeepsLedger
<1>2. CASE (\E p \in Procs : Bind(p) \/ ProcessExits(p)) \/ UserStarts \/ UserStops
  BY <1>2, WorldStep
<1>3. CASE Stop \/ Exit \/ Killed
  BY <1>3, EndStep
<1>4. CASE UNCHANGED vars
  BY <1>4 DEF vars, IInv, TypeOK, SingleChild, StopLeaves
<1> QED
  BY <1>1, <1>2, <1>3, <1>4 DEF Next

\* The inductive invariant holds of every behaviour.
THEOREM Invariant == Spec => []IInv
  BY InitInv, NextInv, PTL DEF Spec

\* Every variable keeps its type (TypeOK).
THEOREM TypesHold == Spec => []TypeOK
<1>1. IInv => TypeOK
  BY DEF IInv
<1> QED
  BY <1>1, Invariant, PTL

\* At most one Ollama of ours runs, and the ledger owns it (SingleChild).
THEOREM OneChild == Spec => []SingleChild
<1>1. IInv => SingleChild
  BY DEF IInv
<1> QED
  BY <1>1, Invariant, PTL

\* A daemon that ends in order leaves nothing but what was spawned after the
\* stop (LeavesNothingBehind).
THEOREM NothingLeft == Spec => []LeavesNothingBehind
<1>1. IInv => LeavesNothingBehind
  BY DEF IInv, StopLeaves, LeavesNothingBehind
<1> QED
  BY <1>1, Invariant, PTL

\* A step of the launcher is a step of the promise, or changes nothing of it.
LEMMA StepKeepsPromise ==
  IInv /\ [Next]_vars =>
    [Promise!Next]_<<Owner, Running>>
<1> SUFFICES ASSUME IInv, [Next]_vars
             PROVE  Promise!Next \/ (Owner' = Owner /\ Running' = Running)
  OBVIOUS
<1>1. CASE \E c \in Callers : CallerStep(c)
  <2>1. PICK c \in Callers : CallerStep(c)
    BY <1>1
  <2>2. CASE KeepsLedger(c)
    BY <2>2, QuietStep DEF Owner, Running
  <2>3. CASE MarkNotOurs(c)
    <3>1. live = {} /\ live' = {} /\ ledger = "Unprobed" /\ ledger' = "NotOurs"
      BY <2>3, MarkStep DEF MarkNotOurs
    <3> QED
      BY <3>1 DEF Promise!Next, Promise!Find, Owner, Running
  <2>4. CASE Spawn(c)
    <3>1. live = {} /\ live' # {} /\ ledger # "NotOurs" /\ ledger' = "Owned"
      BY <2>4, SpawnStep
    <3>2. ledger \in {"Unprobed", "Owned"}
      BY <3>1 DEF IInv, TypeOK
    <3> QED
      BY <3>1, <3>2 DEF Promise!Next, Promise!Launch, Owner, Running
  <2> QED
    BY <2>1, <2>2, <2>3, <2>4 DEF CallerStep, KeepsLedger
<1>2. CASE \/ (\E p \in Procs : Bind(p) \/ ProcessExits(p)) \/ UserStarts \/ UserStops
           \/ Stop \/ Exit \/ Killed
  <2>1. ledger' = ledger /\ live' \in {live, {}}
    BY <1>2, WorldStep, EndStep
  <2>2. CASE live' = live
    BY <2>1, <2>2 DEF Owner, Running
  <2>3. CASE live' = {} /\ live # {}
    BY <2>1, <2>3 DEF Promise!Next, Promise!End, Owner, Running
  <2> QED
    BY <2>1, <2>2, <2>3
<1>3. CASE UNCHANGED vars
  BY <1>3 DEF vars, Owner, Running
<1> QED
  BY <1>1, <1>2, <1>3 DEF Next

\* The launcher implements its promise (KeepsPromise).
THEOREM Implements == Spec => KeepsPromise
<1>1. Init => Promise!Init
  BY DEF Init, Promise!Init, Owner, Running
<1>2. IInv /\ [Next]_vars =>
        [Promise!Next]_<<Owner, Running>>
  BY StepKeepsPromise
<1> QED
  BY <1>1, <1>2, Invariant, PTL DEF Spec, KeepsPromise, Promise!Spec
==============================================================================
