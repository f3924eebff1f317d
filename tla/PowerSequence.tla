---------------------------- MODULE PowerSequence ----------------------------
(***************************************************************************)
(* What ONE transition does to the hardware: sequenceComponents(), the     *)
(* reservations and the tier loop of doTransition(), with everything they  *)
(* call (internal/domain/transitions.go).  The worker may die at any step  *)
(* and the transition be started again from the task records in etcd.      *)
(* TransitionLifecycle takes from here that, when the tiers are done, no   *)
(* task is open.                                                           *)
(*                                                                         *)
(*   worker   sequences the components, reserves them, and goes through    *)
(*            the tiers: send the commands, wait until the stored power    *)
(*            status says what it should, or the deadline has passed       *)
(*   hardware carries out commands, late or never                         *)
(*   monitor  copies the state of the hardware to etcd, late              *)
(*                                                                         *)
(* Etcd writes succeed here (TransitionLifecycle has them fail); aborts     *)
(* end the worker and are left to TransitionLifecycle as well.             *)
(***************************************************************************)
EXTENDS Integers, Sequences, FiniteSets

CONSTANTS
    Comp,       \* the components of the request
    Type,       \* their HMS types
    Ancestors,  \* those of them that contain a component
    Supplies,   \* what feeds a component (PoweredBy), requested or not
    Choices,    \* the redfish actions a component may turn out to allow
    Ops,        \* operations to check
    NoWait,     \* TaskDeadline = 0
    Flaky,      \* components whose controllers the monitor may fail to reach
    MaxFault,   \* bound: requests, reservations and records lost
    MaxCrash    \* bound: crashes of the worker

Operation == {"On", "Off", "SoftRestart", "HardRestart", "Init", "ForceOff",
              "SoftOff"}
Controller == {"ChassisBMC", "NodeBMC", "RouterBMC"}
Switch     == {"MgmtSwitch", "MgmtHLSwitch", "CDUMgmtSwitch"}
Module     == {"RouterModule", "ComputeModule"}
HMSType    == {"Node", "Chassis", "CabinetPDUPowerConnector"}
              \cup Controller \cup Switch \cup Module
ResetType  == {"on", "off", "gracefulshutdown", "forceoff", "gracefulrestart",
               "forcerestart"}

ASSUME SeqAssumption ==
    /\ Type \in [Comp -> HMSType]
    /\ Ancestors \in [Comp -> SUBSET Comp]
    /\ DOMAIN Supplies = Comp
    /\ \A c \in Comp : Supplies[c] \in Seq({Supplies[c][i] : i \in DOMAIN Supplies[c]})
    /\ Choices \in [Comp -> SUBSET SUBSET ResetType]
    /\ Ops \subseteq Operation
    /\ NoWait \in BOOLEAN /\ Flaky \subseteq Comp
    /\ MaxFault \in Nat /\ MaxCrash \in Nat

VARIABLES
    op,       \* the operation of the transition
    acts,     \* comp.Actions
    db,       \* the task records in etcd
    task,     \* the worker's own copies
    snap,     \* comp.PState.PowerState, as read when the worker started
    count,    \* comp.ActionCount
    seqMap,   \* the components to apply each power action to
    pc,       \* where the worker is
    tier,     \* index into PowerSequenceFull
    todo,     \* components a loop of the worker has still to visit
    wait,     \* trsTaskMap
    out,      \* trsTaskList: commands not yet answered
    unsaved,  \* tasks changed and about to be stored
    \* hardware and monitor
    hw, cmd, mon,
    \* history and bounds
    wentOff,  \* components that have been off since the transition began
    cut,      \* nodes that lost power while running
    forced,   \* components sent a forceoff
    blind,    \* components whose state was undefined when a worker started
    faults, crashes

plan   == <<snap, count, seqMap>>
worker == <<task, plan, pc, tier, todo, wait, out, unsaved>>
world  == <<hw, cmd, mon, wentOff, cut>>
fixed  == <<op, acts, blind, crashes>>
vars   == <<op, acts, db, worker, world, forced, blind, faults, crashes>>

-----------------------------------------------------------------------------
(* Values and tables *)

Status == {"open", "failed", "succeeded", "unsupported"}   \* open: new or in-progress
State  == {"GatherData", "Sending", "Waiting", "Confirmed"}
Task   == [st : Status, state : State, op : Operation]

Action == {"gracefulshutdown", "forceoff", "gracefulrestart", "on"}

\* Mutant: modules are turned off before the nodes in them.
PowerSequenceFull_ModulesFirst == <<
    [action |-> "gracefulshutdown", types |-> Module],
    [action |-> "forceoff",         types |-> Module],
    [action |-> "gracefulshutdown", types |-> {"Node"}],
    [action |-> "forceoff",         types |-> {"Node"}],
    [action |-> "on",               types |-> Module],
    [action |-> "on",               types |-> {"Node"}] >>

\* Mutant: nodes are turned on before the modules they are in.
PowerSequenceFull_NodesFirst == <<
    [action |-> "gracefulshutdown", types |-> {"Node"}],
    [action |-> "forceoff",         types |-> {"Node"}],
    [action |-> "gracefulshutdown", types |-> Module],
    [action |-> "forceoff",         types |-> Module],
    [action |-> "on",               types |-> {"Node"}],
    [action |-> "on",               types |-> Module] >>

\* The order of the tiers.
PowerSequenceFull == <<
    [action |-> "gracefulshutdown", types |-> {"Node"}],
    [action |-> "forceoff",         types |-> {"Node"}],
    [action |-> "gracefulshutdown", types |-> Module],
    [action |-> "forceoff",         types |-> Module],
    [action |-> "gracefulshutdown", types |-> {"Chassis"}],
    [action |-> "forceoff",         types |-> {"Chassis"}],
    [action |-> "gracefulshutdown", types |-> {"CabinetPDUPowerConnector"}],
    [action |-> "forceoff",         types |-> {"CabinetPDUPowerConnector"}],
    [action |-> "gracefulrestart",  types |-> HMSType \ Controller],
    [action |-> "gracefulrestart",  types |-> Controller],
    [action |-> "on",               types |-> {"CabinetPDUPowerConnector"}],
    [action |-> "on",               types |-> {"Chassis"}],
    [action |-> "on",               types |-> Module],
    [action |-> "on",               types |-> {"Node"}] >>

\* The components acted on in tier k.
InTier(k) == {c \in seqMap[PowerSequenceFull[k].action] :
                 Type[c] \in PowerSequenceFull[k].types}

powerAction == PowerSequenceFull[tier].action

\* getOpForPowerAction
OpFor(a) == CASE a = "gracefulshutdown" -> "Off"
              [] a = "forceoff"         -> "ForceOff"
              [] a = "gracefulrestart"  -> "SoftRestart"
              [] a = "on"               -> "On"

\* The power state that confirms an action.
EndState(a) == IF a \in {"gracefulshutdown", "forceoff"} THEN "off" ELSE "on"

\* toPCSPowerActions: the operations a component supports.
Supports(c, o) ==
    LET on  == "on" \in acts[c]
        off == {"off", "gracefulshutdown"} \cap acts[c] # {} IN
    CASE o = "On"                      -> on
      [] o \in {"Off", "SoftOff"}      -> off
      [] o = "ForceOff"                -> "forceoff" \in acts[c]
      [] o \in {"Init", "HardRestart"} -> on /\ off
      [] o = "SoftRestart"             ->
             (on /\ off) \/ {"gracefulrestart", "forcerestart"} \cap acts[c] # {}

\* generateTransitionPayload: the redfish values that serve an action.
Payload(a) == CASE a = "gracefulshutdown" -> {"gracefulshutdown", "off"}
                [] a = "gracefulrestart"  -> {"gracefulrestart", "forcerestart"}
                [] OTHER                  -> {a}

IsOpen(c) == task[c].st = "open"

NewTask == [st |-> "open", state |-> "GatherData", op |-> op]
NoPlan  == [a \in Action |-> {}]

-----------------------------------------------------------------------------
(* Storing and failing tasks *)

\* The task of c is changed and stored.
Update(c, t) ==
    /\ task' = [task EXCEPT ![c] = t]
    /\ db'   = [db EXCEPT ![c] = t]

\* failDependentComps, power supplies: if nothing outside the request feeds
\* c, the last supply in the request that is on must stay on.
LastSupply(c) ==
    LET On == {i \in DOMAIN Supplies[c] :
                  Supplies[c][i] \in Comp => snap[Supplies[c][i]] = "on"} IN
    IF On = {} \/ \E i \in On : Supplies[c][i] \notin Comp
    THEN {}
    ELSE {Supplies[c][i] : i \in {j \in On : \A k \in On : k <= j}}

\* failDependentComps: what must not be powered off when a node could not be
\* shut down.
Dependents(c, a) ==
    IF a = "gracefulshutdown" /\ Type[c] = "Node"
    THEN {p \in Ancestors[c] : Type[p] = "ComputeModule"} \cup LastSupply(c)
    ELSE {}

\* The tasks t with those of the components in S failed.
Failing(t, S) == [c \in Comp |-> IF c \in S THEN [t[c] EXCEPT !.st = "failed"]
                                            ELSE t[c]]

\* Mutant: the task itself is stored before those that depend on it.
Fail_SelfFirst(c, a) ==
    /\ task' = Failing(task, {c} \cup Dependents(c, a))
    /\ db' = [db EXCEPT ![c] = task'[c]]
    /\ unsaved' = Dependents(c, a)

\* c fails while action a is applied: the tasks that depend on it are failed
\* and stored first, whatever their status, and the one of c after them.
Fail(c, a) ==
    /\ task' = Failing(task, {c} \cup Dependents(c, a))
    /\ db' = [d \in Comp |-> IF d \in Dependents(c, a) THEN task'[d] ELSE db[d]]
    /\ unsaved' = {c}

Save ==
    /\ unsaved # {}
    /\ db' = [c \in Comp |-> IF c \in unsaved THEN task[c] ELSE db[c]]
    /\ unsaved' = {}
    /\ UNCHANGED <<task, plan, pc, tier, todo, wait, out, world, fixed, forced,
                   faults>>

\* A request, a reservation or a record is lost, or none is.
Fault   == faults < MaxFault /\ faults' = faults + 1
NoFault == UNCHANGED faults

-----------------------------------------------------------------------------
(* Starting and sequencing *)

\* doTransition starts, for the first time or again: the tasks are those in
\* etcd and the power states those stored by the monitor.
Start ==
    /\ pc = "down" /\ pc' = "seq"
    /\ task' = db
    /\ snap' = mon
    /\ todo' = {c \in Comp : db[c].st = "open"}
    /\ blind' = blind \cup {c \in Comp : mon[c] = "undefined"}
    /\ UNCHANGED <<db, count, seqMap, tier, wait, out, unsaved, world, op, acts,
                   crashes, forced, faults>>

\* Whether c can be restarted without a power cycle: controllers know only
\* forcerestart.
Restartable(c) ==
    \/ "gracefulrestart" \in acts[c]
    \/ Type[c] \in Controller /\ "forcerestart" \in acts[c]

\* The search for ancestors that cannot: it does not advance past one that is
\* in the request.
Walks(c) ==
    /\ op = "SoftRestart" /\ Supports(c, op)
    /\ snap[c] = "on" /\ Restartable(c)
    /\ Ancestors[c] # {}

\* sequenceComponents for one component: its task afterwards and the actions
\* it is put down for.
Finished(c, st) == [task |-> [task[c] EXCEPT !.st = st], into |-> {}]
PutInto(c, S)   == [task |-> task[c], into |-> S]
OffConfirmed(c) == [task |-> [task[c] EXCEPT !.state = "Confirmed"], into |-> {"on"}]

PoweredOff(c) == task[c].op \in {"Off", "ForceOff"}

\* A restart of a component that is not on: only one that was interrupted
\* after its power was turned off.
Interrupted(c) ==
    IF task[c].state = "GatherData" THEN Finished(c, "failed")
    ELSE CASE task[c].op = "On" -> PutInto(c, {"on"})
           [] PoweredOff(c)     -> OffConfirmed(c)
           [] OTHER             -> IF op = "SoftRestart" THEN Finished(c, "failed")
                                                         ELSE PutInto(c, {})

\* Mutant: any command sent before the worker died counts as the last one.
Cycled_AnyCommand(c) ==
    IF task[c].state # "GatherData" THEN Finished(c, "succeeded")
                                    ELSE PutInto(c, {"gracefulshutdown", "on"})

\* A power cycle of a component that is on.
Cycled(c) == IF task[c].op = "On" THEN Finished(c, "succeeded")
                                  ELSE PutInto(c, {"gracefulshutdown", "on"})

HardRestarted(c) == IF snap[c] = "on" THEN Cycled(c) ELSE Interrupted(c)

SoftRestarted(c) ==
    IF snap[c] # "on" THEN Interrupted(c)
    ELSE IF Restartable(c)
    THEN IF task[c].state = "Waiting" THEN Finished(c, "succeeded")
                                      ELSE PutInto(c, {"gracefulrestart"})
    ELSE IF Type[c] \in Controller THEN Finished(c, "succeeded")
                                   ELSE Cycled(c)

Initialized(c) ==
    IF snap[c] = "on"
    THEN CASE \/ task[c].op = "On"
              \/ PoweredOff(c) /\ task[c].state = "Confirmed"
                 -> Finished(c, "succeeded")
           [] task[c].op = "ForceOff" /\ task[c].state # "Confirmed"
                 -> PutInto(c, {"forceoff", "on"})
           [] OTHER -> PutInto(c, {"gracefulshutdown", "on"})
    ELSE IF PoweredOff(c) THEN OffConfirmed(c) ELSE PutInto(c, {"on"})

\* Once the component is in the state it should be in, there is nothing to do.
Unless(c, state, S) == IF snap[c] = state THEN Finished(c, "succeeded")
                                          ELSE PutInto(c, S)

Sequenced(c) ==
    IF ~Supports(c, op) THEN Finished(c, "unsupported")
    ELSE CASE op = "On"                 -> Unless(c, "on", {"on"})
           [] op \in {"Off", "SoftOff"} -> Unless(c, "off", {"gracefulshutdown"})
           [] op = "ForceOff"           -> Unless(c, "off", {"forceoff"})
           [] op = "SoftRestart"        -> SoftRestarted(c)
           [] op = "HardRestart"        -> HardRestarted(c)
           [] op = "Init"               -> Initialized(c)

SequenceComp(c) ==
    /\ pc = "seq" /\ c \in todo
    /\ ~Walks(c)
    /\ todo' = todo \ {c}
    /\ LET r == Sequenced(c) IN
       /\ Update(c, r.task)
       /\ count' = [count EXCEPT ![c] = Cardinality(r.into)]
       /\ seqMap' = [a \in Action |-> IF a \in r.into THEN seqMap[a] \cup {c}
                                                     ELSE seqMap[a]]
    /\ UNCHANGED <<snap, pc, tier, wait, out, unsaved, world, fixed, forced,
                   faults>>

Walk(c) ==
    /\ pc = "seq" /\ c \in todo
    /\ Walks(c)
    /\ pc' = "walk"
    /\ UNCHANGED <<db, task, plan, tier, todo, wait, out, unsaved, world, fixed,
                   forced, faults>>

-----------------------------------------------------------------------------
(* Reservations *)

\* The action a component would have been in for, when it cannot be reserved.
ReservedFor(c) ==
    CASE task[c].op \in {"SoftRestart", "HardRestart", "SoftOff", "Off"}
            -> "gracefulshutdown"
      [] task[c].op = "ForceOff" -> "forceoff"
      [] task[c].op = "On" -> "on"
      [] task[c].op = "Init" -> IF snap[c] = "on" THEN "gracefulshutdown" ELSE "on"

\* HSM refuses to reserve c.
ReserveFailed(c) ==
    /\ pc = "seq" /\ todo = {}
    /\ IsOpen(c)
    /\ Fault
    /\ Fail(c, ReservedFor(c))
    /\ UNCHANGED <<plan, pc, tier, todo, wait, out, world, fixed, forced>>

\* HSM cannot be asked: everything fails and the transition is over.
ReserveError ==
    /\ pc = "seq" /\ todo = {}
    /\ Fault
    /\ task' = Failing(task, {c \in Comp : IsOpen(c)})
    /\ db' = Failing(db, {c \in Comp : IsOpen(c)})
    /\ pc' = "end"
    /\ UNCHANGED <<plan, tier, todo, wait, out, unsaved, world, fixed, forced>>

Reserved ==
    /\ pc = "seq" /\ todo = {}
    /\ pc' = "tier" /\ tier' = 1
    /\ UNCHANGED <<db, task, plan, todo, wait, out, unsaved, world, fixed,
                   forced, faults>>

-----------------------------------------------------------------------------
(* The tier loop *)

\* The next tier that has components; waitForBMC only delays it.
EnterTier ==
    /\ pc = "tier"
    /\ LET T == {k \in DOMAIN PowerSequenceFull : k >= tier /\ InTier(k) # {}} IN
       IF T = {}
       THEN pc' = "end" /\ UNCHANGED <<tier, todo>>
       ELSE /\ pc' = "keys"
            /\ tier' = CHOOSE k \in T : \A j \in T : k <= j
            /\ todo' = InTier(tier')
    /\ UNCHANGED <<db, task, plan, wait, out, unsaved, world, fixed, forced, faults>>

\* CheckDeputyKeys: a reservation has run out.
KeyExpired(c) ==
    /\ pc = "keys"
    /\ IsOpen(c)
    /\ Fault
    /\ Fail(c, powerAction)
    /\ UNCHANGED <<plan, pc, tier, todo, wait, out, world, fixed, forced>>

KeysChecked ==
    /\ pc = "keys" /\ pc' = "build"
    /\ UNCHANGED <<db, task, plan, tier, todo, wait, out, unsaved, world, fixed,
                   forced, faults>>

\* The command for c is prepared, unless c has failed, or was sent it before a
\* restart and only has to be waited for.
Build(c) ==
    /\ pc = "build" /\ c \in todo
    /\ todo' = todo \ {c}
    /\ \/ /\ task[c].st = "failed"
          /\ UNCHANGED <<task, db, wait, out, unsaved>>
       \/ /\ task[c].st # "failed"
          /\ task[c].state = "Waiting" /\ task[c].op = OpFor(powerAction)
          /\ wait' = wait \cup {c}
          /\ UNCHANGED <<task, db, out, unsaved>>
       \/ /\ task[c].st # "failed"
          /\ ~(task[c].state = "Waiting" /\ task[c].op = OpFor(powerAction))
          /\ IF Payload(powerAction) \cap acts[c] = {}
             THEN /\ Fail(c, powerAction)
                  /\ UNCHANGED <<wait, out>>
             ELSE /\ Update(c, [task[c] EXCEPT !.state = "Sending",
                                               !.op = OpFor(powerAction)])
                  /\ wait' = wait \cup {c} /\ out' = out \cup {c}
                  /\ UNCHANGED unsaved
    /\ UNCHANGED <<plan, pc, tier, world, fixed, forced, faults>>

Launch ==
    /\ pc = "build" /\ todo = {}
    /\ pc' = "send"
    /\ forced' = IF powerAction = "forceoff" THEN forced \cup out ELSE forced
    /\ UNCHANGED <<db, task, plan, tier, todo, wait, out, unsaved, world, fixed,
                   faults>>

\* Mutant: an accepted command counts as carried out.
Accepted_Succeeds(c) ==
    [task[c] EXCEPT !.state = "Confirmed",
                    !.st = IF count[c] = 1 THEN "succeeded" ELSE "open"]

\* The task after the controller has accepted the command.
Accepted(c) ==
    IF NoWait
    THEN [task[c] EXCEPT !.state = "Confirmed",
                         !.st = IF count[c] = 1 THEN "succeeded" ELSE "open"]
    ELSE [task[c] EXCEPT !.state = "Waiting", !.st = "open"]

\* The answer of a controller arrives.  An error leaves open whether the
\* command is carried out; a refusal is taken for acceptance (the test for a
\* bad status code is never true).
Response(c) ==
    /\ pc = "send" /\ c \in out
    /\ out' = out \ {c}
    /\ \/ /\ \/ NoFault /\ cmd' = [cmd EXCEPT ![c] = powerAction]
             \/ Fault /\ UNCHANGED cmd
          /\ Update(c, Accepted(c))
          /\ count' = [count EXCEPT ![c] = IF NoWait THEN @ - 1 ELSE @]
          /\ UNCHANGED <<wait, unsaved>>
       \/ /\ Fault
          /\ cmd' \in {cmd, [cmd EXCEPT ![c] = powerAction]}
          /\ wait' = wait \ {c}
          /\ Fail(c, powerAction)
          /\ UNCHANGED count
    /\ UNCHANGED <<snap, seqMap, pc, tier, todo, hw, mon, wentOff, cut, fixed,
                   forced>>

NextTier == pc' = "tier" /\ tier' = tier + 1

\* All have answered: now their power states are waited for.
Answered ==
    /\ pc = "send" /\ out = {}
    /\ IF wait = {} THEN NextTier /\ UNCHANGED todo
                    ELSE pc' = "confirm" /\ todo' = wait /\ UNCHANGED tier
    /\ UNCHANGED <<db, task, plan, wait, out, unsaved, world, fixed, forced, faults>>

\* The task once the power state is as it should be.
Confirmed(c) == [task[c] EXCEPT !.state = "Confirmed",
                                !.st = IF count[c] = 1 THEN "succeeded" ELSE @]

\* Mutant: a confirmed component stays in the map of those to wait for.
Confirm_Again(c) ==
    /\ pc = "confirm" /\ c \in todo
    /\ todo' = todo \ {c}
    /\ mon[c] = EndState(powerAction)
    /\ Update(c, Confirmed(c))
    /\ count' = [count EXCEPT ![c] = @ - 1]
    /\ UNCHANGED <<wait, unsaved, faults, snap, seqMap, pc, tier, out, world, fixed,
                   forced>>

\* A round of confirmation looks at the stored power state of c, which may
\* have been deleted.
Confirm(c) ==
    /\ pc = "confirm" /\ c \in todo
    /\ todo' = todo \ {c}
    /\ \/ /\ NoFault /\ mon[c] = EndState(powerAction)
          /\ Update(c, Confirmed(c))
          /\ count' = [count EXCEPT ![c] = @ - 1]
          /\ wait' = wait \ {c}
          /\ UNCHANGED unsaved
       \/ /\ NoFault /\ mon[c] # EndState(powerAction)
          /\ UNCHANGED <<task, db, count, wait, unsaved>>
       \/ /\ Fault
          /\ Fail(c, powerAction)
          /\ wait' = wait \ {c}
          /\ UNCHANGED count
    /\ UNCHANGED <<snap, seqMap, pc, tier, out, world, fixed, forced>>

\* The end of a round: the tier is done, or another round follows, or the
\* deadline has passed (with NoWait it has when the first round ends).
RoundDone ==
    /\ pc = "confirm" /\ todo = {}
    /\ IF wait = {} THEN NextTier /\ UNCHANGED todo
                    ELSE ~NoWait /\ todo' = wait /\ UNCHANGED <<pc, tier>>
    /\ UNCHANGED <<db, task, plan, wait, out, unsaved, world, fixed, forced, faults>>

\* Mutant: only tiers that force are given up in the end.
Deadline_OnlyForced ==
    /\ pc = "confirm" /\ todo = {} /\ wait # {}
    /\ powerAction = "forceoff"
    /\ pc' = "late"
    /\ UNCHANGED <<db, task, plan, tier, todo, wait, out, unsaved, world, fixed,
                   forced, faults>>

Deadline ==
    /\ pc = "confirm" /\ todo = {} /\ wait # {}
    /\ pc' = "late"
    /\ UNCHANGED <<db, task, plan, tier, todo, wait, out, unsaved, world, fixed,
                   forced, faults>>

\* Mutant: every operation forbids the use of force.
Late_NoForce(c) ==
    /\ pc = "late" /\ c \in wait
    /\ wait' = wait \ {c}
    /\ Fail(c, powerAction)
    /\ UNCHANGED <<seqMap, snap, count, pc, tier, todo, out, world, fixed, forced,
                   faults>>

\* Mutant: a component that could be forced is not put down for forceoff.
Late_Forgotten(c) ==
    /\ pc = "late" /\ c \in wait
    /\ wait' = wait \ {c}
    /\ IF powerAction = "gracefulshutdown" /\ op # "SoftOff" /\ "forceoff" \in acts[c]
       THEN UNCHANGED <<task, db, unsaved>>
       ELSE Fail(c, powerAction)
    /\ UNCHANGED <<seqMap, snap, count, pc, tier, todo, out, world, fixed, forced,
                   faults>>

\* A component that was too slow to shut down is put down for forceoff, if
\* there is such an action and the operation is not Soft-Off; others fail.
Late(c) ==
    /\ pc = "late" /\ c \in wait
    /\ wait' = wait \ {c}
    /\ IF powerAction = "gracefulshutdown" /\ op # "SoftOff" /\ "forceoff" \in acts[c]
       THEN /\ seqMap' = [seqMap EXCEPT !["forceoff"] = @ \cup {c}]
            /\ UNCHANGED <<task, db, unsaved>>
       ELSE /\ Fail(c, powerAction)
            /\ UNCHANGED seqMap
    /\ UNCHANGED <<snap, count, pc, tier, todo, out, world, fixed, forced, faults>>

LateDone ==
    /\ pc = "late" /\ wait = {}
    /\ NextTier
    /\ UNCHANGED <<db, task, plan, todo, wait, out, unsaved, world, fixed, forced,
                   faults>>

-----------------------------------------------------------------------------
(* Crash, hardware and monitor *)

\* The worker dies; commands on their way may or may not arrive.
Crash ==
    /\ pc \notin {"down", "end"}
    /\ crashes < MaxCrash /\ crashes' = crashes + 1
    /\ \E S \in SUBSET (IF pc = "send" THEN out ELSE {}) :
          cmd' = [c \in Comp |-> IF c \in S THEN powerAction ELSE cmd[c]]
    /\ pc' = "down"
    /\ task' = db
    /\ count' = [c \in Comp |-> 0] /\ seqMap' = NoPlan
    /\ snap' = [c \in Comp |-> "undefined"]
    /\ tier' = 1 /\ todo' = {} /\ wait' = {} /\ out' = {} /\ unsaved' = {}
    /\ UNCHANGED <<db, hw, mon, wentOff, cut, op, acts, blind, forced, faults>>

\* Power to c: its module, and at least one of its supplies, if it has any.
Powered(c, h) ==
    /\ \A p \in Ancestors[c] : Type[p] \in Module => h[p] = "on"
    /\ \/ Supplies[c] = <<>>
       \/ \E i \in DOMAIN Supplies[c] :
             Supplies[c][i] \in Comp => h[Supplies[c][i]] = "on"

\* The hardware carries out the command of c.  What c feeds loses its power
\* with it; a chassis with modules that are on refuses.
TurnOff(c) ==
    LET without == [hw EXCEPT ![c] = "off"]
        lost    == {d \in Comp : without[d] = "on" /\ ~Powered(d, without)}
        refused == Type[c] = "Chassis"
                     /\ \E d \in Comp : c \in Ancestors[d] /\ hw[d] = "on" IN
    IF refused THEN UNCHANGED <<hw, wentOff, cut>>
    ELSE /\ hw' = [d \in Comp |-> IF d \in lost THEN "off" ELSE without[d]]
         /\ wentOff' = wentOff \cup {c} \cup lost
         /\ cut' = cut \cup {d \in lost : Type[d] = "Node"}

Execute(c) ==
    /\ cmd[c] # "none"
    /\ cmd' = [cmd EXCEPT ![c] = "none"]
    /\ CASE cmd[c] \in {"gracefulshutdown", "forceoff"} -> TurnOff(c)
         [] cmd[c] = "on" ->
               /\ hw' = IF Powered(c, hw) THEN [hw EXCEPT ![c] = "on"] ELSE hw
               /\ UNCHANGED <<wentOff, cut>>
         [] cmd[c] = "gracefulrestart" ->
               /\ wentOff' = IF hw[c] = "on" THEN wentOff \cup {c} ELSE wentOff
               /\ UNCHANGED <<hw, cut>>
    /\ UNCHANGED <<db, worker, mon, fixed, forced, faults>>

\* The monitor stores what it reads from the controller of c.
Monitor(c) ==
    /\ mon[c] # hw[c]
    /\ mon' = [mon EXCEPT ![c] = hw[c]]
    /\ UNCHANGED <<db, worker, hw, cmd, wentOff, cut, fixed, forced, faults>>

\* It cannot reach that controller.
Lose(c) ==
    /\ c \in Flaky /\ mon[c] # "undefined"
    /\ mon' = [mon EXCEPT ![c] = "undefined"]
    /\ UNCHANGED <<db, worker, hw, cmd, wentOff, cut, fixed, forced, faults>>

-----------------------------------------------------------------------------
(* Specification *)

Init ==
    /\ op \in Ops
    /\ acts \in {f \in [Comp -> UNION {Choices[c] : c \in Comp}] : \A c \in Comp : f[c] \in Choices[c]}
    /\ hw \in {h \in [Comp -> {"on", "off"}] :
                  \A c \in Comp : h[c] = "on" => Powered(c, h)}
    /\ mon = hw
    /\ cmd = [c \in Comp |-> "none"]
    /\ db = [c \in Comp |-> NewTask] /\ task = db
    /\ count = [c \in Comp |-> 0] /\ seqMap = NoPlan
    /\ snap = [c \in Comp |-> "undefined"]
    /\ pc = "down" /\ tier = 1
    /\ todo = {} /\ wait = {} /\ out = {} /\ unsaved = {}
    /\ wentOff = {} /\ cut = {} /\ forced = {} /\ blind = {}
    /\ faults = 0 /\ crashes = 0

Work(c) == \/ SequenceComp(c) \/ Walk(c) \/ ReserveFailed(c) \/ KeyExpired(c)
           \/ Build(c) \/ Response(c) \/ Confirm(c) \/ Late(c)

WorkerStep ==
    \/ Save
    \/ /\ unsaved = {}
       /\ \/ Start \/ ReserveError \/ Reserved \/ EnterTier \/ KeysChecked
          \/ Launch \/ Answered \/ RoundDone \/ Deadline \/ LateDone
          \/ \E c \in Comp : Work(c)

Next ==
    \/ WorkerStep
    \/ Crash
    \/ \E c \in Comp : Execute(c) \/ Monitor(c) \/ Lose(c)

Spec == Init /\ [][Next]_vars

\* The worker goes on, a worker that died is replaced, and the deadline
\* passes.  The hardware need not do anything.
FairSpec == Spec /\ WF_vars(WorkerStep) /\ SF_vars(unsaved = {} /\ Deadline)

-----------------------------------------------------------------------------
(* Properties *)

\* The shapes of all variables; ActionCount never falls below zero.
TypeOK ==
    /\ op \in Operation /\ acts \in [Comp -> SUBSET ResetType]
    /\ db \in [Comp -> Task] /\ task \in [Comp -> Task]
    /\ snap \in [Comp -> {"on", "off", "undefined"}]
    /\ count \in [Comp -> 0..2]
    /\ seqMap \in [Action -> SUBSET Comp]
    /\ pc \in {"down", "seq", "walk", "tier", "keys", "build", "send", "confirm",
               "late", "end"}
    /\ tier \in 1..Len(PowerSequenceFull) + 1
    /\ todo \subseteq Comp /\ wait \subseteq Comp /\ out \subseteq wait
    /\ unsaved \subseteq Comp
    /\ hw \in [Comp -> {"on", "off"}] /\ mon \in [Comp -> {"on", "off", "undefined"}]
    /\ cmd \in [Comp -> Action \cup {"none"}]
    /\ wentOff \subseteq Comp /\ cut \subseteq Comp /\ forced \subseteq Comp
    /\ blind \subseteq Comp
    /\ faults \in 0..MaxFault /\ crashes \in 0..MaxCrash

\* When the tiers are done every component has a result, stored in its task
\* record: nothing is forgotten between the actions it was put down for.
AllFinished ==
    pc = "end" /\ unsaved = {} => \A c \in Comp : db[c].st # "open" /\ task[c] = db[c]

\* A result is about the hardware: what succeeded in being turned on or off is
\* on or off, although the worker only ever sees the monitor's late copies.
OutcomeReal ==
    \A c \in Comp : task[c].st = "succeeded" =>
        /\ op = "On" => hw[c] = "on"
        /\ op \in {"Off", "SoftOff", "ForceOff"} => hw[c] = "off"

\* Nothing tells whether a controller that was left to restart its component
\* has done so: the command may be pending, or have been refused.
Unverified(c) == /\ op = "SoftRestart" /\ Restartable(c)
                 /\ cmd[c] = "gracefulrestart" \/ faults > 0

\* What succeeded in being restarted has been off since the transition began,
\* however often the worker died, unless its power state was undefined when a
\* worker started (blind): that is taken to mean that it is off by now.
RestartReal ==
    \A c \in Comp : task[c].st = "succeeded" /\ op \in {"HardRestart", "SoftRestart"}
        => c \in wentOff \cup blind \/ Unverified(c)

\* What feeds c, of the request.
Feeders(c) == Ancestors[c] \cup {p \in Comp : \E i \in DOMAIN Supplies[c] :
                                                  Supplies[c][i] = p}
GivenUp(c) == task[c].st \in {"failed", "unsupported"}

\* Soft-Off never takes the power from a running node of the request: neither
\* its module nor its last supply is turned off unless the node is off, also
\* when the node fails and the worker dies before that is stored.  Nodes that
\* do not support Soft-Off are not protected, nor are those with a supply in an
\* unknown state.
NeverCut ==
    op = "SoftOff" => \A c \in cut : \/ task[c].st = "unsupported"
                                     \/ Feeders(c) \cap blind # {}

\* Something that feeds c has been given up, or was not seen when a worker
\* started.
FeedLost(c) == \E p \in Feeders(c) : GivenUp(p) \/ p \in blind

\* The other operations take the power only from nodes they have given up or
\* could not see, or after something that feeds the node has been given up (a
\* command that was too slow may still be carried out).  Soft-Restart does not
\* look at what feeds the nodes that can restart by themselves.
CutOnlyFailed ==
    \A c \in cut : \/ GivenUp(c) \/ c \in blind
                   \/ FeedLost(c)
                   \/ op = "SoftRestart" /\ Restartable(c)

\* Off does not give up a node that can be forced off before it was forced.
ForcedFirst ==
    op = "Off" /\ faults = 0 =>
        \A c \in Comp : Type[c] = "Node" /\ task[c].st = "failed"
                           /\ "forceoff" \in acts[c] => c \in forced

\* A component is told to turn on only when it can: what feeds it is on by
\* then, or has been given up.
OnHasPower ==
    \A c \in Comp : cmd[c] = "on" => Powered(c, hw) \/ FeedLost(c)

\* The transition comes to an end although the worker dies and the hardware
\* does nothing.
Finishes == <>(pc = "end")
=============================================================================
