----------------------------- MODULE PowerStatus -----------------------------
(***************************************************************************)
(* The power status monitor, internal/domain/power-status.go: monitorHW()  *)
(* runs in every pod, one of them (the power status master) reads all      *)
(* power states from the controllers and stores the ones that changed in   *)
(* etcd, where GET /power-status and every transition look them up.        *)
(*                                                                         *)
(* The master is elected through a time stamp in etcd that its keep-alive  *)
(* goroutine refreshes every 15 s with a test-and-set; one that is 45 s    *)
(* old may be taken over, under the distributed lock.                      *)
(***************************************************************************)
EXTENDS Integers, FiniteSets

CONSTANTS
    Pod,         \* instances of the service
    Comp, Bmc,   \* components; the ones that are node BMCs
    None,        \* no pod, no entry
    Sites,       \* systems: what controllers answer and HSM lists, per component
    MaxCrash,    \* bound: pod crashes
    MaxErr,      \* bound: etcd operations that return an error
    MaxFault,    \* bound: requests to HSM, Vault and controllers that fail
    MaxFailures, \* bound: all of these together
    MaxHW,       \* bound: changes of the hardware
    MaxInv       \* bound: changes of HSM's inventory

\* A power state and a management state: on and off come with "available",
\* "unknown" is (undefined, available), "unavailable" (undefined, unavailable)
\* and "forced" (undefined, undefined), written only by RefreshBMC.
State   == {"on", "off", "unknown", "unavailable", "forced"}

\* What HSM knows of a component: nothing, that its slot is empty, its name
\* only, also where to query it, also which power actions it supports.
Listing == {"absent", "empty", "bare", "quiet", "full"}

ASSUME StatusAssumption ==
    /\ Bmc \subseteq Comp /\ None \notin Pod
    /\ {MaxCrash, MaxErr, MaxFault, MaxFailures, MaxHW, MaxInv} \subseteq Nat
    /\ Sites \subseteq [Comp -> [read : SUBSET (State \ {"forced"}), list : SUBSET Listing]]
    /\ \A s \in Sites, c \in Bmc : "off" \notin s[c].read  \* any valid answer means on

\* The answers of HSM's ComponentEndpoints query for the components in B are
\* error bodies: the HTTP status is not looked at, they decode to no endpoints.
Undiscovered(hsm, B) ==
    [c \in Comp |-> IF c \in B /\ hsm[c] \in {"quiet", "full"} THEN "bare" ELSE hsm[c]]

Entry  == [st : State, acts : BOOLEAN, uri : BOOLEAN]  \* in hwStateMap
Stored == [st : State, acts : BOOLEAN]                 \* in etcd

Unlisted == [c \in Comp |-> "absent"]
Silent   == [c \in Comp |-> None]

NewEntry(l) == [st |-> "unavailable", acts |-> l = "full", uri |-> l \in {"quiet", "full"}]

VARIABLES
    \* etcd
    rec,     \* the master's time stamp: "none", "fresh" or "stale"
    known,   \* pods whose copy of the time stamp is the stored one
    missed,  \* refreshes the master has missed since rec was stored, up to 2
    lock,    \* holder of the distributed lock
    db,      \* the stored power states
    \* pods
    master,  \* isPowerStatusMaster; its keep-alive goroutine runs
    pc,      \* where monitorHW is
    map,     \* hwStateMap
    hsm,     \* answer of FillHSMData
    todo,    \* components the present loop has still to visit
    rsp,     \* answers of the controllers
    \* environment
    site, hw, inv,
    writer,  \* history: the pod whose write of a state was the last, None if it failed
    \* bounds
    crashes, errs, faults, hwChanges, invChanges

etcd   == <<rec, known, missed, lock>>
data   == <<db, writer>>
sweep  == <<map, hsm, todo, rsp>>
world  == <<site, hw, inv, hwChanges, invChanges>>
vars   == <<etcd, data, master, pc, sweep, world, crashes, errs, faults>>

Spare   == crashes + errs + faults < MaxFailures
Error   == errs < MaxErr /\ Spare /\ errs' = errs + 1
NoError == UNCHANGED errs
Fault   == faults < MaxFault /\ Spare /\ faults' = faults + 1
NoFault == UNCHANGED faults

Goto(p, l) == pc' = [pc EXCEPT ![p] = l]

-----------------------------------------------------------------------------
(* The election *)

\* The time stamp is stored by p; or by a pod that does not know it (None).
Stamp(p) == /\ rec' = "fresh" /\ missed' = 0
            /\ known' = {p} \ {None}

Campaign(p) ==
    /\ pc[p] = "sleep" /\ ~master[p]
    /\ \/ rec = "none" /\ Goto(p, "first") /\ UNCHANGED known
       \/ rec = "stale" /\ Goto(p, "take") /\ known' = known \cup {p}
    /\ lock' = p
    /\ UNCHANGED <<rec, missed, data, master, sweep, world, crashes, errs, faults>>

\* Mutant: no distributed lock.
GetMaster_NoLock(p) == Campaign(p)

\* monitorHW wakes up and is not master: the distributed lock is taken and the
\* time stamp read.  Nobody was master yet, or he is gone.  When it is fresh or
\* cannot be read, or the lock cannot be had in time, all stays as it is.
GetMaster(p) == lock = None /\ Campaign(p)

\* StorePowerStatusMaster or TASPowerStatusMaster, then the lock is released.
\* An operation that returns an error may have been carried out.
TakeMaster(p) ==
    /\ pc[p] \in {"first", "take"}
    /\ \/ /\ NoError
          /\ IF pc[p] = "first" \/ p \in known
             THEN Stamp(p) /\ master' = [master EXCEPT ![p] = TRUE]
             ELSE UNCHANGED <<rec, known, missed, master>>
       \/ /\ Error /\ UNCHANGED master
          /\ \/ UNCHANGED <<rec, known, missed>>
             \/ (pc[p] = "first" \/ p \in known) /\ Stamp(None)
    /\ Goto(p, "sleep") /\ lock' = None
    /\ UNCHANGED <<data, sweep, world, crashes, faults>>

\* One tick of startPowerStatusMaster: refresh, or find out that somebody
\* else has become master (or that a refresh reported as failed was not).
KeepAlive(p) ==
    /\ master[p]
    /\ \/ /\ NoError /\ p \in known
          /\ Stamp(p) /\ UNCHANGED master
       \/ /\ NoError /\ p \notin known
          /\ master' = [master EXCEPT ![p] = FALSE] /\ UNCHANGED <<rec, known, missed>>
       \/ /\ Error /\ UNCHANGED master
          /\ \/ missed' = (IF missed = 2 THEN 2 ELSE missed + 1) /\ UNCHANGED <<rec, known>>
             \/ p \in known /\ Stamp(None)
    /\ UNCHANGED <<lock, data, pc, sweep, world, crashes, faults>>

\* Three intervals without a refresh: two ticks of every master were missed.
Lapse == /\ rec = "fresh"
         /\ \A p \in Pod : master[p] => p \in known /\ missed = 2
         /\ rec' = "stale"
         /\ UNCHANGED <<known, missed, lock, data, master, pc, sweep, world,
                        crashes, errs, faults>>

-----------------------------------------------------------------------------
(* updateComponentMap *)

\* updateHWState: does the state that was read differ from the map's?
Differs(old, new) == new # old

\* A write to etcd by p, and what remains of it when it fails.
Write(p, c, v) ==
    \/ /\ NoError /\ db' = [db EXCEPT ![c] = v]
       /\ writer' = [writer EXCEPT ![c] = p]
    \/ /\ Error /\ writer' = [writer EXCEPT ![c] = None]
       /\ UNCHANGED db

\* updateHWState: the map first, then etcd; a failed store is not repeated.
UpdateHWState(p, c, e) ==
    /\ map' = [map EXCEPT ![p][c] = e]
    /\ IF Differs(map[p][c].st, e.st)
       THEN Write(p, c, [st |-> e.st, acts |-> e.acts])
       ELSE NoError /\ UNCHANGED data

\* The master asks HSM for all components.  When HSM cannot be reached or
\* lists nothing, the sweep is given up (nothing changes).
FetchHSM(p) ==
    /\ pc[p] = "sleep" /\ master[p]
    /\ \E c \in Comp : inv[c] # "absent"
    /\ \/ NoFault /\ hsm' = [hsm EXCEPT ![p] = inv]
       \/ Fault /\ \E B \in SUBSET Comp \ {{}} : hsm' = [hsm EXCEPT ![p] = Undiscovered(inv, B)]
    /\ todo' = [todo EXCEPT ![p] = {c \in Comp : map[p][c] # None
                                                  \/ hsm'[p][c] \notin {"absent", "empty"}}]
    /\ Goto(p, "refresh")
    /\ UNCHANGED <<etcd, data, master, map, rsp, world, crashes, errs>>

\* Mutant: only the map is cleaned.
RefreshGone_MapOnly(p, c) ==
    /\ hsm[p][c] = "absent" /\ map[p][c] # None
    /\ map' = [map EXCEPT ![p][c] = None]
    /\ NoError /\ UNCHANGED data

\* A component HSM no longer lists: removed from the map and from etcd; the
\* result of the delete is ignored.
RefreshGone(p, c) ==
    /\ hsm[p][c] = "absent" /\ map[p][c] # None
    /\ map' = [map EXCEPT ![p][c] = None]
    /\ Write(p, c, None)

\* A component that is new to the map.  It is stored only when its state
\* turns out to be another one.
RefreshNew(p, c) ==
    /\ hsm[p][c] \in {"bare", "quiet", "full"} /\ map[p][c] = None
    /\ map' = [map EXCEPT ![p][c] = NewEntry(hsm[p][c])]
    /\ NoError /\ UNCHANGED data

ActionsAppear(p, c) == /\ c \in Bmc /\ hsm[p][c] = "full"
                       /\ map[p][c] # None /\ ~map[p][c].acts

\* Mutant: the supported transitions are updated in the map only.
RefreshBMC_MapOnly(p, c) ==
    /\ ActionsAppear(p, c)
    /\ map' = [map EXCEPT ![p][c].acts = TRUE]
    /\ NoError /\ UNCHANGED data

\* A node BMC whose supported transitions have become known.
RefreshBMC(p, c) ==
    /\ ActionsAppear(p, c)
    /\ UpdateHWState(p, c, [map[p][c] EXCEPT !.acts = TRUE, !.st = "forced"])

\* Every other component stays as it is in the map, whatever HSM says now of
\* its slot and its endpoint.
RefreshKept(p, c) ==
    /\ map[p][c] # None /\ hsm[p][c] # "absent" /\ ~ActionsAppear(p, c)
    /\ NoError /\ UNCHANGED <<map, data>>

\* What is gone is removed before the rest is looked at.
Refresh(p, c) ==
    /\ pc[p] = "refresh" /\ c \in todo[p]
    /\ hsm[p][c] = "absent" \/ \A d \in todo[p] : hsm[p][d] # "absent"
    /\ RefreshGone(p, c) \/ RefreshNew(p, c) \/ RefreshBMC(p, c) \/ RefreshKept(p, c)
    /\ todo' = [todo EXCEPT ![p] = @ \ {c}]
    /\ UNCHANGED <<etcd, master, pc, hsm, rsp, world, crashes, faults>>

-----------------------------------------------------------------------------
(* getHWStatesFromHW *)

Queried(p) == {c \in Comp : map[p][c] # None /\ map[p][c].uri}

\* Credentials are fetched for every component; one that is missing ends the
\* sweep, as does a failing Launch.  Without a component to query it ends too.
LaunchQueries(p) ==
    /\ pc[p] = "refresh" /\ todo[p] = {}
    /\ \/ /\ NoFault /\ Queried(p) # {}
          /\ todo' = [todo EXCEPT ![p] = Queried(p)] /\ Goto(p, "query")
       \/ /\ IF Queried(p) = {} THEN NoFault ELSE Fault
          /\ Goto(p, "sleep") /\ UNCHANGED todo
    /\ hsm' = [hsm EXCEPT ![p] = Unlisted]
    /\ UNCHANGED <<etcd, data, master, map, rsp, world, crashes, errs>>

\* A controller answers, or the request fails on the way.
Answer(p, c) ==
    /\ pc[p] = "query" /\ c \in todo[p]
    /\ \/ NoFault /\ rsp' = [rsp EXCEPT ![p][c] = hw[c]]
       \/ Fault /\ rsp' = [rsp EXCEPT ![p][c] = "unavailable"]
    /\ todo' = [todo EXCEPT ![p] = @ \ {c}]
    /\ UNCHANGED <<etcd, data, master, pc, map, hsm, world, crashes, errs>>

\* Once all have answered, the answers are gone through one by one.
Apply(p, c) ==
    /\ pc[p] = "query" /\ todo[p] = {} /\ rsp[p][c] # None
    /\ UpdateHWState(p, c, [map[p][c] EXCEPT !.st = rsp[p][c]])
    /\ rsp' = [rsp EXCEPT ![p][c] = None]
    /\ UNCHANGED <<etcd, master, pc, hsm, todo, world, crashes, faults>>

EndSweep(p) ==
    /\ pc[p] = "query" /\ todo[p] = {} /\ rsp[p] = Silent
    /\ Goto(p, "sleep")
    /\ UNCHANGED <<etcd, data, master, sweep, world, crashes, errs, faults>>

-----------------------------------------------------------------------------
(* The environment *)

\* The pod dies and starts again; its lease on the lock runs out.
Crash(p) ==
    /\ crashes < MaxCrash /\ Spare /\ crashes' = crashes + 1
    /\ master' = [master EXCEPT ![p] = FALSE]
    /\ known' = known \ {p}
    /\ lock' = IF lock = p THEN None ELSE lock
    /\ Goto(p, "sleep")
    /\ map' = [map EXCEPT ![p] = [c \in Comp |-> None]]
    /\ hsm' = [hsm EXCEPT ![p] = Unlisted]
    /\ todo' = [todo EXCEPT ![p] = {}]
    /\ rsp' = [rsp EXCEPT ![p] = Silent]
    /\ UNCHANGED <<rec, missed, data, world, errs, faults>>

HWChanges == /\ hwChanges < MaxHW /\ hwChanges' = hwChanges + 1
             /\ \E c \in Comp : \E r \in site[c].read \ {hw[c]} : hw' = [hw EXCEPT ![c] = r]
             /\ UNCHANGED <<etcd, data, master, pc, sweep, site, inv, invChanges, crashes, errs, faults>>

InvChanges == /\ invChanges < MaxInv /\ invChanges' = invChanges + 1
              /\ \E c \in Comp : \E l \in site[c].list \ {inv[c]} : inv' = [inv EXCEPT ![c] = l]
              /\ UNCHANGED <<etcd, data, master, pc, sweep, site, hw, hwChanges, crashes, errs, faults>>

-----------------------------------------------------------------------------
(* The specification *)

Init ==
    /\ rec = "none" /\ known = {} /\ missed = 0 /\ lock = None
    /\ db = [c \in Comp |-> None]
    /\ master = [p \in Pod |-> FALSE] /\ pc = [p \in Pod |-> "sleep"]
    /\ map = [p \in Pod |-> [c \in Comp |-> None]]
    /\ hsm = [p \in Pod |-> Unlisted]
    /\ todo = [p \in Pod |-> {}]
    /\ rsp = [p \in Pod |-> Silent]
    /\ site \in Sites
    /\ hw \in {f \in [Comp -> State] : \A c \in Comp : f[c] \in site[c].read}
    /\ inv \in {f \in [Comp -> Listing] : \A c \in Comp : f[c] \in site[c].list}
    /\ writer = [c \in Comp |-> None]
    /\ crashes = 0 /\ errs = 0 /\ faults = 0 /\ hwChanges = 0 /\ invChanges = 0

Monitor(p) == \/ GetMaster(p) \/ TakeMaster(p) \/ FetchHSM(p) \/ LaunchQueries(p) \/ EndSweep(p)
              \/ \E c \in Comp : Refresh(p, c) \/ Answer(p, c) \/ Apply(p, c)

Next == \/ \E p \in Pod : Monitor(p) \/ KeepAlive(p) \/ Crash(p)
        \/ Lapse \/ HWChanges \/ InvChanges

Spec == Init /\ [][Next]_vars

\* The goroutines run on, tickers tick and time passes.  Nothing makes a pod
\* crash, an operation fail or the environment change.
Fairness == /\ \A p \in Pod : WF_vars(Monitor(p)) /\ WF_vars(KeepAlive(p))
            /\ WF_vars(Lapse)

FairSpec == Spec /\ Fairness

-----------------------------------------------------------------------------
(* Properties *)

Masters == {p \in Pod : master[p]}

\* Every variable has its type, a pod in the election holds the lock, and a
\* component that is being answered for is in the pod's map.
TypeOK ==
    /\ rec \in {"none", "fresh", "stale"} /\ missed \in 0..2
    /\ known \subseteq Pod /\ lock \in Pod \cup {None}
    /\ db \in [Comp -> Stored \cup {None}]
    /\ master \in [Pod -> BOOLEAN]
    /\ pc \in [Pod -> {"sleep", "first", "take", "refresh", "query"}]
    /\ map \in [Pod -> [Comp -> Entry \cup {None}]]
    /\ hsm \in [Pod -> [Comp -> Listing]]
    /\ todo \in [Pod -> SUBSET Comp]
    /\ rsp \in [Pod -> [Comp -> State \cup {None}]]
    /\ site \in Sites /\ hw \in [Comp -> State] /\ inv \in [Comp -> Listing]
    /\ writer \in [Comp -> Pod \cup {None}]
    /\ crashes \in 0..MaxCrash /\ errs \in 0..MaxErr /\ faults \in 0..MaxFault
    /\ hwChanges \in 0..MaxHW /\ invChanges \in 0..MaxInv
    /\ \A p \in Pod : pc[p] \in {"first", "take"} => lock = p
    /\ \A p \in Pod, c \in Comp : rsp[p][c] # None => map[p][c] # None

\* Two pods are never power status master at the same time, unless two
\* refreshes in a row have failed: neither when the first master is chosen by
\* a blind store, nor when several pods find the same old time stamp, nor when
\* a refresh that was reported as failed has been carried out.
OneMaster == errs < 2 => Cardinality(Masters) <= 1

\* What the master holds in its map is what etcd shows, except for states that
\* were never stored because they are the one a new entry starts with: no
\* change of the map is kept from etcd, across take-overs from a dead master.
MapStored ==
    errs = 0 => \A p \in Masters, c \in Comp :
        map[p][c] # None /\ map[p][c].st # "unavailable"
            => db[c] = [st |-> map[p][c].st, acts |-> map[p][c].acts]

\* The states in which what is stored of c is right, or as wrong as it may be.
Shown(p, c) ==
    LET taken == errs > 0 /\ writer[c] # p
    IN  CASE inv[c] = "absent" ->  \* deleted, unless an earlier master knew it
               db[c] = None \/ crashes > 0 \/ taken
          [] inv[c] = "empty"  -> TRUE
          [] OTHER ->
               \/ map[p][c] # None /\ ~map[p][c].uri
               \/ db[c] # None /\ db[c].st = hw[c]
                    /\ (c \in Bmc /\ inv[c] = "full" => db[c].acts)
               \/ hw[c] = "unavailable" /\ (db[c] = None \/ crashes > 0)
               \/ taken

\* Whatever happened before: in the end one pod is master, for good, and once
\* hardware, inventory and failures come to rest, etcd shows every component
\* that HSM lists in the state its controller reports (a BMC with the
\* transitions it supports) and no longer shows one that HSM has dropped.
\* Not so: components first seen without an endpoint; after the death of a
\* master, ones that are unreachable or were dropped at the time; after etcd
\* errors, ones whose last write failed or was another pod's.
Converges == <>[](/\ Cardinality(Masters) = 1
                  /\ (\E c \in Comp : inv[c] # "absent")
                        => \A p \in Masters, c \in Comp : Shown(p, c))
=============================================================================
