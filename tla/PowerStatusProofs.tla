-------------------------- MODULE PowerStatusProofs --------------------------
(***************************************************************************)
(* Theorems about PowerStatus for every number of pods and components and  *)
(* every bound: type correctness, that there is one power status master at *)
(* a time, and that etcd shows what its map holds.                         *)
(*                                                                         *)
(* The election.  A pod that is not master knows the stored time stamp     *)
(* only while that is old, and an old one means that no master was left to *)
(* refresh it: a live master misses two refreshes only by two errors.  So  *)
(* a test-and-set that succeeds finds no master.  Nor does the blind store *)
(* of the first one: until the lock is released nobody else stores a time  *)
(* stamp, so that there still is none.                                     *)
(***************************************************************************)
EXTENDS PowerStatus, TLAPS, FiniteSetTheorems

-----------------------------------------------------------------------------
(* The inductive invariants *)

\* Answers are collected only after the queries, for components in the map.
Swept ==
    \A p \in Pod : /\ pc[p] # "query" => rsp[p] = Silent
                   /\ pc[p] = "query" => \A c \in todo[p] : map[p][c] # None

Types == TypeOK /\ Swept

\* The state of the election.
Candidates == \A p \in Pod : pc[p] \in {"first", "take"} => ~master[p]
Missed     == missed <= errs
FirstEver  == /\ rec = "none" => \A p \in Pod : ~master[p]
              /\ \A p \in Pod : pc[p] = "first" => rec = "none"
Deserted   == errs < 2 /\ rec = "stale" => \A p \in Pod : ~master[p]
Informed   == \A p \in Pod : p \in known => master[p] \/ rec = "stale"
Alone      == errs < 2 => \A p, q \in Pod : master[p] /\ master[q] => p = q

Election == Candidates /\ Missed /\ FirstEver /\ Deserted /\ Informed /\ Alone

\* Without errors only the master sweeps, from an empty map on, and holds what
\* it has stored.
Reported == \A c \in Comp : hw[c] \in site[c].read
Forced   == /\ \A p \in Pod, c \in Comp : rsp[p][c] # None => rsp[p][c] # "forced"
            /\ \A p \in Pod, c \in Comp :
                  map[p][c] # None /\ map[p][c].st = "forced" => map[p][c].acts
Kept     == errs = 0 => \A p \in Pod : master[p] => p \in known
Sweeper  == errs = 0 => \A p \in Pod :
               /\ pc[p] \in {"refresh", "query"} => master[p]
               /\ \A c \in Comp : map[p][c] # None => master[p]

Mirror == Reported /\ Forced /\ Kept /\ Sweeper /\ MapStored

-----------------------------------------------------------------------------
(* Type correctness *)

LEMMA CountType ==
    ASSUME TypeOK, Error \/ NoError
    PROVE  errs' \in 0..MaxErr
BY StatusAssumption DEF TypeOK, Error, NoError

LEMMA FaultType ==
    ASSUME TypeOK, Fault \/ NoFault
    PROVE  faults' \in 0..MaxFault
BY StatusAssumption DEF TypeOK, Fault, NoFault

\* Changes of the election only.
LEMMA ElectionTypes ==
    ASSUME Types, NEW p \in Pod, GetMaster(p) \/ TakeMaster(p) \/ KeepAlive(p)
    PROVE  Types'
<1>1. CASE GetMaster(p)
  <2>1. /\ pc' = [pc EXCEPT ![p] = "first"] \/ pc' = [pc EXCEPT ![p] = "take"]
        /\ known' \subseteq Pod /\ lock' = p
        /\ UNCHANGED <<rec, missed, data, master, sweep, world, crashes, errs, faults>>
        /\ pc[p] = "sleep" /\ lock = None
    BY <1>1 DEF GetMaster, Campaign, Goto, Types, TypeOK
  <2>2. \A q \in Pod : pc[q] \notin {"first", "take"}
    BY <2>1, StatusAssumption DEF Types, TypeOK
  <2>3. pc' \in [Pod -> {"sleep", "first", "take", "refresh", "query"}]
    BY <2>1 DEF Types, TypeOK
  <2>4. \A q \in Pod : pc'[q] \in {"first", "take"} => lock' = q
    BY <2>1, <2>2 DEF Types, TypeOK
  <2>5. TypeOK'
    BY <2>1, <2>3, <2>4 DEF Types, TypeOK, data, sweep, world
  <2>6. Swept'
    BY <2>1 DEF Types, TypeOK, Swept, sweep
  <2> QED BY <2>5, <2>6 DEF Types
<1>2. CASE TakeMaster(p)
  <2>1. /\ pc' = [pc EXCEPT ![p] = "sleep"] /\ lock' = None
        /\ known' \subseteq Pod /\ rec' \in {"none", "fresh", "stale"} /\ missed' \in 0..2
        /\ master' \in [Pod -> BOOLEAN]
        /\ UNCHANGED <<data, sweep, world, crashes, faults>>
        /\ pc[p] \in {"first", "take"}
    <3>1. master' = master \/ master' = [master EXCEPT ![p] = TRUE]
      BY <1>2 DEF TakeMaster
    <3>2. master' \in [Pod -> BOOLEAN]
      BY <3>1 DEF Types, TypeOK
    <3>3. \/ UNCHANGED <<rec, known, missed>>
          \/ rec' = "fresh" /\ missed' = 0 /\ known' \subseteq Pod
      BY <1>2 DEF TakeMaster, Stamp
    <3>4. known' \subseteq Pod /\ rec' \in {"none", "fresh", "stale"} /\ missed' \in 0..2
      BY <3>3 DEF Types, TypeOK
    <3> QED BY <1>2, <3>2, <3>4 DEF TakeMaster, Goto
  <2>2. errs' \in 0..MaxErr
    BY <1>2, CountType DEF TakeMaster, Types
  <2>3. \A q \in Pod : q # p => pc[q] \notin {"first", "take"}
    BY <2>1 DEF Types, TypeOK
  <2>4. \A q \in Pod : pc'[q] \in {"first", "take"} => lock' = q
    BY <2>1, <2>3 DEF Types, TypeOK
  <2>5. pc' \in [Pod -> {"sleep", "first", "take", "refresh", "query"}]
    BY <2>1 DEF Types, TypeOK
  <2>6. TypeOK'
    BY <2>1, <2>2, <2>4, <2>5 DEF Types, TypeOK, data, sweep, world
  <2>7. Swept'
    BY <2>1 DEF Types, TypeOK, Swept, sweep
  <2> QED BY <2>6, <2>7 DEF Types
<1>3. CASE KeepAlive(p)
  <2>1. /\ known' \subseteq Pod /\ rec' \in {"none", "fresh", "stale"} /\ missed' \in 0..2
        /\ master' \in [Pod -> BOOLEAN]
        /\ UNCHANGED <<lock, pc, data, sweep, world, crashes, faults>>
    <3>1. master' = master \/ master' = [master EXCEPT ![p] = FALSE]
      BY <1>3 DEF KeepAlive
    <3>2. master' \in [Pod -> BOOLEAN]
      BY <3>1 DEF Types, TypeOK
    <3>3. \/ UNCHANGED <<rec, known, missed>>
          \/ rec' = "fresh" /\ missed' = 0 /\ known' \subseteq Pod
          \/ missed' = (IF missed = 2 THEN 2 ELSE missed + 1) /\ UNCHANGED <<rec, known>>
      BY <1>3 DEF KeepAlive, Stamp
    <3>4. known' \subseteq Pod /\ rec' \in {"none", "fresh", "stale"} /\ missed' \in 0..2
      BY <3>3 DEF Types, TypeOK
    <3> QED BY <1>3, <3>2, <3>4 DEF KeepAlive
  <2>2. errs' \in 0..MaxErr
    BY <1>3, CountType DEF KeepAlive, Types
  <2>3. TypeOK'
    BY <2>1, <2>2 DEF Types, TypeOK, data, sweep, world
  <2>4. Swept'
    BY <2>1 DEF Types, Swept, sweep
  <2> QED BY <2>3, <2>4 DEF Types
<1> QED BY <1>1, <1>2, <1>3

\* What a sweep of p writes: the map, etcd and the history of writes.
LEMMA WriteTypes ==
    ASSUME TypeOK, NEW p \in Pod, NEW c \in Comp, NEW v \in Stored \cup {None}, Write(p, c, v)
    PROVE  /\ db' \in [Comp -> Stored \cup {None}] /\ writer' \in [Comp -> Pod \cup {None}]
           /\ errs' \in 0..MaxErr
<1>1. errs' \in 0..MaxErr
  BY CountType DEF Write
<1> QED BY <1>1 DEF Write, TypeOK

LEMMA UpdateTypes ==
    ASSUME TypeOK, NEW p \in Pod, NEW c \in Comp, NEW e \in Entry, UpdateHWState(p, c, e)
    PROVE  /\ map' \in [Pod -> [Comp -> Entry \cup {None}]]
           /\ db' \in [Comp -> Stored \cup {None}] /\ writer' \in [Comp -> Pod \cup {None}]
           /\ errs' \in 0..MaxErr
<1>1. map' \in [Pod -> [Comp -> Entry \cup {None}]]
  BY DEF UpdateHWState, TypeOK
<1>2. [st |-> e.st, acts |-> e.acts] \in Stored
  BY DEF Entry, Stored
<1>3. CASE Write(p, c, [st |-> e.st, acts |-> e.acts])
  BY <1>1, <1>2, <1>3, WriteTypes
<1>4. CASE NoError /\ UNCHANGED data
  BY <1>1, <1>4, CountType DEF TypeOK, data
<1> QED BY <1>3, <1>4 DEF UpdateHWState

\* One component of updateComponentMap's loop.
LEMMA RefreshOneTypes ==
    ASSUME TypeOK, NEW p \in Pod, NEW c \in Comp,
           RefreshGone(p, c) \/ RefreshNew(p, c) \/ RefreshBMC(p, c) \/ RefreshKept(p, c)
    PROVE  /\ map' \in [Pod -> [Comp -> Entry \cup {None}]]
           /\ db' \in [Comp -> Stored \cup {None}] /\ writer' \in [Comp -> Pod \cup {None}]
           /\ errs' \in 0..MaxErr
           /\ \A q \in Pod : q # p => map'[q] = map[q]
<1>1. CASE RefreshGone(p, c)
  <2>1. map' = [map EXCEPT ![p][c] = None] /\ Write(p, c, None)
    BY <1>1 DEF RefreshGone
  <2> QED BY <2>1, WriteTypes DEF TypeOK
<1>2. CASE RefreshNew(p, c)
  <2>1. NewEntry(hsm[p][c]) \in Entry
    BY DEF NewEntry, Entry, State
  <2>2. map' = [map EXCEPT ![p][c] = NewEntry(hsm[p][c])] /\ NoError /\ UNCHANGED data
    BY <1>2 DEF RefreshNew
  <2> QED BY <2>1, <2>2, CountType DEF TypeOK, data
<1>3. CASE RefreshBMC(p, c)
  <2> DEFINE e == [map[p][c] EXCEPT !.acts = TRUE, !.st = "forced"]
  <2>1. map[p][c] \in Entry
    BY <1>3 DEF RefreshBMC, ActionsAppear, TypeOK
  <2>2. e \in Entry
    BY <2>1 DEF Entry, State
  <2>3. UpdateHWState(p, c, e)
    BY <1>3 DEF RefreshBMC
  <2> HIDE DEF e
  <2>4. map' = [map EXCEPT ![p][c] = e]
    BY <2>3 DEF UpdateHWState
  <2> QED BY <2>2, <2>3, <2>4, UpdateTypes DEF TypeOK
<1>4. CASE RefreshKept(p, c)
  BY <1>4, CountType DEF RefreshKept, TypeOK, data
<1> QED BY <1>1, <1>2, <1>3, <1>4

LEMMA RefreshTypes ==
    ASSUME Types, NEW p \in Pod, NEW c \in Comp, Refresh(p, c)
    PROVE  Types'
<1>1. /\ map' \in [Pod -> [Comp -> Entry \cup {None}]]
      /\ db' \in [Comp -> Stored \cup {None}] /\ writer' \in [Comp -> Pod \cup {None}]
      /\ errs' \in 0..MaxErr
      /\ \A q \in Pod : q # p => map'[q] = map[q]
  BY RefreshOneTypes DEF Refresh, Types
<1>2. /\ pc[p] = "refresh" /\ todo' = [todo EXCEPT ![p] = @ \ {c}]
      /\ UNCHANGED <<etcd, master, pc, hsm, rsp, world, crashes, faults>>
  BY DEF Refresh
<1>3. rsp[p] = Silent
  BY <1>2 DEF Types, Swept
<1>4. ASSUME NEW q \in Pod, NEW d \in Comp, rsp'[q][d] # None
      PROVE  map'[q][d] # None
  <2>1. rsp[q][d] # None
    BY <1>2, <1>4
  <2>2. q # p
    BY <1>3, <2>1 DEF Silent
  <2> QED BY <1>1, <2>1, <2>2 DEF Types, TypeOK
<1>5. todo' \in [Pod -> SUBSET Comp]
  BY <1>2 DEF Types, TypeOK
<1>6. TypeOK'
  BY <1>1, <1>2, <1>4, <1>5 DEF Types, TypeOK, etcd, world
<1>7. Swept'
  BY <1>1, <1>2 DEF Types, TypeOK, Swept
<1> QED BY <1>6, <1>7 DEF Types

LEMMA FetchHSMTypes ==
    ASSUME Types, NEW p \in Pod, FetchHSM(p)
    PROVE  Types'
<1>1. hsm' \in [Pod -> [Comp -> Listing]]
  <2>1. CASE hsm' = [hsm EXCEPT ![p] = inv]
    BY <2>1 DEF Types, TypeOK
  <2>2. CASE \E B \in SUBSET Comp \ {{}} : hsm' = [hsm EXCEPT ![p] = Undiscovered(inv, B)]
    <3>1. PICK B : hsm' = [hsm EXCEPT ![p] = Undiscovered(inv, B)]
      BY <2>2
    <3>2. Undiscovered(inv, B) \in [Comp -> Listing]
      BY DEF Undiscovered, Listing, Types, TypeOK
    <3> QED BY <3>1, <3>2 DEF Types, TypeOK
  <2> QED BY <2>1, <2>2 DEF FetchHSM
<1>2. faults' \in 0..MaxFault
  BY FaultType DEF FetchHSM, Types
<1>3. /\ pc[p] = "sleep" /\ pc' = [pc EXCEPT ![p] = "refresh"]
      /\ UNCHANGED <<etcd, data, master, map, rsp, world, crashes, errs>>
      /\ todo' = [todo EXCEPT ![p] = {c \in Comp : map[p][c] # None
                                                    \/ hsm'[p][c] \notin {"absent", "empty"}}]
  BY DEF FetchHSM, Goto
<1>4. /\ pc' \in [Pod -> {"sleep", "first", "take", "refresh", "query"}]
      /\ \A q \in Pod : pc'[q] \in {"first", "take"} => lock' = q
  BY <1>3 DEF Types, TypeOK, etcd
<1>5. todo' \in [Pod -> SUBSET Comp]
  BY <1>3 DEF Types, TypeOK
<1>6. TypeOK'
  BY <1>1, <1>2, <1>3, <1>4, <1>5 DEF Types, TypeOK, etcd, data, world
<1>7. Swept'
  BY <1>3 DEF Types, TypeOK, Swept
<1> QED BY <1>6, <1>7 DEF Types

LEMMA LaunchQueriesTypes ==
    ASSUME Types, NEW p \in Pod, LaunchQueries(p)
    PROVE  Types'
<1>1. hsm' \in [Pod -> [Comp -> Listing]]
  BY DEF LaunchQueries, Types, TypeOK, Unlisted, Listing
<1>2. faults' \in 0..MaxFault
  BY FaultType DEF LaunchQueries, Types
<1>3. /\ pc[p] = "refresh"
      /\ UNCHANGED <<etcd, data, master, map, rsp, world, crashes, errs>>
      /\ \/ pc' = [pc EXCEPT ![p] = "query"] /\ todo' = [todo EXCEPT ![p] = Queried(p)]
         \/ pc' = [pc EXCEPT ![p] = "sleep"] /\ UNCHANGED todo
  BY DEF LaunchQueries, Goto
<1>4. /\ pc' \in [Pod -> {"sleep", "first", "take", "refresh", "query"}]
      /\ \A q \in Pod : pc'[q] \in {"first", "take"} => lock' = q
  BY <1>3 DEF Types, TypeOK, etcd
<1>5. todo' \in [Pod -> SUBSET Comp]
  <2>1. Queried(p) \in SUBSET Comp
    BY DEF Queried
  <2> QED BY <1>3, <2>1 DEF Types, TypeOK
<1>6. TypeOK'
  BY <1>1, <1>2, <1>3, <1>4, <1>5 DEF Types, TypeOK, etcd, data, world
<1>7. Swept'
  BY <1>3 DEF Types, TypeOK, Swept, Queried
<1> QED BY <1>6, <1>7 DEF Types

LEMMA AnswerTypes ==
    ASSUME Types, NEW p \in Pod, NEW c \in Comp, Answer(p, c)
    PROVE  Types'
<1>1. /\ pc[p] = "query" /\ c \in todo[p] /\ todo' = [todo EXCEPT ![p] = @ \ {c}]
      /\ UNCHANGED <<etcd, data, master, pc, map, hsm, world, crashes, errs>>
      /\ rsp' = [rsp EXCEPT ![p][c] = hw[c]] \/ rsp' = [rsp EXCEPT ![p][c] = "unavailable"]
  BY DEF Answer
<1>2. faults' \in 0..MaxFault
  BY FaultType DEF Answer, Types
<1> PICK v \in State : rsp' = [rsp EXCEPT ![p][c] = v]
  <2>1. hw[c] \in State /\ "unavailable" \in State
    BY DEF Types, TypeOK, State
  <2> QED BY <1>1, <2>1
<1>3. rsp' \in [Pod -> [Comp -> State \cup {None}]] /\ todo' \in [Pod -> SUBSET Comp]
  <2>1. rsp' \in [Pod -> [Comp -> State \cup {None}]]
    BY DEF Types, TypeOK
  <2>2. todo' \in [Pod -> SUBSET Comp]
    BY <1>1 DEF Types, TypeOK
  <2> QED BY <2>1, <2>2
<1>4. map[p][c] # None
  BY <1>1 DEF Types, Swept
<1>5. ASSUME NEW q \in Pod, NEW d \in Comp, rsp'[q][d] # None
      PROVE  map'[q][d] # None
  <2>1. CASE q = p /\ d = c
    BY <1>1, <1>4, <2>1
  <2>2. CASE ~(q = p /\ d = c)
    <3>1. rsp'[q][d] = rsp[q][d]
      BY <2>2 DEF Types, TypeOK
    <3> QED BY <1>1, <1>5, <3>1 DEF Types, TypeOK
  <2> QED BY <2>1, <2>2
<1>6. TypeOK'
  BY <1>1, <1>2, <1>3, <1>5 DEF Types, TypeOK, etcd, data, world
<1>7. Swept'
  BY <1>1 DEF Types, TypeOK, Swept
<1> QED BY <1>6, <1>7 DEF Types

LEMMA ApplyTypes ==
    ASSUME Types, NEW p \in Pod, NEW c \in Comp, Apply(p, c)
    PROVE  Types'
<1> DEFINE e == [map[p][c] EXCEPT !.st = rsp[p][c]]
<1>1. /\ pc[p] = "query" /\ todo[p] = {} /\ rsp[p][c] # None
      /\ rsp' = [rsp EXCEPT ![p][c] = None]
      /\ UNCHANGED <<etcd, master, pc, hsm, todo, world, crashes, faults>>
      /\ UpdateHWState(p, c, e)
  BY DEF Apply
<1>2. e \in Entry
  <2>1. map[p][c] \in Entry /\ rsp[p][c] \in State
    BY <1>1 DEF Types, TypeOK
  <2> QED BY <2>1 DEF Entry
<1> HIDE DEF e
<1>3. /\ map' \in [Pod -> [Comp -> Entry \cup {None}]]
      /\ db' \in [Comp -> Stored \cup {None}] /\ writer' \in [Comp -> Pod \cup {None}]
      /\ errs' \in 0..MaxErr
  BY <1>1, <1>2, UpdateTypes DEF Types
<1>4. map' = [map EXCEPT ![p][c] = e]
  BY <1>1 DEF UpdateHWState
<1>5. rsp' \in [Pod -> [Comp -> State \cup {None}]]
  BY <1>1 DEF Types, TypeOK
<1>6. \A q \in Pod, d \in Comp : rsp'[q][d] # None => map'[q][d] # None
  BY <1>1, <1>4 DEF Types, TypeOK
<1>7. TypeOK'
  BY <1>1, <1>3, <1>5, <1>6 DEF Types, TypeOK, etcd, world
<1>8. Swept'
  BY <1>1, <1>4 DEF Types, TypeOK, Swept
<1> QED BY <1>7, <1>8 DEF Types

LEMMA EndSweepTypes ==
    ASSUME Types, NEW p \in Pod, EndSweep(p)
    PROVE  Types'
<1>1. /\ pc[p] = "query" /\ rsp[p] = Silent /\ pc' = [pc EXCEPT ![p] = "sleep"]
      /\ UNCHANGED <<etcd, data, master, sweep, world, crashes, errs, faults>>
  BY DEF EndSweep, Goto
<1>2. /\ pc' \in [Pod -> {"sleep", "first", "take", "refresh", "query"}]
      /\ \A q \in Pod : pc'[q] \in {"first", "take"} => lock' = q
  BY <1>1 DEF Types, TypeOK, etcd
<1>3. TypeOK'
  BY <1>1, <1>2 DEF Types, TypeOK, etcd, data, sweep, world
<1>4. Swept'
  BY <1>1 DEF Types, TypeOK, Swept, sweep
<1> QED BY <1>3, <1>4 DEF Types

LEMMA CrashTypes ==
    ASSUME Types, NEW p \in Pod, Crash(p)
    PROVE  Types'
<1>1. /\ pc' = [pc EXCEPT ![p] = "sleep"]
      /\ map' = [map EXCEPT ![p] = [c \in Comp |-> None]]
      /\ todo' = [todo EXCEPT ![p] = {}] /\ rsp' = [rsp EXCEPT ![p] = Silent]
      /\ lock' = IF lock = p THEN None ELSE lock
      /\ UNCHANGED <<rec, missed, data, world, errs, faults>>
  BY DEF Crash, Goto
<1>2. master' \in [Pod -> BOOLEAN] /\ known' \subseteq Pod
  BY DEF Crash, Types, TypeOK
<1>3. hsm' \in [Pod -> [Comp -> Listing]]
  BY DEF Crash, Types, TypeOK, Unlisted, Listing
<1>4. crashes' \in 0..MaxCrash
  BY StatusAssumption DEF Crash, Types, TypeOK
<1>5. /\ pc' \in [Pod -> {"sleep", "first", "take", "refresh", "query"}]
      /\ lock' \in Pod \cup {None}
      /\ \A q \in Pod : pc'[q] \in {"first", "take"} => lock' = q
  BY <1>1 DEF Types, TypeOK
<1>6. /\ map' \in [Pod -> [Comp -> Entry \cup {None}]]
      /\ todo' \in [Pod -> SUBSET Comp]
      /\ rsp' \in [Pod -> [Comp -> State \cup {None}]]
      /\ \A q \in Pod, d \in Comp : rsp'[q][d] # None => map'[q][d] # None
  BY <1>1 DEF Types, TypeOK, Silent
<1>7. TypeOK'
  BY <1>1, <1>2, <1>3, <1>4, <1>5, <1>6 DEF Types, TypeOK, data, world
<1>8. Swept'
  BY <1>1 DEF Types, TypeOK, Swept
<1> QED BY <1>7, <1>8 DEF Types

\* Time, hardware and inventory.
LEMMA WorldTypes ==
    ASSUME Types, Lapse \/ HWChanges \/ InvChanges
    PROVE  Types'
<1>1. CASE Lapse
  BY <1>1 DEF Lapse, Types, TypeOK, Swept, data, sweep, world
<1>2. CASE HWChanges
  <2>1. PICK c \in Comp : \E r \in site[c].read : hw' = [hw EXCEPT ![c] = r]
    BY <1>2 DEF HWChanges
  <2>2. site[c].read \subseteq State
    BY StatusAssumption DEF Types, TypeOK
  <2>3. hw' \in [Comp -> State]
    BY <2>1, <2>2 DEF Types, TypeOK
  <2>4. hwChanges' \in 0..MaxHW
    BY <1>2, StatusAssumption DEF HWChanges, Types, TypeOK
  <2>5. UNCHANGED <<etcd, data, master, pc, sweep, site, inv, invChanges, crashes, errs, faults>>
    BY <1>2 DEF HWChanges
  <2> QED BY <2>3, <2>4, <2>5 DEF Types, TypeOK, Swept, etcd, data, sweep
<1>3. CASE InvChanges
  <2>1. PICK c \in Comp : \E l \in site[c].list : inv' = [inv EXCEPT ![c] = l]
    BY <1>3 DEF InvChanges
  <2>2. site[c].list \subseteq Listing
    BY StatusAssumption DEF Types, TypeOK
  <2>3. inv' \in [Comp -> Listing]
    BY <2>1, <2>2 DEF Types, TypeOK
  <2>4. invChanges' \in 0..MaxInv
    BY <1>3, StatusAssumption DEF InvChanges, Types, TypeOK
  <2>5. UNCHANGED <<etcd, data, master, pc, sweep, site, hw, hwChanges, crashes, errs, faults>>
    BY <1>3 DEF InvChanges
  <2> QED BY <2>3, <2>4, <2>5 DEF Types, TypeOK, Swept, etcd, data, sweep
<1> QED BY <1>1, <1>2, <1>3

LEMMA InitTypes ==
    ASSUME Init
    PROVE  Types
<1>1. TypeOK
  BY StatusAssumption DEF Init, TypeOK, Unlisted, Silent, Listing
<1>2. Swept
  BY DEF Init, Swept
<1> QED BY <1>1, <1>2 DEF Types

LEMMA NextTypes ==
    ASSUME Types, [Next]_vars
    PROVE  Types'
<1>1. CASE \E p \in Pod : Monitor(p) \/ KeepAlive(p) \/ Crash(p)
  BY <1>1, ElectionTypes, FetchHSMTypes, LaunchQueriesTypes, EndSweepTypes, RefreshTypes,
     AnswerTypes, ApplyTypes, CrashTypes DEF Monitor
<1>2. CASE Lapse \/ HWChanges \/ InvChanges
  BY <1>2, WorldTypes
<1>3. CASE UNCHANGED vars
  BY <1>3 DEF vars, Types, TypeOK, Swept, etcd, data, sweep, world
<1> QED BY <1>1, <1>2, <1>3 DEF Next

\* Every reachable state is well formed; in particular a pod takes part in the
\* election (getPowerStatusMaster) only while it holds the distributed lock,
\* and no answer is kept for a component that has left the pod's map.
THEOREM TypeCorrect == Spec => []TypeOK
<1>1. Spec => []Types
  BY InitTypes, NextTypes, PTL DEF Spec
<1>2. Types => TypeOK
  BY DEF Types
<1> QED BY <1>1, <1>2, PTL

-----------------------------------------------------------------------------
(* The election *)

LEMMA InitElection ==
    ASSUME Init
    PROVE  Election
BY DEF Init, Election, Candidates, Missed, FirstEver, Deserted, Informed, Alone

LEMMA ErrsGrow ==
    ASSUME Types, Error \/ NoError
    PROVE  errs \in Nat /\ errs' \in Nat /\ errs <= errs'
BY StatusAssumption DEF Types, TypeOK, Error, NoError

\* Sweeps leave the election alone.
LEMMA ElectionKept ==
    ASSUME Types, Election, UNCHANGED <<rec, known, missed, master>>, Error \/ NoError,
           \A q \in Pod : pc'[q] \in {"first", "take"} => pc'[q] = pc[q]
    PROVE  Election'
<1>1. errs \in Nat /\ errs' \in Nat /\ errs <= errs' /\ missed \in Nat
  BY ErrsGrow DEF Types, TypeOK
<1>2. Candidates' /\ FirstEver'
  BY DEF Election, Candidates, FirstEver
<1>3. Missed' /\ Deserted' /\ Alone'
  BY <1>1 DEF Election, Missed, Deserted, Alone
<1>4. Informed'
  BY DEF Election, Informed
<1> QED BY <1>2, <1>3, <1>4 DEF Election

LEMMA SweepElection ==
    ASSUME Types, Election, NEW p \in Pod,
           \/ FetchHSM(p) \/ LaunchQueries(p) \/ EndSweep(p)
           \/ \E c \in Comp : Refresh(p, c) \/ Answer(p, c) \/ Apply(p, c)
    PROVE  Election'
<1>1. UNCHANGED <<rec, known, missed, master>>
  BY DEF FetchHSM, LaunchQueries, EndSweep, Refresh, Answer, Apply, etcd
<1>2. Error \/ NoError
  BY DEF FetchHSM, LaunchQueries, EndSweep, Refresh, Answer, Apply, NoError, Write,
         RefreshGone, RefreshNew, RefreshBMC, RefreshKept, UpdateHWState
<1>3. \/ UNCHANGED pc \/ pc' = [pc EXCEPT ![p] = "refresh"]
      \/ pc' = [pc EXCEPT ![p] = "query"] \/ pc' = [pc EXCEPT ![p] = "sleep"]
  BY DEF FetchHSM, LaunchQueries, EndSweep, Refresh, Answer, Apply, Goto
<1>4. \A q \in Pod : pc'[q] \in {"first", "take"} => pc'[q] = pc[q]
  BY <1>3 DEF Types, TypeOK
<1> QED BY <1>1, <1>2, <1>4, ElectionKept

LEMMA GetMasterElection ==
    ASSUME Types, Election, NEW p \in Pod, GetMaster(p)
    PROVE  Election'
<1>1. /\ UNCHANGED <<rec, missed, master, errs>>
      /\ ~master[p] /\ pc[p] = "sleep"
      /\ \/ rec = "none" /\ pc' = [pc EXCEPT ![p] = "first"] /\ UNCHANGED known
         \/ rec = "stale" /\ pc' = [pc EXCEPT ![p] = "take"] /\ known' = known \cup {p}
  BY DEF GetMaster, Campaign, Goto
<1>2. \A q \in Pod : q # p => pc'[q] = pc[q]
  BY <1>1 DEF Types, TypeOK
<1>3. Candidates'
  BY <1>1, <1>2 DEF Election, Candidates
<1>4. FirstEver'
  <2>1. ASSUME NEW q \in Pod, pc'[q] = "first" PROVE rec' = "none"
    BY <1>1, <1>2, <2>1 DEF Election, FirstEver, Types, TypeOK
  <2> QED BY <1>1, <2>1 DEF Election, FirstEver
<1>5. Missed' /\ Deserted' /\ Alone'
  BY <1>1 DEF Election, Missed, Deserted, Alone
<1>6. Informed'
  BY <1>1 DEF Election, Informed
<1> QED BY <1>3, <1>4, <1>5, <1>6 DEF Election

\* A pod that may store the time stamp after having seen none or an old one.
LEMMA NoMasterLeft ==
    ASSUME Types, Election, NEW p \in Pod, errs < 2,
           pc[p] = "first" \/ (pc[p] = "take" /\ p \in known)
    PROVE  \A q \in Pod : ~master[q]
BY DEF Election, Candidates, FirstEver, Deserted, Informed

LEMMA TakeMasterElection ==
    ASSUME Types, Election, NEW p \in Pod, TakeMaster(p)
    PROVE  Election'
<1>1. /\ pc[p] \in {"first", "take"} /\ pc' = [pc EXCEPT ![p] = "sleep"]
      /\ Error \/ NoError
  BY DEF TakeMaster, Goto
<1>2. errs \in Nat /\ errs' \in Nat /\ errs <= errs'
  BY <1>1, ErrsGrow
<1>3. \A q \in Pod : pc'[q] \notin {"first", "take"}
  BY <1>1 DEF Types, TypeOK
<1>4. CASE UNCHANGED <<rec, known, missed, master>>
  BY <1>1, <1>3, <1>4, ElectionKept
<1>5. CASE /\ pc[p] = "first" \/ p \in known
           /\ Stamp(p) /\ master' = [master EXCEPT ![p] = TRUE]
  <2>1. rec' = "fresh" /\ missed' = 0 /\ known' = {p}
    BY <1>5, StatusAssumption DEF Stamp
  <2>2. \A q \in Pod : q # p => master'[q] = master[q]
    BY <1>5 DEF Types, TypeOK
  <2>3. master'[p]
    BY <1>5 DEF Types, TypeOK
  <2>4. Alone'
    <3>1. SUFFICES ASSUME errs' < 2 PROVE \A q \in Pod : master'[q] => q = p
      BY DEF Alone
    <3>2. \A q \in Pod : ~master[q]
      BY <1>1, <1>2, <1>5, <3>1, NoMasterLeft
    <3> QED BY <2>2, <3>2
  <2>5. Candidates' /\ FirstEver'
    BY <1>3, <2>1 DEF Candidates, FirstEver
  <2>6. Missed' /\ Deserted'
    BY <1>2, <2>1 DEF Missed, Deserted
  <2>7. Informed'
    BY <2>1, <2>3 DEF Informed
  <2> QED BY <2>4, <2>5, <2>6, <2>7 DEF Election
<1>6. CASE Stamp(None) /\ UNCHANGED master
  <2>1. rec' = "fresh" /\ missed' = 0 /\ known' = {}
    BY <1>6 DEF Stamp
  <2>2. Alone'
    BY <1>2, <1>6 DEF Election, Alone
  <2>3. Candidates' /\ FirstEver'
    BY <1>3, <2>1 DEF Candidates, FirstEver
  <2>4. Missed' /\ Deserted' /\ Informed'
    BY <1>2, <2>1 DEF Missed, Deserted, Informed
  <2> QED BY <2>2, <2>3, <2>4 DEF Election
<1> QED BY <1>4, <1>5, <1>6 DEF TakeMaster

LEMMA KeepAliveElection ==
    ASSUME Types, Election, NEW p \in Pod, KeepAlive(p)
    PROVE  Election'
<1>1. master[p] /\ UNCHANGED pc /\ (Error \/ NoError)
  BY DEF KeepAlive
<1>2. errs \in Nat /\ errs' \in Nat /\ errs <= errs' /\ missed \in Nat
  BY <1>1, ErrsGrow DEF Types, TypeOK
<1>3. \A q \in Pod : pc'[q] # "first"
  BY <1>1 DEF Election, FirstEver
<1>4. rec # "none" /\ (errs < 2 => rec # "stale")
  BY <1>1 DEF Election, FirstEver, Deserted
<1>5. CASE NoError /\ p \in known /\ Stamp(p) /\ UNCHANGED master
  <2>1. rec' = "fresh" /\ missed' = 0 /\ known' = {p}
    BY <1>5, StatusAssumption DEF Stamp
  <2>2. Candidates' /\ FirstEver'
    BY <1>1, <1>3, <1>5, <2>1 DEF Election, Candidates, FirstEver
  <2>3. Missed' /\ Deserted' /\ Alone'
    BY <1>2, <1>5, <2>1 DEF Election, Missed, Deserted, Alone
  <2>4. Informed'
    BY <1>1, <1>5, <2>1 DEF Informed
  <2> QED BY <2>2, <2>3, <2>4 DEF Election
<1>6. CASE /\ NoError /\ p \notin known
           /\ master' = [master EXCEPT ![p] = FALSE] /\ UNCHANGED <<rec, known, missed>>
  <2>1. /\ \A q \in Pod : q # p => master'[q] = master[q]
        /\ ~master'[p]
    BY <1>6 DEF Types, TypeOK
  <2>2. Candidates' /\ FirstEver'
    BY <1>1, <1>3, <1>6, <2>1 DEF Election, Candidates, FirstEver
  <2>3. Missed' /\ Deserted' /\ Alone'
    BY <1>6, <2>1 DEF Election, Missed, Deserted, Alone, NoError
  <2>4. Informed'
    BY <1>6, <2>1 DEF Election, Informed
  <2> QED BY <2>2, <2>3, <2>4 DEF Election
<1>7. CASE /\ Error /\ UNCHANGED master
           /\ missed' = (IF missed = 2 THEN 2 ELSE missed + 1) /\ UNCHANGED <<rec, known>>
  <2>1. errs' = errs + 1
    BY <1>7 DEF Error
  <2>2. Candidates' /\ FirstEver' /\ Informed'
    BY <1>1, <1>7 DEF Election, Candidates, FirstEver, Informed
  <2>3. Missed' /\ Deserted' /\ Alone'
    BY <1>2, <1>7, <2>1 DEF Election, Missed, Deserted, Alone
  <2> QED BY <2>2, <2>3 DEF Election
<1>8. CASE Stamp(None) /\ UNCHANGED master
  <2>1. rec' = "fresh" /\ missed' = 0 /\ known' = {}
    BY <1>8 DEF Stamp
  <2>2. Candidates' /\ FirstEver'
    BY <1>1, <1>3, <1>8, <2>1 DEF Election, Candidates, FirstEver
  <2>3. Missed' /\ Deserted' /\ Alone' /\ Informed'
    BY <1>2, <1>8, <2>1 DEF Election, Missed, Deserted, Alone, Informed
  <2> QED BY <2>2, <2>3 DEF Election
<1> QED BY <1>5, <1>6, <1>7, <1>8 DEF KeepAlive

LEMMA LapseElection ==
    ASSUME Types, Election, Lapse
    PROVE  Election'
<1>1. /\ rec = "fresh" /\ rec' = "stale" /\ UNCHANGED <<known, missed, master, pc, errs>>
      /\ \A p \in Pod : master[p] => missed = 2
  BY DEF Lapse
<1>2. Candidates' /\ FirstEver' /\ Informed'
  BY <1>1 DEF Election, Candidates, FirstEver, Informed
<1>3. Missed' /\ Alone'
  BY <1>1 DEF Election, Missed, Alone
<1>4. Deserted'
  <2>1. errs \in Nat /\ missed <= errs
    BY StatusAssumption DEF Types, TypeOK, Election, Missed
  <2> QED BY <1>1, <2>1 DEF Deserted
<1> QED BY <1>2, <1>3, <1>4 DEF Election

LEMMA CrashElection ==
    ASSUME Types, Election, NEW p \in Pod, Crash(p)
    PROVE  Election'
<1>1. /\ known' = known \ {p} /\ pc' = [pc EXCEPT ![p] = "sleep"]
      /\ master' = [master EXCEPT ![p] = FALSE] /\ UNCHANGED <<rec, missed, errs>>
  BY DEF Crash, Goto
<1>2. /\ \A q \in Pod : q # p => master'[q] = master[q] /\ pc'[q] = pc[q]
      /\ ~master'[p] /\ pc'[p] = "sleep"
  BY <1>1 DEF Types, TypeOK
<1>3. Candidates' /\ FirstEver'
  BY <1>1, <1>2 DEF Election, Candidates, FirstEver
<1>4. Missed' /\ Deserted' /\ Alone'
  BY <1>1, <1>2 DEF Election, Missed, Deserted, Alone
<1>5. Informed'
  BY <1>1, <1>2 DEF Election, Informed
<1> QED BY <1>3, <1>4, <1>5 DEF Election

LEMMA NextElection ==
    ASSUME Types, Election, [Next]_vars
    PROVE  Election'
<1>1. CASE \E p \in Pod : Monitor(p) \/ KeepAlive(p) \/ Crash(p)
  BY <1>1, SweepElection, GetMasterElection, TakeMasterElection, KeepAliveElection,
     CrashElection DEF Monitor
<1>2. CASE Lapse
  BY <1>2, LapseElection
<1>3. CASE HWChanges \/ InvChanges \/ UNCHANGED vars
  <2>1. UNCHANGED <<rec, known, missed, master, pc, errs>>
    BY <1>3 DEF HWChanges, InvChanges, vars, etcd
  <2> QED BY <2>1, ElectionKept DEF NoError
<1> QED BY <1>1, <1>2, <1>3 DEF Next

\* As long as at most one etcd operation has failed, no two pods are power
\* status master at the same time, for any number of pods: whatever the order
\* of elections, refreshes, expiries and crashes (getPowerStatusMaster and the
\* keep-alive goroutine of startPowerStatusMaster).
THEOREM SingleMaster == Spec => []OneMaster
<1>1. Spec => [](Types /\ Election)
  <2>1. Init => Types /\ Election
    BY InitTypes, InitElection
  <2>2. Types /\ Election /\ [Next]_vars => (Types /\ Election)'
    BY NextTypes, NextElection
  <2> QED BY <2>1, <2>2, PTL DEF Spec
<1>2. Types /\ Election => OneMaster
  <2>1. SUFFICES ASSUME Election, errs < 2 PROVE Cardinality(Masters) <= 1
    BY DEF OneMaster
  <2>2. \A p, q \in Pod : master[p] /\ master[q] => p = q
    BY <2>1 DEF Election, Alone
  <2>3. CASE Masters = {}
    BY <2>3, FS_EmptySet
  <2>4. CASE \E p \in Pod : master[p]
    <3>1. PICK p \in Pod : master[p]
      BY <2>4
    <3>2. Masters = {p}
      BY <2>2, <3>1 DEF Masters
    <3> QED BY <3>2, FS_Singleton
  <2> QED BY <2>3, <2>4 DEF Masters
<1> QED BY <1>1, <1>2, PTL

-----------------------------------------------------------------------------
(* The map and etcd *)

LEMMA InitMirror ==
    ASSUME Init
    PROVE  Mirror
<1>1. Reported /\ Forced
  BY DEF Init, Reported, Forced, Silent
<1>2. Kept /\ Sweeper /\ MapStored
  BY DEF Init, Kept, Sweeper, MapStored, Masters
<1> QED BY <1>1, <1>2 DEF Mirror

\* Steps that touch neither maps nor etcd.
LEMMA MirrorFrame ==
    ASSUME Types, Mirror, UNCHANGED <<map, db, hw, site, rsp>>, Kept', Sweeper',
           Error \/ NoError,
           errs' = 0 => \A q \in Pod : master'[q] => master[q] \/ \A c \in Comp : map[q][c] = None
    PROVE  Mirror'
<1>1. Reported' /\ Forced'
  BY DEF Mirror, Reported, Forced
<1>2. errs' = 0 => errs = 0
  BY ErrsGrow
<1>3. MapStored'
  <2>1. SUFFICES ASSUME errs' = 0, NEW q \in Pod, master'[q], NEW c \in Comp,
                        map[q][c] # None, map[q][c].st # "unavailable"
                 PROVE  db[c] = [st |-> map[q][c].st, acts |-> map[q][c].acts]
    BY DEF MapStored, Masters
  <2> QED BY <1>2, <2>1 DEF Mirror, MapStored, Masters
<1> QED BY <1>1, <1>3 DEF Mirror

LEMMA GetMasterMirror ==
    ASSUME Types, Mirror, NEW p \in Pod, GetMaster(p)
    PROVE  Mirror'
<1>1. /\ UNCHANGED <<map, db, hw, site, rsp, master, errs>> /\ known \subseteq known'
      /\ pc' = [pc EXCEPT ![p] = "first"] \/ pc' = [pc EXCEPT ![p] = "take"]
  BY DEF GetMaster, Campaign, Goto, data, sweep, world
<1>2. Kept'
  BY <1>1 DEF Mirror, Kept
<1>3. \A q \in Pod : pc'[q] \in {"refresh", "query"} => pc'[q] = pc[q]
  BY <1>1 DEF Types, TypeOK
<1>4. Sweeper'
  BY <1>1, <1>3 DEF Mirror, Sweeper
<1> QED BY <1>1, <1>2, <1>4, MirrorFrame DEF NoError

LEMMA TakeMasterMirror ==
    ASSUME Types, Election, Mirror, NEW p \in Pod, TakeMaster(p)
    PROVE  Mirror'
<1>1. /\ UNCHANGED <<map, db, hw, site, rsp>> /\ (Error \/ NoError)
      /\ pc[p] \in {"first", "take"} /\ pc' = [pc EXCEPT ![p] = "sleep"]
  BY DEF TakeMaster, Goto, data, sweep, world
<1>2. ~master[p]
  BY <1>1 DEF Election, Candidates
<1>3. \A q \in Pod : pc'[q] \in {"refresh", "query"} => pc'[q] = pc[q]
  BY <1>1 DEF Types, TypeOK
<1>4. errs' = 0 => errs = 0 /\ NoError
  BY <1>1, ErrsGrow DEF Error
<1>5. CASE ~(errs' = 0)
  BY <1>1, <1>5, MirrorFrame DEF Kept, Sweeper
<1>6. CASE errs' = 0 /\ UNCHANGED <<known, master>>
  <2>1. Kept' /\ Sweeper'
    BY <1>1, <1>3, <1>4, <1>6 DEF Mirror, Kept, Sweeper
  <2> QED BY <1>1, <1>6, <2>1, MirrorFrame
<1>7. CASE /\ errs' = 0 /\ (pc[p] = "first" \/ p \in known)
           /\ Stamp(p) /\ master' = [master EXCEPT ![p] = TRUE]
  <2>1. \A q \in Pod : ~master[q]
    BY <1>1, <1>4, <1>7, NoMasterLeft
  <2>2. /\ \A q \in Pod : q # p => master'[q] = master[q]
        /\ master'[p]
    BY <1>7 DEF Types, TypeOK
  <2>3. Kept'
    BY <1>7, <2>1, <2>2, StatusAssumption DEF Kept, Stamp
  <2>4. Sweeper'
    BY <1>1, <1>3, <1>4, <1>7, <2>1, <2>2 DEF Mirror, Sweeper
  <2>5. \A q \in Pod, c \in Comp : map[q][c] = None
    BY <1>4, <1>7, <2>1 DEF Mirror, Sweeper
  <2> QED BY <1>1, <2>3, <2>4, <2>5, MirrorFrame
<1>8. \/ ~(errs' = 0) \/ UNCHANGED <<known, master>>
      \/ /\ pc[p] = "first" \/ p \in known
         /\ Stamp(p) /\ master' = [master EXCEPT ![p] = TRUE]
  <2>1. CASE NoError
    BY <2>1, <1>4 DEF TakeMaster, NoError, Error
  <2>2. CASE Error
    BY <2>2, ErrsGrow DEF Error
  <2> QED BY <1>1, <2>1, <2>2
<1> QED BY <1>5, <1>6, <1>7, <1>8

LEMMA KeepAliveMirror ==
    ASSUME Types, Election, Mirror, NEW p \in Pod, KeepAlive(p)
    PROVE  Mirror'
<1>1. UNCHANGED <<map, db, hw, site, rsp, pc>> /\ (Error \/ NoError) /\ master[p]
  BY DEF KeepAlive, data, sweep, world
<1>2. CASE ~(errs' = 0)
  BY <1>1, <1>2, MirrorFrame DEF Kept, Sweeper
<1>3. CASE errs' = 0
  <2>1. errs = 0 /\ ~Error
    BY <1>1, <1>3, ErrsGrow DEF Error
  <2>2. p \in known
    BY <1>1, <2>1 DEF Mirror, Kept
  <2>3. Stamp(p) /\ UNCHANGED master
    BY <2>1, <2>2 DEF KeepAlive
  <2>4. \A q \in Pod : master[q] => q = p
    BY <1>1, <2>1 DEF Election, Alone
  <2>5. Kept' /\ Sweeper'
    BY <1>1, <2>1, <2>3, <2>4, StatusAssumption DEF Mirror, Kept, Sweeper, Stamp
  <2> QED BY <1>1, <2>3, <2>5, MirrorFrame
<1> QED BY <1>2, <1>3

\* Steps of a sweep that write nothing.
LEMMA SweepMirror ==
    ASSUME Types, Mirror, NEW p \in Pod, FetchHSM(p) \/ LaunchQueries(p) \/ EndSweep(p)
    PROVE  Mirror'
<1>1. /\ UNCHANGED <<map, db, hw, site, rsp, known, master, errs>>
      /\ \/ pc' = [pc EXCEPT ![p] = "refresh"] /\ master[p]
         \/ pc' = [pc EXCEPT ![p] = "query"] /\ pc[p] = "refresh"
         \/ pc' = [pc EXCEPT ![p] = "sleep"]
  BY DEF FetchHSM, LaunchQueries, EndSweep, Goto, etcd, data, sweep, world
<1>2. \A q \in Pod : pc'[q] \in {"refresh", "query"} =>
                        pc[q] \in {"refresh", "query"} \/ master[q]
  BY <1>1 DEF Types, TypeOK
<1>3. Kept' /\ Sweeper'
  BY <1>1, <1>2 DEF Mirror, Kept, Sweeper
<1> QED BY <1>1, <1>3, MirrorFrame DEF NoError

LEMMA AnswerMirror ==
    ASSUME Types, Mirror, NEW p \in Pod, NEW c \in Comp, Answer(p, c)
    PROVE  Mirror'
<1>1. /\ UNCHANGED <<map, db, hw, site, pc, known, master, errs>>
      /\ \/ rsp' = [rsp EXCEPT ![p][c] = hw[c]]
         \/ rsp' = [rsp EXCEPT ![p][c] = "unavailable"]
  BY DEF Answer, etcd, data, world
<1>2. hw[c] # "forced"
  BY StatusAssumption DEF Mirror, Reported, Types, TypeOK
<1>3. \A q \in Pod, d \in Comp : rsp'[q][d] # rsp[q][d] => rsp'[q][d] # "forced"
  <2>1. PICK v : v # "forced" /\ rsp' = [rsp EXCEPT ![p][c] = v]
    BY <1>1, <1>2
  <2>2. \A q \in Pod, d \in Comp : rsp'[q][d] # rsp[q][d] => rsp'[q][d] = v
    BY <2>1 DEF Types, TypeOK
  <2> QED BY <2>1, <2>2
<1>4. Forced'
  BY <1>1, <1>3 DEF Mirror, Forced
<1>5. Reported' /\ Kept' /\ Sweeper' /\ MapStored'
  BY <1>1 DEF Mirror, Reported, Kept, Sweeper, MapStored, Masters
<1> QED BY <1>4, <1>5 DEF Mirror

\* A write of component c: what is left to show is that c is stored as the
\* master holds it.
LEMMA WriteMirror ==
    ASSUME Types, Election, Mirror, NEW p \in Pod, NEW c \in Comp,
           pc[p] \in {"refresh", "query"}, Error \/ NoError,
           UNCHANGED <<known, master, pc, hw, site>>, Forced',
           \A q \in Pod : q # p => map'[q] = map[q],
           \A d \in Comp : d # c => map'[p][d] = map[p][d] /\ db'[d] = db[d],
           errs' = 0 /\ map'[p][c] # None /\ map'[p][c].st # "unavailable"
             => db'[c] = [st |-> map'[p][c].st, acts |-> map'[p][c].acts]
    PROVE  Mirror'
<1>1. Reported' /\ Kept'
  BY ErrsGrow DEF Mirror, Reported, Kept
<1>2. CASE ~(errs' = 0)
  BY <1>1, <1>2 DEF Mirror, Sweeper, MapStored
<1>3. CASE errs' = 0
  <2>1. errs = 0
    BY <1>3, ErrsGrow
  <2>2. master[p] /\ \A q \in Pod : master[q] => q = p
    BY <2>1 DEF Mirror, Sweeper, Election, Alone
  <2>3. Sweeper'
    BY <2>1, <2>2 DEF Mirror, Sweeper
  <2>4. MapStored'
    <3>1. SUFFICES ASSUME NEW d \in Comp, map'[p][d] # None, map'[p][d].st # "unavailable"
                   PROVE  db'[d] = [st |-> map'[p][d].st, acts |-> map'[p][d].acts]
      BY <2>2 DEF MapStored, Masters
    <3>2. CASE d = c
      BY <1>3, <3>1, <3>2
    <3>3. CASE d # c
      BY <2>1, <2>2, <3>1, <3>3 DEF Mirror, MapStored, Masters
    <3> QED BY <3>2, <3>3
  <2> QED BY <1>1, <2>3, <2>4 DEF Mirror
<1> QED BY <1>2, <1>3

\* updateHWState stores an entry unless etcd shows it already.
LEMMA UpdateMirror ==
    ASSUME Types, Election, Mirror, NEW p \in Pod, NEW c \in Comp, NEW e \in Entry,
           pc[p] \in {"refresh", "query"}, UNCHANGED <<known, master, pc, hw, site>>,
           UpdateHWState(p, c, e), map[p][c] # None, e.st = "forced" => e.acts,
           e.st = map[p][c].st => e.acts = map[p][c].acts,
           \A q \in Pod, d \in Comp : rsp'[q][d] = rsp[q][d] \/ rsp'[q][d] = None
    PROVE  Mirror'
<1>1. map' = [map EXCEPT ![p][c] = e]
  BY DEF UpdateHWState
<1>2. /\ \A q \in Pod : q # p => map'[q] = map[q]
      /\ \A d \in Comp : d # c => map'[p][d] = map[p][d]
      /\ map'[p][c] = e
  BY <1>1 DEF Types, TypeOK
<1>3. Forced'
  <2>1. \A q \in Pod, d \in Comp :
           map'[q][d] # None /\ map'[q][d].st = "forced" => map'[q][d].acts
    BY <1>2 DEF Mirror, Forced
  <2>2. \A q \in Pod, d \in Comp : rsp'[q][d] # None => rsp'[q][d] # "forced"
    BY DEF Mirror, Forced
  <2> QED BY <2>1, <2>2 DEF Forced
<1>4. Error \/ NoError
  BY DEF UpdateHWState, Write
<1>5. \A d \in Comp : d # c => db'[d] = db[d]
  BY DEF UpdateHWState, Write, data, Types, TypeOK
<1>6. ASSUME errs' = 0, e.st # "unavailable"
      PROVE  db'[c] = [st |-> e.st, acts |-> e.acts]
  <2>1. errs = 0 /\ ~Error
    BY <1>4, <1>6, ErrsGrow DEF Error
  <2>2. CASE e.st # map[p][c].st
    BY <2>1, <2>2 DEF UpdateHWState, Differs, Write, Types, TypeOK
  <2>3. CASE e.st = map[p][c].st
    <3>1. UNCHANGED db
      BY <2>3 DEF UpdateHWState, Differs, data
    <3>2. master[p]
      BY <2>1 DEF Mirror, Sweeper
    <3>3. db[c] = [st |-> map[p][c].st, acts |-> map[p][c].acts]
      BY <1>6, <2>1, <2>3, <3>2 DEF Mirror, MapStored, Masters
    <3> QED BY <2>3, <3>1, <3>3
  <2> QED BY <2>2, <2>3
<1> QED BY <1>2, <1>3, <1>4, <1>5, <1>6, WriteMirror

LEMMA ApplyMirror ==
    ASSUME Types, Election, Mirror, NEW p \in Pod, NEW c \in Comp, Apply(p, c)
    PROVE  Mirror'
<1> DEFINE e == [map[p][c] EXCEPT !.st = rsp[p][c]]
<1>1. /\ pc[p] = "query" /\ rsp[p][c] # None /\ rsp' = [rsp EXCEPT ![p][c] = None]
      /\ UNCHANGED <<known, master, pc, hw, site>>
      /\ UpdateHWState(p, c, e)
  BY DEF Apply, etcd, world
<1>2. map[p][c] \in Entry /\ map[p][c] # None /\ rsp[p][c] \in State
  BY <1>1 DEF Types, TypeOK
<1>3. e \in Entry /\ e.st = rsp[p][c] /\ e.acts = map[p][c].acts
  BY <1>2 DEF Entry
<1>4. rsp[p][c] # "forced"
  BY <1>1 DEF Mirror, Forced
<1>5. \A q \in Pod, d \in Comp : rsp'[q][d] = rsp[q][d] \/ rsp'[q][d] = None
  BY <1>1 DEF Types, TypeOK
<1> HIDE DEF e
<1> QED BY <1>1, <1>2, <1>3, <1>4, <1>5, UpdateMirror

LEMMA RefreshMirror ==
    ASSUME Types, Election, Mirror, NEW p \in Pod, NEW c \in Comp, Refresh(p, c)
    PROVE  Mirror'
<1>1. /\ pc[p] = "refresh" /\ UNCHANGED <<known, master, pc, hw, site, rsp>>
      /\ RefreshGone(p, c) \/ RefreshNew(p, c) \/ RefreshBMC(p, c) \/ RefreshKept(p, c)
  BY DEF Refresh, etcd, world
<1>2. CASE RefreshGone(p, c)
  <2>1. map' = [map EXCEPT ![p][c] = None] /\ Write(p, c, None)
    BY <1>2 DEF RefreshGone
  <2>2. /\ \A q \in Pod : q # p => map'[q] = map[q]
        /\ \A d \in Comp : d # c => map'[p][d] = map[p][d] /\ db'[d] = db[d]
        /\ map'[p][c] = None
    BY <2>1 DEF Types, TypeOK, Write
  <2>3. Forced'
    BY <1>1, <2>2 DEF Mirror, Forced
  <2>4. Error \/ NoError
    BY <2>1 DEF Write
  <2> QED BY <1>1, <2>2, <2>3, <2>4, WriteMirror
<1>3. CASE RefreshNew(p, c)
  <2> DEFINE e == NewEntry(hsm[p][c])
  <2>1. map' = [map EXCEPT ![p][c] = e] /\ NoError /\ UNCHANGED data
    BY <1>3 DEF RefreshNew
  <2>2. e.st = "unavailable"
    BY DEF NewEntry
  <2> HIDE DEF e
  <2>3. /\ \A q \in Pod : q # p => map'[q] = map[q]
        /\ \A d \in Comp : d # c => map'[p][d] = map[p][d] /\ db'[d] = db[d]
        /\ map'[p][c] = e
    BY <2>1 DEF Types, TypeOK, data
  <2>4. Forced'
    BY <1>1, <2>2, <2>3 DEF Mirror, Forced
  <2>5. map'[p][c].st = "unavailable" /\ (Error \/ NoError) /\ pc[p] \in {"refresh", "query"}
    BY <1>1, <2>1, <2>2, <2>3
  <2> QED BY <1>1, <2>3, <2>4, <2>5, WriteMirror
<1>4. CASE RefreshBMC(p, c)
  <2> DEFINE e == [map[p][c] EXCEPT !.acts = TRUE, !.st = "forced"]
  <2>1. UpdateHWState(p, c, e) /\ map[p][c] # None /\ ~map[p][c].acts
    BY <1>4 DEF RefreshBMC, ActionsAppear
  <2>2. map[p][c] \in Entry
    BY <2>1 DEF Types, TypeOK
  <2>3. e \in Entry /\ e.st = "forced" /\ e.acts
    BY <2>2 DEF Entry, State
  <2>4. map[p][c].st # "forced"
    BY <2>1 DEF Mirror, Forced
  <2> HIDE DEF e
  <2> QED BY <1>1, <2>1, <2>3, <2>4, UpdateMirror
<1>5. CASE RefreshKept(p, c)
  <2>1. UNCHANGED <<map, db, errs>>
    BY <1>5 DEF RefreshKept, NoError, data
  <2>2. Kept' /\ Sweeper'
    BY <1>1, <2>1 DEF Mirror, Kept, Sweeper
  <2> QED BY <1>1, <2>1, <2>2, MirrorFrame DEF NoError
<1> QED BY <1>1, <1>2, <1>3, <1>4, <1>5

LEMMA CrashMirror ==
    ASSUME Types, Mirror, NEW p \in Pod, Crash(p)
    PROVE  Mirror'
<1>1. /\ known' = known \ {p} /\ pc' = [pc EXCEPT ![p] = "sleep"]
      /\ master' = [master EXCEPT ![p] = FALSE]
      /\ map' = [map EXCEPT ![p] = [c \in Comp |-> None]]
      /\ rsp' = [rsp EXCEPT ![p] = Silent] /\ UNCHANGED <<db, hw, site, errs>>
  BY DEF Crash, Goto, data, world
<1>2. /\ \A q \in Pod : q # p => /\ master'[q] = master[q] /\ pc'[q] = pc[q]
                                 /\ map'[q] = map[q] /\ rsp'[q] = rsp[q]
      /\ ~master'[p] /\ pc'[p] = "sleep"
      /\ \A c \in Comp : map'[p][c] = None /\ rsp'[p][c] = None
  BY <1>1 DEF Types, TypeOK, Silent
<1>3. Reported' /\ Forced'
  BY <1>1, <1>2 DEF Mirror, Reported, Forced
<1>4. Kept' /\ Sweeper'
  BY <1>1, <1>2 DEF Mirror, Kept, Sweeper
<1>5. MapStored'
  BY <1>1, <1>2 DEF Mirror, MapStored, Masters
<1> QED BY <1>3, <1>4, <1>5 DEF Mirror

LEMMA WorldMirror ==
    ASSUME Types, Mirror, Lapse \/ HWChanges \/ InvChanges \/ UNCHANGED vars
    PROVE  Mirror'
<1>1. UNCHANGED <<map, db, site, rsp, known, master, pc, errs>>
  BY DEF Lapse, HWChanges, InvChanges, vars, etcd, data, sweep, world
<1>2. Reported'
  <2>1. CASE HWChanges
    <3>1. PICK c \in Comp : \E r \in site[c].read : hw' = [hw EXCEPT ![c] = r]
      BY <2>1 DEF HWChanges
    <3> QED BY <1>1, <3>1 DEF Mirror, Reported, Types, TypeOK
  <2>2. CASE UNCHANGED hw
    BY <1>1, <2>2 DEF Mirror, Reported
  <2> QED BY <2>1, <2>2 DEF Lapse, InvChanges, vars, world
<1>3. Forced' /\ Kept' /\ Sweeper' /\ MapStored'
  BY <1>1 DEF Mirror, Forced, Kept, Sweeper, MapStored, Masters
<1> QED BY <1>2, <1>3 DEF Mirror

LEMMA NextMirror ==
    ASSUME Types, Election, Mirror, [Next]_vars
    PROVE  Mirror'
<1>1. CASE \E p \in Pod : Monitor(p) \/ KeepAlive(p) \/ Crash(p)
  BY <1>1, GetMasterMirror, TakeMasterMirror, SweepMirror, RefreshMirror, AnswerMirror,
     ApplyMirror, KeepAliveMirror, CrashMirror DEF Monitor
<1>2. CASE Lapse \/ HWChanges \/ InvChanges \/ UNCHANGED vars
  BY <1>2, WorldMirror
<1> QED BY <1>1, <1>2 DEF Next

\* While no etcd operation fails, etcd shows every component in the state the
\* master's hwStateMap holds, apart from the state a new entry starts with:
\* every change that updateHWState makes in the map reaches the store, also
\* when a pod takes over from one that died in the middle of a sweep.
THEOREM MapIsStored == Spec => []MapStored
<1>1. Init => Types /\ Election /\ Mirror
  BY InitTypes, InitElection, InitMirror
<1>2. Types /\ Election /\ Mirror /\ [Next]_vars => (Types /\ Election /\ Mirror)'
  BY NextTypes, NextElection, NextMirror
<1>3. Types /\ Election /\ Mirror => MapStored
  BY DEF Mirror
<1> QED BY <1>1, <1>2, <1>3, PTL DEF Spec
=============================================================================
