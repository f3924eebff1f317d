------------------------- MODULE PowerSequenceProofs -------------------------
(***************************************************************************)
(* Proofs about PowerSequence, for every set of components, every          *)
(* arrangement of them and any number of faults and crashes.               *)
(*                                                                         *)
(* The argument is about ActionCount.  The code increments it when a       *)
(* component is put down for an action and decrements it when an action    *)
(* is confirmed, and reports success when it reaches zero; it never says   *)
(* what the number counts.  Counted below: it is the number of actions     *)
(* that are still due, a shutdown and the forceoff that may follow it      *)
(* being one.                                                              *)
(*                                                                         *)
(* Power is a second argument, built on the first: when nothing is due for *)
(* a component it has its result, so what feeds it is dealt with when its  *)
(* own tier to turn on comes (FeedFirst), and it is off when the tier      *)
(* comes that turns off what feeds it (Spared).  In a Soft-Off it may also *)
(* have failed, and then what feeds it has failed first (Covered).         *)
(***************************************************************************)
EXTENDS PowerSequence, FiniteSetTheorems, WellFoundedInduction, TLAPS

\* Tier k applies action a to components of the type of c.
Serves(k, c, a) == /\ PowerSequenceFull[k].action = a
                   /\ Type[c] \in PowerSequenceFull[k].types

Loop == {"keys", "build", "send", "confirm", "late"}

\* The components that the current tier is not done with.
Busy == CASE pc \in {"keys", "build"} -> todo \cup wait
          [] pc \in {"send", "confirm", "late"} -> wait
          [] OTHER -> Comp

\* Tier k lies behind the worker as far as c is concerned; and so an action
\* that c is put down for is done, or still due.
Behind(c, k) == k < tier \/ (k = tier /\ c \notin Busy)
Done(c, a)   == \E k \in 1..14 : Serves(k, c, a) /\ Behind(c, k)
Due(c, a)    == c \in seqMap[a] /\ ~Done(c, a)

DownDue(c) == \E a \in Action \ {"on"} : Due(c, a)
OnDue(c)   == Due(c, "on")
Owed(c)    == (IF DownDue(c) THEN 1 ELSE 0) + (IF OnDue(c) THEN 1 ELSE 0)

\* Where the worker can be, and which of its sets are in use there.
Shape ==
    /\ pc \in {"down", "seq", "walk"} => tier = 1
    /\ pc \in Loop => tier \in 1..14 /\ InTier(tier) # {}
    /\ pc \in {"down", "seq", "walk", "tier", "keys", "end"} => wait = {}
    /\ pc \notin {"build", "send"} => out = {}
    /\ pc \in {"down", "tier", "send", "late", "end"} => todo = {}
    /\ pc = "confirm" => todo \subseteq wait
    /\ pc = "build" => todo \cap wait = {}
    /\ pc \in Loop => todo \subseteq InTier(tier) /\ wait \subseteq InTier(tier)
    /\ pc = "down" => count = [c \in Comp |-> 0] /\ seqMap = NoPlan
    /\ pc = "end" => \/ \A c \in Comp : ~IsOpen(c)
                     \/ \A k \in 1..14 : k >= tier => InTier(k) = {}

\* sequenceComponents has not come to c.
Unplanned(c) == pc \in {"seq", "walk"} /\ c \in todo

\* What c is put down for.
Planned(c) ==
    /\ c \in seqMap["gracefulrestart"] =>
          /\ op = "SoftRestart"
          /\ \A a \in Action \ {"gracefulrestart"} : c \notin seqMap[a]
    /\ ~(Due(c, "gracefulshutdown") /\ c \in seqMap["forceoff"])
    /\ Unplanned(c) =>
          IsOpen(c) /\ count[c] = 0 /\ \A a \in Action : c \notin seqMap[a]

\* What ActionCount counts.
Counted(c) ==
    /\ task[c].st # "failed" \/ c \in wait => count[c] = Owed(c)
    /\ task[c].st \in {"succeeded", "unsupported"} => count[c] = 0
    /\ IsOpen(c) /\ pc # "down" /\ ~Unplanned(c) => count[c] >= 1

\* What a task record tells of the command last sent.
Traced(t) ==
    IF t.state = "GatherData" THEN t.op = op
    ELSE \/ t.op \in {"On", "Off", "ForceOff"}
         \/ t.op = "SoftRestart" /\ op = "SoftRestart"

\* Those waited for were sent the command of this tier.
Sent(c) == c \in wait => /\ task[c].state # "GatherData"
                         /\ task[c].op = OpFor(powerAction)

\* The records in etcd are the worker's own, up to those about to be stored.
Stored(c) == c \notin unsaved => db[c] = task[c]

Account ==
    /\ TypeOK
    /\ Shape
    /\ \A c \in Comp : Planned(c)
    /\ \A c \in Comp : Counted(c)
    /\ \A c \in Comp : Traced(task[c]) /\ Traced(db[c])
    /\ \A c \in Comp : Stored(c)
    /\ \A c \in Comp : Sent(c)

-----------------------------------------------------------------------------
(* The table of tiers *)

LEMMA Table ==
    /\ Len(PowerSequenceFull) = 14 /\ DOMAIN PowerSequenceFull = 1..14
    /\ PowerSequenceFull[1]  = [action |-> "gracefulshutdown", types |-> {"Node"}]
    /\ PowerSequenceFull[2]  = [action |-> "forceoff", types |-> {"Node"}]
    /\ PowerSequenceFull[3]  = [action |-> "gracefulshutdown", types |-> Module]
    /\ PowerSequenceFull[4]  = [action |-> "forceoff", types |-> Module]
    /\ PowerSequenceFull[5]  = [action |-> "gracefulshutdown", types |-> {"Chassis"}]
    /\ PowerSequenceFull[6]  = [action |-> "forceoff", types |-> {"Chassis"}]
    /\ PowerSequenceFull[7]  = [action |-> "gracefulshutdown",
                                types |-> {"CabinetPDUPowerConnector"}]
    /\ PowerSequenceFull[8]  = [action |-> "forceoff",
                                types |-> {"CabinetPDUPowerConnector"}]
    /\ PowerSequenceFull[9]  = [action |-> "gracefulrestart",
                                types |-> HMSType \ Controller]
    /\ PowerSequenceFull[10] = [action |-> "gracefulrestart", types |-> Controller]
    /\ PowerSequenceFull[11] = [action |-> "on", types |-> {"CabinetPDUPowerConnector"}]
    /\ PowerSequenceFull[12] = [action |-> "on", types |-> {"Chassis"}]
    /\ PowerSequenceFull[13] = [action |-> "on", types |-> Module]
    /\ PowerSequenceFull[14] = [action |-> "on", types |-> {"Node"}]
  BY DEF PowerSequenceFull

\* Shutdowns come before restarts and those before turning on.
LEMMA TierOrder ==
    ASSUME NEW k \in 1..14
    PROVE  /\ PowerSequenceFull[k].action \in Action
           /\ PowerSequenceFull[k].action \in {"gracefulshutdown", "forceoff"} => k <= 8
           /\ PowerSequenceFull[k].action = "gracefulrestart" => k \in 9..10
           /\ PowerSequenceFull[k].action = "on" => k >= 11
<1>1. \/ k = 1 \/ k = 2 \/ k = 3 \/ k = 4 \/ k = 5 \/ k = 6 \/ k = 7 \/ k = 8
      \/ k = 9 \/ k = 10 \/ k = 11 \/ k = 12 \/ k = 13 \/ k = 14
  OBVIOUS
<1> QED BY <1>1, Table DEF Action

\* Of several tiers one is the first.
LEMMA FirstTier ==
    ASSUME NEW S \in SUBSET (1..14), S # {}
    PROVE  \E k \in S : \A j \in S : k <= j
<1> SUFFICES ASSUME \A k \in S : \E j \in S : j < k PROVE FALSE
  OBVIOUS
<1>1. 1 \notin S
  OBVIOUS
<1>2. 2 \notin S
  BY <1>1
<1>3. 3 \notin S
  BY <1>1, <1>2
<1>4. 4 \notin S
  BY <1>1, <1>2, <1>3
<1>5. 5 \notin S
  BY <1>1, <1>2, <1>3, <1>4
<1>6. 6 \notin S
  BY <1>1, <1>2, <1>3, <1>4, <1>5
<1>7. 7 \notin S
  BY <1>1, <1>2, <1>3, <1>4, <1>5, <1>6
<1>8. 8 \notin S
  BY <1>1, <1>2, <1>3, <1>4, <1>5, <1>6, <1>7
<1>9. 9 \notin S
  BY <1>1, <1>2, <1>3, <1>4, <1>5, <1>6, <1>7, <1>8
<1>10. 10 \notin S
  BY <1>1, <1>2, <1>3, <1>4, <1>5, <1>6, <1>7, <1>8, <1>9
<1>11. 11 \notin S
  BY <1>1, <1>2, <1>3, <1>4, <1>5, <1>6, <1>7, <1>8, <1>9, <1>10
<1>12. 12 \notin S
  BY <1>1, <1>2, <1>3, <1>4, <1>5, <1>6, <1>7, <1>8, <1>9, <1>10, <1>11
<1>13. 13 \notin S
  BY <1>1, <1>2, <1>3, <1>4, <1>5, <1>6, <1>7, <1>8, <1>9, <1>10, <1>11, <1>12
<1>14. 14 \notin S
  BY <1>1, <1>2, <1>3, <1>4, <1>5, <1>6, <1>7, <1>8, <1>9, <1>10, <1>11, <1>12, <1>13
<1>15. PICK x \in 1..14 : x \in S
  OBVIOUS
<1>16. \/ x = 1 \/ x = 2 \/ x = 3 \/ x = 4 \/ x = 5 \/ x = 6 \/ x = 7 \/ x = 8
       \/ x = 9 \/ x = 10 \/ x = 11 \/ x = 12 \/ x = 13 \/ x = 14
  OBVIOUS
<1> QED BY <1>1, <1>2, <1>3, <1>4, <1>5, <1>6, <1>7, <1>8, <1>9, <1>10, <1>11,
           <1>12, <1>13, <1>14, <1>15, <1>16

\* The tier that forces is the next one.
LEMMA ForceNext ==
    ASSUME NEW k \in 1..14, PowerSequenceFull[k].action = "gracefulshutdown"
    PROVE  /\ k + 1 \in 1..14
           /\ PowerSequenceFull[k + 1].action = "forceoff"
           /\ PowerSequenceFull[k + 1].types = PowerSequenceFull[k].types
<1>1. \/ k = 1 \/ k = 2 \/ k = 3 \/ k = 4 \/ k = 5 \/ k = 6 \/ k = 7 \/ k = 8
      \/ k = 9 \/ k = 10 \/ k = 11 \/ k = 12 \/ k = 13 \/ k = 14
  OBVIOUS
<1>2. k = 1 \/ k = 3 \/ k = 5 \/ k = 7
  BY <1>1, Table
<1>3. /\ PowerSequenceFull[1 + 1] = PowerSequenceFull[2]
      /\ PowerSequenceFull[3 + 1] = PowerSequenceFull[4]
      /\ PowerSequenceFull[5 + 1] = PowerSequenceFull[6]
      /\ PowerSequenceFull[7 + 1] = PowerSequenceFull[8]
  OBVIOUS
<1>4. CASE k = 1
  BY <1>3, <1>4, Table
<1>5. CASE k = 3
  BY <1>3, <1>5, Table
<1>6. CASE k = 5
  BY <1>3, <1>6, Table
<1>7. CASE k = 7
  BY <1>3, <1>7, Table
<1> QED BY <1>2, <1>4, <1>5, <1>6, <1>7

\* An action is applied to a component in one tier at most.
LEMMA OnePlace ==
    ASSUME NEW c \in Comp, NEW a \in Action, NEW k \in 1..14, NEW j \in 1..14,
           Serves(k, c, a), Serves(j, c, a)
    PROVE  k = j
<1> DEFINE P(t) == IF a \in {"gracefulshutdown", "forceoff"}
                   THEN IF t = "Node" THEN 1
                        ELSE IF t \in Module THEN 3
                        ELSE IF t = "Chassis" THEN 5 ELSE 7
                   ELSE IF a = "gracefulrestart"
                   THEN IF t \in Controller THEN 10 ELSE 9
                   ELSE IF t = "Node" THEN 14
                        ELSE IF t \in Module THEN 13
                        ELSE IF t = "Chassis" THEN 12 ELSE 11
           Q(t) == IF a = "forceoff" THEN P(t) + 1 ELSE P(t)
<1>1. ASSUME NEW i \in 1..14, Serves(i, c, a) PROVE i = Q(Type[c])
  <2>1. \/ i = 1 \/ i = 2 \/ i = 3 \/ i = 4 \/ i = 5 \/ i = 6 \/ i = 7 \/ i = 8
        \/ i = 9 \/ i = 10 \/ i = 11 \/ i = 12 \/ i = 13 \/ i = 14
    OBVIOUS
  <2> QED BY <1>1, <2>1, Table DEF Serves, Module, Controller, HMSType
<1> QED BY <1>1

-----------------------------------------------------------------------------
(* What a step does to one component *)

\* Nothing, if it leaves c's actions where they are; c may fail, or be waited
\* for again.
LEMMA Untouched ==
    ASSUME NEW c \in Comp, Planned(c), Counted(c), op' = op,
           pc = "down" <=> pc' = "down",
           Unplanned(c)' <=> Unplanned(c),
           \A a \in Action : c \in seqMap'[a] <=> c \in seqMap[a],
           \A k \in 1..14 : c \in InTier(k) => (Behind(c, k)' <=> Behind(c, k)),
           count'[c] = count[c],
           \/ task'[c].st = task[c].st
           \/ task'[c].st = "failed" /\ ~Unplanned(c)
           \/ task'[c].st = "open" /\ c \in wait /\ count[c] >= 1,
           c \in wait' => c \in wait \/ task[c].st # "failed"
    PROVE  Planned(c)' /\ Counted(c)'
<1>1. ASSUME NEW a \in Action PROVE Due(c, a)' <=> Due(c, a)
  <2>1. CASE c \notin seqMap[a]
    BY <2>1 DEF Due
  <2>2. CASE c \in seqMap[a]
    <3>1. ASSUME NEW k \in 1..14, Serves(k, c, a) PROVE Behind(c, k)' <=> Behind(c, k)
      BY <2>2, <3>1 DEF Serves, InTier
    <3>2. Done(c, a)' <=> Done(c, a)
      BY <3>1 DEF Done, Serves
    <3> QED BY <2>2, <3>2 DEF Due
  <2> QED BY <2>1, <2>2
<1>2. (DownDue(c)' <=> DownDue(c)) /\ (OnDue(c)' <=> OnDue(c))
  BY <1>1 DEF DownDue, OnDue, Action
<1>3. Owed(c)' = Owed(c)
  BY <1>2 DEF Owed
<1>4. Planned(c)'
  <2>1. Due(c, "gracefulshutdown")' <=> Due(c, "gracefulshutdown")
    BY <1>1 DEF Action
  <2> QED BY <2>1 DEF Planned, IsOpen, Action
<1>5. Counted(c)'
  BY <1>3 DEF Counted, IsOpen
<1> QED BY <1>4, <1>5

\* A step that leaves the plan, the tier and the sets of the worker alone.
LEMMA Elsewhere ==
    ASSUME Shape, NEW c \in Comp, Planned(c), Counted(c), op' = op,
           UNCHANGED <<plan, pc, tier, todo, wait>>,
           \/ task'[c].st = task[c].st
           \/ task'[c].st = "failed" /\ ~Unplanned(c)
    PROVE  Planned(c)' /\ Counted(c)'
<1>1. \A k \in 1..14 : Behind(c, k)' <=> Behind(c, k)
  BY DEF Behind, Busy
<1>2. Unplanned(c)' <=> Unplanned(c)
  BY DEF Unplanned
<1> QED BY <1>1, <1>2, Untouched DEF plan

\* The tasks of a component before and after it, or another one, has failed.
LEMMA FailEffect ==
    ASSUME TypeOK, unsaved = {}, op' = op, NEW c \in Comp, NEW a, Fail(c, a),
           \A d \in Comp : Stored(d),
           \A d \in Comp : Traced(task[d]) /\ Traced(db[d])
    PROVE  /\ task' \in [Comp -> Task] /\ db' \in [Comp -> Task] /\ unsaved' = {c}
           /\ task'[c].st = "failed"
           /\ \A d \in Comp : \/ task'[d] = task[d]
                              \/ task'[d].st = "failed" /\ task'[d].state = task[d].state
                                    /\ task'[d].op = task[d].op
           /\ \A d \in Comp : db'[d] = db[d] \/ db'[d] = task'[d]
           /\ \A d \in Comp : Traced(task[d])' /\ Traced(db[d])'
           /\ \A d \in Comp : Stored(d)'
<1> DEFINE D == Dependents(c, a)
<1>1. /\ task' = Failing(task, {c} \cup D) /\ unsaved' = {c}
      /\ db' = [d \in Comp |-> IF d \in D THEN task'[d] ELSE db[d]]
  BY DEF Fail
<1> HIDE DEF D
<1>2. ASSUME NEW d \in Comp
      PROVE  /\ task'[d] \in Task
             /\ \/ task'[d] = task[d]
                \/ task'[d].st = "failed" /\ task'[d].state = task[d].state
                      /\ task'[d].op = task[d].op
             /\ d = c => task'[d].st = "failed"
             /\ d \notin {c} \cup D => task'[d] = task[d]
  <2>1. task'[d] = IF d \in {c} \cup D THEN [task[d] EXCEPT !.st = "failed"] ELSE task[d]
    BY <1>1 DEF Failing
  <2>2. task[d] \in Task /\ "failed" \in Status
    BY DEF TypeOK, Status
  <2> QED BY <2>1, <2>2 DEF Task
<1>3. task' \in [Comp -> Task]
  BY <1>1, <1>2 DEF Failing
<1>4. db' \in [Comp -> Task]
  BY <1>1, <1>2 DEF TypeOK
<1>5. \A d \in Comp : Traced(task[d])'
  BY <1>2 DEF Traced
<1>6. \A d \in Comp : db'[d] = db[d] \/ db'[d] = task'[d]
  BY <1>1
<1>7. \A d \in Comp : Traced(db[d])'
  BY <1>5, <1>6 DEF Traced
<1>8. \A d \in Comp : Stored(d)'
  BY <1>1, <1>2 DEF Stored
<1> QED BY <1>1, <1>2, <1>3, <1>4, <1>5, <1>6, <1>7, <1>8

\* One task changes and is stored.
LEMMA UpdateEffect ==
    ASSUME TypeOK, op' = op, unsaved' = unsaved, NEW c \in Comp, NEW t \in Task, Update(c, t),
           Traced(t),
           \A d \in Comp : Stored(d),
           \A d \in Comp : Traced(task[d]) /\ Traced(db[d])
    PROVE  /\ task' \in [Comp -> Task] /\ db' \in [Comp -> Task]
           /\ task'[c] = t
           /\ \A d \in Comp \ {c} : task'[d] = task[d] /\ db'[d] = db[d]
           /\ \A d \in Comp : Traced(task[d])' /\ Traced(db[d])'
           /\ \A d \in Comp : Stored(d)'
<1>1. /\ task' \in [Comp -> Task] /\ db' \in [Comp -> Task]
      /\ task'[c] = t /\ db'[c] = t
      /\ \A d \in Comp \ {c} : task'[d] = task[d] /\ db'[d] = db[d]
  BY DEF Update, TypeOK
<1>2. \A d \in Comp : Traced(task[d])' /\ Traced(db[d])'
  BY <1>1 DEF Traced
<1>3. \A d \in Comp : Stored(d)'
  BY <1>1 DEF Stored
<1> QED BY <1>1, <1>2, <1>3

\* Steps that change no task.
LEMMA SameTasks ==
    ASSUME UNCHANGED <<op, task, db, unsaved>>,
           \A d \in Comp : Stored(d),
           \A d \in Comp : Traced(task[d]) /\ Traced(db[d])
    PROVE  /\ \A d \in Comp : Traced(task[d])' /\ Traced(db[d])'
           /\ \A d \in Comp : Stored(d)'
  BY DEF Traced, Stored

\* Nobody new is waited for.
LEMMA SameSent ==
    ASSUME \A d \in Comp : Sent(d),
           \/ wait' = {}
           \/ tier' = tier /\ \A d \in wait' :
                 /\ d \in wait /\ task'[d].op = task[d].op
                 /\ task'[d].state = "GatherData" => task[d].state = "GatherData"
    PROVE  \A d \in Comp : Sent(d)'
  BY DEF Sent, powerAction

\* The tier is done: what it served lies behind.
LEMMA TierDone ==
    ASSUME TypeOK, Shape, pc \in {"send", "confirm", "late"}, wait = {},
           NextTier, UNCHANGED <<op, task, plan, wait>>,
           \A c \in Comp : Planned(c), \A c \in Comp : Counted(c)
    PROVE  \A c \in Comp : Planned(c)' /\ Counted(c)'
<1> TAKE c \in Comp
<1>1. Busy = {} /\ Busy' = Comp /\ tier' = tier + 1 /\ tier \in 1..14
  BY DEF Busy, NextTier, Shape, Loop
<1>2. \A k \in 1..14 : Behind(c, k)' <=> Behind(c, k)
  BY <1>1 DEF Behind
<1>3. ~Unplanned(c) /\ ~Unplanned(c)'
  BY DEF Unplanned, NextTier
<1> QED BY <1>2, <1>3, Untouched DEF plan, NextTier

-----------------------------------------------------------------------------
(* The steps, first those outside the tiers *)

LEMMA InitAccount ==
    ASSUME Init PROVE Account
<1>0. 1 \in 1..Len(PowerSequenceFull) + 1
  BY Table
<1>1. NewTask \in Task /\ Traced(NewTask)
  BY SeqAssumption DEF Init, NewTask, Task, Status, State, Operation, Traced
<1>2. acts \in [Comp -> SUBSET ResetType]
  BY SeqAssumption DEF Init
<1>3. TypeOK
  BY <1>0, <1>1, <1>2, SeqAssumption DEF Init, TypeOK, NoPlan, Action
<1>4. Shape
  BY DEF Init, Shape, Loop, NoPlan
<1>5. ASSUME NEW c \in Comp PROVE Planned(c) /\ Counted(c)
  <2>1. \A a \in Action : c \notin seqMap[a]
    BY DEF Init, NoPlan
  <2>2. Owed(c) = 0
    BY <2>1 DEF Owed, DownDue, OnDue, Due, Action
  <2>3. Planned(c)
    BY <2>1 DEF Planned, Unplanned, Init, Action
  <2>4. Counted(c)
    BY <2>2, <1>1 DEF Counted, Init, IsOpen, NewTask
  <2> QED BY <2>3, <2>4
<1>6. \A c \in Comp : Traced(task[c]) /\ Traced(db[c]) /\ Stored(c)
  BY <1>1 DEF Init, Stored
<1>7. \A c \in Comp : Sent(c)
  BY DEF Init, Sent
<1> QED BY <1>3, <1>4, <1>5, <1>6, <1>7 DEF Account

\* The hardware and the monitor.
LEMMA TurnOffTypes ==
    ASSUME TypeOK, NEW c \in Comp, TurnOff(c)
    PROVE  hw' \in [Comp -> {"on", "off"}] /\ wentOff' \subseteq Comp /\ cut' \subseteq Comp
  BY DEF TypeOK, TurnOff

LEMMA ExecuteTypes ==
    ASSUME TypeOK, NEW c \in Comp, Execute(c)
    PROVE  hw' \in [Comp -> {"on", "off"}] /\ wentOff' \subseteq Comp /\ cut' \subseteq Comp
<1>1. cmd[c] \in Action
  BY DEF Execute, TypeOK
<1>2. CASE cmd[c] \in {"gracefulshutdown", "forceoff"}
  BY <1>2, TurnOffTypes DEF Execute
<1>3. CASE cmd[c] = "on"
  BY <1>3 DEF Execute, TypeOK
<1>4. CASE cmd[c] = "gracefulrestart"
  BY <1>4 DEF Execute, TypeOK
<1> QED BY <1>1, <1>2, <1>3, <1>4 DEF Action

LEMMA AsideAccount ==
    ASSUME Account, NEW c \in Comp, Execute(c) \/ Monitor(c) \/ Lose(c)
    PROVE  Account'
<1> USE DEF Account
<1>1. UNCHANGED <<db, worker, fixed, forced, faults>>
  BY DEF Execute, Monitor, Lose
<1>2. TypeOK'
  <2>1. hw' \in [Comp -> {"on", "off"}] /\ wentOff' \subseteq Comp /\ cut' \subseteq Comp
    BY ExecuteTypes DEF Monitor, Lose, TypeOK
  <2>2. /\ mon' \in [Comp -> {"on", "off", "undefined"}]
        /\ cmd' \in [Comp -> Action \cup {"none"}]
    <3>1. CASE Execute(c)
      <4>1. mon' = mon /\ cmd' = [cmd EXCEPT ![c] = "none"]
        BY <3>1 DEF Execute
      <4> QED BY <4>1 DEF TypeOK
    <3>2. CASE Monitor(c) \/ Lose(c)
      <4>1. cmd' = cmd /\ mon' \in {[mon EXCEPT ![c] = hw[c]], [mon EXCEPT ![c] = "undefined"]}
        BY <3>2 DEF Monitor, Lose
      <4>2. hw[c] \in {"on", "off", "undefined"}
        BY DEF TypeOK
      <4> QED BY <4>1, <4>2 DEF TypeOK
    <3> QED BY <3>1, <3>2
  <2> QED BY <1>1, <2>1, <2>2 DEF TypeOK, worker, plan, fixed
<1>3. Shape'
  BY <1>1 DEF Shape, worker, plan, InTier, IsOpen
<1>4. \A d \in Comp : Planned(d)' /\ Counted(d)'
  BY <1>1, Elsewhere DEF worker, fixed
<1>5. \A d \in Comp : Traced(task[d])' /\ Traced(db[d])' /\ Stored(d)'
  BY <1>1, SameTasks DEF worker, fixed
<1>6. \A d \in Comp : Sent(d)'
  BY <1>1, SameSent DEF worker
<1> QED BY <1>2, <1>3, <1>4, <1>5, <1>6

LEMMA SaveAccount ==
    ASSUME Account, Save PROVE Account'
<1> USE DEF Account
<1>1. TypeOK'
  BY DEF Save, TypeOK, plan, world, fixed
<1>2. Shape'
  BY DEF Save, Shape, plan, InTier, IsOpen
<1>3. \A d \in Comp : Planned(d)' /\ Counted(d)'
  BY Elsewhere DEF Save, fixed
<1>4. \A d \in Comp : db'[d] = db[d] \/ db'[d] = task[d]
  BY DEF Save
<1>5. \A d \in Comp : Traced(task[d])' /\ Traced(db[d])'
  BY <1>4 DEF Save, fixed, Traced
<1>6. \A d \in Comp : Stored(d)'
  BY DEF Save, Stored
<1>7. \A d \in Comp : Sent(d)'
  BY SameSent DEF Save
<1> QED BY <1>1, <1>2, <1>3, <1>5, <1>6, <1>7

LEMMA StartAccount ==
    ASSUME Account, unsaved = {}, Start PROVE Account'
<1> USE DEF Account
<1>1. TypeOK'
  BY DEF Start, TypeOK, world
<1>2. Shape'
  BY DEF Start, Shape, Loop
<1>3. task' = db /\ op' = op /\ db' = db /\ unsaved' = unsaved
  BY DEF Start
<1>4. ASSUME NEW c \in Comp PROVE Planned(c)' /\ Counted(c)'
  <2>1. \A a \in Action : c \notin seqMap'[a]
    BY DEF Start, Shape, NoPlan
  <2>2. Owed(c)' = 0 /\ count'[c] = 0
    BY <2>1 DEF Owed, DownDue, OnDue, Due, Action, Start, Shape
  <2>3. IsOpen(c)' <=> c \in todo'
    BY <1>3 DEF Start, IsOpen
  <2>4. Unplanned(c)' <=> c \in todo'
    BY DEF Unplanned, Start
  <2>5. Planned(c)'
    BY <2>1, <2>2, <2>3, <2>4 DEF Planned, Due, Action
  <2>6. Counted(c)'
    BY <2>2, <2>3, <2>4 DEF Counted
  <2> QED BY <2>5, <2>6
<1>5. \A d \in Comp : Traced(task[d])' /\ Traced(db[d])' /\ Stored(d)'
  BY <1>3 DEF Traced, Stored
<1>6. \A d \in Comp : Sent(d)'
  BY SameSent DEF Start, Shape
<1> QED BY <1>1, <1>2, <1>4, <1>5, <1>6

LEMMA CrashAccount ==
    ASSUME Account, Crash PROVE Account'
<1> USE DEF Account
<1>1. TypeOK'
  <2>1. PICK S \in SUBSET (IF pc = "send" THEN out ELSE {}) :
           cmd' = [c \in Comp |-> IF c \in S THEN powerAction ELSE cmd[c]]
    BY DEF Crash
  <2>2. pc = "send" => powerAction \in Action
    BY TierOrder DEF Shape, Loop, powerAction
  <2>3. cmd' \in [Comp -> Action \cup {"none"}]
    BY <2>1, <2>2 DEF TypeOK
  <2>4. tier' \in 1..Len(PowerSequenceFull) + 1
    BY Table DEF Crash
  <2>5. crashes' \in 0..MaxCrash
    BY SeqAssumption DEF Crash, TypeOK
  <2>6. /\ seqMap' \in [Action -> SUBSET Comp]
        /\ snap' \in [Comp -> {"on", "off", "undefined"}]
        /\ count' \in [Comp -> 0..2]
    BY DEF Crash, NoPlan
  <2> QED BY <2>3, <2>4, <2>5, <2>6 DEF Crash, TypeOK
<1>2. Shape'
  BY DEF Crash, Shape, Loop
<1>3. task' = db /\ op' = op /\ db' = db /\ unsaved' = {}
  BY DEF Crash
<1>4. ASSUME NEW c \in Comp PROVE Planned(c)' /\ Counted(c)'
  <2>1. \A a \in Action : c \notin seqMap'[a]
    BY DEF Crash, NoPlan
  <2>2. Owed(c)' = 0 /\ count'[c] = 0
    BY <2>1 DEF Owed, DownDue, OnDue, Due, Action, Crash
  <2>3. ~Unplanned(c)' /\ pc' = "down"
    BY DEF Unplanned, Crash
  <2>4. Planned(c)'
    BY <2>1, <2>3 DEF Planned, Due, Action
  <2>5. Counted(c)'
    BY <2>2, <2>3 DEF Counted
  <2> QED BY <2>4, <2>5
<1>5. \A d \in Comp : Traced(task[d])' /\ Traced(db[d])' /\ Stored(d)'
  BY <1>3 DEF Traced, Stored
<1>6. \A d \in Comp : Sent(d)'
  BY SameSent DEF Crash
<1> QED BY <1>1, <1>2, <1>4, <1>5, <1>6

-----------------------------------------------------------------------------
(* Reservations *)

LEMMA ReservationLost ==
    ASSUME Account, unsaved = {}, NEW c \in Comp, ReserveFailed(c) \/ KeyExpired(c)
    PROVE  Account'
<1> USE DEF Account
<1>1. PICK a : Fail(c, a)
  BY DEF ReserveFailed, KeyExpired
<1>2. /\ UNCHANGED <<plan, pc, tier, todo, wait, out, world, fixed, forced>>
      /\ faults' = faults + 1 /\ faults < MaxFault
      /\ pc = "keys" \/ (pc = "seq" /\ todo = {})
  BY DEF ReserveFailed, KeyExpired, Fault
<1>3. op' = op
  BY <1>2 DEF fixed
<1>4. /\ task' \in [Comp -> Task] /\ db' \in [Comp -> Task] /\ unsaved' = {c}
      /\ \A d \in Comp : task'[d] = task[d] \/ task'[d].st = "failed"
      /\ \A d \in Comp : Traced(task[d])' /\ Traced(db[d])' /\ Stored(d)'
  BY <1>1, <1>3, FailEffect
<1>5. TypeOK'
  <2>1. faults' \in 0..MaxFault
    BY <1>2, SeqAssumption DEF TypeOK
  <2> QED BY <1>2, <1>4, <2>1 DEF TypeOK, plan, world, fixed
<1>6. Shape'
  BY <1>2 DEF Shape, plan, InTier, Loop
<1>7. \A d \in Comp : ~Unplanned(d)
  BY <1>2 DEF Unplanned
<1>8. \A d \in Comp : Planned(d)' /\ Counted(d)'
  BY <1>2, <1>3, <1>4, <1>7, Elsewhere
<1>9. \A d \in Comp : Sent(d)'
  BY <1>2, SameSent DEF Shape
<1> QED BY <1>4, <1>5, <1>6, <1>8, <1>9

LEMMA ReserveErrorAccount ==
    ASSUME Account, unsaved = {}, ReserveError PROVE Account'
<1> USE DEF Account
<1>1. /\ task' = Failing(task, {d \in Comp : IsOpen(d)})
      /\ db' = Failing(db, {d \in Comp : IsOpen(d)})
      /\ pc = "seq" /\ pc' = "end" /\ todo = {}
      /\ faults' = faults + 1 /\ faults < MaxFault
      /\ UNCHANGED <<plan, tier, todo, wait, out, unsaved, world, fixed, forced>>
  BY DEF ReserveError, Fault
<1>2. \A d \in Comp : task[d] = db[d]
  BY DEF Stored
<1>3. ASSUME NEW d \in Comp
      PROVE  /\ task'[d] = db'[d] /\ task'[d] \in Task /\ task'[d].st # "open"
             /\ task'[d].state = task[d].state /\ task'[d].op = task[d].op
             /\ task'[d] = task[d] \/ task'[d].st = "failed"
  <2>1. /\ task'[d] = IF IsOpen(d) THEN [task[d] EXCEPT !.st = "failed"] ELSE task[d]
        /\ db'[d] = IF IsOpen(d) THEN [db[d] EXCEPT !.st = "failed"] ELSE db[d]
    BY <1>1 DEF Failing
  <2> QED BY <1>2, <2>1 DEF IsOpen, TypeOK, Task, Status
<1>4. TypeOK'
  <2>1. faults' \in 0..MaxFault
    BY <1>1, SeqAssumption DEF TypeOK
  <2>2. task' \in [Comp -> Task] /\ db' \in [Comp -> Task]
    BY <1>1, <1>3 DEF Failing
  <2> QED BY <1>1, <2>1, <2>2 DEF TypeOK, plan, world, fixed
<1>5. Shape'
  <2>1. \A d \in Comp : ~IsOpen(d)'
    BY <1>3 DEF IsOpen
  <2> QED BY <1>1, <2>1 DEF Shape, Loop
<1>6. ASSUME NEW d \in Comp PROVE Planned(d)' /\ Counted(d)'
  <2>1. \A k \in 1..14 : Behind(d, k)' <=> Behind(d, k)
    BY <1>1 DEF Behind, Busy
  <2>2. ~Unplanned(d) /\ ~Unplanned(d)'
    BY <1>1 DEF Unplanned
  <2>3. op' = op /\ count' = count /\ seqMap' = seqMap /\ wait' = wait
    BY <1>1 DEF plan, fixed
  <2> QED BY <1>1, <1>3, <2>1, <2>2, <2>3, Untouched
<1>7. \A d \in Comp : Traced(task[d])' /\ Traced(db[d])' /\ Stored(d)'
  BY <1>1, <1>3 DEF Traced, Stored, fixed
<1>8. \A d \in Comp : Sent(d)'
  BY <1>1, SameSent DEF Shape
<1> QED BY <1>4, <1>5, <1>6, <1>7, <1>8

-----------------------------------------------------------------------------
(* Steps from one place to another *)

LEMMA WalkAccount ==
    ASSUME Account, NEW c \in Comp, Walk(c) PROVE Account'
<1> USE DEF Account
<1>1. /\ pc = "seq" /\ pc' = "walk"
      /\ UNCHANGED <<op, db, task, plan, tier, todo, wait, out, unsaved, world, fixed,
                     forced, faults>>
  BY DEF Walk, fixed
<1>2. TypeOK'
  BY <1>1 DEF TypeOK, plan, world, fixed
<1>3. Shape'
  BY <1>1 DEF Shape, Loop
<1>4. ASSUME NEW d \in Comp PROVE Planned(d)' /\ Counted(d)'
  <2>1. \A k \in 1..14 : Behind(d, k)' <=> Behind(d, k)
    BY <1>1 DEF Behind, Busy
  <2>2. Unplanned(d)' <=> Unplanned(d)
    BY <1>1 DEF Unplanned
  <2> QED BY <1>1, <2>1, <2>2, Untouched DEF plan
<1>5. \A d \in Comp : Sent(d)'
  BY <1>1, SameSent DEF Shape
<1> QED BY <1>1, <1>2, <1>3, <1>4, <1>5, SameTasks

LEMMA ReservedAccount ==
    ASSUME Account, Reserved PROVE Account'
<1> USE DEF Account
<1>1. /\ pc = "seq" /\ pc' = "tier" /\ todo = {} /\ tier' = 1
      /\ UNCHANGED <<op, db, task, plan, todo, wait, out, unsaved, world, fixed,
                     forced, faults>>
  BY DEF Reserved, fixed
<1>2. tier = 1
  BY <1>1 DEF Shape
<1>3. TypeOK'
  BY <1>1, <1>2 DEF TypeOK, plan, world, fixed
<1>4. Shape'
  BY <1>1 DEF Shape, Loop
<1>5. ASSUME NEW d \in Comp PROVE Planned(d)' /\ Counted(d)'
  <2>1. \A k \in 1..14 : Behind(d, k)' <=> Behind(d, k)
    BY <1>1, <1>2 DEF Behind, Busy
  <2>2. ~Unplanned(d)' /\ ~Unplanned(d)
    BY <1>1 DEF Unplanned
  <2> QED BY <1>1, <2>1, <2>2, Untouched DEF plan
<1>6. \A d \in Comp : Sent(d)'
  BY <1>1, SameSent DEF Shape
<1> QED BY <1>1, <1>3, <1>4, <1>5, <1>6, SameTasks

\* The next tier that has components: those in between had none.
LEMMA EnterTierAccount ==
    ASSUME Account, EnterTier PROVE Account'
<1> USE DEF Account
<1> DEFINE T == {k \in DOMAIN PowerSequenceFull : k >= tier /\ InTier(k) # {}}
<1>1. /\ pc = "tier" /\ wait = {} /\ todo = {} /\ out = {}
      /\ UNCHANGED <<op, db, task, plan, wait, out, unsaved, world, fixed,
                     forced, faults>>
  BY DEF EnterTier, fixed, Shape
<1>2. tier \in 1..15 /\ \A k : k \in T <=> k \in 1..14 /\ k >= tier /\ InTier(k) # {}
  BY Table DEF TypeOK
<1>5. \A d \in Comp : Sent(d)'
  BY <1>1, SameSent
<1>3. CASE T = {}
  <2>1. pc' = "end" /\ tier' = tier /\ todo' = todo
    BY <1>3 DEF EnterTier
  <2>2. TypeOK'
    BY <1>1, <2>1 DEF TypeOK, plan, world, fixed
  <2>3. Shape'
    <3>1. \A k \in 1..14 : k >= tier => InTier(k) = {}
      BY <1>2, <1>3
    <3>2. \A k \in 1..14 : k >= tier' => InTier(k)' = {}
      BY <1>1, <2>1, <3>1 DEF InTier, plan
    <3> QED BY <1>1, <2>1, <3>2 DEF Shape, Loop
  <2>4. ASSUME NEW d \in Comp PROVE Planned(d)' /\ Counted(d)'
    <3>1. \A k \in 1..14 : Behind(d, k)' <=> Behind(d, k)
      BY <1>1, <2>1 DEF Behind, Busy
    <3>2. ~Unplanned(d)' /\ ~Unplanned(d)
      BY <1>1, <2>1 DEF Unplanned
    <3> QED BY <1>1, <2>1, <3>1, <3>2, Untouched DEF plan
  <2> QED BY <1>1, <1>5, <2>2, <2>3, <2>4, SameTasks
<1>4. CASE T # {}
  <2>1. pc' = "keys" /\ tier' = (CHOOSE k \in T : \A j \in T : k <= j) /\ todo' = InTier(tier')
    BY <1>4 DEF EnterTier
  <2>2. \E k \in T : \A j \in T : k <= j
    BY <1>2, <1>4, FirstTier
  <2>3. tier' \in T /\ \A j \in T : tier' <= j
    BY <2>1, <2>2
  <2>4. InTier(tier') = InTier(tier)' /\ InTier(tier)' # {} /\ InTier(tier)' \subseteq Comp
    BY <1>1, <1>2, <2>3, TierOrder DEF InTier, plan, TypeOK
  <2>5. TypeOK'
    <3>1. tier' \in 1..Len(PowerSequenceFull) + 1
      BY <1>2, <2>3, Table
    <3>2. todo' \subseteq Comp /\ pc' = "keys"
      BY <2>1, <2>4
    <3> QED BY <1>1, <3>1, <3>2 DEF TypeOK, plan, world, fixed
  <2>6. Shape'
    BY <1>1, <1>2, <2>1, <2>3, <2>4 DEF Shape, Loop
  <2>7. ASSUME NEW d \in Comp PROVE Planned(d)' /\ Counted(d)'
    <3>1. ASSUME NEW k \in 1..14, d \in InTier(k) PROVE Behind(d, k)' <=> Behind(d, k)
      <4>1. k >= tier => k >= tier'
        BY <1>2, <2>3, <3>1
      <4>2. k = tier' => d \in Busy'
        BY <2>1, <3>1 DEF Busy
      <4>3. d \in Busy
        BY <1>1 DEF Busy
      <4>4. tier' \in 1..14 /\ tier <= tier'
        BY <1>2, <2>3
      <4> QED BY <1>2, <4>1, <4>2, <4>3, <4>4 DEF Behind
    <3>2. ~Unplanned(d)' /\ ~Unplanned(d)
      BY <1>1, <2>1 DEF Unplanned
    <3> QED BY <1>1, <2>1, <3>1, <3>2, Untouched DEF plan
  <2> QED BY <1>1, <1>5, <2>5, <2>6, <2>7, SameTasks
<1> QED BY <1>3, <1>4

\* Inside a tier: the keys are checked, or all commands are prepared and sent,
\* or the deadline has passed.
LEMMA WithinTier ==
    ASSUME Account, KeysChecked \/ Launch \/ Deadline PROVE Account'
<1> USE DEF Account
<1>1. /\ UNCHANGED <<op, db, task, plan, tier, todo, wait, out, unsaved, world, fixed,
                     faults>>
      /\ pc \in {"keys", "build", "confirm"} /\ pc' \in Loop /\ Busy' = Busy
      /\ pc = "keys" => pc' = "build"
      /\ pc # "keys" => todo = {}
      /\ pc' = "send" => pc = "build"
      /\ pc' \notin {"keys", "confirm"}
      /\ pc \in {"confirm", "keys"} => out = {}
      /\ pc = "build" => pc' = "send"
  BY DEF KeysChecked, Launch, Deadline, fixed, Loop, Busy, Shape
<1>2. forced' \subseteq Comp
  BY DEF KeysChecked, Launch, Deadline, TypeOK
<1>3. TypeOK'
  BY <1>1, <1>2 DEF TypeOK, plan, world, fixed, Loop
<1>4. Shape'
  BY <1>1 DEF Shape, Loop, plan, InTier
<1>5. ASSUME NEW d \in Comp PROVE Planned(d)' /\ Counted(d)'
  <2>1. \A k \in 1..14 : Behind(d, k)' <=> Behind(d, k)
    BY <1>1 DEF Behind
  <2>2. ~Unplanned(d)' /\ ~Unplanned(d)
    BY <1>1 DEF Unplanned, Loop
  <2>3. pc # "down" /\ pc' # "down"
    BY <1>1 DEF Loop
  <2> QED BY <1>1, <2>1, <2>2, <2>3, Untouched DEF plan
<1>6. \A d \in Comp : Sent(d)'
  BY <1>1, SameSent
<1> QED BY <1>1, <1>3, <1>4, <1>5, <1>6, SameTasks

\* The end of a tier, or of a round of confirmation.
LEMMA RoundEnds ==
    ASSUME Account, Answered \/ RoundDone \/ LateDone PROVE Account'
<1> USE DEF Account
<1>1. /\ UNCHANGED <<op, db, task, plan, wait, out, unsaved, world, fixed,
                     forced, faults>>
      /\ pc \in {"send", "confirm", "late"} /\ todo = {} /\ out = {}
      /\ \/ wait = {} /\ NextTier /\ todo' = {}
         \/ pc' = "confirm" /\ todo' = wait /\ tier' = tier
  BY DEF Answered, RoundDone, LateDone, fixed, Shape
<1>2. tier \in 1..14
  BY <1>1 DEF Shape, Loop
<1>3. CASE wait = {} /\ NextTier /\ todo' = {}
  <2>1. TypeOK'
    BY <1>1, <1>2, <1>3, Table DEF TypeOK, plan, world, fixed, NextTier
  <2>2. Shape'
    BY <1>1, <1>3 DEF Shape, Loop, NextTier
  <2>3. \A d \in Comp : Planned(d)' /\ Counted(d)'
    BY <1>1, <1>3, TierDone
  <2>4. \A d \in Comp : Sent(d)'
    BY <1>1, <1>3, SameSent
  <2> QED BY <1>1, <2>1, <2>2, <2>3, <2>4, SameTasks
<1>4. CASE pc' = "confirm" /\ todo' = wait /\ tier' = tier
  <2>1. TypeOK'
    BY <1>1, <1>4 DEF TypeOK, plan, world, fixed
  <2>2. Shape'
    BY <1>1, <1>4 DEF Shape, Loop, plan, InTier
  <2>3. ASSUME NEW d \in Comp PROVE Planned(d)' /\ Counted(d)'
    <3>1. \A k \in 1..14 : Behind(d, k)' <=> Behind(d, k)
      BY <1>1, <1>4 DEF Behind, Busy
    <3>2. ~Unplanned(d)' /\ ~Unplanned(d)
      BY <1>1, <1>4 DEF Unplanned
    <3> QED BY <1>1, <1>4, <3>1, <3>2, Untouched DEF plan
  <2>4. \A d \in Comp : Sent(d)'
    BY <1>1, <1>4, SameSent
  <2> QED BY <1>1, <2>1, <2>2, <2>3, <2>4, SameTasks
<1> QED BY <1>1, <1>3, <1>4

-----------------------------------------------------------------------------
(* sequenceComponents *)

\* What a component may be put down for: nothing, if it is finished.
Outcome(r) ==
    /\ r.task \in Task /\ Traced(r.task)
    /\ \/ r.into = {} /\ r.task.st \in {"failed", "succeeded", "unsupported"}
       \/ r.into \in {{"on"}, {"gracefulshutdown"}, {"forceoff"}, {"gracefulrestart"},
                      {"gracefulshutdown", "on"}, {"forceoff", "on"}}
            /\ r.task.st = "open"
    /\ r.into = {"gracefulrestart"} => op = "SoftRestart"

LEMMA FinishedOutcome ==
    ASSUME TypeOK, NEW c \in Comp, Traced(task[c]),
           NEW st \in {"failed", "succeeded", "unsupported"}
    PROVE  Outcome(Finished(c, st))
<1>1. task[c] \in Task
  BY DEF TypeOK
<1>2. /\ Finished(c, st).into = {} /\ Finished(c, st).task \in Task
      /\ Finished(c, st).task.st = st
      /\ Finished(c, st).task.state = task[c].state /\ Finished(c, st).task.op = task[c].op
  BY <1>1 DEF Finished, Task, Status
<1> QED BY <1>2 DEF Outcome, Traced

LEMMA PutOutcome ==
    ASSUME TypeOK, NEW c \in Comp, Traced(task[c]), IsOpen(c),
           NEW S \in {{"on"}, {"gracefulshutdown"}, {"forceoff"}, {"gracefulrestart"},
                      {"gracefulshutdown", "on"}, {"forceoff", "on"}},
           S = {"gracefulrestart"} => op = "SoftRestart"
    PROVE  Outcome(PutInto(c, S))
  BY DEF Outcome, PutInto, TypeOK, IsOpen

LEMMA OffOutcome ==
    ASSUME TypeOK, NEW c \in Comp, Traced(task[c]), IsOpen(c), PoweredOff(c)
    PROVE  Outcome(OffConfirmed(c))
<1>1. task[c] \in Task
  BY DEF TypeOK
<1>2. /\ OffConfirmed(c).into = {"on"} /\ OffConfirmed(c).task \in Task
      /\ OffConfirmed(c).task.st = "open"
      /\ OffConfirmed(c).task.state = "Confirmed" /\ OffConfirmed(c).task.op = task[c].op
  BY <1>1 DEF OffConfirmed, Task, State, IsOpen
<1> QED BY <1>2 DEF Outcome, Traced, PoweredOff

LEMMA SequencedOutcome ==
    ASSUME TypeOK, NEW c \in Comp, Traced(task[c]), IsOpen(c)
    PROVE  Outcome(Sequenced(c))
<1> DEFINE Sets == {{"on"}, {"gracefulshutdown"}, {"forceoff"}, {"gracefulrestart"},
                    {"gracefulshutdown", "on"}, {"forceoff", "on"}}
<1>1. \A st \in {"failed", "succeeded", "unsupported"} : Outcome(Finished(c, st))
  BY FinishedOutcome
<1>2. \A S \in Sets \ {{"gracefulrestart"}} : Outcome(PutInto(c, S))
  BY PutOutcome
<1>3. op = "SoftRestart" => Outcome(PutInto(c, {"gracefulrestart"}))
  BY PutOutcome
<1>4. PoweredOff(c) => Outcome(OffConfirmed(c))
  BY OffOutcome
<1>5. op \in {"SoftRestart", "HardRestart"} => Outcome(Interrupted(c))
  <2>1. HAVE op \in {"SoftRestart", "HardRestart"}
  <2>2. CASE task[c].state = "GatherData"
    BY <1>1, <2>2 DEF Interrupted
  <2>3. CASE task[c].state # "GatherData" /\ task[c].op = "On"
    <3>1. Outcome(PutInto(c, {"on"}))
      BY <1>2
    <3> QED BY <2>3, <3>1 DEF Interrupted, PoweredOff
  <2>4. CASE task[c].state # "GatherData" /\ PoweredOff(c)
    BY <1>4, <2>4 DEF Interrupted, PoweredOff
  <2>5. CASE task[c].state # "GatherData" /\ task[c].op = "SoftRestart" /\ op = "SoftRestart"
    BY <1>1, <2>5 DEF Interrupted, PoweredOff
  <2> QED BY <2>2, <2>3, <2>4, <2>5 DEF Traced, PoweredOff
<1>6. Outcome(Cycled(c))
  BY <1>1, <1>2 DEF Cycled
<1>7. op = "SoftRestart" => Outcome(SoftRestarted(c))
  BY <1>1, <1>3, <1>5, <1>6 DEF SoftRestarted
<1>8. op = "HardRestart" => Outcome(HardRestarted(c))
  BY <1>5, <1>6 DEF HardRestarted
<1>9. Outcome(Initialized(c))
  <2>1. Outcome(PutInto(c, {"on"})) /\ Outcome(PutInto(c, {"forceoff", "on"}))
          /\ Outcome(PutInto(c, {"gracefulshutdown", "on"}))
    BY <1>2
  <2>2. Outcome(Finished(c, "succeeded"))
    BY <1>1
  <2> QED BY <2>1, <2>2, <1>4 DEF Initialized, PoweredOff
<1>10. /\ Outcome(Unless(c, "on", {"on"})) /\ Outcome(Unless(c, "off", {"gracefulshutdown"}))
       /\ Outcome(Unless(c, "off", {"forceoff"}))
  BY <1>1, <1>2 DEF Unless
<1>11. CASE ~Supports(c, op)
  BY <1>1, <1>11 DEF Sequenced
<1>12. CASE Supports(c, op)
  <2>1. op \in Operation
    BY DEF TypeOK
  <2> QED BY <1>7, <1>8, <1>9, <1>10, <1>12, <2>1 DEF Sequenced, Operation
<1> QED BY <1>11, <1>12

\* How many actions those are.
LEMMA Sizes ==
    ASSUME NEW r, Outcome(r)
    PROVE  /\ r.into \subseteq Action
           /\ Cardinality(r.into) = (IF r.into \cap (Action \ {"on"}) # {} THEN 1 ELSE 0)
                                      + (IF "on" \in r.into THEN 1 ELSE 0)
<1>1. CASE r.into = {}
  BY <1>1, FS_EmptySet DEF Action
<1>2. ASSUME NEW a \in Action, r.into = {a}
      PROVE  Cardinality(r.into) = 1 /\ r.into \subseteq Action
  BY <1>2, FS_Singleton
<1>3. ASSUME NEW a \in {"gracefulshutdown", "forceoff"}, r.into = {a, "on"}
      PROVE  Cardinality(r.into) = 2 /\ r.into \subseteq Action
  <2>1. Cardinality({a}) = 1 /\ IsFiniteSet({a})
    BY FS_Singleton
  <2>2. Cardinality({a} \cup {"on"}) = 2
    BY <2>1, FS_AddElement
  <2>3. r.into = {a} \cup {"on"}
    BY <1>3
  <2> QED BY <2>2, <2>3 DEF Action
<1>4. CASE r.into = {"on"}
  BY <1>2, <1>4 DEF Action
<1>5. CASE r.into = {"gracefulshutdown"}
  BY <1>2, <1>5 DEF Action
<1>6. CASE r.into = {"forceoff"}
  BY <1>2, <1>6 DEF Action
<1>7. CASE r.into = {"gracefulrestart"}
  BY <1>2, <1>7 DEF Action
<1>8. CASE r.into = {"gracefulshutdown", "on"}
  BY <1>3, <1>8 DEF Action
<1>9. CASE r.into = {"forceoff", "on"}
  BY <1>3, <1>9 DEF Action
<1> QED BY <1>1, <1>4, <1>5, <1>6, <1>7, <1>8, <1>9 DEF Outcome

LEMMA SequenceCompAccount ==
    ASSUME Account, unsaved = {}, NEW c \in Comp, SequenceComp(c) PROVE Account'
<1> USE DEF Account
<1> DEFINE r == Sequenced(c)
<1>1. /\ pc = "seq" /\ pc' = "seq" /\ c \in todo /\ todo' = todo \ {c}
      /\ Update(c, r.task)
      /\ count' = [count EXCEPT ![c] = Cardinality(r.into)]
      /\ seqMap' = [a \in Action |-> IF a \in r.into THEN seqMap[a] \cup {c} ELSE seqMap[a]]
      /\ UNCHANGED <<op, snap, tier, wait, out, unsaved, world, fixed, forced, faults>>
  BY DEF SequenceComp, fixed
<1>2. /\ IsOpen(c) /\ count[c] = 0 /\ \A a \in Action : c \notin seqMap[a]
      /\ tier = 1 /\ wait = {} /\ out = {}
  BY <1>1 DEF Planned, Unplanned, Shape
<1>3. Outcome(r)
  BY <1>2, SequencedOutcome
<1> HIDE DEF r
<1>4. /\ task' \in [Comp -> Task] /\ db' \in [Comp -> Task] /\ task'[c] = r.task
      /\ \A d \in Comp \ {c} : task'[d] = task[d]
      /\ \A d \in Comp : Traced(task[d])' /\ Traced(db[d])' /\ Stored(d)'
  BY <1>1, <1>3, UpdateEffect DEF Outcome
<1>5. /\ Cardinality(r.into) \in 0..2 /\ r.into \subseteq Action
      /\ Cardinality(r.into) = (IF r.into \cap (Action \ {"on"}) # {} THEN 1 ELSE 0)
                                  + (IF "on" \in r.into THEN 1 ELSE 0)
  BY <1>3, Sizes
<1>6. TypeOK'
  <2>1. count' \in [Comp -> 0..2]
    BY <1>1, <1>5 DEF TypeOK
  <2>2. seqMap' \in [Action -> SUBSET Comp]
    BY <1>1 DEF TypeOK
  <2> QED BY <1>1, <1>4, <2>1, <2>2 DEF TypeOK, world, fixed
<1>7. Shape'
  BY <1>1, <1>2 DEF Shape, Loop
<1>8. ASSUME NEW d \in Comp, d # c PROVE Planned(d)' /\ Counted(d)'
  <2>1. \A k \in 1..14 : Behind(d, k)' <=> Behind(d, k)
    BY <1>1 DEF Behind, Busy
  <2>2. Unplanned(d)' <=> Unplanned(d)
    BY <1>1, <1>8 DEF Unplanned
  <2>3. \A a \in Action : d \in seqMap'[a] <=> d \in seqMap[a]
    BY <1>1, <1>8
  <2>4. count'[d] = count[d]
    BY <1>1, <1>8 DEF TypeOK
  <2> QED BY <1>1, <1>4, <1>8, <2>1, <2>2, <2>3, <2>4, Untouched
<1>9. Planned(c)' /\ Counted(c)'
  <2>1. \A a \in Action : c \in seqMap'[a] <=> a \in r.into
    BY <1>1, <1>2
  <2>2. \A a : ~Done(c, a)'
    <3>1. \A k \in 1..14 : ~Behind(c, k)'
      BY <1>1, <1>2 DEF Behind, Busy
    <3> QED BY <3>1 DEF Done
  <2>3. \A a \in Action : Due(c, a)' <=> a \in r.into
    BY <2>1, <2>2 DEF Due
  <2>4. (DownDue(c)' <=> r.into \cap (Action \ {"on"}) # {}) /\ (OnDue(c)' <=> "on" \in r.into)
    BY <2>3 DEF DownDue, OnDue, Action
  <2>5. count'[c] = Owed(c)'
    BY <1>1, <1>5, <2>4 DEF Owed, TypeOK
  <2>6. ~Unplanned(c)'
    BY <1>1 DEF Unplanned
  <2>7. Planned(c)'
    BY <1>1, <1>3, <2>1, <2>3, <2>6 DEF Planned, Outcome, Action
  <2>8. r.into = {} => count'[c] = 0
    BY <2>5, <2>4 DEF Owed
  <2>9. r.into # {} => count'[c] >= 1
    <3>1. HAVE r.into # {}
    <3>2. r.into \cap (Action \ {"on"}) # {} \/ "on" \in r.into
      BY <3>1, <1>5
    <3> QED BY <3>2, <2>4, <2>5 DEF Owed
  <2>10. Counted(c)'
    BY <1>1, <1>3, <1>4, <2>5, <2>6, <2>8, <2>9 DEF Counted, Outcome, IsOpen
  <2> QED BY <2>7, <2>10
<1>10. \A d \in Comp : Sent(d)'
  BY <1>1, <1>2, SameSent
<1> QED BY <1>4, <1>6, <1>7, <1>8, <1>9, <1>10

-----------------------------------------------------------------------------
(* The tiers *)

\* The action of the current tier is due for those it is busy with, and is the
\* only one that turns them off or restarts them if it is that.
LEMMA CurrentDue ==
    ASSUME Account, pc \in Loop, NEW c \in Comp, c \in InTier(tier), c \in Busy
    PROVE  /\ powerAction \in Action /\ Due(c, powerAction)
           /\ count[c] = Owed(c) => count[c] >= 1
<1> USE DEF Account
<1>1. tier \in 1..14 /\ powerAction \in Action
  BY TierOrder DEF Shape, powerAction
<1>2. Serves(tier, c, powerAction) /\ c \in seqMap[powerAction]
  BY DEF InTier, Serves, powerAction
<1>3. ~Done(c, powerAction)
  <2> SUFFICES ASSUME NEW k \in 1..14, Serves(k, c, powerAction), Behind(c, k) PROVE FALSE
    BY DEF Done
  <2>1. k = tier
    BY <1>1, <1>2, OnePlace
  <2> QED BY <2>1, <1>1 DEF Behind
<1>4. Due(c, powerAction)
  BY <1>2, <1>3 DEF Due
<1>5. DownDue(c) \/ OnDue(c)
  BY <1>1, <1>4 DEF DownDue, OnDue, Action
<1> QED BY <1>1, <1>4, <1>5 DEF Owed

\* A component that has failed is dropped from the tier, and others may fail
\* with it.
LEMMA Dropped ==
    ASSUME Account, pc \in Loop, pc' = pc, tier' = tier, op' = op, NEW c \in Comp,
           UNCHANGED <<count, seqMap>>,
           Busy' \in {Busy, Busy \ {c}}, wait' \in {wait, wait \ {c}}, c \notin wait',
           \A d \in Comp : task'[d] = task[d] \/ task'[d].st = "failed",
           task'[c].st = "failed"
    PROVE  \A d \in Comp : Planned(d)' /\ Counted(d)'
<1> USE DEF Account
<1> TAKE d \in Comp
<1>1. ~Unplanned(d) /\ ~Unplanned(d)' /\ pc # "down" /\ pc' # "down"
  BY DEF Unplanned, Loop
<1>2. CASE d # c
  <2>1. \A k \in 1..14 : Behind(d, k)' <=> Behind(d, k)
    BY <1>2 DEF Behind
  <2> QED BY <1>1, <2>1, Untouched
<1>3. CASE d = c
  <2>1. \A a \in Action : Due(c, a)' => Due(c, a)
    <3>1. \A k \in 1..14 : Behind(c, k) => Behind(c, k)'
      BY DEF Behind
    <3> QED BY <3>1 DEF Due, Done, Serves
  <2>2. Planned(c)'
    <3>1. Due(c, "gracefulshutdown")' => Due(c, "gracefulshutdown")
      BY <2>1 DEF Action
    <3>2. Planned(c) /\ ~Unplanned(c)'
      BY <1>1, <1>3
    <3> QED BY <3>1, <3>2 DEF Planned
  <2>3. Counted(c)'
    BY <1>1 DEF Counted, IsOpen
  <2> QED BY <1>3, <2>2, <2>3
<1> QED BY <1>2, <1>3

LEMMA BuildAccount ==
    ASSUME Account, unsaved = {}, NEW c \in Comp, Build(c) PROVE Account'
<1> USE DEF Account
<1>1. /\ pc = "build" /\ pc' = pc /\ c \in todo /\ todo' = todo \ {c} /\ tier' = tier
      /\ UNCHANGED <<op, plan, world, fixed, forced, faults>>
  BY DEF Build, fixed
<1>2. /\ tier \in 1..14 /\ c \in InTier(tier) /\ InTier(tier)' = InTier(tier)
      /\ todo \subseteq InTier(tier) /\ wait \subseteq InTier(tier) /\ InTier(tier) # {}
  BY <1>1 DEF Shape, Loop, InTier, plan
<1>3. Busy = todo \cup wait /\ Busy' = todo' \cup wait'
  BY <1>1 DEF Busy
<1>4. ASSUME task' \in [Comp -> Task], db' \in [Comp -> Task], unsaved' \subseteq Comp,
             wait' \in {wait, wait \cup {c}}, out' \in {out, out \cup {c}},
             out' # out => wait' = wait \cup {c}
      PROVE  TypeOK' /\ Shape'
  <2>1. wait' \subseteq InTier(tier) /\ out' \subseteq wait' /\ wait' \subseteq Comp
    BY <1>2, <1>4 DEF TypeOK
  <2>2. TypeOK'
    BY <1>1, <1>4, <2>1 DEF TypeOK, plan, world, fixed
  <2>3. todo' \cap wait' = {} /\ todo' \subseteq InTier(tier)
    BY <1>1, <1>2, <1>4 DEF Shape
  <2>4. Shape'
    BY <1>1, <1>2, <2>1, <2>3 DEF Shape, Loop
  <2> QED BY <2>2, <2>4
<1>5. CASE task[c].st = "failed" /\ UNCHANGED <<task, db, wait, out, unsaved>>
  <2>1. c \notin wait' /\ Busy' = Busy \ {c}
    BY <1>1, <1>3, <1>5 DEF Shape
  <2>2. \A d \in Comp : Planned(d)' /\ Counted(d)'
    BY <1>1, <1>5, <2>1, Dropped DEF Loop, plan
  <2>3. TypeOK' /\ Shape'
    BY <1>4, <1>5 DEF TypeOK
  <2>4. \A d \in Comp : Sent(d)'
    BY <1>1, <1>5, SameSent
  <2> QED BY <1>1, <1>5, <2>2, <2>3, <2>4, SameTasks
<1>6. ASSUME task[c].st # "failed", wait' = wait \cup {c},
             \A d \in Comp : task'[d].st = task[d].st
      PROVE  \A d \in Comp : Planned(d)' /\ Counted(d)'
  <2> TAKE d \in Comp
  <2>1. Busy' = Busy
    BY <1>1, <1>3, <1>6
  <2>2. \A k \in 1..14 : Behind(d, k)' <=> Behind(d, k)
    BY <1>1, <2>1 DEF Behind
  <2>3. ~Unplanned(d) /\ ~Unplanned(d)'
    BY <1>1 DEF Unplanned
  <2>4. d \in wait' => d \in wait \/ task[d].st # "failed"
    BY <1>6
  <2> QED BY <1>1, <1>6, <2>2, <2>3, <2>4, Untouched DEF plan
<1>7. CASE /\ task[c].st # "failed" /\ wait' = wait \cup {c}
           /\ task[c].state = "Waiting" /\ task[c].op = OpFor(powerAction)
           /\ UNCHANGED <<task, db, out, unsaved>>
  <2>1. TypeOK' /\ Shape'
    BY <1>4, <1>7 DEF TypeOK
  <2>2. \A d \in Comp : Sent(d)'
    BY <1>1, <1>7 DEF Sent, powerAction
  <2> QED BY <1>1, <1>6, <1>7, <2>1, <2>2, SameTasks
<1>8. CASE Fail(c, powerAction) /\ UNCHANGED <<wait, out>>
  <2>1. /\ task' \in [Comp -> Task] /\ db' \in [Comp -> Task] /\ unsaved' = {c}
        /\ task'[c].st = "failed"
        /\ \A d \in Comp : task'[d] = task[d] \/ task'[d].st = "failed"
        /\ \A d \in Comp : task'[d].state = task[d].state /\ task'[d].op = task[d].op
        /\ \A d \in Comp : Traced(task[d])' /\ Traced(db[d])' /\ Stored(d)'
    BY <1>1, <1>8, FailEffect
  <2>2. c \notin wait' /\ Busy' = Busy \ {c}
    BY <1>1, <1>3, <1>8 DEF Shape
  <2>3. \A d \in Comp : Planned(d)' /\ Counted(d)'
    BY <1>1, <1>8, <2>1, <2>2, Dropped DEF Loop, plan
  <2>4. TypeOK' /\ Shape'
    BY <1>4, <1>8, <2>1
  <2>5. \A d \in Comp : Sent(d)'
    BY <1>1, <1>8, <2>1, SameSent DEF TypeOK
  <2> QED BY <2>1, <2>3, <2>4, <2>5
<1>9. CASE /\ task[c].st # "failed"
           /\ Update(c, [task[c] EXCEPT !.state = "Sending", !.op = OpFor(powerAction)])
           /\ wait' = wait \cup {c} /\ out' = out \cup {c} /\ unsaved' = unsaved
  <2> DEFINE t == [task[c] EXCEPT !.state = "Sending", !.op = OpFor(powerAction)]
  <2>1. powerAction \in Action /\ c \in seqMap[powerAction]
    BY <1>2, TierOrder DEF powerAction, InTier
  <2>2. powerAction = "gracefulrestart" => op = "SoftRestart"
    BY <2>1 DEF Planned
  <2>3. /\ OpFor(powerAction) \in {"Off", "ForceOff", "On", "SoftRestart"}
        /\ OpFor(powerAction) = "SoftRestart" => op = "SoftRestart"
    BY <2>1, <2>2 DEF OpFor, Action
  <2>4. t \in Task /\ t.state = "Sending" /\ t.op = OpFor(powerAction) /\ t.st = task[c].st
    <3>1. task[c] \in Task /\ OpFor(powerAction) \in Operation
      BY <2>3 DEF TypeOK, Operation
    <3> QED BY <3>1 DEF Task, State
  <2>5. Traced(t)
    BY <2>3, <2>4 DEF Traced
  <2>6. Update(c, t)
    BY <1>9
  <2> HIDE DEF t
  <2>7. /\ task' \in [Comp -> Task] /\ db' \in [Comp -> Task] /\ task'[c] = t
        /\ \A d \in Comp \ {c} : task'[d] = task[d]
        /\ \A d \in Comp : Traced(task[d])' /\ Traced(db[d])' /\ Stored(d)'
    BY <1>1, <1>9, <2>4, <2>5, <2>6, UpdateEffect
  <2>8. \A d \in Comp : task'[d].st = task[d].st
    BY <2>4, <2>7
  <2>9. TypeOK' /\ Shape'
    BY <1>4, <1>9, <2>7
  <2>10. \A d \in Comp : Sent(d)'
    <3>1. powerAction' = powerAction
      BY <1>1 DEF powerAction
    <3>2. task'[c].state # "GatherData" /\ task'[c].op = OpFor(powerAction)
      BY <2>4, <2>7
    <3>3. \A d \in wait : d # c => task'[d] = task[d]
      BY <2>7 DEF TypeOK
    <3> QED BY <1>9, <3>1, <3>2, <3>3 DEF Sent
  <2> QED BY <1>6, <1>9, <2>7, <2>8, <2>9, <2>10
<1>10. \/ task[c].st = "failed" /\ UNCHANGED <<task, db, wait, out, unsaved>>
       \/ task[c].st # "failed" /\ wait' = wait \cup {c}
             /\ task[c].state = "Waiting" /\ task[c].op = OpFor(powerAction)
             /\ UNCHANGED <<task, db, out, unsaved>>
       \/ Fail(c, powerAction) /\ UNCHANGED <<wait, out>>
       \/ task[c].st # "failed"
             /\ Update(c, [task[c] EXCEPT !.state = "Sending", !.op = OpFor(powerAction)])
             /\ wait' = wait \cup {c} /\ out' = out \cup {c} /\ unsaved' = unsaved
  BY DEF Build
<1> QED BY <1>5, <1>7, <1>8, <1>9, <1>10

\* The answer of a controller, when answers are confirmed.
LEMMA ResponseAccount ==
    ASSUME ~NoWait, Account, unsaved = {}, NEW c \in Comp, Response(c) PROVE Account'
<1> USE DEF Account
<1>1. /\ pc = "send" /\ pc' = pc /\ c \in out /\ out' = out \ {c}
      /\ UNCHANGED <<op, snap, seqMap, tier, todo, hw, mon, wentOff, cut, fixed, forced>>
  BY DEF Response, fixed
<1>2. /\ tier \in 1..14 /\ c \in wait /\ InTier(tier)' = InTier(tier) /\ todo = {}
      /\ wait \subseteq InTier(tier) /\ InTier(tier) # {} /\ powerAction \in Action
  BY <1>1, TierOrder DEF Shape, Loop, InTier, TypeOK, powerAction
<1>3. /\ count' = count /\ faults' \in {faults, faults + 1}
      /\ faults' # faults => faults < MaxFault
      /\ cmd' \in {cmd, [cmd EXCEPT ![c] = powerAction]}
      /\ \/ Update(c, Accepted(c)) /\ UNCHANGED <<wait, unsaved>>
         \/ Fail(c, powerAction) /\ wait' = wait \ {c}
  <2>1. count' = count
    BY DEF Response, TypeOK
  <2> QED BY <2>1 DEF Response, Fault, NoFault
<1>4. ASSUME task' \in [Comp -> Task], db' \in [Comp -> Task], unsaved' \subseteq Comp,
             wait' \in {wait, wait \ {c}}
      PROVE  TypeOK' /\ Shape'
  <2>1. faults' \in 0..MaxFault /\ cmd' \in [Comp -> Action \cup {"none"}]
    BY <1>2, <1>3, SeqAssumption DEF TypeOK
  <2>2. wait' \subseteq InTier(tier) /\ out' \subseteq wait' /\ wait' \subseteq Comp
    BY <1>1, <1>2, <1>4 DEF TypeOK
  <2>3. TypeOK'
    BY <1>1, <1>3, <1>4, <2>1, <2>2 DEF TypeOK, fixed
  <2>4. Shape'
    BY <1>1, <1>2, <2>2 DEF Shape, Loop
  <2> QED BY <2>3, <2>4
<1>5. CASE Update(c, Accepted(c)) /\ UNCHANGED <<wait, unsaved>>
  <2>1. /\ Accepted(c) \in Task /\ Accepted(c).st = "open"
        /\ Accepted(c).state = "Waiting" /\ Accepted(c).op = task[c].op
    <3>1. Accepted(c) = [task[c] EXCEPT !.state = "Waiting", !.st = "open"]
      BY DEF Accepted
    <3>2. task[c] \in Task
      BY DEF TypeOK
    <3> HIDE DEF Accepted
    <3> QED BY <3>1, <3>2 DEF Task, State, Status
  <2>2. Traced(Accepted(c))
    <3>1. task[c].state # "GatherData" /\ Traced(task[c])
      BY <1>2 DEF Sent
    <3> QED BY <2>1, <3>1 DEF Traced
  <2>3. /\ task' \in [Comp -> Task] /\ db' \in [Comp -> Task] /\ task'[c] = Accepted(c)
        /\ \A d \in Comp \ {c} : task'[d] = task[d]
        /\ \A d \in Comp : Traced(task[d])' /\ Traced(db[d])' /\ Stored(d)'
    BY <1>1, <1>5, <2>1, <2>2, UpdateEffect
  <2>4. count[c] >= 1
    <3>1. count[c] = Owed(c)
      BY <1>2 DEF Counted
    <3>2. c \in Busy
      BY <1>1, <1>2 DEF Busy
    <3> QED BY <1>1, <1>2, <3>1, <3>2, CurrentDue DEF Loop
  <2>5. ASSUME NEW d \in Comp PROVE Planned(d)' /\ Counted(d)'
    <3>1. \A k \in 1..14 : Behind(d, k)' <=> Behind(d, k)
      BY <1>1, <1>5 DEF Behind, Busy
    <3>2. ~Unplanned(d) /\ ~Unplanned(d)'
      BY <1>1 DEF Unplanned
    <3> QED BY <1>1, <1>2, <1>3, <1>5, <2>1, <2>3, <2>4, <3>1, <3>2, Untouched
  <2>6. \A d \in Comp : Sent(d)'
    BY <1>1, <1>5, <2>1, <2>3, SameSent DEF TypeOK
  <2> QED BY <1>4, <1>5, <2>3, <2>5, <2>6
<1>6. CASE Fail(c, powerAction) /\ wait' = wait \ {c}
  <2>1. /\ task' \in [Comp -> Task] /\ db' \in [Comp -> Task] /\ unsaved' = {c}
        /\ task'[c].st = "failed"
        /\ \A d \in Comp : task'[d] = task[d] \/ task'[d].st = "failed"
        /\ \A d \in Comp : task'[d].state = task[d].state /\ task'[d].op = task[d].op
        /\ \A d \in Comp : Traced(task[d])' /\ Traced(db[d])' /\ Stored(d)'
    BY <1>1, <1>6, FailEffect
  <2>2. c \notin wait' /\ Busy' = Busy \ {c}
    BY <1>1, <1>6 DEF Busy
  <2>3. \A d \in Comp : Planned(d)' /\ Counted(d)'
    BY <1>1, <1>3, <1>6, <2>1, <2>2, Dropped DEF Loop
  <2>4. \A d \in Comp : Sent(d)'
    BY <1>1, <1>6, <2>1, SameSent DEF TypeOK
  <2> QED BY <1>4, <1>6, <2>1, <2>3, <2>4
<1> QED BY <1>3, <1>5, <1>6

\* When the tier is done with c, one action less is due.
LEMMA Settled ==
    ASSUME Account, pc \in Loop, NEW c \in Comp, c \in InTier(tier), c \in Busy,
           UNCHANGED <<tier, seqMap>>, Busy' = Busy \ {c}
    PROVE  /\ \A a \in Action : Due(c, a)' => Due(c, a)
           /\ Owed(c)' = Owed(c) - 1
<1> USE DEF Account
<1>0. PICK x \in Action : x = powerAction
  BY CurrentDue
<1>1. tier \in 1..14 /\ Due(c, x)
  BY <1>0, CurrentDue DEF Shape
<1>2. Serves(tier, c, x)
  BY <1>0 DEF InTier, Serves, powerAction
<1>3. \A k \in 1..14 : k # tier => (Behind(c, k)' <=> Behind(c, k))
  BY <1>1 DEF Behind
<1>4. Behind(c, tier)'
  BY <1>1 DEF Behind
<1>5. ~Due(c, x)'
  BY <1>1, <1>2, <1>4 DEF Due, Done, Serves
<1>6. ASSUME NEW a \in Action, a # x PROVE Due(c, a)' <=> Due(c, a)
  <2>1. ~Serves(tier, c, a)
    BY <1>2, <1>6 DEF Serves
  <2>2. Done(c, a)' <=> Done(c, a)
    BY <1>3, <2>1 DEF Done, Serves
  <2> QED BY <2>2 DEF Due
<1>7. CASE x = "on"
  <2>1. (DownDue(c)' <=> DownDue(c)) /\ OnDue(c) /\ ~OnDue(c)'
    BY <1>1, <1>5, <1>6, <1>7 DEF DownDue, OnDue
  <2> QED BY <1>1, <1>5, <1>6, <2>1 DEF Owed
<1>8. CASE x # "on"
  <2>1. (OnDue(c)' <=> OnDue(c)) /\ DownDue(c)
    BY <1>1, <1>6, <1>8 DEF DownDue, OnDue, Action
  <2>2. ASSUME NEW a \in Action \ {"on"}, a # x PROVE ~Due(c, a)
    <3>1. Planned(c) /\ c \in seqMap[x]
      BY <1>1 DEF Due
    <3>2. CASE x = "gracefulrestart" \/ a = "gracefulrestart"
      BY <2>2, <1>1, <3>1, <3>2 DEF Planned, Due, Action
    <3>3. CASE x = "gracefulshutdown" /\ a = "forceoff"
      BY <1>1, <3>1, <3>3 DEF Planned, Due
    <3>4. CASE x = "forceoff" /\ a = "gracefulshutdown"
      BY <3>1, <3>4 DEF Planned
    <3> QED BY <1>1, <1>8, <2>2, <3>2, <3>3, <3>4 DEF Action
  <2>3. ~DownDue(c)'
    BY <1>5, <1>6, <2>2 DEF DownDue
  <2> QED BY <1>1, <1>5, <1>6, <2>1, <2>3 DEF Owed
<1> QED BY <1>7, <1>8

LEMMA ConfirmAccount ==
    ASSUME Account, unsaved = {}, NEW c \in Comp, Confirm(c) PROVE Account'
<1> USE DEF Account
<1>1. /\ pc = "confirm" /\ pc' = pc /\ c \in todo /\ todo' = todo \ {c}
      /\ UNCHANGED <<op, snap, seqMap, tier, out, world, fixed, forced>>
  BY DEF Confirm, fixed
<1>2. /\ tier \in 1..14 /\ c \in wait /\ InTier(tier)' = InTier(tier) /\ out = {}
      /\ wait \subseteq InTier(tier) /\ InTier(tier) # {} /\ todo \subseteq wait
      /\ todo \subseteq InTier(tier)
  BY <1>1 DEF Shape, Loop, InTier
<1>3. c \in Busy /\ Busy = wait /\ Busy' = wait'
  BY <1>1, <1>2 DEF Busy
<1>4. faults' \in 0..MaxFault
  BY SeqAssumption DEF Confirm, Fault, NoFault, TypeOK
<1>5. ASSUME task' \in [Comp -> Task], db' \in [Comp -> Task], unsaved' \subseteq Comp,
             wait' = wait \ {c} \/ (wait' = wait /\ task' = task), count' \in [Comp -> 0..2]
      PROVE  TypeOK' /\ Shape'
  <2>1. /\ wait' \subseteq InTier(tier) /\ out' \subseteq wait' /\ wait' \subseteq Comp
        /\ todo' \subseteq wait'
    BY <1>1, <1>2, <1>5 DEF TypeOK
  <2>2. TypeOK'
    BY <1>1, <1>4, <1>5, <2>1 DEF TypeOK, world, fixed
  <2>3. Shape'
    BY <1>1, <1>2, <2>1 DEF Shape, Loop
  <2> QED BY <2>2, <2>3
<1>6. CASE /\ Update(c, Confirmed(c)) /\ count' = [count EXCEPT ![c] = @ - 1]
           /\ wait' = wait \ {c} /\ unsaved' = unsaved
  <2>1. count[c] = Owed(c) /\ count[c] >= 1 /\ count[c] \in 0..2
    BY <1>1, <1>2, <1>3, CurrentDue DEF Counted, Loop, TypeOK
  <2>2. /\ Confirmed(c) \in Task /\ Confirmed(c).state = "Confirmed"
        /\ Confirmed(c).op = task[c].op
        /\ Confirmed(c).st = IF count[c] = 1 THEN "succeeded" ELSE task[c].st
    <3>1. task[c] \in Task
      BY DEF TypeOK
    <3> QED BY <3>1 DEF Confirmed, Task, State, Status
  <2>3. Traced(Confirmed(c))
    <3>1. task[c].state # "GatherData" /\ Traced(task[c])
      BY <1>2 DEF Sent
    <3> QED BY <2>2, <3>1 DEF Traced
  <2>4. /\ task' \in [Comp -> Task] /\ db' \in [Comp -> Task] /\ task'[c] = Confirmed(c)
        /\ \A d \in Comp \ {c} : task'[d] = task[d]
        /\ \A d \in Comp : Traced(task[d])' /\ Traced(db[d])' /\ Stored(d)'
    BY <1>1, <1>6, <2>2, <2>3, UpdateEffect
  <2>5. /\ count' \in [Comp -> 0..2] /\ count'[c] = count[c] - 1
        /\ \A d \in Comp \ {c} : count'[d] = count[d]
    BY <1>6, <2>1 DEF TypeOK
  <2>6. TypeOK' /\ Shape'
    BY <1>5, <1>6, <2>4, <2>5
  <2>7. \A d \in Comp : ~Unplanned(d) /\ ~Unplanned(d)'
    BY <1>1 DEF Unplanned
  <2>8. ASSUME NEW d \in Comp, d # c PROVE Planned(d)' /\ Counted(d)'
    <3>1. \A k \in 1..14 : Behind(d, k)' <=> Behind(d, k)
      BY <1>1, <1>3, <1>6, <2>8 DEF Behind
    <3> QED BY <1>1, <1>6, <2>4, <2>5, <2>7, <2>8, <3>1, Untouched
  <2>9. Planned(c)' /\ Counted(c)'
    <3>1. (\A a \in Action : Due(c, a)' => Due(c, a)) /\ Owed(c)' = Owed(c) - 1
      BY <1>1, <1>2, <1>3, <1>6, Settled DEF Loop
    <3>2. Planned(c)'
      <4>1. Due(c, "gracefulshutdown")' => Due(c, "gracefulshutdown")
        BY <3>1 DEF Action
      <4>2. Planned(c) /\ ~Unplanned(c)'
        BY <2>7
      <4> QED BY <1>1, <4>1, <4>2 DEF Planned
    <3>3. count'[c] = Owed(c)'
      BY <2>1, <2>5, <3>1
    <3>4. task[c].st \notin {"succeeded", "unsupported"}
      BY <2>1 DEF Counted
    <3>5. task'[c].st \in {"succeeded", "unsupported"} => count'[c] = 0
      BY <2>1, <2>2, <2>4, <2>5, <3>4
    <3>6. task'[c].st = "open" => count'[c] >= 1
      BY <2>1, <2>2, <2>4, <2>5
    <3>7. Counted(c)'
      BY <3>3, <3>5, <3>6 DEF Counted, IsOpen
    <3> QED BY <3>2, <3>7
  <2>10. \A d \in Comp : Sent(d)'
    BY <1>1, <1>6, <2>4, SameSent DEF TypeOK
  <2> QED BY <2>4, <2>6, <2>8, <2>9, <2>10
<1>7. CASE UNCHANGED <<task, db, count, wait, unsaved>>
  <2>1. TypeOK' /\ Shape'
    BY <1>5, <1>7 DEF TypeOK
  <2>2. ASSUME NEW d \in Comp PROVE Planned(d)' /\ Counted(d)'
    <3>1. \A k \in 1..14 : Behind(d, k)' <=> Behind(d, k)
      BY <1>1, <1>3, <1>7 DEF Behind
    <3>2. ~Unplanned(d) /\ ~Unplanned(d)'
      BY <1>1 DEF Unplanned
    <3> QED BY <1>1, <1>7, <3>1, <3>2, Untouched
  <2>3. \A d \in Comp : Sent(d)'
    BY <1>1, <1>7, SameSent
  <2> QED BY <1>1, <1>7, <2>1, <2>2, <2>3, SameTasks
<1>8. CASE Fail(c, powerAction) /\ wait' = wait \ {c} /\ count' = count
  <2>1. /\ task' \in [Comp -> Task] /\ db' \in [Comp -> Task] /\ unsaved' = {c}
        /\ task'[c].st = "failed"
        /\ \A d \in Comp : task'[d] = task[d] \/ task'[d].st = "failed"
        /\ \A d \in Comp : task'[d].state = task[d].state /\ task'[d].op = task[d].op
        /\ \A d \in Comp : Traced(task[d])' /\ Traced(db[d])' /\ Stored(d)'
    BY <1>1, <1>8, FailEffect
  <2>2. c \notin wait' /\ Busy' = Busy \ {c}
    BY <1>3, <1>8
  <2>3. \A d \in Comp : Planned(d)' /\ Counted(d)'
    BY <1>1, <1>8, <2>1, <2>2, Dropped DEF Loop
  <2>4. TypeOK' /\ Shape'
    BY <1>5, <1>8, <2>1 DEF TypeOK
  <2>5. \A d \in Comp : Sent(d)'
    BY <1>1, <1>8, <2>1, SameSent DEF TypeOK
  <2> QED BY <2>1, <2>3, <2>4, <2>5
<1> QED BY <1>6, <1>7, <1>8 DEF Confirm

\* Too late: a shutdown gives way to the forceoff of the next tier, which the
\* same count stands for.
LEMMA LateAccount ==
    ASSUME Account, unsaved = {}, NEW c \in Comp, Late(c) PROVE Account'
<1> USE DEF Account
<1>1. /\ pc = "late" /\ pc' = pc /\ c \in wait /\ wait' = wait \ {c}
      /\ UNCHANGED <<op, snap, count, tier, todo, out, world, fixed, forced, faults>>
  BY DEF Late, fixed
<1>2. /\ tier \in 1..14 /\ c \in InTier(tier) /\ out = {} /\ todo = {}
      /\ wait \subseteq InTier(tier) /\ InTier(tier) # {}
  BY <1>1 DEF Shape, Loop
<1>3. c \in Busy /\ Busy = wait /\ Busy' = wait'
  BY <1>1 DEF Busy
<1>4. ASSUME task' \in [Comp -> Task], db' \in [Comp -> Task], unsaved' \subseteq Comp,
             seqMap' \in [Action -> SUBSET Comp], InTier(tier)' = InTier(tier)
      PROVE  TypeOK' /\ Shape'
  <2>1. TypeOK'
    BY <1>1, <1>2, <1>4 DEF TypeOK, world, fixed
  <2>2. Shape'
    BY <1>1, <1>2, <1>4 DEF Shape, Loop
  <2> QED BY <2>1, <2>2
<1>5. CASE /\ powerAction = "gracefulshutdown"
           /\ seqMap' = [seqMap EXCEPT !["forceoff"] = @ \cup {c}]
           /\ UNCHANGED <<task, db, unsaved>>
  <2>1. /\ seqMap' \in [Action -> SUBSET Comp] /\ seqMap'["forceoff"] = seqMap["forceoff"] \cup {c}
        /\ \A a \in Action : a # "forceoff" => seqMap'[a] = seqMap[a]
    BY <1>5 DEF TypeOK, Action
  <2>2. InTier(tier)' = InTier(tier)
    BY <1>1, <1>5, <2>1 DEF InTier, powerAction, Action
  <2>3. TypeOK' /\ Shape'
    BY <1>4, <1>5, <2>1, <2>2 DEF TypeOK
  <2>4. \A d \in Comp : ~Unplanned(d) /\ ~Unplanned(d)'
    BY <1>1 DEF Unplanned
  <2>5. ASSUME NEW d \in Comp, d # c PROVE Planned(d)' /\ Counted(d)'
    <3>1. \A k \in 1..14 : Behind(d, k)' <=> Behind(d, k)
      BY <1>1, <1>3, <2>5 DEF Behind
    <3>2. \A a \in Action : d \in seqMap'[a] <=> d \in seqMap[a]
      BY <2>1, <2>5
    <3> QED BY <1>1, <1>5, <2>4, <2>5, <3>1, <3>2, Untouched
  <2>6. /\ Serves(tier, c, "gracefulshutdown") /\ Serves(tier + 1, c, "forceoff")
        /\ tier + 1 \in 1..14 /\ c \in seqMap["gracefulshutdown"]
    BY <1>2, <1>5, ForceNext DEF powerAction, InTier, Serves
  <2>7. ~Due(c, "gracefulshutdown")'
    <3>1. Behind(c, tier)'
      BY <1>1, <1>3 DEF Behind
    <3> QED BY <1>1, <1>2, <2>6, <3>1 DEF Due, Done, Serves
  <2>8. Due(c, "forceoff")'
    <3>1. ASSUME NEW k \in 1..14, Serves(k, c, "forceoff") PROVE ~Behind(c, k)'
      <4>1. k = tier + 1
        BY <2>6, <3>1, OnePlace DEF Action
      <4> QED BY <1>1, <1>2, <4>1 DEF Behind
    <3> QED BY <2>1, <3>1 DEF Due, Done, Serves
  <2>9. Due(c, "gracefulshutdown")
    BY <1>1, <1>2, <1>3, <1>5, CurrentDue DEF Loop
  <2>10. OnDue(c)' <=> OnDue(c)
    <3>1. ASSUME NEW k \in 1..14, Serves(k, c, "on") PROVE Behind(c, k)' <=> Behind(c, k)
      <4>1. k # tier
        BY <3>1, <2>6 DEF Serves
      <4> QED BY <1>1, <1>2, <4>1 DEF Behind
    <3>2. Done(c, "on")' <=> Done(c, "on")
      BY <3>1 DEF Done, Serves
    <3>3. seqMap'["on"] = seqMap["on"]
      BY <2>1 DEF Action
    <3> QED BY <3>2, <3>3 DEF OnDue, Due
  <2>11. DownDue(c) /\ DownDue(c)'
    BY <2>8, <2>9 DEF DownDue, Action
  <2>12. Owed(c)' = Owed(c)
    BY <2>10, <2>11 DEF Owed
  <2>13. Planned(c)'
    <3>1. c \notin seqMap["gracefulrestart"]
      BY <2>6 DEF Planned, Action
    <3>2. c \notin seqMap'["gracefulrestart"]
      BY <2>1, <3>1 DEF Action
    <3> QED BY <2>4, <2>7, <3>2 DEF Planned
  <2>14. Counted(c)'
    <3>1. Counted(c) /\ c \in wait
      BY <1>1
    <3> QED BY <1>1, <1>5, <2>4, <2>12, <3>1 DEF Counted, IsOpen
  <2>15. \A d \in Comp : Sent(d)'
    BY <1>1, <1>5, SameSent
  <2> QED BY <1>1, <1>5, <2>3, <2>5, <2>13, <2>14, <2>15, SameTasks
<1>6. CASE Fail(c, powerAction) /\ seqMap' = seqMap
  <2>1. /\ task' \in [Comp -> Task] /\ db' \in [Comp -> Task] /\ unsaved' = {c}
        /\ task'[c].st = "failed"
        /\ \A d \in Comp : task'[d] = task[d] \/ task'[d].st = "failed"
        /\ \A d \in Comp : task'[d].state = task[d].state /\ task'[d].op = task[d].op
        /\ \A d \in Comp : Traced(task[d])' /\ Traced(db[d])' /\ Stored(d)'
    BY <1>1, <1>6, FailEffect
  <2>2. c \notin wait' /\ Busy' = Busy \ {c}
    BY <1>1, <1>3
  <2>3. \A d \in Comp : Planned(d)' /\ Counted(d)'
    BY <1>1, <1>6, <2>1, <2>2, Dropped DEF Loop
  <2>4. InTier(tier)' = InTier(tier)
    BY <1>1, <1>6 DEF InTier
  <2>5. TypeOK' /\ Shape'
    BY <1>4, <1>6, <2>1, <2>4 DEF TypeOK
  <2>6. \A d \in Comp : Sent(d)'
    BY <1>1, <2>1, SameSent DEF TypeOK
  <2> QED BY <2>1, <2>3, <2>5, <2>6
<1> QED BY <1>5, <1>6 DEF Late

-----------------------------------------------------------------------------
(* The first two results *)

\* The account is kept by every step, as long as the worker waits for the
\* power states (TaskDeadline is not 0).
LEMMA NextAccount ==
    ASSUME ~NoWait, Account, [Next]_vars PROVE Account'
<1>1. CASE Save
  BY <1>1, SaveAccount
<1>2. CASE unsaved = {} /\ Start
  BY <1>2, StartAccount
<1>3. CASE unsaved = {} /\ ReserveError
  BY <1>3, ReserveErrorAccount
<1>4. CASE Reserved
  BY <1>4, ReservedAccount
<1>5. CASE EnterTier
  BY <1>5, EnterTierAccount
<1>6. CASE KeysChecked \/ Launch \/ Deadline
  BY <1>6, WithinTier
<1>7. CASE Answered \/ RoundDone \/ LateDone
  BY <1>7, RoundEnds
<1>8. ASSUME NEW c \in Comp, unsaved = {}, Work(c) PROVE Account'
  <2>1. CASE SequenceComp(c)
    BY <1>8, <2>1, SequenceCompAccount
  <2>2. CASE Walk(c)
    BY <2>2, WalkAccount
  <2>3. CASE ReserveFailed(c) \/ KeyExpired(c)
    BY <1>8, <2>3, ReservationLost
  <2>4. CASE Build(c)
    BY <1>8, <2>4, BuildAccount
  <2>5. CASE Response(c)
    BY <1>8, <2>5, ResponseAccount
  <2>6. CASE Confirm(c)
    BY <1>8, <2>6, ConfirmAccount
  <2>7. CASE Late(c)
    BY <1>8, <2>7, LateAccount
  <2> QED BY <1>8, <2>1, <2>2, <2>3, <2>4, <2>5, <2>6, <2>7 DEF Work
<1>9. CASE Crash
  BY <1>9, CrashAccount
<1>10. ASSUME NEW c \in Comp, Execute(c) \/ Monitor(c) \/ Lose(c) PROVE Account'
  BY <1>10, AsideAccount
<1>11. CASE UNCHANGED vars
  <2>1. UNCHANGED <<op, acts, db, task, snap, count, seqMap, pc, tier, todo, wait, out,
                    unsaved, hw, cmd, mon, wentOff, cut, forced, blind, faults, crashes>>
    BY <1>11 DEF vars, worker, plan, world
  <2>2. TypeOK' /\ Shape'
    BY <2>1 DEF Account, TypeOK, Shape, InTier, IsOpen
  <2>3. \A d \in Comp : Planned(d)' /\ Counted(d)'
    BY <2>1, Elsewhere DEF Account, plan
  <2>4. \A d \in Comp : Sent(d)'
    BY <2>1, SameSent DEF Account
  <2> QED BY <2>1, <2>2, <2>3, <2>4, SameTasks DEF Account
<1> QED BY <1>1, <1>2, <1>3, <1>4, <1>5, <1>6, <1>7, <1>8, <1>9, <1>10, <1>11
        DEF Next, WorkerStep

\* Every variable of the sequencing keeps its type, if the worker waits for
\* the power states: in particular ActionCount, which transitions.go decrements
\* in two places, never falls below zero.  (With TaskDeadline 0 it does, because
\* a command is then counted both when it is answered and when it is confirmed.)
THEOREM TypeCorrect == ~NoWait => (Spec => []TypeOK)
<1> SUFFICES ASSUME ~NoWait PROVE Spec => []TypeOK
  OBVIOUS
<1>1. Init => Account
  BY InitAccount
<1>2. Account /\ [Next]_vars => Account'
  BY NextAccount
<1>3. Account => TypeOK
  BY DEF Account
<1> QED BY <1>1, <1>2, <1>3, PTL DEF Spec

-----------------------------------------------------------------------------
(* Where the tasks and the plan of a component come from *)

\* The records of d are as before, those of before the crash, or of a failure.
Carried(d) ==
    /\ \/ task'[d] = task[d]
       \/ task'[d] = db[d] /\ (Start \/ Crash)
       \/ /\ task'[d].st = "failed"
          /\ task'[d].state = task[d].state /\ task'[d].op = task[d].op
    /\ db'[d] \in {db[d], task[d], task'[d]}

LEMMA FailCarries ==
    ASSUME Account, unsaved = {}, op' = op, NEW c \in Comp, NEW a, Fail(c, a),
           NEW d \in Comp
    PROVE  Carried(d)
<1>1. /\ \/ task'[d] = task[d]
         \/ task'[d].st = "failed" /\ task'[d].state = task[d].state
               /\ task'[d].op = task[d].op
      /\ db'[d] = db[d] \/ db'[d] = task'[d]
  BY FailEffect DEF Account
<1> QED BY <1>1 DEF Carried

LEMMA UpdateCarries ==
    ASSUME Account, NEW c \in Comp, NEW t, Update(c, t), NEW d \in Comp, d # c
    PROVE  Carried(d)
  BY DEF Carried, Update, Account, TypeOK

\* Only four steps, all of d's own, do anything else with the records of d.
LEMMA Sources ==
    ASSUME Account, [Next]_vars, NEW d \in Comp
    PROVE  \/ unsaved = {} /\ (SequenceComp(d) \/ Build(d) \/ Response(d) \/ Confirm(d))
           \/ Carried(d)
<1>1. CASE UNCHANGED <<task, db>>
  BY <1>1 DEF Carried
<1>2. CASE Save
  BY <1>2 DEF Save, Carried
<1>3. CASE Start \/ Crash
  BY <1>3 DEF Start, Crash, Carried
<1>4. CASE unsaved = {} /\ ReserveError
  <2>1. task[d] = db[d]
    BY <1>4 DEF Account, Stored
  <2>2. /\ task'[d] = IF IsOpen(d) THEN [task[d] EXCEPT !.st = "failed"] ELSE task[d]
        /\ db'[d] = IF IsOpen(d) THEN [db[d] EXCEPT !.st = "failed"] ELSE db[d]
    BY <1>4 DEF ReserveError, Failing
  <2> QED BY <2>1, <2>2 DEF Carried, Account, TypeOK, Task
<1>5. ASSUME NEW c \in Comp, unsaved = {}, Work(c)
      PROVE  SequenceComp(d) \/ Build(d) \/ Response(d) \/ Confirm(d) \/ Carried(d)
  <2>1. CASE SequenceComp(c)
    <3>1. Update(c, Sequenced(c).task)
      BY <2>1 DEF SequenceComp
    <3> QED BY <2>1, <3>1, UpdateCarries
  <2>2. CASE Walk(c)
    BY <2>2 DEF Walk, Carried
  <2>3. CASE ReserveFailed(c) \/ KeyExpired(c)
    <3>1. PICK a : Fail(c, a)
      BY <2>3 DEF ReserveFailed, KeyExpired
    <3>2. op' = op
      BY <2>3 DEF ReserveFailed, KeyExpired, fixed
    <3> QED BY <1>5, <3>1, <3>2, FailCarries
  <2>4. CASE Build(c)
    <3>1. \/ task' = task /\ db' = db
          \/ Fail(c, powerAction) /\ op' = op
          \/ Update(c, [task[c] EXCEPT !.state = "Sending", !.op = OpFor(powerAction)])
      BY <2>4 DEF Build, fixed
    <3>2. CASE task' = task /\ db' = db
      BY <3>2 DEF Carried
    <3> QED BY <1>5, <2>4, <3>1, <3>2, FailCarries, UpdateCarries
  <2>5. CASE Response(c)
    <3>1. Update(c, Accepted(c)) \/ (Fail(c, powerAction) /\ op' = op)
      BY <2>5 DEF Response, fixed
    <3> QED BY <1>5, <2>5, <3>1, FailCarries, UpdateCarries
  <2>6. CASE Confirm(c)
    <3>1. \/ task' = task /\ db' = db
          \/ Fail(c, powerAction) /\ op' = op
          \/ Update(c, Confirmed(c))
      BY <2>6 DEF Confirm, fixed
    <3>2. CASE task' = task /\ db' = db
      BY <3>2 DEF Carried
    <3> QED BY <1>5, <2>6, <3>1, <3>2, FailCarries, UpdateCarries
  <2>7. CASE Late(c)
    <3>1. (task' = task /\ db' = db) \/ (Fail(c, powerAction) /\ op' = op)
      BY <2>7 DEF Late, fixed
    <3>2. CASE task' = task /\ db' = db
      BY <3>2 DEF Carried
    <3> QED BY <1>5, <3>1, <3>2, FailCarries
  <2> QED BY <1>5, <2>1, <2>2, <2>3, <2>4, <2>5, <2>6, <2>7 DEF Work
<1>6. CASE Reserved \/ EnterTier \/ KeysChecked \/ Launch \/ Answered \/ RoundDone
             \/ Deadline \/ LateDone
  <2>1. task' = task /\ db' = db
    BY <1>6 DEF Reserved, EnterTier, KeysChecked, Launch, Answered, RoundDone, Deadline,
                LateDone
  <2> QED BY <2>1 DEF Carried
<1>7. ASSUME NEW c \in Comp, Execute(c) \/ Monitor(c) \/ Lose(c) PROVE Carried(d)
  <2>1. task' = task /\ db' = db
    BY <1>7 DEF Execute, Monitor, Lose, worker
  <2> QED BY <2>1 DEF Carried
<1>8. UNCHANGED vars => UNCHANGED <<task, db>>
  BY DEF vars, worker
<1> QED BY <1>1, <1>2, <1>3, <1>4, <1>5, <1>6, <1>7, <1>8 DEF Next, WorkerStep

\* d is put down for an action by sequenceComponents, and for forceoff when it
\* was too slow.
Escalated(d) ==
    /\ pc = "late" /\ d \in wait /\ op # "SoftOff" /\ "forceoff" \in acts[d]
    /\ powerAction = "gracefulshutdown"

LEMMA Plans ==
    ASSUME Account, [Next]_vars, NEW d \in Comp, NEW a \in Action, d \in seqMap'[a]
    PROVE  \/ d \in seqMap[a]
           \/ SequenceComp(d) /\ a \in Sequenced(d).into
           \/ Escalated(d) /\ a = "forceoff"
<1>1. CASE seqMap' = seqMap
  BY <1>1
<1>2. CASE Crash
  BY <1>2 DEF Crash, NoPlan
<1>3. ASSUME NEW c \in Comp, SequenceComp(c)
      PROVE  d \in seqMap[a] \/ (SequenceComp(d) /\ a \in Sequenced(d).into)
  <2>1. seqMap' = [b \in Action |-> IF b \in Sequenced(c).into THEN seqMap[b] \cup {c}
                                                               ELSE seqMap[b]]
    BY <1>3 DEF SequenceComp
  <2>2. seqMap'[a] = IF a \in Sequenced(c).into THEN seqMap[a] \cup {c} ELSE seqMap[a]
    BY <2>1
  <2> QED BY <1>3, <2>2
<1>4. ASSUME NEW c \in Comp, Late(c)
      PROVE  d \in seqMap[a] \/ (Escalated(d) /\ a = "forceoff")
  <2>1. \/ seqMap' = seqMap
        \/ Escalated(c) /\ seqMap' = [seqMap EXCEPT !["forceoff"] = @ \cup {c}]
    BY <1>4 DEF Late, Escalated
  <2>2. CASE Escalated(c) /\ seqMap' = [seqMap EXCEPT !["forceoff"] = @ \cup {c}]
    <3>1. seqMap \in [Action -> SUBSET Comp]
      BY DEF Account, TypeOK
    <3>2. a # "forceoff" => seqMap'[a] = seqMap[a]
      BY <2>2, <3>1
    <3>3. a = "forceoff" => seqMap'[a] = seqMap[a] \cup {c}
      BY <2>2, <3>1
    <3> QED BY <2>2, <3>2, <3>3
  <2> QED BY <2>1, <2>2
<1>5. CASE \/ Save \/ Start \/ ReserveError \/ Reserved \/ EnterTier \/ KeysChecked \/ Launch
           \/ Answered \/ RoundDone \/ Deadline \/ LateDone \/ UNCHANGED vars
  <2>1. seqMap' = seqMap
    BY <1>5 DEF Save, Start, ReserveError, Reserved, EnterTier, KeysChecked, Launch,
                Answered, RoundDone, Deadline, LateDone, plan, vars, worker
  <2> QED BY <2>1
<1>6. ASSUME NEW c \in Comp, Execute(c) \/ Monitor(c) \/ Lose(c) PROVE seqMap' = seqMap
  BY <1>6 DEF Execute, Monitor, Lose, worker, plan
<1>7. ASSUME NEW c \in Comp, \/ Walk(c) \/ ReserveFailed(c) \/ KeyExpired(c) \/ Build(c)
                             \/ Response(c) \/ Confirm(c)
      PROVE  seqMap' = seqMap
  BY <1>7 DEF Walk, ReserveFailed, KeyExpired, Build, Response, Confirm, plan
<1> QED BY <1>1, <1>2, <1>3, <1>4, <1>5, <1>6, <1>7 DEF Next, WorkerStep, Work

\* The request and the machine stay what they are.
LEMMA Fixed ==
    ASSUME [Next]_vars PROVE op' = op /\ acts' = acts
<1>1. CASE UNCHANGED vars
  BY <1>1 DEF vars
<1>2. CASE Crash
  BY <1>2 DEF Crash
<1>3. CASE \/ Save \/ Start \/ ReserveError \/ Reserved \/ EnterTier \/ KeysChecked \/ Launch
           \/ Answered \/ RoundDone \/ Deadline \/ LateDone
  BY <1>3 DEF Save, Start, ReserveError, Reserved, EnterTier, KeysChecked, Launch,
              Answered, RoundDone, Deadline, LateDone, fixed
<1>4. ASSUME NEW c \in Comp, Execute(c) \/ Monitor(c) \/ Lose(c) PROVE op' = op /\ acts' = acts
  BY <1>4 DEF Execute, Monitor, Lose, fixed
<1>5. ASSUME NEW c \in Comp, Work(c) PROVE op' = op /\ acts' = acts
  BY <1>5 DEF Work, SequenceComp, Walk, ReserveFailed, KeyExpired, Build, Response, Confirm,
              Late, fixed
<1> QED BY <1>1, <1>2, <1>3, <1>4, <1>5 DEF Next, WorkerStep

\* What the steps of d itself do to its records.
LEMMA BuildSource ==
    ASSUME Account, unsaved = {}, NEW d \in Comp, Build(d)
    PROVE  \/ Carried(d)
           \/ /\ task'[d] = db'[d] /\ task'[d].st = task[d].st /\ task[d].st # "failed"
              /\ task'[d].state = "Sending" /\ task'[d].op = OpFor(powerAction)
              /\ powerAction \in Action /\ d \in seqMap[powerAction]
<1>1. CASE task' = task /\ db' = db
  BY <1>1 DEF Carried
<1>2. CASE Fail(d, powerAction) /\ op' = op
  BY <1>2, FailCarries
<1>3. CASE /\ Update(d, [task[d] EXCEPT !.state = "Sending", !.op = OpFor(powerAction)])
           /\ task[d].st # "failed"
  <2>1. task'[d] = [task[d] EXCEPT !.state = "Sending", !.op = OpFor(powerAction)]
    BY <1>3 DEF Update, Account, TypeOK
  <2>2. db'[d] = [task[d] EXCEPT !.state = "Sending", !.op = OpFor(powerAction)]
    BY <1>3 DEF Update, Account, TypeOK
  <2>3. task[d] \in Task
    BY DEF Account, TypeOK
  <2>4. d \in InTier(tier) /\ tier \in 1..14
    BY DEF Build, Account, Shape, Loop
  <2>5. powerAction \in Action /\ d \in seqMap[powerAction]
    BY <2>4, TierOrder DEF InTier, powerAction
  <2>6. /\ task'[d].st = task[d].st /\ task'[d].state = "Sending"
        /\ task'[d].op = OpFor(powerAction)
    BY <2>1, <2>3 DEF Task
  <2> QED BY <1>3, <2>1, <2>2, <2>5, <2>6
<1>4. \/ task' = task /\ db' = db
      \/ Fail(d, powerAction) /\ op' = op
      \/ Update(d, [task[d] EXCEPT !.state = "Sending", !.op = OpFor(powerAction)])
           /\ task[d].st # "failed"
  BY DEF Build, fixed
<1> QED BY <1>1, <1>2, <1>3, <1>4

LEMMA ResponseSource ==
    ASSUME ~NoWait, Account, unsaved = {}, NEW d \in Comp, Response(d)
    PROVE  \/ Carried(d)
           \/ /\ task'[d] = db'[d] /\ task'[d].st = "open" /\ task'[d].state = "Waiting"
              /\ task'[d].op = task[d].op /\ d \in wait
<1>1. CASE Fail(d, powerAction) /\ op' = op
  BY <1>1, FailCarries
<1>2. CASE Update(d, Accepted(d)) /\ d \in out
  <2>1. Accepted(d) = [task[d] EXCEPT !.state = "Waiting", !.st = "open"]
    BY DEF Accepted
  <2>2. task'[d] = [task[d] EXCEPT !.state = "Waiting", !.st = "open"] /\ db'[d] = task'[d]
    BY <1>2, <2>1 DEF Update, Account, TypeOK
  <2>3. task[d] \in Task /\ d \in wait
    BY <1>2 DEF Account, TypeOK
  <2> QED BY <2>2, <2>3 DEF Task
<1>3. (Fail(d, powerAction) /\ op' = op) \/ (Update(d, Accepted(d)) /\ d \in out)
  BY DEF Response, fixed
<1> QED BY <1>1, <1>2, <1>3

LEMMA ConfirmSource ==
    ASSUME Account, unsaved = {}, NEW d \in Comp, Confirm(d)
    PROVE  \/ Carried(d)
           \/ /\ task'[d] = db'[d] /\ task'[d].st \in {"succeeded", task[d].st}
              /\ task'[d].state = "Confirmed" /\ task'[d].op = task[d].op
              /\ d \in wait /\ mon[d] = EndState(powerAction)
              /\ powerAction \in Action /\ d \in seqMap[powerAction]
<1>1. CASE task' = task /\ db' = db
  BY <1>1 DEF Carried
<1>2. CASE Fail(d, powerAction) /\ op' = op
  BY <1>2, FailCarries
<1>3. CASE Update(d, Confirmed(d)) /\ mon[d] = EndState(powerAction)
  <2>1. task'[d] = Confirmed(d) /\ db'[d] = Confirmed(d)
    BY <1>3 DEF Update, Account, TypeOK
  <2>2. task[d] \in Task
    BY DEF Account, TypeOK
  <2>3. /\ Confirmed(d).st \in {"succeeded", task[d].st} /\ Confirmed(d).state = "Confirmed"
        /\ Confirmed(d).op = task[d].op
    BY <2>2 DEF Confirmed, Task
  <2>4. d \in wait /\ d \in InTier(tier) /\ tier \in 1..14
    BY DEF Confirm, Account, Shape, Loop
  <2>5. powerAction \in Action /\ d \in seqMap[powerAction]
    BY <2>4, TierOrder DEF InTier, powerAction
  <2> QED BY <1>3, <2>1, <2>3, <2>4, <2>5
<1>4. \/ task' = task /\ db' = db
      \/ Fail(d, powerAction) /\ op' = op
      \/ Update(d, Confirmed(d)) /\ mon[d] = EndState(powerAction)
  BY DEF Confirm, fixed
<1> QED BY <1>1, <1>2, <1>3, <1>4

LEMMA SequenceSource ==
    ASSUME Account, NEW d \in Comp, SequenceComp(d)
    PROVE  /\ task'[d] = Sequenced(d).task /\ db'[d] = Sequenced(d).task
           /\ IsOpen(d) /\ pc = "seq"
<1>1. Update(d, Sequenced(d).task) /\ Unplanned(d) /\ pc = "seq"
  BY DEF SequenceComp, Unplanned
<1>2. task'[d] = Sequenced(d).task /\ db'[d] = Sequenced(d).task
  BY <1>1 DEF Update, Account, TypeOK
<1> QED BY <1>1, <1>2 DEF Account, Planned

-----------------------------------------------------------------------------
(* Every component gets its result *)

\* The components of the request can be sequenced: there are no tiers that turn
\* switches on or off, and none for controllers, which "don't support on/off
\* operations" (transitions.go:1464).
Tiered ==
    \A c \in Comp : /\ Type[c] \notin Switch
                    /\ Type[c] \in Controller =>
                          \A A \in Choices[c] : A \subseteq {"gracefulrestart", "forcerestart"}

\* A controller has never been turned on or off.
RestartOnly(c) ==
    Type[c] \in Controller =>
        /\ acts[c] \subseteq {"gracefulrestart", "forcerestart"}
        /\ \A a \in Action \ {"gracefulrestart"} : c \notin seqMap[a]
        /\ \A t \in {task[c], db[c]} :
              t.state # "GatherData" => t.op \notin {"On", "Off", "ForceOff"}

Placed == \A c \in Comp : RestartOnly(c)

\* Every action but a restart has a tier for all types but those.
LEMMA HasPlace ==
    ASSUME NEW c \in Comp, NEW a \in Action, Type[c] \notin Switch,
           Type[c] \in Controller => a = "gracefulrestart"
    PROVE  \E k \in 1..14 : Serves(k, c, a)
<1>1. Type[c] \in HMSType
  BY SeqAssumption
<1>2. CASE a = "gracefulrestart"
  <2>1. Serves(9, c, a) \/ Serves(10, c, a)
    BY <1>1, <1>2, Table DEF Serves
  <2> QED BY <2>1
<1>3. CASE a # "gracefulrestart"
  <2>1. \/ Type[c] = "Node" \/ Type[c] = "Chassis" \/ Type[c] \in Module
        \/ Type[c] = "CabinetPDUPowerConnector"
    BY <1>1, <1>3 DEF HMSType
  <2>2. CASE a = "gracefulshutdown"
    <3>1. Serves(1, c, a) \/ Serves(3, c, a) \/ Serves(5, c, a) \/ Serves(7, c, a)
      BY <2>1, <2>2, Table DEF Serves
    <3> QED BY <3>1
  <2>3. CASE a = "forceoff"
    <3>1. Serves(2, c, a) \/ Serves(4, c, a) \/ Serves(6, c, a) \/ Serves(8, c, a)
      BY <2>1, <2>3, Table DEF Serves
    <3> QED BY <3>1
  <2>4. CASE a = "on"
    <3>1. Serves(11, c, a) \/ Serves(12, c, a) \/ Serves(13, c, a) \/ Serves(14, c, a)
      BY <2>1, <2>4, Table DEF Serves
    <3> QED BY <3>1
  <2> QED BY <1>3, <2>2, <2>3, <2>4 DEF Action
<1> QED BY <1>2, <1>3

\* sequenceComponents does not turn a controller on or off.
LEMMA ControllerSequenced ==
    ASSUME Account, NEW c \in Comp, Type[c] \in Controller, RestartOnly(c)
    PROVE  /\ Sequenced(c).into \subseteq {"gracefulrestart"}
           /\ Sequenced(c).task.state = task[c].state /\ Sequenced(c).task.op = task[c].op
<1> DEFINE Good(r) == /\ r.into \subseteq {"gracefulrestart"}
                      /\ r.task.state = task[c].state /\ r.task.op = task[c].op
<1>1. task[c] \in Task /\ op \in Operation
  BY DEF Account, TypeOK
<1>2. \A st \in Status : Good(Finished(c, st))
  BY <1>1 DEF Finished, Task
<1>3. Good(PutInto(c, {"gracefulrestart"}))
  BY DEF PutInto
<1>4. Supports(c, op) => op = "SoftRestart"
  <2>1. "on" \notin acts[c] /\ {"off", "gracefulshutdown"} \cap acts[c] = {}
          /\ "forceoff" \notin acts[c]
    BY DEF RestartOnly
  <2> QED BY <1>1, <2>1 DEF Supports, Operation
<1>5. Good(Finished(c, "failed")) /\ Good(Finished(c, "succeeded"))
        /\ Good(Finished(c, "unsupported"))
  BY <1>2 DEF Status
<1> HIDE DEF Good
<1>6. op = "SoftRestart" => Good(Interrupted(c))
  <2>1. task[c].state # "GatherData" => task[c].op # "On" /\ ~PoweredOff(c)
    BY DEF RestartOnly, PoweredOff
  <2> QED BY <1>5, <2>1 DEF Interrupted
<1>7. op = "SoftRestart" => Good(SoftRestarted(c))
  BY <1>3, <1>5, <1>6 DEF SoftRestarted
<1>8. Good(Sequenced(c))
  <2>1. CASE ~Supports(c, op)
    BY <1>5, <2>1 DEF Sequenced
  <2>2. CASE Supports(c, op)
    BY <1>4, <1>7, <2>2 DEF Sequenced
  <2> QED BY <2>1, <2>2
<1> QED BY <1>8 DEF Good

LEMMA InitPlaced ==
    ASSUME Tiered, Init PROVE Placed
<1> SUFFICES ASSUME NEW c \in Comp, Type[c] \in Controller
             PROVE  RestartOnly(c)
  BY DEF Placed, RestartOnly
<1>1. acts[c] \in Choices[c]
  BY DEF Init
<1>2. acts[c] \subseteq {"gracefulrestart", "forcerestart"}
  BY <1>1 DEF Tiered
<1>3. \A a \in Action : c \notin seqMap[a]
  BY DEF Init, NoPlan
<1>4. task[c].state = "GatherData" /\ db[c].state = "GatherData"
  BY DEF Init, NewTask
<1> QED BY <1>2, <1>3, <1>4 DEF RestartOnly

LEMMA NextPlaced ==
    ASSUME ~NoWait, Account, Placed, [Next]_vars PROVE Placed'
<1> SUFFICES ASSUME NEW c \in Comp, Type[c] \in Controller
             PROVE  RestartOnly(c)'
  BY DEF Placed, RestartOnly
<1> DEFINE Good(t) == t.state # "GatherData" => t.op \notin {"On", "Off", "ForceOff"}
<1>1. /\ RestartOnly(c) /\ Good(task[c]) /\ Good(db[c])
      /\ \A a \in Action \ {"gracefulrestart"} : c \notin seqMap[a]
      /\ acts[c] \subseteq {"gracefulrestart", "forcerestart"}
  BY DEF Placed, RestartOnly
<1>2. acts' = acts
  BY Fixed
<1>3. ASSUME NEW a \in Action \ {"gracefulrestart"}, c \in seqMap'[a] PROVE FALSE
  <2>1. ~(a \in Sequenced(c).into)
    BY <1>1, ControllerSequenced
  <2>2. ~Escalated(c)
    <3> SUFFICES ASSUME Escalated(c) PROVE FALSE
      OBVIOUS
    <3>1. c \in InTier(tier)
      BY DEF Escalated, Account, Shape, Loop
    <3>2. c \in seqMap["gracefulshutdown"]
      BY <3>1 DEF Escalated, InTier, powerAction
    <3> QED BY <1>1, <3>2 DEF Action
  <2> QED BY <1>1, <1>3, <2>1, <2>2, Plans
<1>4. Good(task'[c]) /\ Good(db'[c])
  <2>1. CASE Carried(c)
    BY <1>1, <2>1 DEF Carried
  <2>2. CASE SequenceComp(c)
    BY <1>1, <2>2, SequenceSource, ControllerSequenced
  <2>3. CASE unsaved = {} /\ Build(c)
    <3>1. CASE /\ task'[c] = db'[c] /\ task'[c].op = OpFor(powerAction)
               /\ powerAction \in Action /\ c \in seqMap[powerAction]
      <4>1. powerAction = "gracefulrestart"
        BY <1>1, <3>1
      <4>2. task'[c].op = "SoftRestart"
        BY <3>1, <4>1 DEF OpFor
      <4> QED BY <3>1, <4>2
    <3> QED BY <2>1, <2>3, <3>1, BuildSource
  <2>4. CASE unsaved = {} /\ (Response(c) \/ Confirm(c))
    <3>1. CASE task'[c] = db'[c] /\ task'[c].op = task[c].op /\ c \in wait
      <4>1. task[c].state # "GatherData"
        BY <3>1 DEF Account, Sent
      <4> QED BY <1>1, <3>1, <4>1
    <3> QED BY <2>1, <2>4, <3>1, ResponseSource, ConfirmSource
  <2> QED BY <2>1, <2>2, <2>3, <2>4, Sources
<1> QED BY <1>1, <1>2, <1>3, <1>4 DEF RestartOnly

\* When the tiers are done every component has its result, stored in its task:
\* no action that sequenceComponents put it down for was left out, and none was
\* counted that never came.  Every transition whose components have tiers.
THEOREM EveryTaskFinishes == ~NoWait /\ Tiered => (Spec => []AllFinished)
<1> SUFFICES ASSUME ~NoWait, Tiered PROVE Spec => []AllFinished
  OBVIOUS
<1>1. Init => Account /\ Placed
  BY InitAccount, InitPlaced
<1>2. Account /\ Placed /\ [Next]_vars => Account' /\ Placed'
  BY NextAccount, NextPlaced
<1>3. Account /\ Placed => AllFinished
  <2> SUFFICES ASSUME Account, Placed, pc = "end", unsaved = {}, NEW c \in Comp
               PROVE  db[c].st # "open" /\ task[c] = db[c]
    BY DEF AllFinished
  <2>1. task[c] = db[c]
    BY DEF Account, Stored
  <2>2. ~IsOpen(c)
    <3> SUFFICES ASSUME IsOpen(c) PROVE FALSE
      OBVIOUS
    <3>1. \A k \in 1..14 : k >= tier => InTier(k) = {}
      BY DEF Account, Shape
    <3>2. count[c] >= 1 /\ count[c] = Owed(c)
      <4>1. ~Unplanned(c)
        BY DEF Unplanned
      <4> QED BY <4>1 DEF Account, Counted, IsOpen
    <3>3. DownDue(c) \/ OnDue(c)
      BY <3>2 DEF Owed
    <3>4. PICK a \in Action : Due(c, a)
      BY <3>3 DEF DownDue, OnDue, Action
    <3>5. c \in seqMap[a] /\ (Type[c] \in Controller => a = "gracefulrestart")
      BY <3>4 DEF Due, Placed, RestartOnly
    <3>6. PICK k \in 1..14 : Serves(k, c, a)
      BY <3>5, HasPlace DEF Tiered
    <3>7. ~Behind(c, k)
      BY <3>4, <3>6 DEF Due, Done
    <3>8. tier \in 1..15
      BY Table DEF Account, TypeOK
    <3>9. k >= tier
      BY <3>7, <3>8 DEF Behind
    <3>10. c \in InTier(k)
      BY <3>5, <3>6 DEF Serves, InTier
    <3> QED BY <3>1, <3>9, <3>10
  <2> QED BY <2>1, <2>2 DEF IsOpen
<1> QED BY <1>1, <1>2, <1>3, PTL DEF Spec

-----------------------------------------------------------------------------
(* Results are real *)

Directed == op \in {"On", "Off", "SoftOff", "ForceOff"}
Aim      == IF op = "On" THEN "on" ELSE "off"
Means    == IF op = "On" THEN {"on"} ELSE {"gracefulshutdown", "forceoff"}

\* A transition that turns c on or off only ever takes it there.
Aimed(c) ==
    /\ \A a \in Action : c \in seqMap[a] => a \in Means
    /\ cmd[c] \in Means \cup {"none"}
    /\ mon[c] = Aim \/ snap[c] = Aim => hw[c] = Aim
    /\ task[c].st = "succeeded" \/ db[c].st = "succeeded" => hw[c] = Aim

Directs == Directed => \A c \in Comp : Aimed(c)

\* Commands are those of the tier, for components put down for its action.
LEMMA Commands ==
    ASSUME Account, [Next]_vars, NEW d \in Comp
    PROVE  \/ cmd'[d] = cmd[d]
           \/ Execute(d) /\ cmd'[d] = "none"
           \/ /\ cmd'[d] = powerAction /\ cmd'[d] \in Action
              /\ d \in seqMap[cmd'[d]] /\ d \in wait /\ d \in out
<1>1. ASSUME NEW c \in Comp, Response(c)
      PROVE  \/ cmd'[d] = cmd[d]
             \/ /\ cmd'[d] = powerAction /\ cmd'[d] \in Action
                /\ d \in seqMap[cmd'[d]] /\ d \in wait /\ d \in out
  <2>1. PICK x : x = powerAction
    OBVIOUS
  <2>2. cmd' = cmd \/ cmd' = [cmd EXCEPT ![c] = x]
    BY <1>1, <2>1 DEF Response
  <2>3. cmd'[d] = cmd[d] \/ (d = c /\ cmd'[d] = x)
    BY <2>2 DEF Account, TypeOK
  <2>4. c \in InTier(tier) /\ tier \in 1..14 /\ c \in wait /\ c \in out
    BY <1>1 DEF Response, Account, TypeOK, Shape, Loop
  <2>5. x \in Action /\ c \in seqMap[x]
    BY <2>1, <2>4, TierOrder DEF InTier, powerAction
  <2> QED BY <2>1, <2>3, <2>4, <2>5
<1>2. CASE Crash
  <2>1. PICK x : x = powerAction
    OBVIOUS
  <2>2. PICK S \in SUBSET (IF pc = "send" THEN out ELSE {}) :
           cmd' = [c \in Comp |-> IF c \in S THEN x ELSE cmd[c]]
    BY <1>2, <2>1 DEF Crash
  <2>3. cmd'[d] = cmd[d] \/ (pc = "send" /\ d \in out /\ cmd'[d] = x)
    BY <2>2
  <2>4. pc = "send" /\ d \in out => d \in InTier(tier) /\ tier \in 1..14 /\ d \in wait
    BY DEF Account, TypeOK, Shape, Loop
  <2>5. pc = "send" /\ d \in out => x \in Action /\ d \in seqMap[x]
    BY <2>1, <2>4, TierOrder DEF InTier, powerAction
  <2> QED BY <2>1, <2>3, <2>4, <2>5
<1>3. ASSUME NEW c \in Comp, Execute(c)
      PROVE  cmd'[d] = cmd[d] \/ (Execute(d) /\ cmd'[d] = "none")
  <2>1. cmd' = [cmd EXCEPT ![c] = "none"]
    BY <1>3 DEF Execute
  <2> QED BY <1>3, <2>1 DEF Account, TypeOK
<1>4. ASSUME NEW c \in Comp, \/ SequenceComp(c) \/ Walk(c) \/ ReserveFailed(c) \/ KeyExpired(c)
                             \/ Build(c) \/ Confirm(c) \/ Late(c) \/ Monitor(c) \/ Lose(c)
      PROVE  cmd' = cmd
  BY <1>4 DEF SequenceComp, Walk, ReserveFailed, KeyExpired, Build, Confirm, Late, Monitor,
              Lose, world
<1>5. CASE \/ Save \/ Start \/ ReserveError \/ Reserved \/ EnterTier \/ KeysChecked \/ Launch
           \/ Answered \/ RoundDone \/ Deadline \/ LateDone \/ UNCHANGED vars
  <2>1. cmd' = cmd
    BY <1>5 DEF Save, Start, ReserveError, Reserved, EnterTier, KeysChecked, Launch, Answered,
                RoundDone, Deadline, LateDone, vars, world
  <2> QED BY <2>1
<1> QED BY <1>1, <1>2, <1>3, <1>4, <1>5 DEF Next, WorkerStep, Work

\* The hardware changes only by carrying out a command; power states are seen
\* as they are, or not at all.
LEMMA Sights ==
    ASSUME Account, [Next]_vars
    PROVE  \/ \E c \in Comp : Execute(c)
           \/ /\ hw' = hw
              /\ \A d \in Comp : /\ mon'[d] \in {mon[d], hw[d], "undefined"}
                                 /\ snap'[d] \in {snap[d], mon[d], "undefined"}
<1>1. CASE Start
  BY <1>1 DEF Start, world
<1>2. CASE Crash
  BY <1>2 DEF Crash
<1>3. ASSUME NEW c \in Comp, Monitor(c) \/ Lose(c)
      PROVE  /\ hw' = hw /\ snap' = snap
             /\ \A d \in Comp : mon'[d] \in {mon[d], hw[d], "undefined"}
  <2>1. /\ hw' = hw /\ snap' = snap
        /\ mon' = [mon EXCEPT ![c] = hw[c]] \/ mon' = [mon EXCEPT ![c] = "undefined"]
    BY <1>3 DEF Monitor, Lose, worker, plan
  <2> QED BY <2>1 DEF Account, TypeOK
<1>4. ASSUME NEW c \in Comp, Work(c) PROVE hw' = hw /\ mon' = mon /\ snap' = snap
  BY <1>4 DEF Work, SequenceComp, Walk, ReserveFailed, KeyExpired, Build, Response, Confirm,
              Late, plan, world
<1>5. CASE \/ Save \/ ReserveError \/ Reserved \/ EnterTier \/ KeysChecked \/ Launch
           \/ Answered \/ RoundDone \/ Deadline \/ LateDone \/ UNCHANGED vars
  <2>1. hw' = hw /\ mon' = mon /\ snap' = snap
    BY <1>5 DEF Save, ReserveError, Reserved, EnterTier, KeysChecked, Launch, Answered,
                RoundDone, Deadline, LateDone, vars, worker, plan, world
  <2> QED BY <2>1
<1> QED BY <1>1, <1>2, <1>3, <1>4, <1>5 DEF Next, WorkerStep

\* Commands that turn off turn nothing on, and the other way round.
LEMMA OneWay ==
    ASSUME Account, NEW c \in Comp, Execute(c), NEW d \in Comp
    PROVE  /\ mon' = mon /\ snap' = snap
           /\ cmd[c] \in {"gracefulshutdown", "forceoff"} => hw'[d] \in {hw[d], "off"}
           /\ cmd[c] = "on" => hw'[d] \in {hw[d], "on"}
<1>1. mon' = mon /\ snap' = snap
  BY DEF Execute, worker, plan
<1>2. CASE cmd[c] \in {"gracefulshutdown", "forceoff"}
  <2>1. TurnOff(c)
    BY <1>2 DEF Execute
  <2> QED BY <1>1, <1>2, <2>1 DEF TurnOff, Account, TypeOK
<1>3. CASE cmd[c] = "on"
  <2>1. hw' = IF Powered(c, hw) THEN [hw EXCEPT ![c] = "on"] ELSE hw
    BY <1>3 DEF Execute
  <2> QED BY <1>1, <1>3, <2>1 DEF Account, TypeOK
<1> QED BY <1>1, <1>2, <1>3

\* What sequenceComponents does for an operation that is no restart.
LEMMA DirectedSequenced ==
    ASSUME Account, Directed, NEW c \in Comp, IsOpen(c)
    PROVE  /\ Sequenced(c).into \subseteq Means
           /\ Sequenced(c).task.st = "succeeded" => snap[c] = Aim
           /\ Sequenced(c).task.st # "failed"
<1>1. task[c] \in Task
  BY DEF Account, TypeOK
<1>2. /\ \A S : PutInto(c, S).into = S /\ PutInto(c, S).task.st = "open"
      /\ \A st : Finished(c, st).into = {} /\ Finished(c, st).task.st = st
  BY <1>1 DEF PutInto, Finished, Task, IsOpen
<1>3. CASE ~Supports(c, op)
  BY <1>2, <1>3 DEF Sequenced
<1>4. CASE Supports(c, op) /\ op = "On"
  <2>1. Sequenced(c) = Unless(c, "on", {"on"})
    BY <1>4 DEF Sequenced
  <2> QED BY <1>2, <1>4, <2>1 DEF Unless, Means, Aim
<1>5. CASE Supports(c, op) /\ op \in {"Off", "SoftOff"}
  <2>1. Sequenced(c) = Unless(c, "off", {"gracefulshutdown"})
    BY <1>5 DEF Sequenced
  <2> QED BY <1>2, <1>5, <2>1 DEF Unless, Means, Aim
<1>6. CASE Supports(c, op) /\ op = "ForceOff"
  <2>1. Sequenced(c) = Unless(c, "off", {"forceoff"})
    BY <1>6 DEF Sequenced
  <2> QED BY <1>2, <1>6, <2>1 DEF Unless, Means, Aim
<1> QED BY <1>3, <1>4, <1>5, <1>6 DEF Directed

LEMMA InitDirects ==
    ASSUME Init PROVE Directs
<1> SUFFICES ASSUME NEW c \in Comp PROVE Aimed(c)
  BY DEF Directs
<1>1. /\ mon = hw /\ snap[c] = "undefined" /\ cmd[c] = "none"
      /\ task[c].st = "open" /\ db[c].st = "open" /\ \A a \in Action : c \notin seqMap[a]
  BY DEF Init, NewTask, NoPlan
<1>2. Aim # "undefined"
  BY DEF Aim
<1> QED BY <1>1, <1>2 DEF Aimed

LEMMA NextDirects ==
    ASSUME ~NoWait, Account, Directs, [Next]_vars PROVE Directs'
<1>1. op' = op
  BY Fixed
<1>2. Aim' = Aim /\ Means' = Means /\ (Directed' <=> Directed) /\ Aim # "undefined"
  BY <1>1 DEF Aim, Means, Directed
<1> SUFFICES ASSUME Directed, NEW c \in Comp PROVE Aimed(c)'
  BY <1>2 DEF Directs
<1>3. \A d \in Comp : Aimed(d)
  BY DEF Directs
<1>4. hw[c] = Aim => hw'[c] = Aim
  <2>1. ASSUME NEW e \in Comp, Execute(e), hw[c] = Aim PROVE hw'[c] = Aim
    <3>1. cmd[e] \in Means
      BY <1>3, <2>1 DEF Aimed, Execute
    <3>2. \/ Aim = "on" /\ cmd[e] = "on"
          \/ Aim = "off" /\ cmd[e] \in {"gracefulshutdown", "forceoff"}
      BY <3>1 DEF Means, Aim
    <3> QED BY <2>1, <3>2, OneWay
  <2> QED BY <2>1, Sights
<1>5. mon'[c] = Aim \/ snap'[c] = Aim => hw'[c] = Aim
  <2>1. mon[c] = Aim \/ snap[c] = Aim => hw[c] = Aim
    BY <1>3 DEF Aimed
  <2>2. CASE \E e \in Comp : Execute(e)
    BY <1>4, <2>1, <2>2, OneWay
  <2>3. CASE mon'[c] \in {mon[c], hw[c], "undefined"} /\ snap'[c] \in {snap[c], mon[c], "undefined"}
    BY <1>2, <1>4, <2>1, <2>3
  <2> QED BY <2>2, <2>3, Sights
<1>6. ASSUME NEW a \in Action, c \in seqMap'[a] PROVE a \in Means
  <2>1. CASE SequenceComp(c) /\ a \in Sequenced(c).into
    BY <2>1, SequenceSource, DirectedSequenced
  <2>2. CASE Escalated(c) /\ a = "forceoff"
    <3>1. c \in seqMap["gracefulshutdown"]
      BY <2>2 DEF Escalated, Account, Shape, Loop, InTier, powerAction
    <3>2. "gracefulshutdown" \in Means
      BY <1>3, <3>1 DEF Aimed, Action
    <3> QED BY <2>2, <3>2 DEF Means
  <2> QED BY <1>3, <1>6, <2>1, <2>2, Plans DEF Aimed
<1>7. cmd'[c] \in Means \cup {"none"}
  BY <1>3, Commands DEF Aimed
<1>8. task'[c].st = "succeeded" \/ db'[c].st = "succeeded" => hw'[c] = Aim
  <2>1. task[c].st = "succeeded" \/ db[c].st = "succeeded" => hw'[c] = Aim
    BY <1>3, <1>4 DEF Aimed
  <2>2. CASE Carried(c)
    BY <2>1, <2>2 DEF Carried
  <2>3. CASE SequenceComp(c)
    <3>1. task'[c].st = "succeeded" \/ db'[c].st = "succeeded" => snap[c] = Aim
      BY <2>3, SequenceSource, DirectedSequenced
    <3> QED BY <1>3, <1>4, <3>1 DEF Aimed
  <2>4. CASE unsaved = {} /\ Build(c)
    BY <2>1, <2>2, <2>4, BuildSource
  <2>5. CASE unsaved = {} /\ Response(c)
    <3>1. CASE task'[c] = db'[c] /\ task'[c].st = "open"
      BY <3>1
    <3> QED BY <2>2, <2>5, <3>1, ResponseSource
  <2>6. CASE unsaved = {} /\ Confirm(c)
    <3>1. CASE mon[c] = EndState(powerAction) /\ powerAction \in Action
                 /\ c \in seqMap[powerAction]
      <4>1. powerAction \in Means
        BY <1>3, <3>1 DEF Aimed
      <4>2. mon[c] = Aim
        BY <3>1, <4>1 DEF Means, Aim, EndState
      <4> QED BY <1>3, <1>4, <4>2 DEF Aimed
    <3> QED BY <2>2, <2>6, <3>1, ConfirmSource
  <2> QED BY <2>2, <2>3, <2>4, <2>5, <2>6, Sources
<1>9. /\ \A a \in Action : c \in seqMap'[a] => a \in Means'
      /\ cmd'[c] \in Means' \cup {"none"}
      /\ mon'[c] = Aim' \/ snap'[c] = Aim' => hw'[c] = Aim'
      /\ task'[c].st = "succeeded" \/ db'[c].st = "succeeded" => hw'[c] = Aim'
  BY <1>2, <1>5, <1>6, <1>7, <1>8
<1> QED BY <1>9 DEF Aimed

\* What is reported to have been turned on or off is on or off, however late
\* the monitor was and however often the worker died (transitions.go reports it
\* from the stored power state, which is a copy).
THEOREM ResultsAreReal == ~NoWait => (Spec => []OutcomeReal)
<1> SUFFICES ASSUME ~NoWait PROVE Spec => []OutcomeReal
  OBVIOUS
<1>1. Init => Account /\ Directs
  BY InitAccount, InitDirects
<1>2. Account /\ Directs /\ [Next]_vars => Account' /\ Directs'
  BY NextAccount, NextDirects
<1>3. Directs => OutcomeReal
  BY DEF Directs, Directed, Aimed, Aim, OutcomeReal
<1> QED BY <1>1, <1>2, <1>3, PTL DEF Spec

-----------------------------------------------------------------------------
(* Force is used before a node is given up *)

\* What feeds a component is not a node.
Outlets == \A c \in Comp : \A i \in DOMAIN Supplies[c] :
              Supplies[c][i] \in Comp => Type[Supplies[c][i]] # "Node"

\* Who has been forced, as the tasks and the sets of the worker tell.
Forceful(c) ==
    /\ \A t \in {task[c], db[c]} : t.state = "Waiting" /\ t.op = "ForceOff" => c \in forced
    /\ pc \in Loop /\ powerAction = "forceoff" /\ c \in wait =>
          c \in forced \/ (pc = "build" /\ c \in out)

\* Off finds a way to turn off what it is put down for, and gives up only what
\* it has forced.
Insistent(c) ==
    op = "Off" =>
        /\ c \in seqMap["gracefulshutdown"] => {"off", "gracefulshutdown"} \cap acts[c] # {}
        /\ c \in seqMap["forceoff"] => "forceoff" \in acts[c]
        /\ faults = 0 /\ Type[c] = "Node" /\ "forceoff" \in acts[c] =>
              \A t \in {task[c], db[c]} : t.st = "failed" => c \in forced

Insists == \A c \in Comp : Forceful(c) /\ Insistent(c)

\* The failure of one component never fails a node that depends on it.
LEMMA NodesFailAlone ==
    ASSUME Outlets, Account, NEW c \in Comp, NEW a, Fail(c, a),
           NEW d \in Comp, d # c, Type[d] = "Node"
    PROVE  task'[d] = task[d]
<1>1. d \notin LastSupply(c)
  <2> SUFFICES ASSUME d \in LastSupply(c) PROVE FALSE
    OBVIOUS
  <2>1. \E i \in DOMAIN Supplies[c] : d = Supplies[c][i]
    BY DEF LastSupply
  <2> QED BY <2>1 DEF Outlets
<1>2. d \notin Dependents(c, a)
  BY <1>1 DEF Dependents
<1>3. task' = Failing(task, {c} \cup Dependents(c, a))
  BY DEF Fail
<1> QED BY <1>2, <1>3 DEF Failing

\* How a node comes to fail.
LEMMA Failures ==
    ASSUME Outlets, Account, [Next]_vars, NEW d \in Comp, Type[d] = "Node",
           task'[d].st = "failed"
    PROVE  \/ task[d].st = "failed" \/ db[d].st = "failed"
           \/ faults' = faults + 1
           \/ SequenceComp(d)
           \/ Build(d) /\ Payload(powerAction) \cap acts[d] = {}
           \/ /\ Late(d)
              /\ ~(powerAction = "gracefulshutdown" /\ op # "SoftOff" /\ "forceoff" \in acts[d])
<1>1. CASE task' = task
  BY <1>1
<1>2. CASE task' = db
  BY <1>2
<1>3. CASE Fault
  BY <1>3 DEF Fault
<1>4. ASSUME NEW c \in Comp, NEW a, Fail(c, a), c # d PROVE task[d].st = "failed"
  BY <1>4, NodesFailAlone
<1>5. ASSUME NEW c \in Comp, NEW t, Update(c, t), c # d PROVE task[d].st = "failed"
  <2>1. task'[d] = task[d]
    BY <1>5 DEF Update, Account, TypeOK
  <2> QED BY <2>1
<1>6. ASSUME NEW c \in Comp, Work(c)
      PROVE  \/ task[d].st = "failed"
             \/ faults' = faults + 1
             \/ SequenceComp(d)
             \/ Build(d) /\ Payload(powerAction) \cap acts[d] = {}
             \/ /\ Late(d)
                /\ ~(powerAction = "gracefulshutdown" /\ op # "SoftOff" /\ "forceoff" \in acts[d])
  <2>1. CASE SequenceComp(c)
    <3>1. Update(c, Sequenced(c).task)
      BY <2>1 DEF SequenceComp
    <3> QED BY <1>5, <2>1, <3>1
  <2>2. CASE Walk(c)
    BY <1>1, <2>2 DEF Walk
  <2>3. CASE ReserveFailed(c) \/ KeyExpired(c)
    BY <2>3 DEF ReserveFailed, KeyExpired, Fault
  <2>4. CASE Build(c)
    <3>1. \/ task' = task
          \/ Fail(c, powerAction) /\ Payload(powerAction) \cap acts[c] = {}
          \/ /\ Update(c, [task[c] EXCEPT !.state = "Sending", !.op = OpFor(powerAction)])
             /\ task[c].st # "failed"
      BY <2>4 DEF Build
    <3>2. CASE /\ Update(c, [task[c] EXCEPT !.state = "Sending", !.op = OpFor(powerAction)])
               /\ task[c].st # "failed" /\ c = d
      <4>1. task'[d] = [task[d] EXCEPT !.state = "Sending", !.op = OpFor(powerAction)]
        BY <3>2 DEF Update, Account, TypeOK
      <4>2. task[d] \in Task
        BY DEF Account, TypeOK
      <4>3. task'[d].st = task[d].st
        BY <4>1, <4>2 DEF Task
      <4> QED BY <4>3
    <3> QED BY <1>4, <1>5, <2>4, <3>1, <3>2
  <2>5. CASE Response(c)
    <3>1. Fault \/ Update(c, Accepted(c))
      BY <2>5 DEF Response
    <3>2. CASE Update(c, Accepted(c)) /\ c = d
      <4>1. task'[d] = Accepted(d)
        BY <3>2 DEF Update, Account, TypeOK
      <4>2. task[d] \in Task
        BY DEF Account, TypeOK
      <4>3. Accepted(d).st \in {"succeeded", "open"}
        BY <4>2 DEF Accepted, Task
      <4> QED BY <4>1, <4>3
    <3> QED BY <1>5, <3>1, <3>2 DEF Fault
  <2>6. CASE Confirm(c)
    <3>1. task' = task \/ Fault \/ Update(c, Confirmed(c))
      BY <2>6 DEF Confirm
    <3>2. CASE Update(c, Confirmed(c)) /\ c = d
      <4>1. task'[d] = Confirmed(d)
        BY <3>2 DEF Update, Account, TypeOK
      <4>2. task[d] \in Task
        BY DEF Account, TypeOK
      <4>3. Confirmed(d).st \in {"succeeded", task[d].st}
        BY <4>2 DEF Confirmed, Task
      <4> QED BY <4>1, <4>3
    <3> QED BY <1>5, <3>1, <3>2 DEF Fault
  <2>7. CASE Late(c)
    <3>1. \/ task' = task
          \/ /\ Fail(c, powerAction)
             /\ ~(powerAction = "gracefulshutdown" /\ op # "SoftOff" /\ "forceoff" \in acts[c])
      BY <2>7 DEF Late
    <3> QED BY <1>4, <2>7, <3>1
  <2> QED BY <1>6, <2>1, <2>2, <2>3, <2>4, <2>5, <2>6, <2>7 DEF Work
<1>7. CASE Start \/ Crash
  BY <1>2, <1>7 DEF Start, Crash
<1>8. CASE ReserveError
  BY <1>3, <1>8 DEF ReserveError
<1>9. CASE \/ Save \/ Reserved \/ EnterTier \/ KeysChecked \/ Launch
           \/ Answered \/ RoundDone \/ Deadline \/ LateDone \/ UNCHANGED vars
  <2>1. task' = task
    BY <1>9 DEF Save, Reserved, EnterTier, KeysChecked, Launch, Answered, RoundDone, Deadline,
                LateDone, vars, worker
  <2> QED BY <1>1, <2>1
<1>10. ASSUME NEW c \in Comp, Execute(c) \/ Monitor(c) \/ Lose(c) PROVE task' = task
  BY <1>10 DEF Execute, Monitor, Lose, worker
<1> QED BY <1>1, <1>6, <1>7, <1>8, <1>9, <1>10 DEF Next, WorkerStep

\* Who is waited for was waited for before, in the same tier, or has just been
\* taken from the list; and a command once prepared is sent.
LEMMA Waits ==
    ASSUME Account, [Next]_vars, NEW d \in wait'
    PROVE  \/ Build(d)
           \/ /\ d \in wait /\ tier' = tier /\ pc \in Loop
              /\ pc = "build" /\ d \in out => Launch \/ (pc' = "build" /\ d \in out')
<1>1. CASE UNCHANGED <<wait, tier, pc, out>>
  BY <1>1 DEF Account, Shape, Loop, TypeOK
<1>2. CASE Start \/ ReserveError \/ Reserved \/ EnterTier
  BY <1>2 DEF Start, ReserveError, Reserved, EnterTier, Account, Shape
<1>3. CASE Launch
  BY <1>3 DEF Launch, Loop
<1>4. CASE KeysChecked
  BY <1>4 DEF KeysChecked, Account, Shape
<1>5. CASE Answered \/ RoundDone \/ Deadline \/ LateDone
  BY <1>5 DEF Answered, RoundDone, Deadline, LateDone, NextTier, Loop
<1>6. CASE Crash
  BY <1>6 DEF Crash
<1>7. ASSUME NEW c \in Comp, Build(c), c # d
      PROVE  d \in wait /\ tier' = tier /\ pc = "build" /\ pc' = "build" /\ out \subseteq out'
  BY <1>7 DEF Build
<1>8. ASSUME NEW c \in Comp, Response(c) \/ Confirm(c) \/ Late(c)
      PROVE  d \in wait /\ tier' = tier /\ pc \in Loop \ {"build"}
  BY <1>8 DEF Response, Confirm, Late, Loop
<1>9. CASE Save
  BY <1>1, <1>9 DEF Save
<1>10. ASSUME NEW c \in Comp,
              \/ SequenceComp(c) \/ ReserveFailed(c) \/ KeyExpired(c)
              \/ Execute(c) \/ Monitor(c) \/ Lose(c)
       PROVE  UNCHANGED <<wait, tier, pc, out>>
  BY <1>10 DEF SequenceComp, ReserveFailed, KeyExpired, Execute, Monitor, Lose, worker
<1>11. ASSUME NEW c \in Comp, Walk(c) PROVE FALSE
  BY <1>11 DEF Walk, Account, Shape
<1>12. UNCHANGED vars => UNCHANGED <<wait, tier, pc, out>>
  BY DEF vars, worker
<1>13. ASSUME NEW c \in Comp, Work(c)
       PROVE  \/ Build(d)
              \/ /\ d \in wait /\ tier' = tier /\ pc \in Loop
                 /\ pc = "build" /\ d \in out => Launch \/ (pc' = "build" /\ d \in out')
  BY <1>1, <1>7, <1>8, <1>10, <1>11, <1>13 DEF Work, Loop
<1> QED BY <1>1, <1>2, <1>3, <1>4, <1>5, <1>6, <1>9, <1>10, <1>12, <1>13 DEF Next, WorkerStep

\* Nothing forced is forgotten, and faults are counted.
LEMMA Histories ==
    ASSUME Account, [Next]_vars
    PROVE  forced \subseteq forced' /\ faults' \in {faults, faults + 1}
<1>1. CASE Launch
  BY <1>1 DEF Launch
<1>2. CASE ReserveError
  BY <1>2 DEF ReserveError, Fault
<1>3. CASE \/ Save \/ Start \/ Reserved \/ EnterTier \/ KeysChecked \/ Answered \/ RoundDone
           \/ Deadline \/ LateDone \/ Crash \/ UNCHANGED vars
  BY <1>3 DEF Save, Start, Reserved, EnterTier, KeysChecked, Answered, RoundDone, Deadline,
              LateDone, Crash, vars
<1>4. ASSUME NEW c \in Comp, Execute(c) \/ Monitor(c) \/ Lose(c)
      PROVE  forced' = forced /\ faults' = faults
  BY <1>4 DEF Execute, Monitor, Lose
<1>5. ASSUME NEW c \in Comp, Work(c) PROVE forced' = forced /\ faults' \in {faults, faults + 1}
  BY <1>5 DEF Work, SequenceComp, Walk, ReserveFailed, KeyExpired, Build, Response, Confirm,
              Late, Fault, NoFault
<1> QED BY <1>1, <1>2, <1>3, <1>4, <1>5 DEF Next, WorkerStep

\* sequenceComponents keeps what a task tells of the last command, but for an
\* interrupted restart, which it confirms.
LEMMA SequencedTrace ==
    ASSUME Account, NEW c \in Comp
    PROVE  /\ Sequenced(c).task.op = task[c].op
           /\ \/ Sequenced(c).task.state = task[c].state
              \/ Sequenced(c).task.state = "Confirmed" /\ PoweredOff(c)
<1> DEFINE Good(r) == /\ r.task.op = task[c].op
                      /\ \/ r.task.state = task[c].state
                         \/ r.task.state = "Confirmed" /\ PoweredOff(c)
<1>1. task[c] \in Task /\ op \in Operation
  BY DEF Account, TypeOK
<1>2. /\ \A S : Good(PutInto(c, S)) /\ \A st : Good(Finished(c, st))
      /\ PoweredOff(c) => Good(OffConfirmed(c))
  BY <1>1 DEF PutInto, Finished, OffConfirmed, Task
<1> HIDE DEF Good
<1>3. Good(Interrupted(c))
  <2>1. CASE task[c].state = "GatherData"
    BY <1>2, <2>1 DEF Interrupted
  <2>2. CASE task[c].state # "GatherData" /\ task[c].op = "On"
    BY <1>2, <2>2 DEF Interrupted, PoweredOff
  <2>3. CASE task[c].state # "GatherData" /\ PoweredOff(c)
    BY <1>2, <2>3 DEF Interrupted, PoweredOff
  <2>4. CASE task[c].state # "GatherData" /\ task[c].op # "On" /\ ~PoweredOff(c)
    BY <1>2, <2>4 DEF Interrupted, PoweredOff
  <2> QED BY <2>1, <2>2, <2>3, <2>4
<1>4. Good(Cycled(c))
  BY <1>2 DEF Cycled
<1>5. Good(SoftRestarted(c)) /\ Good(HardRestarted(c))
  BY <1>2, <1>3, <1>4 DEF SoftRestarted, HardRestarted
<1>6. Good(Initialized(c))
  BY <1>2 DEF Initialized, PoweredOff
<1>7. \A state, S : Good(Unless(c, state, S))
  BY <1>2 DEF Unless
<1>8. Good(Sequenced(c))
  <2>1. CASE ~Supports(c, op)
    BY <1>2, <2>1 DEF Sequenced
  <2>2. CASE Supports(c, op)
    BY <1>1, <1>5, <1>6, <1>7, <2>2 DEF Sequenced, Operation
  <2> QED BY <2>1, <2>2
<1> QED BY <1>8 DEF Good

LEMMA InitInsists ==
    ASSUME Init PROVE Insists
<1> SUFFICES ASSUME NEW c \in Comp PROVE Forceful(c) /\ Insistent(c)
  BY DEF Insists
<1>1. /\ pc = "down" /\ task[c].st = "open" /\ db[c].st = "open"
      /\ task[c].state = "GatherData" /\ db[c].state = "GatherData"
      /\ \A a \in Action : c \notin seqMap[a]
  BY DEF Init, NewTask, NoPlan
<1> QED BY <1>1 DEF Forceful, Insistent, Loop, Action

LEMMA NextForceful ==
    ASSUME ~NoWait, Account, Insists, [Next]_vars, NEW c \in Comp PROVE Forceful(c)'
<1> DEFINE Good(t) == t.state = "Waiting" /\ t.op = "ForceOff" => c \in forced'
<1>1. Account'
  BY NextAccount
<1>2. forced \subseteq forced'
  BY Histories
<1>3. /\ Good(task[c]) /\ Good(db[c])
      /\ pc \in Loop /\ powerAction = "forceoff" /\ c \in wait =>
            c \in forced' \/ (pc = "build" /\ c \in out)
      /\ \A t \in {task[c], db[c]} : t.state = "Waiting" /\ t.op = "ForceOff" => c \in forced
  BY <1>2 DEF Insists, Forceful
<1>4. Good(task'[c]) /\ Good(db'[c])
  <2>1. CASE Carried(c)
    BY <1>3, <2>1 DEF Carried
  <2>2. CASE SequenceComp(c)
    <3>1. Good(Sequenced(c).task)
      BY <1>3, SequencedTrace
    <3> QED BY <2>2, <3>1, SequenceSource
  <2>3. CASE unsaved = {} /\ Build(c)
    <3>1. CASE task'[c] = db'[c] /\ task'[c].state = "Sending"
      BY <3>1
    <3> QED BY <2>1, <2>3, <3>1, BuildSource
  <2>4. CASE unsaved = {} /\ Response(c)
    <3>1. CASE task'[c] = db'[c] /\ task'[c].op = task[c].op /\ c \in wait
      <4>1. task[c].op = OpFor(powerAction) /\ pc = "send" /\ tier \in 1..14
        BY <2>4, <3>1 DEF Account, Sent, Response, Shape, Loop
      <4>2. powerAction \in Action
        BY <4>1, TierOrder DEF powerAction
      <4>3. task[c].op = "ForceOff" => powerAction = "forceoff"
        BY <4>1, <4>2 DEF OpFor, Action
      <4>4. task[c].op = "ForceOff" => c \in forced'
        BY <1>3, <3>1, <4>1, <4>3 DEF Loop
      <4> QED BY <3>1, <4>4
    <3> QED BY <2>1, <2>4, <3>1, ResponseSource
  <2>5. CASE unsaved = {} /\ Confirm(c)
    <3>1. CASE task'[c] = db'[c] /\ task'[c].state = "Confirmed"
      BY <3>1
    <3> QED BY <2>1, <2>5, <3>1, ConfirmSource
  <2> QED BY <2>1, <2>2, <2>3, <2>4, <2>5, Sources
<1>5. ASSUME pc' \in Loop, powerAction' = "forceoff", c \in wait'
      PROVE  c \in forced' \/ (pc' = "build" /\ c \in out')
  <2>1. CASE Build(c)
    <3>1. /\ pc = "build" /\ pc' = "build" /\ tier' = tier
          /\ \/ c \in wait
             \/ task[c].state = "Waiting" /\ task[c].op = OpFor(powerAction)
             \/ c \in out'
          /\ out \subseteq out'
      BY <1>5, <2>1 DEF Build
    <3>2. powerAction = "forceoff"
      BY <1>5, <3>1 DEF powerAction
    <3> QED BY <1>3, <3>1, <3>2 DEF OpFor, Loop
  <2>2. CASE /\ c \in wait /\ tier' = tier /\ pc \in Loop
             /\ pc = "build" /\ c \in out => Launch \/ (pc' = "build" /\ c \in out')
    <3>1. powerAction = "forceoff"
      BY <1>5, <2>2 DEF powerAction
    <3>2. Launch /\ c \in out => c \in forced'
      BY <3>1 DEF Launch
    <3> QED BY <1>3, <2>2, <3>1, <3>2
  <2> QED BY <1>5, <2>1, <2>2, Waits
<1> QED BY <1>4, <1>5 DEF Forceful

LEMMA NextInsistent ==
    ASSUME ~NoWait, Outlets, Account, Directs, Insists, [Next]_vars, NEW c \in Comp
    PROVE  Insistent(c)'
<1>1. op' = op /\ acts' = acts
  BY Fixed
<1> SUFFICES ASSUME op = "Off" PROVE Insistent(c)'
  BY <1>1 DEF Insistent
<1>2. Insistent(c) /\ Forceful(c) /\ Aimed(c) /\ Directed /\ op # "SoftOff"
  BY DEF Insists, Directs, Directed
<1>3. Means = {"gracefulshutdown", "forceoff"}
  BY DEF Means
<1>4. /\ c \in seqMap'["gracefulshutdown"] => {"off", "gracefulshutdown"} \cap acts[c] # {}
      /\ c \in seqMap'["forceoff"] => "forceoff" \in acts[c]
  <2>1. ASSUME SequenceComp(c), NEW a \in Sequenced(c).into
        PROVE  a = "gracefulshutdown" /\ {"off", "gracefulshutdown"} \cap acts[c] # {}
    <3>1. Supports(c, op)
      <4> SUFFICES ASSUME ~Supports(c, op) PROVE FALSE
        OBVIOUS
      <4>1. Sequenced(c).into = {}
        BY DEF Sequenced, Finished
      <4> QED BY <2>1, <4>1
    <3>2. Sequenced(c) = Unless(c, "off", {"gracefulshutdown"})
      BY <3>1 DEF Sequenced
    <3>3. a = "gracefulshutdown"
      BY <2>1, <3>2 DEF Unless, Finished, PutInto
    <3> QED BY <3>1, <3>3 DEF Supports
  <2>2. c \in seqMap'["gracefulshutdown"] => {"off", "gracefulshutdown"} \cap acts[c] # {}
    BY <1>2, <2>1, Plans DEF Insistent, Action
  <2>3. c \in seqMap'["forceoff"] => "forceoff" \in acts[c]
    BY <1>2, <2>1, Plans DEF Insistent, Action, Escalated
  <2> QED BY <2>2, <2>3
<1>5. ASSUME faults' = 0, Type[c] = "Node", "forceoff" \in acts[c],
             task'[c].st = "failed" \/ db'[c].st = "failed"
      PROVE  c \in forced'
  <2>1. faults = 0 /\ faults' # faults + 1 /\ forced \subseteq forced'
    <3>1. faults \in Nat
      BY SeqAssumption DEF Account, TypeOK
    <3> QED BY <1>5, <3>1, Histories
  <2>2. task[c].st = "failed" \/ db[c].st = "failed" => c \in forced'
    BY <1>2, <1>5, <2>1 DEF Insistent
  <2>3. task'[c].st = "failed" => c \in forced'
    <3>1. ~(SequenceComp(c) /\ task'[c].st = "failed")
      <4> SUFFICES ASSUME SequenceComp(c) PROVE task'[c].st # "failed"
        OBVIOUS
      <4> QED BY <1>2, SequenceSource, DirectedSequenced
    <3>2. ~(Build(c) /\ Payload(powerAction) \cap acts[c] = {})
      <4> SUFFICES ASSUME Build(c), Payload(powerAction) \cap acts[c] = {} PROVE FALSE
        OBVIOUS
      <4>1. c \in InTier(tier) /\ tier \in 1..14
        BY DEF Build, Account, Shape, Loop
      <4>2. powerAction \in Action /\ c \in seqMap[powerAction]
        BY <4>1, TierOrder DEF InTier, powerAction
      <4>3. powerAction \in Means
        BY <1>2, <4>2 DEF Aimed
      <4>4. CASE powerAction = "gracefulshutdown"
        BY <1>2, <4>2, <4>4 DEF Insistent, Payload
      <4>5. CASE powerAction = "forceoff"
        BY <1>2, <4>2, <4>5 DEF Insistent, Payload
      <4> QED BY <1>3, <4>3, <4>4, <4>5
    <3>3. CASE Late(c) /\ powerAction # "gracefulshutdown"
      <4>1. pc = "late" /\ c \in wait
        BY <3>3 DEF Late
      <4>2. c \in InTier(tier) /\ tier \in 1..14
        BY <4>1 DEF Account, Shape, Loop
      <4>3. powerAction \in Action /\ c \in seqMap[powerAction]
        BY <4>2, TierOrder DEF InTier, powerAction
      <4>4. powerAction = "forceoff"
        BY <1>2, <1>3, <3>3, <4>3 DEF Aimed
      <4> QED BY <1>2, <2>1, <4>1, <4>4 DEF Forceful, Loop
    <3> QED BY <1>2, <1>5, <2>1, <2>2, <3>1, <3>2, <3>3, Failures
  <2>4. db'[c].st = "failed" => c \in forced'
    <3>1. CASE Carried(c)
      BY <2>2, <2>3, <3>1 DEF Carried
    <3>2. CASE task'[c] = db'[c]
      BY <2>3, <3>2
    <3> QED BY <3>1, <3>2, Sources, SequenceSource, BuildSource, ResponseSource, ConfirmSource
  <2> QED BY <1>5, <2>3, <2>4
<1> QED BY <1>1, <1>4, <1>5 DEF Insistent

\* When nothing is lost on the way, Off gives up a node that can be forced only
\* after it was sent a forceoff, also when the worker dies between the shutdown
\* that was too slow and the forceoff (transitions.go puts it down for that one
\* in memory only).  Supplies are outlets, never nodes.
THEOREM ForceComesFirst == ~NoWait /\ Outlets => (Spec => []ForcedFirst)
<1> SUFFICES ASSUME ~NoWait, Outlets PROVE Spec => []ForcedFirst
  OBVIOUS
<1> DEFINE I == Account /\ Directs /\ Insists
<1>1. Init => I
  BY InitAccount, InitDirects, InitInsists
<1>2. I /\ [Next]_vars => I'
  <2> SUFFICES ASSUME I, [Next]_vars PROVE I'
    OBVIOUS
  <2>1. Account' /\ Directs'
    BY NextAccount, NextDirects
  <2>2. Insists'
    BY NextForceful, NextInsistent DEF Insists
  <2> QED BY <2>1, <2>2
<1>3. I => ForcedFirst
  BY DEF Insists, Insistent, ForcedFirst
<1> QED BY <1>1, <1>2, <1>3, PTL DEF Spec

-----------------------------------------------------------------------------
(* Restarts are real *)

Restarting == op \in {"SoftRestart", "HardRestart"}
Spent(c)   == c \in wentOff \cup blind
Refusable(c) == Spent(c) \/ cmd[c] = "gracefulrestart" \/ faults > 0

\* A component that has not been off yet is what it was in the beginning, and
\* is seen as that; one that was off then is given up.
Constant(c) ==
    ~Spent(c) =>
        /\ mon[c] \in {hw[c], "undefined"} /\ snap[c] \in {hw[c], "undefined"}
        /\ pc # "down" => snap[c] = hw[c]
        /\ hw[c] = "off" =>
              /\ cmd[c] = "none" /\ \A a \in Action : c \notin seqMap[a]
              /\ \A t \in {task[c], db[c]} : t.state = "GatherData" /\ t.st # "succeeded"

\* What turns c on, or has been told to, is the second half of a power cycle:
\* as long as c has not been off, both actions are due.
OffComesFirst(c) ==
    /\ cmd[c] = "on" => Spent(c)
    /\ \A t \in {task[c], db[c]} : t.op = "On" => Spent(c)
    /\ c \in seqMap["on"] /\ (task[c].st # "failed" \/ c \in wait) =>
          Spent(c) \/ count[c] = 2

\* A component that can restart by itself is left to do so.
LeftAlone(c) ==
    /\ c \in seqMap["gracefulrestart"] => Restartable(c)
    /\ op = "SoftRestart" /\ Restartable(c) =>
          /\ c \notin seqMap["gracefulshutdown"] \cup seqMap["forceoff"]
          /\ \A t \in {task[c], db[c]} : t.op \notin {"Off", "ForceOff"}
    /\ \A t \in {task[c], db[c]} :
          /\ t.op = "SoftRestart" /\ t.state # "GatherData" => Restartable(c)
          /\ t.op = "SoftRestart" /\ t.state = "Waiting" => Refusable(c)

\* Those waited for have answered, and a success is one.
Answers(c) ==
    /\ c \in wait \ out => task[c].state = "Waiting"
    /\ \A t \in {task[c], db[c]} : t.st = "succeeded" => Spent(c) \/ Unverified(c)

Restarted(c) == Constant(c) /\ OffComesFirst(c) /\ LeftAlone(c) /\ Answers(c)

Restarts == Restarting => \A c \in Comp : Restarted(c)

\* Nothing that was off, or not seen, is forgotten.
LEMMA Memories ==
    ASSUME Account, [Next]_vars
    PROVE  /\ wentOff \subseteq wentOff' /\ blind \subseteq blind'
           /\ \A c \in Comp : Start /\ mon[c] = "undefined" => c \in blind'
<1>1. CASE Start
  BY <1>1 DEF Start, world
<1>2. CASE \/ Save \/ ReserveError \/ Reserved \/ EnterTier \/ KeysChecked \/ Launch \/ Answered
           \/ RoundDone \/ Deadline \/ LateDone \/ Crash \/ UNCHANGED vars
  <2>1. wentOff' = wentOff /\ blind' = blind /\ ~Start
    <3>1. wentOff' = wentOff /\ blind' = blind
      BY <1>2 DEF Save, ReserveError, Reserved, EnterTier, KeysChecked, Launch, Answered,
                  RoundDone, Deadline, LateDone, Crash, vars, world, fixed
    <3>2. Start => pc = "down" /\ pc' = "seq"
      BY DEF Start
    <3>3. ~(pc = "down" /\ pc' = "seq")
      BY <1>2 DEF Save, ReserveError, Reserved, EnterTier, KeysChecked, Launch, Answered,
                  RoundDone, Deadline, LateDone, NextTier, Crash, vars, worker
    <3> QED BY <3>1, <3>2, <3>3
  <2> QED BY <2>1
<1>3. ASSUME NEW c \in Comp, Work(c)
      PROVE  wentOff' = wentOff /\ blind' = blind /\ ~Start
  BY <1>3 DEF Work, SequenceComp, Walk, ReserveFailed, KeyExpired, Build, Response, Confirm,
              Late, world, fixed, Start, Account, Shape
<1>4. ASSUME NEW c \in Comp, Execute(c) \/ Monitor(c) \/ Lose(c)
      PROVE  wentOff \subseteq wentOff' /\ blind' = blind /\ ~Start
  <2>1. blind' = blind /\ pc' = pc
    BY <1>4 DEF Execute, Monitor, Lose, fixed, worker
  <2>2. CASE Monitor(c) \/ Lose(c)
    BY <2>2, <2>1 DEF Monitor, Lose, Start
  <2>3. CASE Execute(c)
    <3>1. cmd[c] \in Action
      BY <2>3 DEF Execute, Account, TypeOK
    <3>2. CASE cmd[c] \in {"gracefulshutdown", "forceoff"}
      BY <2>1, <2>3, <3>2 DEF Execute, TurnOff, Start
    <3>3. CASE cmd[c] \in {"on", "gracefulrestart"}
      BY <2>1, <2>3, <3>3 DEF Execute, Start
    <3> QED BY <3>1, <3>2, <3>3 DEF Action
  <2> QED BY <1>4, <2>2, <2>3
<1> QED BY <1>1, <1>2, <1>3, <1>4 DEF Next, WorkerStep

\* What a command does to the component it is for, and to others.
LEMMA Carrying ==
    ASSUME Account, NEW c \in Comp, Execute(c), NEW d \in Comp
    PROVE  /\ \/ hw'[d] = hw[d]
              \/ d \in wentOff'
              \/ d = c /\ cmd[c] = "on"
           /\ cmd[c] = "gracefulrestart" /\ hw[c] = "on" => c \in wentOff'
<1>1. cmd[c] \in Action
  BY DEF Execute, Account, TypeOK
<1>2. CASE cmd[c] \in {"gracefulshutdown", "forceoff"}
  <2>1. TurnOff(c)
    BY <1>2 DEF Execute
  <2> QED BY <1>2, <2>1 DEF TurnOff, Account, TypeOK
<1>3. CASE cmd[c] = "on"
  <2>1. hw' = IF Powered(c, hw) THEN [hw EXCEPT ![c] = "on"] ELSE hw
    BY <1>3 DEF Execute
  <2> QED BY <1>3, <2>1 DEF Account, TypeOK
<1>4. CASE cmd[c] = "gracefulrestart"
  BY <1>4 DEF Execute
<1> QED BY <1>1, <1>2, <1>3, <1>4 DEF Action

\* The worker reads the power states when it starts, and keeps them.
LEMMA Reads ==
    ASSUME Account, [Next]_vars
    PROVE  \/ Start /\ snap' = mon
           \/ Crash /\ pc' = "down" /\ snap' = [c \in Comp |-> "undefined"]
           \/ snap' = snap /\ (pc' = "down" <=> pc = "down")
<1>1. CASE Start \/ Crash
  BY <1>1 DEF Start, Crash
<1>2. CASE \/ Save \/ ReserveError \/ Reserved \/ EnterTier \/ KeysChecked \/ Launch \/ Answered
           \/ RoundDone \/ Deadline \/ LateDone \/ UNCHANGED vars
  <2>1. snap' = snap /\ (pc' = "down" <=> pc = "down")
    BY <1>2 DEF Save, ReserveError, Reserved, EnterTier, KeysChecked, Launch, Answered,
                RoundDone, Deadline, LateDone, NextTier, vars, worker, plan
  <2> QED BY <2>1
<1>3. ASSUME NEW c \in Comp, Work(c) PROVE snap' = snap /\ (pc' = "down" <=> pc = "down")
  BY <1>3 DEF Work, SequenceComp, Walk, ReserveFailed, KeyExpired, Build, Response, Confirm,
              Late, plan
<1>4. ASSUME NEW c \in Comp, Execute(c) \/ Monitor(c) \/ Lose(c) PROVE snap' = snap /\ pc' = pc
  BY <1>4 DEF Execute, Monitor, Lose, worker, plan
<1> QED BY <1>1, <1>2, <1>3, <1>4 DEF Next, WorkerStep

\* ActionCount changes when c is sequenced and when an action is confirmed.
LEMMA Counts ==
    ASSUME ~NoWait, Account, [Next]_vars, NEW d \in Comp
    PROVE  \/ count'[d] = count[d]
           \/ Crash
           \/ SequenceComp(d) /\ count'[d] = Cardinality(Sequenced(d).into)
           \/ Confirm(d) /\ mon[d] = EndState(powerAction)
<1>1. ASSUME NEW c \in Comp, Work(c)
      PROVE  \/ count'[d] = count[d]
             \/ SequenceComp(d) /\ count'[d] = Cardinality(Sequenced(d).into)
             \/ Confirm(d) /\ mon[d] = EndState(powerAction)
  <2>1. CASE SequenceComp(c)
    <3>1. count' = [count EXCEPT ![c] = Cardinality(Sequenced(c).into)]
      BY <2>1 DEF SequenceComp
    <3> QED BY <2>1, <3>1 DEF Account, TypeOK
  <2>2. CASE Response(c)
    <3>1. count' = count \/ count' = [count EXCEPT ![c] = @]
      BY <2>2 DEF Response
    <3> QED BY <3>1 DEF Account, TypeOK
  <2>3. CASE Confirm(c)
    <3>1. \/ count' = count
          \/ count' = [count EXCEPT ![c] = @ - 1] /\ mon[c] = EndState(powerAction)
      BY <2>3 DEF Confirm
    <3> QED BY <2>3, <3>1 DEF Account, TypeOK
  <2>4. CASE Walk(c) \/ ReserveFailed(c) \/ KeyExpired(c) \/ Build(c) \/ Late(c)
    BY <2>4 DEF Walk, ReserveFailed, KeyExpired, Build, Late, plan
  <2> QED BY <1>1, <2>1, <2>2, <2>3, <2>4 DEF Work
<1>2. CASE \/ Save \/ Start \/ ReserveError \/ Reserved \/ EnterTier \/ KeysChecked \/ Launch
           \/ Answered \/ RoundDone \/ Deadline \/ LateDone \/ UNCHANGED vars
  <2>1. count' = count
    BY <1>2 DEF Save, Start, ReserveError, Reserved, EnterTier, KeysChecked, Launch, Answered,
                RoundDone, Deadline, LateDone, vars, worker, plan
  <2> QED BY <2>1
<1>3. ASSUME NEW c \in Comp, Execute(c) \/ Monitor(c) \/ Lose(c) PROVE count' = count
  BY <1>3 DEF Execute, Monitor, Lose, worker, plan
<1> QED BY <1>1, <1>2, <1>3 DEF Next, WorkerStep

\* A command is answered, or the worker dies.
LEMMA Outs ==
    ASSUME Account, [Next]_vars, NEW d \in out, d \notin out'
    PROVE  Response(d) \/ Crash
<1>1. ASSUME NEW c \in Comp, Work(c) PROVE Response(d)
  BY <1>1 DEF Work, SequenceComp, Walk, ReserveFailed, KeyExpired, Build, Response, Confirm,
              Late
<1>2. ~(\/ Save \/ Start \/ ReserveError \/ Reserved \/ EnterTier \/ KeysChecked \/ Launch
        \/ Answered \/ RoundDone \/ Deadline \/ LateDone \/ UNCHANGED vars)
  BY DEF Save, Start, ReserveError, Reserved, EnterTier, KeysChecked, Launch, Answered,
         RoundDone, Deadline, LateDone, vars, worker
<1>3. ASSUME NEW c \in Comp, Execute(c) \/ Monitor(c) \/ Lose(c) PROVE FALSE
  BY <1>3 DEF Execute, Monitor, Lose, worker
<1> QED BY <1>1, <1>2, <1>3 DEF Next, WorkerStep

\* In the tiers that turn on nothing is due to be turned off.
LEMMA DownBehind ==
    ASSUME Account, NEW c \in Comp, pc \in Loop, c \in InTier(tier), powerAction = "on"
    PROVE  ~DownDue(c)
<1>1. tier \in 1..14 /\ tier >= 11
  <2>1. tier \in 1..14
    BY DEF Account, Shape
  <2> QED BY <2>1, TierOrder DEF powerAction
<1>2. Type[c] \notin Switch \cup Controller
  <2>1. tier = 11 \/ tier = 12 \/ tier = 13 \/ tier = 14
    BY <1>1
  <2>2. Type[c] \in {"CabinetPDUPowerConnector", "Chassis", "Node"} \cup Module
    BY <2>1, Table DEF InTier
  <2> QED BY <2>2 DEF Switch, Controller, Module
<1>3. ASSUME NEW a \in Action \ {"on"} PROVE Done(c, a)
  <2>1. PICK k \in 1..14 : Serves(k, c, a)
    BY <1>2, HasPlace
  <2>2. k <= 10
    BY <2>1, TierOrder DEF Serves, Action
  <2>3. Behind(c, k)
    BY <1>1, <2>2 DEF Behind
  <2> QED BY <2>1, <2>3 DEF Done
<1> QED BY <1>3 DEF DownDue, Due

\* What sequenceComponents does with a component to be restarted.
LEMMA RestartSequenced ==
    ASSUME Account, Placed, Restarting, NEW c \in Comp, Restarted(c), IsOpen(c), pc = "seq"
    PROVE  /\ Sequenced(c).task.st = "succeeded" => Spent(c) \/ Unverified(c)
           /\ "on" \in Sequenced(c).into =>
                 Spent(c) \/ Sequenced(c).into = {"gracefulshutdown", "on"}
           /\ "forceoff" \notin Sequenced(c).into
           /\ "gracefulrestart" \in Sequenced(c).into => Restartable(c)
           /\ op = "SoftRestart" /\ Restartable(c) =>
                 "gracefulshutdown" \notin Sequenced(c).into
           /\ ~Spent(c) /\ hw[c] = "off" =>
                 /\ Sequenced(c).into = {}
                 /\ Sequenced(c).task.state = "GatherData"
                 /\ Sequenced(c).task.st # "succeeded"
<1> DEFINE Still == ~Spent(c) /\ hw[c] = "off"
           Good(r) == /\ r.task.st = "succeeded" => Spent(c) \/ Unverified(c)
                      /\ "on" \in r.into => Spent(c) \/ r.into = {"gracefulshutdown", "on"}
                      /\ "forceoff" \notin r.into
                      /\ "gracefulrestart" \in r.into => Restartable(c)
                      /\ op = "SoftRestart" /\ Restartable(c) =>
                            "gracefulshutdown" \notin r.into
                      /\ Still => /\ r.into = {} /\ r.task.state = "GatherData"
                                  /\ r.task.st # "succeeded"
<1>1. task[c] \in Task /\ op \in Operation /\ Traced(task[c])
  BY DEF Account, TypeOK
<1>2. /\ \A st : /\ Finished(c, st).into = {} /\ Finished(c, st).task.st = st
                 /\ Finished(c, st).task.state = task[c].state
      /\ \A S : /\ PutInto(c, S).into = S /\ PutInto(c, S).task.st = "open"
                /\ PutInto(c, S).task.state = task[c].state
      /\ OffConfirmed(c).into = {"on"} /\ OffConfirmed(c).task.st = "open"
      /\ OffConfirmed(c).task.state = "Confirmed"
  BY <1>1 DEF Finished, PutInto, OffConfirmed, Task, IsOpen
<1>3. ~Spent(c) => snap[c] = hw[c]
  BY DEF Restarted, Constant
<1>4. Still => task[c].state = "GatherData"
  BY DEF Restarted, Constant
<1>5. task[c].op = "On" => Spent(c)
  BY DEF Restarted, OffComesFirst
<1>6. hw[c] \in {"on", "off"}
  BY DEF Account, TypeOK
<1> HIDE DEF Still
<1>7. Good(Finished(c, "failed")) /\ Good(Finished(c, "unsupported"))
  BY <1>2, <1>4
<1>8. (Spent(c) \/ Unverified(c)) /\ ~Still => Good(Finished(c, "succeeded"))
  BY <1>2
<1>9. Spent(c) => /\ Good(PutInto(c, {"on"})) /\ Good(OffConfirmed(c))
  BY <1>2 DEF Still
<1>10. ~Still /\ ~(op = "SoftRestart" /\ Restartable(c)) =>
          Good(PutInto(c, {"gracefulshutdown", "on"}))
  BY <1>2
<1>11. ~Still /\ Restartable(c) => Good(PutInto(c, {"gracefulrestart"}))
  BY <1>2
<1>12. Spent(c) \/ snap[c] = "on" => ~Still
  BY <1>3 DEF Still
<1> HIDE DEF Good
<1>13. snap[c] # "on" => Good(Interrupted(c))
  <2>1. HAVE snap[c] # "on"
  <2>2. CASE task[c].state = "GatherData"
    BY <1>7, <2>2 DEF Interrupted
  <2>3. CASE task[c].state # "GatherData"
    <3>1. Spent(c)
      BY <1>3, <1>4, <1>6, <2>1, <2>3 DEF Still
    <3>2. CASE task[c].op = "On"
      BY <1>9, <2>3, <3>1, <3>2 DEF Interrupted, PoweredOff
    <3>3. CASE PoweredOff(c)
      BY <1>9, <2>3, <3>1, <3>3 DEF Interrupted, PoweredOff
    <3>4. CASE task[c].op = "SoftRestart" /\ op = "SoftRestart"
      BY <1>7, <2>3, <3>4 DEF Interrupted, PoweredOff
    <3> QED BY <1>1, <2>3, <3>2, <3>3, <3>4 DEF Traced, PoweredOff
  <2> QED BY <2>2, <2>3
<1>14. snap[c] = "on" /\ ~(op = "SoftRestart" /\ Restartable(c)) => Good(Cycled(c))
  BY <1>5, <1>8, <1>10, <1>12 DEF Cycled
<1>15. CASE ~Supports(c, op)
  <2>1. Good(Sequenced(c))
    BY <1>7, <1>15 DEF Sequenced
  <2> QED BY <2>1 DEF Good, Still
<1>16. CASE Supports(c, op) /\ op = "HardRestart"
  <2>1. Sequenced(c) = HardRestarted(c)
    BY <1>16 DEF Sequenced
  <2>2. Good(HardRestarted(c))
    BY <1>13, <1>14, <1>16 DEF HardRestarted
  <2> QED BY <2>1, <2>2 DEF Good, Still
<1>17. CASE Supports(c, op) /\ op = "SoftRestart"
  <2>1. Sequenced(c) = SoftRestarted(c)
    BY <1>17 DEF Sequenced
  <2>2. Good(SoftRestarted(c))
    <3>1. CASE snap[c] = "on" /\ Restartable(c) /\ task[c].state = "Waiting"
      <4>1. task[c].op = "SoftRestart" => Spent(c) \/ Unverified(c)
        BY <1>17, <3>1 DEF Restarted, LeftAlone, Refusable, Unverified
      <4>2. task[c].op \notin {"Off", "ForceOff"}
        BY <1>17, <3>1 DEF Restarted, LeftAlone
      <4>3. Spent(c) \/ Unverified(c)
        BY <1>1, <1>5, <3>1, <4>1, <4>2 DEF Traced
      <4> QED BY <1>8, <1>12, <3>1, <4>3 DEF SoftRestarted
    <3>2. CASE snap[c] = "on" /\ Restartable(c) /\ task[c].state # "Waiting"
      BY <1>11, <1>12, <3>2 DEF SoftRestarted
    <3>3. CASE snap[c] = "on" /\ ~Restartable(c)
      <4>1. Type[c] \notin Controller
        <5> SUFFICES ASSUME Type[c] \in Controller PROVE FALSE
          OBVIOUS
        <5>1. acts[c] \subseteq {"gracefulrestart", "forcerestart"}
          BY DEF Placed, RestartOnly
        <5>2. {"gracefulrestart", "forcerestart"} \cap acts[c] # {}
          BY <1>17, <5>1 DEF Supports
        <5> QED BY <3>3, <5>2 DEF Restartable
      <4> QED BY <1>14, <3>3, <4>1 DEF SoftRestarted
    <3>4. CASE snap[c] # "on"
      BY <1>13, <3>4 DEF SoftRestarted
    <3> QED BY <3>1, <3>2, <3>3, <3>4
  <2> QED BY <2>1, <2>2 DEF Good, Still
<1> QED BY <1>15, <1>16, <1>17 DEF Restarting

LEMMA InitRestarts ==
    ASSUME Init PROVE Restarts
<1> SUFFICES ASSUME Restarting, NEW c \in Comp PROVE Restarted(c)
  BY DEF Restarts
<1>1. /\ pc = "down" /\ task[c] = NewTask /\ db[c] = NewTask /\ cmd[c] = "none"
      /\ wait = {} /\ mon = hw /\ snap[c] = "undefined"
      /\ \A a \in Action : c \notin seqMap[a]
  BY DEF Init, NoPlan
<1>2. NewTask.st = "open" /\ NewTask.state = "GatherData" /\ NewTask.op = op
  BY DEF NewTask
<1>3. Constant(c)
  BY <1>1, <1>2 DEF Constant
<1>4. OffComesFirst(c)
  BY <1>1, <1>2 DEF OffComesFirst, Restarting, Action
<1>5. LeftAlone(c)
  BY <1>1, <1>2 DEF LeftAlone, Restarting, Action
<1>6. Answers(c)
  BY <1>1, <1>2 DEF Answers
<1> QED BY <1>3, <1>4, <1>5, <1>6 DEF Restarted

\* Once c has been off it stays so; until then its power state does not change.
LEMMA SpentStays ==
    ASSUME Account, [Next]_vars, NEW c \in Comp, Restarted(c)
    PROVE  /\ Spent(c) => Spent(c)'
           /\ ~Spent(c)' => hw'[c] = hw[c]
<1>1. Spent(c) => Spent(c)'
  BY Memories DEF Spent
<1>2. ASSUME ~Spent(c)', NEW e \in Comp, Execute(e) PROVE hw'[c] = hw[c]
  <2>1. c \notin wentOff' /\ ~Spent(c)
    BY <1>1, <1>2 DEF Spent
  <2>2. cmd[c] # "on"
    BY <2>1 DEF Restarted, OffComesFirst
  <2> QED BY <1>2, <2>1, <2>2, Carrying
<1> QED BY <1>1, <1>2, Sights

\* A confirmed action proves that c has been off, unless it is a restart that c
\* was left to do.
LEMMA Confirmation ==
    ASSUME Account, Restarting, NEW c \in Comp, Restarted(c), pc = "confirm", c \in wait,
           mon[c] = EndState(powerAction), powerAction \in Action,
           c \in seqMap[powerAction]
    PROVE  \/ Spent(c)
           \/ powerAction = "gracefulrestart" /\ Unverified(c)
<1>1. task[c].op = OpFor(powerAction)
  BY DEF Account, Sent
<1>2. CASE powerAction \in {"gracefulshutdown", "forceoff"}
  <2>1. mon[c] = "off"
    BY <1>2 DEF EndState
  <2> QED BY <2>1 DEF Restarted, Constant
<1>3. CASE powerAction = "on"
  BY <1>1, <1>3 DEF OpFor, Restarted, OffComesFirst
<1>4. CASE powerAction = "gracefulrestart"
  <2>1. op = "SoftRestart"
    BY <1>4 DEF Account, Planned
  <2>2. task[c].op = "SoftRestart"
    BY <1>1, <1>4 DEF OpFor
  <2>3. task[c].state = "Waiting"
    BY DEF Account, Shape, Restarted, Answers
  <2>4. Restartable(c) /\ Refusable(c)
    BY <1>4, <2>2, <2>3 DEF Restarted, LeftAlone
  <2> QED BY <1>4, <2>1, <2>4 DEF Unverified, Refusable
<1> QED BY <1>2, <1>3, <1>4 DEF Action

LEMMA NextConstant ==
    ASSUME ~NoWait, Account, Placed, Restarting, [Next]_vars, NEW c \in Comp, Restarted(c)
    PROVE  Constant(c)'
<1> SUFFICES ASSUME ~Spent(c)'
             PROVE  /\ mon'[c] \in {hw'[c], "undefined"} /\ snap'[c] \in {hw'[c], "undefined"}
                    /\ pc' # "down" => snap'[c] = hw'[c]
                    /\ hw'[c] = "off" =>
                          /\ cmd'[c] = "none" /\ \A a \in Action : c \notin seqMap'[a]
                          /\ \A t \in {task'[c], db'[c]} :
                                t.state = "GatherData" /\ t.st # "succeeded"
  BY DEF Constant
<1>1. ~Spent(c) /\ hw'[c] = hw[c]
  BY SpentStays
<1>2. /\ mon[c] \in {hw[c], "undefined"} /\ snap[c] \in {hw[c], "undefined"}
      /\ pc # "down" => snap[c] = hw[c]
  BY <1>1 DEF Restarted, Constant
<1>3. mon'[c] \in {hw[c], "undefined"}
  <2>1. CASE \E e \in Comp : Execute(e)
    BY <1>2, <2>1, OneWay
  <2> QED BY <1>2, <2>1, Sights
<1>4. /\ snap'[c] \in {hw[c], "undefined"}
      /\ pc' # "down" => snap'[c] = hw[c]
  <2>1. CASE Start /\ snap' = mon
    <3>1. mon[c] # "undefined"
      BY <2>1, Memories DEF Spent
    <3> QED BY <1>2, <2>1, <3>1
  <2> QED BY <1>2, <2>1, Reads
<1>5. ASSUME hw[c] = "off"
      PROVE  /\ cmd'[c] = "none" /\ \A a \in Action : c \notin seqMap'[a]
             /\ \A t \in {task'[c], db'[c]} : t.state = "GatherData" /\ t.st # "succeeded"
  <2>1. /\ cmd[c] = "none" /\ \A a \in Action : c \notin seqMap[a]
        /\ \A t \in {task[c], db[c]} : t.state = "GatherData" /\ t.st # "succeeded"
    BY <1>1, <1>5 DEF Restarted, Constant
  <2>2. cmd'[c] = "none"
    BY <2>1, Commands
  <2>3. c \notin wait
    <3>1. c \in wait => c \in InTier(tier) /\ tier \in 1..14
      BY DEF Account, TypeOK, Shape, Loop
    <3> QED BY <2>1, <3>1, TierOrder DEF InTier
  <2>4. SequenceComp(c) =>
           /\ Sequenced(c).into = {} /\ Sequenced(c).task.state = "GatherData"
           /\ Sequenced(c).task.st # "succeeded"
    BY <1>1, <1>5, SequenceSource, RestartSequenced
  <2>5. \A a \in Action : c \notin seqMap'[a]
    BY <2>1, <2>3, <2>4, Plans DEF Escalated
  <2>6. \A t \in {task'[c], db'[c]} : t.state = "GatherData" /\ t.st # "succeeded"
    <3>1. CASE Carried(c)
      BY <2>1, <3>1 DEF Carried
    <3>2. CASE SequenceComp(c)
      BY <2>4, <3>2, SequenceSource
    <3>3. CASE unsaved = {} /\ (Build(c) \/ Response(c) \/ Confirm(c))
      BY <2>1, <2>3, <3>1, <3>3, BuildSource, ResponseSource, ConfirmSource
    <3> QED BY <3>1, <3>2, <3>3, Sources
  <2> QED BY <2>2, <2>5, <2>6
<1> QED BY <1>1, <1>3, <1>4, <1>5

\* The command of a tier that turns on is prepared for what has been off.
LEMMA OnIsSecond ==
    ASSUME Account, NEW c \in Comp, Restarted(c), Build(c), task[c].st # "failed",
           powerAction = "on"
    PROVE  Spent(c)
<1>1. pc \in Loop /\ c \in InTier(tier)
  BY DEF Build, Account, Shape, Loop
<1>2. c \in seqMap["on"]
  BY <1>1 DEF InTier, powerAction
<1>3. count[c] = Owed(c)
  BY DEF Account, Counted
<1>4. count[c] # 2
  BY <1>1, <1>3, DownBehind DEF Owed
<1> QED BY <1>2, <1>4 DEF Restarted, OffComesFirst

LEMMA NextOffComesFirst ==
    ASSUME ~NoWait, Account, Placed, Restarting, [Next]_vars, NEW c \in Comp, Restarted(c)
    PROVE  OffComesFirst(c)'
<1>1. Spent(c) => Spent(c)'
  BY SpentStays
<1>2. OffComesFirst(c)
  BY DEF Restarted
<1>3. cmd'[c] = "on" => Spent(c)'
  <2>1. CASE cmd'[c] = powerAction /\ c \in wait /\ cmd'[c] = "on"
    <3>1. task[c].op = "On"
      BY <2>1 DEF Account, Sent, OpFor
    <3> QED BY <1>1, <1>2, <3>1 DEF OffComesFirst
  <2> QED BY <1>1, <1>2, <2>1, Commands DEF OffComesFirst
<1>4. \A t \in {task'[c], db'[c]} : t.op = "On" => Spent(c)'
  <2>1. \A t \in {task[c], db[c]} : t.op = "On" => Spent(c)'
    BY <1>1, <1>2 DEF OffComesFirst
  <2>2. CASE Carried(c)
    BY <2>1, <2>2 DEF Carried
  <2>3. CASE SequenceComp(c)
    <3>1. Sequenced(c).task.op = task[c].op
      BY SequencedTrace
    <3> QED BY <2>1, <2>3, <3>1, SequenceSource
  <2>4. CASE unsaved = {} /\ Build(c)
    <3>1. CASE /\ task'[c] = db'[c] /\ task[c].st # "failed" /\ powerAction \in Action
               /\ task'[c].op = OpFor(powerAction)
      <4>1. task'[c].op = "On" => powerAction = "on"
        BY <3>1 DEF OpFor, Action
      <4>2. powerAction = "on" => Spent(c)
        BY <2>4, <3>1, OnIsSecond
      <4> QED BY <1>1, <3>1, <4>1, <4>2
    <3> QED BY <2>2, <2>4, <3>1, BuildSource
  <2>5. CASE unsaved = {} /\ (Response(c) \/ Confirm(c))
    <3>1. CASE task'[c] = db'[c] /\ task'[c].op = task[c].op
      BY <2>1, <3>1
    <3> QED BY <2>2, <2>5, <3>1, ResponseSource, ConfirmSource
  <2> QED BY <2>2, <2>3, <2>4, <2>5, Sources
<1>5. ASSUME c \in seqMap'["on"], task'[c].st # "failed" \/ c \in wait'
      PROVE  Spent(c)' \/ count'[c] = 2
  <2>1. CASE SequenceComp(c)
    <3>1. c \notin seqMap["on"]
      BY <2>1 DEF Account, Planned, Unplanned, SequenceComp, Action
    <3>2. "on" \in Sequenced(c).into
      BY <1>5, <3>1, Plans DEF Action
    <3>3. Spent(c) \/ Sequenced(c).into = {"gracefulshutdown", "on"}
      BY <2>1, <3>2, SequenceSource, RestartSequenced
    <3>4. Sequenced(c).into = {"gracefulshutdown", "on"} =>
             Cardinality(Sequenced(c).into) = 2
      <4>1. Outcome(Sequenced(c))
        BY <2>1, SequenceSource, SequencedOutcome DEF Account
      <4> QED BY <4>1, Sizes DEF Action
    <3>5. count'[c] = Cardinality(Sequenced(c).into)
      BY <2>1 DEF SequenceComp, Account, TypeOK
    <3> QED BY <1>1, <3>3, <3>4, <3>5
  <2>2. CASE ~SequenceComp(c)
    <3>1. c \in seqMap["on"] /\ ~Crash /\ ~Start
      <4>1. c \in seqMap["on"]
        BY <1>5, <2>2, Plans DEF Action
      <4>2. ~Crash
        BY <1>5 DEF Crash, NoPlan, Action
      <4>3. ~Start
        BY <4>1 DEF Start, Account, Shape, NoPlan, Action
      <4> QED BY <4>1, <4>2, <4>3
    <3>2. task[c].st # "failed" \/ c \in wait
      <4>1. CASE c \in wait' /\ Build(c)
        BY <4>1 DEF Build
      <4>2. CASE c \in wait' /\ ~Build(c)
        BY <4>2, Waits
      <4>3. CASE task'[c].st # "failed"
        <5>1. CASE Carried(c)
          BY <3>1, <4>3, <5>1 DEF Carried
        <5> QED BY <2>2, <4>3, <5>1, Sources, BuildSource, ResponseSource, ConfirmSource
      <4> QED BY <1>5, <4>1, <4>2, <4>3
    <3>3. Spent(c) \/ count[c] = 2
      BY <1>2, <3>1, <3>2 DEF OffComesFirst
    <3>4. CASE Confirm(c) /\ mon[c] = EndState(powerAction)
      <4>1. pc = "confirm" /\ c \in wait /\ c \in InTier(tier) /\ tier \in 1..14
        BY <3>4 DEF Confirm, Account, Shape, Loop
      <4>2. powerAction \in Action /\ c \in seqMap[powerAction]
        BY <4>1, TierOrder DEF InTier, powerAction
      <4>3. powerAction # "gracefulrestart"
        BY <3>1, <4>2 DEF Account, Planned, Action
      <4>4. Spent(c)
        BY <3>4, <4>1, <4>2, <4>3, Confirmation
      <4> QED BY <1>1, <4>4
    <3> QED BY <1>1, <2>2, <3>1, <3>3, <3>4, Counts
  <2> QED BY <2>1, <2>2
<1> QED BY <1>3, <1>4, <1>5 DEF OffComesFirst

\* Once a controller has been told to restart its component, it has done so, or
\* will, or may have refused.
LEMMA RefusableStays ==
    ASSUME Account, Restarting, [Next]_vars, NEW c \in Comp, Restarted(c), Restartable(c),
           op = "SoftRestart", Refusable(c)
    PROVE  Refusable(c)'
<1>1. Spent(c) => Spent(c)'
  BY SpentStays
<1>2. faults \in Nat /\ faults' \in {faults, faults + 1}
  BY Histories, SeqAssumption DEF Account, TypeOK
<1>3. CASE Spent(c) \/ faults > 0
  BY <1>1, <1>2, <1>3 DEF Refusable
<1>4. CASE ~Spent(c) /\ cmd[c] = "gracefulrestart"
  <2>1. CASE cmd'[c] = cmd[c]
    BY <1>4, <2>1 DEF Refusable
  <2>2. CASE Execute(c)
    <3>1. hw[c] = "on"
      BY <1>4 DEF Restarted, Constant, Account, TypeOK
    <3>2. c \in wentOff'
      BY <1>4, <2>2, <3>1, Carrying
    <3> QED BY <3>2 DEF Refusable, Spent
  <2>3. CASE /\ cmd'[c] = powerAction /\ cmd'[c] \in Action
             /\ c \in seqMap[cmd'[c]] /\ c \in wait
    <3>1. cmd'[c] \notin {"gracefulshutdown", "forceoff"}
      BY <2>3 DEF Restarted, LeftAlone
    <3>2. cmd'[c] = "on" => task[c].op = "On"
      BY <2>3 DEF Account, Sent, OpFor
    <3>3. cmd'[c] # "on"
      BY <1>4, <3>2 DEF Restarted, OffComesFirst
    <3>4. cmd'[c] = "gracefulrestart"
      BY <2>3, <3>1, <3>3 DEF Action
    <3> QED BY <3>4 DEF Refusable
  <2> QED BY <2>1, <2>2, <2>3, Commands
<1> QED BY <1>3, <1>4 DEF Refusable

LEMMA NextLeftAlone ==
    ASSUME ~NoWait, Account, Placed, Restarting, [Next]_vars, NEW c \in Comp, Restarted(c)
    PROVE  LeftAlone(c)'
<1>1. op' = op /\ acts' = acts /\ (Restartable(c)' <=> Restartable(c))
  BY Fixed DEF Restartable
<1>2. LeftAlone(c)
  BY DEF Restarted
<1>3. /\ c \in seqMap'["gracefulrestart"] => Restartable(c)
      /\ op = "SoftRestart" /\ Restartable(c) =>
            c \notin seqMap'["gracefulshutdown"] \cup seqMap'["forceoff"]
  <2>1. SequenceComp(c) =>
           /\ "forceoff" \notin Sequenced(c).into
           /\ "gracefulrestart" \in Sequenced(c).into => Restartable(c)
           /\ op = "SoftRestart" /\ Restartable(c) => "gracefulshutdown" \notin Sequenced(c).into
    BY SequenceSource, RestartSequenced
  <2>2. Escalated(c) => c \in seqMap["gracefulshutdown"]
    BY DEF Escalated, Account, Shape, Loop, InTier, powerAction
  <2>3. c \in seqMap'["gracefulrestart"] => Restartable(c)
    BY <1>2, <2>1, Plans DEF LeftAlone, Action
  <2>4. op = "SoftRestart" /\ Restartable(c) => c \notin seqMap'["gracefulshutdown"]
    BY <1>2, <2>1, Plans DEF LeftAlone, Action
  <2>5. op = "SoftRestart" /\ Restartable(c) => c \notin seqMap'["forceoff"]
    BY <1>2, <2>1, <2>2, Plans DEF LeftAlone, Action
  <2> QED BY <2>3, <2>4, <2>5
<1> DEFINE Good(t) ==
        /\ op = "SoftRestart" /\ Restartable(c) => t.op \notin {"Off", "ForceOff"}
        /\ t.op = "SoftRestart" /\ t.state # "GatherData" => Restartable(c)
        /\ t.op = "SoftRestart" /\ t.state = "Waiting" => Refusable(c)'
<1>4. Good(task'[c]) /\ Good(db'[c])
  <2>1. ASSUME NEW t \in {task[c], db[c]} PROVE Good(t)
    <3>1. Traced(t)
      BY DEF Account
    <3>2. t.op = "SoftRestart" /\ t.state = "Waiting" => op = "SoftRestart"
      BY <3>1 DEF Traced
    <3> QED BY <1>2, <3>2, RefusableStays DEF LeftAlone
  <2>2. CASE Carried(c)
    BY <2>1, <2>2 DEF Carried
  <2>3. CASE SequenceComp(c)
    <3>1. Good(Sequenced(c).task)
      BY <2>1, SequencedTrace DEF PoweredOff
    <3> QED BY <2>3, <3>1, SequenceSource
  <2>4. CASE unsaved = {} /\ Build(c)
    <3>1. CASE /\ task'[c] = db'[c] /\ task'[c].state = "Sending"
               /\ task'[c].op = OpFor(powerAction)
               /\ powerAction \in Action /\ c \in seqMap[powerAction]
      <4>1. task'[c].op = "SoftRestart" => powerAction = "gracefulrestart"
        BY <3>1 DEF OpFor, Action
      <4>2. task'[c].op \in {"Off", "ForceOff"} =>
               powerAction \in {"gracefulshutdown", "forceoff"}
        BY <3>1 DEF OpFor, Action
      <4> QED BY <1>2, <3>1, <4>1, <4>2 DEF LeftAlone
    <3> QED BY <2>2, <2>4, <3>1, BuildSource
  <2>5. CASE unsaved = {} /\ Response(c)
    <3>1. CASE task'[c] = db'[c] /\ task'[c].op = task[c].op /\ c \in wait
      <4>1. task[c].state # "GatherData" /\ task[c].op = OpFor(powerAction)
        BY <3>1 DEF Account, Sent
      <4>2. c \in InTier(tier) /\ tier \in 1..14
        BY <3>1 DEF Account, TypeOK, Shape, Loop
      <4>3. powerAction \in Action
        BY <4>2, TierOrder DEF powerAction
      <4>4. task[c].op = "SoftRestart" => powerAction = "gracefulrestart"
        BY <4>1, <4>3 DEF OpFor, Action
      <4>5. cmd'[c] = powerAction \/ faults' = faults + 1
        <5>1. PICK x : x = powerAction
          OBVIOUS
        <5>2. cmd' = [cmd EXCEPT ![c] = x] \/ faults' = faults + 1
          BY <2>5, <5>1 DEF Response, Fault
        <5> QED BY <5>1, <5>2 DEF Account, TypeOK
      <4>6. faults' = faults + 1 => faults' > 0
        BY SeqAssumption DEF Account, TypeOK
      <4>7. task[c].op = "SoftRestart" => Refusable(c)'
        BY <4>4, <4>5, <4>6 DEF Refusable
      <4> QED BY <2>1, <3>1, <4>1, <4>7
    <3> QED BY <2>2, <2>5, <3>1, ResponseSource
  <2>6. CASE unsaved = {} /\ Confirm(c)
    <3>1. CASE /\ task'[c] = db'[c] /\ task'[c].state = "Confirmed"
               /\ task'[c].op = task[c].op /\ c \in wait
      <4>1. task[c].state # "GatherData"
        BY <3>1 DEF Account, Sent
      <4> QED BY <2>1, <3>1, <4>1
    <3> QED BY <2>2, <2>6, <3>1, ConfirmSource
  <2> QED BY <2>2, <2>3, <2>4, <2>5, <2>6, Sources
<1> QED BY <1>1, <1>3, <1>4 DEF LeftAlone

LEMMA NextAnswers ==
    ASSUME ~NoWait, Account, Placed, Restarting, [Next]_vars, NEW c \in Comp, Restarted(c)
    PROVE  Answers(c)'
<1>1. op' = op /\ acts' = acts /\ (Restartable(c)' <=> Restartable(c))
  BY Fixed DEF Restartable
<1>2. Answers(c)
  BY DEF Restarted
<1>3. ASSUME c \in wait', c \notin out' PROVE task'[c].state = "Waiting"
  <2>1. CASE Build(c)
    <3>1. \/ task' = task /\ wait' = wait /\ out' = out
          \/ task' = task /\ task[c].state = "Waiting"
          \/ Fail(c, powerAction) /\ wait' = wait /\ out' = out
          \/ c \in out'
      BY <2>1 DEF Build
    <3>2. c \notin wait
      BY <2>1 DEF Build, Account, Shape
    <3> QED BY <1>3, <3>1, <3>2
  <2>2. CASE ~Build(c)
    <3>1. c \in wait /\ pc \in Loop
      BY <1>3, <2>2, Waits
    <3>2. ~Crash /\ ~Start /\ ~SequenceComp(c)
      BY <1>3, <3>1 DEF Crash, Start, SequenceComp, Loop
    <3>3. CASE Response(c)
      <4>1. \/ Update(c, Accepted(c))
            \/ wait' = wait \ {c}
        BY <3>3 DEF Response
      <4>2. Update(c, Accepted(c))
        BY <1>3, <4>1
      <4>3. task'[c] = Accepted(c)
        BY <4>2 DEF Update, Account, TypeOK
      <4>4. task[c] \in Task
        BY DEF Account, TypeOK
      <4> QED BY <4>3, <4>4 DEF Accepted, Task
    <3>4. CASE ~Response(c)
      <4>1. c \notin out
        BY <1>3, <3>2, <3>4, Outs
      <4>2. task[c].state = "Waiting"
        BY <1>2, <3>1, <4>1 DEF Answers
      <4>3. CASE Carried(c)
        BY <3>2, <4>2, <4>3 DEF Carried
      <4>4. CASE Confirm(c)
        <5>1. \/ task' = task
              \/ wait' = wait \ {c}
          BY <4>4 DEF Confirm
        <5> QED BY <1>3, <4>2, <5>1
      <4> QED BY <2>2, <3>2, <3>4, <4>3, <4>4, Sources
    <3> QED BY <3>3, <3>4
  <2> QED BY <2>1, <2>2
<1>4. Spent(c) \/ Unverified(c) => Spent(c)' \/ Unverified(c)'
  <2>1. Spent(c) => Spent(c)'
    BY SpentStays
  <2>2. Unverified(c) => Spent(c)' \/ Unverified(c)'
    <3> SUFFICES ASSUME Unverified(c) PROVE Spent(c)' \/ Unverified(c)'
      OBVIOUS
    <3>1. op = "SoftRestart" /\ Restartable(c) /\ Refusable(c)
      BY DEF Unverified, Refusable
    <3>2. Refusable(c)'
      BY <3>1, RefusableStays
    <3> QED BY <1>1, <3>1, <3>2 DEF Refusable, Unverified
  <2> QED BY <2>1, <2>2
<1>5. \A t \in {task'[c], db'[c]} : t.st = "succeeded" => Spent(c) \/ Unverified(c)
  <2>1. \A t \in {task[c], db[c]} : t.st = "succeeded" => Spent(c) \/ Unverified(c)
    BY <1>2 DEF Answers
  <2>2. CASE Carried(c)
    BY <2>1, <2>2 DEF Carried
  <2>3. CASE SequenceComp(c)
    BY <2>3, SequenceSource, RestartSequenced
  <2>4. CASE unsaved = {} /\ Build(c)
    BY <2>1, <2>2, <2>4, BuildSource
  <2>5. CASE unsaved = {} /\ Response(c)
    <3>1. CASE task'[c] = db'[c] /\ task'[c].st = "open"
      BY <3>1
    <3> QED BY <2>2, <2>5, <3>1, ResponseSource
  <2>6. CASE unsaved = {} /\ Confirm(c)
    <3>1. CASE /\ c \in wait /\ mon[c] = EndState(powerAction)
               /\ powerAction \in Action /\ c \in seqMap[powerAction]
      <4>1. pc = "confirm"
        BY <2>6 DEF Confirm
      <4> QED BY <3>1, <4>1, Confirmation
    <3> QED BY <2>2, <2>6, <3>1, ConfirmSource
  <2> QED BY <2>2, <2>3, <2>4, <2>5, <2>6, Sources
<1> QED BY <1>3, <1>4, <1>5 DEF Answers

\* What is reported to have been restarted has been off since the transition
\* began, although transitions.go concludes it from the command last sent (a
\* stored task that was told to turn on must have been off before).  It may
\* still be due where a controller restarts its component by itself.
THEOREM RestartsAreReal == ~NoWait /\ Tiered => (Spec => []RestartReal)
<1> SUFFICES ASSUME ~NoWait, Tiered PROVE Spec => []RestartReal
  OBVIOUS
<1> DEFINE I == Account /\ Placed /\ Restarts
<1>1. Init => I
  BY InitAccount, InitPlaced, InitRestarts
<1>2. I /\ [Next]_vars => I'
  <2> SUFFICES ASSUME I, [Next]_vars PROVE I'
    OBVIOUS
  <2>1. Account' /\ Placed'
    BY NextAccount, NextPlaced
  <2>2. Restarting' <=> Restarting
    BY Fixed DEF Restarting
  <2>3. Restarting => \A c \in Comp : Restarted(c)'
    BY NextConstant, NextOffComesFirst, NextLeftAlone, NextAnswers DEF Restarts, Restarted
  <2> QED BY <2>1, <2>2, <2>3 DEF Restarts
<1>3. I => RestartReal
  BY DEF Restarts, Restarting, Restarted, Answers, Spent, RestartReal
<1> QED BY <1>1, <1>2, <1>3, PTL DEF Spec

-----------------------------------------------------------------------------
(* What feeds what *)

\* What feeds c in the hardware: its module and its supplies, if they are in
\* the request.
Mains(c) == {p \in Comp : \/ p \in Ancestors[c] /\ Type[p] \in Module
                          \/ \E i \in DOMAIN Supplies[c] : Supplies[c][i] = p}

\* One thing feeds another, and nothing feeds that: nodes and their enclosures
\* are fed by outlets, nodes and their controllers by modules.
Wired ==
    \A c \in Comp : \A p \in Mains(c) :
        /\ Mains(p) = {}
        /\ \/ /\ Type[p] = "CabinetPDUPowerConnector"
              /\ Type[c] # "CabinetPDUPowerConnector"
           \/ /\ Type[p] \in Module
              /\ Type[c] \notin Module \cup {"CabinetPDUPowerConnector", "Chassis"}

Offs == {"gracefulshutdown", "forceoff"}

\* What is on has power.
Supplied == \A c \in Comp : hw[c] = "on" => Powered(c, hw)

LEMMA HasSupply ==
    ASSUME NEW c \in Comp, Supplies[c] # <<>> PROVE DOMAIN Supplies[c] # {}
<1>1. PICK T : Supplies[c] \in Seq(T)
  BY SeqAssumption
<1>2. PICK s \in Seq(T) : s = Supplies[c]
  BY <1>1
<1>3. DOMAIN s = {} => s = <<>>
  OBVIOUS
<1> QED BY <1>2, <1>3

\* Nothing of the request feeds c.
LEMMA AlwaysPowered ==
    ASSUME NEW c \in Comp, Mains(c) = {}, NEW h PROVE Powered(c, h)
<1>1. \A p \in Ancestors[c] : p \in Comp /\ Type[p] \notin Module
  BY SeqAssumption DEF Mains
<1>2. \A i \in DOMAIN Supplies[c] : Supplies[c][i] \notin Comp
  BY DEF Mains
<1>3. Supplies[c] # <<>> => DOMAIN Supplies[c] # {}
  BY HasSupply
<1> QED BY <1>1, <1>2, <1>3 DEF Powered

\* Only what feeds c matters to it.
LEMMA SamePower ==
    ASSUME NEW c \in Comp, NEW h, NEW g, Powered(c, h),
           \A p \in Mains(c) : h[p] = "on" => g[p] = "on"
    PROVE  Powered(c, g)
<1>1. Ancestors[c] \subseteq Comp
  BY SeqAssumption
<1>2. \A p \in Ancestors[c] : Type[p] \in Module => g[p] = "on"
  BY <1>1 DEF Powered, Mains
<1>3. ASSUME NEW i \in DOMAIN Supplies[c],
             Supplies[c][i] \in Comp => h[Supplies[c][i]] = "on"
      PROVE  Supplies[c][i] \in Comp => g[Supplies[c][i]] = "on"
  BY <1>3 DEF Mains
<1> QED BY <1>2, <1>3 DEF Powered

\* What loses its power when a component is turned off is fed by it.
LEMMA CutOff ==
    ASSUME Account, Supplied, NEW c \in Comp, TurnOff(c), NEW d \in Comp, d # c,
           hw[d] = "on", hw'[d] # "on"
    PROVE  c \in Mains(d) /\ ~Powered(d, [hw EXCEPT ![c] = "off"])
<1> DEFINE without == [hw EXCEPT ![c] = "off"]
<1>1. hw \in [Comp -> {"on", "off"}]
  BY DEF Account, TypeOK
<1>2. without[d] = "on" /\ \A e \in Comp \ {c} : without[e] = hw[e]
  BY <1>1
<1>3. ~Powered(d, without)
  BY <1>1, <1>2 DEF TurnOff
<1>4. Powered(d, hw)
  BY DEF Supplied
<1> HIDE DEF without
<1>5. c \in Mains(d)
  <2> SUFFICES ASSUME c \notin Mains(d) PROVE FALSE
    OBVIOUS
  <2>1. \A p \in Mains(d) : p \in Comp \ {c}
    BY DEF Mains
  <2> QED BY <1>2, <1>3, <1>4, <2>1, SamePower
<1> QED BY <1>3, <1>5 DEF without

\* Only its own commands turn off what nothing feeds, and only its own turn
\* anything on.
LEMMA OwnCommands ==
    ASSUME Account, Supplied, [Next]_vars, NEW d \in Comp
    PROVE  /\ hw'[d] = "on" => hw[d] = "on" \/ (Execute(d) /\ cmd[d] = "on")
           /\ Mains(d) = {} /\ hw[d] = "on" =>
                 hw'[d] = "on" \/ (Execute(d) /\ cmd[d] \in Offs)
<1>1. CASE hw' = hw
  BY <1>1
<1>2. ASSUME NEW c \in Comp, Execute(c)
      PROVE  /\ hw'[d] = "on" => hw[d] = "on" \/ (d = c /\ cmd[c] = "on")
             /\ Mains(d) = {} /\ hw[d] = "on" =>
                   hw'[d] = "on" \/ (d = c /\ cmd[c] \in Offs)
  <2>1. cmd[c] \in Action /\ hw \in [Comp -> {"on", "off"}]
    BY <1>2 DEF Execute, Account, TypeOK
  <2>2. CASE cmd[c] \in Offs
    <3>1. TurnOff(c)
      BY <1>2, <2>2 DEF Execute, Offs
    <3>2. hw'[d] \in {hw[d], "off"}
      BY <1>2, <2>2, OneWay DEF Offs
    <3> QED BY <2>2, <3>1, <3>2, CutOff
  <2>3. CASE cmd[c] = "on"
    <3>1. hw' = IF Powered(c, hw) THEN [hw EXCEPT ![c] = "on"] ELSE hw
      BY <1>2, <2>3 DEF Execute
    <3> QED BY <2>1, <2>3, <3>1
  <2>4. CASE cmd[c] = "gracefulrestart"
    BY <1>2, <2>4 DEF Execute
  <2> QED BY <2>1, <2>2, <2>3, <2>4 DEF Action, Offs
<1> QED BY <1>1, <1>2, Sights

LEMMA NextSupplied ==
    ASSUME Wired, Account, Supplied, [Next]_vars PROVE Supplied'
<1> SUFFICES ASSUME NEW d \in Comp, hw'[d] = "on" PROVE Powered(d, hw')
  BY DEF Supplied
<1>0. hw \in [Comp -> {"on", "off"}]
  BY DEF Account, TypeOK
<1>1. CASE hw' = hw
  BY <1>1 DEF Supplied
<1>2. ASSUME NEW c \in Comp, Execute(c) PROVE Powered(d, hw')
  <2>1. CASE Mains(d) = {}
    BY <2>1, AlwaysPowered
  <2>2. ASSUME hw[d] = "on", \A p \in Mains(d) : hw[p] = "on" => hw'[p] = "on"
        PROVE  Powered(d, hw')
    <3>1. Powered(d, hw)
      BY <2>2 DEF Supplied
    <3> QED BY <2>2, <3>1, SamePower
  <2>3. \A p \in Mains(d) : p \in Comp /\ Mains(p) = {}
    BY DEF Wired, Mains
  <2>4. CASE cmd[c] \in Offs
    <3>1. TurnOff(c) /\ hw'[d] \in {hw[d], "off"}
      BY <1>2, <2>4, OneWay DEF Execute, Offs
    <3>2. hw[d] = "on"
      BY <3>1
    <3>3. CASE c \notin Mains(d)
      <4>1. \A p \in Mains(d) : hw[p] = "on" => hw'[p] = "on"
        BY <1>2, <2>3, <3>1, <3>3, CutOff
      <4> QED BY <2>2, <3>2, <4>1
    <3>4. CASE c \in Mains(d)
      <4> DEFINE without == [hw EXCEPT ![c] = "off"]
      <4>1. CASE hw' = hw
        BY <1>1, <4>1
      <4>2. CASE hw' # hw
        <5>1. d # c
          BY <2>3, <3>4, AlwaysPowered DEF Wired
        <5>2. /\ without[d] = "on"
              /\ without[d] = "on" /\ ~Powered(d, without) => hw'[d] = "off"
          <6>1. hw' = [e \in Comp |-> IF e \in {f \in Comp : without[f] = "on" /\ ~Powered(f, without)}
                                      THEN "off" ELSE without[e]]
            BY <3>1, <4>2 DEF TurnOff
          <6> QED BY <1>0, <3>2, <5>1, <6>1
        <5>3. Powered(d, without)
          BY <5>2
        <5>4. ASSUME NEW p \in Mains(d), without[p] = "on" PROVE hw'[p] = "on"
          <6>1. p \in Comp /\ p # c /\ hw[p] = "on"
            BY <1>0, <2>3, <5>4
          <6> QED BY <2>3, <3>1, <6>1, CutOff, AlwaysPowered
        <5> HIDE DEF without
        <5> QED BY <5>3, <5>4, SamePower
      <4> QED BY <4>1, <4>2
    <3> QED BY <3>3, <3>4
  <2>5. CASE cmd[c] = "on"
    <3>1. hw' = IF Powered(c, hw) THEN [hw EXCEPT ![c] = "on"] ELSE hw
      BY <1>2, <2>5 DEF Execute
    <3>2. \A p \in Mains(d) : hw[p] = "on" => hw'[p] = "on"
      BY <1>0, <2>3, <3>1
    <3>3. CASE hw[d] = "on"
      BY <2>2, <3>2, <3>3
    <3>4. CASE hw[d] # "on"
      <4>1. Powered(d, hw)
        BY <1>0, <3>1, <3>4
      <4> QED BY <3>2, <4>1, SamePower
    <3> QED BY <3>3, <3>4
  <2>6. CASE cmd[c] = "gracefulrestart"
    BY <1>1, <1>2, <2>6 DEF Execute
  <2>7. cmd[c] \in Action
    BY <1>2 DEF Execute, Account, TypeOK
  <2> QED BY <2>4, <2>5, <2>6, <2>7 DEF Action, Offs
<1> QED BY <1>1, <1>2, Sights

-----------------------------------------------------------------------------
(* Nothing becomes due again *)

\* The worker goes through the tiers in order, and through each of them.
LEMMA BusyShrinks ==
    ASSUME Account, Account', [Next]_vars, ~Crash
    PROVE  tier' > tier \/ (tier' = tier /\ Busy' \subseteq Busy)
<1>0. tier \in Nat /\ tier' \in Nat /\ todo \subseteq Comp /\ wait \subseteq Comp
        /\ todo' \subseteq Comp /\ wait' \subseteq Comp
  BY Table DEF Account, TypeOK
<1>1. pc' \in {"keys", "build"} => Busy' = todo' \cup wait'
  BY DEF Busy
<1>2. pc' \in {"send", "confirm", "late"} => Busy' = wait'
  BY DEF Busy
<1>3. Busy' \subseteq Comp
  BY <1>0, <1>1, <1>2 DEF Busy
<1>4. CASE pc \notin Loop
  <2>1. Busy = Comp
    BY <1>4 DEF Busy, Loop
  <2>2. tier' >= tier
    <3>1. CASE UNCHANGED tier
      BY <1>0, <3>1
    <3>2. CASE unsaved = {} /\ Reserved
      BY <3>2 DEF Reserved, Account, Shape
    <3>3. CASE unsaved = {} /\ EnterTier
      <4> DEFINE T == {k \in DOMAIN PowerSequenceFull : k >= tier /\ InTier(k) # {}}
      <4>1. CASE T = {}
        BY <1>0, <3>3, <4>1 DEF EnterTier
      <4>2. CASE T # {}
        <5>1. \E k \in T : \A j \in T : k <= j
          <6>1. T \in SUBSET (1..14)
            BY Table
          <6> HIDE DEF T
          <6> QED BY <4>2, <6>1, FirstTier
        <5>2. tier' = CHOOSE k \in T : \A j \in T : k <= j
          BY <3>3, <4>2 DEF EnterTier
        <5>3. tier' \in T
          BY <5>1, <5>2
        <5> QED BY <5>3
      <4> QED BY <4>1, <4>2
    <3>4. ASSUME NEW c \in Comp, Work(c) PROVE UNCHANGED tier
      BY <1>4, <3>4 DEF Work, SequenceComp, Walk, ReserveFailed, KeyExpired, Build, Response,
                        Confirm, Late, Loop
    <3>5. CASE Save \/ Start \/ ReserveError \/ UNCHANGED vars
      BY <1>0, <3>5 DEF Save, Start, ReserveError, vars, worker
    <3>6. ASSUME NEW c \in Comp, Execute(c) \/ Monitor(c) \/ Lose(c) PROVE UNCHANGED tier
      BY <3>6 DEF Execute, Monitor, Lose, worker
    <3>7. ~(KeysChecked \/ Launch \/ Answered \/ RoundDone \/ Deadline \/ LateDone)
      BY <1>4 DEF KeysChecked, Launch, Answered, RoundDone, Deadline, LateDone, Loop
    <3> QED BY <3>1, <3>2, <3>3, <3>4, <3>5, <3>6, <3>7 DEF Next, WorkerStep
  <2> QED BY <1>0, <1>3, <2>1, <2>2
<1>5. CASE pc \in Loop
  <2>1. /\ pc \in {"keys", "build"} => Busy = todo \cup wait
        /\ pc \in {"send", "confirm", "late"} => Busy = wait
    BY DEF Busy
  <2>2. CASE UNCHANGED <<pc, tier, todo, wait>>
    BY <2>2 DEF Busy
  <2>3. CASE KeysChecked \/ Launch \/ Deadline
    BY <1>1, <1>2, <2>1, <2>3 DEF KeysChecked, Launch, Deadline
  <2>4. CASE Answered \/ RoundDone \/ LateDone
    BY <1>0, <1>2, <2>1, <2>4 DEF Answered, RoundDone, LateDone, NextTier
  <2>5. ASSUME NEW c \in Comp, Build(c)
        PROVE  tier' = tier /\ Busy' \subseteq Busy
    BY <1>1, <2>1, <2>5 DEF Build
  <2>6. ASSUME NEW c \in Comp, Response(c) \/ Confirm(c) \/ Late(c)
        PROVE  tier' = tier /\ Busy' \subseteq Busy
    BY <1>2, <2>1, <2>6 DEF Response, Confirm, Late
  <2>7. ASSUME NEW c \in Comp, SequenceComp(c) \/ Walk(c) \/ ReserveFailed(c) PROVE FALSE
    BY <1>5, <2>7 DEF SequenceComp, Walk, ReserveFailed, Loop
  <2>8. ASSUME NEW c \in Comp, KeyExpired(c) PROVE UNCHANGED <<pc, tier, todo, wait>>
    BY <2>8 DEF KeyExpired
  <2>9. ~(Start \/ ReserveError \/ Reserved \/ EnterTier)
    BY <1>5 DEF Start, ReserveError, Reserved, EnterTier, Loop
  <2>10. CASE Save \/ UNCHANGED vars
    BY <2>2, <2>10 DEF Save, vars, worker
  <2>11. ASSUME NEW c \in Comp, Execute(c) \/ Monitor(c) \/ Lose(c)
         PROVE  UNCHANGED <<pc, tier, todo, wait>>
    BY <2>11 DEF Execute, Monitor, Lose, worker
  <2> QED BY <2>2, <2>3, <2>4, <2>5, <2>6, <2>7, <2>8, <2>9, <2>10, <2>11
          DEF Next, WorkerStep, Work
<1> QED BY <1>4, <1>5

LEMMA DueStays ==
    ASSUME Account, Account', [Next]_vars, NEW d \in Comp, NEW a \in Action, Due(d, a)'
    PROVE  \/ Due(d, a)
           \/ SequenceComp(d) /\ a \in Sequenced(d).into
           \/ Escalated(d) /\ a = "forceoff"
<1>1. d \in seqMap'[a] /\ ~Done(d, a)'
  BY DEF Due
<1>2. CASE d \in seqMap[a]
  <2>1. ~Crash
    BY <1>1 DEF Crash, NoPlan
  <2>2. tier \in Nat /\ tier' \in Nat
    BY Table DEF Account, TypeOK
  <2>3. ASSUME NEW k \in 1..14, Behind(d, k) PROVE Behind(d, k)'
    BY <2>1, <2>2, <2>3, BusyShrinks DEF Behind
  <2>4. ~Done(d, a)
    BY <1>1, <2>3 DEF Done, Serves
  <2> QED BY <1>2, <2>4 DEF Due
<1> QED BY <1>1, <1>2, Plans

\* Who is dealt with in a tier is not done yet.
LEMMA NotDone ==
    ASSUME Account, pc \in Loop, NEW c \in Comp, c \in InTier(tier), c \in Busy
    PROVE  task[c].st \notin {"succeeded", "unsupported"}
<1> SUFFICES ASSUME task[c].st \in {"succeeded", "unsupported"} PROVE FALSE
  OBVIOUS
<1>1. count[c] = 0 /\ count[c] = Owed(c)
  BY DEF Account, Counted
<1>2. count[c] >= 1
  BY <1>1, CurrentDue
<1> QED BY <1>1, <1>2

-----------------------------------------------------------------------------
(* Who fails with whom *)

\* c fails while action a is applied.
FailStep(c, a) ==
    /\ Fail(c, a) /\ unsaved = {}
    /\ \/ ReserveFailed(c) /\ a = ReservedFor(c)
       \/ /\ KeyExpired(c) \/ Build(c) \/ Response(c) \/ Confirm(c) \/ Late(c)
          /\ a = powerAction

\* What fails with a node feeds it.
LEMMA DependentsFeed ==
    ASSUME NEW c \in Comp, NEW a, NEW d \in Dependents(c, a)
    PROVE  d \in Mains(c) /\ a = "gracefulshutdown" /\ Type[c] = "Node"
<1>1. a = "gracefulshutdown" /\ Type[c] = "Node"
  BY DEF Dependents
<1>2. CASE d \in Ancestors[c] /\ Type[d] = "ComputeModule"
  BY <1>1, <1>2, SeqAssumption DEF Mains, Module
<1>3. CASE d \in LastSupply(c)
  <2> DEFINE On == {i \in DOMAIN Supplies[c] :
                       Supplies[c][i] \in Comp => snap[Supplies[c][i]] = "on"}
  <2>1. PICK i \in On : d = Supplies[c][i] /\ Supplies[c][i] \in Comp
    BY <1>3 DEF LastSupply
  <2> QED BY <1>1, <2>1 DEF Mains
<1> QED BY <1>1, <1>2, <1>3 DEF Dependents

\* How a component comes to fail.
LEMMA Fails ==
    ASSUME Account, [Next]_vars, NEW d \in Comp,
           task'[d].st = "failed", task[d].st # "failed"
    PROVE  \/ Start \/ Crash \/ SequenceComp(d) \/ ReserveError
           \/ \E c \in Comp : \E a : FailStep(c, a) /\ d \in {c} \cup Dependents(c, a)
<1> DEFINE Goal == \E c \in Comp : \E a : FailStep(c, a) /\ d \in {c} \cup Dependents(c, a)
<1>1. task'[d] # task[d]
  OBVIOUS
<1>2. ASSUME NEW c, NEW a, Fail(c, a), d \notin {c} \cup Dependents(c, a) PROVE FALSE
  <2>1. task'[d] = task[d]
    BY <1>2 DEF Fail, Failing
  <2> QED BY <1>1, <2>1
<1>3. ASSUME NEW c \in Comp, NEW a, FailStep(c, a) PROVE Goal
  <2>1. d \in {c} \cup Dependents(c, a)
    BY <1>2, <1>3 DEF FailStep
  <2> QED BY <1>3, <2>1
<1>4. ASSUME NEW c \in Comp, NEW t, Update(c, t) PROVE d = c /\ task'[d] = t
  BY <1>1, <1>4 DEF Update, Account, TypeOK
<1> HIDE DEF Goal
<1>5. ASSUME NEW c \in Comp, Work(c), unsaved = {} PROVE Goal \/ SequenceComp(d)
  <2>1. CASE SequenceComp(c)
    <3>1. Update(c, Sequenced(c).task)
      BY <2>1 DEF SequenceComp
    <3> QED BY <1>4, <2>1, <3>1
  <2>2. CASE Walk(c)
    BY <1>1, <2>2 DEF Walk
  <2>3. CASE ReserveFailed(c)
    <3>1. FailStep(c, ReservedFor(c))
      BY <1>5, <2>3 DEF FailStep, ReserveFailed
    <3> QED BY <1>3, <3>1
  <2>4. CASE /\ Fail(c, powerAction)
             /\ KeyExpired(c) \/ Build(c) \/ Response(c) \/ Confirm(c) \/ Late(c)
    <3>1. FailStep(c, powerAction)
      BY <1>5, <2>4 DEF FailStep
    <3> QED BY <1>3, <3>1
  <2>5. CASE KeyExpired(c)
    BY <2>4, <2>5 DEF KeyExpired
  <2>6. CASE Build(c)
    <3>1. CASE /\ Update(c, [task[c] EXCEPT !.state = "Sending", !.op = OpFor(powerAction)])
               /\ task[c].st # "failed"
      <4>1. d = c /\ task'[d] = [task[d] EXCEPT !.state = "Sending", !.op = OpFor(powerAction)]
        BY <1>4, <3>1
      <4>2. task[d] \in Task
        BY DEF Account, TypeOK
      <4>3. task'[d].st = task[d].st
        BY <4>1, <4>2 DEF Task
      <4> QED BY <4>3
    <3>2. CASE task' = task
      BY <1>1, <3>2
    <3>3. \/ task' = task
          \/ Fail(c, powerAction)
          \/ /\ Update(c, [task[c] EXCEPT !.state = "Sending", !.op = OpFor(powerAction)])
             /\ task[c].st # "failed"
      BY <2>6 DEF Build
    <3> QED BY <2>4, <2>6, <3>1, <3>2, <3>3
  <2>7. CASE Response(c)
    <3>1. CASE Update(c, Accepted(c))
      <4>1. d = c /\ task'[d] = Accepted(d)
        BY <1>4, <3>1
      <4>2. task[d] \in Task
        BY DEF Account, TypeOK
      <4>3. Accepted(d).st \in {"succeeded", "open"}
        BY <4>2 DEF Accepted, Task
      <4> QED BY <4>1, <4>3
    <3>2. Update(c, Accepted(c)) \/ Fail(c, powerAction)
      BY <2>7 DEF Response
    <3> QED BY <2>4, <2>7, <3>1, <3>2
  <2>8. CASE Confirm(c)
    <3>1. CASE Update(c, Confirmed(c))
      <4>1. d = c /\ task'[d] = Confirmed(d)
        BY <1>4, <3>1
      <4>2. task[d] \in Task
        BY DEF Account, TypeOK
      <4>3. Confirmed(d).st \in {"succeeded", task[d].st}
        BY <4>2 DEF Confirmed, Task
      <4> QED BY <4>1, <4>3
    <3>2. CASE task' = task
      BY <1>1, <3>2
    <3>3. task' = task \/ Update(c, Confirmed(c)) \/ Fail(c, powerAction)
      BY <2>8 DEF Confirm
    <3> QED BY <2>4, <2>8, <3>1, <3>2, <3>3
  <2>9. CASE Late(c)
    <3>1. CASE task' = task
      BY <1>1, <3>1
    <3>2. task' = task \/ Fail(c, powerAction)
      BY <2>9 DEF Late
    <3> QED BY <2>4, <2>9, <3>1, <3>2
  <2> QED BY <1>5, <2>1, <2>2, <2>3, <2>5, <2>6, <2>7, <2>8, <2>9 DEF Work
<1>6. CASE \/ Save \/ Reserved \/ EnterTier \/ KeysChecked \/ Launch \/ Answered \/ RoundDone
           \/ Deadline \/ LateDone \/ UNCHANGED vars
  <2>1. task' = task
    BY <1>6 DEF Save, Reserved, EnterTier, KeysChecked, Launch, Answered, RoundDone, Deadline,
                LateDone, vars, worker
  <2> QED BY <1>1, <2>1
<1>7. ASSUME NEW c \in Comp, Execute(c) \/ Monitor(c) \/ Lose(c) PROVE FALSE
  <2>1. task' = task
    BY <1>7 DEF Execute, Monitor, Lose, worker
  <2> QED BY <1>1, <2>1
<1> QED BY <1>5, <1>6, <1>7 DEF Next, WorkerStep, Goal

\* Who fails is not waited for any more, and neither is what fails with it.
LEMMA FailStepWaits ==
    ASSUME Wired, Account, NEW c \in Comp, NEW a, FailStep(c, a),
           NEW d \in {c} \cup Dependents(c, a)
    PROVE  d \notin wait'
<1>1. unsaved' = {c} /\ unsaved = {}
  BY DEF FailStep, Fail
<1>2. wait' \subseteq wait
  <2>1. CASE ReserveFailed(c) \/ KeyExpired(c)
    BY <2>1 DEF ReserveFailed, KeyExpired
  <2>2. CASE Build(c)
    BY <1>1, <2>2 DEF Build
  <2>3. CASE Response(c) \/ Confirm(c) \/ Late(c)
    BY <2>3 DEF Response, Confirm, Late
  <2> QED BY <2>1, <2>2, <2>3 DEF FailStep
<1>3. CASE ReserveFailed(c) \/ KeyExpired(c)
  BY <1>2, <1>3 DEF ReserveFailed, KeyExpired, Account, Shape
<1>4. CASE Build(c) \/ Response(c) \/ Confirm(c) \/ Late(c)
  <2>1. pc \in Loop /\ c \in InTier(tier) /\ tier \in 1..14 /\ wait \subseteq InTier(tier)
    BY <1>4 DEF Build, Response, Confirm, Late, Account, TypeOK, Shape, Loop
  <2>2. CASE d = c
    <3>1. CASE Build(c)
      BY <1>1, <2>2, <3>1 DEF Build, Account, Shape
    <3>2. CASE Response(c) \/ Confirm(c) \/ Late(c)
      BY <1>1, <2>2, <3>2 DEF Response, Confirm, Late
    <3> QED BY <1>4, <3>1, <3>2
  <2>3. CASE d \in Dependents(c, a) /\ d # c
    <3>1. d \in Mains(c) /\ a = "gracefulshutdown" /\ Type[c] = "Node"
      BY <2>3, DependentsFeed
    <3>2. a = powerAction
      BY <1>4, <2>1 DEF FailStep, ReserveFailed, Loop
    <3>3. Type[d] # "Node"
      BY <3>1 DEF Wired, Module
    <3>4. Type[c] \in PowerSequenceFull[tier].types
            /\ PowerSequenceFull[tier].action = "gracefulshutdown"
      BY <2>1, <3>1, <3>2 DEF InTier, powerAction
    <3>5. \/ tier = 1 \/ tier = 2 \/ tier = 3 \/ tier = 4 \/ tier = 5 \/ tier = 6 \/ tier = 7
          \/ tier = 8 \/ tier = 9 \/ tier = 10 \/ tier = 11 \/ tier = 12 \/ tier = 13
          \/ tier = 14
      BY <2>1
    <3>6. tier = 1
      BY <3>1, <3>4, <3>5, Table DEF Module
    <3>7. d \notin InTier(tier)
      BY <3>3, <3>6, Table DEF InTier
    <3> QED BY <1>2, <2>1, <3>7
  <2> QED BY <2>2, <2>3
<1> QED BY <1>3, <1>4 DEF FailStep

-----------------------------------------------------------------------------
(* The records in etcd *)

\* The record of c in etcd tells the last command; it has a result only if the
\* task has one, and then nobody waits for c.
Kept(c) ==
    /\ db[c].op = task[c].op /\ db[c].state = task[c].state
    /\ db[c].st # "open" => task[c].st # "open"
    /\ task[c].st # "open" => c \notin wait

Recorded == \A c \in Comp : Kept(c)

LEMMA InitRecorded ==
    ASSUME Init PROVE Recorded
  BY DEF Init, Recorded, Kept

\* Nobody has a result who is waited for.
LEMMA WaitsOpen ==
    ASSUME ~NoWait, Wired, Account, Recorded, [Next]_vars, NEW c \in Comp, c \in wait'
    PROVE  task'[c].st = "open"
<1>1. ASSUME Build(c) PROVE task'[c].st = "open"
  <2>1. c \notin wait /\ c \in Busy /\ c \in InTier(tier) /\ pc \in Loop
    BY <1>1 DEF Build, Account, Shape, Loop, Busy
  <2>2. task[c].st # "failed" => task[c].st = "open"
    <3>1. task[c].st \in Status
      BY DEF Account, TypeOK, Task
    <3> QED BY <2>1, <3>1, NotDone DEF Status
  <2>3. \/ task[c].st # "failed" /\ task' = task
        \/ /\ task[c].st # "failed"
           /\ Update(c, [task[c] EXCEPT !.state = "Sending", !.op = OpFor(powerAction)])
    BY <1>1, <2>1 DEF Build
  <2>4. CASE /\ task[c].st # "failed"
             /\ Update(c, [task[c] EXCEPT !.state = "Sending", !.op = OpFor(powerAction)])
    <3>1. task'[c] = [task[c] EXCEPT !.state = "Sending", !.op = OpFor(powerAction)]
      BY <2>4 DEF Update, Account, TypeOK
    <3>2. task[c] \in Task
      BY DEF Account, TypeOK
    <3>3. task'[c].st = task[c].st
      BY <3>1, <3>2 DEF Task
    <3> QED BY <2>2, <2>4, <3>3
  <2> QED BY <2>2, <2>3, <2>4
<1>2. ASSUME c \in wait, pc \in Loop PROVE task'[c].st = "open"
  <2>1. task[c].st = "open"
    BY <1>2 DEF Recorded, Kept
  <2>2. CASE SequenceComp(c) \/ Start \/ ReserveError
    BY <1>2, <2>2 DEF SequenceComp, Start, ReserveError, Loop
  <2>3. CASE Crash
    BY <2>3 DEF Crash
  <2>4. CASE Response(c)
    <3>1. Update(c, Accepted(c))
      BY <2>4 DEF Response
    <3>2. task'[c] = [task[c] EXCEPT !.state = "Waiting", !.st = "open"]
      BY <3>1 DEF Accepted, Update, Account, TypeOK
    <3>3. task[c] \in Task
      BY DEF Account, TypeOK
    <3> QED BY <3>2, <3>3 DEF Task
  <2>5. CASE Confirm(c)
    <3>1. task' = task
      BY <2>5 DEF Confirm
    <3> QED BY <2>1, <3>1
  <2>6. CASE task'[c].st = "failed"
    <3>1. PICK e \in Comp : \E a : FailStep(e, a) /\ c \in {e} \cup Dependents(e, a)
      BY <2>1, <2>2, <2>3, <2>6, Fails
    <3> QED BY <3>1, FailStepWaits
  <2>7. CASE Carried(c)
    BY <2>1, <2>2, <2>3, <2>6, <2>7 DEF Carried
  <2> QED BY <1>1, <2>2, <2>4, <2>5, <2>7, Sources
<1> QED BY <1>1, <1>2, Waits

LEMMA NextRecorded ==
    ASSUME ~NoWait, Wired, Account, Account', Recorded, [Next]_vars PROVE Recorded'
<1> SUFFICES ASSUME NEW c \in Comp PROVE Kept(c)'
  BY DEF Recorded
<1>1. Kept(c)
  BY DEF Recorded
<1>2. CASE db'[c] = task'[c]
  BY <1>2, WaitsOpen DEF Kept
<1>3. CASE Carried(c)
  <2>1. CASE Start \/ Crash
    BY <1>1, <2>1, WaitsOpen DEF Kept, Start, Crash
  <2>2. CASE ~(Start \/ Crash)
    BY <1>1, <1>3, <2>2, WaitsOpen DEF Kept, Carried
  <2> QED BY <2>1, <2>2
<1>4. CASE SequenceComp(c)
  BY <1>2, <1>4, SequenceSource
<1>5. CASE unsaved = {} /\ (Build(c) \/ Response(c) \/ Confirm(c))
  BY <1>2, <1>3, <1>5, BuildSource, ResponseSource, ConfirmSource
<1> QED BY <1>3, <1>4, <1>5, Sources

\* A result stays a result, and a loss a loss.
Closed(c) == db[c].st # "open"
Lost(c)   == \A t \in {task[c], db[c]} : t.st \in {"failed", "unsupported"}

LEMMA ClosedStays ==
    ASSUME ~NoWait, Account, Recorded, [Next]_vars, NEW c \in Comp, Closed(c)
    PROVE  /\ c \notin wait /\ ~IsOpen(c) /\ Closed(c)'
           /\ Lost(c) => Lost(c)'
<1>1. c \notin wait /\ task[c].st # "open" /\ ~IsOpen(c)
  BY DEF Closed, Recorded, Kept, IsOpen
<1>2. CASE SequenceComp(c)
  BY <1>1, <1>2, SequenceSource
<1>3. CASE Carried(c)
  BY <1>1, <1>3 DEF Carried, Closed, Lost
<1>4. CASE unsaved = {} /\ Build(c)
  <2>1. CASE task'[c] = db'[c] /\ task'[c].st = task[c].st
    BY <1>1, <2>1 DEF Closed, Lost
  <2> QED BY <1>1, <1>3, <1>4, <2>1, BuildSource
<1>5. CASE unsaved = {} /\ (Response(c) \/ Confirm(c))
  BY <1>1, <1>3, <1>5, ResponseSource, ConfirmSource
<1> QED BY <1>1, <1>2, <1>3, <1>4, <1>5, Sources

-----------------------------------------------------------------------------
(* Power cycles: turned off, and turned on again *)

Cycling     == op \in {"SoftRestart", "HardRestart", "Init"}
TurnedOn(t) == t.op = "On" /\ t.state # "GatherData"
ByItself(c) == op = "SoftRestart" /\ Restartable(c)

\* Until c has been told to turn on it stays off once it is, and is seen so.
Sighted(c) ==
    /\ cmd[c] = "on" => TurnedOn(task[c])
    /\ TurnedOn(task[c]) => ~DownDue(c)
    /\ ~TurnedOn(task[c]) => /\ mon[c] = "off" => hw[c] = "off"
                             /\ snap[c] = "off" => hw[c] = "off" /\ mon[c] # "on"
    /\ op \in {"Off", "SoftOff", "ForceOff"} => task[c].op # "On"
    /\ snap[c] = "undefined" /\ pc # "down" => c \in blind

\* What is turned off by a restart is to be turned on again.
Paired(c) == Cycling /\ c \in seqMap["gracefulshutdown"] \cup seqMap["forceoff"]
                => c \in seqMap["on"]

\* What restarts by itself is neither turned off nor on.
Alone(c) ==
    ByItself(c) =>
        /\ c \notin seqMap["on"] /\ task[c].op # "On" /\ cmd[c] \notin Offs
        /\ Mains(c) = {} /\ (mon[c] = "on" \/ snap[c] = "on") => hw[c] = "on"

\* Between the two halves of a power cycle a component is off.
Between(c) ==
    Cycling /\ c \notin blind /\ ~TurnedOn(task[c]) =>
        /\ c \in seqMap["on"] /\ count[c] <= 1 => hw[c] = "off" /\ mon[c] # "on"
        /\ PoweredOff(c) /\ task[c].state = "Confirmed" =>
              hw[c] = "off" /\ mon[c] # "on" /\ (pc = "seq" => snap[c] # "on")

\* After it, what nothing else can turn off is on if it is seen to be on, and is
\* not turned off any more.
Back(c) ==
    Cycling /\ Mains(c) = {} /\ c \notin blind =>
        /\ TurnedOn(task[c]) =>
              /\ mon[c] = "on" => hw[c] = "on"
              /\ hw[c] = "on" => cmd[c] \notin Offs
              /\ pc = "seq" /\ snap[c] = "on" => hw[c] = "on"
        /\ \A t \in {task[c], db[c]} : t.st = "succeeded" =>
              hw[c] = "on" /\ cmd[c] \notin Offs

\* A success comes after it.
Returned(c) ==
    Cycling /\ c \notin blind /\ ~ByItself(c) =>
        \A t \in {task[c], db[c]} : t.st = "succeeded" => TurnedOn(t)

Turned(c) == /\ Sighted(c) /\ Paired(c) /\ Alone(c)
             /\ Between(c) /\ Back(c) /\ Returned(c)

Turns == \A c \in Comp : Turned(c)

LEMMA InitTurns ==
    ASSUME Init PROVE Turns
<1> SUFFICES ASSUME NEW c \in Comp PROVE Turned(c)
  BY DEF Turns
<1>1. /\ task[c] = NewTask /\ db[c] = NewTask /\ cmd[c] = "none" /\ mon = hw
      /\ snap[c] = "undefined" /\ pc = "down" /\ \A a \in Action : c \notin seqMap[a]
  BY DEF Init, NoPlan
<1>2. NewTask.op = op /\ NewTask.state = "GatherData" /\ NewTask.st = "open"
  BY DEF NewTask
<1>3. ~DownDue(c) /\ ~TurnedOn(task[c])
  BY <1>1, <1>2 DEF DownDue, Due, TurnedOn
<1>4. \A a \in {"on", "gracefulshutdown", "forceoff"} : c \notin seqMap[a]
  BY <1>1 DEF Action
<1>5. Sighted(c) /\ Paired(c)
  BY <1>1, <1>2, <1>3, <1>4 DEF Sighted, Paired
<1>6. Alone(c)
  BY <1>1, <1>2, <1>4 DEF Alone, ByItself, Offs
<1>7. Between(c) /\ Back(c) /\ Returned(c)
  BY <1>1, <1>2, <1>3, <1>4 DEF Between, Back, Returned
<1> QED BY <1>5, <1>6, <1>7 DEF Turned

\* What sequenceComponents does with a component in the course of a power cycle.
LEMMA CycleSequenced ==
    ASSUME Account, Placed, Directs, Restarts, NEW c \in Comp, Turned(c), IsOpen(c), pc = "seq"
    PROVE  /\ Sequenced(c).task.op = task[c].op
           /\ \/ Sequenced(c).task.state = task[c].state
              \/ /\ Sequenced(c).task.state = "Confirmed" /\ PoweredOff(c)
                 /\ Cycling => snap[c] # "on"
           /\ TurnedOn(task[c]) => Sequenced(c).into \subseteq {"on"}
           /\ ByItself(c) => "on" \notin Sequenced(c).into
           /\ Cycling =>
                 /\ Sequenced(c).into = {"on"} => TurnedOn(task[c]) \/ snap[c] # "on"
                 /\ Sequenced(c).into \cap Offs # {} => "on" \in Sequenced(c).into
                 /\ Sequenced(c).task.st = "succeeded" =>
                       snap[c] = "on" /\ (TurnedOn(task[c]) \/ ByItself(c) \/ c \in blind)
<1> DEFINE Good(r) ==
              /\ r.task.op = task[c].op
              /\ \/ r.task.state = task[c].state
                 \/ /\ r.task.state = "Confirmed" /\ PoweredOff(c)
                    /\ Cycling => snap[c] # "on"
              /\ TurnedOn(task[c]) => r.into \subseteq {"on"}
              /\ ByItself(c) => "on" \notin r.into
              /\ Cycling =>
                    /\ r.into = {"on"} => TurnedOn(task[c]) \/ snap[c] # "on"
                    /\ r.into \cap Offs # {} => "on" \in r.into
                    /\ r.task.st = "succeeded" =>
                          snap[c] = "on" /\ (TurnedOn(task[c]) \/ ByItself(c) \/ c \in blind)
<1>1. task[c] \in Task /\ op \in Operation /\ Traced(task[c])
  BY DEF Account, TypeOK
<1>2. /\ \A st : /\ Finished(c, st).into = {} /\ Finished(c, st).task.st = st
                 /\ Finished(c, st).task.state = task[c].state
                 /\ Finished(c, st).task.op = task[c].op
      /\ \A S : PutInto(c, S).into = S /\ PutInto(c, S).task = task[c]
      /\ OffConfirmed(c).into = {"on"} /\ OffConfirmed(c).task.st = task[c].st
      /\ OffConfirmed(c).task.state = "Confirmed" /\ OffConfirmed(c).task.op = task[c].op
  BY <1>1 DEF Finished, PutInto, OffConfirmed, Task
<1>3. task[c].st = "open"
  BY DEF IsOpen
<1>4. Good(Finished(c, "failed")) /\ Good(Finished(c, "unsupported"))
  BY <1>2
<1>5. snap[c] = "on" /\ (TurnedOn(task[c]) \/ ByItself(c) \/ c \in blind)
         => Good(Finished(c, "succeeded"))
  BY <1>2
<1>6. ASSUME NEW S \in SUBSET Action, S \subseteq {"on"} \/ ~TurnedOn(task[c]),
             ByItself(c) => "on" \notin S,
             Cycling => /\ S = {"on"} => TurnedOn(task[c]) \/ snap[c] # "on"
                        /\ S \cap Offs # {} => "on" \in S
      PROVE  Good(PutInto(c, S))
  BY <1>2, <1>3, <1>6
<1>7. PoweredOff(c) /\ snap[c] # "on" /\ ~ByItself(c) => Good(OffConfirmed(c))
  BY <1>2, <1>3 DEF PoweredOff, TurnedOn
<1> HIDE DEF Good
<1>8. ~ByItself(c) /\ (TurnedOn(task[c]) \/ snap[c] # "on") => Good(PutInto(c, {"on"}))
  BY <1>6 DEF Action, Offs
<1>9. Good(PutInto(c, {}))
  BY <1>6 DEF Action, Offs
<1>10. ~ByItself(c) /\ ~TurnedOn(task[c]) => /\ Good(PutInto(c, {"gracefulshutdown", "on"}))
                                            /\ Good(PutInto(c, {"forceoff", "on"}))
  BY <1>6 DEF Action, Offs
<1>11. ByItself(c) => task[c].op # "On" /\ ~PoweredOff(c)
  <2> SUFFICES ASSUME ByItself(c) PROVE task[c].op # "On" /\ ~PoweredOff(c)
    OBVIOUS
  <2>1. LeftAlone(c) /\ op = "SoftRestart" /\ Restartable(c)
    BY DEF Restarts, Restarting, Restarted, ByItself
  <2> QED BY <2>1 DEF LeftAlone, PoweredOff, Turned, Alone
<1>12. ~TurnedOn(task[c]) => Good(PutInto(c, {"gracefulrestart"}))
  BY <1>6 DEF Action, Offs
<1>13. Cycling => (task[c].op = "On" => TurnedOn(task[c]))
  BY <1>1 DEF Traced, TurnedOn, Cycling
<1>14. Cycling /\ snap[c] # "on" => Good(Interrupted(c))
  <2> SUFFICES ASSUME Cycling, snap[c] # "on" PROVE Good(Interrupted(c))
    OBVIOUS
  <2>1. CASE task[c].state = "GatherData"
    BY <1>4, <2>1 DEF Interrupted
  <2>2. CASE task[c].state # "GatherData" /\ task[c].op = "On"
    BY <1>8, <1>11, <2>2 DEF Interrupted, PoweredOff
  <2>3. CASE task[c].state # "GatherData" /\ PoweredOff(c)
    BY <1>7, <1>11, <2>3 DEF Interrupted, PoweredOff
  <2>4. CASE task[c].state # "GatherData" /\ task[c].op # "On" /\ ~PoweredOff(c)
    BY <1>4, <1>9, <2>4 DEF Interrupted
  <2> QED BY <2>1, <2>2, <2>3, <2>4
<1>15. Cycling /\ snap[c] = "on" /\ ~ByItself(c) => Good(Cycled(c))
  BY <1>5, <1>10, <1>13 DEF Cycled, TurnedOn
<1>16. CASE ~Supports(c, op)
  <2>1. Good(Sequenced(c))
    BY <1>4, <1>16 DEF Sequenced
  <2> QED BY <2>1 DEF Good
<1>17. CASE Supports(c, op) /\ op = "HardRestart"
  <2>1. Sequenced(c) = HardRestarted(c)
    BY <1>17 DEF Sequenced
  <2>2. ~ByItself(c) /\ Cycling
    BY <1>17 DEF ByItself, Cycling
  <2>3. Good(HardRestarted(c))
    BY <1>14, <1>15, <2>2 DEF HardRestarted
  <2> QED BY <2>1, <2>3 DEF Good
<1>18. CASE Supports(c, op) /\ op = "SoftRestart"
  <2>1. Sequenced(c) = SoftRestarted(c) /\ Cycling
    BY <1>18 DEF Sequenced, Cycling
  <2>2. CASE snap[c] # "on"
    <3>1. Good(SoftRestarted(c))
      BY <1>14, <2>1, <2>2 DEF SoftRestarted
    <3> QED BY <2>1, <3>1 DEF Good
  <2>3. CASE snap[c] = "on" /\ Restartable(c)
    <3>1. ByItself(c) /\ ~TurnedOn(task[c])
      BY <1>11, <1>18, <2>3 DEF ByItself, TurnedOn
    <3>2. Good(SoftRestarted(c))
      BY <1>5, <1>12, <2>3, <3>1 DEF SoftRestarted
    <3> QED BY <2>1, <3>2 DEF Good
  <2>4. CASE snap[c] = "on" /\ ~Restartable(c)
    <3>1. Type[c] \notin Controller
      <4> SUFFICES ASSUME Type[c] \in Controller PROVE FALSE
        OBVIOUS
      <4>1. acts[c] \subseteq {"gracefulrestart", "forcerestart"}
        BY DEF Placed, RestartOnly
      <4>2. {"gracefulrestart", "forcerestart"} \cap acts[c] # {}
        BY <1>18, <4>1 DEF Supports
      <4> QED BY <2>4, <4>2 DEF Restartable
    <3>2. Good(SoftRestarted(c))
      BY <1>15, <2>1, <2>4, <3>1 DEF SoftRestarted, ByItself
    <3> QED BY <2>1, <3>2 DEF Good
  <2> QED BY <2>2, <2>3, <2>4
<1>19. CASE Supports(c, op) /\ op = "Init"
  <2>1. Sequenced(c) = Initialized(c) /\ Cycling /\ ~ByItself(c)
    BY <1>19 DEF Sequenced, Cycling, ByItself
  <2>2. CASE snap[c] # "on"
    <3>1. Good(Initialized(c))
      BY <1>7, <1>8, <2>1, <2>2 DEF Initialized
    <3> QED BY <2>1, <3>1 DEF Good
  <2>3. CASE snap[c] = "on" /\ task[c].op = "On"
    <3>1. Good(Initialized(c))
      BY <1>5, <1>13, <2>1, <2>3 DEF Initialized
    <3> QED BY <2>1, <3>1 DEF Good
  <2>4. CASE snap[c] = "on" /\ task[c].op # "On" /\ PoweredOff(c) /\ task[c].state = "Confirmed"
    <3>1. c \in blind
      <4>1. ~TurnedOn(task[c])
        BY <2>4 DEF TurnedOn
      <4> QED BY <2>1, <2>4, <4>1 DEF Turned, Between
    <3>2. Good(Initialized(c))
      BY <1>5, <2>4, <3>1 DEF Initialized
    <3> QED BY <2>1, <3>2 DEF Good
  <2>5. CASE /\ snap[c] = "on" /\ task[c].op # "On"
             /\ ~(PoweredOff(c) /\ task[c].state = "Confirmed")
    <3>1. ~TurnedOn(task[c])
      BY <2>5 DEF TurnedOn
    <3>2. CASE task[c].op = "ForceOff" /\ task[c].state # "Confirmed"
      <4>1. Initialized(c) = PutInto(c, {"forceoff", "on"})
        BY <2>5, <3>2 DEF Initialized
      <4> QED BY <1>10, <2>1, <3>1, <4>1 DEF Good
    <3>3. CASE ~(task[c].op = "ForceOff" /\ task[c].state # "Confirmed")
      <4>1. Initialized(c) = PutInto(c, {"gracefulshutdown", "on"})
        BY <2>5, <3>3 DEF Initialized
      <4> QED BY <1>10, <2>1, <3>1, <4>1 DEF Good
    <3> QED BY <3>2, <3>3
  <2> QED BY <2>2, <2>3, <2>4, <2>5
<1>20. CASE Supports(c, op) /\ op = "On"
  <2>1. Sequenced(c) = Unless(c, "on", {"on"}) /\ ~Cycling /\ ~ByItself(c)
    BY <1>20 DEF Sequenced, Cycling, ByItself
  <2>2. Good(Finished(c, "succeeded")) /\ Good(PutInto(c, {"on"}))
    BY <1>2, <2>1 DEF Good
  <2> QED BY <2>1, <2>2 DEF Unless, Good
<1>21. CASE Supports(c, op) /\ op \in {"Off", "SoftOff", "ForceOff"}
  <2>1. /\ \/ Sequenced(c) = Unless(c, "off", {"gracefulshutdown"})
           \/ Sequenced(c) = Unless(c, "off", {"forceoff"})
        /\ ~Cycling /\ ~ByItself(c) /\ ~TurnedOn(task[c])
    BY <1>21 DEF Sequenced, Cycling, ByItself, TurnedOn, Turned, Sighted
  <2>2. /\ Good(Finished(c, "succeeded")) /\ Good(PutInto(c, {"gracefulshutdown"}))
        /\ Good(PutInto(c, {"forceoff"}))
    BY <1>2, <2>1 DEF Good
  <2> QED BY <2>1, <2>2 DEF Unless, Good
<1> QED BY <1>1, <1>16, <1>17, <1>18, <1>19, <1>20, <1>21 DEF Operation

\* What the following lemmas need of the state.
Ground == Account /\ Placed /\ Directs /\ Restarts /\ Supplied /\ Recorded /\ Turns

\* A component is told to turn on when its tier has come, and that is not
\* forgotten.
LEMMA TurnedOnSource ==
    ASSUME ~NoWait, Ground, [Next]_vars, NEW c \in Comp
    PROVE  /\ TurnedOn(task[c]) => TurnedOn(task[c])'
           /\ TurnedOn(task[c])' =>
                 \/ TurnedOn(task[c])
                 \/ /\ unsaved = {} /\ Build(c) /\ task[c].st # "failed" /\ powerAction = "on"
                    /\ task'[c] = db'[c]
<1> USE DEF Ground
<1>1. Account /\ Turned(c) /\ Kept(c)
  BY DEF Turns, Recorded
<1>2. CASE Carried(c)
  BY <1>1, <1>2 DEF Carried, Kept, TurnedOn
<1>3. CASE SequenceComp(c)
  <2>1. IsOpen(c) /\ pc = "seq" /\ task'[c] = Sequenced(c).task
    BY <1>3, SequenceSource
  <2>2. Sequenced(c).task.op = task[c].op
          /\ \/ Sequenced(c).task.state = task[c].state
             \/ PoweredOff(c)
    BY <1>1, <2>1, CycleSequenced
  <2> QED BY <2>1, <2>2 DEF TurnedOn, PoweredOff
<1>4. CASE unsaved = {} /\ Build(c)
  <2>1. CASE /\ task'[c] = db'[c] /\ task[c].st # "failed"
             /\ task'[c].state = "Sending" /\ task'[c].op = OpFor(powerAction)
             /\ powerAction \in Action
    <3>1. ASSUME TurnedOn(task[c]) PROVE powerAction = "on"
      <4>1. pc \in Loop /\ c \in InTier(tier) /\ c \in Busy
        BY <1>4 DEF Build, Account, Shape, Loop, Busy
      <4>2. Due(c, powerAction)
        BY <4>1, CurrentDue
      <4> QED BY <1>1, <2>1, <3>1, <4>2 DEF Turned, Sighted, DownDue
    <3>2. OpFor(powerAction) = "On" <=> powerAction = "on"
      BY <2>1 DEF OpFor, Action
    <3> QED BY <1>4, <2>1, <3>1, <3>2 DEF TurnedOn
  <2> QED BY <1>2, <1>4, <2>1, BuildSource
<1>5. CASE unsaved = {} /\ Response(c)
  <2>1. CASE task'[c].state = "Waiting" /\ task'[c].op = task[c].op /\ c \in wait
    <3>1. task[c].state # "GatherData"
      BY <2>1 DEF Account, Sent
    <3> QED BY <2>1, <3>1 DEF TurnedOn
  <2> QED BY <1>2, <1>5, <2>1, ResponseSource
<1>6. CASE unsaved = {} /\ Confirm(c)
  <2>1. CASE task'[c].state = "Confirmed" /\ task'[c].op = task[c].op /\ c \in wait
    <3>1. task[c].state # "GatherData"
      BY <2>1 DEF Account, Sent
    <3> QED BY <2>1, <3>1 DEF TurnedOn
  <2> QED BY <1>2, <1>6, <2>1, ConfirmSource
<1> QED BY <1>1, <1>2, <1>3, <1>4, <1>5, <1>6, Sources

\* Nothing that was put down for is forgotten before the worker dies.
LEMMA PlanStays ==
    ASSUME Account, [Next]_vars, ~Crash, NEW d \in Comp, NEW a \in Action, d \in seqMap[a]
    PROVE  d \in seqMap'[a]
<1>1. CASE seqMap' = seqMap
  BY <1>1
<1>2. ASSUME NEW c \in Comp, SequenceComp(c) PROVE d \in seqMap'[a]
  <2>1. seqMap' = [b \in Action |-> IF b \in Sequenced(c).into THEN seqMap[b] \cup {c}
                                                               ELSE seqMap[b]]
    BY <1>2 DEF SequenceComp
  <2> QED BY <2>1
<1>3. ASSUME NEW c \in Comp, Late(c) PROVE d \in seqMap'[a]
  <2>1. seqMap' = seqMap \/ seqMap' = [seqMap EXCEPT !["forceoff"] = @ \cup {c}]
    BY <1>3 DEF Late
  <2> QED BY <2>1 DEF Account, TypeOK
<1>4. CASE \/ Save \/ Start \/ ReserveError \/ Reserved \/ EnterTier \/ KeysChecked \/ Launch
           \/ Answered \/ RoundDone \/ Deadline \/ LateDone \/ UNCHANGED vars
  <2>1. seqMap' = seqMap
    BY <1>4 DEF Save, Start, ReserveError, Reserved, EnterTier, KeysChecked, Launch,
                Answered, RoundDone, Deadline, LateDone, plan, vars, worker
  <2> QED BY <2>1
<1>5. ASSUME NEW c \in Comp, Execute(c) \/ Monitor(c) \/ Lose(c) PROVE seqMap' = seqMap
  BY <1>5 DEF Execute, Monitor, Lose, worker, plan
<1>6. ASSUME NEW c \in Comp, \/ Walk(c) \/ ReserveFailed(c) \/ KeyExpired(c) \/ Build(c)
                             \/ Response(c) \/ Confirm(c)
      PROVE  seqMap' = seqMap
  BY <1>6 DEF Walk, ReserveFailed, KeyExpired, Build, Response, Confirm, plan
<1> QED BY <1>1, <1>2, <1>3, <1>4, <1>5, <1>6 DEF Next, WorkerStep, Work

\* Constants of a transition, as far as these invariants depend on them.
LEMMA SameKind ==
    ASSUME [Next]_vars, NEW c \in Comp
    PROVE  /\ op' = op /\ (Cycling' <=> Cycling) /\ (ByItself(c)' <=> ByItself(c))
  BY Fixed DEF Cycling, ByItself, Restartable

\* What is seen of c: its power state before the step, or what was seen before.
LEMMA Seen ==
    ASSUME Account, [Next]_vars, NEW c \in Comp
    PROVE  \/ mon'[c] = mon[c] /\ snap'[c] = snap[c]
           \/ /\ hw'[c] = hw[c] /\ mon'[c] \in {mon[c], hw[c], "undefined"}
              /\ snap'[c] \in {snap[c], mon[c], "undefined"}
  BY Sights, OneWay

LEMMA NextSighted ==
    ASSUME ~NoWait, Ground, Account', [Next]_vars, NEW c \in Comp PROVE Sighted(c)'
<1> USE DEF Ground
<1>1. Account /\ Supplied /\ Turned(c) /\ Sighted(c)
  BY DEF Turns, Turned
<1>2. cmd'[c] = "on" => TurnedOn(task[c])'
  <2>1. CASE cmd'[c] = cmd[c]
    BY <1>1, <2>1, TurnedOnSource DEF Sighted
  <2>2. CASE cmd'[c] = powerAction /\ c \in wait
    <3>1. task[c].state # "GatherData" /\ task[c].op = OpFor(powerAction)
      BY <2>2 DEF Account, Sent
    <3>2. powerAction = "on" => TurnedOn(task[c])
      BY <3>1 DEF OpFor, TurnedOn
    <3> QED BY <2>2, <3>2, TurnedOnSource
  <2> QED BY <2>1, <2>2, Commands
<1>3. ASSUME TurnedOn(task[c])', NEW a \in Action \ {"on"}, Due(c, a)' PROVE FALSE
  <2>1. CASE TurnedOn(task[c])
    <3>1. ~Due(c, a)
      BY <1>1, <1>3, <2>1 DEF Sighted, DownDue
    <3>2. ~Escalated(c)
      <4>1. c \in wait => task[c].op = OpFor(powerAction)
        BY DEF Account, Sent
      <4> QED BY <2>1, <4>1 DEF Escalated, OpFor, TurnedOn
    <3>3. ~(SequenceComp(c) /\ a \in Sequenced(c).into)
      BY <1>1, <1>3, <2>1, SequenceSource, CycleSequenced
    <3> QED BY <1>3, <3>1, <3>2, <3>3, DueStays
  <2>2. CASE Build(c) /\ powerAction = "on"
    <3>1. pc = "build" /\ c \in InTier(tier)
      BY <2>2 DEF Build, Account, Shape, Loop
    <3>2. ~Due(c, a)
      BY <1>3, <2>2, <3>1, DownBehind DEF DownDue, Loop
    <3>3. ~SequenceComp(c) /\ ~Escalated(c)
      BY <3>1 DEF SequenceComp, Escalated
    <3> QED BY <1>3, <3>2, <3>3, DueStays
  <2> QED BY <1>3, <2>1, <2>2, TurnedOnSource
<1>4. TurnedOn(task[c])' => ~DownDue(c)'
  BY <1>3 DEF DownDue
<1>5. ASSUME ~TurnedOn(task[c])'
      PROVE  /\ mon'[c] = "off" => hw'[c] = "off"
             /\ snap'[c] = "off" => hw'[c] = "off" /\ mon'[c] # "on"
  <2>1. ~TurnedOn(task[c]) /\ cmd[c] # "on"
    BY <1>1, <1>5, TurnedOnSource DEF Sighted
  <2>2. hw'[c] = "on" => hw[c] = "on"
    BY <2>1, OwnCommands
  <2>3. hw'[c] \in {"on", "off"} /\ hw[c] \in {"on", "off"}
    BY DEF Account, TypeOK
  <2> QED BY <1>1, <2>1, <2>2, <2>3, Seen DEF Sighted
<1>6. ASSUME op \in {"Off", "SoftOff", "ForceOff"} PROVE task'[c].op # "On"
  <2>1. task[c].op # "On" /\ Kept(c)
    BY <1>1, <1>6 DEF Sighted, Recorded
  <2>2. CASE Carried(c)
    BY <2>1, <2>2 DEF Carried, Kept
  <2>3. CASE SequenceComp(c)
    BY <2>1, <2>3, SequenceSource, SequencedTrace
  <2>4. CASE unsaved = {} /\ Build(c)
    <3>1. CASE /\ task'[c].op = OpFor(powerAction) /\ powerAction \in Action
               /\ c \in seqMap[powerAction]
      <4>1. powerAction \in Means
        BY <1>6, <3>1 DEF Directs, Directed, Aimed
      <4> QED BY <1>6, <3>1, <4>1 DEF Means, OpFor
    <3> QED BY <2>2, <2>4, <3>1, BuildSource
  <2>5. CASE unsaved = {} /\ (Response(c) \/ Confirm(c))
    BY <2>1, <2>2, <2>5, ResponseSource, ConfirmSource
  <2> QED BY <2>2, <2>3, <2>4, <2>5, Sources
<1>7. snap'[c] = "undefined" /\ pc' # "down" => c \in blind'
  <2>1. blind \subseteq blind' /\ (Start /\ mon[c] = "undefined" => c \in blind')
    BY Memories
  <2> QED BY <1>1, <2>1, Reads DEF Sighted
<1> QED BY <1>2, <1>4, <1>5, <1>6, <1>7, SameKind DEF Sighted

LEMMA NextPaired ==
    ASSUME ~NoWait, Ground, [Next]_vars, NEW c \in Comp PROVE Paired(c)'
<1> USE DEF Ground
<1> SUFFICES ASSUME Cycling, NEW a \in {"gracefulshutdown", "forceoff"}, c \in seqMap'[a]
             PROVE  c \in seqMap'["on"]
  BY SameKind DEF Paired
<1>1. a \in Action /\ "on" \in Action /\ "gracefulshutdown" \in Action /\ Account /\ Turned(c)
  BY DEF Action, Turns
<1>2. ~Crash
  BY <1>1 DEF Crash, NoPlan
<1>3. CASE SequenceComp(c) /\ a \in Sequenced(c).into
  <2>1. "on" \in Sequenced(c).into
    BY <1>1, <1>3, SequenceSource, CycleSequenced DEF Offs
  <2>2. seqMap' = [b \in Action |-> IF b \in Sequenced(c).into THEN seqMap[b] \cup {c}
                                                               ELSE seqMap[b]]
    BY <1>3 DEF SequenceComp
  <2> QED BY <1>1, <2>1, <2>2
<1>4. CASE c \in seqMap[a]
  BY <1>1, <1>2, <1>4, PlanStays DEF Turned, Paired
<1>5. CASE Escalated(c)
  <2>1. c \in seqMap["gracefulshutdown"]
    BY <1>5 DEF Escalated, Account, Shape, Loop, InTier, powerAction
  <2> QED BY <1>1, <1>2, <2>1, PlanStays DEF Turned, Paired
<1> QED BY <1>1, <1>3, <1>4, <1>5, Plans

LEMMA NextAlone ==
    ASSUME ~NoWait, Ground, [Next]_vars, NEW c \in Comp PROVE Alone(c)'
<1> USE DEF Ground
<1> SUFFICES ASSUME ByItself(c)
             PROVE  /\ c \notin seqMap'["on"] /\ task'[c].op # "On" /\ cmd'[c] \notin Offs
                    /\ Mains(c) = {} /\ (mon'[c] = "on" \/ snap'[c] = "on") => hw'[c] = "on"
  BY SameKind DEF Alone
<1>1. /\ Account /\ Turned(c) /\ Kept(c) /\ "on" \in Action
      /\ c \notin seqMap["on"] /\ task[c].op # "On" /\ cmd[c] \notin Offs
      /\ Mains(c) = {} /\ (mon[c] = "on" \/ snap[c] = "on") => hw[c] = "on"
  BY DEF Turns, Turned, Alone, Recorded, Action
<1>2. c \notin seqMap'["on"]
  BY <1>1, Plans, SequenceSource, CycleSequenced
<1>3. task'[c].op # "On"
  <2>1. CASE Carried(c)
    BY <1>1, <2>1 DEF Carried, Kept
  <2>2. CASE SequenceComp(c)
    BY <1>1, <2>2, SequenceSource, SequencedTrace
  <2>3. CASE unsaved = {} /\ Build(c)
    <3>1. CASE /\ task'[c].op = OpFor(powerAction) /\ powerAction \in Action
               /\ c \in seqMap[powerAction]
      BY <1>1, <3>1 DEF OpFor, Action
    <3> QED BY <2>1, <2>3, <3>1, BuildSource
  <2>4. CASE unsaved = {} /\ (Response(c) \/ Confirm(c))
    BY <1>1, <2>1, <2>4, ResponseSource, ConfirmSource
  <2> QED BY <2>1, <2>2, <2>3, <2>4, Sources
<1>4. cmd'[c] \notin Offs
  <2>1. LeftAlone(c) /\ op = "SoftRestart" /\ Restartable(c)
    BY DEF Restarts, Restarting, Restarted, ByItself
  <2>2. c \notin seqMap["gracefulshutdown"] \cup seqMap["forceoff"]
    BY <2>1 DEF LeftAlone
  <2> QED BY <1>1, <2>2, Commands DEF Offs
<1>5. ASSUME Mains(c) = {} PROVE mon'[c] = "on" \/ snap'[c] = "on" => hw'[c] = "on"
  <2>1. hw[c] = "on" => hw'[c] = "on"
    BY <1>1, <1>5, OwnCommands
  <2> QED BY <1>1, <1>5, <2>1, Seen
<1> QED BY <1>2, <1>3, <1>4, <1>5

\* sequenceComponents follows a start.
LEMMA SeqStarts ==
    ASSUME Account, [Next]_vars, pc' = "seq"
    PROVE  \/ Start /\ snap' = mon
           \/ pc = "seq" /\ snap' = snap
<1>1. ~Start => pc = "seq"
  <2> SUFFICES ASSUME ~Start PROVE pc = "seq"
    OBVIOUS
  <2>1. CASE \/ Save \/ ReserveError \/ Reserved \/ EnterTier \/ KeysChecked \/ Launch \/ Answered
             \/ RoundDone \/ Deadline \/ LateDone \/ Crash \/ UNCHANGED vars
    BY <2>1 DEF Save, ReserveError, Reserved, EnterTier, KeysChecked, Launch, Answered,
                RoundDone, Deadline, LateDone, NextTier, Crash, vars, worker
  <2>2. ASSUME NEW c \in Comp, Work(c) PROVE pc = "seq"
    BY <2>2 DEF Work, SequenceComp, Walk, ReserveFailed, KeyExpired, Build, Response, Confirm,
                Late
  <2>3. ASSUME NEW c \in Comp, Execute(c) \/ Monitor(c) \/ Lose(c) PROVE pc = "seq"
    BY <2>3 DEF Execute, Monitor, Lose, worker
  <2> QED BY <2>1, <2>2, <2>3 DEF Next, WorkerStep
<1>2. Start => pc = "down"
  BY DEF Start
<1> QED BY <1>1, <1>2, Reads

\* The action whose command c has been sent, while it is waited for.
LEMMA Confirming ==
    ASSUME Account, NEW c \in Comp, Confirm(c)
    PROVE  /\ pc = "confirm" /\ c \in wait /\ c \in InTier(tier) /\ tier \in 1..14 /\ c \in Busy
           /\ powerAction \in Action /\ c \in seqMap[powerAction]
           /\ task[c].state # "GatherData" /\ task[c].op = OpFor(powerAction)
<1>1. pc = "confirm" /\ c \in wait /\ c \in InTier(tier) /\ tier \in 1..14 /\ c \in Busy
  BY DEF Confirm, Account, Shape, Loop, Busy
<1>2. powerAction \in Action /\ c \in seqMap[powerAction]
  BY <1>1, TierOrder DEF InTier, powerAction
<1> QED BY <1>1, <1>2 DEF Account, Sent

LEMMA NextBetween ==
    ASSUME ~NoWait, Ground, [Next]_vars, NEW c \in Comp PROVE Between(c)'
<1> USE DEF Ground
<1> SUFFICES ASSUME Cycling, c \notin blind', ~TurnedOn(task[c])'
             PROVE  /\ c \in seqMap'["on"] /\ count'[c] <= 1 => hw'[c] = "off" /\ mon'[c] # "on"
                    /\ task'[c].op \in {"Off", "ForceOff"} /\ task'[c].state = "Confirmed" =>
                          /\ hw'[c] = "off" /\ mon'[c] # "on"
                          /\ pc' = "seq" => snap'[c] # "on"
  BY SameKind DEF Between, PoweredOff
<1>1. /\ Account /\ Supplied /\ Turned(c) /\ Sighted(c) /\ Between(c) /\ Planned(c)
      /\ c \notin blind /\ ~TurnedOn(task[c]) /\ cmd[c] # "on"
  BY Memories, TurnedOnSource DEF Turns, Turned, Sighted, Account
<1>2. hw[c] = "off" /\ mon[c] # "on" => hw'[c] = "off" /\ mon'[c] # "on"
  <2>1. hw'[c] = "on" => hw[c] = "on"
    BY <1>1, OwnCommands
  <2>2. hw'[c] \in {"on", "off"} /\ hw[c] \in {"on", "off"}
    <3>1. hw \in [Comp -> {"on", "off"}]
      BY DEF Account, TypeOK
    <3>2. hw'[c] \in {"on", "off"}
      BY NextAccount DEF Account, TypeOK
    <3> QED BY <3>1, <3>2
  <2> QED BY <2>1, <2>2, <1>1, Seen
<1>3. mon[c] = "off" \/ snap[c] = "off" => hw[c] = "off" /\ mon[c] # "on"
  BY <1>1 DEF Sighted
<1>4. SequenceComp(c) /\ snap[c] # "on" => hw[c] = "off" /\ mon[c] # "on"
  <2>1. snap[c] \in {"on", "off", "undefined"}
    BY DEF Account, TypeOK
  <2>2. SequenceComp(c) => pc # "down"
    BY DEF SequenceComp
  <2> QED BY <1>1, <1>3, <2>1, <2>2 DEF Sighted
<1>5. ASSUME Confirm(c), mon[c] = EndState(powerAction)
      PROVE  \/ powerAction \in Offs /\ hw[c] = "off" /\ mon[c] # "on"
             \/ powerAction = "gracefulrestart"
  <2>1. powerAction # "on"
    BY <1>1, <1>5, Confirming DEF OpFor, TurnedOn
  <2>2. powerAction \in Offs => mon[c] = "off"
    BY <1>5 DEF EndState, Offs
  <2> QED BY <1>3, <1>5, <2>1, <2>2, Confirming DEF Action, Offs
<1>6. ASSUME c \in seqMap'["on"], count'[c] <= 1 PROVE hw[c] = "off" /\ mon[c] # "on"
  <2>1. "on" \in Action /\ ~Crash
    BY <1>6 DEF Crash, NoPlan, Action
  <2>2. CASE SequenceComp(c)
    <3>1. c \notin seqMap["on"]
      BY <1>1, <2>1, <2>2 DEF SequenceComp, Planned, Unplanned
    <3>2. "on" \in Sequenced(c).into
      <4>1. ~Escalated(c)
        BY <2>2 DEF SequenceComp, Escalated
      <4> QED BY <1>6, <2>1, <3>1, <4>1, Plans
    <3>3. count' = [count EXCEPT ![c] = Cardinality(Sequenced(c).into)]
      BY <2>2 DEF SequenceComp
    <3>4. Cardinality(Sequenced(c).into) <= 1
      BY <1>6, <3>3 DEF Account, TypeOK
    <3>5. IsOpen(c) /\ pc = "seq"
      BY <2>2, SequenceSource
    <3>6. Outcome(Sequenced(c))
      BY <3>5, SequencedOutcome DEF Account
    <3>7. Sequenced(c).into = {"on"}
      BY <3>2, <3>4, <3>6, Sizes DEF Outcome
    <3> QED BY <1>1, <1>4, <2>2, <3>5, <3>7, CycleSequenced
  <2>3. CASE ~SequenceComp(c)
    <3>1. c \in seqMap["on"]
      BY <1>6, <2>1, <2>3, Plans
    <3>2. CASE count'[c] = count[c]
      BY <1>1, <1>6, <3>1, <3>2 DEF Between
    <3>3. CASE Confirm(c) /\ mon[c] = EndState(powerAction)
      <4>1. powerAction # "gracefulrestart"
        BY <1>1, <2>1, <3>1, <3>3, Confirming DEF Planned
      <4> QED BY <1>5, <3>3, <4>1
    <3> QED BY <2>1, <2>3, <3>2, <3>3, Counts
  <2> QED BY <2>2, <2>3
<1>7. ASSUME task'[c].op \in {"Off", "ForceOff"}, task'[c].state = "Confirmed"
      PROVE  hw[c] = "off" /\ mon[c] # "on" /\ (pc = "seq" => snap[c] # "on")
  <2>1. CASE task'[c].op = task[c].op /\ task'[c].state = task[c].state
    BY <1>1, <1>7, <2>1 DEF Between, PoweredOff
  <2>2. CASE Carried(c)
    <3>1. db[c].op = task[c].op /\ db[c].state = task[c].state
      BY DEF Recorded, Kept
    <3> QED BY <2>1, <2>2, <3>1 DEF Carried
  <2>3. CASE SequenceComp(c)
    <3>1. /\ Sequenced(c).task.op = task[c].op
          /\ Sequenced(c).task.state = task[c].state \/ snap[c] # "on"
      BY <1>1, <2>3, SequenceSource, CycleSequenced
    <3> QED BY <1>4, <2>1, <2>3, <3>1, SequenceSource
  <2>4. CASE unsaved = {} /\ (Build(c) \/ Response(c))
    BY <1>7, <2>2, <2>4, BuildSource, ResponseSource
  <2>5. CASE unsaved = {} /\ Confirm(c)
    <3>1. CASE mon[c] = EndState(powerAction) /\ task'[c].op = task[c].op
      <4>1. powerAction # "gracefulrestart" /\ pc = "confirm"
        BY <1>7, <2>5, <3>1, Confirming DEF OpFor
      <4> QED BY <1>5, <2>5, <3>1, <4>1
    <3> QED BY <2>2, <2>5, <3>1, ConfirmSource
  <2> QED BY <2>2, <2>3, <2>4, <2>5, Sources
<1>8. ASSUME task'[c].op \in {"Off", "ForceOff"}, task'[c].state = "Confirmed", pc' = "seq"
      PROVE  snap'[c] # "on"
  BY <1>7, <1>8, SeqStarts
<1> QED BY <1>2, <1>6, <1>7, <1>8

\* The last action of a power cycle is to turn on.
LEMMA LastConfirm ==
    ASSUME ~NoWait, Ground, [Next]_vars, Cycling, NEW c \in Comp, unsaved = {}, Confirm(c),
           task'[c].st = "succeeded" \/ db'[c].st = "succeeded",
           \A t \in {task[c], db[c]} : t.st # "succeeded"
    PROVE  /\ mon[c] = "on" /\ (TurnedOn(task[c]) \/ ByItself(c))
           /\ task'[c] = db'[c]
<1> USE DEF Ground
<1>1. Account /\ Turned(c) /\ Planned(c) /\ task[c] \in Task
  BY DEF Turns, Account, TypeOK
<1>2. ~Carried(c)
  BY DEF Carried
<1>3. ~Fail(c, powerAction)
  <2>1. op' = op
    BY DEF Confirm, fixed
  <2> QED BY <1>1, <1>2, <2>1, FailCarries
<1>4. Update(c, Confirmed(c)) /\ mon[c] = EndState(powerAction)
  <2>1. ~(task' = task /\ db' = db)
    OBVIOUS
  <2> QED BY <1>3, <2>1 DEF Confirm
<1>5. task'[c] = Confirmed(c) /\ db'[c] = Confirmed(c)
  BY <1>4 DEF Update, Account, TypeOK
<1>6. count[c] = 1
  <2>1. Confirmed(c).st = IF count[c] = 1 THEN "succeeded" ELSE task[c].st
    BY <1>1 DEF Confirmed, Task
  <2> QED BY <1>5, <2>1
<1>7. /\ pc \in Loop /\ c \in wait /\ c \in InTier(tier) /\ tier \in 1..14 /\ c \in Busy
      /\ powerAction \in Action /\ c \in seqMap[powerAction]
      /\ task[c].state # "GatherData" /\ task[c].op = OpFor(powerAction)
  BY Confirming DEF Loop
<1>8. powerAction \notin Offs
  <2> SUFFICES ASSUME powerAction \in Offs PROVE FALSE
    OBVIOUS
  <2>1. DownDue(c)
    <3>1. Due(c, powerAction) /\ powerAction # "on"
      BY <1>7, CurrentDue DEF Offs
    <3> QED BY <1>7, <3>1 DEF DownDue
  <2>2. OnDue(c)
    <3>1. c \in seqMap["on"]
      BY <1>1, <1>7 DEF Turned, Paired, Offs
    <3>2. tier <= 8
      BY <1>7, TierOrder DEF powerAction, Offs
    <3>3. ASSUME NEW k \in 1..14, Serves(k, c, "on") PROVE ~Behind(c, k)
      <4>1. k >= 11
        BY <3>3, TierOrder DEF Serves
      <4> QED BY <1>7, <3>2, <4>1 DEF Behind
    <3> QED BY <3>1, <3>3 DEF OnDue, Due, Done
  <2>3. count[c] = Owed(c)
    BY <1>7 DEF Account, Counted
  <2> QED BY <1>6, <2>1, <2>2, <2>3 DEF Owed
<1>9. CASE powerAction = "on"
  BY <1>4, <1>5, <1>7, <1>9 DEF OpFor, TurnedOn, EndState
<1>10. CASE powerAction = "gracefulrestart"
  <2>1. op = "SoftRestart"
    BY <1>1, <1>7, <1>10 DEF Planned
  <2>2. LeftAlone(c)
    BY <2>1 DEF Restarts, Restarting, Restarted
  <2> QED BY <1>4, <1>5, <1>7, <1>10, <2>1, <2>2 DEF LeftAlone, ByItself, EndState
<1> QED BY <1>7, <1>8, <1>9, <1>10 DEF Action, Offs

LEMMA NextReturned ==
    ASSUME ~NoWait, Ground, [Next]_vars, NEW c \in Comp PROVE Returned(c)'
<1> USE DEF Ground
<1> SUFFICES ASSUME Cycling, c \notin blind', ~ByItself(c),
                    NEW t \in {task'[c], db'[c]}, t.st = "succeeded"
             PROVE  TurnedOn(t)
  BY SameKind DEF Returned
<1>1. Account /\ Turned(c) /\ c \notin blind
  BY Memories DEF Turns
<1>2. \A s \in {task[c], db[c]} : s.st = "succeeded" => TurnedOn(s)
  BY <1>1 DEF Turned, Returned
<1>3. TurnedOn(task[c]) => TurnedOn(task'[c])
  BY TurnedOnSource DEF TurnedOn
<1>4. CASE Carried(c)
  BY <1>2, <1>4 DEF Carried
<1>5. CASE SequenceComp(c)
  <2>1. t = Sequenced(c).task /\ t = task'[c] /\ IsOpen(c) /\ pc = "seq"
    BY <1>5, SequenceSource
  <2>2. TurnedOn(task[c])
    BY <1>1, <2>1, CycleSequenced
  <2> QED BY <1>3, <2>1, <2>2
<1>6. CASE unsaved = {} /\ Build(c)
  <2>1. CASE task'[c] = db'[c] /\ task'[c].st = task[c].st
    BY <1>2, <1>3, <2>1
  <2> QED BY <1>4, <1>6, <2>1, BuildSource
<1>7. CASE unsaved = {} /\ Response(c)
  BY <1>4, <1>7, ResponseSource
<1>8. CASE unsaved = {} /\ Confirm(c)
  <2>1. CASE \A s \in {task[c], db[c]} : s.st # "succeeded"
    BY <1>3, <1>8, <2>1, LastConfirm
  <2>2. CASE \E s \in {task[c], db[c]} : s.st = "succeeded"
    <3>1. task[c].st # "open"
      BY <2>2 DEF Recorded, Kept
    <3>2. c \notin wait
      BY <3>1 DEF Recorded, Kept
    <3> QED BY <1>8, <3>2, Confirming
  <2> QED BY <2>1, <2>2
<1> QED BY <1>4, <1>5, <1>6, <1>7, <1>8, Sources

LEMMA NextBack ==
    ASSUME ~NoWait, Ground, [Next]_vars, NEW c \in Comp PROVE Back(c)'
<1> USE DEF Ground
<1> SUFFICES ASSUME Cycling, Mains(c) = {}, c \notin blind'
             PROVE  /\ TurnedOn(task[c])' =>
                          /\ mon'[c] = "on" => hw'[c] = "on"
                          /\ hw'[c] = "on" => cmd'[c] \notin Offs
                          /\ pc' = "seq" /\ snap'[c] = "on" => hw'[c] = "on"
                    /\ \A t \in {task'[c], db'[c]} : t.st = "succeeded" =>
                          hw'[c] = "on" /\ cmd'[c] \notin Offs
  BY SameKind DEF Back, Mains
<1>1. Account /\ Supplied /\ Turned(c) /\ Alone(c) /\ Between(c) /\ Back(c) /\ Kept(c) /\ c \notin blind
  BY Memories DEF Turns, Turned, Recorded
<1>2. hw[c] = "on" /\ cmd[c] \notin Offs => hw'[c] = "on"
  BY <1>1, OwnCommands
<1>3. ASSUME TurnedOn(task[c])
      PROVE  /\ mon'[c] = "on" => hw'[c] = "on"
             /\ hw'[c] = "on" => cmd'[c] \notin Offs
             /\ pc' = "seq" /\ snap'[c] = "on" => hw'[c] = "on"
  <2>1. /\ mon[c] = "on" => hw[c] = "on"
        /\ hw[c] = "on" => cmd[c] \notin Offs
        /\ pc = "seq" /\ snap[c] = "on" => hw[c] = "on"
    BY <1>1, <1>3 DEF Back
  <2>2. c \in wait => powerAction \notin Offs
    <3>1. c \in wait => task[c].op = OpFor(powerAction)
      BY DEF Account, Sent
    <3> QED BY <1>3, <3>1 DEF OpFor, TurnedOn, Offs
  <2>3. hw'[c] = "on" => cmd'[c] \notin Offs
    <3>1. hw'[c] = "on" => cmd[c] \notin Offs
      BY <1>1, <2>1, OwnCommands DEF Offs
    <3> QED BY <2>2, <3>1, Commands DEF Offs
  <2>4. mon'[c] = "on" => hw'[c] = "on"
    BY <1>2, <2>1, Seen
  <2>5. pc' = "seq" /\ snap'[c] = "on" => hw'[c] = "on"
    BY <1>2, <2>1, SeqStarts
  <2> QED BY <2>3, <2>4, <2>5
<1>4. ASSUME unsaved = {}, Build(c), task[c].st # "failed", powerAction = "on", ~TurnedOn(task[c])
      PROVE  hw'[c] # "on" /\ mon'[c] # "on" /\ pc' # "seq"
  <2>1. pc = "build" /\ c \in InTier(tier) /\ tier \in 1..14
    BY <1>4 DEF Build, Account, Shape, Loop
  <2>2. ~DownDue(c)
    BY <1>4, <2>1, DownBehind DEF Loop
  <2>3. count[c] <= 1
    BY <1>4, <2>2 DEF Account, Counted, Owed
  <2>4. c \in seqMap["on"]
    BY <1>4, <2>1 DEF InTier, powerAction
  <2> QED BY <1>1, <1>4, <2>1, <2>3, <2>4 DEF Between, Build, world
<1>5. ASSUME TurnedOn(task[c])'
      PROVE  /\ mon'[c] = "on" => hw'[c] = "on"
             /\ hw'[c] = "on" => cmd'[c] \notin Offs
             /\ pc' = "seq" /\ snap'[c] = "on" => hw'[c] = "on"
  BY <1>3, <1>4, <1>5, TurnedOnSource
<1>6. ASSUME \E s \in {task[c], db[c]} : s.st = "succeeded"
      PROVE  hw'[c] = "on" /\ cmd'[c] \notin Offs
  <2>1. hw[c] = "on" /\ cmd[c] \notin Offs
    BY <1>1, <1>6 DEF Back
  <2>2. c \notin wait
    BY <1>1, <1>6 DEF Kept
  <2> QED BY <1>2, <2>1, <2>2, Commands DEF Offs
<1>7. ASSUME mon[c] = "on" \/ (pc = "seq" /\ snap[c] = "on"),
             TurnedOn(task[c]) \/ ByItself(c), UNCHANGED world
      PROVE  hw'[c] = "on" /\ cmd'[c] \notin Offs
  BY <1>1, <1>7 DEF Back, Alone, world
<1>8. ASSUME NEW t \in {task'[c], db'[c]}, t.st = "succeeded"
      PROVE  hw'[c] = "on" /\ cmd'[c] \notin Offs
  <2> SUFFICES ASSUME \A s \in {task[c], db[c]} : s.st # "succeeded"
               PROVE  hw'[c] = "on" /\ cmd'[c] \notin Offs
    BY <1>6
  <2>1. ~Carried(c)
    BY <1>8 DEF Carried
  <2>2. CASE SequenceComp(c)
    <3>1. t = Sequenced(c).task /\ IsOpen(c) /\ pc = "seq"
      BY <1>8, <2>2, SequenceSource
    <3>2. snap[c] = "on" /\ (TurnedOn(task[c]) \/ ByItself(c))
      BY <1>1, <1>8, <3>1, CycleSequenced
    <3>3. UNCHANGED world
      BY <2>2 DEF SequenceComp
    <3> QED BY <1>7, <3>1, <3>2, <3>3
  <2>3. CASE unsaved = {} /\ (Build(c) \/ Response(c))
    BY <1>8, <2>1, <2>3, BuildSource, ResponseSource
  <2>4. CASE unsaved = {} /\ Confirm(c)
    <3>1. mon[c] = "on" /\ (TurnedOn(task[c]) \/ ByItself(c))
      BY <1>8, <2>4, LastConfirm
    <3>2. UNCHANGED world
      BY <2>4 DEF Confirm
    <3> QED BY <1>7, <3>1, <3>2
  <2> QED BY <2>1, <2>2, <2>3, <2>4, Sources
<1> QED BY <1>5, <1>8

LEMMA NextTurns ==
    ASSUME ~NoWait, Ground, Account', [Next]_vars PROVE Turns'
  BY NextSighted, NextPaired, NextAlone, NextBetween, NextBack, NextReturned DEF Turns, Turned

LEMMA InitGround ==
    ASSUME Tiered, Init PROVE Ground
<1>1. Supplied
  BY DEF Init, Supplied
<1> QED BY <1>1, InitAccount, InitPlaced, InitDirects, InitRestarts, InitRecorded, InitTurns
        DEF Ground

LEMMA NextGround ==
    ASSUME ~NoWait, Wired, Ground, [Next]_vars PROVE Ground'
<1> USE DEF Ground
<1>1. Account' /\ Placed' /\ Directs'
  BY NextAccount, NextPlaced, NextDirects
<1>2. Restarts'
  <2>1. Restarting' <=> Restarting
    BY Fixed DEF Restarting
  <2>2. Restarting => \A c \in Comp : Restarted(c)'
    BY NextConstant, NextOffComesFirst, NextLeftAlone, NextAnswers DEF Restarts, Restarted
  <2> QED BY <2>1, <2>2 DEF Restarts
<1>3. Supplied' /\ Recorded' /\ Turns'
  BY <1>1, NextSupplied, NextRecorded, NextTurns
<1> QED BY <1>1, <1>2, <1>3

-----------------------------------------------------------------------------
(* What feeds a component is dealt with first when things are turned on *)

\* What feeds c is turned on before c is, and turned off after it.
LEMMA FeedTiers ==
    ASSUME Wired, NEW c \in Comp, NEW p \in Mains(c), NEW k \in 1..14, NEW j \in 1..14,
           NEW a \in Action, NEW b \in Action, Serves(k, c, a), Serves(j, p, b)
    PROVE  /\ a = "on" => j < k
           /\ a \in Offs /\ b \in Offs /\ Type[c] = "Node" => k < j
<1>1. /\ k = 1 \/ k = 2 \/ k = 3 \/ k = 4 \/ k = 5 \/ k = 6 \/ k = 7 \/ k = 8 \/ k = 9
         \/ k = 10 \/ k = 11 \/ k = 12 \/ k = 13 \/ k = 14
      /\ j = 1 \/ j = 2 \/ j = 3 \/ j = 4 \/ j = 5 \/ j = 6 \/ j = 7 \/ j = 8 \/ j = 9
         \/ j = 10 \/ j = 11 \/ j = 12 \/ j = 13 \/ j = 14
  OBVIOUS
<1>2. \/ /\ Type[p] = "CabinetPDUPowerConnector"
         /\ Type[c] # "CabinetPDUPowerConnector"
      \/ /\ Type[p] \in Module
         /\ Type[c] \notin Module \cup {"CabinetPDUPowerConnector", "Chassis"}
  BY DEF Wired
<1>3. /\ a = "on" => \/ k = 11 /\ Type[c] = "CabinetPDUPowerConnector"
                     \/ k = 12 /\ Type[c] = "Chassis"
                     \/ k = 13 /\ Type[c] \in Module
                     \/ k = 14
      /\ a \in Offs /\ Type[c] = "Node" => k \in {1, 2}
  BY <1>1, Table DEF Serves, Offs, Module
<1>4. /\ b = "on" => \/ j = 11 /\ Type[p] = "CabinetPDUPowerConnector"
                     \/ j = 12 /\ Type[p] = "Chassis"
                     \/ j = 13 /\ Type[p] \in Module
                     \/ j = 14 /\ Type[p] = "Node"
      /\ b # "on" => j <= 10
      /\ b \in Offs => \/ j >= 3
                       \/ Type[p] = "Node"
  BY <1>1, Table DEF Serves, Offs, Module
<1> QED BY <1>2, <1>3, <1>4 DEF Module

\* Who has nothing to do any more has a result, once that is stored.
LEMMA NothingDue ==
    ASSUME Account, NEW p \in Comp, pc \in Loop, unsaved = {}, \A a \in Action : ~Due(p, a)
    PROVE  Closed(p)
<1>1. task[p].st # "open"
  <2> SUFFICES ASSUME IsOpen(p) PROVE FALSE
    BY DEF IsOpen
  <2>1. ~DownDue(p) /\ ~OnDue(p)
    BY DEF DownDue, OnDue, Action
  <2>2. count[p] >= 1
    BY DEF Account, Counted, Unplanned, Loop
  <2>3. count[p] = Owed(p)
    BY DEF Account, Counted, IsOpen
  <2> QED BY <2>1, <2>2, <2>3 DEF Owed
<1>2. db[p] = task[p]
  BY DEF Account, Stored
<1> QED BY <1>1, <1>2 DEF Closed

\* When c is told to turn on, all that feeds it is closed.
FeedFirst(c) == TurnedOn(task[c]) => \A p \in Mains(c) : Closed(p)

LEMMA ClosedFirst ==
    ASSUME Wired, Account, NEW c \in Comp, Build(c), unsaved = {}, powerAction = "on",
           NEW p \in Mains(c)
    PROVE  Closed(p)
<1>1. pc \in Loop /\ tier \in 1..14 /\ Serves(tier, c, "on") /\ p \in Comp /\ "on" \in Action
  BY DEF Build, Account, Shape, Loop, InTier, Serves, powerAction, Mains, Action
<1>2. ASSUME NEW a \in Action PROVE ~Due(p, a)
  <2>1. Type[p] \notin Switch \cup Controller
    BY DEF Wired, Switch, Controller, Module
  <2>2. PICK k \in 1..14 : Serves(k, p, a)
    BY <1>1, <2>1, HasPlace
  <2>3. k < tier
    BY <1>1, <2>2, FeedTiers
  <2> QED BY <2>2, <2>3 DEF Due, Done, Behind
<1> QED BY <1>1, <1>2, NothingDue

LEMMA NextFeedFirst ==
    ASSUME ~NoWait, Wired, Ground, [Next]_vars, NEW c \in Comp, FeedFirst(c)
    PROVE  FeedFirst(c)'
<1> USE DEF Ground
<1> SUFFICES ASSUME TurnedOn(task[c])', NEW p \in Mains(c) PROVE Closed(p)'
  BY DEF FeedFirst, Mains
<1>1. p \in Comp
  BY DEF Mains
<1>2. Closed(p)
  BY TurnedOnSource, ClosedFirst DEF FeedFirst
<1> QED BY <1>1, <1>2, ClosedStays

\* What has been dealt with and is not lost, is on after a power cycle, and is
\* what it was to be in the end otherwise.
LEMMA Dealt ==
    ASSUME Wired, Ground, NEW c \in Comp, NEW p \in Mains(c), Closed(p), ~Lost(p), p \notin blind
    PROVE  /\ Cycling => hw[p] = "on" /\ cmd[p] \notin Offs
           /\ Directed => hw[p] = Aim
<1> USE DEF Ground
<1>1. p \in Comp /\ Mains(p) = {}
  BY DEF Wired, Mains
<1>2. \E t \in {task[p], db[p]} : t.st = "succeeded"
  <2>1. task[p].st \in Status /\ db[p].st \in Status
    BY <1>1 DEF Account, TypeOK, Task
  <2>2. db[p].st # "open" /\ task[p].st # "open"
    BY <1>1 DEF Closed, Recorded, Kept
  <2> QED BY <2>1, <2>2 DEF Lost, Status
<1>3. Cycling => hw[p] = "on" /\ cmd[p] \notin Offs
  BY <1>1, <1>2 DEF Turns, Turned, Back
<1>4. Directed => hw[p] = Aim
  BY <1>1, <1>2 DEF Directs, Aimed
<1> QED BY <1>3, <1>4

LEMMA AllFed ==
    ASSUME NEW c \in Comp, NEW h, \A p \in Mains(c) : h[p] = "on" PROVE Powered(c, h)
<1>1. \A p \in Ancestors[c] : Type[p] \in Module => h[p] = "on"
  BY SeqAssumption DEF Mains
<1>2. \A i \in DOMAIN Supplies[c] : Supplies[c][i] \in Comp => h[Supplies[c][i]] = "on"
  BY DEF Mains
<1>3. Supplies[c] # <<>> => DOMAIN Supplies[c] # {}
  BY HasSupply
<1>4. \/ Supplies[c] = <<>>
      \/ \E i \in DOMAIN Supplies[c] : Supplies[c][i] \in Comp => h[Supplies[c][i]] = "on"
  BY <1>2, <1>3
<1> QED BY <1>1, <1>4 DEF Powered

LEMMA MainsFeed ==
    ASSUME NEW c \in Comp, NEW p \in Mains(c) PROVE p \in Feeders(c)
  BY DEF Mains, Feeders

\* A component is told to turn on when what feeds it is on: the tiers that turn
\* on go from the outlets to the nodes, the table says (transitions.go:1500),
\* and a tier is left only when all of it have their results, or have failed.
THEOREM PowerComesFirst == ~NoWait /\ Tiered /\ Wired => (Spec => []OnHasPower)
<1> SUFFICES ASSUME ~NoWait, Tiered, Wired PROVE Spec => []OnHasPower
  OBVIOUS
<1> DEFINE I == Ground /\ \A c \in Comp : FeedFirst(c)
<1>1. Init => I
  <2>1. ASSUME Init, NEW c \in Comp PROVE FeedFirst(c)
    BY <2>1 DEF Init, FeedFirst, TurnedOn, NewTask
  <2> QED BY <2>1, InitGround
<1>2. I /\ [Next]_vars => I'
  <2> SUFFICES ASSUME I, [Next]_vars PROVE I'
    OBVIOUS
  <2>1. Ground'
    BY NextGround
  <2>2. \A c \in Comp : FeedFirst(c)'
    BY NextFeedFirst
  <2> QED BY <2>1, <2>2
<1>3. I => OnHasPower
  <2> SUFFICES ASSUME I, NEW c \in Comp, cmd[c] = "on", ~FeedLost(c) PROVE Powered(c, hw)
    BY DEF OnHasPower
  <2> USE DEF Ground
  <2>1. TurnedOn(task[c]) /\ op \in Operation
    BY DEF Turns, Turned, Sighted, Account, TypeOK
  <2>2. ASSUME NEW p \in Mains(c) PROVE hw[p] = "on"
    <3>1. Closed(p)
      BY <2>1 DEF FeedFirst
    <3>2. ~Lost(p) /\ p \notin blind
      BY MainsFeed DEF FeedLost, GivenUp, Lost
    <3>3. CASE Cycling
      BY <3>1, <3>2, <3>3, Dealt
    <3>4. CASE Directed
      <4>1. op = "On"
        BY <2>1, <3>4 DEF Turns, Turned, Sighted, Directed, TurnedOn
      <4> QED BY <3>1, <3>2, <3>4, <4>1, Dealt DEF Aim
    <3> QED BY <2>1, <3>3, <3>4 DEF Operation, Cycling, Directed
  <2> QED BY <2>2, AllFed
<1> QED BY <1>1, <1>2, <1>3, PTL DEF Spec

-----------------------------------------------------------------------------
(* What feeds a node is dealt with last when things are turned off *)

\* p is going to be turned off by a command that is on its way.
OffGoing(p) == cmd[p] \in Offs \/ (p \in out /\ powerAction \in Offs)

\* Why c may lose its power to p: one of them was given up or not seen, or c is
\* one that restarts by itself, whose supplies are not looked at.
Exempt(c, p) == \/ Lost(c) \/ Lost(p) \/ c \in blind \/ p \in blind
                \/ ByItself(c)

\* Otherwise a node is off, and will be until its supplies are back.
Spared(c) == Type[c] = "Node" => \A p \in Mains(c) :
                OffGoing(p) => Exempt(c, p) \/ (hw[c] = "off" /\ ~TurnedOn(task[c]))

LEMMA ExemptStays ==
    ASSUME ~NoWait, Ground, [Next]_vars, NEW c \in Comp, NEW p \in Comp, Exempt(c, p)
    PROVE  Exempt(c, p)'
<1> USE DEF Ground
<1>1. ASSUME NEW d \in Comp, Lost(d) PROVE Lost(d)'
  <2>1. Closed(d)
    BY <1>1 DEF Lost, Closed
  <2> QED BY <1>1, <2>1, ClosedStays
<1>2. blind \subseteq blind'
  BY Memories
<1> QED BY <1>1, <1>2, SameKind DEF Exempt

\* Only Build prepares a command, and the tier stays until it is answered.
LEMMA Sendings ==
    ASSUME Account, Account', [Next]_vars, NEW d \in out'
    PROVE  Build(d) \/ (d \in out /\ tier' = tier)
<1>1. d \in wait'
  BY DEF Account, TypeOK
<1>2. d \in out \/ Build(d)
  <2>1. ASSUME NEW c \in Comp, Build(c) PROVE d \in out \/ Build(d)
    BY <2>1 DEF Build
  <2>2. ASSUME NEW c \in Comp, Work(c), ~Build(c) PROVE out' \subseteq out
    BY <2>2 DEF Work, SequenceComp, Walk, ReserveFailed, KeyExpired, Response, Confirm, Late
  <2>3. CASE \/ Save \/ Start \/ ReserveError \/ Reserved \/ EnterTier \/ KeysChecked \/ Launch
             \/ Answered \/ RoundDone \/ Deadline \/ LateDone \/ Crash \/ UNCHANGED vars
    <3>1. out' \subseteq out
      BY <2>3 DEF Save, Start, ReserveError, Reserved, EnterTier, KeysChecked, Launch,
                  Answered, RoundDone, Deadline, LateDone, Crash, vars, worker
    <3> QED BY <3>1
  <2>4. ASSUME NEW c \in Comp, Execute(c) \/ Monitor(c) \/ Lose(c) PROVE out' \subseteq out
    BY <2>4 DEF Execute, Monitor, Lose, worker
  <2> QED BY <2>1, <2>2, <2>3, <2>4 DEF Next, WorkerStep
<1> QED BY <1>1, <1>2, Waits

\* A command to turn off is prepared in the tier of its component.
LEMMA NewOffGoing ==
    ASSUME ~NoWait, Account, Account', [Next]_vars, NEW p \in Comp, ~OffGoing(p), OffGoing(p)'
    PROVE  /\ unsaved = {} /\ Build(p) /\ p \in out' /\ UNCHANGED world
           /\ powerAction \in Offs /\ pc = "build" /\ tier \in 1..14
           /\ p \in InTier(tier) /\ p \in Busy /\ task[p].st # "failed"
<1>1. tier' = tier => powerAction' = powerAction
  BY DEF powerAction
<1>2. cmd'[p] \notin Offs
  <2>1. CASE cmd'[p] = cmd[p] \/ cmd'[p] = "none"
    BY <2>1 DEF OffGoing, Offs
  <2>2. CASE cmd'[p] = powerAction /\ p \in out
    BY <2>2 DEF OffGoing
  <2> QED BY <2>1, <2>2, Commands
<1>3. p \in out' /\ powerAction' \in Offs
  BY <1>2 DEF OffGoing
<1>4. Build(p) /\ ~(p \in out /\ tier' = tier)
  BY <1>1, <1>3, Sendings DEF OffGoing
<1>5. pc = "build" /\ p \in todo /\ tier' = tier /\ UNCHANGED world
  BY <1>4 DEF Build
<1>6. p \in InTier(tier) /\ tier \in 1..14 /\ p \in Busy
  BY <1>5 DEF Account, Shape, Loop, Busy
<1>7. p \notin out /\ p \in out'
  BY <1>3, <1>4, <1>5
<1>8. task[p].st # "failed"
  BY <1>4, <1>7 DEF Build
<1>9. unsaved = {}
  <2>1. ~Save /\ pc # "seq"
    BY <1>5, <1>7 DEF Save
  <2>2. ~Crash
    BY <1>7 DEF Crash
  <2>3. ~(\E c \in Comp : Execute(c) \/ Monitor(c) \/ Lose(c)) /\ ~UNCHANGED vars
    BY <1>7 DEF Execute, Monitor, Lose, vars, worker
  <2> QED BY <2>1, <2>2, <2>3 DEF Next, WorkerStep
<1> QED BY <1>1, <1>3, <1>4, <1>5, <1>6, <1>7, <1>8, <1>9

\* A node is done with being turned off when that comes to what feeds it.
LEMMA NodesDownFirst ==
    ASSUME Wired, Ground, NEW c \in Comp, Type[c] = "Node", NEW p \in Mains(c), ~ByItself(c),
           pc \in Loop, p \in InTier(tier), powerAction \in Offs
    PROVE  ~DownDue(c)
<1> USE DEF Ground
<1>1. tier \in 1..14 /\ Serves(tier, p, powerAction) /\ powerAction \in Action
  BY DEF Account, Shape, InTier, Serves, powerAction, Offs, Action
<1>2. ASSUME NEW a \in Offs PROVE ~Due(c, a)
  <2>1. a \in Action
    BY DEF Offs, Action
  <2>2. PICK k \in 1..14 : Serves(k, c, a)
    BY <2>1, HasPlace DEF Switch, Controller
  <2>3. k < tier
    BY <1>1, <2>1, <2>2, FeedTiers
  <2> QED BY <2>2, <2>3 DEF Due, Done, Behind
<1>3. ~Due(c, "gracefulrestart")
  <2> SUFFICES ASSUME c \in seqMap["gracefulrestart"] PROVE FALSE
    BY DEF Due
  <2>1. op = "SoftRestart"
    BY DEF Account, Planned
  <2>2. LeftAlone(c)
    BY <2>1 DEF Restarts, Restarting, Restarted
  <2> QED BY <2>1, <2>2 DEF LeftAlone, ByItself
<1> QED BY <1>2, <1>3 DEF DownDue, Action, Offs

\* It is off then, and was not told to turn on.
LEMMA OffBefore ==
    ASSUME ~NoWait, Wired, Ground, Account', [Next]_vars, NEW c \in Comp, Type[c] = "Node",
           FeedFirst(c), NEW p \in Mains(c), ~Exempt(c, p), ~OffGoing(p), OffGoing(p)'
    PROVE  hw'[c] = "off" /\ ~TurnedOn(task[c])'
<1> USE DEF Ground
<1>1. p \in Comp /\ Mains(p) = {} /\ Account
  BY DEF Wired, Mains
<1>2. /\ unsaved = {} /\ Build(p) /\ p \in out' /\ UNCHANGED world
      /\ powerAction \in Offs /\ pc = "build" /\ tier \in 1..14
      /\ p \in InTier(tier) /\ p \in Busy /\ task[p].st # "failed"
  BY <1>1, NewOffGoing
<1>3. pc \in Loop /\ powerAction # "on"
  BY <1>2 DEF Loop, Offs
<1>4. db[c] = task[c] /\ db[p] = task[p]
  BY <1>1, <1>2 DEF Account, Stored
<1>5. ~Closed(p)
  <2>1. task[p].st \in Status
    BY <1>1 DEF Account, TypeOK, Task
  <2>2. task[p].st \notin {"succeeded", "unsupported"}
    BY <1>1, <1>2, <1>3, NotDone
  <2> QED BY <1>2, <1>4, <2>1, <2>2 DEF Closed, Status
<1>6. ~TurnedOn(task[c]) /\ ~TurnedOn(task[c])'
  BY <1>3, <1>5, TurnedOnSource DEF FeedFirst
<1>7. c \notin blind /\ ~ByItself(c) /\ ~Lost(c)
  BY DEF Exempt
<1>8. ~DownDue(c)
  BY <1>2, <1>3, <1>7, NodesDownFirst
<1>9. task[c].st \notin {"failed", "unsupported"}
  BY <1>4, <1>7 DEF Lost
<1>10. op \in Operation /\ task[c].st \in Status
  BY DEF Account, TypeOK, Task
<1>11. CASE Directed
  <2>1. powerAction \in Means
    <3>1. p \in seqMap[powerAction]
      BY <1>2 DEF InTier, powerAction
    <3>2. powerAction \in Action
      BY <1>2 DEF Offs, Action
    <3> QED BY <1>1, <1>11, <3>1, <3>2 DEF Directs, Aimed
  <2>2. Aim = "off" /\ "on" \notin Means
    BY <1>2, <2>1 DEF Means, Aim, Offs
  <2>3. c \notin seqMap["on"]
    BY <1>11, <2>2 DEF Directs, Aimed, Action
  <2>4. Closed(c)
    <3>1. \A a \in Action : ~Due(c, a)
      BY <1>8, <2>3 DEF DownDue, Due
    <3> QED BY <1>2, <1>3, <3>1, NothingDue
  <2>5. task[c].st = "succeeded"
    BY <1>4, <1>9, <1>10, <2>4 DEF Closed, Status
  <2>6. hw[c] = "off"
    BY <1>11, <2>2, <2>5 DEF Directs, Aimed
  <2> QED BY <1>2, <1>6, <2>6 DEF world
<1>12. CASE Cycling
  <2>1. task[c].st # "succeeded"
    BY <1>6, <1>7, <1>12 DEF Turns, Turned, Returned
  <2>2. OnDue(c)
    <3> SUFFICES ASSUME ~OnDue(c) PROVE FALSE
      OBVIOUS
    <3>1. \A a \in Action : ~Due(c, a)
      BY <1>8 DEF DownDue, OnDue
    <3>2. Closed(c)
      BY <1>2, <1>3, <3>1, NothingDue
    <3> QED BY <1>4, <1>9, <1>10, <2>1, <3>2 DEF Closed, Status
  <2>3. c \in seqMap["on"] /\ count[c] <= 1
    <3>1. count[c] = Owed(c)
      BY <1>9 DEF Account, Counted
    <3> QED BY <1>8, <2>2, <3>1 DEF OnDue, Due, Owed
  <2>4. hw[c] = "off"
    BY <1>6, <1>7, <1>12, <2>3 DEF Turns, Turned, Between
  <2> QED BY <1>2, <1>6, <2>4 DEF world
<1> QED BY <1>10, <1>11, <1>12 DEF Operation, Directed, Cycling

\* It stays off: it is turned on only when what feeds it is not going to be
\* turned off any more.
LEMMA OffUntilFed ==
    ASSUME ~NoWait, Wired, Ground, Account', [Next]_vars, NEW c \in Comp, FeedFirst(c),
           NEW p \in Mains(c), ~Exempt(c, p), OffGoing(p), OffGoing(p)',
           hw[c] = "off", ~TurnedOn(task[c])
    PROVE  hw'[c] = "off" /\ ~TurnedOn(task[c])'
<1> USE DEF Ground
<1>1. p \in Comp /\ Mains(p) = {} /\ p # c /\ Account /\ op \in Operation
  BY DEF Wired, Mains, Account, TypeOK
<1>2. hw'[c] = "off"
  <2>1. cmd[c] # "on"
    BY DEF Turns, Turned, Sighted
  <2>2. hw'[c] # "on"
    BY <2>1, OwnCommands
  <2> QED BY <2>2 DEF Account, TypeOK
<1>3. ASSUME unsaved = {}, Build(c), powerAction = "on" PROVE FALSE
  <2>1. Closed(p)
    BY <1>3, ClosedFirst
  <2>2. ~Lost(p) /\ p \notin blind
    BY DEF Exempt
  <2>3. powerAction' = "on" /\ UNCHANGED world
    BY <1>3 DEF Build, powerAction
  <2>4. cmd[p] \in Offs
    <3>1. cmd'[p] \in Offs
      BY <2>3 DEF OffGoing, Offs
    <3> QED BY <2>3, <3>1 DEF world
  <2>5. ~Cycling
    BY <2>1, <2>2, <2>4, Dealt
  <2>6. Directed
    BY <1>1, <2>5 DEF Operation, Cycling, Directed
  <2>7. c \in seqMap["on"]
    BY <1>3 DEF Build, Account, Shape, Loop, InTier, powerAction
  <2>8. "on" \in Means
    BY <2>6, <2>7 DEF Directs, Aimed, Action
  <2>9. cmd[p] \in Means \cup {"none"}
    BY <1>1, <2>6 DEF Directs, Aimed
  <2> QED BY <2>4, <2>8, <2>9 DEF Means, Offs
<1>4. ~TurnedOn(task[c])'
  BY <1>3, TurnedOnSource
<1> QED BY <1>2, <1>4

LEMMA NextSpared ==
    ASSUME ~NoWait, Wired, Ground, Account', [Next]_vars, NEW c \in Comp, FeedFirst(c), Spared(c)
    PROVE  Spared(c)'
<1> SUFFICES ASSUME Type[c] = "Node", NEW p \in Mains(c), OffGoing(p)', ~Exempt(c, p)'
             PROVE  hw'[c] = "off" /\ ~TurnedOn(task[c])'
  BY DEF Spared, Mains
<1>1. ~Exempt(c, p)
  <2>1. p \in Comp
    BY DEF Mains
  <2> QED BY <2>1, ExemptStays
<1>2. CASE OffGoing(p)
  <2>1. hw[c] = "off" /\ ~TurnedOn(task[c])
    BY <1>1, <1>2 DEF Spared
  <2> QED BY <1>1, <1>2, <2>1, OffUntilFed
<1>3. CASE ~OffGoing(p)
  BY <1>1, <1>3, OffBefore
<1> QED BY <1>2, <1>3

\* Nodes lose their power when what feeds them is turned off.
LEMMA CutBy ==
    ASSUME Account, Supplied, [Next]_vars, NEW c \in cut', c \in Comp, c \notin cut
    PROVE  \E e \in Mains(c) :
              /\ cmd[e] \in Offs /\ TurnOff(e) /\ e \in Comp
              /\ Type[c] = "Node" /\ hw[c] = "on" /\ ~Powered(c, [hw EXCEPT ![e] = "off"])
<1>1. ASSUME NEW e \in Comp, Execute(e)
      PROVE  /\ e \in Mains(c) /\ cmd[e] \in Offs /\ TurnOff(e)
             /\ Type[c] = "Node" /\ hw[c] = "on" /\ ~Powered(c, [hw EXCEPT ![e] = "off"])
  <2>1. cmd[e] \in Offs /\ TurnOff(e)
    <3>1. cmd[e] \in Action
      BY <1>1 DEF Execute, Account, TypeOK
    <3>2. cmd[e] \in {"on", "gracefulrestart"} => cut' = cut
      BY <1>1 DEF Execute
    <3>3. cmd[e] \in Offs
      BY <3>1, <3>2 DEF Action, Offs
    <3> QED BY <1>1, <3>3 DEF Execute, Offs
  <2>2. /\ Type[c] = "Node" /\ c # e /\ hw[c] = "on" /\ hw'[c] # "on"
    <3> DEFINE without == [hw EXCEPT ![e] = "off"]
               lost == {d \in Comp : without[d] = "on" /\ ~Powered(d, without)}
    <3>1. hw \in [Comp -> {"on", "off"}]
      BY DEF Account, TypeOK
    <3>2. /\ hw' = [d \in Comp |-> IF d \in lost THEN "off" ELSE without[d]]
          /\ cut' = cut \cup {d \in lost : Type[d] = "Node"}
      BY <2>1 DEF TurnOff
    <3>3. c \in lost /\ Type[c] = "Node"
      BY <3>2
    <3>4. without[c] = "on"
      BY <3>3
    <3>5. c # e /\ hw[c] = "on"
      BY <3>1, <3>4
    <3>6. hw'[c] = "off"
      BY <3>2, <3>3
    <3> QED BY <3>3, <3>5, <3>6
  <2>3. e \in Mains(c) /\ ~Powered(c, [hw EXCEPT ![e] = "off"])
    BY <2>1, <2>2, CutOff
  <2> QED BY <2>1, <2>2, <2>3
<1>2. \E e \in Comp : Execute(e)
  <2>1. CASE \/ Save \/ Start \/ ReserveError \/ Reserved \/ EnterTier \/ KeysChecked \/ Launch
             \/ Answered \/ RoundDone \/ Deadline \/ LateDone \/ Crash \/ UNCHANGED vars
    <3>1. cut' = cut
      BY <2>1 DEF Save, Start, ReserveError, Reserved, EnterTier, KeysChecked, Launch,
                  Answered, RoundDone, Deadline, LateDone, Crash, vars, world
    <3> QED BY <3>1
  <2>2. ASSUME NEW d \in Comp, Work(d) PROVE cut' = cut
    BY <2>2 DEF Work, SequenceComp, Walk, ReserveFailed, KeyExpired, Build, Response, Confirm,
                Late, world
  <2>3. ASSUME NEW d \in Comp, Monitor(d) \/ Lose(d) PROVE cut' = cut
    BY <2>3 DEF Monitor, Lose
  <2> QED BY <2>1, <2>2, <2>3 DEF Next, WorkerStep
<1> QED BY <1>1, <1>2

\* Why nodes have lost their power.
Excused == \A c \in cut : \E p \in Mains(c) : Exempt(c, p)

LEMMA NextExcused ==
    ASSUME ~NoWait, Wired, Ground, Account', [Next]_vars, \A c \in Comp : Spared(c), Excused
    PROVE  Excused'
<1> USE DEF Ground
<1> SUFFICES ASSUME NEW c \in cut' PROVE \E p \in Mains(c) : Exempt(c, p)'
  BY DEF Excused, Mains
<1>0. c \in Comp /\ Mains(c) \subseteq Comp
  BY DEF Account, TypeOK, Mains
<1>1. ASSUME NEW p \in Mains(c), Exempt(c, p) PROVE Exempt(c, p)'
  BY <1>0, <1>1, ExemptStays
<1>2. CASE c \in cut
  BY <1>1, <1>2 DEF Excused
<1>3. CASE c \notin cut
  <2>1. PICK e \in Mains(c) : cmd[e] \in Offs /\ Type[c] = "Node" /\ hw[c] = "on"
    BY <1>0, <1>3, CutBy
  <2> QED BY <1>0, <1>1, <2>1 DEF Spared, OffGoing
<1> QED BY <1>2, <1>3

\* No operation takes the power from a running node as long as neither the node
\* nor what feeds it has been given up, and both were seen: the node has been
\* shut down, or forced off, when what feeds it is turned off, and is turned on
\* only when no command to turn that off can be pending any more, also when the
\* worker dies in between.  Soft-Restart does not look at what feeds a node that
\* restarts by itself (transitions.go:1431).
THEOREM OnlyGivenUpIsCut == ~NoWait /\ Tiered /\ Wired => (Spec => []CutOnlyFailed)
<1> SUFFICES ASSUME ~NoWait, Tiered, Wired PROVE Spec => []CutOnlyFailed
  OBVIOUS
<1> DEFINE I == /\ Ground /\ \A c \in Comp : FeedFirst(c)
                /\ \A c \in Comp : Spared(c)
                /\ Excused
<1>1. Init => I
  <2>1. ASSUME Init, NEW c \in Comp PROVE FeedFirst(c) /\ Spared(c)
    BY <2>1 DEF Init, FeedFirst, TurnedOn, NewTask, Spared, OffGoing, Mains, Offs
  <2>2. Init => Excused
    BY DEF Init, Excused
  <2> QED BY <2>1, <2>2, InitGround
<1>2. I /\ [Next]_vars => I'
  <2> SUFFICES ASSUME I, [Next]_vars PROVE I'
    OBVIOUS
  <2>1. Ground' /\ Account'
    BY NextGround DEF Ground
  <2>2. \A c \in Comp : FeedFirst(c)'
    BY NextFeedFirst
  <2>3. \A c \in Comp : Spared(c)'
    BY <2>1, NextSpared
  <2>4. Excused'
    BY <2>1, NextExcused
  <2> QED BY <2>1, <2>2, <2>3, <2>4
<1>3. I => CutOnlyFailed
  <2> SUFFICES ASSUME I, NEW c \in cut
               PROVE  \/ GivenUp(c) \/ c \in blind \/ FeedLost(c)
                      \/ op = "SoftRestart" /\ Restartable(c)
    BY DEF CutOnlyFailed
  <2>1. c \in Comp
    BY DEF Ground, Account, TypeOK
  <2>2. PICK p \in Mains(c) : Exempt(c, p)
    BY DEF Excused
  <2> QED BY <2>1, <2>2, MainsFeed DEF Exempt, ByItself, Lost, GivenUp, FeedLost
<1> QED BY <1>1, <1>2, <1>3, PTL DEF Spec

-----------------------------------------------------------------------------
(* Soft-Off *)

\* The modules of nodes are compute modules: those of routers hold controllers.
Moduled == \A c \in Comp : Type[c] = "Node" =>
              \A p \in Ancestors[c] : Type[p] # "RouterModule"

\* Soft-Off does not use force.
Forceless(c) == op = "SoftOff" => c \notin seqMap["forceoff"] /\ task[c].op # "ForceOff"

Gentle == \A c \in Comp : Forceless(c)

LEMMA NextForceless ==
    ASSUME ~NoWait, Ground, [Next]_vars, NEW c \in Comp, Forceless(c) PROVE Forceless(c)'
<1> USE DEF Ground
<1> SUFFICES ASSUME op' = "SoftOff"
             PROVE  c \notin seqMap'["forceoff"] /\ task'[c].op # "ForceOff"
  BY DEF Forceless
<1>1. op = "SoftOff" /\ c \notin seqMap["forceoff"] /\ task[c].op # "ForceOff"
  BY Fixed DEF Forceless
<1>2. c \notin seqMap'["forceoff"]
  <2> SUFFICES ASSUME SequenceComp(c), "forceoff" \in Sequenced(c).into PROVE FALSE
    BY <1>1, Plans DEF Escalated, Action
  <2>1. \/ Sequenced(c) = Finished(c, "unsupported")
        \/ Sequenced(c) = Finished(c, "succeeded")
        \/ Sequenced(c) = PutInto(c, {"gracefulshutdown"})
    BY <1>1 DEF Sequenced, Unless
  <2>2. Sequenced(c).into \in {{}, {"gracefulshutdown"}}
    BY <2>1 DEF Finished, PutInto
  <2> QED BY <2>2
<1>3. task'[c].op # "ForceOff"
  <2>1. CASE Carried(c)
    <3>1. db[c].op = task[c].op
      BY DEF Recorded, Kept
    <3> QED BY <1>1, <2>1, <3>1 DEF Carried
  <2>2. CASE SequenceComp(c)
    <3>1. IsOpen(c) /\ task'[c] = Sequenced(c).task /\ Turned(c) /\ Kept(c)
      BY <2>2, SequenceSource DEF Turns, Recorded
    <3>2. Sequenced(c).task.op = task[c].op
      BY <2>2, <3>1, SequenceSource, CycleSequenced
    <3> QED BY <1>1, <3>1, <3>2
  <2>3. CASE unsaved = {} /\ Build(c)
    <3>1. CASE /\ task'[c].op = OpFor(powerAction) /\ powerAction \in Action
               /\ c \in seqMap[powerAction]
      <4>1. powerAction # "forceoff"
        BY <1>1, <3>1
      <4> QED BY <3>1, <4>1 DEF OpFor, Action
    <3> QED BY <2>1, <2>3, <3>1, BuildSource
  <2>4. CASE unsaved = {} /\ (Response(c) \/ Confirm(c))
    BY <1>1, <2>1, <2>4, ResponseSource, ConfirmSource
  <2> QED BY <2>1, <2>2, <2>3, <2>4, Sources
<1> QED BY <1>2, <1>3

\* All its tiers shut down.
LEMMA ShutsDown ==
    ASSUME Ground, Gentle, op = "SoftOff"
    PROVE  /\ \A c \in Comp : \A a \in Action : c \in seqMap[a] => a = "gracefulshutdown"
           /\ \A c \in Comp : cmd[c] # "on"
           /\ pc \in Loop => powerAction = "gracefulshutdown"
           /\ \A c \in Comp : ReservedFor(c) = "gracefulshutdown"
<1> USE DEF Ground
<1>1. Directed /\ Means = {"gracefulshutdown", "forceoff"}
  BY DEF Directed, Means
<1>2. ASSUME NEW c \in Comp, NEW a \in Action, c \in seqMap[a] PROVE a = "gracefulshutdown"
  BY <1>1, <1>2 DEF Directs, Aimed, Gentle, Forceless
<1>3. ASSUME NEW c \in Comp PROVE cmd[c] # "on"
  BY <1>1 DEF Directs, Aimed
<1>4. ASSUME pc \in Loop PROVE powerAction = "gracefulshutdown"
  <2>1. tier \in 1..14 /\ InTier(tier) # {}
    BY <1>4 DEF Account, Shape
  <2>2. PICK c : c \in InTier(tier)
    BY <2>1
  <2>3. powerAction \in Action /\ c \in seqMap[powerAction]
    BY <2>1, <2>2, TierOrder DEF InTier, powerAction
  <2>4. c \in Comp
    BY <2>3 DEF Account, TypeOK
  <2> QED BY <1>2, <2>3, <2>4
<1>5. ASSUME NEW c \in Comp PROVE ReservedFor(c) = "gracefulshutdown"
  <2>1. task[c].op \in {"SoftOff", "Off"}
    <3>1. task[c].op \notin {"On", "ForceOff"}
      BY DEF Turns, Turned, Sighted, Gentle, Forceless
    <3>2. task[c].op \in {"SoftOff", "On", "Off", "ForceOff"}
      BY DEF Account, Traced
    <3> QED BY <3>1, <3>2
  <2> QED BY <2>1 DEF ReservedFor
<1> QED BY <1>2, <1>3, <1>4, <1>5

-----------------------------------------------------------------------------
(* Components that have been given up and left alone *)

\* p has been given up, and nothing is going to turn it off.
Idle(p) == Lost(p) /\ ~OffGoing(p)

LEMMA IdleStays ==
    ASSUME ~NoWait, Ground, Account', [Next]_vars, NEW p \in Comp, Idle(p)
    PROVE  /\ Idle(p)'
           /\ Mains(p) = {} /\ hw[p] = "on" => hw'[p] = "on"
<1> USE DEF Ground
<1>1. Lost(p) /\ Closed(p) /\ ~OffGoing(p)
  BY DEF Idle, Lost, Closed
<1>2. Lost(p)'
  BY <1>1, ClosedStays
<1>3. ~OffGoing(p)'
  <2> SUFFICES ASSUME OffGoing(p)' PROVE FALSE
    OBVIOUS
  <2>1. pc = "build" /\ p \in InTier(tier) /\ p \in Busy /\ task[p].st # "failed"
    BY <1>1, NewOffGoing
  <2>2. task[p].st # "unsupported"
    BY <2>1, NotDone DEF Loop
  <2> QED BY <1>1, <2>1, <2>2 DEF Lost
<1>4. Mains(p) = {} /\ hw[p] = "on" => hw'[p] = "on"
  BY <1>1, OwnCommands DEF OffGoing
<1> QED BY <1>2, <1>3, <1>4 DEF Idle

\* The i-th supply of c will not be turned off.
Steady(c, i) == Supplies[c][i] \in Comp => Idle(Supplies[c][i]) /\ hw[Supplies[c][i]] = "on"

\* c is off, or its module and one of its supplies will not be turned off.
Protected(c) ==
    \/ hw[c] = "off"
    \/ /\ \A p \in Ancestors[c] : Type[p] \in Module => Idle(p)
       /\ Supplies[c] = <<>> \/ \E i \in DOMAIN Supplies[c] : Steady(c, i)

LEMMA ProtectedStays ==
    ASSUME ~NoWait, Wired, Ground, Gentle, Account', [Next]_vars, op = "SoftOff",
           NEW c \in Comp, Protected(c)
    PROVE  Protected(c)'
<1> USE DEF Ground
<1>1. CASE hw[c] = "off"
  <2>1. cmd[c] # "on"
    BY ShutsDown
  <2>2. hw'[c] # "on"
    BY <1>1, <2>1, OwnCommands
  <2>3. hw'[c] = "off"
    BY <2>2 DEF Account, TypeOK
  <2> QED BY <2>3 DEF Protected
<1>2. CASE hw[c] # "off"
  <2>1. ASSUME NEW p \in Ancestors[c], Type[p] \in Module PROVE Idle(p)'
    <3>1. p \in Comp /\ Idle(p)
      BY <1>2, <2>1, SeqAssumption DEF Protected
    <3> QED BY <3>1, IdleStays
  <2>2. ASSUME NEW i \in DOMAIN Supplies[c], Steady(c, i) PROVE Steady(c, i)'
    <3> SUFFICES ASSUME Supplies[c][i] \in Comp
                 PROVE  Idle(Supplies[c][i])' /\ hw'[Supplies[c][i]] = "on"
      BY DEF Steady
    <3>1. PICK p \in Comp : p = Supplies[c][i]
      OBVIOUS
    <3>2. p \in Mains(c)
      BY <3>1 DEF Mains
    <3>3. Mains(p) = {} /\ Idle(p) /\ hw[p] = "on"
      BY <2>2, <3>1, <3>2 DEF Wired, Steady
    <3>4. Idle(p)' /\ hw'[p] = "on"
      BY <3>3, IdleStays
    <3> QED BY <3>1, <3>4
  <2>3. Supplies[c] = <<>> \/ \E i \in DOMAIN Supplies[c] : Steady(c, i)'
    BY <1>2, <2>2 DEF Protected
  <2> QED BY <2>1, <2>3 DEF Protected
<1> QED BY <1>1, <1>2

\* What feeds c has not been told anything yet, and what was seen on is on.
Untold(c) == \A p \in Mains(c) : /\ ~OffGoing(p)
                                 /\ mon[p] = "on" \/ snap[p] = "on" => hw[p] = "on"

LEMMA UntoldStays ==
    ASSUME ~NoWait, Wired, Ground, Gentle, Account', [Next]_vars, op = "SoftOff",
           NEW c \in Comp, Type[c] = "Node", ~Closed(c), Untold(c)
    PROVE  Untold(c)'
<1> USE DEF Ground
<1> SUFFICES ASSUME NEW p \in Mains(c)
             PROVE  /\ ~OffGoing(p)'
                    /\ mon'[p] = "on" \/ snap'[p] = "on" => hw'[p] = "on"
  BY DEF Untold, Mains
<1>1. p \in Comp /\ Mains(p) = {}
  BY DEF Wired, Mains
<1>2. ~OffGoing(p) /\ (mon[p] = "on" \/ snap[p] = "on" => hw[p] = "on")
  BY DEF Untold
<1>3. ~OffGoing(p)'
  <2> SUFFICES ASSUME OffGoing(p)' PROVE FALSE
    OBVIOUS
  <2>1. pc \in Loop /\ p \in InTier(tier) /\ powerAction \in Offs /\ unsaved = {}
    BY <1>1, <1>2, NewOffGoing DEF Loop
  <2>2. ~ByItself(c)
    BY DEF ByItself
  <2>3. ~DownDue(c)
    BY <2>1, <2>2, NodesDownFirst
  <2>4. c \notin seqMap["on"]
    BY ShutsDown DEF Action
  <2>5. \A a \in Action : ~Due(c, a)
    BY <2>3, <2>4 DEF DownDue, Due
  <2> QED BY <2>1, <2>5, NothingDue
<1>4. hw[p] = "on" => hw'[p] = "on"
  BY <1>1, <1>2, OwnCommands DEF OffGoing
<1>5. mon'[p] = "on" \/ snap'[p] = "on" => hw'[p] = "on"
  BY <1>1, <1>2, <1>4, Seen
<1> QED BY <1>3, <1>5

-----------------------------------------------------------------------------
(* What fails with a node *)

\* Some of the supplies of c: there is a last one.
LEMMA LastOne ==
    ASSUME NEW c \in Comp, NEW S, S \subseteq DOMAIN Supplies[c], S # {}
    PROVE  \E j \in S : \A k \in S : k <= j
<1>1. PICK n \in Nat : DOMAIN Supplies[c] = 1..n
  <2>1. PICK T : Supplies[c] \in Seq(T)
    BY SeqAssumption
  <2> QED BY <2>1
<1> DEFINE B == {b \in Nat : \A k \in S : k <= b}
<1>2. n \in B
  BY <1>1
<1>3. PICK R : IsWellFoundedOn(R, Nat) /\ \A x, y \in Nat : <<y, x>> \in R <=> y < x
  <2>1. IsWellFoundedOn(OpToRel(<, Nat), Nat)
    BY NatLessThanWellFounded
  <2>2. \A x, y \in Nat : <<y, x>> \in OpToRel(<, Nat) <=> y < x
    BY DEF OpToRel
  <2> QED BY <2>1, <2>2, Zenon
<1>4. PICK b \in B : \A y \in B : ~(<<y, b>> \in R)
  <2>1. B \subseteq Nat /\ B # {}
    BY <1>2
  <2> HIDE DEF B
  <2> QED BY <1>3, <2>1, WFMin
<1>5. b \in Nat /\ \A k \in S : k <= b /\ k \in Nat /\ k >= 1
  BY <1>1
<1>6. b \in S
  <2> SUFFICES ASSUME b \notin S PROVE FALSE
    OBVIOUS
  <2>1. b >= 1
    BY <1>5
  <2>2. b - 1 \in Nat /\ \A k \in S : k <= b - 1
    BY <1>5, <2>1
  <2>3. b - 1 \in B
    BY <2>2
  <2>4. ~(b - 1 < b)
    BY <1>3, <1>4, <1>5, <2>2, <2>3
  <2> QED BY <1>5, <2>4
<1> QED BY <1>5, <1>6

\* If nothing outside the request feeds c and one of its supplies is on, the
\* last of those that are fails with c.
LEMMA SupplyFails ==
    ASSUME NEW c \in Comp, Type[c] = "Node", NEW i \in DOMAIN Supplies[c],
           Supplies[c][i] \in Comp => snap[Supplies[c][i]] = "on"
    PROVE  \E j \in DOMAIN Supplies[c] :
              Supplies[c][j] \in Comp => /\ Supplies[c][j] \in Dependents(c, "gracefulshutdown")
                                         /\ snap[Supplies[c][j]] = "on"
<1> DEFINE On == {k \in DOMAIN Supplies[c] :
                     Supplies[c][k] \in Comp => snap[Supplies[c][k]] = "on"}
<1>1. CASE \E k \in On : Supplies[c][k] \notin Comp
  BY <1>1
<1>2. CASE \A k \in On : Supplies[c][k] \in Comp
  <2>1. On # {} /\ On \subseteq DOMAIN Supplies[c]
    OBVIOUS
  <2> HIDE DEF On
  <2>2. PICK j \in On : \A k \in On : k <= j
    BY <2>1, LastOne
  <2>3. ~(On = {} \/ \E k \in On : Supplies[c][k] \notin Comp)
    BY <1>2, <2>1
  <2>4. LastSupply(c) = {Supplies[c][k] : k \in {l \in On : \A k \in On : k <= l}}
    BY <2>3 DEF LastSupply, On
  <2>5. Supplies[c][j] \in LastSupply(c)
    BY <2>2, <2>4
  <2>6. Supplies[c][j] \in Dependents(c, "gracefulshutdown")
    BY <2>5 DEF Dependents
  <2>7. j \in DOMAIN Supplies[c] /\ (Supplies[c][j] \in Comp => snap[Supplies[c][j]] = "on")
    BY <2>2 DEF On
  <2> QED BY <2>6, <2>7
<1> QED BY <1>1, <1>2

\* Who fails anew has been open, and a worker is there.
LEMMA FailsOpen ==
    ASSUME Account, Recorded, NEW c \in Comp, NEW a, FailStep(c, a), task[c].st # "failed"
    PROVE  IsOpen(c) /\ ~Closed(c) /\ pc # "down" /\ (pc = "seq" \/ pc \in Loop)
<1>1. CASE ReserveFailed(c) \/ KeyExpired(c)
  BY <1>1 DEF ReserveFailed, KeyExpired, Loop, Recorded, Kept, Closed, IsOpen
<1>2. CASE Build(c)
  <2>1. c \in Busy /\ c \in InTier(tier) /\ pc \in Loop /\ pc # "down"
    BY <1>2 DEF Build, Account, Shape, Loop, Busy
  <2>2. task[c].st \in Status
    BY DEF Account, TypeOK, Task
  <2>3. IsOpen(c)
    BY <2>1, <2>2, NotDone DEF Status, IsOpen
  <2> QED BY <2>1, <2>3 DEF Recorded, Kept, Closed, IsOpen
<1>3. CASE Response(c) \/ Confirm(c) \/ Late(c)
  <2>1. c \in wait /\ pc \in Loop /\ pc # "down"
    BY <1>3 DEF Response, Confirm, Late, Account, TypeOK, Shape, Loop
  <2> QED BY <2>1 DEF Recorded, Kept, Closed, IsOpen
<1> QED BY <1>1, <1>2, <1>3 DEF FailStep

\* What fails with another is idle after that, if it was not told anything.
LEMMA BothFail ==
    ASSUME ~NoWait, Wired, Ground, Account', [Next]_vars, NEW c \in Comp, NEW a, FailStep(c, a),
           NEW p \in Dependents(c, a), p \in Comp, ~OffGoing(p)
    PROVE  Idle(p)'
<1> USE DEF Ground
<1>1. task[p] \in Task /\ task \in [Comp -> Task]
  BY DEF Account, TypeOK
<1>2. task'[p] = [task[p] EXCEPT !.st = "failed"] /\ db'[p] = task'[p]
  BY DEF FailStep, Fail, Failing
<1>3. task'[p].st = "failed"
  BY <1>1, <1>2 DEF Task
<1>4. ~OffGoing(p)'
  <2> SUFFICES ASSUME OffGoing(p)' PROVE FALSE
    OBVIOUS
  <2>1. p \in out'
    BY NewOffGoing
  <2>2. p \notin wait'
    BY FailStepWaits
  <2> QED BY <2>1, <2>2 DEF Account, TypeOK
<1> QED BY <1>2, <1>3, <1>4 DEF Idle, Lost

\* What c depends on protects it from then on.
LEMMA FailureProtects ==
    ASSUME ~NoWait, Wired, Moduled, Ground, Gentle, Account', [Next]_vars, op = "SoftOff",
           NEW c \in Comp, Type[c] = "Node", Feeders(c) \cap blind = {},
           task[c].st # "failed", Untold(c), NEW a, FailStep(c, a)
    PROVE  Protected(c)'
<1> USE DEF Ground
<1>1. IsOpen(c) /\ pc # "down" /\ (pc = "seq" \/ pc \in Loop)
  BY FailsOpen
<1>2. a = "gracefulshutdown"
  <2>1. CASE ReserveFailed(c) /\ a = ReservedFor(c)
    BY <2>1, ShutsDown
  <2>2. CASE /\ KeyExpired(c) \/ Build(c) \/ Response(c) \/ Confirm(c) \/ Late(c)
             /\ a = powerAction
    <3>1. pc \in Loop
      BY <2>2 DEF KeyExpired, Build, Response, Confirm, Late, Loop
    <3> QED BY <2>2, <3>1, ShutsDown
  <2> QED BY <2>1, <2>2 DEF FailStep
<1>3. CASE hw[c] = "off"
  BY <1>3, ProtectedStays DEF Protected
<1>4. CASE hw[c] # "off"
  <2>1. Powered(c, hw)
    <3>1. hw[c] = "on"
      BY <1>4 DEF Account, TypeOK
    <3> QED BY <3>1 DEF Supplied
  <2>2. \A p \in Mains(c) : ~OffGoing(p) /\ p \in Comp /\ p \notin blind
    BY MainsFeed DEF Untold, Mains
  <2>3. ASSUME NEW p \in Ancestors[c], Type[p] \in Module PROVE Idle(p)'
    <3>1. p \in Mains(c)
      BY <2>3, SeqAssumption DEF Mains
    <3>2. Type[p] = "ComputeModule"
      BY <2>3 DEF Moduled, Module
    <3>3. p \in Dependents(c, a)
      BY <1>2, <3>2 DEF Dependents
    <3> QED BY <2>2, <3>1, <3>3, BothFail
  <2>4. ASSUME Supplies[c] # <<>> PROVE \E j \in DOMAIN Supplies[c] : Steady(c, j)'
    <3>1. PICK i \in DOMAIN Supplies[c] : Supplies[c][i] \in Comp => hw[Supplies[c][i]] = "on"
      BY <2>1, <2>4 DEF Powered
    <3>2. Supplies[c][i] \in Comp => snap[Supplies[c][i]] = "on"
      <4> SUFFICES ASSUME NEW p \in Comp, p = Supplies[c][i] PROVE snap[p] = "on"
        OBVIOUS
      <4>1. p \in Mains(c) /\ hw[p] = "on"
        BY <3>1 DEF Mains
      <4>2. snap[p] # "undefined"
        BY <1>1, <2>2, <4>1 DEF Turns, Turned, Sighted
      <4>3. snap[p] # "off"
        BY <4>1 DEF Directs, Directed, Aimed, Aim
      <4> QED BY <4>2, <4>3 DEF Account, TypeOK
    <3>3. PICK j \in DOMAIN Supplies[c] :
             Supplies[c][j] \in Comp => /\ Supplies[c][j] \in Dependents(c, "gracefulshutdown")
                                        /\ snap[Supplies[c][j]] = "on"
      BY <3>2, SupplyFails
    <3>4. Steady(c, j)'
      <4> SUFFICES ASSUME NEW p \in Comp, p = Supplies[c][j] PROVE Idle(p)' /\ hw'[p] = "on"
        BY DEF Steady
      <4>1. p \in Mains(c) /\ p \in Dependents(c, a) /\ snap[p] = "on"
        BY <1>2, <3>3 DEF Mains
      <4>2. hw[p] = "on" /\ Mains(p) = {}
        BY <4>1 DEF Untold, Wired
      <4>3. hw'[p] = "on"
        BY <2>2, <4>1, <4>2, OwnCommands DEF OffGoing
      <4> QED BY <2>2, <4>1, <4>3, BothFail
    <3> QED BY <3>4
  <2> QED BY <2>3, <2>4 DEF Protected
<1> QED BY <1>3, <1>4

\* Nothing is turned off after HSM could not be asked.
LEMMA ErrorProtects ==
    ASSUME ~NoWait, Wired, Ground, Gentle, Account', [Next]_vars, op = "SoftOff",
           NEW c \in Comp, Type[c] = "Node", Untold(c), ReserveError, unsaved = {}
    PROVE  Protected(c)'
<1> USE DEF Ground
<1>1. CASE hw[c] = "off"
  BY <1>1, ProtectedStays DEF Protected
<1>2. CASE hw[c] # "off"
  <2>1. Powered(c, hw)
    <3>1. hw[c] = "on"
      BY <1>2 DEF Account, TypeOK
    <3> QED BY <3>1 DEF Supplied
  <2>2. ASSUME NEW p \in Mains(c), hw[p] = "on" PROVE Idle(p)' /\ hw'[p] = "on"
    <3>1. p \in Comp /\ Mains(p) = {} /\ ~OffGoing(p) /\ db[p] = task[p]
      BY DEF Wired, Mains, Untold, Account, Stored
    <3>2. task[p] \in Task
      BY <3>1 DEF Account, TypeOK
    <3>3. Lost(p)'
      <4>1. CASE IsOpen(p)
        <5>1. /\ task'[p] = [task[p] EXCEPT !.st = "failed"]
              /\ db'[p] = [task[p] EXCEPT !.st = "failed"]
          BY <3>1, <4>1 DEF ReserveError, Failing
        <5> QED BY <3>2, <5>1 DEF Lost, Task
      <4>2. CASE ~IsOpen(p)
        <5>1. task[p].st # "succeeded"
          BY <2>2, <3>1 DEF Directs, Directed, Aimed, Aim
        <5>2. task[p].st \in {"failed", "unsupported"}
          BY <3>2, <4>2, <5>1 DEF Task, Status, IsOpen
        <5>3. task'[p] = task[p] /\ db'[p] = task[p]
          BY <3>1, <4>2 DEF ReserveError, Failing
        <5> QED BY <5>2, <5>3 DEF Lost
      <4> QED BY <4>1, <4>2
    <3>4. cmd' = cmd /\ out' = out /\ tier' = tier /\ hw' = hw
      BY DEF ReserveError, world
    <3>5. ~OffGoing(p)'
      BY <3>1, <3>4 DEF OffGoing, powerAction
    <3> QED BY <2>2, <3>3, <3>4, <3>5 DEF Idle
  <2>3. ASSUME NEW p \in Ancestors[c], Type[p] \in Module PROVE Idle(p)'
    <3>1. p \in Mains(c) /\ hw[p] = "on"
      BY <2>1, <2>3, SeqAssumption DEF Mains, Powered
    <3> QED BY <2>2, <3>1
  <2>4. ASSUME Supplies[c] # <<>> PROVE \E i \in DOMAIN Supplies[c] : Steady(c, i)'
    <3>1. PICK i \in DOMAIN Supplies[c] : Supplies[c][i] \in Comp => hw[Supplies[c][i]] = "on"
      BY <2>1, <2>4 DEF Powered
    <3>2. Steady(c, i)'
      <4> SUFFICES ASSUME NEW p \in Comp, p = Supplies[c][i] PROVE Idle(p)' /\ hw'[p] = "on"
        BY DEF Steady
      <4>1. p \in Mains(c) /\ hw[p] = "on"
        BY <3>1 DEF Mains
      <4> QED BY <2>2, <4>1
    <3> QED BY <3>2
  <2> QED BY <2>3, <2>4 DEF Protected
<1> QED BY <1>1, <1>2


-----------------------------------------------------------------------------
(* Nodes that Soft-Off takes care of *)

\* Until a node has its result nothing that feeds it is told to turn off; a node
\* that fails is protected; and one that has lost its power was none that could
\* be shut down.
Covered(c) ==
    op = "SoftOff" /\ Type[c] = "Node" /\ Feeders(c) \cap blind = {} =>
        /\ ~Closed(c) => Untold(c)
        /\ \A t \in {task[c], db[c]} : t.st = "failed" => Protected(c)
        /\ c \in cut => \A t \in {task[c], db[c]} : t.st = "unsupported"

\* A node fails alone.
LEMMA NodeFails ==
    ASSUME Wired, Account, [Next]_vars, NEW c \in Comp, Type[c] = "Node",
           task'[c].st = "failed", task[c].st # "failed"
    PROVE  Start \/ Crash \/ SequenceComp(c) \/ ReserveError \/ \E a : FailStep(c, a)
<1> SUFFICES ASSUME NEW e \in Comp, NEW a, FailStep(e, a), c \in Dependents(e, a)
             PROVE  FALSE
  BY Fails
<1>1. c \in Mains(e)
  BY DependentsFeed
<1> QED BY <1>1 DEF Wired, Module

\* What is not supported stays so.
LEMMA UnsupportedStays ==
    ASSUME ~NoWait, Wired, Ground, [Next]_vars, NEW c \in Comp, Type[c] = "Node",
           \A t \in {task[c], db[c]} : t.st = "unsupported"
    PROVE  \A t \in {task'[c], db'[c]} : t.st = "unsupported"
<1> USE DEF Ground
<1>1. ~IsOpen(c) /\ c \notin wait /\ task[c].st = "unsupported" /\ db[c].st = "unsupported"
  BY DEF IsOpen, Recorded, Kept
<1>2. task'[c].st # "failed"
  <2> SUFFICES ASSUME task'[c].st = "failed" PROVE FALSE
    OBVIOUS
  <2>1. CASE Start \/ Crash
    BY <1>1, <2>1 DEF Start, Crash
  <2>2. CASE SequenceComp(c)
    BY <1>1, <2>2, SequenceSource
  <2>3. CASE ReserveError
    BY <1>1, <2>3 DEF ReserveError, Failing
  <2>4. ASSUME NEW a, FailStep(c, a) PROVE FALSE
    BY <1>1, <2>4, FailsOpen
  <2> QED BY <1>1, <2>1, <2>2, <2>3, <2>4, NodeFails
<1>3. CASE Carried(c)
  BY <1>1, <1>2, <1>3 DEF Carried
<1>4. CASE SequenceComp(c)
  BY <1>1, <1>4, SequenceSource
<1>5. CASE unsaved = {} /\ Build(c)
  BY <1>1, <1>3, <1>5, BuildSource
<1>6. CASE unsaved = {} /\ (Response(c) \/ Confirm(c))
  BY <1>1, <1>3, <1>6, ResponseSource, ConfirmSource
<1> QED BY <1>3, <1>4, <1>5, <1>6, Sources

\* A node that has failed is protected.
LEMMA NextProtected ==
    ASSUME ~NoWait, Wired, Moduled, Ground, Gentle, Account', [Next]_vars, op = "SoftOff",
           NEW c \in Comp, Type[c] = "Node", Feeders(c) \cap blind = {}, Covered(c),
           task'[c].st = "failed" \/ db'[c].st = "failed"
    PROVE  Protected(c)'
<1> USE DEF Ground
<1>1. CASE task[c].st = "failed" \/ db[c].st = "failed"
  BY <1>1, ProtectedStays DEF Covered
<1>2. CASE task[c].st # "failed" /\ db[c].st # "failed"
  <2>1. task'[c].st = "failed"
    <3> SUFFICES ASSUME db'[c].st = "failed" PROVE task'[c].st = "failed"
      OBVIOUS
    <3>1. CASE Carried(c)
      BY <1>2, <3>1 DEF Carried
    <3>2. CASE SequenceComp(c)
      BY <3>2, SequenceSource
    <3>3. CASE unsaved = {} /\ Build(c)
      BY <3>1, <3>3, BuildSource
    <3>4. CASE unsaved = {} /\ (Response(c) \/ Confirm(c))
      BY <3>1, <3>4, ResponseSource, ConfirmSource
    <3> QED BY <3>1, <3>2, <3>3, <3>4, Sources
  <2>2. CASE Start \/ Crash
    BY <1>2, <2>1, <2>2 DEF Start, Crash
  <2>3. CASE SequenceComp(c)
    <3>1. IsOpen(c) /\ task'[c] = Sequenced(c).task /\ Directed
      BY <2>3, SequenceSource DEF Directed
    <3> QED BY <2>1, <3>1, DirectedSequenced
  <2>4. CASE ReserveError
    <3>1. pc = "seq" /\ unsaved = {}
      <4>1. unsaved = {}
        <5>1. ~Save /\ ~Crash
          BY <2>4 DEF ReserveError, Save, Crash
        <5>2. ~(\E d \in Comp : Execute(d) \/ Monitor(d) \/ Lose(d)) /\ ~UNCHANGED vars
          BY <2>4 DEF ReserveError, Execute, Monitor, Lose, vars, worker
        <5> QED BY <5>1, <5>2 DEF Next, WorkerStep
      <4> QED BY <2>4, <4>1 DEF ReserveError
    <3>2. IsOpen(c)
      BY <1>2, <2>1, <2>4 DEF ReserveError, Failing
    <3>3. ~Closed(c)
      BY <3>2 DEF Recorded, Kept, Closed, IsOpen
    <3>4. Untold(c)
      BY <3>3 DEF Covered
    <3> QED BY <2>4, <3>1, <3>4, ErrorProtects
  <2>5. ASSUME NEW a, FailStep(c, a) PROVE Protected(c)'
    <3>1. ~Closed(c)
      BY <1>2, <2>5, FailsOpen
    <3>2. Untold(c)
      BY <3>1 DEF Covered
    <3> QED BY <1>2, <2>5, <3>2, FailureProtects
  <2> QED BY <1>2, <2>1, <2>2, <2>3, <2>4, <2>5, NodeFails
<1> QED BY <1>1, <1>2

\* A node that loses its power is none that has been shut down, or has failed.
LEMMA NextUncut ==
    ASSUME ~NoWait, Wired, Ground, Gentle, Account', [Next]_vars, op = "SoftOff",
           NEW c \in Comp, Type[c] = "Node", Feeders(c) \cap blind = {}, Covered(c), c \in cut'
    PROVE  \A t \in {task'[c], db'[c]} : t.st = "unsupported"
<1> USE DEF Ground
<1>1. CASE c \in cut
  <2>1. \A t \in {task[c], db[c]} : t.st = "unsupported"
    BY <1>1 DEF Covered
  <2> QED BY <2>1, UnsupportedStays
<1>2. CASE c \notin cut
  <2>1. PICK e \in Mains(c) : /\ cmd[e] \in Offs /\ TurnOff(e) /\ e \in Comp
                              /\ hw[c] = "on" /\ ~Powered(c, [hw EXCEPT ![e] = "off"])
    BY <1>2, CutBy
  <2>2. OffGoing(e)
    BY <2>1 DEF OffGoing
  <2>3. Closed(c)
    BY <2>2 DEF Covered, Untold
  <2>4. ~Protected(c)
    <3> SUFFICES ASSUME Protected(c) PROVE FALSE
      OBVIOUS
    <3> DEFINE without == [hw EXCEPT ![e] = "off"]
    <3>1. \A d \in Comp : d # e => without[d] = hw[d]
      BY DEF Account, TypeOK
    <3>2. ~Powered(c, without) /\ Powered(c, hw)
      BY <2>1 DEF Supplied
    <3> HIDE DEF without
    <3>3. ASSUME NEW p \in Ancestors[c], Type[p] \in Module PROVE without[p] = "on"
      <4>1. p \in Comp /\ p # e /\ hw[p] = "on"
        BY <2>1, <2>2, <3>2, <3>3, SeqAssumption DEF Protected, Idle, Powered
      <4> QED BY <3>1, <4>1
    <3>4. ASSUME Supplies[c] # <<>>
          PROVE  \E i \in DOMAIN Supplies[c] : Supplies[c][i] \in Comp => without[Supplies[c][i]] = "on"
      <4>1. PICK i \in DOMAIN Supplies[c] : Steady(c, i)
        BY <2>1, <3>4 DEF Protected
      <4>2. Supplies[c][i] \in Comp => without[Supplies[c][i]] = "on"
        <5> SUFFICES ASSUME NEW p \in Comp, p = Supplies[c][i] PROVE without[p] = "on"
          OBVIOUS
        <5>1. p # e /\ hw[p] = "on"
          BY <2>2, <4>1 DEF Steady, Idle
        <5> QED BY <3>1, <5>1
      <4> QED BY <4>2
    <3>5. Powered(c, without)
      BY <3>3, <3>4 DEF Powered
    <3> QED BY <3>2, <3>5
  <2>5. \A t \in {task[c], db[c]} : t.st = "unsupported"
    <3>1. task[c].st \in Status /\ db[c].st \in Status
      BY DEF Account, TypeOK, Task
    <3>2. task[c].st # "open" /\ db[c].st # "open"
      BY <2>3 DEF Closed, Recorded, Kept
    <3>3. task[c].st # "failed" /\ db[c].st # "failed"
      BY <2>4 DEF Covered
    <3>4. task[c].st # "succeeded" /\ db[c].st # "succeeded"
      BY <2>1 DEF Directs, Directed, Aimed, Aim
    <3> QED BY <3>1, <3>2, <3>3, <3>4 DEF Status
  <2> QED BY <2>5, UnsupportedStays
<1> QED BY <1>1, <1>2

LEMMA NextCovered ==
    ASSUME ~NoWait, Wired, Moduled, Ground, Gentle, Account', [Next]_vars, NEW c \in Comp, Covered(c)
    PROVE  Covered(c)'
<1> USE DEF Ground
<1> SUFFICES ASSUME op' = "SoftOff", Type[c] = "Node", Feeders(c) \cap blind' = {}
             PROVE  /\ ~Closed(c)' => Untold(c)'
                    /\ \A t \in {task'[c], db'[c]} : t.st = "failed" => Protected(c)'
                    /\ c \in cut' => \A t \in {task'[c], db'[c]} : t.st = "unsupported"
  BY DEF Covered, Feeders
<1>1. op = "SoftOff" /\ Feeders(c) \cap blind = {}
  BY Fixed, Memories
<1>2. ASSUME ~Closed(c)' PROVE Untold(c)'
  <2>1. ~Closed(c)
    BY <1>2, ClosedStays
  <2>2. Untold(c)
    BY <1>1, <2>1 DEF Covered
  <2> QED BY <1>1, <2>1, <2>2, UntoldStays
<1>3. task'[c].st = "failed" \/ db'[c].st = "failed" => Protected(c)'
  BY <1>1, NextProtected
<1>4. c \in cut' => \A t \in {task'[c], db'[c]} : t.st = "unsupported"
  BY <1>1, NextUncut
<1> QED BY <1>2, <1>3, <1>4

\* Soft-Off takes the power from no running node that supports it and whose
\* supplies were seen, whatever fails and however often the worker dies: a node
\* that fails has its module and its last supply failed and stored first
\* (failDependentComps, transitions.go:1641), and these are told to turn off only
\* when the tier of the nodes is done.
THEOREM SoftOffSpares == ~NoWait /\ Tiered /\ Wired /\ Moduled => (Spec => []NeverCut)
<1> SUFFICES ASSUME ~NoWait, Tiered, Wired, Moduled PROVE Spec => []NeverCut
  OBVIOUS
<1> DEFINE Nodes == \A c \in cut : c \in Comp /\ Type[c] = "Node"
           I == Ground /\ Gentle /\ Nodes /\ \A c \in Comp : Covered(c)
<1>1. Init => I
  <2> SUFFICES ASSUME Init PROVE I
    OBVIOUS
  <2>1. Ground
    BY InitGround
  <2>2. Gentle
    BY <2>1 DEF Gentle, Forceless, Init, NoPlan, NewTask, Action
  <2>3. ASSUME NEW c \in Comp PROVE Covered(c)
    <3>1. /\ mon = hw /\ cut = {} /\ task[c].st = "open" /\ db[c].st = "open"
          /\ \A p \in Comp : snap[p] = "undefined" /\ cmd[p] = "none" /\ p \notin out
      BY DEF Init, NewTask
    <3>2. Untold(c)
      BY <3>1 DEF Untold, OffGoing, Offs, Mains
    <3> QED BY <3>1, <3>2 DEF Covered
  <2>4. Nodes
    BY DEF Init
  <2> QED BY <2>1, <2>2, <2>3, <2>4
<1>2. I /\ [Next]_vars => I'
  <2> SUFFICES ASSUME I, [Next]_vars PROVE I'
    OBVIOUS
  <2>1. Ground' /\ Account'
    BY NextGround DEF Ground
  <2>2. Gentle'
    BY NextForceless DEF Gentle
  <2>3. \A c \in Comp : Covered(c)'
    BY <2>1, NextCovered
  <2>4. ASSUME NEW c \in cut' PROVE c \in Comp /\ Type[c] = "Node"
    <3>1. c \in Comp
      BY <2>1 DEF Account, TypeOK
    <3>2. Account /\ Supplied
      BY DEF Ground
    <3> QED BY <3>1, <3>2, CutBy
  <2> QED BY <2>1, <2>2, <2>3, <2>4
<1>3. I => NeverCut
  <2> SUFFICES ASSUME I, op = "SoftOff", NEW c \in cut, Feeders(c) \cap blind = {}
               PROVE  task[c].st = "unsupported"
    BY DEF NeverCut
  <2> QED BY DEF Covered
<1> QED BY <1>1, <1>2, <1>3, PTL DEF Spec
=============================================================================
