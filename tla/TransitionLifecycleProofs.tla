---------------------- MODULE TransitionLifecycleProofs ----------------------
(***************************************************************************)
(* Theorems about TransitionLifecycle for every number of pods, workers,   *)
(* clients and components and every bound: type correctness, and that no   *)
(* two workers run the transition as long as no abort has been signaled.   *)
(***************************************************************************)
EXTENDS TransitionLifecycle, TLAPS

CurType == [w : SUBSET Worker, k : SUBSET Worker,
            r : SUBSET Pod, c : SUBSET Client]

-----------------------------------------------------------------------------
(* Values *)

\* The initial values of the worker's and the reaper's locals are well formed.
LEMMA ValueTypes ==
    /\ NoTasks \in TaskDB
    /\ NoRec \in Record
    /\ Blank \in [Comp -> Held]
    /\ Fresh \in Local
    /\ IdleReaper \in Reaper
    /\ NoCur \in CurType
<1>1. NoTasks \in TaskDB
  BY DEF NoTasks, TaskDB, TaskStatus
<1>2. Blank \in [Comp -> Held]
  BY ConstAssumption DEF Blank, Held, TaskStatus
<1>3. NoRec \in Record
  BY <1>1 DEF NoRec, Record
<1>4. Fresh \in Local
  BY <1>1, <1>2, ConstAssumption DEF Fresh, Local, Site, Terminal
<1>5. IdleReaper \in Reaper
  BY <1>1 DEF IdleReaper, Reaper, Terminal
<1>6. NoCur \in CurType
  BY DEF NoCur, CurType
<1> QED BY <1>1, <1>2, <1>3, <1>4, <1>5, <1>6

\* The records that are stored are well formed.
LEMMA RecordTypes ==
    /\ \A s \in Running \cup Terminal : Live(s) \in Record
    /\ \A s \in Running \cup Terminal, t \in TaskDB : Compressed(s, t) \in Record
    /\ \A r \in Record, s \in Running : [r EXCEPT !.status = s] \in Record
BY ValueTypes DEF Live, Compressed, Record

\* Storing tasks keeps the shape of the task database.
LEMMA StoredType ==
    ASSUME NEW db \in TaskDB, NEW t \in [Comp -> Held], NEW S, NEW lost
    PROVE  Stored(db, t, S, lost) \in TaskDB
<1>1. ASSUME NEW c \in Comp
      PROVE  [db[c] EXCEPT ![t[c].id] = t[c].st] \in [Tid -> TaskStatus]
  BY DEF TaskDB, Held
<1> QED BY <1>1 DEF Stored, TaskDB

\* So does deleting a task.
LEMMA WithoutType ==
    ASSUME NEW db \in TaskDB, NEW c \in Comp, NEW i \in Tid
    PROVE  Without(db, c, i) \in TaskDB
BY DEF Without, TaskDB, TaskStatus

\* Setting statuses keeps the shape of a worker's tasks.
LEMMA SetType ==
    ASSUME NEW t \in [Comp -> Held], NEW S, NEW st \in TaskStatus
    PROVE  Set(t, S, st) \in [Comp -> Held]
BY DEF Set, Held

\* Counting an error or not keeps the count within its bound.
LEMMA ErrorType ==
    ASSUME errs \in 0..MaxErr, Error \/ NoError
    PROVE  errs' \in 0..MaxErr
BY ConstAssumption DEF Error, NoError

\* The effect of storing the tasks in S.
LEMMA StoreTasksType ==
    ASSUME tdb \in TaskDB, errs \in 0..MaxErr,
           NEW t \in [Comp -> Held], NEW S, StoreTasks(t, S)
    PROVE  tdb' \in TaskDB /\ errs' \in 0..MaxErr
<1>1. CASE NoError /\ tdb' = Stored(tdb, t, S, {})
  BY <1>1, StoredType, ErrorType
<1>2. CASE Error /\ \E lost \in SUBSET S \ {{}} : tdb' = Stored(tdb, t, S, lost)
  BY <1>2, StoredType, ErrorType
<1> QED BY <1>1, <1>2 DEF StoreTasks

\* A store of the record.
LEMMA StoreType ==
    ASSUME TypeOK, NEW r \in Record, NEW f \in BOOLEAN, Store(r, f)
    PROVE  rec' \in Record /\ stale' \in BOOLEAN /\ cur' \in CurType
<1>1. cur \in CurType
  BY DEF TypeOK, CurType
<1> QED BY <1>1, ValueTypes DEF Store, TypeOK

-----------------------------------------------------------------------------
(* Control *)

\* What the steps of a worker do to its program counter and its variables.
Placed == pc' \in [Worker -> PC] /\ loc' \in [Worker -> Local]

LEMMA GotoType ==
    ASSUME TypeOK, NEW w \in Worker, NEW label \in PC, Goto(w, label)
    PROVE  pc' \in [Worker -> PC]
BY DEF TypeOK, Goto

LEMMA ExitType ==
    ASSUME TypeOK, NEW w \in Worker, Exit(w)
    PROVE  Placed
BY ValueTypes DEF TypeOK, Exit, Goto, Placed, PC

LEMMA ResumeType ==
    ASSUME TypeOK, NEW w \in Worker, NEW l \in Local, Resume(w, l)
    PROVE  Placed
<1>1. CASE Exit(w)
  BY <1>1, ExitType
<1>2. CASE /\ Goto(w, IF l.site = "setup" THEN "gather" ELSE "seq")
           /\ loc' = [loc EXCEPT ![w] = l]
  BY <1>2 DEF TypeOK, Goto, Placed, PC
<1> QED BY <1>1, <1>2 DEF Resume

LEMMA CompleteType ==
    ASSUME TypeOK, NEW w \in Worker, NEW l \in Local, Complete(w, l)
    PROVE  Placed
<1>1. [l EXCEPT !.site = "end", !.fin = "completed"] \in Local
  BY DEF Local, Site, Terminal
<1> QED BY <1>1 DEF TypeOK, Complete, Goto, Placed, PC

LEMMA StoreReturnsType ==
    ASSUME TypeOK, NEW w \in Worker, NEW l \in Local, StoreReturns(w, l)
    PROVE  Placed
<1>1. [l EXCEPT !.try = 0] \in Local
  BY DEF Local
<1>2. CASE l.abort
  BY <1>1, <1>2 DEF TypeOK, StoreReturns, Goto, Placed, PC
<1>3. CASE ~l.abort
  BY <1>1, <1>3, ResumeType DEF StoreReturns
<1> QED BY <1>2, <1>3

\* A worker's step that changes fields of its variables.
LEMMA UpdateType ==
    ASSUME TypeOK, NEW w \in Worker, NEW l \in Local, NEW label \in PC,
           Goto(w, label), loc' = [loc EXCEPT ![w] = l]
    PROVE  Placed
BY DEF TypeOK, Goto, Placed

LEMMA checkAbortType ==
    ASSUME TypeOK, NEW w \in Worker, NEW label \in PC, NEW l \in Local,
           checkAbort(w, label, l)
    PROVE  Placed /\ errs' \in 0..MaxErr
<1>1. errs' \in 0..MaxErr
  BY ErrorType DEF checkAbort, TypeOK
<1>2. [l EXCEPT !.site = "end", !.wait = {}] \in Local
  BY DEF Local, Site
<1>3. "abort" \in PC
  BY DEF PC
<1>4. Placed
  BY <1>2, <1>3, UpdateType DEF checkAbort
<1> QED BY <1>1, <1>4

-----------------------------------------------------------------------------
(* Type correctness, action by action *)

LEMMA TriggerTypeOK ==
    ASSUME TypeOK, NEW w \in Worker, TriggerTransition(w)
    PROVE  TypeOK'
<1>1. Live("new") \in Record
  BY RecordTypes DEF Running
<1>2. rec' \in Record /\ stale' \in BOOLEAN /\ cur' \in CurType
  BY <1>1, StoreType DEF TriggerTransition
<1>3. pc' \in [Worker -> PC]
  BY GotoType DEF TriggerTransition, PC
<1> QED BY <1>2, <1>3 DEF TypeOK, TriggerTransition, CurType

LEMMA StartWorkerTypeOK ==
    ASSUME TypeOK, NEW w \in Worker, StartWorker(w)
    PROVE  TypeOK'
<1>1. errs' \in 0..MaxErr
  BY ErrorType DEF StartWorker, TypeOK
<1>2. Placed /\ ka' \in [Worker -> KeepAlive]
  <2>1. CASE Exit(w) /\ UNCHANGED ka
    BY <2>1, ExitType DEF TypeOK
  <2>2. CASE /\ Goto(w, "setup") /\ ka' = [ka EXCEPT ![w] = "on"]
             /\ UNCHANGED loc
    BY <2>2 DEF TypeOK, Goto, Placed, PC, KeepAlive
  <2> QED BY <2>1, <2>2 DEF StartWorker
<1> QED BY <1>1, <1>2 DEF TypeOK, StartWorker, Placed, storeVars, envVars

LEMMA LoadTasksTypeOK ==
    ASSUME TypeOK, NEW w \in Worker, LoadTasks(w)
    PROVE  TypeOK'
<1>1. errs' \in 0..MaxErr
  BY ErrorType DEF LoadTasks, TypeOK
<1>2. PICK t \in [Comp -> Held] :
         loc' = [loc EXCEPT ![w].task = t,
                            ![w].xnames = {c \in Comp : t[c].st = "open"}]
  BY DEF LoadTasks
<1> DEFINE l == [loc[w] EXCEPT !.task = t,
                               !.xnames = {c \in Comp : t[c].st = "open"}]
<1>3. loc[w] \in Local
  BY DEF TypeOK
<1>4. l \in Local
  BY <1>3 DEF Local
<1>5. loc' = [loc EXCEPT ![w] = l]
  BY <1>2 DEF TypeOK
<1>6. Goto(w, "create") /\ "create" \in PC
  BY DEF LoadTasks, PC
<1>7. Placed
  BY <1>4, <1>5, <1>6, UpdateType
<1> QED BY <1>1, <1>7 DEF TypeOK, LoadTasks, Placed, storeVars, envVars

LEMMA CreateTaskTypeOK ==
    ASSUME TypeOK, NEW w \in Worker, CreateTask(w)
    PROVE  TypeOK'
<1>1. PICK c \in Comp, i \in Tid, st \in {"open", "failed"} :
         LET t == [loc[w].task EXCEPT ![c] = [id |-> i, st |-> st]] IN
         /\ loc' = [loc EXCEPT
               ![w].task = t,
               ![w].xnames = IF st = "open" THEN @ \cup {c} ELSE @]
         /\ StoreTasks(t, {c})
  BY DEF CreateTask
<1> DEFINE t == [loc[w].task EXCEPT ![c] = [id |-> i, st |-> st]]
           l == [loc[w] EXCEPT !.task = t,
                    !.xnames = IF st = "open" THEN @ \cup {c} ELSE @]
<1>2. loc[w] \in Local
  BY DEF TypeOK
<1>3. t \in [Comp -> Held]
  BY <1>2 DEF Local, Held, TaskStatus
<1>4. l \in Local
  BY <1>2, <1>3 DEF Local
<1>5. loc' \in [Worker -> Local]
  <2>1. loc' = [loc EXCEPT ![w] = l]
    BY <1>1 DEF TypeOK
  <2> QED BY <1>4, <2>1 DEF TypeOK
<1>6. tdb' \in TaskDB /\ errs' \in 0..MaxErr
  <2>1. StoreTasks(t, {c})
    BY <1>1
  <2> QED BY <1>3, <2>1, StoreTasksType DEF TypeOK
<1> QED BY <1>5, <1>6 DEF TypeOK, CreateTask, storeVars, envVars

LEMMA SetupDoneTypeOK ==
    ASSUME TypeOK, NEW w \in Worker, SetupDone(w)
    PROVE  TypeOK'
<1>1. Placed
  <2>1. CASE Complete(w, loc[w])
    BY <2>1, CompleteType DEF TypeOK
  <2>2. CASE Goto(w, "store") /\ UNCHANGED loc
    BY <2>2 DEF TypeOK, Goto, Placed, PC
  <2> QED BY <2>1, <2>2 DEF SetupDone
<1> QED BY <1>1 DEF TypeOK, SetupDone, Placed, storeVars, envVars

LEMMA StoreGetTypeOK ==
    ASSUME TypeOK, NEW w \in Worker, StoreGet(w)
    PROVE  TypeOK'
<1>1. errs' \in 0..MaxErr
  BY ErrorType DEF StoreGet, TypeOK
<1>2. loc[w] \in Local
  BY DEF TypeOK
<1>3. Placed /\ cur' \in CurType
  <2>1. CASE StoreReturns(w, loc[w]) /\ UNCHANGED cur
    BY <2>1, <1>2, StoreReturnsType DEF TypeOK, CurType
  <2>2. CASE Goto(w, "blind") /\ UNCHANGED <<loc, cur>>
    BY <2>2 DEF TypeOK, Goto, Placed, PC, CurType
  <2>3. CASE /\ Goto(w, "tas")
             /\ loc' = [loc EXCEPT
                          ![w].abort = @ \/ rec.status = "abort-signaled"]
             /\ cur' = [cur EXCEPT !.w = @ \cup {w}]
    <3> DEFINE l == [loc[w] EXCEPT !.abort = @ \/ rec.status = "abort-signaled"]
    <3>1. l \in Local
      BY <1>2 DEF Local
    <3>2. loc' = [loc EXCEPT ![w] = l]
      BY <2>3 DEF TypeOK
    <3>3. "tas" \in PC
      BY DEF PC
    <3>4. Placed
      BY <2>3, <3>1, <3>2, <3>3, UpdateType
    <3>5. cur' \in CurType
      BY <2>3 DEF TypeOK, CurType
    <3> QED BY <3>4, <3>5
  <2> QED BY <2>1, <2>2, <2>3 DEF StoreGet
<1> QED BY <1>1, <1>3 DEF TypeOK, StoreGet, Placed, CurType, envVars

\* What storeTransition stores is a running record.
LEMMA StoredStatusType ==
    ASSUME NEW l
    PROVE  Live(StoredStatus(l)) \in Record
<1>1. StoredStatus(l) \in Running
  BY DEF StoredStatus, Running
<1> QED BY <1>1, RecordTypes

LEMMA StoreTASTypeOK ==
    ASSUME TypeOK, NEW w \in Worker, StoreTAS(w)
    PROVE  TypeOK'
<1>1. errs' \in 0..MaxErr
  BY ErrorType DEF StoreTAS, TypeOK
<1>2. loc[w] \in Local
  BY DEF TypeOK
<1>3. rec' \in Record /\ stale' \in BOOLEAN /\ cur' \in CurType
  <2>1. CASE Store(Live(StoredStatus(loc[w])), TRUE)
    BY <2>1, StoredStatusType, StoreType
  <2>2. CASE UNCHANGED storeVars
    BY <2>2 DEF TypeOK, CurType, storeVars
  <2> QED BY <2>1, <2>2 DEF StoreTAS
<1>4. Placed
  <2>1. CASE StoreReturns(w, loc[w])
    BY <2>1, <1>2, StoreReturnsType
  <2>2. CASE /\ loc[w].try < 2 /\ Goto(w, "store")
             /\ loc' = [loc EXCEPT ![w].try = @ + 1]
    <3>1. [loc[w] EXCEPT !.try = @ + 1] \in Local
      BY <1>2, <2>2 DEF Local
    <3>2. loc' = [loc EXCEPT ![w] = [loc[w] EXCEPT !.try = @ + 1]]
      BY <2>2 DEF TypeOK
    <3>3. "store" \in PC
      BY DEF PC
    <3> QED BY <2>2, <3>1, <3>2, <3>3, UpdateType
  <2> QED BY <2>1, <2>2 DEF StoreTAS
<1> QED BY <1>1, <1>3, <1>4 DEF TypeOK, StoreTAS, Placed, CurType, envVars

LEMMA StoreBlindTypeOK ==
    ASSUME TypeOK, NEW w \in Worker, StoreBlind(w)
    PROVE  TypeOK'
<1>1. errs' \in 0..MaxErr
  BY ErrorType DEF StoreBlind, TypeOK
<1>2. rec' \in Record /\ stale' \in BOOLEAN /\ cur' \in CurType
  <2>1. CASE Store(Live(StoredStatus(loc[w])), TRUE)
    BY <2>1, StoredStatusType, StoreType
  <2>2. CASE UNCHANGED storeVars
    BY <2>2 DEF TypeOK, CurType, storeVars
  <2> QED BY <2>1, <2>2 DEF StoreBlind
<1>3. Placed
  BY StoreReturnsType DEF StoreBlind, TypeOK
<1> QED BY <1>1, <1>2, <1>3 DEF TypeOK, StoreBlind, Placed, CurType, envVars

LEMMA doAbortTypeOK ==
    ASSUME TypeOK, NEW w \in Worker, doAbort(w)
    PROVE  TypeOK'
<1>1. loc[w] \in Local
  BY DEF TypeOK
<1>2. ASSUME NEW c \in Open(w),
             loc' = [loc EXCEPT ![w].task = Set(loc[w].task, {c}, "failed")],
             StoreTasks(Set(loc[w].task, {c}, "failed"), {c}), UNCHANGED pc
      PROVE  Placed /\ tdb' \in TaskDB /\ errs' \in 0..MaxErr
  <2> DEFINE t == Set(loc[w].task, {c}, "failed")
             l == [loc[w] EXCEPT !.task = t]
  <2>1. t \in [Comp -> Held]
    BY <1>1, SetType DEF Local, TaskStatus
  <2>2. l \in Local
    BY <1>1, <2>1 DEF Local
  <2>3. loc' = [loc EXCEPT ![w] = l]
    BY <1>2 DEF TypeOK
  <2>4. Placed
    BY <1>2, <2>2, <2>3 DEF TypeOK, Placed
  <2>5. tdb' \in TaskDB /\ errs' \in 0..MaxErr
    BY <1>2, <2>1, StoreTasksType DEF TypeOK
  <2> QED BY <2>4, <2>5
<1>3. ASSUME loc' = [loc EXCEPT ![w].fin = "aborted", ![w].aborted = TRUE,
                                ![w].abort = FALSE],
             Goto(w, "cget")
      PROVE  Placed
  <2> DEFINE l == [loc[w] EXCEPT !.fin = "aborted", !.aborted = TRUE,
                                 !.abort = FALSE]
  <2>1. l \in Local
    BY <1>1 DEF Local, Terminal
  <2>2. loc' = [loc EXCEPT ![w] = l]
    BY <1>3 DEF TypeOK
  <2>3. "cget" \in PC
    BY DEF PC
  <2> QED BY <1>3, <2>1, <2>2, <2>3, UpdateType
<1>4. Placed /\ tdb' \in TaskDB /\ errs' \in 0..MaxErr
  BY <1>2, <1>3 DEF doAbort, TypeOK, NoError
<1> QED BY <1>4 DEF TypeOK, doAbort, Placed, storeVars, envVars

LEMMA GatherTypeOK ==
    ASSUME TypeOK, NEW w \in Worker, Gather(w)
    PROVE  TypeOK'
<1>1. loc[w] \in Local
  BY DEF TypeOK
<1>2. Placed /\ tdb' \in TaskDB /\ errs' \in 0..MaxErr
  <2>1. CASE Error /\ Goto(w, "cancel") /\ UNCHANGED <<loc, tdb>>
    BY <2>1, ErrorType DEF TypeOK, Goto, Placed, PC
  <2>2. ASSUME NEW missing \in SUBSET loc[w].xnames,
               NEW unknown \in SUBSET Open(w),
               LET bad == missing \cup (unknown \ missing)
                   t   == Set(loc[w].task, bad, "failed")
                   l   == [loc[w] EXCEPT !.task = t] IN
               /\ StoreTasks(t, bad)
               /\ IF missing = loc[w].xnames
                  THEN /\ unknown = {}
                       /\ Complete(w, l)
                  ELSE /\ Goto(w, "store")
                       /\ loc' = [loc EXCEPT ![w] = [l EXCEPT !.site = "gathered"]]
        PROVE  Placed /\ tdb' \in TaskDB /\ errs' \in 0..MaxErr
    <3> DEFINE bad == missing \cup (unknown \ missing)
               t   == Set(loc[w].task, bad, "failed")
               l   == [loc[w] EXCEPT !.task = t]
    <3>1. t \in [Comp -> Held]
      BY <1>1, SetType DEF Local, TaskStatus
    <3>2. l \in Local /\ [l EXCEPT !.site = "gathered"] \in Local
      BY <1>1, <3>1 DEF Local, Site
    <3>3. tdb' \in TaskDB /\ errs' \in 0..MaxErr
      <4>1. StoreTasks(t, bad)
        BY <2>2
      <4> QED BY <3>1, <4>1, StoreTasksType DEF TypeOK
    <3>4. CASE Complete(w, l)
      BY <3>2, <3>3, <3>4, CompleteType
    <3>5. CASE /\ Goto(w, "store")
               /\ loc' = [loc EXCEPT ![w] = [l EXCEPT !.site = "gathered"]]
      <4>1. "store" \in PC
        BY DEF PC
      <4> QED BY <3>2, <3>3, <3>5, <4>1, UpdateType
    <3> QED BY <2>2, <3>4, <3>5
  <2> QED BY <2>1, <2>2 DEF Gather
<1> QED BY <1>2 DEF TypeOK, Gather, Placed, storeVars, envVars

LEMMA CancelTypeOK ==
    ASSUME TypeOK, NEW w \in Worker, Cancel(w)
    PROVE  TypeOK'
<1>1. Placed
  BY ExitType DEF Cancel
<1> QED BY <1>1 DEF TypeOK, KeepAlive, Cancel, Placed, storeVars, envVars

LEMMA SequenceTypeOK ==
    ASSUME TypeOK, NEW w \in Worker, Sequence(w)
    PROVE  TypeOK'
<1>1. loc[w] \in Local
  BY DEF TypeOK
<1>2. PICK seq \in SUBSET Open(w) : \E done \in SUBSET (Open(w) \ seq) :
          \E unreserved \in SUBSET seq :
             LET bad == (Open(w) \ (seq \cup done)) \cup unreserved
                 t == Set(Set(loc[w].task, done, "succeeded"), bad, "failed") IN
             /\ loc' = [loc EXCEPT ![w].task = t, ![w].tiers = IF seq = {} THEN 0
                                                                 ELSE MaxTier]
             /\ StoreTasks(t, done \cup bad)
  BY DEF Sequence
<1>3. PICK done \in SUBSET (Open(w) \ seq), unreserved \in SUBSET seq :
             LET bad == (Open(w) \ (seq \cup done)) \cup unreserved
                 t == Set(Set(loc[w].task, done, "succeeded"), bad, "failed") IN
             /\ loc' = [loc EXCEPT ![w].task = t, ![w].tiers = IF seq = {} THEN 0
                                                                 ELSE MaxTier]
             /\ StoreTasks(t, done \cup bad)
  BY <1>2
<1> DEFINE bad == (Open(w) \ (seq \cup done)) \cup unreserved
           t == Set(Set(loc[w].task, done, "succeeded"), bad, "failed")
           n == IF seq = {} THEN 0 ELSE MaxTier
           l == [loc[w] EXCEPT !.task = t, !.tiers = n]
<1>4. t \in [Comp -> Held]
  <2>1. Set(loc[w].task, done, "succeeded") \in [Comp -> Held]
    BY <1>1, SetType DEF Local, TaskStatus
  <2> QED BY <2>1, SetType DEF TaskStatus
<1>5. n \in 0..MaxTier
  BY ConstAssumption
<1>6. l \in Local
  BY <1>1, <1>4, <1>5 DEF Local
<1>7. loc' = [loc EXCEPT ![w] = l]
  BY <1>3 DEF TypeOK
<1>8. Placed
  <2>1. Goto(w, "tier") /\ "tier" \in PC
    BY DEF Sequence, PC
  <2> QED BY <1>6, <1>7, <2>1, UpdateType
<1>9. tdb' \in TaskDB /\ errs' \in 0..MaxErr
  <2>1. StoreTasks(t, done \cup bad)
    BY <1>3
  <2> QED BY <1>4, <2>1, StoreTasksType DEF TypeOK
<1> QED BY <1>8, <1>9 DEF TypeOK, Sequence, Placed, storeVars, envVars

LEMMA TierTypeOK ==
    ASSUME TypeOK, NEW w \in Worker, Tier(w)
    PROVE  TypeOK'
<1>1. loc[w] \in Local
  BY DEF TypeOK
<1>2. Placed /\ errs' \in 0..MaxErr
  <2> DEFINE label == IF Open(w) = {} THEN "done" ELSE "send"
             l     == [loc[w] EXCEPT !.tiers = @ - 1]
  <2>1. CASE loc[w].tiers > 0 /\ checkAbort(w, label, l)
    <3>1. l \in Local
      BY <1>1, <2>1, ConstAssumption DEF Local
    <3>2. label \in PC
      BY DEF PC
    <3> QED BY <2>1, <3>1, <3>2, checkAbortType
  <2>2. CASE NoError /\ Complete(w, loc[w])
    BY <1>1, <2>2, CompleteType, ErrorType DEF TypeOK
  <2> QED BY <2>1, <2>2 DEF Tier
<1> QED BY <1>2 DEF TypeOK, Tier, Placed, storeVars, envVars

LEMMA TiersDoneTypeOK ==
    ASSUME TypeOK, NEW w \in Worker, TiersDone(w)
    PROVE  TypeOK'
<1>1. Placed
  BY CompleteType DEF TiersDone, TypeOK
<1> QED BY <1>1 DEF TypeOK, TiersDone, Placed, storeVars, envVars

LEMMA SendTypeOK ==
    ASSUME TypeOK, NEW w \in Worker, Send(w)
    PROVE  TypeOK'
<1>1. loc[w] \in Local
  BY DEF TypeOK
<1>2. PICK T \in SUBSET Open(w), bad \in SUBSET Open(w) :
         LET t == Set(loc[w].task, bad, "failed") IN
         /\ loc' = [loc EXCEPT ![w].task = t, ![w].wait = T \ bad]
         /\ StoreTasks(t, T \cup bad)
  BY DEF Send
<1> DEFINE t == Set(loc[w].task, bad, "failed")
           l == [loc[w] EXCEPT !.task = t, !.wait = T \ bad]
<1>3. t \in [Comp -> Held]
  BY <1>1, SetType DEF Local, TaskStatus
<1>4. l \in Local
  BY <1>1, <1>3 DEF Local, Open
<1>5. loc' = [loc EXCEPT ![w] = l]
  BY <1>2 DEF TypeOK
<1>6. Placed
  <2>1. Goto(w, "confirm") /\ "confirm" \in PC
    BY DEF Send, PC
  <2> QED BY <1>4, <1>5, <2>1, UpdateType
<1>7. tdb' \in TaskDB /\ errs' \in 0..MaxErr
  <2>1. StoreTasks(t, T \cup bad)
    BY <1>2
  <2> QED BY <1>3, <2>1, StoreTasksType DEF TypeOK
<1> QED BY <1>6, <1>7 DEF TypeOK, Send, Placed, storeVars, envVars

LEMMA ConfirmTypeOK ==
    ASSUME TypeOK, NEW w \in Worker, Confirm(w)
    PROVE  TypeOK'
<1>1. loc[w] \in Local /\ "poll" \in PC
  BY DEF TypeOK, PC
<1>2. Placed /\ errs' \in 0..MaxErr
  BY <1>1, checkAbortType DEF Confirm
<1> QED BY <1>2 DEF TypeOK, Confirm, Placed, storeVars, envVars

\* A round of confirmation, whatever its outcome.
LEMMA PollWithType ==
    ASSUME TypeOK, NEW w \in Worker, NEW done, NEW next, NEW bad,
           PollWith(w, done, next, bad)
    PROVE  Placed /\ tdb' \in TaskDB /\ errs' \in 0..MaxErr
<1> DEFINE t    == Set(Set(loc[w].task, bad, "failed"), done, "succeeded")
           left == loc[w].wait \ (done \cup next \cup bad)
           l    == [loc[w] EXCEPT !.task = t, !.wait = left]
<1>1. loc[w] \in Local
  BY DEF TypeOK
<1>2. t \in [Comp -> Held]
  <2>1. Set(loc[w].task, bad, "failed") \in [Comp -> Held]
    BY <1>1, SetType DEF Local, TaskStatus
  <2> QED BY <2>1, SetType DEF TaskStatus
<1>3. l \in Local
  BY <1>1, <1>2 DEF Local
<1>4. loc' = [loc EXCEPT ![w] = l]
  BY DEF PollWith, TypeOK
<1>5. Placed
  <2> DEFINE label == IF left = {} THEN "tier" ELSE "confirm"
  <2>1. Goto(w, label)
    BY DEF PollWith
  <2>2. label \in PC
    BY DEF PC
  <2> QED BY <1>3, <1>4, <2>1, <2>2, UpdateType
<1>6. StoreTasks(t, done \cup bad)
  BY DEF PollWith
<1>7. tdb' \in TaskDB /\ errs' \in 0..MaxErr
  BY <1>2, <1>6, StoreTasksType DEF TypeOK
<1> QED BY <1>5, <1>7

LEMMA PollTypeOK ==
    ASSUME TypeOK, NEW w \in Worker, Poll(w) \/ PollDeadline(w)
    PROVE  TypeOK'
<1>1. Placed /\ tdb' \in TaskDB /\ errs' \in 0..MaxErr
  BY PollWithType DEF Poll, PollDeadline
<1>2. UNCHANGED <<ka, rp, cl, storeVars, envVars>>
  BY DEF Poll, PollDeadline
<1> QED BY <1>1, <1>2 DEF TypeOK, Placed, storeVars, envVars

LEMMA CompressTypeOK ==
    ASSUME TypeOK, NEW w \in Worker,
           CompressGet(w) \/ CompressStore(w) \/ CompressDelete(w)
    PROVE  TypeOK'
<1>1. loc[w] \in Local /\ [loc[w] EXCEPT !.lst = NoTasks] \in Local
  BY ValueTypes DEF TypeOK, Local
<1>2. errs' \in 0..MaxErr
  BY ErrorType DEF CompressGet, CompressStore, CompressDelete, TypeOK
<1>3. CASE CompressGet(w)
  <2>1. Placed
    <3>1. CASE Resume(w, loc[w])
      BY <1>1, <3>1, ResumeType
    <3>2. CASE loc' = [loc EXCEPT ![w].lst = tdb] /\ Goto(w, "cstore")
      <4>1. [loc[w] EXCEPT !.lst = tdb] \in Local
        BY <1>1 DEF Local, TypeOK
      <4>2. loc' = [loc EXCEPT ![w] = [loc[w] EXCEPT !.lst = tdb]]
        BY <3>2 DEF TypeOK
      <4>3. "cstore" \in PC
        BY DEF PC
      <4> QED BY <3>2, <4>1, <4>2, <4>3, UpdateType
    <3> QED BY <1>3, <3>1, <3>2 DEF CompressGet
  <2> QED BY <1>2, <1>3, <2>1 DEF TypeOK, CompressGet, Placed, storeVars, envVars
<1>4. CASE CompressStore(w)
  <2>1. CASE /\ Store(Compressed(loc[w].fin, loc[w].lst), FALSE)
             /\ Goto(w, "cdel") /\ UNCHANGED loc
    <3>1. Compressed(loc[w].fin, loc[w].lst) \in Record
      BY <1>1, RecordTypes DEF Local
    <3>2. rec' \in Record /\ stale' \in BOOLEAN /\ cur' \in CurType
      BY <2>1, <3>1, StoreType
    <3>3. Placed
      BY <2>1 DEF TypeOK, Goto, Placed, PC
    <3> QED BY <1>2, <1>4, <3>2, <3>3
         DEF TypeOK, CompressStore, Placed, CurType, envVars
  <2>2. CASE /\ Resume(w, [loc[w] EXCEPT !.lst = NoTasks])
             /\ UNCHANGED storeVars
    <3>1. Placed
      BY <1>1, <2>2, ResumeType
    <3> QED BY <1>2, <1>4, <2>2, <3>1
         DEF TypeOK, CompressStore, Placed, storeVars, envVars
  <2> QED BY <1>4, <2>1, <2>2 DEF CompressStore
<1>5. CASE CompressDelete(w)
  <2>1. Placed
    <3>1. CASE Resume(w, loc[w])
      BY <1>1, <3>1, ResumeType
    <3>2. ASSUME NEW c \in Comp, NEW i \in Tid, UNCHANGED pc,
                 loc' = [loc EXCEPT ![w].lst = Without(@, c, i)]
          PROVE  Placed
      <4>1. Without(loc[w].lst, c, i) \in TaskDB
        BY <1>1, WithoutType DEF Local
      <4>2. [loc[w] EXCEPT !.lst = Without(@, c, i)] \in Local
        BY <1>1, <4>1 DEF Local
      <4>3. loc' = [loc EXCEPT ![w] = [loc[w] EXCEPT !.lst = Without(@, c, i)]]
        BY <3>2 DEF TypeOK
      <4> QED BY <3>2, <4>2, <4>3 DEF TypeOK, Placed
    <3> QED BY <1>5, <3>1, <3>2 DEF CompressDelete
  <2>2. tdb' \in TaskDB
    BY <1>5, WithoutType DEF CompressDelete, TypeOK
  <2> QED BY <1>2, <1>5, <2>1, <2>2
       DEF TypeOK, CompressDelete, Placed, storeVars, envVars
<1> QED BY <1>3, <1>4, <1>5

LEMMA KeepAliveTypeOK ==
    ASSUME TypeOK, NEW w \in Worker, KeepAliveStep(w)
    PROVE  TypeOK'
<1>1. CASE KeepAliveGet(w)
  <2>1. ka' \in [Worker -> KeepAlive] /\ cur' \in CurType
    BY <1>1 DEF TypeOK, KeepAliveGet, KeepAlive, CurType
  <2> QED BY <1>1, <2>1 DEF TypeOK, KeepAliveGet, CurType, envVars
<1>2. CASE KeepAliveTAS(w)
  <2>1. rec' \in Record /\ stale' \in BOOLEAN /\ cur' \in CurType
    <3>1. CASE Store(rec, TRUE)
      BY <3>1, StoreType DEF TypeOK
    <3>2. CASE UNCHANGED storeVars
      BY <3>2 DEF TypeOK, CurType, storeVars
    <3> QED BY <1>2, <3>1, <3>2 DEF KeepAliveTAS
  <2>2. ka' \in [Worker -> KeepAlive]
    BY <1>2 DEF TypeOK, KeepAliveTAS, KeepAlive
  <2> QED BY <1>2, <2>1, <2>2 DEF TypeOK, KeepAliveTAS, CurType, envVars
<1> QED BY <1>1, <1>2 DEF KeepAliveStep

LEMMA ReaperIdleType ==
    ASSUME TypeOK, NEW p \in Pod, ReaperIdle(p)
    PROVE  rp' \in [Pod -> Reaper]
BY ValueTypes DEF TypeOK, ReaperIdle

\* A reaper moves on, perhaps with a new list of tasks.
LEMMA ReaperMoveType ==
    ASSUME TypeOK, NEW p \in Pod,
           NEW x \in {"idle", "got", "dtasks", "cstore", "cdel"}
    PROVE  /\ [rp EXCEPT ![p].pc = x] \in [Pod -> Reaper]
           /\ [rp EXCEPT ![p].pc = x, ![p].lst = tdb] \in [Pod -> Reaper]
<1>1. rp \in [Pod -> Reaper] /\ tdb \in TaskDB
  BY DEF TypeOK
<1>2. /\ [rp[p] EXCEPT !.pc = x] \in Reaper
      /\ [rp[p] EXCEPT !.pc = x, !.lst = tdb] \in Reaper
  BY <1>1 DEF Reaper
<1>3. /\ [rp EXCEPT ![p].pc = x] = [rp EXCEPT ![p] = [rp[p] EXCEPT !.pc = x]]
      /\ [rp EXCEPT ![p].pc = x, ![p].lst = tdb]
            = [rp EXCEPT ![p] = [rp[p] EXCEPT !.pc = x, !.lst = tdb]]
  BY <1>1
<1> QED BY <1>1, <1>2, <1>3

LEMMA ReaperUnlistType ==
    ASSUME TypeOK, NEW p \in Pod, NEW c \in Comp, NEW i \in Tid
    PROVE  [rp EXCEPT ![p].lst = Without(@, c, i)] \in [Pod -> Reaper]
<1>1. rp \in [Pod -> Reaper]
  BY DEF TypeOK
<1>2. Without(rp[p].lst, c, i) \in TaskDB
  BY <1>1, WithoutType DEF Reaper
<1>3. [rp[p] EXCEPT !.lst = Without(@, c, i)] \in Reaper
  BY <1>1, <1>2 DEF Reaper
<1>4. [rp EXCEPT ![p].lst = Without(@, c, i)]
         = [rp EXCEPT ![p] = [rp[p] EXCEPT !.lst = Without(@, c, i)]]
  BY <1>1
<1> QED BY <1>1, <1>3, <1>4

LEMMA ReaperGetTypeOK ==
    ASSUME TypeOK, NEW p \in Pod, ReaperGet(p)
    PROVE  TypeOK'
<1>1. [pc |-> "got", status |-> rec.status, zip |-> rec.zip, lst |-> NoTasks]
         \in Reaper
  BY ValueTypes DEF TypeOK, ReaperGet, Record, Reaper
<1>2. rp' \in [Pod -> Reaper]
  BY <1>1 DEF TypeOK, ReaperGet
<1>3. cur' \in CurType
  BY DEF TypeOK, ReaperGet, CurType
<1> QED BY <1>2, <1>3 DEF TypeOK, ReaperGet, CurType, envVars

LEMMA ReaperLiveTypeOK ==
    ASSUME TypeOK, NEW p \in Pod, ReaperLive(p)
    PROVE  TypeOK'
<1> DEFINE r == IF expired THEN [rec EXCEPT !.status = "abort-signaled"] ELSE rec
<1>1. r \in Record
  BY RecordTypes DEF TypeOK, Running
<1>2. rec' \in Record /\ stale' \in BOOLEAN /\ cur' \in CurType
  <2>1. Store(r, stale) /\ stale \in BOOLEAN
    BY DEF ReaperLive, TypeOK
  <2> QED BY <1>1, <2>1, StoreType
<1>3. pc' \in [Worker -> PC]
  BY DEF ReaperLive, Launch, Goto, TypeOK, PC
<1>4. rp' \in [Pod -> Reaper]
  BY ReaperIdleType DEF ReaperLive
<1>5. signaled' \in BOOLEAN
  BY DEF ReaperLive, TypeOK
<1> QED BY <1>2, <1>3, <1>4, <1>5 DEF TypeOK, ReaperLive, CurType

LEMMA ReaperPassTypeOK ==
    ASSUME TypeOK, NEW p \in Pod, ReaperPass(p)
    PROVE  TypeOK'
<1>1. rp' \in [Pod -> Reaper]
  BY ReaperIdleType DEF ReaperPass
<1>2. errs' \in 0..MaxErr
  BY ErrorType DEF ReaperPass, TypeOK
<1>3. cur' \in CurType
  BY DEF TypeOK, ReaperPass, CurType
<1> QED BY <1>1, <1>2, <1>3 DEF TypeOK, ReaperPass, CurType, envVars

LEMMA ReaperDeleteTypeOK ==
    ASSUME TypeOK, NEW p \in Pod,
           DeleteGet(p) \/ DeleteTask(p) \/ DeleteRecord(p)
    PROVE  TypeOK'
<1>1. rp' \in [Pod -> Reaper]
  <2>1. CASE DeleteGet(p)
    BY <2>1, ReaperMoveType DEF DeleteGet
  <2>2. CASE DeleteTask(p)
    <3>1. CASE ReaperIdle(p)
      BY <3>1, ReaperIdleType
    <3>2. ASSUME NEW c \in Comp, NEW i \in Tid,
                 rp' = [rp EXCEPT ![p].lst = Without(@, c, i)]
          PROVE  rp' \in [Pod -> Reaper]
      BY <3>2, ReaperUnlistType
    <3> QED BY <2>2, <3>1, <3>2 DEF DeleteTask
  <2>3. CASE DeleteRecord(p)
    BY <2>3, ReaperIdleType DEF DeleteRecord
  <2> QED BY <2>1, <2>2, <2>3
<1>2. CASE DeleteGet(p)
  BY <1>1, <1>2 DEF TypeOK, DeleteGet, storeVars, envVars
<1>3. CASE DeleteTask(p)
  <2>1. tdb' \in TaskDB
    BY <1>3, WithoutType DEF DeleteTask, TypeOK
  <2>2. errs' \in 0..MaxErr
    BY <1>3, ErrorType DEF DeleteTask, TypeOK
  <2> QED BY <1>1, <1>3, <2>1, <2>2 DEF TypeOK, DeleteTask, storeVars, envVars
<1>4. CASE DeleteRecord(p)
  <2>1. rec' \in Record /\ stale' \in BOOLEAN /\ cur' \in CurType
    <3>1. CASE Store(NoRec, FALSE)
      BY <3>1, StoreType, ValueTypes
    <3>2. CASE UNCHANGED storeVars
      BY <3>2 DEF TypeOK, CurType, storeVars
    <3> QED BY <1>4, <3>1, <3>2 DEF DeleteRecord
  <2>2. errs' \in 0..MaxErr
    BY <1>4, ErrorType DEF DeleteRecord, TypeOK
  <2> QED BY <1>1, <1>4, <2>1, <2>2 DEF TypeOK, DeleteRecord, CurType, envVars
<1> QED BY <1>2, <1>3, <1>4

LEMMA ReaperCompressTypeOK ==
    ASSUME TypeOK, NEW p \in Pod,
           \/ ReaperCompressGet(p) \/ ReaperCompressStore(p)
           \/ ReaperCompressDelete(p)
    PROVE  TypeOK'
<1>1. rp[p].lst \in TaskDB /\ rp[p].status \in Running \cup Terminal
  BY DEF TypeOK, Reaper
<1>2. rp' \in [Pod -> Reaper]
  <2>1. CASE ReaperCompressGet(p)
    BY <2>1, ReaperMoveType DEF ReaperCompressGet
  <2>2. CASE ReaperCompressStore(p)
    <3>1. CASE ReaperIdle(p)
      BY <3>1, ReaperIdleType
    <3>2. CASE rp' = [rp EXCEPT ![p].pc = "cdel"]
      BY <3>2, ReaperMoveType
    <3> QED BY <2>2, <3>1, <3>2 DEF ReaperCompressStore
  <2>3. CASE ReaperCompressDelete(p)
    <3>1. CASE ReaperIdle(p)
      BY <3>1, ReaperIdleType
    <3>2. ASSUME NEW c \in Comp, NEW i \in Tid,
                 rp' = [rp EXCEPT ![p].lst = Without(@, c, i)]
          PROVE  rp' \in [Pod -> Reaper]
      BY <3>2, ReaperUnlistType
    <3> QED BY <2>3, <3>1, <3>2 DEF ReaperCompressDelete
  <2> QED BY <2>1, <2>2, <2>3
<1>3. CASE ReaperCompressGet(p)
  BY <1>2, <1>3 DEF TypeOK, ReaperCompressGet, storeVars, envVars
<1>4. CASE ReaperCompressStore(p)
  <2>1. rec' \in Record /\ stale' \in BOOLEAN /\ cur' \in CurType
    <3>1. CASE Store(Compressed(rp[p].status, rp[p].lst), FALSE)
      <4>1. Compressed(rp[p].status, rp[p].lst) \in Record
        BY <1>1, RecordTypes
      <4> QED BY <3>1, <4>1, StoreType
    <3>2. CASE UNCHANGED storeVars
      BY <3>2 DEF TypeOK, CurType, storeVars
    <3> QED BY <1>4, <3>1, <3>2 DEF ReaperCompressStore
  <2>2. errs' \in 0..MaxErr
    BY <1>4, ErrorType DEF ReaperCompressStore, TypeOK
  <2> QED BY <1>2, <1>4, <2>1, <2>2
       DEF TypeOK, ReaperCompressStore, CurType, envVars
<1>5. CASE ReaperCompressDelete(p)
  <2>1. tdb' \in TaskDB
    BY <1>5, WithoutType DEF ReaperCompressDelete, TypeOK
  <2>2. errs' \in 0..MaxErr
    BY <1>5, ErrorType DEF ReaperCompressDelete, TypeOK
  <2> QED BY <1>2, <1>5, <2>1, <2>2 DEF TypeOK, ReaperCompressDelete, storeVars, envVars
<1> QED BY <1>3, <1>4, <1>5

\* The outcomes of a client's call.
LEMMA AnswerType ==
    ASSUME TypeOK, NEW c \in Client,
           NEW a \in {"get", "tas", "accepted", "refused", "failed"}, Answer(c, a)
    PROVE  cl' \in [Client -> Call]
<1>1. cl \in [Client -> Call]
  BY DEF TypeOK
<1>2. [cl[c] EXCEPT !.pc = a] \in Call
  BY <1>1 DEF Call
<1>3. cl' = [cl EXCEPT ![c] = [cl[c] EXCEPT !.pc = a]]
  BY <1>1 DEF Answer
<1> QED BY <1>1, <1>2, <1>3

LEMMA ClientTypeOK ==
    ASSUME TypeOK, NEW c \in Client, ClientStep(c)
    PROVE  TypeOK'
<1>1. CASE AbortGet(c)
  <2>1. cl' \in [Client -> Call]
    BY <1>1, AnswerType DEF AbortGet
  <2>2. errs' \in 0..MaxErr
    BY <1>1, ErrorType DEF AbortGet, TypeOK
  <2>3. cur' \in CurType
    BY <1>1 DEF TypeOK, AbortGet, CurType
  <2> QED BY <1>1, <2>1, <2>2, <2>3 DEF TypeOK, AbortGet, CurType, envVars
<1>2. CASE AbortTAS(c)
  <2>1. errs' \in 0..MaxErr
    BY <1>2, ErrorType DEF AbortTAS, TypeOK
  <2>2. CASE /\ Store([rec EXCEPT !.status = "abort-signaled"], FALSE)
             /\ signaled' = TRUE
             /\ Answer(c, "accepted")
    <3>1. [rec EXCEPT !.status = "abort-signaled"] \in Record
      BY RecordTypes DEF TypeOK, Running
    <3>2. rec' \in Record /\ stale' \in BOOLEAN /\ cur' \in CurType
      BY <2>2, <3>1, StoreType
    <3>3. cl' \in [Client -> Call]
      BY <2>2, AnswerType
    <3> QED BY <1>2, <2>1, <2>2, <3>2, <3>3 DEF TypeOK, AbortTAS, CurType
  <2>3. CASE /\ cl' = [cl EXCEPT ![c] = IF @.try < 2
                                     THEN [pc |-> "get", try |-> @.try + 1]
                                     ELSE [@ EXCEPT !.pc = "failed"]]
             /\ UNCHANGED <<storeVars, signaled>>
    <3>1. cl[c] \in Call
      BY DEF TypeOK
    <3>2. cl[c].try < 2 => [pc |-> "get", try |-> cl[c].try + 1] \in Call
      BY <3>1 DEF Call
    <3>3. [cl[c] EXCEPT !.pc = "failed"] \in Call
      BY <3>1 DEF Call
    <3>4. cl' \in [Client -> Call]
      BY <2>3, <3>2, <3>3 DEF TypeOK
    <3> QED BY <1>2, <2>1, <2>3, <3>4 DEF TypeOK, AbortTAS, storeVars
  <2>4. CASE Answer(c, "failed") /\ UNCHANGED <<storeVars, signaled>>
    <3>1. cl' \in [Client -> Call]
      BY <2>4, AnswerType
    <3> QED BY <1>2, <2>1, <2>4, <3>1 DEF TypeOK, AbortTAS, storeVars
  <2> QED BY <1>2, <2>2, <2>3, <2>4 DEF AbortTAS
<1> QED BY <1>1, <1>2 DEF ClientStep

LEMMA CrashTypeOK ==
    ASSUME TypeOK, NEW p \in Pod, Crash(p)
    PROVE  TypeOK'
<1>1. pc' \in [Worker -> PC]
  BY DEF TypeOK, Crash, PC
<1>2. loc' \in [Worker -> Local]
  BY ValueTypes DEF TypeOK, Crash
<1>3. ka' \in [Worker -> KeepAlive]
  BY DEF TypeOK, Crash, KeepAlive
<1>4. rp' \in [Pod -> Reaper]
  BY ReaperIdleType DEF Crash
<1>5. cur' \in CurType
  BY DEF TypeOK, Crash, CurType
<1>6. crashes' \in 0..MaxCrash
  BY ConstAssumption DEF TypeOK, Crash
<1> QED BY <1>1, <1>2, <1>3, <1>4, <1>5, <1>6 DEF TypeOK, Crash, CurType

LEMMA TimeTypeOK ==
    ASSUME TypeOK, Lapse \/ Expire
    PROVE  TypeOK'
BY DEF TypeOK, Lapse, Expire, storeVars, envVars

\* Every step keeps the types.
LEMMA NextTypeOK ==
    ASSUME TypeOK, [Next]_vars
    PROVE  TypeOK'
<1>1. ASSUME NEW w \in Worker, WorkerStep(w)
      PROVE  TypeOK'
  BY <1>1, StartWorkerTypeOK, LoadTasksTypeOK, CreateTaskTypeOK,
     SetupDoneTypeOK, StoreGetTypeOK, StoreTASTypeOK, StoreBlindTypeOK,
     doAbortTypeOK, GatherTypeOK, CancelTypeOK, SequenceTypeOK, TierTypeOK,
     TiersDoneTypeOK, SendTypeOK, ConfirmTypeOK, PollTypeOK, CompressTypeOK
  DEF WorkerStep
<1>2. ASSUME NEW p \in Pod, ReaperStep(p)
      PROVE  TypeOK'
  BY <1>2, ReaperGetTypeOK, ReaperLiveTypeOK, ReaperPassTypeOK,
     ReaperDeleteTypeOK, ReaperCompressTypeOK
  DEF ReaperStep
<1>3. CASE UNCHANGED vars
  BY <1>3 DEF vars, TypeOK
<1>4. ASSUME NEW w \in Worker, TriggerTransition(w) \/ KeepAliveStep(w)
      PROVE  TypeOK'
  BY <1>4, TriggerTypeOK, KeepAliveTypeOK
<1>5. ASSUME NEW p \in Pod, Crash(p)
      PROVE  TypeOK'
  BY <1>5, CrashTypeOK
<1>6. ASSUME NEW c \in Client, ClientStep(c)
      PROVE  TypeOK'
  BY <1>6, ClientTypeOK
<1>7. CASE Lapse \/ Expire
  BY <1>7, TimeTypeOK
<1> QED BY <1>1, <1>2, <1>3, <1>4, <1>5, <1>6, <1>7 DEF Next

\* The initial state is well formed, also when it is an older version's.
LEMMA InitTypeOK ==
    ASSUME Init
    PROVE  TypeOK
<1>1. rec \in Record /\ born \in BOOLEAN
  BY ValueTypes, RecordTypes DEF Init, Terminal
<1>2. tdb \in TaskDB
  BY ValueTypes DEF Init, TaskDB, TaskStatus
<1>3. cur \in CurType
  BY ValueTypes DEF Init
<1>4. pc \in [Worker -> PC] /\ loc \in [Worker -> Local]
  BY ValueTypes DEF Init, PC
<1>5. rp \in [Pod -> Reaper]
  BY ValueTypes DEF Init
<1>6. cl \in [Client -> Call]
  BY DEF Init, Call
<1>7. ka \in [Worker -> KeepAlive]
  BY DEF Init, KeepAlive
<1>8. stale \in BOOLEAN /\ expired \in BOOLEAN /\ signaled \in BOOLEAN
  BY DEF Init
<1>9. crashes \in 0..MaxCrash /\ errs \in 0..MaxErr
  BY ConstAssumption DEF Init
<1> QED BY <1>1, <1>2, <1>3, <1>4, <1>5, <1>6, <1>7, <1>8, <1>9 DEF TypeOK, CurType

\* Type correctness for every instance: the shapes of the record, of the task
\* records and of every goroutine's variables; storeTransition and
\* AbortTransitionID never start a fourth attempt.
THEOREM TypeCorrect == Spec => []TypeOK
<1>1. Init => TypeOK
  BY InitTypeOK
<1>2. TypeOK /\ [Next]_vars => TypeOK'
  BY NextTypeOK
<1> QED BY <1>1, <1>2, PTL DEF Spec

=============================================================================
