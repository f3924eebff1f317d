------------------------ MODULE LifecycleReportProofs ------------------------
(***************************************************************************)
(* What becomes of an abort signal and of the results of a transition, for *)
(* any number of pods, workers, callers, components, crashes and (unless a *)
(* theorem says otherwise) etcd errors.                                    *)
(*                                                                         *)
(* The argument.  doAbort leaves no task open, and every way to a command  *)
(* needs an open one.  A worker that overwrites an abort signal would have *)
(* to hold a snapshot taken before it, which its test-and-set refuses.     *)
(* Without a signal the record runs as long as a worker may add tasks      *)
(* (SingleWorkerProofs), so whoever lists the tasks of a finished record,  *)
(* or of one it is about to finish, lists all that will ever be there: the *)
(* compressed record has them and deletion leaves none.  Without errors    *)
(* the database has exactly the tasks the worker holds, and it finishes    *)
(* with all of them closed.  A signal that comes once finds that worker    *)
(* (SignalComes), which holds all tasks until it stores the record with    *)
(* none open (WorkerAnswers), and no worker sets out to abort after that   *)
(* (WorkerCourse).                                                         *)
(***************************************************************************)
EXTENDS SingleWorkerProofs

-----------------------------------------------------------------------------
(* The inductive invariants *)

\* After doAbort a worker has no open task, so that none of the ways
\* doTransition may go on reaches a command.
Calm(x, l) ==
    /\ x \in {"idle", "start"} => l = Fresh
    /\ x \in {"setup", "create"} => ~l.aborted
    /\ x \notin {"confirm", "poll"} => l.wait = {}
    /\ l.aborted => /\ \A c \in Comp : l.task[c].st # "open"
                    /\ x \notin {"send", "confirm", "poll"}

CalmInv == \A w \in Worker : Calm(pc[w], loc[w])

\* A worker whose snapshot shows an abort signal knows of it, and a reaper
\* deletes or compresses only what it has found finished.
Informed ==
    /\ \A w \in Worker :
          (pc[w] = "tas" /\ w \in cur.w /\ rec.status = "abort-signaled")
              => loc[w].abort
    /\ \A p \in Pod :
          rp[p].pc \in {"dtasks", "cstore", "cdel"} => rp[p].status \in Terminal

\* Where nothing expires and nothing is pruned the record stays.
Stays ==
    /\ born => rec.status # "none"
    /\ \A w \in Worker : pc[w] # "blind"
    /\ \A p \in Pod : rp[p].pc # "dtasks"
    /\ ~expired

\* Whatever task the database db still has, the list l has it as it is.
Covers(db, l) ==
    \A c \in Comp, i \in Tid : db[c][i] # "none" => l[c][i] = db[c][i]

\* Without an abort signal: a list of tasks that replaces or deletes them is
\* complete, and the record that replaces them has them all.
Listed ==
    /\ \A p \in Pod : rp[p].pc \in {"dtasks", "cstore"} => Covers(tdb, rp[p].lst)
    /\ \A w \in Worker : pc[w] = "cstore" => loc[w].lst = tdb
    /\ \A w \in Worker : pc[w] = "cdel" => rec.status = "none" \/ rec.zip
    /\ \A p \in Pod : rp[p].pc = "cdel" => rec.status = "none" \/ rec.zip
    /\ rec.status \in Terminal /\ rec.zip => Covers(tdb, rec.report)
    /\ born /\ rec.status = "none" => Covers(tdb, NoTasks)

KeptInv == ~signaled => Listed

\* Where a worker is between setting up its tasks and its last store.
AtTasks == {"create", "store", "tas", "abort", "gather", "seq", "tier", "send",
            "confirm", "poll", "done", "cget", "cstore"}

\* Without errors the database has exactly the tasks the worker holds.
Mirror(db, t) ==
    \A c \in Comp, i \in Tid :
        db[c][i] = IF t[c].st # "none" /\ t[c].id = i THEN t[c].st ELSE "none"

\* A component has at most one task.
OneTask(db) ==
    \A c \in Comp, i, j \in Tid :
        db[c][i] # "none" /\ db[c][j] # "none" => i = j

\* Every component is reported finished.
Whole(l) ==
    \A c \in Comp : /\ \E i \in Tid : l[c][i] \in Finished
                    /\ \A i \in Tid : l[c][i] # "open"

\* What worker variables l and the database db are to each other at place x.
Holds(x, l, db) ==
    /\ x \in AtTasks => /\ Mirror(db, l.task)
                        /\ \A c \in Comp : l.task[c].st = "open" => c \in l.xnames
    /\ x \in AtTasks \ {"create"} => \A c \in Comp : l.task[c].st # "none"
    /\ x \in {"done", "cget", "cstore"} => \A c \in Comp : l.task[c].st # "open"

\* Without an abort signal and without errors: what the workers hold is what
\* the database has, and every finished record was compressed by its worker.
Sound ==
    /\ \A w \in Worker : Holds(pc[w], loc[w], tdb) /\ pc[w] # "cancel"
    /\ OneTask(tdb)
    /\ rec.zip => Whole(rec.report)
    /\ rec.status \in Terminal => rec.zip
    /\ \A p \in Pod : /\ rp[p].pc \notin {"cstore", "cdel"}
                      /\ rp[p].pc = "got" /\ rp[p].status \in Terminal => rp[p].zip

WholeInv == ~signaled /\ errs = 0 => Sound

-----------------------------------------------------------------------------
(* Steps seen from outside *)

\* A worker's step moves no other worker.
LEMMA OneMoves ==
    ASSUME TypeOK, NEW w \in Worker, WorkerStep(w)
    PROVE  /\ \A v \in Worker : v # w => pc'[v] = pc[v] /\ loc'[v] = loc[v]
           /\ UNCHANGED <<rp, cl, born, signaled, expired, crashes>>
<1>1. ASSUME NEW x, NEW l, Goto(w, x), loc' = [loc EXCEPT ![w] = l]
      PROVE  \A v \in Worker : v # w => pc'[v] = pc[v] /\ loc'[v] = loc[v]
  BY <1>1 DEF TypeOK, Goto
<1>2. Exit(w) => \E x, l : Goto(w, x) /\ loc' = [loc EXCEPT ![w] = l]
  BY DEF Exit
<1>3. ASSUME NEW l, Resume(w, l) \/ Complete(w, l) \/ StoreReturns(w, l)
      PROVE  \E x, m : Goto(w, x) /\ loc' = [loc EXCEPT ![w] = m]
  BY <1>2, <1>3 DEF Resume, Complete, StoreReturns
<1>4. ASSUME NEW x, NEW l, checkAbort(w, x, l)
      PROVE  \E y, m : Goto(w, y) /\ loc' = [loc EXCEPT ![w] = m]
  BY <1>4 DEF checkAbort
<1>6. UNCHANGED <<rp, cl, born, signaled, expired, crashes>>
  BY DEF WorkerStep, StartWorker, LoadTasks, CreateTask, SetupDone, StoreGet,
         StoreTAS, StoreBlind, doAbort, Gather, Cancel, Sequence, Tier, TiersDone,
         Send, Confirm, Poll, PollDeadline, CompressGet, CompressStore,
         CompressDelete, envVars
<1> SUFFICES \A v \in Worker : v # w => pc'[v] = pc[v] /\ loc'[v] = loc[v]
  BY <1>6
<1>7. CASE StartWorker(w) \/ Cancel(w) \/ SetupDone(w) \/ TiersDone(w) \/ StoreBlind(w)
  BY <1>7, <1>1, <1>2, <1>3
  DEF StartWorker, Cancel, SetupDone, TiersDone, StoreBlind, Goto, TypeOK
<1>8. CASE LoadTasks(w) \/ CreateTask(w) \/ StoreGet(w) \/ StoreTAS(w)
  <2>1. CASE LoadTasks(w)
    BY <2>1 DEF LoadTasks, Goto, TypeOK
  <2>2. CASE CreateTask(w)
    BY <2>2 DEF CreateTask, TypeOK
  <2>3. CASE StoreGet(w)
    BY <2>3, <1>1, <1>3 DEF StoreGet, Goto, TypeOK
  <2>4. CASE StoreTAS(w)
    BY <2>4, <1>1, <1>3 DEF StoreTAS, Goto, TypeOK
  <2> QED BY <1>8, <2>1, <2>2, <2>3, <2>4
<1>9. CASE doAbort(w) \/ Gather(w) \/ Sequence(w) \/ Send(w) \/ Poll(w) \/ PollDeadline(w)
  <2>1. CASE doAbort(w)
    BY <2>1 DEF doAbort, Goto, TypeOK
  <2>2. CASE Gather(w)
    BY <2>2, <1>1, <1>3 DEF Gather, Goto, TypeOK
  <2>3. CASE Sequence(w) \/ Send(w)
    BY <2>3 DEF Sequence, Send, Goto, TypeOK
  <2>4. CASE Poll(w) \/ PollDeadline(w)
    BY <2>4 DEF Poll, PollDeadline, PollWith, Goto, TypeOK
  <2> QED BY <1>9, <2>1, <2>2, <2>3, <2>4
<1>10. CASE Tier(w) \/ Confirm(w)
  BY <1>10, <1>1, <1>3, <1>4 DEF Tier, Confirm
<1>11. CASE CompressGet(w) \/ CompressStore(w) \/ CompressDelete(w)
  <2>1. CASE CompressGet(w)
    BY <2>1, <1>1, <1>3 DEF CompressGet, Goto, TypeOK
  <2>2. CASE CompressStore(w)
    BY <2>2, <1>1, <1>3 DEF CompressStore, Goto, TypeOK
  <2>3. CASE CompressDelete(w)
    BY <2>3, <1>1, <1>3 DEF CompressDelete, TypeOK
  <2> QED BY <1>11, <2>1, <2>2, <2>3
<1> QED BY <1>7, <1>8, <1>9, <1>10, <1>11 DEF WorkerStep

\* From where a worker gets to its stores.
LEMMA Arrivals ==
    ASSUME TypeOK, NEW w \in Worker, WorkerStep(w)
    PROVE  /\ pc'[w] \in {"tas", "blind"} => StoreGet(w)
           /\ pc'[w] = "cstore" => CompressGet(w)
           /\ pc'[w] = "cdel" => CompressStore(w) \/ CompressDelete(w)
<1> DEFINE Stop == {"tas", "blind", "cstore", "cdel"}
<1>1. ASSUME NEW x, Goto(w, x)
      PROVE  pc'[w] = x
  BY <1>1 DEF Goto, TypeOK
<1>2. ASSUME NEW l, Exit(w) \/ Resume(w, l) \/ Complete(w, l) \/ StoreReturns(w, l)
      PROVE  pc'[w] \notin Stop
  BY <1>1, <1>2 DEF Exit, Resume, Complete, StoreReturns
<1>3. ASSUME NEW x, NEW l, checkAbort(w, x, l), x \notin Stop
      PROVE  pc'[w] \notin Stop
  BY <1>1, <1>3 DEF checkAbort
<1>4. CASE \/ StartWorker(w) \/ LoadTasks(w) \/ SetupDone(w) \/ Gather(w) \/ Cancel(w)
  BY <1>1, <1>2, <1>4 DEF StartWorker, LoadTasks, SetupDone, Gather, Cancel
<1>5. CASE StoreTAS(w) \/ StoreBlind(w)
  <2>1. StoreReturns(w, loc[w]) \/ Goto(w, "store")
    BY <1>5 DEF StoreTAS, StoreBlind
  <2> QED BY <1>1, <1>2, <2>1
<1>6. CASE CreateTask(w) \/ doAbort(w)
  BY <1>1, <1>6 DEF CreateTask, doAbort
<1>7. CASE Tier(w) \/ TiersDone(w) \/ Confirm(w)
  BY <1>2, <1>3, <1>7 DEF Tier, TiersDone, Confirm
<1>8. CASE Sequence(w) \/ Send(w) \/ Poll(w) \/ PollDeadline(w)
  <2>1. Goto(w, "tier") \/ Goto(w, "confirm")
    BY <1>8 DEF Sequence, Send, Poll, PollDeadline, PollWith
  <2> QED BY <1>1, <2>1
<1>9. CASE StoreGet(w) \/ CompressGet(w) \/ CompressStore(w) \/ CompressDelete(w)
  BY <1>1, <1>2, <1>9 DEF StoreGet, CompressGet, CompressStore, CompressDelete
<1> QED BY <1>4, <1>5, <1>6, <1>7, <1>8, <1>9 DEF WorkerStep

\* Errors and abort signals are not forgotten.
LEMMA Remembered ==
    ASSUME TypeOK, [Next]_vars
    PROVE  (signaled => signaled') /\ (errs' = 0 => errs = 0 /\ ~Error)
<1>1. errs \in Nat
  BY ConstAssumption DEF TypeOK
<1>2. UNCHANGED errs \/ Error
  <2>1. ASSUME NEW t, NEW S, StoreTasks(t, S)
        PROVE  UNCHANGED errs \/ Error
    BY <2>1 DEF StoreTasks, NoError
  <2>2. ASSUME NEW w \in Worker, NEW x, NEW l, checkAbort(w, x, l)
        PROVE  UNCHANGED errs \/ Error
    BY <2>2 DEF checkAbort, NoError
  <2>3. ASSUME NEW w \in Worker, WorkerStep(w)
        PROVE  UNCHANGED errs \/ Error
    <3>1. CASE CreateTask(w) \/ doAbort(w)
      BY <2>1, <3>1 DEF CreateTask, doAbort, NoError
    <3>2. CASE Gather(w)
      BY <2>1, <3>2 DEF Gather
    <3>3. CASE Sequence(w) \/ Send(w) \/ Poll(w) \/ PollDeadline(w)
      BY <2>1, <3>3 DEF Sequence, Send, Poll, PollDeadline, PollWith
    <3>4. CASE Tier(w) \/ Confirm(w)
      BY <2>2, <3>4 DEF Tier, Confirm, NoError
    <3>5. CASE \/ StartWorker(w) \/ LoadTasks(w) \/ SetupDone(w) \/ StoreGet(w)
               \/ StoreTAS(w) \/ StoreBlind(w) \/ Cancel(w) \/ TiersDone(w)
      BY <3>5 DEF StartWorker, LoadTasks, SetupDone, StoreGet, StoreTAS, StoreBlind,
         Cancel, TiersDone, NoError
    <3>6. CASE CompressGet(w) \/ CompressStore(w) \/ CompressDelete(w)
      BY <3>6 DEF CompressGet, CompressStore, CompressDelete, NoError
    <3> QED BY <2>3, <3>1, <3>2, <3>3, <3>4, <3>5, <3>6 DEF WorkerStep
  <2>4. ASSUME NEW p \in Pod, ReaperStep(p)
        PROVE  UNCHANGED errs \/ Error
    BY <2>4 DEF ReaperStep, ReaperGet, ReaperLive, ReaperPass, DeleteGet, DeleteTask,
        DeleteRecord, ReaperCompressGet, ReaperCompressStore, ReaperCompressDelete, NoError
  <2>5. ASSUME NEW c \in Client, ClientStep(c)
        PROVE  UNCHANGED errs \/ Error
    BY <2>5 DEF ClientStep, AbortGet, AbortTAS, NoError
  <2>6. ASSUME NEW w \in Worker, TriggerTransition(w) \/ KeepAliveStep(w)
        PROVE  UNCHANGED errs
    BY <2>6 DEF TriggerTransition, KeepAliveStep, KeepAliveGet, KeepAliveTAS
  <2>7. CASE Lapse \/ Expire \/ UNCHANGED vars \/ \E p \in Pod : Crash(p)
    BY <2>7 DEF Lapse, Expire, vars, Crash
  <2> QED BY <2>3, <2>4, <2>5, <2>6, <2>7 DEF Next
<1>3. signaled => signaled'
  BY DEF Next, TriggerTransition, WorkerStep, StartWorker, LoadTasks, CreateTask,
      SetupDone, StoreGet, StoreTAS, StoreBlind, doAbort, Gather, Cancel, Sequence, Tier,
      TiersDone, Send, Confirm, Poll, PollDeadline, CompressGet, CompressStore,
      CompressDelete, KeepAliveStep, KeepAliveGet, KeepAliveTAS, ReaperStep, ReaperGet,
      ReaperLive, ReaperPass, DeleteGet, DeleteTask, DeleteRecord, ReaperCompressGet,
      ReaperCompressStore, ReaperCompressDelete, ClientStep, AbortGet, AbortTAS, Crash,
      Lapse, Expire, vars, envVars
<1> QED BY <1>1, <1>2, <1>3 DEF Error

-----------------------------------------------------------------------------
(* After an abort no command is sent *)

LEMMA SetStatus ==
    ASSUME NEW t \in [Comp -> Held], NEW S, NEW st, NEW c \in Comp
    PROVE  /\ Set(t, S, st)[c].id = t[c].id
           /\ Set(t, S, st)[c].st = IF c \in S THEN st ELSE t[c].st
BY DEF Set, Held

LEMMA FreshCalm ==
    ASSUME NEW x \in {"idle", "start", "setup"}
    PROVE  Calm(x, Fresh)
BY DEF Calm, Fresh

LEMMA ExitPlace ==
    ASSUME TypeOK, NEW w \in Worker, Exit(w)
    PROVE  pc'[w] = "idle" /\ loc'[w] = Fresh
BY DEF TypeOK, Exit, Goto

LEMMA MovePlace ==
    ASSUME TypeOK, NEW w \in Worker, NEW x, NEW l, Goto(w, x), loc' = [loc EXCEPT ![w] = l]
    PROVE  pc'[w] = x /\ loc'[w] = l
BY DEF TypeOK, Goto

LEMMA ResumeCalm ==
    ASSUME TypeOK, NEW w \in Worker, NEW l \in Local, Resume(w, l), l.wait = {},
           l.aborted => \A c \in Comp : l.task[c].st # "open"
    PROVE  Calm(pc'[w], loc'[w])
<1>1. CASE Exit(w)
  BY <1>1, ExitPlace, FreshCalm
<1>2. CASE /\ Goto(w, IF l.site = "setup" THEN "gather" ELSE "seq")
           /\ loc' = [loc EXCEPT ![w] = l]
  <2>1. pc'[w] \in {"gather", "seq"} /\ loc'[w] = l
    BY <1>2, MovePlace
  <2> QED BY <2>1 DEF Calm
<1> QED BY <1>1, <1>2 DEF Resume

LEMMA StoreReturnsCalm ==
    ASSUME TypeOK, NEW w \in Worker, NEW l \in Local, StoreReturns(w, l), l.wait = {},
           l.aborted => \A c \in Comp : l.task[c].st # "open"
    PROVE  Calm(pc'[w], loc'[w])
<1> DEFINE m == [l EXCEPT !.try = 0]
<1>1. m \in Local /\ m.wait = l.wait /\ m.aborted = l.aborted /\ m.task = l.task
  BY DEF Local
<1>2. CASE Goto(w, "abort") /\ loc' = [loc EXCEPT ![w] = m]
  <2>1. pc'[w] = "abort" /\ loc'[w] = m
    BY <1>2, MovePlace
  <2> QED BY <1>1, <2>1 DEF Calm
<1>3. CASE Resume(w, m)
  <2> HIDE DEF m
  <2> QED BY <1>1, <1>3, ResumeCalm
<1> QED BY <1>2, <1>3 DEF StoreReturns

LEMMA CompleteCalm ==
    ASSUME TypeOK, NEW w \in Worker, NEW l \in Local, Complete(w, l), l.wait = {},
           l.aborted => \A c \in Comp : l.task[c].st # "open"
    PROVE  Calm(pc'[w], loc'[w])
<1> DEFINE m == [l EXCEPT !.site = "end", !.fin = "completed"]
<1>1. m.wait = l.wait /\ m.aborted = l.aborted /\ m.task = l.task
  BY DEF Local
<1>2. pc'[w] = "cget" /\ loc'[w] = m
  BY MovePlace DEF Complete
<1> QED BY <1>1, <1>2 DEF Calm

\* What a worker's place and variables become, action by action.
LEMMA WorkerCalm ==
    ASSUME TypeOK, NEW w \in Worker, Calm(pc[w], loc[w]), WorkerStep(w)
    PROVE  Calm(pc'[w], loc'[w])
<1>1. loc[w] \in Local
  BY DEF TypeOK
<1>2. CASE StartWorker(w)
  <2>1. CASE Exit(w)
    BY <2>1, ExitPlace, FreshCalm
  <2>2. CASE Goto(w, "setup") /\ UNCHANGED loc
    <3>1. pc'[w] = "setup" /\ loc'[w] = Fresh
      BY <1>2, <2>2 DEF Calm, StartWorker, Goto, TypeOK
    <3> QED BY <3>1, FreshCalm
  <2> QED BY <1>2, <2>1, <2>2 DEF StartWorker
<1>3. CASE LoadTasks(w)
  <2>1. /\ pc[w] = "setup" /\ pc'[w] = "create"
        /\ loc'[w].aborted = loc[w].aborted /\ loc'[w].wait = loc[w].wait
    BY <1>3 DEF LoadTasks, Goto, TypeOK, Local
  <2> QED BY <2>1 DEF Calm
<1>4. CASE CreateTask(w)
  <2>1. /\ pc[w] = "create" /\ pc'[w] = "create"
        /\ loc'[w].aborted = loc[w].aborted /\ loc'[w].wait = loc[w].wait
    BY <1>4 DEF CreateTask, TypeOK, Local
  <2> QED BY <2>1 DEF Calm
<1>5. CASE SetupDone(w)
  <2>1. CASE Complete(w, loc[w])
    BY <1>1, <1>5, <2>1, CompleteCalm DEF SetupDone, Calm
  <2>2. CASE Goto(w, "store") /\ UNCHANGED loc
    BY <1>5, <2>2 DEF SetupDone, Calm, Goto, TypeOK
  <2> QED BY <1>5, <2>1, <2>2 DEF SetupDone
<1>6. CASE StoreGet(w)
  <2>1. pc[w] = "store"
    BY <1>6 DEF StoreGet
  <2>2. CASE StoreReturns(w, loc[w])
    BY <1>1, <2>1, <2>2, StoreReturnsCalm DEF Calm
  <2>3. CASE Goto(w, "blind") /\ UNCHANGED loc
    BY <2>1, <2>3 DEF Calm, Goto, TypeOK
  <2>4. CASE /\ Goto(w, "tas")
             /\ loc' = [loc EXCEPT
                          ![w].abort = @ \/ rec.status = "abort-signaled"]
    <3>1. /\ pc'[w] = "tas" /\ loc'[w].task = loc[w].task
          /\ loc'[w].aborted = loc[w].aborted /\ loc'[w].wait = loc[w].wait
      BY <2>4 DEF Goto, TypeOK, Local
    <3> QED BY <2>1, <3>1 DEF Calm
  <2> QED BY <1>6, <2>2, <2>3, <2>4 DEF StoreGet
<1>7. CASE StoreTAS(w) \/ StoreBlind(w)
  <2>1. pc[w] \in {"tas", "blind"}
    BY <1>7 DEF StoreTAS, StoreBlind
  <2>2. CASE StoreReturns(w, loc[w])
    BY <1>1, <2>1, <2>2, StoreReturnsCalm DEF Calm
  <2>3. CASE Goto(w, "store") /\ loc' = [loc EXCEPT ![w].try = @ + 1]
    <3>1. /\ pc'[w] = "store" /\ loc'[w].task = loc[w].task
          /\ loc'[w].aborted = loc[w].aborted /\ loc'[w].wait = loc[w].wait
      BY <2>3 DEF Goto, TypeOK, Local
    <3> QED BY <2>1, <3>1 DEF Calm
  <2> QED BY <1>7, <2>2, <2>3 DEF StoreTAS, StoreBlind
<1>8. CASE doAbort(w)
  <2>1. ASSUME NEW c \in Open(w), UNCHANGED pc, pc[w] = "abort",
               loc' = [loc EXCEPT ![w].task = Set(loc[w].task, {c}, "failed")]
        PROVE  Calm(pc'[w], loc'[w])
    <3>1. /\ loc'[w].task = Set(loc[w].task, {c}, "failed")
          /\ loc'[w].aborted = loc[w].aborted /\ loc'[w].wait = loc[w].wait
      BY <2>1 DEF TypeOK, Local
    <3>2. ~loc[w].aborted
      BY <2>1 DEF Calm, Open
    <3> QED BY <2>1, <3>1, <3>2 DEF Calm
  <2>2. CASE /\ pc[w] = "abort" /\ Open(w) = {} /\ Goto(w, "cget")
             /\ loc' = [loc EXCEPT ![w].fin = "aborted", ![w].aborted = TRUE,
                                   ![w].abort = FALSE]
    <3>1. /\ pc'[w] = "cget" /\ loc'[w].task = loc[w].task
          /\ loc'[w].aborted = TRUE /\ loc'[w].wait = loc[w].wait
      BY <2>2 DEF Goto, TypeOK, Local
    <3> QED BY <2>2, <3>1 DEF Calm, Open
  <2> QED BY <1>8, <2>1, <2>2 DEF doAbort
<1>9. CASE Gather(w)
  <2>1. pc[w] = "gather"
    BY <1>9 DEF Gather
  <2>2. CASE Goto(w, "cancel") /\ UNCHANGED loc
    BY <2>1, <2>2 DEF Calm, Goto, TypeOK
  <2>3. ASSUME NEW S, NEW l, l = [loc[w] EXCEPT !.task = Set(loc[w].task, S, "failed")],
               \/ Complete(w, l)
               \/ /\ Goto(w, "store")
                  /\ loc' = [loc EXCEPT ![w] = [l EXCEPT !.site = "gathered"]]
        PROVE  Calm(pc'[w], loc'[w])
    <3>1. /\ l \in Local /\ l.aborted = loc[w].aborted /\ l.wait = loc[w].wait
          /\ l.task = Set(loc[w].task, S, "failed")
      BY <1>1, <2>3, SetType DEF Local, TaskStatus
    <3>2. l.wait = {} /\ (l.aborted => \A c \in Comp : l.task[c].st # "open")
      BY <1>1, <2>1, <3>1, SetStatus DEF Calm, Local
    <3>3. CASE Complete(w, l)
      BY <3>1, <3>2, <3>3, CompleteCalm
    <3>4. CASE /\ Goto(w, "store")
               /\ loc' = [loc EXCEPT ![w] = [l EXCEPT !.site = "gathered"]]
      <4>1. pc'[w] = "store" /\ loc'[w] = [l EXCEPT !.site = "gathered"]
        BY <3>4, MovePlace
      <4> QED BY <3>1, <3>2, <4>1 DEF Calm, Local
    <3> QED BY <2>3, <3>3, <3>4
  <2> QED BY <1>9, <2>2, <2>3 DEF Gather
<1>10. CASE Cancel(w)
  BY <1>10, ExitPlace, FreshCalm DEF Cancel
<1>11. CASE Sequence(w)
  <2>1. PICK done, bad, n :
           loc' = [loc EXCEPT
                     ![w].task = Set(Set(loc[w].task, done, "succeeded"), bad, "failed"),
                     ![w].tiers = n]
    BY <1>11 DEF Sequence
  <2> DEFINE u == Set(loc[w].task, done, "succeeded")
  <2>2. pc[w] = "seq" /\ pc'[w] = "tier"
    BY <1>11 DEF Sequence, Goto, TypeOK
  <2>3. /\ loc'[w].task = Set(u, bad, "failed")
        /\ loc'[w].aborted = loc[w].aborted /\ loc'[w].wait = loc[w].wait
    BY <2>1 DEF TypeOK, Local
  <2>4. u \in [Comp -> Held]
    BY <1>1, SetType DEF Local, TaskStatus
  <2>5. \A c \in Comp : u[c].st = "open" => loc[w].task[c].st = "open"
    BY <1>1, SetStatus DEF Local
  <2> HIDE DEF u
  <2>6. \A c \in Comp : loc'[w].task[c].st = "open" => loc[w].task[c].st = "open"
    BY <2>3, <2>4, <2>5, SetStatus
  <2> QED BY <2>2, <2>3, <2>6 DEF Calm
<1>12. ASSUME NEW x \in {"done", "send", "poll"}, NEW l \in Local, checkAbort(w, x, l),
              x # "poll" => l.wait = {},
              l.aborted => x = "done" /\ \A c \in Comp : l.task[c].st # "open"
       PROVE  Calm(pc'[w], loc'[w])
  <2>1. CASE /\ Goto(w, "abort")
             /\ loc' = [loc EXCEPT ![w] = [l EXCEPT !.site = "end", !.wait = {}]]
    <3>1. pc'[w] = "abort" /\ loc'[w] = [l EXCEPT !.site = "end", !.wait = {}]
      BY <2>1, MovePlace
    <3> QED BY <1>12, <3>1 DEF Calm, Local
  <2>2. CASE Goto(w, x) /\ loc' = [loc EXCEPT ![w] = l]
    <3>1. pc'[w] = x /\ loc'[w] = l
      BY <2>2, MovePlace
    <3> QED BY <1>12, <3>1 DEF Calm
  <2> QED BY <1>12, <2>1, <2>2 DEF checkAbort
<1>13. CASE Tier(w)
  <2>1. pc[w] = "tier"
    BY <1>13 DEF Tier
  <2> DEFINE x == IF Open(w) = {} THEN "done" ELSE "send"
             l == [loc[w] EXCEPT !.tiers = @ - 1]
  <2>2. CASE loc[w].tiers > 0 /\ checkAbort(w, x, l)
    <3>1. /\ l \in Local /\ l.aborted = loc[w].aborted /\ l.wait = loc[w].wait
          /\ l.task = loc[w].task
      BY <1>1, <2>2, ConstAssumption DEF Local
    <3>2. x \in {"done", "send", "poll"} /\ x # "poll"
      OBVIOUS
    <3>3. l.aborted => x = "done" /\ \A c \in Comp : l.task[c].st # "open"
      BY <3>1 DEF Calm, Open
    <3>4. l.wait = {}
      BY <2>1, <3>1 DEF Calm
    <3> HIDE DEF x, l
    <3> QED BY <1>12, <2>2, <3>1, <3>2, <3>3, <3>4
  <2>3. CASE Complete(w, loc[w])
    BY <1>1, <2>1, <2>3, CompleteCalm DEF Calm
  <2> QED BY <1>13, <2>2, <2>3 DEF Tier
<1>14. CASE TiersDone(w)
  BY <1>1, <1>14, CompleteCalm DEF TiersDone, Calm
<1>15. CASE Send(w)
  <2>1. PICK t, s : loc' = [loc EXCEPT ![w].task = t, ![w].wait = s]
    BY <1>15 DEF Send
  <2>2. pc[w] = "send" /\ pc'[w] = "confirm" /\ loc'[w].aborted = loc[w].aborted
    BY <1>15, <2>1 DEF Send, Goto, TypeOK, Local
  <2> QED BY <2>2 DEF Calm
<1>16. CASE Confirm(w)
  <2>1. pc[w] = "confirm" /\ checkAbort(w, "poll", loc[w])
    BY <1>16 DEF Confirm
  <2> QED BY <1>1, <1>12, <2>1 DEF Calm
<1>17. CASE Poll(w) \/ PollDeadline(w)
  <2>1. PICK done, next, bad : PollWith(w, done, next, bad)
    BY <1>17 DEF Poll, PollDeadline
  <2> DEFINE left == loc[w].wait \ (done \cup next \cup bad)
  <2>2. pc[w] = "poll"
    BY <1>17 DEF Poll, PollDeadline
  <2>3. pc'[w] = IF left = {} THEN "tier" ELSE "confirm"
    BY <2>1 DEF PollWith, Goto, TypeOK
  <2>4. loc'[w].aborted = loc[w].aborted /\ loc'[w].wait = left
    BY <2>1 DEF PollWith, TypeOK, Local
  <2> QED BY <2>2, <2>3, <2>4 DEF Calm
<1>18. CASE CompressGet(w)
  <2>1. pc[w] = "cget"
    BY <1>18 DEF CompressGet
  <2>2. CASE Resume(w, loc[w])
    BY <1>1, <2>1, <2>2, ResumeCalm DEF Calm
  <2>3. CASE loc' = [loc EXCEPT ![w].lst = tdb] /\ Goto(w, "cstore")
    <3>1. /\ pc'[w] = "cstore" /\ loc'[w].task = loc[w].task
          /\ loc'[w].aborted = loc[w].aborted /\ loc'[w].wait = loc[w].wait
      BY <2>3 DEF Goto, TypeOK, Local
    <3> QED BY <2>1, <3>1 DEF Calm
  <2> QED BY <1>18, <2>2, <2>3 DEF CompressGet
<1>19. CASE CompressStore(w)
  <2>1. pc[w] = "cstore"
    BY <1>19 DEF CompressStore
  <2>2. CASE Resume(w, [loc[w] EXCEPT !.lst = NoTasks])
    <3> DEFINE l == [loc[w] EXCEPT !.lst = NoTasks]
    <3>1. /\ l \in Local /\ l.aborted = loc[w].aborted /\ l.wait = loc[w].wait
          /\ l.task = loc[w].task
      BY <1>1, ValueTypes DEF Local
    <3>2. Resume(w, l)
      BY <2>2
    <3> HIDE DEF l
    <3> QED BY <2>1, <3>1, <3>2, ResumeCalm DEF Calm
  <2>3. CASE Goto(w, "cdel") /\ UNCHANGED loc
    BY <2>1, <2>3 DEF Calm, Goto, TypeOK
  <2> QED BY <1>19, <2>2, <2>3 DEF CompressStore
<1>20. CASE CompressDelete(w)
  <2>1. pc[w] = "cdel"
    BY <1>20 DEF CompressDelete
  <2>2. CASE Resume(w, loc[w])
    BY <1>1, <2>1, <2>2, ResumeCalm DEF Calm
  <2>3. ASSUME NEW d, UNCHANGED pc, loc' = [loc EXCEPT ![w].lst = d]
        PROVE  Calm(pc'[w], loc'[w])
    <3>1. /\ loc'[w].task = loc[w].task
          /\ loc'[w].aborted = loc[w].aborted /\ loc'[w].wait = loc[w].wait
      BY <2>3 DEF TypeOK, Local
    <3> QED BY <2>1, <2>3, <3>1 DEF Calm
  <2> QED BY <1>20, <2>2, <2>3 DEF CompressDelete
<1> QED BY <1>2, <1>3, <1>4, <1>5, <1>6, <1>7, <1>8, <1>9, <1>10, <1>11, <1>13,
           <1>14, <1>15, <1>16, <1>17, <1>18, <1>19, <1>20 DEF WorkerStep

LEMMA NextCalm ==
    ASSUME TypeOK, IInv, CalmInv, [Next]_vars
    PROVE  CalmInv'
<1>1. ASSUME NEW w \in Worker, WorkerStep(w)
      PROVE  CalmInv'
  BY <1>1, WorkerCalm, OneMoves DEF CalmInv
<1>2. ASSUME NEW w \in Worker, pc[w] = "idle", pc' = [pc EXCEPT ![w] = "start"],
             UNCHANGED loc
      PROVE  CalmInv'
  <2>1. loc'[w] = Fresh /\ pc'[w] = "start"
    BY <1>2 DEF CalmInv, Calm, TypeOK
  <2>2. \A v \in Worker : v # w => pc'[v] = pc[v] /\ loc'[v] = loc[v]
    BY <1>2 DEF TypeOK
  <2> QED BY <2>1, <2>2, FreshCalm DEF CalmInv
<1>3. ASSUME NEW w \in Worker, TriggerTransition(w)
      PROVE  CalmInv'
  BY <1>2, <1>3 DEF TriggerTransition, Goto, IInv, Unborn
<1>4. CASE UNCHANGED <<pc, loc>>
  BY <1>4 DEF CalmInv
<1>5. ASSUME NEW p \in Pod, ReaperStep(p)
      PROVE  CalmInv'
  <2>1. CASE UNCHANGED loc /\ Launch(p)
    BY <1>2, <2>1 DEF Launch, Goto
  <2>2. UNCHANGED loc /\ (UNCHANGED pc \/ Launch(p))
    BY <1>5 DEF ReaperStep, ReaperGet, ReaperLive, ReaperPass, DeleteGet, DeleteTask,
                DeleteRecord, ReaperCompressGet, ReaperCompressStore, ReaperCompressDelete
  <2> QED BY <1>4, <2>1, <2>2
<1>6. ASSUME NEW p \in Pod, Crash(p)
      PROVE  CalmInv'
  <2>1. \A v \in Worker : \/ pc'[v] = pc[v] /\ loc'[v] = loc[v]
                          \/ pc'[v] = "idle" /\ loc'[v] = Fresh
    BY <1>6 DEF Crash
  <2> QED BY <2>1, FreshCalm DEF CalmInv
<1>7. ASSUME NEW w \in Worker, KeepAliveStep(w)
      PROVE  CalmInv'
  BY <1>4, <1>7 DEF KeepAliveStep, KeepAliveGet, KeepAliveTAS
<1>8. ASSUME NEW c \in Client, ClientStep(c)
      PROVE  CalmInv'
  BY <1>4, <1>8 DEF ClientStep, AbortGet, AbortTAS
<1>9. CASE Lapse \/ Expire \/ UNCHANGED vars
  BY <1>4, <1>9 DEF Lapse, Expire, vars
<1> QED BY <1>1, <1>3, <1>5, <1>6, <1>7, <1>8, <1>9 DEF Next

\* After doAbort a worker waits for no component and sends no command, for any
\* number of pods, workers, callers, components, crashes and etcd errors.
THEOREM NoCommandAfterAbort == Spec => []AbortStopsCommands
<1>1. Init => CalmInv
  BY FreshCalm DEF Init, CalmInv
<1>2. TypeOK /\ IInv /\ CalmInv /\ [Next]_vars => CalmInv'
  BY NextCalm
<1>3. CalmInv => AbortStopsCommands
  BY DEF CalmInv, Calm, AbortStopsCommands
<1> QED BY <1>1, <1>2, <1>3, TypeCorrect, Invariance, PTL DEF Spec

-----------------------------------------------------------------------------
(* An abort signal is not lost *)

\* A store leaves the snapshots alone or makes them all old.
LEMMA StoreCur ==
    ASSUME NEW r, NEW f, Store(r, f)
    PROVE  UNCHANGED <<rec, cur>> \/ (cur'.w = {} /\ cur'.c = {})
BY DEF Store, NoCur

\* A worker gets to its test-and-set only by reading the record.
LEMMA WorkerInformed ==
    ASSUME TypeOK, Informed, NEW w \in Worker, WorkerStep(w)
    PROVE  Informed'
<1>1. /\ \A v \in Worker : v # w => pc'[v] = pc[v] /\ loc'[v] = loc[v]
      /\ UNCHANGED rp
  BY OneMoves
<1>2. CASE StoreGet(w)
  <2>1. UNCHANGED rec /\ \A v \in Worker : v # w => (v \in cur'.w => v \in cur.w)
    BY <1>2 DEF StoreGet, TypeOK
  <2>2. (pc'[w] = "tas" /\ rec.status = "abort-signaled") => loc'[w].abort
    <3>1. CASE StoreReturns(w, loc[w])
      <4>1. pc'[w] # "tas"
        BY <3>1 DEF StoreReturns, Resume, Exit, Goto, TypeOK
      <4> QED BY <4>1
    <3>2. CASE Goto(w, "blind")
      BY <3>2 DEF Goto, TypeOK
    <3>3. CASE loc' = [loc EXCEPT ![w].abort = @ \/ rec.status = "abort-signaled"]
      BY <3>3 DEF TypeOK, Local
    <3> QED BY <1>2, <3>1, <3>2, <3>3 DEF StoreGet
  <2> QED BY <1>1, <2>1, <2>2 DEF Informed
<1>3. CASE ~StoreGet(w)
  <2>1. UNCHANGED <<rec, cur>> \/ cur'.w = {}
    BY <1>3, StoreCur
    DEF WorkerStep, StartWorker, LoadTasks, CreateTask, SetupDone, StoreTAS, StoreBlind,
        doAbort, Gather, Cancel, Sequence, Tier, TiersDone, Send, Confirm, Poll,
        PollDeadline, CompressGet, CompressStore, CompressDelete, storeVars
  <2>2. pc'[w] # "tas"
    BY <1>3, Arrivals
  <2> QED BY <1>1, <2>1, <2>2 DEF Informed
<1> QED BY <1>2, <1>3

LEMMA NextInformed ==
    ASSUME TypeOK, Informed, [Next]_vars
    PROVE  Informed'
<1>1. ASSUME NEW w \in Worker, WorkerStep(w)
      PROVE  Informed'
  BY <1>1, WorkerInformed
<1>2. ASSUME \A v \in Worker : pc'[v] = "tas" => pc[v] = "tas" /\ loc'[v] = loc[v],
             \/ UNCHANGED rec /\ cur'.w \subseteq cur.w
             \/ cur'.w = {},
             \A p \in Pod : \/ rp'[p] = rp[p]
                            \/ rp'[p].pc \in {"idle", "got"}
                            \/ rp'[p].status \in Terminal
      PROVE  Informed'
  BY <1>2 DEF Informed
<1>3. ASSUME NEW w \in Worker, TriggerTransition(w)
      PROVE  Informed'
  <2>1. Store(Live("new"), TRUE) /\ pc' = [pc EXCEPT ![w] = "start"] /\ UNCHANGED <<loc, rp>>
    BY <1>3 DEF TriggerTransition, Goto
  <2> QED BY <1>2, <2>1, StoreCur DEF TypeOK
<1>4. ASSUME NEW w \in Worker, KeepAliveStep(w)
      PROVE  Informed'
  <2>1. UNCHANGED <<pc, loc, rp, rec>>
    BY <1>4 DEF KeepAliveStep, KeepAliveGet, KeepAliveTAS, Store, storeVars
  <2>2. cur'.w \subseteq cur.w
    BY <1>4 DEF TypeOK, KeepAliveStep, KeepAliveGet, KeepAliveTAS, Store, NoCur, storeVars
  <2> QED BY <1>2, <2>1, <2>2
<1>5. ASSUME NEW p \in Pod, ReaperStep(p)
      PROVE  Informed'
  <2>1. UNCHANGED loc /\ \A v \in Worker : pc'[v] = "tas" => pc[v] = "tas"
    BY <1>5 DEF ReaperStep, ReaperGet, ReaperLive, ReaperPass, DeleteGet, DeleteTask,
                DeleteRecord, ReaperCompressGet, ReaperCompressStore,
                ReaperCompressDelete, Launch, Goto, TypeOK
  <2>2. \/ UNCHANGED rec /\ cur'.w \subseteq cur.w
        \/ cur'.w = {}
    <3>1. CASE ReaperGet(p) \/ ReaperPass(p)
      BY <3>1 DEF ReaperGet, ReaperPass, TypeOK
    <3>2. CASE ReaperLive(p) \/ DeleteRecord(p) \/ ReaperCompressStore(p)
      BY <3>2, StoreCur DEF ReaperLive, DeleteRecord, ReaperCompressStore, storeVars
    <3>3. CASE \/ DeleteGet(p) \/ DeleteTask(p) \/ ReaperCompressGet(p)
               \/ ReaperCompressDelete(p)
      BY <3>3 DEF DeleteGet, DeleteTask, ReaperCompressGet, ReaperCompressDelete, storeVars
    <3> QED BY <1>5, <3>1, <3>2, <3>3 DEF ReaperStep
  <2>3. /\ \A q \in Pod : q # p => rp'[q] = rp[q]
        /\ rp'[p].pc \in {"idle", "got"} \/ rp'[p].status \in Terminal
    <3>1. CASE ReaperIdle(p)
      BY <3>1, ReaperIdleInv
    <3>2. CASE ReaperGet(p)
      BY <3>2 DEF ReaperGet, TypeOK
    <3>3. CASE DeleteGet(p) \/ ReaperCompressGet(p)
      BY <3>3 DEF DeleteGet, ReaperCompressGet, TypeOK, Reaper
    <3>4. CASE rp[p].pc = "cstore" /\ rp' = [rp EXCEPT ![p].pc = "cdel"]
      BY <3>4 DEF TypeOK, Reaper, Informed
    <3>5. ASSUME NEW d, rp[p].pc \in {"dtasks", "cdel"}, rp' = [rp EXCEPT ![p].lst = d]
          PROVE  /\ \A q \in Pod : q # p => rp'[q] = rp[q]
                 /\ rp'[p].pc \in {"idle", "got"} \/ rp'[p].status \in Terminal
      BY <3>5 DEF TypeOK, Reaper, Informed
    <3>6. CASE DeleteTask(p)
      BY <3>1, <3>5, <3>6 DEF DeleteTask
    <3>7. CASE ReaperCompressDelete(p)
      BY <3>1, <3>5, <3>7 DEF ReaperCompressDelete
    <3>8. CASE \/ ReaperLive(p) \/ ReaperPass(p) \/ DeleteRecord(p)
               \/ ReaperCompressStore(p)
      BY <3>1, <3>4, <3>8 DEF ReaperLive, ReaperPass, DeleteRecord, ReaperCompressStore
    <3> QED BY <1>5, <3>2, <3>3, <3>6, <3>7, <3>8 DEF ReaperStep
  <2> QED BY <1>2, <2>1, <2>2, <2>3
<1>6. ASSUME NEW p \in Pod, Crash(p)
      PROVE  Informed'
  <2>1. \A v \in Worker : pc'[v] = "tas" => pc[v] = "tas" /\ loc'[v] = loc[v]
    BY <1>6 DEF Crash
  <2>2. UNCHANGED rec /\ cur'.w \subseteq cur.w
    BY <1>6 DEF Crash, TypeOK
  <2>3. rp'[p].pc = "idle" /\ \A q \in Pod : q # p => rp'[q] = rp[q]
    BY <1>6, ReaperIdleInv DEF Crash
  <2> QED BY <1>2, <2>1, <2>2, <2>3
<1>7. ASSUME NEW c \in Client, ClientStep(c)
      PROVE  Informed'
  <2>1. UNCHANGED <<pc, loc, rp>>
    BY <1>7 DEF ClientStep, AbortGet, AbortTAS
  <2>2. \/ UNCHANGED rec /\ cur'.w \subseteq cur.w
        \/ cur'.w = {}
    BY <1>7, StoreCur DEF ClientStep, AbortGet, AbortTAS, TypeOK, storeVars
  <2> QED BY <1>2, <2>1, <2>2
<1>8. CASE Lapse \/ Expire \/ UNCHANGED vars
  BY <1>2, <1>8 DEF Lapse, Expire, vars, storeVars
<1> QED BY <1>1, <1>3, <1>4, <1>5, <1>6, <1>7, <1>8 DEF Next

\* Only a worker that once found the record missing can store over a signal.
LEMMA SignalStep ==
    ASSUME TypeOK, IInv, Informed, [Next]_vars, rec.status = "abort-signaled",
           \A w \in Worker : pc[w] # "blind"
    PROVE  rec'.status \in {"abort-signaled", "none"} \cup Terminal
<1>1. ASSUME NEW w \in Worker, WorkerStep(w)
      PROVE  rec'.status \in {"abort-signaled", "none"} \cup Terminal
  <2>1. CASE StoreTAS(w)
    <3>1. CASE w \in cur.w /\ Store(Live(StoredStatus(loc[w])), TRUE)
      <4>1. loc[w].abort
        BY <2>1, <3>1 DEF StoreTAS, Informed
      <4> QED BY <3>1, <4>1 DEF Store, Live, StoredStatus
    <3> QED BY <2>1, <3>1 DEF StoreTAS, storeVars
  <2>2. CASE CompressStore(w)
    <3>1. loc[w].fin \in Terminal
      BY DEF TypeOK, Local
    <3> QED BY <2>2, <3>1 DEF CompressStore, Store, Compressed, storeVars
  <2>3. CASE ~StoreTAS(w) /\ ~CompressStore(w)
    <3>1. rec' = rec
      BY <1>1, <2>3
      DEF WorkerStep, StartWorker, LoadTasks, CreateTask, SetupDone, StoreGet, StoreBlind,
          doAbort, Gather, Cancel, Sequence, Tier, TiersDone, Send, Confirm, Poll,
          PollDeadline, CompressGet, CompressDelete, storeVars
    <3> QED BY <3>1
  <2> QED BY <2>1, <2>2, <2>3
<1>2. ASSUME NEW w \in Worker, TriggerTransition(w)
      PROVE  FALSE
  BY <1>2 DEF TriggerTransition, IInv, Unborn
<1>3. ASSUME NEW p \in Pod, ReaperStep(p)
      PROVE  rec'.status \in {"abort-signaled", "none"} \cup Terminal
  <2>1. CASE ReaperLive(p)
    BY <2>1 DEF ReaperLive, Store, TypeOK, Record
  <2>2. CASE DeleteRecord(p)
    BY <2>2 DEF DeleteRecord, Store, NoRec, storeVars
  <2>3. CASE ReaperCompressStore(p)
    BY <2>3 DEF ReaperCompressStore, Informed, Store, Compressed, storeVars
  <2>4. CASE UNCHANGED rec
    BY <2>4
  <2> QED BY <1>3, <2>1, <2>2, <2>3, <2>4
       DEF ReaperStep, ReaperGet, ReaperPass, DeleteGet, DeleteTask,
           ReaperCompressGet, ReaperCompressDelete, storeVars
<1>4. ASSUME NEW c \in Client, ClientStep(c)
      PROVE  rec'.status \in {"abort-signaled", "none"} \cup Terminal
  BY <1>4 DEF ClientStep, AbortGet, AbortTAS, Store, storeVars, TypeOK, Record
<1>5. ASSUME NEW w \in Worker, KeepAliveStep(w)
      PROVE  rec' = rec
  BY <1>5 DEF KeepAliveStep, KeepAliveGet, KeepAliveTAS, Store, storeVars
<1>6. CASE UNCHANGED vars \/ Lapse \/ Expire \/ \E p \in Pod : Crash(p)
  BY <1>6 DEF vars, Lapse, Expire, Crash, storeVars
<1> QED BY <1>1, <1>2, <1>3, <1>4, <1>5, <1>6 DEF Next

\* Where nothing expires and nothing is pruned, no step deletes the record and
\* no worker finds it missing.
LEMMA NextStays ==
    ASSUME TypeOK, IInv, Informed, Stays, CanExpire = FALSE, CanPrune = FALSE, [Next]_vars
    PROVE  Stays'
<1>1. ASSUME NEW w \in Worker, WorkerStep(w)
      PROVE  Stays'
  <2>1. /\ \A v \in Worker : v # w => pc'[v] = pc[v]
        /\ UNCHANGED <<rp, born, expired>>
    BY <1>1, OneMoves
  <2>2. pc[w] # "idle"
    BY <1>1 DEF WorkerStep, StartWorker, LoadTasks, CreateTask, SetupDone, StoreGet,
        StoreTAS, StoreBlind, doAbort, Gather, Cancel, Sequence, Tier, TiersDone, Send,
        Confirm, Poll, PollDeadline, CompressGet, CompressStore, CompressDelete
  <2>3. born /\ rec.status # "none"
    BY <2>2 DEF IInv, Unborn, Stays
  <2>4. rec'.status # "none"
    <3>1. CASE StoreTAS(w) \/ StoreBlind(w)
      BY <2>3, <3>1 DEF StoreTAS, StoreBlind, Store, Live, StoredStatus, storeVars
    <3>2. CASE CompressStore(w)
      <4>1. loc[w].fin # "none"
        BY DEF TypeOK, Local, Terminal
      <4> QED BY <2>3, <3>2, <4>1 DEF CompressStore, Store, Compressed, storeVars
    <3>3. CASE ~StoreTAS(w) /\ ~StoreBlind(w) /\ ~CompressStore(w)
      <4>1. rec' = rec
        BY <1>1, <3>3
        DEF WorkerStep, StartWorker, LoadTasks, CreateTask, SetupDone, StoreGet,
            doAbort, Gather, Cancel, Sequence, Tier, TiersDone, Send, Confirm, Poll,
            PollDeadline, CompressGet, CompressDelete, storeVars
      <4> QED BY <2>3, <4>1
    <3> QED BY <3>1, <3>2, <3>3
  <2>5. pc'[w] # "blind"
    <3>1. CASE StoreGet(w)
      <4>1. ASSUME NEW l, StoreReturns(w, l)
            PROVE  pc'[w] # "blind"
        BY <4>1 DEF StoreReturns, Resume, Exit, Goto, TypeOK
      <4> QED BY <2>3, <3>1, <4>1 DEF StoreGet, Goto, TypeOK
    <3> QED BY <1>1, <3>1, Arrivals
  <2> QED BY <2>1, <2>4, <2>5 DEF Stays
<1>2. ASSUME NEW w \in Worker, TriggerTransition(w)
      PROVE  Stays'
  BY <1>2 DEF TriggerTransition, Stays, Store, Live, Goto, TypeOK
<1>3. ASSUME NEW w \in Worker, KeepAliveStep(w)
      PROVE  Stays'
  BY <1>3 DEF KeepAliveStep, KeepAliveGet, KeepAliveTAS, Store, storeVars, envVars, Stays
<1>4. ASSUME NEW p \in Pod, ReaperStep(p)
      PROVE  Stays'
  <2>1. UNCHANGED <<born, expired>> /\ \A v \in Worker : pc'[v] # "blind"
    BY <1>4 DEF ReaperStep, ReaperGet, ReaperLive, ReaperPass, DeleteGet, DeleteTask,
                DeleteRecord, ReaperCompressGet, ReaperCompressStore,
                ReaperCompressDelete, Launch, Goto, TypeOK, Stays, envVars
  <2>2. ~DeleteGet(p) /\ ~DeleteTask(p) /\ ~DeleteRecord(p)
    BY DEF DeleteGet, DeleteTask, DeleteRecord, Stays
  <2>3. \A q \in Pod : rp'[q].pc # "dtasks"
    <3>1. CASE ReaperIdle(p)
      BY <3>1, ReaperIdleInv DEF Stays
    <3>3. CASE ReaperGet(p)
      BY <3>3 DEF ReaperGet, TypeOK, Stays
    <3>4. CASE ReaperCompressGet(p) \/ ReaperCompressStore(p) \/ ReaperCompressDelete(p)
      BY <3>1, <3>4 DEF ReaperCompressGet, ReaperCompressStore, ReaperCompressDelete,
             TypeOK, Reaper, Stays
    <3> QED BY <1>4, <2>2, <3>1, <3>3, <3>4 DEF ReaperStep, ReaperLive, ReaperPass
  <2>4. rec.status # "none" => rec'.status # "none"
    <3>1. CASE ReaperLive(p)
      BY <3>1 DEF ReaperLive, Store, TypeOK, Record
    <3>2. CASE ReaperCompressStore(p)
      BY <3>2 DEF ReaperCompressStore, Informed, Store, Compressed, storeVars, Terminal
    <3> QED BY <1>4, <2>2, <3>1, <3>2
        DEF ReaperStep, ReaperGet, ReaperPass, ReaperCompressGet, ReaperCompressDelete,
            storeVars
  <2> QED BY <2>1, <2>3, <2>4 DEF Stays
<1>5. ASSUME NEW c \in Client, ClientStep(c)
      PROVE  Stays'
  <2>1. UNCHANGED <<pc, rp, born, expired>>
    BY <1>5 DEF ClientStep, AbortGet, AbortTAS, envVars
  <2>2. rec.status # "none" => rec'.status # "none"
    BY <1>5 DEF ClientStep, AbortGet, AbortTAS, Store, storeVars, TypeOK, Record
  <2> QED BY <2>1, <2>2 DEF Stays
<1>6. ASSUME NEW p \in Pod, Crash(p)
      PROVE  Stays'
  <2>1. UNCHANGED <<rec, born, expired>> /\ \A v \in Worker : pc'[v] # "blind"
    BY <1>6 DEF Crash, Stays
  <2>2. \A q \in Pod : rp'[q].pc # "dtasks"
    BY <1>6, ReaperIdleInv DEF Crash, Stays
  <2> QED BY <2>1, <2>2 DEF Stays
<1>7. CASE Lapse \/ Expire \/ UNCHANGED vars
  BY <1>7 DEF Lapse, Expire, vars, storeVars, envVars, Stays
<1> QED BY <1>1, <1>2, <1>3, <1>4, <1>5, <1>6, <1>7 DEF Next

LEMMA InitInformed ==
    ASSUME Init
    PROVE  Informed /\ Stays
<1>1. /\ pc = [w \in Worker |-> "idle"] /\ rp = [p \in Pod |-> IdleReaper] /\ ~expired
  BY DEF Init
<1>2. born => rec.status # "none"
  BY DEF Init, Live
<1> QED BY <1>1, <1>2 DEF Informed, Stays, IdleReaper

\* An abort signal is never overwritten by a record that was read before it,
\* for any number of pods, workers, callers, crashes and etcd errors, where no
\* record is deleted: a worker that finds its record deleted stores it blindly.
THEOREM SignalSurvives ==
    ASSUME CanExpire = FALSE, CanPrune = FALSE
    PROVE  Spec => AbortNotDropped
<1>1. Init => Informed /\ Stays
  BY InitInformed
<1>2. TypeOK /\ IInv /\ Informed /\ Stays /\ [Next]_vars => Informed' /\ Stays'
  BY NextInformed, NextStays
<1>3. TypeOK /\ IInv /\ Informed /\ Stays /\ [Next]_vars
         => [rec.status = "abort-signaled"
                => rec'.status \in {"abort-signaled", "none"} \cup Terminal]_rec
  BY SignalStep DEF Stays
<1> QED BY <1>1, <1>2, <1>3, TypeCorrect, Invariance, PTL DEF Spec, AbortNotDropped

-----------------------------------------------------------------------------
(* Results are kept, and nothing is left of a deleted transition *)

\* The database has lost some tasks and gained none.
Shrinks ==
    \A c \in Comp, i \in Tid : tdb'[c][i] = tdb[c][i] \/ tdb'[c][i] = "none"

LEMMA WithoutShrinks ==
    ASSUME NEW db \in TaskDB, NEW c \in Comp, NEW i \in Tid
    PROVE  \A d \in Comp, j \in Tid :
              Without(db, c, i)[d][j] = IF d = c /\ j = i THEN "none" ELSE db[d][j]
BY DEF Without, TaskDB

\* A step that stores nothing and adds no task.
LEMMA ListedFrame ==
    ASSUME Listed, UNCHANGED <<rec, born>>, Shrinks,
           \A p \in Pod : rp'[p].pc \in {"dtasks", "cstore"}
              => \/ rp[p].pc \in {"dtasks", "cstore"} /\ rp'[p].lst = rp[p].lst
                 \/ Covers(tdb', rp'[p].lst),
           \A p \in Pod : rp'[p].pc = "cdel" => rp[p].pc = "cdel",
           \A w \in Worker : pc'[w] = "cstore"
              => pc[w] = "cstore" /\ loc'[w].lst = loc[w].lst /\ tdb' = tdb,
           \A w \in Worker : pc'[w] = "cdel" => pc[w] = "cdel"
    PROVE  Listed'
<1>1. ASSUME NEW l, Covers(tdb, l)
      PROVE  Covers(tdb', l)
  BY <1>1 DEF Covers, Shrinks
<1>2. \A p \in Pod : rp'[p].pc \in {"dtasks", "cstore"} => Covers(tdb', rp'[p].lst)
  BY <1>1 DEF Listed
<1>3. rec.status \in Terminal /\ rec.zip => Covers(tdb', rec.report)
  BY <1>1 DEF Listed
<1>4. born /\ rec.status = "none" => Covers(tdb', NoTasks)
  BY <1>1 DEF Listed
<1>5. \A w \in Worker : pc'[w] = "cstore" => loc'[w].lst = tdb'
  BY DEF Listed
<1>6. /\ \A w \in Worker : pc'[w] = "cdel" => rec.status = "none" \/ rec.zip
      /\ \A p \in Pod : rp'[p].pc = "cdel" => rec.status = "none" \/ rec.zip
  BY DEF Listed
<1> QED BY <1>2, <1>3, <1>4, <1>5, <1>6 DEF Listed

\* Up to its last store a worker keeps the record running.
LEMMA WorkingStep ==
    ASSUME TypeOK, IInv, ~signaled, NEW w \in Worker, WorkerStep(w),
           pc[w] \notin {"idle", "cdel"}, ~CompressStore(w)
    PROVE  rec'.status \in {"new", "in-progress"} /\ (rec' = rec \/ ~rec'.zip)
<1>1. rec.status \in {"new", "in-progress"} /\ pc[w] \notin {"abort", "blind"} /\ ~loc[w].abort
  BY AtWork
<1>2. CASE StoreTAS(w)
  BY <1>1, <1>2 DEF StoreTAS, Store, Live, StoredStatus, storeVars
<1>3. CASE ~StoreTAS(w)
  <2>1. rec' = rec
    BY <1>1, <1>3
    DEF WorkerStep, StartWorker, LoadTasks, CreateTask, SetupDone, StoreGet, StoreBlind,
        doAbort, Gather, Cancel, Sequence, Tier, TiersDone, Send, Confirm, Poll,
        PollDeadline, CompressGet, CompressStore, CompressDelete, storeVars
  <2> QED BY <1>1, <2>1
<1> QED BY <1>2, <1>3

LEMMA WorkerListed ==
    ASSUME TypeOK, IInv, Listed, ~signaled, NEW w \in Worker, WorkerStep(w)
    PROVE  Listed'
<1>1. /\ \A v \in Worker : v # w => pc'[v] = pc[v] /\ loc'[v] = loc[v]
      /\ UNCHANGED <<rp, born>>
  BY OneMoves
<1>2. pc[w] # "idle"
  BY DEF WorkerStep, StartWorker, LoadTasks, CreateTask, SetupDone, StoreGet,
      StoreTAS, StoreBlind, doAbort, Gather, Cancel, Sequence, Tier, TiersDone, Send,
      Confirm, Poll, PollDeadline, CompressGet, CompressStore, CompressDelete
<1>3. CASE pc[w] # "cdel"
  <2>1. /\ \A v \in Worker : v # w => pc'[v] = "idle"
        /\ \A p \in Pod : rp'[p].pc \in {"idle", "got"}
    BY <1>1, <1>2, <1>3, Alone
  <2>2. CASE CompressStore(w)
    <3>1. CASE /\ Store(Compressed(loc[w].fin, loc[w].lst), FALSE)
               /\ Goto(w, "cdel") /\ UNCHANGED <<loc, tdb>> /\ pc[w] = "cstore"
      <4>1. rec'.zip /\ rec'.report = loc[w].lst /\ rec'.status = loc[w].fin
        BY <3>1 DEF Store, Compressed
      <4>2. loc[w].lst = tdb
        BY <3>1 DEF Listed
      <4>3. Covers(tdb', rec'.report)
        BY <3>1, <4>1, <4>2 DEF Covers
      <4>4. pc'[w] = "cdel" /\ rec'.status # "none"
        BY <3>1, <4>1 DEF Goto, TypeOK, Local, Terminal
      <4> QED BY <2>1, <4>1, <4>3, <4>4 DEF Listed
    <3>2. CASE /\ Resume(w, [loc[w] EXCEPT !.lst = NoTasks])
               /\ UNCHANGED <<storeVars, tdb>>
      <4>1. pc'[w] \notin {"cstore", "cdel"}
        BY <3>2 DEF Resume, Exit, Goto, TypeOK
      <4>2. UNCHANGED rec /\ Shrinks
        BY <3>2 DEF storeVars, Shrinks
      <4> QED BY <1>1, <2>1, <4>1, <4>2, ListedFrame
    <3> QED BY <2>2, <3>1, <3>2 DEF CompressStore
  <2>3. CASE ~CompressStore(w)
    <3>1. rec'.status \in {"new", "in-progress"}
      BY <1>2, <1>3, <2>3, WorkingStep
    <3>2. pc'[w] # "cdel"
      BY <1>3, <2>3, Arrivals DEF CompressDelete
    <3>3. pc'[w] = "cstore" => loc'[w].lst = tdb'
      <4>1. SUFFICES ASSUME CompressGet(w), pc'[w] = "cstore"
                     PROVE  loc'[w].lst = tdb'
        BY Arrivals
      <4>2. CASE Resume(w, loc[w])
        BY <4>1, <4>2 DEF Resume, Exit, Goto, TypeOK
      <4>3. CASE loc' = [loc EXCEPT ![w].lst = tdb]
        BY <4>1, <4>3 DEF CompressGet, TypeOK, Local
      <4> QED BY <4>1, <4>2, <4>3 DEF CompressGet
    <3> QED BY <2>1, <3>1, <3>2, <3>3 DEF Listed, Terminal
  <2> QED BY <2>2, <2>3
<1>4. CASE pc[w] = "cdel"
  <2>1. CompressDelete(w)
    BY <1>4 DEF WorkerStep, StartWorker, LoadTasks, CreateTask, SetupDone, StoreGet,
      StoreTAS, StoreBlind, doAbort, Gather, Cancel, Sequence, Tier, TiersDone, Send,
      Confirm, Poll, PollDeadline, CompressGet, CompressStore
  <2>2. \A v \in Worker : v # w => pc'[v] = "idle"
    BY <1>1, <1>4 DEF IInv, Quiet, AtMostOne, Active
  <2>3. UNCHANGED rec /\ pc'[w] # "cstore"
    BY <2>1 DEF CompressDelete, Resume, Exit, Goto, TypeOK, storeVars
  <2>4. Shrinks
    BY <2>1, WithoutShrinks DEF CompressDelete, Shrinks, TypeOK
  <2> QED BY <1>1, <1>4, <2>2, <2>3, <2>4, ListedFrame
<1> QED BY <1>3, <1>4

LEMMA ReaperListed ==
    ASSUME TypeOK, IInv, Listed, ~signaled, ~signaled', NEW p \in Pod, ReaperStep(p)
    PROVE  Listed'
<1>1. UNCHANGED <<loc, born>>
  BY DEF ReaperStep, ReaperGet, ReaperLive, ReaperPass, DeleteGet, DeleteTask,
         DeleteRecord, ReaperCompressGet, ReaperCompressStore, ReaperCompressDelete, envVars
<1>2. rp[p].pc \notin {"idle", "got"}
         => /\ rp[p].status = "completed" /\ born
            /\ \A v \in Worker : pc[v] \in {"idle", "cdel"}
  BY AtWork DEF IInv, Quiet, Reaping, Unborn
<1>3. rp[p] \in Reaper /\ tdb \in TaskDB
  BY DEF TypeOK
<1>4. Covers(tdb, tdb)
  BY DEF Covers
<1>5. CASE ReaperGet(p) \/ ReaperPass(p)
  <2>1. /\ \A q \in Pod : q # p => rp'[q] = rp[q]
        /\ rp'[p].pc \in {"got", "idle"}
    BY <1>5, ReaperIdleInv DEF ReaperGet, ReaperPass, TypeOK
  <2>2. UNCHANGED <<rec, tdb, pc>> /\ Shrinks
    BY <1>5 DEF ReaperGet, ReaperPass, Shrinks
  <2> QED BY <1>1, <2>1, <2>2, ListedFrame
<1>6. CASE ReaperLive(p)
  <2>1. rp'[p].pc = "idle" /\ \A q \in Pod : q # p => rp'[q] = rp[q]
    BY <1>6, ReaperIdleInv DEF ReaperLive
  <2>2. UNCHANGED <<rec, tdb>> /\ Shrinks
    BY <1>6 DEF ReaperLive, Store, Shrinks
  <2>3. \A v \in Worker : pc'[v] \in {"cstore", "cdel"} => pc'[v] = pc[v]
    BY <1>6 DEF ReaperLive, Launch, Goto, TypeOK
  <2> QED BY <1>1, <2>1, <2>2, <2>3, ListedFrame
<1>7. CASE DeleteGet(p) \/ ReaperCompressGet(p)
  <2>1. /\ \A q \in Pod : q # p => rp'[q] = rp[q]
        /\ rp'[p].pc \in {"dtasks", "cstore"} /\ rp'[p].lst = tdb
    BY <1>7 DEF DeleteGet, ReaperCompressGet, TypeOK, Reaper
  <2>2. UNCHANGED <<rec, tdb, pc>> /\ Shrinks
    BY <1>7 DEF DeleteGet, ReaperCompressGet, storeVars, Shrinks
  <2> QED BY <1>1, <1>4, <2>1, <2>2, ListedFrame
<1>8. CASE DeleteTask(p)
  <2>1. UNCHANGED <<rec, pc>> /\ rp[p].pc = "dtasks"
    BY <1>8 DEF DeleteTask, storeVars
  <2>2. CASE ReaperIdle(p) /\ UNCHANGED tdb
    <3>1. rp'[p].pc = "idle" /\ (\A q \in Pod : q # p => rp'[q] = rp[q]) /\ Shrinks
      BY <2>2, ReaperIdleInv DEF Shrinks
    <3> QED BY <1>1, <2>1, <2>2, <3>1, ListedFrame
  <2>3. ASSUME NEW c \in Comp, NEW i \in Tid, tdb' = Without(tdb, c, i),
               rp' = [rp EXCEPT ![p].lst = Without(@, c, i)]
        PROVE  Listed'
    <3>1. /\ \A q \in Pod : q # p => rp'[q] = rp[q]
          /\ rp'[p].pc = "dtasks" /\ rp'[p].lst = Without(rp[p].lst, c, i)
      BY <1>3, <2>1, <2>3 DEF TypeOK, Reaper
    <3>2. Covers(tdb, rp[p].lst) /\ rp[p].lst \in TaskDB
      BY <1>3, <2>1 DEF Listed, Reaper
    <3>3. Shrinks
      BY <1>3, <2>3, WithoutShrinks DEF Shrinks
    <3>4. Covers(tdb', rp'[p].lst)
      BY <1>3, <2>3, <3>1, <3>2, WithoutShrinks DEF Covers
    <3> QED BY <1>1, <1>2, <2>1, <3>1, <3>3, <3>4, ListedFrame
  <2> QED BY <1>8, <2>2, <2>3 DEF DeleteTask
<1>9. CASE DeleteRecord(p)
  <2>1. /\ UNCHANGED <<tdb, pc>> /\ rp[p].pc = "dtasks" /\ rp[p].lst = NoTasks
        /\ rp'[p].pc = "idle" /\ \A q \in Pod : q # p => rp'[q] = rp[q]
    BY <1>9, ReaperIdleInv DEF DeleteRecord
  <2>2. CASE Store(NoRec, FALSE)
    <3>1. rec'.status = "none"
      BY <2>2 DEF Store, NoRec
    <3>2. Covers(tdb', NoTasks)
      BY <2>1 DEF Listed
    <3> QED BY <1>1, <1>2, <2>1, <3>1, <3>2 DEF Listed, Terminal
  <2>3. CASE UNCHANGED storeVars
    <3>1. UNCHANGED rec /\ Shrinks
      BY <2>1, <2>3 DEF storeVars, Shrinks
    <3> QED BY <1>1, <2>1, <3>1, ListedFrame
  <2> QED BY <1>9, <2>2, <2>3 DEF DeleteRecord
<1>10. CASE ReaperCompressStore(p)
  <2>1. UNCHANGED <<tdb, pc>> /\ rp[p].pc = "cstore"
    BY <1>10 DEF ReaperCompressStore
  <2>2. CASE Store(Compressed(rp[p].status, rp[p].lst), FALSE)
             /\ rp' = [rp EXCEPT ![p].pc = "cdel"]
    <3>1. rec'.zip /\ rec'.report = rp[p].lst /\ rec'.status = "completed"
      BY <1>2, <2>1, <2>2 DEF Store, Compressed
    <3>2. Covers(tdb', rec'.report)
      BY <2>1, <3>1 DEF Listed
    <3>3. rp'[p].pc = "cdel" /\ \A q \in Pod : q # p => rp'[q] = rp[q]
      BY <1>3, <2>2 DEF TypeOK, Reaper
    <3> QED BY <1>1, <1>2, <2>1, <3>1, <3>2, <3>3 DEF Listed
  <2>3. CASE UNCHANGED storeVars /\ ReaperIdle(p)
    <3>1. rp'[p].pc = "idle" /\ (\A q \in Pod : q # p => rp'[q] = rp[q]) /\ Shrinks
      BY <2>1, <2>3, ReaperIdleInv DEF Shrinks
    <3>2. UNCHANGED rec
      BY <2>3 DEF storeVars
    <3> QED BY <1>1, <2>1, <3>1, <3>2, ListedFrame
  <2> QED BY <1>10, <2>2, <2>3 DEF ReaperCompressStore
<1>11. CASE ReaperCompressDelete(p)
  <2>1. UNCHANGED <<rec, pc>> /\ rp[p].pc = "cdel"
    BY <1>11 DEF ReaperCompressDelete, storeVars
  <2>2. Shrinks
    BY <1>3, <1>11, WithoutShrinks DEF ReaperCompressDelete, Shrinks
  <2>3. /\ \A q \in Pod : q # p => rp'[q] = rp[q]
        /\ rp'[p].pc \in {"cdel", "idle"}
    <3>1. CASE ReaperIdle(p)
      BY <3>1, ReaperIdleInv
    <3>2. ASSUME NEW d, rp' = [rp EXCEPT ![p].lst = d]
          PROVE  /\ \A q \in Pod : q # p => rp'[q] = rp[q]
                 /\ rp'[p].pc \in {"cdel", "idle"}
      BY <1>3, <2>1, <3>2 DEF TypeOK, Reaper
    <3> QED BY <1>11, <3>1, <3>2 DEF ReaperCompressDelete
  <2> QED BY <1>1, <1>2, <2>1, <2>2, <2>3, ListedFrame
<1> QED BY <1>5, <1>6, <1>7, <1>8, <1>9, <1>10, <1>11 DEF ReaperStep

LEMMA NextKept ==
    ASSUME TypeOK, IInv, KeptInv, [Next]_vars
    PROVE  KeptInv'
<1> SUFFICES ASSUME ~signaled' PROVE Listed'
  BY DEF KeptInv
<1>1. ~signaled
  BY Remembered
<1>2. Listed
  BY <1>1 DEF KeptInv
<1>3. CASE UNCHANGED <<rec, born, tdb, rp, pc, loc>>
  BY <1>2, <1>3 DEF Listed
<1>4. ASSUME NEW w \in Worker, WorkerStep(w)
      PROVE  Listed'
  BY <1>1, <1>2, <1>4, WorkerListed
<1>5. ASSUME NEW p \in Pod, ReaperStep(p)
      PROVE  Listed'
  BY <1>1, <1>2, <1>5, ReaperListed
<1>6. ASSUME NEW w \in Worker, KeepAliveStep(w)
      PROVE  Listed'
  BY <1>3, <1>6 DEF KeepAliveStep, KeepAliveGet, KeepAliveTAS, Store, storeVars, envVars
<1>7. ASSUME NEW w \in Worker, TriggerTransition(w)
      PROVE  Listed'
  <2>1. /\ UNCHANGED <<rp, tdb>> /\ rec'.status = "new"
        /\ pc' = [pc EXCEPT ![w] = "start"]
    BY <1>7 DEF TriggerTransition, Store, Live, Goto
  <2>2. /\ \A p \in Pod : rp[p].pc = "idle"
        /\ \A v \in Worker : pc[v] = "idle"
    BY <1>7 DEF TriggerTransition, IInv, Unborn
  <2>3. \A v \in Worker : pc'[v] \in {"idle", "start"}
    BY <2>1, <2>2 DEF TypeOK
  <2> QED BY <2>1, <2>2, <2>3 DEF Listed, Terminal
<1>8. ASSUME NEW c \in Client, ClientStep(c)
      PROVE  Listed'
  <2>1. UNCHANGED <<rec, born, tdb, rp, pc, loc>>
    BY <1>8 DEF ClientStep, AbortGet, AbortTAS, storeVars, envVars
  <2> QED BY <1>3, <2>1
<1>9. ASSUME NEW p \in Pod, Crash(p)
      PROVE  Listed'
  <2>1. UNCHANGED <<rec, born, tdb>> /\ Shrinks
    BY <1>9 DEF Crash, Shrinks
  <2>2. \A v \in Worker : pc'[v] = "idle" \/ (pc'[v] = pc[v] /\ loc'[v] = loc[v])
    BY <1>9 DEF Crash
  <2>3. rp'[p].pc = "idle" /\ \A q \in Pod : q # p => rp'[q] = rp[q]
    BY <1>9, ReaperIdleInv DEF Crash
  <2> QED BY <1>2, <2>1, <2>2, <2>3, ListedFrame
<1>10. CASE Lapse \/ Expire \/ UNCHANGED vars
  BY <1>3, <1>10 DEF Lapse, Expire, vars, storeVars, envVars
<1> QED BY <1>4, <1>5, <1>6, <1>7, <1>8, <1>9, <1>10 DEF Next

LEMMA InitKept ==
    ASSUME Init
    PROVE  KeptInv
<1>1. pc = [w \in Worker |-> "idle"] /\ rp = [p \in Pod |-> IdleReaper]
  BY DEF Init
<1>2. (~born \/ rec.status # "none") /\ ~rec.zip
  BY DEF Init, Live, NoRec
<1> QED BY <1>1, <1>2 DEF KeptInv, Listed, IdleReaper

LEMMA KeptInvariance == Spec => []KeptInv
<1>1. Init => KeptInv
  BY InitKept
<1>2. TypeOK /\ IInv /\ KeptInv /\ [Next]_vars => KeptInv'
  BY NextKept
<1> QED BY <1>1, <1>2, TypeCorrect, Invariance, PTL DEF Spec

-----------------------------------------------------------------------------
(* The tasks a worker holds and the tasks in the database *)

\* Worker w gives the components in S new tasks or statuses and stores them.
Rewrites(w, t, S) ==
    /\ t \in [Comp -> Held] /\ loc'[w].task = t
    /\ StoreTasks(t, S)
    /\ \A c \in Comp :
          IF c \in S THEN /\ t[c].st # "none"
                          /\ \/ t[c].id = loc[w].task[c].id
                             \/ loc[w].task[c].st = "none"
                     ELSE t[c] = loc[w].task[c]

\* Only CreateTask makes an open task.
Closes(w, t) ==
    \A c \in Comp : t[c].st = "open" => loc[w].task[c].st = "open"

LEMMA CreateRewrites ==
    ASSUME TypeOK, NEW w \in Worker, CreateTask(w)
    PROVE  \E t, S : Rewrites(w, t, S)
<1>1. PICK c \in Comp, i \in Tid, st \in {"open", "failed"} :
         /\ loc[w].task[c].st = "none"
         /\ LET t == [loc[w].task EXCEPT ![c] = [id |-> i, st |-> st]] IN
            /\ loc' = [loc EXCEPT
                  ![w].task = t,
                  ![w].xnames = IF st = "open" THEN @ \cup {c} ELSE @]
            /\ StoreTasks(t, {c})
  BY DEF CreateTask
<1> DEFINE t == [loc[w].task EXCEPT ![c] = [id |-> i, st |-> st]]
<1>2. loc[w].task \in [Comp -> Held]
  BY DEF TypeOK, Local
<1>3. t \in [Comp -> Held]
  BY <1>2 DEF Held, TaskStatus
<1>4. loc'[w].task = t /\ StoreTasks(t, {c})
  BY <1>1 DEF TypeOK, Local
<1>5. t[c].st # "none" /\ \A d \in Comp : d # c => t[d] = loc[w].task[d]
  BY <1>2
<1> HIDE DEF t
<1>6. Rewrites(w, t, {c})
  BY <1>1, <1>3, <1>4, <1>5 DEF Rewrites
<1> QED BY <1>6

\* Setting statuses and storing what was set.
LEMMA SetRewrites ==
    ASSUME TypeOK, NEW w \in Worker, NEW A, NEW B, NEW S,
           NEW a \in {"failed", "succeeded"}, NEW b \in {"failed", "succeeded"},
           NEW t, t = Set(Set(loc[w].task, A, a), B, b),
           loc'[w].task = t, StoreTasks(t, S), (A \cup B) \subseteq S,
           \A c \in Comp : c \in S \ (A \cup B) => loc[w].task[c].st # "none"
    PROVE  Rewrites(w, t, S) /\ Closes(w, t)
<1> DEFINE u == Set(loc[w].task, A, a)
<1>1. loc[w].task \in [Comp -> Held]
  BY DEF TypeOK, Local
<1>2. /\ u \in [Comp -> Held]
      /\ \A c \in Comp : /\ u[c].id = loc[w].task[c].id
                         /\ u[c].st = IF c \in A THEN a ELSE loc[w].task[c].st
  BY <1>1, SetType, SetStatus DEF TaskStatus
<1> HIDE DEF u
<1>3. /\ t \in [Comp -> Held]
      /\ \A c \in Comp : /\ t[c].id = u[c].id
                         /\ t[c].st = IF c \in B THEN b ELSE u[c].st
  BY <1>2, SetType, SetStatus DEF u, TaskStatus
<1>4. ASSUME NEW c \in Comp, c \notin S
      PROVE  t[c] = loc[w].task[c]
  <2>1. c \notin A /\ c \notin B
    BY <1>4
  <2> QED BY <2>1 DEF Set
<1>5. Rewrites(w, t, S)
  BY <1>2, <1>3, <1>4 DEF Rewrites
<1> QED BY <1>2, <1>3, <1>5 DEF Closes

LEMMA SetNothing ==
    ASSUME NEW t \in [Comp -> Held], NEW st
    PROVE  Set(t, {}, st) = t
BY DEF Set

\* A step of a worker with tasks sets and stores statuses or leaves both alone.
LEMMA TaskStep ==
    ASSUME TypeOK, NEW w \in Worker,
           \/ doAbort(w) \/ Gather(w) \/ Sequence(w) \/ Send(w) \/ Poll(w)
           \/ PollDeadline(w)
    PROVE  \/ \E t, S : Rewrites(w, t, S) /\ Closes(w, t)
           \/ UNCHANGED tdb /\ loc'[w].task = loc[w].task
<1>1. loc[w] \in Local /\ loc[w].task \in [Comp -> Held]
  BY DEF TypeOK, Local
<1>2. ASSUME NEW st
      PROVE  Set(loc[w].task, {}, st) = loc[w].task
  BY <1>1, SetNothing
<1>3. CASE doAbort(w)
  <2>1. ASSUME NEW c \in Open(w),
               loc' = [loc EXCEPT ![w].task = Set(loc[w].task, {c}, "failed")],
               StoreTasks(Set(loc[w].task, {c}, "failed"), {c})
        PROVE  \E t, S : Rewrites(w, t, S) /\ Closes(w, t)
    <3> DEFINE t == Set(loc[w].task, {c}, "failed")
    <3>1. loc'[w].task = t
      BY <1>1, <2>1 DEF TypeOK, Local
    <3>2. t = Set(Set(loc[w].task, {}, "failed"), {c}, "failed") /\ StoreTasks(t, {c})
      BY <1>2, <2>1
    <3> HIDE DEF t
    <3>3. Rewrites(w, t, {c}) /\ Closes(w, t)
      BY <3>1, <3>2, SetRewrites
    <3> QED BY <3>3
  <2>2. CASE /\ loc' = [loc EXCEPT ![w].fin = "aborted", ![w].aborted = TRUE,
                                   ![w].abort = FALSE]
             /\ UNCHANGED tdb
    BY <2>2 DEF TypeOK, Local
  <2> QED BY <1>3, <2>1, <2>2 DEF doAbort
<1>4. CASE Gather(w)
  <2>1. ASSUME NEW bad, NEW l,
               l = [loc[w] EXCEPT !.task = Set(loc[w].task, bad, "failed")],
               StoreTasks(Set(loc[w].task, bad, "failed"), bad),
               \/ Complete(w, l)
               \/ loc' = [loc EXCEPT ![w] = [l EXCEPT !.site = "gathered"]]
        PROVE  \E t, S : Rewrites(w, t, S) /\ Closes(w, t)
    <3> DEFINE t == Set(loc[w].task, bad, "failed")
    <3>1. l \in Local /\ l.task = t
      BY <1>1, <2>1, SetType DEF Local, TaskStatus
    <3>2. loc'[w].task = t
      <4>1. CASE Complete(w, l)
        <5>1. loc'[w] = [l EXCEPT !.site = "end", !.fin = "completed"]
          BY <4>1 DEF Complete, TypeOK
        <5> QED BY <3>1, <5>1 DEF Local
      <4>2. CASE loc' = [loc EXCEPT ![w] = [l EXCEPT !.site = "gathered"]]
        BY <3>1, <4>2 DEF TypeOK, Local
      <4> QED BY <2>1, <4>1, <4>2
    <3>3. t = Set(Set(loc[w].task, {}, "failed"), bad, "failed") /\ StoreTasks(t, bad)
      BY <1>2, <2>1
    <3> HIDE DEF t
    <3>4. Rewrites(w, t, bad) /\ Closes(w, t)
      BY <3>2, <3>3, SetRewrites
    <3> QED BY <3>4
  <2> QED BY <1>4, <2>1 DEF Gather
<1>5. CASE Sequence(w)
  <2>1. PICK done, bad, n :
           /\ loc' = [loc EXCEPT
                ![w].task = Set(Set(loc[w].task, done, "succeeded"), bad, "failed"),
                ![w].tiers = n]
           /\ StoreTasks(Set(Set(loc[w].task, done, "succeeded"), bad, "failed"),
                         done \cup bad)
    BY <1>5 DEF Sequence
  <2> DEFINE t == Set(Set(loc[w].task, done, "succeeded"), bad, "failed")
  <2>2. loc'[w].task = t
    BY <2>1 DEF TypeOK, Local
  <2>3. StoreTasks(t, done \cup bad)
    BY <2>1
  <2>4. t = Set(Set(loc[w].task, done, "succeeded"), bad, "failed")
    OBVIOUS
  <2> HIDE DEF t
  <2>5. Rewrites(w, t, done \cup bad) /\ Closes(w, t)
    BY <2>2, <2>3, <2>4, SetRewrites
  <2> QED BY <2>5
<1>6. CASE Send(w)
  <2>1. PICK T \in SUBSET Open(w), bad \in SUBSET Open(w) :
           /\ loc' = [loc EXCEPT ![w].task = Set(loc[w].task, bad, "failed"),
                                 ![w].wait = T \ bad]
           /\ StoreTasks(Set(loc[w].task, bad, "failed"), T \cup bad)
    BY <1>6 DEF Send
  <2> DEFINE t == Set(loc[w].task, bad, "failed")
  <2>2. loc'[w].task = t
    BY <2>1 DEF TypeOK, Local
  <2>3. t = Set(Set(loc[w].task, {}, "failed"), bad, "failed") /\ StoreTasks(t, T \cup bad)
    BY <1>2, <2>1
  <2>4. \A c \in Comp : c \in T => loc[w].task[c].st # "none"
    BY DEF Open
  <2> HIDE DEF t
  <2>5. Rewrites(w, t, T \cup bad) /\ Closes(w, t)
    BY <2>2, <2>3, <2>4, SetRewrites
  <2> QED BY <2>5
<1>7. CASE Poll(w) \/ PollDeadline(w)
  <2>1. PICK done, next, bad : PollWith(w, done, next, bad)
    BY <1>7 DEF Poll, PollDeadline
  <2> DEFINE t == Set(Set(loc[w].task, bad, "failed"), done, "succeeded")
  <2>2. loc'[w].task = t
    BY <2>1 DEF PollWith, TypeOK, Local
  <2>3. StoreTasks(t, done \cup bad)
    BY <2>1 DEF PollWith
  <2>4. t = Set(Set(loc[w].task, bad, "failed"), done, "succeeded")
    OBVIOUS
  <2> HIDE DEF t
  <2>5. Rewrites(w, t, done \cup bad) /\ Closes(w, t)
    BY <2>2, <2>3, <2>4, SetRewrites
  <2> QED BY <2>5
<1> QED BY <1>3, <1>4, <1>5, <1>6, <1>7

\* Storing tasks deletes none.
LEMMA RewritesKeep ==
    ASSUME TypeOK, NEW w \in Worker, NEW t, NEW S, Rewrites(w, t, S),
           NEW c \in Comp, NEW i \in Tid, tdb[c][i] # "none"
    PROVE  tdb'[c][i] # "none"
<1>1. PICK lost : tdb' = Stored(tdb, t, S, lost)
  BY DEF Rewrites, StoreTasks
<1>2. t[c] \in Held /\ tdb[c] \in [Tid -> TaskStatus]
  BY DEF Rewrites, TypeOK, TaskDB
<1>3. CASE c \in S \ lost
  <2>1. tdb'[c] = [tdb[c] EXCEPT ![t[c].id] = t[c].st]
    BY <1>1, <1>3 DEF Stored
  <2> QED BY <1>2, <1>3, <2>1 DEF Rewrites, Held
<1>4. CASE c \notin S \ lost
  BY <1>1, <1>4 DEF Stored
<1> QED BY <1>3, <1>4

\* A step that changes the database is one of these.
LEMMA WhoStores ==
    ASSUME TypeOK, NEW w \in Worker, WorkerStep(w), ~CompressDelete(w)
    PROVE  \/ UNCHANGED tdb
           \/ \E t, S : Rewrites(w, t, S)
<1>1. CASE CreateTask(w)
  BY <1>1, CreateRewrites
<1>2. CASE \/ doAbort(w) \/ Gather(w) \/ Sequence(w) \/ Send(w) \/ Poll(w)
           \/ PollDeadline(w)
  BY <1>2, TaskStep
<1>3. CASE \/ StartWorker(w) \/ LoadTasks(w) \/ SetupDone(w) \/ StoreGet(w)
           \/ StoreTAS(w) \/ StoreBlind(w) \/ Cancel(w) \/ Tier(w) \/ TiersDone(w)
           \/ Confirm(w) \/ CompressGet(w) \/ CompressStore(w)
  BY <1>3 DEF StartWorker, LoadTasks, SetupDone, StoreGet, StoreTAS, StoreBlind, Cancel,
              Tier, TiersDone, Confirm, CompressGet, CompressStore
<1> QED BY <1>1, <1>2, <1>3 DEF WorkerStep

\* A task record goes only when the record has it or the transition is deleted.
LEMMA KeepStep ==
    ASSUME TypeOK, IInv, Listed, ~signaled, [Next]_vars,
           NEW c \in Comp, NEW i \in Tid, tdb[c][i] # "none", tdb'[c][i] = "none"
    PROVE  \/ rec.report[c][i] = tdb[c][i]
           \/ rec.status = "none"
           \/ \E p \in Pod : rp[p].pc = "dtasks"
<1>1. CASE rec.zip /\ rec.status \in Terminal
  BY <1>1 DEF Listed, Covers
<1>2. ASSUME NEW w \in Worker, WorkerStep(w)
      PROVE  rec.status = "none" \/ (rec.zip /\ rec.status \in Terminal)
  <2>1. CASE CompressDelete(w)
    BY <2>1 DEF CompressDelete, Listed, IInv, Quiet, Attends, Terminal
  <2> QED BY <1>2, <2>1, WhoStores, RewritesKeep
<1>3. ASSUME NEW p \in Pod, ReaperStep(p)
      PROVE  \/ rec.status = "none" \/ (rec.zip /\ rec.status \in Terminal)
             \/ rp[p].pc = "dtasks"
  <2>1. CASE ReaperCompressDelete(p)
    BY <2>1 DEF ReaperCompressDelete, Listed, IInv, Quiet, Reaping, Terminal
  <2>2. CASE DeleteTask(p)
    BY <2>2 DEF DeleteTask
  <2> QED BY <1>3, <2>1, <2>2
       DEF ReaperStep, ReaperGet, ReaperLive, ReaperPass, DeleteGet, DeleteRecord,
           ReaperCompressGet, ReaperCompressStore
<1>4. ASSUME NEW w \in Worker, TriggerTransition(w) \/ KeepAliveStep(w)
      PROVE  FALSE
  BY <1>4 DEF TriggerTransition, KeepAliveStep, KeepAliveGet, KeepAliveTAS
<1>5. ASSUME NEW d \in Client, ClientStep(d)
      PROVE  FALSE
  BY <1>5 DEF ClientStep, AbortGet, AbortTAS
<1>6. CASE UNCHANGED vars \/ Lapse \/ Expire \/ \E p \in Pod : Crash(p)
  BY <1>6 DEF vars, Lapse, Expire, Crash
<1> QED BY <1>1, <1>2, <1>3, <1>4, <1>5, <1>6 DEF Next

\* Where no abort can be signaled, a task record disappears only when the
\* stored record reports the task as it was or the whole transition is deleted,
\* whatever crashes, errors, takeovers and concurrent reapers there are.
THEOREM NoResultIsLost ==
    ASSUME Client = {}, CanExpire = FALSE
    PROVE  Spec => ResultsKept
<1>1. IInv => ~signaled
  BY DEF IInv, Signaler
<1>2. TypeOK /\ IInv /\ KeptInv /\ [Next]_vars
         => [\A c \in Comp, i \in Tid :
               (tdb[c][i] # "none" /\ tdb'[c][i] = "none")
                   => \/ rec.report[c][i] = tdb[c][i]
                      \/ rec.status = "none"
                      \/ \E p \in Pod : rp[p].pc = "dtasks"]_tdb
  BY <1>1, KeepStep DEF KeptInv
<1> QED BY <1>2, TypeCorrect, Invariance, KeptInvariance, PTL DEF Spec, ResultsKept

\* Once a transition that no one aborted is gone, no task record is left of it,
\* whatever crashes, errors, takeovers and concurrent reapers there are.
THEOREM NothingIsLeft == Spec => []NoOrphanTasks
<1>1. TypeOK /\ KeptInv => NoOrphanTasks
  <2> SUFFICES ASSUME TypeOK, KeptInv, born, rec.status = "none", ~signaled
               PROVE  tdb = NoTasks
    BY DEF NoOrphanTasks
  <2>1. Covers(tdb, NoTasks)
    BY DEF KeptInv, Listed
  <2>2. \A c \in Comp, i \in Tid : tdb[c][i] = "none"
    BY <2>1 DEF Covers, NoTasks
  <2>3. tdb \in [Comp -> [Tid -> TaskStatus]]
    BY DEF TypeOK, TaskDB
  <2>4. \A c \in Comp : tdb[c] = [i \in Tid |-> "none"]
    BY <2>2, <2>3
  <2> QED BY <2>3, <2>4 DEF NoTasks
<1> QED BY <1>1, TypeCorrect, KeptInvariance, PTL

-----------------------------------------------------------------------------
(* A compressed record reports every component *)

\* Without errors what is stored is what is held.
LEMMA MirrorStep ==
    ASSUME TypeOK, ~Error, NEW w \in Worker, NEW t, NEW S, Rewrites(w, t, S),
           Mirror(tdb, loc[w].task)
    PROVE  Mirror(tdb', t)
<1>1. tdb' = Stored(tdb, t, S, {})
  BY DEF Rewrites, StoreTasks
<1>2. ASSUME NEW c \in Comp, NEW i \in Tid
      PROVE  tdb'[c][i] = IF t[c].st # "none" /\ t[c].id = i THEN t[c].st ELSE "none"
  <2>1. /\ t[c] \in Held /\ tdb[c] \in [Tid -> TaskStatus]
        /\ tdb[c][i] = IF loc[w].task[c].st # "none" /\ loc[w].task[c].id = i
                       THEN loc[w].task[c].st ELSE "none"
    BY DEF Rewrites, TypeOK, TaskDB, Mirror
  <2>2. CASE c \in S
    <3>1. tdb'[c] = [tdb[c] EXCEPT ![t[c].id] = t[c].st]
      BY <1>1, <2>2 DEF Stored
    <3>2. tdb'[c][i] = IF i = t[c].id THEN t[c].st ELSE tdb[c][i]
      BY <2>1, <3>1 DEF Held
    <3> QED BY <2>1, <2>2, <3>2 DEF Rewrites
  <2>3. CASE c \notin S
    BY <1>1, <2>1, <2>3 DEF Stored, Rewrites
  <2> QED BY <2>2, <2>3
<1> QED BY <1>2 DEF Mirror

LEMMA MirrorOne ==
    ASSUME NEW db, NEW t, Mirror(db, t)
    PROVE  OneTask(db)
BY DEF Mirror, OneTask

\* All components have a finished task.
LEMMA MirrorWhole ==
    ASSUME NEW db, NEW t \in [Comp -> Held], Mirror(db, t),
           \A c \in Comp : t[c].st \notin {"none", "open"}
    PROVE  Whole(db)
<1>1. ASSUME NEW c \in Comp
      PROVE  /\ \E i \in Tid : db[c][i] \in Finished
             /\ \A i \in Tid : db[c][i] # "open"
  <2>1. t[c].id \in Tid /\ t[c].st \in {"failed", "succeeded"}
    BY DEF Held, TaskStatus
  <2>2. db[c][t[c].id] = t[c].st
    BY <2>1 DEF Mirror
  <2>3. \A i \in Tid : db[c][i] \in {"none", t[c].st}
    BY DEF Mirror
  <2> QED BY <2>1, <2>2, <2>3 DEF Finished
<1> QED BY <1>1 DEF Whole

\* A step that leaves the worker's tasks and the database alone.
LEMMA SameHolds ==
    ASSUME NEW x \in AtTasks, NEW l, NEW m, NEW db, NEW y, Holds(x, l, db),
           m.task = l.task, m.xnames = l.xnames,
           x = "create" /\ y # "create" => \A c \in Comp : l.task[c].st # "none",
           y \in {"done", "cget", "cstore"} => \A c \in Comp : l.task[c].st # "open"
    PROVE  Holds(y, m, db)
BY DEF Holds

\* A step that sets and stores statuses.
LEMMA RewriteHolds ==
    ASSUME TypeOK, ~Error, NEW w \in Worker, pc[w] \in AtTasks \ {"create"},
           Holds(pc[w], loc[w], tdb), loc'[w].xnames = loc[w].xnames,
           \/ \E t, S : Rewrites(w, t, S) /\ Closes(w, t)
           \/ UNCHANGED tdb /\ loc'[w].task = loc[w].task,
           pc'[w] \in {"done", "cget", "cstore"}
               => \A c \in Comp : loc'[w].task[c].st # "open"
    PROVE  Holds(pc'[w], loc'[w], tdb')
<1>1. ASSUME NEW t, NEW S, Rewrites(w, t, S), Closes(w, t)
      PROVE  Holds(pc'[w], loc'[w], tdb')
  <2>1. Mirror(tdb', t) /\ loc'[w].task = t
    BY <1>1, MirrorStep DEF Holds, Rewrites
  <2>2. \A c \in Comp : /\ t[c].st # "none"
                        /\ t[c].st = "open" => c \in loc'[w].xnames
    BY <1>1 DEF Holds, Rewrites, Closes
  <2> QED BY <2>1, <2>2 DEF Holds
<1>2. CASE UNCHANGED tdb /\ loc'[w].task = loc[w].task
  BY <1>2 DEF Holds
<1> QED BY <1>1, <1>2

LEMMA LoadHolds ==
    ASSUME TypeOK, ~Error, OneTask(tdb), NEW w \in Worker, LoadTasks(w)
    PROVE  Holds(pc'[w], loc'[w], tdb')
<1>1. PICK t \in [Comp -> Held] :
         /\ \A c \in Comp : IF \E i \in Tid : tdb[c][i] # "none"
                            THEN /\ t[c].st # "none"
                                 /\ t[c].st = tdb[c][t[c].id]
                            ELSE t[c] = Blank[c]
         /\ loc' = [loc EXCEPT ![w].task = t,
                               ![w].xnames = {c \in Comp : t[c].st = "open"}]
  BY DEF LoadTasks
<1>2. /\ loc'[w].task = t /\ loc'[w].xnames = {c \in Comp : t[c].st = "open"}
      /\ pc'[w] = "create" /\ UNCHANGED tdb
  BY <1>1 DEF LoadTasks, Goto, TypeOK, Local
<1>3. ASSUME NEW c \in Comp, NEW i \in Tid
      PROVE  tdb[c][i] = IF t[c].st # "none" /\ t[c].id = i THEN t[c].st ELSE "none"
  <2>1. CASE \E j \in Tid : tdb[c][j] # "none"
    <3>1. t[c].st # "none" /\ t[c].st = tdb[c][t[c].id] /\ t[c].id \in Tid
      BY <1>1, <2>1 DEF Held
    <3> QED BY <3>1 DEF OneTask
  <2>2. CASE ~\E j \in Tid : tdb[c][j] # "none"
    <3>1. t[c].st = "none"
      BY <1>1, <2>2 DEF Blank
    <3> QED BY <2>2, <3>1
  <2> QED BY <2>1, <2>2
<1> QED BY <1>2, <1>3 DEF Holds, Mirror

LEMMA CreateHolds ==
    ASSUME TypeOK, ~Error, NEW w \in Worker, CreateTask(w), Holds(pc[w], loc[w], tdb)
    PROVE  Holds(pc'[w], loc'[w], tdb')
<1>1. pc[w] = "create" /\ pc'[w] = "create"
  BY DEF CreateTask
<1>2. PICK t, S : Rewrites(w, t, S)
  BY CreateRewrites
<1>3. Mirror(tdb', t) /\ loc'[w].task = t
  BY <1>1, <1>2, MirrorStep DEF Holds, Rewrites, AtTasks
<1>4. ASSUME NEW d \in Comp, loc'[w].task[d].st = "open"
      PROVE  d \in loc'[w].xnames
  <2>1. PICK c \in Comp, i \in Tid, st \in {"open", "failed"} :
           loc' = [loc EXCEPT
                     ![w].task = [loc[w].task EXCEPT ![c] = [id |-> i, st |-> st]],
                     ![w].xnames = IF st = "open" THEN @ \cup {c} ELSE @]
    BY DEF CreateTask
  <2>2. loc[w].task \in [Comp -> Held]
    BY DEF TypeOK, Local
  <2>3. /\ loc'[w].task = [loc[w].task EXCEPT ![c] = [id |-> i, st |-> st]]
        /\ loc'[w].xnames = IF st = "open" THEN loc[w].xnames \cup {c} ELSE loc[w].xnames
    BY <2>1 DEF TypeOK, Local
  <2>4. loc[w].task[d].st = "open" => d \in loc[w].xnames
    BY <1>1 DEF Holds, AtTasks
  <2>5. CASE d = c
    BY <1>4, <2>2, <2>3, <2>5
  <2>6. CASE d # c
    BY <1>4, <2>2, <2>3, <2>4, <2>6
  <2> QED BY <2>5, <2>6
<1> QED BY <1>1, <1>3, <1>4 DEF Holds

\* The calls that leave the worker's tasks alone.
LEMMA CompleteHolds ==
    ASSUME TypeOK, NEW w \in Worker, NEW l \in Local, Complete(w, l)
    PROVE  pc'[w] = "cget" /\ loc'[w].task = l.task /\ loc'[w].xnames = l.xnames
<1>1. pc'[w] = "cget" /\ loc'[w] = [l EXCEPT !.site = "end", !.fin = "completed"]
  BY MovePlace DEF Complete
<1> QED BY <1>1 DEF Local

LEMMA StoreReturnsHolds ==
    ASSUME TypeOK, NEW w \in Worker, StoreReturns(w, loc[w])
    PROVE  \/ pc'[w] = "idle"
           \/ /\ pc'[w] \in {"abort", "gather", "seq"}
              /\ loc'[w].task = loc[w].task /\ loc'[w].xnames = loc[w].xnames
<1> DEFINE m == [loc[w] EXCEPT !.try = 0]
<1>1. m.task = loc[w].task /\ m.xnames = loc[w].xnames
  BY DEF TypeOK, Local
<1>2. CASE Goto(w, "abort") /\ loc' = [loc EXCEPT ![w] = m]
  BY <1>1, <1>2, MovePlace
<1>3. CASE Resume(w, m)
  <2> HIDE DEF m
  <2> QED BY <1>1, <1>3 DEF Resume, Exit, Goto, TypeOK
<1> QED BY <1>2, <1>3 DEF StoreReturns

LEMMA checkAbortHolds ==
    ASSUME TypeOK, NEW w \in Worker, NEW x, NEW l \in Local, checkAbort(w, x, l)
    PROVE  /\ pc'[w] \in {"abort", x}
           /\ loc'[w].task = l.task /\ loc'[w].xnames = l.xnames
<1>1. l.task = [l EXCEPT !.site = "end", !.wait = {}].task
      /\ l.xnames = [l EXCEPT !.site = "end", !.wait = {}].xnames
  BY DEF Local
<1> QED BY <1>1, MovePlace DEF checkAbort

LEMMA WorkerHolds ==
    ASSUME TypeOK, ~Error, OneTask(tdb), NEW w \in Worker, WorkerStep(w),
           Holds(pc[w], loc[w], tdb), pc[w] \notin {"cancel", "blind"},
           pc[w] = "cdel" => loc[w].site = "end"
    PROVE  Holds(pc'[w], loc'[w], tdb') /\ pc'[w] # "cancel"
<1>1. loc[w] \in Local /\ loc[w].task \in [Comp -> Held]
  BY DEF TypeOK, Local
<1>2. ASSUME pc'[w] \notin AtTasks, pc'[w] # "cancel"
      PROVE  Holds(pc'[w], loc'[w], tdb') /\ pc'[w] # "cancel"
  BY <1>2 DEF Holds, AtTasks
<1>3. "cancel" \notin AtTasks /\ "idle" \notin AtTasks
  BY DEF AtTasks
<1>4. CASE StartWorker(w)
  <2>1. pc'[w] \in {"idle", "setup"}
    BY <1>4 DEF StartWorker, Exit, Goto, TypeOK
  <2> QED BY <1>2, <2>1 DEF AtTasks
<1>5. CASE LoadTasks(w)
  BY <1>1, <1>5, LoadHolds DEF LoadTasks, Goto, TypeOK
<1>6. CASE CreateTask(w)
  BY <1>1, <1>6, CreateHolds DEF CreateTask
<1>7. CASE SetupDone(w)
  <2>1. /\ pc[w] = "create" /\ UNCHANGED tdb
        /\ \A c \in Comp : loc[w].task[c].st # "none"
    BY <1>7 DEF SetupDone
  <2>2. CASE loc[w].xnames = {} /\ Complete(w, loc[w])
    <3>1. pc'[w] = "cget" /\ loc'[w].task = loc[w].task /\ loc'[w].xnames = loc[w].xnames
      BY <1>1, <2>2, CompleteHolds
    <3>2. \A c \in Comp : loc[w].task[c].st # "open"
      BY <1>1, <2>1, <2>2 DEF Holds, AtTasks
    <3> QED BY <1>1, <2>1, <3>1, <3>2, SameHolds DEF AtTasks
  <2>3. CASE Goto(w, "store") /\ UNCHANGED loc
    <3>1. pc'[w] = "store"
      BY <2>3 DEF Goto, TypeOK
    <3> QED BY <1>1, <2>1, <2>3, <3>1, SameHolds DEF AtTasks
  <2> QED BY <1>7, <2>2, <2>3 DEF SetupDone
<1>8. CASE StoreGet(w)
  <2>1. pc[w] = "store" /\ UNCHANGED tdb
    BY <1>8 DEF StoreGet
  <2>2. CASE Goto(w, "blind")
    <3>1. pc'[w] = "blind"
      BY <2>2 DEF Goto, TypeOK
    <3> QED BY <1>2, <3>1 DEF AtTasks
  <2>3. CASE /\ Goto(w, "tas")
             /\ loc' = [loc EXCEPT
                          ![w].abort = @ \/ rec.status = "abort-signaled"]
    <3>1. /\ pc'[w] = "tas" /\ loc'[w].task = loc[w].task
          /\ loc'[w].xnames = loc[w].xnames
      BY <2>3 DEF Goto, TypeOK, Local
    <3> QED BY <1>1, <2>1, <3>1, SameHolds DEF AtTasks
  <2> QED BY <1>8, <2>2, <2>3 DEF StoreGet
<1>9. CASE StoreTAS(w)
  <2>1. pc[w] = "tas" /\ UNCHANGED tdb
    BY <1>9 DEF StoreTAS
  <2>2. CASE StoreReturns(w, loc[w])
    <3>1. \/ pc'[w] = "idle"
          \/ /\ pc'[w] \in {"abort", "gather", "seq"}
             /\ loc'[w].task = loc[w].task /\ loc'[w].xnames = loc[w].xnames
      BY <2>2, StoreReturnsHolds
    <3> QED BY <1>1, <1>2, <1>3, <2>1, <3>1, SameHolds DEF AtTasks
  <2>3. CASE Goto(w, "store") /\ loc' = [loc EXCEPT ![w].try = @ + 1]
    <3>1. /\ pc'[w] = "store" /\ loc'[w].task = loc[w].task
          /\ loc'[w].xnames = loc[w].xnames
      BY <2>3 DEF Goto, TypeOK, Local
    <3> QED BY <1>1, <2>1, <3>1, SameHolds DEF AtTasks
  <2> QED BY <1>9, <2>2, <2>3 DEF StoreTAS
<1>10. CASE StoreBlind(w) \/ Cancel(w)
  BY <1>10 DEF StoreBlind, Cancel
<1>11. CASE Gather(w)
  <2>1. pc[w] = "gather"
    BY <1>11 DEF Gather
  <2>2. \/ \E t, S : Rewrites(w, t, S) /\ Closes(w, t)
        \/ UNCHANGED tdb /\ loc'[w].task = loc[w].task
    BY <1>11, TaskStep
  <2>3. ASSUME NEW missing \in SUBSET loc[w].xnames, NEW bad, missing \subseteq bad, NEW l,
               l = [loc[w] EXCEPT !.task = Set(loc[w].task, bad, "failed")],
               \/ Complete(w, l) /\ missing = loc[w].xnames
               \/ /\ Goto(w, "store")
                  /\ loc' = [loc EXCEPT ![w] = [l EXCEPT !.site = "gathered"]]
        PROVE  /\ loc'[w].xnames = loc[w].xnames
               /\ \/ pc'[w] = "store"
                  \/ /\ pc'[w] = "cget"
                     /\ \A c \in Comp : loc'[w].task[c].st # "open"
    <3>1. /\ l \in Local /\ l.task = Set(loc[w].task, bad, "failed")
          /\ l.xnames = loc[w].xnames
      BY <1>1, <2>3, SetType DEF Local, TaskStatus
    <3>2. CASE Complete(w, l) /\ missing = loc[w].xnames
      <4>1. pc'[w] = "cget" /\ loc'[w].task = l.task /\ loc'[w].xnames = l.xnames
        BY <3>1, <3>2, CompleteHolds
      <4>2. \A c \in Comp : loc[w].task[c].st = "open" => c \in bad
        BY <1>1, <2>1, <2>3, <3>2 DEF Holds, AtTasks
      <4> QED BY <1>1, <3>1, <4>1, <4>2, SetStatus
    <3>3. CASE /\ Goto(w, "store")
               /\ loc' = [loc EXCEPT ![w] = [l EXCEPT !.site = "gathered"]]
      <4>1. pc'[w] = "store" /\ loc'[w] = [l EXCEPT !.site = "gathered"]
        BY <3>3, MovePlace
      <4> QED BY <3>1, <4>1 DEF Local
    <3> QED BY <2>3, <3>2, <3>3
  <2>4. /\ loc'[w].xnames = loc[w].xnames
        /\ \/ pc'[w] = "store"
           \/ /\ pc'[w] = "cget"
              /\ \A c \in Comp : loc'[w].task[c].st # "open"
    BY <1>11, <2>3 DEF Gather
  <2> QED BY <1>1, <2>1, <2>2, <2>4, RewriteHolds DEF AtTasks
<1>12. CASE Sequence(w) \/ Send(w) \/ Poll(w) \/ PollDeadline(w)
  <2>1. pc[w] \in {"seq", "send", "poll"}
    BY <1>12 DEF Sequence, Send, Poll, PollDeadline
  <2>2. \/ \E t, S : Rewrites(w, t, S) /\ Closes(w, t)
        \/ UNCHANGED tdb /\ loc'[w].task = loc[w].task
    BY <1>12, TaskStep
  <2>3. pc'[w] \in {"tier", "confirm"} /\ loc'[w].xnames = loc[w].xnames
    <3>1. CASE Sequence(w)
      BY <3>1 DEF Sequence, Goto, TypeOK, Local
    <3>2. CASE Send(w)
      BY <3>2 DEF Send, Goto, TypeOK, Local
    <3>3. ASSUME NEW done, NEW next, NEW bad, PollWith(w, done, next, bad)
          PROVE  pc'[w] \in {"tier", "confirm"} /\ loc'[w].xnames = loc[w].xnames
      BY <3>3 DEF PollWith, Goto, TypeOK, Local
    <3> QED BY <1>12, <3>1, <3>2, <3>3 DEF Poll, PollDeadline
  <2> QED BY <1>1, <2>1, <2>2, <2>3, RewriteHolds DEF AtTasks
<1>13. CASE Tier(w)
  <2>1. pc[w] = "tier" /\ UNCHANGED tdb
    BY <1>13 DEF Tier
  <2> DEFINE x == IF Open(w) = {} THEN "done" ELSE "send"
             l == [loc[w] EXCEPT !.tiers = @ - 1]
  <2>2. CASE loc[w].tiers > 0 /\ checkAbort(w, x, l)
    <3>1. l \in Local /\ l.task = loc[w].task /\ l.xnames = loc[w].xnames
      BY <1>1, <2>2, ConstAssumption DEF Local
    <3>2. x \in {"done", "send"} /\ (x = "done" => \A c \in Comp : loc[w].task[c].st # "open")
      BY DEF Open
    <3> HIDE DEF x, l
    <3>3. /\ pc'[w] \in {"abort", x}
          /\ loc'[w].task = l.task /\ loc'[w].xnames = l.xnames
      BY <2>2, <3>1, checkAbortHolds
    <3> QED BY <1>1, <2>1, <3>1, <3>2, <3>3, SameHolds DEF AtTasks
  <2>3. CASE Open(w) = {} /\ Complete(w, loc[w])
    <3>1. pc'[w] = "cget" /\ loc'[w].task = loc[w].task /\ loc'[w].xnames = loc[w].xnames
      BY <1>1, <2>3, CompleteHolds
    <3>2. \A c \in Comp : loc[w].task[c].st # "open"
      BY <2>3 DEF Open
    <3> QED BY <1>1, <2>1, <3>1, <3>2, SameHolds DEF AtTasks
  <2> QED BY <1>13, <2>2, <2>3 DEF Tier
<1>14. CASE TiersDone(w)
  <2>1. pc[w] = "done" /\ UNCHANGED tdb /\ Complete(w, loc[w])
    BY <1>14 DEF TiersDone
  <2>2. pc'[w] = "cget" /\ loc'[w].task = loc[w].task /\ loc'[w].xnames = loc[w].xnames
    BY <1>1, <2>1, CompleteHolds
  <2>3. \A c \in Comp : loc[w].task[c].st # "open"
    BY <1>1, <2>1 DEF Holds
  <2> QED BY <1>1, <2>1, <2>2, <2>3, SameHolds DEF AtTasks
<1>15. CASE Confirm(w)
  <2>1. pc[w] = "confirm" /\ UNCHANGED tdb /\ checkAbort(w, "poll", loc[w])
    BY <1>15 DEF Confirm
  <2>2. /\ pc'[w] \in {"abort", "poll"}
        /\ loc'[w].task = loc[w].task /\ loc'[w].xnames = loc[w].xnames
    BY <1>1, <2>1, checkAbortHolds
  <2> QED BY <1>1, <2>1, <2>2, SameHolds DEF AtTasks
<1>16. CASE CompressGet(w)
  <2>1. /\ pc[w] = "cget" /\ UNCHANGED tdb /\ pc'[w] = "cstore"
        /\ loc'[w].task = loc[w].task /\ loc'[w].xnames = loc[w].xnames
    BY <1>16 DEF CompressGet, Goto, TypeOK, Local
  <2>2. \A c \in Comp : loc[w].task[c].st # "open"
    BY <1>1, <2>1 DEF Holds
  <2> QED BY <1>1, <2>1, <2>2, SameHolds DEF AtTasks
<1>17. CASE CompressStore(w)
  <2>1. pc'[w] = "cdel"
    BY <1>17 DEF CompressStore, Goto, TypeOK
  <2> QED BY <1>2, <2>1 DEF AtTasks
<1>18. CASE CompressDelete(w)
  <2>1. pc[w] = "cdel"
    BY <1>18 DEF CompressDelete
  <2>2. CASE UNCHANGED pc
    BY <1>2, <2>1, <2>2 DEF AtTasks
  <2>3. CASE Resume(w, loc[w])
    <3>1. loc[w].site = "end"
      BY <2>1
    <3>2. pc'[w] = "idle"
      BY <2>3, <3>1 DEF Resume, Exit, Goto, TypeOK
    <3> QED BY <1>2, <1>3, <3>2
  <2> QED BY <1>18, <2>2, <2>3 DEF CompressDelete
<1>19. CASE doAbort(w)
  <2>1. /\ pc[w] = "abort" /\ loc'[w].xnames = loc[w].xnames
        /\ \/ pc'[w] = "abort"
           \/ /\ pc'[w] = "cget" /\ Open(w) = {} /\ loc'[w].task = loc[w].task
    <3>1. CASE UNCHANGED pc /\ \E t : loc' = [loc EXCEPT ![w].task = t]
      BY <1>19, <3>1 DEF doAbort, TypeOK, Local
    <3>2. CASE /\ Open(w) = {} /\ Goto(w, "cget")
               /\ loc' = [loc EXCEPT ![w].fin = "aborted", ![w].aborted = TRUE,
                                     ![w].abort = FALSE]
      BY <1>19, <3>2 DEF doAbort, Goto, TypeOK, Local
    <3> QED BY <1>19, <3>1, <3>2 DEF doAbort
  <2>2. \/ \E t, S : Rewrites(w, t, S) /\ Closes(w, t)
        \/ UNCHANGED tdb /\ loc'[w].task = loc[w].task
    BY <1>19, TaskStep
  <2>3. pc'[w] = "cget" => \A c \in Comp : loc'[w].task[c].st # "open"
    BY <2>1 DEF Open
  <2> QED BY <1>1, <2>1, <2>2, <2>3, RewriteHolds DEF AtTasks
<1> QED BY <1>4, <1>5, <1>6, <1>7, <1>8, <1>9, <1>10, <1>11, <1>12, <1>13, <1>14,
           <1>15, <1>16, <1>17, <1>18, <1>19 DEF WorkerStep

\* A worker gives a component no second task.
LEMMA WorkerOneTask ==
    ASSUME TypeOK, ~Error, OneTask(tdb), NEW w \in Worker, WorkerStep(w),
           Holds(pc[w], loc[w], tdb)
    PROVE  OneTask(tdb')
<1>1. CASE CompressDelete(w)
  BY <1>1, WithoutShrinks DEF CompressDelete, OneTask, TypeOK
<1>2. CASE ~CompressDelete(w) /\ tdb' # tdb
  <2>1. PICK t, S : Rewrites(w, t, S)
    BY <1>2, WhoStores
  <2>2. pc[w] \in {"create", "gather", "seq", "send", "poll", "abort"}
    BY <1>2 DEF WorkerStep, StartWorker, LoadTasks, CreateTask, SetupDone, StoreGet,
        StoreTAS, StoreBlind, doAbort, Gather, Cancel, Sequence, Tier, TiersDone, Send,
        Confirm, Poll, PollDeadline, CompressGet, CompressStore
  <2>3. Mirror(tdb, loc[w].task)
    BY <2>2 DEF Holds, AtTasks
  <2>4. Mirror(tdb', t)
    BY <2>1, <2>3, MirrorStep
  <2> QED BY <2>4, MirrorOne
<1>3. CASE UNCHANGED tdb
  BY <1>3
<1> QED BY <1>1, <1>2, <1>3

LEMMA WorkerSound ==
    ASSUME TypeOK, IInv, Listed, Sound, ~signaled, ~Error, NEW w \in Worker, WorkerStep(w)
    PROVE  Sound'
<1>1. /\ \A v \in Worker : v # w => pc'[v] = pc[v] /\ loc'[v] = loc[v]
      /\ UNCHANGED <<rp, born>>
  BY OneMoves
<1>2. Holds(pc'[w], loc'[w], tdb') /\ pc'[w] # "cancel"
  <2>1. Holds(pc[w], loc[w], tdb) /\ OneTask(tdb) /\ pc[w] # "cancel"
    BY DEF Sound
  <2>2. pc[w] # "blind" /\ (pc[w] = "cdel" => loc[w].site = "end")
    BY DEF IInv, Quiet, NoAbort, Attends
  <2> QED BY <2>1, <2>2, WorkerHolds
<1>3. pc[w] # "idle"
  BY DEF WorkerStep, StartWorker, LoadTasks, CreateTask, SetupDone, StoreGet,
      StoreTAS, StoreBlind, doAbort, Gather, Cancel, Sequence, Tier, TiersDone, Send,
      Confirm, Poll, PollDeadline, CompressGet, CompressStore, CompressDelete
<1>4. \A v \in Worker : v # w => pc'[v] = "idle"
  BY <1>1, <1>3 DEF IInv, Quiet, AtMostOne, Active
<1>5. \A v \in Worker : Holds(pc'[v], loc'[v], tdb') /\ pc'[v] # "cancel"
  BY <1>2, <1>4 DEF Holds, AtTasks
<1>6. OneTask(tdb')
  BY WorkerOneTask DEF Sound
<1>7. (rec'.zip => Whole(rec'.report)) /\ (rec'.status \in Terminal => rec'.zip)
  <2>1. CASE CompressStore(w)
    <3>1. pc[w] = "cstore" /\ Store(Compressed(loc[w].fin, loc[w].lst), FALSE)
      BY <2>1 DEF CompressStore
    <3>2. rec'.zip /\ rec'.report = loc[w].lst
      BY <3>1 DEF Store, Compressed
    <3>3. loc[w].lst = tdb
      BY <3>1 DEF Listed
    <3>4. /\ Mirror(tdb, loc[w].task) /\ loc[w].task \in [Comp -> Held]
          /\ \A c \in Comp : loc[w].task[c].st \notin {"none", "open"}
      BY <3>1 DEF Sound, Holds, AtTasks, TypeOK, Local
    <3>5. Whole(tdb)
      BY <3>4, MirrorWhole
    <3> QED BY <3>2, <3>3, <3>5
  <2>2. CASE pc[w] = "cdel"
    <3>1. UNCHANGED rec
      BY <2>2 DEF WorkerStep, StartWorker, LoadTasks, CreateTask, SetupDone, StoreGet,
        StoreTAS, StoreBlind, doAbort, Gather, Cancel, Sequence, Tier, TiersDone, Send,
        Confirm, Poll, PollDeadline, CompressGet, CompressStore, CompressDelete, storeVars
    <3> QED BY <3>1 DEF Sound
  <2>3. CASE pc[w] # "cdel" /\ ~CompressStore(w)
    BY <1>3, <2>3, WorkingStep DEF Sound, Terminal
  <2> QED BY <2>1, <2>2, <2>3
<1>8. \A p \in Pod : /\ rp'[p].pc \notin {"cstore", "cdel"}
                     /\ rp'[p].pc = "got" /\ rp'[p].status \in Terminal => rp'[p].zip
  BY <1>1 DEF Sound
<1> QED BY <1>5, <1>6, <1>7, <1>8 DEF Sound

\* A step that stores nothing, adds no task and leaves the workers at work alone.
LEMMA SoundFrame ==
    ASSUME Sound, UNCHANGED rec \/ (~rec'.zip /\ rec'.status \notin Terminal), Shrinks,
           \A v \in Worker : \/ pc'[v] \in {"idle", "start", "cdel"}
                             \/ UNCHANGED tdb /\ pc'[v] = pc[v] /\ loc'[v] = loc[v],
           \A p \in Pod : /\ rp'[p].pc \notin {"cstore", "cdel"}
                          /\ rp'[p].pc = "got" /\ rp'[p].status \in Terminal => rp'[p].zip
    PROVE  Sound'
<1>1. \A v \in Worker : Holds(pc'[v], loc'[v], tdb') /\ pc'[v] # "cancel"
  BY DEF Sound, Holds, AtTasks
<1>2. OneTask(tdb')
  BY DEF Sound, OneTask, Shrinks
<1>3. (rec'.zip => Whole(rec'.report)) /\ (rec'.status \in Terminal => rec'.zip)
  BY DEF Sound
<1> QED BY <1>1, <1>2, <1>3 DEF Sound

LEMMA ReaperSound ==
    ASSUME TypeOK, IInv, Sound, ~signaled, ~signaled', NEW p \in Pod, ReaperStep(p)
    PROVE  Sound'
<1>1. ~ReaperCompressGet(p) /\ ~ReaperCompressStore(p) /\ ~ReaperCompressDelete(p)
  BY DEF Sound, ReaperCompressGet, ReaperCompressStore, ReaperCompressDelete
<1>2. rp[p] \in Reaper /\ tdb \in TaskDB
  BY DEF TypeOK
<1>3. CASE ReaperGet(p)
  <2>1. /\ \A q \in Pod : q # p => rp'[q] = rp[q]
        /\ rp'[p].pc = "got" /\ rp'[p].status = rec.status /\ rp'[p].zip = rec.zip
        /\ UNCHANGED <<rec, tdb, pc, loc>> /\ Shrinks
    BY <1>3 DEF ReaperGet, TypeOK, Shrinks
  <2>2. \A q \in Pod : /\ rp'[q].pc \notin {"cstore", "cdel"}
                       /\ rp'[q].pc = "got" /\ rp'[q].status \in Terminal => rp'[q].zip
    BY <2>1 DEF Sound
  <2> QED BY <2>1, <2>2, SoundFrame
<1>4. ASSUME \A q \in Pod : q # p => rp'[q] = rp[q], rp'[p].pc \in {"idle", "dtasks"}
      PROVE  \A q \in Pod : /\ rp'[q].pc \notin {"cstore", "cdel"}
                            /\ rp'[q].pc = "got" /\ rp'[q].status \in Terminal => rp'[q].zip
  BY <1>4 DEF Sound
<1>5. CASE ReaperLive(p) \/ ReaperPass(p)
  <2>1. rp'[p].pc = "idle" /\ \A q \in Pod : q # p => rp'[q] = rp[q]
    BY <1>5, ReaperIdleInv DEF ReaperLive, ReaperPass
  <2>2. UNCHANGED <<rec, tdb, loc>> /\ Shrinks
    BY <1>5 DEF ReaperLive, ReaperPass, Store, Shrinks
  <2>3. \A v \in Worker : pc'[v] = pc[v] \/ pc'[v] = "start"
    BY <1>5 DEF ReaperLive, ReaperPass, Launch, Goto, TypeOK
  <2> QED BY <1>4, <2>1, <2>2, <2>3, SoundFrame
<1>6. CASE DeleteGet(p)
  <2>1. rp'[p].pc = "dtasks" /\ \A q \in Pod : q # p => rp'[q] = rp[q]
    BY <1>2, <1>6 DEF DeleteGet, TypeOK, Reaper
  <2>2. UNCHANGED <<rec, tdb, pc, loc>> /\ Shrinks
    BY <1>6 DEF DeleteGet, Shrinks, storeVars
  <2> QED BY <1>4, <2>1, <2>2, SoundFrame
<1>7. CASE DeleteTask(p) \/ DeleteRecord(p)
  <2>1. UNCHANGED <<pc, loc>> /\ rp[p].pc = "dtasks"
    BY <1>7 DEF DeleteTask, DeleteRecord
  <2>2. \A v \in Worker : pc[v] \in {"idle", "cdel"}
    BY <2>1, AtWork DEF IInv, Quiet, Reaping
  <2>3. Shrinks
    <3>1. CASE \E c \in Comp, i \in Tid : tdb' = Without(tdb, c, i)
      BY <1>2, <3>1, WithoutShrinks DEF Shrinks
    <3>2. CASE UNCHANGED tdb
      BY <3>2 DEF Shrinks
    <3> QED BY <1>7, <3>1, <3>2 DEF DeleteTask, DeleteRecord
  <2>4. UNCHANGED rec \/ (~rec'.zip /\ rec'.status \notin Terminal)
    BY <1>7 DEF DeleteTask, DeleteRecord, Store, NoRec, storeVars, Terminal
  <2>5. rp'[p].pc \in {"idle", "dtasks"} /\ \A q \in Pod : q # p => rp'[q] = rp[q]
    <3>1. CASE ReaperIdle(p)
      BY <3>1, ReaperIdleInv
    <3>2. ASSUME NEW d, rp' = [rp EXCEPT ![p].lst = d]
          PROVE  rp'[p].pc \in {"idle", "dtasks"} /\ \A q \in Pod : q # p => rp'[q] = rp[q]
      BY <1>2, <2>1, <3>2 DEF TypeOK, Reaper
    <3> QED BY <1>7, <3>1, <3>2 DEF DeleteTask, DeleteRecord
  <2> QED BY <1>4, <2>1, <2>2, <2>3, <2>4, <2>5, SoundFrame
<1> QED BY <1>1, <1>3, <1>5, <1>6, <1>7 DEF ReaperStep

LEMMA NextWhole ==
    ASSUME TypeOK, IInv, KeptInv, WholeInv, [Next]_vars
    PROVE  WholeInv'
<1> SUFFICES ASSUME ~signaled', errs' = 0 PROVE Sound'
  BY DEF WholeInv
<1>1. ~signaled /\ errs = 0 /\ ~Error
  BY Remembered
<1>2. Sound /\ Listed
  BY <1>1 DEF WholeInv, KeptInv
<1>3. CASE UNCHANGED <<rec, tdb, rp, pc, loc>>
  BY <1>2, <1>3 DEF Sound
<1>4. ASSUME NEW w \in Worker, WorkerStep(w)
      PROVE  Sound'
  BY <1>1, <1>2, <1>4, WorkerSound
<1>5. ASSUME NEW p \in Pod, ReaperStep(p)
      PROVE  Sound'
  BY <1>1, <1>2, <1>5, ReaperSound
<1>6. ASSUME NEW w \in Worker, KeepAliveStep(w)
      PROVE  Sound'
  BY <1>3, <1>6 DEF KeepAliveStep, KeepAliveGet, KeepAliveTAS, Store, storeVars
<1>7. ASSUME NEW w \in Worker, TriggerTransition(w)
      PROVE  Sound'
  <2>1. /\ UNCHANGED <<rp, tdb, loc>> /\ rec'.status = "new" /\ ~rec'.zip
        /\ pc' = [pc EXCEPT ![w] = "start"] /\ Shrinks
    BY <1>7 DEF TriggerTransition, Store, Live, Goto, Shrinks
  <2>2. \A v \in Worker : pc'[v] = pc[v] \/ pc'[v] = "start"
    BY <2>1 DEF TypeOK
  <2>3. rec'.status \notin Terminal
    BY <2>1 DEF Terminal
  <2>4. \A p \in Pod : /\ rp'[p].pc \notin {"cstore", "cdel"}
                       /\ rp'[p].pc = "got" /\ rp'[p].status \in Terminal => rp'[p].zip
    BY <1>2, <2>1 DEF Sound
  <2> QED BY <1>2, <2>1, <2>2, <2>3, <2>4, SoundFrame
<1>8. ASSUME NEW c \in Client, ClientStep(c)
      PROVE  Sound'
  <2>1. UNCHANGED <<rec, tdb, rp, pc, loc>>
    BY <1>8 DEF ClientStep, AbortGet, AbortTAS, storeVars
  <2> QED BY <1>3, <2>1
<1>9. ASSUME NEW p \in Pod, Crash(p)
      PROVE  Sound'
  <2>1. UNCHANGED <<rec, tdb>> /\ Shrinks
    BY <1>9 DEF Crash, Shrinks
  <2>2. \A v \in Worker : pc'[v] = "idle" \/ (pc'[v] = pc[v] /\ loc'[v] = loc[v])
    BY <1>9 DEF Crash
  <2>3. rp'[p].pc = "idle" /\ \A q \in Pod : q # p => rp'[q] = rp[q]
    BY <1>9, ReaperIdleInv DEF Crash
  <2>4. \A q \in Pod : /\ rp'[q].pc \notin {"cstore", "cdel"}
                       /\ rp'[q].pc = "got" /\ rp'[q].status \in Terminal => rp'[q].zip
    BY <1>2, <2>3 DEF Sound
  <2> QED BY <1>2, <2>1, <2>2, <2>4, SoundFrame
<1>10. CASE Lapse \/ Expire \/ UNCHANGED vars
  BY <1>3, <1>10 DEF Lapse, Expire, vars, storeVars
<1> QED BY <1>4, <1>5, <1>6, <1>7, <1>8, <1>9, <1>10 DEF Next

LEMMA InitWhole ==
    ASSUME Init, ~Legacy
    PROVE  WholeInv
<1>1. /\ pc = [w \in Worker |-> "idle"] /\ rp = [p \in Pod |-> IdleReaper]
      /\ rec = NoRec /\ tdb = NoTasks
  BY DEF Init
<1>2. \A w \in Worker : Holds(pc[w], loc[w], tdb) /\ pc[w] # "cancel"
  BY <1>1 DEF Holds, AtTasks
<1>3. OneTask(tdb)
  BY <1>1 DEF OneTask, NoTasks
<1>4. ~rec.zip /\ rec.status \notin Terminal
  BY <1>1 DEF NoRec, Terminal
<1> QED BY <1>1, <1>2, <1>3, <1>4 DEF WholeInv, Sound, IdleReaper

\* A compressed record reports a final status for every component of the
\* request and none still open, whatever crashes, takeovers and concurrent
\* reapers there are, unless an abort was signaled or etcd failed, and provided
\* the record was not left uncompressed by an older version: two reapers that
\* compress it at once may store what is left of its tasks.
THEOREM EveryResultIsReported == ~Legacy => (Spec => []ReportComplete)
<1>1. ~Legacy /\ Init => WholeInv
  BY InitWhole
<1>2. TypeOK /\ IInv /\ KeptInv /\ WholeInv /\ [Next]_vars => WholeInv'
  BY NextWhole
<1>3. WholeInv => ReportComplete
  BY DEF WholeInv, Sound, Whole, ReportComplete
<1> QED BY <1>1, <1>2, <1>3, TypeCorrect, Invariance, KeptInvariance, PTL DEF Spec

-----------------------------------------------------------------------------
(* What an aborted record reports *)

\* An abort can be signaled once: there is one call, and nothing expires.
OneCall == CanExpire = FALSE /\ \A c, d \in Client : c = d

\* One slot for workers: a goroutine starts only after the one before has ended.
OneSlot == \A v, w \in Worker : v = w

\* A caller whose snapshot is current has seen the record running, and after
\* the signal there is none left who could signal again.
Calls ==
    \A c \in Client : /\ cl[c].pc = "tas" /\ c \in cur.c => rec.status \in Running
                      /\ signaled => cl[c].pc \notin {"get", "tas"}

\* A worker that has seen the signal goes from its store to doAbort, nowhere else.
Waits(x, l) == l.abort => x \in {"store", "tas", "blind", "abort"}

\* While the signal is stored: a worker keeps the record fresh and holds all
\* tasks there are.
Obeys(w) ==
    /\ pc[w] \notin {"cdel", "cancel", "blind"}
    /\ pc[w] # "idle" => ~stale
    /\ pc[w] \notin {"idle", "start"} => ka[w] # "off"
    /\ Waits(pc[w], loc[w])
    /\ Holds(pc[w], loc[w], tdb)
    /\ pc[w] = "cstore" => loc[w].lst = tdb

Answering ==
    /\ \A w \in Worker : Obeys(w)
    /\ AtMostOne
    /\ OneTask(tdb)
    /\ \A p \in Pod : /\ rp[p].pc \in {"idle", "got"}
                      /\ rp[p].pc = "got" => rp[p].status \in Running

\* A worker that is on no path to "aborted".
Over(x, l) ==
    /\ ~l.abort /\ x # "abort"
    /\ x \in {"cget", "cstore"} => l.fin = "completed"

NoneOpen(l) == \A c \in Comp, i \in Tid : l[c][i] # "open"

\* An aborted record has been compressed with no task open, and no reaper will
\* put another in its place.
Reported ==
    /\ rec.status = "aborted" => rec.zip /\ NoneOpen(rec.report)
    /\ \A p \in Pod : /\ rp[p].pc = "got" /\ rp[p].status = "aborted" => rp[p].zip
                      /\ rp[p].pc = "cstore" => rp[p].status # "aborted"

\* Once the record has been completed after the signal, nobody aborts it again,
\* however many workers there are by then.
Answered == (\A w \in Worker : Over(pc[w], loc[w])) /\ Reported

\* A record of an older version, which nobody works on.
Old == /\ ~signaled /\ born /\ rec.status \in {"completed", "none"}
       /\ \A w \in Worker : pc[w] = "idle"

\* With one signal: after it comes it is first obeyed, then answered for good.
AbortInv ==
    /\ Calls
    /\ Old \/ WholeInv
    /\ signaled /\ errs = 0 => IF rec.status = "abort-signaled" THEN Answering
                                                                ELSE Answered

\* Whatever task the database still has is the worker's, and as the worker has
\* it: a reaper may have deleted some.
Within(db, t) ==
    \A c \in Comp, i \in Tid : db[c][i] # "none" => t[c].id = i /\ t[c].st = db[c][i]

Owns(w) ==
    /\ pc[w] \in AtTasks \cup {"blind", "cdel"} => Within(tdb, loc[w].task)
    /\ loc[w].fin = "aborted" => loc[w].aborted
    /\ pc[w] = "cstore" /\ loc[w].fin = "aborted" => NoneOpen(loc[w].lst)

\* With one slot, however often an abort is signaled.
SlotInv == errs = 0 => OneTask(tdb) /\ (\A w \in Worker : Owns(w)) /\ Reported

-----------------------------------------------------------------------------

\* Where a worker goes after a call.
LEMMA ResumePlace ==
    ASSUME TypeOK, NEW w \in Worker, NEW l, Resume(w, l)
    PROVE  \/ pc'[w] = "idle" /\ loc'[w] = Fresh
           \/ pc'[w] \in {"gather", "seq"} /\ loc'[w] = l
<1>1. CASE Exit(w)
  BY <1>1, ExitPlace
<1>2. CASE /\ Goto(w, IF l.site = "setup" THEN "gather" ELSE "seq")
           /\ loc' = [loc EXCEPT ![w] = l]
  BY <1>2, MovePlace
<1> QED BY <1>1, <1>2 DEF Resume

LEMMA CompletePlace ==
    ASSUME TypeOK, NEW w \in Worker, NEW l \in Local, Complete(w, l)
    PROVE  pc'[w] = "cget" /\ loc'[w].fin = "completed" /\ (loc'[w].abort <=> l.abort)
<1>1. pc'[w] = "cget" /\ loc'[w] = [l EXCEPT !.site = "end", !.fin = "completed"]
  BY MovePlace DEF Complete
<1> QED BY <1>1 DEF Local

LEMMA StoreReturnsPlace ==
    ASSUME TypeOK, NEW w \in Worker, StoreReturns(w, loc[w])
    PROVE  \/ pc'[w] = "abort" /\ loc[w].abort
           \/ pc'[w] \in {"idle", "gather", "seq"} /\ ~loc'[w].abort
<1> DEFINE m == [loc[w] EXCEPT !.try = 0]
<1>1. m.abort <=> loc[w].abort
  BY DEF TypeOK, Local
<1>2. CASE loc[w].abort /\ Goto(w, "abort")
  BY <1>2 DEF Goto, TypeOK
<1>3. CASE ~loc[w].abort /\ Resume(w, m)
  <2> HIDE DEF m
  <2>1. ~Fresh.abort
    BY DEF Fresh
  <2> QED BY <1>1, <1>3, <2>1, ResumePlace
<1> QED BY <1>2, <1>3 DEF StoreReturns

LEMMA checkAbortPlace ==
    ASSUME TypeOK, NEW w \in Worker, NEW x, NEW l \in Local, checkAbort(w, x, l)
    PROVE  /\ pc'[w] = x \/ (pc'[w] = "abort" /\ rec.status = "abort-signaled")
           /\ loc'[w].abort <=> l.abort
<1> DEFINE m == [l EXCEPT !.site = "end", !.wait = {}]
<1>1. m.abort <=> l.abort
  BY DEF Local
<1>2. CASE /\ rec.status = "abort-signaled" /\ Goto(w, "abort")
           /\ loc' = [loc EXCEPT ![w] = m]
  <2> HIDE DEF m
  <2> QED BY <1>1, <1>2, MovePlace
<1>3. CASE Goto(w, x) /\ loc' = [loc EXCEPT ![w] = l]
  BY <1>3, MovePlace
<1> QED BY <1>2, <1>3 DEF checkAbort

\* A worker sets out for doAbort only when it has seen the signal, and then
\* goes there.
LEMMA WorkerCourse ==
    ASSUME TypeOK, NEW w \in Worker, WorkerStep(w)
    PROVE  /\ pc'[w] # "start"
           /\ Waits(pc[w], loc[w]) /\ ~Error => Waits(pc'[w], loc'[w])
           /\ Over(pc[w], loc[w]) /\ rec.status # "abort-signaled"
                 => Over(pc'[w], loc'[w])
<1> DEFINE Goal == /\ pc'[w] # "start"
                   /\ Waits(pc[w], loc[w]) /\ ~Error => Waits(pc'[w], loc'[w])
                   /\ Over(pc[w], loc[w]) /\ rec.status # "abort-signaled"
                         => Over(pc'[w], loc'[w])
<1>1. loc[w] \in Local /\ loc[w].task \in [Comp -> Held]
  BY DEF TypeOK, Local
<1>2. (/\ pc[w] \notin {"store", "tas", "blind", "abort"} /\ pc'[w] # "start"
       /\ loc'[w].abort => loc[w].abort
       /\ pc'[w] = "abort" => rec.status = "abort-signaled"
       /\ pc'[w] \in {"cget", "cstore"}
             => loc'[w].fin = "completed" \/ (pc[w] = "cget" /\ loc'[w].fin = loc[w].fin))
          => Goal
  BY DEF Waits, Over
<1>3. ~Fresh.abort
  BY DEF Fresh
<1> SUFFICES Goal
  OBVIOUS
<1> HIDE DEF Goal
<1>4. (/\ pc[w] \notin {"store", "tas", "blind", "abort"}
       /\ pc'[w] \notin {"start", "cget", "cstore", "abort"}
       /\ loc'[w].abort => loc[w].abort)
          => Goal
  BY <1>2
<1>5. CASE StartWorker(w) \/ LoadTasks(w) \/ CreateTask(w) \/ Cancel(w)
  <2>1. CASE StartWorker(w)
    <3>1. pc'[w] \in {"idle", "setup"} /\ (loc'[w].abort => loc[w].abort) /\ pc[w] = "start"
      BY <1>3, <2>1, ExitPlace DEF StartWorker, Goto, TypeOK
    <3> QED BY <1>4, <3>1
  <2>2. CASE LoadTasks(w)
    <3>1. pc'[w] = "create" /\ (loc'[w].abort <=> loc[w].abort) /\ pc[w] = "setup"
      BY <2>2 DEF LoadTasks, Goto, TypeOK, Local
    <3> QED BY <1>4, <3>1
  <2>3. CASE CreateTask(w)
    <3>1. pc'[w] = "create" /\ (loc'[w].abort <=> loc[w].abort) /\ pc[w] = "create"
      BY <2>3 DEF CreateTask, TypeOK, Local
    <3> QED BY <1>4, <3>1
  <2>4. CASE Cancel(w)
    <3>1. pc'[w] = "idle" /\ ~loc'[w].abort /\ pc[w] = "cancel"
      BY <1>3, <2>4, ExitPlace DEF Cancel
    <3> QED BY <1>4, <3>1
  <2> QED BY <1>5, <2>1, <2>2, <2>3, <2>4
<1>6. CASE SetupDone(w)
  <2>1. pc[w] = "create"
    BY <1>6 DEF SetupDone
  <2>2. CASE Complete(w, loc[w])
    BY <1>1, <1>2, <2>1, <2>2, CompletePlace
  <2>3. CASE Goto(w, "store") /\ UNCHANGED loc
    <3>1. pc'[w] = "store"
      BY <2>3 DEF Goto, TypeOK
    <3> QED BY <1>4, <2>1, <2>3, <3>1
  <2> QED BY <1>6, <2>2, <2>3 DEF SetupDone
<1>7. CASE StoreGet(w)
  <2>1. pc[w] = "store"
    BY <1>7 DEF StoreGet
  <2>2. CASE Error /\ StoreReturns(w, loc[w])
    BY <2>2, StoreReturnsPlace DEF Goal, Waits, Over
  <2>3. CASE rec.status = "none" /\ Goto(w, "blind") /\ UNCHANGED loc
    <3>1. pc'[w] = "blind"
      BY <2>3 DEF Goto, TypeOK
    <3> QED BY <2>1, <2>3, <3>1 DEF Goal, Waits, Over
  <2>4. CASE /\ Goto(w, "tas")
             /\ loc' = [loc EXCEPT ![w].abort = @ \/ rec.status = "abort-signaled"]
    <3>1. pc'[w] = "tas" /\ (loc'[w].abort => loc[w].abort \/ rec.status = "abort-signaled")
      BY <2>4 DEF Goto, TypeOK, Local
    <3> QED BY <3>1 DEF Goal, Waits, Over
  <2> QED BY <1>7, <2>2, <2>3, <2>4 DEF StoreGet
<1>8. CASE StoreTAS(w) \/ StoreBlind(w)
  <2>1. CASE StoreReturns(w, loc[w])
    BY <2>1, StoreReturnsPlace DEF Goal, Waits, Over
  <2>2. CASE pc[w] = "tas" /\ Goto(w, "store") /\ loc' = [loc EXCEPT ![w].try = @ + 1]
    <3>1. pc'[w] = "store" /\ (loc'[w].abort <=> loc[w].abort)
      BY <2>2 DEF Goto, TypeOK, Local
    <3> QED BY <3>1 DEF Goal, Waits, Over
  <2> QED BY <1>8, <2>1, <2>2 DEF StoreTAS, StoreBlind
<1>9. CASE doAbort(w)
  <2>1. pc[w] = "abort"
    BY <1>9 DEF doAbort
  <2>2. CASE UNCHANGED pc
    BY <2>1, <2>2 DEF Goal, Waits, Over
  <2>3. CASE /\ Goto(w, "cget")
             /\ loc' = [loc EXCEPT ![w].fin = "aborted", ![w].aborted = TRUE,
                                   ![w].abort = FALSE]
    <3>1. pc'[w] = "cget" /\ ~loc'[w].abort
      BY <2>3 DEF Goto, TypeOK, Local
    <3> QED BY <2>1, <3>1 DEF Goal, Waits, Over
  <2> QED BY <1>9, <2>2, <2>3 DEF doAbort
<1>10. CASE Gather(w)
  <2>1. pc[w] = "gather"
    BY <1>10 DEF Gather
  <2>2. CASE Goto(w, "cancel") /\ UNCHANGED loc
    <3>1. pc'[w] = "cancel"
      BY <2>2 DEF Goto, TypeOK
    <3> QED BY <1>4, <2>1, <2>2, <3>1
  <2>3. ASSUME NEW bad, NEW l,
               l = [loc[w] EXCEPT !.task = Set(loc[w].task, bad, "failed")],
               \/ Complete(w, l)
               \/ /\ Goto(w, "store")
                  /\ loc' = [loc EXCEPT ![w] = [l EXCEPT !.site = "gathered"]]
        PROVE  Goal
    <3>1. l \in Local /\ (l.abort <=> loc[w].abort)
      BY <1>1, <2>3, SetType DEF Local, TaskStatus
    <3>2. CASE Complete(w, l)
      BY <1>2, <2>1, <3>1, <3>2, CompletePlace
    <3>3. CASE Goto(w, "store") /\ loc' = [loc EXCEPT ![w] = [l EXCEPT !.site = "gathered"]]
      <4>1. pc'[w] = "store" /\ loc'[w] = [l EXCEPT !.site = "gathered"]
        BY <3>3, MovePlace
      <4>2. loc'[w].abort <=> loc[w].abort
        BY <3>1, <4>1 DEF Local
      <4> QED BY <1>4, <2>1, <4>1, <4>2
    <3> QED BY <2>3, <3>2, <3>3
  <2> QED BY <1>10, <2>2, <2>3 DEF Gather
<1>11. CASE Sequence(w) \/ Send(w) \/ Poll(w) \/ PollDeadline(w)
  <2>1. pc[w] \in {"seq", "send", "poll"}
    BY <1>11 DEF Sequence, Send, Poll, PollDeadline
  <2>2. pc'[w] \in {"tier", "confirm"} /\ (loc'[w].abort <=> loc[w].abort)
    <3>1. CASE Sequence(w)
      BY <3>1 DEF Sequence, Goto, TypeOK, Local
    <3>2. CASE Send(w)
      BY <3>2 DEF Send, Goto, TypeOK, Local
    <3>3. ASSUME NEW done, NEW next, NEW bad, PollWith(w, done, next, bad)
          PROVE  pc'[w] \in {"tier", "confirm"} /\ (loc'[w].abort <=> loc[w].abort)
      BY <3>3 DEF PollWith, Goto, TypeOK, Local
    <3> QED BY <1>11, <3>1, <3>2, <3>3 DEF Poll, PollDeadline
  <2> QED BY <1>4, <2>1, <2>2
<1>12. CASE Tier(w) \/ TiersDone(w) \/ Confirm(w)
  <2>1. pc[w] \in {"tier", "done", "confirm"}
    BY <1>12 DEF Tier, TiersDone, Confirm
  <2> DEFINE x == IF Open(w) = {} THEN "done" ELSE "send"
             l == [loc[w] EXCEPT !.tiers = @ - 1]
  <2>2. CASE loc[w].tiers > 0 /\ checkAbort(w, x, l)
    <3>1. l \in Local /\ (l.abort <=> loc[w].abort)
      BY <1>1, <2>2, ConstAssumption DEF Local
    <3>2. x \in {"done", "send"}
      OBVIOUS
    <3> HIDE DEF x, l
    <3> QED BY <1>2, <2>1, <2>2, <3>1, <3>2, checkAbortPlace
  <2>3. CASE Complete(w, loc[w])
    BY <1>1, <1>2, <2>1, <2>3, CompletePlace
  <2>4. CASE checkAbort(w, "poll", loc[w])
    BY <1>1, <1>2, <2>1, <2>4, checkAbortPlace
  <2> QED BY <1>12, <2>2, <2>3, <2>4 DEF Tier, TiersDone, Confirm
<1>13. CASE CompressGet(w)
  <2>1. pc[w] = "cget"
    BY <1>13 DEF CompressGet
  <2>2. CASE loc' = [loc EXCEPT ![w].lst = tdb] /\ Goto(w, "cstore")
    <3>1. /\ pc'[w] = "cstore" /\ (loc'[w].abort <=> loc[w].abort)
          /\ loc'[w].fin = loc[w].fin
      BY <2>2 DEF Goto, TypeOK, Local
    <3> QED BY <1>2, <2>1, <3>1
  <2>3. CASE Resume(w, loc[w])
    BY <1>3, <1>4, <2>1, <2>3, ResumePlace
  <2> QED BY <1>13, <2>2, <2>3 DEF CompressGet
<1>14. CASE CompressStore(w)
  <2>1. pc[w] = "cstore"
    BY <1>14 DEF CompressStore
  <2>2. CASE Goto(w, "cdel") /\ UNCHANGED loc
    <3>1. pc'[w] = "cdel"
      BY <2>2 DEF Goto, TypeOK
    <3> QED BY <1>4, <2>1, <2>2, <3>1
  <2> DEFINE l == [loc[w] EXCEPT !.lst = NoTasks]
  <2>3. CASE Resume(w, l)
    <3>1. l.abort <=> loc[w].abort
      BY <1>1 DEF Local
    <3> HIDE DEF l
    <3> QED BY <1>3, <1>4, <2>1, <2>3, <3>1, ResumePlace
  <2> QED BY <1>14, <2>2, <2>3 DEF CompressStore
<1>15. CASE CompressDelete(w)
  <2>1. pc[w] = "cdel"
    BY <1>15 DEF CompressDelete
  <2>2. CASE UNCHANGED pc /\ \E t : loc' = [loc EXCEPT ![w].lst = t]
    <3>1. pc'[w] = "cdel" /\ (loc'[w].abort <=> loc[w].abort)
      BY <2>1, <2>2 DEF TypeOK, Local
    <3> QED BY <1>4, <2>1, <3>1
  <2>3. CASE Resume(w, loc[w])
    BY <1>3, <1>4, <2>1, <2>3, ResumePlace
  <2> QED BY <1>15, <2>2, <2>3 DEF CompressDelete
<1> QED
  BY <1>5, <1>6, <1>7, <1>8, <1>9, <1>10, <1>11, <1>12, <1>13, <1>14, <1>15 DEF WorkerStep

\* Only a worker that is there takes a step, and it leaves the callers alone.
LEMMA WorkerBusy ==
    ASSUME TypeOK, NEW w \in Worker, WorkerStep(w)
    PROVE  pc[w] # "idle"
BY DEF WorkerStep, StartWorker, LoadTasks, CreateTask, SetupDone, StoreGet, StoreTAS,
    StoreBlind, doAbort, Gather, Cancel, Sequence, Tier, TiersDone, Send, Confirm, Poll,
    PollDeadline, CompressGet, CompressStore, CompressDelete

\* No caller can signal a second time.
LEMMA NextCalls ==
    ASSUME TypeOK, IInv, Calls, OneCall, [Next]_vars
    PROVE  Calls'
<1>1. ASSUME UNCHANGED cl, signaled' => signaled,
             (rec' = rec /\ cur'.c = cur.c) \/ cur'.c = {}
      PROVE  Calls'
  BY <1>1 DEF Calls
<1>2. ASSUME NEW w \in Worker, WorkerStep(w)
      PROVE  Calls'
  <2>1. UNCHANGED <<cl, signaled>>
    BY <1>2, OneMoves
  <2>2. (rec' = rec /\ cur'.c = cur.c) \/ cur'.c = {}
    <3>1. CASE StoreGet(w)
      BY <3>1 DEF StoreGet, TypeOK
    <3> QED BY <1>2, <3>1, StoreCur
        DEF WorkerStep, StartWorker, LoadTasks, CreateTask, SetupDone, StoreTAS, StoreBlind,
            doAbort, Gather, Cancel, Sequence, Tier, TiersDone, Send, Confirm, Poll,
            PollDeadline, CompressGet, CompressStore, CompressDelete, storeVars
  <2> QED BY <1>1, <2>1, <2>2
<1>3. ASSUME NEW w \in Worker, TriggerTransition(w) \/ KeepAliveStep(w)
      PROVE  Calls'
  <2>1. UNCHANGED <<cl, signaled>>
    BY <1>3 DEF TriggerTransition, KeepAliveStep, KeepAliveGet, KeepAliveTAS, envVars
  <2>2. (rec' = rec /\ cur'.c = cur.c) \/ cur'.c = {}
    <3>1. CASE KeepAliveGet(w)
      BY <3>1 DEF KeepAliveGet, TypeOK
    <3>2. CASE TriggerTransition(w) \/ KeepAliveTAS(w)
      BY <3>2, StoreCur DEF TriggerTransition, KeepAliveTAS, storeVars
    <3> QED BY <1>3, <3>1, <3>2 DEF KeepAliveStep
  <2> QED BY <1>1, <2>1, <2>2
<1>4. ASSUME NEW p \in Pod, ReaperStep(p)
      PROVE  Calls'
  <2>1. ~expired
    BY DEF IInv, Signaler, OneCall
  <2>2. UNCHANGED cl /\ (signaled' => signaled)
    <3>1. CASE ReaperLive(p)
      BY <2>1, <3>1 DEF ReaperLive
    <3>2. CASE ~ReaperLive(p)
      <4>1. UNCHANGED <<cl, signaled>>
        BY <1>4, <3>2
        DEF ReaperStep, ReaperGet, ReaperPass, DeleteGet, DeleteTask, DeleteRecord,
            ReaperCompressGet, ReaperCompressStore, ReaperCompressDelete, envVars
      <4> QED BY <4>1
    <3> QED BY <3>1, <3>2
  <2>3. (rec' = rec /\ cur'.c = cur.c) \/ cur'.c = {}
    <3>1. CASE ReaperGet(p) \/ ReaperPass(p)
      <4>1. rec' = rec /\ \E R : cur' = [cur EXCEPT !.r = R]
        BY <3>1 DEF ReaperGet, ReaperPass
      <4> QED BY <4>1 DEF TypeOK
    <3>2. CASE ~ReaperGet(p) /\ ~ReaperPass(p)
      BY <1>4, <3>2, StoreCur
      DEF ReaperStep, ReaperLive, DeleteGet, DeleteTask, DeleteRecord, ReaperCompressGet,
          ReaperCompressStore, ReaperCompressDelete, storeVars
    <3> QED BY <3>1, <3>2
  <2> QED BY <1>1, <2>2, <2>3
<1>5. ASSUME NEW c \in Client, ClientStep(c)
      PROVE  Calls'
  <2>1. \A d \in Client : d = c
    BY DEF OneCall
  <2>2. cl[c].pc \in {"get", "tas"}
    BY <1>5 DEF ClientStep, AbortGet, AbortTAS
  <2>3. ~signaled
    BY <2>2 DEF Calls
  <2>4. CASE AbortGet(c)
    <3>1. UNCHANGED <<rec, signaled>>
      BY <2>4 DEF AbortGet, envVars
    <3>2. cl'[c].pc = "tas" => rec.status \in Running
      <4>1. CASE rec.status \in Running
        BY <4>1
      <4>2. CASE Answer(c, "accepted") \/ Answer(c, "refused") \/ Answer(c, "failed")
        BY <4>2 DEF Answer, TypeOK, Call
      <4> QED BY <2>4, <4>1, <4>2 DEF AbortGet
    <3> QED BY <2>1, <2>3, <3>1, <3>2 DEF Calls
  <2>5. CASE AbortTAS(c)
    <3>1. CASE Answer(c, "accepted") \/ Answer(c, "failed")
      BY <2>1, <3>1 DEF Answer, TypeOK, Call, Calls
    <3>2. CASE /\ UNCHANGED signaled
               /\ cl' = [cl EXCEPT ![c] = IF @.try < 2
                                          THEN [pc |-> "get", try |-> @.try + 1]
                                          ELSE [@ EXCEPT !.pc = "failed"]]
      <4>1. cl'[c].pc \in {"get", "failed"}
        BY <3>2 DEF TypeOK, Call
      <4> QED BY <2>1, <2>3, <3>2, <4>1 DEF Calls
    <3> QED BY <2>5, <3>1, <3>2 DEF AbortTAS
  <2> QED BY <1>5, <2>4, <2>5 DEF ClientStep
<1>6. ASSUME NEW p \in Pod, Crash(p)
      PROVE  Calls'
  BY <1>1, <1>6 DEF Crash, TypeOK
<1>7. CASE Lapse \/ Expire \/ UNCHANGED vars
  BY <1>1, <1>7 DEF Lapse, Expire, vars, storeVars, envVars
<1> QED BY <1>2, <1>3, <1>4, <1>5, <1>6, <1>7 DEF Next

\* Nobody takes up a record that was finished before.
LEMMA NextOld ==
    ASSUME TypeOK, IInv, Informed, Calls, OneCall, Old, ~signaled', [Next]_vars
    PROVE  Old'
<1>1. /\ ~signaled /\ born /\ rec.status \in {"completed", "none"}
      /\ \A w \in Worker : pc[w] = "idle"
  BY DEF Old
<1>2. ASSUME born', rec'.status \in {"completed", "none"},
             \A w \in Worker : pc'[w] = "idle"
      PROVE  Old'
  BY <1>2 DEF Old
<1>3. ASSUME NEW w \in Worker, WorkerStep(w) \/ TriggerTransition(w)
      PROVE  FALSE
  BY <1>1, <1>3, WorkerBusy DEF TriggerTransition
<1>4. ASSUME NEW w \in Worker, KeepAliveStep(w)
      PROVE  Old'
  BY <1>1, <1>2, <1>4 DEF KeepAliveStep, KeepAliveGet, KeepAliveTAS, Store, storeVars, envVars
<1>5. ASSUME NEW p \in Pod, ReaperStep(p)
      PROVE  Old'
  <2>1. ~ReaperLive(p)
    BY <1>1 DEF IInv, Snapshots, ReaperLive, Running
  <2>2. UNCHANGED <<pc, born>>
    BY <1>5, <2>1
    DEF ReaperStep, ReaperGet, ReaperPass, DeleteGet, DeleteTask, DeleteRecord,
        ReaperCompressGet, ReaperCompressStore, ReaperCompressDelete, envVars
  <2>3. rec'.status \in {"completed", "none"}
    <3>1. CASE ReaperCompressStore(p)
      <4>1. rp[p].status = "completed"
        BY <1>1, <3>1 DEF ReaperCompressStore, IInv, Quiet, Reaping
      <4> QED BY <1>1, <3>1, <4>1 DEF ReaperCompressStore, Store, Compressed, storeVars
    <3>2. CASE DeleteRecord(p)
      BY <1>1, <3>2 DEF DeleteRecord, Store, NoRec, storeVars
    <3>3. CASE ~ReaperCompressStore(p) /\ ~DeleteRecord(p)
      BY <1>1, <1>5, <2>1, <3>3
      DEF ReaperStep, ReaperGet, ReaperPass, DeleteGet, DeleteTask,
          ReaperCompressGet, ReaperCompressDelete, storeVars
    <3> QED BY <3>1, <3>2, <3>3
  <2> QED BY <1>1, <1>2, <2>2, <2>3
<1>6. ASSUME NEW c \in Client, ClientStep(c)
      PROVE  Old'
  BY <1>1, <1>2, <1>6 DEF ClientStep, AbortGet, AbortTAS, storeVars, envVars
<1>7. ASSUME NEW p \in Pod, Crash(p)
      PROVE  Old'
  BY <1>1, <1>2, <1>7 DEF Crash
<1>8. CASE Lapse \/ Expire \/ UNCHANGED vars
  BY <1>1, <1>2, <1>8 DEF Lapse, Expire, vars, storeVars, envVars
<1> QED BY <1>3, <1>4, <1>5, <1>6, <1>7, <1>8 DEF Next

\* When the signal comes the worker, if there is one, holds all tasks and keeps
\* the record fresh.
LEMMA SignalComes ==
    ASSUME TypeOK, IInv, KeptInv, AbortInv, OneCall, ~signaled, signaled',
           errs = 0, [Next]_vars
    PROVE  rec'.status = "abort-signaled" /\ Answering'
<1>1. ~expired
  BY DEF IInv, Signaler, OneCall
<1>2. PICK c \in Client : AbortTAS(c)
  <2>1. ASSUME NEW w \in Worker, WorkerStep(w)
        PROVE  FALSE
    BY <2>1, OneMoves
  <2>2. ASSUME NEW w \in Worker, TriggerTransition(w) \/ KeepAliveStep(w)
        PROVE  FALSE
    BY <2>2 DEF TriggerTransition, KeepAliveStep, KeepAliveGet, KeepAliveTAS, envVars
  <2>3. ASSUME NEW p \in Pod, ReaperStep(p) \/ Crash(p)
        PROVE  FALSE
    BY <1>1, <2>3
    DEF ReaperStep, ReaperGet, ReaperLive, ReaperPass, DeleteGet, DeleteTask, DeleteRecord,
        ReaperCompressGet, ReaperCompressStore, ReaperCompressDelete, Crash, envVars
  <2>4. ~(Lapse \/ Expire \/ UNCHANGED vars) /\ \A c \in Client : ~AbortGet(c)
    BY DEF Lapse, Expire, vars, envVars, AbortGet
  <2> QED BY <2>1, <2>2, <2>3, <2>4 DEF Next, ClientStep
<1>3. /\ cl[c].pc = "tas" /\ c \in cur.c
      /\ rec' = [rec EXCEPT !.status = "abort-signaled"] /\ (stale' => stale)
      /\ UNCHANGED <<tdb, pc, loc, ka, rp>>
  BY <1>2 DEF AbortTAS, Store
<1>4. rec'.status = "abort-signaled"
  BY <1>3 DEF TypeOK, Record
<1>5. rec.status \in Running
  BY <1>3 DEF AbortInv, Calls
<1>6. Sound /\ Quiet /\ Listed
  BY <1>5 DEF AbortInv, Old, WholeInv, IInv, KeptInv, Running
<1>7. ASSUME NEW w \in Worker
      PROVE  Obeys(w)'
  <2>1. NoAbort /\ Attends(w) /\ Holds(pc[w], loc[w], tdb) /\ pc[w] # "cancel"
    BY <1>6 DEF Quiet, Sound
  <2>2. pc[w] \notin {"cdel", "cancel", "blind"}
    BY <1>5, <2>1 DEF Attends, NoAbort, Running
  <2>3. pc[w] # "idle" => ~stale
    BY <2>1, <2>2 DEF Attends
  <2>4. pc[w] \notin {"idle", "start"} => ka[w] # "off"
    BY <2>1, <2>2 DEF Attends
  <2>5. Waits(pc[w], loc[w])
    BY <2>1 DEF NoAbort, Waits
  <2>6. pc[w] = "cstore" => loc[w].lst = tdb
    BY <1>6 DEF Listed
  <2> QED BY <1>3, <2>1, <2>2, <2>3, <2>4, <2>5, <2>6 DEF Obeys
<1>8. ASSUME NEW p \in Pod
      PROVE  rp[p].pc \in {"idle", "got"} /\ (rp[p].pc = "got" => rp[p].status \in Running)
  BY <1>5, <1>6 DEF Quiet, Reaping, Running, Terminal, TypeOK, Reaper
<1>9. AtMostOne /\ OneTask(tdb)
  BY <1>6 DEF Quiet, Sound
<1>10. AtMostOne'
  BY <1>3, <1>9 DEF AtMostOne, Active
<1> QED BY <1>3, <1>4, <1>7, <1>8, <1>9, <1>10 DEF Answering

\* What becomes of the record in a worker's step.
LEMMA WorkerRecord ==
    ASSUME TypeOK, ~Error, NEW w \in Worker, WorkerStep(w)
    PROVE  \/ UNCHANGED rec /\ (stale' => stale)
           \/ (StoreTAS(w) \/ StoreBlind(w)) /\ rec' = Live(StoredStatus(loc[w])) /\ ~stale'
              /\ (StoreTAS(w) => w \in cur.w)
           \/ CompressStore(w) /\ rec' = Compressed(loc[w].fin, loc[w].lst)
<1>1. CASE StoreTAS(w) \/ StoreBlind(w)
  BY <1>1 DEF StoreTAS, StoreBlind, Store, storeVars, TypeOK
<1>2. CASE CompressStore(w)
  BY <1>2 DEF CompressStore, Store, storeVars
<1>3. CASE StoreGet(w)
  BY <1>3 DEF StoreGet
<1>4. CASE ~StoreTAS(w) /\ ~StoreBlind(w) /\ ~CompressStore(w) /\ ~StoreGet(w)
  <2>1. UNCHANGED storeVars
    BY <1>4 DEF WorkerStep, StartWorker, LoadTasks, CreateTask, SetupDone, doAbort, Gather,
       Cancel, Sequence, Tier, TiersDone, Send, Confirm, Poll, PollDeadline, CompressGet,
       CompressDelete
  <2> QED BY <2>1 DEF storeVars
<1> QED BY <1>1, <1>2, <1>3, <1>4

\* A worker that obeys completes the record without an open task, or leaves the
\* signal where it is and obeys on.
LEMMA WorkerAnswers ==
    ASSUME TypeOK, Informed, Answering, rec.status = "abort-signaled", ~Error,
           NEW w \in Worker, WorkerStep(w)
    PROVE  IF rec'.status = "abort-signaled" THEN Answering' ELSE Answered'
<1>1. Obeys(w) /\ OneTask(tdb) /\ pc[w] # "idle"
  BY WorkerBusy DEF Answering
<1>2. \A v \in Worker : v # w => /\ pc[v] = "idle" /\ Obeys(v)
                                 /\ pc'[v] = "idle" /\ loc'[v] = loc[v]
  BY <1>1, OneMoves DEF Answering, AtMostOne, Active
<1>3. UNCHANGED rp
  BY OneMoves
<1>4. \A p \in Pod : /\ rp'[p].pc \in {"idle", "got"}
                     /\ rp'[p].pc = "got" => rp'[p].status \in Running
  BY <1>3 DEF Answering
<1>5. CASE CompressStore(w)
  <2>1. /\ rec' = Compressed(loc[w].fin, loc[w].lst)
        /\ pc[w] = "cstore" /\ pc' = [pc EXCEPT ![w] = "cdel"] /\ UNCHANGED loc
    BY <1>5 DEF CompressStore, Store, Goto
  <2>2. loc[w].fin \in Terminal /\ loc[w].task \in [Comp -> Held]
    BY DEF TypeOK, Local
  <2>3. /\ rec'.status = loc[w].fin /\ rec'.zip /\ rec'.report = loc[w].lst
        /\ rec'.status # "abort-signaled"
    BY <2>1, <2>2 DEF Compressed, Terminal
  <2>4. loc[w].lst = tdb /\ Mirror(tdb, loc[w].task) /\ ~loc[w].abort
    BY <1>1, <2>1 DEF Obeys, Waits, Holds, AtTasks
  <2>5. \A c \in Comp : loc[w].task[c].st # "open"
    BY <1>1, <2>1 DEF Obeys, Holds
  <2>6. NoneOpen(rec'.report)
    BY <2>3, <2>4, <2>5 DEF NoneOpen, Mirror
  <2>7. pc'[w] = "cdel" /\ ~loc'[w].abort
    BY <2>1, <2>4 DEF TypeOK
  <2>8. \A v \in Worker : Over(pc'[v], loc'[v])
    BY <1>2, <2>7 DEF Over, Obeys, Waits
  <2>9. \A p \in Pod : /\ rp'[p].pc = "got" /\ rp'[p].status = "aborted" => rp'[p].zip
                       /\ rp'[p].pc = "cstore" => rp'[p].status # "aborted"
    BY <1>4 DEF Running
  <2> QED BY <2>3, <2>6, <2>8, <2>9 DEF Answered, Reported
<1>6. CASE ~CompressStore(w)
  <2>1. ~StoreBlind(w) /\ ~CompressDelete(w) /\ ~Cancel(w)
    BY <1>1 DEF Obeys, StoreBlind, CompressDelete, Cancel
  <2>2. StoreTAS(w) /\ w \in cur.w => loc[w].abort
    BY DEF Informed, StoreTAS
  <2>3. rec'.status = "abort-signaled" /\ (stale' => stale)
    BY <1>6, <2>1, <2>2, WorkerRecord DEF Live, StoredStatus
  <2>4. ~stale'
    BY <1>1, <2>3 DEF Obeys
  <2>5. Holds(pc'[w], loc'[w], tdb') /\ pc'[w] # "cancel"
    BY <1>1, WorkerHolds DEF Obeys
  <2>6. pc'[w] \notin {"cdel", "blind"}
    <3>1. pc'[w] # "cdel"
      BY <1>6, <2>1, Arrivals
    <3>2. CASE StoreGet(w)
      <4>1. pc'[w] = "tas"
        BY <3>2 DEF StoreGet, Goto, TypeOK
      <4> QED BY <4>1
    <3>3. CASE ~StoreGet(w)
      BY <3>1, <3>3, Arrivals
    <3> QED BY <3>2, <3>3
  <2>7. pc'[w] \notin {"idle", "start"} => ka'[w] # "off"
    <3>1. CASE StartWorker(w)
      <4>1. ka'[w] = "on" \/ pc'[w] = "idle"
        BY <3>1, ExitPlace DEF StartWorker, TypeOK
      <4> QED BY <4>1
    <3>2. CASE ~StartWorker(w)
      <4>1. UNCHANGED ka /\ pc[w] # "start"
        BY <2>1, <3>2
        DEF WorkerStep, LoadTasks, CreateTask, SetupDone, StoreGet, StoreTAS,
            StoreBlind, doAbort, Gather, Sequence, Tier, TiersDone, Send, Confirm, Poll,
            PollDeadline, CompressGet, CompressStore, CompressDelete
      <4> QED BY <1>1, <4>1 DEF Obeys
    <3> QED BY <3>1, <3>2
  <2>8. Waits(pc'[w], loc'[w])
    BY <1>1, WorkerCourse DEF Obeys
  <2>9. pc'[w] = "cstore" => loc'[w].lst = tdb'
    <3>1. CASE CompressGet(w) /\ pc'[w] = "cstore"
      BY <3>1, ResumePlace DEF CompressGet, TypeOK, Local
    <3> QED BY <3>1, Arrivals
  <2>10. Obeys(w)'
    BY <2>4, <2>5, <2>6, <2>7, <2>8, <2>9 DEF Obeys
  <2>11. \A v \in Worker : v # w => Obeys(v)'
    BY <1>2 DEF Obeys, Holds, AtTasks
  <2>12. AtMostOne'
    BY <1>2 DEF AtMostOne, Active
  <2>13. OneTask(tdb')
    BY <1>1, WorkerOneTask DEF Obeys
  <2> QED BY <1>4, <2>3, <2>10, <2>11, <2>12, <2>13 DEF Answering
<1> QED BY <1>5, <1>6

\* Nobody else gets in the way of that worker, or of there being none.
LEMMA OthersAnswer ==
    ASSUME TypeOK, IInv, Calls, OneCall, signaled, Answering, ~Error,
           rec.status = "abort-signaled", [Next]_vars, \A w \in Worker : ~WorkerStep(w)
    PROVE  rec'.status = "abort-signaled" /\ Answering'
<1>1. born /\ ~expired /\ rec.status \in Running /\ rec.status \notin Terminal
  BY DEF IInv, Unborn, Signaler, OneCall, Running, Terminal
<1>2. ASSUME UNCHANGED <<rec, tdb>>, AtMostOne',
             \A w \in Worker : \/ pc'[w] = "idle" /\ ~loc'[w].abort
                               \/ Obeys(w)',
             \A p \in Pod : /\ rp'[p].pc \in {"idle", "got"}
                            /\ rp'[p].pc = "got" => rp'[p].status \in Running
      PROVE  rec'.status = "abort-signaled" /\ Answering'
  <2>1. ASSUME NEW w \in Worker, pc'[w] = "idle", ~loc'[w].abort
        PROVE  Obeys(w)'
    BY <2>1 DEF Obeys, Waits, Holds, AtTasks
  <2> QED BY <1>2, <2>1 DEF Answering
<1>3. ASSUME NEW w \in Worker, TriggerTransition(w)
      PROVE  FALSE
  BY <1>1, <1>3 DEF TriggerTransition
<1>4. ASSUME NEW w \in Worker, KeepAliveStep(w)
      PROVE  rec'.status = "abort-signaled" /\ Answering'
  <2>1. UNCHANGED <<rec, tdb, pc, loc, rp>> /\ (stale' => stale)
    BY <1>4 DEF KeepAliveStep, KeepAliveGet, KeepAliveTAS, Store, storeVars
  <2>2. \A v \in Worker : ka[v] # "off" => ka'[v] # "off"
    BY <1>1, <1>4 DEF KeepAliveStep, KeepAliveGet, KeepAliveTAS, TypeOK
  <2>3. \A v \in Worker : Obeys(v)'
    BY <2>1, <2>2 DEF Answering, Obeys
  <2> QED BY <1>2, <2>1, <2>3 DEF Answering, AtMostOne, Active
<1>5. ASSUME NEW p \in Pod, ReaperStep(p)
      PROVE  rec'.status = "abort-signaled" /\ Answering'
  <2>1. ReaperGet(p) \/ ReaperLive(p) \/ ReaperPass(p)
    BY <1>5
    DEF Answering, ReaperStep, DeleteGet, DeleteTask, DeleteRecord, ReaperCompressGet,
        ReaperCompressStore, ReaperCompressDelete, Running, Terminal
  <2>2. \A q \in Pod : q # p => rp'[q] = rp[q]
    BY <2>1, ReaperIdleInv DEF ReaperGet, ReaperLive, ReaperPass, TypeOK
  <2>3. rp'[p].pc \in {"idle", "got"} /\ (rp'[p].pc = "got" => rp'[p].status \in Running)
    <3>1. CASE ReaperGet(p)
      BY <1>1, <3>1 DEF ReaperGet, TypeOK
    <3>2. CASE ReaperIdle(p)
      BY <3>2, ReaperIdleInv
    <3> QED BY <2>1, <3>1, <3>2 DEF ReaperLive, ReaperPass
  <2>4. \A q \in Pod : /\ rp'[q].pc \in {"idle", "got"}
                       /\ rp'[q].pc = "got" => rp'[q].status \in Running
    BY <2>2, <2>3 DEF Answering
  <2>5. CASE UNCHANGED <<rec, stale, tdb, pc, loc, ka>>
    BY <1>2, <2>4, <2>5 DEF Answering, Obeys, AtMostOne, Active
  <2>6. CASE ReaperLive(p) /\ ~stale
    <3>1. UNCHANGED <<rec, stale, tdb, pc, loc, ka>>
      BY <1>1, <2>6 DEF ReaperLive, Store
    <3> QED BY <2>5, <3>1
  <2>7. CASE ReaperLive(p) /\ stale
    <3>1. UNCHANGED <<rec, tdb, loc, ka>> /\ ~stale'
      BY <1>1, <2>7 DEF ReaperLive, Store
    <3>2. \A v \in Worker : pc[v] = "idle" /\ ~loc[v].abort
      BY <2>7 DEF Answering, Obeys, Waits
    <3>3. PICK w \in Worker : pc' = [pc EXCEPT ![w] = "start"]
      BY <2>7 DEF ReaperLive, Launch, Goto
    <3>4. pc'[w] = "start" /\ \A v \in Worker : v # w => pc'[v] = "idle"
      BY <3>2, <3>3 DEF TypeOK
    <3>5. Obeys(w)'
      BY <3>1, <3>2, <3>4 DEF Obeys, Waits, Holds, AtTasks
    <3>6. AtMostOne'
      BY <3>4 DEF AtMostOne, Active
    <3> QED BY <1>2, <2>4, <3>1, <3>2, <3>4, <3>5, <3>6
  <2> QED BY <2>1, <2>5, <2>6, <2>7 DEF ReaperGet, ReaperPass
<1>6. ASSUME NEW c \in Client, ClientStep(c)
      PROVE  FALSE
  BY <1>6 DEF Calls, ClientStep, AbortGet, AbortTAS
<1>7. ASSUME NEW p \in Pod, Crash(p)
      PROVE  rec'.status = "abort-signaled" /\ Answering'
  <2>1. UNCHANGED <<rec, tdb, stale>>
    BY <1>7 DEF Crash
  <2>2. \A v \in Worker : \/ pc'[v] = "idle" /\ loc'[v] = Fresh
                          \/ pc'[v] = pc[v] /\ loc'[v] = loc[v] /\ ka'[v] = ka[v]
    BY <1>7 DEF Crash
  <2>3. rp'[p].pc = "idle" /\ \A q \in Pod : q # p => rp'[q] = rp[q]
    BY <1>7, ReaperIdleInv DEF Crash
  <2>4. AtMostOne'
    BY <2>2 DEF Answering, AtMostOne, Active
  <2>5. ASSUME NEW v \in Worker
        PROVE  (pc'[v] = "idle" /\ ~loc'[v].abort) \/ Obeys(v)'
    <3>1. CASE loc'[v] = Fresh /\ pc'[v] = "idle"
      BY <3>1 DEF Fresh
    <3>2. CASE pc'[v] = pc[v] /\ loc'[v] = loc[v] /\ ka'[v] = ka[v]
      BY <2>1, <3>2 DEF Answering, Obeys
    <3> QED BY <2>2, <3>1, <3>2
  <2> QED BY <1>2, <2>1, <2>3, <2>4, <2>5 DEF Answering
<1>8. CASE Lapse
  <2>1. UNCHANGED <<rec, tdb, pc, loc, rp>> /\ ~Attended
    BY <1>8 DEF Lapse
  <2>2. \A v \in Worker : pc[v] = "idle" /\ ~loc[v].abort
    BY <2>1 DEF Answering, Obeys, Waits, Attended
  <2> QED BY <1>2, <2>1, <2>2 DEF Answering, AtMostOne, Active
<1>9. CASE Expire \/ UNCHANGED vars
  <2>1. UNCHANGED <<rec, stale, tdb, pc, loc, ka, rp>>
    BY <1>9 DEF Expire, vars, storeVars
  <2> QED BY <1>2, <2>1 DEF Answering, Obeys, AtMostOne, Active
<1> QED BY <1>3, <1>4, <1>5, <1>6, <1>7, <1>8, <1>9 DEF Next

\* No reaper puts an aborted record with an open task in place of another one.
LEMMA ReaperReported ==
    ASSUME TypeOK, Reported, NEW p \in Pod, ReaperStep(p)
    PROVE  Reported'
<1>1. rp[p] \in Reaper
  BY DEF TypeOK
<1>2. \A q \in Pod : q # p => rp'[q] = rp[q]
  <2>1. CASE ReaperIdle(p)
    BY <2>1, ReaperIdleInv
  <2>2. ASSUME NEW r, rp' = [rp EXCEPT ![p] = r]
        PROVE  \A q \in Pod : q # p => rp'[q] = rp[q]
    BY <2>2 DEF TypeOK
  <2> QED BY <2>1, <2>2
      DEF ReaperStep, ReaperGet, ReaperLive, ReaperPass, DeleteGet, DeleteTask,
          DeleteRecord, ReaperCompressGet, ReaperCompressStore, ReaperCompressDelete
<1>3. /\ rp'[p].pc = "got" /\ rp'[p].status = "aborted" => rp'[p].zip
      /\ rp'[p].pc = "cstore" => rp'[p].status # "aborted"
  <2>1. CASE ReaperIdle(p)
    BY <2>1, ReaperIdleInv
  <2>2. CASE ReaperGet(p)
    <3>1. rp'[p].pc = "got" /\ rp'[p].status = rec.status /\ rp'[p].zip = rec.zip
      BY <2>2 DEF ReaperGet, TypeOK
    <3> QED BY <3>1 DEF Reported
  <2>3. CASE ReaperCompressGet(p)
    <3>1. ~rp[p].zip /\ rp[p].pc = "got" /\ rp'[p].status = rp[p].status
          /\ rp'[p].pc = "cstore"
      BY <1>1, <2>3 DEF ReaperCompressGet, TypeOK, Reaper
    <3> QED BY <3>1 DEF Reported
  <2>4. CASE rp'[p].pc \in {"dtasks", "cdel"}
    BY <2>4
  <2>5. CASE DeleteGet(p) \/ ReaperCompressStore(p)
    <3>1. ASSUME DeleteGet(p)
          PROVE  rp'[p].pc = "dtasks"
      BY <1>1, <3>1 DEF DeleteGet, TypeOK, Reaper
    <3>2. ASSUME rp' = [rp EXCEPT ![p].pc = "cdel"]
          PROVE  rp'[p].pc = "cdel"
      BY <1>1, <3>2 DEF TypeOK, Reaper
    <3> QED BY <2>1, <2>4, <2>5, <3>1, <3>2 DEF ReaperCompressStore
  <2>6. CASE DeleteTask(p) \/ ReaperCompressDelete(p)
    <3>1. rp[p].pc \in {"dtasks", "cdel"}
      BY <2>6 DEF DeleteTask, ReaperCompressDelete
    <3>2. ASSUME NEW d, rp' = [rp EXCEPT ![p].lst = d]
          PROVE  rp'[p].pc \in {"dtasks", "cdel"}
      BY <1>1, <3>1, <3>2 DEF TypeOK, Reaper
    <3> QED BY <2>1, <2>4, <2>6, <3>2 DEF DeleteTask, ReaperCompressDelete
  <2> QED BY <2>1, <2>2, <2>3, <2>5, <2>6 DEF ReaperStep, ReaperLive, ReaperPass, DeleteRecord
<1>4. rec' = rec \/ rec'.status # "aborted"
  <2>1. CASE ReaperLive(p)
    BY <2>1 DEF ReaperLive, Store, TypeOK, Record
  <2>2. CASE DeleteRecord(p)
    BY <2>2 DEF DeleteRecord, Store, NoRec, storeVars
  <2>3. CASE ReaperCompressStore(p)
    BY <2>3 DEF ReaperCompressStore, Reported, Store, Compressed, storeVars
  <2>4. CASE ~ReaperLive(p) /\ ~DeleteRecord(p) /\ ~ReaperCompressStore(p)
    BY <2>4
    DEF ReaperStep, ReaperGet, ReaperPass, DeleteGet, DeleteTask, ReaperCompressGet,
        ReaperCompressDelete, storeVars
  <2> QED BY <2>1, <2>2, <2>3, <2>4
<1> QED BY <1>2, <1>3, <1>4 DEF Reported

\* Nor does anybody else but a worker.
LEMMA OtherReported ==
    ASSUME TypeOK, Reported, [Next]_vars, \A w \in Worker : ~WorkerStep(w)
    PROVE  Reported'
<1>1. ASSUME UNCHANGED rp, rec' = rec \/ rec'.status # "aborted"
      PROVE  Reported'
  BY <1>1 DEF Reported
<1>2. ASSUME NEW w \in Worker, TriggerTransition(w)
      PROVE  Reported'
  BY <1>1, <1>2 DEF TriggerTransition, Store, Live
<1>3. ASSUME NEW w \in Worker, KeepAliveStep(w)
      PROVE  Reported'
  BY <1>1, <1>3 DEF KeepAliveStep, KeepAliveGet, KeepAliveTAS, Store, storeVars
<1>4. ASSUME NEW c \in Client, ClientStep(c)
      PROVE  Reported'
  <2>1. UNCHANGED rp
    BY <1>4 DEF ClientStep, AbortGet, AbortTAS
  <2>2. UNCHANGED rec \/ rec' = [rec EXCEPT !.status = "abort-signaled"]
    BY <1>4 DEF ClientStep, AbortGet, AbortTAS, Store, storeVars
  <2>3. rec' = rec \/ rec'.status # "aborted"
    BY <2>2 DEF TypeOK, Record
  <2> QED BY <1>1, <2>1, <2>3
<1>5. ASSUME NEW p \in Pod, Crash(p)
      PROVE  Reported'
  <2>1. UNCHANGED rec /\ rp'[p].pc = "idle" /\ \A q \in Pod : q # p => rp'[q] = rp[q]
    BY <1>5, ReaperIdleInv DEF Crash
  <2> QED BY <2>1 DEF Reported
<1>6. CASE Lapse \/ Expire \/ UNCHANGED vars
  BY <1>1, <1>6 DEF Lapse, Expire, vars, storeVars
<1> QED BY <1>2, <1>3, <1>4, <1>5, <1>6, ReaperReported DEF Next

\* Whoever is not a worker leaves the workers as they are, or starts or kills one.
LEMMA OtherPlaces ==
    ASSUME TypeOK, [Next]_vars, \A w \in Worker : ~WorkerStep(w)
    PROVE  \A v \in Worker : \/ pc'[v] = pc[v] /\ loc'[v] = loc[v]
                             \/ pc'[v] = "start" /\ loc'[v] = loc[v]
                             \/ pc'[v] = "idle" /\ loc'[v] = Fresh
<1> DEFINE Goal == \A v \in Worker : \/ pc'[v] = pc[v] /\ loc'[v] = loc[v]
                                     \/ pc'[v] = "start" /\ loc'[v] = loc[v]
                                     \/ pc'[v] = "idle" /\ loc'[v] = Fresh
<1> SUFFICES Goal
  OBVIOUS
<1>1. ASSUME UNCHANGED <<pc, loc>>
      PROVE  Goal
  BY <1>1
<1>2. ASSUME NEW w \in Worker, Goto(w, "start"), UNCHANGED loc
      PROVE  Goal
  BY <1>2 DEF Goto, TypeOK
<1>3. ASSUME NEW p \in Pod, Crash(p)
      PROVE  Goal
  BY <1>3 DEF Crash
<1> HIDE DEF Goal
<1>4. ASSUME NEW w \in Worker, TriggerTransition(w) \/ KeepAliveStep(w)
      PROVE  Goal
  BY <1>1, <1>2, <1>4 DEF TriggerTransition, KeepAliveStep, KeepAliveGet, KeepAliveTAS
<1>5. ASSUME NEW p \in Pod, ReaperStep(p)
      PROVE  Goal
  <2>1. CASE ReaperLive(p)
    BY <1>1, <1>2, <2>1 DEF ReaperLive, Launch
  <2>2. CASE ~ReaperLive(p)
    BY <1>1, <1>5, <2>2
    DEF ReaperStep, ReaperGet, ReaperPass, DeleteGet, DeleteTask, DeleteRecord,
        ReaperCompressGet, ReaperCompressStore, ReaperCompressDelete
  <2> QED BY <2>1, <2>2
<1>6. ASSUME NEW c \in Client, ClientStep(c)
      PROVE  Goal
  BY <1>1, <1>6 DEF ClientStep, AbortGet, AbortTAS
<1>7. CASE Lapse \/ Expire \/ UNCHANGED vars
  BY <1>1, <1>7 DEF Lapse, Expire, vars
<1> QED BY <1>3, <1>4, <1>5, <1>6, <1>7 DEF Next

\* After that nobody aborts the record again.
LEMMA NextAnswered ==
    ASSUME TypeOK, IInv, Informed, Calls, OneCall, signaled, Answered, ~Error,
           rec.status # "abort-signaled", [Next]_vars
    PROVE  rec'.status # "abort-signaled" /\ Answered'
<1>1. ~expired
  BY DEF IInv, Signaler, OneCall
<1>2. CASE \E w \in Worker : WorkerStep(w)
  <2>1. PICK w \in Worker : WorkerStep(w)
    BY <1>2
  <2>2. /\ \A v \in Worker : v # w => pc'[v] = pc[v] /\ loc'[v] = loc[v]
        /\ UNCHANGED rp
    BY <2>1, OneMoves
  <2>3. Over(pc[w], loc[w]) /\ Reported
    BY DEF Answered
  <2>4. Over(pc'[w], loc'[w])
    BY <2>1, <2>3, WorkerCourse
  <2>5. rec' = rec \/ rec'.status \notin {"abort-signaled", "aborted"}
    <3>1. CASE rec' = Live(StoredStatus(loc[w]))
      BY <2>3, <3>1 DEF Live, StoredStatus, Over
    <3>2. CASE CompressStore(w) /\ rec' = Compressed(loc[w].fin, loc[w].lst)
      BY <2>3, <3>2 DEF Compressed, CompressStore, Over
    <3> QED BY <2>1, <3>1, <3>2, WorkerRecord
  <2>6. \A v \in Worker : Over(pc'[v], loc'[v])
    BY <2>2, <2>4 DEF Answered
  <2>7. Reported'
    BY <2>2, <2>3, <2>5 DEF Reported
  <2> QED BY <2>5, <2>6, <2>7 DEF Answered
<1>3. CASE \A w \in Worker : ~WorkerStep(w)
  <2>1. ~Fresh.abort
    BY DEF Fresh
  <2>2. \A v \in Worker : Over(pc'[v], loc'[v])
    BY <1>3, <2>1, OtherPlaces DEF Answered, Over
  <2>3. Reported'
    BY <1>3, OtherReported DEF Answered
  <2>4. rec'.status # "abort-signaled"
    <3>1. ASSUME NEW w \in Worker, TriggerTransition(w) \/ KeepAliveStep(w)
          PROVE  rec'.status # "abort-signaled"
      <4>1. CASE TriggerTransition(w)
        BY <4>1 DEF TriggerTransition, Store, Live
      <4>2. CASE KeepAliveStep(w)
        BY <4>2 DEF KeepAliveStep, KeepAliveGet, KeepAliveTAS, Store, storeVars
      <4> QED BY <3>1, <4>1, <4>2
    <3>2. ASSUME NEW c \in Client, ClientStep(c)
          PROVE  FALSE
      BY <3>2 DEF Calls, ClientStep, AbortGet, AbortTAS
    <3>3. ASSUME NEW p \in Pod, ReaperStep(p)
          PROVE  rec'.status # "abort-signaled"
      <4>1. CASE ReaperLive(p)
        BY <1>1, <4>1 DEF ReaperLive, Store
      <4>2. CASE DeleteRecord(p)
        BY <4>2 DEF DeleteRecord, Store, NoRec, storeVars
      <4>3. CASE ReaperCompressStore(p)
        <5>1. rp[p].status \in {"completed", "aborted"}
          BY <4>3 DEF ReaperCompressStore, Informed, Terminal
        <5> QED BY <4>3, <5>1 DEF ReaperCompressStore, Store, Compressed, storeVars
      <4>4. CASE ~ReaperLive(p) /\ ~DeleteRecord(p) /\ ~ReaperCompressStore(p)
        BY <3>3, <4>4
        DEF ReaperStep, ReaperGet, ReaperPass, DeleteGet, DeleteTask, ReaperCompressGet,
            ReaperCompressDelete, storeVars
      <4> QED BY <4>1, <4>2, <4>3, <4>4
    <3>4. CASE Lapse \/ Expire \/ UNCHANGED vars \/ \E p \in Pod : Crash(p)
      BY <3>4 DEF Lapse, Expire, vars, Crash, storeVars
    <3> QED BY <1>3, <3>1, <3>2, <3>3, <3>4 DEF Next
  <2> QED BY <2>2, <2>3, <2>4 DEF Answered
<1> QED BY <1>2, <1>3

LEMMA NextAbort ==
    ASSUME TypeOK, IInv, KeptInv, Informed, AbortInv, OneCall, [Next]_vars
    PROVE  AbortInv'
<1>1. (signaled => signaled') /\ (errs' = 0 => errs = 0 /\ ~Error)
  BY Remembered
<1>2. Calls'
  BY NextCalls DEF AbortInv
<1>3. (Old \/ WholeInv)'
  <2>1. CASE Old
    BY <2>1, NextOld DEF AbortInv, WholeInv
  <2>2. CASE WholeInv
    BY <2>2, NextWhole
  <2> QED BY <2>1, <2>2 DEF AbortInv
<1>4. ASSUME signaled', errs' = 0
      PROVE  IF rec'.status = "abort-signaled" THEN Answering' ELSE Answered'
  <2>1. errs = 0 /\ ~Error
    BY <1>1, <1>4
  <2>2. CASE ~signaled
    BY <1>4, <2>1, <2>2, SignalComes
  <2>3. CASE signaled /\ rec.status = "abort-signaled"
    <3>1. Answering /\ Calls
      BY <2>1, <2>3 DEF AbortInv
    <3>2. CASE \E w \in Worker : WorkerStep(w)
      BY <2>1, <2>3, <3>1, <3>2, WorkerAnswers
    <3>3. CASE \A w \in Worker : ~WorkerStep(w)
      BY <2>1, <2>3, <3>1, <3>3, OthersAnswer
    <3> QED BY <3>2, <3>3
  <2>4. CASE signaled /\ rec.status # "abort-signaled"
    <3>1. Answered /\ Calls
      BY <2>1, <2>4 DEF AbortInv
    <3> QED BY <2>1, <2>4, <3>1, NextAnswered
  <2> QED BY <2>2, <2>3, <2>4
<1> QED BY <1>2, <1>3, <1>4 DEF AbortInv

LEMMA InitAbort ==
    ASSUME Init
    PROVE  AbortInv
<1>1. cl = [c \in Client |-> [pc |-> "get", try |-> 0]] /\ ~signaled
  BY DEF Init
<1>2. Calls
  BY <1>1 DEF Calls
<1>3. CASE born
  <2>1. Old
    BY <1>1, <1>3 DEF Init, Old, Live
  <2> QED BY <1>1, <1>2, <2>1 DEF AbortInv
<1>4. CASE ~born
  <2>1. /\ pc = [w \in Worker |-> "idle"] /\ rp = [p \in Pod |-> IdleReaper]
        /\ rec = NoRec /\ tdb = NoTasks
    BY <1>4 DEF Init
  <2>2. \A w \in Worker : Holds(pc[w], loc[w], tdb) /\ pc[w] # "cancel"
    BY <2>1 DEF Holds, AtTasks
  <2>3. OneTask(tdb)
    BY <2>1 DEF OneTask, NoTasks
  <2>4. ~rec.zip /\ rec.status \notin Terminal
    BY <2>1 DEF NoRec, Terminal
  <2>5. WholeInv
    BY <2>1, <2>2, <2>3, <2>4 DEF WholeInv, Sound, IdleReaper
  <2> QED BY <1>1, <1>2, <2>5 DEF AbortInv
<1> QED BY <1>3, <1>4

\* A worker's status for the record is "aborted" only after doAbort.
LEMMA WorkerFin ==
    ASSUME TypeOK, NEW w \in Worker, WorkerStep(w),
           loc[w].fin = "aborted" => loc[w].aborted
    PROVE  loc'[w].fin = "aborted" => loc'[w].aborted
<1> DEFINE Same(l) == l.fin = loc[w].fin /\ (l.aborted <=> loc[w].aborted)
           Goal == loc'[w].fin = "aborted" => loc'[w].aborted
<1>1. loc[w] \in Local
  BY DEF TypeOK
<1>2. Fresh.fin = "completed"
  BY DEF Fresh
<1>3. Same(loc'[w]) \/ loc'[w].fin = "completed" => Goal
  OBVIOUS
<1>4. ASSUME NEW l \in Local, Same(l), \/ Resume(w, l) \/ StoreReturns(w, l)
                                       \/ Complete(w, l) \/ \E x : checkAbort(w, x, l)
      PROVE  Same(loc'[w]) \/ loc'[w].fin = "completed"
  <2>1. Same([l EXCEPT !.try = 0]) /\ Same([l EXCEPT !.site = "end", !.wait = {}])
    BY <1>4 DEF Local
  <2>2. ASSUME NEW m, Same(m), loc' = [loc EXCEPT ![w] = m]
        PROVE  Same(loc'[w])
    BY <2>2 DEF TypeOK
  <2>3. ASSUME NEW m, Same(m), Resume(w, m)
        PROVE  Same(loc'[w]) \/ loc'[w].fin = "completed"
    BY <1>2, <2>3, ResumePlace
  <2>4. CASE StoreReturns(w, l)
    BY <2>1, <2>2, <2>3, <2>4 DEF StoreReturns
  <2>5. CASE Complete(w, l)
    BY <2>5, CompletePlace
  <2>6. CASE \E x : checkAbort(w, x, l)
    BY <1>4, <2>1, <2>2, <2>6 DEF checkAbort
  <2> QED BY <1>4, <2>3, <2>4, <2>5, <2>6
<1> SUFFICES Same(loc'[w]) \/ loc'[w].fin = "completed" \/ loc'[w].aborted
  BY <1>3
<1>5. CASE StartWorker(w) \/ Cancel(w)
  <2>1. CASE Exit(w)
    BY <1>2, <2>1, ExitPlace
  <2>2. CASE UNCHANGED loc
    BY <2>2
  <2> QED BY <1>5, <2>1, <2>2 DEF StartWorker, Cancel
<1>6. CASE LoadTasks(w) \/ CreateTask(w)
  <2>1. ASSUME NEW t, NEW x, loc' = [loc EXCEPT ![w].task = t, ![w].xnames = x]
        PROVE  Same(loc'[w])
    BY <1>1, <2>1 DEF TypeOK, Local
  <2>2. CASE LoadTasks(w)
    BY <2>1, <2>2 DEF LoadTasks
  <2>3. CASE CreateTask(w)
    <3>1. PICK c \in Comp, i \in Tid, st \in {"open", "failed"} :
             LET t == [loc[w].task EXCEPT ![c] = [id |-> i, st |-> st]] IN
             loc' = [loc EXCEPT ![w].task = t,
                                ![w].xnames = IF st = "open" THEN @ \cup {c} ELSE @]
      BY <2>3 DEF CreateTask
    <3>2. loc'[w].fin = loc[w].fin
      BY <3>1 DEF TypeOK, Local
    <3>3. loc'[w].aborted <=> loc[w].aborted
      BY <3>1 DEF TypeOK, Local
    <3> QED BY <3>2, <3>3
  <2> QED BY <1>6, <2>2, <2>3
<1>7. CASE SetupDone(w)
  BY <1>1, <1>4, <1>7 DEF SetupDone
<1>8. CASE StoreGet(w)
  <2>1. CASE loc' = [loc EXCEPT ![w].abort = @ \/ rec.status = "abort-signaled"]
    BY <2>1 DEF TypeOK, Local
  <2> QED BY <1>1, <1>4, <1>8, <2>1 DEF StoreGet
<1>9. CASE StoreTAS(w) \/ StoreBlind(w)
  <2>1. CASE loc' = [loc EXCEPT ![w].try = @ + 1]
    BY <2>1 DEF TypeOK, Local
  <2> QED BY <1>1, <1>4, <1>9, <2>1 DEF StoreTAS, StoreBlind
<1>10. CASE doAbort(w)
  <2>1. ASSUME NEW t, loc' = [loc EXCEPT ![w].task = t]
        PROVE  Same(loc'[w])
    BY <2>1 DEF TypeOK, Local
  <2>2. CASE loc' = [loc EXCEPT ![w].fin = "aborted", ![w].aborted = TRUE, ![w].abort = FALSE]
    BY <2>2 DEF TypeOK, Local
  <2> QED BY <1>10, <2>1, <2>2 DEF doAbort
<1>11. CASE Gather(w)
  <2>1. ASSUME NEW bad, NEW l,
               l = [loc[w] EXCEPT !.task = Set(loc[w].task, bad, "failed")],
               \/ Complete(w, l)
               \/ loc' = [loc EXCEPT ![w] = [l EXCEPT !.site = "gathered"]]
        PROVE  Same(loc'[w]) \/ loc'[w].fin = "completed"
    <3>1. l \in Local /\ Same(l) /\ Same([l EXCEPT !.site = "gathered"])
      BY <1>1, <2>1, SetType DEF Local, TaskStatus
    <3>2. CASE Complete(w, l)
      BY <1>4, <3>1, <3>2
    <3>3. CASE loc' = [loc EXCEPT ![w] = [l EXCEPT !.site = "gathered"]]
      BY <3>1, <3>3 DEF TypeOK
    <3> QED BY <2>1, <3>2, <3>3
  <2> QED BY <1>11, <2>1 DEF Gather
<1>12. CASE Sequence(w)
  <2>1. PICK t, n : loc' = [loc EXCEPT ![w].task = t, ![w].tiers = n]
    BY <1>12 DEF Sequence
  <2> QED BY <1>1, <2>1 DEF TypeOK, Local
<1>13. CASE Send(w) \/ Poll(w) \/ PollDeadline(w)
  <2>1. ASSUME NEW t, NEW x, loc' = [loc EXCEPT ![w].task = t, ![w].wait = x]
        PROVE  Same(loc'[w])
    BY <1>1, <2>1 DEF TypeOK, Local
  <2>2. CASE Send(w)
    BY <2>1, <2>2 DEF Send
  <2>3. ASSUME NEW done, NEW next, NEW bad, PollWith(w, done, next, bad)
        PROVE  Same(loc'[w])
    <3>1. PICK t, x : loc' = [loc EXCEPT ![w].task = t, ![w].wait = x]
      BY <2>3 DEF PollWith
    <3> QED BY <2>1, <3>1
  <2> QED BY <1>13, <2>2, <2>3 DEF Poll, PollDeadline
<1>14. CASE Tier(w) \/ TiersDone(w) \/ Confirm(w)
  <2> DEFINE l == [loc[w] EXCEPT !.tiers = @ - 1]
  <2>1. loc[w].tiers > 0 => l \in Local /\ Same(l)
    BY <1>1, ConstAssumption DEF Local
  <2> HIDE DEF l
  <2>2. CASE loc[w].tiers > 0 /\ \E x : checkAbort(w, x, l)
    BY <1>4, <2>1, <2>2
  <2>3. CASE Complete(w, loc[w]) \/ checkAbort(w, "poll", loc[w])
    BY <1>1, <1>4, <2>3
  <2> QED BY <1>14, <2>2, <2>3 DEF Tier, TiersDone, Confirm, l
<1>15. CASE CompressGet(w) \/ CompressStore(w) \/ CompressDelete(w)
  <2>1. ASSUME NEW t, loc' = [loc EXCEPT ![w].lst = t]
        PROVE  Same(loc'[w])
    BY <2>1 DEF TypeOK, Local
  <2>2. CASE Resume(w, loc[w])
    BY <1>1, <1>4, <2>2
  <2>3. CASE Resume(w, [loc[w] EXCEPT !.lst = NoTasks])
    <3>1. /\ [loc[w] EXCEPT !.lst = NoTasks] \in Local
          /\ Same([loc[w] EXCEPT !.lst = NoTasks])
      BY <1>1, ValueTypes DEF Local
    <3> QED BY <1>4, <2>3, <3>1
  <2> QED BY <1>15, <2>1, <2>2, <2>3 DEF CompressGet, CompressStore, CompressDelete
<1> QED BY <1>5, <1>6, <1>7, <1>8, <1>9, <1>10, <1>11, <1>12, <1>13, <1>14, <1>15 DEF WorkerStep

\* What a worker's step does to its tasks and to the stored ones.
LEMMA WorkerTasks ==
    ASSUME TypeOK, NEW w \in Worker, WorkerStep(w), ~LoadTasks(w)
    PROVE  \/ pc'[w] \in {"idle", "setup", "cancel"} /\ UNCHANGED tdb
           \/ /\ pc[w] \in AtTasks \cup {"blind", "cdel"}
              /\ \/ \E t, S : Rewrites(w, t, S)
                 \/ loc'[w].task = loc[w].task /\ Shrinks
<1> DEFINE Kept == loc'[w].task = loc[w].task \/ pc'[w] = "idle"
<1>1. loc[w] \in Local /\ (UNCHANGED tdb => Shrinks)
  BY DEF TypeOK, Shrinks
<1>2. ASSUME NEW l \in Local, l.task = loc[w].task,
             Resume(w, l) \/ Complete(w, l) \/ \E x : checkAbort(w, x, l)
      PROVE  Kept
  BY <1>2, ResumePlace, CompleteHolds, checkAbortHolds
<1>3. CASE StartWorker(w) \/ Cancel(w)
  <2>1. CASE Exit(w)
    BY <1>3, <2>1, ExitPlace DEF StartWorker, Cancel
  <2>2. CASE Goto(w, "setup")
    BY <1>3, <2>2 DEF StartWorker, Cancel, Goto, TypeOK
  <2> QED BY <1>3, <2>1, <2>2 DEF StartWorker, Cancel
<1>4. CASE CreateTask(w)
  BY <1>4, CreateRewrites DEF CreateTask, AtTasks
<1>5. CASE doAbort(w) \/ Gather(w) \/ Sequence(w) \/ Send(w) \/ Poll(w) \/ PollDeadline(w)
  <2>1. pc[w] \in AtTasks
    BY <1>5 DEF doAbort, Gather, Sequence, Send, Poll, PollDeadline, AtTasks
  <2> QED BY <1>1, <1>5, <2>1, TaskStep
<1>6. ASSUME UNCHANGED tdb, Kept, pc[w] \in AtTasks \cup {"blind", "cdel"}
      PROVE  \/ pc'[w] \in {"idle", "setup", "cancel"} /\ UNCHANGED tdb
             \/ /\ pc[w] \in AtTasks \cup {"blind", "cdel"}
                /\ loc'[w].task = loc[w].task /\ Shrinks
  BY <1>1, <1>6
<1>7. CASE \/ SetupDone(w) \/ StoreGet(w) \/ StoreTAS(w) \/ StoreBlind(w) \/ Tier(w)
           \/ TiersDone(w) \/ Confirm(w) \/ CompressGet(w) \/ CompressStore(w)
  <2>1. pc[w] \in AtTasks \cup {"blind", "cdel"} /\ UNCHANGED tdb
    BY <1>7 DEF SetupDone, StoreGet, StoreTAS, StoreBlind, Tier, TiersDone, Confirm,
       CompressGet, CompressStore, AtTasks
  <2>2. StoreReturns(w, loc[w]) => Kept
    BY StoreReturnsHolds
  <2>3. CASE SetupDone(w)
    BY <1>1, <1>2, <1>6, <2>1, <2>3 DEF SetupDone
  <2>4. CASE StoreGet(w)
    <3>1. CASE loc' = [loc EXCEPT ![w].abort = @ \/ rec.status = "abort-signaled"]
      BY <1>6, <2>1, <3>1 DEF TypeOK, Local
    <3> QED BY <1>6, <2>1, <2>2, <2>4, <3>1 DEF StoreGet
  <2>5. CASE StoreTAS(w) \/ StoreBlind(w)
    <3>1. CASE loc' = [loc EXCEPT ![w].try = @ + 1]
      BY <1>6, <2>1, <3>1 DEF TypeOK, Local
    <3> QED BY <1>6, <2>1, <2>2, <2>5, <3>1 DEF StoreTAS, StoreBlind
  <2>6. CASE Tier(w)
    <3> DEFINE l == [loc[w] EXCEPT !.tiers = @ - 1]
    <3>1. loc[w].tiers > 0 => l \in Local /\ l.task = loc[w].task
      BY <1>1, ConstAssumption DEF Local
    <3> HIDE DEF l
    <3>2. CASE loc[w].tiers > 0 /\ \E x : checkAbort(w, x, l)
      BY <1>2, <1>6, <2>1, <3>1, <3>2
    <3>3. CASE Complete(w, loc[w])
      BY <1>1, <1>2, <1>6, <2>1, <3>3
    <3> QED BY <2>6, <3>2, <3>3 DEF Tier, l
  <2>7. CASE TiersDone(w) \/ Confirm(w)
    BY <1>1, <1>2, <1>6, <2>1, <2>7 DEF TiersDone, Confirm
  <2>8. CASE CompressGet(w)
    <3>1. CASE loc' = [loc EXCEPT ![w].lst = tdb]
      BY <1>6, <2>1, <3>1 DEF TypeOK, Local
    <3> QED BY <1>1, <1>2, <1>6, <2>1, <2>8, <3>1 DEF CompressGet
  <2>9. CASE CompressStore(w)
    <3>1. /\ [loc[w] EXCEPT !.lst = NoTasks] \in Local
          /\ [loc[w] EXCEPT !.lst = NoTasks].task = loc[w].task
      BY <1>1, ValueTypes DEF Local
    <3> QED BY <1>2, <1>6, <2>1, <2>9, <3>1 DEF CompressStore
  <2> QED BY <1>7, <2>3, <2>4, <2>5, <2>6, <2>7, <2>8, <2>9
<1>8. CASE CompressDelete(w)
  <2>1. pc[w] = "cdel"
    BY <1>8 DEF CompressDelete
  <2>2. CASE UNCHANGED tdb /\ Resume(w, loc[w])
    BY <1>1, <1>2, <1>6, <2>1, <2>2
  <2>3. ASSUME NEW c \in Comp, NEW i \in Tid,
               loc' = [loc EXCEPT ![w].lst = Without(@, c, i)],
               tdb' = Without(tdb, c, i) \/ UNCHANGED tdb
        PROVE  loc'[w].task = loc[w].task /\ Shrinks
    <3>1. loc'[w].task = loc[w].task
      BY <2>3 DEF TypeOK, Local
    <3>2. tdb \in TaskDB
      BY DEF TypeOK
    <3> QED BY <1>1, <2>3, <3>1, <3>2, WithoutShrinks DEF Shrinks
  <2> QED BY <1>8, <2>1, <2>2, <2>3 DEF CompressDelete
<1> QED BY <1>3, <1>4, <1>5, <1>7, <1>8 DEF WorkerStep

LEMMA OtherShrinks ==
    ASSUME TypeOK, [Next]_vars, \A w \in Worker : ~WorkerStep(w)
    PROVE  Shrinks
<1>1. UNCHANGED tdb => Shrinks
  BY DEF Shrinks
<1>2. ASSUME NEW c \in Comp, NEW i \in Tid, tdb' = Without(tdb, c, i)
      PROVE  Shrinks
  BY <1>2, WithoutShrinks DEF Shrinks, TypeOK
<1>3. ASSUME NEW p \in Pod, ReaperStep(p)
      PROVE  Shrinks
  <2>1. CASE DeleteTask(p) \/ ReaperCompressDelete(p)
    BY <1>1, <1>2, <2>1 DEF DeleteTask, ReaperCompressDelete
  <2>2. CASE ~DeleteTask(p) /\ ~ReaperCompressDelete(p)
    BY <1>1, <1>3, <2>2
    DEF ReaperStep, ReaperGet, ReaperLive, ReaperPass, DeleteGet, DeleteRecord,
        ReaperCompressGet, ReaperCompressStore
  <2> QED BY <2>1, <2>2
<1>4. ASSUME NEW w \in Worker, TriggerTransition(w) \/ KeepAliveStep(w)
      PROVE  UNCHANGED tdb
  BY <1>4 DEF TriggerTransition, KeepAliveStep, KeepAliveGet, KeepAliveTAS
<1>5. ASSUME NEW c \in Client, ClientStep(c)
      PROVE  UNCHANGED tdb
  BY <1>5 DEF ClientStep, AbortGet, AbortTAS
<1>6. CASE Lapse \/ Expire \/ UNCHANGED vars \/ \E p \in Pod : Crash(p)
  BY <1>1, <1>6 DEF Lapse, Expire, vars, Crash
<1> QED BY <1>1, <1>3, <1>4, <1>5, <1>6 DEF Next

\* Storing a worker's tasks adds none that is not its own.
LEMMA WithinStep ==
    ASSUME TypeOK, ~Error, NEW w \in Worker, NEW t, NEW S, Rewrites(w, t, S),
           Within(tdb, loc[w].task)
    PROVE  Within(tdb', t)
<1>1. tdb' = Stored(tdb, t, S, {})
  BY DEF Rewrites, StoreTasks
<1>2. ASSUME NEW c \in Comp, NEW i \in Tid, tdb'[c][i] # "none"
      PROVE  t[c].id = i /\ t[c].st = tdb'[c][i]
  <2>1. /\ t[c] \in Held /\ tdb[c] \in [Tid -> TaskStatus]
        /\ tdb[c][i] # "none" => loc[w].task[c].id = i /\ loc[w].task[c].st = tdb[c][i]
    BY DEF Rewrites, TypeOK, TaskDB, Within
  <2>2. CASE c \in S
    <3>1. tdb'[c] = [tdb[c] EXCEPT ![t[c].id] = t[c].st]
      BY <1>1, <2>2 DEF Stored
    <3>2. tdb'[c][i] = IF i = t[c].id THEN t[c].st ELSE tdb[c][i]
      BY <2>1, <3>1 DEF Held
    <3> QED BY <1>2, <2>1, <2>2, <3>2 DEF Rewrites
  <2>3. CASE c \notin S
    BY <1>1, <1>2, <2>1, <2>3 DEF Stored, Rewrites
  <2> QED BY <2>2, <2>3
<1> QED BY <1>2 DEF Within

LEMMA WithinOne ==
    ASSUME NEW db, NEW t, Within(db, t)
    PROVE  OneTask(db)
BY DEF Within, OneTask

\* The only worker there is owns what it lists when it completes the record.
LEMMA WorkerSlot ==
    ASSUME TypeOK, CalmInv, OneSlot, OneTask(tdb), Reported, ~Error,
           NEW w \in Worker, Owns(w), WorkerStep(w)
    PROVE  OneTask(tdb') /\ (\A v \in Worker : Owns(v)') /\ Reported'
<1>1. /\ OneTask(tdb')
      /\ pc'[w] \in AtTasks \cup {"blind", "cdel"} => Within(tdb', loc'[w].task)
  <2>1. CASE LoadTasks(w)
    <3>1. pc'[w] = "create" /\ UNCHANGED tdb
      BY <2>1 DEF LoadTasks, Goto, TypeOK
    <3>2. Mirror(tdb', loc'[w].task)
      BY <2>1, <3>1, LoadHolds DEF Holds, AtTasks
    <3> QED BY <3>1, <3>2 DEF Mirror, Within
  <2>2. CASE pc'[w] \in {"idle", "setup", "cancel"} /\ UNCHANGED tdb
    BY <2>2 DEF AtTasks
  <2>3. ASSUME pc[w] \in AtTasks \cup {"blind", "cdel"}, NEW t, NEW S, Rewrites(w, t, S)
        PROVE  OneTask(tdb') /\ Within(tdb', loc'[w].task)
    <3>1. Within(tdb', t) /\ loc'[w].task = t
      BY <2>3, WithinStep DEF Owns, Rewrites
    <3> QED BY <3>1, WithinOne
  <2>4. CASE /\ pc[w] \in AtTasks \cup {"blind", "cdel"}
             /\ loc'[w].task = loc[w].task /\ Shrinks
    <3>1. Within(tdb', loc'[w].task)
      BY <2>4 DEF Owns, Within, Shrinks
    <3> QED BY <3>1, WithinOne
  <2> QED BY <2>1, <2>2, <2>3, <2>4, WorkerTasks
<1>2. loc'[w].fin = "aborted" => loc'[w].aborted
  BY WorkerFin DEF Owns
<1>3. pc'[w] = "cstore" /\ loc'[w].fin = "aborted" => NoneOpen(loc'[w].lst)
  <2>1. SUFFICES ASSUME CompressGet(w), pc'[w] = "cstore", loc'[w].fin = "aborted"
                 PROVE  NoneOpen(loc'[w].lst)
    BY Arrivals
  <2>2. loc'[w].lst = tdb /\ loc'[w].fin = loc[w].fin /\ pc[w] = "cget"
    BY <2>1, ResumePlace DEF CompressGet, TypeOK, Local
  <2>3. Within(tdb, loc[w].task) /\ loc[w].aborted
    BY <2>1, <2>2 DEF Owns, AtTasks
  <2>4. \A c \in Comp : loc[w].task[c].st # "open"
    BY <2>3 DEF CalmInv, Calm
  <2>5. \A c \in Comp, i \in Tid : tdb[c][i] # "open"
    BY <2>3, <2>4 DEF Within
  <2> QED BY <2>2, <2>5 DEF NoneOpen
<1>4. Reported'
  <2>1. UNCHANGED rp
    BY OneMoves
  <2>2. rec' = rec \/ rec'.status # "aborted" \/ (rec'.zip /\ NoneOpen(rec'.report))
    <3>1. CASE rec' = Live(StoredStatus(loc[w]))
      BY <3>1 DEF Live, StoredStatus
    <3>2. CASE CompressStore(w) /\ rec' = Compressed(loc[w].fin, loc[w].lst)
      <4>1. pc[w] = "cstore" /\ rec'.status = loc[w].fin /\ rec'.zip
            /\ rec'.report = loc[w].lst
        BY <3>2 DEF CompressStore, Compressed
      <4> QED BY <4>1 DEF Owns
    <3> QED BY <3>1, <3>2, WorkerRecord
  <2> QED BY <2>1, <2>2 DEF Reported
<1>5. Owns(w)'
  BY <1>1, <1>2, <1>3 DEF Owns
<1>6. \A v \in Worker : v = w
  BY DEF OneSlot
<1> QED BY <1>1, <1>4, <1>5, <1>6

LEMMA NextSlot ==
    ASSUME TypeOK, CalmInv, OneSlot, SlotInv, [Next]_vars
    PROVE  SlotInv'
<1> SUFFICES ASSUME errs' = 0
             PROVE  OneTask(tdb') /\ (\A v \in Worker : Owns(v)') /\ Reported'
  BY DEF SlotInv
<1>1. errs = 0 /\ ~Error
  BY Remembered
<1>2. OneTask(tdb) /\ (\A w \in Worker : Owns(w)) /\ Reported
  BY <1>1 DEF SlotInv
<1>3. CASE \E w \in Worker : WorkerStep(w)
  BY <1>1, <1>2, <1>3, WorkerSlot
<1>4. CASE \A w \in Worker : ~WorkerStep(w)
  <2>1. Shrinks
    BY <1>4, OtherShrinks
  <2>2. Reported'
    BY <1>2, <1>4, OtherReported
  <2>3. OneTask(tdb')
    BY <1>2, <2>1 DEF OneTask, Shrinks
  <2>4. ASSUME NEW v \in Worker
        PROVE  Owns(v)'
    <3>1. Owns(v)
      BY <1>2
    <3>2. CASE pc'[v] = pc[v] /\ loc'[v] = loc[v]
      BY <2>1, <3>1, <3>2 DEF Owns, Within, Shrinks
    <3>3. CASE pc'[v] = "start" /\ loc'[v] = loc[v]
      BY <3>1, <3>3 DEF Owns, AtTasks
    <3>4. CASE pc'[v] = "idle" /\ loc'[v] = Fresh
      BY <3>4 DEF Owns, AtTasks, Fresh
    <3> QED BY <1>4, <3>2, <3>3, <3>4, OtherPlaces
  <2> QED BY <2>2, <2>3, <2>4
<1> QED BY <1>3, <1>4

LEMMA InitSlot ==
    ASSUME Init
    PROVE  CalmInv /\ SlotInv
<1>1. CalmInv
  BY FreshCalm DEF Init, CalmInv
<1>2. OneTask(tdb)
  <2>1. CASE tdb = NoTasks
    BY <2>1 DEF OneTask, NoTasks
  <2>2. ASSUME NEW k, tdb = [c \in Comp |-> [i \in Tid |->
                                  IF i = k THEN "succeeded" ELSE "none"]]
        PROVE  OneTask(tdb)
    BY <2>2 DEF OneTask
  <2> QED BY <2>1, <2>2 DEF Init
<1>3. ASSUME NEW w \in Worker
      PROVE  Owns(w)
  BY DEF Init, Owns, AtTasks, Fresh
<1>4. Reported
  BY DEF Init, Reported, NoRec, Live, IdleReaper
<1> QED BY <1>1, <1>2, <1>3, <1>4 DEF SlotInv

\* An aborted record reports no task as open, unless etcd failed: with any
\* number of workers when an abort is signaled once, with one worker slot
\* however often callers and the reapers signal it.  With two workers and two
\* signals it is false.
THEOREM AbortedIsClosed ==
    ASSUME OneCall \/ OneSlot
    PROVE  Spec => []AbortReport
<1>1. CASE OneCall
  <2>1. Init => AbortInv /\ Informed
    BY InitAbort, InitInformed
  <2>2. TypeOK /\ IInv /\ KeptInv /\ Informed /\ AbortInv /\ [Next]_vars
           => AbortInv' /\ Informed'
    BY <1>1, NextAbort, NextInformed
  <2>3. IInv /\ AbortInv => AbortReport
    <3>1. SUFFICES ASSUME IInv, AbortInv, rec.status = "aborted", errs = 0
                   PROVE  \A c \in Comp, i \in Tid : rec.report[c][i] # "open"
      BY DEF AbortReport
    <3>2. signaled
      BY <3>1 DEF IInv, Quiet, NoAbort
    <3>3. Answered
      BY <3>1, <3>2 DEF AbortInv
    <3> QED BY <3>1, <3>3 DEF Answered, Reported, NoneOpen
  <2> QED BY <2>1, <2>2, <2>3, TypeCorrect, Invariance, KeptInvariance, PTL DEF Spec
<1>2. CASE OneSlot
  <2>1. Init => CalmInv /\ SlotInv
    BY InitSlot
  <2>2. TypeOK /\ IInv /\ CalmInv /\ SlotInv /\ [Next]_vars => CalmInv' /\ SlotInv'
    BY <1>2, NextCalm, NextSlot
  <2>3. SlotInv => AbortReport
    BY DEF SlotInv, Reported, NoneOpen, AbortReport
  <2> QED BY <2>1, <2>2, <2>3, TypeCorrect, Invariance, PTL DEF Spec
<1> QED BY <1>1, <1>2

=============================================================================
