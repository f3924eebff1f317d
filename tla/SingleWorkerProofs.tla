-------------------------- MODULE SingleWorkerProofs --------------------------
(***************************************************************************)
(* As long as no abort has been signaled, at most one doTransition         *)
(* goroutine works on a transition and a finished transition stays         *)
(* finished, for any number of pods, workers, crashes and etcd errors.     *)
(*                                                                         *)
(* The argument.  A worker that has not yet made its last store keeps the  *)
(* record running and, by its keep-alive goroutine, fresh.  A reaper takes *)
(* over only a stale record, and only if its test-and-set succeeds, that   *)
(* is if the record still is what the reaper read; the takeover refreshes  *)
(* it.  So there is no worker when one is launched, and when the last      *)
(* store is made the record was running, so that no reaper was deleting or *)
(* compressing it.                                                         *)
(***************************************************************************)
EXTENDS TransitionLifecycleProofs

-----------------------------------------------------------------------------
(* The inductive invariant *)

\* Before POST /transitions nothing runs.
Unborn ==
    ~born => /\ rec.status = "none"
             /\ \A w \in Worker : pc[w] = "idle" /\ ka[w] = "off"
             /\ \A p \in Pod : rp[p].pc = "idle"
             /\ \A c \in Client : cl[c].pc = "get"

\* A reaper whose snapshot is current knows the status of the record.
Snapshots ==
    \A p \in Pod :
        (p \in cur.r /\ rp[p].pc = "got" /\ rp[p].status \in Running)
            => rec.status = rp[p].status

\* Without an abort signal: nobody is on a path that leads to "aborted".
NoAbort ==
    /\ rec.status \notin {"abort-signaled", "aborted"}
    /\ \A w \in Worker : /\ ~loc[w].abort /\ loc[w].fin = "completed"
                         /\ pc[w] \notin {"abort", "blind"}

\* A worker up to its last store keeps the record running and refreshed; after
\* that store the record is finished.
Attends(w) ==
    /\ pc[w] \notin {"idle", "cdel"}
          => rec.status \in {"new", "in-progress"} /\ ~stale
    /\ pc[w] \notin {"idle", "start", "cdel"} => ka[w] # "off"
    /\ pc[w] = "cdel" => rec.status \in {"completed", "none"}
    /\ pc[w] \in {"cget", "cstore", "cdel"} => loc[w].site = "end"

\* A reaper that has found the record finished finds it so ever after.
Reaping(p) ==
    rp[p].pc # "idle" /\ (rp[p].pc = "got" => rp[p].status \in Terminal)
        => rp[p].status = "completed" /\ rec.status \in {"completed", "none"}

AtMostOne == \A v, w \in Worker : Active(v) /\ Active(w) => v = w

Quiet == /\ NoAbort
         /\ \A w \in Worker : Attends(w)
         /\ \A p \in Pod : Reaping(p)
         /\ AtMostOne

\* Somebody has to be there to signal an abort.
Signaler == /\ signaled => Client # {} \/ CanExpire
            /\ expired => CanExpire

IInv == /\ Unborn
        /\ Snapshots
        /\ ~signaled => Quiet
        /\ Signaler

-----------------------------------------------------------------------------
(* Steps of a worker that leave the record alone *)

\* Only worker w and its keep-alive goroutine move.
Others(w) ==
    \A v \in Worker : v # w => /\ pc'[v] = pc[v]
                               /\ loc'[v] = loc[v]
                               /\ ka'[v] = ka[v]

\* Where worker w may get to without an abort signal, short of "cdel".
Allowed(w) ==
    /\ ~loc'[w].abort /\ loc'[w].fin = "completed"
    /\ pc'[w] \notin {"start", "abort", "blind", "cdel"}
    /\ pc'[w] # "idle" => pc[w] # "cdel" /\ ka'[w] # "off"
    /\ pc'[w] \in {"cget", "cstore"} => loc'[w].site = "end"

LEMMA LocalStep ==
    ASSUME IInv, NEW w \in Worker, pc[w] # "idle", Others(w),
           UNCHANGED <<rec, stale, rp, born, signaled, expired>>,
           cur'.r = cur.r,
           ~signaled => Allowed(w)
    PROVE  IInv'
<1>1. born
  BY DEF IInv, Unborn
<1>2. Unborn' /\ Signaler'
  BY <1>1 DEF IInv, Unborn, Signaler
<1>3. Snapshots'
  BY DEF IInv, Snapshots
<1>4. ASSUME ~signaled
      PROVE  Quiet'
  <2>1. Quiet /\ Allowed(w)
    BY <1>4 DEF IInv
  <2>2. NoAbort'
    BY <2>1 DEF Quiet, NoAbort, Allowed, Others
  <2>3. \A v \in Worker : Attends(v)'
    <3>1. ASSUME NEW v \in Worker, v # w
          PROVE  Attends(v)'
      BY <2>1, <3>1 DEF Quiet, Attends, Others
    <3>2. Attends(w)'
      BY <2>1 DEF Quiet, Attends, Allowed
    <3> QED BY <3>1, <3>2
  <2>4. \A p \in Pod : Reaping(p)'
    BY <2>1 DEF Quiet, Reaping
  <2>5. AtMostOne'
    BY <2>1 DEF Quiet, AtMostOne, Active, Others
  <2> QED BY <2>2, <2>3, <2>4, <2>5 DEF Quiet
<1> QED BY <1>2, <1>3, <1>4 DEF IInv

\* What the invariant says of a worker that is at work.
LEMMA AtWork ==
    ASSUME IInv, ~signaled, NEW w \in Worker, pc[w] \notin {"idle", "cdel"}
    PROVE  /\ rec.status \in {"new", "in-progress"}
           /\ ~loc[w].abort /\ loc[w].fin = "completed"
           /\ pc[w] \notin {"abort", "blind"}
           /\ pc[w] # "start" => ka[w] # "off"
           /\ pc[w] \in {"cget", "cstore"} => loc[w].site = "end"
BY DEF IInv, Quiet, NoAbort, Attends

\* Returning, and going on after a call.
LEMMA ExitAllowed ==
    ASSUME TypeOK, NEW w \in Worker, Exit(w), \A v \in Worker : v # w => ka'[v] = ka[v]
    PROVE  Others(w) /\ Allowed(w)
<1>1. /\ pc'[w] = "idle" /\ loc'[w] = Fresh
      /\ \A v \in Worker : v # w => pc'[v] = pc[v] /\ loc'[v] = loc[v]
  BY DEF TypeOK, Exit, Goto
<1> QED BY <1>1 DEF Others, Allowed, Fresh

LEMMA MoveAllowed ==
    ASSUME TypeOK, NEW w \in Worker, NEW x, NEW l, Goto(w, x),
           loc' = [loc EXCEPT ![w] = l], UNCHANGED ka
    PROVE  Others(w) /\ pc'[w] = x /\ loc'[w] = l
BY DEF TypeOK, Goto, Others

LEMMA ResumeAllowed ==
    ASSUME TypeOK, NEW w \in Worker, NEW l, Resume(w, l), UNCHANGED ka,
           ~signaled => /\ ~l.abort /\ l.fin = "completed"
                        /\ l.site = "end" \/ (pc[w] # "cdel" /\ ka[w] # "off")
    PROVE  Others(w) /\ (~signaled => Allowed(w))
<1>1. CASE l.site = "end" /\ Exit(w)
  BY <1>1, ExitAllowed
<1>2. CASE /\ l.site # "end"
           /\ Goto(w, IF l.site = "setup" THEN "gather" ELSE "seq")
           /\ loc' = [loc EXCEPT ![w] = l]
  <2>1. /\ Others(w) /\ loc'[w] = l
        /\ pc'[w] = IF l.site = "setup" THEN "gather" ELSE "seq"
    BY <1>2, MoveAllowed
  <2> QED BY <1>2, <2>1 DEF Allowed
<1> QED BY <1>1, <1>2 DEF Resume

LEMMA CompleteAllowed ==
    ASSUME TypeOK, NEW w \in Worker, NEW l \in Local, Complete(w, l), UNCHANGED ka,
           ~signaled => ~l.abort /\ pc[w] # "cdel" /\ ka[w] # "off"
    PROVE  Others(w) /\ (~signaled => Allowed(w))
<1> DEFINE m == [l EXCEPT !.site = "end", !.fin = "completed"]
<1>1. Others(w) /\ pc'[w] = "cget" /\ loc'[w] = m
  BY MoveAllowed DEF Complete
<1>2. m.site = "end" /\ m.fin = "completed" /\ m.abort = l.abort
  BY DEF Local
<1> QED BY <1>1, <1>2 DEF Allowed

LEMMA StoreReturnsAllowed ==
    ASSUME TypeOK, NEW w \in Worker, NEW l \in Local, StoreReturns(w, l),
           UNCHANGED ka,
           ~signaled => /\ ~l.abort /\ l.fin = "completed"
                        /\ pc[w] # "cdel" /\ ka[w] # "off"
    PROVE  Others(w) /\ (~signaled => Allowed(w))
<1> DEFINE m == [l EXCEPT !.try = 0]
<1>1. m.site = l.site /\ m.fin = l.fin /\ m.abort = l.abort
  BY DEF Local
<1>2. CASE l.abort
  BY <1>2, MoveAllowed DEF StoreReturns
<1>3. CASE ~l.abort
  BY <1>1, <1>3, ResumeAllowed DEF StoreReturns
<1> QED BY <1>2, <1>3

LEMMA StartWorkerInv ==
    ASSUME TypeOK, IInv, NEW w \in Worker, StartWorker(w)
    PROVE  IInv'
<1>1. pc[w] = "start" /\ UNCHANGED <<rec, stale, cur, rp, born, signaled, expired>>
  BY DEF StartWorker, storeVars, envVars
<1>2. CASE Exit(w) /\ UNCHANGED ka
  BY <1>1, <1>2, ExitAllowed, LocalStep
<1>3. CASE Goto(w, "setup") /\ ka' = [ka EXCEPT ![w] = "on"] /\ UNCHANGED loc
  <2>1. Others(w) /\ pc'[w] = "setup" /\ loc'[w] = loc[w] /\ ka'[w] = "on"
    BY <1>3 DEF TypeOK, Goto, Others
  <2>2. ~signaled => Allowed(w)
    BY <1>1, <2>1, AtWork DEF Allowed
  <2> QED BY <1>1, <2>1, <2>2, LocalStep
<1> QED BY <1>2, <1>3 DEF StartWorker

LEMMA LoadTasksInv ==
    ASSUME TypeOK, IInv, NEW w \in Worker, LoadTasks(w)
    PROVE  IInv'
<1>1. /\ pc[w] = "setup"
      /\ UNCHANGED <<rec, stale, cur, rp, ka, born, signaled, expired>>
  BY DEF LoadTasks, storeVars, envVars
<1>2. Others(w) /\ pc'[w] = "create"
  BY <1>1 DEF TypeOK, LoadTasks, Goto, Others
<1>3. loc'[w].abort = loc[w].abort /\ loc'[w].fin = loc[w].fin
  BY DEF TypeOK, LoadTasks, Local
<1>4. ~signaled => Allowed(w)
  BY <1>1, <1>2, <1>3, AtWork DEF Allowed
<1> QED BY <1>1, <1>2, <1>4, LocalStep

LEMMA CreateTaskInv ==
    ASSUME TypeOK, IInv, NEW w \in Worker, CreateTask(w)
    PROVE  IInv'
<1>1. /\ pc[w] = "create"
      /\ UNCHANGED <<rec, stale, cur, rp, pc, ka, born, signaled, expired>>
  BY DEF CreateTask, storeVars, envVars
<1>2. Others(w) /\ loc'[w].abort = loc[w].abort /\ loc'[w].fin = loc[w].fin
  BY <1>1 DEF TypeOK, CreateTask, Local, Others
<1>3. ~signaled => Allowed(w)
  BY <1>1, <1>2, AtWork DEF Allowed
<1> QED BY <1>1, <1>2, <1>3, LocalStep

LEMMA SetupDoneInv ==
    ASSUME TypeOK, IInv, NEW w \in Worker, SetupDone(w)
    PROVE  IInv'
<1>1. /\ pc[w] = "create"
      /\ UNCHANGED <<rec, stale, cur, rp, ka, born, signaled, expired>>
  BY DEF SetupDone, storeVars, envVars
<1>2. Others(w) /\ (~signaled => Allowed(w))
  <2>1. CASE Complete(w, loc[w])
    <3>1. loc[w] \in Local
      BY DEF TypeOK
    <3> QED BY <1>1, <2>1, <3>1, AtWork, CompleteAllowed
  <2>2. CASE Goto(w, "store") /\ UNCHANGED loc
    <3>1. Others(w) /\ pc'[w] = "store" /\ loc'[w] = loc[w]
      BY <1>1, <2>2 DEF TypeOK, Goto, Others
    <3> QED BY <1>1, <3>1, AtWork DEF Allowed
  <2> QED BY <2>1, <2>2 DEF SetupDone
<1> QED BY <1>1, <1>2, LocalStep

LEMMA StoreGetInv ==
    ASSUME TypeOK, IInv, NEW w \in Worker, StoreGet(w)
    PROVE  IInv'
<1>1. pc[w] = "store" /\ UNCHANGED <<rec, stale, rp, ka, born, signaled, expired>>
  BY DEF StoreGet, envVars
<1>2. cur'.r = cur.r
  BY DEF StoreGet, TypeOK
<1>3. Others(w) /\ (~signaled => Allowed(w))
  <2>1. CASE StoreReturns(w, loc[w])
    <3>1. loc[w] \in Local
      BY DEF TypeOK
    <3> QED BY <1>1, <2>1, <3>1, AtWork, StoreReturnsAllowed
  <2>2. CASE rec.status = "none" /\ Goto(w, "blind") /\ UNCHANGED loc
    <3>1. Others(w)
      BY <1>1, <2>2 DEF TypeOK, Goto, Others
    <3> QED BY <1>1, <2>2, <3>1, AtWork
  <2>3. CASE /\ Goto(w, "tas")
             /\ loc' = [loc EXCEPT
                          ![w].abort = @ \/ rec.status = "abort-signaled"]
    <3>1. /\ Others(w) /\ pc'[w] = "tas" /\ loc'[w].fin = loc[w].fin
          /\ loc'[w].abort = (loc[w].abort \/ rec.status = "abort-signaled")
      BY <1>1, <2>3 DEF TypeOK, Goto, Others, Local
    <3> QED BY <1>1, <3>1, AtWork DEF Allowed
  <2> QED BY <2>1, <2>2, <2>3 DEF StoreGet
<1> QED BY <1>1, <1>2, <1>3, LocalStep

LEMMA doAbortInv ==
    ASSUME TypeOK, IInv, NEW w \in Worker, doAbort(w)
    PROVE  IInv'
<1>1. /\ pc[w] = "abort"
      /\ UNCHANGED <<rec, stale, cur, rp, ka, born, signaled, expired>>
  BY DEF doAbort, storeVars, envVars
<1>2. Others(w)
  <2>1. CASE UNCHANGED pc /\ \E t : loc' = [loc EXCEPT ![w].task = t]
    BY <1>1, <2>1 DEF TypeOK, Others
  <2>2. CASE /\ Goto(w, "cget")
             /\ loc' = [loc EXCEPT ![w].fin = "aborted", ![w].aborted = TRUE,
                                   ![w].abort = FALSE]
    BY <1>1, <2>2 DEF TypeOK, Goto, Others
  <2> QED BY <2>1, <2>2 DEF doAbort
<1>3. signaled
  BY <1>1, AtWork
<1> QED BY <1>1, <1>2, <1>3, LocalStep

LEMMA GatherInv ==
    ASSUME TypeOK, IInv, NEW w \in Worker, Gather(w)
    PROVE  IInv'
<1>1. /\ pc[w] = "gather"
      /\ UNCHANGED <<rec, stale, cur, rp, ka, born, signaled, expired>>
  BY DEF Gather, storeVars, envVars
<1>2. Others(w) /\ (~signaled => Allowed(w))
  <2>1. CASE Goto(w, "cancel") /\ UNCHANGED loc
    <3>1. Others(w) /\ pc'[w] = "cancel" /\ loc'[w] = loc[w]
      BY <1>1, <2>1 DEF TypeOK, Goto, Others
    <3> QED BY <1>1, <3>1, AtWork DEF Allowed
  <2>2. ASSUME NEW bad,
               Complete(w, [loc[w] EXCEPT !.task = Set(loc[w].task, bad, "failed")])
        PROVE  Others(w) /\ (~signaled => Allowed(w))
    <3> DEFINE l == [loc[w] EXCEPT !.task = Set(loc[w].task, bad, "failed")]
    <3>1. loc[w] \in Local
      BY DEF TypeOK
    <3>2. Set(loc[w].task, bad, "failed") \in [Comp -> Held]
      BY <3>1, SetType DEF Local, TaskStatus
    <3>3. l \in Local /\ l.abort = loc[w].abort
      BY <3>1, <3>2 DEF Local
    <3> QED BY <1>1, <2>2, <3>3, AtWork, CompleteAllowed
  <2>3. ASSUME NEW bad, Goto(w, "store"),
               loc' = [loc EXCEPT ![w] =
                         [[loc[w] EXCEPT !.task = Set(loc[w].task, bad, "failed")]
                              EXCEPT !.site = "gathered"]]
        PROVE  Others(w) /\ (~signaled => Allowed(w))
    <3>1. /\ Others(w) /\ pc'[w] = "store"
          /\ loc'[w] = [[loc[w] EXCEPT !.task = Set(loc[w].task, bad, "failed")]
                              EXCEPT !.site = "gathered"]
      BY <1>1, <2>3, MoveAllowed
    <3>2. loc'[w].abort = loc[w].abort /\ loc'[w].fin = loc[w].fin
      BY <3>1 DEF TypeOK, Local
    <3> QED BY <1>1, <3>1, <3>2, AtWork DEF Allowed
  <2> QED BY <2>1, <2>2, <2>3 DEF Gather
<1> QED BY <1>1, <1>2, LocalStep

LEMMA CancelInv ==
    ASSUME TypeOK, IInv, NEW w \in Worker, Cancel(w)
    PROVE  IInv'
<1>1. /\ pc[w] = "cancel"
      /\ UNCHANGED <<rec, stale, cur, rp, born, signaled, expired>>
  BY DEF Cancel, storeVars, envVars
<1>2. Others(w) /\ Allowed(w)
  BY ExitAllowed DEF Cancel, TypeOK
<1> QED BY <1>1, <1>2, LocalStep

\* The steps that only change a worker's tasks and go on.
LEMMA TaskStepInv ==
    ASSUME TypeOK, IInv, NEW w \in Worker, Sequence(w) \/ Send(w) \/ Poll(w) \/ PollDeadline(w)
    PROVE  IInv'
<1>1. /\ pc[w] \in {"seq", "send", "poll"}
      /\ UNCHANGED <<rec, stale, cur, rp, ka, born, signaled, expired>>
  BY DEF Sequence, Send, Poll, PollDeadline, storeVars, envVars
<1>2. /\ Others(w) /\ pc'[w] \in {"tier", "confirm"}
      /\ loc'[w].abort = loc[w].abort /\ loc'[w].fin = loc[w].fin
  <2>1. CASE Sequence(w)
    <3>1. \E t, n : loc' = [loc EXCEPT ![w].task = t, ![w].tiers = n]
      BY <2>1 DEF Sequence
    <3>2. pc' = [pc EXCEPT ![w] = "tier"]
      BY <2>1 DEF Sequence, Goto
    <3> QED BY <1>1, <3>1, <3>2 DEF TypeOK, Others, Local
  <2>2. CASE Send(w)
    <3>1. \E t, s : loc' = [loc EXCEPT ![w].task = t, ![w].wait = s]
      BY <2>2 DEF Send
    <3>2. pc' = [pc EXCEPT ![w] = "confirm"]
      BY <2>2 DEF Send, Goto
    <3> QED BY <1>1, <3>1, <3>2 DEF TypeOK, Others, Local
  <2>3. ASSUME NEW done, NEW next, NEW bad, PollWith(w, done, next, bad)
        PROVE  /\ Others(w) /\ pc'[w] \in {"tier", "confirm"}
               /\ loc'[w].abort = loc[w].abort /\ loc'[w].fin = loc[w].fin
    BY <1>1, <2>3 DEF TypeOK, PollWith, Goto, Others, Local
  <2> QED BY <2>1, <2>2, <2>3 DEF Poll, PollDeadline
<1>3. ~signaled => Allowed(w)
  BY <1>1, <1>2, AtWork DEF Allowed
<1> QED BY <1>1, <1>2, <1>3, LocalStep

\* checkAbort finds no signal.
LEMMA checkAbortAllowed ==
    ASSUME TypeOK, NEW w \in Worker, NEW label \in {"done", "send", "poll"},
           NEW l \in Local, checkAbort(w, label, l), UNCHANGED ka,
           ~signaled => /\ rec.status # "abort-signaled"
                        /\ ~l.abort /\ l.fin = "completed"
                        /\ pc[w] # "cdel" /\ ka[w] # "off"
    PROVE  Others(w) /\ (~signaled => Allowed(w))
<1>1. CASE rec.status = "abort-signaled"
  BY <1>1, MoveAllowed DEF checkAbort
<1>2. CASE Goto(w, label) /\ loc' = [loc EXCEPT ![w] = l]
  <2>1. Others(w) /\ pc'[w] = label /\ loc'[w] = l
    BY <1>2, MoveAllowed
  <2> QED BY <2>1 DEF Allowed
<1> QED BY <1>1, <1>2 DEF checkAbort

LEMMA TierInv ==
    ASSUME TypeOK, IInv, NEW w \in Worker, Tier(w) \/ TiersDone(w) \/ Confirm(w)
    PROVE  IInv'
<1>1. /\ pc[w] \in {"tier", "done", "confirm"}
      /\ UNCHANGED <<rec, stale, cur, rp, ka, born, signaled, expired>>
  BY DEF Tier, TiersDone, Confirm, storeVars, envVars
<1>2. loc[w] \in Local
  BY DEF TypeOK
<1>3. Others(w) /\ (~signaled => Allowed(w))
  <2>1. CASE Complete(w, loc[w])
    BY <1>1, <1>2, <2>1, AtWork, CompleteAllowed
  <2>2. CASE checkAbort(w, "poll", loc[w])
    BY <1>1, <1>2, <2>2, AtWork, checkAbortAllowed
  <2> DEFINE label == IF Open(w) = {} THEN "done" ELSE "send"
             l     == [loc[w] EXCEPT !.tiers = @ - 1]
  <2>3. CASE loc[w].tiers > 0 /\ checkAbort(w, label, l)
    <3>1. l \in Local /\ l.abort = loc[w].abort /\ l.fin = loc[w].fin
      BY <1>2, <2>3, ConstAssumption DEF Local
    <3>2. label \in {"done", "send", "poll"}
      OBVIOUS
    <3> HIDE DEF l, label
    <3> QED BY <1>1, <2>3, <3>1, <3>2, AtWork, checkAbortAllowed
  <2> QED BY <2>1, <2>2, <2>3 DEF Tier, TiersDone, Confirm
<1> QED BY <1>1, <1>3, LocalStep

LEMMA CompressGetInv ==
    ASSUME TypeOK, IInv, NEW w \in Worker, CompressGet(w)
    PROVE  IInv'
<1>1. /\ pc[w] = "cget"
      /\ UNCHANGED <<rec, stale, cur, rp, ka, born, signaled, expired>>
  BY DEF CompressGet, storeVars, envVars
<1>2. Others(w) /\ (~signaled => Allowed(w))
  <2>1. CASE Resume(w, loc[w])
    BY <1>1, <2>1, AtWork, ResumeAllowed
  <2>2. CASE loc' = [loc EXCEPT ![w].lst = tdb] /\ Goto(w, "cstore")
    <3>1. /\ Others(w) /\ pc'[w] = "cstore" /\ loc'[w].site = loc[w].site
          /\ loc'[w].abort = loc[w].abort /\ loc'[w].fin = loc[w].fin
      BY <1>1, <2>2 DEF TypeOK, Goto, Others, Local
    <3> QED BY <1>1, <3>1, AtWork DEF Allowed
  <2> QED BY <2>1, <2>2 DEF CompressGet
<1> QED BY <1>1, <1>2, LocalStep

LEMMA CompressDeleteInv ==
    ASSUME TypeOK, IInv, NEW w \in Worker, CompressDelete(w)
    PROVE  IInv'
<1>1. /\ pc[w] = "cdel"
      /\ UNCHANGED <<rec, stale, cur, rp, ka, born, signaled, expired>>
  BY DEF CompressDelete, storeVars, envVars
<1>2. ~signaled => /\ ~loc[w].abort /\ loc[w].fin = "completed"
                   /\ loc[w].site = "end"
  BY <1>1 DEF IInv, Quiet, NoAbort, Attends
<1>3. CASE Resume(w, loc[w])
  <2>1. Others(w) /\ (~signaled => Allowed(w))
    BY <1>1, <1>2, <1>3, ResumeAllowed
  <2> QED BY <1>1, <2>1, LocalStep
<1>4. CASE UNCHANGED pc /\ \E t : loc' = [loc EXCEPT ![w].lst = t]
  <2>1. \A v \in Worker : /\ loc'[v].site = loc[v].site
                          /\ loc'[v].abort = loc[v].abort
                          /\ loc'[v].fin = loc[v].fin
    BY <1>4 DEF TypeOK, Local
  <2>2. born
    BY <1>1 DEF IInv, Unborn
  <2>3. Unborn' /\ Snapshots' /\ Signaler'
    BY <1>1, <2>2 DEF IInv, Unborn, Snapshots, Signaler
  <2>4. ~signaled => Quiet'
    BY <1>1, <1>4, <2>1
    DEF IInv, Quiet, NoAbort, Attends, Reaping, AtMostOne, Active
  <2> QED BY <1>1, <2>3, <2>4 DEF IInv
<1> QED BY <1>3, <1>4 DEF CompressDelete

-----------------------------------------------------------------------------
(* Steps that store the record *)

\* A store makes the snapshots that would be wrong old.
LEMMA StoreSnapshots ==
    ASSUME Snapshots, NEW r, NEW f, Store(r, f),
           \A p \in Pod : rp'[p] = rp[p] \/ rp'[p].pc # "got"
    PROVE  Snapshots'
BY DEF Snapshots, Store, NoCur

\* With a signal only the parts of the invariant that always hold are left.
LEMMA SignaledStep ==
    ASSUME IInv, born, born', signaled', Snapshots', Signaler'
    PROVE  IInv'
BY DEF IInv, Unborn

\* A worker at work is alone, and no reaper has found the record finished.
LEMMA Alone ==
    ASSUME IInv, ~signaled, NEW w \in Worker, pc[w] \notin {"idle", "cdel"}
    PROVE  /\ \A v \in Worker : v # w => pc[v] = "idle"
           /\ \A p \in Pod : rp[p].pc \in {"idle", "got"}
           /\ \A p \in Pod : rp[p].pc = "got" => rp[p].status \notin Terminal
<1>1. \A v \in Worker : v # w => pc[v] = "idle"
  BY DEF IInv, Quiet, AtMostOne, Active
<1>2. rec.status \in {"new", "in-progress"}
  BY AtWork
<1> QED BY <1>1, <1>2 DEF IInv, Quiet, Reaping

LEMMA StoreTASInv ==
    ASSUME TypeOK, IInv, NEW w \in Worker, StoreTAS(w)
    PROVE  IInv'
<1>1. pc[w] = "tas" /\ UNCHANGED <<rp, ka, born, signaled, expired>> /\ loc[w] \in Local
  BY DEF StoreTAS, envVars, TypeOK
<1>2. born
  BY <1>1 DEF IInv, Unborn
<1>3. CASE Store(Live(StoredStatus(loc[w])), TRUE) /\ StoreReturns(w, loc[w])
  <2>1. Snapshots' /\ Signaler'
    BY <1>1, <1>3, StoreSnapshots DEF IInv, Signaler
  <2>2. Others(w) /\ (~signaled => Allowed(w))
    BY <1>1, <1>3, AtWork, StoreReturnsAllowed
  <2>3. ASSUME ~signaled
        PROVE  Quiet'
    <3>1. /\ \A v \in Worker : v # w => pc[v] = "idle"
          /\ \A p \in Pod : rp[p].pc \in {"idle", "got"}
          /\ \A p \in Pod : rp[p].pc = "got" => rp[p].status \notin Terminal
      BY <1>1, <2>3, Alone
    <3>2. rec'.status = "in-progress" /\ ~stale'
      BY <1>1, <1>3, <2>3, AtWork DEF Store, Live, StoredStatus
    <3>3. Allowed(w) /\ Quiet
      BY <2>2, <2>3 DEF IInv
    <3>4. NoAbort'
      BY <2>2, <3>2, <3>3 DEF Quiet, NoAbort, Allowed, Others
    <3>5. \A v \in Worker : Attends(v)'
      BY <2>2, <3>1, <3>2, <3>3 DEF Attends, Allowed, Others
    <3>6. \A p \in Pod : Reaping(p)'
      BY <1>1, <3>1 DEF Reaping
    <3>7. AtMostOne'
      BY <2>2, <3>1 DEF AtMostOne, Active, Others
    <3> QED BY <3>4, <3>5, <3>6, <3>7 DEF Quiet
  <2> QED BY <1>1, <1>2, <2>1, <2>3 DEF IInv, Unborn
<1>4. CASE UNCHANGED storeVars
  <2>1. Others(w) /\ (~signaled => Allowed(w))
    <3>1. CASE StoreReturns(w, loc[w])
      BY <1>1, <3>1, AtWork, StoreReturnsAllowed
    <3>2. CASE Goto(w, "store") /\ loc' = [loc EXCEPT ![w].try = @ + 1]
      <4>1. /\ Others(w) /\ pc'[w] = "store"
            /\ loc'[w].abort = loc[w].abort /\ loc'[w].fin = loc[w].fin
        BY <1>1, <3>2 DEF TypeOK, Goto, Others, Local
      <4> QED BY <1>1, <4>1, AtWork DEF Allowed
    <3> QED BY <3>1, <3>2 DEF StoreTAS
  <2> QED BY <1>1, <1>4, <2>1, LocalStep DEF storeVars
<1> QED BY <1>3, <1>4 DEF StoreTAS

LEMMA StoreBlindInv ==
    ASSUME TypeOK, IInv, NEW w \in Worker, StoreBlind(w)
    PROVE  IInv'
<1>1. pc[w] = "blind" /\ UNCHANGED <<rp, born, signaled, expired>>
  BY DEF StoreBlind, envVars
<1>2. born /\ signaled
  BY <1>1, AtWork DEF IInv, Unborn
<1>3. Signaler'
  BY <1>1 DEF IInv, Signaler
<1>4. Snapshots'
  <2>1. CASE Store(Live(StoredStatus(loc[w])), TRUE)
    BY <1>1, <2>1, StoreSnapshots DEF IInv
  <2>2. CASE UNCHANGED storeVars
    BY <1>1, <2>2 DEF IInv, Snapshots, storeVars
  <2> QED BY <2>1, <2>2 DEF StoreBlind
<1> QED BY <1>1, <1>2, <1>3, <1>4, SignaledStep

LEMMA CompressStoreInv ==
    ASSUME TypeOK, IInv, NEW w \in Worker, CompressStore(w)
    PROVE  IInv'
<1>1. pc[w] = "cstore" /\ UNCHANGED <<rp, ka, born, signaled, expired>>
  BY DEF CompressStore, envVars
<1>2. born
  BY <1>1 DEF IInv, Unborn
<1>3. CASE /\ Store(Compressed(loc[w].fin, loc[w].lst), FALSE)
           /\ Goto(w, "cdel") /\ UNCHANGED loc
  <2>1. Snapshots' /\ Signaler'
    BY <1>1, <1>3, StoreSnapshots DEF IInv, Signaler
  <2>2. pc'[w] = "cdel" /\ \A v \in Worker : v # w => pc'[v] = pc[v]
    BY <1>3 DEF TypeOK, Goto
  <2>3. ASSUME ~signaled
        PROVE  Quiet'
    <3>1. /\ \A v \in Worker : v # w => pc'[v] = "idle"
          /\ \A p \in Pod : rp[p].pc \in {"idle", "got"}
          /\ \A p \in Pod : rp[p].pc = "got" => rp[p].status \notin Terminal
      BY <1>1, <2>2, <2>3, Alone
    <3>2. rec'.status = "completed" /\ loc[w].site = "end"
      BY <1>1, <1>3, <2>3, AtWork DEF Store, Compressed
    <3>3. Quiet
      BY <2>3 DEF IInv
    <3>4. NoAbort'
      BY <1>3, <2>2, <3>2, <3>3 DEF Quiet, NoAbort
    <3>5. \A v \in Worker : Attends(v)'
      BY <1>3, <2>2, <3>1, <3>2 DEF Attends
    <3>6. \A p \in Pod : Reaping(p)'
      BY <1>1, <3>1 DEF Reaping
    <3>7. AtMostOne'
      BY <3>1 DEF AtMostOne, Active
    <3> QED BY <3>4, <3>5, <3>6, <3>7 DEF Quiet
  <2> QED BY <1>1, <1>2, <2>1, <2>3 DEF IInv, Unborn
<1>4. CASE Resume(w, [loc[w] EXCEPT !.lst = NoTasks]) /\ UNCHANGED storeVars
  <2> DEFINE l == [loc[w] EXCEPT !.lst = NoTasks]
  <2>1. l.site = loc[w].site /\ l.abort = loc[w].abort /\ l.fin = loc[w].fin
    BY DEF TypeOK, Local
  <2>2. Others(w) /\ (~signaled => Allowed(w))
    <3>1. Resume(w, l)
      BY <1>4
    <3> HIDE DEF l
    <3> QED BY <1>1, <2>1, <3>1, AtWork, ResumeAllowed
  <2> QED BY <1>1, <1>4, <2>2, LocalStep DEF storeVars
<1> QED BY <1>3, <1>4 DEF CompressStore

\* The keep-alive goroutine stops only when the record is finished, and
\* stores nothing but a refreshed copy of what is stored.
LEMMA KeepAliveInv ==
    ASSUME TypeOK, IInv, NEW w \in Worker, KeepAliveStep(w)
    PROVE  IInv'
<1>1. UNCHANGED <<pc, loc, rp, born, signaled, expired>> /\ ka[w] # "off" /\ rec' = rec
  BY DEF KeepAliveStep, KeepAliveGet, KeepAliveTAS, Store, storeVars, envVars
<1>2. born
  BY <1>1 DEF IInv, Unborn
<1>3. (stale' => stale) /\ cur'.r \subseteq cur.r
  BY DEF TypeOK, KeepAliveStep, KeepAliveGet, KeepAliveTAS, Store, NoCur, storeVars
<1>4. Snapshots' /\ Signaler'
  BY <1>1, <1>3 DEF IInv, Snapshots, Signaler
<1>5. /\ \A v \in Worker : v # w => ka'[v] = ka[v]
      /\ ka'[w] = "off" => rec.status \notin Running
  BY DEF TypeOK, KeepAliveStep, KeepAliveGet, KeepAliveTAS
<1>6. ASSUME ~signaled
      PROVE  Quiet'
  <2>1. Quiet
    BY <1>6 DEF IInv
  <2>2. \A v \in Worker : Attends(v)'
    BY <1>1, <1>3, <1>5, <2>1 DEF Quiet, Attends, Running
  <2>3. NoAbort' /\ AtMostOne' /\ \A p \in Pod : Reaping(p)'
    BY <1>1, <2>1 DEF Quiet, NoAbort, AtMostOne, Active, Reaping
  <2> QED BY <2>2, <2>3 DEF Quiet
<1> QED BY <1>1, <1>2, <1>4, <1>6 DEF IInv, Unborn

LEMMA TriggerInv ==
    ASSUME TypeOK, IInv, NEW w \in Worker, TriggerTransition(w)
    PROVE  IInv'
<1>1. ~born /\ born' /\ UNCHANGED <<loc, ka, rp, signaled, expired>>
  BY DEF TriggerTransition
<1>2. /\ \A v \in Worker : pc[v] = "idle"
      /\ \A p \in Pod : rp[p].pc = "idle"
  BY <1>1 DEF IInv, Unborn
<1>3. Store(Live("new"), TRUE) /\ pc' = [pc EXCEPT ![w] = "start"]
  BY DEF TriggerTransition, Goto
<1>4. Snapshots' /\ Signaler'
  BY <1>1, <1>3, StoreSnapshots DEF IInv, Signaler
<1>5. rec'.status = "new" /\ ~stale'
  BY <1>3 DEF Store, Live
<1>6. pc'[w] = "start" /\ \A v \in Worker : v # w => pc'[v] = "idle"
  BY <1>2, <1>3 DEF TypeOK
<1>7. ASSUME ~signaled
      PROVE  Quiet'
  <2>1. NoAbort'
    BY <1>1, <1>5, <1>6, <1>7 DEF IInv, Quiet, NoAbort
  <2>2. \A v \in Worker : Attends(v)'
    BY <1>5, <1>6 DEF Attends
  <2>3. \A p \in Pod : Reaping(p)'
    BY <1>1, <1>2 DEF Reaping
  <2>4. AtMostOne'
    BY <1>6 DEF AtMostOne, Active
  <2> QED BY <2>1, <2>2, <2>3, <2>4 DEF Quiet
<1> QED BY <1>1, <1>4, <1>7 DEF IInv, Unborn

-----------------------------------------------------------------------------
(* Steps of a reaper *)

\* A step of reaper p that leaves the record and the workers alone.
LEMMA ReaperStepInv ==
    ASSUME TypeOK, IInv, NEW p \in Pod, born,
           UNCHANGED <<rec, stale, pc, loc, ka, born, signaled, expired>>,
           \A q \in Pod : q # p => rp'[q] = rp[q],
           \A q \in Pod : q # p => (q \in cur'.r => q \in cur.r),
           p \in cur'.r /\ rp'[p].pc = "got" /\ rp'[p].status \in Running
               => rec.status = rp'[p].status,
           ~signaled => Reaping(p)'
    PROVE  IInv'
<1>1. Unborn' /\ Signaler'
  BY DEF IInv, Unborn, Signaler
<1>2. Snapshots'
  BY DEF IInv, Snapshots
<1>3. ASSUME ~signaled
      PROVE  Quiet'
  <2>1. Quiet
    BY <1>3 DEF IInv
  <2>2. NoAbort' /\ AtMostOne' /\ \A v \in Worker : Attends(v)'
    BY <2>1 DEF Quiet, NoAbort, AtMostOne, Active, Attends
  <2>3. \A q \in Pod : Reaping(q)'
    BY <1>3, <2>1 DEF Quiet, Reaping
  <2> QED BY <2>2, <2>3 DEF Quiet
<1> QED BY <1>1, <1>2, <1>3 DEF IInv

LEMMA ReaperGetInv ==
    ASSUME TypeOK, IInv, NEW p \in Pod, ReaperGet(p)
    PROVE  IInv'
<1>1. UNCHANGED <<rec, stale, pc, loc, ka, born, signaled, expired>>
  BY DEF ReaperGet, envVars
<1>2. born
  BY DEF IInv, Unborn, ReaperGet
<1>3. /\ rp'[p].pc = "got" /\ rp'[p].status = rec.status
      /\ \A q \in Pod : q # p => rp'[q] = rp[q]
  BY DEF TypeOK, ReaperGet
<1>4. \A q \in Pod : q # p => (q \in cur'.r => q \in cur.r)
  BY DEF TypeOK, ReaperGet
<1>5. ~signaled => Reaping(p)'
  BY <1>1, <1>3 DEF IInv, Quiet, NoAbort, Reaping, Terminal
<1> QED BY <1>1, <1>2, <1>3, <1>4, <1>5, ReaperStepInv

LEMMA ReaperIdleInv ==
    ASSUME TypeOK, NEW p \in Pod, ReaperIdle(p)
    PROVE  /\ rp'[p].pc = "idle"
           /\ \A q \in Pod : q # p => rp'[q] = rp[q]
BY DEF TypeOK, ReaperIdle, IdleReaper

\* A live record is taken over only when nobody works on it.
LEMMA ReaperLiveInv ==
    ASSUME TypeOK, IInv, NEW p \in Pod, ReaperLive(p)
    PROVE  IInv'
<1>1. /\ rp[p].pc = "got" /\ rp[p].status \in Running /\ p \in cur.r
      /\ UNCHANGED <<loc, ka, born, expired>>
      /\ signaled' = (signaled \/ expired)
  BY DEF ReaperLive
<1>2. born /\ rec.status = rp[p].status
  BY <1>1 DEF IInv, Unborn, Snapshots
<1>3. rp'[p].pc = "idle" /\ \A q \in Pod : q # p => rp'[q] = rp[q]
  BY ReaperIdleInv DEF ReaperLive
<1>4. Snapshots'
  BY <1>3, StoreSnapshots DEF ReaperLive, IInv
<1>5. Signaler'
  BY <1>1 DEF IInv, Signaler
<1>6. ASSUME ~signaled'
      PROVE  Quiet'
  <2>1. ~signaled /\ ~expired /\ stale /\ Quiet
    BY <1>1, <1>6 DEF IInv, ReaperLive
  <2>2. rec' = rec /\ ~stale'
    BY <2>1 DEF ReaperLive, Store
  <2>3. \A v \in Worker : pc[v] = "idle"
    BY <1>1, <1>2, <2>1 DEF Quiet, Attends, Running
  <2>4. PICK w \in Worker : pc' = [pc EXCEPT ![w] = "start"]
    BY <2>1 DEF ReaperLive, Launch, Goto
  <2>5. pc'[w] = "start" /\ \A v \in Worker : v # w => pc'[v] = "idle"
    BY <2>3, <2>4 DEF TypeOK
  <2>6. rec.status \in {"new", "in-progress"}
    BY <1>1, <1>2, <2>1 DEF Quiet, NoAbort, Running
  <2>7. NoAbort'
    BY <1>1, <2>1, <2>2, <2>5 DEF Quiet, NoAbort
  <2>8. \A v \in Worker : Attends(v)'
    BY <2>2, <2>5, <2>6 DEF Attends
  <2>9. \A q \in Pod : Reaping(q)'
    BY <1>3, <2>1, <2>2 DEF Quiet, Reaping
  <2>10. AtMostOne'
    BY <2>5 DEF AtMostOne, Active
  <2> QED BY <2>7, <2>8, <2>9, <2>10 DEF Quiet
<1> QED BY <1>1, <1>2, <1>4, <1>5, <1>6 DEF IInv, Unborn

\* The steps with which a reaper gives up, lists tasks or deletes them.
LEMMA ReaperTaskInv ==
    ASSUME TypeOK, IInv, NEW p \in Pod,
           \/ ReaperPass(p) \/ DeleteGet(p) \/ DeleteTask(p)
           \/ ReaperCompressGet(p) \/ ReaperCompressDelete(p)
    PROVE  IInv'
<1>1. /\ UNCHANGED <<rec, stale, pc, loc, ka, born, signaled, expired>>
      /\ rp[p].pc # "idle"
  BY DEF ReaperPass, DeleteGet, DeleteTask, ReaperCompressGet,
         ReaperCompressDelete, storeVars, envVars
<1>2. born
  BY <1>1 DEF IInv, Unborn
<1>3. \A q \in Pod : q \in cur'.r => q \in cur.r
  BY DEF TypeOK, ReaperPass, DeleteGet, DeleteTask, ReaperCompressGet,
         ReaperCompressDelete, storeVars
<1>4. /\ \A q \in Pod : q # p => rp'[q] = rp[q]
      /\ rp'[p].pc \in {"idle", "dtasks", "cstore", "cdel"}
      /\ rp'[p].pc # "idle" => rp'[p].status = rp[p].status
  <2>1. CASE ReaperIdle(p)
    BY <2>1, ReaperIdleInv
  <2>2. ASSUME NEW x \in {"dtasks", "cstore"},
               rp' = [rp EXCEPT ![p].pc = x, ![p].lst = tdb]
        PROVE  /\ \A q \in Pod : q # p => rp'[q] = rp[q]
               /\ rp'[p].pc = x /\ rp'[p].status = rp[p].status
    BY <2>2 DEF TypeOK, Reaper
  <2>3. ASSUME NEW t, rp' = [rp EXCEPT ![p].lst = t],
               rp[p].pc \in {"dtasks", "cdel"}
        PROVE  /\ \A q \in Pod : q # p => rp'[q] = rp[q]
               /\ rp'[p].pc = rp[p].pc /\ rp'[p].status = rp[p].status
    BY <2>3 DEF TypeOK, Reaper
  <2> QED BY <2>1, <2>2, <2>3 DEF ReaperPass, DeleteGet, DeleteTask,
             ReaperCompressGet, ReaperCompressDelete
<1>5. rp'[p].pc # "idle" /\ rp[p].pc = "got" => rp[p].status \in Terminal
  BY <1>4, ReaperIdleInv DEF ReaperPass, DeleteGet, DeleteTask,
             ReaperCompressGet, ReaperCompressDelete
<1>6. ~signaled => Reaping(p)'
  BY <1>1, <1>4, <1>5 DEF IInv, Quiet, Reaping
<1> QED BY <1>1, <1>2, <1>3, <1>4, <1>6, ReaperStepInv

\* A reaper that has found the record finished deletes it or stores it again
\* as finished; nobody works on it then.
LEMMA ReaperStoreInv ==
    ASSUME TypeOK, IInv, NEW p \in Pod,
           DeleteRecord(p) \/ ReaperCompressStore(p)
    PROVE  IInv'
<1>1. /\ UNCHANGED <<pc, loc, ka, born, signaled, expired>>
      /\ rp[p].pc \in {"dtasks", "cstore"}
  BY DEF DeleteRecord, ReaperCompressStore, envVars
<1>2. born
  BY <1>1 DEF IInv, Unborn
<1>3. /\ \A q \in Pod : q # p => rp'[q] = rp[q]
      /\ rp'[p].pc \in {"idle", "cdel"}
      /\ rp'[p].pc # "idle" => rp'[p].status = rp[p].status
  <2>1. CASE ReaperIdle(p)
    BY <2>1, ReaperIdleInv
  <2>2. CASE rp' = [rp EXCEPT ![p].pc = "cdel"]
    BY <2>2 DEF TypeOK, Reaper
  <2> QED BY <2>1, <2>2 DEF DeleteRecord, ReaperCompressStore
<1>4. Snapshots' /\ Signaler'
  <2>1. \A q \in Pod : rp'[q] = rp[q] \/ rp'[q].pc # "got"
    BY <1>3
  <2>2. CASE \E r : Store(r, FALSE)
    BY <1>1, <2>1, <2>2, StoreSnapshots DEF IInv, Signaler
  <2>3. CASE UNCHANGED storeVars
    BY <1>1, <2>1, <2>3 DEF IInv, Snapshots, Signaler, storeVars
  <2> QED BY <2>2, <2>3 DEF DeleteRecord, ReaperCompressStore
<1>5. ASSUME ~signaled
      PROVE  Quiet'
  <2>1. Quiet
    BY <1>5 DEF IInv
  <2>2. rp[p].status = "completed" /\ rec.status \in {"completed", "none"}
    BY <1>1, <2>1 DEF Quiet, Reaping
  <2>3. rec'.status \in {"completed", "none"}
    BY <2>2 DEF DeleteRecord, ReaperCompressStore, Store, NoRec, Compressed, storeVars
  <2>4. NoAbort'
    BY <1>1, <2>1, <2>3 DEF Quiet, NoAbort
  <2>5. \A v \in Worker : Attends(v)'
    BY <1>1, <2>1, <2>2, <2>3 DEF Quiet, Attends
  <2>6. \A q \in Pod : Reaping(q)'
    BY <1>1, <1>3, <2>1, <2>2, <2>3 DEF Quiet, Reaping
  <2>7. AtMostOne'
    BY <1>1, <2>1 DEF Quiet, AtMostOne, Active
  <2> QED BY <2>4, <2>5, <2>6, <2>7 DEF Quiet
<1> QED BY <1>1, <1>2, <1>4, <1>5 DEF IInv, Unborn

-----------------------------------------------------------------------------
(* Clients and the environment *)

LEMMA ClientInv ==
    ASSUME TypeOK, IInv, NEW c \in Client, ClientStep(c)
    PROVE  IInv'
<1>1. UNCHANGED <<pc, loc, ka, rp, born, expired>>
  BY DEF ClientStep, AbortGet, AbortTAS, envVars
<1>2. CASE signaled' = TRUE /\ Store([rec EXCEPT !.status = "abort-signaled"], FALSE)
           /\ c \in cur.c /\ cl[c].pc = "tas"
  <2>1. Snapshots'
    BY <1>1, <1>2, StoreSnapshots DEF IInv
  <2>2. Signaler'
    BY <1>1 DEF IInv, Signaler
  <2>3. born
    BY <1>2 DEF IInv, Unborn
  <2> QED BY <1>1, <1>2, <2>1, <2>2, <2>3, SignaledStep
<1>3. CASE UNCHANGED <<rec, stale, signaled>> /\ cur'.r = cur.r
  <2>1. born
    BY DEF IInv, Unborn, ClientStep, AbortGet, AbortTAS
  <2>2. Unborn' /\ Snapshots' /\ Signaler'
    BY <1>1, <1>3, <2>1 DEF IInv, Unborn, Snapshots, Signaler
  <2>3. ASSUME ~signaled
        PROVE  Quiet'
    BY <1>1, <1>3, <2>3
    DEF IInv, Quiet, NoAbort, Attends, Reaping, AtMostOne, Active
  <2> QED BY <1>3, <2>2, <2>3 DEF IInv
<1> QED BY <1>2, <1>3 DEF ClientStep, AbortGet, AbortTAS, storeVars, envVars, TypeOK

LEMMA CrashInv ==
    ASSUME TypeOK, IInv, NEW p \in Pod, Crash(p)
    PROVE  IInv'
<1>1. UNCHANGED <<rec, stale, cl, born, signaled, expired>>
  BY DEF Crash
<1>2. \A v \in Worker :
         \/ pc'[v] = pc[v] /\ loc'[v] = loc[v] /\ ka'[v] = ka[v]
         \/ pc'[v] = "idle" /\ loc'[v] = Fresh /\ ka'[v] = "off"
  BY DEF Crash
<1>3. rp'[p].pc = "idle" /\ \A q \in Pod : q # p => rp'[q] = rp[q]
  BY ReaperIdleInv DEF Crash
<1>4. cur'.r \subseteq cur.r
  BY DEF Crash, TypeOK
<1>5. Unborn' /\ Signaler'
  BY <1>1, <1>2, <1>3 DEF IInv, Unborn, Signaler
<1>6. Snapshots'
  BY <1>1, <1>3, <1>4 DEF IInv, Snapshots
<1>7. ASSUME ~signaled
      PROVE  Quiet'
  <2>1. Quiet
    BY <1>7 DEF IInv
  <2>2. NoAbort'
    BY <1>1, <1>2, <2>1 DEF Quiet, NoAbort, Fresh
  <2>3. \A v \in Worker : Attends(v)'
    BY <1>1, <1>2, <2>1 DEF Quiet, Attends
  <2>4. \A q \in Pod : Reaping(q)'
    BY <1>1, <1>3, <2>1 DEF Quiet, Reaping
  <2>5. AtMostOne'
    BY <1>2, <2>1 DEF Quiet, AtMostOne, Active
  <2> QED BY <2>2, <2>3, <2>4, <2>5 DEF Quiet
<1> QED BY <1>1, <1>5, <1>6, <1>7 DEF IInv

\* The record becomes stale only when no worker is at work.
LEMMA LapseInv ==
    ASSUME TypeOK, IInv, Lapse
    PROVE  IInv'
<1>1. UNCHANGED <<rec, cur, pc, loc, ka, rp, cl, born, signaled, expired>>
  BY DEF Lapse, envVars
<1>2. Unborn' /\ Snapshots' /\ Signaler'
  BY <1>1 DEF IInv, Unborn, Snapshots, Signaler
<1>3. ASSUME ~signaled
      PROVE  Quiet'
  <2>1. Quiet
    BY <1>3 DEF IInv
  <2>2. \A v \in Worker : ka[v] = "off" /\ pc[v] # "start"
    BY DEF Lapse, Attended
  <2>3. \A v \in Worker : pc[v] \in {"idle", "cdel"}
    BY <2>1, <2>2 DEF Quiet, Attends
  <2>4. \A v \in Worker : Attends(v)'
    BY <1>1, <2>1, <2>3 DEF Quiet, Attends
  <2>5. NoAbort' /\ AtMostOne' /\ \A p \in Pod : Reaping(p)'
    BY <1>1, <2>1 DEF Quiet, NoAbort, AtMostOne, Active, Reaping
  <2> QED BY <2>4, <2>5 DEF Quiet
<1> QED BY <1>1, <1>2, <1>3 DEF IInv

LEMMA ExpireInv ==
    ASSUME TypeOK, IInv, Expire
    PROVE  IInv'
<1>1. UNCHANGED <<rec, stale, cur, pc, loc, ka, rp, cl, born, signaled>> /\ CanExpire
  BY DEF Expire, storeVars
<1>2. Unborn' /\ Snapshots' /\ Signaler'
  BY <1>1 DEF IInv, Unborn, Snapshots, Signaler
<1>3. ~signaled => Quiet'
  BY <1>1 DEF IInv, Quiet, NoAbort, Attends, Reaping, AtMostOne, Active
<1> QED BY <1>1, <1>2, <1>3 DEF IInv

LEMMA NextInv ==
    ASSUME TypeOK, IInv, [Next]_vars
    PROVE  IInv'
<1>1. ASSUME NEW w \in Worker, WorkerStep(w)
      PROVE  IInv'
  BY <1>1, StartWorkerInv, LoadTasksInv, CreateTaskInv, SetupDoneInv,
     StoreGetInv, StoreTASInv, StoreBlindInv, doAbortInv, GatherInv, CancelInv,
     TaskStepInv, TierInv, CompressGetInv, CompressStoreInv, CompressDeleteInv
  DEF WorkerStep
<1>2. ASSUME NEW p \in Pod, ReaperStep(p)
      PROVE  IInv'
  BY <1>2, ReaperGetInv, ReaperLiveInv, ReaperTaskInv, ReaperStoreInv
  DEF ReaperStep
<1>3. CASE UNCHANGED vars
  BY <1>3 DEF vars, IInv, Unborn, Snapshots, Signaler, Quiet, NoAbort, Attends,
              Reaping, AtMostOne, Active
<1>4. ASSUME NEW w \in Worker, TriggerTransition(w) \/ KeepAliveStep(w)
      PROVE  IInv'
  BY <1>4, TriggerInv, KeepAliveInv
<1>5. ASSUME NEW p \in Pod, Crash(p)
      PROVE  IInv'
  BY <1>5, CrashInv
<1>6. ASSUME NEW c \in Client, ClientStep(c)
      PROVE  IInv'
  BY <1>6, ClientInv
<1>7. CASE Lapse \/ Expire
  BY <1>7, LapseInv, ExpireInv
<1> QED BY <1>1, <1>2, <1>3, <1>4, <1>5, <1>6, <1>7 DEF Next

LEMMA InitInv ==
    ASSUME Init
    PROVE  IInv
<1>1. /\ pc = [w \in Worker |-> "idle"] /\ ka = [w \in Worker |-> "off"]
      /\ loc = [w \in Worker |-> Fresh] /\ rp = [p \in Pod |-> IdleReaper]
      /\ cl = [c \in Client |-> [pc |-> "get", try |-> 0]]
      /\ ~signaled /\ ~expired
  BY DEF Init
<1>2. Unborn
  BY <1>1 DEF Init, Unborn, NoRec, IdleReaper
<1>3. Snapshots
  BY <1>1 DEF Snapshots, IdleReaper
<1>4. rec.status \in {"completed", "none"}
  BY DEF Init, NoRec, Live
<1>5. Quiet
  BY <1>1, <1>4 DEF Quiet, NoAbort, Attends, Reaping, AtMostOne, Active, Fresh, IdleReaper
<1> QED BY <1>1, <1>2, <1>3, <1>5 DEF IInv, Signaler

-----------------------------------------------------------------------------
(* Theorems *)

\* The invariant holds in every reachable state.
THEOREM Invariance == Spec => []IInv
<1>1. Init => IInv
  BY InitInv
<1>2. TypeOK /\ IInv /\ [Next]_vars => IInv'
  BY NextInv
<1> QED BY <1>1, <1>2, TypeCorrect, PTL DEF Spec

\* Without an abort signal at most one doTransition goroutine works on the
\* transition, whatever crashes, takeovers and concurrent reapers there are.
THEOREM NoTwoWorkers == Spec => []SingleWorker
<1>1. IInv => SingleWorker
  BY DEF IInv, Quiet, AtMostOne, SingleWorker
<1> QED BY <1>1, Invariance, PTL

\* Where no abort can be signaled, a step leaves a finished record as it is or
\* deletes it.
LEMMA FinalStep ==
    ASSUME TypeOK, IInv, ~signaled, ~signaled', [Next]_vars,
           rec.status \in Terminal
    PROVE  rec'.status \in {rec.status, "none"}
<1>1. rec.status = "completed"
  BY DEF IInv, Quiet, NoAbort, Terminal
<1>2. \A w \in Worker : pc[w] \in {"idle", "cdel"}
  BY <1>1, AtWork
<1>3. ASSUME NEW w \in Worker, WorkerStep(w) \/ KeepAliveStep(w)
      PROVE  rec'.status = rec.status
  <2>1. rec' = rec
    BY <1>2, <1>3
    DEF WorkerStep, StartWorker, LoadTasks, CreateTask, SetupDone, StoreGet,
        StoreTAS, StoreBlind, doAbort, Gather, Cancel, Sequence, Tier, TiersDone,
        Send, Confirm, Poll, PollDeadline, CompressGet, CompressStore,
        CompressDelete, KeepAliveStep, KeepAliveGet, KeepAliveTAS, Store, storeVars
  <2> QED BY <2>1
<1>4. ASSUME NEW w \in Worker, TriggerTransition(w)
      PROVE  FALSE
  BY <1>1, <1>4 DEF TriggerTransition, IInv, Unborn
<1>5. ASSUME NEW p \in Pod, ReaperStep(p)
      PROVE  rec'.status \in {rec.status, "none"}
  <2>1. CASE ReaperLive(p)
    BY <1>1, <2>1 DEF ReaperLive, IInv, Snapshots, Running
  <2>2. CASE DeleteRecord(p)
    BY <2>2 DEF DeleteRecord, Store, NoRec, storeVars
  <2>3. CASE ReaperCompressStore(p)
    <3>1. rp[p].status = "completed"
      BY <2>3 DEF ReaperCompressStore, IInv, Quiet, Reaping
    <3> QED BY <1>1, <2>3, <3>1 DEF ReaperCompressStore, Store, Compressed, storeVars
  <2>4. CASE UNCHANGED rec
    BY <2>4
  <2> QED BY <1>5, <2>1, <2>2, <2>3, <2>4
       DEF ReaperStep, ReaperGet, ReaperPass, DeleteGet, DeleteTask,
           ReaperCompressGet, ReaperCompressDelete, storeVars
<1>6. ASSUME NEW c \in Client, ClientStep(c)
      PROVE  rec'.status = rec.status
  BY <1>6 DEF ClientStep, AbortGet, AbortTAS, storeVars
<1>7. CASE UNCHANGED vars \/ Lapse \/ Expire \/ \E p \in Pod : Crash(p)
  BY <1>7 DEF vars, Lapse, Expire, Crash, storeVars
<1> QED BY <1>3, <1>4, <1>5, <1>6, <1>7 DEF Next

\* Where no abort can be signaled (nobody calls AbortTransitionID and nothing
\* expires) a finished transition never changes its status again: neither a
\* worker's late store nor a reaper brings it back to life.
THEOREM FinalWithoutAbort ==
    ASSUME Client = {}, CanExpire = FALSE
    PROVE  Spec => TerminalIsFinal
<1>1. IInv => ~signaled
  BY DEF IInv, Signaler
<1>2. TypeOK /\ IInv /\ IInv' /\ [Next]_vars
         => [rec.status \in Terminal => rec'.status \in {rec.status, "none"}]_rec
  <2>1. IInv' => ~signaled'
    BY DEF IInv, Signaler
  <2> QED BY <1>1, <2>1, FinalStep
<1> QED BY <1>2, TypeCorrect, Invariance, PTL DEF Spec, TerminalIsFinal

=============================================================================
