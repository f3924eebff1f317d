------------------------- MODULE TransitionLifecycle -------------------------
(***************************************************************************)
(* The life of ONE transition record of the Power Control Service, from    *)
(* POST /transitions to the deletion of the record, as several instances   *)
(* (pods) of the service, their goroutines and the API callers see it      *)
(* through etcd: internal/domain/transitions.go.                           *)
(*                                                                         *)
(*   worker     doTransition(), one goroutine per start of the transition  *)
(*   keep-alive transitionKeepAlive(), started by the worker               *)
(*   reaper     transitionsReaper(), one ticker per pod, no lock           *)
(*   client     a caller of AbortTransitionID() (DELETE /transitions/{id}) *)
(*                                                                         *)
(* Transitions have their own keys and share no state but the hardware     *)
(* reservations, so one record is modelled.  What a tier sends to which    *)
(* component is the subject of PowerSequence; here a component is acted on  *)
(* in one tier or more and its task is open, failed or succeeded.          *)
(*                                                                         *)
(* etcd offers blind stores and a test-and-set that compares the whole     *)
(* stored JSON.  Every store of a live record refreshes LastActiveTime (in *)
(* nanoseconds), so "my snapshot equals the stored value" is "nobody has   *)
(* stored a different value since I read": `cur' is the set of actors of   *)
(* whom that is true.  A test-and-set succeeds exactly for them.           *)
(***************************************************************************)
EXTENDS Naturals, FiniteSets

CONSTANTS
    Pod,        \* instances of the service
    Worker,     \* slots for doTransition goroutines
    PodOf,      \* the pod a slot belongs to
    Client,     \* callers of AbortTransitionID, one call each
    Comp,       \* the components named in the request
    Tid,        \* task IDs to draw from, per component
    MaxTier,    \* bound: tiers a transition goes through (13 in the code)
    MaxCrash,   \* bound: pod crashes
    MaxErr,     \* bound: etcd operations that return an error
    CanExpire,  \* whether AutomaticExpirationTime can pass
    CanPrune,   \* whether other records can push this one over MaxNumCompleted
    Legacy      \* whether a record stored by an older version may be found

ASSUME ConstAssumption ==
    /\ PodOf \in [Worker -> Pod]
    /\ Tid # {}
    /\ MaxTier \in Nat \ {0}
    /\ MaxCrash \in Nat /\ MaxErr \in Nat
    /\ CanExpire \in BOOLEAN /\ CanPrune \in BOOLEAN /\ Legacy \in BOOLEAN

VARIABLES
    rec,      \* the record under /transitions/<id>; status "none": no key
    tdb,      \* the task records under /transitiontasks/<id>/<taskid>
    stale,    \* LastActiveTime is older than 3 keep-alive intervals
    expired,  \* AutomaticExpirationTime has passed
    cur,      \* the actors whose snapshot of the record is its stored value
    pc,       \* where each worker is in doTransition
    loc,      \* each worker's local variables
    ka,       \* each worker's keep-alive goroutine
    rp,       \* each pod's reaper
    cl,       \* each client's call
    born,     \* the transition has been created
    \* history and bounds
    signaled, \* an abort has been signaled at least once
    crashes, errs

vars == <<rec, tdb, stale, expired, cur, pc, loc, ka, rp, cl,
          born, signaled, crashes, errs>>

-----------------------------------------------------------------------------
(* Values *)

Running  == {"new", "in-progress", "abort-signaled"}
Terminal == {"completed", "aborted"}

\* "open" stands for new and in-progress, which the code always tests
\* together; "failed" also stands for unsupported.
TaskStatus == {"none", "open", "failed", "succeeded"}
Finished   == {"failed", "succeeded"}

TaskDB  == [Comp -> [Tid -> TaskStatus]]
NoTasks == [c \in Comp |-> [i \in Tid |-> "none"]]

Record == [status : Running \cup Terminal \cup {"none"},
           zip    : BOOLEAN,      \* IsCompressed
           report : TaskDB]       \* Tasks of a compressed record
NoRec  == [status |-> "none", zip |-> FALSE, report |-> NoTasks]

\* The record as it is stored while it runs: tasks are kept apart.
Live(status) == [status |-> status, zip |-> FALSE, report |-> NoTasks]

\* The record as compressAndCompleteTransition stores it.
Compressed(status, tasks) == [status |-> status, zip |-> TRUE, report |-> tasks]

PC == {"idle", "start", "setup", "create", "store", "tas", "blind", "abort",
       "gather", "cancel", "seq", "tier", "send", "confirm", "poll", "done",
       "cget", "cstore", "cdel"}

\* A task as a worker holds it: its ID and its status ("none": no task yet).
Held == [id : Tid, st : TaskStatus]
Blank == [c \in Comp |-> [id |-> CHOOSE i \in Tid : TRUE, st |-> "none"]]

\* Where storeTransition, doAbort and compressAndCompleteTransition return to.
Site == {"setup", "gathered", "end"}

Local == [task    : [Comp -> Held],   \* xnameMap
          xnames  : SUBSET Comp,      \* xnames
          tiers   : 0..MaxTier,       \* tiers left in seqMap, at most
          wait    : SUBSET Comp,      \* trsTaskMap, once launched
          try     : 0..2,             \* retry of storeTransition
          abort   : BOOLEAN,          \* abort of storeTransition
          aborted : BOOLEAN,          \* history: doAbort has run
          site    : Site,
          fin     : Terminal,         \* status of compressAndCompleteTransition
          lst     : TaskDB]           \* tasks of compressAndCompleteTransition
Fresh == [task |-> Blank, xnames |-> {}, tiers |-> 0,
          wait |-> {}, try |-> 0, abort |-> FALSE, aborted |-> FALSE, site |-> "setup",
          fin |-> "completed", lst |-> NoTasks]

Reaper == [pc     : {"idle", "got", "dtasks", "cstore", "cdel"},
           status : Running \cup Terminal,
           zip    : BOOLEAN,
           lst    : TaskDB]
IdleReaper == [pc |-> "idle", status |-> "completed", zip |-> TRUE,
               lst |-> NoTasks]

\* A keep-alive goroutine waits for a tick, or is about to try again, or has
\* read the record.
KeepAlive == {"off", "on", "again", "got"}

Call == [pc  : {"get", "tas", "accepted", "refused", "failed"}, try : 0..2]

NoCur == [w |-> {}, k |-> {}, r |-> {}, c |-> {}]

Open(w)   == {c \in Comp : loc[w].task[c].st = "open"}
Active(w) == pc[w] # "idle"

-----------------------------------------------------------------------------
(* etcd *)

\* A store of value r; refreshing says whether LastActiveTime is set to now.
\* The snapshots taken before are out of date unless nothing has changed.
Store(r, refreshing) ==
    /\ rec' = r
    /\ stale' = (stale /\ ~refreshing)
    /\ cur' = IF r = rec /\ ~refreshing THEN cur ELSE NoCur

\* An etcd operation fails.  Errors that a caller answers by trying again at
\* once without limit (keep-alive) or at its next tick (reaper's first read)
\* leave every variable as it is and are not actions here.
Error == errs < MaxErr /\ errs' = errs + 1
NoError == UNCHANGED errs

\* The task database after worker w has stored the tasks of the components
\* in S, except those in `lost', whose store failed (the error is logged).
Stored(db, tasks, S, lost) ==
    [c \in Comp |-> IF c \in S \ lost
                    THEN [db[c] EXCEPT ![tasks[c].id] = tasks[c].st]
                    ELSE db[c]]

\* The stores of the tasks in S, of which some may fail.
StoreTasks(tasks, S) ==
    \/ NoError /\ tdb' = Stored(tdb, tasks, S, {})
    \/ /\ Error
       /\ \E lost \in SUBSET S \ {{}} : tdb' = Stored(tdb, tasks, S, lost)

\* One task out of a task database or a list of tasks.
Without(db, c, i) == [db EXCEPT ![c][i] = "none"]

\* The tasks of w with status st for every component in S.
Set(tasks, S, st) ==
    [c \in Comp |-> IF c \in S THEN [tasks[c] EXCEPT !.st = st] ELSE tasks[c]]

storeVars == <<rec, stale, cur>>
envVars   == <<expired, born, signaled, crashes>>

-----------------------------------------------------------------------------
(* Worker: doTransition *)

Goto(w, label) == pc' = [pc EXCEPT ![w] = label]

\* The goroutine returns.
Exit(w) ==
    /\ Goto(w, "idle")
    /\ loc' = [loc EXCEPT ![w] = Fresh]

\* storeTransition, doAbort or compressAndCompleteTransition are done and
\* doTransition goes on.  After the doAbort of the first two sites it goes on
\* as well: only the tier loop's doAbort is followed by a return.
Resume(w, l) ==
    \/ l.site = "end" /\ Exit(w)
    \/ /\ l.site # "end"
       /\ Goto(w, IF l.site = "setup" THEN "gather" ELSE "seq")
       /\ loc' = [loc EXCEPT ![w] = l]

\* compressAndCompleteTransition(tr, "completed") and return.
Complete(w, l) ==
    /\ Goto(w, "cget")
    /\ loc' = [loc EXCEPT ![w] = [l EXCEPT !.site = "end", !.fin = "completed"]]

\* POST /transitions: the record is stored and the worker launched.
TriggerTransition(w) ==
    /\ ~born /\ born' = TRUE
    /\ Store(Live("new"), TRUE)
    /\ Goto(w, "start")
    /\ UNCHANGED <<tdb, expired, loc, ka, rp, cl, signaled, crashes, errs>>

\* The record is read, finished ones are left alone, and the keep-alive
\* goroutine is started.
StartWorker(w) ==
    /\ pc[w] = "start"
    /\ \/ /\ \/ Error
             \/ NoError /\ rec.status \notin Running
          /\ Exit(w)
          /\ UNCHANGED ka
       \/ /\ NoError
          /\ rec.status \in Running
          /\ Goto(w, "setup")
          /\ ka' = [ka EXCEPT ![w] = "on"]
          /\ UNCHANGED loc
    /\ UNCHANGED <<tdb, rp, cl, storeVars, envVars>>

\* setupTransitionTasks: the tasks of an earlier start are taken over.  The
\* map keeps one task per component, the last in the order of the keys.
LoadTasks(w) ==
    /\ pc[w] = "setup"
    /\ \E t \in [Comp -> Held] :
          /\ \/ /\ NoError
                /\ \A c \in Comp :
                     IF \E i \in Tid : tdb[c][i] # "none"
                     THEN /\ t[c].st # "none"
                          /\ t[c].st = tdb[c][t[c].id]
                     ELSE t[c] = Blank[c]
             \/ Error /\ t = Blank
          /\ loc' = [loc EXCEPT ![w].task = t,
                                ![w].xnames = {c \in Comp : t[c].st = "open"}]
    /\ Goto(w, "create")
    /\ UNCHANGED <<tdb, ka, rp, cl, storeVars, envVars>>

\* A task ID nobody uses (uuid.New).
Unused(c, i) ==
    /\ tdb[c][i] = "none"
    /\ \A v \in Worker : loc[v].task[c].st # "none" => loc[v].task[c].id # i

\* setupTransitionTasks: a task is created for a component that has none; an
\* invalid name or a type without power control is finished at once.
CreateTask(w) ==
    /\ pc[w] = "create"
    /\ \E c \in Comp, i \in Tid, st \in {"open", "failed"} :
          /\ loc[w].task[c].st = "none"
          /\ Unused(c, i)
          /\ LET t == [loc[w].task EXCEPT ![c] = [id |-> i, st |-> st]] IN
             /\ loc' = [loc EXCEPT
                   ![w].task = t,
                   ![w].xnames = IF st = "open" THEN @ \cup {c} ELSE @]
             /\ StoreTasks(t, {c})
    /\ UNCHANGED <<pc, ka, rp, cl, storeVars, envVars>>

\* Nothing left to do completes the transition; otherwise it is stored as
\* in-progress.
SetupDone(w) ==
    /\ pc[w] = "create"
    /\ \A c \in Comp : loc[w].task[c].st # "none"
    /\ IF loc[w].xnames = {}
       THEN Complete(w, loc[w])
       ELSE Goto(w, "store") /\ UNCHANGED loc
    /\ UNCHANGED <<tdb, ka, rp, cl, errs, storeVars, envVars>>

\* storeTransition returns to doTransition.
StoreReturns(w, l) ==
    IF l.abort
    THEN /\ Goto(w, "abort")
         /\ loc' = [loc EXCEPT ![w] = [l EXCEPT !.try = 0]]
    ELSE Resume(w, [l EXCEPT !.try = 0])

\* Mutant: the read does not look for the abort signal.
StoreGet_IgnoresAbort(w) ==
    /\ pc[w] = "store" /\ NoError
    /\ IF rec.status = "none"
       THEN Goto(w, "blind") /\ UNCHANGED cur
       ELSE Goto(w, "tas") /\ cur' = [cur EXCEPT !.w = @ \cup {w}]
    /\ UNCHANGED <<loc, tdb, ka, rp, cl, rec, stale, envVars>>

\* storeTransition, the read: a missing record will be stored blindly, and an
\* abort signal is remembered.
StoreGet(w) ==
    /\ pc[w] = "store"
    /\ \/ /\ Error
          /\ StoreReturns(w, loc[w])
          /\ UNCHANGED cur
       \/ /\ NoError /\ rec.status = "none"
          /\ Goto(w, "blind")
          /\ UNCHANGED <<loc, cur>>
       \/ /\ NoError /\ rec.status # "none"
          /\ Goto(w, "tas")
          /\ loc' = [loc EXCEPT
                       ![w].abort = @ \/ rec.status = "abort-signaled"]
          /\ cur' = [cur EXCEPT !.w = @ \cup {w}]
    /\ UNCHANGED <<tdb, ka, rp, cl, rec, stale, envVars>>

\* What storeTransition stores: in-progress, or the signal it has seen.
StoredStatus(l) == IF l.abort THEN "abort-signaled" ELSE "in-progress"

\* Mutant: one retry too many.
StoreTAS_NoLimit(w) ==
    /\ pc[w] = "tas" /\ NoError
    /\ IF w \in cur.w
       THEN /\ Store(Live(StoredStatus(loc[w])), TRUE)
            /\ StoreReturns(w, loc[w])
       ELSE /\ Goto(w, "store")
            /\ loc' = [loc EXCEPT ![w].try = @ + 1]
            /\ UNCHANGED storeVars
    /\ UNCHANGED <<tdb, ka, rp, cl, envVars>>

\* storeTransition, the test-and-set, at most three times.
StoreTAS(w) ==
    /\ pc[w] = "tas"
    /\ \/ /\ w \in cur.w /\ NoError
          /\ Store(Live(StoredStatus(loc[w])), TRUE)
          /\ StoreReturns(w, loc[w])
       \/ /\ (w \notin cur.w /\ NoError) \/ Error
          /\ IF loc[w].try < 2
             THEN /\ Goto(w, "store")
                  /\ loc' = [loc EXCEPT ![w].try = @ + 1]
             ELSE StoreReturns(w, loc[w])
          /\ UNCHANGED storeVars
    /\ UNCHANGED <<tdb, ka, rp, cl, envVars>>

\* storeTransition, the blind store of a record that was not there.
StoreBlind(w) ==
    /\ pc[w] = "blind"
    /\ \/ NoError /\ Store(Live(StoredStatus(loc[w])), TRUE)
       \/ Error /\ UNCHANGED storeVars
    /\ StoreReturns(w, loc[w])
    /\ UNCHANGED <<tdb, ka, rp, cl, envVars>>

\* Mutant: the failed tasks are not stored.
doAbort_NotStored(w) ==
    /\ pc[w] = "abort" /\ NoError
    /\ loc' = [loc EXCEPT ![w].task = Set(@, Open(w), "failed"),
                          ![w].fin = "aborted", ![w].aborted = TRUE,
                          ![w].abort = FALSE]
    /\ Goto(w, "cget")
    /\ UNCHANGED <<tdb, ka, rp, cl, storeVars, envVars>>

\* Mutant: the tasks fail in etcd but not in the worker's own map.
doAbort_OnlyStored(w) ==
    /\ pc[w] = "abort"
    /\ loc' = [loc EXCEPT ![w].fin = "aborted", ![w].aborted = TRUE,
                          ![w].abort = FALSE]
    /\ StoreTasks(Set(loc[w].task, Open(w), "failed"), Open(w))
    /\ Goto(w, "cget")
    /\ UNCHANGED <<ka, rp, cl, storeVars, envVars>>

\* doAbort: one by one the open tasks fail and are stored, then the record is
\* completed as aborted.
doAbort(w) ==
    /\ pc[w] = "abort"
    /\ \/ /\ \E c \in Open(w) :
                LET t == Set(loc[w].task, {c}, "failed") IN
                /\ loc' = [loc EXCEPT ![w].task = t]
                /\ StoreTasks(t, {c})
          /\ UNCHANGED pc
       \/ /\ Open(w) = {} /\ NoError
          /\ loc' = [loc EXCEPT ![w].fin = "aborted", ![w].aborted = TRUE,
                                ![w].abort = FALSE]
          /\ Goto(w, "cget")
          /\ UNCHANGED tdb
    /\ UNCHANGED <<ka, rp, cl, storeVars, envVars>>

\* getPowerStateHierarchy, FillHSMData and FillPowerMapData.  An etcd error
\* cancels the keep-alive goroutine and ends the worker.  Components without
\* a power status fail (whatever their status was), open ones HSM does not
\* know fail too, all of them if HSM cannot be asked.
Gather(w) ==
    /\ pc[w] = "gather"
    /\ \/ /\ Error
          /\ Goto(w, "cancel")
          /\ UNCHANGED <<loc, tdb>>
       \/ \E missing \in SUBSET loc[w].xnames, unknown \in SUBSET Open(w) :
             LET bad == missing \cup (unknown \ missing)
                 t   == Set(loc[w].task, bad, "failed")
                 l   == [loc[w] EXCEPT !.task = t] IN
             /\ StoreTasks(t, bad)
             /\ IF missing = loc[w].xnames
                THEN /\ unknown = {}
                     /\ Complete(w, l)
                ELSE /\ Goto(w, "store")
                     /\ loc' = [loc EXCEPT ![w] = [l EXCEPT !.site = "gathered"]]
    /\ UNCHANGED <<ka, rp, cl, storeVars, envVars>>

\* cancelChan <- true: an unbuffered send, received by a keep-alive goroutine
\* that waits for its next tick, and by nobody once it has returned.
Cancel(w) ==
    /\ pc[w] = "cancel"
    /\ ka[w] = "on"
    /\ ka' = [ka EXCEPT ![w] = "off"]
    /\ Exit(w)
    /\ UNCHANGED <<tdb, rp, cl, errs, storeVars, envVars>>

\* sequenceComponents and ReserveComponents: some open tasks turn out to be
\* done already, some to be impossible, the others are put into tiers, and of
\* these some cannot be reserved (all of them if HSM cannot be asked).
Sequence(w) ==
    /\ pc[w] = "seq"
    /\ \E seq \in SUBSET Open(w) : \E done \in SUBSET (Open(w) \ seq) :
          \E unreserved \in SUBSET seq :
             LET bad == (Open(w) \ (seq \cup done)) \cup unreserved
                 t == Set(Set(loc[w].task, done, "succeeded"), bad, "failed") IN
             /\ loc' = [loc EXCEPT ![w].task = t, ![w].tiers = IF seq = {} THEN 0
                                                                 ELSE MaxTier]
             /\ StoreTasks(t, done \cup bad)
    /\ Goto(w, "tier")
    /\ UNCHANGED <<ka, rp, cl, storeVars, envVars>>

\* checkAbort at the top of a tier and of each round of its confirmation; an
\* error counts as "no abort".  A signal leads to doAbort and a return.
checkAbort(w, next, l) ==
    \/ /\ NoError /\ rec.status = "abort-signaled"
       /\ Goto(w, "abort")
       /\ loc' = [loc EXCEPT ![w] = [l EXCEPT !.site = "end", !.wait = {}]]
    \/ /\ \/ NoError /\ rec.status # "abort-signaled"
          \/ Error
       /\ Goto(w, next)
       /\ loc' = [loc EXCEPT ![w] = l]

\* The tiers.  Those left may hold only components that have failed; after the
\* last one the transition is completed.
Tier(w) ==
    /\ pc[w] = "tier"
    /\ \/ /\ loc[w].tiers > 0
          /\ checkAbort(w, IF Open(w) = {} THEN "done" ELSE "send",
                           [loc[w] EXCEPT !.tiers = @ - 1])
       \/ NoError /\ Open(w) = {} /\ Complete(w, loc[w])
    /\ UNCHANGED <<tdb, ka, rp, cl, storeVars, envVars>>

TiersDone(w) ==
    /\ pc[w] = "done"
    /\ Complete(w, loc[w])
    /\ UNCHANGED <<tdb, ka, rp, cl, errs, storeVars, envVars>>

\* One tier: commands are sent to the open components in it, those whose
\* command fails (and the components that depend on them) fail.  The last tier
\* has all that are still open.
Send(w) ==
    /\ pc[w] = "send"
    /\ \E T \in SUBSET Open(w) : \E bad \in SUBSET Open(w) :
          /\ T # {}
          /\ loc[w].tiers = 0 => T = Open(w)
          /\ LET t == Set(loc[w].task, bad, "failed") IN
             /\ loc' = [loc EXCEPT ![w].task = t, ![w].wait = T \ bad]
             /\ StoreTasks(t, T \cup bad)
    /\ Goto(w, "confirm")
    /\ UNCHANGED <<ka, rp, cl, storeVars, envVars>>

Confirm(w) ==
    /\ pc[w] = "confirm"
    /\ checkAbort(w, "poll", loc[w])
    /\ UNCHANGED <<tdb, ka, rp, cl, storeVars, envVars>>

\* Mutant: the outcome of a round is not stored.
PollWith_NotStored(w, done, next, bad) ==
    LET left == loc[w].wait \ (done \cup next \cup bad) IN
    /\ next # {} => loc[w].tiers > 0
    /\ loc' = [loc EXCEPT
                 ![w].task = Set(Set(@, bad, "failed"), done, "succeeded"),
                 ![w].wait = left]
    /\ NoError /\ UNCHANGED tdb
    /\ Goto(w, IF left = {} THEN "tier" ELSE "confirm")

\* One round of confirmation ends with the components in done confirmed for
\* good, those in next due in a later tier (confirmed with an action to come,
\* or too slow and to be forced off) and those in bad failed (with what depends
\* on them); the tier ends when nobody is left to wait for.
PollWith(w, done, next, bad) ==
    LET t    == Set(Set(loc[w].task, bad, "failed"), done, "succeeded")
        left == loc[w].wait \ (done \cup next \cup bad) IN
    /\ next # {} => loc[w].tiers > 0
    /\ loc' = [loc EXCEPT ![w].task = t, ![w].wait = left]
    /\ StoreTasks(t, done \cup bad)
    /\ Goto(w, IF left = {} THEN "tier" ELSE "confirm")

Poll(w) ==
    /\ pc[w] = "poll"
    /\ \E done \in SUBSET loc[w].wait : \E next \in SUBSET (loc[w].wait \ done) :
          \E bad \in SUBSET (Open(w) \ (done \cup next)) :
             PollWith(w, done, next, bad)
    /\ UNCHANGED <<ka, rp, cl, storeVars, envVars>>

\* The round in which the deadline has passed: nobody is waited for any more.
PollDeadline(w) ==
    /\ pc[w] = "poll"
    /\ \E done \in SUBSET loc[w].wait : \E next \in SUBSET (loc[w].wait \ done) :
          PollWith(w, done, next, loc[w].wait \ (done \cup next))
    /\ UNCHANGED <<ka, rp, cl, storeVars, envVars>>

\* Mutant: the tasks are deleted before the record that replaces them is stored.
CompressGet_DeletesFirst(w) ==
    /\ pc[w] = "cget" /\ NoError
    /\ loc' = [loc EXCEPT ![w].lst = tdb]
    /\ tdb' = NoTasks
    /\ Goto(w, "cstore")
    /\ UNCHANGED <<ka, rp, cl, storeVars, envVars>>

\* compressAndCompleteTransition: read the tasks, store the record blindly,
\* delete the tasks one by one.  An error at one of the first two steps ends it.
CompressGet(w) ==
    /\ pc[w] = "cget"
    /\ \/ /\ NoError
          /\ loc' = [loc EXCEPT ![w].lst = tdb]
          /\ Goto(w, "cstore")
       \/ Error /\ Resume(w, loc[w])
    /\ UNCHANGED <<tdb, ka, rp, cl, storeVars, envVars>>

CompressStore(w) ==
    /\ pc[w] = "cstore"
    /\ \/ /\ NoError
          /\ Store(Compressed(loc[w].fin, loc[w].lst), FALSE)
          /\ Goto(w, "cdel")
          /\ UNCHANGED loc
       \/ /\ Error
          /\ Resume(w, [loc[w] EXCEPT !.lst = NoTasks])
          /\ UNCHANGED storeVars
    /\ UNCHANGED <<tdb, ka, rp, cl, envVars>>

CompressDelete(w) ==
    /\ pc[w] = "cdel"
    /\ \/ /\ \E c \in Comp, i \in Tid :
                /\ loc[w].lst[c][i] # "none"
                /\ loc' = [loc EXCEPT ![w].lst = Without(@, c, i)]
                /\ \/ NoError /\ tdb' = Without(tdb, c, i)
                   \/ Error /\ UNCHANGED tdb
          /\ UNCHANGED pc
       \/ /\ loc[w].lst = NoTasks /\ NoError
          /\ Resume(w, loc[w])
          /\ UNCHANGED tdb
    /\ UNCHANGED <<ka, rp, cl, storeVars, envVars>>

-----------------------------------------------------------------------------
(* Keep-alive: transitionKeepAlive *)

KeepAliveGet(w) ==
    /\ ka[w] \in {"on", "again"}
    /\ IF rec.status \in Running
       THEN /\ ka' = [ka EXCEPT ![w] = "got"]
            /\ cur' = [cur EXCEPT !.k = @ \cup {w}]
       ELSE /\ ka' = [ka EXCEPT ![w] = "off"]
            /\ UNCHANGED cur
    /\ UNCHANGED <<rec, stale, tdb, pc, loc, rp, cl, errs, envVars>>

KeepAliveTAS(w) ==
    /\ ka[w] = "got"
    /\ IF w \in cur.k
       THEN Store(rec, TRUE) /\ ka' = [ka EXCEPT ![w] = "on"]
       ELSE UNCHANGED storeVars /\ ka' = [ka EXCEPT ![w] = "again"]
    /\ UNCHANGED <<tdb, pc, loc, rp, cl, errs, envVars>>

-----------------------------------------------------------------------------
(* Reaper: transitionsReaper *)

ReaperIdle(p) == rp' = [rp EXCEPT ![p] = IdleReaper]

\* GetAllTransitions.
ReaperGet(p) ==
    /\ rp[p].pc = "idle"
    /\ rec.status # "none"
    /\ rp' = [rp EXCEPT ![p] = [pc |-> "got", status |-> rec.status,
                                zip |-> rec.zip, lst |-> NoTasks]]
    /\ cur' = [cur EXCEPT !.r = IF rec.status \in Running THEN @ \cup {p}
                                                            ELSE @ \ {p}]
    /\ UNCHANGED <<rec, stale, tdb, pc, loc, ka, cl, errs, envVars>>

\* go doTransition(id), on this pod.
Launch(p) ==
    \E w \in Worker :
        /\ PodOf[w] = p /\ pc[w] = "idle" /\ ka[w] = "off"
        /\ Goto(w, "start")

\* Mutant: the outcome of the test-and-set is not looked at.
ReaperLive_AnyOutcome(p) ==
    /\ rp[p].pc = "got" /\ rp[p].status \in Running
    /\ stale \/ p \notin cur.r
    /\ IF p \in cur.r THEN Store(rec, TRUE) ELSE UNCHANGED storeVars
    /\ Launch(p)
    /\ ReaperIdle(p)
    /\ UNCHANGED <<tdb, loc, ka, cl, errs, envVars>>

\* Mutant: the record is refreshed but no worker is started.
ReaperLive_NoLaunch(p) ==
    /\ rp[p].pc = "got" /\ rp[p].status \in Running
    /\ stale /\ p \in cur.r
    /\ Store(rec, TRUE)
    /\ ReaperIdle(p)
    /\ UNCHANGED <<tdb, pc, loc, ka, cl, errs, envVars>>

\* Mutant: only new and in-progress records are taken over.
ReaperLive_NotSignaled(p) ==
    /\ rp[p].pc = "got" /\ rp[p].status \in {"new", "in-progress"}
    /\ stale /\ p \in cur.r
    /\ Store(rec, TRUE)
    /\ Launch(p)
    /\ ReaperIdle(p)
    /\ UNCHANGED <<tdb, loc, ka, cl, errs, envVars>>

\* A live record: an expired one is signaled to abort, and one that has been
\* abandoned is taken over by whoever's test-and-set refreshes it first.
ReaperLive(p) ==
    /\ rp[p].pc = "got" /\ rp[p].status \in Running
    /\ expired \/ stale
    /\ p \in cur.r
    /\ Store(IF expired THEN [rec EXCEPT !.status = "abort-signaled"] ELSE rec,
             stale)
    /\ signaled' = (signaled \/ expired)
    /\ IF stale THEN Launch(p) ELSE UNCHANGED pc
    /\ ReaperIdle(p)
    /\ UNCHANGED <<tdb, expired, loc, ka, cl, errs, born, crashes>>

\* Nothing to do, or the test-and-set failed: somebody else took care of it.
ReaperPass(p) ==
    /\ rp[p].pc = "got"
    /\ \/ NoError /\ rp[p].status \in Running /\ p \notin cur.r
       \/ NoError /\ rp[p].status \in Running /\ ~expired /\ ~stale
       \/ NoError /\ rp[p].status \in Terminal /\ ~expired /\ rp[p].zip
       \/ Error
    /\ ReaperIdle(p)
    /\ cur' = [cur EXCEPT !.r = @ \ {p}]
    /\ UNCHANGED <<rec, stale, tdb, pc, loc, ka, cl, envVars>>

\* Mutant: the record is deleted without its tasks.
DeleteGet_RecordOnly(p) ==
    /\ rp[p].pc = "got" /\ rp[p].status \in Terminal
    /\ expired \/ CanPrune
    /\ rp' = [rp EXCEPT ![p].pc = "dtasks"]
    /\ UNCHANGED <<tdb, pc, loc, ka, cl, errs, storeVars, envVars>>

\* A finished record that has expired, or is one of the oldest beyond
\* MaxNumCompleted, is deleted: deleteTransition lists its tasks, deletes them
\* one by one and then deletes the record.  An error stops it there.
DeleteGet(p) ==
    /\ rp[p].pc = "got" /\ rp[p].status \in Terminal
    /\ expired \/ CanPrune
    /\ rp' = [rp EXCEPT ![p].pc = "dtasks", ![p].lst = tdb]
    /\ UNCHANGED <<tdb, pc, loc, ka, cl, errs, storeVars, envVars>>

DeleteTask(p) ==
    /\ rp[p].pc = "dtasks"
    /\ \E c \in Comp, i \in Tid :
          /\ rp[p].lst[c][i] # "none"
          /\ \/ /\ NoError
                /\ tdb' = Without(tdb, c, i)
                /\ rp' = [rp EXCEPT ![p].lst = Without(@, c, i)]
             \/ Error /\ ReaperIdle(p) /\ UNCHANGED tdb
    /\ UNCHANGED <<pc, loc, ka, cl, storeVars, envVars>>

DeleteRecord(p) ==
    /\ rp[p].pc = "dtasks" /\ rp[p].lst = NoTasks
    /\ \/ NoError /\ Store(NoRec, FALSE)
       \/ Error /\ UNCHANGED storeVars
    /\ ReaperIdle(p)
    /\ UNCHANGED <<tdb, pc, loc, ka, cl, envVars>>

\* A finished record that an older version left uncompressed is compressed.
ReaperCompressGet(p) ==
    /\ rp[p].pc = "got" /\ rp[p].status \in Terminal
    /\ ~expired /\ ~rp[p].zip
    /\ rp' = [rp EXCEPT ![p].pc = "cstore", ![p].lst = tdb]
    /\ UNCHANGED <<tdb, pc, loc, ka, cl, errs, storeVars, envVars>>

ReaperCompressStore(p) ==
    /\ rp[p].pc = "cstore"
    /\ \/ /\ NoError
          /\ Store(Compressed(rp[p].status, rp[p].lst), FALSE)
          /\ rp' = [rp EXCEPT ![p].pc = "cdel"]
       \/ Error /\ UNCHANGED storeVars /\ ReaperIdle(p)
    /\ UNCHANGED <<tdb, pc, loc, ka, cl, envVars>>

ReaperCompressDelete(p) ==
    /\ rp[p].pc = "cdel"
    /\ \/ /\ \E c \in Comp, i \in Tid :
                /\ rp[p].lst[c][i] # "none"
                /\ rp' = [rp EXCEPT ![p].lst = Without(@, c, i)]
                /\ \/ NoError /\ tdb' = Without(tdb, c, i)
                   \/ Error /\ UNCHANGED tdb
       \/ rp[p].lst = NoTasks /\ NoError /\ ReaperIdle(p) /\ UNCHANGED tdb
    /\ UNCHANGED <<pc, loc, ka, cl, storeVars, envVars>>

-----------------------------------------------------------------------------
(* Client: AbortTransitionID *)

Answer(c, a) == cl' = [cl EXCEPT ![c].pc = a]

AbortGet(c) ==
    /\ born /\ cl[c].pc = "get"
    /\ \/ /\ NoError /\ rec.status \in Running
          /\ Answer(c, "tas")
          /\ cur' = [cur EXCEPT !.c = @ \cup {c}]
       \/ /\ NoError /\ rec.status = "aborted"
          /\ Answer(c, "accepted")
          /\ UNCHANGED cur
       \/ /\ NoError /\ rec.status \in {"completed", "none"}
          /\ Answer(c, "refused")
          /\ UNCHANGED cur
       \/ /\ Error
          /\ Answer(c, "failed")
          /\ UNCHANGED cur
    /\ UNCHANGED <<rec, stale, tdb, pc, loc, ka, rp, envVars>>

AbortTAS(c) ==
    /\ cl[c].pc = "tas"
    /\ \/ /\ c \in cur.c /\ NoError
          /\ Store([rec EXCEPT !.status = "abort-signaled"], FALSE)
          /\ signaled' = TRUE
          /\ Answer(c, "accepted")
       \/ /\ c \notin cur.c /\ NoError
          /\ cl' = [cl EXCEPT ![c] = IF @.try < 2
                                     THEN [pc |-> "get", try |-> @.try + 1]
                                     ELSE [@ EXCEPT !.pc = "failed"]]
          /\ UNCHANGED <<storeVars, signaled>>
       \/ /\ Error
          /\ Answer(c, "failed")
          /\ UNCHANGED <<storeVars, signaled>>
    /\ UNCHANGED <<tdb, pc, loc, ka, rp, expired, born, crashes>>

-----------------------------------------------------------------------------
(* Environment *)

\* A pod dies with everything that runs on it.
Crash(p) ==
    /\ crashes < MaxCrash
    /\ crashes' = crashes + 1
    /\ pc'  = [w \in Worker |-> IF PodOf[w] = p THEN "idle" ELSE pc[w]]
    /\ loc' = [w \in Worker |-> IF PodOf[w] = p THEN Fresh ELSE loc[w]]
    /\ ka'  = [w \in Worker |-> IF PodOf[w] = p THEN "off" ELSE ka[w]]
    /\ ReaperIdle(p)
    /\ cur' = [cur EXCEPT !.w = {w \in @ : PodOf[w] # p},
                           !.k = {w \in @ : PodOf[w] # p}, !.r = @ \ {p}]
    /\ UNCHANGED <<rec, stale, tdb, cl, expired, born, signaled, errs>>

\* Three keep-alive intervals pass without a refresh.  A keep-alive goroutine
\* that runs refreshes in time, and a worker starts one within that time: pods
\* may die but are taken not to stall for that long.
Attended == \E w \in Worker : ka[w] # "off" \/ pc[w] = "start"

Lapse ==
    /\ rec.status \in Running /\ ~stale
    /\ ~Attended
    /\ stale' = TRUE
    /\ UNCHANGED <<rec, cur, tdb, pc, loc, ka, rp, cl, errs, envVars>>

Expire ==
    /\ CanExpire /\ born /\ ~expired
    /\ expired' = TRUE
    /\ UNCHANGED <<tdb, pc, loc, ka, rp, cl, errs, storeVars, born, signaled,
                   crashes>>

-----------------------------------------------------------------------------
(* Specification *)

Init ==
    /\ \/ /\ born = FALSE
          /\ rec = NoRec
          /\ tdb = NoTasks
       \* a finished record of an older version, its tasks still apart
       \/ /\ Legacy /\ born = TRUE
          /\ rec = Live("completed")
          /\ tdb \in {[c \in Comp |-> [i \in Tid |->
                          IF i = k THEN "succeeded" ELSE "none"]] : k \in Tid}
    /\ stale = FALSE /\ expired = FALSE
    /\ cur = NoCur
    /\ pc  = [w \in Worker |-> "idle"]
    /\ loc = [w \in Worker |-> Fresh]
    /\ ka  = [w \in Worker |-> "off"]
    /\ rp  = [p \in Pod |-> IdleReaper]
    /\ cl  = [c \in Client |-> [pc |-> "get", try |-> 0]]
    /\ signaled = FALSE
    /\ crashes = 0 /\ errs = 0

WorkerStep(w) ==
    \/ StartWorker(w) \/ LoadTasks(w) \/ CreateTask(w) \/ SetupDone(w)
    \/ StoreGet(w) \/ StoreTAS(w) \/ StoreBlind(w)
    \/ doAbort(w) \/ Gather(w) \/ Cancel(w) \/ Sequence(w)
    \/ Tier(w) \/ TiersDone(w) \/ Send(w) \/ Confirm(w) \/ Poll(w) \/ PollDeadline(w)
    \/ CompressGet(w) \/ CompressStore(w) \/ CompressDelete(w)

KeepAliveStep(w) == KeepAliveGet(w) \/ KeepAliveTAS(w)

ReaperStep(p) ==
    \/ ReaperGet(p) \/ ReaperLive(p) \/ ReaperPass(p)
    \/ DeleteGet(p) \/ DeleteTask(p) \/ DeleteRecord(p)
    \/ ReaperCompressGet(p) \/ ReaperCompressStore(p) \/ ReaperCompressDelete(p)

ClientStep(c) == AbortGet(c) \/ AbortTAS(c)

Next ==
    \/ \E w \in Worker : TriggerTransition(w) \/ WorkerStep(w) \/ KeepAliveStep(w)
    \/ \E p \in Pod : ReaperStep(p) \/ Crash(p)
    \/ \E c \in Client : ClientStep(c)
    \/ Lapse \/ Expire

Spec == Init /\ [][Next]_vars

(* Fairness.  Goroutines that can run do run, a reaper ticks every minute,   *)
(* and time passes: an unattended record becomes stale.  A round of          *)
(* confirmation in which the deadline has passed comes, since TaskDeadline   *)
(* is finite (a negative one waits as long as it takes and is left out).     *)
Fairness ==
    /\ \A w \in Worker : /\ WF_vars(WorkerStep(w))
                         /\ SF_vars(PollDeadline(w))
                         /\ WF_vars(KeepAliveStep(w))
    /\ \A p \in Pod : WF_vars(ReaperStep(p))
    /\ WF_vars(Lapse)

FairSpec == Spec /\ Fairness

-----------------------------------------------------------------------------
(* Properties *)

\* The shapes of all variables.  Among them: storeTransition gives up after
\* its third attempt, whatever the contention on the record.
TypeOK ==
    /\ rec \in Record
    /\ tdb \in TaskDB
    /\ stale \in BOOLEAN /\ expired \in BOOLEAN
    /\ cur \in [w : SUBSET Worker, k : SUBSET Worker,
               r : SUBSET Pod, c : SUBSET Client]
    /\ pc \in [Worker -> PC]
    /\ loc \in [Worker -> Local]
    /\ ka \in [Worker -> KeepAlive]
    /\ rp \in [Pod -> Reaper]
    /\ cl \in [Client -> Call]
    /\ born \in BOOLEAN /\ signaled \in BOOLEAN
    /\ crashes \in 0..MaxCrash /\ errs \in 0..MaxErr

\* As long as no abort has been signaled, at most one doTransition goroutine
\* works on the transition, however many pods crash, take it over and reap at
\* once: the keep-alive goroutine and the reapers' test-and-set see to it.
SingleWorker ==
    ~signaled => \A v, w \in Worker : Active(v) /\ Active(w) => v = w

\* A finished transition stays as it is reported until it is deleted: neither
\* a worker's late store nor a takeover brings it back to life.
TerminalIsFinal ==
    [][rec.status \in Terminal => rec'.status \in {rec.status, "none"}]_rec

\* An abort signal is never overwritten by the stores of the worker, of the
\* keep-alive goroutine or of a reaper that read the record before it.
AbortNotDropped ==
    [][rec.status = "abort-signaled"
          => rec'.status \in {"abort-signaled", "none"} \cup Terminal]_rec

\* A compressed record reports a final status for every component of the
\* request and no open task, also when crashed workers left the work half
\* done, unless etcd lost a store or an abort was signaled.
ReportComplete ==
    (~signaled /\ errs = 0 /\ rec.zip) =>
        \A c \in Comp : /\ \E i \in Tid : rec.report[c][i] \in Finished
                       /\ \A i \in Tid : rec.report[c][i] # "open"

\* An aborted record reports no task as still open.
AbortReport ==
    (rec.status = "aborted" /\ errs = 0) =>
        \A c \in Comp, i \in Tid : rec.report[c][i] # "open"

\* Once the record is gone and nobody works on it, no task record is left
\* under its ID, where nothing would ever look for it again.
NoOrphanTasks ==
    (born /\ rec.status = "none" /\ ~signaled /\ errs = 0
          /\ \A w \in Worker : ~Active(w)) => tdb = NoTasks

\* A task record disappears only when the stored record reports the task as
\* it was, or the whole finished transition is being or has been deleted.
ResultsKept ==
    [][\A c \in Comp, i \in Tid :
          (tdb[c][i] # "none" /\ tdb'[c][i] = "none")
              => \/ rec.report[c][i] = tdb[c][i]
                 \/ rec.status = "none"
                 \/ \E p \in Pod : rp[p].pc = "dtasks"]_tdb

\* After doAbort a worker waits for no component: although doTransition goes
\* on after two of the three calls, it sends no further power command.
AbortStopsCommands == \A w \in Worker : loc[w].aborted => loc[w].wait = {}

\* Every transition is eventually finished or deleted for good, although pods
\* crash: the reapers take over what was abandoned.
Settles == <>[](born => rec.status \notin Running)

\* A signaled abort is eventually acted upon, also when the worker dies first.
AbortHonoured == rec.status = "abort-signaled" ~> rec.status \notin Running
=============================================================================
