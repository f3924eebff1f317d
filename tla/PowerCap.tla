------------------------------- MODULE PowerCap -------------------------------
(***************************************************************************)
(* ONE power capping task, from POST /power-cap/snapshot or PATCH          *)
(* /power-cap to the deletion of its record: internal/domain/power-cap.go. *)
(*                                                                         *)
(*   worker   doPowerCapTask(), one goroutine, in the pod that was called  *)
(*   reaper   powerCapReaper(), one ticker per pod, no lock                *)
(*                                                                         *)
(* Unlike transitions, tasks are stored blindly, nobody takes over the     *)
(* task of a pod that died, and a task cannot be aborted.                  *)
(***************************************************************************)
EXTENDS Integers, FiniteSets

CONSTANTS
    Comp,        \* the components of the request
    Ctl,         \* names of power controls
    Wants,       \* PATCH requests: for each component the controls to set
    Inventories, \* what HSM may know of the components
    MaxComponentQuery, \* how many endpoints are asked for in one request to HSM
    Pod, Home,   \* instances of the service; the one that is called
    Worker,      \* the goroutine, an actor like the pods' reapers
    CanPrune,    \* whether other records can push this one over MaxNumCompleted
    Legacy,      \* whether a record stored by an older version may be found
    MaxCrash,    \* bound: pod crashes
    MaxErr,      \* bound: etcd operations that return an error
    MaxFault     \* bound: requests to HSM and controllers that fail

Type == {"snapshot", "patch"}

\* The first check of doPowerCapTask that a component fails, or "ok".
Check  == {"invalid", "unknown", "noFQDN", "notNode", "noURI", "management",
           "noTarget", "ok"}
Schema == {"plain", "controls", "apollo"}

ASSUME CapAssumption ==
    /\ \A i \in Inventories, c \in Comp :
          /\ i[c].check \in Check /\ i[c].schema \in Schema
          /\ DOMAIN i[c].caps \subseteq Ctl
          /\ \A k \in DOMAIN i[c].caps : i[c].caps[k] \in [min : Int, max : Int]
          /\ i[c].schema = "controls" => DOMAIN i[c].caps # {}
    /\ \A w \in Wants, c \in Comp :
          DOMAIN w[c] \subseteq Ctl /\ \A k \in DOMAIN w[c] : w[c][k] \in Int
    /\ "node" \notin Ctl /\ "lookup" \notin Ctl
    /\ MaxComponentQuery \in Nat \ {0}
    /\ Home \in Pod /\ Worker \notin Pod
    /\ CanPrune \in BOOLEAN /\ Legacy \in BOOLEAN
    /\ MaxCrash \in Nat /\ MaxErr \in Nat /\ MaxFault \in Nat

\* An operation is about a component as a whole ("node") or one control, or
\* says that the component's data could not be had ("lookup").
Subject == Ctl \cup {"node", "lookup"}
Op      == Comp \X Subject

OpStatus == {"none", "new", "in-progress", "failed", "Succeeded", "Unsupported"}
OpDB     == [Op -> OpStatus]
NoOps    == [o \in Op |-> "none"]

Record == [status : {"none", "new", "in-progress", "completed"},
           zip    : BOOLEAN,    \* IsCompressed
           report : OpDB]       \* TaskCounts and Components
Plain(status) == [status |-> status, zip |-> FALSE, report |-> NoOps]

Actor == Pod \cup {Worker}

VARIABLES
    type, want, inv,  \* the request and HSM's data
    rec,      \* the record under /powercaptask/<id>
    ops,      \* the records under /powercapop/<id>/<opid>
    pc,       \* where each actor is
    lst,      \* the operations an actor has read to report or delete
    todo,     \* worker: operations to store first
    out,      \* worker: requests not yet answered
    seen,     \* reaper: the record as it was read
    hw,       \* the limits set on the hardware
    expired,  \* AutomaticExpirationTime has passed
    \* history and bounds
    born, closing, crashes, errs, faults

request == <<type, want, inv>>
history == <<born, crashes>>
vars == <<request, rec, ops, pc, lst, todo, out, seen, hw, expired, closing,
          history, errs, faults>>

Error   == errs < MaxErr /\ errs' = errs + 1
NoError == UNCHANGED errs
Fault   == faults < MaxFault /\ faults' = faults + 1
NoFault == UNCHANGED faults

Goto(a, l) == pc' = [pc EXCEPT ![a] = l]

-----------------------------------------------------------------------------
(* Which operations a task consists of *)

\* Mutant: the maximum is not checked.
InRange_NoMaximum(v, cap) == ~(cap.min # -1 /\ v # 0 /\ v < cap.min)

\* The limit is within what HSM knows of the control (-1: unknown).  Zero
\* turns power capping off and is never too low.
InRange(v, cap) == /\ ~(cap.min # -1 /\ v # 0 /\ v < cap.min)
                   /\ ~(cap.max # -1 /\ v > cap.max)

Known(c) == DOMAIN want[c] \cap DOMAIN inv[c].caps

\* The controls of c whose limits go into the payload.
Valid(c) == {k \in Known(c) : InRange(want[c][k], inv[c].caps[k])}

\* The status an operation on c is stored with.
Verdict(c) ==
    CASE inv[c].check \in {"noFQDN", "noURI"}         -> "failed"
      [] inv[c].check \in {"notNode", "management"}   -> "Unsupported"
      [] inv[c].check = "noTarget" /\ type = "patch" /\ inv[c].schema = "apollo"
                                                      -> "failed"
      [] OTHER -> IF type = "snapshot" \/ Valid(c) # {} THEN "in-progress"
                  ELSE IF Known(c) # {} THEN "failed" ELSE "new"

Operations(c, K, st) == {[id |-> <<c, k>>, st |-> st] : k \in K}

\* The components HSM is asked for, and those of them it lists.
Asked  == {c \in Comp : inv[c].check # "invalid"}
Listed == {c \in Asked : inv[c].check # "unknown"}

\* What FillHSMData may return: it asks for the components and then, batch by
\* batch in any order, for their endpoints.  When a request fails, what there
\* is so far is returned beside the error.
FillHSMData ==
    {[ok |-> TRUE, comps |-> Listed, filled |-> Listed],
     [ok |-> FALSE, comps |-> {}, filled |-> {}]}
      \cup {[ok |-> FALSE, comps |-> Listed, filled |-> F] :
              F \in {F \in SUBSET Listed : /\ F # Listed
                                          /\ Cardinality(F) % MaxComponentQuery = 0}}

\* After an error of HSM every component that was asked for has failed ...
Refused(c, hsm) == c \notin Asked \/ ~hsm.ok \/ c \notin hsm.comps

\* Mutant: components without any of the requested controls are kept.
Generated_NotSkipped(c) == Operations(c, {"node"}, Verdict(c))

\* ... and operations are generated all the same for those in the map.  A
\* snapshot of a component with the Controls schema is one operation per
\* control; a patch is one, and one that has failed per control HSM does not know.
Generated(c) ==
    IF type = "snapshot"
    THEN Operations(c, IF inv[c].schema = "controls" THEN DOMAIN inv[c].caps
                                                     ELSE {"node"}, Verdict(c))
    ELSE Operations(c, DOMAIN want[c] \ DOMAIN inv[c].caps, "failed")
           \cup Operations(c, IF Known(c) = {} THEN {} ELSE {"node"}, Verdict(c))

\* A component without its endpoint has neither an FQDN nor controls.
Bare(c) == Operations(c, IF type = "snapshot" THEN {"node"} ELSE DOMAIN want[c], "failed")

\* The operations stored for c.
Planned(c, hsm) ==
    (IF Refused(c, hsm) THEN Operations(c, {"lookup"}, "failed") ELSE {})
      \cup (IF c \in hsm.filled THEN Generated(c)
            ELSE IF c \in hsm.comps THEN Bare(c) ELSE {})

-----------------------------------------------------------------------------
(* Worker: doPowerCapTask *)

\* SnapshotPowerCap, PatchPowerCap.  Nothing comes of it if the store fails.
Trigger ==
    /\ ~born /\ born' = TRUE
    /\ \/ NoError /\ rec' = Plain("new") /\ Goto(Worker, "start")
       \/ Error /\ UNCHANGED <<rec, pc>>
    /\ UNCHANGED <<request, ops, lst, todo, out, seen, hw, expired, closing,
                   crashes, faults>>

\* The task is read, and HSM asked for the components.
Begin ==
    /\ pc[Worker] = "start"
    /\ \/ /\ rec.status # "none" /\ NoError
          /\ \E hsm \in FillHSMData :
                /\ IF hsm.ok THEN NoFault ELSE Asked # {} /\ Fault
                /\ todo' = UNION {Planned(c, hsm) : c \in Comp}
          /\ Goto(Worker, "gen")
       \/ /\ rec.status = "none" /\ NoError /\ NoFault
          /\ Goto(Worker, "idle") /\ UNCHANGED todo
       \/ /\ Error /\ NoFault
          /\ Goto(Worker, "idle") /\ UNCHANGED todo
    /\ UNCHANGED <<request, rec, ops, lst, out, seen, hw, expired, closing, history>>

\* One operation is stored, or logged as lost; either way it will be carried out.
\* Those that are about HSM come first.
StoreOp(t) ==
    /\ pc[Worker] = "gen" /\ t \in todo
    /\ t.id[2] = "lookup" \/ \A u \in todo : u.id[2] # "lookup"
    /\ todo' = todo \ {t}
    /\ out' = IF t.st = "in-progress" THEN out \cup {t.id} ELSE out
    /\ \/ NoError /\ ops' = [ops EXCEPT ![t.id] = t.st]
       \/ Error /\ UNCHANGED ops
    /\ UNCHANGED <<request, rec, pc, lst, seen, hw, expired, closing, history, faults>>

\* With nothing left to carry out the task is completed at once.
Launch ==
    /\ pc[Worker] = "gen" /\ todo = {}
    /\ \/ /\ out = {} /\ NoError
          /\ Goto(Worker, "cget") /\ UNCHANGED rec
       \/ /\ out # {}
          /\ Goto(Worker, "send")
          /\ \/ NoError /\ rec' = Plain("in-progress")
             \/ Error /\ UNCHANGED rec
    /\ UNCHANGED <<request, ops, lst, todo, out, seen, hw, expired, closing, history,
                   faults>>

\* generatePowerCapPayload: an Apollo 6500 takes a single limit.
Payloads(c) == IF inv[c].schema = "apollo" THEN {{k} : k \in Valid(c)} ELSE {Valid(c)}

\* The controller of c obeys a PATCH.
Set(c) == \E K \in Payloads(c) :
             hw' = [hw EXCEPT ![c] = [k \in Ctl |-> IF k \in K THEN want[c][k] ELSE @[k]]]

\* The answer to operation o: done; or an error, which leaves open whether the
\* limits have been set; or a refusal, which is taken for success (the test for
\* a bad status code is never true).
Response(o) ==
    /\ pc[Worker] = "send" /\ o \in out
    /\ out' = out \ {o}
    /\ \E st \in {"Succeeded", "failed"} :
          /\ \/ NoError /\ ops' = [ops EXCEPT ![o] = st]
             \/ Error /\ UNCHANGED ops
          /\ IF type = "snapshot"
             THEN (IF st = "failed" THEN Fault ELSE NoFault) /\ UNCHANGED hw
             ELSE \/ st = "Succeeded" /\ NoFault /\ Set(o[1])
                  \/ Fault /\ UNCHANGED hw
                  \/ st = "failed" /\ Fault /\ Set(o[1])
    /\ UNCHANGED <<request, rec, pc, lst, todo, seen, expired, closing, history>>

Answered ==
    /\ pc[Worker] = "send" /\ out = {}
    /\ Goto(Worker, "cget")
    /\ UNCHANGED <<request, rec, ops, lst, todo, out, seen, hw, expired, closing,
                   history, errs, faults>>

-----------------------------------------------------------------------------
(* compressAndCompleteTask, called by the worker and by reapers *)

\* A reaper goes on to count the records; the worker ends.
After(a) == IF a = Worker THEN "idle" ELSE "full"

CompressGet(a) ==
    /\ pc[a] = "cget"
    /\ \/ NoError /\ lst' = [lst EXCEPT ![a] = ops] /\ Goto(a, "cstore")
       \/ Error /\ Goto(a, After(a)) /\ UNCHANGED lst
    /\ UNCHANGED <<request, rec, ops, todo, out, seen, hw, expired, closing, history,
                   faults>>

\* Mutant: the operations are deleted although the record could not be stored.
CompressStore_Ignored(a) ==
    /\ pc[a] = "cstore"
    /\ \/ NoError /\ rec' = [status |-> "completed", zip |-> TRUE, report |-> lst[a]]
       \/ Error /\ UNCHANGED rec
    /\ Goto(a, "cdel")
    /\ UNCHANGED <<request, ops, lst, todo, out, seen, hw, expired, closing, history,
                   faults>>

CompressStore(a) ==
    /\ pc[a] = "cstore"
    /\ \/ /\ NoError
          /\ rec' = [status |-> "completed", zip |-> TRUE, report |-> lst[a]]
          /\ Goto(a, "cdel")
       \/ /\ Error
          /\ Goto(a, After(a)) /\ UNCHANGED rec
    /\ UNCHANGED <<request, ops, lst, todo, out, seen, hw, expired, closing, history,
                   faults>>

\* The operations an actor has read are deleted one by one; one that cannot be
\* is left behind.
DeleteOp(a) ==
    /\ pc[a] \in {"cdel", "edel", "pdel"}
    /\ \E o \in Op :
          /\ lst[a][o] # "none"
          /\ lst' = [lst EXCEPT ![a][o] = "none"]
          /\ \/ NoError /\ ops' = [ops EXCEPT ![o] = "none"]
             \/ Error /\ UNCHANGED ops
    /\ UNCHANGED <<request, rec, pc, todo, out, seen, hw, expired, closing, history,
                   faults>>

Compressed(a) ==
    /\ pc[a] = "cdel" /\ lst[a] = NoOps
    /\ Goto(a, After(a))
    /\ UNCHANGED <<request, rec, ops, lst, todo, out, seen, hw, expired, closing,
                   history, errs, faults>>

-----------------------------------------------------------------------------
(* Reaper: powerCapReaper *)

\* Mutant: a reaper goes on although there is no record.
ReaperGet_Any(p) ==
    /\ pc[p] = "idle"
    /\ seen' = [seen EXCEPT ![p] = [status |-> rec.status, zip |-> rec.zip]]
    /\ Goto(p, "got")
    /\ UNCHANGED <<request, rec, ops, lst, todo, out, hw, expired, closing, history,
                   errs, faults>>

\* The tasks are read; an error leaves everything to the next tick.
ReaperGet(p) ==
    /\ pc[p] = "idle" /\ rec.status # "none"
    /\ seen' = [seen EXCEPT ![p] = [status |-> rec.status, zip |-> rec.zip]]
    /\ Goto(p, "got")
    /\ UNCHANGED <<request, rec, ops, lst, todo, out, hw, expired, closing, history,
                   errs, faults>>

\* What a reaper does next with a record it is not deleting.
Counted(p) == IF seen[p].status = "completed" THEN "full" ELSE "idle"

\* The record has not expired: it may have to be compressed.
ReaperKeep(p) ==
    /\ pc[p] = "got" /\ ~expired
    /\ Goto(p, IF seen[p].status = "completed" /\ ~seen[p].zip THEN "cget"
                                                               ELSE Counted(p))
    /\ UNCHANGED <<request, rec, ops, lst, todo, out, seen, hw, expired, closing,
                   history, errs, faults>>

\* Mutant: the record is deleted and its operations are not.
DeleteGet_RecordOnly(p, here, there, otherwise) ==
    /\ pc[p] = here
    /\ lst' = [lst EXCEPT ![p] = NoOps] /\ Goto(p, there) /\ closing' = TRUE
    /\ UNCHANGED <<request, rec, ops, todo, out, seen, hw, expired, history, errs,
                   faults>>

\* Deleting a record begins with reading its operations.
DeleteGet(p, here, there, otherwise) ==
    /\ pc[p] = here
    /\ \/ /\ NoError
          /\ lst' = [lst EXCEPT ![p] = ops] /\ Goto(p, there) /\ closing' = TRUE
       \/ /\ Error
          /\ Goto(p, otherwise) /\ UNCHANGED <<lst, closing>>
    /\ UNCHANGED <<request, rec, ops, todo, out, seen, hw, expired, history, faults>>

\* Mutant: only finished records are deleted.
ReaperExpired_Finished(p) ==
    /\ expired /\ seen[p].status = "completed"
    /\ DeleteGet(p, "got", "edel", Counted(p))

\* Expired records are deleted, finished or not.
ReaperExpired(p) == expired /\ DeleteGet(p, "got", "edel", Counted(p))

\* Of the completed ones, the oldest beyond MaxNumCompleted are, too.
ReaperPrune(p) == CanPrune /\ DeleteGet(p, "full", "pdel", "idle")

ReaperDone(p) ==
    /\ pc[p] = "full"
    /\ Goto(p, "idle")
    /\ UNCHANGED <<request, rec, ops, lst, todo, out, seen, hw, expired, closing,
                   history, errs, faults>>

DeleteRecord(p) ==
    /\ pc[p] \in {"edel", "pdel"} /\ lst[p] = NoOps
    /\ \/ NoError /\ rec' = Plain("none")
       \/ Error /\ UNCHANGED rec
    /\ Goto(p, IF pc[p] = "edel" THEN Counted(p) ELSE "idle")
    /\ UNCHANGED <<request, ops, lst, todo, out, seen, hw, expired, closing, history,
                   faults>>

-----------------------------------------------------------------------------
(* Environment *)

\* A pod dies; nobody takes over its task.
Crash(p) ==
    /\ crashes < MaxCrash /\ crashes' = crashes + 1
    /\ LET dead == {p} \cup (IF p = Home THEN {Worker} ELSE {}) IN
       /\ pc'  = [a \in Actor |-> IF a \in dead THEN "idle" ELSE pc[a]]
       /\ lst' = [a \in Actor |-> IF a \in dead THEN NoOps ELSE lst[a]]
    /\ todo' = (IF p = Home THEN {} ELSE todo)
    /\ out'  = (IF p = Home THEN {} ELSE out)
    /\ UNCHANGED <<request, rec, ops, seen, hw, expired, closing, born, errs, faults>>

Expire ==
    /\ born /\ ~expired
    /\ expired' = TRUE /\ closing' = TRUE
    /\ UNCHANGED <<request, rec, ops, pc, lst, todo, out, seen, hw, history, errs,
                   faults>>

-----------------------------------------------------------------------------
(* Specification *)

\* What became of the operations T of a task that has ended.
Ended(T) ==
    [o \in Op |-> IF \E t \in T : t.id = o
                  THEN LET st == (CHOOSE t \in T : t.id = o).st IN
                       IF st = "in-progress" THEN "Succeeded" ELSE st
                  ELSE "none"]

Init ==
    /\ inv \in Inventories
    /\ \/ type = "snapshot" /\ want = [c \in Comp |-> <<>>]
       \/ type = "patch" /\ want \in Wants
    /\ \/ /\ born = FALSE /\ rec = Plain("none") /\ ops = NoOps
       \* a finished task of an older version, its operations still apart
       \/ /\ Legacy /\ born = TRUE /\ rec = Plain("completed")
          /\ \E hsm \in FillHSMData : ops = Ended(UNION {Planned(c, hsm) : c \in Comp})
    /\ pc = [a \in Actor |-> "idle"] /\ lst = [a \in Actor |-> NoOps]
    /\ todo = {} /\ out = {}
    /\ seen = [p \in Pod |-> [status |-> "new", zip |-> FALSE]]
    /\ hw = [c \in Comp |-> [k \in Ctl |-> -1]]
    /\ expired = FALSE /\ closing = FALSE
    /\ crashes = 0 /\ errs = 0 /\ faults = 0

Compress(a) == CompressGet(a) \/ CompressStore(a) \/ DeleteOp(a) \/ Compressed(a)

WorkerStep ==
    \/ Begin \/ Launch \/ Answered \/ Compress(Worker)
    \/ \E t \in todo : StoreOp(t)
    \/ \E o \in out : Response(o)

ReaperStep(p) ==
    \/ ReaperGet(p) \/ ReaperKeep(p) \/ ReaperExpired(p) \/ ReaperPrune(p)
    \/ ReaperDone(p) \/ DeleteRecord(p) \/ Compress(p)

Next ==
    \/ Trigger \/ WorkerStep \/ Expire
    \/ \E p \in Pod : ReaperStep(p) \/ Crash(p)

Spec == Init /\ [][Next]_vars

\* Goroutines run, requests are answered or time out, the reapers tick, and
\* the 24 hours pass.
FairSpec == /\ Spec
            /\ WF_vars(WorkerStep) /\ WF_vars(Expire)
            /\ \A p \in Pod : WF_vars(ReaperStep(p))

-----------------------------------------------------------------------------
(* Properties *)

\* The shapes of all variables.
TypeOK ==
    /\ type \in Type
    /\ rec \in Record /\ ops \in OpDB
    /\ pc \in [Actor -> {"idle", "start", "gen", "send", "cget", "cstore", "cdel",
                         "got", "full", "edel", "pdel"}]
    /\ lst \in [Actor -> OpDB]
    /\ todo \subseteq [id : Op, st : OpStatus] /\ out \subseteq Op
    /\ seen \in [Pod -> [status : {"new", "in-progress", "completed"}, zip : BOOLEAN]]
    /\ expired \in BOOLEAN /\ born \in BOOLEAN /\ closing \in BOOLEAN
    /\ crashes \in 0..MaxCrash /\ errs \in 0..MaxErr /\ faults \in 0..MaxFault

\* The operations that GET /power-cap/{taskID} tells of (buildPowerCapResponse).
View == IF rec.zip THEN rec.report ELSE ops

Task == INSTANCE PowerCapTask WITH
    status  <- rec.status,
    results <- IF rec.status = "none" THEN NoOps ELSE View

\* The task does what its callers are promised: in particular, that its
\* operations are moved into the record and then deleted shows to nobody, a
\* result never changes, and a completed task never does, although records are
\* stored blindly by the worker and the reapers.
Implements == Task!Spec

\* A completed task has told the fate of every component that was to be read,
\* or for which a control was to be set, and nothing in it is pending, whatever
\* HSM knows of the components and whichever requests have failed.  It is not
\* silent of a limit that was set, not even on a component that it says has
\* failed because HSM answered only in part.
ReportComplete ==
    rec.zip /\ ~closing /\ errs = 0 =>
        /\ \A c \in Comp : type = "snapshot" \/ DOMAIN want[c] # {}
              => \E k \in Subject : rec.report[<<c, k>>] # "none"
        /\ \A o \in Op : rec.report[o] \notin {"new", "in-progress"}
        /\ \A c \in Comp, k \in Ctl :
              hw[c][k] # -1 => rec.report[<<c, "node">>] \in {"Succeeded", "failed"}

\* Once the record is gone and nobody is at work, no operation is left under
\* its ID, where nothing would ever look for it again.  (It is if the worker
\* dies after its record has expired.)
NoOrphanOps ==
    rec.status = "none" /\ (\A a \in Actor : pc[a] = "idle")
        /\ errs = 0 /\ ~(expired /\ crashes > 0) => ops = NoOps

\* A limit that has been set was asked for, is one the control allows, and is
\* not on a management node or on anything but a node: capping those is
\* dangerous to the system.
SafeLimits ==
    \A c \in Comp, k \in Ctl : hw[c][k] # -1 =>
        /\ inv[c].check \notin {"management", "notNode"}
        /\ k \in Known(c) /\ hw[c][k] = want[c][k]
        /\ \/ hw[c][k] = 0
           \/ /\ inv[c].caps[k].min = -1 \/ hw[c][k] >= inv[c].caps[k].min
              /\ inv[c].caps[k].max = -1 \/ hw[c][k] <= inv[c].caps[k].max

\* Every record is purged in the end, also when its pod died, when it was
\* expired while the task was still running and the worker stored it again, and
\* when a deletion failed.
Purged == <>[](rec.status = "none")
=============================================================================
