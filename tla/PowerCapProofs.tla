---------------------------- MODULE PowerCapProofs ----------------------------
(***************************************************************************)
(* Theorems about PowerCap for every set of components, controls and pods, *)
(* every request, every inventory and every bound.                         *)
(***************************************************************************)
EXTENDS PowerCap, TLAPS

-----------------------------------------------------------------------------
(* The inductive invariants *)

\* The worker has not yet stored the completed record.
Working == pc[Worker] \in {"start", "gen", "send", "cget", "cstore"}

\* A reaper that has not seen a completed record.
Fresh(p) == pc[p] = "idle" \/ (pc[p] = "got" /\ seen[p].status # "completed")

Request == /\ inv \in Inventories
           /\ \/ type = "snapshot" /\ want = [c \in Comp |-> <<>>]
              \/ type = "patch" /\ want \in Wants

Types == /\ TypeOK /\ Request /\ hw \in [Comp -> [Ctl -> Int]]
         /\ pc[Worker] \in {"idle", "start", "gen", "send", "cget", "cstore", "cdel"}

\* What the worker has still to store and to ask for.
Drained  == /\ pc[Worker] \notin {"gen"} => todo = {}
            /\ pc[Worker] \notin {"gen", "send"} => out = {}
Apart    == /\ \A t, u \in todo : t.id = u.id => t = u
            /\ \A t \in todo : /\ t.id \notin out /\ ops[t.id] = "none"
                               /\ t.st \notin {"none", "new"}
                               /\ t.st = "in-progress" => Verdict(t.id[1]) = "in-progress"
            /\ \A o \in out : /\ ops[o] \in {"none", "in-progress"}
                              /\ Verdict(o[1]) = "in-progress"
Unborn   == /\ ~born => rec.status = "none" /\ \A a \in Actor : pc[a] = "idle"
            /\ ~born \/ pc[Worker] = "start" => ops = NoOps

Plan == Drained /\ Apart /\ Unborn

\* Until it expires, the record of a running task is the worker's alone.
Underway == ~expired /\ Working => /\ rec.status \in {"new", "in-progress"} /\ ~rec.zip
                                   /\ \A p \in Pod : Fresh(p)
Closed   == /\ expired => closing
            /\ \A p \in Pod : pc[p] \in {"edel", "pdel"} => closing
Aged     == rec.status = "completed" /\ ~rec.zip => Legacy /\ pc[Worker] = "idle"
Stages == Underway /\ Closed /\ Aged

\* Records of an older version are met by one reaper only.
Tidy == Legacy => Pod = {Home}

\* What is moved into the record is what there is.
Copied == ~closing => /\ \A a \in Actor : /\ pc[a] = "cstore" => lst[a] = ops
                                          /\ pc[a] = "cdel" => rec.zip
                      /\ \A p \in Pod : \/ pc[p] \in {"cget", "cstore"}
                                        \/ pc[p] = "got" /\ seen[p].status = "completed"
                                                         /\ ~seen[p].zip
                            => rec.status = "completed" /\ ~rec.zip

\* The report.
Demanded(c) == type = "snapshot" \/ DOMAIN want[c] # {}
Tells(r)    == \A c \in Comp : Demanded(c) => \E k \in Subject : r[<<c, k>>] # "none"
Settled(r)  == \A o \in Op : r[o] \notin {"new", "in-progress"}

Told ==
    ~closing /\ errs = 0 =>
        /\ pc[Worker] = "gen" =>
              \A c \in Comp : Demanded(c) =>
                 \E k \in Subject : \/ ops[<<c, k>>] # "none"
                                    \/ \E t \in todo : t.id = <<c, k>>
        /\ pc[Worker] \in {"send", "cget", "cstore"} => Tells(ops)
        /\ pc[Worker] \in {"gen", "send", "cget", "cstore"} =>
              \A o \in Op : ops[o] \in {"new", "in-progress"} => o \in out
        /\ rec.status = "completed" /\ ~rec.zip => Tells(ops) /\ Settled(ops)

Reported ==
    rec.zip /\ ~closing /\ errs = 0 =>
        /\ \A c \in Comp : type = "snapshot" \/ DOMAIN want[c] # {}
              => \E k \in Subject : rec.report[<<c, k>>] # "none"
        /\ \A o \in Op : rec.report[o] \notin {"new", "in-progress"}

\* A patch sends one operation per component, and once a limit is set that
\* operation has an outcome, in etcd or in the report.
Outcome == {"Succeeded", "failed"}
Single  == type = "patch" => /\ \A o \in out : o[2] = "node"
                             /\ \A t \in todo : t.st = "in-progress" => t.id[2] = "node"
Shown   == ~closing /\ errs = 0 =>
              \A c \in Comp, k \in Ctl : hw[c][k] # -1 =>
                 (IF rec.zip THEN rec.report ELSE ops)[<<c, "node">>] \in Outcome
Capped  == Single /\ Shown /\ (rec.zip => rec.status = "completed")

\* Who will delete the operations that are left.
Covers(a) == \A o \in Op : ops[o] # "none" => lst[a][o] # "none"
Busy      == pc[Worker] \in {"gen", "send", "cget", "cstore", "cdel"}

Clean     == /\ \A p \in Pod : pc[p] \in {"edel", "pdel"} => Covers(p)
             /\ rec.status = "none" => ops = NoOps

Swept ==
    errs = 0 => /\ pc[Worker] \in {"cstore", "cdel"} => Covers(Worker)
                /\ ~expired \/ (crashes = 0 /\ ~Busy) => Clean

-----------------------------------------------------------------------------
(* Type correctness *)

LEMMA NoOpsType == NoOps \in OpDB
BY DEF NoOps, OpDB, OpStatus

LEMMA PlainType ==
    ASSUME NEW s \in {"none", "new", "in-progress", "completed"}
    PROVE  Plain(s) \in Record
BY NoOpsType DEF Plain, Record

LEMMA WorkerIsActor == Worker \in Actor /\ Worker \notin Pod /\ Pod \subseteq Actor
BY CapAssumption DEF Actor

\* Counters.
LEMMA ErrsType ==
    ASSUME TypeOK, Error \/ NoError
    PROVE  errs' \in 0..MaxErr
BY CapAssumption DEF TypeOK, Error, NoError

LEMMA FaultsType ==
    ASSUME TypeOK, Fault \/ NoFault
    PROVE  faults' \in 0..MaxFault
BY CapAssumption DEF TypeOK, Fault, NoFault

LEMMA VerdictValues ==
    ASSUME NEW c
    PROVE  /\ Verdict(c) \in {"failed", "Unsupported", "in-progress", "new"}
           /\ Verdict(c) = "new" => type # "snapshot" /\ Known(c) = {}
BY DEF Verdict

\* A set of operations on c that doPowerCapTask may store: on the component or
\* on its controls, each under its own ID and none of them left as new; only one on
\* the component as a whole sets limits.
Sound(c, S) ==
    /\ \A t \in S :
          \E k \in Subject, st \in {"failed", "Unsupported", "in-progress"} :
             /\ t = [id |-> <<c, k>>, st |-> st]
             /\ st = "in-progress" => /\ Verdict(c) = "in-progress"
                                      /\ type = "patch" => k = "node"
    /\ \A t, u \in S : t.id = u.id => t = u

\* An operation on a component whose data could be had is not a "lookup".
NoLookup(S) == \A t \in S : t.id[2] # "lookup"

LEMMA SubjectSets ==
    /\ Ctl \subseteq Subject /\ {"node", "lookup"} \subseteq Subject
    /\ "lookup" \notin Ctl /\ "node" \notin Ctl
BY CapAssumption DEF Subject

LEMMA GeneratedOps ==
    ASSUME Request, NEW c \in Comp
    PROVE  Sound(c, Generated(c)) /\ NoLookup(Generated(c))
           /\ (Demanded(c) => Generated(c) # {})
<1>1. /\ DOMAIN inv[c].caps \subseteq Ctl /\ DOMAIN want[c] \subseteq Ctl
      /\ inv[c].schema = "controls" => DOMAIN inv[c].caps # {}
      /\ type = "snapshot" \/ type = "patch"
  BY CapAssumption DEF Request
<1>2. CASE type = "snapshot"
  <2> DEFINE K == IF inv[c].schema = "controls" THEN DOMAIN inv[c].caps ELSE {"node"}
  <2>1. Generated(c) = {[id |-> <<c, k>>, st |-> Verdict(c)] : k \in K}
    BY <1>2 DEF Generated, Operations
  <2>2. K \subseteq Subject /\ K # {} /\ "lookup" \notin K
    BY <1>1, SubjectSets
  <2>3. Verdict(c) \in {"failed", "Unsupported", "in-progress"}
    BY <1>2, VerdictValues
  <2> HIDE DEF K
  <2>4. \A t, u \in Generated(c) : t.id = u.id => t = u
    BY <2>1
  <2>5. Generated(c) # {}
    BY <2>1, <2>2
  <2>7. ASSUME NEW t \in Generated(c)
        PROVE  t.id[2] # "lookup"
    <3>1. PICK k \in K : t = [id |-> <<c, k>>, st |-> Verdict(c)]
      BY <2>1
    <3>2. t.id = <<c, k>> /\ k # "lookup"
      BY <2>2, <3>1
    <3> QED BY <3>2
  <2>6. ASSUME NEW t \in Generated(c)
        PROVE  \E k \in Subject : t = [id |-> <<c, k>>, st |-> Verdict(c)]
    BY <2>1, <2>2
  <2> QED BY <1>2, <2>3, <2>4, <2>5, <2>6, <2>7 DEF Sound, NoLookup
<1>3. CASE type = "patch"
  <2> DEFINE K == DOMAIN want[c] \ DOMAIN inv[c].caps
  <2> DEFINE N == IF Known(c) = {} THEN {} ELSE {"node"}
  <2>1. Generated(c) = {[id |-> <<c, k>>, st |-> "failed"] : k \in K}
                         \cup {[id |-> <<c, k>>, st |-> Verdict(c)] : k \in N}
    BY <1>3 DEF Generated, Operations
  <2>2. K \subseteq Ctl /\ N \subseteq {"node"}
    BY <1>1
  <2>3. N # {} => Verdict(c) \in {"failed", "Unsupported", "in-progress"}
    BY VerdictValues
  <2>4. DOMAIN want[c] # {} => K # {} \/ N # {}
    BY DEF Known
  <2> HIDE DEF K, N
  <2>5. \A t, u \in Generated(c) : t.id = u.id => t = u
    BY <2>1, <2>2, SubjectSets
  <2>6. Demanded(c) => Generated(c) # {}
    BY <1>3, <2>1, <2>4 DEF Demanded
  <2>7. ASSUME NEW t \in Generated(c)
        PROVE  t.id[2] # "lookup"
    <3>1. PICK k \in K \cup N : t.id = <<c, k>>
      BY <2>1
    <3>2. k # "lookup"
      BY <2>2, SubjectSets
    <3> QED BY <3>1, <3>2
  <2>8. ASSUME NEW t \in Generated(c)
        PROVE  \E k \in Subject, st \in {"failed", "Unsupported", "in-progress"} :
                  /\ t = [id |-> <<c, k>>, st |-> st]
                  /\ st = "in-progress" => Verdict(c) = "in-progress" /\ k = "node"
    <3>1. CASE \E k \in K : t = [id |-> <<c, k>>, st |-> "failed"]
      BY <2>2, <3>1, SubjectSets
    <3>2. CASE \E k \in N : t = [id |-> <<c, k>>, st |-> Verdict(c)]
      BY <2>2, <2>3, <3>2, SubjectSets
    <3> QED BY <2>1, <3>1, <3>2
  <2> QED BY <2>5, <2>6, <2>7, <2>8 DEF Sound, NoLookup
<1> QED BY <1>1, <1>2, <1>3

LEMMA BareOps ==
    ASSUME Request, NEW c \in Comp
    PROVE  Sound(c, Bare(c)) /\ NoLookup(Bare(c)) /\ (Demanded(c) => Bare(c) # {})
<1> DEFINE K == IF type = "snapshot" THEN {"node"} ELSE DOMAIN want[c]
<1>1. Bare(c) = {[id |-> <<c, k>>, st |-> "failed"] : k \in K}
  BY DEF Bare, Operations
<1>2. K \subseteq Subject /\ "lookup" \notin K /\ (Demanded(c) => K # {})
  <2>1. CASE type = "snapshot"
    BY <2>1, SubjectSets
  <2>2. CASE type = "patch"
    BY <2>2, CapAssumption, SubjectSets DEF Request, Demanded
  <2> QED BY <2>1, <2>2 DEF Request
<1> HIDE DEF K
<1>3. ASSUME NEW t \in Bare(c)
      PROVE  t.id[2] # "lookup" /\ \E k \in Subject : t = [id |-> <<c, k>>, st |-> "failed"]
  <2>1. PICK k \in K : t = [id |-> <<c, k>>, st |-> "failed"]
    BY <1>1
  <2>2. t.id = <<c, k>> /\ k \in Subject /\ k # "lookup"
    BY <1>2, <2>1
  <2> QED BY <2>1, <2>2
<1>4. Demanded(c) => Bare(c) # {}
  BY <1>1, <1>2
<1>5. \A t, u \in Bare(c) : t.id = u.id => t = u
  BY <1>1
<1> QED BY <1>3, <1>4, <1>5 DEF Sound, NoLookup

\* What doPowerCapTask stores of a component, whatever HSM has answered: at
\* least one operation if something is asked of the component.
LEMMA PlannedOps ==
    ASSUME Request, NEW c \in Comp, NEW hsm \in FillHSMData
    PROVE  Sound(c, Planned(c, hsm)) /\ (Demanded(c) => Planned(c, hsm) # {})
<1> DEFINE L == IF Refused(c, hsm) THEN Operations(c, {"lookup"}, "failed") ELSE {}
<1> DEFINE G == IF c \in hsm.filled THEN Generated(c)
                ELSE IF c \in hsm.comps THEN Bare(c) ELSE {}
<1>1. Planned(c, hsm) = L \cup G
  BY DEF Planned
<1>2. \A t \in L : t = [id |-> <<c, "lookup">>, st |-> "failed"]
  BY DEF Operations
<1>3. Sound(c, G) /\ NoLookup(G)
  BY GeneratedOps, BareOps DEF Sound, NoLookup
<1>4. Demanded(c) => L # {} \/ G # {}
  <2>1. CASE Refused(c, hsm)
    BY <2>1 DEF Operations
  <2>2. CASE ~Refused(c, hsm)
    <3>1. c \in hsm.comps
      BY <2>2 DEF Refused
    <3> QED BY <3>1, GeneratedOps, BareOps
  <2> QED BY <2>1, <2>2
<1> HIDE DEF L, G
<1>5. ASSUME NEW t \in L, NEW u \in G
      PROVE  t.id # u.id
  BY <1>2, <1>3 DEF NoLookup
<1>6. \A t, u \in L \cup G : t.id = u.id => t = u
  BY <1>2, <1>3, <1>5 DEF Sound
<1>7. ASSUME NEW t \in L
      PROVE  \E k \in Subject, st \in {"failed", "Unsupported", "in-progress"} :
                t = [id |-> <<c, k>>, st |-> st] /\ st # "in-progress"
  BY <1>2, SubjectSets
<1>8. Sound(c, L \cup G)
  BY <1>3, <1>6, <1>7 DEF Sound
<1> QED BY <1>1, <1>4, <1>8

LEMMA PlannedType ==
    ASSUME Request, NEW c \in Comp, NEW hsm \in FillHSMData
    PROVE  Planned(c, hsm) \subseteq [id : Op, st : OpStatus]
BY PlannedOps DEF Sound, Op, OpStatus

\* Steps of the worker before the completed record is stored.
LEMMA TriggerTypes ==
    ASSUME Types, Trigger
    PROVE  Types'
<1>1. TypeOK'
  BY ErrsType, PlainType DEF Types, TypeOK, Trigger, Goto, request
<1> QED BY <1>1, WorkerIsActor DEF Types, TypeOK, Trigger, Goto, request, Request

LEMMA BeginTypes ==
    ASSUME Types, Begin
    PROVE  Types'
<1>1. todo' \subseteq [id : Op, st : OpStatus]
  BY PlannedType DEF Begin, Types, TypeOK
<1>2. errs' \in 0..MaxErr /\ faults' \in 0..MaxFault
  BY ErrsType, FaultsType DEF Begin, Types
<1>3. pc' = [pc EXCEPT ![Worker] = "gen"] \/ pc' = [pc EXCEPT ![Worker] = "idle"]
  BY DEF Begin, Goto
<1>4. TypeOK'
  BY <1>1, <1>2, <1>3 DEF Types, TypeOK, Begin, request, history
<1> QED BY <1>3, <1>4, WorkerIsActor DEF Types, TypeOK, Begin, request, Request

LEMMA StoreOpTypes ==
    ASSUME Types, NEW t \in todo, StoreOp(t)
    PROVE  Types'
<1>1. t.id \in Op /\ t.st \in OpStatus
  BY DEF Types, TypeOK
<1>2. ops' \in OpDB /\ out' \subseteq Op /\ todo' \subseteq [id : Op, st : OpStatus]
  BY <1>1 DEF StoreOp, Types, TypeOK, OpDB
<1>3. errs' \in 0..MaxErr
  BY ErrsType DEF StoreOp, Types
<1>4. TypeOK'
  BY <1>2, <1>3 DEF Types, TypeOK, StoreOp, request, history
<1> QED BY <1>4 DEF Types, StoreOp, request, Request

LEMMA LaunchTypes ==
    ASSUME Types, Launch
    PROVE  Types'
<1>1. errs' \in 0..MaxErr
  BY ErrsType DEF Launch, Types
<1>2. pc' = [pc EXCEPT ![Worker] = "cget"] \/ pc' = [pc EXCEPT ![Worker] = "send"]
  BY DEF Launch, Goto
<1>3. rec' \in Record
  BY PlainType DEF Launch, Types, TypeOK
<1>4. TypeOK'
  BY <1>1, <1>2, <1>3 DEF Types, TypeOK, Launch, request, history
<1> QED BY <1>2, <1>4, WorkerIsActor DEF Types, TypeOK, Launch, request, Request

LEMMA SetType ==
    ASSUME Types, type = "patch", NEW c \in Comp, Set(c)
    PROVE  \E K \in SUBSET Valid(c) :
              hw' = [hw EXCEPT ![c] = [k \in Ctl |-> IF k \in K THEN want[c][k] ELSE hw[c][k]]]
<1>1. PICK K \in Payloads(c) :
             hw' = [hw EXCEPT ![c] = [k \in Ctl |-> IF k \in K THEN want[c][k] ELSE hw[c][k]]]
  BY DEF Set, Types
<1>2. K \subseteq Valid(c)
  BY DEF Payloads
<1> QED BY <1>1, <1>2

LEMMA ResponseTypes ==
    ASSUME Types, NEW o \in out, Response(o)
    PROVE  Types'
<1>1. o \in Op /\ o[1] \in Comp
  BY DEF Types, TypeOK, Op
<1>2. ops' \in OpDB
  BY <1>1 DEF Response, Types, TypeOK, OpDB, OpStatus
<1>3. errs' \in 0..MaxErr
  BY ErrsType DEF Response, Types
<1>4. faults' \in 0..MaxFault
  BY FaultsType DEF Response, Types
<1>5. hw' \in [Comp -> [Ctl -> Int]]
  <2>1. CASE type = "patch" /\ Set(o[1])
    <3>1. PICK K \in SUBSET Valid(o[1]) :
            hw' = [hw EXCEPT ![o[1]] = [k \in Ctl |-> IF k \in K THEN want[o[1]][k]
                                                                 ELSE hw[o[1]][k]]]
      BY <1>1, <2>1, SetType
    <3>2. \A k \in K : want[o[1]][k] \in Int
      BY <1>1, <2>1, CapAssumption DEF Valid, Known, Types, Request
    <3>3. [k \in Ctl |-> IF k \in K THEN want[o[1]][k] ELSE hw[o[1]][k]] \in [Ctl -> Int]
      BY <1>1, <3>2 DEF Types
    <3> QED BY <3>1, <3>3 DEF Types
  <2>2. CASE UNCHANGED hw
    BY <2>2 DEF Types
  <2> QED BY <2>1, <2>2 DEF Response, Types, Request
<1>6. TypeOK'
  BY <1>2, <1>3, <1>4 DEF Types, TypeOK, Response, request, history
<1> QED BY <1>5, <1>6 DEF Types, Response, request, Request

LEMMA AnsweredTypes ==
    ASSUME Types, Answered
    PROVE  Types'
<1>1. TypeOK'
  BY DEF Types, TypeOK, Answered, Goto, request, history
<1> QED BY <1>1, WorkerIsActor DEF Types, TypeOK, Answered, Goto, request, Request

\* compressAndCompleteTask.
LEMMA CompressTypes ==
    ASSUME Types, NEW a \in Actor, CompressGet(a) \/ CompressStore(a) \/ Compressed(a)
    PROVE  Types'
<1>1. errs' \in 0..MaxErr
  BY ErrsType DEF CompressGet, CompressStore, Compressed, NoError, Types
<1>2. lst' \in [Actor -> OpDB] /\ rec' \in Record
  <2>1. lst' \in [Actor -> OpDB]
    BY DEF CompressGet, CompressStore, Compressed, Types, TypeOK
  <2>2. [status |-> "completed", zip |-> TRUE, report |-> lst[a]] \in Record
    BY DEF Types, TypeOK, Record
  <2> QED BY <2>1, <2>2 DEF CompressGet, CompressStore, Compressed, Types, TypeOK
<1>3. \/ pc' = [pc EXCEPT ![a] = "cstore"] \/ pc' = [pc EXCEPT ![a] = "cdel"]
      \/ pc' = [pc EXCEPT ![a] = After(a)]
  BY DEF CompressGet, CompressStore, Compressed, Goto
<1>4. After(a) \in {"idle", "full"} /\ After(Worker) = "idle"
  BY DEF After
<1>5. /\ pc' \in [Actor -> {"idle", "start", "gen", "send", "cget", "cstore", "cdel",
                            "got", "full", "edel", "pdel"}]
      /\ pc'[Worker] \in {"idle", "start", "gen", "send", "cget", "cstore", "cdel"}
  BY <1>3, <1>4, WorkerIsActor DEF Types, TypeOK
<1>6. UNCHANGED <<request, ops, todo, out, seen, hw, expired, closing, history, faults>>
  BY DEF CompressGet, CompressStore, Compressed
<1>7. TypeOK'
  BY <1>1, <1>2, <1>5, <1>6 DEF Types, TypeOK, request, history
<1> QED BY <1>5, <1>6, <1>7 DEF Types, request, Request

LEMMA DeleteOpTypes ==
    ASSUME Types, NEW a \in Actor, DeleteOp(a)
    PROVE  Types'
<1>1. errs' \in 0..MaxErr
  BY ErrsType DEF DeleteOp, Types
<1>2. PICK o \in Op : /\ lst' = [lst EXCEPT ![a][o] = "none"]
                      /\ ops' = [ops EXCEPT ![o] = "none"] \/ UNCHANGED ops
  BY DEF DeleteOp
<1>3. ops' \in OpDB
  BY <1>2 DEF Types, TypeOK, OpDB, OpStatus
<1>4. lst' \in [Actor -> OpDB]
  BY <1>2 DEF Types, TypeOK, OpDB, OpStatus
<1>5. TypeOK'
  BY <1>1, <1>3, <1>4 DEF Types, TypeOK, DeleteOp, request, history
<1> QED BY <1>5 DEF Types, DeleteOp, request, Request

\* powerCapReaper.
LEMMA ReaperTypes ==
    ASSUME Types, NEW p \in Pod,
           \/ ReaperGet(p) \/ ReaperKeep(p) \/ ReaperExpired(p) \/ ReaperPrune(p)
           \/ ReaperDone(p) \/ DeleteRecord(p)
    PROVE  Types'
<1>1. errs' \in 0..MaxErr
  BY ErrsType DEF ReaperGet, ReaperKeep, ReaperExpired, ReaperPrune, ReaperDone,
                  DeleteRecord, DeleteGet, NoError, Types
<1>2. seen' \in [Pod -> [status : {"new", "in-progress", "completed"}, zip : BOOLEAN]]
  <2>1. CASE ReaperGet(p)
    BY <2>1 DEF ReaperGet, Types, TypeOK, Record
  <2>2. CASE UNCHANGED seen
    BY <2>2 DEF Types, TypeOK
  <2> QED BY <2>1, <2>2 DEF ReaperKeep, ReaperExpired, ReaperPrune, ReaperDone,
                            DeleteRecord, DeleteGet
<1>3. lst' \in [Actor -> OpDB]
  BY DEF ReaperGet, ReaperKeep, ReaperExpired, ReaperPrune, ReaperDone, DeleteRecord,
         DeleteGet, Types, TypeOK
<1>4. rec' \in Record
  BY PlainType DEF ReaperGet, ReaperKeep, ReaperExpired, ReaperPrune, ReaperDone,
                   DeleteRecord, DeleteGet, Types, TypeOK
<1>5. closing' \in BOOLEAN
  BY DEF ReaperGet, ReaperKeep, ReaperExpired, ReaperPrune, ReaperDone, DeleteRecord,
         DeleteGet, Types, TypeOK
<1>6. \E l \in {"got", "cget", "full", "idle", "edel", "pdel"} : pc' = [pc EXCEPT ![p] = l]
  BY DEF ReaperGet, ReaperKeep, ReaperExpired, ReaperPrune, ReaperDone, DeleteRecord,
         DeleteGet, Counted, Goto
<1>7. /\ pc' \in [Actor -> {"idle", "start", "gen", "send", "cget", "cstore", "cdel",
                            "got", "full", "edel", "pdel"}]
      /\ pc'[Worker] = pc[Worker]
  BY <1>6, WorkerIsActor DEF Types, TypeOK
<1>8. UNCHANGED <<request, ops, todo, out, hw, expired, history, faults>>
  BY DEF ReaperGet, ReaperKeep, ReaperExpired, ReaperPrune, ReaperDone, DeleteRecord,
         DeleteGet
<1>9. TypeOK'
  BY <1>1, <1>2, <1>3, <1>4, <1>5, <1>7, <1>8 DEF Types, TypeOK, request, history
<1> QED BY <1>7, <1>8, <1>9 DEF Types, request, Request

LEMMA CrashTypes ==
    ASSUME Types, NEW p \in Pod, Crash(p)
    PROVE  Types'
<1>1. /\ \A a \in Actor : pc'[a] = "idle" \/ pc'[a] = pc[a]
      /\ pc' = [a \in Actor |-> pc'[a]]
      /\ lst' = [a \in Actor |-> lst'[a]]
      /\ \A a \in Actor : lst'[a] = NoOps \/ lst'[a] = lst[a]
  BY DEF Crash
<1>2. /\ pc' \in [Actor -> {"idle", "start", "gen", "send", "cget", "cstore", "cdel",
                            "got", "full", "edel", "pdel"}]
      /\ lst' \in [Actor -> OpDB]
  BY <1>1, NoOpsType DEF Types, TypeOK
<1>3. crashes' \in 0..MaxCrash
  BY CapAssumption DEF Crash, Types, TypeOK
<1>4. TypeOK'
  BY <1>2, <1>3 DEF Types, TypeOK, Crash, request
<1> QED BY <1>1, <1>4, WorkerIsActor DEF Types, Crash, request, Request

LEMMA ExpireTypes ==
    ASSUME Types, Expire
    PROVE  Types'
<1>1. TypeOK'
  BY DEF Types, TypeOK, Expire, request, history
<1> QED BY <1>1 DEF Types, Expire, request, Request

LEMMA InitTypes ==
    ASSUME Init
    PROVE  Types
<1>1. Request
  BY DEF Init, Request
<1>2. ops \in OpDB
  <2>1. CASE ops = NoOps
    BY <2>1, NoOpsType
  <2>2. CASE ops # NoOps
    <3>1. PICK hsm \in FillHSMData :
            ops = Ended(UNION {Planned(c, hsm) : c \in Comp})
      BY <2>2 DEF Init
    <3> DEFINE T == UNION {Planned(c, hsm) : c \in Comp}
    <3>2. T \subseteq [id : Op, st : OpStatus]
      BY <1>1, PlannedType
    <3> HIDE DEF T
    <3>3. ASSUME NEW o \in Op, \E t \in T : t.id = o
          PROVE  (CHOOSE t \in T : t.id = o).st \in OpStatus
      BY <3>2, <3>3
    <3>4. ops = Ended(T)
      BY <3>1 DEF T
    <3> QED BY <3>3, <3>4 DEF Ended, OpDB, OpStatus
  <2> QED BY <2>1, <2>2
<1>3. rec \in Record
  BY PlainType DEF Init
<1>4. lst \in [Actor -> OpDB]
  BY NoOpsType DEF Init
<1>5. TypeOK
  <2>1. pc \in [Actor -> {"idle"}] /\ todo = {} /\ out = {} /\ type \in Type
    BY DEF Init, Type
  <2>2. seen \in [Pod -> [status : {"new", "in-progress", "completed"}, zip : BOOLEAN]]
    BY DEF Init
  <2>3. /\ expired \in BOOLEAN /\ born \in BOOLEAN /\ closing \in BOOLEAN
        /\ crashes = 0 /\ errs = 0 /\ faults = 0
    BY DEF Init
  <2> QED BY <1>2, <1>3, <1>4, <2>1, <2>2, <2>3, CapAssumption DEF TypeOK
<1> QED BY <1>1, <1>5, WorkerIsActor DEF Init, Types

LEMMA StutterTypes ==
    ASSUME Types, UNCHANGED vars
    PROVE  Types'
BY DEF vars, Types, TypeOK, Request, request, history

LEMMA NextTypes ==
    ASSUME Types, [Next]_vars
    PROVE  Types'
<1>1. CASE WorkerStep
  BY <1>1, BeginTypes, LaunchTypes, AnsweredTypes, CompressTypes, DeleteOpTypes,
     StoreOpTypes, ResponseTypes, WorkerIsActor DEF WorkerStep, Compress
<1>2. CASE \E p \in Pod : ReaperStep(p) \/ Crash(p)
  BY <1>2, ReaperTypes, CompressTypes, DeleteOpTypes, CrashTypes, WorkerIsActor
     DEF ReaperStep, Compress
<1> QED BY <1>1, <1>2, TriggerTypes, ExpireTypes, StutterTypes DEF Next

\* Every reachable state of a task is well formed, whatever is requested and
\* whatever HSM knows: only operations of the request's components are ever
\* stored, sent or deleted.
THEOREM TypeCorrect == Spec => []TypeOK
<1>1. Spec => []Types
  BY InitTypes, NextTypes, PTL DEF Spec
<1>2. Types => TypeOK
  BY DEF Types
<1> QED BY <1>1, <1>2, PTL

-----------------------------------------------------------------------------
(* The worker's plan, and the limits that are set *)

LEMMA SameRequest ==
    ASSUME UNCHANGED request
    PROVE  /\ Request' <=> Request
           /\ \A c : Verdict(c)' = Verdict(c) /\ Known(c)' = Known(c)
           /\ \A c : Demanded(c)' <=> Demanded(c)
BY DEF request, Request, Verdict, Valid, Known, Demanded

LEMMA AllNone ==
    ASSUME NEW r \in OpDB
    PROVE  r = NoOps <=> \A o \in Op : r[o] = "none"
BY DEF OpDB, NoOps

\* Steps that leave the worker's lists alone: operations may disappear.
LEMMA PlanFrame ==
    ASSUME Types, Types', Plan, UNCHANGED <<request, todo, out, born>>,
           ~born => rec'.status = "none" /\ \A a \in Actor : pc'[a] = "idle",
           \A o \in Op : ops'[o] = ops[o] \/ ops'[o] = "none",
           \/ pc'[Worker] = pc[Worker]
           \/ pc[Worker] \in {"cget", "cstore", "cdel"} /\ pc'[Worker] \in {"cstore", "cdel", "idle"}
    PROVE  Plan'
<1>1. Drained'
  BY DEF Plan, Drained
<1>2. Apart'
  <2>1. todo \subseteq [id : Op, st : OpStatus] /\ out \subseteq Op
    BY DEF Types, TypeOK
  <2>2. \A c : Verdict(c)' = Verdict(c)
    BY SameRequest
  <2> QED BY <2>1, <2>2 DEF Plan, Apart
<1>3. Unborn'
  <2>1. ops \in OpDB /\ ops' \in OpDB
    BY DEF Types, TypeOK
  <2>2. ops = NoOps => ops' = NoOps
    BY <2>1, AllNone
  <2> QED BY <2>2 DEF Plan, Unborn
<1> QED BY <1>1, <1>2, <1>3 DEF Plan

LEMMA TriggerPlan ==
    ASSUME Types, Plan, Trigger
    PROVE  Plan'
<1>1. /\ UNCHANGED <<request, ops, todo, out>> /\ ~born /\ born'
      /\ pc' = [pc EXCEPT ![Worker] = "start"] \/ UNCHANGED pc
  BY DEF Trigger, Goto
<1>2. todo = {} /\ out = {} /\ ops = NoOps
  BY <1>1, WorkerIsActor DEF Plan, Unborn, Drained
<1> QED BY <1>1, <1>2 DEF Plan, Unborn, Drained, Apart

LEMMA BeginPlan ==
    ASSUME Types, Plan, Begin
    PROVE  Plan'
<1>1. /\ UNCHANGED <<request, ops, out, born, rec>> /\ pc[Worker] = "start"
      /\ \/ /\ pc' = [pc EXCEPT ![Worker] = "idle"] /\ UNCHANGED todo
         \/ /\ pc' = [pc EXCEPT ![Worker] = "gen"]
            /\ \E hsm \in FillHSMData : todo' = UNION {Planned(c, hsm) : c \in Comp}
  BY DEF Begin, Goto, history
<1>2. todo = {} /\ out = {} /\ ops = NoOps /\ born
  BY <1>1, WorkerIsActor DEF Plan, Unborn, Drained
<1>3. pc'[Worker] = "idle" \/ pc'[Worker] = "gen"
  BY <1>1, WorkerIsActor DEF Types, TypeOK
<1>4. Drained'
  BY <1>1, <1>2, WorkerIsActor DEF Drained, Types, TypeOK
<1>5. Apart'
  <2>1. CASE todo' = {}
    BY <1>1, <1>2, <2>1 DEF Apart
  <2>2. CASE todo' # {}
    <3>1. PICK hsm \in FillHSMData : todo' = UNION {Planned(c, hsm) : c \in Comp}
      BY <1>1, <1>2, <2>2
    <3>2. Request /\ \A c : Verdict(c)' = Verdict(c)
      BY <1>1, SameRequest DEF Types
    <3>3. ASSUME NEW t \in todo'
          PROVE  \E c \in Comp, k \in Subject :
                    /\ t \in Planned(c, hsm) /\ t.id = <<c, k>>
                    /\ t.st \in {"failed", "Unsupported", "in-progress"}
                    /\ t.st = "in-progress" => Verdict(c) = "in-progress"
      <4>1. PICK c \in Comp : t \in Planned(c, hsm)
        BY <3>1
      <4>2. PICK k \in Subject, st \in {"failed", "Unsupported", "in-progress"} :
                    /\ t = [id |-> <<c, k>>, st |-> st]
                    /\ st = "in-progress" => Verdict(c) = "in-progress"
        BY <3>2, <4>1, PlannedOps DEF Sound
      <4> QED BY <4>1, <4>2
    <3>4. \A t \in todo' : /\ t.id \in Op /\ t.st \notin {"none", "new"}
                           /\ t.st = "in-progress" => Verdict(t.id[1]) = "in-progress"
      BY <3>3 DEF Op
    <3>5. ASSUME NEW t \in todo', NEW u \in todo', t.id = u.id
          PROVE  t = u
      <4>1. PICK c \in Comp, k \in Subject : t \in Planned(c, hsm) /\ t.id = <<c, k>>
        BY <3>3
      <4>2. PICK d \in Comp, l \in Subject : u \in Planned(d, hsm) /\ u.id = <<d, l>>
        BY <3>3
      <4>3. <<c, k>> = <<d, l>>
        BY <3>5, <4>1, <4>2
      <4>4. c = d
        BY <4>3
      <4> QED BY <3>2, <3>5, <4>1, <4>2, <4>4, PlannedOps DEF Sound
    <3>6. \A t \in todo' : ops'[t.id] = "none" /\ t.id \notin out'
      BY <1>1, <1>2, <3>4 DEF NoOps
    <3> QED BY <1>1, <1>2, <3>2, <3>4, <3>5, <3>6 DEF Apart
  <2> QED BY <2>1, <2>2
<1>6. Unborn'
  BY <1>1, <1>2, <1>3 DEF Unborn
<1> QED BY <1>4, <1>5, <1>6 DEF Plan

LEMMA StoreOpPlan ==
    ASSUME Types, Plan, NEW t \in todo, StoreOp(t)
    PROVE  Plan'
<1>1. /\ UNCHANGED <<request, born, rec, pc>> /\ pc[Worker] = "gen"
      /\ todo' = todo \ {t}
      /\ out' = IF t.st = "in-progress" THEN out \cup {t.id} ELSE out
      /\ ops' = [ops EXCEPT ![t.id] = t.st] \/ UNCHANGED ops
  BY DEF StoreOp, history
<1>2. born
  BY <1>1, WorkerIsActor DEF Plan, Unborn
<1>3. Drained' /\ Unborn'
  BY <1>1, <1>2 DEF Drained, Unborn
<1>4. \A c : Verdict(c)' = Verdict(c)
  BY <1>1, SameRequest
<1>5. t.id \in Op /\ todo \subseteq [id : Op, st : OpStatus] /\ out \subseteq Op /\ ops \in OpDB
  BY DEF Types, TypeOK
<1>6. /\ ops'[t.id] = t.st \/ ops'[t.id] = "none"
      /\ \A o \in Op : o # t.id => ops'[o] = ops[o]
  BY <1>1, <1>5 DEF OpDB, Plan, Apart
<1>7. Apart'
  <2>1. \A u, v \in todo' : u.id = v.id => u = v
    BY <1>1 DEF Plan, Apart
  <2>2. ASSUME NEW u \in todo'
        PROVE  /\ u.id \notin out' /\ ops'[u.id] = "none" /\ u.st \notin {"none", "new"}
               /\ u.st = "in-progress" => Verdict(u.id[1]) = "in-progress"
    <3>1. u \in todo /\ u.id # t.id /\ u.id \in Op
      BY <1>1, <1>5, <2>2 DEF Plan, Apart
    <3> QED BY <1>1, <1>6, <3>1 DEF Plan, Apart
  <2>3. ASSUME NEW o \in out'
        PROVE  ops'[o] \in {"none", "in-progress"} /\ Verdict(o[1]) = "in-progress"
    <3>1. CASE o = t.id /\ t.st = "in-progress"
      BY <1>6, <3>1 DEF Plan, Apart
    <3>2. CASE o \in out
      BY <1>5, <1>6, <3>2 DEF Plan, Apart
    <3> QED BY <1>1, <2>3, <3>1, <3>2
  <2> QED BY <1>4, <2>1, <2>2, <2>3 DEF Apart
<1> QED BY <1>3, <1>7 DEF Plan

LEMMA LaunchPlan ==
    ASSUME Types, Plan, Launch
    PROVE  Plan'
<1>1. /\ UNCHANGED <<request, born, ops, todo, out>> /\ pc[Worker] = "gen" /\ todo = {}
      /\ \/ out = {} /\ pc' = [pc EXCEPT ![Worker] = "cget"]
         \/ out # {} /\ pc' = [pc EXCEPT ![Worker] = "send"]
  BY DEF Launch, Goto, history
<1>2. born
  BY <1>1, WorkerIsActor DEF Plan, Unborn
<1>3. Drained' /\ Unborn'
  BY <1>1, <1>2, WorkerIsActor DEF Drained, Unborn, Types, TypeOK
<1>4. Apart'
  BY <1>1, SameRequest DEF Plan, Apart
<1> QED BY <1>3, <1>4 DEF Plan

LEMMA ResponsePlan ==
    ASSUME Types, Plan, NEW o \in out, Response(o)
    PROVE  Plan'
<1>1. /\ UNCHANGED <<request, born, rec, pc, todo>> /\ pc[Worker] = "send"
      /\ out' = out \ {o}
      /\ \/ \E st \in {"Succeeded", "failed"} : ops' = [ops EXCEPT ![o] = st]
         \/ UNCHANGED ops
  BY DEF Response, history
<1>2. born /\ todo = {}
  BY <1>1, WorkerIsActor DEF Plan, Unborn, Drained
<1>3. Drained' /\ Unborn'
  BY <1>1, <1>2 DEF Plan, Drained, Unborn
<1>4. \A d \in Op : d # o => ops'[d] = ops[d]
  BY <1>1 DEF Types, TypeOK, OpDB
<1>5. Apart'
  <2>1. \A d \in out' : d \in out /\ d # o /\ d \in Op
    BY <1>1 DEF Types, TypeOK
  <2>2. \A c : Verdict(c)' = Verdict(c)
    BY <1>1, SameRequest
  <2> QED BY <1>1, <1>2, <1>4, <2>1, <2>2 DEF Plan, Apart
<1> QED BY <1>3, <1>5 DEF Plan

LEMMA AnsweredPlan ==
    ASSUME Types, Plan, Answered
    PROVE  Plan'
<1>1. /\ UNCHANGED <<request, born, ops, todo, out>> /\ pc[Worker] = "send" /\ out = {}
      /\ pc' = [pc EXCEPT ![Worker] = "cget"]
  BY DEF Answered, Goto, history
<1>2. born /\ todo = {}
  BY <1>1, WorkerIsActor DEF Plan, Unborn, Drained
<1>3. Drained' /\ Unborn'
  BY <1>1, <1>2, WorkerIsActor DEF Drained, Unborn, Types, TypeOK
<1>4. Apart'
  BY <1>1, <1>2 DEF Apart
<1> QED BY <1>3, <1>4 DEF Plan

LEMMA CompressPlan ==
    ASSUME Types, Types', Plan, NEW a \in Actor,
           CompressGet(a) \/ CompressStore(a) \/ DeleteOp(a) \/ Compressed(a)
    PROVE  Plan'
<1>1. /\ UNCHANGED <<request, todo, out, born>> /\ pc[a] # "idle"
      /\ \/ UNCHANGED pc
         \/ pc[a] \in {"cget", "cstore", "cdel"} /\ pc' = [pc EXCEPT ![a] = "cstore"]
         \/ pc[a] \in {"cget", "cstore", "cdel"} /\ pc' = [pc EXCEPT ![a] = "cdel"]
         \/ pc[a] \in {"cget", "cstore", "cdel"} /\ pc' = [pc EXCEPT ![a] = After(a)]
  BY DEF CompressGet, CompressStore, DeleteOp, Compressed, Goto, history
<1>2. \A o \in Op : ops'[o] = ops[o] \/ ops'[o] = "none"
  <2>1. CASE UNCHANGED ops
    BY <2>1
  <2>2. CASE \E o \in Op : ops' = [ops EXCEPT ![o] = "none"]
    BY <2>2 DEF Types, TypeOK, OpDB
  <2> QED BY <2>1, <2>2 DEF CompressGet, CompressStore, DeleteOp, Compressed
<1>3. born
  BY <1>1 DEF Plan, Unborn
<1>4. \/ pc'[Worker] = pc[Worker]
      \/ pc[Worker] \in {"cget", "cstore", "cdel"} /\ pc'[Worker] \in {"cstore", "cdel", "idle"}
  <2>1. CASE a = Worker
    BY <1>1, <2>1 DEF After, Types, TypeOK
  <2>2. CASE a # Worker
    BY <1>1, <2>2, WorkerIsActor DEF Types, TypeOK
  <2> QED BY <2>1, <2>2
<1> QED BY <1>1, <1>2, <1>3, <1>4, PlanFrame

LEMMA ReaperPlan ==
    ASSUME Types, Types', Plan, NEW p \in Pod,
           \/ ReaperGet(p) \/ ReaperKeep(p) \/ ReaperExpired(p) \/ ReaperPrune(p)
           \/ ReaperDone(p) \/ DeleteRecord(p)
    PROVE  Plan'
<1>1. /\ UNCHANGED <<request, todo, out, born, ops>>
      /\ rec.status # "none" \/ pc[p] # "idle"
  BY DEF ReaperGet, ReaperKeep, ReaperExpired, ReaperPrune, ReaperDone, DeleteRecord,
         DeleteGet, history
<1>2. \E l \in {"got", "cget", "full", "idle", "edel", "pdel"} : pc' = [pc EXCEPT ![p] = l]
  BY DEF ReaperGet, ReaperKeep, ReaperExpired, ReaperPrune, ReaperDone, DeleteRecord,
         DeleteGet, Counted, Goto
<1>3. pc'[Worker] = pc[Worker]
  BY <1>2, WorkerIsActor DEF Types, TypeOK
<1>4. born
  BY <1>1, WorkerIsActor DEF Plan, Unborn
<1> QED BY <1>1, <1>3, <1>4, PlanFrame

LEMMA CrashPlan ==
    ASSUME Types, Types', Plan, NEW p \in Pod, Crash(p)
    PROVE  Plan'
<1>1. UNCHANGED <<request, rec, ops, born>>
  BY DEF Crash
<1>2. \A a \in Actor : pc'[a] = "idle" \/ pc'[a] = pc[a]
  BY DEF Crash
<1>3. CASE p = Home
  <2>1. todo' = {} /\ out' = {} /\ pc'[Worker] = "idle"
    BY <1>3, WorkerIsActor DEF Crash
  <2> QED BY <1>1, <1>2, <2>1 DEF Plan, Drained, Apart, Unborn
<1>4. CASE p # Home
  <2>1. UNCHANGED <<todo, out>> /\ pc'[Worker] = pc[Worker]
    BY <1>4, WorkerIsActor DEF Crash
  <2>2. ~born => rec'.status = "none" /\ \A a \in Actor : pc'[a] = "idle"
    BY <1>1, <1>2 DEF Plan, Unborn
  <2> QED BY <1>1, <2>1, <2>2, PlanFrame
<1> QED BY <1>3, <1>4

LEMMA IdlePlan ==
    ASSUME Types, Types', Plan, Expire \/ UNCHANGED vars
    PROVE  Plan'
<1>1. UNCHANGED <<request, todo, out, born, rec, ops, pc>>
  BY DEF Expire, vars, history
<1>2. ~born => rec'.status = "none" /\ \A a \in Actor : pc'[a] = "idle"
  BY <1>1 DEF Plan, Unborn
<1> QED BY <1>1, <1>2, PlanFrame

LEMMA NextPlan ==
    ASSUME Types, Plan, [Next]_vars
    PROVE  Plan'
<1>0. Types'
  BY NextTypes
<1>1. CASE WorkerStep
  BY <1>0, <1>1, BeginPlan, LaunchPlan, AnsweredPlan, CompressPlan, StoreOpPlan,
     ResponsePlan, WorkerIsActor DEF WorkerStep, Compress
<1>2. CASE \E p \in Pod : ReaperStep(p) \/ Crash(p)
  BY <1>0, <1>2, ReaperPlan, CompressPlan, CrashPlan, WorkerIsActor DEF ReaperStep, Compress
<1> QED BY <1>0, <1>1, <1>2, TriggerPlan, IdlePlan DEF Next

LEMMA InitPlan ==
    ASSUME Init
    PROVE  Plan
<1>1. Drained /\ Apart
  BY DEF Init, Drained, Apart
<1>2. Unborn
  <2>1. pc = [a \in Actor |-> "idle"] /\ (~born => rec = Plain("none") /\ ops = NoOps)
    BY DEF Init
  <2> QED BY <2>1, WorkerIsActor DEF Unborn, Plain
<1> QED BY <1>1, <1>2 DEF Plan

LEMMA SafeVerdict ==
    ASSUME NEW c, Verdict(c) = "in-progress"
    PROVE  inv[c].check \notin {"management", "notNode"}
BY DEF Verdict

\* Only a response changes a limit, and only to one of the payload.
LEMMA NextSafe ==
    ASSUME Types, Plan, SafeLimits, [Next]_vars
    PROVE  SafeLimits'
<1>1. UNCHANGED request
  BY DEF Next, Trigger, WorkerStep, Begin, StoreOp, Launch, Response, Answered, Compress,
         CompressGet, CompressStore, DeleteOp, Compressed, ReaperStep, ReaperGet, ReaperKeep,
         ReaperExpired, ReaperPrune, ReaperDone, DeleteRecord, DeleteGet, Crash, Expire, vars
<1>2. CASE UNCHANGED hw
  BY <1>1, <1>2 DEF SafeLimits, Known, request
<1>3. CASE \E o \in out : type = "patch" /\ Set(o[1])
  <2>1. PICK o \in out : type = "patch" /\ Set(o[1])
    BY <1>3
  <2> DEFINE d == o[1]
  <2>2. d \in Comp /\ Verdict(d) = "in-progress"
    BY DEF Types, TypeOK, Op, Plan, Apart
  <2>3. inv[d].check \notin {"management", "notNode"}
    BY <2>2, SafeVerdict
  <2> HIDE DEF d
  <2>4. PICK K \in SUBSET Valid(d) :
           hw' = [hw EXCEPT ![d] = [k \in Ctl |-> IF k \in K THEN want[d][k] ELSE hw[d][k]]]
    BY <2>1, <2>2, SetType DEF d
  <2>5. SUFFICES ASSUME NEW c \in Comp, NEW k \in Ctl, hw'[c][k] # -1
                 PROVE  /\ inv[c].check \notin {"management", "notNode"}
                        /\ k \in Known(c) /\ hw'[c][k] = want[c][k]
                        /\ \/ hw'[c][k] = 0
                           \/ /\ inv[c].caps[k].min = -1 \/ hw'[c][k] >= inv[c].caps[k].min
                              /\ inv[c].caps[k].max = -1 \/ hw'[c][k] <= inv[c].caps[k].max
    BY <1>1 DEF SafeLimits, Known, request
  <2>6. CASE c = d /\ k \in K
    <3>1. hw'[c][k] = want[c][k]
      BY <2>4, <2>6 DEF Types
    <3>2. k \in Known(c) /\ InRange(want[c][k], inv[c].caps[k])
      BY <2>4, <2>6 DEF Valid
    <3>3. want[c][k] \in Int /\ inv[c].caps[k].min \in Int /\ inv[c].caps[k].max \in Int
      BY <2>1, <3>2, CapAssumption DEF Known, Types, Request
    <3> QED BY <2>3, <2>6, <3>1, <3>2, <3>3 DEF InRange
  <2>7. CASE ~(c = d /\ k \in K)
    <3>1. hw'[c][k] = hw[c][k]
      BY <2>2, <2>4, <2>7 DEF Types
    <3> QED BY <2>5, <3>1 DEF SafeLimits
  <2> QED BY <2>6, <2>7
<1>4. UNCHANGED hw \/ \E o \in out : type = "patch" /\ Set(o[1])
  BY DEF Next, Trigger, WorkerStep, Begin, StoreOp, Launch, Response, Answered, Compress,
         CompressGet, CompressStore, DeleteOp, Compressed, ReaperStep, ReaperGet, ReaperKeep,
         ReaperExpired, ReaperPrune, ReaperDone, DeleteRecord, DeleteGet, Crash, Expire, vars,
         Types, Request
<1> QED BY <1>2, <1>3, <1>4

\* A limit that doPowerCapTask has set on the hardware was requested, lies in
\* the range HSM knows for the control (zero turns capping off), and is never
\* on a management node or on anything but a node: for every request and every
\* inventory, whatever fails on the way.
THEOREM LimitsAreSafe == Spec => []SafeLimits
<1>1. Init => Types /\ Plan /\ SafeLimits
  <2>1. Init => SafeLimits
    BY DEF Init, SafeLimits
  <2> QED BY <2>1, InitTypes, InitPlan
<1>2. Types /\ Plan /\ SafeLimits /\ [Next]_vars => (Types /\ Plan /\ SafeLimits)'
  BY NextTypes, NextPlan, NextSafe
<1> QED BY <1>1, <1>2, PTL DEF Spec

-----------------------------------------------------------------------------
(* The stages of a task *)

LEMMA StagesFrame ==
    ASSUME Stages, UNCHANGED rec, expired' \/ UNCHANGED expired, closing' \/ UNCHANGED closing,
           expired' /\ ~expired => closing', Working' => Working,
           ~expired /\ Working => \A p \in Pod : Fresh(p) => Fresh(p)',
           \A p \in Pod : pc'[p] \in {"edel", "pdel"} => pc'[p] = pc[p] \/ closing',
           pc[Worker] = "idle" => pc'[Worker] = "idle"
    PROVE  Stages'
<1>1. Underway'
  BY DEF Stages, Underway
<1>2. Closed'
  BY DEF Stages, Closed
<1>3. Aged'
  BY DEF Stages, Aged
<1> QED BY <1>1, <1>2, <1>3 DEF Stages

LEMMA TriggerStages ==
    ASSUME Types, Plan, Stages, Trigger
    PROVE  Stages'
<1>1. /\ UNCHANGED <<expired, closing, seen>> /\ ~born
      /\ \/ rec' = Plain("new") /\ pc' = [pc EXCEPT ![Worker] = "start"]
         \/ UNCHANGED <<rec, pc>>
  BY DEF Trigger, Goto
<1>2. \A a \in Actor : pc[a] = "idle"
  BY <1>1 DEF Plan, Unborn
<1>3. \A p \in Pod : pc'[p] = "idle"
  BY <1>1, <1>2, WorkerIsActor DEF Types, TypeOK
<1>4. CASE UNCHANGED <<rec, pc>>
  BY <1>1, <1>4, StagesFrame DEF Working, Fresh
<1>5. CASE rec' = Plain("new")
  BY <1>1, <1>3, <1>5 DEF Stages, Underway, Closed, Aged, Fresh, Plain
<1> QED BY <1>1, <1>4, <1>5

\* Steps of the worker before it stores the completed record.
LEMMA WorkStages ==
    ASSUME Types, Stages,
           \/ Begin \/ Launch \/ Answered \/ CompressGet(Worker)
           \/ (\E t \in todo : StoreOp(t)) \/ (\E o \in out : Response(o))
    PROVE  Stages'
<1>1. /\ UNCHANGED <<expired, closing, seen>> /\ Working
      /\ \E l \in {"idle", "gen", "send", "cget", "cstore"} : pc' = [pc EXCEPT ![Worker] = l]
      /\ UNCHANGED rec \/ rec' = Plain("in-progress")
  BY WorkerIsActor DEF Begin, Launch, Answered, CompressGet, StoreOp, Response, Goto, Working,
                       After, Types, TypeOK
<1>2. \A p \in Pod : pc'[p] = pc[p]
  BY <1>1, WorkerIsActor DEF Types, TypeOK
<1>3. CASE UNCHANGED rec
  BY <1>1, <1>2, <1>3, StagesFrame DEF Working, Fresh
<1>4. CASE rec' = Plain("in-progress")
  <2>1. Underway'
    BY <1>1, <1>2, <1>4 DEF Stages, Underway, Fresh, Plain
  <2>2. Closed' /\ Aged'
    BY <1>1, <1>2, <1>4 DEF Stages, Closed, Aged, Plain
  <2> QED BY <2>1, <2>2 DEF Stages
<1> QED BY <1>1, <1>3, <1>4

LEMMA CompressStoreStages ==
    ASSUME Types, Stages, NEW a \in Actor, CompressStore(a)
    PROVE  Stages'
<1>1. /\ UNCHANGED <<expired, closing, seen>> /\ pc[a] = "cstore"
      /\ \/ /\ rec' = [status |-> "completed", zip |-> TRUE, report |-> lst[a]]
            /\ pc' = [pc EXCEPT ![a] = "cdel"]
         \/ UNCHANGED rec /\ pc' = [pc EXCEPT ![a] = After(a)]
  BY DEF CompressStore, Goto
<1>2. /\ \A b \in Actor : b # a => pc'[b] = pc[b]
      /\ pc'[a] \in {"cdel", "idle", "full"}
  BY <1>1 DEF Types, TypeOK, After
<1>3. ~expired => ~Working'
  <2>1. CASE a = Worker
    BY <1>2, <2>1 DEF Working
  <2>2. CASE a # Worker
    <3>1. ~Fresh(a) /\ a \in Pod /\ pc'[Worker] = pc[Worker]
      BY <1>1, <1>2, <2>2, WorkerIsActor DEF Fresh, Actor
    <3> QED BY <3>1 DEF Stages, Underway, Working
  <2> QED BY <2>1, <2>2
<1>4. Underway'
  BY <1>1, <1>3 DEF Underway
<1>5. Closed'
  BY <1>1, <1>2, WorkerIsActor DEF Stages, Closed
<1>6. Aged'
  <2>1. CASE UNCHANGED rec
    <3>1. pc[Worker] = "idle" => pc'[Worker] = "idle"
      BY <1>1, <1>2, WorkerIsActor
    <3> QED BY <2>1, <3>1 DEF Stages, Aged
  <2>2. CASE rec'.zip
    BY <2>2 DEF Aged
  <2> QED BY <1>1, <2>1, <2>2
<1> QED BY <1>4, <1>5, <1>6 DEF Stages

LEMMA CompressStages ==
    ASSUME Types, Stages, NEW a \in Actor,
           (a \in Pod /\ CompressGet(a)) \/ DeleteOp(a) \/ Compressed(a)
    PROVE  Stages'
<1>1. /\ UNCHANGED <<rec, expired, closing, seen>>
      /\ pc[a] \in {"cget", "cdel", "edel", "pdel"}
      /\ \/ UNCHANGED pc \/ (a \in Pod /\ pc' = [pc EXCEPT ![a] = "cstore"])
         \/ pc' = [pc EXCEPT ![a] = After(a)]
  BY DEF CompressGet, DeleteOp, Compressed, Goto
<1>2. \A b \in Actor : b # a => pc'[b] = pc[b]
  BY <1>1 DEF Types, TypeOK
<1>3. pc'[a] = pc[a] \/ (pc'[a] \in {"cstore", "idle", "full"} /\ (a = Worker => pc'[a] = "idle"))
  BY <1>1, WorkerIsActor DEF Types, TypeOK, After
<1>4. pc'[Worker] = pc[Worker] \/ (pc'[Worker] = "idle" /\ pc[Worker] # "idle")
  BY <1>1, <1>2, <1>3, WorkerIsActor
<1>5. Working' => Working
  BY <1>4 DEF Working
<1>6. \A p \in Pod : Fresh(p) => Fresh(p)'
  BY <1>1, <1>2, WorkerIsActor DEF Fresh
<1>7. \A p \in Pod : pc'[p] \in {"edel", "pdel"} => pc'[p] = pc[p]
  BY <1>2, <1>3, WorkerIsActor
<1> QED BY <1>1, <1>4, <1>5, <1>6, <1>7, StagesFrame

LEMMA ReaperStages ==
    ASSUME Types, Stages, NEW p \in Pod,
           \/ ReaperGet(p) \/ ReaperKeep(p) \/ ReaperExpired(p) \/ ReaperPrune(p)
           \/ ReaperDone(p)
    PROVE  Stages'
<1>1. UNCHANGED <<rec, expired>> /\ (closing' \/ UNCHANGED closing)
  BY DEF ReaperGet, ReaperKeep, ReaperExpired, ReaperPrune, ReaperDone, DeleteGet
<1>2. \E l \in {"got", "cget", "full", "idle", "edel", "pdel"} :
         pc' = [pc EXCEPT ![p] = l] /\ (l \in {"edel", "pdel"} => closing')
  BY DEF ReaperGet, ReaperKeep, ReaperExpired, ReaperPrune, ReaperDone, DeleteGet, Counted,
         Goto
<1>3. \A a \in Actor : a # p => pc'[a] = pc[a]
  BY <1>2 DEF Types, TypeOK
<1>4. pc'[p] \in {"edel", "pdel"} => closing'
  BY <1>2, WorkerIsActor DEF Types, TypeOK
<1>5. pc'[Worker] = pc[Worker]
  BY <1>3, WorkerIsActor
<1>6. ~expired /\ Working => \A q \in Pod : Fresh(q)'
  <2>1. SUFFICES ASSUME ~expired, Working PROVE \A q \in Pod : Fresh(q)'
    OBVIOUS
  <2>2. rec.status \in {"new", "in-progress"} /\ \A q \in Pod : Fresh(q)
    BY <2>1 DEF Stages, Underway
  <2>3. \A q \in Pod : q # p => seen'[q] = seen[q]
    BY DEF ReaperGet, ReaperKeep, ReaperExpired, ReaperPrune, ReaperDone, DeleteGet,
           Types, TypeOK
  <2>4. CASE ReaperGet(p)
    <3>1. pc'[p] = "got" /\ seen'[p].status = rec.status
      BY <2>4, WorkerIsActor DEF ReaperGet, Goto, Types, TypeOK
    <3> QED BY <1>3, <2>2, <2>3, <3>1, WorkerIsActor DEF Fresh
  <2>5. CASE ReaperKeep(p)
    <3>1. pc[p] = "got" /\ seen[p].status # "completed"
      BY <2>2, <2>5 DEF ReaperKeep, Fresh
    <3>2. pc'[p] = "idle"
      BY <2>5, <3>1, WorkerIsActor DEF ReaperKeep, Counted, Goto, Types, TypeOK
    <3> QED BY <1>3, <2>2, <2>3, <3>2, WorkerIsActor DEF Fresh
  <2>6. CASE ReaperExpired(p) \/ ReaperPrune(p) \/ ReaperDone(p)
    BY <2>1, <2>2, <2>6 DEF ReaperExpired, ReaperPrune, ReaperDone, DeleteGet, Fresh
  <2> QED BY <2>4, <2>5, <2>6
<1>7. \A q \in Pod : pc'[q] \in {"edel", "pdel"} => pc'[q] = pc[q] \/ closing'
  BY <1>3, <1>4, WorkerIsActor
<1>8. Working' => Working
  BY <1>5 DEF Working
<1> QED BY <1>1, <1>5, <1>6, <1>7, <1>8, StagesFrame

LEMMA DeleteRecordStages ==
    ASSUME Types, Stages, NEW p \in Pod, DeleteRecord(p)
    PROVE  Stages'
<1>1. /\ UNCHANGED <<expired, closing, seen>> /\ pc[p] \in {"edel", "pdel"}
      /\ rec' = Plain("none") \/ UNCHANGED rec
      /\ \E l \in {"full", "idle"} : pc' = [pc EXCEPT ![p] = l]
  BY DEF DeleteRecord, Counted, Goto
<1>2. /\ \A a \in Actor : a # p => pc'[a] = pc[a]
      /\ pc'[p] \in {"full", "idle"}
  BY <1>1, WorkerIsActor DEF Types, TypeOK
<1>3. pc'[Worker] = pc[Worker]
  BY <1>2, WorkerIsActor
<1>4. ~expired => ~Working'
  <2>1. ~Fresh(p)
    BY <1>1 DEF Fresh
  <2> QED BY <1>3, <2>1 DEF Stages, Underway, Working
<1>5. Underway'
  BY <1>1, <1>4 DEF Underway
<1>6. Closed'
  BY <1>1, <1>2, WorkerIsActor DEF Stages, Closed
<1>7. Aged'
  BY <1>1, <1>3 DEF Stages, Aged, Plain
<1> QED BY <1>5, <1>6, <1>7 DEF Stages

LEMMA CrashStages ==
    ASSUME Types, Stages, NEW p \in Pod, Crash(p)
    PROVE  Stages'
<1>1. UNCHANGED <<rec, expired, closing, seen>>
  BY DEF Crash
<1>2. \A a \in Actor : pc'[a] = "idle" \/ pc'[a] = pc[a]
  BY DEF Crash
<1>3. /\ Working' => Working
      /\ pc[Worker] = "idle" => pc'[Worker] = "idle"
  BY <1>2, WorkerIsActor DEF Working
<1>4. \A q \in Pod : /\ Fresh(q) => Fresh(q)'
                     /\ pc'[q] \in {"edel", "pdel"} => pc'[q] = pc[q]
  BY <1>1, <1>2, WorkerIsActor DEF Fresh
<1> QED BY <1>1, <1>3, <1>4, StagesFrame

LEMMA IdleStages ==
    ASSUME Types, Stages, Expire \/ UNCHANGED vars
    PROVE  Stages'
<1>1. /\ UNCHANGED <<rec, pc, seen>>
      /\ (expired' /\ closing') \/ UNCHANGED <<expired, closing>>
  BY DEF Expire, vars
<1> QED BY <1>1, StagesFrame DEF Working, Fresh

LEMMA NextStages ==
    ASSUME Types, Plan, Stages, [Next]_vars
    PROVE  Stages'
<1>1. CASE WorkerStep
  BY <1>1, WorkStages, CompressStages, CompressStoreStages, WorkerIsActor
     DEF WorkerStep, Compress
<1>2. CASE \E p \in Pod : ReaperStep(p) \/ Crash(p)
  BY <1>2, ReaperStages, DeleteRecordStages, CompressStages, CompressStoreStages, CrashStages,
     WorkerIsActor DEF ReaperStep, Compress
<1> QED BY <1>1, <1>2, TriggerStages, IdleStages DEF Next

LEMMA InitStages ==
    ASSUME Init
    PROVE  Stages
<1>1. /\ pc = [a \in Actor |-> "idle"] /\ expired = FALSE
      /\ rec = Plain("none") \/ Legacy
  BY DEF Init
<1> QED BY <1>1, WorkerIsActor DEF Stages, Underway, Closed, Aged, Working, Plain

-----------------------------------------------------------------------------
(* Moving the operations into the record *)

\* Steps that leave the record and the operations alone.
LEMMA CopiedFrame ==
    ASSUME Types, Copied, UNCHANGED <<rec, ops>>, closing' \/ UNCHANGED closing,
           \A a \in Actor : \/ pc'[a] = pc[a] /\ lst'[a] = lst[a]
                            \/ pc'[a] \notin {"cstore", "cdel"},
           \A p \in Pod : \/ pc'[p] = pc[p] /\ seen'[p] = seen[p]
                          \/ pc'[p] \notin {"cget", "cstore", "got"}
                          \/ pc'[p] = "cget" /\ pc[p] = "got" /\ seen[p].status = "completed"
                                             /\ ~seen[p].zip
                          \/ pc'[p] = "got" /\ seen'[p].status = rec.status
                                            /\ seen'[p].zip = rec.zip
    PROVE  Copied'
<1>1. SUFFICES ASSUME ~closing' PROVE Copied'
  BY DEF Copied
<1>2. ~closing
  BY <1>1
<1>3. \A a \in Actor : /\ pc'[a] = "cstore" => lst'[a] = ops'
                       /\ pc'[a] = "cdel" => rec'.zip
  BY <1>2 DEF Copied
<1>4. \A p \in Pod : \/ pc'[p] \in {"cget", "cstore"}
                     \/ pc'[p] = "got" /\ seen'[p].status = "completed" /\ ~seen'[p].zip
         => rec'.status = "completed" /\ ~rec'.zip
  BY <1>2 DEF Copied
<1> QED BY <1>3, <1>4 DEF Copied

\* No reaper copies anything while the worker is at work.
LEMMA WorkingAlone ==
    ASSUME Types, Stages, Working, ~closing
    PROVE  /\ rec.status \in {"new", "in-progress"} /\ ~rec.zip
           /\ \A p \in Pod : Fresh(p)
BY DEF Stages, Underway, Closed

LEMMA TriggerCopied ==
    ASSUME Types, Plan, Copied, Trigger
    PROVE  Copied'
<1>1. /\ UNCHANGED <<ops, closing, lst, seen>> /\ ~born
      /\ \/ pc' = [pc EXCEPT ![Worker] = "start"] \/ UNCHANGED pc
  BY DEF Trigger, Goto
<1>2. \A a \in Actor : pc[a] = "idle"
  BY <1>1 DEF Plan, Unborn
<1>3. \A a \in Actor : pc'[a] \in {"idle", "start"}
  BY <1>1, <1>2 DEF Types, TypeOK
<1> QED BY <1>3, WorkerIsActor DEF Copied

LEMMA WorkCopied ==
    ASSUME Types, Stages, Copied,
           \/ Begin \/ Launch \/ Answered \/ CompressGet(Worker)
           \/ (\E t \in todo : StoreOp(t)) \/ (\E o \in out : Response(o))
    PROVE  Copied'
<1>1. SUFFICES ASSUME ~closing' PROVE Copied'
  BY DEF Copied
<1>2. /\ UNCHANGED <<closing, seen>> /\ Working
      /\ \E l \in {"idle", "gen", "send", "cget", "cstore"} :
            /\ pc' = [pc EXCEPT ![Worker] = l]
            /\ l = "cstore" => lst' = [lst EXCEPT ![Worker] = ops] /\ UNCHANGED ops
  BY WorkerIsActor DEF Begin, Launch, Answered, CompressGet, StoreOp, Response, Goto, Working,
                       After, Types, TypeOK
<1>3. /\ \A p \in Pod : pc'[p] = pc[p]
      /\ pc'[Worker] # "cdel" /\ (pc'[Worker] = "cstore" => lst'[Worker] = ops')
  BY <1>2, WorkerIsActor DEF Types, TypeOK
<1>4. \A p \in Pod : Fresh(p)
  BY <1>1, <1>2, WorkingAlone
<1> QED BY <1>2, <1>3, <1>4 DEF Copied, Fresh, Actor

\* Here it matters that two reapers never compress the same record.
LEMMA CompressStoreCopied ==
    ASSUME Tidy, Types, Stages, Copied, NEW a \in Actor, CompressStore(a)
    PROVE  Copied'
<1>1. SUFFICES ASSUME ~closing' PROVE Copied'
  BY DEF Copied
<1>2. /\ UNCHANGED <<ops, closing, lst, seen>> /\ pc[a] = "cstore"
      /\ \/ /\ rec' = [status |-> "completed", zip |-> TRUE, report |-> lst[a]]
            /\ pc' = [pc EXCEPT ![a] = "cdel"]
         \/ UNCHANGED rec /\ pc' = [pc EXCEPT ![a] = After(a)]
  BY DEF CompressStore, Goto
<1>3. /\ \A b \in Actor : b # a => pc'[b] = pc[b]
      /\ pc'[a] \in {"cdel", "idle", "full"}
  BY <1>2 DEF Types, TypeOK, After
<1>4. CASE UNCHANGED rec /\ pc' = [pc EXCEPT ![a] = After(a)]
  <2>1. pc'[a] \in {"idle", "full"}
    BY <1>4 DEF Types, TypeOK, After
  <2> QED BY <1>2, <1>3, <1>4, <2>1, CopiedFrame, WorkerIsActor
<1>5. CASE rec' = [status |-> "completed", zip |-> TRUE, report |-> lst[a]]
  <2>1. \A b \in Actor : /\ pc'[b] = "cstore" => lst'[b] = ops'
                         /\ pc'[b] = "cdel" => rec'.zip
    BY <1>1, <1>2, <1>3, <1>5 DEF Copied
  <2>2. \A p \in Pod : ~(\/ pc'[p] \in {"cget", "cstore"}
                         \/ pc'[p] = "got" /\ seen'[p].status = "completed" /\ ~seen'[p].zip)
    <3>1. CASE a = Worker
      <4>1. \A p \in Pod : Fresh(p) /\ pc'[p] = pc[p]
        BY <1>1, <1>2, <1>3, <3>1, WorkingAlone, WorkerIsActor DEF Working
      <4> QED BY <1>2, <4>1 DEF Fresh
    <3>2. CASE a # Worker
      <4>1. a \in Pod
        BY <3>2 DEF Actor
      <4>2. Legacy
        BY <1>1, <1>2, <4>1 DEF Copied, Stages, Aged
      <4>3. Pod = {a}
        BY <4>1, <4>2 DEF Tidy
      <4> QED BY <1>3, <4>3
    <3> QED BY <3>1, <3>2
  <2> QED BY <2>1, <2>2 DEF Copied
<1> QED BY <1>2, <1>4, <1>5

LEMMA DeleteOpCopied ==
    ASSUME Types, Stages, Copied, NEW a \in Actor, DeleteOp(a)
    PROVE  Copied'
<1>1. SUFFICES ASSUME ~closing' PROVE Copied'
  BY DEF Copied
<1>2. UNCHANGED <<rec, closing, pc, seen>> /\ pc[a] \in {"cdel", "edel", "pdel"}
  BY DEF DeleteOp
<1>3. pc[a] = "cdel"
  BY <1>1, <1>2 DEF Stages, Closed, Types, Actor
<1>4. rec.zip
  BY <1>1, <1>2, <1>3 DEF Copied
<1>5. \A b \in Actor : pc[b] # "cstore"
  <2>1. \A p \in Pod : pc[p] # "cstore"
    BY <1>1, <1>2, <1>4 DEF Copied
  <2>2. pc[Worker] # "cstore"
    BY <1>1, <1>2, <1>4, WorkingAlone DEF Working
  <2> QED BY <2>1, <2>2 DEF Actor
<1> QED BY <1>1, <1>2, <1>5 DEF Copied

LEMMA CompressCopied ==
    ASSUME Types, Copied, NEW a \in Actor, (a \in Pod /\ CompressGet(a)) \/ Compressed(a)
    PROVE  Copied'
<1>1. UNCHANGED <<rec, ops, closing, seen>> /\ pc[a] \in {"cget", "cdel"}
  BY DEF CompressGet, Compressed
<1>2. \A b \in Actor : b # a => pc'[b] = pc[b] /\ lst'[b] = lst[b]
  BY DEF CompressGet, Compressed, Goto, Types, TypeOK
<1>3. CASE pc'[a] \in {"idle", "full"}
  BY <1>1, <1>2, <1>3, CopiedFrame, WorkerIsActor
<1>4. CASE a \in Pod /\ pc[a] = "cget" /\ pc'[a] = "cstore" /\ lst'[a] = ops
  <2>1. \A p \in Pod : p # a => pc'[p] = pc[p]
    BY <1>2, WorkerIsActor
  <2> QED BY <1>1, <1>2, <1>4, <2>1 DEF Copied
<1>5. \/ pc'[a] \in {"idle", "full"}
      \/ a \in Pod /\ pc[a] = "cget" /\ pc'[a] = "cstore" /\ lst'[a] = ops
  BY DEF CompressGet, Compressed, Goto, After, Types, TypeOK
<1> QED BY <1>3, <1>4, <1>5

LEMMA ReaperCopied ==
    ASSUME Types, Copied, NEW p \in Pod,
           \/ ReaperGet(p) \/ ReaperKeep(p) \/ ReaperExpired(p) \/ ReaperPrune(p)
           \/ ReaperDone(p)
    PROVE  Copied'
<1>1. UNCHANGED <<rec, ops>> /\ (closing' \/ UNCHANGED closing)
  BY DEF ReaperGet, ReaperKeep, ReaperExpired, ReaperPrune, ReaperDone, DeleteGet
<1>2. \A a \in Actor : a # p => pc'[a] = pc[a] /\ lst'[a] = lst[a]
  BY DEF ReaperGet, ReaperKeep, ReaperExpired, ReaperPrune, ReaperDone, DeleteGet, Goto,
         Types, TypeOK
<1>3. \A q \in Pod : q # p => seen'[q] = seen[q]
  BY DEF ReaperGet, ReaperKeep, ReaperExpired, ReaperPrune, ReaperDone, DeleteGet,
         Types, TypeOK
<1>4. /\ pc'[p] \in {"got", "cget", "full", "idle", "edel", "pdel"}
      /\ \/ pc'[p] \notin {"cget", "got"}
         \/ pc'[p] = "cget" /\ pc[p] = "got" /\ seen[p].status = "completed" /\ ~seen[p].zip
         \/ pc'[p] = "got" /\ seen'[p].status = rec.status /\ seen'[p].zip = rec.zip
  <2>1. CASE ReaperGet(p)
    BY <2>1, WorkerIsActor DEF ReaperGet, Goto, Types, TypeOK
  <2>2. CASE ReaperKeep(p)
    BY <2>2, WorkerIsActor DEF ReaperKeep, Goto, Counted, Types, TypeOK
  <2>3. CASE ReaperExpired(p) \/ ReaperPrune(p) \/ ReaperDone(p)
    BY <2>3, WorkerIsActor DEF ReaperExpired, ReaperPrune, ReaperDone, DeleteGet, Counted, Goto,
                               Types, TypeOK
  <2> QED BY <2>1, <2>2, <2>3
<1> QED BY <1>1, <1>2, <1>3, <1>4, CopiedFrame, WorkerIsActor

LEMMA QuietCopied ==
    ASSUME Types, Stages, Copied,
           \/ \E p \in Pod : DeleteRecord(p) \/ Crash(p)
           \/ Expire \/ UNCHANGED vars
    PROVE  Copied'
<1>1. CASE \E p \in Pod : DeleteRecord(p)
  BY <1>1 DEF DeleteRecord, Stages, Closed, Copied
<1>2. CASE \E p \in Pod : Crash(p)
  <2>1. UNCHANGED <<rec, ops, closing, seen>>
    BY <1>2 DEF Crash
  <2>2. \A a \in Actor : pc'[a] = "idle" \/ (pc'[a] = pc[a] /\ lst'[a] = lst[a])
    BY <1>2 DEF Crash
  <2> QED BY <2>1, <2>2, CopiedFrame, WorkerIsActor
<1>3. CASE Expire
  BY <1>3 DEF Expire, Copied
<1>4. CASE UNCHANGED vars
  BY <1>4 DEF vars, Copied
<1> QED BY <1>1, <1>2, <1>3, <1>4

LEMMA NextCopied ==
    ASSUME Tidy, Types, Plan, Stages, Copied, [Next]_vars
    PROVE  Copied'
<1>1. CASE WorkerStep
  BY <1>1, WorkCopied, CompressStoreCopied, CompressCopied, DeleteOpCopied, WorkerIsActor
     DEF WorkerStep, Compress
<1>2. CASE \E p \in Pod : ReaperStep(p) \/ Crash(p)
  BY <1>2, ReaperCopied, QuietCopied, CompressStoreCopied, CompressCopied, DeleteOpCopied,
     WorkerIsActor DEF ReaperStep, Compress
<1> QED BY <1>1, <1>2, TriggerCopied, QuietCopied DEF Next

LEMMA InitCopied ==
    ASSUME Init
    PROVE  Copied
<1>1. pc = [a \in Actor |-> "idle"]
  BY DEF Init
<1> QED BY <1>1, WorkerIsActor DEF Copied

-----------------------------------------------------------------------------
(* PowerCap implements PowerCapTask *)

\* What a caller sees: the state of PowerCapTask.
Results == IF rec.status = "none" THEN NoOps ELSE View
Seen    == <<rec.status, Results, closing>>

\* While the worker is at work, a caller sees the operations themselves.
LEMMA WorkSteps ==
    ASSUME Types, Plan, Stages, ~closing, ~closing', Working, ~rec'.zip,
           rec'.status \in {rec.status, "in-progress"},
           \A o \in Op : Task!Onward(ops[o], ops'[o])
    PROVE  Task!Next
<1>1. rec.status \in {"new", "in-progress"} /\ ~rec.zip
  BY WorkingAlone
<1>2. Results = ops /\ Results' = ops'
  BY <1>1 DEF Results, View
<1>3. Task!Work
  BY <1>1, <1>2 DEF Task!Work, Results
<1> QED BY <1>3, <1>1 DEF Task!Next, Types, TypeOK

LEMMA SameSeen ==
    ASSUME UNCHANGED <<rec, ops, closing>>
    PROVE  UNCHANGED Seen
BY DEF Seen, Results, View

LEMMA TriggerRefines ==
    ASSUME Types, Plan, Trigger
    PROVE  [Task!Next]_Seen
<1>1. rec.status = "none" /\ ops = NoOps /\ UNCHANGED <<ops, closing>>
  BY DEF Trigger, Plan, Unborn
<1>2. CASE UNCHANGED rec
  BY <1>1, <1>2, SameSeen
<1>3. CASE rec' = Plain("new")
  <2>1. rec'.status = "new" /\ Results' = NoOps
    BY <1>1, <1>3 DEF Results, View, Plain
  <2>2. Task!Create
    BY <1>1, <2>1 DEF Task!Create, Results, NoOps
  <2>3. CASE closing
    BY <1>1, <2>3 DEF Task!Next, Types, TypeOK
  <2>4. CASE ~closing
    BY <1>1, <2>2, <2>4 DEF Task!Next, Types, TypeOK
  <2> QED BY <2>3, <2>4
<1> QED BY <1>2, <1>3 DEF Trigger

\* Nothing is promised any more once the record is closing.
LEMMA ClosingStays ==
    ASSUME [Next]_vars
    PROVE  closing' = TRUE \/ UNCHANGED closing
BY DEF Next, Trigger, WorkerStep, Begin, StoreOp, Launch, Response, Answered, Compress,
       CompressGet, CompressStore, DeleteOp, Compressed, ReaperStep, ReaperGet, ReaperKeep,
       ReaperExpired, ReaperPrune, ReaperDone, DeleteRecord, DeleteGet, Crash, Expire, vars

LEMMA CloseRefines ==
    ASSUME Types, Types', UNCHANGED <<rec, ops>>, closing' = TRUE \/ UNCHANGED closing
    PROVE  [Task!Next]_Seen
<1>1. CASE UNCHANGED closing
  BY <1>1, SameSeen
<1>2. CASE ~closing /\ closing' = TRUE
  <2>1. UNCHANGED <<rec.status, Results>>
    BY DEF Results, View
  <2>2. Task!Close
    BY <1>2, <2>1 DEF Task!Close, Results
  <2> QED BY <1>2, <2>2 DEF Task!Next
<1> QED BY <1>1, <1>2 DEF Types, TypeOK

LEMMA StoreOpRefines ==
    ASSUME Types, Plan, Stages, ~closing, NEW t \in todo, StoreOp(t)
    PROVE  [Task!Next]_Seen
<1>1. /\ UNCHANGED <<rec, closing>> /\ pc[Worker] = "gen"
      /\ ops' = [ops EXCEPT ![t.id] = t.st] \/ UNCHANGED ops
  BY DEF StoreOp
<1>2. ops[t.id] = "none" /\ t.id \in Op
  BY DEF Plan, Apart, Types, TypeOK
<1>3. \A o \in Op : Task!Onward(ops[o], ops'[o])
  BY <1>1, <1>2 DEF Task!Onward, Types, TypeOK, OpDB
<1>4. ~rec'.zip /\ Working
  BY <1>1, WorkingAlone DEF Working
<1> QED BY <1>1, <1>3, <1>4, WorkSteps

LEMMA ResponseRefines ==
    ASSUME Types, Plan, Stages, ~closing, NEW o \in out, Response(o)
    PROVE  [Task!Next]_Seen
<1>1. /\ UNCHANGED <<rec, closing>> /\ pc[Worker] = "send"
      /\ \/ \E st \in {"Succeeded", "failed"} : ops' = [ops EXCEPT ![o] = st]
         \/ UNCHANGED ops
  BY DEF Response
<1>2. ops[o] \in {"none", "in-progress"} /\ o \in Op
  BY DEF Plan, Apart, Types, TypeOK
<1>3. \A d \in Op : Task!Onward(ops[d], ops'[d])
  BY <1>1, <1>2 DEF Task!Onward, Task!Final, Types, TypeOK, OpDB
<1>4. ~rec'.zip /\ Working
  BY <1>1, WorkingAlone DEF Working
<1> QED BY <1>1, <1>3, <1>4, WorkSteps

LEMMA LaunchRefines ==
    ASSUME Types, Plan, Stages, ~closing, Launch
    PROVE  [Task!Next]_Seen
<1>1. /\ UNCHANGED <<ops, closing>> /\ pc[Worker] = "gen"
      /\ rec' = Plain("in-progress") \/ UNCHANGED rec
  BY DEF Launch
<1>2. ~rec'.zip /\ Working /\ rec'.status \in {rec.status, "in-progress"}
  BY <1>1, WorkingAlone DEF Working, Plain
<1>3. \A o \in Op : Task!Onward(ops[o], ops'[o])
  BY <1>1 DEF Task!Onward
<1> QED BY <1>1, <1>2, <1>3, WorkSteps

\* The worker completes the task; a reaper that compresses an older record
\* shows the same as before.
LEMMA CompressStoreRefines ==
    ASSUME Types, Stages, Copied, ~closing, NEW a \in Actor, CompressStore(a)
    PROVE  [Task!Next]_Seen
<1>1. UNCHANGED <<ops, closing>> /\ pc[a] = "cstore" /\ lst[a] = ops
  BY DEF CompressStore, Copied
<1>2. CASE UNCHANGED rec
  BY <1>1, <1>2, SameSeen
<1>3. CASE rec' = [status |-> "completed", zip |-> TRUE, report |-> lst[a]]
  <2>1. rec'.status = "completed" /\ Results' = ops
    BY <1>1, <1>3 DEF Results, View
  <2>2. CASE a = Worker
    <3>1. rec.status \in {"new", "in-progress"} /\ ~rec.zip
      BY <1>1, <2>2, WorkingAlone DEF Working
    <3>2. Results = ops
      BY <3>1 DEF Results, View
    <3>3. Task!Finish
      BY <2>1, <3>1, <3>2 DEF Task!Finish, Results
    <3> QED BY <1>1, <3>3 DEF Task!Next, Types, TypeOK
  <2>3. CASE a # Worker
    <3>1. rec.status = "completed" /\ ~rec.zip
      BY <1>1, <2>3 DEF Copied, Actor
    <3>2. Results = ops
      BY <3>1 DEF Results, View
    <3> QED BY <1>1, <2>1, <3>1, <3>2 DEF Seen
  <2> QED BY <2>2, <2>3
<1> QED BY <1>2, <1>3 DEF CompressStore

\* Deleting operations that are in the record is invisible.
LEMMA DeleteOpRefines ==
    ASSUME Types, Stages, Copied, ~closing, NEW a \in Actor, DeleteOp(a)
    PROVE  [Task!Next]_Seen
<1>1. UNCHANGED <<rec, closing>> /\ pc[a] \in {"cdel", "edel", "pdel"}
  BY DEF DeleteOp
<1>2. pc[a] = "cdel"
  BY <1>1 DEF Stages, Closed, Types, Actor
<1>3. rec.zip
  BY <1>2 DEF Copied
<1> QED BY <1>1, <1>3 DEF Seen, Results, View

LEMMA StepRefines ==
    ASSUME Types, Types', Plan, Stages, Copied, [Next]_vars
    PROVE  [Task!Next]_Seen
<1>1. CASE closing
  BY <1>1, ClosingStays DEF Task!Next, Types, TypeOK
<1>2. CASE ~closing
  <2>1. CASE WorkerStep
    <3>1. CASE Begin \/ Answered \/ CompressGet(Worker) \/ Compressed(Worker)
      BY <3>1, CloseRefines DEF Begin, Answered, CompressGet, Compressed
    <3> QED BY <1>2, <2>1, <3>1, StoreOpRefines, ResponseRefines, LaunchRefines,
               CompressStoreRefines, DeleteOpRefines, WorkerIsActor DEF WorkerStep, Compress
  <2>2. CASE \E p \in Pod : ReaperStep(p) \/ Crash(p)
    <3>1. PICK p \in Pod : ReaperStep(p) \/ Crash(p)
      BY <2>2
    <3>2. CASE \/ ReaperGet(p) \/ ReaperKeep(p) \/ ReaperExpired(p) \/ ReaperPrune(p)
               \/ ReaperDone(p) \/ Crash(p) \/ CompressGet(p) \/ Compressed(p)
      <4>1. UNCHANGED <<rec, ops>>
        BY <3>2 DEF ReaperGet, ReaperKeep, ReaperExpired, ReaperPrune, ReaperDone, DeleteGet,
                    Crash, CompressGet, Compressed
      <4> QED BY <4>1, ClosingStays, CloseRefines
    <3>3. ~DeleteRecord(p)
      BY <1>2 DEF DeleteRecord, Stages, Closed
    <3> QED BY <1>2, <3>1, <3>2, <3>3, CompressStoreRefines, DeleteOpRefines, WorkerIsActor
            DEF ReaperStep, Compress
  <2>3. CASE Expire \/ UNCHANGED vars
    <3>1. UNCHANGED <<rec, ops>>
      BY <2>3 DEF Expire, vars
    <3> QED BY <3>1, ClosingStays, CloseRefines
  <2> QED BY <2>1, <2>2, <2>3, TriggerRefines DEF Next
<1> QED BY <1>1, <1>2

LEMMA InitRefines ==
    ASSUME Init
    PROVE  Task!Init
<1>1. closing = FALSE /\ (rec = Plain("none") \/ rec = Plain("completed"))
  BY DEF Init
<1> QED BY <1>1 DEF Task!Init, Plain

\* PowerCap implements PowerCapTask, for every request, every inventory and
\* any number of pods, crashes and errors: a result of an operation never
\* changes, a completed task never does, and moving the operations into the
\* record (compressAndCompleteTask) shows to nobody, until the record expires
\* or is pruned.  Where a record of an older version is found, there is only
\* one pod: the reapers of two may overwrite its results with nothing.
THEOREM TaskRefined == Tidy => (Spec => Implements)
<1> SUFFICES ASSUME Tidy PROVE Spec => Implements
  OBVIOUS
<1> DEFINE Inv == Types /\ Plan /\ Stages /\ Copied
<1>1. Init => Inv
  BY InitTypes, InitPlan, InitStages, InitCopied
<1>2. Inv /\ [Next]_vars => Inv'
  BY NextTypes, NextPlan, NextStages, NextCopied
<1>3. Inv /\ Inv' /\ [Next]_vars => [Task!Next]_Seen
  BY StepRefines
<1>4. Init => Task!Init
  BY InitRefines
<1> HIDE DEF Inv
<1>5. Spec => [][Task!Next]_Seen
  BY <1>1, <1>2, <1>3, PTL DEF Spec
<1>6. Spec => Task!Init
  BY <1>4 DEF Spec
<1> QED BY <1>5, <1>6 DEF Implements, Task!Spec, Seen, Results

-----------------------------------------------------------------------------
(* The report *)

LEMMA ErrsZero ==
    ASSUME Types, Error \/ NoError, errs' = 0
    PROVE  errs = 0 /\ ~Error
BY CapAssumption DEF Types, TypeOK, Error, NoError

\* Steps that leave the record, the operations and the plan alone.
LEMMA ToldFrame ==
    ASSUME Types, Told, Reported, UNCHANGED <<request, rec, ops, todo, out>>,
           closing' = TRUE \/ UNCHANGED closing, Error \/ NoError,
           \/ pc'[Worker] = pc[Worker] \/ pc'[Worker] \in {"idle", "start", "cdel"}
           \/ pc[Worker] \in {"send", "cget"} /\ pc'[Worker] \in {"cget", "cstore"}
    PROVE  Told' /\ Reported'
<1>1. CASE closing' = TRUE \/ errs' # 0
  BY <1>1 DEF Told, Reported
<1>2. CASE ~closing /\ UNCHANGED closing /\ errs' = 0
  <2>1. errs = 0
    BY <1>2, ErrsZero
  <2>2. Reported'
    BY <1>2, <2>1 DEF Reported, request
  <2>3. Told'
    <3>1. \A c : Demanded(c)' <=> Demanded(c)
      BY SameRequest
    <3>2. Tells(ops)' <=> Tells(ops)
      BY <3>1 DEF Tells
    <3> QED BY <1>2, <2>1, <3>1, <3>2 DEF Told, Settled
  <2> QED BY <2>2, <2>3
<1> QED BY <1>1, <1>2 DEF Types, TypeOK

LEMMA TriggerTold ==
    ASSUME Types, Plan, Told, Reported, Trigger
    PROVE  Told' /\ Reported'
<1>1. /\ UNCHANGED <<request, ops, todo, out, closing>> /\ (Error \/ NoError)
      /\ \/ rec' = Plain("new") /\ pc' = [pc EXCEPT ![Worker] = "start"]
         \/ UNCHANGED <<rec, pc>>
  BY DEF Trigger, Goto
<1>2. CASE UNCHANGED <<rec, pc>>
  BY <1>1, <1>2, ToldFrame
<1>3. CASE rec' = Plain("new") /\ pc' = [pc EXCEPT ![Worker] = "start"]
  <2>1. ~rec'.zip /\ rec'.status = "new" /\ pc'[Worker] = "start"
    BY <1>3, WorkerIsActor DEF Plain, Types, TypeOK
  <2> QED BY <2>1 DEF Told, Reported
<1> QED BY <1>1, <1>2, <1>3

LEMMA BeginTold ==
    ASSUME Types, Plan, Stages, Told, Reported, Begin
    PROVE  Told' /\ Reported'
<1>1. /\ UNCHANGED <<request, rec, ops, out, closing>> /\ pc[Worker] = "start"
      /\ Error \/ NoError
      /\ \/ pc' = [pc EXCEPT ![Worker] = "idle"] /\ UNCHANGED todo
         \/ /\ pc' = [pc EXCEPT ![Worker] = "gen"]
            /\ \E hsm \in FillHSMData : todo' = UNION {Planned(c, hsm) : c \in Comp}
  BY DEF Begin, Goto
<1>2. CASE pc' = [pc EXCEPT ![Worker] = "idle"] /\ UNCHANGED todo
  BY <1>1, <1>2, ToldFrame, WorkerIsActor DEF Types, TypeOK
<1>3. CASE /\ pc' = [pc EXCEPT ![Worker] = "gen"]
           /\ \E hsm \in FillHSMData : todo' = UNION {Planned(c, hsm) : c \in Comp}
  <2>1. pc'[Worker] = "gen"
    BY <1>3, WorkerIsActor DEF Types, TypeOK
  <2>2. ASSUME NEW c \in Comp, Demanded(c)
        PROVE  \E k \in Subject : \E t \in todo' : t.id = <<c, k>>
    <3>1. PICK hsm \in FillHSMData : todo' = UNION {Planned(d, hsm) : d \in Comp}
      BY <1>3
    <3>2. PICK t : t \in Planned(c, hsm)
      BY <2>2, PlannedOps DEF Types
    <3>3. PICK k \in Subject, st \in OpStatus : t = [id |-> <<c, k>>, st |-> st]
      BY <3>2, PlannedOps DEF Types, Sound, OpStatus
    <3> QED BY <3>1, <3>2, <3>3
  <2>3. ops' = NoOps
    BY <1>1 DEF Plan, Unborn
  <2>4. \A c : Demanded(c)' <=> Demanded(c)
    BY <1>1, SameRequest
  <2>5. ~(rec'.status = "completed" /\ ~rec'.zip)
    BY <1>1 DEF Stages, Aged
  <2>6. Told'
    BY <2>1, <2>2, <2>3, <2>4, <2>5 DEF Told, NoOps
  <2>7. Reported'
    BY <1>1, ErrsZero DEF Reported, request
  <2> QED BY <2>6, <2>7
<1> QED BY <1>1, <1>2, <1>3

LEMMA StoreOpTold ==
    ASSUME Types, Plan, Stages, Told, Reported, NEW t \in todo, StoreOp(t)
    PROVE  Told' /\ Reported'
<1>1. /\ UNCHANGED <<request, rec, closing, pc>> /\ pc[Worker] = "gen" /\ (Error \/ NoError)
      /\ todo' = todo \ {t}
      /\ out' = IF t.st = "in-progress" THEN out \cup {t.id} ELSE out
      /\ Error \/ ops' = [ops EXCEPT ![t.id] = t.st]
  BY DEF StoreOp
<1>2. Reported'
  BY <1>1, ErrsZero DEF Reported, request
<1>3. ~(rec'.status = "completed" /\ ~rec'.zip)
  BY <1>1 DEF Stages, Aged
<1>4. CASE closing' \/ errs' # 0
  BY <1>2, <1>4 DEF Told
<1>5. CASE ~closing' /\ errs' = 0
  <2>1. errs = 0 /\ ~closing /\ ops' = [ops EXCEPT ![t.id] = t.st]
    BY <1>1, <1>5, ErrsZero
  <2>2. t.id \in Op /\ t.st \notin {"none", "new"} /\ ops \in OpDB
    BY DEF Types, TypeOK, Plan, Apart
  <2>3. /\ ops'[t.id] = t.st
        /\ \A o \in Op : o # t.id => ops'[o] = ops[o]
    BY <2>1, <2>2 DEF OpDB
  <2>4. ASSUME NEW c \in Comp, Demanded(c)
        PROVE  \E k \in Subject : \/ ops'[<<c, k>>] # "none"
                                            \/ \E u \in todo' : u.id = <<c, k>>
    <3>1. PICK k \in Subject : \/ ops[<<c, k>>] # "none"
                                         \/ \E u \in todo : u.id = <<c, k>>
      BY <1>1, <2>1, <2>4 DEF Told
    <3>2. <<c, k>> \in Op
      BY DEF Op
    <3>3. CASE <<c, k>> = t.id
      BY <2>2, <2>3, <3>3
    <3>4. CASE <<c, k>> # t.id
      BY <1>1, <2>3, <3>1, <3>2, <3>4
    <3> QED BY <3>3, <3>4
  <2>5. ASSUME NEW o \in Op, ops'[o] \in {"new", "in-progress"}
        PROVE  o \in out'
    <3>1. CASE o = t.id
      BY <1>1, <2>2, <2>3, <2>5, <3>1
    <3>2. CASE o # t.id
      BY <1>1, <2>1, <2>3, <2>5, <3>2 DEF Told
    <3> QED BY <3>1, <3>2
  <2>6. \A c : Demanded(c)' <=> Demanded(c)
    BY <1>1, SameRequest
  <2> QED BY <1>1, <1>2, <1>3, <2>4, <2>5, <2>6 DEF Told
<1> QED BY <1>2, <1>4, <1>5

LEMMA LaunchTold ==
    ASSUME Types, Plan, Stages, Told, Reported, Launch
    PROVE  Told' /\ Reported'
<1>1. /\ UNCHANGED <<request, ops, todo, out, closing>> /\ pc[Worker] = "gen" /\ todo = {}
      /\ (Error \/ NoError) /\ (UNCHANGED rec \/ rec' = Plain("in-progress"))
      /\ \E l \in {"cget", "send"} : pc' = [pc EXCEPT ![Worker] = l]
  BY DEF Launch, Goto
<1>2. pc'[Worker] \in {"cget", "send"}
  BY <1>1, WorkerIsActor DEF Types, TypeOK
<1>3. Reported'
  <2>1. CASE UNCHANGED rec
    BY <1>1, <2>1, ErrsZero DEF Reported, request
  <2>2. CASE ~rec'.zip
    BY <2>2 DEF Reported
  <2> QED BY <1>1, <2>1, <2>2 DEF Plain
<1>4. ~(rec'.status = "completed" /\ ~rec'.zip)
  BY <1>1 DEF Stages, Aged, Plain
<1>5. Told'
  <2>1. CASE closing' \/ errs' # 0
    BY <2>1 DEF Told
  <2>2. CASE ~closing' /\ errs' = 0
    <3>1. errs = 0 /\ ~closing
      BY <1>1, <2>2, ErrsZero
    <3>2. Tells(ops) /\ \A o \in Op : ops[o] \in {"new", "in-progress"} => o \in out
      BY <1>1, <3>1 DEF Told, Tells
    <3>3. \A c : Demanded(c)' <=> Demanded(c)
      BY <1>1, SameRequest
    <3>4. Tells(ops)'
      BY <1>1, <3>2, <3>3 DEF Tells
    <3> QED BY <1>1, <1>2, <1>4, <3>2, <3>4 DEF Told
  <2> QED BY <2>1, <2>2
<1> QED BY <1>3, <1>5

LEMMA ResponseTold ==
    ASSUME Types, Plan, Stages, Told, Reported, NEW o \in out, Response(o)
    PROVE  Told' /\ Reported'
<1>1. /\ UNCHANGED <<request, rec, closing, pc, todo>> /\ pc[Worker] = "send"
      /\ (Error \/ NoError) /\ out' = out \ {o}
      /\ Error \/ \E st \in {"Succeeded", "failed"} : ops' = [ops EXCEPT ![o] = st]
  BY DEF Response
<1>2. Reported'
  BY <1>1, ErrsZero DEF Reported, request
<1>3. ~(rec'.status = "completed" /\ ~rec'.zip)
  BY <1>1 DEF Stages, Aged
<1>4. CASE closing' \/ errs' # 0
  BY <1>4, <1>2 DEF Told
<1>5. CASE ~closing' /\ errs' = 0
  <2>1. /\ errs = 0 /\ ~closing
        /\ \E st \in {"Succeeded", "failed"} : ops' = [ops EXCEPT ![o] = st]
    BY <1>1, <1>5, ErrsZero
  <2>2. /\ ops'[o] \in {"Succeeded", "failed"}
        /\ \A d \in Op : d # o => ops'[d] = ops[d]
    BY <2>1 DEF Types, TypeOK, OpDB
  <2>3. \A c : Demanded(c)' <=> Demanded(c)
    BY <1>1, SameRequest
  <2>4. Tells(ops)'
    <3>1. Tells(ops)
      BY <1>1, <2>1 DEF Told
    <3>2. ASSUME NEW c \in Comp, NEW k \in Subject, ops[<<c, k>>] # "none"
          PROVE  ops'[<<c, k>>] # "none"
      <4>1. <<c, k>> \in Op
        BY DEF Op
      <4> QED BY <2>2, <3>2, <4>1
    <3> QED BY <2>3, <3>1, <3>2 DEF Tells
  <2>5. \A d \in Op : ops'[d] \in {"new", "in-progress"} => d \in out'
    BY <1>1, <2>1, <2>2 DEF Told
  <2> QED BY <1>1, <1>2, <1>3, <2>4, <2>5 DEF Told
<1> QED BY <1>4, <1>5

\* The record that is stored tells what the operations tell.
LEMMA CompressStoreTold ==
    ASSUME Types, Plan, Stages, Copied, Told, Reported, NEW a \in Actor,
           CompressStore(a)
    PROVE  Told' /\ Reported'
<1>1. /\ UNCHANGED <<request, ops, todo, out, closing, lst>> /\ (Error \/ NoError)
      /\ pc[a] = "cstore"
      /\ \/ UNCHANGED rec /\ pc' = [pc EXCEPT ![a] = After(a)]
         \/ /\ rec' = [status |-> "completed", zip |-> TRUE, report |-> lst[a]]
            /\ pc' = [pc EXCEPT ![a] = "cdel"]
  BY DEF CompressStore, Goto
<1>2. pc'[Worker] = pc[Worker] \/ (a = Worker /\ pc'[Worker] \in {"idle", "cdel"})
  BY <1>1, WorkerIsActor DEF After, Types, TypeOK
<1>3. CASE UNCHANGED rec
  BY <1>1, <1>2, <1>3, ToldFrame
<1>4. CASE closing' \/ errs' # 0
  BY <1>4 DEF Told, Reported
<1>5. CASE /\ ~closing' /\ errs' = 0
           /\ rec' = [status |-> "completed", zip |-> TRUE, report |-> lst[a]]
  <2>1. errs = 0 /\ ~closing /\ lst[a] = ops
    BY <1>1, <1>5, ErrsZero DEF Copied
  <2>2. Tells(ops) /\ Settled(ops) /\ pc'[Worker] \in {"idle", "cdel"}
    <3>1. CASE a = Worker
      <4>1. out = {}
        BY <1>1, <3>1 DEF Plan, Drained
      <4>2. Tells(ops) /\ \A o \in Op : ops[o] \notin {"new", "in-progress"}
        BY <1>1, <2>1, <3>1, <4>1 DEF Told
      <4>3. pc'[Worker] \in {"idle", "cdel"}
        BY <1>1, <1>2, <1>5, <3>1, WorkerIsActor DEF Types, TypeOK, After
      <4> QED BY <4>2, <4>3 DEF Settled
    <3>2. CASE a # Worker
      <4>1. rec.status = "completed" /\ ~rec.zip
        BY <1>1, <2>1, <3>2 DEF Copied, Actor
      <4> QED BY <1>2, <2>1, <3>2, <4>1 DEF Told, Stages, Aged
    <3> QED BY <3>1, <3>2
  <2>3. Told'
    BY <1>5, <2>2 DEF Told
  <2>4. \A c : Demanded(c)' <=> Demanded(c)
    BY <1>1, SameRequest
  <2>5. Reported'
    BY <1>5, <2>1, <2>2, <2>4 DEF Reported, Tells, Settled, Demanded
  <2> QED BY <2>3, <2>5
<1> QED BY <1>1, <1>3, <1>4, <1>5

LEMMA DeleteOpTold ==
    ASSUME Types, Stages, Copied, Told, Reported, NEW a \in Actor, DeleteOp(a)
    PROVE  Told' /\ Reported'
<1>1. /\ UNCHANGED <<request, rec, closing, pc>> /\ (Error \/ NoError)
      /\ pc[a] \in {"cdel", "edel", "pdel"}
  BY DEF DeleteOp
<1>2. Reported'
  BY <1>1, ErrsZero DEF Reported, request
<1>3. CASE closing
  BY <1>1, <1>2, <1>3 DEF Told
<1>4. CASE ~closing
  <2>1. pc[a] = "cdel"
    BY <1>1, <1>4 DEF Stages, Closed, Types, Actor
  <2>2. rec.zip
    BY <1>4, <2>1 DEF Copied
  <2>3. ~Working
    BY <1>4, <2>2, WorkingAlone
  <2> QED BY <1>1, <1>2, <2>2, <2>3 DEF Told, Working
<1> QED BY <1>3, <1>4

LEMMA QuietTold ==
    ASSUME Types, Told, Reported, [Next]_vars,
           \/ Answered \/ (\E a \in Actor : CompressGet(a) \/ Compressed(a))
           \/ \E p \in Pod : \/ ReaperGet(p) \/ ReaperKeep(p) \/ ReaperExpired(p)
                             \/ ReaperPrune(p) \/ ReaperDone(p)
           \/ Expire \/ UNCHANGED vars
    PROVE  Told' /\ Reported'
<1>1. UNCHANGED <<request, rec, ops, todo, out>> /\ (Error \/ NoError)
  BY DEF Answered, CompressGet, Compressed, ReaperGet, ReaperKeep, ReaperExpired, ReaperPrune,
         ReaperDone, DeleteGet, Expire, vars, NoError
<1>2. \/ pc'[Worker] = pc[Worker] \/ pc'[Worker] = "idle"
      \/ pc[Worker] \in {"send", "cget"} /\ pc'[Worker] \in {"cget", "cstore"}
  <2>1. CASE Answered \/ \E a \in Actor : CompressGet(a) \/ Compressed(a)
    BY <2>1, WorkerIsActor DEF Answered, CompressGet, Compressed, Goto, After, Types, TypeOK
  <2>2. CASE \E p \in Pod : \/ ReaperGet(p) \/ ReaperKeep(p) \/ ReaperExpired(p)
                            \/ ReaperPrune(p) \/ ReaperDone(p)
    <3>1. \E p \in Pod : \E l : pc' = [pc EXCEPT ![p] = l]
      BY <2>2 DEF ReaperGet, ReaperKeep, ReaperExpired, ReaperPrune, ReaperDone, DeleteGet, Goto
    <3> QED BY <3>1, WorkerIsActor DEF Types, TypeOK
  <2> QED BY <2>1, <2>2 DEF Expire, vars
<1> QED BY <1>1, <1>2, ClosingStays, ToldFrame

LEMMA CrashTold ==
    ASSUME Types, Told, Reported, NEW p \in Pod, Crash(p)
    PROVE  Told' /\ Reported'
<1>1. UNCHANGED <<request, rec, ops, closing, errs>>
  BY DEF Crash
<1>2. CASE p = Home
  <2>1. pc'[Worker] = "idle"
    BY <1>2, WorkerIsActor DEF Crash
  <2>2. \A c : Demanded(c)' <=> Demanded(c)
    BY <1>1, SameRequest
  <2>3. Reported'
    BY <1>1 DEF Reported, request
  <2> QED BY <1>1, <2>1, <2>2, <2>3 DEF Told, Tells, Settled
<1>3. CASE p # Home
  <2>1. UNCHANGED <<todo, out>> /\ pc'[Worker] = pc[Worker]
    BY <1>3, WorkerIsActor DEF Crash
  <2> QED BY <1>1, <2>1, ToldFrame DEF NoError
<1> QED BY <1>2, <1>3

LEMMA DeleteRecordTold ==
    ASSUME Stages, NEW p \in Pod, DeleteRecord(p)
    PROVE  Told' /\ Reported'
BY DEF DeleteRecord, Stages, Closed, Told, Reported

LEMMA NextTold ==
    ASSUME Types, Plan, Stages, Copied, Told, Reported, [Next]_vars
    PROVE  Told' /\ Reported'
<1>1. CASE WorkerStep
  BY <1>1, BeginTold, StoreOpTold, LaunchTold, ResponseTold, QuietTold, CompressStoreTold,
     DeleteOpTold, WorkerIsActor DEF WorkerStep, Compress
<1>2. CASE \E p \in Pod : ReaperStep(p) \/ Crash(p)
  BY <1>2, QuietTold, CompressStoreTold, DeleteOpTold, CrashTold, DeleteRecordTold,
     WorkerIsActor DEF ReaperStep, Compress
<1> QED BY <1>1, <1>2, TriggerTold, QuietTold DEF Next

LEMMA InitTold ==
    ASSUME Init
    PROVE  Told /\ Reported
<1>1. Reported
  <2>1. rec = Plain("none") \/ rec = Plain("completed")
    BY DEF Init
  <2>2. ~rec.zip
    BY <2>1 DEF Plain
  <2> QED BY <2>2 DEF Reported
<1>2. pc[Worker] = "idle" /\ Request
  BY WorkerIsActor DEF Init, Request
<1>3. CASE rec = Plain("none")
  BY <1>1, <1>2, <1>3 DEF Told, Plain
<1>4. CASE rec # Plain("none")
  <2>0. PICK hsm \in FillHSMData : ops = Ended(UNION {Planned(c, hsm) : c \in Comp})
    BY <1>4 DEF Init
  <2> DEFINE T == UNION {Planned(c, hsm) : c \in Comp}
  <2>1. ops = [o \in Op |-> IF \E t \in T : t.id = o
                            THEN LET st == (CHOOSE t \in T : t.id = o).st IN
                                 IF st = "in-progress" THEN "Succeeded" ELSE st
                            ELSE "none"]
    BY <2>0 DEF Ended
  <2>2. \A t \in T : t.st \in {"failed", "Unsupported", "in-progress"}
    <3>1. SUFFICES ASSUME NEW c \in Comp, NEW t \in Planned(c, hsm)
                   PROVE  t.st \in {"failed", "Unsupported", "in-progress"}
      OBVIOUS
    <3>2. PICK k \in Subject, st \in {"failed", "Unsupported", "in-progress"} :
              t = [id |-> <<c, k>>, st |-> st]
      BY <1>2, PlannedOps DEF Sound
    <3> QED BY <3>2
  <2>3. ASSUME NEW c \in Comp, Demanded(c)
        PROVE  \E k \in Subject : \E t \in T : t.id = <<c, k>>
    <3>1. PICK t : t \in Planned(c, hsm)
      BY <1>2, <2>3, PlannedOps
    <3>2. PICK k \in Subject, st \in OpStatus : t = [id |-> <<c, k>>, st |-> st]
      BY <1>2, <3>1, PlannedOps DEF Sound, OpStatus
    <3>3. t \in T
      BY <3>1
    <3>4. t.id = <<c, k>>
      BY <3>2
    <3> HIDE DEF T
    <3> QED BY <3>3, <3>4
  <2> HIDE DEF T
  <2>4. ASSUME NEW o \in Op, \E t \in T : t.id = o
        PROVE  ops[o] \in {"failed", "Unsupported", "Succeeded"}
    <3>1. (CHOOSE t \in T : t.id = o).st \in {"failed", "Unsupported", "in-progress"}
      BY <2>2, <2>4
    <3> QED BY <2>1, <2>4, <3>1
  <2>5. Settled(ops)
    <3>1. \A o \in Op : (\E t \in T : t.id = o) \/ ops[o] = "none"
      BY <2>1
    <3> QED BY <2>4, <3>1 DEF Settled
  <2>6. Tells(ops)
    <3>1. SUFFICES ASSUME NEW c \in Comp, Demanded(c)
                   PROVE  \E k \in Subject : ops[<<c, k>>] # "none"
      BY DEF Tells
    <3>2. PICK k \in Subject : \E t \in T : t.id = <<c, k>>
      BY <2>3, <3>1
    <3>3. <<c, k>> \in Op
      BY DEF Op
    <3> QED BY <2>4, <3>2, <3>3
  <2> QED BY <1>1, <1>2, <2>5, <2>6 DEF Told
<1> QED BY <1>3, <1>4

-----------------------------------------------------------------------------
(* The limits that are set, and the report *)

LEMMA CappedFrame ==
    ASSUME Capped, UNCHANGED <<request, rec, ops, hw>>, todo' \subseteq todo, out' \subseteq out,
           closing' = TRUE \/ UNCHANGED closing, errs' = 0 => errs = 0
    PROVE  Capped'
<1>1. Single'
  BY DEF Capped, Single, request
<1>2. Shown' /\ (rec'.zip => rec'.status = "completed")
  BY DEF Capped, Shown
<1> QED BY <1>1, <1>2 DEF Capped

LEMMA BeginCapped ==
    ASSUME Types, Plan, Capped, Begin
    PROVE  Capped'
<1>1. /\ UNCHANGED <<request, rec, ops, hw, out, closing>> /\ (Error \/ NoError)
      /\ \/ UNCHANGED todo
         \/ \E hsm \in FillHSMData : todo' = UNION {Planned(c, hsm) : c \in Comp}
  BY DEF Begin
<1>2. errs' = 0 => errs = 0
  BY <1>1, ErrsZero
<1>3. CASE UNCHANGED todo
  BY <1>1, <1>2, <1>3, CappedFrame
<1>4. CASE \E hsm \in FillHSMData : todo' = UNION {Planned(c, hsm) : c \in Comp}
  <2>1. PICK hsm \in FillHSMData : todo' = UNION {Planned(c, hsm) : c \in Comp}
    BY <1>4
  <2>2. ASSUME NEW t \in todo', t.st = "in-progress", type = "patch"
        PROVE  t.id[2] = "node"
    <3>1. PICK c \in Comp : t \in Planned(c, hsm)
      BY <2>1
    <3>2. PICK k \in Subject, st \in {"failed", "Unsupported", "in-progress"} :
                                   /\ t = [id |-> <<c, k>>, st |-> st]
                                   /\ st = "in-progress" /\ type = "patch" => k = "node"
      BY <3>1, PlannedOps DEF Sound, Types
    <3>3. t.id = <<c, k>> /\ k = "node"
      BY <2>2, <3>2
    <3> QED BY <3>3
  <2>3. Single'
    BY <1>1, <2>2 DEF Capped, Single, request
  <2>4. Shown' /\ (rec'.zip => rec'.status = "completed")
    BY <1>1, <1>2 DEF Capped, Shown
  <2> QED BY <2>3, <2>4 DEF Capped
<1> QED BY <1>1, <1>3, <1>4

\* Nothing has been set for an operation that is still to be stored.
LEMMA StoreOpCapped ==
    ASSUME Types, Plan, Capped, NEW t \in todo, StoreOp(t)
    PROVE  Capped'
<1>1. /\ UNCHANGED <<request, rec, hw, closing>> /\ (Error \/ NoError)
      /\ todo' = todo \ {t}
      /\ out' = IF t.st = "in-progress" THEN out \cup {t.id} ELSE out
      /\ Error \/ ops' = [ops EXCEPT ![t.id] = t.st]
  BY DEF StoreOp
<1>2. Single'
  BY <1>1 DEF Capped, Single, request
<1>3. Shown'
  <2>1. SUFFICES ASSUME ~closing', errs' = 0, NEW c \in Comp, NEW k \in Ctl, hw'[c][k] # -1
                 PROVE  (IF rec.zip THEN rec.report ELSE ops')[<<c, "node">>] \in Outcome
    BY <1>1 DEF Shown
  <2>2. errs = 0 /\ ops' = [ops EXCEPT ![t.id] = t.st]
    BY <1>1, <2>1, ErrsZero
  <2>3. (IF rec.zip THEN rec.report ELSE ops)[<<c, "node">>] \in Outcome
    BY <1>1, <2>1, <2>2 DEF Capped, Shown
  <2>4. ops[t.id] = "none" /\ t.id \in Op
    BY DEF Plan, Apart, Types, TypeOK
  <2>5. <<c, "node">> \in Op
    BY SubjectSets DEF Op
  <2>6. ~rec.zip => <<c, "node">> # t.id
    BY <2>3, <2>4 DEF Outcome
  <2> QED BY <2>2, <2>3, <2>4, <2>5, <2>6 DEF Types, TypeOK, OpDB
<1> QED BY <1>1, <1>2, <1>3 DEF Capped

\* While the worker is at work and nothing has expired, the record is not yet
\* compressed.
LEMMA NotYetZipped ==
    ASSUME Stages, Working, ~closing
    PROVE  ~rec.zip
BY DEF Stages, Underway, Closed

LEMMA RestartCapped ==
    ASSUME Types, Plan, Stages, Capped, Trigger \/ Launch
    PROVE  Capped'
<1>1. /\ UNCHANGED <<request, ops, hw, todo, out, closing>> /\ (Error \/ NoError)
      /\ UNCHANGED rec \/ rec' = Plain("new") \/ rec' = Plain("in-progress")
  BY DEF Trigger, Launch
<1>2. ~closing => ~rec.zip
  <2>1. CASE Trigger
    BY <2>1 DEF Trigger, Plan, Unborn, Capped
  <2>2. CASE Launch
    BY <2>2, NotYetZipped DEF Launch, Working
  <2> QED BY <2>1, <2>2
<1>3. UNCHANGED rec \/ ~rec'.zip
  BY <1>1 DEF Plain
<1>4. Shown'
  BY <1>1, <1>2, <1>3, ErrsZero DEF Capped, Shown
<1>5. Single'
  BY <1>1 DEF Capped, Single, request
<1> QED BY <1>3, <1>4, <1>5 DEF Capped

\* Whatever a controller has done, its answer is told.
LEMMA ResponseCapped ==
    ASSUME Types, Plan, Stages, Capped, NEW o \in out, Response(o)
    PROVE  Capped'
<1>1. /\ UNCHANGED <<request, rec, closing, todo>> /\ pc[Worker] = "send"
      /\ (Error \/ NoError) /\ out' = out \ {o}
      /\ Error \/ \E st \in Outcome : ops' = [ops EXCEPT ![o] = st]
      /\ UNCHANGED hw \/ (type # "snapshot" /\ Set(o[1]))
  BY DEF Response, Outcome
<1>2. o \in Op /\ o[1] \in Comp /\ (type = "patch" => o = <<o[1], "node">>)
  BY DEF Types, TypeOK, Op, Capped, Single
<1>3. Single'
  BY <1>1 DEF Capped, Single, request
<1>4. Shown'
  <2>1. SUFFICES ASSUME ~closing', errs' = 0, NEW c \in Comp, NEW k \in Ctl, hw'[c][k] # -1
                 PROVE  (IF rec.zip THEN rec.report ELSE ops')[<<c, "node">>] \in Outcome
    BY <1>1 DEF Shown
  <2>2. ~rec.zip
    BY <1>1, <2>1, NotYetZipped DEF Working
  <2>3. errs = 0 /\ \E st \in Outcome : ops' = [ops EXCEPT ![o] = st]
    BY <1>1, <2>1, ErrsZero
  <2>4. ops'[o] \in Outcome /\ \A d \in Op : d # o => ops'[d] = ops[d]
    BY <1>2, <2>3 DEF Types, TypeOK, OpDB
  <2>5. <<c, "node">> \in Op
    BY SubjectSets DEF Op
  <2>6. CASE hw[c][k] # -1
    <3>1. ops[<<c, "node">>] \in Outcome
      BY <1>1, <2>1, <2>2, <2>3, <2>6 DEF Capped, Shown
    <3> QED BY <2>2, <2>4, <2>5, <3>1
  <2>7. CASE hw[c][k] = -1
    <3>1. type = "patch" /\ Set(o[1])
      BY <1>1, <2>1, <2>7 DEF Types, Request
    <3>2. \E f : hw' = [hw EXCEPT ![o[1]] = f]
      BY <1>2, <3>1, SetType
    <3>3. c = o[1]
      BY <2>1, <2>7, <3>2 DEF Types
    <3> QED BY <1>2, <2>2, <2>4, <3>1, <3>3
  <2> QED BY <2>6, <2>7
<1> QED BY <1>1, <1>3, <1>4 DEF Capped

\* The report is what the operations were, ...
LEMMA CompressStoreCapped ==
    ASSUME Types, Stages, Copied, Capped, NEW a \in Actor, CompressStore(a)
    PROVE  Capped'
<1>1. /\ UNCHANGED <<request, ops, todo, out, hw, closing>> /\ (Error \/ NoError)
      /\ pc[a] = "cstore"
      /\ \/ UNCHANGED rec
         \/ rec' = [status |-> "completed", zip |-> TRUE, report |-> lst[a]]
  BY DEF CompressStore
<1>2. Single'
  BY <1>1 DEF Capped, Single, request
<1>3. ~closing => lst[a] = ops /\ ~rec.zip
  <2>1. CASE a = Worker
    BY <1>1, <2>1, NotYetZipped DEF Copied, Working
  <2>2. CASE a # Worker
    BY <1>1, <2>2 DEF Copied, Actor
  <2> QED BY <2>1, <2>2
<1>4. Shown'
  BY <1>1, <1>3, ErrsZero DEF Capped, Shown
<1> QED BY <1>1, <1>2, <1>4 DEF Capped

\* ... and an operation is deleted only once it is in the report.
LEMMA DeletionCapped ==
    ASSUME Types, Stages, Copied, Capped,
           \/ \E a \in Actor : DeleteOp(a)
           \/ \E p \in Pod : DeleteRecord(p)
    PROVE  Capped'
<1>1. /\ UNCHANGED <<request, todo, out, hw, closing>> /\ (Error \/ NoError)
      /\ UNCHANGED rec \/ ~rec'.zip
  BY DEF DeleteOp, DeleteRecord, Plain
<1>2. closing \/ (rec.zip /\ UNCHANGED rec)
  <2>1. ASSUME NEW a \in Actor, DeleteOp(a), ~closing
        PROVE  rec.zip /\ UNCHANGED rec
    <3>1. pc[a] = "cdel"
      BY <2>1 DEF DeleteOp, Stages, Closed, Types, Actor
    <3> QED BY <2>1, <3>1 DEF Copied, DeleteOp
  <2>2. ASSUME NEW p \in Pod, DeleteRecord(p)
        PROVE  closing
    BY <2>2 DEF DeleteRecord, Stages, Closed
  <2> QED BY <2>1, <2>2
<1>3. Shown'
  BY <1>1, <1>2, ErrsZero DEF Capped, Shown
<1>4. Single'
  BY <1>1 DEF Capped, Single, request
<1> QED BY <1>1, <1>3, <1>4 DEF Capped

LEMMA NextCapped ==
    ASSUME Types, Plan, Stages, Copied, Capped, [Next]_vars
    PROVE  Capped'
<1>1. CASE \/ Answered \/ (\E a \in Actor : CompressGet(a) \/ Compressed(a))
           \/ \E p \in Pod : \/ ReaperGet(p) \/ ReaperKeep(p) \/ ReaperExpired(p)
                             \/ ReaperPrune(p) \/ ReaperDone(p)
           \/ Expire \/ UNCHANGED vars
  <2>1. UNCHANGED <<request, rec, ops, hw, todo, out>> /\ (Error \/ NoError)
    BY <1>1 DEF Answered, CompressGet, Compressed, ReaperGet, ReaperKeep, ReaperExpired,
                ReaperPrune, ReaperDone, DeleteGet, Expire, vars, NoError
  <2>2. errs' = 0 => errs = 0
    BY <2>1, ErrsZero
  <2> QED BY <2>1, <2>2, ClosingStays, CappedFrame
<1>2. CASE \E p \in Pod : Crash(p)
  <2>1. /\ UNCHANGED <<request, rec, ops, hw, closing, errs>>
        /\ todo' \subseteq todo /\ out' \subseteq out
    BY <1>2 DEF Crash
  <2> QED BY <2>1, CappedFrame
<1> QED BY <1>1, <1>2, BeginCapped, StoreOpCapped, RestartCapped, ResponseCapped,
           CompressStoreCapped, DeletionCapped, WorkerIsActor
        DEF Next, WorkerStep, ReaperStep, Compress

LEMMA InitCapped ==
    ASSUME Init
    PROVE  Capped
<1>1. todo = {} /\ out = {} /\ \A c \in Comp, k \in Ctl : hw[c][k] = -1
  BY DEF Init
<1>2. rec = Plain("none") \/ rec = Plain("completed")
  BY DEF Init
<1>3. ~rec.zip
  BY <1>2 DEF Plain
<1> QED BY <1>1, <1>3 DEF Capped, Single, Shown

\* As long as no etcd operation fails, a task that is reported as completed
\* tells the fate of every component of the request, nothing in the report is
\* pending, and the report has the operation by which a limit was set: whatever
\* HSM knows of the components, and whichever requests to HSM and to controllers
\* fail (also after HSM has answered for some of the components, when doPowerCapTask
\* calls them all failed and goes on with those it has).
THEOREM ReportIsComplete == Tidy => (Spec => []ReportComplete)
<1> SUFFICES ASSUME Tidy PROVE Spec => []ReportComplete
  OBVIOUS
<1> DEFINE Inv == Types /\ Plan /\ Stages /\ Copied /\ Told /\ Reported /\ Capped
<1>1. Init => Inv
  BY InitTypes, InitPlan, InitStages, InitCopied, InitTold, InitCapped
<1>2. Inv /\ [Next]_vars => Inv'
  BY NextTypes, NextPlan, NextStages, NextCopied, NextTold, NextCapped
<1>3. Inv => ReportComplete
  BY DEF Reported, Capped, Shown, Outcome, ReportComplete
<1> HIDE DEF Inv
<1> QED BY <1>1, <1>2, <1>3, PTL DEF Spec

-----------------------------------------------------------------------------
(* Nothing is left behind *)

\* Steps that leave the record and the operations alone, and nobody begins to
\* delete any.
LEMMA SweptFrame ==
    ASSUME Types, Swept, UNCHANGED <<rec, ops, expired, crashes>>, Error \/ NoError,
           lst'[Worker] = lst[Worker],
           pc'[Worker] \in {"cstore", "cdel"} => pc[Worker] \in {"cstore", "cdel"},
           Busy => Busy',
           \A p \in Pod : pc'[p] \in {"edel", "pdel"} =>
                             pc[p] \in {"edel", "pdel"} /\ lst'[p] = lst[p]
    PROVE  Swept'
<1>1. SUFFICES ASSUME errs' = 0 PROVE Swept'
  BY DEF Swept
<1>2. errs = 0
  BY <1>1, ErrsZero
<1> QED BY <1>2 DEF Swept, Clean, Covers

\* Before the completed record is stored only the worker's own list matters:
\* until the record expires, it is there and no reaper is deleting it.
LEMMA WorkingSwept ==
    ASSUME Stages', Working', Busy',
           errs' = 0 /\ pc'[Worker] = "cstore" => Covers(Worker)'
    PROVE  Swept'
<1>1. ~expired' => Clean'
  BY DEF Stages, Underway, Fresh, Clean, Working
<1>2. pc'[Worker] # "cdel"
  BY DEF Working
<1> QED BY <1>1, <1>2 DEF Swept

LEMMA TriggerSwept ==
    ASSUME Types, Types', Plan, Trigger
    PROVE  Swept'
<1>1. SUFFICES ASSUME errs' = 0 PROVE Swept'
  BY DEF Swept
<1>2. rec' = Plain("new") /\ pc' = [pc EXCEPT ![Worker] = "start"]
  BY <1>1, ErrsZero DEF Trigger, Goto
<1>3. rec'.status = "new"
  BY <1>2 DEF Plain
<1>4. pc'[Worker] = "start" /\ \A p \in Pod : pc'[p] = "idle"
  BY <1>2, WorkerIsActor DEF Trigger, Plan, Unborn, Types, TypeOK
<1> QED BY <1>3, <1>4 DEF Swept, Clean

LEMMA BeginSwept ==
    ASSUME Types, Types', Plan, Stages', Swept, Begin
    PROVE  Swept'
<1>1. CASE pc' = [pc EXCEPT ![Worker] = "gen"]
  <2>1. pc'[Worker] = "gen"
    BY <1>1, WorkerIsActor DEF Types, TypeOK
  <2> QED BY <2>1, WorkingSwept DEF Working, Busy
<1>2. CASE pc' = [pc EXCEPT ![Worker] = "idle"]
  <2>1. pc'[Worker] = "idle"
    BY <1>2, WorkerIsActor DEF Types, TypeOK
  <2>2. ops' = NoOps
    BY DEF Begin, Plan, Unborn
  <2>3. Clean'
    BY <2>2 DEF Clean, Covers, NoOps
  <2> QED BY <2>1, <2>3 DEF Swept
<1> QED BY <1>1, <1>2 DEF Begin, Goto

LEMMA WorkSwept ==
    ASSUME Types, Types', Stages',
           \/ (\E t \in todo : StoreOp(t)) \/ Launch \/ (\E o \in out : Response(o))
           \/ Answered
    PROVE  Swept'
<1>1. pc' = pc \/ pc' = [pc EXCEPT ![Worker] = "cget"] \/ pc' = [pc EXCEPT ![Worker] = "send"]
  BY DEF StoreOp, Launch, Response, Answered, Goto
<1>2. pc[Worker] \in {"gen", "send"}
  BY DEF StoreOp, Launch, Response, Answered
<1>3. pc'[Worker] \in {"gen", "send", "cget"}
  BY <1>1, <1>2, WorkerIsActor DEF Types, TypeOK
<1> QED BY <1>3, WorkingSwept DEF Working, Busy

LEMMA WorkerCompressSwept ==
    ASSUME Types, Types', Stages, Stages', Swept,
           CompressGet(Worker) \/ CompressStore(Worker) \/ Compressed(Worker)
    PROVE  Swept'
<1>1. SUFFICES ASSUME errs' = 0 PROVE Swept'
  BY DEF Swept
<1>2. errs = 0 /\ ~Error
  BY <1>1, ErrsZero DEF CompressGet, CompressStore, Compressed, NoError
<1>3. CASE CompressGet(Worker)
  <2>1. pc' = [pc EXCEPT ![Worker] = "cstore"] /\ lst' = [lst EXCEPT ![Worker] = ops]
    BY <1>2, <1>3 DEF CompressGet, Goto
  <2>2. pc'[Worker] = "cstore" /\ lst'[Worker] = ops' /\ ops' = ops
    BY <1>3, <2>1, WorkerIsActor DEF CompressGet, Types, TypeOK
  <2>3. Covers(Worker)'
    BY <2>2 DEF Covers
  <2> QED BY <2>2, <2>3, WorkingSwept DEF Working, Busy
<1>4. CASE CompressStore(Worker)
  <2>1. /\ pc' = [pc EXCEPT ![Worker] = "cdel"] /\ rec'.status = "completed"
        /\ UNCHANGED <<ops, lst, expired, seen>>
    BY <1>2, <1>4 DEF CompressStore, Goto
  <2>2. pc[Worker] = "cstore" /\ pc'[Worker] = "cdel" /\ \A p \in Pod : pc'[p] = pc[p]
    BY <1>4, <2>1, WorkerIsActor DEF CompressStore, Types, TypeOK
  <2>3. Covers(Worker)'
    BY <1>2, <2>1, <2>2 DEF Swept, Covers
  <2>4. ~expired' => Clean'
    BY <2>1, <2>2 DEF Stages, Underway, Working, Fresh, Clean
  <2> QED BY <2>2, <2>3, <2>4 DEF Swept, Busy
<1>5. CASE Compressed(Worker)
  <2>1. pc' = [pc EXCEPT ![Worker] = "idle"] /\ ops' = ops
    BY <1>5 DEF Compressed, Goto, After
  <2>2. pc[Worker] = "cdel" /\ lst[Worker] = NoOps /\ pc'[Worker] = "idle"
    BY <1>5, <2>1, WorkerIsActor DEF Compressed, Types, TypeOK
  <2>3. \A o \in Op : ops'[o] = "none"
    BY <1>2, <2>1, <2>2 DEF Swept, Covers, NoOps
  <2>4. ops' = NoOps
    BY <2>3, AllNone DEF Types, TypeOK
  <2>5. Clean'
    BY <2>3, <2>4 DEF Clean, Covers
  <2> QED BY <2>2, <2>5 DEF Swept
<1> QED BY <1>3, <1>4, <1>5

LEMMA DeleteOpSwept ==
    ASSUME Types, Types', Swept, NEW a \in Actor, DeleteOp(a)
    PROVE  Swept'
<1>1. SUFFICES ASSUME errs' = 0 PROVE Swept'
  BY DEF Swept
<1>2. errs = 0 /\ ~Error
  BY <1>1, ErrsZero DEF DeleteOp
<1>3. PICK o \in Op : /\ lst' = [lst EXCEPT ![a][o] = "none"]
                      /\ ops' = [ops EXCEPT ![o] = "none"]
  BY <1>2 DEF DeleteOp
<1>4. UNCHANGED <<rec, pc, expired, crashes>>
  BY DEF DeleteOp, history
<1>5. /\ ops'[o] = "none"
      /\ \A n \in Op \ {o} : ops'[n] = ops[n] /\ \A b \in Actor : lst'[b][n] = lst[b][n]
  BY <1>3 DEF Types, TypeOK, OpDB
<1>6. ASSUME NEW b \in Actor, Covers(b)
      PROVE  Covers(b)'
  BY <1>5, <1>6 DEF Covers
<1>7. ops = NoOps => ops' = NoOps
  BY <1>5, AllNone DEF Types, TypeOK
<1> QED BY <1>2, <1>4, <1>6, <1>7, WorkerIsActor DEF Swept, Clean, Busy

\* Steps of a reaper that delete nothing.
LEMMA ReaperSwept ==
    ASSUME Types, Swept, NEW p \in Pod,
           \/ ReaperGet(p) \/ ReaperKeep(p) \/ ReaperDone(p)
           \/ CompressGet(p) \/ Compressed(p)
    PROVE  Swept'
<1>1. UNCHANGED <<rec, ops, expired, crashes>> /\ (Error \/ NoError)
  BY DEF ReaperGet, ReaperKeep, ReaperDone, CompressGet, Compressed, history, NoError
<1>2. lst' = lst \/ lst' = [lst EXCEPT ![p] = ops]
  BY DEF ReaperGet, ReaperKeep, ReaperDone, CompressGet, Compressed
<1>3. \E l \in {"got", "cget", "full", "idle", "cstore"} : pc' = [pc EXCEPT ![p] = l]
  BY DEF ReaperGet, ReaperKeep, ReaperDone, CompressGet, Compressed, Goto, Counted, After
<1>4. p # Worker
  BY WorkerIsActor
<1>5. /\ pc'[p] \notin {"edel", "pdel"}
      /\ \A a \in Actor : a # p => pc'[a] = pc[a] /\ lst'[a] = lst[a]
  BY <1>2, <1>3, WorkerIsActor DEF Types, TypeOK
<1>6. Busy' <=> Busy
  BY <1>4, <1>5, WorkerIsActor DEF Busy
<1> QED BY <1>1, <1>4, <1>5, <1>6, SweptFrame, WorkerIsActor

LEMMA PodCompressStoreSwept ==
    ASSUME Types, Swept, NEW p \in Pod, CompressStore(p)
    PROVE  Swept'
<1>1. SUFFICES ASSUME errs' = 0 PROVE Swept'
  BY DEF Swept
<1>2. errs = 0 /\ ~Error
  BY <1>1, ErrsZero DEF CompressStore
<1>3. /\ pc' = [pc EXCEPT ![p] = "cdel"] /\ rec'.status = "completed"
      /\ UNCHANGED <<ops, lst, expired, crashes>>
  BY <1>2 DEF CompressStore, Goto, history
<1>4. p # Worker
  BY WorkerIsActor
<1>5. pc'[p] = "cdel" /\ \A a \in Actor : a # p => pc'[a] = pc[a]
  BY <1>3, WorkerIsActor DEF Types, TypeOK
<1>6. \A a \in Actor : Covers(a)' <=> Covers(a)
  BY <1>3 DEF Covers
<1>7. Clean => Clean'
  BY <1>3, <1>5, <1>6, WorkerIsActor DEF Clean
<1> QED BY <1>2, <1>3, <1>4, <1>5, <1>6, <1>7, WorkerIsActor DEF Swept, Busy

\* A deletion begins with a list of everything that is there, ...
LEMMA DeleteGetSwept ==
    ASSUME Types, Swept, NEW p \in Pod, ReaperExpired(p) \/ ReaperPrune(p)
    PROVE  Swept'
<1>1. SUFFICES ASSUME errs' = 0 PROVE Swept'
  BY DEF Swept
<1>2. errs = 0 /\ ~Error
  BY <1>1, ErrsZero DEF ReaperExpired, ReaperPrune, DeleteGet
<1>3. /\ \E l : pc' = [pc EXCEPT ![p] = l]
      /\ lst' = [lst EXCEPT ![p] = ops]
      /\ UNCHANGED <<rec, ops, expired, crashes>>
  BY <1>2 DEF ReaperExpired, ReaperPrune, DeleteGet, Goto, history
<1>4. p # Worker
  BY WorkerIsActor
<1>5. lst'[p] = ops' /\ \A a \in Actor : a # p => pc'[a] = pc[a] /\ lst'[a] = lst[a]
  BY <1>3, WorkerIsActor DEF Types, TypeOK
<1>6. Covers(p)' /\ \A a \in Actor : a # p => (Covers(a)' <=> Covers(a))
  BY <1>3, <1>5 DEF Covers
<1>7. Clean => Clean'
  BY <1>3, <1>5, <1>6, WorkerIsActor DEF Clean
<1> QED BY <1>2, <1>3, <1>4, <1>5, <1>6, <1>7, WorkerIsActor DEF Swept, Busy

\* ... so that nothing is left when the record is.
LEMMA DeleteRecordSwept ==
    ASSUME Types, Types', Swept, NEW p \in Pod, DeleteRecord(p)
    PROVE  Swept'
<1>1. SUFFICES ASSUME errs' = 0 PROVE Swept'
  BY DEF Swept
<1>2. errs = 0 /\ ~Error
  BY <1>1, ErrsZero DEF DeleteRecord
<1>3. /\ \E l \in {"full", "idle"} : pc' = [pc EXCEPT ![p] = l]
      /\ pc[p] \in {"edel", "pdel"} /\ lst[p] = NoOps
      /\ UNCHANGED <<ops, lst, expired, crashes>>
  BY DEF DeleteRecord, Goto, Counted, history
<1>4. p # Worker
  BY WorkerIsActor
<1>5. pc'[p] \notin {"edel", "pdel"} /\ \A a \in Actor : a # p => pc'[a] = pc[a]
  BY <1>3, WorkerIsActor DEF Types, TypeOK
<1>6. \A a \in Actor : Covers(a)' <=> Covers(a)
  BY <1>3 DEF Covers
<1>7. Clean => Clean'
  <2>1. SUFFICES ASSUME Clean PROVE Clean'
    OBVIOUS
  <2>2. \A o \in Op : ops'[o] = "none"
    BY <1>3, <2>1 DEF Clean, Covers, NoOps
  <2>3. ops' = NoOps
    BY <2>2, AllNone DEF Types, TypeOK
  <2> QED BY <2>2, <2>3 DEF Clean, Covers
<1> QED BY <1>2, <1>3, <1>4, <1>5, <1>6, <1>7, WorkerIsActor DEF Swept, Busy

LEMMA CrashSwept ==
    ASSUME Types, Types', Swept, NEW p \in Pod, Crash(p)
    PROVE  Swept'
<1>1. UNCHANGED <<rec, ops, expired, errs>> /\ crashes' = crashes + 1
  BY DEF Crash
<1>2. crashes' # 0
  BY <1>1 DEF Types, TypeOK
<1>3. \A a \in Actor : pc'[a] = "idle" \/ (pc'[a] = pc[a] /\ lst'[a] = lst[a])
  <2> DEFINE dead == {p} \cup (IF p = Home THEN {Worker} ELSE {})
  <2>1. /\ pc'  = [a \in Actor |-> IF a \in dead THEN "idle" ELSE pc[a]]
        /\ lst' = [a \in Actor |-> IF a \in dead THEN NoOps ELSE lst[a]]
    BY DEF Crash
  <2> HIDE DEF dead
  <2> QED BY <2>1
<1>4. \A a \in Actor : pc'[a] # "idle" => pc'[a] = pc[a] /\ (Covers(a) => Covers(a)')
  BY <1>1, <1>3 DEF Covers
<1>5. Clean => Clean'
  BY <1>1, <1>4, WorkerIsActor DEF Clean
<1> QED BY <1>1, <1>2, <1>4, <1>5, WorkerIsActor DEF Swept

LEMMA ExpireSwept ==
    ASSUME Types, Swept, Expire
    PROVE  Swept'
BY DEF Expire, Swept, Clean, Covers

LEMMA StutterSwept ==
    ASSUME Swept, UNCHANGED vars
    PROVE  Swept'
BY DEF vars, history, Swept, Clean, Covers, Busy

LEMMA NextSwept ==
    ASSUME Types, Plan, Stages, Swept, [Next]_vars
    PROVE  Swept'
<1>0. Types' /\ Stages'
  BY NextTypes, NextStages
<1>1. CASE WorkerStep
  BY <1>0, <1>1, BeginSwept, WorkSwept, WorkerCompressSwept, DeleteOpSwept, WorkerIsActor
     DEF WorkerStep, Compress
<1>2. CASE \E p \in Pod : ReaperStep(p) \/ Crash(p)
  BY <1>0, <1>2, ReaperSwept, PodCompressStoreSwept, DeleteGetSwept, DeleteRecordSwept,
     DeleteOpSwept, CrashSwept, WorkerIsActor DEF ReaperStep, Compress
<1> QED BY <1>0, <1>1, <1>2, TriggerSwept, ExpireSwept, StutterSwept DEF Next

\* As long as no etcd operation fails, a task leaves no operation under its ID
\* once its record is gone and nobody is at work on it, unless the worker was
\* killed after its record had expired: although powerCapReaper deletes records
\* that a worker is still adding operations to, and both delete operations with
\* no lock between them.
THEOREM NoOperationIsOrphaned == Spec => []NoOrphanOps
<1> DEFINE Inv == Types /\ Plan /\ Stages /\ Swept
<1>1. Init => Inv
  <2>1. Init => Swept
    <3> SUFFICES ASSUME Init PROVE Swept
      OBVIOUS
    <3>1. \A a \in Actor : pc[a] = "idle"
      BY DEF Init
    <3>2. \/ rec = Plain("none") /\ ops = NoOps
          \/ rec = Plain("completed")
      BY DEF Init
    <3>3. rec.status = "none" => ops = NoOps
      BY <3>2 DEF Plain
    <3> QED BY <3>1, <3>3, WorkerIsActor DEF Swept, Clean
  <2> QED BY <2>1, InitTypes, InitPlan, InitStages
<1>2. Inv /\ [Next]_vars => Inv'
  BY NextTypes, NextPlan, NextStages, NextSwept
<1>3. Inv => NoOrphanOps
  <2> SUFFICES ASSUME Inv, errs = 0, \A a \in Actor : pc[a] = "idle",
                      ~(expired /\ crashes > 0)
               PROVE  rec.status = "none" => ops = NoOps
    BY DEF NoOrphanOps
  <2>1. ~expired \/ crashes = 0
    BY DEF Types, TypeOK
  <2> QED BY <2>1, WorkerIsActor DEF Swept, Clean, Busy
<1> HIDE DEF Inv
<1> QED BY <1>1, <1>2, <1>3, PTL DEF Spec
=============================================================================
