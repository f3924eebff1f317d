---------------------------- MODULE Reservations ----------------------------
(***************************************************************************)
(* How the workers of power-control hold the components they command:      *)
(* ReserveComponents, CheckDeputyKeys and ReleaseComponents of the HSM     *)
(* client (internal/hsm/state_manager.go), the parts of doTransition that  *)
(* call them (internal/domain/transitions.go), and, as external parts, the *)
(* reservations kept by HSM and the library's map of reservations, whose   *)
(* thread renews what the map holds every ten seconds.                     *)
(*                                                                         *)
(* A reservation lives for a minute unless it is renewed.  Time is         *)
(* abstracted: a reservation in the map of a running pod is renewed, any   *)
(* other may lapse at any moment, and a renewed one lapses too when HSM    *)
(* cannot be reached for that minute.  A reservation key and its deputy    *)
(* key are one value; the deputy key a caller passes in is Ext.            *)
(***************************************************************************)
EXTENDS Naturals, FiniteSets

CONSTANTS Pod, Trans, Comp,
          On,          \* On[t] is the set of components transition t is about
          Home,        \* bound: Home[t] is the set of pods that may run t
          Keys,        \* bound: the keys HSM hands out, used again once forgotten
          Free, Ext,   \* HSM's entry: nobody's, or reserved by another service
          None,        \* no key
          Lent,        \* the components the other service may have reserved
          MaxTiers,    \* bound: tiers in which a worker sends commands
          MaxCrash     \* bound: pod crashes

ASSUME ReservationAssumption ==
    /\ On \in [Trans -> SUBSET Comp] /\ Lent \subseteq Comp
    /\ Home \in [Trans -> (SUBSET Pod) \ {{}}]
    /\ Keys \subseteq Nat /\ IsFiniteSet(Keys)
    /\ Free \notin Keys /\ Ext \notin Keys /\ None \notin Keys
    /\ Free # Ext /\ Free # None /\ Ext # None
    /\ MaxTiers \in Nat \ {0} /\ MaxCrash \in Nat

VARIABLES hsm,      \* HSM's reservation of each component
          map,      \* the library's reservedMap of each pod
          thread,   \* the renewal thread of each pod, with the answer it waits for
          task,     \* the stored task of each component of a transition
          pc, pod,  \* where the worker of a transition is, and on which pod
          data,     \* its reservationData
          tier,     \* the tiers it has been through
          crashes,
          lost,     \* some reservation was left unrenewed while its pod ran
          erred,    \* HSM answered some worker's call with an error
          late      \* what a worker has sent a tier's commands to unreserved

vars == <<hsm, map, thread, task, pc, pod, data, tier, crashes, lost, erred, late>>
worker == <<pc, pod, data, tier>>

(* A map entry: the key, and whether its expiration is known (Reacquire    *)
(* leaves it zero).                                                        *)
Entry == [key : Keys, dated : BOOLEAN]
NoEntry == [key |-> None, dated |-> FALSE]

Sleeping == [awake |-> FALSE, good |-> {}, bad |-> {}]

(* A task: whether it is unfinished, its key, and whether it is its own    *)
(* reservation's (ReservationKey) or only a deputy key.                    *)
Task == [open : BOOLEAN, key : Keys \cup {Ext, None}, own : BOOLEAN]

(* An element of reservationData.  state: out (not in the list), need      *)
(* (needRsv), renewed (in Reacquire's answer), owner (ReservationOwner) or *)
(* deputy (its deputy key is valid).                                       *)
Datum == [state : {"out", "need", "renewed", "owner", "deputy"},
          key : Keys \cup {Ext, None}, own : BOOLEAN]
Out == [state |-> "out", key |-> None, own |-> FALSE]

Steps == {"idle", "reacquire", "flexcheck", "validate", "acquire", "record",
          "check", "command", "release", "ended"}

Init ==
    /\ hsm \in [Comp -> {Free, Ext}]
    /\ \A c \in Comp : hsm[c] = Ext => c \in Lent
    /\ map = [p \in Pod |-> [c \in Comp |-> NoEntry]]
    /\ thread = [p \in Pod |-> Sleeping]
    /\ task \in [Trans -> [Comp -> {[open |-> o, key |-> k, own |-> FALSE] :
                                        o \in BOOLEAN, k \in {Ext, None}}]]
    /\ \A t \in Trans, c \in Comp :
          /\ task[t][c].open <=> c \in On[t]
          /\ task[t][c].key = Ext => c \in On[t] /\ hsm[c] = Ext
    /\ pc = [t \in Trans |-> "idle"]
    /\ pod = [t \in Trans |-> CHOOSE p \in Home[t] : TRUE]
    /\ data = [t \in Trans |-> [c \in Comp |-> Out]]
    /\ tier = [t \in Trans |-> 0]
    /\ crashes = 0
    /\ lost = FALSE
    /\ erred = FALSE
    /\ late = [t \in Trans |-> {}]

-----------------------------------------------------------------------------
(* HSM (external).                                                         *)

InUse(c) ==
    {hsm[c]} \cup {map[p][c].key : p \in Pod}
    \cup {task[t][c].key : t \in Trans} \cup {data[t][c].key : t \in Trans}

Fresh(c) == {k \in Keys \ InUse(c) : \A j \in Keys \ InUse(c) : k <= j}

Renewed(c) == \E p \in Pod : map[p][c].key = hsm[c]

(* The reservation's minute is over.                                       *)
Lapse(c) ==
    /\ hsm[c] \in Keys
    /\ hsm' = [hsm EXCEPT ![c] = Free]
    /\ lost' = (lost \/ Renewed(c))
    /\ UNCHANGED <<map, thread, task, worker, crashes, erred, late>>

LapseUnrenewed(c) == ~Renewed(c) /\ Lapse(c)

(* The other service gives its reservation back.                           *)
ExtReleases(c) ==
    /\ hsm[c] = Ext
    /\ hsm' = [hsm EXCEPT ![c] = Free]
    /\ UNCHANGED <<map, thread, task, worker, crashes, lost, erred, late>>

-----------------------------------------------------------------------------
(* The library's renewal thread (external): update() asks HSM about the    *)
(* deputy keys in the map; when the answer is there, the entries it        *)
(* refuses go, those it accepts get their expiration date, and the sweep   *)
(* that follows drops every entry whose date is past, the zero date of a   *)
(* reacquired one included.  Answers are applied by component, whatever    *)
(* key the map holds by then.  An error leaves only the sweep.             *)

InMap(p) == {c \in Comp : map[p][c].key # None}

UpdateAsk(p) ==
    /\ ~thread[p].awake
    /\ InMap(p) # {}
    /\ \/ LET good == {c \in InMap(p) : hsm[c] = map[p][c].key}
          IN  thread' = [thread EXCEPT ![p] = [awake |-> TRUE, good |-> good,
                                               bad |-> InMap(p) \ good]]
       \/ thread' = [thread EXCEPT ![p].awake = TRUE]
    /\ UNCHANGED <<hsm, map, task, worker, crashes, lost, erred, late>>

Sweep(p) ==
    LET gone == {c \in InMap(p) : \/ c \in thread[p].bad
                                  \/ /\ c \notin thread[p].good
                                     /\ ~map[p][c].dated}
    IN  /\ thread[p].awake
        /\ thread' = [thread EXCEPT ![p] = Sleeping]
        /\ map' = [map EXCEPT ![p] = [c \in Comp |->
                     IF c \in gone THEN NoEntry
                     ELSE IF c \in InMap(p) \cap thread[p].good
                          THEN [@[c] EXCEPT !.dated = TRUE] ELSE @[c]]]
        /\ lost' = (lost \/ \E c \in gone : map[p][c].key = hsm[c])
        /\ UNCHANGED <<hsm, task, worker, crashes, erred, late>>

-----------------------------------------------------------------------------
(* doTransition and ReserveComponents.                                     *)

(* sequenceComponents lists the unfinished tasks, and the finished ones    *)
(* that hold a reservation, so that it is released.                        *)
Listed(t) == {c \in On[t] : task[t][c].open \/ task[t][c].own}

(* The components of a reservationData d that still need a reservation,    *)
(* and those of them with a key, their own or a given one.                 *)
Need(d) == {c \in Comp : d[c].state = "need"}
Again(d) == {c \in Need(d) : d[c].own}
Given(d) == {c \in Need(d) : ~d[c].own /\ d[c].key # None}

(* The next call to HSM that has something to ask.                         *)
AfterReacquire(d) ==
    IF Given(d) # {} THEN "validate" ELSE IF Need(d) # {} THEN "acquire" ELSE "record"

Start(t, p) ==
    /\ pc[t] = "idle"
    /\ pod' = [pod EXCEPT ![t] = p]
    /\ data' = [data EXCEPT ![t] = [c \in Comp |->
                  IF c \in Listed(t)
                  THEN [state |-> "need", key |-> task[t][c].key, own |-> task[t][c].own]
                  ELSE Out]]
    /\ pc' = [pc EXCEPT ![t] = IF Again(data'[t]) # {} THEN "reacquire"
                                ELSE AfterReacquire(data'[t])]
    /\ UNCHANGED <<hsm, map, thread, task, tier, crashes, lost, erred, late>>

(* compressAndCompleteTransition deletes the tasks with their keys.        *)
Deleted == [open |-> FALSE, key |-> None, own |-> FALSE]

Compress(t) == task' = [task EXCEPT ![t] = [c \in Comp |-> Deleted]]

(* An error of ReserveComponents fails every unfinished task and completes *)
(* the transition; nothing is released.                                    *)
ReserveError(t) ==
    /\ erred' = TRUE
    /\ Compress(t)
    /\ pc' = [pc EXCEPT ![t] = "ended"]
    /\ data' = [data EXCEPT ![t] = [c \in Comp |-> Out]]
    /\ UNCHANGED <<thread, pod, tier, crashes, lost, late>>

(* Mutant: the reacquired reservations do not reach the map.               *)
Reacquire_NotMapped(t) ==
    /\ pc[t] = "reacquire"
    /\ pc' = [pc EXCEPT ![t] = "flexcheck"]
    /\ data' = [data EXCEPT ![t] = [c \in Comp |->
                  IF c \in Again(@) /\ hsm[c] = @[c].key
                  THEN [@[c] EXCEPT !.state = "renewed"] ELSE @[c]]]
    /\ UNCHANGED <<hsm, map, thread, task, pod, tier, crashes, lost, erred, late>>

Reacquire(t) ==
    LET renewed == {c \in Again(data[t]) : hsm[c] = data[t][c].key}
    IN  /\ pc[t] = "reacquire"
        /\ \/ /\ map' = [map EXCEPT ![pod[t]] = [c \in Comp |->
                           IF c \in renewed
                           THEN [key |-> data[t][c].key, dated |-> FALSE] ELSE @[c]]]
              /\ data' = [data EXCEPT ![t] = [c \in Comp |->
                            IF c \in renewed THEN [@[c] EXCEPT !.state = "renewed"]
                                             ELSE @[c]]]
              /\ pc' = [pc EXCEPT ![t] = "flexcheck"]
              /\ UNCHANGED <<hsm, thread, task, pod, tier, crashes, lost, erred, late>>
           \/ ReserveError(t) /\ UNCHANGED <<hsm, map>>

(* What the map holds of the reacquired components becomes ours.           *)
FlexCheck(t) ==
    /\ pc[t] = "flexcheck"
    /\ data' = [data EXCEPT ![t] = [c \in Comp |->
                  IF @[c].state # "renewed" THEN @[c]
                  ELSE IF c \in InMap(pod[t])
                       THEN [state |-> "owner", key |-> map[pod[t]][c].key, own |-> TRUE]
                       ELSE [@[c] EXCEPT !.state = "need"]]]
    /\ pc' = [pc EXCEPT ![t] = AfterReacquire(data'[t])]
    /\ UNCHANGED <<hsm, map, thread, task, pod, tier, crashes, lost, erred, late>>

ValidateDeputyKeys(t) ==
    /\ pc[t] = "validate"
    /\ \/ /\ data' = [data EXCEPT ![t] = [c \in Comp |->
                        IF c \in Given(@) /\ hsm[c] = @[c].key
                        THEN [@[c] EXCEPT !.state = "deputy"] ELSE @[c]]]
          /\ pc' = [pc EXCEPT ![t] = IF Need(data'[t]) # {} THEN "acquire" ELSE "record"]
          /\ UNCHANGED <<hsm, map, thread, task, pod, tier, crashes, lost, erred, late>>
       \/ ReserveError(t) /\ UNCHANGED <<hsm, map>>

(* HSM reserves the components of S, which are free.                       *)
Granted(S) == [c \in Comp |-> IF c \in S THEN CHOOSE k \in Fresh(c) : TRUE ELSE hsm[c]]

(* Mutant: the acquired reservations do not reach the map.                 *)
FlexAquire_NotMapped(t) ==
    LET won == {c \in Need(data[t]) : hsm[c] = Free}
    IN  /\ pc[t] = "acquire"
        /\ \A c \in won : Fresh(c) # {}
        /\ hsm' = Granted(won)
        /\ data' = [data EXCEPT ![t] = [c \in Comp |->
                      IF c \in won THEN [state |-> "owner", key |-> hsm'[c], own |-> TRUE]
                                   ELSE @[c]]]
        /\ pc' = [pc EXCEPT ![t] = "record"]
        /\ UNCHANGED <<map, thread, task, pod, tier, crashes, lost, erred, late>>

(* The answer may be lost after HSM has reserved some components.          *)
FlexAquire(t) ==
    LET won == {c \in Need(data[t]) : hsm[c] = Free}
    IN  /\ pc[t] = "acquire"
        /\ \A c \in won : Fresh(c) # {}
        /\ \/ /\ hsm' = Granted(won)
              /\ map' = [map EXCEPT ![pod[t]] = [c \in Comp |->
                           IF c \in won THEN [key |-> hsm'[c], dated |-> TRUE] ELSE @[c]]]
              /\ data' = [data EXCEPT ![t] = [c \in Comp |->
                            IF c \in won
                            THEN [state |-> "owner", key |-> hsm'[c], own |-> TRUE]
                            ELSE @[c]]]
              /\ pc' = [pc EXCEPT ![t] = "record"]
              /\ UNCHANGED <<thread, task, pod, tier, crashes, lost, erred, late>>
           \/ /\ ReserveError(t)
              /\ \E S \in {{}, won} : hsm' = Granted(S)
              /\ UNCHANGED map

(* The keys of what is held are stored with the tasks, one by one, and     *)
(* the unfinished tasks of what could not be reserved fail.                *)
Recorded(t, c) ==
    CASE data[t][c].state \in {"owner", "deputy"} ->
            task[t][c].key = data[t][c].key /\ task[t][c].own = data[t][c].own
      [] data[t][c].state = "need" -> ~task[t][c].open
      [] OTHER -> TRUE

StoreKeys(t) ==
    /\ pc[t] = "record"
    /\ \/ \E c \in {d \in Comp : ~Recorded(t, d)} :
             /\ task' = [task EXCEPT ![t][c] =
                          IF data[t][c].state = "need" THEN [@ EXCEPT !.open = FALSE]
                          ELSE [@ EXCEPT !.key = data[t][c].key, !.own = data[t][c].own]]
             /\ UNCHANGED pc
       \/ /\ \A c \in Comp : Recorded(t, c)
          /\ pc' = [pc EXCEPT ![t] = "check"]
          /\ UNCHANGED task
    /\ UNCHANGED <<hsm, map, thread, pod, data, tier, crashes, lost, erred, late>>

Unfinished(t) == {c \in On[t] : task[t][c].open}

Close(t, S) ==
    task' = [task EXCEPT ![t] = [c \in Comp |->
               IF c \in S THEN [@[c] EXCEPT !.open = FALSE] ELSE @[c]]]

(* Mutant: the verdict of the check is not looked at.                      *)
CheckDeputyKeys_Ignored(t) ==
    /\ pc[t] = "check"
    /\ pc' = [pc EXCEPT ![t] = "command"]
    /\ UNCHANGED <<hsm, map, thread, task, pod, data, tier, crashes, lost, erred, late>>

(* At each tier the keys are checked and the tasks whose key is no longer  *)
(* good fail.  When HSM does not answer, the tier goes on.                 *)
CheckDeputyKeys(t) ==
    /\ pc[t] = "check"
    /\ pc' = [pc EXCEPT ![t] = "command"]
    /\ \/ /\ Close(t, {c \in Unfinished(t) : /\ data[t][c].key # None
                                             /\ hsm[c] # data[t][c].key})
          /\ UNCHANGED erred
       \/ /\ \E c \in Comp : data[t][c].key # None
          /\ erred' = TRUE
          /\ UNCHANGED task
    /\ UNCHANGED <<hsm, map, thread, pod, data, tier, crashes, lost, late>>

(* Mutant: the abort path returns before the release is deferred.          *)
AbortSeen_NoRelease(t) ==
    /\ pc[t] = "check"
    /\ Compress(t)
    /\ pc' = [pc EXCEPT ![t] = "ended"]
    /\ data' = [data EXCEPT ![t] = [c \in Comp |-> Out]]
    /\ UNCHANGED <<hsm, map, thread, pod, tier, crashes, lost, erred, late>>

AbortSeen(t) ==
    /\ pc[t] = "check"
    /\ Compress(t)
    /\ pc' = [pc EXCEPT ![t] = "release"]
    /\ UNCHANGED <<hsm, map, thread, pod, data, tier, crashes, lost, erred, late>>

Counted(t) ==
    late' = [late EXCEPT ![t] = @ \cup {c \in Unfinished(t) : hsm[c] # data[t][c].key}]

(* Mutant: the loop over the tiers does not stop.                          *)
Tier_Endless(t) ==
    /\ pc[t] = "command"
    /\ tier' = [tier EXCEPT ![t] = @ + 1]
    /\ Counted(t)
    /\ \E done \in SUBSET Unfinished(t) : Close(t, done)
    /\ pc' = [pc EXCEPT ![t] = "check"]
    /\ UNCHANGED <<hsm, map, thread, pod, data, crashes, lost, erred>>

(* One tier's commands, and the tasks that end with it.  No task outlives  *)
(* the last tier (PowerSequence's AllFinished); after it the record is     *)
(* completed and nobody takes the transition up again.                     *)
Tier(t) ==
    /\ pc[t] = "command"
    /\ tier' = [tier EXCEPT ![t] = @ + 1]
    /\ Counted(t)
    /\ IF tier'[t] = MaxTiers
       THEN Compress(t)
       ELSE \E done \in SUBSET Unfinished(t) : Close(t, done)
    /\ pc' = [pc EXCEPT ![t] = IF tier'[t] = MaxTiers THEN "release" ELSE "check"]
    /\ UNCHANGED <<hsm, map, thread, pod, data, crashes, lost, erred>>

(* Releasing the components of S, with the keys the map has for them.      *)
(* After an error the map keeps its entries, whatever HSM did.             *)
ReleaseAll(t, S) ==
    LET freed == {c \in S \cap InMap(pod[t]) : hsm[c] = map[pod[t]][c].key}
        Freed(T) == [c \in Comp |-> IF c \in T THEN Free ELSE hsm[c]]
    IN  /\ pc[t] = "release"
        /\ pc' = [pc EXCEPT ![t] = "ended"]
        /\ tier' = [tier EXCEPT ![t] = 0]
        /\ late' = [late EXCEPT ![t] = {}]
        /\ data' = [data EXCEPT ![t] = [c \in Comp |-> Out]]
        /\ \/ /\ hsm' = Freed(freed)
              /\ map' = [map EXCEPT ![pod[t]] = [c \in Comp |->
                           IF c \in freed THEN NoEntry ELSE @[c]]]
              /\ UNCHANGED erred
           \/ /\ S # {}
              /\ erred' = TRUE
              /\ \E T \in {{}, freed} : hsm' = Freed(T)
              /\ UNCHANGED map
        /\ UNCHANGED <<thread, task, pod, crashes, lost>>

(* Mutant: every listed component is released.                             *)
ReleaseComponents_Listed(t) == ReleaseAll(t, {c \in Comp : data[t][c].state # "out"})

ReleaseComponents(t) == ReleaseAll(t, {c \in Comp : data[t][c].state = "owner"})

-----------------------------------------------------------------------------
(* A pod dies and comes back with an empty map; its workers are gone.      *)
Crash(p) ==
    /\ crashes < MaxCrash
    /\ crashes' = crashes + 1
    /\ map' = [map EXCEPT ![p] = [c \in Comp |-> NoEntry]]
    /\ thread' = [thread EXCEPT ![p] = Sleeping]
    /\ pc' = [t \in Trans |-> IF pod[t] # p \/ pc[t] = "ended" THEN pc[t]
                              ELSE IF pc[t] = "release" THEN "ended" ELSE "idle"]
    /\ data' = [t \in Trans |-> IF pod[t] # p THEN data[t] ELSE [c \in Comp |-> Out]]
    /\ tier' = [t \in Trans |-> IF pod[t] # p THEN tier[t] ELSE 0]
    /\ late' = [t \in Trans |-> IF pod[t] # p THEN late[t] ELSE {}]
    /\ UNCHANGED <<hsm, task, pod, lost, erred>>

WorkerStep(t) ==
    \/ \E p \in Home[t] : Start(t, p)
    \/ Reacquire(t)
    \/ FlexCheck(t)
    \/ ValidateDeputyKeys(t)
    \/ FlexAquire(t)
    \/ StoreKeys(t)
    \/ CheckDeputyKeys(t)
    \/ AbortSeen(t)
    \/ Tier(t)
    \/ ReleaseComponents(t)

Next ==
    \/ \E t \in Trans : WorkerStep(t)
    \/ \E p \in Pod : UpdateAsk(p) \/ Sweep(p) \/ Crash(p)
    \/ \E c \in Comp : Lapse(c) \/ ExtReleases(c)

Spec == Init /\ [][Next]_vars

(* Workers are scheduled, the reaper restarts what a crash left behind,    *)
(* and a reservation nobody renews lapses.                                 *)
FairSpec ==
    /\ Spec
    /\ \A t \in Trans : WF_vars(WorkerStep(t))
    /\ \A c \in Comp : WF_vars(LapseUnrenewed(c))

-----------------------------------------------------------------------------
(* The type invariant.                                                     *)
TypeOK ==
    /\ hsm \in [Comp -> Keys \cup {Free, Ext}]
    /\ map \in [Pod -> [Comp -> Entry \cup {NoEntry}]]
    /\ thread \in [Pod -> [awake : BOOLEAN, good : SUBSET Comp, bad : SUBSET Comp]]
    /\ task \in [Trans -> [Comp -> Task]]
    /\ pc \in [Trans -> Steps] /\ pod \in [Trans -> Pod]
    /\ data \in [Trans -> [Comp -> Datum]]
    /\ tier \in [Trans -> 0..MaxTiers]
    /\ crashes \in 0..MaxCrash /\ lost \in BOOLEAN /\ erred \in BOOLEAN
    /\ late \in [Trans -> SUBSET Comp]

Acting(t, c) == pc[t] = "command" /\ c \in Unfinished(t)

(* While no reservation in a pod's map goes unrenewed, two transitions     *)
(* never command one component by reservations of their own, through       *)
(* crashes, restarts on another pod and errors of any call to HSM          *)
(* (transitions.go reserves before the first tier and releases after the   *)
(* last).                                                                  *)
Exclusive ==
    \A t, u \in Trans, c \in Comp :
        (t # u /\ Acting(t, c) /\ Acting(u, c)
           /\ data[t][c].state = "owner" /\ data[u][c].state = "owner") => lost

(* A worker whose reservation, or the reservation behind its deputy key,   *)
(* is gone finishes at most the tier it is in: the check of the next tier  *)
(* fails its task, as long as HSM answers it.                              *)
OneTierLate == \A t \in Trans : \A c \in late[t] : Acting(t, c) => erred

(* A transition taken up again is never refused a component by the         *)
(* reservation it made itself before the crash and stored with its task.   *)
KeepsOwn ==
    \A t \in Trans, c \in Comp :
        (pc[t] = "record" /\ data[t][c].state = "need" /\ task[t][c].own)
            => hsm[c] # task[t][c].key \/ lost

(* ReleaseComponents gives back the worker's own reservations only, though *)
(* it names them by component and the keys come from a map that the        *)
(* transitions of a pod share.                                             *)
ReleaseOwn ==
    [][\A t \in Trans, c \in Comp :
          (pc[t] = "release" /\ pc'[t] = "ended" /\ hsm[c] # hsm'[c])
              => hsm[c] = data[t][c].key \/ lost]_vars

(* No reservation is kept for ever: whatever crashes, all of them are back *)
(* in the end, unless HSM answered a worker with an error.                 *)
Freed == []<>(erred \/ \A c \in Comp : hsm[c] \notin Keys)
=============================================================================
