-------------------------- MODULE ReservationsProofs --------------------------
(***************************************************************************)
(* Theorems about Reservations for every set of pods, transitions and      *)
(* components, any number of keys, tiers and crashes.                      *)
(***************************************************************************)
EXTENDS Reservations, TLAPS

-----------------------------------------------------------------------------
(* The inductive invariants *)

\* Reserving: from the list of what is needed to the recorded keys.
Reserving == {"reacquire", "flexcheck", "validate", "acquire", "record"}

\* Keys that are said to be a transition's own were handed out by HSM.
OwnedAt(d, k, l) ==
    /\ k.own => k.key \in Keys
    /\ d.own => d.key \in Keys
    /\ d.state \in {"renewed", "owner"} => d.own
    /\ d.state = "deputy" => d.key # None
    /\ d.state = "renewed" => l = "flexcheck"
Owned == \A t \in Trans, c \in Comp : OwnedAt(data[t][c], task[t][c], pc[t])

\* A worker is not yet through its last tier.
Tiers == \A t \in Trans : pc[t] \notin {"release", "ended"} => tier[t] < MaxTiers

\* A worker's list is about the tasks it was made from.
MatchedAt(d, k, l, on) ==
    /\ l \in Reserving /\ d.state \in {"need", "renewed"} => k.key = d.key /\ k.own = d.own
    /\ l \in Reserving /\ on /\ k.open => d.state # "out"
    /\ l \in {"check", "command"} /\ on /\ k.open => d.state \in {"owner", "deputy"}
Matched == \A t \in Trans, c \in Comp : MatchedAt(data[t][c], task[t][c], pc[t], c \in On[t])

\* While nothing goes unrenewed, what a worker takes for its own is HSM's and
\* in the map of its pod, and no key is two transitions' own.
HeldAt(d, h, k) == d.state \in {"renewed", "owner"} => h = d.key /\ k = d.key
Held == \A t \in Trans, c \in Comp : HeldAt(data[t][c], hsm[c], map[pod[t]][c].key)

OwnKeys(d, k) == {x \in Keys : (d.own /\ d.key = x) \/ (k.own /\ k.key = x)}
Apart ==
    \A t, u \in Trans, c \in Comp : t # u =>
       OwnKeys(data[t][c], task[t][c]) \cap OwnKeys(data[u][c], task[u][c]) = {}

Guarded == ~lost => Held /\ Apart

\* A reservation that is gone stays gone for those who know its key.
Early == {"idle", "ended"} \cup Reserving
GoneAt(t) ==
    /\ pc[t] \in Early => late[t] = {}
    /\ \A c \in late[t] : c \in Unfinished(t) =>
          hsm[c] # data[t][c].key /\ (pc[t] = "command" => erred)
Gone == \A t \in Trans : GoneAt(t)

\* What was the transition's own has been asked for first.
AskedAt(d, l, h) ==
    l \in Reserving \ {"reacquire"} /\ d.state = "need" /\ d.own => h # d.key
Asked == ~lost => \A t \in Trans, c \in Comp : AskedAt(data[t][c], pc[t], hsm[c])

-----------------------------------------------------------------------------
(* Type correctness *)

LEMMA Shapes ==
    /\ Out \in Datum /\ Deleted \in Task /\ Out.state = "out" /\ Out.key = None /\ ~Out.own
    /\ Deleted.key = None /\ ~Deleted.own /\ ~Deleted.open
    /\ NoEntry.key = None /\ NoEntry \in Entry \cup {NoEntry}
    /\ \A e \in Entry \cup {NoEntry} : e.key # None => e \in Entry /\ e.key \in Keys
<1>1. Out \in Datum /\ Out.state = "out" /\ Out.key = None /\ ~Out.own
  BY DEF Out, Datum
<1>2. Deleted \in Task /\ Deleted.key = None /\ ~Deleted.own /\ ~Deleted.open
  BY DEF Deleted, Task
<1>3. NoEntry.key = None /\ \A e \in Entry : e.key \in Keys
  BY DEF NoEntry, Entry
<1> QED BY <1>1, <1>2, <1>3

LEMMA HomePods ==
    ASSUME NEW t \in Trans
    PROVE  Home[t] \subseteq Pod /\ Home[t] # {}
BY ReservationAssumption

\* HSM's keys.
LEMMA FreshKeys ==
    ASSUME NEW c
    PROVE  /\ Fresh(c) \subseteq Keys
           /\ Fresh(c) # {} => (CHOOSE k \in Fresh(c) : TRUE) \in Fresh(c)
           /\ \A k \in Fresh(c) : /\ k # hsm[c]
                                  /\ \A p \in Pod : k # map[p][c].key
                                  /\ \A t \in Trans : k # task[t][c].key /\ k # data[t][c].key
BY DEF Fresh, InUse

LEMMA GrantedKeys ==
    ASSUME TypeOK, NEW S, \A c \in S : Fresh(c) # {}, hsm' = Granted(S)
    PROVE  /\ hsm' \in [Comp -> Keys \cup {Free, Ext}]
           /\ \A c \in Comp : IF c \in S THEN hsm'[c] \in Fresh(c) ELSE hsm'[c] = hsm[c]
BY FreshKeys DEF Granted, TypeOK

LEMMA AfterSteps ==
    ASSUME NEW d
    PROVE  AfterReacquire(d) \in {"validate", "acquire", "record"}
BY DEF AfterReacquire

\* What the calls of ReserveComponents do to a worker that they fail.
LEMMA ErrorEffect ==
    ASSUME TypeOK, NEW t \in Trans, ReserveError(t)
    PROVE  /\ \A c \in Comp : data'[t][c] = Out /\ task'[t][c] = Deleted
           /\ \A u \in Trans \ {t} : /\ data'[u] = data[u] /\ task'[u] = task[u]
                                     /\ pc'[u] = pc[u]
           /\ pc'[t] = "ended" /\ erred' = TRUE
           /\ UNCHANGED <<thread, pod, tier, crashes, lost, late>>
           /\ data' \in [Trans -> [Comp -> Datum]] /\ task' \in [Trans -> [Comp -> Task]]
           /\ pc' \in [Trans -> Steps]
BY Shapes DEF TypeOK, ReserveError, Compress, Steps

LEMMA StartEffect ==
    ASSUME TypeOK, NEW t \in Trans, NEW p \in Home[t], Start(t, p)
    PROVE  /\ \A c \in Comp :
                 data'[t][c] = IF c \in Listed(t)
                               THEN [state |-> "need", key |-> task[t][c].key,
                                     own |-> task[t][c].own]
                               ELSE Out
           /\ pc[t] = "idle"
           /\ IF Again(data'[t]) # {} THEN pc'[t] = "reacquire"
                                      ELSE pc'[t] \in {"validate", "acquire", "record"}
           /\ \A u \in Trans \ {t} : data'[u] = data[u] /\ pc'[u] = pc[u] /\ pod'[u] = pod[u]
           /\ UNCHANGED <<hsm, map, thread, task, tier, crashes, lost, erred, late>>
           /\ TypeOK'
<1> DEFINE D == [c \in Comp |-> IF c \in Listed(t)
                                THEN [state |-> "need", key |-> task[t][c].key,
                                      own |-> task[t][c].own]
                                ELSE Out]
<1>1. D \in [Comp -> Datum]
  <2>1. \A c \in Comp : task[t][c] \in Task
    BY DEF TypeOK
  <2>2. \A c \in Comp : [state |-> "need", key |-> task[t][c].key, own |-> task[t][c].own] \in Datum
    BY <2>1 DEF Task, Datum
  <2> QED BY <2>2, Shapes
<1>2. /\ data' = [data EXCEPT ![t] = D] /\ pod' = [pod EXCEPT ![t] = p] /\ pc[t] = "idle"
      /\ pc' = [pc EXCEPT ![t] = IF Again(data'[t]) # {} THEN "reacquire"
                                 ELSE AfterReacquire(data'[t])]
      /\ UNCHANGED <<hsm, map, thread, task, tier, crashes, lost, erred, late>>
  BY DEF Start
<1>3. data' \in [Trans -> [Comp -> Datum]] /\ data'[t] = D
  BY <1>1, <1>2 DEF TypeOK
<1>4. AfterReacquire(data'[t]) \in {"validate", "acquire", "record"}
  BY AfterSteps
<1>5. pc' \in [Trans -> Steps]
  BY <1>2, <1>4 DEF TypeOK, Steps
<1>6. pod' \in [Trans -> Pod]
  BY <1>2, HomePods DEF TypeOK
<1>7. TypeOK'
  BY <1>2, <1>3, <1>5, <1>6 DEF TypeOK
<1>8. IF Again(data'[t]) # {} THEN pc'[t] = "reacquire"
                              ELSE pc'[t] \in {"validate", "acquire", "record"}
  BY <1>2, <1>4 DEF TypeOK
<1>9. \A u \in Trans \ {t} : data'[u] = data[u] /\ pc'[u] = pc[u] /\ pod'[u] = pod[u]
  BY <1>2 DEF TypeOK
<1> QED BY <1>2, <1>3, <1>7, <1>8, <1>9

\* What the map of a pod holds has a key.
LEMMA Mapped ==
    ASSUME TypeOK, NEW p \in Pod, NEW c \in Comp
    PROVE  /\ c \in InMap(p) <=> map[p][c].key # None
           /\ c \in InMap(p) => map[p][c] \in Entry /\ map[p][c].key \in Keys
<1>1. map[p][c] \in Entry \cup {NoEntry}
  BY DEF TypeOK
<1> QED BY <1>1, Shapes DEF InMap

LEMMA ReacquireEffect ==
    ASSUME TypeOK, Owned, NEW t \in Trans, Reacquire(t), ~ReserveError(t)
    PROVE  /\ \A c \in Comp :
                 IF data[t][c].state = "need" /\ data[t][c].own /\ hsm[c] = data[t][c].key
                 THEN /\ data'[t][c] = [data[t][c] EXCEPT !.state = "renewed"]
                      /\ map'[pod[t]][c].key = data[t][c].key
                 ELSE data'[t][c] = data[t][c] /\ map'[pod[t]][c] = map[pod[t]][c]
           /\ pc[t] = "reacquire" /\ pc'[t] = "flexcheck"
           /\ \A u \in Trans \ {t} : data'[u] = data[u] /\ pc'[u] = pc[u]
           /\ \A p \in Pod \ {pod[t]} : map'[p] = map[p]
           /\ UNCHANGED <<hsm, thread, task, pod, tier, crashes, lost, erred, late>>
           /\ TypeOK'
<1> DEFINE R == {c \in Again(data[t]) : hsm[c] = data[t][c].key}
           E(c) == [key |-> data[t][c].key, dated |-> FALSE]
           M == [c \in Comp |-> IF c \in R THEN E(c) ELSE map[pod[t]][c]]
           D == [c \in Comp |-> IF c \in R THEN [data[t][c] EXCEPT !.state = "renewed"]
                                           ELSE data[t][c]]
<1>1. /\ map' = [map EXCEPT ![pod[t]] = M] /\ data' = [data EXCEPT ![t] = D]
      /\ pc' = [pc EXCEPT ![t] = "flexcheck"] /\ pc[t] = "reacquire"
      /\ UNCHANGED <<hsm, thread, task, pod, tier, crashes, lost, erred, late>>
  BY DEF Reacquire, TypeOK
<1>2. \A c \in Comp : c \in R <=> data[t][c].state = "need" /\ data[t][c].own
                                   /\ hsm[c] = data[t][c].key
  BY DEF Again, Need
<1>3. \A c \in Comp : c \in R => E(c) \in Entry /\ E(c).key = data[t][c].key
  BY <1>2 DEF Owned, OwnedAt, Entry
<1> HIDE DEF R, E
<1>4. M \in [Comp -> Entry \cup {NoEntry}]
  BY <1>3 DEF TypeOK
<1>5. D \in [Comp -> Datum]
  <2>1. \A c \in Comp : data[t][c] \in Datum
    BY DEF TypeOK
  <2>2. \A d \in Datum : [d EXCEPT !.state = "renewed"] \in Datum
    BY DEF Datum
  <2> QED BY <2>1, <2>2
<1>6. \A c \in Comp : IF c \in R THEN /\ D[c] = [data[t][c] EXCEPT !.state = "renewed"]
                                      /\ M[c].key = data[t][c].key
                                 ELSE D[c] = data[t][c] /\ M[c] = map[pod[t]][c]
  BY <1>3
<1> HIDE DEF M, D
<1>7. /\ data'[t] = D /\ map'[pod[t]] = M /\ pc'[t] = "flexcheck"
      /\ \A u \in Trans \ {t} : data'[u] = data[u] /\ pc'[u] = pc[u]
      /\ \A p \in Pod \ {pod[t]} : map'[p] = map[p]
  BY <1>1 DEF TypeOK
<1>8. TypeOK'
  BY <1>1, <1>4, <1>5 DEF TypeOK, Steps
<1> QED BY <1>1, <1>2, <1>6, <1>7, <1>8

LEMMA FlexCheckEffect ==
    ASSUME TypeOK, NEW t \in Trans, FlexCheck(t)
    PROVE  /\ \A c \in Comp :
                 data'[t][c] = IF data[t][c].state # "renewed" THEN data[t][c]
                               ELSE IF map[pod[t]][c].key # None
                               THEN [state |-> "owner", key |-> map[pod[t]][c].key, own |-> TRUE]
                               ELSE [data[t][c] EXCEPT !.state = "need"]
           /\ pc[t] = "flexcheck" /\ pc'[t] \in {"validate", "acquire", "record"}
           /\ \A u \in Trans \ {t} : data'[u] = data[u] /\ pc'[u] = pc[u]
           /\ UNCHANGED <<hsm, map, thread, task, pod, tier, crashes, lost, erred, late>>
           /\ TypeOK'
<1> DEFINE E(c) == [state |-> "owner", key |-> map[pod[t]][c].key, own |-> TRUE]
           D == [c \in Comp |-> IF data[t][c].state # "renewed" THEN data[t][c]
                                ELSE IF c \in InMap(pod[t]) THEN E(c)
                                ELSE [data[t][c] EXCEPT !.state = "need"]]
<1>1. /\ data' = [data EXCEPT ![t] = D] /\ pc[t] = "flexcheck"
      /\ pc' = [pc EXCEPT ![t] = AfterReacquire(data'[t])]
      /\ UNCHANGED <<hsm, map, thread, task, pod, tier, crashes, lost, erred, late>>
  BY DEF FlexCheck, TypeOK
<1>2. AfterReacquire(data'[t]) \in {"validate", "acquire", "record"}
  BY AfterSteps
<1>3. \A c \in Comp : c \in InMap(pod[t]) <=> map[pod[t]][c].key # None
  BY Mapped DEF TypeOK
<1>4. \A c \in Comp : c \in InMap(pod[t]) => E(c) \in Datum
  <2>1. \A c \in Comp : c \in InMap(pod[t]) => map[pod[t]][c].key \in Keys
    BY Mapped DEF TypeOK
  <2> QED BY <2>1 DEF Datum
<1>5. D \in [Comp -> Datum]
  <2>1. \A c \in Comp : data[t][c] \in Datum
    BY DEF TypeOK
  <2>2. \A d \in Datum : [d EXCEPT !.state = "need"] \in Datum
    BY DEF Datum
  <2> HIDE DEF E
  <2> QED BY <1>4, <2>1, <2>2
<1>6. \A c \in Comp :
         D[c] = IF data[t][c].state # "renewed" THEN data[t][c]
                ELSE IF map[pod[t]][c].key # None THEN E(c)
                ELSE [data[t][c] EXCEPT !.state = "need"]
  BY <1>3
<1> HIDE DEF D
<1>7. /\ data'[t] = D /\ pc'[t] = AfterReacquire(data'[t])
      /\ \A u \in Trans \ {t} : data'[u] = data[u] /\ pc'[u] = pc[u]
  BY <1>1 DEF TypeOK
<1>8. TypeOK'
  BY <1>1, <1>2, <1>5 DEF TypeOK, Steps
<1> QED BY <1>1, <1>2, <1>6, <1>7, <1>8

LEMMA ValidateEffect ==
    ASSUME TypeOK, NEW t \in Trans, ValidateDeputyKeys(t), ~ReserveError(t)
    PROVE  /\ \A c \in Comp :
                 data'[t][c] = IF /\ data[t][c].state = "need" /\ ~data[t][c].own
                                  /\ data[t][c].key # None /\ hsm[c] = data[t][c].key
                               THEN [data[t][c] EXCEPT !.state = "deputy"]
                               ELSE data[t][c]
           /\ pc[t] = "validate" /\ pc'[t] \in {"acquire", "record"}
           /\ \A u \in Trans \ {t} : data'[u] = data[u] /\ pc'[u] = pc[u]
           /\ UNCHANGED <<hsm, map, thread, task, pod, tier, crashes, lost, erred, late>>
           /\ TypeOK'
<1> DEFINE D == [c \in Comp |-> IF c \in Given(data[t]) /\ hsm[c] = data[t][c].key
                                THEN [data[t][c] EXCEPT !.state = "deputy"] ELSE data[t][c]]
<1>1. /\ data' = [data EXCEPT ![t] = D] /\ pc[t] = "validate"
      /\ pc' = [pc EXCEPT ![t] = IF Need(data'[t]) # {} THEN "acquire" ELSE "record"]
      /\ UNCHANGED <<hsm, map, thread, task, pod, tier, crashes, lost, erred, late>>
  BY DEF ValidateDeputyKeys, TypeOK
<1>2. \A c \in Comp : c \in Given(data[t]) <=> /\ data[t][c].state = "need" /\ ~data[t][c].own
                                               /\ data[t][c].key # None
  BY DEF Given, Need
<1>3. D \in [Comp -> Datum]
  <2>1. \A c \in Comp : data[t][c] \in Datum
    BY DEF TypeOK
  <2>2. \A d \in Datum : [d EXCEPT !.state = "deputy"] \in Datum
    BY DEF Datum
  <2> QED BY <2>1, <2>2
<1>4. \A c \in Comp :
         D[c] = IF /\ data[t][c].state = "need" /\ ~data[t][c].own
                   /\ data[t][c].key # None /\ hsm[c] = data[t][c].key
                THEN [data[t][c] EXCEPT !.state = "deputy"] ELSE data[t][c]
  BY <1>2
<1> HIDE DEF D
<1>5. /\ data'[t] = D /\ pc'[t] \in {"acquire", "record"}
      /\ \A u \in Trans \ {t} : data'[u] = data[u] /\ pc'[u] = pc[u]
  BY <1>1 DEF TypeOK
<1>6. TypeOK'
  BY <1>1, <1>3 DEF TypeOK, Steps
<1> QED BY <1>1, <1>4, <1>5, <1>6

\* Won: free components that are needed get fresh keys.
LEMMA AcquireEffect ==
    ASSUME TypeOK, NEW t \in Trans, FlexAquire(t), ~ReserveError(t)
    PROVE  /\ \A c \in Comp :
                 IF data[t][c].state = "need" /\ hsm[c] = Free
                 THEN /\ hsm'[c] \in Fresh(c) /\ map'[pod[t]][c].key = hsm'[c]
                      /\ data'[t][c] = [state |-> "owner", key |-> hsm'[c], own |-> TRUE]
                 ELSE /\ hsm'[c] = hsm[c] /\ map'[pod[t]][c] = map[pod[t]][c]
                      /\ data'[t][c] = data[t][c]
           /\ pc[t] = "acquire" /\ pc'[t] = "record"
           /\ \A u \in Trans \ {t} : data'[u] = data[u] /\ pc'[u] = pc[u]
           /\ \A p \in Pod \ {pod[t]} : map'[p] = map[p]
           /\ UNCHANGED <<thread, task, pod, tier, crashes, lost, erred, late>>
           /\ TypeOK'
<1> DEFINE won == {c \in Need(data[t]) : hsm[c] = Free}
           E(c) == [key |-> hsm'[c], dated |-> TRUE]
           N(c) == [state |-> "owner", key |-> hsm'[c], own |-> TRUE]
           M == [c \in Comp |-> IF c \in won THEN E(c) ELSE map[pod[t]][c]]
           D == [c \in Comp |-> IF c \in won THEN N(c) ELSE data[t][c]]
<1>1. /\ map' = [map EXCEPT ![pod[t]] = M] /\ data' = [data EXCEPT ![t] = D]
      /\ pc' = [pc EXCEPT ![t] = "record"] /\ pc[t] = "acquire"
      /\ hsm' = Granted(won) /\ \A c \in won : Fresh(c) # {}
      /\ UNCHANGED <<thread, task, pod, tier, crashes, lost, erred, late>>
  BY DEF FlexAquire, TypeOK
<1>2. \A c \in Comp : c \in won <=> data[t][c].state = "need" /\ hsm[c] = Free
  BY DEF Need
<1> HIDE DEF won
<1>3. /\ hsm' \in [Comp -> Keys \cup {Free, Ext}]
      /\ \A c \in Comp : IF c \in won THEN hsm'[c] \in Fresh(c) /\ hsm'[c] \in Keys
                                      ELSE hsm'[c] = hsm[c]
  BY <1>1, GrantedKeys, FreshKeys
<1>4. \A c \in Comp : c \in won => E(c) \in Entry /\ E(c).key = hsm'[c] /\ N(c) \in Datum
  BY <1>3 DEF Entry, Datum
<1> HIDE DEF E, N
<1>5. M \in [Comp -> Entry \cup {NoEntry}]
  BY <1>4 DEF TypeOK
<1>6. D \in [Comp -> Datum]
  BY <1>4 DEF TypeOK
<1>7. \A c \in Comp : IF c \in won THEN D[c] = N(c) /\ M[c].key = hsm'[c]
                                   ELSE D[c] = data[t][c] /\ M[c] = map[pod[t]][c]
  BY <1>4
<1> HIDE DEF M, D
<1>8. /\ data'[t] = D /\ map'[pod[t]] = M /\ pc'[t] = "record"
      /\ \A u \in Trans \ {t} : data'[u] = data[u] /\ pc'[u] = pc[u]
      /\ \A p \in Pod \ {pod[t]} : map'[p] = map[p]
  BY <1>1 DEF TypeOK
<1>9. TypeOK'
  BY <1>1, <1>3, <1>5, <1>6 DEF TypeOK, Steps
<1> QED BY <1>1, <1>2, <1>3, <1>7, <1>8, <1>9 DEF N

\* The answer to an acquisition is lost: HSM may have reserved what it could.
LEMMA AcquireErrorEffect ==
    ASSUME TypeOK, NEW t \in Trans, FlexAquire(t), ReserveError(t)
    PROVE  /\ \A c \in Comp : hsm'[c] = hsm[c] \/ (hsm[c] = Free /\ hsm'[c] \in Fresh(c))
           /\ hsm' \in [Comp -> Keys \cup {Free, Ext}]
<1> DEFINE won == {c \in Need(data[t]) : hsm[c] = Free}
<1>1. (\A c \in won : Fresh(c) # {}) /\ \E S \in {{}, won} : hsm' = Granted(S)
  BY DEF FlexAquire
<1>2. PICK S \in {{}, won} : hsm' = Granted(S)
  BY <1>1
<1>3. (\A c \in S : Fresh(c) # {}) /\ (\A c \in S : hsm[c] = Free)
  BY <1>1, <1>2
<1> QED BY <1>2, <1>3, GrantedKeys

LEMMA StoreKeysEffect ==
    ASSUME TypeOK, NEW t \in Trans, StoreKeys(t)
    PROVE  /\ \/ /\ \A c \in Comp : task'[t][c] = task[t][c] /\ Recorded(t, c)
                 /\ pc'[t] = "check"
              \/ /\ \E d \in Comp :
                       /\ \A c \in Comp \ {d} : task'[t][c] = task[t][c]
                       /\ ~Recorded(t, d)
                       /\ task'[t][d].open => task[t][d].open
                       /\ IF data[t][d].state = "need"
                          THEN task'[t][d].key = task[t][d].key /\ task'[t][d].own = task[t][d].own
                          ELSE task'[t][d].key = data[t][d].key /\ task'[t][d].own = data[t][d].own
                 /\ pc'[t] = "record"
           /\ pc[t] = "record"
           /\ \A u \in Trans \ {t} : task'[u] = task[u] /\ pc'[u] = pc[u]
           /\ UNCHANGED <<hsm, map, thread, pod, data, tier, crashes, lost, erred, late>>
           /\ TypeOK'
<1>0. pc[t] = "record"
      /\ UNCHANGED <<hsm, map, thread, pod, data, tier, crashes, lost, erred, late>>
  BY DEF StoreKeys
<1>1. CASE (\A c \in Comp : Recorded(t, c)) /\ pc' = [pc EXCEPT ![t] = "check"] /\ UNCHANGED task
  <2>1. pc' \in [Trans -> Steps] /\ task' = task
    BY <1>0, <1>1 DEF TypeOK, Steps
  <2> QED BY <1>0, <1>1, <2>1 DEF TypeOK
<1>2. CASE \E c \in Comp :
             /\ ~Recorded(t, c)
             /\ task' = [task EXCEPT ![t][c] =
                          IF data[t][c].state = "need" THEN [@ EXCEPT !.open = FALSE]
                          ELSE [@ EXCEPT !.key = data[t][c].key, !.own = data[t][c].own]]
             /\ UNCHANGED pc
  <2>1. PICK d \in Comp :
             /\ ~Recorded(t, d)
             /\ task' = [task EXCEPT ![t][d] =
                          IF data[t][d].state = "need" THEN [@ EXCEPT !.open = FALSE]
                          ELSE [@ EXCEPT !.key = data[t][d].key, !.own = data[t][d].own]]
             /\ UNCHANGED pc
    BY <1>2
  <2> DEFINE V == IF data[t][d].state = "need" THEN [task[t][d] EXCEPT !.open = FALSE]
                  ELSE [task[t][d] EXCEPT !.key = data[t][d].key, !.own = data[t][d].own]
  <2>2. task[t][d] \in Task /\ data[t][d] \in Datum
    BY DEF TypeOK
  <2>3. /\ V \in Task /\ (V.open => task[t][d].open)
        /\ IF data[t][d].state = "need"
           THEN V.key = task[t][d].key /\ V.own = task[t][d].own
           ELSE V.key = data[t][d].key /\ V.own = data[t][d].own
    BY <2>2 DEF Task, Datum
  <2>4. task' = [task EXCEPT ![t][d] = V]
    BY <2>1
  <2> HIDE DEF V
  <2>5. /\ task' \in [Trans -> [Comp -> Task]] /\ task'[t][d] = V
        /\ \A c \in Comp \ {d} : task'[t][c] = task[t][c]
        /\ \A u \in Trans \ {t} : task'[u] = task[u]
    BY <2>3, <2>4 DEF TypeOK
  <2>6. TypeOK'
    BY <1>0, <2>1, <2>5 DEF TypeOK
  <2> QED BY <1>0, <2>1, <2>3, <2>5, <2>6
<1> QED BY <1>1, <1>2 DEF StoreKeys

\* Closing tasks, or deleting them, changes nothing about the keys.
LEMMA CloseEffect ==
    ASSUME TypeOK, NEW t \in Trans, NEW S, Close(t, S)
    PROVE  /\ \A c \in Comp : /\ task'[t][c].key = task[t][c].key
                              /\ task'[t][c].own = task[t][c].own
                              /\ task'[t][c].open <=> task[t][c].open /\ c \notin S
           /\ \A u \in Trans \ {t} : task'[u] = task[u]
           /\ task' \in [Trans -> [Comp -> Task]]
<1> DEFINE V(c) == IF c \in S THEN [task[t][c] EXCEPT !.open = FALSE] ELSE task[t][c]
<1>1. task' = [task EXCEPT ![t] = [c \in Comp |-> V(c)]]
  BY DEF Close, TypeOK
<1>2. ASSUME NEW c \in Comp
      PROVE  /\ V(c) \in Task /\ V(c).key = task[t][c].key /\ V(c).own = task[t][c].own
             /\ V(c).open <=> task[t][c].open /\ c \notin S
  <2>1. task[t][c] \in Task
    BY DEF TypeOK
  <2> QED BY <2>1 DEF Task
<1> HIDE DEF V
<1>3. /\ \A c \in Comp : task'[t][c] = V(c)
      /\ \A u \in Trans \ {t} : task'[u] = task[u]
      /\ task' \in [Trans -> [Comp -> Task]]
  BY <1>1, <1>2 DEF TypeOK
<1> QED BY <1>2, <1>3

LEMMA CompressEffect ==
    ASSUME TypeOK, NEW t \in Trans, Compress(t)
    PROVE  /\ \A c \in Comp : task'[t][c] = Deleted
           /\ \A u \in Trans \ {t} : task'[u] = task[u]
           /\ task' \in [Trans -> [Comp -> Task]]
BY Shapes DEF Compress, TypeOK

LEMMA CheckEffect ==
    ASSUME TypeOK, NEW t \in Trans, CheckDeputyKeys(t)
    PROVE  /\ \A c \in Comp : /\ task'[t][c].key = task[t][c].key
                              /\ task'[t][c].own = task[t][c].own
                              /\ task'[t][c].open => task[t][c].open
           /\ \/ erred' = TRUE
              \/ /\ \A c \in Comp : c \in On[t] /\ task'[t][c].open =>
                       ~(data[t][c].key # None /\ hsm[c] # data[t][c].key)
                 /\ UNCHANGED erred
           /\ \A u \in Trans \ {t} : task'[u] = task[u] /\ pc'[u] = pc[u]
           /\ pc[t] = "check" /\ pc'[t] = "command"
           /\ UNCHANGED <<hsm, map, thread, pod, data, tier, crashes, lost, late>>
           /\ TypeOK'
<1> DEFINE S == {c \in Unfinished(t) : data[t][c].key # None /\ hsm[c] # data[t][c].key}
<1>1. /\ pc[t] = "check" /\ pc' = [pc EXCEPT ![t] = "command"]
      /\ UNCHANGED <<hsm, map, thread, pod, data, tier, crashes, lost, late>>
      /\ (Close(t, S) /\ UNCHANGED erred) \/ (erred' = TRUE /\ UNCHANGED task)
  BY DEF CheckDeputyKeys
<1>2. pc'[t] = "command" /\ (\A u \in Trans \ {t} : pc'[u] = pc[u]) /\ pc' \in [Trans -> Steps]
  BY <1>1 DEF TypeOK, Steps
<1>3. CASE Close(t, S) /\ UNCHANGED erred
  <2>1. TypeOK'
    BY <1>1, <1>2, <1>3, CloseEffect DEF TypeOK
  <2>2. \A c \in Comp : c \in On[t] /\ task'[t][c].open =>
            ~(data[t][c].key # None /\ hsm[c] # data[t][c].key)
    BY <1>3, CloseEffect DEF Unfinished
  <2> QED BY <1>1, <1>2, <1>3, <2>1, <2>2, CloseEffect
<1>4. CASE erred' = TRUE /\ UNCHANGED task
  <2>1. TypeOK'
    BY <1>1, <1>2, <1>4 DEF TypeOK
  <2> QED BY <1>1, <1>2, <1>4, <2>1
<1> QED BY <1>1, <1>3, <1>4

LEMMA AbortEffect ==
    ASSUME TypeOK, NEW t \in Trans, AbortSeen(t)
    PROVE  /\ \A c \in Comp : task'[t][c] = Deleted
           /\ \A u \in Trans \ {t} : task'[u] = task[u] /\ pc'[u] = pc[u]
           /\ pc[t] = "check" /\ pc'[t] = "release"
           /\ UNCHANGED <<hsm, map, thread, pod, data, tier, crashes, lost, erred, late>>
           /\ TypeOK'
<1>1. /\ pc[t] = "check" /\ pc' = [pc EXCEPT ![t] = "release"] /\ Compress(t)
      /\ UNCHANGED <<hsm, map, thread, pod, data, tier, crashes, lost, erred, late>>
  BY DEF AbortSeen
<1>2. pc'[t] = "release" /\ (\A u \in Trans \ {t} : pc'[u] = pc[u]) /\ pc' \in [Trans -> Steps]
  BY <1>1 DEF TypeOK, Steps
<1>3. TypeOK'
  BY <1>1, <1>2, CompressEffect DEF TypeOK
<1> QED BY <1>1, <1>2, <1>3, CompressEffect

LEMMA TierEffect ==
    ASSUME TypeOK, Tiers, NEW t \in Trans, Tier(t)
    PROVE  /\ \/ pc'[t] = "release" /\ \A c \in Comp : task'[t][c] = Deleted
              \/ /\ pc'[t] = "check" /\ tier'[t] < MaxTiers
                 /\ \A c \in Comp : /\ task'[t][c].key = task[t][c].key
                                    /\ task'[t][c].own = task[t][c].own
                                    /\ task'[t][c].open => task[t][c].open
           /\ \A u \in Trans \ {t} : /\ task'[u] = task[u] /\ pc'[u] = pc[u]
                                     /\ tier'[u] = tier[u] /\ late'[u] = late[u]
           /\ late'[t] = late[t] \cup {c \in Unfinished(t) : hsm[c] # data[t][c].key}
           /\ pc[t] = "command"
           /\ UNCHANGED <<hsm, map, thread, pod, data, crashes, lost, erred>>
           /\ TypeOK'
<1> DEFINE L == {c \in Unfinished(t) : hsm[c] # data[t][c].key}
<1>1. /\ pc[t] = "command" /\ tier' = [tier EXCEPT ![t] = tier[t] + 1]
      /\ late' = [late EXCEPT ![t] = late[t] \cup L]
      /\ IF tier'[t] = MaxTiers THEN Compress(t)
         ELSE \E done \in SUBSET Unfinished(t) : Close(t, done)
      /\ pc' = [pc EXCEPT ![t] = IF tier'[t] = MaxTiers THEN "release" ELSE "check"]
      /\ UNCHANGED <<hsm, map, thread, pod, data, crashes, lost, erred>>
  BY DEF Tier, Counted, TypeOK
<1>2. L \subseteq Comp
  BY ReservationAssumption DEF Unfinished
<1> HIDE DEF L
<1>3. /\ late' \in [Trans -> SUBSET Comp] /\ late'[t] = late[t] \cup L
      /\ \A u \in Trans \ {t} : late'[u] = late[u]
  BY <1>1, <1>2 DEF TypeOK
<1>4. tier[t] \in 0..MaxTiers /\ tier[t] < MaxTiers /\ MaxTiers \in Nat
  BY <1>1, ReservationAssumption DEF TypeOK, Tiers
<1>5. /\ tier' \in [Trans -> 0..MaxTiers] /\ tier'[t] = tier[t] + 1
      /\ \A u \in Trans \ {t} : tier'[u] = tier[u]
  <2>1. tier[t] + 1 \in 0..MaxTiers
    BY <1>4
  <2> QED BY <1>1, <2>1 DEF TypeOK
<1>6. /\ pc' \in [Trans -> Steps] /\ \A u \in Trans \ {t} : pc'[u] = pc[u]
      /\ pc'[t] = IF tier'[t] = MaxTiers THEN "release" ELSE "check"
  BY <1>1 DEF TypeOK, Steps
<1>7. tier'[t] # MaxTiers => tier'[t] < MaxTiers
  BY <1>4, <1>5
<1>8. /\ \/ pc'[t] = "release" /\ \A c \in Comp : task'[t][c] = Deleted
         \/ /\ pc'[t] = "check" /\ tier'[t] < MaxTiers
            /\ \A c \in Comp : /\ task'[t][c].key = task[t][c].key
                               /\ task'[t][c].own = task[t][c].own
                               /\ task'[t][c].open => task[t][c].open
      /\ task' \in [Trans -> [Comp -> Task]]
      /\ \A u \in Trans \ {t} : task'[u] = task[u]
  <2>1. CASE tier'[t] = MaxTiers
    BY <1>1, <1>6, <2>1, CompressEffect
  <2>2. CASE tier'[t] # MaxTiers
    <3>1. PICK done \in SUBSET Unfinished(t) : Close(t, done)
      BY <1>1, <2>2
    <3> QED BY <1>6, <1>7, <2>2, <3>1, CloseEffect
  <2> QED BY <2>1, <2>2
<1>9. TypeOK'
  BY <1>1, <1>3, <1>5, <1>6, <1>8 DEF TypeOK
<1> QED BY <1>1, <1>3, <1>5, <1>6, <1>8, <1>9 DEF L

LEMMA ReleaseEffect ==
    ASSUME TypeOK, NEW t \in Trans, ReleaseComponents(t)
    PROVE  /\ \A c \in Comp :
                 \/ hsm'[c] = hsm[c] /\ map'[pod[t]][c] = map[pod[t]][c]
                 \/ /\ data[t][c].state = "owner" /\ hsm[c] = map[pod[t]][c].key
                    /\ hsm[c] \in Keys /\ hsm'[c] = Free
                    /\ map'[pod[t]][c] \in {NoEntry, map[pod[t]][c]}
           /\ \A c \in Comp : data'[t][c] = Out
           /\ \A u \in Trans \ {t} : /\ data'[u] = data[u] /\ pc'[u] = pc[u]
                                     /\ tier'[u] = tier[u] /\ late'[u] = late[u]
           /\ \A p \in Pod \ {pod[t]} : map'[p] = map[p]
           /\ pc[t] = "release" /\ pc'[t] = "ended" /\ late'[t] = {} /\ tier'[t] = 0
           /\ erred' = TRUE \/ UNCHANGED erred
           /\ UNCHANGED <<thread, task, pod, crashes, lost>>
           /\ TypeOK'
<1> DEFINE S == {c \in Comp : data[t][c].state = "owner"}
           F == {c \in S \cap InMap(pod[t]) : hsm[c] = map[pod[t]][c].key}
           H(T) == [c \in Comp |-> IF c \in T THEN Free ELSE hsm[c]]
           M == [c \in Comp |-> IF c \in F THEN NoEntry ELSE map[pod[t]][c]]
           O == [c \in Comp |-> Out]
<1>1. /\ pc[t] = "release" /\ pc' = [pc EXCEPT ![t] = "ended"]
      /\ tier' = [tier EXCEPT ![t] = 0] /\ late' = [late EXCEPT ![t] = {}]
      /\ data' = [data EXCEPT ![t] = O]
      /\ \/ /\ hsm' = H(F) /\ map' = [map EXCEPT ![pod[t]] = M] /\ UNCHANGED erred
         \/ /\ erred' = TRUE /\ UNCHANGED map
            /\ hsm' = H({}) \/ hsm' = H(F)
      /\ UNCHANGED <<thread, task, pod, crashes, lost>>
  BY DEF ReleaseComponents, ReleaseAll, TypeOK
<1>2. \A c \in F : c \in Comp /\ data[t][c].state = "owner" /\ hsm[c] = map[pod[t]][c].key
                   /\ hsm[c] \in Keys
  BY Mapped DEF TypeOK
<1> HIDE DEF F
<1>3. \A T : /\ H(T) \in [Comp -> Keys \cup {Free, Ext}]
             /\ \A c \in Comp : H(T)[c] = IF c \in T THEN Free ELSE hsm[c]
  BY DEF TypeOK
<1>4. M \in [Comp -> Entry \cup {NoEntry}] /\ \A c \in Comp : M[c] = IF c \in F THEN NoEntry ELSE map[pod[t]][c]
  BY DEF TypeOK
<1>5. O \in [Comp -> Datum] /\ \A c \in Comp : O[c] = Out
  BY Shapes
<1> HIDE DEF H, M, O
<1>6. /\ pc'[t] = "ended" /\ tier'[t] = 0 /\ late'[t] = {} /\ data'[t] = O
      /\ \A u \in Trans \ {t} : /\ data'[u] = data[u] /\ pc'[u] = pc[u]
                                /\ tier'[u] = tier[u] /\ late'[u] = late[u]
      /\ pc' \in [Trans -> Steps] /\ data' \in [Trans -> [Comp -> Datum]]
      /\ late' \in [Trans -> SUBSET Comp]
  BY <1>1, <1>5 DEF TypeOK, Steps
<1>7. tier' \in [Trans -> 0..MaxTiers]
  BY <1>1, ReservationAssumption DEF TypeOK
<1>8. /\ map' \in [Pod -> [Comp -> Entry \cup {NoEntry}]]
      /\ \A p \in Pod \ {pod[t]} : map'[p] = map[p]
  <2>1. pod[t] \in Pod /\ (map' = [map EXCEPT ![pod[t]] = M] \/ map' = map)
    BY <1>1 DEF TypeOK
  <2>2. CASE map' = map
    BY <2>2 DEF TypeOK
  <2>3. CASE map' = [map EXCEPT ![pod[t]] = M]
    BY <1>4, <2>1, <2>3 DEF TypeOK
  <2> QED BY <2>1, <2>2, <2>3
<1>9. hsm' \in [Comp -> Keys \cup {Free, Ext}]
  BY <1>1, <1>3
<1>10. TypeOK'
  BY <1>1, <1>6, <1>7, <1>8, <1>9 DEF TypeOK
<1>11. ASSUME NEW c \in Comp
       PROVE  \/ hsm'[c] = hsm[c] /\ map'[pod[t]][c] = map[pod[t]][c]
              \/ /\ data[t][c].state = "owner" /\ hsm[c] = map[pod[t]][c].key
                 /\ hsm[c] \in Keys /\ hsm'[c] = Free
                 /\ map'[pod[t]][c] \in {NoEntry, map[pod[t]][c]}
  <2>1. CASE hsm' = H(F) /\ map' = [map EXCEPT ![pod[t]] = M]
    <3>1. map'[pod[t]] = M
      BY <2>1 DEF TypeOK
    <3> QED BY <1>2, <1>3, <1>4, <2>1, <3>1
  <2>2. CASE UNCHANGED map /\ (hsm' = H({}) \/ hsm' = H(F))
    BY <1>2, <1>3, <2>2
  <2> QED BY <1>1, <2>1, <2>2
<1> QED BY <1>1, <1>5, <1>6, <1>8, <1>10, <1>11

LEMMA CrashEffect ==
    ASSUME TypeOK, NEW p \in Pod, Crash(p)
    PROVE  /\ \A t \in Trans :
                 IF pod[t] # p
                 THEN /\ pc'[t] = pc[t] /\ data'[t] = data[t] /\ tier'[t] = tier[t]
                      /\ late'[t] = late[t]
                 ELSE /\ pc'[t] \in {"idle", "ended"} /\ tier'[t] = 0 /\ late'[t] = {}
                      /\ \A c \in Comp : data'[t][c] = Out
           /\ \A q \in Pod \ {p} : map'[q] = map[q]
           /\ UNCHANGED <<hsm, task, pod, lost, erred>>
           /\ TypeOK'
<1> DEFINE L(t) == IF pod[t] # p \/ pc[t] = "ended" THEN pc[t]
                   ELSE IF pc[t] = "release" THEN "ended" ELSE "idle"
           O == [c \in Comp |-> Out]
           N == [c \in Comp |-> NoEntry]
<1>1. /\ crashes < MaxCrash /\ crashes' = crashes + 1
      /\ map' = [map EXCEPT ![p] = N] /\ thread' = [thread EXCEPT ![p] = Sleeping]
      /\ pc' = [t \in Trans |-> L(t)]
      /\ data' = [t \in Trans |-> IF pod[t] # p THEN data[t] ELSE O]
      /\ tier' = [t \in Trans |-> IF pod[t] # p THEN tier[t] ELSE 0]
      /\ late' = [t \in Trans |-> IF pod[t] # p THEN late[t] ELSE {}]
      /\ UNCHANGED <<hsm, task, pod, lost, erred>>
  BY DEF Crash
<1>2. \A t \in Trans : /\ L(t) \in Steps
                       /\ IF pod[t] # p THEN L(t) = pc[t] ELSE L(t) \in {"idle", "ended"}
  BY DEF Steps, TypeOK
<1>3. O \in [Comp -> Datum] /\ \A c \in Comp : O[c] = Out
  BY Shapes
<1>4. N \in [Comp -> Entry \cup {NoEntry}]
  OBVIOUS
<1> HIDE DEF L, O, N
<1>5. pc' \in [Trans -> Steps] /\ data' \in [Trans -> [Comp -> Datum]]
      /\ late' \in [Trans -> SUBSET Comp]
  BY <1>1, <1>2, <1>3 DEF TypeOK
<1>6. tier' \in [Trans -> 0..MaxTiers] /\ crashes' \in 0..MaxCrash
  BY <1>1, ReservationAssumption DEF TypeOK
<1>7. /\ map' \in [Pod -> [Comp -> Entry \cup {NoEntry}]]
      /\ \A q \in Pod \ {p} : map'[q] = map[q]
  BY <1>1, <1>4 DEF TypeOK
<1>8. thread' \in [Pod -> [awake : BOOLEAN, good : SUBSET Comp, bad : SUBSET Comp]]
  <2>1. Sleeping \in [awake : BOOLEAN, good : SUBSET Comp, bad : SUBSET Comp]
    BY DEF Sleeping
  <2> QED BY <1>1, <2>1 DEF TypeOK
<1>9. TypeOK'
  BY <1>1, <1>5, <1>6, <1>7, <1>8 DEF TypeOK
<1>10. ASSUME NEW t \in Trans
       PROVE  IF pod[t] # p
              THEN /\ pc'[t] = pc[t] /\ data'[t] = data[t] /\ tier'[t] = tier[t]
                   /\ late'[t] = late[t]
              ELSE /\ pc'[t] \in {"idle", "ended"} /\ tier'[t] = 0 /\ late'[t] = {}
                   /\ \A c \in Comp : data'[t][c] = Out
  BY <1>1, <1>2, <1>3
<1> QED BY <1>1, <1>7, <1>9, <1>10

LEMMA UpdateAskEffect ==
    ASSUME TypeOK, NEW p \in Pod, UpdateAsk(p)
    PROVE  /\ UNCHANGED <<hsm, map, task, pc, pod, data, tier, crashes, lost, erred, late>>
           /\ TypeOK'
<1> DEFINE A == [awake : BOOLEAN, good : SUBSET Comp, bad : SUBSET Comp]
           good == {c \in InMap(p) : hsm[c] = map[p][c].key}
           V == [awake |-> TRUE, good |-> good, bad |-> InMap(p) \ good]
<1>1. /\ UNCHANGED <<hsm, map, task, pc, pod, data, tier, crashes, lost, erred, late>>
      /\ \/ thread' = [thread EXCEPT ![p] = V] \/ thread' = [thread EXCEPT ![p].awake = TRUE]
  BY DEF UpdateAsk, worker
<1>2. V \in A
  <2>1. good \in SUBSET Comp /\ InMap(p) \ good \in SUBSET Comp
    BY DEF InMap
  <2> HIDE DEF good
  <2> QED BY <2>1
<1>3. [thread[p] EXCEPT !.awake = TRUE] \in A
  <2>1. thread[p] \in A
    BY DEF TypeOK
  <2> QED BY <2>1
<1>4. thread' \in [Pod -> A]
  <2>1. thread' = [thread EXCEPT ![p] = V]
        \/ thread' = [thread EXCEPT ![p] = [thread[p] EXCEPT !.awake = TRUE]]
    BY <1>1
  <2> HIDE DEF V, A
  <2> QED BY <1>2, <1>3, <2>1 DEF TypeOK, A
<1>5. TypeOK'
  BY <1>1, <1>4 DEF TypeOK
<1> QED BY <1>1, <1>5

\* The sweep drops entries, and knows when it drops one that HSM still has.
LEMMA SweepEffect ==
    ASSUME TypeOK, NEW p \in Pod, Sweep(p)
    PROVE  /\ \A c \in Comp : \/ map'[p][c].key = map[p][c].key
                              \/ map'[p][c] = NoEntry /\ (map[p][c].key = hsm[c] => lost')
           /\ \A q \in Pod \ {p} : map'[q] = map[q]
           /\ lost => lost'
           /\ UNCHANGED <<hsm, task, pc, pod, data, tier, crashes, erred, late>>
           /\ TypeOK'
<1> DEFINE gone == {c \in InMap(p) : \/ c \in thread[p].bad
                                     \/ /\ c \notin thread[p].good
                                        /\ ~map[p][c].dated}
           good == InMap(p) \cap thread[p].good
           V(c) == IF c \in gone THEN NoEntry
                   ELSE IF c \in good THEN [map[p][c] EXCEPT !.dated = TRUE] ELSE map[p][c]
           M == [c \in Comp |-> V(c)]
<1>1. /\ thread' = [thread EXCEPT ![p] = Sleeping]
      /\ map' = [map EXCEPT ![p] = M]
      /\ lost' = (lost \/ \E c \in gone : map[p][c].key = hsm[c])
      /\ UNCHANGED <<hsm, task, pc, pod, data, tier, crashes, erred, late>>
  BY DEF Sweep, worker, TypeOK
<1>2. ASSUME NEW c \in Comp
      PROVE  /\ V(c) \in Entry \cup {NoEntry}
             /\ V(c).key = map[p][c].key \/ (V(c) = NoEntry /\ c \in gone)
  <2>1. map[p][c] \in Entry \cup {NoEntry}
    BY DEF TypeOK
  <2>2. c \in InMap(p) => map[p][c] \in Entry
    BY Mapped
  <2>3. \A e \in Entry : /\ [e EXCEPT !.dated = TRUE] \in Entry
                         /\ [e EXCEPT !.dated = TRUE].key = e.key
    BY DEF Entry
  <2> HIDE DEF gone
  <2> QED BY <2>1, <2>2, <2>3
<1> HIDE DEF gone, good, V
<1>3. M \in [Comp -> Entry \cup {NoEntry}] /\ \A c \in Comp : M[c] = V(c)
  BY <1>2
<1> HIDE DEF M
<1>4. /\ map' \in [Pod -> [Comp -> Entry \cup {NoEntry}]] /\ map'[p] = M
      /\ \A q \in Pod \ {p} : map'[q] = map[q]
  BY <1>1, <1>3 DEF TypeOK
<1>5. thread' \in [Pod -> [awake : BOOLEAN, good : SUBSET Comp, bad : SUBSET Comp]]
  <2>1. Sleeping \in [awake : BOOLEAN, good : SUBSET Comp, bad : SUBSET Comp]
    BY DEF Sleeping
  <2> QED BY <1>1, <2>1 DEF TypeOK
<1>6. lost' \in BOOLEAN /\ (lost => lost') /\ \A c \in gone : map[p][c].key = hsm[c] => lost'
  BY <1>1 DEF TypeOK
<1>7. TypeOK'
  BY <1>1, <1>4, <1>5, <1>6 DEF TypeOK
<1> QED BY <1>1, <1>2, <1>3, <1>4, <1>6, <1>7

\* A reservation ends without its holder: one that some pod renews is lost.
LEMMA LapseEffect ==
    ASSUME TypeOK, NEW c \in Comp, Lapse(c) \/ ExtReleases(c)
    PROVE  /\ hsm'[c] = Free /\ \A d \in Comp \ {c} : hsm'[d] = hsm[d]
           /\ hsm[c] \in Keys => \A p \in Pod : map[p][c].key = hsm[c] => lost'
           /\ lost => lost'
           /\ UNCHANGED <<map, thread, task, pc, pod, data, tier, crashes, erred, late>>
           /\ TypeOK'
<1>1. /\ hsm' = [hsm EXCEPT ![c] = Free]
      /\ UNCHANGED <<map, thread, task, pc, pod, data, tier, crashes, erred, late>>
      /\ lost' = (lost \/ Renewed(c)) \/ (hsm[c] = Ext /\ lost' = lost)
  BY DEF Lapse, ExtReleases, worker
<1>2. /\ hsm' \in [Comp -> Keys \cup {Free, Ext}] /\ hsm'[c] = Free
      /\ \A d \in Comp \ {c} : hsm'[d] = hsm[d]
  BY <1>1 DEF TypeOK
<1>3. /\ lost' \in BOOLEAN /\ lost => lost'
      /\ hsm[c] \in Keys => \A p \in Pod : map[p][c].key = hsm[c] => lost'
  BY <1>1, ReservationAssumption DEF TypeOK, Renewed
<1>4. TypeOK'
  BY <1>1, <1>2, <1>3 DEF TypeOK
<1> QED BY <1>1, <1>2, <1>3, <1>4

-----------------------------------------------------------------------------
(* The invariants, action by action *)

Types == TypeOK /\ Owned /\ Tiers

\* Only what a step changes has to be looked at.
LEMMA OwnedFrame ==
    ASSUME Owned, NEW t \in Trans,
           \A u \in Trans \ {t} : data'[u] = data[u] /\ task'[u] = task[u] /\ pc'[u] = pc[u],
           \A c \in Comp : OwnedAt(data'[t][c], task'[t][c], pc'[t])
    PROVE  Owned'
<1>1. ASSUME NEW u \in Trans, NEW c \in Comp
      PROVE  OwnedAt(data'[u][c], task'[u][c], pc'[u])
  <2>1. CASE u = t
    BY <2>1
  <2>2. CASE u # t
    <3>1. OwnedAt(data[u][c], task[u][c], pc[u])
      BY DEF Owned
    <3> QED BY <2>2, <3>1
  <2> QED BY <2>1, <2>2
<1> QED BY <1>1 DEF Owned

LEMMA ErrorTypes ==
    ASSUME Types, NEW t \in Trans, ReserveError(t), pc[t] \in Reserving,
           hsm' \in [Comp -> Keys \cup {Free, Ext}], UNCHANGED map
    PROVE  Types'
<1>1. TypeOK'
  BY ErrorEffect DEF Types, TypeOK
<1>2. \A c \in Comp : OwnedAt(data'[t][c], task'[t][c], pc'[t])
  BY ErrorEffect, Shapes DEF Types, OwnedAt
<1>3. Owned'
  BY <1>2, ErrorEffect, OwnedFrame DEF Types
<1>4. Tiers'
  BY ErrorEffect DEF Types, Tiers
<1> QED BY <1>1, <1>3, <1>4 DEF Types

LEMMA StartTypes ==
    ASSUME Types, NEW t \in Trans, NEW p \in Home[t], Start(t, p)
    PROVE  Types'
<1>1. ASSUME NEW c \in Comp
      PROVE  OwnedAt(data'[t][c], task'[t][c], pc'[t])
  <2>1. OwnedAt(data[t][c], task[t][c], pc[t]) /\ task' = task
    BY StartEffect DEF Types, Owned
  <2>2. \/ data'[t][c] = Out
        \/ data'[t][c] = [state |-> "need", key |-> task[t][c].key, own |-> task[t][c].own]
    BY StartEffect DEF Types
  <2> QED BY <2>1, <2>2, Shapes DEF OwnedAt
<1>2. Owned'
  BY <1>1, StartEffect, OwnedFrame DEF Types
<1>3. Tiers'
  BY StartEffect DEF Types, Tiers
<1> QED BY <1>2, <1>3, StartEffect DEF Types

LEMMA ReserveTypes ==
    ASSUME Types, NEW t \in Trans, ~ReserveError(t),
           Reacquire(t) \/ FlexCheck(t) \/ ValidateDeputyKeys(t) \/ FlexAquire(t)
    PROVE  Types'
<1>0. \A c \in Comp : data[t][c] \in Datum /\ OwnedAt(data[t][c], task[t][c], pc[t])
  BY DEF Types, TypeOK, Owned
<1>1. CASE Reacquire(t)
  <2>1. ASSUME NEW c \in Comp
        PROVE  OwnedAt(data'[t][c], task'[t][c], pc'[t])
    <3>1. /\ pc'[t] = "flexcheck" /\ task' = task
          /\ \/ data'[t][c] = data[t][c]
             \/ data[t][c].own /\ data'[t][c] = [data[t][c] EXCEPT !.state = "renewed"]
      BY <1>1, ReacquireEffect DEF Types
    <3> QED BY <1>0, <3>1 DEF OwnedAt, Datum
  <2>2. Owned'
    BY <1>1, <2>1, ReacquireEffect, OwnedFrame DEF Types
  <2> QED BY <1>1, <2>2, ReacquireEffect DEF Types, Tiers
<1>2. CASE FlexCheck(t)
  <2>1. ASSUME NEW c \in Comp
        PROVE  OwnedAt(data'[t][c], task'[t][c], pc'[t])
    <3>1. map[pod[t]][c].key # None => map[pod[t]][c].key \in Keys
      BY Mapped DEF Types, TypeOK
    <3>2. /\ task' = task
          /\ \/ data'[t][c] = data[t][c] /\ data[t][c].state # "renewed"
             \/ data'[t][c] = [data[t][c] EXCEPT !.state = "need"]
             \/ /\ map[pod[t]][c].key # None
                /\ data'[t][c] = [state |-> "owner", key |-> map[pod[t]][c].key, own |-> TRUE]
      BY <1>2, FlexCheckEffect DEF Types
    <3> QED BY <1>0, <3>1, <3>2 DEF OwnedAt, Datum
  <2>2. Owned'
    BY <1>2, <2>1, FlexCheckEffect, OwnedFrame DEF Types
  <2> QED BY <1>2, <2>2, FlexCheckEffect DEF Types, Tiers
<1>3. CASE ValidateDeputyKeys(t)
  <2>1. ASSUME NEW c \in Comp
        PROVE  OwnedAt(data'[t][c], task'[t][c], pc'[t])
    <3>1. /\ pc[t] = "validate" /\ task' = task
          /\ \/ data'[t][c] = data[t][c]
             \/ /\ data[t][c].key # None /\ ~data[t][c].own
                /\ data'[t][c] = [data[t][c] EXCEPT !.state = "deputy"]
      BY <1>3, ValidateEffect DEF Types
    <3> QED BY <1>0, <3>1 DEF OwnedAt, Datum
  <2>2. Owned'
    BY <1>3, <2>1, ValidateEffect, OwnedFrame DEF Types
  <2> QED BY <1>3, <2>2, ValidateEffect DEF Types, Tiers
<1>4. CASE FlexAquire(t)
  <2>1. ASSUME NEW c \in Comp
        PROVE  OwnedAt(data'[t][c], task'[t][c], pc'[t])
    <3>1. /\ pc[t] = "acquire" /\ task' = task
          /\ \/ data'[t][c] = data[t][c]
             \/ /\ hsm'[c] \in Keys
                /\ data'[t][c] = [state |-> "owner", key |-> hsm'[c], own |-> TRUE]
      BY <1>4, AcquireEffect, FreshKeys DEF Types
    <3> QED BY <1>0, <3>1 DEF OwnedAt, Datum
  <2>2. Owned'
    BY <1>4, <2>1, AcquireEffect, OwnedFrame DEF Types
  <2> QED BY <1>4, <2>2, AcquireEffect DEF Types, Tiers
<1> QED BY <1>1, <1>2, <1>3, <1>4

LEMMA StoreKeysTypes ==
    ASSUME Types, NEW t \in Trans, StoreKeys(t)
    PROVE  Types'
<1>1. ASSUME NEW c \in Comp
      PROVE  OwnedAt(data'[t][c], task'[t][c], pc'[t])
  <2>1. OwnedAt(data[t][c], task[t][c], pc[t]) /\ data' = data /\ pc[t] = "record"
    BY StoreKeysEffect DEF Types, Owned
  <2>2. \/ task'[t][c] = task[t][c]
        \/ task'[t][c].key = task[t][c].key /\ task'[t][c].own = task[t][c].own
        \/ task'[t][c].key = data[t][c].key /\ task'[t][c].own = data[t][c].own
    BY StoreKeysEffect DEF Types
  <2> QED BY <2>1, <2>2 DEF OwnedAt
<1>2. Owned'
  BY <1>1, StoreKeysEffect, OwnedFrame DEF Types
<1>3. Tiers'
  BY StoreKeysEffect DEF Types, Tiers
<1> QED BY <1>2, <1>3, StoreKeysEffect DEF Types

LEMMA TierTypes ==
    ASSUME Types, NEW t \in Trans, CheckDeputyKeys(t) \/ AbortSeen(t) \/ Tier(t)
    PROVE  Types'
<1>1. TypeOK' /\ data' = data /\ pc[t] \in {"check", "command"}
      /\ \A u \in Trans \ {t} : task'[u] = task[u] /\ pc'[u] = pc[u]
  BY CheckEffect, AbortEffect, TierEffect DEF Types
<1>2. ASSUME NEW c \in Comp
      PROVE  OwnedAt(data'[t][c], task'[t][c], pc'[t])
  <2>1. OwnedAt(data[t][c], task[t][c], pc[t])
    BY DEF Types, Owned
  <2>2. \/ task'[t][c] = Deleted
        \/ task'[t][c].key = task[t][c].key /\ task'[t][c].own = task[t][c].own
    BY CheckEffect, AbortEffect, TierEffect DEF Types
  <2> QED BY <1>1, <2>1, <2>2, Shapes DEF OwnedAt
<1>3. Owned'
  BY <1>1, <1>2, OwnedFrame DEF Types
<1>4. Tiers'
  BY CheckEffect, AbortEffect, TierEffect DEF Types, Tiers
<1> QED BY <1>1, <1>3, <1>4 DEF Types

LEMMA ReleaseTypes ==
    ASSUME Types, NEW t \in Trans, ReleaseComponents(t)
    PROVE  Types'
<1>1. ASSUME NEW c \in Comp
      PROVE  OwnedAt(data'[t][c], task'[t][c], pc'[t])
  <2>1. OwnedAt(data[t][c], task[t][c], pc[t]) /\ data'[t][c] = Out /\ task' = task
    BY ReleaseEffect DEF Types, Owned
  <2> QED BY <2>1, Shapes DEF OwnedAt
<1>2. Owned'
  BY <1>1, ReleaseEffect, OwnedFrame DEF Types
<1>3. Tiers'
  BY ReleaseEffect DEF Types, Tiers
<1> QED BY <1>2, <1>3, ReleaseEffect DEF Types

LEMMA EnvTypes ==
    ASSUME Types, \/ \E p \in Pod : UpdateAsk(p) \/ Sweep(p) \/ Crash(p)
                  \/ \E c \in Comp : Lapse(c) \/ ExtReleases(c)
    PROVE  Types'
<1>1. ASSUME NEW p \in Pod, Crash(p)
      PROVE  Types'
  <2>1. ASSUME NEW t \in Trans, NEW c \in Comp
        PROVE  OwnedAt(data'[t][c], task'[t][c], pc'[t])
    <3>1. OwnedAt(data[t][c], task[t][c], pc[t]) /\ task' = task
      BY <1>1, CrashEffect DEF Types, Owned
    <3>2. data'[t][c] = Out \/ (data'[t] = data[t] /\ pc'[t] = pc[t])
      BY <1>1, CrashEffect DEF Types
    <3> QED BY <3>1, <3>2, Shapes DEF OwnedAt
  <2>2. Tiers'
    BY <1>1, CrashEffect, ReservationAssumption DEF Types, Tiers
  <2> QED BY <1>1, <2>1, <2>2, CrashEffect DEF Types, Owned
<1>2. ASSUME NEW p \in Pod, UpdateAsk(p)
      PROVE  Types'
  BY <1>2, UpdateAskEffect DEF Types, Owned, Tiers
<1>3. ASSUME NEW p \in Pod, Sweep(p)
      PROVE  Types'
  BY <1>3, SweepEffect DEF Types, Owned, Tiers
<1>4. ASSUME NEW c \in Comp, Lapse(c) \/ ExtReleases(c)
      PROVE  Types'
  BY <1>4, LapseEffect DEF Types, Owned, Tiers
<1> QED BY <1>1, <1>2, <1>3, <1>4

\* Every step is one of these.
LEMMA StepCases ==
    ASSUME Types, [Next]_vars
    PROVE  \/ \E t \in Trans :
                 \/ \E p \in Home[t] : Start(t, p)
                 \/ /\ ReserveError(t) /\ pc[t] \in Reserving /\ UNCHANGED map
                    /\ UNCHANGED hsm \/ FlexAquire(t)
                 \/ /\ ~ReserveError(t)
                    /\ Reacquire(t) \/ FlexCheck(t) \/ ValidateDeputyKeys(t) \/ FlexAquire(t)
                 \/ StoreKeys(t) \/ CheckDeputyKeys(t) \/ AbortSeen(t) \/ Tier(t)
                 \/ ReleaseComponents(t)
           \/ \E p \in Pod : UpdateAsk(p) \/ Sweep(p) \/ Crash(p)
           \/ \E c \in Comp : Lapse(c) \/ ExtReleases(c)
           \/ UNCHANGED vars
<1>1. ASSUME NEW t \in Trans, ReserveError(t),
             Reacquire(t) \/ FlexCheck(t) \/ ValidateDeputyKeys(t) \/ FlexAquire(t)
      PROVE  /\ pc[t] \in Reserving /\ UNCHANGED map
             /\ UNCHANGED hsm \/ FlexAquire(t)
  <2>1. pc'[t] = "ended"
    BY <1>1, ErrorEffect DEF Types
  <2>2. ~FlexCheck(t)
    BY <2>1, FlexCheckEffect DEF Types
  <2>3. CASE Reacquire(t)
    <3>1. pc'[t] # "flexcheck"
      BY <2>1
    <3> QED BY <2>3, <3>1 DEF Reacquire, Reserving, Types, TypeOK
  <2>4. CASE ValidateDeputyKeys(t)
    BY <2>1, <2>4 DEF ValidateDeputyKeys, Reserving, Types, TypeOK
  <2>5. CASE FlexAquire(t)
    BY <2>1, <2>5 DEF FlexAquire, Reserving, Types, TypeOK
  <2> QED BY <1>1, <2>2, <2>3, <2>4, <2>5
<1> QED BY <1>1 DEF Next, WorkerStep

LEMMA NextTypes ==
    ASSUME Types, [Next]_vars
    PROVE  Types'
<1>1. ASSUME NEW t \in Trans, ReserveError(t), pc[t] \in Reserving, UNCHANGED map,
             UNCHANGED hsm \/ FlexAquire(t)
      PROVE  Types'
  <2>1. hsm' \in [Comp -> Keys \cup {Free, Ext}]
    BY <1>1, AcquireErrorEffect DEF Types, TypeOK
  <2> QED BY <1>1, <2>1, ErrorTypes
<1>2. CASE UNCHANGED vars
  BY <1>2 DEF vars, Types, TypeOK, Owned, Tiers
<1> QED BY <1>1, <1>2, StepCases, StartTypes, ReserveTypes, StoreKeysTypes, TierTypes,
           ReleaseTypes, EnvTypes

LEMMA InitTypes ==
    ASSUME Init
    PROVE  Types
<1>1. hsm \in [Comp -> Keys \cup {Free, Ext}]
  BY DEF Init
<1>2. map \in [Pod -> [Comp -> Entry \cup {NoEntry}]]
  BY DEF Init
<1>3. thread \in [Pod -> [awake : BOOLEAN, good : SUBSET Comp, bad : SUBSET Comp]]
  <2>1. Sleeping \in [awake : BOOLEAN, good : SUBSET Comp, bad : SUBSET Comp]
    BY DEF Sleeping
  <2> QED BY <2>1 DEF Init
<1>4. /\ task \in [Trans -> [Comp -> Task]]
      /\ \A t \in Trans, c \in Comp : ~task[t][c].own
  <2> DEFINE I == {[open |-> o, key |-> k, own |-> FALSE] : o \in BOOLEAN, k \in {Ext, None}}
  <2>1. ASSUME NEW x \in I
        PROVE  x \in Task /\ ~x.own
    <3>1. PICK o \in BOOLEAN, k \in {Ext, None} : x = [open |-> o, key |-> k, own |-> FALSE]
      OBVIOUS
    <3> QED BY <3>1 DEF Task
  <2>2. task \in [Trans -> [Comp -> I]]
    BY DEF Init
  <2> HIDE DEF I
  <2> QED BY <2>1, <2>2
<1>5. /\ data \in [Trans -> [Comp -> Datum]]
      /\ \A t \in Trans, c \in Comp : data[t][c] = Out
  BY Shapes DEF Init
<1>6. pod \in [Trans -> Pod]
  BY HomePods DEF Init
<1>7. /\ pc \in [Trans -> Steps] /\ crashes \in 0..MaxCrash /\ lost \in BOOLEAN
      /\ erred \in BOOLEAN /\ late \in [Trans -> SUBSET Comp]
  <2>1. /\ pc = [t \in Trans |-> "idle"] /\ crashes = 0 /\ lost = FALSE /\ erred = FALSE
        /\ late = [t \in Trans |-> {}]
    BY DEF Init
  <2>2. crashes \in 0..MaxCrash
    BY <2>1, ReservationAssumption
  <2> QED BY <2>1, <2>2 DEF Steps
<1>10. tier \in [Trans -> 0..MaxTiers] /\ \A t \in Trans : tier[t] < MaxTiers
  <2>1. tier = [t \in Trans |-> 0] /\ 0 \in 0..MaxTiers /\ 0 < MaxTiers
    BY ReservationAssumption DEF Init
  <2> QED BY <2>1
<1>8. TypeOK
  BY <1>1, <1>2, <1>3, <1>4, <1>5, <1>6, <1>7, <1>10 DEF TypeOK
<1>9. Owned
  BY <1>4, <1>5, Shapes DEF Owned, OwnedAt
<1> QED BY <1>8, <1>9, <1>10 DEF Types, Tiers

\* The shapes of all variables, in every reachable state.
THEOREM TypeCorrect == Spec => []TypeOK
<1>1. Types => TypeOK
  BY DEF Types
<1> QED BY <1>1, InitTypes, NextTypes, PTL DEF Spec

-----------------------------------------------------------------------------
(* Lists and tasks *)

LEMMA MatchedFrame ==
    ASSUME Matched, NEW t \in Trans,
           \A u \in Trans \ {t} : data'[u] = data[u] /\ task'[u] = task[u] /\ pc'[u] = pc[u],
           \A c \in Comp : MatchedAt(data'[t][c], task'[t][c], pc'[t], c \in On[t])
    PROVE  Matched'
<1>1. ASSUME NEW u \in Trans, NEW c \in Comp
      PROVE  MatchedAt(data'[u][c], task'[u][c], pc'[u], c \in On[u])
  <2>1. CASE u = t
    BY <2>1
  <2>2. CASE u # t
    <3>1. MatchedAt(data[u][c], task[u][c], pc[u], c \in On[u])
      BY DEF Matched
    <3> QED BY <2>2, <3>1
  <2> QED BY <2>1, <2>2
<1> QED BY <1>1 DEF Matched

\* Steps to where nothing is claimed.
LEMMA EndMatched ==
    ASSUME NEW d, NEW k, NEW l \in {"idle", "ended", "release"}, NEW on
    PROVE  MatchedAt(d, k, l, on)
BY DEF MatchedAt, Reserving

LEMMA StartMatched ==
    ASSUME Types, Matched, NEW t \in Trans, NEW p \in Home[t], Start(t, p)
    PROVE  Matched'
<1>1. ASSUME NEW c \in Comp
      PROVE  MatchedAt(data'[t][c], task'[t][c], pc'[t], c \in On[t])
  <2>1. task' = task /\ pc'[t] \in Reserving
    BY StartEffect DEF Types, Reserving
  <2>2. CASE c \in Listed(t)
    <3>1. data'[t][c] = [state |-> "need", key |-> task[t][c].key, own |-> task[t][c].own]
      BY <2>2, StartEffect DEF Types
    <3> QED BY <2>1, <3>1 DEF MatchedAt, Reserving
  <2>3. CASE c \notin Listed(t)
    <3>1. data'[t][c] = Out /\ ~(c \in On[t] /\ task[t][c].open)
      BY <2>3, StartEffect DEF Types, Listed
    <3> QED BY <2>1, <3>1, Shapes DEF MatchedAt, Reserving
  <2> QED BY <2>2, <2>3
<1> QED BY <1>1, StartEffect, MatchedFrame DEF Types

LEMMA ReserveMatched ==
    ASSUME Types, Matched, NEW t \in Trans, ~ReserveError(t),
           Reacquire(t) \/ FlexCheck(t) \/ ValidateDeputyKeys(t) \/ FlexAquire(t)
    PROVE  Matched'
<1>1. /\ task' = task /\ \A u \in Trans \ {t} : data'[u] = data[u] /\ pc'[u] = pc[u]
      /\ pc[t] \in Reserving /\ pc'[t] \in Reserving
  BY ReacquireEffect, FlexCheckEffect, ValidateEffect, AcquireEffect DEF Types, Reserving
<1>2. ASSUME NEW c \in Comp
      PROVE  MatchedAt(data'[t][c], task'[t][c], pc'[t], c \in On[t])
  <2>1. data[t][c] \in Datum /\ MatchedAt(data[t][c], task[t][c], pc[t], c \in On[t])
    BY DEF Types, TypeOK, Matched
  <2>2. \/ data'[t][c] = data[t][c]
        \/ /\ data[t][c].state \in {"need", "renewed"}
           /\ \/ data'[t][c] = [data[t][c] EXCEPT !.state = "renewed"]
              \/ data'[t][c] = [data[t][c] EXCEPT !.state = "need"]
              \/ data'[t][c] = [data[t][c] EXCEPT !.state = "deputy"]
              \/ data'[t][c].state = "owner"
    <3>1. CASE Reacquire(t)
      BY <3>1, ReacquireEffect DEF Types
    <3>2. CASE FlexCheck(t)
      <4>1. \/ data'[t][c] = data[t][c]
            \/ /\ data[t][c].state = "renewed"
               /\ \/ data'[t][c] = [data[t][c] EXCEPT !.state = "need"]
                  \/ data'[t][c] = [state |-> "owner", key |-> map[pod[t]][c].key, own |-> TRUE]
        BY <3>2, FlexCheckEffect DEF Types
      <4> QED BY <4>1
    <3>3. CASE ValidateDeputyKeys(t)
      BY <3>3, ValidateEffect DEF Types
    <3>4. CASE FlexAquire(t)
      <4>1. \/ data'[t][c] = data[t][c]
            \/ /\ data[t][c].state = "need"
               /\ data'[t][c] = [state |-> "owner", key |-> hsm'[c], own |-> TRUE]
        BY <3>4, AcquireEffect DEF Types
      <4> QED BY <4>1
    <3> QED BY <3>1, <3>2, <3>3, <3>4
  <2>3. \A s \in {"need", "renewed", "deputy"} :
           LET d == [data[t][c] EXCEPT !.state = s]
           IN  d.state = s /\ d.key = data[t][c].key /\ d.own = data[t][c].own
    BY <2>1 DEF Datum
  <2>4. /\ data'[t][c].state \in {"need", "renewed"} =>
              /\ data[t][c].state \in {"need", "renewed"}
              /\ data'[t][c].key = data[t][c].key /\ data'[t][c].own = data[t][c].own
        /\ data'[t][c].state = "out" => data[t][c].state = "out"
    BY <2>2, <2>3
  <2> QED BY <1>1, <2>1, <2>4 DEF MatchedAt, Reserving
<1> QED BY <1>1, <1>2, MatchedFrame

LEMMA StoreKeysMatched ==
    ASSUME Types, Matched, NEW t \in Trans, StoreKeys(t)
    PROVE  Matched'
<1>1. ASSUME NEW c \in Comp
      PROVE  MatchedAt(data'[t][c], task'[t][c], pc'[t], c \in On[t])
  <2>1. /\ data[t][c] \in Datum /\ MatchedAt(data[t][c], task[t][c], pc[t], c \in On[t])
        /\ OwnedAt(data[t][c], task[t][c], pc[t])
    BY DEF Types, TypeOK, Matched, Owned
  <2>2. data' = data /\ pc[t] = "record"
    BY StoreKeysEffect DEF Types
  <2>3. data[t][c].state \in {"out", "need", "owner", "deputy"}
    BY <2>1, <2>2 DEF Datum, OwnedAt
  <2>4. CASE pc'[t] = "check"
    <3>1. task'[t][c] = task[t][c] /\ Recorded(t, c)
      BY <2>4, StoreKeysEffect DEF Types
    <3>2. data[t][c].state = "need" => ~task[t][c].open
      BY <3>1 DEF Recorded
    <3> QED BY <2>1, <2>2, <2>3, <2>4, <3>1, <3>2 DEF MatchedAt, Reserving
  <2>5. CASE pc'[t] = "record"
    <3>1. \/ task'[t][c] = task[t][c]
          \/ /\ ~Recorded(t, c) /\ (task'[t][c].open => task[t][c].open)
             /\ data[t][c].state = "need" => task'[t][c].key = task[t][c].key
                                             /\ task'[t][c].own = task[t][c].own
      BY <2>5, StoreKeysEffect DEF Types
    <3> QED BY <2>1, <2>2, <2>3, <2>5, <3>1 DEF MatchedAt, Reserving
  <2> QED BY <2>4, <2>5, StoreKeysEffect DEF Types
<1> QED BY <1>1, StoreKeysEffect, MatchedFrame DEF Types

LEMMA TierMatched ==
    ASSUME Types, Matched, NEW t \in Trans, CheckDeputyKeys(t) \/ AbortSeen(t) \/ Tier(t)
    PROVE  Matched'
<1>1. /\ data' = data /\ \A u \in Trans \ {t} : task'[u] = task[u] /\ pc'[u] = pc[u]
      /\ pc[t] \in {"check", "command"}
  BY CheckEffect, AbortEffect, TierEffect DEF Types
<1>2. ASSUME NEW c \in Comp
      PROVE  MatchedAt(data'[t][c], task'[t][c], pc'[t], c \in On[t])
  <2>1. MatchedAt(data[t][c], task[t][c], pc[t], c \in On[t])
    BY DEF Matched
  <2>2. \/ pc'[t] = "release"
        \/ pc'[t] \in {"check", "command"} /\ (task'[t][c].open => task[t][c].open)
    BY CheckEffect, AbortEffect, TierEffect DEF Types
  <2> QED BY <1>1, <2>1, <2>2, EndMatched DEF MatchedAt, Reserving
<1> QED BY <1>1, <1>2, MatchedFrame

LEMMA NextMatched ==
    ASSUME Types, Matched, [Next]_vars
    PROVE  Matched'
<1>1. ASSUME NEW t \in Trans, ReserveError(t)
      PROVE  Matched'
  BY <1>1, ErrorEffect, EndMatched, MatchedFrame DEF Types
<1>2. ASSUME NEW t \in Trans, ReleaseComponents(t)
      PROVE  Matched'
  <2>1. /\ \A u \in Trans \ {t} : data'[u] = data[u] /\ task'[u] = task[u] /\ pc'[u] = pc[u]
        /\ pc'[t] = "ended"
    BY <1>2, ReleaseEffect DEF Types
  <2> QED BY <2>1, EndMatched, MatchedFrame
<1>3. ASSUME NEW p \in Pod, Crash(p)
      PROVE  Matched'
  <2>1. ASSUME NEW t \in Trans, NEW c \in Comp
        PROVE  MatchedAt(data'[t][c], task'[t][c], pc'[t], c \in On[t])
    <3>1. MatchedAt(data[t][c], task[t][c], pc[t], c \in On[t]) /\ task' = task
      BY <1>3, CrashEffect DEF Types, Matched
    <3>2. pc'[t] \in {"idle", "ended"} \/ (data'[t] = data[t] /\ pc'[t] = pc[t])
      BY <1>3, CrashEffect DEF Types
    <3> QED BY <3>1, <3>2, EndMatched
  <2> QED BY <2>1 DEF Matched
<1>4. CASE UNCHANGED <<data, task, pc>>
  BY <1>4 DEF Matched
<1> QED BY <1>1, <1>2, <1>3, <1>4, StepCases, StartMatched, ReserveMatched, StoreKeysMatched,
           TierMatched, UpdateAskEffect, SweepEffect, LapseEffect DEF vars, Types

-----------------------------------------------------------------------------
(* Reservations that are renewed *)

LEMMA LostStays ==
    ASSUME Types, [Next]_vars
    PROVE  lost => lost'
<1>1. CASE UNCHANGED lost
  BY <1>1
<1> QED BY <1>1, StepCases, ErrorEffect, StartEffect, ReacquireEffect, FlexCheckEffect,
           ValidateEffect, AcquireEffect, StoreKeysEffect, CheckEffect, AbortEffect, TierEffect,
           ReleaseEffect, UpdateAskEffect, SweepEffect, CrashEffect, LapseEffect
        DEF Types, vars

\* Own keys are passed on, never invented.
LEMMA ApartFrame ==
    ASSUME Apart,
           \A t \in Trans, c \in Comp :
              OwnKeys(data'[t][c], task'[t][c]) \subseteq OwnKeys(data[t][c], task[t][c])
    PROVE  Apart'
BY DEF Apart

\* Components nobody holds are not HeldAt's business.
LEMMA NotHeld ==
    ASSUME NEW h, NEW k
    PROVE  HeldAt(Out, h, k)
BY Shapes DEF HeldAt

LEMMA OutKeys ==
    ASSUME NEW d, NEW k
    PROVE  /\ OwnKeys(Out, k) \subseteq OwnKeys(d, k)
           /\ OwnKeys(d, Deleted) \subseteq OwnKeys(d, k)
           /\ OwnKeys(Out, Deleted) = {}
BY Shapes DEF OwnKeys

\* Steps of one transition that leave HSM and the maps alone.
LEMMA QuietGuarded ==
    ASSUME Types, Held, Apart, NEW t \in Trans, UNCHANGED <<hsm, map>>,
           \A u \in Trans \ {t} : data'[u] = data[u] /\ task'[u] = task[u] /\ pod'[u] = pod[u],
           \A c \in Comp :
              /\ OwnKeys(data'[t][c], task'[t][c]) \subseteq OwnKeys(data[t][c], task[t][c])
              /\ HeldAt(data'[t][c], hsm[c], map[pod'[t]][c].key)
    PROVE  Held' /\ Apart'
<1>1. ASSUME NEW u \in Trans, NEW c \in Comp
      PROVE  /\ OwnKeys(data'[u][c], task'[u][c]) \subseteq OwnKeys(data[u][c], task[u][c])
             /\ HeldAt(data'[u][c], hsm'[c], map'[pod'[u]][c].key)
  <2>1. CASE u = t
    BY <2>1
  <2>2. CASE u # t
    BY <2>2 DEF Held
  <2> QED BY <2>1, <2>2
<1> QED BY <1>1, ApartFrame DEF Held

LEMMA ErrorGuarded ==
    ASSUME Types, Held, Apart, NEW t \in Trans, ReserveError(t), UNCHANGED map,
           UNCHANGED hsm \/ FlexAquire(t)
    PROVE  Held' /\ Apart'
<1>1. ASSUME NEW u \in Trans, NEW c \in Comp
      PROVE  /\ OwnKeys(data'[u][c], task'[u][c]) \subseteq OwnKeys(data[u][c], task[u][c])
             /\ HeldAt(data'[u][c], hsm'[c], map'[pod'[u]][c].key)
  <2>1. CASE u = t
    <3>1. data'[u][c] = Out /\ task'[u][c] = Deleted
      BY <2>1, ErrorEffect DEF Types
    <3> QED BY <3>1, OutKeys, NotHeld
  <2>2. CASE u # t
    <3>1. data'[u] = data[u] /\ task'[u] = task[u] /\ pod' = pod /\ map' = map
      BY <2>2, ErrorEffect DEF Types
    <3>2. hsm'[c] = hsm[c] \/ hsm[c] = Free
      BY AcquireErrorEffect DEF Types
    <3>3. HeldAt(data[u][c], hsm[c], map[pod[u]][c].key)
      BY DEF Held
    <3>4. hsm[c] = Free => data[u][c].state \notin {"renewed", "owner"}
      <4>1. OwnedAt(data[u][c], task[u][c], pc[u])
        BY DEF Types, Owned
      <4> QED BY <3>3, <4>1, ReservationAssumption DEF HeldAt, OwnedAt
    <3> QED BY <3>1, <3>2, <3>3, <3>4 DEF HeldAt
  <2> QED BY <2>1, <2>2
<1> QED BY <1>1, ApartFrame DEF Held

LEMMA StartGuarded ==
    ASSUME Types, Held, Apart, NEW t \in Trans, NEW p \in Home[t], Start(t, p)
    PROVE  Held' /\ Apart'
<1>1. ASSUME NEW c \in Comp
      PROVE  /\ OwnKeys(data'[t][c], task'[t][c]) \subseteq OwnKeys(data[t][c], task[t][c])
             /\ HeldAt(data'[t][c], hsm[c], map[pod'[t]][c].key)
  <2>1. task' = task
    BY StartEffect DEF Types
  <2>2. CASE data'[t][c] = Out
    BY <2>1, <2>2, OutKeys, NotHeld
  <2>3. CASE data'[t][c] = [state |-> "need", key |-> task[t][c].key, own |-> task[t][c].own]
    BY <2>1, <2>3 DEF OwnKeys, HeldAt
  <2> QED BY <2>2, <2>3, StartEffect DEF Types
<1> QED BY <1>1, StartEffect, QuietGuarded DEF Types

\* Reacquire puts into the map what HSM confirmed.
LEMMA ReacquireGuarded ==
    ASSUME Types, Held, Apart, NEW t \in Trans, Reacquire(t), ~ReserveError(t)
    PROVE  Held' /\ Apart'
<1>1. ASSUME NEW u \in Trans, NEW c \in Comp
      PROVE  /\ OwnKeys(data'[u][c], task'[u][c]) \subseteq OwnKeys(data[u][c], task[u][c])
             /\ HeldAt(data'[u][c], hsm'[c], map'[pod'[u]][c].key)
  <2>0. /\ task' = task /\ pod' = pod /\ hsm' = hsm /\ data[u][c] \in Datum
        /\ HeldAt(data[u][c], hsm[c], map[pod[u]][c].key) /\ pod[u] \in Pod
    BY ReacquireEffect DEF Types, TypeOK, Held
  <2>1. CASE u = t
    <3>1. \/ data'[t][c] = data[t][c] /\ map'[pod[t]][c] = map[pod[t]][c]
          \/ /\ data'[t][c] = [data[t][c] EXCEPT !.state = "renewed"]
             /\ hsm[c] = data[t][c].key /\ map'[pod[t]][c].key = data[t][c].key
      BY ReacquireEffect DEF Types
    <3> QED BY <2>0, <2>1, <3>1 DEF OwnKeys, HeldAt, Datum
  <2>2. CASE u # t
    <3>1. data'[u] = data[u]
      BY <2>2, ReacquireEffect DEF Types
    <3>2. map'[pod[u]][c].key = map[pod[u]][c].key \/ map'[pod[u]][c].key = hsm[c]
      <4>1. CASE pod[u] = pod[t]
        <5>1. \/ map'[pod[t]][c] = map[pod[t]][c]
              \/ hsm[c] = data[t][c].key /\ map'[pod[t]][c].key = data[t][c].key
          BY ReacquireEffect DEF Types
        <5> QED BY <4>1, <5>1
      <4>2. CASE pod[u] # pod[t]
        BY <2>0, <4>2, ReacquireEffect DEF Types
      <4> QED BY <4>1, <4>2
    <3> QED BY <2>0, <3>1, <3>2 DEF HeldAt
  <2> QED BY <2>1, <2>2
<1> QED BY <1>1, ApartFrame DEF Held

\* What FlexCheck finds in the map is what Reacquire has put there.
LEMMA FlexCheckGuarded ==
    ASSUME Types, Held, Apart, NEW t \in Trans, FlexCheck(t)
    PROVE  Held' /\ Apart'
<1>1. ASSUME NEW c \in Comp
      PROVE  /\ OwnKeys(data'[t][c], task'[t][c]) \subseteq OwnKeys(data[t][c], task[t][c])
             /\ HeldAt(data'[t][c], hsm[c], map[pod'[t]][c].key)
  <2>1. /\ task' = task /\ pod' = pod /\ data[t][c] \in Datum
        /\ HeldAt(data[t][c], hsm[c], map[pod[t]][c].key)
        /\ OwnedAt(data[t][c], task[t][c], pc[t])
    BY FlexCheckEffect DEF Types, TypeOK, Held, Owned
  <2>2. \/ data'[t][c] = data[t][c]
        \/ data'[t][c] = [data[t][c] EXCEPT !.state = "need"]
        \/ /\ data[t][c].state = "renewed"
           /\ data'[t][c] = [state |-> "owner", key |-> map[pod[t]][c].key, own |-> TRUE]
    BY FlexCheckEffect DEF Types
  <2>3. data[t][c].state = "renewed" => /\ hsm[c] = data[t][c].key /\ data[t][c].own
                                        /\ map[pod[t]][c].key = data[t][c].key
    BY <2>1 DEF HeldAt, OwnedAt
  <2> QED BY <2>1, <2>2, <2>3 DEF HeldAt, OwnKeys, Datum
<1> QED BY <1>1, FlexCheckEffect, QuietGuarded DEF Types

LEMMA ValidateGuarded ==
    ASSUME Types, Held, Apart, NEW t \in Trans, ValidateDeputyKeys(t), ~ReserveError(t)
    PROVE  Held' /\ Apart'
<1>1. ASSUME NEW c \in Comp
      PROVE  /\ OwnKeys(data'[t][c], task'[t][c]) \subseteq OwnKeys(data[t][c], task[t][c])
             /\ HeldAt(data'[t][c], hsm[c], map[pod'[t]][c].key)
  <2>1. /\ task' = task /\ pod' = pod /\ data[t][c] \in Datum
        /\ HeldAt(data[t][c], hsm[c], map[pod[t]][c].key)
    BY ValidateEffect DEF Types, TypeOK, Held
  <2>2. \/ data'[t][c] = data[t][c]
        \/ data'[t][c] = [data[t][c] EXCEPT !.state = "deputy"]
    BY ValidateEffect DEF Types
  <2> QED BY <2>1, <2>2 DEF HeldAt, OwnKeys, Datum
<1> QED BY <1>1, ValidateEffect, QuietGuarded DEF Types

\* A key that HSM hands out is nobody's, and nobody holds what is free.
LEMMA AcquireGuarded ==
    ASSUME Types, Held, Apart, NEW t \in Trans, FlexAquire(t), ~ReserveError(t)
    PROVE  Held' /\ Apart'
<1>0. /\ task' = task /\ pod' = pod
      /\ \A u \in Trans \ {t} : data'[u] = data[u]
  BY AcquireEffect DEF Types
<1>1. ASSUME NEW u \in Trans, NEW c \in Comp
      PROVE  HeldAt(data'[u][c], hsm'[c], map'[pod'[u]][c].key)
  <2>0. /\ HeldAt(data[u][c], hsm[c], map[pod[u]][c].key) /\ pod[u] \in Pod
        /\ OwnedAt(data[u][c], task[u][c], pc[u])
    BY DEF Types, TypeOK, Held, Owned
  <2>1. CASE u = t
    <3>1. \/ /\ data'[t][c] = data[t][c] /\ map'[pod[t]][c] = map[pod[t]][c]
             /\ hsm'[c] = hsm[c]
          \/ /\ data'[t][c] = [state |-> "owner", key |-> hsm'[c], own |-> TRUE]
             /\ map'[pod[t]][c].key = hsm'[c]
      BY AcquireEffect DEF Types
    <3> QED BY <1>0, <2>0, <2>1, <3>1 DEF HeldAt
  <2>2. CASE u # t
    <3>1. hsm[c] = Free => data[u][c].state \notin {"renewed", "owner"}
      BY <2>0, ReservationAssumption DEF HeldAt, OwnedAt
    <3>2. \/ hsm[c] = Free
          \/ map'[pod[u]][c] = map[pod[u]][c] /\ hsm'[c] = hsm[c]
      <4>1. CASE pod[u] = pod[t]
        BY <4>1, AcquireEffect DEF Types
      <4>2. CASE pod[u] # pod[t]
        BY <2>0, <4>2, AcquireEffect DEF Types
      <4> QED BY <4>1, <4>2
    <3> QED BY <1>0, <2>0, <2>2, <3>1, <3>2 DEF HeldAt
  <2> QED BY <2>1, <2>2
<1>2. ASSUME NEW c \in Comp
      PROVE  \A u \in Trans : u # t =>
               OwnKeys(data'[t][c], task[t][c]) \cap OwnKeys(data[u][c], task[u][c]) = {}
  <2>1. SUFFICES ASSUME NEW u \in Trans, u # t
                 PROVE  OwnKeys(data'[t][c], task[t][c]) \cap OwnKeys(data[u][c], task[u][c]) = {}
    OBVIOUS
  <2>2. OwnKeys(data[t][c], task[t][c]) \cap OwnKeys(data[u][c], task[u][c]) = {}
    BY <2>1 DEF Apart
  <2>3. CASE data'[t][c] = data[t][c]
    BY <2>2, <2>3
  <2>4. CASE /\ data'[t][c] = [state |-> "owner", key |-> hsm'[c], own |-> TRUE]
             /\ hsm'[c] \in Fresh(c)
    <3>1. hsm'[c] # data[u][c].key /\ hsm'[c] # task[u][c].key
      BY <2>4, FreshKeys
    <3> QED BY <2>2, <2>4, <3>1 DEF OwnKeys
  <2> QED BY <2>3, <2>4, AcquireEffect DEF Types
<1>3. Apart'
  <2>1. ASSUME NEW u \in Trans, NEW v \in Trans, NEW c \in Comp, u # v
        PROVE  OwnKeys(data'[u][c], task'[u][c]) \cap OwnKeys(data'[v][c], task'[v][c]) = {}
    <3>1. CASE u = t
      BY <1>0, <1>2, <2>1, <3>1
    <3>2. CASE v = t
      BY <1>0, <1>2, <2>1, <3>2
    <3>3. CASE u # t /\ v # t
      BY <1>0, <2>1, <3>3 DEF Apart
    <3> QED BY <3>1, <3>2, <3>3
  <2> QED BY <2>1 DEF Apart
<1> QED BY <1>1, <1>3 DEF Held

LEMMA KeysGuarded ==
    ASSUME Types, Held, Apart, NEW t \in Trans,
           StoreKeys(t) \/ CheckDeputyKeys(t) \/ AbortSeen(t) \/ Tier(t)
    PROVE  Held' /\ Apart'
<1>1. /\ UNCHANGED <<hsm, map, pod, data>> /\ \A u \in Trans \ {t} : task'[u] = task[u]
  BY StoreKeysEffect, CheckEffect, AbortEffect, TierEffect DEF Types
<1>2. ASSUME NEW c \in Comp
      PROVE  OwnKeys(data[t][c], task'[t][c]) \subseteq OwnKeys(data[t][c], task[t][c])
  <2>1. \/ task'[t][c] = task[t][c] \/ task'[t][c] = Deleted
        \/ task'[t][c].key = task[t][c].key /\ task'[t][c].own = task[t][c].own
        \/ task'[t][c].key = data[t][c].key /\ task'[t][c].own = data[t][c].own
    BY StoreKeysEffect, CheckEffect, AbortEffect, TierEffect DEF Types
  <2> QED BY <2>1, OutKeys DEF OwnKeys
<1>3. \A c \in Comp : HeldAt(data[t][c], hsm[c], map[pod[t]][c].key)
  BY DEF Held
<1> QED BY <1>1, <1>2, <1>3, QuietGuarded

\* What a worker gives back is nobody else's.
LEMMA ReleaseGuarded ==
    ASSUME Types, Held, Apart, NEW t \in Trans, ReleaseComponents(t)
    PROVE  Held' /\ Apart'
<1>0. task' = task /\ pod' = pod /\ \A u \in Trans \ {t} : data'[u] = data[u]
  BY ReleaseEffect DEF Types
<1>1. ASSUME NEW u \in Trans, NEW c \in Comp
      PROVE  /\ OwnKeys(data'[u][c], task'[u][c]) \subseteq OwnKeys(data[u][c], task[u][c])
             /\ HeldAt(data'[u][c], hsm'[c], map'[pod'[u]][c].key)
  <2>1. CASE u = t
    <3>1. data'[u][c] = Out
      BY <2>1, ReleaseEffect DEF Types
    <3> QED BY <1>0, <3>1, OutKeys, NotHeld
  <2>2. CASE u # t
    <3>0. /\ HeldAt(data[u][c], hsm[c], map[pod[u]][c].key) /\ pod[u] \in Pod
          /\ OwnedAt(data[u][c], task[u][c], pc[u])
          /\ HeldAt(data[t][c], hsm[c], map[pod[t]][c].key)
          /\ OwnedAt(data[t][c], task[t][c], pc[t])
          /\ OwnKeys(data[t][c], task[t][c]) \cap OwnKeys(data[u][c], task[u][c]) = {}
      BY <2>2 DEF Types, TypeOK, Held, Owned, Apart
    <3>1. \/ hsm'[c] = hsm[c] /\ map'[pod[t]][c] = map[pod[t]][c]
          \/ data[t][c].state = "owner" /\ hsm[c] \in Keys
      BY ReleaseEffect DEF Types
    <3>2. CASE data[t][c].state = "owner" /\ hsm[c] \in Keys
      <4>1. hsm[c] \in OwnKeys(data[t][c], task[t][c])
        BY <3>0, <3>2 DEF HeldAt, OwnedAt, OwnKeys
      <4>2. data[u][c].state \in {"renewed", "owner"} => hsm[c] \in OwnKeys(data[u][c], task[u][c])
        BY <3>0, <3>2 DEF HeldAt, OwnedAt, OwnKeys
      <4>3. data[u][c].state \notin {"renewed", "owner"}
        BY <3>0, <4>1, <4>2
      <4> QED BY <1>0, <2>2, <4>3 DEF HeldAt
    <3>3. CASE hsm'[c] = hsm[c] /\ map'[pod[t]][c] = map[pod[t]][c]
      <4>1. map'[pod[u]][c] = map[pod[u]][c]
        BY <3>0, <3>3, ReleaseEffect DEF Types
      <4> QED BY <1>0, <2>2, <3>0, <3>3, <4>1
    <3> QED BY <3>1, <3>2, <3>3
  <2> QED BY <2>1, <2>2
<1> QED BY <1>1, ApartFrame DEF Held

LEMMA CrashGuarded ==
    ASSUME Types, Held, Apart, NEW p \in Pod, Crash(p)
    PROVE  Held' /\ Apart'
<1>1. ASSUME NEW u \in Trans, NEW c \in Comp
      PROVE  /\ OwnKeys(data'[u][c], task'[u][c]) \subseteq OwnKeys(data[u][c], task[u][c])
             /\ HeldAt(data'[u][c], hsm'[c], map'[pod'[u]][c].key)
  <2>0. /\ task' = task /\ pod' = pod /\ hsm' = hsm /\ pod[u] \in Pod
        /\ HeldAt(data[u][c], hsm[c], map[pod[u]][c].key)
    BY CrashEffect DEF Types, TypeOK, Held
  <2>1. CASE pod[u] = p
    <3>1. data'[u][c] = Out
      BY <2>1, CrashEffect DEF Types
    <3> QED BY <2>0, <3>1, OutKeys, NotHeld
  <2>2. CASE pod[u] # p
    <3>1. data'[u] = data[u] /\ map'[pod[u]] = map[pod[u]]
      BY <2>0, <2>2, CrashEffect DEF Types
    <3> QED BY <2>0, <3>1
  <2> QED BY <2>1, <2>2
<1> QED BY <1>1, ApartFrame DEF Held

\* A reservation that some pod renews neither lapses nor leaves the map.
LEMMA EnvGuarded ==
    ASSUME Types, Held, Apart, ~lost',
           \/ \E p \in Pod : Sweep(p) \/ UpdateAsk(p)
           \/ \E c \in Comp : Lapse(c) \/ ExtReleases(c)
    PROVE  Held' /\ Apart'
<1>0. UNCHANGED <<data, task, pod>>
  BY SweepEffect, UpdateAskEffect, LapseEffect DEF Types
<1>1. ASSUME NEW u \in Trans, NEW c \in Comp
      PROVE  HeldAt(data'[u][c], hsm'[c], map'[pod'[u]][c].key)
  <2>0. /\ HeldAt(data[u][c], hsm[c], map[pod[u]][c].key) /\ pod[u] \in Pod
        /\ OwnedAt(data[u][c], task[u][c], pc[u])
    BY DEF Types, TypeOK, Held, Owned
  <2>1. SUFFICES ASSUME data[u][c].state \in {"renewed", "owner"}
                 PROVE  hsm'[c] = hsm[c] /\ map'[pod[u]][c].key = map[pod[u]][c].key
    BY <1>0, <2>0 DEF HeldAt
  <2>2. hsm[c] \in Keys /\ map[pod[u]][c].key = hsm[c]
    BY <2>0, <2>1 DEF HeldAt, OwnedAt
  <2>3. CASE \E p \in Pod : UpdateAsk(p)
    BY <2>3, UpdateAskEffect DEF Types
  <2>4. ASSUME NEW p \in Pod, Sweep(p)
        PROVE  hsm'[c] = hsm[c] /\ map'[pod[u]][c].key = map[pod[u]][c].key
    <3>1. CASE p = pod[u]
      BY <2>2, <2>4, <3>1, SweepEffect DEF Types
    <3>2. CASE p # pod[u]
      BY <2>0, <2>4, <3>2, SweepEffect DEF Types
    <3> QED BY <3>1, <3>2
  <2>5. ASSUME NEW d \in Comp, Lapse(d) \/ ExtReleases(d)
        PROVE  hsm'[c] = hsm[c] /\ map'[pod[u]][c].key = map[pod[u]][c].key
    <3>1. d # c
      BY <2>0, <2>2, <2>5, LapseEffect DEF Types
    <3> QED BY <2>5, <3>1, LapseEffect DEF Types
  <2> QED BY <2>3, <2>4, <2>5
<1>2. Apart'
  BY <1>0 DEF Apart
<1> QED BY <1>1, <1>2 DEF Held

LEMMA NextGuarded ==
    ASSUME Types, Guarded, [Next]_vars
    PROVE  Guarded'
<1>1. SUFFICES ASSUME ~lost' PROVE Held' /\ Apart'
  BY DEF Guarded
<1>2. Held /\ Apart
  BY <1>1, LostStays DEF Guarded
<1>3. CASE UNCHANGED vars
  BY <1>2, <1>3 DEF vars, Held, Apart
<1> QED BY <1>1, <1>2, <1>3, StepCases, ErrorGuarded, StartGuarded, ReacquireGuarded,
           FlexCheckGuarded, ValidateGuarded, AcquireGuarded, KeysGuarded, ReleaseGuarded,
           CrashGuarded, EnvGuarded

LEMMA InitGuarded ==
    ASSUME Init
    PROVE  Guarded
<1>1. \A t \in Trans, c \in Comp : data[t][c] = Out /\ task[t][c].own = FALSE
  BY DEF Init
<1>2. Held
  BY <1>1, NotHeld DEF Held
<1>3. \A t \in Trans, c \in Comp : OwnKeys(data[t][c], task[t][c]) = {}
  BY <1>1, Shapes DEF OwnKeys
<1>4. Apart
  BY <1>3 DEF Apart
<1> QED BY <1>2, <1>4 DEF Guarded

\* While no reservation in a pod's map goes unrenewed, two transitions never
\* command one component by reservations of their own, whatever crashes and
\* whichever calls to HSM fail: ReserveComponents takes over only what HSM
\* confirms or hands out, and ReleaseComponents returns nothing of others.
THEOREM Exclusion == Spec => []Exclusive
<1>1. Init => Types /\ Guarded
  BY InitTypes, InitGuarded
<1>2. Types /\ Guarded /\ [Next]_vars => Types' /\ Guarded'
  BY NextTypes, NextGuarded
<1>3. Types /\ Guarded => Exclusive
  <2> SUFFICES ASSUME Types, Guarded, ~lost, NEW t \in Trans, NEW u \in Trans, NEW c \in Comp,
                      t # u, data[t][c].state = "owner", data[u][c].state = "owner"
               PROVE  FALSE
    BY DEF Exclusive
  <2>1. /\ HeldAt(data[t][c], hsm[c], map[pod[t]][c].key)
        /\ HeldAt(data[u][c], hsm[c], map[pod[u]][c].key)
        /\ OwnedAt(data[t][c], task[t][c], pc[t]) /\ OwnedAt(data[u][c], task[u][c], pc[u])
        /\ OwnKeys(data[t][c], task[t][c]) \cap OwnKeys(data[u][c], task[u][c]) = {}
    BY DEF Guarded, Held, Apart, Types, Owned
  <2>2. hsm[c] \in OwnKeys(data[t][c], task[t][c]) /\ hsm[c] \in OwnKeys(data[u][c], task[u][c])
    BY <2>1 DEF HeldAt, OwnedAt, OwnKeys
  <2> QED BY <2>1, <2>2
<1> QED BY <1>1, <1>2, <1>3, PTL DEF Spec

\* ReleaseComponents gives back the worker's own reservations only, though it
\* names them by component and takes their keys from the map of the pod.
THEOREM ReleasesOwn == Spec => ReleaseOwn
<1> DEFINE Act == \A t \in Trans, c \in Comp :
                     (pc[t] = "release" /\ pc'[t] = "ended" /\ hsm[c] # hsm'[c])
                        => hsm[c] = data[t][c].key \/ lost
<1>1. Init => Types /\ Guarded
  BY InitTypes, InitGuarded
<1>2. Types /\ Guarded /\ [Next]_vars => Types' /\ Guarded'
  BY NextTypes, NextGuarded
<1>3. Types /\ Guarded /\ [Next]_vars => [Act]_vars
  <2> SUFFICES ASSUME Types, Guarded, [Next]_vars, ~lost, NEW t \in Trans, NEW c \in Comp,
                      pc[t] = "release", pc'[t] = "ended", hsm[c] # hsm'[c]
               PROVE  hsm[c] = data[t][c].key
    OBVIOUS
  <2>1. ReleaseComponents(t)
    <3>1. \/ UNCHANGED hsm \/ pc'[t] = pc[t] \/ ReleaseComponents(t)
          \/ \E u \in Trans : FlexAquire(u) /\ pc[u] \in Reserving
      BY StepCases, StartEffect, ReacquireEffect, FlexCheckEffect, ValidateEffect, AcquireEffect,
         StoreKeysEffect, CheckEffect, AbortEffect, TierEffect, ReleaseEffect, UpdateAskEffect,
         SweepEffect, CrashEffect, LapseEffect DEF Types, vars, Reserving
    <3>2. ASSUME NEW u \in Trans, FlexAquire(u), pc[u] \in Reserving
          PROVE  FALSE
      <4>1. u # t
        BY <3>2 DEF Reserving
      <4>2. pc'[t] = pc[t]
        BY <3>2, <4>1, AcquireEffect, ErrorEffect DEF Types
      <4> QED BY <4>2
    <3> QED BY <3>1, <3>2
  <2>2. data[t][c].state = "owner" /\ HeldAt(data[t][c], hsm[c], map[pod[t]][c].key)
    BY <2>1, ReleaseEffect DEF Types, Guarded, Held
  <2> QED BY <2>2 DEF HeldAt
<1>4. ReleaseOwn <=> [][Act]_vars
  BY DEF ReleaseOwn
<1> HIDE DEF Act
<1> QED BY <1>1, <1>2, <1>3, <1>4, PTL DEF Spec

-----------------------------------------------------------------------------
(* Reservations that are gone *)

\* A key whose reservation is gone does not come back: HSM hands out no key
\* that a worker still knows, and the other service reserves nothing anew.
LEMMA NeverBack ==
    ASSUME Types, [Next]_vars, NEW t \in Trans, NEW c \in Comp, hsm[c] # data[t][c].key
    PROVE  hsm'[c] # data[t][c].key
<1>0. data[t][c].key \in Keys \cup {Ext, None}
  <2>1. data[t][c] \in Datum
    BY DEF Types, TypeOK
  <2> QED BY <2>1 DEF Datum
<1>1. hsm'[c] = hsm[c] \/ hsm'[c] = Free \/ hsm'[c] \in Fresh(c)
  <2>1. ASSUME NEW u \in Trans, FlexAquire(u)
        PROVE  hsm'[c] = hsm[c] \/ hsm'[c] \in Fresh(c)
    BY <2>1, AcquireEffect, AcquireErrorEffect DEF Types
  <2>2. ASSUME NEW d \in Comp, Lapse(d) \/ ExtReleases(d)
        PROVE  hsm'[c] = hsm[c] \/ hsm'[c] = Free
    BY <2>2, LapseEffect DEF Types
  <2>3. ASSUME NEW u \in Trans, ReleaseComponents(u)
        PROVE  hsm'[c] = hsm[c] \/ hsm'[c] = Free
    BY <2>3, ReleaseEffect DEF Types
  <2> QED BY <2>1, <2>2, <2>3, StepCases, StartEffect, ReacquireEffect, FlexCheckEffect,
             ValidateEffect, StoreKeysEffect, CheckEffect, AbortEffect, TierEffect,
             UpdateAskEffect, SweepEffect, CrashEffect DEF Types, vars
<1> QED BY <1>0, <1>1, FreshKeys, ReservationAssumption

LEMMA GoneFrame ==
    ASSUME Types, Gone, [Next]_vars, NEW t \in Trans, pc'[t] = pc[t], late'[t] = late[t],
           data'[t] = data[t], erred => erred',
           \A c \in Comp : task'[t][c].open => task[t][c].open
    PROVE  GoneAt(t)'
<1>1. late[t] \subseteq Comp
  BY DEF Types, TypeOK
<1>2. ASSUME NEW c \in late[t], c \in Unfinished(t)'
      PROVE  hsm'[c] # data'[t][c].key /\ (pc'[t] = "command" => erred')
  <2>1. c \in Unfinished(t)
    BY <1>1, <1>2 DEF Unfinished
  <2>2. hsm[c] # data[t][c].key /\ (pc[t] = "command" => erred)
    BY <2>1 DEF Gone, GoneAt
  <2> QED BY <1>1, <2>2, NeverBack
<1> QED BY <1>2 DEF Gone, GoneAt

\* What a step of transition t does to another one, u.
LEMMA OthersSame ==
    ASSUME Types, NEW t \in Trans, NEW u \in Trans, t # u,
           \/ \E p \in Home[t] : Start(t, p)
           \/ ReserveError(t)
           \/ /\ ~ReserveError(t)
              /\ Reacquire(t) \/ FlexCheck(t) \/ ValidateDeputyKeys(t) \/ FlexAquire(t)
           \/ StoreKeys(t) \/ CheckDeputyKeys(t) \/ AbortSeen(t) \/ Tier(t)
           \/ ReleaseComponents(t)
    PROVE  /\ pc'[u] = pc[u] /\ data'[u] = data[u] /\ late'[u] = late[u] /\ task'[u] = task[u]
           /\ erred => erred'
<1>1. CASE \/ \E p \in Home[t] : Start(t, p)
           \/ ReserveError(t)
  BY <1>1, StartEffect, ErrorEffect DEF Types
<1>2. CASE /\ ~ReserveError(t)
           /\ Reacquire(t) \/ FlexCheck(t) \/ ValidateDeputyKeys(t) \/ FlexAquire(t)
  BY <1>2, ReacquireEffect, FlexCheckEffect, ValidateEffect, AcquireEffect DEF Types
<1>3. CASE StoreKeys(t) \/ CheckDeputyKeys(t) \/ AbortSeen(t)
  BY <1>3, StoreKeysEffect, CheckEffect, AbortEffect DEF Types
<1>4. CASE Tier(t)
  BY <1>4, TierEffect DEF Types
<1>5. CASE ReleaseComponents(t)
  <2>1. /\ \A v \in Trans \ {t} : /\ data'[v] = data[v] /\ pc'[v] = pc[v]
                                  /\ late'[v] = late[v]
        /\ task' = task /\ (erred' = TRUE \/ erred' = erred)
    BY <1>5, ReleaseEffect DEF Types
  <2> QED BY <2>1
<1> QED BY <1>1, <1>2, <1>3, <1>4, <1>5

LEMMA OwnGone ==
    ASSUME Types, Matched, Gone, [Next]_vars, NEW t \in Trans,
           \/ \E p \in Home[t] : Start(t, p)
           \/ ReserveError(t) /\ pc[t] \in Reserving
           \/ /\ ~ReserveError(t)
              /\ Reacquire(t) \/ FlexCheck(t) \/ ValidateDeputyKeys(t) \/ FlexAquire(t)
           \/ StoreKeys(t) \/ CheckDeputyKeys(t) \/ AbortSeen(t) \/ Tier(t)
           \/ ReleaseComponents(t)
    PROVE  GoneAt(t)'
<1>0. GoneAt(t) /\ late[t] \subseteq Comp
  BY DEF Gone, GoneAt, Types, TypeOK
<1>1. ASSUME late'[t] = {}
      PROVE  GoneAt(t)'
  BY <1>1 DEF GoneAt
<1>2. CASE \/ (\E p \in Home[t] : Start(t, p)) \/ (ReserveError(t) /\ pc[t] \in Reserving)
           \/ /\ ~ReserveError(t)
              /\ Reacquire(t) \/ FlexCheck(t) \/ ValidateDeputyKeys(t) \/ FlexAquire(t)
           \/ StoreKeys(t)
  <2>1. pc[t] \in Early /\ late' = late
    BY <1>2, StartEffect, ErrorEffect, ReacquireEffect, FlexCheckEffect, ValidateEffect,
       AcquireEffect, StoreKeysEffect DEF Types, Early, Reserving
  <2> QED BY <1>0, <1>1, <2>1 DEF GoneAt
<1>3. CASE CheckDeputyKeys(t)
  <2>1. ASSUME NEW c \in late[t], c \in Unfinished(t)'
        PROVE  hsm'[c] # data'[t][c].key /\ erred'
    <3>1. /\ c \in Comp /\ c \in On[t] /\ task'[t][c].open /\ task[t][c].open
          /\ hsm' = hsm /\ data' = data /\ pc[t] = "check"
      BY <1>0, <1>3, <2>1, CheckEffect DEF Types, Unfinished
    <3>2. hsm[c] # data[t][c].key
      BY <1>0, <3>1 DEF GoneAt, Unfinished
    <3>3. data[t][c].key # None
      <4>1. /\ MatchedAt(data[t][c], task[t][c], pc[t], c \in On[t])
            /\ OwnedAt(data[t][c], task[t][c], pc[t])
        BY <3>1 DEF Matched, Types, Owned
      <4>2. data[t][c].state \in {"owner", "deputy"}
        BY <3>1, <4>1 DEF MatchedAt
      <4> QED BY <4>1, <4>2, ReservationAssumption DEF OwnedAt
    <3> QED BY <1>3, <3>1, <3>2, <3>3, CheckEffect DEF Types
  <2>2. pc'[t] = "command" /\ late' = late
    BY <1>3, CheckEffect DEF Types
  <2> QED BY <2>1, <2>2 DEF GoneAt, Early, Reserving
<1>4. CASE AbortSeen(t)
  <2>1. pc'[t] = "release" /\ \A c \in Comp : ~task'[t][c].open
    BY <1>4, AbortEffect, Shapes DEF Types
  <2>2. late' = late
    BY <1>4, AbortEffect DEF Types
  <2> QED BY <1>0, <2>1, <2>2 DEF GoneAt, Early, Reserving, Unfinished
<1>5. CASE Tier(t)
  <2>1. /\ pc[t] = "command" /\ hsm' = hsm /\ data' = data
        /\ late'[t] = late[t] \cup {c \in Unfinished(t) : hsm[c] # data[t][c].key}
        /\ pc'[t] \in {"release", "check"}
    BY <1>5, TierEffect DEF Types
  <2>2. \A c \in Comp : task'[t][c].open => task[t][c].open
    BY <1>5, TierEffect, Shapes DEF Types
  <2>3. ASSUME NEW c \in late'[t], c \in Unfinished(t)'
        PROVE  hsm'[c] # data'[t][c].key
    <3>1. c \in Comp
      BY <1>0, <2>1, ReservationAssumption DEF Unfinished
    <3>2. c \in Unfinished(t)
      BY <2>2, <2>3, <3>1 DEF Unfinished
    <3> QED BY <1>0, <2>1, <3>2 DEF GoneAt
  <2> QED BY <2>1, <2>3 DEF GoneAt, Early, Reserving
<1>6. CASE ReleaseComponents(t)
  BY <1>1, <1>6, ReleaseEffect DEF Types
<1> QED BY <1>2, <1>3, <1>4, <1>5, <1>6

LEMMA NextGone ==
    ASSUME Types, Matched, Gone, [Next]_vars
    PROVE  Gone'
<1> SUFFICES ASSUME NEW t \in Trans PROVE GoneAt(t)'
  BY DEF Gone
<1>1. ASSUME pc'[t] = pc[t], late'[t] = late[t], data'[t] = data[t], erred => erred',
             \A c \in Comp : task'[t][c].open => task[t][c].open
      PROVE  GoneAt(t)'
  BY <1>1, GoneFrame
<1>2. ASSUME NEW u \in Trans, u # t,
             \/ \E p \in Home[u] : Start(u, p)
             \/ ReserveError(u)
             \/ /\ ~ReserveError(u)
                /\ Reacquire(u) \/ FlexCheck(u) \/ ValidateDeputyKeys(u) \/ FlexAquire(u)
             \/ StoreKeys(u) \/ CheckDeputyKeys(u) \/ AbortSeen(u) \/ Tier(u)
             \/ ReleaseComponents(u)
      PROVE  GoneAt(t)'
  BY <1>1, <1>2, OthersSame
<1>3. CASE \/ \E p \in Pod : UpdateAsk(p) \/ Sweep(p)
           \/ \E c \in Comp : Lapse(c) \/ ExtReleases(c)
           \/ UNCHANGED vars
  BY <1>1, <1>3, UpdateAskEffect, SweepEffect, LapseEffect DEF Types, vars
<1>4. ASSUME NEW p \in Pod, Crash(p)
      PROVE  GoneAt(t)'
  <2>1. CASE pod[t] = p
    <3>1. late'[t] = {}
      BY <1>4, <2>1, CrashEffect DEF Types
    <3> QED BY <3>1 DEF GoneAt
  <2>2. CASE pod[t] # p
    BY <1>1, <1>4, <2>2, CrashEffect DEF Types
  <2> QED BY <2>1, <2>2
<1> QED BY <1>2, <1>3, <1>4, StepCases, OwnGone

LEMMA InitMatched ==
    ASSUME Init
    PROVE  Matched
<1>1. \A t \in Trans : pc[t] \in {"idle", "ended", "release"}
  BY DEF Init
<1> QED BY <1>1, EndMatched DEF Matched

\* A worker whose reservation is gone finishes at most the tier it is in: the
\* check before the next tier (CheckDeputyKeys) fails its task, unless HSM did
\* not answer some call.
THEOREM AtMostOneTierLate == Spec => []OneTierLate
<1> DEFINE Inv == Types /\ Matched /\ Gone
<1>1. Init => Inv
  <2>1. Init => Matched
    BY InitMatched
  <2>2. Init => Gone
    BY DEF Init, Gone, GoneAt
  <2> QED BY <2>1, <2>2, InitTypes
<1>2. Inv /\ [Next]_vars => Inv'
  BY NextTypes, NextMatched, NextGone
<1>3. Inv => OneTierLate
  BY DEF Gone, GoneAt, OneTierLate, Acting
<1> HIDE DEF Inv
<1> QED BY <1>1, <1>2, <1>3, PTL DEF Spec

-----------------------------------------------------------------------------
(* A transition's own reservations after a restart *)

LEMMA NextAsked ==
    ASSUME Types, Matched, Guarded, Asked, [Next]_vars
    PROVE  Asked'
<1>0. SUFFICES ASSUME ~lost', NEW t \in Trans, NEW c \in Comp
               PROVE  AskedAt(data'[t][c], pc'[t], hsm'[c])
  BY DEF Asked
<1>1. /\ AskedAt(data[t][c], pc[t], hsm[c]) /\ HeldAt(data[t][c], hsm[c], map[pod[t]][c].key)
      /\ OwnedAt(data[t][c], task[t][c], pc[t]) /\ data[t][c] \in Datum
  BY <1>0, LostStays DEF Asked, Guarded, Held, Types, Owned, TypeOK
<1>2. ASSUME pc'[t] = pc[t], data'[t] = data[t]
      PROVE  AskedAt(data'[t][c], pc'[t], hsm'[c])
  BY <1>1, <1>2, NeverBack DEF AskedAt
<1>3. ASSUME pc'[t] \notin Reserving \ {"reacquire"}
      PROVE  AskedAt(data'[t][c], pc'[t], hsm'[c])
  BY <1>3 DEF AskedAt
<1>4. ASSUME NEW p \in Home[t], Start(t, p)
      PROVE  AskedAt(data'[t][c], pc'[t], hsm'[c])
  <2>1. CASE Again(data'[t]) # {}
    BY <1>3, <1>4, <2>1, StartEffect DEF Types, Reserving
  <2>2. CASE Again(data'[t]) = {}
    BY <2>2 DEF AskedAt, Again, Need
  <2> QED BY <2>1, <2>2
<1>5. ASSUME Reacquire(t), ~ReserveError(t)
      PROVE  AskedAt(data'[t][c], pc'[t], hsm'[c])
  <2>1. /\ hsm' = hsm
        /\ \/ data'[t][c] = [data[t][c] EXCEPT !.state = "renewed"]
           \/ /\ data'[t][c] = data[t][c]
              /\ ~(data[t][c].state = "need" /\ data[t][c].own /\ hsm[c] = data[t][c].key)
    BY <1>5, ReacquireEffect DEF Types
  <2> QED BY <1>1, <2>1 DEF AskedAt, Datum
<1>6. ASSUME FlexCheck(t)
      PROVE  AskedAt(data'[t][c], pc'[t], hsm'[c])
  <2>1. /\ hsm' = hsm /\ pc[t] = "flexcheck"
        /\ \/ data'[t][c] = data[t][c]
           \/ data'[t][c] = [state |-> "owner", key |-> map[pod[t]][c].key, own |-> TRUE]
           \/ data[t][c].state = "renewed" /\ map[pod[t]][c].key = None
    BY <1>6, FlexCheckEffect DEF Types
  <2>2. ~(data[t][c].state = "renewed" /\ map[pod[t]][c].key = None)
    BY <1>1, ReservationAssumption DEF HeldAt, OwnedAt
  <2> QED BY <1>1, <2>1, <2>2 DEF AskedAt, Reserving
<1>7. ASSUME ValidateDeputyKeys(t), ~ReserveError(t)
      PROVE  AskedAt(data'[t][c], pc'[t], hsm'[c])
  <2>1. /\ hsm' = hsm /\ pc[t] = "validate"
        /\ data'[t][c] = data[t][c] \/ data'[t][c] = [data[t][c] EXCEPT !.state = "deputy"]
    BY <1>7, ValidateEffect DEF Types
  <2> QED BY <1>1, <2>1 DEF AskedAt, Reserving, Datum
<1>8. ASSUME FlexAquire(t), ~ReserveError(t)
      PROVE  AskedAt(data'[t][c], pc'[t], hsm'[c])
  <2>1. /\ pc[t] = "acquire"
        /\ \/ data'[t][c] = data[t][c] /\ hsm'[c] = hsm[c]
           \/ data'[t][c] = [state |-> "owner", key |-> hsm'[c], own |-> TRUE]
    BY <1>8, AcquireEffect DEF Types
  <2> QED BY <1>1, <2>1 DEF AskedAt, Reserving
<1>9. ASSUME StoreKeys(t)
      PROVE  AskedAt(data'[t][c], pc'[t], hsm'[c])
  BY <1>2, <1>3, <1>9, StoreKeysEffect DEF Types, Reserving
<1>10. ASSUME \/ ReserveError(t) \/ CheckDeputyKeys(t) \/ AbortSeen(t) \/ Tier(t)
              \/ ReleaseComponents(t)
       PROVE  AskedAt(data'[t][c], pc'[t], hsm'[c])
  BY <1>3, <1>10, ErrorEffect, CheckEffect, AbortEffect, TierEffect, ReleaseEffect
     DEF Types, Reserving
<1>11. ASSUME NEW p \in Pod, Crash(p)
       PROVE  AskedAt(data'[t][c], pc'[t], hsm'[c])
  BY <1>2, <1>3, <1>11, CrashEffect DEF Types, Reserving
<1>12. CASE \/ \E p \in Pod : UpdateAsk(p) \/ Sweep(p)
            \/ \E d \in Comp : Lapse(d) \/ ExtReleases(d)
            \/ UNCHANGED vars
  BY <1>2, <1>12, UpdateAskEffect, SweepEffect, LapseEffect DEF Types, vars
<1>13. ASSUME NEW u \in Trans, u # t,
              \/ \E p \in Home[u] : Start(u, p)
              \/ ReserveError(u)
              \/ /\ ~ReserveError(u)
                 /\ Reacquire(u) \/ FlexCheck(u) \/ ValidateDeputyKeys(u) \/ FlexAquire(u)
              \/ StoreKeys(u) \/ CheckDeputyKeys(u) \/ AbortSeen(u) \/ Tier(u)
              \/ ReleaseComponents(u)
       PROVE  AskedAt(data'[t][c], pc'[t], hsm'[c])
  BY <1>2, <1>13, OthersSame
<1> QED BY <1>4, <1>5, <1>6, <1>7, <1>8, <1>9, <1>10, <1>11, <1>12, <1>13, StepCases

\* A transition that is taken up again after a crash is never refused a
\* component by the reservation it made itself and stored with its task: it
\* reacquires what HSM still has (Reacquire) and finds it in the map
\* (FlexCheck), as long as nothing goes unrenewed.
THEOREM OwnIsKept == Spec => []KeepsOwn
<1> DEFINE Inv == Types /\ Matched /\ Guarded /\ Asked
<1>1. Init => Inv
  <2>1. Init => Matched
    BY InitMatched
  <2>2. Init => Asked
    BY DEF Init, Asked, AskedAt, Reserving
  <2> QED BY <2>1, <2>2, InitTypes, InitGuarded
<1>2. Inv /\ [Next]_vars => Inv'
  BY NextTypes, NextMatched, NextGuarded, NextAsked
<1>3. Inv => KeepsOwn
  <2> SUFFICES ASSUME Inv, ~lost, NEW t \in Trans, NEW c \in Comp, pc[t] = "record",
                      data[t][c].state = "need", task[t][c].own
               PROVE  hsm[c] # task[t][c].key
    BY DEF KeepsOwn
  <2>1. /\ MatchedAt(data[t][c], task[t][c], pc[t], c \in On[t])
        /\ AskedAt(data[t][c], pc[t], hsm[c])
    BY DEF Matched, Asked
  <2>2. task[t][c].key = data[t][c].key /\ data[t][c].own
    BY <2>1 DEF MatchedAt, Reserving
  <2> QED BY <2>1, <2>2 DEF AskedAt, Reserving
<1> HIDE DEF Inv
<1> QED BY <1>1, <1>2, <1>3, PTL DEF Spec
=============================================================================
