--------------------------- MODULE TransitionStore ---------------------------
(***************************************************************************)
(* How the record of ONE transition is kept in etcd: a record that is too  *)
(* large for one entry is spread over /transition/<id> (its first page)    *)
(* and /transitionpage/<id>/<n>, one etcd operation each:                  *)
(* internal/storage/storage_etcd_impl.go.  TransitionLifecycle takes       *)
(* stores, test-and-sets and deletes to be atomic; here they are not.      *)
(*                                                                         *)
(*   worker   TriggerTransition and doTransition: the request, then the    *)
(*            IDs of the tasks, then the results                           *)
(*   keeper   transitionKeepAlive: the record as it is, over and over      *)
(*   reaper   deleteTransition; a worker that died is replaced             *)
(***************************************************************************)
EXTENDS Integers, Sequences, FiniteSetsExt

CONSTANTS
    PageSize, MaxEtcdObjectSize, MaxMessageLen, \* settings
    Requests,   \* the transitions to consider
    Worker, Keeper, Reaper,
    None,       \* no entry, no client
    MaxTries,   \* bound: refused refreshes of the keeper (the code has none)
    MaxCrash    \* bound: pod crashes

Client == {Worker, Keeper, Reaper}

\* A transition, and a page of it.  The items of an array are numbers; all
\* tasks have messages of the same length.
Record == [done : BOOLEAN, loc : Nat, msg : Nat,
           locs : Seq(Nat), ids : Seq(Nat), tasks : Seq(Nat)]
Page   == [locs : Seq(Nat), ids : Seq(Nat), tasks : Seq(Nat)]

ASSUME StoreAssumption ==
    /\ {PageSize, MaxEtcdObjectSize, MaxMessageLen} \subseteq Nat \ {0}
    /\ {MaxTries, MaxCrash} \subseteq Nat
    \* numbers of locations and tasks, sizes of a location and of a message
    /\ Requests \subseteq [locs : Nat, tasks : Nat, loc : Nat, msg : Nat]
    /\ Worker # Keeper /\ Keeper # Reaper /\ Reaper # Worker
    /\ None \notin Client \cup Record

-----------------------------------------------------------------------------
(* Records *)

Numbers(n) == [i \in 1..n |-> i]

\* setupTransitionTasks, after the first n tasks: it adds the IDs that the
\* record does not have yet, all of them or what a torn write has lost.
TaskIDs(v) == LET added[n \in Nat] ==
                      IF n = 0 THEN v.ids
                      ELSE IF n \in Range(v.ids) THEN added[n - 1]
                                                 ELSE Append(added[n - 1], n)
              IN  added

\* The record at its three stages.
Triggered(r) == [done |-> FALSE, loc |-> r.loc, msg |-> r.msg,
                 locs |-> Numbers(r.locs), ids |-> <<>>, tasks |-> <<>>]
WithIDs(v, r)     == [v EXCEPT !.ids = TaskIDs(v)[r.tasks]]
WithResults(v, r) == [v EXCEPT !.done = TRUE, !.tasks = Numbers(r.tasks)]

\* getObjectSize
ObjectSize(v) == v.loc * Len(v.locs) + Len(v.ids) + (1 + v.msg) * Len(v.tasks)

\* truncateTaskMessagesIfNeeded: not at exactly the maximal size.
Truncated(v) == IF ObjectSize(v) > MaxEtcdObjectSize /\ v.msg > MaxMessageLen
                THEN [v EXCEPT !.msg = MaxMessageLen] ELSE v

\* An array cut into pages of n items, one every step items.
Cut(s, step, n) ==
    IF Len(s) <= n THEN <<s>>
    ELSE [i \in 1..((Len(s) + step - 1) \div step) |->
             LET from == (i - 1) * step
             IN  SubSeq(s, from + 1, IF from + n > Len(s) THEN Len(s) ELSE from + n)]

\* Records with few items but large ones get smaller pages.
ItemsPerPage(v) == IF Len(v.tasks) < PageSize /\ Len(v.locs) < PageSize
                   THEN PageSize \div 2 + 1 ELSE PageSize

\* Mutant: the pages of locations are cut like those of the tasks.
PageLocations_AsTasks(v) == Cut(v.locs, PageSize, ItemsPerPage(v))

\* pageTasks steps by the configured size, the other two by the one in use.
PageTasks(v)     == Cut(v.tasks, PageSize, ItemsPerPage(v))
PageLocations(v) == Cut(v.locs, ItemsPerPage(v), ItemsPerPage(v))
PageTaskIDs(v)   == Cut(v.ids, ItemsPerPage(v), ItemsPerPage(v))

Chunk(pp, i) == IF i <= Len(pp) THEN pp[i] ELSE <<>>

\* breakIntoPagesIfNeeded: all pages, the first one included.
Pages(v) ==
    LET l == PageLocations(v)  d == PageTaskIDs(v)  t == PageTasks(v)
        n == CHOOSE k \in {Len(l), Len(d), Len(t)} :
                \A m \in {Len(l), Len(d), Len(t)} : m <= k
    IN  [i \in 1..n |-> [locs |-> Chunk(l, i), ids |-> Chunk(d, i), tasks |-> Chunk(t, i)]]

\* truncateAndPageTransitionIfNeeded: the first entry, and the pages after it.
Fits(v)     == ObjectSize(v) < MaxEtcdObjectSize \/ ObjectSize(Truncated(v)) < MaxEtcdObjectSize
FirstOf(v)  == LET w == Truncated(v)
               IN  IF Fits(v) THEN w
                   ELSE [w EXCEPT !.locs = Pages(w)[1].locs, !.ids = Pages(w)[1].ids,
                                  !.tasks = Pages(w)[1].tasks]
RestOf(v)   == IF Fits(v) THEN <<>> ELSE Tail(Pages(Truncated(v)))

\* GetTransition: what the first entry and the pages make together, in the
\* order of the pages' numbers (sortTransitionPages).
Extended(v, p) == [v EXCEPT !.locs = @ \o p.locs, !.ids = @ \o p.ids, !.tasks = @ \o p.tasks]

WithPages(f, pp) == LET upto[n \in Nat] ==
                            IF n = 0 THEN f
                            ELSE IF n - 1 \in DOMAIN pp THEN Extended(upto[n - 1], pp[n - 1])
                                                        ELSE upto[n - 1]
                    IN  upto

Joined(f, pp) == IF DOMAIN pp = {} THEN f ELSE WithPages(f, pp)[Max(DOMAIN pp) + 1]

-----------------------------------------------------------------------------
(* State *)

VARIABLES
    req,     \* the request
    first,   \* entry /transition/<id>
    page,    \* entries /transitionpage/<id>/<n>: a function on the n's stored
    op,      \* where each client is
    stage,   \* worker: what it stores next
    tr,      \* the record each client holds, if any
    exact,   \* the value a client has read is byte for byte what was stored
    known,   \* clients that have read the first entry since it was last written
    ok,      \* the last test-and-set of a client succeeded
    nxt,     \* the page a client writes next
    erase,   \* the pages the reaper has still to delete
    tries,   \* refused attempts of a client in a row
    \* history: who wrote the first entry, why the pages may not belong to it,
    \* clients that hold a record as it was stored, and whether a test-and-set
    \* was refused though nothing had changed
    owner, dirty, sound, refused,
    crashes

local == <<op, stage, tr, exact, ok, nxt, erase, tries>>
vars  == <<req, first, page, known, local, owner, dirty, sound, refused, crashes>>

Goto(c, l) == op' = [op EXCEPT ![c] = l]

AllWritten(c) == op[c] = "pages" /\ nxt[c] >= Len(RestOf(tr[c]))

\* No write is under way and none was cut short, by a pod that died, spoilt
\* by one that was refused, or by pages the record no longer has.
Clean == dirty = {} /\ \A c \in {Worker, Keeper} : op[c] = "pages" => ~ok[c] \/ AllWritten(c)

-----------------------------------------------------------------------------
(* Operations of the storage, as the clients call them *)

\* The first entry is written by c.  Pages beyond the new ones are not removed.
SetFirst(c) ==
    /\ first' = FirstOf(tr[c]) /\ owner' = c /\ known' = {}
    /\ dirty' = (IF c \in sound THEN {} ELSE {"torn"})
                  \cup (IF DOMAIN page \subseteq 0..(Len(RestOf(tr[c])) - 1) THEN {} ELSE {"leftover"})

StartPages(c) == Goto(c, "pages") /\ nxt' = [nxt EXCEPT ![c] = 0]

\* StoreTransition: blindly.
StoreFirst(c) ==
    /\ op[c] = "store"
    /\ SetFirst(c) /\ StartPages(c)
    /\ ok' = [ok EXCEPT ![c] = TRUE]
    /\ UNCHANGED <<req, page, stage, tr, exact, erase, tries, sound, refused, crashes>>

\* GetTransition, first half: the first entry.
GetFirst(c) ==
    /\ op[c] = "get" /\ first # None
    /\ known' = known \cup {c}
    /\ tr' = [tr EXCEPT ![c] = IF c = Worker /\ stage # "resume" THEN @ ELSE first]
    /\ Goto(c, IF c = Keeper /\ first.done THEN "end" ELSE "join")
    /\ UNCHANGED <<req, first, page, stage, exact, ok, nxt, erase, tries, owner, dirty, sound, refused, crashes>>

\* It does not exist: keep-alive ends; storeTransition stores blindly.
GetNothing(c) ==
    /\ op[c] = "get" /\ first = None
    /\ Goto(c, IF c = Keeper \/ stage = "resume" THEN "end" ELSE "store")
    /\ UNCHANGED <<req, first, page, known, stage, tr, exact, ok, nxt, erase, tries, owner,
                   dirty, sound, refused, crashes>>

\* Mutant: the copy is tested for when there are no pages, too.
Copies_Always(f, pp) == f.locs = <<>> /\ f.ids = <<>> /\ f.tasks = <<>>

\* CopyTransition empties the arrays of the value to test for when there are
\* pages: it equals the stored one only if they were empty.
Copies(f, pp) == DOMAIN pp = {} \/ (f.locs = <<>> /\ f.ids = <<>> /\ f.tasks = <<>>)

\* GetTransition, second half: all pages in one range.
GetPages(c) ==
    /\ op[c] = "join"
    /\ tr' = [tr EXCEPT ![c] = IF c = Worker /\ stage # "resume" THEN @ ELSE Joined(@, page)]
    /\ sound' = IF c = Worker /\ stage # "resume" THEN sound
                ELSE IF c \in known /\ Clean THEN sound \cup {c} ELSE sound \ {c}
    /\ exact' = [exact EXCEPT ![c] = c \in known => Copies(first, page)]
    /\ Goto(c, IF stage = "resume" /\ c = Worker THEN "plan" ELSE "tas")
    /\ UNCHANGED <<req, first, page, known, stage, ok, nxt, erase, tries, owner, dirty, refused, crashes>>

\* TASTransition.  The pages are written whether or not the test succeeded.
TASTransition(c) ==
    /\ op[c] = "tas"
    /\ LET success == c \in known /\ exact[c]
       IN  /\ ok' = [ok EXCEPT ![c] = success]
           /\ IF success THEN SetFirst(c) ELSE UNCHANGED <<first, owner, known, dirty>>
           /\ refused' = (refused \/ (~success /\ c \in known))
    /\ StartPages(c)
    /\ UNCHANGED <<req, page, stage, tr, exact, erase, tries, sound, crashes>>

\* One page.  It belongs to the first entry if c wrote that one last.
WritePage(c) ==
    /\ op[c] = "pages" /\ nxt[c] < Len(RestOf(tr[c]))
    /\ LET p == RestOf(tr[c])[nxt[c] + 1]
       IN  /\ page' = [i \in DOMAIN page \cup {nxt[c]} |-> IF i = nxt[c] THEN p ELSE page[i]]
           /\ dirty' = IF (owner = c /\ ok[c]) \/ (nxt[c] \in DOMAIN page /\ page[nxt[c]] = p)
                       THEN dirty ELSE dirty \cup {"foreign"}
    /\ nxt' = [nxt EXCEPT ![c] = @ + 1]
    /\ UNCHANGED <<req, first, known, op, stage, tr, exact, ok, erase, tries, owner, sound, refused, crashes>>

-----------------------------------------------------------------------------
(* The clients *)

\* Mutant: three retries.
MayRetry_Thrice == tries[Worker] < 3

\* storeTransition: three attempts in all.
MayRetry == tries[Worker] < 2

\* Worker: on to the next stage, after a storeTransition that was refused
\* three times as well.
WorkerPlans ==
    /\ \/ AllWritten(Worker)
       \/ op[Worker] = "plan"
    /\ IF op[Worker] = "pages" /\ ~ok[Worker] /\ MayRetry
       THEN /\ tries' = [tries EXCEPT ![Worker] = @ + 1]
            /\ op' = [op EXCEPT ![Worker] = "get"]
            /\ UNCHANGED <<stage, tr>>
       ELSE /\ tries' = [tries EXCEPT ![Worker] = 0]
            /\ CASE stage \in {"trigger", "resume"} ->
                      /\ stage' = "run" /\ tr' = [tr EXCEPT ![Worker] = WithIDs(@, req)]
                      /\ op' = [op EXCEPT ![Worker] = "get",
                                          ![Keeper] = IF @ = "end" THEN "get" ELSE @]
                 [] stage = "run" ->
                      /\ stage' = "finish" /\ tr' = [tr EXCEPT ![Worker] = WithResults(@, req)]
                      /\ op' = [op EXCEPT ![Worker] = "store"]
                 [] stage = "finish" -> UNCHANGED <<stage, tr>> /\ op' = [op EXCEPT ![Worker] = "end"]
    /\ UNCHANGED <<req, first, page, known, exact, ok, nxt, erase, owner, dirty, sound, refused, crashes>>

\* Clients that no longer hold a record.
Forget(C) == /\ tr'    = [c \in Client |-> IF c \in C THEN None ELSE tr[c]]
             /\ exact' = [c \in Client |-> c \notin C /\ exact[c]]
             /\ ok'    = [c \in Client |-> c \notin C /\ ok[c]]
             /\ nxt'   = [c \in Client |-> IF c \in C THEN 0 ELSE nxt[c]]

\* Keep-alive: the next tick, or at once again after a refusal.
KeeperLoops ==
    /\ AllWritten(Keeper)
    /\ ok[Keeper] \/ tries[Keeper] < MaxTries
    /\ tries' = [tries EXCEPT ![Keeper] = IF ok[Keeper] THEN @ ELSE @ + 1]
    /\ Goto(Keeper, "get") /\ Forget({Keeper})
    /\ UNCHANGED <<req, first, page, known, stage, erase, owner, dirty, sound, refused, crashes>>

\* Mutant: the pages are left behind.
DeletePages_None == {}

\* DeleteTransition: the pages found after the first entry is gone.
DeletePages == DOMAIN page

DeleteFirst ==
    /\ op[Reaper] = "end" /\ first # None /\ first.done
    /\ first' = None /\ owner' = None /\ known' = {} /\ dirty' = {}
    /\ Goto(Reaper, "list")
    /\ UNCHANGED <<req, page, stage, tr, exact, ok, nxt, erase, tries, sound, refused, crashes>>

ListPages ==
    /\ op[Reaper] = "list"
    /\ erase' = DeletePages
    /\ Goto(Reaper, "erase")
    /\ UNCHANGED <<req, first, page, known, stage, tr, exact, ok, nxt, tries, owner, dirty, sound, refused, crashes>>

DeletePage ==
    /\ op[Reaper] = "erase"
    /\ IF erase = {} THEN Goto(Reaper, "end") /\ UNCHANGED <<page, erase>>
       ELSE \E i \in erase : /\ page' = [j \in DOMAIN page \ {i} |-> page[j]]
                             /\ erase' = erase \ {i} /\ UNCHANGED op
    /\ UNCHANGED <<req, first, known, stage, tr, exact, ok, nxt, tries, owner, dirty, sound, refused, crashes>>

\* The pod of the worker and its keep-alive goroutine dies, or the reaper's.
\* A write that was cut short leaves the pages torn.
Crash(C) ==
    /\ crashes < MaxCrash /\ crashes' = crashes + 1
    /\ \E c \in C : op[c] # "end"
    /\ dirty' = IF \E c \in C : \/ op[c] = "pages" /\ nxt[c] < Len(RestOf(tr[c])) /\ ok[c]
                                \/ op[c] = "list" /\ DOMAIN page # {}
                                \/ op[c] = "erase" /\ erase # {}
                THEN dirty \cup {"torn"} ELSE dirty
    /\ op' = [c \in Client |-> IF c \in C THEN "end" ELSE op[c]]
    /\ Forget(C)
    /\ tries' = [c \in Client |-> IF c \in C THEN 0 ELSE tries[c]]
    /\ erase' = IF Reaper \in C THEN {} ELSE erase
    /\ UNCHANGED <<req, first, page, known, stage, owner, sound, refused>>

\* A reaper takes the abandoned transition over.  It tests for the first entry
\* as GetAllTransitions returned it, so that this succeeds on paged records
\* too, and stores it with a new time.
TakeOver ==
    /\ op[Worker] = "end" /\ op[Keeper] = "end"
    /\ first # None /\ ~first.done
    /\ known' = {} /\ stage' = "resume" /\ Goto(Worker, "get")
    /\ UNCHANGED <<req, first, page, tr, exact, ok, nxt, erase, tries, owner, dirty, sound, refused, crashes>>

-----------------------------------------------------------------------------
(* The specification *)

Init ==
    /\ req \in Requests
    /\ first = None /\ page = <<>>
    /\ op = [c \in Client |-> IF c = Worker THEN "store" ELSE "end"]
    /\ stage = "trigger"
    /\ tr = [c \in Client |-> IF c = Worker THEN Triggered(req) ELSE None]
    /\ exact = [c \in Client |-> FALSE] /\ ok = [c \in Client |-> FALSE]
    /\ nxt = [c \in Client |-> 0] /\ erase = {}
    /\ tries = [c \in Client |-> 0]
    /\ known = {} /\ owner = None /\ dirty = {} /\ sound = Client /\ refused = FALSE /\ crashes = 0

Next ==
    \/ \E c \in {Worker, Keeper} : \/ StoreFirst(c) \/ GetFirst(c) \/ GetNothing(c) \/ GetPages(c)
                                   \/ TASTransition(c) \/ WritePage(c)
    \/ WorkerPlans \/ KeeperLoops
    \/ DeleteFirst \/ ListPages \/ DeletePage
    \/ Crash({Worker, Keeper}) \/ Crash({Reaper})
    \/ TakeOver

Spec == Init /\ [][Next]_vars
-----------------------------------------------------------------------------
(* Properties *)

\* Every client is where the code can be, and only for as long as it may: a
\* refused storeTransition is retried at most twice, pages are written in order.
TypeOK ==
    /\ req \in Requests /\ crashes \in 0..MaxCrash
    /\ first \in Record \cup {None} /\ (first = None <=> owner = None)
    /\ tr \in [Client -> Record \cup {None}]
    /\ known \subseteq {Worker, Keeper} /\ refused \in BOOLEAN
    /\ sound \subseteq Client /\ dirty \subseteq {"torn", "foreign", "leftover"}
    /\ op \in [Client -> {"store", "pages", "get", "join", "plan", "tas", "list", "erase", "end"}]
    /\ stage \in {"trigger", "run", "finish", "resume"}
    /\ exact \in [Client -> BOOLEAN] /\ ok \in [Client -> BOOLEAN]
    /\ tries[Worker] \in 0..2 /\ tries[Keeper] \in 0..MaxTries
    /\ page \in [DOMAIN page -> Page] /\ DOMAIN page \cup erase \subseteq Nat
    /\ nxt \in [Client -> Nat]
    /\ \A c \in Client : op[c] = "pages" => nxt[c] <= Len(RestOf(tr[c]))

\* Results that are cut off: there are fewer of them than a page has, but more
\* than a page of the smaller size has.
Halved(v) == /\ ~Fits(v) /\ Len(v.tasks) < PageSize /\ Len(v.locs) < PageSize
             /\ Len(v.tasks) > PageSize \div 2 + 1

\* What GET reads is what the worker stored, complete and in order, however
\* many pages it was spread over and whoever has rewritten it since: the
\* components of the request always, the results once it is finished (messages
\* may be truncated).  Results that fall between two page sizes are lost.
ReadBack ==
    first # None /\ Clean =>
        LET v == Joined(first, page)
            w == WithResults(WithIDs(Triggered(req), req), req)
        IN  /\ v.locs = Numbers(req.locs)
            /\ v.ids \in {<<>>, Numbers(req.tasks)}
            /\ first.done => v.ids = Numbers(req.tasks)
                               /\ (v.tasks = Numbers(req.tasks) \/ Halved(Truncated(w)))

\* A record that fits into one entry at every stage never has pages, and no
\* test-and-set on it is refused unless somebody else has stored it meanwhile.
SmallIsWhole ==
    (\A v \in {Triggered(req), WithIDs(Triggered(req), req),
               WithResults(WithIDs(Triggered(req), req), req)} : Fits(v))
        => DOMAIN page = {} /\ ~refused /\ dirty = {}

\* A deleted transition leaves no pages behind, unless the reaper died on the
\* way or another client's refused test-and-set wrote them again.
NoOrphanPages ==
    first = None /\ op[Reaper] = "end" /\ dirty = {} => DOMAIN page = {}

\* A test-and-set is refused only if the record has been stored by somebody
\* else since it was read.
RefusedOnlyWhenChanged == ~refused
=============================================================================
