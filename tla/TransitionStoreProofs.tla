------------------------ MODULE TransitionStoreProofs ------------------------
(***************************************************************************)
(* Proofs about TransitionStore: cutting a record into pages and joining   *)
(* them are inverse; what is read back is what was stored; records that    *)
(* fit are whole; a deletion leaves no pages.  The first part is about     *)
(* induction and recursion over the naturals, which all of it rests on.    *)
(***************************************************************************)
EXTENDS TransitionStore, SequenceTheorems, WellFoundedInduction, TLAPS

-----------------------------------------------------------------------------
(* Induction and recursion over the naturals *)

\* A set of naturals has a least element.
LEMMA NatMin ==
    ASSUME NEW T, T \subseteq Nat, T # {}
    PROVE  \E x \in T : \A y \in T : x <= y
<1>1. PICK R : IsWellFoundedOn(R, Nat) /\ \A x, y \in Nat : <<y, x>> \in R <=> y < x
  <2>1. IsWellFoundedOn(OpToRel(<, Nat), Nat)
        BY NatLessThanWellFounded
  <2>2. \A x, y \in Nat : <<y, x>> \in OpToRel(<, Nat) <=> y < x
        BY DEF OpToRel
  <2> QED BY <2>1, <2>2, Zenon
<1>2. \E x \in T : \A y \in T : ~ (<<y, x>> \in R)
      BY <1>1, WFMin
<1>3. PICK x \in T : \A y \in T : ~ (<<y, x>> \in R)
      BY <1>2
<1>4. \A y \in T : ~ (y < x)
      BY <1>1, <1>3
<1> QED BY <1>4

\* Induction: a set that has 0 and the successor of each of its elements has
\* all the naturals.
LEMMA Induction ==
    ASSUME NEW S, 0 \in S, \A n \in Nat : n \in S => n + 1 \in S
    PROVE  \A n \in Nat : n \in S
<1> SUFFICES ASSUME Nat \ S # {} PROVE FALSE
    OBVIOUS
<1>1. PICK x \in Nat \ S : \A y \in Nat \ S : x <= y
      BY NatMin
<1>2. x # 0 /\ x - 1 \in Nat /\ x - 1 \in S
      BY <1>1
<1>3. (x - 1) + 1 \in S
      BY <1>2
<1> QED BY <1>1, <1>2, <1>3

\* A set of naturals with a bound has a greatest element.
LEMMA NatMax ==
    ASSUME NEW T, T \subseteq Nat, T # {}, NEW k \in Nat, \A y \in T : y <= k
    PROVE  Max(T) \in T /\ \A y \in T : y <= Max(T)
<1> DEFINE B == {b \in Nat : \A y \in T : y <= b}
<1>1. PICK b \in B : \A y \in B : b <= y
      BY NatMin
<1>2. b \in T
  <2> SUFFICES ASSUME b \notin T PROVE FALSE
      OBVIOUS
  <2>1. b # 0
    <3>1. PICK y : y \in T
          OBVIOUS
    <3>2. y \in Nat /\ y <= b /\ y # b
          BY <1>1, <3>1
    <3> QED BY <3>2
  <2>2. b - 1 \in B
        BY <1>1, <2>1
  <2> QED BY <1>1, <2>2
<1>3. \E x \in T : \A y \in T : x >= y
      BY <1>1, <1>2
<1> QED BY <1>3 DEF Max

\* What a step makes of a value, time after time.
Iterates(g, V, a, step) == /\ g \in [Nat -> V] /\ g[0] = a
                           /\ \A n \in Nat : g[n + 1] = step[<<n, g[n]>>]

\* Recursion: every step can be taken time after time.
LEMMA Recursion ==
    ASSUME NEW V, NEW a \in V, NEW step \in [Nat \X V -> V]
    PROVE  \E g : Iterates(g, V, a, step)
<1> DEFINE IsUpto(g, n) == /\ g \in [0..n -> V] /\ g[0] = a
                           /\ \A i \in 0..n : i < n => g[i + 1] = step[<<i, g[i]>>]
<1>1. \A n \in Nat : \E g : IsUpto(g, n)
  <2> DEFINE S == {n \in Nat : \E g : IsUpto(g, n)}
  <2>1. 0 \in S
    <3>1. IsUpto([i \in 0..0 |-> a], 0)
          OBVIOUS
    <3> QED BY <3>1
  <2>2. ASSUME NEW n \in Nat, n \in S PROVE n + 1 \in S
    <3>1. PICK g : IsUpto(g, n)
          BY <2>2
    <3> DEFINE h == [i \in 0..n + 1 |-> IF i = n + 1 THEN step[<<n, g[n]>>] ELSE g[i]]
    <3>2. \A i \in 0..n : g[i] \in V /\ h[i] = g[i]
          BY <3>1
    <3>3. h[n + 1] = step[<<n, g[n]>>] /\ h[n + 1] \in V
          BY <3>1, <3>2
    <3>4. h \in [0..n + 1 -> V] /\ h[0] = a
          BY <3>1, <3>2, <3>3
    <3>5. ASSUME NEW i \in 0..n + 1, i < n + 1 PROVE h[i + 1] = step[<<i, h[i]>>]
      <4>1. CASE i = n
            BY <4>1, <3>2, <3>3
      <4>2. CASE i < n
            BY <4>2, <3>1, <3>2
      <4> QED BY <3>5, <4>1, <4>2
    <3> HIDE DEF h
    <3> QED BY <3>4, <3>5
  <2> HIDE DEF S
  <2>3. \A n \in Nat : n \in S
        BY <2>1, <2>2, Induction
  <2> QED BY <2>3 DEF S
<1>2. ASSUME NEW n \in Nat, NEW m \in Nat, NEW g, NEW h, n <= m, IsUpto(g, n), IsUpto(h, m)
      PROVE  \A i \in 0..n : g[i] = h[i]
  <2> DEFINE S == {i \in Nat : i <= n => g[i] = h[i]}
  <2>1. 0 \in S
        BY <1>2
  <2>2. ASSUME NEW i \in Nat, i \in S PROVE i + 1 \in S
    <3>1. CASE i < n
      <4>1. g[i] = h[i] /\ i \in 0..n /\ i \in 0..m /\ i < m
            BY <1>2, <2>2, <3>1
      <4>2. g[i + 1] = step[<<i, g[i]>>] /\ h[i + 1] = step[<<i, h[i]>>]
            BY <1>2, <3>1, <4>1
      <4> QED BY <4>1, <4>2
    <3>2. CASE ~ (i < n)
          BY <1>2, <3>2
    <3> QED BY <3>1, <3>2
  <2> HIDE DEF S
  <2>3. \A i \in Nat : i \in S
        BY <2>1, <2>2, Induction
  <2> QED BY <2>3 DEF S
<1> DEFINE G(n) == CHOOSE g : IsUpto(g, n)
           r    == [n \in Nat |-> G(n)[n]]
<1>3. \A n \in Nat : IsUpto(G(n), n)
      BY <1>1
<1> HIDE DEF G
<1>4. r \in [Nat -> V] /\ r[0] = a
      BY <1>3
<1>5. ASSUME NEW n \in Nat PROVE r[n + 1] = step[<<n, r[n]>>]
  <2>1. IsUpto(G(n), n) /\ IsUpto(G(n + 1), n + 1) /\ n <= n + 1 /\ n + 1 \in Nat
        BY <1>3
  <2>2. G(n)[n] = G(n + 1)[n]
        BY <2>1, <1>2
  <2>3. G(n + 1)[n + 1] = step[<<n, G(n + 1)[n]>>]
        BY <2>1
  <2> QED BY <2>2, <2>3
<1> HIDE DEF r
<1>6. Iterates(r, V, a, step)
      BY <1>4, <1>5 DEF Iterates
<1> QED BY <1>6

-----------------------------------------------------------------------------
(* What the recursive definitions compute *)

\* The IDs of the tasks: setupTransitionTasks adds them one by one.
LEMMA TaskIDsSteps ==
    ASSUME NEW v \in Record
    PROVE  /\ TaskIDs(v) \in [Nat -> Seq(Nat)]
           /\ TaskIDs(v)[0] = v.ids
           /\ \A n \in Nat : TaskIDs(v)[n + 1] = IF n + 1 \in Range(v.ids) THEN TaskIDs(v)[n]
                                                 ELSE Append(TaskIDs(v)[n], n + 1)
<1> DEFINE V == Seq(Nat)
           Does(h) == h = [n \in Nat |-> IF n = 0 THEN v.ids
                                         ELSE IF n \in Range(v.ids) THEN h[n - 1]
                                         ELSE Append(h[n - 1], n)]
           step == [x \in Nat \X V |-> IF x[1] + 1 \in Range(v.ids) THEN x[2]
                                       ELSE Append(x[2], x[1] + 1)]
<1>0. v.ids \in V
      BY DEF Record
<1>1. step \in [Nat \X V -> V]
      BY AppendProperties
<1> HIDE DEF step, V
<1>2. PICK g \in [Nat -> V] : g[0] = v.ids /\ \A n \in Nat : g[n + 1] = step[<<n, g[n]>>]
  <2>1. PICK g : Iterates(g, V, v.ids, step)
        BY <1>0, <1>1, Recursion
  <2> QED BY <2>1 DEF Iterates
<1>3. \A n \in Nat : step[<<n, g[n]>>] = IF n + 1 \in Range(v.ids) THEN g[n] ELSE Append(g[n], n + 1)
      BY <1>2 DEF step
<1>4. Does(g)
  <2>1. ASSUME NEW n \in Nat, n # 0
        PROVE  g[n] = IF n \in Range(v.ids) THEN g[n - 1] ELSE Append(g[n - 1], n)
    <3>1. n - 1 \in Nat /\ (n - 1) + 1 = n
          BY <2>1
    <3> QED BY <3>1, <1>2, <1>3
  <2> QED BY <2>1, <1>2
<1>5. TaskIDs(v) = CHOOSE h : Does(h)
      BY DEF TaskIDs
<1>6. Does(TaskIDs(v))
      BY <1>4, <1>5
<1>7. /\ TaskIDs(v)[0] = v.ids
      /\ \A n \in Nat : TaskIDs(v)[n + 1] = IF n + 1 \in Range(v.ids) THEN TaskIDs(v)[n]
                                            ELSE Append(TaskIDs(v)[n], n + 1)
  <2> HIDE DEF Does
  <2>1. TaskIDs(v) = [n \in Nat |-> IF n = 0 THEN v.ids
                                    ELSE IF n \in Range(v.ids) THEN TaskIDs(v)[n - 1]
                                    ELSE Append(TaskIDs(v)[n - 1], n)]
        BY <1>6 DEF Does
  <2>2. TaskIDs(v)[0] = v.ids
        BY <2>1
  <2>3. ASSUME NEW n \in Nat
        PROVE  TaskIDs(v)[n + 1] = IF n + 1 \in Range(v.ids) THEN TaskIDs(v)[n]
                                   ELSE Append(TaskIDs(v)[n], n + 1)
    <3>1. n + 1 \in Nat /\ n + 1 # 0 /\ (n + 1) - 1 = n
          OBVIOUS
    <3> QED BY <2>1, <3>1
  <2> QED BY <2>2, <2>3
<1>8. \A n \in Nat : TaskIDs(v)[n] = g[n]
  <2> DEFINE S == {n \in Nat : TaskIDs(v)[n] = g[n]}
  <2>1. 0 \in S
        BY <1>2, <1>7
  <2>2. ASSUME NEW n \in Nat, n \in S PROVE n + 1 \in S
    <3>1. TaskIDs(v)[n] = g[n]
          BY <2>2
    <3>2. TaskIDs(v)[n + 1] = IF n + 1 \in Range(v.ids) THEN g[n] ELSE Append(g[n], n + 1)
          BY <3>1, <1>7
    <3>3. g[n + 1] = IF n + 1 \in Range(v.ids) THEN g[n] ELSE Append(g[n], n + 1)
      <4>1. g[n + 1] = step[<<n, g[n]>>]
            BY <1>2, Zenon
      <4>2. step[<<n, g[n]>>] = IF n + 1 \in Range(v.ids) THEN g[n] ELSE Append(g[n], n + 1)
            BY <1>3, Zenon
      <4> QED BY <4>1, <4>2, Zenon
    <3> QED BY <3>2, <3>3
  <2> HIDE DEF S
  <2>3. \A n \in Nat : n \in S
        BY <2>1, <2>2, Induction
  <2> QED BY <2>3 DEF S
<1>9. TaskIDs(v) = g
  <2>1. TaskIDs(v) = [n \in Nat |-> TaskIDs(v)[n]]
        BY <1>6
  <2> QED BY <2>1, <1>8, <1>2
<1> QED BY <1>9, <1>2, <1>7 DEF V

\* What a page adds to a record.
LEMMA ExtendedFields ==
    ASSUME NEW v \in Record, NEW p \in Page
    PROVE  /\ Extended(v, p) \in Record
           /\ Extended(v, p).done = v.done /\ Extended(v, p).loc = v.loc /\ Extended(v, p).msg = v.msg
           /\ Extended(v, p).locs = v.locs \o p.locs /\ Extended(v, p).ids = v.ids \o p.ids
           /\ Extended(v, p).tasks = v.tasks \o p.tasks
BY ConcatProperties DEF Extended, Record, Page

\* The pages joined to a record: GetTransition appends them one by one.
LEMMA WithPagesSteps ==
    ASSUME NEW f \in Record, NEW D, NEW pp \in [D -> Page]
    PROVE  /\ WithPages(f, pp) \in [Nat -> Record]
           /\ WithPages(f, pp)[0] = f
           /\ \A n \in Nat : WithPages(f, pp)[n + 1] =
                                 IF n \in D THEN Extended(WithPages(f, pp)[n], pp[n])
                                            ELSE WithPages(f, pp)[n]
<1> DEFINE Does(h) == h = [n \in Nat |-> IF n = 0 THEN f
                                         ELSE IF n - 1 \in DOMAIN pp THEN Extended(h[n - 1], pp[n - 1])
                                         ELSE h[n - 1]]
           step == [x \in Nat \X Record |-> IF x[1] \in D THEN Extended(x[2], pp[x[1]]) ELSE x[2]]
<1>0. DOMAIN pp = D
      OBVIOUS
<1>1. step \in [Nat \X Record -> Record]
  <2>1. \A n \in D : pp[n] \in Page
        OBVIOUS
  <2> QED BY <2>1, ExtendedFields
<1> HIDE DEF step
<1>2. PICK g \in [Nat -> Record] : g[0] = f /\ \A n \in Nat : g[n + 1] = step[<<n, g[n]>>]
  <2>1. PICK g : Iterates(g, Record, f, step)
        BY <1>1, Recursion
  <2> QED BY <2>1 DEF Iterates
<1>3. \A n \in Nat : step[<<n, g[n]>>] = IF n \in D THEN Extended(g[n], pp[n]) ELSE g[n]
      BY <1>2 DEF step
<1>4. Does(g)
  <2>1. ASSUME NEW n \in Nat, n # 0
        PROVE  g[n] = IF n - 1 \in DOMAIN pp THEN Extended(g[n - 1], pp[n - 1]) ELSE g[n - 1]
    <3>1. n - 1 \in Nat /\ (n - 1) + 1 = n
          BY <2>1
    <3> QED BY <3>1, <1>0, <1>2, <1>3
  <2> QED BY <2>1, <1>2
<1>5. WithPages(f, pp) = CHOOSE h : Does(h)
      BY DEF WithPages
<1>6. Does(WithPages(f, pp))
      BY <1>4, <1>5
<1>7. /\ WithPages(f, pp)[0] = f
      /\ \A n \in Nat : WithPages(f, pp)[n + 1] =
                            IF n \in D THEN Extended(WithPages(f, pp)[n], pp[n])
                                       ELSE WithPages(f, pp)[n]
  <2> HIDE DEF Does
  <2>1. WithPages(f, pp) = [n \in Nat |-> IF n = 0 THEN f
                                ELSE IF n - 1 \in DOMAIN pp THEN Extended(WithPages(f, pp)[n - 1], pp[n - 1])
                                ELSE WithPages(f, pp)[n - 1]]
        BY <1>6 DEF Does
  <2>2. WithPages(f, pp)[0] = f
        BY <2>1
  <2>3. ASSUME NEW n \in Nat
        PROVE  WithPages(f, pp)[n + 1] = IF n \in D THEN Extended(WithPages(f, pp)[n], pp[n])
                                                    ELSE WithPages(f, pp)[n]
    <3>1. n + 1 \in Nat /\ n + 1 # 0 /\ (n + 1) - 1 = n
          OBVIOUS
    <3> QED BY <2>1, <3>1, <1>0
  <2> QED BY <2>2, <2>3
<1>8. \A n \in Nat : WithPages(f, pp)[n] = g[n]
  <2> DEFINE S == {n \in Nat : WithPages(f, pp)[n] = g[n]}
  <2>1. 0 \in S
        BY <1>2, <1>7
  <2>2. ASSUME NEW n \in Nat, n \in S PROVE n + 1 \in S
    <3>1. WithPages(f, pp)[n] = g[n]
          BY <2>2
    <3>2. WithPages(f, pp)[n + 1] = IF n \in D THEN Extended(g[n], pp[n]) ELSE g[n]
          BY <3>1, <1>7
    <3>3. g[n + 1] = IF n \in D THEN Extended(g[n], pp[n]) ELSE g[n]
      <4>1. g[n + 1] = step[<<n, g[n]>>]
            BY <1>2, Zenon
      <4>2. step[<<n, g[n]>>] = IF n \in D THEN Extended(g[n], pp[n]) ELSE g[n]
            BY <1>3, Zenon
      <4> QED BY <4>1, <4>2, Zenon
    <3> QED BY <3>2, <3>3
  <2> HIDE DEF S
  <2>3. \A n \in Nat : n \in S
        BY <2>1, <2>2, Induction
  <2> QED BY <2>3 DEF S
<1>9. WithPages(f, pp) = g
  <2>1. WithPages(f, pp) = [n \in Nat |-> WithPages(f, pp)[n]]
        BY <1>6
  <2> QED BY <2>1, <1>8, <1>2
<1> QED BY <1>9, <1>2, <1>7

-----------------------------------------------------------------------------
(* Types of the operators *)

\* Division with a remainder.
LEMMA Division ==
    ASSUME NEW a \in Nat, NEW b \in Nat \ {0}
    PROVE  a \div b \in Nat /\ (a \div b) * b <= a /\ a < (a \div b) * b + b
OBVIOUS

\* There is always a page, and its items are those of the array.
LEMMA CutType ==
    ASSUME NEW s \in Seq(Nat), NEW step \in Nat \ {0}, NEW n \in Nat \ {0}
    PROVE  Cut(s, step, n) \in Seq(Seq(Nat)) /\ Len(Cut(s, step, n)) >= 1
<1>1. CASE Len(s) <= n
      BY <1>1 DEF Cut
<1>2. CASE ~ (Len(s) <= n)
  <2> DEFINE q == (Len(s) + step - 1) \div step
             from(i) == (i - 1) * step
             c == [i \in 1..q |-> SubSeq(s, from(i) + 1, IF from(i) + n > Len(s) THEN Len(s)
                                                           ELSE from(i) + n)]
  <2>1. Len(s) \in Nat /\ Len(s) >= 1
        BY <1>2
  <2>2. q \in Nat /\ q >= 1
    <3>1. Len(s) + step - 1 \in Nat /\ Len(s) + step - 1 >= step
          BY <2>1
    <3> QED BY <3>1, Division
  <2>3. \A i \in 1..q : from(i) \in Nat
        BY <2>2
  <2>4. \A i \in 1..q : SubSeq(s, from(i) + 1, IF from(i) + n > Len(s) THEN Len(s)
                                                  ELSE from(i) + n) \in Seq(Nat)
    <3> SUFFICES ASSUME NEW i \in 1..q
                 PROVE  SubSeq(s, from(i) + 1, IF from(i) + n > Len(s) THEN Len(s)
                                                  ELSE from(i) + n) \in Seq(Nat)
        OBVIOUS
    <3> DEFINE lo == from(i) + 1
               hi == IF from(i) + n > Len(s) THEN Len(s) ELSE from(i) + n
    <3>1. lo \in Nat /\ lo >= 1 /\ hi \in Nat /\ hi <= Len(s)
          BY <2>1, <2>3
    <3> HIDE DEF lo, hi
    <3>2. SubSeq(s, lo, hi) \in Seq(Nat)
          BY <3>1, <2>1, SubSeqProperties
    <3> QED BY <3>2 DEF lo, hi
  <2>5. Cut(s, step, n) = c
        BY <1>2 DEF Cut
  <2> HIDE DEF q, from
  <2>6. c \in Seq(Seq(Nat)) /\ Len(c) = q
        BY <2>2, <2>4
  <2> QED BY <2>2, <2>5, <2>6
<1> QED BY <1>1, <1>2

LEMMA ItemsType ==
    ASSUME NEW v \in Record
    PROVE  ItemsPerPage(v) \in Nat \ {0}
<1>1. PageSize \in Nat \ {0}
      BY StoreAssumption
<1>2. PageSize \div 2 + 1 \in Nat \ {0}
      BY <1>1
<1> QED BY <1>1, <1>2 DEF ItemsPerPage

\* The array of a page.
LEMMA ChunkType ==
    ASSUME NEW pp \in Seq(Seq(Nat)), NEW i \in Nat \ {0}
    PROVE  Chunk(pp, i) \in Seq(Nat)
BY DEF Chunk

LEMMA PagesType ==
    ASSUME NEW v \in Record
    PROVE  /\ Pages(v) \in Seq(Page) /\ Len(Pages(v)) >= 1
           /\ \A k \in {Len(PageLocations(v)), Len(PageTaskIDs(v)), Len(PageTasks(v))} :
                  k <= Len(Pages(v))
           /\ \A i \in 1..Len(Pages(v)) :
                  Pages(v)[i] = [locs |-> Chunk(PageLocations(v), i), ids |-> Chunk(PageTaskIDs(v), i),
                                 tasks |-> Chunk(PageTasks(v), i)]
<1> DEFINE l == PageLocations(v)
           d == PageTaskIDs(v)
           t == PageTasks(v)
           L == {Len(l), Len(d), Len(t)}
           n == CHOOSE k \in L : \A m \in L : m <= k
<1>1. /\ l \in Seq(Seq(Nat)) /\ Len(l) >= 1 /\ d \in Seq(Seq(Nat)) /\ Len(d) >= 1
      /\ t \in Seq(Seq(Nat)) /\ Len(t) >= 1
  <2>1. ItemsPerPage(v) \in Nat \ {0} /\ PageSize \in Nat \ {0}
        BY ItemsType, StoreAssumption
  <2>2. v.locs \in Seq(Nat) /\ v.ids \in Seq(Nat) /\ v.tasks \in Seq(Nat)
        BY DEF Record
  <2> QED BY <2>1, <2>2, CutType DEF PageLocations, PageTaskIDs, PageTasks
<1>2. Pages(v) = [i \in 1..n |-> [locs |-> Chunk(l, i), ids |-> Chunk(d, i), tasks |-> Chunk(t, i)]]
      BY DEF Pages
<1> HIDE DEF l, d, t
<1>3. Len(l) \in Nat /\ Len(d) \in Nat /\ Len(t) \in Nat
      BY <1>1
<1>4. \E k \in L : \A m \in L : m <= k
  <2>1. CASE Len(d) <= Len(l) /\ Len(t) <= Len(l)
        BY <1>3, <2>1
  <2>2. CASE Len(l) <= Len(d) /\ Len(t) <= Len(d)
        BY <1>3, <2>2
  <2>3. CASE Len(l) <= Len(t) /\ Len(d) <= Len(t)
        BY <1>3, <2>3
  <2> QED BY <1>3, <2>1, <2>2, <2>3
<1>5. n \in L /\ \A m \in L : m <= n
      BY <1>4
<1> HIDE DEF n
<1>6. n \in Nat /\ n >= 1
      BY <1>1, <1>3, <1>5
<1>7. \A i \in 1..n : [locs |-> Chunk(l, i), ids |-> Chunk(d, i), tasks |-> Chunk(t, i)] \in Page
      BY <1>1, <1>6, ChunkType DEF Page
<1>8. Pages(v) \in Seq(Page) /\ Len(Pages(v)) = n
      BY <1>2, <1>6, <1>7
<1>9. \A i \in 1..n : Pages(v)[i] = [locs |-> Chunk(l, i), ids |-> Chunk(d, i), tasks |-> Chunk(t, i)]
      BY <1>2
<1> QED BY <1>5, <1>6, <1>8, <1>9 DEF l, d, t

\* Truncation changes nothing but the messages.
LEMMA TruncatedType ==
    ASSUME NEW v \in Record
    PROVE  /\ Truncated(v) \in Record
           /\ Truncated(v).done = v.done /\ Truncated(v).loc = v.loc
           /\ Truncated(v).locs = v.locs /\ Truncated(v).ids = v.ids /\ Truncated(v).tasks = v.tasks
<1>1. MaxMessageLen \in Nat
      BY StoreAssumption
<1> QED BY <1>1 DEF Truncated, Record

LEMMA EntriesType ==
    ASSUME NEW v \in Record
    PROVE  /\ FirstOf(v) \in Record /\ FirstOf(v).done = v.done
           /\ RestOf(v) \in Seq(Page) /\ Len(RestOf(v)) \in Nat
<1> DEFINE w == Truncated(v)
<1>1. w \in Record /\ w.done = v.done
      BY TruncatedType
<1> HIDE DEF w
<1>2. Pages(w) \in Seq(Page) /\ Len(Pages(w)) >= 1 /\ Pages(w)[1] \in Page
  <2>1. Pages(w) \in Seq(Page) /\ Len(Pages(w)) >= 1
        BY <1>1, PagesType
  <2> QED BY <2>1
<1>3. Tail(Pages(w)) \in Seq(Page)
      BY <1>2
<1>4. [w EXCEPT !.locs = Pages(w)[1].locs, !.ids = Pages(w)[1].ids, !.tasks = Pages(w)[1].tasks]
          \in Record
      BY <1>1, <1>2 DEF Record, Page
<1>5. FirstOf(v) \in Record /\ FirstOf(v).done = v.done
      BY <1>1, <1>4 DEF FirstOf, w, Record
<1>6. RestOf(v) \in Seq(Page)
      BY <1>3 DEF RestOf, w
<1> QED BY <1>5, <1>6, LenProperties

LEMMA JoinedType ==
    ASSUME NEW f \in Record, NEW D, NEW pp \in [D -> Page], NEW k \in Nat, D \subseteq 0..k
    PROVE  Joined(f, pp) \in Record /\ Joined(f, pp).done = f.done
<1> DEFINE W == WithPages(f, pp)
<1>1. /\ W \in [Nat -> Record] /\ W[0] = f
      /\ \A n \in Nat : W[n + 1] = IF n \in D THEN Extended(W[n], pp[n]) ELSE W[n]
      BY WithPagesSteps
<1>2. DOMAIN pp = D
      OBVIOUS
<1>3. D # {} => Max(D) \in Nat
  <2> SUFFICES ASSUME D # {} PROVE Max(D) \in Nat
      OBVIOUS
  <2>1. D \subseteq Nat /\ \A y \in D : y <= k
        OBVIOUS
  <2>2. Max(D) \in D
        BY <2>1, NatMax
  <2> QED BY <2>1, <2>2
<1>4. \A n \in Nat : W[n].done = f.done
  <2> DEFINE S == {n \in Nat : W[n].done = f.done}
  <2>1. 0 \in S
        BY <1>1
  <2>2. ASSUME NEW n \in Nat, n \in S PROVE n + 1 \in S
    <3>1. W[n] \in Record /\ W[n].done = f.done
          BY <1>1, <2>2
    <3>2. Extended(W[n], pp[n]).done = W[n].done
          BY <3>1 DEF Extended, Record
    <3>3. W[n + 1] = IF n \in D THEN Extended(W[n], pp[n]) ELSE W[n]
          BY <1>1
    <3> QED BY <3>1, <3>2, <3>3
  <2> HIDE DEF S
  <2>3. \A n \in Nat : n \in S
        BY <2>1, <2>2, Induction
  <2> QED BY <2>3 DEF S
<1> HIDE DEF W
<1>5. CASE D = {}
      BY <1>2, <1>5 DEF Joined
<1>6. CASE D # {}
  <2>1. Max(D) + 1 \in Nat
        BY <1>3, <1>6
  <2>2. W[Max(D) + 1] \in Record /\ W[Max(D) + 1].done = f.done
        BY <1>1, <1>4, <2>1
  <2>3. Joined(f, pp) = W[Max(D) + 1]
        BY <1>2, <1>6 DEF Joined, W
  <2> QED BY <2>2, <2>3
<1> QED BY <1>5, <1>6

LEMMA StagesType ==
    ASSUME NEW r \in Requests
    PROVE  /\ Triggered(r) \in Record
           /\ \A v \in Record : WithIDs(v, r) \in Record /\ WithResults(v, r) \in Record
<1>1. r.locs \in Nat /\ r.tasks \in Nat /\ r.loc \in Nat /\ r.msg \in Nat
      BY StoreAssumption
<1>2. \A n \in Nat : Numbers(n) \in Seq(Nat)
      BY DEF Numbers
<1>3. Triggered(r) \in Record
  <2>1. Numbers(r.locs) \in Seq(Nat)
        BY <1>1, <1>2
  <2>2. <<>> \in Seq(Nat)
        OBVIOUS
  <2> QED BY <1>1, <2>1, <2>2 DEF Triggered, Record
<1>4. ASSUME NEW v \in Record PROVE WithIDs(v, r) \in Record /\ WithResults(v, r) \in Record
  <2>1. TaskIDs(v)[r.tasks] \in Seq(Nat)
        BY <1>1, TaskIDsSteps
  <2>2. Numbers(r.tasks) \in Seq(Nat)
        BY <1>1, <1>2
  <2> QED BY <2>1, <2>2 DEF WithIDs, WithResults, Record
<1> QED BY <1>3, <1>4

-----------------------------------------------------------------------------
(* Type correctness *)

\* Where a client can be, and which of them hold a record.
Places ==
    /\ op[Worker] \in {"store", "pages", "get", "join", "plan", "tas", "end"}
    /\ op[Keeper] \in {"pages", "get", "join", "tas", "end"}
    /\ op[Reaper] \in {"list", "erase", "end"}
    /\ stage \in {"trigger", "finish"} => op[Worker] \in {"store", "pages", "end"}
    /\ stage \in {"trigger", "finish"} /\ op[Worker] = "pages" => ok[Worker]
    /\ stage = "resume"  => op[Worker] \in {"get", "join", "plan", "end"}
    /\ op[Worker] = "plan" => stage = "resume"
    /\ \A c \in {Worker, Keeper} : op[c] \in {"store", "pages", "join", "plan", "tas"} => tr[c] \in Record
    /\ op[Worker] = "get" /\ stage # "resume" => tr[Worker] \in Record

Bounded == \E k \in Nat : DOMAIN page \subseteq 0..k

TypeInv == TypeOK /\ tries \in [Client -> Nat] /\ Bounded /\ Places

LEMMA Clients == /\ Client = {Worker, Keeper, Reaper} /\ Worker # Keeper /\ Keeper # Reaper /\ Reaper # Worker
                 /\ None \notin Record /\ None # Worker /\ None # Keeper
BY StoreAssumption DEF Client

LEMMA InitTypes == Init => TypeInv
<1> SUFFICES ASSUME Init PROVE TypeInv
    OBVIOUS
<1>1. Triggered(req) \in Record
      BY StagesType DEF Init
<1>2. page \in [DOMAIN page -> Page] /\ DOMAIN page = {}
      BY DEF Init
<1>3. TypeOK
  <2>1. MaxCrash \in Nat /\ MaxTries \in Nat
        BY StoreAssumption
  <2>2. /\ op \in [Client -> {"store", "pages", "get", "join", "plan", "tas", "list", "erase", "end"}]
        /\ tr \in [Client -> Record \cup {None}]
        BY <1>1 DEF Init
  <2>3. tries[Worker] = 0 /\ tries[Keeper] = 0
        BY Clients DEF Init
  <2>4. exact \in [Client -> BOOLEAN] /\ ok \in [Client -> BOOLEAN] /\ nxt \in [Client -> Nat]
        BY DEF Init
  <2>5. /\ req \in Requests /\ crashes = 0 /\ first = None /\ owner = None /\ known = {} /\ sound = Client
        /\ refused \in BOOLEAN /\ dirty = {} /\ erase = {} /\ stage = "trigger"
        BY DEF Init
  <2>6. \A c \in Client : op[c] # "pages"
        BY DEF Init
  <2> QED BY <1>2, <2>1, <2>2, <2>3, <2>4, <2>5, <2>6 DEF TypeOK
<1>4. Bounded
      BY <1>2 DEF Bounded
<1> QED BY <1>1, <1>3, <1>4, Clients DEF Init, TypeInv, Places

\* Writing the first entry.
LEMMA SetFirstTypes ==
    ASSUME TypeInv, NEW c \in {Worker, Keeper}, tr[c] \in Record, SetFirst(c)
    PROVE  /\ first' \in Record \cup {None} /\ (first' = None <=> owner' = None)
           /\ known' \subseteq {Worker, Keeper} /\ dirty' \subseteq {"torn", "foreign", "leftover"}
<1>1. FirstOf(tr[c]) \in Record
      BY EntriesType
<1> QED BY <1>1, Clients DEF SetFirst, Client

LEMMA StoreFirstTypes == ASSUME TypeInv, NEW c \in {Worker, Keeper}, StoreFirst(c) PROVE TypeInv'
<1> USE DEF TypeInv, StoreFirst, StartPages, Goto
<1>1. tr[c] \in Record /\ c = Worker
      BY Clients DEF Places
<1>2. Len(RestOf(tr[c])) \in Nat
      BY <1>1, EntriesType
<1>3. /\ first' \in Record \cup {None} /\ (first' = None <=> owner' = None)
      /\ known' \subseteq {Worker, Keeper} /\ dirty' \subseteq {"torn", "foreign", "leftover"}
      BY <1>1, SetFirstTypes
<1>4. TypeOK'
      BY <1>1, <1>2, <1>3, Clients DEF TypeOK
<1>5. Places'
      BY <1>1, Clients DEF Places, TypeOK
<1> QED BY <1>4, <1>5 DEF Bounded

LEMMA GetFirstTypes == ASSUME TypeInv, NEW c \in {Worker, Keeper}, GetFirst(c) PROVE TypeInv'
<1> USE DEF TypeInv, GetFirst, Goto
<1>1. first \in Record
      BY DEF TypeOK
<1>2. TypeOK'
      BY <1>1, Clients DEF TypeOK
<1>3. Places'
      BY <1>1, Clients DEF Places, TypeOK
<1> QED BY <1>2, <1>3 DEF Bounded

LEMMA GetNothingTypes == ASSUME TypeInv, NEW c \in {Worker, Keeper}, GetNothing(c) PROVE TypeInv'
<1> USE DEF TypeInv, GetNothing, Goto
<1>2. TypeOK'
      BY Clients DEF TypeOK
<1>3. Places'
      BY Clients DEF Places, TypeOK
<1> QED BY <1>2, <1>3 DEF Bounded

LEMMA GetPagesTypes == ASSUME TypeInv, NEW c \in {Worker, Keeper}, GetPages(c) PROVE TypeInv'
<1> USE DEF TypeInv, GetPages, Goto
<1>1. tr[c] \in Record
      BY DEF Places
<1>2. Joined(tr[c], page) \in Record
  <2>1. PICK k \in Nat : DOMAIN page \subseteq 0..k
        BY DEF Bounded
  <2>2. page \in [DOMAIN page -> Page]
        BY DEF TypeOK
  <2> QED BY <1>1, <2>1, <2>2, JoinedType
<1>3. Copies(first, page) \in BOOLEAN
      BY DEF Copies
<1>4. TypeOK'
      BY <1>1, <1>2, <1>3, Clients DEF TypeOK
<1>5. Places'
      BY <1>1, <1>2, Clients DEF Places, TypeOK
<1> QED BY <1>4, <1>5 DEF Bounded

LEMMA TASTypes == ASSUME TypeInv, NEW c \in {Worker, Keeper}, TASTransition(c) PROVE TypeInv'
<1> USE DEF TypeInv, TASTransition, StartPages, Goto
<1>1. tr[c] \in Record
      BY DEF Places
<1>2. Len(RestOf(tr[c])) \in Nat
      BY <1>1, EntriesType
<1>3. /\ first' \in Record \cup {None} /\ (first' = None <=> owner' = None)
      /\ known' \subseteq {Worker, Keeper} /\ dirty' \subseteq {"torn", "foreign", "leftover"}
  <2>1. CASE SetFirst(c)
        BY <1>1, <2>1, SetFirstTypes
  <2>2. CASE UNCHANGED <<first, owner, known, dirty>>
        BY <2>2 DEF TypeOK
  <2> QED BY <2>1, <2>2
<1>4. ok' \in [Client -> BOOLEAN] /\ refused' \in BOOLEAN
      BY Clients DEF TypeOK
<1>5. TypeOK'
      BY <1>1, <1>2, <1>3, <1>4, Clients DEF TypeOK
<1>6. Places'
      BY <1>1, Clients DEF Places, TypeOK
<1> QED BY <1>5, <1>6 DEF Bounded

LEMMA WritePageTypes == ASSUME TypeInv, NEW c \in {Worker, Keeper}, WritePage(c) PROVE TypeInv'
<1> USE DEF TypeInv, WritePage
<1>1. tr[c] \in Record
      BY DEF Places
<1>2. RestOf(tr[c]) \in Seq(Page) /\ Len(RestOf(tr[c])) \in Nat
      BY <1>1, EntriesType
<1>3. nxt[c] \in Nat /\ RestOf(tr[c])[nxt[c] + 1] \in Page
  <2>1. nxt[c] \in Nat /\ nxt[c] < Len(RestOf(tr[c]))
        BY Clients DEF TypeOK
  <2> QED BY <1>2, <2>1
<1>4. page' \in [DOMAIN page' -> Page] /\ DOMAIN page' = DOMAIN page \cup {nxt[c]}
      BY <1>3 DEF TypeOK
<1>5. dirty' \subseteq {"torn", "foreign", "leftover"}
      BY DEF TypeOK
<1>6. TypeOK'
      BY SMTT(30), <1>1, <1>2, <1>3, <1>4, <1>5, Clients DEF TypeOK
<1>7. Places'
      BY Clients DEF Places, TypeOK
<1>8. Bounded'
  <2>1. PICK k \in Nat : DOMAIN page \subseteq 0..k
        BY DEF Bounded
  <2>2. DOMAIN page' \subseteq 0..k + nxt[c] /\ k + nxt[c] \in Nat
        BY <1>3, <1>4, <2>1
  <2> QED BY <2>2 DEF Bounded
<1> QED BY <1>6, <1>7, <1>8

LEMMA PlansTypes == ASSUME TypeInv, WorkerPlans PROVE TypeInv'
<1> USE DEF TypeInv, WorkerPlans, AllWritten
<1>0. op[Worker] \in {"pages", "plan"} /\ tr[Worker] \in Record /\ req \in Requests
      BY Clients DEF Places, TypeOK
<1>1. WithIDs(tr[Worker], req) \in Record /\ WithResults(tr[Worker], req) \in Record
      BY <1>0, StagesType
<1>2. CASE op[Worker] = "pages" /\ ~ok[Worker] /\ MayRetry
  <2>1. TypeOK'
        BY <1>2, Clients DEF TypeOK, MayRetry
  <2>2. Places'
        BY <1>0, <1>2, Clients DEF Places, TypeOK
  <2> QED BY <1>2, <2>1, <2>2, Clients DEF Bounded, TypeOK
<1>3. CASE ~ (op[Worker] = "pages" /\ ~ok[Worker] /\ MayRetry)
  <2>0. tries' = [tries EXCEPT ![Worker] = 0]
        BY <1>3
  <2>1. CASE stage \in {"trigger", "resume"}
    <3>1. /\ stage' = "run" /\ tr' = [tr EXCEPT ![Worker] = WithIDs(@, req)]
          /\ op' = [op EXCEPT ![Worker] = "get", ![Keeper] = IF @ = "end" THEN "get" ELSE @]
          BY <1>3, <2>1
    <3>2. TypeOK'
          BY <1>1, <2>0, <3>1, Clients DEF TypeOK
    <3>3. Places'
          BY <1>1, <3>1, Clients DEF Places, TypeOK
    <3> QED BY <2>0, <3>2, <3>3, Clients DEF Bounded
  <2>2. CASE stage = "run"
    <3>1. /\ stage' = "finish" /\ tr' = [tr EXCEPT ![Worker] = WithResults(@, req)]
          /\ op' = [op EXCEPT ![Worker] = "store"]
          BY <1>3, <2>2
    <3>2. TypeOK'
          BY <1>1, <2>0, <3>1, Clients DEF TypeOK
    <3>3. Places'
          BY <1>1, <3>1, Clients DEF Places, TypeOK
    <3> QED BY <2>0, <3>2, <3>3, Clients DEF Bounded
  <2>3. CASE stage = "finish"
    <3>1. stage' = stage /\ tr' = tr /\ op' = [op EXCEPT ![Worker] = "end"]
          BY <1>3, <2>3
    <3>2. TypeOK'
          BY <2>0, <3>1, Clients DEF TypeOK
    <3>3. Places'
          BY <2>3, <3>1, Clients DEF Places, TypeOK
    <3> QED BY <2>0, <3>2, <3>3, Clients DEF Bounded
  <2> QED BY <2>1, <2>2, <2>3 DEF TypeOK
<1> QED BY <1>2, <1>3

LEMMA ForgetTypes ==
    ASSUME TypeInv, NEW C, Forget(C)
    PROVE  /\ tr' \in [Client -> Record \cup {None}] /\ exact' \in [Client -> BOOLEAN]
           /\ ok' \in [Client -> BOOLEAN] /\ nxt' \in [Client -> Nat]
BY DEF Forget, TypeInv, TypeOK

LEMMA LoopsTypes == ASSUME TypeInv, KeeperLoops PROVE TypeInv'
<1> USE DEF TypeInv, KeeperLoops, AllWritten, Goto
<1>1. /\ tr' \in [Client -> Record \cup {None}] /\ exact' \in [Client -> BOOLEAN]
      /\ ok' \in [Client -> BOOLEAN] /\ nxt' \in [Client -> Nat]
      BY ForgetTypes
<1>2. tr'[Worker] = tr[Worker] /\ nxt'[Worker] = nxt[Worker] /\ (ok'[Worker] <=> ok[Worker])
      BY Clients DEF Forget
<1>3. tries'[Keeper] \in 0..MaxTries /\ tries'[Worker] = tries[Worker] /\ tries' \in [Client -> Nat]
  <2>1. Keeper \in Client /\ Worker # Keeper
        BY Clients
  <2>2. tries \in [Client -> Nat] /\ tries[Keeper] \in 0..MaxTries /\ MaxTries \in Nat
        BY StoreAssumption DEF TypeOK
  <2>3. tries' = [tries EXCEPT ![Keeper] = IF ok[Keeper] THEN tries[Keeper] ELSE tries[Keeper] + 1]
        OBVIOUS
  <2>4. ok[Keeper] \/ tries[Keeper] < MaxTries
        OBVIOUS
  <2> HIDE DEF TypeInv, KeeperLoops, AllWritten, Goto
  <2>5. tries'[Keeper] = IF ok[Keeper] THEN tries[Keeper] ELSE tries[Keeper] + 1
        BY <2>1, <2>2, <2>3
  <2>6. tries'[Keeper] \in 0..MaxTries
        BY <2>2, <2>4, <2>5
  <2> QED BY <2>1, <2>2, <2>3, <2>6
<1>4. TypeOK'
      BY <1>1, <1>2, <1>3, Clients DEF TypeOK, Places
<1>5. Places'
      BY <1>2, Clients DEF Places, TypeOK
<1> QED BY <1>3, <1>4, <1>5 DEF Bounded

LEMMA ReapTypes == ASSUME TypeInv, DeleteFirst \/ ListPages \/ DeletePage PROVE TypeInv'
<1> USE DEF TypeInv, Goto
<1>1. CASE DeleteFirst
  <2>1. TypeOK'
        BY <1>1, Clients DEF DeleteFirst, TypeOK
  <2>2. Places'
        BY <1>1, Clients DEF DeleteFirst, Places, TypeOK
  <2> QED BY <1>1, <2>1, <2>2 DEF DeleteFirst, Bounded
<1>2. CASE ListPages
  <2>1. TypeOK'
        BY <1>2, Clients DEF ListPages, DeletePages, TypeOK
  <2>2. Places'
        BY <1>2, Clients DEF ListPages, Places, TypeOK
  <2> QED BY <1>2, <2>1, <2>2 DEF ListPages, Bounded
<1>3. CASE DeletePage
  <2>1. CASE erase = {}
    <3>1. TypeOK'
          BY <1>3, <2>1, Clients DEF DeletePage, TypeOK
    <3>2. Places'
          BY <1>3, <2>1, Clients DEF DeletePage, Places, TypeOK
    <3> QED BY <1>3, <2>1, <3>1, <3>2 DEF DeletePage, Bounded
  <2>2. CASE erase # {}
    <3>1. PICK i \in erase : /\ page' = [j \in DOMAIN page \ {i} |-> page[j]]
                             /\ erase' = erase \ {i} /\ UNCHANGED op
          BY <1>3, <2>2 DEF DeletePage
    <3>2. page' \in [DOMAIN page' -> Page] /\ DOMAIN page' \subseteq DOMAIN page
          BY <3>1 DEF TypeOK
    <3>3. TypeOK'
          BY <1>3, <3>1, <3>2, Clients DEF DeletePage, TypeOK
    <3>4. Places'
          BY <1>3, <3>1, Clients DEF DeletePage, Places
    <3> QED BY <1>3, <3>2, <3>3, <3>4 DEF DeletePage, Bounded
  <2> QED BY <2>1, <2>2
<1> QED BY <1>1, <1>2, <1>3

LEMMA CrashTypes == ASSUME TypeInv, NEW C \in {{Worker, Keeper}, {Reaper}}, Crash(C) PROVE TypeInv'
<1> USE DEF TypeInv, Crash
<1>1. /\ tr' \in [Client -> Record \cup {None}] /\ exact' \in [Client -> BOOLEAN]
      /\ ok' \in [Client -> BOOLEAN] /\ nxt' \in [Client -> Nat]
      BY ForgetTypes
<1>2. \A c \in Client \ C : /\ tr'[c] = tr[c] /\ nxt'[c] = nxt[c] /\ op'[c] = op[c]
                             /\ tries'[c] = tries[c] /\ (ok'[c] <=> ok[c])
      BY DEF Forget
<1>3. \A c \in C : op'[c] = "end" /\ tries'[c] = 0
      BY Clients
<1>4. tries'[Worker] \in 0..2 /\ tries'[Keeper] \in 0..MaxTries /\ tries' \in [Client -> Nat]
      BY <1>2, <1>3, Clients, StoreAssumption DEF TypeOK
<1>5. dirty' \subseteq {"torn", "foreign", "leftover"} /\ erase' \subseteq Nat
      BY DEF TypeOK
<1>6. \A c \in Client : op'[c] = "pages" => nxt'[c] <= Len(RestOf(tr'[c]))
      BY <1>2, <1>3 DEF TypeOK
<1>7. TypeOK'
  <2>1. crashes' \in 0..MaxCrash
        BY SMTT(30), StoreAssumption DEF TypeOK
  <2>2. op' \in [Client -> {"store", "pages", "get", "join", "plan", "tas", "list", "erase", "end"}]
        BY DEF TypeOK
  <2> QED BY <1>1, <1>4, <1>5, <1>6, <2>1, <2>2 DEF TypeOK
<1>8. Places'
  <2>1. CASE C = {Reaper}
        BY <2>1, <1>2, <1>3, Clients DEF Places
  <2>2. CASE C = {Worker, Keeper}
        BY <2>2, <1>2, <1>3, Clients DEF Places
  <2> QED BY <2>1, <2>2
<1> QED BY <1>4, <1>7, <1>8 DEF Bounded

LEMMA TakeOverTypes == ASSUME TypeInv, TakeOver PROVE TypeInv'
<1> USE DEF TypeInv, TakeOver, Goto
<1>1. TypeOK'
      BY Clients DEF TypeOK
<1>2. Places'
      BY Clients DEF TypeOK, Places
<1> QED BY <1>1, <1>2 DEF Bounded

LEMMA NextTypes == TypeInv /\ [Next]_vars => TypeInv'
<1> SUFFICES ASSUME TypeInv, [Next]_vars PROVE TypeInv'
    OBVIOUS
<1>1. CASE UNCHANGED vars
      BY <1>1 DEF vars, local, TypeInv, TypeOK, Bounded, Places
<1>2. ASSUME NEW c \in {Worker, Keeper},
             StoreFirst(c) \/ GetFirst(c) \/ GetNothing(c) \/ GetPages(c) \/ TASTransition(c) \/ WritePage(c)
      PROVE  TypeInv'
      BY <1>2, StoreFirstTypes, GetFirstTypes, GetNothingTypes, GetPagesTypes, TASTypes, WritePageTypes
<1>3. CASE WorkerPlans \/ KeeperLoops
      BY <1>3, PlansTypes, LoopsTypes
<1>4. CASE DeleteFirst \/ ListPages \/ DeletePage
      BY <1>4, ReapTypes
<1>5. CASE Crash({Worker, Keeper}) \/ Crash({Reaper})
      BY <1>5, CrashTypes
<1>6. CASE TakeOver
      BY <1>6, TakeOverTypes
<1> QED BY <1>1, <1>2, <1>3, <1>4, <1>5, <1>6 DEF Next

\* The record, its pages and what every client holds are well-formed in every
\* reachable state, whatever is stored, refused, torn or deleted on the way:
\* three attempts of storeTransition at most, pages written in order.
THEOREM TypeCorrect == Spec => []TypeOK
<1>1. TypeInv => TypeOK
      BY DEF TypeInv
<1> QED BY <1>1, InitTypes, NextTypes, PTL DEF Spec

-----------------------------------------------------------------------------
(* Cutting an array into pages and joining them again *)

Least(a, b) == IF a > b THEN b ELSE a

\* The items of the first k pages of n items each, and those of page i.
Part(s, n, k)   == SubSeq(s, 1, Least(k * n, Len(s)))
PageOf(s, n, i) == SubSeq(s, (i - 1) * n + 1, Least(i * n, Len(s)))

\* The first pages and the next one make the first pages.
LEMMA PartGrows ==
    ASSUME NEW s \in Seq(Nat), NEW n \in Nat \ {0}, NEW k \in Nat
    PROVE  Part(s, n, k) \o PageOf(s, n, k + 1) = Part(s, n, k + 1) /\ Part(s, n, k) \in Seq(Nat)
<1> DEFINE L == Len(s)
           a == k * n
           b == (k + 1) * n
<1>1. L \in Nat /\ a \in Nat /\ b \in Nat /\ b = a + n /\ ((k + 1) - 1) * n = a
      OBVIOUS
<1>2. Part(s, n, k) = SubSeq(s, 1, Least(a, L)) /\ Part(s, n, k + 1) = SubSeq(s, 1, Least(b, L))
      BY DEF Part
<1>3. PageOf(s, n, k + 1) = SubSeq(s, a + 1, Least(b, L))
      BY <1>1 DEF PageOf
<1> HIDE DEF a, b
<1>4. Least(a, L) \in 0..L /\ Least(b, L) \in Least(a, L)..L
      BY <1>1 DEF Least
<1>5. SubSeq(s, 1, Least(a, L)) \in Seq(Nat)
  <2>1. \A i \in 1..Least(a, L) : s[i] \in Nat
        BY <1>4
  <2> QED BY <2>1, <1>4, SubSeqProperties
<1>6. CASE a > L
  <2>1. Least(a, L) = L /\ Least(b, L) = L /\ L < a + 1
        BY <1>1, <1>6 DEF Least
  <2>2. SubSeq(s, a + 1, Least(b, L)) = <<>>
        BY <1>1, <2>1, SubSeqEmpty
  <2>3. SubSeq(s, 1, Least(a, L)) \o <<>> = SubSeq(s, 1, Least(a, L))
        BY <1>5, ConcatEmptySeq
  <2> QED BY <1>2, <1>3, <1>5, <2>1, <2>2, <2>3
<1>7. CASE ~ (a > L)
  <2>1. Least(a, L) = a /\ a \in 0..L /\ Least(b, L) \in a..L
        BY <1>1, <1>4, <1>7 DEF Least
  <2>2. SubSeq(s, 1, a) \o SubSeq(s, a + 1, Least(b, L)) = SubSeq(s, 1, Least(b, L))
    <3> DEFINE z == Least(b, L)
    <3>1. s \in Seq(Nat) /\ 1 \in 1..Len(s) + 1 /\ a \in (1 - 1)..Len(s) /\ z \in a..Len(s)
          BY <1>1, <2>1
    <3> HIDE DEF z
    <3> QED BY <3>1, ConcatAdjacentSubSeq DEF z
  <2> QED BY <1>2, <1>3, <1>5, <2>1, <2>2
<1> QED BY <1>6, <1>7

\* The first page, and all of them.
LEMMA PartEnds ==
    ASSUME NEW s \in Seq(Nat), NEW n \in Nat \ {0}
    PROVE  /\ PageOf(s, n, 1) = Part(s, n, 1)
           /\ \A k \in Nat : k * n >= Len(s) => Part(s, n, k) = s
<1>1. PageOf(s, n, 1) = Part(s, n, 1)
  <2>1. (1 - 1) * n + 1 = 1
        OBVIOUS
  <2> QED BY <2>1 DEF PageOf, Part
<1>2. ASSUME NEW k \in Nat, k * n >= Len(s) PROVE Part(s, n, k) = s
  <2>1. Least(k * n, Len(s)) = Len(s)
        BY <1>2 DEF Least
  <2> QED BY <2>1, SubSeqFull DEF Part
<1> QED BY <1>1, <1>2

\* An array that is cut at the size of its pages, or not at all, is cut into
\* these pages; the ones after the last are empty.
LEMMA CutPages ==
    ASSUME NEW s \in Seq(Nat), NEW step \in Nat \ {0}, NEW n \in Nat \ {0}, step = n \/ Len(s) <= n
    PROVE  /\ \A i \in Nat \ {0} : Chunk(Cut(s, step, n), i) = PageOf(s, n, i)
           /\ \A k \in Nat : k >= Len(Cut(s, step, n)) => k * n >= Len(s)
<1>0. Len(s) \in Nat
      OBVIOUS
<1>a. ASSUME NEW i \in Nat \ {0}, (i - 1) * n >= Len(s) PROVE PageOf(s, n, i) = <<>>
  <2>1. /\ (i - 1) * n \in Nat /\ i * n = (i - 1) * n + n /\ i * n \in Nat
        OBVIOUS
  <2>2. Least(i * n, Len(s)) = Len(s)
        BY <1>0, <1>a, <2>1 DEF Least
  <2>3. Len(s) < (i - 1) * n + 1
        BY <1>0, <1>a, <2>1
  <2> QED BY <1>0, <2>1, <2>2, <2>3, SubSeqEmpty DEF PageOf
<1>1. CASE Len(s) <= n
  <2>1. Cut(s, step, n) = <<s>>
        BY <1>1 DEF Cut
  <2>2. ASSUME NEW i \in Nat \ {0} PROVE Chunk(<<s>>, i) = PageOf(s, n, i)
    <3>1. CASE i = 1
      <4>1. Part(s, n, 1) = s /\ PageOf(s, n, 1) = Part(s, n, 1)
        <5>1. 1 * n >= Len(s)
              BY <1>0, <1>1
        <5> QED BY <5>1, PartEnds
      <4> QED BY <3>1, <4>1 DEF Chunk
    <3>2. CASE i # 1
      <4>1. (i - 1) * n >= Len(s)
        <5>1. i - 1 \in Nat \ {0}
              BY <3>2
        <5>2. (i - 1) * n >= n
              BY <5>1
        <5> QED BY <1>0, <1>1, <5>1, <5>2
      <4> QED BY <1>a, <3>2, <4>1 DEF Chunk
    <3> QED BY <3>1, <3>2
  <2>3. ASSUME NEW k \in Nat, k >= 1 PROVE k * n >= Len(s)
    <3>1. k * n >= n /\ k * n \in Nat
          BY <2>3
    <3> QED BY <3>1, <1>0, <1>1
  <2> QED BY <2>1, <2>2, <2>3
<1>2. CASE ~ (Len(s) <= n)
  <2> DEFINE q == (Len(s) + n - 1) \div n
             from(i) == (i - 1) * n
  <2>1. Cut(s, step, n) = [i \in 1..q |-> SubSeq(s, from(i) + 1, IF from(i) + n > Len(s) THEN Len(s)
                                                                 ELSE from(i) + n)]
        BY <1>2 DEF Cut
  <2>2. q \in Nat /\ q * n >= Len(s)
    <3>1. Len(s) + n - 1 \in Nat
          BY <1>0
    <3>2. q \in Nat /\ Len(s) + n - 1 < q * n + n
          BY <3>1, Division
    <3>3. q * n \in Nat
          BY <3>2
    <3> QED BY <1>0, <3>2, <3>3
  <2> HIDE DEF q
  <2>3. Len(Cut(s, step, n)) = q
        BY <2>1, <2>2
  <2>4. ASSUME NEW k \in Nat, k >= q PROVE k * n >= Len(s)
    <3>1. k * n >= q * n /\ k * n \in Nat /\ q * n \in Nat
          BY <2>2, <2>4
    <3> QED BY <1>0, <2>2, <3>1
  <2>5. ASSUME NEW i \in Nat \ {0} PROVE Chunk(Cut(s, step, n), i) = PageOf(s, n, i)
    <3>1. CASE i <= q
      <4>1. i \in 1..q /\ from(i) + n = i * n
            BY <3>1, <2>2
      <4>2. Cut(s, step, n)[i] = SubSeq(s, from(i) + 1, IF from(i) + n > Len(s) THEN Len(s)
                                                        ELSE from(i) + n)
            BY <2>1, <4>1
      <4> QED BY <2>3, <3>1, <4>1, <4>2 DEF Chunk, PageOf, Least
    <3>2. CASE ~ (i <= q)
      <4>1. i - 1 \in Nat /\ i - 1 >= q
            BY <3>2, <2>2
      <4>2. (i - 1) * n >= Len(s)
            BY <4>1, <2>4
      <4> QED BY <1>a, <2>3, <3>2, <4>2 DEF Chunk
    <3> QED BY <3>1, <3>2
  <2> QED BY <2>3, <2>4, <2>5
<1> QED BY <1>1, <1>2

\* Truncating twice is truncating once.
LEMMA TruncatedTwice ==
    ASSUME NEW v \in Record
    PROVE  /\ Truncated(Truncated(v)) = Truncated(v)
           /\ Fits(Truncated(v)) => Fits(v)
<1>1. MaxMessageLen \in Nat
      BY StoreAssumption
<1>2. Truncated(Truncated(v)) = Truncated(v)
  <2>1. CASE ObjectSize(v) > MaxEtcdObjectSize /\ v.msg > MaxMessageLen
    <3>1. Truncated(v) = [v EXCEPT !.msg = MaxMessageLen]
          BY <2>1 DEF Truncated
    <3>2. Truncated(v).msg = MaxMessageLen
          BY <3>1 DEF Record
    <3>3. ~ (Truncated(v).msg > MaxMessageLen)
          BY <1>1, <3>2
    <3> HIDE DEF Truncated
    <3> QED BY <3>3 DEF Truncated
  <2>2. CASE ~ (ObjectSize(v) > MaxEtcdObjectSize /\ v.msg > MaxMessageLen)
    <3>1. Truncated(v) = v
          BY <2>2 DEF Truncated
    <3> QED BY <3>1
  <2> QED BY <2>1, <2>2
<1> QED BY <1>2 DEF Fits

\* What the first entry and all pages of a record make together is the record,
\* but for its truncated messages, and for the results if they are more than a
\* page of the smaller size has.
LEMMA RoundTrip ==
    ASSUME NEW v \in Record, NEW pp, pp \in [0..Len(RestOf(v)) - 1 -> Page],
           \A i \in 0..Len(RestOf(v)) - 1 : pp[i] = RestOf(v)[i + 1]
    PROVE  LET u == Joined(FirstOf(v), pp)
           IN  /\ u \in Record /\ u.done = v.done /\ u.loc = v.loc /\ u.msg = Truncated(v).msg
               /\ u.locs = v.locs /\ u.ids = v.ids
               /\ u.tasks = v.tasks \/ Halved(Truncated(v))
<1> DEFINE w == Truncated(v)
           f == FirstOf(v)
<1>1. /\ w \in Record /\ w.done = v.done /\ w.loc = v.loc
      /\ w.locs = v.locs /\ w.ids = v.ids /\ w.tasks = v.tasks
      BY TruncatedType
<1>2. f \in Record
      BY EntriesType
<1> HIDE DEF w, f
<1>3. CASE Fits(v)
  <2>1. f = w /\ RestOf(v) = <<>>
        BY <1>3 DEF FirstOf, RestOf, f, w
  <2>2. DOMAIN pp = {}
        BY <2>1
  <2>3. Joined(f, pp) = w
        BY <2>1, <2>2 DEF Joined
  <2> QED BY <1>1, <2>3 DEF f, w
<1>4. CASE ~Fits(v)
  <2> DEFINE P == Pages(w)
             N == Len(P)
             n == ItemsPerPage(w)
             W == WithPages(f, pp)
             tasksOK == PageSize = n \/ Len(w.tasks) <= n
             L == PageLocations(w)
             D == PageTaskIDs(w)
             T == PageTasks(w)
  <2>1. /\ P \in Seq(Page) /\ N \in Nat /\ N >= 1 /\ Len(L) <= N /\ Len(D) <= N /\ Len(T) <= N
        /\ \A i \in 1..N : P[i] = [locs |-> Chunk(L, i), ids |-> Chunk(D, i), tasks |-> Chunk(T, i)]
    <3> HIDE DEF P, L, D, T
    <3>1. /\ P \in Seq(Page) /\ N >= 1 /\ \A k \in {Len(L), Len(D), Len(T)} : k <= N
          /\ \A i \in 1..N : P[i] = [locs |-> Chunk(L, i), ids |-> Chunk(D, i), tasks |-> Chunk(T, i)]
          BY <1>1, PagesType DEF P, L, D, T
    <3> QED BY <3>1, LenProperties
  <2>2. f = [w EXCEPT !.locs = P[1].locs, !.ids = P[1].ids, !.tasks = P[1].tasks] /\ RestOf(v) = Tail(P)
        BY <1>4 DEF FirstOf, RestOf, f, w
  <2>3. n \in Nat \ {0} /\ PageSize \in Nat \ {0}
        BY <1>1, ItemsType, StoreAssumption
  <2>4. w.locs \in Seq(Nat) /\ w.ids \in Seq(Nat) /\ w.tasks \in Seq(Nat)
        BY <1>1 DEF Record
  <2> HIDE DEF P, n
  <2>5. Len(RestOf(v)) = N - 1 /\ \A i \in 0..N - 2 : RestOf(v)[i + 1] = P[i + 2]
    <3>1. P # <<>>
          BY <2>1
    <3>2. Len(Tail(P)) = N - 1 /\ \A i \in 1..N - 1 : Tail(P)[i] = P[i + 1]
          BY <2>1, <3>1, HeadTailProperties
    <3>3. ASSUME NEW i \in 0..N - 2 PROVE Tail(P)[i + 1] = P[i + 2]
      <4>1. i + 1 \in 1..N - 1 /\ (i + 1) + 1 = i + 2
            BY <2>1
      <4> QED BY <3>2, <4>1
    <3> QED BY <2>2, <3>2, <3>3
  <2>6. pp \in [0..N - 2 -> Page] /\ \A i \in 0..N - 2 : pp[i] = P[i + 2]
    <3>1. Len(RestOf(v)) - 1 = N - 2
          BY <2>1, <2>5
    <3> QED BY <2>5, <3>1
  <2>7. \A i \in Nat \ {0} : /\ Chunk(L, i) = PageOf(w.locs, n, i) /\ Chunk(D, i) = PageOf(w.ids, n, i)
                             /\ tasksOK => Chunk(T, i) = PageOf(w.tasks, n, i)
    <3>1. \A i \in Nat \ {0} : Chunk(L, i) = PageOf(w.locs, n, i)
          BY <2>3, <2>4, CutPages DEF PageLocations, n
    <3>2. \A i \in Nat \ {0} : Chunk(D, i) = PageOf(w.ids, n, i)
          BY <2>3, <2>4, CutPages DEF PageTaskIDs, n
    <3>3. ASSUME tasksOK PROVE \A i \in Nat \ {0} : Chunk(T, i) = PageOf(w.tasks, n, i)
          BY <2>3, <2>4, <3>3, CutPages DEF PageTasks, n
    <3> QED BY <3>1, <3>2, <3>3
  <2>8. /\ N * n >= Len(w.locs) /\ N * n >= Len(w.ids)
        /\ tasksOK => N * n >= Len(w.tasks)
    <3>1. N * n >= Len(w.locs)
          BY <2>1, <2>3, <2>4, CutPages DEF PageLocations, n
    <3>2. N * n >= Len(w.ids)
          BY <2>1, <2>3, <2>4, CutPages DEF PageTaskIDs, n
    <3>3. ASSUME tasksOK PROVE N * n >= Len(w.tasks)
          BY <2>1, <2>3, <2>4, <3>3, CutPages DEF PageTasks, n
    <3> QED BY <3>1, <3>2, <3>3
  <2> HIDE DEF N, L, D, T, tasksOK
  <2>9. /\ W \in [Nat -> Record] /\ W[0] = f
        /\ \A k \in Nat : W[k + 1] = IF k \in 0..N - 2 THEN Extended(W[k], pp[k]) ELSE W[k]
    <3> DEFINE M == 0..N - 2
    <3>1. pp \in [M -> Page]
          BY <2>6
    <3> HIDE DEF M
    <3>2. /\ W \in [Nat -> Record] /\ W[0] = f
          /\ \A k \in Nat : W[k + 1] = IF k \in M THEN Extended(W[k], pp[k]) ELSE W[k]
          BY SMTT(30), <1>2, <3>1, WithPagesSteps
    <3> QED BY <3>2 DEF M
  <2> HIDE DEF W
  <2> DEFINE Has(k) == /\ W[k].done = w.done /\ W[k].loc = w.loc /\ W[k].msg = w.msg
                       /\ W[k].locs = Part(w.locs, n, k + 1) /\ W[k].ids = Part(w.ids, n, k + 1)
                       /\ tasksOK => W[k].tasks = Part(w.tasks, n, k + 1)
             S == {k \in Nat : k <= N - 1 => Has(k)}
  <2>10. 0 \in S
    <3>1. P[1] = [locs |-> Chunk(L, 1), ids |-> Chunk(D, 1), tasks |-> Chunk(T, 1)]
          BY <2>1
    <3>2. /\ f.done = w.done /\ f.loc = w.loc /\ f.msg = w.msg
          /\ f.locs = Chunk(L, 1) /\ f.ids = Chunk(D, 1) /\ f.tasks = Chunk(T, 1)
          BY <1>1, <2>2, <3>1 DEF Record
    <3>3. /\ f.locs = PageOf(w.locs, n, 1) /\ f.ids = PageOf(w.ids, n, 1)
          /\ tasksOK => f.tasks = PageOf(w.tasks, n, 1)
          BY <2>7, <3>2
    <3>4. /\ f.locs = Part(w.locs, n, 1) /\ f.ids = Part(w.ids, n, 1)
          /\ tasksOK => f.tasks = Part(w.tasks, n, 1)
          BY <3>3, <2>3, <2>4, PartEnds
    <3>5. 0 + 1 = 1
          OBVIOUS
    <3> QED BY <2>9, <3>2, <3>4, <3>5
  <2>11. ASSUME NEW k \in Nat, k \in S PROVE k + 1 \in S
    <3> SUFFICES ASSUME k + 1 <= N - 1 PROVE Has(k + 1)
        OBVIOUS
    <3>1. Has(k) /\ k \in 0..N - 2 /\ k + 2 \in 1..N /\ (k + 1) + 1 = k + 2
          BY <2>1, <2>11
    <3>2. P[k + 2] = [locs |-> Chunk(L, k + 2), ids |-> Chunk(D, k + 2), tasks |-> Chunk(T, k + 2)]
          BY <2>1, <3>1
    <3>3. W[k + 1] = Extended(W[k], P[k + 2]) /\ W[k] \in Record
          BY <2>6, <2>9, <3>1
    <3>4. /\ W[k + 1].done = w.done /\ W[k + 1].loc = w.loc /\ W[k + 1].msg = w.msg
          /\ W[k + 1].locs = W[k].locs \o Chunk(L, k + 2) /\ W[k + 1].ids = W[k].ids \o Chunk(D, k + 2)
          /\ W[k + 1].tasks = W[k].tasks \o Chunk(T, k + 2)
      <4>1. PICK x \in Page : x = P[k + 2]
            BY <2>1, <3>1 DEF N
      <4>2. PICK y \in Record : y = W[k]
            BY <3>3
      <4>3. x.locs = Chunk(L, k + 2) /\ x.ids = Chunk(D, k + 2) /\ x.tasks = Chunk(T, k + 2)
            BY <3>2, <4>1
      <4>4. /\ Extended(y, x).done = y.done /\ Extended(y, x).loc = y.loc /\ Extended(y, x).msg = y.msg
            /\ Extended(y, x).locs = y.locs \o x.locs /\ Extended(y, x).ids = y.ids \o x.ids
            /\ Extended(y, x).tasks = y.tasks \o x.tasks
            BY ExtendedFields
      <4>5. W[k + 1] = Extended(y, x)
            BY <3>3, <4>1, <4>2
      <4> QED BY <3>1, <4>2, <4>3, <4>4, <4>5
    <3>5. /\ Chunk(L, k + 2) = PageOf(w.locs, n, (k + 1) + 1) /\ Chunk(D, k + 2) = PageOf(w.ids, n, (k + 1) + 1)
          /\ tasksOK => Chunk(T, k + 2) = PageOf(w.tasks, n, (k + 1) + 1)
          BY <2>7, <3>1
    <3> DEFINE j == k + 1
    <3>6. j \in Nat /\ k + 1 = j
          OBVIOUS
    <3> HIDE DEF j
    <3>7. \A s \in Seq(Nat) : Part(s, n, j) \o PageOf(s, n, j + 1) = Part(s, n, j + 1)
          BY <2>3, <3>6, PartGrows
    <3>8. /\ W[j].locs = Part(w.locs, n, j + 1) /\ W[j].ids = Part(w.ids, n, j + 1)
          /\ tasksOK => W[j].tasks = Part(w.tasks, n, j + 1)
      <4>1. /\ W[j].locs = Part(w.locs, n, j) \o PageOf(w.locs, n, j + 1)
            /\ W[j].ids = Part(w.ids, n, j) \o PageOf(w.ids, n, j + 1)
            /\ tasksOK => W[j].tasks = Part(w.tasks, n, j) \o PageOf(w.tasks, n, j + 1)
            BY <3>1, <3>4, <3>5, <3>6
      <4> QED BY <2>4, <3>7, <4>1
    <3> QED BY <3>4, <3>6, <3>8
  <2>12. Has(N - 1)
    <3> HIDE DEF S
    <3>1. \A k \in Nat : k \in S
          BY <2>10, <2>11, Induction
    <3>2. N - 1 \in Nat
          BY <2>1
    <3> QED BY <3>1, <3>2 DEF S
  <2>13. /\ W[N - 1].locs = w.locs /\ W[N - 1].ids = w.ids
         /\ tasksOK => W[N - 1].tasks = w.tasks
    <3>1. (N - 1) + 1 = N /\ N \in Nat
          BY <2>1
    <3> QED BY <2>3, <2>4, <2>8, <2>12, <3>1, PartEnds
  <2>14. Joined(f, pp) = W[N - 1]
    <3>1. DOMAIN pp = 0..N - 2
          BY <2>6
    <3>2. CASE N = 1
      <4>1. DOMAIN pp = {} /\ N - 1 = 0
            BY <3>1, <3>2
      <4> QED BY <4>1, <2>9 DEF Joined
    <3>3. CASE N # 1
      <4>1. N - 2 \in Nat /\ DOMAIN pp # {} /\ DOMAIN pp \subseteq Nat /\ N - 2 \in DOMAIN pp
            BY <3>1, <3>3, <2>1
      <4>2. \A y \in DOMAIN pp : y <= N - 2
            BY <3>1
      <4>3. Max(DOMAIN pp) \in DOMAIN pp /\ N - 2 <= Max(DOMAIN pp)
            BY <4>1, <4>2, NatMax
      <4>4. Max(DOMAIN pp) + 1 = N - 1
            BY <4>1, <4>2, <4>3, <2>1
      <4> QED BY <4>1, <4>4 DEF Joined, W
    <3> QED BY <3>2, <3>3
  <2>15. tasksOK \/ Halved(w)
    <3> SUFFICES ASSUME ~tasksOK PROVE Halved(w)
        OBVIOUS
    <3>1. PageSize # n /\ ~ (Len(w.tasks) <= n) /\ Len(w.tasks) \in Nat
          BY <2>4 DEF tasksOK
    <3>2. n = PageSize \div 2 + 1 /\ Len(w.tasks) < PageSize /\ Len(w.locs) < PageSize
          BY <3>1 DEF n, ItemsPerPage
    <3>3. ~Fits(w)
          BY <1>4, TruncatedTwice DEF w
    <3> QED BY <2>3, <3>1, <3>2, <3>3 DEF Halved
  <2>16. N - 1 \in Nat
         BY <2>1
  <2> QED BY <1>1, <2>9, <2>12, <2>13, <2>14, <2>15, <2>16 DEF f, w
<1> QED BY <1>3, <1>4

-----------------------------------------------------------------------------
(* The record at its stages *)

LEMMA NumbersAre ==
    ASSUME NEW n \in Nat
    PROVE  /\ Numbers(n) \in Seq(Nat) /\ Len(Numbers(n)) = n /\ \A i \in 1..n : Numbers(n)[i] = i
           /\ Range(Numbers(n)) = 1..n
           /\ Numbers(0) = <<>> /\ Append(Numbers(n), n + 1) = Numbers(n + 1)
<1>1. Numbers(n) \in Seq(Nat) /\ Len(Numbers(n)) = n /\ \A i \in 1..n : Numbers(n)[i] = i
      BY DEF Numbers
<1>2. Range(Numbers(n)) = 1..n
      BY DEF Numbers, Range
<1>3. Numbers(0) = <<>>
      BY DEF Numbers
<1>4. Append(Numbers(n), n + 1) = Numbers(n + 1)
  <2> DEFINE a == Append(Numbers(n), n + 1)
             b == Numbers(n + 1)
  <2>1. a \in Seq(Nat) /\ Len(a) = n + 1 /\ \A i \in 1..n + 1 : a[i] = i
        BY <1>1, AppendProperties
  <2>2. b \in Seq(Nat) /\ Len(b) = n + 1 /\ \A i \in 1..n + 1 : b[i] = i
        BY DEF Numbers
  <2> HIDE DEF a, b
  <2> QED BY <2>1, <2>2, SeqEqual DEF a, b
<1> QED BY <1>1, <1>2, <1>3, <1>4

\* All IDs are added to a record without any, and none to one that has them.
LEMMA TaskIDsAre ==
    ASSUME NEW v \in Record, NEW n \in Nat
    PROVE  /\ v.ids = <<>> => TaskIDs(v)[n] = Numbers(n)
           /\ v.ids = Numbers(n) => TaskIDs(v)[n] = Numbers(n)
<1>1. ASSUME v.ids = <<>> PROVE TaskIDs(v)[n] = Numbers(n)
  <2> DEFINE S == {k \in Nat : TaskIDs(v)[k] = Numbers(k)}
  <2>1. 0 \in S
        BY <1>1, TaskIDsSteps, NumbersAre
  <2>2. ASSUME NEW k \in Nat, k \in S PROVE k + 1 \in S
    <3>1. k + 1 \notin Range(v.ids)
          BY <1>1 DEF Range
    <3>2. TaskIDs(v)[k + 1] = Append(TaskIDs(v)[k], k + 1)
          BY <3>1, TaskIDsSteps
    <3>3. TaskIDs(v)[k] = Numbers(k) /\ k + 1 \in Nat
          BY <2>2
    <3>4. Append(Numbers(k), k + 1) = Numbers(k + 1)
          BY NumbersAre
    <3> QED BY <3>2, <3>3, <3>4
  <2> HIDE DEF S
  <2>3. \A k \in Nat : k \in S
        BY <2>1, <2>2, Induction
  <2> QED BY <2>3 DEF S
<1>2. ASSUME v.ids = Numbers(n) PROVE TaskIDs(v)[n] = Numbers(n)
  <2> DEFINE S == {k \in Nat : k <= n => TaskIDs(v)[k] = Numbers(n)}
  <2>1. 0 \in S
        BY <1>2, TaskIDsSteps
  <2>2. ASSUME NEW k \in Nat, k \in S PROVE k + 1 \in S
    <3>1. CASE k + 1 <= n
      <4>1. k + 1 \in Range(v.ids)
        <5>1. Range(v.ids) = 1..n
              BY <1>2, NumbersAre
        <5>2. k + 1 \in 1..n
              BY <3>1
        <5> QED BY <5>1, <5>2
      <4>2. TaskIDs(v)[k + 1] = TaskIDs(v)[k]
            BY <4>1, TaskIDsSteps
      <4> QED BY <2>2, <3>1, <4>2
    <3>2. CASE ~ (k + 1 <= n)
          BY <3>2
    <3> QED BY <3>1, <3>2
  <2> HIDE DEF S
  <2>3. \A k \in Nat : k \in S
        BY <2>1, <2>2, Induction
  <2> QED BY <2>3 DEF S
<1> QED BY <1>1, <1>2

\* The record as it is triggered, as it runs, and as it is finished.
Stage0 == Triggered(req)
Stage1 == WithIDs(Stage0, req)
Stage2 == WithResults(Stage1, req)

LEMMA StagesAre ==
    ASSUME req \in Requests
    PROVE  /\ Stage0 \in Record /\ Stage1 \in Record /\ Stage2 \in Record /\ req.tasks \in Nat
           /\ Stage0.done = FALSE /\ Stage0.ids = <<>> /\ Stage0.tasks = <<>>
           /\ Stage1 = [Stage0 EXCEPT !.ids = Numbers(req.tasks)]
           /\ Stage2 = [Stage1 EXCEPT !.done = TRUE, !.tasks = Numbers(req.tasks)]
           /\ Stage0.locs = Numbers(req.locs)
<1>1. req.locs \in Nat /\ req.tasks \in Nat
      BY StoreAssumption
<1>2. Stage0 \in Record /\ Stage1 \in Record /\ Stage2 \in Record
      BY StagesType DEF Stage0, Stage1, Stage2
<1>3. Stage0.done = FALSE /\ Stage0.ids = <<>> /\ Stage0.tasks = <<>> /\ Stage0.locs = Numbers(req.locs)
      BY DEF Stage0, Triggered
<1>4. Stage1 = [Stage0 EXCEPT !.ids = Numbers(req.tasks)]
  <2>1. TaskIDs(Stage0)[req.tasks] = Numbers(req.tasks)
        BY <1>1, <1>2, <1>3, TaskIDsAre
  <2> QED BY <2>1 DEF Stage1, WithIDs
<1>5. Stage2 = [Stage1 EXCEPT !.done = TRUE, !.tasks = Numbers(req.tasks)]
      BY DEF Stage2, WithResults
<1> QED BY <1>1, <1>2, <1>3, <1>4, <1>5

\* The same record, its messages perhaps truncated before.
Like(v, t) == v = t \/ (t.msg > MaxMessageLen /\ v = [t EXCEPT !.msg = MaxMessageLen])

LEMMA LikeFields ==
    ASSUME NEW v, NEW t \in Record, Like(v, t)
    PROVE  /\ v \in Record /\ v.done = t.done /\ v.loc = t.loc
           /\ v.locs = t.locs /\ v.ids = t.ids /\ v.tasks = t.tasks
           /\ v.msg = t.msg \/ (t.msg > MaxMessageLen /\ v.msg = MaxMessageLen)
<1>1. MaxMessageLen \in Nat
      BY StoreAssumption
<1> QED BY <1>1 DEF Like, Record

\* A record is known by its fields.
LEMMA RecordEqual ==
    ASSUME NEW u \in Record, NEW v \in Record,
           u.done = v.done, u.loc = v.loc, u.msg = v.msg, u.locs = v.locs, u.ids = v.ids, u.tasks = v.tasks
    PROVE  u = v
<1>1. u = [done |-> u.done, loc |-> u.loc, msg |-> u.msg, locs |-> u.locs, ids |-> u.ids, tasks |-> u.tasks]
      BY DEF Record
<1>2. v = [done |-> v.done, loc |-> v.loc, msg |-> v.msg, locs |-> v.locs, ids |-> v.ids, tasks |-> v.tasks]
      BY DEF Record
<1>3. [done |-> u.done, loc |-> u.loc, msg |-> u.msg, locs |-> u.locs, ids |-> u.ids, tasks |-> u.tasks]
        = [done |-> v.done, loc |-> v.loc, msg |-> v.msg, locs |-> v.locs, ids |-> v.ids, tasks |-> v.tasks]
      BY Zenon
<1> QED BY <1>1, <1>2, <1>3, Zenon

LEMMA LikeFromFields ==
    ASSUME NEW v \in Record, NEW t \in Record, v.done = t.done, v.loc = t.loc,
           v.locs = t.locs, v.ids = t.ids, v.tasks = t.tasks,
           v.msg = t.msg \/ (t.msg > MaxMessageLen /\ v.msg = MaxMessageLen)
    PROVE  Like(v, t)
<1>1. MaxMessageLen \in Nat
      BY StoreAssumption
<1>2. CASE v.msg = t.msg
      BY <1>2, RecordEqual DEF Like
<1>3. CASE t.msg > MaxMessageLen /\ v.msg = MaxMessageLen
  <2> DEFINE u == [t EXCEPT !.msg = MaxMessageLen]
  <2>1. /\ u \in Record /\ u.done = t.done /\ u.loc = t.loc /\ u.msg = MaxMessageLen
        /\ u.locs = t.locs /\ u.ids = t.ids /\ u.tasks = t.tasks
        BY <1>1 DEF Record
  <2> HIDE DEF u
  <2>2. u = v
        BY <1>3, <2>1, RecordEqual
  <2> QED BY <1>3, <2>2 DEF Like, u
<1> QED BY <1>2, <1>3

\* The worker takes a record from stage to stage, whether it made it or read it.
LEMMA LikeAdvances ==
    ASSUME req \in Requests, NEW v
    PROVE  /\ Like(v, Stage0) \/ Like(v, Stage1) => Like(WithIDs(v, req), Stage1)
           /\ Like(v, Stage1) => Like(WithResults(v, req), Stage2)
<1> USE StagesAre
<1>1. ASSUME Like(v, Stage0) \/ Like(v, Stage1) PROVE Like(WithIDs(v, req), Stage1)
  <2> DEFINE w == WithIDs(v, req)
  <2>1. /\ v \in Record /\ v.done = Stage1.done /\ v.loc = Stage1.loc /\ v.locs = Stage1.locs
        /\ v.tasks = Stage1.tasks /\ v.ids \in {<<>>, Numbers(req.tasks)}
        /\ v.msg = Stage1.msg \/ (Stage1.msg > MaxMessageLen /\ v.msg = MaxMessageLen)
    <3>1. /\ Stage1.done = Stage0.done /\ Stage1.loc = Stage0.loc /\ Stage1.locs = Stage0.locs
          /\ Stage1.tasks = Stage0.tasks /\ Stage1.msg = Stage0.msg /\ Stage1.ids = Numbers(req.tasks)
          BY DEF Record
    <3>2. CASE Like(v, Stage0)
          BY <3>1, <3>2, LikeFields
    <3>3. CASE Like(v, Stage1)
          BY <3>1, <3>3, LikeFields
    <3> QED BY <1>1, <3>2, <3>3
  <2>2. TaskIDs(v)[req.tasks] = Numbers(req.tasks)
        BY <2>1, TaskIDsAre
  <2>3. w = [v EXCEPT !.ids = Numbers(req.tasks)]
        BY <2>2 DEF WithIDs
  <2>4. Numbers(req.tasks) \in Seq(Nat) /\ Stage1.ids = Numbers(req.tasks)
        BY NumbersAre DEF Record
  <2>5. /\ w \in Record /\ w.done = v.done /\ w.loc = v.loc /\ w.locs = v.locs /\ w.tasks = v.tasks
        /\ w.msg = v.msg /\ w.ids = Numbers(req.tasks)
        BY <2>1, <2>3, <2>4 DEF Record
  <2> HIDE DEF w
  <2>6. Like(w, Stage1)
        BY <2>1, <2>4, <2>5, LikeFromFields
  <2> QED BY <2>6 DEF w
<1>2. ASSUME Like(v, Stage1) PROVE Like(WithResults(v, req), Stage2)
  <2> DEFINE w == WithResults(v, req)
  <2>1. /\ v \in Record /\ v.loc = Stage1.loc /\ v.locs = Stage1.locs /\ v.ids = Stage1.ids
        /\ v.msg = Stage1.msg \/ (Stage1.msg > MaxMessageLen /\ v.msg = MaxMessageLen)
        BY <1>2, LikeFields
  <2>2. Numbers(req.tasks) \in Seq(Nat)
        BY NumbersAre
  <2>3. /\ w \in Record /\ w.done = TRUE /\ w.loc = v.loc /\ w.locs = v.locs /\ w.ids = v.ids
        /\ w.msg = v.msg /\ w.tasks = Numbers(req.tasks)
        BY <2>1, <2>2 DEF WithResults, Record
  <2>4. /\ Stage2.done = TRUE /\ Stage2.loc = Stage1.loc /\ Stage2.locs = Stage1.locs
        /\ Stage2.ids = Stage1.ids /\ Stage2.msg = Stage1.msg /\ Stage2.tasks = Numbers(req.tasks)
        BY DEF Record
  <2> HIDE DEF w
  <2>5. w.done = Stage2.done
        BY <2>3, <2>4, Zenon
  <2>6. /\ w.loc = Stage2.loc /\ w.locs = Stage2.locs /\ w.ids = Stage2.ids /\ w.tasks = Stage2.tasks
        /\ w.msg = Stage2.msg \/ (Stage2.msg > MaxMessageLen /\ w.msg = MaxMessageLen)
    <3>1. /\ w.loc = v.loc /\ w.locs = v.locs /\ w.ids = v.ids /\ w.msg = v.msg /\ w.tasks = Numbers(req.tasks)
          BY <2>3, Zenon
    <3>2. /\ Stage2.loc = Stage1.loc /\ Stage2.locs = Stage1.locs
          /\ Stage2.ids = Stage1.ids /\ Stage2.msg = Stage1.msg /\ Stage2.tasks = Numbers(req.tasks)
          BY <2>4, Zenon
    <3> QED BY <2>1, <3>1, <3>2
  <2>7. w \in Record /\ Stage2 \in Record
        BY <2>3, Zenon
  <2>8. Like(w, Stage2)
        BY <2>5, <2>6, <2>7, LikeFromFields
  <2> QED BY <2>8 DEF w
<1> QED BY <1>1, <1>2

-----------------------------------------------------------------------------
(* What is read back *)

LEMMA SizeType ==
    ASSUME NEW v \in Record
    PROVE  ObjectSize(v) \in Nat
<1>1. /\ v.loc \in Nat /\ v.msg \in Nat /\ v.locs \in Seq(Nat) /\ v.ids \in Seq(Nat) /\ v.tasks \in Seq(Nat)
      BY DEF Record
<1> DEFINE a == v.loc
           b == v.msg
           l == Len(v.locs)
           d == Len(v.ids)
           t == Len(v.tasks)
<1>2. a \in Nat /\ b \in Nat /\ l \in Nat /\ d \in Nat /\ t \in Nat
      BY <1>1
<1>3. ObjectSize(v) = a * l + d + (1 + b) * t
      BY DEF ObjectSize
<1> HIDE DEF a, b, l, d, t
<1>4. a * l \in Nat /\ (1 + b) * t \in Nat
      BY <1>2
<1> QED BY <1>2, <1>3, <1>4

\* Results that do not fit although their messages are short do not fit with
\* long ones either.
LEMMA HalvedLike ==
    ASSUME NEW t \in Record, NEW v, Like(v, t), Halved(Truncated(v))
    PROVE  Halved(Truncated(t))
<1>1. CASE v = t
      BY <1>1
<1>2. CASE t.msg > MaxMessageLen /\ v = [t EXCEPT !.msg = MaxMessageLen]
  <2>0. MaxMessageLen \in Nat /\ MaxEtcdObjectSize \in Nat
        BY StoreAssumption
  <2>1. /\ v \in Record /\ v.msg = MaxMessageLen /\ v.loc = t.loc
        /\ v.locs = t.locs /\ v.ids = t.ids /\ v.tasks = t.tasks
        BY <1>2, <2>0 DEF Record
  <2>2. Truncated(v) = v
        BY <2>0, <2>1 DEF Truncated
  <2>3. ObjectSize(v) \in Nat /\ ObjectSize(t) \in Nat
        BY <2>1, SizeType
  <2>4. ObjectSize(v) <= ObjectSize(t)
    <3> DEFINE a == t.msg
               b == v.msg
               n == Len(t.tasks)
               r == t.loc * Len(t.locs) + Len(t.ids)
    <3>1. a \in Nat /\ b \in Nat /\ n \in Nat /\ r \in Nat /\ b <= a
      <4>1. t.loc \in Nat /\ t.locs \in Seq(Nat) /\ t.ids \in Seq(Nat) /\ t.tasks \in Seq(Nat) /\ t.msg \in Nat
            BY DEF Record
      <4>2. Len(t.locs) \in Nat /\ Len(t.ids) \in Nat /\ Len(t.tasks) \in Nat
            BY <4>1
      <4>3. t.loc * Len(t.locs) \in Nat
            BY <4>1, <4>2
      <4> QED BY <1>2, <2>0, <2>1, <4>1, <4>2, <4>3
    <3>2. ObjectSize(v) = r + (1 + b) * n /\ ObjectSize(t) = r + (1 + a) * n
          BY <2>1 DEF ObjectSize
    <3> HIDE DEF a, b, n, r
    <3>3. (1 + b) * n <= (1 + a) * n /\ (1 + b) * n \in Nat /\ (1 + a) * n \in Nat
          BY <3>1
    <3> QED BY <3>1, <3>2, <3>3
  <2>5. ~ (ObjectSize(v) < MaxEtcdObjectSize)
        BY <2>2 DEF Halved, Fits
  <2>6. CASE ObjectSize(t) > MaxEtcdObjectSize
    <3>1. Truncated(t) = v
          BY <1>2, <2>6 DEF Truncated
    <3> QED BY <2>2, <3>1
  <2>7. CASE ~ (ObjectSize(t) > MaxEtcdObjectSize)
    <3>1. Truncated(t) = t
          BY <2>7 DEF Truncated
    <3>2. ~ (ObjectSize(t) < MaxEtcdObjectSize)
          BY <2>0, <2>3, <2>4, <2>5
    <3>3. ~Fits(t)
          BY <3>1, <3>2 DEF Fits
    <3> QED BY <2>1, <2>2, <3>1, <3>3 DEF Halved
  <2> QED BY <2>6, <2>7
<1> QED BY <1>1, <1>2 DEF Like

\* Pages that outlive their record are on the reaper's list.
Orphans ==
    first = None /\ dirty = {} =>
        /\ op[Reaper] = "end"   => DOMAIN page = {}
        /\ op[Reaper] = "erase" => DOMAIN page \subseteq erase

\* How far the transition is.  The record is stored before anybody else looks
\* for it, is finished by the worker, last, and is deleted after that; while
\* it is taken over there is no keep-alive goroutine.
Phase ==
    /\ owner \in {Worker, Keeper, None}
    /\ first # None /\ first.done => stage = "finish" /\ op[Worker] \in {"pages", "end"}
    /\ first = None => /\ known = {}
                       /\ \/ stage = "trigger" /\ op[Worker] \in {"store", "end"}
                          \/ stage = "finish" /\ op[Worker] \in {"pages", "end"}
    /\ stage \in {"trigger", "resume"} => op[Keeper] = "end"
    /\ stage = "resume" /\ op[Worker] = "join" => Worker \in known
    /\ op[Keeper] \in {"join", "tas", "pages"} => ~tr[Keeper].done
    /\ Keeper \in known /\ op[Keeper] \in {"join", "tas"} => first # None /\ ~first.done
    /\ stage \in {"trigger", "run"} /\ op[Worker] # "end" => ~tr[Worker].done
    /\ stage = "resume" /\ op[Worker] \in {"join", "plan"} => ~tr[Worker].done
    /\ stage = "finish" /\ op[Worker] # "end" => tr[Worker].done

\* A client that has seen no torn record holds the one of its stage.
Held ==
    /\ Worker \in sound /\ op[Worker] # "end" =>
          /\ stage = "trigger" => Like(tr[Worker], Stage0)
          /\ stage = "resume" /\ op[Worker] = "plan" => Like(tr[Worker], Stage0) \/ Like(tr[Worker], Stage1)
          /\ stage = "run"     => Like(tr[Worker], Stage1)
          /\ stage = "finish"  => Like(tr[Worker], Stage2)
    /\ Keeper \in sound /\ op[Keeper] \in {"tas", "pages"} =>
          Like(tr[Keeper], Stage0) \/ Like(tr[Keeper], Stage1)
    /\ Keeper \in known /\ op[Keeper] = "join" => tr[Keeper] = first
    /\ Worker \in known /\ op[Worker] = "join" /\ stage = "resume" => tr[Worker] = first

Faithful(v) == Like(v, Stage0) \/ Like(v, Stage1) \/ Like(v, Stage2)

\* The owner of the first entry is still writing the pages of it.
Writing == op[owner] = "pages" /\ ok[owner]

\* What is stored while it is clean: the first entry of a faithful record v,
\* the pages of v as far as its owner has written them, and no others.
StoredAs(v) ==
    /\ Faithful(v) /\ first = FirstOf(v)
    /\ Writing => tr[owner] = v
    /\ DOMAIN page \subseteq 0..Len(RestOf(v)) - 1
    /\ \A i \in 0..Len(RestOf(v)) - 1 :
          (Writing => i < nxt[owner]) => i \in DOMAIN page /\ page[i] = RestOf(v)[i + 1]

Stored == first # None /\ dirty = {} => \E v \in Record : StoredAs(v)

\* A record that fits is never spread, and every client that refreshes it has
\* seen it as it is.
AllFit == Fits(Stage0) /\ Fits(Stage1) /\ Fits(Stage2)

Single ==
    /\ DOMAIN page = {} /\ ~refused /\ dirty = {} /\ erase = {}
    /\ Worker \in sound
    /\ Keeper \in known /\ op[Keeper] = "tas" => Keeper \in sound
    /\ \A c \in {Worker, Keeper} : op[c] = "tas" => exact[c]
    /\ first \in {None, Stage0, Stage1, Truncated(Stage2)}
    /\ op[Keeper] \in {"join", "tas", "pages"} => tr[Keeper] \in {Stage0, Stage1}
    /\ op[Worker] # "end" =>
          /\ stage = "trigger" => tr[Worker] = Stage0
          /\ stage = "resume" /\ op[Worker] \in {"join", "plan"} => tr[Worker] \in {Stage0, Stage1}
          /\ stage = "run"     => tr[Worker] = Stage1
          /\ stage = "finish"  => tr[Worker] = Stage2

Small == AllFit => Single

\* When nothing is dirty and no write is under way, the pages stored are those
\* of the record.
LEMMA Whole ==
    ASSUME TypeInv, Phase, NEW v \in Record, StoredAs(v), first # None, Clean
    PROVE  /\ page \in [0..Len(RestOf(v)) - 1 -> Page]
           /\ \A i \in 0..Len(RestOf(v)) - 1 : page[i] = RestOf(v)[i + 1]
<1>1. owner \in {Worker, Keeper} /\ nxt[owner] \in Nat /\ page \in [DOMAIN page -> Page]
      BY Clients DEF TypeInv, TypeOK, Phase
<1>2. Len(RestOf(v)) \in Nat
      BY EntriesType
<1>3. ASSUME NEW i \in 0..Len(RestOf(v)) - 1 PROVE i \in DOMAIN page /\ page[i] = RestOf(v)[i + 1]
  <2>1. Writing => i < nxt[owner]
    <3> SUFFICES ASSUME Writing PROVE i < nxt[owner]
        OBVIOUS
    <3>1. AllWritten(owner) /\ tr[owner] = v
          BY <1>1 DEF Clean, Writing, StoredAs
    <3>2. nxt[owner] >= Len(RestOf(v))
          BY <3>1 DEF AllWritten
    <3> QED BY <1>1, <1>2, <3>2
  <2> QED BY <2>1 DEF StoredAs
<1>4. DOMAIN page = 0..Len(RestOf(v)) - 1
      BY <1>3 DEF StoredAs
<1> QED BY <1>1, <1>3, <1>4

\* A clean record that is not finished is read as it was.
LEMMA JoinedLike ==
    ASSUME TypeInv, Phase, Stored, first # None, Clean, ~first.done
    PROVE  Like(Joined(first, page), Stage0) \/ Like(Joined(first, page), Stage1)
<1>1. PICK v \in Record : StoredAs(v)
      BY DEF Stored, Clean
<1>2. /\ page \in [0..Len(RestOf(v)) - 1 -> Page]
      /\ \A i \in 0..Len(RestOf(v)) - 1 : page[i] = RestOf(v)[i + 1]
      BY <1>1, Whole
<1>3. first = FirstOf(v) /\ ~v.done
      BY <1>1, EntriesType DEF StoredAs
<1> DEFINE u == Joined(first, page)
<1>4. /\ u \in Record /\ u.done = v.done /\ u.loc = v.loc /\ u.msg = Truncated(v).msg
      /\ u.locs = v.locs /\ u.ids = v.ids
      /\ u.tasks = v.tasks \/ Halved(Truncated(v))
      BY <1>2, <1>3, RoundTrip
<1> HIDE DEF u
<1>5. req \in Requests
      BY DEF TypeInv, TypeOK
<1>6. /\ Stage0 \in Record /\ Stage1 \in Record /\ Stage2 \in Record /\ Stage2.done
      /\ Stage0.tasks = <<>> /\ Stage1.tasks = <<>>
      BY <1>5, StagesAre DEF Record
<1>7. PICK t \in {Stage0, Stage1} : Like(v, t)
  <2>1. ~Like(v, Stage2)
        BY <1>3, <1>6, LikeFields
  <2> QED BY <1>1, <2>1 DEF StoredAs, Faithful
<1>8. t \in Record /\ t.tasks = <<>>
      BY <1>6
<1>9. /\ v.done = t.done /\ v.loc = t.loc /\ v.locs = t.locs /\ v.ids = t.ids /\ v.tasks = t.tasks
      /\ v.msg = t.msg \/ (t.msg > MaxMessageLen /\ v.msg = MaxMessageLen)
      BY <1>7, <1>8, LikeFields
<1>10. MaxMessageLen \in Nat /\ PageSize \in Nat
      BY StoreAssumption
<1>11. u.msg = t.msg \/ (t.msg > MaxMessageLen /\ u.msg = MaxMessageLen)
  <2>1. Truncated(v).msg = v.msg \/ (v.msg > MaxMessageLen /\ Truncated(v).msg = MaxMessageLen)
        BY DEF Truncated, Record
  <2> QED BY <1>4, <1>9, <1>10, <2>1
<1>12. u.tasks = <<>>
  <2>1. ~Halved(Truncated(v))
    <3>1. Len(Truncated(v).tasks) = 0
          BY <1>8, <1>9, TruncatedType
    <3>2. PageSize \div 2 \in Nat
          BY <1>10
    <3> QED BY <3>1, <3>2 DEF Halved
  <2> QED BY <1>4, <1>8, <1>9, <2>1
<1>13. Like(u, t)
      BY <1>4, <1>8, <1>9, <1>11, <1>12, LikeFromFields
<1> QED BY <1>7, <1>13 DEF u

LEMMA ReadBackFollows ==
    ASSUME TypeInv, Phase, Stored
    PROVE  ReadBack
<1> SUFFICES ASSUME first # None, Clean
             PROVE  /\ Joined(first, page).locs = Numbers(req.locs)
                    /\ Joined(first, page).ids \in {<<>>, Numbers(req.tasks)}
                    /\ first.done => Joined(first, page).ids = Numbers(req.tasks)
                         /\ (Joined(first, page).tasks = Numbers(req.tasks) \/ Halved(Truncated(Stage2)))
    BY DEF ReadBack, Stage0, Stage1, Stage2
<1>1. PICK v \in Record : StoredAs(v)
      BY DEF Stored, Clean
<1>2. /\ page \in [0..Len(RestOf(v)) - 1 -> Page]
      /\ \A i \in 0..Len(RestOf(v)) - 1 : page[i] = RestOf(v)[i + 1]
      BY <1>1, Whole
<1>3. first = FirstOf(v) /\ (first.done <=> v.done)
      BY <1>1, EntriesType DEF StoredAs
<1> DEFINE u == Joined(first, page)
<1>4. u.locs = v.locs /\ u.ids = v.ids /\ (u.tasks = v.tasks \/ Halved(Truncated(v)))
      BY <1>2, <1>3, RoundTrip
<1> HIDE DEF u
<1>5. req \in Requests
      BY DEF TypeInv, TypeOK
<1>6. /\ Stage0 \in Record /\ Stage1 \in Record /\ Stage2 \in Record
      /\ Stage0.locs = Numbers(req.locs) /\ Stage1.locs = Numbers(req.locs) /\ Stage2.locs = Numbers(req.locs)
      /\ Stage0.ids = <<>> /\ Stage1.ids = Numbers(req.tasks) /\ Stage2.ids = Numbers(req.tasks)
      /\ Stage2.tasks = Numbers(req.tasks) /\ ~Stage0.done /\ ~Stage1.done
      BY <1>5, StagesAre DEF Record
<1>7. CASE Like(v, Stage0)
      BY <1>3, <1>4, <1>6, <1>7, LikeFields DEF u
<1>8. CASE Like(v, Stage1)
      BY <1>3, <1>4, <1>6, <1>8, LikeFields DEF u
<1>9. CASE Like(v, Stage2)
      BY <1>3, <1>4, <1>6, <1>9, LikeFields, HalvedLike DEF u
<1> QED BY <1>1, <1>7, <1>8, <1>9 DEF StoredAs, Faithful

-----------------------------------------------------------------------------
(* No orphans *)

LEMMA OrphansNext == TypeInv /\ Orphans /\ [Next]_vars => Orphans'
<1> SUFFICES ASSUME TypeInv, Orphans, [Next]_vars PROVE Orphans'
    OBVIOUS
<1>1. CASE UNCHANGED vars
      BY <1>1 DEF vars, local, Orphans
<1>3. ASSUME NEW c \in {Worker, Keeper}, StoreFirst(c) PROVE Orphans'
  <2>1. tr[c] \in Record
        BY <1>3, Clients DEF StoreFirst, TypeInv, Places
  <2>2. first' # None
        BY <1>3, <2>1, EntriesType, Clients DEF StoreFirst, SetFirst
  <2> QED BY <2>2 DEF Orphans
<1>4. ASSUME NEW c \in {Worker, Keeper}, GetFirst(c) \/ GetNothing(c) \/ GetPages(c) PROVE Orphans'
      BY <1>4, Clients DEF GetFirst, GetNothing, GetPages, Goto, Orphans, TypeInv, TypeOK
<1>5. ASSUME NEW c \in {Worker, Keeper}, TASTransition(c) PROVE Orphans'
  <2>1. tr[c] \in Record
        BY <1>5, Clients DEF TASTransition, TypeInv, Places
  <2>2. CASE SetFirst(c)
    <3>1. first' # None
          BY <2>1, <2>2, EntriesType, Clients DEF SetFirst
    <3> QED BY <3>1 DEF Orphans
  <2>3. CASE UNCHANGED <<first, owner, known, dirty>>
        BY <1>5, <2>3, Clients DEF TASTransition, StartPages, Goto, Orphans, TypeInv, TypeOK
  <2> QED BY <1>5, <2>2, <2>3 DEF TASTransition
<1>6. ASSUME NEW c \in {Worker, Keeper}, WritePage(c) PROVE Orphans'
  <2> SUFFICES ASSUME first' = None, dirty' = {}
               PROVE  /\ op'[Reaper] = "end"   => DOMAIN page' = {}
                      /\ op'[Reaper] = "erase" => DOMAIN page' \subseteq erase'
      BY DEF Orphans
  <2>1. first = None /\ owner # c /\ op' = op /\ erase' = erase
        BY <1>6, Clients DEF WritePage, TypeInv, TypeOK
  <2>2. nxt[c] \in DOMAIN page /\ dirty = {}
        BY <1>6, <2>1 DEF WritePage
  <2>3. DOMAIN page' = DOMAIN page
        BY <1>6, <2>2 DEF WritePage
  <2> QED BY <2>1, <2>2, <2>3 DEF Orphans
<1>7. CASE WorkerPlans
      BY <1>7, Clients DEF WorkerPlans, Orphans, TypeInv, TypeOK
<1>8. CASE KeeperLoops
      BY <1>8, Clients DEF KeeperLoops, Goto, Orphans, TypeInv, TypeOK
<1>9. CASE DeleteFirst
      BY <1>9, Clients DEF DeleteFirst, Goto, Orphans, TypeInv, TypeOK
<1>10. CASE ListPages
      BY <1>10, Clients DEF ListPages, DeletePages, Goto, Orphans, TypeInv, TypeOK
<1>11. CASE DeletePage
  <2>1. op[Reaper] = "erase" /\ first' = first /\ dirty' = dirty
        BY <1>11 DEF DeletePage
  <2>2. CASE erase = {}
        BY <1>11, <2>1, <2>2, Clients DEF DeletePage, Goto, Orphans, TypeInv, TypeOK
  <2>3. CASE erase # {}
    <3>1. PICK i \in erase : /\ page' = [j \in DOMAIN page \ {i} |-> page[j]]
                             /\ erase' = erase \ {i} /\ UNCHANGED op
          BY <1>11, <2>3 DEF DeletePage
    <3>2. DOMAIN page' = DOMAIN page \ {i}
          BY <3>1
    <3> QED BY <2>1, <3>1, <3>2 DEF Orphans
  <2> QED BY <2>2, <2>3
<1>12. CASE Crash({Worker, Keeper})
      BY <1>12, Clients DEF Crash, Orphans, TypeInv, TypeOK
<1>13. CASE Crash({Reaper})
  <2> SUFFICES ASSUME first' = None, dirty' = {} PROVE DOMAIN page' = {}
      BY <1>13, Clients DEF Crash, Orphans
  <2>1. /\ dirty = {} /\ first = None /\ page' = page
        /\ ~ (op[Reaper] = "list" /\ DOMAIN page # {}) /\ ~ (op[Reaper] = "erase" /\ erase # {})
        BY <1>13 DEF Crash
  <2> QED BY <2>1 DEF Orphans, TypeInv, Places
<1>14. CASE TakeOver
      BY <1>14, Clients DEF TakeOver, Orphans
<1> QED BY <1>1, <1>3, <1>4, <1>5, <1>6, <1>7, <1>8, <1>9, <1>10, <1>11, <1>12, <1>13, <1>14 DEF Next

\* DeleteTransition leaves no pages of a deleted transition behind: neither the
\* worker nor its keep-alive goroutine, late as they may be, adds a page that
\* the reaper does not find, unless it marks the record as dirty, and the
\* reaper erases all it has found unless it dies.
THEOREM NoOrphanPagesHolds == Spec => []NoOrphanPages
<1>1. Init => Orphans
  <2> SUFFICES ASSUME Init PROVE Orphans
      OBVIOUS
  <2>1. DOMAIN page = {}
        BY DEF Init
  <2> QED BY <2>1 DEF Orphans
<1>2. Orphans => NoOrphanPages
      BY DEF Orphans, NoOrphanPages
<1> QED BY <1>1, <1>2, OrphansNext, InitTypes, NextTypes, PTL DEF Spec

-----------------------------------------------------------------------------
(* How far the transition is *)

LEMMA PhaseInit == Init => Phase
<1> SUFFICES ASSUME Init PROVE Phase
    OBVIOUS
<1>1. op[Worker] = "store" /\ op[Keeper] = "end" /\ tr[Worker] = Stage0 /\ stage = "trigger"
      BY Clients DEF Init, Stage0
<1>2. ~Stage0.done
      BY DEF Stage0, Triggered
<1> QED BY <1>1, <1>2, Clients DEF Init, Phase

\* The first entry as c writes it.
LEMMA FirstWritten ==
    ASSUME TypeInv, NEW c \in {Worker, Keeper}, tr[c] \in Record, SetFirst(c)
    PROVE  first' \in Record /\ first' # None /\ first'.done = tr[c].done /\ known' = {} /\ owner' = c
BY EntriesType, Clients DEF SetFirst

LEMMA PhaseStoreFirst ==
    ASSUME TypeInv, Phase, NEW c \in {Worker, Keeper}, StoreFirst(c)
    PROVE  Phase'
<1>1. c = Worker /\ tr[c] \in Record /\ SetFirst(c)
      BY Clients DEF StoreFirst, TypeInv, Places
<1>2. first' # None /\ first'.done = tr[Worker].done /\ known' = {} /\ owner' = Worker
      BY <1>1, FirstWritten
<1>3. op' = [op EXCEPT ![Worker] = "pages"] /\ stage' = stage /\ tr' = tr /\ op[Worker] = "store"
      BY <1>1 DEF StoreFirst, StartPages, Goto
<1>4. stage \in {"trigger", "run", "finish"}
      BY <1>3 DEF TypeInv, TypeOK, Places
<1> QED BY <1>2, <1>3, <1>4, Clients DEF Phase, TypeInv, TypeOK

LEMMA PhaseGet ==
    ASSUME TypeInv, Phase, NEW c \in {Worker, Keeper}, GetFirst(c) \/ GetNothing(c)
    PROVE  Phase'
<1>1. CASE GetFirst(c)
      BY <1>1, Clients DEF GetFirst, Goto, Phase, TypeInv, TypeOK, Places
<1>2. CASE GetNothing(c)
      BY <1>2, Clients DEF GetNothing, Goto, Phase, TypeInv, TypeOK, Places
<1> QED BY <1>1, <1>2

LEMMA PhaseGetPages ==
    ASSUME TypeInv, Phase, NEW c \in {Worker, Keeper}, GetPages(c)
    PROVE  Phase'
<1>1. tr[c] \in Record
      BY DEF GetPages, TypeInv, Places
<1>2. Joined(tr[c], page) \in Record /\ Joined(tr[c], page).done = tr[c].done
  <2>1. PICK k \in Nat : DOMAIN page \subseteq 0..k
        BY DEF TypeInv, Bounded
  <2>2. page \in [DOMAIN page -> Page]
        BY DEF TypeInv, TypeOK
  <2> QED BY <1>1, <2>1, <2>2, JoinedType
<1>3. tr'[c].done = tr[c].done /\ \A d \in Client \ {c} : tr'[d] = tr[d]
      BY <1>2, Clients DEF GetPages, TypeInv, TypeOK
<1>4. /\ op' = [op EXCEPT ![c] = IF stage = "resume" /\ c = Worker THEN "plan" ELSE "tas"]
      /\ op[c] = "join" /\ UNCHANGED <<first, known, stage, owner>>
      BY DEF GetPages, Goto
<1> QED BY <1>3, <1>4, Clients DEF Phase, TypeInv, TypeOK, Places

LEMMA PhaseTAS ==
    ASSUME TypeInv, Phase, NEW c \in {Worker, Keeper}, TASTransition(c)
    PROVE  Phase'
<1>1. tr[c] \in Record /\ op[c] = "tas" /\ op' = [op EXCEPT ![c] = "pages"] /\ stage' = stage /\ tr' = tr
      BY DEF TASTransition, StartPages, Goto, TypeInv, Places
<1>2. CASE c \in known /\ exact[c]
  <2>1. first' # None /\ first'.done = tr[c].done /\ known' = {} /\ owner' = c
        BY <1>1, <1>2, FirstWritten DEF TASTransition
  <2>2. ~tr[c].done
        BY <1>1, Clients DEF Phase, TypeInv, TypeOK, Places
  <2> QED BY <1>1, <2>1, <2>2, Clients DEF Phase, TypeInv, TypeOK, Places
<1>3. CASE ~ (c \in known /\ exact[c])
  <2>1. UNCHANGED <<first, owner, known>>
        BY <1>3 DEF TASTransition
  <2> QED BY <1>1, <2>1, Clients DEF Phase, TypeInv, TypeOK, Places
<1> QED BY <1>2, <1>3

LEMMA PhasePlans ==
    ASSUME TypeInv, Phase, WorkerPlans
    PROVE  Phase'
<1>0. op[Worker] \in {"pages", "plan"} /\ tr[Worker] \in Record /\ req \in Requests
      BY Clients DEF WorkerPlans, AllWritten, TypeInv, TypeOK, Places
<1>1. UNCHANGED <<first, known, owner>>
      BY DEF WorkerPlans
<1>2. CASE op[Worker] = "pages" /\ ~ok[Worker] /\ MayRetry
  <2>1. op' = [op EXCEPT ![Worker] = "get"] /\ UNCHANGED <<stage, tr>> /\ stage = "run"
        BY <1>2 DEF WorkerPlans, TypeInv, TypeOK, Places
  <2> QED BY <1>1, <1>2, <2>1, Clients DEF Phase, TypeInv, TypeOK
<1>3. CASE ~ (op[Worker] = "pages" /\ ~ok[Worker] /\ MayRetry)
  <2>1. CASE stage \in {"trigger", "resume"}
    <3>1. /\ stage' = "run" /\ tr' = [tr EXCEPT ![Worker] = WithIDs(@, req)]
          /\ op' = [op EXCEPT ![Worker] = "get", ![Keeper] = IF @ = "end" THEN "get" ELSE @]
          BY <1>3, <2>1 DEF WorkerPlans
    <3>2. WithIDs(tr[Worker], req).done = tr[Worker].done
          BY <1>0 DEF WithIDs, Record
    <3>3. ~tr[Worker].done /\ first # None
          BY <1>0, <2>1 DEF Phase, TypeInv, Places
    <3> QED BY <1>1, <2>1, <3>1, <3>2, <3>3, Clients DEF Phase, TypeInv, TypeOK
  <2>2. CASE stage = "run"
    <3>1. /\ stage' = "finish" /\ tr' = [tr EXCEPT ![Worker] = WithResults(@, req)]
          /\ op' = [op EXCEPT ![Worker] = "store"]
          BY <1>3, <2>2 DEF WorkerPlans
    <3>2. WithResults(tr[Worker], req).done
          BY <1>0 DEF WithResults, Record
    <3> QED BY <1>1, <2>2, <3>1, <3>2, Clients DEF Phase, TypeInv, TypeOK
  <2>3. CASE stage = "finish"
    <3>1. stage' = stage /\ tr' = tr /\ op' = [op EXCEPT ![Worker] = "end"]
          BY <1>3, <2>3 DEF WorkerPlans
    <3> QED BY <1>1, <2>3, <3>1, Clients DEF Phase, TypeInv, TypeOK
  <2> QED BY <2>1, <2>2, <2>3 DEF TypeInv, TypeOK
<1> QED BY <1>2, <1>3

LEMMA PhaseNext == TypeInv /\ Phase /\ [Next]_vars => Phase'
<1> SUFFICES ASSUME TypeInv, Phase, [Next]_vars PROVE Phase'
    OBVIOUS
<1>1. CASE UNCHANGED vars
      BY <1>1 DEF vars, local, Phase
<1>2. ASSUME NEW c \in {Worker, Keeper},
             StoreFirst(c) \/ GetFirst(c) \/ GetNothing(c) \/ GetPages(c) \/ TASTransition(c)
      PROVE  Phase'
      BY <1>2, PhaseStoreFirst, PhaseGet, PhaseGetPages, PhaseTAS
<1>3. ASSUME NEW c \in {Worker, Keeper}, WritePage(c) PROVE Phase'
      BY <1>3 DEF WritePage, Phase
<1>4. CASE WorkerPlans
      BY <1>4, PhasePlans
<1>5. CASE KeeperLoops
  <2>1. tr'[Worker] = tr[Worker] /\ op' = [op EXCEPT ![Keeper] = "get"] /\ op[Keeper] = "pages"
        BY <1>5, Clients DEF KeeperLoops, AllWritten, Goto, Forget
  <2> QED BY <1>5, <2>1, Clients DEF KeeperLoops, Phase, TypeInv, TypeOK
<1>6. CASE DeleteFirst \/ ListPages
      BY <1>6, Clients DEF DeleteFirst, ListPages, Goto, Phase, TypeInv, TypeOK
<1>7. CASE DeletePage
  <2>1. op'[Worker] = op[Worker] /\ op'[Keeper] = op[Keeper]
    <3>1. op' = op \/ op' = [op EXCEPT ![Reaper] = "end"]
          BY <1>7 DEF DeletePage, Goto
    <3> QED BY <3>1, Clients DEF TypeInv, TypeOK
  <2> QED BY <1>7, <2>1, Clients DEF DeletePage, Phase
<1>8. CASE Crash({Reaper})
  <2>1. \A c \in {Worker, Keeper} : op'[c] = op[c] /\ tr'[c] = tr[c]
        BY <1>8, Clients DEF Crash, Forget
  <2> QED BY <1>8, <2>1, Clients DEF Crash, Phase
<1>9. CASE Crash({Worker, Keeper})
  <2>1. op'[Worker] = "end" /\ op'[Keeper] = "end"
        BY <1>9, Clients DEF Crash
  <2> QED BY <1>9, <2>1, Clients DEF Crash, Phase
<1>10. CASE TakeOver
      BY <1>10, Clients DEF TakeOver, Goto, Phase, TypeInv, TypeOK
<1> QED BY <1>1, <1>2, <1>3, <1>4, <1>5, <1>6, <1>7, <1>8, <1>9, <1>10 DEF Next

-----------------------------------------------------------------------------
(* What the clients hold, and what is stored *)

\* Only the worker starts a request; nothing changes it.
LEMMA SameRequest ==
    ASSUME [Next]_vars
    PROVE  req' = req
BY DEF Next, vars, local, StoreFirst, GetFirst, GetNothing, GetPages, TASTransition, WritePage, WorkerPlans,
       KeeperLoops, DeleteFirst, ListPages, DeletePage, Crash, TakeOver

LEMMA SameStages ==
    ASSUME req' = req
    PROVE  Stage0' = Stage0 /\ Stage1' = Stage1 /\ Stage2' = Stage2
BY DEF Stage0, Stage1, Stage2

LEMMA HeldInit == Init => Held
<1> SUFFICES ASSUME Init PROVE Held
    OBVIOUS
<1>1. op[Worker] = "store" /\ op[Keeper] = "end" /\ tr[Worker] = Stage0 /\ stage = "trigger" /\ known = {}
      BY Clients DEF Init, Stage0
<1>2. Like(Stage0, Stage0)
      BY DEF Like
<1> QED BY <1>1, <1>2 DEF Held

LEMMA HeldGetPages ==
    ASSUME TypeInv, Phase, Held, Stored, NEW c \in {Worker, Keeper}, GetPages(c)
    PROVE  Held'
<1>1. Stage0' = Stage0 /\ Stage1' = Stage1 /\ Stage2' = Stage2
      BY SameStages DEF GetPages
<1>2. /\ op[c] = "join" /\ UNCHANGED <<first, known, stage>>
      /\ op' = [op EXCEPT ![c] = IF stage = "resume" /\ c = Worker THEN "plan" ELSE "tas"]
      BY DEF GetPages, Goto
<1>3. CASE c = Worker /\ stage # "resume"
  <2>1. tr' = tr /\ sound' = sound
        BY <1>3, Clients DEF GetPages, TypeInv, TypeOK
  <2> QED BY <1>1, <1>2, <1>3, <2>1, Clients DEF Held, TypeInv, TypeOK, Like
<1>4. CASE ~ (c = Worker /\ stage # "resume")
  <2>1. tr' = [tr EXCEPT ![c] = Joined(tr[c], page)]
        BY <1>4 DEF GetPages
  <2>2. sound' = IF c \in known /\ Clean THEN sound \cup {c} ELSE sound \ {c}
        BY <1>4 DEF GetPages
  <2>3. c \in sound' => Like(tr'[c], Stage0) \/ Like(tr'[c], Stage1)
    <3> SUFFICES ASSUME c \in known, Clean
                 PROVE  Like(Joined(tr[c], page), Stage0) \/ Like(Joined(tr[c], page), Stage1)
        BY <2>1, <2>2, Clients DEF TypeInv, TypeOK
    <3>1. tr[c] = first
          BY <1>2, <1>4 DEF Held
    <3>2. first # None /\ ~first.done
      <4>1. CASE c = Keeper
            BY <1>2, <4>1 DEF Phase
      <4>2. CASE c = Worker
        <5>1. tr[c] \in Record /\ ~tr[c].done
              BY <1>2, <1>4, <4>2 DEF Phase, TypeInv, Places
        <5> QED BY <3>1, <5>1, Clients
      <4> QED BY <4>1, <4>2
    <3> QED BY <3>1, <3>2, JoinedLike
  <2>4. \A d \in Client \ {c} : tr'[d] = tr[d] /\ op'[d] = op[d] /\ (d \in sound' <=> d \in sound)
        BY <1>2, <2>1, <2>2
  <2>5. CASE c = Keeper
    <3>1. op'[Keeper] = "tas" /\ tr'[Worker] = tr[Worker] /\ op'[Worker] = op[Worker]
          /\ (Worker \in sound' <=> Worker \in sound)
          BY <1>2, <2>4, <2>5, Clients DEF TypeInv, TypeOK
    <3> QED BY <1>1, <1>2, <2>3, <2>5, <3>1 DEF Held, Like
  <2>6. CASE c = Worker
    <3>1. op'[Worker] = "plan" /\ stage = "resume" /\ tr'[Keeper] = tr[Keeper] /\ op'[Keeper] = op[Keeper]
          /\ (Keeper \in sound' <=> Keeper \in sound)
          BY <1>2, <1>4, <2>4, <2>6, Clients DEF TypeInv, TypeOK
    <3> QED BY <1>1, <1>2, <2>3, <2>6, <3>1 DEF Held, Like
  <2> QED BY <2>5, <2>6
<1> QED BY <1>3, <1>4

LEMMA HeldPlans ==
    ASSUME TypeInv, Phase, Held, WorkerPlans
    PROVE  Held'
<1>0. op[Worker] \in {"pages", "plan"} /\ tr[Worker] \in Record /\ req \in Requests
      BY Clients DEF WorkerPlans, AllWritten, TypeInv, TypeOK, Places
<1>1. Stage0' = Stage0 /\ Stage1' = Stage1 /\ Stage2' = Stage2
      BY SameStages DEF WorkerPlans
<1>2. UNCHANGED <<first, known, sound>>
      BY DEF WorkerPlans
<1>3. CASE op[Worker] = "pages" /\ ~ok[Worker] /\ MayRetry
  <2>1. op' = [op EXCEPT ![Worker] = "get"] /\ UNCHANGED <<stage, tr>>
        BY <1>3 DEF WorkerPlans
  <2>2. stage = "run"
        BY <1>3 DEF TypeInv, TypeOK, Places
  <2> QED BY <1>1, <1>2, <1>3, <2>1, <2>2, Clients DEF Held, Like, TypeInv, TypeOK
<1>4. CASE ~ (op[Worker] = "pages" /\ ~ok[Worker] /\ MayRetry)
  <2>1. CASE stage \in {"trigger", "resume"}
    <3>1. /\ stage' = "run" /\ tr' = [tr EXCEPT ![Worker] = WithIDs(@, req)]
          /\ op' = [op EXCEPT ![Worker] = "get", ![Keeper] = IF @ = "end" THEN "get" ELSE @]
          BY <1>4, <2>1 DEF WorkerPlans
    <3>2. Worker \in sound => Like(tr[Worker], Stage0) \/ Like(tr[Worker], Stage1)
          BY <1>0, <2>1 DEF Held, TypeInv, Places
    <3>3. Worker \in sound => Like(tr'[Worker], Stage1)
          BY <1>0, <3>1, <3>2, LikeAdvances, Clients DEF TypeInv, TypeOK
    <3>4. /\ op'[Worker] = "get" /\ op'[Keeper] \notin {"tas", "pages", "join"}
      <4>1. op[Keeper] = "end"
            BY <2>1 DEF Phase
      <4> QED BY <3>1, <4>1, Clients DEF TypeInv, TypeOK
    <3> QED BY <1>1, <1>2, <3>1, <3>3, <3>4 DEF Held, Like
  <2>2. CASE stage = "run"
    <3>1. /\ stage' = "finish" /\ tr' = [tr EXCEPT ![Worker] = WithResults(@, req)]
          /\ op' = [op EXCEPT ![Worker] = "store"]
          BY <1>4, <2>2 DEF WorkerPlans
    <3>2. Worker \in sound => Like(tr[Worker], Stage1)
          BY <1>0, <2>2 DEF Held
    <3>3. Worker \in sound => Like(tr'[Worker], Stage2)
          BY <1>0, <3>1, <3>2, LikeAdvances, Clients DEF TypeInv, TypeOK
    <3>4. op'[Worker] = "store" /\ op'[Keeper] = op[Keeper] /\ tr'[Keeper] = tr[Keeper]
          BY <3>1, Clients DEF TypeInv, TypeOK
    <3> QED BY <1>1, <1>2, <3>1, <3>3, <3>4 DEF Held, Like
  <2>3. CASE stage = "finish"
    <3>1. stage' = stage /\ tr' = tr /\ op' = [op EXCEPT ![Worker] = "end"]
          BY <1>4, <2>3 DEF WorkerPlans
    <3>2. op'[Worker] = "end" /\ op'[Keeper] = op[Keeper]
          BY <3>1, Clients DEF TypeInv, TypeOK
    <3> QED BY <1>1, <1>2, <3>1, <3>2 DEF Held, Like
  <2> QED BY <2>1, <2>2, <2>3 DEF TypeInv, TypeOK
<1> QED BY <1>3, <1>4

LEMMA HeldNext == TypeInv /\ Phase /\ Held /\ Stored /\ [Next]_vars => Held'
<1> SUFFICES ASSUME TypeInv, Phase, Held, Stored, [Next]_vars PROVE Held'
    OBVIOUS
<1>0. Stage0' = Stage0 /\ Stage1' = Stage1 /\ Stage2' = Stage2
      BY SameRequest, SameStages
<1>1. CASE UNCHANGED vars
      BY <1>0, <1>1 DEF vars, local, Held, Like
<1>2. ASSUME NEW c \in {Worker, Keeper}, StoreFirst(c) PROVE Held'
  <2>1. c = Worker /\ op[Worker] = "store" /\ known' = {} /\ tr' = tr /\ stage' = stage /\ sound' = sound
        /\ op' = [op EXCEPT ![Worker] = "pages"]
        BY <1>2, Clients DEF StoreFirst, SetFirst, StartPages, Goto, TypeInv, Places
  <2>2. stage # "resume"
        BY <2>1 DEF TypeInv, Places
  <2> QED BY <1>0, <2>1, <2>2, Clients DEF Held, Like, TypeInv, TypeOK
<1>3. ASSUME NEW c \in {Worker, Keeper}, GetFirst(c) PROVE Held'
  <2>1. /\ op[c] = "get" /\ first' = first /\ known' = known \cup {c} /\ stage' = stage /\ sound' = sound
        /\ tr' = [tr EXCEPT ![c] = IF c = Worker /\ stage # "resume" THEN @ ELSE first]
        /\ op' = [op EXCEPT ![c] = IF c = Keeper /\ first.done THEN "end" ELSE "join"]
        BY <1>3 DEF GetFirst, Goto
  <2>2. CASE c = Keeper
    <3>1. tr'[Worker] = tr[Worker] /\ op'[Worker] = op[Worker] /\ op'[Keeper] \in {"end", "join"}
          /\ tr'[Keeper] = first /\ (Worker \in known' <=> Worker \in known)
          BY <2>1, <2>2, Clients DEF TypeInv, TypeOK
    <3> QED BY <1>0, <2>1, <3>1 DEF Held, Like
  <2>3. CASE c = Worker
    <3>1. tr'[Keeper] = tr[Keeper] /\ op'[Keeper] = op[Keeper] /\ op'[Worker] = "join"
          /\ tr'[Worker] = (IF stage # "resume" THEN tr[Worker] ELSE first)
          /\ (Keeper \in known' <=> Keeper \in known)
          BY <2>1, <2>3, Clients DEF TypeInv, TypeOK
    <3> QED BY <1>0, <2>1, <2>3, <3>1 DEF Held, Like
  <2> QED BY <2>2, <2>3
<1>4. ASSUME NEW c \in {Worker, Keeper}, GetNothing(c) PROVE Held'
  <2>1. c = Keeper \/ stage = "resume"
        BY <1>4 DEF GetNothing, Phase, Goto
  <2>2. op'[c] = "end" /\ \A d \in {Worker, Keeper} \ {c} : op'[d] = op[d]
        BY <1>4, <2>1, Clients DEF GetNothing, Goto, TypeInv, TypeOK
  <2> QED BY <1>0, <1>4, <2>2, Clients DEF GetNothing, Held, Like
<1>5. ASSUME NEW c \in {Worker, Keeper}, GetPages(c) PROVE Held'
      BY <1>5, HeldGetPages
<1>6. ASSUME NEW c \in {Worker, Keeper}, TASTransition(c) PROVE Held'
  <2>1. /\ op[c] = "tas" /\ op' = [op EXCEPT ![c] = "pages"] /\ tr' = tr /\ stage' = stage /\ sound' = sound
        /\ \/ known' = {}
           \/ known' = known /\ first' = first
        BY <1>6 DEF TASTransition, StartPages, Goto, SetFirst
  <2>2. c = Worker => stage \in {"run"}
        BY <2>1 DEF TypeInv, TypeOK, Places
  <2> QED BY <1>0, <2>1, <2>2, Clients DEF Held, Like, TypeInv, TypeOK
<1>7. ASSUME NEW c \in {Worker, Keeper}, WritePage(c) PROVE Held'
      BY <1>0, <1>7 DEF WritePage, Held, Like
<1>8. CASE WorkerPlans
      BY <1>8, HeldPlans
<1>9. CASE KeeperLoops
  <2>1. /\ tr'[Worker] = tr[Worker] /\ op'[Worker] = op[Worker] /\ op'[Keeper] = "get"
        /\ UNCHANGED <<first, known, stage, sound>>
        BY <1>9, Clients DEF KeeperLoops, Goto, Forget, TypeInv, TypeOK
  <2> QED BY <1>0, <2>1 DEF Held, Like
<1>10. CASE DeleteFirst
  <2>1. UNCHANGED <<tr, stage, sound>> /\ known' = {} /\ op' = [op EXCEPT ![Reaper] = "list"]
        BY <1>10 DEF DeleteFirst, Goto
  <2>2. op'[Worker] = op[Worker] /\ op'[Keeper] = op[Keeper]
        BY <2>1, Clients DEF TypeInv, TypeOK
  <2> QED BY <1>0, <2>1, <2>2 DEF Held, Like
<1>11. CASE ListPages \/ DeletePage
  <2>1. op' = op \/ \E l : op' = [op EXCEPT ![Reaper] = l]
        BY <1>11 DEF ListPages, DeletePage, Goto
  <2>2. op'[Worker] = op[Worker] /\ op'[Keeper] = op[Keeper]
        BY <2>1, Clients DEF TypeInv, TypeOK
  <2> QED BY <1>0, <1>11, <2>2 DEF ListPages, DeletePage, Held, Like
<1>12. CASE Crash({Worker, Keeper})
  <2>1. op'[Worker] = "end" /\ op'[Keeper] = "end"
        BY <1>12, Clients DEF Crash
  <2> QED BY <1>0, <2>1 DEF Held
<1>13. CASE Crash({Reaper})
  <2>1. \A c \in {Worker, Keeper} : op'[c] = op[c] /\ tr'[c] = tr[c]
        BY <1>13, Clients DEF Crash, Forget
  <2> QED BY <1>0, <1>13, <2>1 DEF Crash, Held, Like
<1>14. CASE TakeOver
  <2>1. op'[Worker] = "get" /\ op'[Keeper] = op[Keeper] /\ stage' = "resume" /\ known' = {}
        /\ tr' = tr /\ sound' = sound
        BY <1>14, Clients DEF TakeOver, Goto, TypeInv, TypeOK
  <2> QED BY <1>0, <2>1 DEF Held, Like
<1> QED BY <1>1, <1>2, <1>3, <1>4, <1>5, <1>6, <1>7, <1>8, <1>9, <1>10, <1>11, <1>12, <1>13, <1>14 DEF Next

\* The reaper's work begins with a finished transition, and nobody stores the
\* first entry again after that.
Reaping == op[Reaper] # "end" => first = None /\ stage = "finish"

LEMMA ReapingNext == TypeInv /\ Phase /\ Reaping /\ [Next]_vars => Reaping'
<1> SUFFICES ASSUME TypeInv, Phase, Reaping, [Next]_vars PROVE Reaping'
    OBVIOUS
<1>1. CASE UNCHANGED vars
      BY <1>1 DEF vars, local, Reaping
<1>2. ASSUME NEW c \in {Worker, Keeper}, StoreFirst(c) PROVE Reaping'
  <2>1. c = Worker /\ op[Worker] = "store" /\ op'[Reaper] = op[Reaper] /\ stage' = stage
        BY <1>2, Clients DEF StoreFirst, StartPages, Goto, TypeInv, TypeOK, Places
  <2>2. op[Reaper] = "end"
        BY <2>1 DEF Reaping, Phase
  <2> QED BY <2>1, <2>2 DEF Reaping
<1>3. ASSUME NEW c \in {Worker, Keeper}, GetFirst(c) \/ GetNothing(c) \/ GetPages(c) \/ WritePage(c) PROVE Reaping'
  <2>1. op'[Reaper] = op[Reaper] /\ first' = first /\ stage' = stage
        BY <1>3, Clients DEF GetFirst, GetNothing, GetPages, WritePage, Goto, TypeInv, TypeOK
  <2> QED BY <2>1 DEF Reaping
<1>4. ASSUME NEW c \in {Worker, Keeper}, TASTransition(c) PROVE Reaping'
  <2>1. op'[Reaper] = op[Reaper] /\ stage' = stage
        BY <1>4, Clients DEF TASTransition, StartPages, Goto, TypeInv, TypeOK
  <2>2. CASE c \in known
        BY <2>1, <2>2 DEF Reaping, Phase
  <2>3. CASE c \notin known
        BY <1>4, <2>1, <2>3 DEF TASTransition, Reaping
  <2> QED BY <2>2, <2>3
<1>5. CASE WorkerPlans
  <2>1. op'[Reaper] = op[Reaper] /\ first' = first
        BY <1>5, Clients DEF WorkerPlans, TypeInv, TypeOK
  <2>2. stage = "finish" => stage' = "finish"
        BY <1>5 DEF WorkerPlans
  <2> QED BY <2>1, <2>2 DEF Reaping
<1>6. CASE KeeperLoops
      BY <1>6, Clients DEF KeeperLoops, Goto, Reaping, TypeInv, TypeOK
<1>7. CASE DeleteFirst
      BY <1>7 DEF DeleteFirst, Reaping, Phase
<1>8. CASE ListPages \/ DeletePage
      BY <1>8 DEF ListPages, DeletePage, Reaping
<1>9. CASE Crash({Worker, Keeper}) \/ Crash({Reaper})
      BY <1>9, Clients DEF Crash, Reaping
<1>10. CASE TakeOver
      BY <1>10, Clients DEF TakeOver, Goto, Reaping, TypeInv, TypeOK
<1> QED BY <1>1, <1>2, <1>3, <1>4, <1>5, <1>6, <1>7, <1>8, <1>9, <1>10 DEF Next

\* A client that has seen no torn record writes a faithful one, and leaves no
\* pages beyond those it will write.
LEMMA StoredBySetFirst ==
    ASSUME TypeInv, NEW c \in {Worker, Keeper}, tr[c] \in Record, SetFirst(c), req' = req,
           c \in sound => Faithful(tr[c]),
           UNCHANGED <<page, tr>>, op'[c] = "pages", ok'[c], nxt'[c] = 0
    PROVE  Stored'
<1> SUFFICES ASSUME dirty' = {} PROVE \E v \in Record : StoredAs(v)'
    BY DEF Stored
<1>1. c \in sound /\ DOMAIN page \subseteq 0..(Len(RestOf(tr[c])) - 1)
      BY DEF SetFirst
<1>2. first' = FirstOf(tr[c]) /\ owner' = c
      BY DEF SetFirst
<1>3. Faithful(tr[c])'
  <2>1. Stage0' = Stage0 /\ Stage1' = Stage1 /\ Stage2' = Stage2
        BY SameStages
  <2> QED BY <1>1, <2>1 DEF Faithful, Like
<1>4. Len(RestOf(tr[c])) \in Nat
      BY EntriesType
<1>5. \A i \in 0..Len(RestOf(tr[c])) - 1 : ~ (i < nxt'[c])
      BY <1>4
<1>6. StoredAs(tr[c])'
      BY <1>1, <1>2, <1>3, <1>5 DEF StoredAs, Writing
<1> QED BY <1>6

\* A step that writes neither the first entry nor pages, and does not cut the
\* owner short.
LEMMA StoredStays ==
    ASSUME TypeInv, Phase, Stored, req' = req, UNCHANGED <<first, page, owner>>,
           dirty' = {} => dirty = {},
           first # None /\ dirty' = {} /\ Writing' => Writing /\ tr'[owner] = tr[owner] /\ nxt'[owner] = nxt[owner],
           first # None /\ dirty' = {} /\ Writing /\ ~Writing' => AllWritten(owner)
    PROVE  Stored'
<1> SUFFICES ASSUME first # None, dirty' = {} PROVE \E v \in Record : StoredAs(v)'
    BY DEF Stored
<1>1. PICK v \in Record : StoredAs(v)
      BY DEF Stored
<1>2. Faithful(v)'
  <2>1. Stage0' = Stage0 /\ Stage1' = Stage1 /\ Stage2' = Stage2
        BY SameStages
  <2> QED BY <1>1, <2>1 DEF StoredAs, Faithful, Like
<1>3. owner \in {Worker, Keeper} /\ nxt[owner] \in Nat /\ Len(RestOf(v)) \in Nat
      BY EntriesType, Clients DEF Phase, TypeInv, TypeOK
<1>4. ASSUME NEW i \in 0..Len(RestOf(v)) - 1, Writing' => i < nxt'[owner]
      PROVE  i \in DOMAIN page /\ page[i] = RestOf(v)[i + 1]
  <2>1. CASE Writing'
        BY <1>1, <1>4, <2>1 DEF StoredAs
  <2>2. CASE Writing /\ ~Writing'
    <3>1. nxt[owner] >= Len(RestOf(v))
          BY <1>1, <2>2 DEF StoredAs, AllWritten
    <3>2. i < nxt[owner]
          BY <1>3, <3>1
    <3> QED BY <1>1, <3>2 DEF StoredAs
  <2>3. CASE ~Writing
        BY <1>1, <2>3 DEF StoredAs
  <2> QED BY <2>1, <2>2, <2>3
<1>5. Writing' => tr'[owner] = v
      BY <1>1 DEF StoredAs
<1>6. StoredAs(v)'
      BY <1>1, <1>2, <1>4, <1>5 DEF StoredAs
<1> QED BY <1>6

\* A page is written by the owner of the first entry, in turn, or is one that
\* was there already.
LEMMA StoredWritePage ==
    ASSUME TypeInv, Phase, Stored, NEW c \in {Worker, Keeper}, WritePage(c), req' = req
    PROVE  Stored'
<1> SUFFICES ASSUME first # None, dirty' = {} PROVE \E v \in Record : StoredAs(v)'
    BY DEF Stored, WritePage
<1> DEFINE p == RestOf(tr[c])[nxt[c] + 1]
<1>1. /\ op[c] = "pages" /\ nxt[c] < Len(RestOf(tr[c]))
      /\ page' = [i \in DOMAIN page \cup {nxt[c]} |-> IF i = nxt[c] THEN p ELSE page[i]]
      /\ dirty' = IF (owner = c /\ ok[c]) \/ (nxt[c] \in DOMAIN page /\ page[nxt[c]] = p)
                  THEN dirty ELSE dirty \cup {"foreign"}
      /\ nxt' = [nxt EXCEPT ![c] = @ + 1]
      /\ UNCHANGED <<first, op, tr, ok, owner>>
      BY DEF WritePage
<1>2. dirty = {} /\ ((owner = c /\ ok[c]) \/ (nxt[c] \in DOMAIN page /\ page[nxt[c]] = p))
      BY <1>1
<1>3. PICK v \in Record : StoredAs(v)
      BY <1>2 DEF Stored
<1>4. Faithful(v)'
  <2>1. Stage0' = Stage0 /\ Stage1' = Stage1 /\ Stage2' = Stage2
        BY SameStages
  <2> QED BY <1>3, <2>1 DEF StoredAs, Faithful, Like
<1>5. owner \in {Worker, Keeper} /\ nxt[owner] \in Nat /\ nxt[c] \in Nat /\ Len(RestOf(v)) \in Nat
      BY EntriesType, Clients DEF Phase, TypeInv, TypeOK
<1>6. Writing' <=> Writing
      BY <1>1 DEF Writing
<1>7. CASE owner = c /\ ok[c]
  <2>1. Writing /\ tr[c] = v /\ nxt'[owner] = nxt[c] + 1
        BY <1>1, <1>3, <1>7, Clients DEF Writing, StoredAs, TypeInv, TypeOK
  <2>2. p = RestOf(v)[nxt[c] + 1] /\ nxt[c] \in 0..Len(RestOf(v)) - 1
        BY <1>1, <1>5, <2>1
  <2>3. DOMAIN page' \subseteq 0..Len(RestOf(v)) - 1
        BY <1>1, <1>3, <2>2 DEF StoredAs
  <2>4. ASSUME NEW i \in 0..Len(RestOf(v)) - 1, i < nxt'[owner]
        PROVE  i \in DOMAIN page' /\ page'[i] = RestOf(v)[i + 1]
    <3>1. CASE i = nxt[c]
          BY <1>1, <2>2, <3>1
    <3>2. CASE i # nxt[c]
      <4>1. i < nxt[owner]
            BY <1>5, <1>7, <2>1, <2>4, <3>2
      <4>2. i \in DOMAIN page /\ page[i] = RestOf(v)[i + 1]
            BY <1>3, <4>1 DEF StoredAs
      <4> QED BY <1>1, <3>2, <4>2
    <3> QED BY <3>1, <3>2
  <2>5. StoredAs(v)'
        BY <1>1, <1>3, <1>4, <1>6, <2>1, <2>3, <2>4, <1>7 DEF StoredAs
  <2> QED BY <2>5
<1>8. CASE ~ (owner = c /\ ok[c])
  <2>1. nxt[c] \in DOMAIN page /\ page[nxt[c]] = p
        BY <1>2, <1>8
  <2>2. page' = page
    <3>1. DOMAIN page' = DOMAIN page /\ \A i \in DOMAIN page : page'[i] = page[i]
          BY <1>1, <2>1
    <3>2. page = [i \in DOMAIN page |-> page[i]] /\ page' = [i \in DOMAIN page' |-> page'[i]]
          BY <1>1 DEF TypeInv, TypeOK
    <3> QED BY <3>1, <3>2
  <2>3. Writing => owner # c /\ nxt'[owner] = nxt[owner]
        BY <1>1, <1>5, <1>8, Clients DEF Writing, TypeInv, TypeOK
  <2>4. StoredAs(v)'
        BY <1>1, <1>3, <1>4, <1>6, <2>2, <2>3 DEF StoredAs
  <2> QED BY <2>4
<1> QED BY <1>7, <1>8

LEMMA StoredNext == TypeInv /\ Phase /\ Reaping /\ Held /\ Stored /\ [Next]_vars => Stored'
<1> SUFFICES ASSUME TypeInv, Phase, Reaping, Held, Stored, [Next]_vars PROVE Stored'
    OBVIOUS
<1>0. req' = req
      BY SameRequest
<1>a. first # None => owner \in {Worker, Keeper}
      BY DEF TypeInv, TypeOK, Phase
<1>1. CASE UNCHANGED vars
      BY <1>0, <1>1, StoredStays DEF vars, local, Writing
<1>2. ASSUME NEW c \in {Worker, Keeper}, StoreFirst(c) PROVE Stored'
  <2>1. c = Worker /\ tr[c] \in Record /\ SetFirst(c) /\ UNCHANGED <<page, tr>> /\ op[c] = "store"
        BY <1>2, Clients DEF StoreFirst, TypeInv, Places
  <2>2. op'[c] = "pages" /\ ok'[c] /\ nxt'[c] = 0
        BY <1>2, Clients DEF StoreFirst, StartPages, Goto, TypeInv, TypeOK
  <2>3. c \in sound => Faithful(tr[c])
        BY <2>1 DEF Held, Faithful, TypeInv, TypeOK, Places
  <2> QED BY <1>0, <2>1, <2>2, <2>3, StoredBySetFirst
<1>3. ASSUME NEW c \in {Worker, Keeper}, GetFirst(c) PROVE Stored'
  <2>1. op[c] = "get" /\ op'[c] # "pages" /\ UNCHANGED <<first, page, owner, dirty, ok, nxt>>
        /\ \A d \in Client \ {c} : op'[d] = op[d] /\ tr'[d] = tr[d]
        BY <1>3, Clients DEF GetFirst, Goto, TypeInv, TypeOK
  <2> QED BY <1>0, <1>a, <2>1, Clients, StoredStays DEF Writing
<1>4. ASSUME NEW c \in {Worker, Keeper}, GetNothing(c) PROVE Stored'
      BY <1>4 DEF GetNothing, Stored
<1>5. ASSUME NEW c \in {Worker, Keeper}, GetPages(c) PROVE Stored'
  <2>1. op[c] = "join" /\ op'[c] # "pages" /\ UNCHANGED <<first, page, owner, dirty, ok, nxt>>
        /\ \A d \in Client \ {c} : op'[d] = op[d] /\ tr'[d] = tr[d]
        BY <1>5, Clients DEF GetPages, Goto, TypeInv, TypeOK
  <2> QED BY <1>0, <1>a, <2>1, Clients, StoredStays DEF Writing
<1>6. ASSUME NEW c \in {Worker, Keeper}, TASTransition(c) PROVE Stored'
  <2>1. /\ op[c] = "tas" /\ tr[c] \in Record /\ UNCHANGED <<page, tr>>
        /\ op'[c] = "pages" /\ nxt'[c] = 0 /\ (ok'[c] <=> c \in known /\ exact[c])
        /\ \A d \in Client \ {c} : op'[d] = op[d] /\ nxt'[d] = nxt[d] /\ (ok'[d] <=> ok[d])
        BY <1>6, Clients DEF TASTransition, StartPages, Goto, TypeInv, TypeOK, Places
  <2>2. CASE c \in known /\ exact[c]
    <3>1. SetFirst(c)
          BY <1>6, <2>2 DEF TASTransition
    <3>2. c \in sound => Faithful(tr[c])
          BY <2>1 DEF Held, Faithful, TypeInv, TypeOK, Places
    <3> QED BY <1>0, <2>1, <2>2, <3>1, <3>2, StoredBySetFirst
  <2>3. CASE ~ (c \in known /\ exact[c])
    <3>1. UNCHANGED <<first, owner, known, dirty>>
          BY <1>6, <2>3 DEF TASTransition
    <3> QED BY <1>0, <1>a, <2>1, <2>3, <3>1, Clients, StoredStays DEF Writing
  <2> QED BY <2>2, <2>3
<1>7. ASSUME NEW c \in {Worker, Keeper}, WritePage(c) PROVE Stored'
      BY <1>0, <1>7, StoredWritePage
<1>8. CASE WorkerPlans
  <2>1. /\ UNCHANGED <<first, page, owner, dirty, ok, nxt>> /\ (op[Worker] = "pages" => AllWritten(Worker))
        BY <1>8 DEF WorkerPlans, AllWritten
  <2>2. op'[Worker] # "pages" /\ (op'[Keeper] = "pages" <=> op[Keeper] = "pages")
        /\ tr'[Keeper] = tr[Keeper]
    <3>1. Worker \in Client /\ Keeper \in Client /\ Worker # Keeper
          BY Clients
    <3>2. op'[Worker] # "pages"
          BY <1>8, <3>1 DEF WorkerPlans, TypeInv, TypeOK
    <3>3. /\ op'[Keeper] = op[Keeper] \/ (op[Keeper] = "end" /\ op'[Keeper] = "get")
          /\ tr'[Keeper] = tr[Keeper]
          BY <1>8, <3>1 DEF WorkerPlans, TypeInv, TypeOK
    <3> QED BY <3>2, <3>3
  <2> QED BY <1>0, <1>a, <2>1, <2>2, StoredStays DEF Writing
<1>9. CASE KeeperLoops
  <2>1. /\ UNCHANGED <<first, page, owner, dirty>> /\ AllWritten(Keeper) /\ op'[Keeper] # "pages"
        /\ op'[Worker] = op[Worker] /\ tr'[Worker] = tr[Worker] /\ nxt'[Worker] = nxt[Worker]
        /\ (ok'[Worker] <=> ok[Worker])
        BY <1>9, Clients DEF KeeperLoops, Goto, Forget, TypeInv, TypeOK
  <2> QED BY <1>0, <1>a, <2>1, StoredStays DEF Writing
<1>10. CASE DeleteFirst
      BY <1>10 DEF DeleteFirst, Stored
<1>11. CASE ListPages
  <2>1. /\ UNCHANGED <<first, page, owner, dirty, ok, nxt, tr>> /\ op'[Worker] = op[Worker] /\ op'[Keeper] = op[Keeper]
        BY <1>11, Clients DEF ListPages, Goto, TypeInv, TypeOK
  <2> QED BY <1>0, <1>a, <2>1, StoredStays DEF Writing
<1>12. CASE DeletePage
  <2>1. first' = first /\ op[Reaper] = "erase"
        BY <1>12 DEF DeletePage
  <2>2. first = None
        BY <2>1 DEF Reaping
  <2> QED BY <2>1, <2>2 DEF Stored
<1>13. CASE Crash({Worker, Keeper})
  <2>1. /\ UNCHANGED <<first, page, owner>> /\ op'[Worker] = "end" /\ op'[Keeper] = "end"
        BY <1>13, Clients DEF Crash
  <2>2. /\ dirty' = {} => dirty = {}
        /\ dirty' = {} => \A c \in {Worker, Keeper} : op[c] = "pages" /\ ok[c] => ~ (nxt[c] < Len(RestOf(tr[c])))
        BY <1>13 DEF Crash
  <2>3. ASSUME first # None, dirty' = {}, Writing PROVE AllWritten(owner)
    <3>1. tr[owner] \in Record
          BY <1>a, <2>3 DEF Writing, TypeInv, Places
    <3>2. nxt[owner] \in Nat /\ Len(RestOf(tr[owner])) \in Nat
          BY <1>a, <2>3, <3>1, EntriesType, Clients DEF TypeInv, TypeOK
    <3> QED BY <1>a, <2>2, <2>3, <3>2 DEF Writing, AllWritten
  <2> QED BY <1>0, <1>a, <2>1, <2>2, <2>3, StoredStays DEF Writing
<1>14. CASE Crash({Reaper})
  <2>1. /\ UNCHANGED <<first, page, owner>> /\ (dirty' = {} => dirty = {})
        /\ \A c \in {Worker, Keeper} : op'[c] = op[c] /\ tr'[c] = tr[c] /\ nxt'[c] = nxt[c] /\ (ok'[c] <=> ok[c])
        BY <1>14, Clients DEF Crash, Forget
  <2> QED BY <1>0, <1>a, <2>1, StoredStays DEF Writing
<1>15. CASE TakeOver
  <2>1. /\ UNCHANGED <<first, page, owner, dirty, ok, nxt, tr>> /\ op'[Worker] = "get" /\ op'[Keeper] = op[Keeper]
        /\ op[Worker] = "end"
        BY <1>15, Clients DEF TakeOver, Goto, TypeInv, TypeOK
  <2> QED BY <1>0, <1>a, <2>1, StoredStays DEF Writing
<1> QED BY <1>1, <1>2, <1>3, <1>4, <1>5, <1>6, <1>7, <1>8, <1>9, <1>10, <1>11, <1>12, <1>13, <1>14, <1>15 DEF Next

\* What GET reads of a stored transition while nothing is torn is what the
\* worker stored, whole and in order (GetTransition, sortTransitionPages), for
\* every page size, entry size and request; but for results that fall between
\* the two page sizes.
THEOREM ReadBackHolds == Spec => []ReadBack
<1>1. Init => Stored /\ Reaping
      BY Clients DEF Init, Stored, Reaping
<1>2. TypeInv /\ Phase /\ Stored => ReadBack
      BY ReadBackFollows
<1> QED BY <1>1, <1>2, InitTypes, NextTypes, PhaseInit, PhaseNext, ReapingNext, HeldInit, HeldNext, StoredNext,
           PTL DEF Spec

-----------------------------------------------------------------------------
(* Records that fit *)

LEMMA FittingStages ==
    ASSUME req \in Requests, AllFit
    PROVE  /\ FirstOf(Stage0) = Stage0 /\ FirstOf(Stage1) = Stage1 /\ FirstOf(Stage2) = Truncated(Stage2)
           /\ RestOf(Stage0) = <<>> /\ RestOf(Stage1) = <<>> /\ RestOf(Stage2) = <<>>
           /\ Truncated(Stage2).done /\ ~Stage0.done /\ ~Stage1.done
           /\ Truncated(Stage2) # None /\ Stage0 # None /\ Stage1 # None
<1> USE StagesAre
<1>1. Stage0.tasks = <<>> /\ Stage1.tasks = <<>> /\ Stage2.done /\ ~Stage1.done
      BY DEF Record
<1>2. ASSUME NEW v \in Record, v.tasks = <<>>, Fits(v) PROVE Truncated(v) = v
  <2>1. Len(v.tasks) = 0
        BY <1>2
  <2>2. ObjectSize(v) \in Nat /\ ObjectSize(Truncated(v)) \in Nat /\ MaxEtcdObjectSize \in Nat
        BY SizeType, TruncatedType, StoreAssumption
  <2>3. SUFFICES ASSUME ObjectSize(v) > MaxEtcdObjectSize, v.msg > MaxMessageLen PROVE FALSE
        BY DEF Truncated
  <2>4. ObjectSize(Truncated(v)) = ObjectSize(v)
    <3>1. /\ Truncated(v).loc = v.loc /\ Truncated(v).locs = v.locs
          /\ Truncated(v).ids = v.ids /\ Truncated(v).tasks = v.tasks
          BY DEF Truncated, Record
    <3> DEFINE w == Truncated(v)
               r == v.loc * Len(v.locs) + Len(v.ids)
    <3>2. ObjectSize(w) = r + (1 + w.msg) * 0 /\ ObjectSize(v) = r + (1 + v.msg) * 0
          BY <2>1, <3>1 DEF ObjectSize
    <3>3. w.msg \in Nat /\ v.msg \in Nat
          BY TruncatedType DEF Record
    <3> HIDE DEF w, r
    <3>4. (1 + w.msg) * 0 = 0 /\ (1 + v.msg) * 0 = 0
          BY <3>3
    <3>5. ObjectSize(w) = ObjectSize(v)
          BY <3>2, <3>4
    <3> QED BY <3>5 DEF w
  <2> QED BY <1>2, <2>2, <2>3, <2>4 DEF Fits
<1>3. Truncated(Stage0) = Stage0 /\ Truncated(Stage1) = Stage1
      BY <1>1, <1>2 DEF AllFit
<1>4. Truncated(Stage2).done /\ Truncated(Stage2) # None /\ Stage0 # None /\ Stage1 # None
      BY <1>1, TruncatedType, Clients
<1> QED BY <1>1, <1>3, <1>4 DEF FirstOf, RestOf, AllFit

LEMMA WithIDsOfStages ==
    ASSUME req \in Requests
    PROVE  WithIDs(Stage0, req) = Stage1 /\ WithIDs(Stage1, req) = Stage1 /\ WithResults(Stage1, req) = Stage2
<1> USE StagesAre
<1>1. Stage1.ids = Numbers(req.tasks)
      BY DEF Record
<1>2. TaskIDs(Stage1)[req.tasks] = Numbers(req.tasks)
      BY <1>1, TaskIDsAre
<1>3. WithIDs(Stage1, req) = [Stage1 EXCEPT !.ids = Numbers(req.tasks)]
      BY <1>2 DEF WithIDs
<1>4. [Stage1 EXCEPT !.ids = Numbers(req.tasks)] = Stage1
      BY <1>1 DEF Record
<1> QED BY <1>3, <1>4 DEF Stage1, Stage2

\* Under way, a client writes no pages, and what it writes is what is expected.
LEMMA SingleWrites ==
    ASSUME TypeInv, Phase, AllFit, Single, NEW c \in {Worker, Keeper},
           op[c] \in {"store", "tas", "pages"}
    PROVE  tr[c] \in {Stage0, Stage1, Stage2} /\ RestOf(tr[c]) = <<>>
           /\ FirstOf(tr[c]) \in {Stage0, Stage1, Truncated(Stage2)}
<1>1. req \in Requests
      BY DEF TypeInv, TypeOK
<1>2. tr[c] \in {Stage0, Stage1, Stage2}
  <2>1. CASE c = Keeper
        BY <2>1, Clients DEF Single, TypeInv, Places
  <2>2. CASE c = Worker
        BY <2>2 DEF Single, TypeInv, TypeOK, Places
  <2> QED BY <2>1, <2>2
<1> QED BY <1>1, <1>2, FittingStages

\* The first entry is written: nothing becomes dirty.
LEMMA SingleSetFirst ==
    ASSUME TypeInv, Phase, AllFit, Single, NEW c \in {Worker, Keeper}, SetFirst(c),
           op[c] \in {"store", "tas"}, op[c] = "tas" => c \in known
    PROVE  first' \in {Stage0, Stage1, Truncated(Stage2)} /\ dirty' = {} /\ known' = {}
<1>1. c \in sound
      BY Clients DEF Single, TypeInv, Places
<1>2. FirstOf(tr[c]) \in {Stage0, Stage1, Truncated(Stage2)}
      BY SingleWrites
<1> QED BY <1>1, <1>2 DEF SetFirst, Single

LEMMA SingleClean ==
    ASSUME TypeInv, Phase, AllFit, Single
    PROVE  Clean
<1>1. ASSUME NEW c \in {Worker, Keeper}, op[c] = "pages" PROVE AllWritten(c)
  <2>1. Len(RestOf(tr[c])) = 0 /\ nxt[c] \in Nat
        BY <1>1, SingleWrites, Clients DEF TypeInv, TypeOK
  <2> QED BY <1>1, <2>1 DEF AllWritten
<1> QED BY <1>1 DEF Clean, Single

LEMMA SingleNext == TypeInv /\ Phase /\ AllFit /\ Single /\ [Next]_vars => Single'
<1> SUFFICES ASSUME TypeInv, Phase, AllFit, Single, [Next]_vars PROVE Single'
    OBVIOUS
<1>0. /\ Stage0' = Stage0 /\ Stage1' = Stage1 /\ Stage2' = Stage2
      /\ Truncated(Stage2)' = Truncated(Stage2)
      BY SameRequest, SameStages DEF Truncated, ObjectSize
<1>r. req \in Requests
      BY DEF TypeInv, TypeOK
<1>1. CASE UNCHANGED vars
      BY <1>0, <1>1 DEF vars, local, Single
<1>2. ASSUME NEW c \in {Worker, Keeper}, StoreFirst(c) PROVE Single'
  <2>1. c = Worker /\ SetFirst(c) /\ op[c] = "store" /\ op' = [op EXCEPT ![Worker] = "pages"]
        /\ UNCHANGED <<page, stage, tr, exact, erase, sound, refused>>
        BY <1>2, Clients DEF StoreFirst, StartPages, Goto, TypeInv, Places
  <2>2. first' \in {Stage0, Stage1, Truncated(Stage2)} /\ dirty' = {} /\ known' = {}
        BY <2>1, SingleSetFirst
  <2>3. op'[Worker] = "pages" /\ op'[Keeper] = op[Keeper]
        BY <2>1, Clients DEF TypeInv, TypeOK
  <2>4. stage # "resume"
        BY <2>1 DEF TypeInv, Places
  <2> QED BY <1>0, <2>1, <2>2, <2>3, <2>4 DEF Single
<1>3. ASSUME NEW c \in {Worker, Keeper}, GetFirst(c) PROVE Single'
  <2>1. /\ op[c] = "get" /\ first # None
        /\ UNCHANGED <<first, page, stage, exact, erase, dirty, sound, refused>>
        /\ known' = known \cup {c}
        /\ tr' = [tr EXCEPT ![c] = IF c = Worker /\ stage # "resume" THEN @ ELSE first]
        /\ op' = [op EXCEPT ![c] = IF c = Keeper /\ first.done THEN "end" ELSE "join"]
        BY <1>3 DEF GetFirst, Goto
  <2>2. ~first.done => first \in {Stage0, Stage1}
        BY <1>r, <2>1, FittingStages DEF Single
  <2>3. CASE c = Keeper
    <3>1. /\ tr'[Worker] = tr[Worker] /\ op'[Worker] = op[Worker] /\ tr'[Keeper] = first
          /\ op'[Keeper] = (IF first.done THEN "end" ELSE "join")
          BY <2>1, <2>3, Clients DEF TypeInv, TypeOK
    <3> QED BY <1>0, <2>1, <2>2, <3>1 DEF Single
  <2>4. CASE c = Worker
    <3>1. /\ tr'[Keeper] = tr[Keeper] /\ op'[Keeper] = op[Keeper] /\ op'[Worker] = "join"
          /\ tr'[Worker] = (IF stage # "resume" THEN tr[Worker] ELSE first)
          /\ (Keeper \in known' <=> Keeper \in known)
          BY <2>1, <2>4, Clients DEF TypeInv, TypeOK
    <3>2. stage = "resume" => ~first.done
          BY <2>1 DEF Phase
    <3> QED BY <1>0, <2>1, <2>2, <2>4, <3>1, <3>2 DEF Single
  <2> QED BY <2>3, <2>4
<1>4. ASSUME NEW c \in {Worker, Keeper}, GetNothing(c) PROVE Single'
  <2>1. c = Keeper \/ stage = "resume"
        BY <1>4 DEF GetNothing, Phase, Goto
  <2>2. op'[c] = "end" /\ \A d \in {Worker, Keeper} \ {c} : op'[d] = op[d]
        BY <1>4, <2>1, Clients DEF GetNothing, Goto, TypeInv, TypeOK
  <2> QED BY <1>0, <1>4, <2>2, Clients DEF GetNothing, Single
<1>5. ASSUME NEW c \in {Worker, Keeper}, GetPages(c) PROVE Single'
  <2>1. /\ op[c] = "join" /\ UNCHANGED <<first, page, known, stage, erase, dirty, refused>>
        /\ tr' = [tr EXCEPT ![c] = IF c = Worker /\ stage # "resume" THEN @ ELSE Joined(@, page)]
        /\ op' = [op EXCEPT ![c] = IF stage = "resume" /\ c = Worker THEN "plan" ELSE "tas"]
        BY <1>5 DEF GetPages, Goto
  <2>2. tr' = tr
    <3>1. Joined(tr[c], page) = tr[c]
          BY DEF Joined, Single
    <3> QED BY <2>1, <3>1, Clients DEF TypeInv, TypeOK
  <2>3. exact'[c] /\ \A d \in {Worker, Keeper} \ {c} : (exact'[d] <=> exact[d])
    <3>1. Copies(first, page)
          BY DEF Copies, Single
    <3>2. exact' = [exact EXCEPT ![c] = c \in known => Copies(first, page)]
          BY <1>5 DEF GetPages
    <3> QED BY <3>1, <3>2, Clients DEF TypeInv, TypeOK
  <2>4. Worker \in sound' /\ (Keeper \in known => Keeper \in sound' \/ c # Keeper)
        /\ (c # Keeper => (Keeper \in sound' <=> Keeper \in sound))
    <3>1. Clean
          BY SingleClean
    <3>2. c = Worker /\ stage = "resume" => c \in known
          BY <2>1 DEF Phase
    <3>3. sound' = IF c = Worker /\ stage # "resume" THEN sound
                   ELSE IF c \in known /\ Clean THEN sound \cup {c} ELSE sound \ {c}
          BY <1>5 DEF GetPages
    <3>4. Worker \in sound
          BY DEF Single
    <3> QED BY <3>1, <3>2, <3>3, <3>4, Clients
  <2>5. CASE c = Keeper
    <3>1. op'[Worker] = op[Worker] /\ op'[Keeper] = "tas"
          BY <2>1, <2>5, Clients DEF TypeInv, TypeOK
    <3> QED BY <1>0, <2>1, <2>2, <2>3, <2>4, <2>5, <3>1, Clients DEF Single
  <2>6. CASE c = Worker
    <3>1. op'[Keeper] = op[Keeper] /\ op'[Worker] = (IF stage = "resume" THEN "plan" ELSE "tas")
          BY <2>1, <2>6, Clients DEF TypeInv, TypeOK
    <3> QED BY <1>0, <2>1, <2>2, <2>3, <2>4, <2>6, <3>1, Clients DEF Single
  <2> QED BY <2>5, <2>6
<1>6. ASSUME NEW c \in {Worker, Keeper}, TASTransition(c) PROVE Single'
  <2>1. /\ op[c] = "tas" /\ op' = [op EXCEPT ![c] = "pages"] /\ exact[c]
        /\ UNCHANGED <<page, stage, tr, exact, erase, sound>>
        BY <1>6 DEF TASTransition, StartPages, Goto, Single
  <2>2. ~refused'
        BY <1>6, <2>1 DEF TASTransition, Single
  <2>3. first' \in {None, Stage0, Stage1, Truncated(Stage2)} /\ dirty' = {} /\ known' \subseteq known
    <3>1. CASE c \in known
          BY <1>6, <2>1, <3>1, SingleSetFirst DEF TASTransition
    <3>2. CASE c \notin known
          BY <1>6, <3>2 DEF TASTransition, Single
    <3> QED BY <3>1, <3>2
  <2>4. op'[c] = "pages" /\ \A d \in {Worker, Keeper} \ {c} : op'[d] = op[d]
        BY <2>1, Clients DEF TypeInv, TypeOK
  <2>5. c = Worker => stage = "run"
        BY <2>1 DEF TypeInv, TypeOK, Places
  <2> QED BY <1>0, <2>1, <2>2, <2>3, <2>4, <2>5, Clients DEF Single
<1>7. ASSUME NEW c \in {Worker, Keeper}, WritePage(c) PROVE Single'
  <2>1. RestOf(tr[c]) = <<>> /\ nxt[c] \in Nat /\ nxt[c] < Len(RestOf(tr[c]))
        BY <1>7, SingleWrites, Clients DEF WritePage, TypeInv, TypeOK
  <2> QED BY <2>1
<1>8. CASE WorkerPlans
  <2>0. op[Worker] \in {"pages", "plan"}
        BY <1>8 DEF WorkerPlans, AllWritten
  <2>1. UNCHANGED <<first, page, known, exact, erase, dirty, sound, refused>>
        BY <1>8 DEF WorkerPlans
  <2>2. CASE op[Worker] = "pages" /\ ~ok[Worker] /\ MayRetry
    <3>1. op' = [op EXCEPT ![Worker] = "get"] /\ UNCHANGED <<stage, tr>>
          BY <1>8, <2>2 DEF WorkerPlans
    <3>2. op'[Worker] = "get" /\ op'[Keeper] = op[Keeper]
          BY <3>1, Clients DEF TypeInv, TypeOK
    <3> QED BY <1>0, <2>0, <2>1, <3>1, <3>2 DEF Single
  <2>3. CASE ~ (op[Worker] = "pages" /\ ~ok[Worker] /\ MayRetry)
    <3>1. CASE stage \in {"trigger", "resume"}
      <4>1. /\ stage' = "run" /\ tr' = [tr EXCEPT ![Worker] = WithIDs(@, req)]
            /\ op' = [op EXCEPT ![Worker] = "get", ![Keeper] = IF @ = "end" THEN "get" ELSE @]
            BY <1>8, <2>3, <3>1 DEF WorkerPlans
      <4>2. tr[Worker] \in {Stage0, Stage1}
            BY <2>0, <3>1 DEF Single, TypeInv, Places
      <4>3. tr'[Worker] = Stage1 /\ tr'[Keeper] = tr[Keeper]
            BY <1>r, <4>1, <4>2, WithIDsOfStages, Clients DEF TypeInv, TypeOK
      <4>4. op'[Worker] = "get" /\ op'[Keeper] \in {"get", op[Keeper]}
            BY <4>1, Clients DEF TypeInv, TypeOK
      <4> QED BY <1>0, <2>1, <4>1, <4>3, <4>4 DEF Single
    <3>2. CASE stage = "run"
      <4>1. /\ stage' = "finish" /\ tr' = [tr EXCEPT ![Worker] = WithResults(@, req)]
            /\ op' = [op EXCEPT ![Worker] = "store"]
            BY <1>8, <2>3, <3>2 DEF WorkerPlans
      <4>2. tr[Worker] = Stage1
            BY <2>0, <3>2 DEF Single
      <4>3. tr'[Worker] = Stage2 /\ tr'[Keeper] = tr[Keeper]
            BY <1>r, <4>1, <4>2, WithIDsOfStages, Clients DEF TypeInv, TypeOK
      <4>4. op'[Worker] = "store" /\ op'[Keeper] = op[Keeper]
            BY <4>1, Clients DEF TypeInv, TypeOK
      <4> QED BY <1>0, <2>1, <4>1, <4>3, <4>4 DEF Single
    <3>3. CASE stage = "finish"
      <4>1. stage' = stage /\ tr' = tr /\ op' = [op EXCEPT ![Worker] = "end"]
            BY <1>8, <2>3, <3>3 DEF WorkerPlans
      <4>2. op'[Worker] = "end" /\ op'[Keeper] = op[Keeper]
            BY <4>1, Clients DEF TypeInv, TypeOK
      <4> QED BY <1>0, <2>1, <4>1, <4>2 DEF Single
    <3> QED BY <3>1, <3>2, <3>3 DEF TypeInv, TypeOK
  <2> QED BY <2>2, <2>3
<1>9. CASE KeeperLoops
  <2>1. /\ tr'[Worker] = tr[Worker] /\ op'[Worker] = op[Worker] /\ op'[Keeper] = "get"
        /\ (exact'[Worker] <=> exact[Worker])
        /\ UNCHANGED <<first, page, known, stage, erase, dirty, sound, refused>>
        BY <1>9, Clients DEF KeeperLoops, Goto, Forget, TypeInv, TypeOK
  <2> QED BY <1>0, <2>1 DEF Single
<1>10. CASE DeleteFirst
  <2>1. UNCHANGED <<tr, stage, sound, page, exact, erase, refused>> /\ known' = {} /\ first' = None /\ dirty' = {}
        /\ op' = [op EXCEPT ![Reaper] = "list"]
        BY <1>10 DEF DeleteFirst, Goto
  <2>2. op'[Worker] = op[Worker] /\ op'[Keeper] = op[Keeper]
        BY <2>1, Clients DEF TypeInv, TypeOK
  <2> QED BY <1>0, <2>1, <2>2 DEF Single
<1>11. CASE ListPages
  <2>1. /\ UNCHANGED <<first, page, known, stage, tr, exact, dirty, sound, refused>> /\ erase' = DOMAIN page
        /\ op'[Worker] = op[Worker] /\ op'[Keeper] = op[Keeper]
        BY <1>11, Clients DEF ListPages, DeletePages, Goto, TypeInv, TypeOK
  <2> QED BY <1>0, <2>1 DEF Single
<1>12. CASE DeletePage
  <2>1. erase = {}
        BY DEF Single
  <2>2. /\ UNCHANGED <<first, page, erase, known, stage, tr, exact, dirty, sound, refused>>
        /\ op'[Worker] = op[Worker] /\ op'[Keeper] = op[Keeper]
        BY <1>12, <2>1, Clients DEF DeletePage, Goto, TypeInv, TypeOK
  <2> QED BY <1>0, <2>2 DEF Single
<1>13. ASSUME NEW C \in {{Worker, Keeper}, {Reaper}}, Crash(C) PROVE Single'
  <2>1. dirty' = {} /\ erase' = {} /\ UNCHANGED <<first, page, known, stage, sound, refused>>
    <3>1. ASSUME NEW c \in C, op[c] = "pages" PROVE ~ (nxt[c] < Len(RestOf(tr[c])))
      <4>1. c \in {Worker, Keeper}
            BY <3>1, Clients DEF TypeInv, Places
      <4>2. Len(RestOf(tr[c])) = 0 /\ nxt[c] \in Nat
            BY <3>1, <4>1, SingleWrites, Clients DEF TypeInv, TypeOK
      <4> QED BY <4>2
    <3> QED BY <1>13, <3>1 DEF Crash, Single
  <2>2. CASE C = {Worker, Keeper}
    <3>1. op'[Worker] = "end" /\ op'[Keeper] = "end"
          BY <1>13, <2>2, Clients DEF Crash
    <3> QED BY <1>0, <2>1, <3>1, Clients DEF Single
  <2>3. CASE C = {Reaper}
    <3>1. \A c \in {Worker, Keeper} : op'[c] = op[c] /\ tr'[c] = tr[c] /\ (exact'[c] <=> exact[c])
          BY <1>13, <2>3, Clients DEF Crash, Forget
    <3> QED BY <1>0, <2>1, <3>1 DEF Single
  <2> QED BY <2>2, <2>3
<1>14. CASE TakeOver
  <2>1. /\ op'[Worker] = "get" /\ op'[Keeper] = op[Keeper] /\ stage' = "resume" /\ known' = {}
        /\ UNCHANGED <<first, page, tr, exact, erase, dirty, sound, refused>>
        BY <1>14, Clients DEF TakeOver, Goto, TypeInv, TypeOK
  <2> QED BY <1>0, <2>1 DEF Single
<1> QED BY <1>1, <1>2, <1>3, <1>4, <1>5, <1>6, <1>7, <1>8, <1>9, <1>10, <1>11, <1>12, <1>13, <1>14 DEF Next

\* A record that fits into one entry at every stage has no pages, and no
\* refresh or store of it is refused unless another client has stored it since
\* it was read (TASTransition), whatever pods die and are replaced.
THEOREM SmallIsWholeHolds == Spec => []SmallIsWhole
<1>1. Init => Small
  <2> SUFFICES ASSUME Init, AllFit PROVE Single
      BY DEF Small
  <2>1. op[Worker] = "store" /\ op[Keeper] = "end" /\ tr[Worker] = Stage0 /\ DOMAIN page = {} /\ sound = Client
        BY Clients DEF Init, Stage0
  <2> QED BY <2>1, Clients DEF Init, Single
<1>2. TypeInv /\ Phase /\ Small /\ [Next]_vars => Small'
  <2> SUFFICES ASSUME TypeInv, Phase, Small, [Next]_vars, AllFit' PROVE Single'
      BY DEF Small
  <2>1. AllFit
        BY SameRequest, SameStages DEF AllFit, Fits, Truncated, ObjectSize
  <2> QED BY <2>1, SingleNext DEF Small
<1>3. Small => SmallIsWhole
      BY DEF Small, Single, AllFit, SmallIsWhole, Stage0, Stage1, Stage2
<1> QED BY <1>1, <1>2, <1>3, InitTypes, NextTypes, PhaseInit, PhaseNext, PTL DEF Spec

=============================================================================
