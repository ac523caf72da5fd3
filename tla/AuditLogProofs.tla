--------------------------- MODULE AuditLogProofs ---------------------------
(***************************************************************************)
(* Theorems about the audit log, for any number of instances, batches,     *)
(* rows and restarts, and any room in the store.                           *)
(***************************************************************************)
EXTENDS AuditLog, FiniteSetTheorems, WellFoundedInduction, TLAPS

----------------------------------------------------------------------------
(* The invariants                                                          *)

Done(x) == persist[x].at = "done"

(* A row of a batch that nobody has logged is nowhere, and only a row      *)
(* whose persisting is under way belongs to an instance.                   *)
RowLocals(x) ==
  /\ persist[x].at \notin {"reading", "writing"} => persist[x].on = None
  /\ persist[x].at # "idle" => \E b \in logged : x \in Range(RowsOf[b])
  /\ persist[x].at \notin {"writing"} => persist[x].read = <<>>

TypeInv ==
  /\ TypeOK
  /\ \A x \in Rows : RowLocals(x) /\ Len(persist[x].read) <= MaxRows
  /\ \A i \in Instances : Len(loading[i].rows) <= MaxRows

(* Whether the row x is in an array that is full with others without it.   *)
Kept(x, rows) == x \in Range(rows) \/ Len(rows) = MaxRows

(* Rows that are written together contest each other; what is in the       *)
(* array uncontested is in what each writer has read as well.              *)
KeptInv ==
  /\ \A x, y \in Persisting : x # y => x \in contested
  /\ \A x \in Rows : Done(x) /\ x \notin contested =>
       /\ Kept(x, recent)
       /\ \A y \in Persisting : Kept(x, persist[y].read)

(* An array of rows that have been persisted, each once.                   *)
OfPersisted(rows) == IsInjective(rows) /\ \A x \in Range(rows) : Done(x)

(* Whoever holds a copy of the array holds persisted rows, each once; in   *)
(* memory are rows that have been logged, each once.                       *)
RowsInv ==
  /\ OfPersisted(recent)
  /\ \A x \in Rows : OfPersisted(persist[x].read)
  /\ \A i \in Instances :
       /\ OfPersisted(loading[i].rows)
       /\ IsInjective(entries[i])
       /\ \A x \in Range(entries[i]) : persist[x].at # "idle"

(* The k-th row from the end.                                              *)
FromEnd(rows, k) == rows[Len(rows) + 1 - k]

(* As far as a listing may reach, memory ends with one's own rows.         *)
OwnInv ==
  \A i \in Instances : \A k \in 1..MaxRows :
    k <= Len(own[i]) =>
      k <= Len(entries[i]) /\ FromEnd(entries[i], k) = FromEnd(own[i], k)

----------------------------------------------------------------------------
(* Sequences                                                               *)

(* A set of natural numbers has a least element: of the intervals from 0   *)
(* to each of them, one contains no smaller one.                           *)
LEMMA LeastExists ==
  ASSUME NEW T \in SUBSET Nat, T # {}
  PROVE  \E t \in T : \A u \in T : t <= u
<1> DEFINE R == StrictSubsetOrdering(Nat)
           initial == {0..t : t \in T}
<1>1. IsWellFoundedOn(R, FiniteSubsetsOf(Nat))
  BY FS_StrictSubsetOrderingWellFounded
<1>2. initial \subseteq FiniteSubsetsOf(Nat) /\ initial # {}
  <2>1. ASSUME NEW t \in T PROVE 0..t \in FiniteSubsetsOf(Nat)
    <3>1. IsFiniteSet(0..t) /\ 0..t \in SUBSET Nat
      BY FS_Interval
    <3> QED
      BY <3>1 DEF FiniteSubsetsOf
  <2> QED
    BY <2>1
<1>3. \E x \in initial : \A y \in initial : <<y, x>> \notin R
  <2> HIDE DEF R, initial
  <2> QED
    BY <1>1, <1>2, WFMin
<1>4. PICK t \in T : \A u \in T : <<0..u, 0..t>> \notin R
  BY <1>3
<1>5. ASSUME NEW u \in T, u < t PROVE FALSE
  <2>1. 0..u \subseteq 0..t /\ t \in 0..t /\ t \notin 0..u
    BY <1>5
  <2>2. 0..u \in SUBSET Nat /\ 0..t \in SUBSET Nat
    OBVIOUS
  <2> QED
    BY <1>4, <2>1, <2>2 DEF StrictSubsetOrdering
<1> QED
  BY <1>5

(* The last n rows: how many they are, and which.                          *)
LEMMA LastRowsAre ==
  ASSUME NEW rows \in Seq(Rows), NEW n \in Nat,
         NEW size, size = IF Len(rows) > n THEN n ELSE Len(rows)
  PROVE  /\ LastRows(rows, n) \in Seq(Rows)
         /\ Len(LastRows(rows, n)) = size
         /\ \A k \in 1..size : LastRows(rows, n)[k] = rows[Len(rows) - size + k]
<1> DEFINE from == IF Len(rows) > n THEN Len(rows) - n + 1 ELSE 1
<1>1. /\ from \in 1..(Len(rows) + 1) /\ size \in Nat
      /\ Len(rows) - from + 1 = size
  OBVIOUS
<1>0. from = Len(rows) - size + 1
  OBVIOUS
<1>2. LastRows(rows, n) = SubSeq(rows, from, Len(rows))
  BY DEF LastRows
<1> HIDE DEF from
<1>3. LastRows(rows, n) = [k \in 1..size |-> rows[from + k - 1]]
  BY <1>1, <1>2
<1>4. ASSUME NEW k \in 1..size
      PROVE  /\ from + k - 1 = Len(rows) - size + k
             /\ rows[from + k - 1] \in Rows
  <2>1. Len(rows) \in Nat /\ from + k - 1 \in 1..Len(rows)
    BY <1>1
  <2>2. from + k - 1 = Len(rows) - size + k
    BY <1>0, <1>1, <2>1
  <2>3. \A j \in 1..Len(rows) : rows[j] \in Rows
    OBVIOUS
  <2> QED
    BY <2>1, <2>2, <2>3
<1>5. LastRows(rows, n) \in Seq(Rows) /\ Len(LastRows(rows, n)) = size
  BY <1>1, <1>3, <1>4
<1> QED
  BY <1>3, <1>4, <1>5

(* They are as many from the end as they were.                             *)
LEMMA LastFromEnd ==
  ASSUME NEW rows \in Seq(Rows), NEW n \in Nat
  PROVE  \A k \in 1..n : k <= Len(rows) =>
           /\ k <= Len(LastRows(rows, n))
           /\ FromEnd(LastRows(rows, n), k) = FromEnd(rows, k)
<1> DEFINE size == IF Len(rows) > n THEN n ELSE Len(rows)
<1>1. /\ Len(LastRows(rows, n)) = size
      /\ \A k \in 1..size : LastRows(rows, n)[k] = rows[Len(rows) - size + k]
  BY LastRowsAre
<1> HIDE DEF size
<1>2. size \in Nat /\ size <= Len(rows) /\ (size = n \/ size = Len(rows))
  BY DEF size
<1>3. ASSUME NEW k \in 1..n, k <= Len(rows)
      PROVE  k <= size /\ FromEnd(LastRows(rows, n), k) = FromEnd(rows, k)
  <2>1. k <= size /\ size + 1 - k \in 1..size
    BY <1>2, <1>3
  <2>2. LastRows(rows, n)[size + 1 - k] = rows[Len(rows) - size + (size + 1 - k)]
    BY <2>1, <1>1
  <2>3. Len(rows) - size + (size + 1 - k) = Len(rows) + 1 - k
    BY <1>2, <2>1
  <2> QED
    BY <2>1, <2>2, <2>3, <1>1 DEF FromEnd
<1> QED
  BY <1>1, <1>3

(* They are among the rows, and each once where the rows are.              *)
LEMMA LastRowsOf ==
  ASSUME NEW rows \in Seq(Rows), NEW n \in Nat
  PROVE  /\ Range(LastRows(rows, n)) \subseteq Range(rows)
         /\ Len(rows) <= n => Range(LastRows(rows, n)) = Range(rows)
         /\ IsInjective(rows) => IsInjective(LastRows(rows, n))
<1> DEFINE size == IF Len(rows) > n THEN n ELSE Len(rows)
           last == LastRows(rows, n)
<1>1. /\ last \in Seq(Rows) /\ Len(last) = size
      /\ \A k \in 1..size : last[k] = rows[Len(rows) - size + k]
  BY LastRowsAre
<1> HIDE DEF size, last
<1>2. size \in Nat /\ size <= Len(rows) /\ (Len(rows) <= n => size = Len(rows))
  BY DEF size
<1>3. DOMAIN last = 1..size /\ DOMAIN rows = 1..Len(rows)
  BY <1>1
<1>4. \A k \in 1..size : Len(rows) - size + k \in 1..Len(rows)
  BY <1>2
<1>5. Range(last) \subseteq Range(rows)
  BY <1>1, <1>3, <1>4 DEF Range
<1>6. Len(rows) <= n => Range(last) = Range(rows)
  <2> SUFFICES ASSUME Len(rows) <= n, NEW k \in 1..Len(rows)
               PROVE  rows[k] \in Range(last)
    BY <1>3, <1>5 DEF Range
  <2>1. k \in 1..size /\ Len(rows) - size + k = k
    BY <1>2
  <2> QED
    BY <2>1, <1>1, <1>3 DEF Range
<1>7. IsInjective(rows) => IsInjective(last)
  <2> SUFFICES ASSUME IsInjective(rows), NEW j \in 1..size, NEW k \in 1..size,
                      last[j] = last[k]
               PROVE  j = k
    BY <1>3 DEF IsInjective
  <2>1. Len(rows) - size + j = Len(rows) - size + k
    BY <1>1, <1>3, <1>4 DEF IsInjective
  <2> QED
    BY <2>1, <1>2
<1> QED
  BY <1>5, <1>6, <1>7 DEF last

(* One sequence behind another.                                            *)
LEMMA Behind ==
  ASSUME NEW front \in Seq(Rows), NEW back \in Seq(Rows)
  PROVE  /\ front \o back \in Seq(Rows)
         /\ Len(front \o back) = Len(front) + Len(back)
         /\ Range(front \o back) = Range(front) \cup Range(back)
         /\ IsInjective(front) /\ IsInjective(back)
              /\ Range(front) \cap Range(back) = {} => IsInjective(front \o back)
         /\ \A k \in 1..Len(back) : FromEnd(front \o back, k) = FromEnd(back, k)
         /\ \A k \in (Len(back) + 1)..(Len(back) + Len(front)) :
              FromEnd(front \o back, k) = FromEnd(front, k - Len(back))
<1> DEFINE all == front \o back
           m == Len(front)
           n == Len(back)
<1>1. /\ all \in Seq(Rows) /\ Len(all) = m + n
      /\ \A k \in 1..m : all[k] = front[k]
      /\ \A k \in 1..n : all[m + k] = back[k]
  OBVIOUS
<1>2. /\ m \in Nat /\ n \in Nat
      /\ DOMAIN front = 1..m /\ DOMAIN back = 1..n
  OBVIOUS
<1>3. DOMAIN all = 1..(m + n)
  BY <1>1
<1> HIDE DEF all, m, n
<1>4. \A k \in 1..(m + n) : \/ k \in 1..m /\ all[k] = front[k]
                            \/ k - m \in 1..n /\ all[k] = back[k - m]
  <2> SUFFICES ASSUME NEW k \in 1..(m + n), k \notin 1..m
               PROVE  k - m \in 1..n /\ all[k] = back[k - m]
    BY <1>1
  <2>1. k - m \in 1..n /\ m + (k - m) = k
    BY <1>2
  <2> QED
    BY <2>1, <1>1
<1>5. Range(all) \subseteq Range(front) \cup Range(back)
  BY <1>2, <1>3, <1>4 DEF Range
<1>6. Range(front) \subseteq Range(all)
  BY <1>1, <1>2, <1>3 DEF Range
<1>7. Range(back) \subseteq Range(all)
  <2>1. \A k \in 1..n : m + k \in 1..(m + n)
    BY <1>2
  <2> QED
    BY <2>1, <1>1, <1>2, <1>3 DEF Range
<1>8. ASSUME IsInjective(front), IsInjective(back),
             Range(front) \cap Range(back) = {}
      PROVE  IsInjective(all)
  <2> SUFFICES ASSUME NEW j \in 1..(m + n), NEW k \in 1..(m + n), all[j] = all[k]
               PROVE  j = k
    BY <1>3 DEF IsInjective
  <2>1. CASE j \in 1..m /\ k \in 1..m
    BY <2>1, <1>1, <1>2, <1>8 DEF IsInjective
  <2>2. CASE j \notin 1..m /\ k \notin 1..m
    <3>1. j - m = k - m
      BY <2>2, <1>2, <1>4, <1>8 DEF IsInjective
    <3> QED
      BY <3>1, <1>2
  <2>3. CASE j \in 1..m /\ k \notin 1..m
    <3>1. front[j] \in Range(front) /\ back[k - m] \in Range(back)
      BY <2>3, <1>2, <1>4 DEF Range
    <3> QED
      BY <2>3, <3>1, <1>1, <1>4, <1>8
  <2>4. CASE j \notin 1..m /\ k \in 1..m
    <3>1. front[k] \in Range(front) /\ back[j - m] \in Range(back)
      BY <2>4, <1>2, <1>4 DEF Range
    <3> QED
      BY <2>4, <3>1, <1>1, <1>4, <1>8
  <2> QED
    BY <2>1, <2>2, <2>3, <2>4
<1>9. ASSUME NEW k \in 1..n PROVE FromEnd(all, k) = FromEnd(back, k)
  <2>1. n + 1 - k \in 1..n /\ m + n + 1 - k = m + (n + 1 - k)
    BY <1>2
  <2> QED
    BY <2>1, <1>1 DEF FromEnd, n
<1>10. ASSUME NEW k \in (n + 1)..(n + m)
       PROVE  FromEnd(all, k) = FromEnd(front, k - n)
  <2>1. m + 1 - (k - n) \in 1..m /\ m + n + 1 - k = m + 1 - (k - n)
    BY <1>2
  <2> QED
    BY <2>1, <1>1 DEF FromEnd, m
<1> QED
  BY <1>1, <1>5, <1>6, <1>7, <1>8, <1>9, <1>10 DEF all, m, n

(* A row goes behind those kept so far, or is left out.                    *)
Step(rows, known, k, kept) ==
  IF KeyOf[rows[k]] \in known THEN kept ELSE Append(kept, rows[k])

(* The recursive function of Fresh, up to its n-th row.                    *)
Filters(f, rows, known, n) ==
  f = [k \in 0..n |-> IF k = 0 THEN <<>> ELSE Step(rows, known, k, f[k - 1])]

(* There is such a function: if there were none for some n, then there     *)
(* would be none for a least n, but the one for n - 1 can be extended.     *)
LEMMA FilterExists ==
  ASSUME NEW rows \in Seq(Rows), NEW known
  PROVE  \A n \in Nat : \E f : Filters(f, rows, known, n)
<1> DEFINE T == {n \in Nat : ~\E f : Filters(f, rows, known, n)}
<1> SUFFICES ASSUME T # {}
             PROVE  FALSE
  OBVIOUS
<1>1. PICK n \in T : \A m \in T : n <= m
  <2> HIDE DEF T
  <2>1. T \in SUBSET Nat
    BY DEF T
  <2> QED
    BY <2>1, LeastExists
<1>2. CASE n = 0
  <2> DEFINE g == [k \in 0..0 |-> <<>>]
  <2>1. Filters(g, rows, known, 0)
    BY DEF Filters
  <2> QED
    BY <1>2, <2>1
<1>3. CASE n # 0
  <2>1. n - 1 \in Nat /\ n - 1 \notin T
    BY <1>1, <1>3
  <2>2. PICK f : Filters(f, rows, known, n - 1)
    BY <2>1
  <2> DEFINE g == [k \in 0..n |-> IF k = n THEN Step(rows, known, n, f[n - 1])
                                  ELSE f[k]]
  <2>3. \A k \in 0..n : k # n => k \in 0..(n - 1)
    BY <2>1
  <2>4. ASSUME NEW k \in 0..n
        PROVE  g[k] = IF k = 0 THEN <<>> ELSE Step(rows, known, k, g[k - 1])
    <3>1. CASE k = 0
      BY <3>1, <1>3, <2>2, <2>1 DEF Filters
    <3>2. CASE k # 0
      <4>1. k - 1 \in 0..(n - 1) /\ k - 1 # n /\ k - 1 \in 0..n
        BY <3>2, <2>1
      <4>2. g[k - 1] = f[k - 1]
        BY <4>1
      <4>3. CASE k = n
        BY <4>2, <4>3, <3>2
      <4>4. CASE k # n
        <5>1. k \in 0..(n - 1)
          BY <4>4, <2>3
        <5>2. f[k] = Step(rows, known, k, f[k - 1])
          BY <5>1, <3>2, <2>2 DEF Filters
        <5> QED
          BY <5>2, <4>2, <4>4, <3>2
      <4> QED
        BY <4>3, <4>4
    <3> QED
      BY <3>1, <3>2
  <2>5. Filters(g, rows, known, n)
    <3>1. g = [k \in 0..n |-> g[k]]
      OBVIOUS
    <3> HIDE DEF g
    <3> QED
      BY <3>1, <2>4 DEF Filters
  <2> QED
    BY <1>1, <2>5
<1> QED
  BY <1>2, <1>3

(* Whatever it has kept of the first k rows is among them, unknown, and    *)
(* there once if it was there once.                                        *)
LEMMA FilterKeeps ==
  ASSUME NEW rows \in Seq(Rows), NEW known, NEW f,
         Filters(f, rows, known, Len(rows))
  PROVE  \A k \in 0..Len(rows) :
           /\ f[k] \in Seq(Rows)
           /\ \A x \in Range(f[k]) :
                KeyOf[x] \notin known /\ \E j \in 1..k : x = rows[j]
           /\ IsInjective(rows) => IsInjective(f[k])
<1> DEFINE Good(k) == /\ f[k] \in Seq(Rows)
                      /\ \A x \in Range(f[k]) :
                           KeyOf[x] \notin known /\ \E j \in 1..k : x = rows[j]
                      /\ IsInjective(rows) => IsInjective(f[k])
           T == {k \in 0..Len(rows) : ~Good(k)}
<1> SUFFICES ASSUME T # {}
             PROVE  FALSE
  OBVIOUS
<1>1. PICK k \in T : \A m \in T : k <= m
  <2>1. T \in SUBSET Nat
    BY DEF T
  <2> HIDE DEF T
  <2> QED
    BY <2>1, LeastExists
<1>2. k \in 0..Len(rows) /\ ~Good(k)
  OBVIOUS
<1>3. k # 0
  <2>1. f[0] = <<>>
    BY DEF Filters
  <2> SUFFICES Good(0)
    BY <1>2
  <2> QED
    BY <2>1 DEF Range, IsInjective
<1>4. k - 1 \in 0..Len(rows) /\ Good(k - 1) /\ k \in 1..Len(rows)
  <2>1. k - 1 \in 0..Len(rows) /\ k \in 1..Len(rows) /\ ~(k <= k - 1)
    BY <1>2, <1>3
  <2> QED
    BY <2>1, <1>1
<1>5. f[k] = Step(rows, known, k, f[k - 1])
  BY <1>2, <1>3 DEF Filters
<1>6. CASE KeyOf[rows[k]] \in known
  <2>1. f[k] = f[k - 1]
    BY <1>5, <1>6 DEF Step
  <2>2. 1..(k - 1) \subseteq 1..k
    BY <1>4
  <2> QED
    BY <1>2, <1>4, <2>1, <2>2
<1>7. CASE KeyOf[rows[k]] \notin known
  <2> DEFINE s == f[k - 1]
             x == rows[k]
  <2>1. f[k] = Append(s, x) /\ s \in Seq(Rows) /\ x \in Rows
    BY <1>4, <1>5, <1>7 DEF Step
  <2>2. /\ f[k] \in Seq(Rows) /\ Len(f[k]) = Len(s) + 1
        /\ \A j \in 1..Len(s) : f[k][j] = s[j]
        /\ f[k][Len(s) + 1] = x
    BY <2>1
  <2>3. /\ DOMAIN s = 1..Len(s) /\ Len(s) \in Nat
        /\ DOMAIN f[k] = 1..(Len(s) + 1)
    BY <2>1, <2>2
  <2>4. /\ \A y \in Range(s) :
             KeyOf[y] \notin known /\ \E j \in 1..(k - 1) : y = rows[j]
        /\ IsInjective(rows) => IsInjective(s)
    BY <1>4
  <2> HIDE DEF s, Good
  <2>5. ASSUME NEW j \in DOMAIN f[k]
        PROVE  (j \in 1..Len(s) /\ f[k][j] = s[j]) \/ (j = Len(s) + 1 /\ f[k][j] = x)
    BY <2>2, <2>3
  <2>6. ASSUME NEW y \in Range(f[k])
        PROVE  KeyOf[y] \notin known /\ \E j \in 1..k : y = rows[j]
    <3>1. y \in Range(s) \/ y = x
      BY <2>3, <2>5 DEF Range
    <3>2. 1..(k - 1) \subseteq 1..k /\ k \in 1..k
      BY <1>4
    <3> QED
      BY <3>1, <3>2, <2>4, <1>7
  <2>7. ASSUME IsInjective(rows) PROVE IsInjective(f[k])
    <3>1. x \notin Range(s)
      <4> SUFFICES ASSUME NEW j \in 1..(k - 1), x = rows[j]
                   PROVE  FALSE
        BY <2>4
      <4>1. j \in DOMAIN rows /\ k \in DOMAIN rows /\ j # k
        BY <1>4
      <4> QED
        BY <4>1, <2>7 DEF IsInjective
    <3>2. \A j \in 1..Len(s) : s[j] \in Range(s)
      BY <2>3 DEF Range
    <3> SUFFICES ASSUME NEW i \in DOMAIN f[k], NEW j \in DOMAIN f[k],
                        f[k][i] = f[k][j]
                 PROVE  i = j
      BY DEF IsInjective
    <3>3. IsInjective(s)
      BY <2>4, <2>7
    <3> HIDE DEF x
    <3> QED
      BY <2>3, <2>5, <3>1, <3>2, <3>3 DEF IsInjective
  <2> QED
    BY <1>2, <2>2, <2>6, <2>7 DEF Good
<1> QED
  BY <1>6, <1>7

(* What is fresh has been read, is not known by its key, and is there once *)
(* if it was read once.                                                    *)
LEMMA FreshAre ==
  ASSUME NEW rows \in Seq(Rows), NEW mine \in Seq(Rows)
  PROVE  /\ Fresh(rows, mine) \in Seq(Rows)
         /\ Range(Fresh(rows, mine)) \subseteq Range(rows) \ Range(mine)
         /\ IsInjective(rows) => IsInjective(Fresh(rows, mine))
<1> DEFINE known == {KeyOf[y] : y \in Range(mine)}
           f == CHOOSE g : Filters(g, rows, known, Len(rows))
<1>1. Filters(f, rows, known, Len(rows))
  <2> HIDE DEF known
  <2>1. Len(rows) \in Nat
    OBVIOUS
  <2>2. \E g : Filters(g, rows, known, Len(rows))
    BY <2>1, FilterExists
  <2> QED
    BY <2>2
<1>2. Fresh(rows, mine) = f[Len(rows)]
  BY DEF Fresh, Filters, Step
<1> HIDE DEF known, f
<1>3. Len(rows) \in 0..Len(rows) /\ DOMAIN rows = 1..Len(rows)
  OBVIOUS
<1>4. /\ f[Len(rows)] \in Seq(Rows)
      /\ \A x \in Range(f[Len(rows)]) :
           KeyOf[x] \notin known /\ \E j \in 1..Len(rows) : x = rows[j]
      /\ IsInjective(rows) => IsInjective(f[Len(rows)])
  BY <1>1, <1>3, FilterKeeps
<1>5. ASSUME NEW x \in Range(Fresh(rows, mine))
      PROVE  x \in Range(rows) \ Range(mine)
  <2>1. x \in Range(rows)
    BY <1>2, <1>3, <1>4, <1>5 DEF Range
  <2>2. x \notin Range(mine)
    BY <1>2, <1>4, <1>5 DEF known
  <2> QED
    BY <2>1, <2>2
<1> QED
  BY <1>2, <1>4, <1>5

----------------------------------------------------------------------------
(* Types                                                                   *)

PersistRecords ==
  [at: {"idle", "reading", "writing", "done", "lost"},
   on: Instances \cup {None}, read: Seq(Rows)]

LoadRecords == [at: {"reading", "read", "done"}, rows: Seq(Rows)]

(* Only the row x has moved on with its persisting.                        *)
Moved(x, at, read) ==
  /\ persist' \in [Rows -> PersistRecords]
  /\ \A y \in Rows \ {x} : persist'[y] = persist[y]
  /\ persist'[x].at = at /\ persist'[x].read = read
  /\ persist'[x].on = (IF at \in {"reading", "writing"} THEN persist[x].on
                       ELSE None)

LEMMA Reads ==
  ASSUME TypeInv, NEW x \in Rows, ReadRecent(x)
  PROVE  Moved(x, "writing", recent)
<1> DEFINE new == [persist[x] EXCEPT !.at = "writing", !.read = recent]
<1>1. persist[x] \in PersistRecords /\ recent \in Seq(Rows)
  BY DEF TypeInv, TypeOK, PersistRecords
<1>2. /\ new \in PersistRecords /\ new.at = "writing" /\ new.read = recent
      /\ new.on = persist[x].on
  BY <1>1 DEF PersistRecords
<1>3. persist' = [persist EXCEPT ![x] = new]
  BY DEF ReadRecent
<1> HIDE DEF new
<1> QED
  BY <1>2, <1>3 DEF Moved, TypeInv, TypeOK, PersistRecords

LEMMA Ends ==
  ASSUME TypeInv, NEW x \in Rows, NEW how \in {"done", "lost"},
         PersistEnds(x, how)
  PROVE  Moved(x, how, <<>>)
<1> DEFINE new == [at |-> how, on |-> None, read |-> <<>>]
<1>1. new \in PersistRecords /\ new.at = how /\ new.read = <<>> /\ new.on = None
  BY DEF PersistRecords
<1>2. persist' = [persist EXCEPT ![x] = new]
  BY DEF PersistEnds
<1> HIDE DEF new
<1> QED
  BY <1>1, <1>2 DEF Moved, TypeInv, TypeOK, PersistRecords

(* What is written of what was read.                                       *)
LEMMA Written ==
  ASSUME TypeInv, NEW x \in Rows, WriteRecent(x)
  PROVE  /\ recent' \in Seq(Rows) /\ Len(recent') <= MaxRows
         /\ Moved(x, "done", <<>>)
         /\ \A y \in Range(recent') : y = x \/ y \in Range(persist[x].read)
         /\ x \notin Range(persist[x].read) /\ IsInjective(persist[x].read)
              => IsInjective(recent')
         /\ Len(persist[x].read) = MaxRows => Len(recent') = MaxRows
         /\ Len(persist[x].read) # MaxRows =>
              Range(recent') = Range(persist[x].read) \cup {x}
<1> DEFINE read == persist[x].read
           row == <<x>>
<1>1. /\ read \in Seq(Rows) /\ Len(read) <= MaxRows /\ Len(read) \in Nat
      /\ row \in Seq(Rows) /\ Len(row) = 1 /\ Range(row) = {x}
      /\ IsInjective(row) /\ MaxRows \in Nat
  BY AuditAssumption DEF TypeInv, TypeOK, Range, IsInjective
<1>2. Append(read, x) = read \o row
  BY <1>1
<1> DEFINE all == read \o row
           size == IF Len(all) > MaxRows THEN MaxRows ELSE Len(all)
<1>3. recent' = LastRows(all, MaxRows)
  BY <1>2 DEF WriteRecent
<1> HIDE DEF read, row
<1>4. /\ all \in Seq(Rows) /\ Len(all) = Len(read) + 1
      /\ Range(all) = Range(read) \cup {x}
      /\ x \notin Range(read) /\ IsInjective(read) => IsInjective(all)
  BY <1>1, Behind
<1> HIDE DEF all
<1>5. recent' \in Seq(Rows) /\ Len(recent') = size
  BY <1>1, <1>3, <1>4, LastRowsAre
<1>6. /\ Range(recent') \subseteq Range(all)
      /\ Len(all) <= MaxRows => Range(recent') = Range(all)
      /\ IsInjective(all) => IsInjective(recent')
  BY <1>1, <1>3, <1>4, LastRowsOf
<1>7. Moved(x, "done", <<>>)
  BY Ends DEF WriteRecent
<1> QED
  BY <1>1, <1>4, <1>5, <1>6, <1>7 DEF read

(* A batch is logged: its rows, which were nowhere, are to be persisted.   *)
LEMMA Logged ==
  ASSUME TypeInv, NEW b \in Batches, NEW i \in Instances, b \notin logged,
         persist' = [x \in Rows |->
                       IF x \in Range(RowsOf[b])
                       THEN [at |-> "reading", on |-> i, read |-> <<>>]
                       ELSE persist[x]]
  PROVE  /\ persist' \in [Rows -> PersistRecords]
         /\ RowsOf[b] \in Seq(Rows) /\ IsInjective(RowsOf[b])
         /\ \A x \in Rows :
              IF x \in Range(RowsOf[b])
              THEN /\ persist[x].at = "idle" /\ persist'[x].at = "reading"
                   /\ persist'[x].read = <<>> /\ persist'[x].on = i
              ELSE persist'[x] = persist[x]
<1>1. RowsOf[b] \in Seq(Rows) /\ IsInjective(RowsOf[b])
  BY AuditAssumption
<1>2. [at |-> "reading", on |-> i, read |-> <<>>] \in PersistRecords
  BY DEF PersistRecords
<1>3. ASSUME NEW x \in Rows, x \in Range(RowsOf[b])
      PROVE  persist[x].at = "idle"
  <2>1. persist[x].at # "idle" => \E c \in logged : x \in Range(RowsOf[c])
    BY DEF TypeInv, RowLocals
  <2>2. logged \subseteq Batches
    BY DEF TypeInv, TypeOK
  <2>3. \A c \in logged : Range(RowsOf[b]) \cap Range(RowsOf[c]) = {}
    BY <2>2, AuditAssumption
  <2> QED
    BY <1>3, <2>1, <2>3
<1> QED
  BY <1>1, <1>2, <1>3 DEF TypeInv, TypeOK, PersistRecords

(* A restart ends what the instance had begun.                             *)
LEMMA Restarted ==
  ASSUME TypeInv, NEW i \in Instances, Restart(i)
  PROVE  /\ persist' \in [Rows -> PersistRecords]
         /\ \A x \in Rows :
              IF persist[x].on = i
              THEN /\ persist[x].at \in {"reading", "writing"}
                   /\ persist'[x].at = "lost"
                   /\ persist'[x].read = <<>> /\ persist'[x].on = None
              ELSE persist'[x] = persist[x]
         /\ loading' \in [Instances -> LoadRecords]
         /\ loading'[i].rows = <<>>
         /\ \A j \in Instances \ {i} : loading'[j] = loading[j]
<1>1. [at |-> "lost", on |-> None, read |-> <<>>] \in PersistRecords
  BY DEF PersistRecords
<1>2. [at |-> "reading", rows |-> <<>>] \in LoadRecords
  BY DEF LoadRecords
<1>3. \A x \in Rows : persist[x].on = i => persist[x].at \in {"reading", "writing"}
  BY AuditAssumption DEF TypeInv, RowLocals
<1>4. /\ persist' \in [Rows -> PersistRecords]
      /\ \A x \in Rows :
           IF persist[x].on = i
           THEN /\ persist'[x].at = "lost"
                /\ persist'[x].read = <<>> /\ persist'[x].on = None
           ELSE persist'[x] = persist[x]
  BY <1>1 DEF Restart, TypeInv, TypeOK, PersistRecords
<1>5. /\ loading' \in [Instances -> LoadRecords]
      /\ loading'[i].rows = <<>>
      /\ \A j \in Instances \ {i} : loading'[j] = loading[j]
  BY <1>2 DEF Restart, TypeInv, TypeOK, LoadRecords
<1> QED
  BY <1>3, <1>4, <1>5

(* What an instance has loaded goes before what it has in memory.          *)
LEMMA Loaded ==
  ASSUME TypeInv, NEW i \in Instances, Load(i)
  PROVE  /\ entries' \in [Instances -> Seq(Rows)]
         /\ \A j \in Instances \ {i} :
              entries'[j] = entries[j] /\ loading'[j] = loading[j]
         /\ loading' \in [Instances -> LoadRecords] /\ loading'[i].rows = <<>>
         /\ Range(entries'[i]) \subseteq Range(entries[i]) \cup Range(loading[i].rows)
         /\ IsInjective(entries[i]) /\ IsInjective(loading[i].rows) =>
              IsInjective(entries'[i])
         /\ \A k \in 1..MaxRows : k <= Len(entries[i]) =>
              /\ k <= Len(entries'[i])
              /\ FromEnd(entries'[i], k) = FromEnd(entries[i], k)
<1> DEFINE mine == entries[i]
           fresh == Fresh(loading[i].rows, mine)
           all == fresh \o mine
<1>1. /\ mine \in Seq(Rows) /\ loading[i].rows \in Seq(Rows) /\ MaxRows \in Nat
      /\ entries \in [Instances -> Seq(Rows)]
  BY AuditAssumption DEF TypeInv, TypeOK
<1>2. /\ fresh \in Seq(Rows)
      /\ Range(fresh) \subseteq Range(loading[i].rows) \ Range(mine)
      /\ IsInjective(loading[i].rows) => IsInjective(fresh)
  BY <1>1, FreshAre
<1>3. entries' = [entries EXCEPT ![i] = LastRows(all, MaxRows)]
  BY DEF Load
<1>4. [at |-> "done", rows |-> <<>>] \in LoadRecords
  BY DEF LoadRecords
<1>5. /\ loading' \in [Instances -> LoadRecords] /\ loading'[i].rows = <<>>
      /\ \A j \in Instances \ {i} : loading'[j] = loading[j]
  BY <1>4 DEF Load, LoadEnds, TypeInv, TypeOK, LoadRecords
<1> HIDE DEF mine, fresh
<1>6. /\ all \in Seq(Rows)
      /\ Len(all) = Len(fresh) + Len(mine)
      /\ Range(all) = Range(fresh) \cup Range(mine)
      /\ IsInjective(fresh) /\ IsInjective(mine)
           /\ Range(fresh) \cap Range(mine) = {} => IsInjective(all)
      /\ \A k \in 1..Len(mine) : FromEnd(all, k) = FromEnd(mine, k)
  BY <1>1, <1>2, Behind
<1> HIDE DEF all
<1>7. /\ LastRows(all, MaxRows) \in Seq(Rows)
      /\ Range(LastRows(all, MaxRows)) \subseteq Range(all)
      /\ IsInjective(all) => IsInjective(LastRows(all, MaxRows))
  BY <1>1, <1>6, LastRowsAre, LastRowsOf
<1>8. \A k \in 1..MaxRows : k <= Len(all) =>
        /\ k <= Len(LastRows(all, MaxRows))
        /\ FromEnd(LastRows(all, MaxRows), k) = FromEnd(all, k)
  BY <1>1, <1>6, LastFromEnd
<1>9. /\ entries' \in [Instances -> Seq(Rows)]
      /\ \A j \in Instances \ {i} : entries'[j] = entries[j]
      /\ entries'[i] = LastRows(all, MaxRows)
  BY <1>1, <1>3, <1>7
<1>10. ASSUME NEW k \in 1..MaxRows, k <= Len(mine)
       PROVE  /\ k <= Len(entries'[i])
              /\ FromEnd(entries'[i], k) = FromEnd(mine, k)
  <2>1. k \in 1..Len(mine) /\ k <= Len(all)
    BY <1>1, <1>2, <1>6, <1>10
  <2> QED
    BY <2>1, <1>6, <1>8, <1>9
<1>11. Range(fresh) \cap Range(mine) = {}
  BY <1>2
<1> QED
  BY <1>2, <1>5, <1>6, <1>7, <1>9, <1>10, <1>11 DEF mine

LEMMA TypeStep ==
  ASSUME TypeInv, [Next]_vars
  PROVE  TypeInv'
<1> USE DEF TypeInv, TypeOK, RowLocals, PersistRecords, LoadRecords
<1>1. ASSUME NEW b \in Batches, Log(b) PROVE TypeInv'
  <2>1. PICK i \in Instances :
          /\ b \notin logged /\ logged' = logged \cup {b}
          /\ entries' = [entries EXCEPT ![i] = @ \o RowsOf[b]]
          /\ own' = [own EXCEPT ![i] = @ \o RowsOf[b]]
          /\ persist' = [x \in Rows |->
                           IF x \in Range(RowsOf[b])
                           THEN [at |-> "reading", on |-> i, read |-> <<>>]
                           ELSE persist[x]]
          /\ UNCHANGED <<loading, recent, restarts, contested>>
    BY <1>1 DEF Log
  <2>2. /\ persist' \in [Rows -> PersistRecords]
        /\ RowsOf[b] \in Seq(Rows)
        /\ \A x \in Rows :
             IF x \in Range(RowsOf[b])
             THEN /\ persist[x].at = "idle" /\ persist'[x].at = "reading"
                  /\ persist'[x].read = <<>> /\ persist'[x].on = i
             ELSE persist'[x] = persist[x]
    BY <2>1, Logged
  <2>3. TypeOK'
    BY <2>1, <2>2
  <2>4. \A x \in Rows : RowLocals(x)'
    BY <2>1, <2>2
  <2>5. Len(<<>>) <= MaxRows
    BY AuditAssumption
  <2>6. \A x \in Rows : Len(persist'[x].read) <= MaxRows
    BY <2>2, <2>5
  <2> QED
    BY <2>1, <2>3, <2>4, <2>6
<1>2. ASSUME NEW x \in Rows, ReadRecent(x) PROVE TypeInv'
  <2>1. Moved(x, "writing", recent)
    BY <1>2, Reads
  <2>2. TypeOK'
    BY <1>2, <2>1 DEF ReadRecent, Moved, Persisting
  <2>3. \A y \in Rows : RowLocals(y)' /\ Len(persist'[y].read) <= MaxRows
    BY <1>2, <2>1 DEF ReadRecent, Moved
  <2> QED
    BY <1>2, <2>2, <2>3 DEF ReadRecent
<1>3. ASSUME NEW x \in Rows, WriteRecent(x) PROVE TypeInv'
  <2>1. /\ recent' \in Seq(Rows) /\ Len(recent') <= MaxRows
        /\ Moved(x, "done", <<>>)
    BY <1>3, Written
  <2>2. TypeOK'
    BY <1>3, <2>1 DEF WriteRecent, Moved
  <2>3. Len(<<>>) <= MaxRows
    BY AuditAssumption
  <2>4. persist[x].at = "writing" /\ logged' = logged
    BY <1>3 DEF WriteRecent
  <2>5. RowLocals(x)' /\ Len(persist'[x].read) <= MaxRows
    BY <2>1, <2>3, <2>4 DEF Moved
  <2>6. \A y \in Rows \ {x} : RowLocals(y)' /\ Len(persist'[y].read) <= MaxRows
    BY <2>1, <2>4 DEF Moved
  <2> QED
    BY <1>3, <2>2, <2>5, <2>6 DEF WriteRecent
<1>4. ASSUME NEW x \in Rows, PersistFails(x) PROVE TypeInv'
  <2>1. Moved(x, "lost", <<>>)
    BY <1>4, Ends DEF PersistFails
  <2>2. TypeOK'
    BY <1>4, <2>1 DEF PersistFails, Moved
  <2>3. Len(<<>>) <= MaxRows
    BY AuditAssumption
  <2>4. \A y \in Rows : RowLocals(y)' /\ Len(persist'[y].read) <= MaxRows
    BY <1>4, <2>1, <2>3 DEF PersistFails, Moved
  <2> QED
    BY <1>4, <2>2, <2>4 DEF PersistFails
<1>5. ASSUME NEW i \in Instances, LoadRead(i) PROVE TypeInv'
  <2> DEFINE new == [at |-> "read", rows |-> recent]
  <2>1. new \in LoadRecords /\ new.rows = recent
    OBVIOUS
  <2>2. loading' = [loading EXCEPT ![i] = new]
    BY <1>5 DEF LoadRead
  <2> HIDE DEF new
  <2>3. TypeOK'
    BY <1>5, <2>1, <2>2 DEF LoadRead
  <2>4. \A j \in Instances : Len(loading'[j].rows) <= MaxRows
    BY <2>1, <2>2
  <2> QED
    BY <1>5, <2>3, <2>4 DEF LoadRead
<1>6. ASSUME NEW i \in Instances, Load(i) PROVE TypeInv'
  <2>1. /\ entries' \in [Instances -> Seq(Rows)]
        /\ \A j \in Instances \ {i} : loading'[j] = loading[j]
        /\ loading' \in [Instances -> LoadRecords] /\ loading'[i].rows = <<>>
    BY <1>6, Loaded
  <2>2. TypeOK'
    BY <1>6, <2>1 DEF Load
  <2>3. Len(<<>>) <= MaxRows
    BY AuditAssumption
  <2>4. \A j \in Instances : Len(loading'[j].rows) <= MaxRows
    BY <2>1, <2>3
  <2> QED
    BY <1>6, <2>2, <2>4 DEF Load
<1>7. ASSUME NEW i \in Instances, LoadFails(i) PROVE TypeInv'
  <2> DEFINE new == [at |-> "done", rows |-> <<>>]
  <2>1. new \in LoadRecords /\ Len(new.rows) <= MaxRows
    BY AuditAssumption
  <2>2. loading' = [loading EXCEPT ![i] = new]
    BY <1>7 DEF LoadFails, LoadEnds
  <2> HIDE DEF new
  <2>3. TypeOK'
    BY <1>7, <2>1, <2>2 DEF LoadFails
  <2>4. \A j \in Instances : Len(loading'[j].rows) <= MaxRows
    BY <2>1, <2>2
  <2> QED
    BY <1>7, <2>3, <2>4 DEF LoadFails
<1>8. ASSUME NEW i \in Instances, Restart(i) PROVE TypeInv'
  <2>1. /\ persist' \in [Rows -> PersistRecords]
        /\ \A x \in Rows :
             IF persist[x].on = i
             THEN /\ persist[x].at \in {"reading", "writing"}
                  /\ persist'[x].at = "lost"
                  /\ persist'[x].read = <<>> /\ persist'[x].on = None
             ELSE persist'[x] = persist[x]
        /\ loading' \in [Instances -> LoadRecords]
        /\ loading'[i].rows = <<>>
        /\ \A j \in Instances \ {i} : loading'[j] = loading[j]
    BY <1>8, Restarted
  <2>2. TypeOK'
    BY <1>8, <2>1, AuditAssumption DEF Restart
  <2>3. Len(<<>>) <= MaxRows
    BY AuditAssumption
  <2>4. \A y \in Rows : RowLocals(y)' /\ Len(persist'[y].read) <= MaxRows
    BY <1>8, <2>1, <2>3 DEF Restart
  <2>5. \A j \in Instances : Len(loading'[j].rows) <= MaxRows
    BY <2>1, <2>3
  <2> QED
    BY <1>8, <2>2, <2>4, <2>5 DEF Restart
<1>9. CASE UNCHANGED vars
  BY <1>9 DEF vars
<1> QED
  BY <1>1, <1>2, <1>3, <1>4, <1>5, <1>6, <1>7, <1>8, <1>9 DEF Next, Finished

(* Every variable has its type, and no more is stored or copied than may   *)
(* be.                                                                     *)
THEOREM TypeInvariant == Spec => []TypeInv
<1>1. Init => TypeInv
  <2>1. Len(<<>>) <= MaxRows /\ Len(<<>>) = 0
    BY AuditAssumption
  <2> QED
    BY <2>1, AuditAssumption DEF Init, TypeInv, TypeOK, RowLocals
<1>2. TypeInv /\ [Next]_vars => TypeInv'
  BY TypeStep
<1> QED
  BY <1>1, <1>2, PTL DEF Spec

(* Every variable has its type.                                            *)
THEOREM TypeCorrect == Spec => []TypeOK
<1>1. TypeInv => TypeOK
  BY DEF TypeInv
<1> QED
  BY <1>1, TypeInvariant, PTL

----------------------------------------------------------------------------
(* What has been persisted is kept                                         *)

LEMMA KeptStep ==
  ASSUME TypeInv, KeptInv, [Next]_vars
  PROVE  KeptInv'
<1> USE DEF KeptInv, Persisting, Done
(* Where no persisting goes on it depends on no other variable.            *)
<1>1. ASSUME recent' = recent, contested' = contested,
             \A y \in Rows : \/ persist'[y] = persist[y]
                             \/ persist'[y].at \notin {"writing", "done"}
      PROVE  KeptInv'
  BY <1>1 DEF Kept
<1>2. ASSUME NEW b \in Batches, Log(b) PROVE KeptInv'
  <2>1. PICK i \in Instances :
          persist' = [x \in Rows |->
                        IF x \in Range(RowsOf[b])
                        THEN [at |-> "reading", on |-> i, read |-> <<>>]
                        ELSE persist[x]]
    BY <1>2 DEF Log
  <2> QED
    BY <1>1, <1>2, <2>1 DEF Log
<1>3. ASSUME NEW x \in Rows, ReadRecent(x) PROVE KeptInv'
  <2>1. /\ Moved(x, "writing", recent) /\ persist[x].at = "reading"
        /\ recent' = recent
        /\ contested' = IF Persisting = {} THEN contested
                        ELSE contested \cup Persisting \cup {x}
    BY <1>3, Reads DEF ReadRecent
  <2> QED
    BY <2>1 DEF Moved, Kept
<1>4. ASSUME NEW x \in Rows, WriteRecent(x) PROVE KeptInv'
  <2>1. /\ Moved(x, "done", <<>>) /\ persist[x].at = "writing"
        /\ contested' = contested
        /\ Len(persist[x].read) = MaxRows => Len(recent') = MaxRows
        /\ Len(persist[x].read) # MaxRows =>
             Range(recent') = Range(persist[x].read) \cup {x}
    BY <1>4, Written DEF WriteRecent
  <2>2. \A y, z \in Persisting' : y # z => y \in contested'
    BY <2>1 DEF Moved
  <2>3. ASSUME NEW y \in Rows, Done(y)', y \notin contested'
        PROVE  Kept(y, recent)' /\ \A z \in Persisting' : Kept(y, persist[z].read)'
    <3>1. CASE y = x
      <4>1. Kept(y, recent)'
        BY <3>1, <2>1 DEF Kept
      <4>2. Persisting' = {}
        BY <3>1, <2>1, <2>3 DEF Moved
      <4> QED
        BY <4>1, <4>2
    <3>2. CASE y # x
      <4>1. Done(y) /\ y \notin contested
        BY <3>2, <2>1, <2>3 DEF Moved
      <4>2. Kept(y, persist[x].read)
        BY <4>1, <2>1
      <4>3. Kept(y, recent)'
        BY <4>2, <2>1 DEF Kept
      <4>4. \A z \in Persisting' : Kept(y, persist[z].read)'
        BY <4>1, <2>1 DEF Moved, Kept
      <4> QED
        BY <4>3, <4>4
    <3> QED
      BY <3>1, <3>2
  <2> QED
    BY <2>2, <2>3
<1>5. ASSUME NEW x \in Rows, PersistFails(x) PROVE KeptInv'
  <2>1. Moved(x, "lost", <<>>)
    BY <1>5, Ends DEF PersistFails
  <2> QED
    BY <1>1, <1>5, <2>1 DEF PersistFails, Moved
<1>6. ASSUME NEW i \in Instances, Restart(i) PROVE KeptInv'
  <2>1. \A x \in Rows :
          IF persist[x].on = i THEN persist'[x].at = "lost"
          ELSE persist'[x] = persist[x]
    BY <1>6, Restarted
  <2>2. recent' = recent /\ contested' = contested
    BY <1>6 DEF Restart
  <2> QED
    BY <1>1, <2>1, <2>2
<1>7. CASE UNCHANGED <<persist, recent, contested>>
  BY <1>1, <1>7
<1>8. ASSUME NEW i \in Instances, LoadRead(i) \/ Load(i) \/ LoadFails(i)
      PROVE  KeptInv'
  BY <1>7, <1>8 DEF LoadRead, Load, LoadFails
<1>9. UNCHANGED vars => KeptInv'
  BY <1>7 DEF vars
<1> QED
  BY <1>2, <1>3, <1>4, <1>5, <1>6, <1>8, <1>9 DEF Next, Finished

(* A row whose persisting nothing overlapped is in the store until MaxRows *)
(* others have pushed it out, whatever restarts, fails or is persisted by  *)
(* whom.                                                                   *)
THEOREM KeptInStore == Spec => []PersistedIsKept
<1>1. Init => KeptInv
  BY DEF Init, KeptInv, Persisting, Done
<1>2. TypeInv /\ KeptInv /\ [Next]_vars => KeptInv'
  BY KeptStep
<1>3. KeptInv => PersistedIsKept
  BY DEF KeptInv, PersistedIsKept, Kept, Done
<1> QED
  BY <1>1, <1>2, <1>3, TypeInvariant, PTL DEF Spec

----------------------------------------------------------------------------
(* No row twice                                                            *)

(* An empty array has no row in it.                                        *)
LEMMA NothingPersisted ==
  IsInjective(<<>>) /\ Range(<<>>) = {}
  BY DEF IsInjective, Range

(* Persisting has moved no row back, and arrays are as they were or empty. *)
LEMMA RowsFrame ==
  ASSUME TypeInv, RowsInv,
         \A x \in Rows : /\ Done(x) => Done(x)'
                         /\ persist[x].at # "idle" => persist'[x].at # "idle"
                         /\ persist'[x].read \in {persist[x].read, recent, <<>>},
         \A i \in Instances :
           loading'[i].rows \in {loading[i].rows, recent, <<>>}
  PROVE  /\ IsInjective(recent) /\ \A x \in Range(recent) : Done(x)'
         /\ \A x \in Rows : OfPersisted(persist[x].read)'
         /\ \A i \in Instances : OfPersisted(loading[i].rows)'
         /\ \A i \in Instances : \A x \in Range(entries[i]) :
              persist'[x].at # "idle"
<1> USE NothingPersisted
<1>1. /\ Range(recent) \subseteq Rows
      /\ \A x \in Rows : Range(persist[x].read) \subseteq Rows
      /\ \A i \in Instances : Range(loading[i].rows) \subseteq Rows
      /\ \A i \in Instances : Range(entries[i]) \subseteq Rows
  BY DEF TypeInv, TypeOK, Range
<1>2. \A x \in Range(recent) : Done(x)'
  BY <1>1 DEF RowsInv, OfPersisted
<1>3. ASSUME NEW x \in Rows PROVE OfPersisted(persist[x].read)'
  BY <1>1, <1>2 DEF RowsInv, OfPersisted
<1>4. ASSUME NEW i \in Instances PROVE OfPersisted(loading[i].rows)'
  BY <1>1, <1>2 DEF RowsInv, OfPersisted
<1> QED
  BY <1>1, <1>2, <1>3, <1>4 DEF RowsInv, OfPersisted

LEMMA RowsStep ==
  ASSUME TypeInv, RowsInv, [Next]_vars
  PROVE  RowsInv'
<1> USE DEF Done
<1>1. ASSUME NEW b \in Batches, Log(b) PROVE RowsInv'
  <2>1. PICK i \in Instances :
          /\ b \notin logged
          /\ entries' = [entries EXCEPT ![i] = entries[i] \o RowsOf[b]]
          /\ persist' = [x \in Rows |->
                           IF x \in Range(RowsOf[b])
                           THEN [at |-> "reading", on |-> i, read |-> <<>>]
                           ELSE persist[x]]
          /\ UNCHANGED <<loading, recent>>
    BY <1>1 DEF Log
  <2>2. /\ RowsOf[b] \in Seq(Rows) /\ IsInjective(RowsOf[b])
        /\ \A x \in Rows :
             IF x \in Range(RowsOf[b])
             THEN persist[x].at = "idle" /\ persist'[x].at = "reading"
                  /\ persist'[x].read = <<>>
             ELSE persist'[x] = persist[x]
    BY <2>1, Logged
  <2>3. /\ OfPersisted(recent)'
        /\ \A x \in Rows : OfPersisted(persist[x].read)'
        /\ \A j \in Instances : OfPersisted(loading[j].rows)'
        /\ \A j \in Instances : \A x \in Range(entries[j]) :
             persist'[x].at # "idle"
    BY <2>1, <2>2, RowsFrame DEF OfPersisted
  <2>4. /\ entries \in [Instances -> Seq(Rows)]
        /\ Range(RowsOf[b]) \subseteq Rows /\ Range(entries[i]) \subseteq Rows
    BY <2>2 DEF TypeInv, TypeOK, Range
  <2>5. Range(entries[i]) \cap Range(RowsOf[b]) = {}
    BY <2>2, <2>4 DEF RowsInv
  <2>6. /\ IsInjective(entries[i] \o RowsOf[b])
        /\ Range(entries[i] \o RowsOf[b]) = Range(entries[i]) \cup Range(RowsOf[b])
    BY <2>2, <2>4, <2>5, Behind DEF RowsInv
  <2>7. ASSUME NEW j \in Instances
        PROVE  /\ IsInjective(entries'[j])
               /\ \A x \in Range(entries'[j]) : persist'[x].at # "idle"
    <3>1. CASE j = i
      BY <3>1, <2>1, <2>2, <2>3, <2>4, <2>6
    <3>2. CASE j # i
      BY <3>2, <2>1, <2>3, <2>4 DEF RowsInv
    <3> QED
      BY <3>1, <3>2
  <2> QED
    BY <2>3, <2>7 DEF RowsInv
<1>2. ASSUME NEW x \in Rows, ReadRecent(x) PROVE RowsInv'
  <2>1. /\ Moved(x, "writing", recent) /\ persist[x].at = "reading"
        /\ UNCHANGED <<entries, loading, recent>>
    BY <1>2, Reads DEF ReadRecent
  <2>2. /\ \A y \in Rows : /\ Done(y) => Done(y)'
                           /\ persist[y].at # "idle" => persist'[y].at # "idle"
                           /\ persist'[y].read \in {persist[y].read, recent, <<>>}
        /\ \A i \in Instances :
             loading'[i].rows \in {loading[i].rows, recent, <<>>}
    BY <2>1 DEF Moved
  <2> QED
    BY <2>1, <2>2, RowsFrame DEF RowsInv, OfPersisted
<1>3. ASSUME NEW x \in Rows, WriteRecent(x) PROVE RowsInv'
  <2>1. /\ Moved(x, "done", <<>>) /\ persist[x].at = "writing"
        /\ UNCHANGED <<entries, loading>>
        /\ \A y \in Range(recent') : y = x \/ y \in Range(persist[x].read)
        /\ x \notin Range(persist[x].read) /\ IsInjective(persist[x].read)
             => IsInjective(recent')
    BY <1>3, Written DEF WriteRecent
  <2>2. /\ \A y \in Rows : /\ Done(y) => Done(y)'
                           /\ persist[y].at # "idle" => persist'[y].at # "idle"
                           /\ persist'[y].read \in {persist[y].read, recent, <<>>}
        /\ \A i \in Instances :
             loading'[i].rows \in {loading[i].rows, recent, <<>>}
    BY <2>1 DEF Moved
  <2>3. /\ OfPersisted(persist[x].read) /\ x \notin Range(persist[x].read)
        /\ Range(persist[x].read) \subseteq Rows
    <3>1. OfPersisted(persist[x].read)
      BY DEF RowsInv
    <3>2. persist[x].read \in Seq(Rows)
      BY DEF TypeInv, TypeOK
    <3> QED
      BY <2>1, <3>1, <3>2 DEF OfPersisted, Range
  <2>4. OfPersisted(recent)'
    BY <2>1, <2>2, <2>3 DEF OfPersisted, Moved
  <2> QED
    BY <2>1, <2>2, <2>4, RowsFrame DEF RowsInv
<1>4. ASSUME NEW x \in Rows, PersistFails(x) PROVE RowsInv'
  <2>1. /\ Moved(x, "lost", <<>>) /\ persist[x].at \in {"reading", "writing"}
        /\ UNCHANGED <<entries, loading, recent>>
    BY <1>4, Ends DEF PersistFails
  <2>2. /\ \A y \in Rows : /\ Done(y) => Done(y)'
                           /\ persist[y].at # "idle" => persist'[y].at # "idle"
                           /\ persist'[y].read \in {persist[y].read, recent, <<>>}
        /\ \A i \in Instances :
             loading'[i].rows \in {loading[i].rows, recent, <<>>}
    BY <2>1 DEF Moved
  <2> QED
    BY <2>1, <2>2, RowsFrame DEF RowsInv, OfPersisted
<1>5. ASSUME NEW i \in Instances, LoadRead(i) PROVE RowsInv'
  <2> DEFINE new == [at |-> "read", rows |-> recent]
  <2>1. /\ loading' = [loading EXCEPT ![i] = new] /\ new.rows = recent
        /\ UNCHANGED <<entries, recent, persist>>
    BY <1>5 DEF LoadRead
  <2> HIDE DEF new
  <2>2. /\ \A y \in Rows : /\ Done(y) => Done(y)'
                           /\ persist[y].at # "idle" => persist'[y].at # "idle"
                           /\ persist'[y].read \in {persist[y].read, recent, <<>>}
        /\ \A j \in Instances :
             loading'[j].rows \in {loading[j].rows, recent, <<>>}
    BY <2>1 DEF TypeInv, TypeOK
  <2> QED
    BY <2>1, <2>2, RowsFrame DEF RowsInv, OfPersisted
<1>6. ASSUME NEW i \in Instances, Load(i) PROVE RowsInv'
  <2>1. /\ \A j \in Instances \ {i} :
             entries'[j] = entries[j] /\ loading'[j] = loading[j]
        /\ loading'[i].rows = <<>>
        /\ Range(entries'[i]) \subseteq Range(entries[i]) \cup Range(loading[i].rows)
        /\ IsInjective(entries[i]) /\ IsInjective(loading[i].rows) =>
             IsInjective(entries'[i])
        /\ UNCHANGED <<recent, persist>>
    BY <1>6, Loaded DEF Load
  <2>2. /\ \A y \in Rows : /\ Done(y) => Done(y)'
                           /\ persist[y].at # "idle" => persist'[y].at # "idle"
                           /\ persist'[y].read \in {persist[y].read, recent, <<>>}
        /\ \A j \in Instances :
             loading'[j].rows \in {loading[j].rows, recent, <<>>}
    BY <2>1
  <2>3. ASSUME NEW j \in Instances
        PROVE  /\ IsInjective(entries'[j])
               /\ \A y \in Range(entries'[j]) : persist'[y].at # "idle"
    <3>1. CASE j = i
      <4>1. OfPersisted(loading[i].rows) /\ IsInjective(entries[i])
        BY DEF RowsInv
      <4>2. \A y \in Range(entries[i]) : persist[y].at # "idle"
        BY DEF RowsInv
      <4> QED
        BY <3>1, <2>1, <4>1, <4>2 DEF OfPersisted
    <3>2. CASE j # i
      BY <3>2, <2>1 DEF RowsInv
    <3> QED
      BY <3>1, <3>2
  <2> QED
    BY <2>1, <2>2, <2>3, RowsFrame DEF RowsInv, OfPersisted
<1>7. ASSUME NEW i \in Instances, LoadFails(i) PROVE RowsInv'
  <2> DEFINE new == [at |-> "done", rows |-> <<>>]
  <2>1. /\ loading' = [loading EXCEPT ![i] = new] /\ new.rows = <<>>
        /\ UNCHANGED <<entries, recent, persist>>
    BY <1>7 DEF LoadFails, LoadEnds
  <2> HIDE DEF new
  <2>2. /\ \A y \in Rows : /\ Done(y) => Done(y)'
                           /\ persist[y].at # "idle" => persist'[y].at # "idle"
                           /\ persist'[y].read \in {persist[y].read, recent, <<>>}
        /\ \A j \in Instances :
             loading'[j].rows \in {loading[j].rows, recent, <<>>}
    BY <2>1 DEF TypeInv, TypeOK
  <2> QED
    BY <2>1, <2>2, RowsFrame DEF RowsInv, OfPersisted
<1>8. ASSUME NEW i \in Instances, Restart(i) PROVE RowsInv'
  <2>1. /\ \A x \in Rows :
             IF persist[x].on = i
             THEN /\ persist[x].at \in {"reading", "writing"}
                  /\ persist'[x].at = "lost" /\ persist'[x].read = <<>>
             ELSE persist'[x] = persist[x]
        /\ loading'[i].rows = <<>>
        /\ \A j \in Instances \ {i} : loading'[j] = loading[j]
    BY <1>8, Restarted
  <2>2. /\ \A y \in Rows : /\ Done(y) => Done(y)'
                           /\ persist[y].at # "idle" => persist'[y].at # "idle"
                           /\ persist'[y].read \in {persist[y].read, recent, <<>>}
        /\ \A j \in Instances :
             loading'[j].rows \in {loading[j].rows, recent, <<>>}
    BY <2>1
  <2>3. recent' = recent /\ entries' = [entries EXCEPT ![i] = <<>>]
    BY <1>8 DEF Restart
  <2>4. /\ OfPersisted(recent)'
        /\ \A x \in Rows : OfPersisted(persist[x].read)'
        /\ \A j \in Instances : OfPersisted(loading[j].rows)'
        /\ \A j \in Instances : \A x \in Range(entries[j]) :
             persist'[x].at # "idle"
    BY <2>2, <2>3, RowsFrame DEF OfPersisted
  <2>5. ASSUME NEW j \in Instances
        PROVE  entries'[j] = entries[j] \/ entries'[j] = <<>>
    BY <2>3 DEF TypeInv, TypeOK
  <2> QED
    BY <2>4, <2>5, NothingPersisted DEF RowsInv
<1>9. CASE UNCHANGED vars
  BY <1>9 DEF vars, RowsInv, OfPersisted
<1> QED
  BY <1>1, <1>2, <1>3, <1>4, <1>5, <1>6, <1>7, <1>8, <1>9 DEF Next, Finished

(* No instance lists a row twice, although what it persists it may load    *)
(* again, from the store or behind its own back.                           *)
THEOREM RowsOnce == Spec => []NoRowTwice
<1>1. Init => RowsInv
  BY NothingPersisted DEF Init, RowsInv, OfPersisted
<1>2. TypeInv /\ RowsInv /\ [Next]_vars => RowsInv'
  BY RowsStep
<1>3. RowsInv => NoRowTwice
  BY DEF RowsInv, NoRowTwice
<1> QED
  BY <1>1, <1>2, <1>3, TypeInvariant, PTL DEF Spec

----------------------------------------------------------------------------
(* One's own rows last                                                     *)

LEMMA OwnStep ==
  ASSUME TypeInv, OwnInv, [Next]_vars
  PROVE  OwnInv'
<1>0. /\ own \in [Instances -> Seq(Rows)] /\ entries \in [Instances -> Seq(Rows)]
      /\ MaxRows \in Nat
  BY AuditAssumption DEF TypeInv, TypeOK
<1>1. ASSUME NEW b \in Batches, Log(b) PROVE OwnInv'
  <2>1. PICK i \in Instances :
          /\ entries' = [entries EXCEPT ![i] = entries[i] \o RowsOf[b]]
          /\ own' = [own EXCEPT ![i] = own[i] \o RowsOf[b]]
    BY <1>1 DEF Log
  <2> DEFINE mine == own[i]
             all == entries[i]
             new == RowsOf[b]
  <2>2. mine \in Seq(Rows) /\ all \in Seq(Rows) /\ new \in Seq(Rows)
    BY <1>0, AuditAssumption
  <2>3. \A k \in 1..MaxRows : k <= Len(mine) =>
          k <= Len(all) /\ FromEnd(all, k) = FromEnd(mine, k)
    BY DEF OwnInv
  <2>4. /\ entries'[i] = all \o new /\ own'[i] = mine \o new
        /\ \A j \in Instances \ {i} : entries'[j] = entries[j] /\ own'[j] = own[j]
    BY <2>1, <1>0
  <2> HIDE DEF mine, all, new
  <2>5. ASSUME NEW k \in 1..MaxRows, k <= Len(mine \o new)
        PROVE  /\ k <= Len(all \o new)
               /\ FromEnd(all \o new, k) = FromEnd(mine \o new, k)
    <3>1. /\ Len(mine \o new) = Len(mine) + Len(new)
          /\ \A j \in 1..Len(new) : FromEnd(mine \o new, j) = FromEnd(new, j)
          /\ \A j \in (Len(new) + 1)..(Len(new) + Len(mine)) :
               FromEnd(mine \o new, j) = FromEnd(mine, j - Len(new))
      BY <2>2, Behind
    <3>2. /\ Len(all \o new) = Len(all) + Len(new)
          /\ \A j \in 1..Len(new) : FromEnd(all \o new, j) = FromEnd(new, j)
          /\ \A j \in (Len(new) + 1)..(Len(new) + Len(all)) :
               FromEnd(all \o new, j) = FromEnd(all, j - Len(new))
      BY <2>2, Behind
    <3>3. Len(mine) \in Nat /\ Len(new) \in Nat /\ Len(all) \in Nat
      BY <2>2
    <3>4. CASE k <= Len(new)
      <4>1. k \in 1..Len(new) /\ k <= Len(all) + Len(new)
        BY <3>3, <3>4
      <4> QED
        BY <4>1, <3>1, <3>2
    <3>5. CASE ~(k <= Len(new))
      <4>1. /\ k - Len(new) \in 1..MaxRows /\ k - Len(new) <= Len(mine)
            /\ k \in (Len(new) + 1)..(Len(new) + Len(mine))
        BY <1>0, <2>5, <3>1, <3>3, <3>5
      <4>2. /\ k - Len(new) <= Len(all)
            /\ FromEnd(all, k - Len(new)) = FromEnd(mine, k - Len(new))
        BY <4>1, <2>3
      <4>3. k \in (Len(new) + 1)..(Len(new) + Len(all)) /\ k <= Len(all) + Len(new)
        BY <4>1, <4>2, <3>3
      <4> QED
        BY <4>1, <4>2, <4>3, <3>1, <3>2
    <3> QED
      BY <3>4, <3>5
  <2> QED
    BY <2>4, <2>5 DEF OwnInv
<1>2. ASSUME NEW i \in Instances, Load(i) PROVE OwnInv'
  <2>1. /\ \A j \in Instances \ {i} : entries'[j] = entries[j]
        /\ \A k \in 1..MaxRows : k <= Len(entries[i]) =>
             /\ k <= Len(entries'[i])
             /\ FromEnd(entries'[i], k) = FromEnd(entries[i], k)
        /\ own' = own
    BY <1>2, Loaded DEF Load
  <2> QED
    BY <2>1 DEF OwnInv
<1>3. ASSUME NEW i \in Instances, Restart(i) PROVE OwnInv'
  <2>1. /\ own'[i] = <<>>
        /\ \A j \in Instances \ {i} : entries'[j] = entries[j] /\ own'[j] = own[j]
    BY <1>3, <1>0 DEF Restart
  <2> QED
    BY <2>1 DEF OwnInv
<1>4. CASE UNCHANGED <<entries, own>>
  BY <1>4 DEF OwnInv
<1>5. ASSUME NEW x \in Rows, ReadRecent(x) \/ WriteRecent(x) \/ PersistFails(x)
      PROVE  OwnInv'
  BY <1>4, <1>5 DEF ReadRecent, WriteRecent, PersistFails
<1>6. ASSUME NEW i \in Instances, LoadRead(i) \/ LoadFails(i) PROVE OwnInv'
  BY <1>4, <1>6 DEF LoadRead, LoadFails
<1>7. UNCHANGED vars => OwnInv'
  BY <1>4 DEF vars
<1> QED
  BY <1>1, <1>2, <1>3, <1>5, <1>6, <1>7 DEF Next, Finished

(* An array that agrees with another from the end is a suffix of it.       *)
LEMMA AgreeingIsSuffix ==
  ASSUME NEW s \in Seq(Rows), NEW t \in Seq(Rows), Len(s) <= Len(t),
         \A k \in 1..Len(s) : FromEnd(s, k) = FromEnd(t, k)
  PROVE  IsSuffix(s, t)
<1>1. /\ Reverse(s) \in Seq(Rows) /\ Len(Reverse(s)) = Len(s)
      /\ \A k \in 1..Len(s) : Reverse(s)[k] = FromEnd(s, k)
  BY DEF Reverse, FromEnd
<1>2. /\ Reverse(t) \in Seq(Rows) /\ Len(Reverse(t)) = Len(t)
      /\ \A k \in 1..Len(t) : Reverse(t)[k] = FromEnd(t, k)
  BY DEF Reverse, FromEnd
<1>3. SubSeq(Reverse(s), 1, Len(s)) = [k \in 1..Len(s) |-> Reverse(s)[k]]
  BY <1>1
<1>4. SubSeq(Reverse(t), 1, Len(s)) = [k \in 1..Len(s) |-> Reverse(t)[k]]
  BY <1>2
<1>5. \A k \in 1..Len(s) : Reverse(s)[k] = Reverse(t)[k]
  BY <1>1, <1>2
<1> QED
  BY <1>1, <1>2, <1>3, <1>4, <1>5 DEF IsSuffix, IsPrefix

(* A listing ends with what the instance has logged itself, in the order   *)
(* it was logged, whatever was loaded meanwhile and wherever the log was   *)
(* cut.                                                                    *)
THEOREM OwnRowsStayLast == Spec => []OwnRowsLast
<1>1. Init => OwnInv
  BY DEF Init, OwnInv
<1>2. TypeInv /\ OwnInv /\ [Next]_vars => OwnInv'
  BY OwnStep
<1>3. ASSUME TypeInv, OwnInv, NEW i \in Instances, NEW limit \in 1..MaxRows
      PROVE  IsSuffix(LastRows(own[i], limit), GetAudit(i, limit))
  <2> DEFINE mine == LastRows(own[i], limit)
             all == LastRows(entries[i], limit)
             size == IF Len(own[i]) > limit THEN limit ELSE Len(own[i])
             width == IF Len(entries[i]) > limit THEN limit ELSE Len(entries[i])
  <2>1. /\ own[i] \in Seq(Rows) /\ entries[i] \in Seq(Rows)
        /\ limit \in Nat /\ limit <= MaxRows /\ MaxRows \in Nat
    BY <1>3, AuditAssumption DEF TypeInv, TypeOK
  <2>2. /\ mine \in Seq(Rows) /\ Len(mine) = size
        /\ all \in Seq(Rows) /\ Len(all) = width
    BY <2>1, LastRowsAre
  <2>3. /\ size \in Nat /\ width \in Nat /\ size <= limit
        /\ size <= Len(own[i])
        /\ width = limit \/ width = Len(entries[i])
    BY <2>1
  <2> HIDE DEF mine, all, size, width
  <2>4. ASSUME NEW k \in 1..size
        PROVE  /\ k <= Len(entries[i])
               /\ FromEnd(mine, k) = FromEnd(all, k)
    <3>1. k \in 1..MaxRows /\ k \in 1..limit /\ k <= Len(own[i])
      BY <2>1, <2>3
    <3>2. /\ k <= Len(entries[i])
          /\ FromEnd(entries[i], k) = FromEnd(own[i], k)
      BY <3>1, <1>3 DEF OwnInv
    <3> QED
      BY <2>1, <3>1, <3>2, LastFromEnd DEF mine, all
  <2>5. size <= width
    <3>1. size = 0 \/ size \in 1..size
      BY <2>3
    <3>2. size <= Len(entries[i])
      BY <3>1, <2>1, <2>4
    <3> QED
      BY <3>2, <2>3
  <2>6. IsSuffix(mine, all)
    BY <2>2, <2>4, <2>5, AgreeingIsSuffix
  <2> QED
    BY <2>6 DEF GetAudit, mine, all
<1>4. TypeInv /\ OwnInv => OwnRowsLast
  BY <1>3 DEF OwnRowsLast
<1> QED
  BY <1>1, <1>2, <1>4, TypeInvariant, PTL DEF Spec
=============================================================================
