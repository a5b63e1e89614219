----------------------------- MODULE ShellProofs ----------------------------
(***************************************************************************)
(* Proofs about Shell, for every set of command lines and results: what a  *)
(* line means is what is done, skipped files are named, the JSON object    *)
(* stands alone on stdout, exit code 1 means a leak, and the report for    *)
(* people tells every finding that came up.                                *)
(***************************************************************************)
EXTENDS Shell, ArgumentsProofs, SequenceTheorems, FiniteSetTheorems

IsSeq(s) == s \in Seq(Range(s))

-----------------------------------------------------------------------------
(* Sequences that are joined                                                *)

LEMMA SeqFacts ==
  ASSUME NEW S, NEW s \in Seq(S)
  PROVE  Len(s) \in Nat /\ DOMAIN s = 1..Len(s) /\ Range(s) \subseteq S /\ IsSeq(s)
<1>1. Len(s) \in Nat /\ DOMAIN s = 1..Len(s) /\ \A i \in 1..Len(s) : s[i] \in S
  OBVIOUS
<1>2. s \in [1..Len(s) -> Range(s)]
  BY <1>1 DEF Range
<1> QED BY <1>1, <1>2, SMTT(30) DEF Range, IsSeq

LEMMA Joined ==
  ASSUME NEW s, NEW t, IsSeq(s), IsSeq(t)
  PROVE  /\ IsSeq(s \o t) /\ Range(s \o t) = Range(s) \cup Range(t)
         /\ Len(s) \in Nat /\ DOMAIN s = 1..Len(s) /\ Len(t) \in Nat /\ DOMAIN t = 1..Len(t)
         /\ DOMAIN (s \o t) = 1..(Len(s) + Len(t))
         /\ \A i \in DOMAIN (s \o t) : (s \o t)[i] = IF i <= Len(s) THEN s[i] ELSE t[i - Len(s)]
<1> DEFINE S == Range(s) \cup Range(t)
<1>1. s \in Seq(S) /\ t \in Seq(S)
  BY DEF IsSeq
<1>2. /\ s \o t \in Seq(S) /\ Len(s \o t) = Len(s) + Len(t)
      /\ \A i \in 1..Len(s) + Len(t) : (s \o t)[i] = IF i <= Len(s) THEN s[i] ELSE t[i - Len(s)]
  BY <1>1, ConcatProperties
<1>3. /\ Len(s) \in Nat /\ DOMAIN s = 1..Len(s) /\ Len(t) \in Nat /\ DOMAIN t = 1..Len(t)
      /\ DOMAIN (s \o t) = 1..(Len(s) + Len(t)) /\ IsSeq(s \o t)
  BY <1>1, <1>2, SeqFacts
<1>4. ASSUME NEW x \in Range(s) PROVE x \in Range(s \o t)
  <2>1. PICK i \in 1..Len(s) : x = s[i]
    BY <1>3 DEF Range
  <2>2. i \in 1..Len(s) + Len(t) /\ (s \o t)[i] = x
    BY <1>2, <1>3, <2>1
  <2> QED BY <1>3, <2>2 DEF Range
<1>5. ASSUME NEW x \in Range(t) PROVE x \in Range(s \o t)
  <2>1. PICK i \in 1..Len(t) : x = t[i]
    BY <1>3 DEF Range
  <2>2. i + Len(s) \in 1..Len(s) + Len(t) /\ ~(i + Len(s) <= Len(s)) /\ (i + Len(s)) - Len(s) = i
    BY <1>3
  <2>3. (s \o t)[i + Len(s)] = x
    BY <1>2, <2>1, <2>2
  <2> QED BY <1>3, <2>2, <2>3 DEF Range
<1>6. Range(s \o t) \subseteq S
  BY <1>2, SeqFacts
<1> QED BY <1>2, <1>3, <1>4, <1>5, <1>6

LEMMA Single ==
  ASSUME NEW x
  PROVE  IsSeq(<<x>>) /\ Range(<<x>>) = {x} /\ Len(<<x>>) = 1 /\ <<x>>[1] = x
<1>1. Range(<<x>>) = {x}
  BY DEF Range
<1> QED BY <1>1 DEF IsSeq

LEMMA Empty == IsSeq(<<>>) /\ Range(<<>>) = {}
<1>1. Range(<<>>) = {}
  BY DEF Range
<1> QED BY <1>1 DEF IsSeq

\* What is said of each element of a list is a list of lines.
LEMMA Said ==
  ASSUME NEW n \in Nat, NEW f, DOMAIN f = 1..n, f = [i \in 1..n |-> f[i]]
  PROVE  IsSeq(f)
  BY DEF IsSeq, Range

-----------------------------------------------------------------------------
(* The folds of the report                                                  *)

LEMMA MaxOfTop ==
  ASSUME NEW k \in Nat, NEW s \in SUBSET (1..(k + 1)), k + 1 \in s
  PROVE  Max(s) = k + 1
<1>1. \A y \in s : y \in Nat /\ k + 1 >= y
  OBVIOUS
<1>2. Max(s) \in s /\ \A y \in s : Max(s) >= y
  BY <1>1, Zenon DEF Max
<1>3. Max(s) \in Nat /\ k + 1 \in Nat /\ k + 1 >= Max(s) /\ Max(s) >= k + 1
  BY <1>1, <1>2
<1> QED BY <1>3

\* A fold over the places of a list, as FoldLeft is defined, exists.
StepsOf(R, n) == [R \X (1..n) -> R]
IsFold(f, n, R, b, step) ==
    /\ f \in [SUBSET (1..n) -> R]
    /\ \A s \in SUBSET (1..n) : f[s] = IF s = {} THEN b ELSE step[<<f[s \ {Max(s)}], Max(s)>>]

LEMMA FoldExists ==
  ASSUME NEW n \in Nat, NEW R, NEW b \in R, NEW step \in StepsOf(R, n)
  PROVE  \E f : IsFold(f, n, R, b, step)
<1> USE DEF StepsOf, IsFold
<1> DEFINE Folds(f, k) ==
             /\ f \in [SUBSET (1..k) -> R]
             /\ \A s \in SUBSET (1..k) : f[s] = IF s = {} THEN b ELSE step[<<f[s \ {Max(s)}], Max(s)>>]
           Bad == {k \in 0..n : ~\E f : Folds(f, k)}
<1>1. SUFFICES ASSUME Bad # {} PROVE FALSE
  <2>1. n \in 0..n
    OBVIOUS
  <2>2. n \notin Bad => \E f : Folds(f, n)
    BY <2>1, Zenon
  <2>3. \A f : Folds(f, n) <=> IsFold(f, n, R, b, step)
    BY Zenon
  <2> HIDE DEF Folds, IsFold
  <2> QED BY <2>2, <2>3, Zenon
<1>2. Bad \subseteq 0..n
  BY Zenon
<1>3. PICK k \in Bad : \A j \in Bad : k <= j
  <2>1. Bad \subseteq Nat
    BY <1>2
  <2> QED BY <1>1, <2>1, LeastNat
<1> HIDE DEF Bad
<1>0. k \in 0..n /\ ~(\E f : Folds(f, k)) /\ \A j \in 0..n : (\A f : ~Folds(f, j)) => k <= j
  BY <1>3, ZenonT(30) DEF Bad
<1>4. CASE k = 0
  <2>1. 1..0 = {} /\ SUBSET (1..0) = {{}}
    OBVIOUS
  <2>2. \A s \in SUBSET (1..0) : s = {}
    BY <2>1
  <2>3. [s \in SUBSET (1..0) |-> b] \in [SUBSET (1..0) -> R]
    OBVIOUS
  <2>4. Folds([s \in SUBSET (1..0) |-> b], 0)
    BY <2>2, <2>3
  <2> HIDE DEF Folds
  <2> QED BY <1>0, <1>4, <2>4, Zenon
<1>5. CASE k # 0
  <2> DEFINE j == k - 1
  <2>1. j \in 0..n /\ j \in Nat /\ j + 1 = k /\ k \in 1..n /\ ~(k <= j)
    BY <1>0, <1>5
  <2> HIDE DEF j
  <2>2. PICK f : Folds(f, j)
    BY <1>0, <2>1
  <2> DEFINE g == [s \in SUBSET (1..k) |-> IF k \in s THEN step[<<f[s \ {k}], k>>] ELSE f[s]]
  <2>3. \A s \in SUBSET (1..k) : /\ k \notin s => s \in SUBSET (1..j)
                                /\ s \ {k} \in SUBSET (1..j)
    <3>1. \A i \in 1..k : i = k \/ i \in 1..j
      BY <2>1
    <3> QED BY <3>1
  <2>4. g \in [SUBSET (1..k) -> R]
    <3>1. \A s \in SUBSET (1..k) : f[s \ {k}] \in R
      BY <2>2, <2>3
    <3>2. \A s \in SUBSET (1..k) : k \notin s => f[s] \in R
      BY <2>2, <2>3
    <3>3. \A r \in R : step[<<r, k>>] \in R
      BY <2>1
    <3> QED BY <3>1, <3>2, <3>3
  <2>5. ASSUME NEW s \in SUBSET (1..k)
        PROVE  g[s] = IF s = {} THEN b ELSE step[<<g[s \ {Max(s)}], Max(s)>>]
    <3>1. CASE k \in s
      <4>1. Max(s) = k
        BY <2>1, <3>1, MaxOfTop
      <4>2. g[s \ {k}] = f[s \ {k}]
        OBVIOUS
      <4> QED BY <3>1, <4>1, <4>2
    <3>2. CASE k \notin s
      <4>1. s \in SUBSET (1..j) /\ g[s] = f[s]
        BY <2>3, <3>2
      <4>2. g[s \ {Max(s)}] = f[s \ {Max(s)}]
        BY <3>2
      <4> QED BY <2>2, <4>1, <4>2
    <3> QED BY <3>1, <3>2
  <2>6. Folds(g, k)
    BY <2>4, <2>5
  <2> HIDE DEF Folds
  <2> QED BY <1>0, <2>6, Zenon
<1> QED BY <1>4, <1>5

-----------------------------------------------------------------------------
(* The report says everything on stderr                                     *)

\* The places of what is sorted are those of the list.
LEMMA SortedPlaces ==
  ASSUME NEW findings, IsSeq(findings)
  PROVE  /\ Len(findings) \in Nat /\ DOMAIN Sorted(findings) = 1..Len(findings)
         /\ Sorted(findings) = [k \in 1..Len(findings) |-> Sorted(findings)[k]]
<1>1. Len(findings) \in Nat /\ DOMAIN findings = 1..Len(findings)
  BY SeqFacts DEF IsSeq
<1> QED BY <1>1 DEF Sorted

LEMMA MaxIn ==
  ASSUME NEW n \in Nat, NEW s \in SUBSET (1..n), s # {}
  PROVE  Max(s) \in s
<1>1. PICK i \in s : \A j \in s : j <= i
  BY LastOf
<1>2. \A j \in s : i >= j
  BY <1>1
<1> QED BY <1>1, <1>2, Zenon DEF Max

LEMMA MaxOfRow ==
  ASSUME NEW n \in Nat, NEW k \in 1..n
  PROVE  Max(1..k) = k /\ (1..k) \ {k} = 1..(k - 1) /\ 1..k # {} /\ 1..k \in SUBSET (1..n)
<1>1. k - 1 \in Nat /\ (k - 1) + 1 = k /\ k \in 1..k
  OBVIOUS
<1>2. Max(1..k) = k
  BY <1>1, MaxOfTop
<1> QED BY <1>1, <1>2

\* The rows of the report, one after the other.
EmptyReport == [text |-> <<>>, heading |-> NoHeading]
Printed(g) == FoldLeft(WithRow, EmptyReport, g)
RowLines(g, n) == {Err("heading", g[k].file) : k \in 1..n} \cup {Err("finding", g[k]) : k \in 1..n}
RowHeadings(g, n) == {NoHeading} \cup {g[k].file : k \in 1..n}
Reports(g, n) == [text : Seq(RowLines(g, n)), heading : RowHeadings(g, n)]

LEMMA RowsAreReports ==
  ASSUME NEW n \in Nat, NEW g, NEW r \in Reports(g, n), NEW k \in 1..n
  PROVE  WithRow(r, g[k]) \in Reports(g, n)
<1> DEFINE L == RowLines(g, n)
           heading == IF r.heading = g[k].file THEN <<>> ELSE <<Err("heading", g[k].file)>>
<1>1. Err("heading", g[k].file) \in L /\ Err("finding", g[k]) \in L /\ g[k].file \in RowHeadings(g, n)
  BY DEF RowLines, RowHeadings
<1> HIDE DEF L
<1>2. r.text \in Seq(L) /\ heading \in Seq(L) /\ <<Err("finding", g[k])>> \in Seq(L)
  BY <1>1 DEF Reports, L
<1> HIDE DEF heading
<1>3. (r.text \o heading) \o <<Err("finding", g[k])>> \in Seq(L)
  BY <1>2
<1>4. WithRow(r, g[k]) = [text |-> (r.text \o heading) \o <<Err("finding", g[k])>>, heading |-> g[k].file]
  BY DEF WithRow, heading
<1> QED BY <1>1, <1>3, <1>4 DEF Reports, L

LEMMA RowByRow ==
  ASSUME NEW n \in Nat, NEW g, DOMAIN g = 1..n
  PROVE  \E rows \in [0..n -> Reports(g, n)] :
           /\ rows[0] = EmptyReport
           /\ \A k \in 1..n : rows[k] = WithRow(rows[k - 1], g[k])
           /\ Printed(g) = rows[n]
<1> DEFINE Step(f, s) == IF s = {} THEN EmptyReport ELSE WithRow(f[s \ {Max(s)}], g[Max(s)])
           R == Reports(g, n)
           rowOf == [x \in R \X (1..n) |-> WithRow(x[1], g[x[2]])]
           iter == CHOOSE f : f = [s \in SUBSET (1..n) |-> Step(f, s)]
<1>1. Printed(g) = iter[1..n]
  <2>1. Printed(g)
          = (CHOOSE f : f = [s \in SUBSET DOMAIN g |-> Step(f, s)])[DOMAIN g]
    BY Zenon DEF Printed, FoldLeft, MapThenFoldSet
  <2> QED BY <2>1
<1>2. EmptyReport \in R
  BY DEF EmptyReport, Reports, RowHeadings
<1> HIDE DEF R
<1>3. rowOf \in StepsOf(R, n)
  <2>1. \A r \in R, k \in 1..n : WithRow(r, g[k]) \in R
    BY RowsAreReports DEF R
  <2> QED BY <2>1 DEF StepsOf
<1>4. \A r \in R, k \in 1..n : rowOf[<<r, k>>] = WithRow(r, g[k])
  OBVIOUS
<1> HIDE DEF rowOf
<1>0. PICK f : IsFold(f, n, R, EmptyReport, rowOf)
  BY <1>2, <1>3, FoldExists
<1>5. /\ f \in [SUBSET (1..n) -> R]
      /\ \A s \in SUBSET (1..n) :
           f[s] = IF s = {} THEN EmptyReport ELSE rowOf[<<f[s \ {Max(s)}], Max(s)>>]
  BY <1>0 DEF IsFold
<1>6. \A s \in SUBSET (1..n) : s # {} => /\ Max(s) \in 1..n /\ s \ {Max(s)} \in SUBSET (1..n)
                                        /\ f[s \ {Max(s)}] \in R
  BY <1>5, MaxIn
<1>7. \A s \in SUBSET (1..n) : f[s] = Step(f, s)
  BY <1>4, <1>5, <1>6
<1>8. f = [s \in SUBSET (1..n) |-> Step(f, s)]
  BY <1>5, <1>7
<1>9. iter = [s \in SUBSET (1..n) |-> Step(iter, s)]
  BY <1>8, Zenon
<1> HIDE DEF iter
<1>10. iter[{}] = EmptyReport
  BY <1>9
<1>11. ASSUME NEW k \in 1..n PROVE iter[1..k] = WithRow(iter[1..(k - 1)], g[k])
  <2>1. Max(1..k) = k /\ (1..k) \ {k} = 1..(k - 1) /\ 1..k # {} /\ 1..k \in SUBSET (1..n)
    BY MaxOfRow
  <2>2. iter[1..k] = Step(iter, 1..k)
    BY <1>9, <2>1
  <2> QED BY <2>1, <2>2
<1> DEFINE rows == [k \in 0..n |-> iter[1..k]]
<1>12. rows[0] = EmptyReport /\ \A k \in 1..n : k - 1 \in 0..n /\ rows[k] = WithRow(rows[k - 1], g[k])
  <2>1. 1..0 = {}
    OBVIOUS
  <2> QED BY <1>10, <1>11, <2>1
<1>13. \A k \in 0..n : rows[k] \in R
  <2> HIDE DEF rows
  <2> DEFINE Bad == {k \in 0..n : rows[k] \notin R}
  <2>1. SUFFICES ASSUME Bad # {} PROVE FALSE
    OBVIOUS
  <2>2. PICK k \in Bad : \A j \in Bad : k <= j
    <3>1. Bad \subseteq Nat
      OBVIOUS
    <3> QED BY <2>1, <3>1, LeastNat
  <2>3. k # 0 /\ k \in 1..n
    BY <1>2, <1>12, <2>2
  <2>4. k - 1 \in 0..n /\ ~(k <= k - 1)
    BY <2>3
  <2>5. rows[k - 1] \in R
    BY <2>2, <2>4
  <2>6. WithRow(rows[k - 1], g[k]) \in R
    BY <2>3, <2>5, RowsAreReports DEF R
  <2> QED BY <1>12, <2>2, <2>3, <2>6
<1>14. rows \in [0..n -> R] /\ rows[n] = iter[1..n]
  BY <1>13
<1> HIDE DEF rows
<1> QED BY <1>1, <1>12, <1>14 DEF R

\* The kinds of the report, one finding after the other.
WithKind(seen, f) == IF Contains(seen, f.kind) THEN seen ELSE Append(seen, f.kind)
KindsOf(g, n) == {g[k].kind : k \in 1..n}

LEMMA KindsAreKinds ==
  ASSUME NEW n \in Nat, NEW g, NEW r \in Seq(KindsOf(g, n)), NEW k \in 1..n
  PROVE  WithKind(r, g[k]) \in Seq(KindsOf(g, n))
<1>1. g[k].kind \in KindsOf(g, n)
  BY DEF KindsOf
<1> QED BY <1>1 DEF WithKind

LEMMA KindByKind ==
  ASSUME NEW n \in Nat, NEW g, DOMAIN g = 1..n
  PROVE  \E kinds \in [0..n -> Seq(KindsOf(g, n))] :
           /\ kinds[0] = <<>>
           /\ \A k \in 1..n : kinds[k] = WithKind(kinds[k - 1], g[k])
           /\ DistinctKinds(g) = kinds[n]
<1> DEFINE Step(f, s) == IF s = {} THEN <<>> ELSE WithKind(f[s \ {Max(s)}], g[Max(s)])
           R == Seq(KindsOf(g, n))
           kindOf == [x \in R \X (1..n) |-> WithKind(x[1], g[x[2]])]
           iter == CHOOSE f : f = [s \in SUBSET (1..n) |-> Step(f, s)]
<1>1. DistinctKinds(g) = iter[1..n]
  <2>1. DistinctKinds(g)
          = (CHOOSE f : f = [s \in SUBSET DOMAIN g |-> Step(f, s)])[DOMAIN g]
    BY Zenon DEF DistinctKinds, FoldLeft, MapThenFoldSet, WithKind
  <2> QED BY <2>1
<1>2. <<>> \in R
  OBVIOUS
<1> HIDE DEF R
<1>3. kindOf \in StepsOf(R, n)
  <2>1. \A r \in R, k \in 1..n : WithKind(r, g[k]) \in R
    BY KindsAreKinds DEF R
  <2> QED BY <2>1 DEF StepsOf
<1>4. \A r \in R, k \in 1..n : kindOf[<<r, k>>] = WithKind(r, g[k])
  OBVIOUS
<1> HIDE DEF kindOf
<1>0. PICK f : IsFold(f, n, R, <<>>, kindOf)
  BY <1>2, <1>3, FoldExists
<1>5. /\ f \in [SUBSET (1..n) -> R]
      /\ \A s \in SUBSET (1..n) :
           f[s] = IF s = {} THEN <<>> ELSE kindOf[<<f[s \ {Max(s)}], Max(s)>>]
  BY <1>0 DEF IsFold
<1>6. \A s \in SUBSET (1..n) : s # {} => /\ Max(s) \in 1..n /\ s \ {Max(s)} \in SUBSET (1..n)
                                        /\ f[s \ {Max(s)}] \in R
  BY <1>5, MaxIn
<1>7. \A s \in SUBSET (1..n) : f[s] = Step(f, s)
  BY <1>4, <1>5, <1>6
<1>8. f = [s \in SUBSET (1..n) |-> Step(f, s)]
  BY <1>5, <1>7
<1>9. iter = [s \in SUBSET (1..n) |-> Step(iter, s)]
  BY <1>8, Zenon
<1> HIDE DEF iter
<1>10. iter[{}] = <<>>
  BY <1>9
<1>11. ASSUME NEW k \in 1..n PROVE iter[1..k] = WithKind(iter[1..(k - 1)], g[k])
  <2>1. Max(1..k) = k /\ (1..k) \ {k} = 1..(k - 1) /\ 1..k # {} /\ 1..k \in SUBSET (1..n)
    BY MaxOfRow
  <2>2. iter[1..k] = Step(iter, 1..k)
    BY <1>9, <2>1
  <2> QED BY <2>1, <2>2
<1> DEFINE kinds == [k \in 0..n |-> iter[1..k]]
<1>12. kinds[0] = <<>> /\ \A k \in 1..n : k - 1 \in 0..n /\ kinds[k] = WithKind(kinds[k - 1], g[k])
  <2>1. 1..0 = {}
    OBVIOUS
  <2> QED BY <1>10, <1>11, <2>1
<1>13. \A k \in 0..n : kinds[k] \in R
  <2> HIDE DEF kinds
  <2> DEFINE Bad == {k \in 0..n : kinds[k] \notin R}
  <2>1. SUFFICES ASSUME Bad # {} PROVE FALSE
    OBVIOUS
  <2>2. PICK k \in Bad : \A j \in Bad : k <= j
    <3>1. Bad \subseteq Nat
      OBVIOUS
    <3> QED BY <2>1, <3>1, LeastNat
  <2>3. k # 0 /\ k \in 1..n
    BY <1>2, <1>12, <2>2
  <2>4. k - 1 \in 0..n /\ ~(k <= k - 1)
    BY <2>3
  <2>5. kinds[k - 1] \in R
    BY <2>2, <2>4
  <2>6. WithKind(kinds[k - 1], g[k]) \in R
    BY <2>3, <2>5, KindsAreKinds DEF R
  <2> QED BY <1>12, <2>2, <2>3, <2>6
<1>14. kinds \in [0..n -> R] /\ kinds[n] = iter[1..n]
  BY <1>13
<1> HIDE DEF kinds
<1> QED BY <1>1, <1>12, <1>14 DEF R

LEMMA RenderedToStderr ==
  ASSUME NEW findings, IsSeq(findings)
  PROVE  IsSeq(Rendered(findings)) /\ \A l \in Range(Rendered(findings)) : l.to = "stderr"
<1> DEFINE n == Len(findings)
           g == Sorted(findings)
           report == Printed(g)
           kinds == DistinctKinds(g)
           hints == [k \in DOMAIN kinds |-> Err("hint", kinds[k])]
<1>1. n \in Nat /\ DOMAIN g = 1..n
  BY SortedPlaces
<1>4. Rendered(findings) = report.text \o hints
  BY Zenon DEF Rendered, EmptyReport, Printed
<1> HIDE DEF n, g
<1>2. report \in Reports(g, n)
  <2>1. PICK rows \in [0..n -> Reports(g, n)] : report = rows[n]
    BY <1>1, RowByRow
  <2> QED BY <1>1, <2>1
<1>3. kinds \in Seq(KindsOf(g, n))
  <2>1. PICK all \in [0..n -> Seq(KindsOf(g, n))] : kinds = all[n]
    BY <1>1, KindByKind
  <2> QED BY <1>1, <2>1
<1> HIDE DEF report, kinds
<1>5. report.text \in Seq(RowLines(g, n))
  BY <1>2 DEF Reports
<1>6. IsSeq(report.text) /\ \A l \in Range(report.text) : l.to = "stderr"
  <2>1. IsSeq(report.text) /\ Range(report.text) \subseteq RowLines(g, n)
    BY <1>5, SeqFacts
  <2>2. \A l \in RowLines(g, n) : l.to = "stderr"
    BY DEF RowLines, Err
  <2> QED BY <2>1, <2>2
<1>7. IsSeq(hints) /\ \A l \in Range(hints) : l.to = "stderr"
  <2>1. Len(kinds) \in Nat /\ DOMAIN kinds = 1..Len(kinds)
    BY <1>3, SeqFacts
  <2>2. IsSeq(hints)
    BY <2>1, Said
  <2> QED BY <2>2 DEF Range, Err
<1> HIDE DEF hints
<1> QED BY <1>4, <1>6, <1>7, Joined

-----------------------------------------------------------------------------
(* Counting                                                                 *)

LEMMA SameCount ==
  ASSUME NEW S, NEW T, IsFiniteSet(S), NEW f \in [S -> T],
         \A x, y \in S : f[x] = f[y] => x = y, \A t \in T : \E x \in S : f[x] = t
  PROVE  IsFiniteSet(T) /\ Cardinality(T) = Cardinality(S)
<1>1. f \in Injection(S, T) /\ f \in Surjection(S, T)
  BY Zenon DEF Injection, Surjection, IsInjective
<1> QED BY <1>1, FS_Bijection, Zenon DEF Bijection, ExistsBijection

\* The finding with a place before it counts one more.
LEMMA MoreBefore ==
  ASSUME NEW S, NEW T, IsFiniteSet(T), S \subseteq T, NEW x \in T, x \notin S
  PROVE  IsFiniteSet(S) /\ Cardinality(S) \in Nat /\ Cardinality(S) < Cardinality(T)
<1>1. S \cup {x} \subseteq T
  OBVIOUS
<1>2. IsFiniteSet(S) /\ IsFiniteSet(S \cup {x}) /\ Cardinality(S \cup {x}) <= Cardinality(T)
  BY <1>1, FS_Subset
<1>3. Cardinality(S \cup {x}) = Cardinality(S) + 1
  BY <1>2, FS_AddElement
<1>4. Cardinality(S) \in Nat /\ Cardinality(T) \in Nat
  BY <1>2, FS_CardinalityType
<1> QED BY <1>2, <1>3, <1>4

-----------------------------------------------------------------------------
(* The findings in order                                                    *)

\* Findings can be put in order: each has a file of some rank and a line.
HasPlaces(found) ==
    /\ IsSeq(found)
    /\ \A f \in Range(found) : f.file \in Nat \ {NoHeading} /\ f.line \in Nat

LEMMA PrecedesOrders ==
  ASSUME NEW found, HasPlaces(found)
  PROVE  /\ \A i \in DOMAIN found : ~Precedes(found, i, i)
         /\ \A i, j \in DOMAIN found : i = j \/ Precedes(found, i, j) \/ Precedes(found, j, i)
         /\ \A i, j, k \in DOMAIN found :
               Precedes(found, i, j) /\ Precedes(found, j, k) => Precedes(found, i, k)
<1>1. DOMAIN found \subseteq Nat
  BY SeqFacts DEF HasPlaces, IsSeq
<1>2. \A i \in DOMAIN found : found[i].file \in Nat /\ found[i].line \in Nat
  BY DEF HasPlaces, Range
<1> QED BY <1>1, <1>2 DEF Precedes

\* Sorted is the list in another order, and in order.
LEMMA SortedIsAnOrder ==
  ASSUME NEW found, HasPlaces(found)
  PROVE  \E order \in [DOMAIN found -> DOMAIN found] :
            /\ \A k, l \in DOMAIN found : k < l => Precedes(found, order[k], order[l])
            /\ \A i \in DOMAIN found : \E k \in DOMAIN found : order[k] = i
            /\ \A k \in DOMAIN found : Sorted(found)[k] = found[order[k]]
<1> DEFINE n == Len(found)
           Before(i) == {j \in DOMAIN found : Precedes(found, j, i)}
           rank == [i \in DOMAIN found |-> Cardinality(Before(i)) + 1]
<1>1. n \in Nat /\ DOMAIN found = 1..n /\ IsFiniteSet(1..n) /\ Cardinality(1..n) = n
  <2>1. n \in Nat /\ DOMAIN found = 1..n
    BY SeqFacts DEF HasPlaces, IsSeq
  <2> HIDE DEF n
  <2> QED BY <2>1, FS_Interval
<1> HIDE DEF n
<1>2. ASSUME NEW i \in 1..n
      PROVE  Cardinality(Before(i)) \in Nat /\ Cardinality(Before(i)) < n /\ IsFiniteSet(Before(i))
  <2>1. Before(i) \subseteq 1..n /\ i \notin Before(i)
    BY <1>1, PrecedesOrders
  <2> HIDE DEF Before
  <2> QED BY <1>1, <2>1, MoreBefore
<1>3. ASSUME NEW i \in 1..n, NEW j \in 1..n, Precedes(found, i, j)
      PROVE  Cardinality(Before(i)) < Cardinality(Before(j))
  <2>1. Before(i) \subseteq Before(j) /\ i \in Before(j) /\ i \notin Before(i)
    BY <1>1, <1>3, PrecedesOrders
  <2> HIDE DEF Before
  <2> QED BY <1>2, <2>1, MoreBefore
<1>4. rank \in [1..n -> 1..n] /\ \A i \in 1..n : rank[i] = Cardinality(Before(i)) + 1
  <2> HIDE DEF Before
  <2> QED BY <1>1, <1>2
<1>5. \A i, j \in 1..n : rank[i] = rank[j] => i = j
  <2>1. SUFFICES ASSUME NEW i \in 1..n, NEW j \in 1..n, rank[i] = rank[j], i # j PROVE FALSE
    OBVIOUS
  <2>2. Precedes(found, i, j) \/ Precedes(found, j, i)
    BY <1>1, <2>1, PrecedesOrders
  <2>3. rank[i] < rank[j] \/ rank[j] < rank[i]
    <3> HIDE DEF Before, rank
    <3> QED BY <1>2, <1>3, <1>4, <2>2
  <2>4. rank[i] \in Nat /\ rank[j] \in Nat
    BY <1>4
  <2> HIDE DEF rank
  <2> QED BY <2>1, <2>3, <2>4
<1> HIDE DEF rank, Before
<1>6. \A k \in 1..n : \E i \in 1..n : rank[i] = k
  <2>1. rank \in Injection(1..n, 1..n)
    BY <1>4, <1>5, Zenon DEF Injection, IsInjective
  <2>2. rank \in Surjection(1..n, 1..n)
    BY <1>1, <2>1, FS_Injection
  <2> QED BY <2>2, Zenon DEF Surjection
<1> DEFINE order == [k \in 1..n |-> CHOOSE i \in 1..n : Cardinality(Before(i)) = k - 1]
<1>7. ASSUME NEW k \in 1..n PROVE order[k] \in 1..n /\ rank[order[k]] = k
  <2>1. PICK i \in 1..n : rank[i] = k
    BY <1>6
  <2>2. Cardinality(Before(i)) = k - 1
    BY <1>2, <1>4, <2>1
  <2>3. order[k] \in 1..n /\ Cardinality(Before(order[k])) = k - 1
    BY <2>2
  <2> HIDE DEF order
  <2> QED BY <1>4, <2>3
<1>8. \A k \in 1..n : Sorted(found)[k] = found[order[k]]
  BY <1>1 DEF Sorted, Before
<1>9. order \in [1..n -> 1..n]
  BY <1>7
<1> HIDE DEF order
<1>10. ASSUME NEW k \in 1..n, NEW l \in 1..n, k < l PROVE Precedes(found, order[k], order[l])
  <2>1. order[k] # order[l]
    BY <1>7, <1>10
  <2>2. SUFFICES ASSUME Precedes(found, order[l], order[k]) PROVE FALSE
    BY <1>1, <1>7, <2>1, PrecedesOrders
  <2>3. rank[order[l]] < rank[order[k]]
    <3>1. order[k] \in 1..n /\ order[l] \in 1..n
      BY <1>7
    <3>2. Cardinality(Before(order[l])) < Cardinality(Before(order[k]))
      BY <1>3, <2>2, <3>1
    <3>3. Cardinality(Before(order[l])) \in Nat /\ Cardinality(Before(order[k])) \in Nat
      BY <1>2, <3>1
    <3> QED BY <1>4, <3>1, <3>2, <3>3
  <2> QED BY <1>7, <1>10, <2>3
<1>11. \A i \in 1..n : order[rank[i]] = i
  BY <1>4, <1>5, <1>7
<1> QED BY <1>1, <1>4, <1>8, <1>9, <1>10, <1>11

-----------------------------------------------------------------------------
(* Where the rows of a report stand                                         *)

\* The first n findings of g are all of it, by file and then by line.
InOrder(g, n) ==
    /\ DOMAIN g = 1..n
    /\ \A k \in 1..n : g[k].file \in Nat \ {NoHeading} /\ g[k].line \in Nat
    /\ \A k, l \in 1..n : k < l => \/ g[k].file < g[l].file
                                   \/ g[k].file = g[l].file /\ g[k].line <= g[l].line

\* The first k findings are the lines of t at these places, in this order.
RowsAt(t, g, k, at) ==
    /\ at \in [1..k -> DOMAIN t]
    /\ \A j, l \in 1..k : j < l => at[j] < at[l]
    /\ \A j \in 1..k : t[at[j]] = Err("finding", g[j])
    /\ \A i \in DOMAIN t : t[i].say = "finding" => \E j \in 1..k : i = at[j]

\* The headings stand in front of findings, and each before all of its file.
HeadingsAt(t, g, k, at) ==
    /\ \A h \in DOMAIN t : t[h].say = "heading" =>
          \E j \in 1..k : h + 1 = at[j] /\ t[h] = Err("heading", g[j].file)
    /\ \A j \in 1..k : \E h \in DOMAIN t : h < at[j] /\ t[h] = Err("heading", g[j].file)
    /\ \A h, i \in DOMAIN t :
          t[h].say = "heading" /\ t[i].say = "heading" /\ h < i => t[h].of < t[i].of

Stand(t, g, k, at) == IsSeq(t) /\ RowsAt(t, g, k, at) /\ HeadingsAt(t, g, k, at)

NeitherRowNorHeading(a) == IsSeq(a) /\ \A l \in Range(a) : l.say \notin {"finding", "heading"}

LEMMA ElementsOf ==
  ASSUME NEW t, IsSeq(t)
  PROVE  Len(t) \in Nat /\ DOMAIN t = 1..Len(t) /\ \A i \in DOMAIN t : t[i] \in Range(t)
  BY SeqFacts DEF IsSeq, Range

\* Other lines may follow ...
LEMMA StandBefore ==
  ASSUME NEW t, NEW g, NEW k \in Nat, NEW at, Stand(t, g, k, at), NEW a, NeitherRowNorHeading(a)
  PROVE  Stand(t \o a, g, k, at)
<1> DEFINE u == t \o a
<1>1. /\ IsSeq(u) /\ Len(t) \in Nat /\ DOMAIN t = 1..Len(t) /\ Len(a) \in Nat
      /\ DOMAIN u = 1..(Len(t) + Len(a)) /\ DOMAIN a = 1..Len(a)
      /\ \A i \in DOMAIN u : u[i] = IF i <= Len(t) THEN t[i] ELSE a[i - Len(t)]
  BY Joined DEF Stand, NeitherRowNorHeading
<1> HIDE DEF u
<1>2. \A i \in DOMAIN t : i \in DOMAIN u /\ u[i] = t[i]
  BY <1>1
<1>3. \A i \in DOMAIN u : i \in DOMAIN t \/ u[i].say \notin {"finding", "heading"}
  <2>1. SUFFICES ASSUME NEW i \in DOMAIN u, i \notin DOMAIN t
                 PROVE  u[i].say \notin {"finding", "heading"}
    OBVIOUS
  <2>2. i - Len(t) \in DOMAIN a /\ u[i] = a[i - Len(t)]
    BY <1>1, <2>1
  <2>3. u[i] \in Range(a)
    BY <2>2 DEF Range
  <2> QED BY <2>3 DEF NeitherRowNorHeading
<1>4. RowsAt(u, g, k, at)
  <2>1. at \in [1..k -> DOMAIN u] /\ \A j \in 1..k : at[j] \in DOMAIN t
    BY <1>2 DEF Stand, RowsAt
  <2> QED BY <1>2, <1>3, <2>1 DEF Stand, RowsAt
<1>5. HeadingsAt(u, g, k, at)
  BY <1>2, <1>3 DEF Stand, HeadingsAt
<1> QED BY <1>1, <1>4, <1>5 DEF Stand, u

\* ... and go before.
LEMMA StandBehind ==
  ASSUME NEW t, NEW g, NEW k \in Nat, NEW at, Stand(t, g, k, at), NEW b, NeitherRowNorHeading(b)
  PROVE  Stand(b \o t, g, k, [j \in 1..k |-> at[j] + Len(b)])
<1> DEFINE u == b \o t
           m == Len(b)
           to == [j \in 1..k |-> at[j] + m]
<1>1. /\ IsSeq(u) /\ Len(t) \in Nat /\ DOMAIN t = 1..Len(t) /\ m \in Nat
      /\ DOMAIN u = 1..(m + Len(t)) /\ DOMAIN b = 1..m
      /\ \A i \in DOMAIN u : u[i] = IF i <= m THEN b[i] ELSE t[i - m]
  BY Joined DEF Stand, NeitherRowNorHeading
<1> HIDE DEF u, m
<1>2. \A i \in DOMAIN t : i \in Nat /\ i + m \in DOMAIN u /\ u[i + m] = t[i]
  <2>1. SUFFICES ASSUME NEW i \in DOMAIN t PROVE i \in Nat /\ i + m \in DOMAIN u /\ u[i + m] = t[i]
    OBVIOUS
  <2>2. i + m \in DOMAIN u /\ ~(i + m <= m) /\ (i + m) - m = i
    BY <1>1
  <2> QED BY <1>1, <2>2
<1>3. \A i \in DOMAIN u : u[i].say \in {"finding", "heading"} =>
         /\ i \in Nat /\ i - m \in DOMAIN t /\ (i - m) + m = i /\ u[i] = t[i - m]
  <2>1. SUFFICES ASSUME NEW i \in DOMAIN u, u[i].say \in {"finding", "heading"}
                 PROVE  i \in Nat /\ i - m \in DOMAIN t /\ (i - m) + m = i /\ u[i] = t[i - m]
    OBVIOUS
  <2>2. ~(i <= m)
    <3>1. SUFFICES ASSUME i <= m PROVE FALSE
      OBVIOUS
    <3>2. i \in DOMAIN b /\ u[i] = b[i]
      BY <1>1, <3>1
    <3>3. u[i] \in Range(b)
      BY <3>2 DEF Range
    <3> QED BY <2>1, <3>3 DEF NeitherRowNorHeading
  <2> QED BY <1>1, <2>2
<1>4. \A j \in 1..k : at[j] \in DOMAIN t /\ at[j] \in Nat /\ to[j] = at[j] + m
  BY <1>2 DEF Stand, RowsAt
<1>5. to \in [1..k -> DOMAIN u]
  BY <1>2, <1>4
<1> HIDE DEF to
<1>6. RowsAt(u, g, k, to)
  <2>1. \A j, l \in 1..k : j < l => to[j] < to[l]
    BY <1>1, <1>4 DEF Stand, RowsAt
  <2>2. \A j \in 1..k : u[to[j]] = Err("finding", g[j])
    BY <1>2, <1>4 DEF Stand, RowsAt
  <2>3. ASSUME NEW i \in DOMAIN u, u[i].say = "finding" PROVE \E j \in 1..k : i = to[j]
    <3>1. i - m \in DOMAIN t /\ (i - m) + m = i /\ t[i - m].say = "finding"
      BY <1>3, <2>3
    <3>2. PICK j \in 1..k : i - m = at[j]
      BY <3>1 DEF Stand, RowsAt
    <3> QED BY <1>4, <3>1, <3>2
  <2> QED BY <1>5, <2>1, <2>2, <2>3 DEF RowsAt
<1>7. HeadingsAt(u, g, k, to)
  <2>1. ASSUME NEW h \in DOMAIN u, u[h].say = "heading"
        PROVE  \E j \in 1..k : h + 1 = to[j] /\ u[h] = Err("heading", g[j].file)
    <3>1. h \in Nat /\ h - m \in DOMAIN t /\ (h - m) + m = h /\ u[h] = t[h - m]
      BY <1>3, <2>1
    <3>2. PICK j \in 1..k : (h - m) + 1 = at[j] /\ t[h - m] = Err("heading", g[j].file)
      BY <2>1, <3>1 DEF Stand, HeadingsAt
    <3> QED BY <1>1, <1>4, <3>1, <3>2
  <2>2. ASSUME NEW j \in 1..k
        PROVE  \E h \in DOMAIN u : h < to[j] /\ u[h] = Err("heading", g[j].file)
    <3>1. PICK h \in DOMAIN t : h < at[j] /\ t[h] = Err("heading", g[j].file)
      BY DEF Stand, HeadingsAt
    <3>2. h + m < to[j]
      BY <1>1, <1>2, <1>4, <3>1
    <3> QED BY <1>2, <3>1, <3>2
  <2>3. ASSUME NEW h \in DOMAIN u, NEW i \in DOMAIN u, u[h].say = "heading", u[i].say = "heading", h < i
        PROVE  u[h].of < u[i].of
    <3>1. h - m \in DOMAIN t /\ i - m \in DOMAIN t /\ u[h] = t[h - m] /\ u[i] = t[i - m]
          /\ h \in Nat /\ i \in Nat
      BY <1>3, <2>3
    <3>2. h - m < i - m
      BY <1>1, <2>3, <3>1
    <3> QED BY <2>3, <3>1, <3>2 DEF Stand, HeadingsAt
  <2> QED BY <2>1, <2>2, <2>3 DEF HeadingsAt
<1> QED BY <1>1, <1>6, <1>7 DEF Stand, u, to, m

LEMMA NothingStands ==
  ASSUME NEW g
  PROVE  Stand(<<>>, g, 0, <<>>)
<1>1. IsSeq(<<>>) /\ DOMAIN <<>> = {} /\ 1..0 = {} /\ <<>> \in [{} -> {}]
  BY Empty
<1> QED BY <1>1 DEF Stand, RowsAt, HeadingsAt

\* A finding is put under the heading before it, or under a new one.
LEMMA OneMoreRow ==
  ASSUME NEW n \in Nat, NEW g, InOrder(g, n), NEW k \in 1..n, NEW t, NEW at, Stand(t, g, k - 1, at),
         NEW h, h = IF k > 1 /\ g[k - 1].file = g[k].file THEN <<>>
                    ELSE <<Err("heading", g[k].file)>>
  PROVE  \E to : Stand((t \o h) \o <<Err("finding", g[k])>>, g, k, to)
<1> DEFINE H == Err("heading", g[k].file)
           F == Err("finding", g[k])
           u == (t \o h) \o <<F>>
           last == Len(t) + Len(h) + 1
           to == [j \in 1..k |-> IF j = k THEN last ELSE at[j]]
<1>1. IsSeq(h) /\ (Len(h) = 0 \/ (Len(h) = 1 /\ h[1] = H)) /\ IsSeq(t)
  BY Single, Empty DEF Stand
<1>2. /\ Len(h) = 0 => k > 1 /\ g[k - 1].file = g[k].file
      /\ Len(h) = 1 => ~(k > 1 /\ g[k - 1].file = g[k].file)
  BY Single
<1>3. F.say = "finding" /\ H.say = "heading" /\ H.of = g[k].file
  BY DEF Err
<1> HIDE DEF H, F
<1>4. /\ IsSeq(t \o h) /\ Len(t) \in Nat /\ DOMAIN t = 1..Len(t) /\ Len(h) \in Nat
      /\ DOMAIN (t \o h) = 1..(Len(t) + Len(h)) /\ Len(t \o h) = Len(t) + Len(h)
      /\ \A i \in DOMAIN (t \o h) : (t \o h)[i] = IF i <= Len(t) THEN t[i] ELSE h[i - Len(t)]
  <2>1. /\ IsSeq(t \o h) /\ Len(t) \in Nat /\ DOMAIN t = 1..Len(t) /\ Len(h) \in Nat
        /\ DOMAIN (t \o h) = 1..(Len(t) + Len(h))
        /\ \A i \in DOMAIN (t \o h) : (t \o h)[i] = IF i <= Len(t) THEN t[i] ELSE h[i - Len(t)]
    BY <1>1, Joined
  <2>2. Len(t \o h) \in Nat /\ DOMAIN (t \o h) = 1..Len(t \o h)
    BY <2>1, ElementsOf
  <2>3. Len(t \o h) = Len(t) + Len(h)
    <3> DEFINE a == Len(t \o h)  b == Len(t) + Len(h)
    <3>1. a \in Nat /\ b \in Nat /\ 1..a = 1..b
      BY <2>1, <2>2
    <3> HIDE DEF a, b
    <3>2. a = b
      BY <3>1
    <3> QED BY <3>2 DEF a, b
  <2> QED BY <2>1, <2>3
<1>5. /\ IsSeq(u) /\ last \in Nat /\ DOMAIN u = 1..last
      /\ \A i \in DOMAIN u : u[i] = IF i < last THEN (t \o h)[i] ELSE F
  <2>1. IsSeq(<<F>>) /\ Len(<<F>>) = 1 /\ <<F>>[1] = F
    BY Single
  <2>2. /\ IsSeq(u) /\ DOMAIN u = 1..(Len(t \o h) + Len(<<F>>))
        /\ \A i \in DOMAIN u : u[i] = IF i <= Len(t \o h) THEN (t \o h)[i] ELSE <<F>>[i - Len(t \o h)]
    BY <1>4, <2>1, Joined
  <2> HIDE DEF u
  <2> QED BY <1>4, <2>1, <2>2
<1> HIDE DEF u, last
<1>6. \A i \in DOMAIN t : i \in DOMAIN u /\ i \in Nat /\ i < last /\ u[i] = t[i]
  BY <1>4, <1>5 DEF last
<1>7. last \in DOMAIN u /\ u[last] = F
  BY <1>4, <1>5 DEF last
<1>8. \A i \in DOMAIN u : \/ i \in DOMAIN t \/ i = last
                          \/ Len(h) = 1 /\ i = Len(t) + 1 /\ i + 1 = last /\ u[i] = H
  <2>1. SUFFICES ASSUME NEW i \in DOMAIN u, i \notin DOMAIN t, i # last
                 PROVE  Len(h) = 1 /\ i = Len(t) + 1 /\ i + 1 = last /\ u[i] = H
    OBVIOUS
  <2>2. Len(h) = 1 /\ i = Len(t) + 1 /\ i + 1 = last
    BY <1>1, <1>4, <1>5, <2>1 DEF last
  <2>3. i \in DOMAIN (t \o h) /\ ~(i <= Len(t)) /\ i - Len(t) = 1 /\ i < last
    BY <1>4, <2>2
  <2> QED BY <1>1, <1>4, <1>5, <2>2, <2>3
<1>9. Len(h) = 1 => Len(t) + 1 \in DOMAIN u /\ u[Len(t) + 1] = H /\ Len(t) + 1 + 1 = last
                    /\ Len(t) + 1 < last
  <2>1. Len(h) = 1 => Len(t) + 1 \in DOMAIN u /\ Len(t) + 1 + 1 = last /\ Len(t) + 1 \notin DOMAIN t
                      /\ Len(t) + 1 < last
    BY <1>4, <1>5 DEF last
  <2> QED BY <1>4, <1>5, <1>8, <2>1
<1>10. at \in [1..(k - 1) -> DOMAIN t] /\ \A j \in 1..k : j = k \/ j \in 1..(k - 1)
  BY DEF Stand, RowsAt
<1>11. to[k] = last /\ \A j \in 1..(k - 1) : j \in 1..k /\ to[j] = at[j] /\ at[j] \in DOMAIN t
  BY <1>10
<1>12. to \in [1..k -> DOMAIN u]
  BY <1>6, <1>7, <1>10
<1> HIDE DEF to
<1>13. RowsAt(u, g, k, to)
  <2>1. \A j, l \in 1..k : j < l => to[j] < to[l]
    <3>1. SUFFICES ASSUME NEW j \in 1..k, NEW l \in 1..k, j < l PROVE to[j] < to[l]
      OBVIOUS
    <3>2. j \in 1..(k - 1)
      BY <3>1
    <3>3. CASE l = k
      BY <1>6, <1>11, <3>2, <3>3
    <3>4. CASE l \in 1..(k - 1)
      BY <1>11, <3>1, <3>2, <3>4 DEF Stand, RowsAt
    <3> QED BY <1>10, <3>3, <3>4
  <2>2. \A j \in 1..k : u[to[j]] = Err("finding", g[j])
    <3>1. \A j \in 1..(k - 1) : u[to[j]] = Err("finding", g[j])
      BY <1>6, <1>11 DEF Stand, RowsAt
    <3> QED BY <1>7, <1>10, <1>11, <3>1 DEF F
  <2>3. ASSUME NEW i \in DOMAIN u, u[i].say = "finding" PROVE \E j \in 1..k : i = to[j]
    <3>1. CASE i \in DOMAIN t
      <4>1. PICK j \in 1..(k - 1) : i = at[j]
        BY <1>6, <2>3, <3>1 DEF Stand, RowsAt
      <4> QED BY <1>11, <4>1
    <3>2. CASE i = last
      BY <1>11, <3>2
    <3> QED BY <1>3, <1>8, <2>3, <3>1, <3>2
  <2> QED BY <1>12, <2>1, <2>2, <2>3 DEF RowsAt
<1>14. /\ \A j \in 1..k : g[j].file \in Nat
       /\ \A j \in 1..(k - 1) : Len(h) = 1 => g[j].file < g[k].file
  <2>1. \A j \in 1..k : j \in 1..n /\ g[j].file \in Nat
    BY DEF InOrder
  <2>2. ASSUME NEW j \in 1..(k - 1), Len(h) = 1 PROVE g[j].file < g[k].file
    <3>1. k - 1 \in 1..n /\ k > 1 /\ k - 1 < k /\ j \in 1..n /\ (j = k - 1 \/ j < k - 1)
      OBVIOUS
    <3>2. g[k - 1].file <= g[k].file /\ g[k - 1].file # g[k].file
      BY <1>2, <2>1, <2>2, <3>1 DEF InOrder
    <3>3. g[j].file <= g[k - 1].file
      BY <2>1, <3>1 DEF InOrder
    <3> QED BY <2>1, <3>1, <3>2, <3>3
  <2> QED BY <2>1, <2>2
<1>15. HeadingsAt(u, g, k, to)
  <2>1. ASSUME NEW i \in DOMAIN t, u[i].say = "heading"
        PROVE  \E j \in 1..(k - 1) : i + 1 = at[j] /\ u[i] = Err("heading", g[j].file)
    BY <1>6, <2>1 DEF Stand, HeadingsAt
  <2>2. ASSUME NEW i \in DOMAIN u, u[i].say = "heading"
        PROVE  \E j \in 1..k : i + 1 = to[j] /\ u[i] = Err("heading", g[j].file)
    <3>1. CASE i \in DOMAIN t
      BY <1>11, <2>1, <2>2, <3>1
    <3>2. CASE i = last
      BY <1>3, <1>7, <2>2, <3>2
    <3>3. CASE i + 1 = last /\ u[i] = H
      BY <1>11, <3>3 DEF H
    <3> QED BY <1>8, <3>1, <3>2, <3>3
  <2>3. ASSUME NEW j \in 1..k
        PROVE  \E i \in DOMAIN u : i < to[j] /\ u[i] = Err("heading", g[j].file)
    <3>1. ASSUME NEW l \in 1..(k - 1)
          PROVE  \E i \in DOMAIN t : i < at[l] /\ t[i] = Err("heading", g[l].file)
      BY DEF Stand, HeadingsAt
    <3>2. CASE j \in 1..(k - 1)
      BY <1>6, <1>11, <3>1, <3>2
    <3>3. CASE j = k /\ Len(h) = 1
      BY <1>9, <1>11, <3>3 DEF H
    <3>4. CASE j = k /\ Len(h) = 0
      <4>1. k - 1 \in 1..(k - 1) /\ g[k - 1].file = g[k].file
        BY <1>2, <3>4
      <4>2. PICK i \in DOMAIN t : t[i] = Err("heading", g[k].file)
        BY <3>1, <4>1
      <4> QED BY <1>6, <1>11, <3>4, <4>2
    <3> QED BY <1>1, <1>10, <3>2, <3>3, <3>4
  <2>4. ASSUME NEW i \in DOMAIN u, NEW m \in DOMAIN u, u[i].say = "heading", u[m].say = "heading", i < m
        PROVE  u[i].of < u[m].of
    <3>1. CASE i \in DOMAIN t /\ m \in DOMAIN t
      BY <1>6, <2>4, <3>1 DEF Stand, HeadingsAt
    <3>2. CASE i \in DOMAIN t /\ m \notin DOMAIN t
      <4>1. Len(h) = 1 /\ u[m] = H
        BY <1>3, <1>7, <1>8, <2>4, <3>2
      <4>2. PICK j \in 1..(k - 1) : u[i] = Err("heading", g[j].file)
        BY <2>1, <2>4, <3>2
      <4>3. u[i].of = g[j].file
        BY <4>2 DEF Err
      <4> QED BY <1>3, <1>14, <4>1, <4>3
    <3>3. CASE i \notin DOMAIN t
      <4>1. i = Len(t) + 1 /\ m # last /\ i # last
        BY <1>3, <1>7, <1>8, <2>4, <3>3
      <4>2. m \in DOMAIN t \/ m = Len(t) + 1
        BY <1>8, <4>1
      <4> QED BY <1>4, <2>4, <4>1, <4>2
    <3> QED BY <3>1, <3>2, <3>3
  <2> QED BY <2>2, <2>3, <2>4 DEF HeadingsAt
<1>16. Stand(u, g, k, to)
  BY <1>5, <1>13, <1>15 DEF Stand
<1> QED BY <1>16 DEF u, F

\* All rows of a report stand as they should.
LEMMA PrintedStands ==
  ASSUME NEW n \in Nat, NEW g, InOrder(g, n)
  PROVE  \E at : Stand(Printed(g).text, g, n, at)
<1>1. PICK rows \in [0..n -> Reports(g, n)] :
        /\ rows[0] = EmptyReport
        /\ \A k \in 1..n : rows[k] = WithRow(rows[k - 1], g[k])
        /\ Printed(g) = rows[n]
  BY RowByRow DEF InOrder
<1> DEFINE Heading(k) == IF k = 0 THEN NoHeading ELSE g[k].file
           Good(k) == rows[k].heading = Heading(k) /\ \E at : Stand(rows[k].text, g, k, at)
           Bad == {k \in 0..n : ~Good(k)}
<1>2. SUFFICES ASSUME Bad # {} PROVE FALSE
  <2>1. n \in 0..n /\ (n \notin Bad => Good(n))
    OBVIOUS
  <2> HIDE DEF Bad
  <2> QED BY <1>1, <2>1
<1>3. PICK k \in Bad : \A j \in Bad : k <= j
  <2>1. Bad \subseteq Nat
    OBVIOUS
  <2> HIDE DEF Bad
  <2> QED BY <1>2, <2>1, LeastNat
<1>4. k \in 0..n /\ ~Good(k) /\ \A j \in 0..n : ~(k <= j) => Good(j)
  <2> HIDE DEF Good
  <2> QED BY <1>3
<1>5. CASE k = 0
  BY <1>1, <1>4, <1>5, NothingStands DEF EmptyReport
<1>6. CASE k # 0
  <2> DEFINE r == rows[k - 1]
             h == IF r.heading = g[k].file THEN <<>> ELSE <<Err("heading", g[k].file)>>
  <2>1. k \in 1..n /\ k - 1 \in 0..n /\ ~(k <= k - 1)
    BY <1>4, <1>6
  <2>2. Good(k - 1)
    <3> HIDE DEF Good
    <3> QED BY <1>4, <2>1
  <2>3. h = IF k > 1 /\ g[k - 1].file = g[k].file THEN <<>> ELSE <<Err("heading", g[k].file)>>
    <3>1. k = 1 => r.heading = NoHeading /\ g[k].file # NoHeading
      BY <2>1, <2>2 DEF InOrder
    <3>2. k > 1 => r.heading = g[k - 1].file
      BY <2>1, <2>2
    <3> QED BY <2>1, <3>1, <3>2
  <2>4. PICK at : Stand(r.text, g, k - 1, at)
    BY <2>2
  <2>5. rows[k].text = (r.text \o h) \o <<Err("finding", g[k])>> /\ rows[k].heading = g[k].file
    <3>1. rows[k] = WithRow(r, g[k])
      BY <1>1, <2>1
    <3>2. WithRow(r, g[k]) = [text |-> (r.text \o h) \o <<Err("finding", g[k])>>, heading |-> g[k].file]
      BY DEF WithRow, h
    <3> HIDE DEF r, h
    <3> QED BY <3>1, <3>2
  <2> HIDE DEF h, r
  <2>6. PICK to : Stand(rows[k].text, g, k, to)
    BY <2>1, <2>3, <2>4, <2>5, OneMoreRow
  <2> QED BY <1>4, <1>6, <2>5, <2>6
<1> QED BY <1>5, <1>6

-----------------------------------------------------------------------------
(* The hints of a report                                                    *)

\* A list in which nothing comes twice.
Distinct(s) == \A i, j \in DOMAIN s : s[i] = s[j] => i = j

LEMMA OneMoreKind ==
  ASSUME NEW S, NEW s \in Seq(S), Distinct(s), NEW f, f.kind \in S
  PROVE  /\ Distinct(WithKind(s, f))
         /\ Range(WithKind(s, f)) = Range(s) \cup {f.kind}
<1> DEFINE x == f.kind
           u == Append(s, x)
<1>1. Len(s) \in Nat /\ DOMAIN s = 1..Len(s)
  OBVIOUS
<1>2. CASE Contains(s, x)
  <2>1. WithKind(s, f) = s
    BY <1>2 DEF WithKind
  <2>2. x \in Range(s)
    BY <1>2 DEF Contains, Range
  <2> QED BY <2>1, <2>2
<1>3. CASE ~Contains(s, x)
  <2>1. WithKind(s, f) = u
    BY <1>3 DEF WithKind
  <2>2. \A i \in 1..Len(s) : s[i] # x
    BY <1>1, <1>3 DEF Contains
  <2>3. /\ DOMAIN u = 1..(Len(s) + 1) /\ u[Len(s) + 1] = x
        /\ \A i \in 1..Len(s) : u[i] = s[i]
    BY <1>1
  <2> HIDE DEF u, x
  <2>4. \A i \in 1..(Len(s) + 1) : i = Len(s) + 1 \/ i \in 1..Len(s)
    BY <1>1
  <2>5. Distinct(u)
    BY <1>1, <2>2, <2>3, <2>4 DEF Distinct
  <2>6. Range(u) = Range(s) \cup {x}
    <3>1. \A y \in Range(u) : y \in Range(s) \cup {x}
      BY <1>1, <2>3, <2>4 DEF Range
    <3>2. \A y \in Range(s) : y \in Range(u)
      BY <1>1, <2>3 DEF Range
    <3>3. x \in Range(u)
      BY <1>1, <2>3 DEF Range
    <3> QED BY <3>1, <3>2, <3>3
  <2> QED BY <2>1, <2>5, <2>6 DEF x
<1> QED BY <1>2, <1>3

\* Every kind is kept, and once.
LEMMA KindsOnce ==
  ASSUME NEW n \in Nat, NEW g, DOMAIN g = 1..n
  PROVE  /\ IsSeq(DistinctKinds(g)) /\ Distinct(DistinctKinds(g))
         /\ Range(DistinctKinds(g)) = KindsOf(g, n)
<1>1. PICK kinds \in [0..n -> Seq(KindsOf(g, n))] :
        /\ kinds[0] = <<>>
        /\ \A k \in 1..n : kinds[k] = WithKind(kinds[k - 1], g[k])
        /\ DistinctKinds(g) = kinds[n]
  BY KindByKind
<1> DEFINE Good(k) == Distinct(kinds[k]) /\ Range(kinds[k]) = KindsOf(g, k)
           Bad == {k \in 0..n : ~Good(k)}
<1>2. SUFFICES ASSUME Bad # {} PROVE FALSE
  <2>1. n \in 0..n /\ (n \notin Bad => Good(n)) /\ kinds[n] \in Seq(KindsOf(g, n))
    OBVIOUS
  <2> HIDE DEF Bad
  <2> QED BY <1>1, <2>1, SeqFacts
<1>3. PICK k \in Bad : \A j \in Bad : k <= j
  <2>1. Bad \subseteq Nat
    OBVIOUS
  <2> HIDE DEF Bad
  <2> QED BY <1>2, <2>1, LeastNat
<1>4. k \in 0..n /\ ~Good(k) /\ \A j \in 0..n : ~(k <= j) => Good(j)
  <2> HIDE DEF Good
  <2> QED BY <1>3
<1>5. CASE k = 0
  <2>1. Range(<<>>) = {} /\ DOMAIN <<>> = {} /\ KindsOf(g, 0) = {}
    BY DEF KindsOf, Range
  <2> QED BY <1>1, <1>4, <1>5, <2>1 DEF Distinct
<1>6. CASE k # 0
  <2>1. k \in 1..n /\ k - 1 \in 0..n /\ ~(k <= k - 1)
    BY <1>4, <1>6
  <2>2. Good(k - 1)
    <3> HIDE DEF Good
    <3> QED BY <1>4, <2>1
  <2>3. g[k].kind \in KindsOf(g, n) /\ kinds[k - 1] \in Seq(KindsOf(g, n))
        /\ kinds[k] = WithKind(kinds[k - 1], g[k])
    BY <1>1, <2>1 DEF KindsOf
  <2>4. Distinct(kinds[k]) /\ Range(kinds[k]) = KindsOf(g, k - 1) \cup {g[k].kind}
    BY <2>2, <2>3, OneMoreKind
  <2>5. KindsOf(g, k) = KindsOf(g, k - 1) \cup {g[k].kind}
    <3>1. \A j \in 1..k : j = k \/ j \in 1..(k - 1)
      BY <2>1
    <3>2. k \in 1..k /\ \A j \in 1..(k - 1) : j \in 1..k
      BY <2>1
    <3> QED BY <3>1, <3>2 DEF KindsOf
  <2> QED BY <1>4, <2>4, <2>5
<1> QED BY <1>5, <1>6

\* The lines of t that are hints are those of these kinds, one of each.
HintsIn(t, kinds) ==
    /\ IsSeq(t)
    /\ \A i \in DOMAIN t : t[i].say = "hint" => t[i].of \in kinds /\ t[i] = Err("hint", t[i].of)
    /\ \A k \in kinds : \E i \in DOMAIN t : t[i] = Err("hint", k)
    /\ \A i, j \in DOMAIN t : t[i].say = "hint" /\ t[i] = t[j] => i = j

LEMMA HintsOfKinds ==
  ASSUME NEW s, IsSeq(s), Distinct(s), NEW h, h = [i \in DOMAIN s |-> Err("hint", s[i])]
  PROVE  HintsIn(h, Range(s)) /\ \A l \in Range(h) : l.say = "hint"
<1>1. Len(s) \in Nat /\ DOMAIN s = 1..Len(s) /\ DOMAIN h = DOMAIN s
  BY ElementsOf
<1>2. \A i \in DOMAIN s : h[i] = Err("hint", s[i]) /\ h[i].say = "hint" /\ h[i].of = s[i]
  BY DEF Err
<1>3. IsSeq(h)
  BY <1>1, Said
<1> QED BY <1>1, <1>2, <1>3 DEF HintsIn, Range, Distinct

NoHint(a) == IsSeq(a) /\ \A l \in Range(a) : l.say # "hint"

LEMMA HintsStay ==
  ASSUME NEW t, NEW kinds, HintsIn(t, kinds), NEW a, NoHint(a)
  PROVE  HintsIn(t \o a, kinds) /\ HintsIn(a \o t, kinds)
<1>1. HintsIn(t \o a, kinds)
  <2> DEFINE u == t \o a
             n == Len(t)
  <2>1. /\ IsSeq(u) /\ n \in Nat /\ DOMAIN t = 1..n /\ Len(a) \in Nat
        /\ DOMAIN u = 1..(n + Len(a)) /\ DOMAIN a = 1..Len(a)
        /\ \A i \in DOMAIN u : u[i] = IF i <= n THEN t[i] ELSE a[i - n]
    BY Joined DEF HintsIn, NoHint
  <2> HIDE DEF u, n
  <2>2. \A i \in DOMAIN t : i \in DOMAIN u /\ u[i] = t[i]
    BY <2>1
  <2>3. \A i \in DOMAIN u : i \in DOMAIN t \/ u[i].say # "hint"
    <3>1. SUFFICES ASSUME NEW i \in DOMAIN u, i \notin DOMAIN t PROVE u[i].say # "hint"
      OBVIOUS
    <3>2. i - n \in DOMAIN a /\ u[i] = a[i - n]
      BY <2>1, <3>1
    <3> QED BY <3>2, ElementsOf DEF NoHint
  <2>4. HintsIn(u, kinds)
    BY <2>1, <2>2, <2>3 DEF HintsIn
  <2> QED BY <2>4 DEF u
<1>2. HintsIn(a \o t, kinds)
  <2> DEFINE u == a \o t
             n == Len(a)
  <2>1. /\ IsSeq(u) /\ n \in Nat /\ DOMAIN a = 1..n /\ Len(t) \in Nat
        /\ DOMAIN u = 1..(n + Len(t)) /\ DOMAIN t = 1..Len(t)
        /\ \A i \in DOMAIN u : u[i] = IF i <= n THEN a[i] ELSE t[i - n]
    BY Joined DEF HintsIn, NoHint
  <2> HIDE DEF u, n
  <2>2. \A i \in DOMAIN t : i + n \in DOMAIN u /\ u[i + n] = t[i]
    <3>1. SUFFICES ASSUME NEW i \in DOMAIN t PROVE i + n \in DOMAIN u /\ u[i + n] = t[i]
      OBVIOUS
    <3>2. i + n \in DOMAIN u /\ ~(i + n <= n) /\ (i + n) - n = i
      BY <2>1
    <3> QED BY <2>1, <3>2
  <2>3. \A i \in DOMAIN u : u[i].say = "hint" =>
           /\ i \in Nat /\ i - n \in DOMAIN t /\ (i - n) + n = i /\ u[i] = t[i - n]
    <3>1. SUFFICES ASSUME NEW i \in DOMAIN u, u[i].say = "hint"
                   PROVE  i \in Nat /\ i - n \in DOMAIN t /\ (i - n) + n = i /\ u[i] = t[i - n]
      OBVIOUS
    <3>2. ~(i <= n)
      <4>1. SUFFICES ASSUME i <= n PROVE FALSE
        OBVIOUS
      <4>2. i \in DOMAIN a /\ u[i] = a[i]
        BY <2>1, <4>1
      <4> QED BY <3>1, <4>2, ElementsOf DEF NoHint
    <3> QED BY <2>1, <3>2
  <2>4. ASSUME NEW i \in DOMAIN u, NEW j \in DOMAIN u, u[i].say = "hint", u[i] = u[j] PROVE i = j
    <3>1. /\ i \in Nat /\ i - n \in DOMAIN t /\ u[i] = t[i - n]
          /\ j \in Nat /\ j - n \in DOMAIN t /\ u[j] = t[j - n]
      BY <2>3, <2>4
    <3>2. i - n = j - n
      BY <2>4, <3>1 DEF HintsIn
    <3> QED BY <2>1, <3>1, <3>2
  <2>5. \A k \in kinds : \E i \in DOMAIN u : u[i] = Err("hint", k)
    BY <2>2 DEF HintsIn
  <2>6. \A i \in DOMAIN u : u[i].say = "hint" => u[i].of \in kinds /\ u[i] = Err("hint", u[i].of)
    BY <2>3 DEF HintsIn
  <2>7. HintsIn(u, kinds)
    BY <2>1, <2>4, <2>5, <2>6 DEF HintsIn
  <2> QED BY <2>7 DEF u
<1> QED BY <1>1, <1>2

-----------------------------------------------------------------------------
(* A report among the lines                                                 *)

Tally(found) == [effects |-> Len(found), files |-> DistinctFiles(found)]

\* The lines of t are a report of what was found, and others.
Whole(t, found) ==
    /\ \E at : Stand(t, Sorted(found), Len(found), at)
    /\ HintsIn(t, KindsOf(found, Len(found)))
    /\ \E i \in DOMAIN t : t[i] = Err("leaked", Tally(found))

ReportLines == {"finding", "heading", "hint"}
NoReport(a) == IsSeq(a) /\ \A l \in Range(a) : l.say \notin ReportLines

LEMMA SortedInOrder ==
  ASSUME NEW found, HasPlaces(found)
  PROVE  /\ InOrder(Sorted(found), Len(found)) /\ Len(found) \in Nat
         /\ KindsOf(Sorted(found), Len(found)) = KindsOf(found, Len(found))
<1> DEFINE g == Sorted(found)
           n == Len(found)
<1>1. n \in Nat /\ DOMAIN found = 1..n /\ DOMAIN g = 1..n
  BY SortedPlaces, ElementsOf DEF HasPlaces
<1>0. PICK order \in [DOMAIN found -> DOMAIN found] :
        /\ \A k, l \in DOMAIN found : k < l => Precedes(found, order[k], order[l])
        /\ \A i \in DOMAIN found : \E k \in DOMAIN found : order[k] = i
        /\ \A k \in DOMAIN found : Sorted(found)[k] = found[order[k]]
  BY SortedIsAnOrder
<1> HIDE DEF n
<1>2. /\ order \in [1..n -> 1..n]
      /\ \A k, l \in 1..n : k < l => Precedes(found, order[k], order[l])
      /\ \A i \in 1..n : \E k \in 1..n : order[k] = i
      /\ \A k \in 1..n : g[k] = found[order[k]]
  BY <1>0, <1>1
<1> HIDE DEF g
<1>3. \A k \in 1..n : g[k].file \in Nat \ {NoHeading} /\ g[k].line \in Nat
  BY <1>1, <1>2, ZenonT(30) DEF HasPlaces, Range
<1>4. ASSUME NEW k \in 1..n, NEW l \in 1..n, k < l
      PROVE  \/ g[k].file < g[l].file
             \/ g[k].file = g[l].file /\ g[k].line <= g[l].line
  <2>1. Precedes(found, order[k], order[l]) /\ g[k] = found[order[k]] /\ g[l] = found[order[l]]
    BY <1>2, <1>4
  <2> QED BY <1>3, <2>1 DEF Precedes
<1>5. InOrder(g, n)
  BY <1>1, <1>3, <1>4 DEF InOrder
<1>6. KindsOf(g, n) = KindsOf(found, n)
  <2>1. \A x \in KindsOf(g, n) : x \in KindsOf(found, n)
    <3>1. SUFFICES ASSUME NEW k \in 1..n PROVE g[k].kind \in KindsOf(found, n)
      BY DEF KindsOf
    <3>2. order[k] \in 1..n /\ g[k] = found[order[k]]
      BY <1>2
    <3> QED BY <3>2 DEF KindsOf
  <2>2. \A x \in KindsOf(found, n) : x \in KindsOf(g, n)
    <3>1. SUFFICES ASSUME NEW i \in 1..n PROVE found[i].kind \in KindsOf(g, n)
      BY DEF KindsOf
    <3>2. PICK k \in 1..n : g[k] = found[i]
      BY <1>2, SMTT(30)
    <3> QED BY <3>2 DEF KindsOf
  <2> QED BY <2>1, <2>2
<1> QED BY <1>1, <1>5, <1>6 DEF g, n

\* What is rendered, with the closing line, is a report.
LEMMA RenderedIsWhole ==
  ASSUME NEW found, HasPlaces(found)
  PROVE  Whole(Rendered(found) \o <<Err("leaked", Tally(found))>>, found)
<1> DEFINE g == Sorted(found)
           n == Len(found)
           rows == Printed(g).text
           kinds == DistinctKinds(g)
           hints == [i \in DOMAIN kinds |-> Err("hint", kinds[i])]
           last == Err("leaked", Tally(found))
           K == KindsOf(found, n)
<1>1. Rendered(found) = rows \o hints
  BY DEF Rendered, Printed, EmptyReport
<1>2. InOrder(g, n) /\ n \in Nat /\ DOMAIN g = 1..n /\ KindsOf(g, n) = K
  BY SortedInOrder DEF InOrder
<1>3. last.say = "leaked"
  BY DEF Err
<1> HIDE DEF g, n, K, last
<1>4. PICK at : Stand(rows, g, n, at)
  BY <1>2, PrintedStands
<1>5. IsSeq(kinds) /\ Distinct(kinds) /\ Range(kinds) = K
  BY <1>2, KindsOnce
<1> HIDE DEF rows, kinds
<1>6. HintsIn(hints, K) /\ \A l \in Range(hints) : l.say = "hint"
  BY <1>5, HintsOfKinds
<1> HIDE DEF hints
<1>7. IsSeq(rows) /\ IsSeq(hints) /\ IsSeq(<<last>>) /\ Range(<<last>>) = {last}
      /\ Len(<<last>>) = 1 /\ <<last>>[1] = last
  BY <1>4, <1>6, Single DEF Stand, HintsIn
<1>8. \A l \in Range(rows) : l.say # "hint"
  <2>1. PICK prints \in [0..n -> Reports(g, n)] : Printed(g) = prints[n]
    BY <1>2, RowByRow
  <2>2. Printed(g) \in Reports(g, n)
    BY <1>2, <2>1
  <2>3. rows \in Seq(RowLines(g, n))
    BY <2>2 DEF rows, Reports
  <2>4. Range(rows) \subseteq RowLines(g, n)
    BY <2>3, SeqFacts
  <2>5. \A l \in RowLines(g, n) : l.say # "hint"
    BY DEF RowLines, Err
  <2> QED BY <2>4, <2>5
<1>9. Stand(rows \o hints, g, n, at) /\ HintsIn(rows \o hints, K)
  <2>1. NeitherRowNorHeading(hints) /\ NoHint(rows)
    BY <1>6, <1>7, <1>8 DEF NeitherRowNorHeading, NoHint
  <2> QED BY <1>2, <1>4, <1>6, <2>1, StandBefore, HintsStay
<1> DEFINE t == rows \o hints
           u == t \o <<last>>
<1>10. Stand(u, g, n, at) /\ HintsIn(u, K)
  <2>1. NeitherRowNorHeading(<<last>>) /\ NoHint(<<last>>)
    BY <1>3, <1>7 DEF NeitherRowNorHeading, NoHint
  <2> HIDE DEF t
  <2>2. Stand(t, g, n, at) /\ HintsIn(t, K)
    BY <1>9 DEF t
  <2> QED BY <1>2, <2>1, <2>2, StandBefore, HintsStay
<1>11. \E i \in DOMAIN u : u[i] = last
  <2>1. IsSeq(t)
    BY <1>9 DEF Stand
  <2> HIDE DEF t
  <2>2. /\ Range(u) = Range(t) \cup {last}
    BY <1>7, <2>1, Joined
  <2>3. last \in Range(u)
    BY <2>2
  <2> HIDE DEF u
  <2> QED BY <2>3 DEF Range
<1> HIDE DEF t, u
<1>12. Whole(u, found)
  BY <1>10, <1>11 DEF Whole, g, n, K, last
<1> QED BY <1>1, <1>12 DEF t, u, last

\* Lines of another sort may go before a report and follow it.
LEMMA WholeAmongOthers ==
  ASSUME NEW found, Len(found) \in Nat, NEW t, Whole(t, found), NEW a, NoReport(a)
  PROVE  Whole(t \o a, found) /\ Whole(a \o t, found)
<1> DEFINE g == Sorted(found)
           n == Len(found)
           last == Err("leaked", Tally(found))
           K == KindsOf(found, n)
<1>1. PICK at : Stand(t, g, n, at)
  BY DEF Whole
<1>2. HintsIn(t, K) /\ last \in Range(t) /\ IsSeq(t)
  BY DEF Whole, Range, HintsIn
<1>3. NeitherRowNorHeading(a) /\ NoHint(a) /\ IsSeq(a)
  BY DEF NoReport, ReportLines, NeitherRowNorHeading, NoHint
<1> HIDE DEF g, n, last, K
<1>4. HintsIn(t \o a, K) /\ HintsIn(a \o t, K)
  BY <1>2, <1>3, HintsStay
<1>5. n \in Nat
  BY DEF n
<1>6. Stand(t \o a, g, n, at) /\ \E to : Stand(a \o t, g, n, to)
  BY <1>1, <1>3, <1>5, StandBefore, StandBehind
<1>7. last \in Range(t \o a) /\ last \in Range(a \o t)
  BY <1>2, <1>3, Joined
<1> DEFINE u == t \o a
           v == a \o t
<1>8. (\E i \in DOMAIN u : u[i] = last) /\ (\E i \in DOMAIN v : v[i] = last)
  <2> HIDE DEF u, v
  <2>1. last \in Range(u) /\ last \in Range(v)
    BY <1>7 DEF u, v
  <2> QED BY <2>1 DEF Range
<1> QED BY <1>4, <1>6, <1>8 DEF Whole, g, n, K, last

-----------------------------------------------------------------------------
(* The invariant                                                            *)

LEMMA InitInv == Init => IInv
<1> SUFFICES ASSUME Init PROVE IInv
  OBVIOUS
<1>1. ReadInv
  BY ParseInitRead DEF Init
<1>2. StagesAgree /\ ExitAgrees
  BY DEF Init, StagesAgree, ExitAgrees, Ended, Running
<1>3. SaidSoFar /\ SaidAtTheEnd
  BY Empty DEF Init, SaidSoFar, SaidAtTheEnd, IsSeq, Ended
<1> QED BY <1>1, <1>2, <1>3 DEF IInv

LEMMA ParseKeeps == IInv /\ Parse => IInv'
<1> SUFFICES ASSUME IInv, Parse PROVE IInv'
  OBVIOUS
<1>1. stage = "parse" /\ UNCHANGED <<result, stage, text, exit>>
  BY DEF Parse
<1>2. ReadInv'
  BY ParseNextOn DEF Parse, IInv
<1>3. result = Pending /\ text = <<>> /\ exit = Running
  BY <1>1 DEF IInv, StagesAgree, ExitAgrees, Ended
<1>4. StagesAgree'
  BY <1>1, <1>3 DEF StagesAgree
<1>5. ExitAgrees' /\ SaidAtTheEnd'
  BY <1>1, <1>3 DEF ExitAgrees, SaidAtTheEnd, Ended, Running
<1>6. SaidSoFar'
  BY <1>1 DEF SaidSoFar, IInv
<1> QED BY <1>2, <1>4, <1>5, <1>6 DEF IInv

\* Behind the parser the options stay.
LEMMA Behind ==
  ASSUME IInv, UNCHANGED parsing
  PROVE  /\ ReadInv' /\ Json' = Json /\ status' = status
         /\ \A switch : On(switch)' = On(switch)
         /\ \A r : Allowed(r)' = Allowed(r)
<1>1. ReadInv'
  BY ParseStutter DEF IInv
<1> QED BY <1>1 DEF parsing, Json, On, Allowed

LEMMA StutterKeeps == IInv /\ UNCHANGED vars => IInv'
<1> SUFFICES ASSUME IInv, UNCHANGED vars PROVE IInv'
  OBVIOUS
<1>1. UNCHANGED parsing /\ UNCHANGED <<result, stage, text, exit>>
  BY DEF vars, parsing
<1>5. Judging' = Judging /\ Json' = Json /\ Allowed(result)' = Allowed(result) /\ status' = status
      /\ On("--advisory")' = On("--advisory")
  BY <1>1 DEF Judging, On, Json, Allowed, parsing
<1>2. StagesAgree'
  BY <1>1, <1>5 DEF IInv, StagesAgree
<1>3. ExitAgrees' /\ SaidSoFar'
  BY <1>1, <1>5 DEF IInv, ExitAgrees, SaidSoFar, Ended, Clean
<1>4. SaidAtTheEnd'
  BY <1>1, <1>5 DEF IInv, SaidAtTheEnd, Ended, OneObject, Object, SkippedLines
<1> QED BY <1>1, <1>2, <1>3, <1>4, Behind DEF IInv

-----------------------------------------------------------------------------
(* The answers that no audit goes before, and the audit                     *)

\* Leaving without a verdict: anything may have been said on stderr before.
LEMMA LeavesUnjudged ==
  ASSUME IInv, NEW code \in {0, 2, 101}, NEW say, IsSeq(say), Exit(code, say),
         ~Ended, result.end # "outcome"
  PROVE  IInv'
<1>1. /\ exit' = code /\ text' = text \o say /\ stage' = "done"
      /\ UNCHANGED parsing /\ result' = result
  BY DEF Exit
<1>2. ReadInv' /\ Json' = Json /\ status' = status /\ Allowed(result)' = Allowed(result)
      /\ Judging' = Judging
  BY <1>1, Behind DEF Judging, On, parsing
<1>3. StagesAgree'
  BY <1>1, <1>2 DEF IInv, StagesAgree, Judging
<1>4. ExitAgrees'
  BY <1>1, <1>2 DEF ExitAgrees, Judging, Ended, Running
<1>5. SaidSoFar'
  BY <1>1, Joined DEF IInv, SaidSoFar, IsSeq
<1>6. SaidAtTheEnd'
  BY <1>1, <1>2 DEF SaidAtTheEnd, Judging
<1> QED BY <1>2, <1>3, <1>4, <1>5, <1>6 DEF IInv

LEMMA AnswersKeep == IInv /\ (AnswerHelp \/ AnswerMistake \/ AnswerPanic) => IInv'
<1> SUFFICES ASSUME IInv, AnswerHelp \/ AnswerMistake \/ AnswerPanic PROVE IInv'
  OBVIOUS
<1>0. stage = "parse"
  BY DEF AnswerHelp, AnswerMistake, AnswerPanic
<1>1. ~Ended /\ result.end # "outcome"
  <2>1. result = Pending /\ ~Ended
    BY <1>0 DEF IInv, StagesAgree, ExitAgrees
  <2> QED BY <2>1 DEF Pending
<1>2. CASE AnswerHelp
  BY <1>1, <1>2, Single, LeavesUnjudged DEF AnswerHelp
<1>3. CASE AnswerMistake
  BY <1>1, <1>3, Single, LeavesUnjudged DEF AnswerMistake
<1>4. CASE AnswerPanic
  BY <1>1, <1>4, Single, LeavesUnjudged DEF AnswerPanic
<1> QED BY <1>2, <1>3, <1>4

LEMMA RefusalsKeep == IInv /\ (AuditFails \/ NoCoreCrates \/ MissingRole) => IInv'
<1> SUFFICES ASSUME IInv, AuditFails \/ NoCoreCrates \/ MissingRole PROVE IInv'
  OBVIOUS
<1>1. ~Ended /\ result.end # "outcome"
  BY DEF AuditFails, NoCoreCrates, MissingRole, IInv, StagesAgree, ExitAgrees
<1>2. CASE AuditFails
  BY <1>1, <1>2, Single, LeavesUnjudged DEF AuditFails
<1>3. CASE NoCoreCrates
  <2>1. Exit(0, <<Err("audited nothing", "")>>) \/ Exit(2, <<Err("audited nothing", "")>>)
    BY <1>3 DEF NoCoreCrates
  <2> QED BY <1>1, <2>1, Single, LeavesUnjudged
<1>4. CASE MissingRole
  BY <1>1, <1>4, Single, LeavesUnjudged DEF MissingRole
<1> QED BY <1>2, <1>3, <1>4

LEMMA AuditKeeps == IInv /\ Audit => IInv'
<1> SUFFICES ASSUME IInv, Audit PROVE IInv'
  OBVIOUS
<1>1. /\ stage = "parse" /\ status = "accepted" /\ result' \in Results /\ Allowed(result')
      /\ stage' = result'.end
      /\ text' = [k \in DOMAIN result'.inert |-> Err("inert", result'.inert[k])]
      /\ UNCHANGED parsing /\ exit' = exit
  BY DEF Audit
<1>2. ReadInv' /\ status' = status /\ (\A r : Allowed(r)' = Allowed(r))
  BY <1>1, Behind
<1>3. Allowed(result)'
  BY <1>1 DEF Allowed, On, parsing
<1>4. /\ result'.end \in {"outcome", "failed", "no core crate", "no such role"}
      /\ result'.inert \in Seq(Range(result'.inert))
  BY <1>1, ResultsAssumption
<1>5. StagesAgree'
  BY <1>1, <1>2, <1>3, <1>4 DEF StagesAgree
<1>6. exit = Running /\ ~Ended
  BY <1>1 DEF IInv, ExitAgrees, Ended
<1>7. ExitAgrees' /\ SaidAtTheEnd'
  BY <1>1, <1>4, <1>6 DEF ExitAgrees, SaidAtTheEnd, Ended, Running
<1>8. SaidSoFar'
  <2>1. Len(result'.inert) \in Nat /\ DOMAIN result'.inert = 1..Len(result'.inert)
    BY <1>4, SeqFacts
  <2>2. IsSeq(text')
    BY <1>1, <2>1, Said
  <2>3. \A l \in Range(text') : l.to = "stderr" /\ l.say = "inert"
    BY <1>1 DEF Range, Err
  <2> QED BY <2>2, <2>3 DEF SaidSoFar, IsSeq
<1> QED BY <1>2, <1>5, <1>7, <1>8 DEF IInv


-----------------------------------------------------------------------------
(* What is printed of an outcome                                            *)

\* The lists of an outcome are lists, and so is what is said of them.
LEMMA OutcomeLists ==
  ASSUME IInv, result.end = "outcome"
  PROVE  /\ result \in Results /\ Allowed(result) /\ status = "accepted"
         /\ IsSeq(result.findings) /\ IsSeq(result.stale) /\ IsSeq(result.skipped)
         /\ IsSeq(StaleLines) /\ IsSeq(SkippedLines)
         /\ \A l \in Range(StaleLines) : l.to = "stderr"
         /\ \A l \in Range(SkippedLines) : l.to = "stderr"
<1>1. result # Pending
  BY DEF Pending
<1>2. result \in Results /\ Allowed(result) /\ status = "accepted"
  BY <1>1 DEF IInv, StagesAgree
<1>3. IsSeq(result.findings) /\ IsSeq(result.stale) /\ IsSeq(result.skipped)
  BY <1>2, ResultsAssumption DEF IsSeq
<1>4. /\ Len(result.stale) \in Nat /\ DOMAIN result.stale = 1..Len(result.stale)
      /\ Len(result.skipped) \in Nat /\ DOMAIN result.skipped = 1..Len(result.skipped)
  BY <1>3, SeqFacts DEF IsSeq
<1>5. IsSeq(StaleLines)
  BY <1>4, Said DEF StaleLines
<1>6. IsSeq(SkippedLines)
  BY <1>4, Said DEF SkippedLines
<1>7. \A l \in Range(StaleLines) : l.to = "stderr"
  <2>1. \A k \in DOMAIN StaleLines : StaleLines[k].to = "stderr"
    BY DEF Err, StaleLines
  <2> QED BY <2>1, Zenon DEF Range
<1>8. \A l \in Range(SkippedLines) : l.to = "stderr"
  <2>1. \A k \in DOMAIN SkippedLines : SkippedLines[k].to = "stderr"
    BY DEF Err, SkippedLines
  <2> QED BY <2>1, Zenon DEF Range
<1> QED BY <1>2, <1>3, <1>5, <1>6, <1>7, <1>8

\* The report goes on: only stderr gets more of it.
LEMMA GoesOn ==
  ASSUME IInv, NEW next \in {"leaks", "stale", "notes"}, NEW say, IsSeq(say), Go(next, say),
         \A l \in Range(say) : l.to = "stderr", stage \notin {"exit", "done"}, Judging, ~Json
  PROVE  IInv'
<1>1. /\ exit' = exit /\ text' = text \o say /\ stage' = next
      /\ UNCHANGED parsing /\ result' = result
  BY DEF Go
<1>2. ReadInv' /\ Json' = Json /\ status' = status /\ Allowed(result)' = Allowed(result)
      /\ Judging' = Judging
  BY <1>1, Behind DEF Judging, On, parsing
<1>3. StagesAgree'
  BY <1>1, <1>2 DEF IInv, StagesAgree, Judging
<1>4. ~Ended /\ exit = Running
  BY DEF IInv, ExitAgrees, Ended
<1>5. ExitAgrees' /\ SaidAtTheEnd'
  BY <1>1, <1>4 DEF ExitAgrees, SaidAtTheEnd, Ended, Running
<1>6. IsSeq(text) /\ \A l \in Range(text) : l.to = "stderr"
  BY DEF IInv, SaidSoFar, IsSeq
<1>7. SaidSoFar'
  BY <1>1, <1>6, Joined DEF SaidSoFar, IsSeq
<1> QED BY <1>2, <1>3, <1>5, <1>7 DEF IInv

\* All is said: the exit code is left to settle.
LEMMA AllSaid ==
  ASSUME IInv, NEW say, IsSeq(say), Go("exit", say), stage \notin {"exit", "done"}, Judging,
         SaidAtTheEnd'
  PROVE  IInv'
<1>1. /\ exit' = exit /\ text' = text \o say /\ stage' = "exit"
      /\ UNCHANGED parsing /\ result' = result
  BY DEF Go
<1>2. ReadInv' /\ Json' = Json /\ status' = status /\ Allowed(result)' = Allowed(result)
      /\ Judging' = Judging
  BY <1>1, Behind DEF Judging, On, parsing
<1>3. StagesAgree'
  BY <1>1, <1>2 DEF IInv, StagesAgree, Judging
<1>4. ~Ended /\ exit = Running
  BY DEF IInv, ExitAgrees, Ended
<1>5. ExitAgrees'
  BY <1>1, <1>4 DEF ExitAgrees, Ended, Running
<1>6. SaidSoFar'
  BY <1>1, Joined DEF IInv, SaidSoFar, IsSeq
<1> QED BY <1>2, <1>3, <1>5, <1>6 DEF IInv

LEMMA UpdateKeeps == IInv /\ AnnounceUpdate => IInv'
<1> SUFFICES ASSUME IInv, AnnounceUpdate PROVE IInv'
  OBVIOUS
<1> DEFINE first == <<Err("wrote", Len(result.findings))>>
           say == first \o SkippedLines
<1>1. /\ stage = "outcome" /\ On("--update-baseline") /\ Exit(0, say)
      /\ result.end = "outcome" /\ ~Judging
  BY DEF AnnounceUpdate, IInv, StagesAgree, Judging
<1>2. IsSeq(first) /\ IsSeq(SkippedLines)
  BY <1>1, Single, OutcomeLists
<1> HIDE DEF first
<1>3. IsSeq(say) /\ Range(say) = Range(first) \cup Range(SkippedLines)
  BY <1>2, Joined
<1> HIDE DEF say
<1>4. /\ exit' = 0 /\ text' = text \o say /\ stage' = "done"
      /\ UNCHANGED parsing /\ result' = result
  BY <1>1 DEF Exit
<1>5. ReadInv' /\ Json' = Json /\ status' = status /\ Allowed(result)' = Allowed(result)
      /\ Judging' = Judging
  BY <1>4, Behind DEF Judging, On, parsing
<1>6. IsSeq(text') /\ Range(text') = Range(text) \cup Range(say)
  BY <1>3, <1>4, Joined DEF IInv, SaidSoFar, IsSeq
<1>7. StagesAgree'
  BY <1>1, <1>4, <1>5 DEF IInv, StagesAgree
<1>8. ExitAgrees'
  BY <1>1, <1>4, <1>5 DEF ExitAgrees, Ended, Running
<1>9. SaidSoFar'
  BY <1>4, <1>6 DEF SaidSoFar, IsSeq
<1>10. SaidAtTheEnd'
  <2>1. SkippedLines' = SkippedLines
    BY <1>4 DEF SkippedLines
  <2>2. Range(SkippedLines') \subseteq Range(text')
    BY <1>3, <1>6, <2>1
  <2> QED BY <1>1, <1>4, <1>5, <2>2 DEF SaidAtTheEnd
<1> QED BY <1>5, <1>7, <1>8, <1>9, <1>10 DEF IInv


\* Where an outcome has only been announced, stdout is empty and stderr holds
\* what warn_inert_vouching said.
LEMMA AtAnOutcome ==
  ASSUME IInv, stage = "outcome", ~On("--update-baseline")
  PROVE  /\ Judging /\ result.end = "outcome" /\ stage \notin {"exit", "done"}
         /\ IsSeq(text) /\ \A l \in Range(text) : l.to = "stderr" /\ l.say = "inert"
  BY DEF IInv, StagesAgree, SaidSoFar, Judging, IsSeq

LEMMA EmitJsonKeeps == IInv /\ EmitJson => IInv'
<1> SUFFICES ASSUME IInv, EmitJson PROVE IInv'
  OBVIOUS
<1> DEFINE last == Out("json", Object)
           n == Len(text)
<1>1. /\ stage = "outcome" /\ ~On("--update-baseline") /\ Json /\ Go("exit", <<last>>)
      /\ Judging /\ result.end = "outcome" /\ stage \notin {"exit", "done"}
      /\ IsSeq(text) /\ \A l \in Range(text) : l.to = "stderr" /\ l.say = "inert"
  BY AtAnOutcome DEF EmitJson
<1>2. last.to = "stdout" /\ last.say = "json" /\ last.of = Object
  BY DEF Out
<1> HIDE DEF last
<1>3. /\ text' = text \o <<last>> /\ UNCHANGED parsing /\ result' = result
  BY <1>1 DEF Go
<1>4. Object' = Object /\ Json' = Json /\ last' = last
  BY <1>3 DEF Object, Json, parsing, last, Out
<1>5. IsSeq(<<last>>) /\ Range(<<last>>) = {last} /\ Len(<<last>>) = 1 /\ <<last>>[1] = last
  BY Single
<1>6. /\ n \in Nat /\ DOMAIN text = 1..n /\ DOMAIN text' = 1..(n + 1)
      /\ \A i \in 1..(n + 1) : text'[i] = IF i <= n THEN text[i] ELSE <<last>>[i - n]
      /\ Range(text') = Range(text) \cup {last}
  BY <1>1, <1>3, <1>5, Joined
<1>7. text'[n + 1] = last /\ \A i \in 1..n : text'[i] = text[i] /\ text[i] \in Range(text)
  <2>1. n + 1 \in 1..(n + 1) /\ ~(n + 1 <= n) /\ (n + 1) - n = 1
    BY <1>6
  <2>2. \A i \in 1..n : i \in 1..(n + 1) /\ i <= n
    BY <1>6
  <2>3. \A i \in DOMAIN text : text[i] \in Range(text)
    BY Zenon DEF Range
  <2> QED BY <1>5, <1>6, <2>1, <2>2, <2>3
<1>8. \A i \in 1..(n + 1) : i # n + 1 => text'[i].to = "stderr"
  <2>1. \A i \in 1..(n + 1) : i # n + 1 => i \in 1..n
    BY <1>6
  <2> QED BY <1>1, <1>7, <2>1
<1>9. {j \in DOMAIN text' : text'[j].to = "stdout"} = {n + 1}
  BY <1>2, <1>6, <1>7, <1>8
<1>10. OneObject'
  <2>1. n + 1 \in DOMAIN text' /\ text'[n + 1] = Out("json", Object)'
    BY <1>4, <1>6, <1>7 DEF last
  <2>2. \A l \in Range(text') : l.to = "stderr" => l.say = "inert"
    BY <1>1, <1>2, <1>6
  <2> QED BY <1>9, <2>1, <2>2 DEF OneObject
<1>11. \E l \in Range(text') : l.say = "json" /\ l.of = Object'
  BY <1>2, <1>4, <1>6
<1>12. SaidAtTheEnd'
  BY <1>1, <1>4, <1>10, <1>11 DEF SaidAtTheEnd
<1> QED BY <1>1, <1>5, <1>12, AllSaid

LEMMA EmitVerdictKeeps == IInv /\ EmitVerdict => IInv'
<1> SUFFICES ASSUME IInv, EmitVerdict PROVE IInv'
  OBVIOUS
<1> DEFINE first == Out(IF result.skipped = <<>> THEN "holds" ELSE "withheld", "")
           say == <<first>> \o SkippedLines
<1>1. /\ stage = "outcome" /\ ~On("--update-baseline") /\ ~Json /\ Go("exit", say)
      /\ Judging /\ result.end = "outcome" /\ stage \notin {"exit", "done"}
      /\ IsSeq(text) /\ \A l \in Range(text) : l.to = "stderr" /\ l.say = "inert"
  BY AtAnOutcome DEF EmitVerdict
<1>2. first.say \in {"holds", "withheld"}
  BY DEF Out
<1> HIDE DEF first
<1>3. /\ IsSeq(<<first>>) /\ Range(<<first>>) = {first}
      /\ IsSeq(SkippedLines) /\ \A l \in Range(SkippedLines) : l.to = "stderr"
  BY <1>1, Single, OutcomeLists
<1>4. IsSeq(say) /\ Range(say) = {first} \cup Range(SkippedLines)
  BY <1>3, Joined
<1> HIDE DEF say
<1>5. text' = text \o say /\ UNCHANGED parsing /\ result' = result
  BY <1>1 DEF Go
<1>6. Range(text') = Range(text) \cup Range(say)
  BY <1>1, <1>4, <1>5, Joined
<1>7. Json' = Json /\ SkippedLines' = SkippedLines
  BY <1>5 DEF Json, parsing, SkippedLines
<1>8. \A l \in Range(text') : l.to = "stdout" => l.say \in {"holds", "withheld"}
  BY <1>1, <1>2, <1>3, <1>4, <1>6
<1>9. Range(SkippedLines') \subseteq Range(text')
  BY <1>4, <1>6, <1>7
<1>10. SaidAtTheEnd'
  BY <1>1, <1>7, <1>8, <1>9 DEF SaidAtTheEnd
<1> QED BY <1>1, <1>4, <1>10, AllSaid

LEMMA StartReportKeeps == IInv /\ StartReport => IInv'
<1> SUFFICES ASSUME IInv, StartReport PROVE IInv'
  OBVIOUS
<1>1. /\ ~Json /\ Go("leaks", <<>>) /\ Judging /\ stage \notin {"exit", "done"}
  BY AtAnOutcome DEF StartReport
<1> QED BY <1>1, Empty, GoesOn

\* In the middle of the report.
LEMMA InTheReport ==
  ASSUME IInv, stage \in {"leaks", "stale", "notes"}
  PROVE  /\ Judging /\ ~Json /\ result.end = "outcome" /\ stage \notin {"exit", "done"}
         /\ IsSeq(text) /\ \A l \in Range(text) : l.to = "stderr"
  BY DEF IInv, StagesAgree, SaidSoFar, Judging, IsSeq

LEMMA EmitLeaksKeeps == IInv /\ EmitLeaks => IInv'
<1> SUFFICES ASSUME IInv, EmitLeaks PROVE IInv'
  OBVIOUS
<1> DEFINE leaked == [effects |-> Len(result.findings), files |-> DistinctFiles(result.findings)]
           last == Err("leaked", leaked)
           rendered == Rendered(result.findings)
<1>1. /\ stage = "leaks"
      /\ Go("stale", IF result.findings = <<>> THEN <<>> ELSE rendered \o <<last>>)
  BY DEF EmitLeaks
<1>2. /\ Judging /\ ~Json /\ result.end = "outcome" /\ stage \notin {"exit", "done"}
      /\ IsSeq(result.findings)
  BY <1>1, InTheReport, OutcomeLists
<1>3. CASE result.findings = <<>>
  BY <1>1, <1>2, <1>3, Empty, GoesOn
<1>4. CASE result.findings # <<>>
  <2>1. last.to = "stderr"
    BY DEF Err
  <2> HIDE DEF last
  <2>2. IsSeq(rendered) /\ \A l \in Range(rendered) : l.to = "stderr"
    BY <1>2, RenderedToStderr
  <2>3. IsSeq(<<last>>) /\ Range(<<last>>) = {last}
    BY Single
  <2> HIDE DEF rendered
  <2>4. IsSeq(rendered \o <<last>>) /\ Range(rendered \o <<last>>) = Range(rendered) \cup {last}
    BY <2>2, <2>3, Joined
  <2>5. \A l \in Range(rendered \o <<last>>) : l.to = "stderr"
    BY <2>1, <2>2, <2>4
  <2>6. Go("stale", rendered \o <<last>>)
    BY <1>1, <1>4
  <2> QED BY <1>2, <2>4, <2>5, <2>6, GoesOn
<1> QED BY <1>3, <1>4

LEMMA EmitStaleKeeps == IInv /\ EmitStale => IInv'
<1> SUFFICES ASSUME IInv, EmitStale PROVE IInv'
  OBVIOUS
<1>1. stage = "stale" /\ Go("notes", StaleLines)
  BY DEF EmitStale
<1>2. /\ Judging /\ ~Json /\ stage \notin {"exit", "done"}
      /\ IsSeq(StaleLines) /\ \A l \in Range(StaleLines) : l.to = "stderr"
  BY <1>1, InTheReport, OutcomeLists
<1> QED BY <1>1, <1>2, GoesOn

LEMMA EmitNotesKeeps == IInv /\ EmitNotes => IInv'
<1> SUFFICES ASSUME IInv, EmitNotes PROVE IInv'
  OBVIOUS
<1> DEFINE note == IF On("--advisory") THEN <<Err("advisory", "")>> ELSE <<>>
           say == SkippedLines \o note
<1>1. stage = "notes" /\ Go("exit", say)
  BY DEF EmitNotes
<1>2. /\ Judging /\ ~Json /\ result.end = "outcome" /\ stage \notin {"exit", "done"}
      /\ IsSeq(text) /\ \A l \in Range(text) : l.to = "stderr"
      /\ IsSeq(SkippedLines) /\ \A l \in Range(SkippedLines) : l.to = "stderr"
  BY <1>1, InTheReport, OutcomeLists
<1>3. IsSeq(note) /\ \A l \in Range(note) : l.to = "stderr"
  <2> DEFINE advice == Err("advisory", "")
  <2>1. advice.to = "stderr"
    BY DEF Err
  <2>2. CASE On("--advisory")
    <3>1. note = <<advice>>
      BY <2>2
    <3> HIDE DEF advice, note
    <3>2. IsSeq(<<advice>>) /\ Range(<<advice>>) = {advice}
      BY Single
    <3> QED BY <2>1, <3>1, <3>2
  <2>3. CASE ~On("--advisory")
    BY <2>3, Empty
  <2> QED BY <2>2, <2>3
<1> HIDE DEF note
<1>4. IsSeq(say) /\ Range(say) = Range(SkippedLines) \cup Range(note)
  BY <1>2, <1>3, Joined
<1> HIDE DEF say
<1>5. text' = text \o say /\ UNCHANGED parsing /\ result' = result
  BY <1>1 DEF Go
<1>6. Range(text') = Range(text) \cup Range(say)
  BY <1>2, <1>4, <1>5, Joined
<1>7. Json' = Json /\ SkippedLines' = SkippedLines
  BY <1>5 DEF Json, parsing, SkippedLines
<1>8. \A l \in Range(text') : l.to = "stdout" => l.say \in {"holds", "withheld"}
  BY <1>2, <1>3, <1>4, <1>6
<1>9. Range(SkippedLines') \subseteq Range(text')
  BY <1>4, <1>6, <1>7
<1>10. SaidAtTheEnd'
  BY <1>2, <1>7, <1>8, <1>9 DEF SaidAtTheEnd
<1> QED BY <1>1, <1>2, <1>4, <1>10, AllSaid

LEMMA LeavingKeeps == IInv /\ Leaving => IInv'
<1> SUFFICES ASSUME IInv, Leaving PROVE IInv'
  OBVIOUS
<1>1. /\ stage = "exit" /\ exit' = ExitCode /\ text' = text \o <<>> /\ stage' = "done"
      /\ UNCHANGED parsing /\ result' = result /\ IsSeq(text)
  BY DEF Leaving, Exit, IInv, SaidSoFar, IsSeq
<1>2. text' = text
  BY <1>1 DEF IsSeq
<1>3. ReadInv' /\ Json' = Json /\ status' = status /\ Allowed(result)' = Allowed(result)
      /\ Judging' = Judging /\ On("--advisory")' = On("--advisory")
  BY <1>1, Behind DEF Judging, On, parsing
<1>4. Judging /\ result.end = "outcome"
  BY <1>1 DEF IInv, StagesAgree, Judging
<1>5. StagesAgree'
  BY <1>1, <1>3 DEF IInv, StagesAgree
<1>6. ExitAgrees'
  BY <1>1, <1>3, <1>4 DEF ExitAgrees, ExitCode, Ended, Running, Clean
<1>7. SaidSoFar'
  BY <1>1, <1>2 DEF SaidSoFar, IsSeq
<1>8. SaidAtTheEnd'
  <2>1. OneObject' = OneObject /\ Object' = Object /\ SkippedLines' = SkippedLines
    BY <1>1, <1>2 DEF OneObject, Object, SkippedLines
  <2> QED BY <1>1, <1>2, <1>3, <1>4, <2>1 DEF IInv, SaidAtTheEnd
<1> QED BY <1>3, <1>5, <1>6, <1>7, <1>8 DEF IInv


-----------------------------------------------------------------------------
(* Theorems                                                                 *)

LEMMA NextKeeps == IInv /\ [Next]_vars => IInv'
<1> SUFFICES ASSUME IInv, [Next]_vars PROVE IInv'
  OBVIOUS
<1>1. CASE Done \/ UNCHANGED vars
  BY <1>1, StutterKeeps DEF Done
<1>2. CASE Parse
  BY <1>2, ParseKeeps
<1>3. CASE AnswerHelp \/ AnswerMistake \/ AnswerPanic
  BY <1>3, AnswersKeep
<1>4. CASE Audit
  BY <1>4, AuditKeeps
<1>5. CASE AuditFails \/ NoCoreCrates \/ MissingRole
  BY <1>5, RefusalsKeep
<1>6. CASE AnnounceUpdate \/ EmitJson \/ EmitVerdict
  BY <1>6, UpdateKeeps, EmitJsonKeeps, EmitVerdictKeeps
<1>7. CASE StartReport \/ EmitLeaks \/ EmitStale \/ EmitNotes
  BY <1>7, StartReportKeeps, EmitLeaksKeeps, EmitStaleKeeps, EmitNotesKeeps
<1>8. CASE Leaving
  BY <1>8, LeavingKeeps
<1> QED BY <1>1, <1>2, <1>3, <1>4, <1>5, <1>6, <1>7, <1>8 DEF Next

\* How far main has got, what it has read and what it has said fit together
\* throughout (main.rs main, run, emit).
THEOREM ShellInductive == Spec => []IInv
<1> QED BY InitInv, NextKeeps, PTL DEF Spec

\* parse_args reads no word that is not there, only an accepted line is
\* audited, and the exit code is the last thing settled.
THEOREM ShellTypeCorrect == Spec => []TypeOK
<1>1. IInv => TypeOK
  BY DEF IInv, ReadInv, StagesAgree, ExitAgrees, TypeOK
<1> QED BY <1>1, ShellInductive, PTL

\* What was read of an accepted line is what the line says as a whole.
LEMMA AcceptedMeans ==
  ASSUME IInv, status = "accepted"
  PROVE  /\ Json <=> Contract!Json
         /\ \A w \in Switches : On(w) <=> Contract!Says(w)
<1>1. ReadInv /\ AtAWord /\ SwitchesRead /\ FormatRead /\ BaselineRead /\ RootRead
      /\ index = Len(line) + 1
  BY DEF IInv, ReadInv
<1>2. /\ opts.switches = {w \in Switches : Contract!Says(w)}
      /\ opts.format = "json" <=> Contract!Json
  BY <1>1, MeaningOfAll
<1> QED BY <1>2 DEF Json, On

LEMMA JudgedWasAccepted ==
  ASSUME IInv, result.end = "outcome"
  PROVE  status = "accepted"
  BY OutcomeLists

\* Exit code 1 says that something leaked and that the command line, read as a
\* whole, does not say --advisory (main.rs exit_code).
THEOREM OneMeansALeak == Spec => []OneMeansLeak
<1>1. IInv => OneMeansLeak
  <2> SUFFICES ASSUME IInv, Ended
               PROVE  exit = 1 <=> /\ Judged
                                   /\ result.findings # <<>> \/ result.stale # <<>>
                                   /\ ~Contract!Says("--advisory")
    BY Zenon DEF OneMeansLeak
  <2>1. exit = 1 <=> Judging /\ ~Clean /\ ~On("--advisory")
    BY DEF IInv, ExitAgrees
  <2>2. Judged <=> Judging
    BY DEF Judged, Judging
  <2>3. Judging => (On("--advisory") <=> Contract!Says("--advisory"))
    BY JudgedWasAccepted, AcceptedMeans DEF Judging, Switches
  <2> QED BY <2>1, <2>2, <2>3 DEF Clean
<1> QED BY <1>1, ShellInductive, PTL

\* No run that got to an outcome keeps to itself a file that it skipped
\* (main.rs warn_skipped).
THEOREM SkipsAreNamed == Spec => []SkipsAreNeverSilent
<1>1. IInv => SkipsAreNeverSilent
  <2> SUFFICES ASSUME IInv, Ended, result.end = "outcome", NEW k \in DOMAIN result.skipped
               PROVE  \/ Err("skipped", result.skipped[k]) \in {text[i] : i \in Saying("skipped")}
                      \/ \E i \in Saying("json") : text[i].of.skipped = result.skipped
    BY DEF SkipsAreNeverSilent
  <2>1. \/ Range(SkippedLines) \subseteq Range(text)
        \/ \E l \in Range(text) : l.say = "json" /\ l.of = Object
    BY DEF IInv, SaidAtTheEnd
  <2>2. CASE Range(SkippedLines) \subseteq Range(text)
    <3> DEFINE said == Err("skipped", result.skipped[k])
    <3>1. said \in Range(SkippedLines)
      BY DEF SkippedLines, Range
    <3>2. said.say = "skipped"
      BY DEF Err
    <3> HIDE DEF said
    <3>3. PICK i \in DOMAIN text : text[i] = said
      BY <2>2, <3>1 DEF Range
    <3>4. said \in {text[j] : j \in Saying("skipped")}
      BY <3>2, <3>3 DEF Saying
    <3> QED BY <3>4 DEF said
  <2>3. CASE \E l \in Range(text) : l.say = "json" /\ l.of = Object
    <3>1. PICK i \in DOMAIN text : text[i].say = "json" /\ text[i].of = Object
      BY <2>3 DEF Range
    <3>2. Object.skipped = result.skipped
      BY DEF Object
    <3> QED BY <3>1, <3>2 DEF Saying
  <2> QED BY <2>1, <2>2, <2>3
<1> QED BY <1>1, ShellInductive, PTL

\* A judged run whose command line, read as a whole, asks for JSON prints the
\* one object on stdout, and no other puts more than the verdict there
\* (main.rs emit, report.rs render_json).
THEOREM JsonStandsAlone == Spec => []JsonIsAlone
<1>1. IInv => JsonIsAlone
  <2> SUFFICES ASSUME IInv, Judged PROVE JsonIsAlone
    BY DEF JsonIsAlone
  <2>1. Ended /\ Judging /\ result.end = "outcome"
    BY DEF Judged, Judging
  <2>2. Json <=> Contract!Json
    BY <2>1, JudgedWasAccepted, AcceptedMeans
  <2>3. IF Json THEN OneObject
        ELSE \A l \in Range(text) : l.to = "stdout" => l.say \in {"holds", "withheld"}
    BY <2>1 DEF IInv, SaidAtTheEnd
  <2>4. \A i \in DOMAIN text : text[i] \in Range(text)
    BY Zenon DEF Range
  <2>5. CASE Json
    <3>1. PICK i \in DOMAIN text : /\ {j \in DOMAIN text : text[j].to = "stdout"} = {i}
                                   /\ text[i] = Out("json", Object)
      BY <2>3, <2>5 DEF OneObject
    <3>2. \A j \in DOMAIN text : text[j].to = "stderr" => text[j].say = "inert"
      BY <2>3, <2>4, <2>5 DEF OneObject
    <3> QED BY <2>2, <2>5, <3>1, <3>2 DEF JsonIsAlone
  <2>6. CASE ~Json
    BY <2>2, <2>3, <2>4, <2>6 DEF JsonIsAlone
  <2> QED BY <2>5, <2>6
<1> QED BY <1>1, ShellInductive, PTL

\* An audit that is to rewrite the baseline is never started without the file
\* to write: what AuditRun assumes of its arguments (main.rs parse_args).
THEOREM UpdatesNameTheFile ==
  Spec => [](result # Pending /\ Contract!Says("--update-baseline") =>
               opts.baseline # None /\ Contract!Says("--baseline"))
<1>1. IInv => (result # Pending /\ Contract!Says("--update-baseline") =>
                 opts.baseline # None /\ Contract!Says("--baseline"))
  <2> SUFFICES ASSUME IInv, result # Pending, Contract!Says("--update-baseline")
               PROVE  opts.baseline # None /\ Contract!Says("--baseline")
    OBVIOUS
  <2>1. status = "accepted"
    BY DEF IInv, StagesAgree
  <2>2. BaselineRead /\ ~UpdatesNothing
    BY <2>1 DEF IInv, ReadInv
  <2>3. On("--update-baseline")
    BY <2>1, AcceptedMeans DEF Switches
  <2>4. opts.baseline # None
    BY <2>2, <2>3 DEF UpdatesNothing, On
  <2>5. Contract!At("--baseline") # {}
    BY <2>2, <2>4 DEF BaselineRead, Passed
  <2> QED BY <2>4, <2>5 DEF Contract!Says
<1> QED BY <1>1, ShellInductive, PTL

\* Whatever is on the command line, parse_args answers what it means as a
\* whole, and only once (main.rs parse_args, parse_format).
THEOREM ReadingImplementsUsage == Spec => ImplementsUsage
<1>1. Init => Contract!UsageInit
  BY InitWaits DEF Init
<1>2. IInv /\ [Next]_vars => [Contract!UsageNext]_<<line, Reply>>
  <2> SUFFICES ASSUME IInv, [Next]_vars PROVE [Contract!UsageNext]_<<line, Reply>>
    OBVIOUS
  <2>1. [Next]_vars => [ParseNext]_parsing
    BY DEF Next, vars, parsing, Parse, AnswerHelp, AnswerMistake, AnswerPanic, Audit, AuditFails,
           NoCoreCrates, MissingRole, AnnounceUpdate, EmitJson, EmitVerdict, StartReport,
           EmitLeaks, EmitStale, EmitNotes, Leaving, Done, Go, Exit
  <2> QED BY <2>1, StepAnswers DEF IInv
<1> QED BY <1>1, <1>2, ShellInductive, PTL DEF Spec, ImplementsUsage, Contract!UsageSpec

-----------------------------------------------------------------------------
(* What a report among the lines comes to                                   *)

\* What the rest of the section is about.
IsReport(found, n, g, at) ==
    /\ HasPlaces(found) /\ n = Len(found) /\ n \in Nat
    /\ g = Sorted(found) /\ InOrder(g, n) /\ Stand(text, g, n, at)

LEMMA LinesOfReport ==
  ASSUME NEW found, NEW n, NEW g, NEW at, IsReport(found, n, g, at)
  PROVE  /\ Len(text) \in Nat /\ DOMAIN text = 1..Len(text)
         /\ IsFiniteSet(1..n) /\ Cardinality(1..n) = n
         /\ \A k \in 1..n : at[k] \in Saying("finding") /\ text[at[k]] = Err("finding", g[k])
                            /\ text[at[k]].of = g[k] /\ at[k] \in Nat
         /\ \A i \in Saying("finding") : \E k \in 1..n : i = at[k]
         /\ \A k, l \in 1..n : at[k] < at[l] <=> k < l
         /\ \A k, l \in 1..n : at[k] = at[l] => k = l
<1>1. Len(text) \in Nat /\ DOMAIN text = 1..Len(text)
  BY ElementsOf DEF IsReport, Stand
<1>2. n \in Nat /\ RowsAt(text, g, n, at)
  BY DEF IsReport, Stand
<1>3. IsFiniteSet(1..n) /\ Cardinality(1..n) = n
  BY <1>2, FS_Interval
<1>4. ASSUME NEW k \in 1..n
      PROVE  at[k] \in Saying("finding") /\ text[at[k]] = Err("finding", g[k])
             /\ text[at[k]].of = g[k] /\ at[k] \in Nat
  BY <1>1, <1>2 DEF RowsAt, Saying, Err
<1>5. \A i \in Saying("finding") : \E k \in 1..n : i = at[k]
  BY <1>2 DEF RowsAt, Saying
<1>6. \A k, l \in 1..n : k < l => at[k] < at[l]
  BY <1>2 DEF RowsAt
<1>7. ASSUME NEW k \in 1..n, NEW l \in 1..n
      PROVE  (at[k] < at[l] <=> k < l) /\ (at[k] = at[l] => k = l)
  <2>1. k < l \/ k = l \/ l < k
    OBVIOUS
  <2> QED BY <1>4, <1>6, <2>1
<1> QED BY <1>1, <1>3, <1>4, <1>5, <1>7

\* The rows are the findings in another order.
LEMMA OrderOfReport ==
  ASSUME NEW found, NEW n, NEW g, NEW at, IsReport(found, n, g, at)
  PROVE  /\ DOMAIN found = 1..n /\ HasPlaces(found)
         /\ \E order \in [1..n -> 1..n] :
               /\ \A k, l \in 1..n : order[k] = order[l] => k = l
               /\ \A j \in 1..n : \E k \in 1..n : order[k] = j
               /\ \A k \in 1..n : g[k] = found[order[k]]
<1>1. DOMAIN found = 1..n /\ HasPlaces(found) /\ g = Sorted(found)
  BY ElementsOf DEF IsReport, HasPlaces
<1>2. PICK order \in [DOMAIN found -> DOMAIN found] :
        /\ \A k, l \in DOMAIN found : k < l => Precedes(found, order[k], order[l])
        /\ \A j \in DOMAIN found : \E k \in DOMAIN found : order[k] = j
        /\ \A k \in DOMAIN found : Sorted(found)[k] = found[order[k]]
  BY <1>1, SortedIsAnOrder
<1>3. /\ order \in [1..n -> 1..n]
      /\ \A k, l \in 1..n : k < l => Precedes(found, order[k], order[l])
      /\ \A j \in 1..n : \E k \in 1..n : order[k] = j
      /\ \A k \in 1..n : g[k] = found[order[k]]
  BY <1>1, <1>2
<1>4. \A k, l \in 1..n : order[k] = order[l] => k = l
  <2>1. SUFFICES ASSUME NEW k \in 1..n, NEW l \in 1..n, order[k] = order[l], k < l PROVE FALSE
    OBVIOUS
  <2>2. Precedes(found, order[k], order[k]) /\ order[k] \in DOMAIN found
    BY <1>1, <1>3, <2>1
  <2> QED BY <1>1, <2>2, PrecedesOrders
<1> QED BY <1>1, <1>3, <1>4, Zenon

\* As many rows as findings ...
LEMMA AsManyRows ==
  ASSUME NEW found, NEW n, NEW g, NEW at, IsReport(found, n, g, at)
  PROVE  Cardinality(Saying("finding")) = n
<1> DEFINE rows == Saying("finding")
           f == [k \in 1..n |-> at[k]]
<1>1. /\ IsFiniteSet(1..n) /\ Cardinality(1..n) = n /\ \A k \in 1..n : at[k] \in rows
      /\ \A i \in rows : \E k \in 1..n : i = at[k]
      /\ \A k, l \in 1..n : at[k] = at[l] => k = l
  BY LinesOfReport
<1> HIDE DEF rows
<1>2. /\ f \in [1..n -> rows] /\ \A k, l \in 1..n : f[k] = f[l] => k = l
      /\ \A i \in rows : \E k \in 1..n : f[k] = i
  BY <1>1
<1> HIDE DEF f
<1>3. Cardinality(rows) = Cardinality(1..n)
  BY <1>1, <1>2, SameCount
<1> QED BY <1>1, <1>3 DEF rows

\* ... and each as often as it was found.
LEMMA AsOften ==
  ASSUME NEW found, NEW n, NEW g, NEW at, IsReport(found, n, g, at), NEW i \in Saying("finding")
  PROVE  Times(text, text[i]) = Times(found, text[i].of)
<1> DEFINE y == text[i].of
           S == {k \in 1..n : g[k] = y}
           lines == {j \in DOMAIN text : text[j] = text[i]}
           finds == {j \in DOMAIN found : found[j] = y}
<1>1. /\ IsFiniteSet(1..n)
      /\ \A k \in 1..n : at[k] \in Saying("finding") /\ text[at[k]] = Err("finding", g[k])
                         /\ text[at[k]].of = g[k]
      /\ \A j \in Saying("finding") : \E k \in 1..n : j = at[k]
      /\ \A k, l \in 1..n : at[k] = at[l] => k = l
  BY LinesOfReport
<1>2. DOMAIN found = 1..n
  BY OrderOfReport
<1>3. PICK order \in [1..n -> 1..n] :
        /\ \A k, l \in 1..n : order[k] = order[l] => k = l
        /\ \A j \in 1..n : \E k \in 1..n : order[k] = j
        /\ \A k \in 1..n : g[k] = found[order[k]]
  BY OrderOfReport
<1>5. IsFiniteSet(S)
  <2>1. S \subseteq 1..n
    OBVIOUS
  <2> HIDE DEF S
  <2> QED BY <1>1, <2>1, FS_Subset
<1>6. Cardinality(lines) = Cardinality(S)
  <2> DEFINE f == [k \in S |-> at[k]]
  <2>1. \A k \in S : k \in 1..n /\ at[k] \in lines
    <3>1. SUFFICES ASSUME NEW k \in 1..n, g[k] = y PROVE at[k] \in lines
      OBVIOUS
    <3>2. PICK m \in 1..n : i = at[m]
      BY <1>1
    <3>3. text[at[k]] = Err("finding", y) /\ text[i] = Err("finding", y) /\ at[k] \in DOMAIN text
      BY <1>1, <3>1, <3>2 DEF Saying
    <3> QED BY <3>3
  <2>2. \A j \in lines : \E k \in S : j = at[k]
    <3>1. SUFFICES ASSUME NEW j \in DOMAIN text, text[j] = text[i] PROVE \E k \in S : j = at[k]
      OBVIOUS
    <3>2. j \in Saying("finding")
      BY <3>1 DEF Saying
    <3>3. PICK k \in 1..n : j = at[k]
      BY <1>1, <3>2
    <3>4. g[k] = y
      BY <1>1, <3>1, <3>3
    <3> QED BY <3>3, <3>4
  <2> HIDE DEF S, lines
  <2>3. /\ f \in [S -> lines] /\ \A k, l \in S : f[k] = f[l] => k = l
        /\ \A j \in lines : \E k \in S : f[k] = j
    BY <1>1, <2>1, <2>2
  <2> HIDE DEF f
  <2> QED BY <1>5, <2>3, SameCount
<1>7. Cardinality(finds) = Cardinality(S)
  <2> DEFINE f == [k \in S |-> order[k]]
  <2>1. \A k \in S : k \in 1..n /\ order[k] \in finds
    BY <1>2, <1>3
  <2>2. \A j \in finds : \E k \in S : j = order[k]
    BY <1>2, <1>3
  <2> HIDE DEF S, finds
  <2>3. /\ f \in [S -> finds] /\ \A k, l \in S : f[k] = f[l] => k = l
        /\ \A j \in finds : \E k \in S : f[k] = j
    BY <1>3, <2>1, <2>2
  <2> HIDE DEF f
  <2> QED BY <1>5, <2>3, SameCount
<1> QED BY <1>6, <1>7 DEF Times

\* A row stands under the heading of its file.
LEMMA UnderItsHeading ==
  ASSUME NEW found, NEW n, NEW g, NEW at, IsReport(found, n, g, at), NEW k \in 1..n
  PROVE  /\ \E h \in Saying("heading") : h < at[k]
         /\ text[Above(at[k])].of = g[k].file
<1> DEFINE i == at[k]
           above == {h \in Saying("heading") : h < i}
<1>1. /\ Len(text) \in Nat /\ DOMAIN text = 1..Len(text) /\ i \in Nat
      /\ \A l \in 1..n : at[l] < at[k] <=> l < k
      /\ \A l \in 1..n : at[l] \in Nat
  BY LinesOfReport
<1>2. InOrder(g, n) /\ HeadingsAt(text, g, n, at) /\ n \in Nat
  BY DEF IsReport, Stand
<1>3. PICK h \in above : text[h] = Err("heading", g[k].file)
  <2>1. PICK h \in DOMAIN text : h < i /\ text[h] = Err("heading", g[k].file)
    BY <1>2 DEF HeadingsAt
  <2> QED BY <2>1 DEF Saying, Err
<1> HIDE DEF i
<1>4. above \in SUBSET (1..Len(text)) /\ above # {}
  BY <1>1, <1>3 DEF Saying
<1>5. PICK m \in above : \A j \in above : j <= m
  <2> HIDE DEF above
  <2> QED BY <1>1, <1>4, LastOf
<1>6. m \in Saying("heading") /\ m < i /\ \A j \in Saying("heading") : j < i => j <= m
  BY <1>5
<1> DEFINE a == Above(i)
<1>7. a \in Saying("heading") /\ a < i /\ \A j \in Saying("heading") : j < i => j <= a
  BY <1>6, Zenon DEF Above
<1> HIDE DEF a
<1>8. PICK l \in 1..n : a + 1 = at[l] /\ text[a] = Err("heading", g[l].file)
  BY <1>2, <1>7 DEF HeadingsAt, Saying
<1>9. l \in Nat /\ k \in Nat /\ ~(k < l)
  <2>1. l \in Nat /\ k \in Nat /\ a \in Nat
    BY <1>1, <1>7 DEF Saying
  <2>2. SUFFICES ASSUME k < l PROVE FALSE
    BY <2>1
  <2>3. ~(at[l] < at[k]) /\ at[l] # at[k]
    <3>1. ~(l < k) /\ l # k
      BY <2>1, <2>2
    <3> QED BY <1>1, <3>1, LinesOfReport
  <2> QED BY <1>1, <1>7, <1>8, <2>1, <2>3 DEF i
<1>10. g[l].file <= g[k].file /\ g[l].file \in Nat /\ g[k].file \in Nat
  <2>1. g[l].file \in Nat /\ g[k].file \in Nat
    BY <1>2 DEF InOrder
  <2>2. l = k \/ l < k
    BY <1>9
  <2> QED BY <1>2, <2>1, <2>2 DEF InOrder
<1>11. text[h].of = g[k].file /\ text[a].of = g[l].file
  BY <1>3, <1>8 DEF Err
<1>12. h = a \/ text[h].of < text[a].of
  <2>1. h \in DOMAIN text /\ a \in DOMAIN text /\ text[h].say = "heading" /\ text[a].say = "heading"
        /\ h <= a /\ h \in Nat /\ a \in Nat
    BY <1>1, <1>7 DEF Saying
  <2> QED BY <1>2, <2>1 DEF HeadingsAt
<1> QED BY <1>3, <1>10, <1>11, <1>12 DEF i, a

\* Under one heading the rows are in line order.
LEMMA InLineOrder ==
  ASSUME NEW found, NEW n, NEW g, NEW at, IsReport(found, n, g, at),
         NEW i \in Saying("finding"), NEW j \in Saying("finding"), i < j, Above(i) = Above(j)
  PROVE  text[i].of.line <= text[j].of.line
<1>1. PICK k \in 1..n : i = at[k]
  BY LinesOfReport
<1>2. PICK l \in 1..n : j = at[l]
  BY LinesOfReport
<1>3. g[k].file = g[l].file
  BY <1>1, <1>2, UnderItsHeading
<1>4. k < l /\ text[i].of = g[k] /\ text[j].of = g[l]
  BY <1>1, <1>2, LinesOfReport
<1>5. \/ g[k].file < g[l].file
      \/ g[k].file = g[l].file /\ g[k].line <= g[l].line
  BY <1>4 DEF IsReport, InOrder
<1>6. g[k].file \in Nat
  BY DEF IsReport, InOrder
<1> QED BY <1>3, <1>4, <1>5, <1>6

\* A file has one heading.
LEMMA HeadingsOnce ==
  ASSUME NEW found, NEW n, NEW g, NEW at, IsReport(found, n, g, at)
  PROVE  /\ \A h, i \in Saying("heading") : text[h].of = text[i].of => h = i
         /\ Cardinality(Saying("heading")) = DistinctFiles(found)
<1> DEFINE headings == Saying("heading")
           files == {found[i].file : i \in DOMAIN found}
           f == [h \in headings |-> text[h].of]
<1>1. Len(text) \in Nat /\ DOMAIN text = 1..Len(text)
  BY LinesOfReport
<1>2. InOrder(g, n) /\ HeadingsAt(text, g, n, at) /\ n \in Nat /\ g = Sorted(found)
      /\ HasPlaces(found) /\ DOMAIN found = 1..n
  BY ElementsOf DEF IsReport, Stand, HasPlaces
<1>3. \A h \in headings : \E j \in 1..n : text[h] = Err("heading", g[j].file) /\ text[h].of = g[j].file
  BY <1>2 DEF HeadingsAt, Saying, Err
<1>4. \A h, i \in headings : text[h].of = text[i].of => h = i
  <2>1. SUFFICES ASSUME NEW h \in headings, NEW i \in headings, text[h].of = text[i].of, h < i PROVE FALSE
    BY <1>1 DEF Saying
  <2>2. text[h].of < text[i].of
    BY <1>2, <2>1 DEF HeadingsAt, Saying
  <2>3. text[h].of \in Nat
    BY <1>2, <1>3 DEF InOrder
  <2> QED BY <2>1, <2>2, <2>3
<1>5. (\A j \in 1..n : g[j].file \in files) /\ \A x \in files : \E j \in 1..n : x = g[j].file
  <2>1. PICK order \in [1..n -> 1..n] : /\ \A i \in 1..n : \E k \in 1..n : order[k] = i
                                       /\ \A k \in 1..n : g[k] = found[order[k]]
    BY OrderOfReport
  <2>2. ASSUME NEW j \in 1..n PROVE g[j].file \in files
    <3>1. order[j] \in DOMAIN found /\ g[j] = found[order[j]]
      BY <1>2, <2>1
    <3> QED BY <3>1
  <2>3. ASSUME NEW x \in files PROVE \E j \in 1..n : x = g[j].file
    <3>1. PICK i \in 1..n : x = found[i].file
      BY <1>2
    <3>2. PICK k \in 1..n : order[k] = i
      BY <2>1
    <3>3. g[k] = found[i]
      BY <2>1, <3>2
    <3> QED BY <3>1, <3>3
  <2> HIDE DEF files
  <2> QED BY <2>2, <2>3
<1>6. ASSUME NEW x \in files PROVE \E h \in headings : f[h] = x
  <2>1. PICK j \in 1..n : x = g[j].file
    BY <1>5
  <2>2. PICK h \in DOMAIN text : text[h] = Err("heading", g[j].file)
    BY <1>2 DEF HeadingsAt
  <2> QED BY <2>1, <2>2 DEF Saying, Err
<1>7. \A h \in headings : f[h] \in files
  BY <1>3, <1>5
<1>8. IsFiniteSet(headings)
  <2>1. headings \subseteq 1..Len(text) /\ IsFiniteSet(1..Len(text))
    BY <1>1, FS_Interval DEF Saying
  <2> QED BY <2>1, FS_Subset
<1> HIDE DEF headings, files
<1>9. f \in [headings -> files] /\ \A h, i \in headings : f[h] = f[i] => h = i
  BY <1>4, <1>7
<1> HIDE DEF f
<1>10. Cardinality(files) = Cardinality(headings)
  BY <1>6, <1>8, <1>9, SameCount
<1> QED BY <1>4, <1>10 DEF headings, files, DistinctFiles

\* Every kind gets its hint, once.
LEMMA HintsOnce ==
  ASSUME NEW kinds, HintsIn(text, kinds)
  PROVE  /\ \A k \in kinds : Times(text, Err("hint", k)) = 1
         /\ Cardinality(Saying("hint")) = Cardinality(kinds)
<1> DEFINE hints == Saying("hint")
           f == [i \in hints |-> text[i].of]
<1>1. /\ Len(text) \in Nat /\ DOMAIN text = 1..Len(text)
      /\ \A i \in DOMAIN text : text[i].say = "hint" => text[i].of \in kinds /\ text[i] = Err("hint", text[i].of)
      /\ \A k \in kinds : \E i \in DOMAIN text : text[i] = Err("hint", k)
      /\ \A i, j \in DOMAIN text : text[i].say = "hint" /\ text[i] = text[j] => i = j
  BY ElementsOf DEF HintsIn
<1>2. ASSUME NEW k \in kinds PROVE Times(text, Err("hint", k)) = 1
  <2>1. PICK i \in DOMAIN text : text[i] = Err("hint", k)
    BY <1>1
  <2>2. text[i].say = "hint"
    BY <2>1 DEF Err
  <2>3. {j \in DOMAIN text : text[j] = Err("hint", k)} = {i}
    BY <1>1, <2>1, <2>2
  <2> QED BY <2>3, FS_Singleton DEF Times
<1>3. IsFiniteSet(hints)
  <2>1. hints \subseteq 1..Len(text) /\ IsFiniteSet(1..Len(text))
    BY <1>1, FS_Interval DEF Saying
  <2> QED BY <2>1, FS_Subset
<1>4. /\ \A i \in hints : text[i].of \in kinds
      /\ \A i, j \in hints : text[i].of = text[j].of => i = j
      /\ \A k \in kinds : \E i \in hints : text[i].of = k
  <2>1. \A i \in hints : i \in DOMAIN text /\ text[i].say = "hint" /\ text[i].of \in kinds
                          /\ text[i] = Err("hint", text[i].of)
    BY <1>1 DEF Saying
  <2>2. ASSUME NEW i \in hints, NEW j \in hints, text[i].of = text[j].of PROVE i = j
    <3>1. text[i] = text[j]
      BY <2>1, <2>2
    <3> QED BY <1>1, <2>1, <3>1
  <2>3. ASSUME NEW k \in kinds PROVE \E i \in hints : text[i].of = k
    <3>1. PICK i \in DOMAIN text : text[i] = Err("hint", k)
      BY <1>1
    <3> QED BY <3>1 DEF Saying, Err
  <2> QED BY <2>1, <2>2, <2>3
<1> HIDE DEF hints
<1>5. /\ f \in [hints -> kinds] /\ \A i, j \in hints : f[i] = f[j] => i = j
      /\ \A k \in kinds : \E i \in hints : f[i] = k
  BY <1>4
<1> HIDE DEF f
<1>6. Cardinality(kinds) = Cardinality(hints)
  BY <1>3, <1>5, SameCount
<1> QED BY <1>2, <1>6 DEF hints

-----------------------------------------------------------------------------
(* The report is printed whole, and nothing like it before or after         *)

\* What was found has been printed for people to read.
Reported == /\ Judging /\ ~Json /\ result.findings # <<>>
            /\ stage \in {"stale", "notes", "exit", "done"}

\* Until then only the inert kernels were spoken of; from then on the report
\* stands among the lines.
ReportInv ==
    /\ stage = "leaks" => \A l \in Range(text) : l.say = "inert"
    /\ Reported => Whole(text, result.findings)

LEMMA ResultHasPlaces ==
  ASSUME IInv, Judging
  PROVE  HasPlaces(result.findings) /\ Len(result.findings) \in Nat
<1>1. result \in Results
  BY OutcomeLists DEF Judging
<1>2. HasPlaces(result.findings)
  BY <1>1, ResultsAssumption DEF HasPlaces, IsSeq
<1> QED BY <1>2, ElementsOf DEF HasPlaces

\* What follows a report leaves it whole.
LEMMA ReportedStays ==
  ASSUME IInv, ReportInv, Reported, UNCHANGED <<parsing, result>>,
         NEW a, NoReport(a), text' = text \o a, stage' # "leaks"
  PROVE  ReportInv'
<1>1. Len(result.findings) \in Nat
  BY ResultHasPlaces DEF Reported
<1>2. Whole(text, result.findings)
  BY DEF ReportInv
<1>3. Whole(text \o a, result.findings)
  BY <1>1, <1>2, WholeAmongOthers
<1> DEFINE W(t, f) == Whole(t, f)
<1>4. W(text', result'.findings)
  BY <1>3
<1> QED BY <1>4 DEF ReportInv, W

\* Where no report is due there is none to be kept.
LEMMA NoReportDue ==
  ASSUME stage' # "leaks", ~Reported'
  PROVE  ReportInv'
  BY DEF ReportInv

LEMMA StaleAndSkipped ==
  ASSUME IInv, Judging
  PROVE  NoReport(StaleLines) /\ NoReport(SkippedLines)
<1>1. IsSeq(StaleLines) /\ IsSeq(SkippedLines)
  BY OutcomeLists DEF Judging
<1>2. \A l \in Range(StaleLines) : l.say \notin ReportLines
  <2>1. \A k \in DOMAIN StaleLines : StaleLines[k].say \notin ReportLines
    BY DEF Err, StaleLines, ReportLines
  <2> QED BY <2>1, Zenon DEF Range
<1>3. \A l \in Range(SkippedLines) : l.say \notin ReportLines
  <2>1. \A k \in DOMAIN SkippedLines : SkippedLines[k].say \notin ReportLines
    BY DEF Err, SkippedLines, ReportLines
  <2> QED BY <2>1, Zenon DEF Range
<1> QED BY <1>1, <1>2, <1>3 DEF NoReport

LEMMA EmitLeaksReports == IInv /\ ReportInv /\ EmitLeaks => ReportInv'
<1> SUFFICES ASSUME IInv, ReportInv, EmitLeaks PROVE ReportInv'
  OBVIOUS
<1>1. stage = "leaks" /\ stage' = "stale" /\ Judging /\ IsSeq(text)
  BY InTheReport DEF EmitLeaks, Go
<1>2. CASE result.findings = <<>>
  <2>1. result' = result
    BY DEF EmitLeaks, Go
  <2> QED BY <1>1, <1>2, <2>1 DEF ReportInv, Reported
<1>3. CASE result.findings # <<>>
  <2> DEFINE found == result.findings
             report == Rendered(found) \o <<Err("leaked", Tally(found))>>
             u == text \o report
  <2>1. text' = u /\ result' = result
    BY <1>3 DEF EmitLeaks, Go, Tally
  <2>2. HasPlaces(found) /\ Len(found) \in Nat
    BY <1>1, ResultHasPlaces
  <2>3. NoReport(text)
    BY <1>1 DEF ReportInv, NoReport, ReportLines
  <2> HIDE DEF found
  <2>4. Whole(report, found)
    BY <2>2, RenderedIsWhole
  <2> HIDE DEF report
  <2>5. Whole(u, found)
    BY <2>2, <2>3, <2>4, WholeAmongOthers
  <2> HIDE DEF u
  <2> DEFINE W(t, f) == Whole(t, f)
  <2>6. W(text', result'.findings)
    BY <2>1, <2>5 DEF found
  <2> QED BY <1>1, <2>6 DEF ReportInv, W
<1> QED BY <1>2, <1>3

LEMMA NextReports == IInv /\ ReportInv /\ [Next]_vars => ReportInv'
<1> SUFFICES ASSUME IInv, ReportInv, [Next]_vars PROVE ReportInv'
  OBVIOUS
<1>1. CASE Done \/ UNCHANGED vars
  <2>1. UNCHANGED <<opts, result, stage, text>>
    BY <1>1 DEF Done, vars
  <2> DEFINE W(t, f) == Whole(t, f)
  <2>2. W(text', result'.findings) <=> Whole(text, result.findings)
    BY <2>1
  <2>3. Reported' <=> Reported
    BY <2>1 DEF Reported, Judging, Json, On
  <2> QED BY <2>1, <2>2, <2>3 DEF ReportInv, W
<1>2. CASE Parse
  BY <1>2, NoReportDue DEF Parse, Reported
<1>3. CASE AnswerHelp \/ AnswerMistake \/ AnswerPanic
  <2>1. stage' = "done" /\ result' = result /\ result = Pending
    BY <1>3 DEF AnswerHelp, AnswerMistake, AnswerPanic, Exit, IInv, StagesAgree
  <2> QED BY <2>1, NoReportDue DEF Reported, Judging, Pending
<1>4. CASE Audit
  <2>1. stage' \in {"outcome", "failed", "no core crate", "no such role"}
    BY <1>4, ResultsAssumption DEF Audit
  <2> QED BY <2>1, NoReportDue DEF Reported
<1>5. CASE AuditFails \/ NoCoreCrates \/ MissingRole
  <2>1. stage' = "done" /\ result' = result /\ result.end # "outcome"
    BY <1>5 DEF AuditFails, NoCoreCrates, MissingRole, Exit, IInv, StagesAgree
  <2> QED BY <2>1, NoReportDue DEF Reported, Judging
<1>6. CASE AnnounceUpdate
  <2>1. stage' = "done" /\ result' = result /\ UNCHANGED parsing /\ On("--update-baseline")
    BY <1>6 DEF AnnounceUpdate, Exit
  <2> QED BY <2>1, NoReportDue DEF Reported, Judging, On, parsing
<1>7. CASE EmitJson
  <2>1. stage' = "exit" /\ UNCHANGED parsing /\ Json
    BY <1>7 DEF EmitJson, Go
  <2> QED BY <2>1, NoReportDue DEF Reported, Json, parsing
<1>8. CASE EmitVerdict
  <2>1. stage' = "exit" /\ result' = result /\ result.findings = <<>>
    BY <1>8 DEF EmitVerdict, Go, Clean
  <2> QED BY <2>1, NoReportDue DEF Reported
<1>9. CASE StartReport
  <2>1. /\ stage' = "leaks" /\ text' = text \o <<>> /\ IsSeq(text)
        /\ \A l \in Range(text) : l.say = "inert"
    BY <1>9, AtAnOutcome DEF StartReport, Go
  <2>2. text' = text
    BY <2>1 DEF IsSeq
  <2> QED BY <2>1, <2>2 DEF ReportInv, Reported
<1>10. CASE EmitLeaks
  BY <1>10, EmitLeaksReports
<1>11. CASE EmitStale
  <2>1. /\ stage = "stale" /\ stage' = "notes" /\ UNCHANGED <<parsing, result>>
        /\ text' = text \o StaleLines /\ Judging /\ ~Json
    BY <1>11, InTheReport DEF EmitStale, Go
  <2>2. NoReport(StaleLines)
    BY <2>1, StaleAndSkipped
  <2>3. CASE Reported
    BY <2>1, <2>2, <2>3, ReportedStays
  <2>4. CASE ~Reported
    BY <2>1, <2>4, NoReportDue DEF Reported
  <2> QED BY <2>3, <2>4
<1>12. CASE EmitNotes
  <2> DEFINE note == IF On("--advisory") THEN <<Err("advisory", "")>> ELSE <<>>
             say == SkippedLines \o note
  <2>1. /\ stage = "notes" /\ stage' = "exit" /\ UNCHANGED <<parsing, result>>
        /\ text' = text \o say /\ Judging /\ ~Json
    BY <1>12, InTheReport DEF EmitNotes, Go
  <2>2. NoReport(SkippedLines)
    BY <2>1, StaleAndSkipped
  <2>3. NoReport(note)
    <3> DEFINE advice == Err("advisory", "")
    <3>1. advice.say \notin ReportLines
      BY DEF Err, ReportLines
    <3>2. NoReport(<<>>)
      BY Empty DEF NoReport
    <3>3. note = <<advice>> \/ note = <<>>
      OBVIOUS
    <3> HIDE DEF advice, note
    <3>4. NoReport(<<advice>>)
      BY <3>1, Single DEF NoReport
    <3> QED BY <3>2, <3>3, <3>4
  <2> HIDE DEF note
  <2>4. NoReport(say)
    BY <2>2, <2>3, Joined DEF NoReport
  <2> HIDE DEF say
  <2>5. CASE Reported
    BY <2>1, <2>4, <2>5, ReportedStays
  <2>6. CASE ~Reported
    BY <2>1, <2>6, NoReportDue DEF Reported
  <2> QED BY <2>5, <2>6
<1>13. CASE Leaving
  <2>1. /\ stage = "exit" /\ stage' = "done" /\ UNCHANGED <<parsing, result>>
        /\ text' = text \o <<>>
    BY <1>13 DEF Leaving, Exit
  <2>2. NoReport(<<>>)
    BY Empty DEF NoReport
  <2>3. CASE Reported
    BY <2>1, <2>2, <2>3, ReportedStays
  <2>4. CASE ~Reported
    BY <2>1, <2>4, NoReportDue DEF Reported, Judging, Json, On, parsing
  <2> QED BY <2>3, <2>4
<1> QED BY <1>1, <1>2, <1>3, <1>4, <1>5, <1>6, <1>7, <1>8, <1>9, <1>10, <1>11, <1>12, <1>13
        DEF Next

\* A whole report has the properties that are asked of it.
LEMMA WholeIsComplete ==
  ASSUME IInv, ReportInv
  PROVE  ReportIsComplete
<1> DEFINE found == result.findings
           n == Len(found)
           g == Sorted(found)
<1>1. SUFFICES ASSUME Judged, ~Json, found # <<>> PROVE ReportIsComplete
  BY DEF ReportIsComplete
<1>2. Judging /\ Whole(text, found)
  <2>1. stage = "done" /\ Judging
    BY <1>1 DEF Judged, Judging, IInv, ExitAgrees
  <2> QED BY <1>1, <2>1 DEF ReportInv, Reported
<1>3. PICK at : Stand(text, g, n, at)
  BY <1>2 DEF Whole
<1>4. HasPlaces(found) /\ n \in Nat
  BY <1>2, ResultHasPlaces
<1>5. IsReport(found, n, g, at)
  BY <1>3, <1>4, SortedInOrder DEF IsReport
<1>6. HintsIn(text, KindsOf(found, n)) /\ \E i \in DOMAIN text : text[i] = Err("leaked", Tally(found))
  BY <1>2 DEF Whole
<1>7. KindsOf(found, n) = {found[i].kind : i \in DOMAIN found}
  BY <1>4, ElementsOf DEF HasPlaces, KindsOf
<1> HIDE DEF found, n, g
<1>8. Cardinality(Saying("finding")) = n
  BY <1>5, AsManyRows
<1>9. \A i \in Saying("finding") : Times(text, text[i]) = Times(found, text[i].of)
  BY <1>5, AsOften
<1>10. ASSUME NEW i \in Saying("finding")
       PROVE  (\E h \in Saying("heading") : h < i) /\ text[Above(i)].of = text[i].of.file
  <2>1. PICK k \in 1..n : i = at[k]
    BY <1>5, LinesOfReport
  <2> QED BY <1>5, <2>1, LinesOfReport, UnderItsHeading
<1>11. \A i, j \in Saying("finding") : i < j /\ Above(i) = Above(j) => text[i].of.line <= text[j].of.line
  BY <1>5, InLineOrder
<1>12. \A h, i \in Saying("heading") : text[h] = text[i] => h = i
  BY <1>5, HeadingsOnce
<1>13. /\ \A k \in {found[i].kind : i \in DOMAIN found} : Times(text, Err("hint", k)) = 1
       /\ Cardinality(Saying("hint")) = Cardinality({found[i].kind : i \in DOMAIN found})
  BY <1>6, <1>7, HintsOnce
<1>14. \E i \in Saying("leaked") :
          text[i].of = [effects |-> Cardinality(Saying("finding")), files |-> Cardinality(Saying("heading"))]
  <2>1. PICK i \in DOMAIN text : text[i] = Err("leaked", Tally(found))
    BY <1>6
  <2>2. i \in Saying("leaked") /\ text[i].of = Tally(found)
    BY <2>1 DEF Saying, Err
  <2>3. Cardinality(Saying("heading")) = DistinctFiles(found)
    BY <1>5, HeadingsOnce
  <2> QED BY <1>8, <2>2, <2>3 DEF Tally, n
<1> QED BY <1>8, <1>9, <1>10, <1>11, <1>12, <1>13, <1>14, Zenon DEF ReportIsComplete, found, n

\* A judged run that found something prints all of it, each finding under the
\* one heading of its file and in line order, each hint once, and the right
\* counts, whatever was found and in whatever order (report.rs render,
\* distinct_files; main.rs emit).
THEOREM ReportIsWhole == Spec => []ReportIsComplete
<1>1. Init => ReportInv
  BY DEF Init, ReportInv, Reported
<1>2. Spec => []ReportInv
  BY <1>1, NextReports, ShellInductive, PTL DEF Spec
<1>3. IInv /\ ReportInv => ReportIsComplete
  BY WholeIsComplete
<1> QED BY <1>2, <1>3, ShellInductive, PTL

=============================================================================
