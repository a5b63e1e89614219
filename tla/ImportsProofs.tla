---------------------------- MODULE ImportsProofs ---------------------------
(***************************************************************************)
(* Proofs about Imports, for use trees of any shape and depth: what is     *)
(* classified is exactly what the `use` imports, and for taxonomies of any *)
(* names: no way to divide a path between it and the call hides an effect. *)
(***************************************************************************)
EXTENDS Imports, SequenceTheorems, FiniteSetTheorems, WellFoundedInduction, TLAPS

Paths == Seq(Words)
Nodes == UseTrees \cup {Unwind}

-----------------------------------------------------------------------------
(* What is on the stack will be read                                        *)

\* What a node of the stack adds to the paths when it is met below a prefix.
Owed(node, above) ==
    IF node = Unwind THEN {} ELSE {above \o path : path \in Imported[node]}

\* The prefixes below which the nodes of a stack are met, and the last one left.
Above(nodes, before, at) ==
    /\ at \in [1..(Len(nodes) + 1) -> Paths]
    /\ at[1] = before
    /\ \A k \in 1..Len(nodes) :
          at[k + 1] = IF nodes[k] = Unwind THEN Front(at[k]) ELSE at[k]

\* No two nodes owe the same path.
Apart(nodes, at) ==
    \A k, l \in 1..Len(nodes) : k # l => Owed(nodes[k], at[k]) \cap Owed(nodes[l], at[l]) = {}

\* What was got so far and what the stack owes are the goal, in parts.
Reaches(nodes, before, got, goal, at) ==
    /\ Above(nodes, before, at) /\ at[Len(nodes) + 1] = <<>>
    /\ Apart(nodes, at)
    /\ goal = got \cup UNION {Owed(nodes[k], at[k]) : k \in 1..Len(nodes)}
    /\ \A k \in 1..Len(nodes) : got \cap Owed(nodes[k], at[k]) = {}

\* No path is got twice.
Once(s) == \A i, j \in DOMAIN s : s[i] = s[j] => i = j

IInv ==
    /\ snippet \in Snippets /\ pass \in {"gather", "flatten", "call", "done"}
    /\ stack \in Seq(Nodes) /\ prefix \in Paths /\ paths \in Seq(Paths)
    /\ Once(paths)
    /\ pass = "gather" => prefix = <<>> /\ paths = <<>>
    /\ pass = "flatten" => \E at : Reaches(stack, prefix, Range(paths), snippet.imports, at)
    /\ pass \in {"call", "done"} => prefix = <<>> /\ Range(paths) = snippet.imports

LEMMA TopOf ==
  ASSUME NEW S, NEW s \in Seq(S), s # <<>>
  PROVE  /\ Head(s) \in S /\ Head(s) = s[1] /\ Tail(s) \in Seq(S)
         /\ Len(s) \in Nat \ {0} /\ DOMAIN s = 1..Len(s) /\ Len(Tail(s)) = Len(s) - 1
         /\ \A k \in 1..(Len(s) - 1) : Tail(s)[k] = s[k + 1]
<1>1. Head(s) \in S /\ Tail(s) \in Seq(S) /\ Len(s) \in Nat \ {0} /\ DOMAIN s = 1..Len(s)
  BY HeadTailProperties
<1>2. Head(s) = s[1] /\ Len(Tail(s)) = Len(s) - 1
  BY <1>1
<1>3. \A k \in 1..(Len(s) - 1) : Tail(s)[k] = s[k + 1]
  BY <1>1, HeadTailProperties
<1> QED BY <1>1, <1>2, <1>3

\* A stack whose top has given way to other nodes.
LEMMA InPlaceOfTop ==
  ASSUME NEW st \in Seq(Nodes), st # <<>>, NEW u \in Seq(Nodes)
  PROVE  /\ u \o Tail(st) \in Seq(Nodes)
         /\ Len(u) \in Nat /\ Len(st) \in Nat \ {0}
         /\ Len(u \o Tail(st)) = Len(u) + Len(st) - 1
         /\ \A k \in 1..(Len(u) + Len(st) - 1) :
               (u \o Tail(st))[k] = IF k <= Len(u) THEN u[k] ELSE st[k - Len(u) + 1]
<1> DEFINE rest == Tail(st)
<1>1. /\ rest \in Seq(Nodes) /\ Len(st) \in Nat \ {0} /\ Len(rest) = Len(st) - 1
      /\ \A k \in 1..(Len(st) - 1) : rest[k] = st[k + 1]
  BY TopOf
<1> HIDE DEF rest
<1>2. /\ u \o rest \in Seq(Nodes) /\ Len(u \o rest) = Len(u) + Len(rest) /\ Len(u) \in Nat
      /\ \A k \in 1..(Len(u) + Len(rest)) : (u \o rest)[k] = IF k <= Len(u) THEN u[k] ELSE rest[k - Len(u)]
  <2>1. \A r \in Seq(Nodes) :
          /\ u \o r \in Seq(Nodes) /\ Len(u \o r) = Len(u) + Len(r)
          /\ \A k \in 1..(Len(u) + Len(r)) : (u \o r)[k] = IF k <= Len(u) THEN u[k] ELSE r[k - Len(u)]
    BY ConcatProperties
  <2>2. Len(u) \in Nat
    OBVIOUS
  <2> QED BY <1>1, <2>1, <2>2, Zenon
<1>3. ASSUME NEW k \in 1..(Len(u) + Len(st) - 1), ~(k <= Len(u))
      PROVE  (u \o rest)[k] = st[k - Len(u) + 1]
  <2>1. k \in 1..(Len(u) + Len(rest)) /\ k - Len(u) \in 1..(Len(st) - 1)
    BY <1>1, <1>2, <1>3
  <2> QED BY <1>1, <1>2, <1>3, <2>1
<1> QED BY <1>1, <1>2, <1>3 DEF rest

\* The top may give way to nodes that owe what it owed, less what was got.
LEMMA TopGivesWay ==
  ASSUME NEW st \in Seq(Nodes), st # <<>>, NEW before, NEW got, NEW goal, NEW at,
         Reaches(st, before, got, goal, at),
         NEW u \in Seq(Nodes), NEW now, NEW b, Above(u, now, b), b[Len(u) + 1] = at[2], Apart(u, b),
         NEW new, new \cup UNION {Owed(u[k], b[k]) : k \in 1..Len(u)} = Owed(st[1], at[1]),
         \A k \in 1..Len(u) : new \cap Owed(u[k], b[k]) = {}
  PROVE  \E c : Reaches(u \o Tail(st), now, got \cup new, goal, c)
<1> DEFINE v == u \o Tail(st)
           m == Len(u)
           n == Len(st)
           c == [k \in 1..(m + n) |-> IF k <= m THEN b[k] ELSE at[k - m + 1]]
<1>1. /\ m \in Nat /\ n \in Nat \ {0} /\ Len(v) = m + n - 1
      /\ \A k \in 1..(m + n - 1) : v[k] = IF k <= m THEN u[k] ELSE st[k - m + 1]
  BY InPlaceOfTop
<1> HIDE DEF v
<1>2. /\ at \in [1..(n + 1) -> Paths] /\ at[1] = before /\ at[n + 1] = <<>>
      /\ \A k \in 1..n : at[k + 1] = IF st[k] = Unwind THEN Front(at[k]) ELSE at[k]
      /\ \A k, l \in 1..n : k # l => Owed(st[k], at[k]) \cap Owed(st[l], at[l]) = {}
      /\ goal = got \cup UNION {Owed(st[k], at[k]) : k \in 1..n}
      /\ \A k \in 1..n : got \cap Owed(st[k], at[k]) = {}
  BY DEF Reaches, Above, Apart
<1>3. /\ b \in [1..(m + 1) -> Paths] /\ b[1] = now /\ b[m + 1] = at[2]
      /\ \A k \in 1..m : b[k + 1] = IF u[k] = Unwind THEN Front(b[k]) ELSE b[k]
      /\ \A k, l \in 1..m : k # l => Owed(u[k], b[k]) \cap Owed(u[l], b[l]) = {}
      /\ new \cup UNION {Owed(u[k], b[k]) : k \in 1..m} = Owed(st[1], at[1])
      /\ \A k \in 1..m : new \cap Owed(u[k], b[k]) = {}
  BY DEF Above, Apart
<1> HIDE DEF m, n
<1>4. \A k \in 1..(m + n) : c[k] = IF k <= m THEN b[k] ELSE at[k - m + 1]
  OBVIOUS
<1>5. c \in [1..(m + n) -> Paths]
  <2>1. \A k \in 1..(m + n) : IF k <= m THEN k \in 1..(m + 1) ELSE k - m + 1 \in 1..(n + 1)
    BY <1>1
  <2> QED BY <1>2, <1>3, <2>1
<1> HIDE DEF c
<1>6. c[1] = now /\ c[m + n] = <<>>
  <2>1. m + n \in 1..(m + n) /\ ~(m + n <= m) /\ 1 \in 1..(m + n)
    BY <1>1
  <2>2. c[m + n] = <<>>
    <3>1. c[m + n] = at[(m + n) - m + 1] /\ (m + n) - m + 1 = n + 1
      BY <1>1, <1>4, <2>1
    <3> QED BY <1>2, <3>1
  <2>3. CASE m = 0
    <3>1. c[1] = at[1 - m + 1] /\ 1 - m + 1 = 2 /\ m + 1 = 1
      BY <1>4, <2>1, <2>3
    <3> QED BY <1>3, <2>2, <3>1
  <2>4. CASE m # 0
    <3>1. 1 <= m
      BY <1>1, <2>4
    <3> QED BY <1>3, <1>4, <2>1, <2>2, <3>1
  <2> QED BY <2>3, <2>4
\* Each place is one of the new nodes or one of the old ones.
<1>7. \A k \in 1..(m + n - 1) :
         \/ k \in 1..m /\ v[k] = u[k] /\ c[k] = b[k]
         \/ /\ ~(k <= m) /\ k - m + 1 \in 1..n /\ k - m + 1 # 1 /\ v[k] = st[k - m + 1]
            /\ c[k] = at[k - m + 1]
  <2>1. SUFFICES ASSUME NEW k \in 1..(m + n - 1)
                 PROVE  \/ k \in 1..m /\ v[k] = u[k] /\ c[k] = b[k]
                        \/ /\ ~(k <= m) /\ k - m + 1 \in 1..n /\ k - m + 1 # 1
                           /\ v[k] = st[k - m + 1] /\ c[k] = at[k - m + 1]
    OBVIOUS
  <2>2. k \in 1..(m + n)
    BY <1>1
  <2>3. CASE k <= m
    <3>1. k \in 1..m
      BY <1>1, <2>3
    <3> QED BY <1>1, <1>4, <2>2, <2>3, <3>1
  <2>4. CASE ~(k <= m)
    <3>1. k - m + 1 \in 1..n /\ k - m + 1 # 1
      BY <1>1, <2>4
    <3> QED BY <1>1, <1>4, <2>2, <2>4, <3>1
  <2> QED BY <2>3, <2>4
<1>8. ASSUME NEW k \in 1..(m + n - 1)
      PROVE  c[k + 1] = IF v[k] = Unwind THEN Front(c[k]) ELSE c[k]
  <2>1. k + 1 \in 1..(m + n)
    BY <1>1
  <2>2. CASE k \in 1..m /\ v[k] = u[k] /\ c[k] = b[k]
    <3>1. c[k + 1] = b[k + 1]
      <4>1. CASE k = m
        <5>1. ~(k + 1 <= m) /\ (k + 1) - m + 1 = 2 /\ k + 1 = m + 1
          BY <1>1, <4>1
        <5>2. c[k + 1] = at[(k + 1) - m + 1]
          BY <1>4, <2>1, <5>1
        <5> QED BY <1>3, <5>1, <5>2
      <4>2. CASE k # m
        <5>1. k + 1 <= m
          BY <1>1, <2>2, <4>2
        <5> QED BY <1>4, <2>1, <5>1
      <4> QED BY <4>1, <4>2
    <3> QED BY <1>3, <2>2, <3>1
  <2>3. CASE /\ ~(k <= m) /\ k - m + 1 \in 1..n /\ v[k] = st[k - m + 1] /\ c[k] = at[k - m + 1]
    <3>1. ~(k + 1 <= m) /\ (k + 1) - m + 1 = (k - m + 1) + 1
      BY <1>1, <2>3
    <3>2. c[k + 1] = at[(k + 1) - m + 1]
      BY <1>4, <2>1, <3>1
    <3> QED BY <1>2, <2>3, <3>1, <3>2
  <2> QED BY <1>7, <2>2, <2>3
<1> DEFINE owes(k) == Owed(v[k], c[k])
           first(k) == Owed(u[k], b[k])
           older(k) == Owed(st[k], at[k])
<1>9. \A k \in 1..(m + n - 1) :
         \/ k \in 1..m /\ owes(k) = first(k)
         \/ ~(k <= m) /\ k - m + 1 \in 1..n /\ k - m + 1 # 1 /\ owes(k) = older(k - m + 1)
  BY <1>7
<1>10. /\ \A k \in 1..m : k \in 1..(m + n - 1) /\ owes(k) = first(k)
       /\ \A k \in 1..n : k # 1 => k + m - 1 \in 1..(m + n - 1) /\ owes(k + m - 1) = older(k)
  <2>1. ASSUME NEW k \in 1..m PROVE k \in 1..(m + n - 1) /\ owes(k) = first(k)
    <3>1. k \in 1..(m + n - 1) /\ k <= m
      BY <1>1
    <3> QED BY <1>9, <3>1
  <2>2. ASSUME NEW k \in 1..n, k # 1
        PROVE  k + m - 1 \in 1..(m + n - 1) /\ owes(k + m - 1) = older(k)
    <3>0. m \in Nat /\ n \in Nat /\ k \in Nat /\ 2 <= k /\ k <= n
      BY <1>1, <2>2
    <3>1. k + m - 1 \in 1..(m + n - 1) /\ ~(k + m - 1 <= m) /\ (k + m - 1) - m + 1 = k
          /\ k + m - 1 \notin 1..m
      BY <3>0
    <3>2. owes(k + m - 1) = older((k + m - 1) - m + 1)
      BY <1>9, <3>1
    <3> QED BY <3>1, <3>2
  <2> QED BY <2>1, <2>2
<1>11. /\ \A k, l \in 1..n : k # l => older(k) \cap older(l) = {}
       /\ \A k, l \in 1..m : k # l => first(k) \cap first(l) = {}
       /\ \A k \in 1..m : new \cap first(k) = {}
  BY <1>2, <1>3, Zenon
<1>12. goal = got \cup UNION {older(k) : k \in 1..n} /\ \A k \in 1..n : got \cap older(k) = {}
  BY <1>2, Zenon
<1>13. new \cup UNION {first(k) : k \in 1..m} = older(1)
  BY <1>3, Zenon
<1> HIDE DEF owes, first, older
<1>21. new \subseteq older(1) /\ \A k \in 1..m : first(k) \subseteq older(1)
  BY <1>13
<1>22. 1 \in 1..n
  BY <1>1
<1>14. \A k, l \in 1..(m + n - 1) : k # l => owes(k) \cap owes(l) = {}
  <2>1. SUFFICES ASSUME NEW k \in 1..(m + n - 1), NEW l \in 1..(m + n - 1), k # l
                 PROVE  owes(k) \cap owes(l) = {}
    OBVIOUS
  <2>2. CASE k \in 1..m /\ l \in 1..m
    BY <1>10, <1>11, <2>1, <2>2
  <2>3. CASE k \in 1..m /\ l \notin 1..m
    <3>1. owes(k) \subseteq older(1) /\ l - m + 1 \in 1..n /\ l - m + 1 # 1 /\ owes(l) = older(l - m + 1)
      BY <1>9, <1>10, <1>21, <2>3
    <3> QED BY <1>11, <1>22, <3>1
  <2>4. CASE k \notin 1..m /\ l \in 1..m
    <3>1. owes(l) \subseteq older(1) /\ k - m + 1 \in 1..n /\ k - m + 1 # 1 /\ owes(k) = older(k - m + 1)
      BY <1>9, <1>10, <1>21, <2>4
    <3> QED BY <1>11, <1>22, <3>1
  <2>5. CASE k \notin 1..m /\ l \notin 1..m
    <3>1. k - m + 1 \in 1..n /\ owes(k) = older(k - m + 1) /\ l - m + 1 \in 1..n /\ owes(l) = older(l - m + 1)
      BY <1>9, <2>5
    <3>2. k - m + 1 # l - m + 1
      BY <1>1, <2>1
    <3> QED BY <1>11, <3>1, <3>2
  <2> QED BY <2>2, <2>3, <2>4, <2>5
<1>15. goal = got \cup new \cup UNION {owes(k) : k \in 1..(m + n - 1)}
  <2>1. ASSUME NEW x \in goal PROVE x \in got \cup new \cup UNION {owes(k) : k \in 1..(m + n - 1)}
    <3>1. x \in got \/ x \in older(1) \/ \E k \in 1..n : k # 1 /\ x \in older(k)
      BY <1>12
    <3>2. x \in older(1) => x \in new \/ \E k \in 1..m : x \in first(k)
      BY <1>13
    <3> QED BY <1>10, <3>1, <3>2
  <2>2. ASSUME NEW x \in got \cup new \cup UNION {owes(k) : k \in 1..(m + n - 1)} PROVE x \in goal
    <3>1. x \in got \/ x \in new \/ \E k \in 1..(m + n - 1) : x \in owes(k)
      OBVIOUS
    <3>2. \A k \in 1..n : older(k) \subseteq goal
      BY <1>12
    <3>3. \A k \in 1..(m + n - 1) : owes(k) \subseteq goal
      BY <1>9, <1>10, <1>21, <1>22, <3>2
    <3> QED BY <1>12, <1>21, <1>22, <3>1, <3>2, <3>3
  <2> QED BY <2>1, <2>2
<1>16. \A k \in 1..(m + n - 1) : (got \cup new) \cap owes(k) = {}
  <2>1. SUFFICES ASSUME NEW k \in 1..(m + n - 1) PROVE (got \cup new) \cap owes(k) = {}
    OBVIOUS
  <2>2. CASE k \in 1..m
    <3>1. owes(k) = first(k) /\ first(k) \subseteq older(1) /\ new \cap first(k) = {}
      BY <1>10, <1>11, <1>21, <2>2
    <3> QED BY <1>12, <1>22, <3>1
  <2>3. CASE k \notin 1..m
    <3>1. k - m + 1 \in 1..n /\ k - m + 1 # 1 /\ owes(k) = older(k - m + 1)
      BY <1>9, <2>3
    <3>2. older(1) \cap older(k - m + 1) = {} /\ got \cap older(k - m + 1) = {}
      BY <1>11, <1>12, <1>22, <3>1
    <3> QED BY <1>21, <3>1, <3>2
  <2> QED BY <2>2, <2>3
<1>17. (m + n - 1) + 1 = m + n
  BY <1>1
<1>18. Above(v, now, c) /\ c[Len(v) + 1] = <<>>
  BY <1>1, <1>5, <1>6, <1>8, <1>17 DEF Above
<1>19. Apart(v, c)
  BY <1>1, <1>14 DEF Apart, owes
<1>20. Reaches(v, now, got \cup new, goal, c)
  BY <1>1, <1>15, <1>16, <1>18, <1>19 DEF Reaches, owes
<1> QED BY <1>20 DEF v

-----------------------------------------------------------------------------
(* What the nodes owe                                                       *)

LEMMA TreeIs ==
  ASSUME NEW t \in UseTrees
  PROVE  /\ t # Unwind /\ t.form # "pop" /\ t \in Nodes
         /\ t.form \in WithIdent => t.ident \in Words
         /\ t.form = "path" => /\ t.tree \in UseTrees
                               /\ Imported[t] = {<<t.ident>> \o p : p \in Imported[t.tree]}
         /\ t.form \in {"name", "rename"} => Imported[t] = {<<t.ident>>}
         /\ t.form = "glob" => Imported[t] = {<<>>}
         /\ t.form = "group" =>
               /\ t.items \in Seq(UseTrees)
               /\ Imported[t] = UNION {Imported[t.items[i]] : i \in DOMAIN t.items}
               /\ \A i, j \in DOMAIN t.items :
                     i # j => Imported[t.items[i]] \cap Imported[t.items[j]] = {}
         /\ Imported[t] \subseteq Paths
<1>1. \/ /\ t.form = "path" /\ t.tree \in UseTrees
         /\ Imported[t] = {<<t.ident>> \o p : p \in Imported[t.tree]}
      \/ t.form \in {"name", "rename"} /\ Imported[t] = {<<t.ident>>}
      \/ t.form = "glob" /\ Imported[t] = {<<>>}
      \/ /\ t.form = "group" /\ t.items \in Seq(UseTrees)
         /\ Imported[t] = UNION {Imported[t.items[i]] : i \in DOMAIN t.items}
         /\ \A i, j \in DOMAIN t.items :
               i # j => Imported[t.items[i]] \cap Imported[t.items[j]] = {}
  BY ImportedAssumption, Zenon
<1>2. Imported[t] \subseteq Paths
  BY ImportedAssumption DEF Paths
<1>3. t.form \in WithIdent => t.ident \in Words
  BY DEF Words
<1>4. t.form # "pop"
  BY <1>1
<1>5. t # Unwind /\ t \in Nodes
  BY <1>4 DEF Unwind, Nodes
<1> HIDE DEF Unwind, Nodes, Words, Paths
<1> QED BY <1>1, <1>2, <1>3, <1>4, <1>5

\* The place of a node is a prefix.
LEMMA OwedPaths ==
  ASSUME NEW t \in UseTrees, NEW above \in Paths
  PROVE  Owed(t, above) = {above \o p : p \in Imported[t]} /\ Owed(t, above) \subseteq Paths
<1>1. t # Unwind /\ Imported[t] \subseteq Seq(Words)
  BY TreeIs DEF Paths
<1>2. \A p \in Imported[t] : above \o p \in Seq(Words)
  BY <1>1 DEF Paths
<1> QED BY <1>1, <1>2 DEF Owed, Paths

\* A segment may as well be read before the place as after it.
LEMMA SegmentMoves ==
  ASSUME NEW above \in Paths, NEW x \in Words, NEW p \in Paths
  PROVE  /\ Append(above, x) \in Paths /\ Front(Append(above, x)) = above
         /\ Append(above, x) \o p = above \o (<<x>> \o p)
<1>1. above \in Seq(Words) /\ p \in Seq(Words) /\ <<x>> \in Seq(Words)
  BY DEF Paths
<1>2. Append(above, x) = above \o <<x>>
  BY <1>1, AppendIsConcat
<1>3. Append(above, x) \o p = above \o (<<x>> \o p)
  BY <1>1, <1>2, ConcatAssociative
<1>4. Front(Append(above, x)) = above
  <2> DEFINE s == Append(above, x)
  <2>1. /\ s \in Seq(Words) /\ Len(s) = Len(above) + 1 /\ Len(above) \in Nat
        /\ \A i \in 1..Len(above) : s[i] = above[i]
    BY <1>1
  <2> HIDE DEF s
  <2>2. SubSeq(s, 1, Len(s) - 1) = above
    BY <1>1, <2>1
  <2> QED BY <2>2 DEF s, Front
<1> QED BY <1>1, <1>3, <1>4 DEF Paths

-----------------------------------------------------------------------------
(* The first pass                                                           *)

LEMMA InitInv == Init => IInv
<1> SUFFICES ASSUME Init PROVE IInv
  OBVIOUS
<1>1. snippet \in Snippets /\ pass = "gather" /\ stack = <<snippet.tree>> /\ prefix = <<>> /\ paths = <<>>
  BY DEF Init
<1>2. snippet.tree \in Nodes
  BY <1>1, ImportedAssumption DEF Nodes
<1>3. stack \in Seq(Nodes) /\ prefix \in Paths /\ paths \in Seq(Paths) /\ DOMAIN paths = {}
  BY <1>1, <1>2 DEF Paths
<1> QED BY <1>1, <1>3 DEF IInv, Once

\* Whatever the first pass takes from the stack are trees.
LEMMA NodesStay ==
  ASSUME stack \in Seq(Nodes), stack # <<>>
  PROVE  /\ Tail(stack) \in Seq(Nodes) /\ Top \in Nodes /\ Top = stack[1]
         /\ Top.form # "pop" => Top \in UseTrees
         /\ Top.form = "pop" => Top = Unwind
         /\ Top.form = "path" => <<Top.tree>> \o Tail(stack) \in Seq(Nodes)
         /\ Top.form = "group" => Top.items \in Seq(Nodes) /\ Top.items \o Tail(stack) \in Seq(Nodes)
<1>1. Tail(stack) \in Seq(Nodes) /\ Top \in Nodes /\ Top = stack[1]
  BY TopOf DEF Top
<1>2. (Top.form # "pop" => Top \in UseTrees) /\ (Top.form = "pop" => Top = Unwind)
  <2>1. Top \in UseTrees \/ Top = Unwind
    BY <1>1 DEF Nodes
  <2>2. Unwind.form = "pop"
    BY DEF Unwind
  <2> QED BY <2>1, <2>2, TreeIs
<1>3. ASSUME Top.form = "path" PROVE <<Top.tree>> \o Tail(stack) \in Seq(Nodes)
  <2>1. Top.tree \in Nodes
    BY <1>2, <1>3, TreeIs DEF Nodes
  <2> DEFINE t == Top.tree  rest == Tail(stack)
  <2> HIDE DEF t, rest
  <2>2. t \in Nodes /\ rest \in Seq(Nodes)
    BY <1>1, <2>1 DEF t, rest
  <2>3. <<t>> \o rest \in Seq(Nodes)
    BY <2>2
  <2> QED BY <2>3 DEF t, rest
<1>4. ASSUME Top.form = "group" PROVE Top.items \in Seq(Nodes) /\ Top.items \o Tail(stack) \in Seq(Nodes)
  <2>1. Top.items \in Seq(UseTrees)
    BY <1>2, <1>4, TreeIs
  <2> DEFINE u == Top.items  rest == Tail(stack)
  <2>2. u \in Seq(Nodes)
    BY <2>1 DEF Nodes
  <2> HIDE DEF u, rest
  <2>3. rest \in Seq(Nodes)
    BY <1>1 DEF rest
  <2>4. u \o rest \in Seq(Nodes)
    BY <2>2, <2>3
  <2> QED BY <2>2, <2>4 DEF u, rest
<1> QED BY <1>1, <1>2, <1>3, <1>4

LEMMA GatherKeeps == IInv /\ (GatherPath \/ GatherGroup \/ GatherRename \/ GatherNothing) => IInv'
<1> SUFFICES ASSUME IInv, GatherPath \/ GatherGroup \/ GatherRename \/ GatherNothing PROVE IInv'
  OBVIOUS
<1>1. /\ pass = "gather" /\ stack # <<>> /\ stack \in Seq(Nodes)
      /\ UNCHANGED <<snippet, pass, prefix, paths>>
  BY DEF IInv, GatherPath, GatherGroup, GatherRename, GatherNothing, Visiting, given
<1>2. stack' \in Seq(Nodes)
  BY <1>1, NodesStay DEF GatherPath, GatherGroup, GatherRename, GatherNothing, Visiting
<1> QED BY <1>1, <1>2 DEF IInv

\* The second pass owes what the `use` means.
LEMMA GatheredKeeps == IInv /\ Gathered => IInv'
<1> SUFFICES ASSUME IInv, Gathered PROVE IInv'
  OBVIOUS
<1> DEFINE t == snippet.tree
           st == <<t>>
           at == [k \in 1..2 |-> <<>>]
           R == Reaches(st, <<>>, {}, snippet.imports, at)
<1>1. /\ pass = "gather" /\ pass' = "flatten" /\ stack' = st
      /\ UNCHANGED <<snippet, prefix, paths>> /\ prefix = <<>> /\ paths = <<>>
  BY DEF IInv, Gathered, given
<1>2. t \in UseTrees /\ snippet.imports = Imported[t]
  BY ImportedAssumption DEF IInv
<1>3. st \in Seq(Nodes) /\ Len(st) = 1 /\ st[1] = t
  BY <1>2 DEF Nodes
<1>4. Owed(t, <<>>) = Imported[t]
  <2>1. <<>> \in Paths /\ \A p \in Imported[t] : <<>> \o p = p
    BY <1>2, TreeIs, ConcatEmptySeq DEF Paths
  <2>2. Owed(t, <<>>) = {<<>> \o p : p \in Imported[t]}
    BY <1>2, <2>1, OwedPaths
  <2> QED BY <2>1, <2>2
<1>5. t # Unwind
  BY <1>2, TreeIs
<1> HIDE DEF t
<1>6. /\ at \in [1..2 -> Paths] /\ at[1] = <<>> /\ at[2] = <<>>
      /\ \A k \in 1..1 : k = 1 /\ at[k + 1] = <<>> /\ at[k] = <<>>
  BY DEF Paths
<1> HIDE DEF st, at
<1>7. Above(st, <<>>, at)
  BY <1>3, <1>5, <1>6 DEF Above
<1>8. R
  BY <1>2, <1>3, <1>4, <1>6, <1>7 DEF Reaches, Apart
<1>9. Range(<<>>) = {}
  BY DEF Range
<1>10. \E a : Reaches(stack', prefix', Range(paths'), snippet'.imports, a)
  BY <1>1, <1>8, <1>9
<1> QED BY <1>1, <1>3, <1>10 DEF IInv

-----------------------------------------------------------------------------
(* The second pass                                                          *)

\* What takes the place of the top and what is got are what the top owed.
GivesWay(top, above, below, u, now, b, new) ==
    /\ u \in Seq(Nodes)
    /\ Above(u, now, b) /\ b[Len(u) + 1] = below
    /\ Apart(u, b)
    /\ new \cup UNION {Owed(u[k], b[k]) : k \in 1..Len(u)} = Owed(top, above)
    /\ \A k \in 1..Len(u) : new \cap Owed(u[k], b[k]) = {}

\* A step that replaces the top of the stack and gets what it does not leave.
LEMMA GoesOn ==
  ASSUME IInv, pass = "flatten", stack # <<>>, UNCHANGED <<snippet, pass>>,
         NEW at, Reaches(stack, prefix, Range(paths), snippet.imports, at),
         NEW u, NEW b, NEW new, GivesWay(stack[1], at[1], at[2], u, prefix', b, new),
         stack' = u \o Tail(stack), prefix' \in Paths,
         paths' \in Seq(Paths), Range(paths') = Range(paths) \cup new, Once(paths')
  PROVE  IInv'
<1>1. stack \in Seq(Nodes)
  BY DEF IInv
<1>2. /\ u \in Seq(Nodes)
      /\ Above(u, prefix', b) /\ b[Len(u) + 1] = at[2]
      /\ Apart(u, b)
      /\ new \cup UNION {Owed(u[k], b[k]) : k \in 1..Len(u)} = Owed(stack[1], at[1])
      /\ \A k \in 1..Len(u) : new \cap Owed(u[k], b[k]) = {}
  BY DEF GivesWay
<1>3. \E c : Reaches(u \o Tail(stack), prefix', Range(paths) \cup new, snippet.imports, c)
  BY <1>1, <1>2, TopGivesWay
<1>4. \E c : Reaches(stack', prefix', Range(paths'), snippet'.imports, c)
  BY <1>3
<1>5. stack' \in Seq(Nodes)
  BY <1>1, <1>2, InPlaceOfTop
<1> QED BY <1>4, <1>5 DEF IInv

\* What is got comes to the others once.
LEMMA OnePathMore ==
  ASSUME NEW s \in Seq(Paths), Once(s),
         NEW x \in Paths, x \notin Range(s)
  PROVE  /\ Append(s, x) \in Seq(Paths) /\ Range(Append(s, x)) = Range(s) \cup {x}
         /\ Once(Append(s, x))
<1> DEFINE u == Append(s, x)
<1>1. /\ u \in Seq(Paths) /\ Len(s) \in Nat /\ DOMAIN s = 1..Len(s) /\ DOMAIN u = 1..(Len(s) + 1)
      /\ u[Len(s) + 1] = x /\ \A i \in 1..Len(s) : u[i] = s[i]
  OBVIOUS
<1> HIDE DEF u
<1>2. \A i \in 1..(Len(s) + 1) : i = Len(s) + 1 \/ i \in 1..Len(s)
  BY <1>1
<1>3. \A i \in 1..Len(s) : s[i] # x
  BY <1>1 DEF Range
<1>4. Once(u)
  BY <1>1, <1>2, <1>3 DEF Once
<1>5. Range(u) = Range(s) \cup {x}
  <2>1. \A y \in Range(u) : y \in Range(s) \cup {x}
    BY <1>1, <1>2 DEF Range
  <2>2. \A y \in Range(s) : y \in Range(u)
    BY <1>1 DEF Range
  <2>3. x \in Range(u)
    BY <1>1 DEF Range
  <2> QED BY <2>1, <2>2, <2>3
<1> QED BY <1>1, <1>4, <1>5 DEF u

\* In the second pass.
LEMMA Flattening ==
  ASSUME IInv, pass = "flatten", stack # <<>>
  PROVE  /\ stack \in Seq(Nodes) /\ prefix \in Paths /\ paths \in Seq(Paths)
         /\ Once(paths)
         /\ Top \in Nodes /\ Top = stack[1]
         /\ Top.form # "pop" => Top \in UseTrees
         /\ Top.form = "pop" => Top = Unwind
         /\ \E at : /\ Reaches(stack, prefix, Range(paths), snippet.imports, at)
                    /\ at[1] = prefix /\ at[2] \in Paths
                    /\ at[2] = IF Top = Unwind THEN Front(prefix) ELSE prefix
                    /\ Range(paths) \cap Owed(Top, prefix) = {}
<1>1. stack \in Seq(Nodes) /\ prefix \in Paths /\ paths \in Seq(Paths)
      /\ Once(paths)
  BY DEF IInv
<1>2. PICK at : Reaches(stack, prefix, Range(paths), snippet.imports, at)
  BY DEF IInv
<1>3. Len(stack) \in Nat \ {0} /\ 1 \in 1..Len(stack) /\ 2 \in 1..(Len(stack) + 1) /\ 1 + 1 = 2
  BY <1>1, TopOf
<1>4. Top \in Nodes /\ Top = stack[1] /\ (Top.form # "pop" => Top \in UseTrees)
      /\ (Top.form = "pop" => Top = Unwind)
  BY <1>1, NodesStay
<1>5. /\ at[1] = prefix /\ at[2] \in Paths
      /\ at[2] = IF Top = Unwind THEN Front(prefix) ELSE prefix
      /\ Range(paths) \cap Owed(Top, prefix) = {}
  BY <1>2, <1>3, <1>4 DEF Reaches, Above
<1> QED BY <1>1, <1>2, <1>4, <1>5

\* The top is done with: nothing takes its place.
LEMMA TopIsDone ==
  ASSUME IInv, pass = "flatten", stack # <<>>, UNCHANGED <<snippet, pass>>,
         NEW at, Reaches(stack, prefix, Range(paths), snippet.imports, at),
         at[2] \in Paths, prefix' = at[2], stack' = Tail(stack),
         paths' \in Seq(Paths), Range(paths') = Range(paths) \cup Owed(stack[1], at[1]),
         Once(paths')
  PROVE  IInv'
<1> DEFINE u == <<>>
           b == [k \in 1..1 |-> at[2]]
           new == Owed(stack[1], at[1])
<1>1. u \in Seq(Nodes) /\ Len(u) = 0 /\ 1..0 = {}
  OBVIOUS
<1>2. u \o Tail(stack) = Tail(stack)
  <2>1. Tail(stack) \in Seq(Nodes)
    BY NodesStay DEF IInv
  <2> QED BY <2>1, ConcatEmptySeq
<1> HIDE DEF u, new
<1>3. Above(u, at[2], b) /\ b[Len(u) + 1] = at[2] /\ Apart(u, b)
  BY <1>1 DEF Above, Apart
<1> HIDE DEF b
<1>4. GivesWay(stack[1], at[1], at[2], u, prefix', b, new)
  BY <1>1, <1>3 DEF GivesWay, new
<1>5. stack' = u \o Tail(stack) /\ Range(paths') = Range(paths) \cup new
  BY <1>2 DEF new
<1> QED BY <1>4, <1>5, GoesOn

LEMMA FlattenPopGoesOn == IInv /\ FlattenPop => IInv'
<1> SUFFICES ASSUME IInv, FlattenPop PROVE IInv'
  OBVIOUS
<1>1. /\ pass = "flatten" /\ stack # <<>> /\ Top.form = "pop" /\ prefix' = Front(prefix)
      /\ stack' = Tail(stack) /\ UNCHANGED <<snippet, pass, paths>>
  BY DEF FlattenPop, Visiting, given
<1>2. PICK at : /\ Reaches(stack, prefix, Range(paths), snippet.imports, at)
                /\ at[1] = prefix /\ at[2] \in Paths
                /\ at[2] = IF Top = Unwind THEN Front(prefix) ELSE prefix
  BY <1>1, Flattening
<1>3. Top = Unwind /\ Top = stack[1] /\ paths \in Seq(Paths)
      /\ Once(paths)
  BY <1>1, Flattening
<1>4. Owed(stack[1], at[1]) = {}
  BY <1>3 DEF Owed
<1>5. at[2] = Front(prefix)
  BY <1>2, <1>3
<1> QED BY <1>1, <1>2, <1>3, <1>4, <1>5, TopIsDone

\* A name, a renaming or a glob gives one path.
LEMMA OneIsGot ==
  ASSUME IInv, pass = "flatten", stack # <<>>, Top.form # "pop", UNCHANGED <<snippet, pass, prefix>>,
         NEW path, Imported[Top] = {path}, path \in Paths, stack' = Tail(stack),
         paths' = Append(paths, prefix \o path)
  PROVE  IInv'
<1>1. /\ Top \in UseTrees /\ Top = stack[1] /\ prefix \in Paths /\ paths \in Seq(Paths)
      /\ Once(paths)
  BY Flattening
<1>2. PICK at : /\ Reaches(stack, prefix, Range(paths), snippet.imports, at)
                /\ at[1] = prefix /\ at[2] \in Paths
                /\ at[2] = IF Top = Unwind THEN Front(prefix) ELSE prefix
                /\ Range(paths) \cap Owed(Top, prefix) = {}
  BY Flattening
<1>3. at[2] = prefix
  BY <1>1, <1>2, TreeIs
<1> DEFINE x == prefix \o path
<1>4. Owed(Top, prefix) = {x} /\ x \in Paths
  <2>1. Owed(Top, prefix) = {prefix \o p : p \in Imported[Top]} /\ Owed(Top, prefix) \subseteq Paths
    BY <1>1, OwedPaths
  <2>2. Owed(Top, prefix) = {x}
    BY <2>1
  <2> HIDE DEF x
  <2> QED BY <2>1, <2>2
<1> HIDE DEF x
<1>5. x \notin Range(paths)
  BY <1>2, <1>4
<1>6. paths' = Append(paths, x)
  BY DEF x
<1>7. /\ paths' \in Seq(Paths) /\ Range(paths') = Range(paths) \cup {x}
      /\ Once(paths')
  BY <1>1, <1>4, <1>5, <1>6, OnePathMore
<1> QED BY <1>1, <1>2, <1>3, <1>4, <1>7, TopIsDone

LEMMA FlattenLeafKeeps == IInv /\ (FlattenName \/ FlattenGlob) => IInv'
<1> SUFFICES ASSUME IInv, FlattenName \/ FlattenGlob PROVE IInv'
  OBVIOUS
<1>1. CASE FlattenName
  <2> DEFINE x == Top.ident
  <2>1. /\ pass = "flatten" /\ stack # <<>> /\ Top.form \in {"name", "rename"}
        /\ paths' = Append(paths, Append(prefix, x))
        /\ stack' = Tail(stack) /\ UNCHANGED <<snippet, pass, prefix>>
    BY <1>1 DEF FlattenName, Visiting, given
  <2>2. Top.form # "pop" /\ Top \in UseTrees /\ prefix \in Paths
    BY <2>1, Flattening
  <2>3. x \in Words /\ Imported[Top] = {<<x>>}
    BY <2>1, <2>2, TreeIs DEF WithIdent
  <2> HIDE DEF x
  <2>4. <<x>> \in Paths /\ Append(prefix, x) = prefix \o <<x>>
    BY <2>2, <2>3, AppendIsConcat DEF Paths
  <2> QED BY <2>1, <2>2, <2>3, <2>4, OneIsGot
<1>2. CASE FlattenGlob
  <2>1. /\ pass = "flatten" /\ stack # <<>> /\ Top.form = "glob"
        /\ paths' = Append(paths, prefix)
        /\ stack' = Tail(stack) /\ UNCHANGED <<snippet, pass, prefix>>
    BY <1>2 DEF FlattenGlob, Visiting, given
  <2>2. Top.form # "pop" /\ Top \in UseTrees /\ prefix \in Paths
    BY <2>1, Flattening
  <2>3. Imported[Top] = {<<>>}
    BY <2>1, <2>2, TreeIs
  <2>4. <<>> \in Paths /\ prefix = prefix \o <<>>
    BY <2>2, ConcatEmptySeq DEF Paths
  <2> QED BY <2>1, <2>2, <2>3, <2>4, OneIsGot
<1> QED BY <1>1, <1>2

\* A node's children owe what it owes.
LEMMA FlattenPathKeeps == IInv /\ FlattenPath => IInv'
<1> SUFFICES ASSUME IInv, FlattenPath PROVE IInv'
  OBVIOUS
<1> DEFINE x == Top.ident
           t == Top.tree
           now == Append(prefix, x)
           u == <<t, Unwind>>
           b == [k \in 1..3 |-> IF k = 3 THEN prefix ELSE now]
<1>1. /\ pass = "flatten" /\ stack # <<>> /\ Top.form = "path" /\ prefix' = now
      /\ stack' = u \o Tail(stack) /\ UNCHANGED <<snippet, pass, paths>>
  BY DEF FlattenPath, Visiting, given
<1>2. PICK at : /\ Reaches(stack, prefix, Range(paths), snippet.imports, at)
                /\ at[1] = prefix /\ at[2] \in Paths
                /\ at[2] = IF Top = Unwind THEN Front(prefix) ELSE prefix
  BY <1>1, Flattening
<1>3. Top \in UseTrees /\ Top = stack[1] /\ prefix \in Paths /\ paths \in Seq(Paths)
      /\ Once(paths)
  BY <1>1, Flattening
<1>4. x \in Words /\ t \in UseTrees /\ Imported[Top] = {<<x>> \o p : p \in Imported[t]}
      /\ Top # Unwind
  BY <1>1, <1>3, TreeIs DEF WithIdent
<1>5. t # Unwind /\ Imported[t] \subseteq Paths /\ t \in Nodes
  BY <1>4, TreeIs
<1>6. at[2] = prefix
  BY <1>2, <1>4
<1> HIDE DEF x, t
<1>7. <<>> \in Paths
  BY DEF Paths
<1>8. now \in Paths /\ Front(now) = prefix /\ \A p \in Imported[t] : now \o p = prefix \o (<<x>> \o p)
  BY <1>3, <1>4, <1>5, <1>7, SegmentMoves
<1> HIDE DEF now
<1>9. Owed(t, now) = Owed(Top, prefix)
  <2>1. Owed(t, now) = {now \o p : p \in Imported[t]}
    BY <1>4, <1>8, OwedPaths
  <2>2. Owed(Top, prefix) = {prefix \o q : q \in Imported[Top]}
    BY <1>3, OwedPaths
  <2>3. \A p \in Imported[t] : now \o p \in Owed(Top, prefix)
    BY <1>4, <1>8, <2>2
  <2>4. \A q \in Imported[Top] : prefix \o q \in Owed(t, now)
    <3>1. SUFFICES ASSUME NEW p \in Imported[t] PROVE prefix \o (<<x>> \o p) \in Owed(t, now)
      BY <1>4
    <3> QED BY <1>8, <2>1
  <2> QED BY <2>1, <2>2, <2>3, <2>4
<1>10. u \in Seq(Nodes) /\ Len(u) = 2 /\ u[1] = t /\ u[2] = Unwind
  BY <1>5 DEF Nodes
<1>11. /\ b \in [1..3 -> Paths] /\ b[1] = now /\ b[2] = now /\ b[3] = prefix
  BY <1>3, <1>8
<1>12. 1..2 = {1, 2}
  OBVIOUS
<1> HIDE DEF u, b
<1>13. Above(u, now, b) /\ b[Len(u) + 1] = at[2]
  <2>1. \A k \in 1..2 : b[k + 1] = IF u[k] = Unwind THEN Front(b[k]) ELSE b[k]
    BY <1>5, <1>8, <1>10, <1>11, <1>12
  <2> QED BY <1>6, <1>10, <1>11, <2>1 DEF Above
<1>14. Owed(u[1], b[1]) = Owed(stack[1], at[1]) /\ Owed(u[2], b[2]) = {}
  BY <1>2, <1>3, <1>9, <1>10, <1>11 DEF Owed
<1>15. Apart(u, b) /\ {} \cup UNION {Owed(u[k], b[k]) : k \in 1..Len(u)} = Owed(stack[1], at[1])
  BY <1>10, <1>12, <1>14 DEF Apart
<1>16. GivesWay(stack[1], at[1], at[2], u, prefix', b, {})
  BY <1>1, <1>10, <1>13, <1>15 DEF GivesWay
<1>17. Range(paths') = Range(paths) \cup {} /\ paths' \in Seq(Paths) /\ Once(paths')
  BY <1>1, <1>3
<1>18. prefix' \in Paths
  BY <1>1, <1>8
<1> QED BY <1>1, <1>2, <1>16, <1>17, <1>18, GoesOn

LEMMA FlattenGroupKeeps == IInv /\ FlattenGroup => IInv'
<1> SUFFICES ASSUME IInv, FlattenGroup PROVE IInv'
  OBVIOUS
<1> DEFINE u == Top.items
           m == Len(u)
           b == [k \in 1..(m + 1) |-> prefix]
<1>1. /\ pass = "flatten" /\ stack # <<>> /\ Top.form = "group"
      /\ stack' = u \o Tail(stack) /\ UNCHANGED <<snippet, pass, prefix, paths>>
  BY DEF FlattenGroup, Visiting, given
<1>2. PICK at : /\ Reaches(stack, prefix, Range(paths), snippet.imports, at)
                /\ at[1] = prefix /\ at[2] \in Paths
                /\ at[2] = IF Top = Unwind THEN Front(prefix) ELSE prefix
  BY <1>1, Flattening
<1>3. Top \in UseTrees /\ Top = stack[1] /\ prefix \in Paths /\ paths \in Seq(Paths)
      /\ Once(paths)
  BY <1>1, Flattening
<1>4. /\ u \in Seq(UseTrees) /\ Top # Unwind
      /\ Imported[Top] = UNION {Imported[u[i]] : i \in DOMAIN u}
      /\ \A i, j \in DOMAIN u : i # j => Imported[u[i]] \cap Imported[u[j]] = {}
  BY <1>1, <1>3, TreeIs
<1>5. at[2] = prefix
  BY <1>2, <1>4
<1> HIDE DEF u
<1>6. u \in Seq(Nodes) /\ m \in Nat /\ DOMAIN u = 1..m /\ \A k \in 1..m : u[k] \in UseTrees
  BY <1>4 DEF Nodes
<1> HIDE DEF m
<1>7. b \in [1..(m + 1) -> Paths] /\ b[1] = prefix /\ b[m + 1] = prefix
      /\ \A k \in 1..m : b[k + 1] = b[k] /\ b[k] = prefix
  BY <1>3, <1>6
<1> HIDE DEF b
<1>8. Above(u, prefix, b) /\ b[Len(u) + 1] = at[2]
  <2>1. \A k \in 1..m : u[k] # Unwind
    BY <1>6, TreeIs
  <2> QED BY <1>5, <1>7, <2>1 DEF Above, m
<1>9. ASSUME NEW k \in 1..m
      PROVE  Owed(u[k], b[k]) = {prefix \o p : p \in Imported[u[k]]} /\ Imported[u[k]] \subseteq Paths
  <2>1. u[k] \in UseTrees /\ b[k] = prefix
    BY <1>6, <1>7
  <2>2. Owed(u[k], prefix) = {prefix \o p : p \in Imported[u[k]]}
    BY <1>3, <2>1, OwedPaths
  <2> QED BY <2>1, <2>2, TreeIs
<1> DEFINE owes(k) == Owed(u[k], b[k])
<1> HIDE DEF owes
<1>10. ASSUME NEW k \in 1..m, NEW l \in 1..m, k # l PROVE owes(k) \cap owes(l) = {}
  <2>1. SUFFICES ASSUME NEW p \in Imported[u[k]], NEW q \in Imported[u[l]], prefix \o p = prefix \o q
                 PROVE  FALSE
    <3>1. /\ owes(k) = {prefix \o p : p \in Imported[u[k]]}
          /\ owes(l) = {prefix \o q : q \in Imported[u[l]]}
      BY <1>9 DEF owes
    <3> QED BY <3>1
  <2>2. p \in Seq(Words) /\ q \in Seq(Words) /\ prefix \in Seq(Words)
    BY <1>3, <1>9 DEF Paths
  <2>3. p = q
    BY <2>1, <2>2, ConcatSimplifications
  <2> QED BY <1>4, <1>6, <1>10, <2>3
<1>11. UNION {owes(k) : k \in 1..m} = Owed(Top, prefix)
  <2>1. Owed(Top, prefix) = {prefix \o p : p \in Imported[Top]}
    BY <1>3, OwedPaths
  <2>2. ASSUME NEW k \in 1..m PROVE owes(k) \subseteq Owed(Top, prefix)
    <3>1. \A p \in Imported[u[k]] : p \in Imported[Top]
      BY <1>4, <1>6
    <3>2. owes(k) = {prefix \o p : p \in Imported[u[k]]}
      BY <1>9 DEF owes
    <3> QED BY <2>1, <3>1, <3>2
  <2>3. ASSUME NEW p \in Imported[Top] PROVE \E k \in 1..m : prefix \o p \in owes(k)
    <3>1. PICK k \in 1..m : p \in Imported[u[k]]
      BY <1>4, <1>6
    <3>2. owes(k) = {prefix \o q : q \in Imported[u[k]]}
      BY <1>9 DEF owes
    <3> QED BY <3>1, <3>2
  <2>4. ASSUME NEW x \in Owed(Top, prefix) PROVE \E k \in 1..m : x \in owes(k)
    BY <2>1, <2>3
  <2> QED BY <2>2, <2>4
<1>12. Apart(u, b)
  BY <1>10 DEF Apart, m, owes
<1>13. /\ {} \cup UNION {Owed(u[k], b[k]) : k \in 1..Len(u)} = Owed(stack[1], at[1])
       /\ \A k \in 1..Len(u) : {} \cap Owed(u[k], b[k]) = {}
  BY <1>2, <1>3, <1>11 DEF m, owes
<1>14. GivesWay(stack[1], at[1], at[2], u, prefix', b, {})
  BY <1>1, <1>6, <1>8, <1>12, <1>13 DEF GivesWay
<1>15. Range(paths') = Range(paths) \cup {} /\ paths' \in Seq(Paths) /\ Once(paths') /\ prefix' \in Paths
  BY <1>1, <1>3
<1> QED BY <1>1, <1>2, <1>14, <1>15, GoesOn

-----------------------------------------------------------------------------
(* What is left of a path                                                   *)

NatLess == OpToRel(<, Nat)

LEMMA LeastNat ==
  ASSUME NEW S, S \subseteq Nat, S # {}
  PROVE  \E m \in S : \A k \in S : ~(k < m)
<1>1. \A x, y \in Nat : x < y => <<x, y>> \in NatLess
  BY Zenon DEF NatLess, OpToRel
<1>2. IsWellFoundedOn(NatLess, Nat)
  BY NatLessThanWellFounded, Zenon DEF NatLess
<1>3. PICK m \in S : \A y \in S : ~(<<y, m>> \in NatLess)
  BY <1>2, WFMin, Zenon
<1> QED BY <1>1, <1>3, Zenon

\* The first segment that is no root.
First(path, h) == h \in 1..Len(path) /\ path[h] \notin Roots /\ \A j \in 1..(h - 1) : path[j] \in Roots

LEMMA FirstOrNone ==
  ASSUME NEW S, NEW path \in Seq(S), ~(\A j \in 1..Len(path) : path[j] \in Roots)
  PROVE  \E h : First(path, h)
<1> DEFINE T == {j \in 1..Len(path) : path[j] \notin Roots}
<1>1. T \subseteq Nat /\ T # {}
  OBVIOUS
<1>2. PICK h \in T : \A y \in T : ~(y < h)
  BY <1>1, LeastNat
<1>3. \A j \in 1..(h - 1) : j \in 1..Len(path) /\ j < h
  BY <1>2
<1> QED BY <1>2, <1>3 DEF First

\* strip_roots leaves what stands from there on.
LEMMA StripFrom ==
  ASSUME NEW S, NEW path \in Seq(S), NEW h, First(path, h)
  PROVE  LET segs == StripRoots(path)
         IN /\ segs \in Seq(S) /\ Len(segs) = Len(path) - h + 1 /\ Len(segs) \in Nat \ {0}
            /\ \A i \in 1..Len(segs) : segs[i] = path[h + i - 1]
<1> DEFINE n == Len(path)
           kept == {i \in DOMAIN path : \E j \in 1..i : path[j] \notin Roots}
<1>1. n \in Nat /\ DOMAIN path = 1..n /\ h \in 1..n /\ \A i \in 1..n : path[i] \in S
  BY DEF First
<1>2. kept = h..n
  <2>1. ASSUME NEW i \in 1..n PROVE (\E j \in 1..i : path[j] \notin Roots) <=> h <= i
    <3>1. h <= i => h \in 1..i /\ path[h] \notin Roots
      BY <1>1 DEF First
    <3>2. ~(h <= i) => \A j \in 1..i : path[j] \in Roots
      BY <1>1 DEF First
    <3> QED BY <3>1, <3>2
  <2> QED BY <1>1, <2>1
<1>3. StripRoots(path) = SubSeq(path, n - Cardinality(kept) + 1, n)
  BY DEF StripRoots
<1> HIDE DEF kept
<1>7. Cardinality(kept) = n - h + 1
  <2>1. h \in Int /\ n \in Int /\ ~(h > n)
    BY <1>1
  <2>2. Cardinality(h..n) = IF h > n THEN 0 ELSE n - h + 1
    BY <2>1, FS_Interval
  <2> QED BY <1>2, <2>1, <2>2
<1>4. StripRoots(path) = SubSeq(path, h, n)
  <2>1. n - (n - h + 1) + 1 = h
    BY <1>1
  <2> QED BY <1>3, <1>7, <2>1
<1> HIDE DEF n
<1>5. \A i \in h..n : path[i] \in S
  BY <1>1
<1>6. /\ SubSeq(path, h, n) \in Seq(S) /\ Len(SubSeq(path, h, n)) = n - h + 1
      /\ \A i \in 1..(n - h + 1) : SubSeq(path, h, n)[i] = path[h + i - 1]
  BY <1>1, <1>5, SubSeqProperties
<1> QED BY <1>1, <1>4, <1>6 DEF n

LEMMA StripAll ==
  ASSUME NEW S, NEW path \in Seq(S), \A j \in 1..Len(path) : path[j] \in Roots
  PROVE  StripRoots(path) = <<>>
<1> DEFINE n == Len(path)
           kept == {i \in DOMAIN path : \E j \in 1..i : path[j] \notin Roots}
<1>1. n \in Nat /\ DOMAIN path = 1..n
  OBVIOUS
<1>2. kept = {}
  BY <1>1
<1>6. StripRoots(path) = SubSeq(path, n - Cardinality(kept) + 1, n)
  BY DEF StripRoots
<1> HIDE DEF kept, n
<1>3. Cardinality(kept) = 0 /\ n - 0 + 1 = n + 1
  BY <1>1, <1>2, FS_EmptySet
<1>4. StripRoots(path) = SubSeq(path, n + 1, n)
  BY <1>3, <1>6
<1>5. n + 1 \in Int /\ n \in Int /\ n < n + 1
  BY <1>1
<1> QED BY <1>4, <1>5, SubSeqEmpty

\* A path is stripped of the roots written before it: `std::fs::read` and an
\* imported `fs::read` leave the same.
LEMMA StripRooted ==
  ASSUME NEW S, NEW r \in Seq(Roots), NEW path \in Seq(S)
  PROVE  StripRoots(r \o path) = StripRoots(path)
<1> DEFINE m == Len(r)  n == Len(path)  U == S \cup Roots  w == r \o path
<1>1. /\ r \in Seq(U) /\ path \in Seq(U) /\ m \in Nat /\ n \in Nat
      /\ \A j \in 1..m : r[j] \in Roots
  OBVIOUS
<1> HIDE DEF U
<1>2. /\ w \in Seq(U) /\ Len(w) = m + n
      /\ \A i \in 1..(m + n) : w[i] = IF i <= m THEN r[i] ELSE path[i - m]
  BY <1>1, ConcatProperties
<1> HIDE DEF m, n, w
<1>3. CASE \A j \in 1..n : path[j] \in Roots
  <2>1. \A j \in 1..(m + n) : w[j] \in Roots
    <3>1. SUFFICES ASSUME NEW j \in 1..(m + n) PROVE w[j] \in Roots
      OBVIOUS
    <3>2. j <= m => j \in 1..m
      BY <1>1
    <3>3. ~(j <= m) => j - m \in 1..n
      BY <1>1
    <3> QED BY <1>1, <1>2, <1>3, <3>2, <3>3
  <2>2. StripRoots(w) = <<>> /\ StripRoots(path) = <<>>
    BY <1>1, <1>2, <1>3, <2>1, StripAll DEF n
  <2> QED BY <2>2 DEF w
<1>4. CASE ~(\A j \in 1..n : path[j] \in Roots)
  <2>1. PICK h : First(path, h)
    BY <1>1, <1>4, FirstOrNone DEF n
  <2>2. h \in 1..n /\ path[h] \notin Roots /\ \A j \in 1..(h - 1) : path[j] \in Roots
    BY <2>1 DEF First, n
  <2>3. First(w, m + h)
    <3>1. m + h \in 1..(m + n) /\ ~(m + h <= m) /\ (m + h) - m = h
      BY <1>1, <2>2
    <3>2. ASSUME NEW j \in 1..((m + h) - 1) PROVE w[j] \in Roots
      <4>1. j \in 1..(m + n) /\ (j <= m => j \in 1..m) /\ (~(j <= m) => j - m \in 1..(h - 1))
        BY <1>1, <2>2
      <4> QED BY <1>1, <1>2, <2>2, <4>1
    <3>3. w[m + h] \notin Roots
      <4>1. w[m + h] = path[h]
        BY <1>2, <3>1
      <4> QED BY <2>2, <4>1
    <3>4. m + h \in 1..Len(w)
      <4>1. Len(w) = m + n
        BY <1>2
      <4> QED BY <3>1, <4>1
    <3>5. \A j \in 1..((m + h) - 1) : w[j] \in Roots
      BY <3>2
    <3> QED BY <3>3, <3>4, <3>5, Zenon DEF First
  <2> DEFINE s == StripRoots(w)  t == StripRoots(path)
  <2>4. /\ s \in Seq(U) /\ Len(s) = (m + n) - (m + h) + 1
        /\ \A i \in 1..Len(s) : s[i] = w[(m + h) + i - 1]
    BY <1>2, <2>3, StripFrom
  <2>5. /\ t \in Seq(U) /\ Len(t) = n - h + 1
        /\ \A i \in 1..Len(t) : t[i] = path[h + i - 1]
    BY <1>1, <2>1, StripFrom DEF n
  <2> HIDE DEF s, t
  <2>6. Len(s) = Len(t) /\ Len(t) = n - h + 1
    BY <1>1, <2>2, <2>4, <2>5
  <2>7. ASSUME NEW i \in 1..Len(s) PROVE s[i] = t[i]
    <3>1. /\ (m + h) + i - 1 \in 1..(m + n) /\ ~((m + h) + i - 1 <= m)
          /\ ((m + h) + i - 1) - m = h + i - 1
      BY <1>1, <2>2, <2>6
    <3> QED BY <1>2, <2>4, <2>5, <2>6, <3>1
  <2>8. s = t
    BY <2>4, <2>5, <2>6, <2>7, SeqEqual
  <2> QED BY <2>8 DEF s, t, w
<1> QED BY <1>3, <1>4

-----------------------------------------------------------------------------
(* A path divided between an import and a call                              *)

\* s runs on from q, which ends where call begins.
RunsOn(q, call, s) ==
    /\ Len(q) \in Nat /\ Len(q) >= 2 /\ Len(call) \in Nat \ {0}
    /\ Len(s) = (Len(q) - 1) + Len(call)
    /\ \A i \in 1..Len(q) : s[i] = q[i]
    /\ \A j \in 1..Len(call) : s[(Len(q) - 1) + j] = call[j]

LEMMA WholePath ==
  ASSUME NEW S, NEW p \in Seq(S), NEW call \in Seq(S), p # <<>>, call # <<>>, Last(p) = Head(call)
  PROVE  LET w == Front(p) \o call
         IN /\ Front(p) \in Seq(S) /\ w \in Seq(S) /\ Len(p) \in Nat \ {0} /\ Len(call) \in Nat \ {0}
            /\ Len(Front(p)) = Len(p) - 1 /\ Len(w) = (Len(p) - 1) + Len(call)
            /\ \A i \in 1..(Len(p) - 1) : Front(p)[i] = p[i]
            /\ \A i \in 1..Len(p) : w[i] = p[i]
            /\ \A j \in 1..Len(call) : w[(Len(p) - 1) + j] = call[j]
<1> DEFINE m == Len(p)  n == Len(call)  f == Front(p)  w == f \o call
<1>1. m \in Nat \ {0} /\ n \in Nat \ {0} /\ p[m] = call[1] /\ \A i \in 1..m : p[i] \in S
  BY TopOf DEF Last
<1> HIDE DEF m, n
<1>2. f \in Seq(S) /\ Len(f) = m - 1 /\ \A i \in 1..(m - 1) : f[i] = p[i]
  <2>1. f = SubSeq(p, 1, m - 1)
    BY DEF Front, m
  <2> HIDE DEF f
  <2>2. 1 \in Int /\ m - 1 \in Int /\ \A i \in 1..(m - 1) : p[i] \in S
    BY <1>1
  <2>3. /\ f \in Seq(S) /\ Len(f) = IF 1 <= m - 1 THEN (m - 1) - 1 + 1 ELSE 0
        /\ \A i \in 1..((m - 1) - 1 + 1) : f[i] = p[1 + i - 1]
    BY <2>1, <2>2, SubSeqProperties
  <2> QED BY <1>1, <2>3
<1> HIDE DEF f
<1>3. /\ w \in Seq(S) /\ Len(w) = (m - 1) + n
      /\ \A i \in 1..((m - 1) + n) : w[i] = IF i <= m - 1 THEN f[i] ELSE call[i - (m - 1)]
  <2>1. f \in Seq(S) /\ Len(f) = m - 1 /\ Len(call) = n
    BY <1>2 DEF n
  <2>2. /\ w \in Seq(S) /\ Len(w) = Len(f) + Len(call)
        /\ \A i \in 1..(Len(f) + Len(call)) : w[i] = IF i <= Len(f) THEN f[i] ELSE call[i - Len(f)]
    BY <2>1, ConcatProperties
  <2> QED BY <2>1, <2>2
<1> HIDE DEF w
<1>4. ASSUME NEW j \in 1..n PROVE w[(m - 1) + j] = call[j]
  <2>1. (m - 1) + j \in 1..((m - 1) + n) /\ ~((m - 1) + j <= m - 1) /\ ((m - 1) + j) - (m - 1) = j
    BY <1>1
  <2> QED BY <1>3, <2>1
<1>5. ASSUME NEW i \in 1..m PROVE w[i] = p[i]
  <2>1. CASE i = m
    <3>1. 1 \in 1..n /\ (m - 1) + 1 = m
      BY <1>1
    <3>2. w[(m - 1) + 1] = call[1]
      BY <1>4, <3>1
    <3> QED BY <1>1, <2>1, <3>1, <3>2
  <2>2. CASE i # m
    <3>1. i \in 1..(m - 1) /\ i \in 1..((m - 1) + n) /\ i <= m - 1
      BY <1>1, <2>2
    <3> QED BY <1>2, <1>3, <3>1
  <2> QED BY <2>1, <2>2
<1> QED BY <1>1, <1>2, <1>3, <1>4, <1>5 DEF f, m, n, w

LEMMA StrippedRunsOn ==
  ASSUME NEW S, NEW p \in Seq(S), NEW call \in Seq(S), p # <<>>, call # <<>>, Last(p) = Head(call),
         NEW h, First(p, h), h # Len(p)
  PROVE  LET s == StripRoots(Front(p) \o call)
             q == StripRoots(p)
         IN q \in Seq(S) /\ s \in Seq(S) /\ RunsOn(q, call, s)
<1> DEFINE m == Len(p)  n == Len(call)  w == Front(p) \o call
           q == StripRoots(p)  s == StripRoots(w)
<1>1. /\ w \in Seq(S) /\ m \in Nat \ {0} /\ n \in Nat \ {0} /\ Len(w) = (m - 1) + n
      /\ \A i \in 1..m : w[i] = p[i]
      /\ \A j \in 1..n : w[(m - 1) + j] = call[j]
  BY WholePath
<1>2. /\ q \in Seq(S) /\ Len(q) = m - h + 1
      /\ \A i \in 1..Len(q) : q[i] = p[h + i - 1]
  BY StripFrom
<1>3. h \in 1..(m - 1) /\ p[h] \notin Roots /\ \A j \in 1..(h - 1) : p[j] \in Roots
  BY <1>1 DEF First
<1> HIDE DEF m, n, w, q
<1>4. First(w, h)
  <2>1. h \in 1..((m - 1) + n) /\ h \in 1..m /\ \A j \in 1..(h - 1) : j \in 1..m
    BY <1>1, <1>3
  <2>2. h \in 1..Len(w) /\ w[h] \notin Roots /\ \A j \in 1..(h - 1) : w[j] \in Roots
    BY <1>1, <1>3, <2>1
  <2> QED BY <2>2, Zenon DEF First
<1>5. /\ s \in Seq(S) /\ Len(s) = Len(w) - h + 1
      /\ \A i \in 1..Len(s) : s[i] = w[h + i - 1]
  <2>1. w \in Seq(S)
    BY <1>1
  <2> QED BY <1>4, <2>1, StripFrom, Zenon
<1> HIDE DEF s
<1>6. Len(q) \in Nat /\ Len(q) >= 2 /\ Len(s) = (Len(q) - 1) + n
  BY <1>1, <1>2, <1>3, <1>5
<1>7. ASSUME NEW i \in 1..Len(q) PROVE s[i] = q[i]
  <2>1. i \in 1..Len(s) /\ h + i - 1 \in 1..m
    BY <1>1, <1>2, <1>3, <1>6
  <2>2. s[i] = w[h + i - 1] /\ q[i] = p[h + i - 1]
    BY <1>2, <1>5, <2>1
  <2> QED BY <1>1, <2>1, <2>2
<1>8. ASSUME NEW j \in 1..n PROVE s[(Len(q) - 1) + j] = call[j]
  <2> DEFINE i == (Len(q) - 1) + j
  <2>1. i \in 1..Len(s) /\ h + i - 1 = (m - 1) + j
    BY <1>1, <1>2, <1>3, <1>6
  <2> HIDE DEF i
  <2>2. s[i] = w[(m - 1) + j]
    BY <1>5, <2>1
  <2> QED BY <1>1, <2>2 DEF i
<1>9. RunsOn(q, call, s)
  BY <1>1, <1>6, <1>7, <1>8 DEF RunsOn, n
<1> QED BY <1>2, <1>5, <1>9 DEF q, s, w

\* c is how s ends, behind the first d segments.
EndOf(c, s, d) ==
    /\ d \in Nat /\ Len(c) \in Nat \ {0} /\ Len(c) = Len(s) - d
    /\ \A i \in 1..Len(c) : c[i] = s[d + i]

\* A word of the call that is no root is still there when the roots are gone.
LEMMA CallKeeps ==
  ASSUME NEW S, NEW call \in Seq(S), NEW q, NEW s, RunsOn(q, call, s),
         NEW k \in Nat, Len(q) <= k, k <= Len(s), s[k] \notin Roots
  PROVE  \E d : d < k /\ EndOf(StripRoots(call), s, d)
<1> DEFINE a == Len(q)  n == Len(call)  c == StripRoots(call)
<1>1. /\ a \in Nat /\ a >= 2 /\ n \in Nat \ {0} /\ Len(s) = (a - 1) + n
      /\ \A j \in 1..n : s[(a - 1) + j] = call[j]
  BY DEF RunsOn
<1>2. a <= k /\ k <= Len(s)
  OBVIOUS
<1> HIDE DEF a
<1> DEFINE j == k - (a - 1)
<1>3. j \in 1..n /\ (a - 1) + j = k
  BY <1>1, <1>2
<1> HIDE DEF j
<1>4. call[j] \notin Roots
  BY <1>1, <1>3
<1>5. PICK g : First(call, g)
  BY <1>3, <1>4, FirstOrNone
<1>6. g \in 1..n /\ \A i \in 1..(g - 1) : call[i] \in Roots
  BY <1>5 DEF First
<1>7. g <= j
  BY <1>1, <1>3, <1>4, <1>6
<1>8. Len(c) = n - g + 1 /\ \A i \in 1..Len(c) : c[i] = call[g + i - 1]
  BY <1>5, StripFrom
<1> HIDE DEF n, c
<1> DEFINE d == (a - 1) + (g - 1)
<1>9. d \in Nat /\ d < k /\ Len(c) \in Nat \ {0} /\ Len(c) = Len(s) - d
  BY <1>1, <1>3, <1>6, <1>7, <1>8
<1>10. ASSUME NEW i \in 1..Len(c) PROVE c[i] = s[d + i]
  <2>1. g + i - 1 \in 1..n /\ (a - 1) + (g + i - 1) = d + i
    BY <1>1, <1>6, <1>8
  <2> QED BY <1>1, <1>8, <2>1
<1>11. EndOf(c, s, d)
  BY <1>9, <1>10 DEF EndOf
<1> QED BY <1>9, <1>11 DEF c

LEMMA EndHas ==
  ASSUME NEW c, NEW s, NEW d, EndOf(c, s, d), NEW i \in 1..Len(s), d < i
  PROVE  i - d \in 1..Len(c) /\ c[i - d] = s[i]
<1>1. /\ d \in Nat /\ Len(c) \in Nat \ {0} /\ Len(c) = Len(s) - d
      /\ \A j \in 1..Len(c) : c[j] = s[d + j]
  BY DEF EndOf
<1>2. i - d \in 1..Len(c) /\ d + (i - d) = i
  BY <1>1
<1> QED BY <1>1, <1>2

\* A clock reading of the whole is one of the import or of the call, and the
\* other way round.
LEMMA ClockDivided ==
  ASSUME NEW S, NEW call \in Seq(S), NEW q \in Seq(S), NEW s \in Seq(S), RunsOn(q, call, s)
  PROVE  /\ IsClock(s) => IsClock(q) \/ (StripRoots(call) # <<>> /\ IsClock(StripRoots(call)))
         /\ IsClock(q) => IsClock(s)
         /\ \A d : EndOf(StripRoots(call), s, d) /\ IsClock(StripRoots(call)) => IsClock(s)
<1> DEFINE a == Len(q)  n == Len(s)  c == StripRoots(call)
<1>1. /\ a \in Nat /\ a >= 2 /\ n \in Nat /\ a <= n
      /\ \A i \in 1..a : s[i] = q[i]
  <2>1. a \in Nat /\ a >= 2 /\ Len(call) \in Nat \ {0} /\ n = (a - 1) + Len(call)
    BY Zenon DEF RunsOn
  <2>2. \A i \in 1..a : s[i] = q[i]
    BY Zenon DEF RunsOn
  <2> HIDE DEF a, n
  <2>3. n \in Nat /\ a <= n
    BY <2>1
  <2> QED BY <2>1, <2>2, <2>3, Zenon
<1>2. ASSUME IsClock(s) PROVE IsClock(q) \/ (c # <<>> /\ IsClock(c))
  <2>1. PICK i \in 1..(n - 1) : s[i] \in ClockTypes /\ s[i + 1] \in NowNames
    BY <1>2 DEF IsClock
  <2>2. CASE i + 1 <= a
    <3>1. i \in 1..(a - 1) /\ i \in 1..a /\ i + 1 \in 1..a
      BY <1>1, <2>2
    <3>2. q[i] \in ClockTypes /\ q[i + 1] \in NowNames
      BY <1>1, <2>1, <3>1
    <3>3. IsClock(q)
      BY <3>1, <3>2, Zenon DEF IsClock
    <3> QED BY <3>3
  <2>3. CASE ~(i + 1 <= a)
    <3>1. i \in Nat /\ a <= i /\ i <= n /\ i \in 1..n /\ i + 1 \in 1..n /\ s[i] \notin Roots
      BY <1>1, <2>1, <2>3 DEF ClockTypes, Roots
    <3>2. PICK d : d < i /\ EndOf(c, s, d)
      BY <3>1, CallKeeps
    <3> HIDE DEF c
    <3>3. d \in Nat /\ Len(c) \in Nat \ {0}
      BY <3>2 DEF EndOf
    <3>4. /\ i - d \in 1..Len(c) /\ c[i - d] = s[i]
      BY <3>1, <3>2, EndHas
    <3>5. d < i + 1 /\ (i + 1) - d = (i - d) + 1
      BY <3>1, <3>2, <3>3
    <3>6. (i + 1) - d \in 1..Len(c) /\ c[(i + 1) - d] = s[i + 1]
      BY <3>1, <3>2, <3>5, EndHas
    <3>7. i - d \in 1..(Len(c) - 1)
      BY <3>1, <3>3, <3>4, <3>5, <3>6
    <3>8. c[i - d] \in ClockTypes /\ c[(i - d) + 1] \in NowNames
      BY <2>1, <3>4, <3>5, <3>6
    <3>9. IsClock(c)
      BY <3>7, <3>8 DEF IsClock
    <3> QED BY <3>3, <3>9
  <2> QED BY <2>2, <2>3
<1>3. ASSUME IsClock(q) PROVE IsClock(s)
  <2>1. PICK i \in 1..(a - 1) : q[i] \in ClockTypes /\ q[i + 1] \in NowNames
    BY <1>3 DEF IsClock
  <2>2. i \in 1..a /\ i + 1 \in 1..a /\ i \in 1..(n - 1)
    BY <1>1
  <2>3. s[i] \in ClockTypes /\ s[i + 1] \in NowNames
    BY <1>1, <2>1, <2>2
  <2> QED BY <2>2, <2>3 DEF IsClock
<1>4. ASSUME NEW d, EndOf(c, s, d), IsClock(c) PROVE IsClock(s)
  <2> HIDE DEF c
  <2>1. PICK i \in 1..(Len(c) - 1) : c[i] \in ClockTypes /\ c[i + 1] \in NowNames
    BY <1>4 DEF IsClock
  <2>2. /\ d \in Nat /\ Len(c) \in Nat \ {0} /\ Len(c) = n - d
        /\ \A j \in 1..Len(c) : c[j] = s[d + j]
    BY <1>4 DEF EndOf
  <2>3. i \in 1..Len(c) /\ i + 1 \in 1..Len(c) /\ d + i \in 1..(n - 1) /\ d + (i + 1) = (d + i) + 1
    BY <1>1, <2>2
  <2>4. s[d + i] \in ClockTypes /\ s[(d + i) + 1] \in NowNames
    BY <2>1, <2>2, <2>3
  <2> QED BY <2>3, <2>4 DEF IsClock
<1> QED BY <1>2, <1>3, <1>4

\* So is a random source, as long as a uuid and its making stand together.
LEMMA RandomDivided ==
  ASSUME NEW S, NEW call \in Seq(S), NEW q \in Seq(S), NEW s \in Seq(S), RunsOn(q, call, s),
         Together(s), IsRandom(s)
  PROVE  \/ IsRandom(q)
         \/ \E d : EndOf(StripRoots(call), s, d) /\ IsRandom(StripRoots(call))
<1> DEFINE a == Len(q)  n == Len(s)  c == StripRoots(call)
<1>1. /\ a \in Nat /\ a >= 2 /\ n \in Nat /\ a <= n /\ DOMAIN q = 1..a
      /\ \A i \in 1..a : s[i] = q[i]
  <2>1. /\ a \in Nat /\ a >= 2 /\ Len(call) \in Nat \ {0} /\ n = (a - 1) + Len(call)
        /\ \A i \in 1..a : s[i] = q[i]
    BY Zenon DEF RunsOn
  <2>2. DOMAIN q = 1..a
    OBVIOUS
  <2> QED BY <2>1, <2>2
<1>2. CASE Head(s) \in {"rand", "fastrand", "getrandom"}
  <2>1. Head(s) = s[1] /\ Head(q) = q[1] /\ 1 \in 1..a
    BY <1>1
  <2>2. Head(q) \in {"rand", "fastrand", "getrandom"}
    BY <1>1, <1>2, <2>1
  <2>3. IsRandom(q)
    BY <2>2, Zenon DEF IsRandom
  <2> QED BY <2>3
<1>3. CASE Last(s) = "thread_rng"
  <2>1. s[n] = "thread_rng" /\ s[n] \notin Roots
    BY <1>3 DEF Last, Roots
  <2>2. n \in 1..n
    BY <1>1
  <2>3. PICK d : d < n /\ EndOf(c, s, d)
    BY <1>1, <2>1, CallKeeps
  <2> HIDE DEF c
  <2>4. d \in Nat /\ Len(c) \in Nat \ {0} /\ Len(c) = n - d
    BY <2>3 DEF EndOf
  <2>5. c[n - d] = s[n]
    BY <2>2, <2>3, EndHas
  <2>6. Last(c) = "thread_rng"
    BY <2>1, <2>4, <2>5 DEF Last
  <2>7. IsRandom(c)
    BY <2>6, Zenon DEF IsRandom
  <2> QED BY <2>3, <2>7 DEF c
<1>4. CASE Names(s, UuidNames) /\ Names(s, UuidMakers)
  <2>1. PICK i \in 1..(n - 1) : s[i] \in UuidNames /\ s[i + 1] \in UuidMakers
    BY <1>4 DEF Together
  <2>2. CASE i + 1 <= a
    <3>1. i \in 1..a /\ i + 1 \in 1..a
      BY <1>1, <2>2
    <3>2. q[i] \in UuidNames /\ q[i + 1] \in UuidMakers
      BY <1>1, <2>1, <3>1
    <3>3. Names(q, UuidNames) /\ Names(q, UuidMakers)
      BY <1>1, <3>1, <3>2, Zenon DEF Names
    <3>4. IsRandom(q)
      BY <3>3, Zenon DEF IsRandom
    <3> QED BY <3>4
  <2>3. CASE ~(i + 1 <= a)
    <3>1. i \in Nat /\ a <= i /\ i <= n /\ i \in 1..n /\ i + 1 \in 1..n /\ s[i] \notin Roots
      BY <1>1, <2>1, <2>3 DEF UuidNames, Roots
    <3>2. PICK d : d < i /\ EndOf(c, s, d)
      BY <3>1, CallKeeps
    <3>8. c \in Seq(S)
      <4>1. PICK g : First(call, g)
        <5>1. EndOf(StripRoots(call), s, d)
          BY <3>2
        <5>2. StripRoots(call) # <<>>
          <6> DEFINE e == StripRoots(call)
          <6>1. EndOf(e, s, d)
            BY <5>1
          <6> HIDE DEF e
          <6>2. Len(e) # 0
            BY <6>1 DEF EndOf
          <6>3. e # <<>>
            BY <6>2
          <6> QED BY <6>3 DEF e
        <5> QED BY <5>2, StripAll, FirstOrNone, Zenon
      <4> QED BY <4>1, StripFrom
    <3> HIDE DEF c
    <3>3. d \in Nat /\ Len(c) \in Nat \ {0} /\ DOMAIN c = 1..Len(c)
      BY <3>2, <3>8 DEF EndOf
    <3>4. /\ i - d \in 1..Len(c) /\ c[i - d] = s[i]
      BY <3>1, <3>2, EndHas
    <3>5. d < i + 1
      BY <3>1, <3>2, <3>3
    <3>6. (i + 1) - d \in 1..Len(c) /\ c[(i + 1) - d] = s[i + 1]
      BY <3>1, <3>2, <3>5, EndHas
    <3>7. Names(c, UuidNames) /\ Names(c, UuidMakers)
      BY <2>1, <3>3, <3>4, <3>6, Zenon DEF Names
    <3>9. IsRandom(c)
      BY <3>7, Zenon DEF IsRandom
    <3> QED BY <3>2, <3>9 DEF c
  <2> QED BY <2>2, <2>3
<1> QED BY <1>2, <1>3, <1>4, Zenon DEF IsRandom

\* Nothing makes a random source of an import but what would of the whole.
LEMMA NotRandomDivided ==
  ASSUME NEW S, NEW call \in Seq(S), NEW q \in Seq(S), NEW s \in Seq(S), RunsOn(q, call, s),
         Together(s), ~IsRandom(s)
  PROVE  ~IsRandom(q)
<1> DEFINE a == Len(q)  n == Len(s)
<1>1. /\ a \in Nat /\ a >= 2 /\ n \in Nat /\ a <= n /\ DOMAIN q = 1..a /\ DOMAIN s = 1..n
      /\ \A i \in 1..a : s[i] = q[i]
  <2>1. /\ a \in Nat /\ a >= 2 /\ Len(call) \in Nat \ {0} /\ n = (a - 1) + Len(call)
        /\ \A i \in 1..a : s[i] = q[i]
    BY Zenon DEF RunsOn
  <2>2. DOMAIN q = 1..a /\ DOMAIN s = 1..n
    OBVIOUS
  <2> QED BY <2>1, <2>2
<1>2. Head(q) \notin {"rand", "fastrand", "getrandom"}
  <2>1. Head(s) = s[1] /\ Head(q) = q[1] /\ 1 \in 1..a
    BY <1>1
  <2> QED BY <1>1, <2>1 DEF IsRandom
<1>3. Last(q) # "thread_rng"
  <2>1. Last(q) = s[a] /\ Last(s) = s[n]
    BY <1>1 DEF Last
  <2>2. CASE a = n
    BY <2>1, <2>2 DEF IsRandom
  <2>3. CASE a # n
    <3>1. a \in Nat /\ n \in Nat /\ a >= 2 /\ a <= n
      BY <1>1
    <3> HIDE DEF a
    <3>2. a \in 1..(n - 1)
      BY <2>3, <3>1
    <3> QED BY <2>1, <3>2 DEF Together
  <2> QED BY <2>2, <2>3
<1>4. ASSUME NEW X, Names(q, X) PROVE Names(s, X)
  <2>1. PICK i \in 1..a : q[i] \in X
    BY <1>1, <1>4 DEF Names
  <2>2. i \in 1..n /\ s[i] \in X
    BY <1>1, <2>1
  <2> QED BY <1>1, <2>2 DEF Names
<1> QED BY <1>2, <1>3, <1>4 DEF IsRandom

\* The effects of std and of the crates are those of the import.
LEMMA StdDivided ==
  ASSUME NEW S, NEW call \in Seq(S), NEW q \in Seq(S), NEW s \in Seq(S), RunsOn(q, call, s),
         Together(s)
  PROVE  /\ Head(q) = Head(s)
         /\ StdKind(s) # "pure" => StdKind(q) = StdKind(s)
         /\ StdKind(s) = "pure" /\ CrateKind(Head(s)) # "pure" => StdKind(q) = "pure"
<1> DEFINE a == Len(q)  n == Len(s)
<1>1. /\ a \in Nat /\ a >= 2 /\ n \in Nat /\ a <= n
      /\ \A i \in 1..a : s[i] = q[i]
  <2>1. /\ a \in Nat /\ a >= 2 /\ Len(call) \in Nat \ {0} /\ n = (a - 1) + Len(call)
        /\ \A i \in 1..a : s[i] = q[i]
    BY Zenon DEF RunsOn
  <2> QED BY <2>1
<1>2. Head(q) = Head(s)
  <2>1. Head(s) = s[1] /\ Head(q) = q[1] /\ 1 \in 1..a
    BY <1>1
  <2> QED BY <1>1, <2>1
<1>3. ASSUME StdKind(s) # "pure" PROVE StdKind(q) = StdKind(s)
  <2>1. SubSeq(s, 1, a) = q
    <3>1. \A i \in 1..a : s[i] \in S /\ 1 + i - 1 = i
      BY <1>1
    <3>2. 1 \in Int /\ a \in Int /\ a - 1 + 1 = a /\ 1 <= a
      BY <1>1
    <3> DEFINE t == SubSeq(s, 1, a)
    <3>3. t \in Seq(S) /\ Len(t) = a - 1 + 1 /\ \A i \in 1..(a - 1 + 1) : t[i] = s[1 + i - 1]
      BY <3>1, <3>2, SubSeqProperties
    <3> HIDE DEF t
    <3>4. Len(t) = Len(q) /\ \A i \in 1..Len(t) : t[i] = q[i]
      BY <1>1, <3>1, <3>2, <3>3
    <3>5. t = q
      BY <3>3, <3>4, SeqEqual
    <3> QED BY <3>5 DEF t
  <2>2. a \in 2..n
    BY <1>1
  <2>3. StdKind(q) # "pure"
    BY <1>3, <2>1, <2>2 DEF Together
  <2>4. Head(s) \in {"fs", "net", "process", "env", "io", "thread"}
    BY <1>3 DEF StdKind
  <2> HIDE DEF a, n
  <2> QED BY <1>2, <1>3, <2>3, <2>4 DEF StdKind
<1>4. ASSUME CrateKind(Head(s)) # "pure" PROVE StdKind(q) = "pure"
  <2>1. Head(s) \notin {"fs", "net", "process", "env", "io", "thread"}
    BY <1>4, FamilyAssumption
       DEF CrateKind, AsyncCrates, BoxingCrates, DatabaseCrates, NetworkCrates
  <2> QED BY <1>2, <2>1 DEF StdKind
<1> QED BY <1>2, <1>3, <1>4

\* The import or the call alone is classified as the whole would be.
LEMMA OneHalfSuffices ==
  ASSUME NEW S, NEW p \in Seq(S), NEW call \in Seq(S), p # <<>>, call # <<>>, Last(p) = Head(call),
         ClassifyPath(Front(p) \o call) # "pure", Together(StripRoots(Front(p) \o call))
  PROVE  \/ ClassifyPath(p) = ClassifyPath(Front(p) \o call)
         \/ ClassifyPath(call) = ClassifyPath(Front(p) \o call)
<1> DEFINE w == Front(p) \o call
           s == StripRoots(w)
           q == StripRoots(p)
           c == StripRoots(call)
<1>1. /\ Front(p) \in Seq(S) /\ Len(p) \in Nat \ {0} /\ Len(Front(p)) = Len(p) - 1
      /\ \A i \in 1..(Len(p) - 1) : Front(p)[i] = p[i]
  BY WholePath
<1>2. CASE \A i \in 1..(Len(p) - 1) : p[i] \in Roots
  <2> DEFINE f == Front(p)
  <2>1. f \in Seq(S) /\ \A i \in 1..Len(f) : f[i] \in Roots
    BY <1>1, <1>2
  <2> HIDE DEF f
  <2>2. f \in Seq(Roots)
    BY <2>1
  <2>3. StripRoots(f \o call) = StripRoots(call)
    BY <2>2, StripRooted
  <2> QED BY <2>3 DEF ClassifyPath, f
<1>3. CASE ~(\A i \in 1..(Len(p) - 1) : p[i] \in Roots)
  <2>1. PICK k \in 1..(Len(p) - 1) : p[k] \notin Roots
    BY <1>3
  <2>2. PICK h : First(p, h)
    BY <1>1, <2>1, FirstOrNone
  <2>3. h # Len(p)
    BY <1>1, <2>1, <2>2 DEF First
  <2>4. q \in Seq(S) /\ s \in Seq(S) /\ RunsOn(q, call, s)
    BY <2>2, <2>3, StrippedRunsOn
  <2>5. Together(s) /\ ClassifyPath(w) # "pure"
    OBVIOUS
  <2>6. q # <<>> /\ s # <<>>
    <3>1. Len(q) # 0 /\ Len(s) # 0
      <4>1. /\ Len(q) \in Nat /\ Len(q) >= 2 /\ Len(call) \in Nat \ {0}
            /\ Len(s) = (Len(q) - 1) + Len(call)
        BY <2>4, Zenon DEF RunsOn
      <4> QED BY <4>1
    <3> HIDE DEF q, s
    <3> QED BY <3>1
  <2>7. ClassifyPath(w) = IF IsClock(s) THEN "clock"
                          ELSE IF IsRandom(s) THEN "random"
                          ELSE IF StdKind(s) # "pure" THEN StdKind(s)
                          ELSE CrateKind(Head(s))
    BY <2>6, Zenon DEF ClassifyPath
  <2>8. ClassifyPath(p) = IF IsClock(q) THEN "clock"
                          ELSE IF IsRandom(q) THEN "random"
                          ELSE IF StdKind(q) # "pure" THEN StdKind(q)
                          ELSE CrateKind(Head(q))
    BY <2>6, Zenon DEF ClassifyPath
  <2>9. ASSUME c # <<>>
        PROVE  /\ IsClock(c) => ClassifyPath(call) = "clock"
               /\ ~IsClock(c) /\ IsRandom(c) => ClassifyPath(call) = "random"
    BY <2>9, Zenon DEF ClassifyPath
  <2> HIDE DEF w, s, q, c
  <2>10. CASE IsClock(s)
    <3>1. IsClock(q) \/ (c # <<>> /\ IsClock(c))
      BY <2>4, <2>10, ClockDivided DEF c
    <3>2. ClassifyPath(w) = "clock"
      BY <2>7, <2>10
    <3>3. ClassifyPath(p) = "clock" \/ ClassifyPath(call) = "clock"
      BY <2>8, <2>9, <3>1
    <3> QED BY <3>2, <3>3 DEF w
  <2>11. CASE ~IsClock(s) /\ IsRandom(s)
    <3>1. ClassifyPath(w) = "random"
      BY <2>7, <2>11
    <3>2. ~IsClock(q) /\ \A d : EndOf(c, s, d) => ~IsClock(c)
      BY <2>4, <2>11, ClockDivided DEF c
    <3>3. IsRandom(q) \/ \E d : EndOf(c, s, d) /\ IsRandom(c)
      BY <2>4, <2>5, <2>11, RandomDivided DEF c
    <3>4. CASE IsRandom(q)
      BY <2>8, <3>1, <3>2, <3>4 DEF w
    <3>5. CASE \E d : EndOf(c, s, d) /\ IsRandom(c)
      <4>1. PICK d : EndOf(c, s, d) /\ IsRandom(c)
        BY <3>5
      <4>2. c # <<>>
        <5>1. Len(c) # 0
          BY <4>1 DEF EndOf
        <5> QED BY <5>1
      <4>3. ~IsClock(c)
        BY <3>2, <4>1
      <4> QED BY <2>9, <3>1, <4>1, <4>2, <4>3 DEF w
    <3> QED BY <3>3, <3>4, <3>5
  <2>12. CASE ~IsClock(s) /\ ~IsRandom(s)
    <3>1. ~IsClock(q) /\ ~IsRandom(q)
      BY <2>4, <2>5, <2>12, ClockDivided, NotRandomDivided
    <3>2. /\ Head(q) = Head(s)
          /\ StdKind(s) # "pure" => StdKind(q) = StdKind(s)
          /\ StdKind(s) = "pure" /\ CrateKind(Head(s)) # "pure" => StdKind(q) = "pure"
      BY <2>4, <2>5, StdDivided
    <3>3. ClassifyPath(w) = IF StdKind(s) # "pure" THEN StdKind(s) ELSE CrateKind(Head(s))
      BY <2>7, <2>12
    <3>4. ClassifyPath(p) = IF StdKind(q) # "pure" THEN StdKind(q) ELSE CrateKind(Head(q))
      BY <2>8, <3>1
    <3>5. ClassifyPath(p) = ClassifyPath(w)
      BY <2>5, <3>2, <3>3, <3>4
    <3> QED BY <3>5 DEF w
  <2> QED BY <2>10, <2>11, <2>12
<1> QED BY <1>2, <1>3

-----------------------------------------------------------------------------
(* Theorems                                                                 *)

\* With nothing left on the stack all is got.
LEMMA VisitUseKeeps == IInv /\ VisitUse => IInv'
<1> SUFFICES ASSUME IInv, VisitUse PROVE IInv'
  OBVIOUS
<1>1. /\ pass = "flatten" /\ stack = <<>> /\ pass' = "call"
      /\ UNCHANGED <<snippet, stack, prefix, paths>>
  BY DEF VisitUse, given
<1>2. PICK at : Reaches(stack, prefix, Range(paths), snippet.imports, at)
  BY <1>1 DEF IInv
<1>3. Len(stack) = 0 /\ 0 + 1 = 1 /\ 1..0 = {}
  BY <1>1
<1>4. prefix = <<>> /\ Range(paths) = snippet.imports
  <2>1. at[1] = prefix /\ at[1] = <<>>
    BY <1>2, <1>3 DEF Reaches, Above
  <2>2. snippet.imports = Range(paths) \cup UNION {Owed(stack[k], at[k]) : k \in 1..0}
    BY <1>2, <1>3 DEF Reaches
  <2>3. UNION {Owed(stack[k], at[k]) : k \in 1..0} = {}
    BY <1>3
  <2> QED BY <2>1, <2>2, <2>3
<1> QED BY <1>1, <1>4 DEF IInv

LEMMA NextKeeps == IInv /\ [Next]_vars => IInv'
<1> SUFFICES ASSUME IInv, [Next]_vars PROVE IInv'
  OBVIOUS
<1>1. CASE Done \/ UNCHANGED vars
  BY <1>1 DEF Done, vars, IInv
<1>2. CASE GatherPath \/ GatherGroup \/ GatherRename \/ GatherNothing
  BY <1>2, GatherKeeps
<1>3. CASE Gathered
  BY <1>3, GatheredKeeps
<1>4. CASE FlattenPath \/ FlattenPop \/ FlattenName \/ FlattenGlob \/ FlattenGroup
  BY <1>4, FlattenPathKeeps, FlattenPopGoesOn, FlattenLeafKeeps, FlattenGroupKeeps
<1>5. CASE VisitUse
  BY <1>5, VisitUseKeeps
<1>6. CASE VisitCall
  <2>1. pass = "call" /\ pass' = "done" /\ UNCHANGED <<snippet, stack, prefix, paths>>
    BY <1>6 DEF VisitCall, given
  <2> QED BY <2>1 DEF IInv
<1> QED BY <1>1, <1>2, <1>3, <1>4, <1>5, <1>6 DEF Next

\* The paths got and what the stack owes below its prefixes are together what
\* the `use` imports, throughout (scan.rs flatten_use_tree).
THEOREM FlattenInductive == Spec => []IInv
<1> QED BY InitInv, NextKeeps, PTL DEF Spec

\* Whatever a `use` is made of, what is classified is what it imports, each
\* path once, and no segment is left behind (scan.rs flatten_use_tree).
THEOREM EveryImportOnce == Spec => []UseIsReadExactly
<1>1. IInv => UseIsReadExactly
  <2> SUFFICES ASSUME IInv, pass \in {"call", "done"}
               PROVE  /\ {paths[i] : i \in DOMAIN paths} = snippet.imports
                      /\ Len(paths) = Cardinality(snippet.imports)
                      /\ prefix = <<>>
    BY DEF UseIsReadExactly
  <2>1. /\ prefix = <<>> /\ Range(paths) = snippet.imports /\ paths \in Seq(Paths)
        /\ Once(paths)
    BY DEF IInv
  <2> DEFINE n == Len(paths)
  <2>2. n \in Nat /\ DOMAIN paths = 1..n /\ paths \in [1..n -> Range(paths)]
    BY <2>1 DEF Range
  <2> HIDE DEF n
  <2>3. IsFiniteSet(1..n) /\ Cardinality(1..n) = n
    BY <2>2, FS_Interval
  <2>4. paths \in Injection(1..n, Range(paths)) /\ paths \in Surjection(1..n, Range(paths))
    <3>1. \A x \in Range(paths) : \E i \in 1..n : paths[i] = x
      BY <2>2 DEF Range
    <3> QED BY <2>1, <2>2, <3>1, Zenon DEF Injection, Surjection, IsInjective, Once
  <2>5. Cardinality(Range(paths)) = n
    BY <2>3, <2>4, FS_Bijection, Zenon DEF Bijection, ExistsBijection
  <2> QED BY <2>1, <2>5 DEF Range, n
<1> QED BY <1>1, FlattenInductive, PTL

\* Roots written before a path make no difference to what it is classified as,
\* so that `std::fs::read` and an imported `fs::read` are alike (effect.rs
\* classify_path, its doc comment).
THEOREM RootsMakeNoDifference ==
  ASSUME NEW S, NEW r \in Seq(Roots), NEW path \in Seq(S)
  PROVE  ClassifyPath(r \o path) = ClassifyPath(path)
BY StripRooted DEF ClassifyPath

\* What the classifier says of an import and of the call is among the findings.
Reported ==
    /\ pass \in {"call", "done"} =>
          \A path \in snippet.imports : ClassifyPath(path) # "pure" =>
              [kind |-> ClassifyPath(path), at |-> "use"] \in found
    /\ pass = "done" /\ ClassifyPath(snippet.call) # "pure" =>
          [kind |-> ClassifyPath(snippet.call), at |-> "call"] \in found

LEMMA ReportedKept == IInv /\ Reported /\ [Next]_vars => Reported'
<1> SUFFICES ASSUME IInv, Reported, [Next]_vars PROVE Reported'
  OBVIOUS
<1>1. CASE Done \/ UNCHANGED vars
  BY <1>1 DEF Done, vars, Reported
<1>2. CASE \/ GatherPath \/ GatherGroup \/ GatherRename \/ GatherNothing \/ Gathered
           \/ FlattenPath \/ FlattenPop \/ FlattenName \/ FlattenGlob \/ FlattenGroup
  <2>1. pass' \in {"gather", "flatten"}
    BY <1>2 DEF GatherPath, GatherGroup, GatherRename, GatherNothing, Gathered, FlattenPath,
                FlattenPop, FlattenName, FlattenGlob, FlattenGroup, Visiting
  <2> QED BY <2>1 DEF Reported
<1>3. CASE VisitUse
  <2>1. /\ pass' = "call" /\ UNCHANGED <<snippet, paths>> /\ pass = "flatten"
        /\ found' = found \cup Recorded("use", {ImportKind(paths[i]) : i \in DOMAIN paths})
    BY <1>3 DEF VisitUse, given
  <2>2. Range(paths) = snippet.imports
    <3>1. IInv'
      BY <1>3, VisitUseKeeps
    <3> QED BY <2>1, <3>1 DEF IInv
  <2>3. ASSUME NEW path \in snippet.imports, ClassifyPath(path) # "pure"
        PROVE  [kind |-> ClassifyPath(path), at |-> "use"] \in found'
    <3>1. PICK i \in DOMAIN paths : paths[i] = path
      BY <2>2 DEF Range
    <3>2. ImportKind(paths[i]) = ClassifyPath(path)
      BY <2>3, <3>1 DEF ImportKind
    <3> DEFINE k == ClassifyPath(path)
               kinds == {ImportKind(paths[j]) : j \in DOMAIN paths}
    <3>3. k \in kinds /\ k # "pure"
      BY <2>3, <3>1, <3>2
    <3> HIDE DEF k, kinds
    <3>4. [kind |-> k, at |-> "use"] \in Recorded("use", kinds)
      BY <3>3 DEF Recorded
    <3> QED BY <2>1, <3>4 DEF k, kinds
  <2> QED BY <2>1, <2>3 DEF Reported
<1>4. CASE VisitCall
  <2>1. /\ pass' = "done" /\ UNCHANGED snippet /\ pass = "call"
        /\ found' = found \cup Recorded("call", {CallKind(snippet.call)})
    BY <1>4 DEF VisitCall, given
  <2>2. ASSUME ClassifyPath(snippet.call) # "pure"
        PROVE  [kind |-> ClassifyPath(snippet.call), at |-> "call"] \in found'
    <3> DEFINE k == ClassifyPath(snippet.call)
    <3>1. CallKind(snippet.call) = k /\ k # "pure"
      BY <2>2 DEF CallKind
    <3> HIDE DEF k
    <3>2. [kind |-> k, at |-> "call"] \in Recorded("call", {k})
      BY <3>1 DEF Recorded
    <3> QED BY <2>1, <3>1, <3>2 DEF k
  <2>3. \A path \in snippet.imports : ClassifyPath(path) # "pure" =>
            [kind |-> ClassifyPath(path), at |-> "use"] \in found'
    BY <2>1 DEF Reported
  <2> QED BY <2>1, <2>2, <2>3 DEF Reported
<1> QED BY <1>1, <1>2, <1>3, <1>4 DEF Next

\* An effect is found, and given its kind, wherever its path is divided between
\* the `use` and the call, if the words it is known by stand together: no name
\* is resolved for it (scan.rs visit_item_use, visit_expr_path; effect.rs
\* classify_path).
THEOREM NoSplitHidesAnEffect == Spec => []SplitHidesNothing
<1>1. Init => Reported
  BY DEF Init, Reported
<1>2. IInv /\ Reported => SplitHidesNothing
  <2> SUFFICES ASSUME IInv, Reported, pass = "done", NEW path \in snippet.imports,
                      path # <<>>, Last(path) = Head(snippet.call),
                      ClassifyPath(Whole(path)) # "pure", Together(StripRoots(Whole(path)))
               PROVE  \E f \in found : f.kind = ClassifyPath(Whole(path))
    BY DEF SplitHidesNothing
  <2>1. snippet \in Snippets
    BY DEF IInv
  <2>2. /\ snippet.tree \in UseTrees /\ snippet.imports = Imported[snippet.tree]
        /\ snippet.call \in Seq(Words) /\ snippet.call # <<>>
    BY <2>1, ImportedAssumption
  <2>3. path \in Seq(Words)
    BY <2>2, TreeIs DEF Paths
  <2> DEFINE k == ClassifyPath(Whole(path))  call == snippet.call
  <2> HIDE DEF call
  <2>4. call \in Seq(Words) /\ call # <<>> /\ Last(path) = Head(call) /\ Whole(path) = Front(path) \o call
    BY <2>2 DEF call, Whole
  <2>5. ClassifyPath(path) = k \/ ClassifyPath(call) = k
    BY <2>3, <2>4, OneHalfSuffices
  <2>6. k # "pure"
    OBVIOUS
  <2> HIDE DEF k
  <2>7. [kind |-> k, at |-> "use"] \in found \/ [kind |-> k, at |-> "call"] \in found
    BY <2>5, <2>6 DEF Reported, call
  <2> QED BY <2>7 DEF k
<1>3. Spec => []Reported
  BY <1>1, ReportedKept, FlattenInductive, PTL DEF Spec
<1> QED BY <1>2, <1>3, FlattenInductive, PTL

=============================================================================
