--------------------------- MODULE CfgPredProofs ---------------------------
(***************************************************************************)
(* Proofs that whatever cfg_pred.rs skips, no build without test compiles, *)
(* and that whatever it keeps, some such build does, for items of any      *)
(* size: a "no" a call returned is true of every build, and for a "yes"    *)
(* there is a build that makes it true, when no flag is named twice.       *)
(***************************************************************************)
EXTENDS CfgPred, WellFoundedInduction, TLAPS

ItemTyped == TypeOK /\ item \in Items

\* The children a node is evaluated by are among the ones it has.
LEMMA ChildrenAreKids ==
  ASSUME ItemTyped, NEW n \in Nodes, NEW i \in DOMAIN Children(n)
  PROVE  /\ i \in DOMAIN item.kids[n]
         /\ Children(n)[i] = item.kids[n][i]
         /\ item.kids[n][i] \in Nodes
<1>1. Children(n) = item.kids[n]
  BY DEF Children
<1>2. item.kids[n] \in Seq(Nodes)
  BY ItemsAssumption DEF ItemTyped
<1> QED BY <1>1, <1>2

LEMMA AttrTyped ==
  ASSUME ItemTyped, NEW a \in DOMAIN item.attrs
  PROVE  item.attrs[a].root \in Nodes
<1>1. item.attrs \in Seq(Attrs)
  BY ItemsAssumption DEF ItemTyped
<1>2. item.attrs[a] \in Attrs
  BY <1>1
<1> QED BY <1>2 DEF Attrs

\* Every answer but a leaf's is a constant or a child's.
LEMMA AnswerTypes ==
  ASSUME NEW n PROVE Deciding(n) \in {"yes", "no"} /\ Opposite(Deciding(n)) \in {"yes", "no"}
  BY DEF Deciding, Opposite

LEMMA TypeReturn ==
  ASSUME ItemTyped, NEW n \in Nodes, Open(n), NEW a \in {"yes", "no"}, Return(n, a)
  PROVE  ItemTyped'
  BY DEF ItemTyped, TypeOK, Open, Return

\* Evaluating a node returns an answer for it, or asks one of its children.
LEMMA EvaluateCases ==
  ASSUME ItemTyped, Evaluate
  PROVE  \E n \in Nodes :
            /\ Open(n)
            /\ \/ \E a \in {"yes", "no"} : Return(n, a)
               \/ \E i \in Asked(n) : AskChild(n, i)
<1>1. PICK n \in Nodes : \/ AnswerLeaf(n) \/ AnswerNot(n)
                         \/ AnswerDecided(n) \/ AnswerUndecided(n)
                         \/ \E i \in Asked(n) : AskChild(n, i)
  BY DEF Evaluate
<1>2. CASE AnswerLeaf(n)
  BY <1>2 DEF AnswerLeaf
<1>3. CASE AnswerNot(n)
  <2>1. CASE Asked(n) = {}
    BY <1>3, <2>1 DEF AnswerNot
  <2>2. CASE Asked(n) # {}
    <3>1. 1 \in DOMAIN Children(n)
      BY <1>3, <2>2 DEF AnswerNot, Asked
    <3>2. Children(n)[1] \in Nodes
      BY <3>1, ChildrenAreKids
    <3>3. answer[Children(n)[1]] \in {"yes", "no"}
      BY <1>3, <2>2, <3>2 DEF AnswerNot, ItemTyped, TypeOK
    <3> QED BY <1>3, <2>2, <3>3 DEF AnswerNot
  <2> QED BY <2>1, <2>2
<1>4. CASE AnswerDecided(n)
  BY <1>4, AnswerTypes DEF AnswerDecided
<1>5. CASE AnswerUndecided(n)
  BY <1>5, AnswerTypes DEF AnswerUndecided
<1>6. CASE \E i \in Asked(n) : AskChild(n, i)
  BY <1>6 DEF AskChild
<1> QED BY <1>1, <1>2, <1>3, <1>4, <1>5, <1>6

LEMMA TypeStep == ItemTyped /\ [Next]_vars => ItemTyped'
<1> SUFFICES ASSUME ItemTyped, [Next]_vars PROVE ItemTyped'
  OBVIOUS
<1>0. item.attrs \in Seq(Attrs)
  BY ItemsAssumption DEF ItemTyped
<1>1. CASE MarkerAttr \/ NotTestOnly
  BY <1>1 DEF MarkerAttr, NotTestOnly, Settle, ItemTyped, TypeOK
<1>2. CASE OtherAttr
  BY <1>0, <1>2 DEF OtherAttr, Looking, NextAttr, ItemTyped, TypeOK
<1>3. CASE CallPredicate
  BY <1>0, <1>3 DEF CallPredicate, Looking, Root, ItemTyped, TypeOK
<1>4. CASE CfgAttr
  BY <1>0, <1>4 DEF CfgAttr, Looking, Settle, NextAttr, ItemTyped, TypeOK
<1>5. CASE Evaluate
  <2>1. PICK n \in Nodes : /\ Open(n)
                           /\ \/ \E a \in {"yes", "no"} : Return(n, a)
                              \/ \E i \in Asked(n) : AskChild(n, i)
    BY <1>5, EvaluateCases
  <2>2. CASE \E a \in {"yes", "no"} : Return(n, a)
    BY <2>1, <2>2, TypeReturn
  <2>3. ASSUME NEW i \in Asked(n), AskChild(n, i) PROVE ItemTyped'
    <3>1. ChildMode(n) \in {"true", "false"}
      BY <2>1 DEF ChildMode, Flip, Open, ItemTyped, TypeOK
    <3>2. Children(n)[i] \in Nodes
      BY ChildrenAreKids DEF Asked
    <3> QED BY <2>3, <3>1, <3>2 DEF AskChild, ItemTyped, TypeOK
  <2> QED BY <2>1, <2>2, <2>3
<1>6. CASE UNCHANGED vars
  BY <1>6 DEF vars, ItemTyped, TypeOK
<1> QED BY <1>1, <1>2, <1>3, <1>4, <1>5, <1>6 DEF Next, Done

-----------------------------------------------------------------------------
(* Nodes are asked the right question *)

\* A step that calls nobody.
LEMMA AskedQuiet == AskedRight /\ UNCHANGED <<item, mode>> => AskedRight'
  BY DEF AskedRight, ChildMode, Kind

LEMMA AskedStep == ItemTyped /\ AskedRight /\ [Next]_vars => AskedRight'
<1> SUFFICES ASSUME ItemTyped, AskedRight, [Next]_vars PROVE AskedRight'
  OBVIOUS
<1>1. CASE MarkerAttr \/ NotTestOnly \/ OtherAttr \/ CfgAttr \/ UNCHANGED vars
  BY <1>1, AskedQuiet DEF MarkerAttr, NotTestOnly, OtherAttr, CfgAttr, Settle, NextAttr, vars
<1> DEFINE Call(c, m) ==
      /\ c \in Nodes /\ mode[c] = "none"
      /\ mode' = [mode EXCEPT ![c] = m] /\ m # "none"
      /\ UNCHANGED item
      /\ \A n \in Nodes : \A i \in DOMAIN item.kids[n] :
            item.kids[n][i] = c => mode[n] # "none" /\ m = ChildMode(n)
      /\ \A a \in DOMAIN item.attrs : item.attrs[a].root = c => m = "true"
\* A step that calls one more node keeps every other call right.
<1>2. ASSUME NEW c, NEW m, Call(c, m) PROVE AskedRight'
  <2>1. mode \in [Nodes -> {"none", "true", "false"}]
    BY DEF ItemTyped, TypeOK
  <2>2. /\ item.kids \in [Nodes -> Seq(Nodes)]
        /\ item.attrs \in Seq(Attrs)
    BY ItemsAssumption DEF ItemTyped
  <2>3. ASSUME NEW n \in Nodes, NEW i \in DOMAIN item.kids[n],
               mode'[item.kids[n][i]] # "none"
        PROVE  mode'[n] # "none" /\ mode'[item.kids[n][i]] = ChildMode(n)'
    <3>1. item.kids[n][i] \in Nodes
      BY <2>2
    <3>2. CASE item.kids[n][i] = c
      <4>1. mode[n] # "none" /\ m = ChildMode(n) /\ n # c
        BY <1>2, <3>2
      <4>2. ChildMode(n)' = ChildMode(n) /\ mode'[n] = mode[n]
        BY <1>2, <2>1, <4>1 DEF ChildMode, Kind
      <4> QED BY <1>2, <2>1, <3>2, <4>1, <4>2
    <3>3. CASE item.kids[n][i] # c
      <4>1. mode'[item.kids[n][i]] = mode[item.kids[n][i]]
        BY <1>2, <2>1, <3>1, <3>3
      <4>2. mode[n] # "none" /\ mode[item.kids[n][i]] = ChildMode(n)
        BY <2>3, <4>1 DEF AskedRight
      <4>3. mode'[n] = mode[n] /\ ChildMode(n)' = ChildMode(n)
        BY <1>2, <2>1, <4>2 DEF ChildMode, Kind
      <4> QED BY <4>1, <4>2, <4>3
    <3> QED BY <3>2, <3>3
  <2>4. ASSUME NEW a \in DOMAIN item.attrs
        PROVE  mode'[item.attrs[a].root] \in {"none", "true"}
    <3>1. item.attrs[a].root \in Nodes
      BY AttrTyped
    <3> QED BY <1>2, <2>1, <3>1 DEF AskedRight
  <2>5. item' = item
    BY <1>2
  <2> QED BY <2>3, <2>4, <2>5 DEF AskedRight
<1> HIDE DEF Call
<1>3. CASE CallPredicate
  <2>1. at \in DOMAIN item.attrs
    BY <1>3 DEF CallPredicate, Looking
  <2>4. Root \in Nodes
    BY <2>1, AttrTyped DEF Root
  <2>2. \A n \in Nodes : \A i \in DOMAIN item.kids[n] : item.kids[n][i] # Root
    BY <2>1, ItemsAssumption DEF Root, ItemTyped
  <2>3. Call(Root, "true")
    BY <1>3, <2>2, <2>4 DEF CallPredicate, Call
  <2> QED BY <1>2, <2>3
<1>4. CASE Evaluate
  <2>1. PICK n \in Nodes : /\ Open(n)
                           /\ \/ \E a \in {"yes", "no"} : Return(n, a)
                              \/ \E i \in Asked(n) : AskChild(n, i)
    BY <1>4, EvaluateCases
  <2>2. CASE \E a \in {"yes", "no"} : Return(n, a)
    BY <2>2, AskedQuiet DEF Return
  <2>3. ASSUME NEW i \in Asked(n), AskChild(n, i) PROVE AskedRight'
    <3>1. /\ i \in DOMAIN item.kids[n] /\ Children(n)[i] = item.kids[n][i]
          /\ item.kids[n][i] \in Nodes
      BY ChildrenAreKids DEF Asked
    <3>2. mode[n] # "none" /\ ChildMode(n) # "none"
      BY <2>1 DEF Open, ChildMode, Flip, ItemTyped, TypeOK
    <3>3. /\ \A k \in Nodes : \A j \in DOMAIN item.kids[k] :
                item.kids[k][j] = item.kids[n][i] => k = n
          /\ \A a \in DOMAIN item.attrs : item.attrs[a].root # item.kids[n][i]
      BY <3>1, ItemsAssumption DEF ItemTyped
    <3>4. Call(item.kids[n][i], ChildMode(n))
      BY <2>3, <3>1, <3>2, <3>3 DEF AskChild, Call
    <3> QED BY <1>2, <3>4
  <2> QED BY <2>1, <2>2, <2>3
<1> QED BY <1>1, <1>3, <1>4 DEF Next, Done

-----------------------------------------------------------------------------
(* A "no" is right *)

\* "no" to "can it be true" means false, to "can it be false" means true.
NoMeans(v, n) == v[n] <=> mode[n] = "false"

\* The reference speaks of the item only.
LEMMA SameItem ==
  ASSUME UNCHANGED item
  PROVE  /\ NothingOpaque' = NothingOpaque
         /\ \A v : BuildWithoutTest(v)' = BuildWithoutTest(v) /\ CompiledIn(v)' = CompiledIn(v)
  BY DEF NothingOpaque, BuildWithoutTest, CompiledIn, Meaning, Kids, Kind

\* A step that changes neither answers nor the modes of answered nodes.
LEMMA NoQuiet ==
  ASSUME ItemTyped, NoIsRight, UNCHANGED <<item, answer>>,
         \A n \in Nodes : answer[n] # "open" => mode'[n] = mode[n]
  PROVE  NoIsRight'
<1> SUFFICES ASSUME NothingOpaque, NEW v \in [Nodes -> BOOLEAN], BuildWithoutTest(v),
                    NEW n \in Nodes, answer[n] = "no"
             PROVE  v[n] <=> mode'[n] = "false"
  BY SameItem DEF NoIsRight
<1> QED BY DEF NoIsRight

\* A returned "no" is right if it follows from the ones before.
LEMMA NoReturned ==
  ASSUME ItemTyped, NoIsRight, NEW n \in Nodes, NEW a, Return(n, a),
         a = "no" /\ NothingOpaque =>
            \A v \in [Nodes -> BOOLEAN] : BuildWithoutTest(v) => NoMeans(v, n)
  PROVE  NoIsRight'
<1> SUFFICES ASSUME NothingOpaque, NEW v \in [Nodes -> BOOLEAN], BuildWithoutTest(v),
                    NEW m \in Nodes, answer'[m] = "no"
             PROVE  v[m] <=> mode[m] = "false"
  BY SameItem DEF Return, NoIsRight
<1>1. CASE m = n
  BY <1>1 DEF Return, NoMeans, ItemTyped, TypeOK
<1>2. CASE m # n
  BY <1>2 DEF Return, NoIsRight, ItemTyped, TypeOK
<1> QED BY <1>1, <1>2

\* With nothing opaque, a node is evaluated by all its children.
LEMMA ChildrenAreAllKids ==
  ASSUME ItemTyped, NothingOpaque, NEW n \in Nodes
  PROVE  Children(n) = item.kids[n] /\ Kids(n) \subseteq Nodes
<1>1. item.kids[n] \in Seq(Nodes)
  BY ItemsAssumption DEF ItemTyped
<1> QED BY <1>1 DEF Children, Kids, NothingOpaque

\* A child that said no, seen from its parent.
LEMMA ChildNo ==
  ASSUME ItemTyped, AskedRight, NoIsRight, NothingOpaque,
         NEW n \in Nodes, NEW i \in DOMAIN item.kids[n],
         answer[item.kids[n][i]] = "no",
         NEW v \in [Nodes -> BOOLEAN], BuildWithoutTest(v)
  PROVE  item.kids[n][i] \in Nodes /\ (v[item.kids[n][i]] <=> ChildMode(n) = "false")
<1>1. item.kids[n][i] \in Nodes
  BY ChildrenAreAllKids DEF Kids
<1>2. mode[item.kids[n][i]] = ChildMode(n)
  BY <1>1 DEF AskedRight, ItemTyped, TypeOK
<1>3. v[item.kids[n][i]] <=> mode[item.kids[n][i]] = "false"
  BY <1>1 DEF NoIsRight
<1> QED BY <1>1, <1>2, <1>3

LEMMA NoLeaf ==
  ASSUME ItemTyped, NoIsRight, NEW n \in Nodes, AnswerLeaf(n) PROVE NoIsRight'
<1> DEFINE a == IF Kind(n) = "test" /\ mode[n] = "true" THEN "no" ELSE "yes"
<1>1. Return(n, a)
  BY DEF AnswerLeaf
<1>2. ASSUME a = "no", NEW v \in [Nodes -> BOOLEAN], BuildWithoutTest(v)
      PROVE  NoMeans(v, n)
  BY <1>2 DEF NoMeans, BuildWithoutTest, Meaning
<1> HIDE DEF a
<1> QED BY <1>1, <1>2, NoReturned

LEMMA NoNot ==
  ASSUME ItemTyped, AskedRight, NoIsRight, NEW n \in Nodes, AnswerNot(n) PROVE NoIsRight'
<1>1. CASE Asked(n) = {}
  BY <1>1, NoReturned DEF AnswerNot
<1>2. CASE Asked(n) # {}
  <2>1. Return(n, answer[Children(n)[1]]) /\ Kind(n) = "not" /\ Open(n)
    BY <1>2 DEF AnswerNot
  <2>2. 1 \in DOMAIN Children(n)
    BY <1>2, <2>1 DEF Asked
  <2>3. ASSUME answer[Children(n)[1]] = "no", NothingOpaque,
               NEW v \in [Nodes -> BOOLEAN], BuildWithoutTest(v)
        PROVE  NoMeans(v, n)
    <3>1. 1 \in DOMAIN item.kids[n] /\ Children(n)[1] = item.kids[n][1]
      BY <2>2, ChildrenAreKids
    <3>2. v[item.kids[n][1]] <=> ChildMode(n) = "false"
      BY <2>3, <3>1, ChildNo
    <3>3. v[n] <=> ~v[item.kids[n][1]]
      BY <2>1, <2>3, <3>1 DEF BuildWithoutTest, Meaning, Kids
    <3>4. ChildMode(n) = "false" <=> mode[n] = "true"
      BY <2>1 DEF ChildMode, Flip, Open, ItemTyped, TypeOK
    <3>5. mode[n] \in {"true", "false"}
      BY <2>1 DEF Open, ItemTyped, TypeOK
    <3> QED BY <3>2, <3>3, <3>4, <3>5 DEF NoMeans
  <2> QED BY <2>1, <2>3, NoReturned
<1> QED BY <1>1, <1>2

LEMMA NoDecided ==
  ASSUME ItemTyped, AskedRight, NoIsRight, NEW n \in Nodes, AnswerDecided(n) PROVE NoIsRight'
<1>1. /\ Return(n, Deciding(n)) /\ Kind(n) \in {"all", "any"} /\ Open(n)
      /\ \E i \in Asked(n) : answer[Children(n)[i]] = Deciding(n)
  BY DEF AnswerDecided
<1>2. ASSUME Deciding(n) = "no", NothingOpaque,
             NEW v \in [Nodes -> BOOLEAN], BuildWithoutTest(v)
      PROVE  NoMeans(v, n)
  <2>1. PICK i \in DOMAIN item.kids[n] : answer[item.kids[n][i]] = "no"
    BY <1>1, <1>2, ChildrenAreAllKids DEF Asked
  <2>2. v[item.kids[n][i]] <=> mode[n] = "false"
    BY <1>1, <1>2, <2>1, ChildNo DEF ChildMode
  <2>3. item.kids[n][i] \in Kids(n)
    BY DEF Kids
  <2>4. mode[n] \in {"true", "false"}
    BY <1>1 DEF Open, ItemTyped, TypeOK
  <2>5. CASE Kind(n) = "all"
    <3>1. mode[n] = "true"
      BY <1>2, <2>5 DEF Deciding
    <3>2. v[n] <=> \A k \in Kids(n) : v[k]
      BY <1>2, <2>5 DEF BuildWithoutTest, Meaning
    <3> QED BY <2>2, <2>3, <3>1, <3>2 DEF NoMeans
  <2>6. CASE Kind(n) = "any"
    <3>1. mode[n] = "false"
      BY <1>2, <2>4, <2>6 DEF Deciding
    <3>2. v[n] <=> \E k \in Kids(n) : v[k]
      BY <1>2, <2>6 DEF BuildWithoutTest, Meaning
    <3> QED BY <2>2, <2>3, <3>1, <3>2 DEF NoMeans
  <2> QED BY <1>1, <2>5, <2>6
<1> QED BY <1>1, <1>2, NoReturned

LEMMA NoUndecided ==
  ASSUME ItemTyped, AskedRight, NoIsRight, NEW n \in Nodes, AnswerUndecided(n) PROVE NoIsRight'
<1>1. /\ Return(n, Opposite(Deciding(n))) /\ Kind(n) \in {"all", "any"} /\ Open(n)
      /\ \A i \in Asked(n) : answer[Children(n)[i]] = Opposite(Deciding(n))
  BY DEF AnswerUndecided
<1>2. ASSUME Opposite(Deciding(n)) = "no", NothingOpaque,
             NEW v \in [Nodes -> BOOLEAN], BuildWithoutTest(v)
      PROVE  NoMeans(v, n)
  <2>1. \A i \in DOMAIN item.kids[n] : answer[item.kids[n][i]] = "no"
    BY <1>1, <1>2, ChildrenAreAllKids DEF Asked
  <2>2. \A k \in Kids(n) : v[k] <=> mode[n] = "false"
    BY <1>1, <1>2, <2>1, ChildNo DEF ChildMode, Kids
  <2>3. mode[n] \in {"true", "false"}
    BY <1>1 DEF Open, ItemTyped, TypeOK
  <2>4. CASE Kind(n) = "all"
    <3>1. mode[n] = "false"
      BY <1>2, <2>3, <2>4 DEF Deciding, Opposite
    <3>2. v[n] <=> \A k \in Kids(n) : v[k]
      BY <1>2, <2>4 DEF BuildWithoutTest, Meaning
    <3> QED BY <2>2, <3>1, <3>2 DEF NoMeans
  <2>5. CASE Kind(n) = "any"
    <3>1. mode[n] = "true"
      BY <1>2, <2>3, <2>5 DEF Deciding, Opposite
    <3>2. v[n] <=> \E k \in Kids(n) : v[k]
      BY <1>2, <2>5 DEF BuildWithoutTest, Meaning
    <3> QED BY <2>2, <3>1, <3>2 DEF NoMeans
  <2> QED BY <1>1, <2>4, <2>5
<1> QED BY <1>1, <1>2, NoReturned

LEMMA NoStep ==
  ASSUME ItemTyped, AskedRight, NoIsRight, [Next]_vars PROVE NoIsRight'
<1>1. CASE MarkerAttr \/ NotTestOnly \/ OtherAttr \/ CfgAttr \/ UNCHANGED vars
  BY <1>1, NoQuiet DEF MarkerAttr, NotTestOnly, OtherAttr, CfgAttr, Settle, NextAttr, vars
<1>2. CASE CallPredicate
  <2>1. \A n \in Nodes : answer[n] # "open" => mode'[n] = mode[n]
    BY <1>2 DEF CallPredicate, ItemTyped, TypeOK
  <2> QED BY <1>2, <2>1, NoQuiet DEF CallPredicate
<1>3. ASSUME NEW n \in Nodes, NEW i \in Asked(n), AskChild(n, i) PROVE NoIsRight'
  <2>1. \A m \in Nodes : answer[m] # "open" => mode'[m] = mode[m]
    BY <1>3 DEF AskChild, ItemTyped, TypeOK
  <2> QED BY <1>3, <2>1, NoQuiet DEF AskChild
<1> QED
  BY <1>1, <1>2, <1>3, NoLeaf, NoNot, NoDecided, NoUndecided DEF Next, Done, Evaluate

-----------------------------------------------------------------------------
(* A build for every choice of leaves: the meaning of a predicate exists,   *)
(* by recursion over the predicate, which the assumption says is sound.     *)

\* v gives n the value its kind asks for, the leaves being given by leaf.
Right(leaf, v, n) ==
    CASE Kind(n) = "all" -> v[n] = \A k \in Kids(n) : v[k]
      [] Kind(n) = "any" -> v[n] = \E k \in Kids(n) : v[k]
      [] Kind(n) = "not" -> v[n] = \A k \in Kids(n) : ~v[k]
      [] OTHER -> v[n] = leaf[n]

RightOn(leaf, v, D) ==
    /\ D \subseteq Nodes /\ v \in [Nodes -> BOOLEAN]
    /\ \A n \in D : Kids(n) \subseteq D /\ Right(leaf, v, n)

LEMMA KidsTyped ==
  ASSUME item \in Items, NEW n \in Nodes
  PROVE  /\ Kids(n) \subseteq Nodes
         /\ \A k \in Kids(n) : \E i \in DOMAIN item.kids[n] : k = item.kids[n][i]
<1>1. item.kids[n] \in Seq(Nodes)
  BY ItemsAssumption
<1> QED BY <1>1 DEF Kids

\* Every set of nodes has a node with no child in it.
LEMMA Deepest ==
  ASSUME item \in Items, NEW S \in SUBSET Nodes, S # {}
  PROVE  \E n \in S : \A k \in Kids(n) : k \notin S
<1>1. \E n \in S : \A i \in DOMAIN item.kids[n] : item.kids[n][i] \notin S
  BY ItemsAssumption
<1> QED BY <1>1, KidsTyped

\* Whether v is right at n hangs on what it says of n and its children.
LEMMA RightLocal ==
  ASSUME NEW leaf, NEW v, NEW w, NEW n, v[n] = w[n], \A k \in Kids(n) : v[k] = w[k],
         Right(leaf, v, n)
  PROVE  Right(leaf, w, n)
  BY DEF Right

LEMMA RightDetermines ==
  ASSUME NEW leaf, NEW v, NEW w, NEW n, \A k \in Kids(n) : v[k] = w[k],
         Right(leaf, v, n), Right(leaf, w, n)
  PROVE  v[n] = w[n]
  BY DEF Right

LEMMA RightOnAgree ==
  ASSUME item \in Items, NEW leaf, NEW v, NEW D, RightOn(leaf, v, D),
         NEW w, NEW E, RightOn(leaf, w, E)
  PROVE  \A n \in D \cap E : v[n] = w[n]
<1> DEFINE S == {n \in D \cap E : v[n] # w[n]}
<1> SUFFICES ASSUME S # {} PROVE FALSE
  OBVIOUS
<1>1. S \in SUBSET Nodes
  BY DEF RightOn
<1>2. PICK n \in S : \A k \in Kids(n) : k \notin S
  BY <1>1, Deepest
<1>3. \A k \in Kids(n) : v[k] = w[k]
  BY <1>2 DEF RightOn
<1>4. Right(leaf, v, n) /\ Right(leaf, w, n)
  BY <1>2 DEF RightOn
<1> QED BY <1>2, <1>3, <1>4, RightDetermines

\* A value for one more node.
LEMMA RightExtends ==
  ASSUME item \in Items, NEW leaf \in [Nodes -> BOOLEAN], NEW v, NEW D, RightOn(leaf, v, D),
         NEW n \in Nodes, n \notin D, Kids(n) \subseteq D
  PROVE  \E w : RightOn(leaf, w, D \cup {n})
<1> DEFINE b == CASE Kind(n) = "all" -> \A k \in Kids(n) : v[k]
                  [] Kind(n) = "any" -> \E k \in Kids(n) : v[k]
                  [] Kind(n) = "not" -> \A k \in Kids(n) : ~v[k]
                  [] OTHER -> leaf[n]
           w == [v EXCEPT ![n] = b]
<1>1. b \in BOOLEAN
  OBVIOUS
<1>2. v \in [Nodes -> BOOLEAN] /\ D \subseteq Nodes
  BY DEF RightOn
<1>3. w \in [Nodes -> BOOLEAN] /\ w[n] = b /\ \A m \in D : w[m] = v[m]
  <2> HIDE DEF b
  <2> QED BY <1>1, <1>2
<1>4. Right(leaf, w, n)
  <2>1. \A k \in Kids(n) : w[k] = v[k]
    BY <1>3
  <2>2. w[n] = b
    BY <1>3
  <2> HIDE DEF w
  <2> QED BY <2>1, <2>2 DEF Right
<1>5. ASSUME NEW m \in D PROVE Kids(m) \subseteq D /\ Right(leaf, w, m)
  <2>1. Kids(m) \subseteq D /\ Right(leaf, v, m)
    BY DEF RightOn
  <2>2. v[m] = w[m] /\ \A k \in Kids(m) : v[k] = w[k]
    BY <1>3, <2>1
  <2> HIDE DEF w
  <2> QED BY <2>1, <2>2, RightLocal
<1> HIDE DEF w
<1>6. RightOn(leaf, w, D \cup {n})
  BY <1>2, <1>3, <1>4, <1>5 DEF RightOn
<1> QED BY <1>6

LEMMA BuildExists ==
  ASSUME item \in Items, NEW leaf \in [Nodes -> BOOLEAN]
  PROVE  \E v : RightOn(leaf, v, Nodes)
<1> DEFINE Covers(v, D, n) == RightOn(leaf, v, D) /\ n \in D
           C == {n \in Nodes : \E v, D : Covers(v, D, n)}
           v == [n \in Nodes |-> \E w, D : Covers(w, D, n) /\ w[n]]
\* Every build that covers a node agrees with v there, ...
<1>1. ASSUME NEW w, NEW D, NEW n, Covers(w, D, n) PROVE n \in C /\ w[n] = v[n]
  <2>1. n \in Nodes /\ w[n] \in BOOLEAN
    BY <1>1 DEF RightOn
  <2>2. ASSUME NEW u, NEW E, Covers(u, E, n) PROVE u[n] = w[n]
    BY <1>1, <2>2, RightOnAgree
  <2>3. v[n] = \E u, E : Covers(u, E, n) /\ u[n]
    BY <2>1
  <2> HIDE DEF v, Covers
  <2> QED BY <1>1, <2>1, <2>2, <2>3
\* ... so that v is right wherever some build is, ...
<1>2. RightOn(leaf, v, C)
  <2>1. C \subseteq Nodes /\ v \in [Nodes -> BOOLEAN]
    OBVIOUS
  <2>2. ASSUME NEW n \in C PROVE Kids(n) \subseteq C /\ Right(leaf, v, n)
    <3>1. PICK w, D : Covers(w, D, n)
      OBVIOUS
    <3>2. Kids(n) \subseteq D /\ Right(leaf, w, n)
      BY <3>1 DEF RightOn
    <3>3. \A k \in Kids(n) \cup {n} : Covers(w, D, k)
      BY <3>1, <3>2
    <3>4. \A k \in Kids(n) \cup {n} : k \in C /\ w[k] = v[k]
      BY <1>1, <3>3
    <3> HIDE DEF v, C, Covers
    <3> QED BY <3>2, <3>4, RightLocal
  <2> HIDE DEF v, C
  <2> QED BY <2>1, <2>2 DEF RightOn
\* ... which is everywhere: a node beyond could be given its value.
<1>3. C = Nodes
  <2> SUFFICES ASSUME Nodes \ C # {} PROVE FALSE
    OBVIOUS
  <2>1. PICK n \in Nodes \ C : \A k \in Kids(n) : k \notin Nodes \ C
    BY Deepest
  <2>2. Kids(n) \subseteq C
    BY <2>1, KidsTyped
  <2>3. PICK w : RightOn(leaf, w, C \cup {n})
    <3> HIDE DEF v, C
    <3> QED BY <1>2, <2>1, <2>2, RightExtends
  <2>4. Covers(w, C \cup {n}, n)
    <3> HIDE DEF C
    <3> QED BY <2>3
  <2> HIDE DEF v, C, Covers
  <2> QED BY <1>1, <2>1, <2>4
<1> QED BY <1>2, <1>3

-----------------------------------------------------------------------------
(* A "yes" is grounded *)

\* Nothing an answered node rests on is undone by a step that only adds
\* answers, and calls nobody who has answered.
LEMMA YesStays ==
  ASSUME ItemTyped, UNCHANGED item, NEW n \in Nodes, YesRests(n), mode'[n] = mode[n],
         \A m \in Nodes : answer[m] = "yes" => answer'[m] = "yes"
  PROVE  YesRests(n)'
<1>1. /\ Kind(n)' = Kind(n) /\ Children(n)' = Children(n)
      /\ Asked(n)' = Asked(n) /\ Deciding(n)' = Deciding(n)
  BY DEF Kind, Children, Asked, Deciding
<1>2. \A i \in Asked(n) :
         answer[Children(n)[i]] = "yes" => answer'[Children(n)[i]] = "yes"
  BY ChildrenAreKids DEF Asked
<1> QED BY <1>1, <1>2 DEF YesRests

\* A step that changes neither answers nor the modes of answered nodes.
LEMMA YesQuiet ==
  ASSUME ItemTyped, YesIsGrounded, UNCHANGED <<item, answer>>,
         \A n \in Nodes : answer[n] # "open" => mode'[n] = mode[n]
  PROVE  YesIsGrounded'
  BY YesStays DEF YesIsGrounded

LEMMA YesReturned ==
  ASSUME ItemTyped, YesIsGrounded, NEW n \in Nodes, NEW a, Open(n), Return(n, a),
         a = "yes" => YesRests(n)
  PROVE  YesIsGrounded'
<1> SUFFICES ASSUME NEW m \in Nodes, answer'[m] = "yes" PROVE YesRests(m)'
  BY DEF YesIsGrounded
<1>1. UNCHANGED <<item, mode>> /\ \A k \in Nodes \ {n} : answer'[k] = answer[k]
  BY DEF Return, ItemTyped, TypeOK
<1>2. answer[n] = "open" /\ answer'[n] = a
  BY DEF Open, Return, ItemTyped, TypeOK
<1>3. YesRests(m)
  BY <1>1, <1>2 DEF YesIsGrounded
<1> QED BY <1>1, <1>2, <1>3, YesStays

LEMMA YesEvaluate ==
  ASSUME ItemTyped, YesIsGrounded, NEW n \in Nodes,
         AnswerLeaf(n) \/ AnswerNot(n) \/ AnswerDecided(n) \/ AnswerUndecided(n)
  PROVE  YesIsGrounded'
<1>1. CASE AnswerLeaf(n)
  <2> DEFINE a == IF Kind(n) = "test" /\ mode[n] = "true" THEN "no" ELSE "yes"
  <2>1. Open(n) /\ Return(n, a)
    BY <1>1 DEF AnswerLeaf
  <2>2. a = "yes" => YesRests(n)
    BY <1>1 DEF AnswerLeaf, YesRests, Open, ItemTyped, TypeOK
  <2> HIDE DEF a
  <2> QED BY <2>1, <2>2, YesReturned
<1>2. CASE AnswerNot(n)
  <2>1. Open(n) /\ Kind(n) = "not"
    BY <1>2 DEF AnswerNot
  <2>2. CASE Asked(n) = {}
    BY <1>2, <2>1, <2>2, YesReturned DEF AnswerNot, YesRests
  <2>3. CASE Asked(n) # {}
    <3>1. Return(n, answer[Children(n)[1]])
      BY <1>2, <2>3 DEF AnswerNot
    <3>2. \A i \in Asked(n) : i = 1
      BY <2>1 DEF Asked
    <3>3. answer[Children(n)[1]] = "yes" => YesRests(n)
      BY <2>1, <3>2 DEF YesRests
    <3> QED BY <2>1, <3>1, <3>3, YesReturned
  <2> QED BY <2>2, <2>3
<1>3. CASE AnswerDecided(n)
  <2>1. Open(n) /\ Return(n, Deciding(n)) /\ Kind(n) \in {"all", "any"}
    BY <1>3 DEF AnswerDecided
  <2>2. Deciding(n) = "yes" => YesRests(n)
    BY <1>3 DEF AnswerDecided, YesRests
  <2> QED BY <2>1, <2>2, YesReturned
<1>4. CASE AnswerUndecided(n)
  <2>1. /\ Open(n) /\ Return(n, Opposite(Deciding(n))) /\ Kind(n) \in {"all", "any"}
    BY <1>4 DEF AnswerUndecided
  <2>2. Opposite(Deciding(n)) = "yes" => YesRests(n)
    BY <1>4 DEF AnswerUndecided, YesRests, Opposite
  <2> QED BY <2>1, <2>2, YesReturned
<1> QED BY <1>1, <1>2, <1>3, <1>4

LEMMA YesStep == ASSUME ItemTyped, YesIsGrounded, [Next]_vars PROVE YesIsGrounded'
<1>1. CASE MarkerAttr \/ NotTestOnly \/ OtherAttr \/ CfgAttr \/ UNCHANGED vars
  BY <1>1, YesQuiet DEF MarkerAttr, NotTestOnly, OtherAttr, CfgAttr, Settle, NextAttr, vars
<1>2. CASE CallPredicate
  <2>1. \A n \in Nodes : answer[n] # "open" => mode'[n] = mode[n]
    BY <1>2 DEF CallPredicate, ItemTyped, TypeOK
  <2> QED BY <1>2, <2>1, YesQuiet DEF CallPredicate
<1>3. ASSUME NEW n \in Nodes, NEW i \in Asked(n), AskChild(n, i) PROVE YesIsGrounded'
  <2>1. \A m \in Nodes : answer[m] # "open" => mode'[m] = mode[m]
    BY <1>3 DEF AskChild, ItemTyped, TypeOK
  <2> QED BY <1>3, <2>1, YesQuiet DEF AskChild
<1> QED BY <1>1, <1>2, <1>3, YesEvaluate DEF Next, Done, Evaluate

LEMMA PassedStep == ASSUME ItemTyped, PassedLet, [Next]_vars PROVE PassedLet'
<1>0. item.attrs \in Seq(Attrs) /\ at \in 1..(Len(item.attrs) + 1)
  BY ItemsAssumption DEF ItemTyped, TypeOK
<1>1. item' = item
  BY DEF Next, MarkerAttr, OtherAttr, CallPredicate, CfgAttr, NotTestOnly, Evaluate,
     AnswerLeaf, AnswerNot, AnswerDecided, AnswerUndecided, AskChild, Return, Settle,
     NextAttr, Done, vars
\* Answers stay, ...
<1>2. \A n \in Nodes : answer[n] = "yes" => answer'[n] = "yes"
  <2>1. CASE Evaluate
    <3>1. PICK n \in Nodes : /\ Open(n)
                             /\ \/ \E a \in {"yes", "no"} : Return(n, a)
                                \/ \E i \in Asked(n) : AskChild(n, i)
      BY <2>1, EvaluateCases
    <3> QED BY <3>1 DEF Open, Return, AskChild, ItemTyped, TypeOK
  <2> QED BY <2>1 DEF Next, MarkerAttr, OtherAttr, CallPredicate, CfgAttr, NotTestOnly,
             Settle, NextAttr, Done, vars
\* ... and an attribute is passed over only where it lets the item be.
<1> DEFINE Lets(a) ==
      /\ item.attrs[a].form # "marker"
      /\ item.attrs[a].form = "cfg" =>
            Kind(item.attrs[a].root) = "opaque" \/ answer[item.attrs[a].root] = "yes"
<1>3. \A a \in 1..(at - 1) : Lets(a)
  BY DEF PassedLet
<1>4. \A a \in DOMAIN item.attrs : Lets(a) => Lets(a)'
  BY <1>1, <1>2, AttrTyped DEF Kind
<1>5. at' = at \/ (at' = at + 1 /\ at \in DOMAIN item.attrs /\ Lets(at) /\ verdict' = "open")
  BY DEF Next, MarkerAttr, OtherAttr, CallPredicate, CfgAttr, NotTestOnly, Evaluate,
     AnswerLeaf, AnswerNot, AnswerDecided, AnswerUndecided, AskChild, Return, Settle,
     NextAttr, Done, vars, Looking, Root
<1>6. verdict' = "production" /\ at' = at => at = Len(item.attrs) + 1
  <2>1. verdict' = "production" /\ at' = at => verdict = "production" \/ NotTestOnly
    BY DEF Next, MarkerAttr, OtherAttr, CallPredicate, CfgAttr, NotTestOnly, Evaluate,
       AnswerLeaf, AnswerNot, AnswerDecided, AnswerUndecided, AskChild, Return, Settle,
       NextAttr, Done, vars
  <2>2. NotTestOnly => at = Len(item.attrs) + 1
    BY <1>0 DEF NotTestOnly
  <2> QED BY <2>1, <2>2 DEF PassedLet
<1>7. \A a \in 1..(at' - 1) : Lets(a)'
  <2> HIDE DEF Lets
  <2> QED BY <1>0, <1>3, <1>4, <1>5
<1> QED BY <1>0, <1>1, <1>5, <1>6, <1>7 DEF PassedLet

-----------------------------------------------------------------------------
(* A kept item is compiled *)

\* The build in which every leaf is as it was asked to be: test is not set, a
\* flag is what the question about it was after.
AsAsked == [n \in Nodes |-> Kind(n) # "test" /\ mode[n] = "true"]

\* In that build every call that returned "yes" is answered the way it was
\* asked, by recursion over the predicate.
LEMMA YesHolds ==
  ASSUME ItemTyped, AskedRight, YesIsGrounded, NothingOpaque, NotHasOneChild,
         NEW v, RightOn(AsAsked, v, Nodes)
  PROVE  \A n \in Nodes : answer[n] = "yes" => (v[n] <=> mode[n] = "true")
<1> DEFINE S == {n \in Nodes : answer[n] = "yes" /\ ~(v[n] <=> mode[n] = "true")}
<1> SUFFICES ASSUME S # {} PROVE FALSE
  OBVIOUS
<1>1. PICK n \in S : \A k \in Kids(n) : k \notin S
  BY Deepest DEF ItemTyped
<1>2. n \in Nodes /\ answer[n] = "yes" /\ YesRests(n) /\ mode[n] \in {"true", "false"}
  BY DEF YesIsGrounded, ItemTyped, TypeOK
<1>3. /\ Children(n) = item.kids[n] /\ Kids(n) \subseteq Nodes
      /\ item.kids[n] \in Seq(Nodes)
  BY <1>2, ChildrenAreAllKids, ItemsAssumption DEF ItemTyped
\* A child that said yes has it as its parent asked.
<1>4. ASSUME NEW i \in DOMAIN item.kids[n], answer[item.kids[n][i]] = "yes"
      PROVE  item.kids[n][i] \in Kids(n) /\ (v[item.kids[n][i]] <=> ChildMode(n) = "true")
  <2>1. item.kids[n][i] \in Kids(n) /\ item.kids[n][i] \in Nodes
    BY <1>3 DEF Kids
  <2>2. mode[item.kids[n][i]] = ChildMode(n)
    BY <1>2, <1>4, <2>1 DEF AskedRight, ItemTyped, TypeOK
  <2> QED BY <1>1, <1>4, <2>1, <2>2
<1>5. Right(AsAsked, v, n)
  BY <1>2 DEF RightOn
<1>6. v[n] \in BOOLEAN
  BY <1>2 DEF RightOn
<1> SUFFICES v[n] <=> mode[n] = "true"
  OBVIOUS
<1> HIDE DEF S
<1>7. CASE Kind(n) \in {"test", "flag", "unknown"}
  BY <1>2, <1>5, <1>7 DEF Right, AsAsked, YesRests
<1>8. CASE Kind(n) = "not"
  <2>1. 1 \in DOMAIN item.kids[n] /\ Kids(n) = {item.kids[n][1]}
    BY <1>2, <1>3, <1>8 DEF NotHasOneChild, Kids
  <2>2. answer[item.kids[n][1]] = "yes"
    BY <1>2, <1>3, <1>8, <2>1 DEF YesRests, Asked
  <2>3. v[item.kids[n][1]] <=> mode[n] = "false"
    BY <1>2, <1>4, <1>8, <2>1, <2>2 DEF ChildMode, Flip
  <2> QED BY <1>2, <1>5, <1>6, <1>8, <2>1, <2>3 DEF Right
<1>9. CASE Kind(n) \in {"all", "any"}
  <2>1. Asked(n) = DOMAIN item.kids[n] /\ ChildMode(n) = mode[n]
    BY <1>3, <1>9 DEF Asked, ChildMode
  <2>2. \A k \in Kids(n) : \E i \in DOMAIN item.kids[n] : k = item.kids[n][i]
    BY DEF Kids
  <2>3. CASE Deciding(n) = "yes"
    <3>1. PICK i \in DOMAIN item.kids[n] : answer[item.kids[n][i]] = "yes"
      BY <1>2, <1>3, <1>9, <2>1, <2>3 DEF YesRests
    <3>2. /\ item.kids[n][i] \in Kids(n)
          /\ v[item.kids[n][i]] <=> mode[n] = "true"
      BY <1>4, <2>1, <3>1
    <3>3. (Kind(n) = "any") = (mode[n] = "true")
      BY <1>9, <2>3 DEF Deciding
    <3> QED BY <1>2, <1>5, <1>6, <1>9, <3>2, <3>3 DEF Right
  <2>4. CASE Deciding(n) # "yes"
    <3>1. \A i \in DOMAIN item.kids[n] : answer[item.kids[n][i]] = "yes"
      BY <1>2, <1>3, <1>9, <2>1, <2>4 DEF YesRests
    <3>2. \A k \in Kids(n) : v[k] <=> mode[n] = "true"
      BY <1>4, <2>1, <2>2, <3>1
    <3>3. (Kind(n) = "all") = (mode[n] = "true")
      BY <1>9, <2>4 DEF Deciding
    <3> QED BY <1>2, <1>5, <1>6, <1>9, <3>2, <3>3 DEF Right
  <2> QED BY <2>3, <2>4
<1> QED BY <1>2, <1>7, <1>8, <1>9 DEF YesRests

LEMMA KeptFromInv == IInv /\ KeptInv => KeptIsCompiled
<1> SUFFICES ASSUME IInv, KeptInv, verdict = "production", NothingOpaque, NotHasOneChild,
                    NoAtomTwice
             PROVE  \E v \in [Nodes -> BOOLEAN] : BuildWithoutTest(v) /\ CompiledIn(v)
  BY DEF KeptIsCompiled
<1>0. ItemTyped /\ AskedRight /\ YesIsGrounded
  BY DEF IInv, KeptInv, ItemTyped
<1>1. AsAsked \in [Nodes -> BOOLEAN]
  BY DEF AsAsked
<1>2. PICK v : RightOn(AsAsked, v, Nodes)
  BY <1>0, <1>1, BuildExists DEF ItemTyped
<1>3. v \in [Nodes -> BOOLEAN]
  BY <1>2 DEF RightOn
<1>4. \A n \in Nodes : answer[n] = "yes" => (v[n] <=> mode[n] = "true")
  BY <1>0, <1>2, YesHolds
<1>5. BuildWithoutTest(v)
  <2>1. ASSUME NEW n \in Nodes PROVE Meaning(v, n)
    <3>1. Right(AsAsked, v, n)
      BY <1>2 DEF RightOn
    <3>2. Kind(n) = "test" => ~v[n]
      BY <3>1 DEF Right, AsAsked
    <3>3. Kind(n) = "not" => Kids(n) = {item.kids[n][1]}
      <4>1. item.kids[n] \in Seq(Nodes)
        BY <1>0, ItemsAssumption DEF ItemTyped
      <4> QED BY <4>1 DEF NotHasOneChild, Kids
    <3>4. Kind(n) = "not" => (v[n] <=> ~v[item.kids[n][1]])
      BY <3>1, <3>3 DEF Right
    <3>5. /\ Kind(n) = "all" => (v[n] <=> \A k \in Kids(n) : v[k])
          /\ Kind(n) = "any" => (v[n] <=> \E k \in Kids(n) : v[k])
      BY <3>1 DEF Right
    <3> QED BY <3>2, <3>3, <3>4, <3>5 DEF Meaning
  <2> QED BY <2>1 DEF BuildWithoutTest, NoAtomTwice
<1>6. CompiledIn(v)
  <2> SUFFICES ASSUME NEW a \in DOMAIN item.attrs
               PROVE  /\ item.attrs[a].form # "marker"
                      /\ item.attrs[a].form = "cfg" => v[item.attrs[a].root]
    BY DEF CompiledIn
  <2>1. a \in 1..(at - 1)
    <3>1. item.attrs \in Seq(Attrs)
      BY <1>0, ItemsAssumption DEF ItemTyped
    <3> QED BY <3>1 DEF KeptInv, PassedLet
  <2>2. item.attrs[a].root \in Nodes
    BY <1>0, AttrTyped
  <2>3. item.attrs[a].form = "cfg" => answer[item.attrs[a].root] = "yes"
    BY <2>1, <2>2 DEF KeptInv, PassedLet, NothingOpaque
  <2>4. answer[item.attrs[a].root] = "yes" => mode[item.attrs[a].root] = "true"
    BY <1>0, <2>2 DEF AskedRight, ItemTyped, TypeOK
  <2> QED BY <1>4, <2>1, <2>2, <2>3, <2>4 DEF KeptInv, PassedLet
<1> QED BY <1>3, <1>5, <1>6

-----------------------------------------------------------------------------
(* The calls nest *)

\* A child that is asked is a child of one node only, at one place, and no
\* attribute's predicate.
LEMMA AskedKid ==
  ASSUME item \in Items, NEW n \in Nodes, NEW i \in Asked(n)
  PROVE  /\ i \in DOMAIN item.kids[n] /\ i \in DOMAIN Children(n)
         /\ Children(n)[i] = item.kids[n][i]
         /\ Children(n)[i] \in Kids(n) /\ Children(n)[i] \in Nodes
         /\ Kind(Children(n)[i]) # "opaque"
         /\ \A a \in DOMAIN item.attrs : item.attrs[a].root # Children(n)[i]
         /\ \A m \in Nodes : \A j \in DOMAIN item.kids[m] :
               item.kids[m][j] = Children(n)[i] => m = n /\ j = i
         /\ \A j \in 1..(i - 1) : j \in DOMAIN Children(n)
<1>1. item.kids[n] \in Seq(Nodes) /\ i \in DOMAIN Children(n)
  BY ItemsAssumption DEF Asked
<1>2. Children(n) = item.kids[n] /\ \A j \in DOMAIN item.kids[n] : Kind(item.kids[n][j]) # "opaque"
  BY <1>1 DEF Children
<1>3. /\ \A a \in DOMAIN item.attrs : item.attrs[a].root # item.kids[n][i]
      /\ \A m \in Nodes : \A j \in DOMAIN item.kids[m] :
            item.kids[m][j] = item.kids[n][i] => m = n /\ j = i
  BY <1>1, <1>2, ItemsAssumption
<1> QED BY <1>1, <1>2, <1>3 DEF Kids

\* Once the attribute's own call has returned, or before it is made, no call
\* is in progress: what is not open is closed under children, for an open
\* child has an open parent, and a node has one parent.
LEMMA NothingOpen ==
  ASSUME ItemTyped, CallsNest, BelowRoot, Looking("cfg"), ~Open(Root)
  PROVE  \A n \in Nodes : ~Open(n)
<1> DEFINE S == {n \in Nodes : ~Open(n)}
<1>1. Root \in S
  BY AttrTyped DEF Looking, Root
<1>2. ASSUME NEW m \in S, NEW k \in Kids(m) PROVE k \in S
  <2>1. PICK j \in DOMAIN item.kids[m] : k = item.kids[m][j]
    BY KidsTyped DEF ItemTyped
  <2>2. k \in Nodes
    BY KidsTyped DEF ItemTyped
  <2> SUFFICES ASSUME Open(k) PROVE FALSE
    BY <2>2
  <2>3. PICK p \in Nodes : Open(p) /\ \E i \in Asked(p) : k = Children(p)[i]
    BY <2>2 DEF CallsNest
  <2>4. p = m
    BY <2>1, <2>3, AskedKid DEF ItemTyped
  <2> QED BY <2>3, <2>4
<1> QED BY <1>1, <1>2 DEF BelowRoot

\* A step that makes no call and returns none, taken while none is in progress.
LEMMA NestIdle ==
  ASSUME NestInv, \A n \in Nodes : ~Open(n), UNCHANGED <<item, mode, answer>> PROVE NestInv'
<1>1. \A n \in Nodes : ~Open(n)'
  BY DEF Open
<1>2. \A n \in Nodes : /\ Kind(n)' = Kind(n) /\ Children(n)' = Children(n)
                       /\ Asked(n)' = Asked(n) /\ Deciding(n)' = Deciding(n)
  BY DEF Kind, Children, Asked, Deciding
<1>3. CallsNest'
  BY <1>1, <1>2 DEF NestInv, CallsNest
<1>4. BelowRoot' /\ NoneOpaque'
  BY <1>1, <1>2 DEF NestInv, BelowRoot, NoneOpaque
<1> QED BY <1>3, <1>4 DEF NestInv

\* A call returns when none of the calls it made is in progress.
LEMMA NestReturn ==
  ASSUME ItemTyped, NestInv, NEW n \in Nodes, Open(n), NEW a, Return(n, a),
         a \in {"yes", "no"}, \A i \in Asked(n) : ~Open(Children(n)[i])
  PROVE  NestInv'
<1>1. UNCHANGED <<item, at, mode, verdict>>
  BY DEF Return
<1>2. \A m \in Nodes : m # n => answer'[m] = answer[m]
  BY DEF Return, ItemTyped, TypeOK
<1>3. answer[n] = "open" /\ answer'[n] = a
  BY DEF Return, Open, ItemTyped, TypeOK
<1>4. \A m \in Nodes : Open(m)' <=> Open(m) /\ m # n
  BY <1>1, <1>2, <1>3 DEF Open
<1>5. \A m \in Nodes : /\ Kind(m)' = Kind(m) /\ Children(m)' = Children(m)
                       /\ Asked(m)' = Asked(m) /\ Deciding(m)' = Deciding(m)
                       /\ IsCombinator(m)' = IsCombinator(m) /\ Kids(m)' = Kids(m)
  BY <1>1 DEF Kind, Children, Asked, Deciding, IsCombinator, Kids
<1>6. Looking("cfg")' = Looking("cfg") /\ Root' = Root
  BY <1>1 DEF Looking, Root
<1>7. ASSUME NEW m \in Nodes, Open(m)'
      PROVE  /\ Looking("cfg")'
             /\ \/ m = Root'
                \/ \E p \in Nodes : /\ Open(p)' /\ IsCombinator(p)'
                                    /\ \E i \in Asked(p)' : m = Children(p)'[i]
  <2>1. Open(m)
    BY <1>4, <1>7
  <2>2. Looking("cfg")
    BY <2>1 DEF NestInv, CallsNest
  <2>3. ASSUME NEW p \in Nodes, Open(p), IsCombinator(p), NEW i \in Asked(p), m = Children(p)[i]
        PROVE  Open(p)'
    BY <1>4, <2>1, <2>3
  <2>4. \/ m = Root
        \/ \E p \in Nodes : Open(p) /\ IsCombinator(p) /\ \E i \in Asked(p) : m = Children(p)[i]
    BY <2>1 DEF NestInv, CallsNest
  <2> QED BY <1>5, <1>6, <2>2, <2>3, <2>4
<1>8. ASSUME NEW m \in Nodes, NEW i \in Asked(m)', mode'[Children(m)'[i]] # "none",
             NEW j \in 1..(i - 1)
      PROVE  answer'[Children(m)'[j]] = Opposite(Deciding(m)')
  <2>1. i \in Asked(m) /\ mode[Children(m)[i]] # "none"
    BY <1>1, <1>5, <1>8
  <2>2. answer[Children(m)[j]] = Opposite(Deciding(m))
    BY <2>1 DEF NestInv, CallsNest
  <2>3. Children(m)[j] \in Nodes
    BY <2>1, AskedKid, ChildrenAreKids DEF ItemTyped
  <2>4. Children(m)[j] # n
    BY <1>3, <2>2, AnswerTypes
  <2> QED BY <1>2, <1>5, <2>2, <2>3, <2>4
<1>9. CallsNest'
  BY <1>7, <1>8 DEF CallsNest, Opposite
<1>10. BelowRoot'
  BY <1>4, <1>5, <1>6 DEF NestInv, BelowRoot
<1>11. NoneOpaque'
  BY <1>1, <1>5 DEF NestInv, NoneOpaque
<1> QED BY <1>9, <1>10, <1>11 DEF NestInv

\* Each of the functions' ways to answer has heard every call it made.
LEMMA NestAnswer ==
  ASSUME ItemTyped, NestInv, NEW n \in Nodes,
         AnswerLeaf(n) \/ AnswerNot(n) \/ AnswerDecided(n) \/ AnswerUndecided(n)
  PROVE  NestInv'
<1>1. Open(n) /\ \E a \in {"yes", "no"} : Return(n, a)
  <2>1. CASE AnswerLeaf(n)
    BY <2>1 DEF AnswerLeaf
  <2>2. CASE AnswerNot(n)
    <3>1. CASE Asked(n) = {}
      BY <2>2, <3>1 DEF AnswerNot
    <3>2. CASE Asked(n) # {}
      <4>1. 1 \in Asked(n)
        BY <2>2, <3>2 DEF AnswerNot, Asked
      <4>2. answer[Children(n)[1]] \in {"yes", "no"}
        BY <2>2, <3>2, <4>1, AskedKid DEF AnswerNot, ItemTyped, TypeOK
      <4> QED BY <2>2, <3>2, <4>2 DEF AnswerNot
    <3> QED BY <3>1, <3>2
  <2>3. CASE AnswerDecided(n) \/ AnswerUndecided(n)
    BY <2>3, AnswerTypes DEF AnswerDecided, AnswerUndecided
  <2> QED BY <2>1, <2>2, <2>3
<1>2. ASSUME NEW k \in Asked(n), Open(Children(n)[k]) PROVE FALSE
  <2>0. Children(n)[k] \in Nodes
    BY <1>2, AskedKid DEF ItemTyped
  <2>1. CASE AnswerLeaf(n)
    <3>1. \A a \in DOMAIN item.attrs : item.attrs[a].root # Children(n)[k]
      BY <1>2, AskedKid DEF ItemTyped
    <3>2. Looking("cfg") /\ \/ Children(n)[k] = Root
                            \/ \E p \in Nodes : /\ Open(p) /\ IsCombinator(p)
                                                /\ \E i \in Asked(p) : Children(n)[k] = Children(p)[i]
      BY <1>2, <2>0 DEF NestInv, CallsNest
    <3>3. PICK p \in Nodes : IsCombinator(p) /\ \E i \in Asked(p) : Children(n)[k] = Children(p)[i]
      BY <3>1, <3>2 DEF Looking, Root
    <3>4. p = n
      BY <3>3, AskedKid DEF ItemTyped
    <3> QED BY <2>1, <3>3, <3>4 DEF AnswerLeaf, IsCombinator
  <2>2. CASE AnswerNot(n)
    <3>1. k = 1
      BY <2>2 DEF AnswerNot, Asked
    <3> QED BY <1>2, <2>2, <3>1 DEF AnswerNot, Open
  <2>3. CASE AnswerDecided(n)
    <3>1. PICK i \in Asked(n) : answer[Children(n)[i]] = Deciding(n)
      BY <2>3 DEF AnswerDecided
    <3>2. i \in Nat /\ k \in Nat /\ i # 0 /\ k # 0
      <4>1. item.kids[n] \in Seq(Nodes)
        BY ItemsAssumption DEF ItemTyped
      <4> QED BY <1>2, <3>1, <4>1, AskedKid DEF ItemTyped
    <3>3. mode[Children(n)[i]] # "none" /\ mode[Children(n)[k]] # "none"
      <4>1. Children(n)[i] \in Nodes
        BY <3>1, AskedKid DEF ItemTyped
      <4> QED BY <1>2, <3>1, <4>1, AnswerTypes DEF Open, ItemTyped, TypeOK
    <3>4. CASE k < i
      <4>1. answer[Children(n)[k]] = Opposite(Deciding(n))
        BY <3>1, <3>2, <3>3, <3>4 DEF NestInv, CallsNest
      <4> QED BY <1>2, <4>1, AnswerTypes DEF Open
    <3>5. CASE i < k
      <4>1. answer[Children(n)[i]] = Opposite(Deciding(n))
        BY <1>2, <3>2, <3>3, <3>5 DEF NestInv, CallsNest
      <4> QED BY <3>1, <4>1 DEF Opposite, Deciding
    <3>6. CASE i = k
      BY <1>2, <3>1, <3>6, AnswerTypes DEF Open
    <3> QED BY <3>2, <3>4, <3>5, <3>6
  <2>4. CASE AnswerUndecided(n)
    BY <1>2, <2>4, AnswerTypes DEF AnswerUndecided, Open
  <2> QED BY <2>1, <2>2, <2>3, <2>4
<1> QED BY <1>1, <1>2, NestReturn

\* A step that makes the one call of c, for the attribute or for the node p,
\* which has heard all it had asked so far.
LEMMA NestCall ==
  ASSUME ItemTyped, AskedRight, NestInv, Looking("cfg"),
         NEW c \in Nodes, mode[c] = "none", Kind(c) # "opaque",
         NEW m \in {"true", "false"}, mode' = [mode EXCEPT ![c] = m],
         UNCHANGED <<item, at, answer, verdict>>,
         \/ c = Root /\ \A n \in Nodes : \A i \in Asked(n) : Children(n)[i] # c
         \/ \E p \in Nodes : \E i \in Asked(p) :
               /\ Open(p) /\ IsCombinator(p) /\ c = Children(p)[i]
               /\ \A j \in 1..(i - 1) : answer[Children(p)[j]] = Opposite(Deciding(p))
  PROVE  NestInv'
<1>1. mode'[c] = m /\ \A n \in Nodes : n # c => mode'[n] = mode[n]
  BY DEF ItemTyped, TypeOK
<1>2. answer[c] = "open"
  BY DEF ItemTyped, TypeOK
<1>3. \A n \in Nodes : Open(n)' <=> Open(n) \/ n = c
  BY <1>1, <1>2 DEF Open
<1>4. ASSUME NEW n \in Nodes
      PROVE  /\ Kind(n)' = Kind(n) /\ Children(n)' = Children(n)
             /\ Asked(n)' = Asked(n) /\ Kids(n)' = Kids(n)
             /\ IsCombinator(n)' = IsCombinator(n)
             /\ n # c => Deciding(n)' = Deciding(n)
  <2>1. n # c => Deciding(n)' = Deciding(n)
    BY <1>1 DEF Deciding, Kind
  <2> QED BY <2>1 DEF Kind, Children, Asked, IsCombinator, Kids
<1>5. Looking("cfg")' /\ Root' = Root
  BY DEF Looking, Root
<1>6. ASSUME NEW n \in Nodes, Open(n)'
      PROVE  \/ n = Root'
             \/ \E p \in Nodes : /\ Open(p)' /\ IsCombinator(p)'
                                 /\ \E i \in Asked(p)' : n = Children(p)'[i]
  <2>1. \/ n = Root
        \/ \E p \in Nodes : Open(p) /\ IsCombinator(p) /\ \E i \in Asked(p) : n = Children(p)[i]
    BY <1>3, <1>6 DEF NestInv, CallsNest
  <2> QED BY <1>3, <1>4, <1>5, <2>1
\* c had asked nobody, having not been asked itself; a child asked before is
\* not c, and c's own turn has come.
<1>7. ASSUME NEW n \in Nodes, NEW i \in Asked(n)', mode'[Children(n)'[i]] # "none",
             NEW j \in 1..(i - 1)
      PROVE  answer'[Children(n)'[j]] = Opposite(Deciding(n)')
  <2>1. i \in Asked(n) /\ Children(n)' = Children(n) /\ mode'[Children(n)[i]] # "none"
    BY <1>4, <1>7
  <2>2. Children(n)[i] \in Nodes /\ i \in DOMAIN item.kids[n] /\ Children(n)[i] = item.kids[n][i]
    BY <2>1, AskedKid DEF ItemTyped
  <2>3. CASE Children(n)[i] = c
    <3>0. PICK p \in Nodes : \E k \in Asked(p) :
             /\ Open(p) /\ IsCombinator(p) /\ c = Children(p)[k]
             /\ \A l \in 1..(k - 1) : answer[Children(p)[l]] = Opposite(Deciding(p))
      BY <2>1, <2>3
    <3>1. PICK k \in Asked(p) :
             /\ Open(p) /\ IsCombinator(p) /\ c = Children(p)[k]
             /\ \A l \in 1..(k - 1) : answer[Children(p)[l]] = Opposite(Deciding(p))
      BY <3>0
    <3>2. n = p /\ i = k
      <4>1. \A q \in Nodes : \A l \in DOMAIN item.kids[q] :
               item.kids[q][l] = Children(p)[k] => q = p /\ l = k
        BY <3>1, AskedKid DEF ItemTyped
      <4> QED BY <2>2, <2>3, <3>1, <4>1
    <3>3. n # c
      BY <3>1, <3>2 DEF Open
    <3> QED BY <1>4, <2>1, <3>1, <3>2, <3>3
  <2>4. CASE Children(n)[i] # c
    <3>1. mode[Children(n)[i]] # "none"
      BY <1>1, <2>1, <2>2, <2>4
    <3>2. n # c
      BY <2>2, <3>1 DEF AskedRight
    <3>3. answer[Children(n)[j]] = Opposite(Deciding(n))
      BY <1>7, <2>1, <3>1 DEF NestInv, CallsNest
    <3> QED BY <1>4, <2>1, <3>2, <3>3
  <2> QED BY <2>3, <2>4
<1>8. CallsNest'
  BY <1>5, <1>6, <1>7 DEF CallsNest, Opposite
\* c is the root, or a child of one that is below it.
<1>9. ASSUME NEW n \in Nodes, Open(n)', NEW S \in SUBSET Nodes,
             Root \in S, \A k \in S : Kids(k) \subseteq S
      PROVE  n \in S
  <2>1. CASE Open(n)
    BY <1>9, <2>1 DEF NestInv, BelowRoot
  <2>2. CASE n = c /\ c # Root
    <3>0. PICK p \in Nodes : \E k \in Asked(p) : Open(p) /\ c = Children(p)[k]
      BY <2>2
    <3>1. PICK k \in Asked(p) : Open(p) /\ c = Children(p)[k]
      BY <3>0
    <3>2. p \in S
      BY <1>9, <3>1 DEF NestInv, BelowRoot
    <3>3. c \in Kids(p)
      BY <3>1, AskedKid DEF ItemTyped
    <3> QED BY <1>9, <2>2, <3>2, <3>3
  <2> QED BY <1>3, <1>9, <2>1, <2>2
<1>10. BelowRoot'
  <2> SUFFICES ASSUME NEW n \in Nodes, Open(n)', NEW S \in SUBSET Nodes,
                      Root' \in S, \A k \in S : Kids(k)' \subseteq S
               PROVE  n \in S
    BY DEF BelowRoot
  <2>1. Root \in S /\ \A k \in S : Kids(k) \subseteq S
    BY <1>4, <1>5
  <2> QED BY <1>9, <2>1
<1>11. NoneOpaque'
  <2>1. ASSUME NEW n \in Nodes, mode'[n] # "none" PROVE Kind(n)' # "opaque"
    <3>1. CASE n = c
      BY <1>4, <3>1
    <3>2. CASE n # c
      BY <1>1, <1>4, <2>1, <3>2 DEF NestInv, NoneOpaque
    <3> QED BY <3>1, <3>2
  <2> QED BY <2>1 DEF NoneOpaque
<1> QED BY <1>8, <1>10, <1>11 DEF NestInv

LEMMA NestStep ==
  ASSUME ItemTyped, AskedRight, NestInv, [Next]_vars PROVE NestInv'
<1>1. CASE MarkerAttr \/ NotTestOnly \/ (Looking("other") /\ NextAttr)
  <2>1. ~Looking("cfg")
    BY <1>1 DEF MarkerAttr, NotTestOnly, Looking
  <2>2. \A n \in Nodes : ~Open(n)
    BY <2>1 DEF NestInv, CallsNest
  <2> QED BY <1>1, <2>2, NestIdle DEF MarkerAttr, NotTestOnly, Settle, NextAttr
<1>2. CASE CfgAttr \/ (Looking("cfg") /\ Kind(Root) = "opaque" /\ NextAttr)
  <2>1. Looking("cfg") /\ ~Open(Root) /\ UNCHANGED <<item, mode, answer>>
    <3>1. Looking("cfg") => Root \in Nodes
      BY AttrTyped DEF Looking, Root
    <3> QED BY <1>2, <3>1 DEF CfgAttr, Settle, NextAttr, Open, NestInv, NoneOpaque
  <2> QED BY <2>1, NothingOpen, NestIdle DEF NestInv
<1>3. CASE CallPredicate
  <2>1. at \in DOMAIN item.attrs /\ Looking("cfg") /\ Root \in Nodes
    BY <1>3, AttrTyped DEF CallPredicate, Looking, Root
  <2>2. \A n \in Nodes : \A i \in Asked(n) : Children(n)[i] # Root
    BY <2>1, AskedKid DEF Root, ItemTyped
  <2> QED BY <1>3, <2>1, <2>2, NestCall DEF CallPredicate
<1>4. ASSUME NEW n \in Nodes, NEW i \in Asked(n), AskChild(n, i) PROVE NestInv'
  <2>1. Open(n) /\ Looking("cfg")
    BY <1>4 DEF AskChild, NestInv, CallsNest
  <2>2. ChildMode(n) \in {"true", "false"}
    BY <2>1 DEF ChildMode, Flip, Open, ItemTyped, TypeOK
  <2>3. Children(n)[i] \in Nodes /\ Kind(Children(n)[i]) # "opaque"
    BY <1>4, AskedKid DEF ItemTyped
  <2>4. /\ IsCombinator(n) /\ mode[Children(n)[i]] = "none"
        /\ mode' = [mode EXCEPT ![Children(n)[i]] = ChildMode(n)]
        /\ UNCHANGED <<item, at, answer, verdict>>
        /\ \A j \in 1..(i - 1) : answer[Children(n)[j]] = Opposite(Deciding(n))
    BY <1>4 DEF AskChild
  <2> QED BY <1>4, <2>1, <2>2, <2>3, <2>4, NestCall
<1>5. CASE UNCHANGED vars
  BY <1>5, SMTT(30) DEF vars, NestInv, CallsNest, BelowRoot, NoneOpaque, Open, Looking, Root,
     IsCombinator, Kind, Children, Asked, Deciding, Kids
<1> QED
  BY <1>1, <1>2, <1>3, <1>4, <1>5, NestAnswer DEF Next, Done, Evaluate, OtherAttr

-----------------------------------------------------------------------------
(* No call waits for an answer nobody gives *)

NatLess == OpToRel(<, Nat)

LEMMA LeastNat ==
  ASSUME NEW S, S \subseteq Nat, S # {}
  PROVE  \E m \in S : \A k \in S : ~(k < m)
<1>1. \A x, y \in Nat : x < y => <<x, y>> \in NatLess
  BY Zenon DEF NatLess, OpToRel
<1>2. IsWellFoundedOn(NatLess, Nat)
  BY NatLessThanWellFounded, Zenon DEF NatLess
<1>3. PICK m \in S : \A y \in S : ~(<<y, m>> \in NatLess)
  BY <1>2, WFMin, Zenon
<1> QED BY <1>1, <1>3, Zenon

\* What the call of n needs to go on, the guards of Evaluate's actions: a leaf
\* nothing, a list the answers that settle it or one more child to ask.
CanAnswer(n) ==
    \/ Kind(n) \in {"test", "flag", "unknown"}
    \/ Kind(n) = "not" /\ (Asked(n) # {} => answer[Children(n)[1]] # "open")
    \/ /\ Kind(n) \in {"all", "any"}
       /\ \/ \E i \in Asked(n) : answer[Children(n)[i]] = Deciding(n)
          \/ \A i \in Asked(n) : answer[Children(n)[i]] = Opposite(Deciding(n))
CanAsk(n) ==
    \E i \in Asked(n) :
        /\ mode[Children(n)[i]] = "none"
        /\ \A j \in 1..(i - 1) : answer[Children(n)[j]] = Opposite(Deciding(n))
CanGoOn(n) == Open(n) /\ (CanAnswer(n) \/ (IsCombinator(n) /\ CanAsk(n)))

\* Nothing else lets Evaluate take a step.
LEMMA EvaluateGoesOn == ASSUME Evaluate PROVE \E n \in Nodes : CanGoOn(n)
  BY DEF Evaluate, AnswerLeaf, AnswerNot, AnswerDecided, AnswerUndecided, AskChild,
     CanGoOn, CanAnswer, CanAsk, IsCombinator

\* A list none of whose children is in progress, ...
LEMMA ListGoesOn ==
  ASSUME ItemTyped, NEW n \in Nodes, Open(n), Kind(n) \in {"all", "any"},
         \A i \in Asked(n) : ~Open(Children(n)[i])
  PROVE  CanGoOn(n)
<1> SUFFICES ASSUME \A i \in Asked(n) : answer[Children(n)[i]] # Deciding(n)
             PROVE  CanGoOn(n)
  BY DEF CanGoOn, CanAnswer
<1>1. /\ item.kids[n] \in Seq(Nodes)
      /\ \A i \in Asked(n) : Children(n)[i] \in Nodes /\ i \in DOMAIN item.kids[n]
  BY ItemsAssumption, AskedKid DEF ItemTyped
<1>2. ASSUME NEW i \in Asked(n), mode[Children(n)[i]] # "none"
      PROVE  answer[Children(n)[i]] = Opposite(Deciding(n))
  <2>1. answer[Children(n)[i]] \in {"yes", "no"}
    BY <1>1, <1>2 DEF Open, ItemTyped, TypeOK
  <2> QED BY <2>1 DEF Opposite, Deciding
<1> DEFINE U == {i \in Asked(n) : mode[Children(n)[i]] = "none"}
<1>3. CASE U = {}
  BY <1>2, <1>3 DEF CanGoOn, CanAnswer
<1>4. CASE U # {}
  <2>1. U \subseteq Nat
    BY <1>1
  <2>2. PICK i \in U : \A j \in U : ~(j < i)
    <3> HIDE DEF U
    <3> QED BY <1>4, <2>1, LeastNat
  <2>3. ASSUME NEW j \in 1..(i - 1) PROVE answer[Children(n)[j]] = Opposite(Deciding(n))
    <3>1. j \in Asked(n)
      <4>1. j \in DOMAIN Children(n)
        BY <2>2, <2>3, AskedKid DEF ItemTyped
      <4> QED BY <4>1 DEF Asked
    <3>2. j < i
      BY <1>1, <2>2, <2>3
    <3> QED BY <1>2, <2>2, <3>1, <3>2
  <2> QED BY <2>2, <2>3 DEF CanGoOn, CanAsk, IsCombinator
<1> QED BY <1>3, <1>4

\* ... and so the call in progress that made none that is, can go on.
LEMMA InnermostGoesOn ==
  ASSUME ItemTyped, NestInv, NEW n \in Nodes, Open(n),
         \A i \in Asked(n) : ~Open(Children(n)[i])
  PROVE  CanGoOn(n)
<1>1. Kind(n) \in Kinds /\ Kind(n) # "opaque"
  BY ItemsAssumption DEF Kind, ItemTyped, NestInv, NoneOpaque, Open
<1>2. CASE Kind(n) \in {"test", "flag", "unknown"}
  BY <1>2 DEF CanGoOn, CanAnswer
<1>3. CASE Kind(n) = "not"
  <2>1. CASE Asked(n) = {}
    BY <1>3, <2>1 DEF CanGoOn, CanAnswer
  <2>2. CASE Asked(n) # {}
    <3>1. 1 \in Asked(n) /\ Children(n)[1] \in Nodes
      <4>1. 1 \in Asked(n)
        BY <1>3, <2>2 DEF Asked
      <4> QED BY <4>1, AskedKid DEF ItemTyped
    <3>2. CASE mode[Children(n)[1]] = "none"
      BY <1>3, <3>1, <3>2 DEF CanGoOn, CanAsk, IsCombinator
    <3>3. CASE mode[Children(n)[1]] # "none"
      BY <1>3, <3>1, <3>3 DEF CanGoOn, CanAnswer, Open
    <3> QED BY <3>2, <3>3
  <2> QED BY <2>1, <2>2
<1>4. CASE Kind(n) \in {"all", "any"}
  BY <1>4, ListGoesOn
<1> QED BY <1>1, <1>2, <1>3, <1>4 DEF Kinds

\* While a call is in progress, one of them is the innermost.
LEMMA SomeInnermost ==
  ASSUME ItemTyped, NEW n \in Nodes, Open(n)
  PROVE  \E m \in Nodes : Open(m) /\ \A i \in Asked(m) : ~Open(Children(m)[i])
<1> DEFINE S == {m \in Nodes : Open(m)}
<1>1. PICK m \in S : \A k \in Kids(m) : k \notin S
  BY Deepest DEF ItemTyped
<1> QED BY <1>1, AskedKid DEF ItemTyped

-----------------------------------------------------------------------------
(* The theorems *)

LEMMA InitInv == Init => IInv
<1> SUFFICES ASSUME Init PROVE IInv
  OBVIOUS
<1>1. item.attrs \in Seq(Attrs)
  BY ItemsAssumption DEF Init
<1>2. TypeOK /\ ItemTyped
  BY <1>1 DEF Init, TypeOK, ItemTyped
<1>3. AskedRight
  <2>1. item.kids \in [Nodes -> Seq(Nodes)]
    BY ItemsAssumption DEF Init
  <2>2. \A n \in Nodes : \A i \in DOMAIN item.kids[n] : item.kids[n][i] \in Nodes
    BY <2>1
  <2> QED BY <1>2, <2>2, AttrTyped DEF Init, AskedRight
<1>4. NoIsRight
  BY DEF Init, NoIsRight
<1> QED BY <1>2, <1>3, <1>4 DEF Init, IInv, SkippedIsTestOnly

LEMMA SkippedStep ==
  ASSUME ItemTyped, AskedRight, NoIsRight, SkippedIsTestOnly, [Next]_vars
  PROVE  SkippedIsTestOnly'
<1>1. item' = item
  BY DEF Next, MarkerAttr, OtherAttr, CallPredicate, CfgAttr, NotTestOnly, Evaluate,
     AnswerLeaf, AnswerNot, AnswerDecided, AnswerUndecided, AskChild, Return, Settle,
     NextAttr, Done, vars
<1>2. /\ NothingOpaque' = NothingOpaque
      /\ \A v : BuildWithoutTest(v)' = BuildWithoutTest(v) /\ CompiledIn(v)' = CompiledIn(v)
  BY <1>1, SameItem
<1>3. CASE verdict' = verdict
  BY <1>2, <1>3 DEF SkippedIsTestOnly
<1>4. CASE verdict' # verdict /\ verdict' = "test-only"
  <2>1. MarkerAttr \/ (CfgAttr /\ answer[Root] = "no")
    BY <1>4 DEF Next, MarkerAttr, OtherAttr, CallPredicate, CfgAttr, NotTestOnly, Evaluate,
       AnswerLeaf, AnswerNot, AnswerDecided, AnswerUndecided, AskChild, Return, Settle,
       NextAttr, Done, vars
  <2>2. CASE MarkerAttr
    BY <1>2, <2>2 DEF MarkerAttr, Looking, CompiledIn, SkippedIsTestOnly
  <2>3. CASE CfgAttr /\ answer[Root] = "no"
    <3>1. at \in DOMAIN item.attrs /\ item.attrs[at].form = "cfg"
      BY <2>3 DEF CfgAttr, Looking
    <3>2. Root \in Nodes /\ mode[Root] = "true"
      BY <2>3, <3>1, AttrTyped DEF Root, AskedRight, ItemTyped, TypeOK
    <3>3. ASSUME NothingOpaque, NEW v \in [Nodes -> BOOLEAN], BuildWithoutTest(v)
          PROVE  ~CompiledIn(v)
      BY <2>3, <3>1, <3>2, <3>3 DEF NoIsRight, CompiledIn, Root
    <3> QED BY <1>2, <3>3 DEF SkippedIsTestOnly
  <2> QED BY <2>1, <2>2, <2>3
<1> QED BY <1>3, <1>4 DEF SkippedIsTestOnly

\* IInv is an invariant of the evaluation.
THEOREM Inductive == Spec => []IInv
<1>1. IInv /\ [Next]_vars => IInv'
  BY TypeStep, AskedStep, NoStep, SkippedStep DEF IInv, ItemTyped
<1> QED BY <1>1, InitInv, PTL DEF Spec

\* The evaluation stays within its types, and no call answers unasked.
THEOREM TypeCorrect == Spec => []TypeOK
<1>1. IInv => TypeOK
  BY DEF IInv
<1> QED BY <1>1, Inductive, PTL

\* Whatever is skipped as test-only is compiled by no build without test, for
\* predicates of any depth and items with any number of attributes.
THEOREM SkippedOnlyTests == Spec => []SkippedIsTestOnly
<1>1. IInv => SkippedIsTestOnly
  BY DEF IInv
<1> QED BY <1>1, Inductive, PTL

\* KeptInv is an invariant of the evaluation: a "yes" is grounded in the leaves.
THEOREM KeptInductive == Spec => []KeptInv
<1>1. Init => KeptInv
  <2> SUFFICES ASSUME Init PROVE KeptInv
    OBVIOUS
  <2> QED BY DEF Init, KeptInv, YesIsGrounded, PassedLet
<1>2. IInv /\ KeptInv /\ [Next]_vars => KeptInv'
  BY YesStep, PassedStep DEF IInv, KeptInv, ItemTyped
<1> QED BY <1>1, <1>2, Inductive, PTL DEF Spec

\* Whatever is kept for the audit is compiled by some build without test, for
\* predicates of any depth, as long as no flag is named twice.
THEOREM KeptIsProduction == Spec => []KeptIsCompiled
<1> QED BY KeptFromInv, Inductive, KeptInductive, PTL

\* NestInv is an invariant of the evaluation: what SomeCallGoesOn rests on.
THEOREM NestInductive == Spec => []NestInv
<1>1. Init => NestInv
  <2> SUFFICES ASSUME Init PROVE NestInv
    OBVIOUS
  <2>1. \A n \in Nodes : mode[n] = "none" /\ ~Open(n)
    BY DEF Init, Open
  <2>2. \A n \in Nodes : \A i \in Asked(n) : mode[Children(n)[i]] = "none"
    BY <2>1, AskedKid DEF Init
  <2> QED BY <2>1, <2>2 DEF NestInv, CallsNest, BelowRoot, NoneOpaque
<1>2. IInv /\ NestInv /\ [Next]_vars => NestInv'
  BY NestStep DEF IInv, ItemTyped
<1> QED BY <1>1, <1>2, Inductive, PTL DEF Spec

\* While a predicate is being evaluated, some call can go on: the evaluation
\* never waits for an answer nobody gives, however deep the predicate.
THEOREM SomeCallGoesOn == Spec => []((\E n \in Nodes : Open(n)) => \E n \in Nodes : CanGoOn(n))
<1>1. IInv /\ NestInv => ((\E n \in Nodes : Open(n)) => \E n \in Nodes : CanGoOn(n))
  BY SomeInnermost, InnermostGoesOn DEF IInv, ItemTyped
<1> QED BY <1>1, Inductive, NestInductive, PTL

=============================================================================
