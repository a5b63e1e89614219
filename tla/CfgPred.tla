------------------------------ MODULE CfgPred ------------------------------
(***************************************************************************)
(* cfg_pred.rs: is an item test-only?  Its attributes are looked at in     *)
(* order; for a #[cfg(...)] the predicate is evaluated by two functions    *)
(* that call each other down the predicate's tree, left to right, stopping *)
(* at the first child that decides: can it be true without test, can it be *)
(* false.  Every node is called at most once, in one mode, so the calls in *)
(* progress and their results are functions of the node.                   *)
(*                                                                         *)
(* An item is [kind, atom, kids, attrs]: for every node its kind           *)
(*   test       the built-in flag                                          *)
(*   flag       any other flag or name = "value", whose name is atom[n]    *)
(*   not, all, any     a combinator over the nodes kids[n]                 *)
(*   unknown    a list with another head, such as target(...)              *)
(*   opaque     tokens syn does not parse as a predicate                   *)
(* and the sequence of its attributes, [form, root]: form is "cfg" (with   *)
(* the predicate's root), "marker" (#[test] and the like) or "other".      *)
(***************************************************************************)
EXTENDS Integers, Sequences

CONSTANTS
    Nodes,  \* the nodes predicates are made of
    Items   \* the items to choose from

Kinds == {"test", "flag", "not", "all", "any", "unknown", "opaque"}
Attrs == [form : {"cfg", "marker", "other"}, root : Nodes]

\* Predicates are trees: a node is the child of one node at one place, an
\* attribute's predicate is no node's child, and going down ends at a leaf (in
\* any set of nodes there is one with no child in the set).
ASSUME ItemsAssumption ==
    \A it \in Items :
        /\ it.kind \in [Nodes -> Kinds]
        /\ it.kids \in [Nodes -> Seq(Nodes)]
        /\ it.attrs \in Seq(Attrs)
        /\ \A m, n \in Nodes :
              \A i \in DOMAIN it.kids[m], j \in DOMAIN it.kids[n] :
                  it.kids[m][i] = it.kids[n][j] => m = n /\ i = j
        /\ \A a \in DOMAIN it.attrs, n \in Nodes :
              \A i \in DOMAIN it.kids[n] : it.kids[n][i] # it.attrs[a].root
        /\ \A S \in SUBSET Nodes : S # {} =>
              \E n \in S : \A i \in DOMAIN it.kids[n] : it.kids[n][i] \notin S

VARIABLES
    item,       \* the item; nothing changes it
    at,         \* the attribute is_test_attr is looking at
    mode,       \* node -> how it was called: "none", "true" or "false"
    answer,     \* node -> what the call returned: "open", "yes" or "no"
    verdict     \* "open", "test-only" or "production"

vars == <<item, at, mode, answer, verdict>>

Kind(n) == item.kind[n]
IsCombinator(n) == Kind(n) \in {"not", "all", "any"}

\* children: one child syn cannot parse and the whole list counts as empty;
\* not looks at its first child only.
Children(n) ==
    IF \E i \in DOMAIN item.kids[n] : Kind(item.kids[n][i]) = "opaque" THEN <<>>
    ELSE item.kids[n]
Asked(n) == {i \in DOMAIN Children(n) : Kind(n) = "not" => i = 1}

\* Seeded fault: not asks its child the same question.
ChildModeUnflipped(n) == mode[n]

\* not asks its child the opposite question.
Flip(m) == IF m = "true" THEN "false" ELSE "true"
ChildMode(n) == IF Kind(n) = "not" THEN Flip(mode[n]) ELSE mode[n]

\* The answer of a child that settles the matter, and the answer when none did.
\* all is true iff every child is, any iff some is; for "can be false" dually.
Deciding(n) == IF (Kind(n) = "all") = (mode[n] = "true") THEN "no" ELSE "yes"
Opposite(a) == IF a = "yes" THEN "no" ELSE "yes"

Open(n) == mode[n] # "none" /\ answer[n] = "open"
Return(n, a) == answer' = [answer EXCEPT ![n] = a] /\ UNCHANGED <<item, at, mode, verdict>>

Init ==
    /\ item \in Items
    /\ at = 1
    /\ mode = [n \in Nodes |-> "none"]
    /\ answer = [n \in Nodes |-> "open"]
    /\ verdict = "open"

-----------------------------------------------------------------------------
(* can_be_true_without_test, can_be_false_without_test *)

\* Seeded fault: test is a flag like any other.
AnswerLeafTestFree(n) ==
    /\ Open(n) /\ Kind(n) \in {"test", "flag", "unknown"}
    /\ Return(n, "yes")

\* Seeded fault: a leaf is answered before anyone asks.
AnswerLeafUnasked(n) ==
    /\ answer[n] = "open" /\ Kind(n) \in {"test", "flag", "unknown"}
    /\ Return(n, IF Kind(n) = "test" /\ mode[n] = "true" THEN "no" ELSE "yes")

\* A flag can be either, an unknown form is not claimed to be anything; test
\* is pinned false.
AnswerLeaf(n) ==
    /\ Open(n) /\ Kind(n) \in {"test", "flag", "unknown"}
    /\ Return(n, IF Kind(n) = "test" /\ mode[n] = "true" THEN "no" ELSE "yes")

\* Ask the next child, the ones before it having decided nothing.
AskChild(n, i) ==
    /\ Open(n) /\ IsCombinator(n)
    /\ i \in Asked(n) /\ mode[Children(n)[i]] = "none"
    /\ \A j \in 1..(i - 1) : answer[Children(n)[j]] = Opposite(Deciding(n))
    /\ mode' = [mode EXCEPT ![Children(n)[i]] = ChildMode(n)]
    /\ UNCHANGED <<item, at, answer, verdict>>

\* not answers what its child did, or yes if it has none.
AnswerNot(n) ==
    /\ Open(n) /\ Kind(n) = "not"
    /\ IF Asked(n) = {} THEN Return(n, "yes")
       ELSE answer[Children(n)[1]] # "open" /\ Return(n, answer[Children(n)[1]])

AnswerDecided(n) ==
    /\ Open(n) /\ Kind(n) \in {"all", "any"}
    /\ \E i \in Asked(n) : answer[Children(n)[i]] = Deciding(n)
    /\ Return(n, Deciding(n))

AnswerUndecided(n) ==
    /\ Open(n) /\ Kind(n) \in {"all", "any"}
    /\ \A i \in Asked(n) : answer[Children(n)[i]] = Opposite(Deciding(n))
    /\ Return(n, Opposite(Deciding(n)))

-----------------------------------------------------------------------------
(* is_test_only, is_test_attr *)

Looking(form) == verdict = "open" /\ at \in DOMAIN item.attrs /\ item.attrs[at].form = form
Root == item.attrs[at].root

Settle(v) == verdict' = v /\ UNCHANGED <<item, at, mode, answer>>
NextAttr == at' = at + 1 /\ UNCHANGED <<item, mode, answer, verdict>>

\* #[test], #[tokio::test]: the last segment of the path is `test`.
MarkerAttr == Looking("marker") /\ Settle("test-only")

\* Any other attribute, and a predicate that does not parse, says nothing.
OtherAttr ==
    /\ Looking("other") \/ (Looking("cfg") /\ Kind(Root) = "opaque")
    /\ NextAttr

CallPredicate ==
    /\ Looking("cfg") /\ Kind(Root) # "opaque" /\ mode[Root] = "none"
    /\ mode' = [mode EXCEPT ![Root] = "true"]
    /\ UNCHANGED <<item, at, answer, verdict>>

\* Seeded fault: the first predicate that can hold is looked at for ever.
CfgAttrStuck ==
    /\ Looking("cfg")
    /\ \/ answer[Root] = "no" /\ Settle("test-only")
       \/ answer[Root] = "yes" /\ UNCHANGED vars

CfgAttr ==
    /\ Looking("cfg")
    /\ \/ answer[Root] = "no" /\ Settle("test-only")
       \/ answer[Root] = "yes" /\ NextAttr

\* No attribute said so.
NotTestOnly ==
    /\ verdict = "open" /\ at \notin DOMAIN item.attrs
    /\ Settle("production")

Done == verdict # "open" /\ UNCHANGED vars

Evaluate ==
    \E n \in Nodes :
        \/ AnswerLeaf(n) \/ AnswerNot(n) \/ AnswerDecided(n) \/ AnswerUndecided(n)
        \/ \E i \in Asked(n) : AskChild(n, i)

Next ==
    \/ MarkerAttr \/ OtherAttr \/ CallPredicate \/ CfgAttr \/ NotTestOnly
    \/ Evaluate
    \/ Done

Spec == Init /\ [][Next]_vars
FairSpec == Spec /\ WF_vars(Next)

-----------------------------------------------------------------------------
(* The reference: what rustc means by a predicate. A build is a truth value *)
(* for every node; a build without test is one where no test node holds.    *)

Kids(n) == {item.kids[n][i] : i \in DOMAIN item.kids[n]}

Meaning(v, n) ==
    /\ Kind(n) = "test" => ~v[n]
    /\ Kind(n) = "all" => (v[n] <=> \A k \in Kids(n) : v[k])
    /\ Kind(n) = "any" => (v[n] <=> \E k \in Kids(n) : v[k])
    /\ Kind(n) = "not" => \E k \in Kids(n) : Kids(n) = {k} /\ (v[n] <=> ~v[k])

\* Nodes that name the same atom agree.
BuildWithoutTest(v) ==
    /\ \A n \in Nodes : Meaning(v, n)
    /\ \A m, n \in Nodes :
          Kind(m) = "flag" /\ Kind(n) = "flag" /\ item.atom[m] = item.atom[n] => v[m] = v[n]

CompiledIn(v) ==
    \A i \in DOMAIN item.attrs :
        /\ item.attrs[i].form # "marker"
        /\ item.attrs[i].form = "cfg" => v[item.attrs[i].root]

NothingOpaque == \A n \in Nodes : Kind(n) # "opaque"
\* rustc accepts no other not.
NotHasOneChild == \A n \in Nodes : Kind(n) = "not" => Len(item.kids[n]) = 1
NoAtomTwice ==
    \A m, n \in Nodes : Kind(m) = "flag" /\ Kind(n) = "flag" /\ m # n => item.atom[m] # item.atom[n]

-----------------------------------------------------------------------------
(* Properties *)

\* A call has a mode before it has an answer, and at stays within one past the
\* last attribute.
TypeOK ==
    /\ at \in 1..(Len(item.attrs) + 1)
    /\ mode \in [Nodes -> {"none", "true", "false"}]
    /\ answer \in [Nodes -> {"open", "yes", "no"}]
    /\ verdict \in {"open", "test-only", "production"}
    /\ \A n \in Nodes : mode[n] = "none" => answer[n] = "open"

\* An item skipped as test-only is in no build without test: no production
\* code is ever dropped from the audit (cfg_pred.rs:10-14).
SkippedIsTestOnly ==
    verdict = "test-only" /\ NothingOpaque =>
        ~ \E v \in [Nodes -> BOOLEAN] : BuildWithoutTest(v) /\ CompiledIn(v)

\* An item that is kept is in some build without test, as long as no flag is
\* named twice: independent flags make the two questions exact.
KeptIsCompiled ==
    verdict = "production" /\ NothingOpaque /\ NotHasOneChild /\ NoAtomTwice =>
        \E v \in [Nodes -> BOOLEAN] : BuildWithoutTest(v) /\ CompiledIn(v)

\* Every predicate is decided: evaluation never waits for an answer nobody gives.
Decides == <>(verdict # "open")

-----------------------------------------------------------------------------
(* What the documentation says of every predicate, and the code does not do   *)

\* "If the predicate can still be true, the item appears in some non-test build
\* and must be audited" (cfg_pred.rs:13-14), also where a list has a child that
\* syn cannot parse and rustc can, whatever that child means.
SkippedIsNeverBuilt ==
    verdict = "test-only" =>
        ~ \E v \in [Nodes -> BOOLEAN] : BuildWithoutTest(v) /\ CompiledIn(v)

-----------------------------------------------------------------------------
(* The inductive invariants. A child is asked what ChildMode says, and a "no" *)
(* is true of every build without test ...                                    *)

AskedRight ==
    /\ \A n \in Nodes : \A i \in DOMAIN item.kids[n] :
          mode[item.kids[n][i]] # "none" =>
              mode[n] # "none" /\ mode[item.kids[n][i]] = ChildMode(n)
    /\ \A a \in DOMAIN item.attrs : mode[item.attrs[a].root] \in {"none", "true"}

NoIsRight ==
    NothingOpaque =>
        \A v \in [Nodes -> BOOLEAN] : BuildWithoutTest(v) =>
            \A n \in Nodes : answer[n] = "no" => (v[n] <=> mode[n] = "false")

IInv == TypeOK /\ item \in Items /\ AskedRight /\ NoIsRight /\ SkippedIsTestOnly

\* What makes evaluation go on: a call in progress was made for the attribute
\* looked at or by a call in progress, and a child was asked after all to its left
\* were undecided; every call is below the attribute's predicate, and none is of a
\* node that does not parse.
CallsNest ==
  \A n \in Nodes :
    /\ Open(n) => /\ Looking("cfg")
                  /\ \/ n = Root
                     \/ \E m \in Nodes : /\ Open(m) /\ IsCombinator(m)
                                         /\ \E i \in Asked(m) : n = Children(m)[i]
    /\ \A i \in Asked(n) : mode[Children(n)[i]] # "none" =>
          \A j \in 1..(i - 1) : answer[Children(n)[j]] = Opposite(Deciding(n))

BelowRoot ==
    \A n \in Nodes : Open(n) =>
        \A S \in SUBSET Nodes :
            Root \in S /\ (\A m \in S : Kids(m) \subseteq S) => n \in S

NoneOpaque == \A n \in Nodes : mode[n] # "none" => Kind(n) # "opaque"

NestInv == CallsNest /\ BelowRoot /\ NoneOpaque

\* ... while a "yes" rests on leaves that may be as they were asked to be, and
\* on the children it takes; and the attributes passed over let the item be.
YesRests(n) ==
    /\ Kind(n) \in {"test", "flag", "unknown", "not", "all", "any"}
    /\ Kind(n) = "test" => mode[n] = "false"
    /\ Kind(n) = "not" => \A i \in Asked(n) : answer[Children(n)[i]] = "yes"
    /\ Kind(n) \in {"all", "any"} =>
          IF Deciding(n) = "yes" THEN \E i \in Asked(n) : answer[Children(n)[i]] = "yes"
          ELSE \A i \in Asked(n) : answer[Children(n)[i]] = "yes"

YesIsGrounded == \A n \in Nodes : answer[n] = "yes" => YesRests(n)

PassedLet ==
    /\ \A a \in 1..(at - 1) :
          /\ item.attrs[a].form # "marker"
          /\ item.attrs[a].form = "cfg" =>
                Kind(item.attrs[a].root) = "opaque" \/ answer[item.attrs[a].root] = "yes"
    /\ verdict = "production" => at = Len(item.attrs) + 1

KeptInv == YesIsGrounded /\ PassedLet

=============================================================================
