----------------------------- MODULE MCCfgPred -----------------------------
(* Items for CfgPred: one predicate of three levels, root 1 over 2 and 3,  *)
(* 2 over 4 and 5, 3 over 6; and items with two attributes.                *)
EXTENDS CfgPred

MCNodes == 1..6
Below == <<<<2, 3>>, <<4, 5>>, <<6>>, <<>>, <<>>, <<>>>>

Leaves == {"test", "flag", "unknown"}
Combinators == {"not", "all", "any"}

\* A leaf has no children, not has one; an empty all or any has none either.
KidsOf(kind, n) ==
    CASE kind[n] \in {"all", "any"} -> Below[n]
      [] kind[n] = "not" -> SubSeq(Below[n], 1, 1)
      [] OTHER -> <<>>
KidsFor(kind) == <<KidsOf(kind, 1), KidsOf(kind, 2), KidsOf(kind, 3), <<>>, <<>>, <<>>>>

KindsOver(leaves, roots, inner) ==
    {<<a, b, c, d, e, f>> : a \in roots, b \in inner, c \in inner,
                            d \in leaves, e \in leaves, f \in leaves}

\* Node n names atom n, or all flags name the same one.
Distinct == <<1, 2, 3, 4, 5, 6>>
Same == <<1, 1, 1, 1, 1, 1>>

Cfg(root) == [form |-> "cfg", root |-> root]
Marker == [form |-> "marker", root |-> 1]
Other == [form |-> "other", root |-> 1]

Item(kind, atom, attrs) ==
    [kind |-> kind, atom |-> atom, kids |-> KidsFor(kind), attrs |-> attrs]

OneCfg ==
    {Item(k, a, <<Cfg(1)>>)
        : k \in KindsOver(Leaves, Combinators, Combinators \cup {"test", "flag"}),
          a \in {Distinct, Same}}

\* Two attributes: predicates 2 and 3, or one of them and another kind.
TwoAttributes ==
    {Item(k, a, s)
        : k \in KindsOver({"test", "flag"}, {"flag"}, Combinators \cup Leaves),
          a \in {Distinct, Same},
          s \in {<<Cfg(2), Cfg(3)>>, <<Other, Cfg(2)>>, <<Cfg(3), Marker>>, <<>>}}

\* The same predicates with leaves syn does not parse.
OpaqueItems ==
    {Item(k, Distinct, <<Cfg(1)>>)
        : k \in KindsOver({"opaque"}, Combinators, Leaves \cup {"opaque"})}

MCItems == OneCfg \cup TwoAttributes \cup OpaqueItems

=============================================================================
