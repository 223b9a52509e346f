---------------------------- MODULE MCNftAnalysis ----------------------------
(***************************************************************************)
(* Small rulesets: every way a table of four chains can jump between them    *)
(* and drop, loops and too deep nestings included, and the kinds of tables   *)
(* and base chains around them.                                             *)
(***************************************************************************)
EXTENDS NftAnalysis

MCName == 1..4
MCFamily == {"inet", "bridge"}
MCTable == {"filter", "old"}
MCMapName == {"m"}

D(depth) == [kind |-> "drop", depth |-> depth]
J(name) == [kind |-> "jump", depth |-> 1, target |-> name]
V(name) == [kind |-> "jump", depth |-> 2, target |-> name]
M == [kind |-> "mapref", depth |-> 1, map |-> "m"]

Key(f, t, n) == [family |-> f, table |-> t, name |-> n]
T(f, t, off) == [kind |-> "table", family |-> f, table |-> t, dormant |-> off]
Base(k, policy) == [kind |-> "chain", key |-> k, type |-> "filter",
                    hook |-> "input", policy |-> policy]
Nat_(k) == [Base(k, "other") EXCEPT !.type = "other"]
Plain(k) == [Base(k, "other") EXCEPT !.type = "other", !.hook = "other"]
MapOf(elems) == [kind |-> "map", family |-> "inet", table |-> "filter",
                 name |-> "m", elems |-> elems]
Bad == <<[kind |-> "malformed"]>>

(* The rules of chain k, one object each.                                   *)
R(k, exprs) ==
  [i \in 1..Len(exprs) |-> [kind |-> "rule", key |-> k, expr |-> exprs[i]]]

(* A table in which chain n has rules r[n] and the chains in `bases` see     *)
(* the input hook.                                                          *)
TableOf(f, t, bases, r) ==
  LET C(n) == IF n \in bases THEN Base(Key(f, t, n), "other")
              ELSE Plain(Key(f, t, n))
  IN  <<T(f, t, FALSE)>> \o [n \in MCName |-> C(n)] \o R(Key(f, t, 1), r[1])
        \o R(Key(f, t, 2), r[2]) \o R(Key(f, t, 3), r[3]) \o R(Key(f, t, 4), r[4])

(* The rules a chain may have.                                              *)
RulesOf ==
  { <<>>, <<{J(2)}>>, <<{V(2), V(3)}>>, <<{J(3)}, {J(4)}>>, <<{D(1)}>>,
    <<{J(4)}, {D(2)}>>, <<{D(3)}, {J(1)}>> }

Graphs ==
  { <<a, b, c, d>> : a \in RulesOf, b \in RulesOf, c \in RulesOf,
                     d \in {<<>>, <<{D(1), J(2)}>>, <<{J(2)}>>} }

GraphDocuments ==
  { TableOf("inet", "filter", {1}, g) : g \in Graphs }
    \cup { TableOf("inet", "filter", {2, 3}, g) :
           g \in {g \in Graphs : g[1] = <<>>} }

Dropping == R(Key("inet", "filter", 1), <<{D(1)}>>)
InetBase == Base(Key("inet", "filter", 1), "other")

OtherDocuments ==
  { Bad, <<>>,
    <<T("inet", "filter", TRUE), InetBase>> \o Dropping,
    <<T("inet", "old", TRUE), T("inet", "filter", FALSE), InetBase>> \o Dropping,
    <<T("inet", "filter", FALSE), Base(Key("inet", "filter", 1), "drop")>>,
    <<T("inet", "filter", FALSE), Nat_(Key("inet", "filter", 1))>> \o Dropping,
    <<T("bridge", "filter", FALSE), Base(Key("bridge", "filter", 1), "drop")>>,
    <<T("inet", "filter", FALSE), InetBase, MapOf({D(2)})>>
      \o R(Key("inet", "filter", 1), <<{M}>>),
    <<T("inet", "filter", FALSE), InetBase>> \o Dropping \o Bad }

(* Maps that are named where packets get to and where they do not, and one   *)
(* through which they get to a chain that drops.                            *)
MapDocuments ==
  { <<MapOf(elems)>> \o TableOf("inet", "filter", {1}, g) :
    elems \in {{}, {D(2)}, {V(3)}},
    g \in { <<<<{M}>>, <<>>, <<{D(1)}>>, <<>>>>,
            <<<<{J(2)}>>, <<{M}>>, <<{J(4)}>>, <<{D(1)}>>>>,
            <<<<{J(2)}>>, <<{D(1)}>>, <<>>, <<{M}>>>>,
            <<<<{J(2)}, {M}>>, <<{J(4)}>>, <<>>, <<{D(1)}>>>> } }

MCDocuments == GraphDocuments \cup OtherDocuments \cup MapDocuments
-----------------------------------------------------------------------------
(* "Verdict maps and sets are covered by the generic walk": a chain that      *)
(* filters by a verdict map its rules refer to by name is found as well.    *)
MapsAreCovered ==
  pc = "done" /\ FromKernel(document) =>
    \A k \in ChainKey :
      FiltersAtAll(document, k) => \E i \in 1..Len(filtering) : filtering[i] = k
=============================================================================
