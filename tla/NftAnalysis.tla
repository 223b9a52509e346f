----------------------------- MODULE NftAnalysis -----------------------------
(***************************************************************************)
(* How the auditor decides from `nft -j list ruleset` whether inbound       *)
(* traffic is filtered (src/internal/collector/firewall/nftables.go):       *)
(* AnalyzeRuleset reads the objects of the document, then searches every    *)
(* active input chain with reachesDrop, a depth-first search with a set of  *)
(* visited chains and a bound on its depth.  The recursion is written out   *)
(* as a stack of frames.                                                    *)
(*                                                                         *)
(* An expression is the set of the verdicts scanExpr can meet in it, each   *)
(* at the depth of the JSON object that holds it; "drop" stands for drop    *)
(* and reject, "jump" for jump and goto.  Chains of a table are numbered in *)
(* the lexical order of their names.                                        *)
(*                                                                         *)
(* `entered` is a history variable: no action reads it.                     *)
(***************************************************************************)
EXTENDS Integers, Sequences

CONSTANTS
  Family, Table,
  Name,          \* names of chains, as their places in the lexical order
  MapName,       \* names of verdict maps
  Documents,     \* what nft may print
  MaxExprDepth

ChainKey == [family : Family, table : Table, name : Name]

(* A "mapref" refers to a verdict map that has a name.                      *)
Item == [kind : {"drop"}, depth : Nat]
          \cup [kind : {"jump"}, depth : Nat, target : Name]
          \cup [kind : {"mapref"}, depth : Nat, map : MapName]

Chain == [kind : {"chain"}, key : ChainKey, type : {"filter", "other"},
          hook : {"input", "other"}, policy : {"drop", "other"}]

(* The objects of the document.  One that is no nft JSON at all is the      *)
(* document <<[kind |-> "malformed"]>>.                                     *)
Object == [kind : {"table"}, family : Family, table : Table, dormant : BOOLEAN]
            \cup Chain
            \cup [kind : {"rule"}, key : ChainKey, expr : SUBSET Item]
            \cup [kind : {"map"}, family : Family, table : Table,
                  name : MapName, elems : SUBSET Item]
            \cup [kind : {"malformed"}]

Nowhere == [kind |-> "no chain"]

ASSUME NameAssumption == Name \subseteq Nat
ASSUME DepthAssumption == MaxExprDepth \in Nat
(* The kernel has one chain of a name in a table, and nft lists it once.    *)
ASSUME DocumentsAssumption ==
  /\ Documents \subseteq Seq(Object)
  /\ \A d \in Documents : \A i, j \in 1..Len(d) :
       d[i].kind = "chain" /\ d[j].kind = "chain" /\ d[i].key = d[j].key
         => i = j

VARIABLES
  document,
  pc,            \* "read", "chains", "search", "done" or "error"
  at,            \* the object, then the place in chainOrder, to look at
  dormant, chains, chainOrder, rules,     \* what has been read
  visited,       \* the chains this search has entered
  stack,         \* the active calls of reachesDrop, the outermost first
  entered,       \* every chain this search has entered, the first first
  inputChains, filtering                  \* the RulesetAnalysis

reading == <<dormant, chains, chainOrder, rules>>
search == <<visited, stack, entered>>
result == <<inputChains, filtering>>
vars == <<document, pc, at, reading, search, result>>
-----------------------------------------------------------------------------
(* One call of reachesDrop: its chain, the rule it looks at next and the     *)
(* targets of the rule before that it has not followed yet.                 *)
Frame == [chain : ChainKey, rule : Nat \ {0}, targets : SUBSET Name]
NewFrame(k) == [chain |-> k, rule |-> 1, targets |-> {}]

Top == stack[Len(stack)]
Callers == SubSeq(stack, 1, Len(stack) - 1)
In(k, name) == [family |-> k.family, table |-> k.table, name |-> name]

(* scanExpr.                                                                *)
Met(expr, kind) == {i \in expr : i.kind = kind /\ i.depth <= MaxExprDepth}
Verdict(expr) == Met(expr, "drop") # {}
Targets(expr) == {i.target : i \in Met(expr, "jump")}

Init ==
  /\ document \in Documents
  /\ pc = "read" /\ at = 1
  /\ dormant = {}
  /\ chains = [k \in ChainKey |-> Nowhere]
  /\ chainOrder = <<>>
  /\ rules = [k \in ChainKey |-> <<>>]
  /\ visited = {} /\ stack = <<>> /\ entered = <<>>
  /\ inputChains = 0 /\ filtering = <<>>

AtObject(kind) ==
  pc = "read" /\ at <= Len(document) /\ document[at].kind = kind

ReadTable ==
  /\ AtObject("table")
  /\ dormant' = IF document[at].dormant
                THEN dormant \cup {<<document[at].family, document[at].table>>}
                ELSE dormant
  /\ at' = at + 1
  /\ UNCHANGED <<document, pc, chains, chainOrder, rules, search, result>>

ReadChain ==
  /\ AtObject("chain")
  /\ LET k == document[at].key
     IN  /\ chainOrder' = IF chains[k] = Nowhere THEN Append(chainOrder, k)
                          ELSE chainOrder
         /\ chains' = [chains EXCEPT ![k] = document[at]]
  /\ at' = at + 1
  /\ UNCHANGED <<document, pc, dormant, rules, search, result>>

ReadRule ==
  /\ AtObject("rule")
  /\ rules' = [rules EXCEPT ![document[at].key] = Append(@, document[at].expr)]
  /\ at' = at + 1
  /\ UNCHANGED <<document, pc, dormant, chains, chainOrder, search, result>>

(* Objects of every other kind are passed over.                             *)
ReadOther ==
  /\ AtObject("map")
  /\ at' = at + 1
  /\ UNCHANGED <<document, pc, reading, search, result>>

ReadFails ==
  /\ AtObject("malformed")
  /\ pc' = "error"
  /\ UNCHANGED <<document, at, reading, search, result>>

FinishRead ==
  /\ pc = "read" /\ at > Len(document)
  /\ pc' = "chains" /\ at' = 1
  /\ UNCHANGED <<document, reading, search, result>>

(* Mutant: tables that are switched off count.                              *)
ActiveThoughDormant(k) ==
  /\ chains[k].hook = "input" /\ chains[k].type = "filter"
  /\ k.family \in {"ip", "ip6", "inet"}

Active(k) ==
  /\ chains[k].hook = "input" /\ chains[k].type = "filter"
  /\ <<k.family, k.table>> \notin dormant
  /\ k.family \in {"ip", "ip6", "inet"}

AtChain(k) == pc = "chains" /\ at <= Len(chainOrder) /\ k = chainOrder[at]

Found(k) == filtering' = Append(filtering, k)

PassChain == \E k \in ChainKey :
  /\ AtChain(k) /\ ~Active(k)
  /\ at' = at + 1
  /\ UNCHANGED <<document, pc, reading, search, result>>

PolicyDrop == \E k \in ChainKey :
  /\ AtChain(k) /\ Active(k) /\ chains[k].policy = "drop"
  /\ inputChains' = inputChains + 1
  /\ Found(k)
  /\ at' = at + 1
  /\ UNCHANGED <<document, pc, reading, search>>

(* Mutant: one visited set serves the searches of all chains.               *)
StartSearchShared == \E k \in ChainKey :
  /\ AtChain(k) /\ Active(k) /\ chains[k].policy # "drop"
  /\ inputChains' = inputChains + 1
  /\ pc' = "search"
  /\ visited' = visited \cup {k}
  /\ stack' = <<NewFrame(k)>> /\ entered' = <<k>>
  /\ UNCHANGED <<document, at, reading, filtering>>

(* The first call of reachesDrop: nothing is visited and the depth is 0.    *)
StartSearch == \E k \in ChainKey :
  /\ AtChain(k) /\ Active(k) /\ chains[k].policy # "drop"
  /\ inputChains' = inputChains + 1
  /\ pc' = "search"
  /\ visited' = {k}
  /\ stack' = <<NewFrame(k)>> /\ entered' = <<k>>
  /\ UNCHANGED <<document, at, reading, filtering>>

Searching == pc = "search" /\ Top.targets = {}
AtRule == Searching /\ Top.rule <= Len(rules[Top.chain])
Expr == rules[Top.chain][Top.rule]

EndSearch ==
  /\ pc' = "chains" /\ at' = at + 1
  /\ stack' = <<>>
  /\ UNCHANGED <<visited, entered>>

(* A verdict ends every active call.                                        *)
VerdictRule ==
  /\ AtRule /\ Verdict(Expr)
  /\ Found(chainOrder[at])
  /\ EndSearch
  /\ UNCHANGED <<document, reading, inputChains>>

OtherRule ==
  /\ AtRule /\ ~Verdict(Expr)
  /\ stack' = Append(Callers, [chain |-> Top.chain, rule |-> Top.rule + 1,
                               targets |-> Targets(Expr)])
  /\ UNCHANGED <<document, pc, at, reading, visited, entered, result>>

(* The next target, in order.                                               *)
AtTarget(name) ==
  /\ pc = "search"
  /\ name \in Top.targets
  /\ \A other \in Top.targets : name <= other

(* Mutant: the target stays on the list.                                    *)
FollowedNever(name) == Top
Followed(name) == [Top EXCEPT !.targets = @ \ {name}]

Cut(k) == k \in visited \/ Len(stack) > MaxExprDepth

PassTarget == \E name \in Name :
  /\ AtTarget(name) /\ Cut(In(Top.chain, name))
  /\ stack' = Append(Callers, Followed(name))
  /\ UNCHANGED <<document, pc, at, reading, visited, entered, result>>

(* Mutant: a chain that is entered is not marked.                           *)
FollowTargetUnmarked == \E name \in Name :
  /\ AtTarget(name) /\ ~Cut(In(Top.chain, name))
  /\ entered' = Append(entered, In(Top.chain, name))
  /\ stack' = Append(Append(Callers, Followed(name)),
                     NewFrame(In(Top.chain, name)))
  /\ UNCHANGED <<document, pc, at, reading, visited, result>>

FollowTarget == \E name \in Name :
  /\ AtTarget(name) /\ ~Cut(In(Top.chain, name))
  /\ visited' = visited \cup {In(Top.chain, name)}
  /\ entered' = Append(entered, In(Top.chain, name))
  /\ stack' = Append(Append(Callers, Followed(name)),
                     NewFrame(In(Top.chain, name)))
  /\ UNCHANGED <<document, pc, at, reading, result>>

AtEnd == Searching /\ Top.rule > Len(rules[Top.chain])

(* Mutant: a chain is visited only while its call is active.                *)
ReturnFalseForgets ==
  /\ AtEnd /\ Len(stack) > 1
  /\ stack' = Callers
  /\ visited' = visited \ {Top.chain}
  /\ UNCHANGED <<document, pc, at, reading, entered, result>>

ReturnFalse ==
  /\ AtEnd /\ Len(stack) > 1
  /\ stack' = Callers
  /\ UNCHANGED <<document, pc, at, reading, visited, entered, result>>

NotFound ==
  /\ AtEnd /\ Len(stack) = 1
  /\ EndSearch
  /\ UNCHANGED <<document, reading, result>>

Finish ==
  /\ pc = "chains" /\ at > Len(chainOrder)
  /\ pc' = "done"
  /\ UNCHANGED <<document, at, reading, search, result>>

Step ==
  \/ ReadTable \/ ReadChain \/ ReadRule \/ ReadOther \/ ReadFails \/ FinishRead
  \/ PassChain \/ PolicyDrop \/ StartSearch
  \/ VerdictRule \/ OtherRule \/ PassTarget \/ FollowTarget
  \/ ReturnFalse \/ NotFound \/ Finish

Done == pc \in {"done", "error"} /\ UNCHANGED vars

Next == Step \/ Done

(* One thread computes on data in memory.                                   *)
Spec == Init /\ [][Next]_vars /\ WF_vars(Step)
-----------------------------------------------------------------------------
TypeOK ==
  /\ document \in Documents
  /\ pc \in {"read", "chains", "search", "done", "error"}
  /\ at \in Nat \ {0}
  /\ pc = "search" => at <= Len(chainOrder)
  /\ dormant \subseteq Family \X Table
  /\ chains \in [ChainKey -> Chain \cup {Nowhere}]
  /\ chainOrder \in Seq(ChainKey)
  /\ \A i \in 1..Len(chainOrder) : chains[chainOrder[i]] # Nowhere
  /\ rules \in [ChainKey -> Seq(SUBSET Item)]
  /\ visited \subseteq ChainKey
  /\ stack \in Seq(Frame)
  /\ pc = "search" <=> stack # <<>>
  /\ \A i \in 1..Len(stack) :
       /\ stack[i].chain \in visited
       /\ stack[i].rule <= Len(rules[stack[i].chain]) + 1
  /\ entered \in Seq(ChainKey)
  /\ inputChains \in Nat
  /\ filtering \in Seq(ChainKey)

(* The recursion of reachesDrop is bounded, in chains that jump in circles   *)
(* too, and a search enters no chain twice, after its call has returned no   *)
(* more than while it is active: a ruleset costs as much as it is long.     *)
SearchIsBounded ==
  /\ Len(stack) <= MaxExprDepth + 1
  /\ \A i, j \in 1..Len(entered) : entered[i] = entered[j] => i = j

(* What document d says, whatever the order of its objects.                 *)
RuleOf(d, i, k) == d[i].kind = "rule" /\ d[i].key = k
Exprs(d, k) == {d[i].expr : i \in {i \in 1..Len(d) : RuleOf(d, i, k)}}
Drops(d, k) == \E e \in Exprs(d, k) : \E i \in e : i.kind = "drop"
JumpsTo(d, k) ==
  {n \in Name :
     \E e \in Exprs(d, k) : \E i \in e : i.kind = "jump" /\ i.target = n}

InputBase(d, k) ==
  /\ k.family \in {"ip", "ip6", "inet"}
  /\ \E i \in 1..Len(d) :
       /\ d[i].kind = "chain" /\ d[i].key = k
       /\ d[i].hook = "input" /\ d[i].type = "filter"
  /\ ~ \E i \in 1..Len(d) :
         /\ d[i].kind = "table" /\ d[i].dormant
         /\ d[i].family = k.family /\ d[i].table = k.table

PolicyDrops(d, k) ==
  \E i \in 1..Len(d) :
    d[i].kind = "chain" /\ d[i].key = k /\ d[i].policy = "drop"

(* The chains of its table that packets of chain k can get to: those in      *)
(* every set that contains k and all targets of its own chains.             *)
Closed(d, k, S) == \A m \in S : JumpsTo(d, In(k, m)) \subseteq S
Reach(d, k) ==
  {n \in Name : \A S \in SUBSET Name : k.name \in S /\ Closed(d, k, S) => n \in S}

DropReachable(d, k) == \E n \in Reach(d, k) : Drops(d, In(k, n))
Filters(d, k) == InputBase(d, k) /\ (PolicyDrops(d, k) \/ DropReachable(d, k))

(* A chain reported as filtering is an active input chain of the document    *)
(* that drops by policy or can get to a drop: what makes FW-001 pass is      *)
(* there, however the chains jump.                                          *)
FilteringIsReal ==
  \A i \in 1..Len(filtering) : Filters(document, filtering[i])

(* The kernel accepts no loop of jumps and bounds their nesting, and the     *)
(* JSON of a rule is a few levels deep: both within MaxExprDepth.           *)
Descends(d, k, height) ==
  \A m \in Name : \A n \in JumpsTo(d, In(k, m)) : height[n] < height[m]
Nested(d) ==
  \A k \in ChainKey : \E height \in [Name -> 0..MaxExprDepth] :
    Descends(d, k, height)
Shallow(d) ==
  \A k \in ChainKey : \A e \in Exprs(d, k) : \A i \in e : i.depth <= MaxExprDepth
FromKernel(d) == Nested(d) /\ Shallow(d)

(* The verdict maps that have names count too in what the ruleset does: the  *)
(* verdicts of chain k are those of its rules and of the maps they name,     *)
(* which nft prints as objects of their own.                                *)
NamesMap(d, k) == \E e \in Exprs(d, k) : \E i \in e : i.kind = "mapref"
Mapped(d, k) ==
  UNION {d[i].elems : i \in
    {i \in 1..Len(d) :
       /\ d[i].kind = "map" /\ d[i].family = k.family /\ d[i].table = k.table
       /\ \E e \in Exprs(d, k) : \E r \in e :
            r.kind = "mapref" /\ r.map = d[i].name}}
DropsAtAll(d, k) ==
  Drops(d, k) \/ \E i \in Mapped(d, k) : i.kind = "drop"
JumpsAtAll(d, k) ==
  JumpsTo(d, k)
    \cup {n \in Name : \E i \in Mapped(d, k) : i.kind = "jump" /\ i.target = n}

ClosedAtAll(d, k, S) == \A m \in S : JumpsAtAll(d, In(k, m)) \subseteq S
ReachAtAll(d, k) ==
  {n \in Name :
     \A S \in SUBSET Name : k.name \in S /\ ClosedAtAll(d, k, S) => n \in S}
FiltersAtAll(d, k) ==
  /\ InputBase(d, k)
  /\ PolicyDrops(d, k) \/ \E n \in ReachAtAll(d, k) : DropsAtAll(d, In(k, n))

(* No chain that the jumps written in rules lead to from k names a map.      *)
NoMapBehind(d, k) == \A n \in Reach(d, k) : ~NamesMap(d, In(k, n))

(* "Empty means no drop or reject can be reached from any input base chain": *)
(* of the rulesets a kernel can hold no filtering chain is missed from which *)
(* the jumps of rules lead to no rule that names a verdict map, although a   *)
(* chain already visited on another path is never searched again.  A chain   *)
(* that filters by such a map is missed (MapsAreCovered), so an              *)
(* authoritative FW-001 failure is right only of rulesets without.          *)
NoFilteringMissed ==
  pc = "done" /\ FromKernel(document) =>
    \A k \in ChainKey :
      FiltersAtAll(document, k) /\ NoMapBehind(document, k)
        => \E i \in 1..Len(filtering) : filtering[i] = k

(* The analysis ends, in chains that jump in circles too.                   *)
Terminates == <>(pc \in {"done", "error"})
=============================================================================
