------------------------- MODULE NftAnalysis_proofs -------------------------
(***************************************************************************)
(* Theorems about NftAnalysis, for every set of documents and every bound    *)
(* on the depth of the search.                                             *)
(***************************************************************************)
EXTENDS NftAnalysis, SequenceTheorems, TLAPS

(* What the fields of an object are, by its kind.                           *)
LEMMA ObjectFields ==
  ASSUME NEW o \in Object
  PROVE  /\ o.kind = "table" => o.family \in Family /\ o.table \in Table
         /\ o.kind = "chain" => o \in Chain /\ o.key \in ChainKey /\ o # Nowhere
         /\ o.kind = "rule" => o.key \in ChainKey /\ o.expr \in SUBSET Item
<1>1. /\ o.kind = "table" => o.family \in Family /\ o.table \in Table
      /\ o.kind = "rule" => o.key \in ChainKey /\ o.expr \in SUBSET Item
  BY DEF Object, Chain
<1>2. o.kind = "chain" => o \in Chain /\ o.key \in ChainKey
  BY DEF Object, Chain
<1>3. Nowhere.kind # "chain"
  BY DEF Nowhere
<1>4. o.kind = "chain" => o # Nowhere
  BY <1>3
<1> QED  BY <1>1, <1>2, <1>4

LEMMA DocumentTyped ==
  ASSUME document \in Documents
  PROVE  /\ document \in Seq(Object)
         /\ Len(document) \in Nat
         /\ \A i \in 1..Len(document) : document[i] \in Object
  BY DocumentsAssumption, ElementOfSeq, LenProperties

LEMMA TargetsTyped ==
  ASSUME NEW e \in SUBSET Item
  PROVE  Targets(e) \subseteq Name
  BY DEF Targets, Met, Item

(* The parts of a stack that is not empty, ...                              *)
LEMMA Stacked ==
  ASSUME stack \in Seq(Frame), stack # <<>>
  PROVE  /\ Len(stack) \in Nat \ {0}
         /\ Top \in Frame
         /\ Callers \in Seq(Frame)
         /\ Len(Callers) = Len(stack) - 1
         /\ \A i \in 1 .. Len(stack) - 1 : Callers[i] = stack[i]
<1>1. Len(stack) \in Nat \ {0}  BY EmptySeq
<1>2. Top \in Frame  BY <1>1, ElementOfSeq DEF Top
<1>3. /\ Callers \in Seq(Frame)
      /\ Len(Callers) = Len(stack) - 1
      /\ \A i \in 1 .. Len(stack) - 1 : Callers[i] = stack[i]
  <2> DEFINE n == Len(stack) - 1
  <2>1. n \in Nat /\ n = n - 1 + 1 /\ \A i \in Int : 1 + i - 1 = i
    BY <1>1
  <2>2. \A i \in 1..n : stack[i] \in Frame
    BY <1>1, ElementOfSeq
  <2>3. Callers = SubSeq(stack, 1, n)
    BY DEF Callers
  <2> HIDE DEF n
  <2>4. /\ Callers \in Seq(Frame)
        /\ Len(Callers) = IF 1 <= n THEN n - 1 + 1 ELSE 0
        /\ \A i \in 1 .. n - 1 + 1 : Callers[i] = stack[1 + i - 1]
    BY <2>1, <2>2, <2>3, SubSeqProperties
  <2>5. Len(Callers) = n
    <3>1. CASE 1 <= n  BY <2>1, <2>4, <3>1
    <3>2. CASE ~(1 <= n)
      <4>1. n = 0  BY <2>1, <3>2
      <4> QED  BY <2>4, <3>2, <4>1
    <3> QED  BY <3>1, <3>2
  <2>6. \A i \in 1..n : Callers[i] = stack[i]
    BY <2>1, <2>4
  <2> QED  BY <2>4, <2>5, <2>6 DEF n
<1> QED  BY <1>1, <1>2, <1>3

(* ... with another frame on top, ...                                       *)
LEMMA TopChanged ==
  ASSUME stack \in Seq(Frame), stack # <<>>, NEW f \in Frame
  PROVE  /\ Append(Callers, f) \in Seq(Frame)
         /\ Append(Callers, f) # <<>>
         /\ Len(Append(Callers, f)) = Len(stack)
         /\ Append(Callers, f)[Len(stack)] = f
         /\ \A i \in 1 .. Len(stack) - 1 : Append(Callers, f)[i] = stack[i]
<1>1. /\ Append(Callers, f) \in Seq(Frame)
      /\ Len(Append(Callers, f)) = Len(Callers) + 1
      /\ \A i \in 1..Len(Callers) : Append(Callers, f)[i] = Callers[i]
      /\ Append(Callers, f)[Len(Callers) + 1] = f
  BY Stacked, AppendProperties
<1> QED  BY <1>1, Stacked, EmptySeq

(* ... and with one more above that.                                        *)
LEMMA Called ==
  ASSUME stack \in Seq(Frame), stack # <<>>, NEW f \in Frame, NEW g \in Frame,
         stack' = Append(Append(Callers, f), g)
  PROVE  /\ stack' \in Seq(Frame)
         /\ stack' # <<>>
         /\ Len(stack') = Len(stack) + 1
         /\ stack'[Len(stack)] = f
         /\ stack'[Len(stack) + 1] = g
         /\ \A i \in 1 .. Len(stack) - 1 : stack'[i] = stack[i]
<1> DEFINE s == Append(Callers, f)
<1>1. /\ s \in Seq(Frame) /\ Len(s) = Len(stack) /\ s[Len(stack)] = f
      /\ \A i \in 1 .. Len(stack) - 1 : s[i] = stack[i]
  BY TopChanged
<1>2. Len(stack) \in Nat \ {0}  BY Stacked
<1> HIDE DEF s
<1>3. /\ Append(s, g) \in Seq(Frame)
      /\ Len(Append(s, g)) = Len(s) + 1
      /\ \A i \in 1..Len(s) : Append(s, g)[i] = s[i]
      /\ Append(s, g)[Len(s) + 1] = g
  BY <1>1, AppendProperties
<1>4. stack' = Append(s, g)  BY DEF s
<1> QED  BY <1>1, <1>2, <1>3, <1>4, EmptySeq
-----------------------------------------------------------------------------
(* The part of TypeOK about what is read, and the part about a search.      *)
ReadingTyped ==
  /\ dormant \subseteq Family \X Table
  /\ chains \in [ChainKey -> Chain \cup {Nowhere}]
  /\ chainOrder \in Seq(ChainKey)
  /\ \A i \in 1..Len(chainOrder) : chains[chainOrder[i]] # Nowhere
  /\ rules \in [ChainKey -> Seq(SUBSET Item)]

StackTyped(s, vis, rs) ==
  /\ s \in Seq(Frame)
  /\ \A i \in 1..Len(s) :
       s[i].chain \in vis /\ s[i].rule <= Len(rs[s[i].chain]) + 1

LEMMA TypeOKParts ==
  TypeOK <=>
    /\ document \in Documents
    /\ pc \in {"read", "chains", "search", "done", "error"}
    /\ at \in Nat \ {0}
    /\ pc = "search" => at <= Len(chainOrder)
    /\ ReadingTyped
    /\ visited \subseteq ChainKey
    /\ StackTyped(stack, visited, rules)
    /\ pc = "search" <=> stack # <<>>
    /\ entered \in Seq(ChainKey)
    /\ inputChains \in Nat
    /\ filtering \in Seq(ChainKey)
  BY DEF TypeOK, ReadingTyped, StackTyped

(* The current object, chain and frame are of the right type.               *)
LEMMA ObjectTyped ==
  ASSUME TypeOK, NEW kind, AtObject(kind)
  PROVE  /\ document[at] \in Object /\ document[at].kind = kind
         /\ stack = <<>> /\ pc = "read"
  BY DocumentTyped DEF TypeOK, AtObject

LEMMA FoundTyped ==
  ASSUME TypeOK, NEW k \in ChainKey, Found(k)
  PROVE  filtering' \in Seq(ChainKey)
  BY AppendProperties DEF TypeOK, Found

LEMMA SearchTyped ==
  ASSUME TypeOK, pc = "search"
  PROVE  /\ stack \in Seq(Frame) /\ stack # <<>>
         /\ Top \in Frame
         /\ Top.chain \in visited /\ Top.chain \in ChainKey
         /\ Top.rule \in Nat \ {0}
         /\ rules[Top.chain] \in Seq(SUBSET Item)
         /\ Top.rule <= Len(rules[Top.chain]) + 1
         /\ chainOrder[at] \in ChainKey
<1>1. stack \in Seq(Frame) /\ stack # <<>>  BY DEF TypeOK
<1>2. Len(stack) \in Nat \ {0} /\ Top \in Frame  BY <1>1, Stacked
<1>3. /\ Top.chain \in visited
      /\ Top.rule <= Len(rules[Top.chain]) + 1
  BY <1>2 DEF TypeOK, Top
<1>4. chainOrder[at] \in ChainKey
  BY ElementOfSeq, LenProperties DEF TypeOK
<1> QED  BY <1>1, <1>2, <1>3, <1>4 DEF Frame, TypeOK

LEMMA ExprTyped ==
  ASSUME TypeOK, AtRule
  PROVE  Expr \in SUBSET Item
<1>1. pc = "search"  BY DEF AtRule, Searching
<1>2. Top.rule \in 1..Len(rules[Top.chain])
  BY <1>1, SearchTyped DEF AtRule
<1> QED  BY <1>1, <1>2, SearchTyped, ElementOfSeq DEF Expr

(* A step of a search that leaves its frames well typed.                    *)
LEMMA StackStepTyped ==
  ASSUME TypeOK, pc = "search",
         UNCHANGED <<document, pc, at, reading, result>>,
         visited' \subseteq ChainKey,
         StackTyped(stack', visited', rules), stack' # <<>>,
         entered' \in Seq(ChainKey)
  PROVE  TypeOK'
<1>1. StackTyped(stack', visited', rules')  BY DEF reading
<1> QED  BY <1>1 DEF TypeOK, StackTyped, reading, result

LEMMA InitTyped == Init => TypeOK
<1> SUFFICES ASSUME Init  PROVE TypeOK
  OBVIOUS
<1>1. /\ <<>> \in Seq(Frame) /\ <<>> \in Seq(ChainKey)
      /\ <<>> \in Seq(SUBSET Item) /\ Len(<<>>) = 0
  BY EmptySeq
<1> QED  BY <1>1 DEF Init, TypeOK

LEMMA ReadStepTyped ==
  ASSUME TypeOK, ReadTable \/ ReadChain \/ ReadRule \/ ReadOther \/ ReadFails
                   \/ FinishRead
  PROVE  TypeOK'
<1>1. at + 1 \in Nat \ {0}  BY DEF TypeOK
<1>2. CASE ReadTable
  <2>1. document[at].family \in Family /\ document[at].table \in Table
    BY <1>2, ObjectTyped, ObjectFields DEF ReadTable
  <2> QED  BY <1>1, <1>2, <2>1 DEF TypeOK, ReadTable, AtObject, search, result
<1>3. CASE ReadChain
  <2> DEFINE k == document[at].key
  <2>1. k \in ChainKey /\ document[at] \in Chain /\ document[at] # Nowhere
        /\ stack = <<>> /\ pc = "read"
    BY <1>3, ObjectTyped, ObjectFields DEF ReadChain
  <2>2. chains' = [chains EXCEPT ![k] = document[at]]
    BY <1>3 DEF ReadChain
  <2>3. chains' \in [ChainKey -> Chain \cup {Nowhere}] /\ chains'[k] # Nowhere
        /\ \A c \in ChainKey : chains[c] # Nowhere => chains'[c] # Nowhere
    BY <2>1, <2>2 DEF TypeOK
  <2>4. /\ chainOrder' \in Seq(ChainKey)
        /\ \A i \in 1..Len(chainOrder') : chains'[chainOrder'[i]] # Nowhere
    <3>1. chainOrder \in Seq(ChainKey)
          /\ \A i \in 1..Len(chainOrder) : chains'[chainOrder[i]] # Nowhere
      BY <2>3, ElementOfSeq DEF TypeOK
    <3>2. CASE chainOrder' = chainOrder  BY <3>1, <3>2
    <3>3. CASE chainOrder' = Append(chainOrder, k)
      BY <2>1, <2>3, <3>1, <3>3, AppendProperties, LenProperties
    <3> QED  BY <1>3, <3>2, <3>3 DEF ReadChain
  <2> QED  BY <1>1, <1>3, <2>1, <2>3, <2>4 DEF TypeOK, ReadChain, search, result
<1>4. CASE ReadRule
  <2>1. document[at].key \in ChainKey /\ document[at].expr \in SUBSET Item
        /\ stack = <<>> /\ Len(stack) = 0
    BY <1>4, ObjectTyped, ObjectFields, EmptySeq DEF ReadRule
  <2>2. rules' \in [ChainKey -> Seq(SUBSET Item)]
    BY <1>4, <2>1, AppendProperties DEF ReadRule, TypeOK
  <2> QED  BY <1>1, <1>4, <2>1, <2>2 DEF TypeOK, ReadRule, AtObject, search, result
<1>5. CASE ReadOther
  BY <1>1, <1>5 DEF TypeOK, ReadOther, AtObject, reading, search, result
<1>6. CASE ReadFails
  BY <1>6 DEF TypeOK, ReadFails, AtObject, reading, search, result
<1>7. CASE FinishRead
  BY <1>7 DEF TypeOK, FinishRead, reading, search, result
<1> QED  BY <1>2, <1>3, <1>4, <1>5, <1>6, <1>7

LEMMA ChainStepTyped ==
  ASSUME TypeOK, PassChain \/ PolicyDrop \/ StartSearch \/ Finish
  PROVE  TypeOK'
<1>1. at + 1 \in Nat \ {0} /\ inputChains + 1 \in Nat  BY DEF TypeOK
<1>2. CASE PassChain
  BY <1>1, <1>2 DEF TypeOK, PassChain, AtChain, reading, search, result
<1>3. CASE PolicyDrop
  <2>1. filtering' \in Seq(ChainKey)  BY <1>3, FoundTyped DEF PolicyDrop
  <2> QED  BY <1>1, <1>3, <2>1 DEF TypeOK, PolicyDrop, AtChain, reading, search
<1>4. CASE StartSearch
  <2>1. PICK k \in ChainKey : /\ AtChain(k) /\ entered' = <<k>>
                              /\ visited' = {k} /\ stack' = <<NewFrame(k)>>
    BY <1>4 DEF StartSearch
  <2>6. entered' \in Seq(ChainKey)  BY <2>1
  <2>2. NewFrame(k) \in Frame /\ NewFrame(k).chain = k /\ NewFrame(k).rule = 1
    BY DEF NewFrame, Frame
  <2>3. /\ stack' \in Seq(Frame) /\ stack' # <<>>
        /\ Len(stack') = 1 /\ stack'[1] = NewFrame(k)
    BY <2>1, <2>2
  <2>4. Len(rules[k]) \in Nat  BY LenProperties DEF TypeOK
  <2>5. StackTyped(stack', visited', rules)
    BY <2>1, <2>2, <2>3, <2>4 DEF StackTyped
  <2> QED
    BY <1>1, <1>4, <2>1, <2>3, <2>5, <2>6
    DEF TypeOK, StackTyped, StartSearch, AtChain, reading
<1>5. CASE Finish
  BY <1>5 DEF TypeOK, Finish, reading, search, result
<1> QED  BY <1>2, <1>3, <1>4, <1>5

LEMMA EndSearchTyped ==
  ASSUME TypeOK, EndSearch, filtering' \in Seq(ChainKey),
         UNCHANGED <<document, reading, inputChains>>
  PROVE  TypeOK'
<1>1. at + 1 \in Nat \ {0}  BY DEF TypeOK
<1>2. <<>> \in Seq(Frame) /\ Len(<<>>) = 0  BY EmptySeq
<1> QED  BY <1>1, <1>2 DEF TypeOK, EndSearch, reading

LEMMA SearchStepTyped ==
  ASSUME TypeOK, VerdictRule \/ OtherRule \/ PassTarget \/ FollowTarget
                   \/ ReturnFalse \/ NotFound
  PROVE  TypeOK'
<1>0. pc = "search"
  BY DEF VerdictRule, OtherRule, PassTarget, FollowTarget, ReturnFalse, NotFound,
         AtRule, AtTarget, AtEnd, Searching
<1>1. /\ stack \in Seq(Frame) /\ stack # <<>> /\ Len(stack) \in Nat \ {0}
      /\ visited \subseteq ChainKey /\ entered \in Seq(ChainKey)
      /\ \A i \in 1..Len(stack) :
           stack[i].chain \in visited
           /\ stack[i].rule <= Len(rules[stack[i].chain]) + 1
  BY <1>0, SearchTyped, Stacked DEF TypeOK
<1>2. /\ Top \in Frame /\ Top.chain \in visited /\ Top.chain \in ChainKey
      /\ Top.rule \in Nat \ {0}
      /\ Top.rule <= Len(rules[Top.chain]) + 1
  BY <1>0, SearchTyped
<1>3. ASSUME NEW f \in Frame, f.chain = Top.chain,
             f.rule <= Len(rules[Top.chain]) + 1,
             stack' = Append(Callers, f), visited' = visited
      PROVE  StackTyped(stack', visited', rules) /\ stack' # <<>>
  <2>1. /\ stack' \in Seq(Frame) /\ stack' # <<>> /\ Len(stack') = Len(stack)
        /\ stack'[Len(stack)] = f
        /\ \A i \in 1 .. Len(stack) - 1 : stack'[i] = stack[i]
    BY <1>1, <1>3, TopChanged
  <2>2. ASSUME NEW i \in 1..Len(stack')
        PROVE  /\ stack'[i].chain \in visited'
               /\ stack'[i].rule <= Len(rules[stack'[i].chain]) + 1
    <3>1. CASE i = Len(stack)  BY <1>2, <1>3, <2>1, <3>1
    <3>2. CASE i # Len(stack)
      <4>1. i \in 1 .. Len(stack) - 1 /\ i \in 1..Len(stack)
        BY <1>1, <2>1, <3>2
      <4> QED  BY <1>1, <1>3, <2>1, <4>1
    <3> QED  BY <3>1, <3>2
  <2> QED  BY <2>1, <2>2 DEF StackTyped
<1>4. ASSUME NEW name \in Name, AtTarget(name)
      PROVE  /\ Followed(name) \in Frame
             /\ Followed(name).chain = Top.chain
             /\ Followed(name).rule = Top.rule
  BY <1>2 DEF Followed, Frame
<1>5. CASE VerdictRule
  <2>1. filtering' \in Seq(ChainKey)
    BY <1>0, <1>5, SearchTyped, FoundTyped DEF VerdictRule
  <2> QED  BY <1>5, <2>1, EndSearchTyped DEF VerdictRule
<1>6. CASE OtherRule
  <2> DEFINE f == [chain |-> Top.chain, rule |-> Top.rule + 1,
                   targets |-> Targets(Expr)]
  <2>1. Targets(Expr) \in SUBSET Name
    BY <1>6, ExprTyped, TargetsTyped DEF OtherRule
  <2>2. f \in Frame /\ f.chain = Top.chain /\ f.rule = Top.rule + 1
    BY <1>2, <2>1 DEF Frame
  <2>3. Len(rules[Top.chain]) \in Nat /\ Top.rule <= Len(rules[Top.chain])
    BY <1>0, <1>6, SearchTyped, LenProperties DEF OtherRule, AtRule
  <2>4. f.rule <= Len(rules[Top.chain]) + 1  BY <1>2, <2>2, <2>3
  <2>5. stack' = Append(Callers, f) /\ visited' = visited
    BY <1>6 DEF OtherRule
  <2> HIDE DEF f
  <2>6. StackTyped(stack', visited', rules) /\ stack' # <<>>
    BY <1>3, <2>2, <2>4, <2>5
  <2> QED  BY <1>0, <1>1, <1>6, <2>5, <2>6, StackStepTyped DEF OtherRule
<1>7. CASE PassTarget
  <2>1. PICK name \in Name : /\ AtTarget(name)
                             /\ stack' = Append(Callers, Followed(name))
    BY <1>7 DEF PassTarget
  <2>2. StackTyped(stack', visited', rules) /\ stack' # <<>>
    BY <1>2, <1>3, <1>4, <1>7, <2>1 DEF PassTarget
  <2> QED  BY <1>0, <1>1, <1>7, <2>2, StackStepTyped DEF PassTarget
<1>8. CASE FollowTarget
  <2>1. PICK name \in Name :
          /\ AtTarget(name)
          /\ visited' = visited \cup {In(Top.chain, name)}
          /\ entered' = Append(entered, In(Top.chain, name))
          /\ stack' = Append(Append(Callers, Followed(name)),
                             NewFrame(In(Top.chain, name)))
    BY <1>8 DEF FollowTarget
  <2> DEFINE k == In(Top.chain, name)
             f == Followed(name)
             g == NewFrame(k)
  <2>2. k \in ChainKey  BY <1>2 DEF In, ChainKey
  <2>3. g \in Frame /\ g.chain = k /\ g.rule = 1
    BY <2>2 DEF NewFrame, Frame
  <2>4. f \in Frame /\ f.chain = Top.chain /\ f.rule = Top.rule
    BY <1>4, <2>1
  <2>5. visited' = visited \cup {k} /\ stack' = Append(Append(Callers, f), g)
    BY <2>1
  <2>11. entered' \in Seq(ChainKey)
    BY <1>1, <2>1, <2>2, AppendProperties
  <2>6. Len(rules[k]) \in Nat  BY <2>2, LenProperties DEF TypeOK
  <2> HIDE DEF k, f, g
  <2>7. /\ stack' \in Seq(Frame) /\ stack' # <<>>
        /\ Len(stack') = Len(stack) + 1
        /\ stack'[Len(stack)] = f /\ stack'[Len(stack) + 1] = g
        /\ \A i \in 1 .. Len(stack) - 1 : stack'[i] = stack[i]
    BY <1>1, <2>3, <2>4, <2>5, Called
  <2>8. ASSUME NEW i \in 1..Len(stack')
        PROVE  /\ stack'[i].chain \in visited'
               /\ stack'[i].rule <= Len(rules[stack'[i].chain]) + 1
    <3>1. CASE i <= Len(stack) - 1
      <4>1. i \in 1 .. Len(stack) - 1 /\ i \in 1..Len(stack)
        BY <1>1, <2>7, <3>1
      <4> QED  BY <1>1, <2>5, <2>7, <4>1
    <3>2. CASE i = Len(stack)  BY <1>2, <2>4, <2>5, <2>7, <3>2
    <3>3. CASE i = Len(stack) + 1  BY <2>3, <2>5, <2>6, <2>7, <3>3
    <3> QED  BY <1>1, <2>7, <3>1, <3>2, <3>3
  <2>9. StackTyped(stack', visited', rules)  BY <2>7, <2>8 DEF StackTyped
  <2>10. visited' \subseteq ChainKey  BY <1>1, <2>2, <2>5
  <2> QED
    BY <1>0, <1>8, <2>7, <2>9, <2>10, <2>11, StackStepTyped DEF FollowTarget
<1>9. CASE ReturnFalse
  <2>1. stack' = Callers /\ visited' = visited /\ Len(stack) > 1
    BY <1>9 DEF ReturnFalse
  <2>2. StackTyped(stack', visited', rules)
    <3>1. /\ Callers \in Seq(Frame) /\ Len(Callers) = Len(stack) - 1
          /\ \A i \in 1 .. Len(stack) - 1 : Callers[i] = stack[i]
      <4>1. stack \in Seq(Frame) /\ stack # <<>>  BY <1>1
      <4> QED  BY <4>1, Stacked
    <3>2. \A i \in 1 .. Len(stack) - 1 : i \in 1..Len(stack)  BY <1>1
    <3> QED  BY <1>1, <2>1, <3>1, <3>2 DEF StackTyped
  <2>3. stack' # <<>>
    BY <1>1, <2>1, Stacked, EmptySeq
  <2> QED  BY <1>0, <1>1, <1>9, <2>1, <2>2, <2>3, StackStepTyped DEF ReturnFalse
<1>10. CASE NotFound
  <2>1. filtering' \in Seq(ChainKey)  BY <1>10 DEF NotFound, TypeOK, result
  <2> QED  BY <1>10, <2>1, EndSearchTyped DEF NotFound, result
<1> QED  BY <1>5, <1>6, <1>7, <1>8, <1>9, <1>10

LEMMA StutterTyped ==
  ASSUME TypeOK, UNCHANGED vars
  PROVE  TypeOK'
  BY DEF TypeOK, vars, reading, search, result

(* Every variable keeps its shape.                                          *)
THEOREM TypeCorrect == Spec => []TypeOK
<1>1. ASSUME TypeOK, [Next]_vars  PROVE TypeOK'
  BY <1>1, ReadStepTyped, ChainStepTyped, SearchStepTyped, StutterTyped
  DEF Next, Step, Done
<1> QED  BY <1>1, InitTyped, PTL DEF Spec
-----------------------------------------------------------------------------
(* What the steps of a search do to the stack: the frame on top moves on in  *)
(* its chain, ...                                                           *)
LEMMA TopMoves ==
  ASSUME TypeOK, pc = "search", NEW f \in Frame, f.chain = Top.chain,
         stack' = Append(Callers, f)
  PROVE  /\ Len(stack) \in Nat \ {0} /\ Len(stack') = Len(stack)
         /\ Top = stack[Len(stack)] /\ stack'[Len(stack)] = f
         /\ \A i \in 1 .. Len(stack) - 1 : stack'[i] = stack[i]
         /\ \A i \in 1..Len(stack) : stack'[i].chain = stack[i].chain
<1>1. /\ Len(stack) \in Nat \ {0} /\ Len(stack') = Len(stack)
      /\ stack'[Len(stack)] = f
      /\ \A i \in 1 .. Len(stack) - 1 : stack'[i] = stack[i]
  BY SearchTyped, Stacked, TopChanged
<1>2. Top = stack[Len(stack)]  BY DEF Top
<1>3. ASSUME NEW i \in 1..Len(stack)  PROVE stack'[i].chain = stack[i].chain
  <2>1. CASE i = Len(stack)  BY <1>1, <1>2, <2>1
  <2>2. CASE i # Len(stack)
    <3>1. i \in 1 .. Len(stack) - 1  BY <1>1, <2>2
    <3> QED  BY <1>1, <3>1
  <2> QED  BY <2>1, <2>2
<1> QED  BY <1>1, <1>2, <1>3

LEMMA OtherRuleMoves ==
  ASSUME TypeOK, OtherRule
  PROVE  \E f \in Frame :
           /\ pc = "search" /\ stack' = Append(Callers, f)
           /\ f.chain = Top.chain /\ f.rule = Top.rule + 1
           /\ f.targets = Targets(Expr) /\ Top.targets = {}
           /\ Top.rule \in 1..Len(rules[Top.chain])
           /\ Expr = rules[Top.chain][Top.rule] /\ Expr \in SUBSET Item
           /\ ~Verdict(Expr)
<1> DEFINE f == [chain |-> Top.chain, rule |-> Top.rule + 1,
                 targets |-> Targets(Expr)]
<1>1. pc = "search" /\ Top.targets = {} /\ Top.rule <= Len(rules[Top.chain])
      /\ ~Verdict(Expr) /\ stack' = Append(Callers, f)
  BY DEF OtherRule, AtRule, Searching
<1>2. Expr \in SUBSET Item  BY ExprTyped DEF OtherRule
<1>3. Targets(Expr) \in SUBSET Name  BY <1>2, TargetsTyped
<1>4. /\ Top.chain \in ChainKey /\ Top.rule \in Nat \ {0}
      /\ Len(rules[Top.chain]) \in Nat
  BY <1>1, SearchTyped, LenProperties
<1>5. f \in Frame  BY <1>3, <1>4 DEF Frame
<1>6. Top.rule \in 1..Len(rules[Top.chain])  BY <1>1, <1>4
<1>7. Expr = rules[Top.chain][Top.rule]  BY DEF Expr
<1> QED  BY <1>1, <1>2, <1>5, <1>6, <1>7

LEMMA PassTargetMoves ==
  ASSUME TypeOK, PassTarget
  PROVE  \E f \in Frame, name \in Name :
           /\ pc = "search" /\ stack' = Append(Callers, f)
           /\ f.chain = Top.chain /\ f.rule = Top.rule
           /\ name \in Top.targets /\ f.targets = Top.targets \ {name}
           /\ Cut(In(Top.chain, name))
<1>1. PICK name \in Name :
        /\ AtTarget(name) /\ Cut(In(Top.chain, name))
        /\ stack' = Append(Callers, Followed(name))
  BY DEF PassTarget
<1>2. pc = "search" /\ name \in Top.targets  BY <1>1 DEF AtTarget
<1>3. Top \in Frame  BY <1>2, SearchTyped
<1>4. /\ Followed(name) \in Frame
      /\ Followed(name).chain = Top.chain /\ Followed(name).rule = Top.rule
      /\ Followed(name).targets = Top.targets \ {name}
  BY <1>3 DEF Followed, Frame
<1> QED  BY <1>1, <1>2, <1>4

(* ... or calls itself for a chain that no active call has.                 *)
LEMMA FollowTargetMoves ==
  ASSUME TypeOK, FollowTarget
  PROVE  \E f \in Frame, g \in Frame, name \in Name :
           /\ pc = "search" /\ Len(stack) \in Nat \ {0}
           /\ Top = stack[Len(stack)]
           /\ f.chain = Top.chain /\ f.rule = Top.rule
           /\ name \in Top.targets /\ f.targets = Top.targets \ {name}
           /\ ~Cut(In(Top.chain, name))
           /\ g = NewFrame(In(Top.chain, name))
           /\ visited' = visited \cup {In(Top.chain, name)}
           /\ Len(stack') = Len(stack) + 1
           /\ stack'[Len(stack)] = f /\ stack'[Len(stack) + 1] = g
           /\ \A i \in 1 .. Len(stack) - 1 : stack'[i] = stack[i]
<1>1. PICK name \in Name :
        /\ AtTarget(name) /\ ~Cut(In(Top.chain, name))
        /\ visited' = visited \cup {In(Top.chain, name)}
        /\ stack' = Append(Append(Callers, Followed(name)),
                           NewFrame(In(Top.chain, name)))
  BY DEF FollowTarget
<1>2. pc = "search" /\ name \in Top.targets  BY <1>1 DEF AtTarget
<1>3. Top \in Frame /\ Top.chain \in ChainKey
      /\ stack \in Seq(Frame) /\ stack # <<>>
  BY <1>2, SearchTyped
<1>4. /\ Followed(name) \in Frame
      /\ Followed(name).chain = Top.chain /\ Followed(name).rule = Top.rule
      /\ Followed(name).targets = Top.targets \ {name}
  BY <1>3 DEF Followed, Frame
<1>5. In(Top.chain, name) \in ChainKey  BY <1>3 DEF In, ChainKey
<1>6. NewFrame(In(Top.chain, name)) \in Frame  BY <1>5 DEF NewFrame, Frame
<1>7. /\ Len(stack') = Len(stack) + 1
      /\ stack'[Len(stack)] = Followed(name)
      /\ stack'[Len(stack) + 1] = NewFrame(In(Top.chain, name))
      /\ \A i \in 1 .. Len(stack) - 1 : stack'[i] = stack[i]
  BY <1>1, <1>3, <1>4, <1>6, Called
<1>8. Len(stack) \in Nat \ {0}  BY <1>3, Stacked
<1>9. Top = stack[Len(stack)]  BY DEF Top
<1> QED  BY <1>1, <1>2, <1>4, <1>6, <1>7, <1>8, <1>9

LEMMA ReturnMoves ==
  ASSUME TypeOK, ReturnFalse
  PROVE  /\ pc = "search" /\ Len(stack) \in Nat \ {0} /\ Len(stack) > 1
         /\ Top = stack[Len(stack)]
         /\ Top.targets = {} /\ Top.rule > Len(rules[Top.chain])
         /\ Len(stack') = Len(stack) - 1
         /\ \A i \in 1 .. Len(stack) - 1 : stack'[i] = stack[i]
<1>1. pc = "search" /\ Top.targets = {} /\ Top.rule > Len(rules[Top.chain])
      /\ Len(stack) > 1 /\ stack' = Callers
  BY DEF ReturnFalse, AtEnd, Searching
<1> QED  BY <1>1, SearchTyped, Stacked DEF Top

(* Every chain that was entered is visited: so entering one that is not      *)
(* enters a new one.                                                        *)
BoundOK ==
  SearchIsBounded /\ \A i \in 1..Len(entered) : entered[i] \in visited

LEMMA BoundedStep ==
  ASSUME TypeOK, BoundOK, [Next]_vars
  PROVE  BoundOK'
<1>0. MaxExprDepth \in Nat  BY DepthAssumption
<1>1. CASE UNCHANGED search
  BY <1>1 DEF BoundOK, SearchIsBounded, search
<1>2. CASE StartSearch
  <2>1. PICK k \in ChainKey : /\ stack' = <<NewFrame(k)>>
                              /\ visited' = {k} /\ entered' = <<k>>
    BY <1>2 DEF StartSearch
  <2>2. Len(stack') = 1 /\ Len(entered') = 1 /\ entered'[1] = k  BY <2>1
  <2> QED  BY <1>0, <2>1, <2>2 DEF BoundOK, SearchIsBounded
<1>3. CASE OtherRule \/ PassTarget
  <2>1. PICK f \in Frame : f.chain = Top.chain /\ stack' = Append(Callers, f)
                           /\ pc = "search"
    BY <1>3, OtherRuleMoves, PassTargetMoves
  <2>2. UNCHANGED <<visited, entered>>  BY <1>3 DEF OtherRule, PassTarget
  <2> QED  BY <2>1, <2>2, TopMoves DEF BoundOK, SearchIsBounded
<1>4. CASE FollowTarget
  <2>1. Len(stack) \in Nat /\ Len(stack') = Len(stack) + 1
    BY <1>4, FollowTargetMoves
  <2>2. PICK name \in Name :
          /\ AtTarget(name) /\ ~Cut(In(Top.chain, name))
          /\ visited' = visited \cup {In(Top.chain, name)}
          /\ entered' = Append(entered, In(Top.chain, name))
    BY <1>4 DEF FollowTarget
  <2>3. In(Top.chain, name) \notin visited /\ Len(stack) <= MaxExprDepth
    BY <1>0, <2>1, <2>2 DEF Cut
  <2>4. Top.chain \in ChainKey
    BY <2>2, SearchTyped DEF AtTarget
  <2> DEFINE k == In(Top.chain, name)
  <2>5. k \in ChainKey  BY <2>4 DEF In, ChainKey
  <2>6. visited' = visited \cup {k} /\ entered' = Append(entered, k)
        /\ k \notin visited /\ entered \in Seq(ChainKey)
    BY <2>2, <2>3 DEF TypeOK
  <2> HIDE DEF k
  <2>7. /\ Len(entered) \in Nat /\ Len(entered') = Len(entered) + 1
        /\ entered'[Len(entered) + 1] = k
        /\ \A i \in 1..Len(entered) : entered'[i] = entered[i]
    BY <2>5, <2>6, AppendProperties, LenProperties
  <2>8. ASSUME NEW i \in 1..Len(entered')
        PROVE  \/ i \in 1..Len(entered) /\ entered'[i] \in visited
               \/ i = Len(entered) + 1 /\ entered'[i] = k
    BY <2>7 DEF BoundOK
  <2>9. \A i, j \in 1..Len(entered') : entered'[i] = entered'[j] => i = j
    BY <2>6, <2>7, <2>8 DEF BoundOK, SearchIsBounded
  <2> QED  BY <1>0, <2>1, <2>3, <2>6, <2>8, <2>9 DEF BoundOK, SearchIsBounded
<1>5. CASE ReturnFalse
  <2>1. Len(stack) \in Nat \ {0} /\ Len(stack') = Len(stack) - 1
        /\ UNCHANGED <<visited, entered>>
    BY <1>5, ReturnMoves DEF ReturnFalse
  <2> QED  BY <1>0, <2>1 DEF BoundOK, SearchIsBounded
<1>6. CASE VerdictRule \/ NotFound
  <2>1. stack' = <<>> /\ UNCHANGED <<visited, entered>>
    BY <1>6 DEF VerdictRule, NotFound, EndSearch
  <2> QED  BY <1>0, <2>1 DEF BoundOK, SearchIsBounded
<1> QED
  BY <1>1, <1>2, <1>3, <1>4, <1>5, <1>6
  DEF Next, Step, Done, vars, ReadTable, ReadChain, ReadRule, ReadOther,
      ReadFails, FinishRead, PassChain, PolicyDrop, Finish

(* The recursion is bounded and enters no chain twice, for every ruleset.    *)
THEOREM SearchesAreBounded == Spec => []SearchIsBounded
<1>1. Init => BoundOK
  <2> SUFFICES ASSUME Init  PROVE BoundOK
    OBVIOUS
  <2>1. Len(stack) = 0 /\ Len(entered) = 0  BY EmptySeq DEF Init
  <2> QED  BY <2>1, DepthAssumption DEF BoundOK, SearchIsBounded
<1>2. TypeOK /\ BoundOK /\ [Next]_vars => BoundOK'
  BY BoundedStep
<1>3. BoundOK => SearchIsBounded  BY DEF BoundOK
<1> QED  BY <1>1, <1>2, <1>3, TypeCorrect, PTL DEF Spec
-----------------------------------------------------------------------------
(* The first n objects of document d have been read.                        *)
RulesRead(d, rs, n) ==
  \A k \in ChainKey :
    /\ \A i \in 1..n : RuleOf(d, i, k)
         => \E j \in 1..Len(rs[k]) : rs[k][j] = d[i].expr
    /\ \A j \in 1..Len(rs[k]) :
         \E i \in 1..n : RuleOf(d, i, k) /\ d[i].expr = rs[k][j]

ChainsRead(d, cs, order, n) ==
  /\ \A k \in ChainKey : cs[k] # Nowhere
       => \E i \in 1..n : d[i] = cs[k] /\ d[i].kind = "chain" /\ d[i].key = k
  /\ \A i \in 1..n : d[i].kind = "chain"
       => /\ cs[d[i].key] = d[i]
          /\ \E p \in 1..Len(order) : order[p] = d[i].key

DormantTable(d, i, f, t) ==
  d[i].kind = "table" /\ d[i].dormant /\ d[i].family = f /\ d[i].table = t

DormantRead(d, dm, n) ==
  \A f \in Family, t \in Table :
    <<f, t>> \in dm <=> \E i \in 1..n : DormantTable(d, i, f, t)

ReadSoFar(n) ==
  /\ RulesRead(document, rules, n)
  /\ ChainsRead(document, chains, chainOrder, n)
  /\ DormantRead(document, dormant, n)

(* What has been read is what the document says up to the current object,   *)
(* and all of it once the search begins.                                    *)
ReadOK ==
  /\ pc = "read" => at <= Len(document) + 1 /\ ReadSoFar(at - 1)
  /\ pc \in {"chains", "search", "done"} => ReadSoFar(Len(document))

(* One more object is read.                                                 *)
LEMMA ReadOne ==
  ASSUME TypeOK, pc = "read", at <= Len(document)
  PROVE  /\ at - 1 \in Nat /\ at \in 1..at
         /\ \A i \in 1..at : i = at \/ i \in 1 .. at - 1
         /\ \A i \in 1 .. at - 1 : i \in 1..at /\ i # at
         /\ 1..at \subseteq 1..Len(document)
  BY DocumentTyped DEF TypeOK

LEMMA SameRules ==
  ASSUME TypeOK, pc = "read", at <= Len(document),
         RulesRead(document, rules, at - 1), document[at].kind # "rule"
  PROVE  RulesRead(document, rules, at)
<1>1. ASSUME NEW k \in ChainKey, NEW i \in 1..at, RuleOf(document, i, k)
      PROVE  \E j \in 1..Len(rules[k]) : rules[k][j] = document[i].expr
  <2>1. i # at  BY <1>1 DEF RuleOf
  <2>2. i \in 1 .. at - 1  BY <2>1, ReadOne
  <2> QED  BY <1>1, <2>2 DEF RulesRead
<1>2. ASSUME NEW k \in ChainKey, NEW j \in 1..Len(rules[k])
      PROVE  \E i \in 1..at : RuleOf(document, i, k) /\ document[i].expr = rules[k][j]
  <2>1. PICK i \in 1 .. at - 1 :
          RuleOf(document, i, k) /\ document[i].expr = rules[k][j]
    BY DEF RulesRead
  <2> QED  BY <2>1, ReadOne
<1> QED  BY <1>1, <1>2 DEF RulesRead

LEMMA SameChains ==
  ASSUME TypeOK, pc = "read", at <= Len(document),
         ChainsRead(document, chains, chainOrder, at - 1),
         document[at].kind # "chain"
  PROVE  ChainsRead(document, chains, chainOrder, at)
  BY ReadOne DEF ChainsRead

LEMMA SameDormant ==
  ASSUME TypeOK, pc = "read", at <= Len(document),
         DormantRead(document, dormant, at - 1), document[at].kind # "table"
  PROVE  DormantRead(document, dormant, at)
<1>1. \A f, t : ~DormantTable(document, at, f, t)  BY DEF DormantTable
<1> QED  BY <1>1, ReadOne DEF DormantRead

LEMMA ReadTableOK ==
  ASSUME TypeOK, ReadOK, ReadTable
  PROVE  DormantRead(document, dormant', at)
<1>1. pc = "read" /\ at <= Len(document) /\ document[at].kind = "table"
      /\ DormantRead(document, dormant, at - 1)
  BY DEF ReadTable, AtObject, ReadOK, ReadSoFar
<1>2. document[at].family \in Family /\ document[at].table \in Table
  BY <1>1, ObjectTyped, ObjectFields DEF ReadTable
<1>3. ASSUME NEW f \in Family, NEW t \in Table
      PROVE  <<f, t>> \in dormant' <=>
               \E i \in 1..at : DormantTable(document, i, f, t)
  <2>1. <<f, t>> \in dormant' <=>
          <<f, t>> \in dormant \/ DormantTable(document, at, f, t)
    BY <1>1 DEF ReadTable, DormantTable
  <2>2. <<f, t>> \in dormant <=>
          \E i \in 1 .. at - 1 : DormantTable(document, i, f, t)
    BY <1>1 DEF DormantRead
  <2> QED  BY <1>1, <2>1, <2>2, ReadOne
<1> QED  BY <1>3 DEF DormantRead

LEMMA ReadChainOK ==
  ASSUME TypeOK, ReadOK, ReadChain
  PROVE  ChainsRead(document, chains', chainOrder', at)
<1> DEFINE c == document[at]
<1>1. pc = "read" /\ at <= Len(document) /\ c.kind = "chain"
      /\ ChainsRead(document, chains, chainOrder, at - 1)
  BY DEF ReadChain, AtObject, ReadOK, ReadSoFar
<1>2. c.key \in ChainKey /\ c # Nowhere
  BY <1>1, ObjectTyped, ObjectFields DEF ReadChain
<1>3. /\ chains' = [chains EXCEPT ![c.key] = c]
      /\ chainOrder' = IF chains[c.key] = Nowhere THEN Append(chainOrder, c.key)
                       ELSE chainOrder
  BY DEF ReadChain
<1>4. /\ chains'[c.key] = c
      /\ \A k \in ChainKey : k # c.key => chains'[k] = chains[k]
  BY <1>2, <1>3 DEF TypeOK
<1>5. \A i \in 1 .. at - 1 :
        document[i].kind = "chain"
          => document[i].key # c.key /\ document[i].key \in ChainKey
  <2>1. ASSUME NEW i \in 1 .. at - 1, document[i].kind = "chain"
        PROVE  document[i].key # c.key /\ document[i].key \in ChainKey
    <3>1. i \in 1..Len(document) /\ at \in 1..Len(document) /\ i # at
      BY <1>1, ReadOne
    <3>2. document \in Documents  BY DEF TypeOK
    <3>3. document[i].key # c.key
      BY <1>1, <2>1, <3>1, <3>2, DocumentsAssumption
    <3>4. document[i].key \in ChainKey
      BY <2>1, <3>1, <3>2, DocumentTyped, ObjectFields
    <3> QED  BY <3>3, <3>4
  <2> QED  BY <2>1
<1>6. chains[c.key] = Nowhere
  BY <1>1, <1>2, <1>5 DEF ChainsRead
<1> HIDE DEF c
<1>7. /\ Len(chainOrder) \in Nat
      /\ Len(chainOrder') = Len(chainOrder) + 1
      /\ chainOrder'[Len(chainOrder) + 1] = c.key
      /\ \A p \in 1..Len(chainOrder) : chainOrder'[p] = chainOrder[p]
  BY <1>2, <1>3, <1>6, AppendProperties, LenProperties DEF TypeOK
<1>8. ASSUME NEW k \in ChainKey, chains'[k] # Nowhere
      PROVE  \E i \in 1..at : /\ document[i] = chains'[k]
                              /\ document[i].kind = "chain" /\ document[i].key = k
  <2>1. CASE k = c.key  BY <1>1, <1>4, <2>1, ReadOne DEF c
  <2>2. CASE k # c.key  BY <1>1, <1>4, <1>8, <2>2, ReadOne DEF ChainsRead
  <2> QED  BY <2>1, <2>2
<1>9. ASSUME NEW i \in 1..at, document[i].kind = "chain"
      PROVE  /\ chains'[document[i].key] = document[i]
             /\ \E p \in 1..Len(chainOrder') : chainOrder'[p] = document[i].key
  <2>1. CASE i = at
    <3>1. Len(chainOrder) + 1 \in 1..Len(chainOrder')  BY <1>7
    <3> QED  BY <1>4, <1>7, <2>1, <3>1 DEF c
  <2>2. CASE i # at
    <3>1. i \in 1 .. at - 1  BY <1>1, <2>2, ReadOne
    <3>2. /\ chains[document[i].key] = document[i]
          /\ \E p \in 1..Len(chainOrder) : chainOrder[p] = document[i].key
      BY <1>1, <1>9, <3>1 DEF ChainsRead
    <3>3. chains'[document[i].key] = document[i]
      BY <1>4, <1>5, <1>9, <3>1, <3>2
    <3>4. 1..Len(chainOrder) \subseteq 1..Len(chainOrder')  BY <1>7
    <3> QED  BY <1>7, <3>2, <3>3, <3>4
  <2> QED  BY <2>1, <2>2
<1> QED  BY <1>8, <1>9 DEF ChainsRead

LEMMA ReadRuleOK ==
  ASSUME TypeOK, ReadOK, ReadRule
  PROVE  RulesRead(document, rules', at)
<1> DEFINE r == document[at]
<1>1. pc = "read" /\ at <= Len(document) /\ r.kind = "rule"
      /\ RulesRead(document, rules, at - 1)
  BY DEF ReadRule, AtObject, ReadOK, ReadSoFar
<1>2. r.key \in ChainKey /\ r.expr \in SUBSET Item
  BY <1>1, ObjectTyped, ObjectFields DEF ReadRule
<1>3. /\ rules'[r.key] = Append(rules[r.key], r.expr)
      /\ \A k \in ChainKey : k # r.key => rules'[k] = rules[k]
  BY <1>2 DEF ReadRule, TypeOK
<1>4. RuleOf(document, at, r.key)
      /\ \A k \in ChainKey : RuleOf(document, at, k) => k = r.key
  BY <1>1 DEF RuleOf
<1> HIDE DEF r
<1>5. /\ Len(rules[r.key]) \in Nat
      /\ Len(rules'[r.key]) = Len(rules[r.key]) + 1
      /\ rules'[r.key][Len(rules[r.key]) + 1] = r.expr
      /\ \A j \in 1..Len(rules[r.key]) : rules'[r.key][j] = rules[r.key][j]
  <2>1. rules[r.key] \in Seq(SUBSET Item)  BY <1>2 DEF TypeOK
  <2> QED  BY <1>2, <1>3, <2>1, AppendProperties, LenProperties
<1>6. ASSUME NEW k \in ChainKey
      PROVE  /\ \A i \in 1..at : RuleOf(document, i, k)
                  => \E j \in 1..Len(rules'[k]) : rules'[k][j] = document[i].expr
             /\ \A j \in 1..Len(rules'[k]) : \E i \in 1..at :
                  RuleOf(document, i, k) /\ document[i].expr = rules'[k][j]
  <2>1. /\ \A i \in 1 .. at - 1 : RuleOf(document, i, k)
             => \E j \in 1..Len(rules[k]) : rules[k][j] = document[i].expr
        /\ \A j \in 1..Len(rules[k]) : \E i \in 1 .. at - 1 :
             RuleOf(document, i, k) /\ document[i].expr = rules[k][j]
    BY <1>1 DEF RulesRead
  <2>2. CASE k # r.key
    <3>1. rules'[k] = rules[k]  BY <1>3, <2>2
    <3>2. ~RuleOf(document, at, k)  BY <1>4, <2>2
    <3>3. /\ \A i \in 1..at : i = at \/ i \in 1 .. at - 1
          /\ \A i \in 1 .. at - 1 : i \in 1..at
      BY <1>1, ReadOne
    <3> QED  BY <2>1, <3>1, <3>2, <3>3
  <2>3. CASE k = r.key
    <3>1. ASSUME NEW i \in 1..at, RuleOf(document, i, k)
          PROVE  \E j \in 1..Len(rules'[k]) : rules'[k][j] = document[i].expr
      <4>1. CASE i = at
        <5>1. Len(rules[k]) + 1 \in 1..Len(rules'[k])  BY <1>5, <2>3
        <5> QED  BY <1>5, <2>3, <4>1, <5>1 DEF r
      <4>2. CASE i # at
        <5>1. i \in 1 .. at - 1  BY <1>1, <4>2, ReadOne
        <5>2. 1..Len(rules[k]) \subseteq 1..Len(rules'[k])  BY <1>5, <2>3
        <5> QED  BY <1>5, <2>1, <2>3, <3>1, <5>1, <5>2
      <4> QED  BY <4>1, <4>2
    <3>2. ASSUME NEW j \in 1..Len(rules'[k])
          PROVE  \E i \in 1..at :
                   RuleOf(document, i, k) /\ document[i].expr = rules'[k][j]
      <4>1. CASE j = Len(rules[k]) + 1
        BY <1>1, <1>4, <1>5, <2>3, <4>1, ReadOne DEF r
      <4>2. CASE j # Len(rules[k]) + 1
        <5>1. j \in 1..Len(rules[k])  BY <1>5, <2>3, <4>2
        <5> QED  BY <1>1, <1>5, <2>1, <2>3, <5>1, ReadOne
      <4> QED  BY <4>1, <4>2
    <3> QED  BY <3>1, <3>2
  <2> QED  BY <2>2, <2>3
<1> QED  BY <1>6 DEF RulesRead

LEMMA ReadOKInit == Init => ReadOK
<1> SUFFICES ASSUME Init  PROVE ReadOK
  OBVIOUS
<1>1. TypeOK  BY InitTyped
<1>2. pc = "read" /\ at = 1 /\ 1..(at - 1) = {} /\ Len(document) \in Nat
  BY <1>1, DocumentTyped DEF Init, TypeOK
<1>3. \A k \in ChainKey : 1..Len(rules[k]) = {} /\ chains[k] = Nowhere
  BY EmptySeq DEF Init
<1>4. dormant = {}  BY DEF Init
<1>5. ReadSoFar(at - 1)
  BY <1>2, <1>3, <1>4 DEF ReadSoFar, RulesRead, ChainsRead, DormantRead
<1> QED  BY <1>2, <1>5 DEF ReadOK

LEMMA ReadOKStep ==
  ASSUME TypeOK, ReadOK, [Next]_vars
  PROVE  ReadOK'
<1>0. at \in Nat \ {0} /\ Len(document) \in Nat
  BY DocumentTyped DEF TypeOK
<1>1. ASSUME ReadTable \/ ReadChain \/ ReadRule \/ ReadOther
      PROVE  ReadOK'
  <2>1. /\ pc = "read" /\ at <= Len(document) /\ pc' = "read" /\ at' = at + 1
        /\ document' = document
    BY <1>1 DEF ReadTable, ReadChain, ReadRule, ReadOther, AtObject
  <2>2. /\ RulesRead(document, rules, at - 1)
        /\ ChainsRead(document, chains, chainOrder, at - 1)
        /\ DormantRead(document, dormant, at - 1)
    BY <2>1 DEF ReadOK, ReadSoFar
  <2>3. at' - 1 = at /\ at' <= Len(document) + 1  BY <1>0, <2>1
  <2>4. RulesRead(document, rules', at)
    <3>1. CASE ReadRule  BY <3>1, ReadRuleOK
    <3>2. CASE ReadTable \/ ReadChain \/ ReadOther
      <4>1. rules' = rules /\ document[at].kind # "rule"
        BY <3>2 DEF ReadTable, ReadChain, ReadOther, AtObject, reading
      <4> QED  BY <2>1, <2>2, <4>1, SameRules
    <3> QED  BY <1>1, <3>1, <3>2
  <2>5. ChainsRead(document, chains', chainOrder', at)
    <3>1. CASE ReadChain  BY <3>1, ReadChainOK
    <3>2. CASE ReadTable \/ ReadRule \/ ReadOther
      <4>1. chains' = chains /\ chainOrder' = chainOrder
            /\ document[at].kind # "chain"
        BY <3>2 DEF ReadTable, ReadRule, ReadOther, AtObject, reading
      <4> QED  BY <2>1, <2>2, <4>1, SameChains
    <3> QED  BY <1>1, <3>1, <3>2
  <2>6. DormantRead(document, dormant', at)
    <3>1. CASE ReadTable  BY <3>1, ReadTableOK
    <3>2. CASE ReadChain \/ ReadRule \/ ReadOther
      <4>1. dormant' = dormant /\ document[at].kind # "table"
        BY <3>2 DEF ReadChain, ReadRule, ReadOther, AtObject, reading
      <4> QED  BY <2>1, <2>2, <4>1, SameDormant
    <3> QED  BY <1>1, <3>1, <3>2
  <2>7. /\ RulesRead(document', rules', at' - 1)
        /\ ChainsRead(document', chains', chainOrder', at' - 1)
        /\ DormantRead(document', dormant', at' - 1)
    BY <2>1, <2>3, <2>4, <2>5, <2>6
  <2> QED  BY <2>1, <2>3, <2>7 DEF ReadOK, ReadSoFar
<1>2. CASE FinishRead
  <2>1. /\ pc' = "chains" /\ at - 1 = Len(document) /\ ReadSoFar(at - 1)
        /\ UNCHANGED <<document, reading>>
    BY <1>0, <1>2 DEF FinishRead, ReadOK
  <2> QED  BY <2>1 DEF ReadOK, ReadSoFar, reading
<1>3. CASE /\ UNCHANGED <<document, reading>> /\ pc \notin {"read", "error"}
           /\ pc' \in {"chains", "search", "done"}
  BY <1>3 DEF TypeOK, ReadOK, ReadSoFar, reading
<1>4. CASE pc' = "error"  BY <1>4 DEF ReadOK
<1>5. CASE UNCHANGED vars
  BY <1>5 DEF ReadOK, ReadSoFar, vars, reading
<1>6. PassChain \/ PolicyDrop \/ StartSearch \/ Finish \/ VerdictRule \/ OtherRule
        \/ PassTarget \/ FollowTarget \/ ReturnFalse \/ NotFound
      => /\ UNCHANGED <<document, reading>> /\ pc \notin {"read", "error"}
         /\ pc' \in {"chains", "search", "done"}
  BY DEF PassChain, PolicyDrop, StartSearch, Finish, VerdictRule, OtherRule,
         PassTarget, FollowTarget, ReturnFalse, NotFound, AtRule, AtTarget, AtEnd,
         AtChain, Searching, EndSearch
<1>7. ReadFails => pc' = "error"  BY DEF ReadFails
<1> QED
  BY <1>1, <1>2, <1>3, <1>4, <1>5, <1>6, <1>7 DEF Next, Step, Done

(* Once all is read, an active chain is an input base chain, and the rules   *)
(* of a chain are those of the document.                                    *)
LEMMA AllRead ==
  ASSUME TypeOK, ReadOK, pc \in {"chains", "search", "done"}, NEW k \in ChainKey
  PROVE  /\ chains[k] # Nowhere =>
              /\ Active(k) <=> InputBase(document, k)
              /\ chains[k].policy = "drop" <=> PolicyDrops(document, k)
         /\ InputBase(document, k) =>
              \E p \in 1..Len(chainOrder) : chainOrder[p] = k
         /\ \A e : e \in Exprs(document, k) <=>
              \E j \in 1..Len(rules[k]) : rules[k][j] = e
<1> DEFINE n == Len(document)
<1>1. /\ RulesRead(document, rules, n)
      /\ ChainsRead(document, chains, chainOrder, n)
      /\ DormantRead(document, dormant, n)
  BY DEF ReadOK, ReadSoFar
<1>2. k.family \in Family /\ k.table \in Table  BY DEF ChainKey
<1>3. <<k.family, k.table>> \in dormant <=>
        \E i \in 1..n : DormantTable(document, i, k.family, k.table)
  BY <1>1, <1>2 DEF DormantRead
<1>4. <<k.family, k.table>> \in dormant <=>
        \E i \in 1..n :
          /\ document[i].kind = "table" /\ document[i].dormant
          /\ document[i].family = k.family /\ document[i].table = k.table
  BY <1>3 DEF DormantTable
<1>5. ASSUME chains[k] # Nowhere
      PROVE  \E i \in 1..n :
               document[i] = chains[k] /\ document[i].kind = "chain"
               /\ document[i].key = k
  BY <1>1, <1>5 DEF ChainsRead
<1>6. ASSUME NEW i \in 1..n, document[i].kind = "chain", document[i].key = k
      PROVE  chains[k] = document[i]
             /\ \E p \in 1..Len(chainOrder) : chainOrder[p] = k
  BY <1>1, <1>6 DEF ChainsRead
<1>7. chains[k] # Nowhere => (Active(k) <=> InputBase(document, k))
  BY <1>4, <1>5, <1>6 DEF Active, InputBase
<1>8. chains[k] # Nowhere =>
        (chains[k].policy = "drop" <=> PolicyDrops(document, k))
  BY <1>5, <1>6 DEF PolicyDrops
<1>9. InputBase(document, k) => \E p \in 1..Len(chainOrder) : chainOrder[p] = k
  BY <1>6 DEF InputBase
<1>10. \A e : e \in Exprs(document, k) <=>
                \E j \in 1..Len(rules[k]) : rules[k][j] = e
  <2>1. /\ \A i \in 1..n : RuleOf(document, i, k)
             => \E j \in 1..Len(rules[k]) : rules[k][j] = document[i].expr
        /\ \A j \in 1..Len(rules[k]) :
             \E i \in 1..n : RuleOf(document, i, k) /\ document[i].expr = rules[k][j]
    BY <1>1 DEF RulesRead
  <2>2. ASSUME NEW e \in Exprs(document, k)
        PROVE  \E j \in 1..Len(rules[k]) : rules[k][j] = e
    <3>1. PICK i \in 1..n : RuleOf(document, i, k) /\ e = document[i].expr
      BY DEF Exprs
    <3> QED  BY <2>1, <3>1
  <2>3. ASSUME NEW j \in 1..Len(rules[k])
        PROVE  rules[k][j] \in Exprs(document, k)
    <3>1. PICK i \in 1..n : RuleOf(document, i, k) /\ document[i].expr = rules[k][j]
      BY <2>1
    <3> QED  BY <3>1 DEF Exprs
  <2> QED  BY <2>2, <2>3
<1> QED  BY <1>7, <1>8, <1>9, <1>10
-----------------------------------------------------------------------------
(* Reach holds the chain itself and is closed under jumps, and is the least  *)
(* set that does so.                                                        *)
LEMMA ReachBase ==
  ASSUME NEW d, NEW k \in ChainKey
  PROVE  k.name \in Reach(d, k)
  BY DEF Reach, ChainKey

LEMMA ReachClosed ==
  ASSUME NEW d, NEW k, NEW m \in Reach(d, k), NEW n \in JumpsTo(d, In(k, m))
  PROVE  n \in Reach(d, k)
<1>1. n \in Name  BY DEF JumpsTo
<1>2. ASSUME NEW S \in SUBSET Name, k.name \in S, Closed(d, k, S)
      PROVE  n \in S
  <2>1. m \in S  BY <1>2 DEF Reach
  <2> QED  BY <1>2, <2>1 DEF Closed
<1> QED  BY <1>1, <1>2 DEF Reach

LEMMA ReachLeast ==
  ASSUME NEW d, NEW k, NEW S \in SUBSET Name, k.name \in S, Closed(d, k, S)
  PROVE  Reach(d, k) \subseteq S
  BY DEF Reach

(* A chain of the table of b is In(b, _) of its name.                       *)
LEMMA InTable ==
  ASSUME NEW b, NEW v, v = In(b, v.name), NEW n
  PROVE  In(v, n) = In(b, n) /\ In(b, n).name = n
         /\ In(b, n) = In(b, In(b, n).name)
<1>1. v.family = b.family /\ v.table = b.table
  BY DEF In
<1> QED  BY <1>1 DEF In

(* What a rule of chain k contains is what the document says of k.          *)
LEMMA RuleMeans ==
  ASSUME TypeOK, ReadOK, pc \in {"chains", "search", "done"}, NEW k \in ChainKey,
         NEW j \in 1..Len(rules[k]), NEW e, e = rules[k][j]
  PROVE  /\ e \in SUBSET Item
         /\ Verdict(e) => Drops(document, k)
         /\ Targets(e) \subseteq JumpsTo(document, k)
<1>1. e \in Exprs(document, k)  BY AllRead
<1>2. e \in SUBSET Item
  <2>1. rules[k] \in Seq(SUBSET Item)  BY DEF TypeOK
  <2> QED  BY <2>1, ElementOfSeq
<1>3. Verdict(e) => Drops(document, k)
  BY <1>1 DEF Verdict, Met, Drops
<1>4. Targets(e) \subseteq JumpsTo(document, k)
  BY <1>1, <1>2, TargetsTyped DEF Targets, Met, JumpsTo
<1> QED  BY <1>2, <1>3, <1>4

(* A search is at an input base chain whose policy lets packets pass; every  *)
(* chain it has entered can be got to from there, and so can the targets it  *)
(* has yet to follow.                                                       *)
Searched == chainOrder[at]

EnteredReal(d, b, vis) == \A v \in vis : v = In(b, v.name) /\ v.name \in Reach(d, b)
TargetsReal(d, s) ==
  \A i \in 1..Len(s) : s[i].targets \subseteq JumpsTo(d, s[i].chain)

SearchOK ==
  pc = "search" =>
    /\ InputBase(document, Searched) /\ ~PolicyDrops(document, Searched)
    /\ stack[1].chain = Searched
    /\ EnteredReal(document, Searched, visited)
    /\ TargetsReal(document, stack)

LEMMA StartSearchOK ==
  ASSUME TypeOK, ReadOK, StartSearch
  PROVE  SearchOK'
<1>1. PICK k \in ChainKey :
        /\ AtChain(k) /\ Active(k) /\ chains[k].policy # "drop"
        /\ visited' = {k} /\ stack' = <<NewFrame(k)>>
        /\ UNCHANGED <<document, at, reading>>
  BY DEF StartSearch
<1>2. pc = "chains" /\ k = chainOrder[at] /\ at \in 1..Len(chainOrder)
  BY <1>1 DEF AtChain, TypeOK
<1>3. chains[k] # Nowhere  BY <1>2 DEF TypeOK
<1>4. InputBase(document, k) /\ ~PolicyDrops(document, k)
  BY <1>1, <1>2, <1>3, AllRead
<1>5. k = In(k, k.name) /\ k.name \in Reach(document, k)
  BY ReachBase DEF In, ChainKey
<1>6. stack'[1].chain = k /\ stack'[1].targets = {} /\ Len(stack') = 1
  BY <1>1 DEF NewFrame
<1>7. EnteredReal(document, k, visited') /\ TargetsReal(document, stack')
  BY <1>1, <1>5, <1>6 DEF EnteredReal, TargetsReal
<1>8. document' = document /\ Searched' = k
  BY <1>1, <1>2 DEF Searched, reading
<1>9. stack'[1].chain = Searched'  BY <1>6, <1>8
<1>10. /\ InputBase(document', Searched') /\ ~PolicyDrops(document', Searched')
       /\ EnteredReal(document', Searched', visited')
       /\ TargetsReal(document', stack')
  BY <1>4, <1>7, <1>8
<1> QED  BY <1>9, <1>10 DEF SearchOK

LEMMA SearchOKMoves ==
  ASSUME TypeOK, SearchOK, pc = "search",
         UNCHANGED <<document, pc, at, reading>>, stack'[1].chain = stack[1].chain,
         EnteredReal(document, Searched, visited'), TargetsReal(document, stack')
  PROVE  SearchOK'
<1>1. Searched' = Searched  BY DEF Searched, reading
<1> QED  BY <1>1 DEF SearchOK

LEMMA SearchOKStep ==
  ASSUME TypeOK, ReadOK, SearchOK, [Next]_vars
  PROVE  SearchOK'
<1>1. CASE StartSearch  BY <1>1, StartSearchOK
<1>2. CASE OtherRule \/ PassTarget
  <2>1. PICK f \in Frame :
          /\ pc = "search" /\ f.chain = Top.chain
          /\ stack' = Append(Callers, f)
          /\ \/ /\ f.targets = Targets(Expr) /\ Expr = rules[Top.chain][Top.rule]
                /\ Top.rule \in 1..Len(rules[Top.chain])
             \/ f.targets \subseteq Top.targets
    BY <1>2, OtherRuleMoves, PassTargetMoves
  <2>2. /\ Len(stack) \in Nat \ {0} /\ Len(stack') = Len(stack)
        /\ Top = stack[Len(stack)] /\ stack'[Len(stack)] = f
        /\ \A i \in 1 .. Len(stack) - 1 : stack'[i] = stack[i]
        /\ \A i \in 1..Len(stack) : stack'[i].chain = stack[i].chain
    BY <2>1, TopMoves
  <2>3. TargetsReal(document, stack)  BY <2>1 DEF SearchOK
  <2>4. f.targets \subseteq JumpsTo(document, f.chain)
    <3>1. CASE f.targets = Targets(Expr) /\ Expr = rules[Top.chain][Top.rule]
               /\ Top.rule \in 1..Len(rules[Top.chain])
      <4>1. Top.chain \in ChainKey  BY <2>1, SearchTyped
      <4> QED  BY <2>1, <3>1, <4>1, RuleMeans
    <3>2. CASE f.targets \subseteq Top.targets
      BY <2>1, <2>2, <2>3, <3>2 DEF TargetsReal
    <3> QED  BY <2>1, <3>1, <3>2
  <2>5. TargetsReal(document, stack')
    <3>1. ASSUME NEW i \in 1..Len(stack')
          PROVE  stack'[i].targets \subseteq JumpsTo(document, stack'[i].chain)
      <4>1. CASE i = Len(stack)  BY <2>2, <2>4, <4>1
      <4>2. CASE i # Len(stack)
        <5>1. i \in 1 .. Len(stack) - 1 /\ i \in 1..Len(stack)  BY <2>2, <4>2
        <5> QED  BY <2>2, <2>3, <5>1 DEF TargetsReal
      <4> QED  BY <4>1, <4>2
    <3> QED  BY <3>1 DEF TargetsReal
  <2>6. /\ UNCHANGED <<document, pc, at, reading, visited>>
        /\ stack'[1].chain = stack[1].chain
    BY <1>2, <2>2 DEF OtherRule, PassTarget
  <2>7. EnteredReal(document, Searched, visited')  BY <2>1, <2>6 DEF SearchOK
  <2> QED  BY <2>1, <2>5, <2>6, <2>7, SearchOKMoves
<1>3. CASE FollowTarget
  <2>1. PICK f \in Frame, g \in Frame, name \in Name :
          /\ pc = "search" /\ Len(stack) \in Nat \ {0}
          /\ Top = stack[Len(stack)]
          /\ f.chain = Top.chain /\ name \in Top.targets
          /\ f.targets = Top.targets \ {name}
          /\ g = NewFrame(In(Top.chain, name))
          /\ visited' = visited \cup {In(Top.chain, name)}
          /\ Len(stack') = Len(stack) + 1
          /\ stack'[Len(stack)] = f /\ stack'[Len(stack) + 1] = g
          /\ \A i \in 1 .. Len(stack) - 1 : stack'[i] = stack[i]
    BY <1>3, FollowTargetMoves
  <2>2. /\ EnteredReal(document, Searched, visited)
        /\ TargetsReal(document, stack)
    BY <2>1 DEF SearchOK
  <2>3. /\ Top.chain = In(Searched, Top.chain.name)
        /\ Top.chain.name \in Reach(document, Searched)
    BY <2>1, <2>2, SearchTyped DEF EnteredReal
  <2>4. Top.targets \subseteq JumpsTo(document, Top.chain)
    BY <2>1, <2>2 DEF TargetsReal
  <2>5. name \in Reach(document, Searched)
    BY <2>1, <2>3, <2>4, ReachClosed
  <2>6. In(Top.chain, name) = In(Searched, In(Top.chain, name).name)
        /\ In(Top.chain, name).name = name
    BY <2>3, InTable
  <2>7. EnteredReal(document, Searched, visited')
    BY <2>1, <2>2, <2>5, <2>6 DEF EnteredReal
  <2>8. TargetsReal(document, stack')
    <3>1. ASSUME NEW i \in 1..Len(stack')
          PROVE  stack'[i].targets \subseteq JumpsTo(document, stack'[i].chain)
      <4>1. CASE i = Len(stack)  BY <2>1, <2>4, <4>1
      <4>2. CASE i = Len(stack) + 1  BY <2>1, <4>2 DEF NewFrame
      <4>3. CASE i \notin {Len(stack), Len(stack) + 1}
        <5>1. i \in 1 .. Len(stack) - 1 /\ i \in 1..Len(stack)  BY <2>1, <4>3
        <5> QED  BY <2>1, <2>2, <5>1 DEF TargetsReal
      <4> QED  BY <4>1, <4>2, <4>3
    <3> QED  BY <3>1 DEF TargetsReal
  <2>9. UNCHANGED <<document, pc, at, reading>>  BY <1>3 DEF FollowTarget
  <2>10. stack'[1].chain = stack[1].chain  BY <2>1
  <2> QED  BY <2>1, <2>7, <2>8, <2>9, <2>10, SearchOKMoves
<1>4. CASE ReturnFalse
  <2>1. /\ pc = "search" /\ Len(stack) \in Nat \ {0} /\ Len(stack) > 1
        /\ Len(stack') = Len(stack) - 1
        /\ \A i \in 1 .. Len(stack) - 1 : stack'[i] = stack[i]
    BY <1>4, ReturnMoves
  <2>2. UNCHANGED <<document, pc, at, reading, visited>>  BY <1>4 DEF ReturnFalse
  <2>3. /\ EnteredReal(document, Searched, visited')
        /\ TargetsReal(document, stack)
    BY <2>1, <2>2 DEF SearchOK
  <2>4. TargetsReal(document, stack')  BY <2>1, <2>3 DEF TargetsReal
  <2> QED  BY <2>1, <2>2, <2>3, <2>4, SearchOKMoves
<1>5. CASE UNCHANGED vars
  BY <1>5 DEF vars, search, SearchOK, Searched, reading
<1>6. CASE pc' # "search"  BY <1>6 DEF SearchOK
<1>7. ReadTable \/ ReadChain \/ ReadRule \/ ReadOther \/ ReadFails \/ FinishRead
        \/ PassChain \/ PolicyDrop \/ Finish \/ VerdictRule \/ NotFound
      => pc' # "search"
  BY DEF ReadTable, ReadChain, ReadRule, ReadOther, ReadFails, FinishRead,
         PassChain, PolicyDrop, Finish, VerdictRule, NotFound, AtObject, AtChain,
         EndSearch
<1> QED
  BY <1>1, <1>2, <1>3, <1>4, <1>5, <1>6, <1>7 DEF Next, Step, Done

LEMMA RealStep ==
  ASSUME TypeOK, ReadOK, SearchOK, FilteringIsReal, [Next]_vars
  PROVE  FilteringIsReal'
<1>0. filtering \in Seq(ChainKey) /\ document' = document
  BY DEF TypeOK, Next, Step, Done, vars, ReadTable, ReadChain, ReadRule, ReadOther,
         ReadFails, FinishRead, PassChain, PolicyDrop, StartSearch, Finish,
         VerdictRule, OtherRule, PassTarget, FollowTarget, ReturnFalse, NotFound
<1>1. ASSUME NEW k \in ChainKey, Found(k), Filters(document, k)
      PROVE  FilteringIsReal'
  BY <1>0, <1>1, AppendProperties DEF FilteringIsReal, Found
<1>2. CASE filtering' = filtering  BY <1>0, <1>2 DEF FilteringIsReal
<1>3. CASE PolicyDrop
  <2>1. PICK k \in ChainKey :
          AtChain(k) /\ Active(k) /\ chains[k].policy = "drop" /\ Found(k)
    BY <1>3 DEF PolicyDrop
  <2>2. pc = "chains" /\ chains[k] # Nowhere
    BY <2>1 DEF AtChain, TypeOK
  <2> QED  BY <1>1, <2>1, <2>2, AllRead DEF Filters
<1>4. CASE VerdictRule
  <2>1. pc = "search" /\ Found(Searched) /\ Verdict(Expr)
        /\ Top.rule <= Len(rules[Top.chain])
    BY <1>4 DEF VerdictRule, AtRule, Searching, Searched
  <2>2. /\ Top.chain \in ChainKey /\ Top.chain \in visited
        /\ Top.rule \in 1..Len(rules[Top.chain])
        /\ Searched \in ChainKey
    BY <2>1, SearchTyped, LenProperties DEF Searched
  <2>3. Drops(document, Top.chain)  BY <2>1, <2>2, RuleMeans DEF Expr
  <2>4. /\ InputBase(document, Searched)
        /\ Top.chain = In(Searched, Top.chain.name)
        /\ Top.chain.name \in Reach(document, Searched)
    BY <2>1, <2>2 DEF SearchOK, EnteredReal
  <2> QED  BY <1>1, <2>1, <2>2, <2>3, <2>4 DEF Filters, DropReachable
<1> QED
  BY <1>2, <1>3, <1>4
  DEF Next, Step, Done, vars, result, ReadTable, ReadChain, ReadRule, ReadOther,
      ReadFails, FinishRead, PassChain, StartSearch, Finish, OtherRule, PassTarget,
      FollowTarget, ReturnFalse, NotFound

(* Nothing is reported as filtering that is not, for every ruleset.         *)
THEOREM FilteringFoundIsReal == Spec => []FilteringIsReal
<1>1. Init => TypeOK /\ ReadOK /\ SearchOK /\ FilteringIsReal
  <2> SUFFICES ASSUME Init  PROVE TypeOK /\ ReadOK /\ SearchOK /\ FilteringIsReal
    OBVIOUS
  <2>1. Len(filtering) = 0 /\ pc = "read"  BY EmptySeq DEF Init
  <2> QED  BY <2>1, InitTyped, ReadOKInit DEF SearchOK, FilteringIsReal
<1>2. TypeOK /\ ReadOK /\ SearchOK /\ FilteringIsReal /\ TypeOK' /\ [Next]_vars
        => ReadOK' /\ SearchOK' /\ FilteringIsReal'
  BY ReadOKStep, SearchOKStep, RealStep
<1> QED  BY <1>1, <1>2, TypeCorrect, PTL DEF Spec
-----------------------------------------------------------------------------
(* The chains of the active calls lie ever lower in every numbering in which *)
(* jumps descend: this is why the bound on the depth never cuts a search of  *)
(* a ruleset the kernel accepts.                                            *)
HeightOK ==
  pc = "search" =>
    \A h \in [Name -> 0..MaxExprDepth] : Descends(document, Searched, h) =>
      \A i \in 1..Len(stack) : h[stack[i].chain.name] <= MaxExprDepth - i + 1

(* The rules a call has looked at do not drop, and their targets have been    *)
(* entered or are still to be followed; a chain whose call has returned has  *)
(* been looked at as a whole.                                               *)
RuleDone(e, b, vis, todo) ==
  ~Verdict(e) /\ \A n \in Targets(e) : In(b, n) \in vis \/ n \in todo

FrameDone(rs, b, f, vis) ==
  \A j \in 1 .. f.rule - 1 : RuleDone(rs[f.chain][j], b, vis, f.targets)

ChainDone(rs, b, v, vis) == \A j \in 1..Len(rs[v]) : RuleDone(rs[v][j], b, vis, {})

AllDone(rs, b, s, vis) ==
  /\ \A i \in 1..Len(s) : FrameDone(rs, b, s[i], vis)
  /\ \A v \in vis : (\A i \in 1..Len(s) : s[i].chain # v) => ChainDone(rs, b, v, vis)

DoneOK ==
  pc = "search" /\ FromKernel(document) => AllDone(rules, Searched, stack, visited)

(* Every chain before the current one that filters has been reported.       *)
Answered ==
  FromKernel(document) /\ pc \in {"chains", "search", "done"} =>
    \A p \in 1..Len(chainOrder) :
      (pc = "done" \/ p < at) /\ Filters(document, chainOrder[p])
        => \E i \in 1..Len(filtering) : filtering[i] = chainOrder[p]

(* The jump to a target of the frame on top descends.                       *)
LEMMA TargetDescends ==
  ASSUME TypeOK, SearchOK, pc = "search",
         NEW h \in [Name -> 0..MaxExprDepth], Descends(document, Searched, h),
         NEW name \in Top.targets
  PROVE  /\ name \in Name /\ Top.chain.name \in Name
         /\ h[name] < h[Top.chain.name]
<1>1. /\ Top \in Frame /\ Top.chain \in visited /\ Top.chain \in ChainKey
      /\ Len(stack) \in Nat \ {0} /\ Top = stack[Len(stack)]
  BY SearchTyped, Stacked DEF Top
<1>2. Top.targets \subseteq JumpsTo(document, Top.chain)
  BY <1>1 DEF SearchOK, TargetsReal
<1>3. Top.chain = In(Searched, Top.chain.name)
  BY <1>1 DEF SearchOK, EnteredReal
<1>4. name \in Name /\ Top.chain.name \in Name
  BY <1>1 DEF Frame, ChainKey
<1> QED  BY <1>2, <1>3, <1>4 DEF Descends

LEMMA HeightStep ==
  ASSUME TypeOK, SearchOK, HeightOK, [Next]_vars
  PROVE  HeightOK'
<1>0. MaxExprDepth \in Nat  BY DepthAssumption
<1>1. CASE StartSearch
  <2>1. PICK k \in ChainKey : stack' = <<NewFrame(k)>>  BY <1>1 DEF StartSearch
  <2>2. Len(stack') = 1 /\ stack'[1].chain.name \in Name
    BY <2>1 DEF NewFrame, ChainKey
  <2>3. ASSUME NEW h \in [Name -> 0..MaxExprDepth], NEW i \in 1..Len(stack')
        PROVE  h[stack'[i].chain.name] <= MaxExprDepth - i + 1
    <3>1. i = 1 /\ h[stack'[1].chain.name] \in 0..MaxExprDepth  BY <2>2
    <3> QED  BY <1>0, <3>1
  <2> QED  BY <2>3 DEF HeightOK
<1>2. CASE /\ pc = "search" /\ UNCHANGED <<document, at, chainOrder>>
           /\ Len(stack') <= Len(stack) /\ Len(stack) \in Nat /\ Len(stack') \in Nat
           /\ \A i \in 1..Len(stack') : stack'[i].chain = stack[i].chain
  <2>1. \A i \in 1..Len(stack') : i \in 1..Len(stack)  BY <1>2
  <2> QED  BY <1>2, <2>1 DEF HeightOK, Searched
<1>3. CASE FollowTarget
  <2>1. PICK f \in Frame, g \in Frame, name \in Name :
          /\ pc = "search" /\ Len(stack) \in Nat \ {0}
          /\ Top = stack[Len(stack)]
          /\ f.chain = Top.chain /\ name \in Top.targets
          /\ g = NewFrame(In(Top.chain, name))
          /\ Len(stack') = Len(stack) + 1
          /\ stack'[Len(stack)] = f /\ stack'[Len(stack) + 1] = g
          /\ \A i \in 1 .. Len(stack) - 1 : stack'[i] = stack[i]
    BY <1>3, FollowTargetMoves
  <2>2. document' = document /\ Searched' = Searched
    BY <1>3 DEF FollowTarget, Searched, reading
  <2>3. g.chain.name = name  BY <2>1 DEF NewFrame, In
  <2>4. ASSUME NEW h \in [Name -> 0..MaxExprDepth],
               Descends(document, Searched, h), NEW i \in 1..Len(stack')
        PROVE  h[stack'[i].chain.name] <= MaxExprDepth - i + 1
    <3>1. \A j \in 1..Len(stack) : h[stack[j].chain.name] <= MaxExprDepth - j + 1
      BY <2>1, <2>4 DEF HeightOK
    <3>2. CASE i = Len(stack)  BY <2>1, <3>1, <3>2
    <3>3. CASE i = Len(stack) + 1
      <4>1. h[Top.chain.name] <= MaxExprDepth - Len(stack) + 1
        BY <2>1, <3>1
      <4>2. h[name] < h[Top.chain.name] /\ name \in Name /\ Top.chain.name \in Name
        BY <2>1, <2>4, TargetDescends
      <4>3. h[name] \in Int /\ h[Top.chain.name] \in Int  BY <4>2
      <4>4. stack'[i].chain.name = name  BY <2>1, <2>3, <3>3
      <4> QED  BY <1>0, <2>1, <3>3, <4>1, <4>2, <4>3, <4>4
    <3>4. CASE i \notin {Len(stack), Len(stack) + 1}
      <4>1. i \in 1 .. Len(stack) - 1 /\ i \in 1..Len(stack)  BY <2>1, <3>4
      <4> QED  BY <2>1, <3>1, <4>1
    <3> QED  BY <3>2, <3>3, <3>4
  <2> QED  BY <2>2, <2>4 DEF HeightOK
<1>4. CASE OtherRule \/ PassTarget
  <2>1. PICK f \in Frame : f.chain = Top.chain /\ stack' = Append(Callers, f)
                           /\ pc = "search"
    BY <1>4, OtherRuleMoves, PassTargetMoves
  <2>2. UNCHANGED <<document, at, chainOrder>>
    BY <1>4 DEF OtherRule, PassTarget, reading
  <2> QED  BY <1>2, <2>1, <2>2, TopMoves
<1>5. CASE ReturnFalse
  <2>1. UNCHANGED <<document, at, chainOrder>>  BY <1>5 DEF ReturnFalse, reading
  <2> QED  BY <1>2, <1>5, <2>1, ReturnMoves
<1>6. CASE UNCHANGED vars
  BY <1>6 DEF vars, search, HeightOK, Searched, reading
<1>7. CASE pc' # "search"  BY <1>7 DEF HeightOK
<1>8. ReadTable \/ ReadChain \/ ReadRule \/ ReadOther \/ ReadFails \/ FinishRead
        \/ PassChain \/ PolicyDrop \/ Finish \/ VerdictRule \/ NotFound
      => pc' # "search"
  BY DEF ReadTable, ReadChain, ReadRule, ReadOther, ReadFails, FinishRead,
         PassChain, PolicyDrop, Finish, VerdictRule, NotFound, AtObject, AtChain,
         EndSearch
<1> QED
  BY <1>1, <1>3, <1>4, <1>5, <1>6, <1>7, <1>8 DEF Next, Step, Done

(* A target that is passed over has been entered already.                   *)
LEMMA NeverCut ==
  ASSUME TypeOK, SearchOK, HeightOK, pc = "search", FromKernel(document),
         NEW name \in Top.targets, Cut(In(Top.chain, name))
  PROVE  In(Top.chain, name) \in visited
<1>1. SUFFICES ASSUME Len(stack) > MaxExprDepth  PROVE FALSE
  BY DEF Cut
<1>2. Searched \in ChainKey  BY SearchTyped DEF Searched
<1>3. PICK h \in [Name -> 0..MaxExprDepth] : Descends(document, Searched, h)
  BY <1>2 DEF FromKernel, Nested
<1>4. Len(stack) \in Nat \ {0} /\ Top = stack[Len(stack)]
  BY SearchTyped, Stacked DEF Top
<1>5. h[Top.chain.name] <= MaxExprDepth - Len(stack) + 1
  BY <1>3, <1>4 DEF HeightOK
<1>6. /\ name \in Name /\ Top.chain.name \in Name /\ h[name] < h[Top.chain.name]
  BY <1>3, TargetDescends
<1>7. h[name] \in 0..MaxExprDepth /\ h[Top.chain.name] \in 0..MaxExprDepth
  BY <1>6
<1> QED  BY <1>1, <1>4, <1>5, <1>6, <1>7, DepthAssumption

(* A search that goes on keeps what its calls have done.                    *)
LEMMA DoneGrows ==
  ASSUME NEW rs, NEW b, NEW vis, NEW more, vis \subseteq more
  PROVE  /\ \A v : ChainDone(rs, b, v, vis) => ChainDone(rs, b, v, more)
         /\ \A f : FrameDone(rs, b, f, vis) => FrameDone(rs, b, f, more)
  BY DEF ChainDone, FrameDone, RuleDone

LEMMA StartDone ==
  ASSUME TypeOK, StartSearch
  PROVE  DoneOK'
<1>1. PICK k \in ChainKey : visited' = {k} /\ stack' = <<NewFrame(k)>>
  BY DEF StartSearch
<1>2. /\ Len(stack') = 1 /\ stack'[1].chain = k /\ stack'[1].rule = 1
  BY <1>1 DEF NewFrame
<1>3. \A i \in 1..Len(stack') : FrameDone(rules', Searched', stack'[i], visited')
  BY <1>2 DEF FrameDone
<1>4. \A v \in visited' : v = stack'[1].chain /\ 1 \in 1..Len(stack')
  BY <1>1, <1>2
<1>5. AllDone(rules', Searched', stack', visited')
  BY <1>3, <1>4 DEF AllDone
<1> QED  BY <1>5 DEF DoneOK

(* The rule the frame on top leaves behind is done.                         *)
LEMMA OtherRuleDone ==
  ASSUME TypeOK, DoneOK, OtherRule, FromKernel(document)
  PROVE  AllDone(rules, Searched, stack', visited)
<1>1. PICK f \in Frame :
        /\ pc = "search" /\ stack' = Append(Callers, f)
        /\ f.chain = Top.chain /\ f.rule = Top.rule + 1
        /\ f.targets = Targets(Expr) /\ Top.targets = {}
        /\ Top.rule \in 1..Len(rules[Top.chain])
        /\ Expr = rules[Top.chain][Top.rule] /\ ~Verdict(Expr)
  BY OtherRuleMoves
<1>2. AllDone(rules, Searched, stack, visited)  BY <1>1 DEF DoneOK
<1>3. /\ Len(stack) \in Nat \ {0} /\ Len(stack') = Len(stack)
      /\ Top = stack[Len(stack)] /\ stack'[Len(stack)] = f
      /\ \A i \in 1 .. Len(stack) - 1 : stack'[i] = stack[i]
      /\ \A i \in 1..Len(stack) : stack'[i].chain = stack[i].chain
  BY <1>1, TopMoves
<1>4. FrameDone(rules, Searched, f, visited)
  <2>1. ASSUME NEW j \in 1 .. f.rule - 1
        PROVE  RuleDone(rules[f.chain][j], Searched, visited, f.targets)
    <3>1. CASE j = Top.rule  BY <1>1, <3>1 DEF RuleDone
    <3>2. CASE j # Top.rule
      <4>1. j \in 1 .. Top.rule - 1  BY <1>1, <3>2
      <4>2. FrameDone(rules, Searched, Top, visited)
        BY <1>2, <1>3 DEF AllDone
      <4> QED  BY <1>1, <4>1, <4>2 DEF FrameDone, RuleDone
    <3> QED  BY <3>1, <3>2
  <2> QED  BY <2>1 DEF FrameDone
<1>5. ASSUME NEW i \in 1..Len(stack')
      PROVE  FrameDone(rules, Searched, stack'[i], visited)
  <2>1. CASE i = Len(stack)  BY <1>3, <1>4, <2>1
  <2>2. CASE i # Len(stack)
    <3>1. i \in 1 .. Len(stack) - 1 /\ i \in 1..Len(stack)  BY <1>3, <2>2
    <3> QED  BY <1>2, <1>3, <3>1 DEF AllDone
  <2> QED  BY <2>1, <2>2
<1>6. ASSUME NEW v \in visited, \A i \in 1..Len(stack') : stack'[i].chain # v
      PROVE  ChainDone(rules, Searched, v, visited)
  BY <1>2, <1>3, <1>6 DEF AllDone
<1> QED  BY <1>5, <1>6 DEF AllDone

(* A target passed over has been entered, so it is no longer to be followed. *)
LEMMA PassTargetDone ==
  ASSUME TypeOK, SearchOK, HeightOK, DoneOK, PassTarget, FromKernel(document)
  PROVE  AllDone(rules, Searched, stack', visited)
<1>1. PICK f \in Frame, name \in Name :
        /\ pc = "search" /\ stack' = Append(Callers, f)
        /\ f.chain = Top.chain /\ f.rule = Top.rule
        /\ name \in Top.targets /\ f.targets = Top.targets \ {name}
        /\ Cut(In(Top.chain, name))
  BY PassTargetMoves
<1>2. AllDone(rules, Searched, stack, visited)  BY <1>1 DEF DoneOK
<1>3. /\ Len(stack) \in Nat \ {0} /\ Len(stack') = Len(stack)
      /\ Top = stack[Len(stack)] /\ stack'[Len(stack)] = f
      /\ \A i \in 1 .. Len(stack) - 1 : stack'[i] = stack[i]
      /\ \A i \in 1..Len(stack) : stack'[i].chain = stack[i].chain
  BY <1>1, TopMoves
<1>4. In(Searched, name) \in visited
  <2>1. In(Top.chain, name) \in visited  BY <1>1, NeverCut
  <2>2. Top.chain = In(Searched, Top.chain.name)
    BY <1>1, SearchTyped DEF SearchOK, EnteredReal
  <2> QED  BY <2>1, <2>2, InTable
<1>5. FrameDone(rules, Searched, f, visited)
  <2>1. FrameDone(rules, Searched, Top, visited)  BY <1>2, <1>3 DEF AllDone
  <2> QED  BY <1>1, <1>4, <2>1 DEF FrameDone, RuleDone
<1>6. ASSUME NEW i \in 1..Len(stack')
      PROVE  FrameDone(rules, Searched, stack'[i], visited)
  <2>1. CASE i = Len(stack)  BY <1>3, <1>5, <2>1
  <2>2. CASE i # Len(stack)
    <3>1. i \in 1 .. Len(stack) - 1 /\ i \in 1..Len(stack)  BY <1>3, <2>2
    <3> QED  BY <1>2, <1>3, <3>1 DEF AllDone
  <2> QED  BY <2>1, <2>2
<1>7. ASSUME NEW v \in visited, \A i \in 1..Len(stack') : stack'[i].chain # v
      PROVE  ChainDone(rules, Searched, v, visited)
  BY <1>2, <1>3, <1>7 DEF AllDone
<1> QED  BY <1>6, <1>7 DEF AllDone

(* A target that is followed has been entered.                              *)
LEMMA FollowTargetDone ==
  ASSUME TypeOK, SearchOK, DoneOK, FollowTarget, FromKernel(document)
  PROVE  AllDone(rules, Searched, stack', visited')
<1>1. PICK f \in Frame, g \in Frame, name \in Name :
        /\ pc = "search" /\ Len(stack) \in Nat \ {0}
        /\ Top = stack[Len(stack)]
        /\ f.chain = Top.chain /\ f.rule = Top.rule
        /\ name \in Top.targets /\ f.targets = Top.targets \ {name}
        /\ g = NewFrame(In(Top.chain, name))
        /\ visited' = visited \cup {In(Top.chain, name)}
        /\ Len(stack') = Len(stack) + 1
        /\ stack'[Len(stack)] = f /\ stack'[Len(stack) + 1] = g
        /\ \A i \in 1 .. Len(stack) - 1 : stack'[i] = stack[i]
  BY FollowTargetMoves
<1>2. AllDone(rules, Searched, stack, visited)  BY <1>1 DEF DoneOK
<1>3. /\ \A i \in 1..Len(stack) : FrameDone(rules, Searched, stack[i], visited')
      /\ \A v \in visited : (\A i \in 1..Len(stack) : stack[i].chain # v)
           => ChainDone(rules, Searched, v, visited')
  BY <1>1, <1>2, DoneGrows DEF AllDone
<1>4. In(Searched, name) \in visited'
  <2>1. Top.chain = In(Searched, Top.chain.name)
    BY <1>1, SearchTyped DEF SearchOK, EnteredReal
  <2> QED  BY <1>1, <2>1, InTable
<1>5. FrameDone(rules, Searched, f, visited')
  <2>0. Len(stack) \in 1..Len(stack) /\ Top = stack[Len(stack)]  BY <1>1
  <2>1. FrameDone(rules, Searched, Top, visited')  BY <1>3, <2>0
  <2> QED  BY <1>1, <1>4, <2>1 DEF FrameDone, RuleDone
<1>6. FrameDone(rules, Searched, g, visited')
  BY <1>1 DEF FrameDone, NewFrame
<1>7. ASSUME NEW i \in 1..Len(stack')
      PROVE  FrameDone(rules, Searched, stack'[i], visited')
  <2>1. CASE i = Len(stack)  BY <1>1, <1>5, <2>1
  <2>2. CASE i = Len(stack) + 1  BY <1>1, <1>6, <2>2
  <2>3. CASE i \notin {Len(stack), Len(stack) + 1}
    <3>1. i \in 1 .. Len(stack) - 1 /\ i \in 1..Len(stack)  BY <1>1, <2>3
    <3> QED  BY <1>1, <1>3, <3>1
  <2> QED  BY <2>1, <2>2, <2>3
<1>8. ASSUME NEW v \in visited', \A i \in 1..Len(stack') : stack'[i].chain # v
      PROVE  ChainDone(rules, Searched, v, visited')
  <2>1. v # g.chain
    <3>1. Len(stack) + 1 \in 1..Len(stack')  BY <1>1
    <3> QED  BY <1>1, <1>8, <3>1
  <2>2. v \in visited  BY <1>1, <2>1 DEF NewFrame
  <2>3. ASSUME NEW i \in 1..Len(stack)  PROVE stack[i].chain # v
    <3>1. i \in 1..Len(stack')  BY <1>1
    <3>2. CASE i = Len(stack)  BY <1>1, <1>8, <3>1, <3>2
    <3>3. CASE i # Len(stack)
      <4>1. i \in 1 .. Len(stack) - 1  BY <1>1, <3>3
      <4> QED  BY <1>1, <1>8, <3>1, <4>1
    <3> QED  BY <3>2, <3>3
  <2> QED  BY <1>3, <2>2, <2>3
<1> QED  BY <1>7, <1>8 DEF AllDone

(* A call that is past its last rule has done its chain.                    *)
LEMMA EndDone ==
  ASSUME TypeOK, pc = "search", AllDone(rules, Searched, stack, visited),
         Top.targets = {}, Top.rule > Len(rules[Top.chain])
  PROVE  ChainDone(rules, Searched, Top.chain, visited)
<1>1. /\ Len(stack) \in Nat \ {0} /\ Top = stack[Len(stack)]
      /\ Top.rule \in Nat /\ Len(rules[Top.chain]) \in Nat
  BY SearchTyped, Stacked, LenProperties DEF Top
<1>2. FrameDone(rules, Searched, Top, visited)  BY <1>1 DEF AllDone
<1>3. \A j \in 1..Len(rules[Top.chain]) : j \in 1 .. Top.rule - 1
  BY <1>1
<1> QED  BY <1>2, <1>3 DEF FrameDone, ChainDone

LEMMA ReturnDone ==
  ASSUME TypeOK, DoneOK, ReturnFalse, FromKernel(document)
  PROVE  AllDone(rules, Searched, stack', visited)
<1>1. /\ pc = "search" /\ Len(stack) \in Nat \ {0}
      /\ Top = stack[Len(stack)]
      /\ Top.targets = {} /\ Top.rule > Len(rules[Top.chain])
      /\ Len(stack') = Len(stack) - 1
      /\ \A i \in 1 .. Len(stack) - 1 : stack'[i] = stack[i]
  BY ReturnMoves
<1>2. AllDone(rules, Searched, stack, visited)  BY <1>1 DEF DoneOK
<1>3. ChainDone(rules, Searched, Top.chain, visited)  BY <1>1, <1>2, EndDone
<1>4. ASSUME NEW v \in visited, \A i \in 1..Len(stack') : stack'[i].chain # v,
             v # Top.chain
      PROVE  ChainDone(rules, Searched, v, visited)
  <2>1. ASSUME NEW i \in 1..Len(stack)  PROVE stack[i].chain # v
    <3>1. CASE i = Len(stack)  BY <1>1, <1>4, <3>1
    <3>2. CASE i # Len(stack)
      <4>1. i \in 1..Len(stack') /\ i \in 1 .. Len(stack) - 1  BY <1>1, <3>2
      <4> QED  BY <1>1, <1>4, <4>1
    <3> QED  BY <3>1, <3>2
  <2> QED  BY <1>2, <2>1 DEF AllDone
<1>5. \A i \in 1..Len(stack') : i \in 1..Len(stack) /\ stack'[i] = stack[i]
  BY <1>1
<1>6. \A i \in 1..Len(stack') : FrameDone(rules, Searched, stack'[i], visited)
  BY <1>2, <1>5 DEF AllDone
<1> QED  BY <1>3, <1>4, <1>6 DEF AllDone

LEMMA DoneStep ==
  ASSUME TypeOK, SearchOK, HeightOK, DoneOK, [Next]_vars
  PROVE  DoneOK'
<1>1. CASE StartSearch  BY <1>1, StartDone
<1>2. CASE OtherRule \/ PassTarget \/ FollowTarget \/ ReturnFalse
  <2>1. UNCHANGED <<document, rules, at, chainOrder>>
    BY <1>2 DEF OtherRule, PassTarget, FollowTarget, ReturnFalse, reading
  <2>2. FromKernel(document) => AllDone(rules, Searched, stack', visited')
    <3>1. CASE OtherRule  BY <3>1, OtherRuleDone DEF OtherRule
    <3>2. CASE PassTarget  BY <3>2, PassTargetDone DEF PassTarget
    <3>3. CASE FollowTarget  BY <3>3, FollowTargetDone
    <3>4. CASE ReturnFalse  BY <3>4, ReturnDone DEF ReturnFalse
    <3> QED  BY <1>2, <3>1, <3>2, <3>3, <3>4
  <2>3. Searched' = Searched  BY <2>1 DEF Searched
  <2> QED  BY <2>1, <2>2, <2>3 DEF DoneOK
<1>3. CASE UNCHANGED vars
  BY <1>3 DEF vars, search, DoneOK, Searched, reading
<1>4. CASE pc' # "search"  BY <1>4 DEF DoneOK
<1>5. ReadTable \/ ReadChain \/ ReadRule \/ ReadOther \/ ReadFails \/ FinishRead
        \/ PassChain \/ PolicyDrop \/ Finish \/ VerdictRule \/ NotFound
      => pc' # "search"
  BY DEF ReadTable, ReadChain, ReadRule, ReadOther, ReadFails, FinishRead,
         PassChain, PolicyDrop, Finish, VerdictRule, NotFound, AtObject, AtChain,
         EndSearch
<1> QED  BY <1>1, <1>2, <1>3, <1>4, <1>5 DEF Next, Step, Done

(* A chain that has been done does not drop, and the chains it jumps to have *)
(* been entered: so of the document too, since no rule is nested so deeply   *)
(* that scanExpr gives up on it.                                            *)
LEMMA DoneMeans ==
  ASSUME TypeOK, ReadOK, pc = "search", Shallow(document),
         NEW v \in ChainKey, NEW b, ChainDone(rules, b, v, visited)
  PROVE  /\ ~Drops(document, v)
         /\ \A n \in JumpsTo(document, v) : In(b, n) \in visited
<1>1. ASSUME NEW e \in Exprs(document, v)
      PROVE  /\ \A i \in e : i.kind # "drop"
             /\ \A i \in e : i.kind = "jump" => In(b, i.target) \in visited
  <2>1. PICK j \in 1..Len(rules[v]) : rules[v][j] = e  BY AllRead
  <2>2. ~Verdict(e) /\ \A n \in Targets(e) : In(b, n) \in visited
    BY <2>1 DEF ChainDone, RuleDone
  <2>3. \A i \in e : i.depth <= MaxExprDepth  BY DEF Shallow
  <2> QED  BY <2>2, <2>3 DEF Verdict, Targets, Met
<1> QED  BY <1>1 DEF Drops, JumpsTo

(* A search that ends without a drop has been everywhere.                   *)
LEMMA NotFoundMeans ==
  ASSUME TypeOK, ReadOK, SearchOK, DoneOK, NotFound, FromKernel(document)
  PROVE  ~Filters(document, Searched)
<1>1. /\ pc = "search" /\ Len(stack) = 1 /\ Top = stack[1]
      /\ Top.targets = {} /\ Top.rule > Len(rules[Top.chain])
  BY DEF NotFound, AtEnd, Searching, Top
<1>2. AllDone(rules, Searched, stack, visited)  BY <1>1 DEF DoneOK
<1>3. /\ stack[1].chain = Searched /\ ~PolicyDrops(document, Searched)
      /\ EnteredReal(document, Searched, visited)
      /\ visited \subseteq ChainKey /\ Searched \in visited
      /\ Searched \in ChainKey
  BY <1>1, SearchTyped DEF SearchOK, TypeOK
<1>4. ASSUME NEW v \in visited
      PROVE  ChainDone(rules, Searched, v, visited)
  <2>1. CASE v = Searched  BY <1>1, <1>2, <1>3, <2>1, EndDone
  <2>2. CASE v # Searched
    <3>1. \A i \in 1..Len(stack) : stack[i].chain # v  BY <1>1, <1>3, <2>2
    <3> QED  BY <1>2, <3>1 DEF AllDone
  <2> QED  BY <2>1, <2>2
<1>5. ASSUME NEW v \in visited
      PROVE  /\ ~Drops(document, v)
             /\ \A n \in JumpsTo(document, v) : In(Searched, n) \in visited
  BY <1>1, <1>3, <1>4, DoneMeans DEF FromKernel
<1> DEFINE S == {n \in Name : In(Searched, n) \in visited}
<1>6. Searched.name \in S
  BY <1>3 DEF EnteredReal, ChainKey
<1>7. Closed(document, Searched, S)
  <2>1. ASSUME NEW m \in S, NEW n \in JumpsTo(document, In(Searched, m))
        PROVE  n \in S
    BY <1>5 DEF JumpsTo
  <2> QED  BY <2>1 DEF Closed
<1> HIDE DEF S
<1>8. Reach(document, Searched) \subseteq S
  <2>1. S \in SUBSET Name  BY DEF S
  <2> QED  BY <1>6, <1>7, <2>1, ReachLeast
<1>9. ~DropReachable(document, Searched)
  BY <1>5, <1>8 DEF DropReachable, S
<1> QED  BY <1>3, <1>9 DEF Filters

(* One more chain has been answered.                                        *)
LEMMA AnsweredOne ==
  ASSUME TypeOK, Answered, pc \in {"chains", "search"}, pc' \in {"chains", "search"},
         at \in 1..Len(chainOrder), at' = at + 1,
         UNCHANGED <<document, reading>>,
         filtering' = filtering \/ Found(chainOrder[at]),
         FromKernel(document) /\ Filters(document, chainOrder[at])
           => Found(chainOrder[at])
  PROVE  Answered'
<1> SUFFICES ASSUME FromKernel(document), NEW p \in 1..Len(chainOrder), p < at + 1,
                    Filters(document, chainOrder[p])
             PROVE  \E i \in 1..Len(filtering') : filtering'[i] = chainOrder[p]
  <2>1. chainOrder' = chainOrder /\ document' = document  BY DEF reading
  <2> QED  BY <2>1 DEF Answered
<1>1. filtering \in Seq(ChainKey) /\ chainOrder[at] \in ChainKey /\ at \in Nat
  BY ElementOfSeq DEF TypeOK
<1>2. ASSUME Found(chainOrder[at])
      PROVE  /\ \A i \in 1..Len(filtering) :
                  i \in 1..Len(filtering') /\ filtering'[i] = filtering[i]
             /\ Len(filtering) + 1 \in 1..Len(filtering')
             /\ filtering'[Len(filtering) + 1] = chainOrder[at]
  BY <1>1, <1>2, AppendProperties, LenProperties DEF Found
<1>3. CASE p = at  BY <1>2, <1>3
<1>4. CASE p # at
  <2>1. p < at  BY <1>1, <1>4
  <2>2. \E i \in 1..Len(filtering) : filtering[i] = chainOrder[p]
    BY <2>1 DEF Answered
  <2> QED  BY <1>2, <2>2
<1> QED  BY <1>3, <1>4

LEMMA AnsweredStep ==
  ASSUME TypeOK, ReadOK, SearchOK, DoneOK, Answered, [Next]_vars
  PROVE  Answered'
<1>0. at \in Nat \ {0} /\ Len(chainOrder) \in Nat
  BY LenProperties DEF TypeOK
<1>1. CASE PassChain
  <2>1. PICK k \in ChainKey : AtChain(k) /\ ~Active(k)  BY <1>1 DEF PassChain
  <2>2. pc = "chains" /\ at \in 1..Len(chainOrder) /\ k = chainOrder[at]
    BY <1>0, <2>1 DEF AtChain
  <2>3. ~Filters(document, k)
    <3>1. chains[k] # Nowhere  BY <2>2 DEF TypeOK
    <3> QED  BY <2>1, <2>2, <3>1, AllRead DEF Filters
  <2> QED  BY <1>1, <2>2, <2>3, AnsweredOne DEF PassChain, result
<1>2. CASE PolicyDrop
  <2>1. PICK k \in ChainKey : AtChain(k) /\ Found(k)  BY <1>2 DEF PolicyDrop
  <2>2. pc = "chains" /\ at \in 1..Len(chainOrder) /\ k = chainOrder[at]
    BY <1>0, <2>1 DEF AtChain
  <2>3. /\ pc' = pc /\ at' = at + 1 /\ UNCHANGED <<document, reading>>
    BY <1>2 DEF PolicyDrop
  <2> QED  BY <2>1, <2>2, <2>3, AnsweredOne
<1>3. CASE VerdictRule \/ NotFound
  <2>1. pc = "search" /\ at \in 1..Len(chainOrder)
    BY <1>0, <1>3 DEF VerdictRule, NotFound, AtRule, AtEnd, Searching, TypeOK
  <2>2. pc' = "chains" /\ at' = at + 1 /\ UNCHANGED <<document, reading>>
    BY <1>3 DEF VerdictRule, NotFound, EndSearch
  <2>3. CASE VerdictRule
    BY <2>1, <2>2, <2>3, AnsweredOne DEF VerdictRule
  <2>4. CASE NotFound
    <3>1. filtering' = filtering  BY <2>4 DEF NotFound, result
    <3>2. FromKernel(document) => ~Filters(document, chainOrder[at])
      BY <2>4, NotFoundMeans DEF Searched
    <3> QED  BY <2>1, <2>2, <3>1, <3>2, AnsweredOne
  <2> QED  BY <1>3, <2>3, <2>4
<1>4. CASE /\ UNCHANGED <<document, chainOrder, filtering, at>>
           /\ pc \in {"chains", "search"} /\ pc' # "done"
  BY <1>4 DEF Answered
<1>5. CASE Finish
  <2>1. /\ pc = "chains" /\ at > Len(chainOrder) /\ pc' = "done"
        /\ UNCHANGED <<document, chainOrder, filtering>>
    BY <1>5 DEF Finish, reading, result
  <2>2. \A p \in 1..Len(chainOrder) : p < at  BY <1>0, <2>1
  <2> QED  BY <2>1, <2>2 DEF Answered
<1>6. CASE pc' \in {"read", "error"}  BY <1>6 DEF Answered
<1>7. CASE FinishRead
  <2>1. pc' = "chains" /\ at' = 1  BY <1>7 DEF FinishRead
  <2>2. Len(chainOrder') \in Nat  BY <1>0, <1>7 DEF FinishRead, reading
  <2>3. \A p \in 1..Len(chainOrder') : ~(p < 1)  BY <2>2
  <2> QED  BY <2>1, <2>3 DEF Answered
<1>8. CASE UNCHANGED vars
  <2>1. UNCHANGED <<document, pc, at, chainOrder, filtering>>
    BY <1>8 DEF vars, reading, result
  <2> QED  BY <2>1 DEF Answered
<1>9. StartSearch \/ OtherRule \/ PassTarget \/ FollowTarget \/ ReturnFalse
        => /\ UNCHANGED <<document, chainOrder, filtering, at>>
           /\ pc \in {"chains", "search"} /\ pc' # "done"
  BY DEF StartSearch, OtherRule, PassTarget, FollowTarget, ReturnFalse, AtChain,
         AtRule, AtTarget, AtEnd, Searching, reading, result
<1>10. ReadTable \/ ReadChain \/ ReadRule \/ ReadOther \/ ReadFails
         => pc' \in {"read", "error"}
  BY DEF ReadTable, ReadChain, ReadRule, ReadOther, ReadFails, AtObject
<1> QED
  BY <1>1, <1>2, <1>3, <1>4, <1>5, <1>6, <1>7, <1>8, <1>9, <1>10
  DEF Next, Step, Done

(* Where packets get from a chain behind which no map is named, the jumps    *)
(* of rules lead: so it filters by what its rules say.                      *)
LEMMA NoMapsNeeded ==
  ASSUME NEW k \in ChainKey, FiltersAtAll(document, k), NoMapBehind(document, k)
  PROVE  Filters(document, k)
<1>1. ASSUME NEW n \in Reach(document, k)
      PROVE  Mapped(document, In(k, n)) = {}
  BY DEF NoMapBehind, NamesMap, Mapped
<1>2. k.name \in Reach(document, k) /\ Reach(document, k) \subseteq Name
  BY ReachBase DEF Reach
<1>3. ClosedAtAll(document, k, Reach(document, k))
  BY <1>1, ReachClosed DEF ClosedAtAll, Closed, JumpsAtAll
<1>4. ReachAtAll(document, k) \subseteq Reach(document, k)
  BY <1>2, <1>3 DEF ReachAtAll
<1>5. \A n \in ReachAtAll(document, k) :
        DropsAtAll(document, In(k, n)) => DropReachable(document, k)
  BY <1>1, <1>4 DEF DropsAtAll, DropReachable
<1> QED  BY <1>5 DEF FiltersAtAll, Filters

LEMMA AnsweredMeans ==
  ASSUME TypeOK, ReadOK, Answered
  PROVE  NoFilteringMissed
<1> SUFFICES ASSUME pc = "done", FromKernel(document), NEW k \in ChainKey,
                    FiltersAtAll(document, k), NoMapBehind(document, k)
             PROVE  \E i \in 1..Len(filtering) : filtering[i] = k
  BY DEF NoFilteringMissed
<1>1. Filters(document, k)  BY NoMapsNeeded
<1>2. PICK p \in 1..Len(chainOrder) : chainOrder[p] = k
  BY <1>1, AllRead DEF Filters
<1> QED  BY <1>1, <1>2 DEF Answered

(* No chain that filters is missed behind which no verdict map is named, in  *)
(* any ruleset a kernel can hold.                                           *)
THEOREM NoFilteringIsMissed == Spec => []NoFilteringMissed
<1>1. Init => TypeOK /\ ReadOK /\ SearchOK /\ HeightOK /\ DoneOK /\ Answered
  <2> SUFFICES ASSUME Init
               PROVE  TypeOK /\ ReadOK /\ SearchOK /\ HeightOK /\ DoneOK /\ Answered
    OBVIOUS
  <2>1. pc = "read"  BY DEF Init
  <2> QED
    BY <2>1, InitTyped, ReadOKInit DEF SearchOK, HeightOK, DoneOK, Answered
<1>2. TypeOK /\ ReadOK /\ SearchOK /\ HeightOK /\ DoneOK /\ Answered
        /\ [Next]_vars
        => ReadOK' /\ SearchOK' /\ HeightOK' /\ DoneOK' /\ Answered'
  BY ReadOKStep, SearchOKStep, HeightStep, DoneStep, AnsweredStep
<1>3. TypeOK /\ ReadOK /\ Answered => NoFilteringMissed
  BY AnsweredMeans
<1> QED  BY <1>1, <1>2, <1>3, TypeCorrect, PTL DEF Spec
=====
