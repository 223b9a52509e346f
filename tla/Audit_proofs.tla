---------------------------- MODULE Audit_proofs ----------------------------
(***************************************************************************)
(* What holds of one run of the program for every catalog of up to 24       *)
(* rules, every baseline file and whatever the collectors and checks return. *)
(***************************************************************************)
EXTENDS Audit, TLAPS

Collecting == pc \in {"start", "baseline", "stat", "read", "collect"}
Summed == Auditing /\ (pc = "write" \/ written > 0)

(* Where the run is, and what it has not done yet.                          *)
ProgressOK ==
  /\ pc \in {"start", "baseline", "stat", "read"} => at = 0
  /\ Collecting => findings = {}
  /\ pc \notin {"write", "done"} => written = 0 /\ score = NoScore
  /\ Collecting \/ pc = "evaluate" => tally = [pass |-> 0, total |-> 0]
  /\ pc \in {"baseline", "stat", "read", "evaluate", "summarize"} => Auditing
  /\ pc = "collect" => request.command \in {"audit", "snapshot"}

(* What has been found is what each rule of the catalog so far says.        *)
Found(n) == {Catalog[i] : i \in {i \in 1..n : Selected(Catalog[i])}}
FindingsOK ==
  /\ \A f \in findings : f.rule \in Rule /\ f = evaluate(f.rule)
  /\ pc = "evaluate" => {f.rule : f \in findings} = Found(at)
  /\ pc = "summarize" \/ Summed => {f.rule : f \in findings} = Found(Len(Catalog))

(* The weights are those of the first n rules of the catalog.               *)
Counted(f, n) == \E i \in 1..n : Catalog[i] = f.rule
Heavy(status, n) ==
  \E f \in findings : f.status = status /\ Weight(f.severity) > 0 /\ Counted(f, n)
TallyOK(n) ==
  /\ tally.pass <= tally.total /\ tally.total <= 8 * n
  /\ tally.pass > 0 <=> Heavy("PASS", n)
  /\ tally.total > tally.pass <=> Heavy("FAIL", n)
SummaryOK ==
  /\ pc = "summarize" => TallyOK(at)
  /\ Summed => /\ TallyOK(Len(Catalog))
               /\ score = IF tally.total > 0 THEN Percent(tally) ELSE NoScore

(* The exit code of an audit that has ended.                                *)
EndOK ==
  pc = "done" /\ Auditing =>
    /\ code \in {ExitOK, ExitFindings} <=> Reported
    /\ Reported => code = exitCode
    /\ code = ExitUsage => written = 0 /\ findings = {}

Invariant == TypeOK /\ ProgressOK /\ FindingsOK /\ SummaryOK /\ EndOK
-----------------------------------------------------------------------------
(* Rounding: 100 only for all of it, 0 only for nothing, when less than 200  *)
(* is at stake.                                                             *)
LEMMA Rounding ==
  ASSUME NEW p \in Nat, NEW t \in Nat, p <= t, t > 0, t < 200
  PROVE  LET q == (200 * p + t) \div (2 * t)
         IN  q \in Nat /\ (q = 100 <=> p = t) /\ (q = 0 => p = 0)
<1> DEFINE a == 200 * p + t
           b == 2 * t
           q == a \div b
<1>1. a \in Nat /\ b \in Nat /\ b > 0
  OBVIOUS
<1>2. a >= 100 * b <=> p = t
  OBVIOUS
<1>3. a < 101 * b
  OBVIOUS
<1>4. a >= b \/ p = 0
  OBVIOUS
<1> HIDE DEF a, b
<1>5. q \in Int /\ b * q <= a /\ a < b * (q + 1)
  BY <1>1
<1> HIDE DEF q
<1>6. q >= 0
  <2> SUFFICES ASSUME q < 0 PROVE FALSE
    BY <1>5
  <2>1. q + 1 <= 0
    BY <1>5
  <2>2. b * (q + 1) <= 0
    BY <2>1, <1>1, <1>5
  <2> QED
    BY <2>2, <1>1, <1>5
<1>7. q <= 100
  <2> SUFFICES ASSUME q >= 101 PROVE FALSE
    BY <1>5
  <2>1. b * q >= b * 101
    BY <1>1, <1>5
  <2> QED
    BY <2>1, <1>1, <1>3, <1>5
<1>8. q = 100 => p = t
  BY <1>1, <1>2, <1>5
<1>9. p = t => q = 100
  <2> SUFFICES ASSUME p = t, q <= 99 PROVE FALSE
    BY <1>5, <1>7
  <2>1. b * (q + 1) <= b * 100
    BY <1>1, <1>5
  <2> QED
    BY <2>1, <1>1, <1>2, <1>5
<1>10. q = 0 => p = 0
  BY <1>1, <1>4, <1>5
<1> QED
  BY <1>5, <1>6, <1>8, <1>9, <1>10 DEF q, a, b

LEMMA Quotient ==
  ASSUME NEW p \in Nat, NEW t \in Nat, t > 0
  PROVE  (200 * p + t) \div (2 * t) \in Nat
<1> DEFINE a == 200 * p + t
           b == 2 * t
           q == a \div b
<1>1. a \in Nat /\ b \in Nat /\ b > 0
  OBVIOUS
<1> HIDE DEF a, b
<1>2. q \in Int /\ a < b * (q + 1)
  BY <1>1
<1> HIDE DEF q
<1>3. q >= 0
  <2> SUFFICES ASSUME q < 0 PROVE FALSE
    BY <1>2
  <2>1. b * (q + 1) <= 0
    BY <1>1, <1>2
  <2> QED
    BY <2>1, <1>1, <1>2
<1> QED
  BY <1>2, <1>3 DEF q, a, b

LEMMA CatalogFacts ==
  /\ Len(Catalog) \in Nat /\ Len(Catalog) <= 24
  /\ \A i \in 1..Len(Catalog) : Catalog[i] \in Rule
  /\ \A i, j \in 1..Len(Catalog) : Catalog[i] = Catalog[j] => i = j
<1>1. Catalog \in Seq(Rule)
  BY CatalogAssumption
<1> QED
  BY <1>1, CatalogAssumption, CatalogSize

LEMMA WeightBounds ==
  ASSUME NEW n \in Severity
  PROVE  Weight(n) \in Nat /\ Weight(n) <= 8
BY DEF Weight, Severity

(* Only documents that were accepted become baselines.                      *)
LEMMA ParseType ==
  ASSUME NEW d \in Documents, Accepted(d)
  PROVE  Parse(d) \in Baseline
<1>1. Listed(d) \subseteq Rule
  BY DEF Accepted, errs, known, Listed
<1>2. {r \in Rule : \E i \in 1..Len(d.exclude) : d.exclude[i].rule = r} \subseteq Rule
  OBVIOUS
<1> DEFINE ranked(r) == IF \E o \in d.overrides : o.rule = r
                        THEN (CHOOSE o \in d.overrides : o.rule = r).severity ELSE 0
<1>3. ASSUME NEW r \in Rule PROVE ranked(r) \in 0..5
  <2>1. CASE \E o \in d.overrides : o.rule = r
    <3> DEFINE x == CHOOSE o \in d.overrides : o.rule = r
    <3>1. x \in d.overrides
      BY <2>1
    <3>2. x \in Override
      BY <3>1, InputAssumption
    <3> HIDE DEF x
    <3>3. x.severity \in 0..5
      BY <3>2 DEF Override
    <3> QED
      BY <2>1, <3>3 DEF x
  <2>2. CASE ~\E o \in d.overrides : o.rule = r
    BY <2>2
  <2> QED
    BY <2>1, <2>2
<1>4. [r \in Rule |-> ranked(r)] \in [Rule -> 0..5]
  BY <1>3
<1> QED
  BY <1>1, <1>2, <1>4 DEF Parse, Baseline

LEMMA EvaluateType ==
  ASSUME TypeOK, NEW r \in Rule
  PROVE  evaluate(r) \in Finding /\ evaluate(r).rule = r
<1>1. EffectiveSeverity(r) \in Severity
  <2>1. baseline.override[r] \in 0..5
    BY DEF TypeOK, Baseline
  <2>2. DefaultSeverity[r] \in Severity
    BY CatalogAssumption
  <2> QED
    BY <2>1, <2>2 DEF EffectiveSeverity, Severity
<1>2. safeCheck(r) \in Status
  BY DEF safeCheck, Status
<1> DEFINE status == IF r \in baseline.excluded \/ os \notin Platforms[r]
                     THEN "SKIP" ELSE safeCheck(r)
<1>3. status \in Status
  BY <1>2 DEF Status
<1> HIDE DEF status
<1>4. evaluate(r) = [rule |-> r, severity |-> EffectiveSeverity(r), status |-> status]
  BY DEF evaluate, status
<1> QED
  BY <1>1, <1>3, <1>4 DEF Finding

LEMMA CollectorCount == Len(Collectors) \in Nat
BY DEF Collectors

(* Where the run is, whatever it does: the inductive part that needs no      *)
(* findings.                                                                *)
Placed == TypeOK /\ ProgressOK

LEMMA PlacedInit == Init => Placed
<1> SUFFICES ASSUME Init PROVE Placed
  OBVIOUS
<1>1. baseline \in Baseline
  BY DEF Init, DefaultBaseline, Baseline
<1>2. tally \in [pass : Nat, total : Nat]
  BY DEF Init
<1>3. snap \in [Section -> CollectionStatus]
  BY DEF Init, CollectionStatus
<1>4. TypeOK
  <2>1. 0 \in 0..Chunks
    BY InputAssumption
  <2>2. -1 \in Nat \cup {-1} /\ {} \subseteq Finding /\ {} \subseteq Documents
    OBVIOUS
  <2> QED
    BY <1>1, <1>2, <1>3, <2>1, <2>2
       DEF Init, TypeOK, Running, ExitOK, ExitFindings, ExitUsage, ExitRuntime, NoScore
<1>5. ProgressOK
  BY DEF Init, ProgressOK, Collecting
<1> QED
  BY <1>4, <1>5 DEF Placed

LEMMA PlacedStep == Placed /\ [Next]_vars => Placed'
<1> SUFFICES ASSUME TypeOK, ProgressOK, [Next]_vars PROVE TypeOK' /\ ProgressOK'
  BY DEF Placed
<1> USE DEF Running, ExitOK, ExitFindings, ExitUsage, ExitRuntime, NoScore,
            Goto, Exit, input, config, result, Auditing
<1>1. CASE Start
  <2>1. TypeOK'
    BY <1>1, CollectorCount DEF TypeOK, ProgressOK, Start, Collectors
  <2>2. ProgressOK'
    BY <1>1 DEF TypeOK, ProgressOK, Start, Collecting
  <2> QED
    BY <2>1, <2>2
<1>2. CASE LoadBaseline
  <2>1. TypeOK'
    BY <1>2, CollectorCount DEF TypeOK, ProgressOK, LoadBaseline, Collectors
  <2>2. ProgressOK'
    BY <1>2 DEF TypeOK, ProgressOK, LoadBaseline, Collecting
  <2> QED
    BY <2>1, <2>2
<1>3. CASE StatBaseline
  <2>1. TypeOK'
    BY <1>3 DEF TypeOK, ProgressOK, StatBaseline
  <2>2. ProgressOK'
    BY <1>3 DEF TypeOK, ProgressOK, StatBaseline, Collecting
  <2> QED
    BY <2>1, <2>2
<1>4. CASE ReadBaseline
  <2>1. PICK f \in BaselineFile(Documents) :
          IF f.error \/ ~Accepted(f.doc) THEN Exit(ExitUsage) /\ UNCHANGED config
          ELSE Goto("collect") /\ baseline' = Parse(f.doc) /\ said' = {f.doc}
    BY <1>4 DEF ReadBaseline
  <2>2. f.doc \in Documents
    BY <2>1 DEF BaselineFile
  <2>3. baseline' \in Baseline /\ said' \subseteq Documents
    BY <2>1, <2>2, ParseType DEF TypeOK
  <2>4. TypeOK'
    BY <1>4, <2>1, <2>3, CollectorCount DEF TypeOK, ProgressOK, ReadBaseline, Collectors
  <2>5. ProgressOK'
    BY <1>4, <2>1 DEF TypeOK, ProgressOK, ReadBaseline, Collecting
  <2> QED
    BY <2>4, <2>5
<1>5. CASE Collect
  <2>1. snap' \in [Section -> CollectionStatus]
    <3>1. at + 1 \in 1..Len(Collectors)
      BY <1>5, CollectorCount DEF TypeOK, Collect
    <3>2. Collectors[at + 1] \in Section
      BY <3>1 DEF Collectors, Section, TypeOK, OS
    <3>3. Statuses[Collectors[at + 1]] \subseteq CollectionStatus
      BY <3>2, InputAssumption
    <3> QED
      BY <1>5, <3>2, <3>3 DEF TypeOK, Collect
  <2>2. TypeOK'
    BY <1>5, <2>1, CollectorCount DEF TypeOK, Collect, Collectors
  <2>3. ProgressOK'
    BY <1>5 DEF TypeOK, ProgressOK, Collect, Collecting
  <2> QED
    BY <2>2, <2>3
<1>6. CASE FinishCollect
  <2>1. TypeOK'
    BY <1>6, CatalogFacts DEF TypeOK, FinishCollect
  <2>2. ProgressOK'
    BY <1>6 DEF TypeOK, ProgressOK, FinishCollect, Collecting
  <2> QED
    BY <2>1, <2>2
<1>7. CASE Evaluate
  <2>1. findings' \subseteq Finding
    <3>1. Catalog[at + 1] \in Rule
      BY <1>7, CatalogFacts DEF TypeOK, Evaluate
    <3>2. evaluate(Catalog[at + 1]) \in Finding
      BY <3>1, EvaluateType
    <3> QED
      BY <1>7, <3>2 DEF TypeOK, Evaluate
  <2>2. TypeOK'
    BY <1>7, <2>1, CatalogFacts DEF TypeOK, Evaluate
  <2>3. ProgressOK'
    BY <1>7 DEF TypeOK, ProgressOK, Evaluate, Collecting
  <2> QED
    BY <2>2, <2>3
<1>8. CASE FinishEvaluate
  <2>1. TypeOK'
    BY <1>8, CatalogFacts DEF TypeOK, FinishEvaluate
  <2>2. ProgressOK'
    BY <1>8 DEF TypeOK, ProgressOK, FinishEvaluate, Collecting
  <2> QED
    BY <2>1, <2>2
<1>9. CASE Summarize
  <2>1. tally' \in [pass : Nat, total : Nat]
    <3>1. ASSUME NEW f \in findings PROVE Add(tally, f) \in [pass : Nat, total : Nat]
      <4>1. Weight(f.severity) \in Nat
        BY <3>1, WeightBounds DEF TypeOK, Finding
      <4> QED
        BY <4>1 DEF Add, TypeOK
    <3> QED
      BY <1>9, <3>1 DEF TypeOK, Summarize
  <2>2. TypeOK'
    BY <1>9, <2>1, CatalogFacts DEF TypeOK, Summarize
  <2>3. ProgressOK'
    BY <1>9 DEF TypeOK, ProgressOK, Summarize, Collecting
  <2> QED
    BY <2>2, <2>3
<1>10. CASE FinishSummarize
  <2>1. score' \in Nat \cup {NoScore}
    <3>1. CASE tally.total > 0
      <4>1. (200 * tally.pass + tally.total) \div (2 * tally.total) \in Nat
        BY <3>1, Quotient DEF TypeOK
      <4> QED
        BY <1>10, <3>1, <4>1 DEF FinishSummarize, Percent
    <3>2. CASE ~(tally.total > 0)
      BY <1>10, <3>2 DEF FinishSummarize
    <3> QED
      BY <3>1, <3>2
  <2>2. TypeOK'
    BY <1>10, <2>1 DEF TypeOK, FinishSummarize
  <2>3. ProgressOK'
    BY <1>10 DEF TypeOK, ProgressOK, FinishSummarize, Collecting
  <2> QED
    BY <2>2, <2>3
<1>11. CASE Write
  <2>1. TypeOK'
    BY <1>11, InputAssumption DEF TypeOK, Write
  <2>2. ProgressOK'
    BY <1>11 DEF TypeOK, ProgressOK, Write, Collecting
  <2> QED
    BY <2>1, <2>2
<1>12. CASE WriteFails \/ FinishWrite \/ Panic
  <2>1. code' \in {ExitOK, ExitFindings, ExitUsage, ExitRuntime} /\ pc' = "done"
    BY <1>12 DEF WriteFails, FinishWrite, Panic, exitCode
  <2>2. UNCHANGED <<input, config, ctxDone, snap, at, result, written>>
    BY <1>12 DEF WriteFails, FinishWrite, Panic
  <2>3. TypeOK'
    BY <2>1, <2>2 DEF TypeOK
  <2>4. ProgressOK'
    BY <2>1, <2>2 DEF TypeOK, ProgressOK, Collecting
  <2> QED
    BY <2>3, <2>4
<1>13. CASE Interrupt
  <2>1. TypeOK'
    BY <1>13 DEF TypeOK, Interrupt, Collectors
  <2>2. ProgressOK'
    BY <1>13 DEF ProgressOK, Interrupt, Collecting
  <2> QED
    BY <2>1, <2>2
<1>14. CASE Done \/ UNCHANGED vars
  <2>1. UNCHANGED vars
    BY <1>14 DEF Done
  <2>2. TypeOK'
    BY <2>1 DEF TypeOK, Collectors, vars
  <2>3. ProgressOK'
    BY <2>1 DEF ProgressOK, Collecting, vars
  <2> QED
    BY <2>2, <2>3
<1> QED
  BY <1>1, <1>2, <1>3, <1>4, <1>5, <1>6, <1>7, <1>8, <1>9, <1>10, <1>11, <1>12, <1>13, <1>14
     DEF Next, Step

(* TypeOK holds in every reachable state, for any catalog and any inputs.   *)
THEOREM TypeCorrect == Spec => []TypeOK
<1>1. Placed => TypeOK
  BY DEF Placed
<1> QED
  BY <1>1, PlacedInit, PlacedStep, PTL DEF Spec
-----------------------------------------------------------------------------
(* What a rule says depends only on what no step changes after Collect.     *)
LEMMA Kept ==
  ASSUME UNCHANGED <<input, baseline, snap>>
  PROVE  /\ \A r : evaluate(r)' = evaluate(r)
         /\ \A n : Found(n)' = Found(n)
<1>1. \A r : evaluate(r)' = evaluate(r)
  BY DEF evaluate, safeCheck, check, EffectiveSeverity, input
<1>2. \A n : Found(n)' = Found(n)
  BY DEF Found, Selected, input
<1> QED
  BY <1>1, <1>2

LEMMA FoundOneMore ==
  ASSUME NEW n \in Nat
  PROVE  Found(n + 1) =
           Found(n) \cup IF Selected(Catalog[n + 1]) THEN {Catalog[n + 1]} ELSE {}
<1>1. 1 .. n + 1 = (1..n) \cup {n + 1}
  OBVIOUS
<1> HIDE DEF Selected
<1> QED
  BY <1>1 DEF Found

LEMMA FoundNothing == Found(0) = {}
<1>1. 1..0 = {}
  OBVIOUS
<1> QED
  BY <1>1 DEF Found

LEMMA FindingsStep ==
  TypeOK /\ ProgressOK /\ FindingsOK /\ [Next]_vars => FindingsOK'
<1> SUFFICES ASSUME TypeOK, ProgressOK, FindingsOK, [Next]_vars PROVE FindingsOK'
  OBVIOUS
<1> USE DEF Goto, Exit, input, config, result, Auditing
<1>1. CASE Start \/ LoadBaseline \/ StatBaseline \/ ReadBaseline \/ Collect
  <2>1. findings = {} /\ findings' = {} /\ written' = 0
    BY <1>1 DEF ProgressOK, Collecting, Start, LoadBaseline, StatBaseline,
                ReadBaseline, Collect
  <2>2. pc' \notin {"evaluate", "summarize"} /\ ~Summed'
    BY <1>1, <2>1 DEF Summed, Start, LoadBaseline, StatBaseline, ReadBaseline,
                      Collect
  <2> QED
    BY <2>1, <2>2 DEF FindingsOK
<1>2. CASE FinishCollect
  <2>1. findings' = {} /\ written' = 0 /\ at' = 0
    BY <1>2 DEF ProgressOK, Collecting, FinishCollect
  <2>2. pc' # "summarize" /\ ~Summed'
    BY <1>2, <2>1 DEF Summed, FinishCollect
  <2>3. Found(at)' = {}
    <3>1. UNCHANGED <<input, baseline, snap>>
      BY <1>2 DEF FinishCollect
    <3>2. Found(0)' = {}
      BY <3>1, Kept, FoundNothing
    <3> QED
      BY <3>2, <2>1 DEF Found
  <2> QED
    BY <2>1, <2>2, <2>3 DEF FindingsOK
<1>3. CASE Evaluate
  <2> DEFINE r == Catalog[at + 1]
  <2>1. /\ UNCHANGED <<input, baseline, snap>> /\ pc = "evaluate" /\ pc' = "evaluate"
        /\ at \in Nat /\ at' = at + 1 /\ UNCHANGED written /\ written = 0
        /\ findings' = IF Selected(r) THEN findings \cup {evaluate(r)} ELSE findings
    BY <1>3 DEF Evaluate, TypeOK, ProgressOK
  <2>2. r \in Rule
    BY <1>3, CatalogFacts DEF Evaluate, TypeOK
  <2>3. evaluate(r).rule = r
    BY DEF evaluate
  <2> HIDE DEF r
  <2>4. \A f \in findings' : f.rule \in Rule /\ f = evaluate(f.rule)'
    BY <2>1, <2>2, <2>3, Kept DEF FindingsOK
  <2>5. {f.rule : f \in findings'} = Found(at)'
    <3>1. Found(at + 1) = Found(at) \cup IF Selected(r) THEN {r} ELSE {}
      BY <2>1, FoundOneMore DEF r
    <3>2. {f.rule : f \in findings} = Found(at)
      BY <2>1 DEF FindingsOK
    <3>3. {f.rule : f \in findings'} = Found(at + 1)
      BY <2>1, <2>3, <3>1, <3>2
    <3>4. Found(at)' = Found(at + 1)
      <4>1. \A n : Found(n)' = Found(n)
        BY <2>1, Kept
      <4> QED
        BY <2>1, <4>1 DEF Found
    <3> QED
      BY <3>3, <3>4
  <2> QED
    BY <2>1, <2>4, <2>5 DEF FindingsOK, Summed
<1>4. CASE /\ pc \notin {"start", "baseline", "stat", "read", "collect"}
           /\ UNCHANGED <<input, baseline, snap, findings>>
           /\ pc' # "evaluate"
           /\ pc' = "summarize" \/ Summed' =>
                \/ pc = "summarize" \/ Summed
                \/ pc = "evaluate" /\ at = Len(Catalog)
  <2>1. \A f \in findings' : f.rule \in Rule /\ f = evaluate(f.rule)'
    BY <1>4, Kept DEF FindingsOK
  <2>2. ASSUME (pc = "summarize" \/ Summed)' PROVE {f.rule : f \in findings'} = Found(Len(Catalog))'
    <3>1. {f.rule : f \in findings} = Found(Len(Catalog))
      BY <1>4, <2>2 DEF FindingsOK
    <3> QED
      BY <1>4, <3>1, Kept
  <2> QED
    BY <1>4, <2>1, <2>2 DEF FindingsOK
<1>5. CASE FinishEvaluate \/ Summarize \/ FinishSummarize \/ Write \/ WriteFails \/ FinishWrite
  <2>1. /\ pc \notin {"start", "baseline", "stat", "read", "collect"}
        /\ UNCHANGED <<input, baseline, snap, findings>> /\ pc' # "evaluate"
    BY <1>5 DEF FinishEvaluate, Summarize, FinishSummarize, Write, WriteFails, FinishWrite
  <2>2. pc' = "summarize" \/ Summed' =>
          \/ pc = "summarize" \/ Summed
          \/ pc = "evaluate" /\ at = Len(Catalog)
    BY <1>5 DEF FinishEvaluate, Summarize, FinishSummarize, Write, WriteFails, FinishWrite,
                Summed
  <2> QED
    BY <2>1, <2>2, <1>4
<1>6. CASE Panic
  <2>1. UNCHANGED <<input, baseline, snap, findings, written>> /\ pc' = "done"
    BY <1>6 DEF Panic
  <2>2. CASE Collecting
    <3>1. findings' = {} /\ ~Summed'
      BY <2>1, <2>2 DEF ProgressOK, Collecting, Summed
    <3> QED
      BY <2>1, <3>1 DEF FindingsOK
  <2>3. CASE ~Collecting
    BY <2>1, <2>3, <1>4 DEF Collecting, Summed
  <2> QED
    BY <2>2, <2>3
<1>7. CASE Interrupt \/ Done \/ UNCHANGED vars
  <2>1. UNCHANGED <<input, baseline, snap, findings, written, pc, at>>
    BY <1>7 DEF Interrupt, Done, vars
  <2>2. \A f \in findings' : f.rule \in Rule /\ f = evaluate(f.rule)'
    BY <2>1, Kept DEF FindingsOK
  <2>3. \A n : Found(n)' = Found(n)
    BY <2>1, Kept
  <2>4. Found(at)' = Found(at)
    BY <2>1, <2>3 DEF Found
  <2> QED
    BY <2>1, <2>2, <2>3, <2>4 DEF FindingsOK, Summed
<1> QED
  BY <1>1, <1>2, <1>3, <1>5, <1>6, <1>7 DEF Next, Step

LEMMA EndStep ==
  TypeOK /\ ProgressOK /\ EndOK /\ [Next]_vars => EndOK'
<1> SUFFICES ASSUME TypeOK, ProgressOK, EndOK, [Next]_vars PROVE EndOK'
  OBVIOUS
<1> USE DEF Goto, Exit, input, config, result, Auditing, Reported, ExitOK,
            ExitFindings, ExitUsage, ExitRuntime
<1>0. Chunks > 0
  BY InputAssumption
<1>1. CASE Start \/ LoadBaseline \/ StatBaseline \/ ReadBaseline \/ Collect \/ FinishCollect
  <2>1. written' = 0 /\ findings' = {} /\ written' # Chunks
    BY <1>0, <1>1 DEF ProgressOK, Collecting, Start, LoadBaseline, StatBaseline,
                      ReadBaseline, Collect, FinishCollect
  <2>2. pc' = "done" /\ Auditing' => code' \in {ExitUsage, ExitRuntime}
    BY <1>1 DEF Start, LoadBaseline, StatBaseline, ReadBaseline, Collect, FinishCollect
  <2> QED
    BY <2>1, <2>2 DEF EndOK
<1>2. CASE Evaluate \/ FinishEvaluate \/ Summarize \/ FinishSummarize \/ Write
  <2>1. pc' # "done"
    BY <1>2 DEF Evaluate, FinishEvaluate, Summarize, FinishSummarize, Write
  <2> QED
    BY <2>1 DEF EndOK
<1>3. CASE WriteFails \/ Panic
  <2>1. pc' = "done" /\ written' # Chunks /\ (Auditing' => code' = ExitRuntime)
    BY <1>3 DEF WriteFails, Panic, TypeOK
  <2> QED
    BY <2>1 DEF EndOK
<1>4. CASE FinishWrite
  <2>1. /\ written' = Chunks /\ UNCHANGED <<request, findings>>
        /\ Auditing' => code' = exitCode
    BY <1>4 DEF FinishWrite
  <2>2. exitCode \in {ExitOK, ExitFindings} /\ exitCode' = exitCode
    BY <2>1 DEF exitCode
  <2> QED
    BY <2>1, <2>2 DEF EndOK
<1>5. CASE Interrupt
  <2>1. pc' # "done"
    BY <1>5 DEF Interrupt
  <2> QED
    BY <2>1 DEF EndOK
<1>6. CASE Done \/ UNCHANGED vars
  <2>1. UNCHANGED <<pc, request, code, written, findings>>
    BY <1>6 DEF Done, vars
  <2>2. exitCode' = exitCode
    BY <2>1 DEF exitCode
  <2> QED
    BY <2>1, <2>2 DEF EndOK
<1> QED
  BY <1>1, <1>2, <1>3, <1>4, <1>5, <1>6 DEF Next, Step

(* Each finding is added up once, at the place of its rule in the catalog.   *)
LEMMA OneWeight ==
  ASSUME TypeOK, FindingsOK, pc = "summarize", at < Len(Catalog),
         TallyOK(at), Summarize
  PROVE  TallyOK(at)'
<1> DEFINE next == Catalog[at + 1]
           Added == /\ tally'.pass <= tally'.total /\ tally'.total <= 8 * (at + 1)
                    /\ tally'.pass > 0 <=> Heavy("PASS", at + 1)
                    /\ tally'.total > tally'.pass <=> Heavy("FAIL", at + 1)
<1>1. at \in Nat /\ Len(Catalog) \in Nat
  BY CatalogFacts DEF TypeOK
<1>2. tally.pass \in Nat /\ tally.total \in Nat
  BY DEF TypeOK
<1>3. \A f \in findings : /\ Weight(f.severity) \in Nat /\ Weight(f.severity) <= 8
                          /\ f.severity \in Severity
  BY WeightBounds DEF TypeOK, Finding
<1>4. \A f : Counted(f, at + 1) <=> Counted(f, at) \/ f.rule = next
  BY <1>1 DEF Counted
<1>5. \A f : f.rule = next => ~Counted(f, at)
  BY <1>1, CatalogFacts DEF Counted
<1>6. \A f, g \in findings : f.rule = next /\ g.rule = next => f = g
  BY DEF FindingsOK
<1> HIDE DEF next
<1>7. findings' = findings /\ at' = at + 1
  BY DEF Summarize, result
<1>8. Added
  <2>1. CASE (\A f \in findings : f.rule # next) /\ UNCHANGED tally
    <3>1. \A status : Heavy(status, at + 1) <=> Heavy(status, at)
      BY <2>1, <1>4 DEF Heavy
    <3> QED
      BY <2>1, <3>1, <1>1, <1>2 DEF TallyOK
  <2>2. ASSUME NEW f \in findings, f.rule = next, tally' = Add(tally, f)
        PROVE  Added
    <3> DEFINE w == Weight(f.severity)
    <3>1. \A status : Heavy(status, at + 1) <=>
                        Heavy(status, at) \/ (f.status = status /\ w > 0)
      BY <2>2, <1>4, <1>6 DEF Heavy
    <3>2. w \in Nat /\ w <= 8
      BY <1>3
    <3>3. /\ tally'.pass = tally.pass + IF f.status = "PASS" THEN w ELSE 0
          /\ tally'.total = tally.total + IF f.status \in {"PASS", "FAIL"} THEN w ELSE 0
      BY <2>2 DEF Add
    <3> HIDE DEF w
    <3>4. CASE f.status = "PASS"
      BY <3>1, <3>2, <3>3, <3>4, <1>1, <1>2 DEF TallyOK
    <3>5. CASE f.status = "FAIL"
      BY <3>1, <3>2, <3>3, <3>5, <1>1, <1>2 DEF TallyOK
    <3>6. CASE f.status \notin {"PASS", "FAIL"}
      BY <3>1, <3>2, <3>3, <3>6, <1>1, <1>2 DEF TallyOK
    <3> QED
      BY <3>4, <3>5, <3>6
  <2> QED
    BY <2>1, <2>2 DEF Summarize, next
<1>9. \A status : Heavy(status, at)' <=> Heavy(status, at + 1)
  BY <1>7 DEF Heavy, Counted
<1> QED
  BY <1>7, <1>8, <1>9 DEF TallyOK

LEMMA SummaryKept ==
  ASSUME NEW n, TallyOK(n), UNCHANGED <<findings, tally>>
  PROVE  TallyOK(n)'
BY DEF TallyOK, Heavy, Counted

LEMMA SummaryStep ==
  TypeOK /\ ProgressOK /\ FindingsOK /\ SummaryOK /\ [Next]_vars => SummaryOK'
<1> SUFFICES ASSUME TypeOK, ProgressOK, FindingsOK, SummaryOK, [Next]_vars
             PROVE  SummaryOK'
  OBVIOUS
<1> USE DEF Goto, Exit, input, config, result, Auditing
<1>1. CASE pc' # "summarize" /\ ~Summed'
  BY <1>1 DEF SummaryOK
<1>2. CASE Start \/ LoadBaseline \/ StatBaseline \/ ReadBaseline \/ Collect
           \/ FinishCollect \/ Evaluate
  <2>1. pc' # "summarize" /\ written' = 0 /\ (pc' = "write" => ~Auditing')
    BY <1>2 DEF ProgressOK, Start, LoadBaseline, StatBaseline, ReadBaseline,
                Collect, FinishCollect, Evaluate
  <2>2. Chunks > 0
    BY InputAssumption
  <2> QED
    BY <1>1, <2>1, <2>2 DEF Summed
<1>3. CASE FinishEvaluate
  <2>1. pc' = "summarize" /\ at' = 0 /\ written' = 0 /\ UNCHANGED <<findings, tally>>
    BY <1>3 DEF FinishEvaluate, ProgressOK
  <2>2. tally = [pass |-> 0, total |-> 0]
    BY <1>3 DEF FinishEvaluate, ProgressOK
  <2>3. tally'.pass = 0 /\ tally'.total = 0
    BY <2>1, <2>2
  <2>4. \A status : ~Heavy(status, at)'
    BY <2>1 DEF Heavy, Counted
  <2>5. TallyOK(at)'
    BY <2>1, <2>3, <2>4 DEF TallyOK
  <2> QED
    BY <2>1, <2>5 DEF SummaryOK, Summed
<1>4. CASE Summarize
  <2>1. pc' = "summarize" /\ pc = "summarize" /\ at < Len(Catalog) /\ written' = 0
    BY <1>4 DEF Summarize, ProgressOK
  <2>2. TallyOK(at)'
    BY <1>4, <2>1, OneWeight DEF SummaryOK
  <2> QED
    BY <2>1, <2>2 DEF SummaryOK, Summed
<1>5. CASE FinishSummarize
  <2>1. /\ pc = "summarize" /\ at = Len(Catalog) /\ pc' = "write"
        /\ UNCHANGED <<findings, tally>>
        /\ score' = IF tally.total > 0 THEN Percent(tally) ELSE NoScore
    BY <1>5 DEF FinishSummarize
  <2>2. TallyOK(Len(Catalog))
    BY <2>1 DEF SummaryOK
  <2>3. TallyOK(Len(Catalog))'
    BY <2>1, <2>2, SummaryKept
  <2>4. score' = IF tally'.total > 0 THEN Percent(tally') ELSE NoScore
    BY <2>1 DEF Percent
  <2> QED
    BY <2>1, <2>3, <2>4 DEF SummaryOK
<1>6. CASE Write \/ WriteFails \/ FinishWrite \/ Panic \/ Interrupt \/ Done
           \/ UNCHANGED vars
  <2>1. UNCHANGED <<request, findings, tally, score>>
    BY <1>6 DEF Write, WriteFails, FinishWrite, Panic, Interrupt, Done, vars
  <2>2. Summed' => Summed
    BY <1>6 DEF Write, WriteFails, FinishWrite, Panic, Interrupt, Done, vars, Summed
  <2>3. Summed' => TallyOK(Len(Catalog))' /\ score' = IF tally'.total > 0 THEN Percent(tally') ELSE NoScore
    BY <2>1, <2>2, SummaryKept DEF SummaryOK, Percent
  <2>4. ASSUME pc' = "summarize" PROVE TallyOK(at)'
    <3>1. pc = "summarize" /\ at' = at
      BY <1>6, <2>4 DEF Write, WriteFails, FinishWrite, Panic, Interrupt, Done, vars
    <3>2. TallyOK(at)
      BY <3>1 DEF SummaryOK
    <3> QED
      BY <2>1, <3>1, <3>2 DEF TallyOK, Heavy, Counted
  <2> QED
    BY <2>3, <2>4 DEF SummaryOK
<1> QED
  BY <1>2, <1>3, <1>4, <1>5, <1>6 DEF Next, Step

LEMMA InvariantHolds == Spec => []Invariant
<1>1. Init => Invariant
  <2> SUFFICES ASSUME Init PROVE Invariant
    OBVIOUS
  <2>1. findings = {} /\ written = 0 /\ pc = "start"
    BY DEF Init
  <2>2. FindingsOK /\ SummaryOK /\ EndOK
    BY <2>1 DEF FindingsOK, SummaryOK, EndOK, Summed
  <2> QED
    BY <2>2, PlacedInit DEF Placed, Invariant
<1>2. Invariant /\ [Next]_vars => Invariant'
  BY PlacedStep, FindingsStep, SummaryStep, EndStep DEF Placed, Invariant
<1> QED
  BY <1>1, <1>2, PTL DEF Spec
-----------------------------------------------------------------------------
(* NoGapPasses holds in every reachable state: data that were not collected, *)
(* a rule that does not apply and an excluded rule never show as compliant.  *)
THEOREM GapsNeverPass == Spec => []NoGapPasses
<1>1. Invariant => NoGapPasses
  <2> SUFFICES ASSUME Invariant, NEW f \in findings, f.status = "PASS"
               PROVE  /\ snap[SectionOf[f.rule]] = "collected"
                      /\ verdict[f.rule] = "PASS"
                      /\ os \in Platforms[f.rule] /\ f.rule \notin baseline.excluded
    BY DEF NoGapPasses
  <2>1. f = evaluate(f.rule)
    BY DEF Invariant, FindingsOK
  <2>2. f.status = IF f.rule \in baseline.excluded \/ os \notin Platforms[f.rule]
                   THEN "SKIP" ELSE safeCheck(f.rule)
    BY <2>1 DEF evaluate
  <2>3. safeCheck(f.rule) = "PASS" /\ os \in Platforms[f.rule] /\ f.rule \notin baseline.excluded
    BY <2>2
  <2>4. check(f.rule) = "PASS"
    BY <2>3 DEF safeCheck
  <2> QED
    BY <2>3, <2>4 DEF check, unavailable
<1> QED
  BY <1>1, InvariantHolds, PTL

LEMMA WholeCatalog == Found(Len(Catalog)) = SelectedRules
<1>1. \A i \in 1..Len(Catalog) : Catalog[i] \in Rule
  BY CatalogFacts
<1> HIDE DEF Selected
<1> QED
  BY <1>1 DEF Found, SelectedRules

(* ReportIsWhole holds in every reachable state: one finding of each         *)
(* selected rule, whatever the checks do.                                   *)
THEOREM ReportsAreWhole == Spec => []ReportIsWhole
<1>1. Invariant => ReportIsWhole
  <2> SUFFICES ASSUME Invariant, Summed
               PROVE  /\ {f.rule : f \in findings} = SelectedRules
                      /\ \A f, g \in findings : f.rule = g.rule => f = g
    BY DEF ReportIsWhole, Summed
  <2>1. {f.rule : f \in findings} = SelectedRules
    BY WholeCatalog DEF Invariant, FindingsOK
  <2>2. \A f, g \in findings : f.rule = g.rule => f = g
    BY DEF Invariant, FindingsOK
  <2> QED
    BY <2>1, <2>2
<1> QED
  BY <1>1, InvariantHolds, PTL

(* ExitCodeIsHonest holds in every reachable state: the exit codes say of    *)
(* the selected rules what the README promises.                             *)
THEOREM ExitCodesAreHonest == Spec => []ExitCodeIsHonest
<1>1. Invariant => ExitCodeIsHonest
  <2> SUFFICES ASSUME Invariant, pc = "done", Auditing
               PROVE  /\ code \in {ExitOK, ExitFindings} <=> Reported
                      /\ code = ExitFindings => request.failOn # 0
                      /\ Reported /\ request.failOn # 0 =>
                           (code = ExitFindings <=> \E r \in SelectedRules : NeedsAttention(r))
                      /\ code = ExitUsage => written = 0 /\ findings = {}
    BY DEF ExitCodeIsHonest
  <2>1. EndOK
    BY DEF Invariant
  <2>2. code = ExitFindings => request.failOn # 0
    BY <2>1 DEF EndOK, exitCode, ExitFindings, ExitOK
  <2>3. ASSUME Reported, request.failOn # 0
        PROVE  code = ExitFindings <=> \E r \in SelectedRules : NeedsAttention(r)
    <3> DEFINE Heeded(f) == \/ f.status = "ERROR"
                            \/ f.status = "FAIL" /\ f.severity >= request.failOn
    <3>1. code = ExitFindings <=> \E f \in findings : Heeded(f)
      BY <2>1, <2>3 DEF EndOK, exitCode, ExitFindings, ExitOK
    <3>2. Summed
      BY <2>3, InputAssumption DEF Summed, Reported
    <3>3. {f.rule : f \in findings} = SelectedRules
      BY <3>2, WholeCatalog DEF Invariant, FindingsOK
    <3>4. \A f \in findings : f.rule \in Rule /\ f = evaluate(f.rule)
      BY DEF Invariant, FindingsOK
    <3>5. ASSUME NEW r \in Rule
          PROVE  Heeded(evaluate(r)) <=> NeedsAttention(r)
      <4>1. evaluate(r).severity = EffectiveSeverity(r)
        BY DEF evaluate
      <4>2. CASE r \in baseline.excluded \/ os \notin Platforms[r]
        BY <4>2 DEF evaluate, NeedsAttention
      <4>3. CASE ~(r \in baseline.excluded \/ os \notin Platforms[r])
        <5>1. evaluate(r).status = safeCheck(r)
          BY <4>3 DEF evaluate
        <5>2. snap[SectionOf[r]] \in CollectionStatus
          BY CatalogAssumption DEF Invariant, TypeOK
        <5>3. CASE snap[SectionOf[r]] = "collected"
          BY <4>1, <4>3, <5>1, <5>3 DEF safeCheck, check, Status, NeedsAttention
        <5>4. CASE snap[SectionOf[r]] = "failed"
          BY <4>3, <5>1, <5>4 DEF safeCheck, check, unavailable, Status, NeedsAttention
        <5>5. CASE snap[SectionOf[r]] \in {"unsupported", "not_found", "permission_denied"}
          BY <4>3, <5>1, <5>5 DEF safeCheck, check, unavailable, Status, NeedsAttention
        <5> QED
          BY <5>2, <5>3, <5>4, <5>5 DEF CollectionStatus
      <4> QED
        BY <4>2, <4>3
    <3> HIDE DEF Heeded
    <3>6. ASSUME NEW f \in findings, Heeded(f)
          PROVE  \E r \in SelectedRules : NeedsAttention(r)
      BY <3>3, <3>4, <3>5, <3>6
    <3>7. ASSUME NEW r \in SelectedRules, NeedsAttention(r)
          PROVE  \E f \in findings : Heeded(f)
      <4>1. PICK f \in findings : f.rule = r
        BY <3>3
      <4> QED
        BY <3>4, <3>5, <3>7, <4>1
    <3> QED
      BY <3>1, <3>6, <3>7
  <2> QED
    BY <2>1, <2>2, <2>3 DEF EndOK
<1> QED
  BY <1>1, InvariantHolds, PTL

(* ScoreIsHonest holds in every reachable state, for every catalog whose     *)
(* weights stay below 200: rounding hides neither a failure nor a pass.      *)
THEOREM ScoresAreHonest == Spec => []ScoreIsHonest
<1>1. Invariant => ScoreIsHonest
  <2> DEFINE Some(status) == \E f \in findings : f.status = status /\ Weight(f.severity) > 0
  <2> SUFFICES ASSUME Invariant, Summed
               PROVE  /\ score = 100 => ~Some("FAIL")
                      /\ score = 0 => ~Some("PASS")
                      /\ score = NoScore <=> ~Some("PASS") /\ ~Some("FAIL")
                      /\ (code = ExitOK /\ request.failOn \in {1, 2}) =>
                           score \in {100, NoScore}
    BY DEF ScoreIsHonest, Summed
  <2>1. TypeOK /\ TallyOK(Len(Catalog)) /\ {f.rule : f \in findings} = Found(Len(Catalog))
    BY DEF Invariant, SummaryOK, FindingsOK
  <2>2. \A f \in findings : Counted(f, Len(Catalog))
    BY <2>1 DEF Found, Counted
  <2>3. \A status : Heavy(status, Len(Catalog)) <=> Some(status)
    BY <2>2 DEF Heavy
  <2>4. tally.pass \in Nat /\ tally.total \in Nat
    BY <2>1 DEF TypeOK
  <2> HIDE DEF Some
  <2>5. /\ tally.pass <= tally.total /\ tally.total < 200
        /\ tally.pass > 0 <=> Some("PASS")
        /\ tally.total > tally.pass <=> Some("FAIL")
    BY <2>1, <2>3, <2>4, CatalogFacts DEF TallyOK
  <2>6. score = IF tally.total > 0 THEN Percent(tally) ELSE NoScore
    BY DEF Invariant, SummaryOK
  <2>7. CASE tally.total > 0
    <3>1. score = Percent(tally)
      BY <2>6, <2>7
    <3>2. score \in Nat /\ (score = 100 <=> tally.pass = tally.total)
            /\ (score = 0 => tally.pass = 0)
      <4>1. ASSUME NEW p \in Nat, NEW t \in Nat, p <= t, t > 0, t < 200,
                   tally.pass = p, tally.total = t
            PROVE  score \in Nat /\ (score = 100 <=> p = t) /\ (score = 0 => p = 0)
        <5>1. score = (200 * p + t) \div (2 * t)
          BY <3>1, <4>1 DEF Percent
        <5> DEFINE q == (200 * p + t) \div (2 * t)
        <5>2. q \in Nat /\ (q = 100 <=> p = t) /\ (q = 0 => p = 0)
          BY <4>1, Rounding
        <5> HIDE DEF q
        <5> QED
          BY <5>1, <5>2 DEF q
      <4> QED
        BY <2>4, <2>5, <2>7, <4>1
    <3> QED
      <4>1. /\ score = 100 => ~Some("FAIL")
            /\ score = 0 => ~Some("PASS")
            /\ score = NoScore <=> ~Some("PASS") /\ ~Some("FAIL")
        BY <2>4, <2>5, <2>7, <3>2 DEF NoScore
      <4>2. ASSUME code = ExitOK, request.failOn \in {1, 2} PROVE score = 100
        <5>1. exitCode = ExitOK
          BY <4>2 DEF Invariant, EndOK, TypeOK, Summed, Reported, Running, ExitOK
        <5>2. ASSUME NEW f \in findings, f.status = "FAIL", Weight(f.severity) > 0
              PROVE  FALSE
          <6>1. ~(f.severity >= request.failOn)
            BY <4>2, <5>1, <5>2 DEF exitCode, ExitOK, ExitFindings
          <6>2. f.severity \in Severity
            BY <2>1 DEF TypeOK, Finding
          <6>3. f.severity = 1
            BY <4>2, <6>1, <6>2 DEF Severity
          <6> QED
            BY <5>2, <6>3 DEF Weight
        <5>3. ~Some("FAIL")
          BY <5>2 DEF Some
        <5> QED
          BY <2>4, <2>5, <3>2, <5>3
      <4> QED
        BY <4>1, <4>2
  <2>8. CASE ~(tally.total > 0)
    <3>1. score = NoScore /\ tally.total = 0 /\ tally.pass = 0
      BY <2>4, <2>5, <2>6, <2>8
    <3> QED
      BY <2>5, <3>1 DEF NoScore
  <2> QED
    BY <2>7, <2>8
<1> QED
  BY <1>1, InvariantHolds, PTL
-----------------------------------------------------------------------------
(* The baseline is what an accepted document says.                          *)
BaselineFromFile ==
  \A d \in said : d \in Documents /\ Accepted(d) /\ baseline = Parse(d)

LEMMA BaselineKept == Spec => []BaselineFromFile
<1>1. Init => BaselineFromFile
  BY DEF Init, BaselineFromFile
<1>2. BaselineFromFile /\ [Next]_vars => BaselineFromFile'
  <2> SUFFICES ASSUME BaselineFromFile, [Next]_vars PROVE BaselineFromFile'
    OBVIOUS
  <2>1. CASE ReadBaseline
    <3>1. CASE UNCHANGED config
      BY <3>1 DEF config, BaselineFromFile
    <3>2. CASE ~UNCHANGED config
      <4>1. PICK f \in BaselineFile(Documents) :
              Accepted(f.doc) /\ baseline' = Parse(f.doc) /\ said' = {f.doc}
        BY <2>1, <3>2 DEF ReadBaseline
      <4>2. f.doc \in Documents
        BY DEF BaselineFile
      <4> QED
        BY <4>1, <4>2 DEF BaselineFromFile
    <3> QED
      BY <3>1, <3>2
  <2>2. CASE UNCHANGED config
    BY <2>2 DEF config, BaselineFromFile
  <2>3. [Next]_vars => ReadBaseline \/ UNCHANGED config
    BY DEF Next, Step, Start, LoadBaseline, StatBaseline, Collect, FinishCollect, Evaluate,
           FinishEvaluate, Summarize, FinishSummarize, Write, WriteFails, FinishWrite, Panic,
           Interrupt, Done, vars, config
  <2> QED
    BY <2>1, <2>2, <2>3
<1> QED
  BY <1>1, <1>2, PTL DEF Spec

(* What an accepted document says, and what the baseline makes of it.       *)
LEMMA AcceptedMeans ==
  ASSUME NEW d \in Documents, Accepted(d)
  PROVE  /\ Listed(d) \subseteq Rule
         /\ d.lists <=> Listed(d) # {}
         /\ d.rules = <<>> <=> Listed(d) = {}
         /\ \A i \in 1..Len(d.exclude) :
              /\ d.exclude[i].rule \in Rule /\ d.exclude[i].reason
              /\ DocSelects(d, d.exclude[i].rule)
         /\ \A o \in d.overrides : o.rule \in Rule /\ o.severity # 0
<1>1. d.rules \in Seq(ID) /\ Len(d.rules) \in Nat
  BY InputAssumption
<1>2. ~errs(d)
  BY DEF Accepted
<1>3. Listed(d) \subseteq Rule
  BY <1>2 DEF errs, known, Listed
<1>4. d.rules = <<>> <=> Listed(d) = {}
  <2>1. d.rules = <<>> <=> Len(d.rules) = 0
    BY <1>1
  <2>2. CASE Len(d.rules) = 0
    BY <2>1, <2>2 DEF Listed
  <2>3. CASE Len(d.rules) # 0
    <3>1. 1 \in 1..Len(d.rules)
      BY <1>1, <2>3
    <3>2. d.rules[1] \in Listed(d)
      BY <3>1 DEF Listed
    <3> QED
      BY <2>1, <2>3, <3>2
  <2> QED
    BY <2>2, <2>3
<1>5. d.lists => d.rules # <<>>
  BY <1>2 DEF errs
<1>6. ~d.lists => d.rules = <<>>
  BY InputAssumption
<1>7. d.lists <=> Listed(d) # {}
  BY <1>4, <1>5, <1>6, InputAssumption
<1>8. ASSUME NEW i \in 1..Len(d.exclude)
      PROVE  /\ d.exclude[i].rule \in Rule /\ d.exclude[i].reason
             /\ DocSelects(d, d.exclude[i].rule)
  BY <1>2 DEF errs, known
<1>9. \A o \in d.overrides : o.rule \in Rule /\ o.severity # 0
  BY <1>2 DEF errs, known
<1> QED
  BY <1>3, <1>4, <1>7, <1>8, <1>9

LEMMA OverrideMeans ==
  ASSUME NEW d \in Documents, Accepted(d), baseline = Parse(d), NEW r \in Rule
  PROVE  /\ \A o \in d.overrides : o.rule = r => EffectiveSeverity(r) = o.severity
         /\ \/ EffectiveSeverity(r) = DefaultSeverity[r]
            \/ [rule |-> r, severity |-> EffectiveSeverity(r)] \in d.overrides
<1>1. baseline.override[r] = IF \E o \in d.overrides : o.rule = r
                             THEN (CHOOSE o \in d.overrides : o.rule = r).severity ELSE 0
  BY DEF Parse
<1>2. /\ \A o, p \in d.overrides : o.rule = p.rule => o = p
      /\ \A o \in d.overrides : o.severity # 0 /\ o \in Override
  BY AcceptedMeans, InputAssumption
<1>3. CASE \E o \in d.overrides : o.rule = r
  <2> DEFINE x == CHOOSE o \in d.overrides : o.rule = r
  <2>1. x \in d.overrides /\ x.rule = r
    BY <1>3
  <2>2. baseline.override[r] = x.severity
    BY <1>1, <1>3
  <2> HIDE DEF x
  <2>3. EffectiveSeverity(r) = x.severity
    BY <1>2, <2>1, <2>2 DEF EffectiveSeverity
  <2>4. x = [rule |-> r, severity |-> x.severity]
    <3>1. x \in Override
      BY <1>2, <2>1
    <3> QED
      BY <2>1, <3>1 DEF Override
  <2> QED
    BY <1>2, <2>1, <2>3, <2>4
<1>4. CASE ~\E o \in d.overrides : o.rule = r
  BY <1>1, <1>4 DEF EffectiveSeverity
<1> QED
  BY <1>3, <1>4

(* ConfigIsObeyed holds in every reachable state: a report written under a   *)
(* baseline file says of the rules what the file says, for every file.      *)
THEOREM ConfigurationsAreObeyed == Spec => []ConfigIsObeyed
<1>1. Invariant /\ BaselineFromFile => ConfigIsObeyed
  <2> DEFINE reported == {f.rule : f \in findings}
             reasons(d) == {x.rule : x \in {d.exclude[i] : i \in {i \in DOMAIN d.exclude :
                                                                    d.exclude[i].reason}}}
             named(d) == Listed(d) \cup {d.exclude[i].rule : i \in DOMAIN d.exclude}
  <2> SUFFICES ASSUME Invariant, BaselineFromFile, Auditing, pc = "write", NEW d \in said
               PROVE  /\ named(d) \subseteq reported
                      /\ reported = IF d.lists THEN Listed(d) ELSE Rule
                      /\ \A f \in findings :
                           /\ (f.status # safeCheck(f.rule) /\ os \in Platforms[f.rule]) =>
                                f.rule \in reasons(d) /\ f.status = "SKIP"
                           /\ \/ f.severity = DefaultSeverity[f.rule]
                              \/ [rule |-> f.rule, severity |-> f.severity] \in d.overrides
                      /\ \A o \in d.overrides : \A f \in findings :
                           f.rule = o.rule => f.severity = o.severity
    BY DEF ConfigIsObeyed
  <2>1. d \in Documents /\ Accepted(d) /\ baseline = Parse(d)
    BY DEF BaselineFromFile
  <2>2. /\ baseline.rules = Listed(d)
        /\ baseline.excluded = {r \in Rule : \E i \in 1..Len(d.exclude) : d.exclude[i].rule = r}
    BY <2>1 DEF Parse
  <2>3. DOMAIN d.exclude = 1..Len(d.exclude)
    <3>1. d.exclude \in Seq(Exclusion)
      BY <2>1, InputAssumption
    <3> QED
      BY <3>1
  <2>4. reported = {r \in Rule : Selected(r)}
    <3>1. reported = SelectedRules
      BY WholeCatalog DEF Invariant, FindingsOK, Summed
    <3> QED
      BY <3>1, CatalogAssumption DEF SelectedRules
  <2>5. reported = IF d.lists THEN Listed(d) ELSE Rule
    BY <2>1, <2>2, <2>4, AcceptedMeans DEF Selected
  <2>6. named(d) \subseteq reported
    <3>1. Listed(d) \subseteq reported
      BY <2>1, <2>5, AcceptedMeans
    <3>2. ASSUME NEW i \in 1..Len(d.exclude) PROVE d.exclude[i].rule \in reported
      BY <2>1, <2>5, AcceptedMeans DEF DocSelects
    <3> QED
      BY <2>3, <3>1, <3>2
  <2> HIDE DEF reported
  <2>7. ASSUME NEW f \in findings
        PROVE  /\ f.rule \in Rule /\ f.severity = EffectiveSeverity(f.rule)
               /\ f.status = IF f.rule \in baseline.excluded \/ os \notin Platforms[f.rule]
                             THEN "SKIP" ELSE safeCheck(f.rule)
    <3>1. f.rule \in Rule /\ f = evaluate(f.rule)
      BY DEF Invariant, FindingsOK
    <3> DEFINE r == f.rule
               e == evaluate(r)
    <3>2. /\ e.severity = EffectiveSeverity(r)
          /\ e.status = IF r \in baseline.excluded \/ os \notin Platforms[r]
                        THEN "SKIP" ELSE safeCheck(r)
      BY DEF evaluate
    <3> QED
      BY <3>1, <3>2
  <2>8. ASSUME NEW f \in findings, f.status # safeCheck(f.rule), os \in Platforms[f.rule]
        PROVE  f.rule \in reasons(d) /\ f.status = "SKIP"
    <3>1. f.rule \in baseline.excluded /\ f.status = "SKIP"
      BY <2>7, <2>8
    <3>2. PICK i \in 1..Len(d.exclude) : d.exclude[i].rule = f.rule
      BY <2>2, <3>1
    <3>3. d.exclude[i].reason
      BY <2>1, AcceptedMeans
    <3> QED
      BY <2>3, <3>1, <3>2, <3>3
  <2>9. ASSUME NEW f \in findings
        PROVE  \/ f.severity = DefaultSeverity[f.rule]
               \/ [rule |-> f.rule, severity |-> f.severity] \in d.overrides
    BY <2>1, <2>7, OverrideMeans
  <2>10. ASSUME NEW o \in d.overrides, NEW f \in findings, f.rule = o.rule
         PROVE  f.severity = o.severity
    <3>1. f.rule \in Rule /\ f.severity = EffectiveSeverity(f.rule)
      BY <2>7
    <3>2. \A x \in d.overrides : x.rule = f.rule => EffectiveSeverity(f.rule) = x.severity
      BY <2>1, <3>1, OverrideMeans
    <3> QED
      BY <2>10, <3>1, <3>2
  <2>11. \A f \in findings :
           /\ (f.status # safeCheck(f.rule) /\ os \in Platforms[f.rule]) =>
                f.rule \in reasons(d) /\ f.status = "SKIP"
           /\ \/ f.severity = DefaultSeverity[f.rule]
              \/ [rule |-> f.rule, severity |-> f.severity] \in d.overrides
    <3> HIDE DEF reasons
    <3> QED
      BY <2>8, <2>9
  <2>12. \A o \in d.overrides : \A f \in findings : f.rule = o.rule => f.severity = o.severity
    BY <2>10
  <2> HIDE DEF reasons, named
  <2> QED
    BY <2>5, <2>6, <2>11, <2>12
<1> QED
  BY <1>1, InvariantHolds, BaselineKept, PTL
=============================================================================
