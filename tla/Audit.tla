-------------------------------- MODULE Audit --------------------------------
(***************************************************************************)
(* One run of the program, from the arguments to the exit code: App.Run and *)
(* the audit, snapshot and rules list commands (src/internal/cli), the      *)
(* baseline file (src/internal/baseline), the order of the collectors       *)
(* (src/internal/collector) and the engine that turns a snapshot and a      *)
(* baseline into findings and a score (src/internal/engine).  Findings are  *)
(* a set: the order they are sorted in is left out.                         *)
(*                                                                         *)
(* What a collector returns and what a rule finds in collected data are     *)
(* inputs here; the modules of those components say what they may be.  An   *)
(* interrupt may arrive, an internal panic may happen and the output may    *)
(* fail at any moment, and the baseline file may be another one at each     *)
(* call that names it.                                                      *)
(***************************************************************************)
EXTENDS Integers, Sequences, FiniteSets

CONSTANTS
  Rule,            \* rule IDs
  Catalog,         \* the rules, in the order of the catalog
  DefaultSeverity, \* of each rule
  Platforms,       \* the operating systems each rule targets
  SectionOf,       \* the section of the snapshot each rule reads
  Requests,        \* command lines: see Request
  Unknown,         \* an ID no rule of the catalog has
  Documents,       \* what a baseline file may say: see Document
  Statuses,        \* the statuses each section may be collected with
  Verdict,         \* what the check of a rule may do on collected data
  Chunks           \* bound: how many writes a report or a listing takes

OS == {"linux", "windows", "darwin"}
Section == {"accounts", "sshd", "firewall", "files"}
CollectionStatus ==
  {"collected", "unsupported", "not_found", "permission_denied", "failed"}
Severity == 1..5           \* INFO to CRITICAL
Status == {"PASS", "FAIL", "SKIP", "ERROR"}

(* failOn is the severity given to --fail-on, 0 for "none".                 *)
Request == [command : {"audit", "snapshot", "rules", "help", "invalid"},
            failOn : 0..5, config : BOOLEAN]

(* An empty set of rules selects all of them.                               *)
Baseline == [rules : SUBSET Rule, excluded : SUBSET Rule,
             override : [Rule -> 0..5]]       \* 0: no override

DefaultBaseline ==
  [rules |-> {}, excluded |-> {}, override |-> [r \in Rule |-> 0]]

(* A baseline file as the decoder delivers it.  decodes: it is one document  *)
(* with known fields only.  lists: it has the field rules.  The severity of  *)
(* an override is 0 when its name is none of the five.                       *)
ID == Rule \cup {Unknown}
Exclusion == [rule : ID, reason : BOOLEAN]
Override == [rule : ID, severity : 0..5]
BaselineFile(d) ==
  [error : BOOLEAN,      \* cannot be inspected, or read, or is too large
   shared : BOOLEAN,     \* others than its owner may write it
   doc : d]

ASSUME CatalogAssumption ==
  /\ Catalog \in Seq(Rule)
  /\ \A i, j \in 1..Len(Catalog) : Catalog[i] = Catalog[j] => i = j
  /\ \A r \in Rule : \E i \in 1..Len(Catalog) : Catalog[i] = r
  /\ Unknown \notin Rule
  /\ DefaultSeverity \in [Rule -> Severity]
  /\ Platforms \in [Rule -> SUBSET OS]
  /\ SectionOf \in [Rule -> Section]
(* 22 in the code.  With 200 or more at stake a small failure would round to *)
(* a score of 100.                                                          *)
ASSUME CatalogSize == Len(Catalog) <= 24
ASSUME InputAssumption ==
  /\ Requests \subseteq Request
  /\ \A d \in Documents :
       /\ d.decodes \in BOOLEAN /\ d.version \in Int /\ d.lists \in BOOLEAN
       /\ d.rules \in Seq(ID) /\ d.exclude \in Seq(Exclusion)
       /\ d.overrides \subseteq Override
       /\ ~d.lists => d.rules = <<>>
       /\ \A o, p \in d.overrides : o.rule = p.rule => o = p
  /\ Statuses \in [Section -> SUBSET CollectionStatus]
  /\ Status \subseteq Verdict
  /\ Chunks \in Nat \ {0}

VARIABLES
  request, os, verdict,   \* the inputs of the run
  pc,
  baseline,
  said,          \* history: the documents the baseline was read from
  ctxDone,       \* an interrupt has cancelled the context
  snap,          \* the status of each section of the snapshot
  at,            \* how many sections, or rules, have been dealt with
  findings,
  tally,         \* the weights of PASS, and of PASS and FAIL, so far
  score,
  written,       \* how many writes to standard output have succeeded
  code           \* the exit code, or Running

input == <<request, os, verdict>>
config == <<baseline, said>>
result == <<findings, tally, score>>
vars == <<input, pc, config, ctxDone, snap, at, result, written, code>>

Running == -1
ExitOK == 0
ExitFindings == 1
ExitUsage == 2
ExitRuntime == 3

NoScore == -1
-----------------------------------------------------------------------------
Exit(c) == pc' = "done" /\ code' = c
Goto(where) == pc' = where /\ UNCHANGED code

Init ==
  /\ request \in Requests
  /\ os \in OS
  /\ verdict \in [Rule -> Verdict]
  /\ pc = "start"
  /\ baseline = DefaultBaseline /\ said = {}
  /\ ctxDone = FALSE
  /\ snap = [s \in Section |-> "unsupported"]
  /\ at = 0
  /\ findings = {} /\ tally = [pass |-> 0, total |-> 0] /\ score = NoScore
  /\ written = 0
  /\ code = Running

(* App.Run: the command line.                                               *)
Start ==
  /\ pc = "start"
  /\ CASE request.command = "invalid" -> Exit(ExitUsage)
       [] request.command = "audit" -> Goto("baseline")
       [] request.command = "snapshot" -> Goto("collect")
       [] OTHER -> Goto("write")
  /\ UNCHANGED <<input, config, ctxDone, snap, at, result, written>>

(* Without --config the default baseline stays.  Only with elevated          *)
(* privileges the file is looked at before it is read.                      *)
LoadBaseline ==
  /\ pc = "baseline"
  /\ IF request.config THEN Goto("stat") \/ Goto("read") ELSE Goto("collect")
  /\ UNCHANGED <<input, config, ctxDone, snap, at, result, written>>

(* Windows tells no owner.                                                  *)
StatBaseline ==
  /\ pc = "stat"
  /\ \E f \in BaselineFile(Documents) :
       IF f.error \/ (f.shared /\ os # "windows") THEN Exit(ExitUsage) ELSE Goto("read")
  /\ UNCHANGED <<input, config, ctxDone, snap, at, result, written>>

known(id) == id \in Rule
Listed(d) == {d.rules[i] : i \in 1..Len(d.rules)}
DocSelects(d, id) == d.rules = <<>> \/ id \in Listed(d)

(* Mutant: what is not known is passed over.                                *)
errsKnownOnly(d) ==
  \/ d.lists /\ d.rules = <<>>
  \/ \E i \in 1..Len(d.exclude) : ~d.exclude[i].reason
  \/ \E o \in d.overrides : o.severity = 0

errs(d) ==
  \/ \E i \in 1..Len(d.rules) :
       ~known(d.rules[i]) \/ \E j \in 1 .. i - 1 : d.rules[j] = d.rules[i]
  \/ d.lists /\ d.rules = <<>>
  \/ \E i \in 1..Len(d.exclude) :
       LET x == d.exclude[i]
       IN  \/ ~known(x.rule) \/ ~x.reason \/ ~DocSelects(d, x.rule)
           \/ \E j \in 1 .. i - 1 : d.exclude[j].rule = x.rule
  \/ \E o \in d.overrides : ~known(o.rule) \/ o.severity = 0

Accepted(d) == d.decodes /\ d.version = 1 /\ ~errs(d)

Parse(d) ==
  [rules |-> Listed(d),
   excluded |-> {r \in Rule : \E i \in 1..Len(d.exclude) : d.exclude[i].rule = r},
   override |-> [r \in Rule |->
     IF \E o \in d.overrides : o.rule = r
     THEN (CHOOSE o \in d.overrides : o.rule = r).severity ELSE 0]]

ReadBaseline ==
  /\ pc = "read"
  /\ \E f \in BaselineFile(Documents) :
       IF f.error \/ ~Accepted(f.doc) THEN Exit(ExitUsage) /\ UNCHANGED config
       ELSE Goto("collect") /\ baseline' = Parse(f.doc) /\ said' = {f.doc}
  /\ UNCHANGED <<input, ctxDone, snap, at, result, written>>

(* The sections the platform has a collector for, in the order they run;    *)
(* the others are marked unsupported.                                       *)
Collectors ==
  CASE os = "linux" -> <<"accounts", "sshd", "firewall", "files">>
    [] os = "windows" -> <<"firewall", "sshd">>
    [] OTHER -> <<"sshd">>

Collect ==
  /\ pc = "collect" /\ at < Len(Collectors)
  /\ \E status \in Statuses[Collectors[at + 1]] :
       snap' = [snap EXCEPT ![Collectors[at + 1]] = status]
  /\ at' = at + 1
  /\ UNCHANGED <<input, pc, config, ctxDone, result, written, code>>

(* Mutant: the audit does not look at the context after Collect.            *)
FinishCollectAnyway ==
  /\ pc = "collect" /\ at = Len(Collectors)
  /\ IF request.command = "snapshot" THEN Goto("write") ELSE Goto("evaluate")
  /\ at' = 0
  /\ UNCHANGED <<input, config, ctxDone, snap, result, written>>

(* Only the audit looks at the context after Collect.                       *)
FinishCollect ==
  /\ pc = "collect" /\ at = Len(Collectors)
  /\ IF request.command = "snapshot" THEN Goto("write")
     ELSE IF ctxDone THEN Exit(ExitRuntime) ELSE Goto("evaluate")
  /\ at' = 0
  /\ UNCHANGED <<input, config, ctxDone, snap, result, written>>

Selected(r) == baseline.rules = {} \/ r \in baseline.rules
EffectiveSeverity(r) ==
  IF baseline.override[r] # 0 THEN baseline.override[r] ELSE DefaultSeverity[r]

(* What a rule returns for a section without data.                          *)
unavailable(status) ==
  IF status \in {"unsupported", "not_found", "permission_denied"}
  THEN "SKIP" ELSE "ERROR"

(* Mutant: a missing component counts as compliant.                         *)
checkOptimist(r) ==
  CASE snap[SectionOf[r]] = "not_found" -> "PASS"
    [] snap[SectionOf[r]] = "collected" -> verdict[r]
    [] OTHER -> unavailable(snap[SectionOf[r]])

check(r) ==
  IF snap[SectionOf[r]] = "collected" THEN verdict[r]
  ELSE unavailable(snap[SectionOf[r]])

(* A panic and a status that is none of the four become ERROR.              *)
safeCheck(r) == IF check(r) \in Status THEN check(r) ELSE "ERROR"

evaluate(r) ==
  [rule |-> r, severity |-> EffectiveSeverity(r),
   status |-> IF r \in baseline.excluded \/ os \notin Platforms[r]
              THEN "SKIP" ELSE safeCheck(r)]

(* Mutant: the first rule that panics ends the evaluation.                  *)
EvaluateUntilPanic ==
  /\ pc = "evaluate" /\ at < Len(Catalog)
  /\ LET r == Catalog[at + 1]
         stop == Selected(r) /\ check(r) \notin Status
     IN  /\ findings' = IF Selected(r) /\ ~stop
                        THEN findings \cup {evaluate(r)} ELSE findings
         /\ at' = IF stop THEN Len(Catalog) ELSE at + 1
  /\ UNCHANGED <<input, pc, config, ctxDone, snap, tally, score, written, code>>

Evaluate ==
  /\ pc = "evaluate" /\ at < Len(Catalog)
  /\ LET r == Catalog[at + 1]
     IN  findings' = IF Selected(r) THEN findings \cup {evaluate(r)} ELSE findings
  /\ at' = at + 1
  /\ UNCHANGED <<input, pc, config, ctxDone, snap, tally, score, written, code>>

(* Mutant: the evaluation ends when every rule of the catalog has a finding. *)
FinishWhenAllFound ==
  /\ pc = "evaluate" /\ Cardinality(findings) = Len(Catalog)
  /\ Goto("summarize") /\ at' = 0
  /\ UNCHANGED <<input, config, ctxDone, snap, result, written>>

FinishEvaluate ==
  /\ pc = "evaluate" /\ at = Len(Catalog)
  /\ Goto("summarize") /\ at' = 0
  /\ UNCHANGED <<input, config, ctxDone, snap, result, written>>

Weight(severity) ==
  CASE severity = 1 -> 0 [] severity = 2 -> 1 [] severity = 3 -> 2
    [] severity = 4 -> 4 [] severity = 5 -> 8

(* Mutant: what was not evaluated counts as passed.                         *)
AddUnlessFailed(t, f) ==
  [pass |-> t.pass + IF f.status # "FAIL" THEN Weight(f.severity) ELSE 0,
   total |-> t.total + Weight(f.severity)]

Add(t, f) ==
  [pass |-> t.pass + IF f.status = "PASS" THEN Weight(f.severity) ELSE 0,
   total |-> t.total + IF f.status \in {"PASS", "FAIL"} THEN Weight(f.severity) ELSE 0]

(* The loop over the findings, here in the order of the catalog.            *)
Summarize ==
  /\ pc = "summarize" /\ at < Len(Catalog)
  /\ \/ \E f \in findings : f.rule = Catalog[at + 1] /\ tally' = Add(tally, f)
     \/ (\A f \in findings : f.rule # Catalog[at + 1]) /\ UNCHANGED tally
  /\ at' = at + 1
  /\ UNCHANGED <<input, pc, config, ctxDone, snap, findings, score, written, code>>

(* math.Round: halves go up.                                                *)
Percent(t) == (200 * t.pass + t.total) \div (2 * t.total)

FinishSummarize ==
  /\ pc = "summarize" /\ at = Len(Catalog)
  /\ score' = IF tally.total > 0 THEN Percent(tally) ELSE NoScore
  /\ Goto("write")
  /\ UNCHANGED <<input, config, ctxDone, snap, at, findings, tally, written>>

(* Mutant: an ERROR below the threshold is forgiven like a FAIL.            *)
exitCodeLenient ==
  IF request.failOn # 0 /\
     \E f \in findings : f.status \in {"ERROR", "FAIL"}
                         /\ f.severity >= request.failOn
  THEN ExitFindings ELSE ExitOK

exitCode ==
  IF request.failOn # 0 /\
     \E f \in findings : \/ f.status = "ERROR"
                         \/ f.status = "FAIL" /\ f.severity >= request.failOn
  THEN ExitFindings ELSE ExitOK

Write ==
  /\ pc = "write" /\ written < Chunks
  /\ written' = written + 1
  /\ UNCHANGED <<input, pc, config, ctxDone, snap, at, result, code>>

(* The help text is printed without looking at the error.                   *)
WriteFails ==
  /\ pc = "write" /\ written < Chunks
  /\ Exit(IF request.command = "help" THEN ExitOK ELSE ExitRuntime)
  /\ UNCHANGED <<input, config, ctxDone, snap, at, result, written>>

FinishWrite ==
  /\ pc = "write" /\ written = Chunks
  /\ Exit(IF request.command = "audit" THEN exitCode ELSE ExitOK)
  /\ UNCHANGED <<input, config, ctxDone, snap, at, result, written>>

(* Any panic outside the check of a rule ends in the deferred recover.      *)
Panic ==
  /\ pc # "done"
  /\ written < Chunks
  /\ Exit(ExitRuntime)
  /\ UNCHANGED <<input, config, ctxDone, snap, at, result, written>>

Step ==
  \/ Start \/ LoadBaseline \/ StatBaseline \/ ReadBaseline
  \/ Collect \/ FinishCollect \/ Evaluate \/ FinishEvaluate
  \/ Summarize \/ FinishSummarize \/ Write \/ WriteFails \/ FinishWrite

(* The signal handler runs in its own goroutine.                            *)
Interrupt ==
  /\ pc # "done" /\ ~ctxDone
  /\ ctxDone' = TRUE
  /\ UNCHANGED <<input, pc, config, snap, at, result, written, code>>

Done == pc = "done" /\ UNCHANGED vars

Next == Step \/ Panic \/ Interrupt \/ Done

(* The main goroutine is never blocked for good: every command it runs has  *)
(* a timeout.                                                               *)
Spec == Init /\ [][Next]_vars /\ WF_vars(Step)
-----------------------------------------------------------------------------
Finding == [rule : Rule, severity : Severity, status : Status]

TypeOK ==
  /\ request \in Requests /\ os \in OS /\ verdict \in [Rule -> Verdict]
  /\ pc \in {"start", "baseline", "stat", "read", "collect", "evaluate",
             "summarize", "write", "done"}
  /\ baseline \in Baseline /\ said \subseteq Documents
  /\ ctxDone \in BOOLEAN
  /\ snap \in [Section -> CollectionStatus]
  /\ at \in Nat
  /\ pc = "collect" => at <= Len(Collectors)
  /\ pc \in {"evaluate", "summarize"} => at <= Len(Catalog)
  /\ tally \in [pass : Nat, total : Nat] /\ score \in Nat \cup {NoScore}
  /\ findings \subseteq Finding
  /\ written \in 0..Chunks
  /\ code \in {Running, ExitOK, ExitFindings, ExitUsage, ExitRuntime}
  /\ code = Running <=> pc # "done"

Auditing == request.command = "audit"
Reported == Auditing /\ written = Chunks
SelectedRules == {r \in Rule : Selected(r) /\ \E i \in 1..Len(Catalog) : Catalog[i] = r}

(* Rule r, had it been looked at alone, calls for attention: what it reads   *)
(* failed to be collected, or its check found an error, misbehaved, or       *)
(* found a failure at or above --fail-on.                                   *)
NeedsAttention(r) ==
  /\ r \notin baseline.excluded /\ os \in Platforms[r]
  /\ \/ snap[SectionOf[r]] = "failed"
     \/ /\ snap[SectionOf[r]] = "collected"
        /\ verdict[r] \notin {"PASS", "SKIP"}
        /\ verdict[r] = "FAIL" => EffectiveSeverity(r) >= request.failOn

(* The exit codes of the README.  0 and 1 mean that the whole report was     *)
(* written, 0 that no selected rule needs attention (or --fail-on none), 1   *)
(* that one does; a usage error has collected nothing and printed nothing.   *)
ExitCodeIsHonest ==
  pc = "done" /\ Auditing =>
    /\ code \in {ExitOK, ExitFindings} <=> Reported
    /\ code = ExitFindings => request.failOn # 0
    /\ Reported /\ request.failOn # 0 =>
         (code = ExitFindings <=> \E r \in SelectedRules : NeedsAttention(r))
    /\ code = ExitUsage => written = 0 /\ findings = {}

(* A report says something of every selected rule, and one thing only, even  *)
(* when checks panic.                                                       *)
ReportIsWhole ==
  Auditing /\ (pc = "write" \/ written > 0) =>
    /\ {f.rule : f \in findings} = SelectedRules
    /\ \A f, g \in findings : f.rule = g.rule => f = g

(* Missing data is never reported as compliant: what passes was collected,   *)
(* applies to this system, was not excluded, and its check returned PASS.    *)
NoGapPasses ==
  \A f \in findings : f.status = "PASS" =>
    /\ snap[SectionOf[f.rule]] = "collected"
    /\ verdict[f.rule] = "PASS"
    /\ os \in Platforms[f.rule] /\ f.rule \notin baseline.excluded

(* "a typo that silently disables a check would give a false sense of        *)
(* compliance" (baseline.go): a report written under --config says            *)
(* something of every ID the file names in rules or in exclude, of nothing    *)
(* else when it lists rules; it passes over only what is excluded with a      *)
(* reason, and ranks every finding as the file says.                         *)
ConfigIsObeyed ==
  Auditing /\ request.config /\ pc = "write" =>
    \A d \in said :
      LET reasons == {x.rule : x \in {d.exclude[i] : i \in {i \in DOMAIN d.exclude :
                                                              d.exclude[i].reason}}}
          named == Listed(d) \cup {d.exclude[i].rule : i \in DOMAIN d.exclude}
          reported == {f.rule : f \in findings}
      IN  /\ named \subseteq reported
          /\ reported = IF d.lists THEN Listed(d) ELSE Rule
          /\ \A f \in findings :
               /\ (f.status # safeCheck(f.rule) /\ os \in Platforms[f.rule]) =>
                    f.rule \in reasons /\ f.status = "SKIP"
               /\ f.severity = DefaultSeverity[f.rule]
                    \/ [rule |-> f.rule, severity |-> f.severity] \in d.overrides
          /\ \A o \in d.overrides : \A f \in findings :
               f.rule = o.rule => f.severity = o.severity

(* What the score hides (docs/scoring.md): 100 is shown only when nothing of *)
(* weight failed, 0 only when nothing of weight passed, none only when       *)
(* nothing of weight was evaluated, and an audit that exits with 0 though    *)
(* every failure above INFO counts shows 100 or none.                        *)
ScoreIsHonest ==
  Auditing /\ (pc = "write" \/ written > 0) =>
    LET heavy(status) == \E f \in findings : f.status = status /\ Weight(f.severity) > 0
    IN  /\ score = 100 => ~heavy("FAIL")
        /\ score = 0 => ~heavy("PASS")
        /\ score = NoScore <=> ~heavy("PASS") /\ ~heavy("FAIL")
        /\ (code = ExitOK /\ request.failOn \in {1, 2}) => score \in {100, NoScore}

(* An audit interrupted while it collects ends without a report and without *)
(* a code that claims one: what the collectors returned after the interrupt  *)
(* is not evaluated.                                                        *)
InterruptIsHonoured ==
  (Auditing /\ ctxDone /\ pc \in {"start", "baseline", "stat", "read", "collect"})
    ~> (pc = "done" /\ written = 0 /\ code \in {ExitUsage, ExitRuntime})

(* The program ends, with an exit code.                                     *)
Terminates == <>(code # Running)
=============================================================================
