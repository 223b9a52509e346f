--------------------------- MODULE SshdRules_proofs ---------------------------
(***************************************************************************)
(* What PASS and FAIL of the rules on sshd mean, for every configuration     *)
(* that can be collected: any list of directives under any Match blocks, and *)
(* any set of blocks that apply together.                                  *)
(***************************************************************************)
EXTENDS SshdRules, SshdLoad_proofs

(* The least of a set of positions is the one that CHOOSE finds.             *)
LEMMA LeastChosen ==
  ASSUME NEW T \in SUBSET Nat, T # {}
  PROVE  LET first == CHOOSE i \in T : \A j \in T : i <= j
         IN  first \in T /\ \A j \in T : first <= j
BY LeastExists
-----------------------------------------------------------------------------
(* What a configuration says, and what sshd makes of it.                    *)
LEMMA PositionsTyped ==
  ASSUME NEW c \in Config, NEW k, NEW L
  PROVE  /\ Len(c.directives) \in Nat
         /\ At(c, k, L) \subseteq 1..Len(c.directives)
         /\ At(c, k, L) \in SUBSET (Nat \ {0})
         /\ \A i \in At(c, k, L) :
              /\ c.directives[i] \in Directive
              /\ ArgsAt(c, i) \in Arg
              /\ c.directives[i].keyword = k /\ c.directives[i].match \in L
<1>1. c.directives \in Seq(Directive)
  BY DEF Config
<1>2. \A i \in 1..Len(c.directives) : c.directives[i] \in Directive
  BY <1>1, ElementOfSeq
<1>3. Len(c.directives) \in Nat
  BY <1>1, LenProperties
<1> QED
  BY <1>2, <1>3 DEF At, ArgsAt, Directive

LEMMA GlobalIsSaid ==
  ASSUME NEW c \in Config, NEW k, HasGlobal(c, k)
  PROVE  \E i \in At(c, k, {Global}) : GlobalArgs(c, k) = ArgsAt(c, i)
<1>1. At(c, k, {Global}) \in SUBSET Nat /\ At(c, k, {Global}) # {}
  BY PositionsTyped DEF HasGlobal
<1> QED
  BY <1>1, LeastChosen DEF GlobalArgs

(* Outside every block, sshd takes the setting that Global returns.         *)
LEMMA EffectiveOutside ==
  ASSUME NEW c, NEW k
  PROVE  /\ IsSet(c, k, {}) <=> HasGlobal(c, k)
         /\ Effective(c, k, {}) = GlobalArgs(c, k)
<1>1. At(c, k, {}) = {}
  BY DEF At
<1>2. Candidates(c, k, {}) = At(c, k, {Global})
  BY <1>1 DEF Candidates
<1> QED
  BY <1>2 DEF IsSet, HasGlobal, Effective, GlobalArgs, ArgsAt

(* Whichever blocks apply, sshd takes a value that one of them says, or, if  *)
(* none says any, the setting that Global returns.                          *)
LEMMA EffectiveInside ==
  ASSUME NEW c \in Config, NEW k, NEW S \in SUBSET Blocks
  PROVE  /\ IsSet(c, k, S) =>
              \/ Effective(c, k, S) \in Conditional(c, k)
              \/ HasGlobal(c, k) /\ Effective(c, k, S) = GlobalArgs(c, k)
         /\ HasGlobal(c, k) => IsSet(c, k, S)
<1>1. CASE At(c, k, S) = {}
  <2>1. Candidates(c, k, S) = At(c, k, {Global})
    BY <1>1 DEF Candidates
  <2> QED
    BY <2>1 DEF IsSet, HasGlobal, Effective, GlobalArgs, ArgsAt
<1>2. CASE At(c, k, S) # {}
  <2>1. Candidates(c, k, S) = At(c, k, S)
    BY <1>2 DEF Candidates
  <2>2. \E i \in At(c, k, S) : Effective(c, k, S) = ArgsAt(c, i)
    BY <1>2, <2>1, PositionsTyped, LeastChosen DEF Effective, ArgsAt
  <2>3. At(c, k, S) \subseteq At(c, k, Label \ {Global})
    BY DEF At, Blocks
  <2> QED
    BY <1>2, <2>1, <2>2, <2>3 DEF IsSet, Conditional
<1> QED
  BY <1>1, <1>2

LEMMA EffectiveTyped ==
  ASSUME NEW c \in Config, NEW k, NEW S \in SUBSET Blocks, IsSet(c, k, S)
  PROVE  Effective(c, k, S) \in Arg
<1>1. CASE Effective(c, k, S) \in Conditional(c, k)
  BY <1>1, PositionsTyped DEF Conditional
<1>2. CASE HasGlobal(c, k) /\ Effective(c, k, S) = GlobalArgs(c, k)
  BY <1>2, GlobalIsSaid, PositionsTyped
<1> QED
  BY <1>1, <1>2, EffectiveInside

(* A value said inside a block is what sshd takes where that block alone     *)
(* applies, unless the same block says another one before it.               *)
LEMMA SaidIsEffective ==
  ASSUME NEW c \in Config, NEW k, NEW i \in Inside(c, k), ~Shadowed(c, i)
  PROVE  \E m \in Blocks : IsSet(c, k, {m}) /\ Effective(c, k, {m}) = ArgsAt(c, i)
<1> DEFINE m == c.directives[i].match
           T == At(c, k, {m})
           first == CHOOSE j \in T : \A l \in T : j <= l
<1>2. /\ i \in 1..Len(c.directives) /\ m \in Blocks /\ i \in T
      /\ c.directives[i].keyword = k
  BY PositionsTyped DEF At, Blocks, Inside
<1>3. T \in SUBSET Nat
  BY PositionsTyped
<1>4. first \in T /\ first <= i
  BY <1>2, <1>3, LeastChosen
<1>5. IsSet(c, k, {m}) /\ Effective(c, k, {m}) = ArgsAt(c, first)
  BY <1>2 DEF IsSet, Candidates, Effective, ArgsAt
<1>6. CASE first = i
  BY <1>2, <1>5, <1>6
<1>7. CASE first # i
  <2>1. /\ first \in 1 .. i - 1
        /\ c.directives[first].keyword = k /\ c.directives[first].match = m
    <3> HIDE DEF first
    <3>1. /\ first \in Nat \ {0} /\ i \in Nat \ {0}
          /\ first \in 1..Len(c.directives)
      BY <1>2, <1>4, PositionsTyped
    <3>2. first < i
      BY <1>4, <1>7, <3>1
    <3> QED
      BY <1>4, <3>1, <3>2 DEF At
  <2> QED
    BY <2>1, <1>2 DEF Shadowed
<1> QED
  BY <1>6, <1>7

(* What Conditional returns is said by a directive inside a block.           *)
LEMMA ConditionalIsInside ==
  ASSUME NEW c, NEW k, NEW a \in Conditional(c, k)
  PROVE  \E i \in Inside(c, k) : a = ArgsAt(c, i)
  BY DEF Conditional, Inside, Blocks
-----------------------------------------------------------------------------
(* What each rule asks of a collected configuration.                        *)
LEMMA Answered ==
  ASSUME NEW r, NEW sec, sec \in [status : {"pending", "collected", "not_found",
                            "permission_denied", "failed"}, data : Config],
         check(r, sec) \in {"PASS", "FAIL"}
  PROVE  /\ sec.status = "collected" /\ sec.data \in Config
         /\ check(r, sec) =
              CASE r = "SSH-004" -> checkKbdInteractive(sec.data)
                [] r = "SSH-007" -> checkMaxAuthTries(sec.data)
                [] r = "SSH-009" -> checkWeakAlgorithms(sec.data)
                [] OTHER -> sshValueCheck(sec.data, Keyed(r), Default(r), isBad(r))
<1>1. CASE sec.status \in {"unsupported", "not_found", "permission_denied"}
  BY <1>1 DEF check
<1>2. CASE sec.status \in {"failed", "pending"}
  BY <1>2 DEF check
<1>3. CASE sec.status = "collected"
  BY <1>3 DEF check
<1> QED
  BY <1>1, <1>2, <1>3

LEMMA ValueCheckPasses ==
  ASSUME NEW c \in Config, NEW k, NEW default, NEW Bad, NEW S \in SUBSET Blocks,
         sshValueCheck(c, k, default, Bad) = "PASS"
  PROVE  IF IsSet(c, k, S) THEN Lower[Effective(c, k, S)] \notin Bad
                           ELSE default \notin Bad
<1>1. globalSetting(c, k, default) \notin Bad /\ ~badConditional(c, k, Bad)
  BY DEF sshValueCheck
<1>2. CASE IsSet(c, k, S)
  <2>1. CASE Effective(c, k, S) \in Conditional(c, k)
    BY <1>1, <1>2, <2>1 DEF badConditional
  <2>2. CASE HasGlobal(c, k) /\ Effective(c, k, S) = GlobalArgs(c, k)
    BY <1>1, <1>2, <2>2 DEF globalSetting
  <2> QED
    BY <1>2, <2>1, <2>2, EffectiveInside
<1>3. CASE ~IsSet(c, k, S)
  BY <1>1, <1>3, EffectiveInside DEF globalSetting
<1> QED
  BY <1>2, <1>3

LEMMA ValueCheckFails ==
  ASSUME NEW c \in Config, NEW k, NEW default, NEW Bad,
         sshValueCheck(c, k, default, Bad) = "FAIL"
  PROVE  \/ \E S \in {{}} \cup {{m} : m \in Blocks} :
              IF IsSet(c, k, S) THEN Lower[Effective(c, k, S)] \in Bad
                                ELSE default \in Bad
         \/ LET against == {i \in Inside(c, k) : Lower[ArgsAt(c, i)] \in Bad}
            IN  against # {} /\ \A i \in against : Shadowed(c, i)
<1> DEFINE against == {i \in Inside(c, k) : Lower[ArgsAt(c, i)] \in Bad}
<1>1. CASE globalSetting(c, k, default) \in Bad
  BY <1>1, EffectiveOutside DEF globalSetting
<1>2. CASE badConditional(c, k, Bad)
  <2>1. against # {}
    <3>1. PICK a \in Conditional(c, k) : Lower[a] \in Bad
      BY <1>2 DEF badConditional
    <3> QED
      BY <3>1, ConditionalIsInside
  <2>2. ASSUME NEW i \in against, ~Shadowed(c, i)
        PROVE  \E m \in Blocks : /\ IsSet(c, k, {m})
                                 /\ Lower[Effective(c, k, {m})] \in Bad
    BY <2>2, SaidIsEffective
  <2> QED
    BY <2>1, <2>2
<1> QED
  BY <1>1, <1>2 DEF sshValueCheck

LEMMA ListsAgree ==
  ASSUME NEW list, NEW weak, weakInList(list, weak) = {}
  PROVE  ~Enables(list, weak)
<1>1. CASE list.sign = "-"
  BY <1>1 DEF Enables
<1>2. CASE list.sign # "-"
  <2>1. \A i \in list.items : ~i.negated => weak \cap i.matches = {}
    BY <1>2 DEF weakInList
  <2> QED
    BY <2>1 DEF Enables
<1> QED
  BY <1>1, <1>2

(* A list in which a weak algorithm is found enables it, or another item     *)
(* excludes it.                                                             *)
LEMMA FoundIsEnabled ==
  ASSUME NEW list, NEW weak, NEW a \in weakInList(list, weak), ~Excluded(list, a)
  PROVE  Enables(list, weak)
<1>1. list.sign # "-"
  BY DEF weakInList
<1>2. PICK i \in list.items : ~i.negated /\ a \in i.matches
  BY <1>1 DEF weakInList
<1>3. a \in weak
  BY <1>1 DEF weakInList
<1> QED
  BY <1>1, <1>2, <1>3 DEF Enables

LEMMA KbdPasses ==
  ASSUME NEW c \in Config, NEW S \in SUBSET Blocks, checkKbdInteractive(c) = "PASS"
  PROVE  ~Harmful("SSH-004", c, S)
<1> DEFINE k == "kbdinteractiveauthentication"
<1>1. CASE globalSetting(c, "usepam", "no") # "yes"
  BY <1>1, EffectiveOutside DEF globalSetting, Harmful
<1>2. CASE globalSetting(c, "usepam", "no") = "yes"
  <2>1. sshValueCheck(c, k, "yes", Word \ {"no"}) = "PASS"
    BY <1>2 DEF checkKbdInteractive
  <2>2. "yes" \in Word \ {"no"}
    BY ArgumentsAssumption
  <2>3. IsSet(c, k, S) /\ Lower[Effective(c, k, S)] \notin Word \ {"no"}
    BY <2>1, <2>2, ValueCheckPasses
  <2>4. Effective(c, k, S) \in Arg
    BY <2>3, EffectiveTyped
  <2>5. Lower[Effective(c, k, S)] = "no"
    BY <2>3, <2>4, ArgumentsAssumption
  <2> QED
    BY <2>3, <2>5 DEF Harmful
<1> QED
  BY <1>1, <1>2

LEMMA TriesPass ==
  ASSUME NEW c \in Config, NEW S \in SUBSET Blocks, checkMaxAuthTries(c) = "PASS"
  PROVE  ~Harmful("SSH-007", c, S)
<1> DEFINE k == "maxauthtries"
<1>1. /\ HasGlobal(c, k)
      /\ \A a \in Conditional(c, k) \cup {GlobalArgs(c, k)} :
            Atoi[a] # NotANumber /\ ~(Atoi[a] > maxAuthTriesLimit)
  BY DEF checkMaxAuthTries
<1>2. IsSet(c, k, S) /\ Effective(c, k, S) \in Conditional(c, k) \cup {GlobalArgs(c, k)}
  BY <1>1, EffectiveInside
<1> QED
  BY <1>1, <1>2 DEF Harmful

LEMMA AlgorithmsPass ==
  ASSUME NEW c, NEW S, checkWeakAlgorithms(c) = "PASS"
  PROVE  ~Harmful("SSH-009", c, S)
<1>1. ASSUME NEW k \in DOMAIN weakAlgorithms, IsSet(c, k, {})
      PROVE  ~Enables(Algorithms[Effective(c, k, {})], weakAlgorithms[k])
  <2>1. WeakIn(c, k) = {}
    BY DEF checkWeakAlgorithms
  <2>2. HasGlobal(c, k) /\ Effective(c, k, {}) = GlobalArgs(c, k)
    BY <1>1, EffectiveOutside
  <2>3. weakInList(Algorithms[GlobalArgs(c, k)], weakAlgorithms[k]) = {}
    BY <2>1, <2>2 DEF WeakIn
  <2> QED
    BY <2>2, <2>3, ListsAgree
<1> QED
  BY <1>1 DEF Harmful

LEMMA PassImpliesSafe == TypeOK => PassIsSafe
<1> SUFFICES ASSUME TypeOK, NEW r \in sshRules, check(r, section) = "PASS",
                    NEW S \in SUBSET Blocks
             PROVE  ~Harmful(r, section.data, S)
  BY DEF PassIsSafe
<1> DEFINE c == section.data
<1>1. /\ section.status = "collected" /\ c \in Config
      /\ check(r, section) =
           CASE r = "SSH-004" -> checkKbdInteractive(c)
             [] r = "SSH-007" -> checkMaxAuthTries(c)
             [] r = "SSH-009" -> checkWeakAlgorithms(c)
             [] OTHER -> sshValueCheck(c, Keyed(r), Default(r), isBad(r))
  BY Answered DEF TypeOK
<1> HIDE DEF c
<1>2. CASE r = "SSH-004"
  BY <1>1, <1>2, KbdPasses DEF c
<1>3. CASE r = "SSH-007"
  BY <1>1, <1>3, TriesPass DEF c
<1>4. CASE r = "SSH-009"
  BY <1>1, <1>4, AlgorithmsPass DEF c
<1>5. CASE r \notin {"SSH-004", "SSH-007", "SSH-009"}
  <2>1. sshValueCheck(c, Keyed(r), Default(r), isBad(r)) = "PASS"
    BY <1>1, <1>5
  <2>2. IF IsSet(c, Keyed(r), S) THEN Lower[Effective(c, Keyed(r), S)] \notin isBad(r)
                                 ELSE Default(r) \notin isBad(r)
    BY <1>1, <2>1, ValueCheckPasses
  <2> QED
    BY <1>5, <2>2 DEF Harmful, c
<1> QED
  BY <1>2, <1>3, <1>4, <1>5

(* What rule r may answer FAIL for.                                         *)
Founded(r, c) ==
  \/ \E S \in {{}} \cup {{m} : m \in Blocks} : Harmful(r, c, S)
  \/ Against(r, c) # {} /\ \A i \in Against(r, c) : Shadowed(c, i)
  \/ r = "SSH-009" /\ OnlyExcluded(c)

LEMMA KbdFails ==
  ASSUME NEW c \in Config, checkKbdInteractive(c) = "FAIL"
  PROVE  Founded("SSH-004", c)
<1> DEFINE k == "kbdinteractiveauthentication"
           Bad == Word \ {"no"}
           against == {i \in Inside(c, k) : Lower[ArgsAt(c, i)] \in Bad}
<1>1. /\ globalSetting(c, "usepam", "no") = "yes"
      /\ sshValueCheck(c, k, "yes", Bad) = "FAIL"
  BY DEF checkKbdInteractive
<1>2. IsSet(c, "usepam", {}) /\ Lower[Effective(c, "usepam", {})] = "yes"
  BY <1>1, EffectiveOutside DEF globalSetting
<1>3. ASSUME NEW S, IF IsSet(c, k, S) THEN Lower[Effective(c, k, S)] \in Bad
                                      ELSE "yes" \in Bad
      PROVE  Harmful("SSH-004", c, S)
  BY <1>2, <1>3 DEF Harmful
<1>4. against = Against("SSH-004", c)
  <2>1. \A i \in Inside(c, k) : Lower[ArgsAt(c, i)] \in Word
    BY PositionsTyped, ArgumentsAssumption DEF Inside
  <2> QED
    BY <2>1 DEF Against
<1>5. \/ \E S \in {{}} \cup {{m} : m \in Blocks} :
           IF IsSet(c, k, S) THEN Lower[Effective(c, k, S)] \in Bad
                             ELSE "yes" \in Bad
      \/ against # {} /\ \A i \in against : Shadowed(c, i)
  BY <1>1, ValueCheckFails
<1> QED
  BY <1>3, <1>4, <1>5 DEF Founded

LEMMA TriesFail ==
  ASSUME NEW c \in Config, checkMaxAuthTries(c) = "FAIL"
  PROVE  Founded("SSH-007", c)
<1> DEFINE k == "maxauthtries"
           bad(a) == Atoi[a] # NotANumber /\ Atoi[a] > maxAuthTriesLimit
<1>1. \/ ~HasGlobal(c, k)
      \/ HasGlobal(c, k) /\ bad(GlobalArgs(c, k))
      \/ \E a \in Conditional(c, k) : bad(a)
  BY DEF checkMaxAuthTries
<1>2. CASE ~HasGlobal(c, k) \/ bad(GlobalArgs(c, k))
  <2>1. Harmful("SSH-007", c, {})
    BY <1>2, EffectiveOutside DEF Harmful
  <2> QED
    BY <2>1 DEF Founded
<1>3. CASE \E a \in Conditional(c, k) : bad(a)
  <2>1. Against("SSH-007", c) = {i \in Inside(c, k) : bad(ArgsAt(c, i))}
    BY DEF Against
  <2>2. Against("SSH-007", c) # {}
    BY <1>3, <2>1, ConditionalIsInside
  <2>3. ASSUME NEW i \in Against("SSH-007", c), ~Shadowed(c, i)
        PROVE  \E m \in Blocks : Harmful("SSH-007", c, {m})
    <3>1. i \in Inside(c, k) /\ bad(ArgsAt(c, i))
      BY <2>1
    <3>2. PICK m \in Blocks :
            IsSet(c, k, {m}) /\ Effective(c, k, {m}) = ArgsAt(c, i)
      BY <2>3, <3>1, SaidIsEffective
    <3> QED
      BY <3>1, <3>2 DEF Harmful
  <2> QED
    BY <2>2, <2>3 DEF Founded
<1> QED
  BY <1>1, <1>2, <1>3

LEMMA AlgorithmsFail ==
  ASSUME NEW c \in Config, checkWeakAlgorithms(c) = "FAIL"
  PROVE  Founded("SSH-009", c)
<1>1. \E k \in DOMAIN weakAlgorithms : WeakIn(c, k) # {}
  BY DEF checkWeakAlgorithms
<1>2. ASSUME NEW k \in DOMAIN weakAlgorithms, NEW a \in WeakIn(c, k),
             ~Excluded(Algorithms[GlobalArgs(c, k)], a)
      PROVE  Harmful("SSH-009", c, {})
  <2>1. /\ HasGlobal(c, k)
        /\ a \in weakInList(Algorithms[GlobalArgs(c, k)], weakAlgorithms[k])
    BY DEF WeakIn
  <2>2. Enables(Algorithms[GlobalArgs(c, k)], weakAlgorithms[k])
    BY <1>2, <2>1, FoundIsEnabled
  <2>3. IsSet(c, k, {}) /\ Effective(c, k, {}) = GlobalArgs(c, k)
    BY <2>1, EffectiveOutside
  <2> QED
    BY <2>2, <2>3 DEF Harmful
<1> QED
  BY <1>1, <1>2 DEF Founded, OnlyExcluded

LEMMA FailImpliesFounded == TypeOK => FailIsFounded
<1> SUFFICES ASSUME TypeOK, NEW r \in sshRules, check(r, section) = "FAIL"
             PROVE  Founded(r, section.data)
  BY DEF FailIsFounded, Founded
<1> DEFINE c == section.data
<1>1. /\ c \in Config
      /\ check(r, section) =
           CASE r = "SSH-004" -> checkKbdInteractive(c)
             [] r = "SSH-007" -> checkMaxAuthTries(c)
             [] r = "SSH-009" -> checkWeakAlgorithms(c)
             [] OTHER -> sshValueCheck(c, Keyed(r), Default(r), isBad(r))
  BY Answered DEF TypeOK
<1> HIDE DEF c
<1>2. CASE r = "SSH-004"
  BY <1>1, <1>2, KbdFails DEF c
<1>3. CASE r = "SSH-007"
  BY <1>1, <1>3, TriesFail DEF c
<1>4. CASE r = "SSH-009"
  BY <1>1, <1>4, AlgorithmsFail DEF c
<1>5. CASE r \notin {"SSH-004", "SSH-007", "SSH-009"}
  <2> DEFINE k == Keyed(r)
             against == {i \in Inside(c, k) : Lower[ArgsAt(c, i)] \in isBad(r)}
  <2>1. sshValueCheck(c, k, Default(r), isBad(r)) = "FAIL"
    BY <1>1, <1>5
  <2>2. ASSUME NEW S,
               IF IsSet(c, k, S) THEN Lower[Effective(c, k, S)] \in isBad(r)
                                 ELSE Default(r) \in isBad(r)
        PROVE  Harmful(r, c, S)
    BY <1>5, <2>2 DEF Harmful
  <2>3. against = Against(r, c)
    BY <1>5 DEF Against
  <2>4. \/ \E S \in {{}} \cup {{m} : m \in Blocks} :
              IF IsSet(c, k, S) THEN Lower[Effective(c, k, S)] \in isBad(r)
                                ELSE Default(r) \in isBad(r)
        \/ against # {} /\ \A i \in against : Shadowed(c, i)
    BY <1>1, <2>1, ValueCheckFails
  <2> QED
    BY <2>2, <2>3, <2>4 DEF c, Founded
<1> QED
  BY <1>2, <1>3, <1>4, <1>5

(* A rule on sshd passes only if sshd serves no connection at all in the way *)
(* the rule forbids, for any list of directives in any order, under any      *)
(* Match blocks and whichever of them apply together (rules/ssh.go).         *)
THEOREM PassesAreSafe == Spec => []PassIsSafe
BY TypeCorrect, PassImpliesSafe, PTL

(* Each of the nine rules on sshd fails only where the connections of one    *)
(* block, or of none, are served in the way it forbids, or where everything  *)
(* it holds against the configuration is shadowed by earlier directives of   *)
(* the same blocks, or excluded by other items of the same lists.           *)
THEOREM FailuresAreFounded == Spec => []FailIsFounded
BY TypeCorrect, FailImpliesFounded, PTL
=============================================================================
