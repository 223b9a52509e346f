------------------------------ MODULE SshdRules ------------------------------
(***************************************************************************)
(* The nine rules on the sshd configuration (src/internal/rules/ssh.go) on  *)
(* the section that SshdLoad publishes.  An argument list is reduced to     *)
(* what the rules look at: its first argument in lower case, as a number,   *)
(* and as a list of algorithms.  Evidence and wording are left out.         *)
(***************************************************************************)
EXTENDS SshdLoad

CONSTANTS
  Word,          \* values in lower case
  Lower,         \* of each argument list: the first argument, in lower case
  NotANumber,    \* what strconv.Atoi fails with
  Atoi,          \* of each argument list: the first argument as a number
  WeakCiphers, WeakMACs, WeakKex,   \* the lists of weakAlgorithms
  Algorithms     \* of each argument list: the first argument as a list

weakAlgorithms ==
  [ciphers |-> WeakCiphers, macs |-> WeakMACs, kexalgorithms |-> WeakKex]

Algorithm == WeakCiphers \cup WeakMACs \cup WeakKex

(* An item of an algorithm list is a pattern: the weak algorithms it         *)
(* matches, and whether a "!" precedes it.  The sign is that of the list.   *)
Item == [negated : BOOLEAN, matches : SUBSET Algorithm]
List == [sign : {"", "+", "^", "-"}, items : SUBSET Item]

ASSUME ArgumentsAssumption ==
  /\ {"yes", "no", "prohibit-password"} \subseteq Word
  /\ Lower \in [Arg -> Word]
  /\ NotANumber \notin Int
  /\ Atoi \in [Arg -> Int \cup {NotANumber}]
  /\ Algorithms \in [Arg -> List]

sshRules == {"SSH-001", "SSH-002", "SSH-003", "SSH-004", "SSH-005", "SSH-006",
             "SSH-007", "SSH-008", "SSH-009"}
-----------------------------------------------------------------------------
(* The positions of the directives of a keyword that carry one of the labels. *)
At(c, keyword, labels) ==
  {i \in 1..Len(c.directives) : /\ c.directives[i].keyword = keyword
                                /\ c.directives[i].match \in labels}

ArgsAt(c, i) == c.directives[i].args

(* SSHDConfig.Global: the first value outside Match blocks.                 *)
HasGlobal(c, keyword) == At(c, keyword, {Global}) # {}

(* Mutant: a later value replaces an earlier one.                           *)
GlobalArgsLast(c, keyword) ==
  ArgsAt(c, CHOOSE i \in At(c, keyword, {Global}) :
              \A j \in At(c, keyword, {Global}) : j <= i)

GlobalArgs(c, keyword) ==
  ArgsAt(c, CHOOSE i \in At(c, keyword, {Global}) :
              \A j \in At(c, keyword, {Global}) : i <= j)

(* SSHDConfig.Conditional: what the directives inside Match blocks say.     *)
Conditional(c, keyword) ==
  {ArgsAt(c, i) : i \in At(c, keyword, Label \ {Global})}

globalSetting(c, keyword, default) ==
  IF HasGlobal(c, keyword) THEN Lower[GlobalArgs(c, keyword)] ELSE default

(* Mutant: a Match block is looked at only when the keyword is not set       *)
(* outside.                                                                 *)
badConditionalUnset(c, keyword, Bad) ==
  ~HasGlobal(c, keyword) /\ \E a \in Conditional(c, keyword) : Lower[a] \in Bad
badConditional(c, keyword, Bad) ==
  \E a \in Conditional(c, keyword) : Lower[a] \in Bad

sshValueCheck(c, keyword, default, Bad) ==
  IF globalSetting(c, keyword, default) \in Bad \/ badConditional(c, keyword, Bad)
  THEN "FAIL" ELSE "PASS"

(* The arguments of sshValueCheck in the table of the rules.                *)
Keyed(r) ==
  CASE r \in {"SSH-001", "SSH-002"} -> "permitrootlogin"
    [] r = "SSH-003" -> "passwordauthentication"
    [] r = "SSH-005" -> "permitemptypasswords"
    [] r = "SSH-006" -> "permituserenvironment"
    [] r = "SSH-008" -> "x11forwarding"

Default(r) ==
  CASE r \in {"SSH-001", "SSH-002"} -> "prohibit-password"
    [] r = "SSH-003" -> "yes"
    [] OTHER -> "no"

isBad(r) == IF r = "SSH-001" THEN {"yes"} ELSE Word \ {"no"}

(* Mutant: PAM is looked at where it is not the rule's business.             *)
checkKbdWithoutPAM(c) ==
  sshValueCheck(c, "kbdinteractiveauthentication", "yes", Word \ {"no"})

checkKbdInteractive(c) ==
  IF globalSetting(c, "usepam", "no") # "yes" THEN "PASS"
  ELSE sshValueCheck(c, "kbdinteractiveauthentication", "yes", Word \ {"no"})

maxAuthTriesLimit == 4

checkMaxAuthTries(c) ==
  LET seen == Conditional(c, "maxauthtries") \cup
                (IF HasGlobal(c, "maxauthtries")
                 THEN {GlobalArgs(c, "maxauthtries")} ELSE {})
  IN  IF \E a \in seen : Atoi[a] = NotANumber THEN "ERROR"
      ELSE IF ~HasGlobal(c, "maxauthtries")
              \/ \E a \in seen : Atoi[a] > maxAuthTriesLimit
      THEN "FAIL" ELSE "PASS"

weakInList(list, weak) ==
  IF list.sign = "-" THEN {}
  ELSE weak \cap UNION {i.matches : i \in {i \in list.items : ~i.negated}}

(* The weak algorithms found in the setting of a keyword.                   *)
WeakIn(c, keyword) ==
  IF HasGlobal(c, keyword)
  THEN weakInList(Algorithms[GlobalArgs(c, keyword)], weakAlgorithms[keyword])
  ELSE {}

checkWeakAlgorithms(c) ==
  IF \E keyword \in DOMAIN weakAlgorithms : WeakIn(c, keyword) # {}
  THEN "FAIL" ELSE "PASS"

(* What a rule says of a section: the guard of every check, then the check. *)
check(r, sec) ==
  CASE sec.status \in {"unsupported", "not_found", "permission_denied"} -> "SKIP"
    [] sec.status \in {"failed", "pending"} -> "ERROR"
    [] sec.status = "collected" ->
         CASE r = "SSH-004" -> checkKbdInteractive(sec.data)
           [] r = "SSH-007" -> checkMaxAuthTries(sec.data)
           [] r = "SSH-009" -> checkWeakAlgorithms(sec.data)
           [] OTHER -> sshValueCheck(sec.data, Keyed(r), Default(r), isBad(r))
-----------------------------------------------------------------------------
(* sshd, for a connection that satisfies the criteria in S: a keyword takes  *)
(* the first value in a block that matches, else the first one outside every *)
(* block, else a default.                                                   *)
Candidates(c, keyword, S) ==
  IF At(c, keyword, S) # {} THEN At(c, keyword, S) ELSE At(c, keyword, {Global})

IsSet(c, keyword, S) == Candidates(c, keyword, S) # {}

Effective(c, keyword, S) ==
  LET first == CHOOSE i \in Candidates(c, keyword, S) :
                 \A j \in Candidates(c, keyword, S) : i <= j
  IN  c.directives[first].args

(* A list enables a weak algorithm unless another item of it excludes it.   *)
Excluded(list, a) == \E i \in list.items : i.negated /\ a \in i.matches
Enables(list, weak) ==
  /\ list.sign # "-"
  /\ \E a \in weak : /\ \E i \in list.items : ~i.negated /\ a \in i.matches
                     /\ ~Excluded(list, a)

(* The connection is served in the way rule r forbids.                      *)
Harmful(r, c, S) ==
  CASE r = "SSH-009" ->
         \E k \in DOMAIN weakAlgorithms :
           IsSet(c, k, {}) /\ Enables(Algorithms[Effective(c, k, {})], weakAlgorithms[k])
    [] r = "SSH-007" ->
         LET k == "maxauthtries"
         IN  IsSet(c, k, S) => /\ Atoi[Effective(c, k, S)] # NotANumber
                             /\ Atoi[Effective(c, k, S)] > maxAuthTriesLimit
    [] r = "SSH-004" ->
         LET k == "kbdinteractiveauthentication"
         IN  /\ IsSet(c, "usepam", {}) /\ Lower[Effective(c, "usepam", {})] = "yes"
             /\ IsSet(c, k, S) => Lower[Effective(c, k, S)] # "no"
    [] OTHER ->
         IF IsSet(c, Keyed(r), S) THEN Lower[Effective(c, Keyed(r), S)] \in isBad(r)
         ELSE Default(r) \in isBad(r)

Blocks == Label \ {Global}

(* A rule passes only if no connection at all is served in the way it        *)
(* forbids: whichever Match blocks apply together, whatever their order and  *)
(* that of the directives outside them, set or left to a default.           *)
PassIsSafe ==
  \A r \in sshRules :
    check(r, section) = "PASS" =>
      \A S \in SUBSET Blocks : ~Harmful(r, section.data, S)

(* Directive i never has an effect: a block with the same criteria sets its  *)
(* keyword before it.                                                       *)
Shadowed(c, i) ==
  \E j \in 1 .. i - 1 : /\ c.directives[j].keyword = c.directives[i].keyword
                        /\ c.directives[j].match = c.directives[i].match

(* The directives inside Match blocks that rule r holds against c.          *)
Inside(c, keyword) == At(c, keyword, Blocks)
Against(r, c) ==
  CASE r = "SSH-009" -> {}
    [] r = "SSH-007" ->
         {i \in Inside(c, "maxauthtries") :
            /\ Atoi[ArgsAt(c, i)] # NotANumber
            /\ Atoi[ArgsAt(c, i)] > maxAuthTriesLimit}
    [] r = "SSH-004" ->
         {i \in Inside(c, "kbdinteractiveauthentication") : Lower[ArgsAt(c, i)] # "no"}
    [] OTHER -> {i \in Inside(c, Keyed(r)) : Lower[ArgsAt(c, i)] \in isBad(r)}

(* Some weak algorithm is found, and each is excluded by another item of the *)
(* list it is found in.                                                     *)
OnlyExcluded(c) ==
  /\ \E k \in DOMAIN weakAlgorithms : WeakIn(c, k) # {}
  /\ \A k \in DOMAIN weakAlgorithms : \A a \in WeakIn(c, k) :
       Excluded(Algorithms[GlobalArgs(c, k)], a)

(* A rule fails only if it can name the connections it fails for: those of   *)
(* one block, or of none, are served in the way it forbids.  Two failures    *)
(* are false alarms: all that the rule holds against the configuration are   *)
(* directives inside blocks and none of them ever has an effect, or, for the *)
(* rule on algorithms, each weak one found is excluded by an item with "!", *)
(* which weakInList passes over.                                            *)
FailIsFounded ==
  \A r \in sshRules :
    check(r, section) = "FAIL" =>
      \/ \E S \in {{}} \cup {{m} : m \in Blocks} : Harmful(r, section.data, S)
      \/ /\ Against(r, section.data) # {}
         /\ \A i \in Against(r, section.data) : Shadowed(section.data, i)
      \/ r = "SSH-009" /\ OnlyExcluded(section.data)
=============================================================================
