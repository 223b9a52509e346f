-------------------------- MODULE LinuxFacts_proofs --------------------------
(***************************************************************************)
(* What the rules on accounts and files report, for every host, however it   *)
(* is changed while its files are read, and however often.                  *)
(***************************************************************************)
EXTENDS LinuxFacts, WellFoundedInduction, TLAPS

(* A nonempty set of line numbers has a last one.                           *)
LEMMA LastExists ==
  ASSUME NEW n \in Nat, NEW S \in SUBSET (1..n), S # {}
  PROVE  \E i \in S : \A j \in S : j <= i
<1> DEFINE T == {n - i : i \in S}
           Less == {p \in Nat \X Nat : p[1] < p[2]}
<1>1. IsWellFoundedOn(Less, Nat)
  BY NatLessThanWellFounded DEF OpToRel
<1>2. T \in SUBSET Nat /\ T # {}
  <2>1. \A i \in S : n - i \in Nat
    OBVIOUS
  <2> QED
    BY <2>1
<1>3. PICK x \in T : \A y \in T : <<y, x>> \notin Less
  BY <1>1, <1>2, WFMin
<1>4. \A y \in T : ~(y < x)
  BY <1>2, <1>3
<1>5. PICK i \in S : x = n - i
  BY <1>3
<1>6. ASSUME NEW j \in S PROVE j <= i
  <2>1. ~(n - j < n - i)
    BY <1>4, <1>5
  <2> QED
    BY <2>1
<1> QED
  BY <1>6
-----------------------------------------------------------------------------
(* The lines of the databases, and what is made of them.                    *)
LEMMA HostTyped ==
  ASSUME NEW h \in Host
  PROVE  /\ Lines(h.passwd) \in Seq(PasswdLine)
         /\ Lines(h.shadow) \in Seq(ShadowLine)
         /\ Lines(h.defs) \in Seq(DefsLine)
         /\ h.tree \in [Paths -> Metadata]
BY DEF Host, File, Lines

LEMMA UsersTyped ==
  ASSUME NEW h \in Host, NEW i \in Users(h)
  PROVE  LET l == Lines(h.passwd)[i]
         IN  /\ i \in 1..Len(Lines(h.passwd))
             /\ WellFormed(l) /\ l.name \in Name /\ l.uid \in Id
             /\ l.password \in Field /\ l.shell \in Shell
<1>1. Lines(h.passwd) \in Seq(PasswdLine)
  BY HostTyped
<1>2. i \in 1..Len(Lines(h.passwd)) /\ Lines(h.passwd)[i] \in PasswdLine
  BY <1>1 DEF Users, Named
<1> QED
  BY <1>2 DEF PasswdLine, Users, Named, WellFormed

(* What Collect keeps of a line.                                            *)
UserAt(h, i) ==
  LET l == Lines(h.passwd)[i]
  IN  [name |-> l.name, uid |-> l.uid, shell |-> l.shell,
       passwordField |-> ClassifyPassword(l.password), line |-> i]

(* A readable passwd is parsed into its accounts, and the other lines that   *)
(* are not blank are skipped.                                               *)
LEMMA Parsed ==
  ASSUME NEW h \in Host, h.passwd.error = "none"
  PROVE  LET p == ParsePasswd(h.passwd.lines)
         IN  /\ p.users = {UserAt(h, i) : i \in Users(h)}
             /\ p.skipped = {i \in DOMAIN Lines(h.passwd) :
                               Lines(h.passwd)[i].form # "blank" /\ i \notin Users(h)}
<1> DEFINE lines == h.passwd.lines
<1>1. Lines(h.passwd) = lines /\ lines \in Seq(PasswdLine)
  BY HostTyped DEF Lines
<1>2. DOMAIN lines = 1..Len(lines)
  BY <1>1
<1>3. Users(h) = {i \in 1..Len(lines) : WellFormed(lines[i])}
  BY <1>1, <1>2 DEF Users, Named, WellFormed
<1> HIDE DEF lines
<1>4. ParsePasswd(lines).users = {UserAt(h, i) : i \in Users(h)}
  BY <1>1, <1>3 DEF ParsePasswd, UserAt
<1>5. ParsePasswd(lines).skipped =
        {i \in DOMAIN Lines(h.passwd) : Lines(h.passwd)[i].form # "blank" /\ i \notin Users(h)}
  BY <1>1, <1>2, <1>3 DEF ParsePasswd
<1> QED
  BY <1>4, <1>5 DEF lines

Classes == {"shadowed", "empty", "locked", "hash"}
Account == [name : Name, uid : Id, shell : Shell, passwordField : Classes, line : Nat]
ShadowEntry == [name : Name, line : Nat, password : Classes]

LEMMA ParsedTyped ==
  ASSUME NEW h \in Host, h.passwd.error = "none"
  PROVE  LET p == ParsePasswd(h.passwd.lines)
         IN  /\ p.users \in SUBSET Account /\ p.skipped \in SUBSET Nat
             /\ \A u \in p.users : u.line \notin p.skipped
<1> DEFINE p == ParsePasswd(h.passwd.lines)
<1>1. /\ p.users = {UserAt(h, i) : i \in Users(h)}
      /\ p.skipped = {i \in DOMAIN Lines(h.passwd) :
                        Lines(h.passwd)[i].form # "blank" /\ i \notin Users(h)}
  BY Parsed
<1> HIDE DEF p
<1>2. \A f : ClassifyPassword(f) \in Classes
  BY DEF ClassifyPassword, Classes
<1>3. ASSUME NEW u \in p.users
      PROVE  u \in Account /\ u.line \notin p.skipped
  <2>1. PICK i \in Users(h) : u = UserAt(h, i)
    BY <1>1
  <2>2. u.line = i
    BY <2>1 DEF UserAt
  <2>3. u \in Account
    BY <1>2, <2>1, UsersTyped DEF UserAt, Account
  <2> QED
    BY <1>1, <2>2, <2>3
<1>4. DOMAIN Lines(h.passwd) \subseteq Nat
  BY HostTyped
<1> QED
  BY <1>1, <1>3, <1>4 DEF p

LEMMA ShadowTyped ==
  ASSUME NEW h \in Host, h.shadow.error = "none"
  PROVE  LET p == ParseShadow(h.shadow.lines)
         IN  p.entries \in SUBSET ShadowEntry /\ p.skipped \in SUBSET Nat
<1> DEFINE lines == h.shadow.lines
<1>1. lines \in Seq(ShadowLine)
  BY HostTyped DEF Lines
<1>2. \A i \in 1..Len(lines) : Entry(lines[i]) => lines[i].name \in Name
  <2>1. \A i \in 1..Len(lines) : lines[i] \in ShadowLine
    BY <1>1
  <2> QED
    BY <2>1 DEF ShadowLine, Entry
<1>3. \A f : ClassifyPassword(f) \in Classes
  BY DEF ClassifyPassword, Classes
<1> HIDE DEF lines
<1>4. ParseShadow(lines).entries =
        {[name |-> lines[i].name, line |-> i, password |-> ClassifyPassword(lines[i].password)] :
           i \in {i \in 1..Len(lines) : Entry(lines[i])}}
  BY DEF ParseShadow
<1>5. ParseShadow(lines).entries \in SUBSET ShadowEntry
  BY <1>2, <1>3, <1>4 DEF ShadowEntry
<1>6. ParseShadow(lines).skipped \in SUBSET Nat
  BY DEF ParseShadow
<1> QED
  BY <1>5, <1>6 DEF lines

(* A readable login.defs yields the least UID of people, and it is a number. *)
LEMMA UIDMinIsFirstUID ==
  ASSUME NEW h \in Host
  PROVE  LET m == ParseUIDMin(h.defs.lines)
             found == IF h.defs.error = "none" /\ m.of = "value" THEN m.n ELSE DefaultUIDMin
         IN  found = FirstUID(h) /\ found \in Nat
<1> DEFINE lines == h.defs.lines
           S == {i \in 1..Len(lines) : lines[i].form = "UID_MIN"}
           bad == \E i \in S : lines[i].value = NotANumber \/ lines[i].value < 0
           last == CHOOSE i \in S : \A j \in S : j <= i
           m == ParseUIDMin(lines)
<1>1. CASE h.defs.error # "none"
  BY <1>1 DEF FirstUID, DefaultUIDMin
<1>2. CASE h.defs.error = "none"
  <2>1. Lines(h.defs) = lines /\ lines \in Seq(DefsLine)
    BY <1>2, HostTyped DEF Lines
  <2>2. Settings(h) = S
    BY <2>1 DEF Settings
  <2>3. FirstUID(h) = IF S = {} \/ bad THEN 1000 ELSE lines[last].value
    BY <1>2, <2>1, <2>2 DEF FirstUID
  <2>4. m = IF bad THEN [of |-> "error"] ELSE IF S = {} THEN [of |-> "unset"]
            ELSE [of |-> "value", n |-> lines[last].value]
    BY DEF ParseUIDMin
  <2>5. CASE bad
    <3> HIDE DEF last, S, bad, m
    <3> QED
      BY <1>2, <2>3, <2>4, <2>5 DEF m, DefaultUIDMin
  <2>6. CASE ~bad /\ S = {}
    <3> HIDE DEF last, S, bad, m
    <3> QED
      BY <1>2, <2>3, <2>4, <2>6 DEF m, DefaultUIDMin
  <2>7. CASE ~bad /\ S # {}
    <3>1. Len(lines) \in Nat
      BY <2>1
    <3>2. last \in S
      <4> HIDE DEF S
      <4>1. \E i \in S : \A j \in S : j <= i
        BY <2>7, <3>1, LastExists DEF S
      <4> QED
        BY <4>1
    <3>3. lines[last] \in DefsLine /\ lines[last].form = "UID_MIN"
      <4> HIDE DEF last
      <4> QED
        BY <2>1, <3>2
    <3>4. lines[last].value \in Nat
      <4> HIDE DEF last
      <4>1. lines[last].value \in Int \cup {NotANumber}
        BY <3>3 DEF DefsLine
      <4>2. lines[last].value # NotANumber /\ ~(lines[last].value < 0)
        BY <2>7, <3>2
      <4> QED
        BY <4>1, <4>2
    <3> HIDE DEF last, S, bad, m
    <3> QED
      BY <1>2, <2>3, <2>4, <2>7, <3>4 DEF m
  <2> QED
    BY <2>5, <2>6, <2>7
<1> QED
  BY <1>1, <1>2
-----------------------------------------------------------------------------
(* How a weakness of an account shows in the users and the skipped lines of  *)
(* passwd; an empty password in /etc/shadow shows here as an account whose   *)
(* password is kept there.                                                  *)
ShownInPasswd(w, users, skipped) ==
  /\ w[2] = NoName => w[3] \in skipped
  /\ w[2] # NoName =>
       /\ w[1] = "USER-001" => \E u \in users : u.uid = 0 /\ u.name # Root
       /\ w[1] = "USER-002" /\ w[3] = "passwd" => \E u \in users : u.passwordField = "empty"
       /\ w[1] = "USER-002" /\ w[3] = "shadow" => \E u \in users : u.passwordField = "shadowed"
       /\ w[1] = "USER-003" => \E u \in users : u.passwordField = "hash"
       /\ w[1] = "USER-004" => \E u, v \in users : u.line # v.line /\ u.uid = v.uid
       /\ w[1] = "USER-005" =>
            \E u \in users : /\ u.uid = w[3] /\ u.uid # 0
                            /\ u.name \notin Exempt /\ u.shell \notin NonInteractive

(* The weaknesses of the accounts, rule by rule, each with its line.        *)
HasWeakness(h, w, i) ==
  LET l == Lines(h.passwd)[i]
  IN  /\ w[2] = l.name
      /\ w[1] \in accountRules
      /\ w[1] = "USER-001" => l.uid = 0 /\ l.name # Root
      /\ w[1] = "USER-002" =>
           \/ w[3] = "passwd" /\ l.password = ""
           \/ w[3] = "shadow" /\ l.password = "x" /\ l.name \in WithoutPassword(h)
      /\ w[1] = "USER-003" => l.password = "$6$"
      /\ w[1] = "USER-004" => \E j \in Users(h) : j # i /\ Lines(h.passwd)[j].uid = l.uid
      /\ w[1] = "USER-005" =>
           /\ w[3] = l.uid /\ l.uid # 0 /\ l.uid < FirstUID(h)
           /\ l.name \notin Exempt /\ l.shell \notin NonInteractive

LEMMA AccountWeakness ==
  ASSUME NEW h \in Host, NEW w \in WeakAccounts(h)
  PROVE  \E i \in Users(h) : HasWeakness(h, w, i)
<1> DEFINE l(i) == Lines(h.passwd)[i]
<1>1. \/ \E i \in Users(h) : /\ w = <<"USER-001", l(i).name, l(i).uid>>
                             /\ l(i).uid = 0 /\ l(i).name # Root
      \/ \E i \in Users(h) : w = <<"USER-002", l(i).name, "passwd">> /\ l(i).password = ""
      \/ \E i \in Users(h) : /\ w = <<"USER-002", l(i).name, "shadow">>
                             /\ l(i).password = "x" /\ l(i).name \in WithoutPassword(h)
      \/ \E i \in Users(h) : w = <<"USER-003", l(i).name, l(i).uid>> /\ l(i).password = "$6$"
      \/ \E i \in Users(h) : /\ w = <<"USER-004", l(i).name, l(i).uid>>
                             /\ \E j \in Users(h) : j # i /\ l(j).uid = l(i).uid
      \/ \E i \in Users(h) : /\ w = <<"USER-005", l(i).name, l(i).uid>>
                             /\ l(i).uid # 0 /\ l(i).uid < FirstUID(h)
                             /\ l(i).name \notin Exempt /\ l(i).shell \notin NonInteractive
  BY DEF WeakAccounts
<1>2. CASE \E i \in Users(h) : /\ w = <<"USER-001", l(i).name, l(i).uid>>
                               /\ l(i).uid = 0 /\ l(i).name # Root
  BY <1>2 DEF HasWeakness, accountRules
<1>3. CASE \E i \in Users(h) : w = <<"USER-002", l(i).name, "passwd">> /\ l(i).password = ""
  <2>1. PICK i \in Users(h) : w = <<"USER-002", l(i).name, "passwd">> /\ l(i).password = ""
    BY <1>3
  <2>2. w[1] = "USER-002" /\ w[2] = l(i).name /\ w[3] = "passwd"
    BY <2>1
  <2> QED
    BY <2>1, <2>2 DEF HasWeakness, accountRules
<1>4. CASE \E i \in Users(h) : /\ w = <<"USER-002", l(i).name, "shadow">>
                               /\ l(i).password = "x" /\ l(i).name \in WithoutPassword(h)
  BY <1>4 DEF HasWeakness, accountRules
<1>5. CASE \E i \in Users(h) : w = <<"USER-003", l(i).name, l(i).uid>> /\ l(i).password = "$6$"
  BY <1>5 DEF HasWeakness, accountRules
<1>6. CASE \E i \in Users(h) : /\ w = <<"USER-004", l(i).name, l(i).uid>>
                               /\ \E j \in Users(h) : j # i /\ l(j).uid = l(i).uid
  BY <1>6 DEF HasWeakness, accountRules
<1>7. CASE \E i \in Users(h) : /\ w = <<"USER-005", l(i).name, l(i).uid>>
                               /\ l(i).uid # 0 /\ l(i).uid < FirstUID(h)
                               /\ l(i).name \notin Exempt /\ l(i).shell \notin NonInteractive
  BY <1>7 DEF HasWeakness, accountRules
<1> QED
  BY <1>1, <1>2, <1>3, <1>4, <1>5, <1>6, <1>7

LEMMA UserAtFields ==
  ASSUME NEW h \in Host, NEW i \in Users(h)
  PROVE  LET l == Lines(h.passwd)[i]
             u == UserAt(h, i)
         IN  /\ u.name = l.name /\ u.uid = l.uid /\ u.shell = l.shell /\ u.line = i
             /\ u.passwordField = ClassifyPassword(l.password)
BY DEF UserAt

LEMMA Classified ==
  ASSUME NEW f \in Field
  PROVE  /\ ClassifyPassword(f) = "shadowed" <=> f = "x"
         /\ ClassifyPassword(f) = "empty" <=> f = ""
         /\ ClassifyPassword(f) = "hash" <=> f = "$6$"
BY DEF ClassifyPassword, Field

(* Whatever is wrong with an account shows in what passwd is parsed into.   *)
LEMMA AccountShows ==
  ASSUME NEW h \in Host, h.passwd.error = "none", NEW w \in WeakAccounts(h)
  PROVE  LET p == ParsePasswd(h.passwd.lines) IN ShownInPasswd(w, p.users, p.skipped)
<1> DEFINE p == ParsePasswd(h.passwd.lines)
<1>1. p.users = {UserAt(h, i) : i \in Users(h)}
  BY Parsed
<1> HIDE DEF p
<1>2. PICK i \in Users(h) : HasWeakness(h, w, i)
  BY AccountWeakness
<1> DEFINE l == Lines(h.passwd)[i]
           u == UserAt(h, i)
<1>3. /\ l.name \in Name /\ l.password \in Field
      /\ u \in p.users /\ u.name = l.name /\ u.uid = l.uid /\ u.shell = l.shell
      /\ u.line = i /\ u.passwordField = ClassifyPassword(l.password)
  BY <1>1, UsersTyped, UserAtFields
<1>4. w[2] = l.name /\ w[2] # NoName
  BY <1>2, <1>3, FactsAssumption DEF HasWeakness
<1>5. ASSUME w[1] = "USER-004"
      PROVE  \E x, y \in p.users : x.line # y.line /\ x.uid = y.uid
  <2>1. PICK j \in Users(h) : j # i /\ Lines(h.passwd)[j].uid = l.uid
    BY <1>2, <1>5 DEF HasWeakness
  <2>2. /\ UserAt(h, j) \in p.users /\ UserAt(h, j).line = j
        /\ UserAt(h, j).uid = Lines(h.passwd)[j].uid
    BY <1>1, UserAtFields
  <2> QED
    BY <1>3, <2>1, <2>2
<1> HIDE DEF l, u
<1>6. w[1] = "USER-001" => u.uid = 0 /\ u.name # Root
  BY <1>2, <1>3 DEF l, HasWeakness
<1>7. /\ w[1] = "USER-002" /\ w[3] = "passwd" => u.passwordField = "empty"
      /\ w[1] = "USER-002" /\ w[3] = "shadow" => u.passwordField = "shadowed"
      /\ w[1] = "USER-003" => u.passwordField = "hash"
  BY <1>2, <1>3, Classified DEF l, HasWeakness
<1>8. w[1] = "USER-005" =>
        u.uid = w[3] /\ u.uid # 0 /\ u.name \notin Exempt /\ u.shell \notin NonInteractive
  BY <1>2, <1>3 DEF l, HasWeakness
<1>9. ShownInPasswd(w, p.users, p.skipped)
  BY <1>3, <1>4, <1>5, <1>6, <1>7, <1>8 DEF ShownInPasswd
<1> QED
  BY <1>9 DEF p

LEMMA OddLineShows ==
  ASSUME NEW h \in Host, h.passwd.error = "none", NEW w \in OddLines(h)
  PROVE  LET p == ParsePasswd(h.passwd.lines) IN ShownInPasswd(w, p.users, p.skipped)
<1>1. /\ w[2] = NoName
      /\ w[3] \in {i \in DOMAIN Lines(h.passwd) :
                    Lines(h.passwd)[i].form # "blank" /\ i \notin Users(h)}
  BY DEF OddLines
<1> QED
  BY <1>1, Parsed DEF ShownInPasswd

(* What may be blamed on the users that were read.                          *)
Blamable(users, blame) ==
  /\ (\E u \in users : u.uid = 0 /\ u.name # Root) => \E w \in blame : w[1] = "USER-001"
  /\ (\E u \in users : u.passwordField = "empty") => \E w \in blame : w[1] = "USER-002"
  /\ (\E u \in users : u.passwordField = "hash") => \E w \in blame : w[1] = "USER-003"
  /\ (\E u, v \in users : u.line # v.line /\ u.uid = v.uid) =>
       \E w \in blame : w[1] = "USER-004"

ShellBlamable(users, least, blame) ==
  (\E u \in users : /\ u.uid # 0 /\ u.uid < least
                    /\ u.name \notin Exempt /\ u.shell \notin NonInteractive) =>
    \E w \in blame : w[1] = "USER-005"

LEMMA AccountsBlamable ==
  ASSUME NEW h \in Host, h.passwd.error = "none"
  PROVE  LET p == ParsePasswd(h.passwd.lines)
         IN  /\ Blamable(p.users, Blame(h))
             /\ ShellBlamable(p.users, FirstUID(h), Blame(h))
<1> DEFINE p == ParsePasswd(h.passwd.lines)
           l(i) == Lines(h.passwd)[i]
<1>1. p.users = {UserAt(h, i) : i \in Users(h)}
  BY Parsed
<1> HIDE DEF p
<1>2. \A u \in p.users : \E i \in Users(h) :
        /\ u.name = l(i).name /\ u.uid = l(i).uid /\ u.shell = l(i).shell /\ u.line = i
        /\ u.passwordField = ClassifyPassword(l(i).password) /\ l(i).password \in Field
  BY <1>1, UserAtFields, UsersTyped
<1>3. \A w \in WeakAccounts(h) : w \in Blame(h)
  BY DEF Blame
<1>4. ASSUME NEW i \in Users(h)
      PROVE  /\ l(i).uid = 0 /\ l(i).name # Root => <<"USER-001", l(i).name, l(i).uid>> \in WeakAccounts(h)
             /\ l(i).password = "" => <<"USER-002", l(i).name, "passwd">> \in WeakAccounts(h)
             /\ l(i).password = "$6$" => <<"USER-003", l(i).name, l(i).uid>> \in WeakAccounts(h)
             /\ (\E j \in Users(h) : j # i /\ l(j).uid = l(i).uid) =>
                  <<"USER-004", l(i).name, l(i).uid>> \in WeakAccounts(h)
             /\ (/\ l(i).uid # 0 /\ l(i).uid < FirstUID(h)
                 /\ l(i).name \notin Exempt /\ l(i).shell \notin NonInteractive) =>
                  <<"USER-005", l(i).name, l(i).uid>> \in WeakAccounts(h)
  BY <1>4 DEF WeakAccounts
<1> HIDE DEF l
<1>5. (\E u \in p.users : u.uid = 0 /\ u.name # Root) => \E w \in Blame(h) : w[1] = "USER-001"
  <2>1. SUFFICES ASSUME NEW u \in p.users, u.uid = 0, u.name # Root
                 PROVE  \E w \in Blame(h) : w[1] = "USER-001"
    OBVIOUS
  <2>2. PICK i \in Users(h) : u.name = l(i).name /\ u.uid = l(i).uid
    BY <1>2
  <2> QED
    BY <1>3, <1>4, <2>1, <2>2
<1>6. (\E u \in p.users : u.passwordField = "empty") => \E w \in Blame(h) : w[1] = "USER-002"
  <2>1. SUFFICES ASSUME NEW u \in p.users, u.passwordField = "empty"
                 PROVE  \E w \in Blame(h) : w[1] = "USER-002"
    OBVIOUS
  <2>2. PICK i \in Users(h) : u.passwordField = ClassifyPassword(l(i).password)
                             /\ l(i).password \in Field
    BY <1>2
  <2>3. l(i).password = ""
    BY <2>1, <2>2, Classified
  <2> QED
    BY <1>3, <1>4, <2>3
<1>7. (\E u \in p.users : u.passwordField = "hash") => \E w \in Blame(h) : w[1] = "USER-003"
  <2>1. SUFFICES ASSUME NEW u \in p.users, u.passwordField = "hash"
                 PROVE  \E w \in Blame(h) : w[1] = "USER-003"
    OBVIOUS
  <2>2. PICK i \in Users(h) : u.passwordField = ClassifyPassword(l(i).password)
                             /\ l(i).password \in Field
    BY <1>2
  <2>3. l(i).password = "$6$"
    BY <2>1, <2>2, Classified
  <2> QED
    BY <1>3, <1>4, <2>3
<1>8. (\E u, v \in p.users : u.line # v.line /\ u.uid = v.uid) =>
        \E w \in Blame(h) : w[1] = "USER-004"
  <2>1. SUFFICES ASSUME NEW u \in p.users, NEW v \in p.users, u.line # v.line, u.uid = v.uid
                 PROVE  \E w \in Blame(h) : w[1] = "USER-004"
    OBVIOUS
  <2>2. PICK i \in Users(h) : u.line = i /\ u.uid = l(i).uid
    BY <1>2
  <2>3. PICK j \in Users(h) : v.line = j /\ v.uid = l(j).uid
    BY <1>2
  <2>4. j # i /\ l(j).uid = l(i).uid
    BY <2>1, <2>2, <2>3
  <2> QED
    BY <1>3, <1>4, <2>4
<1>9. ShellBlamable(p.users, FirstUID(h), Blame(h))
  <2>1. SUFFICES ASSUME NEW u \in p.users, u.uid # 0, u.uid < FirstUID(h),
                        u.name \notin Exempt, u.shell \notin NonInteractive
                 PROVE  \E w \in Blame(h) : w[1] = "USER-005"
    BY DEF ShellBlamable
  <2>2. PICK i \in Users(h) : u.name = l(i).name /\ u.uid = l(i).uid /\ u.shell = l(i).shell
    BY <1>2
  <2>3. <<"USER-005", l(i).name, l(i).uid>> \in WeakAccounts(h)
    BY <1>4, <2>1, <2>2
  <2> QED
    BY <1>3, <2>3
<1> QED
  BY <1>5, <1>6, <1>7, <1>8, <1>9 DEF Blamable, p
(* The shadow file shows an empty password just where there is one.         *)
LEMMA ShadowParsed ==
  ASSUME NEW h \in Host, h.shadow.error = "none"
  PROVE  (\E e \in ParseShadow(h.shadow.lines).entries : e.password = "empty")
           <=> WithoutPassword(h) # {}
<1> DEFINE lines == h.shadow.lines
           entries == ParseShadow(lines).entries
<1>1. Lines(h.shadow) = lines /\ lines \in Seq(ShadowLine)
  BY HostTyped DEF Lines
<1>2. Named(h.shadow) = {i \in 1..Len(lines) : Entry(lines[i])}
  BY <1>1 DEF Named, Entry
<1>3. \A i \in Named(h.shadow) : lines[i].password \in Field
  <2>1. \A i \in Named(h.shadow) : lines[i] \in ShadowLine /\ lines[i].form = "fields"
    BY <1>1, <1>2 DEF Entry
  <2> QED
    BY <2>1 DEF ShadowLine
<1>4. WithoutPassword(h) = {lines[i].name : i \in {i \in Named(h.shadow) : lines[i].password = ""}}
  BY <1>1 DEF WithoutPassword
<1> HIDE DEF lines
<1>5. entries = {[name |-> lines[i].name, line |-> i,
                  password |-> ClassifyPassword(lines[i].password)] : i \in Named(h.shadow)}
  BY <1>2 DEF ParseShadow
<1> HIDE DEF entries
<1>6. ASSUME NEW e \in entries, e.password = "empty"
      PROVE  WithoutPassword(h) # {}
  <2>1. PICK i \in Named(h.shadow) : e.password = ClassifyPassword(lines[i].password)
    BY <1>5
  <2>2. lines[i].password = ""
    BY <1>3, <1>6, <2>1, Classified
  <2> QED
    BY <1>4, <2>2
<1>7. ASSUME WithoutPassword(h) # {}
      PROVE  \E e \in entries : e.password = "empty"
  <2>1. PICK i \in Named(h.shadow) : lines[i].password = ""
    BY <1>4, <1>7
  <2>2. ClassifyPassword(lines[i].password) = "empty"
    BY <1>3, <2>1, Classified
  <2> QED
    <3>1. [name |-> lines[i].name, line |-> i,
           password |-> ClassifyPassword(lines[i].password)] \in entries
      BY <1>5
    <3> QED
      BY <2>2, <3>1
<1> QED
  BY <1>6, <1>7 DEF entries, lines
-----------------------------------------------------------------------------
(* What the rules ask of the paths.                                         *)
Judges(r, p) ==
  CASE r = "FILE-007" -> p \in TempDirs
    [] r = "open to others" -> p = Of["FILE-005"]
    [] OTHER -> r \in DOMAIN Of /\ p = Of[r]
Unsafe(mode, uid, r) ==
  CASE r = "FILE-007" -> "o+w" \in mode /\ "t" \notin mode
    [] r = "open to others" -> mode \cap {"o+r", "o+x"} # {}
    [] OTHER -> mode \cap Ask(r) # {} \/ uid # 0
Judgement == fileRules \cup {"open to others"}
Shows(e, r) == e.exists /\ Unsafe(e.mode, e.uid, r)

LEMMA FileRules ==
  /\ fileRules = DOMAIN Of \cup {"FILE-007"} /\ "FILE-007" \notin DOMAIN Of
  /\ "open to others" \notin fileRules
<1>1. fileRules = DOMAIN Of \cup {"FILE-007"} /\ "FILE-007" \notin DOMAIN Of
  BY DEF fileRules, Policy, Of
<1>2. "open to others" \notin DOMAIN Of \cup {"FILE-007"}
  BY DEF Of
<1> QED
  BY <1>1, <1>2

LEMMA FileWeakness ==
  ASSUME NEW t \in [Paths -> Metadata]
  PROVE  /\ \A w \in WeakFiles(t) : /\ w[1] \in fileRules /\ Judges(w[1], w[2])
                                   /\ IsThere(t, w[2]) /\ Unsafe(t[w[2]].mode, t[w[2]].uid, w[1])
         /\ \A r, p : Judges(r, p) /\ IsThere(t, p) /\ Unsafe(t[p].mode, t[p].uid, r) =>
                      \E w \in WeakFiles(t) \cup OpenSudoers(t) : w[1] = r
<1>1. ASSUME NEW w \in WeakFiles(t)
      PROVE  /\ w[1] \in fileRules /\ Judges(w[1], w[2])
             /\ IsThere(t, w[2]) /\ Unsafe(t[w[2]].mode, t[w[2]].uid, w[1])
  <2>1. CASE \E r \in DOMAIN Of : /\ w = <<r, Of[r]>> /\ IsThere(t, Of[r])
                                  /\ t[Of[r]].mode \cap Ask(r) # {} \/ t[Of[r]].uid # 0
    <3>1. PICK r \in DOMAIN Of : /\ w = <<r, Of[r]>> /\ IsThere(t, Of[r])
                                 /\ t[Of[r]].mode \cap Ask(r) # {} \/ t[Of[r]].uid # 0
      BY <2>1
    <3>2. w[1] = r /\ w[2] = Of[r] /\ r \in fileRules
          /\ r \notin {"FILE-007", "open to others"}
      BY <3>1, FileRules
    <3> QED
      BY <3>1, <3>2 DEF Judges, Unsafe
  <2>2. CASE \E d \in TempDirs : /\ w = <<"FILE-007", d>> /\ IsThere(t, d)
                                 /\ "o+w" \in t[d].mode /\ "t" \notin t[d].mode
    <3>1. w[1] = "FILE-007" /\ w[2] \in TempDirs /\ IsThere(t, w[2])
          /\ "o+w" \in t[w[2]].mode /\ "t" \notin t[w[2]].mode
      BY <2>2
    <3>2. Judges("FILE-007", w[2])
      BY <3>1 DEF Judges
    <3>3. Unsafe(t[w[2]].mode, t[w[2]].uid, "FILE-007")
      BY <3>1 DEF Unsafe
    <3> QED
      BY <3>1, <3>2, <3>3, FileRules
  <2> QED
    BY <2>1, <2>2 DEF WeakFiles
<1>2. ASSUME NEW r, NEW p, Judges(r, p), IsThere(t, p), Unsafe(t[p].mode, t[p].uid, r)
      PROVE  \E w \in WeakFiles(t) \cup OpenSudoers(t) : w[1] = r
  <2>1. CASE r = "FILE-007"
    <3>1. p \in TempDirs
      BY <1>2, <2>1, FileRules DEF Judges
    <3>2. <<"FILE-007", p>> \in WeakFiles(t)
      BY <1>2, <2>1, <3>1 DEF WeakFiles, Unsafe
    <3> QED
      BY <2>1, <3>2
  <2>3. CASE r = "open to others"
    <3>1. <<r, p>> \in OpenSudoers(t)
      BY <1>2, <2>3 DEF OpenSudoers, Judges, Unsafe
    <3> QED
      BY <3>1
  <2>2. CASE r \notin {"FILE-007", "open to others"}
    <3>1. r \in DOMAIN Of /\ p = Of[r]
      BY <1>2, <2>2 DEF Judges
    <3>2. <<r, Of[r]>> \in WeakFiles(t)
      BY <1>2, <2>2, <3>1 DEF WeakFiles, Unsafe
    <3> QED
      BY <3>2
  <2> QED
    BY <2>1, <2>2, <2>3
<1> QED
  BY <1>1, <1>2

LEMMA RulesApart == accountRules \cap fileRules = {}
BY FileRules DEF accountRules, Of

(* Which part of the host a weakness is of is told by its rule.             *)
LEMMA WeaknessKinds ==
  ASSUME NEW h \in Host, NEW w \in Weak(h)
  PROVE  /\ w[1] \in accountRules \cup fileRules
         /\ w[1] \in accountRules => w \in WeakAccounts(h) \cup OddLines(h)
         /\ w[1] \in fileRules => w \in WeakFiles(h.tree)
<1>1. CASE w \in WeakAccounts(h)
  <2>1. w[1] \in accountRules
    BY <1>1, AccountWeakness DEF HasWeakness
  <2> QED
    BY <1>1, <2>1, RulesApart
<1>2. CASE w \in OddLines(h)
  <2>1. w[1] \in accountRules
    BY <1>2 DEF OddLines, accountRules
  <2> QED
    BY <1>2, <2>1, RulesApart
<1>3. CASE w \in WeakFiles(h.tree)
  <2>1. w[1] \in fileRules
    BY <1>3, FileWeakness, HostTyped
  <2> QED
    BY <1>3, <2>1, RulesApart
<1> QED
  BY <1>1, <1>2, <1>3 DEF Weak

(* Odd lines are of no account; USER-002 and USER-005 are about accounts,    *)
(* and an empty password is in one of two files.                            *)
LEMMA PasswordAndShell ==
  ASSUME NEW h \in Host, NEW w \in Weak(h), w[1] \in {"USER-002", "USER-005"}
  PROVE  /\ w \in WeakAccounts(h) /\ w[2] # NoName
         /\ w[1] = "USER-002" => \/ w[3] = "passwd"
                                 \/ w[3] = "shadow" /\ WithoutPassword(h) # {}
         /\ w[1] = "USER-005" => w[3] < FirstUID(h)
<1>1. w \in WeakAccounts(h) \cup OddLines(h)
  BY WeaknessKinds DEF accountRules
<1>2. w \notin OddLines(h)
  BY DEF OddLines
<1>3. PICK i \in Users(h) : HasWeakness(h, w, i)
  BY <1>1, <1>2, AccountWeakness
<1>4. w[2] \in Name /\ NoName \notin Name
  BY <1>3, UsersTyped, FactsAssumption DEF HasWeakness
<1> QED
  BY <1>1, <1>2, <1>3, <1>4 DEF HasWeakness
-----------------------------------------------------------------------------
(* The inductive invariant.                                                 *)
Statuses == {"pending", "collected", "not_found", "permission_denied", "failed"}
ShadowSection == [status : Statuses, entries : SUBSET ShadowEntry, skipped : SUBSET Nat]
Accounts ==
  [status : Statuses, users : SUBSET Account, skipped : SUBSET Nat, shadow : ShadowSection,
   uidMin : Nat]
FileEntry ==
  [path : Paths, exists : BOOLEAN, error : BOOLEAN, mode : SUBSET Bit, uid : Int]

Typed ==
  /\ host \in Hosts /\ changes \in 0..MaxChanges /\ elevated \in BOOLEAN
  /\ pc \in {"passwd", "shadow", "defs", "stat", "done"}
  /\ accounts \in Accounts
  /\ \A u \in accounts.users : u.line \notin accounts.skipped
  /\ files \in Seq(FileEntry)
  /\ edited \subseteq {"passwd", "shadow", "defs", "tree"}

(* What has been collected when the collector is where it is.               *)
Ordered ==
  /\ pc \in {"passwd", "shadow", "defs"} => accounts.status = "pending" /\ files = <<>>
  /\ pc \in {"stat", "done"} => accounts.status # "pending"
  /\ pc = "passwd" => edited = {}
  /\ Len(files) <= 8
  /\ pc = "done" => Len(files) = 8

(* The history is about this host.                                          *)
History == always \subseteq Weak(host) /\ Blame(host) \subseteq ever

PasswdRead == pc \in {"shadow", "defs"} \/ accounts.status = "collected"

(* A lasting weakness of an account shows in what has been read so far, and  *)
(* what was read of passwd and shadow was to blame when it was read.         *)
PasswdFaithful ==
  PasswdRead =>
    /\ \A w \in always : w[1] \in accountRules =>
         ShownInPasswd(w, accounts.users, accounts.skipped)
    /\ Blamable(accounts.users, ever)

ShadowFaithful ==
  PasswdRead /\ pc # "shadow" /\ accounts.shadow.status = "collected" =>
    /\ (\E w \in always : w[1] = "USER-002" /\ w[3] = "shadow") =>
         \E e \in accounts.shadow.entries : e.password = "empty"
    /\ (\E e \in accounts.shadow.entries : e.password = "empty") =>
         \E w \in ever : w[1] = "USER-002"

(* A user with a shell was to blame when both files were as they were read:  *)
(* while login.defs is not read, either is still what it was, or was edited. *)
ShellsFaithful ==
  /\ accounts.status = "collected" =>
       /\ \A w \in always : w[1] = "USER-005" => w[3] < accounts.uidMin
       /\ ~({"passwd", "defs"} \subseteq edited) =>
            ShellBlamable(accounts.users, accounts.uidMin, ever)
  /\ pc \in {"shadow", "defs"} =>
       /\ "passwd" \notin edited =>
            /\ host.passwd.error = "none"
            /\ accounts.users = ParsePasswd(host.passwd.lines).users
       /\ "defs" \notin edited => ShellBlamable(accounts.users, FirstUID(host), ever)

(* The entry of a path shows a lasting weakness of the path, unless it       *)
(* could not be inspected, and what it shows was to blame.                  *)
FilesFaithful ==
  \A i \in 1..Len(files) :
    /\ files[i].path = LinuxPaths[i]
    /\ files[i].exists => ~files[i].error /\ files[i].uid >= 0
    /\ \A w \in always : w[1] \in fileRules /\ w[2] = LinuxPaths[i] =>
         files[i].error \/ Shows(files[i], w[1])
    /\ \A r \in Judgement : Judges(r, LinuxPaths[i]) /\ Shows(files[i], r) =>
         \E w \in ever : w[1] = r

Inv ==
  /\ Typed /\ Ordered /\ History
  /\ PasswdFaithful /\ ShadowFaithful /\ ShellsFaithful /\ FilesFaithful
-----------------------------------------------------------------------------
LEMMA BlameGrows ==
  ASSUME NEW users, NEW least, NEW B, NEW C, B \subseteq C
  PROVE  /\ Blamable(users, B) => Blamable(users, C)
         /\ ShellBlamable(users, least, B) => ShellBlamable(users, least, C)
<1>1. Blamable(users, B) => Blamable(users, C)
  BY DEF Blamable
<1>2. ShellBlamable(users, least, B) => ShellBlamable(users, least, C)
  BY DEF ShellBlamable
<1> QED
  BY <1>1, <1>2

LEMMA EmptySections ==
  ASSUME NEW status \in Statuses
  PROVE  /\ NoShadow(status) \in ShadowSection /\ NoShadow(status).status = status
         /\ NoShadow(status).entries = {}
         /\ NoAccounts(status) \in Accounts /\ NoAccounts(status).status = status
         /\ NoAccounts(status).users = {}
<1>1. NoShadow(status) \in ShadowSection
  BY DEF NoShadow, ShadowSection
<1>2. NoShadow("pending") \in ShadowSection
  BY DEF NoShadow, ShadowSection, Statuses
<1>3. DefaultUIDMin \in Nat
  BY DEF DefaultUIDMin
<1>4. NoAccounts(status) \in Accounts
  BY <1>2, <1>3 DEF NoAccounts, Accounts
<1> QED
  BY <1>1, <1>4 DEF NoShadow, NoAccounts

LEMMA classifyTyped ==
  ASSUME NEW e
  PROVE  classify(e) \in Statuses \ {"pending", "collected"}
BY DEF classify, Statuses

LEMMA HostsAreHosts == Typed => host \in Host
BY FactsAssumption DEF Typed

LEMMA InitInv == Init => Inv
<1> SUFFICES ASSUME Init PROVE Inv
  OBVIOUS
<1> USE DEF Init
<1>1. /\ accounts \in Accounts /\ accounts.status = "pending" /\ accounts.users = {}
  BY EmptySections DEF Statuses
<1>2. files \in Seq(FileEntry) /\ Len(files) = 0
  OBVIOUS
<1>3. Typed
  BY <1>1, <1>2, FactsAssumption DEF Typed
<1>4. Ordered /\ History
  BY <1>1, <1>2 DEF Ordered, History
<1>5. ~PasswdRead
  BY <1>1 DEF PasswdRead
<1>6. PasswdFaithful /\ ShadowFaithful /\ ShellsFaithful
  BY <1>1, <1>5 DEF PasswdFaithful, ShadowFaithful, ShellsFaithful
<1>7. FilesFaithful
  BY <1>2 DEF FilesFaithful
<1> QED
  BY <1>3, <1>4, <1>6, <1>7 DEF Inv

LEMMA ReadPasswdInv == Inv /\ ReadPasswd => Inv'
<1> SUFFICES ASSUME Inv, ReadPasswd PROVE Inv'
  OBVIOUS
<1>1. /\ Typed /\ Ordered /\ History /\ FilesFaithful
      /\ pc = "passwd" /\ host \in Host
      /\ UNCHANGED <<host, changes, elevated, files, always, ever, edited>>
  BY HostsAreHosts DEF Inv, ReadPasswd
<1>2. History' /\ FilesFaithful'
  BY <1>1 DEF History, FilesFaithful
<1>3. CASE host.passwd.error # "none"
  <2>1. /\ accounts' = NoAccounts(classify(host.passwd.error)) /\ pc' = "stat"
    BY <1>3 DEF ReadPasswd
  <2>2. /\ accounts' \in Accounts /\ accounts'.users = {}
        /\ accounts'.status \notin {"pending", "collected"}
    BY <2>1, classifyTyped, EmptySections
  <2>3. Typed'
    BY <1>1, <2>1, <2>2 DEF Typed
  <2>4. Ordered'
    BY <1>1, <2>1, <2>2 DEF Ordered
  <2>5. ~PasswdRead'
    BY <2>1, <2>2 DEF PasswdRead
  <2>6. PasswdFaithful' /\ ShadowFaithful' /\ ShellsFaithful'
    BY <2>1, <2>2, <2>5 DEF PasswdFaithful, ShadowFaithful, ShellsFaithful
  <2> QED
    BY <1>2, <2>3, <2>4, <2>6 DEF Inv
<1>4. CASE host.passwd.error = "none"
  <2> DEFINE p == ParsePasswd(host.passwd.lines)
  <2>1. /\ accounts' = [accounts EXCEPT !.users = p.users, !.skipped = p.skipped]
        /\ pc' = "shadow"
    BY <1>4 DEF ReadPasswd
  <2>2. /\ p.users \in SUBSET Account /\ p.skipped \in SUBSET Nat
        /\ \A u \in p.users : u.line \notin p.skipped
    BY <1>1, <1>4, ParsedTyped
  <2> HIDE DEF p
  <2>3. /\ accounts' \in Accounts /\ accounts'.users = p.users /\ accounts'.skipped = p.skipped
        /\ accounts'.status = "pending"
    BY <1>1, <2>1, <2>2 DEF Accounts, Typed, Ordered
  <2>4. Typed'
    BY <1>1, <2>1, <2>2, <2>3 DEF Typed
  <2>5. Ordered'
    BY <1>1, <2>1, <2>3 DEF Ordered
  <2>6. \A w \in always : w[1] \in accountRules => ShownInPasswd(w, p.users, p.skipped)
    <3>1. SUFFICES ASSUME NEW w \in always, w[1] \in accountRules
                   PROVE  ShownInPasswd(w, p.users, p.skipped)
      OBVIOUS
    <3>2. w \in WeakAccounts(host) \cup OddLines(host)
      BY <1>1, <3>1, WeaknessKinds DEF History
    <3> QED
      BY <1>1, <1>4, <3>2, AccountShows, OddLineShows DEF p
  <2>7. Blamable(p.users, ever) /\ ShellBlamable(p.users, FirstUID(host), ever)
    <3>1. Blamable(p.users, Blame(host)) /\ ShellBlamable(p.users, FirstUID(host), Blame(host))
      BY <1>1, <1>4, AccountsBlamable DEF p
    <3> QED
      BY <1>1, <3>1, BlameGrows DEF History
  <2>8. PasswdFaithful'
    BY <1>1, <2>3, <2>6, <2>7 DEF PasswdFaithful
  <2>9. ShadowFaithful'
    BY <2>1 DEF ShadowFaithful
  <2>10. ShellsFaithful'
    BY <1>1, <1>4, <2>3, <2>7 DEF ShellsFaithful, p
  <2> QED
    BY <1>2, <2>4, <2>5, <2>8, <2>9, <2>10 DEF Inv
<1> QED
  BY <1>3, <1>4

LEMMA ReadShadowInv == Inv /\ ReadShadow => Inv'
<1> SUFFICES ASSUME Inv, ReadShadow PROVE Inv'
  OBVIOUS
<1>1. /\ Typed /\ Ordered /\ History /\ PasswdFaithful /\ ShellsFaithful /\ FilesFaithful
      /\ pc = "shadow" /\ pc' = "defs" /\ host \in Host
      /\ UNCHANGED <<host, changes, elevated, files, always, ever, edited>>
      /\ accounts' = [accounts EXCEPT !.shadow = collectShadow]
  BY HostsAreHosts DEF Inv, ReadShadow
<1>2. History' /\ FilesFaithful'
  BY <1>1 DEF History, FilesFaithful
<1>3. /\ collectShadow \in ShadowSection
      /\ collectShadow.status = "collected" =>
           /\ host.shadow.error = "none"
           /\ collectShadow.entries = ParseShadow(host.shadow.lines).entries
  <2>1. CASE host.shadow.error # "none"
    <3>1. collectShadow = NoShadow(classify(host.shadow.error))
      BY <2>1 DEF collectShadow
    <3> QED
      BY <3>1, classifyTyped, EmptySections
  <2>2. CASE host.shadow.error = "none"
    <3> DEFINE p == ParseShadow(host.shadow.lines)
    <3>1. p.entries \in SUBSET ShadowEntry /\ p.skipped \in SUBSET Nat
      BY <1>1, <2>2, ShadowTyped
    <3>2. collectShadow = [status |-> "collected", entries |-> p.entries, skipped |-> p.skipped]
      BY <2>2 DEF collectShadow
    <3> HIDE DEF p
    <3> QED
      BY <2>2, <3>1, <3>2 DEF ShadowSection, Statuses, p
  <2> QED
    BY <2>1, <2>2
<1>4. /\ accounts' \in Accounts /\ accounts'.users = accounts.users
      /\ accounts'.skipped = accounts.skipped /\ accounts'.status = accounts.status
      /\ accounts'.shadow = collectShadow /\ accounts.status = "pending"
  BY <1>1, <1>3 DEF Accounts, Typed, Ordered
<1>5. Typed'
  BY <1>1, <1>4 DEF Typed
<1>6. Ordered'
  BY <1>1, <1>4 DEF Ordered
<1>7. PasswdFaithful'
  BY <1>1, <1>4 DEF PasswdFaithful, PasswdRead
<1>8. ShadowFaithful'
  <2>1. SUFFICES ASSUME collectShadow.status = "collected"
                 PROVE  /\ (\E w \in always : w[1] = "USER-002" /\ w[3] = "shadow") =>
                             \E e \in collectShadow.entries : e.password = "empty"
                        /\ (\E e \in collectShadow.entries : e.password = "empty") =>
                             \E w \in ever : w[1] = "USER-002"
    BY <1>1, <1>4 DEF ShadowFaithful
  <2>2. (\E e \in collectShadow.entries : e.password = "empty") <=> WithoutPassword(host) # {}
    BY <1>1, <1>3, <2>1, ShadowParsed
  <2>3. (\E w \in always : w[1] = "USER-002" /\ w[3] = "shadow") => WithoutPassword(host) # {}
    BY <1>1, PasswordAndShell DEF History
  <2>4. WithoutPassword(host) # {} => \E w \in ever : w[1] = "USER-002"
    <3>1. SUFFICES ASSUME NEW n \in WithoutPassword(host)
                   PROVE  \E w \in ever : w[1] = "USER-002"
      OBVIOUS
    <3>2. <<"USER-002", n, "shadow">> \in ever
      BY <1>1 DEF History, Blame
    <3> QED
      BY <3>2
  <2> QED
    BY <2>2, <2>3, <2>4
<1>9. ShellsFaithful'
  BY <1>1, <1>4 DEF ShellsFaithful
<1> QED
  BY <1>2, <1>5, <1>6, <1>7, <1>8, <1>9 DEF Inv

LEMMA ReadDefsInv == Inv /\ ReadDefs => Inv'
<1> SUFFICES ASSUME Inv, ReadDefs PROVE Inv'
  OBVIOUS
<1>1. /\ Typed /\ Ordered /\ History /\ PasswdFaithful /\ ShadowFaithful /\ ShellsFaithful
      /\ FilesFaithful
      /\ pc = "defs" /\ pc' = "stat" /\ host \in Host
      /\ UNCHANGED <<host, changes, elevated, files, always, ever, edited>>
      /\ accounts' = [accounts EXCEPT !.status = "collected", !.uidMin = uidMin]
  BY HostsAreHosts DEF Inv, ReadDefs
<1>2. History' /\ FilesFaithful'
  BY <1>1 DEF History, FilesFaithful
<1>3. uidMin = FirstUID(host) /\ uidMin \in Nat
  BY <1>1, UIDMinIsFirstUID DEF uidMin
<1>4. /\ accounts' \in Accounts /\ accounts'.users = accounts.users
      /\ accounts'.skipped = accounts.skipped /\ accounts'.status = "collected"
      /\ accounts'.shadow = accounts.shadow /\ accounts'.uidMin = uidMin
  BY <1>1, <1>3 DEF Accounts, Typed, Statuses
<1>5. Typed'
  BY <1>1, <1>4 DEF Typed
<1>6. Ordered'
  BY <1>1, <1>4 DEF Ordered
<1>7. PasswdFaithful'
  BY <1>1, <1>4 DEF PasswdFaithful, PasswdRead
<1>8. ShadowFaithful'
  BY <1>1, <1>4 DEF ShadowFaithful, PasswdRead
<1>9. ShellsFaithful'
  <2>1. \A w \in always : w[1] = "USER-005" => w[3] < uidMin
    BY <1>1, <1>3, PasswordAndShell DEF History
  <2>2. "defs" \notin edited => ShellBlamable(accounts.users, uidMin, ever)
    BY <1>1, <1>3 DEF ShellsFaithful
  <2>3. ASSUME "passwd" \notin edited
        PROVE  ShellBlamable(accounts.users, uidMin, ever)
    <3>1. /\ host.passwd.error = "none"
          /\ accounts.users = ParsePasswd(host.passwd.lines).users
      BY <1>1, <2>3 DEF ShellsFaithful
    <3>2. ShellBlamable(accounts.users, FirstUID(host), Blame(host))
      BY <1>1, <3>1, AccountsBlamable
    <3> QED
      BY <1>1, <1>3, <3>2, BlameGrows DEF History
  <2> QED
    BY <1>1, <1>4, <2>1, <2>2, <2>3 DEF ShellsFaithful
<1> QED
  BY <1>2, <1>5, <1>6, <1>7, <1>8, <1>9 DEF Inv

LEMMA EightPaths ==
  /\ LinuxPaths \in Seq(Paths) /\ Len(LinuxPaths) = 8
  /\ \A i \in 1..8 : LinuxPaths[i] \in Paths
BY DEF LinuxPaths, Paths

LEMMA StatInv == Inv /\ Stat => Inv'
<1> SUFFICES ASSUME Inv, Stat PROVE Inv'
  OBVIOUS
<1> DEFINE n == Len(files) + 1
           p == LinuxPaths[n]
           m == host.tree[p]
           e == [path |-> p, exists |-> m.error = "none",
                 error |-> m.error \in {"permission", "io"},
                 mode |-> IF m.error = "none" THEN m.mode ELSE {},
                 uid |-> IF m.error = "none" THEN m.uid ELSE -1]
<1>1. /\ Typed /\ Ordered /\ History /\ PasswdFaithful /\ ShadowFaithful /\ ShellsFaithful
      /\ FilesFaithful
      /\ pc = "stat" /\ host \in Host /\ Len(files) < 8
      /\ UNCHANGED <<host, changes, elevated, accounts, always, ever, edited>>
      /\ files' = Append(files, e)
      /\ pc' = IF Len(files') = 8 THEN "done" ELSE "stat"
  BY HostsAreHosts, EightPaths DEF Inv, Stat
<1>2. files \in Seq(FileEntry) /\ Len(files) \in Nat /\ n \in 1..8
  BY <1>1 DEF Typed
<1>3. p \in Paths /\ host.tree \in [Paths -> Metadata] /\ m \in Metadata
  BY <1>1, <1>2, EightPaths, HostTyped
<1>4. e \in FileEntry
  BY <1>3 DEF FileEntry, Metadata
<1>5. /\ e.path = p
      /\ e.exists <=> m.error = "none"
      /\ e.error <=> m.error \in {"permission", "io"}
      /\ e.exists => e.mode = m.mode /\ e.uid = m.uid /\ m.uid >= 0
  <2>1. m.uid >= 0
    BY <1>3 DEF Metadata
  <2> HIDE DEF m
  <2>2. e.exists => e.mode = m.mode /\ e.uid = m.uid
    OBVIOUS
  <2> QED
    BY <2>1, <2>2
<1>6. IsThere(host.tree, p) <=> e.exists \/ e.error
  BY <1>3, <1>5 DEF IsThere, Metadata, ErrorClass
<1>7. \A w \in always : w[1] \in fileRules /\ w[2] = p => e.error \/ Shows(e, w[1])
  <2>1. SUFFICES ASSUME NEW w \in always, w[1] \in fileRules, w[2] = p
                 PROVE  e.error \/ Shows(e, w[1])
    OBVIOUS
  <2>2. w \in WeakFiles(host.tree)
    BY <1>1, <2>1, WeaknessKinds DEF History
  <2>3. IsThere(host.tree, p) /\ Unsafe(m.mode, m.uid, w[1])
    BY <1>3, <2>1, <2>2, FileWeakness
  <2> HIDE DEF e, m
  <2> QED
    BY <1>5, <1>6, <2>3 DEF Shows
<1>8. \A r \in Judgement : Judges(r, p) /\ Shows(e, r) => \E w \in ever : w[1] = r
  <2>1. SUFFICES ASSUME NEW r \in Judgement, Judges(r, p), Shows(e, r)
                 PROVE  \E w \in ever : w[1] = r
    OBVIOUS
  <2>2. IsThere(host.tree, p) /\ Unsafe(m.mode, m.uid, r)
    <3> HIDE DEF e, m
    <3> QED
      BY <1>5, <1>6, <2>1 DEF Shows
  <2>3. PICK w \in WeakFiles(host.tree) \cup OpenSudoers(host.tree) : w[1] = r
    BY <1>3, <2>1, <2>2, FileWeakness
  <2> QED
    BY <1>1, <2>3 DEF History, Blame
<1> HIDE DEF e, m
<1>9. /\ files' \in Seq(FileEntry) /\ Len(files') = n
      /\ files'[n] = e /\ \A i \in 1..Len(files) : files'[i] = files[i]
  BY <1>1, <1>2, <1>4
<1>10. Typed'
  BY <1>1, <1>9 DEF Typed
<1>11. Ordered'
  BY <1>1, <1>2, <1>9 DEF Ordered
<1>12. History'
  BY <1>1 DEF History
<1>13. PasswdFaithful' /\ ShadowFaithful' /\ ShellsFaithful'
  <2>1. pc' \in {"stat", "done"}
    BY <1>1
  <2>2. PasswdRead' <=> PasswdRead
    BY <1>1, <2>1 DEF PasswdRead
  <2> QED
    BY <1>1, <2>1, <2>2 DEF PasswdFaithful, ShadowFaithful, ShellsFaithful
<1>14. FilesFaithful'
  <2>1. SUFFICES ASSUME NEW i \in 1..Len(files')
                 PROVE  /\ files'[i].path = LinuxPaths[i]
                        /\ files'[i].exists => ~files'[i].error /\ files'[i].uid >= 0
                        /\ \A w \in always : w[1] \in fileRules /\ w[2] = LinuxPaths[i] =>
                             files'[i].error \/ Shows(files'[i], w[1])
                        /\ \A r \in Judgement : Judges(r, LinuxPaths[i]) /\ Shows(files'[i], r) =>
                             \E w \in ever : w[1] = r
    BY <1>1 DEF FilesFaithful
  <2>2. CASE i = n
    <3>1. e.path = LinuxPaths[n] /\ (e.exists => ~e.error /\ e.uid >= 0)
      BY <1>5
    <3>2. files'[i] = e
      BY <1>9, <2>2
    <3> HIDE DEF n
    <3> QED
      BY <1>7, <1>8, <2>2, <3>1, <3>2
  <2>3. CASE i # n
    <3>1. i \in 1..Len(files)
      BY <1>2, <1>9, <2>3
    <3>2. files'[i] = files[i]
      BY <1>9, <3>1
    <3> QED
      BY <1>1, <3>1, <3>2 DEF FilesFaithful
  <2> QED
    BY <2>2, <2>3
<1> QED
  BY <1>10, <1>11, <1>12, <1>13, <1>14 DEF Inv

LEMMA FirstUIDOfDefs ==
  ASSUME NEW g, NEW h, g.defs = h.defs
  PROVE  FirstUID(g) = FirstUID(h)
<1>1. Settings(g) = Settings(h)
  BY DEF Settings
<1> QED
  BY <1>1 DEF FirstUID

LEMMA HostChangesInv == Inv /\ HostChanges => Inv'
<1> SUFFICES ASSUME Inv, HostChanges PROVE Inv'
  OBVIOUS
<1>1. /\ Typed /\ Ordered /\ History /\ PasswdFaithful /\ ShadowFaithful /\ ShellsFaithful
      /\ FilesFaithful
      /\ host \in Host /\ host' \in Hosts /\ changes' = changes + 1 /\ changes < MaxChanges
      /\ always' = always \cap Weak(host') /\ ever' = ever \cup Blame(host')
      /\ UNCHANGED <<elevated, pc, accounts, files>>
  BY HostsAreHosts DEF Inv, HostChanges
<1>2. /\ edited \subseteq edited' /\ edited' \subseteq {"passwd", "shadow", "defs", "tree"}
      /\ pc = "passwd" => edited' = edited
      /\ pc \in {"shadow", "defs"} =>
           /\ "passwd" \notin edited' => host'.passwd = host.passwd
           /\ "defs" \notin edited' => host'.defs = host.defs
  <2>1. DOMAIN host = {"passwd", "shadow", "defs", "tree"}
    BY <1>1 DEF Host
  <2>2. edited \subseteq {"passwd", "shadow", "defs", "tree"}
    BY <1>1 DEF Typed
  <2>3. CASE pc \in {"shadow", "defs"}
    <3>1. edited' = edited \cup {x \in DOMAIN host : host'[x] # host[x]}
      BY <2>3 DEF HostChanges
    <3> QED
      BY <2>1, <2>2, <2>3, <3>1
  <2>4. CASE pc \notin {"shadow", "defs"}
    <3>1. edited' = edited
      BY <2>4 DEF HostChanges
    <3> QED
      BY <2>2, <2>4, <3>1
  <2> QED
    BY <2>3, <2>4
<1>3. always' \subseteq always /\ ever \subseteq ever'
  BY <1>1
<1>4. Typed'
  BY <1>1, <1>2, FactsAssumption DEF Typed
<1>5. Ordered'
  BY <1>1, <1>2 DEF Ordered
<1>6. History'
  BY <1>1 DEF History
<1>7. PasswdFaithful'
  BY <1>1, <1>3, BlameGrows DEF PasswdFaithful, PasswdRead
<1>8. ShadowFaithful'
  BY <1>1, <1>3 DEF ShadowFaithful, PasswdRead
<1>9. ShellsFaithful'
  <2>1. \A least : ShellBlamable(accounts.users, least, ever) =>
                     ShellBlamable(accounts.users, least, ever')
    BY <1>3, BlameGrows
  <2>2. ASSUME accounts.status = "collected"
        PROVE  /\ \A w \in always' : w[1] = "USER-005" => w[3] < accounts.uidMin
               /\ ~({"passwd", "defs"} \subseteq edited') =>
                    ShellBlamable(accounts.users, accounts.uidMin, ever')
    BY <1>1, <1>2, <1>3, <2>1, <2>2 DEF ShellsFaithful
  <2>3. ASSUME pc \in {"shadow", "defs"}, "passwd" \notin edited'
        PROVE  /\ host'.passwd.error = "none"
               /\ accounts.users = ParsePasswd(host'.passwd.lines).users
    BY <1>1, <1>2, <2>3 DEF ShellsFaithful
  <2>4. ASSUME pc \in {"shadow", "defs"}, "defs" \notin edited'
        PROVE  ShellBlamable(accounts.users, FirstUID(host'), ever')
    <3>1. FirstUID(host') = FirstUID(host)
      BY <1>2, <2>4, FirstUIDOfDefs
    <3> QED
      BY <1>1, <1>2, <2>1, <2>4, <3>1 DEF ShellsFaithful
  <2> QED
    BY <1>1, <2>2, <2>3, <2>4 DEF ShellsFaithful
<1>10. FilesFaithful'
  BY <1>1, <1>3 DEF FilesFaithful
<1> QED
  BY <1>4, <1>5, <1>6, <1>7, <1>8, <1>9, <1>10 DEF Inv

LEMMA Invariant == Spec => []Inv
<1>1. Inv /\ [Next]_vars => Inv'
  <2> SUFFICES ASSUME Inv, [Next]_vars PROVE Inv'
    OBVIOUS
  <2>1. CASE UNCHANGED vars
    BY <2>1 DEF vars, Inv, Typed, Ordered, History, PasswdRead, PasswdFaithful,
                ShadowFaithful, ShellsFaithful, FilesFaithful
  <2> QED
    BY <2>1, ReadPasswdInv, ReadShadowInv, ReadDefsInv, StatInv, HostChangesInv DEF Next
<1> QED
  BY <1>1, InitInv, PTL DEF Spec

(* What is collected is of its type: every user has a number and a line that *)
(* was not skipped, and the host changes one bounded step at a time.        *)
THEOREM TypeCorrect == Spec => []TypeOK
<1>1. Inv => TypeOK
  <2> SUFFICES ASSUME Inv PROVE TypeOK
    OBVIOUS
  <2>1. Typed /\ Ordered
    BY DEF Inv
  <2>2. accounts.status \in Statuses /\ accounts.users \in SUBSET Account /\ accounts.uidMin \in Nat
    BY <2>1 DEF Typed, Accounts
  <2>3. \A u \in accounts.users : u.uid \in Id /\ u.name \in Name /\ u.line \notin accounts.skipped
    BY <2>1, <2>2 DEF Typed, Account
  <2> QED
    BY <2>1, <2>2, <2>3, EightPaths DEF Typed, Ordered, TypeOK, Statuses
<1> QED
  BY <1>1, Invariant, PTL
-----------------------------------------------------------------------------
(* What the rules answer, once everything is collected.                     *)
LEMMA AccountVerdicts ==
  /\ accounts.status # "collected" =>
       \A r \in accountRules : checkAccounts(r).status \in {"SKIP", "ERROR"}
  /\ accounts.status = "collected" =>
       /\ checkAccounts("USER-001") = checkUIDZero
       /\ checkAccounts("USER-002") = checkEmptyPasswords
       /\ checkAccounts("USER-003") = checkHashInPasswd
       /\ checkAccounts("USER-004") = checkDuplicateUIDs
       /\ checkAccounts("USER-005") = checkSystemShells
BY DEF checkAccounts, unavailable, Verdict

(* USER-002 passes only what shows no empty password in either file, and    *)
(* fails only what shows one.                                               *)
LEMMA EmptyPasswordsMeans ==
  LET emptyInShadow == \E e \in accounts.shadow.entries : e.password = "empty"
  IN  /\ checkEmptyPasswords.status = "PASS" =>
           /\ ~EmptyInPasswd
           /\ (\E u \in accounts.users : u.passwordField = "shadowed") =>
                accounts.shadow.status = "collected" /\ ~emptyInShadow
      /\ checkEmptyPasswords.status = "FAIL" =>
           EmptyInPasswd \/ (accounts.shadow.status = "collected" /\ emptyInShadow)
<1>1. CASE ~\E u \in accounts.users : u.passwordField \in {"empty", "shadowed"}
  BY <1>1 DEF checkEmptyPasswords, EmptyInPasswd, Pass
<1>2. CASE /\ \E u \in accounts.users : u.passwordField \in {"empty", "shadowed"}
           /\ accounts.shadow.status # "collected"
  <2>1. checkEmptyPasswords = FailIf(EmptyInPasswd, unavailable(accounts.shadow.status))
    BY <1>2 DEF checkEmptyPasswords
  <2>2. unavailable(accounts.shadow.status).status \in {"SKIP", "ERROR"}
    BY DEF unavailable, Verdict
  <2> QED
    BY <1>2, <2>1, <2>2 DEF FailIf, Verdict
<1>3. CASE /\ \E u \in accounts.users : u.passwordField \in {"empty", "shadowed"}
           /\ accounts.shadow.status = "collected"
  <2> DEFINE bad == \/ EmptyInPasswd
                    \/ \E e \in accounts.shadow.entries : e.password = "empty"
  <2>1. checkEmptyPasswords = FailIf(bad, Pass({}))
    BY <1>3 DEF checkEmptyPasswords
  <2>2. bad \in BOOLEAN
    BY DEF EmptyInPasswd
  <2>3. CASE bad
    BY <1>3, <2>1, <2>3 DEF FailIf, Verdict
  <2>4. CASE ~bad
    BY <1>3, <2>1, <2>4 DEF FailIf, Pass
  <2> QED
    BY <2>3, <2>4
<1> QED
  BY <1>1, <1>2, <1>3

LEMMA WeakAccountIsReported ==
  ASSUME Inv, pc = "done", NEW w \in always, w[1] \in accountRules
  PROVE  \/ checkAccounts(w[1]).status # "PASS"
         \/ w[2] = NoName /\ w[3] \in checkAccounts(w[1]).notes
<1>1. CASE accounts.status # "collected"
  BY <1>1, AccountVerdicts
<1>2. CASE accounts.status = "collected"
  <2>1. /\ ShownInPasswd(w, accounts.users, accounts.skipped) /\ host \in Host
        /\ ShadowFaithful /\ ShellsFaithful /\ w \in Weak(host) /\ PasswdRead
    BY <1>2, HostsAreHosts DEF Inv, PasswdFaithful, PasswdRead, History
  <2>2. CASE w[1] = "USER-001"
    <3>1. checkAccounts(w[1]) = checkUIDZero
      BY <1>2, <2>2, AccountVerdicts
    <3>2. CASE w[2] = NoName
      BY <2>1, <3>1, <3>2 DEF ShownInPasswd, checkUIDZero, parseWarnings, FailIf, Verdict, Pass
    <3>3. CASE w[2] # NoName
      BY <2>1, <2>2, <3>1, <3>3 DEF ShownInPasswd, checkUIDZero, FailIf, Verdict
    <3> QED
      BY <3>2, <3>3
  <2>3. CASE w[1] = "USER-002"
    <3>1. checkAccounts(w[1]) = checkEmptyPasswords
      BY <1>2, <2>3, AccountVerdicts
    <3>2. w[2] # NoName /\ w[3] \in {"passwd", "shadow"}
      BY <2>1, <2>3, PasswordAndShell
    <3>3. CASE w[3] = "passwd"
      <4>1. EmptyInPasswd
        BY <2>1, <2>3, <3>2, <3>3 DEF ShownInPasswd, EmptyInPasswd
      <4> QED
        BY <3>1, <4>1, EmptyPasswordsMeans
    <3>4. CASE w[3] = "shadow"
      <4>1. \E u \in accounts.users : u.passwordField = "shadowed"
        BY <2>1, <2>3, <3>2, <3>4 DEF ShownInPasswd
      <4>2. accounts.shadow.status = "collected" =>
              \E e \in accounts.shadow.entries : e.password = "empty"
        BY <2>1, <2>3, <3>4 DEF ShadowFaithful, Inv
      <4> QED
        BY <3>1, <4>1, <4>2, EmptyPasswordsMeans
    <3> QED
      BY <3>2, <3>3, <3>4
  <2>4. CASE w[1] = "USER-003"
    <3>1. checkAccounts(w[1]) = checkHashInPasswd
      BY <1>2, <2>4, AccountVerdicts
    <3>2. CASE w[2] = NoName
      BY <2>1, <3>1, <3>2 DEF ShownInPasswd, checkHashInPasswd, parseWarnings, FailIf, Verdict, Pass
    <3>3. CASE w[2] # NoName
      BY <2>1, <2>4, <3>1, <3>3 DEF ShownInPasswd, checkHashInPasswd, FailIf, Verdict
    <3> QED
      BY <3>2, <3>3
  <2>5. CASE w[1] = "USER-004"
    <3>1. checkAccounts(w[1]) = checkDuplicateUIDs
      BY <1>2, <2>5, AccountVerdicts
    <3>2. CASE w[2] = NoName
      BY <2>1, <3>1, <3>2 DEF ShownInPasswd, checkDuplicateUIDs, parseWarnings, FailIf, Verdict, Pass
    <3>3. CASE w[2] # NoName
      BY <2>1, <2>5, <3>1, <3>3 DEF ShownInPasswd, checkDuplicateUIDs, FailIf, Verdict
    <3> QED
      BY <3>2, <3>3
  <2>6. CASE w[1] = "USER-005"
    <3>1. checkAccounts(w[1]) = checkSystemShells
      BY <1>2, <2>6, AccountVerdicts
    <3>2. w[2] # NoName
      BY <2>1, <2>6, PasswordAndShell
    <3>3. PICK u \in accounts.users : /\ u.uid = w[3] /\ u.uid # 0 /\ u.name \notin Exempt
                                      /\ u.shell \notin NonInteractive
      BY <2>1, <2>6, <3>2 DEF ShownInPasswd
    <3>4. u.uid < accounts.uidMin
      BY <1>2, <2>1, <2>6, <3>3 DEF ShellsFaithful
    <3>5. SystemAccount(u)
      BY <3>3, <3>4 DEF SystemAccount
    <3> QED
      BY <3>1, <3>3, <3>5 DEF checkSystemShells, FailIf, Verdict
  <2> QED
    BY <2>2, <2>3, <2>4, <2>5, <2>6 DEF accountRules
<1> QED
  BY <1>1, <1>2

LEMMA AccountFailIsFounded ==
  ASSUME Inv, pc = "done", NEW r \in accountRules, checkAccounts(r).status = "FAIL"
  PROVE  \/ \E w \in ever : w[1] = r
         \/ r = "USER-005" /\ {"passwd", "defs"} \subseteq edited
<1>1. accounts.status = "collected" /\ PasswdRead
  BY AccountVerdicts DEF PasswdRead
<1>2. Blamable(accounts.users, ever) /\ ShadowFaithful /\ ShellsFaithful
  BY <1>1 DEF Inv, PasswdFaithful
<1>3. CASE r = "USER-001"
  <2>1. \E u \in accounts.users : u.uid = 0 /\ u.name # Root
    BY <1>1, <1>3, AccountVerdicts DEF checkUIDZero, FailIf, Pass
  <2> QED
    BY <1>2, <1>3, <2>1 DEF Blamable
<1>4. CASE r = "USER-002"
  <2>1. \/ EmptyInPasswd
        \/ /\ accounts.shadow.status = "collected"
           /\ \E e \in accounts.shadow.entries : e.password = "empty"
    BY <1>1, <1>4, AccountVerdicts, EmptyPasswordsMeans
  <2>2. CASE EmptyInPasswd
    BY <1>2, <1>4, <2>2 DEF Blamable, EmptyInPasswd
  <2>3. CASE /\ accounts.shadow.status = "collected"
             /\ \E e \in accounts.shadow.entries : e.password = "empty"
    BY <1>1, <1>2, <1>4, <2>3 DEF ShadowFaithful
  <2> QED
    BY <2>1, <2>2, <2>3
<1>5. CASE r = "USER-003"
  <2>1. \E u \in accounts.users : u.passwordField = "hash"
    BY <1>1, <1>5, AccountVerdicts DEF checkHashInPasswd, FailIf, Pass
  <2> QED
    BY <1>2, <1>5, <2>1 DEF Blamable
<1>6. CASE r = "USER-004"
  <2>1. \E u, v \in accounts.users : u.line # v.line /\ u.uid = v.uid
    BY <1>1, <1>6, AccountVerdicts DEF checkDuplicateUIDs, FailIf, Pass
  <2> QED
    BY <1>2, <1>6, <2>1 DEF Blamable
<1>7. CASE r = "USER-005"
  <2>1. PICK u \in accounts.users : SystemAccount(u) /\ u.shell \notin NonInteractive
    BY <1>1, <1>7, AccountVerdicts DEF checkSystemShells, FailIf, Pass
  <2>2. SUFFICES ASSUME ~({"passwd", "defs"} \subseteq edited)
                 PROVE  \E w \in ever : w[1] = r
    BY <1>7
  <2>3. ShellBlamable(accounts.users, accounts.uidMin, ever)
    BY <1>1, <1>2, <2>2 DEF ShellsFaithful
  <2> QED
    BY <1>7, <2>1, <2>3 DEF ShellBlamable, SystemAccount
<1> QED
  BY <1>3, <1>4, <1>5, <1>6, <1>7 DEF accountRules

(* The entry of a path is the one that was collected for it.                *)
LEMMA Found ==
  ASSUME Inv, pc = "done", NEW p \in Paths
  PROVE  LET e == FindFile(p)
         IN  /\ e \in FileEntry
             /\ e.exists => ~e.error /\ e.uid >= 0
             /\ \A w \in always : w[1] \in fileRules /\ w[2] = p => e.error \/ Shows(e, w[1])
             /\ \A r \in Judgement : Judges(r, p) /\ Shows(e, r) => \E w \in ever : w[1] = r
<1> DEFINE c == CHOOSE i \in 1..Len(files) : files[i].path = p
<1>1. files \in Seq(FileEntry) /\ Len(files) = 8 /\ FilesFaithful
  BY DEF Inv, Typed, Ordered
<1>2. PICK k \in 1..8 : LinuxPaths[k] = p
  BY EightPaths DEF Paths
<1>3. files[k].path = p
  BY <1>1, <1>2 DEF FilesFaithful
<1>4. c \in 1..Len(files) /\ files[c].path = p
  BY <1>1, <1>2, <1>3
<1>5. FindFile(p) = files[c]
  BY DEF FindFile
<1> HIDE DEF c
<1>6. files[c] \in FileEntry /\ LinuxPaths[c] = p
  <2>1. files[c] \in FileEntry
    <3>1. files \in Seq(FileEntry)
      BY <1>1
    <3>2. \A i \in 1..Len(files) : files[i] \in FileEntry
      BY <3>1
    <3> QED
      BY <1>4, <3>2
  <2>2. files[c].path = LinuxPaths[c]
    BY <1>1, <1>4 DEF FilesFaithful
  <2> QED
    BY <1>4, <2>1, <2>2
<1>7. files[c].exists => ~files[c].error /\ files[c].uid >= 0
  <2>1. \A i \in 1..Len(files) : files[i].exists => ~files[i].error /\ files[i].uid >= 0
    BY <1>1 DEF FilesFaithful
  <2> QED
    BY <1>4, <2>1
<1>8. ASSUME NEW w \in always, w[1] \in fileRules, w[2] = p
      PROVE  files[c].error \/ Shows(files[c], w[1])
  BY <1>1, <1>4, <1>6, <1>8 DEF FilesFaithful
<1>9. ASSUME NEW r \in Judgement, Judges(r, p), Shows(files[c], r)
      PROVE  \E w \in ever : w[1] = r
  BY <1>1, <1>4, <1>6, <1>9 DEF FilesFaithful
<1> QED
  BY <1>5, <1>6, <1>7, <1>8, <1>9

(* What the code forbids: what the title asks, and for sudoers a little more. *)
Forbids(r) == Ask(r) \cup IF r = "FILE-005" THEN {"o+r", "o+x"} ELSE {}

LEMMA PolicyLookup ==
  ASSUME NEW r \in DOMAIN Of
  PROVE  checkFiles(r) = fileCheck(Of[r], Forbids(r)) /\ Of[r] \in Paths
<1>1. \A p \in Policy : p[1] \in DOMAIN Of /\ p[2] = Of[p[1]] /\ p[3] = Forbids(p[1])
  BY DEF Policy, Of, Ask, Forbids
<1>2. \E p \in Policy : p[1] = r
  BY FileRules DEF fileRules
<1>3. r # "FILE-007"
  BY FileRules
<1>4. Of[r] \in Paths
  BY DEF Of, Paths, LinuxPaths
<1> DEFINE p == CHOOSE p \in Policy : p[1] = r
<1>5. p[2] = Of[r] /\ p[3] = Forbids(r)
  BY <1>1, <1>2
<1> QED
  BY <1>3, <1>4, <1>5 DEF checkFiles

(* A file rule passes a path only when it is there, inspected and safe.     *)
LEMMA FileVerdicts ==
  ASSUME NEW r \in DOMAIN Of,
         LET e == FindFile(Of[r])
         IN  e \in FileEntry /\ (e.exists => ~e.error /\ e.uid >= 0)
  PROVE  LET e == FindFile(Of[r])
         IN  /\ checkFiles(r).status = "PASS" => ~e.error /\ ~Shows(e, r)
             /\ checkFiles(r).status = "FAIL" =>
                  (Shows(e, r) \/ (r = "FILE-005" /\ Shows(e, "open to others")))
<1> DEFINE e == FindFile(Of[r])
           unsafe == e.mode \cap Forbids(r) # {} \/ e.uid # 0
<1>1. checkFiles(r) =
        CASE e.error -> Verdict(IF elevated THEN "ERROR" ELSE "SKIP")
          [] ~e.error /\ ~e.exists -> Verdict("SKIP")
          [] e.exists /\ e.uid < 0 -> Verdict("SKIP")
          [] OTHER -> FailIf(unsafe, Pass({}))
  BY PolicyLookup DEF fileCheck
<1>2. /\ Shows(e, r) => e.exists /\ unsafe
      /\ e.exists /\ unsafe =>
           (Shows(e, r) \/ (r = "FILE-005" /\ Shows(e, "open to others")))
  <2>1. r \notin {"FILE-007", "open to others"}
    BY FileRules
  <2> QED
    BY <2>1 DEF Shows, Unsafe, Forbids
<1>3. e.error \in BOOLEAN /\ e.exists \in BOOLEAN /\ (e.exists => ~e.error /\ ~(e.uid < 0))
  BY DEF FileEntry
<1> DEFINE Goal ==
             /\ checkFiles(r).status = "PASS" => ~e.error /\ ~Shows(e, r)
             /\ checkFiles(r).status = "FAIL" =>
                  (Shows(e, r) \/ (r = "FILE-005" /\ Shows(e, "open to others")))
<1> HIDE DEF e, unsafe
<1> SUFFICES Goal
  BY DEF e
<1>4. CASE e.error
  <2>1. checkFiles(r) = Verdict(IF elevated THEN "ERROR" ELSE "SKIP")
    BY <1>1, <1>3, <1>4
  <2> QED
    BY <2>1 DEF Verdict
<1>5. CASE ~e.error /\ ~e.exists
  <2>1. checkFiles(r) = Verdict("SKIP")
    BY <1>1, <1>3, <1>5
  <2> QED
    BY <2>1 DEF Verdict
<1>6. CASE e.exists
  <2>1. checkFiles(r) = FailIf(unsafe, Pass({}))
    BY <1>1, <1>3, <1>6
  <2>2. CASE unsafe
    <3>1. checkFiles(r).status = "FAIL"
      BY <2>1, <2>2 DEF FailIf, Verdict
    <3> QED
      BY <1>2, <1>6, <2>2, <3>1
  <2>3. CASE ~unsafe
    <3>1. checkFiles(r).status = "PASS"
      BY <2>1, <2>3 DEF FailIf, Pass
    <3> QED
      BY <1>2, <1>3, <1>6, <2>3, <3>1
  <2> QED
    BY <2>2, <2>3
<1> QED
  BY <1>3, <1>4, <1>5, <1>6

LEMMA WeakFileIsReported ==
  ASSUME Inv, pc = "done", NEW w \in always, w[1] \in fileRules
  PROVE  \/ checkFiles(w[1]).status # "PASS"
         \/ w[1] = "FILE-007" /\ ~TempDirsInspected
<1>1. host \in Host /\ w \in Weak(host)
  BY HostsAreHosts DEF Inv, History
<1>2. Judges(w[1], w[2])
  BY <1>1, WeaknessKinds, HostTyped, FileWeakness
<1>3. CASE w[1] = "FILE-007"
  <2>1. w[2] \in TempDirs /\ w[2] \in Paths
    BY <1>2, <1>3 DEF Judges, TempDirs, Paths, LinuxPaths
  <2>2. SUFFICES ASSUME TempDirsInspected PROVE checkStickyTempDirs.status # "PASS"
    BY <1>3 DEF checkFiles
  <2> DEFINE e == FindFile(w[2])
  <2>3. Shows(e, "FILE-007")
    BY <1>3, <2>1, <2>2, Found DEF TempDirsInspected
  <2>4. /\ e \in {e2 \in {FindFile(d) : d \in TempDirs} : e2.exists}
        /\ "o+w" \in e.mode /\ "t" \notin e.mode
    BY <2>1, <2>3 DEF Shows, Unsafe
  <2> HIDE DEF e
  <2> QED
    BY <2>4 DEF checkStickyTempDirs, FailIf, Verdict
<1>4. CASE w[1] # "FILE-007"
  <2>1. w[1] \in DOMAIN Of /\ w[2] = Of[w[1]] /\ Of[w[1]] \in Paths
    BY <1>2, <1>4, FileRules, PolicyLookup DEF Judges
  <2>2. LET e == FindFile(Of[w[1]])
        IN  /\ e \in FileEntry /\ (e.exists => ~e.error /\ e.uid >= 0)
            /\ e.error \/ Shows(e, w[1])
    BY <2>1, Found
  <2> QED
    BY <2>1, <2>2, FileVerdicts
<1> QED
  BY <1>3, <1>4

LEMMA FileFailIsFounded ==
  ASSUME Inv, pc = "done", NEW r \in fileRules, checkFiles(r).status = "FAIL"
  PROVE  \/ \E w \in ever : w[1] = r
         \/ r = "FILE-005" /\ \E w \in ever : w[1] = "open to others"
<1>1. CASE r = "FILE-007"
  <2>1. checkStickyTempDirs.status = "FAIL"
    BY <1>1 DEF checkFiles
  <2>2. PICK d \in TempDirs : /\ FindFile(d).exists
                              /\ "o+w" \in FindFile(d).mode /\ "t" \notin FindFile(d).mode
    BY <2>1 DEF checkStickyTempDirs, FailIf, Verdict, Pass
  <2>3. d \in Paths /\ Judges(r, d) /\ Shows(FindFile(d), r)
    BY <1>1, <2>2 DEF TempDirs, Paths, LinuxPaths, Judges, Shows, Unsafe
  <2> QED
    BY <2>3, Found DEF Judgement
<1>2. CASE r # "FILE-007"
  <2>1. r \in DOMAIN Of /\ Judges(r, Of[r]) /\ Of[r] \in Paths
    BY <1>2, FileRules, PolicyLookup DEF Judges
  <2>2. LET e == FindFile(Of[r]) IN e \in FileEntry /\ (e.exists => ~e.error /\ e.uid >= 0)
    BY <2>1, Found
  <2>3. \/ Shows(FindFile(Of[r]), r)
        \/ r = "FILE-005" /\ Shows(FindFile(Of[r]), "open to others")
    BY <2>1, <2>2, FileVerdicts
  <2>4. r = "FILE-005" => Judges("open to others", Of[r])
    BY DEF Judges
  <2> QED
    BY <2>1, <2>3, <2>4, Found DEF Judgement
<1> QED
  BY <1>1, <1>2

(* However often the host is changed while its files are read, and whatever  *)
(* cannot be read: what is wrong with it all along is never passed.         *)
THEOREM LastingWeaknessIsReported == Spec => []WeaknessIsReported
<1>1. Inv => WeaknessIsReported
  <2>1. SUFFICES ASSUME Inv, pc = "done", NEW w \in always
                 PROVE  \/ check(w[1]).status # "PASS"
                        \/ w[2] = NoName /\ w[3] \in check(w[1]).notes
                        \/ w[1] = "FILE-007" /\ ~TempDirsInspected
    BY DEF WeaknessIsReported
  <2>2. w[1] \in accountRules \cup fileRules
    BY <2>1, HostsAreHosts, WeaknessKinds DEF Inv, History
  <2>3. CASE w[1] \in accountRules
    BY <2>1, <2>3, WeakAccountIsReported DEF check
  <2>4. CASE w[1] \in fileRules
    BY <2>1, <2>4, RulesApart, WeakFileIsReported DEF check
  <2> QED
    BY <2>2, <2>3, <2>4
<1> QED
  BY <1>1, Invariant, PTL

(* What fails was wrong at some moment, except for a shell of USER-005 when  *)
(* both files it is judged by were edited between their reads, and a sudoers *)
(* that others could read or execute, which its title does not forbid.      *)
THEOREM FailuresAreFounded == Spec => []FailIsFounded
<1>1. Inv => FailIsFounded
  <2>1. SUFFICES ASSUME Inv, pc = "done", NEW r \in accountRules \cup fileRules,
                        check(r).status = "FAIL"
                 PROVE  \/ \E w \in ever : w[1] = r
                        \/ r = "USER-005" /\ {"passwd", "defs"} \subseteq edited
                        \/ r = "FILE-005" /\ \E w \in ever : w[1] = "open to others"
    BY DEF FailIsFounded
  <2>2. CASE r \in accountRules
    BY <2>1, <2>2, AccountFailIsFounded DEF check
  <2>3. CASE r \in fileRules
    BY <2>1, <2>3, RulesApart, FileFailIsFounded DEF check
  <2> QED
    BY <2>1, <2>2, <2>3
<1> QED
  BY <1>1, Invariant, PTL
=============================================================================
