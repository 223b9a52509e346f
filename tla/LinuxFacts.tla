----------------------------- MODULE LinuxFacts -----------------------------
(***************************************************************************)
(* The account databases and the metadata of files on Linux, and the rules  *)
(* about them (src/internal/collector/accounts, collector/files,            *)
(* rules/accounts.go and rules/files.go).  Three files are read and eight   *)
(* paths are looked at one after the other, while someone administers the   *)
(* host; the rules then judge what was collected.                           *)
(*                                                                         *)
(* A line is what splitting it yields; its number stands for the warning    *)
(* about it.  The order of users, entries and evidence is left out.         *)
(***************************************************************************)
EXTENDS Integers, Sequences

CONSTANTS
  Name, NoName,      \* account names, and the empty one
  Id, NotANumber,    \* what ParseUint makes of a UID
  Shell,
  NonInteractive,    \* the shells whose base name is nologin or false
  Root,              \* the account root
  Exempt,            \* shellExemptAccounts
  Hosts,             \* the states the three files and the paths may be in
  MaxChanges         \* bound: how often the host changes

Field == {"x", "", "!", "*", "$6$"}
ErrorClass == {"notexist", "permission", "io"}

PasswdLine ==
  [form : {"blank", "nis", "short"}]
    \cup [form : {"fields"}, name : Name \cup {NoName}, password : Field,
          uid : Id \cup {NotANumber}, shell : Shell]
ShadowLine ==
  [form : {"blank", "short"}]
    \cup [form : {"fields"}, name : Name \cup {NoName}, password : Field]
DefsLine == [form : {"other"}] \cup [form : {"UID_MIN"}, value : Int \cup {NotANumber}]
File(Line) == [error : {"none"} \cup ErrorClass, lines : Seq(Line)]

LinuxPaths ==
  <<"/etc/passwd", "/etc/shadow", "/etc/group", "/etc/gshadow", "/etc/sudoers",
    "/etc/ssh/sshd_config", "/tmp", "/var/tmp">>
Paths == {LinuxPaths[i] : i \in 1..Len(LinuxPaths)}

(* Permission bits of group and others, and the sticky bit.                 *)
Bit == {"g+r", "g+w", "g+x", "o+r", "o+w", "o+x", "t"}
Metadata == [error : {"none"} \cup ErrorClass, mode : SUBSET Bit, uid : Nat]

Host == [passwd : File(PasswdLine), shadow : File(ShadowLine), defs : File(DefsLine),
         tree : [Paths -> Metadata]]

ASSUME FactsAssumption ==
  /\ Root \in Name /\ Exempt \subseteq Name /\ NoName \notin Name \cup Paths
  /\ Id \subseteq Nat /\ NotANumber \notin Int
  /\ NonInteractive \subseteq Shell
  /\ Hosts \subseteq Host /\ MaxChanges \in Nat

VARIABLES
  host, changes,      \* the host, and how often it has changed
  elevated,           \* the auditor has root's privileges
  pc,
  accounts, files,    \* two sections of the snapshot
  always, ever,       \* history: weaknesses the host has had all along, and
                      \* what there was to blame at some moment
  edited              \* history: what has changed between the reads of passwd
                      \* and login.defs

vars == <<host, changes, elevated, pc, accounts, files, always, ever, edited>>
-----------------------------------------------------------------------------
ClassifyPassword(field) ==
  CASE field = "x" -> "shadowed" [] field = "" -> "empty"
    [] field \in {"!", "*"} -> "locked" [] OTHER -> "hash"

(* Mutant: the error of ParseUint is not looked at.                         *)
WellFormedAnyId(l) == l.form = "fields" /\ l.name # NoName
WellFormed(l) == l.form = "fields" /\ l.name # NoName /\ l.uid # NotANumber

ParsePasswd(lines) ==
  [users |-> {[name |-> lines[i].name, uid |-> lines[i].uid, shell |-> lines[i].shell,
               passwordField |-> ClassifyPassword(lines[i].password), line |-> i] :
              i \in {i \in 1..Len(lines) : WellFormed(lines[i])}},
   skipped |-> {i \in 1..Len(lines) : lines[i].form # "blank" /\ ~WellFormed(lines[i])}]

Entry(l) == l.form = "fields" /\ l.name # NoName

ParseShadow(lines) ==
  [entries |-> {[name |-> lines[i].name, line |-> i,
                 password |-> ClassifyPassword(lines[i].password)] :
                i \in {i \in 1..Len(lines) : Entry(lines[i])}},
   skipped |-> {i \in 1..Len(lines) : lines[i].form # "blank" /\ ~Entry(lines[i])}]

DefaultUIDMin == 1000

(* A bad value anywhere spoils login.defs; else the last one counts.        *)
ParseUIDMin(lines) ==
  LET given == {i \in 1..Len(lines) : lines[i].form = "UID_MIN"}
      bad(v) == v = NotANumber \/ v < 0
  IN  IF \E i \in given : bad(lines[i].value) THEN [of |-> "error"]
      ELSE IF given = {} THEN [of |-> "unset"]
      ELSE [of |-> "value",
            n |-> lines[CHOOSE i \in given : \A j \in given : j <= i].value]

classify(error) ==
  CASE error = "notexist" -> "not_found"
    [] error = "permission" -> "permission_denied"
    [] OTHER -> "failed"
-----------------------------------------------------------------------------
(* Which rules the host deserves to fail, and for whom: what login(1) and    *)
(* the others make of the files, whether the auditor may read them or not.  *)
Lines(f) == IF f.error = "notexist" THEN <<>> ELSE f.lines
Named(f) == {i \in DOMAIN Lines(f) : Lines(f)[i].form = "fields" /\ Lines(f)[i].name # NoName}
Users(h) == {i \in Named(h.passwd) : Lines(h.passwd)[i].uid # NotANumber}
WithoutPassword(h) ==
  {Lines(h.shadow)[i].name : i \in {i \in Named(h.shadow) : Lines(h.shadow)[i].password = ""}}

(* The least UID of people, as far as the auditor can know it: the default  *)
(* of shadow-utils where login.defs does not say it or cannot be read.      *)
Settings(h) == {i \in DOMAIN Lines(h.defs) : Lines(h.defs)[i].form = "UID_MIN"}
FirstUID(h) ==
  LET value(i) == Lines(h.defs)[i].value
  IN  IF \/ h.defs.error # "none" \/ Settings(h) = {}
         \/ \E i \in Settings(h) : value(i) = NotANumber \/ value(i) < 0
      THEN 1000 ELSE value(CHOOSE i \in Settings(h) : \A j \in Settings(h) : j <= i)

(* An empty password is told by the file it is found in.                    *)
WeakAccounts(h) ==
  LET u(i) == Lines(h.passwd)[i]
  IN  {<<"USER-001", u(i).name, u(i).uid>> :
         i \in {i \in Users(h) : u(i).uid = 0 /\ u(i).name # Root}}
        \cup {<<"USER-002", u(i).name, "passwd">> : i \in {i \in Users(h) : u(i).password = ""}}
        \cup {<<"USER-002", u(i).name, "shadow">> :
                i \in {i \in Users(h) : u(i).password = "x" /\ u(i).name \in WithoutPassword(h)}}
        \cup {<<"USER-003", u(i).name, u(i).uid>> : i \in {i \in Users(h) : u(i).password = "$6$"}}
        \cup {<<"USER-004", u(i).name, u(i).uid>> :
                i \in {i \in Users(h) : \E j \in Users(h) : j # i /\ u(j).uid = u(i).uid}}
        \cup {<<"USER-005", u(i).name, u(i).uid>> :
                i \in {i \in Users(h) : /\ u(i).uid # 0 /\ u(i).uid < FirstUID(h)
                                        /\ u(i).name \notin Exempt
                                        /\ u(i).shell \notin NonInteractive}}

(* A line that is no account may hide one: the rules that judge every        *)
(* account are to name it (USER-002 and USER-005 do not).                   *)
OddLines(h) ==
  {<<r, NoName, i>> : r \in {"USER-001", "USER-003", "USER-004"},
                      i \in {i \in DOMAIN Lines(h.passwd) :
                              Lines(h.passwd)[i].form # "blank" /\ i \notin Users(h)}}

(* What the titles of the rules ask of a path.                              *)
Of == [r \in {"FILE-001", "FILE-002", "FILE-003", "FILE-004", "FILE-005", "FILE-006"} |->
         CASE r = "FILE-001" -> "/etc/shadow" [] r = "FILE-002" -> "/etc/gshadow"
           [] r = "FILE-003" -> "/etc/passwd" [] r = "FILE-004" -> "/etc/group"
           [] r = "FILE-005" -> "/etc/sudoers" [] OTHER -> "/etc/ssh/sshd_config"]
Ask(r) == {"g+w", "o+w"}
            \cup IF r \in {"FILE-001", "FILE-002"} THEN {"o+r", "o+x"} ELSE {}
TempDirs == {"/tmp", "/var/tmp"}

IsThere(t, p) == t[p].error # "notexist"
WeakFiles(t) ==
  {<<r, Of[r]>> : r \in {r \in DOMAIN Of :
      IsThere(t, Of[r]) /\ (t[Of[r]].mode \cap Ask(r) # {} \/ t[Of[r]].uid # 0)}}
    \cup {<<"FILE-007", d>> : d \in {d \in TempDirs : IsThere(t, d)
                                       /\ "o+w" \in t[d].mode /\ "t" \notin t[d].mode}}

(* FILE-005 is about who may write /etc/sudoers; the code forbids more.      *)
OpenSudoers(t) ==
  {<<"open to others", p>> : p \in {p \in {Of["FILE-005"]} :
      IsThere(t, p) /\ t[p].mode \cap {"o+r", "o+x"} # {}}}

Weak(h) == WeakAccounts(h) \cup OddLines(h) \cup WeakFiles(h.tree)

(* What a rule may blame: an odd line is none, and an empty password in      *)
(* /etc/shadow is one even if passwd has no such account.                   *)
Blame(h) ==
  WeakAccounts(h) \cup WeakFiles(h.tree) \cup OpenSudoers(h.tree)
    \cup {<<"USER-002", n, "shadow">> : n \in WithoutPassword(h)}
-----------------------------------------------------------------------------
NoShadow(status) == [status |-> status, entries |-> {}, skipped |-> {}]
NoAccounts(status) ==
  [status |-> status, users |-> {}, skipped |-> {}, shadow |-> NoShadow("pending"),
   uidMin |-> DefaultUIDMin]

Init ==
  /\ host \in Hosts /\ changes = 0
  /\ elevated \in BOOLEAN
  /\ pc = "passwd"
  /\ accounts = NoAccounts("pending")
  /\ files = <<>>
  /\ always = Weak(host) /\ ever = Blame(host) /\ edited = {}

(* Someone edits one of the three files, or changes the paths: one at a     *)
(* time, as nothing replaces two files at once.                             *)
HostChanges ==
  /\ pc # "done" /\ changes < MaxChanges
  /\ host' \in {h \in Hosts : \E x \in DOMAIN host : h = [host EXCEPT ![x] = h[x]]}
  /\ changes' = changes + 1
  /\ always' = always \cap Weak(host') /\ ever' = ever \cup Blame(host')
  /\ edited' = IF pc \in {"shadow", "defs"}
               THEN edited \cup {x \in DOMAIN host : host'[x] # host[x]} ELSE edited
  /\ UNCHANGED <<elevated, pc, accounts, files>>

(* Collect: without /etc/passwd there is no section.                        *)
ReadPasswd ==
  /\ pc = "passwd"
  /\ IF host.passwd.error # "none"
     THEN accounts' = NoAccounts(classify(host.passwd.error)) /\ pc' = "stat"
     ELSE LET p == ParsePasswd(host.passwd.lines)
          IN  /\ accounts' = [accounts EXCEPT !.users = p.users, !.skipped = p.skipped]
              /\ pc' = "shadow"
  /\ UNCHANGED <<host, changes, elevated, files, always, ever, edited>>

collectShadow ==
  IF host.shadow.error # "none" THEN NoShadow(classify(host.shadow.error))
  ELSE LET p == ParseShadow(host.shadow.lines)
       IN  [status |-> "collected", entries |-> p.entries, skipped |-> p.skipped]

ReadShadow ==
  /\ pc = "shadow" /\ pc' = "defs"
  /\ accounts' = [accounts EXCEPT !.shadow = collectShadow]
  /\ UNCHANGED <<host, changes, elevated, files, always, ever, edited>>

uidMin ==
  LET m == ParseUIDMin(host.defs.lines)
  IN  IF host.defs.error = "none" /\ m.of = "value" THEN m.n ELSE DefaultUIDMin

ReadDefs ==
  /\ pc = "defs" /\ pc' = "stat"
  /\ accounts' = [accounts EXCEPT !.status = "collected", !.uidMin = uidMin]
  /\ UNCHANGED <<host, changes, elevated, files, always, ever, edited>>

(* files.Collect, the next path: it exists, or not, or cannot be inspected. *)
Stat ==
  /\ pc = "stat" /\ Len(files) < Len(LinuxPaths)
  /\ LET p == LinuxPaths[Len(files) + 1]
         m == host.tree[p]
     IN  files' = Append(files,
           [path |-> p, exists |-> m.error = "none", error |-> m.error \in {"permission", "io"},
            mode |-> IF m.error = "none" THEN m.mode ELSE {},
            uid |-> IF m.error = "none" THEN m.uid ELSE -1])
  /\ pc' = IF Len(files') = Len(LinuxPaths) THEN "done" ELSE "stat"
  /\ UNCHANGED <<host, changes, elevated, accounts, always, ever, edited>>

Next ==
  \/ ReadPasswd \/ ReadShadow \/ ReadDefs \/ Stat \/ HostChanges
  \/ pc = "done" /\ UNCHANGED vars

Spec == Init /\ [][Next]_vars
-----------------------------------------------------------------------------
(* What a rule returns: a status and the skipped lines its evidence names.  *)
Verdict(status) == [status |-> status, notes |-> {}]
Pass(notes) == [status |-> "PASS", notes |-> notes]
parseWarnings == accounts.skipped

unavailable(status) ==
  Verdict(IF status \in {"not_found", "permission_denied"} THEN "SKIP" ELSE "ERROR")

FailIf(bad, otherwise) == IF bad THEN Verdict("FAIL") ELSE otherwise

checkUIDZero ==
  FailIf(\E u \in accounts.users : u.uid = 0 /\ u.name # Root, Pass(parseWarnings))

EmptyInPasswd == \E u \in accounts.users : u.passwordField = "empty"

(* Mutant: a shadow file that was not read counts as one without entries.   *)
checkPasswdOnly ==
  FailIf(\/ EmptyInPasswd
         \/ \E e \in accounts.shadow.entries : e.password = "empty", Pass({}))
checkEmptyPasswords ==
  IF ~\E u \in accounts.users : u.passwordField \in {"empty", "shadowed"} THEN Pass({})
  ELSE IF accounts.shadow.status # "collected"
       THEN FailIf(EmptyInPasswd, unavailable(accounts.shadow.status))
       ELSE FailIf(\/ EmptyInPasswd
                   \/ \E e \in accounts.shadow.entries : e.password = "empty",
                   Pass({}))     \* names the lines of /etc/shadow, not of passwd

checkHashInPasswd ==
  FailIf(\E u \in accounts.users : u.passwordField = "hash", Pass(parseWarnings))

checkDuplicateUIDs ==
  FailIf(\E u, v \in accounts.users : u.line # v.line /\ u.uid = v.uid,
         Pass(parseWarnings))

(* Mutant: UID 0 is a system account like another.                          *)
SystemAccountOrZero(u) == u.uid < accounts.uidMin /\ u.name \notin Exempt
SystemAccount(u) ==
  u.uid # 0 /\ u.uid < accounts.uidMin /\ u.name \notin Exempt

checkSystemShells ==
  FailIf(\E u \in accounts.users : SystemAccount(u) /\ u.shell \notin NonInteractive,
         Pass({}))

accountRules == {"USER-001", "USER-002", "USER-003", "USER-004", "USER-005"}

checkAccounts(r) ==
  IF accounts.status # "collected" THEN unavailable(accounts.status)
  ELSE CASE r = "USER-001" -> checkUIDZero
         [] r = "USER-002" -> checkEmptyPasswords
         [] r = "USER-003" -> checkHashInPasswd
         [] r = "USER-004" -> checkDuplicateUIDs
         [] r = "USER-005" -> checkSystemShells

(* The table of the rules: path and forbidden bits; all require root.       *)
Policy ==
  LET write == {"g+w", "o+w"}
      others == {"o+r", "o+w", "o+x"}
  IN  { <<"FILE-001", "/etc/shadow", write \cup others>>,
        <<"FILE-002", "/etc/gshadow", write \cup others>>,
        <<"FILE-003", "/etc/passwd", write>>, <<"FILE-004", "/etc/group", write>>,
        <<"FILE-005", "/etc/sudoers", write \cup others>>,
        <<"FILE-006", "/etc/ssh/sshd_config", write>> }

FindFile(p) == files[CHOOSE i \in 1..Len(files) : files[i].path = p]

fileCheck(path, forbidden) ==
  LET e == FindFile(path)
  IN  CASE e.error -> Verdict(IF elevated THEN "ERROR" ELSE "SKIP")
        [] ~e.error /\ ~e.exists -> Verdict("SKIP")
        [] e.exists /\ e.uid < 0 -> Verdict("SKIP")
        [] OTHER -> FailIf(e.mode \cap forbidden # {} \/ e.uid # 0, Pass({}))

checkStickyTempDirs ==
  LET inspected == {e \in {FindFile(d) : d \in TempDirs} : e.exists}
  IN  IF inspected = {} THEN Verdict("SKIP")
      ELSE FailIf(\E e \in inspected : "o+w" \in e.mode /\ "t" \notin e.mode, Pass({}))

fileRules == {p[1] : p \in Policy} \cup {"FILE-007"}

checkFiles(r) ==
  IF r = "FILE-007" THEN checkStickyTempDirs
  ELSE LET p == CHOOSE p \in Policy : p[1] = r IN fileCheck(p[2], p[3])

check(r) == IF r \in accountRules THEN checkAccounts(r) ELSE checkFiles(r)
-----------------------------------------------------------------------------
(* The snapshot and the history stay within their types; every skipped line *)
(* and every user is a line of the file, and users have numbers.            *)
TypeOK ==
  /\ host \in Hosts /\ changes \in 0..MaxChanges
  /\ pc \in {"passwd", "shadow", "defs", "stat", "done"} /\ elevated \in BOOLEAN
  /\ accounts.status \in {"pending", "collected", "not_found", "permission_denied", "failed"}
  /\ \A u \in accounts.users : u.uid \in Id /\ u.name \in Name /\ u.line \notin accounts.skipped
  /\ accounts.uidMin \in Nat
  /\ Len(files) <= Len(LinuxPaths) /\ edited \subseteq {"passwd", "shadow", "defs", "tree"}

TempDirsInspected == \A d \in TempDirs : ~FindFile(d).error

(* A weakness the host has from the beginning to the end, whatever else is  *)
(* changed while the files are read one after the other and whichever of    *)
(* them cannot be read, never gets PASS from its rule.  To USER-001, 003 and *)
(* 004 a line of passwd that does not parse is a weakness, which gets PASS   *)
(* only where the evidence names the line; to USER-002 and 005 it is none.   *)
(* (Of FILE-007 only when both directories could be inspected.)             *)
WeaknessIsReported ==
  pc = "done" =>
    \A w \in always :
      \/ check(w[1]).status # "PASS"
      \/ w[2] = NoName /\ w[3] \in check(w[1]).notes
      \/ w[1] = "FILE-007" /\ ~TempDirsInspected

(* A FAIL has a cause that the host had at some moment: it is not put        *)
(* together from two versions of the host, nor from what the rule exempts.  *)
(* Only a system account with a shell may never have been one, and only if  *)
(* both passwd and login.defs were changed between the reads of the two; and *)
(* /etc/sudoers may only have been open to others in a way that its rule's   *)
(* title, "owned by root and not writable by others", does not speak of.    *)
FailIsFounded ==
  pc = "done" =>
    \A r \in accountRules \cup fileRules : check(r).status = "FAIL" =>
      \/ \E w \in ever : w[1] = r
      \/ r = "USER-005" /\ {"passwd", "defs"} \subseteq edited
      \/ r = "FILE-005" /\ \E w \in ever : w[1] = "open to others"
=============================================================================
