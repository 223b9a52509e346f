---------------------------- MODULE MCLinuxFacts ----------------------------
(***************************************************************************)
(* Four accounts and an orphan.  passwd varies with shadow and with          *)
(* login.defs, which have no word to say about each other: any of the files *)
(* may become any other of its kind, twice while they are read.             *)
(***************************************************************************)
EXTENDS LinuxFacts

User(name, password, uid, shell) ==
  [form |-> "fields", name |-> name, password |-> password, uid |-> uid, shell |-> shell]
Shadow(name, password) == [form |-> "fields", name |-> name, password |-> password]
Form(f) == [form |-> f]
UIDMin(v) == [form |-> "UID_MIN", value |-> v]
Readable(lines) == [error |-> "none", lines |-> lines]
Unreadable(e, lines) == [error |-> e, lines |-> lines]

MCName == {"root", "sync", "svc", "alice", "orphan"}
MCId == {0, 4, 600, 1000}
MCShell == {"bash", "sync", "nologin", ""}
MCNonInteractive == {"nologin"}
MCExempt == {"root", "sync"}

RootLine == User("root", "x", 0, "bash")
PasswdFiles ==
  { Readable(<<RootLine, User("sync", "x", 4, "sync"), User("svc", "!", 600, "nologin"),
               User("alice", "x", 1000, "bash")>>),
    Readable(<<RootLine, User("svc", "!", 600, "bash"), Form("nis"),
               User("alice", "x", 1000, "bash")>>),
    Readable(<<RootLine, User("", "", 600, "bash"), User("alice", "", NotANumber, "bash"),
               Form("short"), Form("blank")>>),
    Readable(<<User("svc", "$6$", 600, ""), User("alice", "", 1000, "bash")>>),
    Readable(<<RootLine, User("svc", "x", 0, "bash"), User("alice", "!", 1000, "bash")>>),
    Unreadable("io", <<RootLine, User("alice", "", 1000, "bash")>>) }
ShadowFiles ==
  { Readable(<<Shadow("root", "$6$"), Shadow("alice", "$6$")>>),
    Readable(<<Shadow("root", "!"), Shadow("alice", "")>>),
    Readable(<<Shadow("", ""), Form("short"), Form("blank"), Shadow("orphan", "")>>),
    Unreadable("permission", <<Shadow("alice", "")>>),
    Unreadable("notexist", <<>>) }
DefsFiles ==
  { Readable(<<Form("other"), UIDMin(1000), UIDMin(500)>>),
    Readable(<<UIDMin(2000)>>),
    Readable(<<Form("other")>>),
    Readable(<<UIDMin(NotANumber), UIDMin(500)>>),
    Unreadable("permission", <<UIDMin(500)>>) }

At(mode, uid) == [error |-> "none", mode |-> mode, uid |-> uid]
Gone(e) == [error |-> e, mode |-> {}, uid |-> 0]
AllRead == {"g+r", "o+r"}
Sticky == {"g+r", "g+w", "g+x", "o+r", "o+w", "o+x", "t"}
SoundTree ==
  [p \in Paths |->
     At(CASE p \in TempDirs -> Sticky
          [] p \in {"/etc/shadow", "/etc/gshadow", "/etc/sudoers"} -> {"g+r"}
          [] OTHER -> AllRead, 0)]
Trees ==
  { SoundTree, [SoundTree EXCEPT !["/etc/sudoers"] = At(AllRead, 0)],
    [SoundTree EXCEPT !["/etc/shadow"] = At(AllRead, 0), !["/etc/passwd"] = At(AllRead, 1000),
                      !["/etc/gshadow"] = Gone("notexist"), !["/tmp"] = At(Sticky \ {"t"}, 0)],
    [SoundTree EXCEPT !["/etc/ssh/sshd_config"] = [At(AllRead \cup {"o+w"}, 0) EXCEPT
                        !.error = "permission"],
                      !["/etc/sudoers"] = At({"g+w"}, 0), !["/etc/group"] = At({"g+w"}, 0),
                      !["/tmp"] = [At(Sticky \ {"t"}, 0) EXCEPT !.error = "permission"],
                      !["/var/tmp"] = At({}, 1000)] }

(* One passwd with each shadow and with each login.defs, and the trees.     *)
Usual(f) == CHOOSE x \in f : x.error = "none"
MCHosts ==
  [passwd : PasswdFiles, shadow : ShadowFiles, defs : {Usual(DefsFiles)}, tree : {SoundTree}]
    \cup [passwd : PasswdFiles, shadow : {Usual(ShadowFiles)}, defs : DefsFiles,
          tree : {SoundTree}]
    \cup [passwd : {Usual(PasswdFiles)}, shadow : {Usual(ShadowFiles)},
          defs : {Usual(DefsFiles)}, tree : Trees]
=============================================================================
