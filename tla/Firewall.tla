------------------------------ MODULE Firewall ------------------------------
(***************************************************************************)
(* How the auditor comes to a verdict on the firewall of a Linux host:      *)
(* CollectLinux asks nft, the legacy tables, /proc, firewalld.conf and      *)
(* ufw.conf one after the other (src/internal/collector/firewall/linux.go), *)
(* and FW-001 weighs what they said (src/internal/rules/firewall.go).       *)
(*                                                                         *)
(* Each read is a step, and between two of them the kernel may be given      *)
(* other rules and processes may come, go and change.  Whether a ruleset    *)
(* filters is what AnalyzeRuleset finds out: see NftAnalysis.               *)
(***************************************************************************)
EXTENDS Integers, Sequences, FiniteSets

CONSTANTS
  Pid,
  Machines,      \* what does not change during an audit: see Machine
  Kernels,       \* the rules the kernel may hold: see Kernel
  Tables,        \* the processes there may be at first: see ProcessTable
  MaxProcesses,
  MaxChanges     \* bound: how often the kernel or a process changes

(* legacy: which of the two files that list the legacy tables can be read,   *)
(* each or none; conf: whether firewalld.conf exists; ufw: the ENABLED      *)
(* settings of ufw.conf in the order of the file, TRUE for "yes"; visible:  *)
(* the processes /proc shows, all of them to root, even with hidepid.       *)
Unreadable == "unreadable"
LegacyFiles == {"v4", "v6"}
Machine == [elevated : BOOLEAN, nft : BOOLEAN, legacy : SUBSET LegacyFiles,
            conf : BOOLEAN, ufw : Seq(BOOLEAN) \cup {Unreadable},
            visible : SUBSET Pid]

(* nft: an nftables input chain filters; v4, v6: the legacy tables.          *)
Legacy == {"none", "accepting", "filtering"}
Kernel == [nft : BOOLEAN, v4 : Legacy, v6 : Legacy]

(* comm is "firewalld" or another name, root says that the real UID is 0.   *)
None == [comm |-> "none", root |-> FALSE]
Process == [comm : {"firewalld", "other"}, root : BOOLEAN]
ProcessTable == [Pid -> Process \cup {None}]

ASSUME InputsAssumption ==
  /\ Machines \subseteq Machine
  /\ \A m \in Machines : m.elevated => m.visible = Pid
  /\ Kernels \subseteq Kernel
  /\ Tables \subseteq ProcessTable
ASSUME BoundsAssumption ==
  Pid \subseteq Nat \ {0} /\ MaxProcesses \in Nat /\ MaxChanges \in Nat

VARIABLES
  machine, kernel, procs, changes,     \* the host
  pc,
  names,         \* a legacy table has been listed
  listing,       \* the entries of /proc still to look at
  candidate,     \* the process whose comm has been read last, or 0
  providers, warned,                   \* the section of the snapshot
  verdict,       \* of FW-001, or Pending
  kernels,       \* history: the rules the kernel has held since the start
  steady,        \* history: what has been root's firewalld since the start
  ran            \* history: what has been root's firewalld at some moment

host == <<machine, kernel, procs, changes>>
history == <<kernels, steady, ran>>
scan == <<listing, candidate>>
vars == <<host, pc, names, scan, providers, warned, verdict, history>>

Pending == "pending"
-----------------------------------------------------------------------------
IsFirewalld(process) == process.comm = "firewalld" /\ process.root

Init ==
  /\ machine \in Machines /\ kernel \in Kernels /\ procs \in Tables
  /\ changes = 0
  /\ pc = "nft"
  /\ names = FALSE
  /\ listing = {} /\ candidate = 0
  /\ providers = {} /\ warned = FALSE
  /\ verdict = Pending
  /\ kernels = {kernel}
  /\ steady = {p \in Pid : IsFirewalld(procs[p])}
  /\ ran = steady

Provider(name, state, verified, authoritative) ==
  [name |-> name, state |-> state, verified |-> verified,
   authoritative |-> authoritative]

Report(p) == providers' = providers \cup {p}
At(from, to) == pc = from /\ pc' = to

(* nft is asked by root only; it may be missing, time out, fail or print     *)
(* something else than its JSON.                                            *)
NftUnknown ==
  /\ At("nft", "list")
  /\ Report(Provider("nft", "unknown", FALSE, FALSE))
  /\ UNCHANGED <<host, names, scan, warned, verdict, history>>

NftRuns == machine.elevated /\ machine.nft

NftFilters ==
  /\ At("nft", "list") /\ NftRuns /\ kernel.nft
  /\ Report(Provider("nft", "enabled", TRUE, TRUE))
  /\ UNCHANGED <<host, names, scan, warned, verdict, history>>

NftOpen ==
  /\ At("nft", "v4") /\ NftRuns /\ ~kernel.nft
  /\ UNCHANGED <<host, names, scan, providers, warned, verdict, history>>

(* Mutant: a file that cannot be read is taken for a missing one.           *)
LegacyUnknownIsMissing ==
  /\ pc \in LegacyFiles /\ pc \notin machine.legacy
  /\ IF pc = "v4" THEN pc' = "v6" /\ UNCHANGED providers
     ELSE /\ pc' = "list"
          /\ Report(IF names THEN Provider("nft", "unknown", TRUE, FALSE)
                             ELSE Provider("nft", "disabled", TRUE, TRUE))
  /\ UNCHANGED <<host, names, scan, warned, verdict, history>>

(* legacyTables reads one file, then the other: an error at either ends it,  *)
(* a missing file is one without tables.                                    *)
LegacyUnknown ==
  /\ pc \in LegacyFiles /\ pc \notin machine.legacy
  /\ pc' = "list"
  /\ Report(Provider("nft", "unknown", TRUE, FALSE))
  /\ UNCHANGED <<host, names, scan, warned, verdict, history>>

ReadLegacyV4 ==
  /\ At("v4", "v6") /\ "v4" \in machine.legacy
  /\ names' = (kernel.v4 # "none")
  /\ UNCHANGED <<host, scan, providers, warned, verdict, history>>

(* Mutant: a host without legacy tables is reported, but not conclusively.  *)
ReadLegacyV6Timid ==
  /\ At("v6", "list") /\ "v6" \in machine.legacy
  /\ names' = (names \/ kernel.v6 # "none")
  /\ Report(IF names' THEN Provider("nft", "unknown", TRUE, FALSE)
                      ELSE Provider("nft", "disabled", TRUE, FALSE))
  /\ UNCHANGED <<host, scan, warned, verdict, history>>

ReadLegacyV6 ==
  /\ At("v6", "list") /\ "v6" \in machine.legacy
  /\ names' = (names \/ kernel.v6 # "none")
  /\ Report(IF names' THEN Provider("nft", "unknown", TRUE, FALSE)
                      ELSE Provider("nft", "disabled", TRUE, TRUE))
  /\ UNCHANGED <<host, scan, warned, verdict, history>>

(* findRootProcess lists /proc once, then reads comm and status of each pid  *)
(* in the order of the directory.                                           *)
Listed == {p \in machine.visible : procs[p] # None}

ListFails ==
  /\ At("list", "ufw")
  /\ warned' = TRUE
  /\ UNCHANGED <<host, names, scan, providers, verdict, history>>

List ==
  /\ At("list", "comm") /\ Cardinality(Listed) <= MaxProcesses
  /\ listing' = Listed
  /\ UNCHANGED <<host, names, candidate, providers, warned, verdict, history>>

(* Mutant: the entry stays on the list.                                     *)
ReadCommAgain == \E p \in listing :
  /\ pc = "comm"
  /\ candidate' = p
  /\ pc' = IF procs[p].comm = "firewalld" THEN "status" ELSE "comm"
  /\ UNCHANGED <<host, names, listing, providers, warned, verdict, history>>

(* A process that has gone is passed over.                                  *)
ReadComm == \E p \in listing :
  /\ pc = "comm"
  /\ listing' = listing \ {p}
  /\ candidate' = p
  /\ pc' = IF procs[p].comm = "firewalld" THEN "status" ELSE "comm"
  /\ UNCHANGED <<host, names, providers, warned, verdict, history>>

(* Mutant: the scan goes on after a find.                                   *)
StatusIsRootGoesOn ==
  /\ At("status", "comm") /\ procs[candidate].root
  /\ Report(Provider("firewalld", "enabled", TRUE, FALSE))
  /\ UNCHANGED <<host, names, scan, warned, verdict, history>>

StatusIsRoot ==
  /\ At("status", "ufw") /\ procs[candidate].root
  /\ Report(Provider("firewalld", "enabled", TRUE, FALSE))
  /\ UNCHANGED <<host, names, scan, warned, verdict, history>>

(* Mutant: the first process of that name decides.                          *)
StatusIsNotRootStop ==
  /\ At("status", "conf") /\ ~procs[candidate].root
  /\ UNCHANGED <<host, names, scan, providers, warned, verdict, history>>

StatusIsNotRoot ==
  /\ At("status", "comm") /\ ~procs[candidate].root
  /\ UNCHANGED <<host, names, scan, providers, warned, verdict, history>>

NotFound ==
  /\ At("comm", "conf") /\ listing = {}
  /\ UNCHANGED <<host, names, scan, providers, warned, verdict, history>>

StatConf ==
  /\ At("conf", "ufw")
  /\ IF machine.conf
     THEN Report(IF machine.elevated
                 THEN Provider("firewalld", "disabled", TRUE, FALSE)
                 ELSE Provider("firewalld", "unknown", FALSE, FALSE))
     ELSE UNCHANGED providers
  /\ UNCHANGED <<host, names, scan, warned, verdict, history>>

(* The last ENABLED setting counts.                                         *)
ParseUFWEnabled(settings) ==
  IF settings = <<>> THEN "unknown"
  ELSE IF settings[Len(settings)] THEN "enabled" ELSE "disabled"

ReadUfw ==
  /\ At("ufw", "judge")
  /\ IF machine.ufw = Unreadable THEN UNCHANGED providers
     ELSE Report(Provider("ufw", ParseUFWEnabled(machine.ufw), FALSE, FALSE))
  /\ UNCHANGED <<host, names, scan, warned, verdict, history>>

(* Mutant: what a configuration file enables is taken to be enabled.        *)
checkFirewallTrusting(ps) ==
  IF \E p \in ps : p.state = "enabled" THEN "PASS"
  ELSE IF \E p \in ps : p.state = "disabled" /\ p.authoritative THEN "FAIL"
  ELSE "SKIP"

checkFirewall(ps) ==
  IF \E p \in ps : p.state = "enabled" /\ p.verified THEN "PASS"
  ELSE IF \E p \in ps : p.state = "disabled" /\ p.authoritative THEN "FAIL"
  ELSE "SKIP"

Judge ==
  /\ At("judge", "done")
  /\ verdict' = checkFirewall(providers)
  /\ UNCHANGED <<host, names, scan, providers, warned, history>>

(* Someone loads other rules.                                               *)
KernelChanges ==
  /\ pc # "done" /\ changes < MaxChanges
  /\ kernel' \in Kernels
  /\ changes' = changes + 1
  /\ kernels' = kernels \cup {kernel'}
  /\ UNCHANGED <<machine, procs, pc, names, scan, providers, warned, verdict,
                 steady, ran>>

(* A process exits, starts, or becomes another: a pid is used again, and a   *)
(* process may change its name and its user.                                *)
ProcessChanges == \E p \in Pid : \E process \in Process \cup {None} :
  /\ pc # "done" /\ changes < MaxChanges
  /\ procs' = [procs EXCEPT ![p] = process]
  /\ changes' = changes + 1
  /\ steady' = steady \ {p}
  /\ ran' = IF IsFirewalld(process) THEN ran \cup {p} ELSE ran
  /\ UNCHANGED <<machine, kernel, pc, names, scan, providers, warned, verdict,
                 kernels>>

Step ==
  \/ NftUnknown \/ NftFilters \/ NftOpen
  \/ LegacyUnknown \/ ReadLegacyV4 \/ ReadLegacyV6
  \/ ListFails \/ List \/ ReadComm \/ StatusIsRoot \/ StatusIsNotRoot
  \/ NotFound \/ StatConf \/ ReadUfw \/ Judge

Done == pc = "done" /\ UNCHANGED vars

Next == Step \/ KernelChanges \/ ProcessChanges \/ Done

(* The collector is one thread; the one command it runs has a timeout.      *)
Spec == Init /\ [][Next]_vars /\ WF_vars(Step)
-----------------------------------------------------------------------------
ProviderType ==
  [name : {"nft", "firewalld", "ufw"}, state : {"enabled", "disabled", "unknown"},
   verified : BOOLEAN, authoritative : BOOLEAN]

TypeOK ==
  /\ machine \in Machines /\ kernel \in Kernels /\ procs \in ProcessTable
  /\ changes \in 0..MaxChanges
  /\ pc \in {"nft", "v4", "v6", "list", "comm", "status", "conf", "ufw",
             "judge", "done"}
  /\ names \in BOOLEAN
  /\ listing \subseteq Pid /\ candidate \in Pid \cup {0}
  /\ pc = "status" => candidate # 0
  /\ providers \subseteq ProviderType
  /\ \A p, q \in providers : p.name = q.name => p = q
  /\ warned \in BOOLEAN
  /\ verdict \in {Pending, "PASS", "FAIL", "SKIP"}
  /\ verdict = Pending <=> pc # "done"
  /\ kernels \subseteq Kernels /\ kernel \in kernels
  /\ steady \subseteq Pid /\ ran \subseteq Pid

Filtered(k) == k.nft \/ k.v4 = "filtering" \/ k.v6 = "filtering"
LegacyLoaded(k) == k.v4 # "none" \/ k.v6 # "none"
Says(name, state) == \E p \in providers : p.name = name /\ p.state = state
Verified(name) == \E p \in providers : p.name = name /\ p.verified

(* A failure of FW-001 is conclusive: only root gets one, and none where one *)
(* of the two lists of legacy tables could not be read; and the kernel did   *)
(* hold rules that filter nothing, if it held the same rules all the time   *)
(* or no legacy table at any time.                                          *)
FailIsConclusive ==
  verdict = "FAIL" =>
    /\ machine.elevated /\ machine.legacy = LegacyFiles
    /\ kernels = {kernel} \/ (\A k \in kernels : ~LegacyLoaded(k))
         => \E k \in kernels : ~Filtered(k)

(* A pass rests on what runs, never on what a file configures: nftables did  *)
(* filter at some moment, or firewalld was seen; and it was there, if the   *)
(* processes did not change.                                                *)
PassIsProven ==
  verdict = "PASS" =>
    \/ \E k \in kernels : k.nft
    \/ Says("firewalld", "enabled") /\ (changes = 0 => ran # {})

(* A skip is not given out of caution: when nft could be asked it means that *)
(* legacy tables were loaded, or one of their lists could not be read.      *)
SkipIsDoubt ==
  verdict = "SKIP" /\ Verified("nft") =>
    machine.legacy # LegacyFiles \/ \E k \in kernels : LegacyLoaded(k)

(* A firewalld of root that is visible and runs all the time is found,       *)
(* whatever other processes do meanwhile, or a warning says that the scan    *)
(* failed; in particular it is never reported as not running.               *)
FirewalldIsFound ==
  /\ pc \in {"ufw", "judge", "done"} =>
       \/ Says("firewalld", "enabled") \/ warned
       \/ steady \cap machine.visible = {}
  /\ verdict = "FAIL" /\ ~warned => steady = {}

(* The collection ends with a verdict.                                      *)
Terminates == <>(verdict # Pending)
-----------------------------------------------------------------------------
(* "Authoritative is true when this provider's view covers all inbound       *)
(* filtering on the host, so a disabled state is conclusive": when the rule *)
(* fails there was a moment at which the kernel filtered nothing.           *)
DisabledIsConclusive ==
  verdict = "FAIL" => \E k \in kernels : ~Filtered(k)

(* "Only a root-owned process counts": what is reported as firewalld         *)
(* running as root was so at some moment.                                   *)
OnlyRootCounts ==
  Says("firewalld", "enabled") => candidate \in ran
=============================================================================
