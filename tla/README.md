# Formal models of the security baseline auditor

`sba` is a read-only command line program.  It collects facts about a host
(accounts, OpenSSH server configuration, firewall, file metadata) into a
*snapshot*, evaluates a fixed catalog of rules against it, and prints a report
with an exit code.  What makes it correct is not speed or throughput but
honesty: it must never call a host compliant because it failed to look, never
claim a failure it cannot prove, and always end, whatever the host it looks at
says and however that host changes while it is being looked at.

This directory holds TLA+ models of the parts where that is hard, TLC
configurations that check them on small instances, and proofs that the TLA+
proof system (TLAPS) checks for every value of the constants.

    tlc -config MCSshdLoad.cfg MCSshdLoad     # one run
    tlapm SshdLoad_proofs.tla                 # one proof module

Paths below are relative to the root of the repository.

## 1. Inventory

The program is one goroutine that runs from the arguments to the exit code, a
second one that turns an interrupt (`os.Interrupt`) into a cancelled context, and, while a
command runs, the goroutines of `os/exec`.  There is no persistent state:
nothing has to be recovered after a crash.  The concurrency that matters is
with the *host*, which changes between any two system calls.

| Component | Source (under `internal/`) | State | Operations | Hard part | What makes it correct |
|---|---|---|---|---|---|
| sshd collector | `collector/sshd` | the loader: files, directives, ignored keywords; the active calls of `parseFile` | `Collect`, `Load`, `parseFile`, `include` | Includes nest, cycle and inherit Match blocks; files vanish between `Stat`, `Glob` and `ReadFile`; unreadable directories look empty | bounded; each directive has its right file, line and Match label; a collected section is complete; anything else carries no data |
| nftables analysis | `collector/firewall/nftables.go` | tables, chains, rules, set of visited chains | `AnalyzeRuleset`, `reachesDrop`, `scanExpr` | jumps in circles; objects in any order; a depth cut combined with a visited set | ends; every filtering chain is real; none is missed, because an empty answer becomes a conclusive FAIL |
| Linux firewall collector, FW-001 | `collector/firewall/linux.go`, `rules/firewall.go` | providers, warnings | nft, legacy tables, `/proc` scan, two configuration files, the verdict | five reads of a host that changes in between, each with its own way to fail | FAIL is conclusive, PASS is proven, SKIP means doubt |
| command line, collection order, engine | `cli`, `collector`, `engine/engine.go` | the snapshot, the findings, the exit code | `audit`, `snapshot`, `rules list`; `Collect`; `Evaluate`, `safeCheck`, `exitCode` | interrupts, panics in checks, output errors, baselines that select and exclude | the exit code agrees with the report; the report is whole; missing data never passes |
| rules on sshd | `rules/ssh.go`, `model/sshd.go` | none | `sshRules`, `Global`, `Conditional` | OpenSSH's first-value-wins, Match blocks, defaults, PAM | PASS means that no set of matching blocks makes the value bad |
| accounts and their rules | `collector/accounts`, `rules/accounts.go` | none | parse passwd, shadow, login.defs; five checks | malformed lines, unreadable shadow | skipped lines are told; nothing unreadable passes |
| file metadata and its rules | `collector/files`, `rules/files.go` | none | `Stat` of a fixed list; two kinds of checks | some of several paths fail | PASS only when every path was seen |
| baseline files | `baseline` | none | `Load`, `Parse` | size check and read are two calls; strict YAML subset | accepts exactly what the catalog knows |
| summary and score | `engine/engine.go` | none | `sortFindings`, `summarize` | rounding | 100 only without a failure |
| command execution | `platform/exec*.go` | two buffers with a limit | `Run` | exit, timeout, cancellation, full buffer and open pipes race | always returns; an over-long output is an error |
| file access | `platform/osfs*.go` | none | `Stat`, `ReadFile`, `Glob`, ... | I/O below the interface `FS` | errors are classified |
| host information | `collector/hostinfo` | none | reads a few files | none: no decision depends on it | - |
| Windows firewall | `collector/firewall/windows*.go` | none | `EvaluateWindows` | I/O except for one pure function | a profile that is off fails |
| report writers | `report` | none | JSON and text | layout and escaping | written whole or exit code 3 |
| data model, catalog | `model`, `rules/catalog.go`, `rules/rule.go` | none | types, `Validate` | none | unique, valid rule IDs |
| version, test doubles, examples, documents | `version`, `platform/platformtest`, `configs`, `docs` | none | none | none | - |

How they interact: `cli` parses the arguments and loads the baseline, calls
`collector.Collect`, which calls one collector after the other and stores what
each returns in its section of the snapshot; `engine.Evaluate` runs the check
of each selected rule on the finished snapshot; the writer prints the report;
`engine.ExitCode` ends the run.  Sections are written once and then only read.
Collectors reach the host only through the interfaces `platform.FS` and
`platform.Executor`.

`PROJECT.json` lists, under `hazards`, what in this code is hard to test, each
at its line, with the properties that look after it.

## 2. What is modelled

### `SshdLoad`: resolving the sshd configuration

`parseFile` and `include` call each other recursively.  The module writes the
recursion out as a stack of frames (`stack`), so that one step is one line of a
file or one call of the filesystem, and `DiskChanges` can come between any two.

| Model | Code |
|---|---|
| `NextLocation`, `StatFails`, `StartLoad`, `NoLocation` | the loop of `Collect` over the candidate files |
| `ParseMain`, `ParseMatch` (by `parseFile`) | the head of `parseFile`: limits, `ReadFile`, entry in `cfg.files` |
| `BlankLine` ... `DirectiveLine`, `TooManyDirectives` | one turn of the loop over lines |
| `IncludeLine`, `IncludeRejected`, `Probe`, `GlobFails`, `Glob` | `include`: the checks, the probe of the directory, `Glob`, the file limit |
| `Return`, `Loaded`, `Fail` | the returns; every error unwinds the recursion and leaves no data |
| `content`, `disk` | what the host answers |

A line is what `tokenizeLine` makes of it (blank, malformed, unknown keyword,
directive, Match, Include); the bytes are abstracted away.  What files say
(`content`) is fixed in a behaviour while existence, permissions and directory
listings (`disk`) may change.

`SshdSection` is the abstract specification: the section is published once; on
a disk that does not change it is *the* resolution of the configuration, and it
is never partial.  `SshdReference` defines that resolution without stack,
line counter or program counter, as functions from an `Account` (what has been
read so far, or the error that ended the reading) to an `Account`:

| Model | Code |
|---|---|
| `LineMeaning`, `PatternMeaning`, `FileMeaning` | one line of `parseFile`, one call of `include`, one call of `parseFile`; `InTurn` applies the functions of a sequence one after the other, and nothing changes an account that has stopped |
| `Meaning` | the recursion, on the depth: a file with `n` levels below it, nothing but the error `TooDeep` for none |
| `ContextAt` | the parameter `match`, found by looking back for the last Match line of the file |
| `MainFile`, `Expansion`, `Resolution` | `Collect` and `Load` |

A `Reading` also has the criteria of *all* the Match blocks around a directive
(`under`), which the collector does not keep and sshd needs.  `KeepsPromise`
states that `SshdLoad` implements `SshdSection` with this resolution.

### `SshdRules`: what the rules say of the sshd configuration

Operators, no state: `Global`, `Conditional` and the nine checks of
`rules/ssh.go`, applied to a published section.  The arguments of a directive
are one member of a small set with three readings: a word in lower case
(`Lower`), a number or none (`Atoi`), a list of algorithms (`Algorithms`).
`Effective` is written from sshd's side: the first value in a block that matches
the connection, else the first outside every block, else a default.  `Harmful`
says that a connection matching the blocks `S` is served in the way a rule
forbids; the properties quantify over every set `S`, so no order of blocks and
no overlap is left out.  Each of the three keywords with algorithms has a list of
weak ones of its own (`weakAlgorithms`).  `MCSshdLoad` evaluates them on every section that
`SshdLoad` publishes, and, in `PassHoldsForFiles`, on what sshd itself would
read from the same files (`ReadBySshd` in `SshdReference`): collector and rules
composed, from the files to the verdict.

### `NftAnalysis`: does a ruleset filter

A ruleset is the sequence of objects in the JSON of `nft`.  Reading it
(`ReadTable`, `ReadChain`, `ReadRule`, `ReadOther`, `ReadFails`) fills the maps
of `AnalyzeRuleset`; then each chain in document order is passed over, accepted
for its policy, or searched.  The search is `reachesDrop`, again as a stack:
`VerdictRule`, `OtherRule`, `PassTarget`, `FollowTarget`, `ReturnFalse`,
`NotFound`.  `entered` is history: the chains the search has entered, in order,
which no action reads.  `scanExpr`, which walks the JSON of a rule, is the set of drops and
jumps it can meet with the depth of each.  `MaxExprDepth` is the constant
`maxExprDepth`, 64 in the code.

### `Firewall`: from the reads to the verdict of FW-001

Each read of `CollectLinux` is a step.  `KernelChanges` loads other rules and
`ProcessChanges` starts, ends, renames or replaces a process between two of
them.  History variables (`kernels`, `steady`, `ran`) remember what the host
was like, so that the properties can compare the verdict with the truth; no
action of the collector reads them.  Whether a ruleset filters
(`kernel.nft`) is what `NftAnalysis` is about.  The two lists of legacy tables are
read one after the other, and either may be unreadable (`machine.legacy` holds those
that are not): `LegacyUnknown` is the error at the first or the second, a missing
file is a list without tables.  `List` takes the listing of
`/proc` as one atomic read; reads of `comm` and `status` are separate steps.
A process that has gone by the time of the second read is like one that is not
root's: the scan goes on.

### `LinuxFacts`: accounts, file metadata and their rules

`ReadPasswd`, `ReadShadow` and `ReadDefs` are the three reads of
`collector/accounts`, `Stat` is one turn of the loop of `collector/files`, and
`HostChanges` may edit one database or change the paths between any two of them.
`host` is one of `Hosts`: passwd, shadow, login.defs and the metadata of the
paths.  `ParsePasswd`, `ParseShadow` and `ParseUIDMin` are the parsers on lines
that are already split.  The twelve checks are operators on the finished sections.

`always` and `ever` are history: the weaknesses the host has had at every moment
(`Weak`), and what a rule could blame at some moment (`Blame`, which counts the
empty password of an account that only `/etc/shadow` knows).  Both are defined
from the titles of the rules and the truth about the host (`WeakAccounts`,
`OddLines`, `WeakFiles`), not from what was parsed or what the table of the rules
forbids.  `Ask` is what the title of a rule asks of the mode of a path; only for
FILE-005 does the code forbid more than that, and `OpenSudoers` tells such a host
apart.  An empty password is told
by the file it is in: the two files are read one after the other, and a password
that is empty in one and then in the other is two weaknesses, not a lasting one.
`edited` remembers which files changed between the reads of passwd and
login.defs, from which USER-005 puts its verdict together.

### `ExecRunner`: running a command

| Model | Code |
|---|---|
| `Resolve`, `StatProgram`, `Walk` | `checkTrustedBinary` |
| `Start`, `Reap`, `MeetWatcher`, `AwaitCopiers`, `AwaitExpires`, `AwaitClosed` | `cmd.Run` as `Run` uses it (package `os/exec`, external) |
| `WatchCancel`, `WatchExpires`, `WatchCloses` | the goroutine of `os/exec` that kills the child and, after `WaitDelay`, closes the pipes (external) |
| `Copier`, `Copied`, `ReadFrom`, `Write` | the goroutines that copy a stream into a `limitedBuffer`, and its two methods |
| `Judge` | the rest of `Run` |
| `UserChanges`, `ChildWrites`, `ChildForks`, `ChildExits`, `HeirExits` | users who rename files where they may; a child that does what it likes and leaves a descendant with its pipes |

The names from the binary to the root are looked at one after the other, and
users may change the filesystem between any two looks.

### `Audit`: one run of the program

`Start` to `FinishWrite` follow `App.Run`, `audit`, `baseline.Load` and `Parse`,
`collector.Collect`, `engine.Evaluate` and `summarize`.  `StatBaseline` and
`ReadBaseline` are the two calls that name the baseline file; each may meet
another file.  A document (`Documents`) is what the YAML decoder delivers:
whether it decodes is a Boolean, the rest is validated by `errs`.  What a
collector returns and what a check answers are inputs: a check may return a
status, panic, or return something that is no status.  `Interrupt` cancels the
context at any moment; `Panic` is one outside the checks, caught by the deferred
recover in `App.Run`; `WriteFails` is an output error.  `Summarize` is one turn
of the loop that adds up weights, `Percent` the rounded score.  Findings are a
set, and the weights are added up in the order of the catalog: the order of
`sortFindings` is not modelled, and a sum does not depend on it.

## 3. What the runs show

| Run | Question | Size and bounds |
|---|---|---|
| `sshd_load` | Does the collector keep the limits, label Match blocks and evidence correctly, lose nothing, keep the promise of `SshdSection`, and end?  Does no rule pass, or fail, against what sshd makes of the section and of the files? | 279 configurations of two main files and two drop-ins (225 that include each other and themselves, 54 for the rules), ten disks, one change of the disk anywhere; limits 4 files, depth 2, 3 directives; values that are bad, good, numbers on both sides of the limit, no number, lists with signs |
| `sshd_wild` | *Violated*: is a collected configuration complete where the auditor is denied each directory that hides files? | the 225 configurations and the ten disks, no change of the disk |
| `sshd_empty_match` | *Violated*: is no directive of a Match block taken for a global one? | main file `Match ""` and a setting |
| `nft_analysis` | Does the search end, enter no chain twice, invent no filtering and miss none (verdict maps aside)? | every graph of four chains from seven kinds of rule lists (loops, diamonds, too deep), one or two base chains; dormant tables, other families and hooks, broken JSON; verdict maps that drop, jump or do nothing, named where packets get to and where they do not; depth bound 2 |
| `nft_maps` | *Violated*: are drops in named verdict maps found? | the same rulesets |
| `firewall` | What does each verdict of FW-001 prove about a host that changes? | three pids of which two fit a listing, six machines (with either list of legacy tables unreadable), five kernels, two changes anywhere |
| `firewall_switch` | *Violated*: does FAIL mean that the host was open at some moment? | the same hosts |
| `firewall_scan` | *Violated*: was what is reported as firewalld running as root ever so? | the same hosts |
| `audit` | Do exit code, report and score agree, on every command line and baseline file, and is an interrupt honoured? | two rules that differ in severity, section and platform; thresholds none, LOW and CRITICAL; five accepted baseline documents and eleven refused ones, files that cannot be read or that others may write; all statuses of a section; five behaviours of a check; one interrupt and one panic anywhere |
| `exec` | Does `Run` always return, hand on whole output only, tell a kill, leave nothing behind and run only what users cannot change? | one program behind at most one link, six filesystems (sound, shared at each level, owned by a user, not a file), two renames anywhere; output of up to 3 and 1 units; a descendant that keeps the pipes |
| `exec_limit` | *Violated*: is captured output bounded? | as above; limits 2 and 0 |
| `linux_facts` | Is a weakness that is there all along reported, and every FAIL founded? | six versions of passwd, five of shadow, five of login.defs (malformed lines, duplicate and zero IDs, empty and hashed passwords, unreadable files), four trees of paths, with and without privileges; each passwd with each shadow and with each login.defs; two changes anywhere |

Why the bounds are enough to be interesting.  Every limit of the code is small
enough to be hit: files that include each other exceed depth 2, four files and
three directives each end some runs and not others; in `NftAnalysis` the depth
bound 2 cuts chains of four.  One change of the disk between any two calls
reaches each race of two calls (a file gone between `Glob` and `ReadFile`, a
directory that becomes unreadable between probe and `Glob`).  Two changes of
the host suffice to move filtering from legacy tables to nftables and back and
to reuse a pid behind the back of the scan.  Two rules are enough to tell the
verdict on one from the verdict on another: the properties of `Audit` relate at
most two findings.  Output of 3 against a limit of 2, and of 1 against 0, hits
both sides of each limit.  `linux_facts` needs
two changes: one each of passwd and login.defs make USER-005 fail for a shell
and a `UID_MIN` that never were on the host together, and one each of shadow and
passwd move an empty password behind the back of the collector.  Both happen in
the run: without its disjunct about USER-005 in `FailIsFounded`, or with an empty password
that is not told by its file, the property is violated.

The passing runs check deadlock as well: every behaviour can go on until its
`done`.

Fairness.  `SshdLoad`, `NftAnalysis`, `Firewall` and `Audit` have `WF_vars(Step)`
and nothing else: the program is one goroutine that never waits for another; its
reads return, and the commands it starts have a timeout, as `exec` shows.
`ExecRunner` has weak fairness on the goroutine of `Run`, on the watcher, on each
copier (goroutines that can go on are scheduled) and on `Deadline` (time passes,
and every context that reaches `Run` has a timeout).  The environment
(`DiskChanges`, `KernelChanges`, `ProcessChanges`, `HostChanges`, `UserChanges`,
the child and its descendant, `Interrupt`, `Panic`) has no fairness: a child may
run, or hold its pipes, for ever.  How often the host changes is bounded
(`MaxChurn`, `MaxChanges`); termination does not lean on that, since no change
undoes a step.  `LinuxFacts` states no liveness and has no fairness: it is a loop
over a fixed list.

Every property of a passing run is broken by a mutant of the code, given in
`PROJECT.json` and defined beside the action it replaces, for example an
included file that starts in the global section, a scan that stops at the first
namesake, an ERROR forgiven below the threshold.

### Where the code disagrees with its words

Each is a violated run; `PROJECT.json` quotes the sentence.

1. `sshd_wild` (code bug): the probe that keeps an unreadable drop-in directory
   from looking empty is skipped if the directory part of the pattern has a
   wildcard, so `Include /etc/ssh/*.d/*.conf` may silently lose files and the
   section still says it is complete.  The run supposes that the auditor is
   denied whatever hides a file (`DeniedOnly`), so nothing else can lose one.
2. `sshd_empty_match`: `Match ""` is labelled like the global section, which
   the comment on the field reserves for directives outside every block.
3. `nft_maps`: a drop in a verdict map referred to by name (`vmap @m`) is not
   found, though the comment says the walk covers maps.  The kernel holds such
   rulesets, so an authoritative "disabled" may be wrong of them.
4. `firewall_switch`: "disabled" is called conclusive, but the three reads it
   rests on are of three moments.
5. `firewall_scan`: name and owner of a process are two reads, of perhaps two
   processes.
6. `exec_limit` (code bug): `limitedBuffer` embeds `bytes.Buffer` and with it its
   `ReadFrom`, which `io.Copy` prefers to `Write`; the limit is tested in `Write`
   alone and so never.  Output is bounded by nothing, and "too large" is never
   returned.

More disagreements have no run of their own.  Each is named where a property has
to step around it:

- The result of the probe is looked at for a permission error only
  (`collector/sshd/parse.go:140`).  Any other error, an I/O error for one, lets
  `Glob` go on, which finds nothing in that directory, and the section is
  collected without its files, against the comment above it.  The ten disks hold
  such a one, which `Probed`, the premise of `CompleteWhereProbed`, rules out.
- A bad value inside a Match block fails a rule "because it applies to every
  connection matching that block" (`rules/ssh.go:74-75`), also where an earlier
  directive of the block sets the same keyword and the bad value applies to none:
  the first exception of `SshdRules!FailIsFounded`.
- FILE-005 is titled "owned by root and not writable by others"
  (`rules/files.go:152`), and fails for an `/etc/sudoers` of root's that others may
  only read, since `rules/files.go:161` forbids `0o027`; its remediation,
  `chmod 0440`, asks more than the title.  It is the last exception of
  `LinuxFacts!FailIsFounded`, and one of the trees of the run is such a host.
- USER-002 and USER-005 pass without naming a line of `/etc/passwd` that did not
  parse, against the comment at `rules/accounts.go:27`; `WeaknessIsReported` holds
  for them because it asks only the rules whose evidence names lines (`OddLines`).
- FILE-007 passes over a temporary directory that could not be inspected when the
  other could be.

`CompleteWhereProbed`, `NoFilteringMissed`, `FailIsConclusive`, `PassIsProven` and
the two properties `FailIsFounded` state what does hold instead: the premise that
excludes the disagreement is spelled out in each.

## 4. What is proved

TLAPS proves the following for every value of the constants, hence for files,
directives, accounts, chains, processes and changes of the host in any number.

| Module | Theorems | Assumptions beyond the types of the constants |
|---|---|---|
| `SshdLoad_proofs` | `TypeCorrect`, `LimitsAreKept`, `ScopesNestAsFilesDo`, `DirectivesComeFromFiles`, `GlobalSettingsAreGlobal`, `NoDirectiveIsLost`, `NoFileIsHidden`, `EveryStepCounts` | the three about labels, `ScopesNestAsFilesDo` to `GlobalSettingsAreGlobal`: `CriteriaAreNotEmpty`, no Match line joins to the empty string |
| `SshdRules_proofs` | `PassesAreSafe`, `FailuresAreFounded` | none: any list of directives, any set of blocks that match |
| `SshdReference_proofs` | `SectionIsTheOneDue`, `CollectorKeepsItsPromise`, `NothingIsHidden`, `PassesHoldForFiles` | the last: `CriteriaAreNotEmpty` |
| `NftAnalysis_proofs` | `TypeCorrect`, `SearchesAreBounded`, `FilteringFoundIsReal`, `NoFilteringIsMissed` | nft lists a chain once (`DocumentsAssumption`); the last: `FromKernel` and `NoMapBehind`, premises of the property itself |
| `Audit_proofs` | `TypeCorrect`, `GapsNeverPass`, `ReportsAreWhole`, `ExitCodesAreHonest`, `ScoresAreHonest`, `ConfigurationsAreObeyed` | the catalog lists each rule once (`CatalogAssumption`); `ScoresAreHonest`: at most 24 rules (`CatalogSize`), the code has 22 |
| `Firewall_proofs` | `TypeCorrect`, `FailuresAreConclusive`, `PassesAreProven`, `SkipsAreDoubts`, `DaemonsAreFound` | root sees every process (`InputsAssumption`) |
| `ExecRunner_proofs` | `OnlyTrustedRuns`, `TypeCorrect`, `SuccessesAreWhole`, `KillsAreTold`, `NothingIsLeftBehind` | the names form a tree (`TreeAssumption`); a directory is no link at first (`InputAssumption`) |
| `LinuxFacts_proofs` | `TypeCorrect`, `LastingWeaknessIsReported`, `FailuresAreFounded` | none: any set of hosts, any number of changes |

`CriteriaAreNotEmpty` is exactly what finding 2 violates.  `FromKernel` says
that jumps do not go in circles and nest at most `MaxExprDepth` deep, and that
the JSON of a rule is no deeper: the kernel refuses loops and more than 16
nested jumps, the code allows 64.  Without it the result would be false: a
chain first reached too deep would be marked as visited and never searched
where it is within reach.

Rulesets of the kernel may name verdict maps, whose verdicts `nft` prints as
objects of their own and the code passes over.  `NoFilteringMissed` counts them
(`FiltersAtAll`), and so can only be claimed of a chain from which the jumps
written in rules lead to no rule that names a map (`NoMapBehind`); lemma
`NoMapsNeeded` is that such a chain filters as it would without maps.  What is
lost otherwise is finding 3.

`CatalogSize` keeps the weights below 200, at 8 for each rule.  Above that,
rounding would turn 199 of 200 into 100 and hide a failure; `Rounding` is the
lemma about the quotient.

The inductive invariants:

- *sshd*: `Invariant` is `TypeOK`, `LimitsHold`, `MatchScope` and
  `DirectivesAreFaithful` together.  `MatchScope` is the strengthening: to know
  the label of a directive one has to know the label of the active call, which
  after an Include returns is that of the caller, so the invariant speaks of
  every frame of the stack and of the one below it.
- *sshd, completeness*: `Lossless` is an invariant of the traversal.  Every line
  of every file entered is done with (`Honoured`) or still before some active
  call of that file (`Open`); a call in the middle of an Include line has each
  pattern before it, or the files of the pattern read or before it (`Underway`).
  When the outermost call returns no line is open, so nothing is lost.  It holds
  for files that are read several times and include themselves, and needs no
  assumption on the graph of includes.
- *sshd, the end*: `Ahead` is what a load still has before it, seven natural
  numbers: the phase, the locations not tried, the files `MaxFiles` still allows,
  the active calls, the lines of the topmost one, the patterns of its line, and
  whether the next of them has yet to be probed.  Each step makes it less in the lexical order
  (`StepShrinks`), which is well founded (`NoEndlessDescent`), and the disk does
  not touch it.  `EveryStepCounts` says so: however the files include each other
  and are changed, a load makes a finite number of steps.
- *sshd, the machine and the recursion*: `OnItsWay` says that, as long as the
  disk stays as it was, the section that is due is what comes out when the rest
  is done on what `cfg` holds.  The rest of one active call is `RestOf`: the
  functions of the matches it has not parsed, of the patterns it has not
  expanded and of the lines below, applied in turn; `Continues` composes the
  rests of all the calls of the stack, each at its depth and in the context of
  the Include that led to it, and `OnTrack` and `Doing` apply the result to the
  account that `cfg` tells (`Tells`).  Each action takes one function off the
  front of the rest and does it (`LineCarried`, `PatternCarried`,
  `MatchCarried`, `EndCarried`), or ends with the error that all the rest leaves
  alone.  When the stack is empty there is no rest, and `cfg` is what was due.
  This is the refinement of `SshdSection`.
- *sshd, from the files to the verdict*: two worlds that differ only behind
  patterns whose probe is denied mean the same (`Alike`, `AlikeMeanings`), which
  gives `NothingIsHidden`.  What sshd reads for one connection is a `Part` of
  the section: the same global settings, and of the conditional ones some
  (`TakenIsPart`).  The rules look at nothing else, so a PASS for the section is
  a PASS for the part (`PartPasses`), and the lemmas of `SshdRules_proofs`
  finish.
- *nftables*: layers that rest on each other.  `ReadOK` relates
  what has been read to the document.  `BoundOK` is that a chain entered is a
  visited one and stays so, which is why none is entered again when its call has
  returned.  `SearchOK` says that all that a search
  enters can be got to (this gives `FilteringIsReal`).  `HeightOK` bounds the
  depth of a call by the height of its chain, so no search of a kernel's
  ruleset is cut.  `DoneOK` is the classic invariant of depth-first search: a
  chain that has been entered and is no longer active has no drop, and its
  targets have been entered.  When the stack is empty, the visited chains are
  closed under jumps, hence all that can be reached.
- *firewall*: `KernelOK` relates what the reads saw to the history of the
  kernel, `ProvidersOK` what each provider claims to that history, `OrderOK`
  that nobody reports twice, `ScanOK` that a steady firewalld is still on the
  list until it is found, `VerdictOK` the verdict to the providers.
- *audit*: `ProgressOK` says what has not been done yet at each place,
  `FindingsOK` that what has been found is what each rule of the first part of
  the catalog says of the snapshot and the baseline, which no later step changes
  (`Kept`), `TallyOK` that the weights added up so far are positive exactly if a
  finding of weight among those rules passed, or failed, and `EndOK` ties the
  exit code to the findings.  `BaselineFromFile` says that the baseline in use is
  what `Parse` made of a document it accepted; `ConfigIsObeyed` follows from it
  and `FindingsOK` by what acceptance means (`AcceptedMeans`).
- *sshd rules*: the rules are operators, so `TypeOK` is all the induction there
  is.  The argument is `SaidIsEffective`: what `Global` and `Conditional` answer
  to a rule contains the value that counts for every set of blocks a connection
  may match, or the default.
- *accounts and files*: `Inv` has a part per section.  `PasswdFaithful` and
  `ShadowFaithful` say that a lasting weakness shows in what has been read and
  that what was read was to blame at the moment it was read; `FilesFaithful` says
  the same of each path.  `ShellsFaithful` is about USER-005, whose two files are
  read at two moments: while login.defs is unread, either file is still what it
  was when passwd was read, or is in `edited`.
- *command execution*: of the names above a program that users can change, the
  topmost stays one whatever they do, because all above it is out of their
  reach; `Walk` meets it, and so has passed every name only if there is none.
  `ProcessOK` says which processes and goroutines there are at each place,
  `ErrorsOK` what the error says of the exit, and `StreamsOK` is the
  strengthening for the output: a copier that ended without having read
  everything was cut off, and whatever cuts one off (`Forced`) is, or becomes, an
  error.

Each proof has one lemma or step per action; the theorems combine them with
`PTL`.

The first global directive of a name and the last `UID_MIN` of a file are a
`CHOOSE` of a least or greatest position.  That such a position exists needs
induction, and the library's rules for it take an operator.  Well-foundedness is
stated about sets instead (`NatLessThanWellFounded`, `WFMin`), and gives the least
element of a set of positions (`LeastExists`), and so the last one (`LastExists`).
The recursions of `SshdReference` are functions on `Nat` whose solutions have to
exist before anything can be said of them: finite pieces of a solution exist and
agree (`PieceExists`, `PiecesAgree`), so a whole one does (`SolutionExists`), and
`InTurnRuns` and `MeaningSolves` say what it satisfies.

Checked with TLC only: liveness (`Terminates`, `InterruptIsHonoured`), which the
prover does not handle under fairness.  Of `Terminates`, `EveryStepCounts` proves
what is no matter of fairness: the collector cannot take steps for ever.  That it
takes the next one while it can is the assumption `WF_vars(Step)`, and putting the
two together is what stays with TLC.  `NoFileIsHidden` is weaker than
`NothingIsHidden` in what it concludes, but it only asks the probe of patterns in
files that were read.  The invariants that are violated (the findings above)
are of course not proved.

## 5. What the models leave out

- `SshdLoad`: tokenizing and quoting of a line; the text of warnings.  A file's
  contents do not change during a collection, its presence and readability do.
- `NftAnalysis`: JSON decoding (one bad object stands for any error), names and
  handles in the output.
- `Firewall`: the whole listing of `/proc` is one moment; a read of a live,
  visible process succeeds; the kernel's nftables ruleset is reduced to whether
  it filters; the text of evidence.
- `SshdRules`: evidence and messages.  `FailIsFounded` asks each of the nine rules
  for the connections it fails for, and leaves two false alarms out.  All that a
  rule holds against the configuration may be directives of Match blocks that an
  earlier one of a block with the same criteria makes ineffective (the
  disagreement about `rules/ssh.go:74-75` in section 3).
  And SSH-009 takes an algorithm for enabled although another item of the same
  list, with a "!", excludes it; whether sshd accepts such an item in these lists
  is not for this repository to say.
- `LinuxFacts`: splitting lines, home directories and group numbers, whether a
  path is a symbolic link (told in the evidence only).  Of a host that changes
  while it is read, two things are not claimed because they do not hold: that an
  account which had an empty password all along, first in shadow and then in
  passwd, is reported, and that a FAIL of USER-005 was ever true if both of its
  files were edited between the reads.
- `ExecRunner`: the guard for relative names, which is a programming error; more
  than two links in a row, and at first no directory is a link; `EvalSymlinks` is
  one moment.  The build for systems
  other than Unix returns an error.  `os/exec` is external code, modelled from
  how `Run` sets it up.
- `Audit`: the order of findings, the cap on evidence, counts by status and
  severity; YAML decoding; `rules list` and the help text are writes like the
  report.  Between `Stat` and `Read` the baseline file may be replaced by one that
  others can write; this is modelled, and nothing is claimed of it.
- Not modelled.  Windows firewall: `EvaluateWindows` is a pure function of seven
  values that table tests cover in full, and the rest is registry I/O.  Host
  information: text for the heading.  Report layout and escaping: formatting.
  Version, test doubles, configuration and documents: no behaviour.

## 6. Plan

Done, in this order: `SshdLoad` with `SshdSection` and `SshdReference`,
`NftAnalysis`, `Firewall`, `SshdRules`, `ExecRunner`, `LinuxFacts`, `Audit` with
the baseline file and the score, the proofs of all seven, and the refinement of
`SshdSection`, for which `SshdReference` was rewritten as functions.

Left: the remaining part of the engine, which is the order of findings and the
cap on evidence.
