------------------------------ MODULE SshdLoad ------------------------------
(***************************************************************************)
(* How the auditor resolves the OpenSSH server configuration               *)
(* (src/internal/collector/sshd): Collect tries the candidate main files   *)
(* in order, Load expands the first one that exists, and every Include is  *)
(* parsed in place, recursively.  The recursion of parseFile and include   *)
(* is written out as a stack of frames so that each step is one line of a  *)
(* file or one filesystem call, and the disk may change between two calls. *)
(*                                                                         *)
(* A line is what tokenizeLine makes of it; file names, keywords,          *)
(* arguments, Match criteria and Include patterns are opaque values.       *)
(***************************************************************************)
EXTENDS Integers, Sequences

CONSTANTS
  File,          \* names of configuration files
  Locations,     \* the main files Collect tries, in priority order
  Pattern,       \* Include patterns, already joined with configDir
  Tilde,         \* the patterns that start with "~"
  Malformed,     \* the patterns filepath.Glob rejects
  WildDir,       \* the patterns with a wildcard in their directory part
  Keyword,       \* the keywords sshd documents
  Arg,           \* argument lists of a directive
  Criteria,      \* what the arguments of a Match line join to
  Global,        \* the label "" of a directive outside every Match block
  Contents,      \* the contents the files may have
  Disks,         \* the states the filesystem may be in
  MaxFiles, MaxDepth, MaxDirectives,
  MaxChurn       \* bound: how often the disk changes during a collection

ErrorClass == {"permission", "notexist", "io"}
Outcome == {"ok"} \cup ErrorClass

Line == [kind : {"blank", "bad", "unknown"}]
          \cup [kind : {"directive"}, keyword : Keyword, args : Arg]
          \cup [kind : {"match"}, criteria : Criteria]
          \cup [kind : {"include"}, patterns : Seq(Pattern)]

(* What platform.FS answers: Stat and ReadFile of a file, ReadDirNames of   *)
(* the directory of a pattern, and Glob of the pattern.  "there" is what    *)
(* the directory really holds, whether or not Glob can see it.              *)
Disk == [stat : [File -> Outcome], read : [File -> Outcome],
         probe : [Pattern -> Outcome],
         listing : [Pattern -> Seq(File)], there : [Pattern -> Seq(File)]]

ASSUME LocationsAssumption == Locations \in Seq(File)
ASSUME PatternAssumption ==
  /\ Tilde \subseteq Pattern
  /\ Malformed \subseteq Pattern
  /\ WildDir \subseteq Pattern
ASSUME ContentsAssumption == Contents \subseteq [File -> Seq(Line)]
ASSUME DisksAssumption == Disks \subseteq Disk
ASSUME LimitsAssumption ==
  /\ MaxFiles \in Nat /\ MaxDepth \in Nat /\ MaxDirectives \in Nat
  /\ MaxChurn \in Nat

VARIABLES
  content,       \* what each file says; fixed during a behaviour
  disk,          \* the state of the filesystem
  churn,         \* how often the disk has changed
  loc,           \* the candidate location Collect is at
  pc,            \* "collect", "load", "glob" (both inside Load) or "done"
  stack,         \* the active calls of parseFile, the outermost first
  cfg,           \* loader.cfg
  section        \* the section of the snapshot, or Pending

env == <<content, disk, churn>>
vars == <<content, disk, churn, loc, pc, stack, cfg, section>>
-----------------------------------------------------------------------------
Label == Criteria \cup {Global}

Directive == [keyword : Keyword, args : Arg, file : File,
              line : Nat \ {0}, match : Label]

Config == [files : Seq(File), directives : Seq(Directive), ignored : Nat]

EmptyConfig == [files |-> <<>>, directives |-> <<>>, ignored |-> 0]

(* One call of parseFile: the line it is at, the value of its parameter     *)
(* match, the patterns of the current Include line it has not expanded and  *)
(* the matches of the current pattern it has not parsed.                    *)
Frame == [file : File, at : Nat \ {0}, match : Label,
          patterns : Seq(Pattern), matches : Seq(File)]

NewFrame(f, match) ==
  [file |-> f, at |-> 1, match |-> match, patterns |-> <<>>, matches |-> <<>>]

Unavailable(status) == [status |-> status, data |-> EmptyConfig]
CollectedSection(c) == [status |-> "collected", data |-> c]
Pending == Unavailable("pending")

classify(err) == IF err = "permission" THEN "permission_denied" ELSE "failed"

Top == stack[Len(stack)]
Replaced(frame) == [stack EXCEPT ![Len(stack)] = frame]
Lines == content[Top.file]
Current == Lines[Top.at]

(* Between two lines, at a line of the given kind.                          *)
AtLine(kind) ==
  /\ pc = "load" /\ stack # <<>>
  /\ Top.patterns = <<>> /\ Top.matches = <<>>
  /\ Top.at <= Len(Lines)
  /\ Current.kind = kind

AdvanceOnly == stack' = Replaced([Top EXCEPT !.at = @ + 1])
-----------------------------------------------------------------------------
Init ==
  /\ content \in Contents
  /\ disk \in Disks
  /\ churn = 0
  /\ loc = 1
  /\ pc = "collect"
  /\ stack = <<>>
  /\ cfg = EmptyConfig
  /\ section = Pending

(* Every error inside Load unwinds the whole recursion; Load then returns   *)
(* an empty configuration and Collect classifies the error.                 *)
Fail(err) ==
  /\ pc' = "done"
  /\ stack' = <<>>
  /\ cfg' = EmptyConfig
  /\ section' = Unavailable(classify(err))
  /\ UNCHANGED <<env, loc>>

(* Mutant: the loop over the locations looks at the same one again.         *)
NextLocationStays ==
  /\ pc = "collect" /\ loc <= Len(Locations)
  /\ disk.stat[Locations[loc]] = "notexist"
  /\ UNCHANGED vars

(* Collect: the location at hand does not exist.                            *)
NextLocation ==
  /\ pc = "collect" /\ loc <= Len(Locations)
  /\ disk.stat[Locations[loc]] = "notexist"
  /\ loc' = loc + 1
  /\ UNCHANGED <<env, pc, stack, cfg, section>>

StatFails ==
  /\ pc = "collect" /\ loc <= Len(Locations)
  /\ disk.stat[Locations[loc]] \notin {"ok", "notexist"}
  /\ Fail(disk.stat[Locations[loc]])

StartLoad ==
  /\ pc = "collect" /\ loc <= Len(Locations)
  /\ disk.stat[Locations[loc]] = "ok"
  /\ pc' = "load"
  /\ UNCHANGED <<env, loc, stack, cfg, section>>

NoLocation ==
  /\ pc = "collect" /\ loc > Len(Locations)
  /\ pc' = "done"
  /\ section' = Unavailable("not_found")
  /\ UNCHANGED <<env, loc, stack, cfg>>

(* The head of parseFile, called at depth Len(stack): the limits, then the  *)
(* read, then a frame on top of the stack the callers leave behind.         *)
DepthExceeded == Len(stack) > MaxDepth

(* Mutant: off by one.                                                      *)
FilesExhaustedLate == Len(cfg.files) > MaxFiles
FilesExhausted == Len(cfg.files) >= MaxFiles

parseFile(f, match, callers) ==
  \/ /\ DepthExceeded \/ FilesExhausted
     /\ Fail("limit")
  \/ /\ ~DepthExceeded /\ ~FilesExhausted
     /\ disk.read[f] # "ok"
     /\ Fail(disk.read[f])
  \/ /\ ~DepthExceeded /\ ~FilesExhausted
     /\ disk.read[f] = "ok"
     /\ stack' = Append(callers, NewFrame(f, match))
     /\ cfg' = [cfg EXCEPT !.files = Append(@, f)]
     /\ UNCHANGED <<env, loc, pc, section>>

ParseMain ==
  /\ pc = "load" /\ stack = <<>>
  /\ parseFile(Locations[loc], Global, stack)

(* Mutant: an included file starts in the global section.                   *)
ParseMatchAsGlobal ==
  /\ pc = "load" /\ stack # <<>>
  /\ Top.matches # <<>>
  /\ parseFile(Head(Top.matches), Global,
               Replaced([Top EXCEPT !.matches = Tail(@)]))

(* Mutant: a match that is gone by the time it is read is passed over.      *)
ParseMatchIfThere ==
  /\ pc = "load" /\ stack # <<>>
  /\ Top.matches # <<>>
  /\ LET f == Head(Top.matches)
         rest == Replaced([Top EXCEPT !.matches = Tail(@)])
     IN  \/ /\ disk.read[f] = "notexist"
            /\ stack' = rest
            /\ UNCHANGED <<env, loc, pc, cfg, section>>
         \/ /\ disk.read[f] # "notexist"
            /\ parseFile(f, Top.match, rest)

ParseMatch ==
  /\ pc = "load" /\ stack # <<>>
  /\ Top.matches # <<>>
  /\ parseFile(Head(Top.matches), Top.match,
               Replaced([Top EXCEPT !.matches = Tail(@)]))

BlankLine ==
  /\ AtLine("blank")
  /\ AdvanceOnly
  /\ UNCHANGED <<env, loc, pc, cfg, section>>

BadLine == AtLine("bad") /\ Fail("syntax")

UnknownLine ==
  /\ AtLine("unknown")
  /\ AdvanceOnly
  /\ cfg' = [cfg EXCEPT !.ignored = @ + 1]
  /\ UNCHANGED <<env, loc, pc, section>>

(* Mutant: the first Match line of a file governs the rest of it.           *)
MatchLineOnce ==
  /\ AtLine("match")
  /\ stack' = Replaced([Top EXCEPT !.at = @ + 1,
                         !.match = IF @ = Global THEN Current.criteria ELSE @])
  /\ UNCHANGED <<env, loc, pc, cfg, section>>

MatchLine ==
  /\ AtLine("match")
  /\ stack' = Replaced([Top EXCEPT !.at = @ + 1, !.match = Current.criteria])
  /\ UNCHANGED <<env, loc, pc, cfg, section>>

DirectivesExhausted == Len(cfg.directives) >= MaxDirectives

TooManyDirectives ==
  /\ AtLine("directive") /\ DirectivesExhausted
  /\ Fail("limit")

(* Mutant: lines are counted from zero.                                     *)
DirectiveLineFromZero ==
  /\ AtLine("directive") /\ ~DirectivesExhausted
  /\ AdvanceOnly
  /\ cfg' = [cfg EXCEPT !.directives =
               Append(@, [keyword |-> Current.keyword, args |-> Current.args,
                          file |-> Top.file, line |-> Top.at - 1,
                          match |-> Top.match])]
  /\ UNCHANGED <<env, loc, pc, section>>

DirectiveLine ==
  /\ AtLine("directive") /\ ~DirectivesExhausted
  /\ AdvanceOnly
  /\ cfg' = [cfg EXCEPT !.directives =
               Append(@, [keyword |-> Current.keyword, args |-> Current.args,
                          file |-> Top.file, line |-> Top.at,
                          match |-> Top.match])]
  /\ UNCHANGED <<env, loc, pc, section>>

(* Mutant: only the first pattern of a line is expanded.                    *)
IncludeFirst ==
  /\ AtLine("include")
  /\ stack' = Replaced([Top EXCEPT !.at = @ + 1, !.patterns = SubSeq(Current.patterns, 1, 1)])
  /\ UNCHANGED <<env, loc, pc, cfg, section>>

IncludeLine ==
  /\ AtLine("include")
  /\ stack' = Replaced([Top EXCEPT !.at = @ + 1, !.patterns = Current.patterns])
  /\ UNCHANGED <<env, loc, pc, cfg, section>>

(* include, for the next pattern of the line: the checks that need no disk  *)
(* and the probe, then Glob.  Only a directory whose name is literal is     *)
(* probed, and only a permission error of the probe counts.                 *)
AtPattern ==
  /\ stack # <<>>
  /\ Top.matches = <<>> /\ Top.patterns # <<>>

Wanted == Head(Top.patterns)

(* Mutant: no probe, Glob alone decides.                                    *)
NeverDenied(p) == FALSE
ProbeDenied(p) == p \notin WildDir /\ disk.probe[p] = "permission"
MatchesExceed(p) == Len(cfg.files) + Len(disk.listing[p]) > MaxFiles

IncludeRejected ==
  /\ pc = "load" /\ AtPattern
  /\ \/ Wanted \in Tilde /\ Fail("syntax")
     \/ Wanted \notin Tilde /\ ProbeDenied(Wanted) /\ Fail("permission")

Probe ==
  /\ pc = "load" /\ AtPattern
  /\ Wanted \notin Tilde /\ ~ProbeDenied(Wanted)
  /\ pc' = "glob"
  /\ UNCHANGED <<env, loc, stack, cfg, section>>

GlobFails ==
  /\ pc = "glob" /\ AtPattern
  /\ \/ Wanted \in Malformed /\ Fail("pattern")
     \/ Wanted \notin Malformed /\ MatchesExceed(Wanted) /\ Fail("limit")

Glob ==
  /\ pc = "glob" /\ AtPattern
  /\ Wanted \notin Malformed /\ ~MatchesExceed(Wanted)
  /\ pc' = "load"
  /\ stack' = Replaced([Top EXCEPT !.patterns = Tail(@),
                                   !.matches = disk.listing[Wanted]])
  /\ UNCHANGED <<env, loc, cfg, section>>

(* parseFile returns without error: to its caller, or out of Load.          *)
AtEnd ==
  /\ pc = "load" /\ stack # <<>>
  /\ Top.patterns = <<>> /\ Top.matches = <<>>
  /\ Top.at > Len(Lines)

Return ==
  /\ AtEnd /\ Len(stack) > 1
  /\ stack' = SubSeq(stack, 1, Len(stack) - 1)
  /\ UNCHANGED <<env, loc, pc, cfg, section>>

Loaded ==
  /\ AtEnd /\ Len(stack) = 1
  /\ pc' = "done"
  /\ stack' = <<>>
  /\ section' = CollectedSection(cfg)
  /\ UNCHANGED <<env, loc, cfg>>

(* Someone else changes the filesystem between two calls.                   *)
DiskChanges ==
  /\ pc # "done" /\ churn < MaxChurn
  /\ disk' \in Disks
  /\ churn' = churn + 1
  /\ UNCHANGED <<content, loc, pc, stack, cfg, section>>

Step ==
  \/ NextLocation \/ StatFails \/ StartLoad \/ NoLocation
  \/ ParseMain \/ ParseMatch
  \/ BlankLine \/ BadLine \/ UnknownLine \/ MatchLine
  \/ TooManyDirectives \/ DirectiveLine
  \/ IncludeLine \/ IncludeRejected \/ Probe \/ GlobFails \/ Glob
  \/ Return \/ Loaded

Done == pc = "done" /\ UNCHANGED vars

Next == Step \/ DiskChanges \/ Done

(* The collector is one thread that is never blocked: it takes its steps.   *)
Spec == Init /\ [][Next]_vars /\ WF_vars(Step)
-----------------------------------------------------------------------------
(* The shape of every variable.  A frame is at a line of its file or just   *)
(* past the last one, and Load has a caller only while Collect is in it.    *)
TypeOK ==
  /\ content \in Contents
  /\ disk \in Disks
  /\ churn \in 0..MaxChurn
  /\ loc \in 1..Len(Locations) + 1
  /\ pc \in {"collect", "load", "glob", "done"}
  /\ stack \in Seq(Frame)
  /\ \A i \in 1..Len(stack) : stack[i].at <= Len(content[stack[i].file]) + 1
  /\ pc = "glob" => AtPattern
  /\ pc \in {"collect", "done"} => stack = <<>>
  /\ pc \in {"load", "glob"} => loc <= Len(Locations)
  /\ cfg \in Config
  /\ section \in [status : {"pending", "collected", "not_found",
                            "permission_denied", "failed"}, data : Config]

(* The limits of the parser hold at every moment and for every graph of     *)
(* includes, cyclic ones too: MaxFiles, MaxDirectives, and parseFile nested  *)
(* at most MaxDepth deep below the main file.                               *)
LimitsHold ==
  /\ Len(cfg.files) <= MaxFiles
  /\ Len(cfg.directives) <= MaxDirectives
  /\ Len(stack) <= MaxDepth + 1

(* Line m is the Match line that governs line n of file f.                  *)
Governs(f, m, n) ==
  /\ m < n
  /\ content[f][m].kind = "match"
  /\ \A k \in m + 1 .. n - 1 : content[f][k].kind # "match"

(* No Match line precedes line n of file f.                                 *)
BeforeAnyMatch(f, n) == \A m \in 1 .. n - 1 : content[f][m].kind # "match"

(* Label is what a directive at line n of file f carries, when the file was  *)
(* entered under the label `inherited`.                                     *)
ScopedAt(f, n, label, inherited) ==
  /\ \A m \in 1 .. n - 1 : Governs(f, m, n) => label = content[f][m].criteria
  /\ BeforeAnyMatch(f, n) => label = inherited

Inherited(i) == IF i = 1 THEN Global ELSE stack[i - 1].match

(* Match blocks nest as files do: in every active call of parseFile the      *)
(* parameter match is the last Match line of that file, and that of the      *)
(* Include line that led there when the file has had none.  A call is in     *)
(* the global section only if every call below it is, outside any block.    *)
MatchScope ==
  \A i \in 1..Len(stack) :
    /\ ScopedAt(stack[i].file, stack[i].at, stack[i].match, Inherited(i))
    /\ stack[i].match = Global
         => \A j \in 1..i : BeforeAnyMatch(stack[j].file, stack[j].at)

(* Directive d is what its file says at its line, labelled with the last     *)
(* Match line before it in that file when there is one.                     *)
Faithful(d) ==
  /\ d.line <= Len(content[d.file])
  /\ content[d.file][d.line] =
       [kind |-> "directive", keyword |-> d.keyword, args |-> d.args]
  /\ \A m \in 1 .. d.line - 1 :
       Governs(d.file, m, d.line) => d.match = content[d.file][m].criteria

(* The evidence in a finding points at the right line, under the right      *)
(* criteria, whatever files were included in between.                       *)
DirectivesAreFaithful ==
  \A i \in 1..Len(cfg.directives) : Faithful(cfg.directives[i])

ReadFiles(c) == {c.files[i] : i \in 1..Len(c.files)}
Listed(p) == {disk.listing[p][i] : i \in 1..Len(disk.listing[p])}

Kept(c, f, n) ==
  \E i \in 1..Len(c.directives) : c.directives[i].file = f /\ c.directives[i].line = n

(* Configuration c has every file the pattern stands for, ...               *)
Followed(c, p) ==
  /\ p \notin Tilde \cup Malformed /\ ~ProbeDenied(p)
  /\ Listed(p) \subseteq ReadFiles(c)

(* ... and all that line n of file f says.                                  *)
Honoured(c, f, n) ==
  LET l == content[f][n]
  IN  /\ l.kind # "bad"
      /\ l.kind = "directive" => Kept(c, f, n)
      /\ l.kind = "include" /\ churn = 0 =>
           \A i \in 1..Len(l.patterns) : Followed(c, l.patterns[i])

(* The first location that exists, and the others do not count.             *)
FirstFound(i) ==
  disk.stat[Locations[i]] = "ok" /\ \A j \in 1 .. i - 1 : disk.stat[Locations[j]] = "notexist"

(* A collected configuration has no gap, whatever the files include and      *)
(* however often a file is read: it has every directive of every file it    *)
(* names, and, if the disk stayed as it was, the main file and every file    *)
(* that Glob found for an Include of a file it names.                       *)
NothingIsLost ==
  section.status = "collected" =>
    /\ \A f \in ReadFiles(section.data) :
         \A n \in 1..Len(content[f]) : Honoured(section.data, f, n)
    /\ churn = 0 =>
         \E i \in 1..Len(Locations) : FirstFound(i) /\ Locations[i] \in ReadFiles(section.data)

(* A directive enters the global section only from outside every Match       *)
(* block: no Match line precedes it in its own file, nor the Include line   *)
(* in any of the files that led to it.                                      *)
GlobalOnlyOutsideMatch ==
  [][ \A i \in Len(cfg.directives) + 1 .. Len(cfg'.directives) :
        cfg'.directives[i].match = Global
          => \A j \in 1..Len(stack) :
               BeforeAnyMatch(stack[j].file, stack[j].at) ]_vars

(* A collection ends, whatever the files include: cycles are cut by the     *)
(* limits and the disk changes only so often.                               *)
Terminates == <>(pc = "done")
=============================================================================
