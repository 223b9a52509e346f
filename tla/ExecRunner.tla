----------------------------- MODULE ExecRunner -----------------------------
(***************************************************************************)
(* Running a program (src/internal/platform/exec*.go): the check that only  *)
(* root can change what will run, then a child with a deadline, two bounded *)
(* buffers and a delay after which its pipes are closed.                    *)
(*                                                                         *)
(* Around the code: the users of the host, who may rename and replace files *)
(* where they have the right to; the child, which may do anything and leave *)
(* a descendant (the heir) that keeps its pipes; and package os/exec, whose *)
(* goroutines watch the context and copy the two streams.                   *)
(***************************************************************************)
EXTENDS Integers

CONSTANTS
  Path, Root,    \* the names of files and directories; "/"
  Dir,           \* filepath.Dir of each name
  Chain,         \* of each name: itself and every directory above it
  Programs,      \* the names Run may be asked to run
  Hosts,         \* the states the filesystem may be in at first
  Forged,        \* what a user can put where he may rename files
  Limit,         \* of each stream: the capacity of its buffer
  MaxWritten,    \* bound: how much is written to each stream
  MaxChanges     \* bound: how often users change the filesystem

Stream == {"stdout", "stderr"}

Node == [kind : {"file", "dir", "link", "other", "absent"}, to : Path,
         root : BOOLEAN,      \* owned by root
         shared : BOOLEAN]    \* writable by group or others

ASSUME PathAssumption ==
  /\ Root \in Path /\ Dir \in [Path -> Path] /\ Chain \in [Path -> SUBSET Path]
  /\ Dir[Root] = Root /\ Chain[Root] = {Root}
  /\ \A p \in Path \ {Root} : Chain[p] = {p} \cup Chain[Dir[p]]
(* The names form a tree: what is above a name is above all that is below    *)
(* it, and of names on one branch one is topmost.                           *)
ASSUME TreeAssumption ==
  \A p \in Path :
    /\ \A q \in Chain[p] : Chain[q] \subseteq Chain[p]
    /\ \A S \in SUBSET Chain[p] :
         S # {} => \E q \in S : q = Root \/ Chain[Dir[q]] \cap S = {}
(* Directories are no links at first: EvalSymlinks resolves those as well.  *)
ASSUME InputAssumption ==
  /\ Programs \subseteq Path
  /\ Hosts \subseteq [Path -> Node]
  /\ \A h \in Hosts, p \in Path : \A q \in Chain[p] \ {p} : h[q].kind # "link"
  /\ Forged \subseteq Node
ASSUME LimitAssumption ==
  /\ Limit \in [Stream -> Nat] /\ MaxWritten \in [Stream -> Nat]
  /\ MaxChanges \in Nat

VARIABLES
  host, changes,  \* the filesystem, and how often it was changed
  program,        \* the parameter path of Run
  resolved,       \* what checkTrustedBinary returns
  at,             \* the name it is looking at
  pc,
  ctx,            \* "live" or "done"
  child, exit,    \* the process, and how it ended
  heir,           \* a descendant that holds the write ends of both pipes
  stream,         \* of each stream: its pipe, its copier and its buffer
  watcher, watchErr,  \* the goroutine watchCtx and the error it will report
  drained,        \* the watcher has waited for the copiers
  err,            \* what cmd.Run returns
  result          \* what Run returns

files == <<host, changes, program, resolved, at>>
world == <<ctx, child, exit, heir>>
watch == <<watcher, watchErr, drained>>
vars == <<files, world, pc, stream, watch, err, result>>
-----------------------------------------------------------------------------
Safe(n) == n.root /\ ~n.shared

(* Nobody but root can change what p names: not p, nor any directory above. *)
Protected(h, p) == \A q \in Chain[p] : Safe(h[q])

(* Two links in a row at most; a third is a file that cannot be reached.    *)
Followed(h, p) == IF h[p].kind = "link" THEN h[p].to ELSE p
Final(h, p) == Followed(h, Followed(h, p))
Missing(h, p) == h[Final(h, p)].kind \in {"absent", "link"}

Init ==
  /\ host \in Hosts /\ changes = 0
  /\ program \in Programs
  /\ resolved = program /\ at = program
  /\ pc = "resolve"
  /\ ctx \in {"live", "done"}
  /\ child = "none" /\ exit = "none" /\ heir = "none"
  /\ stream = [s \in Stream |-> [pipe |-> 0, open |-> FALSE, written |-> 0,
                                 copier |-> "none", len |-> 0, overflow |-> FALSE]]
  /\ watcher = "none" /\ watchErr = "none" /\ drained = FALSE
  /\ err = "none" /\ result = "none"

(* A user replaces a name below a directory that is not safe, or changes a  *)
(* file or directory of his own, which then is still not safe.              *)
UserChanges ==
  /\ pc \in {"resolve", "stat", "walk", "start"} /\ changes < MaxChanges
  /\ \E p \in Path, n \in Forged :
       /\ ~Protected(host, p)
       /\ p = Root \/ Protected(host, Dir[p]) =>
            n.kind = host[p].kind /\ n.to = host[p].to /\ ~Safe(n)
       /\ host' = [host EXCEPT ![p] = n]
  /\ changes' = changes + 1
  /\ UNCHANGED <<program, resolved, at, pc, world, stream, watch, err, result>>
-----------------------------------------------------------------------------
Refuse ==
  /\ pc' = "done" /\ result' = "refused"
  /\ UNCHANGED <<host, changes, program, resolved, at, world, stream, watch, err>>

(* checkTrustedBinary: filepath.EvalSymlinks ...                            *)
Resolve ==
  /\ pc = "resolve"
  /\ \/ Missing(host, program) /\ Refuse
     \/ /\ ~Missing(host, program)
        /\ resolved' = Final(host, program)
        /\ pc' = "stat"
        /\ UNCHANGED <<host, changes, program, at, world, stream, watch, err, result>>

(* ... a regular file ...                                                   *)
StatProgram ==
  /\ pc = "stat"
  /\ \/ host[Final(host, resolved)].kind # "file" /\ Refuse
     \/ /\ host[Final(host, resolved)].kind = "file"
        /\ at' = resolved
        /\ pc' = "walk"
        /\ UNCHANGED <<host, changes, program, resolved, world, stream, watch, err, result>>

(* Mutant: the loop ends one directory early.                               *)
TopWithoutRoot(p) == Dir[p] = Root
Top(p) == Dir[p] = p

(* ... and every name above it, from the file to the root.                  *)
Walk ==
  /\ pc = "walk"
  /\ LET seen == host[Final(host, at)]
     IN  \/ (Missing(host, at) \/ ~seen.root \/ seen.shared) /\ Refuse
         \/ /\ ~Missing(host, at) /\ seen.root /\ ~seen.shared
            /\ IF Top(at) THEN pc' = "start" /\ UNCHANGED at
                          ELSE at' = Dir[at] /\ UNCHANGED pc
            /\ UNCHANGED <<host, changes, program, resolved, world, stream,
                           watch, err, result>>

(* Mutant: the name given to Run is run, and resolved once more.            *)
ExecutablePath == program
Executable == resolved

(* cmd.Start: the context is looked at, execve may fail, else the child, the *)
(* two copiers and the watcher run.                                         *)
Start ==
  /\ pc = "start"
  /\ \/ /\ \/ ctx = "done" /\ err' = "ctx"
           \/ ctx = "live" /\ err' = "start"
        /\ pc' = "judge"
        /\ UNCHANGED <<child, stream, watcher>>
     \/ /\ ctx = "live"
        /\ child' = "running"
        /\ stream' = [s \in Stream |->
                        [stream[s] EXCEPT !.open = TRUE, !.copier = "reading"]]
        /\ watcher' = "watching"
        /\ pc' = "wait"
        /\ UNCHANGED err
  /\ UNCHANGED <<files, ctx, exit, heir, watchErr, drained, result>>
-----------------------------------------------------------------------------
(* The child and its heir.                                                  *)
Writers == child = "running" \/ heir = "alive"

ChildWrites ==
  /\ Writers
  /\ \E s \in Stream, n \in 1..2 :
       /\ stream[s].open /\ stream[s].written + n <= MaxWritten[s]
       /\ stream' = [stream EXCEPT ![s].pipe = @ + n, ![s].written = @ + n]
  /\ UNCHANGED <<files, world, pc, watch, err, result>>

ChildForks ==
  /\ child = "running" /\ heir = "none" /\ heir' = "alive"
  /\ UNCHANGED <<files, ctx, child, exit, pc, stream, watch, err, result>>

ChildExits ==
  /\ child = "running" /\ child' = "zombie"
  /\ exit' \in {"zero", "nonzero"}
  /\ UNCHANGED <<files, ctx, heir, pc, stream, watch, err, result>>

HeirExits ==
  /\ heir = "alive" /\ heir' = "gone"
  /\ UNCHANGED <<files, ctx, child, exit, pc, stream, watch, err, result>>

(* The caller's context ends, or DefaultCommandTimeout has passed.          *)
Interrupt ==
  /\ pc # "done" /\ ctx = "live" /\ ctx' = "done"
  /\ UNCHANGED <<files, child, exit, heir, pc, stream, watch, err, result>>

Deadline == pc \in {"wait", "watch", "await", "closing"} /\ Interrupt
-----------------------------------------------------------------------------
(* limitedBuffer.Write, n bytes: what does not fit is dropped and marked.    *)
Write(s, n) ==
  LET remaining == Limit[s] - stream[s].len
  IN  [stream[s] EXCEPT !.pipe = @ - n,
                        !.len = IF remaining < n THEN Limit[s] ELSE @ + n,
                        !.overflow = @ \/ remaining < n]

(* bytes.Buffer.ReadFrom, which limitedBuffer has from the Buffer it embeds. *)
ReadFrom(s, n) == [stream[s] EXCEPT !.pipe = @ - n, !.len = @ + n]
HasReadFrom == TRUE

(* Mutant: a write that does not fit in full is cut without a mark.         *)
WriteCut(s, n) ==
  LET remaining == Limit[s] - stream[s].len
  IN  [stream[s] EXCEPT !.pipe = @ - n,
                        !.len = IF remaining < n THEN Limit[s] ELSE @ + n,
                        !.overflow = @ \/ remaining = 0]

(* Mutant: what has been read is read again.                                *)
ReadAgain(s, n) == [stream[s] EXCEPT !.len = @ + n]

(* io.Copy hands the pipe to the ReadFrom of its destination if that has     *)
(* one, and else calls Write with each chunk.                               *)
Copied(s, n) == IF HasReadFrom THEN ReadFrom(s, n) ELSE Write(s, n)

(* Until the end of the file, or an error because the pipe has been closed   *)
(* under the reader.                                                        *)
CopierReads(s) ==
  /\ stream[s].copier = "reading" /\ stream[s].open
  /\ \E n \in 1..stream[s].pipe : stream' = [stream EXCEPT ![s] = Copied(s, n)]
CopierEnds(s) ==
  /\ stream[s].copier = "reading"
  /\ ~stream[s].open \/ (stream[s].pipe = 0 /\ ~Writers)
  /\ stream' = [stream EXCEPT ![s].copier = "ended"]
Copier(s) ==
  /\ CopierReads(s) \/ CopierEnds(s)
  /\ UNCHANGED <<files, world, pc, watch, err, result>>

CopiersEnded == \A s \in Stream : stream[s].copier = "ended"
ClosePipes == stream' = [s \in Stream |-> [stream[s] EXCEPT !.open = FALSE]]

(* Mutant: cmd.WaitDelay is left at zero.                                   *)
NoWaitDelay == FALSE
WaitDelay == TRUE

(* watchCtx: the context is done before Wait asks.  The kill may find a     *)
(* process that has ended; nobody can tell a zombie from a live one.        *)
WatchCancel ==
  /\ watcher = "watching" /\ ctx = "done"
  /\ \/ child = "running" /\ child' = "zombie" /\ exit' = "killed" /\ watchErr' = "ctx"
     \/ child = "zombie" /\ watchErr' \in {"ctx", "none"} /\ UNCHANGED <<child, exit>>
     \/ child = "reaped" /\ watchErr' = "none" /\ UNCHANGED <<child, exit>>
  /\ watcher' = IF WaitDelay THEN "delay" ELSE "result"
  /\ UNCHANGED <<files, ctx, heir, pc, stream, drained, err, result>>

(* The delay passes before Wait asks: close the pipes if still in use.      *)
WatchExpires ==
  /\ watcher = "delay"
  /\ IF CopiersEnded
     THEN watcher' = "result" /\ drained' = TRUE /\ UNCHANGED stream
     ELSE watcher' = "closing" /\ ClosePipes /\ UNCHANGED drained
  /\ UNCHANGED <<files, world, pc, watchErr, err, result>>

WatchCloses ==
  /\ watcher = "closing" /\ CopiersEnded
  /\ watchErr' = IF watchErr = "none" THEN "delay" ELSE watchErr
  /\ watcher' = "result" /\ drained' = TRUE
  /\ UNCHANGED <<files, world, pc, stream, err, result>>
-----------------------------------------------------------------------------
(* cmd.Wait: reap the child ...                                             *)
Reap ==
  /\ pc = "wait" /\ child = "zombie"
  /\ child' = "reaped"
  /\ err' = IF exit = "zero" THEN "none" ELSE "exit"
  /\ pc' = "watch"
  /\ UNCHANGED <<files, ctx, exit, heir, stream, watch, result>>

(* ... meet the watcher, which may be anywhere but closing ...              *)
MeetWatcher ==
  /\ pc = "watch" /\ watcher \in {"watching", "delay", "result"}
  /\ err' = IF err = "none" THEN watchErr ELSE err
  /\ watcher' = "ended"
  /\ pc' = "await"
  /\ UNCHANGED <<files, world, stream, watchErr, drained, result>>

(* ... then the copiers, for as long as the delay, own or the watcher's.    *)
AwaitCopiers ==
  /\ pc = "await" /\ (drained \/ CopiersEnded)
  /\ ClosePipes /\ pc' = "judge"
  /\ UNCHANGED <<files, world, watch, err, result>>

AwaitExpires ==
  /\ pc = "await" /\ ~drained /\ ~CopiersEnded /\ WaitDelay
  /\ ClosePipes /\ pc' = "closing"
  /\ UNCHANGED <<files, world, watch, err, result>>

AwaitClosed ==
  /\ pc = "closing" /\ CopiersEnded
  /\ err' = IF err = "none" THEN "delay" ELSE err
  /\ pc' = "judge"
  /\ UNCHANGED <<files, world, stream, watch, result>>

(* Mutant: the context is not asked why the command failed.                 *)
JudgeWithoutContext ==
  /\ pc = "judge" /\ pc' = "done"
  /\ result' = CASE stream["stdout"].overflow -> "too large"
                 [] ~stream["stdout"].overflow /\ err = "none" -> "ok"
                 [] OTHER -> err
  /\ UNCHANGED <<files, world, stream, watch, err>>

(* Mutant: Run returns as soon as the context is done.                      *)
JudgeAtOnce ==
  /\ pc = "judge" \/ (pc = "wait" /\ ctx = "done")
  /\ pc' = "done"
  /\ result' = CASE stream["stdout"].overflow -> "too large"
                 [] ~stream["stdout"].overflow /\ err = "none" /\ ctx = "live" -> "ok"
                 [] OTHER -> IF ctx = "done" THEN "ctx" ELSE err
  /\ UNCHANGED <<files, world, stream, watch, err>>

(* The rest of Run: what the caller is told.                                *)
Judge ==
  /\ pc = "judge" /\ pc' = "done"
  /\ result' = CASE stream["stdout"].overflow -> "too large"
                 [] ~stream["stdout"].overflow /\ err = "none" -> "ok"
                 [] OTHER -> IF ctx = "done" THEN "ctx" ELSE err
  /\ UNCHANGED <<files, world, stream, watch, err>>

Main ==
  \/ Resolve \/ StatProgram \/ Walk \/ Start
  \/ Reap \/ MeetWatcher \/ AwaitCopiers \/ AwaitExpires \/ AwaitClosed \/ Judge
Watcher == WatchCancel \/ WatchExpires \/ WatchCloses
Others ==
  UserChanges \/ ChildWrites \/ ChildForks \/ ChildExits \/ HeirExits \/ Interrupt

Next ==
  \/ Main \/ Watcher \/ Others
  \/ \E s \in Stream : Copier(s)
  \/ pc = "done" /\ UNCHANGED vars

(* The goroutines run and time passes: both timers and the deadline expire. *)
(* Nothing is assumed of the child and its heir.                            *)
Spec ==
  /\ Init /\ [][Next]_vars
  /\ WF_vars(Main) /\ WF_vars(Watcher) /\ WF_vars(Deadline)
  /\ \A s \in Stream : WF_vars(Copier(s))
-----------------------------------------------------------------------------
StreamState ==
  [pipe : Nat, open : BOOLEAN, written : Nat, len : Nat,
   copier : {"none", "reading", "ended"}, overflow : BOOLEAN]

(* Types, and nothing is captured, or is left in a pipe, that was not        *)
(* written.                                                                 *)
TypeOK ==
  /\ host \in [Path -> Node] /\ changes \in 0..MaxChanges
  /\ program \in Programs /\ resolved \in Path /\ at \in Path
  /\ pc \in {"resolve", "stat", "walk", "start", "wait", "watch", "await",
             "closing", "judge", "done"}
  /\ ctx \in {"live", "done"}
  /\ child \in {"none", "running", "zombie", "reaped"}
  /\ exit \in {"none", "zero", "nonzero", "killed"}
  /\ heir \in {"none", "alive", "gone"}
  /\ stream \in [Stream -> StreamState]
  /\ \A s \in Stream : stream[s].len + stream[s].pipe <= stream[s].written
  /\ watcher \in {"none", "watching", "delay", "closing", "result", "ended"}
  /\ watchErr \in {"none", "ctx", "delay"} /\ drained \in BOOLEAN
  /\ err \in {"none", "ctx", "start", "exit", "delay"}
  /\ result \in {"none", "refused", "too large", "ok", "ctx", "start", "exit", "delay"}

(* Only a program that nobody but root can change is executed, although the *)
(* names were looked at one after the other while users renamed files: what *)
(* the kernel finds under the name that was run is a regular file, and that *)
(* name and all above it are out of their reach.                            *)
RunsTrusted ==
  [][ child = "none" /\ child' = "running" =>
        /\ Protected(host, Executable)
        /\ Protected(host, Final(host, Executable))
        /\ host[Final(host, Executable)].kind = "file" ]_vars

(* Output that is handed on is all that the command and its descendants     *)
(* wrote: it ended by itself with status 0, nobody is left who could write  *)
(* more, and nothing was cut.                                               *)
SuccessIsWhole ==
  result = "ok" =>
    /\ exit = "zero" /\ ~Writers
    /\ stream["stdout"].len = stream["stdout"].written

(* A command that was killed because the context was done is reported as    *)
(* such, or as too large, and never as a failure of its own: the deadline,   *)
(* an exit at the same moment and pipes that stay open do not change that.   *)
KilledIsTold ==
  pc = "done" /\ exit = "killed" => result \in {"ctx", "too large"}

(* "MaxCommandOutput caps the standard output captured from a command."      *)
(* (exec.go): a buffer never holds more than its limit.                     *)
OutputIsBounded == \A s \in Stream : stream[s].len <= Limit[s]

(* When Run returns, the child has been reaped, the goroutines have ended    *)
(* and the pipes are closed: nothing writes to the buffers it has handed out. *)
NothingLeftBehind ==
  pc = "done" =>
    /\ child \in {"none", "reaped"}
    /\ watcher \in {"none", "ended"}
    /\ \A s \in Stream : stream[s].copier \in {"none", "ended"} /\ ~stream[s].open

(* Run returns, even if the child ignores everything and the heir never     *)
(* closes its pipes.                                                        *)
Terminates == <>(pc = "done")
=============================================================================
