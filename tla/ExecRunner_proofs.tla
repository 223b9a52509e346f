------------------------- MODULE ExecRunner_proofs -------------------------
(***************************************************************************)
(* What is run is out of the users' reach, for every tree of names, every    *)
(* filesystem and any number of changes that users may make to it while the *)
(* names from the program to the root are looked at one after the other;    *)
(* and what Run reports of a command, whatever the command does and however *)
(* its exit, the deadline, the delays and the pipes race each other.        *)
(***************************************************************************)
EXTENDS ExecRunner, TLAPS

(* The first name from the root down that users can change.  They cannot     *)
(* move it out of the way, whatever they do below it.                       *)
Topmost(h, q) == ~Safe(h[q]) /\ (q = Root \/ Protected(h, Dir[q]))

FilesOK ==
  /\ host \in [Path -> Node] /\ program \in Path
  /\ resolved \in Path /\ at \in Path

(* Until the links are resolved, no directory that users can change first   *)
(* is a link.                                                               *)
UnresolvedOK ==
  pc = "resolve" =>
    \A p \in Path : \A q \in Chain[p] \ {p} : Topmost(host, q) => host[q].kind # "link"

ResolvedOK ==
  pc \in {"stat", "walk", "start"} =>
    /\ \A q \in Chain[resolved] : Topmost(host, q) => host[q].kind # "link"
    /\ Protected(host, resolved) => host[resolved].kind # "link"

(* A name users can change is still to be looked at.                        *)
WalkOK ==
  /\ pc = "walk" => /\ at \in Chain[resolved]
                    /\ Protected(host, resolved)
                         \/ \E q \in Chain[at] : Topmost(host, q)
  /\ pc \in {"walk", "start"} /\ Protected(host, resolved) => host[resolved].kind = "file"
  /\ pc = "start" => Protected(host, resolved)

Invariant == FilesOK /\ UnresolvedOK /\ ResolvedOK /\ WalkOK
-----------------------------------------------------------------------------
LEMMA ChainFacts ==
  /\ Root \in Path /\ Chain[Root] = {Root}
  /\ \A p \in Path : p \in Chain[p] /\ Chain[p] \subseteq Path /\ Dir[p] \in Path
  /\ \A p \in Path \ {Root} : Chain[p] = {p} \cup Chain[Dir[p]]
  /\ \A p \in Path : \A q \in Chain[p] : Chain[q] \subseteq Chain[p]
<1>1. \A p \in Path : p \in Chain[p]
  BY PathAssumption
<1> QED
  BY <1>1, PathAssumption, TreeAssumption

LEMMA OnlyRootIsTop == \A p \in Path : Top(p) => p = Root
<1> SUFFICES ASSUME NEW p \in Path, Dir[p] = p, p # Root PROVE FALSE
  BY DEF Top
<1>1. p \in Chain[p] /\ {p} \in SUBSET Chain[p]
  BY ChainFacts
<1>2. \E q \in {p} : q = Root \/ Chain[Dir[q]] \cap {p} = {}
  BY <1>1, TreeAssumption
<1> QED
  BY <1>1, <1>2

LEMMA TopmostExists ==
  ASSUME NEW h, NEW p \in Path, ~Protected(h, p)
  PROVE  \E q \in Chain[p] : Topmost(h, q)
<1> DEFINE S == {q \in Chain[p] : ~Safe(h[q])}
<1>1. S # {} /\ S \in SUBSET Chain[p]
  BY DEF Protected
<1>2. PICK q \in S : q = Root \/ Chain[Dir[q]] \cap S = {}
  BY <1>1, TreeAssumption
<1>3. q \in Chain[p] /\ ~Safe(h[q])
  BY <1>2
<1>4. CASE q = Root
  BY <1>3, <1>4 DEF Topmost
<1>5. CASE q # Root /\ Chain[Dir[q]] \cap S = {}
  <2>1. q \in Path
    BY <1>3, ChainFacts
  <2>2. Chain[Dir[q]] \subseteq Chain[p]
    BY <1>3, <1>5, <2>1, ChainFacts
  <2>3. Protected(h, Dir[q])
    BY <1>5, <2>2 DEF Protected
  <2> QED
    BY <1>3, <2>3 DEF Topmost
<1> QED
  BY <1>2, <1>4, <1>5

(* What is protected does not change, nor does what is above it.            *)
LEMMA ProtectedStays ==
  ASSUME FilesOK, UserChanges, NEW p \in Path, Protected(host, p)
  PROVE  (\A q \in Chain[p] : host'[q] = host[q]) /\ Protected(host', p)
<1>1. PICK r \in Path, n \in Forged : /\ ~Protected(host, r)
                                      /\ host' = [host EXCEPT ![r] = n]
  BY DEF UserChanges
<1>2. r \notin Chain[p]
  BY <1>1, ChainFacts DEF Protected
<1>3. \A q \in Chain[p] : host'[q] = host[q]
  BY <1>1, <1>2, ChainFacts DEF FilesOK
<1> QED
  BY <1>3 DEF Protected

LEMMA TopmostStays ==
  ASSUME FilesOK, UserChanges, NEW q \in Path, Topmost(host, q)
  PROVE  Topmost(host', q) /\ host'[q].kind = host[q].kind
<1>1. PICK r \in Path, n \in Forged :
        /\ r = Root \/ Protected(host, Dir[r]) => n.kind = host[r].kind /\ ~Safe(n)
        /\ host' = [host EXCEPT ![r] = n]
  BY DEF UserChanges
<1>2. ~Safe(host'[q]) /\ host'[q].kind = host[q].kind
  <2>1. CASE r = q
    <3>1. host'[q] = n
      BY <1>1, <2>1 DEF FilesOK
    <3>2. n.kind = host[q].kind /\ ~Safe(n)
      BY <1>1, <2>1 DEF Topmost
    <3> QED
      BY <3>1, <3>2
  <2>2. CASE r # q
    <3>1. host'[q] = host[q]
      BY <1>1, <2>2 DEF FilesOK
    <3> QED
      BY <3>1 DEF Topmost
  <2> QED
    BY <2>1, <2>2
<1>3. q # Root => Protected(host', Dir[q])
  BY ProtectedStays, ChainFacts DEF Topmost
<1> QED
  BY <1>2, <1>3 DEF Topmost

LEMMA UnprotectedStays ==
  ASSUME FilesOK, UserChanges, NEW p \in Path, ~Protected(host, p)
  PROVE  ~Protected(host', p)
<1>1. PICK q \in Chain[p] : Topmost(host, q)
  BY TopmostExists
<1>2. q \in Path
  BY <1>1, ChainFacts
<1>3. Topmost(host', q)
  BY <1>1, <1>2, TopmostStays
<1> QED
  BY <1>1, <1>3 DEF Topmost, Protected

(* Nothing becomes topmost, nor a link, by a change.                        *)
LEMMA TopmostWas ==
  ASSUME FilesOK, UserChanges, NEW q \in Path, Topmost(host', q)
  PROVE  Topmost(host, q) /\ host'[q].kind = host[q].kind
<1>1. q = Root \/ Protected(host, Dir[q])
  BY UnprotectedStays, ChainFacts DEF Topmost
<1>2. ~Safe(host[q])
  <2> SUFFICES ASSUME Safe(host[q]) PROVE FALSE
    OBVIOUS
  <2>1. Protected(host, q)
    BY <1>1, ChainFacts DEF Protected
  <2>2. host'[q] = host[q]
    BY <2>1, ProtectedStays, ChainFacts
  <2> QED
    BY <2>2 DEF Topmost
<1>3. Topmost(host, q)
  BY <1>1, <1>2 DEF Topmost
<1> QED
  BY <1>3, TopmostStays

LEMMA FinalInPath ==
  ASSUME FilesOK, NEW p \in Path
  PROVE  /\ Final(host, p) \in Path
         /\ host[p].kind # "link" => Final(host, p) = p
<1>1. \A q \in Path : host[q].to \in Path
  BY DEF FilesOK, Node
<1> QED
  BY <1>1 DEF Final, Followed
-----------------------------------------------------------------------------
LEMMA InvariantInit == Init => Invariant
<1> SUFFICES ASSUME Init PROVE Invariant
  OBVIOUS
<1>1. FilesOK
  BY InputAssumption DEF Init, FilesOK
<1>2. UnresolvedOK
  BY InputAssumption DEF Init, UnresolvedOK
<1>3. ResolvedOK /\ WalkOK
  BY DEF Init, ResolvedOK, WalkOK
<1> QED
  BY <1>1, <1>2, <1>3 DEF Invariant

LEMMA InvariantUserChanges == Invariant /\ UserChanges => Invariant'
<1> SUFFICES ASSUME Invariant, UserChanges PROVE Invariant'
  OBVIOUS
<1> USE DEF Invariant
<1>1. UNCHANGED <<program, resolved, at, pc>>
  BY DEF UserChanges
<1>2. FilesOK'
  <2>1. host' \in [Path -> Node]
    BY InputAssumption DEF UserChanges, FilesOK
  <2> QED
    BY <1>1, <2>1 DEF FilesOK
<1>3. UnresolvedOK'
  BY <1>1, TopmostWas, ChainFacts DEF UnresolvedOK
<1>4. resolved \in Path /\ Chain[resolved] \subseteq Path /\ resolved \in Chain[resolved]
  BY ChainFacts DEF FilesOK
<1>5. Protected(host', resolved) =>
        Protected(host, resolved) /\ host'[resolved] = host[resolved]
  BY <1>4, UnprotectedStays, ProtectedStays
<1>6. Protected(host, resolved) => Protected(host', resolved)
  BY <1>4, ProtectedStays
<1>7. ResolvedOK'
  <2>1. \A q \in Chain[resolved] : Topmost(host', q) =>
          Topmost(host, q) /\ host'[q].kind = host[q].kind
    BY <1>4, TopmostWas
  <2> QED
    BY <1>1, <1>5, <2>1 DEF ResolvedOK
<1>8. WalkOK'
  <2>1. ASSUME NEW q \in Chain[at], Topmost(host, q) PROVE Topmost(host', q)
    <3>1. q \in Path
      BY ChainFacts DEF FilesOK
    <3> QED
      BY <2>1, <3>1, TopmostStays
  <2> QED
    BY <1>1, <1>5, <1>6, <2>1 DEF WalkOK
<1> QED
  BY <1>2, <1>3, <1>7, <1>8

LEMMA InvariantResolve == Invariant /\ Resolve => Invariant'
<1> SUFFICES ASSUME Invariant, Resolve PROVE Invariant'
  OBVIOUS
<1> USE DEF Invariant
<1>1. CASE Refuse
  BY <1>1 DEF Refuse, FilesOK, UnresolvedOK, ResolvedOK, WalkOK
<1>2. CASE /\ ~Missing(host, program) /\ resolved' = Final(host, program)
           /\ pc' = "stat" /\ UNCHANGED <<host, program, at>>
  <2>1. FilesOK' /\ resolved' \in Path
    BY <1>2, FinalInPath DEF FilesOK
  <2>2. host[resolved'].kind # "link"
    BY <1>2 DEF Missing
  <2>3. \A q \in Chain[resolved'] : Topmost(host, q) => host[q].kind # "link"
    BY <2>1, <2>2 DEF Resolve, UnresolvedOK
  <2>4. UnresolvedOK' /\ ResolvedOK' /\ WalkOK'
    BY <1>2, <2>2, <2>3 DEF UnresolvedOK, ResolvedOK, WalkOK
  <2> QED
    BY <2>1, <2>4
<1> QED
  BY <1>1, <1>2 DEF Resolve

LEMMA InvariantStat == Invariant /\ StatProgram => Invariant'
<1> SUFFICES ASSUME Invariant, StatProgram PROVE Invariant'
  OBVIOUS
<1> USE DEF Invariant
<1>1. CASE Refuse
  BY <1>1 DEF Refuse, FilesOK, UnresolvedOK, ResolvedOK, WalkOK
<1>2. CASE /\ host[Final(host, resolved)].kind = "file" /\ at' = resolved
           /\ pc' = "walk" /\ UNCHANGED <<host, program, resolved>>
  <2>1. FilesOK' /\ UnresolvedOK'
    BY <1>2 DEF FilesOK, UnresolvedOK
  <2>2. ResolvedOK'
    BY <1>2 DEF StatProgram, ResolvedOK
  <2>3. Protected(host, resolved) => host[resolved].kind = "file"
    BY <1>2, FinalInPath DEF StatProgram, ResolvedOK, FilesOK
  <2>4. resolved \in Chain[resolved]
    BY ChainFacts DEF FilesOK
  <2>5. Protected(host, resolved) \/ \E q \in Chain[resolved] : Topmost(host, q)
    BY TopmostExists DEF FilesOK
  <2>6. WalkOK'
    BY <1>2, <2>3, <2>4, <2>5 DEF WalkOK
  <2> QED
    BY <2>1, <2>2, <2>6
<1> QED
  BY <1>1, <1>2 DEF StatProgram

LEMMA InvariantWalk == Invariant /\ Walk => Invariant'
<1> SUFFICES ASSUME Invariant, Walk PROVE Invariant'
  OBVIOUS
<1> USE DEF Invariant
<1>1. CASE Refuse
  BY <1>1 DEF Refuse, FilesOK, UnresolvedOK, ResolvedOK, WalkOK
<1>2. CASE /\ Safe(host[Final(host, at)])
           /\ IF Top(at) THEN pc' = "start" /\ UNCHANGED at
                         ELSE at' = Dir[at] /\ UNCHANGED pc
           /\ UNCHANGED <<host, program, resolved>>
  <2>1. pc = "walk" /\ at \in Path /\ resolved \in Path /\ at \in Chain[resolved]
    BY DEF Walk, FilesOK, WalkOK
  <2>2. FilesOK' /\ UnresolvedOK' /\ ResolvedOK'
    BY <1>2, <2>1, ChainFacts DEF FilesOK, UnresolvedOK, ResolvedOK
  <2>3. ~Topmost(host, at)
    <3> SUFFICES ASSUME Topmost(host, at) PROVE FALSE
      OBVIOUS
    <3>1. host[at].kind # "link"
      BY <2>1 DEF ResolvedOK
    <3>2. Final(host, at) = at
      BY <2>1, <3>1, FinalInPath
    <3> QED
      BY <1>2, <3>2 DEF Topmost
  <2>4. Protected(host, resolved) \/ \E q \in Chain[at] \ {at} : Topmost(host, q)
    BY <2>1, <2>3 DEF WalkOK
  <2>5. CASE Top(at)
    <3>1. Chain[at] = {at}
      BY <2>1, <2>5, OnlyRootIsTop, ChainFacts
    <3>2. Protected(host, resolved)
      BY <2>4, <3>1
    <3>3. WalkOK'
      BY <1>2, <2>1, <2>5, <3>2 DEF WalkOK
    <3> QED
      BY <2>2, <3>3
  <2>6. CASE ~Top(at)
    <3>1. at # Root /\ at' = Dir[at] /\ pc' = "walk"
      BY <1>2, <2>1, <2>6, ChainFacts, PathAssumption DEF Top
    <3>2. Chain[at] = {at} \cup Chain[Dir[at]] /\ Dir[at] \in Chain[Dir[at]]
      BY <2>1, <3>1, ChainFacts
    <3>3. Dir[at] \in Chain[resolved]
      BY <2>1, <3>2, ChainFacts
    <3>4. WalkOK'
      BY <1>2, <2>1, <2>4, <3>1, <3>2, <3>3 DEF WalkOK
    <3> QED
      BY <2>2, <3>4
  <2> QED
    BY <2>5, <2>6
<1> QED
  BY <1>1, <1>2 DEF Walk, Safe

LEMMA InvariantStep == Invariant /\ [Next]_vars => Invariant'
<1> SUFFICES ASSUME Invariant, [Next]_vars PROVE Invariant'
  OBVIOUS
<1>1. CASE UserChanges
  BY <1>1, InvariantUserChanges
<1>2. CASE Resolve \/ StatProgram \/ Walk
  BY <1>2, InvariantResolve, InvariantStat, InvariantWalk
<1>3. CASE /\ UNCHANGED <<host, program, resolved, at>>
           /\ UNCHANGED pc \/ pc' \notin {"resolve", "stat", "walk", "start"}
  BY <1>3 DEF Invariant, FilesOK, UnresolvedOK, ResolvedOK, WalkOK
<1>4. CASE Start
  BY <1>3, <1>4 DEF Start, files
<1>5. CASE Reap \/ MeetWatcher \/ AwaitCopiers \/ AwaitExpires \/ AwaitClosed \/ Judge
  BY <1>3, <1>5 DEF Reap, MeetWatcher, AwaitCopiers, AwaitExpires, AwaitClosed, Judge, files
<1>6. CASE Watcher
  BY <1>3, <1>6 DEF Watcher, WatchCancel, WatchExpires, WatchCloses, files
<1>7. CASE ChildWrites \/ ChildForks \/ ChildExits \/ HeirExits \/ Interrupt
  BY <1>3, <1>7 DEF ChildWrites, ChildForks, ChildExits, HeirExits, Interrupt, files
<1>8. CASE \E s \in Stream : Copier(s)
  BY <1>3, <1>8 DEF Copier, files
<1>9. CASE UNCHANGED vars
  BY <1>3, <1>9 DEF vars, files
<1> QED
  BY <1>1, <1>2, <1>4, <1>5, <1>6, <1>7, <1>8, <1>9 DEF Next, Main, Others

(* RunsTrusted holds in every behaviour: whatever users rename or replace    *)
(* between two looks of checkTrustedBinary, what is executed is a regular    *)
(* file that only root can change or exchange.                              *)
THEOREM OnlyTrustedRuns == Spec => RunsTrusted
<1> DEFINE Trusted ==
             child = "none" /\ child' = "running" =>
               /\ Protected(host, Executable)
               /\ Protected(host, Final(host, Executable))
               /\ host[Final(host, Executable)].kind = "file"
<1>1. Invariant /\ [Next]_vars => [Trusted]_vars
  <2> SUFFICES ASSUME Invariant, Next, child = "none", child' = "running"
               PROVE  /\ Protected(host, Executable)
                      /\ Protected(host, Final(host, Executable))
                      /\ host[Final(host, Executable)].kind = "file"
    OBVIOUS
  <2>1. pc = "start"
    <3>1. Start
      BY DEF Next, Main, Watcher, Others, Resolve, StatProgram, Walk, Refuse, Reap,
             MeetWatcher, AwaitCopiers, AwaitExpires, AwaitClosed, Judge, WatchCancel,
             WatchExpires, WatchCloses, UserChanges, ChildWrites, ChildForks,
             ChildExits, HeirExits, Interrupt, Copier, world, vars
    <3> QED
      BY <3>1 DEF Start
  <2>2. Protected(host, resolved) /\ host[resolved].kind = "file" /\ resolved \in Path
    BY <2>1 DEF Invariant, WalkOK, FilesOK
  <2>3. Final(host, resolved) = resolved
    BY <2>2, FinalInPath DEF Invariant
  <2> QED
    BY <2>2, <2>3 DEF Executable
<1>2. Init /\ [][Next]_vars => [][Trusted]_vars
  BY <1>1, InvariantInit, InvariantStep, PTL
<1> QED
  BY <1>2, PTL DEF Spec, RunsTrusted
-----------------------------------------------------------------------------
LEMMA TypeInit == Init => TypeOK
<1> SUFFICES ASSUME Init PROVE TypeOK
  OBVIOUS
<1>1. /\ host \in [Path -> Node] /\ program \in Programs /\ resolved \in Path /\ at \in Path
      /\ changes \in 0..MaxChanges
  BY InputAssumption, LimitAssumption DEF Init
<1>2. stream \in [Stream -> StreamState]
  BY DEF Init, StreamState
<1>3. \A s \in Stream : stream[s].len + stream[s].pipe <= stream[s].written
  BY DEF Init
<1> QED
  BY <1>1, <1>2, <1>3 DEF Init, TypeOK

(* How each kind of step changes the streams.                               *)
LEMMA PipesClosed ==
  ASSUME stream \in [Stream -> StreamState], ClosePipes
  PROVE  /\ stream' \in [Stream -> StreamState]
         /\ \A s \in Stream :
              /\ ~stream'[s].open
              /\ stream'[s].pipe = stream[s].pipe /\ stream'[s].len = stream[s].len
              /\ stream'[s].written = stream[s].written
              /\ stream'[s].copier = stream[s].copier
              /\ stream'[s].overflow = stream[s].overflow
BY DEF ClosePipes, StreamState

LEMMA StateFields ==
  ASSUME NEW x \in StreamState
  PROVE  x.pipe \in Nat /\ x.len \in Nat /\ x.written \in Nat
BY DEF StreamState

LEMMA StateUpdates ==
  ASSUME NEW x \in StreamState, NEW m \in Nat, NEW n \in Nat
  PROVE  /\ [x EXCEPT !.pipe = m, !.written = n] \in StreamState
         /\ [x EXCEPT !.pipe = m, !.len = n] \in StreamState
BY DEF StreamState

LEMMA OneStream ==
  ASSUME stream \in [Stream -> StreamState], NEW t \in Stream, NEW y \in StreamState,
         stream' = [stream EXCEPT ![t] = y]
  PROVE  /\ stream' \in [Stream -> StreamState] /\ stream'[t] = y
         /\ \A s \in Stream \ {t} : stream'[s] = stream[s]
OBVIOUS

LEMMA Written ==
  ASSUME stream \in [Stream -> StreamState], ChildWrites
  PROVE  /\ stream' \in [Stream -> StreamState]
         /\ \A s \in Stream :
              /\ stream'[s].len = stream[s].len /\ stream'[s].open = stream[s].open
              /\ stream'[s].copier = stream[s].copier
              /\ stream'[s].pipe - stream[s].pipe = stream'[s].written - stream[s].written
<1>1. PICK t \in Stream, n \in 1..2 :
        stream' = [stream EXCEPT ![t].pipe = @ + n, ![t].written = @ + n]
  BY DEF ChildWrites
<1> DEFINE x == stream[t]
           y == [x EXCEPT !.pipe = x.pipe + n, !.written = x.written + n]
<1>2. stream' = [stream EXCEPT ![t] = y]
  BY <1>1
<1>3. x \in StreamState /\ x.pipe + n \in Nat /\ x.written + n \in Nat
  BY StateFields
<1> HIDE DEF x
<1>4. y \in StreamState
  BY <1>3, StateUpdates
<1>5. /\ y.pipe = x.pipe + n /\ y.written = x.written + n
      /\ y.len = x.len /\ y.open = x.open /\ y.copier = x.copier
  BY <1>3 DEF StreamState
<1> HIDE DEF y
<1>6. /\ stream' \in [Stream -> StreamState] /\ stream'[t] = y
      /\ \A s \in Stream \ {t} : stream'[s] = stream[s]
  BY <1>2, <1>4, OneStream
<1>7. \A s \in Stream : /\ stream'[s].len = stream[s].len /\ stream'[s].open = stream[s].open
                        /\ stream'[s].copier = stream[s].copier
  BY <1>5, <1>6 DEF x
<1>8. \A s \in Stream :
        stream'[s].pipe - stream[s].pipe = stream'[s].written - stream[s].written
  <2>1. y.pipe - x.pipe = y.written - x.written
    BY <1>3, <1>5, StateFields
  <2>2. ASSUME NEW s \in Stream \ {t}
        PROVE  stream'[s].pipe - stream[s].pipe = stream'[s].written - stream[s].written
    <3>1. stream'[s] = stream[s] /\ stream[s].pipe \in Nat /\ stream[s].written \in Nat
      BY <1>6, StateFields
    <3> QED
      BY <3>1
  <2> QED
    BY <1>6, <2>1, <2>2 DEF x
<1> QED
  BY <1>6, <1>7, <1>8

LEMMA Read ==
  ASSUME stream \in [Stream -> StreamState], NEW t \in Stream, CopierReads(t)
  PROVE  /\ stream' \in [Stream -> StreamState]
         /\ \A s \in Stream :
              /\ stream'[s].open = stream[s].open
              /\ stream'[s].copier = stream[s].copier
              /\ stream'[s].written = stream[s].written
              /\ stream'[s].len + stream'[s].pipe = stream[s].len + stream[s].pipe
              /\ stream[s].copier = "ended" => stream'[s] = stream[s]
<1> DEFINE x == stream[t]
<1>1. PICK n \in 1 .. x.pipe :
        stream' = [stream EXCEPT ![t] = [x EXCEPT !.pipe = x.pipe - n, !.len = x.len + n]]
  BY DEF CopierReads, Copied, HasReadFrom, ReadFrom
<1> DEFINE y == [x EXCEPT !.pipe = x.pipe - n, !.len = x.len + n]
<1>2. stream' = [stream EXCEPT ![t] = y]
  BY <1>1
<1>3. /\ x \in StreamState /\ x.pipe \in Nat /\ x.len \in Nat /\ n \in Nat
      /\ x.pipe - n \in Nat /\ x.len + n \in Nat
  BY StateFields
<1>4. x.copier = "reading"
  BY DEF CopierReads
<1> HIDE DEF x
<1>5. y \in StreamState
  BY <1>3, StateUpdates
<1>6. /\ y.pipe = x.pipe - n /\ y.len = x.len + n
      /\ y.written = x.written /\ y.open = x.open /\ y.copier = x.copier
  BY <1>3 DEF StreamState
<1> HIDE DEF y
<1>7. /\ stream' \in [Stream -> StreamState] /\ stream'[t] = y
      /\ \A s \in Stream \ {t} : stream'[s] = stream[s]
  BY <1>2, <1>5, OneStream
<1>8. y.len + y.pipe = x.len + x.pipe
  BY <1>3, <1>6
<1> QED
  BY <1>4, <1>6, <1>7, <1>8 DEF x

LEMMA Ended ==
  ASSUME stream \in [Stream -> StreamState], NEW t \in Stream, CopierEnds(t)
  PROVE  /\ stream' \in [Stream -> StreamState]
         /\ stream'[t].copier = "ended"
         /\ \A s \in Stream :
              /\ stream'[s].open = stream[s].open
              /\ stream'[s].pipe = stream[s].pipe /\ stream'[s].len = stream[s].len
              /\ stream'[s].written = stream[s].written
              /\ s # t => stream'[s].copier = stream[s].copier
BY DEF CopierEnds, StreamState

(* The conjuncts of TypeOK, by what they are about.                         *)
FilesTyped ==
  /\ host \in [Path -> Node] /\ changes \in 0..MaxChanges
  /\ program \in Programs /\ resolved \in Path /\ at \in Path
StreamsTyped ==
  /\ stream \in [Stream -> StreamState]
  /\ \A s \in Stream : stream[s].len + stream[s].pipe <= stream[s].written
PlacesTyped ==
  /\ pc \in {"resolve", "stat", "walk", "start", "wait", "watch", "await",
             "closing", "judge", "done"}
  /\ ctx \in {"live", "done"}
  /\ child \in {"none", "running", "zombie", "reaped"}
  /\ exit \in {"none", "zero", "nonzero", "killed"}
  /\ heir \in {"none", "alive", "gone"}
  /\ watcher \in {"none", "watching", "delay", "closing", "result", "ended"}
  /\ watchErr \in {"none", "ctx", "delay"} /\ drained \in BOOLEAN
  /\ err \in {"none", "ctx", "start", "exit", "delay"}
  /\ result \in {"none", "refused", "too large", "ok", "ctx", "start", "exit", "delay"}

LEMMA TypeParts == TypeOK <=> FilesTyped /\ StreamsTyped /\ PlacesTyped
BY DEF TypeOK, FilesTyped, StreamsTyped, PlacesTyped

LEMMA FilesTypedStep == FilesTyped /\ [Next]_vars => FilesTyped'
<1> SUFFICES ASSUME FilesTyped, [Next]_vars PROVE FilesTyped'
  OBVIOUS
<1>1. CASE UserChanges
  <2>1. host' \in [Path -> Node]
    BY <1>1, InputAssumption DEF UserChanges, FilesTyped
  <2>2. changes' \in 0..MaxChanges
    <3>1. changes \in 0..MaxChanges /\ changes < MaxChanges /\ changes' = changes + 1
      BY <1>1 DEF UserChanges, FilesTyped
    <3> QED
      BY <3>1, LimitAssumption
  <2> QED
    BY <1>1, <2>1, <2>2 DEF UserChanges, FilesTyped
<1>2. CASE Resolve \/ StatProgram \/ Walk
  <2>1. FilesOK
    BY InputAssumption DEF FilesTyped, FilesOK
  <2>2. resolved' \in Path /\ at' \in Path /\ UNCHANGED <<host, changes, program>>
    BY <1>2, <2>1, FinalInPath, ChainFacts DEF Resolve, StatProgram, Walk, Refuse, FilesOK
  <2> QED
    BY <2>2 DEF FilesTyped
<1>3. CASE UNCHANGED files
  BY <1>3 DEF files, FilesTyped
<1>4. \/ UserChanges \/ Resolve \/ StatProgram \/ Walk \/ UNCHANGED files
  BY DEF Next, Main, Watcher, Others, Start, Reap, MeetWatcher, AwaitCopiers,
         AwaitExpires, AwaitClosed, Judge, WatchCancel, WatchExpires, WatchCloses,
         ChildWrites, ChildForks, ChildExits, HeirExits, Interrupt, Copier, vars
<1> QED
  BY <1>1, <1>2, <1>3, <1>4

LEMMA StreamsTypedStep == StreamsTyped /\ [Next]_vars => StreamsTyped'
<1> SUFFICES ASSUME StreamsTyped, [Next]_vars PROVE StreamsTyped'
  OBVIOUS
<1>0. stream \in [Stream -> StreamState]
  BY DEF StreamsTyped
<1>1. CASE UNCHANGED stream
  BY <1>1 DEF StreamsTyped
<1>2. CASE Start
  <2>1. CASE stream' = [s \in Stream |-> [stream[s] EXCEPT !.open = TRUE, !.copier = "reading"]]
    BY <1>0, <2>1 DEF StreamState, StreamsTyped
  <2> QED
    BY <1>1, <1>2, <2>1 DEF Start
<1>3. CASE ClosePipes
  BY <1>0, <1>3, PipesClosed DEF StreamsTyped
<1>4. CASE ChildWrites
  <2>1. stream' \in [Stream -> StreamState]
    BY <1>0, <1>4, Written
  <2>2. ASSUME NEW s \in Stream PROVE stream'[s].len + stream'[s].pipe <= stream'[s].written
    <3>1. /\ stream[s].pipe \in Nat /\ stream[s].len \in Nat /\ stream[s].written \in Nat
          /\ stream'[s].pipe \in Nat /\ stream'[s].len \in Nat /\ stream'[s].written \in Nat
      BY <1>0, <2>1, StateFields
    <3>2. stream[s].len + stream[s].pipe <= stream[s].written
      BY DEF StreamsTyped
    <3>3. /\ stream'[s].len = stream[s].len
          /\ stream'[s].pipe - stream[s].pipe = stream'[s].written - stream[s].written
      BY <1>0, <1>4, Written
    <3> QED
      BY <3>1, <3>2, <3>3
  <2> QED
    BY <2>1, <2>2 DEF StreamsTyped
<1>5. CASE \E s \in Stream : Copier(s)
  <2>1. PICK t \in Stream : Copier(t)
    BY <1>5
  <2>2. CASE CopierReads(t)
    BY <1>0, <2>2, Read DEF StreamsTyped
  <2>3. CASE CopierEnds(t)
    BY <1>0, <2>3, Ended DEF StreamsTyped
  <2> QED
    BY <2>1, <2>2, <2>3 DEF Copier
<1>6. \/ Start \/ ClosePipes \/ ChildWrites \/ UNCHANGED stream
      \/ \E s \in Stream : Copier(s)
  BY DEF Next, Main, Watcher, Others, Resolve, StatProgram, Walk, Refuse, Reap, MeetWatcher,
         AwaitCopiers, AwaitExpires, AwaitClosed, Judge, WatchCancel, WatchExpires,
         WatchCloses, UserChanges, ChildForks, ChildExits, HeirExits, Interrupt, vars
<1> QED
  BY <1>1, <1>2, <1>3, <1>4, <1>5, <1>6

LEMMA PlacesTypedStep == PlacesTyped /\ [Next]_vars => PlacesTyped'
<1> SUFFICES ASSUME PlacesTyped, [Next]_vars PROVE PlacesTyped'
  OBVIOUS
<1> USE DEF world, watch
<1>1. CASE UserChanges \/ Resolve \/ StatProgram \/ Walk
  BY <1>1 DEF UserChanges, Resolve, StatProgram, Walk, Refuse, PlacesTyped
<1>2. CASE Start
  <2>1. UNCHANGED <<ctx, exit, heir, watchErr, drained, result>>
    BY <1>2 DEF Start
  <2>2. /\ ctx' \in {"live", "done"}
        /\ exit' \in {"none", "zero", "nonzero", "killed"}
        /\ heir' \in {"none", "alive", "gone"}
        /\ watchErr' \in {"none", "ctx", "delay"} /\ drained' \in BOOLEAN
        /\ result' \in {"none", "refused", "too large", "ok", "ctx", "start", "exit", "delay"}
    BY <2>1, Zenon DEF PlacesTyped
  <2>3. pc' \in {"resolve", "stat", "walk", "start", "wait", "watch", "await",
                "closing", "judge", "done"}
    BY <1>2 DEF Start
  <2>4. child' \in {"none", "running", "zombie", "reaped"}
    BY <1>2 DEF Start, PlacesTyped
  <2>5. watcher' \in {"none", "watching", "delay", "closing", "result", "ended"}
    BY <1>2 DEF Start, PlacesTyped
  <2>6. err' \in {"none", "ctx", "start", "exit", "delay"}
    BY <1>2 DEF Start, PlacesTyped
  <2> QED
    BY <2>2, <2>3, <2>4, <2>5, <2>6, Zenon DEF PlacesTyped
<1>3. CASE Reap \/ MeetWatcher
  BY <1>3 DEF Reap, MeetWatcher, PlacesTyped
<1>4. CASE AwaitCopiers \/ AwaitExpires \/ AwaitClosed \/ Judge
  BY <1>4 DEF AwaitCopiers, AwaitExpires, AwaitClosed, Judge, PlacesTyped
<1>5. CASE Watcher
  BY <1>5 DEF Watcher, WatchCancel, WatchExpires, WatchCloses, WaitDelay, PlacesTyped
<1>6. CASE ChildWrites \/ ChildForks \/ ChildExits \/ HeirExits \/ Interrupt
  BY <1>6 DEF ChildWrites, ChildForks, ChildExits, HeirExits, Interrupt, PlacesTyped
<1>7. CASE (\E s \in Stream : Copier(s)) \/ UNCHANGED vars
  BY <1>7 DEF Copier, vars, PlacesTyped
<1> QED
  BY <1>1, <1>2, <1>3, <1>4, <1>5, <1>6, <1>7 DEF Next, Main, Others

LEMMA TypeStep == TypeOK /\ [Next]_vars => TypeOK'
<1>1. TypeOK' <=> FilesTyped' /\ StreamsTyped' /\ PlacesTyped'
  BY DEF TypeOK, FilesTyped, StreamsTyped, PlacesTyped
<1> QED
  BY <1>1, TypeParts, FilesTypedStep, StreamsTypedStep, PlacesTypedStep

(* TypeOK holds in every reachable state: whatever is written and copied,    *)
(* nothing is captured that was not written.                                *)
THEOREM TypeCorrect == Spec => []TypeOK
BY TypeInit, TypeStep, PTL DEF Spec
-----------------------------------------------------------------------------
(* The processes and goroutines of Run, by where it is.                     *)
Early == pc \in {"resolve", "stat", "walk", "start"}
Waiting == pc \in {"wait", "watch"}
ProcessOK ==
  /\ child = "none" => exit = "none" /\ heir = "none" /\ watcher = "none"
  /\ Early => child = "none" /\ watchErr = "none" /\ ~drained
  /\ pc = "wait" => child \in {"running", "zombie"}
  /\ pc \in {"watch", "await", "closing"} => child = "reaped"
  /\ pc \in {"judge", "done"} => child \in {"none", "reaped"}
  /\ child # "none" => (Waiting <=> watcher # "ended") /\ watcher # "none"
  /\ exit = "killed" => ctx = "done"
  /\ watcher = "watching" => watchErr = "none"
  /\ pc # "done" => result = "none"

(* A stream was cut off only if an error says so, or will: a delay passed.  *)
Forced ==
  \/ watcher = "closing" \/ watchErr # "none" \/ pc \in {"closing", "done"}
  \/ pc = "judge" /\ err # "none"
StreamsOK ==
  /\ \A s \in Stream : stream[s].copier = "none" <=> child = "none"
  /\ \A s \in Stream : child = "none" => ~stream[s].open
  /\ drained => CopiersEnded
  /\ pc = "closing" => \A s \in Stream : ~stream[s].open
  /\ pc \in {"judge", "done"} =>
       \A s \in Stream : stream[s].copier # "reading" /\ ~stream[s].open
  /\ \A s \in Stream : stream[s].len + stream[s].pipe = stream[s].written
  /\ \A s \in Stream : stream[s].copier = "reading" /\ ~stream[s].open => Forced
  /\ \A s \in Stream : stream[s].copier = "ended" =>
       Forced \/ (stream[s].pipe = 0 /\ ~Writers)

ErrorsOK ==
  /\ pc \in {"watch", "await", "closing", "judge"} /\ err = "none" => exit = "zero"
  /\ pc \in {"await", "closing", "judge"} /\ watchErr # "none" => err # "none"

Outcomes == SuccessIsWhole /\ KilledIsTold
RunOK == ProcessOK /\ StreamsOK /\ ErrorsOK /\ Outcomes

LEMMA RunInit == Init => RunOK
BY DEF Init, RunOK, ProcessOK, StreamsOK, ErrorsOK, Outcomes, SuccessIsWhole, KilledIsTold,
       Early, Waiting, CopiersEnded

LEMMA ProcessStep == TypeOK /\ ProcessOK /\ [Next]_vars => ProcessOK'
<1> SUFFICES ASSUME PlacesTyped, ProcessOK, [Next]_vars PROVE ProcessOK'
  BY TypeParts
<1> USE DEF world, watch, ProcessOK, Early, Waiting
<1>1. CASE UserChanges \/ Resolve \/ StatProgram \/ Walk
  BY <1>1 DEF UserChanges, Resolve, StatProgram, Walk, Refuse
<1>2. CASE Start
  BY <1>2 DEF Start
<1>3. CASE Reap \/ MeetWatcher
  BY <1>3 DEF Reap, MeetWatcher
<1>4. CASE AwaitCopiers \/ AwaitExpires \/ AwaitClosed \/ Judge
  BY <1>4 DEF AwaitCopiers, AwaitExpires, AwaitClosed, Judge
<1>5. CASE Watcher
  BY <1>5 DEF Watcher, WatchCancel, WatchExpires, WatchCloses, WaitDelay, PlacesTyped
<1>6. CASE ChildWrites \/ ChildForks \/ ChildExits \/ HeirExits \/ Interrupt
  BY <1>6 DEF ChildWrites, ChildForks, ChildExits, HeirExits, Interrupt
<1>7. CASE (\E s \in Stream : Copier(s)) \/ UNCHANGED vars
  BY <1>7 DEF Copier, vars
<1> QED
  BY <1>1, <1>2, <1>3, <1>4, <1>5, <1>6, <1>7 DEF Next, Main, Others

LEMMA ErrorsStep == TypeOK /\ ProcessOK /\ ErrorsOK /\ [Next]_vars => ErrorsOK'
<1> SUFFICES ASSUME PlacesTyped, ProcessOK, ErrorsOK, [Next]_vars PROVE ErrorsOK'
  BY TypeParts
<1> USE DEF world, watch, ErrorsOK
<1>1. CASE UserChanges \/ Resolve \/ StatProgram \/ Walk
  BY <1>1 DEF UserChanges, Resolve, StatProgram, Walk, Refuse
<1>2. CASE Start
  BY <1>2 DEF Start, ProcessOK, Early
<1>3. CASE Reap \/ MeetWatcher
  BY <1>3 DEF Reap, MeetWatcher
<1>4. CASE AwaitCopiers \/ AwaitExpires \/ AwaitClosed \/ Judge
  BY <1>4 DEF AwaitCopiers, AwaitExpires, AwaitClosed, Judge
<1>5. CASE Watcher
  <2>1. pc \in {"wait", "watch"} /\ (child = "zombie" \/ child = "running" \/ UNCHANGED exit)
    BY <1>5 DEF Watcher, WatchCancel, WatchExpires, WatchCloses, ProcessOK, Waiting
  <2>2. pc = "watch" => UNCHANGED exit
    BY <1>5 DEF Watcher, WatchCancel, WatchExpires, WatchCloses, ProcessOK
  <2>3. UNCHANGED <<pc, err>>
    BY <1>5 DEF Watcher, WatchCancel, WatchExpires, WatchCloses
  <2> QED
    BY <2>1, <2>2, <2>3
<1>6. CASE ChildWrites \/ ChildForks \/ ChildExits \/ HeirExits \/ Interrupt
  BY <1>6 DEF ChildWrites, ChildForks, ChildExits, HeirExits, Interrupt, ProcessOK
<1>7. CASE (\E s \in Stream : Copier(s)) \/ UNCHANGED vars
  BY <1>7 DEF Copier, vars
<1> QED
  BY <1>1, <1>2, <1>3, <1>4, <1>5, <1>6, <1>7 DEF Next, Main, Others

(* Who could write, and what was cut off, as a step goes on.                *)
LEMMA ForcedStays ==
  ASSUME PlacesTyped, ProcessOK, ErrorsOK, [Next]_vars, Forced
  PROVE  Forced'
<1> USE DEF world, watch, Forced
<1>1. CASE UserChanges \/ Resolve \/ StatProgram \/ Walk
  BY <1>1 DEF UserChanges, Resolve, StatProgram, Walk, Refuse
<1>2. CASE Start
  BY <1>2 DEF Start, ProcessOK, Early
<1>3. CASE Reap \/ MeetWatcher
  BY <1>3 DEF Reap, MeetWatcher
<1>4. CASE AwaitCopiers \/ AwaitExpires \/ AwaitClosed \/ Judge
  BY <1>4 DEF AwaitCopiers, AwaitExpires, AwaitClosed, Judge, ProcessOK, Waiting, ErrorsOK
<1>5. CASE Watcher
  BY <1>5 DEF Watcher, WatchCancel, WatchExpires, WatchCloses, ProcessOK, Waiting, Early
<1>6. CASE ChildWrites \/ ChildForks \/ ChildExits \/ HeirExits \/ Interrupt
  BY <1>6 DEF ChildWrites, ChildForks, ChildExits, HeirExits, Interrupt
<1>7. CASE (\E s \in Stream : Copier(s)) \/ UNCHANGED vars
  BY <1>7 DEF Copier, vars
<1> QED
  BY <1>1, <1>2, <1>3, <1>4, <1>5, <1>6, <1>7 DEF Next, Main, Others

LEMMA NoNewWriters ==
  ASSUME ProcessOK, [Next]_vars, child # "none", ~Writers
  PROVE  ~Writers'
<1> USE DEF world, Writers
<1>1. ~Start
  BY DEF Start, ProcessOK, Early
<1>2. CASE Main
  BY <1>1, <1>2 DEF Main, Resolve, StatProgram, Walk, Refuse, Reap, MeetWatcher,
                    AwaitCopiers, AwaitExpires, AwaitClosed, Judge
<1>3. CASE Watcher
  BY <1>3 DEF Watcher, WatchCancel, WatchExpires, WatchCloses
<1>4. CASE Others
  BY <1>4 DEF Others, UserChanges, ChildWrites, ChildForks, ChildExits, HeirExits, Interrupt
<1>5. CASE (\E s \in Stream : Copier(s)) \/ UNCHANGED vars
  BY <1>5 DEF Copier, vars
<1> QED
  BY <1>2, <1>3, <1>4, <1>5 DEF Next

LEMMA StreamsStep ==
  TypeOK /\ ProcessOK /\ ErrorsOK /\ StreamsOK /\ [Next]_vars => StreamsOK'
<1> SUFFICES ASSUME TypeOK, ProcessOK, ErrorsOK, StreamsOK, [Next]_vars PROVE StreamsOK'
  OBVIOUS
<1> USE DEF world, watch
<1>0. /\ stream \in [Stream -> StreamState] /\ PlacesTyped
      /\ (Forced => Forced') /\ (child # "none" /\ ~Writers => ~Writers')
  BY TypeParts, ForcedStays, NoNewWriters DEF StreamsTyped
<1>1. CASE /\ UNCHANGED <<stream, pc, drained>> /\ (child = "none" <=> child' = "none")
  <2>1. CopiersEnded' = CopiersEnded
    BY <1>1 DEF CopiersEnded
  <2> QED
    BY <1>0, <1>1, <2>1 DEF StreamsOK
<1>2. CASE UserChanges \/ ChildForks \/ ChildExits \/ HeirExits \/ Interrupt \/ WatchCancel
             \/ UNCHANGED vars
  BY <1>1, <1>2 DEF UserChanges, ChildForks, ChildExits, HeirExits, Interrupt, WatchCancel, vars
<1>3. CASE Resolve \/ StatProgram \/ Walk
  <2>1. /\ UNCHANGED <<stream, drained, child, heir>> /\ child = "none"
        /\ pc' \in {"stat", "walk", "start", "done"}
    BY <1>3 DEF Resolve, StatProgram, Walk, Refuse, ProcessOK, Early
  <2>2. CopiersEnded' = CopiersEnded
    BY <2>1 DEF CopiersEnded
  <2>3. \A s \in Stream : stream[s].copier = "none" /\ ~stream[s].open
    BY <2>1 DEF StreamsOK
  <2> QED
    BY <2>1, <2>2, <2>3 DEF StreamsOK
<1>4. CASE Start
  <2>1. \A s \in Stream : stream[s].copier = "none" /\ ~stream[s].open
    BY <1>4 DEF Start, ProcessOK, Early, StreamsOK
  <2>2. ~drained /\ drained' = drained /\ pc' \in {"judge", "wait"} /\ child = "none"
    BY <1>4 DEF Start, ProcessOK, Early
  <2>3. CASE child' = "running"
    <3>1. /\ stream' = [s \in Stream |-> [stream[s] EXCEPT !.open = TRUE, !.copier = "reading"]]
          /\ pc' = "wait"
      BY <1>4, <2>2, <2>3 DEF Start
    <3>2. \A s \in Stream : /\ stream'[s].copier = "reading" /\ stream'[s].open
                            /\ stream'[s].len = stream[s].len
                            /\ stream'[s].pipe = stream[s].pipe
                            /\ stream'[s].written = stream[s].written
      BY <1>0, <3>1 DEF StreamState
    <3>3. \A s \in Stream : stream'[s].len + stream'[s].pipe = stream'[s].written
      BY <3>2 DEF StreamsOK
    <3>4. ~drained' /\ child' # "none"
      BY <2>2, <2>3
    <3> QED
      BY <3>1, <3>2, <3>3, <3>4 DEF StreamsOK
  <2>4. CASE UNCHANGED <<child, stream>>
    BY <2>1, <2>2, <2>4 DEF StreamsOK
  <2> QED
    BY <1>4, <2>3, <2>4 DEF Start
<1>5. CASE Reap \/ MeetWatcher
  <2>1. UNCHANGED <<stream, drained>> /\ child # "none" /\ child' # "none" /\ pc' \in {"watch", "await"}
    BY <1>5 DEF Reap, MeetWatcher, ProcessOK
  <2>2. CopiersEnded' = CopiersEnded
    BY <2>1 DEF CopiersEnded
  <2> QED
    BY <1>0, <2>1, <2>2 DEF StreamsOK
<1>6. CASE AwaitCopiers \/ AwaitExpires
  <2>1. UNCHANGED <<drained, child, heir>> /\ child = "reaped" /\ ClosePipes
    BY <1>6 DEF AwaitCopiers, AwaitExpires, ProcessOK
  <2>2. \A s \in Stream :
          /\ ~stream'[s].open /\ stream'[s].copier = stream[s].copier
          /\ stream'[s].pipe = stream[s].pipe /\ stream'[s].len = stream[s].len
          /\ stream'[s].written = stream[s].written
    BY <1>0, <2>1, PipesClosed
  <2>3. CopiersEnded' = CopiersEnded
    BY <2>2 DEF CopiersEnded
  <2>4. CASE AwaitCopiers
    <3>1. CopiersEnded /\ pc' = "judge"
      BY <2>4 DEF AwaitCopiers, StreamsOK
    <3> QED
      BY <1>0, <2>1, <2>2, <2>3, <3>1 DEF StreamsOK, CopiersEnded
  <2>5. CASE AwaitExpires
    <3>1. pc' = "closing" /\ Forced'
      BY <2>5 DEF AwaitExpires, Forced
    <3> QED
      BY <2>1, <2>2, <2>3, <3>1 DEF StreamsOK
  <2> QED
    BY <1>6, <2>4, <2>5
<1>7. CASE AwaitClosed \/ Judge
  <2>1. UNCHANGED <<stream, drained, child, heir>> /\ pc' \in {"judge", "done"}
    BY <1>7 DEF AwaitClosed, Judge
  <2>2. \A s \in Stream : stream[s].copier # "reading" /\ ~stream[s].open
    BY <1>7 DEF AwaitClosed, Judge, StreamsOK, CopiersEnded
  <2>3. CopiersEnded' = CopiersEnded
    BY <2>1 DEF CopiersEnded
  <2> QED
    BY <1>0, <2>1, <2>2, <2>3 DEF StreamsOK, Writers
<1>8. CASE WatchExpires
  <2>1. UNCHANGED <<child, pc, heir>> /\ child # "none" /\ pc \in {"wait", "watch"}
    BY <1>8 DEF WatchExpires, ProcessOK, Waiting
  <2>2. CASE CopiersEnded /\ drained' = TRUE /\ UNCHANGED stream
    <3>1. CopiersEnded'
      BY <2>2 DEF CopiersEnded
    <3> QED
      BY <1>0, <2>1, <2>2, <3>1 DEF StreamsOK
  <2>3. CASE watcher' = "closing" /\ ClosePipes /\ UNCHANGED drained
    <3>1. \A s \in Stream :
            /\ ~stream'[s].open /\ stream'[s].copier = stream[s].copier
            /\ stream'[s].pipe = stream[s].pipe /\ stream'[s].len = stream[s].len
            /\ stream'[s].written = stream[s].written
      BY <1>0, <2>3, PipesClosed
    <3>2. CopiersEnded' = CopiersEnded
      BY <3>1 DEF CopiersEnded
    <3>3. Forced'
      BY <2>3 DEF Forced
    <3> QED
      BY <2>1, <2>3, <3>1, <3>2, <3>3 DEF StreamsOK
  <2> QED
    BY <1>8, <2>2, <2>3 DEF WatchExpires
<1>9. CASE WatchCloses
  <2>1. UNCHANGED <<child, pc, heir, stream>> /\ drained' = TRUE /\ CopiersEnded
    BY <1>9 DEF WatchCloses
  <2>2. CopiersEnded'
    BY <2>1 DEF CopiersEnded
  <2> QED
    BY <1>0, <2>1, <2>2 DEF StreamsOK
<1>10. CASE ChildWrites
  <2>1. UNCHANGED <<child, heir, pc, drained>> /\ Writers
    BY <1>10 DEF ChildWrites
  <2>2. stream' \in [Stream -> StreamState]
    BY <1>0, <1>10, Written
  <2>3. \A s \in Stream : stream'[s].copier = stream[s].copier /\ stream'[s].open = stream[s].open
    BY <1>0, <1>10, Written
  <2>4. ASSUME NEW s \in Stream PROVE stream'[s].len + stream'[s].pipe = stream'[s].written
    <3>1. /\ stream[s].pipe \in Nat /\ stream[s].len \in Nat /\ stream[s].written \in Nat
          /\ stream'[s].pipe \in Nat /\ stream'[s].len \in Nat /\ stream'[s].written \in Nat
      BY <1>0, <2>2, StateFields
    <3>2. stream[s].len + stream[s].pipe = stream[s].written
      BY DEF StreamsOK
    <3>3. /\ stream'[s].len = stream[s].len
          /\ stream'[s].pipe - stream[s].pipe = stream'[s].written - stream[s].written
      BY <1>0, <1>10, Written
    <3> DEFINE a == stream[s].len
               b == stream[s].pipe
               c == stream[s].written
               x == stream'[s].pipe
               y == stream'[s].written
    <3>4. /\ a \in Nat /\ b \in Nat /\ c \in Nat /\ x \in Nat /\ y \in Nat
          /\ a + b = c /\ x - b = y - c
      BY <3>1, <3>2, <3>3
    <3>5. a + x = y
      <4> HIDE DEF a, b, c, x, y
      <4> QED
        BY <3>4
    <3> QED
      BY <3>3, <3>5
  <2>5. \A s \in Stream : stream[s].copier = "ended" => Forced
    BY <2>1 DEF StreamsOK
  <2>6. CopiersEnded' = CopiersEnded
    BY <2>3 DEF CopiersEnded
  <2> QED
    BY <1>0, <2>1, <2>3, <2>4, <2>5, <2>6 DEF StreamsOK
<1>11. ASSUME NEW t \in Stream, Copier(t) PROVE StreamsOK'
  <2>1. UNCHANGED <<child, heir, pc, drained>> /\ stream[t].copier = "reading"
    BY <1>11 DEF Copier, CopierReads, CopierEnds
  <2>2. Writers' = Writers
    BY <2>1 DEF Writers
  <2>3. CASE CopierReads(t)
    <3>1. \A s \in Stream :
            /\ stream'[s].open = stream[s].open /\ stream'[s].copier = stream[s].copier
            /\ stream'[s].written = stream[s].written
            /\ stream'[s].len + stream'[s].pipe = stream[s].len + stream[s].pipe
            /\ stream[s].copier = "ended" => stream'[s] = stream[s]
      BY <1>0, <2>3, Read
    <3>2. CopiersEnded' = CopiersEnded
      BY <3>1 DEF CopiersEnded
    <3> QED
      BY <1>0, <2>1, <2>2, <3>1, <3>2 DEF StreamsOK
  <2>4. CASE CopierEnds(t)
    <3>1. /\ stream'[t].copier = "ended"
          /\ \A s \in Stream :
               /\ stream'[s].open = stream[s].open
               /\ stream'[s].pipe = stream[s].pipe /\ stream'[s].len = stream[s].len
               /\ stream'[s].written = stream[s].written
               /\ s # t => stream'[s].copier = stream[s].copier
      BY <1>0, <2>4, Ended
    <3>2. CopiersEnded => CopiersEnded'
      BY <3>1 DEF CopiersEnded
    <3>3. Forced \/ (stream[t].pipe = 0 /\ ~Writers)
      BY <2>1, <2>4 DEF CopierEnds, StreamsOK
    <3> QED
      BY <1>0, <2>1, <2>2, <3>1, <3>2, <3>3 DEF StreamsOK
  <2> QED
    BY <1>11, <2>3, <2>4 DEF Copier
<1> QED
  BY <1>2, <1>3, <1>4, <1>5, <1>6, <1>7, <1>8, <1>9, <1>10, <1>11
     DEF Next, Main, Watcher, Others, vars

(* What the caller is told: decided by Judge or a refusal, and then final.   *)
LEMMA AfterReturn ==
  ASSUME ProcessOK, StreamsOK, [Next]_vars, pc = "done"
  PROVE  HeirExits \/ ChildWrites \/ UNCHANGED vars
<1>1. ~Main
  BY DEF Main, Resolve, StatProgram, Walk, Start, Reap, MeetWatcher, AwaitCopiers,
         AwaitExpires, AwaitClosed, Judge
<1>2. ~Watcher
  BY DEF Watcher, WatchCancel, WatchExpires, WatchCloses, ProcessOK, Waiting
<1>3. \A s \in Stream : ~Copier(s)
  BY DEF Copier, CopierReads, CopierEnds, StreamsOK
<1>4. ~UserChanges /\ ~ChildForks /\ ~ChildExits /\ ~Interrupt
  BY DEF UserChanges, ChildForks, ChildExits, Interrupt, ProcessOK
<1> QED
  BY <1>1, <1>2, <1>3, <1>4 DEF Next, Others

LEMMA Returning ==
  ASSUME ProcessOK, [Next]_vars, pc # "done", pc' = "done"
  PROVE  \/ Judge
         \/ child' = "none" /\ exit' = "none" /\ result' = "refused"
<1> USE DEF world, watch
<1>1. CASE Resolve \/ StatProgram \/ Walk
  BY <1>1 DEF Resolve, StatProgram, Walk, Refuse, ProcessOK, Early
<1>2. CASE Main
  BY <1>1, <1>2 DEF Main, Start, Reap, MeetWatcher, AwaitCopiers, AwaitExpires, AwaitClosed
<1>3. ~Watcher
  BY DEF Watcher, WatchCancel, WatchExpires, WatchCloses
<1>4. ~Others
  BY DEF Others, UserChanges, ChildWrites, ChildForks, ChildExits, HeirExits, Interrupt
<1>5. (\A s \in Stream : ~Copier(s)) /\ ~UNCHANGED vars
  BY DEF Copier, vars
<1> QED
  BY <1>2, <1>3, <1>4, <1>5 DEF Next

LEMMA JudgedTruly ==
  ASSUME TypeOK, ProcessOK, ErrorsOK, StreamsOK, Judge
  PROVE  Outcomes'
<1> USE DEF world, watch
<1>1. /\ pc = "judge" /\ pc' = "done"
      /\ UNCHANGED <<child, exit, heir, stream, ctx>>
  BY DEF Judge
<1>2. ASSUME result' = "ok"
      PROVE  exit = "zero" /\ ~Writers /\ stream["stdout"].len = stream["stdout"].written
  <2>1. err = "none"
    BY <1>2, TypeParts DEF Judge, PlacesTyped
  <2>2. exit = "zero" /\ child # "none" /\ watchErr = "none" /\ watcher = "ended"
    BY <1>1, <2>1 DEF ErrorsOK, ProcessOK, Waiting
  <2>3. ~Forced
    BY <1>1, <2>1, <2>2 DEF Forced
  <2>4. "stdout" \in Stream /\ stream \in [Stream -> StreamState]
    BY TypeParts DEF Stream, StreamsTyped
  <2>5. stream["stdout"].copier = "ended"
    BY <1>1, <2>2, <2>4 DEF StreamsOK, StreamState
  <2>6. stream["stdout"].pipe = 0 /\ ~Writers
    BY <2>3, <2>4, <2>5 DEF StreamsOK
  <2>7. stream["stdout"].len + stream["stdout"].pipe = stream["stdout"].written
    BY <2>4 DEF StreamsOK
  <2>8. stream["stdout"].len \in Nat
    BY <2>4, StateFields
  <2> QED
    BY <2>2, <2>6, <2>7, <2>8
<1>3. exit = "killed" => result' \in {"ctx", "too large"}
  BY <1>1 DEF Judge, ErrorsOK, ProcessOK
<1> QED
  BY <1>1, <1>2, <1>3 DEF Outcomes, SuccessIsWhole, KilledIsTold, Writers

LEMMA OutcomesStep == RunOK /\ TypeOK /\ ProcessOK' /\ [Next]_vars => Outcomes'
<1> SUFFICES ASSUME RunOK, TypeOK, ProcessOK', [Next]_vars PROVE Outcomes'
  OBVIOUS
<1> USE DEF RunOK
<1>1. CASE pc' # "done"
  BY <1>1 DEF Outcomes, SuccessIsWhole, KilledIsTold, ProcessOK
<1>2. CASE pc = "done"
  <2>1. UNCHANGED <<pc, result, exit, child>>
    BY <1>2, AfterReturn DEF HeirExits, ChildWrites, vars, world
  <2>2. CASE Writers
    BY <2>1, <2>2 DEF Outcomes, SuccessIsWhole, KilledIsTold
  <2>3. CASE ~Writers
    BY <1>2, <2>1, <2>3, AfterReturn
    DEF HeirExits, ChildWrites, vars, world, Writers, Outcomes, SuccessIsWhole, KilledIsTold
  <2> QED
    BY <2>2, <2>3
<1>3. CASE pc # "done" /\ pc' = "done"
  <2>1. CASE Judge
    BY <2>1, JudgedTruly
  <2>2. CASE child' = "none" /\ exit' = "none" /\ result' = "refused"
    BY <2>2 DEF Outcomes, SuccessIsWhole, KilledIsTold
  <2> QED
    BY <1>3, <2>1, <2>2, Returning
<1> QED
  BY <1>1, <1>2, <1>3

LEMMA RunCorrect == Spec => [](TypeOK /\ RunOK)
<1>1. Init => TypeOK /\ RunOK
  BY TypeInit, RunInit
<1>2. TypeOK /\ RunOK /\ [Next]_vars => (TypeOK /\ RunOK)'
  <2> SUFFICES ASSUME TypeOK, RunOK, [Next]_vars PROVE TypeOK' /\ RunOK'
    OBVIOUS
  <2>1. ProcessOK' /\ ErrorsOK' /\ StreamsOK'
    BY ProcessStep, ErrorsStep, StreamsStep DEF RunOK
  <2> QED
    BY <2>1, TypeStep, OutcomesStep DEF RunOK
<1> QED
  BY <1>1, <1>2, PTL DEF Spec

(* Output that Run hands on as a success is all that the command and its     *)
(* descendants wrote, whatever the deadline, the delays and the pipes did.   *)
THEOREM SuccessesAreWhole == Spec => []SuccessIsWhole
<1>1. RunOK => SuccessIsWhole
  BY DEF RunOK, Outcomes
<1> QED
  BY <1>1, RunCorrect, PTL

(* A command killed because the context was done is never reported as a      *)
(* failure of its own.                                                      *)
THEOREM KillsAreTold == Spec => []KilledIsTold
<1>1. RunOK => KilledIsTold
  BY DEF RunOK, Outcomes
<1> QED
  BY <1>1, RunCorrect, PTL

(* Once Run has returned, the child is reaped, watcher and copiers have      *)
(* ended and the pipes are closed.                                          *)
THEOREM NothingIsLeftBehind == Spec => []NothingLeftBehind
<1>1. ASSUME TypeOK, RunOK, pc = "done"
      PROVE  /\ child \in {"none", "reaped"} /\ watcher \in {"none", "ended"}
             /\ \A s \in Stream : stream[s].copier \in {"none", "ended"} /\ ~stream[s].open
  <2>1. child \in {"none", "reaped"} /\ watcher \in {"none", "ended"}
    BY <1>1 DEF RunOK, ProcessOK, Waiting
  <2>2. ASSUME NEW s \in Stream
        PROVE  stream[s].copier \in {"none", "ended"} /\ ~stream[s].open
    <3>1. stream[s].copier # "reading" /\ ~stream[s].open
      BY <1>1 DEF RunOK, StreamsOK
    <3>2. stream[s] \in StreamState
      BY <1>1, TypeParts DEF StreamsTyped
    <3> QED
      BY <3>1, <3>2 DEF StreamState
  <2> QED
    BY <2>1, <2>2
<1>2. TypeOK /\ RunOK => NothingLeftBehind
  BY <1>1 DEF NothingLeftBehind
<1> QED
  BY <1>2, RunCorrect, PTL
=============================================================================
