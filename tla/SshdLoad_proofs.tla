-------------------------- MODULE SshdLoad_proofs --------------------------
(***************************************************************************)
(* Theorems about SshdLoad, for every set of files, contents and disks and  *)
(* for every value of the limits.                                          *)
(***************************************************************************)
EXTENDS SshdLoad, SequenceTheorems, WellFoundedInduction, TLAPS

(* What the fields of a line are, by its kind.                              *)
LEMMA LineFields ==
  ASSUME NEW l \in Line
  PROVE  /\ l.kind = "directive" =>
              /\ l.keyword \in Keyword /\ l.args \in Arg
              /\ l = [kind |-> "directive", keyword |-> l.keyword, args |-> l.args]
         /\ l.kind = "match" => l.criteria \in Criteria
         /\ l.kind = "include" => l.patterns \in Seq(Pattern)
  BY DEF Line

(* Replacing the frame on top of a stack changes that frame only.           *)
LEMMA ReplacedTop ==
  ASSUME stack \in Seq(Frame), stack # <<>>, NEW fr \in Frame
  PROVE  /\ Len(stack) \in Nat \ {0}
         /\ Top \in Frame
         /\ Replaced(fr) \in Seq(Frame)
         /\ Replaced(fr) # <<>>
         /\ Len(Replaced(fr)) = Len(stack)
         /\ Replaced(fr)[Len(stack)] = fr
         /\ \A i \in 1 .. Len(stack) - 1 : Replaced(fr)[i] = stack[i]
<1>1. Len(stack) \in Nat \ {0}  BY EmptySeq
<1>2. Len(stack) \in 1..Len(stack)  BY <1>1
<1>3. /\ Replaced(fr) \in Seq(Frame)
      /\ Len(Replaced(fr)) = Len(stack)
      /\ \A j \in 1..Len(stack) :
           Replaced(fr)[j] = IF j = Len(stack) THEN fr ELSE stack[j]
  BY <1>2, ExceptSeq DEF Replaced
<1> QED  BY <1>1, <1>2, <1>3, ElementOfSeq DEF Top

(* What TypeOK says of the frame on top and of the lines of its file.       *)
LEMMA TopTyped ==
  ASSUME TypeOK, stack # <<>>
  PROVE  /\ Len(stack) \in Nat \ {0}
         /\ Top \in Frame
         /\ content \in [File -> Seq(Line)]
         /\ Lines \in Seq(Line)
         /\ Len(Lines) \in Nat
         /\ Top.at <= Len(Lines) + 1
         /\ Top.at <= Len(Lines) => Current \in Line
<1>1. Len(stack) \in Nat \ {0}  BY EmptySeq DEF TypeOK
<1>2. Len(stack) \in 1..Len(stack)  BY <1>1
<1>3. Top \in Frame  BY <1>2, ElementOfSeq DEF TypeOK, Top
<1>4. content \in [File -> Seq(Line)]  BY ContentsAssumption DEF TypeOK
<1>5. Lines \in Seq(Line)  BY <1>3, <1>4 DEF Lines, Frame
<1>6. Top.at <= Len(Lines) + 1  BY <1>2 DEF TypeOK, Lines, Top
<1>7. Top.at <= Len(Lines) => Current \in Line
  BY <1>3, <1>5, ElementOfSeq, LenProperties DEF Current, Frame
<1> QED  BY <1>1, <1>3, <1>4, <1>5, <1>6, <1>7, LenProperties
-----------------------------------------------------------------------------
StackTyped(s) ==
  /\ s \in Seq(Frame)
  /\ \A i \in 1..Len(s) : s[i].at <= Len(content[s[i].file]) + 1

(* The stack keeps its type when the top frame moves on in its file, ...    *)
LEMMA ReplacedTyped ==
  ASSUME TypeOK, stack # <<>>,
         NEW fr \in Frame, fr.file = Top.file, fr.at <= Len(Lines) + 1
  PROVE  StackTyped(Replaced(fr)) /\ Replaced(fr) # <<>>
<1>1. stack \in Seq(Frame) /\ StackTyped(stack)  BY DEF TypeOK, StackTyped
<1>2. ASSUME NEW i \in 1..Len(Replaced(fr))
      PROVE  Replaced(fr)[i].at <= Len(content[Replaced(fr)[i].file]) + 1
  <2>1. CASE i = Len(stack)  BY <1>1, <2>1, ReplacedTop DEF Lines
  <2>2. CASE i # Len(stack)
    <3>1. i \in 1 .. Len(stack) - 1  BY <1>1, <2>2, ReplacedTop
    <3> QED  BY <1>1, <3>1, ReplacedTop DEF StackTyped
  <2> QED  BY <2>1, <2>2
<1> QED  BY <1>1, <1>2, ReplacedTop DEF StackTyped

(* ... when a file is entered, ...                                          *)
LEMMA PushedTyped ==
  ASSUME TypeOK, NEW s, StackTyped(s), NEW f \in File, NEW m \in Label
  PROVE  /\ StackTyped(Append(s, NewFrame(f, m)))
         /\ Append(s, NewFrame(f, m)) # <<>>
<1> DEFINE fr == NewFrame(f, m)
<1>1. fr \in Frame  BY DEF NewFrame, Frame
<1>2. /\ Append(s, fr) \in Seq(Frame)
      /\ Len(Append(s, fr)) = Len(s) + 1
      /\ \A i \in 1..Len(s) : Append(s, fr)[i] = s[i]
      /\ Append(s, fr)[Len(s) + 1] = fr
      /\ Len(s) \in Nat
  BY <1>1, AppendProperties, LenProperties DEF StackTyped
<1>3. Len(content[f]) \in Nat
  BY ContentsAssumption, LenProperties DEF TypeOK
<1>4. fr.at <= Len(content[fr.file]) + 1  BY <1>3 DEF NewFrame
<1>5. ASSUME NEW i \in 1..Len(Append(s, fr))
      PROVE  Append(s, fr)[i].at <= Len(content[Append(s, fr)[i].file]) + 1
  BY <1>2, <1>4 DEF StackTyped
<1> QED  BY <1>2, <1>5, EmptySeq DEF StackTyped

(* ... and when a call returns.                                             *)
LEMMA PoppedTyped ==
  ASSUME TypeOK, stack # <<>>, Len(stack) > 1
  PROVE  /\ StackTyped(SubSeq(stack, 1, Len(stack) - 1))
         /\ Len(SubSeq(stack, 1, Len(stack) - 1)) = Len(stack) - 1
         /\ \A i \in 1 .. Len(stack) - 1 :
              SubSeq(stack, 1, Len(stack) - 1)[i] = stack[i]
<1> DEFINE n == Len(stack) - 1
           popped == SubSeq(stack, 1, n)
<1>1. /\ stack \in Seq(Frame) /\ n \in Nat /\ n >= 1
      /\ \A i \in 1..n : i \in 1..Len(stack) /\ stack[i] \in Frame
  BY LenProperties, ElementOfSeq DEF TypeOK
<1>2. \A i \in 1..n : stack[i].at <= Len(content[stack[i].file]) + 1
  BY <1>1 DEF TypeOK
<1> HIDE DEF n
<1>3. /\ popped \in Seq(Frame) /\ Len(popped) = n
      /\ \A i \in 1..n : popped[i] = stack[i]
  BY <1>1, SubSeqProperties
<1>4. StackTyped(popped)
  <2> HIDE DEF popped
  <2> QED  BY <1>2, <1>3 DEF StackTyped
<1> QED  BY <1>3, <1>4 DEF n

(* An error leaves a well-typed state, whatever the error.                  *)
LEMMA FailTyped ==
  ASSUME TypeOK, NEW err, Fail(err)
  PROVE  TypeOK'
<1>1. EmptyConfig \in Config  BY EmptySeq DEF EmptyConfig, Config
<1>2. classify(err) \in {"permission_denied", "failed"}  BY DEF classify
<1>3. <<>> \in Seq(Frame) /\ Len(<<>>) = 0  BY EmptySeq
<1> QED  BY <1>1, <1>2, <1>3 DEF TypeOK, Fail, Unavailable, env

(* A step inside Load that leaves cfg and section well typed.               *)
LEMMA LoadTyped ==
  ASSUME TypeOK, pc \in {"load", "glob"}, UNCHANGED <<env, loc, section>>,
         pc' = "load", StackTyped(stack'), cfg' \in Config
  PROVE  TypeOK'
  BY DEF TypeOK, StackTyped, env

(* At a line: what is read there, and where the next line is.               *)
LEMMA AtLineTyped ==
  ASSUME TypeOK, NEW kind, AtLine(kind)
  PROVE  /\ Current \in Line /\ Current.kind = kind
         /\ Top \in Frame /\ stack # <<>>
         /\ Top.at <= Len(Lines)
         /\ \A fr \in Frame : fr.file = Top.file /\ fr.at = Top.at + 1
              => StackTyped(Replaced(fr))
<1>1. Current \in Line /\ Current.kind = kind /\ Top \in Frame
      /\ stack # <<>> /\ Top.at <= Len(Lines) /\ Len(Lines) \in Nat
  BY TopTyped DEF AtLine
<1>2. Top.at \in Nat  BY <1>1 DEF Frame
<1>3. ASSUME NEW fr \in Frame, fr.file = Top.file, fr.at = Top.at + 1
      PROVE  StackTyped(Replaced(fr))
  BY <1>1, <1>2, <1>3, ReplacedTyped
<1> QED  BY <1>1, <1>3

LEMMA AdvanceTyped ==
  ASSUME TypeOK, NEW kind, AtLine(kind), AdvanceOnly
  PROVE  StackTyped(stack')
<1> DEFINE fr == [Top EXCEPT !.at = @ + 1]
<1>1. fr \in Frame /\ fr.file = Top.file /\ fr.at = Top.at + 1
  BY AtLineTyped DEF Frame
<1> QED  BY <1>1, AtLineTyped DEF AdvanceOnly

LEMMA FrameMoved ==
  ASSUME NEW fr \in Frame, NEW m \in Label, NEW ps \in Seq(Pattern)
  PROVE  /\ [fr EXCEPT !.at = @ + 1, !.match = m] \in Frame
         /\ [fr EXCEPT !.at = @ + 1, !.match = m].file = fr.file
         /\ [fr EXCEPT !.at = @ + 1, !.match = m].at = fr.at + 1
         /\ [fr EXCEPT !.at = @ + 1, !.patterns = ps] \in Frame
         /\ [fr EXCEPT !.at = @ + 1, !.patterns = ps].file = fr.file
         /\ [fr EXCEPT !.at = @ + 1, !.patterns = ps].at = fr.at + 1
<1>1. fr.at + 1 \in Nat \ {0}  BY DEF Frame
<1> QED  BY <1>1 DEF Frame

LEMMA InitTyped == Init => TypeOK
<1> SUFFICES ASSUME Init PROVE TypeOK  OBVIOUS
<1>1. EmptyConfig \in Config  BY EmptySeq DEF EmptyConfig, Config
<1>2. <<>> \in Seq(Frame) /\ Len(<<>>) = 0  BY EmptySeq
<1>3. 1 \in 1..Len(Locations) + 1
  BY LocationsAssumption, LenProperties
<1> QED
  BY <1>1, <1>2, <1>3, LimitsAssumption
  DEF Init, TypeOK, Pending, Unavailable

LEMMA ParseFileTyped ==
  ASSUME TypeOK, pc = "load",
         NEW f \in File, NEW m \in Label, NEW s, StackTyped(s),
         parseFile(f, m, s)
  PROVE  TypeOK'
<1>1. CASE Fail("limit")  BY <1>1, FailTyped
<1>2. CASE Fail(disk.read[f])  BY <1>2, FailTyped
<1>3. CASE /\ stack' = Append(s, NewFrame(f, m))
           /\ cfg' = [cfg EXCEPT !.files = Append(@, f)]
           /\ UNCHANGED <<env, loc, pc, section>>
  <2>1. cfg' \in Config
    <3>1. Append(cfg.files, f) \in Seq(File)
      BY AppendProperties DEF TypeOK, Config
    <3> QED  BY <1>3, <3>1 DEF TypeOK, Config
  <2>2. StackTyped(stack')  BY <1>3, PushedTyped
  <2> QED  BY <1>3, <2>1, <2>2, LoadTyped
<1> QED  BY <1>1, <1>2, <1>3 DEF parseFile

LEMMA StepTyped ==
  ASSUME TypeOK, Step
  PROVE  TypeOK'
<1>1. CASE NextLocation
  BY <1>1, LocationsAssumption, LenProperties DEF NextLocation, env, TypeOK
<1>2. CASE StatFails  BY <1>2, FailTyped DEF StatFails, TypeOK
<1>3. CASE StartLoad  BY <1>3 DEF StartLoad, env, TypeOK
<1>4. CASE NoLocation
  <2>1. EmptyConfig \in Config  BY EmptySeq DEF EmptyConfig, Config
  <2> QED  BY <1>4, <2>1 DEF NoLocation, Unavailable, env, TypeOK
<1>5. CASE ParseMain
  <2>1. Locations[loc] \in File
    BY <1>5, LocationsAssumption, ElementOfSeq DEF ParseMain, TypeOK
  <2>2. StackTyped(stack)  BY DEF StackTyped, TypeOK
  <2> QED  BY <1>5, <2>1, <2>2, ParseFileTyped DEF ParseMain, Label
<1>6. CASE ParseMatch
  <2> DEFINE fr == [Top EXCEPT !.matches = Tail(@)]
  <2>1. /\ Top \in Frame /\ Top.at <= Len(Lines) + 1
        /\ stack # <<>> /\ Top.matches # <<>>
    BY <1>6, TopTyped DEF ParseMatch
  <2>2. Head(Top.matches) \in File /\ Tail(Top.matches) \in Seq(File)
    BY <2>1, HeadTailProperties DEF Frame
  <2>3. fr \in Frame /\ fr.file = Top.file /\ fr.at = Top.at
    BY <2>1, <2>2 DEF Frame
  <2>4. StackTyped(Replaced(fr))  BY <2>1, <2>3, ReplacedTyped
  <2>5. Top.match \in Label  BY <2>1 DEF Frame
  <2> QED  BY <1>6, <2>2, <2>4, <2>5, ParseFileTyped DEF ParseMatch
<1>7. CASE BlankLine
  <2>1. AtLine("blank") /\ AdvanceOnly /\ UNCHANGED <<env, loc, pc, cfg, section>>
    BY <1>7 DEF BlankLine
  <2> QED  BY <2>1, AdvanceTyped, LoadTyped DEF AtLine, TypeOK
<1>8. CASE BadLine  BY <1>8, FailTyped DEF BadLine
<1>9. CASE UnknownLine
  <2>1. AtLine("unknown") /\ AdvanceOnly /\ UNCHANGED <<env, loc, pc, section>>
        /\ cfg' = [cfg EXCEPT !.ignored = @ + 1]
    BY <1>9 DEF UnknownLine
  <2>2. cfg \in Config  BY DEF TypeOK
  <2>3. cfg' \in Config  BY <2>1, <2>2 DEF Config
  <2> QED  BY <2>1, <2>3, AdvanceTyped, LoadTyped DEF AtLine
<1>10. CASE MatchLine
  <2> DEFINE fr == [Top EXCEPT !.at = @ + 1, !.match = Current.criteria]
  <2>1. AtLine("match") /\ stack' = Replaced(fr)
        /\ UNCHANGED <<env, loc, pc, cfg, section>>
    BY <1>10 DEF MatchLine
  <2>2. fr \in Frame /\ fr.file = Top.file /\ fr.at = Top.at + 1
    <3>1. Top \in Frame /\ Current.criteria \in Label
      BY <2>1, AtLineTyped, LineFields DEF Label
    <3>2. <<>> \in Seq(Pattern)  BY EmptySeq
    <3> QED  BY <3>1, <3>2, FrameMoved
  <2> QED  BY <2>1, <2>2, AtLineTyped, LoadTyped DEF AtLine, TypeOK
<1>11. CASE TooManyDirectives  BY <1>11, FailTyped DEF TooManyDirectives
<1>12. CASE DirectiveLine
  <2> DEFINE d == [keyword |-> Current.keyword, args |-> Current.args,
                   file |-> Top.file, line |-> Top.at, match |-> Top.match]
  <2>1. AtLine("directive") /\ AdvanceOnly /\ UNCHANGED <<env, loc, pc, section>>
        /\ cfg' = [cfg EXCEPT !.directives = Append(@, d)]
    BY <1>12 DEF DirectiveLine
  <2>2. d \in Directive
    BY <2>1, AtLineTyped, LineFields DEF Frame, Directive
  <2>3. Append(cfg.directives, d) \in Seq(Directive)
    BY <2>2, AppendProperties DEF Config, TypeOK
  <2>4. cfg' \in Config  BY <2>1, <2>3 DEF Config, TypeOK
  <2> QED  BY <2>1, <2>4, AdvanceTyped, LoadTyped DEF AtLine
<1>13. CASE IncludeLine
  <2> DEFINE fr == [Top EXCEPT !.at = @ + 1, !.patterns = Current.patterns]
  <2>1. AtLine("include") /\ stack' = Replaced(fr)
        /\ UNCHANGED <<env, loc, pc, cfg, section>>
    BY <1>13 DEF IncludeLine
  <2>2. fr \in Frame /\ fr.file = Top.file /\ fr.at = Top.at + 1
    <3>1. Top \in Frame /\ Current.patterns \in Seq(Pattern)
      BY <2>1, AtLineTyped, LineFields
    <3> QED  BY <3>1, FrameMoved DEF Label
  <2> QED  BY <2>1, <2>2, AtLineTyped, LoadTyped DEF AtLine, TypeOK
<1>14. CASE IncludeRejected  BY <1>14, FailTyped DEF IncludeRejected
<1>15. CASE Probe  BY <1>15 DEF Probe, env, AtPattern, Top, TypeOK
<1>16. CASE GlobFails  BY <1>16, FailTyped DEF GlobFails
<1>17. CASE Glob
  <2> DEFINE fr == [Top EXCEPT !.patterns = Tail(@),
                               !.matches = disk.listing[Wanted]]
  <2>1. /\ Top \in Frame /\ Top.at <= Len(Lines) + 1
        /\ stack # <<>> /\ Top.patterns # <<>>
    BY <1>17, TopTyped DEF Glob, AtPattern
  <2>2. Wanted \in Pattern /\ Tail(Top.patterns) \in Seq(Pattern)
    BY <2>1, HeadTailProperties DEF Frame, Wanted
  <2>3. disk.listing[Wanted] \in Seq(File)
    BY <2>2, DisksAssumption DEF Disk, TypeOK
  <2>4. fr \in Frame /\ fr.file = Top.file /\ fr.at = Top.at
    BY <2>1, <2>2, <2>3 DEF Frame
  <2>5. StackTyped(Replaced(fr))  BY <2>1, <2>4, ReplacedTyped
  <2> QED  BY <1>17, <2>5, LoadTyped DEF Glob, TypeOK
<1>18. CASE Return
  <2>1. StackTyped(stack')  BY <1>18, PoppedTyped DEF Return, AtEnd
  <2> QED  BY <1>18, <2>1, LoadTyped DEF Return, AtEnd, TypeOK
<1>19. CASE Loaded
  <2>1. <<>> \in Seq(Frame) /\ Len(<<>>) = 0  BY EmptySeq
  <2> QED  BY <1>19, <2>1 DEF Loaded, CollectedSection, env, TypeOK
<1> QED
  BY <1>1, <1>2, <1>3, <1>4, <1>5, <1>6, <1>7, <1>8, <1>9, <1>10, <1>11,
     <1>12, <1>13, <1>14, <1>15, <1>16, <1>17, <1>18, <1>19 DEF Step

(* Every reachable state is well typed: no interleaving of the collection   *)
(* with changes of the disk takes a variable out of its range.              *)
THEOREM TypeCorrect == Spec => []TypeOK
<1>1. Init => TypeOK  BY InitTyped
<1>2. TypeOK /\ [Next]_vars => TypeOK'
  <2> SUFFICES ASSUME TypeOK, [Next]_vars PROVE TypeOK'  OBVIOUS
  <2>1. CASE Step  BY <2>1, StepTyped
  <2>2. CASE DiskChanges
    BY <2>2, LimitsAssumption DEF DiskChanges, TypeOK, AtPattern, Top
  <2>3. CASE UNCHANGED vars
    BY <2>3 DEF vars, TypeOK, AtPattern, Top
  <2> QED  BY <2>1, <2>2, <2>3 DEF Next, Done
<1> QED  BY <1>1, <1>2, PTL DEF Spec
-----------------------------------------------------------------------------
(* MatchScope of a stack that need not be the current one.                  *)
StackScoped(s) ==
  \A i \in 1..Len(s) :
    /\ ScopedAt(s[i].file, s[i].at, s[i].match,
                IF i = 1 THEN Global ELSE s[i - 1].match)
    /\ s[i].match = Global
         => \A j \in 1..i : BeforeAnyMatch(s[j].file, s[j].at)

LEMMA ScopeNow == MatchScope <=> StackScoped(stack)
  BY DEF MatchScope, StackScoped, Inherited

LEMMA ScopeNext ==
  ASSUME content' = content, StackScoped(stack')
  PROVE  MatchScope'
  BY DEF MatchScope, StackScoped, Inherited, ScopedAt, Governs, BeforeAnyMatch

(* A line that is not a Match line leaves the scope as it is; ...           *)
LEMMA OtherLineScope ==
  ASSUME NEW f, NEW n \in Nat \ {0}, content[f][n].kind # "match"
  PROVE  /\ BeforeAnyMatch(f, n) => BeforeAnyMatch(f, n + 1)
         /\ BeforeAnyMatch(f, n + 1) => BeforeAnyMatch(f, n)
         /\ \A label, inherited :
              ScopedAt(f, n, label, inherited) => ScopedAt(f, n + 1, label, inherited)
<1>1. /\ BeforeAnyMatch(f, n) => BeforeAnyMatch(f, n + 1)
      /\ BeforeAnyMatch(f, n + 1) => BeforeAnyMatch(f, n)
  BY DEF BeforeAnyMatch
<1>2. ASSUME NEW m \in 1 .. (n + 1) - 1, Governs(f, m, n + 1)
      PROVE  m \in 1 .. n - 1 /\ Governs(f, m, n)
  BY <1>2 DEF Governs
<1> QED  BY <1>1, <1>2 DEF ScopedAt

(* ... a Match line is the scope of what follows it.                        *)
LEMMA MatchLineScope ==
  ASSUME NEW f, NEW n \in Nat \ {0}, content[f][n].kind = "match"
  PROVE  /\ ~BeforeAnyMatch(f, n + 1)
         /\ \A inherited :
              ScopedAt(f, n + 1, content[f][n].criteria, inherited)
<1>1. n \in 1 .. (n + 1) - 1  OBVIOUS
<1>2. ~BeforeAnyMatch(f, n + 1)  BY <1>1 DEF BeforeAnyMatch
<1>3. ASSUME NEW m \in 1 .. (n + 1) - 1, Governs(f, m, n + 1)
      PROVE  m = n
  BY <1>3 DEF Governs
<1> QED  BY <1>2, <1>3 DEF ScopedAt

(* The scope of a stack survives a change of its top frame that is in scope *)
(* itself, a call and a return.                                             *)
LEMMA ReplacedScope ==
  ASSUME TypeOK, stack # <<>>, StackScoped(stack), NEW fr \in Frame,
         ScopedAt(fr.file, fr.at, fr.match, Inherited(Len(stack))),
         fr.match = Global =>
           /\ Top.match = Global
           /\ BeforeAnyMatch(fr.file, fr.at)
  PROVE  StackScoped(Replaced(fr))
<1> DEFINE n == Len(stack)  s == Replaced(fr)
<1>1. /\ n \in Nat \ {0} /\ Len(s) = n /\ s[n] = fr
      /\ \A i \in 1 .. n - 1 : s[i] = stack[i]
  BY ReplacedTop DEF TypeOK
<1>2. ASSUME NEW i \in 1..n
      PROVE  ScopedAt(s[i].file, s[i].at, s[i].match,
                      IF i = 1 THEN Global ELSE s[i - 1].match)
  <2>1. CASE i = n  BY <1>1, <2>1 DEF Inherited
  <2>2. CASE i # n  BY <1>1, <2>2 DEF StackScoped
  <2> QED  BY <2>1, <2>2
<1>3. ASSUME NEW i \in 1..n, s[i].match = Global, NEW j \in 1..i
      PROVE  BeforeAnyMatch(s[j].file, s[j].at)
  <2>1. stack[i].match = Global  BY <1>1, <1>3 DEF Top
  <2>2. CASE j = n  BY <1>1, <1>3, <2>2
  <2>3. CASE j # n  BY <1>1, <2>1, <2>3 DEF StackScoped
  <2> QED  BY <2>2, <2>3
<1> HIDE DEF s, n
<1>4. StackScoped(s)  BY <1>1, <1>2, <1>3 DEF StackScoped
<1> QED  BY <1>4 DEF s

LEMMA PushedScope ==
  ASSUME NEW s \in Seq(Frame), StackScoped(s),
         NEW f \in File, NEW m \in Label,
         m = IF s = <<>> THEN Global ELSE s[Len(s)].match
  PROVE  StackScoped(Append(s, NewFrame(f, m)))
<1> DEFINE fr == NewFrame(f, m)  n == Len(s)  t == Append(s, fr)
<1>1. fr \in Frame /\ fr.file = f /\ fr.at = 1 /\ fr.match = m
  BY DEF NewFrame, Frame
<1>2. /\ n \in Nat /\ Len(t) = n + 1 /\ t[n + 1] = fr
      /\ \A i \in 1..n : t[i] = s[i]
  BY <1>1, AppendProperties, LenProperties
<1>3. (s = <<>>) <=> (n = 0)  BY EmptySeq
<1>4. m = IF n = 0 THEN Global ELSE s[n].match  BY <1>3
<1>5. ScopedAt(f, 1, m, m) /\ BeforeAnyMatch(f, 1)
  BY DEF ScopedAt, BeforeAnyMatch
<1> HIDE DEF fr, n, t
<1>6. ASSUME NEW i \in 1 .. n + 1
      PROVE  ScopedAt(t[i].file, t[i].at, t[i].match,
                      IF i = 1 THEN Global ELSE t[i - 1].match)
  <2>1. CASE i = n + 1
    <3>1. m = IF i = 1 THEN Global ELSE t[i - 1].match  BY <1>2, <1>4, <2>1
    <3> QED  BY <1>1, <1>2, <1>5, <2>1, <3>1
  <2>2. CASE i # n + 1
    <3>1. i \in 1..n /\ t[i] = s[i]  BY <1>2, <2>2
    <3>2. i # 1 => t[i - 1] = s[i - 1]  BY <1>2, <2>2
    <3>3. CASE i = 1  BY <3>1, <3>3 DEF StackScoped, n
    <3>4. CASE i # 1  BY <3>1, <3>2, <3>4 DEF StackScoped, n
    <3> QED  BY <3>3, <3>4
  <2> QED  BY <2>1, <2>2
<1>7. ASSUME NEW i \in 1 .. n + 1, t[i].match = Global, NEW j \in 1..i
      PROVE  BeforeAnyMatch(t[j].file, t[j].at)
  <2>1. CASE j = n + 1  BY <1>1, <1>2, <1>5, <2>1
  <2>2. CASE j # n + 1 /\ i # n + 1
    BY <1>2, <1>7, <2>2 DEF StackScoped, n
  <2>3. CASE j # n + 1 /\ i = n + 1
    <3>1. n \in 1..n /\ j \in 1..n  BY <1>2, <2>3
    <3>2. s[n].match = Global  BY <1>1, <1>2, <1>4, <1>7, <2>3, <3>1
    <3> QED  BY <1>2, <3>1, <3>2 DEF StackScoped, n
  <2> QED  BY <2>1, <2>2, <2>3
<1> QED  BY <1>2, <1>6, <1>7 DEF StackScoped, t, fr

LEMMA PoppedScope ==
  ASSUME TypeOK, stack # <<>>, Len(stack) > 1, StackScoped(stack)
  PROVE  StackScoped(SubSeq(stack, 1, Len(stack) - 1))
<1> DEFINE t == SubSeq(stack, 1, Len(stack) - 1)
<1>1. /\ Len(stack) \in Nat /\ Len(t) = Len(stack) - 1
      /\ \A i \in 1 .. Len(stack) - 1 : t[i] = stack[i]
  BY PoppedTyped, TopTyped
<1> HIDE DEF t
<1> QED  BY <1>1 DEF StackScoped, t
-----------------------------------------------------------------------------
(* A label stands for a Match block only if it is not the label of the      *)
(* global section: no Match line joins to "".                               *)
CriteriaAreNotEmpty == Global \notin Criteria

LEMMA EmptyStackScoped == StackScoped(<<>>)
  BY EmptySeq DEF StackScoped

(* A line that is not a Match line is passed.                               *)
LEMMA PassedScope ==
  ASSUME TypeOK, StackScoped(stack), NEW kind, kind # "match", AtLine(kind),
         NEW fr \in Frame, fr.file = Top.file, fr.at = Top.at + 1,
         fr.match = Top.match
  PROVE  StackScoped(Replaced(fr))
<1>1. /\ Top \in Frame /\ stack # <<>> /\ Len(stack) \in 1..Len(stack)
      /\ Top.at \in Nat \ {0}
      /\ content[Top.file][Top.at].kind # "match"
  BY AtLineTyped, TopTyped DEF Frame, Current, Lines
<1>2. ScopedAt(Top.file, Top.at, Top.match, Inherited(Len(stack)))
  BY <1>1 DEF StackScoped, Inherited, Top
<1>3. ScopedAt(fr.file, fr.at, fr.match, Inherited(Len(stack)))
  BY <1>1, <1>2, OtherLineScope
<1>4. Top.match = Global => BeforeAnyMatch(Top.file, Top.at)
  BY <1>1 DEF StackScoped, Top
<1>5. fr.match = Global => Top.match = Global /\ BeforeAnyMatch(fr.file, fr.at)
  BY <1>1, <1>4, OtherLineScope
<1> QED  BY <1>1, <1>3, <1>5, ReplacedScope

(* A frame that stays at its line keeps its scope.                          *)
LEMMA StayedScope ==
  ASSUME TypeOK, StackScoped(stack), stack # <<>>,
         NEW fr \in Frame, fr.file = Top.file, fr.at = Top.at,
         fr.match = Top.match
  PROVE  StackScoped(Replaced(fr))
<1>1. Len(stack) \in 1..Len(stack)  BY TopTyped
<1>2. ScopedAt(fr.file, fr.at, fr.match, Inherited(Len(stack)))
  BY <1>1 DEF StackScoped, Inherited, Top
<1>3. fr.match = Global => BeforeAnyMatch(fr.file, fr.at)
  BY <1>1 DEF StackScoped, Top
<1> QED  BY <1>2, <1>3, ReplacedScope

LEMMA ParseFileScope ==
  ASSUME TypeOK, NEW s \in Seq(Frame), StackScoped(s),
         NEW f \in File, NEW m \in Label,
         m = IF s = <<>> THEN Global ELSE s[Len(s)].match,
         parseFile(f, m, s)
  PROVE  StackScoped(stack')
  BY EmptyStackScoped, PushedScope DEF parseFile, Fail

LEMMA StepScope ==
  ASSUME CriteriaAreNotEmpty, TypeOK, StackScoped(stack), Step
  PROVE  StackScoped(stack')
<1>1. CASE UNCHANGED stack  BY <1>1
<1>2. CASE stack' = <<>>  BY <1>2, EmptyStackScoped
<1>3. CASE ParseMain
  <2>1. stack = <<>> /\ stack \in Seq(Frame) /\ Locations[loc] \in File
    BY <1>3, LocationsAssumption, ElementOfSeq DEF ParseMain, TypeOK
  <2> QED  BY <1>3, <2>1, ParseFileScope DEF ParseMain, Label
<1>4. CASE ParseMatch
  <2> DEFINE fr == [Top EXCEPT !.matches = Tail(@)]
  <2>1. Top \in Frame /\ stack # <<>> /\ Top.matches # <<>>
    BY <1>4, TopTyped DEF ParseMatch
  <2>2. Head(Top.matches) \in File /\ Tail(Top.matches) \in Seq(File)
    BY <2>1, HeadTailProperties DEF Frame
  <2>3. /\ fr \in Frame /\ fr.file = Top.file
        /\ fr.at = Top.at /\ fr.match = Top.match
    BY <2>1, <2>2 DEF Frame
  <2> HIDE DEF fr
  <2>4. StackScoped(Replaced(fr))  BY <2>1, <2>3, StayedScope
  <2>5. /\ Replaced(fr) \in Seq(Frame) /\ Replaced(fr) # <<>>
        /\ Replaced(fr)[Len(Replaced(fr))].match = Top.match
    <3>1. stack \in Seq(Frame)  BY DEF TypeOK
    <3> QED  BY <2>1, <2>3, <3>1, ReplacedTop
  <2>6. Top.match \in Label  BY <2>1 DEF Frame
  <2>7. parseFile(Head(Top.matches), Top.match, Replaced(fr))
    BY <1>4 DEF ParseMatch, fr
  <2> QED  BY <2>2, <2>4, <2>5, <2>6, <2>7, ParseFileScope
<1>5. ASSUME NEW kind, kind # "match", AtLine(kind), AdvanceOnly
      PROVE  StackScoped(stack')
  <2> DEFINE fr == [Top EXCEPT !.at = @ + 1]
  <2>1. /\ fr \in Frame /\ fr.file = Top.file
        /\ fr.at = Top.at + 1 /\ fr.match = Top.match
    BY <1>5, AtLineTyped DEF Frame
  <2> QED  BY <1>5, <2>1, PassedScope DEF AdvanceOnly
<1>6. CASE MatchLine
  <2> DEFINE fr == [Top EXCEPT !.at = @ + 1, !.match = Current.criteria]
  <2>1. AtLine("match") /\ stack' = Replaced(fr)  BY <1>6 DEF MatchLine
  <2>2. Top \in Frame /\ Current.criteria \in Criteria /\ stack # <<>>
        /\ Top.at \in Nat \ {0} /\ content[Top.file][Top.at].kind = "match"
    BY <2>1, AtLineTyped, LineFields DEF Frame, Current, Lines
  <2>3. fr \in Frame /\ fr.file = Top.file /\ fr.at = Top.at + 1
    <3>1. <<>> \in Seq(Pattern)  BY EmptySeq
    <3> QED  BY <2>2, <3>1, FrameMoved DEF Label
  <2>4. fr.match = Current.criteria  BY <2>2 DEF Frame
  <2>5. ScopedAt(fr.file, fr.at, fr.match, Inherited(Len(stack)))
    BY <2>2, <2>3, <2>4, MatchLineScope DEF Current, Lines
  <2>6. fr.match # Global  BY <2>2, <2>4 DEF CriteriaAreNotEmpty
  <2> HIDE DEF fr
  <2> QED  BY <2>1, <2>2, <2>3, <2>5, <2>6, ReplacedScope
<1>7. CASE IncludeLine
  <2> DEFINE fr == [Top EXCEPT !.at = @ + 1, !.patterns = Current.patterns]
  <2>1. AtLine("include") /\ stack' = Replaced(fr)  BY <1>7 DEF IncludeLine
  <2>2. Top \in Frame /\ Current.patterns \in Seq(Pattern)
    BY <2>1, AtLineTyped, LineFields
  <2>3. fr \in Frame /\ fr.file = Top.file /\ fr.at = Top.at + 1
    BY <2>2, FrameMoved DEF Label
  <2>4. fr.match = Top.match  BY <2>2 DEF Frame
  <2> HIDE DEF fr
  <2> QED  BY <2>1, <2>3, <2>4, PassedScope
<1>8. CASE Glob
  <2> DEFINE fr == [Top EXCEPT !.patterns = Tail(@),
                               !.matches = disk.listing[Wanted]]
  <2>1. Top \in Frame /\ stack # <<>> /\ Top.patterns # <<>>
    BY <1>8, TopTyped DEF Glob, AtPattern
  <2>2. Wanted \in Pattern /\ Tail(Top.patterns) \in Seq(Pattern)
    BY <2>1, HeadTailProperties DEF Frame, Wanted
  <2>3. disk.listing[Wanted] \in Seq(File)
    BY <2>2, DisksAssumption DEF Disk, TypeOK
  <2>4. /\ fr \in Frame /\ fr.file = Top.file
        /\ fr.at = Top.at /\ fr.match = Top.match
    BY <2>1, <2>2, <2>3 DEF Frame
  <2> QED  BY <1>8, <2>1, <2>4, StayedScope DEF Glob
<1>9. CASE Return  BY <1>9, PoppedScope DEF Return, AtEnd
<1> QED
  BY <1>1, <1>2, <1>3, <1>4, <1>5, <1>6, <1>7, <1>8, <1>9
  DEF Step, NextLocation, StatFails, StartLoad, NoLocation, BlankLine, BadLine,
      UnknownLine, TooManyDirectives, DirectiveLine, IncludeRejected, Probe,
      GlobFails, Loaded, Fail
-----------------------------------------------------------------------------
Invariant ==
  /\ TypeOK
  /\ LimitsHold
  /\ MatchScope
  /\ DirectivesAreFaithful

(* The three ways a step changes the configuration: not at all, by an error  *)
(* or a file, or by one directive.                                          *)
LEMMA CfgSteps ==
  ASSUME Step
  PROVE  \/ cfg' = cfg
         \/ cfg' = EmptyConfig
         \/ cfg' = [cfg EXCEPT !.ignored = @ + 1]
         \/ \E f \in {Locations[loc], Head(Top.matches)} :
              /\ ~FilesExhausted
              /\ cfg' = [cfg EXCEPT !.files = Append(@, f)]
         \/ DirectiveLine
  BY DEF Step, NextLocation, StatFails, StartLoad, NoLocation, ParseMain,
         ParseMatch, parseFile, BlankLine, BadLine, UnknownLine, MatchLine,
         TooManyDirectives, IncludeLine, IncludeRejected, Probe, GlobFails,
         Glob, Return, Loaded, Fail

(* The directive a line adds.                                               *)
LEMMA DirectiveAdded ==
  ASSUME TypeOK, DirectiveLine
  PROVE  \E d \in Directive :
           /\ cfg' = [cfg EXCEPT !.directives = Append(@, d)]
           /\ d.file = Top.file /\ d.line = Top.at /\ d.match = Top.match
           /\ d.line <= Len(content[d.file])
           /\ content[d.file][d.line] =
                [kind |-> "directive", keyword |-> d.keyword, args |-> d.args]
<1> DEFINE d == [keyword |-> Current.keyword, args |-> Current.args,
                 file |-> Top.file, line |-> Top.at, match |-> Top.match]
<1>1. AtLine("directive") /\ cfg' = [cfg EXCEPT !.directives = Append(@, d)]
  BY DEF DirectiveLine
<1>2. /\ Top \in Frame /\ Top.at <= Len(Lines)
      /\ Current.keyword \in Keyword /\ Current.args \in Arg
      /\ Current = [kind |-> "directive", keyword |-> Current.keyword,
                    args |-> Current.args]
  BY <1>1, AtLineTyped, LineFields
<1>3. d \in Directive  BY <1>2 DEF Frame, Directive
<1> QED  BY <1>1, <1>2, <1>3 DEF Current, Lines

LEMMA StepLimits ==
  ASSUME TypeOK, TypeOK', LimitsHold, Step
  PROVE  LimitsHold'
<1>1. cfg \in Config /\ EmptyConfig \in Config /\ Len(<<>>) = 0
  BY EmptySeq DEF TypeOK, EmptyConfig, Config
<1>2. Len(cfg'.files) <= MaxFiles /\ Len(cfg'.directives) <= MaxDirectives
  <2>1. CASE cfg' = cfg  BY <2>1 DEF LimitsHold
  <2>2. CASE cfg' = EmptyConfig
    BY <1>1, <2>2, LimitsAssumption DEF EmptyConfig
  <2>3. CASE cfg' = [cfg EXCEPT !.ignored = @ + 1]
    BY <1>1, <2>3 DEF LimitsHold, Config
  <2>4. ASSUME NEW f, ~FilesExhausted,
               cfg' = [cfg EXCEPT !.files = Append(@, f)]
        PROVE  Len(cfg'.files) <= MaxFiles /\ Len(cfg'.directives) <= MaxDirectives
    <3>1. /\ cfg'.files = Append(cfg.files, f)
          /\ cfg'.directives = cfg.directives
      BY <1>1, <2>4 DEF Config
    <3>2. Len(cfg.files) \in Nat /\ Len(Append(cfg.files, f)) = Len(cfg.files) + 1
      BY <1>1, LenProperties DEF Config
    <3> QED
      BY <2>4, <3>1, <3>2, LimitsAssumption DEF LimitsHold, FilesExhausted
  <2>5. CASE DirectiveLine
    <3>1. PICK d \in Directive : cfg' = [cfg EXCEPT !.directives = Append(@, d)]
      BY <2>5, DirectiveAdded
    <3>2. /\ cfg'.files = cfg.files
          /\ cfg'.directives = Append(cfg.directives, d)
      BY <1>1, <3>1 DEF Config
    <3>3. /\ Len(cfg.directives) \in Nat
          /\ Len(Append(cfg.directives, d)) = Len(cfg.directives) + 1
      BY <1>1, LenProperties DEF Config
    <3>4. ~(Len(cfg.directives) >= MaxDirectives)
      BY <2>5 DEF DirectiveLine, DirectivesExhausted
    <3> QED  BY <3>2, <3>3, <3>4, LimitsAssumption DEF LimitsHold
  <2> QED  BY <2>1, <2>2, <2>3, <2>4, <2>5, CfgSteps
<1>3. Len(stack') <= MaxDepth + 1
  <2>1. stack \in Seq(Frame) /\ Len(stack) \in Nat /\ Len(stack) <= MaxDepth + 1
    BY LenProperties DEF TypeOK, LimitsHold
  <2>2. CASE stack' = stack  BY <2>1, <2>2
  <2>3. CASE stack' = <<>>  BY <2>3, <1>1, LimitsAssumption
  <2>4. ASSUME NEW fr, stack' = Replaced(fr), stack # <<>>
        PROVE  Len(stack') = Len(stack)
    BY <2>1, <2>4 DEF Replaced
  <2>5. CASE ParseMain
    <3>1. CASE stack' = Append(stack, NewFrame(Locations[loc], Global))
      <4>1. stack = <<>> /\ Len(stack') = Len(stack) + 1
        BY <2>1, <2>5, <3>1 DEF ParseMain
      <4> QED  BY <4>1, <1>1, LimitsAssumption
    <3> QED  BY <2>3, <2>5, <3>1 DEF ParseMain, parseFile, Fail
  <2>6. CASE ParseMatch
    <3> DEFINE fr == [Top EXCEPT !.matches = Tail(@)]
    <3>1. stack # <<>> /\ Top \in Frame /\ Top.matches # <<>>
      BY <2>6, TopTyped DEF ParseMatch
    <3>2. fr \in Frame  BY <3>1, HeadTailProperties DEF Frame
    <3>3. CASE /\ ~DepthExceeded
               /\ stack' = Append(Replaced(fr),
                                  NewFrame(Head(Top.matches), Top.match))
      <4>1. /\ Replaced(fr) \in Seq(Frame)
            /\ Len(Replaced(fr)) = Len(stack)
        BY <2>1, <3>1, <3>2, ReplacedTop
      <4>2. Len(stack') = Len(stack) + 1  BY <3>3, <4>1
      <4> QED  BY <2>1, <3>3, <4>2, LimitsAssumption DEF DepthExceeded
    <3> QED  BY <2>3, <2>6, <3>3 DEF ParseMatch, parseFile, Fail
  <2>7. CASE Return
    BY <2>1, <2>7, PoppedTyped, LimitsAssumption DEF Return, AtEnd
  <2>8. Step => \/ stack' = stack
                \/ stack' = <<>>
                \/ \E fr : stack # <<>> /\ stack' = Replaced(fr)
                \/ ParseMain \/ ParseMatch \/ Return
    BY DEF Step, NextLocation, StatFails, StartLoad, NoLocation, BlankLine,
           BadLine, UnknownLine, MatchLine, TooManyDirectives, DirectiveLine,
           AdvanceOnly, AtLine, IncludeLine, IncludeRejected, Probe, GlobFails,
           Glob, AtPattern, Loaded, Fail
  <2> QED  BY <2>1, <2>2, <2>3, <2>4, <2>5, <2>6, <2>7, <2>8
<1> QED  BY <1>2, <1>3 DEF LimitsHold

AllFaithful(ds) == \A i \in 1..Len(ds) : Faithful(ds[i])

LEMMA FaithfulNext ==
  ASSUME content' = content, AllFaithful(cfg'.directives)
  PROVE  DirectivesAreFaithful'
  BY DEF AllFaithful, DirectivesAreFaithful, Faithful, Governs

LEMMA StepFaithful ==
  ASSUME TypeOK, StackScoped(stack), DirectivesAreFaithful, Step
  PROVE  AllFaithful(cfg'.directives)
<1>1. cfg \in Config /\ AllFaithful(cfg.directives)
  BY DEF TypeOK, DirectivesAreFaithful, AllFaithful
<1>2. CASE cfg'.directives = cfg.directives  BY <1>1, <1>2
<1>3. CASE cfg' = EmptyConfig
  <2>1. cfg'.directives = <<>> /\ Len(<<>>) = 0
    BY <1>3, EmptySeq DEF EmptyConfig
  <2> QED  BY <2>1 DEF AllFaithful
<1>4. CASE DirectiveLine
  <2>1. PICK d \in Directive :
          /\ cfg' = [cfg EXCEPT !.directives = Append(@, d)]
          /\ d.file = Top.file /\ d.line = Top.at /\ d.match = Top.match
          /\ d.line <= Len(content[d.file])
          /\ content[d.file][d.line] =
               [kind |-> "directive", keyword |-> d.keyword, args |-> d.args]
    BY <1>4, DirectiveAdded
  <2>2. cfg'.directives = Append(cfg.directives, d)  BY <1>1, <2>1 DEF Config
  <2>3. /\ Len(cfg.directives) \in Nat
        /\ Len(cfg'.directives) = Len(cfg.directives) + 1
        /\ cfg'.directives[Len(cfg.directives) + 1] = d
        /\ \A i \in 1..Len(cfg.directives) :
             cfg'.directives[i] = cfg.directives[i]
    BY <1>1, <2>2, AppendProperties, LenProperties DEF Config
  <2>4. Len(stack) \in 1..Len(stack)
    BY <1>4, TopTyped DEF DirectiveLine, AtLine
  <2>5. \A m \in 1 .. d.line - 1 :
          Governs(d.file, m, d.line) => d.match = content[d.file][m].criteria
    BY <2>1, <2>4 DEF StackScoped, ScopedAt, Top
  <2>6. Faithful(d)  BY <2>1, <2>5 DEF Faithful
  <2> QED  BY <1>1, <2>3, <2>6 DEF AllFaithful
<1>5. CASE \/ cfg' = cfg
           \/ cfg' = [cfg EXCEPT !.ignored = @ + 1]
           \/ \E f : cfg' = [cfg EXCEPT !.files = Append(@, f)]
  <2>1. cfg'.directives = cfg.directives  BY <1>1, <1>5 DEF Config
  <2> QED  BY <1>2, <2>1
<1> QED  BY <1>3, <1>4, <1>5, CfgSteps

LEMMA ContentFixed ==
  ASSUME Step
  PROVE  content' = content
  BY DEF Step, NextLocation, StatFails, StartLoad, NoLocation, ParseMain,
         ParseMatch, parseFile, BlankLine, BadLine, UnknownLine, MatchLine,
         TooManyDirectives, DirectiveLine, IncludeLine, IncludeRejected,
         Probe, GlobFails, Glob, Return, Loaded, Fail, env

LEMMA InitInvariant == Init => Invariant
<1> SUFFICES ASSUME Init PROVE Invariant  OBVIOUS
<1>1. TypeOK  BY InitTyped
<1>2. Len(<<>>) = 0  BY EmptySeq
<1>3. LimitsHold  BY <1>2, LimitsAssumption DEF Init, LimitsHold, EmptyConfig
<1>4. MatchScope  BY EmptyStackScoped, ScopeNow DEF Init
<1>5. DirectivesAreFaithful
  BY <1>2 DEF Init, DirectivesAreFaithful, EmptyConfig
<1> QED  BY <1>1, <1>3, <1>4, <1>5 DEF Invariant

LEMMA NextInvariant ==
  ASSUME CriteriaAreNotEmpty, Invariant, [Next]_vars
  PROVE  Invariant'
<1> USE DEF Invariant
<1>1. CASE Step
  <2>1. TypeOK'  BY <1>1, StepTyped
  <2>2. StackScoped(stack)  BY ScopeNow
  <2>3. MatchScope'  BY <1>1, <2>2, StepScope, ContentFixed, ScopeNext
  <2>4. DirectivesAreFaithful'
    BY <1>1, <2>2, StepFaithful, ContentFixed, FaithfulNext
  <2> QED  BY <1>1, <2>1, <2>3, <2>4, StepLimits
<1>2. CASE DiskChanges \/ UNCHANGED vars
  <2>1. UNCHANGED <<content, stack, cfg>>  BY <1>2 DEF DiskChanges, vars
  <2>2. TypeOK'
    BY <1>2, LimitsAssumption DEF DiskChanges, vars, TypeOK, AtPattern, Top
  <2>3. MatchScope'
    <3>1. StackScoped(stack')  BY <2>1, ScopeNow
    <3> QED  BY <2>1, <3>1, ScopeNext
  <2>4. LimitsHold'
    BY <2>1 DEF LimitsHold
  <2>5. DirectivesAreFaithful'
    <3>1. AllFaithful(cfg'.directives)
      BY <2>1 DEF AllFaithful, DirectivesAreFaithful
    <3> QED  BY <2>1, <3>1, FaithfulNext
  <2> QED  BY <2>2, <2>3, <2>4, <2>5
<1> QED  BY <1>1, <1>2 DEF Next, Done

(* The parser never exceeds its limits, whatever the files include.         *)
THEOREM LimitsAreKept == Spec => []LimitsHold
<1>1. Init => TypeOK /\ LimitsHold  BY InitInvariant DEF Invariant
<1>2. TypeOK /\ LimitsHold /\ [Next]_vars => LimitsHold'
  <2> SUFFICES ASSUME TypeOK, LimitsHold, [Next]_vars PROVE LimitsHold'
    OBVIOUS
  <2>1. CASE Step  BY <2>1, StepTyped, StepLimits
  <2>2. CASE DiskChanges \/ UNCHANGED vars
    BY <2>2 DEF DiskChanges, vars, LimitsHold
  <2> QED  BY <2>1, <2>2 DEF Next, Done
<1> QED  BY <1>1, <1>2, TypeCorrect, PTL DEF Spec

(* A Match block ends with its file and reaches into the files included     *)
(* from it, at every moment of the collection.                              *)
THEOREM ScopesNestAsFilesDo ==
  ASSUME CriteriaAreNotEmpty
  PROVE  Spec => []MatchScope
<1>1. Invariant => MatchScope  BY DEF Invariant
<1> QED  BY <1>1, InitInvariant, NextInvariant, PTL DEF Spec

(* The directives kept are those of the files, each with its line and the   *)
(* criteria it is under.                                                    *)
THEOREM DirectivesComeFromFiles ==
  ASSUME CriteriaAreNotEmpty
  PROVE  Spec => []DirectivesAreFaithful
<1>1. Invariant => DirectivesAreFaithful  BY DEF Invariant
<1> QED  BY <1>1, InitInvariant, NextInvariant, PTL DEF Spec

(* No directive of a Match block becomes a global setting.                  *)
THEOREM GlobalSettingsAreGlobal ==
  ASSUME CriteriaAreNotEmpty
  PROVE  Spec => GlobalOnlyOutsideMatch
<1> DEFINE Outside ==
      \A i \in Len(cfg.directives) + 1 .. Len(cfg'.directives) :
        cfg'.directives[i].match = Global
          => \A j \in 1..Len(stack) :
               BeforeAnyMatch(stack[j].file, stack[j].at)
<1>1. ASSUME Invariant, [Next]_vars PROVE [Outside]_vars
  <2>1. cfg \in Config /\ Len(cfg.directives) \in Nat
    BY <1>1, LenProperties DEF Invariant, TypeOK, Config
  <2>2. CASE Len(cfg'.directives) <= Len(cfg.directives)
    BY <2>1, <2>2
  <2>3. CASE DirectiveLine
    <3>1. PICK d \in Directive :
            /\ cfg' = [cfg EXCEPT !.directives = Append(@, d)]
            /\ d.match = Top.match
      BY <1>1, <2>3, DirectiveAdded DEF Invariant
    <3>2. cfg'.directives = Append(cfg.directives, d)  BY <2>1, <3>1 DEF Config
    <3>3. /\ Len(cfg'.directives) = Len(cfg.directives) + 1
          /\ cfg'.directives[Len(cfg.directives) + 1] = d
      BY <2>1, <3>2, AppendProperties DEF Config
    <3>4. Len(stack) \in 1..Len(stack)
      BY <1>1, <2>3, TopTyped DEF DirectiveLine, AtLine, Invariant
    <3>5. Top.match = Global => \A j \in 1..Len(stack) :
                                 BeforeAnyMatch(stack[j].file, stack[j].at)
      BY <1>1, <3>4 DEF Invariant, MatchScope, Top
    <3> QED  BY <2>1, <3>1, <3>3, <3>5
  <2>4. CASE Step
    <3>1. CASE cfg'.directives = cfg.directives  BY <2>1, <2>2, <3>1
    <3>2. CASE cfg' = EmptyConfig
      BY <2>1, <2>2, <3>2, EmptySeq DEF EmptyConfig
    <3> QED  BY <2>1, <2>3, <2>4, <3>1, <3>2, CfgSteps DEF Config
  <2>5. CASE cfg' = cfg  BY <2>1, <2>2, <2>5
  <2> QED  BY <1>1, <2>4, <2>5 DEF Next, Done, DiskChanges, vars
<1> QED
  BY <1>1, InitInvariant, NextInvariant, PTL DEF Spec, GlobalOnlyOutsideMatch
-----------------------------------------------------------------------------
(* Nothing is lost.  A call has line n of its file still before it, or is   *)
(* in the middle of its patterns.                                           *)
Waiting(fr, n) ==
  \/ n >= fr.at
  \/ n = fr.at - 1 /\ (fr.patterns # <<>> \/ fr.matches # <<>>)

Open(s, f, n) == \E k \in 1..Len(s) : s[k].file = f /\ Waiting(s[k], n)

NoGap ==
  \A f \in ReadFiles(cfg) : \A n \in 1..Len(content[f]) :
    Honoured(cfg, f, n) \/ Open(stack, f, n)

Named(s) == {s[i] : i \in 1..Len(s)}

(* What a call in the middle of an Include line has done of it: a pattern    *)
(* is still before it, or its files are read or still before it.            *)
Expanded(fr, p) ==
  /\ p \notin Tilde \cup Malformed /\ ~ProbeDenied(p)
  /\ Listed(p) \subseteq ReadFiles(cfg) \cup Named(fr.matches)

Underway(fr) ==
  LET l == content[fr.file][fr.at - 1]
  IN  /\ l.kind = "include"
      /\ churn = 0 => \A i \in 1..Len(l.patterns) :
                        l.patterns[i] \in Named(fr.patterns) \/ Expanded(fr, l.patterns[i])

Expanding(fr) == (fr.patterns # <<>> \/ fr.matches # <<>>) => Underway(fr)

MainIsRead ==
  churn = 0 =>
    /\ pc = "collect" => \A j \in 1 .. loc - 1 : disk.stat[Locations[j]] = "notexist"
    /\ pc \in {"load", "glob"} =>
         /\ FirstFound(loc)
         /\ stack # <<>> => Locations[loc] \in ReadFiles(cfg)

Lossless ==
  /\ pc # "done" => section = Pending
  /\ pc = "collect" => cfg = EmptyConfig
  /\ pc \in {"load", "glob"} => NoGap
  /\ \A k \in 1..Len(stack) : Expanding(stack[k])
  /\ MainIsRead
  /\ pc = "glob" /\ churn = 0 => Wanted \notin Tilde /\ ~ProbeDenied(Wanted)
  /\ NothingIsLost

(* A step that takes nothing away from the configuration.                   *)
Grown ==
  /\ UNCHANGED env
  /\ ReadFiles(cfg) \subseteq ReadFiles(cfg)'
  /\ \A f, n : Kept(cfg, f, n) => Kept(cfg, f, n)'

LEMMA GrownHonoured ==
  ASSUME Grown, NEW f, NEW n, Honoured(cfg, f, n)
  PROVE  Honoured(cfg, f, n)'
  BY DEF Grown, Honoured, Followed, ProbeDenied, Listed, env

LEMMA HonouredFixed ==
  ASSUME UNCHANGED env, NEW c, NEW f, NEW n
  PROVE  Honoured(c, f, n)' <=> Honoured(c, f, n)
<1>1. \A p : Followed(c, p)' <=> Followed(c, p)
  BY DEF Followed, ProbeDenied, Listed, ReadFiles, env
<1> QED  BY <1>1 DEF Honoured, Kept, env

LEMMA GrownExpanding ==
  ASSUME Grown, NEW fr, Expanding(fr)
  PROVE  Expanding(fr)'
<1>1. \A p : Expanded(fr, p) => Expanded(fr, p)'
  BY DEF Grown, Expanded, ProbeDenied, Listed, env
<1>2. Underway(fr) => Underway(fr)'  BY <1>1 DEF Grown, Underway, env
<1> QED  BY <1>2 DEF Expanding

(* An Include line whose last file was read is done with.                   *)
LEMMA UnderwayHonoured ==
  ASSUME NEW fr, fr.patterns = <<>>, fr.matches = <<>>, Underway(fr)'
  PROVE  \A f, n : f = fr.file /\ n = fr.at - 1 => Honoured(cfg, f, n)'
<1>1. Named(fr.patterns) = {} /\ Named(fr.matches) = {}
  BY EmptySeq DEF Named
<1>2. \A p : Expanded(fr, p)' => Followed(cfg, p)'
  BY <1>1 DEF Expanded, Followed
<1> QED  BY <1>1, <1>2 DEF Underway, Honoured

LEMMA SameGrown ==
  ASSUME UNCHANGED <<env, cfg>>
  PROVE  Grown /\ ReadFiles(cfg)' = ReadFiles(cfg)
  BY DEF Grown, ReadFiles, Kept

LEMMA IgnoredGrown ==
  ASSUME TypeOK, UNCHANGED env, cfg' = [cfg EXCEPT !.ignored = @ + 1]
  PROVE  Grown /\ ReadFiles(cfg)' = ReadFiles(cfg)
<1>1. cfg'.files = cfg.files /\ cfg'.directives = cfg.directives
  BY DEF TypeOK, Config
<1> QED  BY <1>1 DEF Grown, ReadFiles, Kept

LEMMA FileGrown ==
  ASSUME TypeOK, UNCHANGED env, NEW f \in File,
         cfg' = [cfg EXCEPT !.files = Append(@, f)]
  PROVE  Grown /\ ReadFiles(cfg)' = ReadFiles(cfg) \cup {f}
<1>1. /\ cfg'.files = Append(cfg.files, f) /\ cfg'.directives = cfg.directives
      /\ cfg.files \in Seq(File)
  BY DEF TypeOK, Config
<1>2. /\ Len(cfg.files) \in Nat /\ Len(cfg'.files) = Len(cfg.files) + 1
      /\ cfg'.files[Len(cfg.files) + 1] = f
      /\ \A i \in 1..Len(cfg.files) : cfg'.files[i] = cfg.files[i]
  BY <1>1, AppendProperties, LenProperties
<1>3. ReadFiles(cfg)' = ReadFiles(cfg) \cup {f}
  BY <1>2 DEF ReadFiles
<1> QED  BY <1>1, <1>3 DEF Grown, Kept

LEMMA DirectiveGrown ==
  ASSUME TypeOK, DirectiveLine
  PROVE  /\ Grown /\ ReadFiles(cfg)' = ReadFiles(cfg)
         /\ \A f, n : f = Top.file /\ n = Top.at => Kept(cfg, f, n)'
<1>1. PICK d \in Directive :
        /\ cfg' = [cfg EXCEPT !.directives = Append(@, d)]
        /\ d.file = Top.file /\ d.line = Top.at
  BY DirectiveAdded
<1>2. /\ cfg'.files = cfg.files /\ cfg'.directives = Append(cfg.directives, d)
      /\ cfg.directives \in Seq(Directive)
  BY <1>1 DEF TypeOK, Config
<1>3. /\ Len(cfg.directives) \in Nat /\ Len(cfg'.directives) = Len(cfg.directives) + 1
      /\ cfg'.directives[Len(cfg.directives) + 1] = d
      /\ \A i \in 1..Len(cfg.directives) : cfg'.directives[i] = cfg.directives[i]
  BY <1>2, AppendProperties, LenProperties
<1>4. ASSUME NEW f, NEW n, Kept(cfg, f, n) PROVE Kept(cfg, f, n)'
  BY <1>3, <1>4 DEF Kept
<1>5. \E i \in 1..Len(cfg'.directives) :
        cfg'.directives[i].file = Top.file /\ cfg'.directives[i].line = Top.at
  <2>1. Len(cfg.directives) + 1 \in 1..Len(cfg'.directives)  BY <1>3
  <2> QED  BY <2>1, <1>1, <1>3
<1>6. UNCHANGED env /\ ReadFiles(cfg)' = ReadFiles(cfg)
  BY <1>2 DEF DirectiveLine, ReadFiles
<1>7. \A f, n : f = Top.file /\ n = Top.at => Kept(cfg, f, n)'
  BY <1>5 DEF Kept
<1> QED  BY <1>4, <1>6, <1>7 DEF Grown

(* Where the frame on top moves on, every line stays open or is done with.   *)
LEMMA ReplacedOpen ==
  ASSUME TypeOK, stack # <<>>, NEW fr \in Frame, fr.file = Top.file,
         NEW f, NEW n, Open(stack, f, n)
  PROVE  \/ Open(Replaced(fr), f, n)
         \/ f = Top.file /\ Waiting(Top, n) /\ ~Waiting(fr, n)
<1> DEFINE s == Replaced(fr)
<1>1. stack \in Seq(Frame)  BY DEF TypeOK
<1>2. /\ Len(stack) \in Nat \ {0} /\ Len(s) = Len(stack) /\ s[Len(stack)] = fr
      /\ \A i \in 1 .. Len(stack) - 1 : s[i] = stack[i]
  BY <1>1, ReplacedTop
<1> HIDE DEF s
<1>3. PICK k \in 1..Len(stack) : stack[k].file = f /\ Waiting(stack[k], n)
  BY DEF Open
<1>4. CASE k = Len(stack)
  <2>1. Top.file = f /\ Waiting(Top, n)  BY <1>3, <1>4 DEF Top
  <2>2. Waiting(fr, n) => Open(s, f, n)
    <3>1. Len(stack) \in 1..Len(s) /\ s[Len(stack)].file = f  BY <1>2, <2>1
    <3> QED  BY <1>2, <3>1 DEF Open
  <2> QED  BY <2>1, <2>2 DEF s
<1>5. CASE k # Len(stack)
  <2>1. k \in 1..Len(s) /\ s[k] = stack[k]  BY <1>2, <1>5
  <2>2. Open(s, f, n)  BY <1>3, <2>1 DEF Open
  <2> QED  BY <2>2 DEF s
<1> QED  BY <1>4, <1>5

AllExpanding(s) == \A k \in 1..Len(s) : Expanding(s[k])

LEMMA MovedGapless ==
  ASSUME TypeOK, NoGap, AllExpanding(stack), stack # <<>>, Grown,
         NEW fr \in Frame, fr.file = Top.file, Expanding(fr)',
         \A f, n : f = Top.file /\ n \in 1..Len(content[f]) /\ Waiting(Top, n)
           => Waiting(fr, n) \/ Honoured(cfg, f, n)'
  PROVE  LET s == Replaced(fr) IN
         /\ \A f \in ReadFiles(cfg) : \A n \in 1..Len(content[f]) :
              Honoured(cfg, f, n)' \/ Open(s, f, n)
         /\ \A k \in 1..Len(s) : \A g : g = s[k] => Expanding(g)'
<1> DEFINE s == Replaced(fr)
<1>1. stack \in Seq(Frame)  BY DEF TypeOK
<1>2. /\ Len(stack) \in Nat \ {0} /\ Len(s) = Len(stack) /\ s[Len(stack)] = fr
      /\ \A i \in 1 .. Len(stack) - 1 : s[i] = stack[i]
  BY <1>1, ReplacedTop
<1>3. ASSUME NEW f \in ReadFiles(cfg), NEW n \in 1..Len(content[f])
      PROVE  Honoured(cfg, f, n)' \/ Open(s, f, n)
  <2>1. CASE Honoured(cfg, f, n)  BY <2>1, GrownHonoured
  <2>2. CASE Open(stack, f, n)  BY <2>2, ReplacedOpen
  <2> QED  BY <2>1, <2>2 DEF NoGap
<1> HIDE DEF s
<1>4. ASSUME NEW k \in 1..Len(s), NEW g, g = s[k] PROVE Expanding(g)'
  <2>1. CASE k = Len(stack)  BY <1>2, <1>4, <2>1
  <2>2. CASE k # Len(stack)
    <3>1. k \in 1..Len(stack) /\ g = stack[k]  BY <1>2, <1>4, <2>2
    <3> QED  BY <3>1, GrownExpanding DEF AllExpanding
  <2> QED  BY <2>1, <2>2
<1> QED  BY <1>3, <1>4 DEF s

-----------------------------------------------------------------------------
LEMMA FailLossless ==
  ASSUME NEW err, Fail(err)
  PROVE  Lossless'
<1>1. Len(<<>>) = 0  BY EmptySeq
<1>2. section'.status # "collected"  BY DEF Fail, Unavailable, classify
<1>3. NothingIsLost'  BY <1>2 DEF NothingIsLost
<1> QED  BY <1>1, <1>3 DEF Lossless, MainIsRead, Fail

(* The frame on top moves on.                                               *)
LEMMA MoveLossless ==
  ASSUME TypeOK, Lossless, pc \in {"load", "glob"}, pc' = "load", stack # <<>>,
         UNCHANGED <<loc, section>>, Grown, ReadFiles(cfg)' = ReadFiles(cfg),
         NEW fr \in Frame, fr.file = Top.file, stack' = Replaced(fr), Expanding(fr)',
         \A f, n : f = Top.file /\ n \in 1..Len(content[f]) /\ Waiting(Top, n)
           => Waiting(fr, n) \/ Honoured(cfg, f, n)'
  PROVE  Lossless'
<1>1. NoGap /\ AllExpanding(stack)  BY DEF Lossless, AllExpanding
<1>2. /\ \A f \in ReadFiles(cfg) : \A n \in 1..Len(content[f]) :
           Honoured(cfg, f, n)' \/ Open(stack', f, n)
      /\ \A k \in 1..Len(stack') : \A g : g = stack'[k] => Expanding(g)'
  BY <1>1, MovedGapless
<1>3. NoGap'  BY <1>2 DEF NoGap, Grown, env, Open
<1>4. (\A k \in 1..Len(stack) : Expanding(stack[k]))'  BY <1>2
<1>5. MainIsRead'  BY DEF Lossless, MainIsRead, FirstFound, Grown, env
<1>6. NothingIsLost' /\ section' = Pending
  BY DEF Lossless, NothingIsLost, Pending, Unavailable
<1> QED  BY <1>3, <1>4, <1>5, <1>6 DEF Lossless, Pending

(* A file is entered.                                                       *)
LEMMA PushLossless ==
  ASSUME TypeOK, Lossless, pc = "load", pc' = "load", UNCHANGED <<env, loc, section>>,
         NEW s \in Seq(Frame), NEW f \in File, NEW m \in Label,
         stack' = Append(s, NewFrame(f, m)),
         cfg' = [cfg EXCEPT !.files = Append(@, f)],
         stack = <<>> => f = Locations[loc],
         \A g \in ReadFiles(cfg) : \A n \in 1..Len(content[g]) :
           Honoured(cfg, g, n)' \/ Open(s, g, n),
         \A k \in 1..Len(s) : \A g : g = s[k] => Expanding(g)'
  PROVE  Lossless'
<1> DEFINE fr == NewFrame(f, m)  n == Len(s)
<1>1. /\ fr \in Frame /\ fr.file = f /\ fr.at = 1 /\ fr.patterns = <<>>
      /\ fr.matches = <<>>
  BY EmptySeq DEF NewFrame, Frame
<1>2. /\ n \in Nat /\ Len(stack') = n + 1 /\ stack'[n + 1] = fr
      /\ \A i \in 1..n : stack'[i] = s[i]
  BY <1>1, AppendProperties, LenProperties
<1> HIDE DEF fr, n
<1>3. ReadFiles(cfg)' = ReadFiles(cfg) \cup {f} /\ Grown  BY FileGrown
<1>4. \A g, i : Open(s, g, i) => Open(stack', g, i)
  <2> SUFFICES ASSUME NEW g, NEW i, Open(s, g, i) PROVE Open(stack', g, i)  OBVIOUS
  <2>1. PICK k \in 1..n : s[k].file = g /\ Waiting(s[k], i)  BY DEF Open, n
  <2>2. k \in 1..Len(stack') /\ stack'[k] = s[k]  BY <1>2, <2>1
  <2> QED  BY <2>1, <2>2 DEF Open
<1>5. \A i \in 1..Len(content[f]) : Open(stack', f, i)
  <2> SUFFICES ASSUME NEW i \in 1..Len(content[f]) PROVE Open(stack', f, i)  OBVIOUS
  <2>1. Waiting(fr, i)  BY <1>1 DEF Waiting
  <2>2. n + 1 \in 1..Len(stack')  BY <1>2
  <2> QED  BY <1>1, <1>2, <2>1, <2>2 DEF Open
<1>6. NoGap'
  <2>1. ASSUME NEW g \in ReadFiles(cfg)', NEW i \in 1..Len(content[g])
        PROVE  Honoured(cfg, g, i)' \/ Open(stack', g, i)
    BY <1>3, <1>4, <1>5
  <2> QED  BY <2>1 DEF NoGap, env, Open
<1>7. (\A k \in 1..Len(stack) : Expanding(stack[k]))'
  <2>1. ASSUME NEW k \in 1..Len(stack'), NEW g, g = stack'[k] PROVE Expanding(g)'
    <3>1. CASE k = n + 1
      <4>1. g.patterns = <<>> /\ g.matches = <<>>  BY <1>1, <1>2, <2>1, <3>1
      <4> QED  BY <4>1 DEF Expanding
    <3>2. CASE k # n + 1
      <4>1. k \in 1..Len(s) /\ g = s[k]  BY <1>2, <2>1, <3>2 DEF n
      <4> QED  BY <4>1
    <3> QED  BY <3>1, <3>2
  <2> QED  BY <2>1
<1>8. MainIsRead'
  BY <1>3 DEF Lossless, MainIsRead, FirstFound, env
<1>9. NothingIsLost' /\ section' = Pending
  BY DEF Lossless, NothingIsLost, Pending, Unavailable
<1> QED  BY <1>6, <1>7, <1>8, <1>9 DEF Lossless, Pending

(* The next line: the frame's new place is just past it.                    *)
LEMMA AdvanceLossless ==
  ASSUME TypeOK, Lossless, NEW kind, AtLine(kind), pc' = pc,
         UNCHANGED <<loc, section>>, Grown, ReadFiles(cfg)' = ReadFiles(cfg),
         NEW fr \in Frame, fr.file = Top.file, fr.at = Top.at + 1,
         fr.patterns = <<>>, fr.matches = <<>>, stack' = Replaced(fr),
         \A f, n : f = Top.file /\ n = Top.at => Honoured(cfg, f, n)'
  PROVE  Lossless'
<1>1. /\ Top \in Frame /\ stack # <<>> /\ pc = "load"
      /\ Top.patterns = <<>> /\ Top.matches = <<>>
  BY AtLineTyped DEF AtLine
<1>2. Top.at \in Nat  BY <1>1 DEF Frame
<1>3. Expanding(fr)'  BY DEF Expanding
<1>4. \A f, n : f = Top.file /\ n \in 1..Len(content[f]) /\ Waiting(Top, n)
        => Waiting(fr, n) \/ Honoured(cfg, f, n)'
  <2> SUFFICES ASSUME NEW f, f = Top.file, NEW n \in 1..Len(content[f]), Waiting(Top, n),
                      ~Waiting(fr, n)
               PROVE  Honoured(cfg, f, n)'
    OBVIOUS
  <2>1. n = Top.at  BY <1>1, <1>2 DEF Waiting
  <2> QED  BY <2>1
<1> QED  BY <1>1, <1>3, <1>4, MoveLossless

(* What a line is done with by passing it.                                  *)
LEMMA PassedHonoured ==
  ASSUME TypeOK, Grown, NEW kind \in {"blank", "unknown", "match"}, AtLine(kind)
  PROVE  \A f, n : f = Top.file /\ n = Top.at => Honoured(cfg, f, n)'
<1>1. content[Top.file][Top.at].kind = kind  BY DEF AtLine, Current, Lines
<1> QED  BY <1>1 DEF Honoured, Grown, env

LEMMA Advanced ==
  ASSUME TypeOK, NEW kind, AtLine(kind), AdvanceOnly
  PROVE  \E fr \in Frame : /\ fr.file = Top.file /\ fr.at = Top.at + 1
                           /\ fr.patterns = <<>> /\ fr.matches = <<>>
                           /\ stack' = Replaced(fr)
<1> DEFINE fr == [Top EXCEPT !.at = @ + 1]
<1>1. Top \in Frame /\ Top.patterns = <<>> /\ Top.matches = <<>>
  BY AtLineTyped DEF AtLine
<1>2. /\ fr \in Frame /\ fr.file = Top.file /\ fr.at = Top.at + 1
      /\ fr.patterns = <<>> /\ fr.matches = <<>>
  BY <1>1 DEF Frame
<1> QED  BY <1>2 DEF AdvanceOnly

LEMMA CollectLossless ==
  ASSUME TypeOK, Lossless, NextLocation \/ StatFails \/ StartLoad \/ NoLocation
  PROVE  Lossless'
<1>1. Len(<<>>) = 0  BY EmptySeq
<1>2. CASE NextLocation
  <2>1. NothingIsLost'
    BY <1>2 DEF NextLocation, Lossless, NothingIsLost, Pending, Unavailable
  <2>2. MainIsRead'
    BY <1>2 DEF NextLocation, Lossless, MainIsRead, env, TypeOK
  <2>3. stack = <<>> /\ stack' = <<>>  BY <1>2 DEF NextLocation, TypeOK
  <2> QED
    BY <1>1, <1>2, <2>1, <2>2, <2>3 DEF NextLocation, Lossless, Pending, Unavailable
<1>3. CASE StatFails  BY <1>3, FailLossless DEF StatFails
<1>4. CASE StartLoad
  <2>1. ReadFiles(cfg)' = {}
    BY <1>1, <1>4 DEF StartLoad, Lossless, ReadFiles, EmptyConfig
  <2>2. NoGap'  BY <2>1 DEF NoGap
  <2>3. stack = <<>> /\ stack' = <<>>  BY <1>4 DEF StartLoad, TypeOK
  <2>4. MainIsRead'
    BY <1>4, <2>3 DEF StartLoad, Lossless, MainIsRead, FirstFound, env, TypeOK
  <2>5. NothingIsLost'
    BY <1>4 DEF StartLoad, Lossless, NothingIsLost, Pending, Unavailable
  <2> QED
    BY <1>1, <1>4, <2>2, <2>3, <2>4, <2>5 DEF StartLoad, Lossless, Pending, Unavailable
<1>5. CASE NoLocation
  <2>1. section'.status # "collected"  BY <1>5 DEF NoLocation, Unavailable
  <2>2. NothingIsLost'  BY <2>1 DEF NothingIsLost
  <2>3. stack' = <<>>  BY <1>5 DEF NoLocation, TypeOK
  <2> QED  BY <1>1, <1>5, <2>2, <2>3 DEF NoLocation, Lossless, MainIsRead
<1> QED  BY <1>2, <1>3, <1>4, <1>5

LEMMA LineLossless ==
  ASSUME TypeOK, Lossless,
         \/ BlankLine \/ BadLine \/ UnknownLine \/ MatchLine
         \/ TooManyDirectives \/ DirectiveLine \/ IncludeLine
  PROVE  Lossless'
<1>1. CASE BlankLine
  <2>1. AtLine("blank") /\ AdvanceOnly /\ UNCHANGED <<env, loc, pc, cfg, section>>
    BY <1>1 DEF BlankLine
  <2> QED  BY <2>1, SameGrown, Advanced, PassedHonoured, AdvanceLossless
<1>2. CASE UnknownLine
  <2>1. /\ AtLine("unknown") /\ AdvanceOnly /\ UNCHANGED <<env, loc, pc, section>>
        /\ cfg' = [cfg EXCEPT !.ignored = @ + 1]
    BY <1>2 DEF UnknownLine
  <2> QED  BY <2>1, IgnoredGrown, Advanced, PassedHonoured, AdvanceLossless
<1>3. CASE MatchLine
  <2> DEFINE fr == [Top EXCEPT !.at = @ + 1, !.match = Current.criteria]
  <2>1. /\ AtLine("match") /\ stack' = Replaced(fr)
        /\ UNCHANGED <<env, loc, pc, cfg, section>>
    BY <1>3 DEF MatchLine
  <2>2. Top \in Frame /\ Current.criteria \in Label
        /\ Top.patterns = <<>> /\ Top.matches = <<>>
    BY <2>1, AtLineTyped, LineFields DEF Label, AtLine
  <2>3. fr \in Frame /\ fr.file = Top.file /\ fr.at = Top.at + 1
    <3>1. <<>> \in Seq(Pattern)  BY EmptySeq
    <3> QED  BY <2>2, <3>1, FrameMoved
  <2>4. fr.patterns = <<>> /\ fr.matches = <<>>  BY <2>2 DEF Frame
  <2>5. \E g \in Frame : /\ g.file = Top.file /\ g.at = Top.at + 1
                         /\ g.patterns = <<>> /\ g.matches = <<>>
                         /\ stack' = Replaced(g)
    BY <2>1, <2>3, <2>4
  <2> QED  BY <2>1, <2>5, SameGrown, PassedHonoured, AdvanceLossless
<1>4. CASE DirectiveLine
  <2>1. AtLine("directive") /\ AdvanceOnly /\ UNCHANGED <<env, loc, pc, section>>
    BY <1>4 DEF DirectiveLine
  <2>2. /\ Grown /\ ReadFiles(cfg)' = ReadFiles(cfg)
        /\ \A f, n : f = Top.file /\ n = Top.at => Kept(cfg, f, n)'
    BY <1>4, DirectiveGrown
  <2>3. content[Top.file][Top.at].kind = "directive" /\ content' = content
    BY <2>1 DEF AtLine, Current, Lines, env
  <2>4. \A f, n : f = Top.file /\ n = Top.at => Honoured(cfg, f, n)'
    BY <2>2, <2>3 DEF Honoured
  <2> QED  BY <2>1, <2>2, <2>4, Advanced, AdvanceLossless
<1>5. CASE IncludeLine
  <2>1. /\ AtLine("include") /\ UNCHANGED <<env, loc, pc, cfg, section>>
        /\ stack' = Replaced([Top EXCEPT !.at = @ + 1, !.patterns = Current.patterns])
    BY <1>5 DEF IncludeLine
  <2>2. /\ Top \in Frame /\ Top.patterns = <<>> /\ Top.matches = <<>> /\ stack # <<>>
        /\ pc = "load" /\ content[Top.file][Top.at] = Current
        /\ Current.kind = "include" /\ Current.patterns \in Seq(Pattern)
    BY <2>1, AtLineTyped, LineFields DEF AtLine, Current, Lines
  <2>3. PICK fr : fr = [Top EXCEPT !.at = @ + 1, !.patterns = Current.patterns]
    OBVIOUS
  <2>4. /\ fr \in Frame /\ fr.file = Top.file /\ fr.at = Top.at + 1
    BY <2>2, <2>3, FrameMoved DEF Label
  <2>5. fr.patterns = Current.patterns /\ fr.matches = <<>> /\ Top.at \in Nat
    BY <2>2, <2>3 DEF Frame
  <2>6. fr.at - 1 = Top.at  BY <2>4, <2>5
  <2>7. content[fr.file][fr.at - 1] = Current  BY <2>2, <2>4, <2>6
  <2>8. Underway(fr)
    <3>1. \A i \in 1..Len(Current.patterns) : Current.patterns[i] \in Named(fr.patterns)
      BY <2>5 DEF Named
    <3> QED  BY <2>2, <2>7, <3>1 DEF Underway
  <2>9. Grown /\ ReadFiles(cfg)' = ReadFiles(cfg)  BY <2>1, SameGrown
  <2>10. Underway(fr)'
    <3>1. \A p : Expanded(fr, p) => Expanded(fr, p)'
      BY <2>1 DEF Expanded, ProbeDenied, Listed, env
    <3> QED  BY <2>1, <2>8, <3>1 DEF Underway, env
  <2>11. \A f, n : f = Top.file /\ n \in 1..Len(content[f]) /\ Waiting(Top, n)
           => Waiting(fr, n) \/ Honoured(cfg, f, n)'
    <3> SUFFICES ASSUME NEW f, f = Top.file, NEW n \in 1..Len(content[f]),
                        Waiting(Top, n), ~Waiting(fr, n)
                 PROVE  Honoured(cfg, f, n)'
      OBVIOUS
    <3>1. n = fr.at - 1 /\ fr.patterns = <<>>
      BY <2>2, <2>4, <2>5 DEF Waiting
    <3> QED  BY <2>4, <2>5, <2>10, <3>1, UnderwayHonoured
  <2> QED
    BY <2>1, <2>2, <2>3, <2>4, <2>9, <2>10, <2>11, MoveLossless DEF Expanding
<1>6. CASE BadLine  BY <1>6, FailLossless DEF BadLine
<1>7. CASE TooManyDirectives  BY <1>7, FailLossless DEF TooManyDirectives
<1> QED  BY <1>1, <1>2, <1>3, <1>4, <1>5, <1>6, <1>7

LEMMA ParseMainLossless ==
  ASSUME TypeOK, Lossless, ParseMain
  PROVE  Lossless'
<1>1. /\ pc = "load" /\ stack = <<>> /\ parseFile(Locations[loc], Global, stack)
      /\ Locations[loc] \in File /\ stack \in Seq(Frame)
  BY LocationsAssumption, ElementOfSeq DEF ParseMain, TypeOK
<1>2. CASE Fail("limit") \/ Fail(disk.read[Locations[loc]])  BY <1>2, FailLossless
<1>3. CASE /\ stack' = Append(stack, NewFrame(Locations[loc], Global))
           /\ cfg' = [cfg EXCEPT !.files = Append(@, Locations[loc])]
           /\ UNCHANGED <<env, loc, pc, section>>
  <2>1. Grown  BY <1>1, <1>3, FileGrown
  <2>2. \A g \in ReadFiles(cfg) : \A n \in 1..Len(content[g]) :
          Honoured(cfg, g, n)' \/ Open(stack, g, n)
    BY <1>1, <2>1, GrownHonoured DEF Lossless, NoGap
  <2>3. Len(stack) = 0  BY <1>1, EmptySeq
  <2>4. \A k \in 1..Len(stack) : \A g : g = stack[k] => Expanding(g)'  BY <2>3
  <2> QED  BY <1>1, <1>3, <2>2, <2>4, PushLossless DEF Label
<1> QED  BY <1>1, <1>2, <1>3 DEF parseFile

LEMMA ParseMatchLossless ==
  ASSUME TypeOK, Lossless, ParseMatch
  PROVE  Lossless'
<1> DEFINE f == Head(Top.matches)  m == Top.match
           rest == [Top EXCEPT !.matches = Tail(@)]
<1>1. pc = "load" /\ stack # <<>> /\ Top.matches # <<>> /\ parseFile(f, m, Replaced(rest))
  BY DEF ParseMatch
<1>2. Top \in Frame  BY <1>1, TopTyped
<1>3. /\ f \in File /\ m \in Label /\ Tail(Top.matches) \in Seq(File)
      /\ Len(Top.matches) \in Nat \ {0} /\ Len(Tail(Top.matches)) = Len(Top.matches) - 1
      /\ f = Top.matches[1]
      /\ \A i \in 1..Len(Tail(Top.matches)) : Tail(Top.matches)[i] = Top.matches[i + 1]
  BY <1>1, <1>2, HeadTailProperties, EmptySeq DEF Frame
<1>4. PICK fr : fr = rest  OBVIOUS
<1>5. /\ fr \in Frame /\ fr.file = Top.file /\ fr.at = Top.at
      /\ fr.patterns = Top.patterns /\ fr.matches = Tail(Top.matches)
  BY <1>2, <1>3, <1>4 DEF Frame
<1>6. CASE Fail("limit") \/ Fail(disk.read[f])  BY <1>6, FailLossless
<1>7. CASE /\ stack' = Append(Replaced(rest), NewFrame(f, m))
           /\ cfg' = [cfg EXCEPT !.files = Append(@, f)]
           /\ UNCHANGED <<env, loc, pc, section>>
  <2>1. Grown /\ ReadFiles(cfg)' = ReadFiles(cfg) \cup {f}
    BY <1>3, <1>7, FileGrown
  <2>2. Named(Top.matches) \subseteq {f} \cup Named(fr.matches)
    <3>1. ASSUME NEW i \in 1..Len(Top.matches)
          PROVE  Top.matches[i] \in {f} \cup Named(fr.matches)
      <4>1. CASE i = 1  BY <1>3, <4>1
      <4>2. CASE i # 1
        <5>1. /\ i - 1 \in 1..Len(Tail(Top.matches))
              /\ Tail(Top.matches)[i - 1] = Top.matches[i]
          BY <1>3, <4>2
        <5> QED  BY <1>5, <5>1 DEF Named
      <4> QED  BY <4>1, <4>2
    <3> QED  BY <3>1 DEF Named
  <2>3. Underway(Top)
    <3>1. Len(stack) \in 1..Len(stack)  BY <1>1, TopTyped
    <3> QED  BY <1>1, <3>1 DEF Lossless, Top, Expanding
  <2>4. Underway(fr)'
    <3>1. \A p : Expanded(Top, p) => Expanded(fr, p)'
      BY <1>7, <2>1, <2>2 DEF Expanded, ProbeDenied, Listed, env
    <3> QED  BY <1>5, <1>7, <2>3, <3>1 DEF Underway, env
  <2>5. \A g, n : g = Top.file /\ n \in 1..Len(content[g]) /\ Waiting(Top, n)
          => Waiting(fr, n) \/ Honoured(cfg, g, n)'
    <3> SUFFICES ASSUME NEW g, g = Top.file, NEW n \in 1..Len(content[g]),
                        Waiting(Top, n), ~Waiting(fr, n)
                 PROVE  Honoured(cfg, g, n)'
      OBVIOUS
    <3>1. n = fr.at - 1 /\ fr.patterns = <<>> /\ fr.matches = <<>>
      BY <1>5 DEF Waiting
    <3> QED  BY <1>5, <2>4, <3>1, UnderwayHonoured
  <2>6. NoGap /\ AllExpanding(stack)  BY <1>1 DEF Lossless, AllExpanding
  <2>7. /\ \A g \in ReadFiles(cfg) : \A n \in 1..Len(content[g]) :
             Honoured(cfg, g, n)' \/ Open(Replaced(fr), g, n)
        /\ \A k \in 1..Len(Replaced(fr)) : \A g : g = Replaced(fr)[k] => Expanding(g)'
    BY <1>1, <1>5, <2>1, <2>4, <2>5, <2>6, MovedGapless DEF Expanding
  <2>8. PICK s : s = Replaced(fr)  OBVIOUS
  <2>9. s \in Seq(Frame)  BY <1>1, <1>5, <2>8, ReplacedTop DEF TypeOK
  <2>10. /\ \A g \in ReadFiles(cfg) : \A n \in 1..Len(content[g]) :
              Honoured(cfg, g, n)' \/ Open(s, g, n)
         /\ \A k \in 1..Len(s) : \A g : g = s[k] => Expanding(g)'
    BY <2>7, <2>8
  <2>11. stack' = Append(s, NewFrame(f, m))  BY <1>4, <1>7, <2>8
  <2> HIDE DEF f, m
  <2> QED  BY <1>1, <1>3, <1>7, <2>9, <2>10, <2>11, PushLossless
<1> QED  BY <1>1, <1>6, <1>7 DEF parseFile

LEMMA GlobLossless ==
  ASSUME TypeOK, Lossless, Glob
  PROVE  Lossless'
<1> DEFINE next == [Top EXCEPT !.patterns = Tail(@), !.matches = disk.listing[Wanted]]
<1>1. /\ pc = "glob" /\ pc' = "load" /\ stack # <<>> /\ Top.matches = <<>>
      /\ Top.patterns # <<>> /\ Wanted \notin Malformed /\ stack' = Replaced(next)
      /\ UNCHANGED <<env, loc, cfg, section>>
  BY DEF Glob, AtPattern
<1>2. Top \in Frame  BY <1>1, TopTyped
<1>3. /\ Wanted \in Pattern /\ Tail(Top.patterns) \in Seq(Pattern)
      /\ Len(Top.patterns) \in Nat \ {0} /\ Len(Tail(Top.patterns)) = Len(Top.patterns) - 1
      /\ Wanted = Top.patterns[1]
      /\ \A i \in 1..Len(Tail(Top.patterns)) : Tail(Top.patterns)[i] = Top.patterns[i + 1]
  BY <1>1, <1>2, HeadTailProperties, EmptySeq DEF Frame, Wanted
<1>4. disk.listing[Wanted] \in Seq(File)
  BY <1>3, DisksAssumption DEF Disk, TypeOK
<1>5. PICK fr : fr = next  OBVIOUS
<1>6. /\ fr \in Frame /\ fr.file = Top.file /\ fr.at = Top.at
      /\ fr.patterns = Tail(Top.patterns) /\ fr.matches = disk.listing[Wanted]
  BY <1>2, <1>3, <1>4, <1>5 DEF Frame
<1>7. Grown /\ ReadFiles(cfg)' = ReadFiles(cfg)  BY <1>1, SameGrown
<1>8. Named(Top.patterns) \subseteq {Wanted} \cup Named(fr.patterns)
  <2>1. ASSUME NEW i \in 1..Len(Top.patterns)
        PROVE  Top.patterns[i] \in {Wanted} \cup Named(fr.patterns)
    <3>1. CASE i = 1  BY <1>3, <3>1
    <3>2. CASE i # 1
      <4>1. /\ i - 1 \in 1..Len(Tail(Top.patterns))
            /\ Tail(Top.patterns)[i - 1] = Top.patterns[i]
        BY <1>3, <3>2
      <4> QED  BY <1>6, <4>1 DEF Named
    <3> QED  BY <3>1, <3>2
  <2> QED  BY <2>1 DEF Named
<1>9. Underway(Top)
  <2>1. Len(stack) \in 1..Len(stack)  BY <1>1, TopTyped
  <2> QED  BY <1>1, <2>1 DEF Lossless, Top, Expanding
<1>10. Underway(fr)'
  <2>1. \A p : Expanded(Top, p) => Expanded(fr, p)'
    <3>1. Named(Top.matches) = {}  BY <1>1, EmptySeq DEF Named
    <3> QED  BY <1>1, <3>1 DEF Expanded, ProbeDenied, Listed, env
  <2>2. churn = 0 => \A p : p = Wanted => Expanded(fr, p)'
    <3>1. churn = 0 => Wanted \notin Tilde /\ ~ProbeDenied(Wanted)
      BY <1>1 DEF Lossless
    <3>2. \A p : p = Wanted => Listed(p) = Named(fr.matches)
      BY <1>6 DEF Listed, Named
    <3> QED  BY <1>1, <3>1, <3>2 DEF Expanded, ProbeDenied, Listed, env
  <2>3. \A p : p \in Named(Top.patterns) => p = Wanted \/ p \in Named(fr.patterns)
    BY <1>8
  <2> QED  BY <1>1, <1>6, <1>9, <2>1, <2>2, <2>3 DEF Underway, env
<1>11. \A f, n : f = Top.file /\ n \in 1..Len(content[f]) /\ Waiting(Top, n)
         => Waiting(fr, n) \/ Honoured(cfg, f, n)'
  <2> SUFFICES ASSUME NEW f, f = Top.file, NEW n \in 1..Len(content[f]),
                      Waiting(Top, n), ~Waiting(fr, n)
               PROVE  Honoured(cfg, f, n)'
    OBVIOUS
  <2>1. n = fr.at - 1 /\ fr.patterns = <<>> /\ fr.matches = <<>>
    BY <1>6 DEF Waiting
  <2> QED  BY <1>6, <1>10, <2>1, UnderwayHonoured
<1>12. stack' = Replaced(fr)  BY <1>1, <1>5
<1> HIDE DEF next
<1> QED  BY <1>1, <1>6, <1>7, <1>10, <1>11, <1>12, MoveLossless DEF Expanding

LEMMA ProbeLossless ==
  ASSUME TypeOK, Lossless, Probe
  PROVE  Lossless'
<1>1. /\ pc = "load" /\ pc' = "glob" /\ UNCHANGED <<env, loc, stack, cfg, section>>
      /\ Wanted \notin Tilde /\ ~ProbeDenied(Wanted)
  BY DEF Probe
<1>2. Grown /\ NoGap /\ AllExpanding(stack)
  BY <1>1, SameGrown DEF Lossless, AllExpanding
<1>3. NoGap'
  <2>1. \A f, n : Honoured(cfg, f, n) => Honoured(cfg, f, n)'  BY <1>2, GrownHonoured
  <2> QED  BY <1>1, <1>2, <2>1 DEF NoGap, env, Open, ReadFiles
<1>4. (\A k \in 1..Len(stack) : Expanding(stack[k]))'
  <2>1. \A fr : Expanding(fr) => Expanding(fr)'  BY <1>2, GrownExpanding
  <2> QED  BY <1>1, <1>2, <2>1 DEF AllExpanding
<1>5. MainIsRead'
  BY <1>1 DEF Lossless, MainIsRead, FirstFound, env, ReadFiles
<1>6. NothingIsLost' /\ section' = Pending
  BY <1>1 DEF Lossless, NothingIsLost, Pending, Unavailable
<1>7. (Wanted \notin Tilde /\ ~ProbeDenied(Wanted))'
  BY <1>1 DEF Wanted, ProbeDenied, Top, env
<1> QED  BY <1>1, <1>3, <1>4, <1>5, <1>6, <1>7 DEF Lossless, Pending

LEMMA ReturnLossless ==
  ASSUME TypeOK, Lossless, Return
  PROVE  Lossless'
<1> DEFINE s == SubSeq(stack, 1, Len(stack) - 1)
<1>1. /\ pc = "load" /\ stack # <<>> /\ Top.patterns = <<>> /\ Top.matches = <<>>
      /\ Top.at > Len(Lines) /\ Len(stack) > 1
      /\ stack' = s /\ UNCHANGED <<env, loc, pc, cfg, section>>
  BY DEF Return, AtEnd
<1>2. /\ Len(s) = Len(stack) - 1 /\ Len(stack) \in Nat
      /\ \A i \in 1 .. Len(stack) - 1 : s[i] = stack[i]
      /\ Top.at \in Nat /\ Len(Lines) \in Nat
  BY <1>1, PoppedTyped, TopTyped DEF Frame
<1> HIDE DEF s
<1>3. ASSUME NEW f, NEW n \in 1..Len(content[f]), Open(stack, f, n) PROVE Open(s, f, n)
  <2>1. PICK k \in 1..Len(stack) : stack[k].file = f /\ Waiting(stack[k], n)
    BY <1>3 DEF Open
  <2>2. k # Len(stack)
    <3> SUFFICES ASSUME k = Len(stack) PROVE FALSE  OBVIOUS
    <3>1. Top.file = f /\ Waiting(Top, n)  BY <2>1 DEF Top
    <3>2. n >= Top.at  BY <1>1, <3>1 DEF Waiting
    <3>3. n <= Len(Lines)  BY <3>1 DEF Lines
    <3> QED  BY <1>1, <1>2, <3>2, <3>3
  <2>3. k \in 1..Len(s) /\ s[k] = stack[k]  BY <1>2, <2>2
  <2> QED  BY <2>1, <2>3 DEF Open
<1>4. Grown /\ NoGap /\ AllExpanding(stack)
  BY <1>1, SameGrown DEF Lossless, AllExpanding
<1>5. NoGap'
  <2>1. \A f, n : Honoured(cfg, f, n) => Honoured(cfg, f, n)'  BY <1>4, GrownHonoured
  <2>2. \A f \in ReadFiles(cfg) : \A n \in 1..Len(content[f]) :
          Honoured(cfg, f, n)' \/ Open(s, f, n)
    BY <1>3, <1>4, <2>1 DEF NoGap
  <2> QED  BY <1>1, <2>2 DEF NoGap, env, Open, ReadFiles
<1>6. (\A k \in 1..Len(stack) : Expanding(stack[k]))'
  <2>1. \A fr : Expanding(fr) => Expanding(fr)'  BY <1>4, GrownExpanding
  <2>2. \A k \in 1..Len(s) : s[k] = stack[k] /\ Expanding(stack[k])
    BY <1>2, <1>4 DEF AllExpanding
  <2>3. \A k \in 1..Len(s) : \A g : g = s[k] => Expanding(g)'  BY <2>1, <2>2
  <2> QED  BY <1>1, <2>3
<1>7. MainIsRead'
  BY <1>1 DEF Lossless, MainIsRead, FirstFound, env, ReadFiles
<1>8. NothingIsLost' /\ section' = Pending
  BY <1>1 DEF Lossless, NothingIsLost, Pending, Unavailable
<1> QED  BY <1>1, <1>5, <1>6, <1>7, <1>8 DEF Lossless, Pending

(* The outermost call returns: no line is open any more.                    *)
LEMMA LoadedLossless ==
  ASSUME TypeOK, Lossless, Loaded
  PROVE  Lossless'
<1>1. /\ pc = "load" /\ stack # <<>> /\ Top.patterns = <<>> /\ Top.matches = <<>>
      /\ Top.at > Len(Lines) /\ Len(stack) = 1 /\ pc' = "done" /\ stack' = <<>>
      /\ section' = CollectedSection(cfg) /\ UNCHANGED <<env, loc, cfg>>
  BY DEF Loaded, AtEnd
<1>2. Top.at \in Nat /\ Len(Lines) \in Nat  BY <1>1, TopTyped DEF Frame
<1>3. \A f : \A n \in 1..Len(content[f]) : ~Open(stack, f, n)
  <2> SUFFICES ASSUME NEW f, NEW n \in 1..Len(content[f]), Open(stack, f, n) PROVE FALSE
    OBVIOUS
  <2>1. Top.file = f /\ Waiting(Top, n)  BY <1>1 DEF Open, Top
  <2>2. n >= Top.at  BY <1>1, <2>1 DEF Waiting
  <2>3. n <= Len(Lines)  BY <2>1 DEF Lines
  <2> QED  BY <1>1, <1>2, <2>2, <2>3
<1>4. section'.data = cfg  BY <1>1 DEF CollectedSection
<1>5. \A f \in ReadFiles(cfg) : \A n \in 1..Len(content[f]) : Honoured(cfg, f, n)
  BY <1>1, <1>3 DEF Lossless, NoGap
<1>6. churn = 0 => \E i \in 1..Len(Locations) : FirstFound(i) /\ Locations[i] \in ReadFiles(cfg)
  <2>1. loc \in 1..Len(Locations)
    BY <1>1, LocationsAssumption, LenProperties DEF TypeOK
  <2> QED  BY <1>1, <2>1 DEF Lossless, MainIsRead
<1>7. NothingIsLost'
  <2>1. cfg' = cfg /\ content' = content /\ churn' = churn /\ disk' = disk
    BY <1>1 DEF env
  <2>2. PICK c : c = cfg  OBVIOUS
  <2>3. \A f \in ReadFiles(c) : \A n \in 1..Len(content'[f]) : Honoured(c, f, n)'
    <3>1. \A f \in ReadFiles(c) : \A n \in 1..Len(content[f]) : Honoured(c, f, n)
      BY <1>5, <2>2
    <3> QED  BY <1>1, <2>1, <3>1, HonouredFixed
  <2>4. section' = [status |-> "collected", data |-> c]
    BY <1>1, <2>2 DEF CollectedSection
  <2>5. churn' = 0 => \E i \in 1..Len(Locations) : FirstFound(i)' /\ Locations[i] \in ReadFiles(c)
    BY <1>6, <2>1, <2>2 DEF FirstFound
  <2>6. section'.data = c  BY <2>4
  <2>7. \A f, n : Honoured(c, f, n)' => Honoured(section.data, f, n)'
    BY <2>6
  <2> QED  BY <2>3, <2>5, <2>6, <2>7 DEF NothingIsLost
<1>8. Len(<<>>) = 0  BY EmptySeq
<1> QED  BY <1>1, <1>7, <1>8 DEF Lossless, MainIsRead

(* After a change of the disk the directives of the files read still count.  *)
LEMMA ChangesLossless ==
  ASSUME TypeOK, Lossless, DiskChanges
  PROVE  Lossless'
<1>1. /\ pc # "done" /\ churn' = churn + 1
      /\ UNCHANGED <<content, loc, pc, stack, cfg, section>>
  BY DEF DiskChanges
<1>2. churn' # 0  BY <1>1, LimitsAssumption DEF TypeOK
<1>3. NoGap => NoGap'
  <2>1. \A f, n : Honoured(cfg, f, n) => Honoured(cfg, f, n)'
    BY <1>1, <1>2 DEF Honoured, Kept
  <2> QED  BY <1>1, <2>1 DEF NoGap, Open, ReadFiles
<1>4. (\A k \in 1..Len(stack) : Expanding(stack[k]))'
  <2>1. \A fr : Expanding(fr) => Expanding(fr)'
    BY <1>1, <1>2 DEF Expanding, Underway
  <2> QED  BY <1>1, <2>1 DEF Lossless
<1>5. NothingIsLost' /\ section' = Pending
  BY <1>1 DEF Lossless, NothingIsLost, Pending, Unavailable
<1> QED  BY <1>1, <1>2, <1>3, <1>4, <1>5 DEF Lossless, MainIsRead, Pending

LEMMA InitLossless == Init => Lossless
<1> SUFFICES ASSUME Init PROVE Lossless  OBVIOUS
<1>1. Len(<<>>) = 0  BY EmptySeq
<1>2. NothingIsLost  BY DEF Init, NothingIsLost, Pending, Unavailable
<1> QED  BY <1>1, <1>2 DEF Init, Lossless, MainIsRead

(* Whatever the files include, a configuration that was collected has every  *)
(* directive of every file it names and, on a disk that stayed as it was,   *)
(* the main file and all that their Include lines stand for.                *)
THEOREM NoDirectiveIsLost == Spec => []NothingIsLost
<1>1. TypeOK /\ Lossless /\ [Next]_vars => Lossless'
  <2> SUFFICES ASSUME TypeOK, Lossless, [Next]_vars PROVE Lossless'  OBVIOUS
  <2>1. CASE Step
    BY <2>1, CollectLossless, ParseMainLossless, ParseMatchLossless, LineLossless,
       ProbeLossless, GlobLossless, ReturnLossless, LoadedLossless, FailLossless
    DEF Step, IncludeRejected, GlobFails
  <2>2. CASE DiskChanges  BY <2>2, ChangesLossless
  <2>3. CASE UNCHANGED vars
    <3>1. UNCHANGED env /\ Grown  BY <2>3, SameGrown DEF vars, env
    <3>2. NoGap => NoGap'
      <4>1. \A f, n : Honoured(cfg, f, n) => Honoured(cfg, f, n)'  BY <3>1, GrownHonoured
      <4> QED  BY <2>3, <4>1 DEF vars, NoGap, Open, ReadFiles
    <3>3. (\A k \in 1..Len(stack) : Expanding(stack[k]))'
      <4>1. \A fr : Expanding(fr) => Expanding(fr)'  BY <3>1, GrownExpanding
      <4> QED  BY <2>3, <4>1 DEF vars, Lossless
    <3>4. MainIsRead' /\ NothingIsLost'
      <4>1. MainIsRead'  BY <2>3 DEF vars, Lossless, MainIsRead, FirstFound, ReadFiles
      <4>2. PICK c : c = section.data  OBVIOUS
      <4>3. \A f, n : Honoured(c, f, n) => Honoured(c, f, n)'  BY <3>1, HonouredFixed
      <4>4. \A f, n : Honoured(section.data, f, n) => Honoured(section.data, f, n)'
        BY <2>3, <4>2, <4>3 DEF vars
      <4>5. NothingIsLost'
        BY <2>3, <4>4 DEF vars, Lossless, NothingIsLost, FirstFound, ReadFiles
      <4> QED  BY <4>1, <4>5
    <3>5. Wanted' = Wanted /\ (ProbeDenied(Wanted)' <=> ProbeDenied(Wanted))
      BY <2>3 DEF vars, Wanted, ProbeDenied, Top
    <3> QED
      BY <2>3, <3>2, <3>3, <3>4, <3>5 DEF vars, Lossless, Pending
  <2> QED  BY <2>1, <2>2, <2>3 DEF Next, Done
<1>2. Lossless => NothingIsLost  BY DEF Lossless
<1> QED  BY <1>1, <1>2, InitLossless, TypeCorrect, PTL DEF Spec

IncludePatterns(f) ==
  {p \in Pattern : \E n \in 1..Len(content[f]) :
     /\ content[f][n].kind = "include"
     /\ \E i \in 1..Len(content[f][n].patterns) : content[f][n].patterns[i] = p}

(* Where Glob overlooks files of a pattern, its directory is one the probe   *)
(* of include is for.                                                       *)
HiddenFilesAreProbed ==
  \A f \in ReadFiles(section.data) : \A p \in IncludePatterns(f) :
    disk.listing[p] # disk.there[p] => ProbeDenied(p)

(* What the probe is for: on a disk that stayed as it was, a configuration   *)
(* that was collected has every file its directories really hold, and not    *)
(* only those that Glob could see.                                          *)
THEOREM NoFileIsHidden ==
  Spec => [](section.status = "collected" /\ churn = 0 /\ HiddenFilesAreProbed =>
               \A f \in ReadFiles(section.data) : \A p \in IncludePatterns(f) :
                 Named(disk.there[p]) \subseteq ReadFiles(section.data))
<1> DEFINE Goal == section.status = "collected" /\ churn = 0 /\ HiddenFilesAreProbed =>
               \A f \in ReadFiles(section.data) : \A p \in IncludePatterns(f) :
                 Named(disk.there[p]) \subseteq ReadFiles(section.data)
<1>1. NothingIsLost => Goal
  <2> SUFFICES ASSUME NothingIsLost, section.status = "collected", churn = 0,
                      HiddenFilesAreProbed,
                      NEW f \in ReadFiles(section.data), NEW p \in IncludePatterns(f)
               PROVE  Named(disk.there[p]) \subseteq ReadFiles(section.data)
    OBVIOUS
  <2>1. PICK n \in 1..Len(content[f]) : \E i \in 1..Len(content[f][n].patterns) :
          content[f][n].kind = "include" /\ p = content[f][n].patterns[i]
    BY DEF IncludePatterns
  <2>2. Honoured(section.data, f, n)  BY DEF NothingIsLost
  <2>3. Followed(section.data, p)  BY <2>1, <2>2 DEF Honoured
  <2>4. disk.listing[p] = disk.there[p]  BY <2>3 DEF Followed, HiddenFilesAreProbed
  <2> QED  BY <2>3, <2>4 DEF Followed, Listed, Named
<1> QED  BY <1>1, NoDirectiveIsLost, PTL
-----------------------------------------------------------------------------
(* A nonempty set of natural numbers has a least one.                       *)
Below == {p \in Nat \X Nat : p[1] < p[2]}

LEMMA BelowWellFounded == IsWellFoundedOn(Below, Nat)
BY NatLessThanWellFounded DEF OpToRel, Below

LEMMA LeastExists ==
  ASSUME NEW T \in SUBSET Nat, T # {}
  PROVE  \E x \in T : \A y \in T : x <= y
<1>1. PICK x \in T : \A y \in T : <<y, x>> \notin Below
  BY BelowWellFounded, WFMin
<1>2. \A y \in T : ~(y < x)
  BY <1>1 DEF Below
<1> QED
  BY <1>2

(* That Load ends, in files that include each other in circles too, is that   *)
(* every step brings it nearer to its end: what is ahead of it gets less in  *)
(* the first of these numbers that the step changes.                        *)
Phase == CASE pc = "collect" -> 2 [] pc = "done" -> 0 [] OTHER -> 1
LinesAhead == IF stack = <<>> THEN 0 ELSE Len(Lines) + 1 - Top.at
PatternsAhead == IF stack = <<>> THEN 0 ELSE Len(Top.patterns)

Ahead ==
  [i \in 1..7 |->
     CASE i = 1 -> Phase
       [] i = 2 -> Len(Locations) + 1 - loc
       [] i = 3 -> MaxFiles - Len(cfg.files)
       [] i = 4 -> Len(stack)
       [] i = 5 -> LinesAhead
       [] i = 6 -> PatternsAhead
       [] i = 7 -> IF pc = "load" THEN 1 ELSE 0]

(* The lexical order on sequences of n numbers, and no set of them is without *)
(* a least one.                                                             *)
Less(n, a, b) == \E i \in 1..n : a[i] < b[i] /\ \A j \in 1 .. i - 1 : a[j] = b[j]

Minimal(n, T, a) == \A b \in T : ~Less(n, b, a)

LEMMA NoEndlessDescent ==
  ASSUME NEW n \in Nat, NEW T \in SUBSET [1..n -> Nat], T # {}
  PROVE  \E a \in T : Minimal(n, T, a)
<1> DEFINE U == {k \in Nat : k <= n /\ ~\E a \in T : Minimal(k, T, a)}
<1> SUFFICES ASSUME n \in U PROVE FALSE
  <2>1. n <= n
    OBVIOUS
  <2> QED
    BY <2>1
<1>1. PICK k \in U : \A j \in U : k <= j
  <2>1. U \in SUBSET Nat /\ U # {}
    OBVIOUS
  <2> HIDE DEF U
  <2> QED
    BY <2>1, LeastExists
<1>2. k # 0
  <2>1. \A a : Minimal(0, T, a)
    BY DEF Less, Minimal
  <2> QED
    BY <1>1, <2>1
<1>3. k - 1 \in Nat /\ k - 1 \notin U /\ k \in 1..n /\ k - 1 <= n
  BY <1>1, <1>2
<1>4. PICK c \in T : Minimal(k - 1, T, c)
  BY <1>3
<1>5. /\ \A a \in T : \A j \in 1..n : a[j] \in Nat
      /\ \A i \in 1..k : i \in 1..n /\ i \in Nat
      /\ ~\E a \in T : Minimal(k, T, a)
  BY <1>1, <1>3
<1> HIDE DEF U
<1> DEFINE Same == {a \in T : \A j \in 1 .. k - 1 : a[j] = c[j]}
           V == {a[k] : a \in Same}
<1>6. V \in SUBSET Nat /\ V # {}
  <2>1. c \in Same
    OBVIOUS
  <2>2. \A a \in Same : a[k] \in Nat
    BY <1>3, <1>5
  <2> HIDE DEF Same
  <2> QED
    BY <2>1, <2>2
<1>7. PICK v \in V : \A u \in V : v <= u
  BY <1>6, LeastExists
<1>8. PICK a \in Same : a[k] = v
  BY <1>7
<1>9. ASSUME NEW b \in T, Less(k, b, a) PROVE FALSE
  <2>1. PICK i \in 1..k : b[i] < a[i] /\ \A j \in 1 .. i - 1 : b[j] = a[j]
    BY <1>9 DEF Less
  <2>2. i \in 1..n /\ i \in Nat /\ k \in Nat /\ a[i] \in Nat /\ b[i] \in Nat
    BY <1>3, <1>5, <1>8, <2>1
  <2>3. CASE i = k
    <3>1. b \in Same
      BY <1>8, <2>1, <2>3
    <3>2. b[k] \in V
      BY <3>1
    <3>3. a[k] <= b[k] /\ b[k] < a[k]
      BY <1>7, <1>8, <2>1, <2>3, <3>2
    <3> QED
      BY <2>2, <2>3, <3>3
  <2>4. CASE i # k
    <3>1. i \in 1 .. k - 1 /\ \A j \in 1 .. i - 1 : j \in 1 .. k - 1
      BY <2>1, <2>2, <2>4
    <3>2. b[i] < c[i] /\ \A j \in 1 .. i - 1 : b[j] = c[j]
      BY <1>8, <2>1, <3>1
    <3>3. Less(k - 1, b, c)
      BY <3>1, <3>2 DEF Less
    <3> QED
      BY <1>4, <3>3 DEF Minimal
  <2> QED
    BY <2>3, <2>4
<1> QED
  BY <1>5, <1>8, <1>9 DEF Minimal

LEMMA AheadTyped ==
  ASSUME TypeOK, LimitsHold
  PROVE  Ahead \in [1..7 -> Nat]
<1>1. Phase \in Nat
  BY DEF Phase
<1>2. Len(Locations) + 1 - loc \in Nat
  BY LocationsAssumption, LenProperties DEF TypeOK
<1>3. MaxFiles - Len(cfg.files) \in Nat
  <2>1. Len(cfg.files) \in Nat
    BY LenProperties DEF TypeOK, Config
  <2> QED
    BY <2>1, LimitsAssumption DEF LimitsHold
<1>4. Len(stack) \in Nat
  BY LenProperties DEF TypeOK
<1>5. LinesAhead \in Nat /\ PatternsAhead \in Nat
  <2>1. CASE stack = <<>>
    BY <2>1 DEF LinesAhead, PatternsAhead
  <2>2. CASE stack # <<>>
    <3>1. Top \in Frame /\ Len(Lines) \in Nat /\ Top.at <= Len(Lines) + 1
      BY <2>2, TopTyped
    <3>2. Top.at \in Nat /\ Len(Top.patterns) \in Nat
      BY <3>1, LenProperties DEF Frame
    <3> QED
      BY <2>2, <3>1, <3>2 DEF LinesAhead, PatternsAhead
  <2> QED
    BY <2>1, <2>2
<1> QED
  BY <1>1, <1>2, <1>3, <1>4, <1>5 DEF Ahead

(* The numbers before the one that gets less are the same.                  *)
SameRun == Phase' = Phase /\ loc' = loc
SameFilesRead == SameRun /\ Len(cfg'.files) = Len(cfg.files)
SameCall == SameFilesRead /\ Len(stack') = Len(stack)

LEMMA LessAhead ==
  ASSUME TypeOK,
         \/ Phase' < Phase
         \/ Phase' = Phase /\ loc' = loc + 1
         \/ SameRun /\ Len(cfg'.files) = Len(cfg.files) + 1
         \/ SameFilesRead /\ Len(stack') = Len(stack) - 1
         \/ SameCall /\ LinesAhead' < LinesAhead
         \/ SameCall /\ LinesAhead' = LinesAhead /\ PatternsAhead' < PatternsAhead
         \/ /\ SameCall /\ LinesAhead' = LinesAhead /\ PatternsAhead' = PatternsAhead
            /\ pc = "load" /\ pc' = "glob"
  PROVE  Less(7, Ahead', Ahead)
<1>1. /\ loc \in Nat /\ Len(Locations) \in Nat /\ MaxFiles \in Nat
      /\ Len(cfg.files) \in Nat /\ Len(stack) \in Nat
  BY LocationsAssumption, LimitsAssumption, LenProperties DEF TypeOK, Config
<1>2. PICK a, b : a = Ahead' /\ b = Ahead
  OBVIOUS
<1>3. /\ b[1] = Phase /\ b[2] = Len(Locations) + 1 - loc
      /\ b[3] = MaxFiles - Len(cfg.files) /\ b[4] = Len(stack)
      /\ b[5] = LinesAhead /\ b[6] = PatternsAhead
      /\ b[7] = IF pc = "load" THEN 1 ELSE 0
  BY <1>2 DEF Ahead
<1>4. /\ a[1] = Phase' /\ a[2] = Len(Locations) + 1 - loc'
      /\ a[3] = MaxFiles - Len(cfg'.files) /\ a[4] = Len(stack')
      /\ a[5] = LinesAhead' /\ a[6] = PatternsAhead'
      /\ a[7] = IF pc' = "load" THEN 1 ELSE 0
  BY <1>2 DEF Ahead
<1>5. ASSUME NEW i \in 1..7, a[i] < b[i], \A j \in 1 .. i - 1 : a[j] = b[j]
      PROVE  Less(7, a, b)
  BY <1>5 DEF Less
<1>6. CASE Phase' < Phase
  <2>1. a[1] < b[1] /\ 1 .. 1 - 1 = {}
    BY <1>3, <1>4, <1>6
  <2> QED
    BY <1>2, <1>5, <2>1
<1>7. CASE Phase' = Phase /\ loc' = loc + 1
  <2>1. a[2] < b[2] /\ a[1] = b[1]
    BY <1>1, <1>3, <1>4, <1>7
  <2>2. \A j \in 1 .. 2 - 1 : j = 1
    OBVIOUS
  <2> QED
    BY <1>2, <1>5, <2>1, <2>2
<1>8. ASSUME SameRun PROVE a[1] = b[1] /\ a[2] = b[2]
  BY <1>3, <1>4, <1>8 DEF SameRun
<1>9. CASE SameRun /\ Len(cfg'.files) = Len(cfg.files) + 1
  <2>1. a[3] < b[3]
    BY <1>1, <1>3, <1>4, <1>9
  <2>2. \A j \in 1 .. 3 - 1 : j = 1 \/ j = 2
    OBVIOUS
  <2> QED
    BY <1>2, <1>5, <1>8, <1>9, <2>1, <2>2
<1>10. ASSUME SameFilesRead PROVE SameRun /\ a[3] = b[3]
  BY <1>3, <1>4, <1>10 DEF SameFilesRead
<1>11. CASE SameFilesRead /\ Len(stack') = Len(stack) - 1
  <2>1. a[4] < b[4]
    BY <1>1, <1>3, <1>4, <1>11
  <2>2. \A j \in 1 .. 4 - 1 : j = 1 \/ j = 2 \/ j = 3
    OBVIOUS
  <2> QED
    BY <1>2, <1>5, <1>8, <1>10, <1>11, <2>1, <2>2
<1>12. ASSUME SameCall
       PROVE  a[1] = b[1] /\ a[2] = b[2] /\ a[3] = b[3] /\ a[4] = b[4]
  BY <1>3, <1>4, <1>8, <1>10, <1>12 DEF SameCall
<1>13. CASE SameCall /\ LinesAhead' < LinesAhead
  <2>1. a[5] < b[5]
    BY <1>3, <1>4, <1>13
  <2>2. \A j \in 1 .. 5 - 1 : j = 1 \/ j = 2 \/ j = 3 \/ j = 4
    OBVIOUS
  <2> QED
    BY <1>2, <1>5, <1>12, <1>13, <2>1, <2>2
<1>14. CASE SameCall /\ LinesAhead' = LinesAhead /\ PatternsAhead' < PatternsAhead
  <2>1. a[6] < b[6] /\ a[5] = b[5]
    BY <1>3, <1>4, <1>14
  <2>2. \A j \in 1 .. 6 - 1 : j = 1 \/ j = 2 \/ j = 3 \/ j = 4 \/ j = 5
    OBVIOUS
  <2> QED
    BY <1>2, <1>5, <1>12, <1>14, <2>1, <2>2
<1>15. CASE /\ SameCall /\ LinesAhead' = LinesAhead /\ PatternsAhead' = PatternsAhead
            /\ pc = "load" /\ pc' = "glob"
  <2>1. a[7] < b[7] /\ a[6] = b[6] /\ a[5] = b[5]
    BY <1>3, <1>4, <1>15
  <2>2. \A j \in 1 .. 7 - 1 : j = 1 \/ j = 2 \/ j = 3 \/ j = 4 \/ j = 5 \/ j = 6
    OBVIOUS
  <2> QED
    BY <1>2, <1>5, <1>12, <1>15, <2>1, <2>2
<1> QED
  BY <1>6, <1>7, <1>9, <1>11, <1>13, <1>14, <1>15

(* What is ahead once the frame on top has been replaced.                   *)
LEMMA ReplacedAhead ==
  ASSUME TypeOK, stack # <<>>, content' = content,
         NEW fr \in Frame, fr.file = Top.file, stack' = Replaced(fr)
  PROVE  /\ Len(stack') = Len(stack)
         /\ LinesAhead = Len(Lines) + 1 - Top.at
         /\ LinesAhead' = Len(Lines) + 1 - fr.at
         /\ PatternsAhead = Len(Top.patterns) /\ PatternsAhead' = Len(fr.patterns)
<1>1. /\ Replaced(fr) # <<>> /\ Len(Replaced(fr)) = Len(stack)
      /\ Replaced(fr)[Len(stack)] = fr
  BY ReplacedTop DEF TypeOK
<1>2. PICK s : s = stack'
  OBVIOUS
<1>3. s # <<>> /\ Len(s) = Len(stack) /\ s[Len(s)] = fr
  BY <1>1, <1>2
<1>4. Top' = fr
  BY <1>2, <1>3 DEF Top
<1>5. Lines' = Lines
  BY <1>4 DEF Lines
<1> QED
  BY <1>2, <1>3, <1>4, <1>5 DEF LinesAhead, PatternsAhead

LEMMA LineShrinks ==
  ASSUME TypeOK, NEW kind, AtLine(kind), UNCHANGED <<env, loc, pc>>,
         Len(cfg'.files) = Len(cfg.files),
         NEW fr \in Frame, fr.file = Top.file, fr.at = Top.at + 1, stack' = Replaced(fr)
  PROVE  Less(7, Ahead', Ahead)
<1>1. stack # <<>> /\ content' = content
  BY DEF AtLine, env
<1>2. Top \in Frame /\ Len(Lines) \in Nat
  BY <1>1, TopTyped
<1>3. /\ Len(stack') = Len(stack) /\ LinesAhead = Len(Lines) + 1 - Top.at
      /\ LinesAhead' = Len(Lines) + 1 - fr.at
  BY <1>1, ReplacedAhead
<1>4. LinesAhead' < LinesAhead
  BY <1>2, <1>3 DEF Frame
<1>5. SameCall
  BY <1>3 DEF SameCall, SameFilesRead, SameRun, Phase
<1> QED
  BY <1>4, <1>5, LessAhead

LEMMA EndShrinks ==
  ASSUME TypeOK, pc # "done", pc' = "done"
  PROVE  Less(7, Ahead', Ahead)
<1>1. Phase' < Phase
  BY DEF Phase
<1> QED
  BY <1>1, LessAhead

LEMMA FileShrinks ==
  ASSUME TypeOK, pc = "load", NEW f, NEW m, NEW s, parseFile(f, m, s)
  PROVE  Less(7, Ahead', Ahead)
<1>1. CASE \E err : Fail(err)
  BY <1>1, EndShrinks DEF Fail
<1>2. CASE /\ cfg' = [cfg EXCEPT !.files = Append(@, f)]
           /\ UNCHANGED <<env, loc, pc, section>>
  <2>1. cfg'.files = Append(cfg.files, f) /\ cfg.files \in Seq(File)
    BY <1>2 DEF TypeOK, Config
  <2>2. PICK fs : fs = cfg.files
    OBVIOUS
  <2>3. Len(Append(fs, f)) = Len(fs) + 1
    BY <2>1, <2>2
  <2>4. SameRun /\ Len(cfg'.files) = Len(cfg.files) + 1
    BY <1>2, <2>1, <2>2, <2>3 DEF SameRun, Phase
  <2> QED
    BY <2>4, LessAhead
<1> QED
  BY <1>1, <1>2 DEF parseFile

LEMMA StepShrinks ==
  ASSUME TypeOK, Step
  PROVE  Less(7, Ahead', Ahead)
<1>1. CASE NextLocation
  <2>1. Phase' = Phase /\ loc' = loc + 1
    BY <1>1 DEF NextLocation, Phase
  <2> QED
    BY <2>1, LessAhead
<1>2. CASE StartLoad
  <2>1. Phase' < Phase
    BY <1>2 DEF StartLoad, Phase
  <2> QED
    BY <2>1, LessAhead
<1>3. CASE StatFails \/ NoLocation \/ BadLine \/ TooManyDirectives \/ IncludeRejected
             \/ GlobFails \/ Loaded
  <2>1. pc # "done" /\ pc' = "done"
    BY <1>3 DEF StatFails, NoLocation, BadLine, TooManyDirectives, IncludeRejected,
                GlobFails, Loaded, Fail, AtLine, AtEnd
  <2> QED
    BY <2>1, EndShrinks
<1>4. CASE ParseMain \/ ParseMatch
  BY <1>4, FileShrinks DEF ParseMain, ParseMatch
<1>5. CASE BlankLine \/ UnknownLine \/ DirectiveLine
  <2> DEFINE fr == [Top EXCEPT !.at = @ + 1]
  <2>1. PICK kind : AtLine(kind)
    BY <1>5 DEF BlankLine, UnknownLine, DirectiveLine
  <2>2. fr \in Frame /\ fr.file = Top.file /\ fr.at = Top.at + 1
    BY <2>1, AtLineTyped DEF Frame
  <2>3. stack' = Replaced(fr) /\ UNCHANGED <<env, loc, pc>>
    BY <1>5 DEF BlankLine, UnknownLine, DirectiveLine, AdvanceOnly
  <2>4. cfg'.files = cfg.files
    BY <1>5 DEF BlankLine, UnknownLine, DirectiveLine, TypeOK, Config
  <2> HIDE DEF fr
  <2> QED
    BY <2>1, <2>2, <2>3, <2>4, LineShrinks
<1>6. CASE MatchLine
  <2>1. AtLine("match") /\ UNCHANGED <<env, loc, pc, cfg>>
    BY <1>6 DEF MatchLine
  <2>2. Top \in Frame /\ Current.criteria \in Label
    BY <2>1, AtLineTyped, LineFields DEF Label
  <2>3. PICK fr \in Frame : /\ fr.file = Top.file /\ fr.at = Top.at + 1
                            /\ stack' = Replaced(fr)
    BY <1>6, <2>2, FrameMoved, EmptySeq DEF MatchLine
  <2> QED
    BY <2>1, <2>3, LineShrinks
<1>7. CASE IncludeLine
  <2>1. AtLine("include") /\ UNCHANGED <<env, loc, pc, cfg>>
    BY <1>7 DEF IncludeLine
  <2>2. Top \in Frame /\ Current.patterns \in Seq(Pattern)
    BY <2>1, AtLineTyped, LineFields
  <2>3. Top.match \in Label
    BY <2>2 DEF Frame
  <2>4. PICK fr \in Frame : /\ fr.file = Top.file /\ fr.at = Top.at + 1
                            /\ stack' = Replaced(fr)
    BY <1>7, <2>2, <2>3, FrameMoved DEF IncludeLine
  <2> QED
    BY <2>1, <2>4, LineShrinks
<1>8. CASE Probe
  <2>1. UNCHANGED <<env, loc, stack, cfg>> /\ pc = "load" /\ pc' = "glob"
    BY <1>8 DEF Probe
  <2>2. LinesAhead' = LinesAhead /\ PatternsAhead' = PatternsAhead
    BY <2>1 DEF LinesAhead, PatternsAhead, Lines, Top, env
  <2>3. SameCall
    BY <2>1 DEF SameCall, SameFilesRead, SameRun, Phase
  <2> QED
    BY <2>1, <2>2, <2>3, LessAhead
<1>9. CASE Glob
  <2>1. /\ UNCHANGED <<env, loc, cfg>> /\ pc = "glob" /\ pc' = "load"
        /\ stack # <<>> /\ Top.patterns # <<>>
        /\ stack' = Replaced([Top EXCEPT !.patterns = Tail(@),
                                         !.matches = disk.listing[Wanted]])
    BY <1>9 DEF Glob, AtPattern
  <2>2. Top \in Frame
    BY <2>1, TopTyped
  <2>3. Top.patterns \in Seq(Pattern)
    BY <2>2 DEF Frame
  <2>4. PICK ps : ps = Top.patterns
    OBVIOUS
  <2>5. /\ Tail(ps) \in Seq(Pattern) /\ Len(Tail(ps)) = Len(ps) - 1
        /\ Head(ps) \in Pattern /\ Len(ps) \in Nat
    BY <2>1, <2>3, <2>4, HeadTailProperties, LenProperties
  <2>6. disk.listing[Wanted] \in Seq(File)
    BY <2>4, <2>5, DisksAssumption DEF TypeOK, Wanted, Disk
  <2>7. PICK fr : fr = [Top EXCEPT !.patterns = Tail(@), !.matches = disk.listing[Wanted]]
    OBVIOUS
  <2>8. /\ fr \in Frame /\ fr.file = Top.file /\ fr.at = Top.at
        /\ fr.patterns = Tail(ps)
    BY <2>2, <2>4, <2>5, <2>6, <2>7 DEF Frame
  <2>9. stack' = Replaced(fr) /\ content' = content
    BY <2>1, <2>7 DEF env
  <2>10. /\ Len(stack') = Len(stack) /\ LinesAhead' = LinesAhead
         /\ PatternsAhead = Len(ps) /\ PatternsAhead' = Len(Tail(ps))
    BY <2>1, <2>4, <2>8, <2>9, ReplacedAhead
  <2>11. SameCall
    BY <2>1, <2>10 DEF SameCall, SameFilesRead, SameRun, Phase
  <2>12. PatternsAhead' < PatternsAhead
    BY <2>5, <2>10
  <2> QED
    BY <2>10, <2>11, <2>12, LessAhead
<1>10. CASE Return
  <2>1. /\ UNCHANGED <<env, loc, pc, cfg>> /\ stack # <<>> /\ Len(stack) > 1
        /\ stack' = SubSeq(stack, 1, Len(stack) - 1)
    BY <1>10 DEF Return, AtEnd
  <2>2. Len(stack') = Len(stack) - 1
    BY <2>1, PoppedTyped
  <2>3. SameFilesRead
    BY <2>1 DEF SameFilesRead, SameRun, Phase
  <2> QED
    BY <2>2, <2>3, LessAhead
<1> QED
  BY <1>1, <1>2, <1>3, <1>4, <1>5, <1>6, <1>7, <1>8, <1>9, <1>10 DEF Step

(* Load comes to an end, whatever the files include and however the disk      *)
(* changes meanwhile: every step of the collector makes what is ahead of it  *)
(* less in the lexical order on seven natural numbers, which no set of steps *)
(* can do for ever, and no change of the disk adds to it (parse.go: a file   *)
(* entered uses up one of MaxFiles, any other step a line, a pattern or a    *)
(* call).                                                                    *)
THEOREM EveryStepCounts ==
  Spec => /\ [](Ahead \in [1..7 -> Nat])
          /\ [][/\ Step => Less(7, Ahead', Ahead)
                /\ DiskChanges => Ahead' = Ahead]_vars
<1>1. TypeOK /\ LimitsHold => Ahead \in [1..7 -> Nat]
  BY AheadTyped
<1>2. TypeOK /\ [Next]_vars =>
        [/\ Step => Less(7, Ahead', Ahead)
         /\ DiskChanges => Ahead' = Ahead]_vars
  <2>1. ASSUME DiskChanges PROVE Ahead' = Ahead
    <3>1. UNCHANGED <<content, loc, pc, stack, cfg>>
      BY <2>1 DEF DiskChanges
    <3>2. /\ Phase' = Phase /\ LinesAhead' = LinesAhead /\ PatternsAhead' = PatternsAhead
      BY <3>1 DEF Phase, LinesAhead, PatternsAhead, Lines, Top
    <3> QED
      BY <3>1, <3>2 DEF Ahead
  <2> QED
    BY <2>1, StepShrinks
<1> QED
  BY <1>1, <1>2, TypeCorrect, LimitsAreKept, PTL DEF Spec
=============================================================================
