--------------------------- MODULE SshdReference ---------------------------
(***************************************************************************)
(* What the configuration of sshd is, without the machine that computes it: *)
(* parse.go read as functions.  The meaning of a file takes the account of  *)
(* what has been read before it to the account of what has been read after  *)
(* it, an Include line means the files it matches one after the other, and  *)
(* an error is an account that nothing after it changes.                    *)
(***************************************************************************)
EXTENDS SshdRules

(* Where a line stands: the label its directives carry and the criteria of   *)
(* all the Match blocks around it, those around the Include that led to its *)
(* file included.                                                           *)
Context ==
  {q \in [label : Label, under : SUBSET Criteria] :
     IF q.under = {} THEN q.label = Global ELSE q.label \in q.under}

Outermost == [label |-> Global, under |-> {}]

Reading ==
  [keyword : Keyword, args : Arg, file : File, line : Nat \ {0}, within : Context]

Account == [status : {"collected", "permission_denied", "failed"},
            files : Seq(File), said : Seq(Reading), ignored : Nat]

Blank == [status |-> "collected", files |-> <<>>, said |-> <<>>, ignored |-> 0]
Stopped(err) == [Blank EXCEPT !.status = classify(err)]
Going(a) == a.status = "collected"

SaysOf(r) == [keyword |-> r.keyword, args |-> r.args, file |-> r.file,
              line |-> r.line, match |-> r.within.label]
SectionOf(a) ==
  [status |-> a.status,
   data |-> [files |-> a.files, ignored |-> a.ignored,
             directives |-> [i \in 1..Len(a.said) |-> SaysOf(a.said[i])]]]
-----------------------------------------------------------------------------
(* What is left of x when the functions of a sequence are applied in turn.  *)
InTurn(steps, x) ==
  LET after[k \in Nat] == IF k = 0 THEN x ELSE steps[k][after[k - 1]]
  IN  after[Len(steps)]

(* Line n of a file entered in context `outer`: a Match line replaces only   *)
(* those before it in its own file.                                         *)
ContextAt(lines, n, outer) ==
  LET before == {m \in 1 .. n - 1 : lines[m].kind = "match"}
      last == CHOOSE m \in before : \A k \in before : k <= m
  IN  IF before = {} THEN outer
      ELSE [label |-> lines[last].criteria,
            under |-> outer.under \cup {lines[last].criteria}]

(* In all that follows, w is a world: the contents of the files, the disk    *)
(* they are on and the files that each pattern stands for.  G is the meaning *)
(* of the files one level of Include deeper.                                *)
PatternMeaning(w, G, p, here) ==
  [a \in Account |->
     IF ~Going(a) THEN a
     ELSE IF p \in Tilde THEN Stopped("syntax")
     ELSE IF p \notin WildDir /\ w.disk.probe[p] = "permission"
          THEN Stopped("permission")
     ELSE IF p \in Malformed THEN Stopped("pattern")
     ELSE IF Len(a.files) + Len(w.list[p]) > MaxFiles THEN Stopped("limit")
     ELSE InTurn([i \in 1..Len(w.list[p]) |-> G[w.list[p][i]][here]], a)]

LineMeaning(w, G, f, n, outer) ==
  LET l == w.content[f][n]
      here == ContextAt(w.content[f], n, outer)
  IN  [a \in Account |->
         IF ~Going(a) THEN a
         ELSE CASE l.kind \in {"blank", "match"} -> a
                [] l.kind = "bad" -> Stopped("syntax")
                [] l.kind = "unknown" -> [a EXCEPT !.ignored = @ + 1]
                [] l.kind = "directive" ->
                     IF Len(a.said) >= MaxDirectives THEN Stopped("limit")
                     ELSE [a EXCEPT !.said = Append(@,
                             [keyword |-> l.keyword, args |-> l.args, file |-> f,
                              line |-> n, within |-> here])]
                [] l.kind = "include" ->
                     InTurn([i \in 1..Len(l.patterns) |->
                               PatternMeaning(w, G, l.patterns[i], here)], a)]

FileMeaning(w, G) ==
  [f \in File |-> [q \in Context |-> [a \in Account |->
     IF ~Going(a) THEN a
     ELSE IF Len(a.files) >= MaxFiles THEN Stopped("limit")
     ELSE IF w.disk.read[f] # "ok" THEN Stopped(w.disk.read[f])
     ELSE InTurn([n \in 1..Len(w.content[f]) |-> LineMeaning(w, G, f, n, q)],
                 [a EXCEPT !.files = Append(@, f)])]]]

(* The meaning of a file below which n levels of files may still be nested; *)
(* none at all, for n = 0.                                                  *)
TooDeep ==
  [f \in File |-> [q \in Context |-> [a \in Account |->
     IF Going(a) THEN Stopped("limit") ELSE a]]]

Meaning(w) ==
  LET upTo[n \in Nat] == IF n = 0 THEN TooDeep ELSE FileMeaning(w, upTo[n - 1])
  IN  upTo

Present(d) == {i \in 1..Len(Locations) : d.stat[Locations[i]] # "notexist"}
MainFile(d) ==
  Locations[CHOOSE i \in Present(d) : \A j \in Present(d) : i <= j]

World(c, d, list) == [content |-> c, disk |-> d, list |-> list]
Expansion(c, d, list) ==
  Meaning(World(c, d, list))[MaxDepth + 1][MainFile(d)][Outermost][Blank]

(* The section the collector owes for contents c on disk d, when a pattern  *)
(* stands for the files `list` gives it.                                    *)
Resolution(c, d, list) ==
  IF Present(d) = {} THEN Unavailable("not_found")
  ELSE IF d.stat[MainFile(d)] # "ok" THEN Unavailable(classify(d.stat[MainFile(d)]))
  ELSE SectionOf(Expansion(c, d, list))

(* What sshd reads of the same files for a connection that satisfies the     *)
(* criteria in S: the directives outside every Match block, and those inside *)
(* blocks all of which match, those around the Include included.            *)
ReadBySshd(c, d, list, S) ==
  LET said == Expansion(c, d, list).said
  IN  [EmptyConfig EXCEPT !.directives =
         InTurn([i \in 1..Len(said) |-> [read \in Seq(Directive) |->
                   IF said[i].within.under \subseteq S
                   THEN Append(read, SaysOf(said[i])) ELSE read]], <<>>)]
-----------------------------------------------------------------------------
Due(c, d) == Resolution(c, d, d.listing)

Promise == INSTANCE SshdSection WITH Nothing <- EmptyConfig, Resolution <- Due

(* Collect keeps its promise: it publishes one section, which on a disk that *)
(* does not change is exactly the expansion of the main file, or the first   *)
(* error of that expansion with no data, and which is never partial.        *)
KeepsPromise == Promise!Spec

(* A collected configuration holds every file the directories really have.  *)
Complete ==
  section.status = "collected" /\ churn = 0
    => section = Resolution(content, disk, disk.there)

(* The patterns the files name.                                             *)
Used ==
  {p \in Pattern : \E f \in File : \E n \in 1..Len(content[f]) :
     LET l == content[f][n]
     IN  l.kind = "include" /\ \E i \in 1..Len(l.patterns) : l.patterns[i] = p}

(* What the probe of include is for: where the only thing that can hide a   *)
(* file is a literal directory the auditor may not read, nothing is missing  *)
(* from a collected configuration.                                          *)
Probed ==
  \A p \in Used : disk.listing[p] # disk.there[p]
     => p \notin WildDir /\ disk.probe[p] = "permission"

CompleteWhereProbed == Probed => Complete

(* "Probe the directory first": what the auditor is denied is missed nowhere, *)
(* whatever the pattern looks like.                                         *)
DeniedOnly ==
  \A p \in Used : disk.listing[p] # disk.there[p] => disk.probe[p] = "permission"

CompleteWhereDenied == DeniedOnly => Complete

(* From the files to the verdict: on a disk that does not change and hides   *)
(* nothing else, a rule on sshd passes only if sshd, which reads the same    *)
(* files with Match blocks nested as they are included, serves no connection *)
(* in the way the rule forbids.                                             *)
PassHoldsForFiles ==
  section.status = "collected" /\ churn = 0 /\ Probed =>
    \A r \in sshRules : check(r, section) = "PASS" =>
      \A S \in SUBSET Criteria :
        ~Harmful(r, ReadBySshd(content, disk, disk.there, S), S)
=============================================================================
