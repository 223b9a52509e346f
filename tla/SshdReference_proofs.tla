------------------------ MODULE SshdReference_proofs ------------------------
(***************************************************************************)
(* The machine of SshdLoad computes what parse.go says as functions, for     *)
(* every set of files, contents and disks and for every limit; and what     *)
(* that says of the verdicts of the rules.                                  *)
(***************************************************************************)
EXTENDS SshdReference, SshdRules_proofs

(* The recursion of InTurn has a solution: finite pieces of it do, they       *)
(* agree with each other, and together they are one.                        *)
Piece(steps, x, n, g) ==
  g = [k \in 0..n |-> IF k = 0 THEN x ELSE steps[k][g[k - 1]]]

LEMMA PieceExists ==
  ASSUME NEW steps, NEW x, NEW n \in Nat
  PROVE  \E g : Piece(steps, x, n, g)
<1> DEFINE T == {m \in Nat : ~\E g : Piece(steps, x, m, g)}
<1> SUFFICES ASSUME T # {} PROVE FALSE
  OBVIOUS
<1>1. PICK m \in T : \A j \in T : m <= j
  BY LeastExists
<1>2. CASE m = 0
  <2>1. Piece(steps, x, 0, [k \in 0..0 |-> x])
    BY DEF Piece
  <2> QED
    BY <1>1, <1>2, <2>1
<1>3. CASE m # 0
  <2>1. m - 1 \in Nat /\ m - 1 \notin T
    BY <1>1, <1>3
  <2>2. PICK g : Piece(steps, x, m - 1, g)
    BY <2>1
  <2> DEFINE h == [k \in 0..m |-> IF k = m THEN steps[m][g[m - 1]] ELSE g[k]]
  <2>3. /\ h[m] = steps[m][h[m - 1]]
        /\ \A k \in 0 .. m - 1 : h[k] = IF k = 0 THEN x ELSE steps[k][h[k - 1]]
    <3>1. /\ m \in Nat /\ \A k \in 0 .. m - 1 : k \in 0..m /\ k # m
          /\ m \in 0..m /\ m - 1 \in 0 .. m - 1
      BY <2>1
    <3>2. h[m] = steps[m][g[m - 1]] /\ \A k \in 0 .. m - 1 : h[k] = g[k]
      BY <3>1
    <3>3. \A k \in 0 .. m - 1 : g[k] = IF k = 0 THEN x ELSE steps[k][g[k - 1]]
      BY <2>2 DEF Piece
    <3>4. \A k \in 0 .. m - 1 : k # 0 => k - 1 \in 0 .. m - 1
      BY <3>1
    <3> QED
      BY <3>1, <3>2, <3>3, <3>4
  <2>4. h = [k \in 0..m |-> h[k]]
    OBVIOUS
  <2> HIDE DEF h
  <2>5. \A k \in 0..m : h[k] = IF k = 0 THEN x ELSE steps[k][h[k - 1]]
    BY <1>1, <1>3, <2>3
  <2>6. Piece(steps, x, m, h)
    BY <2>4, <2>5 DEF Piece
  <2> QED
    BY <1>1, <2>6
<1> QED
  BY <1>2, <1>3

LEMMA PiecesAgree ==
  ASSUME NEW steps, NEW x, NEW n \in Nat, NEW m \in Nat, NEW g, NEW h,
         Piece(steps, x, n, g), Piece(steps, x, m, h)
  PROVE  \A k \in Nat : k <= n /\ k <= m => g[k] = h[k]
<1> DEFINE T == {k \in Nat : k <= n /\ k <= m /\ g[k] # h[k]}
<1> SUFFICES ASSUME T # {} PROVE FALSE
  OBVIOUS
<1>1. PICK k \in T : \A j \in T : k <= j
  BY LeastExists
<1>2. g[0] = x /\ h[0] = x
  BY DEF Piece
<1>3. k - 1 \in Nat /\ k - 1 \notin T
  BY <1>1, <1>2
<1>4. g[k - 1] = h[k - 1]
  BY <1>1, <1>3
<1>5. g[k] = steps[k][g[k - 1]] /\ h[k] = steps[k][h[k - 1]]
  BY <1>1, <1>3 DEF Piece
<1> QED
  BY <1>1, <1>4, <1>5

Solves(steps, x, f) ==
  f = [k \in Nat |-> IF k = 0 THEN x ELSE steps[k][f[k - 1]]]

LEMMA SolutionExists ==
  ASSUME NEW steps, NEW x
  PROVE  \E f : Solves(steps, x, f)
<1> DEFINE part(n) == CHOOSE g : Piece(steps, x, n, g)
           f == [n \in Nat |-> part(n)[n]]
<1>1. \A n \in Nat : Piece(steps, x, n, part(n))
  BY PieceExists
<1> HIDE DEF part
<1>2. f[0] = x
  BY <1>1 DEF Piece
<1>3. ASSUME NEW n \in Nat PROVE f[n + 1] = steps[n + 1][f[n]]
  <2>1. n + 1 \in Nat /\ part(n + 1)[n] = part(n)[n]
    BY <1>1, PiecesAgree
  <2>2. part(n + 1)[n + 1] = steps[n + 1][part(n + 1)[n]]
    BY <1>1, <2>1 DEF Piece
  <2> QED
    BY <2>1, <2>2
<1>4. f = [n \in Nat |-> f[n]]
  OBVIOUS
<1> HIDE DEF f
<1>5. \A k \in Nat : f[k] = IF k = 0 THEN x ELSE steps[k][f[k - 1]]
  <2>1. \A k \in Nat \ {0} : k - 1 \in Nat /\ (k - 1) + 1 = k
    OBVIOUS
  <2> QED
    BY <1>2, <1>3, <2>1
<1>6. Solves(steps, x, f)
  BY <1>4, <1>5 DEF Solves
<1> QED
  BY <1>6

After(steps, x) == CHOOSE f : Solves(steps, x, f)

(* r[k] is what is left of x after k steps.                                 *)
Run(steps, x, r) ==
  /\ r[0] = x
  /\ \A k \in Nat \ {0} : r[k] = steps[k][r[k - 1]]
  /\ InTurn(steps, x) = r[Len(steps)]

LEMMA InTurnRuns ==
  ASSUME NEW steps, NEW x
  PROVE  \E r : Run(steps, x, r)
<1>1. PICK r : r = After(steps, x)
  OBVIOUS
<1>2. Solves(steps, x, r)
  BY <1>1, SolutionExists DEF After
<1>3. InTurn(steps, x) = After(steps, x)[Len(steps)]
  BY DEF InTurn, After, Solves
<1>4. r[0] = x /\ \A k \in Nat \ {0} : r[k] = steps[k][r[k - 1]]
  BY <1>2 DEF Solves
<1>5. Run(steps, x, r)
  BY <1>1, <1>3, <1>4 DEF Run
<1> QED
  BY <1>5

LEMMA InTurnEmpty ==
  ASSUME NEW steps, NEW x, Len(steps) = 0
  PROVE  InTurn(steps, x) = x
BY InTurnRuns DEF Run

(* What holds of x and is kept by every step holds at the end; Q[k] is what   *)
(* holds after k steps.                                                     *)
LEMMA InTurnKeeps ==
  ASSUME NEW steps, NEW x, NEW Q, Len(steps) \in Nat, x \in Q[0],
         \A k \in 1..Len(steps) : \A y \in Q[k - 1] : steps[k][y] \in Q[k]
  PROVE  InTurn(steps, x) \in Q[Len(steps)]
<1>1. PICK r : Run(steps, x, r)
  BY InTurnRuns
<1> USE DEF Run
<1> DEFINE T == {k \in Nat : k <= Len(steps) /\ r[k] \notin Q[k]}
<1>2. ASSUME T # {} PROVE FALSE
  <2>1. PICK k \in T : \A j \in T : k <= j
    BY <1>2, LeastExists
  <2>2. k # 0
    BY <1>1, <2>1
  <2>3. k - 1 \in Nat /\ k - 1 \notin T /\ (k - 1) + 1 = k /\ k \in 1..Len(steps)
    BY <2>1, <2>2
  <2>4. r[k - 1] \in Q[k - 1]
    BY <2>1, <2>3
  <2>5. r[k] = steps[k][r[k - 1]]
    BY <1>1, <2>1, <2>2
  <2> QED
    BY <2>1, <2>3, <2>4, <2>5
<1> QED
  BY <1>1, <1>2

LEMMA InTurnTyped ==
  ASSUME NEW steps, NEW X, NEW x \in X, Len(steps) \in Nat,
         \A k \in 1..Len(steps) : \A y \in X : steps[k][y] \in X
  PROVE  InTurn(steps, x) \in X
<1> DEFINE Q == [k \in Nat |-> X]
<1>1. \A k \in 1..Len(steps) : k \in Nat /\ k - 1 \in Nat
  OBVIOUS
<1>2. x \in Q[0] /\ \A k \in 1..Len(steps) : Q[k - 1] = X /\ Q[k] = X
  BY <1>1
<1>3. Q[Len(steps)] = X
  OBVIOUS
<1> HIDE DEF Q
<1> QED
  BY <1>2, <1>3, InTurnKeeps

(* The first step may be taken on its own.                                  *)
LEMMA InTurnPeels ==
  ASSUME NEW steps, NEW rest, NEW x, Len(steps) \in Nat \ {0},
         Len(rest) = Len(steps) - 1,
         \A k \in 1..Len(rest) : rest[k] = steps[k + 1]
  PROVE  InTurn(steps, x) = InTurn(rest, steps[1][x])
<1> DEFINE y == steps[1][x]
<1>1. PICK r : Run(steps, x, r)
  BY InTurnRuns
<1>2. PICK s : Run(rest, y, s)
  BY InTurnRuns
<1> USE DEF Run
<1> DEFINE T == {k \in Nat : k <= Len(rest) /\ s[k] # r[k + 1]}
<1>3. Len(rest) \in Nat /\ 1 - 1 = 0 /\ 1 \in Nat \ {0}
  OBVIOUS
<1>4. r[1] = y
  BY <1>1, <1>3
<1> HIDE DEF y
<1>5. ASSUME T # {} PROVE FALSE
  <2>1. PICK k \in T : \A j \in T : k <= j
    BY <1>5, LeastExists
  <2>2. k # 0
    BY <1>2, <1>4, <2>1
  <2>3. k - 1 \in Nat /\ k - 1 \notin T /\ (k - 1) + 1 = k /\ k \in 1..Len(rest)
    BY <1>3, <2>1, <2>2
  <2>4. s[k - 1] = r[k]
    BY <1>3, <2>1, <2>3
  <2>5. s[k] = rest[k][s[k - 1]]
    BY <1>2, <2>1, <2>2
  <2>6. k + 1 \in Nat \ {0} /\ (k + 1) - 1 = k
    BY <2>1
  <2>7. r[k + 1] = steps[k + 1][r[k]]
    BY <1>1, <2>6
  <2> QED
    BY <2>1, <2>3, <2>4, <2>5, <2>7
<1>6. s[Len(rest)] = r[Len(rest) + 1] /\ Len(rest) + 1 = Len(steps)
  BY <1>5, <1>3
<1> QED
  BY <1>1, <1>2, <1>6 DEF y

LEMMA InTurnSame ==
  ASSUME NEW steps, NEW others, NEW x, Len(steps) \in Nat,
         Len(others) = Len(steps), \A k \in 1..Len(steps) : others[k] = steps[k]
  PROVE  InTurn(steps, x) = InTurn(others, x)
<1>1. PICK r : Run(steps, x, r)
  BY InTurnRuns
<1>2. PICK s : Run(others, x, s)
  BY InTurnRuns
<1> USE DEF Run
<1> DEFINE T == {k \in Nat : k <= Len(steps) /\ s[k] # r[k]}
<1>3. ASSUME T # {} PROVE FALSE
  <2>1. PICK k \in T : \A j \in T : k <= j
    BY <1>3, LeastExists
  <2>2. k # 0
    BY <1>1, <1>2, <2>1
  <2>3. k - 1 \in Nat /\ k - 1 \notin T /\ (k - 1) + 1 = k /\ k \in 1..Len(steps)
    BY <2>1, <2>2
  <2>4. s[k] = others[k][s[k - 1]] /\ r[k] = steps[k][r[k - 1]]
    BY <1>1, <1>2, <2>1, <2>2
  <2>5. s[k - 1] = r[k - 1]
    BY <2>1, <2>3
  <2> QED
    BY <2>1, <2>3, <2>4, <2>5
<1>4. s[Len(steps)] = r[Len(steps)]
  BY <1>3
<1> QED
  BY <1>1, <1>2, <1>4
-----------------------------------------------------------------------------
(* The meanings are functions on accounts: whatever is written in the files  *)
(* and whatever the disk answers, what has been read so far is always an    *)
(* account again, and an account that has stopped stays as it is.           *)
Worlds == [content : [File -> Seq(Line)], disk : Disk, list : [Pattern -> Seq(File)]]

Meanings == [File -> [Context -> [Account -> Account]]]

(* A step that leaves an account alone once it has stopped.                  *)
Strict(m) == \A a \in Account : ~Going(a) => m[a] = a

StrictMeanings == {G \in Meanings : \A f \in File, q \in Context : Strict(G[f][q])}

LEMMA StoppedTyped ==
  ASSUME NEW err
  PROVE  Stopped(err) \in Account /\ ~Going(Stopped(err))
<1>1. Stopped(err) = [status |-> classify(err), files |-> <<>>, said |-> <<>>, ignored |-> 0]
  BY DEF Stopped, Blank
<1>2. classify(err) \in {"permission_denied", "failed"}
  BY DEF classify
<1>3. <<>> \in Seq(File) /\ <<>> \in Seq(Reading)
  BY EmptySeq
<1> QED
  BY <1>1, <1>2, <1>3 DEF Account, Going

LEMMA OutermostTyped == Outermost \in Context
BY DEF Outermost, Context, Label

LEMMA LastExists ==
  ASSUME NEW n \in Nat, NEW T \in SUBSET (1..n), T # {}
  PROVE  \E m \in T : \A k \in T : k <= m
<1> DEFINE U == {j \in Nat : n - j \in T}
<1>1. U # {}
  <2>1. PICK k \in T : TRUE
    OBVIOUS
  <2>2. n - k \in Nat /\ n - (n - k) = k
    BY <2>1
  <2> QED
    BY <2>1, <2>2
<1>2. PICK j \in U : \A i \in U : j <= i
  BY <1>1, LeastExists
<1>3. ASSUME NEW k \in T PROVE k <= n - j
  <2>1. n - k \in Nat /\ n - (n - k) = k
    OBVIOUS
  <2>2. j <= n - k
    BY <1>2, <2>1
  <2> QED
    BY <1>2, <2>2
<1> QED
  BY <1>2, <1>3

LEMMA ContextTyped ==
  ASSUME NEW lines \in Seq(Line), NEW n \in 1 .. Len(lines) + 1, NEW outer \in Context
  PROVE  ContextAt(lines, n, outer) \in Context
<1> DEFINE before == {m \in 1 .. n - 1 : lines[m].kind = "match"}
           last == CHOOSE m \in before : \A k \in before : k <= m
<1>1. CASE before = {}
  BY <1>1 DEF ContextAt
<1>2. CASE before # {}
  <2>1. n - 1 \in Nat /\ n - 1 <= Len(lines)
    BY LenProperties
  <2>2. last \in before
    BY <1>2, <2>1, LastExists
  <2>3. lines[last] \in Line /\ lines[last].kind = "match"
    BY <2>1, <2>2, ElementOfSeq
  <2>4. lines[last].criteria \in Criteria
    BY <2>3, LineFields
  <2>5. ContextAt(lines, n, outer) =
          [label |-> lines[last].criteria, under |-> outer.under \cup {lines[last].criteria}]
    BY <1>2 DEF ContextAt
  <2> HIDE DEF last
  <2> QED
    BY <2>4, <2>5 DEF Context, Label
<1> QED
  BY <1>1, <1>2

LEMMA FilesInTurnTyped ==
  ASSUME NEW G \in StrictMeanings, NEW fs \in Seq(File), NEW here \in Context, NEW a \in Account
  PROVE  InTurn([i \in 1..Len(fs) |-> G[fs[i]][here]], a) \in Account
<1> DEFINE steps == [i \in 1..Len(fs) |-> G[fs[i]][here]]
<1>1. Len(steps) = Len(fs) /\ Len(fs) \in Nat
  BY LenProperties
<1>2. \A k \in 1..Len(fs) : fs[k] \in File
  BY ElementOfSeq
<1>3. \A k \in 1..Len(fs) : \A y \in Account : steps[k][y] \in Account
  BY <1>2 DEF StrictMeanings, Meanings
<1> HIDE DEF steps
<1>4. InTurn(steps, a) \in Account
  BY <1>1, <1>3, InTurnTyped
<1> QED
  BY <1>4 DEF steps

LEMMA PatternTyped ==
  ASSUME NEW w \in Worlds, NEW G \in StrictMeanings, NEW p \in Pattern, NEW here \in Context
  PROVE  /\ PatternMeaning(w, G, p, here) \in [Account -> Account]
         /\ Strict(PatternMeaning(w, G, p, here))
<1>1. w.list[p] \in Seq(File)
  BY DEF Worlds
<1>2. \A a \in Account : InTurn([i \in 1..Len(w.list[p]) |-> G[w.list[p][i]][here]], a) \in Account
  BY <1>1, FilesInTurnTyped
<1>3. \A err : Stopped(err) \in Account
  BY StoppedTyped
<1> QED
  BY <1>2, <1>3 DEF PatternMeaning, Strict

LEMMA PatternsInTurnTyped ==
  ASSUME NEW w \in Worlds, NEW G \in StrictMeanings, NEW ps \in Seq(Pattern),
         NEW here \in Context, NEW a \in Account
  PROVE  InTurn([i \in 1..Len(ps) |-> PatternMeaning(w, G, ps[i], here)], a) \in Account
<1> DEFINE steps == [i \in 1..Len(ps) |-> PatternMeaning(w, G, ps[i], here)]
<1>1. Len(steps) = Len(ps) /\ Len(ps) \in Nat
  BY LenProperties
<1>2. \A k \in 1..Len(ps) : ps[k] \in Pattern
  BY ElementOfSeq
<1>3. \A k \in 1..Len(ps) : \A y \in Account : steps[k][y] \in Account
  BY <1>2, PatternTyped
<1> HIDE DEF steps
<1>4. InTurn(steps, a) \in Account
  BY <1>1, <1>3, InTurnTyped
<1> QED
  BY <1>4 DEF steps
LEMMA LineTyped ==
  ASSUME NEW w \in Worlds, NEW G \in StrictMeanings, NEW f \in File,
         NEW n \in 1..Len(w.content[f]), NEW outer \in Context
  PROVE  /\ LineMeaning(w, G, f, n, outer) \in [Account -> Account]
         /\ Strict(LineMeaning(w, G, f, n, outer))
<1> DEFINE l == w.content[f][n]
           here == ContextAt(w.content[f], n, outer)
           said == [keyword |-> l.keyword, args |-> l.args, file |-> f,
                    line |-> n, within |-> here]
           ps == [i \in 1..Len(l.patterns) |-> PatternMeaning(w, G, l.patterns[i], here)]
           next(a) == CASE l.kind \in {"blank", "match"} -> a
                [] l.kind = "bad" -> Stopped("syntax")
                [] l.kind = "unknown" -> [a EXCEPT !.ignored = @ + 1]
                [] l.kind = "directive" ->
                     IF Len(a.said) >= MaxDirectives THEN Stopped("limit")
                     ELSE [a EXCEPT !.said = Append(@, said)]
                [] l.kind = "include" -> InTurn(ps, a)
<1>1. /\ w.content[f] \in Seq(Line) /\ Len(w.content[f]) \in Nat
      /\ n \in Nat \ {0} /\ n \in 1 .. Len(w.content[f]) + 1
  BY LenProperties DEF Worlds
<1>2. l \in Line /\ here \in Context
  BY <1>1, ElementOfSeq, ContextTyped
<1>3. LineMeaning(w, G, f, n, outer) =
        [a \in Account |-> IF ~Going(a) THEN a ELSE next(a)]
  BY DEF LineMeaning
<1> HIDE DEF l, here
<1>4. l.kind \in {"blank", "match", "bad", "unknown", "directive", "include"}
  BY <1>2 DEF Line
<1>5. ASSUME NEW a \in Account PROVE next(a) \in Account
  <2>1. CASE l.kind \in {"blank", "match"}
    BY <2>1
  <2>2. CASE l.kind = "bad"
    BY <2>2, StoppedTyped
  <2>3. CASE l.kind = "unknown"
    <3>1. [a EXCEPT !.ignored = @ + 1] \in Account
      BY DEF Account
    <3> QED
      BY <2>3, <3>1
  <2>4. CASE l.kind = "directive"
    <3>1. said \in Reading
      BY <1>1, <1>2, <2>4, LineFields DEF Reading
    <3> HIDE DEF said
    <3>2. Append(a.said, said) \in Seq(Reading)
      BY <3>1, AppendProperties DEF Account
    <3>3. [a EXCEPT !.said = Append(@, said)] \in Account
      BY <3>2 DEF Account
    <3>4. next(a) = IF Len(a.said) >= MaxDirectives THEN Stopped("limit")
                    ELSE [a EXCEPT !.said = Append(@, said)]
      BY <2>4
    <3> HIDE DEF next
    <3> QED
      BY <3>3, <3>4, StoppedTyped
  <2>5. CASE l.kind = "include"
    <3>1. l.patterns \in Seq(Pattern)
      BY <1>2, <2>5, LineFields
    <3>2. InTurn(ps, a) \in Account
      BY <1>2, <3>1, PatternsInTurnTyped
    <3> HIDE DEF ps
    <3> QED
      BY <2>5, <3>2
  <2> QED
    BY <1>4, <2>1, <2>2, <2>3, <2>4, <2>5
<1> HIDE DEF next
<1> QED
  BY <1>3, <1>5 DEF Strict

LEMMA FileTyped ==
  ASSUME NEW w \in Worlds, NEW G \in StrictMeanings
  PROVE  FileMeaning(w, G) \in StrictMeanings
<1>1. ASSUME NEW f \in File, NEW q \in Context, NEW a \in Account
      PROVE  InTurn([n \in 1..Len(w.content[f]) |-> LineMeaning(w, G, f, n, q)],
                    [a EXCEPT !.files = Append(@, f)]) \in Account
  <2> DEFINE steps == [n \in 1..Len(w.content[f]) |-> LineMeaning(w, G, f, n, q)]
             b == [a EXCEPT !.files = Append(@, f)]
  <2>1. Len(w.content[f]) \in Nat /\ Len(steps) = Len(w.content[f])
    BY LenProperties DEF Worlds
  <2>2. Append(a.files, f) \in Seq(File)
    BY AppendProperties DEF Account
  <2>3. b \in Account
    BY <2>2 DEF Account
  <2>4. \A k \in 1..Len(w.content[f]) : \A y \in Account : steps[k][y] \in Account
    BY LineTyped
  <2> HIDE DEF steps, b
  <2>5. InTurn(steps, b) \in Account
    BY <2>1, <2>3, <2>4, InTurnTyped
  <2> QED
    BY <2>5 DEF steps, b
<1> DEFINE went(f, q, a) ==
             InTurn([n \in 1..Len(w.content[f]) |-> LineMeaning(w, G, f, n, q)],
                    [a EXCEPT !.files = Append(@, f)])
<1>2. FileMeaning(w, G) =
        [f \in File |-> [q \in Context |-> [a \in Account |->
           IF ~Going(a) THEN a
           ELSE IF Len(a.files) >= MaxFiles THEN Stopped("limit")
           ELSE IF w.disk.read[f] # "ok" THEN Stopped(w.disk.read[f])
           ELSE went(f, q, a)]]]
  BY DEF FileMeaning
<1>3. \A f \in File, q \in Context, a \in Account : went(f, q, a) \in Account
  BY <1>1
<1>4. \A err : Stopped(err) \in Account
  BY StoppedTyped
<1> HIDE DEF went
<1>5. FileMeaning(w, G) \in Meanings
  BY <1>2, <1>3, <1>4 DEF Meanings
<1>6. \A f \in File, q \in Context : Strict(FileMeaning(w, G)[f][q])
  BY <1>2 DEF Strict
<1> QED
  BY <1>5, <1>6 DEF StrictMeanings

LEMMA TooDeepTyped == TooDeep \in StrictMeanings
BY StoppedTyped DEF TooDeep, StrictMeanings, Meanings, Strict

(* The recursion on the depth of the files has a solution as well.          *)
Levels(w, f) ==
  f = [n \in Nat |-> IF n = 0 THEN TooDeep ELSE FileMeaning(w, f[n - 1])]

LEMMA MeaningSolves ==
  ASSUME NEW w \in Worlds
  PROVE  /\ Meaning(w)[0] = TooDeep
         /\ \A n \in Nat : /\ Meaning(w)[n] \in StrictMeanings
                           /\ Meaning(w)[n + 1] = FileMeaning(w, Meaning(w)[n])
<1> DEFINE steps == [n \in Nat |-> [G \in StrictMeanings |-> FileMeaning(w, G)]]
<1>1. PICK f : Solves(steps, TooDeep, f)
  BY SolutionExists
<1>2. /\ f = [n \in Nat |-> f[n]]
      /\ f[0] = TooDeep
      /\ \A n \in Nat \ {0} : f[n] = steps[n][f[n - 1]]
  BY <1>1 DEF Solves
<1>3. \A n \in Nat : f[n] \in StrictMeanings
  <2> DEFINE T == {n \in Nat : f[n] \notin StrictMeanings}
  <2> SUFFICES ASSUME T # {} PROVE FALSE
    OBVIOUS
  <2>1. PICK n \in T : \A j \in T : n <= j
    BY LeastExists
  <2>2. n # 0
    BY <1>2, <2>1, TooDeepTyped
  <2>3. n - 1 \in Nat /\ n - 1 \notin T
    BY <2>1, <2>2
  <2>4. f[n - 1] \in StrictMeanings /\ f[n] = steps[n][f[n - 1]]
    BY <1>2, <2>1, <2>2, <2>3
  <2> QED
    BY <2>1, <2>4, FileTyped
<1>4. ASSUME NEW n \in Nat \ {0}
      PROVE  n - 1 \in Nat /\ f[n] = FileMeaning(w, f[n - 1])
  <2>1. n - 1 \in Nat /\ n \in Nat
    OBVIOUS
  <2>2. f[n - 1] \in StrictMeanings
    BY <1>3, <2>1
  <2>3. steps[n][f[n - 1]] = FileMeaning(w, f[n - 1])
    BY <2>1, <2>2
  <2> QED
    BY <1>2, <2>1, <2>3
<1> HIDE DEF steps
<1>5. Levels(w, f)
  BY <1>2, <1>4 DEF Levels
<1>6. Meaning(w) = CHOOSE g : Levels(w, g)
  BY DEF Meaning, Levels
<1>7. PICK m : m = Meaning(w)
  OBVIOUS
<1>8. Levels(w, m)
  BY <1>5, <1>6, <1>7
<1>9. m[0] = TooDeep /\ \A n \in Nat \ {0} : m[n] = FileMeaning(w, m[n - 1])
  BY <1>8 DEF Levels
<1>10. \A n \in Nat : m[n + 1] = FileMeaning(w, m[n])
  <2>1. \A n \in Nat : n + 1 \in Nat \ {0} /\ (n + 1) - 1 = n
    OBVIOUS
  <2> QED
    BY <1>9, <2>1
<1>11. \A n \in Nat : m[n] \in StrictMeanings
  <2> DEFINE T == {n \in Nat : m[n] \notin StrictMeanings}
  <2> SUFFICES ASSUME T # {} PROVE FALSE
    OBVIOUS
  <2>1. PICK n \in T : \A j \in T : n <= j
    BY LeastExists
  <2>2. n # 0
    BY <1>9, <2>1, TooDeepTyped
  <2>3. n - 1 \in Nat /\ n - 1 \notin T
    BY <2>1, <2>2
  <2>4. m[n - 1] \in StrictMeanings /\ m[n] = FileMeaning(w, m[n - 1])
    BY <1>9, <2>1, <2>2, <2>3
  <2> QED
    BY <2>1, <2>4, FileTyped
<1> QED
  BY <1>7, <1>9, <1>10, <1>11
-----------------------------------------------------------------------------
(* What an active call of parseFile still has to do, from the account a it   *)
(* has come to: the matches of the current pattern, the other patterns of   *)
(* the line, and the lines that follow.                                     *)
Parsed(G, fs, here, a) == InTurn([i \in 1..Len(fs) |-> G[fs[i]][here]], a)

Included(w, G, ps, here, a) ==
  InTurn([i \in 1..Len(ps) |-> PatternMeaning(w, G, ps[i], here)], a)

LinesFrom(w, G, f, at, q, a) ==
  InTurn([i \in 1 .. Len(w.content[f]) + 1 - at |-> LineMeaning(w, G, f, at + i - 1, q)], a)

Here(w, fr, q) == ContextAt(w.content[fr.file], fr.at, q)

RestOf(w, G, fr, q, a) ==
  LinesFrom(w, G, fr.file, fr.at, q,
            Included(w, G, fr.patterns, Here(w, fr, q),
                     Parsed(G, fr.matches, Here(w, fr, q), a)))

Fits(w, fr) == fr \in Frame /\ fr.at <= Len(w.content[fr.file]) + 1

LEMMA ParsedNone ==
  ASSUME NEW G, NEW here, NEW a
  PROVE  Parsed(G, <<>>, here, a) = a
<1> DEFINE steps == [i \in 1..Len(<<>>) |-> G[<<>>[i]][here]]
<1>1. Len(steps) = 0
  BY EmptySeq
<1> HIDE DEF steps
<1>2. InTurn(steps, a) = a
  BY <1>1, InTurnEmpty
<1> QED
  BY <1>2 DEF Parsed, steps

LEMMA ParsedHead ==
  ASSUME NEW G, NEW fs \in Seq(File), fs # <<>>, NEW here, NEW a
  PROVE  Parsed(G, fs, here, a) = Parsed(G, Tail(fs), here, G[Head(fs)][here][a])
<1> DEFINE steps == [i \in 1..Len(fs) |-> G[fs[i]][here]]
           rest == [i \in 1..Len(Tail(fs)) |-> G[Tail(fs)[i]][here]]
<1>1. /\ Len(fs) \in Nat \ {0} /\ Len(Tail(fs)) = Len(fs) - 1
      /\ Head(fs) = fs[1]
      /\ \A i \in 1..Len(Tail(fs)) : Tail(fs)[i] = fs[i + 1]
  BY HeadTailProperties, EmptySeq, LenProperties
<1>2. /\ Len(steps) = Len(fs) /\ Len(rest) = Len(fs) - 1
      /\ steps[1] = G[Head(fs)][here]
      /\ \A k \in 1..Len(rest) : rest[k] = steps[k + 1]
  BY <1>1
<1> HIDE DEF steps, rest
<1>3. InTurn(steps, a) = InTurn(rest, steps[1][a])
  BY <1>1, <1>2, InTurnPeels
<1> QED
  BY <1>2, <1>3 DEF Parsed, steps, rest

LEMMA IncludedNone ==
  ASSUME NEW w, NEW G, NEW here, NEW a
  PROVE  Included(w, G, <<>>, here, a) = a
<1> DEFINE steps == [i \in 1..Len(<<>>) |-> PatternMeaning(w, G, <<>>[i], here)]
<1>1. Len(steps) = 0
  BY EmptySeq
<1> HIDE DEF steps
<1>2. InTurn(steps, a) = a
  BY <1>1, InTurnEmpty
<1> QED
  BY <1>2 DEF Included, steps

LEMMA IncludedHead ==
  ASSUME NEW w, NEW G, NEW ps \in Seq(Pattern), ps # <<>>, NEW here, NEW a
  PROVE  Included(w, G, ps, here, a) =
           Included(w, G, Tail(ps), here, PatternMeaning(w, G, Head(ps), here)[a])
<1> DEFINE steps == [i \in 1..Len(ps) |-> PatternMeaning(w, G, ps[i], here)]
           rest == [i \in 1..Len(Tail(ps)) |-> PatternMeaning(w, G, Tail(ps)[i], here)]
<1>1. /\ Len(ps) \in Nat \ {0} /\ Len(Tail(ps)) = Len(ps) - 1
      /\ Head(ps) = ps[1]
      /\ \A i \in 1..Len(Tail(ps)) : Tail(ps)[i] = ps[i + 1]
  BY HeadTailProperties, EmptySeq, LenProperties
<1>2. /\ Len(steps) = Len(ps) /\ Len(rest) = Len(ps) - 1
      /\ steps[1] = PatternMeaning(w, G, Head(ps), here)
      /\ \A k \in 1..Len(rest) : rest[k] = steps[k + 1]
  BY <1>1
<1> HIDE DEF steps, rest
<1>3. InTurn(steps, a) = InTurn(rest, steps[1][a])
  BY <1>1, <1>2, InTurnPeels
<1> QED
  BY <1>2, <1>3 DEF Included, steps, rest

LEMMA LinesNone ==
  ASSUME NEW w, NEW G, NEW f, NEW q, NEW a, Len(w.content[f]) \in Nat
  PROVE  LinesFrom(w, G, f, Len(w.content[f]) + 1, q, a) = a
<1> DEFINE n == Len(w.content[f])
           steps == [i \in 1 .. n + 1 - (n + 1) |-> LineMeaning(w, G, f, n + 1 + i - 1, q)]
<1>1. Len(steps) = 0
  OBVIOUS
<1> HIDE DEF steps
<1>2. InTurn(steps, a) = a
  BY <1>1, InTurnEmpty
<1> QED
  BY <1>2 DEF LinesFrom, steps

LEMMA LinesHead ==
  ASSUME NEW w, NEW G, NEW f, NEW q, NEW a, Len(w.content[f]) \in Nat,
         NEW at \in 1..Len(w.content[f])
  PROVE  LinesFrom(w, G, f, at, q, a) =
           LinesFrom(w, G, f, at + 1, q, LineMeaning(w, G, f, at, q)[a])
<1>0. PICK n \in Nat : n = Len(w.content[f])
  OBVIOUS
<1> DEFINE steps == [i \in 1 .. n + 1 - at |-> LineMeaning(w, G, f, at + i - 1, q)]
           rest == [i \in 1 .. n + 1 - (at + 1) |-> LineMeaning(w, G, f, at + 1 + i - 1, q)]
<1>1. at \in Nat /\ at <= n
  BY <1>0
<1>2. /\ n + 1 - at \in Nat \ {0} /\ n + 1 - (at + 1) = n + 1 - at - 1
      /\ n + 1 - (at + 1) \in Nat
      /\ at + 1 - 1 = at /\ 1 \in 1 .. n + 1 - at
      /\ \A k \in 1 .. n + 1 - (at + 1) : k + 1 \in 1 .. n + 1 - at
                                        /\ at + 1 + k - 1 = at + (k + 1) - 1
  BY <1>1
<1>3. Len(steps) = n + 1 - at /\ Len(rest) = n + 1 - (at + 1)
  BY <1>2
<1>4. steps[1] = LineMeaning(w, G, f, at, q)
  BY <1>2
<1>5. \A k \in 1..Len(rest) : rest[k] = steps[k + 1]
  BY <1>2, <1>3
<1> HIDE DEF steps, rest
<1>6. Len(steps) \in Nat \ {0} /\ Len(rest) = Len(steps) - 1
  BY <1>2, <1>3
<1>7. InTurn(steps, a) = InTurn(rest, steps[1][a])
  BY <1>5, <1>6, InTurnPeels
<1> QED
  BY <1>0, <1>4, <1>7 DEF LinesFrom, steps, rest

LEMMA FrameFields ==
  ASSUME NEW w \in Worlds, NEW fr, Fits(w, fr)
  PROVE  /\ fr \in Frame /\ fr.file \in File /\ fr.at \in Nat \ {0}
         /\ fr.patterns \in Seq(Pattern) /\ fr.matches \in Seq(File)
         /\ Len(fr.patterns) \in Nat /\ Len(fr.matches) \in Nat
         /\ w.content[fr.file] \in Seq(Line) /\ Len(w.content[fr.file]) \in Nat
         /\ fr.at \in 1 .. Len(w.content[fr.file]) + 1
         /\ Len(w.content[fr.file]) + 1 - fr.at \in Nat
         /\ \A i \in 1 .. Len(w.content[fr.file]) + 1 - fr.at :
              fr.at + i - 1 \in 1..Len(w.content[fr.file])
<1>1. /\ fr \in Frame /\ fr.file \in File /\ fr.at \in Nat \ {0}
      /\ fr.patterns \in Seq(Pattern) /\ fr.matches \in Seq(File)
      /\ w.content[fr.file] \in Seq(Line) /\ fr.at <= Len(w.content[fr.file]) + 1
  BY DEF Fits, Frame, Worlds
<1>2. PICK n : n = Len(w.content[fr.file])
  OBVIOUS
<1>3. PICK at : at = fr.at
  OBVIOUS
<1>4. n \in Nat /\ at \in Nat \ {0} /\ at <= n + 1
  BY <1>1, <1>2, <1>3, LenProperties
<1>5. /\ at \in 1 .. n + 1 /\ n + 1 - at \in Nat
      /\ \A i \in 1 .. n + 1 - at : at + i - 1 \in 1..n
  BY <1>4
<1> QED
  BY <1>1, <1>2, <1>3, <1>4, <1>5, LenProperties

LEMMA RestTyped ==
  ASSUME NEW w \in Worlds, NEW G \in StrictMeanings, NEW fr, Fits(w, fr),
         NEW q \in Context, NEW a \in Account
  PROVE  RestOf(w, G, fr, q, a) \in Account
<1> DEFINE here == Here(w, fr, q)
           n == Len(w.content[fr.file]) + 1 - fr.at
           steps == [i \in 1..n |-> LineMeaning(w, G, fr.file, fr.at + i - 1, q)]
<1>1. /\ fr \in Frame /\ fr.file \in File
      /\ fr.patterns \in Seq(Pattern) /\ fr.matches \in Seq(File)
  BY FrameFields
<1>2. here \in Context
  BY FrameFields, ContextTyped DEF Here
<1> HIDE DEF here
<1>3. Parsed(G, fr.matches, here, a) \in Account
  BY <1>1, <1>2, FilesInTurnTyped DEF Parsed
<1>4. Included(w, G, fr.patterns, here, Parsed(G, fr.matches, here, a)) \in Account
  BY <1>1, <1>2, <1>3, PatternsInTurnTyped DEF Included
<1>5. n \in Nat /\ \A i \in 1..n : fr.at + i - 1 \in 1..Len(w.content[fr.file])
  BY FrameFields
<1>6. Len(steps) = n /\ \A k \in 1..n : \A y \in Account : steps[k][y] \in Account
  BY <1>1, <1>5, LineTyped
<1> HIDE DEF steps, n
<1>7. \A b \in Account : InTurn(steps, b) \in Account
  BY <1>5, <1>6, InTurnTyped
<1> QED
  BY <1>4, <1>7 DEF RestOf, LinesFrom, steps, n, here

LEMMA RestStrict ==
  ASSUME NEW w \in Worlds, NEW G \in StrictMeanings, NEW fr, Fits(w, fr),
         NEW q \in Context, NEW a \in Account, ~Going(a)
  PROVE  RestOf(w, G, fr, q, a) = a
<1> DEFINE here == Here(w, fr, q)
           n == Len(w.content[fr.file]) + 1 - fr.at
           lines == [i \in 1..n |-> LineMeaning(w, G, fr.file, fr.at + i - 1, q)]
           files == [i \in 1..Len(fr.matches) |-> G[fr.matches[i]][here]]
           patterns == [i \in 1..Len(fr.patterns) |->
                          PatternMeaning(w, G, fr.patterns[i], here)]
<1>1. /\ fr \in Frame /\ fr.file \in File
      /\ fr.patterns \in Seq(Pattern) /\ fr.matches \in Seq(File)
      /\ Len(fr.patterns) \in Nat /\ Len(fr.matches) \in Nat
  BY FrameFields
<1>2. here \in Context
  BY FrameFields, ContextTyped DEF Here
<1> HIDE DEF here
<1>3. Len(files) = Len(fr.matches) /\ \A k \in 1..Len(fr.matches) : files[k][a] = a
  <2>1. \A k \in 1..Len(fr.matches) : fr.matches[k] \in File
    BY <1>1, ElementOfSeq
  <2> QED
    BY <1>1, <1>2, <2>1 DEF StrictMeanings, Strict
<1>4. Len(patterns) = Len(fr.patterns) /\ \A k \in 1..Len(fr.patterns) : patterns[k][a] = a
  <2>1. \A k \in 1..Len(fr.patterns) : fr.patterns[k] \in Pattern
    BY <1>1, ElementOfSeq
  <2> QED
    BY <1>1, <1>2, <2>1, PatternTyped DEF Strict
<1>5. n \in Nat /\ \A i \in 1..n : fr.at + i - 1 \in 1..Len(w.content[fr.file])
  BY FrameFields
<1>6. Len(lines) = n /\ \A k \in 1..n : lines[k][a] = a
  BY <1>1, <1>5, LineTyped DEF Strict
<1> HIDE DEF files, patterns, lines, n
<1>7. InTurn(files, a) \in {a}
  BY <1>1, <1>3, InTurnTyped
<1>8. InTurn(patterns, a) \in {a}
  BY <1>1, <1>4, InTurnTyped
<1>9. InTurn(lines, a) \in {a}
  BY <1>5, <1>6, InTurnTyped
<1> QED
  BY <1>7, <1>8, <1>9 DEF RestOf, LinesFrom, Included, Parsed, lines, files, patterns, n, here

(* Each step of the machine takes a piece off what is left to do.           *)
FileTaken(fr) == [fr EXCEPT !.matches = Tail(@)]
Globbed(fr, fs) == [fr EXCEPT !.patterns = Tail(@), !.matches = fs]

LEMMA RestAfterFile ==
  ASSUME NEW w \in Worlds, NEW G, NEW fr, Fits(w, fr), fr.matches # <<>>,
         NEW q, NEW a, NEW t, t = FileTaken(fr)
  PROVE  /\ Fits(w, t) /\ Here(w, t, q) = Here(w, fr, q)
         /\ RestOf(w, G, fr, q, a) =
              RestOf(w, G, t, q, G[Head(fr.matches)][Here(w, fr, q)][a])
<1>1. fr \in Frame /\ fr.matches \in Seq(File)
  BY FrameFields
<1>2. Tail(fr.matches) \in Seq(File)
  BY <1>1, HeadTailProperties
<1>3. /\ t \in Frame /\ t.file = fr.file /\ t.at = fr.at /\ t.patterns = fr.patterns
      /\ t.matches = Tail(fr.matches)
  BY <1>1, <1>2 DEF Frame, FileTaken
<1>4. Fits(w, t) /\ Here(w, t, q) = Here(w, fr, q)
  BY <1>3 DEF Fits, Here
<1>5. ASSUME NEW fs, fs = fr.matches, NEW here
      PROVE  Parsed(G, fs, here, a) = Parsed(G, Tail(fs), here, G[Head(fs)][here][a])
  BY <1>1, <1>5, ParsedHead
<1> QED
  BY <1>3, <1>4, <1>5 DEF RestOf

LEMMA RestAfterPattern ==
  ASSUME NEW w \in Worlds, NEW G, NEW fr, Fits(w, fr),
         fr.matches = <<>>, fr.patterns # <<>>,
         NEW q, NEW a, NEW t, t = [fr EXCEPT !.patterns = Tail(@)]
  PROVE  /\ Fits(w, t) /\ Here(w, t, q) = Here(w, fr, q)
         /\ RestOf(w, G, fr, q, a) =
              RestOf(w, G, t, q, PatternMeaning(w, G, Head(fr.patterns), Here(w, fr, q))[a])
<1>1. fr \in Frame /\ fr.patterns \in Seq(Pattern)
  BY FrameFields
<1>2. Tail(fr.patterns) \in Seq(Pattern)
  BY <1>1, HeadTailProperties
<1>3. /\ t \in Frame /\ t.file = fr.file /\ t.at = fr.at
      /\ t.patterns = Tail(fr.patterns) /\ t.matches = <<>>
  BY <1>1, <1>2 DEF Frame
<1>4. Fits(w, t) /\ Here(w, t, q) = Here(w, fr, q)
  BY <1>3 DEF Fits, Here
<1>5. Included(w, G, fr.patterns, Here(w, fr, q), a) =
        Included(w, G, t.patterns, Here(w, fr, q),
                 PatternMeaning(w, G, Head(fr.patterns), Here(w, fr, q))[a])
  BY <1>1, <1>3, IncludedHead
<1> QED
  BY <1>3, <1>4, <1>5, ParsedNone DEF RestOf

(* Pattern p stands for its files, and there is room for them.              *)
Admits(w, a, p) ==
  /\ p \notin Tilde /\ p \notin Malformed
  /\ ~(p \notin WildDir /\ w.disk.probe[p] = "permission")
  /\ ~(Len(a.files) + Len(w.list[p]) > MaxFiles)

LEMMA RestAfterGlob ==
  ASSUME NEW w \in Worlds, NEW G, NEW fr, Fits(w, fr),
         fr.matches = <<>>, fr.patterns # <<>>,
         NEW q, NEW a \in Account, Going(a), NEW p, p = Head(fr.patterns),
         Admits(w, a, p),
         NEW t, t = Globbed(fr, w.list[p])
  PROVE  /\ Fits(w, t) /\ Here(w, t, q) = Here(w, fr, q)
         /\ RestOf(w, G, fr, q, a) = RestOf(w, G, t, q, a)
<1>1. fr \in Frame /\ fr.patterns \in Seq(Pattern)
  BY FrameFields
<1>2. Tail(fr.patterns) \in Seq(Pattern) /\ p \in Pattern
  BY <1>1, HeadTailProperties
<1>3. w.list[p] \in Seq(File)
  BY <1>2 DEF Worlds
<1>4. /\ t \in Frame /\ t.file = fr.file /\ t.at = fr.at
      /\ t.patterns = Tail(fr.patterns) /\ t.matches = w.list[p]
  BY <1>1, <1>2, <1>3 DEF Frame, Globbed
<1>5. Fits(w, t) /\ Here(w, t, q) = Here(w, fr, q)
  BY <1>4 DEF Fits, Here
<1>6. PatternMeaning(w, G, p, Here(w, fr, q))[a] = Parsed(G, w.list[p], Here(w, fr, q), a)
  BY DEF PatternMeaning, Parsed, Admits
<1>7. Included(w, G, fr.patterns, Here(w, fr, q), a) =
        Included(w, G, t.patterns, Here(w, fr, q),
                 Parsed(G, t.matches, Here(w, fr, q), a))
  BY <1>1, <1>4, <1>6, IncludedHead
<1> QED
  BY <1>4, <1>5, <1>7, ParsedNone DEF RestOf

LEMMA ContextNext ==
  ASSUME NEW lines, NEW n \in Nat \ {0}, NEW outer
  PROVE  /\ lines[n].kind # "match" =>
              ContextAt(lines, n + 1, outer) = ContextAt(lines, n, outer)
         /\ lines[n].kind = "match" =>
              ContextAt(lines, n + 1, outer).label = lines[n].criteria
<1> DEFINE before(k) == {m \in 1 .. k - 1 : lines[m].kind = "match"}
           last == CHOOSE m \in before(n + 1) : \A k \in before(n + 1) : k <= m
<1>1. CASE lines[n].kind # "match"
  <2>1. before(n + 1) = before(n)
    BY <1>1
  <2> HIDE DEF before
  <2> QED
    BY <1>1, <2>1 DEF ContextAt, before
<1>2. CASE lines[n].kind = "match"
  <2>1. n \in before(n + 1) /\ \A k \in before(n + 1) : k \in Nat /\ k <= n
    BY <1>2
  <2>2. last \in before(n + 1) /\ n <= last
    BY <2>1
  <2>3. last = n
    BY <2>1, <2>2
  <2>4. ContextAt(lines, n + 1, outer) =
          [label |-> lines[last].criteria, under |-> outer.under \cup {lines[last].criteria}]
    BY <2>1 DEF ContextAt
  <2> QED
    BY <1>2, <2>3, <2>4
<1> QED
  BY <1>1, <1>2

LEMMA RestAfterLine ==
  ASSUME NEW w \in Worlds, NEW G, NEW fr, Fits(w, fr),
         fr.matches = <<>>, fr.patterns = <<>>, fr.at <= Len(w.content[fr.file]),
         NEW q, NEW a, NEW t, Fits(w, t), t.file = fr.file, t.at = fr.at + 1,
         t.matches = <<>>, t.patterns = <<>>
  PROVE  RestOf(w, G, fr, q, a) =
           RestOf(w, G, t, q, LineMeaning(w, G, fr.file, fr.at, q)[a])
<1>1. Len(w.content[fr.file]) \in Nat /\ fr.at \in 1..Len(w.content[fr.file])
  BY FrameFields
<1>2. \A fr_, b : fr_.matches = <<>> /\ fr_.patterns = <<>>
                    => RestOf(w, G, fr_, q, b) = LinesFrom(w, G, fr_.file, fr_.at, q, b)
  BY ParsedNone, IncludedNone DEF RestOf
<1>3. LinesFrom(w, G, fr.file, fr.at, q, a) =
        LinesFrom(w, G, fr.file, fr.at + 1, q, LineMeaning(w, G, fr.file, fr.at, q)[a])
  BY <1>1, LinesHead
<1> QED
  BY <1>2, <1>3

LEMMA RestAfterInclude ==
  ASSUME NEW w \in Worlds, NEW G, NEW fr, Fits(w, fr),
         fr.matches = <<>>, fr.patterns = <<>>, fr.at <= Len(w.content[fr.file]),
         w.content[fr.file][fr.at].kind = "include",
         NEW q, NEW a \in Account, Going(a), NEW t,
         t.file = fr.file, t.at = fr.at + 1, t.matches = <<>>,
         t.patterns = w.content[fr.file][fr.at].patterns
  PROVE  RestOf(w, G, fr, q, a) = RestOf(w, G, t, q, a)
<1> DEFINE l == w.content[fr.file][fr.at]
<1>1. Len(w.content[fr.file]) \in Nat /\ fr.at \in 1..Len(w.content[fr.file])
      /\ fr.at \in Nat \ {0}
  BY FrameFields
<1>2. Here(w, t, q) = Here(w, fr, q)
  BY <1>1, ContextNext DEF Here
<1>3. LineMeaning(w, G, fr.file, fr.at, q)[a] = Included(w, G, l.patterns, Here(w, fr, q), a)
  BY DEF LineMeaning, Included, Here
<1>4. RestOf(w, G, fr, q, a) = LinesFrom(w, G, fr.file, fr.at, q, a)
  BY ParsedNone, IncludedNone DEF RestOf
<1>5. RestOf(w, G, t, q, a) =
        LinesFrom(w, G, fr.file, fr.at + 1, q, LineMeaning(w, G, fr.file, fr.at, q)[a])
  BY <1>2, <1>3, ParsedNone DEF RestOf
<1> QED
  BY <1>1, <1>4, <1>5, LinesHead

LEMMA RestAtEnd ==
  ASSUME NEW w \in Worlds, NEW G, NEW fr, Fits(w, fr),
         fr.matches = <<>>, fr.patterns = <<>>, fr.at > Len(w.content[fr.file]),
         NEW q, NEW a
  PROVE  RestOf(w, G, fr, q, a) = a
<1>1. PICK n : n = Len(w.content[fr.file])
  OBVIOUS
<1>2. PICK at : at = fr.at
  OBVIOUS
<1>3. n \in Nat /\ at \in 1 .. n + 1 /\ at > n
  BY <1>1, <1>2, FrameFields
<1>4. at = n + 1
  BY <1>3
<1>5. LinesFrom(w, G, fr.file, fr.at, q, a) = a
  BY <1>1, <1>2, <1>3, <1>4, LinesNone
<1> QED
  BY <1>5, ParsedNone, IncludedNone DEF RestOf

Entering(a, f) == [a EXCEPT !.files = Append(@, f)]

LEMMA RestAtStart ==
  ASSUME NEW w \in Worlds, NEW G, NEW f \in File, NEW m \in Label, NEW q \in Context,
         NEW a \in Account, Going(a), ~(Len(a.files) >= MaxFiles), w.disk.read[f] = "ok",
         NEW fr, fr = NewFrame(f, m), NEW b, b = Entering(a, f)
  PROVE  /\ Fits(w, fr) /\ Here(w, fr, q) = q
         /\ FileMeaning(w, G)[f][q][a] = RestOf(w, G, fr, q, b)
<1> DEFINE steps == [n \in 1..Len(w.content[f]) |-> LineMeaning(w, G, f, n, q)]
           rest == [i \in 1 .. Len(w.content[f]) + 1 - 1 |-> LineMeaning(w, G, f, 1 + i - 1, q)]
<1>1. Len(w.content[f]) \in Nat /\ <<>> \in Seq(File) /\ <<>> \in Seq(Pattern)
  BY LenProperties, EmptySeq DEF Worlds
<1>2. Fits(w, fr)
  BY <1>1 DEF Fits, Frame, NewFrame
<1>3. Here(w, fr, q) = q
  BY DEF Here, NewFrame, ContextAt
<1>4. FileMeaning(w, G)[f][q][a] = InTurn(steps, b)
  BY DEF FileMeaning, Entering
<1>5. RestOf(w, G, fr, q, b) = InTurn(rest, b)
  BY ParsedNone, IncludedNone DEF RestOf, LinesFrom, NewFrame
<1>6. steps = rest
  <2>1. PICK n \in Nat : n = Len(w.content[f])
    BY <1>1
  <2>2. n + 1 - 1 = n /\ \A i \in 1..n : 1 + i - 1 = i
    OBVIOUS
  <2> QED
    BY <2>1, <2>2
<1> QED
  BY <1>2, <1>3, <1>4, <1>5, <1>6
-----------------------------------------------------------------------------
(* v[k] is what becomes of the account with which the k-th active call of     *)
(* parseFile returns: the k-1 calls below it do the rest.  q[k] is the       *)
(* context in which that call was made.                                     *)
Deeper(w, k) == Meaning(w)[MaxDepth + 1 - k]

Chain(w, s, v, q) ==
  /\ s \in Seq(Frame) /\ Len(s) <= MaxDepth + 1
  /\ \A k \in 0..Len(s) : v[k] \in [Account -> Account] /\ Strict(v[k])
  /\ \A b \in Account : v[0][b] = b
  /\ \A k \in 1..Len(s) :
       /\ Fits(w, s[k]) /\ q[k] \in Context
       /\ Here(w, s[k], q[k]).label = s[k].match
       /\ \A b \in Account : v[k][b] = v[k - 1][RestOf(w, Deeper(w, k), s[k], q[k], b)]

Continues(w, s, K) == \E v, q : Chain(w, s, v, q) /\ v[Len(s)] = K

LEMMA DeeperTyped ==
  ASSUME NEW w \in Worlds, NEW k \in Nat, k <= MaxDepth + 1
  PROVE  /\ Deeper(w, k) \in StrictMeanings
         /\ k <= MaxDepth => Deeper(w, k) = FileMeaning(w, Deeper(w, k + 1))
         /\ k = MaxDepth + 1 => Deeper(w, k) = TooDeep
<1>1. /\ MaxDepth + 1 - k \in Nat
      /\ k <= MaxDepth => /\ MaxDepth + 1 - (k + 1) \in Nat
                          /\ MaxDepth + 1 - k = (MaxDepth + 1 - (k + 1)) + 1
      /\ k = MaxDepth + 1 => MaxDepth + 1 - k = 0
  BY LimitsAssumption
<1> QED
  BY <1>1, MeaningSolves DEF Deeper

LEMMA ContinuesEmpty ==
  ASSUME NEW w
  PROVE  /\ \E K : Continues(w, <<>>, K)
         /\ \A K : Continues(w, <<>>, K) => \A b \in Account : K[b] = b
<1> DEFINE v == [k \in {0} |-> [b \in Account |-> b]]
<1>1. Len(<<>>) = 0 /\ <<>> \in Seq(Frame)
  BY EmptySeq
<1>2. /\ v[0] \in [Account -> Account] /\ \A b \in Account : v[0][b] = b
      /\ 0 <= MaxDepth + 1 /\ 0..0 = {0} /\ 1..0 = {}
  BY LimitsAssumption
<1> HIDE DEF v
<1>3. Strict(v[0])
  BY <1>2 DEF Strict
<1>4. Chain(w, <<>>, v, v)
  BY <1>1, <1>2, <1>3 DEF Chain
<1>5. ASSUME NEW K, Continues(w, <<>>, K) PROVE \A b \in Account : K[b] = b
  BY <1>1, <1>5 DEF Continues, Chain
<1> QED
  BY <1>4, <1>5 DEF Continues

LEMMA ContinuesTyped ==
  ASSUME NEW w, NEW s, NEW K, Continues(w, s, K)
  PROVE  K \in [Account -> Account] /\ Strict(K)
<1>1. PICK v, q : Chain(w, s, v, q) /\ v[Len(s)] = K
  BY DEF Continues
<1>2. Len(s) \in 0..Len(s)
  BY <1>1, LenProperties DEF Chain
<1> QED
  BY <1>1, <1>2 DEF Chain

(* What the call with frame fr does is K, when what the calls below it do is  *)
(* L.                                                                       *)
OneCall(w, t, L, k, fr, q, K) ==
  /\ Continues(w, t, L)
  /\ Fits(w, fr) /\ q \in Context /\ Here(w, fr, q).label = fr.match
  /\ \A b \in Account : K[b] = L[RestOf(w, Deeper(w, k), fr, q, b)]

LEMMA ContinuesBelow ==
  ASSUME NEW w, NEW s, s # <<>>, NEW K, Continues(w, s, K),
         NEW t \in Seq(Frame), Len(t) = Len(s) - 1, \A i \in 1..Len(t) : t[i] = s[i]
  PROVE  \E L, q : OneCall(w, t, L, Len(s), s[Len(s)], q, K)
<1>1. PICK v, q : Chain(w, s, v, q) /\ v[Len(s)] = K
  BY DEF Continues
<1>2. PICK n \in Nat \ {0} : n = Len(s)
  BY <1>1, EmptySeq DEF Chain
<1>3. /\ Len(t) = n - 1 /\ n - 1 \in Nat /\ n \in 1..n
      /\ \A k \in 0 .. n - 1 : k \in 0..n
      /\ \A k \in 1 .. n - 1 : k \in 1..n
      /\ n <= MaxDepth + 1 => n - 1 <= MaxDepth + 1
  BY <1>2, LimitsAssumption
<1>4. Chain(w, t, v, q)
  <2>1. \A k \in 0..n : v[k] \in [Account -> Account] /\ Strict(v[k])
    BY <1>1, <1>2 DEF Chain
  <2>2. \A k \in 1..n :
          /\ Fits(w, s[k]) /\ q[k] \in Context /\ Here(w, s[k], q[k]).label = s[k].match
          /\ \A b \in Account : v[k][b] = v[k - 1][RestOf(w, Deeper(w, k), s[k], q[k], b)]
    BY <1>1, <1>2 DEF Chain
  <2>3. \A k \in 1 .. n - 1 : t[k] = s[k]
    BY <1>3
  <2>4. Len(t) <= MaxDepth + 1 /\ \A b \in Account : v[0][b] = b
    BY <1>1, <1>2, <1>3 DEF Chain
  <2>5. \A k \in 0..Len(t) : v[k] \in [Account -> Account] /\ Strict(v[k])
    BY <1>3, <2>1
  <2>6. \A k \in 1..Len(t) :
          /\ Fits(w, t[k]) /\ q[k] \in Context /\ Here(w, t[k], q[k]).label = t[k].match
          /\ \A b \in Account : v[k][b] = v[k - 1][RestOf(w, Deeper(w, k), t[k], q[k], b)]
    BY <1>3, <2>2, <2>3
  <2> QED
    BY <2>4, <2>5, <2>6 DEF Chain
<1>5. Continues(w, t, v[n - 1])
  BY <1>3, <1>4 DEF Continues
<1>6. /\ q[n] \in Context /\ Fits(w, s[n]) /\ Here(w, s[n], q[n]).label = s[n].match
      /\ \A b \in Account : v[n][b] = v[n - 1][RestOf(w, Deeper(w, n), s[n], q[n], b)]
  <2>1. \A k \in 1..n :
          /\ Fits(w, s[k]) /\ q[k] \in Context /\ Here(w, s[k], q[k]).label = s[k].match
          /\ \A b \in Account : v[k][b] = v[k - 1][RestOf(w, Deeper(w, k), s[k], q[k], b)]
    BY <1>1, <1>2 DEF Chain
  <2> QED
    BY <1>3, <2>1
<1>7. OneCall(w, t, v[n - 1], n, s[n], q[n], K)
  BY <1>1, <1>2, <1>5, <1>6 DEF OneCall
<1> QED
  BY <1>2, <1>7

LEMMA ContinuesAbove ==
  ASSUME NEW w \in Worlds, NEW s, NEW L, Continues(w, s, L), Len(s) <= MaxDepth,
         NEW t \in Seq(Frame), Len(t) = Len(s) + 1, \A i \in 1..Len(s) : t[i] = s[i],
         Fits(w, t[Len(t)]), NEW q \in Context, Here(w, t[Len(t)], q).label = t[Len(t)].match
  PROVE  \E K : /\ Continues(w, t, K)
                /\ \A b \in Account :
                     K[b] = L[RestOf(w, Deeper(w, Len(t)), t[Len(t)], q, b)]
<1>1. PICK v, r : Chain(w, s, v, r) /\ v[Len(s)] = L
  BY DEF Continues
<1>2. PICK n \in Nat : n = Len(s)
  BY <1>1, LenProperties DEF Chain
<1>3. PICK m : m = n + 1
  OBVIOUS
<1>4. PICK G : G = Deeper(w, m)
  OBVIOUS
<1>5. /\ m \in Nat \ {0} /\ m - 1 = n /\ m <= MaxDepth + 1 /\ Len(t) = m
      /\ \A k \in 0..m : k # m => k \in 0..n
      /\ \A k \in 1..m : k # m => k \in 1..n /\ k - 1 \in 0..n /\ k - 1 # m /\ k - 1 \in 0..m
      /\ n \in 0..m /\ n # m /\ m \in 0..m /\ 0 \in 0..m /\ 0 # m
  BY <1>2, <1>3, LimitsAssumption
<1>6. G \in StrictMeanings
  BY <1>4, <1>5, DeeperTyped
<1>7. L \in [Account -> Account] /\ Strict(L)
  BY ContinuesTyped
<1> DEFINE K == [b \in Account |-> L[RestOf(w, G, t[m], q, b)]]
           u == [k \in 0..m |-> IF k = m THEN K ELSE v[k]]
           p == [k \in 1..m |-> IF k = m THEN q ELSE r[k]]
<1>8. Fits(w, t[m])
  BY <1>5
<1>9. K \in [Account -> Account] /\ Strict(K)
  <2>1. \A b \in Account : RestOf(w, G, t[m], q, b) \in Account
    BY <1>6, <1>8, RestTyped
  <2>2. \A b \in Account : ~Going(b) => RestOf(w, G, t[m], q, b) = b
    BY <1>6, <1>8, RestStrict
  <2> QED
    BY <1>7, <2>1, <2>2 DEF Strict
<1>10. \A b \in Account : K[b] = L[RestOf(w, G, t[m], q, b)]
  OBVIOUS
<1> HIDE DEF K
<1>11. /\ u[m] = K /\ \A k \in 0..m : k # m => u[k] = v[k]
       /\ p[m] = q /\ \A k \in 1..m : k # m => p[k] = r[k]
  BY <1>5
<1> HIDE DEF u, p
<1>12. \A k \in 0..m : u[k] \in [Account -> Account] /\ Strict(u[k])
  BY <1>1, <1>2, <1>5, <1>9, <1>11 DEF Chain
<1>13. \A b \in Account : u[0][b] = b
  BY <1>1, <1>5, <1>11 DEF Chain
<1>14. ASSUME NEW k \in 1..m
       PROVE  /\ Fits(w, t[k]) /\ p[k] \in Context /\ Here(w, t[k], p[k]).label = t[k].match
              /\ \A b \in Account : u[k][b] = u[k - 1][RestOf(w, Deeper(w, k), t[k], p[k], b)]
  <2>1. CASE k = m
    <3>1. u[k - 1] = L
      BY <1>1, <1>2, <1>5, <1>11, <2>1
    <3> QED
      BY <1>4, <1>5, <1>8, <1>10, <1>11, <2>1, <3>1
  <2>2. CASE k # m
    <3>1. /\ k \in 1..n /\ t[k] = s[k] /\ p[k] = r[k]
          /\ u[k] = v[k] /\ u[k - 1] = v[k - 1]
      BY <1>2, <1>5, <1>11, <2>2
    <3> QED
      BY <1>1, <1>2, <3>1 DEF Chain
  <2> QED
    BY <2>1, <2>2
<1>15. Chain(w, t, u, p)
  BY <1>5, <1>12, <1>13, <1>14 DEF Chain
<1>16. Continues(w, t, K)
  BY <1>5, <1>11, <1>15 DEF Continues
<1> QED
  BY <1>4, <1>5, <1>10, <1>16
-----------------------------------------------------------------------------
(* What the machine has done so far, cfg, and what an account has are the    *)
(* same.                                                                    *)
Tells(a, c) == a \in Account /\ SectionOf(a) = CollectedSection(c)

LEMMA NothingSaid ==
  ASSUME NEW a, a.said = <<>>
  PROVE  SectionOf(a) = [status |-> a.status,
                         data |-> [files |-> a.files, ignored |-> a.ignored,
                                   directives |-> <<>>]]
<1> DEFINE ds == [i \in 1..Len(a.said) |-> SaysOf(a.said[i])]
<1>1. Len(a.said) = 0 /\ 1..0 = {}
  BY EmptySeq
<1>2. ds \in Seq({}) /\ Len(ds) = 0
  BY <1>1, IsASeq
<1>3. ds = <<>>
  BY <1>2, EmptySeq
<1> QED
  BY <1>3 DEF SectionOf

LEMMA StoppedSection ==
  ASSUME NEW err
  PROVE  SectionOf(Stopped(err)) = Unavailable(classify(err))
<1>1. /\ Stopped(err).status = classify(err) /\ Stopped(err).said = <<>>
      /\ Stopped(err).files = <<>> /\ Stopped(err).ignored = 0
  BY DEF Stopped, Blank
<1> QED
  BY <1>1, NothingSaid DEF Unavailable, EmptyConfig

LEMMA BlankTells == Tells(Blank, EmptyConfig)
<1>1. Blank.said = <<>> /\ <<>> \in Seq(File) /\ <<>> \in Seq(Reading)
  BY EmptySeq DEF Blank
<1>2. Blank \in Account
  BY <1>1 DEF Blank, Account
<1> QED
  BY <1>1, <1>2, NothingSaid DEF Tells, Blank, EmptyConfig, CollectedSection

LEMMA TellsSame ==
  ASSUME NEW a, NEW c, Tells(a, c)
  PROVE  /\ a \in Account /\ Going(a)
         /\ a.files = c.files /\ a.ignored = c.ignored
         /\ c.directives = [i \in 1..Len(a.said) |-> SaysOf(a.said[i])]
         /\ Len(c.directives) = Len(a.said)
<1>1. /\ a.status = "collected"
      /\ [files |-> a.files, ignored |-> a.ignored,
          directives |-> [i \in 1..Len(a.said) |-> SaysOf(a.said[i])]] = c
  BY DEF Tells, SectionOf, CollectedSection
<1>2. c.directives = [i \in 1..Len(a.said) |-> SaysOf(a.said[i])]
  BY <1>1
<1>3. Len(a.said) \in Nat
  BY LenProperties DEF Tells, Account
<1> QED
  BY <1>1, <1>2, <1>3 DEF Tells, Going

LEMMA ConfigUpdated ==
  ASSUME NEW c \in Config
  PROVE  /\ \A x : [c EXCEPT !.files = x] =
                  [files |-> x, directives |-> c.directives, ignored |-> c.ignored]
         /\ \A x : [c EXCEPT !.ignored = x] =
                  [files |-> c.files, directives |-> c.directives, ignored |-> x]
         /\ \A x : [c EXCEPT !.directives = x] =
                  [files |-> c.files, directives |-> x, ignored |-> c.ignored]
  BY DEF Config

LEMMA TellsFile ==
  ASSUME NEW a, NEW c \in Config, Tells(a, c), NEW f \in File
  PROVE  Tells([a EXCEPT !.files = Append(@, f)], [c EXCEPT !.files = Append(@, f)])
<1> DEFINE b == [a EXCEPT !.files = Append(@, f)]
           d == [c EXCEPT !.files = Append(@, f)]
<1>1. /\ a \in Account /\ Going(a) /\ a.files = c.files /\ a.ignored = c.ignored
      /\ c.directives = [i \in 1..Len(a.said) |-> SaysOf(a.said[i])]
  BY TellsSame
<1>2. Append(a.files, f) \in Seq(File)
  BY <1>1, AppendProperties DEF Account
<1>3. /\ b \in Account /\ b.status = "collected" /\ b.files = Append(a.files, f)
      /\ b.said = a.said /\ b.ignored = a.ignored
  BY <1>1, <1>2 DEF Account, Going
<1>4. d = [files |-> Append(a.files, f), directives |-> c.directives, ignored |-> c.ignored]
  <2>1. a.files = c.files
    BY <1>1
  <2> QED
    BY <2>1, ConfigUpdated
<1> HIDE DEF b, d
<1>5. SectionOf(b) = CollectedSection(d)
  BY <1>1, <1>3, <1>4 DEF SectionOf, CollectedSection
<1> QED
  BY <1>3, <1>5 DEF Tells, b, d

LEMMA TellsIgnored ==
  ASSUME NEW a, NEW c \in Config, Tells(a, c)
  PROVE  Tells([a EXCEPT !.ignored = @ + 1], [c EXCEPT !.ignored = @ + 1])
<1> DEFINE b == [a EXCEPT !.ignored = @ + 1]
           d == [c EXCEPT !.ignored = @ + 1]
<1>1. /\ a \in Account /\ Going(a) /\ a.files = c.files /\ a.ignored = c.ignored
      /\ c.directives = [i \in 1..Len(a.said) |-> SaysOf(a.said[i])]
  BY TellsSame
<1>2. /\ b \in Account /\ b.status = "collected" /\ b.files = a.files
      /\ b.said = a.said /\ b.ignored = a.ignored + 1
  BY <1>1 DEF Account, Going
<1>3. d = [files |-> c.files, directives |-> c.directives, ignored |-> a.ignored + 1]
  <2>1. a.ignored = c.ignored
    BY <1>1
  <2> QED
    BY <2>1, ConfigUpdated
<1> HIDE DEF b, d
<1>4. SectionOf(b) = CollectedSection(d)
  BY <1>1, <1>2, <1>3 DEF SectionOf, CollectedSection
<1> QED
  BY <1>2, <1>4 DEF Tells, b, d

LEMMA TellsDirective ==
  ASSUME NEW a, NEW c \in Config, Tells(a, c), NEW r \in Reading, NEW d, d = SaysOf(r)
  PROVE  Tells([a EXCEPT !.said = Append(@, r)], [c EXCEPT !.directives = Append(@, d)])
<1> DEFINE b == [a EXCEPT !.said = Append(@, r)]
           e == [c EXCEPT !.directives = Append(@, d)]
<1>1. /\ a \in Account /\ Going(a) /\ a.files = c.files /\ a.ignored = c.ignored
      /\ c.directives = [i \in 1..Len(a.said) |-> SaysOf(a.said[i])]
      /\ Len(c.directives) = Len(a.said)
  BY TellsSame
<1>0. a.said \in Seq(Reading) /\ c.directives \in Seq(Directive)
  BY <1>1 DEF Account, Config
<1>2. PICK n : n = Len(a.said)
  OBVIOUS
<1>3. /\ n \in Nat /\ Append(a.said, r) \in Seq(Reading)
      /\ Len(Append(a.said, r)) = n + 1 /\ Append(a.said, r)[n + 1] = r
      /\ \A i \in 1..n : Append(a.said, r)[i] = a.said[i]
  BY <1>0, <1>2, AppendProperties, LenProperties
<1>4. /\ b \in Account /\ b.status = "collected" /\ b.files = a.files
      /\ b.said = Append(a.said, r) /\ b.ignored = a.ignored
  BY <1>1, <1>3 DEF Account, Going
<1>5. e = [files |-> c.files, directives |-> Append(c.directives, d), ignored |-> c.ignored]
  BY ConfigUpdated
<1>6. Append(c.directives, d) = [i \in 1 .. n + 1 |-> SaysOf(Append(a.said, r)[i])]
  <2>1. PICK ds : ds = c.directives
    OBVIOUS
  <2>2. Append(ds, d) = [i \in 1 .. n + 1 |-> IF i = n + 1 THEN d ELSE ds[i]]
    BY <1>0, <1>1, <1>2, <1>3, <2>1
  <2>3. \A i \in 1 .. n + 1 : i = n + 1 \/ i \in 1..n
    BY <1>3
  <2>4. \A i \in 1..n : ds[i] = SaysOf(a.said[i])
    BY <1>1, <1>2, <2>1
  <2>5. \A i \in 1 .. n + 1 :
          (IF i = n + 1 THEN d ELSE ds[i]) = SaysOf(Append(a.said, r)[i])
    BY <1>3, <2>3, <2>4
  <2> QED
    BY <2>1, <2>2, <2>5
<1> HIDE DEF b, e
<1>7. SectionOf(b) = CollectedSection(e)
  BY <1>1, <1>3, <1>4, <1>5, <1>6 DEF SectionOf, CollectedSection
<1> QED
  BY <1>4, <1>7 DEF Tells, b, e
-----------------------------------------------------------------------------
(* The machine is on its way to the section `due`: its stack is at a point    *)
(* of the recursion from which the rest, done on what cfg holds, gives it.  *)
OnTrack(w, s, c, due) ==
  \E K, a : Continues(w, s, K) /\ Tells(a, c) /\ due = SectionOf(K[a])

Under(s) == SubSeq(s, 1, Len(s) - 1)

(* The same, seen from the call on top: what its frame fr has left is done,  *)
(* and then what the calls under it have left.                              *)
Doing(w, s, L, q, a, fr, c, due) ==
  /\ s \in Seq(Frame) /\ Len(s) \in Nat \ {0} /\ Len(s) <= MaxDepth + 1
  /\ Continues(w, Under(s), L)
  /\ Fits(w, fr) /\ q \in Context /\ Here(w, fr, q).label = fr.match
  /\ Tells(a, c)
  /\ due = SectionOf(L[RestOf(w, Deeper(w, Len(s)), fr, q, a)])

LEMMA UnderTyped ==
  ASSUME NEW s \in Seq(Frame), Len(s) \in Nat \ {0}
  PROVE  /\ Under(s) \in Seq(Frame) /\ Len(Under(s)) = Len(s) - 1
         /\ \A i \in 1..Len(Under(s)) : Under(s)[i] = s[i]
<1>1. PICK n \in Nat \ {0} : n = Len(s)
  OBVIOUS
<1>2. n - 1 \in Nat /\ \A i \in 1 .. n - 1 : i \in 1..n /\ 1 + i - 1 = i
  BY <1>1
<1>3. \A i \in 1 .. n - 1 : s[i] \in Frame
  BY <1>1, <1>2, ElementOfSeq
<1>4. /\ SubSeq(s, 1, n - 1) \in Seq(Frame) /\ Len(SubSeq(s, 1, n - 1)) = n - 1
      /\ \A i \in 1 .. n - 1 : SubSeq(s, 1, n - 1)[i] = s[i]
  BY <1>2, <1>3, SubSeqProperties
<1> QED
  BY <1>1, <1>4 DEF Under

LEMMA TopOpens ==
  ASSUME NEW w, NEW s \in Seq(Frame), s # <<>>, NEW c, NEW due, OnTrack(w, s, c, due)
  PROVE  \E L, q, a : Doing(w, s, L, q, a, s[Len(s)], c, due)
<1>1. PICK K, a : Continues(w, s, K) /\ Tells(a, c) /\ due = SectionOf(K[a])
  BY DEF OnTrack
<1>2. Len(s) \in Nat \ {0}
  BY EmptySeq, LenProperties
<1>3. Len(s) <= MaxDepth + 1
  BY <1>1 DEF Continues, Chain
<1>4. PICK t : t = Under(s)
  OBVIOUS
<1>5. t \in Seq(Frame) /\ Len(t) = Len(s) - 1 /\ \A i \in 1..Len(t) : t[i] = s[i]
  BY <1>2, <1>4, UnderTyped
<1>6. PICK L, q : OneCall(w, t, L, Len(s), s[Len(s)], q, K)
  BY <1>1, <1>5, ContinuesBelow
<1>7. a \in Account
  BY <1>1 DEF Tells
<1>8. Doing(w, s, L, q, a, s[Len(s)], c, due)
  BY <1>1, <1>2, <1>3, <1>4, <1>6, <1>7 DEF Doing, OneCall
<1> QED
  BY <1>8

(* With another frame on top, K does what is left.                          *)
LEMMA TopContinues ==
  ASSUME NEW w \in Worlds, NEW s, NEW L, NEW q, NEW a, NEW fr, NEW c, NEW due,
         Doing(w, s, L, q, a, fr, c, due),
         NEW t \in Seq(Frame), Len(t) = Len(s), t[Len(s)] = fr,
         \A i \in 1 .. Len(s) - 1 : t[i] = s[i]
  PROVE  \E K : /\ Continues(w, t, K)
                /\ \A b \in Account : K[b] = L[RestOf(w, Deeper(w, Len(s)), fr, q, b)]
<1>1. PICK n \in Nat \ {0} : n = Len(s)
  BY DEF Doing
<1>2. n - 1 \in Nat /\ n - 1 + 1 = n /\ (n <= MaxDepth + 1 => n - 1 <= MaxDepth)
  BY LimitsAssumption
<1>3. PICK u : u = Under(s)
  OBVIOUS
<1>4. /\ u \in Seq(Frame) /\ Len(u) = n - 1 /\ Len(u) <= MaxDepth
      /\ \A i \in 1..Len(u) : u[i] = s[i]
  BY <1>1, <1>2, <1>3, UnderTyped DEF Doing
<1>5. /\ Continues(w, u, L) /\ Fits(w, fr) /\ q \in Context
      /\ Here(w, fr, q).label = fr.match
  BY <1>3 DEF Doing
<1>6. Len(t) = Len(u) + 1 /\ (\A i \in 1..Len(u) : t[i] = u[i]) /\ t[Len(t)] = fr
  BY <1>1, <1>2, <1>4
<1> QED
  BY <1>1, <1>4, <1>5, <1>6, ContinuesAbove

LEMMA TopCloses ==
  ASSUME NEW w \in Worlds, NEW s, NEW L, NEW q, NEW a, NEW fr, NEW c, NEW due,
         Doing(w, s, L, q, a, fr, c, due),
         NEW t \in Seq(Frame), Len(t) = Len(s), t[Len(s)] = fr,
         \A i \in 1 .. Len(s) - 1 : t[i] = s[i]
  PROVE  OnTrack(w, t, c, due)
<1>1. PICK K : /\ Continues(w, t, K)
               /\ \A b \in Account : K[b] = L[RestOf(w, Deeper(w, Len(s)), fr, q, b)]
  BY TopContinues
<1>2. a \in Account /\ Tells(a, c)
  BY DEF Doing, Tells
<1>3. due = SectionOf(K[a])
  BY <1>1, <1>2 DEF Doing
<1> QED
  BY <1>1, <1>2, <1>3 DEF OnTrack

(* Where the frame on top only moves on, what it has left must come to the   *)
(* same.                                                                    *)
LEMMA FrameMoves ==
  ASSUME NEW w, NEW s, NEW L, NEW q, NEW a, NEW fr, NEW c, NEW due,
         Doing(w, s, L, q, a, fr, c, due),
         NEW t, Fits(w, t), Here(w, t, q).label = t.match, NEW b, NEW d, Tells(b, d),
         RestOf(w, Deeper(w, Len(s)), fr, q, a) = RestOf(w, Deeper(w, Len(s)), t, q, b)
  PROVE  Doing(w, s, L, q, b, t, d, due)
  BY DEF Doing

(* An error ends everything at once.                                        *)
LEMMA FrameStops ==
  ASSUME NEW w \in Worlds, NEW s, NEW L, NEW q, NEW a, NEW fr, NEW c, NEW due,
         Doing(w, s, L, q, a, fr, c, due), NEW t, Fits(w, t), NEW err,
         RestOf(w, Deeper(w, Len(s)), fr, q, a) =
           RestOf(w, Deeper(w, Len(s)), t, q, Stopped(err))
  PROVE  due = Unavailable(classify(err))
<1>1. Stopped(err) \in Account /\ ~Going(Stopped(err))
  BY StoppedTyped
<1>2. Deeper(w, Len(s)) \in StrictMeanings
  BY DeeperTyped DEF Doing
<1>3. q \in Context /\ Continues(w, Under(s), L)
  BY DEF Doing
<1>4. RestOf(w, Deeper(w, Len(s)), t, q, Stopped(err)) = Stopped(err)
  BY <1>1, <1>2, <1>3, RestStrict
<1>5. L[Stopped(err)] = Stopped(err)
  BY <1>1, <1>3, ContinuesTyped DEF Strict
<1> QED
  BY <1>4, <1>5, StoppedSection DEF Doing
-----------------------------------------------------------------------------
Now == World(content, disk, disk.listing)

LEMMA NowTyped ==
  ASSUME TypeOK
  PROVE  /\ Now \in Worlds
         /\ Now.content = content /\ Now.disk = disk /\ Now.list = disk.listing
<1>1. content \in [File -> Seq(Line)] /\ disk \in Disk
  BY ContentsAssumption, DisksAssumption DEF TypeOK
<1>2. disk.listing \in [Pattern -> Seq(File)]
  BY <1>1 DEF Disk
<1> QED
  BY <1>1, <1>2 DEF Now, World, Worlds

(* A step inside Load that keeps the machine on its way to `due`, or the      *)
(* error that was due.                                                      *)
Carried(due) ==
  \/ \E err : Fail(err) /\ due = Unavailable(classify(err))
  \/ /\ UNCHANGED <<env, loc, section>> /\ pc' = "load" /\ stack' # <<>>
     /\ OnTrack(Now, stack', cfg', due)

(* Where a file is due, parseFile is on its way to it.                      *)
LEMMA CallCarried ==
  ASSUME TypeOK, pc = "load", NEW s \in Seq(Frame), Len(s) = Len(stack),
         NEW K, Continues(Now, s, K),
         NEW f \in File, NEW q \in Context, NEW m \in Label, q.label = m,
         NEW a, Tells(a, cfg),
         NEW due, due = SectionOf(K[Deeper(Now, Len(s))[f][q][a]]),
         parseFile(f, m, s)
  PROVE  Carried(due)
<1> DEFINE G == Deeper(Now, Len(s))
<1>1. /\ Now \in Worlds /\ Now.content = content /\ Now.disk = disk
  BY NowTyped
<1>2. PICK n \in Nat : n = Len(s)
  BY LenProperties
<1>3. n <= MaxDepth + 1
  BY <1>2 DEF Continues, Chain
<1>4. a \in Account /\ Going(a) /\ a.files = cfg.files /\ cfg \in Config
  BY TellsSame DEF TypeOK
<1>5. \A err : K[Stopped(err)] = Stopped(err)
  BY StoppedTyped, ContinuesTyped DEF Strict
<1>6. n = MaxDepth + 1 \/ n <= MaxDepth
  BY <1>3, LimitsAssumption
<1>7. DepthExceeded <=> n = MaxDepth + 1
  BY <1>2, <1>3, LimitsAssumption DEF DepthExceeded
<1>8. ASSUME NEW err, Fail(err), G[f][q][a] = Stopped(err) PROVE Carried(due)
  BY <1>5, <1>8, StoppedSection DEF Carried
<1>9. CASE n = MaxDepth + 1
  <2>1. G = TooDeep
    BY <1>1, <1>2, <1>9, DeeperTyped
  <2>2. G[f][q][a] = Stopped("limit")
    BY <1>4, <2>1 DEF TooDeep
  <2>3. Fail("limit")
    BY <1>7, <1>9 DEF parseFile
  <2> QED
    BY <1>8, <2>2, <2>3
<1>10. CASE n <= MaxDepth
  <2>1. G = FileMeaning(Now, Deeper(Now, n + 1))
    BY <1>1, <1>2, <1>3, <1>10, DeeperTyped
  <2>2. ~DepthExceeded
    BY <1>7, <1>10, LimitsAssumption
  <2>3. CASE FilesExhausted
    <3>1. Fail("limit")
      BY <2>3 DEF parseFile
    <3>2. G[f][q][a] = Stopped("limit")
      BY <1>4, <2>1, <2>3 DEF FileMeaning, FilesExhausted
    <3> QED
      BY <1>8, <3>1, <3>2
  <2>4. CASE ~FilesExhausted /\ disk.read[f] # "ok"
    <3>1. Fail(disk.read[f])
      BY <2>2, <2>4 DEF parseFile
    <3>2. G[f][q][a] = Stopped(disk.read[f])
      BY <1>1, <1>4, <2>1, <2>4 DEF FileMeaning, FilesExhausted
    <3> QED
      BY <1>8, <3>1, <3>2
  <2>5. CASE ~FilesExhausted /\ disk.read[f] = "ok"
    <3>1. PICK fr : fr = NewFrame(f, m)
      OBVIOUS
    <3>2. PICK t : t = Append(s, fr)
      OBVIOUS
    <3>3. PICK b : b = Entering(a, f)
      OBVIOUS
    <3>4. /\ stack' = t /\ cfg' = [cfg EXCEPT !.files = Append(@, f)]
          /\ UNCHANGED <<env, loc, pc, section>>
      BY <2>2, <2>5, <3>1, <3>2 DEF parseFile
    <3>5. /\ Fits(Now, fr) /\ Here(Now, fr, q) = q /\ fr.match = m
          /\ G[f][q][a] = RestOf(Now, Deeper(Now, n + 1), fr, q, b)
      <4>1. ~(Len(a.files) >= MaxFiles) /\ Now.disk.read[f] = "ok"
        BY <1>1, <1>4, <2>5 DEF FilesExhausted
      <4>2. fr.match = m
        BY <3>1 DEF NewFrame
      <4>3. Now \in Worlds /\ a \in Account /\ Going(a)
        BY <1>1, <1>4
      <4>4. PICK H : H = Deeper(Now, n + 1)
        OBVIOUS
      <4>5. /\ Fits(Now, fr) /\ Here(Now, fr, q) = q
            /\ FileMeaning(Now, H)[f][q][a] = RestOf(Now, H, fr, q, b)
        BY <3>1, <3>3, <4>1, <4>3, RestAtStart
      <4> QED
        BY <2>1, <4>2, <4>4, <4>5
    <3>6. /\ t \in Seq(Frame) /\ Len(t) = n + 1 /\ t[n + 1] = fr
          /\ \A i \in 1..n : t[i] = s[i]
      BY <1>2, <3>2, <3>5, AppendProperties DEF Fits
    <3>7. PICK M : /\ Continues(Now, t, M)
                   /\ \A d \in Account :
                        M[d] = K[RestOf(Now, Deeper(Now, n + 1), fr, q, d)]
      BY <1>1, <1>2, <1>10, <3>5, <3>6, ContinuesAbove
    <3>8. Tells(b, cfg')
      BY <1>4, <3>3, <3>4, TellsFile DEF Entering
    <3>9. due = SectionOf(M[b])
      BY <3>5, <3>7, <3>8, <1>2 DEF Tells
    <3>10. t # <<>>
      BY <1>2, <3>6, EmptySeq
    <3> QED
      BY <3>4, <3>7, <3>8, <3>9, <3>10 DEF Carried, OnTrack
  <2> QED
    BY <2>3, <2>4, <2>5
<1> QED
  BY <1>6, <1>9, <1>10
Matched(fr, m) == [fr EXCEPT !.at = @ + 1, !.match = m]

LEMMA FrameMatched ==
  ASSUME NEW fr \in Frame, NEW m \in Label, NEW u, u = Matched(fr, m)
  PROVE  /\ u \in Frame /\ u.file = fr.file /\ u.at = fr.at + 1 /\ u.match = m
         /\ u.matches = fr.matches /\ u.patterns = fr.patterns
<1>1. fr.at + 1 \in Nat \ {0}
  BY DEF Frame
<1>2. u = [file |-> fr.file, at |-> fr.at + 1, match |-> m,
           patterns |-> fr.patterns, matches |-> fr.matches]
  BY DEF Matched, Frame
<1> QED
  BY <1>1, <1>2 DEF Frame

(* At a line of the file on top, with a frame that has the line behind it.   *)
LEMMA LineAhead ==
  ASSUME TypeOK, NEW kind, AtLine(kind), NEW t \in Frame,
         t.file = Top.file, t.at = Top.at + 1
  PROVE  /\ Fits(Now, Top) /\ Fits(Now, t)
         /\ Top.matches = <<>> /\ Top.patterns = <<>>
         /\ Top.at <= Len(Now.content[Top.file])
         /\ Now.content[Top.file][Top.at] = Current
         /\ Current \in Line /\ Current.kind = kind
<1>1. /\ Current \in Line /\ Current.kind = kind /\ Top \in Frame /\ Top.at <= Len(Lines)
  BY AtLineTyped
<1>2. Now.content = content
  BY NowTyped
<1>3. Top.at \in Nat /\ Len(Lines) \in Nat
  BY <1>1, TopTyped DEF Frame, AtLine
<1>4. Top.at <= Len(Lines) + 1 /\ Top.at + 1 <= Len(Lines) + 1
  BY <1>1, <1>3
<1> QED
  BY <1>1, <1>2, <1>4 DEF Fits, Lines, Current, AtLine

(* A line that is dealt with on the spot.                                   *)
LEMMA LineCarried ==
  ASSUME TypeOK, NEW kind, AtLine(kind), NEW t \in Frame,
         t.file = Top.file, t.at = Top.at + 1, t.matches = <<>>, t.patterns = <<>>,
         NEW L, NEW q, NEW a, NEW due, Doing(Now, stack, L, q, a, Top, cfg, due),
         NEW G, G = Deeper(Now, Len(stack)),
         NEW b, b = LineMeaning(Now, G, Top.file, Top.at, q)[a]
  PROVE  /\ /\ stack' = Replaced(t) /\ UNCHANGED <<env, loc, pc, section>>
            /\ Here(Now, t, q).label = t.match /\ Tells(b, cfg')
            => Carried(due)
         /\ \A err : Fail(err) /\ b = Stopped(err) => Carried(due)
<1>1. /\ Fits(Now, Top) /\ Fits(Now, t) /\ Now \in Worlds
      /\ Top.matches = <<>> /\ Top.patterns = <<>>
      /\ Top.at <= Len(Now.content[Top.file])
  BY LineAhead, NowTyped
<1>2. RestOf(Now, G, Top, q, a) = RestOf(Now, G, t, q, b)
  BY <1>1, RestAfterLine
<1>3. ASSUME stack' = Replaced(t), UNCHANGED <<env, loc, pc, section>>,
             Here(Now, t, q).label = t.match, Tells(b, cfg')
      PROVE  Carried(due)
  <2>1. Doing(Now, stack, L, q, b, t, cfg', due)
    BY <1>1, <1>2, <1>3, FrameMoves
  <2>2. stack \in Seq(Frame) /\ stack # <<>> /\ pc = "load"
    BY DEF TypeOK, AtLine
  <2>3. PICK s : s = stack'
    OBVIOUS
  <2>4. /\ s \in Seq(Frame) /\ s # <<>> /\ Len(s) = Len(stack) /\ s[Len(stack)] = t
        /\ \A i \in 1 .. Len(stack) - 1 : s[i] = stack[i]
    BY <1>3, <2>2, <2>3, ReplacedTop
  <2>5. OnTrack(Now, s, cfg', due)
    BY <1>1, <2>1, <2>4, TopCloses
  <2> QED
    BY <1>3, <2>2, <2>3, <2>4, <2>5 DEF Carried
<1>4. ASSUME NEW err, Fail(err), b = Stopped(err) PROVE Carried(due)
  <2>1. due = Unavailable(classify(err))
    BY <1>1, <1>2, <1>4, FrameStops
  <2> QED
    BY <1>4, <2>1 DEF Carried
<1> QED
  BY <1>3, <1>4

LEMMA LinesCarried ==
  ASSUME TypeOK, NEW L, NEW q, NEW a, NEW due, Doing(Now, stack, L, q, a, Top, cfg, due),
         BlankLine \/ BadLine \/ UnknownLine \/ MatchLine \/ TooManyDirectives \/ DirectiveLine
  PROVE  Carried(due)
<1> DEFINE l == Current
           next == [Top EXCEPT !.at = @ + 1]
<1>1. PICK kind : AtLine(kind)
  BY DEF BlankLine, BadLine, UnknownLine, MatchLine, TooManyDirectives, DirectiveLine
<1>2. Top \in Frame /\ Top.matches = <<>> /\ Top.patterns = <<>>
  BY <1>1, AtLineTyped DEF AtLine
<1>3. PICK t : t = next
  OBVIOUS
<1>4. /\ t \in Frame /\ t.file = Top.file /\ t.at = Top.at + 1 /\ t.match = Top.match
      /\ t.matches = <<>> /\ t.patterns = <<>>
  BY <1>2, <1>3 DEF Frame
<1>5. /\ Now.content[Top.file][Top.at] = l /\ l \in Line /\ Top.at \in Nat \ {0}
      /\ Top.file \in File /\ Top.match \in Label
  BY <1>1, <1>2, <1>4, LineAhead DEF Frame
<1>6. /\ Tells(a, cfg) /\ a \in Account /\ Going(a) /\ cfg \in Config
      /\ Len(cfg.directives) = Len(a.said)
      /\ q \in Context /\ Here(Now, Top, q).label = Top.match
  BY TellsSame DEF Doing, TypeOK
<1>7. /\ l.kind # "match" => Here(Now, t, q) = Here(Now, Top, q)
      /\ l.kind = "match" => Here(Now, t, q).label = l.criteria
  <2>1. PICK lines : lines = Now.content[Top.file]
    OBVIOUS
  <2>2. PICK n : n = Top.at
    OBVIOUS
  <2>3. /\ lines[n].kind # "match" => ContextAt(lines, n + 1, q) = ContextAt(lines, n, q)
        /\ lines[n].kind = "match" => ContextAt(lines, n + 1, q).label = lines[n].criteria
    BY <1>5, <2>2, ContextNext
  <2> QED
    BY <1>4, <1>5, <2>1, <2>2, <2>3 DEF Here
<1>8. PICK G : G = Deeper(Now, Len(stack))
  OBVIOUS
<1>9. PICK b : b = LineMeaning(Now, G, Top.file, Top.at, q)[a]
  OBVIOUS
<1>10. CASE BlankLine
  <2>1. AtLine("blank") /\ stack' = Replaced(t) /\ UNCHANGED <<env, loc, pc, cfg, section>>
    BY <1>3, <1>10 DEF BlankLine, AdvanceOnly
  <2>2. l.kind = "blank"
    BY <2>1 DEF AtLine
  <2>3. b = a
    BY <1>5, <1>6, <1>9, <2>2 DEF LineMeaning
  <2>4. Here(Now, t, q).label = t.match /\ Tells(b, cfg')
    BY <1>4, <1>6, <1>7, <2>1, <2>2, <2>3
  <2> QED
    BY <1>4, <1>8, <1>9, <2>1, <2>4, LineCarried
<1>11. CASE BadLine
  <2>1. AtLine("bad") /\ Fail("syntax")
    BY <1>11 DEF BadLine
  <2>2. l.kind = "bad"
    BY <2>1 DEF AtLine
  <2>3. b = Stopped("syntax")
    BY <1>5, <1>6, <1>9, <2>2 DEF LineMeaning
  <2> QED
    BY <1>4, <1>8, <1>9, <2>1, <2>3, LineCarried
<1>12. CASE UnknownLine
  <2>1. /\ AtLine("unknown") /\ stack' = Replaced(t) /\ UNCHANGED <<env, loc, pc, section>>
        /\ cfg' = [cfg EXCEPT !.ignored = @ + 1]
    BY <1>3, <1>12 DEF UnknownLine, AdvanceOnly
  <2>2. l.kind = "unknown"
    BY <2>1 DEF AtLine
  <2>3. b = [a EXCEPT !.ignored = @ + 1]
    BY <1>5, <1>6, <1>9, <2>2 DEF LineMeaning
  <2>4. Tells(b, cfg')
    BY <1>6, <2>1, <2>3, TellsIgnored
  <2>5. Here(Now, t, q).label = t.match
    BY <1>4, <1>6, <1>7, <2>2
  <2> QED
    BY <1>4, <1>8, <1>9, <2>1, <2>4, <2>5, LineCarried
<1>13. CASE MatchLine
  <2>1. /\ AtLine("match") /\ UNCHANGED <<env, loc, pc, cfg, section>>
        /\ stack' = Replaced([Top EXCEPT !.at = @ + 1, !.match = l.criteria])
    BY <1>13 DEF MatchLine
  <2>2. l.kind = "match" /\ l.criteria \in Label
    BY <1>5, <2>1, LineFields DEF AtLine, Label
  <2>3. PICK u : u = [Top EXCEPT !.at = @ + 1, !.match = l.criteria]
    OBVIOUS
  <2>4. /\ u \in Frame /\ u.file = Top.file /\ u.at = Top.at + 1 /\ u.match = l.criteria
        /\ u.matches = <<>> /\ u.patterns = <<>>
    <3>1. PICK fr \in Frame : fr = Top
      BY <1>2
    <3>2. PICK m \in Label : m = l.criteria
      BY <2>2
    <3>3. u = Matched(fr, m)
      BY <2>3, <3>1, <3>2 DEF Matched
    <3>4. /\ u \in Frame /\ u.file = fr.file /\ u.at = fr.at + 1 /\ u.match = m
          /\ u.matches = fr.matches /\ u.patterns = fr.patterns
      BY <3>3, FrameMatched
    <3> QED
      BY <1>2, <3>1, <3>2, <3>4
  <2>5. b = a
    BY <1>5, <1>6, <1>9, <2>2 DEF LineMeaning
  <2>6. Here(Now, u, q) = Here(Now, t, q)
    BY <1>4, <2>4 DEF Here
  <2>7. Here(Now, u, q).label = u.match /\ Tells(b, cfg')
    BY <1>6, <1>7, <2>1, <2>2, <2>4, <2>5, <2>6
  <2> QED
    BY <1>8, <1>9, <2>1, <2>3, <2>4, <2>7, LineCarried
<1>14. CASE TooManyDirectives
  <2>1. AtLine("directive") /\ Fail("limit") /\ DirectivesExhausted
    BY <1>14 DEF TooManyDirectives
  <2>2. l.kind = "directive"
    BY <2>1 DEF AtLine
  <2>3. b = Stopped("limit")
    BY <1>5, <1>6, <1>9, <2>1, <2>2 DEF LineMeaning, DirectivesExhausted
  <2> QED
    BY <1>4, <1>8, <1>9, <2>1, <2>3, LineCarried
<1>15. CASE DirectiveLine
  <2>1. PICK d : d = [keyword |-> l.keyword, args |-> l.args, file |-> Top.file,
                      line |-> Top.at, match |-> Top.match]
    OBVIOUS
  <2>2. /\ AtLine("directive") /\ stack' = Replaced(t) /\ UNCHANGED <<env, loc, pc, section>>
        /\ ~DirectivesExhausted
        /\ cfg' = [cfg EXCEPT !.directives = Append(@, d)]
    BY <1>3, <1>15, <2>1 DEF DirectiveLine, AdvanceOnly
  <2>3. l.kind = "directive" /\ l.keyword \in Keyword /\ l.args \in Arg
    BY <1>5, <2>2, LineFields DEF AtLine
  <2>4. PICK here : here = Here(Now, Top, q)
    OBVIOUS
  <2>5. here \in Context
    BY <1>1, <1>4, <1>6, <2>4, LineAhead, NowTyped, FrameFields, ContextTyped DEF Here
  <2>6. PICK r : r = [keyword |-> l.keyword, args |-> l.args, file |-> Top.file,
                      line |-> Top.at, within |-> here]
    OBVIOUS
  <2>7. r \in Reading /\ d = SaysOf(r)
    BY <1>5, <1>6, <2>1, <2>3, <2>4, <2>5, <2>6 DEF Reading, SaysOf
  <2>8. b = [a EXCEPT !.said = Append(@, r)]
    BY <1>5, <1>6, <1>9, <2>2, <2>3, <2>4, <2>6
    DEF LineMeaning, DirectivesExhausted, Here
  <2>9. Tells(b, cfg')
    BY <1>6, <2>2, <2>7, <2>8, TellsDirective
  <2>10. Here(Now, t, q).label = t.match
    BY <1>4, <1>6, <1>7, <2>3
  <2> QED
    BY <1>4, <1>8, <1>9, <2>2, <2>9, <2>10, LineCarried
<1> QED
  BY <1>10, <1>11, <1>12, <1>13, <1>14, <1>15

(* Where the frame on top is replaced, with what it has left unchanged.      *)
LEMMA MoveCarried ==
  ASSUME TypeOK, stack # <<>>, NEW L, NEW q, NEW a, NEW due,
         Doing(Now, stack, L, q, a, Top, cfg, due),
         NEW t, Fits(Now, t), Here(Now, t, q).label = t.match,
         RestOf(Now, Deeper(Now, Len(stack)), Top, q, a) =
           RestOf(Now, Deeper(Now, Len(stack)), t, q, a),
         stack' = Replaced(t), UNCHANGED <<env, loc, cfg, section>>, pc' = "load"
  PROVE  Carried(due)
<1>1. Tells(a, cfg) /\ t \in Frame /\ stack \in Seq(Frame)
  BY DEF Doing, Fits, TypeOK
<1>2. Doing(Now, stack, L, q, a, t, cfg, due)
  BY <1>1, FrameMoves
<1>3. PICK s : s = stack'
  OBVIOUS
<1>4. /\ s \in Seq(Frame) /\ s # <<>> /\ Len(s) = Len(stack) /\ s[Len(stack)] = t
      /\ \A i \in 1 .. Len(stack) - 1 : s[i] = stack[i]
  BY <1>1, <1>3, ReplacedTop
<1>5. OnTrack(Now, s, cfg, due)
  BY <1>2, <1>4, NowTyped, TopCloses
<1> QED
  BY <1>3, <1>4, <1>5 DEF Carried

LEMMA IncludeCarried ==
  ASSUME TypeOK, NEW L, NEW q, NEW a, NEW due, Doing(Now, stack, L, q, a, Top, cfg, due),
         IncludeLine
  PROVE  Carried(due)
<1>1. PICK t : t = [Top EXCEPT !.at = @ + 1, !.patterns = Current.patterns]
  OBVIOUS
<1>2. /\ AtLine("include") /\ stack' = Replaced(t)
      /\ UNCHANGED <<env, loc, pc, cfg, section>>
  BY <1>1 DEF IncludeLine
<1>3. PICK ps \in Seq(Pattern) : ps = Current.patterns
  BY <1>2, AtLineTyped, LineFields
<1>4. PICK fr \in Frame : fr = Top
  BY <1>2, AtLineTyped
<1>5. /\ fr = [file |-> fr.file, at |-> fr.at, match |-> fr.match,
               patterns |-> fr.patterns, matches |-> fr.matches]
      /\ fr.at \in Nat \ {0} /\ fr.at + 1 \in Nat \ {0}
  BY DEF Frame
<1>6. t = [file |-> fr.file, at |-> fr.at + 1, match |-> fr.match,
           patterns |-> ps, matches |-> fr.matches]
  BY <1>1, <1>3, <1>4, <1>5
<1>7. /\ t \in Frame /\ t.file = fr.file /\ t.at = fr.at + 1 /\ t.match = fr.match
      /\ t.patterns = ps /\ t.matches = fr.matches
  BY <1>5, <1>6 DEF Frame
<1>8. /\ Fits(Now, Top) /\ Fits(Now, t) /\ Top.matches = <<>> /\ Top.patterns = <<>>
      /\ Top.at <= Len(Now.content[Top.file])
      /\ Now.content[Top.file][Top.at] = Current /\ Current.kind = "include"
  BY <1>2, <1>4, <1>7, LineAhead
<1>9. Now \in Worlds /\ a \in Account /\ Going(a)
  BY NowTyped, TellsSame DEF Doing
<1>10. PICK G : G = Deeper(Now, Len(stack))
  OBVIOUS
<1>11. RestOf(Now, G, Top, q, a) = RestOf(Now, G, t, q, a)
  BY <1>3, <1>4, <1>7, <1>8, <1>9, RestAfterInclude
<1>12. Here(Now, t, q) = Here(Now, Top, q)
  <2>1. PICK lines : lines = Now.content[Top.file]
    OBVIOUS
  <2>2. PICK n : n = Top.at
    OBVIOUS
  <2>3. lines[n].kind # "match" => ContextAt(lines, n + 1, q) = ContextAt(lines, n, q)
    BY <1>4, <1>5, <2>2, ContextNext
  <2> QED
    BY <1>4, <1>7, <1>8, <2>1, <2>2, <2>3 DEF Here
<1>13. Here(Now, t, q).label = t.match
  BY <1>4, <1>7, <1>12 DEF Doing
<1> QED
  BY <1>2, <1>8, <1>10, <1>11, <1>13, MoveCarried DEF AtLine

(* At a pattern: its meaning comes before what is left without it.           *)
LEMMA PatternAhead ==
  ASSUME TypeOK, AtPattern,
         NEW L, NEW q, NEW a, NEW due, Doing(Now, stack, L, q, a, Top, cfg, due)
  PROVE  /\ Fits(Now, Top) /\ Top.matches = <<>> /\ Top.patterns # <<>> /\ stack # <<>>
         /\ a \in Account /\ Going(a) /\ a.files = cfg.files
         /\ Wanted \in Pattern
         /\ \A G, err :
              PatternMeaning(Now, G, Wanted, Here(Now, Top, q))[a] = Stopped(err)
              /\ G = Deeper(Now, Len(stack)) => due = Unavailable(classify(err))
<1>1. /\ Fits(Now, Top) /\ Top.matches = <<>> /\ Top.patterns # <<>> /\ stack # <<>>
  BY DEF AtPattern, Doing
<1>2. Now \in Worlds /\ a \in Account /\ Going(a) /\ a.files = cfg.files
  BY NowTyped, TellsSame DEF Doing
<1>3. Wanted \in Pattern
  BY <1>1, HeadTailProperties DEF Wanted, Fits, Frame
<1>4. PICK t : t = [Top EXCEPT !.patterns = Tail(@)]
  OBVIOUS
<1>5. ASSUME NEW G, NEW err, G = Deeper(Now, Len(stack)),
             PatternMeaning(Now, G, Wanted, Here(Now, Top, q))[a] = Stopped(err)
      PROVE  due = Unavailable(classify(err))
  <2>1. /\ Fits(Now, t)
        /\ RestOf(Now, G, Top, q, a) = RestOf(Now, G, t, q, Stopped(err))
    BY <1>1, <1>2, <1>4, <1>5, RestAfterPattern DEF Wanted
  <2> QED
    BY <1>2, <1>5, <2>1, FrameStops
<1> QED
  BY <1>1, <1>2, <1>3, <1>5

LEMMA PatternCarried ==
  ASSUME TypeOK, NEW L, NEW q, NEW a, NEW due, Doing(Now, stack, L, q, a, Top, cfg, due),
         pc = "glob" => Wanted \notin Tilde /\ ~ProbeDenied(Wanted),
         IncludeRejected \/ GlobFails \/ Glob
  PROVE  Carried(due)
<1>1. AtPattern
  BY DEF IncludeRejected, GlobFails, Glob
<1>2. PICK p : p = Wanted
  OBVIOUS
<1>3. PICK G : G = Deeper(Now, Len(stack))
  OBVIOUS
<1>4. PICK here : here = Here(Now, Top, q)
  OBVIOUS
<1>5. /\ Fits(Now, Top) /\ Top.matches = <<>> /\ Top.patterns # <<>> /\ stack # <<>>
      /\ a \in Account /\ Going(a) /\ a.files = cfg.files
  BY <1>1, PatternAhead
<1>6. Now \in Worlds /\ Now.disk = disk /\ Now.list = disk.listing
  BY NowTyped
<1>7. ASSUME NEW err, Fail(err), PatternMeaning(Now, G, p, here)[a] = Stopped(err)
      PROVE  Carried(due)
  <2>1. due = Unavailable(classify(err))
    BY <1>1, <1>2, <1>3, <1>4, <1>7, PatternAhead
  <2> QED
    BY <1>7, <2>1 DEF Carried
<1>8. /\ p \in Tilde => PatternMeaning(Now, G, p, here)[a] = Stopped("syntax")
      /\ p \notin Tilde /\ ProbeDenied(p)
           => PatternMeaning(Now, G, p, here)[a] = Stopped("permission")
      /\ p \notin Tilde /\ ~ProbeDenied(p) /\ p \in Malformed
           => PatternMeaning(Now, G, p, here)[a] = Stopped("pattern")
      /\ p \notin Tilde /\ ~ProbeDenied(p) /\ p \notin Malformed /\ MatchesExceed(p)
           => PatternMeaning(Now, G, p, here)[a] = Stopped("limit")
  BY <1>5, <1>6 DEF PatternMeaning, ProbeDenied, MatchesExceed
<1>9. CASE IncludeRejected
  BY <1>2, <1>7, <1>8, <1>9 DEF IncludeRejected
<1>10. CASE GlobFails
  BY <1>2, <1>7, <1>8, <1>10 DEF GlobFails
<1>11. CASE Glob
  <2>1. PICK t : t = [Top EXCEPT !.patterns = Tail(@), !.matches = disk.listing[Wanted]]
    OBVIOUS
  <2>2. /\ p \notin Tilde /\ ~ProbeDenied(p) /\ p \notin Malformed /\ ~MatchesExceed(p)
        /\ pc' = "load" /\ stack' = Replaced(t) /\ UNCHANGED <<env, loc, cfg, section>>
    BY <1>2, <1>11, <2>1 DEF Glob
  <2>3. Admits(Now, a, p)
    BY <1>5, <1>6, <2>2 DEF Admits, ProbeDenied, MatchesExceed
  <2>4. PICK fr : fr = Top
    OBVIOUS
  <2>5. t = Globbed(fr, Now.list[p])
    BY <1>2, <1>6, <2>1, <2>4 DEF Globbed
  <2>6. p = Head(fr.patterns)
    BY <1>2, <2>4 DEF Wanted
  <2>7. /\ Fits(Now, t) /\ Here(Now, t, q) = Here(Now, fr, q)
        /\ RestOf(Now, G, fr, q, a) = RestOf(Now, G, t, q, a)
    BY <1>5, <1>6, <2>3, <2>4, <2>5, <2>6, RestAfterGlob
  <2>8. t.match = Top.match
    BY <2>1
  <2>9. Here(Now, t, q).label = t.match
    BY <2>4, <2>7, <2>8 DEF Doing
  <2> QED
    BY <1>3, <1>5, <2>2, <2>4, <2>7, <2>9, MoveCarried
<1> QED
  BY <1>9, <1>10, <1>11

(* An included file: what is left of the includer waits for it.              *)
LEMMA MatchCarried ==
  ASSUME TypeOK, NEW L, NEW q, NEW a, NEW due, Doing(Now, stack, L, q, a, Top, cfg, due),
         ParseMatch
  PROVE  Carried(due)
<1>1. PICK t : t = [Top EXCEPT !.matches = Tail(@)]
  OBVIOUS
<1>2. PICK s : s = Replaced(t)
  OBVIOUS
<1>3. PICK f : f = Head(Top.matches)
  OBVIOUS
<1>4. pc = "load" /\ stack # <<>> /\ Top.matches # <<>> /\ parseFile(f, Top.match, s)
  BY <1>1, <1>2, <1>3 DEF ParseMatch
<1>5. PICK G : G = Deeper(Now, Len(stack))
  OBVIOUS
<1>6. /\ Now \in Worlds /\ Fits(Now, Top) /\ a \in Account /\ Tells(a, cfg)
      /\ q \in Context /\ Here(Now, Top, q).label = Top.match
  BY NowTyped DEF Doing, Tells
<1>7. PICK here : here = Here(Now, Top, q)
  OBVIOUS
<1>8. here \in Context /\ f \in File /\ Top.match \in Label
  BY <1>3, <1>4, <1>6, <1>7, FrameFields, ContextTyped, HeadTailProperties DEF Here, Frame
<1>9. /\ Fits(Now, t) /\ Here(Now, t, q) = here
      /\ RestOf(Now, G, Top, q, a) = RestOf(Now, G, t, q, G[f][here][a])
  <2>1. PICK fr : fr = Top
    OBVIOUS
  <2>2. t = FileTaken(fr)
    BY <1>1, <2>1 DEF FileTaken
  <2> QED
    BY <1>3, <1>4, <1>6, <1>7, <2>1, <2>2, RestAfterFile
<1>10. t \in Frame /\ t.match = Top.match
  BY <1>1, <1>9 DEF Fits
<1>11. PICK n \in Nat \ {0} : n = Len(stack)
  BY DEF Doing
<1>12. /\ s \in Seq(Frame) /\ Len(s) = n /\ s[n] = t
       /\ \A i \in 1 .. n - 1 : s[i] = stack[i]
  BY <1>2, <1>4, <1>10, <1>11, ReplacedTop DEF TypeOK
<1>13. G \in StrictMeanings
  BY <1>5, <1>6, DeeperTyped DEF Doing
<1>14. G[f][here][a] \in Account
  BY <1>6, <1>8, <1>13 DEF StrictMeanings, Meanings
<1>15. \E e : Doing(Now, stack, L, q, e, t, cfg, SectionOf(L[RestOf(Now, G, t, q, e)]))
  BY <1>5, <1>6, <1>7, <1>9, <1>10 DEF Doing
<1>16. PICK K : /\ Continues(Now, s, K)
                /\ \A b \in Account : K[b] = L[RestOf(Now, G, t, q, b)]
  BY <1>5, <1>6, <1>11, <1>12, <1>15, TopContinues
<1>17. due = SectionOf(K[G[f][here][a]])
  BY <1>5, <1>9, <1>14, <1>16 DEF Doing
<1> QED
  BY <1>4, <1>5, <1>6, <1>7, <1>8, <1>11, <1>12, <1>16, <1>17, CallCarried

LEMMA EndCarried ==
  ASSUME TypeOK, NEW L, NEW q, NEW a, NEW due, Doing(Now, stack, L, q, a, Top, cfg, due), AtEnd
  PROVE  /\ Return => Carried(due)
         /\ Loaded => due = CollectedSection(cfg)
<1>1. PICK G : G = Deeper(Now, Len(stack))
  OBVIOUS
<1>2. /\ Now \in Worlds /\ Now.content = content /\ Fits(Now, Top) /\ Tells(a, cfg)
      /\ Continues(Now, Under(stack), L) /\ Len(stack) \in Nat \ {0}
      /\ stack \in Seq(Frame) /\ a \in Account
  BY NowTyped DEF Doing, Tells
<1>3. /\ Top.matches = <<>> /\ Top.patterns = <<>> /\ Top.at > Len(Now.content[Top.file])
  BY <1>2 DEF AtEnd, Lines
<1>4. RestOf(Now, G, Top, q, a) = a
  BY <1>2, <1>3, RestAtEnd
<1>5. due = SectionOf(L[a])
  BY <1>1, <1>4 DEF Doing
<1>6. Under(stack) \in Seq(Frame) /\ Len(Under(stack)) = Len(stack) - 1
  BY <1>2, UnderTyped
<1>7. ASSUME Return PROVE Carried(due)
  <2>1. PICK s : s = Under(stack)
    OBVIOUS
  <2>2. stack' = s /\ UNCHANGED <<env, loc, pc, cfg, section>> /\ pc = "load" /\ Len(stack) > 1
    BY <1>7, <2>1 DEF Return, AtEnd, Under
  <2>3. s # <<>>
    BY <1>2, <1>6, <2>1, <2>2, EmptySeq
  <2>4. OnTrack(Now, s, cfg, due)
    BY <1>2, <1>5, <2>1 DEF OnTrack
  <2> QED
    BY <2>2, <2>3, <2>4 DEF Carried
<1>8. ASSUME Loaded PROVE due = CollectedSection(cfg)
  <2>1. Len(Under(stack)) = 0
    BY <1>6, <1>8 DEF Loaded
  <2>2. Under(stack) = <<>>
    BY <1>6, <2>1, EmptySeq
  <2>3. L[a] = a
    BY <1>2, <2>2, ContinuesEmpty
  <2> QED
    BY <1>2, <1>5, <2>3 DEF Tells
<1> QED
  BY <1>7, <1>8
-----------------------------------------------------------------------------
(* The whole of Collect.  The first location that exists is the main file.   *)
NoneBefore(i) == \A j \in 1 .. i - 1 : disk.stat[Locations[j]] = "notexist"

LEMMA MainFound ==
  ASSUME NEW i \in 1..Len(Locations), NoneBefore(i), disk.stat[Locations[i]] # "notexist"
  PROVE  Present(disk) # {} /\ MainFile(disk) = Locations[i]
<1>1. Len(Locations) \in Nat
  BY LocationsAssumption, LenProperties
<1>2. i \in Present(disk) /\ \A j \in Present(disk) : j \in Nat /\ i <= j
  <2>1. i \in Present(disk)
    BY DEF Present
  <2>2. ASSUME NEW j \in Present(disk), ~(i <= j) PROVE FALSE
    <3>1. j \in 1..Len(Locations) /\ disk.stat[Locations[j]] # "notexist"
      BY DEF Present
    <3>2. j \in 1 .. i - 1
      BY <1>1, <2>2, <3>1
    <3> QED
      BY <3>1, <3>2 DEF NoneBefore
  <2> QED
    BY <2>1, <2>2 DEF Present
<1> DEFINE first == CHOOSE k \in Present(disk) : \A j \in Present(disk) : k <= j
<1>3. first \in Present(disk) /\ \A j \in Present(disk) : first <= j
  BY <1>2
<1>4. first \in Nat /\ i \in Nat /\ first <= i /\ i <= first
  BY <1>2, <1>3
<1> HIDE DEF first
<1>5. first = i
  BY <1>4
<1> QED
  BY <1>2, <1>5 DEF MainFile, first

(* As long as the disk stays as it was, the machine is on its way to the      *)
(* section that is due for it, and once it is done that section is there.   *)
OnItsWay ==
  /\ pc # "done" => section = Pending
  /\ section.status # "collected" => section.data = EmptyConfig
  /\ pc = "collect" => cfg = EmptyConfig
  /\ churn = 0 =>
       /\ pc = "collect" => NoneBefore(loc)
       /\ pc \in {"load", "glob"} => FirstFound(loc)
       /\ pc = "load" /\ stack = <<>> => cfg = EmptyConfig
       /\ stack # <<>> => OnTrack(Now, stack, cfg, Due(content, disk))
       /\ pc = "glob" => Wanted \notin Tilde /\ ~ProbeDenied(Wanted)
       /\ pc = "done" => section = Due(content, disk)

(* What a step does to the section: nothing, or it is published, once.       *)
Publishes ==
  /\ section = Pending /\ section' # Pending /\ pc' = "done" /\ stack' = <<>>
  /\ section'.status # "collected" => section'.data = EmptyConfig

LEMMA FailPublishes ==
  ASSUME NEW err, Fail(err), section = Pending
  PROVE  Publishes /\ UNCHANGED env
  BY DEF Fail, Publishes, Pending, Unavailable, classify

LEMMA SectionSteps ==
  ASSUME TypeOK, OnItsWay, Step
  PROVE  /\ UNCHANGED env
         /\ \/ /\ pc' # "done" /\ section' = section /\ section = Pending
               /\ pc' = "collect" => cfg' = cfg /\ pc = "collect"
            \/ Publishes
<1>1. section = Pending
  BY DEF OnItsWay, Step, NextLocation, StatFails, StartLoad, NoLocation, ParseMain,
         ParseMatch, BlankLine, BadLine, UnknownLine, MatchLine, TooManyDirectives,
         DirectiveLine, IncludeLine, IncludeRejected, Probe, GlobFails, Glob,
         Return, Loaded, AtLine, AtEnd
<1>2. ASSUME NEW err, Fail(err) PROVE Publishes /\ UNCHANGED env
  BY <1>1, <1>2, FailPublishes
<1>3. ASSUME NEW f, NEW m, NEW s, parseFile(f, m, s), pc = "load"
      PROVE  UNCHANGED env /\ ((pc' = "load" /\ section' = section) \/ Publishes)
  <2>1. UNCHANGED <<env, loc, pc, section>> \/ \E err : Fail(err)
    BY <1>3 DEF parseFile
  <2> QED
    BY <1>2, <1>3, <2>1
<1>4. CASE ParseMain \/ ParseMatch
  BY <1>1, <1>3, <1>4 DEF ParseMain, ParseMatch
<1>5. CASE StatFails \/ BadLine \/ TooManyDirectives \/ IncludeRejected \/ GlobFails
  <2>1. \E err : Fail(err)
    BY <1>5 DEF StatFails, BadLine, TooManyDirectives, IncludeRejected, GlobFails
  <2> QED
    BY <1>2, <2>1
<1>6. CASE NoLocation
  <2>1. stack = <<>>
    BY <1>6 DEF NoLocation, TypeOK
  <2> QED
    BY <1>1, <1>6, <2>1 DEF NoLocation, Publishes, Pending, Unavailable
<1>7. CASE Loaded
  BY <1>1, <1>7 DEF Loaded, Publishes, Pending, Unavailable, CollectedSection
<1>8. CASE NextLocation \/ StartLoad
  BY <1>1, <1>8 DEF NextLocation, StartLoad
<1>9. CASE \/ BlankLine \/ UnknownLine \/ MatchLine \/ DirectiveLine \/ IncludeLine
           \/ Probe \/ Glob \/ Return
  <2>1. UNCHANGED <<env, section>> /\ pc' \in {"load", "glob"}
    BY <1>9 DEF BlankLine, UnknownLine, MatchLine, DirectiveLine, IncludeLine, Probe,
                Glob, Return, AtLine, AtEnd
  <2> QED
    BY <1>1, <2>1
<1> QED
  BY <1>4, <1>5, <1>6, <1>7, <1>8, <1>9 DEF Step

LEMMA CarriedOn ==
  ASSUME TypeOK, OnItsWay, churn = 0, pc \in {"load", "glob"}, Carried(Due(content, disk))
  PROVE  OnItsWay'
<1>1. FirstFound(loc) /\ section = Pending
  BY DEF OnItsWay
<1>2. CASE \E err : Fail(err) /\ Due(content, disk) = Unavailable(classify(err))
  <2>1. PICK err : Fail(err) /\ Due(content, disk) = Unavailable(classify(err))
    BY <1>2
  <2>2. section' = Due(content, disk) /\ UNCHANGED env /\ pc' = "done" /\ stack' = <<>>
    BY <2>1 DEF Fail
  <2>3. section'.data = EmptyConfig
    BY <2>1 DEF Fail, Unavailable
  <2> QED
    BY <2>2, <2>3 DEF OnItsWay, env
<1>3. CASE /\ UNCHANGED <<env, loc, section>> /\ pc' = "load" /\ stack' # <<>>
           /\ OnTrack(Now, stack', cfg', Due(content, disk))
  <2>1. content' = content /\ disk' = disk
    BY <1>3 DEF env
  <2>2. FirstFound(loc)'
    BY <1>1, <1>3, <2>1 DEF FirstFound
  <2>3. OnTrack(Now, stack, cfg, Due(content, disk))'
    BY <1>3, <2>1 DEF Now
  <2> QED
    BY <1>1, <1>3, <2>2, <2>3 DEF OnItsWay, Pending, Unavailable
<1> QED
  BY <1>2, <1>3 DEF Carried
LEMMA MainCarried ==
  ASSUME TypeOK, OnItsWay, churn = 0, ParseMain
  PROVE  Carried(Due(content, disk))
<1>1. /\ pc = "load" /\ stack = <<>> /\ cfg = EmptyConfig /\ FirstFound(loc)
      /\ parseFile(Locations[loc], Global, stack)
  BY DEF ParseMain, OnItsWay
<1>2. loc \in 1..Len(Locations) /\ Locations[loc] \in File
  BY <1>1, LocationsAssumption, LenProperties, ElementOfSeq DEF TypeOK
<1>3. Present(disk) # {} /\ MainFile(disk) = Locations[loc] /\ disk.stat[Locations[loc]] = "ok"
  BY <1>1, <1>2, MainFound DEF FirstFound, NoneBefore
<1>4. Due(content, disk) = SectionOf(Deeper(Now, 0)[Locations[loc]][Outermost][Blank])
  <2>1. MaxDepth + 1 - 0 = MaxDepth + 1
    BY LimitsAssumption
  <2> QED
    BY <1>3, <2>1 DEF Due, Resolution, Expansion, Deeper, Now
<1>5. Len(<<>>) = 0 /\ <<>> \in Seq(Frame)
  BY EmptySeq
<1>6. PICK K : Continues(Now, <<>>, K) /\ \A b \in Account : K[b] = b
  BY ContinuesEmpty
<1>7. Blank \in Account /\ Tells(Blank, cfg)
  BY <1>1, BlankTells DEF Tells
<1>8. Deeper(Now, 0) \in StrictMeanings
  BY NowTyped, DeeperTyped, LimitsAssumption
<1>9. Outermost \in Context /\ Outermost.label = Global /\ Global \in Label
  BY OutermostTyped DEF Outermost, Label
<1>10. Deeper(Now, 0)[Locations[loc]][Outermost][Blank] \in Account
  BY <1>2, <1>7, <1>8, <1>9 DEF StrictMeanings, Meanings
<1>11. PICK s : s = stack
  OBVIOUS
<1>12. Due(content, disk) = SectionOf(K[Deeper(Now, Len(s))[Locations[loc]][Outermost][Blank]])
  BY <1>1, <1>4, <1>5, <1>6, <1>10, <1>11
<1>13. s \in Seq(Frame) /\ Len(s) = Len(stack) /\ Continues(Now, s, K)
  BY <1>1, <1>5, <1>6, <1>11
<1> QED
  BY <1>1, <1>2, <1>7, <1>9, <1>11, <1>12, <1>13, CallCarried

LEMMA LoadCarried ==
  ASSUME TypeOK, OnItsWay, churn = 0,
         \/ ParseMatch \/ BlankLine \/ BadLine \/ UnknownLine \/ MatchLine
         \/ TooManyDirectives \/ DirectiveLine \/ IncludeLine \/ IncludeRejected
         \/ GlobFails \/ Glob \/ Return
  PROVE  pc \in {"load", "glob"} /\ Carried(Due(content, disk))
<1>1. stack # <<>> /\ stack \in Seq(Frame) /\ pc \in {"load", "glob"}
  BY DEF ParseMatch, BlankLine, BadLine, UnknownLine, MatchLine, TooManyDirectives,
         DirectiveLine, IncludeLine, IncludeRejected, GlobFails, Glob, Return,
         AtLine, AtPattern, AtEnd, TypeOK
<1>2. OnTrack(Now, stack, cfg, Due(content, disk))
  BY <1>1 DEF OnItsWay
<1>3. PICK L, q, a : Doing(Now, stack, L, q, a, Top, cfg, Due(content, disk))
  BY <1>1, <1>2, TopOpens DEF Top
<1>4. pc = "glob" => Wanted \notin Tilde /\ ~ProbeDenied(Wanted)
  BY DEF OnItsWay
<1>5. PICK due : due = Due(content, disk)
  OBVIOUS
<1>6. Doing(Now, stack, L, q, a, Top, cfg, due)
  BY <1>3, <1>5
<1>7. Return => AtEnd
  BY DEF Return
<1>8. Carried(due)
  BY <1>4, <1>6, <1>7, MatchCarried, LinesCarried, IncludeCarried, PatternCarried, EndCarried
<1> QED
  BY <1>1, <1>5, <1>8

LEMMA StepOnItsWay ==
  ASSUME TypeOK, OnItsWay, Step
  PROVE  OnItsWay'
<1>1. /\ UNCHANGED env
      /\ \/ /\ pc' # "done" /\ section' = section /\ section = Pending
            /\ (pc' = "collect" => cfg' = cfg /\ pc = "collect")
         \/ Publishes
  BY SectionSteps
<1>2. content' = content /\ disk' = disk /\ churn' = churn
  BY <1>1 DEF env
<1>3. /\ pc' # "done" => section' = Pending
      /\ section'.status # "collected" => section'.data = EmptyConfig
      /\ pc' = "collect" => cfg' = EmptyConfig
  BY <1>1 DEF Publishes, OnItsWay, Pending, Unavailable
<1>4. CASE churn # 0
  BY <1>2, <1>3, <1>4 DEF OnItsWay, Pending, Unavailable
<1>5. CASE churn = 0
  <2>1. CASE NextLocation
    <3>1. NoneBefore(loc) /\ disk.stat[Locations[loc]] = "notexist" /\ loc \in Nat
          /\ loc' = loc + 1 /\ pc = "collect" /\ UNCHANGED <<pc, stack, cfg, section>>
      BY <1>5, <2>1 DEF NextLocation, OnItsWay, TypeOK
    <3>2. \A j \in 1 .. loc + 1 - 1 : j \in 1 .. loc - 1 \/ j = loc
      BY <3>1
    <3>3. NoneBefore(loc)'
      BY <1>2, <3>1, <3>2 DEF NoneBefore
    <3>4. stack' = <<>>
      BY <3>1 DEF TypeOK
    <3> QED
      BY <1>2, <1>3, <3>1, <3>3, <3>4 DEF OnItsWay, Pending, Unavailable
  <2>2. CASE StatFails \/ NoLocation
    <3>1. section' = Due(content, disk) /\ pc' = "done" /\ stack' = <<>>
      <4>1. pc = "collect" /\ NoneBefore(loc) /\ stack = <<>> /\ loc \in Nat \ {0}
        BY <1>5, <2>2 DEF StatFails, NoLocation, OnItsWay, TypeOK
      <4>2. CASE StatFails
        <5>1. /\ loc \in 1..Len(Locations) /\ disk.stat[Locations[loc]] \notin {"ok", "notexist"}
              /\ Fail(disk.stat[Locations[loc]])
          BY <4>1, <4>2, LocationsAssumption, LenProperties DEF StatFails
        <5>2. Present(disk) # {} /\ MainFile(disk) = Locations[loc]
          BY <4>1, <5>1, MainFound
        <5>3. Due(content, disk) = Unavailable(classify(disk.stat[Locations[loc]]))
          BY <5>1, <5>2 DEF Due, Resolution
        <5> QED
          BY <5>1, <5>3 DEF Fail
      <4>3. CASE NoLocation
        <5>1. Len(Locations) \in Nat /\ loc > Len(Locations)
          BY <4>3, LocationsAssumption, LenProperties DEF NoLocation
        <5>2. \A i \in 1..Len(Locations) : i \in 1 .. loc - 1
          BY <4>1, <5>1
        <5>3. Present(disk) = {}
          BY <4>1, <5>2 DEF NoneBefore, Present
        <5> QED
          BY <4>1, <4>3, <5>3 DEF NoLocation, Due, Resolution
      <4> QED
        BY <2>2, <4>2, <4>3
    <3> QED
      BY <1>2, <1>3, <3>1 DEF OnItsWay
  <2>3. CASE StartLoad
    <3>1. /\ pc = "collect" /\ pc' = "load" /\ UNCHANGED <<loc, stack, cfg, section>>
          /\ NoneBefore(loc) /\ disk.stat[Locations[loc]] = "ok" /\ cfg = EmptyConfig
          /\ stack = <<>>
      BY <1>5, <2>3 DEF StartLoad, OnItsWay, TypeOK
    <3>2. FirstFound(loc)'
      BY <1>2, <3>1 DEF FirstFound, NoneBefore
    <3> QED
      BY <1>2, <1>3, <3>1, <3>2 DEF OnItsWay, Pending, Unavailable
  <2>4. CASE ParseMain
    BY <1>5, <2>4, MainCarried, CarriedOn DEF ParseMain
  <2>5. CASE \/ ParseMatch \/ BlankLine \/ BadLine \/ UnknownLine \/ MatchLine
             \/ TooManyDirectives \/ DirectiveLine \/ IncludeLine \/ IncludeRejected
             \/ GlobFails \/ Glob \/ Return
    BY <1>5, <2>5, LoadCarried, CarriedOn
  <2>6. CASE Probe
    <3>1. /\ pc = "load" /\ pc' = "glob" /\ UNCHANGED <<loc, stack, cfg, section>>
          /\ stack # <<>> /\ Wanted \notin Tilde /\ ~ProbeDenied(Wanted)
      BY <2>6 DEF Probe, AtPattern
    <3>2. FirstFound(loc) /\ OnTrack(Now, stack, cfg, Due(content, disk))
      BY <1>5, <3>1 DEF OnItsWay
    <3>3. FirstFound(loc)'
      BY <1>2, <3>1, <3>2 DEF FirstFound
    <3>4. OnTrack(Now, stack, cfg, Due(content, disk))'
      BY <1>2, <3>1, <3>2 DEF Now
    <3>5. (Wanted \notin Tilde /\ ~ProbeDenied(Wanted))'
      BY <1>2, <3>1 DEF Wanted, Top, ProbeDenied
    <3> QED
      BY <1>2, <1>3, <3>1, <3>3, <3>4, <3>5 DEF OnItsWay, Pending, Unavailable
  <2>7. CASE Loaded
    <3>1. /\ stack # <<>> /\ AtEnd /\ stack' = <<>> /\ pc' = "done"
          /\ section' = CollectedSection(cfg)
      BY <2>7 DEF Loaded, AtEnd
    <3>2. OnTrack(Now, stack, cfg, Due(content, disk)) /\ stack \in Seq(Frame)
      BY <1>5, <3>1 DEF OnItsWay, TypeOK
    <3>3. PICK L, q, a : Doing(Now, stack, L, q, a, Top, cfg, Due(content, disk))
      BY <3>1, <3>2, TopOpens DEF Top
    <3>4. section' = Due(content, disk)
      BY <2>7, <3>1, <3>3, EndCarried
    <3> QED
      BY <1>2, <1>3, <3>1, <3>4 DEF OnItsWay
  <2> QED
    BY <2>1, <2>2, <2>3, <2>4, <2>5, <2>6, <2>7 DEF Step
<1> QED
  BY <1>2, <1>4, <1>5, LimitsAssumption DEF TypeOK

LEMMA ChangesOnItsWay ==
  ASSUME TypeOK, OnItsWay, DiskChanges
  PROVE  OnItsWay'
<1>1. /\ pc # "done" /\ churn' = churn + 1 /\ churn \in Nat
      /\ UNCHANGED <<pc, cfg, section>>
  BY LimitsAssumption DEF DiskChanges, TypeOK
<1>2. churn' # 0
  BY <1>1
<1> QED
  BY <1>1, <1>2 DEF OnItsWay, Pending, Unavailable

LEMMA IdleOnItsWay ==
  ASSUME OnItsWay, UNCHANGED vars
  PROVE  OnItsWay'
<1>1. UNCHANGED <<content, disk, churn, loc, pc, stack, cfg, section>>
  BY DEF vars
<1>2. /\ FirstFound(loc)' <=> FirstFound(loc)
      /\ NoneBefore(loc)' <=> NoneBefore(loc)
      /\ Wanted' = Wanted /\ (ProbeDenied(Wanted)' <=> ProbeDenied(Wanted))
      /\ OnTrack(Now, stack, cfg, Due(content, disk))'
           <=> OnTrack(Now, stack, cfg, Due(content, disk))
  BY <1>1 DEF FirstFound, NoneBefore, Wanted, ProbeDenied, Top, Now
<1> QED
  BY <1>1, <1>2 DEF OnItsWay, Pending, Unavailable

LEMMA InitOnItsWay == Init => OnItsWay
  BY DEF Init, OnItsWay, NoneBefore, Pending, Unavailable

(* The section that is published on a disk that stayed as it was is the one    *)
(* parse.go, read as functions, computes from the files.                     *)
THEOREM SectionIsTheOneDue ==
  Spec => [](TypeOK /\ OnItsWay)
<1>1. TypeOK /\ OnItsWay /\ [Next]_vars => OnItsWay'
  <2> SUFFICES ASSUME TypeOK, OnItsWay, [Next]_vars PROVE OnItsWay'
    OBVIOUS
  <2> QED
    BY StepOnItsWay, ChangesOnItsWay, IdleOnItsWay DEF Next, Done
<1> QED
  BY <1>1, InitOnItsWay, TypeCorrect, PTL DEF Spec

(* The collector implements its abstract specification, whatever the files    *)
(* hold and however the disk changes: one section, published once, exactly    *)
(* the expansion of the main file or its first error when the disk stayed as  *)
(* it was, and never a partial one.                                          *)
THEOREM CollectorKeepsItsPromise == Spec => KeepsPromise
<1>1. Init => Promise!Init
  BY DEF Init, Promise!Init
<1>2. TypeOK /\ OnItsWay /\ OnItsWay' /\ [Next]_vars
        => [Promise!Next]_<<content, disk, churn, section>>
  <2> SUFFICES ASSUME TypeOK, OnItsWay, OnItsWay', [Next]_vars
               PROVE  [Promise!Next]_<<content, disk, churn, section>>
    OBVIOUS
  <2>1. CASE Step
    <3>1. UNCHANGED env /\ (section' = section \/ Publishes)
      BY <2>1, SectionSteps
    <3>2. content' = content /\ disk' = disk /\ churn' = churn
      BY <3>1 DEF env
    <3>3. CASE Publishes
      <4>1. churn = 0 => section' = Due(content, disk)
        BY <3>2, <3>3 DEF OnItsWay, Publishes
      <4>2. Promise!Publish
        BY <3>2, <3>3, <4>1 DEF Promise!Publish, Publishes
      <4> QED
        BY <4>2 DEF Promise!Next
    <3> QED
      BY <3>1, <3>2, <3>3
  <2>2. CASE DiskChanges
    <3>1. section = Pending
      BY <2>2 DEF DiskChanges, OnItsWay
    <3> QED
      BY <2>2, <3>1 DEF DiskChanges, Promise!DiskChanges, Promise!Next
  <2>3. CASE UNCHANGED vars
    BY <2>3 DEF vars
  <2> QED
    BY <2>1, <2>2, <2>3 DEF Next, Done
<1> QED
  BY <1>1, <1>2, SectionIsTheOneDue, PTL DEF Spec, KeepsPromise, Promise!Spec
-----------------------------------------------------------------------------
(* Two worlds that differ only in what stands behind patterns whose directory *)
(* may not be read: no file means anything else in one than in the other.   *)
SameFiles(w, x, p) ==
  \/ w.list[p] = x.list[p]
  \/ p \notin WildDir /\ w.disk.probe[p] = "permission"

Alike(w, x) ==
  /\ w.content = x.content /\ w.disk = x.disk
  /\ \A f \in File : \A n \in 1..Len(w.content[f]) :
       w.content[f][n].kind = "include" =>
         \A i \in 1..Len(w.content[f][n].patterns) :
           SameFiles(w, x, w.content[f][n].patterns[i])

LEMMA AlikePatterns ==
  ASSUME NEW w, NEW x, w.disk = x.disk, NEW G, NEW p, NEW here, SameFiles(w, x, p)
  PROVE  PatternMeaning(w, G, p, here) = PatternMeaning(x, G, p, here)
<1>1. CASE w.list[p] = x.list[p]
  BY <1>1 DEF PatternMeaning
<1>2. CASE p \notin WildDir /\ w.disk.probe[p] = "permission"
  <2>1. ASSUME NEW y, y.disk = w.disk
        PROVE  PatternMeaning(y, G, p, here) =
                 [a \in Account |-> IF ~Going(a) THEN a
                                    ELSE IF p \in Tilde THEN Stopped("syntax")
                                    ELSE Stopped("permission")]
    BY <1>2, <2>1 DEF PatternMeaning
  <2> QED
    BY <2>1
<1> QED
  BY <1>1, <1>2 DEF SameFiles

LEMMA AlikeLines ==
  ASSUME NEW w, NEW x, Alike(w, x), NEW G, NEW f \in File,
         NEW n \in 1..Len(w.content[f]), NEW q
  PROVE  LineMeaning(w, G, f, n, q) = LineMeaning(x, G, f, n, q)
<1> DEFINE l == w.content[f][n]
           here == ContextAt(w.content[f], n, q)
           steps(y) == [i \in 1..Len(l.patterns) |-> PatternMeaning(y, G, l.patterns[i], here)]
<1>1. w.content = x.content /\ w.disk = x.disk
  BY DEF Alike
<1>2. CASE l.kind = "include"
  <2>1. \A i \in 1..Len(l.patterns) :
          PatternMeaning(w, G, l.patterns[i], here) = PatternMeaning(x, G, l.patterns[i], here)
    <3>1. \A i \in 1..Len(l.patterns) : SameFiles(w, x, l.patterns[i])
      BY <1>2 DEF Alike
    <3> QED
      BY <1>1, <3>1, AlikePatterns
  <2>2. steps(w) = steps(x)
    BY <2>1
  <2>3. ASSUME NEW y, y.content = w.content
        PROVE  LineMeaning(y, G, f, n, q) =
                 [a \in Account |-> IF ~Going(a) THEN a ELSE InTurn(steps(y), a)]
    BY <1>2, <2>3 DEF LineMeaning
  <2> HIDE DEF steps
  <2>4. LineMeaning(w, G, f, n, q) =
          [a \in Account |-> IF ~Going(a) THEN a ELSE InTurn(steps(w), a)]
    BY <2>3
  <2>5. LineMeaning(x, G, f, n, q) =
          [a \in Account |-> IF ~Going(a) THEN a ELSE InTurn(steps(x), a)]
    BY <1>1, <2>3
  <2> QED
    BY <2>2, <2>4, <2>5
<1>3. CASE l.kind # "include"
  BY <1>1, <1>3 DEF LineMeaning
<1> QED
  BY <1>2, <1>3

LEMMA AlikeFiles ==
  ASSUME NEW w, NEW x, Alike(w, x), NEW G
  PROVE  FileMeaning(w, G) = FileMeaning(x, G)
<1> DEFINE steps(y, f, q) == [n \in 1..Len(w.content[f]) |-> LineMeaning(y, G, f, n, q)]
           all(y) == [f \in File |-> [q \in Context |-> [a \in Account |->
                        IF ~Going(a) THEN a
                        ELSE IF Len(a.files) >= MaxFiles THEN Stopped("limit")
                        ELSE IF w.disk.read[f] # "ok" THEN Stopped(w.disk.read[f])
                        ELSE InTurn(steps(y, f, q), Entering(a, f))]]]
<1>1. w.content = x.content /\ w.disk = x.disk
  BY DEF Alike
<1>2. \A f \in File, q \in Context : steps(w, f, q) = steps(x, f, q)
  BY AlikeLines
<1>3. FileMeaning(w, G) = all(w)
  BY DEF FileMeaning, Entering
<1>4. FileMeaning(x, G) = all(x)
  BY <1>1 DEF FileMeaning, Entering
<1> HIDE DEF steps
<1>5. all(w) = all(x)
  BY <1>2
<1> QED
  BY <1>3, <1>4, <1>5

LEMMA AlikeMeanings ==
  ASSUME NEW w \in Worlds, NEW x \in Worlds, Alike(w, x), NEW n \in Nat
  PROVE  Meaning(w)[n] = Meaning(x)[n]
<1> DEFINE T == {k \in Nat : Meaning(w)[k] # Meaning(x)[k]}
<1> SUFFICES ASSUME T # {} PROVE FALSE
  OBVIOUS
<1>1. PICK k \in T : \A j \in T : k <= j
  BY LeastExists
<1>2. k # 0
  BY <1>1, MeaningSolves
<1>3. k - 1 \in Nat /\ k - 1 \notin T /\ (k - 1) + 1 = k
  BY <1>1, <1>2
<1>4. Meaning(w)[k - 1] = Meaning(x)[k - 1]
  BY <1>3
<1>5. /\ Meaning(w)[k] = FileMeaning(w, Meaning(w)[k - 1])
      /\ Meaning(x)[k] = FileMeaning(x, Meaning(x)[k - 1])
  <2>1. \A y \in Worlds : \A m \in Nat : Meaning(y)[m + 1] = FileMeaning(y, Meaning(y)[m])
    BY MeaningSolves
  <2> QED
    BY <1>3, <2>1
<1>6. Meaning(w)[k] = Meaning(x)[k]
  BY <1>4, <1>5, AlikeFiles
<1> QED
  BY <1>1, <1>6

(* Where only unreadable directories hide files, it makes no difference       *)
(* whether a pattern stands for what Glob lists or for what there is.       *)
There == World(content, disk, disk.there)

LEMMA ProbedExpansion ==
  ASSUME TypeOK, Probed
  PROVE  Expansion(content, disk, disk.listing) = Expansion(content, disk, disk.there)
<1>1. content \in [File -> Seq(Line)] /\ disk \in Disk
  BY ContentsAssumption, DisksAssumption DEF TypeOK
<1>2. disk.listing \in [Pattern -> Seq(File)] /\ disk.there \in [Pattern -> Seq(File)]
  BY <1>1 DEF Disk
<1>3. Now \in Worlds /\ There \in Worlds
  BY <1>1, <1>2 DEF Now, There, World, Worlds
<1>4. Alike(Now, There)
  <2>0. /\ Now.content = content /\ There.content = content
        /\ Now.disk = disk /\ There.disk = disk
    BY DEF Now, There, World
  <2> SUFFICES ASSUME NEW f \in File, NEW n \in 1..Len(content[f]),
                      content[f][n].kind = "include",
                      NEW i \in 1..Len(content[f][n].patterns)
               PROVE  SameFiles(Now, There, content[f][n].patterns[i])
    BY <2>0 DEF Alike
  <2> DEFINE p == content[f][n].patterns[i]
  <2>1. content[f] \in Seq(Line) /\ content[f][n] \in Line
    BY <1>1, ElementOfSeq
  <2>2. content[f][n].patterns \in Seq(Pattern)
    BY <2>1, LineFields
  <2>3. p \in Pattern
    BY <2>2, ElementOfSeq
  <2>4. p \in Used
    BY <2>3 DEF Used
  <2> QED
    BY <2>4 DEF Probed, SameFiles, Now, There, World
<1>5. Meaning(Now)[MaxDepth + 1] = Meaning(There)[MaxDepth + 1]
  BY <1>3, <1>4, AlikeMeanings, LimitsAssumption
<1> QED
  BY <1>5 DEF Expansion, Now, There

(* What is published for a disk that stayed as it was.                      *)
LEMMA CollectedIsDue ==
  ASSUME OnItsWay, section.status = "collected", churn = 0
  PROVE  section = Due(content, disk)
<1>1. pc = "done"
  BY DEF OnItsWay, Pending, Unavailable
<1> QED
  BY <1>1 DEF OnItsWay

(* A collected configuration holds the contents of every file that the        *)
(* directories really have, the ones Glob could not see included, as long    *)
(* as only directories without wildcards in their names hide files.         *)
THEOREM NothingIsHidden == Spec => []CompleteWhereProbed
<1>1. TypeOK /\ OnItsWay => CompleteWhereProbed
  <2> SUFFICES ASSUME TypeOK, OnItsWay, Probed, section.status = "collected", churn = 0
               PROVE  section = Resolution(content, disk, disk.there)
    BY DEF CompleteWhereProbed, Complete
  <2>1. section = Resolution(content, disk, disk.listing)
    BY CollectedIsDue DEF Due
  <2> QED
    BY <2>1, ProbedExpansion DEF Resolution
<1> QED
  BY <1>1, SectionIsTheOneDue, PTL
-----------------------------------------------------------------------------
(* From the files to the verdicts.  Of the directives that the collector      *)
(* keeps, sshd reads, for one connection, all those outside Match blocks and *)
(* some of those inside.                                                    *)
Holding(ds) == [files |-> <<>>, directives |-> ds, ignored |-> 0]

LEMMA HoldingTyped ==
  ASSUME NEW ds \in Seq(Directive)
  PROVE  Holding(ds) \in Config
<1>1. <<>> \in Seq(File)
  BY EmptySeq
<1> QED
  BY <1>1 DEF Holding, Config

Part(g, c) ==
  \A k : /\ HasGlobal(g, k) <=> HasGlobal(c, k)
         /\ HasGlobal(c, k) => GlobalArgs(g, k) = GlobalArgs(c, k)
         /\ Conditional(g, k) \subseteq Conditional(c, k)

(* What one more directive d, the n-th, changes when c becomes e.           *)
Adds(c, e, d, n, k, L) ==
  /\ d.keyword = k /\ d.match \in L => At(e, k, L) = At(c, k, L) \cup {n}
  /\ ~(d.keyword = k /\ d.match \in L) => At(e, k, L) = At(c, k, L)
  /\ \A i \in At(c, k, L) : i \in 1 .. n - 1 /\ ArgsAt(e, i) = ArgsAt(c, i)
  /\ ArgsAt(e, n) = d.args

LEMMA AtAdded ==
  ASSUME NEW ds \in Seq(Directive), NEW d \in Directive, NEW k, NEW L
  PROVE  Adds(Holding(ds), Holding(Append(ds, d)), d, Len(ds) + 1, k, L)
<1> DEFINE more == Append(ds, d)
<1>1. PICK n \in Nat : n = Len(ds)
  BY LenProperties
<1>2. /\ Len(more) = n + 1 /\ more[n + 1] = d
      /\ \A i \in 1..n : more[i] = ds[i]
  BY <1>1, AppendProperties
<1>3. \A i : i \in 1 .. n + 1 <=> i \in 1..n \/ i = n + 1
  BY <1>1
<1>4. n + 1 \notin 1..n /\ n + 1 \in 1 .. n + 1
  BY <1>1
<1> HIDE DEF more
<1>5. /\ At(Holding(more), k, L) =
           {i \in 1 .. n + 1 : more[i].keyword = k /\ more[i].match \in L}
      /\ At(Holding(ds), k, L) = {i \in 1..n : ds[i].keyword = k /\ ds[i].match \in L}
  BY <1>1, <1>2 DEF At, Holding
<1>6. \A i : /\ ArgsAt(Holding(more), i) = more[i].args
             /\ ArgsAt(Holding(ds), i) = ds[i].args
  BY DEF ArgsAt, Holding
<1>7. d.keyword = k /\ d.match \in L
        => At(Holding(more), k, L) = At(Holding(ds), k, L) \cup {n + 1}
  BY <1>2, <1>3, <1>4, <1>5
<1>8. ~(d.keyword = k /\ d.match \in L)
        => At(Holding(more), k, L) = At(Holding(ds), k, L)
  BY <1>2, <1>3, <1>4, <1>5
<1>9. /\ \A i \in At(Holding(ds), k, L) : i \in 1..n /\ more[i].args = ds[i].args
      /\ (n + 1) - 1 = n
  BY <1>2, <1>5
<1>10. Adds(Holding(ds), Holding(more), d, n + 1, k, L)
  BY <1>2, <1>6, <1>7, <1>8, <1>9 DEF Adds
<1> QED
  BY <1>1, <1>10 DEF more

LEMMA GlobalAdded ==
  ASSUME NEW c, NEW e, NEW d, NEW n \in Nat, NEW k, Adds(c, e, d, n, k, {Global})
  PROVE  /\ HasGlobal(e, k) <=> HasGlobal(c, k) \/ (d.keyword = k /\ d.match = Global)
         /\ HasGlobal(c, k) => GlobalArgs(e, k) = GlobalArgs(c, k)
         /\ ~HasGlobal(c, k) /\ HasGlobal(e, k) => GlobalArgs(e, k) = d.args
<1> DEFINE least(T) == CHOOSE i \in T : \A j \in T : i <= j
<1>1. PICK P, R : P = At(c, k, {Global}) /\ R = At(e, k, {Global})
  OBVIOUS
<1>2. /\ d.keyword = k /\ d.match = Global => R = P \cup {n}
      /\ ~(d.keyword = k /\ d.match = Global) => R = P
      /\ \A i \in P : i \in 1 .. n - 1 /\ ArgsAt(e, i) = ArgsAt(c, i)
      /\ ArgsAt(e, n) = d.args
  BY <1>1 DEF Adds
<1>3. P \in SUBSET Nat /\ R \in SUBSET Nat
  BY <1>2
<1>4. /\ HasGlobal(c, k) <=> P # {}
      /\ HasGlobal(e, k) <=> R # {}
      /\ GlobalArgs(c, k) = ArgsAt(c, least(P))
      /\ GlobalArgs(e, k) = ArgsAt(e, least(R))
  BY <1>1 DEF HasGlobal, GlobalArgs
<1>5. ASSUME P # {} PROVE least(R) = least(P) /\ least(P) \in P
  <2>1. least(P) \in P /\ \A j \in P : least(P) <= j
    BY <1>3, <1>5, LeastChosen
  <2>2. R # {}
    BY <1>2, <1>5
  <2>3. least(R) \in R /\ \A j \in R : least(R) <= j
    BY <1>3, <2>2, LeastChosen
  <2>4. PICK x, y : x = least(P) /\ y = least(R)
    OBVIOUS
  <2> HIDE DEF least
  <2>5. x \in P /\ (\A j \in P : x <= j) /\ y \in R /\ (\A j \in R : y <= j)
    BY <2>1, <2>3, <2>4
  <2>6. x \in R /\ x \in 1 .. n - 1 /\ (y \in P \/ y = n)
    BY <1>2, <2>5
  <2> QED
    BY <2>1, <2>4, <2>5, <2>6
<1>6. ASSUME P = {}, R # {} PROVE least(R) = n
  <2>1. R = {n}
    BY <1>2, <1>6
  <2> QED
    BY <2>1
<1> HIDE DEF least
<1> QED
  BY <1>2, <1>4, <1>5, <1>6

LEMMA ConditionalAdded ==
  ASSUME NEW c, NEW e, NEW d, NEW n, NEW k, Adds(c, e, d, n, k, Label \ {Global})
  PROVE  /\ Conditional(c, k) \subseteq Conditional(e, k)
         /\ d.keyword = k /\ d.match \in Label \ {Global}
              => Conditional(e, k) = Conditional(c, k) \cup {d.args}
         /\ ~(d.keyword = k /\ d.match \in Label \ {Global})
              => Conditional(e, k) = Conditional(c, k)
<1>1. PICK P, R : P = At(c, k, Label \ {Global}) /\ R = At(e, k, Label \ {Global})
  OBVIOUS
<1>2. /\ d.keyword = k /\ d.match \in Label \ {Global} => R = P \cup {n}
      /\ ~(d.keyword = k /\ d.match \in Label \ {Global}) => R = P
      /\ \A i \in P : ArgsAt(e, i) = ArgsAt(c, i)
      /\ ArgsAt(e, n) = d.args
  BY <1>1 DEF Adds
<1>3. /\ Conditional(c, k) = {ArgsAt(c, i) : i \in P}
      /\ Conditional(e, k) = {ArgsAt(e, i) : i \in R}
  BY <1>1 DEF Conditional
<1> QED
  BY <1>2, <1>3

(* A directive that both get keeps the one part of the other, and so does one *)
(* inside a Match block that only the configuration gets.                   *)
LEMMA PartBoth ==
  ASSUME NEW y \in Seq(Directive), NEW ds \in Seq(Directive), NEW d \in Directive,
         Part(Holding(y), Holding(ds))
  PROVE  Part(Holding(Append(y, d)), Holding(Append(ds, d)))
<1>1. PICK g, c, h, e : /\ g = Holding(y) /\ h = Holding(Append(y, d))
                        /\ c = Holding(ds) /\ e = Holding(Append(ds, d))
  OBVIOUS
<1>2. PICK m \in Nat, n \in Nat : m = Len(y) + 1 /\ n = Len(ds) + 1
  BY LenProperties
<1>3. \A k, L : Adds(g, h, d, m, k, L) /\ Adds(c, e, d, n, k, L)
  BY <1>1, <1>2, AtAdded
<1>4. ASSUME NEW k
      PROVE  /\ HasGlobal(h, k) <=> HasGlobal(e, k)
             /\ HasGlobal(e, k) => GlobalArgs(h, k) = GlobalArgs(e, k)
             /\ Conditional(h, k) \subseteq Conditional(e, k)
  <2>1. /\ HasGlobal(g, k) <=> HasGlobal(c, k)
        /\ HasGlobal(c, k) => GlobalArgs(g, k) = GlobalArgs(c, k)
        /\ Conditional(g, k) \subseteq Conditional(c, k)
    BY <1>1 DEF Part
  <2>2. /\ HasGlobal(h, k) <=> HasGlobal(g, k) \/ (d.keyword = k /\ d.match = Global)
        /\ HasGlobal(g, k) => GlobalArgs(h, k) = GlobalArgs(g, k)
        /\ ~HasGlobal(g, k) /\ HasGlobal(h, k) => GlobalArgs(h, k) = d.args
    BY <1>3, GlobalAdded
  <2>3. /\ HasGlobal(e, k) <=> HasGlobal(c, k) \/ (d.keyword = k /\ d.match = Global)
        /\ HasGlobal(c, k) => GlobalArgs(e, k) = GlobalArgs(c, k)
        /\ ~HasGlobal(c, k) /\ HasGlobal(e, k) => GlobalArgs(e, k) = d.args
    BY <1>3, GlobalAdded
  <2>4. Conditional(h, k) \subseteq Conditional(e, k)
    <3> DEFINE inside == d.keyword = k /\ d.match \in Label \ {Global}
    <3>1. /\ inside => Conditional(h, k) = Conditional(g, k) \cup {d.args}
          /\ ~inside => Conditional(h, k) = Conditional(g, k)
      BY <1>3, ConditionalAdded
    <3>2. /\ inside => Conditional(e, k) = Conditional(c, k) \cup {d.args}
          /\ ~inside => Conditional(e, k) = Conditional(c, k)
      BY <1>3, ConditionalAdded
    <3> HIDE DEF inside
    <3> QED
      BY <2>1, <3>1, <3>2
  <2> QED
    BY <2>1, <2>2, <2>3, <2>4
<1>5. Part(h, e)
  BY <1>4 DEF Part
<1> QED
  BY <1>1, <1>5

LEMMA PartOne ==
  ASSUME NEW g, NEW ds \in Seq(Directive), NEW d \in Directive,
         Part(g, Holding(ds)), d.match # Global
  PROVE  Part(g, Holding(Append(ds, d)))
<1>1. PICK c, e : c = Holding(ds) /\ e = Holding(Append(ds, d))
  OBVIOUS
<1>2. PICK n \in Nat : n = Len(ds) + 1
  BY LenProperties
<1>3. \A k, L : Adds(c, e, d, n, k, L)
  BY <1>1, <1>2, AtAdded
<1>4. ASSUME NEW k
      PROVE  /\ HasGlobal(g, k) <=> HasGlobal(e, k)
             /\ HasGlobal(e, k) => GlobalArgs(g, k) = GlobalArgs(e, k)
             /\ Conditional(g, k) \subseteq Conditional(e, k)
  <2>1. /\ HasGlobal(g, k) <=> HasGlobal(c, k)
        /\ HasGlobal(c, k) => GlobalArgs(g, k) = GlobalArgs(c, k)
        /\ Conditional(g, k) \subseteq Conditional(c, k)
    BY <1>1 DEF Part
  <2>2. /\ HasGlobal(e, k) <=> HasGlobal(c, k)
        /\ HasGlobal(c, k) => GlobalArgs(e, k) = GlobalArgs(c, k)
    BY <1>3, GlobalAdded
  <2>3. Conditional(c, k) \subseteq Conditional(e, k)
    BY <1>3, ConditionalAdded
  <2> QED
    BY <2>1, <2>2, <2>3
<1>5. Part(g, e)
  BY <1>4 DEF Part
<1> QED
  BY <1>1, <1>5

(* The rules look at nothing else, so that a check that passes for the whole  *)
(* configuration passes for what sshd reads of it.                          *)
LEMMA PartPasses ==
  ASSUME NEW g, NEW c, Part(g, c)
  PROVE  /\ \A k, default, Bad : sshValueCheck(c, k, default, Bad) = "PASS"
                                   => sshValueCheck(g, k, default, Bad) = "PASS"
         /\ checkKbdInteractive(c) = "PASS" => checkKbdInteractive(g) = "PASS"
         /\ checkMaxAuthTries(c) = "PASS" => checkMaxAuthTries(g) = "PASS"
         /\ checkWeakAlgorithms(c) = "PASS" => checkWeakAlgorithms(g) = "PASS"
<1>1. \A k, default : globalSetting(g, k, default) = globalSetting(c, k, default)
  BY DEF Part, globalSetting
<1>2. \A k, Bad : badConditional(g, k, Bad) => badConditional(c, k, Bad)
  BY DEF Part, badConditional
<1>3. \A k, default, Bad : sshValueCheck(c, k, default, Bad) = "PASS"
                             => sshValueCheck(g, k, default, Bad) = "PASS"
  BY <1>1, <1>2 DEF sshValueCheck
<1>4. checkKbdInteractive(c) = "PASS" => checkKbdInteractive(g) = "PASS"
  BY <1>1, <1>3 DEF checkKbdInteractive
<1>5. checkWeakAlgorithms(c) = "PASS" => checkWeakAlgorithms(g) = "PASS"
  <2>1. ASSUME NEW k, WeakIn(g, k) # {}
        PROVE  WeakIn(c, k) # {}
    BY <2>1 DEF Part, WeakIn
  <2> QED
    BY <2>1 DEF checkWeakAlgorithms
<1>6. ASSUME checkMaxAuthTries(c) = "PASS" PROVE checkMaxAuthTries(g) = "PASS"
  <2> DEFINE k == "maxauthtries"
             seen(x) == Conditional(x, k) \cup
                          (IF HasGlobal(x, k) THEN {GlobalArgs(x, k)} ELSE {})
  <2>1. /\ HasGlobal(c, k)
        /\ \A a \in seen(c) : Atoi[a] # NotANumber /\ ~(Atoi[a] > maxAuthTriesLimit)
    BY <1>6 DEF checkMaxAuthTries
  <2>2. HasGlobal(g, k) /\ seen(g) \subseteq seen(c)
    BY <2>1 DEF Part
  <2> QED
    BY <2>1, <2>2 DEF checkMaxAuthTries
<1> QED
  BY <1>3, <1>4, <1>5, <1>6
LEMMA Longer ==
  ASSUME NEW T, NEW s \in Seq(T), NEW k \in 1..Len(s)
  PROVE  /\ SubSeq(s, 1, k - 1) \in Seq(T)
         /\ SubSeq(s, 1, k) = Append(SubSeq(s, 1, k - 1), s[k])
<1>1. /\ Len(s) \in Nat /\ 1 \in 1..Len(s) /\ k \in 1..Len(s) /\ k \in Nat
      /\ k - 1 \in Int /\ \A i \in 1 .. k - 1 : i \in 1..Len(s)
  BY LenProperties
<1>2. \A i \in 1 .. k - 1 : s[i] \in T
  BY <1>1, ElementOfSeq
<1>3. SubSeq(s, 1, k - 1) \in Seq(T) /\ s[k] \in T
  BY <1>1, <1>2, SubSeqProperties, ElementOfSeq
<1>4. SubSeq(s, 1, k) = SubSeq(s, 1, k - 1) \o <<s[k]>>
  BY <1>1, SubSeqRecursiveSecond
<1> QED
  BY <1>3, <1>4, AppendIsConcat

SaidBy(said) == [i \in 1..Len(said) |-> SaysOf(said[i])]

Takes(r, S) ==
  [read \in Seq(Directive) |->
     IF r.within.under \subseteq S THEN Append(read, SaysOf(r)) ELSE read]

Taken(said, S) == InTurn([i \in 1..Len(said) |-> Takes(said[i], S)], <<>>)

LEMMA SaysTyped ==
  ASSUME NEW r \in Reading
  PROVE  SaysOf(r) \in Directive /\ SaysOf(r).match = r.within.label /\ r.within \in Context
BY DEF Reading, SaysOf, Directive, Context

LEMMA TakenIsPart ==
  ASSUME CriteriaAreNotEmpty, NEW said \in Seq(Reading), NEW S \in SUBSET Criteria
  PROVE  /\ SaidBy(said) \in Seq(Directive) /\ Taken(said, S) \in Seq(Directive)
         /\ Part(Holding(Taken(said, S)), Holding(SaidBy(said)))
<1>1. PICK n \in Nat : n = Len(said)
  BY LenProperties
<1>2. \A i \in 1..n : said[i] \in Reading
  BY <1>1, ElementOfSeq
<1>3. PICK ds : ds = SaidBy(said)
  OBVIOUS
<1>4. ds = [i \in 1..n |-> SaysOf(said[i])]
  BY <1>1, <1>3 DEF SaidBy
<1>5. \A i \in 1..n : SaysOf(said[i]) \in Directive
  BY <1>2, SaysTyped
<1>6. ds \in Seq(Directive) /\ Len(ds) = n /\ \A i \in 1..n : ds[i] = SaysOf(said[i])
  BY <1>4, <1>5, IsASeq
<1> DEFINE steps == [i \in 1..n |-> Takes(said[i], S)]
           Q == [k \in 0..n |->
                   {y \in Seq(Directive) : Part(Holding(y), Holding(SubSeq(ds, 1, k)))}]
<1>7. <<>> \in Q[0]
  <2>1. SubSeq(ds, 1, 0) = <<>> /\ <<>> \in Seq(Directive) /\ 0 \in 0..n
    BY SubSeqEmpty, EmptySeq
  <2> QED
    BY <2>1 DEF Part
<1>8. ASSUME NEW k \in 1..n, NEW y \in Q[k - 1]
      PROVE  steps[k][y] \in Q[k]
  <2>1. k - 1 \in 0..n /\ k \in 0..n
    BY <1>1
  <2>2. y \in Seq(Directive) /\ Part(Holding(y), Holding(SubSeq(ds, 1, k - 1)))
    BY <1>8, <2>1
  <2>3. /\ SubSeq(ds, 1, k - 1) \in Seq(Directive)
        /\ SubSeq(ds, 1, k) = Append(SubSeq(ds, 1, k - 1), ds[k])
    BY <1>6, Longer
  <2>4. PICK r, d : r = said[k] /\ d = ds[k]
    OBVIOUS
  <2>5. /\ r \in Reading /\ d = SaysOf(r) /\ d \in Directive
        /\ d.match = r.within.label /\ r.within \in Context
    BY <1>2, <1>6, <2>4, SaysTyped
  <2>6. steps[k][y] = IF r.within.under \subseteq S THEN Append(y, d) ELSE y
    BY <2>2, <2>4, <2>5 DEF Takes
  <2> HIDE DEF steps
  <2>7. CASE r.within.under \subseteq S
    <3>1. Append(y, d) \in Seq(Directive)
      BY <2>2, <2>5, AppendProperties
    <3>2. Part(Holding(Append(y, d)), Holding(SubSeq(ds, 1, k)))
      BY <2>2, <2>3, <2>4, <2>5, PartBoth
    <3> QED
      BY <2>1, <2>6, <2>7, <3>1, <3>2
  <2>8. CASE ~(r.within.under \subseteq S)
    <3>1. d.match # Global
      BY <2>5, <2>8 DEF Context, CriteriaAreNotEmpty
    <3>2. Part(Holding(y), Holding(SubSeq(ds, 1, k)))
      BY <2>2, <2>3, <2>4, <2>5, <3>1, PartOne
    <3> QED
      BY <2>1, <2>2, <2>6, <2>8, <3>2
  <2> QED
    BY <2>7, <2>8
<1>9. Len(steps) = n
  BY <1>1
<1>10. Taken(said, S) = InTurn(steps, <<>>)
  BY <1>1 DEF Taken
<1>11. Q[n] = {y \in Seq(Directive) : Part(Holding(y), Holding(SubSeq(ds, 1, n)))}
  OBVIOUS
<1> HIDE DEF steps, Q
<1>12. InTurn(steps, <<>>) \in Q[n]
  BY <1>7, <1>8, <1>9, InTurnKeeps
<1>13. SubSeq(ds, 1, n) = ds
  BY <1>6, SubSeqFull
<1> QED
  BY <1>3, <1>6, <1>10, <1>11, <1>12, <1>13

(* The rules look at the directives only.                                   *)
LEMMA SameDirectives ==
  ASSUME NEW g, NEW c, NEW e, Part(g, e), c.directives = e.directives
  PROVE  Part(g, c)
<1>1. \A k, L : At(c, k, L) = At(e, k, L)
  BY DEF At
<1>2. \A i : ArgsAt(c, i) = ArgsAt(e, i)
  BY DEF ArgsAt
<1>3. \A k : HasGlobal(c, k) <=> HasGlobal(e, k)
  BY <1>1 DEF HasGlobal
<1>4. \A k : GlobalArgs(c, k) = GlobalArgs(e, k)
  BY <1>1, <1>2 DEF GlobalArgs
<1>5. \A k : Conditional(c, k) = Conditional(e, k)
  BY <1>1, <1>2 DEF Conditional
<1> QED
  BY <1>3, <1>4, <1>5 DEF Part

(* What the files say is typed, for any world.                              *)
LEMMA ExpansionTyped ==
  ASSUME TypeOK, Present(disk) # {}
  PROVE  Expansion(content, disk, disk.there) \in Account
<1>1. content \in [File -> Seq(Line)] /\ disk \in Disk
  BY ContentsAssumption, DisksAssumption DEF TypeOK
<1>2. disk.there \in [Pattern -> Seq(File)]
  BY <1>1 DEF Disk
<1>3. There \in Worlds
  BY <1>1, <1>2 DEF There, World, Worlds
<1>4. Meaning(There)[MaxDepth + 1] \in Meanings
  BY <1>3, MeaningSolves, LimitsAssumption DEF StrictMeanings
<1>5. MainFile(disk) \in File
  <2>1. Present(disk) \in SUBSET Nat
    BY DEF Present
  <2>2. \E i \in Present(disk) : MainFile(disk) = Locations[i]
    BY <2>1, LeastChosen DEF MainFile
  <2> QED
    BY <2>2, LocationsAssumption, ElementOfSeq DEF Present
<1>6. Blank \in Account
  BY BlankTells DEF Tells
<1> QED
  BY <1>4, <1>5, <1>6, OutermostTyped DEF Meanings, Expansion, There

LEMMA ReadingIsPart ==
  ASSUME CriteriaAreNotEmpty, TypeOK, OnItsWay, Probed,
         section.status = "collected", churn = 0, NEW S \in SUBSET Criteria
  PROVE  /\ ReadBySshd(content, disk, disk.there, S) \in Config
         /\ Part(ReadBySshd(content, disk, disk.there, S), section.data)
<1>1. PICK e : e = Expansion(content, disk, disk.there)
  OBVIOUS
<1>2. section = Due(content, disk)
  BY CollectedIsDue
<1>3. Present(disk) # {} /\ section = SectionOf(e)
  <2>1. Unavailable("not_found").status = "not_found"
    BY DEF Unavailable
  <2>2. \A err : Unavailable(classify(err)).status # "collected"
    BY DEF Unavailable, classify
  <2>3. e = Expansion(content, disk, disk.listing)
    BY <1>1, ProbedExpansion
  <2> QED
    BY <1>2, <2>1, <2>2, <2>3 DEF Due, Resolution
<1>4. e.said \in Seq(Reading)
  BY <1>1, <1>3, ExpansionTyped DEF Account
<1>5. /\ SaidBy(e.said) \in Seq(Directive) /\ Taken(e.said, S) \in Seq(Directive)
      /\ Part(Holding(Taken(e.said, S)), Holding(SaidBy(e.said)))
  BY <1>4, TakenIsPart
<1>6. ReadBySshd(content, disk, disk.there, S) = Holding(Taken(e.said, S))
  <2>1. [EmptyConfig EXCEPT !.directives = Taken(e.said, S)] = Holding(Taken(e.said, S))
    BY DEF EmptyConfig, Holding
  <2> QED
    BY <1>1, <2>1 DEF ReadBySshd, Taken, Takes
<1>7. section.data.directives = SaidBy(e.said)
  BY <1>3 DEF SectionOf, SaidBy
<1>8. Part(Holding(Taken(e.said, S)), section.data)
  <2>1. Holding(SaidBy(e.said)).directives = section.data.directives
    BY <1>7 DEF Holding
  <2> QED
    BY <1>5, <2>1, SameDirectives
<1> QED
  BY <1>5, <1>6, <1>8, HoldingTyped

(* A rule on sshd passes only if sshd, which reads the files themselves and   *)
(* takes a block only where all the blocks around its Include match too,     *)
(* serves no connection in the way the rule forbids: for any files, includes *)
(* and Match blocks, on a disk that stays as it was and hides a file only    *)
(* in a directory that include probes.                                      *)
THEOREM PassesHoldForFiles ==
  ASSUME CriteriaAreNotEmpty
  PROVE  Spec => []PassHoldsForFiles
<1>1. TypeOK /\ OnItsWay => PassHoldsForFiles
  <2> SUFFICES ASSUME TypeOK, OnItsWay, Probed, section.status = "collected", churn = 0,
                      NEW r \in sshRules, check(r, section) = "PASS",
                      NEW S \in SUBSET Criteria
               PROVE  ~Harmful(r, ReadBySshd(content, disk, disk.there, S), S)
    BY DEF PassHoldsForFiles
  <2>1. PICK g : g = ReadBySshd(content, disk, disk.there, S)
    OBVIOUS
  <2>2. PICK c : c = section.data
    OBVIOUS
  <2>3. g \in Config /\ Part(g, c)
    BY <2>1, <2>2, ReadingIsPart
  <2>4. S \in SUBSET Blocks
    BY DEF Blocks, Label, CriteriaAreNotEmpty
  <2>5. check(r, section) =
          CASE r = "SSH-004" -> checkKbdInteractive(c)
            [] r = "SSH-007" -> checkMaxAuthTries(c)
            [] r = "SSH-009" -> checkWeakAlgorithms(c)
            [] OTHER -> sshValueCheck(c, Keyed(r), Default(r), isBad(r))
    BY <2>2, Answered DEF TypeOK
  <2>6. CASE r = "SSH-004"
    BY <2>3, <2>4, <2>5, <2>6, PartPasses, KbdPasses, <2>1
  <2>7. CASE r = "SSH-007"
    BY <2>3, <2>4, <2>5, <2>7, PartPasses, TriesPass, <2>1
  <2>8. CASE r = "SSH-009"
    BY <2>3, <2>4, <2>5, <2>8, PartPasses, AlgorithmsPass, <2>1
  <2>9. CASE r \notin {"SSH-004", "SSH-007", "SSH-009"}
    <3>1. sshValueCheck(c, Keyed(r), Default(r), isBad(r)) = "PASS"
      BY <2>5, <2>9
    <3>2. sshValueCheck(g, Keyed(r), Default(r), isBad(r)) = "PASS"
      BY <2>3, <3>1, PartPasses
    <3>3. IF IsSet(g, Keyed(r), S) THEN Lower[Effective(g, Keyed(r), S)] \notin isBad(r)
                                   ELSE Default(r) \notin isBad(r)
      BY <2>3, <2>4, <3>2, ValueCheckPasses
    <3>4. ~Harmful(r, g, S)
      BY <2>9, <3>3 DEF Harmful
    <3> QED
      BY <2>1, <3>4
  <2> QED
    BY <2>6, <2>7, <2>8, <2>9
<1> QED
  BY <1>1, SectionIsTheOneDue, PTL
=============================================================================
