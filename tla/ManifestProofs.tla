--------------------------- MODULE ManifestProofs ---------------------------
(***************************************************************************)
(* Of manifests (ManifestText, ManifestBuild): what holds of every text,   *)
(* and of what a build makes of one.  Texts are gone through from the      *)
(* front, with the lemmas on folds of ArchiveProofs: blocks of actions,    *)
(* renderings and build directives, then documents that are rendered,      *)
(* merged and packaged.                                                    *)
(***************************************************************************)
EXTENDS ArchiveProofs, ManifestBuild

Structures == [ok : BOOLEAN, open : Seq(BOOLEAN)]

(* The last element of a sequence can be taken off or replaced.             *)
LEMMA FrontAppend ==
    ASSUME NEW S, NEW s \in Seq(S), s # <<>>, NEW x \in S
    PROVE  /\ Front(s) \in Seq(S) /\ Len(Front(s)) = Len(s) - 1 /\ Len(s) \in Nat \ {0}
           /\ \A k \in 1..(Len(s) - 1) : Front(s)[k] = s[k]
           /\ Last(s) \in S /\ Last(s) = s[Len(s)]
           /\ Append(Front(s), x) \in Seq(S) /\ Len(Append(Front(s), x)) = Len(s)
           /\ Append(Front(s), x)[Len(s)] = x
           /\ \A k \in 1..(Len(s) - 1) : Append(Front(s), x)[k] = s[k]
<1>1. Len(s) \in Nat \ {0}
    OBVIOUS
<1>2. Front(s) \in Seq(S) /\ Len(Front(s)) = Len(s) - 1 /\ \A k \in 1..(Len(s) - 1) : Front(s)[k] = s[k]
    <2> DEFINE m == Len(s) - 1
    <2>1. m \in Int /\ m >= 0 /\ \A k \in 1..m : s[k] \in S
        BY <1>1
    <2>2. /\ SubSeq(s, 1, m) \in Seq(S) /\ Len(SubSeq(s, 1, m)) = IF 1 <= m THEN m - 1 + 1 ELSE 0
          /\ \A k \in 1..(m - 1 + 1) : SubSeq(s, 1, m)[k] = s[1 + k - 1]
        <3> HIDE DEF m
        <3> QED  BY <2>1, SubSeqProperties
    <2>3. (IF 1 <= m THEN m - 1 + 1 ELSE 0) = m /\ m - 1 + 1 = m /\ \A k \in 1..m : 1 + k - 1 = k
        <3> HIDE DEF m
        <3> QED  BY <2>1
    <2>4. /\ SubSeq(s, 1, Len(s) - 1) \in Seq(S) /\ Len(SubSeq(s, 1, Len(s) - 1)) = Len(s) - 1
          /\ \A k \in 1..(Len(s) - 1) : SubSeq(s, 1, Len(s) - 1)[k] = s[k]
        BY <2>2, <2>3
    <2> QED  BY <2>4 DEF Front
<1>3. Last(s) \in S /\ Last(s) = s[Len(s)]
    BY <1>1 DEF Last
<1>4. /\ Append(Front(s), x) \in Seq(S) /\ Len(Append(Front(s), x)) = Len(s)
      /\ Append(Front(s), x)[Len(s)] = x
      /\ \A k \in 1..(Len(s) - 1) : Append(Front(s), x)[k] = s[k]
    <2> DEFINE u == Front(s)
    <2>1. u \in Seq(S) /\ Len(u) = Len(s) - 1 /\ \A k \in 1..Len(u) : u[k] = s[k]
        BY <1>2
    <2> HIDE DEF u
    <2>2. /\ Append(u, x) \in Seq(S) /\ Len(Append(u, x)) = Len(u) + 1
          /\ Append(u, x)[Len(u) + 1] = x
          /\ \A k \in 1..Len(u) : Append(u, x)[k] = u[k]
        BY <2>1, AppendProperties
    <2>3. Len(u) + 1 = Len(s)
        BY <1>1, <2>1
    <2>4. /\ Append(u, x) \in Seq(S) /\ Len(Append(u, x)) = Len(s)
          /\ Append(u, x)[Len(s)] = x
          /\ \A k \in 1..(Len(s) - 1) : Append(u, x)[k] = s[k]
        BY <1>1, <2>1, <2>2, <2>3
    <2> QED  BY <2>4 DEF u
<1> QED  BY <1>1, <1>2, <1>3, <1>4

LEMMA StructureType ==
    ASSUME NEW r \in Structures, NEW line \in ManifestLine
    PROVE  StructureLine(r, line) \in Structures
<1>1. r.ok \in BOOLEAN /\ r.open \in Seq(BOOLEAN) /\ r = [ok |-> r.ok, open |-> r.open]
    BY DEF Structures
<1>2. CASE line.kind \in {"control", "tail"} /\ r.ok
    <2>1. line.act \in Acts
        BY <1>2 DEF ManifestLine
    <2>2. Append(r.open, FALSE) \in Seq(BOOLEAN)
        BY <1>1, AppendProperties
    <2>3. r.open # <<>> => Front(r.open) \in Seq(BOOLEAN) /\ Append(Front(r.open), TRUE) \in Seq(BOOLEAN)
        BY <1>1, FrontAppend
    <2>4. CASE line.act = "open"
        BY <1>1, <1>2, <2>2, <2>4 DEF Structure, StructureLine, Structures
    <2>5. CASE line.act \in {"else", "chain"}
        BY <1>1, <1>2, <2>3, <2>5 DEF Structure, StructureLine, Structures
    <2>6. CASE line.act = "close"
        BY <1>1, <1>2, <2>3, <2>6 DEF Structure, StructureLine, Structures
    <2> QED  BY <2>1, <2>4, <2>5, <2>6 DEF Acts
<1>3. CASE line.kind \notin {"control", "tail"}
    BY <1>3 DEF StructureLine
<1>4. CASE line.kind \in {"control", "tail"} /\ ~r.ok
    BY <1>4 DEF StructureLine, Structure
<1> QED  BY <1>2, <1>3, <1>4

(* The structure that Analyze has after each line.                          *)
LEMMA StructureSteps ==
    ASSUME NEW text \in Seq(ManifestLine)
    PROVE  \E f \in [0..Len(text) -> Structures] :
             /\ f[0] = [ok |-> TRUE, open |-> <<>>]
             /\ \A i \in 1..Len(text) : f[i] = StructureLine(f[i-1], text[i])
             /\ Balanced(text) <=> f[Len(text)].ok /\ f[Len(text)].open = <<>>
<1> DEFINE n == Len(text)
<1> DEFINE T == Structures
<1> DEFINE base == [ok |-> TRUE, open |-> <<>>]
<1> DEFINE step == [q \in T \X (1..n) |-> StructureLine(q[1], text[q[2]])]
<1> DEFINE Body(h) == [s \in SUBSET DOMAIN text |->
                          IF s = {} THEN base ELSE StructureLine(h[s \ {Max(s)}], text[Max(s)])]
<1> DEFINE g == CHOOSE h : h = Body(h)
<1>1. n \in Nat /\ DOMAIN text = 1..n
    OBVIOUS
<1>2. base \in T /\ step \in [T \X (1..n) -> T]
    <2>1. base \in T
        <3>1. <<>> \in Seq(BOOLEAN)
            OBVIOUS
        <3> QED  BY <3>1 DEF Structures
    <2>2. ASSUME NEW x \in T, NEW i \in 1..n PROVE StructureLine(x, text[i]) \in T
        BY StructureType
    <2>3. \A q \in T \X (1..n) : StructureLine(q[1], text[q[2]]) \in T
        <3> HIDE DEF T, n
        <3> QED  BY <2>2
    <2> QED  BY <2>1, <2>3
<1>3. FoldLeft(StructureLine, base, text) = g[1..n]
    BY <1>1 DEF FoldLeft, MapThenFoldSet
<1>4. \A x \in T, i \in 1..n : step[<<x, i>>] = StructureLine(x, text[i])
    OBVIOUS
<1>5. g = Body(g)
    <2>1. PICK h : IsFold(h, n, T, base, step)
        <3> HIDE DEF T, n, base, step
        <3> QED  BY <1>1, <1>2, FoldExists
    <2>2. ASSUME NEW s \in SUBSET (1..n), s # {}
          PROVE  h[s] = StructureLine(h[s \ {Max(s)}], text[Max(s)])
        <3> HIDE DEF T, n, base, step
        <3>1. Max(s) \in 1..n /\ s \ {Max(s)} \in SUBSET (1..n)
            BY <1>1, <2>2, MaxOfPositions
        <3>2. h[s \ {Max(s)}] \in T /\ h[s] = step[<<h[s \ {Max(s)}], Max(s)>>]
            BY <2>1, <2>2, <3>1 DEF IsFold
        <3> QED  BY <1>4, <3>1, <3>2
    <2>3. h \in [SUBSET (1..n) -> T] /\ h[{}] = base
        BY <2>1 DEF IsFold
    <2>4. h = Body(h)
        <3> HIDE DEF T, n, base
        <3> QED  BY <1>1, <2>2, <2>3
    <2> QED  BY <2>4
<1>6. Folds(g, n, T, base, step)
    <2>1. g[{}] = base
        <3> HIDE DEF g, T, base
        <3> QED  BY <1>5
    <2>2. ASSUME NEW i \in 1..n, g[1..(i-1)] \in T
          PROVE  g[1..i] = step[<<g[1..(i-1)], i>>]
        <3> HIDE DEF g, T, n, base, step
        <3>1. n \in Nat
            BY <1>1
        <3>2. 1..i # {} /\ 1..i \in SUBSET (1..n) /\ (1..i) \ {Max(1..i)} = 1..(i-1) /\ Max(1..i) = i
            BY <3>1, FirstPositions
        <3>3. g[1..i] = StructureLine(g[(1..i) \ {Max(1..i)}], text[Max(1..i)])
            BY <1>1, <1>5, <3>2
        <3>4. g[1..i] = StructureLine(g[1..(i-1)], text[i])
            BY <3>2, <3>3
        <3> QED  BY <1>4, <2>2, <3>4
    <2> QED  BY <2>1, <2>2 DEF Folds
<1>7. PICK f : IsRun(f, n, T, base, step) /\ RunOf(f, g, n)
    <2> HIDE DEF T, n, base, step, g
    <2> QED  BY <1>1, <1>2, <1>6, FoldRuns
<1>8. f[n] = FoldLeft(StructureLine, base, text)
    <2> HIDE DEF g, n
    <2>1. n \in 0..n
        BY <1>1
    <2> QED  BY <1>3, <1>7, <2>1 DEF RunOf
<1>9. f \in [0..n -> T] /\ f[0] = base
    BY <1>7 DEF IsRun
<1>10. ASSUME NEW i \in 1..n PROVE f[i] = StructureLine(f[i-1], text[i])
    <2> HIDE DEF T, n, step, base, g
    <2>1. i - 1 \in 0..n
        BY <1>1
    <2>2. f[i-1] \in T /\ f[i] = step[<<f[i-1], i>>]
        BY <1>7, <2>1 DEF IsRun
    <2> QED  BY <1>4, <2>2
<1> QED  BY <1>8, <1>9, <1>10 DEF Balanced

(* The depth that projectedLineDepth has after each line.                   *)
LEMMA LineDepthSteps ==
    ASSUME NEW text \in Seq(ManifestLine)
    PROVE  \E f \in [0..Len(text) -> Nat] :
             /\ f[0] = 0
             /\ \A i \in 1..Len(text) : f[i] = DepthBelow(f[i-1], text[i])
             /\ FoldLeft(DepthBelow, 0, text) = f[Len(text)]
<1> DEFINE n == Len(text)
<1> DEFINE T == Nat
<1> DEFINE base == 0
<1> DEFINE step == [q \in T \X (1..n) |-> DepthBelow(q[1], text[q[2]])]
<1> DEFINE Body(h) == [s \in SUBSET DOMAIN text |->
                          IF s = {} THEN base ELSE DepthBelow(h[s \ {Max(s)}], text[Max(s)])]
<1> DEFINE g == CHOOSE h : h = Body(h)
<1>1. n \in Nat /\ DOMAIN text = 1..n
    OBVIOUS
<1>2. base \in T /\ step \in [T \X (1..n) -> T]
    <2>1. base \in T
        OBVIOUS
    <2>2. ASSUME NEW x \in T, NEW i \in 1..n PROVE DepthBelow(x, text[i]) \in T
        BY DEF DepthBelow
    <2>3. \A q \in T \X (1..n) : DepthBelow(q[1], text[q[2]]) \in T
        <3> HIDE DEF T, n
        <3> QED  BY <2>2
    <2> QED  BY <2>1, <2>3
<1>3. FoldLeft(DepthBelow, 0, text) = g[1..n]
    BY <1>1 DEF FoldLeft, MapThenFoldSet
<1>4. \A x \in T, i \in 1..n : step[<<x, i>>] = DepthBelow(x, text[i])
    OBVIOUS
<1>5. g = Body(g)
    <2>1. PICK h : IsFold(h, n, T, base, step)
        <3> HIDE DEF T, n, base, step
        <3> QED  BY <1>1, <1>2, FoldExists
    <2>2. ASSUME NEW s \in SUBSET (1..n), s # {}
          PROVE  h[s] = DepthBelow(h[s \ {Max(s)}], text[Max(s)])
        <3> HIDE DEF T, n, base, step
        <3>1. Max(s) \in 1..n /\ s \ {Max(s)} \in SUBSET (1..n)
            BY <1>1, <2>2, MaxOfPositions
        <3>2. h[s \ {Max(s)}] \in T /\ h[s] = step[<<h[s \ {Max(s)}], Max(s)>>]
            BY <2>1, <2>2, <3>1 DEF IsFold
        <3> QED  BY <1>4, <3>1, <3>2
    <2>3. h \in [SUBSET (1..n) -> T] /\ h[{}] = base
        BY <2>1 DEF IsFold
    <2>4. h = Body(h)
        <3> HIDE DEF T, n, base
        <3> QED  BY <1>1, <2>2, <2>3
    <2> QED  BY <2>4
<1>6. Folds(g, n, T, base, step)
    <2>1. g[{}] = base
        <3> HIDE DEF g, T, base
        <3> QED  BY <1>5
    <2>2. ASSUME NEW i \in 1..n, g[1..(i-1)] \in T
          PROVE  g[1..i] = step[<<g[1..(i-1)], i>>]
        <3> HIDE DEF g, T, n, base, step
        <3>1. n \in Nat
            BY <1>1
        <3>2. 1..i # {} /\ 1..i \in SUBSET (1..n) /\ (1..i) \ {Max(1..i)} = 1..(i-1) /\ Max(1..i) = i
            BY <3>1, FirstPositions
        <3>3. g[1..i] = DepthBelow(g[(1..i) \ {Max(1..i)}], text[Max(1..i)])
            BY <1>1, <1>5, <3>2
        <3>4. g[1..i] = DepthBelow(g[1..(i-1)], text[i])
            BY <3>2, <3>3
        <3> QED  BY <1>4, <2>2, <3>4
    <2> QED  BY <2>1, <2>2 DEF Folds
<1>7. PICK f : IsRun(f, n, T, base, step) /\ RunOf(f, g, n)
    <2> HIDE DEF T, n, base, step, g
    <2> QED  BY <1>1, <1>2, <1>6, FoldRuns
<1>8. f[n] = FoldLeft(DepthBelow, 0, text)
    <2> HIDE DEF g, n
    <2>1. n \in 0..n
        BY <1>1
    <2> QED  BY <1>3, <1>7, <2>1 DEF RunOf
<1>9. f \in [0..n -> T] /\ f[0] = base
    BY <1>7 DEF IsRun
<1>10. ASSUME NEW i \in 1..n PROVE f[i] = DepthBelow(f[i-1], text[i])
    <2> HIDE DEF T, n, step, base, g
    <2>1. i - 1 \in 0..n
        BY <1>1
    <2>2. f[i-1] \in T /\ f[i] = step[<<f[i-1], i>>]
        BY <1>7, <2>1 DEF IsRun
    <2> QED  BY <1>4, <2>2
<1> QED  BY <1>8, <1>9, <1>10

Frames == [on : BOOLEAN, taken : BOOLEAN]

(* What Shown folds: the blocks that are open and the lines shown so far.   *)
Views(n) == [stack : Seq(Frames), seen : SUBSET (1..n)]

(* One action: what becomes of the blocks, and of the outermost of them.    *)
LEMMA BranchOpen ==
    ASSUME NEW s \in Seq(Frames), NEW yes
    PROVE  /\ Branch(s, "open", yes) \in Seq(Frames)
           /\ Len(Branch(s, "open", yes)) = Len(s) + 1
           /\ Len(s) > 0 => Branch(s, "open", yes)[1] = s[1]
           /\ Len(s) = 0 => /\ Branch(s, "open", yes)[1].on <=> "X" \in yes
                            /\ Branch(s, "open", yes)[1].taken <=> "X" \in yes
<1> DEFINE b == [on |-> "X" \in yes, taken |-> "X" \in yes]
<1>1. /\ b \in Frames
      /\ b.on <=> "X" \in yes
      /\ b.taken <=> "X" \in yes
    <2>1. b \in Frames
        <3>1. ("X" \in yes) \in BOOLEAN
            OBVIOUS
        <3> QED  BY <3>1 DEF Frames
    <2>2. b.on = ("X" \in yes) /\ b.taken = ("X" \in yes)
        OBVIOUS
    <2> HIDE DEF b
    <2> QED  BY <2>1, <2>2
<1>2. Branch(s, "open", yes) = Append(s, b)
    BY DEF Branch
<1>3. Len(s) \in Nat
    OBVIOUS
<1> HIDE DEF b
<1>4. /\ Append(s, b) \in Seq(Frames) /\ Len(Append(s, b)) = Len(s) + 1
      /\ Len(s) > 0 => Append(s, b)[1] = s[1]
      /\ Len(s) = 0 => Append(s, b)[1] = b
    BY <1>1, <1>3, AppendProperties
<1> QED  BY <1>1, <1>2, <1>4

(* The last element taken off or replaced, whether there is one or not.     *)
LEMMA LastReplaced ==
    ASSUME NEW S, NEW s \in Seq(S), NEW x \in S
    PROVE  /\ Front(s) \in Seq(S) /\ Append(Front(s), x) \in Seq(S)
           /\ Len(s) > 0 => Len(Front(s)) = Len(s) - 1 /\ Len(Append(Front(s), x)) = Len(s)
           /\ Len(s) > 1 => Front(s)[1] = s[1] /\ Append(Front(s), x)[1] = s[1]
           /\ Len(s) = 1 => Append(Front(s), x)[1] = x /\ Last(s) = s[1]
<1>1. CASE s = <<>>
    <2>1. Len(s) - 1 \in Int /\ Len(s) - 1 < 1 /\ 1 \in Int /\ Len(s) = 0
        BY <1>1
    <2>2. Front(s) = <<>>
        BY <2>1, SubSeqEmpty DEF Front
    <2>3. <<>> \in Seq(S)
        OBVIOUS
    <2>4. Append(<<>>, x) \in Seq(S)
        BY <2>3, AppendProperties
    <2> QED  BY <2>1, <2>2, <2>3, <2>4
<1>2. CASE s # <<>>
    <2> DEFINE F == Front(s)
    <2> DEFINE A == Append(Front(s), x)
    <2>1. /\ F \in Seq(S) /\ Len(F) = Len(s) - 1 /\ Len(s) \in Nat \ {0}
          /\ \A k \in 1..(Len(s) - 1) : F[k] = s[k]
          /\ Last(s) = s[Len(s)]
          /\ A \in Seq(S) /\ Len(A) = Len(s) /\ A[Len(s)] = x
          /\ \A k \in 1..(Len(s) - 1) : A[k] = s[k]
        BY <1>2, FrontAppend
    <2> HIDE DEF F, A
    <2>2. Len(s) > 1 => 1 \in 1..(Len(s) - 1)
        BY <2>1
    <2>3. /\ F \in Seq(S) /\ A \in Seq(S)
          /\ Len(s) > 0 => Len(F) = Len(s) - 1 /\ Len(A) = Len(s)
          /\ Len(s) > 1 => F[1] = s[1] /\ A[1] = s[1]
          /\ Len(s) = 1 => A[1] = x /\ Last(s) = s[1]
        BY <2>1, <2>2
    <2> QED  BY <2>3 DEF F, A
<1> QED  BY <1>1, <1>2

LEMMA BranchElse ==
    ASSUME NEW s \in Seq(Frames), NEW yes
    PROVE  /\ Branch(s, "else", yes) \in Seq(Frames)
           /\ Len(s) > 0 => Len(Branch(s, "else", yes)) = Len(s)
           /\ Len(s) > 1 => Branch(s, "else", yes)[1] = s[1]
           /\ Len(s) = 1 => /\ Branch(s, "else", yes)[1].on <=> ~s[1].taken
                            /\ Branch(s, "else", yes)[1].taken
<1> DEFINE e == [on |-> ~Top(s).taken, taken |-> TRUE]
<1>1. e \in Frames /\ (e.on <=> ~Top(s).taken) /\ e.taken
    BY DEF Frames
<1>2. Branch(s, "else", yes) = Append(Front(s), e)
    BY DEF Branch
<1> HIDE DEF e
<1>3. /\ Append(Front(s), e) \in Seq(Frames)
      /\ Len(s) > 0 => Len(Append(Front(s), e)) = Len(s)
      /\ Len(s) > 1 => Append(Front(s), e)[1] = s[1]
      /\ Len(s) = 1 => Append(Front(s), e)[1] = e /\ Last(s) = s[1]
    BY <1>1, LastReplaced
<1> QED  BY <1>1, <1>2, <1>3 DEF Top

LEMMA BranchChain ==
    ASSUME NEW s \in Seq(Frames), NEW yes
    PROVE  /\ Branch(s, "chain", yes) \in Seq(Frames)
           /\ Len(s) > 0 => Len(Branch(s, "chain", yes)) = Len(s)
           /\ Len(s) > 1 => Branch(s, "chain", yes)[1] = s[1]
           /\ Len(s) = 1 => /\ Branch(s, "chain", yes)[1].on <=> ~s[1].taken /\ "Y" \in yes
                            /\ Branch(s, "chain", yes)[1].taken <=> s[1].taken \/ "Y" \in yes
<1> DEFINE c == [on |-> ~Top(s).taken /\ "Y" \in yes, taken |-> Top(s).taken \/ "Y" \in yes]
<1>1. /\ c \in Frames
      /\ c.on <=> ~Top(s).taken /\ "Y" \in yes
      /\ c.taken <=> Top(s).taken \/ "Y" \in yes
    BY DEF Frames
<1>2. Branch(s, "chain", yes) = Append(Front(s), c)
    BY DEF Branch
<1> HIDE DEF c
<1>3. /\ Append(Front(s), c) \in Seq(Frames)
      /\ Len(s) > 0 => Len(Append(Front(s), c)) = Len(s)
      /\ Len(s) > 1 => Append(Front(s), c)[1] = s[1]
      /\ Len(s) = 1 => Append(Front(s), c)[1] = c /\ Last(s) = s[1]
    BY <1>1, LastReplaced
<1> QED  BY <1>1, <1>2, <1>3 DEF Top

LEMMA BranchClose ==
    ASSUME NEW s \in Seq(Frames), NEW yes
    PROVE  /\ Branch(s, "close", yes) \in Seq(Frames)
           /\ Len(s) > 0 => Len(Branch(s, "close", yes)) = Len(s) - 1
           /\ Len(s) > 1 => Branch(s, "close", yes)[1] = s[1]
<1>1. Branch(s, "close", yes) = Front(s)
    BY DEF Branch
<1>2. [on |-> TRUE, taken |-> TRUE] \in Frames
    BY DEF Frames
<1>3. /\ Front(s) \in Seq(Frames)
      /\ Len(s) > 0 => Len(Front(s)) = Len(s) - 1
      /\ Len(s) > 1 => Front(s)[1] = s[1]
    BY <1>2, LastReplaced
<1> QED  BY <1>1, <1>3

LEMMA ShownType ==
    ASSUME NEW text \in Seq(ManifestLine), NEW i \in DOMAIN text, NEW yes, NEW r \in Views(Len(text))
    PROVE  ShownLine(r, text, i, yes) \in Views(Len(text))
<1>1. r.stack \in Seq(Frames) /\ r.seen \in SUBSET (1..Len(text)) /\ i \in 1..Len(text) /\ text[i] \in ManifestLine
    BY DEF Views
<1>2. text[i].kind \in {"control", "tail"} => Branch(r.stack, text[i].act, yes) \in Seq(Frames)
    <2> SUFFICES ASSUME text[i].kind \in {"control", "tail"} PROVE Branch(r.stack, text[i].act, yes) \in Seq(Frames)
        OBVIOUS
    <2>1. text[i].act \in Acts
        BY <1>1 DEF ManifestLine
    <2>2. CASE text[i].act = "open"
        BY <1>1, <2>2, BranchOpen
    <2>3. CASE text[i].act = "else"
        BY <1>1, <2>3, BranchElse
    <2>4. CASE text[i].act = "chain"
        BY <1>1, <2>4, BranchChain
    <2>5. CASE text[i].act = "close"
        BY <1>1, <2>5, BranchClose
    <2> QED  BY <2>1, <2>2, <2>3, <2>4, <2>5 DEF Acts
<1>3. (IF text[i].kind \in {"control", "tail"} THEN Branch(r.stack, text[i].act, yes) ELSE r.stack) \in Seq(Frames)
    BY <1>1, <1>2
<1>4. r.seen \union {i} \in SUBSET (1..Len(text))
    BY <1>1
<1> QED  BY <1>1, <1>3, <1>4 DEF ShownLine, Views

(* A run of Shown over the lines.                                           *)
IsShownRun(f, text, yes) ==
    /\ f \in [0..Len(text) -> Views(Len(text))]
    /\ f[0] = [stack |-> <<>>, seen |-> {}]
    /\ \A i \in 1..Len(text) : f[i] = ShownLine(f[i-1], text, i, yes)
    /\ f[Len(text)].seen = Shown(text, yes)

(* There is one.                                                            *)
LEMMA ShownSteps ==
    ASSUME NEW text \in Seq(ManifestLine), NEW yes
    PROVE  \E f : IsShownRun(f, text, yes)
<1> DEFINE places == [i \in DOMAIN text |-> i]
<1>0. Len(places) = Len(text) /\ DOMAIN places = 1..Len(text) /\ Len(text) \in Nat /\ \A i \in 1..Len(text) : places[i] = i
    OBVIOUS
<1> DEFINE n == Len(places)
<1> DEFINE T == Views(Len(text))
<1> DEFINE base == [stack |-> <<>>, seen |-> {}]
<1> DEFINE step == [q \in T \X (1..n) |-> ShownLine(q[1], text, places[q[2]], yes)]
<1> DEFINE Body(h) == [s \in SUBSET DOMAIN places |->
                          IF s = {} THEN base ELSE ShownLine(h[s \ {Max(s)}], text, places[Max(s)], yes)]
<1> DEFINE g == CHOOSE h : h = Body(h)
<1>1. n \in Nat /\ DOMAIN places = 1..n
    OBVIOUS
<1>2. base \in T /\ step \in [T \X (1..n) -> T]
    <2>1. base \in T
        <3>1. <<>> \in Seq(Frames) /\ {} \in SUBSET (1..Len(text))
            OBVIOUS
        <3> QED  BY <3>1 DEF Views
    <2>2. ASSUME NEW x \in T, NEW i \in 1..n PROVE ShownLine(x, text, places[i], yes) \in T
        <3>1. places[i] \in DOMAIN text
            BY <1>0
        <3> HIDE DEF places
        <3> QED  BY <3>1, ShownType
    <2>3. \A q \in T \X (1..n) : ShownLine(q[1], text, places[q[2]], yes) \in T
        <3> HIDE DEF T, n
        <3> QED  BY <2>2
    <2> QED  BY <2>1, <2>3
<1>3. FoldLeft(LAMBDA r, i : ShownLine(r, text, i, yes), base, places) = g[1..n]
    BY <1>1 DEF FoldLeft, MapThenFoldSet
<1>4. \A x \in T, i \in 1..n : step[<<x, i>>] = ShownLine(x, text, places[i], yes)
    OBVIOUS
<1>5. g = Body(g)
    <2>1. PICK h : IsFold(h, n, T, base, step)
        <3> HIDE DEF T, n, base, step
        <3> QED  BY <1>1, <1>2, FoldExists
    <2>2. ASSUME NEW s \in SUBSET (1..n), s # {}
          PROVE  h[s] = ShownLine(h[s \ {Max(s)}], text, places[Max(s)], yes)
        <3> HIDE DEF T, n, base, step
        <3>1. Max(s) \in 1..n /\ s \ {Max(s)} \in SUBSET (1..n)
            BY <1>1, <2>2, MaxOfPositions
        <3>2. h[s \ {Max(s)}] \in T /\ h[s] = step[<<h[s \ {Max(s)}], Max(s)>>]
            BY <2>1, <2>2, <3>1 DEF IsFold
        <3> QED  BY <1>4, <3>1, <3>2
    <2>3. h \in [SUBSET (1..n) -> T] /\ h[{}] = base
        BY <2>1 DEF IsFold
    <2>4. h = Body(h)
        <3> HIDE DEF T, n, base
        <3> QED  BY <1>1, <2>2, <2>3
    <2> QED  BY <2>4
<1>6. Folds(g, n, T, base, step)
    <2>1. g[{}] = base
        <3> HIDE DEF g, T, base
        <3> QED  BY <1>5
    <2>2. ASSUME NEW i \in 1..n, g[1..(i-1)] \in T
          PROVE  g[1..i] = step[<<g[1..(i-1)], i>>]
        <3> HIDE DEF g, T, n, base, step
        <3>1. n \in Nat
            BY <1>1
        <3>2. 1..i # {} /\ 1..i \in SUBSET (1..n) /\ (1..i) \ {Max(1..i)} = 1..(i-1) /\ Max(1..i) = i
            BY <3>1, FirstPositions
        <3>3. g[1..i] = ShownLine(g[(1..i) \ {Max(1..i)}], text, places[Max(1..i)], yes)
            BY <1>1, <1>5, <3>2
        <3>4. g[1..i] = ShownLine(g[1..(i-1)], text, places[i], yes)
            BY <3>2, <3>3
        <3> QED  BY <1>4, <2>2, <3>4
    <2> QED  BY <2>1, <2>2 DEF Folds
<1>7. PICK f : IsRun(f, n, T, base, step) /\ RunOf(f, g, n)
    <2> HIDE DEF T, n, base, step, g
    <2> QED  BY <1>1, <1>2, <1>6, FoldRuns
<1>8. f[n] = FoldLeft(LAMBDA r, i : ShownLine(r, text, i, yes), base, places)
    <2> HIDE DEF g, n
    <2>1. n \in 0..n
        BY <1>1
    <2> QED  BY <1>3, <1>7, <2>1 DEF RunOf
<1>9. f \in [0..n -> T] /\ f[0] = base
    BY <1>7 DEF IsRun
<1>10. ASSUME NEW i \in 1..n PROVE f[i] = ShownLine(f[i-1], text, places[i], yes)
    <2> HIDE DEF T, n, step, base, g
    <2>1. i - 1 \in 0..n
        BY <1>1
    <2>2. f[i-1] \in T /\ f[i] = step[<<f[i-1], i>>]
        BY <1>7, <2>1 DEF IsRun
    <2> QED  BY <1>4, <2>2
<1>11. \A i \in 1..Len(text) : f[i] = ShownLine(f[i-1], text, i, yes)
    <2> HIDE DEF places
    <2> QED  BY <1>0, <1>10
<1>12. f[Len(text)].seen = Shown(text, yes)
    BY <1>0, <1>8 DEF Shown
<1>13. f \in [0..Len(text) -> Views(Len(text))] /\ f[0] = [stack |-> <<>>, seen |-> {}]
    BY <1>0, <1>9
<1> QED  BY <1>11, <1>12, <1>13 DEF IsShownRun

(* One line of a structure that stays well-formed: the blocks that are open. *)
LEMMA StructureEffect ==
    ASSUME NEW r \in Structures, NEW line \in ManifestLine, StructureLine(r, line).ok
    PROVE  /\ r.ok
           /\ line.kind \notin {"control", "tail"} => Len(StructureLine(r, line).open) = Len(r.open)
           /\ line.kind \in {"control", "tail"} =>
                /\ line.act \in Acts
                /\ line.act = "open" => Len(StructureLine(r, line).open) = Len(r.open) + 1
                /\ line.act \in {"else", "chain"} =>
                     r.open # <<>> /\ Len(StructureLine(r, line).open) = Len(r.open)
                /\ line.act = "close" =>
                     r.open # <<>> /\ Len(StructureLine(r, line).open) = Len(r.open) - 1
<1>1. r.ok \in BOOLEAN /\ r.open \in Seq(BOOLEAN) /\ r = [ok |-> r.ok, open |-> r.open]
    BY DEF Structures
<1>2. line.kind \in {"control", "tail"} => line.act \in Acts
    BY DEF ManifestLine
<1>3. r.ok
    <2> SUFFICES ASSUME ~r.ok PROVE FALSE
        OBVIOUS
    <2>1. StructureLine(r, line) = r
        BY DEF StructureLine, Structure
    <2> QED  BY <2>1
<1>4. CASE line.kind \notin {"control", "tail"}
    BY <1>3, <1>4 DEF StructureLine
<1>5. CASE line.kind \in {"control", "tail"}
    <2>1. StructureLine(r, line) = Structure(r, line.act)
        BY <1>5 DEF StructureLine
    <2>2. CASE line.act = "open"
        <3>1. Structure(r, line.act) = [r EXCEPT !.open = Append(@, FALSE)]
            BY <1>3, <2>2 DEF Structure
        <3>2. Structure(r, line.act).open = Append(r.open, FALSE)
            BY <1>1, <3>1
        <3>3. Len(Append(r.open, FALSE)) = Len(r.open) + 1
            BY <1>1, AppendProperties
        <3> QED  BY <1>2, <1>3, <1>5, <2>1, <2>2, <3>2, <3>3
    <2>3. CASE line.act \in {"else", "chain"}
        <3>1. Structure(r, line.act) =
                IF r.open = <<>> \/ Last(r.open) THEN [r EXCEPT !.ok = FALSE]
                ELSE IF line.act = "else" THEN [r EXCEPT !.open = Append(Front(@), TRUE)] ELSE r
            BY <1>3, <2>3 DEF Structure
        <3>2. ~(r.open = <<>> \/ Last(r.open))
            BY <1>1, <2>1, <3>1
        <3>3. Structure(r, line.act).open = Append(Front(r.open), TRUE) \/ Structure(r, line.act).open = r.open
            BY <1>1, <3>1, <3>2
        <3>4. Len(Append(Front(r.open), TRUE)) = Len(r.open)
            BY <1>1, <3>2, FrontAppend
        <3>5. r.open # <<>> /\ Len(Structure(r, line.act).open) = Len(r.open)
            BY <3>2, <3>3, <3>4
        <3> QED  BY <1>2, <1>3, <1>5, <2>1, <2>3, <3>5
    <2>4. CASE line.act = "close"
        <3>1. Structure(r, line.act) = IF r.open = <<>> THEN [r EXCEPT !.ok = FALSE] ELSE [r EXCEPT !.open = Front(@)]
            BY <1>3, <2>4 DEF Structure
        <3>2. r.open # <<>>
            BY <1>1, <2>1, <3>1
        <3>3. Structure(r, line.act).open = Front(r.open)
            BY <1>1, <3>1, <3>2
        <3>4. Len(Front(r.open)) = Len(r.open) - 1
            BY <1>1, <3>2, FrontAppend
        <3>5. r.open # <<>> /\ Len(Structure(r, line.act).open) = Len(r.open) - 1
            BY <3>2, <3>3, <3>4
        <3> QED  BY <1>2, <1>3, <1>5, <2>1, <2>4, <3>5
    <2> QED  BY <1>2, <1>5, <2>2, <2>3, <2>4 DEF Acts
<1> QED  BY <1>4, <1>5

(* A run of Analyze over the lines of a text that it accepts.               *)
IsStructureRun(f, text) ==
    /\ f \in [0..Len(text) -> Structures]
    /\ f[0] = [ok |-> TRUE, open |-> <<>>]
    /\ \A i \in 1..Len(text) : f[i] = StructureLine(f[i-1], text[i])
    /\ \A i \in 0..Len(text) : f[i].ok

LEMMA BalancedRun ==
    ASSUME NEW text \in Seq(ManifestLine), Balanced(text)
    PROVE  \E f : IsStructureRun(f, text)
<1>1. PICK f \in [0..Len(text) -> Structures] :
        /\ f[0] = [ok |-> TRUE, open |-> <<>>]
        /\ \A i \in 1..Len(text) : f[i] = StructureLine(f[i-1], text[i])
        /\ Balanced(text) <=> f[Len(text)].ok /\ f[Len(text)].open = <<>>
    BY StructureSteps
<1> DEFINE n == Len(text)
<1> DEFINE S == {m \in 0..n : f[n-m].ok}
<1>2. n \in Nat /\ f[n].ok
    BY <1>1
<1>3. 0 \in S
    BY <1>2
<1>4. ASSUME NEW m \in 0..(n-1), m \in S PROVE m + 1 \in S
    <2>1. n - m \in 1..n /\ (n - m) - 1 = n - (m + 1) /\ n - (m + 1) \in 0..n /\ m + 1 \in 0..n
        BY <1>2
    <2>2. f[n-m] = StructureLine(f[n-(m+1)], text[n-m]) /\ f[n-(m+1)] \in Structures /\ text[n-m] \in ManifestLine
        BY <1>1, <2>1
    <2>3. f[n-m].ok
        BY <1>4
    <2>4. f[n-(m+1)].ok
        <3> HIDE DEF n, S
        <3> QED  BY <2>2, <2>3, StructureEffect
    <2> QED  BY <2>1, <2>4
<1>5. 0..n \subseteq S
    <2> HIDE DEF n, S
    <2> QED  BY <1>2, <1>3, <1>4, SetInduction
<1>6. ASSUME NEW i \in 0..n PROVE f[i].ok
    <2>1. n - i \in 0..n /\ n - (n - i) = i
        BY <1>2
    <2>2. n - i \in S
        BY <1>5, <2>1
    <2> QED  BY <2>1, <2>2
<1> QED  BY <1>1, <1>6 DEF IsStructureRun

(* Without actions in comments after fields the depth of a line is the      *)
(* number of blocks open before it.                                         *)
LEMMA DepthIsOpen ==
    ASSUME NEW text \in Seq(ManifestLine), ~TailActions(text), NEW st, IsStructureRun(st, text),
           NEW i \in 1..Len(text)
    PROVE  FoldLeft(DepthBelow, 0, SubSeq(text, 1, i - 1)) = Len(st[i-1].open)
<1> DEFINE m == i - 1
<1> DEFINE before == SubSeq(text, 1, m)
<1>1. m \in Nat /\ m < Len(text) /\ Len(text) \in Nat
    OBVIOUS
<1>2. before \in Seq(ManifestLine) /\ Len(before) = m /\ \A k \in 1..m : before[k] = text[k]
    <2> HIDE DEF m
    <2>1. \A k \in 1..m : text[k] \in ManifestLine
        BY <1>1
    <2>2. /\ before \in Seq(ManifestLine) /\ Len(before) = IF 1 <= m THEN m - 1 + 1 ELSE 0
          /\ \A k \in 1..(m - 1 + 1) : before[k] = text[1 + k - 1]
        BY <1>1, <2>1, SubSeqProperties
    <2>3. (IF 1 <= m THEN m - 1 + 1 ELSE 0) = m /\ m - 1 + 1 = m /\ \A k \in 1..m : 1 + k - 1 = k
        BY <1>1
    <2> QED  BY <2>2, <2>3
<1> HIDE DEF before
<1>3. PICK f \in [0..m -> Nat] :
        /\ f[0] = 0
        /\ \A k \in 1..m : f[k] = DepthBelow(f[k-1], before[k])
        /\ FoldLeft(DepthBelow, 0, before) = f[m]
    <2> HIDE DEF m
    <2> QED  BY <1>2, LineDepthSteps
<1> DEFINE S == {k \in 0..m : f[k] = Len(st[k].open)}
<1>4. 0 \in S
    <2>1. st[0].open = <<>>
        BY DEF IsStructureRun
    <2> QED  BY <1>1, <1>3, <2>1
<1>5. ASSUME NEW k \in 0..(m-1), k \in S PROVE k + 1 \in S
    <2>1. k + 1 \in 1..m /\ (k + 1) - 1 = k /\ k + 1 \in 0..m /\ k + 1 \in 1..Len(text) /\ k \in 0..Len(text)
          /\ k + 1 \in 0..Len(text)
        BY <1>1
    <2> DEFINE line == text[k+1]
    <2>2. line \in ManifestLine /\ line.kind # "tail"
        BY <2>1 DEF TailActions
    <2>3. st[k] \in Structures /\ st[k+1] = StructureLine(st[k], line) /\ st[k+1].ok
        BY <2>1 DEF IsStructureRun
    <2>4. f[k+1] = DepthBelow(f[k], line) /\ f[k] \in Nat /\ f[k] = Len(st[k].open)
        BY <1>2, <1>3, <1>5, <2>1
    <2>5. st[k].open \in Seq(BOOLEAN)
        BY <2>3 DEF Structures
    <2>6. st[k].open # <<>> => Len(st[k].open) > 0
        BY <2>5
    <2> HIDE DEF line, S
    <2>7. /\ line.kind \notin {"control", "tail"} => Len(st[k+1].open) = Len(st[k].open)
          /\ line.kind \in {"control", "tail"} =>
                /\ line.act \in Acts
                /\ line.act = "open" => Len(st[k+1].open) = Len(st[k].open) + 1
                /\ line.act \in {"else", "chain"} => Len(st[k+1].open) = Len(st[k].open)
                /\ line.act = "close" => st[k].open # <<>> /\ Len(st[k+1].open) = Len(st[k].open) - 1
        BY <2>2, <2>3, StructureEffect, SMTT(30)
    <2>8. f[k+1] = Len(st[k+1].open)
        BY <2>2, <2>4, <2>6, <2>7 DEF DepthBelow, Acts
    <2> QED  BY <2>1, <2>8 DEF S
<1>6. 0..m \subseteq S
    <2> HIDE DEF m, S
    <2> QED  BY <1>1, <1>4, <1>5, SetInduction
<1>7. m \in S
    BY <1>1, <1>6
<1> QED  BY <1>3, <1>7 DEF before

(* Shown has as many blocks open as Analyze.                                *)
LEMMA StackIsOpen ==
    ASSUME NEW text \in Seq(ManifestLine), NEW yes, NEW st, IsStructureRun(st, text),
           NEW sh, IsShownRun(sh, text, yes)
    PROVE  \A i \in 0..Len(text) : Len(sh[i].stack) = Len(st[i].open)
<1> DEFINE n == Len(text)
<1> DEFINE S == {k \in 0..n : Len(sh[k].stack) = Len(st[k].open)}
<1>1. n \in Nat
    OBVIOUS
<1>2. 0 \in S
    BY <1>1 DEF IsStructureRun, IsShownRun
<1>3. ASSUME NEW k \in 0..(n-1), k \in S PROVE k + 1 \in S
    <2>1. k + 1 \in 1..n /\ (k + 1) - 1 = k /\ k + 1 \in 0..n /\ k \in 0..n
        BY <1>1
    <2> DEFINE line == text[k+1]
    <2> DEFINE s == sh[k].stack
    <2>2. line \in ManifestLine
        BY <2>1
    <2>3. st[k] \in Structures /\ st[k+1] = StructureLine(st[k], line) /\ st[k+1].ok
        BY <2>1 DEF IsStructureRun
    <2>4. sh[k] \in Views(n) /\ sh[k+1] = ShownLine(sh[k], text, k+1, yes)
        BY <2>1 DEF IsShownRun
    <2>5. /\ s \in Seq(Frames) /\ Len(s) = Len(st[k].open)
          /\ sh[k+1].stack = IF line.kind \in {"control", "tail"} THEN Branch(s, line.act, yes) ELSE s
        BY <1>3, <2>4 DEF Views, ShownLine
    <2>6. st[k].open \in Seq(BOOLEAN)
        BY <2>3 DEF Structures
    <2>7. st[k].open # <<>> => s # <<>>
        BY <2>5, <2>6
    <2> HIDE DEF line, S, s, n
    <2>8. /\ line.kind \notin {"control", "tail"} => Len(st[k+1].open) = Len(st[k].open)
          /\ line.kind \in {"control", "tail"} =>
                /\ line.act \in Acts
                /\ line.act = "open" => Len(st[k+1].open) = Len(st[k].open) + 1
                /\ line.act \in {"else", "chain"} => st[k].open # <<>> /\ Len(st[k+1].open) = Len(st[k].open)
                /\ line.act = "close" => st[k].open # <<>> /\ Len(st[k+1].open) = Len(st[k].open) - 1
        BY <2>2, <2>3, StructureEffect
    <2>9. line.act \in Acts =>
            /\ line.act = "open" => Len(Branch(s, line.act, yes)) = Len(s) + 1
            /\ line.act \in {"else", "chain"} /\ s # <<>> => Len(Branch(s, line.act, yes)) = Len(s)
            /\ line.act = "close" /\ s # <<>> => Len(Branch(s, line.act, yes)) = Len(s) - 1
        <3> SUFFICES ASSUME line.act \in Acts
                     PROVE  /\ line.act = "open" => Len(Branch(s, line.act, yes)) = Len(s) + 1
                            /\ line.act \in {"else", "chain"} /\ s # <<>> => Len(Branch(s, line.act, yes)) = Len(s)
                            /\ line.act = "close" /\ s # <<>> => Len(Branch(s, line.act, yes)) = Len(s) - 1
            OBVIOUS
        <3>1. s # <<>> => Len(s) > 0
            BY <2>5
        <3>2. CASE line.act = "open"
            BY <2>5, <3>2, BranchOpen
        <3>3. CASE line.act = "else"
            BY <2>5, <3>1, <3>3, BranchElse
        <3>4. CASE line.act = "chain"
            BY <2>5, <3>1, <3>4, BranchChain
        <3>5. CASE line.act = "close"
            BY <2>5, <3>1, <3>5, BranchClose
        <3> QED  BY <3>2, <3>3, <3>4, <3>5 DEF Acts
    <2>10. Len(sh[k+1].stack) = Len(st[k+1].open)
        BY <2>5, <2>7, <2>8, <2>9 DEF Acts
    <2> QED  BY <2>1, <2>10 DEF S
<1>4. 0..n \subseteq S
    <2> HIDE DEF n, S
    <2> QED  BY <1>1, <1>2, <1>3, SetInduction
<1> QED  BY <1>4

(* The outermost block is hidden without X, until it is over, or with X,    *)
(* from its first else on.                                                  *)
LEMMA FirstFrame ==
    ASSUME NEW text \in Seq(ManifestLine), NEW st, IsStructureRun(st, text),
           NEW sh, IsShownRun(sh, text, {}), NEW sx, IsShownRun(sx, text, {"X"}),
           NEW i \in 0..Len(text), Len(st[i].open) > 0
    PROVE  ~sh[i].stack[1].on \/ ~sx[i].stack[1].on
<1> DEFINE n == Len(text)
<1> DEFINE Hidden(a, b) == b[1].taken /\ (~a[1].on \/ ~b[1].on)
<1> DEFINE S == {k \in 0..n : Len(st[k].open) > 0 => Hidden(sh[k].stack, sx[k].stack)}
<1>1. n \in Nat
    OBVIOUS
<1>2. 0 \in S
    <2>1. st[0].open = <<>> /\ Len(<<>>) = 0
        BY DEF IsStructureRun
    <2> QED  BY <1>1, <2>1
<1>3. ASSUME NEW k \in 0..(n-1), k \in S PROVE k + 1 \in S
    <2>1. k + 1 \in 1..n /\ (k + 1) - 1 = k /\ k + 1 \in 0..n /\ k \in 0..n
        BY <1>1
    <2> DEFINE line == text[k+1]
    <2> DEFINE act == line.act
    <2> DEFINE a == sh[k].stack
    <2> DEFINE b == sx[k].stack
    <2> DEFINE o == Len(st[k].open)
    <2>2. line \in ManifestLine
        BY <2>1
    <2>3. st[k] \in Structures /\ st[k+1] = StructureLine(st[k], line) /\ st[k+1].ok
        BY <2>1 DEF IsStructureRun
    <2>4. /\ sh[k] \in Views(n) /\ sh[k+1] = ShownLine(sh[k], text, k+1, {})
          /\ sx[k] \in Views(n) /\ sx[k+1] = ShownLine(sx[k], text, k+1, {"X"})
        BY <2>1 DEF IsShownRun
    <2>5. /\ a \in Seq(Frames) /\ b \in Seq(Frames)
          /\ sh[k+1].stack = IF line.kind \in {"control", "tail"} THEN Branch(a, act, {}) ELSE a
          /\ sx[k+1].stack = IF line.kind \in {"control", "tail"} THEN Branch(b, act, {"X"}) ELSE b
        BY <2>4 DEF Views, ShownLine
    <2>6. Len(a) = o /\ Len(b) = o
        <3>1. \A j \in 0..Len(text) : Len(sh[j].stack) = Len(st[j].open)
            BY StackIsOpen
        <3>2. \A j \in 0..Len(text) : Len(sx[j].stack) = Len(st[j].open)
            BY StackIsOpen
        <3> QED  BY <2>1, <3>1, <3>2
    <2>7. st[k].open \in Seq(BOOLEAN) /\ o \in Nat /\ (st[k].open # <<>> => o > 0)
        BY <2>3 DEF Structures
    <2>8. o > 0 => Hidden(a, b)
        BY <1>3
    <2>9.  /\ line.kind \notin {"control", "tail"} => Len(st[k+1].open) = o
           /\ line.kind \in {"control", "tail"} =>
                /\ act \in Acts
                /\ act = "open" => Len(st[k+1].open) = o + 1
                /\ act \in {"else", "chain"} => st[k].open # <<>> /\ Len(st[k+1].open) = o
                /\ act = "close" => st[k].open # <<>> /\ Len(st[k+1].open) = o - 1
        <3> HIDE DEF line, S, a, b, n
        <3> QED  BY <2>2, <2>3, StructureEffect
    <2>10. ASSUME Len(st[k+1].open) > 0 PROVE Hidden(sh[k+1].stack, sx[k+1].stack)
        <3> HIDE DEF S, a, b, n, o, act, line
        <3>1. CASE line.kind \notin {"control", "tail"}
            BY <2>5, <2>8, <2>9, <2>10, <3>1
        <3>2. CASE line.kind \in {"control", "tail"}
            <4>1. sh[k+1].stack = Branch(a, act, {}) /\ sx[k+1].stack = Branch(b, act, {"X"}) /\ act \in Acts
                BY <2>5, <2>9, <3>2
            <4>2. CASE act = "open"
                <5>1. o > 0 => Branch(a, act, {})[1] = a[1] /\ Branch(b, act, {"X"})[1] = b[1]
                    BY <2>5, <2>6, <4>2, BranchOpen
                <5>2. \A yes : o = 0 => (Branch(a, act, yes)[1].on <=> "X" \in yes)
                    BY <2>5, <2>6, <4>2, BranchOpen, ZenonT(60)
                <5>3. \A yes : o = 0 => (Branch(b, act, yes)[1].taken <=> "X" \in yes)
                    BY <2>5, <2>6, <4>2, BranchOpen
                <5>4. o = 0 => ~Branch(a, act, {})[1].on /\ Branch(b, act, {"X"})[1].taken
                    BY <5>2, <5>3
                <5> QED  BY <2>7, <2>8, <4>1, <5>1, <5>4
            <4>3. CASE act = "else"
                <5>1. o > 0
                    BY <2>7, <2>9, <3>2, <4>3
                <5>2. o > 1 => Branch(a, act, {})[1] = a[1] /\ Branch(b, act, {"X"})[1] = b[1]
                    BY <2>5, <2>6, <4>3, BranchElse
                <5>3. o = 1 => Branch(b, act, {"X"})[1].taken /\ (Branch(b, act, {"X"})[1].on <=> ~b[1].taken)
                    BY <2>5, <2>6, <4>3, BranchElse
                <5>4. b[1].taken
                    BY <2>8, <5>1
                <5> QED  BY <2>7, <2>8, <4>1, <5>1, <5>2, <5>3, <5>4
            <4>4. CASE act = "chain"
                <5>1. o > 0
                    BY <2>7, <2>9, <3>2, <4>4
                <5>2. o > 1 => Branch(a, act, {})[1] = a[1] /\ Branch(b, act, {"X"})[1] = b[1]
                    BY <2>5, <2>6, <4>4, BranchChain
                <5>3. o = 1 => (Branch(a, act, {})[1].on <=> ~a[1].taken /\ "Y" \in {})
                    BY <2>5, <2>6, <4>4, BranchChain
                <5>4. o = 1 => (Branch(b, act, {"X"})[1].taken <=> b[1].taken \/ "Y" \in {"X"})
                    BY <2>5, <2>6, <4>4, BranchChain
                <5>5. o = 1 => ~Branch(a, act, {})[1].on /\ Branch(b, act, {"X"})[1].taken
                    BY <2>8, <5>1, <5>3, <5>4
                <5> QED  BY <2>7, <2>8, <4>1, <5>1, <5>2, <5>5
            <4>5. CASE act = "close"
                <5>1. o > 1
                    BY <2>7, <2>9, <2>10, <3>2, <4>5
                <5>2. Branch(a, act, {})[1] = a[1] /\ Branch(b, act, {"X"})[1] = b[1]
                    BY <2>5, <2>6, <4>5, <5>1, BranchClose
                <5> QED  BY <2>7, <2>8, <4>1, <5>1, <5>2
            <4> QED  BY <4>1, <4>2, <4>3, <4>4, <4>5 DEF Acts
        <3> QED  BY <3>1, <3>2
    <2> QED  BY <2>1, <2>10
<1>4. 0..n \subseteq S
    <2> HIDE DEF n, S
    <2> QED  BY <1>1, <1>2, <1>3, SetInduction
<1>5. i \in S
    BY <1>4
<1> QED  BY <1>5

(* What the blocks before a line and the line itself make of it.            *)
Own(stack, line, yes) ==
    (\A k \in DOMAIN stack : stack[k].on) /\ (line.kind = "around" => "X" \in yes) /\ HasKey(line)

LEMMA SeenOnce ==
    ASSUME NEW text \in Seq(ManifestLine), NEW yes, NEW sh, IsShownRun(sh, text, yes), NEW i \in 1..Len(text)
    PROVE  i \in Shown(text, yes) <=> Own(sh[i-1].stack, text[i], yes)
<1> DEFINE n == Len(text)
<1> DEFINE own == Own(sh[i-1].stack, text[i], yes)
<1> DEFINE S == {m \in 0..n : i \in sh[m].seen <=> i <= m /\ own}
<1>1. n \in Nat /\ i \in 1..n
    OBVIOUS
<1>2. 0 \in S
    <2>1. sh[0].seen = {}
        BY DEF IsShownRun
    <2> QED  BY <1>1, <2>1
<1>3. ASSUME NEW m \in 0..(n-1), m \in S PROVE m + 1 \in S
    <2>1. m + 1 \in 1..n /\ (m + 1) - 1 = m /\ m + 1 \in 0..n
        BY <1>1
    <2>2. sh[m+1] = ShownLine(sh[m], text, m+1, yes)
        BY <2>1 DEF IsShownRun
    <2>3. sh[m+1].seen = IF Own(sh[m].stack, text[m+1], yes) THEN sh[m].seen \union {m+1} ELSE sh[m].seen
        BY <2>2 DEF ShownLine, Own
    <2>4. CASE m + 1 = i
        <3>1. m = i - 1 /\ ~(i <= m) /\ i <= m + 1
            BY <1>1, <2>1, <2>4
        <3>2. i \notin sh[m].seen
            BY <1>3, <3>1
        <3>3. own <=> Own(sh[m].stack, text[m+1], yes)
            BY <2>4, <3>1
        <3> HIDE DEF own
        <3>4. i \in sh[m+1].seen <=> own
            BY <2>3, <2>4, <3>2, <3>3
        <3> QED  BY <2>1, <3>1, <3>4
    <2>5. CASE m + 1 # i
        <3>1. i <= m + 1 <=> i <= m
            BY <1>1, <2>1, <2>5
        <3>2. i \in sh[m+1].seen <=> i \in sh[m].seen
            BY <2>3, <2>5
        <3> HIDE DEF own
        <3> QED  BY <1>3, <2>1, <3>1, <3>2
    <2> QED  BY <2>4, <2>5
<1>4. 0..n \subseteq S
    <2> HIDE DEF n, S
    <2> QED  BY <1>1, <1>2, <1>3, SetInduction
<1>5. i \in sh[n].seen <=> own
    <2> HIDE DEF own
    <2>1. n \in S
        BY <1>1, <1>4
    <2> QED  BY <1>1, <2>1
<1> QED  BY <1>5 DEF IsShownRun

(* A field at depth zero is what every rendering shows.                     *)
LEMMA PlainIsShown ==
    ASSUME NEW text \in Seq(ManifestLine), Balanced(text), ~TailActions(text),
           NEW i \in DOMAIN text, HasKey(text[i])
    PROVE  Plain(text, i) <=> \A yes \in SUBSET Conditions : i \in Shown(text, yes)
<1>1. PICK st : IsStructureRun(st, text)
    BY BalancedRun
<1>2. i \in 1..Len(text) /\ i - 1 \in 0..Len(text) /\ Len(text) \in Nat
    OBVIOUS
<1> DEFINE o == Len(st[i-1].open)
<1>3. o \in Nat
    <2>1. st[i-1].open \in Seq(BOOLEAN)
        BY <1>1, <1>2 DEF IsStructureRun, Structures
    <2> QED  BY <2>1
<1>4. LineDepth(text, i) = o + (IF text[i].kind = "around" THEN 1 ELSE 0)
    <2>1. FoldLeft(DepthBelow, 0, SubSeq(text, 1, i - 1)) = o
        BY <1>1, <1>2, DepthIsOpen
    <2> HIDE DEF o
    <2> QED  BY <2>1 DEF LineDepth
<1>5. Plain(text, i) <=> o = 0 /\ text[i].kind # "around"
    <2> HIDE DEF o
    <2> QED  BY <1>3, <1>4 DEF Plain
<1>6. \A yes, sh : IsShownRun(sh, text, yes) =>
        /\ sh[i-1].stack \in Seq(Frames) /\ Len(sh[i-1].stack) = o
        /\ i \in Shown(text, yes) <=> Own(sh[i-1].stack, text[i], yes)
    <2> SUFFICES ASSUME NEW yes, NEW sh, IsShownRun(sh, text, yes)
                 PROVE  /\ sh[i-1].stack \in Seq(Frames) /\ Len(sh[i-1].stack) = o
                        /\ i \in Shown(text, yes) <=> Own(sh[i-1].stack, text[i], yes)
        OBVIOUS
    <2>1. sh[i-1].stack \in Seq(Frames)
        BY <1>2 DEF IsShownRun, Views
    <2>2. Len(sh[i-1].stack) = o
        <3>1. \A j \in 0..Len(text) : Len(sh[j].stack) = Len(st[j].open)
            BY <1>1, StackIsOpen
        <3> QED  BY <1>2, <3>1
    <2>3. i \in Shown(text, yes) <=> Own(sh[i-1].stack, text[i], yes)
        BY <1>2, SeenOnce
    <2> QED  BY <2>1, <2>2, <2>3
<1> HIDE DEF o
<1>7. ASSUME Plain(text, i), NEW yes PROVE i \in Shown(text, yes)
    <2>1. PICK sh : IsShownRun(sh, text, yes)
        BY ShownSteps
    <2>2. sh[i-1].stack \in Seq(Frames) /\ Len(sh[i-1].stack) = 0
        BY <1>5, <1>6, <1>7, <2>1
    <2>3. DOMAIN sh[i-1].stack = {}
        BY <2>2
    <2>4. Own(sh[i-1].stack, text[i], yes)
        BY <1>5, <1>7, <2>3 DEF Own
    <2> QED  BY <1>6, <2>1, <2>4
<1>8. {} \in SUBSET Conditions /\ {"X"} \in SUBSET Conditions
    BY DEF Conditions
<1>9. ASSUME text[i].kind = "around" PROVE i \notin Shown(text, {})
    <2>1. PICK sh : IsShownRun(sh, text, {})
        BY ShownSteps
    <2>2. ~Own(sh[i-1].stack, text[i], {})
        BY <1>9 DEF Own
    <2> QED  BY <1>6, <2>1, <2>2
<1>10. ASSUME o > 0 PROVE i \notin Shown(text, {}) \/ i \notin Shown(text, {"X"})
    <2>1. PICK sh : IsShownRun(sh, text, {})
        BY ShownSteps
    <2>2. PICK sx : IsShownRun(sx, text, {"X"})
        BY ShownSteps
    <2>3. ~sh[i-1].stack[1].on \/ ~sx[i-1].stack[1].on
        BY <1>1, <1>2, <1>10, <2>1, <2>2, FirstFrame DEF o
    <2>4. 1 \in DOMAIN sh[i-1].stack /\ 1 \in DOMAIN sx[i-1].stack
        <3>1. /\ sh[i-1].stack \in Seq(Frames) /\ Len(sh[i-1].stack) = o
              /\ sx[i-1].stack \in Seq(Frames) /\ Len(sx[i-1].stack) = o
            BY <1>6, <2>1, <2>2
        <3> QED  BY <1>3, <1>10, <3>1
    <2>5. ~Own(sh[i-1].stack, text[i], {}) \/ ~Own(sx[i-1].stack, text[i], {"X"})
        BY <2>3, <2>4 DEF Own
    <2> QED  BY <1>6, <2>1, <2>2, <2>5
<1> QED  BY <1>3, <1>5, <1>7, <1>8, <1>9, <1>10

(* What every rendering has at a path, by the lines that give it.           *)
LEMMA CertainScalar ==
    ASSUME NEW text \in Seq(ManifestLine), Balanced(text), ~TailActions(text), NEW path,
           NEW o \in {0} \union DOMAIN text, o # 0 => HasKey(text[o]),
           \A i \in Occurrences(text, path) : i \in DOMAIN text /\ HasKey(text[i]) /\ Owner(text, i) = o
    PROVE  Certain(text, path) = IF o = 0 \/ Plain(text, o) THEN ScalarAt(text, Occurrences(text, path)) ELSE ""
<1> DEFINE found == Occurrences(text, path)
<1> DEFINE once == {i \in found : \A yes \in SUBSET Conditions : {i, Owner(text, i)} \ {0} \subseteq Shown(text, yes)}
<1>1. found \subseteq DOMAIN text /\ DOMAIN text = 1..Len(text) /\ Len(text) \in Nat
    OBVIOUS
<1>2. IsFiniteSet(found)
    <2> HIDE DEF found
    <2>1. IsFiniteSet(1..Len(text))
        BY <1>1, FS_Interval
    <2> QED  BY <1>1, <2>1, FS_Subset
<1>3. \A i \in found : i \in once <=> Plain(text, i) /\ (o = 0 \/ Plain(text, o))
    <2> SUFFICES ASSUME NEW i \in found PROVE i \in once <=> Plain(text, i) /\ (o = 0 \/ Plain(text, o))
        OBVIOUS
    <2>1. i \in DOMAIN text /\ HasKey(text[i]) /\ Owner(text, i) = o /\ i # 0
        BY <1>1
    <2>2. Plain(text, i) <=> \A yes \in SUBSET Conditions : i \in Shown(text, yes)
        BY <2>1, PlainIsShown
    <2>3. o # 0 => (Plain(text, o) <=> \A yes \in SUBSET Conditions : o \in Shown(text, yes))
        BY PlainIsShown
    <2>4. \A yes : {i, Owner(text, i)} \ {0} \subseteq Shown(text, yes)
                  <=> i \in Shown(text, yes) /\ (o = 0 \/ o \in Shown(text, yes))
        BY <2>1
    <2>5. i \in once <=> \A yes \in SUBSET Conditions : i \in Shown(text, yes) /\ (o = 0 \/ o \in Shown(text, yes))
        <3> HIDE DEF found
        <3> QED  BY <2>4
    <2> HIDE DEF found, once
    <2> QED  BY <2>2, <2>3, <2>5
<1>4. Certain(text, path) =
        LET i == CHOOSE j \in once : TRUE
        IN  IF Cardinality(found) = 1 /\ once # {} /\ text[i].val \notin {"map", "expr"} THEN text[i].val ELSE ""
    BY DEF Certain
<1>5. ScalarAt(text, found) =
        LET i == CHOOSE j \in found : TRUE
        IN  IF Cardinality(found) = 1 /\ Plain(text, i) /\ text[i].val \notin {"map", "expr"} THEN text[i].val ELSE ""
    BY DEF ScalarAt
<1>6. once \subseteq found
    OBVIOUS
<1> HIDE DEF found, once
<1>7. CASE Cardinality(found) = 1
    <2>1. PICK i : found = {i}
        BY <1>2, <1>7, FS_Singleton
    <2>2. (CHOOSE j \in found : TRUE) = i
        BY <2>1
    <2>3. CASE i \in once
        <3>1. once = {i}
            BY <1>6, <2>1, <2>3
        <3>2. (CHOOSE j \in once : TRUE) = i
            BY <3>1
        <3>3. Plain(text, i) /\ (o = 0 \/ Plain(text, o))
            BY <1>3, <2>1, <2>3
        <3> QED  BY <1>4, <1>5, <1>7, <2>2, <3>1, <3>2, <3>3 DEF found
    <2>4. CASE i \notin once
        <3>1. once = {}
            BY <1>6, <2>1, <2>4
        <3>2. ~(Plain(text, i) /\ (o = 0 \/ Plain(text, o)))
            BY <1>3, <2>1, <2>4
        <3>3. Certain(text, path) = ""
            BY <1>4, <3>1
        <3> QED  BY <1>5, <2>2, <3>2, <3>3 DEF found
    <2> QED  BY <2>3, <2>4
<1>8. CASE Cardinality(found) # 1
    <2>1. Certain(text, path) = "" /\ ScalarAt(text, found) = ""
        BY <1>4, <1>5, <1>8
    <2> QED  BY <2>1 DEF found
<1> QED  BY <1>7, <1>8

(* The smallest of a set of positions.                                      *)
LEMMA MinOfPositions ==
    ASSUME NEW n \in Nat, NEW s \in SUBSET (1..n), s # {}
    PROVE  Min(s) \in s /\ \A x \in s : Min(s) <= x
<1> DEFINE below == {m \in 0..n : \A k \in s : k > m}
<1>1. CASE \A m \in 0..(n-1) : m \in below => m + 1 \in below
    <2>1. 0 \in below
        OBVIOUS
    <2>2. 0..n \subseteq below
        <3> HIDE DEF below
        <3> QED BY <1>1, <2>1, SetInduction
    <2>3. n \in below
        BY <2>2
    <2>4. PICK k \in s : k \in 1..n
        OBVIOUS
    <2>5. k > n
        BY <2>3
    <2> QED BY <2>4, <2>5
<1>2. CASE \E m \in 0..(n-1) : m \in below /\ m + 1 \notin below
    <2>1. PICK m \in 0..(n-1) : m \in below /\ m + 1 \notin below
        BY <1>2
    <2>2. PICK k \in s : k <= m + 1
        BY <2>1
    <2>3. k = m + 1
        BY <2>1, <2>2
    <2>4. \A x \in s : k <= x
        BY <2>1, <2>3
    <2> QED BY <2>4 DEF Min
<1> QED BY <1>1, <1>2

(* Static values of fields and of the subdomain.                            *)
SubdomainFound(text) ==
    LET blocks == Pairs(text, 0, "application")
        below  == UNION {Below(text, o) : o \in blocks}
    IN  Cardinality(blocks) = 1 /\ below # {} /\ Always(text, Min(below))

LEMMA ScalarsAreCertain ==
    ASSUME NEW text \in Seq(ManifestLine), Balanced(text), ~TailActions(text)
    PROVE  /\ \A n : StaticScalar(text, <<n>>) = Certain(text, <<n>>)
           /\ StaticScalar(text, Subdomain) = IF SubdomainFound(text) THEN Certain(text, Subdomain) ELSE ""
<1>1. ASSUME NEW n PROVE StaticScalar(text, <<n>>) = Certain(text, <<n>>)
    <2>1. Len(<<n>>) = 1 /\ <<n>>[1] = n
        OBVIOUS
    <2>2. Occurrences(text, <<n>>) = Pairs(text, 0, n) /\ StaticScalar(text, <<n>>) = ScalarAt(text, Pairs(text, 0, n))
        BY <2>1 DEF Occurrences, StaticScalar
    <2>3. \A i \in Occurrences(text, <<n>>) : i \in DOMAIN text /\ HasKey(text[i]) /\ Owner(text, i) = 0
        BY <2>2 DEF Pairs
    <2>4. 0 \in {0} \union DOMAIN text
        OBVIOUS
    <2>5. Certain(text, <<n>>) = ScalarAt(text, Occurrences(text, <<n>>))
        BY <2>3, <2>4, CertainScalar
    <2> QED  BY <2>2, <2>5
<1> DEFINE owners == Pairs(text, 0, "application")
<1> DEFINE owner == CHOOSE x \in owners : TRUE
<1>2. Len(Subdomain) = 2 /\ Subdomain[1] = "application" /\ Subdomain[2] = "subdomain" /\ Last(Subdomain) = "subdomain"
    BY DEF Subdomain, Last
<1>3. StaticScalar(text, Subdomain) =
        IF Cardinality(owners) = 1 /\ Plain(text, owner) /\ Below(text, owner) # {} /\ Plain(text, Min(Below(text, owner)))
        THEN ScalarAt(text, Pairs(text, owner, "subdomain")) ELSE ""
    BY <1>2 DEF StaticScalar
<1>4. Occurrences(text, Subdomain) = UNION {Pairs(text, x, "subdomain") : x \in owners}
    BY <1>2 DEF Occurrences
<1>5. owners \subseteq DOMAIN text /\ (\A x \in owners : HasKey(text[x])) /\ DOMAIN text = 1..Len(text) /\ Len(text) \in Nat
    BY DEF Pairs
<1> HIDE DEF owners, owner
<1>6. ASSUME Cardinality(owners) = 1
      PROVE  StaticScalar(text, Subdomain) = IF SubdomainFound(text) THEN Certain(text, Subdomain) ELSE ""
    <2>1. IsFiniteSet(owners)
        <3>1. IsFiniteSet(1..Len(text))
            BY <1>5, FS_Interval
        <3> QED  BY <1>5, <3>1, FS_Subset
    <2>2. PICK o : owners = {o}
        BY <1>6, <2>1, FS_Singleton
    <2>3. owner = o
        BY <2>2 DEF owner
    <2>4. Occurrences(text, Subdomain) = Pairs(text, o, "subdomain")
        BY <1>4, <2>2
    <2>5. \A i \in Occurrences(text, Subdomain) : i \in DOMAIN text /\ HasKey(text[i]) /\ Owner(text, i) = o
        BY <2>4 DEF Pairs
    <2>6. o \in {0} \union DOMAIN text /\ o # 0 /\ HasKey(text[o])
        BY <1>5, <2>2
    <2>7. Certain(text, Subdomain) = IF o = 0 \/ Plain(text, o) THEN ScalarAt(text, Occurrences(text, Subdomain)) ELSE ""
        BY <2>5, <2>6, CertainScalar
    <2> DEFINE below == Below(text, o)
    <2>10. SubdomainFound(text) <=> below # {} /\ Always(text, Min(below))
        <3>1. UNION {Below(text, x) : x \in {o}} = Below(text, o)
            OBVIOUS
        <3> QED  BY <1>6, <2>2, <3>1 DEF SubdomainFound, owners
    <2>11. below # {} => (Always(text, Min(below)) <=> Plain(text, Min(below)))
        <3> SUFFICES ASSUME below # {} PROVE Always(text, Min(below)) <=> Plain(text, Min(below))
            OBVIOUS
        <3>1. below \subseteq 1..Len(text) /\ Len(text) \in Nat
            BY <1>5 DEF Below
        <3>2. Min(below) \in below
            <4> HIDE DEF below
            <4> QED  BY <3>1, MinOfPositions
        <3>3. Min(below) \in DOMAIN text /\ HasKey(text[Min(below)])
            BY <3>2 DEF Below
        <3> HIDE DEF below
        <3> QED  BY <3>3, PlainIsShown DEF Always
    <2> HIDE DEF below
    <2>8. CASE Plain(text, o)
        <3>1. StaticScalar(text, Subdomain) =
                IF SubdomainFound(text) THEN ScalarAt(text, Pairs(text, o, "subdomain")) ELSE ""
            BY <1>3, <1>6, <2>3, <2>8, <2>10, <2>11 DEF below
        <3>2. Certain(text, Subdomain) = ScalarAt(text, Pairs(text, o, "subdomain"))
            BY <2>4, <2>7, <2>8
        <3> QED  BY <3>1, <3>2
    <2>9. CASE ~Plain(text, o)
        <3>1. StaticScalar(text, Subdomain) = ""
            BY <1>3, <1>6, <2>3, <2>9
        <3>2. Certain(text, Subdomain) = ""
            BY <2>6, <2>7, <2>9
        <3> QED  BY <3>1, <3>2
    <2> QED  BY <2>8, <2>9
<1>7. Cardinality(owners) # 1 => StaticScalar(text, Subdomain) = "" /\ ~SubdomainFound(text)
    BY <1>3 DEF SubdomainFound, owners
<1> QED  BY <1>1, <1>6, <1>7

(* What build directives leave of a text are lines.                         *)
BuildFrames == [parent : BOOLEAN, cond : BOOLEAN, else : BOOLEAN, active : BOOLEAN]
BuildRuns == [ok : BOOLEAN, stack : Seq(BuildFrames) \ {<<>>}, out : Seq(ManifestLine)]

LEMMA PreprocessType ==
    ASSUME NEW run \in BuildRuns, NEW line \in ManifestLine, NEW holds, NEW files,
           \A f \in DOMAIN files : files[f] \in Seq(ManifestLine)
    PROVE  PreprocessLine(run, line, holds, files) \in BuildRuns
<1> DEFINE active == Top(run.stack).active
<1> DEFINE top == Top(run.stack)
<1> DEFINE frame == [parent |-> active, cond |-> line.key \in holds, else |-> FALSE,
                     active |-> active /\ line.key \in holds]
<1> DEFINE other == [top EXCEPT !.else = TRUE, !.active = ElseActive(top)]
<1>1. /\ run.ok \in BOOLEAN /\ run.stack \in Seq(BuildFrames) /\ run.stack # <<>> /\ run.out \in Seq(ManifestLine)
      /\ run = [ok |-> run.ok, stack |-> run.stack, out |-> run.out]
    BY DEF BuildRuns
<1>2. top \in BuildFrames
    BY <1>1 DEF Top, Last
<1>3. frame \in BuildFrames
    BY <1>2 DEF BuildFrames
<1>4. other \in BuildFrames
    BY <1>2 DEF BuildFrames, ElseActive
<1>5. /\ Append(run.stack, frame) \in Seq(BuildFrames) \ {<<>>}
      /\ Append(Front(run.stack), other) \in Seq(BuildFrames) \ {<<>>}
      /\ Len(run.stack) # 1 => Front(run.stack) \in Seq(BuildFrames) \ {<<>>}
    <2> DEFINE stack == run.stack
    <2> HIDE DEF frame, other, active, top
    <2>1. stack \in Seq(BuildFrames) /\ stack # <<>>
        BY <1>1
    <2> HIDE DEF stack
    <2>2. /\ Front(stack) \in Seq(BuildFrames) /\ Len(Front(stack)) = Len(stack) - 1 /\ Len(stack) \in Nat \ {0}
          /\ Append(Front(stack), other) \in Seq(BuildFrames) /\ Len(Append(Front(stack), other)) = Len(stack)
        BY <1>4, <2>1, FrontAppend
    <2>3. Append(stack, frame) \in Seq(BuildFrames) /\ Len(Append(stack, frame)) = Len(stack) + 1
        BY <1>3, <2>1, AppendProperties
    <2>4. Len(<<>>) = 0
        OBVIOUS
    <2>5. Append(stack, frame) # <<>> /\ Append(Front(stack), other) # <<>>
          /\ (Len(stack) # 1 => Front(stack) # <<>>)
        BY <2>2, <2>3, <2>4
    <2>6. /\ Append(stack, frame) \in Seq(BuildFrames) \ {<<>>}
          /\ Append(Front(stack), other) \in Seq(BuildFrames) \ {<<>>}
          /\ Len(stack) # 1 => Front(stack) \in Seq(BuildFrames) \ {<<>>}
        BY <2>2, <2>3, <2>5
    <2> QED  BY <2>6 DEF stack
<1>6. Append(run.out, line) \in Seq(ManifestLine)
    BY <1>1, AppendProperties
<1>7. line.key \in DOMAIN files => run.out \o files[line.key] \in Seq(ManifestLine)
    BY <1>1, ConcatProperties
<1>8. /\ [run EXCEPT !.ok = FALSE] \in BuildRuns
      /\ [run EXCEPT !.out = Append(@, line)] \in BuildRuns
      /\ line.key \in DOMAIN files => [run EXCEPT !.out = @ \o files[line.key]] \in BuildRuns
    BY <1>1, <1>6, <1>7 DEF BuildRuns
<1>9. /\ [run EXCEPT !.stack = Append(@, frame)] \in BuildRuns
      /\ [run EXCEPT !.stack = Append(Front(@), other)] \in BuildRuns
      /\ Len(run.stack) # 1 => [run EXCEPT !.stack = Front(@)] \in BuildRuns
    <2> HIDE DEF frame, other
    <2> QED  BY <1>1, <1>5 DEF BuildRuns
<1>10. \/ PreprocessLine(run, line, holds, files) = run
       \/ PreprocessLine(run, line, holds, files) = [run EXCEPT !.ok = FALSE]
       \/ PreprocessLine(run, line, holds, files) = [run EXCEPT !.out = Append(@, line)]
       \/ PreprocessLine(run, line, holds, files) = [run EXCEPT !.stack = Append(@, frame)]
       \/ PreprocessLine(run, line, holds, files) = [run EXCEPT !.stack = Append(Front(@), other)]
       \/ Len(run.stack) # 1 /\ PreprocessLine(run, line, holds, files) = [run EXCEPT !.stack = Front(@)]
       \/ line.key \in DOMAIN files /\ PreprocessLine(run, line, holds, files) = [run EXCEPT !.out = @ \o files[line.key]]
    BY DEF PreprocessLine
<1> HIDE DEF frame, other
<1> QED  BY <1>8, <1>9, <1>10

(* A manifest, and the files it may include, hold manifest lines.           *)
AllTexts(files) == \A f \in DOMAIN files : files[f] \in Seq(ManifestLine)

(* What the loop of build directives has after each line.                   *)
IsBuildRun(run, text, holds, files) ==
    /\ run \in [0..Len(text) -> BuildRuns]
    /\ run[0] = [ok |-> TRUE, stack |-> <<Bottom>>, out |-> <<>>]
    /\ \A i \in 1..Len(text) : run[i] = PreprocessLine(run[i-1], text[i], holds, files)

(* p is the result of the loop.                                             *)
Preprocesses(run, text, holds, files, p) ==
    /\ IsBuildRun(run, text, holds, files)
    /\ p.ok <=> run[Len(text)].ok /\ Len(run[Len(text)].stack) = 1
    /\ p.out = run[Len(text)].out

(* The result of Preprocess is that of its loop after the last line.        *)
LEMMA PreprocessRun ==
    ASSUME NEW text \in Seq(ManifestLine), NEW holds, NEW files, AllTexts(files)
    PROVE  \E run : Preprocesses(run, text, holds, files, Preprocess(text, holds, files))
<1> DEFINE n == Len(text)
<1> DEFINE T == BuildRuns
<1> DEFINE base == [ok |-> TRUE, stack |-> <<Bottom>>, out |-> <<>>]
<1> DEFINE step == [q \in T \X (1..n) |-> PreprocessLine(q[1], text[q[2]], holds, files)]
<1> DEFINE Body(h) == [s \in SUBSET DOMAIN text |->
                          IF s = {} THEN base ELSE PreprocessLine(h[s \ {Max(s)}], text[Max(s)], holds, files)]
<1> DEFINE g == CHOOSE h : h = Body(h)
<1>1. n \in Nat /\ DOMAIN text = 1..n
    OBVIOUS
<1>2. base \in T /\ step \in [T \X (1..n) -> T]
    <2>1. base \in T
        <3>1. Bottom \in BuildFrames
            BY DEF Bottom, BuildFrames
        <3>2. <<Bottom>> \in Seq(BuildFrames) \ {<<>>} /\ <<>> \in Seq(ManifestLine)
            BY <3>1
        <3> QED  BY <3>2 DEF BuildRuns
    <2>2. ASSUME NEW x \in T, NEW i \in 1..n PROVE PreprocessLine(x, text[i], holds, files) \in T
        <3>1. text[i] \in ManifestLine /\ \A f \in DOMAIN files : files[f] \in Seq(ManifestLine)
            BY DEF AllTexts
        <3> QED  BY <3>1, PreprocessType
    <2>3. \A q \in T \X (1..n) : PreprocessLine(q[1], text[q[2]], holds, files) \in T
        <3> HIDE DEF T, n
        <3> QED  BY <2>2
    <2> QED  BY <2>1, <2>3
<1>3. FoldLeft(LAMBDA run, line : PreprocessLine(run, line, holds, files), base, text) = g[1..n]
    BY <1>1 DEF FoldLeft, MapThenFoldSet
<1>4. \A x \in T, i \in 1..n : step[<<x, i>>] = PreprocessLine(x, text[i], holds, files)
    OBVIOUS
<1>5. g = Body(g)
    <2>1. PICK h : IsFold(h, n, T, base, step)
        <3> HIDE DEF T, n, base, step
        <3> QED  BY <1>1, <1>2, FoldExists
    <2>2. ASSUME NEW s \in SUBSET (1..n), s # {}
          PROVE  h[s] = PreprocessLine(h[s \ {Max(s)}], text[Max(s)], holds, files)
        <3> HIDE DEF T, n, base, step
        <3>1. Max(s) \in 1..n /\ s \ {Max(s)} \in SUBSET (1..n)
            BY <1>1, <2>2, MaxOfPositions
        <3>2. h[s \ {Max(s)}] \in T /\ h[s] = step[<<h[s \ {Max(s)}], Max(s)>>]
            BY <2>1, <2>2, <3>1 DEF IsFold
        <3> QED  BY <1>4, <3>1, <3>2
    <2>3. h \in [SUBSET (1..n) -> T] /\ h[{}] = base
        BY <2>1 DEF IsFold
    <2>4. h = Body(h)
        <3> HIDE DEF T, n, base
        <3> QED  BY <1>1, <2>2, <2>3
    <2> QED  BY <2>4
<1>6. Folds(g, n, T, base, step)
    <2>1. g[{}] = base
        <3> HIDE DEF g, T, base
        <3> QED  BY <1>5
    <2>2. ASSUME NEW i \in 1..n, g[1..(i-1)] \in T
          PROVE  g[1..i] = step[<<g[1..(i-1)], i>>]
        <3> HIDE DEF g, T, n, base, step
        <3>1. n \in Nat
            BY <1>1
        <3>2. 1..i # {} /\ 1..i \in SUBSET (1..n) /\ (1..i) \ {Max(1..i)} = 1..(i-1) /\ Max(1..i) = i
            BY <3>1, FirstPositions
        <3>3. g[1..i] = PreprocessLine(g[(1..i) \ {Max(1..i)}], text[Max(1..i)], holds, files)
            BY <1>1, <1>5, <3>2
        <3>4. g[1..i] = PreprocessLine(g[1..(i-1)], text[i], holds, files)
            BY <3>2, <3>3
        <3> QED  BY <1>4, <2>2, <3>4
    <2> QED  BY <2>1, <2>2 DEF Folds
<1>7. PICK f : IsRun(f, n, T, base, step) /\ RunOf(f, g, n)
    <2> HIDE DEF T, n, base, step, g
    <2> QED  BY <1>1, <1>2, <1>6, FoldRuns
<1>8. f[n] = FoldLeft(LAMBDA run, line : PreprocessLine(run, line, holds, files), base, text)
    <2> HIDE DEF g, n
    <2>1. n \in 0..n
        BY <1>1
    <2> QED  BY <1>3, <1>7, <2>1 DEF RunOf
<1>9. IsBuildRun(f, text, holds, files)
    <2>1. f \in [0..n -> T] /\ f[0] = base /\ \A i \in 1..n : f[i] = step[<<f[i-1], i>>]
        BY <1>7 DEF IsRun
    <2>2. ASSUME NEW i \in 1..n PROVE f[i] = PreprocessLine(f[i-1], text[i], holds, files)
        <3>1. i - 1 \in 0..n
            BY <1>1
        <3>2. f[i-1] \in T /\ f[i] = step[<<f[i-1], i>>]
            BY <2>1, <3>1
        <3> HIDE DEF T, n, step
        <3> QED  BY <1>4, <3>2
    <2> QED  BY <2>1, <2>2 DEF IsBuildRun
<1>10. Preprocesses(f, text, holds, files, Preprocess(text, holds, files))
    <2> DEFINE end == FoldLeft(LAMBDA run, line : PreprocessLine(run, line, holds, files), base, text)
    <2>1. Preprocess(text, holds, files) = [ok |-> end.ok /\ Len(end.stack) = 1, out |-> end.out]
        BY DEF Preprocess
    <2>2. end = f[Len(text)]
        BY <1>8
    <2> DEFINE p == Preprocess(text, holds, files)
    <2>3. (p.ok <=> end.ok /\ Len(end.stack) = 1) /\ p.out = end.out
        <3> HIDE DEF end, p
        <3>1. p = [ok |-> end.ok /\ Len(end.stack) = 1, out |-> end.out]
            BY <2>1 DEF p
        <3> QED  BY <3>1
    <2>4. (p.ok <=> f[Len(text)].ok /\ Len(f[Len(text)].stack) = 1) /\ p.out = f[Len(text)].out
        <3> HIDE DEF end, p
        <3> QED  BY <2>2, <2>3
    <2> HIDE DEF p
    <2>5. Preprocesses(f, text, holds, files, p)
        BY <1>9, <2>4 DEF Preprocesses
    <2> QED  BY <2>5 DEF p
<1> QED  BY <1>10

(* What it leaves of a manifest is a manifest.                              *)
LEMMA PreprocessLines ==
    ASSUME NEW text \in Seq(ManifestLine), NEW holds, NEW files, AllTexts(files)
    PROVE  Preprocess(text, holds, files).out \in Seq(ManifestLine)
<1>1. PICK run : Preprocesses(run, text, holds, files, Preprocess(text, holds, files))
    BY PreprocessRun
<1>2. Len(text) \in 0..Len(text) /\ run[Len(text)] \in BuildRuns
    BY <1>1 DEF Preprocesses, IsBuildRun
<1> QED  BY <1>1, <1>2 DEF Preprocesses, BuildRuns

(* The files of a project are texts.                                         *)
LEMMA ProjectTexts ==
    ASSUME NEW p, IsProject(p)
    PROVE  p.text \in Seq(ManifestLine) /\ p.package \in Seq(ManifestLine) /\ AllTexts(p.includes)
BY DEF IsProject, AllTexts

(* The step that reads the configuration ends with the values it should.    *)
BuildIInv ==
    /\ project \in Projects
    /\ phase = "resolved" => Resolves(project) /\ values = StaticValues(project)

(* project.ResolveConfig (build/project_config.go): as long as no action stands *)
(* in a comment after a field, the values that lzc-build.yml may use of a    *)
(* templated manifest without a package.yml are those that every rendering   *)
(* of it has, whatever its text, build conditions and included files.        *)
THEOREM StaticValuesSound == BuildSpec => []StaticSound
<1>1. BuildInit => BuildIInv
    BY DEF BuildInit, BuildIInv
<1>2. BuildIInv /\ [BuildNext]_buildVars => BuildIInv'
    <2> SUFFICES ASSUME BuildIInv, [BuildNext]_buildVars PROVE BuildIInv'
        OBVIOUS
    <2> USE DEF BuildIInv
    <2>1. CASE ResolveConfig
        <3>1. project' = project
            BY <2>1 DEF ResolveConfig
        <3>2. CASE Resolves(project)
            <4>1. values' = StaticValues(project)
                BY <2>1, <3>2 DEF ResolveConfig
            <4>2. Resolves(project)' /\ StaticValues(project)' = StaticValues(project)
                BY <3>1, <3>2 DEF Resolves, StaticValues, Source
            <4> QED  BY <3>1, <4>1, <4>2
        <3>3. CASE ~Resolves(project)
            BY <2>1, <3>1, <3>3 DEF ResolveConfig, End
        <3> QED  BY <3>2, <3>3
    <2>2. CASE ReadManifest
        BY <2>2 DEF ReadManifest
    <2>3. CASE ApplyOverrides
        BY <2>3 DEF ApplyOverrides
    <2>4. CASE CheckMetadata
        BY <2>4 DEF CheckMetadata, End
    <2>5. CASE BuildImages
        BY <2>5 DEF BuildImages, End
    <2>6. CASE Stage
        BY <2>6 DEF Stage
    <2>7. CASE Write
        BY <2>7 DEF Write, End
    <2>8. CASE UNCHANGED buildVars
        BY <2>8 DEF buildVars, Resolves, StaticValues, Source
    <2> QED  BY <2>1, <2>2, <2>3, <2>4, <2>5, <2>6, <2>7, <2>8 DEF BuildNext
<1>3. BuildIInv => StaticSound
    <2> DEFINE text == Source(project).out
    <2> DEFINE path(n) == IF n = "subdomain" THEN Subdomain ELSE <<n>>
    <2> SUFFICES ASSUME BuildIInv, phase = "resolved", project.package = NoFile, Templated(text), ~TailActions(text),
                        NEW n \in Names
                 PROVE  values[n] = IF n = "subdomain" => SubdomainFound(text) THEN Certain(text, path(n)) ELSE ""
        BY DEF StaticSound, SubdomainFound
    <2>1. Resolves(project) /\ values = StaticValues(project) /\ project \in Projects
        BY DEF BuildIInv
    <2>2. Balanced(text)
        BY <2>1 DEF Resolves, Analyzes
    <2>3. text \in Seq(ManifestLine)
        <3>1. project.text \in Seq(ManifestLine) /\ AllTexts(project.includes)
            BY <2>1, ProjectsAssumption, ProjectTexts
        <3> QED  BY <3>1, PreprocessLines DEF Source
    <2>4. ~Has(project.package, n)
        <3>1. DOMAIN NoFile = {}
            BY DEF NoFile
        <3> QED  BY <3>1 DEF Has, Pairs
    <2> HIDE DEF text
    <2>5. values[n] = StaticScalar(text, path(n))
        BY <2>1, <2>4 DEF StaticValues, text
    <2>6. CASE n = "subdomain"
        BY <2>2, <2>3, <2>5, <2>6, ScalarsAreCertain
    <2>7. CASE n # "subdomain"
        BY <2>2, <2>3, <2>5, <2>7, ScalarsAreCertain
    <2> QED  BY <2>6, <2>7
<1> QED  BY <1>1, <1>2, <1>3, PTL DEF BuildSpec

(* Build directives.  The depth after each line: ifs less ends.             *)
IsDepth(d, text) ==
    /\ d \in [0..Len(text) -> Int] /\ d[0] = 0
    /\ \A i \in 1..Len(text) :
          d[i] = IF Directive(text, i, "if") THEN d[i-1] + 1
                 ELSE IF Directive(text, i, "end") THEN d[i-1] - 1 ELSE d[i-1]
    /\ \A i \in 1..Len(text), j \in 1..Len(text) : i <= j => Nesting(text, i, j) = d[j] - d[i-1]

(* The depths themselves.                                                   *)
LEMMA Depths ==
    ASSUME NEW text \in Seq(ManifestLine), NEW d, IsDepth(d, text)
    PROVE  /\ Len(text) \in Nat /\ d[0] = 0
           /\ \A m \in 0..Len(text) : d[m] \in Int
           /\ \A i \in 1..Len(text) :
                 /\ i \in Nat \ {0} /\ i - 1 \in 0..Len(text) /\ i \in 0..Len(text)
                 /\ d[i] \in Int /\ d[i-1] \in Int
                 /\ \A m \in 0..i : d[m] \in Int
                 /\ ~Directive(text, i, "if") /\ ~Directive(text, i, "end") => d[i] = d[i-1]
<1> DEFINE n == Len(text)
<1>1. n \in Nat /\ d \in [0..n -> Int] /\ d[0] = 0
    BY DEF IsDepth
<1>2. ASSUME NEW i \in 1..n
      PROVE  ~Directive(text, i, "if") /\ ~Directive(text, i, "end") => d[i] = d[i-1]
    BY <1>2 DEF IsDepth
<1> HIDE DEF n
<1>3. \A m \in 0..n : d[m] \in Int
    BY <1>1
<1>4. \A i \in 1..n : /\ i \in Nat \ {0} /\ i - 1 \in 0..n /\ i \in 0..n
                      /\ \A m \in 0..i : m \in 0..n
    BY <1>1
<1>5. \A i \in 1..n : d[i] \in Int /\ d[i-1] \in Int /\ \A m \in 0..i : d[m] \in Int
    BY <1>3, <1>4
<1> QED  BY <1>1, <1>2, <1>3, <1>4, <1>5 DEF n

(* How many lines of a text are one kind of directive.                      *)
LEMMA DirectivesAdd ==
    ASSUME NEW text, NEW act
    PROVE  \A i, j \in Nat \ {0} :
             LET c(a, b) == Cardinality({k \in a..b : Directive(text, k, act)})
             IN  /\ c(1, j) \in Nat /\ c(1, 0) = 0
                 /\ c(1, j) = c(1, j - 1) + (IF Directive(text, j, act) THEN 1 ELSE 0)
                 /\ i <= j => c(i, j) = c(1, j) - c(1, i - 1)
<1> DEFINE S(a, b) == {k \in a..b : Directive(text, k, act)}
<1> DEFINE c(a, b) == Cardinality(S(a, b))
<1>1. \A a, b \in Int : IsFiniteSet(S(a, b)) /\ c(a, b) \in Nat
    <2> SUFFICES ASSUME NEW a \in Int, NEW b \in Int PROVE IsFiniteSet(S(a, b)) /\ c(a, b) \in Nat
        OBVIOUS
    <2>1. IsFiniteSet(a..b)
        BY FS_Interval
    <2>2. S(a, b) \in SUBSET (a..b)
        OBVIOUS
    <2>3. IsFiniteSet(S(a, b))
        <3> HIDE DEF S
        <3> QED  BY <2>1, <2>2, FS_Subset
    <2> QED  BY <2>3, FS_CardinalityType
<1>2. c(1, 0) = 0
    <2>1. S(1, 0) = {}
        OBVIOUS
    <2> QED  BY <2>1, FS_EmptySet
<1>3. ASSUME NEW i \in Nat \ {0}, NEW j \in Nat \ {0}, i <= j
      PROVE  c(i, j) = c(1, j) - c(1, i - 1)
    <2>1. S(1, j) = S(1, i - 1) \cup S(i, j) /\ S(1, i - 1) \cap S(i, j) = {}
        BY <1>3
    <2>2. IsFiniteSet(S(1, i - 1)) /\ IsFiniteSet(S(i, j)) /\ c(1, i - 1) \in Nat /\ c(i, j) \in Nat
        <3> HIDE DEF S
        <3> QED  BY <1>1
    <2> HIDE DEF S
    <2>3. Cardinality(S(1, i - 1) \cup S(i, j))
            = Cardinality(S(1, i - 1)) + Cardinality(S(i, j)) - Cardinality(S(1, i - 1) \cap S(i, j))
        BY <2>2, FS_Union
    <2>4. Cardinality(S(1, i - 1) \cap S(i, j)) = 0
        BY <2>1, FS_EmptySet
    <2> QED  BY <2>1, <2>2, <2>3, <2>4
<1>4. ASSUME NEW j \in Nat \ {0}
      PROVE  c(1, j) = c(1, j - 1) + (IF Directive(text, j, act) THEN 1 ELSE 0)
    <2>1. S(j, j) = IF Directive(text, j, act) THEN {j} ELSE {}
        OBVIOUS
    <2>2. c(j, j) = IF Directive(text, j, act) THEN 1 ELSE 0
        <3> HIDE DEF S
        <3> QED  BY <2>1, FS_EmptySet, FS_Singleton
    <2>3. c(j, j) = c(1, j) - c(1, j - 1)
        <3> HIDE DEF c
        <3> QED  BY <1>3
    <2>4. c(1, j) \in Nat /\ c(1, j - 1) \in Nat
        <3> HIDE DEF S
        <3> QED  BY <1>1
    <2> HIDE DEF c
    <2> QED  BY <2>2, <2>3, <2>4
<1>5. \A i, j \in Nat \ {0} :
         /\ c(1, j) \in Nat /\ c(1, 0) = 0
         /\ c(1, j) = c(1, j - 1) + (IF Directive(text, j, act) THEN 1 ELSE 0)
         /\ i <= j => c(i, j) = c(1, j) - c(1, i - 1)
    <2> SUFFICES ASSUME NEW i \in Nat \ {0}, NEW j \in Nat \ {0}
                 PROVE  /\ c(1, j) \in Nat /\ c(1, 0) = 0
                        /\ c(1, j) = c(1, j - 1) + (IF Directive(text, j, act) THEN 1 ELSE 0)
                        /\ i <= j => c(i, j) = c(1, j) - c(1, i - 1)
        OBVIOUS
    <2> HIDE DEF S, c
    <2>1. 1 \in Int /\ j \in Int
        OBVIOUS
    <2>2. c(1, j) \in Nat
        BY <1>1, <2>1
    <2> QED  BY <1>2, <1>3, <1>4, <2>2
<1> QED  BY <1>5

(* Every text has its depth: the ifs so far without the ends so far.        *)
LEMMA DepthExists ==
    ASSUME NEW text \in Seq(ManifestLine)
    PROVE  \E d : IsDepth(d, text)
<1> DEFINE n == Len(text)
<1> DEFINE ifs(a, b) == Cardinality({k \in a..b : Directive(text, k, "if")})
<1> DEFINE ends(a, b) == Cardinality({k \in a..b : Directive(text, k, "end")})
<1> DEFINE d == [i \in 0..n |-> ifs(1, i) - ends(1, i)]
<1>1. n \in Nat
    OBVIOUS
<1>2. \A i, j \in Nat \ {0} :
         /\ ifs(1, j) \in Nat /\ ifs(1, 0) = 0
         /\ ifs(1, j) = ifs(1, j - 1) + (IF Directive(text, j, "if") THEN 1 ELSE 0)
         /\ i <= j => ifs(i, j) = ifs(1, j) - ifs(1, i - 1)
    BY DirectivesAdd
<1>3. \A i, j \in Nat \ {0} :
         /\ ends(1, j) \in Nat /\ ends(1, 0) = 0
         /\ ends(1, j) = ends(1, j - 1) + (IF Directive(text, j, "end") THEN 1 ELSE 0)
         /\ i <= j => ends(i, j) = ends(1, j) - ends(1, i - 1)
    BY DirectivesAdd
<1>4. \A i \in 1..n : ~(Directive(text, i, "if") /\ Directive(text, i, "end"))
    BY DEF Directive
<1>5. \A i, j : Nesting(text, i, j) = ifs(i, j) - ends(i, j)
    BY DEF Nesting
<1> HIDE DEF ifs, ends, n
<1>6. \A i \in 0..n : ifs(1, i) \in Nat /\ ends(1, i) \in Nat
    <2> SUFFICES ASSUME NEW i \in 0..n PROVE ifs(1, i) \in Nat /\ ends(1, i) \in Nat
        OBVIOUS
    <2>1. CASE i = 0
        <3>1. ifs(1, 0) = 0 /\ ends(1, 0) = 0
            <4>1. 1 \in Nat \ {0}
                OBVIOUS
            <4> QED  BY <1>2, <1>3, <4>1
        <3> QED  BY <2>1, <3>1
    <2>2. CASE i # 0
        BY <1>1, <1>2, <1>3, <2>2
    <2> QED  BY <2>1, <2>2
<1>7. d \in [0..n -> Int] /\ d[0] = 0
    <2>1. ifs(1, 0) = 0 /\ ends(1, 0) = 0
        <3>1. 1 \in Nat \ {0}
            OBVIOUS
        <3> QED  BY <1>2, <1>3, <3>1
    <2> QED  BY <1>1, <1>6, <2>1
<1>8. ASSUME NEW i \in 1..n
      PROVE  d[i] = IF Directive(text, i, "if") THEN d[i-1] + 1
                    ELSE IF Directive(text, i, "end") THEN d[i-1] - 1 ELSE d[i-1]
    <2>1. /\ i \in Nat \ {0} /\ i \in 0..n /\ i - 1 \in 0..n
          /\ d[i] = ifs(1, i) - ends(1, i) /\ d[i-1] = ifs(1, i - 1) - ends(1, i - 1)
        BY <1>1
    <2>2. /\ ifs(1, i) = ifs(1, i - 1) + (IF Directive(text, i, "if") THEN 1 ELSE 0)
          /\ ends(1, i) = ends(1, i - 1) + (IF Directive(text, i, "end") THEN 1 ELSE 0)
        BY <1>2, <1>3, <2>1
    <2>3. ifs(1, i - 1) \in Nat /\ ends(1, i - 1) \in Nat
        BY <1>6, <2>1
    <2> HIDE DEF d
    <2> QED  BY <1>4, <2>1, <2>2, <2>3
<1>9. ASSUME NEW i \in 1..n, NEW j \in 1..n, i <= j
      PROVE  Nesting(text, i, j) = d[j] - d[i-1]
    <2>1. /\ i \in Nat \ {0} /\ j \in Nat \ {0} /\ j \in 0..n /\ i - 1 \in 0..n
          /\ d[j] = ifs(1, j) - ends(1, j) /\ d[i-1] = ifs(1, i - 1) - ends(1, i - 1)
        BY <1>1
    <2>2. ifs(i, j) = ifs(1, j) - ifs(1, i - 1) /\ ends(i, j) = ends(1, j) - ends(1, i - 1)
        BY <1>2, <1>3, <1>9, <2>1
    <2>3. ifs(1, i - 1) \in Nat /\ ends(1, i - 1) \in Nat /\ ifs(1, j) \in Nat /\ ends(1, j) \in Nat
        BY <1>6, <2>1
    <2> HIDE DEF d
    <2> QED  BY <1>5, <2>1, <2>2, <2>3
<1>10. IsDepth(d, text)
    <2> HIDE DEF d
    <2> QED  BY <1>7, <1>8, <1>9 DEF IsDepth, n
<1> QED  BY <1>10

(* The block that begins at j is open after line i.                         *)
Opened(d, text, j, i) == Directive(text, j, "if") /\ j \in 1..i /\ \A k \in j..i : d[k] >= d[j]

(* It is open as long as none of its ends has come.                         *)
LEMMA OpenedUntilEnd ==
    ASSUME NEW text \in Seq(ManifestLine), NEW d, IsDepth(d, text),
           NEW i \in 1..Len(text), NEW j \in 1..i, Directive(text, j, "if")
    PROVE  Opened(d, text, j, i) <=> \A k \in EndsOf(text, j) : i < k
<1> DEFINE n == Len(text)
<1>1. n \in Nat /\ j \in 1..n /\ DOMAIN text = 1..n
    OBVIOUS
<1>2. d \in [0..n -> Int] /\ d[j] = d[j-1] + 1 /\ j - 1 \in 0..n /\ d[j-1] \in Int
    <2>1. j - 1 \in 0..n
        BY <1>1
    <2> QED  BY <1>1, <2>1 DEF IsDepth
<1>3. \A k \in EndsOf(text, j) : k \in (j+1)..n /\ Directive(text, k, "end") /\ d[k] = d[j-1]
    <2> SUFFICES ASSUME NEW k \in EndsOf(text, j)
                 PROVE  k \in (j+1)..n /\ Directive(text, k, "end") /\ d[k] = d[j-1]
        OBVIOUS
    <2>1. k \in (j+1)..n /\ Directive(text, k, "end") /\ Nesting(text, j, k) = 0
        BY DEF EndsOf
    <2>2. k \in 1..n /\ j <= k /\ d[k] \in Int
        BY <1>1, <1>2, <2>1
    <2>3. Nesting(text, j, k) = d[k] - d[j-1]
        BY <1>1, <2>2 DEF IsDepth
    <2> HIDE DEF n
    <2> QED  BY <1>2, <2>1, <2>2, <2>3
<1>4. ASSUME Opened(d, text, j, i), NEW k \in EndsOf(text, j) PROVE i < k
    <2>1. k \in (j+1)..n /\ d[k] = d[j-1]
        BY <1>3
    <2>2. k <= i => d[k] >= d[j]
        <3>1. k <= i => k \in j..i
            BY <1>1, <2>1
        <3> QED  BY <1>4, <3>1 DEF Opened
    <2> HIDE DEF n
    <2> QED  BY <1>1, <1>2, <2>1, <2>2
<1>5. ASSUME \A k \in EndsOf(text, j) : i < k PROVE Opened(d, text, j, i)
    <2> DEFINE S == {m \in 0..(i - j) : d[j + m] >= d[j]}
    <2>1. 0 \in S
        BY <1>1, <1>2
    <2>2. ASSUME NEW m \in 0..((i - j) - 1), m \in S PROVE m + 1 \in S
        <3> DEFINE k == j + m + 1
        <3>1. k \in (j+1)..i /\ k \in 1..n /\ k - 1 = j + m /\ k - 1 \in 0..n /\ k \in 0..n /\ j <= k
            BY <1>1
        <3>2. d[k-1] >= d[j] /\ d[k] \in Int /\ d[k-1] \in Int
            <4>1. d[k-1] >= d[j]
                BY <2>2, <3>1
            <4> HIDE DEF k, n
            <4> QED  BY <1>2, <3>1, <4>1
        <3>3. d[k] = IF Directive(text, k, "if") THEN d[k-1] + 1
                     ELSE IF Directive(text, k, "end") THEN d[k-1] - 1 ELSE d[k-1]
            <4> HIDE DEF k
            <4> QED  BY <3>1 DEF IsDepth
        <3>4. Directive(text, k, "end") => d[k] # d[j-1]
            <4> SUFFICES ASSUME Directive(text, k, "end"), d[k] = d[j-1] PROVE FALSE
                OBVIOUS
            <4> HIDE DEF k
            <4>1. Nesting(text, j, k) = d[k] - d[j-1]
                BY <1>1, <3>1 DEF IsDepth
            <4>2. Nesting(text, j, k) = 0
                BY <1>2, <4>1
            <4>3. k \in (j+1)..Len(text)
                BY <3>1
            <4>4. k \in EndsOf(text, j)
                BY <4>2, <4>3 DEF EndsOf
            <4> QED  BY <1>5, <3>1, <4>4
        <3>5. d[k] >= d[j]
            <4> HIDE DEF k, n
            <4> QED  BY <1>2, <3>2, <3>3, <3>4
        <3>6. m + 1 \in 0..(i - j) /\ j + (m + 1) = k
            BY <1>1
        <3> HIDE DEF k
        <3> QED  BY <3>5, <3>6
    <2>3. i - j \in Nat
        BY <1>1
    <2>4. 0..(i - j) \subseteq S
        <3> HIDE DEF S
        <3> QED  BY <2>1, <2>2, <2>3, SetInduction
    <2>5. ASSUME NEW k \in j..i PROVE d[k] >= d[j]
        <3>1. k - j \in 0..(i - j) /\ j + (k - j) = k
            BY <1>1
        <3> QED  BY <2>4, <3>1
    <2> QED  BY <2>5 DEF Opened
<1> QED  BY <1>4, <1>5

(* The elses of a block that was begun at j.                                *)
LEMMA ElseOfOpened ==
    ASSUME NEW text \in Seq(ManifestLine), NEW d, IsDepth(d, text),
           NEW m \in 1..Len(text), NEW j \in 1..Len(text), Directive(text, j, "if")
    PROVE  m \in ElsesOf(text, j) <=>
             j < m /\ Directive(text, m, "else") /\ d[m] = d[j] /\ Opened(d, text, j, m)
<1> DEFINE n == Len(text)
<1>1. n \in Nat
    OBVIOUS
<1>2. d[j] = d[j-1] + 1 /\ d[j] \in Int /\ d[j-1] \in Int /\ d[m] \in Int
    <2>1. j - 1 \in 0..n /\ j \in 0..n /\ m \in 0..n
        BY <1>1
    <2> QED  BY <2>1 DEF IsDepth
<1>3. j < m => Nesting(text, j, m) = d[m] - d[j-1]
    BY DEF IsDepth
<1>4. j < m => (Opened(d, text, j, m) <=> \A k \in EndsOf(text, j) : m < k)
    <2>1. j < m => j \in 1..m
        BY <1>1
    <2> QED  BY <2>1, OpenedUntilEnd
<1>5. m \in (j+1)..Len(text) <=> j < m
    BY <1>1
<1>6. j < m => (Nesting(text, j, m) = 1 <=> d[m] = d[j])
    <2> HIDE DEF n
    <2> QED  BY <1>2, <1>3
<1>7. m \in ElsesOf(text, j) <=>
        /\ m \in (j+1)..Len(text) /\ Directive(text, m, "else") /\ Nesting(text, j, m) = 1
        /\ \A k \in EndsOf(text, j) : m < k
    BY DEF ElsesOf
<1> QED  BY <1>4, <1>5, <1>6, <1>7

(* From one line to the next.                                               *)
LEMMA OpenedStep ==
    ASSUME NEW text \in Seq(ManifestLine), NEW d, IsDepth(d, text), NEW i \in 1..Len(text)
    PROVE  /\ Directive(text, i, "if") => Opened(d, text, i, i)
           /\ \A j : Opened(d, text, j, i) <=>
                \/ j = i /\ Directive(text, i, "if")
                \/ Opened(d, text, j, i - 1) /\ d[j] <= d[i]
           /\ \A j, k : Opened(d, text, j, i) /\ Opened(d, text, k, i) /\ d[j] = d[k] => j = k
           /\ \A j : Opened(d, text, j, i) => d[j] \in Int /\ d[j] <= d[i]
<1>1. i \in Nat \ {0} /\ \A k \in 0..i : d[k] \in Int
    BY Depths
<1>2. Directive(text, i, "if") => Opened(d, text, i, i)
    BY <1>1 DEF Opened
<1>3. \A j : Opened(d, text, j, i) => d[j] \in Int /\ d[j] <= d[i]
    BY <1>1 DEF Opened
<1>4. ASSUME NEW j, Opened(d, text, j, i), j # i PROVE Opened(d, text, j, i - 1) /\ d[j] <= d[i]
    <2>1. j \in 1..(i - 1) /\ \A k \in j..(i-1) : k \in j..i
        BY <1>1, <1>4 DEF Opened
    <2> QED  BY <1>3, <1>4, <2>1 DEF Opened
<1>5. ASSUME NEW j, Opened(d, text, j, i - 1), d[j] <= d[i] PROVE Opened(d, text, j, i)
    <2>1. j \in 1..i /\ \A k \in j..i : k = i \/ k \in j..(i-1)
        BY <1>1, <1>5 DEF Opened
    <2>2. d[i] \in Int /\ d[j] \in Int
        BY <1>1, <2>1
    <2>3. \A k \in j..i : d[k] >= d[j]
        BY <1>5, <2>1, <2>2 DEF Opened
    <2> QED  BY <1>5, <2>1, <2>3 DEF Opened
<1>6. ASSUME NEW j, NEW k, Opened(d, text, j, i), Opened(d, text, k, i), d[j] = d[k], j < k
      PROVE  FALSE
    <2>1. j \in 1..i /\ k \in 1..i /\ k - 1 \in j..i /\ k - 1 \in 0..i /\ k \in 1..Len(text)
        BY <1>1, <1>6 DEF Opened
    <2>2. d[k-1] >= d[j] /\ d[k] = d[k-1] + 1
        BY <1>6, <2>1 DEF Opened, IsDepth
    <2>3. d[k] \in Int /\ d[k-1] \in Int /\ d[j] \in Int
        BY <1>1, <2>1
    <2> QED  BY <1>6, <2>2, <2>3
<1>7. \A j, k : Opened(d, text, j, i) /\ Opened(d, text, k, i) /\ d[j] = d[k] => j = k
    <2> SUFFICES ASSUME NEW j, NEW k, Opened(d, text, j, i), Opened(d, text, k, i), d[j] = d[k], j # k
                 PROVE  FALSE
        OBVIOUS
    <2>1. j < k \/ k < j
        BY <1>1 DEF Opened
    <2> QED  BY <1>6, <2>1
<1>8. ASSUME NEW j
      PROVE  Opened(d, text, j, i) <=>
                \/ j = i /\ Directive(text, i, "if")
                \/ Opened(d, text, j, i - 1) /\ d[j] <= d[i]
    <2>1. Opened(d, text, j, i) => Directive(text, j, "if")
        BY DEF Opened
    <2> QED  BY <1>2, <1>4, <1>5, <2>1
<1> QED  BY <1>2, <1>3, <1>7, <1>8

(* What a file that is included may have, and what a line needs.            *)
Includable(files, name) ==
    name \in DOMAIN files /\ \A l \in ToSet(files[name]) : l.kind # "directive"

(* The loop of processManifestText, by the kind of the line.                *)
LEMMA LineEffect ==
    ASSUME NEW run \in BuildRuns, NEW line \in ManifestLine, NEW holds, NEW files,
           \A f \in DOMAIN files : files[f] \in Seq(ManifestLine)
    PROVE  LET r      == PreprocessLine(run, line, holds, files)
               active == Top(run.stack).active
               top    == Top(run.stack)
               is(a)  == line.kind = "directive" /\ line.act = a
           IN  /\ r \in BuildRuns
               /\ ~run.ok => ~r.ok
               /\ r.ok => r.out = run.out \o (IF ~active THEN <<>>
                                              ELSE IF line.kind # "directive" THEN <<line>>
                                              ELSE IF line.act = "include" THEN files[line.key] ELSE <<>>)
               /\ run.ok /\ line.kind # "directive" => r.ok
               /\ run.ok /\ is("if") => (r.ok <=> IsCondition(line.key))
               /\ run.ok /\ is("else") => (r.ok <=> Len(run.stack) # 1 /\ ~top.else)
               /\ run.ok /\ is("end") => (r.ok <=> Len(run.stack) # 1)
               /\ run.ok /\ is("include") => (r.ok <=> (active => Includable(files, line.key)))
               /\ r.ok /\ line.kind = "directive" => line.act \in {"if", "else", "end", "include"}
               /\ r.ok /\ is("if") =>
                    r.stack = Append(run.stack, [parent |-> active, cond |-> line.key \in holds, else |-> FALSE,
                                                 active |-> active /\ line.key \in holds])
               /\ r.ok /\ is("else") =>
                    r.stack = Append(Front(run.stack), [top EXCEPT !.else = TRUE, !.active = ElseActive(top)])
               /\ r.ok /\ is("end") => r.stack = Front(run.stack)
               /\ r.ok /\ ~is("if") /\ ~is("else") /\ ~is("end") => r.stack = run.stack
<1> DEFINE r == PreprocessLine(run, line, holds, files)
<1> DEFINE active == Top(run.stack).active
<1> DEFINE top == Top(run.stack)
<1> DEFINE is(a) == line.kind = "directive" /\ line.act = a
<1> DEFINE frame == [parent |-> active, cond |-> line.key \in holds, else |-> FALSE,
                     active |-> active /\ line.key \in holds]
<1> DEFINE other == [top EXCEPT !.else = TRUE, !.active = ElseActive(top)]
<1> DEFINE failed == [run EXCEPT !.ok = FALSE]
<1> DEFINE more == IF ~active THEN <<>>
                   ELSE IF line.kind # "directive" THEN <<line>>
                   ELSE IF line.act = "include" THEN files[line.key] ELSE <<>>
<1>1. /\ run.ok \in BOOLEAN /\ run.stack \in Seq(BuildFrames) /\ run.stack # <<>> /\ run.out \in Seq(ManifestLine)
      /\ run = [ok |-> run.ok, stack |-> run.stack, out |-> run.out]
    BY DEF BuildRuns
<1>2. r \in BuildRuns
    BY PreprocessType
<1>3. failed.ok = FALSE
    BY <1>1
<1>4. CASE ~run.ok
    BY <1>1, <1>4 DEF PreprocessLine
<1>5. CASE run.ok /\ line.kind # "directive"
    <2>1. r = IF active THEN [run EXCEPT !.out = Append(@, line)] ELSE run
        BY <1>5 DEF PreprocessLine
    <2>2. r.ok /\ r.stack = run.stack /\ r.out = IF active THEN Append(run.out, line) ELSE run.out
        BY <1>1, <1>5, <2>1
    <2>3. Append(run.out, line) = run.out \o <<line>> /\ run.out \o <<>> = run.out
        BY <1>1
    <2>4. r.out = run.out \o more
        BY <1>5, <2>2, <2>3
    <2> QED  BY <1>2, <1>5, <2>2, <2>4
<1>6. CASE run.ok /\ line.kind = "directive"
    <2>1. run.out \o <<>> = run.out
        BY <1>1
    <2>2. CASE line.act = "if"
        <3>1. r = IF IsCondition(line.key) THEN [run EXCEPT !.stack = Append(@, frame)] ELSE failed
            BY <1>6, <2>2 DEF PreprocessLine
        <3>2. IsCondition(line.key) => r.ok /\ r.out = run.out /\ r.stack = Append(run.stack, frame)
            <4> HIDE DEF frame
            <4> QED  BY <1>1, <1>6, <3>1
        <3>3. ~IsCondition(line.key) => ~r.ok
            BY <1>3, <3>1
        <3> QED  BY <1>2, <1>6, <2>1, <2>2, <3>2, <3>3
    <2>3. CASE line.act = "else"
        <3>1. r = IF Len(run.stack) = 1 \/ top.else THEN failed
                  ELSE [run EXCEPT !.stack = Append(Front(@), other)]
            BY <1>6, <2>3 DEF PreprocessLine
        <3>2. Len(run.stack) # 1 /\ ~top.else =>
                r.ok /\ r.out = run.out /\ r.stack = Append(Front(run.stack), other)
            <4> HIDE DEF other, top
            <4> QED  BY <1>1, <1>6, <3>1
        <3>3. ~(Len(run.stack) # 1 /\ ~top.else) => ~r.ok
            BY <1>3, <3>1
        <3> QED  BY <1>2, <1>6, <2>1, <2>3, <3>2, <3>3
    <2>4. CASE line.act = "end"
        <3>1. r = IF Len(run.stack) = 1 THEN failed ELSE [run EXCEPT !.stack = Front(@)]
            BY <1>6, <2>4 DEF PreprocessLine
        <3>2. Len(run.stack) # 1 => r.ok /\ r.out = run.out /\ r.stack = Front(run.stack)
            BY <1>1, <1>6, <3>1
        <3>3. Len(run.stack) = 1 => ~r.ok
            BY <1>3, <3>1
        <3> QED  BY <1>2, <1>6, <2>1, <2>4, <3>2, <3>3
    <2>5. CASE line.act = "include"
        <3>1. r = IF ~active THEN run
                  ELSE IF Includable(files, line.key)
                  THEN [run EXCEPT !.out = @ \o files[line.key]]
                  ELSE failed
            BY <1>6, <2>5 DEF PreprocessLine, Includable
        <3>2. ~active => r = run
            BY <3>1
        <3>3. active /\ Includable(files, line.key) =>
                r.ok /\ r.stack = run.stack /\ r.out = run.out \o files[line.key]
            BY <1>1, <1>6, <3>1
        <3>4. active /\ ~Includable(files, line.key) => ~r.ok
            BY <1>3, <3>1
        <3> QED  BY <1>2, <1>6, <2>1, <2>5, <3>2, <3>3, <3>4
    <2>6. CASE line.act \notin {"if", "else", "end", "include"}
        <3>1. r = failed
            BY <1>6, <2>6 DEF PreprocessLine
        <3> QED  BY <1>2, <1>3, <1>6, <2>6, <3>1
    <2> QED  BY <2>2, <2>3, <2>4, <2>5, <2>6
<1> QED  BY <1>1, <1>4, <1>5, <1>6

(* The branch of an open block that line i is in, and whether all branches   *)
(* that it is in, of the blocks up to a depth, are taken.                   *)
ElseSeen(text, j, i) == \E m \in ElsesOf(text, j) : m <= i

Taken(text, holds, j, i) == IF ElseSeen(text, j, i) THEN text[j].key \notin holds ELSE text[j].key \in holds

LiveTo(d, text, holds, k, i) == \A j : Opened(d, text, j, i) /\ d[j] <= k => Taken(text, holds, j, i)

(* An else turns the innermost open block, and no other.                    *)
LEMMA ElseSeenStep ==
    ASSUME NEW text \in Seq(ManifestLine), NEW d, IsDepth(d, text), NEW i \in 1..Len(text)
    PROVE  /\ ~ElseSeen(text, i, i)
           /\ \A j : Opened(d, text, j, i) /\ j # i =>
                (ElseSeen(text, j, i) <=>
                   ElseSeen(text, j, i - 1) \/ (Directive(text, i, "else") /\ d[i] = d[j]))
<1>1. ~ElseSeen(text, i, i)
    BY DEF ElseSeen, ElsesOf
<1>2. ASSUME NEW j, Opened(d, text, j, i), j # i
      PROVE  ElseSeen(text, j, i) <=>
               ElseSeen(text, j, i - 1) \/ (Directive(text, i, "else") /\ d[i] = d[j])
    <2>1. j \in 1..Len(text) /\ j < i /\ Directive(text, j, "if")
        BY <1>2 DEF Opened
    <2>2. i \in ElsesOf(text, j) <=> Directive(text, i, "else") /\ d[i] = d[j]
        BY <1>2, <2>1, ElseOfOpened
    <2>3. \A m \in ElsesOf(text, j) : m \in Int
        BY <2>1 DEF ElsesOf
    <2>4. \A m \in ElsesOf(text, j) : m <= i <=> m <= i - 1 \/ m = i
        BY <2>3
    <2> QED  BY <2>2, <2>4 DEF ElseSeen
<1> QED  BY <1>1, <1>2

(* Whether the branches up to a depth are taken changes only at the lines   *)
(* that open or turn a block of that depth.                                 *)
LEMMA LiveStep ==
    ASSUME NEW text \in Seq(ManifestLine), NEW d, IsDepth(d, text), NEW i \in 1..Len(text), NEW holds
    PROVE  /\ \A k \in Int : k <= d[i] /\ (Directive(text, i, "if") \/ Directive(text, i, "else") => k < d[i]) =>
                (LiveTo(d, text, holds, k, i) <=> LiveTo(d, text, holds, k, i - 1))
           /\ Directive(text, i, "if") =>
                (LiveTo(d, text, holds, d[i], i) <=>
                   LiveTo(d, text, holds, d[i] - 1, i - 1) /\ text[i].key \in holds)
           /\ Directive(text, i, "else") => \A j : Opened(d, text, j, i) /\ d[j] = d[i] =>
                (LiveTo(d, text, holds, d[i], i) <=>
                   LiveTo(d, text, holds, d[i] - 1, i - 1) /\ text[j].key \notin holds)
<1>1. d[i] \in Int /\ \A m \in 0..i : d[m] \in Int
    BY Depths
<1>2. ASSUME NEW k \in Int, k <= d[i], Directive(text, i, "if") \/ Directive(text, i, "else") => k < d[i]
      PROVE  LiveTo(d, text, holds, k, i) <=> LiveTo(d, text, holds, k, i - 1)
    <2>1. ASSUME NEW j
          PROVE  /\ Opened(d, text, j, i) /\ d[j] <= k <=> Opened(d, text, j, i - 1) /\ d[j] <= k
                 /\ Opened(d, text, j, i) /\ d[j] <= k =>
                      (Taken(text, holds, j, i) <=> Taken(text, holds, j, i - 1))
        <3>1. j = i /\ Directive(text, i, "if") => ~(d[j] <= k)
            BY <1>1, <1>2
        <3>2. Opened(d, text, j, i - 1) => d[j] \in Int
            BY <1>1 DEF Opened
        <3>3. Opened(d, text, j, i - 1) /\ d[j] <= k => d[j] <= d[i]
            BY <1>1, <1>2, <3>2
        <3>4. Opened(d, text, j, i) /\ d[j] <= k <=> Opened(d, text, j, i - 1) /\ d[j] <= k
            BY <3>1, <3>3, OpenedStep
        <3>5. Opened(d, text, j, i) /\ d[j] <= k =>
                (ElseSeen(text, j, i) <=> ElseSeen(text, j, i - 1))
            <4> SUFFICES ASSUME Opened(d, text, j, i), d[j] <= k
                         PROVE  ElseSeen(text, j, i) <=> ElseSeen(text, j, i - 1)
                OBVIOUS
            <4>1. j # i
                <5>1. Opened(d, text, j, i) => Directive(text, j, "if")
                    BY DEF Opened
                <5> QED  BY <3>1, <5>1
            <4>2. d[j] \in Int
                BY <3>2, <3>4
            <4>3. ~(Directive(text, i, "else") /\ d[i] = d[j])
                BY <1>1, <1>2, <4>2
            <4> QED  BY <4>1, <4>3, ElseSeenStep
        <3> QED  BY <3>4, <3>5 DEF Taken
    <2> QED  BY <2>1 DEF LiveTo
<1>3. ASSUME NEW j, Opened(d, text, j, i), d[j] = d[i], Directive(text, i, "if") \/ Directive(text, i, "else")
      PROVE  LiveTo(d, text, holds, d[i], i) <=>
               LiveTo(d, text, holds, d[i] - 1, i - 1) /\ Taken(text, holds, j, i)
    <2>1. LiveTo(d, text, holds, d[i] - 1, i) <=> LiveTo(d, text, holds, d[i] - 1, i - 1)
        BY <1>1, <1>2
    <2>2. \A l : Opened(d, text, l, i) /\ d[l] <= d[i] <=> (Opened(d, text, l, i) /\ d[l] <= d[i] - 1) \/ l = j
        <3>1. \A l : Opened(d, text, l, i) => d[l] \in Int
            BY OpenedStep
        <3>2. \A l : Opened(d, text, l, i) /\ d[l] = d[i] => l = j
            BY <1>3, OpenedStep
        <3>3. \A l : Opened(d, text, l, i) => (d[l] <= d[i] <=> d[l] <= d[i] - 1 \/ d[l] = d[i])
            BY <1>1, <3>1
        <3> QED  BY <1>1, <1>3, <3>2, <3>3
    <2> QED  BY <2>1, <2>2 DEF LiveTo
<1>4. Directive(text, i, "if") =>
        (LiveTo(d, text, holds, d[i], i) <=>
           LiveTo(d, text, holds, d[i] - 1, i - 1) /\ text[i].key \in holds)
    <2> SUFFICES ASSUME Directive(text, i, "if")
                 PROVE  LiveTo(d, text, holds, d[i], i) <=>
                          LiveTo(d, text, holds, d[i] - 1, i - 1) /\ text[i].key \in holds
        OBVIOUS
    <2>1. Opened(d, text, i, i)
        BY OpenedStep
    <2>2. Taken(text, holds, i, i) <=> text[i].key \in holds
        BY ElseSeenStep DEF Taken
    <2> QED  BY <1>3, <2>1, <2>2
<1>5. ASSUME Directive(text, i, "else"), NEW j, Opened(d, text, j, i), d[j] = d[i]
      PROVE  LiveTo(d, text, holds, d[i], i) <=>
               LiveTo(d, text, holds, d[i] - 1, i - 1) /\ text[j].key \notin holds
    <2>1. j # i
        BY <1>5 DEF Opened, Directive
    <2>2. ElseSeen(text, j, i)
        BY <1>5, <2>1, ElseSeenStep
    <2> QED  BY <1>3, <1>5, <2>2 DEF Taken
<1> QED  BY <1>2, <1>4, <1>5

(* What the frames say of the blocks that are open.                         *)
FrameSays(d, text, holds, stack, k, i) ==
    \E j : /\ Opened(d, text, j, i) /\ d[j] = k
           /\ stack[k+1].parent <=> stack[k].active
           /\ stack[k+1].cond <=> text[j].key \in holds
           /\ stack[k+1].else <=> ElseSeen(text, j, i)

(* The frames after line i are those of the open blocks, and a frame is     *)
(* active when the branches of its block and of those around it are taken.  *)
StackSays(d, text, holds, stack, i) ==
    /\ stack \in Seq(BuildFrames) /\ \A m \in 0..i : d[m] >= 0
    /\ Len(stack) = d[i] + 1
    /\ \A k \in 0..d[i] : stack[k+1].active <=> LiveTo(d, text, holds, k, i)
    /\ \A k \in 1..d[i] : FrameSays(d, text, holds, stack, k, i)

(* Frames below the last line's block say what they said.                   *)
LEMMA FrameStays ==
    ASSUME NEW text \in Seq(ManifestLine), NEW d, IsDepth(d, text), NEW i \in 1..Len(text), NEW holds,
           NEW s, NEW r, NEW k \in 1..d[i], FrameSays(d, text, holds, s, k, i - 1),
           Directive(text, i, "if") \/ Directive(text, i, "else") => k < d[i],
           r[k] = s[k] \/ r[k].active = s[k].active, r[k+1] = s[k+1]
    PROVE  FrameSays(d, text, holds, r, k, i)
<1>1. d[i] \in Int
    BY Depths
<1>2. PICK j : /\ Opened(d, text, j, i - 1) /\ d[j] = k
               /\ s[k+1].parent <=> s[k].active
               /\ s[k+1].cond <=> text[j].key \in holds
               /\ s[k+1].else <=> ElseSeen(text, j, i - 1)
    BY DEF FrameSays
<1>3. Opened(d, text, j, i)
    <2>1. d[j] <= d[i]
        BY <1>1, <1>2
    <2> QED  BY <1>2, <2>1, OpenedStep
<1>4. ElseSeen(text, j, i) <=> ElseSeen(text, j, i - 1)
    <2>1. j # i
        BY <1>2 DEF Opened
    <2>2. ~(Directive(text, i, "else") /\ d[i] = d[j])
        BY <1>1, <1>2
    <2> QED  BY <1>3, <2>1, <2>2, ElseSeenStep
<1> QED  BY <1>2, <1>3, <1>4 DEF FrameSays

(* Lines that are no directive of a block leave the frames as they are.     *)
LEMMA PlainLineKeeps ==
    ASSUME NEW text \in Seq(ManifestLine), NEW d, IsDepth(d, text), NEW i \in 1..Len(text), NEW holds,
           NEW s, StackSays(d, text, holds, s, i - 1),
           ~Directive(text, i, "if"), ~Directive(text, i, "else"), ~Directive(text, i, "end")
    PROVE  StackSays(d, text, holds, s, i)
<1>1. d[i] = d[i-1] /\ d[i] \in Int
    BY Depths
<1>2. \A m \in 0..i : d[m] >= 0
    <2>1. \A m \in 0..i : m = i \/ m \in 0..(i - 1)
        OBVIOUS
    <2>2. i - 1 \in 0..(i - 1)
        OBVIOUS
    <2> QED  BY <1>1, <2>1, <2>2 DEF StackSays
<1>3. \A k \in 0..d[i] : s[k+1].active <=> LiveTo(d, text, holds, k, i)
    <2>1. \A k \in 0..d[i] : LiveTo(d, text, holds, k, i) <=> LiveTo(d, text, holds, k, i - 1)
        <3>1. \A k \in 0..d[i] : k \in Int /\ k <= d[i]
            BY <1>1
        <3> QED  BY <3>1, LiveStep
    <2> QED  BY <1>1, <2>1 DEF StackSays
<1>4. \A k \in 1..d[i] : FrameSays(d, text, holds, s, k, i)
    BY <1>1, FrameStays DEF StackSays
<1> QED  BY <1>1, <1>2, <1>3, <1>4 DEF StackSays

(* An if puts the frame of its block on top.                                *)
LEMMA IfPushes ==
    ASSUME NEW text \in Seq(ManifestLine), NEW d, IsDepth(d, text), NEW i \in 1..Len(text), NEW holds,
           NEW s, StackSays(d, text, holds, s, i - 1), Directive(text, i, "if"),
           NEW x \in BuildFrames,
           x.parent <=> s[Len(s)].active, x.cond <=> text[i].key \in holds, x.else = FALSE,
           x.active <=> s[Len(s)].active /\ text[i].key \in holds
    PROVE  StackSays(d, text, holds, Append(s, x), i)
<1> DEFINE r == Append(s, x)
<1>1. d[i] = d[i-1] + 1 /\ d[i] \in Int /\ d[i-1] \in Int /\ d[i-1] >= 0 /\ Len(s) = d[i] /\ s \in Seq(BuildFrames)
    <2>1. i - 1 \in 0..(i - 1) /\ i - 1 \in 0..Len(text)
        OBVIOUS
    <2>2. d[i] = d[i-1] + 1 /\ d[i] \in Int /\ d[i-1] \in Int
        BY <2>1 DEF IsDepth
    <2>3. d[i-1] >= 0 /\ Len(s) = d[i-1] + 1 /\ s \in Seq(BuildFrames)
        BY <2>1 DEF StackSays
    <2> QED  BY <2>2, <2>3
<1>2. r \in Seq(BuildFrames) /\ Len(r) = d[i] + 1 /\ r[d[i] + 1] = x /\ \A k \in 1..d[i] : r[k] = s[k]
    BY <1>1, AppendProperties
<1> HIDE DEF r
<1>3. \A m \in 0..i : d[m] >= 0
    <2>1. \A m \in 0..i : m = i \/ m \in 0..(i - 1)
        OBVIOUS
    <2> QED  BY <1>1, <2>1 DEF StackSays
<1>4. ASSUME NEW k \in 0..d[i] PROVE r[k+1].active <=> LiveTo(d, text, holds, k, i)
    <2>1. CASE k < d[i]
        <3>1. k + 1 \in 1..d[i] /\ k \in 0..d[i-1] /\ k \in Int /\ k <= d[i]
            BY <1>1, <2>1
        <3>2. LiveTo(d, text, holds, k, i) <=> LiveTo(d, text, holds, k, i - 1)
            BY <2>1, <3>1, LiveStep
        <3> QED  BY <1>2, <3>1, <3>2 DEF StackSays
    <2>2. CASE k = d[i]
        <3>1. d[i] - 1 \in 0..d[i-1] /\ (d[i] - 1) + 1 = d[i]
            BY <1>1
        <3>2. s[d[i]].active <=> LiveTo(d, text, holds, d[i] - 1, i - 1)
            BY <3>1 DEF StackSays
        <3>3. LiveTo(d, text, holds, d[i], i) <=>
                LiveTo(d, text, holds, d[i] - 1, i - 1) /\ text[i].key \in holds
            BY LiveStep
        <3> QED  BY <1>1, <1>2, <2>2, <3>2, <3>3
    <2> QED  BY <1>1, <2>1, <2>2
<1>5. ASSUME NEW k \in 1..d[i] PROVE FrameSays(d, text, holds, r, k, i)
    <2>1. CASE k < d[i]
        <3>1. k \in 1..d[i-1] /\ k + 1 \in 1..d[i] /\ k \in 1..d[i]
            BY <1>1, <2>1
        <3>2. FrameSays(d, text, holds, s, k, i - 1)
            BY <3>1 DEF StackSays
        <3>3. r[k] = s[k] /\ r[k+1] = s[k+1]
            BY <1>2, <3>1
        <3> QED  BY <2>1, <3>2, <3>3, FrameStays
    <2>2. CASE k = d[i]
        <3>1. r[k] = s[Len(s)] /\ r[k+1] = x
            BY <1>1, <1>2, <2>2
        <3>2. Opened(d, text, i, i) /\ ~ElseSeen(text, i, i)
            BY OpenedStep, ElseSeenStep
        <3> QED  BY <2>2, <3>1, <3>2 DEF FrameSays
    <2> QED  BY <1>1, <2>1, <2>2
<1>6. StackSays(d, text, holds, r, i)
    BY <1>2, <1>3, <1>4, <1>5 DEF StackSays
<1> QED  BY <1>6 DEF r

(* An end takes the innermost frame away.                                   *)
LEMMA EndPops ==
    ASSUME NEW text \in Seq(ManifestLine), NEW d, IsDepth(d, text), NEW i \in 1..Len(text), NEW holds,
           NEW s, StackSays(d, text, holds, s, i - 1), Directive(text, i, "end"), Len(s) # 1
    PROVE  StackSays(d, text, holds, Front(s), i)
<1> DEFINE r == Front(s)
<1>1. d[i] = d[i-1] - 1 /\ d[i] \in Int /\ d[i-1] \in Int /\ d[i] >= 0 /\ Len(s) = d[i] + 2 /\ s \in Seq(BuildFrames)
    <2>1. i - 1 \in 0..(i - 1) /\ i - 1 \in 0..Len(text)
        OBVIOUS
    <2>2. d[i] = d[i-1] - 1 /\ d[i] \in Int /\ d[i-1] \in Int
        BY <2>1 DEF IsDepth, Directive
    <2>3. d[i-1] >= 0 /\ Len(s) = d[i-1] + 1 /\ s \in Seq(BuildFrames)
        BY <2>1 DEF StackSays
    <2> QED  BY <2>2, <2>3
<1>2. r \in Seq(BuildFrames) /\ Len(r) = d[i] + 1 /\ \A k \in 1..(d[i] + 1) : r[k] = s[k]
    <2>1. s # <<>>
        BY <1>1
    <2>2. s[1] \in BuildFrames
        BY <1>1
    <2>3. Front(s) \in Seq(BuildFrames) /\ Len(Front(s)) = Len(s) - 1 /\ \A k \in 1..(Len(s) - 1) : Front(s)[k] = s[k]
        BY <1>1, <2>1, <2>2, FrontAppend, ZenonT(60)
    <2>4. Len(s) - 1 = d[i] + 1
        BY <1>1
    <2> QED  BY <2>3, <2>4
<1> HIDE DEF r
<1>3. \A m \in 0..i : d[m] >= 0
    <2>1. \A m \in 0..i : m = i \/ m \in 0..(i - 1)
        OBVIOUS
    <2> QED  BY <1>1, <2>1 DEF StackSays
<1>4. ~Directive(text, i, "if") /\ ~Directive(text, i, "else")
    BY DEF Directive
<1>5. ASSUME NEW k \in 0..d[i] PROVE r[k+1].active <=> LiveTo(d, text, holds, k, i)
    <2>1. k + 1 \in 1..(d[i] + 1) /\ k \in 0..d[i-1] /\ k \in Int /\ k <= d[i]
        BY <1>1
    <2>2. LiveTo(d, text, holds, k, i) <=> LiveTo(d, text, holds, k, i - 1)
        BY <1>4, <2>1, LiveStep
    <2> QED  BY <1>2, <2>1, <2>2 DEF StackSays
<1>6. ASSUME NEW k \in 1..d[i] PROVE FrameSays(d, text, holds, r, k, i)
    <2>1. k \in 1..d[i-1] /\ k + 1 \in 1..(d[i] + 1) /\ k \in 1..(d[i] + 1)
        BY <1>1, SMTT(30)
    <2>2. FrameSays(d, text, holds, s, k, i - 1)
        BY <2>1 DEF StackSays
    <2>3. r[k] = s[k] /\ r[k+1] = s[k+1]
        BY <1>2, <2>1
    <2> QED  BY <1>4, <2>2, <2>3, FrameStays
<1>7. StackSays(d, text, holds, r, i)
    BY <1>2, <1>3, <1>5, <1>6 DEF StackSays
<1> QED  BY <1>7 DEF r

(* An else turns the innermost frame over.                                  *)
LEMMA ElseTurns ==
    ASSUME NEW text \in Seq(ManifestLine), NEW d, IsDepth(d, text), NEW i \in 1..Len(text), NEW holds,
           NEW s, StackSays(d, text, holds, s, i - 1), Directive(text, i, "else"), Len(s) # 1,
           NEW x \in BuildFrames,
           x.parent = s[Len(s)].parent, x.cond = s[Len(s)].cond, x.else = TRUE,
           x.active <=> s[Len(s)].parent /\ ~s[Len(s)].cond
    PROVE  StackSays(d, text, holds, Append(Front(s), x), i)
<1> DEFINE r == Append(Front(s), x)
<1>1. /\ d[i] = d[i-1] /\ d[i] \in Int /\ d[i] >= 1 /\ d[i] \in 1..d[i]
      /\ Len(s) = d[i] + 1 /\ s \in Seq(BuildFrames)
    <2>1. i - 1 \in 0..(i - 1) /\ i - 1 \in 0..Len(text)
        OBVIOUS
    <2>2. d[i] = d[i-1] /\ d[i] \in Int /\ d[i-1] \in Int
        BY <2>1 DEF IsDepth, Directive
    <2>3. d[i-1] >= 0 /\ Len(s) = d[i-1] + 1 /\ s \in Seq(BuildFrames)
        BY <2>1 DEF StackSays
    <2> QED  BY <2>2, <2>3
<1>2. /\ r \in Seq(BuildFrames) /\ Len(r) = d[i] + 1 /\ r[d[i] + 1] = x /\ \A k \in 1..d[i] : r[k] = s[k]
    <2>1. s # <<>> /\ Len(s) - 1 = d[i]
        BY <1>1
    <2>2. s \in Seq(BuildFrames) /\ x \in BuildFrames
        BY <1>1
    <2>3. /\ Append(Front(s), x) \in Seq(BuildFrames) /\ Len(Append(Front(s), x)) = Len(s)
          /\ Append(Front(s), x)[Len(s)] = x
          /\ \A k \in 1..(Len(s) - 1) : Append(Front(s), x)[k] = s[k]
        <3> HIDE DEF r
        <3> QED  BY ONLY <2>1, <2>2, FrontAppend
    <2>4. /\ r \in Seq(BuildFrames) /\ Len(r) = Len(s) /\ r[Len(s)] = x
          /\ \A k \in 1..(Len(s) - 1) : r[k] = s[k]
        BY <2>3
    <2> HIDE DEF r
    <2> QED  BY <1>1, <2>1, <2>4
<1> HIDE DEF r
<1>3. \A m \in 0..i : d[m] >= 0
    <2>1. \A m \in 0..i : m = i \/ m \in 0..(i - 1)
        OBVIOUS
    <2>2. d[i] >= 0
        BY <1>1
    <2> QED  BY <2>1, <2>2 DEF StackSays
<1>4. PICK j : /\ Opened(d, text, j, i - 1) /\ d[j] = d[i]
               /\ s[d[i]+1].parent <=> s[d[i]].active
               /\ s[d[i]+1].cond <=> text[j].key \in holds
    BY <1>1 DEF StackSays, FrameSays
<1>5. Opened(d, text, j, i) /\ j # i /\ ElseSeen(text, j, i)
    <2>1. Opened(d, text, j, i)
        BY <1>1, <1>4, OpenedStep
    <2>2. j # i
        BY <1>4 DEF Opened
    <2>3. ElseSeen(text, j, i)
        BY <1>4, <2>1, <2>2, ElseSeenStep
    <2> QED  BY <2>1, <2>2, <2>3
<1>6. ASSUME NEW k \in 0..d[i] PROVE r[k+1].active <=> LiveTo(d, text, holds, k, i)
    <2>1. CASE k < d[i]
        <3>1. k + 1 \in 1..d[i] /\ k \in 0..d[i-1] /\ k \in Int /\ k <= d[i]
            BY <1>1, <2>1
        <3>2. LiveTo(d, text, holds, k, i) <=> LiveTo(d, text, holds, k, i - 1)
            BY <2>1, <3>1, LiveStep
        <3> QED  BY <1>2, <3>1, <3>2 DEF StackSays
    <2>2. CASE k = d[i]
        <3>1. d[i] - 1 \in 0..d[i-1] /\ (d[i] - 1) + 1 = d[i]
            BY <1>1
        <3>2. s[d[i]].active <=> LiveTo(d, text, holds, d[i] - 1, i - 1)
            BY <3>1 DEF StackSays
        <3>3. LiveTo(d, text, holds, d[i], i) <=>
                LiveTo(d, text, holds, d[i] - 1, i - 1) /\ text[j].key \notin holds
            BY <1>4, <1>5, LiveStep
        <3> QED  BY <1>1, <1>2, <1>4, <2>2, <3>2, <3>3
    <2> QED  BY <1>1, <2>1, <2>2
<1>7. ASSUME NEW k \in 1..d[i] PROVE FrameSays(d, text, holds, r, k, i)
    <2>1. CASE k < d[i]
        <3>1. k \in 1..d[i-1] /\ k + 1 \in 1..d[i] /\ k \in 1..d[i]
            BY <1>1, <2>1
        <3>2. FrameSays(d, text, holds, s, k, i - 1)
            BY <3>1 DEF StackSays
        <3>3. r[k] = s[k] /\ r[k+1] = s[k+1]
            BY <1>2, <3>1
        <3> QED  BY <2>1, <3>2, <3>3, FrameStays
    <2>2. CASE k = d[i]
        <3>1. r[k] = s[d[i]] /\ r[k+1] = x /\ Len(s) = d[i] + 1
            BY <1>1, <1>2, <2>2
        <3> QED  BY <1>4, <1>5, <2>2, <3>1 DEF FrameSays
    <2> QED  BY <1>1, <2>1, <2>2
<1>8. StackSays(d, text, holds, r, i)
    BY <1>2, <1>3, <1>6, <1>7 DEF StackSays
<1> QED  BY <1>8 DEF r

(* An else is the first one of the innermost block.                         *)
ElseFirst(d, text, i) ==
    \E j : Opened(d, text, j, i) /\ j # i /\ d[j] = d[i] /\ ~ElseSeen(text, j, i - 1)

(* What the loop requires of a line and adds for it, told by the lines        *)
(* around it.                                                               *)
GoodLine(d, text, holds, files, i) ==
    /\ text[i].kind = "directive" => text[i].act \in {"if", "else", "end", "include"}
    /\ Directive(text, i, "if") => IsCondition(text[i].key)
    /\ Directive(text, i, "else") => ElseFirst(d, text, i)
    /\ Directive(text, i, "end") => d[i] >= 0
    /\ Directive(text, i, "include") /\ LiveTo(d, text, holds, d[i-1], i - 1) => Includable(files, text[i].key)

PartOf(d, text, holds, files, i) ==
    IF ~LiveTo(d, text, holds, d[i-1], i - 1) THEN <<>>
    ELSE IF text[i].kind # "directive" THEN <<text[i]>>
    ELSE IF text[i].act = "include" THEN files[text[i].key] ELSE <<>>

(* A line keeps the correspondence: the loop accepts it when it is good, its *)
(* frames go on being those of the open blocks, and it adds its part.       *)
LEMMA LineKeeps ==
    ASSUME NEW text \in Seq(ManifestLine), NEW d, IsDepth(d, text), NEW i \in 1..Len(text), NEW holds,
           NEW files, AllTexts(files),
           NEW run \in BuildRuns, run.ok, StackSays(d, text, holds, run.stack, i - 1),
           NEW r, r = PreprocessLine(run, text[i], holds, files)
    PROVE  /\ r.ok <=> GoodLine(d, text, holds, files, i)
           /\ r.ok => StackSays(d, text, holds, r.stack, i)
           /\ r.ok => r.out = run.out \o PartOf(d, text, holds, files, i)
<1> DEFINE s == run.stack
<1> DEFINE top == Top(s)
<1> DEFINE line == text[i]
<1>1. line \in ManifestLine /\ StackSays(d, text, holds, s, i - 1)
    OBVIOUS
<1>2. /\ d[i] \in Int /\ d[i-1] \in Int /\ d[i-1] >= 0 /\ Len(s) = d[i-1] + 1 /\ s \in Seq(BuildFrames)
      /\ d[i] = IF Directive(text, i, "if") THEN d[i-1] + 1
                ELSE IF Directive(text, i, "end") THEN d[i-1] - 1 ELSE d[i-1]
    <2>1. i - 1 \in 0..(i - 1) /\ i - 1 \in 0..Len(text)
        OBVIOUS
    <2>2. d[i-1] >= 0 /\ Len(s) = d[i-1] + 1 /\ s \in Seq(BuildFrames)
        BY <2>1 DEF StackSays
    <2> QED  BY <2>1, <2>2 DEF IsDepth
<1>3. top = s[Len(s)] /\ top = s[d[i-1] + 1] /\ top \in BuildFrames
    BY <1>2 DEF Top, Last
<1>4. top.active <=> LiveTo(d, text, holds, d[i-1], i - 1)
    <2>1. d[i-1] \in 0..d[i-1]
        BY <1>2
    <2> QED  BY <1>3, <2>1 DEF StackSays
<1>5. /\ r.ok => r.out = run.out \o (IF ~top.active THEN <<>>
                                     ELSE IF line.kind # "directive" THEN <<line>>
                                     ELSE IF line.act = "include" THEN files[line.key] ELSE <<>>)
      /\ line.kind # "directive" => r.ok
      /\ Directive(text, i, "if") => (r.ok <=> IsCondition(line.key))
      /\ Directive(text, i, "else") => (r.ok <=> Len(s) # 1 /\ ~top.else)
      /\ Directive(text, i, "end") => (r.ok <=> Len(s) # 1)
      /\ Directive(text, i, "include") => (r.ok <=> (top.active => Includable(files, line.key)))
      /\ r.ok /\ line.kind = "directive" => line.act \in {"if", "else", "end", "include"}
      /\ r.ok /\ Directive(text, i, "if") =>
           r.stack = Append(s, [parent |-> top.active, cond |-> line.key \in holds, else |-> FALSE,
                                active |-> top.active /\ line.key \in holds])
      /\ r.ok /\ Directive(text, i, "else") =>
           r.stack = Append(Front(s), [top EXCEPT !.else = TRUE, !.active = ElseActive(top)])
      /\ r.ok /\ Directive(text, i, "end") => r.stack = Front(s)
      /\ r.ok /\ ~Directive(text, i, "if") /\ ~Directive(text, i, "else") /\ ~Directive(text, i, "end") =>
           r.stack = s
    <2> DEFINE x == PreprocessLine(run, text[i], holds, files)
    <2> DEFINE is(a) == line.kind = "directive" /\ line.act = a
    <2>1. /\ x.ok => x.out = run.out \o (IF ~top.active THEN <<>>
                                         ELSE IF line.kind # "directive" THEN <<line>>
                                         ELSE IF line.act = "include" THEN files[line.key] ELSE <<>>)
          /\ line.kind # "directive" => x.ok
          /\ is("if") => (x.ok <=> IsCondition(line.key))
          /\ is("else") => (x.ok <=> Len(s) # 1 /\ ~top.else)
          /\ is("end") => (x.ok <=> Len(s) # 1)
          /\ is("include") => (x.ok <=> (top.active => Includable(files, line.key)))
          /\ x.ok /\ line.kind = "directive" => line.act \in {"if", "else", "end", "include"}
        BY <1>1, LineEffect DEF AllTexts
    <2>2. /\ x.ok /\ is("if") =>
               x.stack = Append(s, [parent |-> top.active, cond |-> line.key \in holds, else |-> FALSE,
                                    active |-> top.active /\ line.key \in holds])
          /\ x.ok /\ is("else") =>
               x.stack = Append(Front(s), [top EXCEPT !.else = TRUE, !.active = ElseActive(top)])
          /\ x.ok /\ is("end") => x.stack = Front(s)
          /\ x.ok /\ ~is("if") /\ ~is("else") /\ ~is("end") => x.stack = s
        BY <1>1, LineEffect DEF AllTexts
    <2>3. \A a : Directive(text, i, a) <=> is(a)
        BY DEF Directive
    <2>4. r = x
        OBVIOUS
    <2> HIDE DEF x, is, top, s, line
    <2> QED  BY <2>1, <2>2, <2>3, <2>4
<1>6. r.ok => r.out = run.out \o PartOf(d, text, holds, files, i)
    <2> HIDE DEF top
    <2> QED  BY <1>4, <1>5 DEF PartOf
<1> HIDE DEF top, s
<1>7. CASE Directive(text, i, "if")
    <2>1. r.ok <=> GoodLine(d, text, holds, files, i)
        BY <1>5, <1>7 DEF GoodLine, Directive
    <2>2. ASSUME r.ok PROVE StackSays(d, text, holds, r.stack, i)
        <3> DEFINE x == [parent |-> top.active, cond |-> line.key \in holds, else |-> FALSE,
                         active |-> top.active /\ line.key \in holds]
        <3>1. x \in BuildFrames
            BY <1>3 DEF BuildFrames
        <3>2. x.parent = top.active /\ (x.cond <=> line.key \in holds) /\ x.else = FALSE
              /\ (x.active <=> top.active /\ line.key \in holds)
            OBVIOUS
        <3>3. r.stack = Append(s, x)
            BY <1>5, <1>7, <2>2
        <3> HIDE DEF x
        <3>4. /\ x.parent <=> s[Len(s)].active
              /\ x.cond <=> text[i].key \in holds
              /\ x.active <=> s[Len(s)].active /\ text[i].key \in holds
            BY <1>3, <3>2
        <3>5. StackSays(d, text, holds, s, i - 1)
            BY DEF s
        <3>6. StackSays(d, text, holds, Append(s, x), i)
            BY <1>7, <3>1, <3>2, <3>4, <3>5, IfPushes
        <3> QED  BY <3>3, <3>6
    <2> QED  BY <1>6, <2>1, <2>2
<1>8. CASE Directive(text, i, "else")
    <2>1. d[i] = d[i-1]
        BY <1>2, <1>8 DEF Directive
    <2>2. ASSUME Len(s) = 1, NEW j, Opened(d, text, j, i), j # i, d[j] = d[i] PROVE FALSE
        <3>1. j \in 1..Len(text) /\ j - 1 \in 0..(i - 1) /\ j - 1 \in 0..Len(text) /\ Directive(text, j, "if")
            BY <2>2 DEF Opened
        <3>2. d[j] = d[j-1] + 1 /\ d[j-1] >= 0 /\ d[j-1] \in Int
            BY <1>1, <3>1 DEF IsDepth, StackSays
        <3>3. d[j] = 0
            BY <1>2, <2>1, <2>2
        <3> QED  BY <3>2, <3>3
    <2>3. ASSUME Len(s) # 1
          PROVE  ~top.else <=> \E j : Opened(d, text, j, i) /\ j # i /\ d[j] = d[i] /\ ~ElseSeen(text, j, i - 1)
        <3>1. d[i] \in 1..d[i-1]
            BY <1>2, <2>1, <2>3
        <3>2. PICK j : Opened(d, text, j, i - 1) /\ d[j] = d[i] /\ (top.else <=> ElseSeen(text, j, i - 1))
            <4>1. FrameSays(d, text, holds, s, d[i], i - 1)
                BY <1>1, <2>1, <3>1 DEF StackSays
            <4>2. top = s[d[i] + 1]
                BY <1>3, <2>1
            <4> QED  BY <4>1, <4>2 DEF FrameSays
        <3>3. Opened(d, text, j, i) /\ j # i
            <4>1. Opened(d, text, j, i)
                BY <1>2, <3>2, OpenedStep
            <4>2. j # i
                BY <3>2 DEF Opened
            <4> QED  BY <4>1, <4>2
        <3>4. \A k : Opened(d, text, k, i) /\ d[k] = d[i] => k = j
            BY <3>2, <3>3, OpenedStep
        <3> QED  BY <3>2, <3>3, <3>4
    <2>4. r.ok <=> GoodLine(d, text, holds, files, i)
        BY <1>5, <1>8, <2>2, <2>3 DEF GoodLine, ElseFirst, Directive
    <2>5. ASSUME r.ok PROVE StackSays(d, text, holds, r.stack, i)
        <3> DEFINE x == [top EXCEPT !.else = TRUE, !.active = ElseActive(top)]
        <3>1. x \in BuildFrames
            BY <1>3 DEF BuildFrames, ElseActive
        <3>2. /\ x.parent = top.parent /\ x.cond = top.cond /\ x.else = TRUE
              /\ x.active <=> top.parent /\ ~top.cond
            BY <1>3 DEF BuildFrames, ElseActive
        <3>3. r.stack = Append(Front(s), x)
            BY <1>5, <1>8, <2>5
        <3> HIDE DEF x
        <3>4. /\ x.parent = s[Len(s)].parent /\ x.cond = s[Len(s)].cond
              /\ x.active <=> s[Len(s)].parent /\ ~s[Len(s)].cond
            BY <1>3, <3>2
        <3>5. StackSays(d, text, holds, s, i - 1) /\ Len(s) # 1
            BY <1>5, <1>8, <2>5 DEF s
        <3>6. StackSays(d, text, holds, Append(Front(s), x), i)
            BY <1>8, <3>1, <3>2, <3>4, <3>5, ElseTurns
        <3> QED  BY <3>3, <3>6
    <2> QED  BY <1>6, <2>4, <2>5
<1>9. CASE Directive(text, i, "end")
    <2>1. Len(s) # 1 <=> d[i] >= 0
        <3>1. d[i] = d[i-1] - 1
            BY <1>2, <1>9 DEF Directive
        <3> QED  BY <1>2, <3>1
    <2>2. r.ok <=> GoodLine(d, text, holds, files, i)
        BY <1>5, <1>9, <2>1 DEF GoodLine, Directive
    <2>3. ASSUME r.ok PROVE StackSays(d, text, holds, r.stack, i)
        <3>1. r.stack = Front(s) /\ Len(s) # 1
            BY <1>5, <1>9, <2>3
        <3>2. StackSays(d, text, holds, s, i - 1)
            BY DEF s
        <3>3. StackSays(d, text, holds, Front(s), i)
            BY <1>9, <3>1, <3>2, EndPops
        <3> QED  BY <3>1, <3>3
    <2> QED  BY <1>6, <2>2, <2>3
<1>10. CASE ~Directive(text, i, "if") /\ ~Directive(text, i, "else") /\ ~Directive(text, i, "end")
    <2>1. r.ok <=> GoodLine(d, text, holds, files, i)
        BY <1>4, <1>5, <1>10 DEF GoodLine, Directive
    <2>2. ASSUME r.ok PROVE StackSays(d, text, holds, r.stack, i)
        <3>1. r.stack = s /\ StackSays(d, text, holds, s, i - 1)
            BY <1>5, <1>10, <2>2 DEF s
        <3>2. StackSays(d, text, holds, s, i)
            BY <1>10, <3>1, PlainLineKeeps
        <3> QED  BY <3>1, <3>2
    <2> QED  BY <1>6, <2>1, <2>2
<1> QED  BY <1>7, <1>8, <1>9, <1>10

(* A set with at most one element has no two.                               *)
LEMMA AtMostOne ==
    ASSUME NEW S, IsFiniteSet(S)
    PROVE  Cardinality(S) <= 1 <=> \A x, y \in S : x = y
<1>1. Cardinality(S) \in Nat
    BY FS_CardinalityType
<1>2. ASSUME Cardinality(S) <= 1 PROVE \A x, y \in S : x = y
    <2>1. Cardinality(S) = 0 \/ Cardinality(S) = 1
        BY <1>1, <1>2
    <2>2. S = {} \/ \E x : S = {x}
        BY <2>1, FS_EmptySet, FS_Singleton
    <2> QED  BY <2>2
<1>3. ASSUME \A x, y \in S : x = y PROVE Cardinality(S) <= 1
    <2>1. S = {} \/ \E x : S = {x}
        BY <1>3
    <2>2. Cardinality(S) = 0 \/ Cardinality(S) = 1
        BY <2>1, FS_EmptySet, FS_Singleton
    <2> QED  BY <2>2
<1> QED  BY <1>2, <1>3

(* FlattenSeq has what is left when part after part is appended.            *)
Appends(h, parts, n, S) ==
    /\ parts \in [1..n -> Seq(S)] /\ h \in [0..n -> Seq(S)]
    /\ h[0] = <<>> /\ \A i \in 1..n : h[i] = h[i-1] \o parts[i]

LEMMA FlattenRuns ==
    ASSUME NEW n \in Nat, NEW S, NEW parts, NEW h, Appends(h, parts, n, S)
    PROVE  FlattenSeq(parts) = h[n]
<1> DEFINE Body(g) == [i \in 1..Len(parts) |-> IF i = 1 THEN parts[i] ELSE g[i-1] \o parts[i]]
<1> DEFINE flat == CHOOSE g : g = Body(g)
<1>1. Len(parts) = n /\ parts \in Seq(Seq(S)) /\ (n = 0 => parts = <<>>)
    <2>1. parts \in Seq(Seq(S))
        BY DEF Appends
    <2>2. DOMAIN parts = 1..n /\ Len(parts) \in Nat /\ DOMAIN parts = 1..Len(parts)
        BY <2>1 DEF Appends
    <2>3. Len(parts) = n
        BY <2>2
    <2> QED  BY <2>1, <2>3
<1>2. h[0] = <<>> /\ \A i \in 1..n : /\ h[i] \in Seq(S) /\ parts[i] \in Seq(S) /\ h[i] = h[i-1] \o parts[i]
                                    /\ i # 1 => i - 1 \in 1..n
    BY DEF Appends
<1>3. \A i \in 1..n : h[i] = IF i = 1 THEN parts[i] ELSE h[i-1] \o parts[i]
    <2> SUFFICES ASSUME NEW i \in 1..n PROVE h[i] = IF i = 1 THEN parts[i] ELSE h[i-1] \o parts[i]
        OBVIOUS
    <2>1. h[i] = h[i-1] \o parts[i] /\ parts[i] \in Seq(S)
        BY DEF Appends
    <2>2. <<>> \o parts[i] = parts[i]
        BY <2>1, ConcatEmptySeq
    <2>3. i = 1 => h[i-1] = <<>>
        BY <1>2
    <2> QED  BY <2>1, <2>2, <2>3
<1>4. flat = Body(flat)
    <2> DEFINE f == [i \in 1..n |-> h[i]]
    <2>1. \A i \in 1..n : f[i] = IF i = 1 THEN parts[i] ELSE f[i-1] \o parts[i]
        <3> SUFFICES ASSUME NEW i \in 1..n PROVE f[i] = IF i = 1 THEN parts[i] ELSE f[i-1] \o parts[i]
            OBVIOUS
        <3>1. i # 1 => f[i-1] = h[i-1]
            BY <1>2
        <3> QED  BY <1>3, <3>1
    <2>2. f = Body(f)
        <3>1. f = [i \in 1..n |-> f[i]]
            OBVIOUS
        <3> HIDE DEF f
        <3> QED  BY <1>1, <2>1, <3>1
    <2> QED  BY <2>2
<1>5. \A i \in 1..n : flat[i] = h[i]
    <2> DEFINE U == {i \in 0..n : i # 0 => flat[i] = h[i]}
    <2>1. 0 \in U
        OBVIOUS
    <2>2. ASSUME NEW i \in 0..(n-1), i \in U PROVE i + 1 \in U
        <3> HIDE DEF flat
        <3>1. i + 1 \in 1..n /\ i + 1 \in 0..n /\ (i + 1) - 1 = i /\ (i + 1 # 1 => i # 0)
            OBVIOUS
        <3>2. flat[i+1] = IF i + 1 = 1 THEN parts[i+1] ELSE flat[i] \o parts[i+1]
            BY <1>1, <1>4, <3>1
        <3>3. h[i+1] = IF i + 1 = 1 THEN parts[i+1] ELSE h[i] \o parts[i+1]
            BY <1>3, <3>1
        <3> QED  BY <2>2, <3>1, <3>2, <3>3
    <2>3. 0..n \subseteq U
        <3> HIDE DEF U
        <3> QED  BY <2>1, <2>2, SetInduction
    <2> HIDE DEF flat
    <2>4. ASSUME NEW i \in 1..n PROVE flat[i] = h[i]
        <3>1. i \in 0..n /\ i # 0
            OBVIOUS
        <3> QED  BY <2>3, <3>1
    <2> QED  BY <2>4
<1>6. CASE n = 0
    <2>1. Len(parts) = 0 /\ parts = h[n]
        BY <1>1, <1>2, <1>6
    <2> QED  BY <2>1 DEF FlattenSeq
<1>7. CASE n # 0
    <2>1. FlattenSeq(parts) = flat[n]
        BY <1>1, <1>7 DEF FlattenSeq
    <2> HIDE DEF flat
    <2>2. n \in 1..n
        BY <1>7
    <2> QED  BY <1>5, <2>1, <2>2
<1> QED  BY <1>6, <1>7

(* A block whose end comes is kept as long as its branch is.                *)
LEMMA KeptIsLive ==
    ASSUME NEW text \in Seq(ManifestLine), NEW d, IsDepth(d, text), NEW holds, NEW i \in 1..Len(text),
           ~Directive(text, i, "if"), ~Directive(text, i, "else"), ~Directive(text, i, "end"),
           \A j \in 1..(i-1) : Directive(text, j, "if") => EndsOf(text, j) # {}
    PROVE  KeptLine(text, holds, i) <=> LiveTo(d, text, holds, d[i-1], i - 1)
<1> DEFINE n == Len(text)
<1>1. n \in Nat /\ i \in 1..n /\ d[i] = d[i-1] /\ d[i] \in Int
    BY Depths
<1>2. ASSUME NEW j \in 1..(i-1), Directive(text, j, "if")
      PROVE  /\ BlockEnd(text, j) > i <=> Opened(d, text, j, i - 1) /\ d[j] <= d[i-1]
             /\ (\E k \in ElsesOf(text, j) : k < i) <=> ElseSeen(text, j, i - 1)
    <2>1. EndsOf(text, j) \in SUBSET (1..n) /\ EndsOf(text, j) # {}
        BY <1>2 DEF EndsOf
    <2>2. Min(EndsOf(text, j)) \in EndsOf(text, j) /\ \A x \in EndsOf(text, j) : Min(EndsOf(text, j)) <= x
        BY <1>1, <2>1, MinOfPositions
    <2>3. BlockEnd(text, j) > i <=> \A k \in EndsOf(text, j) : i < k
        <3>1. BlockEnd(text, j) = Min(EndsOf(text, j))
            BY <2>1 DEF BlockEnd
        <3>2. \A x \in EndsOf(text, j) : x \in Int
            BY <2>1
        <3> QED  BY <1>1, <2>2, <3>1, <3>2
    <2>4. Opened(d, text, j, i) <=> \A k \in EndsOf(text, j) : i < k
        BY <1>2, OpenedUntilEnd
    <2>5. Opened(d, text, j, i) <=> Opened(d, text, j, i - 1) /\ d[j] <= d[i-1]
        BY <1>1, OpenedStep
    <2>6. (\E k \in ElsesOf(text, j) : k < i) <=> ElseSeen(text, j, i - 1)
        <3>1. \A k \in ElsesOf(text, j) : k \in Int
            BY DEF ElsesOf
        <3>2. \A k \in ElsesOf(text, j) : k < i <=> k <= i - 1
            BY <3>1
        <3> QED  BY <3>2 DEF ElseSeen
    <2> QED  BY <2>3, <2>4, <2>5, <2>6
<1>3. \A j : Opened(d, text, j, i - 1) => j \in 1..(i-1) /\ Directive(text, j, "if")
    BY DEF Opened
<1>4. KeptLine(text, holds, i) <=>
        \A j \in 1..(i-1) : Directive(text, j, "if") /\ BlockEnd(text, j) > i => Taken(text, holds, j, i - 1)
    <2>1. KeptLine(text, holds, i) <=>
            \A j \in 1..(i-1) : Directive(text, j, "if") /\ BlockEnd(text, j) > i =>
              IF \E k \in ElsesOf(text, j) : k < i THEN text[j].key \notin holds ELSE text[j].key \in holds
        BY DEF KeptLine
    <2> QED  BY <1>2, <2>1 DEF Taken
<1> QED  BY <1>2, <1>3, <1>4 DEF LiveTo

(* Every block has its end.                                                 *)
BlocksClosed(text) == \A j \in 1..Len(text) : Directive(text, j, "if") => EndsOf(text, j) # {}

(* Blocks that the loop has left are closed, and only those.                *)
LEMMA AllClosed ==
    ASSUME NEW text \in Seq(ManifestLine), NEW d, IsDepth(d, text), NEW holds, NEW s,
           StackSays(d, text, holds, s, Len(text))
    PROVE  Len(s) = 1 <=> BlocksClosed(text)
<1> DEFINE n == Len(text)
<1>1. n \in Nat /\ n \in 0..n /\ d[n] \in Int /\ d[n] >= 0 /\ Len(s) = d[n] + 1
    BY Depths DEF StackSays
<1>2. ASSUME Len(s) = 1, NEW j \in 1..n, Directive(text, j, "if") PROVE EndsOf(text, j) # {}
    <2> SUFFICES ASSUME EndsOf(text, j) = {} PROVE FALSE
        OBVIOUS
    <2>1. n \in 1..n /\ j \in 1..n /\ j - 1 \in 0..n
        BY <1>1
    <2>2. Opened(d, text, j, n)
        BY <1>2, <2>1, OpenedUntilEnd
    <2>3. d[j] <= d[n] /\ d[j] = d[j-1] + 1 /\ d[j-1] >= 0 /\ d[j-1] \in Int
        BY <1>2, <2>1, <2>2, OpenedStep DEF IsDepth, StackSays
    <2> QED  BY <1>1, <1>2, <2>3
<1>3. ASSUME Len(s) # 1, \A j \in 1..n : Directive(text, j, "if") => EndsOf(text, j) # {} PROVE FALSE
    <2>1. d[n] \in 1..d[n]
        BY <1>1, <1>3
    <2>2. PICK j : Opened(d, text, j, n)
        BY <2>1 DEF StackSays, FrameSays
    <2>3. j \in 1..n /\ Directive(text, j, "if")
        BY <2>2 DEF Opened
    <2>4. n \in 1..n
        BY <1>1, <2>3
    <2>5. \A k \in EndsOf(text, j) : n < k
        BY <2>2, <2>3, <2>4, OpenedUntilEnd
    <2>6. \A k \in EndsOf(text, j) : k \in (j+1)..n
        BY DEF EndsOf
    <2>7. PICK k : k \in EndsOf(text, j)
        BY <1>3, <2>3
    <2>8. k \in (j+1)..n /\ n < k
        BY <2>5, <2>6, <2>7
    <2> QED  BY <1>1, <2>3, <2>8
<1> QED  BY <1>2, <1>3 DEF BlocksClosed

(* Every else is the first of one block, when none is of no block and no     *)
(* block has two.                                                           *)
LEMMA ElsesMatch ==
    ASSUME NEW text \in Seq(ManifestLine), NEW d, IsDepth(d, text)
    PROVE  (\A i \in 1..Len(text) : Directive(text, i, "else") => ElseFirst(d, text, i)) <=>
           /\ \A i \in 1..Len(text) : Directive(text, i, "else") =>
                \E j \in 1..(i-1) : Directive(text, j, "if") /\ i \in ElsesOf(text, j)
           /\ \A j \in 1..Len(text) : Directive(text, j, "if") => Cardinality(ElsesOf(text, j)) <= 1
<1> DEFINE n == Len(text)
<1>1. n \in Nat
    OBVIOUS
<1>2. \A j \in 1..n, i \in 1..n : Directive(text, j, "if") =>
        (i \in ElsesOf(text, j) <=> j < i /\ Directive(text, i, "else") /\ d[i] = d[j] /\ Opened(d, text, j, i))
    BY ElseOfOpened
<1>3. \A j \in 1..n : IsFiniteSet(ElsesOf(text, j)) /\ ElsesOf(text, j) \subseteq 1..n
    <2> SUFFICES ASSUME NEW j \in 1..n PROVE IsFiniteSet(ElsesOf(text, j)) /\ ElsesOf(text, j) \subseteq 1..n
        OBVIOUS
    <2>1. ElsesOf(text, j) \in SUBSET (1..n)
        BY <1>1 DEF ElsesOf
    <2>2. IsFiniteSet(1..n)
        BY <1>1, FS_Interval
    <2> QED  BY <2>1, <2>2, FS_Subset
<1>4. ASSUME \A i \in 1..n : Directive(text, i, "else") => ElseFirst(d, text, i),
             NEW i \in 1..n, Directive(text, i, "else")
      PROVE  \E j \in 1..(i-1) : Directive(text, j, "if") /\ i \in ElsesOf(text, j)
    <2>1. PICK j : Opened(d, text, j, i) /\ j # i /\ d[j] = d[i]
        BY <1>4 DEF ElseFirst
    <2>2. j \in 1..(i-1) /\ j \in 1..n /\ j < i /\ Directive(text, j, "if")
        BY <1>1, <2>1 DEF Opened
    <2> QED  BY <1>2, <1>4, <2>1, <2>2
<1>5. ASSUME \A i \in 1..n : Directive(text, i, "else") => ElseFirst(d, text, i),
             NEW j \in 1..n, Directive(text, j, "if"),
             NEW x \in ElsesOf(text, j), NEW y \in ElsesOf(text, j), x < y
      PROVE  FALSE
    <2>1. x \in 1..n /\ y \in 1..n
        BY <1>3
    <2>2. Directive(text, y, "else") /\ d[y] = d[j] /\ Opened(d, text, j, y)
        BY <1>2, <1>5, <2>1
    <2>3. PICK k : Opened(d, text, k, y) /\ d[k] = d[y] /\ ~ElseSeen(text, k, y - 1)
        BY <1>5, <2>1, <2>2 DEF ElseFirst
    <2>4. k = j
        BY <2>1, <2>2, <2>3, OpenedStep
    <2>5. x <= y - 1
        BY <1>5, <2>1
    <2> QED  BY <2>3, <2>4, <2>5 DEF ElseSeen
<1>6. ASSUME \A i \in 1..n : Directive(text, i, "else") => ElseFirst(d, text, i),
             NEW j \in 1..n, Directive(text, j, "if")
      PROVE  Cardinality(ElsesOf(text, j)) <= 1
    <2>1. \A x, y \in ElsesOf(text, j) : x = y
        <3> SUFFICES ASSUME NEW x \in ElsesOf(text, j), NEW y \in ElsesOf(text, j), x # y PROVE FALSE
            OBVIOUS
        <3>1. x < y \/ y < x
            BY <1>3
        <3> QED  BY <1>5, <1>6, <3>1
    <2> QED  BY <1>3, <2>1, AtMostOne
<1>7. ASSUME NEW i \in 1..n, NEW j \in 1..(i-1), Directive(text, j, "if"), i \in ElsesOf(text, j),
             Cardinality(ElsesOf(text, j)) <= 1
      PROVE  ElseFirst(d, text, i)
    <2>1. j \in 1..n /\ j # i
        BY <1>1
    <2>2. d[j] = d[i] /\ Opened(d, text, j, i)
        BY <1>2, <1>7, <2>1
    <2>3. \A x, y \in ElsesOf(text, j) : x = y
        BY <1>3, <1>7, <2>1, AtMostOne
    <2>4. ~ElseSeen(text, j, i - 1)
        <3>1. ~(i <= i - 1)
            BY <1>1
        <3> QED  BY <1>7, <2>3, <3>1 DEF ElseSeen
    <2> QED  BY <2>1, <2>2, <2>4 DEF ElseFirst
<1>8. ASSUME \A i \in 1..n : Directive(text, i, "else") =>
               \E j \in 1..(i-1) : Directive(text, j, "if") /\ i \in ElsesOf(text, j),
             \A j \in 1..n : Directive(text, j, "if") => Cardinality(ElsesOf(text, j)) <= 1,
             NEW i \in 1..n, Directive(text, i, "else")
      PROVE  ElseFirst(d, text, i)
    <2>1. PICK j \in 1..(i-1) : Directive(text, j, "if") /\ i \in ElsesOf(text, j)
        BY <1>8
    <2>2. j \in 1..n
        BY <1>1
    <2> QED  BY <1>7, <1>8, <2>1, <2>2
<1> QED  BY <1>4, <1>6, <1>8

(* What the loop says once it has read i lines.                             *)
LoopSays(d, text, holds, files, run, i) ==
    /\ run[i].ok <=> \A m \in 1..i : GoodLine(d, text, holds, files, m)
    /\ run[i].ok => StackSays(d, text, holds, run[i].stack, i)
    /\ run[i].ok => \A m \in 1..i : run[m].out = run[m-1].out \o PartOf(d, text, holds, files, m)

(* What the loop has after each line.                                       *)
LEMMA RunSays ==
    ASSUME NEW text \in Seq(ManifestLine), NEW d, IsDepth(d, text), NEW holds,
           NEW files, AllTexts(files),
           NEW run, IsBuildRun(run, text, holds, files)
    PROVE  \A i \in 0..Len(text) : LoopSays(d, text, holds, files, run, i)
<1> DEFINE n == Len(text)
<1> DEFINE Says(i) == /\ run[i].ok <=> \A m \in 1..i : GoodLine(d, text, holds, files, m)
                      /\ run[i].ok => StackSays(d, text, holds, run[i].stack, i)
                      /\ run[i].ok => \A m \in 1..i : run[m].out = run[m-1].out \o PartOf(d, text, holds, files, m)
<1> DEFINE U == {i \in 0..n : Says(i)}
<1>1. n \in Nat
    OBVIOUS
<1>2. 0 \in U
    <2>1. run[0].ok = TRUE /\ run[0].stack = <<Bottom>>
        BY DEF IsBuildRun
    <2>2. Bottom \in BuildFrames /\ Bottom.active = TRUE
        BY DEF Bottom, BuildFrames
    <2>3. <<Bottom>> \in Seq(BuildFrames) /\ Len(<<Bottom>>) = 1 /\ <<Bottom>>[1] = Bottom
        BY <2>2
    <2>4. d[0] = 0
        BY DEF IsDepth
    <2>5. LiveTo(d, text, holds, 0, 0)
        BY DEF LiveTo, Opened
    <2>6. StackSays(d, text, holds, <<Bottom>>, 0)
        <3>1. \A k \in 0..d[0] : <<Bottom>>[k+1].active <=> LiveTo(d, text, holds, k, 0)
            BY <2>2, <2>3, <2>4, <2>5
        <3>2. \A k \in 1..d[0] : FrameSays(d, text, holds, <<Bottom>>, k, 0)
            BY <2>4
        <3>3. \A m \in 0..0 : d[m] >= 0
            BY <2>4
        <3> QED  BY <2>3, <2>4, <3>1, <3>2, <3>3 DEF StackSays
    <2> QED  BY <1>1, <2>1, <2>6
<1>3. ASSUME NEW i \in 0..(n-1), i \in U PROVE i + 1 \in U
    <2> DEFINE j == i + 1
    <2>1. j \in 1..n /\ j \in 0..n /\ j - 1 = i /\ i \in 0..n /\ Says(i)
        BY <1>1, <1>3
    <2>2. run[j] = PreprocessLine(run[i], text[j], holds, files) /\ run[i] \in BuildRuns /\ text[j] \in ManifestLine
        BY <2>1 DEF IsBuildRun
    <2>3. \A m \in 1..j : m \in 1..i \/ m = j
        BY <2>1
    <2>4. 1..i \subseteq 1..j /\ j \in 1..j
        BY <2>1
    <2> HIDE DEF j, n
    <2>5. CASE run[i].ok
        <3>1. StackSays(d, text, holds, run[i].stack, j - 1)
            BY <2>1, <2>5
        <3>2. /\ run[j].ok <=> GoodLine(d, text, holds, files, j)
              /\ run[j].ok => StackSays(d, text, holds, run[j].stack, j)
              /\ run[j].ok => run[j].out = run[i].out \o PartOf(d, text, holds, files, j)
            BY <2>1, <2>2, <2>5, <3>1, LineKeeps DEF n
        <3> QED  BY <2>1, <2>3, <2>4, <2>5, <3>2 DEF j
    <2>6. CASE ~run[i].ok
        <3>1. ~run[j].ok
            BY <2>2, <2>6 DEF PreprocessLine
        <3> QED  BY <2>1, <2>3, <2>4, <2>6, <3>1 DEF j
    <2> QED  BY <2>5, <2>6
<1>4. 0..n \subseteq U
    <2> HIDE DEF U, n
    <2> QED  BY <1>1, <1>2, <1>3, SetInduction
<1> QED  BY <1>4 DEF LoopSays

(* The lines are good and the blocks closed: this is what WellFormed says.    *)
LEMMA WellFormedLines ==
    ASSUME NEW text \in Seq(ManifestLine), NEW d, IsDepth(d, text), NEW holds, NEW files
    PROVE  WellFormed(text, holds, files) <=>
             /\ \A i \in 1..Len(text) : GoodLine(d, text, holds, files, i)
             /\ BlocksClosed(text)
<1> DEFINE n == Len(text)
<1> DEFINE Closed == \A j \in 1..n : Directive(text, j, "if") => EndsOf(text, j) # {}
<1>1. n \in Nat /\ DOMAIN text = 1..n
    OBVIOUS
<1>2. \A i \in 1..n : Nesting(text, 1, i) = d[i]
    <2> SUFFICES ASSUME NEW i \in 1..n PROVE Nesting(text, 1, i) = d[i]
        OBVIOUS
    <2>1. 1 \in 1..n /\ 1 <= i /\ i \in 0..n
        BY <1>1
    <2>2. Nesting(text, 1, i) = d[i] - d[1-1] /\ d[0] = 0 /\ d[i] \in Int
        BY <2>1 DEF IsDepth
    <2> QED  BY <2>2
<1>3. ASSUME Closed, NEW i \in 1..n, Directive(text, i, "include")
      PROVE  KeptLine(text, holds, i) <=> LiveTo(d, text, holds, d[i-1], i - 1)
    <2>1. ~Directive(text, i, "if") /\ ~Directive(text, i, "else") /\ ~Directive(text, i, "end")
        BY <1>3 DEF Directive
    <2>2. \A j \in 1..(i-1) : Directive(text, j, "if") => EndsOf(text, j) # {}
        <3>1. 1..(i-1) \subseteq 1..n
            BY <1>1
        <3> QED  BY <1>3, <3>1
    <2> QED  BY <2>1, <2>2, KeptIsLive
<1>4. WellFormed(text, holds, files) <=>
        /\ \A i \in 1..n : text[i].kind = "directive" => text[i].act \in {"if", "else", "end", "include"}
        /\ \A i \in 1..n : Directive(text, i, "if") => IsCondition(text[i].key)
        /\ Closed
        /\ \A i \in 1..n : Directive(text, i, "if") => Cardinality(ElsesOf(text, i)) <= 1
        /\ \A i \in 1..n : Directive(text, i, "else") =>
             \E j \in 1..(i-1) : Directive(text, j, "if") /\ i \in ElsesOf(text, j)
        /\ \A i \in 1..n : Directive(text, i, "end") => d[i] >= 0
        /\ \A i \in 1..n : Directive(text, i, "include") /\ KeptLine(text, holds, i) => Includable(files, text[i].key)
    BY <1>1, <1>2 DEF WellFormed, Includable
<1>5. (\A i \in 1..n : Directive(text, i, "else") => ElseFirst(d, text, i)) <=>
      /\ \A i \in 1..n : Directive(text, i, "else") =>
           \E j \in 1..(i-1) : Directive(text, j, "if") /\ i \in ElsesOf(text, j)
      /\ \A j \in 1..n : Directive(text, j, "if") => Cardinality(ElsesOf(text, j)) <= 1
    BY ElsesMatch
<1>6. (\A i \in 1..n : GoodLine(d, text, holds, files, i)) <=>
        /\ \A i \in 1..n : text[i].kind = "directive" => text[i].act \in {"if", "else", "end", "include"}
        /\ \A i \in 1..n : Directive(text, i, "if") => IsCondition(text[i].key)
        /\ \A i \in 1..n : Directive(text, i, "else") => ElseFirst(d, text, i)
        /\ \A i \in 1..n : Directive(text, i, "end") => d[i] >= 0
        /\ \A i \in 1..n : Directive(text, i, "include") /\ LiveTo(d, text, holds, d[i-1], i - 1)
                             => Includable(files, text[i].key)
    BY DEF GoodLine
<1>7. CASE Closed
    <2>1. (\A i \in 1..n : Directive(text, i, "include") /\ KeptLine(text, holds, i) => Includable(files, text[i].key)) <=>
          (\A i \in 1..n : Directive(text, i, "include") /\ LiveTo(d, text, holds, d[i-1], i - 1)
                             => Includable(files, text[i].key))
        BY <1>3, <1>7
    <2> HIDE DEF n, Closed
    <2>2. WellFormed(text, holds, files) <=> \A i \in 1..n : GoodLine(d, text, holds, files, i)
        BY <1>4, <1>5, <1>6, <1>7, <2>1
    <2> QED  BY <1>7, <2>2 DEF n, Closed, BlocksClosed
<1>8. CASE ~Closed
    <2> HIDE DEF n, Closed
    <2>1. ~WellFormed(text, holds, files)
        BY <1>4, <1>8
    <2> QED  BY <1>8, <2>1 DEF n, Closed, BlocksClosed
<1> QED  BY <1>7, <1>8

(* What is left of a text, part after part.                                 *)
LEMMA PartsAreExpanded ==
    ASSUME NEW text \in Seq(ManifestLine), NEW d, IsDepth(d, text), NEW holds,
           NEW files, AllTexts(files),
           NEW run, IsBuildRun(run, text, holds, files),
           BlocksClosed(text), run[Len(text)].ok, LoopSays(d, text, holds, files, run, Len(text))
    PROVE  Expanded(text, holds, files) = run[Len(text)].out
<1> DEFINE n == Len(text)
<1> DEFINE part(i) == IF ~KeptLine(text, holds, i) THEN <<>>
                      ELSE IF text[i].kind # "directive" THEN <<text[i]>>
                      ELSE IF text[i].act = "include" THEN files[text[i].key]
                      ELSE <<>>
<1> DEFINE parts == [i \in 1..n |-> part(i)]
<1> DEFINE h == [i \in 0..n |-> run[i].out]
<1>1. n \in Nat /\ DOMAIN text = 1..n
    OBVIOUS
<1>a. /\ \A j \in 1..n : Directive(text, j, "if") => EndsOf(text, j) # {}
      /\ \A m \in 1..n : GoodLine(d, text, holds, files, m)
      /\ \A m \in 1..n : run[m].out = run[m-1].out \o PartOf(d, text, holds, files, m)
    BY DEF BlocksClosed, LoopSays
<1>2. ASSUME NEW i \in 1..n PROVE part(i) = PartOf(d, text, holds, files, i)
    <2>1. CASE text[i].kind = "directive" /\ text[i].act \in {"if", "else", "end"}
        BY <2>1 DEF PartOf
    <2>2. CASE ~(text[i].kind = "directive" /\ text[i].act \in {"if", "else", "end"})
        <3>1. ~Directive(text, i, "if") /\ ~Directive(text, i, "else") /\ ~Directive(text, i, "end")
            BY <2>2 DEF Directive
        <3>2. \A j \in 1..(i-1) : Directive(text, j, "if") => EndsOf(text, j) # {}
            <4>1. 1..(i-1) \subseteq 1..n
                BY <1>1
            <4> QED  BY <1>a, <4>1
        <3>3. KeptLine(text, holds, i) <=> LiveTo(d, text, holds, d[i-1], i - 1)
            BY <3>1, <3>2, KeptIsLive
        <3> QED  BY <3>3 DEF PartOf
    <2> QED  BY <2>1, <2>2
<1>3. ASSUME NEW i \in 1..n PROVE PartOf(d, text, holds, files, i) \in Seq(ManifestLine)
    <2>1. text[i] \in ManifestLine /\ GoodLine(d, text, holds, files, i)
        BY <1>a, <1>1
    <2>2. LiveTo(d, text, holds, d[i-1], i - 1) /\ text[i].kind = "directive" /\ text[i].act = "include" =>
            files[text[i].key] \in Seq(ManifestLine)
        BY <2>1 DEF GoodLine, Directive, Includable, AllTexts
    <2>3. <<text[i]>> \in Seq(ManifestLine) /\ <<>> \in Seq(ManifestLine)
        BY <2>1
    <2> QED  BY <2>2, <2>3 DEF PartOf
<1>4. parts \in [1..n -> Seq(ManifestLine)] /\ \A i \in 1..n : parts[i] = PartOf(d, text, holds, files, i)
    <2> HIDE DEF part, n
    <2>1. \A i \in 1..n : part(i) \in Seq(ManifestLine)
        BY <1>2, <1>3
    <2> QED  BY <1>2, <2>1
<1>5. h \in [0..n -> Seq(ManifestLine)] /\ h[0] = <<>> /\ \A i \in 1..n : h[i] = h[i-1] \o parts[i]
    <2>1. \A i \in 0..n : run[i].out \in Seq(ManifestLine)
        BY DEF IsBuildRun, BuildRuns
    <2>2. run[0].out = <<>> /\ 0 \in 0..n
        BY <1>1 DEF IsBuildRun
    <2>3. ASSUME NEW i \in 1..n PROVE h[i] = h[i-1] \o parts[i]
        <3>1. i \in 0..n /\ i - 1 \in 0..n
            BY <1>1
        <3>2. run[i].out = run[i-1].out \o PartOf(d, text, holds, files, i)
            BY <1>a
        <3>3. h[i] = run[i].out /\ h[i-1] = run[i-1].out
            BY <3>1
        <3> HIDE DEF h, parts
        <3> QED  BY <1>4, <3>2, <3>3
    <2> HIDE DEF parts
    <2> QED  BY <2>1, <2>2, <2>3
<1>6. Expanded(text, holds, files) = FlattenSeq(parts)
    BY <1>1 DEF Expanded
<1>7. FlattenSeq(parts) = h[n]
    <2> HIDE DEF parts, h, n
    <2>1. Appends(h, parts, n, ManifestLine)
        BY <1>4, <1>5 DEF Appends
    <2> QED  BY <1>1, <2>1, FlattenRuns
<1> QED  BY <1>1, <1>6, <1>7

(* Build directives are right for every text.                               *)
LEMMA PreprocessIsExact ==
    ASSUME NEW text \in Seq(ManifestLine), NEW holds, NEW files, AllTexts(files)
    PROVE  /\ Preprocess(text, holds, files).ok <=> WellFormed(text, holds, files)
           /\ Preprocess(text, holds, files).ok =>
                Preprocess(text, holds, files).out = Expanded(text, holds, files)
<1> DEFINE p == Preprocess(text, holds, files)
<1>1. PICK d : IsDepth(d, text)
    BY DepthExists
<1>2. PICK run : Preprocesses(run, text, holds, files, p)
    BY PreprocessRun
<1> DEFINE last == run[Len(text)]
<1>3. IsBuildRun(run, text, holds, files) /\ (p.ok <=> last.ok /\ Len(last.stack) = 1) /\ p.out = last.out
    BY <1>2 DEF Preprocesses
<1>4. LoopSays(d, text, holds, files, run, Len(text))
    <2>1. \A i \in 0..Len(text) : LoopSays(d, text, holds, files, run, i)
        BY <1>1, <1>3, RunSays
    <2> QED  BY <2>1
<1>5. last.ok => (Len(last.stack) = 1 <=> BlocksClosed(text))
    BY <1>1, <1>4, AllClosed DEF LoopSays
<1>6. p.ok <=> WellFormed(text, holds, files)
    <2>1. WellFormed(text, holds, files) <=>
            (\A i \in 1..Len(text) : GoodLine(d, text, holds, files, i)) /\ BlocksClosed(text)
        BY <1>1, WellFormedLines
    <2>2. last.ok <=> \A m \in 1..Len(text) : GoodLine(d, text, holds, files, m)
        BY <1>4 DEF LoopSays
    <2> HIDE DEF p, last
    <2> QED  BY <1>3, <1>5, <2>1, <2>2
<1>7. ASSUME p.ok PROVE p.out = Expanded(text, holds, files)
    <2>1. last.ok /\ BlocksClosed(text)
        BY <1>3, <1>5, <1>7
    <2>2. Expanded(text, holds, files) = last.out
        BY <1>1, <1>3, <1>4, <2>1, PartsAreExpanded
    <2> HIDE DEF p, last
    <2> QED  BY <1>3, <2>2
<1> QED  BY <1>6, <1>7

(* preprocess.go (Preprocess): the loop with its stack of frames accepts just *)
(* the texts whose directives match, and leaves just the lines of the        *)
(* branches that are taken, for any text, conditions and included files.     *)
THEOREM DirectivesAreExact == BuildSpec => []PreprocessExact
<1>1. BuildInit => project \in Projects
    BY DEF BuildInit
<1>2. project \in Projects /\ [BuildNext]_buildVars => (project \in Projects)'
    BY DEF BuildNext, buildVars, ResolveConfig, ReadManifest, ApplyOverrides, CheckMetadata, BuildImages, Stage, Write
<1>3. project \in Projects => PreprocessExact
    <2> SUFFICES ASSUME project \in Projects PROVE PreprocessExact
        OBVIOUS
    <2>1. /\ project.text \in Seq(ManifestLine)
          /\ AllTexts(project.includes)
        BY ProjectsAssumption, ProjectTexts
    <2> QED  BY <2>1, PreprocessIsExact DEF PreprocessExact, Source
<1> QED  BY <1>1, <1>2, <1>3, PTL DEF BuildSpec

-----------------------------------------------------------------------------
(* What a build packages                                                     *)

(* e lists a set of positions in their order.                                *)
Enumerates(e, n, A) ==
    /\ e \in [1..n -> A]
    /\ \A j, k \in 1..n : j < k => e[j] < e[k]
    /\ \A a \in A : \E k \in 1..n : e[k] = a

(* d has the lines of doc at the positions A, in order, as e says.           *)
Keeps(d, doc, A, e) ==
    /\ d \in Seq(ManifestLine) /\ Enumerates(e, Len(d), A)
    /\ \A k \in 1..Len(d) : d[k] = doc[e[k]]

(* One more line is kept.                                                    *)
LEMMA KeepsMore ==
    ASSUME NEW doc \in Seq(ManifestLine), NEW i \in 1..Len(doc), NEW A \in SUBSET (1..(i-1)),
           NEW d, NEW e, Keeps(d, doc, A, e)
    PROVE  \E g : Keeps(d \o <<doc[i]>>, doc, A \union {i}, g)
<1> DEFINE n == Len(d)
<1> DEFINE c == d \o <<doc[i]>>
<1> DEFINE g == [k \in 1..(n+1) |-> IF k = n + 1 THEN i ELSE e[k]]
<1>1. d \in Seq(ManifestLine) /\ doc[i] \in ManifestLine /\ n \in Nat /\ i \in Nat /\ A \subseteq 1..(i-1)
    BY DEF Keeps
<1>2. c \in Seq(ManifestLine) /\ Len(c) = n + 1 /\ c[n+1] = doc[i] /\ \A k \in 1..n : c[k] = d[k]
    <2>1. <<doc[i]>> \in Seq(ManifestLine) /\ Len(<<doc[i]>>) = 1 /\ <<doc[i]>>[1] = doc[i]
        BY <1>1
    <2> QED  BY <1>1, <2>1
<1>3. /\ e \in [1..n -> A] /\ \A j, k \in 1..n : j < k => e[j] < e[k]
      /\ (\A a \in A : \E k \in 1..n : e[k] = a) /\ \A k \in 1..n : d[k] = doc[e[k]]
    BY DEF Keeps, Enumerates
<1>4. \A k \in 1..(n+1) : k # n + 1 => k \in 1..n
    BY <1>1
<1>5. \A k \in 1..n : e[k] \in A /\ e[k] \in 1..(i-1) /\ k # n + 1 /\ k \in 1..(n+1)
    <2> HIDE DEF n, c, g
    <2>1. \A k \in 1..n : e[k] \in A
        BY <1>3
    <2>2. \A k \in 1..n : k # n + 1 /\ k \in 1..(n+1)
        BY <1>1
    <2> QED  BY <2>1, <2>2
<1> HIDE DEF n, c
<1>6. g \in [1..(n+1) -> A \union {i}]
    BY <1>4, <1>5
<1>7. \A j, k \in 1..(n+1) : j < k => g[j] < g[k]
    <2> SUFFICES ASSUME NEW j \in 1..(n+1), NEW k \in 1..(n+1), j < k PROVE g[j] < g[k]
        OBVIOUS
    <2>1. j \in 1..n /\ g[j] = e[j]
        BY <1>1, <1>4
    <2>2. CASE k = n + 1
        BY <1>1, <1>5, <2>1, <2>2
    <2>3. CASE k # n + 1
        <3>1. k \in 1..n /\ g[k] = e[k]
            BY <1>4, <2>3
        <3> QED  BY <1>3, <2>1, <3>1
    <2> QED  BY <2>2, <2>3
<1>8. \A a \in A \union {i} : \E k \in 1..(n+1) : g[k] = a
    <2> SUFFICES ASSUME NEW a \in A \union {i} PROVE \E k \in 1..(n+1) : g[k] = a
        OBVIOUS
    <2>1. CASE a = i
        <3>1. n + 1 \in 1..(n+1) /\ g[n+1] = i
            BY <1>1
        <3> QED  BY <2>1, <3>1
    <2>2. CASE a # i
        <3>1. PICK k \in 1..n : e[k] = a
            BY <1>3, <2>2
        <3>2. k \in 1..(n+1) /\ g[k] = e[k]
            BY <1>5
        <3> QED  BY <3>1, <3>2
    <2> QED  BY <2>1, <2>2
<1>9. \A k \in 1..(n+1) : c[k] = doc[g[k]]
    <2> SUFFICES ASSUME NEW k \in 1..(n+1) PROVE c[k] = doc[g[k]]
        OBVIOUS
    <2>1. CASE k = n + 1
        BY <1>2, <2>1
    <2>2. CASE k # n + 1
        <3>1. k \in 1..n /\ g[k] = e[k]
            BY <1>4, <2>2
        <3> QED  BY <1>2, <1>3, <3>1
    <2> QED  BY <2>1, <2>2
<1> HIDE DEF g
<1>10. Keeps(c, doc, A \union {i}, g)
    BY <1>2, <1>6, <1>7, <1>8, <1>9 DEF Keeps, Enumerates
<1> QED  BY <1>10 DEF c

(* Lines keeps the lines it is told to, in order.                            *)
LEMMA LinesKeeps ==
    ASSUME NEW doc \in Seq(ManifestLine), NEW A \in SUBSET (1..Len(doc))
    PROVE  \E e : Keeps(Lines(doc, A), doc, A, e)
<1> DEFINE n == Len(doc)
<1> DEFINE part(i) == IF i \in A THEN <<doc[i]>> ELSE <<>>
<1> DEFINE parts == [i \in 1..n |-> part(i)]
<1> DEFINE T == Seq(ManifestLine)
<1> DEFINE step == [q \in T \X (1..n) |-> q[1] \o part(q[2])]
<1>1. n \in Nat /\ DOMAIN doc = 1..n /\ <<>> \in T
    OBVIOUS
<1>2. \A i \in 1..n : part(i) \in T
    OBVIOUS
<1>3. step \in [T \X (1..n) -> T]
    <2> HIDE DEF part
    <2>1. \A x \in T, i \in 1..n : x \o part(i) \in T
        BY <1>2, ConcatProperties
    <2> HIDE DEF T, n
    <2> QED  BY <2>1
<1>4. PICK h : IsRun(h, n, T, <<>>, step)
    <2> HIDE DEF T, n, step
    <2> QED  BY <1>1, <1>3, RunExists
<1>5. h \in [0..n -> T] /\ h[0] = <<>> /\ \A i \in 1..n : h[i] = h[i-1] \o part(i)
    <2> HIDE DEF part
    <2>1. \A x \in T, i \in 1..n : step[<<x, i>>] = x \o part(i)
        OBVIOUS
    <2>2. \A i \in 1..n : i - 1 \in 0..n
        BY <1>1
    <2> HIDE DEF T, n, step
    <2> QED  BY <1>4, <2>1, <2>2 DEF IsRun
<1>6. Lines(doc, A) = h[n]
    <2>1. Lines(doc, A) = FlattenSeq(parts)
        BY <1>1 DEF Lines
    <2> HIDE DEF part
    <2>2. Appends(h, parts, n, ManifestLine)
        BY <1>1, <1>2, <1>5 DEF Appends
    <2> HIDE DEF parts, n
    <2> QED  BY <1>1, <2>1, <2>2, FlattenRuns
<1>a. \A a \in A : a \in Nat /\ 1 <= a /\ a <= n
    OBVIOUS
<1> DEFINE S == {i \in 0..n : \E e : Keeps(h[i], doc, {a \in A : a <= i}, e)}
<1> HIDE DEF n, parts, step
<1>7. 0 \in S
    <2> DEFINE none == [k \in 1..0 |-> 0]
    <2>0. {a \in A : a <= 0} = {}
        <3>1. ASSUME NEW a \in A, a <= 0 PROVE FALSE
            <4>1. a \in Nat /\ 1 <= a
                BY <1>a
            <4> QED  BY <3>1, <4>1
        <3> QED  BY <3>1
    <2>1. {a \in A : a <= 0} = {} /\ 0 \in 0..n /\ Len(<<>>) = 0 /\ 1..0 = {}
        <3>1. 0 \in 0..n /\ 1..0 = {} /\ Len(<<>>) = 0
            BY <1>1
        <3> QED  BY <2>0, <3>1
    <2>2. Keeps(<<>>, doc, {}, none)
        BY <2>1 DEF Keeps, Enumerates
    <2> HIDE DEF none
    <2> QED  BY <1>5, <2>1, <2>2
<1>8. ASSUME NEW i \in 0..(n-1), i \in S PROVE i + 1 \in S
    <2>1. i + 1 \in 1..n /\ i + 1 \in 0..n /\ (i + 1) - 1 = i /\ i \in Nat /\ i \in 0..n
        BY <1>1
    <2>2. h[i+1] = h[i] \o part(i+1) /\ h[i] \in T
        <3> HIDE DEF part, T
        <3> QED  BY <1>5, <2>1
    <2>3. PICK e : Keeps(h[i], doc, {a \in A : a <= i}, e)
        BY <1>8
    <2>4. CASE i + 1 \in A
        <3>1. part(i+1) = <<doc[i+1]>>
            BY <2>4
        <3>2. {a \in A : a <= i} \in SUBSET (1..((i+1)-1))
            <4>1. \A a \in A : a <= i => a \in 1..((i+1)-1)
                BY <1>a, <2>1
            <4> QED  BY <4>1
        <3>3. {a \in A : a <= i + 1} = {a \in A : a <= i} \union {i + 1}
            <4>1. \A a \in A : a <= i + 1 <=> a <= i \/ a = i + 1
                BY <1>a, <2>1
            <4> QED  BY <2>4, <4>1
        <3>4. \E g : Keeps(h[i] \o <<doc[i+1]>>, doc, {a \in A : a <= i} \union {i + 1}, g)
            <4> DEFINE B == {a \in A : a <= i}
            <4>1. i + 1 \in 1..Len(doc) /\ B \in SUBSET (1..((i+1)-1)) /\ Keeps(h[i], doc, B, e)
                BY <2>1, <2>3, <3>2 DEF n
            <4> HIDE DEF B
            <4>2. \E g : Keeps(h[i] \o <<doc[i+1]>>, doc, B \union {i + 1}, g)
                BY <4>1, KeepsMore
            <4> QED  BY <4>2 DEF B
        <3> HIDE DEF part
        <3> QED  BY <2>1, <2>2, <3>1, <3>3, <3>4
    <2>5. CASE i + 1 \notin A
        <3>1. part(i+1) = <<>>
            BY <2>5
        <3>2. {a \in A : a <= i + 1} = {a \in A : a <= i}
            <4>1. \A a \in A : a <= i + 1 <=> a <= i
                <5>1. \A a \in A : a # i + 1
                    BY <2>5
                <5> QED  BY <1>a, <2>1, <5>1
            <4> QED  BY <4>1
        <3>3. h[i] \o <<>> = h[i]
            BY <2>2, ConcatEmptySeq
        <3> HIDE DEF part
        <3> QED  BY <2>1, <2>2, <2>3, <3>1, <3>2, <3>3
    <2> QED  BY <2>4, <2>5
<1>9. n \in S
    <2>1. 0..n \subseteq S
        <3> HIDE DEF S, n
        <3> QED  BY <1>1, <1>7, <1>8, SetInduction
    <2> HIDE DEF S
    <2> QED  BY <1>1, <2>1
<1>10. {a \in A : a <= n} = A
    BY <1>a
<1> QED  BY <1>6, <1>9, <1>10

(* What is the same line by line, in order, is the same.                     *)
LEMMA SameLines ==
    ASSUME NEW d, NEW doc, NEW A \in SUBSET Nat, NEW e, Keeps(d, doc, A, e),
           NEW d2, NEW doc2, NEW A2 \in SUBSET Nat, NEW e2, Keeps(d2, doc2, A2, e2),
           NEW f \in [A -> A2], \A a \in A : doc2[f[a]] = doc[a],
           \A a, b \in A : a < b => f[a] < f[b], \A b \in A2 : \E a \in A : f[a] = b
    PROVE  d = d2
<1> DEFINE n == Len(d)
<1> DEFINE m == Len(d2)
<1> DEFINE g == [k \in 1..n |-> f[e[k]]]
<1>1. /\ d \in Seq(ManifestLine) /\ d2 \in Seq(ManifestLine) /\ n \in Nat /\ m \in Nat
      /\ e \in [1..n -> A] /\ e2 \in [1..m -> A2]
      /\ \A j, k \in 1..n : j < k => e[j] < e[k]
      /\ \A j, k \in 1..m : j < k => e2[j] < e2[k]
      /\ \A a \in A : \E k \in 1..n : e[k] = a
      /\ \A a \in A2 : \E k \in 1..m : e2[k] = a
      /\ \A k \in 1..n : d[k] = doc[e[k]]
      /\ \A k \in 1..m : d2[k] = doc2[e2[k]]
    BY DEF Keeps, Enumerates
<1> HIDE DEF n, m
<1>2. /\ \A k \in 1..n : g[k] \in A2 /\ doc2[g[k]] = d[k] /\ g[k] \in Nat
      /\ \A j, k \in 1..n : j < k => g[j] < g[k]
      /\ \A b \in A2 : \E k \in 1..n : g[k] = b
    <2>1. \A k \in 1..n : e[k] \in A /\ g[k] = f[e[k]]
        BY <1>1
    <2>2. \A b \in A2 : \E k \in 1..n : g[k] = b
        <3> SUFFICES ASSUME NEW b \in A2 PROVE \E k \in 1..n : g[k] = b
            OBVIOUS
        <3>1. PICK a \in A : f[a] = b
            OBVIOUS
        <3>2. PICK k \in 1..n : e[k] = a
            BY <1>1
        <3> HIDE DEF g
        <3> QED  BY <2>1, <3>1, <3>2
    <2>3. ASSUME NEW k \in 1..n PROVE g[k] \in A2 /\ doc2[g[k]] = d[k] /\ g[k] \in Nat
        <3>1. e[k] \in A /\ g[k] = f[e[k]] /\ d[k] = doc[e[k]]
            BY <1>1
        <3> HIDE DEF g
        <3> QED  BY <3>1
    <2>4. ASSUME NEW j \in 1..n, NEW k \in 1..n, j < k PROVE g[j] < g[k]
        <3>1. e[j] \in A /\ e[k] \in A /\ e[j] < e[k]
            BY <1>1, <2>4
        <3> HIDE DEF g
        <3> QED  BY <2>1, <3>1
    <2> HIDE DEF g
    <2> QED  BY <2>2, <2>3, <2>4
<1>3. \A k \in 1..m : e2[k] \in A2 /\ e2[k] \in Nat
    BY <1>1
<1> HIDE DEF g
<1> DEFINE S == {i \in 0..n : \A k \in 1..i : k \in 1..m /\ e2[k] = g[k]}
<1>4. 0 \in S
    BY <1>1
<1>5. ASSUME NEW i \in 0..(n-1), i \in S PROVE i + 1 \in S
    <2>1. i + 1 \in 1..n /\ i + 1 \in 0..n /\ i \in Nat
        BY <1>1
    <2>2. \A k \in 1..i : k \in 1..m /\ k \in 1..n /\ e2[k] = g[k]
        BY <1>1, <1>5, <2>1
    <2>3. PICK k \in 1..m : e2[k] = g[i+1]
        BY <1>1, <1>2, <2>1
    <2>4. k >= i + 1
        <3> SUFFICES ASSUME k < i + 1 PROVE FALSE
            BY <2>1
        <3>1. k \in 1..i /\ k < i + 1
            BY <2>1
        <3>2. g[k] < g[i+1] /\ g[k] = g[i+1]
            BY <1>2, <2>1, <2>2, <2>3, <3>1
        <3>3. g[k] \in Nat
            BY <1>2, <2>2, <3>1
        <3> QED  BY <3>2, <3>3
    <2>5. i + 1 \in 1..m
        BY <1>1, <2>1, <2>4
    <2>6. PICK j \in 1..n : g[j] = e2[i+1]
        BY <1>2, <1>3, <2>5
    <2>7. j >= i + 1
        <3> SUFFICES ASSUME j < i + 1 PROVE FALSE
            BY <2>1
        <3>1. j \in 1..i /\ j < i + 1
            BY <2>1
        <3>2. e2[j] < e2[i+1] /\ e2[j] = e2[i+1] /\ j \in 1..m
            BY <1>1, <2>2, <2>5, <2>6, <3>1
        <3>3. e2[j] \in Nat
            BY <1>3, <3>2
        <3> QED  BY <3>2, <3>3
    <2>8. e2[i+1] <= g[i+1]
        <3>1. k = i + 1 \/ i + 1 < k
            BY <2>1, <2>4
        <3>2. k = i + 1 \/ e2[i+1] < e2[k]
            BY <1>1, <2>5, <3>1
        <3>3. e2[i+1] \in Nat /\ e2[k] \in Nat
            BY <1>3, <2>5
        <3> QED  BY <2>3, <3>2, <3>3
    <2>9. g[i+1] <= e2[i+1]
        <3>1. j = i + 1 \/ i + 1 < j
            BY <2>1, <2>7
        <3>2. j = i + 1 \/ g[i+1] < g[j]
            BY <1>2, <2>1, <3>1
        <3>3. g[i+1] \in Nat /\ g[j] \in Nat
            BY <1>2, <2>1
        <3> QED  BY <2>6, <3>2, <3>3
    <2>10. e2[i+1] = g[i+1]
        BY <1>2, <1>3, <2>1, <2>5, <2>8, <2>9
    <2>11. \A l \in 1..(i+1) : l \in 1..i \/ l = i + 1
        BY <2>1
    <2> QED  BY <2>1, <2>2, <2>5, <2>10, <2>11
<1>6. n \in S
    <2>1. 0..n \subseteq S
        <3> HIDE DEF S
        <3> QED  BY <1>1, <1>4, <1>5, SetInduction
    <2> HIDE DEF S
    <2>2. n \in 0..n
        BY <1>1
    <2> QED  BY <2>1, <2>2
<1>7. \A k \in 1..n : k \in 1..m /\ e2[k] = g[k]
    BY <1>6
<1>8. n = m
    <2>1. n <= m
        <3>1. n # 0 => n \in 1..n
            BY <1>1
        <3> QED  BY <1>1, <1>7, <3>1
    <2>2. ASSUME n < m PROVE FALSE
        <3>1. n + 1 \in 1..m
            BY <1>1, <2>2
        <3>2. PICK k \in 1..n : g[k] = e2[n+1]
            BY <1>2, <1>3, <3>1
        <3>3. k < n + 1 /\ k \in 1..m /\ e2[k] = e2[n+1]
            BY <1>1, <1>7, <3>2
        <3>4. e2[k] < e2[n+1] /\ e2[k] \in Nat
            BY <1>1, <1>3, <3>1, <3>3
        <3> QED  BY <3>3, <3>4
    <2> QED  BY <1>1, <2>1, <2>2
<1>9. \A k \in 1..n : d[k] = d2[k]
    <2> SUFFICES ASSUME NEW k \in 1..n PROVE d[k] = d2[k]
        OBVIOUS
    <2>1. k \in 1..m /\ e2[k] = g[k] /\ doc2[g[k]] = d[k]
        BY <1>2, <1>7
    <2>2. d2[k] = doc2[e2[k]]
        BY <1>1, <2>1
    <2> QED  BY <2>1, <2>2
<1> QED  BY <1>1, <1>8, <1>9, SeqEqual DEF n, m

(* A document: lines with keys, the first of which is no line of a mapping.   *)
IsDoc(doc) ==
    /\ doc \in Seq(ManifestLine)
    /\ \A i \in DOMAIN doc : HasKey(doc[i])
    /\ doc # <<>> => doc[1].ind = 0

(* The line of the top-level field that a line is of, and its key.           *)
TopLine(doc, i) == IF doc[i].ind = 0 THEN i ELSE Owner(doc, i)
TopKey(doc, i) == doc[TopLine(doc, i)].key

IsTop(doc, i, o) ==
    o \in 1..i /\ doc[o].ind = 0 /\ \A j \in (o+1)..i : doc[j].ind = 1

(* The lines of a document's top-level field are those below it.             *)
LEMMA TopLines ==
    ASSUME NEW doc, IsDoc(doc), NEW i \in 1..Len(doc)
    PROVE  /\ IsTop(doc, i, TopLine(doc, i))
           /\ \A o : IsTop(doc, i, o) => o = TopLine(doc, i)
           /\ Owner(doc, i) = IF doc[i].ind = 0 THEN 0 ELSE TopLine(doc, i)
<1> DEFINE above == {j \in 1..i-1 : HasKey(doc[j]) /\ doc[j].ind = 0}
<1> DEFINE t == TopLine(doc, i)
<1>1. /\ i \in Nat \ {0} /\ Len(doc) \in Nat /\ DOMAIN doc = 1..Len(doc)
      /\ \A j \in 1..i : j \in DOMAIN doc /\ HasKey(doc[j]) /\ doc[j].ind \in {0, 1}
    <2>1. doc \in Seq(ManifestLine) /\ DOMAIN doc = 1..Len(doc) /\ Len(doc) \in Nat
        BY DEF IsDoc
    <2>2. \A j \in 1..Len(doc) : HasKey(doc[j]) /\ doc[j].ind \in {0, 1}
        BY <2>1 DEF IsDoc, ManifestLine
    <2>3. 1..i \subseteq 1..Len(doc)
        BY <2>1
    <2> QED  BY <2>1, <2>2, <2>3
<1>2. doc[1].ind = 0
    <2>1. doc # <<>>
        BY <1>1
    <2> QED  BY <2>1 DEF IsDoc
<1>3. Owner(doc, i) = IF doc[i].ind = 0 \/ above = {} THEN 0 ELSE Max(above)
    BY DEF Owner
<1>4. ASSUME doc[i].ind # 0 PROVE /\ above # {} /\ t = Max(above) /\ Owner(doc, i) = t
                                  /\ t \in above /\ \A j \in above : j <= t
    <2>1. i - 1 \in Nat /\ above \in SUBSET (1..(i-1))
        BY <1>1
    <2>2. 1 \in above
        <3>1. i # 1
            BY <1>2, <1>4
        <3> QED  BY <1>1, <1>2, <3>1
    <2> HIDE DEF above
    <2>3. Max(above) \in above /\ \A x \in above : x <= Max(above)
        BY <2>1, <2>2, MaxOfPositions
    <2> QED  BY <1>3, <1>4, <2>2, <2>3 DEF TopLine
<1>5. IsTop(doc, i, t)
    <2>1. CASE doc[i].ind = 0
        BY <1>1, <2>1 DEF IsTop, TopLine
    <2>2. CASE doc[i].ind # 0
        <3>1. t \in 1..i /\ t \in 1..(i-1) /\ doc[t].ind = 0
            BY <1>1, <1>4, <2>2
        <3>2. ASSUME NEW j \in (t+1)..i PROVE doc[j].ind = 1
            <4> HIDE DEF t
            <4>1. j \in 1..i /\ (j = i \/ j \in 1..(i-1)) /\ ~(j <= t)
                BY <1>1, <3>1
            <4>2. CASE j = i
                BY <1>1, <2>2, <4>2
            <4>3. CASE j # i
                <5>1. j \notin above
                    BY <1>4, <2>2, <4>1
                <5> QED  BY <1>1, <4>1, <4>3, <5>1
            <4> QED  BY <4>2, <4>3
        <3> HIDE DEF t
        <3> QED  BY <3>1, <3>2 DEF IsTop
    <2> QED  BY <2>1, <2>2
<1>6. ASSUME NEW o, IsTop(doc, i, o) PROVE o = t
    <2> HIDE DEF t
    <2>1. /\ o \in 1..i /\ doc[o].ind = 0 /\ \A j \in (o+1)..i : doc[j].ind = 1
          /\ t \in 1..i /\ doc[t].ind = 0 /\ \A j \in (t+1)..i : doc[j].ind = 1
        BY <1>5, <1>6 DEF IsTop
    <2>2. ~(o < t)
        <3> SUFFICES ASSUME o < t PROVE FALSE
            OBVIOUS
        <3>1. t \in (o+1)..i
            BY <1>1, <2>1
        <3> QED  BY <2>1, <3>1
    <2>3. ~(t < o)
        <3> SUFFICES ASSUME t < o PROVE FALSE
            OBVIOUS
        <3>1. o \in (t+1)..i
            BY <1>1, <2>1
        <3> QED  BY <2>1, <3>1
    <2> QED  BY <1>1, <2>1, <2>2, <2>3
<1>7. Owner(doc, i) = IF doc[i].ind = 0 THEN 0 ELSE t
    BY <1>3, <1>4
<1> QED  BY <1>5, <1>6, <1>7

(* What is known of a line of a document.                                    *)
LEMMA LinesOfDoc ==
    ASSUME NEW doc, IsDoc(doc), NEW i \in 1..Len(doc)
    PROVE  /\ DOMAIN doc = 1..Len(doc) /\ Len(doc) \in Nat /\ doc[i] \in ManifestLine
           /\ HasKey(doc[i]) /\ doc[i].ind \in {0, 1} /\ doc[i].key \in STRING /\ doc[i].val \in STRING
           /\ doc[i].ind = 0 => TopLine(doc, i) = i /\ TopKey(doc, i) = doc[i].key /\ Owner(doc, i) = 0
           /\ doc[i].ind = 1 => Owner(doc, i) = TopLine(doc, i)
           /\ TopLine(doc, i) \in 1..i /\ TopLine(doc, i) \in 1..Len(doc) /\ doc[TopLine(doc, i)].ind = 0
           /\ TopKey(doc, i) = doc[TopLine(doc, i)].key /\ TopKey(doc, TopLine(doc, i)) = TopKey(doc, i)
<1>1. doc \in Seq(ManifestLine) /\ DOMAIN doc = 1..Len(doc) /\ Len(doc) \in Nat /\ doc[i] \in ManifestLine
    BY DEF IsDoc
<1>2. HasKey(doc[i]) /\ doc[i].ind \in {0, 1} /\ doc[i].key \in STRING /\ doc[i].val \in STRING
    BY <1>1 DEF IsDoc, ManifestLine
<1> DEFINE t == TopLine(doc, i)
<1>3. IsTop(doc, i, t) /\ Owner(doc, i) = IF doc[i].ind = 0 THEN 0 ELSE t
    BY TopLines
<1>4. t \in 1..i /\ doc[t].ind = 0
    BY <1>3 DEF IsTop
<1>5. doc[i].ind = 0 => t = i
    BY DEF TopLine
<1>6. TopLine(doc, t) = t
    BY <1>4 DEF TopLine
<1> HIDE DEF t
<1>7. t \in 1..Len(doc)
    BY <1>1, <1>4
<1> QED  BY <1>1, <1>2, <1>3, <1>4, <1>5, <1>6, <1>7 DEF TopKey, t

(* No key comes twice in a mapping.                                          *)
Distinct(doc) ==
    \A i, j \in DOMAIN doc :
       doc[i].ind = doc[j].ind /\ doc[i].key = doc[j].key /\ TopKey(doc, i) = TopKey(doc, j) => i = j

(* The pairs of a document's mapping.                                        *)
LEMMA TopPairs ==
    ASSUME NEW doc, IsDoc(doc), NEW key
    PROVE  Pairs(doc, 0, key) = {i \in 1..Len(doc) : doc[i].ind = 0 /\ doc[i].key = key}
<1>1. ASSUME NEW i \in 1..Len(doc) PROVE HasKey(doc[i]) /\ (Owner(doc, i) = 0 <=> doc[i].ind = 0)
    <2>1. HasKey(doc[i]) /\ doc[i].ind \in {0, 1} /\ TopLine(doc, i) \in 1..i
          /\ (doc[i].ind = 0 => Owner(doc, i) = 0) /\ (doc[i].ind = 1 => Owner(doc, i) = TopLine(doc, i))
        BY LinesOfDoc
    <2>2. TopLine(doc, i) # 0
        BY <2>1
    <2> QED  BY <2>1, <2>2
<1>2. DOMAIN doc = 1..Len(doc)
    BY DEF IsDoc
<1> QED  BY <1>1, <1>2 DEF Pairs

LEMMA NoDuplicatesIsDistinct ==
    ASSUME NEW doc, IsDoc(doc)
    PROVE  NoDuplicates(doc) <=> Distinct(doc)
<1> DEFINE P(i) == Pairs(doc, Owner(doc, i), doc[i].key)
<1>1. DOMAIN doc = 1..Len(doc) /\ Len(doc) \in Nat
    BY DEF IsDoc
<1>2. \A i \in 1..Len(doc) :
          /\ HasKey(doc[i]) /\ doc[i].ind \in {0, 1}
          /\ doc[i].ind = 0 => TopLine(doc, i) = i /\ TopKey(doc, i) = doc[i].key /\ Owner(doc, i) = 0
          /\ doc[i].ind = 1 => Owner(doc, i) = TopLine(doc, i)
          /\ TopLine(doc, i) \in 1..Len(doc) /\ doc[TopLine(doc, i)].ind = 0
          /\ TopKey(doc, i) = doc[TopLine(doc, i)].key
    BY LinesOfDoc
<1>3. \A i \in 1..Len(doc) : i \in P(i)
    BY <1>1, <1>2 DEF Pairs
<1>4. ASSUME NEW i \in 1..Len(doc)
      PROVE  Cardinality(P(i)) = 1 <=> \A j \in P(i) : j = i
    <2>1. P(i) \subseteq 1..Len(doc) /\ IsFiniteSet(1..Len(doc))
        BY <1>1, FS_Interval DEF Pairs
    <2>2. i \in P(i)
        BY <1>3
    <2> HIDE DEF P
    <2>3. IsFiniteSet(P(i)) /\ Cardinality(P(i)) \in Nat
        BY <2>1, FS_Subset, FS_CardinalityType
    <2>4. Cardinality(P(i)) # 0
        BY <2>2, <2>3, FS_EmptySet
    <2>5. Cardinality(P(i)) <= 1 <=> \A x, y \in P(i) : x = y
        BY <2>3, AtMostOne
    <2> QED  BY <2>2, <2>3, <2>4, <2>5
<1>5. ASSUME NoDuplicates(doc), NEW i \in 1..Len(doc), NEW j \in 1..Len(doc),
             doc[i].ind = doc[j].ind, doc[i].key = doc[j].key, TopKey(doc, i) = TopKey(doc, j)
      PROVE  i = j
    <2>1. \A k \in 1..Len(doc), l \in 1..Len(doc) : Owner(doc, k) = Owner(doc, l) /\ doc[k].key = doc[l].key => k = l
        <3> SUFFICES ASSUME NEW k \in 1..Len(doc), NEW l \in 1..Len(doc),
                            Owner(doc, k) = Owner(doc, l), doc[k].key = doc[l].key
                     PROVE  k = l
            OBVIOUS
        <3>1. Cardinality(P(k)) = 1 /\ l \in P(k)
            BY <1>1, <1>2, <1>5 DEF NoDuplicates, Pairs
        <3> HIDE DEF P
        <3> QED  BY <1>4, <3>1
    <2>a. /\ doc[i].ind \in {0, 1}
          /\ doc[i].ind = 0 => TopLine(doc, i) = i /\ TopKey(doc, i) = doc[i].key /\ Owner(doc, i) = 0
          /\ doc[i].ind = 1 => Owner(doc, i) = TopLine(doc, i)
          /\ TopLine(doc, i) \in 1..Len(doc) /\ doc[TopLine(doc, i)].ind = 0
          /\ TopKey(doc, i) = doc[TopLine(doc, i)].key
        BY <1>2
    <2>b. /\ doc[j].ind \in {0, 1}
          /\ doc[j].ind = 0 => TopLine(doc, j) = j /\ TopKey(doc, j) = doc[j].key /\ Owner(doc, j) = 0
          /\ doc[j].ind = 1 => Owner(doc, j) = TopLine(doc, j)
          /\ TopLine(doc, j) \in 1..Len(doc) /\ doc[TopLine(doc, j)].ind = 0
          /\ TopKey(doc, j) = doc[TopLine(doc, j)].key
        BY <1>2
    <2>2. CASE doc[i].ind = 0
        <3>1. Owner(doc, i) = Owner(doc, j)
            BY <1>5, <2>2, <2>a, <2>b
        <3> QED  BY <1>5, <2>1, <3>1
    <2>3. CASE doc[i].ind = 1
        <3> DEFINE a == TopLine(doc, i)
        <3> DEFINE b == TopLine(doc, j)
        <3>1. /\ a \in 1..Len(doc) /\ b \in 1..Len(doc) /\ doc[a].ind = 0 /\ doc[b].ind = 0
              /\ doc[a].key = doc[b].key /\ Owner(doc, i) = a /\ Owner(doc, j) = b
            BY <1>5, <2>3, <2>a, <2>b
        <3> HIDE DEF a, b
        <3>2. Owner(doc, a) = 0 /\ Owner(doc, b) = 0
            BY <1>2, <3>1
        <3>3. a = b
            BY <2>1, <3>1, <3>2
        <3> QED  BY <1>5, <2>1, <3>1, <3>3
    <2> QED  BY <1>2, <2>2, <2>3
<1>6. ASSUME Distinct(doc), NEW i \in 1..Len(doc), NEW j \in P(i) PROVE j = i
    <2>1. j \in 1..Len(doc) /\ doc[j].key = doc[i].key /\ Owner(doc, j) = Owner(doc, i)
        BY <1>1 DEF Pairs
    <2>2. doc[i].ind = doc[j].ind /\ TopKey(doc, i) = TopKey(doc, j)
        <3>a. /\ doc[i].ind \in {0, 1}
              /\ doc[i].ind = 0 => TopLine(doc, i) = i /\ TopKey(doc, i) = doc[i].key /\ Owner(doc, i) = 0
              /\ doc[i].ind = 1 => Owner(doc, i) = TopLine(doc, i)
              /\ TopLine(doc, i) \in 1..Len(doc) /\ doc[TopLine(doc, i)].ind = 0
              /\ TopKey(doc, i) = doc[TopLine(doc, i)].key
            BY <1>2
        <3>b. /\ doc[j].ind \in {0, 1}
              /\ doc[j].ind = 0 => TopLine(doc, j) = j /\ TopKey(doc, j) = doc[j].key /\ Owner(doc, j) = 0
              /\ doc[j].ind = 1 => Owner(doc, j) = TopLine(doc, j)
              /\ TopLine(doc, j) \in 1..Len(doc) /\ doc[TopLine(doc, j)].ind = 0
              /\ TopKey(doc, j) = doc[TopLine(doc, j)].key
            BY <1>2, <2>1
        <3>1. TopLine(doc, i) # 0 /\ TopLine(doc, j) # 0
            BY <1>1, <3>a, <3>b
        <3> HIDE DEF P
        <3> QED  BY <2>1, <3>a, <3>b, <3>1
    <2> HIDE DEF P
    <2> QED  BY <1>1, <1>6, <2>1, <2>2 DEF Distinct
<1>7. NoDuplicates(doc) => Distinct(doc)
    BY <1>1, <1>5 DEF Distinct
<1>8. Distinct(doc) => NoDuplicates(doc)
    <2> SUFFICES ASSUME Distinct(doc), NEW i \in 1..Len(doc) PROVE Cardinality(P(i)) = 1
        BY <1>1 DEF NoDuplicates
    <2> HIDE DEF P
    <2> QED  BY <1>4, <1>6
<1> QED  BY <1>7, <1>8

(* The first pair of a key, when there is no other, with the lines below it. *)
LEMMA PairIsTop ==
    ASSUME NEW doc, IsDoc(doc), Distinct(doc), NEW key
    PROVE  Pair(doc, key) = {i \in 1..Len(doc) : TopKey(doc, i) = key}
<1> DEFINE pairs == Pairs(doc, 0, key)
<1> DEFINE first == {i \in pairs : \A j \in pairs : i <= j}
<1>1. DOMAIN doc = 1..Len(doc) /\ Len(doc) \in Nat
    BY DEF IsDoc
<1>2. pairs = {i \in 1..Len(doc) : doc[i].ind = 0 /\ doc[i].key = key}
    BY TopPairs
<1>3. \A i \in 1..Len(doc) :
          /\ doc[i].ind \in {0, 1} /\ TopLine(doc, i) \in 1..Len(doc) /\ doc[TopLine(doc, i)].ind = 0
          /\ doc[i].ind = 0 => TopLine(doc, i) = i /\ TopKey(doc, i) = doc[i].key
          /\ doc[i].ind = 1 => Owner(doc, i) = TopLine(doc, i)
          /\ TopKey(doc, i) = doc[TopLine(doc, i)].key
    BY LinesOfDoc
<1>4. first = pairs
    <2>1. \A i, j \in pairs : i = j /\ i \in Nat
        BY <1>1, <1>2, <1>3 DEF Distinct
    <2> HIDE DEF pairs
    <2> QED  BY <2>1
<1>5. Pair(doc, key) = pairs \union {j \in 1..Len(doc) : doc[j].ind = 1 /\ Owner(doc, j) \in pairs}
    <2> HIDE DEF pairs
    <2> QED  BY <1>1, <1>4 DEF Pair, pairs
<1> HIDE DEF pairs, first
<1>6. ASSUME NEW i \in 1..Len(doc) PROVE i \in Pair(doc, key) <=> TopKey(doc, i) = key
    <2>1. CASE doc[i].ind = 0
        BY <1>2, <1>3, <1>5, <2>1
    <2>2. CASE doc[i].ind = 1
        BY <1>2, <1>3, <1>5, <2>2
    <2> QED  BY <1>3, <2>1, <2>2
<1>7. Pair(doc, key) \subseteq 1..Len(doc)
    BY <1>2, <1>5
<1> QED  BY <1>6, <1>7

(* The value of a key, and that there is none.                               *)
LEMMA ValueIs ==
    ASSUME NEW doc, IsDoc(doc), Distinct(doc), NEW key
    PROVE  /\ \A i \in 1..Len(doc) : doc[i].ind = 0 /\ doc[i].key = key => Has(doc, key) /\ Value(doc, key) = doc[i].val
           /\ (\A i \in 1..Len(doc) : ~(doc[i].ind = 0 /\ doc[i].key = key)) => ~Has(doc, key) /\ Value(doc, key) = ""
<1> DEFINE pairs == Pairs(doc, 0, key)
<1>1. DOMAIN doc = 1..Len(doc) /\ Len(doc) \in Nat
    BY DEF IsDoc
<1>2. pairs = {i \in 1..Len(doc) : doc[i].ind = 0 /\ doc[i].key = key}
    BY TopPairs
<1>3. ASSUME NEW i \in 1..Len(doc), doc[i].ind = 0, doc[i].key = key PROVE Min(pairs) = i
    <2>1. i \in pairs /\ pairs \in SUBSET (1..Len(doc)) /\ pairs # {}
        BY <1>2, <1>3
    <2>2. \A j \in 1..Len(doc) : doc[j].ind = 0 => TopKey(doc, j) = doc[j].key
        BY LinesOfDoc
    <2>3. \A j \in pairs : j = i
        BY <1>1, <1>2, <2>1, <2>2 DEF Distinct
    <2> HIDE DEF pairs
    <2>4. Min(pairs) \in pairs
        BY <1>1, <2>1, MinOfPositions
    <2> QED  BY <2>3, <2>4
<1>4. ASSUME NEW i \in 1..Len(doc), doc[i].ind = 0, doc[i].key = key PROVE Has(doc, key) /\ Value(doc, key) = doc[i].val
    <2>1. i \in pairs
        BY <1>2, <1>4
    <2>2. Has(doc, key)
        BY <2>1 DEF Has
    <2> QED  BY <1>3, <1>4, <2>2 DEF Value
<1>5. ASSUME \A i \in 1..Len(doc) : ~(doc[i].ind = 0 /\ doc[i].key = key) PROVE ~Has(doc, key) /\ Value(doc, key) = ""
    <2>1. pairs = {}
        BY <1>2, <1>5
    <2> QED  BY <2>1 DEF Has, Value
<1> QED  BY <1>4, <1>5

(* Which lines are kept decides what they are.                               *)
LEMMA KeepsOnce ==
    ASSUME NEW doc, NEW A \in SUBSET Nat, NEW d, NEW e, Keeps(d, doc, A, e), NEW d2, NEW e2, Keeps(d2, doc, A, e2)
    PROVE  d = d2
<1> DEFINE f == [i \in A |-> i]
<1>1. /\ f \in [A -> A]
      /\ \A i \in A : doc[f[i]] = doc[i]
      /\ \A i, j \in A : i < j => f[i] < f[j]
      /\ \A j \in A : \E i \in A : f[i] = j
    OBVIOUS
<1> HIDE DEF f
<1> QED  BY <1>1, SameLines

(* Lines that are kept with the fields they are of are a document again.     *)
Copies(d, doc, A, e) ==
    /\ Keeps(d, doc, A, e) /\ IsDoc(d)
    /\ \A k \in 1..Len(d) : TopKey(d, k) = TopKey(doc, e[k])

LEMMA LinesAreDoc ==
    ASSUME NEW doc, IsDoc(doc), NEW A \in SUBSET (1..Len(doc)), \A i \in A : TopLine(doc, i) \in A
    PROVE  \E e : Copies(Lines(doc, A), doc, A, e)
<1> DEFINE d == Lines(doc, A)
<1>1. doc \in Seq(ManifestLine) /\ Len(doc) \in Nat
    BY DEF IsDoc
<1>2. PICK e : Keeps(d, doc, A, e)
    BY <1>1, LinesKeeps
<1> HIDE DEF d
<1> DEFINE n == Len(d)
<1>3. /\ d \in Seq(ManifestLine) /\ n \in Nat /\ DOMAIN d = 1..n
      /\ \A k \in 1..n : e[k] \in A /\ e[k] \in 1..Len(doc) /\ d[k] = doc[e[k]]
      /\ \A j, k \in 1..n : j < k => e[j] < e[k]
      /\ \A a \in A : \E k \in 1..n : e[k] = a
    <2>1. /\ d \in Seq(ManifestLine) /\ e \in [1..n -> A]
          /\ \A k \in 1..n : d[k] = doc[e[k]]
          /\ \A j, k \in 1..n : j < k => e[j] < e[k]
          /\ \A a \in A : \E k \in 1..n : e[k] = a
        BY <1>2 DEF Keeps, Enumerates
    <2>2. n \in Nat /\ DOMAIN d = 1..n
        BY <2>1
    <2>3. ASSUME NEW k \in 1..n PROVE e[k] \in A /\ e[k] \in 1..Len(doc)
        BY <2>1
    <2> QED  BY <2>1, <2>2, <2>3
<1> HIDE DEF n
<1>4. ASSUME NEW k \in 1..n
      PROVE  \E m \in 1..k : IsTop(d, k, m) /\ e[m] = TopLine(doc, e[k])
    <2> DEFINE t == TopLine(doc, e[k])
    <2>1. e[k] \in A /\ e[k] \in 1..Len(doc)
        BY <1>3
    <2>2. IsTop(doc, e[k], t)
        BY <2>1, TopLines
    <2>3. t \in A
        BY <2>1
    <2> HIDE DEF t
    <2>4. PICK m \in 1..n : e[m] = t
        BY <1>3, <2>3
    <2>5. t \in 1..e[k] /\ doc[t].ind = 0 /\ (\A j \in (t+1)..e[k] : doc[j].ind = 1) /\ e[k] \in Nat /\ t \in Nat
        BY <1>1, <2>1, <2>2 DEF IsTop
    <2>6. m \in 1..k
        <3>1. ~(k < m)
            <4> SUFFICES ASSUME k < m PROVE FALSE
                OBVIOUS
            <4>1. e[k] < t
                BY <1>3, <2>4
            <4> QED  BY <2>5, <4>1
        <3> QED  BY <1>3, <3>1
    <2>7. d[m].ind = 0
        BY <1>3, <2>4, <2>5
    <2>8. ASSUME NEW j \in (m+1)..k PROVE d[j].ind = 1
        <3>1. j \in 1..n /\ m < j /\ (j = k \/ j < k)
            BY <1>3, <2>6
        <3>2. e[m] < e[j] /\ (e[j] = e[k] \/ e[j] < e[k]) /\ e[j] \in 1..Len(doc)
            BY <1>3, <3>1
        <3>3. e[j] \in (t+1)..e[k]
            BY <1>1, <2>4, <2>5, <3>2
        <3>4. d[j] = doc[e[j]]
            BY <1>3, <3>1
        <3> QED  BY <2>5, <3>3, <3>4
    <2>9. IsTop(d, k, m)
        BY <2>6, <2>7, <2>8 DEF IsTop
    <2> QED  BY <2>4, <2>6, <2>9 DEF t
<1>5. IsDoc(d)
    <2>1. ASSUME NEW k \in 1..n PROVE HasKey(d[k])
        <3>1. HasKey(doc[e[k]]) /\ d[k] = doc[e[k]]
            BY <1>3, LinesOfDoc
        <3> QED  BY <3>1
    <2>2. ASSUME d # <<>> PROVE d[1].ind = 0
        <3>1. n # 0
            BY <1>3, <2>2 DEF n
        <3>2. 1 \in 1..n /\ 1..1 = {1}
            BY <1>3, <3>1
        <3>3. IsTop(d, 1, 1)
            BY <1>4, <3>2
        <3> QED  BY <3>3 DEF IsTop
    <2> QED  BY <1>3, <2>1, <2>2 DEF IsDoc
<1>6. ASSUME NEW k \in 1..n PROVE TopKey(d, k) = TopKey(doc, e[k])
    <2>1. PICK m \in 1..k : IsTop(d, k, m) /\ e[m] = TopLine(doc, e[k])
        BY <1>4
    <2>2. m = TopLine(d, k)
        BY <1>5, <2>1, TopLines DEF n
    <2>3. m \in 1..n
        BY <1>3
    <2>4. d[m] = doc[e[m]]
        BY <1>3, <2>3
    <2> QED  BY <2>1, <2>2, <2>4 DEF TopKey
<1>7. Copies(d, doc, A, e)
    BY <1>2, <1>5, <1>6 DEF Copies, n
<1> QED  BY <1>7 DEF d

(* Keys that a copy keeps are as distinct as they were.                      *)
LEMMA CopyIsDistinct ==
    ASSUME NEW d, NEW doc, NEW A, NEW e, Copies(d, doc, A, e), Distinct(doc), A \subseteq 1..Len(doc), IsDoc(doc)
    PROVE  Distinct(d)
<1>1. /\ DOMAIN d = 1..Len(d) /\ Len(d) \in Nat /\ DOMAIN doc = 1..Len(doc) /\ Len(doc) \in Nat
      /\ \A k \in 1..Len(d) : e[k] \in DOMAIN doc /\ d[k] = doc[e[k]] /\ TopKey(d, k) = TopKey(doc, e[k])
      /\ \A j, k \in 1..Len(d) : j < k => e[j] < e[k]
    <2>1. d \in Seq(ManifestLine) /\ doc \in Seq(ManifestLine)
        BY DEF Copies, IsDoc
    <2>2. e \in [1..Len(d) -> A] /\ \A k \in 1..Len(d) : d[k] = doc[e[k]] /\ TopKey(d, k) = TopKey(doc, e[k])
        BY DEF Copies, Keeps, Enumerates
    <2>3. \A j, k \in 1..Len(d) : j < k => e[j] < e[k]
        BY DEF Copies, Keeps, Enumerates
    <2>4. DOMAIN d = 1..Len(d) /\ Len(d) \in Nat /\ DOMAIN doc = 1..Len(doc) /\ Len(doc) \in Nat
        BY <2>1
    <2>5. ASSUME NEW k \in 1..Len(d) PROVE e[k] \in DOMAIN doc
        BY <2>2, <2>4
    <2> QED  BY <2>2, <2>3, <2>4, <2>5
<1>2. \A i, j \in 1..Len(doc) : ~(i < j /\ i = j)
    BY <1>1
<1> SUFFICES ASSUME NEW i \in 1..Len(d), NEW j \in 1..Len(d),
                    d[i].ind = d[j].ind, d[i].key = d[j].key, TopKey(d, i) = TopKey(d, j)
             PROVE  i = j
    BY <1>1 DEF Distinct
<1>3. e[i] = e[j]
    <2>1. e[i] \in DOMAIN doc /\ e[j] \in DOMAIN doc /\ d[i] = doc[e[i]] /\ d[j] = doc[e[j]]
          /\ TopKey(d, i) = TopKey(doc, e[i]) /\ TopKey(d, j) = TopKey(doc, e[j])
        BY <1>1
    <2> QED  BY <2>1 DEF Distinct
<1>4. ~(i < j) /\ ~(j < i)
    BY <1>1, <1>2, <1>3
<1> QED  BY <1>1, <1>4

(* A document without the fields K.                                          *)
KeptLines(doc, K) == {i \in 1..Len(doc) : TopKey(doc, i) \notin K}
Filtered(doc, K) == Lines(doc, KeptLines(doc, K))

LEMMA FilteredCopies ==
    ASSUME NEW doc, IsDoc(doc), NEW K
    PROVE  \E e : Copies(Filtered(doc, K), doc, KeptLines(doc, K), e)
<1> DEFINE A == KeptLines(doc, K)
<1>1. A \in SUBSET (1..Len(doc))
    BY DEF KeptLines
<1>2. \A i \in A : TopLine(doc, i) \in A
    <2> SUFFICES ASSUME NEW i \in A PROVE TopLine(doc, i) \in A
        OBVIOUS
    <2>1. i \in 1..Len(doc) /\ TopKey(doc, i) \notin K
        BY DEF KeptLines
    <2>2. TopLine(doc, i) \in 1..Len(doc) /\ TopKey(doc, TopLine(doc, i)) = TopKey(doc, i)
        BY <2>1, LinesOfDoc
    <2> QED  BY <2>1, <2>2 DEF KeptLines
<1> HIDE DEF A
<1> QED  BY <1>1, <1>2, LinesAreDoc DEF A, Filtered

(* What it is without them.                                                  *)
LEMMA FilteredFacts ==
    ASSUME NEW doc, IsDoc(doc), Distinct(doc), NEW K
    PROVE  /\ IsDoc(Filtered(doc, K)) /\ Distinct(Filtered(doc, K))
           /\ \A k \in 1..Len(Filtered(doc, K)) : TopKey(Filtered(doc, K), k) \notin K
           /\ \A key : Value(Filtered(doc, K), key) = (IF key \in K THEN "" ELSE Value(doc, key))
           /\ \A key : Has(Filtered(doc, K), key) <=> key \notin K /\ Has(doc, key)
<1> DEFINE d == Filtered(doc, K)
<1>1. PICK e : Copies(d, doc, KeptLines(doc, K), e)
    BY FilteredCopies
<1>2. IsDoc(d) /\ Distinct(d)
    <2>1. KeptLines(doc, K) \subseteq 1..Len(doc)
        BY DEF KeptLines
    <2> HIDE DEF d
    <2> QED  BY <1>1, <2>1, CopyIsDistinct DEF Copies
<1> HIDE DEF d
<1>3. /\ \A k \in 1..Len(d) : e[k] \in 1..Len(doc) /\ d[k] = doc[e[k]] /\ TopKey(d, k) = TopKey(doc, e[k])
                              /\ TopKey(doc, e[k]) \notin K
      /\ \A a \in 1..Len(doc) : TopKey(doc, a) \notin K => \E k \in 1..Len(d) : e[k] = a
    BY <1>1 DEF Copies, Keeps, Enumerates, KeptLines
<1>4. ASSUME NEW key
      PROVE  /\ Value(d, key) = IF key \in K THEN "" ELSE Value(doc, key)
             /\ Has(d, key) <=> key \notin K /\ Has(doc, key)
    <2>1. CASE \E k \in 1..Len(d) : d[k].ind = 0 /\ d[k].key = key
        <3>1. PICK k \in 1..Len(d) : d[k].ind = 0 /\ d[k].key = key
            BY <2>1
        <3>2. Has(d, key) /\ Value(d, key) = d[k].val
            BY <1>2, <3>1, ValueIs
        <3>3. e[k] \in 1..Len(doc) /\ doc[e[k]].ind = 0 /\ doc[e[k]].key = key /\ doc[e[k]].val = d[k].val
            BY <1>3, <3>1
        <3>4. Has(doc, key) /\ Value(doc, key) = d[k].val
            BY <3>3, ValueIs
        <3>5. key \notin K
            <4>1. TopKey(doc, e[k]) = key
                BY <3>3, LinesOfDoc
            <4> QED  BY <1>3, <4>1
        <3> QED  BY <3>2, <3>4, <3>5
    <2>2. CASE ~\E k \in 1..Len(d) : d[k].ind = 0 /\ d[k].key = key
        <3>1. ~Has(d, key) /\ Value(d, key) = ""
            BY <1>2, <2>2, ValueIs
        <3>2. ASSUME key \notin K, NEW i \in 1..Len(doc), doc[i].ind = 0, doc[i].key = key PROVE FALSE
            <4>1. TopKey(doc, i) = key
                BY <3>2, LinesOfDoc
            <4>2. PICK k \in 1..Len(d) : e[k] = i
                BY <1>3, <3>2, <4>1
            <4> QED  BY <1>3, <2>2, <3>2, <4>2
        <3>3. key \notin K => ~Has(doc, key) /\ Value(doc, key) = ""
            BY <3>2, ValueIs
        <3> QED  BY <3>1, <3>3
    <2> QED  BY <2>1, <2>2
<1>5. \A k \in 1..Len(d) : TopKey(d, k) \notin K
    BY <1>3
<1> QED  BY <1>2, <1>4, <1>5 DEF d

(* The fields that are left of lines that were kept.                         *)
LEMMA FilteredOfCopy ==
    ASSUME NEW doc, IsDoc(doc), NEW A \in SUBSET (1..Len(doc)), NEW d, NEW e, Copies(d, doc, A, e), NEW L
    PROVE  Filtered(d, L) = Lines(doc, {i \in A : TopKey(doc, i) \notin L})
<1> DEFINE C == KeptLines(d, L)
<1> DEFINE B == {i \in A : TopKey(doc, i) \notin L}
<1> DEFINE x == Filtered(d, L)
<1> DEFINE y == Lines(doc, B)
<1>1. IsDoc(d)
    BY DEF Copies
<1>2. PICK e1 : Keeps(x, d, C, e1)
    BY <1>1, FilteredCopies DEF Copies
<1>3. PICK e2 : Keeps(y, doc, B, e2)
    <2>1. B \in SUBSET (1..Len(doc)) /\ doc \in Seq(ManifestLine)
        BY DEF IsDoc
    <2> HIDE DEF B
    <2> QED  BY <2>1, LinesKeeps
<1>4. C \in SUBSET Nat /\ B \in SUBSET Nat
    <2>1. d \in Seq(ManifestLine) /\ doc \in Seq(ManifestLine)
        BY <1>1 DEF IsDoc
    <2>2. Len(d) \in Nat /\ Len(doc) \in Nat
        BY <2>1
    <2>3. C \subseteq 1..Len(d) /\ B \subseteq 1..Len(doc)
        BY DEF KeptLines
    <2> HIDE DEF C, B
    <2> QED  BY <2>2, <2>3
<1>5. /\ \A k \in 1..Len(d) : e[k] \in A /\ d[k] = doc[e[k]] /\ TopKey(d, k) = TopKey(doc, e[k])
      /\ \A j, k \in 1..Len(d) : j < k => e[j] < e[k]
      /\ \A a \in A : \E k \in 1..Len(d) : e[k] = a
    BY DEF Copies, Keeps, Enumerates
<1> DEFINE f == [c \in C |-> e[c]]
<1>6. C \subseteq 1..Len(d) /\ \A c \in 1..Len(d) : c \in C <=> TopKey(d, c) \notin L
    BY DEF KeptLines
<1> HIDE DEF x, y, C
<1>7. f \in [C -> B]
    BY <1>5, <1>6
<1>8. \A a \in C : doc[f[a]] = d[a]
    BY <1>5, <1>6
<1>9. \A a, b \in C : a < b => f[a] < f[b]
    BY <1>5, <1>6
<1>10. \A b \in B : \E a \in C : f[a] = b
    <2> SUFFICES ASSUME NEW b \in B PROVE \E a \in C : f[a] = b
        OBVIOUS
    <2>1. PICK k \in 1..Len(d) : e[k] = b
        BY <1>5
    <2>2. k \in C
        BY <1>5, <1>6, <2>1
    <2> QED  BY <2>1, <2>2
<1> HIDE DEF f, B
<1>11. x = y
    BY <1>2, <1>3, <1>4, <1>7, <1>8, <1>9, <1>10, SameLines, SMTT(60)
<1> QED  BY <1>11 DEF x, y, B

(* Fields can be left out one after the other.                               *)
LEMMA FilteredTwice ==
    ASSUME NEW doc, IsDoc(doc), NEW K, NEW L
    PROVE  Filtered(Filtered(doc, K), L) = Filtered(doc, K \union L)
<1> DEFINE A == KeptLines(doc, K)
<1> DEFINE d == Filtered(doc, K)
<1>1. PICK e : Copies(d, doc, A, e)
    BY FilteredCopies
<1>2. {i \in A : TopKey(doc, i) \notin L} = KeptLines(doc, K \union L)
    BY DEF KeptLines
<1>3. A \in SUBSET (1..Len(doc))
    BY DEF KeptLines
<1> HIDE DEF A, d
<1>4. Filtered(d, L) = Lines(doc, {i \in A : TopKey(doc, i) \notin L})
    BY <1>1, <1>3, FilteredOfCopy
<1> QED  BY <1>2, <1>4 DEF d, Filtered

(* A document that has none of the fields stays.                             *)
LEMMA FilteredSame ==
    ASSUME NEW doc, IsDoc(doc), NEW K, \A i \in 1..Len(doc) : TopKey(doc, i) \notin K
    PROVE  Filtered(doc, K) = doc
<1> DEFINE d == Filtered(doc, K)
<1> DEFINE n == Len(doc)
<1> DEFINE f == [a \in 1..n |-> a]
<1>1. PICK e : Copies(d, doc, KeptLines(doc, K), e)
    BY FilteredCopies
<1>2. KeptLines(doc, K) = 1..n /\ doc \in Seq(ManifestLine) /\ n \in Nat
    BY DEF KeptLines, IsDoc
<1>3. Keeps(d, doc, 1..n, e)
    BY <1>1, <1>2 DEF Copies
<1>4. 1..n \in SUBSET Nat /\ f \in [1..n -> 1..n] /\ \A a \in 1..n : f[a] = a
    BY <1>2
<1>5. Keeps(doc, doc, 1..n, f)
    BY <1>2, <1>4 DEF Keeps, Enumerates
<1> HIDE DEF f, d, n
<1>6. d = doc
    BY <1>3, <1>4, <1>5, KeepsOnce
<1> QED  BY <1>6 DEF d

(* One document after another, of other fields.                              *)
LEMMA JoinedLines ==
    ASSUME NEW a, IsDoc(a), NEW b, IsDoc(b)
    PROVE  /\ IsDoc(a \o b) /\ Len(a \o b) = Len(a) + Len(b) /\ Len(a) \in Nat /\ Len(b) \in Nat
           /\ \A i \in 1..Len(a) : (a \o b)[i] = a[i] /\ TopKey(a \o b, i) = TopKey(a, i)
           /\ \A i \in 1..Len(b) : (a \o b)[Len(a) + i] = b[i] /\ TopKey(a \o b, Len(a) + i) = TopKey(b, i)
<1> DEFINE c == a \o b
<1> DEFINE m == Len(a)
<1> DEFINE n == Len(b)
<1>1. a \in Seq(ManifestLine) /\ b \in Seq(ManifestLine)
    BY DEF IsDoc
<1>2. /\ m \in Nat /\ n \in Nat /\ Len(c) = m + n /\ c \in Seq(ManifestLine)
      /\ DOMAIN a = 1..m /\ DOMAIN b = 1..n /\ DOMAIN c = 1..(m + n)
      /\ \A i \in 1..m : c[i] = a[i]
      /\ \A i \in 1..n : c[m + i] = b[i]
    BY <1>1
<1> HIDE DEF c, m, n
<1>3. IsDoc(c)
    <2>1. ASSUME NEW i \in 1..(m + n) PROVE HasKey(c[i])
        <3>1. CASE i \in 1..m
            BY <1>2, <3>1 DEF IsDoc
        <3>2. CASE ~(i \in 1..m)
            <4>1. i - m \in 1..n /\ m + (i - m) = i
                BY <1>2, <3>2
            <4>2. c[i] = b[i - m]
                BY <1>2, <4>1
            <4> QED  BY <1>2, <4>1, <4>2 DEF IsDoc
        <3> QED  BY <3>1, <3>2
    <2>2. ASSUME c # <<>> PROVE c[1].ind = 0
        <3>1. CASE m # 0
            <4>1. 1 \in 1..m /\ a # <<>>
                BY <1>2, <3>1 DEF m
            <4> QED  BY <1>2, <4>1 DEF IsDoc
        <3>2. CASE m = 0 /\ n # 0
            <4>1. 1 \in 1..n /\ b # <<>> /\ m + 1 = 1
                BY <1>2, <3>2 DEF n
            <4>2. c[1] = b[1]
                BY <1>2, <4>1
            <4> QED  BY <4>1, <4>2 DEF IsDoc
        <3>3. CASE m = 0 /\ n = 0
            <4>1. a = <<>> /\ b = <<>>
                BY <1>1, <3>3 DEF m, n
            <4> QED  BY <2>2, <4>1 DEF c
        <3> QED  BY <3>1, <3>2, <3>3
    <2> QED  BY <1>2, <2>1, <2>2 DEF IsDoc
<1>4. ASSUME NEW i \in 1..m PROVE TopKey(c, i) = TopKey(a, i)
    <2> DEFINE t == TopLine(a, i)
    <2>1. IsTop(a, i, t)
        BY TopLines DEF m
    <2> HIDE DEF t
    <2>2. t \in 1..i /\ t \in 1..m
        BY <1>2, <2>1 DEF IsTop
    <2>3. c[t] = a[t]
        BY <1>2, <2>2
    <2>4. ASSUME NEW j \in (t+1)..i PROVE c[j].ind = 1
        <3>1. j \in 1..m
            BY <1>2, <2>2
        <3> QED  BY <1>2, <2>1, <3>1 DEF IsTop
    <2>5. IsTop(c, i, t)
        BY <2>1, <2>2, <2>3, <2>4 DEF IsTop
    <2>6. i \in 1..Len(c)
        BY <1>2
    <2>7. TopLine(c, i) = t
        BY <1>3, <2>5, <2>6, TopLines
    <2> QED  BY <2>3, <2>7 DEF TopKey, t
<1>5. ASSUME NEW i \in 1..n PROVE TopKey(c, m + i) = TopKey(b, i)
    <2> DEFINE t == TopLine(b, i)
    <2>1. IsTop(b, i, t)
        BY TopLines DEF n
    <2> HIDE DEF t
    <2>2. t \in 1..i /\ t \in 1..n
        BY <1>2, <2>1 DEF IsTop
    <2>3. c[m + t] = b[t]
        BY <1>2, <2>2
    <2>4. ASSUME NEW j \in (m+t+1)..(m+i) PROVE c[j].ind = 1
        <3>1. j - m \in (t+1)..i /\ j - m \in 1..n /\ m + (j - m) = j
            BY <1>2, <2>2
        <3>2. c[j] = b[j - m]
            BY <1>2, <3>1
        <3> QED  BY <2>1, <3>1, <3>2 DEF IsTop
    <2>5. IsTop(c, m + i, m + t)
        <3>1. m + t \in 1..(m + i) /\ (m + t) + 1 = m + t + 1
            BY <1>2, <2>2
        <3>2. b[t].ind = 0
            BY <2>1 DEF IsTop
        <3> QED  BY <2>3, <2>4, <3>1, <3>2 DEF IsTop
    <2>6. m + i \in 1..Len(c)
        BY <1>2
    <2>7. TopLine(c, m + i) = m + t
        BY <1>3, <2>5, <2>6, TopLines
    <2> QED  BY <2>3, <2>7 DEF TopKey, t
<1> QED  BY <1>2, <1>3, <1>4, <1>5 DEF c, m, n

(* What they say together.                                                   *)
LEMMA JoinedFacts ==
    ASSUME NEW a, IsDoc(a), Distinct(a), NEW b, IsDoc(b), Distinct(b), NEW K,
           \A i \in 1..Len(a) : TopKey(a, i) \notin K, \A i \in 1..Len(b) : TopKey(b, i) \in K
    PROVE  /\ IsDoc(a \o b) /\ Distinct(a \o b)
           /\ \A key : Value(a \o b, key) = (IF key \in K THEN Value(b, key) ELSE Value(a, key))
           /\ Filtered(a \o b, K) = a
<1> DEFINE c == a \o b
<1> DEFINE m == Len(a)
<1> DEFINE n == Len(b)
<1>1. /\ IsDoc(c) /\ m \in Nat /\ n \in Nat /\ Len(c) = m + n
      /\ \A i \in 1..m : c[i] = a[i] /\ TopKey(c, i) = TopKey(a, i)
      /\ \A i \in 1..n : c[m + i] = b[i] /\ TopKey(c, m + i) = TopKey(b, i)
    BY JoinedLines
<1>2. a \in Seq(ManifestLine) /\ c \in Seq(ManifestLine) /\ DOMAIN a = 1..m /\ DOMAIN b = 1..n /\ DOMAIN c = 1..(m + n)
    BY <1>1 DEF IsDoc
<1> HIDE DEF c
<1>3. ASSUME NEW i \in 1..(m + n)
      PROVE  \/ i \in 1..m /\ c[i] = a[i] /\ TopKey(c, i) = TopKey(a, i) /\ TopKey(c, i) \notin K
             \/ /\ i - m \in 1..n /\ c[i] = b[i - m] /\ TopKey(c, i) = TopKey(b, i - m) /\ TopKey(c, i) \in K
                /\ i \notin 1..m
    <2>1. CASE i \in 1..m
        BY <1>1, <2>1
    <2>2. CASE i \notin 1..m
        <3>1. i - m \in 1..n /\ m + (i - m) = i
            BY <1>1, <2>2
        <3>2. c[i] = b[i - m] /\ TopKey(c, i) = TopKey(b, i - m)
            BY <1>1, <3>1
        <3>3. TopKey(b, i - m) \in K
            BY <3>1
        <3> QED  BY <2>2, <3>1, <3>2, <3>3
    <2> QED  BY <2>1, <2>2
<1>4. Distinct(c)
    <2> SUFFICES ASSUME NEW i \in 1..(m + n), NEW j \in 1..(m + n),
                        c[i].ind = c[j].ind, c[i].key = c[j].key, TopKey(c, i) = TopKey(c, j)
                 PROVE  i = j
        BY <1>2 DEF Distinct
    <2>1. CASE i \in 1..m /\ j \in 1..m
        <3>1. c[i] = a[i] /\ TopKey(c, i) = TopKey(a, i) /\ c[j] = a[j] /\ TopKey(c, j) = TopKey(a, j)
            BY <1>1, <2>1
        <3> QED  BY <1>2, <2>1, <3>1 DEF Distinct
    <2>2. CASE i \notin 1..m /\ j \notin 1..m
        <3>1. i - m \in 1..n /\ j - m \in 1..n
            BY <1>3, <2>2
        <3>2. c[i] = b[i - m] /\ TopKey(c, i) = TopKey(b, i - m) /\ c[j] = b[j - m] /\ TopKey(c, j) = TopKey(b, j - m)
            BY <1>3, <2>2
        <3>3. i - m = j - m
            BY <1>2, <3>1, <3>2 DEF Distinct
        <3> QED  BY <1>1, <3>3
    <2>3. ~(i \in 1..m /\ j \notin 1..m) /\ ~(i \notin 1..m /\ j \in 1..m)
        BY <1>3
    <2> QED  BY <2>1, <2>2, <2>3
<1>5. ASSUME NEW key
      PROVE  Value(c, key) = (IF key \in K THEN Value(b, key) ELSE Value(a, key))
    <2>1. CASE \E i \in 1..(m + n) : c[i].ind = 0 /\ c[i].key = key
        <3>1. PICK i \in 1..(m + n) : c[i].ind = 0 /\ c[i].key = key
            BY <2>1
        <3>2. i \in 1..Len(c)
            BY <1>1
        <3>3. Value(c, key) = c[i].val /\ TopKey(c, i) = key
            <4>1. Value(c, key) = c[i].val
                BY <1>1, <1>4, <3>1, <3>2, ValueIs
            <4>2. TopKey(c, i) = key
                <5>1. IsDoc(c)
                    BY <1>1
                <5>2. c[i].ind = 0 => TopKey(c, i) = c[i].key
                    BY <3>2, <5>1, LinesOfDoc
                <5> QED  BY <3>1, <5>2
            <4> QED  BY <4>1, <4>2
        <3>4. CASE i \in 1..m
            <4>1. c[i] = a[i] /\ TopKey(c, i) \notin K
                BY <1>3, <3>4
            <4>2. Value(a, key) = a[i].val
                BY <3>1, <3>4, <4>1, ValueIs, ZenonT(60)
            <4> QED  BY <3>3, <4>1, <4>2
        <3>5. CASE i \notin 1..m
            <4>1. c[i] = b[i - m] /\ TopKey(c, i) \in K /\ i - m \in 1..n
                BY <1>3, <3>5
            <4>2. Value(b, key) = b[i - m].val
                BY <3>1, <4>1, ValueIs, ZenonT(60)
            <4> QED  BY <3>3, <4>1, <4>2
        <3> QED  BY <3>4, <3>5
    <2>2. CASE ~\E i \in 1..(m + n) : c[i].ind = 0 /\ c[i].key = key
        <3>1. Value(c, key) = ""
            BY <1>1, <1>4, <2>2, ValueIs
        <3>2. ASSUME NEW i \in 1..m PROVE ~(a[i].ind = 0 /\ a[i].key = key)
            <4>1. i \in 1..(m + n) /\ c[i] = a[i]
                BY <1>1
            <4> QED  BY <2>2, <4>1
        <3>3. ASSUME NEW i \in 1..n PROVE ~(b[i].ind = 0 /\ b[i].key = key)
            <4>1. m + i \in 1..(m + n) /\ c[m + i] = b[i]
                BY <1>1
            <4> QED  BY <2>2, <4>1
        <3>4. Value(a, key) = "" /\ Value(b, key) = ""
            BY <3>2, <3>3, ValueIs
        <3> QED  BY <3>1, <3>4
    <2> QED  BY <2>1, <2>2
<1>6. Filtered(c, K) = a
    <2> DEFINE x == Filtered(c, K)
    <2> DEFINE S == 1..m
    <2> DEFINE f == [i \in S |-> i]
    <2>1. PICK e : Keeps(x, c, KeptLines(c, K), e)
        BY <1>1, FilteredCopies DEF Copies
    <2>2. KeptLines(c, K) = S
        <3>1. \A i \in 1..Len(c) : i \in S <=> TopKey(c, i) \notin K
            BY <1>1, <1>3
        <3>2. S \subseteq 1..Len(c)
            BY <1>1
        <3> HIDE DEF S
        <3> QED  BY <3>1, <3>2 DEF KeptLines
    <2>3. S \in SUBSET Nat
        BY <1>1
    <2>4. Keeps(a, c, S, f)
        <3>1. f \in [1..m -> 1..m] /\ \A i \in 1..m : f[i] = i
            OBVIOUS
        <3> HIDE DEF f
        <3> QED  BY <1>1, <1>2, <3>1 DEF Keeps, Enumerates
    <2> HIDE DEF x, S, f
    <2>5. a = x
        BY <2>1, <2>2, <2>3, <2>4, KeepsOnce
    <2> QED  BY <2>5 DEF x
<1> QED  BY <1>1, <1>4, <1>5, <1>6 DEF c

(* The operations of a document whose keys are distinct.                     *)
LEMMA Removals ==
    ASSUME NEW doc, IsDoc(doc), Distinct(doc)
    PROVE  /\ \A key : Without(doc, key) = Filtered(doc, {key})
           /\ WithoutStatic(doc) = Filtered(doc, Static) /\ \A K : Apart(doc, K) = Filtered(doc, K)
           /\ \A key \in STRING : Lines(doc, Pair(doc, key)) = Filtered(doc, STRING \ {key})
<1>1. DOMAIN doc = 1..Len(doc)
    BY DEF IsDoc
<1>2. ASSUME NEW key PROVE Without(doc, key) = Filtered(doc, {key})
    <2>1. Pair(doc, key) = {i \in 1..Len(doc) : TopKey(doc, i) = key}
        BY PairIsTop
    <2>2. DOMAIN doc \ Pair(doc, key) = KeptLines(doc, {key})
        BY <1>1, <2>1 DEF KeptLines
    <2> QED  BY <2>2 DEF Without, Filtered
<1>3. ASSUME NEW K PROVE Apart(doc, K) = Filtered(doc, K)
    <2>1. \A f : Pair(doc, f) = {i \in 1..Len(doc) : TopKey(doc, i) = f}
        BY PairIsTop
    <2>2. UNION {Pair(doc, f) : f \in K} = {i \in 1..Len(doc) : TopKey(doc, i) \in K}
        BY <2>1
    <2>3. DOMAIN doc \ UNION {Pair(doc, f) : f \in K} = KeptLines(doc, K)
        BY <1>1, <2>2 DEF KeptLines
    <2> QED  BY <2>3 DEF Apart, Filtered
<1>4. ASSUME NEW key \in STRING PROVE Lines(doc, Pair(doc, key)) = Filtered(doc, STRING \ {key})
    <2>1. Pair(doc, key) = {i \in 1..Len(doc) : TopKey(doc, i) = key}
        BY PairIsTop
    <2>2. ASSUME NEW i \in 1..Len(doc) PROVE TopKey(doc, i) \in STRING
        <3>1. TopLine(doc, i) \in 1..Len(doc) /\ TopKey(doc, i) = doc[TopLine(doc, i)].key
            BY LinesOfDoc
        <3>2. doc[TopLine(doc, i)].key \in STRING
            BY <3>1, LinesOfDoc
        <3> QED  BY <3>1, <3>2
    <2>3. Pair(doc, key) = KeptLines(doc, STRING \ {key})
        BY <2>1, <2>2 DEF KeptLines
    <2> QED  BY <2>3 DEF Filtered
<1> QED  BY <1>2, <1>3, <1>4 DEF WithoutStatic

LEMMA OneLine ==
    ASSUME NEW S, NEW l \in S
    PROVE  /\ <<l>> \in Seq(S) /\ Len(<<l>>) = 1 /\ DOMAIN <<l>> = 1..1 /\ <<l>>[1] = l
           /\ 1 \in 1..1 /\ \A i \in 1..1 : i = 1
<1> DEFINE d == <<l>>
<1>1. d \in Seq(S) /\ Len(d) = 1 /\ d[1] = l
    BY ShortSequences
<1> HIDE DEF d
<1>2. DOMAIN d = 1..Len(d)
    BY <1>1
<1>3. 1 \in 1..1 /\ \A i \in 1..1 : i = 1
    OBVIOUS
<1> QED  BY <1>1, <1>2, <1>3 DEF d

(* A document of one field.                                                  *)
LEMMA OneField ==
    ASSUME NEW key \in STRING, key # "", NEW val \in STRING
    PROVE  /\ IsDoc(<<Field(key, val)>>) /\ Distinct(<<Field(key, val)>>)
           /\ \A i \in 1..Len(<<Field(key, val)>>) : TopKey(<<Field(key, val)>>, i) = key
           /\ Value(<<Field(key, val)>>, key) = val
<1> DEFINE l == Field(key, val)
<1> DEFINE d == <<l>>
<1>1. l \in ManifestLine /\ HasKey(l) /\ l.ind = 0 /\ l.key = key /\ l.val = val
    <2>1. l = [kind |-> "field", key |-> key, val |-> val, ind |-> 0, act |-> "none"]
        BY DEF Field
    <2> HIDE DEF l
    <2>2. l.kind = "field" /\ l.ind = 0 /\ l.key = key /\ l.val = val
        BY <2>1
    <2>3. l \in [kind : {"field", "control", "around", "tail", "note", "directive"},
                key : STRING, val : STRING, ind : {0, 1}, act : STRING]
        BY <2>1, WordsAssumption DEF Words
    <2> QED  BY <2>2, <2>3 DEF ManifestLine, HasKey
<1> HIDE DEF l
<1>2. d \in Seq(ManifestLine) /\ Len(d) = 1 /\ DOMAIN d = 1..1 /\ d[1] = l /\ 1 \in 1..1 /\ \A i \in 1..1 : i = 1
    BY <1>1, OneLine
<1> HIDE DEF d
<1>3. IsDoc(d)
    BY <1>1, <1>2 DEF IsDoc
<1>4. TopKey(d, 1) = key
    BY <1>1, <1>2 DEF TopKey, TopLine
<1>5. Distinct(d)
    BY <1>2 DEF Distinct
<1>6. Value(d, key) = val
    <2>1. 1 \in 1..Len(d) /\ d[1].ind = 0 /\ d[1].key = key
        BY <1>1, <1>2
    <2>2. Value(d, key) = d[1].val
        BY <1>3, <1>5, <2>1, ValueIs
    <2> QED  BY <1>1, <1>2, <2>2
<1> QED  BY <1>2, <1>3, <1>4, <1>5, <1>6 DEF d, l

LEMMA EmptyDocument ==
    IsDoc(<<>>) /\ Distinct(<<>>) /\ Len(<<>>) = 0 /\ \A i \in 1..Len(<<>>) : FALSE
BY DEF IsDoc, Distinct

(* The same lines, apart from values.                                        *)
SameShape(d, doc) ==
    /\ d \in Seq(ManifestLine) /\ Len(d) = Len(doc)
    /\ \A i \in 1..Len(doc) : d[i].ind = doc[i].ind /\ d[i].key = doc[i].key /\ d[i].kind = doc[i].kind

LEMMA ShapeKeeps ==
    ASSUME NEW doc, IsDoc(doc), NEW d, SameShape(d, doc)
    PROVE  /\ IsDoc(d)
           /\ \A i \in 1..Len(doc) : TopKey(d, i) = TopKey(doc, i) /\ TopLine(d, i) = TopLine(doc, i)
           /\ Distinct(doc) => Distinct(d)
           /\ \A K : KeptLines(d, K) = KeptLines(doc, K)
<1> DEFINE n == Len(doc)
<1>1. /\ doc \in Seq(ManifestLine) /\ d \in Seq(ManifestLine) /\ n \in Nat /\ Len(d) = n
      /\ DOMAIN doc = 1..n /\ DOMAIN d = 1..n
      /\ \A i \in 1..n : d[i].ind = doc[i].ind /\ d[i].key = doc[i].key /\ d[i].kind = doc[i].kind /\ HasKey(doc[i])
    BY DEF IsDoc, SameShape
<1>2. IsDoc(d)
    <2>1. \A i \in 1..n : HasKey(d[i])
        BY <1>1 DEF HasKey
    <2>2. ASSUME d # <<>> PROVE d[1].ind = 0
        <3>1. n # 0
            BY <1>1, <2>2
        <3>2. 1 \in 1..n /\ doc # <<>>
            BY <1>1, <3>1
        <3> QED  BY <1>1, <3>2 DEF IsDoc
    <2> QED  BY <1>1, <2>1, <2>2 DEF IsDoc
<1>3. ASSUME NEW i \in 1..n
      PROVE  TopKey(d, i) = TopKey(doc, i) /\ TopLine(d, i) = TopLine(doc, i)
    <2> DEFINE t == TopLine(doc, i)
    <2>1. IsTop(doc, i, t)
        BY TopLines
    <2> HIDE DEF t
    <2>2. t \in 1..i /\ t \in 1..n /\ \A j \in (t+1)..i : j \in 1..n
        BY <1>1, <2>1 DEF IsTop
    <2>3. IsTop(d, i, t)
        BY <1>1, <2>1, <2>2 DEF IsTop
    <2>4. TopLine(d, i) = t
        BY <1>1, <1>2, <2>3, TopLines
    <2> QED  BY <1>1, <2>2, <2>4 DEF TopKey, t
<1> HIDE DEF n
<1>4. ASSUME Distinct(doc) PROVE Distinct(d)
    <2> SUFFICES ASSUME NEW i \in 1..n, NEW j \in 1..n,
                        d[i].ind = d[j].ind, d[i].key = d[j].key, TopKey(d, i) = TopKey(d, j)
                 PROVE  i = j
        BY <1>1 DEF Distinct
    <2>1. d[i].ind = doc[i].ind /\ d[i].key = doc[i].key /\ TopKey(d, i) = TopKey(doc, i)
        BY <1>1, <1>3
    <2>2. d[j].ind = doc[j].ind /\ d[j].key = doc[j].key /\ TopKey(d, j) = TopKey(doc, j)
        BY <1>1, <1>3
    <2> QED  BY <1>1, <1>4, <2>1, <2>2 DEF Distinct
<1>5. ASSUME NEW K PROVE KeptLines(d, K) = KeptLines(doc, K)
    BY <1>1, <1>3 DEF KeptLines, n
<1> QED  BY <1>2, <1>3, <1>4, <1>5 DEF n

(* An image reference is replaced by its digest and nothing else changes.    *)
LEMMA PinnedShape ==
    ASSUME NEW text \in Seq(ManifestLine)
    PROVE  /\ SameShape(Pinned(text), text)
           /\ DOMAIN Pinned(text) = DOMAIN text
           /\ \A i \in 1..Len(text) : HasKey(Pinned(text)[i]) <=> HasKey(text[i])
<1> DEFINE d == Pinned(text)
<1> DEFINE n == Len(text)
<1>1. n \in Nat /\ DOMAIN text = 1..n /\ \A i \in 1..n : text[i] \in ManifestLine
    OBVIOUS
<1>2. ASSUME NEW i \in 1..n
      PROVE  /\ d[i] \in ManifestLine
             /\ d[i].ind = text[i].ind /\ d[i].key = text[i].key /\ d[i].kind = text[i].kind
    <2>1. d[i] = IF text[i].val = "embed" THEN [text[i] EXCEPT !.val = "embed@digest"] ELSE text[i]
        BY <1>1 DEF Pinned
    <2> DEFINE t == text[i]
    <2>2. t \in ManifestLine
        BY <1>1
    <2> HIDE DEF d, t
    <2>3. t \in [kind : {"field", "control", "around", "tail", "note", "directive"},
                key : STRING, val : STRING, ind : {0, 1}, act : STRING]
          /\ (t.kind \in {"control", "tail"} => t.act \in Acts)
        BY <2>2 DEF ManifestLine
    <2> DEFINE r == [t EXCEPT !.val = "embed@digest"]
    <2>4. /\ r \in [kind : {"field", "control", "around", "tail", "note", "directive"},
                    key : STRING, val : STRING, ind : {0, 1}, act : STRING]
          /\ r.kind = t.kind /\ r.act = t.act /\ r.ind = t.ind /\ r.key = t.key
        <3>1. "embed@digest" \in STRING
            BY WordsAssumption DEF Words
        <3> QED  BY <2>3, <3>1
    <2> HIDE DEF r
    <2>5. r \in ManifestLine
        BY <2>3, <2>4 DEF ManifestLine
    <2>6. d[i] = r \/ d[i] = t
        BY <2>1 DEF r, t
    <2>7. d[i] \in ManifestLine /\ d[i].ind = t.ind /\ d[i].key = t.key /\ d[i].kind = t.kind
        BY <2>2, <2>4, <2>5, <2>6
    <2> QED  BY <2>7 DEF t
<1>3. d = [i \in 1..n |-> d[i]]
    BY <1>1 DEF Pinned
<1> HIDE DEF d, n
<1>4. d \in Seq(ManifestLine) /\ Len(d) = n /\ DOMAIN d = 1..n
    BY <1>1, <1>2, <1>3
<1> QED  BY <1>1, <1>2, <1>4 DEF SameShape, HasKey, d, n

LEMMA PinnedLines ==
    ASSUME NEW text \in Seq(ManifestLine), NEW A \in SUBSET (1..Len(text))
    PROVE  Lines(Pinned(text), A) = Pinned(Lines(text, A))
<1> DEFINE p == Pinned(text)
<1> DEFINE x == Lines(p, A)
<1> DEFINE l == Lines(text, A)
<1> DEFINE y == Pinned(l)
<1>1. p \in Seq(ManifestLine) /\ Len(p) = Len(text) /\ DOMAIN p = 1..Len(text) /\ Len(text) \in Nat
    BY PinnedShape DEF SameShape
<1>2. PICK e1 : Keeps(x, p, A, e1)
    <2> HIDE DEF p
    <2> QED  BY <1>1, LinesKeeps
<1>3. PICK e2 : Keeps(l, text, A, e2)
    BY LinesKeeps
<1>4. \A i \in 1..Len(text) : p[i] = IF text[i].val = "embed" THEN [text[i] EXCEPT !.val = "embed@digest"] ELSE text[i]
    BY DEF Pinned
<1> HIDE DEF p, l
<1>5. l \in Seq(ManifestLine) /\ Len(l) \in Nat /\ DOMAIN l = 1..Len(l)
    BY <1>3 DEF Keeps
<1>6. y \in Seq(ManifestLine) /\ Len(y) = Len(l)
    BY <1>5, PinnedShape DEF SameShape
<1>7. \A k \in 1..Len(l) : y[k] = IF l[k].val = "embed" THEN [l[k] EXCEPT !.val = "embed@digest"] ELSE l[k]
    BY <1>5 DEF Pinned
<1> HIDE DEF y
<1>8. ASSUME NEW k \in 1..Len(y) PROVE y[k] = p[e2[k]]
    <2>1. k \in 1..Len(l)
        BY <1>6
    <2>2. e2[k] \in 1..Len(text) /\ l[k] = text[e2[k]]
        <3>1. e2 \in [1..Len(l) -> A] /\ \A j \in 1..Len(l) : l[j] = text[e2[j]]
            BY <1>3 DEF Keeps, Enumerates
        <3> QED  BY <2>1, <3>1
    <2> QED  BY <1>4, <1>7, <2>1, <2>2, ZenonT(60)
<1>9. Keeps(y, p, A, e2)
    <2>1. Enumerates(e2, Len(y), A)
        BY <1>3, <1>6 DEF Keeps
    <2> QED  BY <1>6, <1>8, <2>1 DEF Keeps
<1>10. A \in SUBSET Nat
    BY <1>1
<1> HIDE DEF x
<1>11. x = y
    BY <1>2, <1>9, <1>10, KeepsOnce
<1> QED  BY <1>11 DEF x, y, p, l

(* Fields may be left out before or after.                                   *)
LEMMA PinnedFiltered ==
    ASSUME NEW doc, IsDoc(doc), NEW K
    PROVE  Filtered(Pinned(doc), K) = Pinned(Filtered(doc, K))
<1>1. doc \in Seq(ManifestLine)
    BY DEF IsDoc
<1>2. SameShape(Pinned(doc), doc)
    BY <1>1, PinnedShape
<1>3. KeptLines(Pinned(doc), K) = KeptLines(doc, K)
    BY <1>2, ShapeKeeps
<1>4. KeptLines(doc, K) \in SUBSET (1..Len(doc))
    BY DEF KeptLines
<1> QED  BY <1>1, <1>3, <1>4, PinnedLines DEF Filtered

(* doc with another value of a field, "" when there is none; the fields that  *)
(* are not among K are what they were, when that field is.                   *)
Changed(d, doc, key, val) ==
    /\ IsDoc(d) /\ Distinct(d)
    /\ \A k : Value(d, k) = IF k = key THEN val ELSE Value(doc, k)
    /\ \A K : key \in K => Filtered(d, K) = Filtered(doc, K)

LEMMA FilteredMore ==
    ASSUME NEW doc, IsDoc(doc), NEW key, NEW K, key \in K
    PROVE  Filtered(Filtered(doc, {key}), K) = Filtered(doc, K)
<1>1. {key} \union K = K
    OBVIOUS
<1> QED  BY <1>1, FilteredTwice

LEMMA AppendJoins ==
    ASSUME NEW S, NEW s \in Seq(S), NEW l \in S
    PROVE  Append(s, l) = s \o <<l>>
OBVIOUS

LEMMA WithoutChanges ==
    ASSUME NEW doc, IsDoc(doc), Distinct(doc), NEW key
    PROVE  Changed(Without(doc, key), doc, key, "")
<1>1. Without(doc, key) = Filtered(doc, {key})
    BY Removals
<1>2. IsDoc(Filtered(doc, {key})) /\ Distinct(Filtered(doc, {key}))
      /\ \A k : Value(Filtered(doc, {key}), k) = (IF k \in {key} THEN "" ELSE Value(doc, k))
    BY FilteredFacts
<1>3. ASSUME NEW K, key \in K PROVE Filtered(Filtered(doc, {key}), K) = Filtered(doc, K)
    BY <1>3, FilteredMore
<1>4. \A k : k \in {key} <=> k = key
    OBVIOUS
<1> QED  BY <1>1, <1>2, <1>3, <1>4 DEF Changed

LEMMA FieldReplaced ==
    ASSUME NEW doc, IsDoc(doc), Distinct(doc), NEW key \in STRING, NEW val \in STRING, Has(doc, key)
    PROVE  Changed(WithField(doc, key, val), doc, key, val)
<1> DEFINE P == Pairs(doc, 0, key)
<1> DEFINE at == Min(P)
<1> DEFINE n == Len(doc)
<1> DEFINE d == [doc EXCEPT ![at].val = val]
<1> DEFINE A == DOMAIN doc \ (Pair(doc, key) \ {at})
<1> DEFINE r == Lines(d, A)
<1>1. doc \in Seq(ManifestLine) /\ DOMAIN doc = 1..n /\ n \in Nat
    BY DEF IsDoc
<1>2. P = {i \in 1..n : doc[i].ind = 0 /\ doc[i].key = key}
    BY TopPairs
<1>3. at \in 1..n /\ doc[at].ind = 0 /\ doc[at].key = key
    <2>1. P # {} /\ P \in SUBSET (1..n)
        BY <1>2 DEF Has
    <2> HIDE DEF P
    <2>2. at \in P
        BY <1>1, <2>1, MinOfPositions
    <2> QED  BY <1>2, <2>2
<1>4. r = WithField(doc, key, val)
    BY DEF WithField
<1>5. A = {i \in 1..n : TopKey(doc, i) = key => i = at}
    <2>1. Pair(doc, key) = {i \in 1..n : TopKey(doc, i) = key}
        BY PairIsTop
    <2> HIDE DEF at
    <2> QED  BY <1>1, <2>1
<1> HIDE DEF P, at, A
<1>6. /\ d = [i \in 1..n |-> d[i]] /\ d[at] = [doc[at] EXCEPT !.val = val]
      /\ \A i \in 1..n : i # at => d[i] = doc[i]
    BY <1>1, <1>3
<1> HIDE DEF d
<1>7. SameShape(d, doc)
    <2>1. /\ d[at] \in ManifestLine /\ d[at].val = val
          /\ d[at].ind = doc[at].ind /\ d[at].key = doc[at].key /\ d[at].kind = doc[at].kind
        <3> DEFINE t == doc[at]
        <3> DEFINE u == [t EXCEPT !.val = val]
        <3>1. t \in ManifestLine
            BY <1>1, <1>3
        <3> HIDE DEF t
        <3>2. t \in [kind : {"field", "control", "around", "tail", "note", "directive"},
                    key : STRING, val : STRING, ind : {0, 1}, act : STRING]
              /\ (t.kind \in {"control", "tail"} => t.act \in Acts)
            BY <3>1 DEF ManifestLine
        <3>3. /\ u \in [kind : {"field", "control", "around", "tail", "note", "directive"},
                    key : STRING, val : STRING, ind : {0, 1}, act : STRING]
              /\ u.kind = t.kind /\ u.act = t.act /\ u.ind = t.ind /\ u.key = t.key /\ u.val = val
            BY <3>2
        <3>4. d[at] = u
            BY <1>6 DEF t
        <3> HIDE DEF u
        <3>5. u \in ManifestLine
            BY <3>2, <3>3 DEF ManifestLine
        <3> QED  BY <3>3, <3>4, <3>5 DEF t
    <2>2. ASSUME NEW i \in 1..n
          PROVE  d[i] \in ManifestLine /\ d[i].ind = doc[i].ind /\ d[i].key = doc[i].key /\ d[i].kind = doc[i].kind
        <3>1. doc[i] \in ManifestLine
            BY <1>1
        <3> QED  BY <1>6, <2>1, <3>1
    <2>3. d \in Seq(ManifestLine) /\ Len(d) = n
        <3> HIDE DEF n
        <3> QED  BY <1>1, <1>6, <2>2
    <2> QED  BY <2>2, <2>3 DEF SameShape
<1>8. d[at].val = val
    <2>1. doc[at] \in ManifestLine
        BY <1>1, <1>3
    <2> QED  BY <1>6, <2>1 DEF ManifestLine
<1>9. /\ IsDoc(d) /\ Distinct(d) /\ Len(d) = n
      /\ \A i \in 1..n : TopKey(d, i) = TopKey(doc, i) /\ TopLine(d, i) = TopLine(doc, i)
      /\ \A i \in 1..n : d[i].ind = doc[i].ind /\ d[i].key = doc[i].key
    BY <1>7, ShapeKeeps DEF SameShape
<1>10. PICK e : Copies(r, d, A, e)
    <2>1. A \in SUBSET (1..Len(d))
        BY <1>5, <1>9
    <2>2. ASSUME NEW i \in A PROVE TopLine(d, i) \in A
        <3>1. i \in 1..n /\ (TopKey(doc, i) = key => i = at)
            BY <1>5
        <3>2. TopLine(doc, i) \in 1..n /\ TopKey(doc, TopLine(doc, i)) = TopKey(doc, i)
            BY <3>1, LinesOfDoc
        <3>3. TopLine(d, i) = TopLine(doc, i)
            BY <1>9, <3>1
        <3>4. TopLine(doc, at) = at
            BY <1>3, LinesOfDoc
        <3> QED  BY <1>5, <3>1, <3>2, <3>3, <3>4
    <2> QED  BY <1>9, <2>1, <2>2, LinesAreDoc
<1> HIDE DEF r
<1>11. IsDoc(r) /\ Distinct(r)
    <2>1. A \subseteq 1..Len(d)
        BY <1>5, <1>9
    <2> QED  BY <1>9, <1>10, <2>1, CopyIsDistinct DEF Copies
<1>12. /\ \A k \in 1..Len(r) : e[k] \in A /\ r[k] = d[e[k]]
       /\ \A a \in A : \E k \in 1..Len(r) : e[k] = a
    BY <1>10 DEF Copies, Keeps, Enumerates
<1>13. Value(r, key) = val
    <2>1. at \in A
        BY <1>3, <1>5
    <2>2. PICK k \in 1..Len(r) : e[k] = at
        BY <1>12, <2>1
    <2>3. r[k] = d[at]
        BY <1>12, <2>2
    <2>4. r[k].ind = 0 /\ r[k].key = key /\ r[k].val = val
        BY <1>3, <1>8, <1>9, <2>3
    <2> QED  BY <1>11, <2>4, ValueIs
<1>14. ASSUME NEW x, x # key PROVE Value(r, x) = Value(doc, x)
    <2>1. CASE \E i \in 1..n : doc[i].ind = 0 /\ doc[i].key = x
        <3>1. PICK i \in 1..n : doc[i].ind = 0 /\ doc[i].key = x
            BY <2>1
        <3>2. i # at /\ d[i] = doc[i]
            BY <1>3, <1>6, <1>14, <3>1
        <3>3. TopKey(doc, i) = x
            BY <3>1, LinesOfDoc
        <3>4. i \in A
            BY <1>5, <1>14, <3>3
        <3>5. PICK k \in 1..Len(r) : e[k] = i
            BY <1>12, <3>4
        <3>6. r[k] = doc[i]
            BY <1>12, <3>2, <3>5
        <3>7. Value(r, x) = doc[i].val
            <4>1. r[k].ind = 0 /\ r[k].key = x /\ r[k].val = doc[i].val
                BY <3>1, <3>6
            <4>2. Value(r, x) = r[k].val
                BY <1>11, <4>1, ValueIs
            <4> QED  BY <4>1, <4>2
        <3>8. Value(doc, x) = doc[i].val
            BY <3>1, ValueIs
        <3> QED  BY <3>7, <3>8
    <2>2. CASE ~\E i \in 1..n : doc[i].ind = 0 /\ doc[i].key = x
        <3>1. ASSUME NEW k \in 1..Len(r) PROVE ~(r[k].ind = 0 /\ r[k].key = x)
            <4>1. e[k] \in 1..n /\ r[k] = d[e[k]]
                BY <1>5, <1>12
            <4> QED  BY <1>9, <2>2, <4>1
        <3>2. Value(r, x) = ""
            BY <1>11, <3>1, ValueIs
        <3>3. Value(doc, x) = ""
            BY <2>2, ValueIs
        <3> QED  BY <3>2, <3>3
    <2> QED  BY <2>1, <2>2
<1>15. ASSUME NEW K, key \in K PROVE Filtered(r, K) = Filtered(doc, K)
    <2> DEFINE B == KeptLines(doc, K)
    <2>1. A \in SUBSET (1..Len(d))
        BY <1>5, <1>9
    <2>2. Filtered(r, K) = Lines(d, {i \in A : TopKey(d, i) \notin K})
        BY <1>9, <1>10, <2>1, FilteredOfCopy
    <2>3. {i \in A : TopKey(d, i) \notin K} = B
        BY <1>5, <1>9, <1>15 DEF KeptLines
    <2>4. at \notin B
        <3>1. TopKey(doc, at) = key
            BY <1>3, LinesOfDoc
        <3> QED  BY <1>15, <3>1 DEF KeptLines
    <2>5. DOMAIN d = DOMAIN doc
        BY <1>1, <1>9 DEF IsDoc
    <2> HIDE DEF B
    <2>6. [i \in DOMAIN d |-> IF i \in B THEN <<d[i]>> ELSE <<>>]
            = [i \in DOMAIN doc |-> IF i \in B THEN <<doc[i]>> ELSE <<>>]
        BY <1>1, <1>6, <2>4, <2>5
    <2>7. Lines(d, B) = Lines(doc, B)
        BY <2>6 DEF Lines
    <2> QED  BY <2>2, <2>3, <2>7 DEF Filtered, B
<1> QED  BY <1>4, <1>11, <1>13, <1>14, <1>15 DEF Changed

LEMMA FieldAdded ==
    ASSUME NEW doc, IsDoc(doc), Distinct(doc), NEW key \in STRING, key # "", NEW val \in STRING, ~Has(doc, key)
    PROVE  Changed(WithField(doc, key, val), doc, key, val)
<1> DEFINE b == <<Field(key, val)>>
<1> DEFINE r == doc \o b
<1>1. doc \in Seq(ManifestLine)
    BY DEF IsDoc
<1>2. r = WithField(doc, key, val)
    <2>1. Field(key, val) \in ManifestLine
        <3>1. IsDoc(b)
            BY OneField
        <3>2. b[1] \in ManifestLine
            BY <3>1, OneLine, LinesOfDoc
        <3> QED  BY <3>2
    <2>2. Append(doc, Field(key, val)) = r
        BY <1>1, <2>1, AppendJoins
    <2> QED  BY <2>2 DEF WithField
<1>3. IsDoc(b) /\ Distinct(b) /\ (\A i \in 1..Len(b) : TopKey(b, i) = key) /\ Value(b, key) = val
    BY OneField
<1>4. ASSUME NEW i \in 1..Len(doc) PROVE TopKey(doc, i) \notin {key}
    <2>1. TopLine(doc, i) \in 1..Len(doc) /\ TopKey(doc, i) = doc[TopLine(doc, i)].key /\ doc[TopLine(doc, i)].ind = 0
        BY LinesOfDoc
    <2> QED  BY <2>1, ValueIs
<1>5. \A i \in 1..Len(b) : TopKey(b, i) \in {key}
    BY <1>3
<1> HIDE DEF b
<1>6. /\ IsDoc(r) /\ Distinct(r) /\ Filtered(r, {key}) = doc
      /\ \A k : Value(r, k) = (IF k \in {key} THEN Value(b, k) ELSE Value(doc, k))
    BY <1>3, <1>4, <1>5, JoinedFacts
<1> HIDE DEF r
<1>7. ASSUME NEW K, key \in K PROVE Filtered(r, K) = Filtered(doc, K)
    <2>1. Filtered(Filtered(r, {key}), K) = Filtered(r, K)
        BY <1>6, <1>7, FilteredMore
    <2> QED  BY <1>6, <2>1
<1>8. \A k : Value(r, k) = IF k = key THEN val ELSE Value(doc, k)
    BY <1>3, <1>6
<1> QED  BY <1>2, <1>6, <1>7, <1>8 DEF Changed

LEMMA WithFieldChanges ==
    ASSUME NEW doc, IsDoc(doc), Distinct(doc), NEW key \in STRING, key # "", NEW val \in STRING
    PROVE  Changed(WithField(doc, key, val), doc, key, val)
BY FieldAdded, FieldReplaced

(* a holds fields K, with the values v.                                      *)
Gathered(a, v, K) ==
    /\ IsDoc(a) /\ Distinct(a)
    /\ \A i \in 1..Len(a) : TopKey(a, i) \in K
    /\ \A f \in K : Value(a, f) = v[f]

LEMMA GatheredNext ==
    ASSUME NEW a, NEW v, NEW K, Gathered(a, v, K), NEW key, key \notin K,
           NEW b, Gathered(b, v, {key})
    PROVE  Gathered(a \o b, v, K \union {key})
<1>1. IsDoc(b) /\ Distinct(b) /\ (\A i \in 1..Len(b) : TopKey(b, i) \in {key}) /\ Value(b, key) = v[key]
    BY DEF Gathered
<1>2. IsDoc(a) /\ Distinct(a) /\ (\A i \in 1..Len(a) : TopKey(a, i) \in K) /\ \A f \in K : Value(a, f) = v[f]
    BY DEF Gathered
<1>3. \A i \in 1..Len(a) : TopKey(a, i) \notin {key}
    BY <1>2
<1> DEFINE c == a \o b
<1>4. /\ IsDoc(c) /\ Distinct(c)
      /\ \A k : Value(c, k) = (IF k \in {key} THEN Value(b, k) ELSE Value(a, k))
    BY <1>1, <1>2, <1>3, JoinedFacts
<1>5. /\ Len(a) \in Nat /\ Len(b) \in Nat /\ Len(c) = Len(a) + Len(b)
      /\ \A i \in 1..Len(a) : TopKey(c, i) = TopKey(a, i)
      /\ \A i \in 1..Len(b) : TopKey(c, Len(a) + i) = TopKey(b, i)
    <2>1. IsDoc(a) /\ IsDoc(b)
        BY <1>1, <1>2
    <2>2. /\ Len(a \o b) = Len(a) + Len(b) /\ Len(a) \in Nat /\ Len(b) \in Nat
          /\ \A i \in 1..Len(a) : (a \o b)[i] = a[i] /\ TopKey(a \o b, i) = TopKey(a, i)
          /\ \A i \in 1..Len(b) : (a \o b)[Len(a) + i] = b[i] /\ TopKey(a \o b, Len(a) + i) = TopKey(b, i)
        BY <2>1, JoinedLines
    <2>3. a \o b = c
        OBVIOUS
    <2> HIDE DEF c
    <2> QED  BY <2>2, <2>3
<1> HIDE DEF c
<1>6. ASSUME NEW i \in 1..Len(c) PROVE TopKey(c, i) \in K \union {key}
    <2>1. CASE i \in 1..Len(a)
        BY <1>2, <1>5, <2>1
    <2>2. CASE i \notin 1..Len(a)
        <3>1. i - Len(a) \in 1..Len(b) /\ Len(a) + (i - Len(a)) = i
            BY <1>5, <2>2
        <3>2. TopKey(c, i) = TopKey(b, i - Len(a))
            BY <1>5, <3>1
        <3> QED  BY <1>1, <3>1, <3>2
    <2> QED  BY <2>1, <2>2
<1>7. \A f \in K \union {key} : Value(c, f) = v[f]
    BY <1>1, <1>2, <1>4
<1>8. Gathered(c, v, K \union {key})
    BY <1>4, <1>6, <1>7 DEF Gathered
<1> QED  BY <1>8 DEF c

(* One field of a document.                                                  *)
LEMMA PairGathers ==
    ASSUME NEW doc, IsDoc(doc), Distinct(doc), NEW key \in STRING, NEW v, v[key] = Value(doc, key)
    PROVE  Gathered(Lines(doc, Pair(doc, key)), v, {key})
<1> DEFINE b == Lines(doc, Pair(doc, key))
<1> DEFINE L == STRING \ {key}
<1>1. b = Filtered(doc, L)
    BY Removals
<1>2. /\ IsDoc(Filtered(doc, L)) /\ Distinct(Filtered(doc, L))
      /\ \A i \in 1..Len(Filtered(doc, L)) : TopKey(Filtered(doc, L), i) \notin L
      /\ \A k : Value(Filtered(doc, L), k) = (IF k \in L THEN "" ELSE Value(doc, k))
    <2> HIDE DEF L
    <2> QED  BY FilteredFacts
<1> HIDE DEF b, L
<1>3. /\ IsDoc(b) /\ Distinct(b)
      /\ \A i \in 1..Len(b) : TopKey(b, i) \notin L
      /\ \A k : Value(b, k) = (IF k \in L THEN "" ELSE Value(doc, k))
    BY <1>1, <1>2
<1>4. ASSUME NEW i \in 1..Len(b) PROVE TopKey(b, i) \in {key}
    <2>1. TopLine(b, i) \in 1..Len(b) /\ TopKey(b, i) = b[TopLine(b, i)].key
        BY <1>3, LinesOfDoc
    <2>2. b[TopLine(b, i)].key \in STRING
        BY <1>3, <2>1, LinesOfDoc
    <2> QED  BY <1>3, <2>1, <2>2 DEF L
<1>5. \A f \in {key} : Value(b, f) = v[f]
    BY <1>3 DEF L
<1>6. Gathered(b, v, {key})
    BY <1>3, <1>4, <1>5 DEF Gathered
<1> QED  BY <1>6 DEF b

LEMMA StaticNames ==
    /\ StaticPackageFields = <<"package", "version", "name", "min_os_version", "locales">>
    /\ StaticPackageFields \in Seq(Static) /\ Len(StaticPackageFields) = 5 /\ DOMAIN StaticPackageFields = 1..5
    /\ Static = {"package", "version", "name", "min_os_version", "locales"}
    /\ \A f \in Overridable : f \in STRING /\ f # ""
    /\ Overridable = Static \union {"services"} /\ "services" \notin Static
<1> DEFINE s == StaticPackageFields
<1>1. s = <<"package", "version", "name", "min_os_version", "locales">>
    BY DEF StaticPackageFields
<1>2. Len(s) = 5 /\ DOMAIN s = 1..5
    BY <1>1
<1>3. 1..5 = {1, 2, 3, 4, 5}
    OBVIOUS
<1>4. s[1] = "package" /\ s[2] = "version" /\ s[3] = "name" /\ s[4] = "min_os_version" /\ s[5] = "locales"
    BY <1>1
<1>5. Static = {s[1], s[2], s[3], s[4], s[5]}
    <2>1. Static = {s[i] : i \in DOMAIN s}
        BY DEF Static, ToSet
    <2> HIDE DEF s
    <2> QED  BY <1>2, <1>3, <2>1
<1>6. Static = {"package", "version", "name", "min_os_version", "locales"}
    BY <1>4, <1>5
<1>7. s \in Seq(Static)
    <2>1. s = [i \in 1..5 |-> s[i]]
        BY <1>1, <1>2
    <2>2. \A i \in 1..5 : s[i] \in Static
        BY <1>3, <1>5
    <2> HIDE DEF s
    <2> QED  BY <2>1, <2>2
<1>8. \A f \in Overridable : f \in STRING /\ f # ""
    <2>1. Overridable \subseteq STRING
        BY WordsAssumption DEF Words
    <2>2. \A f \in Static \union {"services"} : f # ""
        BY <1>6
    <2> QED  BY <2>1, <2>2 DEF Overridable
<1> QED  BY <1>1, <1>2, <1>6, <1>7, <1>8 DEF Overridable

(* The static fields of a document, in their order.                          *)
LEMMA StaticFieldsAre ==
    ASSUME NEW doc, IsDoc(doc), Distinct(doc)
    PROVE  Gathered(StaticFields(doc), [f \in Static |-> Value(doc, f)], Static)
<1> DEFINE s == StaticPackageFields
<1> DEFINE p(i) == Lines(doc, Pair(doc, s[i]))
<1> DEFINE parts == [k \in 1..5 |-> p(k)]
<1> DEFINE v == [f \in Static |-> Value(doc, f)]
<1> DEFINE g0 == <<>>
<1> DEFINE g1 == g0 \o p(1)
<1> DEFINE g2 == g1 \o p(2)
<1> DEFINE g3 == g2 \o p(3)
<1> DEFINE g4 == g3 \o p(4)
<1> DEFINE g5 == g4 \o p(5)
<1>1. /\ s[1] = "package" /\ s[2] = "version" /\ s[3] = "name" /\ s[4] = "min_os_version" /\ s[5] = "locales"
      /\ s[1] \in STRING /\ s[2] \in STRING /\ s[3] \in STRING /\ s[4] \in STRING /\ s[5] \in STRING
      /\ Static = {s[1], s[2], s[3], s[4], s[5]} /\ DOMAIN s = 1..5
    BY StaticNames
<1>2. StaticFields(doc) = FlattenSeq(parts)
    BY <1>1 DEF StaticFields
<1> HIDE DEF s, p
<1> DEFINE K1 == {s[1]}
<1> DEFINE K2 == K1 \union {s[2]}
<1> DEFINE K3 == K2 \union {s[3]}
<1> DEFINE K4 == K3 \union {s[4]}
<1> DEFINE K5 == K4 \union {s[5]}
<1>3. /\ s[1] \notin {} /\ s[2] \notin K1 /\ s[3] \notin K2 /\ s[4] \notin K3 /\ s[5] \notin K4
      /\ {} \union {s[1]} = K1 /\ K5 = Static
    BY <1>1
<1>4. Gathered(g0, v, {})
    BY EmptyDocument DEF Gathered
<1> HIDE DEF v, g0, g1, g2, g3, g4, g5, K1, K2, K3, K4, K5
<1>4a. /\ Gathered(p(1), v, {s[1]}) /\ Gathered(p(2), v, {s[2]}) /\ Gathered(p(3), v, {s[3]})
       /\ Gathered(p(4), v, {s[4]}) /\ Gathered(p(5), v, {s[5]})
    <2>1. ASSUME NEW i \in 1..5, s[i] \in STRING, s[i] \in Static PROVE Gathered(p(i), v, {s[i]})
        <3>1. v[s[i]] = Value(doc, s[i])
            BY <2>1 DEF v
        <3> QED  BY <2>1, <3>1, PairGathers DEF p
    <2> QED  BY <1>1, <2>1
<1>5. Gathered(g1, v, K1)
    <2>1. Gathered(g0 \o p(1), v, {} \union {s[1]})
        BY <1>3, <1>4, <1>4a, GatheredNext
    <2> QED  BY <1>3, <2>1 DEF g1
<1>6. Gathered(g2, v, K2)
    <2>1. Gathered(g1 \o p(2), v, K1 \union {s[2]})
        BY <1>3, <1>5, <1>4a, GatheredNext
    <2> QED  BY <2>1 DEF g2, K2
<1>7. Gathered(g3, v, K3)
    <2>1. Gathered(g2 \o p(3), v, K2 \union {s[3]})
        BY <1>3, <1>6, <1>4a, GatheredNext
    <2> QED  BY <2>1 DEF g3, K3
<1>8. Gathered(g4, v, K4)
    <2>1. Gathered(g3 \o p(4), v, K3 \union {s[4]})
        BY <1>3, <1>7, <1>4a, GatheredNext
    <2> QED  BY <2>1 DEF g4, K4
<1>9. Gathered(g5, v, K5)
    <2>1. Gathered(g4 \o p(5), v, K4 \union {s[5]})
        BY <1>3, <1>8, <1>4a, GatheredNext
    <2> QED  BY <2>1 DEF g5, K5
<1>10. FlattenSeq(parts) = g5
    <2> DEFINE h == [i \in 0..5 |-> IF i = 0 THEN g0 ELSE IF i = 1 THEN g1 ELSE IF i = 2 THEN g2
                                    ELSE IF i = 3 THEN g3 ELSE IF i = 4 THEN g4 ELSE g5]
    <2>1. /\ g0 \in Seq(ManifestLine) /\ g1 \in Seq(ManifestLine) /\ g2 \in Seq(ManifestLine)
          /\ g3 \in Seq(ManifestLine) /\ g4 \in Seq(ManifestLine) /\ g5 \in Seq(ManifestLine)
        BY <1>4, <1>5, <1>6, <1>7, <1>8, <1>9 DEF Gathered, IsDoc
    <2>2. ASSUME NEW i \in 1..5 PROVE p(i) \in Seq(ManifestLine)
        <3>1. s[i] \in STRING
            <4>1. i = 1 \/ i = 2 \/ i = 3 \/ i = 4 \/ i = 5
                OBVIOUS
            <4> QED  BY <1>1, <4>1
        <3>2. p(i) = Filtered(doc, STRING \ {s[i]})
            BY <3>1, Removals DEF p
        <3> DEFINE L == STRING \ {s[i]}
        <3> HIDE DEF L
        <3>3. IsDoc(Filtered(doc, L))
            BY FilteredFacts
        <3> QED  BY <3>2, <3>3 DEF L, IsDoc
    <2>3. parts \in [1..5 -> Seq(ManifestLine)] /\ \A i \in 1..5 : parts[i] = p(i)
        BY <2>2
    <2>4. /\ h[0] = g0 /\ h[1] = g1 /\ h[2] = g2 /\ h[3] = g3 /\ h[4] = g4 /\ h[5] = g5
          /\ h \in [0..5 -> Seq(ManifestLine)]
        BY <2>1
    <2> HIDE DEF h, parts
    <2>5. ASSUME NEW i \in 1..5 PROVE h[i] = h[i-1] \o parts[i]
        <3>1. parts[i] = p(i)
            BY <2>3
        <3>2. i = 1 \/ i = 2 \/ i = 3 \/ i = 4 \/ i = 5
            OBVIOUS
        <3>3. CASE i = 1
            BY <2>4, <3>1, <3>3 DEF g1
        <3>4. CASE i = 2
            BY <2>4, <3>1, <3>4 DEF g2
        <3>5. CASE i = 3
            BY <2>4, <3>1, <3>5 DEF g3
        <3>6. CASE i = 4
            BY <2>4, <3>1, <3>6 DEF g4
        <3>7. CASE i = 5
            BY <2>4, <3>1, <3>7 DEF g5
        <3> QED  BY <3>2, <3>3, <3>4, <3>5, <3>6, <3>7
    <2>6. Appends(h, parts, 5, ManifestLine)
        BY <2>3, <2>4, <2>5 DEF Appends, g0
    <2>7. FlattenSeq(parts) = h[5]
        BY <2>6, FlattenRuns
    <2> QED  BY <2>4, <2>7
<1> QED  BY <1>2, <1>3, <1>9, <1>10 DEF v

(* What LoadEffective makes of a manifest and a package.yml: the static fields *)
(* of package.yml and the other ones of the manifest.                       *)
Merged(got, doc, pack) ==
    /\ IsDoc(got.doc) /\ Distinct(got.doc) /\ (got.ok <=> Decodes(got.doc))
    /\ \A f \in Static : Value(got.doc, f) = Value(pack, f)
    /\ \A key : key \notin Static => Value(got.doc, key) = Value(doc, key)
    /\ Filtered(got.doc, Static) = Filtered(doc, Static)

LEMMA MergedIs ==
    ASSUME NEW doc, IsDoc(doc), Distinct(doc), NEW pack, IsDoc(pack), Distinct(pack),
           NEW strict \in BOOLEAN, strict = TRUE => \A i \in 1..Len(doc) : TopKey(doc, i) \notin Static
    PROVE  Merged(LoadEffective(doc, TRUE, pack, strict), doc, pack)
<1> DEFINE a == Filtered(doc, Static)
<1> DEFINE b == StaticFields(pack)
<1> DEFINE c == a \o b
<1> DEFINE got == LoadEffective(doc, TRUE, pack, strict)
<1> DEFINE v == [f \in Static |-> Value(pack, f)]
<1>1. WithoutStatic(doc) = a
    BY Removals
<1>2. /\ IsDoc(a) /\ Distinct(a) /\ \A i \in 1..Len(a) : TopKey(a, i) \notin Static
      /\ \A key : key \notin Static => Value(a, key) = Value(doc, key)
    <2>1. IsDoc(a) /\ Distinct(a)
        BY FilteredFacts
    <2>2. \A i \in 1..Len(a) : TopKey(a, i) \notin Static
        BY FilteredFacts
    <2>3. \A key : Value(a, key) = (IF key \in Static THEN "" ELSE Value(doc, key))
        BY FilteredFacts
    <2>4. \A key : key \notin Static => Value(a, key) = Value(doc, key)
        <3> HIDE DEF a
        <3> QED  BY <2>3, Zenon
    <2> QED  BY <2>1, <2>2, <2>4
<1>3. Gathered(b, v, Static)
    BY StaticFieldsAre
<1>4. \A f \in Static : v[f] = Value(pack, f)
    OBVIOUS
<1>5. got = [ok  |-> /\ strict /\ TRUE => \A f \in Static : ~Has(doc, f)
                     /\ NoDuplicates(c) /\ Decodes(c),
             doc |-> c]
    BY <1>1 DEF LoadEffective
<1> HIDE DEF a, b, got, v
<1>6. IsDoc(b) /\ Distinct(b) /\ (\A i \in 1..Len(b) : TopKey(b, i) \in Static) /\ \A f \in Static : Value(b, f) = Value(pack, f)
    BY <1>3, <1>4 DEF Gathered
<1>7. /\ IsDoc(c) /\ Distinct(c) /\ Filtered(c, Static) = a
      /\ \A key : Value(c, key) = (IF key \in Static THEN Value(b, key) ELSE Value(a, key))
    <2>1. IsDoc(a) /\ Distinct(a) /\ \A i \in 1..Len(a) : TopKey(a, i) \notin Static
        BY <1>2
    <2>2. IsDoc(b) /\ Distinct(b) /\ \A i \in 1..Len(b) : TopKey(b, i) \in Static
        BY <1>6
    <2> QED  BY <2>1, <2>2, JoinedFacts
<1> HIDE DEF c
<1>8. NoDuplicates(c)
    BY <1>7, NoDuplicatesIsDistinct
<1>9. ASSUME strict, NEW f \in Static PROVE ~Has(doc, f)
    <2>1. ASSUME NEW i \in 1..Len(doc), doc[i].ind = 0, doc[i].key = f PROVE FALSE
        <3>1. TopKey(doc, i) = f
            BY <2>1, LinesOfDoc
        <3>2. strict = TRUE
            BY <1>9
        <3> QED  BY <3>1, <3>2
    <2> QED  BY <2>1, ValueIs
<1>10. got.doc = c /\ (got.ok <=> Decodes(c))
    BY <1>5, <1>8, <1>9
<1>11. Merged(got, doc, pack)
    BY <1>2, <1>6, <1>7, <1>10 DEF Merged, a
<1> QED  BY <1>11 DEF got

(* Documents whose keys are distinct.                                        *)
Documents == {d \in Seq(ManifestLine) : IsDoc(d) /\ Distinct(d)}

(* What a configuration declares of a field that a document has otherwise.   *)
Settled(p, f, val) == IF f \in DOMAIN p.override THEN p.override[f] ELSE val

LEMMA OverrideOne ==
    ASSUME NEW p, IsProject(p), NEW doc \in Documents, NEW key \in Overridable
    PROVE  /\ WithOverride(doc, p, key) \in Documents
           /\ Value(WithOverride(doc, p, key), key) = Settled(p, key, Value(doc, key))
           /\ \A f : f # key => Value(WithOverride(doc, p, key), f) = Value(doc, f)
           /\ \A K : DOMAIN p.override \subseteq K => Filtered(WithOverride(doc, p, key), K) = Filtered(doc, K)
<1> DEFINE r == WithOverride(doc, p, key)
<1>1. IsDoc(doc) /\ Distinct(doc) /\ key \in STRING /\ key # ""
    BY StaticNames DEF Documents
<1>2. CASE key \notin DOMAIN p.override
    BY <1>2 DEF WithOverride, Settled
<1>3. CASE key \in DOMAIN p.override
    <2> DEFINE val == p.override[key]
    <2>1. val \in STRING
        BY <1>3 DEF IsProject
    <2>2. r = IF val = "" THEN Without(doc, key) ELSE WithField(doc, key, val)
        BY <1>3 DEF WithOverride
    <2>3. Settled(p, key, Value(doc, key)) = val
        BY <1>3 DEF Settled
    <2> HIDE DEF r, val
    <2>4. Changed(r, doc, key, val)
        <3>1. CASE val = ""
            <4>1. Changed(Without(doc, key), doc, key, "")
                BY <1>1, WithoutChanges
            <4> QED  BY <2>2, <3>1, <4>1
        <3>2. CASE val # ""
            <4>1. Changed(WithField(doc, key, val), doc, key, val)
                BY <1>1, <2>1, WithFieldChanges
            <4> QED  BY <2>2, <3>2, <4>1
        <3> QED  BY <3>1, <3>2
    <2>5. /\ IsDoc(r) /\ Distinct(r) /\ Value(r, key) = val
          /\ \A K : key \in K => Filtered(r, K) = Filtered(doc, K)
          /\ \A f : f # key => Value(r, f) = Value(doc, f)
        BY <2>4 DEF Changed
    <2>6. r \in Seq(ManifestLine)
        BY <2>5 DEF IsDoc
    <2> QED  BY <1>3, <2>3, <2>5, <2>6 DEF Documents, r
<1> QED  BY <1>2, <1>3

(* The overrides of the configuration, one after the other.                  *)
AllOverrides(doc, p) == FoldLeft(LAMBDA d, x : WithOverride(d, p, x), doc, StaticPackageFields)

LEMMA OverrideRun ==
    ASSUME NEW p, IsProject(p), NEW doc \in Documents
    PROVE  \E f \in [0..5 -> Documents] :
             /\ f[0] = doc /\ \A i \in 1..5 : f[i] = WithOverride(f[i-1], p, StaticPackageFields[i])
             /\ AllOverrides(doc, p) = f[5]
<1> DEFINE keys == StaticPackageFields
<1> DEFINE n == 5
<1> DEFINE T == Documents
<1> DEFINE step == [q \in T \X (1..n) |-> WithOverride(q[1], p, keys[q[2]])]
<1> DEFINE Body(h) == [s \in SUBSET DOMAIN keys |->
                          IF s = {} THEN doc ELSE WithOverride(h[s \ {Max(s)}], p, keys[Max(s)])]
<1> DEFINE g == CHOOSE h : h = Body(h)
<1>1. n \in Nat /\ DOMAIN keys = 1..n
    BY StaticNames
<1>2. doc \in T /\ step \in [T \X (1..n) -> T]
    <2>1. ASSUME NEW x \in T, NEW i \in 1..n PROVE WithOverride(x, p, keys[i]) \in T
        <3>1. keys[i] \in Overridable
            BY StaticNames
        <3> QED  BY <3>1, OverrideOne
    <2>2. \A q \in T \X (1..n) : WithOverride(q[1], p, keys[q[2]]) \in T
        <3> HIDE DEF T, n, keys
        <3> QED  BY <2>1
    <2> QED  BY <2>2
<1>3. FoldLeft(LAMBDA d, x : WithOverride(d, p, x), doc, keys) = g[1..n]
    <2> HIDE DEF keys
    <2> QED  BY <1>1 DEF FoldLeft, MapThenFoldSet
<1>4. \A x \in T, i \in 1..n : step[<<x, i>>] = WithOverride(x, p, keys[i])
    OBVIOUS
<1> HIDE DEF keys
<1>5. g = Body(g)
    <2>1. PICK h : IsFold(h, n, T, doc, step)
        <3> HIDE DEF T, n, step
        <3> QED  BY <1>1, <1>2, FoldExists
    <2>2. ASSUME NEW s \in SUBSET (1..n), s # {}
          PROVE  h[s] = WithOverride(h[s \ {Max(s)}], p, keys[Max(s)])
        <3> HIDE DEF T, n, step
        <3>1. Max(s) \in 1..n /\ s \ {Max(s)} \in SUBSET (1..n)
            BY <1>1, <2>2, MaxOfPositions
        <3>2. h[s \ {Max(s)}] \in T /\ h[s] = step[<<h[s \ {Max(s)}], Max(s)>>]
            BY <2>1, <2>2, <3>1 DEF IsFold
        <3> QED  BY <1>4, <3>1, <3>2
    <2>3. h \in [SUBSET (1..n) -> T] /\ h[{}] = doc
        BY <2>1 DEF IsFold
    <2>4. h = Body(h)
        <3> HIDE DEF T, n
        <3> QED  BY <1>1, <2>2, <2>3
    <2> QED  BY <2>4
<1>6. Folds(g, n, T, doc, step)
    <2>1. g[{}] = doc
        <3> HIDE DEF g, T
        <3> QED  BY <1>5
    <2>2. ASSUME NEW i \in 1..n, g[1..(i-1)] \in T
          PROVE  g[1..i] = step[<<g[1..(i-1)], i>>]
        <3> HIDE DEF g, T, n, step
        <3>1. n \in Nat
            BY <1>1
        <3>2. 1..i # {} /\ 1..i \in SUBSET (1..n) /\ (1..i) \ {Max(1..i)} = 1..(i-1) /\ Max(1..i) = i
            BY <3>1, FirstPositions
        <3>3. g[1..i] = WithOverride(g[(1..i) \ {Max(1..i)}], p, keys[Max(1..i)])
            BY <1>1, <1>5, <3>2
        <3>4. g[1..i] = WithOverride(g[1..(i-1)], p, keys[i])
            BY <3>2, <3>3
        <3> QED  BY <1>4, <2>2, <3>4
    <2> QED  BY <2>1, <2>2 DEF Folds
<1>7. PICK f : IsRun(f, n, T, doc, step) /\ RunOf(f, g, n)
    <2> HIDE DEF T, n, step, g
    <2> QED  BY <1>1, <1>2, <1>6, FoldRuns
<1>8. f[n] = g[1..n]
    <2> HIDE DEF g, n
    <2>1. n \in 0..n
        BY <1>1
    <2> QED  BY <1>7, <2>1 DEF RunOf
<1>9. f \in [0..n -> T] /\ f[0] = doc
    BY <1>7 DEF IsRun
<1>10. ASSUME NEW i \in 1..n PROVE f[i] = WithOverride(f[i-1], p, keys[i])
    <2> HIDE DEF T, n, step, g
    <2>1. i - 1 \in 0..n
        BY <1>1
    <2>2. f[i-1] \in T /\ f[i] = step[<<f[i-1], i>>]
        BY <1>7, <2>1 DEF IsRun
    <2> QED  BY <1>4, <2>2
<1> HIDE DEF g
<1>11. FoldLeft(LAMBDA d, x : WithOverride(d, p, x), doc, keys) = f[n]
    BY <1>3, <1>8
<1> QED  BY <1>9, <1>10, <1>11 DEF keys, AllOverrides

(* What metadata overrides make of a document: each field is what the request, *)
(* the configuration or else the document says; other fields stay.           *)
LEMMA OverriddenIs ==
    ASSUME NEW p, IsProject(p), NEW doc \in Documents
    PROVE  /\ Overridden(doc, p) \in Documents
           /\ \A K : Static \union DOMAIN p.override \subseteq K => Filtered(Overridden(doc, p), K) = Filtered(doc, K)
           /\ \A f \in Overridable : Value(Overridden(doc, p), f) =
                (IF f = "version" /\ p.version # "" THEN p.version ELSE Settled(p, f, Value(doc, f)))
<1> DEFINE all == AllOverrides(doc, p)
<1> DEFINE conf == WithOverride(all, p, "services")
<1> DEFINE r == Overridden(doc, p)
<1> DEFINE Same(a, b) == \A K : DOMAIN p.override \subseteq K => Filtered(a, K) = Filtered(b, K)
<1>1. r = IF p.version = "" THEN conf ELSE WithField(conf, "version", p.version)
    BY DEF Overridden, Configured, AllOverrides
<1>2. PICK g \in [0..5 -> Documents] :
             /\ g[0] = doc /\ \A i \in 1..5 : g[i] = WithOverride(g[i-1], p, StaticPackageFields[i])
             /\ all = g[5]
    BY OverrideRun
<1> HIDE DEF all, r
<1>3. ASSUME NEW i \in 1..5, NEW key \in Static, key = StaticPackageFields[i]
      PROVE  /\ g[i-1] \in Documents /\ g[i] \in Documents
             /\ Value(g[i], key) = Settled(p, key, Value(g[i-1], key))
             /\ \A f : f # key => Value(g[i], f) = Value(g[i-1], f)
             /\ Same(g[i], g[i-1])
    <2>1. g[i-1] \in Documents
        BY <1>2
    <2>2. g[i] = WithOverride(g[i-1], p, key)
        BY <1>2, <1>3
    <2>3. key \in Overridable
        BY StaticNames
    <2> QED  BY <2>1, <2>2, <2>3, OverrideOne
<1> HIDE DEF Same
<1>4. /\ StaticPackageFields[1] = "package" /\ StaticPackageFields[2] = "version"
      /\ StaticPackageFields[3] = "name" /\ StaticPackageFields[4] = "min_os_version"
      /\ StaticPackageFields[5] = "locales"
      /\ Static = {"package", "version", "name", "min_os_version", "locales"}
      /\ Overridable = Static \union {"services"} /\ "services" \notin Static
    BY StaticNames
<1>5. /\ Value(g[1], "package") = Settled(p, "package", Value(doc, "package"))
      /\ \A f : f # "package" => Value(g[1], f) = Value(doc, f)
      /\ Same(g[1], doc)
    <2>1. 1 \in 1..5 /\ 1 - 1 = 0
        OBVIOUS
    <2> QED  BY <1>2, <1>3, <1>4, <2>1
<1>6. /\ Value(g[2], "version") = Settled(p, "version", Value(g[1], "version"))
      /\ \A f : f # "version" => Value(g[2], f) = Value(g[1], f)
      /\ Same(g[2], g[1])
    <2>1. 2 \in 1..5 /\ 2 - 1 = 1
        OBVIOUS
    <2> QED  BY <1>3, <1>4, <2>1
<1>7. /\ Value(g[3], "name") = Settled(p, "name", Value(g[2], "name"))
      /\ \A f : f # "name" => Value(g[3], f) = Value(g[2], f)
      /\ Same(g[3], g[2])
    <2>1. 3 \in 1..5 /\ 3 - 1 = 2
        OBVIOUS
    <2> QED  BY <1>3, <1>4, <2>1
<1>8. /\ Value(g[4], "min_os_version") = Settled(p, "min_os_version", Value(g[3], "min_os_version"))
      /\ \A f : f # "min_os_version" => Value(g[4], f) = Value(g[3], f)
      /\ Same(g[4], g[3])
    <2>1. 4 \in 1..5 /\ 4 - 1 = 3
        OBVIOUS
    <2> QED  BY <1>3, <1>4, <2>1
<1>9. /\ Value(all, "locales") = Settled(p, "locales", Value(g[4], "locales"))
      /\ \A f : f # "locales" => Value(all, f) = Value(g[4], f)
      /\ Same(all, g[4]) /\ all \in Documents
    <2>1. 5 \in 1..5 /\ 5 - 1 = 4
        OBVIOUS
    <2> QED  BY <1>2, <1>3, <1>4, <2>1
<1>10. /\ conf \in Documents /\ Same(conf, all)
       /\ Value(conf, "services") = Settled(p, "services", Value(all, "services"))
       /\ \A f : f # "services" => Value(conf, f) = Value(all, f)
    <2>1. "services" \in Overridable
        BY <1>4
    <2> QED  BY <1>9, <2>1, OverrideOne DEF Same
<1> HIDE DEF conf
<1>11. Same(conf, doc)
    BY <1>5, <1>6, <1>7, <1>8, <1>9, <1>10 DEF Same
<1>12. ASSUME NEW f \in Overridable PROVE Value(conf, f) = Settled(p, f, Value(doc, f))
    <2>1. CASE f = "package"
        BY <1>5, <1>6, <1>7, <1>8, <1>9, <1>10, <2>1
    <2>2. CASE f = "version"
        BY <1>5, <1>6, <1>7, <1>8, <1>9, <1>10, <2>2
    <2>3. CASE f = "name"
        BY <1>5, <1>6, <1>7, <1>8, <1>9, <1>10, <2>3
    <2>4. CASE f = "min_os_version"
        BY <1>5, <1>6, <1>7, <1>8, <1>9, <1>10, <2>4
    <2>5. CASE f = "locales"
        BY <1>5, <1>6, <1>7, <1>8, <1>9, <1>10, <2>5
    <2>6. CASE f = "services"
        BY <1>5, <1>6, <1>7, <1>8, <1>9, <1>10, <2>6
    <2> QED  BY <1>4, <2>1, <2>2, <2>3, <2>4, <2>5, <2>6
<1>13. CASE p.version = ""
    <2>1. r = conf
        BY <1>1, <1>13
    <2> QED  BY <1>10, <1>11, <1>12, <1>13, <2>1 DEF r, Same
<1>14. CASE p.version # ""
    <2>1. "version" \in Static /\ "version" \in STRING /\ "version" # ""
        BY <1>4, StaticNames
    <2>2. p.version \in STRING /\ IsDoc(conf) /\ Distinct(conf)
        BY <1>10 DEF IsProject, Documents
    <2>3. Changed(WithField(conf, "version", p.version), conf, "version", p.version)
        BY <2>1, <2>2, WithFieldChanges
    <2>4. Changed(r, conf, "version", p.version)
        BY <1>1, <1>14, <2>3
    <2>5. /\ IsDoc(r) /\ Distinct(r) /\ \A K : "version" \in K => Filtered(r, K) = Filtered(conf, K)
          /\ \A f : Value(r, f) = IF f = "version" THEN p.version ELSE Value(conf, f)
        BY <2>4 DEF Changed
    <2>6. r \in Documents
        BY <2>5 DEF Documents, IsDoc
    <2>7. \A K : Static \union DOMAIN p.override \subseteq K => Filtered(r, K) = Filtered(doc, K)
        BY <1>11, <2>1, <2>5 DEF Same
    <2> QED  BY <1>12, <1>14, <2>5, <2>6, <2>7 DEF r
<1> QED  BY <1>13, <1>14

(* The document of a text that parses.                                       *)
LEMMA DocumentIs ==
    ASSUME NEW text \in Seq(ManifestLine), Parses(text)
    PROVE  /\ IsDoc(DocumentOf(text))
           /\ Distinct(DocumentOf(text)) => \A key : Value(DocumentOf(text), key) = Value(text, key)
<1> DEFINE A == {i \in 1..Len(text) : HasKey(text[i])}
<1> DEFINE d == Lines(text, A)
<1>1. Len(text) \in Nat /\ DOMAIN text = 1..Len(text) /\ \A i \in 1..Len(text) : text[i] \in ManifestLine
    OBVIOUS
<1>2. d = DocumentOf(text)
    BY <1>1 DEF DocumentOf
<1>3. A \in SUBSET (1..Len(text)) /\ \A i \in 1..Len(text) : i \in A <=> HasKey(text[i])
    OBVIOUS
<1> HIDE DEF A
<1>4. PICK e : Keeps(d, text, A, e)
    BY <1>3, LinesKeeps
<1> HIDE DEF d
<1>5. /\ d \in Seq(ManifestLine) /\ Len(d) \in Nat /\ DOMAIN d = 1..Len(d)
      /\ \A a \in A : \E k \in 1..Len(d) : e[k] = a
      /\ \A j, k \in 1..Len(d) : j < k => e[j] < e[k]
      /\ e \in [1..Len(d) -> A] /\ \A k \in 1..Len(d) : d[k] = text[e[k]]
    BY <1>4 DEF Keeps, Enumerates
<1>6. ASSUME NEW k \in 1..Len(d) PROVE e[k] \in 1..Len(text) /\ HasKey(text[e[k]]) /\ d[k] = text[e[k]]
    <2>1. e[k] \in A /\ d[k] = text[e[k]]
        BY <1>5
    <2> QED  BY <1>3, <2>1
<1>7. ASSUME NEW i \in 1..Len(text), HasKey(text[i])
      PROVE  /\ text[i].ind \in {0, 1} /\ (Owner(text, i) = 0 <=> text[i].ind = 0)
             /\ text[i].ind = 1 => Owner(text, i) \in 1..(i-1) /\ HasKey(text[Owner(text, i)])
    <2>1. text[i] \in ManifestLine
        BY <1>1
    <2>2. text[i].ind \in {0, 1}
        BY <2>1 DEF ManifestLine
    <2>3. text[i].ind = 0 => Owner(text, i) = 0
        BY DEF Owner
    <2>4. text[i].ind = 1 => Owner(text, i) # 0
        BY <1>1, <1>7 DEF Parses
    <2>5. ASSUME text[i].ind = 1 PROVE Owner(text, i) \in 1..(i-1) /\ HasKey(text[Owner(text, i)])
        <3> DEFINE above == {j \in 1..i-1 : HasKey(text[j]) /\ text[j].ind = 0}
        <3>1. above # {} /\ Owner(text, i) = Max(above)
            BY <2>4, <2>5 DEF Owner
        <3>2. above \in SUBSET (1..(i-1)) /\ i - 1 \in Nat /\ \A j \in above : HasKey(text[j])
            OBVIOUS
        <3> HIDE DEF above
        <3>3. Max(above) \in above
            BY <3>1, <3>2, MaxOfPositions
        <3> QED  BY <3>1, <3>2, <3>3
    <2> QED  BY <2>2, <2>3, <2>4, <2>5
<1>8. IsDoc(d)
    <2>1. \A i \in DOMAIN d : HasKey(d[i])
        BY <1>5, <1>6
    <2>2. ASSUME d # <<>>, d[1].ind # 0 PROVE FALSE
        <3>1. Len(d) # 0
            BY <1>5, <2>2
        <3>2. 1 \in 1..Len(d) /\ \A k \in 1..Len(d) : k = 1 \/ 1 < k
            BY <1>5, <3>1
        <3>3. e[1] \in 1..Len(text) /\ HasKey(text[e[1]]) /\ d[1] = text[e[1]]
            BY <1>6, <3>2
        <3> DEFINE o == Owner(text, e[1])
        <3>4. o \in 1..(e[1]-1) /\ HasKey(text[o])
            BY <1>7, <2>2, <3>3
        <3> HIDE DEF o
        <3>5. o \in 1..Len(text) /\ o < e[1] /\ o \in A
            BY <1>1, <1>3, <3>3, <3>4
        <3>6. PICK k \in 1..Len(d) : e[k] = o
            BY <1>5, <3>5
        <3>7. k = 1 \/ e[1] < e[k]
            BY <1>5, <3>2
        <3> QED  BY <3>3, <3>5, <3>6, <3>7
    <2> QED  BY <1>5, <2>1, <2>2 DEF IsDoc
<1>9. ASSUME Distinct(d), NEW key PROVE Value(d, key) = Value(text, key)
    <2> DEFINE P == Pairs(text, 0, key)
    <2>1. P = {i \in 1..Len(text) : HasKey(text[i]) /\ text[i].key = key /\ text[i].ind = 0}
        BY <1>1, <1>7 DEF Pairs
    <2>2. Value(text, key) = IF P # {} THEN text[Min(P)].val ELSE ""
        BY DEF Value, Has
    <2> HIDE DEF P
    <2>3. CASE P # {}
        <3>1. P \in SUBSET (1..Len(text))
            BY <2>1
        <3>2. Min(P) \in P
            BY <1>1, <2>3, <3>1, MinOfPositions
        <3> DEFINE at == Min(P)
        <3> HIDE DEF at
        <3>3. at \in 1..Len(text) /\ HasKey(text[at]) /\ text[at].key = key /\ text[at].ind = 0
            BY <2>1, <3>2 DEF at
        <3>4. PICK k \in 1..Len(d) : e[k] = at
            BY <1>3, <1>5, <3>3
        <3>5. d[k] = text[at]
            BY <1>6, <3>4
        <3>6. d[k].ind = 0 /\ d[k].key = key
            BY <3>3, <3>5
        <3>7. Value(d, key) = d[k].val
            BY <1>8, <1>9, <3>6, ValueIs
        <3> QED  BY <2>2, <2>3, <3>5, <3>7 DEF at
    <2>4. CASE P = {}
        <3>1. ASSUME NEW k \in 1..Len(d), d[k].ind = 0, d[k].key = key PROVE FALSE
            <4>1. e[k] \in 1..Len(text) /\ HasKey(text[e[k]]) /\ d[k] = text[e[k]]
                BY <1>6
            <4>2. text[e[k]].ind = 0 /\ text[e[k]].key = key
                BY <3>1, <4>1
            <4>3. e[k] \in P
                BY <2>1, <4>1, <4>2
            <4> QED  BY <2>4, <4>3
        <3>2. Value(d, key) = ""
            BY <1>8, <1>9, <3>1, ValueIs
        <3> QED  BY <2>2, <2>4, <3>2
    <2> QED  BY <2>3, <2>4
<1> QED  BY <1>2, <1>8, <1>9

LEMMA DocumentStays ==
    ASSUME NEW doc, IsDoc(doc)
    PROVE  DocumentOf(doc) = doc
<1>1. {i \in DOMAIN doc : HasKey(doc[i])} = 1..Len(doc)
    BY DEF IsDoc
<1>2. KeptLines(doc, {}) = 1..Len(doc)
    BY DEF KeptLines
<1>3. Filtered(doc, {}) = doc
    BY FilteredSame
<1> QED  BY <1>1, <1>2, <1>3 DEF DocumentOf, Filtered

LEMMA DocumentPinned ==
    ASSUME NEW text \in Seq(ManifestLine)
    PROVE  DocumentOf(Pinned(text)) = Pinned(DocumentOf(text))
<1> DEFINE p == Pinned(text)
<1> DEFINE A == {i \in DOMAIN text : HasKey(text[i])}
<1>1. DOMAIN p = DOMAIN text /\ DOMAIN text = 1..Len(text) /\ \A i \in 1..Len(text) : HasKey(p[i]) <=> HasKey(text[i])
    BY PinnedShape
<1> HIDE DEF p
<1>2. {i \in DOMAIN p : HasKey(p[i])} = A
    BY <1>1
<1>3. DocumentOf(p) = Lines(p, A)
    BY <1>2 DEF DocumentOf
<1>4. A \in SUBSET (1..Len(text))
    BY <1>1
<1>5. DocumentOf(text) = Lines(text, A)
    BY DEF DocumentOf
<1> HIDE DEF A
<1>6. Lines(p, A) = Pinned(Lines(text, A))
    BY <1>4, PinnedLines DEF p
<1> QED  BY <1>3, <1>5, <1>6 DEF p

(* The identities of a text are strings.                                     *)
LEMMA IdentityIsString ==
    ASSUME NEW text \in Seq(ManifestLine), NEW path
    PROVE  Identity(text, path) \in STRING \ {"map", "number"}
<1> DEFINE found == Occurrences(text, path)
<1> DEFINE i == CHOOSE j \in found : TRUE
<1>1. found \subseteq DOMAIN text /\ \A j \in DOMAIN text : text[j] \in ManifestLine
    BY DEF Occurrences, Pairs
<1> DEFINE scalar == ScalarAt(text, found)
<1>2. scalar = IF Cardinality(found) = 1 /\ Plain(text, i) /\ text[i].val \notin {"map", "expr"}
               THEN text[i].val ELSE ""
    BY DEF ScalarAt
<1>0. Identity(text, path) = IF scalar = "number" THEN "" ELSE scalar
    BY DEF Identity, Text
<1>5. "" \in STRING /\ "" \notin {"map", "expr", "number"}
    BY WordsAssumption DEF Words
<1> HIDE DEF found, scalar
<1>3. CASE Cardinality(found) = 1
    <2>1. found # {}
        <3>1. Cardinality({}) = 0
            BY FS_EmptySet
        <3> QED  BY <1>3, <3>1
    <2>2. i \in found
        BY <2>1
    <2> HIDE DEF i
    <2>3. text[i] \in ManifestLine
        BY <1>1, <2>2
    <2>4. text[i].val \in STRING
        BY <2>3 DEF ManifestLine
    <2>5. scalar \in STRING /\ scalar # "map"
        BY <1>2, <1>5, <2>4
    <2> QED  BY <1>0, <1>5, <2>5
<1>4. CASE Cardinality(found) # 1
    <2>1. scalar = ""
        BY <1>2, <1>4
    <2> QED  BY <1>0, <1>5, <2>1
<1> QED  BY <1>3, <1>4

(* A field of a scalar, unless there is no scalar.                           *)
Optional(key, val) == IF val = "" THEN <<>> ELSE <<Field(key, val)>>

LEMMA OptionalGathers ==
    ASSUME NEW key \in STRING, key # "", NEW val \in STRING, NEW v, v[key] = val
    PROVE  Gathered(Optional(key, val), v, {key})
<1> DEFINE b == Optional(key, val)
<1>1. CASE val = ""
    <2>1. b = <<>>
        BY <1>1 DEF Optional
    <2>2. Value(b, key) = ""
        BY <2>1, EmptyDocument, ValueIs
    <2>3. Gathered(b, v, {key})
        BY <1>1, <2>1, <2>2, EmptyDocument DEF Gathered
    <2> QED  BY <2>3
<1>2. CASE val # ""
    <2>1. b = <<Field(key, val)>>
        BY <1>2 DEF Optional
    <2>2. IsDoc(b) /\ Distinct(b) /\ (\A i \in 1..Len(b) : TopKey(b, i) = key) /\ Value(b, key) = val
        <3> DEFINE o == <<Field(key, val)>>
        <3>1. IsDoc(o) /\ Distinct(o) /\ (\A i \in 1..Len(o) : TopKey(o, i) = key) /\ Value(o, key) = val
            BY OneField
        <3>2. b = o
            BY <2>1
        <3> HIDE DEF b, o
        <3> QED  BY <3>1, <3>2
    <2> HIDE DEF b
    <2>3. Gathered(b, v, {key})
        BY <2>2 DEF Gathered
    <2> QED  BY <2>3 DEF b
<1> QED  BY <1>1, <1>2

LEMMA TwoLines ==
    ASSUME NEW S, NEW c \in S, NEW l \in S
    PROVE  /\ <<l, c>> \in Seq(S) /\ Len(<<l, c>>) = 2 /\ <<l, c>>[1] = l /\ <<l, c>>[2] = c
           /\ DOMAIN <<l, c>> = 1..2 /\ 1..2 = {1, 2}
<1> DEFINE d == <<l, c>>
<1>1. d \in Seq(S) /\ Len(d) = 2 /\ d[1] = l /\ d[2] = c
    BY ShortSequences
<1> HIDE DEF d
<1>2. DOMAIN d = 1..Len(d)
    BY <1>1
<1>3. 1..2 = {1, 2}
    OBVIOUS
<1> QED  BY <1>1, <1>2, <1>3 DEF d

(* application with a subdomain.                                             *)
LEMMA ApplicationIsDocument ==
    ASSUME NEW val \in STRING
    PROVE  LET app == <<Field("application", "map"), Child("subdomain", val)>>
           IN  IsDoc(app) /\ Distinct(app) /\ \A i \in 1..Len(app) : TopKey(app, i) = "application"
<1> DEFINE l == Field("application", "map")
<1> DEFINE c == Child("subdomain", val)
<1> DEFINE app == <<l, c>>
<1>1. /\ "application" \in STRING /\ "map" \in STRING /\ "subdomain" \in STRING /\ "none" \in STRING
    BY WordsAssumption DEF Words
<1>2. l \in ManifestLine /\ HasKey(l) /\ l.ind = 0 /\ l.key = "application"
    <2>1. l = [kind |-> "field", key |-> "application", val |-> "map", ind |-> 0, act |-> "none"]
        BY DEF Field
    <2> HIDE DEF l
    <2>2. l.kind = "field" /\ l.ind = 0 /\ l.key = "application"
        BY <2>1
    <2>3. l \in [kind : {"field", "control", "around", "tail", "note", "directive"},
                key : STRING, val : STRING, ind : {0, 1}, act : STRING]
        BY <1>1, <2>1
    <2> QED  BY <2>2, <2>3 DEF ManifestLine, HasKey
<1>3. c \in ManifestLine /\ HasKey(c) /\ c.ind = 1 /\ c.key = "subdomain"
    <2>1. c = [kind |-> "field", key |-> "subdomain", val |-> val, ind |-> 1, act |-> "none"]
        BY DEF Field, Child
    <2> HIDE DEF c
    <2>2. c.kind = "field" /\ c.ind = 1 /\ c.key = "subdomain"
        BY <2>1
    <2>3. c \in [kind : {"field", "control", "around", "tail", "note", "directive"},
                key : STRING, val : STRING, ind : {0, 1}, act : STRING]
        BY <1>1, <2>1
    <2> QED  BY <2>2, <2>3 DEF ManifestLine, HasKey
<1> HIDE DEF l, c
<1>4. app \in Seq(ManifestLine) /\ Len(app) = 2 /\ app[1] = l /\ app[2] = c
    BY <1>2, <1>3, TwoLines
<1>5. DOMAIN app = 1..2 /\ 1..2 = {1, 2}
    BY <1>2, <1>3, TwoLines
<1> HIDE DEF app
<1>6. IsDoc(app)
    BY <1>2, <1>3, <1>4, <1>5 DEF IsDoc
<1>7. TopKey(app, 1) = "application"
    BY <1>2, <1>4 DEF TopKey, TopLine
<1>8. TopKey(app, 2) = "application"
    <2>1. IsTop(app, 2, 1)
        <3>1. (1+1)..2 = {2} /\ 1 \in 1..2
            OBVIOUS
        <3> QED  BY <1>2, <1>3, <1>4, <3>1 DEF IsTop
    <2>2. TopLine(app, 2) = 1
        BY <1>4, <1>5, <1>6, <2>1, TopLines
    <2> QED  BY <1>2, <1>4, <2>2 DEF TopKey
<1>9. Distinct(app)
    <2>1. ~(app[1].ind = app[2].ind)
        BY <1>2, <1>3, <1>4
    <2> QED  BY <1>5, <2>1 DEF Distinct
<1>10. \A i \in 1..Len(app) : TopKey(app, i) = "application"
    BY <1>4, <1>5, <1>7, <1>8
<1> QED  BY <1>6, <1>9, <1>10 DEF app, l, c

(* The metadata view of a templated manifest has its identities.             *)
LEMMA CompatibleIs ==
    ASSUME NEW text \in Seq(ManifestLine)
    PROVE  /\ Compatible(text) \in Documents
           /\ \A f \in ToSet(CompatFields) : f \in Static /\ Value(Compatible(text), f) = Identity(text, <<f>>)
           /\ \E g : /\ IsDoc(g) /\ \A i \in 1..Len(g) : TopKey(g, i) # "application"
                     /\ Compatible(text) = g \o <<Field("application", "map"), Child("subdomain", Identity(text, Subdomain))>>
<1> DEFINE s == CompatFields
<1> DEFINE p(i) == Optional(s[i], Identity(text, <<s[i]>>))
<1> DEFINE parts == [k \in 1..3 |-> p(k)]
<1> DEFINE id == Identity(text, Subdomain)
<1> DEFINE app == <<Field("application", "map"), Child("subdomain", id)>>
<1> DEFINE g0 == <<>>
<1> DEFINE g1 == g0 \o p(1)
<1> DEFINE g2 == g1 \o p(2)
<1> DEFINE g3 == g2 \o p(3)
<1> DEFINE v == [f \in Static |-> Identity(text, <<f>>)]
<1>1. /\ s[1] = "package" /\ s[2] = "version" /\ s[3] = "name" /\ DOMAIN s = 1..3
      /\ s[1] \in Static /\ s[2] \in Static /\ s[3] \in Static /\ 1..3 = {1, 2, 3}
    <2>1. s[1] = "package" /\ s[2] = "version" /\ s[3] = "name" /\ Len(s) = 3
        BY DEF CompatFields
    <2>2. DOMAIN s = 1..3
        BY DEF CompatFields
    <2>3. 1..3 = {1, 2, 3}
        OBVIOUS
    <2> QED  BY <2>1, <2>2, <2>3, StaticNames
<1>2. Compatible(text) = FlattenSeq(parts) \o app
    BY <1>1 DEF Compatible, Optional
<1>3. ToSet(s) = {s[1], s[2], s[3]}
    <2>1. ToSet(s) = {s[i] : i \in DOMAIN s}
        BY DEF ToSet
    <2> HIDE DEF s
    <2> QED  BY <1>1, <2>1
<1> HIDE DEF s, p
<1> DEFINE K1 == {s[1]}
<1> DEFINE K2 == K1 \union {s[2]}
<1> DEFINE K3 == K2 \union {s[3]}
<1>4. s[1] \notin {} /\ s[2] \notin K1 /\ s[3] \notin K2 /\ {} \union {s[1]} = K1 /\ K3 = ToSet(s)
    BY <1>1, <1>3
<1>5. ASSUME NEW i \in 1..3 PROVE Gathered(p(i), v, {s[i]})
    <2>1. s[i] \in Static
        BY <1>1
    <2>2. s[i] \in STRING /\ s[i] # "" /\ Identity(text, <<s[i]>>) \in STRING
        BY <2>1, StaticNames, IdentityIsString
    <2>3. v[s[i]] = Identity(text, <<s[i]>>)
        BY <2>1
    <2> HIDE DEF v
    <2> QED  BY <2>2, <2>3, OptionalGathers DEF p
<1>6. Gathered(g0, v, {})
    BY EmptyDocument DEF Gathered
<1>7. \A f \in Static : v[f] = Identity(text, <<f>>)
    OBVIOUS
<1> HIDE DEF v, g0, g1, g2, g3, K1, K2, K3
<1>7a. Gathered(p(1), v, {s[1]}) /\ Gathered(p(2), v, {s[2]}) /\ Gathered(p(3), v, {s[3]})
    <2>1. 1 \in 1..3 /\ 2 \in 1..3 /\ 3 \in 1..3
        BY <1>1
    <2> QED  BY <1>5, <2>1
<1>8. Gathered(g1, v, K1)
    <2>1. Gathered(g0 \o p(1), v, {} \union {s[1]})
        BY <1>4, <1>6, <1>7a, GatheredNext
    <2> QED  BY <1>4, <2>1 DEF g1
<1>9. Gathered(g2, v, K2)
    <2>1. Gathered(g1 \o p(2), v, K1 \union {s[2]})
        BY <1>4, <1>7a, <1>8, GatheredNext
    <2> QED  BY <2>1 DEF g2, K2
<1>10. Gathered(g3, v, K3)
    <2>1. Gathered(g2 \o p(3), v, K2 \union {s[3]})
        BY <1>4, <1>7a, <1>9, GatheredNext
    <2> QED  BY <2>1 DEF g3, K3
<1>11. FlattenSeq(parts) = g3
    <2> DEFINE h == [i \in 0..3 |-> IF i = 0 THEN g0 ELSE IF i = 1 THEN g1 ELSE IF i = 2 THEN g2 ELSE g3]
    <2>1. g0 \in Seq(ManifestLine) /\ g1 \in Seq(ManifestLine) /\ g2 \in Seq(ManifestLine) /\ g3 \in Seq(ManifestLine)
        BY <1>6, <1>8, <1>9, <1>10 DEF Gathered, IsDoc
    <2>2. \A i \in 1..3 : p(i) \in Seq(ManifestLine)
        BY <1>5 DEF Gathered, IsDoc
    <2>3. parts \in [1..3 -> Seq(ManifestLine)] /\ \A i \in 1..3 : parts[i] = p(i)
        BY <2>2
    <2>4. h[0] = g0 /\ h[1] = g1 /\ h[2] = g2 /\ h[3] = g3 /\ h \in [0..3 -> Seq(ManifestLine)]
        BY <2>1
    <2> HIDE DEF h, parts
    <2>5. ASSUME NEW i \in 1..3 PROVE h[i] = h[i-1] \o parts[i]
        <3>1. parts[i] = p(i)
            BY <2>3
        <3>2. CASE i = 1
            BY <2>4, <3>1, <3>2 DEF g1
        <3>3. CASE i = 2
            BY <2>4, <3>1, <3>3 DEF g2
        <3>4. CASE i = 3
            BY <2>4, <3>1, <3>4 DEF g3
        <3> QED  BY <1>1, <3>2, <3>3, <3>4
    <2>6. Appends(h, parts, 3, ManifestLine)
        BY <2>3, <2>4, <2>5 DEF Appends, g0
    <2>7. FlattenSeq(parts) = h[3]
        BY <2>6, FlattenRuns
    <2> QED  BY <2>4, <2>7
<1> DEFINE c == g3 \o app
<1>12. IsDoc(app) /\ Distinct(app) /\ \A i \in 1..Len(app) : TopKey(app, i) \in {"application"}
    <2>1. id \in STRING
        BY IdentityIsString
    <2> QED  BY <2>1, ApplicationIsDocument
<1>13. /\ IsDoc(g3) /\ Distinct(g3) /\ \A i \in 1..Len(g3) : TopKey(g3, i) \notin {"application"}
       /\ \A f \in K3 : Value(g3, f) = v[f]
    <2>1. "application" \notin K3
        BY <1>1, <1>3, <1>4
    <2> QED  BY <1>10, <2>1 DEF Gathered
<1> HIDE DEF app
<1>14. /\ IsDoc(c) /\ Distinct(c)
       /\ \A key : Value(c, key) = (IF key \in {"application"} THEN Value(app, key) ELSE Value(g3, key))
    BY <1>12, <1>13, JoinedFacts, ZenonT(60)
<1> HIDE DEF c
<1>15. c = Compatible(text)
    BY <1>2, <1>11 DEF c, app
<1>16. c \in Documents
    BY <1>14 DEF Documents, IsDoc
<1>17. ASSUME NEW f \in ToSet(s) PROVE f \in Static /\ Value(c, f) = Identity(text, <<f>>)
    <2>1. f \in Static /\ f # "application" /\ f \in K3
        BY <1>1, <1>3, <1>4
    <2> QED  BY <1>7, <1>13, <1>14, <2>1
<1>18. IsDoc(g3) /\ (\A i \in 1..Len(g3) : TopKey(g3, i) # "application") /\ Compatible(text) = g3 \o app
    BY <1>13, <1>15 DEF c
<1> QED  BY <1>15, <1>16, <1>17, <1>18 DEF s, app

(* What the steps of a build have found out, by its phase.                   *)
Prepared ==
    /\ Resolves(project)
    /\ processed = Source(project).out /\ templated = Templated(processed)

MetadataOf(text) == IF Templated(text) THEN Compatible(text) ELSE DocumentOf(text)

Metadata ==
    IF project.package = NoFile
    THEN document = Overridden(MetadataOf(processed), project) /\ package = NoFile
    ELSE document = MetadataOf(processed) /\ package = Overridden(project.package, project)

Tree ==
    LET staged == Staged(project, processed, document, package)
    IN  IF project.images THEN [staged EXCEPT !.manifest = Pinned(@)] ELSE staged

(* What the checks of a build look at.                                       *)
Effective == LoadEffective(document, project.package # NoFile, package, FALSE)

PackageIInv ==
    /\ project \in Projects
    /\ phase = "resolved" => Resolves(project)
    /\ phase = "read" => Prepared /\ document = MetadataOf(processed) /\ package = project.package
    /\ phase \in {"overridden", "checked", "imaged", "staged"} => Prepared /\ Metadata
    /\ phase \in {"checked", "imaged", "staged"} => Effective.ok
    /\ phase = "staged" => staging = Tree
    /\ lpk # None => phase = "done" /\ Prepared /\ Metadata /\ Effective.ok /\ lpk = Tree

LEMMA PackageInit == BuildInit => PackageIInv
BY DEF BuildInit, PackageIInv

LEMMA PackageNext == PackageIInv /\ [BuildNext]_buildVars => PackageIInv'
<1> SUFFICES ASSUME PackageIInv, [BuildNext]_buildVars PROVE PackageIInv'
    OBVIOUS
<1>1. ASSUME ResolveConfig PROVE PackageIInv'
    BY <1>1 DEF PackageIInv, ResolveConfig, End
<1>2. ASSUME ReadManifest PROVE PackageIInv'
    <2>1. /\ phase = "resolved" /\ phase' = "read" /\ UNCHANGED <<project, lpk>>
          /\ processed' = Source(project).out /\ templated' = Templated(processed')
          /\ document' = MetadataOf(processed') /\ package' = project.package
        BY <1>2 DEF ReadManifest, MetadataOf
    <2>2. Prepared'
        BY <2>1 DEF PackageIInv, Prepared
    <2> QED  BY <2>1, <2>2 DEF PackageIInv
<1>3. ASSUME ApplyOverrides PROVE PackageIInv'
    <2>1. /\ phase = "read" /\ phase' = "overridden"
          /\ UNCHANGED <<project, processed, templated, lpk>>
        BY <1>3 DEF ApplyOverrides
    <2>2. Prepared /\ document = MetadataOf(processed) /\ package = project.package
        BY <2>1 DEF PackageIInv
    <2>3. Prepared'
        BY <2>1, <2>2 DEF Prepared
    <2>4. Metadata'
        BY <1>3, <2>1, <2>2 DEF ApplyOverrides, Metadata
    <2> QED  BY <2>1, <2>3, <2>4 DEF PackageIInv
<1>4. ASSUME CheckMetadata \/ BuildImages PROVE PackageIInv'
    <2>1. /\ phase \in {"overridden", "checked"} /\ phase' \in {"checked", "imaged", "refused", "failed"}
          /\ UNCHANGED <<project, processed, templated, document, package, lpk>>
        BY <1>4 DEF CheckMetadata, BuildImages, End
    <2>2. Prepared' /\ Metadata' /\ Effective' = Effective
        BY <2>1 DEF PackageIInv, Prepared, Metadata, Effective
    <2>3. phase' \in {"checked", "imaged"} => Effective.ok
        <3>1. CASE CheckMetadata
            <4>1. phase' \in {"checked", "imaged"} => Declares(Effective)
                BY <3>1 DEF CheckMetadata, End, Effective
            <4> QED  BY <4>1 DEF Declares
        <3>2. CASE BuildImages
            BY <3>2 DEF BuildImages, PackageIInv
        <3> QED  BY <1>4, <3>1, <3>2
    <2>4. phase' \in {"checked", "imaged"} => Effective'.ok
        BY <2>2, <2>3
    <2> QED  BY <2>1, <2>2, <2>4 DEF PackageIInv
<1>5. ASSUME Stage PROVE PackageIInv'
    <2>1. /\ phase = "imaged" /\ phase' = "staged" /\ staging' = Tree
          /\ UNCHANGED <<project, processed, templated, document, package, lpk>>
        BY <1>5 DEF Stage, Tree
    <2>2. Prepared' /\ Metadata' /\ Effective.ok
        BY <2>1 DEF PackageIInv, Prepared, Metadata
    <2>3. Tree' = Tree /\ Effective' = Effective
        BY <2>1 DEF Tree, Staged, Effective
    <2>4. Effective'.ok
        BY <2>2, <2>3
    <2> QED  BY <2>1, <2>2, <2>3, <2>4 DEF PackageIInv
<1>6. ASSUME Write PROVE PackageIInv'
    <2>1. /\ phase = "staged" /\ phase' \in {"done", "failed"}
          /\ UNCHANGED <<project, processed, templated, document, package>>
          /\ (phase' = "done" /\ lpk' = staging) \/ lpk' = lpk
        BY <1>6 DEF Write, End
    <2>2. Prepared' /\ Metadata' /\ Effective.ok
        BY <2>1 DEF PackageIInv, Prepared, Metadata
    <2>3. Tree' = Tree /\ Effective' = Effective
        BY <2>1 DEF Tree, Staged, Effective
    <2>4. Effective'.ok
        BY <2>2, <2>3
    <2> QED  BY <2>1, <2>2, <2>3, <2>4 DEF PackageIInv
<1>7. ASSUME UNCHANGED buildVars PROVE PackageIInv'
    <2>1. UNCHANGED <<project, phase, processed, templated, document, package, staging, lpk>>
        BY <1>7 DEF buildVars
    <2>2. (Prepared' <=> Prepared) /\ (Metadata' <=> Metadata)
        BY <2>1 DEF Prepared, Metadata
    <2>3. Tree' = Tree /\ Effective' = Effective
        BY <2>1 DEF Tree, Staged, Effective
    <2> QED  BY <2>1, <2>2, <2>3 DEF PackageIInv
<1> QED  BY <1>1, <1>2, <1>3, <1>4, <1>5, <1>6, <1>7 DEF BuildNext

(* What is known of the documents of a project that resolves.                *)
LEMMA PreparedIs ==
    ASSUME project \in Projects, Prepared
    PROVE  /\ IsProject(project) /\ processed \in Seq(ManifestLine) /\ Analyzes(processed)
           /\ ~templated => DocumentOf(processed) \in Documents
           /\ project.package # NoFile => project.package \in Documents
<1>1. IsProject(project)
    BY ProjectsAssumption
<1>2. processed \in Seq(ManifestLine)
    <2>1. project.text \in Seq(ManifestLine) /\ AllTexts(project.includes)
        BY <1>1, ProjectTexts
    <2> QED  BY <2>1, PreprocessLines DEF Prepared, Source
<1>3. Analyzes(processed)
    BY DEF Prepared, Resolves
<1>4. ASSUME ~templated PROVE DocumentOf(processed) \in Documents
    <2>1. NoDuplicates(DocumentOf(processed))
        BY <1>4 DEF Prepared, Resolves
    <2>2. IsDoc(DocumentOf(processed))
        BY <1>2, <1>3, DocumentIs DEF Analyzes
    <2> QED  BY <2>1, <2>2, NoDuplicatesIsDistinct DEF Documents, IsDoc
<1>5. ASSUME project.package # NoFile PROVE project.package \in Documents
    <2> DEFINE d == project.package
    <2>1. d \in Seq(ManifestLine) /\ \A i \in DOMAIN d : HasKey(d[i])
        <3>1. d \in Seq(ManifestLine)
            BY <1>1, ProjectTexts
        <3> QED  BY <1>1, <3>1 DEF IsProject, HasKey
    <2>2. Parses(d) /\ NoDuplicates(d)
        BY <1>5 DEF Prepared, Resolves
    <2> HIDE DEF d
    <2>3. IsDoc(d)
        <3>1. ASSUME d # <<>>, d[1].ind # 0 PROVE FALSE
            <4>1. Len(d) \in Nat /\ DOMAIN d = 1..Len(d) /\ Len(d) # 0
                BY <2>1, <3>1
            <4>2. 1 \in DOMAIN d
                BY <4>1
            <4>3. d[1] \in ManifestLine /\ HasKey(d[1])
                BY <2>1, <4>1, <4>2
            <4>4. d[1].ind = 1
                BY <3>1, <4>3 DEF ManifestLine
            <4>5. Owner(d, 1) # 0
                BY <2>2, <4>2, <4>3, <4>4 DEF Parses
            <4>6. {j \in 1..1-1 : HasKey(d[j]) /\ d[j].ind = 0} = {}
                OBVIOUS
            <4> QED  BY <4>5, <4>6 DEF Owner
        <3> QED  BY <2>1, <3>1 DEF IsDoc
    <2>4. d \in Documents
        BY <2>1, <2>2, <2>3, NoDuplicatesIsDistinct DEF Documents
    <2> QED  BY <2>4 DEF d
<1> QED  BY <1>1, <1>2, <1>3, <1>4, <1>5

(* The metadata that is staged says what the project declares.               *)
LEMMA MetadataSays ==
    ASSUME project \in Projects, Prepared, Metadata
    PROVE  LET stated == IF project.package = NoFile THEN document ELSE package
           IN  /\ ~templated \/ project.package # NoFile =>
                    stated \in Documents /\ \A f \in Static : Value(stated, f) = DeclaredValue(f)
               /\ document \in Documents /\ (project.package # NoFile => package \in Documents)
               /\ ~templated => /\ \A f \in Replaced : Value(document, f) = DeclaredValue(f)
                                /\ Filtered(document, Static \union Replaced)
                                     = Filtered(DocumentOf(processed), Static \union Replaced)
               /\ templated /\ ~TailActions(processed) /\ project.package = NoFile =>
                    \A f \in ToSet(CompatFields) : f \in Static /\ Value(document, f) = DeclaredValue(f)
<1> DEFINE p == project
<1> DEFINE d == DocumentOf(processed)
<1> DEFINE stated == IF p.package = NoFile THEN document ELSE package
<1>1. /\ IsProject(p) /\ processed \in Seq(ManifestLine) /\ Analyzes(processed)
      /\ ~templated => d \in Documents
      /\ p.package # NoFile => p.package \in Documents
    BY PreparedIs
<1>2. templated <=> Templated(processed)
    BY DEF Prepared
<1>3. ASSUME NEW base \in Documents
      PROVE  /\ Overridden(base, p) \in Documents
             /\ \A K : Static \union DOMAIN p.override \subseteq K => Filtered(Overridden(base, p), K) = Filtered(base, K)
             /\ \A f \in Overridable : Value(Overridden(base, p), f) =
                    (IF f = "version" /\ p.version # "" THEN p.version
                     ELSE IF f \in DOMAIN p.override THEN p.override[f] ELSE Value(base, f))
    BY <1>1, OverriddenIs DEF Settled
<1>7. Static \subseteq Overridable /\ Replaced \subseteq Overridable
    BY <1>1, StaticNames DEF IsProject, Replaced
<1>8. document \in Documents
    <2>1. MetadataOf(processed) \in Documents
        BY <1>1, <1>2, CompatibleIs DEF MetadataOf
    <2> QED  BY <1>3, <2>1 DEF Metadata
<1>4. ASSUME p.package # NoFile
      PROVE  package \in Documents /\ \A f \in Static : Value(package, f) = DeclaredValue(f)
    <2>1. package = Overridden(p.package, p)
        BY <1>4 DEF Metadata
    <2>2. p.package \in Documents
        BY <1>1, <1>4
    <2> QED  BY <1>3, <1>4, <1>7, <2>1, <2>2 DEF DeclaredValue
<1>5. ASSUME ~templated
      PROVE  /\ Filtered(document, Static \union Replaced) = Filtered(d, Static \union Replaced)
             /\ \A f \in Replaced : Value(document, f) = DeclaredValue(f)
             /\ p.package = NoFile => \A f \in Static : Value(document, f) = DeclaredValue(f)
    <2>1. d \in Documents /\ MetadataOf(processed) = d
        BY <1>1, <1>2, <1>5 DEF MetadataOf
    <2>2. CASE p.package # NoFile
        BY <2>1, <2>2 DEF Metadata, Replaced
    <2>3. CASE p.package = NoFile
        <3>1. document = Overridden(d, p)
            BY <2>1, <2>3 DEF Metadata
        <3>2. \A f : Value(d, f) = Value(processed, f)
            BY <1>1, <2>1, DocumentIs DEF Analyzes, Documents
        <3>3. ASSUME NEW f
              PROVE  DeclaredValue(f) = IF f = "version" /\ p.version # "" THEN p.version
                                        ELSE IF f \in DOMAIN p.override THEN p.override[f] ELSE Value(d, f)
            BY <1>5, <2>3, <3>2 DEF DeclaredValue
        <3>4. Replaced = DOMAIN p.override
            BY <2>3 DEF Replaced
        <3> HIDE DEF d, p
        <3>5. \A f \in Overridable : Value(document, f) = DeclaredValue(f)
            BY <1>3, <2>1, <3>1, <3>3
        <3>6. Filtered(document, Static \union Replaced) = Filtered(d, Static \union Replaced)
            BY <1>3, <2>1, <3>1, <3>4
        <3> QED  BY <1>7, <3>5, <3>6
    <2> QED  BY <2>2, <2>3
<1>6. ASSUME templated, ~TailActions(processed), p.package = NoFile
      PROVE  \A f \in ToSet(CompatFields) : f \in Static /\ Value(document, f) = DeclaredValue(f)
    <2> DEFINE c == Compatible(processed)
    <2>1. c \in Documents /\ \A f \in ToSet(CompatFields) : f \in Static /\ Value(c, f) = Identity(processed, <<f>>)
        BY <1>1, CompatibleIs
    <2>2. document = Overridden(c, p)
        BY <1>2, <1>6 DEF Metadata, MetadataOf
    <2>3. ASSUME NEW f PROVE Identity(processed, <<f>>) = Text(Certain(processed, <<f>>))
        <3>1. Identity(processed, <<f>>) = Text(StaticScalar(processed, <<f>>))
            BY DEF Identity, StaticScalar, Occurrences
        <3>2. StaticScalar(processed, <<f>>) = Certain(processed, <<f>>)
            BY <1>1, <1>6, ScalarsAreCertain DEF Analyzes
        <3> QED  BY <3>1, <3>2
    <2>4. ASSUME NEW f \in Static
          PROVE  DeclaredValue(f) = IF f = "version" /\ p.version # "" THEN p.version
                                    ELSE IF f \in DOMAIN p.override THEN p.override[f] ELSE Text(Certain(processed, <<f>>))
        BY <1>6 DEF DeclaredValue
    <2> HIDE DEF c, p
    <2> QED  BY <1>3, <1>7, <2>1, <2>2, <2>3, <2>4
<1> QED  BY <1>4, <1>5, <1>6, <1>8

(* The tree of a build without a template, in each layout.                   *)
LEMMA TreeIs ==
    /\ PredictLayout(project) = "v1" =>
         /\ ~project.images /\ project.package = NoFile
         /\ Tree.layout = "v1" /\ (~templated => Tree.manifest = document)
    /\ PredictLayout(project) # "v1" =>
         /\ Tree.layout = "v2"
         /\ Tree.package = IF project.package = NoFile THEN StaticFields(document) ELSE package
         /\ ~templated => Tree.manifest = Built(WithoutStatic(document))
<1> DEFINE staged == Staged(project, processed, document, package)
<1> DEFINE pinned == [staged EXCEPT !.manifest = Pinned(@)]
<1>1. Tree = IF project.images THEN pinned ELSE staged
    BY DEF Tree
<1>2. CASE PredictLayout(project) = "v1"
    <2>1. ~project.images /\ project.package = NoFile
        BY <1>2 DEF PredictLayout
    <2>2. staged.layout = "v1" /\ (~templated => staged.manifest = document)
        BY <1>2 DEF Staged
    <2> HIDE DEF staged
    <2> QED  BY <1>1, <1>2, <2>1, <2>2
<1>3. CASE PredictLayout(project) # "v1"
    <2> DEFINE pack == IF project.package = NoFile THEN StaticFields(document) ELSE package
    <2> DEFINE text == IF templated THEN RemoveTopLevelFields(processed) ELSE WithoutStatic(document)
    <2>1. staged = [layout |-> "v2", package |-> pack, manifest |-> text]
        BY <1>3 DEF Staged, Split
    <2> HIDE DEF staged, pack, text
    <2>2. pinned.layout = "v2" /\ pinned.package = pack /\ pinned.manifest = Pinned(text)
        BY <2>1
    <2>3. staged.layout = "v2" /\ staged.package = pack /\ staged.manifest = text
        BY <2>1
    <2>4. Tree.layout = "v2" /\ Tree.package = pack /\ Tree.manifest = Built(text)
        BY <1>1, <2>2, <2>3 DEF Built
    <2> QED  BY <1>3, <2>4 DEF pack, text
<1> QED  BY <1>2, <1>3

(* What has an image reference replaced stays a document.                    *)
LEMMA BuiltDocument ==
    ASSUME NEW doc, IsDoc(doc), Distinct(doc)
    PROVE  /\ IsDoc(Built(doc)) /\ Distinct(Built(doc)) /\ Len(Built(doc)) = Len(doc)
           /\ \A i \in 1..Len(doc) : TopKey(Built(doc), i) = TopKey(doc, i)
<1>1. CASE project.images
    <2>1. SameShape(Pinned(doc), doc)
        BY PinnedShape DEF IsDoc
    <2>2. Built(doc) = Pinned(doc)
        BY <1>1 DEF Built
    <2> QED  BY <2>1, <2>2, ShapeKeeps DEF SameShape
<1>2. CASE ~project.images
    BY <1>2 DEF Built
<1> QED  BY <1>1, <1>2

LEMMA BuiltFiltered ==
    ASSUME NEW doc, IsDoc(doc), NEW K
    PROVE  Filtered(Built(doc), K) = Built(Filtered(doc, K))
BY PinnedFiltered DEF Built

LEMMA DocumentBuilt ==
    ASSUME NEW text \in Seq(ManifestLine)
    PROVE  DocumentOf(Built(text)) = Built(DocumentOf(text))
BY DocumentPinned DEF Built

LEMMA BuiltValues ==
    ASSUME NEW doc \in Seq(ManifestLine), NEW i \in 1..Len(doc)
    PROVE  /\ Built(doc)[i].ind = doc[i].ind /\ Built(doc)[i].key = doc[i].key
           /\ Built(doc)[i].val = doc[i].val \/ (doc[i].val = "embed" /\ Built(doc)[i].val = "embed@digest")
<1>1. CASE project.images
    <2>1. Built(doc) = Pinned(doc) /\ SameShape(Pinned(doc), doc)
        BY <1>1, PinnedShape DEF Built
    <2> DEFINE l == doc[i]
    <2>2. Pinned(doc)[i] = IF l.val = "embed" THEN [l EXCEPT !.val = "embed@digest"] ELSE l
        BY DEF Pinned
    <2>3. l \in [kind : {"field", "control", "around", "tail", "note", "directive"},
                key : STRING, val : STRING, ind : {0, 1}, act : STRING]
        BY DEF ManifestLine
    <2> HIDE DEF l
    <2>4. [l EXCEPT !.val = "embed@digest"].val = "embed@digest"
        BY <2>3
    <2>5. Pinned(doc)[i].val = l.val \/ (l.val = "embed" /\ Pinned(doc)[i].val = "embed@digest")
        BY <2>2, <2>4
    <2> QED  BY <2>1, <2>5 DEF SameShape, l
<1>2. CASE ~project.images
    BY <1>2 DEF Built
<1> QED  BY <1>1, <1>2

(* The lines of a field that is in a mapping.                                *)
LEMMA PathLines ==
    ASSUME NEW doc, IsDoc(doc), NEW path, Len(path) = 2
    PROVE  Occurrences(doc, path)
             = {i \in 1..Len(doc) : doc[i].ind = 1 /\ doc[i].key = path[2] /\ TopKey(doc, i) = path[1]}
<1> DEFINE owners == Pairs(doc, 0, path[1])
<1> DEFINE key == path[2]
<1>1. Occurrences(doc, path) = UNION {Pairs(doc, o, key) : o \in owners}
    BY DEF Occurrences, Last
<1>2. owners = {i \in 1..Len(doc) : doc[i].ind = 0 /\ doc[i].key = path[1]}
    BY TopPairs
<1>3. DOMAIN doc = 1..Len(doc) /\ Len(doc) \in Nat
    BY DEF IsDoc
<1> HIDE DEF owners, key
<1>4. ASSUME NEW i \in Occurrences(doc, path)
      PROVE  i \in 1..Len(doc) /\ doc[i].ind = 1 /\ doc[i].key = key /\ TopKey(doc, i) = path[1]
    <2>1. PICK o \in owners : i \in Pairs(doc, o, key)
        BY <1>1, <1>4
    <2>2. i \in 1..Len(doc) /\ doc[i].key = key /\ Owner(doc, i) = o
        BY <1>3, <2>1 DEF Pairs
    <2>3. o \in 1..Len(doc) /\ doc[o].key = path[1]
        BY <1>2, <2>1
    <2>4. /\ doc[i].ind \in {0, 1} /\ (doc[i].ind = 0 => Owner(doc, i) = 0)
          /\ (doc[i].ind = 1 => Owner(doc, i) = TopLine(doc, i)) /\ TopKey(doc, i) = doc[TopLine(doc, i)].key
        BY <2>2, LinesOfDoc
    <2>5. o # 0
        BY <2>3
    <2> QED  BY <2>2, <2>3, <2>4, <2>5
<1>5. ASSUME NEW i \in 1..Len(doc), doc[i].ind = 1, doc[i].key = key, TopKey(doc, i) = path[1]
      PROVE  i \in Occurrences(doc, path)
    <2>1. /\ HasKey(doc[i]) /\ Owner(doc, i) = TopLine(doc, i)
          /\ TopLine(doc, i) \in 1..Len(doc) /\ doc[TopLine(doc, i)].ind = 0 /\ TopKey(doc, i) = doc[TopLine(doc, i)].key
        BY <1>5, LinesOfDoc
    <2>2. TopLine(doc, i) \in owners
        BY <1>2, <1>5, <2>1
    <2>3. i \in Pairs(doc, TopLine(doc, i), key)
        BY <1>3, <1>5, <2>1 DEF Pairs
    <2> QED  BY <1>1, <2>2, <2>3
<1> QED  BY <1>4, <1>5 DEF key

(* What the typed decode asks of a line that is in the field top.             *)
TypedLine(l, top) ==
    /\ l.ind = 0 /\ l.key \in {"application", "services"} => l.val \in {"map", ""}
    /\ l.ind = 1 /\ top = "services" => l.val \in {"map", ""}
    /\ l.ind = 1 /\ top = "application" /\ l.key \in {"subdomain", "image"} => l.val # "map"

Typed(doc) == \A i \in 1..Len(doc) : TypedLine(doc[i], TopKey(doc, i))

(* Whether a document can be decoded, line by line.                          *)
LEMMA DecodesIs ==
    ASSUME NEW doc, IsDoc(doc), Distinct(doc)
    PROVE  Decodes(doc) <=> /\ \A f \in Static \ {"locales"} : Value(doc, f) # "map"
                            /\ Typed(Filtered(doc, Static))
<1> DEFINE rest == Filtered(doc, Static)
<1> DEFINE n == Len(rest)
<1> DEFINE services == Pairs(rest, 0, "services")
<1> DEFINE parts == UNION {Below(rest, o) : o \in services}
<1>1. IsDoc(rest) /\ WithoutStatic(doc) = rest
    BY FilteredFacts, Removals
<1>2. Decodes(doc) <=>
          /\ \A f \in Static \ {"locales"} : Value(doc, f) # "map"
          /\ \A i \in (Pairs(rest, 0, "application") \union services) \union parts : rest[i].val \in {"map", ""}
          /\ \A i \in Occurrences(rest, Subdomain) \union Occurrences(rest, ImagePath) : rest[i].val # "map"
    BY <1>1, Zenon DEF Decodes
<1> HIDE DEF rest
<1>3. /\ Pairs(rest, 0, "application") = {i \in 1..n : rest[i].ind = 0 /\ rest[i].key = "application"}
      /\ services = {i \in 1..n : rest[i].ind = 0 /\ rest[i].key = "services"}
    BY <1>1, TopPairs
<1>4. /\ Occurrences(rest, Subdomain)
            = {i \in 1..n : rest[i].ind = 1 /\ rest[i].key = "subdomain" /\ TopKey(rest, i) = "application"}
      /\ Occurrences(rest, ImagePath)
            = {i \in 1..n : rest[i].ind = 1 /\ rest[i].key = "image" /\ TopKey(rest, i) = "application"}
    <2>1. Len(Subdomain) = 2 /\ Subdomain[1] = "application" /\ Subdomain[2] = "subdomain"
        BY DEF Subdomain
    <2>2. Len(ImagePath) = 2 /\ ImagePath[1] = "application" /\ ImagePath[2] = "image"
        BY DEF ImagePath
    <2> QED  BY <1>1, <2>1, <2>2, PathLines
<1>5. parts = {i \in 1..n : rest[i].ind = 1 /\ TopKey(rest, i) = "services"}
    <2>1. DOMAIN rest = 1..n
        BY <1>1 DEF IsDoc
    <2>2. ASSUME NEW i \in 1..n
          PROVE  (\E o \in services : Owner(rest, i) = o) <=> rest[i].ind = 1 /\ TopKey(rest, i) = "services"
        <3>1. /\ rest[i].ind \in {0, 1} /\ (rest[i].ind = 0 => Owner(rest, i) = 0)
              /\ (rest[i].ind = 1 => Owner(rest, i) = TopLine(rest, i)) /\ TopKey(rest, i) = rest[TopLine(rest, i)].key
              /\ TopLine(rest, i) \in 1..n /\ rest[TopLine(rest, i)].ind = 0
            BY <1>1, LinesOfDoc
        <3>2. 0 \notin services
            BY <1>3
        <3>3. TopLine(rest, i) \in services <=> TopKey(rest, i) = "services"
            BY <1>3, <3>1
        <3> HIDE DEF services, n
        <3> QED  BY <3>1, <3>2, <3>3
    <2>3. \A i \in 1..n : HasKey(rest[i])
        BY <1>1, LinesOfDoc
    <2>4. \A o : Below(rest, o) = {i \in 1..n : Owner(rest, i) = o}
        BY <2>1, <2>3 DEF Below
    <2> HIDE DEF services, n
    <2> QED  BY <2>2, <2>4
<1> HIDE DEF parts, services, n
<1>6. Typed(rest) <=>
          /\ \A i \in (Pairs(rest, 0, "application") \union services) \union parts : rest[i].val \in {"map", ""}
          /\ \A i \in Occurrences(rest, Subdomain) \union Occurrences(rest, ImagePath) : rest[i].val # "map"
    <2> DEFINE free(i) == rest[i].val \in {"map", ""}
    <2> DEFINE text(i) == rest[i].val # "map"
    <2>1. Typed(rest) <=> \A i \in 1..n :
            /\ rest[i].ind = 0 /\ rest[i].key \in {"application", "services"} => free(i)
            /\ rest[i].ind = 1 /\ TopKey(rest, i) = "services" => free(i)
            /\ rest[i].ind = 1 /\ TopKey(rest, i) = "application" /\ rest[i].key \in {"subdomain", "image"} => text(i)
        BY Zenon DEF Typed, TypedLine, n
    <2>2. \A i : i \in (Pairs(rest, 0, "application") \union services) \union parts <=>
                i \in 1..n /\ ((rest[i].ind = 0 /\ rest[i].key \in {"application", "services"})
                               \/ (rest[i].ind = 1 /\ TopKey(rest, i) = "services"))
        BY <1>3, <1>5
    <2>3. \A i : i \in Occurrences(rest, Subdomain) \union Occurrences(rest, ImagePath) <=>
                i \in 1..n /\ rest[i].ind = 1 /\ TopKey(rest, i) = "application" /\ rest[i].key \in {"subdomain", "image"}
        BY <1>4
    <2>4. /\ (\A i \in (Pairs(rest, 0, "application") \union services) \union parts : rest[i].val \in {"map", ""})
               <=> \A i \in (Pairs(rest, 0, "application") \union services) \union parts : free(i)
          /\ (\A i \in Occurrences(rest, Subdomain) \union Occurrences(rest, ImagePath) : rest[i].val # "map")
               <=> \A i \in Occurrences(rest, Subdomain) \union Occurrences(rest, ImagePath) : text(i)
        OBVIOUS
    <2> HIDE DEF free, text
    <2> QED  BY <2>1, <2>2, <2>3, <2>4
<1> QED  BY <1>2, <1>6 DEF rest

(* The digests of images are of no interest to it.                           *)
LEMMA TypedBuilt ==
    ASSUME NEW doc, IsDoc(doc), Distinct(doc), Typed(doc)
    PROVE  Typed(Built(doc)) /\ Value(Built(doc), "services") = Value(doc, "services")
<1> DEFINE b == Built(doc)
<1>1. IsDoc(b) /\ Distinct(b) /\ Len(b) = Len(doc) /\ \A i \in 1..Len(doc) : TopKey(b, i) = TopKey(doc, i)
    BY BuiltDocument
<1>2. ASSUME NEW i \in 1..Len(doc)
      PROVE  /\ b[i].ind = doc[i].ind /\ b[i].key = doc[i].key
             /\ doc[i].val \in {"map", ""} => b[i].val = doc[i].val
             /\ doc[i].val # "map" => b[i].val # "map"
    <2>1. doc \in Seq(ManifestLine)
        BY DEF IsDoc
    <2>2. /\ b[i].ind = doc[i].ind /\ b[i].key = doc[i].key
          /\ b[i].val = doc[i].val \/ (doc[i].val = "embed" /\ b[i].val = "embed@digest")
        BY <2>1, BuiltValues
    <2> QED  BY <2>2
<1> HIDE DEF b
<1>3. ASSUME NEW i \in 1..Len(b) PROVE TypedLine(b[i], TopKey(b, i))
    <2>1. TypedLine(doc[i], TopKey(doc, i)) /\ i \in 1..Len(doc)
        BY <1>1, <1>3 DEF Typed
    <2> QED  BY <1>1, <1>2, <2>1, Zenon DEF TypedLine
<1>6. \A i \in 1..Len(doc) : b[i].ind = doc[i].ind /\ b[i].key = doc[i].key
    BY <1>2
<1>4. CASE \E i \in 1..Len(doc) : doc[i].ind = 0 /\ doc[i].key = "services"
    <2>1. PICK i \in 1..Len(doc) : doc[i].ind = 0 /\ doc[i].key = "services"
        BY <1>4
    <2>2. doc[i].val \in {"map", ""}
        BY <2>1, Zenon DEF Typed, TypedLine
    <2>3. Value(b, "services") = b[i].val /\ Value(doc, "services") = doc[i].val
        <3>1. i \in 1..Len(b) /\ b[i].ind = 0 /\ b[i].key = "services"
            BY <1>1, <1>6, <2>1
        <3> QED  BY <1>1, <2>1, <3>1, ValueIs, Zenon
    <2> QED  BY <1>2, <1>3, <2>2, <2>3 DEF Typed, b
<1>5. CASE ~\E i \in 1..Len(doc) : doc[i].ind = 0 /\ doc[i].key = "services"
    <2>1. Value(b, "services") = "" /\ Value(doc, "services") = ""
        <3>1. /\ \A i \in 1..Len(b) : ~(b[i].ind = 0 /\ b[i].key = "services")
              /\ \A i \in 1..Len(doc) : ~(doc[i].ind = 0 /\ doc[i].key = "services")
            BY <1>1, <1>5, <1>6
        <3> QED  BY <1>1, <3>1, ValueIs, Zenon
    <2> QED  BY <1>3, <2>1 DEF Typed, b
<1> QED  BY <1>4, <1>5

(* What LoadEffective makes of a manifest alone.                             *)
LEMMA UnmergedIs ==
    ASSUME NEW doc \in Documents, NEW pack, NEW strict
    PROVE  LET got == LoadEffective(doc, FALSE, pack, strict) IN got.doc = doc /\ (got.ok <=> Decodes(doc))
<1>1. NoDuplicates(doc)
    BY NoDuplicatesIsDistinct DEF Documents
<1> QED  BY <1>1 DEF LoadEffective

(* The metadata that is checked is the one that is staged.                   *)
LEMMA EffectiveIs ==
    ASSUME project \in Projects, Prepared, Metadata
    PROVE  LET stated == IF project.package = NoFile THEN document ELSE package
           IN  /\ IsDoc(Effective.doc) /\ Distinct(Effective.doc)
               /\ Effective.ok <=> Decodes(Effective.doc)
               /\ \A f \in Static : Value(Effective.doc, f) = Value(stated, f)
               /\ Filtered(Effective.doc, Static) = Filtered(document, Static)
<1>1. document \in Documents /\ (project.package # NoFile => package \in Documents)
    BY MetadataSays
<1>2. CASE project.package = NoFile
    <2>1. Effective = LoadEffective(document, FALSE, package, FALSE)
        BY <1>2 DEF Effective
    <2>2. Effective.doc = document /\ (Effective.ok <=> Decodes(document))
        BY <1>1, <2>1, UnmergedIs
    <2> QED  BY <1>1, <1>2, <2>2 DEF Documents
<1>3. CASE project.package # NoFile
    <2>1. Effective = LoadEffective(document, TRUE, package, FALSE)
        <3>1. (project.package # NoFile) = TRUE
            BY <1>3
        <3> QED  BY <3>1 DEF Effective
    <2>2. IsDoc(document) /\ Distinct(document) /\ IsDoc(package) /\ Distinct(package)
        BY <1>1, <1>3 DEF Documents
    <2> DEFINE got == LoadEffective(document, TRUE, package, FALSE)
    <2>6. Effective = got
        BY <2>1
    <2>3. /\ IsDoc(got.doc) /\ Distinct(got.doc) /\ (got.ok <=> Decodes(got.doc))
          /\ \A f \in Static : Value(got.doc, f) = Value(package, f)
          /\ Filtered(got.doc, Static) = Filtered(document, Static)
        <3>1. Merged(got, document, package)
            BY <2>2, MergedIs
        <3> HIDE DEF got
        <3> QED  BY <3>1 DEF Merged
    <2> HIDE DEF got
    <2> QED  BY <1>3, <2>3, <2>6
<1> QED  BY <1>2, <1>3

(* A package without a template reads back as what was declared.             *)
LEMMA PlainPackage ==
    ASSUME project \in Projects, Prepared, Metadata, Effective.ok, ~templated
    PROVE  LET got == LoadEffective(DocumentOf(Tree.manifest), Tree.layout = "v2", Tree.package, TRUE)
           IN  /\ got.ok
               /\ \A f \in Static \union Replaced : Value(got.doc, f) = DeclaredValue(f)
               /\ Apart(got.doc, Static \union Replaced)
                    = Apart(DocumentOf(Built(processed)), Static \union Replaced)
<1> DEFINE d == DocumentOf(processed)
<1> DEFINE K == Static \union Replaced
<1> DEFINE stated == IF project.package = NoFile THEN document ELSE package
<1>1. processed \in Seq(ManifestLine) /\ IsDoc(d) /\ Distinct(d)
    BY PreparedIs DEF Documents
<1>2. /\ IsDoc(document) /\ Distinct(document) /\ document \in Documents
      /\ Filtered(document, K) = Filtered(d, K) /\ \A f \in Replaced : Value(document, f) = DeclaredValue(f)
    BY MetadataSays DEF Documents
<1>3. IsDoc(stated) /\ Distinct(stated) /\ \A f \in Static : Value(stated, f) = DeclaredValue(f)
    BY MetadataSays DEF Documents
<1>4. /\ \A f \in Static \ {"locales"} : Value(stated, f) # "map"
      /\ Typed(Filtered(document, Static))
    <2>1. /\ IsDoc(Effective.doc) /\ Distinct(Effective.doc) /\ Decodes(Effective.doc)
          /\ \A f \in Static : Value(Effective.doc, f) = Value(stated, f)
          /\ Filtered(Effective.doc, Static) = Filtered(document, Static)
        BY EffectiveIs
    <2> HIDE DEF stated
    <2> QED  BY <2>1, DecodesIs
<1>5. Apart(DocumentOf(Built(processed)), K) = Built(Filtered(d, K))
    <2>1. DocumentOf(Built(processed)) = Built(d)
        BY <1>1, DocumentBuilt
    <2>2. IsDoc(Built(d)) /\ Distinct(Built(d))
        BY <1>1, BuiltDocument
    <2> HIDE DEF d, K
    <2> QED  BY <1>1, <2>1, <2>2, Removals, BuiltFiltered
<1>6. Static \subseteq K /\ Replaced \subseteq K /\ Static \union K = K
      /\ \A f \in K : f \in Static \/ (f \in Replaced /\ f \notin Static /\ f = "services")
    <2>1. Replaced \subseteq Overridable
        BY ProjectsAssumption DEF IsProject, Replaced
    <2> QED  BY <2>1, StaticNames
<1>7. WithoutStatic(document) = Filtered(document, Static)
    BY <1>2, Removals
<1> HIDE DEF d, K
<1>8. CASE PredictLayout(project) = "v1"
    <2>1. ~project.images /\ project.package = NoFile /\ Tree.layout = "v1" /\ Tree.manifest = document
        BY <1>8, TreeIs
    <2>2. DocumentOf(document) = document
        BY <1>2, DocumentStays
    <2> DEFINE got == LoadEffective(document, FALSE, Tree.package, TRUE)
    <2>3. got.doc = document /\ (got.ok <=> Decodes(document))
        BY <1>2, UnmergedIs
    <2>4. Decodes(document)
        BY <1>2, <1>4, <2>1, DecodesIs
    <2>5. Built(Filtered(d, K)) = Filtered(d, K)
        BY <2>1 DEF Built
    <2>6. (Tree.layout = "v2") = FALSE
        BY <2>1
    <2> HIDE DEF got
    <2>7. LoadEffective(DocumentOf(Tree.manifest), Tree.layout = "v2", Tree.package, TRUE) = got
        BY <2>1, <2>2, <2>6 DEF got
    <2>8. \A f \in K : Value(document, f) = DeclaredValue(f)
        BY <1>2, <1>3, <1>6, <2>1
    <2>9. Apart(document, K) = Filtered(document, K)
        BY <1>2, Removals
    <2> QED  BY <1>2, <1>5, <2>3, <2>4, <2>5, <2>7, <2>8, <2>9 DEF K
<1>9. CASE PredictLayout(project) # "v1"
    <2> DEFINE m == Filtered(document, Static)
    <2> DEFINE pack == IF project.package = NoFile THEN StaticFields(document) ELSE package
    <2>1. (Tree.layout = "v2") = TRUE /\ Tree.package = pack /\ Tree.manifest = Built(m)
        BY <1>7, <1>9, TreeIs
    <2>2. /\ IsDoc(m) /\ Distinct(m) /\ \A i \in 1..Len(m) : TopKey(m, i) \notin Static
          /\ \A key : key \notin Static => Value(m, key) = Value(document, key)
        <3>1. IsDoc(document) /\ Distinct(document)
            BY <1>2
        <3> QED  BY <3>1, FilteredFacts, ZenonT(60)
    <2>3. IsDoc(pack) /\ Distinct(pack) /\ \A f \in Static : Value(pack, f) = Value(stated, f)
        <3>1. CASE project.package = NoFile
            <4> DEFINE v == [f \in Static |-> Value(document, f)]
            <4>1. Gathered(StaticFields(document), v, Static)
                BY <1>2, StaticFieldsAre
            <4>2. \A f \in Static : v[f] = Value(document, f)
                OBVIOUS
            <4> HIDE DEF v
            <4>3. pack = StaticFields(document) /\ stated = document
                BY <3>1
            <4> HIDE DEF pack, stated
            <4> QED  BY <4>1, <4>2, <4>3 DEF Gathered
        <3>2. CASE project.package # NoFile
            BY <1>3, <3>2
        <3> QED  BY <3>1, <3>2
    <2>4. Filtered(m, K) = Filtered(d, K)
        <3>1. Filtered(m, K) = Filtered(document, Static \union K)
            BY <1>2, FilteredTwice
        <3> QED  BY <1>2, <1>6, <3>1
    <2> HIDE DEF m, pack, stated
    <2> DEFINE b == Built(m)
    <2>5. IsDoc(b) /\ Distinct(b) /\ \A i \in 1..Len(b) : TopKey(b, i) \notin Static
        BY <2>2, BuiltDocument
    <2>6. Typed(b) /\ Value(b, "services") = Value(document, "services")
        <3>1. "services" \notin Static
            BY StaticNames
        <3> QED  BY <1>4, <2>2, <3>1, TypedBuilt DEF m
    <2>7. Filtered(b, Static) = b /\ Filtered(b, K) = Built(Filtered(d, K))
        BY <2>2, <2>4, <2>5, FilteredSame, BuiltFiltered
    <2> HIDE DEF b
    <2> DEFINE got == LoadEffective(b, TRUE, pack, TRUE)
    <2>8. /\ IsDoc(got.doc) /\ Distinct(got.doc) /\ (got.ok <=> Decodes(got.doc))
          /\ \A f \in Static : Value(got.doc, f) = Value(pack, f)
          /\ \A key : key \notin Static => Value(got.doc, key) = Value(b, key)
          /\ Filtered(got.doc, Static) = b
        <3>1. IsDoc(pack) /\ Distinct(pack) /\ IsDoc(b) /\ Distinct(b)
            BY <2>3, <2>5
        <3>2. Merged(got, b, pack)
            BY <2>5, <3>1, MergedIs
        <3> HIDE DEF got
        <3> QED  BY <2>7, <3>2 DEF Merged
    <2>9. LoadEffective(DocumentOf(Tree.manifest), Tree.layout = "v2", Tree.package, TRUE) = got
        <3>1. DocumentOf(b) = b
            BY <2>5, DocumentStays
        <3> QED  BY <2>1, <3>1 DEF b
    <2> HIDE DEF got
    <2>10. Decodes(got.doc)
        BY <1>4, <2>3, <2>6, <2>8, DecodesIs
    <2>11. ASSUME NEW f \in K PROVE Value(got.doc, f) = DeclaredValue(f)
        <3>1. CASE f \in Static
            BY <1>3, <2>3, <2>8, <3>1
        <3>2. CASE f \notin Static
            <4>1. f \in Replaced /\ f = "services"
                BY <1>6, <3>2
            <4> QED  BY <1>2, <2>6, <2>8, <3>2, <4>1
        <3> QED  BY <3>1, <3>2
    <2>12. Apart(got.doc, K) = Built(Filtered(d, K))
        <3>1. Apart(got.doc, K) = Filtered(got.doc, Static \union K)
            BY <1>6, <2>8, Removals
        <3>2. Filtered(got.doc, Static \union K) = Filtered(b, K)
            BY <2>8, FilteredTwice
        <3> QED  BY <2>7, <3>1, <3>2
    <2> QED  BY <1>5, <2>8, <2>9, <2>10, <2>11, <2>12 DEF K
<1> QED  BY <1>8, <1>9

(* A package with a template has the identity that was declared.             *)
LEMMA TemplatedPackage ==
    ASSUME project \in Projects, Prepared, Metadata, templated, ~TailActions(processed), Tree.layout = "v2",
           NEW f \in ToSet(CompatFields)
    PROVE  Value(Tree.package, f) = DeclaredValue(f)
<1>1. Tree.package = IF project.package = NoFile THEN StaticFields(document) ELSE package
    BY TreeIs
<1>2. CASE project.package # NoFile
    <2>1. f \in Static
        <3>1. processed \in Seq(ManifestLine)
            BY PreparedIs
        <3> QED  BY <3>1, CompatibleIs
    <2>2. \A g \in Static : Value(package, g) = DeclaredValue(g)
        BY <1>2, MetadataSays
    <2> QED  BY <1>1, <1>2, <2>1, <2>2
<1>3. CASE project.package = NoFile
    <2>1. document \in Documents /\ f \in Static /\ Value(document, f) = DeclaredValue(f)
        BY <1>3, MetadataSays
    <2> DEFINE v == [g \in Static |-> Value(document, g)]
    <2>2. Gathered(StaticFields(document), v, Static)
        BY <2>1, StaticFieldsAre DEF Documents
    <2>3. v[f] = Value(document, f)
        BY <2>1
    <2> HIDE DEF v
    <2>4. Value(StaticFields(document), f) = v[f]
        BY <2>1, <2>2 DEF Gathered
    <2> QED  BY <1>1, <1>3, <2>1, <2>3, <2>4
<1> QED  BY <1>2, <1>3

(* What build.Build packages declares what the project does: for every        *)
(* manifest, package.yml, override and layout, the package of a manifest      *)
(* without template reads back with the fields that the request, the          *)
(* configuration, package.yml or the manifest gives, and with the rest of its *)
(* manifest; a templated one has the identity every rendering of it has.     *)
THEOREM PackagesDeclare == BuildSpec => []PackageDeclares
<1>1. BuildInit => PackageIInv
    BY PackageInit
<1>2. PackageIInv /\ [BuildNext]_buildVars => PackageIInv'
    BY PackageNext
<1>3. PackageIInv => PackageDeclares
    <2> SUFFICES ASSUME PackageIInv, lpk # None PROVE PackageDeclares
        BY DEF PackageDeclares
    <2>1. project \in Projects /\ Prepared /\ Metadata /\ Effective.ok /\ lpk = Tree
        BY DEF PackageIInv
    <2> DEFINE got == LoadEffective(DocumentOf(lpk.manifest), lpk.layout = "v2", lpk.package, TRUE)
    <2>2. ASSUME ~templated
          PROVE  /\ got.ok
                 /\ \A f \in Static \union Replaced : Value(got.doc, f) = DeclaredValue(f)
                 /\ Apart(got.doc, Static \union Replaced)
                      = Apart(DocumentOf(Built(processed)), Static \union Replaced)
        BY <2>1, <2>2, PlainPackage
    <2>3. ASSUME templated, ~TailActions(processed), NEW f \in ToSet(CompatFields), lpk.layout = "v2"
          PROVE  Value(lpk.package, f) = DeclaredValue(f)
        BY <2>1, <2>3, TemplatedPackage
    <2> QED  BY <2>2, <2>3 DEF PackageDeclares
<1> QED  BY <1>1, <1>2, <1>3, PTL DEF BuildSpec

(* A line that has a key and no action is in no block.                       *)
LEMMA PlainEverywhere ==
    ASSUME NEW text \in Seq(ManifestLine), ~Templated(text), NEW i \in 1..Len(text)
    PROVE  /\ Plain(text, i) /\ text[i].kind \notin {"control", "around", "tail"}
           /\ HasKey(text[i]) => text[i].kind = "field" /\ text[i].val # "expr"
<1> DEFINE m == i - 1
<1> DEFINE before == SubSeq(text, 1, m)
<1>1. m \in Nat /\ m < Len(text) /\ Len(text) \in Nat
    OBVIOUS
<1>2. ASSUME NEW k \in 1..Len(text)
      PROVE  /\ text[k] \in ManifestLine /\ text[k].kind \notin {"control", "around", "tail"}
             /\ text[k].kind = "field" => text[k].val # "expr"
    <2>1. text[k] \in ToSet(text)
        BY DEF ToSet
    <2> QED  BY <2>1 DEF Templated
<1>3. before \in Seq(ManifestLine) /\ Len(before) = m /\ \A k \in 1..m : before[k] = text[k]
    <2> HIDE DEF m
    <2>1. \A k \in 1..m : text[k] \in ManifestLine
        BY <1>1
    <2>2. /\ before \in Seq(ManifestLine) /\ Len(before) = IF 1 <= m THEN m - 1 + 1 ELSE 0
          /\ \A k \in 1..(m - 1 + 1) : before[k] = text[1 + k - 1]
        BY <1>1, <2>1, SubSeqProperties
    <2>3. (IF 1 <= m THEN m - 1 + 1 ELSE 0) = m /\ m - 1 + 1 = m /\ \A k \in 1..m : 1 + k - 1 = k
        BY <1>1
    <2> QED  BY <2>2, <2>3
<1> HIDE DEF before
<1>4. PICK f \in [0..m -> Nat] :
        /\ f[0] = 0
        /\ \A k \in 1..m : f[k] = DepthBelow(f[k-1], before[k])
        /\ FoldLeft(DepthBelow, 0, before) = f[m]
    <2> HIDE DEF m
    <2> QED  BY <1>3, LineDepthSteps
<1> DEFINE S == {k \in 0..m : f[k] = 0}
<1>5. 0 \in S
    BY <1>1, <1>4
<1>6. ASSUME NEW k \in 0..(m-1), k \in S PROVE k + 1 \in S
    <2>1. k + 1 \in 1..m /\ (k + 1) - 1 = k /\ k + 1 \in 0..m /\ k + 1 \in 1..Len(text)
        BY <1>1
    <2>2. f[k+1] = DepthBelow(0, text[k+1]) /\ text[k+1].kind # "control"
        BY <1>2, <1>3, <1>4, <1>6, <2>1
    <2>3. f[k+1] = 0
        BY <2>2 DEF DepthBelow
    <2> QED  BY <2>1, <2>3
<1>7. 0..m \subseteq S
    <2> HIDE DEF m, S
    <2> QED  BY <1>1, <1>5, <1>6, SetInduction
<1>8. FoldLeft(DepthBelow, 0, before) = 0
    BY <1>1, <1>4, <1>7
<1>9. LineDepth(text, i) = 0
    BY <1>2, <1>8 DEF LineDepth, before
<1> QED  BY <1>2, <1>9 DEF Plain, HasKey

(* What a summary has of a value.                                            *)
Texted(val) == IF val \in {"map", "number"} THEN "" ELSE val

LEMMA TextedIs ==
    ASSUME NEW val
    PROVE  /\ val \notin {"map", "number"} => Texted(val) = val
           /\ Texted(val) # "" => val \notin {"map", "number"}
           /\ val # "map" => Texted(val) = Text(val)
BY Zenon DEF Texted, Text

(* Without actions the only line that gives a path is its value.             *)
LEMMA PlainScalar ==
    ASSUME NEW text \in Seq(ManifestLine), ~Templated(text), NEW found \in SUBSET (1..Len(text)),
           \A i \in found : HasKey(text[i]),
           \A i, j \in found : i = j
    PROVE  /\ found = {} => Text(ScalarAt(text, found)) = Texted("")
           /\ \A i \in found : Text(ScalarAt(text, found)) = Texted(text[i].val)
<1>1. IsFiniteSet(1..Len(text))
    BY FS_Interval
<1>2. IsFiniteSet(found)
    BY <1>1, FS_Subset
<1>3. Cardinality(found) <= 1 /\ Cardinality(found) \in Nat
    BY <1>2, AtMostOne, FS_CardinalityType
<1>4. found = {} => Cardinality(found) = 0
    BY FS_EmptySet
<1>5. found # {} => Cardinality(found) # 0
    BY <1>2, FS_EmptySet
<1>6. ASSUME NEW i \in found PROVE Text(ScalarAt(text, found)) = Texted(text[i].val)
    <2>1. Cardinality(found) = 1
        BY <1>3, <1>5
    <2>2. (CHOOSE j \in found : TRUE) = i
        OBVIOUS
    <2>3. Plain(text, i) /\ text[i].val # "expr"
        BY PlainEverywhere
    <2>4. ScalarAt(text, found) = IF text[i].val = "map" THEN "" ELSE text[i].val
        BY <2>1, <2>2, <2>3, Zenon DEF ScalarAt
    <2> DEFINE val == text[i].val
    <2> HIDE DEF val
    <2>5. Text(IF val = "map" THEN "" ELSE val) = Texted(val)
        BY Zenon DEF Text, Texted
    <2> QED  BY <2>4, <2>5 DEF val
<1>7. found = {} => Text(ScalarAt(text, found)) = Texted("")
    <2> SUFFICES ASSUME found = {} PROVE Text(ScalarAt(text, found)) = Texted("")
        OBVIOUS
    <2>1. (Cardinality(found) = 1) = FALSE
        BY <1>4
    <2>2. ScalarAt(text, found) = ""
        BY <2>1, Zenon DEF ScalarAt
    <2>3. Text("") = Texted("")
        BY Zenon DEF Text, Texted
    <2> QED  BY <2>2, <2>3, Zenon
<1> QED  BY <1>6, <1>7

(* A document gives a subdomain.                                             *)
AtSubdomain(doc, i) == doc[i].ind = 1 /\ doc[i].key = "subdomain" /\ TopKey(doc, i) = "application"

GivesSubdomain(doc) == \E i \in 1..Len(doc) : AtSubdomain(doc, i) /\ Texted(doc[i].val) # ""

(* Fields of other keys have no part in it.                                  *)
LEMMA SubdomainJoined ==
    ASSUME NEW a, IsDoc(a), NEW b, IsDoc(b)
    PROVE  GivesSubdomain(a \o b) <=> GivesSubdomain(a) \/ GivesSubdomain(b)
<1> DEFINE c == a \o b
<1>1. /\ IsDoc(c) /\ Len(c) = Len(a) + Len(b) /\ Len(a) \in Nat /\ Len(b) \in Nat
      /\ \A i \in 1..Len(a) : c[i] = a[i] /\ TopKey(c, i) = TopKey(a, i)
      /\ \A i \in 1..Len(b) : c[Len(a) + i] = b[i] /\ TopKey(c, Len(a) + i) = TopKey(b, i)
    BY JoinedLines
<1> HIDE DEF c
<1>2. \A i \in 1..Len(a) : i \in 1..Len(c) /\ (AtSubdomain(c, i) <=> AtSubdomain(a, i)) /\ c[i].val = a[i].val
    BY <1>1 DEF AtSubdomain
<1>3. \A i \in 1..Len(b) : Len(a) + i \in 1..Len(c) /\ (AtSubdomain(c, Len(a) + i) <=> AtSubdomain(b, i)) /\ c[Len(a) + i].val = b[i].val
    BY <1>1 DEF AtSubdomain
<1>4. ASSUME NEW i \in 1..Len(c), AtSubdomain(c, i), Texted(c[i].val) # ""
      PROVE  GivesSubdomain(a) \/ GivesSubdomain(b)
    <2>1. CASE i <= Len(a)
        <3>1. i \in 1..Len(a)
            BY <1>1, <2>1
        <3> QED  BY <1>2, <1>4, <3>1 DEF GivesSubdomain
    <2>2. CASE i > Len(a)
        <3>1. i - Len(a) \in 1..Len(b) /\ Len(a) + (i - Len(a)) = i
            BY <1>1, <2>2
        <3> DEFINE j == i - Len(a)
        <3> HIDE DEF j
        <3>2. j \in 1..Len(b) /\ Len(a) + j = i
            BY <3>1 DEF j
        <3>3. AtSubdomain(b, j) /\ Texted(b[j].val) # ""
            BY <1>3, <1>4, <3>2
        <3> QED  BY <3>2, <3>3 DEF GivesSubdomain
    <2> QED  BY <1>1, <2>1, <2>2
<1>5. GivesSubdomain(a) => GivesSubdomain(c)
    BY <1>2 DEF GivesSubdomain
<1>6. GivesSubdomain(b) => GivesSubdomain(c)
    BY <1>3 DEF GivesSubdomain
<1>7. GivesSubdomain(c) => GivesSubdomain(a) \/ GivesSubdomain(b)
    BY <1>4 DEF GivesSubdomain
<1> QED  BY <1>5, <1>6, <1>7 DEF c

LEMMA SubdomainFiltered ==
    ASSUME NEW doc, IsDoc(doc), NEW K, "application" \notin K
    PROVE  GivesSubdomain(Filtered(doc, K)) <=> GivesSubdomain(doc)
<1> DEFINE d == Filtered(doc, K)
<1> DEFINE A == KeptLines(doc, K)
<1>1. PICK e : Copies(d, doc, A, e)
    BY FilteredCopies
<1>2. A = {i \in 1..Len(doc) : TopKey(doc, i) \notin K}
    BY DEF KeptLines
<1> HIDE DEF d, A
<1>3. /\ \A k \in 1..Len(d) : e[k] \in A /\ d[k] = doc[e[k]] /\ TopKey(d, k) = TopKey(doc, e[k])
      /\ \A a \in A : \E k \in 1..Len(d) : e[k] = a
    BY <1>1 DEF Copies, Keeps, Enumerates
<1>4. ASSUME NEW k \in 1..Len(d) PROVE e[k] \in 1..Len(doc) /\ (AtSubdomain(d, k) <=> AtSubdomain(doc, e[k])) /\ d[k].val = doc[e[k]].val
    BY <1>2, <1>3 DEF AtSubdomain
<1>5. GivesSubdomain(d) => GivesSubdomain(doc)
    BY <1>4 DEF GivesSubdomain
<1>6. ASSUME NEW i \in 1..Len(doc), AtSubdomain(doc, i), Texted(doc[i].val) # "" PROVE GivesSubdomain(d)
    <2>1. i \in A
        BY <1>2, <1>6 DEF AtSubdomain
    <2>2. PICK k \in 1..Len(d) : e[k] = i
        BY <1>3, <2>1
    <2>3. AtSubdomain(d, k) /\ Texted(d[k].val) # ""
        BY <1>4, <1>6, <2>2
    <2> QED  BY <2>3 DEF GivesSubdomain
<1> QED  BY <1>5, <1>6 DEF GivesSubdomain, d

(* Where the lines of a text are in its document.                            *)
Depicts(d, text, e) ==
    /\ \A k \in 1..Len(d) : e[k] \in 1..Len(text) /\ HasKey(text[e[k]]) /\ d[k] = text[e[k]]
    /\ \A i \in 1..Len(text) : HasKey(text[i]) => \E k \in 1..Len(d) : e[k] = i
    /\ \A j, k \in 1..Len(d) : e[j] = e[k] => j = k
    /\ \A k \in 1..Len(d) : d[k].ind = 1 => e[TopLine(d, k)] = Owner(text, e[k])

LEMMA DocumentDepicts ==
    ASSUME NEW text \in Seq(ManifestLine), Parses(text)
    PROVE  \E e : Depicts(DocumentOf(text), text, e)
<1> DEFINE A == {i \in 1..Len(text) : HasKey(text[i])}
<1> DEFINE d == DocumentOf(text)
<1>1. Len(text) \in Nat /\ DOMAIN text = 1..Len(text) /\ \A i \in 1..Len(text) : text[i] \in ManifestLine
    OBVIOUS
<1>2. d = Lines(text, A)
    BY <1>1 DEF DocumentOf
<1>3. A \in SUBSET (1..Len(text)) /\ \A i \in 1..Len(text) : i \in A <=> HasKey(text[i])
    OBVIOUS
<1>4. IsDoc(d)
    BY DocumentIs
<1> HIDE DEF A, d
<1>5. PICK e : Keeps(d, text, A, e)
    BY <1>2, <1>3, LinesKeeps
<1>6. /\ d \in Seq(ManifestLine) /\ Len(d) \in Nat /\ DOMAIN d = 1..Len(d)
      /\ \A a \in A : \E k \in 1..Len(d) : e[k] = a
      /\ \A j, k \in 1..Len(d) : j < k => e[j] < e[k]
      /\ e \in [1..Len(d) -> A] /\ \A k \in 1..Len(d) : d[k] = text[e[k]]
    BY <1>5 DEF Keeps, Enumerates
<1>7. ASSUME NEW k \in 1..Len(d) PROVE e[k] \in 1..Len(text) /\ HasKey(text[e[k]]) /\ d[k] = text[e[k]]
    <2>1. e[k] \in A /\ d[k] = text[e[k]]
        BY <1>6
    <2> QED  BY <1>3, <2>1
<1>8. ASSUME NEW j \in 1..Len(d), NEW k \in 1..Len(d), e[j] = e[k] PROVE j = k
    <2>1. e[j] \in Nat
        BY <1>7
    <2>2. ~(j < k) /\ ~(k < j)
        BY <1>6, <1>8, <2>1
    <2> QED  BY <2>2
<1>9. ASSUME NEW k \in 1..Len(d), d[k].ind = 1 PROVE e[TopLine(d, k)] = Owner(text, e[k])
    <2> DEFINE i == e[k]
    <2> DEFINE above == {j \in 1..i-1 : HasKey(text[j]) /\ text[j].ind = 0}
    <2>1. i \in 1..Len(text) /\ HasKey(text[i]) /\ text[i].ind = 1
        BY <1>7, <1>9
    <2>2. Owner(text, i) # 0
        BY <1>1, <2>1 DEF Parses
    <2>3. above # {} /\ Owner(text, i) = Max(above)
        BY <2>1, <2>2 DEF Owner
    <2>4. above \in SUBSET (1..(i-1)) /\ i - 1 \in Nat /\ \A j \in above : HasKey(text[j]) /\ text[j].ind = 0
        BY <2>1
    <2>5. \A j \in 1..(i-1) : HasKey(text[j]) /\ text[j].ind = 0 => j \in above
        OBVIOUS
    <2> HIDE DEF above
    <2> DEFINE o == Max(above)
    <2>6. o \in above /\ \A x \in above : x <= o
        BY <2>3, <2>4, MaxOfPositions
    <2> HIDE DEF o
    <2>7. o \in 1..Len(text) /\ o < i /\ HasKey(text[o]) /\ text[o].ind = 0
        BY <1>1, <2>1, <2>4, <2>6
    <2>8. PICK m \in 1..Len(d) : e[m] = o
        BY <1>3, <1>6, <2>7
    <2>9. m <= k
        <3>1. ~(k < m)
            <4>1. k < m => i < e[m]
                BY <1>6
            <4> QED  BY <2>1, <2>7, <2>8, <4>1
        <3> QED  BY <3>1
    <2>10. ASSUME NEW j \in (m+1)..k PROVE d[j].ind = 1
        <3>1. j \in 1..Len(d) /\ m < j /\ j <= k
            BY <1>6
        <3>2. e[j] \in 1..Len(text) /\ HasKey(text[e[j]]) /\ d[j] = text[e[j]]
            BY <1>7, <3>1
        <3>3. d[j].ind \in {0, 1}
            BY <1>4, <3>1, LinesOfDoc
        <3>4. ASSUME d[j].ind = 0 PROVE FALSE
            <4>1. j # k
                BY <1>9, <3>4
            <4>2. j < k
                BY <3>1, <4>1
            <4>3. e[j] < i /\ e[m] < e[j]
                BY <1>6, <3>1, <4>2
            <4>4. e[j] \in 1..(i-1)
                BY <2>1, <3>2, <4>3
            <4>5. e[j] \in above
                BY <2>5, <3>2, <3>4, <4>4
            <4>6. e[j] <= o
                BY <2>6, <4>5
            <4> QED  BY <2>7, <2>8, <3>2, <4>3, <4>6
        <3> QED  BY <3>3, <3>4
    <2>11. d[m].ind = 0
        BY <1>7, <2>7, <2>8
    <2>12. IsTop(d, k, m)
        BY <2>9, <2>10, <2>11 DEF IsTop
    <2>13. TopLine(d, k) = m
        BY <1>4, <2>12, TopLines
    <2> QED  BY <2>3, <2>8, <2>13 DEF o
<1>10. \A i \in 1..Len(text) : HasKey(text[i]) => \E k \in 1..Len(d) : e[k] = i
    BY <1>3, <1>6
<1>11. Depicts(d, text, e)
    BY <1>7, <1>8, <1>9, <1>10 DEF Depicts
<1> QED  BY <1>11 DEF d
(* The identities of a text without actions are what its document says.      *)
LEMMA PlainIdentity ==
    ASSUME NEW text \in Seq(ManifestLine), Parses(text), ~Templated(text), Distinct(DocumentOf(text))
    PROVE  /\ \A f : Identity(text, <<f>>) = Texted(Value(DocumentOf(text), f))
           /\ Identity(text, Subdomain) # "" <=> GivesSubdomain(DocumentOf(text))
<1> DEFINE d == DocumentOf(text)
<1>1. PICK e : Depicts(d, text, e)
    BY DocumentDepicts
<1>2. IsDoc(d) /\ Distinct(d)
    BY DocumentIs
<1> HIDE DEF d
<1>3. /\ \A k \in 1..Len(d) : e[k] \in 1..Len(text) /\ HasKey(text[e[k]]) /\ d[k] = text[e[k]]
      /\ \A i \in 1..Len(text) : HasKey(text[i]) => \E k \in 1..Len(d) : e[k] = i
      /\ \A k \in 1..Len(d) : d[k].ind = 1 => e[TopLine(d, k)] = Owner(text, e[k])
    BY <1>1 DEF Depicts
<1>4. /\ Len(text) \in Nat /\ DOMAIN text = 1..Len(text)
      /\ \A i \in 1..Len(text) : text[i] \in ManifestLine
    OBVIOUS
<1>5. ASSUME NEW i \in 1..Len(text), HasKey(text[i]) PROVE Owner(text, i) = 0 <=> text[i].ind = 0
    <2>1. text[i].ind \in {0, 1}
        BY <1>4 DEF ManifestLine
    <2>2. text[i].ind = 0 => Owner(text, i) = 0
        BY DEF Owner
    <2>3. text[i].ind = 1 => Owner(text, i) # 0
        BY <1>4, <1>5 DEF Parses
    <2> QED  BY <2>1, <2>2, <2>3
<1>6. ASSUME NEW j \in 1..Len(d), NEW k \in 1..Len(d),
             d[j].ind = d[k].ind, d[j].key = d[k].key, TopKey(d, j) = TopKey(d, k)
      PROVE  j = k
    <2>1. DOMAIN d = 1..Len(d)
        BY <1>2 DEF IsDoc
    <2> QED  BY <1>2, <1>6, <2>1 DEF Distinct
<1>7. ASSUME NEW f PROVE Identity(text, <<f>>) = Texted(Value(d, f))
    <2> DEFINE found == Pairs(text, 0, f)
    <2>1. Identity(text, <<f>>) = Text(ScalarAt(text, found))
        <3>1. Len(<<f>>) = 1 /\ <<f>>[1] = f
            OBVIOUS
        <3> QED  BY <3>1 DEF Identity, Occurrences
    <2>2. found = {i \in 1..Len(text) : HasKey(text[i]) /\ text[i].key = f /\ text[i].ind = 0}
        BY <1>4, <1>5 DEF Pairs
    <2> HIDE DEF found
    <2>3. ASSUME NEW i \in found
          PROVE  \E k \in 1..Len(d) : e[k] = i /\ d[k] = text[i] /\ d[k].ind = 0 /\ d[k].key = f /\ TopKey(d, k) = f
        <3>1. i \in 1..Len(text) /\ HasKey(text[i]) /\ text[i].key = f /\ text[i].ind = 0
            BY <2>2, <2>3
        <3>2. PICK k \in 1..Len(d) : e[k] = i
            BY <1>3, <3>1
        <3>3. d[k] = text[i]
            BY <1>3, <3>2
        <3>4. TopKey(d, k) = f
            BY <1>2, <3>1, <3>3, LinesOfDoc
        <3> QED  BY <3>1, <3>2, <3>3, <3>4
    <2>4. \A i, j \in found : i = j
        <3> SUFFICES ASSUME NEW i \in found, NEW j \in found PROVE i = j
            OBVIOUS
        <3>1. PICK k \in 1..Len(d) : e[k] = i /\ d[k].ind = 0 /\ d[k].key = f /\ TopKey(d, k) = f
            BY <2>3
        <3>2. PICK m \in 1..Len(d) : e[m] = j /\ d[m].ind = 0 /\ d[m].key = f /\ TopKey(d, m) = f
            BY <2>3
        <3>3. k = m
            BY <1>6, <3>1, <3>2
        <3> QED  BY <3>1, <3>2, <3>3
    <2>5. found \in SUBSET (1..Len(text)) /\ \A i \in found : HasKey(text[i])
        BY <2>2
    <2>6. /\ found = {} => Text(ScalarAt(text, found)) = Texted("")
          /\ \A i \in found : Text(ScalarAt(text, found)) = Texted(text[i].val)
        BY <2>4, <2>5, PlainScalar
    <2>7. CASE found = {}
        <3>1. ASSUME NEW k \in 1..Len(d), d[k].ind = 0, d[k].key = f PROVE FALSE
            <4>1. e[k] \in 1..Len(text) /\ HasKey(text[e[k]]) /\ d[k] = text[e[k]]
                BY <1>3
            <4>2. e[k] \in found
                BY <2>2, <3>1, <4>1
            <4> QED  BY <2>7, <4>2
        <3>2. Value(d, f) = ""
            BY <1>2, <3>1, ValueIs
        <3> QED  BY <2>1, <2>6, <2>7, <3>2
    <2>8. CASE found # {}
        <3>1. PICK i \in found : TRUE
            BY <2>8
        <3>2. PICK k \in 1..Len(d) : d[k] = text[i] /\ d[k].ind = 0 /\ d[k].key = f
            BY <2>3
        <3>3. Value(d, f) = d[k].val
            BY <1>2, <3>2, ValueIs
        <3> QED  BY <2>1, <2>6, <3>2, <3>3
    <2> QED  BY <2>7, <2>8
<1>8. Identity(text, Subdomain) # "" <=> GivesSubdomain(d)
    <2> DEFINE owners == Pairs(text, 0, "application")
    <2> DEFINE found == Occurrences(text, Subdomain)
    <2>1. found = UNION {Pairs(text, o, "subdomain") : o \in owners}
        <3>1. Len(Subdomain) = 2 /\ Subdomain[1] = "application" /\ Last(Subdomain) = "subdomain"
            BY DEF Subdomain, Last
        <3> QED  BY <3>1 DEF Occurrences
    <2>2. owners = {i \in 1..Len(text) : HasKey(text[i]) /\ text[i].key = "application" /\ text[i].ind = 0}
        BY <1>4, <1>5 DEF Pairs
    <2>3. Identity(text, Subdomain) = Text(ScalarAt(text, found))
        BY DEF Identity
    <2> HIDE DEF owners, found
    <2>4. ASSUME NEW i \in found
          PROVE  /\ i \in 1..Len(text) /\ HasKey(text[i]) /\ text[i].key = "subdomain"
                 /\ \E k \in 1..Len(d) : e[k] = i /\ d[k] = text[i] /\ AtSubdomain(d, k)
        <3>1. PICK o \in owners : i \in Pairs(text, o, "subdomain")
            BY <2>1, <2>4
        <3>2. i \in 1..Len(text) /\ HasKey(text[i]) /\ text[i].key = "subdomain" /\ Owner(text, i) = o
            BY <1>4, <3>1 DEF Pairs
        <3>3. o \in 1..Len(text) /\ text[o].key = "application"
            BY <2>2, <3>1
        <3>4. text[i].ind = 1
            <4>1. text[i].ind # 0
                BY <1>5, <3>2, <3>3
            <4> QED  BY <1>4, <3>2, <4>1 DEF ManifestLine
        <3>5. PICK k \in 1..Len(d) : e[k] = i
            BY <1>3, <3>2
        <3>6. d[k] = text[i] /\ e[TopLine(d, k)] = o
            BY <1>3, <3>2, <3>4, <3>5
        <3>7. TopLine(d, k) \in 1..Len(d) /\ TopKey(d, k) = d[TopLine(d, k)].key
            BY <1>2, LinesOfDoc
        <3>8. d[TopLine(d, k)] = text[o]
            BY <1>3, <3>6, <3>7
        <3>9. AtSubdomain(d, k)
            BY <3>2, <3>3, <3>4, <3>6, <3>7, <3>8 DEF AtSubdomain
        <3> QED  BY <3>2, <3>5, <3>6, <3>9
    <2>5. ASSUME NEW k \in 1..Len(d), AtSubdomain(d, k) PROVE e[k] \in found
        <3>1. d[k].ind = 1 /\ d[k].key = "subdomain" /\ TopKey(d, k) = "application"
            BY <2>5 DEF AtSubdomain
        <3>2. TopLine(d, k) \in 1..Len(d) /\ TopKey(d, k) = d[TopLine(d, k)].key /\ d[TopLine(d, k)].ind = 0
            BY <1>2, LinesOfDoc
        <3> DEFINE o == e[TopLine(d, k)]
        <3>3. o \in 1..Len(text) /\ HasKey(text[o]) /\ d[TopLine(d, k)] = text[o]
            BY <1>3, <3>2
        <3>4. o = Owner(text, e[k])
            BY <1>3, <3>1
        <3> HIDE DEF o
        <3>5. o \in owners
            BY <2>2, <3>1, <3>2, <3>3
        <3>6. e[k] \in Pairs(text, o, "subdomain")
            BY <1>3, <1>4, <3>1, <3>4 DEF Pairs
        <3> QED  BY <2>1, <3>5, <3>6
    <2>6. \A i, j \in found : i = j
        <3> SUFFICES ASSUME NEW i \in found, NEW j \in found PROVE i = j
            OBVIOUS
        <3>1. PICK k \in 1..Len(d) : e[k] = i /\ AtSubdomain(d, k)
            BY <2>4
        <3>2. PICK m \in 1..Len(d) : e[m] = j /\ AtSubdomain(d, m)
            BY <2>4
        <3>3. k = m
            BY <1>6, <3>1, <3>2 DEF AtSubdomain
        <3> QED  BY <3>1, <3>2, <3>3
    <2>7. found \in SUBSET (1..Len(text)) /\ \A i \in found : HasKey(text[i])
        BY <2>4
    <2> DEFINE id == Text(ScalarAt(text, found))
    <2>8. (found = {} => id = Texted("")) /\ \A i \in found : id = Texted(text[i].val)
        BY <2>6, <2>7, PlainScalar
    <2>11. Texted("") = ""
        BY Zenon DEF Texted
    <2> HIDE DEF id
    <2>9. ASSUME id # "" PROVE GivesSubdomain(d)
        <3>1. PICK i \in found : TRUE
            BY <2>8, <2>9, <2>11
        <3>2. PICK k \in 1..Len(d) : d[k] = text[i] /\ AtSubdomain(d, k)
            BY <2>4
        <3>3. Texted(d[k].val) # ""
            BY <2>8, <2>9, <3>2
        <3> QED  BY <3>2, <3>3 DEF GivesSubdomain
    <2>10. ASSUME GivesSubdomain(d) PROVE id # ""
        <3>1. PICK k \in 1..Len(d) : AtSubdomain(d, k) /\ Texted(d[k].val) # ""
            BY <2>10 DEF GivesSubdomain
        <3>2. e[k] \in found /\ d[k] = text[e[k]]
            BY <1>3, <2>5, <3>1
        <3> QED  BY <2>8, <3>1, <3>2
    <2> QED  BY <2>3, <2>9, <2>10 DEF id
<1> QED  BY <1>7, <1>8 DEF d

(* The metadata view of a templated manifest has a subdomain when the          *)
(* manifest has one.                                                        *)
LEMMA CompatibleSubdomain ==
    ASSUME NEW text \in Seq(ManifestLine)
    PROVE  GivesSubdomain(Compatible(text)) <=> Identity(text, Subdomain) # ""
<1> DEFINE val == Identity(text, Subdomain)
<1> DEFINE l == Field("application", "map")
<1> DEFINE c == Child("subdomain", val)
<1> DEFINE app == <<l, c>>
<1>1. PICK g : IsDoc(g) /\ (\A i \in 1..Len(g) : TopKey(g, i) # "application") /\ Compatible(text) = g \o app
    BY CompatibleIs
<1>2. val \in STRING /\ Texted(val) = val
    BY IdentityIsString, TextedIs
<1>3. IsDoc(app) /\ \A i \in 1..Len(app) : TopKey(app, i) = "application"
    BY <1>2, ApplicationIsDocument
<1>4. l.ind = 0 /\ c.ind = 1 /\ c.key = "subdomain" /\ c.val = val
    <2>1. l.ind = 0
        BY DEF Field
    <2>2. c = [kind |-> "field", key |-> "subdomain", val |-> val, ind |-> 1, act |-> "none"]
        BY DEF Field, Child
    <2> HIDE DEF c, val
    <2>3. c.ind = 1 /\ c.key = "subdomain" /\ c.val = val
        BY <2>2
    <2> QED  BY <2>1, <2>3
<1>5. Len(app) = 2 /\ app[1] = l /\ app[2] = c
    <2> DEFINE S == {l, c}
    <2>1. l \in S /\ c \in S
        OBVIOUS
    <2> HIDE DEF l, c, S
    <2> QED  BY <2>1, TwoLines
<1> HIDE DEF app, l, c, val
<1>6. ~GivesSubdomain(g)
    BY <1>1 DEF GivesSubdomain, AtSubdomain
<1>7. GivesSubdomain(app) <=> val # ""
    <2>1. ASSUME NEW i \in 1..Len(app), AtSubdomain(app, i), Texted(app[i].val) # "" PROVE val # ""
        <3>1. i = 1 \/ i = 2
            BY <1>5
        <3>2. i # 1
            <4>1. app[i].ind = 1
                BY <2>1 DEF AtSubdomain
            <4>2. app[1].ind = 0
                BY <1>4, <1>5
            <4> QED  BY <4>1, <4>2
        <3> QED  BY <1>2, <1>4, <1>5, <2>1, <3>1, <3>2
    <2>2. ASSUME val # "" PROVE GivesSubdomain(app)
        <3>1. 2 \in 1..Len(app)
            BY <1>5
        <3>2. AtSubdomain(app, 2) /\ Texted(app[2].val) # ""
            BY <1>2, <1>3, <1>4, <1>5, <2>2, <3>1 DEF AtSubdomain
        <3> QED  BY <3>1, <3>2 DEF GivesSubdomain
    <2> QED  BY <2>1, <2>2 DEF GivesSubdomain
<1>8. GivesSubdomain(g \o app) <=> GivesSubdomain(g) \/ GivesSubdomain(app)
    BY <1>1, <1>3, SubdomainJoined
<1> QED  BY <1>1, <1>6, <1>7, <1>8 DEF val

(* The identities of a metadata view are those of its text.                  *)
LEMMA ViewIs ==
    ASSUME NEW text \in Seq(ManifestLine), Parses(text), ~Templated(text) => DocumentOf(text) \in Documents
    PROVE  /\ MetadataOf(text) \in Documents
           /\ \A f \in ToSet(CompatFields) : f \in Static /\ Texted(Value(MetadataOf(text), f)) = Identity(text, <<f>>)
           /\ GivesSubdomain(MetadataOf(text)) <=> Identity(text, Subdomain) # ""
<1>1. CASE Templated(text)
    <2>1. MetadataOf(text) = Compatible(text)
        BY <1>1 DEF MetadataOf
    <2>2. \A f : Texted(Identity(text, <<f>>)) = Identity(text, <<f>>)
        BY IdentityIsString, TextedIs
    <2> QED  BY <2>1, <2>2, CompatibleIs, CompatibleSubdomain
<1>2. CASE ~Templated(text)
    <2>1. MetadataOf(text) = DocumentOf(text)
        BY <1>2 DEF MetadataOf
    <2>2. DocumentOf(text) \in Documents /\ Distinct(DocumentOf(text))
        BY <1>2 DEF Documents
    <2>3. \A f \in ToSet(CompatFields) : f \in Static
        BY CompatibleIs
    <2>4. /\ \A f : Identity(text, <<f>>) = Texted(Value(DocumentOf(text), f))
          /\ Identity(text, Subdomain) # "" <=> GivesSubdomain(DocumentOf(text))
        BY <1>2, <2>2, PlainIdentity
    <2> QED  BY <2>1, <2>2, <2>3, <2>4
<1> QED  BY <1>1, <1>2

Described(p) == IF p.package = NoFile THEN Source(p).out ELSE p.package

(* What Inspect asks of the metadata that a build checks.                    *)
Summarized(doc) ==
    /\ ValidID(Texted(Value(doc, "package"))) /\ Texted(Value(doc, "version")) # ""
    /\ GivesSubdomain(doc)

(* The summary that Inspect makes is of the metadata that a build checks.    *)
LEMMA SummaryIs ==
    ASSUME project \in Projects, Prepared, Metadata, ~Templated(project.package), Reads(project)
    PROVE  /\ Inspect(project).ok <=> Summarized(Effective.doc)
           /\ Inspect(project).package = Texted(Value(Effective.doc, "package"))
           /\ Inspect(project).version = Texted(Value(Effective.doc, "version"))
           /\ Inspect(project).name = Texted(Value(Effective.doc, "name"))
<1> DEFINE p == project
<1> DEFINE got == Effective.doc
<1> DEFINE view == MetadataOf(processed)
<1> DEFINE seen == EffectiveSummary(p, Described(p))
<1> DEFINE stated == IF p.package = NoFile THEN document ELSE package
<1>1. /\ IsProject(p) /\ processed \in Seq(ManifestLine) /\ Parses(processed)
      /\ ~templated => DocumentOf(processed) \in Documents
      /\ p.package # NoFile => p.package \in Documents
    BY PreparedIs DEF Analyzes
<1>2. processed = Source(p).out /\ (templated <=> Templated(processed)) /\ Source(p).ok /\ Resolves(p)
    BY DEF Prepared, Resolves
<1>3. /\ view \in Documents
      /\ \A f \in ToSet(CompatFields) : f \in Static /\ Texted(Value(view, f)) = Identity(processed, <<f>>)
      /\ GivesSubdomain(view) <=> Identity(processed, Subdomain) # ""
    BY <1>1, <1>2, ViewIs
<1>4. ASSUME p.package # NoFile
      PROVE  \A f \in ToSet(CompatFields) : Texted(Value(p.package, f)) = Identity(p.package, <<f>>)
    <2> DEFINE d == p.package
    <2>1. d \in Documents /\ IsDoc(d) /\ d \in Seq(ManifestLine)
        BY <1>1, <1>4 DEF Documents
    <2>2. DocumentOf(d) = d
        BY <2>1, DocumentStays
    <2>3. MetadataOf(d) = d
        BY <2>2 DEF MetadataOf
    <2>4. Parses(d)
        BY <1>2, <1>4 DEF Resolves
    <2> HIDE DEF d
    <2>5. \A f \in ToSet(CompatFields) : Texted(Value(MetadataOf(d), f)) = Identity(d, <<f>>)
        BY <2>1, <2>2, <2>4, ViewIs
    <2> QED  BY <2>3, <2>5 DEF d
<1>5. ToSet(CompatFields) = {"package", "version", "name"}
    <2>1. DOMAIN CompatFields = 1..3 /\ 1..3 = {1, 2, 3}
          /\ CompatFields[1] = "package" /\ CompatFields[2] = "version" /\ CompatFields[3] = "name"
        BY DEF CompatFields
    <2>2. ToSet(CompatFields) = {CompatFields[k] : k \in DOMAIN CompatFields}
        BY DEF ToSet
    <2> QED  BY <2>1, <2>2
<1>6. \A f \in ToSet(CompatFields) : f \in Static /\ f \in Overridable /\ f # "locales"
    <2>1. \A f \in ToSet(CompatFields) : f # "locales"
        BY <1>5
    <2> QED  BY <1>3, <2>1, StaticNames
<1> DEFINE Said(f, val) == IF f = "version" /\ p.version # "" THEN p.version ELSE Settled(p, f, val)
<1>7. ASSUME NEW base \in Documents
      PROVE  /\ \A f \in Overridable : Value(Overridden(base, p), f) = Said(f, Value(base, f))
             /\ GivesSubdomain(Overridden(base, p)) <=> GivesSubdomain(base)
    <2> DEFINE r == Overridden(base, p)
    <2> DEFINE K == Static \union DOMAIN p.override
    <2>1. r \in Documents /\ Filtered(r, K) = Filtered(base, K)
          /\ \A f \in Overridable : Value(r, f) = Said(f, Value(base, f))
        BY <1>1, OverriddenIs, ZenonT(60)
    <2>2. "application" \notin K
        <3>1. DOMAIN p.override \subseteq Overridable
            BY <1>1 DEF IsProject
        <3>2. Static \subseteq Overridable /\ "application" \notin Overridable
            BY StaticNames
        <3> QED  BY <3>1, <3>2
    <2> HIDE DEF r, K
    <2>3. IsDoc(r) /\ IsDoc(base)
        BY <2>1 DEF Documents
    <2>4. GivesSubdomain(Filtered(r, K)) <=> GivesSubdomain(r)
        BY <2>2, <2>3, SubdomainFiltered
    <2>5. GivesSubdomain(Filtered(base, K)) <=> GivesSubdomain(base)
        BY <2>2, <2>3, SubdomainFiltered
    <2> QED  BY <2>1, <2>4, <2>5 DEF r
<1>8. ASSUME NEW f \in ToSet(CompatFields)
      PROVE  /\ f \in DOMAIN p.override => Texted(p.override[f]) = p.override[f]
             /\ Texted(p.version) = p.version
    <2>1. f \in DOMAIN p.override => p.override[f] \notin {"map", "number"}
        BY <1>6 DEF Reads
    <2>2. p.version \notin {"map", "number"}
        BY <1>1 DEF IsProject
    <2> QED  BY <2>1, <2>2, TextedIs
<1> HIDE DEF view
<1>9. ASSUME NEW f \in ToSet(CompatFields)
      PROVE  \E val : Value(got, f) = Said(f, val) /\ Texted(val) = Identity(Described(p), <<f>>)
    <2>1. Value(got, f) = Value(stated, f)
        BY <1>6, EffectiveIs
    <2>2. CASE p.package = NoFile
        <3>1. stated = Overridden(view, p) /\ Described(p) = processed
            BY <1>2, <2>2 DEF Metadata, Described, view
        <3>2. Value(Overridden(view, p), f) = Said(f, Value(view, f))
            BY <1>3, <1>6, <1>7
        <3>3. Texted(Value(view, f)) = Identity(processed, <<f>>)
            BY <1>3
        <3> HIDE DEF Said, stated, got
        <3> QED  BY <2>1, <3>1, <3>2, <3>3
    <2>3. CASE p.package # NoFile
        <3>1. stated = Overridden(p.package, p) /\ Described(p) = p.package
            BY <2>3 DEF Metadata, Described
        <3>2. Value(Overridden(p.package, p), f) = Said(f, Value(p.package, f))
            BY <1>1, <1>6, <1>7, <2>3
        <3>3. Texted(Value(p.package, f)) = Identity(p.package, <<f>>)
            BY <1>4, <2>3
        <3> HIDE DEF Said, stated, got
        <3> QED  BY <2>1, <3>1, <3>2, <3>3
    <2> QED  BY <2>2, <2>3
<1>10. ASSUME NEW f \in ToSet(CompatFields) PROVE seen[f] = Texted(Value(got, f))
    <2>1. seen[f] = IF f = "version" /\ p.version # "" THEN p.version
                    ELSE IF f \in DOMAIN p.override THEN p.override[f]
                    ELSE Identity(Described(p), <<f>>)
        BY DEF EffectiveSummary
    <2>2. PICK val : Value(got, f) = Said(f, val) /\ Texted(val) = Identity(Described(p), <<f>>)
        BY <1>9
    <2> DEFINE given == f = "version" /\ p.version # ""
    <2> DEFINE by == Identity(Described(p), <<f>>)
    <2>3. seen[f] = (IF given THEN p.version ELSE IF f \in DOMAIN p.override THEN p.override[f] ELSE by)
        BY <2>1
    <2>4. Value(got, f) = (IF given THEN p.version ELSE IF f \in DOMAIN p.override THEN p.override[f] ELSE val)
        BY <2>2 DEF Settled
    <2>5. Texted(val) = by
        BY <2>2
    <2> HIDE DEF given, by, seen, got
    <2> QED  BY <1>8, <2>3, <2>4, <2>5
<1>11. GivesSubdomain(got) <=> Identity(processed, Subdomain) # ""
    <2>1. IsDoc(got) /\ Filtered(got, Static) = Filtered(document, Static)
        BY EffectiveIs
    <2>2. document \in Documents
        BY MetadataSays
    <2>3. "application" \notin Static /\ IsDoc(document)
        BY <2>2, StaticNames DEF Documents
    <2> HIDE DEF got
    <2>4. (GivesSubdomain(got) <=> GivesSubdomain(Filtered(got, Static)))
          /\ (GivesSubdomain(document) <=> GivesSubdomain(Filtered(document, Static)))
        BY <2>1, <2>3, SubdomainFiltered
    <2>5. document = view \/ document = Overridden(view, p)
        BY DEF Metadata, view
    <2>6. GivesSubdomain(document) <=> GivesSubdomain(view)
        BY <1>3, <1>7, <2>5
    <2> QED  BY <1>3, <2>1, <2>4, <2>6
<1>12. /\ Inspect(p).package = seen["package"] /\ Inspect(p).version = seen["version"] /\ Inspect(p).name = seen["name"]
       /\ Inspect(p).ok <=> /\ Resolves(p) /\ ~Templated(p.package) /\ Reads(p)
                            /\ ValidID(seen["package"]) /\ seen["version"] # ""
                            /\ Identity(processed, Subdomain) # ""
    <2> DEFINE okay == /\ Resolves(p)
                       /\ ~Templated(p.package) /\ Reads(p)
                       /\ ValidID(seen["package"]) /\ seen["version"] # ""
                       /\ Identity(processed, Subdomain) # ""
    <2>1. Inspect(p) = [ok |-> okay, package |-> seen["package"], version |-> seen["version"], name |-> seen["name"],
                        layout |-> PredictLayout(p)]
        BY <1>2 DEF Inspect, Described
    <2> HIDE DEF okay, seen, p
    <2>2. Inspect(p).ok = okay /\ Inspect(p).package = seen["package"] /\ Inspect(p).version = seen["version"]
          /\ Inspect(p).name = seen["name"]
        BY <2>1
    <2> QED  BY <2>2 DEF okay
<1>13. /\ seen["package"] = Texted(Value(got, "package")) /\ seen["version"] = Texted(Value(got, "version"))
       /\ seen["name"] = Texted(Value(got, "name"))
    BY <1>5, <1>10
<1> HIDE DEF seen, got
<1>14. Inspect(p).ok <=> Summarized(got)
    BY <1>2, <1>11, <1>12, <1>13 DEF Summarized
<1> QED  BY <1>12, <1>13, <1>14 DEF got

(* The typed decode: no subdomain is a mapping.                              *)
LEMMA SubdomainTyped ==
    ASSUME NEW doc, IsDoc(doc), Typed(Filtered(doc, Static)), NEW i \in 1..Len(doc), AtSubdomain(doc, i)
    PROVE  doc[i].val # "map"
<1> DEFINE d == Filtered(doc, Static)
<1> DEFINE A == KeptLines(doc, Static)
<1>1. PICK e : Copies(d, doc, A, e)
    BY FilteredCopies
<1>2. i \in A
    <2>1. "application" \notin Static
        BY StaticNames
    <2> QED  BY <2>1 DEF AtSubdomain, KeptLines
<1> HIDE DEF d, A
<1>3. PICK k \in 1..Len(d) : d[k] = doc[i] /\ TopKey(d, k) = TopKey(doc, i)
    BY <1>1, <1>2 DEF Copies, Keeps, Enumerates
<1>4. TypedLine(doc[i], "application")
    BY <1>3 DEF Typed, AtSubdomain, d
<1>5. doc[i].ind = 1 /\ doc[i].key = "subdomain"
    BY DEF AtSubdomain
<1> QED  BY <1>4, <1>5, Zenon DEF TypedLine

(* How the checks of a build and of Inspect differ on the same metadata.     *)
LEMMA DeclaresIs ==
    ASSUME project \in Projects, Prepared, Metadata
    PROVE  LET doc == Effective.doc
           IN  /\ Summarized(doc) /\ Decodes(doc) => Declares(Effective)
               /\ Declares(Effective) =>
                    /\ Summarized(doc) <=> /\ Value(doc, "version") # "number"
                                           /\ \A i \in Occurrences(doc, Subdomain) : doc[i].val # "number"
                    /\ Texted(Value(doc, "package")) = Value(doc, "package")
                    /\ Value(doc, "version") # "number" => Texted(Value(doc, "version")) = Value(doc, "version")
                    /\ Texted(Value(doc, "name")) = Text(Value(doc, "name"))
<1> DEFINE doc == Effective.doc
<1> DEFINE id == Value(doc, "package")
<1> DEFINE ver == Value(doc, "version")
<1> DEFINE sub == Occurrences(doc, Subdomain)
<1>1. IsDoc(doc) /\ Distinct(doc) /\ (Effective.ok <=> Decodes(doc))
    BY EffectiveIs
<1>2. Declares(Effective) <=> /\ Decodes(doc) /\ ValidID(id) /\ ver # ""
                              /\ \E i \in sub : doc[i].val # ""
    BY <1>1 DEF Declares
<1> HIDE DEF doc
<1>3. sub = {i \in 1..Len(doc) : AtSubdomain(doc, i)}
    <2>1. Len(Subdomain) = 2 /\ Subdomain[1] = "application" /\ Subdomain[2] = "subdomain"
        BY DEF Subdomain
    <2> QED  BY <1>1, <2>1, PathLines DEF AtSubdomain
<1>4. Summarized(doc) <=> /\ ValidID(Texted(id)) /\ Texted(ver) # ""
                          /\ \E i \in sub : Texted(doc[i].val) # ""
    BY <1>3 DEF Summarized, GivesSubdomain
<1>5. \A i, j \in sub : i = j
    <2>1. DOMAIN doc = 1..Len(doc)
        BY <1>1 DEF IsDoc
    <2> QED  BY <1>1, <1>3, <2>1 DEF Distinct, AtSubdomain
<1>6. Decodes(doc) => /\ id # "map" /\ ver # "map" /\ Value(doc, "name") # "map"
                      /\ \A i \in sub : doc[i].val # "map"
    <2> SUFFICES ASSUME Decodes(doc)
                 PROVE  /\ id # "map" /\ ver # "map" /\ Value(doc, "name") # "map"
                        /\ \A i \in sub : doc[i].val # "map"
        OBVIOUS
    <2>1. (\A f \in Static \ {"locales"} : Value(doc, f) # "map") /\ Typed(Filtered(doc, Static))
        BY <1>1, DecodesIs
    <2>2. {"package", "version", "name"} \subseteq Static \ {"locales"}
        BY StaticNames
    <2>3. \A i \in sub : doc[i].val # "map"
        BY <1>1, <1>3, <2>1, SubdomainTyped
    <2> QED  BY <2>1, <2>2, <2>3
<1> HIDE DEF sub, id, ver
<1>7. \A val : ValidID(val) => val # "" /\ val # "number"
    BY Zenon DEF ValidID
<1>8. ASSUME Summarized(doc), Decodes(doc) PROVE Declares(Effective)
    <2>1. ValidID(id) /\ ver # ""
        <3>1. Texted(id) = id /\ Texted(ver) = ver
            BY <1>4, <1>7, <1>8, TextedIs
        <3> QED  BY <1>4, <1>8, <3>1
    <2>2. PICK i \in sub : Texted(doc[i].val) # ""
        BY <1>4, <1>8
    <2>3. doc[i].val # ""
        BY <2>2, TextedIs
    <2> QED  BY <1>2, <1>8, <2>1, <2>2, <2>3
<1>9. ASSUME Declares(Effective)
      PROVE  /\ Summarized(doc) <=> ver # "number" /\ \A i \in sub : doc[i].val # "number"
             /\ Texted(id) = id
             /\ ver # "number" => Texted(ver) = ver
             /\ Texted(Value(doc, "name")) = Text(Value(doc, "name"))
    <2>1. /\ ValidID(id) /\ ver # "" /\ id # "map" /\ id # "number" /\ ver # "map"
          /\ Value(doc, "name") # "map" /\ \A i \in sub : doc[i].val # "map"
        BY <1>2, <1>6, <1>7, <1>9
    <2>2. PICK i \in sub : doc[i].val # ""
        BY <1>2, <1>9
    <2>3. Texted(id) = id /\ (ver # "number" => Texted(ver) = ver)
          /\ Texted(Value(doc, "name")) = Text(Value(doc, "name"))
        BY <2>1, TextedIs
    <2>4. Texted(ver) # "" <=> ver # "number"
        BY <2>1, <2>3, TextedIs
    <2>5. (\E j \in sub : Texted(doc[j].val) # "") <=> \A j \in sub : doc[j].val # "number"
        <3>1. Texted(doc[i].val) # "" <=> doc[i].val # "number"
            BY <2>1, <2>2, TextedIs
        <3> QED  BY <1>5, <2>2, <3>1
    <2> QED  BY <1>4, <2>1, <2>3, <2>4, <2>5
<1> QED  BY <1>8, <1>9 DEF doc, id, ver, sub

(* Where Inspect accepts what a build has refused, a field has a wrong type.  *)
InspectIInv ==
    /\ PackageIInv
    /\ phase = "refused" /\ Inspect(project).ok => ~Decodes(Effective.doc)
    /\ phase = "checked" => Declares(Effective)

LEMMA InspectNext == InspectIInv /\ [BuildNext]_buildVars => InspectIInv'
<1> SUFFICES ASSUME InspectIInv, [BuildNext]_buildVars PROVE InspectIInv'
    OBVIOUS
<1>1. PackageIInv /\ PackageIInv'
    BY PackageNext DEF InspectIInv
<1>2. project' = project
    BY DEF BuildNext, buildVars, ResolveConfig, ReadManifest, ApplyOverrides, CheckMetadata, BuildImages, Stage, Write
<1>3. ASSUME ResolveConfig PROVE InspectIInv'
    <2>1. /\ phase' \in {"resolved", "refused"}
          /\ phase' = "refused" => ~Resolves(project)
        BY <1>3 DEF ResolveConfig, End
    <2>2. ~Resolves(project) => ~Inspect(project).ok
        BY DEF Inspect
    <2> QED  BY <1>1, <1>2, <2>1, <2>2 DEF InspectIInv
<1>4. ASSUME CheckMetadata PROVE InspectIInv'
    <2>1. /\ phase = "overridden" /\ UNCHANGED <<project, document, package>>
          /\ IF Declares(Effective) THEN phase' = "checked" ELSE phase' = "refused"
        BY <1>4 DEF CheckMetadata, End, Effective
    <2>2. Effective' = Effective
        BY <2>1 DEF Effective
    <2>3. project \in Projects /\ Prepared /\ Metadata
        BY <1>1, <2>1 DEF PackageIInv
    <2>4. ~Declares(Effective) /\ Inspect(project).ok => ~Decodes(Effective.doc)
        <3>1. Inspect(project).ok => ~Templated(project.package) /\ Reads(project)
            BY DEF Inspect
        <3>2. ~Templated(project.package) /\ Reads(project) => (Inspect(project).ok <=> Summarized(Effective.doc))
            BY <2>3, SummaryIs
        <3>3. Summarized(Effective.doc) /\ Decodes(Effective.doc) => Declares(Effective)
            BY <2>3, DeclaresIs
        <3> QED  BY <3>1, <3>2, <3>3
    <2>5. phase' = "checked" => Declares(Effective')
        BY <2>1, <2>2
    <2>6. Declares(Effective)' <=> Declares(Effective')
        BY DEF Declares, Subdomain
    <2>7. (Inspect(project)' = Inspect(project)) /\ (Decodes(Effective.doc)' <=> Decodes(Effective.doc))
        BY <1>2, <2>2
    <2>8. phase' \in {"checked", "refused"} /\ (phase' = "refused" => ~Declares(Effective))
        BY <2>1
    <2> QED  BY <1>1, <2>4, <2>5, <2>6, <2>7, <2>8 DEF InspectIInv
<1>5. ASSUME ReadManifest \/ ApplyOverrides \/ BuildImages \/ Stage \/ Write PROVE InspectIInv'
    <2>1. phase' \in {"read", "overridden", "imaged", "failed", "staged", "done"}
        BY <1>5 DEF ReadManifest, ApplyOverrides, BuildImages, Stage, Write, End
    <2> QED  BY <1>1, <2>1 DEF InspectIInv
<1>6. ASSUME UNCHANGED buildVars PROVE InspectIInv'
    <2>1. UNCHANGED <<project, phase, document, package>>
        BY <1>6 DEF buildVars
    <2>2. Declares(Effective)' <=> Declares(Effective)
        BY <2>1 DEF Declares, Effective, Subdomain
    <2>3. Effective' = Effective
        BY <2>1 DEF Effective
    <2>4. (Inspect(project)' = Inspect(project)) /\ (Decodes(Effective.doc)' <=> Decodes(Effective.doc))
        BY <2>1, <2>3
    <2> QED  BY <1>1, <2>1, <2>2, <2>4 DEF InspectIInv
<1> QED  BY <1>3, <1>4, <1>5, <1>6 DEF BuildNext

(* project.Inspect tells of a build what becomes of it: whatever the manifest, *)
(* the build directives, package.yml and the overrides are, a build refuses   *)
(* what Inspect accepts only if the typed decode fails, Inspect refuses what  *)
(* a build takes only for an action in package.yml, an override that is no    *)
(* string, or a version or subdomain that is none, both have the same         *)
(* package, version and name otherwise, and what is written has the layout    *)
(* that was predicted.                                                      *)
THEOREM InspectionsAgree == BuildSpec => []InspectAgrees
<1>1. BuildInit => InspectIInv
    BY PackageInit DEF BuildInit, InspectIInv
<1>2. InspectIInv /\ [BuildNext]_buildVars => InspectIInv'
    BY InspectNext
<1>3. InspectIInv => InspectAgrees
    <2> SUFFICES ASSUME InspectIInv PROVE InspectAgrees
        OBVIOUS
    <2>1. PackageIInv
        BY DEF InspectIInv
    <2> DEFINE doc == Effective.doc
    <2> DEFINE same == /\ Value(doc, "version") # "number"
                       /\ \A i \in Occurrences(doc, Subdomain) : doc[i].val # "number"
    <2>2. phase = "refused" /\ Inspect(project).ok => ~Decodes(doc)
        BY DEF InspectIInv
    <2>3. ASSUME phase = "checked"
          PROVE  /\ Inspect(project).ok <=> ~Templated(project.package) /\ Reads(project) /\ same
                 /\ Inspect(project).ok =>
                      /\ Inspect(project).package = Value(doc, "package")
                      /\ Inspect(project).version = Value(doc, "version")
                      /\ Inspect(project).name = Text(Value(doc, "name"))
        <3>1. project \in Projects /\ Prepared /\ Metadata
            BY <2>1, <2>3 DEF PackageIInv
        <3>2. Declares(Effective)
            BY <2>3 DEF InspectIInv
        <3>3. /\ Summarized(doc) <=> same
              /\ Texted(Value(doc, "package")) = Value(doc, "package")
              /\ Value(doc, "version") # "number" => Texted(Value(doc, "version")) = Value(doc, "version")
              /\ Texted(Value(doc, "name")) = Text(Value(doc, "name"))
            BY <3>1, <3>2, DeclaresIs
        <3>4. Inspect(project).ok => ~Templated(project.package) /\ Reads(project)
            BY DEF Inspect
        <3>5. ~Templated(project.package) /\ Reads(project) =>
                /\ Inspect(project).ok <=> Summarized(doc)
                /\ Inspect(project).package = Texted(Value(doc, "package"))
                /\ Inspect(project).version = Texted(Value(doc, "version"))
                /\ Inspect(project).name = Texted(Value(doc, "name"))
            BY <3>1, SummaryIs
        <3> QED  BY <3>3, <3>4, <3>5
    <2>4. ASSUME lpk # None PROVE Inspect(project).layout = lpk.layout
        <3>1. lpk = Tree
            BY <2>1, <2>4 DEF PackageIInv
        <3>2. PredictLayout(project) \in {"v1", "v2"}
            BY DEF PredictLayout
        <3>3. Tree.layout = PredictLayout(project)
            BY <3>2, TreeIs
        <3>4. Inspect(project).layout = PredictLayout(project)
            BY DEF Inspect
        <3> QED  BY <3>1, <3>3, <3>4
    <2>5. doc = LoadEffective(document, project.package # NoFile, package, FALSE).doc
        BY DEF Effective
    <2> HIDE DEF doc
    <2> QED  BY <2>2, <2>3, <2>4, <2>5 DEF InspectAgrees
<1> QED  BY <1>1, <1>2, <1>3, PTL DEF BuildSpec

-----------------------------------------------------------------------------
(* What a templated package renders to                                        *)

(* A line that starts a top-level field, as removeTopLevelFields finds it,     *)
(* and a line that goes with a field that is removed.                        *)
Starts(l) == l.ind = 0 /\ l.key # "" /\ l.kind \in {"field", "tail"}

Removed(text, i) ==
    \E s \in 1..i : /\ Starts(text[s]) /\ text[s].key \in Static
                    /\ \A j \in (s+1)..i : ~Starts(text[j])

Staying(text, n) == {i \in 1..n : ~Removed(text, i)}

RemovalRuns == [skip : BOOLEAN, out : Seq(ManifestLine)]

RemovalLine(r, l) ==
    LET skip == IF Starts(l) THEN l.key \in Static ELSE r.skip
    IN  [skip |-> skip, out |-> IF skip THEN r.out ELSE Append(r.out, l)]

(* A start of a field decides; every other line does what the one above does. *)
LEMMA RemovedStep ==
    ASSUME NEW text, NEW i \in Nat \ {0}
    PROVE  Removed(text, i) <=> IF Starts(text[i]) THEN text[i].key \in Static ELSE Removed(text, i - 1)
<1>1. CASE Starts(text[i])
    <2>1. ASSUME Removed(text, i) PROVE text[i].key \in Static
        <3>1. PICK s \in 1..i : text[s].key \in Static /\ \A j \in (s+1)..i : ~Starts(text[j])
            BY <2>1 DEF Removed
        <3>2. s = i
            <4>1. i \notin (s+1)..i
                BY <1>1, <3>1
            <4> QED  BY <4>1
        <3> QED  BY <3>1, <3>2
    <2>2. ASSUME text[i].key \in Static PROVE Removed(text, i)
        <3>1. i \in 1..i /\ (i+1)..i = {}
            OBVIOUS
        <3> QED  BY <1>1, <2>2, <3>1 DEF Removed
    <2> QED  BY <1>1, <2>1, <2>2
<1>2. CASE ~Starts(text[i])
    <2>1. ASSUME Removed(text, i) PROVE Removed(text, i - 1)
        <3>1. PICK s \in 1..i : Starts(text[s]) /\ text[s].key \in Static /\ \A j \in (s+1)..i : ~Starts(text[j])
            BY <2>1 DEF Removed
        <3>2. s \in 1..(i-1) /\ (s+1)..(i-1) \subseteq (s+1)..i
            <4>1. s # i
                BY <1>2, <3>1
            <4> QED  BY <4>1
        <3> QED  BY <3>1, <3>2 DEF Removed
    <2>2. ASSUME Removed(text, i - 1) PROVE Removed(text, i)
        <3>1. PICK s \in 1..(i-1) : /\ Starts(text[s]) /\ text[s].key \in Static
                                    /\ \A j \in (s+1)..(i-1) : ~Starts(text[j])
            BY <2>2 DEF Removed
        <3>2. s \in 1..i /\ \A j \in (s+1)..i : j \in (s+1)..(i-1) \/ j = i
            OBVIOUS
        <3>3. \A j \in (s+1)..i : ~Starts(text[j])
            BY <1>2, <3>1, <3>2
        <3> QED  BY <3>1, <3>2, <3>3 DEF Removed
    <2> QED  BY <1>2, <2>1, <2>2
<1> QED  BY <1>1, <1>2

(* The loop of removeTopLevelFields.                                         *)
LEMMA RemovalSteps ==
    ASSUME NEW text \in Seq(ManifestLine)
    PROVE  \E r \in [0..Len(text) -> RemovalRuns] :
             /\ r[0] = [skip |-> FALSE, out |-> <<>>]
             /\ \A i \in 1..Len(text) : r[i] = RemovalLine(r[i-1], text[i])
             /\ RemoveTopLevelFields(text) = r[Len(text)].out
<1> DEFINE n == Len(text)
<1> DEFINE T == RemovalRuns
<1> DEFINE base == [skip |-> FALSE, out |-> <<>>]
<1> DEFINE step == [q \in T \X (1..n) |-> RemovalLine(q[1], text[q[2]])]
<1> DEFINE Body(h) == [s \in SUBSET DOMAIN text |->
                          IF s = {} THEN base ELSE RemovalLine(h[s \ {Max(s)}], text[Max(s)])]
<1> DEFINE g == CHOOSE h : h = Body(h)
<1>1. n \in Nat /\ DOMAIN text = 1..n
    OBVIOUS
<1>2. base \in T /\ step \in [T \X (1..n) -> T]
    <2>1. base \in T
        <3>1. <<>> \in Seq(ManifestLine)
            OBVIOUS
        <3> QED  BY <3>1 DEF RemovalRuns
    <2>2. ASSUME NEW x \in T, NEW i \in 1..n PROVE RemovalLine(x, text[i]) \in T
        <3>1. x.skip \in BOOLEAN /\ x.out \in Seq(ManifestLine) /\ Append(x.out, text[i]) \in Seq(ManifestLine)
            BY DEF RemovalRuns
        <3> DEFINE skip == IF Starts(text[i]) THEN text[i].key \in Static ELSE x.skip
        <3>2. skip \in BOOLEAN
            <4>1. CASE Starts(text[i])
                BY <4>1
            <4>2. CASE ~Starts(text[i])
                BY <3>1, <4>2
            <4> QED  BY <4>1, <4>2
        <3>3. RemovalLine(x, text[i]) = [skip |-> skip, out |-> IF skip THEN x.out ELSE Append(x.out, text[i])]
            BY DEF RemovalLine
        <3> HIDE DEF skip
        <3> QED  BY <3>1, <3>2, <3>3 DEF RemovalRuns
    <2>3. \A q \in T \X (1..n) : RemovalLine(q[1], text[q[2]]) \in T
        <3> HIDE DEF T, n
        <3> QED  BY <2>2
    <2> QED  BY <2>1, <2>3
<1>3. RemoveTopLevelFields(text) = g[1..n].out
    BY <1>1 DEF RemoveTopLevelFields, RemovalLine, Starts, FoldLeft, MapThenFoldSet
<1>4. \A x \in T, i \in 1..n : step[<<x, i>>] = RemovalLine(x, text[i])
    OBVIOUS
<1>5. g = Body(g)
    <2>1. PICK h : IsFold(h, n, T, base, step)
        <3> HIDE DEF T, n, base, step
        <3> QED  BY <1>1, <1>2, FoldExists
    <2>2. ASSUME NEW s \in SUBSET (1..n), s # {}
          PROVE  h[s] = RemovalLine(h[s \ {Max(s)}], text[Max(s)])
        <3> HIDE DEF T, n, base, step
        <3>1. Max(s) \in 1..n /\ s \ {Max(s)} \in SUBSET (1..n)
            BY <1>1, <2>2, MaxOfPositions
        <3>2. h[s \ {Max(s)}] \in T /\ h[s] = step[<<h[s \ {Max(s)}], Max(s)>>]
            BY <2>1, <2>2, <3>1 DEF IsFold
        <3> QED  BY <1>4, <3>1, <3>2
    <2>3. h \in [SUBSET (1..n) -> T] /\ h[{}] = base
        BY <2>1 DEF IsFold
    <2>4. h = Body(h)
        <3> HIDE DEF T, n, base
        <3> QED  BY <1>1, <2>2, <2>3
    <2> QED  BY <2>4
<1>6. Folds(g, n, T, base, step)
    <2>1. g[{}] = base
        <3> HIDE DEF g, T, base
        <3> QED  BY <1>5
    <2>2. ASSUME NEW i \in 1..n, g[1..(i-1)] \in T
          PROVE  g[1..i] = step[<<g[1..(i-1)], i>>]
        <3> HIDE DEF g, T, n, base, step
        <3>1. n \in Nat
            BY <1>1
        <3>2. 1..i # {} /\ 1..i \in SUBSET (1..n) /\ (1..i) \ {Max(1..i)} = 1..(i-1) /\ Max(1..i) = i
            BY <3>1, FirstPositions
        <3>3. g[1..i] = RemovalLine(g[(1..i) \ {Max(1..i)}], text[Max(1..i)])
            BY <1>1, <1>5, <3>2
        <3>4. g[1..i] = RemovalLine(g[1..(i-1)], text[i])
            BY <3>2, <3>3
        <3> QED  BY <1>4, <2>2, <3>4
    <2> QED  BY <2>1, <2>2 DEF Folds
<1>7. PICK f : IsRun(f, n, T, base, step) /\ RunOf(f, g, n)
    <2> HIDE DEF T, n, base, step, g
    <2> QED  BY <1>1, <1>2, <1>6, FoldRuns
<1>8. f[n].out = RemoveTopLevelFields(text)
    <2> HIDE DEF g, n
    <2>1. n \in 0..n
        BY <1>1
    <2> QED  BY <1>3, <1>7, <2>1 DEF RunOf
<1>9. f \in [0..n -> T] /\ f[0] = base
    BY <1>7 DEF IsRun
<1>10. ASSUME NEW i \in 1..n PROVE f[i] = RemovalLine(f[i-1], text[i])
    <2> HIDE DEF T, n, step, base, g
    <2>1. i - 1 \in 0..n
        BY <1>1
    <2>2. f[i-1] \in T /\ f[i] = step[<<f[i-1], i>>]
        BY <1>7, <2>1 DEF IsRun
    <2> QED  BY <1>4, <2>2
<1> QED  BY <1>8, <1>9, <1>10

(* Exactly the lines of static fields are removed.                           *)
LEMMA RemovalIs ==
    ASSUME NEW text \in Seq(ManifestLine)
    PROVE  RemoveTopLevelFields(text) = Lines(text, Staying(text, Len(text)))
<1> DEFINE n == Len(text)
<1>1. n \in Nat
    OBVIOUS
<1>2. PICK r \in [0..n -> RemovalRuns] :
             /\ r[0] = [skip |-> FALSE, out |-> <<>>]
             /\ \A i \in 1..n : r[i] = RemovalLine(r[i-1], text[i])
             /\ RemoveTopLevelFields(text) = r[n].out
    BY RemovalSteps
<1> DEFINE Says(i) == /\ r[i].skip <=> Removed(text, i)
                      /\ \E e : Keeps(r[i].out, text, Staying(text, i), e)
<1> DEFINE S == {i \in 0..n : Says(i)}
<1>3. 0 \in S
    <2>1. Staying(text, 0) = {} /\ ~Removed(text, 0)
        BY DEF Staying, Removed
    <2> DEFINE none == [k \in 1..0 |-> 0]
    <2>2. Keeps(<<>>, text, {}, none)
        <3>1. 1..0 = {} /\ Len(<<>>) = 0
            OBVIOUS
        <3> QED  BY <3>1 DEF Keeps, Enumerates
    <2>3. r[0].skip = FALSE /\ r[0].out = <<>> /\ 0 \in 0..n
        BY <1>1, <1>2
    <2> HIDE DEF none
    <2> QED  BY <2>1, <2>2, <2>3
<1>4. ASSUME NEW i \in 0..(n-1), i \in S PROVE i + 1 \in S
    <2>1. i + 1 \in 1..n /\ i + 1 \in 0..n /\ (i + 1) - 1 = i /\ i + 1 \in Nat \ {0} /\ i \in 0..n
        BY <1>1
    <2>2. Removed(text, i + 1) <=> IF Starts(text[i+1]) THEN text[i+1].key \in Static ELSE Removed(text, i)
        BY <2>1, RemovedStep
    <2>3. r[i+1] = RemovalLine(r[i], text[i+1]) /\ r[i] \in RemovalRuns
        BY <1>2, <2>1
    <2>4. PICK e : Keeps(r[i].out, text, Staying(text, i), e)
        BY <1>4
    <2> DEFINE skip == IF Starts(text[i+1]) THEN text[i+1].key \in Static ELSE r[i].skip
    <2>5. r[i+1].skip = skip /\ r[i+1].out = IF skip THEN r[i].out ELSE Append(r[i].out, text[i+1])
        BY <2>3 DEF RemovalLine
    <2>6. skip <=> Removed(text, i + 1)
        BY <1>4, <2>2
    <2> HIDE DEF skip
    <2>7. \A j \in 1..(i+1) : j \in 1..i \/ j = i + 1
        BY <2>1
    <2>8. CASE skip
        <3>1. Staying(text, i + 1) = Staying(text, i)
            BY <2>1, <2>6, <2>7, <2>8 DEF Staying
        <3> QED  BY <2>1, <2>4, <2>5, <2>6, <2>8, <3>1
    <2>9. CASE ~skip
        <3>1. Staying(text, i + 1) = Staying(text, i) \union {i + 1}
            BY <2>1, <2>6, <2>7, <2>9 DEF Staying
        <3>2. Staying(text, i) \in SUBSET (1..((i + 1) - 1))
            BY <2>1 DEF Staying
        <3>3. \E g : Keeps(r[i].out \o <<text[i+1]>>, text, Staying(text, i) \union {i + 1}, g)
            <4> DEFINE A == Staying(text, i)
            <4>1. i + 1 \in 1..Len(text) /\ A \in SUBSET (1..((i + 1) - 1)) /\ Keeps(r[i].out, text, A, e)
                BY <2>1, <2>4, <3>2
            <4> HIDE DEF A
            <4>2. \E g : Keeps(r[i].out \o <<text[i+1]>>, text, A \union {i + 1}, g)
                BY <4>1, KeepsMore
            <4> QED  BY <4>2 DEF A
        <3>4. Append(r[i].out, text[i+1]) = r[i].out \o <<text[i+1]>>
            <4>1. r[i].out \in Seq(ManifestLine) /\ text[i+1] \in ManifestLine
                BY <2>1, <2>3 DEF RemovalRuns
            <4> QED  BY <4>1, AppendJoins
        <3> QED  BY <2>1, <2>5, <2>6, <2>9, <3>1, <3>3, <3>4
    <2> QED  BY <2>8, <2>9
<1>5. n \in S
    <2> HIDE DEF n, S, Says
    <2>1. 0..n \subseteq S
        BY <1>1, <1>3, <1>4, SetInduction
    <2>2. n \in 0..n
        BY <1>1
    <2> QED  BY <2>1, <2>2
<1> DEFINE A == Staying(text, n)
<1>6. PICK e : Keeps(r[n].out, text, A, e)
    BY <1>5
<1>7. A \in SUBSET (1..Len(text)) /\ A \in SUBSET Nat
    BY <1>1 DEF Staying
<1>8. PICK e2 : Keeps(Lines(text, A), text, A, e2)
    <2> HIDE DEF A
    <2> QED  BY <1>7, LinesKeeps
<1> HIDE DEF A, S
<1>9. r[n].out = Lines(text, A)
    BY <1>6, <1>7, <1>8, KeepsOnce
<1> QED  BY <1>2, <1>9 DEF A

(* A line that is a static field or in the mapping of one.                    *)
StaticLine(text, i) == (IF text[i].ind = 0 THEN text[i].key ELSE text[Owner(text, i)].key) \in Static

(* The lines of a rendering that Residue keeps.                              *)
Rest(text, yes) == {i \in Shown(text, yes) : ~StaticLine(text, i)}

LEMMA ResidueIs ==
    ASSUME NEW text, NEW yes
    PROVE  Residue(text, yes) =
             [k \in DOMAIN Lines(text, Rest(text, yes)) |->
                <<Lines(text, Rest(text, yes))[k].key, Lines(text, Rest(text, yes))[k].val,
                  Lines(text, Rest(text, yes))[k].ind>>]
BY DEF Residue, Rest, StaticLine

LEMMA OwnerIs ==
    ASSUME NEW text \in Seq(ManifestLine), NEW i \in 1..Len(text), text[i].ind # 0
    PROVE  LET above == {j \in 1..(i-1) : HasKey(text[j]) /\ text[j].ind = 0}
           IN  /\ above = {} => Owner(text, i) = 0
               /\ above # {} => Owner(text, i) \in above /\ \A j \in above : j <= Owner(text, i)
<1> DEFINE above == {j \in 1..(i-1) : HasKey(text[j]) /\ text[j].ind = 0}
<1>1. Owner(text, i) = IF above = {} THEN 0 ELSE Max(above)
    BY DEF Owner
<1>2. i - 1 \in Nat /\ above \in SUBSET (1..(i-1))
    OBVIOUS
<1> HIDE DEF above
<1>3. above # {} => Max(above) \in above /\ \A x \in above : x <= Max(above)
    BY <1>2, MaxOfPositions
<1>4. /\ above = {} => Owner(text, i) = 0
      /\ above # {} => Owner(text, i) \in above /\ \A j \in above : j <= Owner(text, i)
    BY <1>1, <1>3
<1> QED  BY <1>4 DEF above

(* The lines outside K show nothing but static fields, and no line in K is in *)
(* a mapping outside.                                                       *)
CanRemove(text, K) ==
    /\ K \subseteq 1..Len(text)
    /\ \A i \in 1..Len(text) : i \notin K =>
         text[i].kind \notin {"control", "around", "tail"} /\ (HasKey(text[i]) => StaticLine(text, i))
    /\ \A i \in 1..Len(text) : HasKey(text[i]) /\ text[i].ind = 1 =>
         Owner(text, i) \in 1..(i-1) /\ (i \in K => Owner(text, i) \in K)

(* What is kept is of the same top-level fields.                             *)
LEMMA KeptOwners ==
    ASSUME NEW text \in Seq(ManifestLine), NEW K, CanRemove(text, K), NEW d, NEW e, Keeps(d, text, K, e),
           NEW k \in 1..Len(d), HasKey(d[k])
    PROVE  StaticLine(d, k) <=> StaticLine(text, e[k])
<1>1. /\ d \in Seq(ManifestLine) /\ \A j \in 1..Len(d) : e[j] \in K /\ e[j] \in 1..Len(text) /\ d[j] = text[e[j]]
      /\ \A j, l \in 1..Len(d) : j < l => e[j] < e[l]
      /\ \A a \in K : \E j \in 1..Len(d) : e[j] = a
    BY DEF Keeps, Enumerates, CanRemove
<1>2. d[k] \in ManifestLine
    BY <1>1
<1>3. CASE d[k].ind = 0
    BY <1>1, <1>3 DEF StaticLine
<1>4. CASE d[k].ind # 0
    <2> DEFINE i == e[k]
    <2> DEFINE o == Owner(text, i)
    <2>1. i \in 1..Len(text) /\ i \in K /\ text[i] = d[k] /\ text[i].ind = 1
        BY <1>1, <1>2, <1>4 DEF ManifestLine
    <2>2. o \in 1..(i-1) /\ o \in K
        BY <2>1 DEF CanRemove
    <2>3. /\ HasKey(text[o]) /\ text[o].ind = 0
          /\ \A j \in 1..(i-1) : HasKey(text[j]) /\ text[j].ind = 0 => j <= o
        <3> HIDE DEF i
        <3> DEFINE above == {j \in 1..(i-1) : HasKey(text[j]) /\ text[j].ind = 0}
        <3>1. /\ above = {} => o = 0
              /\ above # {} => o \in above /\ \A j \in above : j <= o
            BY <2>1, OwnerIs
        <3>2. o # 0
            BY <2>1, <2>2
        <3> HIDE DEF o
        <3> QED  BY <3>1, <3>2
    <2>4. PICK m \in 1..Len(d) : e[m] = o
        BY <1>1, <2>2
    <2>5. m < k
        <3>1. ~(k < m) /\ k # m
            BY <1>1, <2>1, <2>2, <2>4
        <3> QED  BY <3>1
    <2> DEFINE q == Owner(d, k)
    <2>6. q \in 1..(k-1) /\ HasKey(d[q]) /\ d[q].ind = 0 /\ m <= q
        <3> DEFINE above == {j \in 1..(k-1) : HasKey(d[j]) /\ d[j].ind = 0}
        <3>1. above # {} => q \in above /\ \A j \in above : j <= q
            BY <1>1, <1>4, OwnerIs
        <3>2. m \in above
            BY <1>1, <2>3, <2>4, <2>5
        <3> HIDE DEF q
        <3> QED  BY <3>1, <3>2
    <2> HIDE DEF q, o, i
    <2>7. q \in 1..Len(d) /\ q < k
        BY <2>6
    <2>8. e[q] < i /\ e[q] \in 1..Len(text) /\ d[q] = text[e[q]]
        BY <1>1, <2>7 DEF i
    <2>9. e[q] <= o
        BY <2>1, <2>3, <2>6, <2>8
    <2>10. q = m
        <3>1. ~(m < q)
            <4> SUFFICES ASSUME m < q PROVE FALSE
                OBVIOUS
            <4>1. e[m] < e[q]
                BY <1>1, <2>7
            <4> QED  BY <2>1, <2>2, <2>4, <2>8, <2>9, <4>1
        <3> QED  BY <2>6, <3>1
    <2>11. d[q].key = text[o].key
        BY <2>4, <2>8, <2>10
    <2> QED  BY <1>4, <2>1, <2>11 DEF StaticLine, q, o, i
<1> QED  BY <1>3, <1>4

(* The same actions stand before a line that is kept.                         *)
LEMMA KeptStacks ==
    ASSUME NEW text \in Seq(ManifestLine), NEW K, CanRemove(text, K), NEW d, NEW e, Keeps(d, text, K, e),
           NEW yes, NEW sh, IsShownRun(sh, text, yes), NEW sx, IsShownRun(sx, d, yes)
    PROVE  \A k \in 1..Len(d) : sx[k-1].stack = sh[e[k]-1].stack
<1> DEFINE n == Len(text)
<1> DEFINE m == Len(d)
<1>1. n \in Nat /\ m \in Nat
    BY DEF Keeps
<1>2. /\ \A j \in 1..m : e[j] \in K /\ e[j] \in 1..n /\ d[j] = text[e[j]]
      /\ \A j, l \in 1..m : j < l => e[j] < e[l]
      /\ \A a \in K : \E j \in 1..m : e[j] = a
    BY DEF Keeps, Enumerates, CanRemove
<1>3. /\ sx[0].stack = <<>> /\ sh[0].stack = <<>>
      /\ \A j \in 1..m : sx[j].stack =
           IF d[j].kind \in {"control", "tail"} THEN Branch(sx[j-1].stack, d[j].act, yes) ELSE sx[j-1].stack
      /\ \A i \in 1..n : sh[i].stack =
           IF text[i].kind \in {"control", "tail"} THEN Branch(sh[i-1].stack, text[i].act, yes) ELSE sh[i-1].stack
    <2>1. sx[0].stack = <<>> /\ sh[0].stack = <<>>
        BY DEF IsShownRun
    <2>2. \A j \in 1..m : sx[j] = ShownLine(sx[j-1], d, j, yes)
        BY DEF IsShownRun
    <2>3. \A i \in 1..n : sh[i] = ShownLine(sh[i-1], text, i, yes)
        BY DEF IsShownRun
    <2> HIDE DEF m, n
    <2>4. ASSUME NEW j \in 1..m
          PROVE  sx[j].stack =
                   IF d[j].kind \in {"control", "tail"} THEN Branch(sx[j-1].stack, d[j].act, yes) ELSE sx[j-1].stack
        <3>1. sx[j] = ShownLine(sx[j-1], d, j, yes)
            BY <2>2
        <3> QED  BY <3>1 DEF ShownLine
    <2>5. ASSUME NEW i \in 1..n
          PROVE  sh[i].stack =
                   IF text[i].kind \in {"control", "tail"} THEN Branch(sh[i-1].stack, text[i].act, yes) ELSE sh[i-1].stack
        <3>1. sh[i] = ShownLine(sh[i-1], text, i, yes)
            BY <2>3
        <3> QED  BY <3>1 DEF ShownLine
    <2> QED  BY <2>1, <2>4, <2>5
<1>4. \A i \in 1..n : i \notin K => text[i].kind \notin {"control", "tail"}
    BY DEF CanRemove
<1> HIDE DEF n, m
<1> DEFINE At(k, i) == (k = 0 \/ e[k] <= i) /\ (k = m \/ i < e[k+1])
<1> DEFINE S == {i \in 0..n : \A k \in 0..m : At(k, i) => sx[k].stack = sh[i].stack}
<1>5. 0 \in S
    <2>1. ASSUME NEW k \in 0..m, At(k, 0) PROVE k = 0
        <3> SUFFICES ASSUME k # 0 PROVE FALSE
            OBVIOUS
        <3>1. k \in 1..m /\ e[k] <= 0
            BY <1>1, <2>1
        <3> QED  BY <1>1, <1>2, <3>1
    <2> HIDE DEF At
    <2> QED  BY <1>1, <1>3, <2>1
<1>6. ASSUME NEW i \in 0..(n-1), i \in S PROVE i + 1 \in S
    <2>1. i + 1 \in 1..n /\ i + 1 \in 0..n /\ (i + 1) - 1 = i
        BY <1>1
    <2> SUFFICES ASSUME NEW k \in 0..m, At(k, i + 1) PROVE sx[k].stack = sh[i+1].stack
        BY <2>1
    <2>2. CASE i + 1 \in K
        <3>1. PICK j \in 1..m : e[j] = i + 1
            BY <1>2, <2>2
        <3>2. k = j
            <4>1. ~(k < j)
                <5> SUFFICES ASSUME k < j PROVE FALSE
                    OBVIOUS
                <5>1. k + 1 \in 1..m /\ k # m /\ (k + 1 = j \/ k + 1 < j)
                    BY <1>1, <3>1
                <5>2. i + 1 < e[k+1]
                    BY <5>1
                <5>3. e[k+1] = e[j] \/ e[k+1] < e[j]
                    BY <1>2, <3>1, <5>1
                <5>4. e[k+1] \in 1..n
                    BY <1>2, <5>1
                <5> QED  BY <1>1, <3>1, <5>2, <5>3, <5>4
            <4>2. ~(j < k)
                <5> SUFFICES ASSUME j < k PROVE FALSE
                    OBVIOUS
                <5>1. k \in 1..m /\ k # 0
                    BY <1>1, <3>1
                <5>2. e[k] <= i + 1 /\ e[j] < e[k] /\ e[k] \in 1..n
                    BY <1>2, <3>1, <5>1
                <5> QED  BY <1>1, <3>1, <5>2
            <4> QED  BY <1>1, <3>1, <4>1, <4>2
        <3>3. k \in 1..m /\ k - 1 \in 0..m /\ (k - 1) + 1 = k /\ e[k] = i + 1 /\ d[k] = text[i+1]
            BY <1>1, <1>2, <3>1, <3>2
        <3>4. At(k - 1, i)
            <4>1. k - 1 = 0 \/ (k - 1 \in 1..m /\ k - 1 < k)
                BY <1>1, <3>3
            <4>2. k - 1 = 0 \/ e[k-1] <= i
                <5> SUFFICES ASSUME k - 1 # 0 PROVE e[k-1] <= i
                    OBVIOUS
                <5>1. e[k-1] < e[k] /\ e[k-1] \in 1..n
                    BY <1>2, <3>3, <4>1
                <5> QED  BY <1>1, <3>3, <5>1
            <4>3. i < e[(k-1)+1]
                BY <1>1, <3>3
            <4> QED  BY <4>2, <4>3
        <3>5. sx[k-1].stack = sh[i].stack
            <4> HIDE DEF At
            <4> QED  BY <1>6, <3>3, <3>4
        <3> HIDE DEF S, At
        <3> QED  BY <1>3, <2>1, <3>3, <3>5
    <2>3. CASE i + 1 \notin K
        <3>1. sh[i+1].stack = sh[i].stack
            <4>1. text[i+1].kind \notin {"control", "tail"}
                BY <1>4, <2>1, <2>3
            <4> QED  BY <1>3, <2>1, <4>1
        <3>2. At(k, i)
            <4>1. k = 0 \/ e[k] <= i
                <5> SUFFICES ASSUME k # 0 PROVE e[k] <= i
                    OBVIOUS
                <5>1. k \in 1..m /\ e[k] <= i + 1
                    BY <1>1
                <5>2. e[k] \in K /\ e[k] \in 1..n
                    BY <1>2, <5>1
                <5>3. e[k] # i + 1
                    BY <2>3, <5>2
                <5> QED  BY <1>1, <5>1, <5>2, <5>3
            <4>2. k = m \/ i < e[k+1]
                <5> SUFFICES ASSUME k # m PROVE i < e[k+1]
                    OBVIOUS
                <5>1. i + 1 < e[k+1] /\ k + 1 \in 1..m
                    BY <1>1
                <5>2. e[k+1] \in 1..n
                    BY <1>2, <5>1
                <5> QED  BY <1>1, <5>1, <5>2
            <4> QED  BY <4>1, <4>2
        <3> HIDE DEF At
        <3> QED  BY <1>6, <3>1, <3>2
    <2> QED  BY <2>2, <2>3
<1>7. 0..n \subseteq S
    <2> HIDE DEF S
    <2> QED  BY <1>1, <1>5, <1>6, SetInduction
<1>8. ASSUME NEW k \in 1..m PROVE sx[k-1].stack = sh[e[k]-1].stack
    <2>1. e[k] \in 1..n /\ e[k] - 1 \in 0..n /\ k - 1 \in 0..m /\ (k - 1) + 1 = k
        BY <1>1, <1>2
    <2>2. At(k - 1, e[k] - 1)
        <3>1. k - 1 = 0 \/ (k - 1 \in 1..m /\ k - 1 < k)
            BY <1>1
        <3>2. k - 1 = 0 \/ e[k-1] <= e[k] - 1
            <4> SUFFICES ASSUME k - 1 # 0 PROVE e[k-1] <= e[k] - 1
                OBVIOUS
            <4>1. e[k-1] < e[k] /\ e[k-1] \in 1..n
                BY <1>2, <3>1
            <4> QED  BY <1>1, <2>1, <4>1
        <3>3. e[k] - 1 < e[(k-1)+1]
            BY <1>1, <2>1
        <3> QED  BY <3>2, <3>3
    <2>3. e[k] - 1 \in S
        BY <1>7, <2>1
    <2> HIDE DEF At
    <2> QED  BY <2>1, <2>2, <2>3
<1> QED  BY <1>8 DEF m

(* What is shown are lines with keys.                                        *)
LEMMA ShownHaveKeys ==
    ASSUME NEW text \in Seq(ManifestLine), NEW yes, NEW i \in Shown(text, yes)
    PROVE  i \in 1..Len(text) /\ HasKey(text[i])
<1>1. PICK sh : IsShownRun(sh, text, yes)
    BY ShownSteps
<1>2. i \in 1..Len(text)
    <2>1. Len(text) \in 0..Len(text)
        OBVIOUS
    <2>2. sh[Len(text)] \in Views(Len(text)) /\ Shown(text, yes) = sh[Len(text)].seen
        BY <1>1, <2>1 DEF IsShownRun
    <2> QED  BY <2>2 DEF Views
<1> QED  BY <1>1, <1>2, SeenOnce DEF Own

(* Such lines can be left out.                                               *)
LEMMA KeptResidue ==
    ASSUME NEW text \in Seq(ManifestLine), NEW K, CanRemove(text, K), NEW d, NEW e, Keeps(d, text, K, e), NEW yes
    PROVE  Residue(d, yes) = Residue(text, yes)
<1> DEFINE A == Rest(d, yes)
<1> DEFINE B == Rest(text, yes)
<1>1. /\ d \in Seq(ManifestLine) /\ \A j \in 1..Len(d) : e[j] \in K /\ e[j] \in 1..Len(text) /\ d[j] = text[e[j]]
      /\ \A j, l \in 1..Len(d) : j < l => e[j] < e[l]
      /\ \A a \in K : \E j \in 1..Len(d) : e[j] = a
    BY DEF Keeps, Enumerates, CanRemove
<1>0. Len(d) \in Nat /\ Len(text) \in Nat
    BY <1>1
<1>2. PICK sh : IsShownRun(sh, text, yes)
    BY ShownSteps
<1>3. PICK sx : IsShownRun(sx, d, yes)
    BY <1>1, ShownSteps
<1>4. ASSUME NEW k \in 1..Len(d) PROVE k \in A <=> e[k] \in B
    <2>1. k \in Shown(d, yes) <=> Own(sx[k-1].stack, d[k], yes)
        BY <1>1, <1>3, SeenOnce
    <2>2. e[k] \in Shown(text, yes) <=> Own(sh[e[k]-1].stack, text[e[k]], yes)
        BY <1>1, <1>2, SeenOnce
    <2>3. sx[k-1].stack = sh[e[k]-1].stack
        BY <1>2, <1>3, KeptStacks
    <2>4. k \in Shown(d, yes) <=> e[k] \in Shown(text, yes)
        BY <1>1, <2>1, <2>2, <2>3
    <2>5. k \in Shown(d, yes) => (StaticLine(d, k) <=> StaticLine(text, e[k]))
        <3>1. k \in Shown(d, yes) => HasKey(d[k])
            BY <1>1, ShownHaveKeys
        <3> QED  BY <3>1, KeptOwners
    <2> QED  BY <2>4, <2>5 DEF Rest
<1>5. A \subseteq 1..Len(d) /\ A \in SUBSET Nat
    <2>1. A \subseteq 1..Len(d)
        BY <1>1, ShownHaveKeys DEF Rest
    <2> QED  BY <1>0, <2>1
<1>6. B \subseteq 1..Len(text) /\ B \subseteq K /\ B \in SUBSET Nat
    <2>1. B \subseteq 1..Len(text) /\ \A i \in B : HasKey(text[i]) /\ ~StaticLine(text, i)
        BY ShownHaveKeys DEF Rest
    <2>2. B \subseteq K
        BY <2>1 DEF CanRemove
    <2> HIDE DEF B
    <2> QED  BY <1>0, <2>1, <2>2
<1>7. PICK e1 : Keeps(Lines(d, A), d, A, e1)
    <2> HIDE DEF A
    <2> QED  BY <1>1, <1>5, LinesKeeps
<1>8. PICK e2 : Keeps(Lines(text, B), text, B, e2)
    <2> HIDE DEF B
    <2> QED  BY <1>6, LinesKeeps
<1> DEFINE x == Lines(d, A)
<1> DEFINE y == Lines(text, B)
<1> DEFINE f == [a \in A |-> e[a]]
<1>9. x = y
    <2> HIDE DEF x, y, A, B
    <2>1. f \in [A -> B] /\ \A a \in A : text[f[a]] = d[a]
        <3>1. \A a \in A : e[a] \in B /\ text[e[a]] = d[a]
            BY <1>1, <1>4, <1>5
        <3> QED  BY <3>1
    <2>2. \A a, b \in A : a < b => f[a] < f[b]
        <3>1. \A a, b \in A : a < b => e[a] < e[b]
            BY <1>1, <1>5
        <3> QED  BY <3>1
    <2>3. \A b \in B : \E a \in A : f[a] = b
        <3> SUFFICES ASSUME NEW b \in B PROVE \E a \in A : f[a] = b
            OBVIOUS
        <3>1. b \in K
            BY <1>6
        <3>2. PICK k \in 1..Len(d) : e[k] = b
            BY <1>1, <3>1
        <3>3. k \in A
            BY <1>4, <3>2
        <3> QED  BY <3>2, <3>3
    <2> HIDE DEF f
    <2>4. Keeps(x, d, A, e1) /\ Keeps(y, text, B, e2)
        BY <1>7, <1>8 DEF x, y
    <2>5. A \in SUBSET Nat /\ B \in SUBSET Nat
        BY <1>5, <1>6
    <2> QED  BY <2>1, <2>2, <2>3, <2>4, <2>5, SameLines, SMTT(60)
<1> HIDE DEF A, B
<1> QED  BY <1>9, ResidueIs DEF A, B

LEMMA StartsIs ==
    ASSUME NEW l
    PROVE  Starts(l) <=> HasKey(l) /\ l.ind = 0 /\ l.kind \in {"field", "tail"}
<1>1. Starts(l) => HasKey(l) /\ l.ind = 0 /\ l.kind \in {"field", "tail"}
    BY Zenon DEF Starts, HasKey
<1>2. HasKey(l) /\ l.ind = 0 /\ l.kind \in {"field", "tail"} => Starts(l)
    BY Zenon DEF Starts, HasKey
<1> QED  BY <1>1, <1>2

LEMMA KeyKinds ==
    ASSUME NEW l, HasKey(l)
    PROVE  l.kind = "field" \/ l.kind = "around" \/ l.kind = "tail"
BY Zenon DEF HasKey

(* Where lines are in mappings, as YAML has it.                              *)
Nested(text) ==
    \A i \in 1..Len(text) : HasKey(text[i]) /\ text[i].ind = 1 =>
      /\ Owner(text, i) \in 1..(i-1) /\ Owner(text, i) \in 1..Len(text)
      /\ HasKey(text[Owner(text, i)]) /\ text[Owner(text, i)].ind = 0
      /\ \A j \in 1..(i-1) : HasKey(text[j]) /\ text[j].ind = 0 => j <= Owner(text, i)

LEMMA ParsesNested ==
    ASSUME NEW text \in Seq(ManifestLine), Parses(text)
    PROVE  Nested(text)
<1> SUFFICES ASSUME NEW i \in 1..Len(text), HasKey(text[i]), text[i].ind = 1
             PROVE  /\ Owner(text, i) \in 1..(i-1) /\ Owner(text, i) \in 1..Len(text)
                    /\ HasKey(text[Owner(text, i)]) /\ text[Owner(text, i)].ind = 0
                    /\ \A j \in 1..(i-1) : HasKey(text[j]) /\ text[j].ind = 0 => j <= Owner(text, i)
    BY DEF Nested
<1> DEFINE o == Owner(text, i)
<1> DEFINE above == {j \in 1..(i-1) : HasKey(text[j]) /\ text[j].ind = 0}
<1>1. o # 0
    BY DEF Parses
<1>2. /\ above = {} => o = 0
      /\ above # {} => o \in above /\ \A j \in above : j <= o
    BY OwnerIs
<1>3. o \in above /\ \A j \in above : j <= o
    <2> HIDE DEF o, above
    <2> QED  BY <1>1, <1>2
<1>4. o \in 1..(i-1) /\ HasKey(text[o]) /\ text[o].ind = 0
      /\ \A j \in 1..(i-1) : HasKey(text[j]) /\ text[j].ind = 0 => j <= o
    <2> HIDE DEF o
    <2> QED  BY <1>3
<1>5. o \in 1..Len(text)
    <2> HIDE DEF o
    <2> QED  BY <1>4
<1> QED  BY <1>4, <1>5

(* The lines that removeTopLevelFields leaves out can be, unless one has an    *)
(* action: the line of a key is in the field above it, wherever it is.        *)
LEMMA RemovalAllowed ==
    ASSUME NEW text \in Seq(ManifestLine), Parses(text), ~Swallows(text)
    PROVE  CanRemove(text, Staying(text, Len(text)))
<1> DEFINE n == Len(text)
<1>1. Nested(text) /\ n \in Nat /\ DOMAIN text = 1..n
    BY ParsesNested
<1>2. ASSUME NEW i \in 1..n, Removed(text, i) PROVE text[i].kind \notin {"control", "around", "tail"}
    <2> SUFFICES ASSUME text[i].kind \in {"control", "around", "tail"} PROVE Swallows(text)
        OBVIOUS
    <2>1. PICK s \in 1..i : Starts(text[s]) /\ text[s].key \in Static /\ \A j \in (s+1)..i : ~Starts(text[j])
        BY <1>2 DEF Removed
    <2>2. s \in DOMAIN text /\ i \in s..Len(text)
        BY <1>1
    <2>3. text[s].ind = 0 /\ text[s].kind \in {"field", "tail"}
        BY <2>1 DEF Starts
    <2>4. \A j \in s+1..i : ~(text[j].ind = 0 /\ text[j].key # "" /\ text[j].kind \in {"field", "tail"}
                             /\ text[j].key \notin Static)
        BY <2>1, Zenon DEF Starts
    <2> QED  BY <2>1, <2>2, <2>3, <2>4, Zenon DEF Swallows
<1>3. ASSUME NEW i \in 1..n, HasKey(text[i]), text[i].ind = 0, Removed(text, i)
      PROVE  text[i].key \in Static
    <2>1. text[i].kind \in {"field", "tail"}
        BY <1>2, <1>3, KeyKinds
    <2>2. Starts(text[i])
        BY <1>3, <2>1, StartsIs
    <2>3. i \in Nat \ {0}
        BY <1>1
    <2> QED  BY <1>3, <2>2, <2>3, RemovedStep
<1>4. ASSUME NEW i \in 1..n, HasKey(text[i]), text[i].ind = 1
      PROVE  Removed(text, i) <=> Removed(text, Owner(text, i))
    <2> DEFINE o == Owner(text, i)
    <2>1. /\ o \in 1..(i-1) /\ o \in 1..n /\ HasKey(text[o]) /\ text[o].ind = 0
          /\ \A j \in 1..(i-1) : HasKey(text[j]) /\ text[j].ind = 0 => j <= o
        BY <1>1, <1>4 DEF Nested
    <2> HIDE DEF o
    <2>2. \A j \in (o+1)..i : ~Starts(text[j])
        <3> SUFFICES ASSUME NEW j \in (o+1)..i, Starts(text[j]) PROVE FALSE
            OBVIOUS
        <3>1. HasKey(text[j]) /\ text[j].ind = 0
            BY StartsIs
        <3>2. j # i
            BY <1>4, <3>1
        <3>3. j \in 1..(i-1) /\ ~(j <= o)
            BY <1>1, <2>1, <3>2
        <3> QED  BY <2>1, <3>1, <3>3
    <2>3. ASSUME Removed(text, o) PROVE Removed(text, i)
        <3>1. PICK s \in 1..o : Starts(text[s]) /\ text[s].key \in Static /\ \A j \in (s+1)..o : ~Starts(text[j])
            BY <2>3 DEF Removed
        <3>2. s \in 1..i /\ \A j \in (s+1)..i : j \in (s+1)..o \/ j \in (o+1)..i
            BY <1>1, <2>1
        <3>3. \A j \in (s+1)..i : ~Starts(text[j])
            BY <2>2, <3>1, <3>2
        <3> QED  BY <3>1, <3>2, <3>3 DEF Removed
    <2>4. ASSUME Removed(text, i) PROVE Removed(text, o)
        <3>1. PICK s \in 1..i : Starts(text[s]) /\ text[s].key \in Static /\ \A j \in (s+1)..i : ~Starts(text[j])
            BY <2>4 DEF Removed
        <3>2. s \in 1..o /\ (s+1)..o \subseteq (s+1)..i
            <4>1. s \notin (o+1)..i
                BY <2>2, <3>1
            <4> QED  BY <1>1, <2>1, <4>1
        <3> QED  BY <3>1, <3>2 DEF Removed
    <2> QED  BY <2>3, <2>4 DEF o
<1>5. ASSUME NEW i \in 1..n, HasKey(text[i]), Removed(text, i) PROVE StaticLine(text, i)
    <2>1. text[i] \in ManifestLine
        OBVIOUS
    <2>2. text[i].ind \in {0, 1}
        BY <2>1 DEF ManifestLine
    <2>3. CASE text[i].ind = 0
        BY <1>3, <1>5, <2>3 DEF StaticLine
    <2>4. CASE text[i].ind = 1
        <3>1. Owner(text, i) \in 1..n /\ HasKey(text[Owner(text, i)]) /\ text[Owner(text, i)].ind = 0
            BY <1>1, <1>5, <2>4 DEF Nested
        <3>2. Removed(text, Owner(text, i))
            BY <1>4, <1>5, <2>4
        <3>3. text[Owner(text, i)].key \in Static
            BY <1>3, <3>1, <3>2
        <3> QED  BY <2>4, <3>3 DEF StaticLine
    <2> QED  BY <2>2, <2>3, <2>4
<1>6. ASSUME NEW i \in 1..n, HasKey(text[i]), text[i].ind = 1
      PROVE  /\ Owner(text, i) \in 1..(i-1) /\ Owner(text, i) \in 1..n
             /\ ~Removed(text, i) => ~Removed(text, Owner(text, i))
    BY <1>1, <1>4, <1>6 DEF Nested
<1> HIDE DEF n
<1>7. \A i \in 1..n : i \in Staying(text, n) <=> ~Removed(text, i)
    BY DEF Staying
<1>8. Staying(text, n) \subseteq 1..n
    BY DEF Staying
<1> QED  BY <1>2, <1>5, <1>6, <1>7, <1>8 DEF CanRemove, n

(* The same lines apart from values are of the same fields.                  *)
LEMMA SameOwners ==
    ASSUME NEW text \in Seq(ManifestLine), NEW d, SameShape(d, text)
    PROVE  \A i \in 1..Len(text) : /\ HasKey(d[i]) <=> HasKey(text[i])
                                   /\ Owner(d, i) = Owner(text, i)
                                   /\ Owner(text, i) \in 1..Len(text) \/ text[i].ind = 0 =>
                                        (StaticLine(d, i) <=> StaticLine(text, i))
<1>1. \A i \in 1..Len(text) : d[i].ind = text[i].ind /\ d[i].key = text[i].key /\ d[i].kind = text[i].kind
    BY DEF SameShape
<1>2. \A i \in 1..Len(text) : HasKey(d[i]) <=> HasKey(text[i])
    BY <1>1, Zenon DEF HasKey
<1>3. ASSUME NEW i \in 1..Len(text) PROVE Owner(d, i) = Owner(text, i)
    <2>1. {j \in 1..(i-1) : HasKey(d[j]) /\ d[j].ind = 0} = {j \in 1..(i-1) : HasKey(text[j]) /\ text[j].ind = 0}
        <3>1. \A j \in 1..(i-1) : j \in 1..Len(text)
            OBVIOUS
        <3> QED  BY <1>1, <1>2, <3>1
    <2> QED  BY <1>1, <2>1 DEF Owner
<1> QED  BY <1>1, <1>2, <1>3 DEF StaticLine

(* Lines can be left out with or without the digests of images.              *)
LEMMA PinnedRemoval ==
    ASSUME NEW text \in Seq(ManifestLine), NEW K, CanRemove(text, K)
    PROVE  CanRemove(Pinned(text), K)
<1> DEFINE d == Pinned(text)
<1>1. SameShape(d, text)
    BY PinnedShape
<1> HIDE DEF d
<1>2. \A i \in 1..Len(text) : /\ HasKey(d[i]) <=> HasKey(text[i])
                              /\ Owner(d, i) = Owner(text, i)
                              /\ Owner(text, i) \in 1..Len(text) \/ text[i].ind = 0 =>
                                   (StaticLine(d, i) <=> StaticLine(text, i))
    BY <1>1, SameOwners
<1>3. Len(d) = Len(text) /\ \A i \in 1..Len(text) : d[i].ind = text[i].ind /\ d[i].kind = text[i].kind
    BY <1>1 DEF SameShape
<1>4. ASSUME NEW i \in 1..Len(text), HasKey(text[i]) PROVE StaticLine(d, i) <=> StaticLine(text, i)
    <2>1. text[i] \in ManifestLine
        OBVIOUS
    <2>2. text[i].ind = 0 \/ text[i].ind = 1
        BY <2>1 DEF ManifestLine
    <2>3. text[i].ind = 1 => Owner(text, i) \in 1..Len(text)
        BY <1>4 DEF CanRemove
    <2> QED  BY <1>2, <2>2, <2>3
<1>5. CanRemove(d, K)
    BY <1>2, <1>3, <1>4 DEF CanRemove
<1> QED  BY <1>5 DEF d

(* LPK v2: the template without its static fields renders to the rest.       *)
LEMMA RemovalResidue ==
    ASSUME NEW text \in Seq(ManifestLine), Parses(text), ~Swallows(text), NEW yes
    PROVE  /\ Residue(RemoveTopLevelFields(text), yes) = Residue(text, yes)
           /\ Residue(Pinned(RemoveTopLevelFields(text)), yes) = Residue(Pinned(text), yes)
<1> DEFINE K == Staying(text, Len(text))
<1> DEFINE p == Pinned(text)
<1>1. CanRemove(text, K)
    BY RemovalAllowed
<1>2. RemoveTopLevelFields(text) = Lines(text, K)
    BY RemovalIs
<1> HIDE DEF K
<1>3. K \in SUBSET (1..Len(text))
    BY <1>1 DEF CanRemove
<1>4. PICK e : Keeps(Lines(text, K), text, K, e)
    BY <1>3, LinesKeeps
<1>5. p \in Seq(ManifestLine) /\ Len(p) = Len(text)
    BY PinnedShape DEF SameShape
<1>6. CanRemove(p, K) /\ Lines(p, K) = Pinned(Lines(text, K))
    BY <1>1, <1>3, PinnedRemoval, PinnedLines
<1> HIDE DEF p
<1>7. PICK g : Keeps(Lines(p, K), p, K, g)
    BY <1>3, <1>5, LinesKeeps
<1>8. Residue(Lines(text, K), yes) = Residue(text, yes)
    BY <1>1, <1>4, KeptResidue
<1>9. Residue(Lines(p, K), yes) = Residue(p, yes)
    BY <1>5, <1>6, <1>7, KeptResidue
<1> QED  BY <1>2, <1>6, <1>8, <1>9 DEF p

(* Another value of a static field is seen by no rendering of the rest.        *)
LEMMA ShapeResidue ==
    ASSUME NEW text \in Seq(ManifestLine), Nested(text), NEW d, SameShape(d, text), NEW yes,
           \A i \in 1..Len(text) : text[i].kind \in {"control", "tail"} => d[i].act = text[i].act,
           \A i \in 1..Len(text) : ~StaticLine(text, i) => d[i].val = text[i].val
    PROVE  Residue(d, yes) = Residue(text, yes)
<1> DEFINE n == Len(text)
<1> DEFINE B == Rest(text, yes)
<1>1. /\ d \in Seq(ManifestLine) /\ Len(d) = n /\ n \in Nat
      /\ \A i \in 1..n : d[i].ind = text[i].ind /\ d[i].key = text[i].key /\ d[i].kind = text[i].kind
    BY DEF SameShape
<1>2. \A i \in 1..n : /\ HasKey(d[i]) <=> HasKey(text[i])
                      /\ Owner(text, i) \in 1..n \/ text[i].ind = 0 => (StaticLine(d, i) <=> StaticLine(text, i))
    BY SameOwners
<1>3. PICK sh : IsShownRun(sh, text, yes)
    BY ShownSteps
<1>4. PICK sx : IsShownRun(sx, d, yes)
    BY <1>1, ShownSteps
<1>5. \A i \in 0..n : sx[i].stack = sh[i].stack
    <2> DEFINE S == {i \in 0..n : sx[i].stack = sh[i].stack}
    <2>1. 0 \in S
        <3>1. sx[0].stack = <<>> /\ sh[0].stack = <<>>
            BY <1>3, <1>4 DEF IsShownRun
        <3> QED  BY <1>1, <3>1
    <2>2. ASSUME NEW i \in 0..(n-1), i \in S PROVE i + 1 \in S
        <3>1. i + 1 \in 1..n /\ i + 1 \in 0..n /\ (i + 1) - 1 = i
            BY <1>1
        <3>2. sx[i+1] = ShownLine(sx[i], d, i + 1, yes) /\ sh[i+1] = ShownLine(sh[i], text, i + 1, yes)
            BY <1>1, <1>3, <1>4, <3>1 DEF IsShownRun
        <3>3. /\ sx[i+1].stack = IF d[i+1].kind \in {"control", "tail"} THEN Branch(sx[i].stack, d[i+1].act, yes)
                                 ELSE sx[i].stack
              /\ sh[i+1].stack = IF text[i+1].kind \in {"control", "tail"}
                                 THEN Branch(sh[i].stack, text[i+1].act, yes) ELSE sh[i].stack
            BY <3>2 DEF ShownLine
        <3>4. /\ d[i+1].kind = text[i+1].kind
              /\ text[i+1].kind \in {"control", "tail"} => d[i+1].act = text[i+1].act
            BY <1>1, <3>1
        <3>5. sx[i+1].stack = sh[i+1].stack
            BY <2>2, <3>3, <3>4
        <3> QED  BY <3>1, <3>5
    <2> HIDE DEF S, n
    <2>3. 0..n \subseteq S
        BY <1>1, <2>1, <2>2, SetInduction
    <2> QED  BY <2>3 DEF S
<1>6. ASSUME NEW i \in 1..n PROVE i \in Shown(d, yes) <=> i \in Shown(text, yes)
    <2>1. sx[i-1].stack = sh[i-1].stack
        <3>1. i - 1 \in 0..n
            BY <1>1
        <3> QED  BY <1>5, <3>1
    <2>2. i \in Shown(d, yes) <=> Own(sx[i-1].stack, d[i], yes)
        BY <1>1, <1>4, SeenOnce
    <2>3. i \in Shown(text, yes) <=> Own(sh[i-1].stack, text[i], yes)
        BY <1>3, SeenOnce
    <2>4. d[i].kind = text[i].kind /\ (HasKey(d[i]) <=> HasKey(text[i]))
        BY <1>1, <1>2
    <2> QED  BY <2>1, <2>2, <2>3, <2>4 DEF Own
<1>7. Rest(d, yes) = B
    <2>1. ASSUME NEW i \in 1..n, HasKey(text[i]) PROVE StaticLine(d, i) <=> StaticLine(text, i)
        <3>1. text[i] \in ManifestLine
            OBVIOUS
        <3>2. text[i].ind = 0 \/ text[i].ind = 1
            BY <3>1 DEF ManifestLine
        <3>3. text[i].ind = 1 => Owner(text, i) \in 1..n
            BY <2>1 DEF Nested
        <3> QED  BY <1>2, <3>2, <3>3
    <2>2. \A i \in Shown(text, yes) : i \in 1..n /\ HasKey(text[i])
        BY ShownHaveKeys
    <2>3. \A i \in Shown(d, yes) : i \in 1..n
        BY <1>1, ShownHaveKeys
    <2>4. Shown(d, yes) = Shown(text, yes)
        BY <1>6, <2>2, <2>3
    <2> QED  BY <2>1, <2>2, <2>4 DEF Rest
<1>8. B \in SUBSET (1..n) /\ B \in SUBSET Nat /\ \A i \in B : ~StaticLine(text, i)
    <2>1. B \subseteq 1..n /\ \A i \in B : ~StaticLine(text, i)
        BY ShownHaveKeys DEF Rest
    <2> HIDE DEF B
    <2> QED  BY <1>1, <2>1
<1> DEFINE x == Lines(d, B)
<1> DEFINE y == Lines(text, B)
<1>9. PICK e1 : Keeps(x, d, B, e1)
    <2> HIDE DEF B
    <2> QED  BY <1>1, <1>8, LinesKeeps
<1>10. PICK e2 : Keeps(y, text, B, e2)
    <2> HIDE DEF B
    <2> QED  BY <1>8, LinesKeeps
<1> HIDE DEF x, y, B
<1> DEFINE z == [k \in 1..Len(x) |-> text[e1[k]]]
<1>11. x \in Seq(ManifestLine) /\ Len(x) \in Nat /\ \A k \in 1..Len(x) : e1[k] \in B /\ e1[k] \in 1..n /\ x[k] = d[e1[k]]
    <2>1. x \in Seq(ManifestLine) /\ \A k \in 1..Len(x) : x[k] = d[e1[k]]
        BY <1>9 DEF Keeps
    <2>2. \A k \in 1..Len(x) : e1[k] \in B
        BY <1>9 DEF Keeps, Enumerates
    <2>3. Len(x) \in Nat
        BY <2>1
    <2>4. \A k \in 1..Len(x) : e1[k] \in 1..n
        BY <1>8, <2>2
    <2> QED  BY <2>1, <2>2, <2>3, <2>4
<1>12. Keeps(z, text, B, e1)
    <2>1. \A k \in 1..Len(x) : text[e1[k]] \in ManifestLine
        BY <1>11
    <2>2. z \in Seq(ManifestLine) /\ Len(z) = Len(x)
        BY <1>11, <2>1
    <2>3. \A k \in 1..Len(x) : z[k] = text[e1[k]]
        OBVIOUS
    <2> HIDE DEF z
    <2> QED  BY <1>9, <2>2, <2>3 DEF Keeps
<1>13. z = y
    <2> HIDE DEF z
    <2> QED  BY <1>8, <1>10, <1>12, KeepsOnce
<1>14. DOMAIN x = 1..Len(x) /\ DOMAIN y = 1..Len(x) /\ \A k \in 1..Len(x) : y[k] = text[e1[k]]
    <2>1. DOMAIN z = 1..Len(x) /\ \A k \in 1..Len(x) : z[k] = text[e1[k]]
        OBVIOUS
    <2> HIDE DEF z
    <2> QED  BY <1>11, <1>13, <2>1
<1> HIDE DEF z
<1>15. \A k \in 1..Len(x) : x[k].key = y[k].key /\ x[k].val = y[k].val /\ x[k].ind = y[k].ind
    <2> SUFFICES ASSUME NEW k \in 1..Len(x) PROVE x[k].key = y[k].key /\ x[k].val = y[k].val /\ x[k].ind = y[k].ind
        OBVIOUS
    <2>1. e1[k] \in 1..n /\ ~StaticLine(text, e1[k]) /\ x[k] = d[e1[k]] /\ y[k] = text[e1[k]]
        BY <1>8, <1>11, <1>14
    <2> QED  BY <1>1, <2>1
<1>16. [k \in DOMAIN x |-> <<x[k].key, x[k].val, x[k].ind>>] = [k \in DOMAIN y |-> <<y[k].key, y[k].val, y[k].ind>>]
    BY <1>14, <1>15
<1>17. Residue(d, yes) = [k \in DOMAIN x |-> <<x[k].key, x[k].val, x[k].ind>>]
    BY <1>7, ResidueIs DEF x
<1>18. Residue(text, yes) = [k \in DOMAIN y |-> <<y[k].key, y[k].val, y[k].ind>>]
    BY ResidueIs DEF y, B
<1> QED  BY <1>16, <1>17, <1>18

(* LPK v1: the line of the version is rewritten.                              *)
LEMMA VersionResidue ==
    ASSUME NEW text \in Seq(ManifestLine), Parses(text), NEW version \in STRING, NEW yes,
           VersionLines(text) = {} \/ text[Min(VersionLines(text))].kind # "tail"
    PROVE  Residue(RewriteVersion(text, version), yes) = Residue(text, yes)
<1>1. CASE VersionLines(text) = {}
    BY <1>1 DEF RewriteVersion
<1>2. CASE VersionLines(text) # {}
    <2> DEFINE at == Min(VersionLines(text))
    <2> DEFINE l == Field("version", version)
    <2> DEFINE d == [text EXCEPT ![at] = l]
    <2>1. Len(text) \in Nat /\ DOMAIN text = 1..Len(text) /\ VersionLines(text) \in SUBSET (1..Len(text))
        BY DEF VersionLines
    <2>2. at \in VersionLines(text)
        BY <1>2, <2>1, MinOfPositions
    <2>3. at \in 1..Len(text) /\ text[at].kind = "field" /\ text[at].ind = 0 /\ text[at].key = "version"
        BY <1>2, <2>1, <2>2 DEF VersionLines
    <2>4. "version" \in Static /\ "version" \in STRING
        BY StaticNames
    <2>5. l \in ManifestLine /\ l.kind = "field" /\ l.ind = 0 /\ l.key = "version"
        <3>1. l = [kind |-> "field", key |-> "version", val |-> version, ind |-> 0, act |-> "none"]
            BY DEF Field
        <3> HIDE DEF l
        <3>2. l.kind = "field" /\ l.ind = 0 /\ l.key = "version"
            BY <3>1
        <3>3. l \in [kind : {"field", "control", "around", "tail", "note", "directive"},
                    key : STRING, val : STRING, ind : {0, 1}, act : STRING]
            BY <2>4, <3>1, WordsAssumption DEF Words
        <3> QED  BY <3>2, <3>3 DEF ManifestLine
    <2>6. RewriteVersion(text, version) = d
        BY <1>2 DEF RewriteVersion
    <2> HIDE DEF at, l
    <2>7. d \in Seq(ManifestLine) /\ Len(d) = Len(text)
        BY <2>1, <2>3, <2>5
    <2>8. \A i \in 1..Len(text) : d[i] = IF i = at THEN l ELSE text[i]
        BY <2>1
    <2> HIDE DEF d
    <2>9. SameShape(d, text)
        BY <2>3, <2>5, <2>7, <2>8 DEF SameShape
    <2>10. StaticLine(text, at)
        BY <2>3, <2>4 DEF StaticLine
    <2>11. /\ \A i \in 1..Len(text) : text[i].kind \in {"control", "tail"} => d[i].act = text[i].act
           /\ \A i \in 1..Len(text) : ~StaticLine(text, i) => d[i].val = text[i].val
        BY <2>3, <2>8, <2>10
    <2>12. Residue(d, yes) = Residue(text, yes)
        BY <2>9, <2>11, ParsesNested, ShapeResidue
    <2> QED  BY <2>6, <2>12
<1> QED  BY <1>1, <1>2

(* The tree of a build of a template, in each layout.                        *)
LEMMA TemplatedTree ==
    ASSUME templated
    PROVE  /\ PredictLayout(project) = "v1" =>
                /\ ~project.images /\ Tree.layout = "v1"
                /\ Tree.manifest = IF project.version = "" THEN processed
                                   ELSE RewriteVersion(processed, project.version)
           /\ PredictLayout(project) # "v1" =>
                Tree.layout = "v2" /\ Tree.manifest = Built(RemoveTopLevelFields(processed))
<1> DEFINE staged == Staged(project, processed, document, package)
<1> DEFINE pinned == [staged EXCEPT !.manifest = Pinned(@)]
<1>1. Tree = IF project.images THEN pinned ELSE staged
    BY DEF Tree
<1>2. CASE PredictLayout(project) = "v1"
    <2>1. ~project.images
        BY <1>2 DEF PredictLayout
    <2> DEFINE text == IF project.version = "" THEN processed ELSE RewriteVersion(processed, project.version)
    <2>2. staged = [layout |-> "v1", package |-> NoFile, manifest |-> text]
        BY <1>2, Zenon DEF Staged
    <2> HIDE DEF staged, text
    <2>3. Tree.layout = "v1" /\ Tree.manifest = text
        BY <1>1, <2>1, <2>2
    <2> QED  BY <1>2, <2>1, <2>3, Zenon DEF text
<1>3. CASE PredictLayout(project) # "v1"
    <2> DEFINE pack == IF project.package = NoFile THEN Split(document).package ELSE package
    <2> DEFINE text == RemoveTopLevelFields(processed)
    <2>1. staged = [layout |-> "v2", package |-> pack, manifest |-> text]
        BY <1>3 DEF Staged
    <2> HIDE DEF staged, pack, text
    <2>2. pinned.layout = "v2" /\ pinned.manifest = Pinned(text)
        BY <2>1
    <2>3. staged.layout = "v2" /\ staged.manifest = text
        BY <2>1
    <2>4. Tree.layout = "v2" /\ Tree.manifest = Built(text)
        BY <1>1, <2>2, <2>3 DEF Built
    <2> QED  BY <1>3, <2>4 DEF text
<1> QED  BY <1>2, <1>3

(* What build.Build does to the source of a template changes nothing that any  *)
(* rendering shows besides the static fields, in any environment: for every   *)
(* manifest, whatever its actions are, and every configuration, unless an     *)
(* action is lost with the lines of a static field.                          *)
THEOREM PackagesRunLikeSource == BuildSpec => []RunsLikeSource
<1>1. BuildInit => PackageIInv
    BY PackageInit
<1>2. PackageIInv /\ [BuildNext]_buildVars => PackageIInv'
    BY PackageNext
<1>3. PackageIInv => RunsLikeSource
    <2> SUFFICES ASSUME PackageIInv, lpk # None, templated, ~ActionsLost(processed),
                        NEW yes \in SUBSET Conditions
                 PROVE  Residue(lpk.manifest, yes) = Residue(Built(processed), yes)
        BY DEF RunsLikeSource
    <2>1. project \in Projects /\ Prepared /\ lpk = Tree
        BY DEF PackageIInv
    <2>2. IsProject(project) /\ processed \in Seq(ManifestLine) /\ Parses(processed)
        BY <2>1, PreparedIs DEF Analyzes
    <2>3. CASE PredictLayout(project) = "v1"
        <3>1. /\ ~project.images /\ lpk.layout = "v1"
              /\ lpk.manifest = IF project.version = "" THEN processed
                                ELSE RewriteVersion(processed, project.version)
            BY <2>1, <2>3, TemplatedTree, Zenon
        <3>2. Built(processed) = processed
            BY <3>1 DEF Built
        <3>3. CASE project.version = ""
            BY <3>1, <3>2, <3>3, Zenon
        <3>4. CASE project.version # ""
            <4>1. VersionLines(processed) = {} \/ processed[Min(VersionLines(processed))].kind # "tail"
                BY <3>1, <3>4, Zenon DEF ActionsLost
            <4>2. project.version \in STRING
                BY <2>2 DEF IsProject
            <4>3. Residue(RewriteVersion(processed, project.version), yes) = Residue(processed, yes)
                BY <2>2, <4>1, <4>2, VersionResidue
            <4> QED  BY <3>1, <3>2, <3>4, <4>3, Zenon
        <3> QED  BY <3>3, <3>4
    <2>4. CASE PredictLayout(project) # "v1"
        <3>1. lpk.layout = "v2" /\ lpk.manifest = Built(RemoveTopLevelFields(processed))
            BY <2>1, <2>4, TemplatedTree, Zenon
        <3>2. ~Swallows(processed)
            BY <3>1, Zenon DEF ActionsLost
        <3>3. /\ Residue(RemoveTopLevelFields(processed), yes) = Residue(processed, yes)
              /\ Residue(Pinned(RemoveTopLevelFields(processed)), yes) = Residue(Pinned(processed), yes)
            BY <2>2, <3>2, RemovalResidue
        <3> QED  BY <3>1, <3>3 DEF Built
    <2> QED  BY <2>3, <2>4
<1> QED  BY <1>1, <1>2, <1>3, PTL DEF BuildSpec

=============================================================================
