--------------------------- MODULE ArchiveProofs ---------------------------
(***************************************************************************)
(* Of archives: what holds of every container and every destination, that  *)
(* an extraction which succeeds is complete, that one touches nothing else *)
(* and that no link leads out.  Sequences are gone through from the front: *)
(* folds come first, then names (Clean, Slashed, DepthAfter), trees and    *)
(* the steps of an extraction, then what a container may declare.          *)
(***************************************************************************)
EXTENDS Archive, FiniteSetTheorems, WellFoundedInduction, SequenceTheorems, TLAPS

(* Induction up to a bound, for a property given as the set of the numbers  *)
(* that have it: otherwise a shortest interval of numbers without it could  *)
(* be made shorter.                                                         *)
LEMMA SetInduction ==
    ASSUME NEW N \in Nat, NEW S, 0 \in S, \A n \in 0..(N-1) : n \in S => n + 1 \in S
    PROVE  0..N \subseteq S
<1> DEFINE bad == {m \in 1..N : m \notin S}
<1> DEFINE T == {1..m : m \in bad}
<1> DEFINE R == StrictSubsetOrdering(1..N)
<1> SUFFICES ASSUME bad # {} PROVE FALSE
    OBVIOUS
<1>1. IsFiniteSet(1..N)
    BY FS_Interval
<1>2. IsWellFoundedOn(R, SUBSET (1..N))
    BY <1>1, FS_FiniteSubsetsOfFinite, FS_StrictSubsetOrderingWellFounded
<1>3. T \subseteq SUBSET (1..N) /\ T # {}
    OBVIOUS
<1>4. \E x \in T : \A y \in T : ~(<<y, x>> \in R)
    <2> HIDE DEF T, R
    <2> QED  BY <1>2, <1>3, WFMin
<1>5. PICK m \in bad : \A k \in bad : ~(<<1..k, 1..m>> \in R)
    BY <1>4
<1>6. m - 1 \in 0..(N-1) /\ m - 1 \notin S
    <2>1. m \in 1..N /\ m \notin S
        OBVIOUS
    <2>2. m - 1 \in 0..(N-1) /\ (m - 1) + 1 = m
        BY <2>1
    <2> QED  BY <2>1, <2>2
<1>7. m - 1 \in bad
    BY <1>6
<1>8. <<1..(m-1), 1..m>> \in R
    <2>1. 1..(m-1) \subseteq 1..m /\ m \in 1..m /\ m \notin 1..(m-1) /\ 1..m \subseteq 1..N
        BY <1>6
    <2>2. 1..(m-1) # 1..m
        BY <2>1
    <2> QED  BY <2>1, <2>2 DEF StrictSubsetOrdering
<1> QED  BY <1>5, <1>7, <1>8

(* The position that FoldLeft takes from a set of positions.                *)
LEMMA MaxOfPositions ==
    ASSUME NEW n \in Nat, NEW s \in SUBSET (1..n), s # {}
    PROVE  Max(s) \in s /\ \A x \in s : x <= Max(s)
<1>. DEFINE above == {m \in 0..n : \A k \in s : k <= n - m}
<1>1. CASE \A m \in 0..(n-1) : m \in above => m + 1 \in above
    <2>1. 0 \in above
        OBVIOUS
    <2>2. 0..n \subseteq above
        <3> HIDE DEF above
        <3> QED BY <1>1, <2>1, SetInduction
    <2>3. n \in above
        BY <2>2
    <2>4. \A k \in s : k <= n - n
        BY <2>3
    <2>5. PICK k \in s : k \in 1..n
        OBVIOUS
    <2>6. k <= n - n /\ k >= 1
        BY <2>4, <2>5
    <2> QED BY <2>5, <2>6
<1>2. CASE \E m \in 0..(n-1) : m \in above /\ m + 1 \notin above
    <2>1. PICK m \in 0..(n-1) : m \in above /\ m + 1 \notin above
        BY <1>2
    <2>2. PICK k \in s : k > n - (m+1)
        BY <2>1
    <2>3. k = n - m
        BY <2>1, <2>2
    <2>4. \A x \in s : k >= x
        BY <2>1, <2>3
    <2> QED BY <2>4 DEF Max
<1> QED BY <1>1, <1>2

(* In particular of the first positions.                                   *)
LEMMA MaxOfInterval == \A i \in Nat \ {0} : Max(1..i) = i
<1> SUFFICES ASSUME NEW i \in Nat \ {0} PROVE Max(1..i) = i
    OBVIOUS
<1>1. i \in 1..i /\ 1..i # {}
    OBVIOUS
<1>2. Max(1..i) \in 1..i /\ i <= Max(1..i)
    BY <1>1, MaxOfPositions
<1> QED  BY <1>2

(* The first positions, without the last of them.                           *)
LEMMA FirstPositions ==
    ASSUME NEW n \in Nat, NEW i \in 1..n
    PROVE  /\ i \in Nat \ {0} /\ i - 1 \in 0..n /\ i \in 0..n
           /\ 1..i # {} /\ 1..i \in SUBSET (1..n) /\ (1..i) \ {Max(1..i)} = 1..(i-1) /\ Max(1..i) = i
<1>1. i \in Nat \ {0} /\ i - 1 \in 0..n /\ i \in 0..n
    OBVIOUS
<1>2. 1..i # {} /\ 1..i \in SUBSET (1..n) /\ (1..i) \ {i} = 1..(i-1)
    OBVIOUS
<1> QED  BY <1>1, <1>2, MaxOfInterval

(* h folds the positions of a set, the largest last.                        *)
IsFold(h, n, T, base, step) ==
    /\ h \in [SUBSET (1..n) -> T]
    /\ \A s \in SUBSET (1..n) :
          h[s] = IF s = {} THEN base ELSE step[<<h[s \ {Max(s)}], Max(s)>>]

(* A fold over positions exists, whatever it folds.                         *)
LEMMA FoldExists ==
    ASSUME NEW n \in Nat, NEW T, NEW base \in T, NEW step, step \in [T \X (1..n) -> T]
    PROVE  \E h : IsFold(h, n, T, base, step)
<1> DEFINE Folds(h, k) ==
        \A s \in SUBSET (1..k) :
            h[s] = IF s = {} THEN base ELSE step[<<h[s \ {Max(s)}], Max(s)>>]
<1> DEFINE S == {k \in 0..n : \E h \in [SUBSET (1..k) -> T] : Folds(h, k)}
<1>1. 0 \in S
    <2> DEFINE h0 == [s \in SUBSET (1..0) |-> base]
    <2>1. h0 \in [SUBSET (1..0) -> T] /\ Folds(h0, 0)
        OBVIOUS
    <2>2. 0 \in 0..n
        OBVIOUS
    <2> HIDE DEF Folds, h0
    <2> QED  BY <2>1, <2>2
<1>2. ASSUME NEW k \in 0..(n-1), k \in S PROVE k + 1 \in S
    <2>1. PICK h \in [SUBSET (1..k) -> T] : Folds(h, k)
        BY <1>2
    <2> DEFINE g == [s \in SUBSET (1..(k+1)) |->
                        IF k + 1 \in s THEN step[<<h[s \ {k+1}], k+1>>] ELSE h[s]]
    <2>2. \A s \in SUBSET (1..(k+1)) : s \ {k+1} \in SUBSET (1..k)
        OBVIOUS
    <2>3. k + 1 \in 1..n
        OBVIOUS
    <2>4. g \in [SUBSET (1..(k+1)) -> T]
        <3> SUFFICES ASSUME NEW s \in SUBSET (1..(k+1)) PROVE g[s] \in T
            OBVIOUS
        <3>1. CASE k + 1 \in s
            <4>1. <<h[s \ {k+1}], k+1>> \in T \X (1..n)
                BY <2>2, <2>3
            <4> QED  BY <3>1, <4>1
        <3>2. CASE k + 1 \notin s
            BY <2>2, <3>2
        <3> QED  BY <3>1, <3>2
    <2>5. Folds(g, k + 1)
        <3> SUFFICES ASSUME NEW s \in SUBSET (1..(k+1))
                     PROVE  g[s] = IF s = {} THEN base ELSE step[<<g[s \ {Max(s)}], Max(s)>>]
            OBVIOUS
        <3>1. CASE k + 1 \in s
            <4>1. Max(s) \in s /\ k + 1 <= Max(s)
                <5>1. k + 1 \in Nat /\ s # {}
                    BY <3>1
                <5> QED  BY <3>1, <5>1, MaxOfPositions
            <4>2. Max(s) = k + 1
                <5>1. Max(s) \in 1..(k+1)
                    BY <4>1
                <5>2. k \in Int
                    OBVIOUS
                <5> QED  BY <4>1, <5>1, <5>2
            <4>3. g[s \ {k+1}] = h[s \ {k+1}]
                BY <2>2
            <4> QED  BY <3>1, <4>2, <4>3
        <3>2. CASE k + 1 \notin s
            <4>1. s \in SUBSET (1..k) /\ s \ {Max(s)} \in SUBSET (1..k)
                BY <2>2, <3>2
            <4>2. g[s] = h[s] /\ g[s \ {Max(s)}] = h[s \ {Max(s)}]
                BY <3>2, <4>1
            <4> QED  BY <2>1, <4>1, <4>2
        <3> QED  BY <3>1, <3>2
    <2>6. k + 1 \in 0..n
        OBVIOUS
    <2> HIDE DEF Folds, g
    <2> QED  BY <2>4, <2>5, <2>6
<1>3. 0..n \subseteq S
    <2> HIDE DEF S
    <2> QED  BY <1>1, <1>2, SetInduction
<1>4. n \in S
    <2> HIDE DEF S
    <2>1. n \in 0..n
        OBVIOUS
    <2> QED  BY <1>3, <2>1
<1> QED  BY <1>4 DEF IsFold

(* f is the run of a fold over positions: what it has after each of them.   *)
IsRun(f, n, T, base, step) ==
    /\ f \in [0..n -> T]
    /\ f[0] = base
    /\ \A i \in 1..n : f[i] = step[<<f[i-1], i>>]

(* A run is what a fold has for the first positions.                        *)
RunOf(f, g, n) == \A i \in 0..n : f[i] = g[1..i]

(* What is folded position by position, while it stays in T.                *)
Folds(g, n, T, base, step) ==
    /\ g[{}] = base
    /\ \A i \in 1..n : g[1..(i-1)] \in T => g[1..i] = step[<<g[1..(i-1)], i>>]

(* It stays in T, and what it has for the first positions is a run.         *)
LEMMA FoldRuns ==
    ASSUME NEW n \in Nat, NEW T, NEW base \in T, NEW step, step \in [T \X (1..n) -> T],
           NEW g, Folds(g, n, T, base, step)
    PROVE  \E f : IsRun(f, n, T, base, step) /\ RunOf(f, g, n)
<1> DEFINE f == [i \in 0..n |-> g[1..i]]
<1> DEFINE S == {i \in 0..n : g[1..i] \in T}
<1>1. g[1..0] = base
    <2>1. 1..0 = {}
        OBVIOUS
    <2> QED  BY <2>1 DEF Folds
<1>2. 0 \in S
    BY <1>1
<1>3. ASSUME NEW i \in 0..(n-1), i \in S PROVE i + 1 \in S
    <2>1. i + 1 \in 1..n /\ i + 1 \in 0..n /\ (i + 1) - 1 = i
        OBVIOUS
    <2>2. <<g[1..i], i + 1>> \in T \X (1..n)
        BY <1>3, <2>1
    <2>3. g[1..(i+1)] = step[<<g[1..i], i + 1>>]
        BY <1>3, <2>1 DEF Folds
    <2> QED  BY <2>1, <2>2, <2>3
<1>4. 0..n \subseteq S
    <2> HIDE DEF S
    <2> QED  BY <1>2, <1>3, SetInduction
<1>5. \A i \in 0..n : g[1..i] \in T
    BY <1>4
<1>6. f[0] = base
    BY <1>1
<1>7. ASSUME NEW i \in 1..n PROVE f[i] = step[<<f[i-1], i>>]
    <2>1. i \in 0..n /\ i - 1 \in 0..n
        OBVIOUS
    <2>2. f[i] = g[1..i] /\ f[i-1] = g[1..(i-1)]
        BY <2>1
    <2> QED  BY <1>5, <2>1, <2>2 DEF Folds
<1>8. f \in [0..n -> T] /\ RunOf(f, g, n)
    BY <1>5 DEF RunOf
<1> QED  BY <1>6, <1>7, <1>8 DEF IsRun

(* One component more or less: a cleaned name is a name.                    *)
LEMMA CleanStepType ==
    ASSUME NEW S, NEW done \in Seq(S), NEW c \in S
    PROVE  CleanStep(done, c) \in Seq(S)
<1>1. done # <<>> => Front(done) \in Seq(S)
    <2> SUFFICES ASSUME done # <<>> PROVE SubSeq(done, 1, Len(done) - 1) \in Seq(S)
        BY DEF Front
    <2>1. Len(done) \in Nat /\ \A i \in 1..(Len(done) - 1) : done[i] \in S
        OBVIOUS
    <2> QED  BY <2>1, SubSeqProperties
<1>2. Append(done, c) \in Seq(S)
    BY AppendProperties
<1>3. CASE c = "."
    BY <1>3 DEF CleanStep
<1>4. CASE c = ".." /\ done = <<"/">>
    BY <1>4 DEF CleanStep
<1>5. CASE c = ".." /\ done # <<>> /\ done # <<"/">> /\ Last(done) # ".."
    BY <1>1, <1>5 DEF CleanStep
<1>6. CASE c # "." /\ ~(c = ".." /\ done = <<"/">>) /\ ~(c = ".." /\ done # <<>> /\ done # <<"/">> /\ Last(done) # "..")
    BY <1>2, <1>6 DEF CleanStep
<1> QED  BY <1>3, <1>4, <1>5, <1>6

(* Clean goes through a name component by component: every prefix of it has *)
(* its own cleaned form, made from that of the prefix before.               *)
LEMMA CleanSteps ==
    ASSUME NEW S, NEW name \in Seq(S)
    PROVE  \E f \in [0..Len(name) -> Seq(S)] :
             /\ f[0] = <<>> /\ f[Len(name)] = Clean(name)
             /\ \A i \in 1..Len(name) : f[i] = CleanStep(f[i-1], name[i])
<1> DEFINE n == Len(name)
<1> DEFINE T == Seq(S)
<1> DEFINE base == <<>>
<1> DEFINE step == [q \in T \X (1..n) |-> CleanStep(q[1], name[q[2]])]
<1> DEFINE Body(h) == [s \in SUBSET DOMAIN name |->
                          IF s = {} THEN <<>> ELSE CleanStep(h[s \ {Max(s)}], name[Max(s)])]
<1> DEFINE g == CHOOSE h : h = Body(h)
<1>1. n \in Nat /\ DOMAIN name = 1..n /\ \A i \in 1..n : name[i] \in S
    OBVIOUS
<1>2. base \in T /\ step \in [T \X (1..n) -> T]
    <2>1. \A q \in T \X (1..n) : CleanStep(q[1], name[q[2]]) \in T
        BY <1>1, CleanStepType
    <2> QED  BY <2>1
<1>3. Clean(name) = g[1..n]
    BY <1>1 DEF Clean, FoldLeft, MapThenFoldSet
<1>4. \A x \in T, i \in 1..n : step[<<x, i>>] = CleanStep(x, name[i])
    OBVIOUS
<1>5. g = Body(g)
    <2>1. PICK h : IsFold(h, n, T, base, step)
        <3> HIDE DEF T, n, base, step
        <3> QED  BY <1>1, <1>2, FoldExists
    <2>2. ASSUME NEW s \in SUBSET (1..n), s # {}
          PROVE  h[s] = CleanStep(h[s \ {Max(s)}], name[Max(s)])
        <3> HIDE DEF T, n, base, step
        <3>1. Max(s) \in 1..n /\ s \ {Max(s)} \in SUBSET (1..n)
            BY <1>1, <2>2, MaxOfPositions
        <3>2. h[s \ {Max(s)}] \in T /\ h[s] = step[<<h[s \ {Max(s)}], Max(s)>>]
            BY <2>1, <2>2, <3>1 DEF IsFold
        <3> QED  BY <1>4, <3>1, <3>2
    <2>3. h \in [SUBSET (1..n) -> T] /\ h[{}] = <<>>
        BY <2>1 DEF IsFold
    <2>4. h = Body(h)
        <3> HIDE DEF T, n
        <3> QED  BY <1>1, <2>2, <2>3
    <2> QED  BY <2>4
<1>6. Folds(g, n, T, base, step)
    <2>1. g[{}] = base
        <3> HIDE DEF g, T
        <3> QED  BY <1>5
    <2>2. ASSUME NEW i \in 1..n, g[1..(i-1)] \in T
          PROVE  g[1..i] = step[<<g[1..(i-1)], i>>]
        <3> HIDE DEF g, T, n, step
        <3>1. n \in Nat
            BY <1>1
        <3>2. 1..i # {} /\ 1..i \in SUBSET (1..n) /\ (1..i) \ {Max(1..i)} = 1..(i-1) /\ Max(1..i) = i
            BY <3>1, FirstPositions
        <3>3. g[1..i] = CleanStep(g[(1..i) \ {Max(1..i)}], name[Max(1..i)])
            BY <1>1, <1>5, <3>2
        <3>4. g[1..i] = CleanStep(g[1..(i-1)], name[i])
            BY <3>2, <3>3
        <3>5. step[<<g[1..(i-1)], i>>] = CleanStep(g[1..(i-1)], name[i])
            BY <1>4, <2>2
        <3> QED  BY <3>4, <3>5
    <2> QED  BY <2>1, <2>2 DEF Folds
<1>7. PICK f : IsRun(f, n, T, base, step) /\ RunOf(f, g, n)
    <2>1. n \in Nat /\ base \in T /\ step \in [T \X (1..n) -> T]
        BY <1>1, <1>2
    <2> HIDE DEF T, n, base, step, g
    <2> QED  BY <1>6, <2>1, FoldRuns
<1>8. f[n] = Clean(name)
    <2> HIDE DEF g, n
    <2>1. n \in 0..n
        BY <1>1
    <2> QED  BY <1>3, <1>7, <2>1 DEF RunOf
<1>9. f \in [0..n -> T] /\ f[0] = <<>>
    BY <1>7 DEF IsRun
<1>10. ASSUME NEW i \in 1..n PROVE f[i] = CleanStep(f[i-1], name[i])
    <2> HIDE DEF T, n, step, g
    <2>1. i - 1 \in 0..n
        BY <1>1
    <2>2. f[i-1] \in T /\ f[i] = step[<<f[i-1], i>>]
        BY <1>7, <2>1 DEF IsRun
    <2> QED  BY <1>4, <2>2
<1> QED  BY <1>8, <1>9, <1>10

(* A run exists, whatever its steps are.                                    *)
LEMMA RunExists ==
    ASSUME NEW n \in Nat, NEW T, NEW base \in T, NEW step, step \in [T \X (1..n) -> T]
    PROVE  \E f : IsRun(f, n, T, base, step)
<1>1. PICK g : IsFold(g, n, T, base, step)
    BY FoldExists
<1>2. Folds(g, n, T, base, step)
    <2>1. ASSUME NEW i \in 1..n PROVE g[1..i] = step[<<g[1..(i-1)], i>>]
        <3>1. 1..i # {} /\ 1..i \in SUBSET (1..n) /\ (1..i) \ {Max(1..i)} = 1..(i-1) /\ Max(1..i) = i
            BY FirstPositions
        <3>2. g[1..i] = step[<<g[(1..i) \ {Max(1..i)}], Max(1..i)>>]
            BY <1>1, <3>1 DEF IsFold
        <3> QED  BY <3>1, <3>2
    <2>2. g[{}] = base
        BY <1>1 DEF IsFold
    <2> QED  BY <2>1, <2>2 DEF Folds
<1> QED  BY <1>2, FoldRuns

(* Sequences of one and of two elements.                                    *)
LEMMA ShortSequences ==
    ASSUME NEW S, NEW c \in S, NEW d \in S
    PROVE  <<c>> \in Seq(S) /\ <<c, d>> \in Seq(S)
<1>1. <<>> \in Seq(S)
    OBVIOUS
<1>2. Append(<<>>, c) \in Seq(S)
    BY <1>1, AppendProperties
<1>3. <<c>> \in Seq(S)
    BY <1>2
<1>4. Append(<<c>>, d) \in Seq(S)
    BY <1>3, AppendProperties
<1>5. <<c, d>> \in Seq(S)
    BY <1>4
<1> QED  BY <1>3, <1>5

(* What a name is once its backslashes are slashes: absolute if it was, and *)
(* still with a "/" at most in the first place.                             *)
LEMMA SlashedNames ==
    ASSUME NEW name \in Seq(STRING)
    PROVE  /\ Slashed(name) \in Seq(STRING \ {Backslashed})
           /\ IsName(name) /\ ~Absolute(Slashed(name)) =>
                \A k \in 1..Len(Slashed(name)) : Slashed(name)[k] # "/"
<1> DEFINE n == Len(name)
<1> DEFINE C == STRING \ {Backslashed}
<1> DEFINE T == Seq(C)
<1> DEFINE base == <<>>
<1> DEFINE parts == [i \in DOMAIN name |->
                       IF name[i] = Backslashed THEN <<"a", "b">> ELSE <<name[i]>>]
<1> DEFINE step == [q \in T \X (1..n) |-> IF q[2] = 1 THEN parts[q[2]] ELSE q[1] \o parts[q[2]]]
<1> DEFINE Body(h) == [i \in 1..Len(parts) |-> IF i = 1 THEN parts[i] ELSE h[i-1] \o parts[i]]
<1> DEFINE flat == CHOOSE h : h = Body(h)
<1> DEFINE Good(x) == x \in T /\ x # <<>> /\
                      (IsName(name) => \A k \in 2..Len(x) : x[k] # "/")
<1>1. n \in Nat /\ DOMAIN name = 1..n /\ \A i \in 1..n : name[i] \in STRING
    OBVIOUS
<1>2. \A i \in 1..n : parts[i] \in T /\ Len(parts[i]) \in {1, 2} /\ parts[i] # <<>>
    <2> SUFFICES ASSUME NEW i \in 1..n
                 PROVE  parts[i] \in T /\ Len(parts[i]) \in {1, 2} /\ parts[i] # <<>>
        OBVIOUS
    <2>1. <<"a", "b">> \in T
        <3>1. "a" \in C /\ "b" \in C
            BY LiteralsAssumption DEF Backslashed
        <3> QED  BY <3>1, ShortSequences
    <2>2. ASSUME name[i] # Backslashed PROVE <<name[i]>> \in T
        <3>1. name[i] \in C
            BY <1>1, <2>2
        <3> QED  BY <3>1, ShortSequences
    <2>3. parts[i] = <<name[i]>> => <<name[i]>> \in T
        BY <1>1, <2>2 
    <2>4. parts[i] = <<"a", "b">> \/ parts[i] = <<name[i]>>
        BY <1>1
    <2>5. Len(<<"a", "b">>) = 2 /\ Len(<<name[i]>>) = 1
        OBVIOUS
    <2> HIDE DEF parts
    <2>6. CASE parts[i] = <<"a", "b">>
        BY <2>1, <2>5, <2>6
    <2>7. CASE parts[i] = <<name[i]>>
        BY <2>3, <2>5, <2>7
    <2> QED  BY <2>4, <2>6, <2>7
<1>3. Len(parts) = n /\ (n = 0 => parts = <<>>)
    BY <1>1
<1>4. Slashed(name) = IF n = 0 THEN <<>> ELSE flat[n]
    BY <1>1, <1>3 DEF Slashed, FlattenSeq
<1>5. base \in T /\ step \in [T \X (1..n) -> T]
    <2>1. ASSUME NEW q \in T \X (1..n)
          PROVE  (IF q[2] = 1 THEN parts[q[2]] ELSE q[1] \o parts[q[2]]) \in T
        <3> HIDE DEF parts
        <3>1. q[1] \in T /\ parts[q[2]] \in T
            BY <1>2
        <3>2. q[1] \o parts[q[2]] \in T
            BY <3>1, ConcatProperties
        <3> QED  BY <3>1, <3>2
    <2>2. base \in T
        OBVIOUS
    <2> QED  BY <2>1, <2>2
<1>6. flat = Body(flat)
    <2>1. PICK f : IsRun(f, n, T, base, step)
        <3>1. n \in Nat /\ base \in T /\ step \in [T \X (1..n) -> T]
            BY <1>1, <1>5
        <3> HIDE DEF n, T, base, step
        <3> QED  BY <3>1, RunExists
    <2> DEFINE h == [i \in 1..n |-> f[i]]
    <2>2. ASSUME NEW i \in 1..n PROVE h[i] = IF i = 1 THEN parts[i] ELSE h[i-1] \o parts[i]
        <3> HIDE DEF parts
        <3>1. f[i] = step[<<f[i-1], i>>] /\ f[i-1] \in T
            <4>1. i - 1 \in 0..n
                BY <1>1
            <4> HIDE DEF step, n, T
            <4> QED  BY <2>1, <4>1 DEF IsRun
        <3>2. f[i] = IF i = 1 THEN parts[i] ELSE f[i-1] \o parts[i]
            BY <3>1
        <3>3. i # 1 => i - 1 \in 1..n
            BY <1>1
        <3> QED  BY <3>2, <3>3
    <2>3. h = Body(h)
        <3> HIDE DEF parts
        <3> QED  BY <1>3, <2>2
    <2> QED  BY <2>3
<1>7. ASSUME n # 0 PROVE Good(flat[n])
    <2> DEFINE S == {i \in 0..n : i = 0 \/ Good(flat[i])}
    <2>1. flat[1] = parts[1]
        <3> HIDE DEF parts, flat
        <3> QED  BY <1>1, <1>3, <1>6, <1>7
    <2>2. Good(flat[1])
        <3>1. 1 \in 1..n
            BY <1>1, <1>7
        <3>2. \A k \in 2..Len(parts[1]) : parts[1][k] = "b"
            BY <1>1, <3>1
        <3>3. parts[1] \in T /\ parts[1] # <<>>
            BY <1>2, <3>1
        <3> HIDE DEF parts, flat
        <3> QED  BY <2>1, <3>2, <3>3
    <2>3. ASSUME NEW i \in 0..(n-1), i \in S PROVE i + 1 \in S
        <3>1. CASE i = 0
            <4>1. i + 1 = 1 /\ 1 \in 0..n
                BY <1>1, <1>7, <3>1
            <4> HIDE DEF flat, n, Good
            <4> QED  BY <2>2, <4>1
        <3>2. CASE i # 0
            <4> DEFINE x == flat[i]
            <4> DEFINE y == parts[i+1]
            <4>1. i + 1 \in 1..n /\ i + 1 \in 0..n /\ i + 1 # 1 /\ (i + 1) - 1 = i
                BY <1>1, <3>2
            <4>2. flat[i+1] = x \o y
                <5> HIDE DEF parts, flat
                <5> QED  BY <1>3, <1>6, <4>1
            <4>3. Good(x)
                BY <2>3, <3>2
            <4>4. y \in T /\ y # <<>> /\ x \in T /\ x # <<>>
                BY <1>2, <4>1, <4>3
            <4>5. IsName(name) => \A k \in 1..Len(y) : y[k] # "/"
                <5> SUFFICES ASSUME IsName(name), NEW k \in 1..Len(y) PROVE y[k] # "/"
                    OBVIOUS
                <5>1. name[i+1] # "/"
                    <6>1. i + 1 \in 2..Len(name)
                        BY <1>1, <4>1
                    <6> QED  BY <6>1 DEF IsName
                <5>2. y = <<"a", "b">> \/ y = <<name[i+1]>>
                    BY <1>1, <4>1
                <5> QED  BY <5>1, <5>2
            <4>6. IsName(name) => \A k \in 2..Len(x \o y) : (x \o y)[k] # "/"
                <5> SUFFICES ASSUME IsName(name), NEW k \in 2..Len(x \o y) PROVE (x \o y)[k] # "/"
                    OBVIOUS
                <5> HIDE DEF x, y
                <5>1. Len(x) \in Nat /\ Len(y) \in Nat /\ Len(x \o y) = Len(x) + Len(y)
                    BY <4>4
                <5>2. CASE k <= Len(x)
                    <6>1. (x \o y)[k] = x[k] /\ k \in 2..Len(x)
                        BY <4>4, <5>1, <5>2
                    <6> QED  BY <4>3, <6>1
                <5>3. CASE k > Len(x)
                    <6>1. (x \o y)[k] = y[k - Len(x)] /\ k - Len(x) \in 1..Len(y)
                        BY <4>4, <5>1, <5>3
                    <6> QED  BY <4>5, <6>1
                <5> QED  BY <5>1, <5>2, <5>3
            <4>7. x \o y \in T /\ x \o y # <<>>
                <5> HIDE DEF x, y
                <5> QED  BY <4>4
            <4>8. Good(flat[i+1])
                <5> HIDE DEF x, y
                <5> QED  BY <4>2, <4>6, <4>7
            <4> QED  BY <4>1, <4>8
        <3> QED  BY <3>1, <3>2
    <2>4. 0..n \subseteq S
        <3>1. 0 \in S /\ n \in Nat
            BY <1>1
        <3> HIDE DEF S, n
        <3> QED  BY <2>3, <3>1, SetInduction
    <2>5. n \in S
        <3>1. n \in 0..n
            BY <1>1
        <3> QED  BY <2>4, <3>1
    <2> QED  BY <1>7, <2>5
<1> HIDE DEF flat, parts, step
<1>8. CASE n = 0
    BY <1>4, <1>8
<1>9. CASE n # 0
    <2>1. Good(Slashed(name))
        BY <1>4, <1>7, <1>9
    <2>2. Slashed(name)[1] # "/" => \A k \in 1..Len(Slashed(name)) : k >= 2 \/ Slashed(name)[k] # "/"
        BY <2>1
    <2> QED  BY <2>1, <2>2 DEF Absolute
<1> QED  BY <1>8, <1>9

-----------------------------------------------------------------------------
(* Names that climb out                                                     *)

(* What a component does to the depth of a walk.                            *)
Change(c) == IF c = "." THEN 0 ELSE IF c = ".." THEN -1 ELSE 1

(* How deep a walk is changes with the component it comes to.               *)
LEMMA DepthSteps ==
    ASSUME NEW name \in Seq(STRING)
    PROVE  /\ DepthAfter(name, 0) = 0
           /\ \A i \in 0..Len(name) : DepthAfter(name, i) \in Int
           /\ \A i \in 1..Len(name) :
                DepthAfter(name, i) = DepthAfter(name, i - 1) + Change(name[i])
<1> DEFINE PlainNames(i) == {k \in 1..i : name[k] \notin {".", ".."}}
<1> DEFINE Ups(i) == {k \in 1..i : name[k] = ".."}
<1>1. \A i \in 0..Len(name) : IsFiniteSet(PlainNames(i)) /\ IsFiniteSet(Ups(i))
    <2> SUFFICES ASSUME NEW i \in 0..Len(name) PROVE IsFiniteSet(PlainNames(i)) /\ IsFiniteSet(Ups(i))
        OBVIOUS
    <2>1. IsFiniteSet(1..i)
        BY FS_Interval
    <2>2. PlainNames(i) \subseteq 1..i /\ Ups(i) \subseteq 1..i
        OBVIOUS
    <2> QED  BY <2>1, <2>2, FS_Subset
<1>2. \A i \in 0..Len(name) : Cardinality(PlainNames(i)) \in Nat /\ Cardinality(Ups(i)) \in Nat
    BY <1>1, FS_CardinalityType
<1>3. PlainNames(0) = {} /\ Ups(0) = {}
    OBVIOUS
<1>4. \A i \in 0..Len(name) : DepthAfter(name, i) = Cardinality(PlainNames(i)) - Cardinality(Ups(i))
    BY DEF DepthAfter
<1>5. ASSUME NEW i \in 1..Len(name)
      PROVE  DepthAfter(name, i) = DepthAfter(name, i - 1) + Change(name[i])
    <2>1. i \in 0..Len(name) /\ i - 1 \in 0..Len(name) /\ i \notin 1..(i-1) /\ 1..i = 1..(i-1) \union {i}
        OBVIOUS
    <2>2. PlainNames(i) = IF name[i] \in {".", ".."} THEN PlainNames(i-1) ELSE PlainNames(i-1) \union {i}
        BY <2>1
    <2>3. Ups(i) = IF name[i] = ".." THEN Ups(i-1) \union {i} ELSE Ups(i-1)
        BY <2>1
    <2>4. i \notin PlainNames(i-1) /\ i \notin Ups(i-1)
        BY <2>1
    <2> HIDE DEF PlainNames, Ups
    <2>5. /\ Cardinality(PlainNames(i-1) \union {i}) = Cardinality(PlainNames(i-1)) + 1
          /\ Cardinality(Ups(i-1) \union {i}) = Cardinality(Ups(i-1)) + 1
        BY <1>1, <2>1, <2>4, FS_AddElement
    <2>6. /\ DepthAfter(name, i) = Cardinality(PlainNames(i)) - Cardinality(Ups(i))
          /\ DepthAfter(name, i-1) = Cardinality(PlainNames(i-1)) - Cardinality(Ups(i-1))
          /\ Cardinality(PlainNames(i-1)) \in Nat /\ Cardinality(Ups(i-1)) \in Nat
        BY <1>2, <1>4, <2>1
    <2>7. CASE name[i] = "."
        BY <2>2, <2>3, <2>6, <2>7 DEF Change
    <2>8. CASE name[i] = ".."
        BY <2>2, <2>3, <2>5, <2>6, <2>8 DEF Change
    <2>9. CASE name[i] \notin {".", ".."}
        BY <2>2, <2>3, <2>5, <2>6, <2>9 DEF Change
    <2> QED  BY <2>7, <2>8, <2>9
<1>6. DepthAfter(name, 0) = 0
    <2>1. 0 \in 0..Len(name)
        OBVIOUS
    <2> HIDE DEF PlainNames, Ups
    <2>2. Cardinality(PlainNames(0)) = 0 /\ Cardinality(Ups(0)) = 0
        BY <1>3, FS_EmptySet
    <2> QED  BY <1>4, <2>1, <2>2
<1>7. \A i \in 0..Len(name) : DepthAfter(name, i) \in Int
    <2> HIDE DEF PlainNames, Ups
    <2> QED  BY <1>2, <1>4
<1> QED  BY <1>5, <1>6, <1>7

(* A walk that begins with plain components, or with "..", and one that is  *)
(* continued.                                                               *)
LEMMA DepthOfPlain ==
    ASSUME NEW name \in Seq(STRING), NEW i \in 0..Len(name),
           \A k \in 1..i : name[k] \notin {".", ".."}
    PROVE  DepthAfter(name, i) = i
<1>1. {k \in 1..i : name[k] \notin {".", ".."}} = 1..i /\ {k \in 1..i : name[k] = ".."} = {}
    OBVIOUS
<1>2. Cardinality({}) = 0
    BY FS_EmptySet
<1>3. i \in Int /\ Cardinality(1..i) = i
    BY FS_Interval
<1>4. DepthAfter(name, i) = Cardinality(1..i) - Cardinality({})
    BY <1>1 DEF DepthAfter
<1> QED  BY <1>2, <1>3, <1>4

(* The same for "..".                                                       *)
LEMMA DepthOfUps ==
    ASSUME NEW name \in Seq(STRING), NEW i \in 0..Len(name), \A k \in 1..i : name[k] = ".."
    PROVE  DepthAfter(name, i) = -i
<1>1. {k \in 1..i : name[k] \notin {".", ".."}} = {} /\ {k \in 1..i : name[k] = ".."} = 1..i
    OBVIOUS
<1>2. Cardinality({}) = 0
    BY FS_EmptySet
<1>3. i \in Int /\ Cardinality(1..i) = i
    BY FS_Interval
<1>4. DepthAfter(name, i) = Cardinality({}) - Cardinality(1..i)
    BY <1>1 DEF DepthAfter
<1> QED  BY <1>2, <1>3, <1>4

(* A walk that goes on with another.                                        *)
LEMMA DepthOfConcat ==
    ASSUME NEW p \in Seq(STRING), NEW t \in Seq(STRING)
    PROVE  \A j \in 0..Len(t) :
             DepthAfter(p \o t, Len(p) + j) = DepthAfter(p \o t, Len(p)) + DepthAfter(t, j)
<1> DEFINE S == {j \in 0..Len(t) :
             DepthAfter(p \o t, Len(p) + j) = DepthAfter(p \o t, Len(p)) + DepthAfter(t, j)}
<1>1. p \o t \in Seq(STRING) /\ Len(p) \in Nat /\ Len(t) \in Nat /\ Len(p \o t) = Len(p) + Len(t)
    BY ConcatProperties
<1>2. \A i \in 0..(Len(p) + Len(t)) : DepthAfter(p \o t, i) \in Int
    BY <1>1, DepthSteps
<1>3. \A j \in 0..Len(t) : DepthAfter(t, j) \in Int
    BY DepthSteps
<1>4. 0 \in S
    <2>1. DepthAfter(t, 0) = 0
        BY DepthSteps
    <2>2. DepthAfter(p \o t, Len(p)) \in Int /\ Len(p) + 0 = Len(p) /\ 0 \in 0..Len(t)
        BY <1>1, <1>2
    <2> QED  BY <2>1, <2>2
<1>5. ASSUME NEW j \in 0..(Len(t) - 1), j \in S PROVE j + 1 \in S
    <2>1. j + 1 \in 1..Len(t) /\ (j + 1) - 1 = j /\ j + 1 \in 0..Len(t) /\ j \in 0..Len(t)
        BY <1>1
    <2> DEFINE delta == Change(t[j+1])
    <2>2. DepthAfter(t, j + 1) = DepthAfter(t, j) + delta
        BY <2>1, DepthSteps
    <2>3. Len(p) + j + 1 \in 1..Len(p \o t) /\ (Len(p) + j + 1) - 1 = Len(p) + j
        BY <1>1, <2>1
    <2>4. (p \o t)[Len(p) + j + 1] = t[j + 1]
        BY <1>1, <2>1
    <2>5. DepthAfter(p \o t, Len(p) + j + 1) = DepthAfter(p \o t, Len(p) + j) + delta
        BY <1>1, <2>3, <2>4, DepthSteps
    <2>6. DepthAfter(p \o t, Len(p) + j) = DepthAfter(p \o t, Len(p)) + DepthAfter(t, j)
        BY <1>5
    <2>7. DepthAfter(p \o t, Len(p)) \in Int /\ DepthAfter(t, j) \in Int /\ delta \in Int
        BY <1>1, <1>2, <1>3, <2>1 DEF Change
    <2> HIDE DEF delta
    <2>8. DepthAfter(p \o t, Len(p) + j + 1) = DepthAfter(p \o t, Len(p)) + DepthAfter(t, j + 1)
        BY <2>2, <2>5, <2>6, <2>7
    <2>9. Len(p) + j + 1 = Len(p) + (j + 1)
        BY <1>1, <2>1
    <2> QED  BY <2>1, <2>8, <2>9
<1>6. 0..Len(t) \subseteq S
    <2> HIDE DEF S
    <2> QED  BY <1>1, <1>4, <1>5, SetInduction
<1> QED  BY <1>6

(* A component more: d is how deep it takes the walk.                       *)
LEMMA CleanStepForm ==
    ASSUME NEW x, NEW u, UpsThenPlain(x, u), NEW c \in STRING, c # "/"
    PROVE  \E v \in {u, u + 1} :
             /\ UpsThenPlain(CleanStep(x, c), v)
             /\ Len(CleanStep(x, c)) - 2*v = Len(x) - 2*u + Change(c)
<1> DEFINE y == CleanStep(x, c)
<1>1. x \in Seq(STRING) /\ u \in Nat /\ Len(x) \in Nat /\ u <= Len(x)
    BY DEF UpsThenPlain
<1>2. Append(x, c) \in Seq(STRING) /\ Len(Append(x, c)) = Len(x) + 1
      /\ Append(x, c)[Len(x) + 1] = c /\ \A k \in 1..Len(x) : Append(x, c)[k] = x[k]
    BY <1>1, AppendProperties
<1>3. CASE c = "."
    <2>1. y = x
        BY <1>3 DEF CleanStep
    <2>2. Len(y) - 2*u = Len(x) - 2*u + Change(c)
        BY <1>1, <1>3, <2>1 DEF Change
    <2> HIDE DEF y
    <2>3. UpsThenPlain(y, u)
        BY <2>1
    <2> QED  BY <2>2, <2>3 DEF y
<1>4. CASE c = ".." /\ u = Len(x)
    <2>1. x # <<"/">>
        BY <1>1, <1>4 DEF UpsThenPlain
    <2>2. x # <<>> => Last(x) = ".."
        BY <1>1, <1>4 DEF UpsThenPlain, Last
    <2>3. y = Append(x, c)
        BY <1>4, <2>1, <2>2 DEF CleanStep
    <2>4. UpsThenPlain(y, u + 1)
        BY <1>1, <1>2, <1>4, <2>3 DEF UpsThenPlain
    <2>5. Change(c) = -1
        BY <1>4 DEF Change
    <2>6. Len(y) = Len(x) + 1
        BY <1>2, <2>3
    <2> HIDE DEF y
    <2>7. Len(y) - 2*(u + 1) = Len(x) - 2*u + Change(c)
        BY <1>1, <2>5, <2>6
    <2> QED  BY <2>4, <2>7 DEF y
<1>5. CASE c = ".." /\ u # Len(x)
    <2>1. Len(x) \in (u+1)..Len(x) /\ x # <<>> /\ Len(x) - 1 \in Nat
        BY <1>1, <1>5
    <2>2. x # <<"/">> /\ Last(x) # ".."
        <3>1. x[Len(x)] \notin {"..", "/"}
            BY <2>1 DEF UpsThenPlain
        <3> QED  BY <3>1 DEF Last
    <2>3. y = SubSeq(x, 1, Len(x) - 1)
        BY <1>5, <2>1, <2>2 DEF CleanStep, Front
    <2>4. y \in Seq(STRING) /\ Len(y) = Len(x) - 1 /\ \A k \in 1..(Len(x) - 1) : y[k] = x[k]
        <3>1. \A k \in 1..(Len(x) - 1) : x[k] \in STRING
            BY <1>1
        <3>2. 1 \in Int /\ Len(x) - 1 \in Int
            BY <2>1
        <3>3. /\ SubSeq(x, 1, Len(x) - 1) \in Seq(STRING)
              /\ Len(SubSeq(x, 1, Len(x) - 1)) = IF 1 <= Len(x) - 1 THEN (Len(x) - 1) - 1 + 1 ELSE 0
              /\ \A k \in 1 .. (Len(x) - 1) - 1 + 1 : SubSeq(x, 1, Len(x) - 1)[k] = x[1 + k - 1]
            BY <3>1, <3>2, SubSeqProperties
        <3> HIDE DEF y
        <3>4. y \in Seq(STRING) /\ Len(y) = Len(x) - 1
            <4>1. \A m \in Nat : (IF 1 <= m THEN m - 1 + 1 ELSE 0) = m
                OBVIOUS
            <4>2. Len(x) - 1 \in Nat
                BY <2>1
            <4>3. (IF 1 <= Len(x) - 1 THEN (Len(x) - 1) - 1 + 1 ELSE 0) = Len(x) - 1
                BY <4>1, <4>2
            <4> QED  BY <2>3, <3>3, <4>3
        <3>5. ASSUME NEW k \in 1..(Len(x) - 1) PROVE y[k] = x[k]
            <4>1. k \in 1 .. (Len(x) - 1) - 1 + 1 /\ 1 + k - 1 = k
                BY <2>1
            <4>2. SubSeq(x, 1, Len(x) - 1)[k] = x[1 + k - 1]
                BY <3>3, <4>1
            <4> QED  BY <2>3, <4>1, <4>2
        <3> QED  BY <3>4, <3>5
    <2> HIDE DEF y
    <2>5. UpsThenPlain(y, u)
        BY <1>1, <1>5, <2>1, <2>4 DEF UpsThenPlain
    <2>6. Len(y) - 2*u = Len(x) - 2*u + Change(c)
        BY <1>1, <1>5, <2>4 DEF Change
    <2> QED  BY <2>5, <2>6 DEF y
<1>6. CASE c \notin {".", ".."}
    <2>1. y = Append(x, c)
        BY <1>6 DEF CleanStep
    <2>2. UpsThenPlain(y, u)
        BY <1>1, <1>2, <1>6, <2>1 DEF UpsThenPlain
    <2>3. Len(y) = Len(x) + 1 /\ Change(c) = 1
        BY <1>2, <1>6, <2>1 DEF Change
    <2> HIDE DEF y
    <2>4. Len(y) - 2*u = Len(x) - 2*u + Change(c)
        BY <1>1, <2>3
    <2> QED  BY <2>2, <2>4 DEF y
<1> QED  BY <1>3, <1>4, <1>5, <1>6

(* A cleaned relative name begins with as many ".." as its walk was above   *)
(* the start at the deepest.                                                *)
LEMMA CleanForm ==
    ASSUME NEW name \in Seq(STRING), \A k \in 1..Len(name) : name[k] # "/"
    PROVE  \E u : /\ UpsThenPlain(Clean(name), u)
                  /\ \A j \in 0..Len(name) : DepthAfter(name, j) >= -u
<1> DEFINE n == Len(name)
<1>1. PICK f \in [0..n -> Seq(STRING)] :
         /\ f[0] = <<>> /\ f[n] = Clean(name)
         /\ \A i \in 1..n : f[i] = CleanStep(f[i-1], name[i])
    BY CleanSteps
<1>2. n \in Nat /\ \A i \in 1..n : name[i] \in STRING
    OBVIOUS
<1> DEFINE Fits(i, u) == /\ UpsThenPlain(f[i], u)
                         /\ DepthAfter(name, i) = Len(f[i]) - 2*u
                         /\ \A j \in 0..i : DepthAfter(name, j) >= -u
<1> DEFINE S == {i \in 0..n : \E u \in Nat : Fits(i, u)}
<1>3. 0 \in S
    <2>1. Fits(0, 0)
        <3>1. UpsThenPlain(<<>>, 0)
            BY DEF UpsThenPlain
        <3>2. DepthAfter(name, 0) = 0
            BY DepthSteps
        <3> QED  BY <1>1, <3>1, <3>2
    <2>2. 0 \in 0..n
        BY <1>2
    <2> HIDE DEF Fits
    <2> QED  BY <2>1, <2>2
<1>4. ASSUME NEW i \in 0..(n-1), i \in S PROVE i + 1 \in S
    <2>1. i + 1 \in 1..n /\ (i + 1) - 1 = i /\ i + 1 \in 0..n /\ i \in 0..n
        BY <1>2
    <2>2. PICK u \in Nat : Fits(i, u)
        BY <1>4
    <2> DEFINE c == name[i+1]
    <2> DEFINE delta == Change(c)
    <2>3. f[i+1] = CleanStep(f[i], c)
        BY <1>1, <2>1
    <2>4. c \in STRING /\ c # "/"
        BY <1>2, <2>1
    <2>5. PICK v \in {u, u + 1} : UpsThenPlain(f[i+1], v) /\ Len(f[i+1]) - 2*v = Len(f[i]) - 2*u + delta
        <3>1. UpsThenPlain(f[i], u)
            BY <2>2
        <3> HIDE DEF c, Fits, S
        <3>2. \E v \in {u, u + 1} :
                 /\ UpsThenPlain(CleanStep(f[i], c), v)
                 /\ Len(CleanStep(f[i], c)) - 2*v = Len(f[i]) - 2*u + Change(c)
            BY <2>4, <3>1, CleanStepForm
        <3> QED  BY <2>3, <3>2
    <2>6. DepthAfter(name, i + 1) = DepthAfter(name, i) + delta
        BY <2>1, DepthSteps
    <2>7. \A j \in 0..n : DepthAfter(name, j) \in Int
        BY DepthSteps
    <2>8. DepthAfter(name, i + 1) = Len(f[i+1]) - 2*v
        BY <2>2, <2>5, <2>6
    <2>9. Len(f[i+1]) \in Nat /\ v \in Nat /\ v <= Len(f[i+1])
        BY <2>5 DEF UpsThenPlain
    <2>10. DepthAfter(name, i + 1) >= -v
        <3>1. Len(f[i+1]) - 2*v >= -v
            BY <2>9
        <3> QED  BY <2>8, <3>1
    <2>11. ASSUME NEW j \in 0..(i+1) PROVE DepthAfter(name, j) >= -v
        <3>1. j = i + 1 \/ j \in 0..i
            BY <2>1
        <3>2. CASE j \in 0..i
            <4>1. DepthAfter(name, j) >= -u /\ DepthAfter(name, j) \in Int
                BY <2>1, <2>2, <2>7, <3>2
            <4> QED  BY <2>5, <4>1
        <3> QED  BY <2>10, <3>1, <3>2
    <2>12. Fits(i + 1, v)
        BY <2>5, <2>8, <2>11
    <2> HIDE DEF Fits
    <2> QED  BY <2>1, <2>9, <2>12
<1>5. 0..n \subseteq S
    <2> HIDE DEF S, n
    <2> QED  BY <1>2, <1>3, <1>4, SetInduction
<1>6. n \in S
    <2>1. n \in 0..n
        BY <1>2
    <2> HIDE DEF S
    <2> QED  BY <1>5, <2>1
<1> QED  BY <1>1, <1>6

(* A name that is local once it is cleaned never climbs out on the way.     *)
LEMMA LocalStaysIn ==
    ASSUME NEW name \in Seq(STRING), \A k \in 1..Len(name) : name[k] # "/", Local(Clean(name))
    PROVE  ~ClimbsOut(name) /\ UpsThenPlain(Clean(name), 0)
<1>1. PICK u : /\ UpsThenPlain(Clean(name), u)
               /\ \A j \in 0..Len(name) : DepthAfter(name, j) >= -u
    BY CleanForm
<1>2. u = 0
    BY <1>1 DEF UpsThenPlain, Local
<1>3. ASSUME NEW i \in 1..Len(name) PROVE ~(DepthAfter(name, i) < 0)
    <2>1. i \in 0..Len(name)
        OBVIOUS
    <2>2. DepthAfter(name, i) \in Int
        BY <2>1, DepthSteps
    <2> QED  BY <1>1, <1>2, <2>1, <2>2
<1> QED  BY <1>1, <1>2, <1>3 DEF ClimbsOut

(* Cleaning what is clean, and turning backslashes where there are none.    *)
LEMMA CleanOfClean ==
    ASSUME NEW x, NEW u, UpsThenPlain(x, u)
    PROVE  Clean(x) = x
<1> DEFINE n == Len(x)
<1>1. x \in Seq(STRING) /\ n \in Nat /\ u \in Nat
    BY DEF UpsThenPlain
<1>2. PICK f \in [0..n -> Seq(STRING)] :
         /\ f[0] = <<>> /\ f[n] = Clean(x)
         /\ \A i \in 1..n : f[i] = CleanStep(f[i-1], x[i])
    BY <1>1, CleanSteps
<1> DEFINE S == {i \in 0..n : Len(f[i]) = i /\ \A k \in 1..i : f[i][k] = x[k]}
<1>3. 0 \in S
    BY <1>1, <1>2
<1>4. ASSUME NEW i \in 0..(n-1), i \in S PROVE i + 1 \in S
    <2> DEFINE d == f[i]
    <2> DEFINE c == x[i+1]
    <2>1. i + 1 \in 1..n /\ (i + 1) - 1 = i /\ i + 1 \in 0..n /\ i \in 0..n
        BY <1>1
    <2>2. d \in Seq(STRING) /\ Len(d) = i /\ \A k \in 1..i : d[k] = x[k]
        BY <1>2, <1>4, <2>1
    <2>3. f[i+1] = CleanStep(d, c)
        BY <1>2, <2>1
    <2>4. c \in STRING /\ c # "." /\ c # "/"
        BY <1>1, <2>1 DEF UpsThenPlain
    <2>5. CleanStep(d, c) = Append(d, c)
        <3>1. CASE c # ".."
            BY <2>4, <3>1 DEF CleanStep
        <3>2. CASE c = ".."
            <4>1. i + 1 <= u
                BY <1>1, <2>1, <3>2 DEF UpsThenPlain
            <4>2. d # <<>> => d[i] = ".." /\ i \in 1..i
                BY <1>1, <2>1, <2>2, <4>1 DEF UpsThenPlain
            <4> HIDE DEF d, c
            <4>3. d # <<>> => Last(d) = ".."
                BY <2>2, <4>2 DEF Last
            <4>4. d # <<"/">>
                <5>1. Last(<<"/">>) = "/" /\ <<"/">> # <<>>
                    BY DEF Last
                <5> QED  BY <4>3, <5>1
            <4> QED  BY <3>2, <4>3, <4>4 DEF CleanStep
        <3> QED  BY <3>1, <3>2
    <2>6. Len(Append(d, c)) = i + 1 /\ \A k \in 1..(i+1) : Append(d, c)[k] = x[k]
        <3> HIDE DEF d
        <3>1. Len(Append(d, c)) = i + 1 /\ Append(d, c)[i + 1] = c /\ \A k \in 1..i : Append(d, c)[k] = d[k]
            BY <2>2, <2>4, AppendProperties
        <3> QED  BY <2>1, <2>2, <3>1
    <2> HIDE DEF d, c
    <2> QED  BY <2>1, <2>3, <2>5, <2>6
<1>5. 0..n \subseteq S
    <2> HIDE DEF S, n
    <2> QED  BY <1>1, <1>3, <1>4, SetInduction
<1>6. n \in S
    <2>1. n \in 0..n
        BY <1>1
    <2> HIDE DEF S, n
    <2> QED  BY <1>5, <2>1
<1>7. Len(Clean(x)) = Len(x) /\ (\A k \in 1..Len(x) : Clean(x)[k] = x[k]) /\ Clean(x) \in Seq(STRING)
    BY <1>1, <1>2, <1>6
<1> QED  BY <1>1, <1>7, SeqEqual

(* A "/" in front stays in front.                                           *)
LEMMA CleanOfAbsolute ==
    ASSUME NEW S, NEW name \in Seq(S), Absolute(name)
    PROVE  Absolute(Clean(name))
<1> DEFINE n == Len(name)
<1>1. PICK f \in [0..n -> Seq(S)] :
         /\ f[0] = <<>> /\ f[n] = Clean(name)
         /\ \A i \in 1..n : f[i] = CleanStep(f[i-1], name[i])
    BY CleanSteps
<1>2. n \in Nat /\ n # 0 /\ \A i \in 1..n : name[i] \in S
    BY DEF Absolute
<1> DEFINE U == {i \in 0..n : i # 0 => Absolute(f[i])}
<1>3. 0 \in U
    BY <1>2
<1>4. ASSUME NEW i \in 0..(n-1), i \in U PROVE i + 1 \in U
    <2> DEFINE d == f[i]
    <2> DEFINE c == name[i+1]
    <2>1. i + 1 \in 1..n /\ (i + 1) - 1 = i /\ i + 1 \in 0..n /\ i \in 0..n
        BY <1>2
    <2>2. f[i+1] = CleanStep(d, c) /\ d \in Seq(S) /\ c \in S
        BY <1>1, <1>2, <2>1
    <2>3. CASE i = 0
        <3>1. d = <<>> /\ c = "/"
            BY <1>1, <2>3 DEF Absolute
        <3>2. CleanStep(d, c) = Append(d, c)
            BY <3>1 DEF CleanStep
        <3>3. Append(d, c) = <<"/">>
            BY <3>1
        <3> QED  BY <2>1, <2>2, <3>2, <3>3 DEF Absolute
    <2>4. CASE i # 0
        <3>1. d # <<>> /\ d[1] = "/" /\ Len(d) \in Nat \ {0}
            BY <1>4, <2>2, <2>4 DEF Absolute
        <3> HIDE DEF d, c
        <3>2. CASE CleanStep(d, c) = d
            BY <2>1, <2>2, <3>1, <3>2 DEF Absolute
        <3>3. CASE CleanStep(d, c) = Append(d, c)
            <4>1. Append(d, c) # <<>> /\ Append(d, c)[1] = d[1]
                BY <2>2, <3>1, AppendProperties
            <4> QED  BY <2>1, <2>2, <3>1, <3>3, <4>1 DEF Absolute
        <3>4. CASE CleanStep(d, c) = Front(d) /\ d # <<"/">>
            <4>1. Len(d) # 1
                <5>1. Len(d) = 1 => d = <<"/">>
                    BY <2>2, <3>1
                <5> QED  BY <3>4, <5>1
            <4>2. Len(d) - 1 \in Nat \ {0}
                BY <3>1, <4>1
            <4>3. Front(d) # <<>> /\ Front(d)[1] = d[1]
                <5>1. \A k \in 1..(Len(d) - 1) : d[k] \in S
                    BY <2>2
                <5>2. 1 \in Int /\ Len(d) - 1 \in Int /\ 1 <= Len(d) - 1 /\ 1 \in 1 .. (Len(d) - 1) - 1 + 1
                    BY <4>2, SMTT(40)
                <5>3. /\ Len(SubSeq(d, 1, Len(d) - 1)) = (Len(d) - 1) - 1 + 1
                      /\ SubSeq(d, 1, Len(d) - 1)[1] = d[1 + 1 - 1]
                    BY <5>1, <5>2, SubSeqProperties
                <5>4. Len(Front(d)) # 0 /\ Front(d)[1] = d[1]
                    BY <4>2, <5>3 DEF Front
                <5> QED  BY <5>4
            <4> QED  BY <2>1, <2>2, <3>1, <3>4, <4>3 DEF Absolute
        <3>5. CleanStep(d, c) \in {d, Append(d, c)} \/ (CleanStep(d, c) = Front(d) /\ d # <<"/">>)
            BY DEF CleanStep
        <3> QED  BY <3>2, <3>3, <3>4, <3>5
    <2> QED  BY <2>3, <2>4
<1>5. 0..n \subseteq U
    <2> HIDE DEF U, n
    <2> QED  BY <1>2, <1>3, <1>4, SetInduction
<1>6. n \in U
    <2>1. n \in 0..n
        BY <1>2
    <2> HIDE DEF U, n
    <2> QED  BY <1>5, <2>1
<1> QED  BY <1>1, <1>2, <1>6

(* Without backslashes nothing is split.                                    *)
LEMMA SlashedSame ==
    ASSUME NEW x \in Seq(STRING \ {Backslashed})
    PROVE  Slashed(x) = x
<1> DEFINE n == Len(x)
<1> DEFINE parts == [i \in DOMAIN x |-> IF x[i] = Backslashed THEN <<"a", "b">> ELSE <<x[i]>>]
<1> DEFINE Body(h) == [i \in 1..Len(parts) |-> IF i = 1 THEN parts[i] ELSE h[i-1] \o parts[i]]
<1> DEFINE flat == CHOOSE h : h = Body(h)
<1>1. n \in Nat /\ DOMAIN x = 1..n /\ \A i \in 1..n : x[i] \in STRING \ {Backslashed}
    OBVIOUS
<1>2. Len(parts) = n /\ \A i \in 1..n : parts[i] = <<x[i]>>
    BY <1>1
<1>3. \A i \in 2..n : SubSeq(x, 1, i) = SubSeq(x, 1, i - 1) \o <<x[i]>>
    <2> SUFFICES ASSUME NEW i \in 2..n PROVE SubSeq(x, 1, i) = SubSeq(x, 1, i - 1) \o <<x[i]>>
        OBVIOUS
    <2>1. 1 \in 1..Len(x) /\ i \in 1..Len(x)
        BY <1>1
    <2> QED  BY <2>1, SubSeqRecursiveSecond
<1>4. n # 0 => SubSeq(x, 1, 1) = <<x[1]>>
    <2> SUFFICES ASSUME n # 0 PROVE SubSeq(x, 1, 1) = <<x[1]>>
        OBVIOUS
    <2>1. 1 \in 1..Len(x)
        BY <1>1
    <2>2. SubSeq(x, 1, 1) = SubSeq(x, 1, 1 - 1) \o <<x[1]>>
        BY <2>1, SubSeqRecursiveSecond
    <2>3. SubSeq(x, 1, 1 - 1) = <<>>
        OBVIOUS
    <2>4. <<x[1]>> \in Seq(STRING)
        BY <1>1, <2>1, ShortSequences
    <2> QED  BY <2>2, <2>3, <2>4, ConcatEmptySeq
<1>5. flat = Body(flat)
    <2> DEFINE f == [i \in 1..n |-> SubSeq(x, 1, i)]
    <2>1. ASSUME NEW i \in 1..n PROVE f[i] = IF i = 1 THEN parts[i] ELSE f[i-1] \o parts[i]
        <3> HIDE DEF parts
        <3>1. i # 1 => i \in 2..n /\ i - 1 \in 1..n
            BY <1>1
        <3>2. CASE i = 1
            BY <1>1, <1>2, <1>4, <3>2
        <3>3. CASE i # 1
            <4>1. f[i] = SubSeq(x, 1, i) /\ f[i-1] = SubSeq(x, 1, i-1)
                BY <3>1, <3>3
            <4> QED  BY <1>2, <1>3, <3>1, <3>3, <4>1
        <3> QED  BY <3>2, <3>3
    <2>2. f = Body(f)
        <3> HIDE DEF parts
        <3>1. \A i \in 1..n : f[i] = IF i = 1 THEN parts[i] ELSE f[i-1] \o parts[i]
            BY <2>1
        <3>2. f = [i \in 1..n |-> f[i]]
            OBVIOUS
        <3> HIDE DEF f
        <3> QED  BY <1>2, <3>1, <3>2
    <2> QED  BY <2>2
<1>6. n # 0 => flat[n] = SubSeq(x, 1, n)
    <2> DEFINE S == {i \in 0..n : i # 0 => flat[i] = SubSeq(x, 1, i)}
    <2>1. 0 \in S
        BY <1>1
    <2>2. ASSUME NEW i \in 0..(n-1), i \in S PROVE i + 1 \in S
        <3> HIDE DEF parts, flat
        <3>1. i + 1 \in 1..n /\ i + 1 \in 0..n /\ (i + 1) - 1 = i
            BY <1>1
        <3>2. flat[i+1] = IF i + 1 = 1 THEN parts[i+1] ELSE flat[i] \o parts[i+1]
            BY <1>2, <1>5, <3>1
        <3>3. CASE i = 0
            BY <1>1, <1>2, <1>4, <3>1, <3>2, <3>3
        <3>4. CASE i # 0
            <4>1. i + 1 \in 2..n /\ i + 1 # 1
                BY <1>1, <3>1, <3>4
            <4>2. SubSeq(x, 1, i + 1) = SubSeq(x, 1, i) \o <<x[i+1]>>
                BY <1>3, <3>1, <4>1
            <4> QED  BY <1>2, <2>2, <3>1, <3>2, <3>4, <4>1, <4>2
        <3> QED  BY <3>3, <3>4
    <2>3. 0..n \subseteq S
        <3> HIDE DEF S, n
        <3> QED  BY <1>1, <2>1, <2>2, SetInduction
    <2>4. n \in S
        <3>1. n \in 0..n
            BY <1>1
        <3> HIDE DEF S, n
        <3> QED  BY <2>3, <3>1
    <2> QED  BY <2>4
<1>7. CASE n = 0
    <2>1. x = <<>> /\ parts = <<>>
        BY <1>1, <1>2, <1>7
    <2> QED  BY <1>2, <1>7, <2>1 DEF Slashed, FlattenSeq
<1>8. CASE n # 0
    <2>1. Slashed(x) = flat[n]
        BY <1>1, <1>2, <1>8 DEF Slashed, FlattenSeq
    <2>2. SubSeq(x, 1, n) = x
        BY SubSeqFull
    <2> QED  BY <1>6, <1>8, <2>1, <2>2
<1> QED  BY <1>7, <1>8

(* What package archive makes of a name.                                    *)
LEMMA NormalNames ==
    ASSUME NEW name, IsName(name)
    PROVE  /\ Slashed(name) \in Seq(STRING) /\ Normal(name) \in Seq(STRING)
           /\ Slashed(Normal(name)) = Normal(name)
           /\ Absolute(Slashed(name)) => Absolute(Normal(name))
           /\ ~Absolute(Slashed(name)) =>
                /\ \A k \in 1..Len(Slashed(name)) : Slashed(name)[k] # "/"
                /\ \E u : UpsThenPlain(Normal(name), u)
<1> DEFINE C == STRING \ {Backslashed}
<1>1. name \in Seq(STRING)
    BY DEF IsName
<1>2. Slashed(name) \in Seq(C)
    BY <1>1, SlashedNames
<1>3. Normal(name) \in Seq(C)
    <2> HIDE DEF C
    <2>1. PICK f \in [0..Len(Slashed(name)) -> Seq(C)] : f[Len(Slashed(name))] = Clean(Slashed(name))
        BY <1>2, CleanSteps
    <2>2. Len(Slashed(name)) \in 0..Len(Slashed(name))
        BY <1>2
    <2> QED  BY <2>1, <2>2 DEF Normal
<1>4. Seq(C) \subseteq Seq(STRING)
    <2>1. C \subseteq STRING
        OBVIOUS
    <2> HIDE DEF C
    <2> QED  BY <2>1, SeqMonotonic
<1>5. Slashed(Normal(name)) = Normal(name)
    BY <1>3, SlashedSame
<1>6. Absolute(Slashed(name)) => Absolute(Normal(name))
    <2> HIDE DEF C
    <2> QED  BY <1>2, CleanOfAbsolute DEF Normal
<1>7. Slashed(name) \in Seq(STRING)
    BY <1>2, <1>4
<1>8. ASSUME ~Absolute(Slashed(name))
      PROVE  /\ \A k \in 1..Len(Slashed(name)) : Slashed(name)[k] # "/"
             /\ \E u : UpsThenPlain(Normal(name), u)
    <2>1. \A k \in 1..Len(Slashed(name)) : Slashed(name)[k] # "/"
        BY <1>1, <1>8, SlashedNames
    <2>2. \E u : UpsThenPlain(Clean(Slashed(name)), u)
        BY <1>7, <2>1, CleanForm
    <2> QED  BY <2>1, <2>2 DEF Normal
<1> QED  BY <1>3, <1>4, <1>5, <1>6, <1>7, <1>8

(* A name that extraction takes does not climb out, however it is written:  *)
(* validateExtractionPath only looks at its cleaned form.                   *)
LEMMA ValidNameStaysIn ==
    ASSUME NEW name, IsName(name), NEW max, NEW dir, ValidPath(Normal(name), max, dir)
    PROVE  /\ ~Absolute(Slashed(name)) /\ ~ClimbsOut(Slashed(name))
           /\ UpsThenPlain(Normal(name), 0)
<1>1. Slashed(Normal(name)) = Normal(name)
    BY NormalNames
<1>2. ~Absolute(Slashed(name))
    BY <1>1, NormalNames DEF ValidPath
<1>3. PICK u : UpsThenPlain(Normal(name), u)
    BY <1>2, NormalNames
<1>4. Normal(Normal(name)) = Normal(name)
    BY <1>1, <1>3, CleanOfClean DEF Normal
<1>5. Local(Clean(Slashed(name)))
    BY <1>4 DEF ValidPath, Normal
<1>6. Slashed(name) \in Seq(STRING) /\ \A k \in 1..Len(Slashed(name)) : Slashed(name)[k] # "/"
    BY <1>2, NormalNames
<1> QED  BY <1>2, <1>5, <1>6, LocalStaysIn DEF Normal

(* The parent of a path that goes down only.                                *)
LEMMA ParentOfPlain ==
    ASSUME NEW path, UpsThenPlain(path, 0)
    PROVE  /\ UpsThenPlain(Parent(path), 0)
           /\ path # <<>> => Len(Parent(path)) = Len(path) - 1
           /\ \A k \in 1..Len(Parent(path)) : Parent(path)[k] = path[k]
<1>1. path \in Seq(STRING) /\ Len(path) \in Nat
    BY DEF UpsThenPlain
<1>2. CASE Len(path) <= 1
    <2>1. Parent(path) = <<>>
        BY <1>2 DEF Parent
    <2>2. UpsThenPlain(<<>>, 0) /\ Len(<<>>) = 0
        BY DEF UpsThenPlain
    <2>3. path # <<>> => Len(path) = 1
        <3>1. path # <<>> => Len(path) # 0
            BY <1>1, EmptySeq
        <3>2. \A m \in Nat : m <= 1 /\ m # 0 => m = 1
            OBVIOUS
        <3> QED  BY <1>1, <1>2, <3>1, <3>2
    <2> QED  BY <2>1, <2>2, <2>3
<1>3. CASE Len(path) > 1
    <2> DEFINE p == SubSeq(path, 1, Len(path) - 1)
    <2>1. Parent(path) = p
        BY <1>1, <1>3 DEF Parent, Front
    <2>2. \A k \in 1..(Len(path) - 1) : path[k] \in STRING
        BY <1>1
    <2>3. 1 \in Int /\ Len(path) - 1 \in Int /\ 1 <= Len(path) - 1 /\ (Len(path) - 1) - 1 + 1 = Len(path) - 1
        BY <1>1, <1>3
    <2>4. p \in Seq(STRING) /\ Len(p) = (Len(path) - 1) - 1 + 1
          /\ \A k \in 1..((Len(path) - 1) - 1 + 1) : p[k] = path[1 + k - 1]
        BY <2>2, <2>3, SubSeqProperties
    <2>5. Len(p) = Len(path) - 1 /\ \A k \in 1..(Len(path) - 1) : p[k] = path[k]
        BY <2>3, <2>4
    <2> HIDE DEF p
    <2>6. UpsThenPlain(p, 0)
        BY <1>1, <2>4, <2>5 DEF UpsThenPlain
    <2> QED  BY <2>1, <2>5, <2>6
<1> QED  BY <1>1, <1>2, <1>3

(* A target that extraction takes does not climb out from where its link    *)
(* is: validateSymlinkTarget only looks at the two cleaned.                 *)
LEMMA ValidTargetStaysIn ==
    ASSUME NEW path, UpsThenPlain(path, 0), NEW to, IsName(to), NEW max,
           ValidTarget(path, to, max)
    PROVE  /\ ~ClimbsOut(Parent(path) \o Slashed(to))
           /\ \E u \in 0..Len(Parent(path)) : UpsThenPlain(Normal(to), u)
<1> DEFINE p == Parent(path)
<1> DEFINE t == Slashed(to)
<1> DEFINE c == Normal(to)
<1>1. UpsThenPlain(p, 0)
    BY ParentOfPlain
<1>2. ~Absolute(t) /\ Local(Clean(p \o c))
    BY DEF ValidTarget
<1>3. t \in Seq(STRING) /\ \A k \in 1..Len(t) : t[k] # "/"
    BY <1>2, NormalNames
<1>4. PICK u : UpsThenPlain(c, u) /\ \A j \in 0..Len(t) : DepthAfter(t, j) >= -u
    BY <1>3, CleanForm DEF Normal
<1> HIDE DEF p, t, c
<1>5. /\ p \in Seq(STRING) /\ Len(p) \in Nat
      /\ \A k \in 1..Len(p) : p[k] \notin {".", "..", "/"}
    BY <1>1 DEF UpsThenPlain
<1>6. /\ c \in Seq(STRING) /\ u \in Nat /\ u <= Len(c) /\ Len(c) \in Nat
      /\ \A k \in 1..u : c[k] = ".."
      /\ \A k \in 1..Len(c) : c[k] # "/"
    BY <1>4 DEF UpsThenPlain
<1>7. p \o c \in Seq(STRING) /\ Len(p \o c) = Len(p) + Len(c) /\ p \o t \in Seq(STRING) /\ Len(p \o t) = Len(p) + Len(t)
    BY <1>3, <1>5, <1>6, ConcatProperties
<1>8. \A k \in 1..Len(p) : (p \o c)[k] = p[k] /\ (p \o t)[k] = p[k]
    BY <1>3, <1>5, <1>6
<1>9. \A k \in 1..Len(p \o c) : (p \o c)[k] # "/"
    BY <1>5, <1>6, <1>7
<1>10. Len(p) - u >= 0
    <2>1. \A j \in 0..Len(p \o c) : j = 0 \/ ~(DepthAfter(p \o c, j) < 0)
        <3>1. ~ClimbsOut(p \o c)
            BY <1>2, <1>7, <1>9, LocalStaysIn
        <3> QED  BY <1>7, <3>1 DEF ClimbsOut
    <2>2. DepthAfter(p \o c, Len(p)) = Len(p)
        <3>1. Len(p) \in 0..Len(p \o c) /\ \A k \in 1..Len(p) : (p \o c)[k] \notin {".", ".."}
            BY <1>5, <1>6, <1>7, <1>8
        <3> QED  BY <1>7, <3>1, DepthOfPlain
    <2>3. u \in 0..Len(c) /\ Len(p) + u \in 0..Len(p \o c)
        BY <1>5, <1>6, <1>7
    <2>4. DepthAfter(c, u) = -u
        BY <1>6, <2>3, DepthOfUps
    <2>5. DepthAfter(p \o c, Len(p) + u) = Len(p) - u
        <3>1. DepthAfter(p \o c, Len(p) + u) = DepthAfter(p \o c, Len(p)) + DepthAfter(c, u)
            BY <1>5, <1>6, <2>3, DepthOfConcat
        <3> QED  BY <1>5, <1>6, <2>2, <2>4, <3>1
    <2>6. CASE Len(p) + u = 0
        BY <1>5, <1>6, <2>6
    <2>7. CASE Len(p) + u # 0
        <3>1. ~(Len(p) - u < 0)
            BY <2>1, <2>3, <2>5, <2>7
        <3> QED  BY <1>5, <1>6, <3>1
    <2> QED  BY <2>6, <2>7
<1>11. \A k \in 1..Len(p) : (p \o t)[k] \notin {".", ".."}
    BY <1>5, <1>8
<1>12. \A i \in 0..Len(p) : DepthAfter(p \o t, i) = i
    <2> SUFFICES ASSUME NEW i \in 0..Len(p) PROVE DepthAfter(p \o t, i) = i
        OBVIOUS
    <2>1. i \in 0..Len(p \o t) /\ \A k \in 1..i : (p \o t)[k] \notin {".", ".."}
        <3>1. Len(t) \in Nat
            BY <1>3
        <3> QED  BY <1>5, <1>7, <1>11, <3>1
    <2> QED  BY <1>7, <2>1, DepthOfPlain
<1>13. ASSUME NEW i \in 1..Len(p \o t) PROVE ~(DepthAfter(p \o t, i) < 0)
    <2>1. CASE i <= Len(p)
        <3>1. i \in 0..Len(p)
            BY <1>5, <2>1
        <3>2. DepthAfter(p \o t, i) = i
            BY <1>12, <3>1
        <3> QED  BY <3>2
    <2>2. CASE i > Len(p)
        <3> DEFINE j == i - Len(p)
        <3>1. Len(t) \in Nat
            BY <1>3
        <3>2. j \in 0..Len(t) /\ i = Len(p) + j
            BY <1>5, <1>7, <2>2, <3>1
        <3>3. Len(p) \in 0..Len(p)
            BY <1>5
        <3> HIDE DEF j
        <3>4. DepthAfter(p \o t, i) = Len(p) + DepthAfter(t, j)
            BY <1>3, <1>5, <1>12, <3>2, <3>3, DepthOfConcat
        <3>5. DepthAfter(t, j) \in Int /\ DepthAfter(t, j) >= -u
            BY <1>3, <1>4, <3>2, DepthSteps
        <3> QED  BY <1>5, <1>6, <1>10, <3>4, <3>5
    <2> QED  BY <1>5, <2>1, <2>2
<1>14. u \in 0..Len(p)
    BY <1>5, <1>6, <1>10
<1> QED  BY <1>4, <1>13, <1>14 DEF ClimbsOut, p, t, c

(* A container with something wrong is not extractable, whatever the limits *)
(* and the selection.                                                       *)
LEMMA BadRefused ==
    ASSUME NEW a, EntriesOK(a.entries), Bad(a), NEW l, NEW sel, Extractable(l, a, sel)
    PROVE  FALSE
<1>1. DOMAIN a.entries = 1..Len(a.entries) /\ Len(a.entries) \in Nat
    BY DEF EntriesOK
<1>2. ~\E i, j \in DOMAIN a.entries : i # j /\ Normal(a.entries[i].name) = Normal(a.entries[j].name)
    <2> SUFFICES ASSUME NEW i \in DOMAIN a.entries, NEW j \in DOMAIN a.entries, i # j,
                        Normal(a.entries[i].name) = Normal(a.entries[j].name)
                 PROVE  FALSE
        OBVIOUS
    <2>1. \A x \in DOMAIN a.entries : \A y \in 1..x-1 : Normal(a.entries[y].name) # Normal(a.entries[x].name)
        BY DEF Extractable, Listed
    <2>2. i \in 1..j-1 \/ j \in 1..i-1
        BY <1>1
    <2> QED  BY <2>1, <2>2
<1>3. PICK e \in EntrySet(a) :
         \/ Absolute(Slashed(e.name)) \/ ClimbsOut(Slashed(e.name)) \/ e.type = "other"
         \/ /\ e.type = "symlink"
            /\ \/ e.link = <<>> \/ Absolute(Slashed(e.link))
               \/ ClimbsOut(Parent(Normal(e.name)) \o Slashed(e.link))
         \/ /\ e.type = "hardlink"
            /\ ~\E t \in EntrySet(a) : t.type = "regular" /\ Normal(t.name) = Normal(e.link)
    BY <1>2 DEF Bad
<1>4. IsName(e.name) /\ IsName(e.link)
    BY DEF EntrySet, ToSet, EntriesOK
<1>5. ValidEntry(l, e) /\ LinksToRegular(a)
    BY DEF Extractable
<1>6. /\ ~Absolute(Slashed(e.name)) /\ ~ClimbsOut(Slashed(e.name)) /\ e.type # "other"
      /\ UpsThenPlain(Normal(e.name), 0)
    BY <1>4, <1>5, ValidNameStaysIn DEF ValidEntry
<1>7. CASE e.type = "symlink"
    <2>1. ValidTarget(Normal(e.name), e.link, l.path)
        BY <1>5, <1>7 DEF ValidEntry
    <2>2. e.link # <<>> /\ ~Absolute(Slashed(e.link))
        BY <2>1 DEF ValidTarget
    <2>3. ~ClimbsOut(Parent(Normal(e.name)) \o Slashed(e.link))
        BY <1>4, <1>6, <2>1, ValidTargetStaysIn
    <2> QED  BY <1>3, <1>6, <1>7, <2>2, <2>3
<1>8. CASE e.type = "hardlink"
    BY <1>3, <1>5, <1>6, <1>8 DEF LinksToRegular
<1> QED  BY <1>3, <1>6, <1>7, <1>8

-----------------------------------------------------------------------------
(* Trees that grow                                                          *)

(* The directories on the way to a name are prefixes of it.                 *)
LEMMA PathsArePrefixes ==
    ASSUME NEW n \in Seq(STRING)
    PROVE  /\ \A p \in PathsTo(n) : p \in Seq(STRING) /\ IsPrefix(p, n)
           /\ n # <<>> => n \in PathsTo(n)
<1>1. Len(n) \in Nat /\ \A k \in 1..Len(n) : n[k] \in STRING
    OBVIOUS
<1>2. ASSUME NEW p \in PathsTo(n) PROVE p \in Seq(STRING) /\ IsPrefix(p, n)
    <2>1. PICK i \in 1..Len(n) : p = SubSeq(n, 1, i)
        BY <1>2 DEF PathsTo
    <2>2. \A k \in 1..i : n[k] \in STRING
        BY <1>1, <2>1
    <2>3. 1 \in Int /\ i \in Int /\ 1 <= i /\ i - 1 + 1 = i /\ i \in 0..Len(n) /\ i <= Len(n)
        BY <1>1, <2>1
    <2>4. p \in Seq(STRING) /\ Len(p) = i
        BY <2>1, <2>2, <2>3, SubSeqProperties
    <2>5. SubSeq(p, 1, Len(p)) = p
        BY <2>4, SubSeqFull
    <2> QED  BY <2>1, <2>3, <2>4, <2>5 DEF IsPrefix
<1>3. ASSUME n # <<>> PROVE n \in PathsTo(n)
    <2>1. Len(n) # 0
        BY <1>3, EmptySeq
    <2>2. Len(n) \in 1..Len(n)
        BY <1>1, <2>1
    <2>3. SubSeq(n, 1, Len(n)) = n
        BY SubSeqFull
    <2> QED  BY <2>2, <2>3 DEF PathsTo
<1> QED  BY <1>2, <1>3

(* So are those on the way to its parent.                                   *)
LEMMA ParentPaths ==
    ASSUME NEW n \in Seq(STRING)
    PROVE  Parent(n) \in Seq(STRING) /\ \A p \in PathsTo(Parent(n)) : IsPrefix(p, n)
<1>1. Len(n) \in Nat /\ \A k \in 1..Len(n) : n[k] \in STRING
    OBVIOUS
<1>2. CASE Len(n) <= 1
    <2>1. Parent(n) = <<>>
        BY <1>2 DEF Parent
    <2>2. PathsTo(<<>>) = {} /\ <<>> \in Seq(STRING)
        BY DEF PathsTo
    <2> QED  BY <2>1, <2>2
<1>3. CASE Len(n) > 1
    <2> DEFINE m == Len(n) - 1
    <2>1. Parent(n) = SubSeq(n, 1, m)
        BY <1>1, <1>3 DEF Parent, Front
    <2>2. m \in 1..Len(n) /\ m \in Nat /\ m <= Len(n)
        BY <1>1, <1>3
    <2> HIDE DEF m
    <2>3. SubSeq(n, 1, m) \in PathsTo(n)
        BY <2>2 DEF PathsTo
    <2>4. SubSeq(n, 1, m) \in Seq(STRING) /\ Len(SubSeq(n, 1, m)) = m
        <3>1. \A k \in 1..m : n[k] \in STRING
            BY <1>1, <2>2
        <3>2. 1 \in Int /\ m \in Int /\ 1 <= m /\ m - 1 + 1 = m
            BY <2>2
        <3> QED  BY <3>1, <3>2, SubSeqProperties
    <2>5. ASSUME NEW p \in PathsTo(SubSeq(n, 1, m)) PROVE IsPrefix(p, n)
        <3>1. PICK i \in 1..m : p = SubSeq(SubSeq(n, 1, m), 1, i)
            BY <2>4, <2>5 DEF PathsTo
        <3>2. 1 \in 1..Len(n) /\ m \in 1..Len(n) /\ 1 \in 1..(m - 1 + 1) /\ i \in 1..(m - 1 + 1)
              /\ 1 + 1 - 1 = 1 /\ 1 + i - 1 = i /\ i \in 1..Len(n)
            BY <1>1, <2>2, <3>1
        <3>3. SubSeq(SubSeq(n, 1, m), 1, i) = SubSeq(n, 1 + 1 - 1, 1 + i - 1)
            BY <3>2, SubSeqOfSubSeq
        <3>4. p = SubSeq(n, 1, i)
            BY <3>1, <3>2, <3>3
        <3>5. p \in PathsTo(n)
            BY <3>2, <3>4 DEF PathsTo
        <3> QED  BY <3>5, PathsArePrefixes
    <2> QED  BY <2>1, <2>4, <2>5
<1> QED  BY <1>1, <1>2, <1>3

(* Directories that were missing are there, and nothing else has changed.   *)
LEMMA GrowDirectories ==
    ASSUME NEW t, IsTree(t), NEW n \in Seq(STRING), CanMakeDirectory(t, n)
    PROVE  /\ IsTree(WithDirectories(t, n))
           /\ DOMAIN WithDirectories(t, n) = DOMAIN t \union PathsTo(n)
           /\ \A p \in DOMAIN t : WithDirectories(t, n)[p] = t[p]
           /\ \A p \in PathsTo(n) \ DOMAIN t : WithDirectories(t, n)[p] = NewDirectory
           /\ n \in DOMAIN WithDirectories(t, n) /\ WithDirectories(t, n)[n].kind = "directory"
<1> DEFINE t2 == WithDirectories(t, n)
<1>1. DOMAIN t2 = DOMAIN t \union PathsTo(n)
    BY DEF WithDirectories
<1>2. \A p \in DOMAIN t : t2[p] = t[p]
    BY DEF WithDirectories
<1>3. \A p \in PathsTo(n) \ DOMAIN t : t2[p] = NewDirectory
    BY DEF WithDirectories
<1>4. NewDirectory \in Node /\ NewDirectory.kind = "directory"
    <2>1. <<>> \in Seq(STRING)
        OBVIOUS
    <2>2. "default" \in STRING
        BY LiteralsAssumption
    <2> QED  BY <2>1, <2>2 DEF NewDirectory, Node
<1>5. t2 \in [DOMAIN t2 -> Node]
    <2>1. t2 = [p \in DOMAIN t2 |-> t2[p]]
        BY DEF WithDirectories
    <2>2. \A p \in DOMAIN t2 : t2[p] \in Node
        BY <1>1, <1>2, <1>3, <1>4 DEF IsTree
    <2> HIDE DEF t2
    <2> QED  BY <2>1, <2>2
<1>6. n \in DOMAIN t2 /\ t2[n].kind = "directory"
    <2>1. CASE n \in DOMAIN t
        BY <1>1, <1>2, <2>1 DEF CanMakeDirectory
    <2>2. CASE n \notin DOMAIN t
        <3>1. n \in PathsTo(n)
            BY <2>2, PathsArePrefixes DEF IsTree
        <3> QED  BY <1>1, <1>3, <1>4, <2>2, <3>1
    <2> QED  BY <2>1, <2>2
<1> HIDE DEF t2
<1>7. IsTree(t2)
    <2>1. <<>> \in DOMAIN t2 /\ t2[<<>>].kind = "directory"
        BY <1>1, <1>2 DEF IsTree
    <2>2. ASSUME NEW p \in DOMAIN t2, t2[p].kind = "file"
          PROVE  t2[p] = File(t2[p].ino) /\ t2[p].ino \in DOMAIN t2 /\ t2[t2[p].ino] = t2[p]
        <3>1. p \in DOMAIN t
            BY <1>1, <1>3, <1>4, <2>2
        <3> QED  BY <1>1, <1>2, <2>2, <3>1 DEF IsTree
    <2> QED  BY <1>5, <2>1, <2>2 DEF IsTree
<1> QED  BY <1>1, <1>2, <1>3, <1>6, <1>7 DEF t2

(* A node for a name that is free, or the same node again.                  *)
Fits(t, n, node) ==
    /\ node \in Node
    /\ n \in DOMAIN t => t[n] = node
    /\ node.kind = "file" => /\ node = File(node.ino)
                             /\ node.ino = n \/ (node.ino \in DOMAIN t /\ t[node.ino] = node)

(* A tree with one more name, at the most.                                  *)
Extended(t, t2, n, node) ==
    DOMAIN t2 = DOMAIN t \union {n} /\ t2[n] = node /\ \A p \in DOMAIN t : t2[p] = t[p]

(* With it a tree is a tree.                                                *)
LEMMA GrowNode ==
    ASSUME NEW t, IsTree(t), NEW n, NEW node, Fits(t, n, node)
    PROVE  IsTree(With(t, n, node)) /\ Extended(t, With(t, n, node), n, node)
<1> DEFINE t2 == With(t, n, node)
<1>1. DOMAIN t2 = DOMAIN t \union {n} /\ t2[n] = node
    BY DEF With
<1>6. /\ node \in Node
      /\ n \in DOMAIN t => t[n] = node
      /\ node.kind = "file" => /\ node = File(node.ino)
                               /\ node.ino = n \/ (node.ino \in DOMAIN t /\ t[node.ino] = node)
    BY DEF Fits
<1>2. \A p \in DOMAIN t : t2[p] = t[p]
    BY <1>6 DEF With
<1>3. t2 \in [DOMAIN t2 -> Node]
    <2>1. t2 = [p \in DOMAIN t2 |-> t2[p]]
        BY DEF With
    <2>2. \A p \in DOMAIN t2 : t2[p] \in Node
        BY <1>1, <1>2, <1>6 DEF IsTree
    <2> HIDE DEF t2
    <2> QED  BY <2>1, <2>2
<1> HIDE DEF t2
<1>4. <<>> \in DOMAIN t2 /\ t2[<<>>].kind = "directory"
    BY <1>1, <1>2 DEF IsTree
<1>5. ASSUME NEW p \in DOMAIN t2, t2[p].kind = "file"
      PROVE  t2[p] = File(t2[p].ino) /\ t2[p].ino \in DOMAIN t2 /\ t2[t2[p].ino] = t2[p]
    <2>1. CASE p \in DOMAIN t
        BY <1>1, <1>2, <1>5, <2>1 DEF IsTree
    <2>2. CASE p \notin DOMAIN t
        <3>1. p = n /\ t2[p] = node
            BY <1>1, <2>2
        <3> QED  BY <1>1, <1>2, <1>5, <1>6, <3>1
    <2> QED  BY <2>1, <2>2
<1>7. IsTree(t2)
    BY <1>3, <1>4, <1>5 DEF IsTree
<1>8. Extended(t, t2, n, node)
    BY <1>1, <1>2 DEF Extended
<1> QED  BY <1>7, <1>8 DEF t2

-----------------------------------------------------------------------------
(* A call under way                                                         *)

(* What an extraction works on was checked.                                 *)
LEMMA CheckedItems ==
    ASSUME NEW l, NEW a, NEW sel, EntriesOK(a.entries), Extractable(l, a, sel), NEW i \in Picked(a, sel)
    PROVE  LET e == Item(a, i)
           IN  /\ i \in DOMAIN a.entries
               /\ e \in Chosen(a, sel) /\ e.type = a.entries[i].type
               /\ e.type \in Types \ {"other"}
               /\ e.name \in Seq(STRING) /\ e.link \in Seq(STRING) /\ e.mode \in STRING
               /\ e.data = a.entries[i].data /\ e.whole = a.entries[i].whole
               /\ e.name = <<>> => e.type = "directory"
<1> DEFINE r == a.entries[i]
<1> DEFINE e == Item(a, i)
<1>1. i \in DOMAIN a.entries /\ r \in EntryType /\ IsName(r.name) /\ IsName(r.link)
    BY DEF EntriesOK, Picked
<1>2. /\ e.name = Normal(r.name) /\ e.link = Normal(r.link) /\ e.type = r.type /\ e.mode = r.mode
      /\ e.data = r.data /\ e.whole = r.whole
    BY <1>1 DEF Item, Normalized, EntryType
<1>3. Normal(r.name) \in Seq(STRING) /\ Normal(r.link) \in Seq(STRING) /\ Slashed(Normal(r.name)) = Normal(r.name)
    BY <1>1, NormalNames
<1>4. ValidEntry(l, r)
    <2>1. r \in EntrySet(a)
        BY <1>1 DEF EntrySet, ToSet
    <2> QED  BY <2>1 DEF Extractable
<1>5. r.type \in Types \ {"other"}
    BY <1>1, <1>4 DEF ValidEntry, EntryType
<1>6. Normal(r.name) = <<>> => r.type = "directory"
    <2> SUFFICES ASSUME Normal(r.name) = <<>> PROVE r.type = "directory"
        OBVIOUS
    <2>1. Normal(Normal(r.name)) = Clean(<<>>)
        BY <1>3 DEF Normal
    <2>2. UpsThenPlain(<<>>, 0)
        BY DEF UpsThenPlain
    <2>3. Clean(<<>>) = <<>>
        BY <2>2, CleanOfClean
    <2> QED  BY <1>4, <2>1, <2>3 DEF ValidEntry, ValidPath
<1>7. e \in Chosen(a, sel)
    BY DEF Chosen
<1>8. r.mode \in STRING
    BY <1>1 DEF EntryType
<1> HIDE DEF e, r
<1>9. e.type \in Types \ {"other"} /\ e.mode \in STRING /\ e.name \in Seq(STRING) /\ e.link \in Seq(STRING)
    BY <1>2, <1>3, <1>5, <1>8
<1>10. e.name = <<>> => e.type = "directory"
    BY <1>2, <1>6
<1> QED  BY <1>1, <1>2, <1>7, <1>9, <1>10 DEF e, r

(* So what is left of a call was.                                           *)
LEMMA WorkItems ==
    ASSUME IInv, pc = "extract"
    PROVE  /\ call.work \subseteq Picked(archive, call.sel)
           /\ \A i \in Picked(archive, call.sel) :
                /\ Item(archive, i) \in Wanted
                /\ Item(archive, i).type = archive.entries[i].type
                /\ Item(archive, i).name \in Seq(STRING) /\ Item(archive, i).link \in Seq(STRING)
                /\ Item(archive, i).mode \in STRING
           /\ \A i \in call.work : Item(archive, i).name # <<>>
<1>1. EntriesOK(archive.entries) /\ Extractable(limits, archive, call.sel)
      /\ call.work \subseteq {i \in Picked(archive, call.sel) : Item(archive, i).name # <<>>}
    BY DEF IInv, ContainersOK, CallOK, Running
<1>2. ASSUME NEW i \in Picked(archive, call.sel)
      PROVE  /\ Item(archive, i) \in Wanted
             /\ Item(archive, i).type = archive.entries[i].type
             /\ Item(archive, i).name \in Seq(STRING) /\ Item(archive, i).link \in Seq(STRING)
             /\ Item(archive, i).mode \in STRING
    <2>1. LET e == Item(archive, i)
          IN  /\ i \in DOMAIN archive.entries
              /\ e \in Chosen(archive, call.sel) /\ e.type = archive.entries[i].type
              /\ e.type \in Types \ {"other"}
              /\ e.name \in Seq(STRING) /\ e.link \in Seq(STRING) /\ e.mode \in STRING
              /\ e.data = archive.entries[i].data /\ e.whole = archive.entries[i].whole
              /\ e.name = <<>> => e.type = "directory"
        BY <1>1, CheckedItems
    <2> QED  BY <2>1 DEF Wanted
<1> QED  BY <1>1, <1>2

(* No two entries have the same name.                                       *)
LEMMA NamesDiffer ==
    ASSUME IInv, Running, NEW i \in Picked(archive, call.sel), NEW j \in Picked(archive, call.sel),
           Item(archive, i).name = Item(archive, j).name
    PROVE  i = j
<1>1. i \in DOMAIN archive.entries /\ j \in DOMAIN archive.entries
    BY DEF Picked
<1>2. DOMAIN archive.entries = 1..Len(archive.entries) /\ Len(archive.entries) \in Nat
      /\ archive.entries[i] \in EntryType /\ archive.entries[j] \in EntryType
    BY <1>1 DEF IInv, ContainersOK, EntriesOK
<1>3. Normal(archive.entries[i].name) = Normal(archive.entries[j].name)
    BY <1>2 DEF Item, Normalized, EntryType
<1>4. \A x \in DOMAIN archive.entries : \A y \in 1..x-1 :
         Normal(archive.entries[y].name) # Normal(archive.entries[x].name)
    BY DEF IInv, CallOK, Extractable, Listed
<1>5. ~(i \in 1..j-1) /\ ~(j \in 1..i-1)
    BY <1>1, <1>3, <1>4
<1> QED  BY <1>1, <1>2, <1>5

(* A step that ends a call leaves what is known of it.                      *)
LEMMA StopKeeps ==
    ASSUME IInv, pc = "extract", pc' = "idle", result' \in {"failed", "cancelled"},
           UNCHANGED <<writing, input, call, calls>>
    PROVE  /\ CallsInOrder' /\ ContainersOK' /\ CallType' /\ CallOK'
           /\ RefusedUntouched' /\ NewNames' /\ Placed'
<1>1. archive' = archive /\ source' = source /\ packed' = packed /\ limits' = limits
      /\ call' = call /\ calls' = calls
    BY DEF writing, input
<1>2. CallsInOrder'
    BY <1>1 DEF IInv, CallsInOrder
<1>3. ContainersOK' /\ CallType'
    BY <1>1 DEF IInv, ContainersOK, CallType
<1>4. ~Running'
    BY DEF Running
<1>5. CallOK' /\ Placed'
    BY <1>4 DEF CallOK, Placed
<1>6. NewNames'
    BY DEF NewNames
<1>7. Extractable(limits, archive, call.sel)
    BY DEF IInv, CallOK, Running
<1>8. RefusedUntouched'
    BY <1>1, <1>7 DEF RefusedUntouched
<1> QED  BY <1>2, <1>3, <1>5, <1>6, <1>8

(* So does a step that finishes an entry; the entry is one of the finished. *)
LEMMA DoneKeeps ==
    ASSUME IInv, pc = "extract", NEW i \in call.work, Done(i), UNCHANGED <<writing, input, calls>>
    PROVE  /\ CallsInOrder' /\ ContainersOK' /\ CallType' /\ CallOK' /\ RefusedUntouched'
           /\ Running /\ archive' = archive /\ pc' = pc /\ calls' = calls
           /\ call'.sel = call.sel /\ call'.tree = call.tree /\ call'.disk = call.disk
           /\ call'.modes = call.modes /\ call'.work = call.work \ {i}
           /\ i \in Picked(archive, call.sel) /\ FinishedItems' = FinishedItems \union {i}
           /\ Wanted' = Wanted /\ Item(archive, i).name # <<>>
<1>1. archive' = archive /\ source' = source /\ packed' = packed /\ limits' = limits /\ calls' = calls
      /\ pc' = pc /\ result' = result
    BY DEF writing, input, Done
<1>2. /\ call'.sel = call.sel /\ call'.tree = call.tree /\ call'.disk = call.disk
      /\ call'.modes = call.modes /\ call'.work = call.work \ {i} /\ CallType'
    BY DEF Done, IInv, CallType
<1>3. Running /\ Running'
    BY <1>1 DEF Running
<1>4. /\ Extractable(limits, archive, call.sel)
      /\ call.work \subseteq {k \in Picked(archive, call.sel) : Item(archive, k).name # <<>>}
      /\ call.modes \subseteq Directories
      /\ call.work # {} => call.modes = Directories
      /\ result # "ok"
    BY <1>3 DEF IInv, CallOK, CallsInOrder
<1>5. CallsInOrder'
    BY <1>1 DEF IInv, CallsInOrder
<1>6. ContainersOK'
    BY <1>1 DEF IInv, ContainersOK
<1>7. Wanted' = Wanted /\ Directories' = Directories
    BY <1>1, <1>2 DEF Wanted, Directories
<1>8. CallOK'
    BY <1>1, <1>2, <1>4, <1>7 DEF CallOK
<1>9. RefusedUntouched'
    BY <1>1, <1>2, <1>4 DEF RefusedUntouched
<1>10. FinishedItems' = FinishedItems \union {i}
    BY <1>1, <1>2, <1>4 DEF FinishedItems
<1> QED  BY <1>1, <1>2, <1>3, <1>4, <1>5, <1>6, <1>7, <1>8, <1>9, <1>10

(* What was there stays, and what is new is on the way to a name.           *)
Grown(t, t2, n) ==
    /\ \A p \in DOMAIN t : p \in DOMAIN t2 /\ t2[p] = t[p]
    /\ \A p \in DOMAIN t2 \ DOMAIN t : IsPrefix(p, n)

(* A tree that has grown towards an entry that is wanted.                   *)
LEMMA GrownKeeps ==
    ASSUME IInv, pc = "extract", NEW i \in Picked(archive, call.sel),
           archive' = archive, calls' = calls, call'.sel = call.sel, call'.tree = call.tree,
           IsTree(tree'), Grown(tree, tree', Item(archive, i).name)
    PROVE  TreesOK' /\ Kept' /\ AddedOnly'
<1>1. calls > 0 /\ Wanted' = Wanted /\ Running
    BY DEF IInv, CallsInOrder, Wanted, Running
<1>2. TreesOK'
    BY <1>1 DEF IInv, TreesOK
<1>3. \A p \in DOMAIN call.tree : p \in DOMAIN tree /\ tree'[p] = tree[p] /\ p \in DOMAIN tree'
    BY <1>1 DEF IInv, Kept, Grown
<1>4. Kept'
    <2> SUFFICES ASSUME NEW p \in DOMAIN call.tree
                 PROVE  /\ p \in DOMAIN tree'
                        /\ \/ tree'[p] = call.tree[p]
                           \/ /\ \E e \in Wanted : e.name = p /\ e.type = "directory"
                              /\ tree'[p].kind = "directory" /\ call.tree[p].kind = "directory"
        BY <1>1 DEF Kept
    <2>1. \/ tree[p] = call.tree[p]
          \/ /\ \E e \in Wanted : e.name = p /\ e.type = "directory"
             /\ tree[p].kind = "directory" /\ call.tree[p].kind = "directory"
        BY <1>1 DEF IInv, Kept
    <2> QED  BY <1>3, <2>1
<1>5. AddedOnly'
    <2> SUFFICES ASSUME NEW p \in DOMAIN tree' \ DOMAIN call.tree
                 PROVE  \E e \in Wanted : IsPrefix(p, e.name)
        BY <1>1 DEF AddedOnly
    <2>1. CASE p \in DOMAIN tree
        BY <1>1, <2>1 DEF IInv, AddedOnly
    <2>2. CASE p \notin DOMAIN tree
        <3>1. IsPrefix(p, Item(archive, i).name)
            BY <2>2 DEF Grown
        <3>2. Item(archive, i) \in Wanted
            BY DEF Wanted, Chosen
        <3> QED  BY <3>1, <3>2
    <2> QED  BY <2>1, <2>2
<1> QED  BY <1>2, <1>4, <1>5

(* Where no contents change, those from before are kept.                    *)
LEMMA DiskKeeps ==
    ASSUME IInv, pc = "extract", archive' = archive, calls' = calls, call'.sel = call.sel,
           call'.tree = call.tree, call'.disk = call.disk, disk' = disk
    PROVE  ContentsKept'
<1>1. Wanted' = Wanted
    BY DEF Wanted
<1> QED  BY <1>1 DEF IInv, ContentsKept

(* An entry that was in place is, when the tree has only grown and what it  *)
(* is the name of was not written.                                          *)
LEMMA StaysInPlace ==
    ASSUME IInv, pc = "extract", NEW j \in FinishedItems,
           archive' = archive, call'.sel = call.sel, call'.tree = call.tree, call'.modes = call.modes,
           \A p \in DOMAIN tree : p \in DOMAIN tree' /\ tree'[p] = tree[p],
           DOMAIN disk \subseteq DOMAIN disk',
           LET e == Item(archive, j)
           IN  e.type = "regular" /\ ~SharedBefore(e) /\ tree[e.name].ino \in DOMAIN disk =>
                   disk'[tree[e.name].ino] = disk[tree[e.name].ino]
    PROVE  InPlace(Item(archive, j))'
<1> DEFINE e == Item(archive, j)
<1>1. InPlace(e)
    BY DEF IInv, Placed, Running
<1>2. Item(archive, j)' = e /\ SharedBefore(e)' = SharedBefore(e)
    BY DEF Item, SharedBefore, Wanted
<1>3. e.name \in DOMAIN tree /\ e.name \in DOMAIN tree' /\ tree'[e.name] = tree[e.name]
    BY <1>1 DEF InPlace
<1>4. e.type = "hardlink" => e.link \in DOMAIN tree /\ e.link \in DOMAIN tree' /\ tree'[e.link] = tree[e.link]
    BY <1>1 DEF InPlace
<1>5. disk'[tree'[e.name].ino] = disk'[tree[e.name].ino]
    BY <1>3
<1> QED  BY <1>1, <1>2, <1>3, <1>4, <1>5 DEF InPlace

(* What a written name was before the call: the file it is now.             *)
LEMMA WrittenFile ==
    ASSUME IInv, pc = "extract", NEW i \in call.work, archive.entries[i].type = "regular",
           NEW t, Grown(tree, t, Item(archive, i).name),
           Item(archive, i).name \in DOMAIN t => t[Item(archive, i).name].kind = "file",
           \A p \in DOMAIN t \ DOMAIN tree : t[p].kind = "directory"
    PROVE  LET n == Item(archive, i).name
           IN  /\ FileOf(t, n) = FileOf(call.tree, n)
               /\ n \in DOMAIN t => n \in DOMAIN call.tree /\ t[n] = tree[n] /\ tree[n] = call.tree[n]
               /\ \A j \in FinishedItems :
                     LET e == Item(archive, j)
                     IN  e.type = "regular" /\ ~SharedBefore(e) => tree[e.name].ino # FileOf(t, n)
<1> DEFINE n == Item(archive, i).name
<1>1. Running /\ calls > 0
    BY DEF IInv, Running, CallsInOrder
<1>2. i \in Picked(archive, call.sel) /\ i \notin FinishedItems
    BY <1>1 DEF IInv, CallOK, FinishedItems
<1>3. IsTree(tree) /\ IsTree(call.tree)
    BY <1>1 DEF IInv, TreesOK
<1>4. \A p \in DOMAIN call.tree : p \in DOMAIN tree /\ (tree[p].kind = "file" => tree[p] = call.tree[p])
    BY <1>1 DEF IInv, Kept
<1>5. \A p \in DOMAIN tree \ DOMAIN call.tree : tree[p].kind = "file" =>
         /\ tree[p] = File(p)
         /\ \E j \in FinishedItems : Item(archive, j).name = p
    BY DEF IInv, NewNames
<1>6. ASSUME n \in DOMAIN t PROVE n \in DOMAIN call.tree /\ t[n] = tree[n] /\ tree[n] = call.tree[n]
    <2>1. n \in DOMAIN tree /\ t[n] = tree[n] /\ tree[n].kind = "file"
        BY <1>6 DEF Grown
    <2>2. n \in DOMAIN call.tree
        <3> SUFFICES ASSUME n \notin DOMAIN call.tree PROVE FALSE
            OBVIOUS
        <3>1. PICK j \in FinishedItems : Item(archive, j).name = n
            BY <1>5, <2>1
        <3>2. j \in Picked(archive, call.sel)
            BY DEF FinishedItems
        <3>3. j = i
            BY <1>1, <1>2, <3>1, <3>2, NamesDiffer
        <3> QED  BY <1>2, <3>3
    <2> QED  BY <1>4, <2>1, <2>2
<1>7. FileOf(t, n) = FileOf(call.tree, n)
    <2>1. CASE n \in DOMAIN t
        BY <1>6, <2>1 DEF FileOf
    <2>2. CASE n \notin DOMAIN t
        <3>1. n \notin DOMAIN call.tree
            BY <1>4, <2>2 DEF Grown
        <3> QED  BY <2>2, <3>1 DEF FileOf
    <2> QED  BY <2>1, <2>2
<1>8. ASSUME NEW j \in FinishedItems, Item(archive, j).type = "regular",
             ~SharedBefore(Item(archive, j)), tree[Item(archive, j).name].ino = FileOf(t, n)
      PROVE  FALSE
    <2> DEFINE m == Item(archive, j).name
    <2>1. j \in Picked(archive, call.sel)
        BY DEF FinishedItems
    <2>2. m # n
        BY <1>1, <1>2, <2>1, NamesDiffer
    <2>3. m \in DOMAIN tree /\ tree[m].kind = "file"
        BY <1>1, <1>8 DEF IInv, Placed, InPlace
    <2>4. tree[m] = File(tree[m].ino) /\ tree[m].ino \in DOMAIN tree /\ tree[tree[m].ino] = tree[m]
        BY <1>3, <2>3 DEF IsTree
    <2>5. CASE n \in DOMAIN t
        <3>1. n \in DOMAIN call.tree /\ tree[n] = call.tree[n] /\ tree[n].kind = "file" /\ n \in DOMAIN tree
            BY <1>4, <1>6, <2>5
        <3>2. tree[n] = File(tree[n].ino) /\ FileOf(t, n) = tree[n].ino
            BY <1>3, <1>6, <2>5, <3>1 DEF IsTree, FileOf
        <3>3. tree[m] = tree[n]
            BY <1>8, <2>4, <3>2
        <3>4. m \in DOMAIN call.tree
            <4> SUFFICES ASSUME m \notin DOMAIN call.tree PROVE FALSE
                OBVIOUS
            <4>1. tree[m] = File(m)
                BY <1>5, <2>3
            <4>2. call.tree[n].ino = m
                BY <3>1, <3>3, <4>1 DEF File
            <4>3. call.tree[n].ino \in DOMAIN call.tree
                BY <1>3, <3>1 DEF IsTree
            <4> QED  BY <4>2, <4>3
        <3>5. call.tree[m] = call.tree[n] /\ call.tree[m].kind = "file"
            BY <1>4, <2>3, <3>1, <3>3, <3>4
        <3>6. Item(archive, i) \in Wanted /\ Item(archive, i) # Item(archive, j)
            BY <1>2, <2>2 DEF Wanted, Chosen
        <3> QED  BY <1>8, <3>1, <3>4, <3>5, <3>6 DEF SharedBefore
    <2>6. CASE n \notin DOMAIN t
        <3>1. n \notin DOMAIN tree /\ FileOf(t, n) = n
            BY <2>6 DEF Grown, FileOf
        <3> QED  BY <1>8, <2>4, <3>1
    <2> QED  BY <2>5, <2>6
<1> QED  BY <1>6, <1>7, <1>8

(* A step that ends the call, with what the tree has got on the way.        *)
LEMMA StoppedKeeps ==
    ASSUME IInv, pc = "extract", pc' = "idle", result' \in {"failed", "cancelled"},
           UNCHANGED <<writing, input, disk, call, calls>>,
           NEW i \in Picked(archive, call.sel), IsTree(tree'), Grown(tree, tree', Item(archive, i).name)
    PROVE  IInv'
<1>1. archive' = archive /\ call' = call /\ calls' = calls /\ disk' = disk
    BY DEF input
<1>2. /\ CallsInOrder' /\ ContainersOK' /\ CallType' /\ CallOK'
      /\ RefusedUntouched' /\ NewNames' /\ Placed'
    BY StopKeeps
<1>3. TreesOK' /\ Kept' /\ AddedOnly'
    BY <1>1, GrownKeeps
<1>4. ContentsKept'
    BY <1>1, DiskKeeps
<1> QED  BY <1>2, <1>3, <1>4 DEF IInv

-----------------------------------------------------------------------------
(* The steps                                                                *)

(* A directory is made.                                                     *)
LEMMA MakeDirectoryKeeps ==
    ASSUME IInv, pc = "extract", NEW i \in call.work, MakeDirectory(i)
    PROVE  IInv'
<1> DEFINE n == Item(archive, i).name
<1>0. Running /\ UNCHANGED <<writing, input, disk, calls>>
    BY DEF MakeDirectory, Running
<1>1. i \in Picked(archive, call.sel)
    BY WorkItems
<1>2. n \in Seq(STRING) /\ Item(archive, i).type = "directory"
    BY <1>0, <1>1, WorkItems DEF MakeDirectory, IsNext
<1>3. CASE CanMakeDirectory(tree, n)
    <2>1. tree' = WithDirectories(tree, n) /\ Done(i)
        BY <1>3 DEF MakeDirectory
    <2>2. /\ IsTree(tree') /\ DOMAIN tree' = DOMAIN tree \union PathsTo(n)
          /\ \A p \in DOMAIN tree : tree'[p] = tree[p]
          /\ \A p \in PathsTo(n) \ DOMAIN tree : tree'[p] = NewDirectory
          /\ n \in DOMAIN tree' /\ tree'[n].kind = "directory"
        <3>1. IsTree(tree)
            BY DEF IInv, TreesOK
        <3> HIDE DEF n
        <3>2. /\ IsTree(WithDirectories(tree, n))
              /\ DOMAIN WithDirectories(tree, n) = DOMAIN tree \union PathsTo(n)
              /\ \A p \in DOMAIN tree : WithDirectories(tree, n)[p] = tree[p]
              /\ \A p \in PathsTo(n) \ DOMAIN tree : WithDirectories(tree, n)[p] = NewDirectory
              /\ n \in DOMAIN WithDirectories(tree, n) /\ WithDirectories(tree, n)[n].kind = "directory"
            BY <1>2, <1>3, <3>1, GrowDirectories
        <3> QED  BY <2>1, <3>2
    <2>3. /\ CallsInOrder' /\ ContainersOK' /\ CallType' /\ CallOK' /\ RefusedUntouched'
          /\ archive' = archive /\ pc' = pc /\ calls' = calls
          /\ call'.sel = call.sel /\ call'.tree = call.tree /\ call'.disk = call.disk
          /\ call'.modes = call.modes /\ call'.work = call.work \ {i}
          /\ FinishedItems' = FinishedItems \union {i} /\ Wanted' = Wanted
        BY <1>0, <2>1, DoneKeeps
    <2>4. Grown(tree, tree', n)
        BY <1>2, <2>2, PathsArePrefixes DEF Grown
    <2>5. TreesOK' /\ Kept' /\ AddedOnly'
        BY <1>1, <2>2, <2>3, <2>4, GrownKeeps
    <2>6. ContentsKept'
        BY <1>0, <2>3, DiskKeeps
    <2>7. NewNames'
        <3> SUFFICES ASSUME \E k \in call'.work : archive.entries[k].type = "regular",
                            NEW p \in DOMAIN tree' \ DOMAIN call.tree
                     PROVE  \/ tree'[p].kind = "directory"
                            \/ /\ tree'[p] = File(p)
                               /\ \E j \in FinishedItems' : Item(archive, j).type = "regular" /\ Item(archive, j).name = p
            BY <2>3 DEF NewNames
        <3>1. CASE p \in DOMAIN tree
            BY <2>2, <2>3, <3>1 DEF IInv, NewNames
        <3>2. CASE p \notin DOMAIN tree
            BY <2>2, <3>2 DEF NewDirectory
        <3> QED  BY <3>1, <3>2
    <2>8. Placed'
        <3> SUFFICES ASSUME NEW j \in FinishedItems' PROVE InPlace(Item(archive, j))'
            BY <2>3 DEF Placed
        <3>1. CASE j \in FinishedItems
            BY <1>0, <2>2, <2>3, <3>1, StaysInPlace
        <3>2. CASE j = i
            <4>1. Item(archive, i) \in call'.modes
                BY <1>0, <1>1, <1>2, <2>3 DEF IInv, CallOK, Directories, Wanted, Chosen
            <4> QED  BY <1>2, <2>2, <2>3, <3>2, <4>1 DEF InPlace
        <3> QED  BY <2>3, <3>1, <3>2
    <2> QED  BY <2>3, <2>5, <2>6, <2>7, <2>8 DEF IInv
<1>4. CASE ~CanMakeDirectory(tree, n)
    <2>1. Stop("failed") /\ UNCHANGED <<tree, call>>
        BY <1>4 DEF MakeDirectory
    <2>2. IsTree(tree') /\ Grown(tree, tree', n)
        BY <2>1 DEF IInv, TreesOK, Grown
    <2> QED  BY <1>0, <1>1, <2>1, <2>2, StoppedKeeps DEF Stop
<1> QED  BY <1>3, <1>4

(* The tree with the directories above a name that is worked on.            *)
LEMMA ParentsMade ==
    ASSUME IInv, pc = "extract", NEW i \in call.work, NEW t,
           t = WithDirectories(tree, Parent(Item(archive, i).name)),
           CanMakeDirectory(tree, Parent(Item(archive, i).name))
    PROVE  /\ IsTree(t) /\ Grown(tree, t, Item(archive, i).name)
           /\ \A p \in DOMAIN t \ DOMAIN tree : t[p].kind = "directory"
<1> DEFINE n == Item(archive, i).name
<1>1. n \in Seq(STRING)
    BY WorkItems
<1>2. Parent(n) \in Seq(STRING) /\ \A p \in PathsTo(Parent(n)) : IsPrefix(p, n)
    BY <1>1, ParentPaths
<1>3. IsTree(tree)
    BY DEF IInv, TreesOK
<1> DEFINE d == Parent(n)
<1>4. d \in Seq(STRING) /\ CanMakeDirectory(tree, d) /\ t = WithDirectories(tree, d)
      /\ \A p \in PathsTo(d) : IsPrefix(p, n)
    BY <1>2
<1> HIDE DEF d, n
<1>5. /\ IsTree(WithDirectories(tree, d))
      /\ DOMAIN WithDirectories(tree, d) = DOMAIN tree \union PathsTo(d)
      /\ \A p \in DOMAIN tree : WithDirectories(tree, d)[p] = tree[p]
      /\ \A p \in PathsTo(d) \ DOMAIN tree : WithDirectories(tree, d)[p] = NewDirectory
      /\ d \in DOMAIN WithDirectories(tree, d) /\ WithDirectories(tree, d)[d].kind = "directory"
    BY <1>3, <1>4, GrowDirectories
<1>6. Grown(tree, t, n)
    BY <1>4, <1>5 DEF Grown
<1>7. \A p \in DOMAIN t \ DOMAIN tree : t[p].kind = "directory"
    BY <1>4, <1>5 DEF NewDirectory
<1> QED  BY <1>4, <1>5, <1>6, <1>7 DEF n

(* A node with the name itself on top of them.                              *)
LEMMA GrownMore ==
    ASSUME NEW n \in Seq(STRING), NEW t, NEW t2, NEW t3, Grown(t, t2, n), DOMAIN t3 = DOMAIN t2 \union {n},
           \A p \in DOMAIN t2 : t3[p] = t2[p]
    PROVE  Grown(t, t3, n)
<1>1. IsPrefix(n, n)
    <2>1. CASE n = <<>>
        <3>1. Len(n) = 0 /\ SubSeq(n, 1, Len(n)) = n
            BY <2>1, SubSeqFull
        <3> QED  BY <3>1 DEF IsPrefix
    <2>2. CASE n # <<>>
        BY <2>2, PathsArePrefixes
    <2> QED  BY <2>1, <2>2
<1> QED  BY <1>1 DEF Grown

(* A regular file is written.                                               *)
LEMMA WriteRegularKeeps ==
    ASSUME IInv, pc = "extract", NEW i \in call.work, WriteRegular(i)
    PROVE  IInv'
<1> DEFINE e == Item(archive, i)
<1> DEFINE n == e.name
<1> DEFINE t == WithDirectories(tree, Parent(n))
<1> DEFINE ino == FileOf(t, n)
<1> DEFINE mode == IF ino \in DOMAIN disk THEN disk[ino].mode ELSE "private"
<1>0. Running /\ UNCHANGED <<writing, input, calls>> /\ archive' = archive /\ calls' = calls
    BY DEF WriteRegular, Running, input
<1>1. /\ i \in Picked(archive, call.sel) /\ e \in Wanted /\ n \in Seq(STRING) /\ n # <<>>
      /\ e.type = "regular" /\ archive.entries[i].type = "regular"
    BY WorkItems DEF WriteRegular, IsNext
<1>2. CASE ~CanMakeDirectory(tree, Parent(n))
    <2>1. Stop("failed") /\ UNCHANGED <<target, call>>
        BY <1>2 DEF WriteRegular
    <2>2. IsTree(tree') /\ Grown(tree, tree', n) /\ disk' = disk
        BY <2>1 DEF IInv, TreesOK, Grown, target
    <2> QED  BY <1>0, <1>1, <2>1, <2>2, StoppedKeeps DEF Stop
<1>3. CASE CanMakeDirectory(tree, Parent(n))
    <2>1. /\ IsTree(t) /\ Grown(tree, t, n)
          /\ \A p \in DOMAIN t \ DOMAIN tree : t[p].kind = "directory"
        BY <1>3, ParentsMade
    <2>2. CASE ~(NoSymlinkComponents(t, n) /\ CanWrite(t, disk, n))
        <3>1. Stop("failed") /\ tree' = t /\ UNCHANGED <<disk, call>>
            BY <1>3, <2>2 DEF WriteRegular
        <3> QED  BY <1>0, <1>1, <2>1, <3>1, StoppedKeeps DEF Stop
    <2>3. CASE NoSymlinkComponents(t, n) /\ CanWrite(t, disk, n)
        <3>1. /\ tree' = With(t, n, File(ino))
              /\ \/ /\ Exact(e)
                    /\ disk' = With(disk, ino, [data |-> Copied(e), mode |-> e.mode])
                    /\ Done(i)
                 \/ /\ disk' = With(disk, ino, [data |-> "partial", mode |-> mode])
                    /\ Stop(IF e.whole THEN "cancelled" ELSE "failed")
                    /\ UNCHANGED call
            BY <1>3, <2>3 DEF WriteRegular
        <3>2. n \in DOMAIN t => t[n].kind = "file"
            BY <2>3 DEF CanWrite
        <3>3. /\ ino = FileOf(call.tree, n)
              /\ n \in DOMAIN t => n \in DOMAIN call.tree /\ t[n] = tree[n] /\ tree[n] = call.tree[n]
              /\ \A j \in FinishedItems :
                    LET o == Item(archive, j)
                    IN  o.type = "regular" /\ ~SharedBefore(o) => tree[o.name].ino # ino
            BY <1>1, <2>1, <3>2, WrittenFile
        <3>4. ino \in Seq(STRING)
            BY <1>1, <2>1, <3>2 DEF FileOf, IsTree, Node
        <3>5. File(ino) \in Node
            BY <3>4, LiteralsAssumption, ShortSequences DEF File, Node
        <3>6. File(ino) = File(File(ino).ino) /\ File(ino).ino = ino /\ File(ino).kind = "file"
            BY DEF File
        <3>7. n \in DOMAIN t => t[n] = File(ino) /\ ino \in DOMAIN t /\ t[ino] = File(ino)
            BY <2>1, <3>2 DEF FileOf, IsTree
        <3>8. n \notin DOMAIN t => ino = n
            BY DEF FileOf
        <3> HIDE DEF ino, t, mode, n, e
        <3>9. /\ IsTree(tree') /\ DOMAIN tree' = DOMAIN t \union {n} /\ tree'[n] = File(ino)
              /\ \A p \in DOMAIN t : tree'[p] = t[p]
            <4> DEFINE node == File(ino)
            <4>1. node \in Node
                BY <3>5
            <4>2. n \in DOMAIN t => t[n] = node
                BY <3>7
            <4>3. node.kind = "file" => /\ node = File(node.ino)
                                        /\ node.ino = n \/ (node.ino \in DOMAIN t /\ t[node.ino] = node)
                BY <3>6, <3>7, <3>8
            <4>4. n \in Seq(STRING) /\ IsTree(t)
                BY <1>1, <2>1
            <4>6. Fits(t, n, node)
                BY <4>1, <4>2, <4>3 DEF Fits
            <4> HIDE DEF node
            <4>5. IsTree(With(t, n, node)) /\ Extended(t, With(t, n, node), n, node)
                BY <4>4, <4>6, GrowNode
            <4> QED  BY <3>1, <4>5 DEF node, Extended
        <3>10. Grown(tree, tree', n)
            BY <1>1, <2>1, <3>9, GrownMore
        <3>11. DOMAIN disk' = DOMAIN disk \union {ino} /\ \A x \in DOMAIN disk : x # ino => disk'[x] = disk[x]
            BY <3>1 DEF With
        <3>12. calls > 0
            BY DEF IInv, CallsInOrder
        <3>13. ASSUME Wanted' = Wanted, call'.tree = call.tree, call'.disk = call.disk PROVE ContentsKept'
            <4> SUFFICES ASSUME NEW x \in DOMAIN call.disk
                         PROVE  /\ x \in DOMAIN disk'
                                /\ \/ disk'[x] = call.disk[x]
                                   \/ \E f \in Wanted : f.type = "regular" /\ FileOf(call.tree, f.name) = x
                BY <3>13 DEF ContentsKept
            <4>1. /\ x \in DOMAIN disk
                  /\ \/ disk[x] = call.disk[x]
                     \/ \E f \in Wanted : f.type = "regular" /\ FileOf(call.tree, f.name) = x
                BY <3>12 DEF IInv, ContentsKept
            <4>2. e \in Wanted /\ e.type = "regular" /\ FileOf(call.tree, e.name) = ino
                BY <1>1, <3>3 DEF n
            <4>3. CASE x = ino
                BY <3>11, <4>1, <4>2, <4>3
            <4>4. CASE x # ino
                BY <3>11, <4>1, <4>4
            <4> QED  BY <4>3, <4>4
        <3>14. CASE Stop(IF e.whole THEN "cancelled" ELSE "failed") /\ UNCHANGED call
            <4>1. pc' = "idle" /\ result' \in {"failed", "cancelled"} /\ call' = call /\ Wanted' = Wanted
                BY <1>0, <3>14 DEF Stop, Wanted
            <4>2. /\ CallsInOrder' /\ ContainersOK' /\ CallType' /\ CallOK'
                  /\ RefusedUntouched' /\ NewNames' /\ Placed'
                BY <1>0, <4>1, StopKeeps
            <4>3. TreesOK' /\ Kept' /\ AddedOnly'
                BY <1>0, <1>1, <3>9, <3>10, <4>1, GrownKeeps DEF n, e
            <4> QED  BY <3>13, <4>1, <4>2, <4>3 DEF IInv
        <3>15. CASE Exact(e) /\ disk' = With(disk, ino, [data |-> Copied(e), mode |-> e.mode]) /\ Done(i)
            <4>1. /\ CallsInOrder' /\ ContainersOK' /\ CallType' /\ CallOK' /\ RefusedUntouched'
                  /\ pc' = pc
                  /\ call'.sel = call.sel /\ call'.tree = call.tree /\ call'.disk = call.disk
                  /\ call'.modes = call.modes
                  /\ FinishedItems' = FinishedItems \union {i} /\ Wanted' = Wanted
                BY <1>0, <3>15, DoneKeeps
            <4>2. TreesOK' /\ Kept' /\ AddedOnly'
                BY <1>0, <1>1, <3>9, <3>10, <4>1, GrownKeeps DEF n, e
            <4>3. ContentsKept'
                BY <3>13, <4>1
            <4>4. NewNames'
                <5> SUFFICES ASSUME NEW p \in DOMAIN tree' \ DOMAIN call.tree
                             PROVE  \/ tree'[p].kind = "directory"
                                    \/ /\ tree'[p] = File(p)
                                       /\ \E j \in FinishedItems' : Item(archive, j).type = "regular" /\ Item(archive, j).name = p
                    BY <1>0, <4>1 DEF NewNames
                <5>1. CASE p \in DOMAIN tree
                    <6>1. \/ tree[p].kind = "directory"
                          \/ /\ tree[p] = File(p)
                             /\ \E j \in FinishedItems : Item(archive, j).type = "regular" /\ Item(archive, j).name = p
                        BY <1>1, <5>1 DEF IInv, NewNames
                    <6>2. tree'[p] = tree[p]
                        BY <3>10, <5>1 DEF Grown
                    <6> QED  BY <4>1, <6>1, <6>2
                <5>2. CASE p \in DOMAIN t \ DOMAIN tree
                    BY <2>1, <3>9, <5>2
                <5>3. CASE p \notin DOMAIN t
                    <6>1. p = n /\ tree'[p] = File(p)
                        BY <3>8, <3>9, <5>3
                    <6>2. i \in FinishedItems' /\ Item(archive, i).type = "regular" /\ Item(archive, i).name = n
                        BY <1>1, <4>1 DEF n, e
                    <6> QED  BY <6>1, <6>2
                <5> QED  BY <5>1, <5>2, <5>3
            <4>5. Placed'
                <5> SUFFICES ASSUME NEW j \in FinishedItems' PROVE InPlace(Item(archive, j))'
                    BY <1>0, <4>1 DEF Placed
                <5>1. CASE j \in FinishedItems
                    <6> DEFINE o == Item(archive, j)
                    <6>1. o.type = "regular" /\ ~SharedBefore(o) /\ tree[o.name].ino \in DOMAIN disk =>
                             disk'[tree[o.name].ino] = disk[tree[o.name].ino]
                        BY <3>3, <3>11, <5>1
                    <6>2. \A p \in DOMAIN tree : p \in DOMAIN tree' /\ tree'[p] = tree[p]
                        BY <3>10 DEF Grown
                    <6>3. DOMAIN disk \subseteq DOMAIN disk'
                        BY <3>11
                    <6> QED  BY <1>0, <4>1, <5>1, <6>1, <6>2, <6>3, StaysInPlace
                <5>2. CASE j = i
                    <6>1. disk'[ino] = [data |-> e.data, mode |-> e.mode]
                        BY <3>15 DEF With, Exact, Copied
                    <6>2. n \in DOMAIN tree' /\ tree'[n].ino = ino /\ tree'[n].kind = "file" /\ ino \in DOMAIN disk'
                        BY <3>6, <3>9, <3>11
                    <6>3. InPlace(e)'
                        BY <1>0, <1>1, <6>1, <6>2 DEF InPlace, n, e
                    <6> QED  BY <1>0, <5>2, <6>3 DEF e
                <5> QED  BY <4>1, <5>1, <5>2
            <4> QED  BY <4>1, <4>2, <4>3, <4>4, <4>5 DEF IInv
        <3> QED  BY <3>1, <3>14, <3>15
    <2> QED  BY <2>2, <2>3
<1> QED  BY <1>2, <1>3

(* The node of a link.                                                      *)
LinkNode(i, node) ==
    /\ node \in Node
    /\ node.kind = "file" => node = File(node.ino) /\ node.ino \in DOMAIN tree /\ tree[node.ino] = node
    /\ archive.entries[i].type = "hardlink" =>
         /\ Item(archive, i).link \in DOMAIN tree
         /\ node.kind = "file" /\ node = tree[Item(archive, i).link]
    /\ archive.entries[i].type = "symlink" => node = Link(Item(archive, i).link)

(* A link of either kind is made, when no file is left to write.            *)
LEMMA MakeLinkKeeps ==
    ASSUME IInv, pc = "extract", NEW i \in call.work, NEW possible, NEW node, MakeLink(i, possible, node),
           UNCHANGED <<writing, input, disk, calls>>,
           \A j \in call.work : archive.entries[j].type # "regular",
           archive.entries[i].type \in {"hardlink", "symlink"},
           possible => LinkNode(i, node)
    PROVE  IInv'
<1> DEFINE e == Item(archive, i)
<1> DEFINE n == e.name
<1> DEFINE t == WithDirectories(tree, Parent(n))
<1>0. Running /\ archive' = archive /\ calls' = calls /\ disk' = disk
    BY DEF Running, input
<1>1. /\ i \in Picked(archive, call.sel) /\ e \in Wanted /\ n \in Seq(STRING) /\ n # <<>>
      /\ e.type = archive.entries[i].type
    BY WorkItems
<1>2. CASE ~CanMakeDirectory(tree, Parent(n))
    <2>1. Stop("failed") /\ UNCHANGED <<tree, call>>
        BY <1>2 DEF MakeLink
    <2>2. IsTree(tree') /\ Grown(tree, tree', n)
        BY <2>1 DEF IInv, TreesOK, Grown
    <2> QED  BY <1>0, <1>1, <2>1, <2>2, StoppedKeeps DEF Stop
<1>3. CASE CanMakeDirectory(tree, Parent(n))
    <2>1. IsTree(t) /\ Grown(tree, t, n)
        BY <1>3, ParentsMade
    <2>2. CASE ~NoSymlinkComponents(t, n) \/ ~possible \/ n \in DOMAIN t
        <3>1. Stop("failed") /\ tree' = t /\ UNCHANGED call
            BY <1>3, <2>2 DEF MakeLink
        <3> QED  BY <1>0, <1>1, <2>1, <3>1, StoppedKeeps DEF Stop
    <2>3. CASE ~(~NoSymlinkComponents(t, n) \/ ~possible \/ n \in DOMAIN t)
        <3>1. tree' = With(t, n, node) /\ Done(i) /\ n \notin DOMAIN t
            BY <1>3, <2>3 DEF MakeLink
        <3>11. LinkNode(i, node)
            BY <2>3
        <3> HIDE DEF t, n, e
        <3>2. Fits(t, n, node)
            BY <2>1, <3>1, <3>11 DEF Fits, Grown, LinkNode
        <3>3. IsTree(With(t, n, node)) /\ Extended(t, With(t, n, node), n, node)
            BY <2>1, <3>2, GrowNode
        <3>4. IsTree(tree') /\ DOMAIN tree' = DOMAIN t \union {n} /\ tree'[n] = node
              /\ \A p \in DOMAIN t : tree'[p] = t[p]
            BY <3>1, <3>3 DEF Extended
        <3>5. Grown(tree, tree', n)
            BY <1>1, <2>1, <3>4, GrownMore
        <3>6. /\ CallsInOrder' /\ ContainersOK' /\ CallType' /\ CallOK' /\ RefusedUntouched'
              /\ pc' = pc
              /\ call'.sel = call.sel /\ call'.tree = call.tree /\ call'.disk = call.disk
              /\ call'.modes = call.modes /\ call'.work = call.work \ {i}
              /\ FinishedItems' = FinishedItems \union {i} /\ Wanted' = Wanted
            BY <3>1, DoneKeeps
        <3>7. TreesOK' /\ Kept' /\ AddedOnly'
            BY <1>0, <1>1, <3>4, <3>5, <3>6, GrownKeeps DEF n, e
        <3>8. ContentsKept'
            BY <1>0, <3>6, DiskKeeps
        <3>9. NewNames'
            BY <1>0, <3>6 DEF NewNames
        <3>10. Placed'
            <4> SUFFICES ASSUME NEW j \in FinishedItems' PROVE InPlace(Item(archive, j))'
                BY <1>0, <3>6 DEF Placed
            <4>1. CASE j \in FinishedItems
                <5>1. \A p \in DOMAIN tree : p \in DOMAIN tree' /\ tree'[p] = tree[p]
                    BY <3>5 DEF Grown
                <5> QED  BY <1>0, <3>6, <4>1, <5>1, StaysInPlace
            <4>2. CASE j = i
                <5>1. n \in DOMAIN tree' /\ tree'[n] = node
                    BY <3>4
                <5>2. e.type = "hardlink" => e.link \in DOMAIN tree' /\ node.kind = "file" /\ node = tree'[e.link]
                    BY <1>1, <3>5, <3>11 DEF Grown, e, LinkNode
                <5>3. e.type = "symlink" => node = Link(e.link)
                    BY <1>1, <3>11 DEF e, LinkNode
                <5>4. e.type # "directory" /\ e.type # "regular"
                    BY <1>1
                <5>5. InPlace(e)'
                    BY <1>0, <5>1, <5>2, <5>3, <5>4 DEF InPlace, n, e
                <5> QED  BY <1>0, <4>2, <5>5 DEF e
            <4> QED  BY <3>6, <4>1, <4>2
        <3> QED  BY <3>6, <3>7, <3>8, <3>9, <3>10 DEF IInv
    <2> QED  BY <2>2, <2>3
<1> QED  BY <1>2, <1>3

(* When the first that is left is a link, no file is.                       *)
LEMMA LinksComeLast ==
    ASSUME IInv, pc = "extract", NEW i \in call.work, NEW type \in {"hardlink", "symlink"}, IsNext(i, type)
    PROVE  \A j \in call.work : archive.entries[j].type # "regular"
<1> SUFFICES ASSUME NEW j \in call.work, archive.entries[j].type = "regular" PROVE FALSE
    OBVIOUS
<1>1. PassOf(j) = 2
    BY DEF PassOf, Pass
<1>2. PassOf(i) = 3 \/ PassOf(i) = 4
    BY DEF PassOf, Pass, IsNext
<1>3. PassOf(i) < PassOf(j) \/ PassOf(i) = PassOf(j)
    BY DEF IsNext
<1> QED  BY <1>1, <1>2, <1>3

(* A hard link is made.                                                     *)
LEMMA MakeHardlinkKeeps ==
    ASSUME IInv, pc = "extract", NEW i \in call.work, MakeHardlink(i)
    PROVE  IInv'
<1> DEFINE to == Item(archive, i).link
<1> DEFINE node == tree[to]
<1> DEFINE possible == to \in DOMAIN tree /\ tree[to].kind = "file"
<1>1. IsNext(i, "hardlink") /\ UNCHANGED <<writing, input, disk, calls>> /\ MakeLink(i, possible, node)
    BY DEF MakeHardlink
<1>2. IsTree(tree)
    BY DEF IInv, TreesOK
<1>3. \A j \in call.work : archive.entries[j].type # "regular"
    BY <1>1, LinksComeLast
<1>4. archive.entries[i].type = "hardlink"
    BY <1>1 DEF IsNext
<1>5. possible => LinkNode(i, node)
    <2> SUFFICES ASSUME possible PROVE LinkNode(i, node)
        OBVIOUS
    <2>1. /\ node \in Node
          /\ node = File(node.ino) /\ node.ino \in DOMAIN tree /\ tree[node.ino] = node
        BY <1>2 DEF IsTree
    <2> QED  BY <1>4, <2>1 DEF LinkNode
<1> HIDE DEF to, node, possible
<1> QED  BY <1>1, <1>3, <1>4, <1>5, MakeLinkKeeps

(* A symbolic link is made.                                                 *)
LEMMA MakeSymlinkKeeps ==
    ASSUME IInv, pc = "extract", NEW i \in call.work, MakeSymlink(i)
    PROVE  IInv'
<1> DEFINE node == Link(Item(archive, i).link)
<1>1. IsNext(i, "symlink") /\ UNCHANGED <<writing, input, disk, calls>> /\ MakeLink(i, TRUE, node)
    BY DEF MakeSymlink
<1>2. Item(archive, i).link \in Seq(STRING)
    BY WorkItems
<1>3. node \in Node /\ node.kind = "link"
    <2>1. <<>> \in Seq(STRING) /\ "none" \in STRING
        BY LiteralsAssumption
    <2> QED  BY <1>2, <2>1 DEF Link, Node
<1>4. \A j \in call.work : archive.entries[j].type # "regular"
    BY <1>1, LinksComeLast
<1>5. archive.entries[i].type = "symlink"
    BY <1>1 DEF IsNext
<1>6. LinkNode(i, node)
    BY <1>3, <1>5 DEF LinkNode
<1> HIDE DEF node
<1> QED  BY <1>1, <1>4, <1>5, <1>6, MakeLinkKeeps

(* The mode of a directory is set.                                          *)
LEMMA ChmodDirectoryKeeps ==
    ASSUME IInv, ChmodDirectory
    PROVE  IInv'
<1>0. /\ pc = "extract" /\ Running /\ call.work = {} /\ UNCHANGED <<writing, input, disk, calls>>
      /\ archive' = archive /\ limits' = limits /\ calls' = calls /\ disk' = disk /\ calls > 0
    BY DEF ChmodDirectory, Running, input, IInv, CallsInOrder
<1>1. PICK e \in call.modes :
         IF Searchable(tree, e.name)
         THEN /\ tree' = [tree EXCEPT ![e.name].mode = e.mode]
              /\ call' = [call EXCEPT !.modes = @ \ {e}]
              /\ UNCHANGED <<pc, result>>
         ELSE Stop("failed") /\ UNCHANGED <<tree, call>>
    BY DEF ChmodDirectory
<1>2. Extractable(limits, archive, call.sel) /\ call.modes \subseteq Directories
    BY <1>0 DEF IInv, CallOK
<1>3. PICK j \in Picked(archive, call.sel) : e = Item(archive, j)
    BY <1>2 DEF Directories, Wanted, Chosen
<1>4. e \in Wanted /\ e.type = "directory" /\ e.name \in Seq(STRING) /\ e.mode \in STRING
    BY <1>0, <1>2, <1>3, WorkItems DEF Directories
<1>5. FinishedItems = Picked(archive, call.sel)
    BY <1>0 DEF FinishedItems
<1>6. e.name \in DOMAIN tree /\ tree[e.name].kind = "directory"
    BY <1>0, <1>3, <1>4, <1>5 DEF IInv, Placed, InPlace
<1>7. CASE ~Searchable(tree, e.name)
    <2>1. Stop("failed") /\ UNCHANGED <<tree, call>>
        BY <1>1, <1>7
    <2>2. IsTree(tree') /\ Grown(tree, tree', Item(archive, j).name)
        BY <2>1 DEF IInv, TreesOK, Grown
    <2> QED  BY <1>0, <2>1, <2>2, StoppedKeeps DEF Stop
<1>8. CASE Searchable(tree, e.name)
    <2>1. /\ tree' = [tree EXCEPT ![e.name].mode = e.mode]
          /\ call' = [call EXCEPT !.modes = @ \ {e}]
          /\ UNCHANGED <<pc, result>>
        BY <1>1, <1>8
    <2>2. IsTree(tree)
        BY DEF IInv, TreesOK
    <2>3. /\ DOMAIN tree' = DOMAIN tree
          /\ \A p \in DOMAIN tree : p # e.name => tree'[p] = tree[p]
          /\ tree'[e.name] = [tree[e.name] EXCEPT !.mode = e.mode]
          /\ tree' \in [DOMAIN tree -> Node]
        <3>1. tree \in [DOMAIN tree -> Node]
            BY <2>2 DEF IsTree
        <3>2. tree[e.name] \in Node
            BY <1>6, <3>1
        <3>3. [tree[e.name] EXCEPT !.mode = e.mode] \in Node
            BY <1>4, <3>2 DEF Node
        <3> QED  BY <1>6, <2>1, <3>1, <3>3
    <2>4. tree'[e.name].kind = "directory" /\ tree'[e.name].mode = e.mode
        <3>1. tree[e.name] \in Node
            BY <1>6, <2>2 DEF IsTree
        <3> QED  BY <1>6, <2>3, <3>1 DEF Node
    <2>5. IsTree(tree')
        <3>1. <<>> \in DOMAIN tree' /\ tree'[<<>>].kind = "directory"
            BY <2>2, <2>3, <2>4 DEF IsTree
        <3>2. ASSUME NEW p \in DOMAIN tree', tree'[p].kind = "file"
              PROVE  tree'[p] = File(tree'[p].ino) /\ tree'[p].ino \in DOMAIN tree' /\ tree'[tree'[p].ino] = tree'[p]
            <4>1. p # e.name /\ tree'[p] = tree[p] /\ p \in DOMAIN tree
                BY <2>3, <2>4, <3>2
            <4>2. tree[p] = File(tree[p].ino) /\ tree[p].ino \in DOMAIN tree /\ tree[tree[p].ino] = tree[p]
                BY <2>2, <3>2, <4>1 DEF IsTree
            <4>3. tree[p].ino # e.name
                BY <1>6, <3>2, <4>1, <4>2
            <4> QED  BY <2>3, <4>1, <4>2, <4>3
        <3> QED  BY <2>3, <3>1, <3>2 DEF IsTree
    <2>6. /\ call'.sel = call.sel /\ call'.work = call.work /\ call'.tree = call.tree /\ call'.disk = call.disk
          /\ call'.modes = call.modes \ {e} /\ CallType'
        BY <2>1 DEF IInv, CallType
    <2>7. Wanted' = Wanted /\ Directories' = Directories /\ FinishedItems' = FinishedItems
        BY <1>0, <2>6 DEF Wanted, Directories, FinishedItems
    <2>8. CallsInOrder' /\ ContainersOK'
        BY <1>0, <2>1 DEF IInv, CallsInOrder, ContainersOK, writing
    <2>9. TreesOK'
        BY <1>0, <2>5, <2>6 DEF IInv, TreesOK
    <2>10. CallOK'
        BY <1>0, <1>2, <2>1, <2>6, <2>7 DEF CallOK, IInv, CallsInOrder
    <2>11. RefusedUntouched'
        BY <1>0, <1>2, <2>6 DEF RefusedUntouched
    <2>12. NewNames'
        BY <1>0, <2>6 DEF NewNames
    <2>13. Kept'
        <3> SUFFICES ASSUME NEW p \in DOMAIN call.tree
                     PROVE  /\ p \in DOMAIN tree'
                            /\ \/ tree'[p] = call.tree[p]
                               \/ /\ \E f \in Wanted : f.name = p /\ f.type = "directory"
                                  /\ tree'[p].kind = "directory" /\ call.tree[p].kind = "directory"
            BY <2>6, <2>7 DEF Kept
        <3>1. /\ p \in DOMAIN tree
              /\ \/ tree[p] = call.tree[p]
                 \/ /\ \E f \in Wanted : f.name = p /\ f.type = "directory"
                    /\ tree[p].kind = "directory" /\ call.tree[p].kind = "directory"
            BY <1>0 DEF IInv, Kept
        <3>2. CASE p = e.name
            <4>1. call.tree[p].kind = "directory"
                BY <1>6, <3>1, <3>2
            <4> QED  BY <1>4, <2>3, <2>4, <3>1, <3>2, <4>1
        <3>3. CASE p # e.name
            BY <2>3, <3>1, <3>3
        <3> QED  BY <3>2, <3>3
    <2>14. AddedOnly'
        BY <1>0, <2>3, <2>6, <2>7 DEF IInv, AddedOnly
    <2>15. ContentsKept'
        BY <1>0, <2>6, DiskKeeps
    <2>16. Placed'
        <3> SUFFICES ASSUME NEW k \in Picked(archive, call.sel) PROVE InPlace(Item(archive, k))'
            BY <1>0, <1>5, <2>7 DEF Placed
        <3> DEFINE f == Item(archive, k)
        <3>1. InPlace(f)
            BY <1>0, <1>5 DEF IInv, Placed
        <3>2. SharedBefore(f)' = SharedBefore(f)
            BY <2>6, <2>7, <1>0 DEF SharedBefore, Item
        <3>3. CASE f.name = e.name
            <4>1. f = e
                BY <1>0, <1>3, <3>3, NamesDiffer
            <4> QED  BY <1>0, <1>4, <1>6, <2>3, <2>4, <4>1 DEF InPlace
        <3>4. CASE f.name # e.name
            <4>1. f.name \in DOMAIN tree /\ f.name \in DOMAIN tree' /\ tree'[f.name] = tree[f.name]
                BY <2>3, <3>1, <3>4 DEF InPlace
            <4>2. f # e
                BY <3>4
            <4>3. f.type = "directory" =>
                     tree'[f.name].kind = "directory" /\ (f \notin call'.modes => tree'[f.name].mode = f.mode)
                BY <2>6, <3>1, <4>1, <4>2 DEF InPlace
            <4>4. f.type = "regular" => tree'[f.name].kind = "file" /\ tree'[f.name].ino \in DOMAIN disk'
                BY <1>0, <3>1, <4>1 DEF InPlace
            <4>5. f.type = "regular" /\ ~SharedBefore(f) => disk'[tree'[f.name].ino] = [data |-> f.data, mode |-> f.mode]
                BY <1>0, <3>1, <4>1 DEF InPlace
            <4>6. f.type = "hardlink" => f.link \in DOMAIN tree' /\ tree'[f.name].kind = "file" /\ tree'[f.name] = tree'[f.link]
                <5> SUFFICES ASSUME f.type = "hardlink"
                             PROVE  f.link \in DOMAIN tree' /\ tree'[f.name].kind = "file" /\ tree'[f.name] = tree'[f.link]
                    OBVIOUS
                <5>1. f.link \in DOMAIN tree /\ tree[f.name].kind = "file" /\ tree[f.name] = tree[f.link]
                    BY <3>1 DEF InPlace
                <5>2. f.link # e.name
                    BY <1>6, <5>1
                <5> QED  BY <2>3, <4>1, <5>1, <5>2
            <4>7. f.type = "symlink" => tree'[f.name] = Link(f.link)
                BY <3>1, <4>1 DEF InPlace
            <4>8. f' = f
                BY <1>0 DEF Item
            <4> HIDE DEF f
            <4>9. InPlace(f)'
                BY <3>2, <4>1, <4>3, <4>4, <4>5, <4>6, <4>7, <4>8 DEF InPlace
            <4> QED  BY <4>9 DEF f
        <3> QED  BY <3>3, <3>4
    <2> QED  BY <2>6, <2>8, <2>9, <2>10, <2>11, <2>12, <2>13, <2>14, <2>15, <2>16 DEF IInv
<1> QED  BY <1>7, <1>8

(* One entry of the extraction.                                             *)
LEMMA ExtractEntryKeeps ==
    ASSUME IInv, ExtractEntry
    PROVE  IInv'
<1>1. PICK i \in call.work : MakeDirectory(i) \/ WriteRegular(i) \/ MakeHardlink(i) \/ MakeSymlink(i)
    BY DEF ExtractEntry
<1>2. pc = "extract"
    BY DEF ExtractEntry
<1> QED  BY <1>1, <1>2, MakeDirectoryKeeps, WriteRegularKeeps, MakeHardlinkKeeps, MakeSymlinkKeeps

(* What a step keeps that changes neither the destination nor the call.     *)
LEMMA SameKeeps ==
    ASSUME IInv, UNCHANGED <<input, target, call, calls>>
    PROVE  /\ TreesOK' /\ CallType' /\ RefusedUntouched' /\ Kept' /\ AddedOnly' /\ ContentsKept'
           /\ FinishedItems' = FinishedItems
           /\ \A i \in FinishedItems : InPlace(Item(archive, i)) => InPlace(Item(archive, i))'
<1>1. archive' = archive /\ limits' = limits /\ tree' = tree /\ disk' = disk /\ call' = call /\ calls' = calls
    BY DEF input, target
<1>2. Wanted' = Wanted /\ FinishedItems' = FinishedItems
    BY <1>1 DEF Wanted, FinishedItems
<1>3. TreesOK' /\ CallType' /\ RefusedUntouched'
    BY <1>1 DEF IInv, TreesOK, CallType, RefusedUntouched
<1>4. Kept' /\ AddedOnly' /\ ContentsKept'
    BY <1>1, <1>2 DEF IInv, Kept, AddedOnly, ContentsKept
<1>5. ASSUME NEW i \in FinishedItems, InPlace(Item(archive, i)) PROVE InPlace(Item(archive, i))'
    BY <1>1, <1>2, <1>5 DEF InPlace, SharedBefore, Item
<1> QED  BY <1>2, <1>3, <1>4, <1>5

(* The call is given up.                                                    *)
LEMMA CancelKeeps ==
    ASSUME IInv, Cancel
    PROVE  IInv'
<1>1. pc = "extract" /\ pc' = "idle" /\ result' = "cancelled" /\ UNCHANGED <<writing, input, target, call, calls>>
    BY DEF Cancel, Stop
<1>2. /\ CallsInOrder' /\ ContainersOK' /\ CallType' /\ CallOK'
      /\ RefusedUntouched' /\ NewNames' /\ Placed'
    BY <1>1, StopKeeps
<1>3. TreesOK' /\ Kept' /\ AddedOnly' /\ ContentsKept'
    BY <1>1, SameKeeps
<1> QED  BY <1>2, <1>3 DEF IInv

(* The call succeeds.                                                       *)
LEMMA FinishKeeps ==
    ASSUME IInv, Finish
    PROVE  IInv'
<1>1. /\ pc = "extract" /\ pc' = "idle" /\ result' = "ok" /\ call.work = {} /\ call.modes = {}
      /\ UNCHANGED <<writing, input, target, call, calls>>
    BY DEF Finish, Stop
<1>2. /\ TreesOK' /\ CallType' /\ RefusedUntouched' /\ Kept' /\ AddedOnly' /\ ContentsKept'
      /\ FinishedItems' = FinishedItems
      /\ \A i \in FinishedItems : InPlace(Item(archive, i)) => InPlace(Item(archive, i))'
    BY <1>1, SameKeeps
<1>3. Running /\ call' = call /\ calls' = calls /\ archive' = archive /\ limits' = limits
    BY <1>1 DEF Running, input
<1>4. CallsInOrder' /\ ContainersOK'
    BY <1>1, <1>3 DEF IInv, CallsInOrder, ContainersOK, writing
<1>5. CallOK'
    BY <1>1, <1>3 DEF IInv, CallOK
<1>6. NewNames'
    BY <1>1 DEF NewNames
<1>7. Placed'
    BY <1>2, <1>3 DEF IInv, Placed
<1> QED  BY <1>2, <1>4, <1>5, <1>6, <1>7 DEF IInv

(* A call begins, or is refused.                                            *)
LEMMA ExtractKeeps ==
    ASSUME IInv, Extract
    PROVE  IInv'
<1>1. /\ pc = "idle" /\ calls' = calls + 1 /\ UNCHANGED <<writing, input, target>>
      /\ archive' = archive /\ limits' = limits /\ tree' = tree /\ disk' = disk
    BY DEF Extract, input, target
<1>2. PICK sel \in Selections :
         /\ call' = [sel |-> sel,
                     work |-> {i \in Picked(archive, sel) : Item(archive, i).name # <<>>},
                     modes |-> {e \in Chosen(archive, sel) : e.type = "directory"},
                     tree |-> tree, disk |-> disk]
         /\ IF ~Extractable(limits, archive, sel)
            THEN result' = "invalid" /\ UNCHANGED pc
            ELSE IF ~OpenDirectory(tree, <<>>)
            THEN result' = "failed" /\ UNCHANGED pc
            ELSE result' = "none" /\ pc' = "extract"
    BY DEF Extract
<1>3. /\ call'.sel = sel /\ call'.tree = tree /\ call'.disk = disk
      /\ call'.work = {i \in Picked(archive, sel) : Item(archive, i).name # <<>>}
      /\ call'.modes = {e \in Chosen(archive, sel) : e.type = "directory"} /\ CallType'
    BY <1>2 DEF CallType
<1>4. calls \in Nat /\ calls' \in Nat /\ calls' > 0
    BY <1>1 DEF IInv, CallsInOrder
<1>5. result' # "ok" /\ (pc' = "idle" \/ pc' = "extract")
    BY <1>1, <1>2
<1>6. CallsInOrder' /\ ContainersOK'
    BY <1>1, <1>4, <1>5 DEF IInv, CallsInOrder, ContainersOK, writing
<1>7. TreesOK'
    BY <1>1, <1>3 DEF IInv, TreesOK
<1>8. RefusedUntouched' /\ NewNames' /\ Kept' /\ AddedOnly' /\ ContentsKept'
    BY <1>1, <1>3 DEF RefusedUntouched, NewNames, Kept, AddedOnly, ContentsKept
<1>9. Running' => Extractable(limits, archive, sel)
    BY <1>1, <1>2, <1>5 DEF Running
<1>10. Wanted' = Chosen(archive, sel) /\ Directories' = call'.modes
    BY <1>1, <1>3 DEF Wanted, Directories
<1>11. CallOK'
    BY <1>1, <1>3, <1>5, <1>9, <1>10 DEF CallOK
<1>12. Placed'
    <2> SUFFICES ASSUME Running', NEW i \in FinishedItems' PROVE InPlace(Item(archive, i))'
        BY <1>1 DEF Placed
    <2> DEFINE e == Item(archive, i)
    <2>1. i \in Picked(archive, sel) /\ e.name = <<>>
        BY <1>1, <1>3 DEF FinishedItems
    <2>2. EntriesOK(archive.entries) /\ Extractable(limits, archive, sel)
        BY <1>9 DEF IInv, ContainersOK
    <2>3. LET f == Item(archive, i)
          IN  /\ i \in DOMAIN archive.entries
              /\ f \in Chosen(archive, sel) /\ f.type = archive.entries[i].type
              /\ f.type \in Types \ {"other"}
              /\ f.name \in Seq(STRING) /\ f.link \in Seq(STRING) /\ f.mode \in STRING
              /\ f.data = archive.entries[i].data /\ f.whole = archive.entries[i].whole
              /\ f.name = <<>> => f.type = "directory"
        BY <2>1, <2>2, CheckedItems
    <2>4. e.type = "directory" /\ e \in call'.modes
        BY <1>3, <2>1, <2>3
    <2>5. <<>> \in DOMAIN tree' /\ tree'[<<>>].kind = "directory"
        BY <1>1 DEF IInv, TreesOK, IsTree
    <2>6. e' = e
        BY <1>1 DEF Item
    <2> HIDE DEF e
    <2>7. InPlace(e)'
        BY <2>1, <2>4, <2>5, <2>6 DEF InPlace
    <2> QED  BY <2>7 DEF e
<1> QED  BY <1>3, <1>6, <1>7, <1>8, <1>11, <1>12 DEF IInv

(* Before the first call little is claimed.                                 *)
LEMMA BeforeCalls ==
    ASSUME IInv, calls = 0, calls' = calls, call' = call, tree' = tree,
           pc' # "extract", result' # "ok", ContainersOK'
    PROVE  IInv'
<1>1. CallsInOrder' /\ TreesOK' /\ CallType'
    BY DEF IInv, CallsInOrder, TreesOK, CallType
<1>2. CallOK' /\ Placed'
    BY DEF CallOK, Placed, Running
<1>3. RefusedUntouched' /\ NewNames' /\ Kept' /\ AddedOnly' /\ ContentsKept'
    BY DEF RefusedUntouched, NewNames, Kept, AddedOnly, ContentsKept
<1> QED  BY <1>1, <1>2, <1>3 DEF IInv

(* What is packed are entries.                                              *)
LEMMA PackKeeps ==
    ASSUME IInv, Pack
    PROVE  IInv'
<1>1. /\ pc = "pack" /\ calls = 0 /\ result # "ok"
      /\ UNCHANGED <<source, changed, input, target, call, calls>>
      /\ archive' = archive /\ source' = source /\ tree' = tree
    BY DEF Pack, IInv, CallsInOrder, input, target
<1> DEFINE f == source.files[Len(packed) + 1]
<1> DEFINE e == [name |-> f.name, type |-> f.type, mode |-> f.mode, link |-> <<>>,
                 data |-> f.data, size |-> IF f.type = "directory" THEN 0 ELSE Bytes[f.data],
                 whole |-> TRUE]
<1>2. \/ packed' = Append(packed, e) /\ UNCHANGED <<pc, result>>
      \/ pc' = "stopped" /\ result' = "failed" /\ UNCHANGED packed
    BY DEF Pack
<1>3. Len(packed) < Len(source.files)
    BY DEF Pack
<1>4. EntriesOK(archive.entries) /\ EntriesOK(packed) /\ FilesOK(source.files)
      /\ source = [format |-> source.format, files |-> source.files]
    BY DEF IInv, ContainersOK
<1>5. packed \in Seq(EntryType) /\ Len(packed) \in Nat
    BY <1>4 DEF EntriesOK
<1>6. f \in FileType /\ IsName(f.name)
    <2>1. source.files \in Seq(FileType) /\ Len(source.files) \in Nat
        BY <1>4 DEF FilesOK
    <2>2. Len(packed) + 1 \in DOMAIN source.files
        BY <1>3, <1>5, <2>1
    <2> QED  BY <1>4, <2>1, <2>2 DEF FilesOK
<1>7. e \in EntryType /\ IsName(e.name) /\ IsName(e.link)
    <2>1. /\ f.name \in Seq(STRING) /\ f.type \in Types /\ f.mode \in STRING /\ f.data \in DOMAIN Bytes
        BY <1>6 DEF FileType
    <2>2. f.data \in STRING /\ Bytes[f.data] \in Int
        BY <2>1, BytesAssumption
    <2>3. <<>> \in Seq(STRING) /\ IsName(<<>>)
        BY DEF IsName
    <2> HIDE DEF f
    <2>4. (IF f.type = "directory" THEN 0 ELSE Bytes[f.data]) \in Int
        BY <2>2
    <2>5. e \in EntryType
        BY <2>1, <2>2, <2>3, <2>4 DEF EntryType
    <2> QED  BY <1>6, <2>3, <2>5
<1> HIDE DEF e, f
<1>8. EntriesOK(packed')
    <2>1. CASE packed' = Append(packed, e)
        <3>1. /\ packed' \in Seq(EntryType) /\ Len(packed') = Len(packed) + 1
              /\ \A k \in 1..Len(packed) : packed'[k] = packed[k]
              /\ packed'[Len(packed) + 1] = e
            BY <1>5, <1>7, <2>1, AppendProperties
        <3>2. DOMAIN packed' = 1..Len(packed) + 1 /\ DOMAIN packed = 1..Len(packed)
            BY <1>5, <3>1
        <3>3. \A k \in DOMAIN packed' : k = Len(packed) + 1 \/ k \in 1..Len(packed)
            BY <1>5, <3>2
        <3>4. ASSUME NEW k \in DOMAIN packed' PROVE IsName(packed'[k].name) /\ IsName(packed'[k].link)
            <4>1. CASE k = Len(packed) + 1
                BY <1>7, <3>1, <4>1
            <4>2. CASE k \in 1..Len(packed)
                <5>1. k \in DOMAIN packed /\ packed'[k] = packed[k]
                    BY <3>1, <3>2, <4>2
                <5> QED  BY <1>4, <5>1 DEF EntriesOK
            <4> QED  BY <3>3, <4>1, <4>2
        <3> QED  BY <3>1, <3>4 DEF EntriesOK
    <2>2. CASE packed' = packed
        BY <1>4, <2>2
    <2> QED  BY <1>2, <2>1, <2>2
<1>9. ContainersOK'
    BY <1>1, <1>4, <1>8 DEF ContainersOK
<1>10. pc' # "extract" /\ result' # "ok"
    BY <1>1, <1>2
<1> QED  BY <1>1, <1>9, <1>10, BeforeCalls

(* A source that changes is one.                                            *)
LEMMA ChangeSourceKeeps ==
    ASSUME IInv, ChangeSource
    PROVE  IInv'
<1>1. /\ pc = "pack" /\ calls = 0 /\ result # "ok"
      /\ UNCHANGED <<pc, packed, input, target, call, result, calls>>
      /\ archive' = archive /\ tree' = tree
    BY DEF ChangeSource, IInv, CallsInOrder, input, target
<1>2. PICK i \in Len(packed) + 1 .. Len(source.files), c \in DOMAIN Bytes :
         source' = [source EXCEPT !.files[i].data = c]
    BY DEF ChangeSource
<1>3. EntriesOK(archive.entries) /\ EntriesOK(packed) /\ FilesOK(source.files)
      /\ source = [format |-> source.format, files |-> source.files]
    BY DEF IInv, ContainersOK
<1> DEFINE fs == source.files
<1>4. fs \in Seq(FileType) /\ Len(fs) \in Nat /\ Len(packed) \in Nat
    BY <1>3 DEF FilesOK, EntriesOK
<1>5. i \in 1..Len(fs) /\ fs[i] \in FileType
    BY <1>4
<1>6. source' = [format |-> source.format, files |-> [fs EXCEPT ![i] = [fs[i] EXCEPT !.data = c]]]
    BY <1>2, <1>3
<1>7. source'.files = [fs EXCEPT ![i] = [fs[i] EXCEPT !.data = c]]
      /\ source' = [format |-> source'.format, files |-> source'.files]
    BY <1>6
<1>8. [fs[i] EXCEPT !.data = c] \in FileType /\ [fs[i] EXCEPT !.data = c].name = fs[i].name
    BY <1>5 DEF FileType
<1>9. FilesOK(source'.files)
    <2> DEFINE g == [fs[i] EXCEPT !.data = c]
    <2>1. g \in FileType /\ g.name = fs[i].name
        BY <1>8
    <2> HIDE DEF g
    <2>2. source'.files = [fs EXCEPT ![i] = g]
        BY <1>7 DEF g
    <2>3. source'.files \in Seq(FileType) /\ DOMAIN source'.files = DOMAIN fs
        BY <1>4, <1>5, <2>1, <2>2, ExceptSeq
    <2>4. \A k \in DOMAIN fs : source'.files[k].name = fs[k].name
        BY <1>4, <1>5, <2>1, <2>2
    <2> QED  BY <1>3, <2>3, <2>4 DEF FilesOK
<1>10. ContainersOK'
    BY <1>1, <1>3, <1>7, <1>9 DEF ContainersOK
<1> QED  BY <1>1, <1>10, BeforeCalls

(* The steps before the first call.                                         *)
LEMMA EarlyStepsKeep ==
    ASSUME IInv, Walk \/ Close \/ Open \/ List
    PROVE  IInv'
<1>1. CASE Walk
    <2>1. /\ pc = "walk" /\ calls = 0 /\ result # "ok"
          /\ UNCHANGED <<source, packed, input, target, call, calls>>
          /\ archive' = archive /\ tree' = tree /\ pc' # "extract" /\ result' # "ok"
        BY <1>1 DEF Walk, IInv, CallsInOrder, input, target
    <2>2. ContainersOK'
        BY <2>1 DEF IInv, ContainersOK
    <2> QED  BY <2>1, <2>2, BeforeCalls
<1>2. CASE Close
    <2>1. /\ pc = "pack" /\ calls = 0 /\ result # "ok"
          /\ UNCHANGED <<writing, target, call, result, calls>>
          /\ archive' = [format |-> source.format, bytes |-> 2, entries |-> packed]
          /\ tree' = tree /\ source' = source /\ packed' = packed /\ pc' = "open"
        BY <1>2 DEF Close, IInv, CallsInOrder, writing, target
    <2>2. ContainersOK'
        BY <2>1 DEF IInv, ContainersOK
    <2> QED  BY <2>1, <2>2, BeforeCalls
<1>3. CASE Open
    <2>1. /\ pc = "open" /\ calls = 0
          /\ UNCHANGED <<writing, input, target, call, calls>>
          /\ archive' = archive /\ source' = source /\ packed' = packed
          /\ tree' = tree /\ pc' # "extract" /\ result' # "ok"
        BY <1>3 DEF Open, IInv, CallsInOrder, writing, input, target
    <2>2. ContainersOK'
        BY <2>1 DEF IInv, ContainersOK
    <2> QED  BY <2>1, <2>2, BeforeCalls
<1>4. CASE List
    <2>1. /\ pc = "idle" /\ calls = 0 /\ result # "ok"
          /\ UNCHANGED <<pc, writing, archive, limits, target, call, result, calls>>
          /\ source' = source /\ packed' = packed /\ tree' = tree
        BY <1>4 DEF List, IInv, CallsInOrder, writing, target
    <2>2. ContainersOK'
        BY <2>1 DEF IInv, ContainersOK
    <2> QED  BY <2>1, <2>2, BeforeCalls
<1> QED  BY <1>1, <1>2, <1>3, <1>4

(* At the beginning nothing was done.                                       *)
LEMMA Beginning ==
    ASSUME Init
    PROVE  IInv
<1>1. EntriesOK(<<>>) /\ FilesOK(<<>>)
    BY DEF EntriesOK, FilesOK
<1>2. EntriesOK(archive.entries)
    BY <1>1, ContainersAssumption DEF Init
<1>3. source = [format |-> source.format, files |-> source.files] /\ FilesOK(source.files)
    BY <1>1, ContainersAssumption DEF Init
<1>4. ContainersOK
    BY <1>1, <1>2, <1>3 DEF Init, ContainersOK
<1>5. IsTree(tree)
    BY TreesAssumption DEF Init
<1>6. calls = 0 /\ result = "none" /\ pc \in {"walk", "open"}
    BY DEF Init
<1>7. CallsInOrder /\ TreesOK
    BY <1>5, <1>6 DEF CallsInOrder, TreesOK
<1>8. CallType
    BY DEF Init, CallType, NoCall
<1>9. CallOK /\ Placed
    BY <1>6 DEF CallOK, Placed, Running
<1>10. RefusedUntouched /\ NewNames /\ Kept /\ AddedOnly /\ ContentsKept
    BY <1>6 DEF RefusedUntouched, NewNames, Kept, AddedOnly, ContentsKept
<1> QED  BY <1>4, <1>7, <1>8, <1>9, <1>10 DEF IInv

(* Nothing happens.                                                         *)
LEMMA StutterKeeps ==
    ASSUME IInv, UNCHANGED vars
    PROVE  IInv'
<1>1. /\ UNCHANGED <<input, target, call, calls>> /\ pc' = pc /\ result' = result
      /\ archive' = archive /\ source' = source /\ packed' = packed /\ limits' = limits
      /\ tree' = tree /\ call' = call /\ calls' = calls
    BY DEF vars, writing, input, target
<1>2. /\ TreesOK' /\ CallType' /\ RefusedUntouched' /\ Kept' /\ AddedOnly' /\ ContentsKept'
      /\ FinishedItems' = FinishedItems
      /\ \A i \in FinishedItems : InPlace(Item(archive, i)) => InPlace(Item(archive, i))'
    BY <1>1, SameKeeps
<1>3. CallsInOrder' /\ ContainersOK'
    BY <1>1 DEF IInv, CallsInOrder, ContainersOK
<1>4. Running' = Running /\ Directories' = Directories
    BY <1>1 DEF Running, Directories, Wanted
<1>5. CallOK'
    BY <1>1, <1>4 DEF IInv, CallOK
<1>6. NewNames'
    BY <1>1, <1>2 DEF IInv, NewNames
<1>7. Placed'
    BY <1>1, <1>2, <1>4 DEF IInv, Placed
<1> QED  BY <1>2, <1>3, <1>5, <1>6, <1>7 DEF IInv

(* Every behaviour has them.                                                *)
LEMMA Inductive == Spec => []IInv
<1>1. Init => IInv
    BY Beginning
<1>2. IInv /\ [Next]_vars => IInv'
    BY EarlyStepsKeep, PackKeeps, ChangeSourceKeeps, ExtractKeeps, ExtractEntryKeeps, ChmodDirectoryKeeps,
       FinishKeeps, CancelKeeps, StutterKeeps DEF Next
<1> QED  BY <1>1, <1>2, PTL DEF Spec

(* An extraction that succeeded put what the container says under every     *)
(* name it was asked for (archive/extract.go: extractEntries).              *)
THEOREM SuccessIsComplete == Spec => []ExtractedIsArchive
<1>1. ASSUME IInv PROVE ExtractedIsArchive
    <2> SUFFICES ASSUME result = "ok", NEW e \in Wanted
                 PROVE  /\ e.name \in DOMAIN tree
                        /\ e.type = "directory" => tree[e.name].kind = "directory" /\ tree[e.name].mode = e.mode
                        /\ e.type = "regular" /\ ~SharedBefore(e) =>
                             tree[e.name].kind = "file" /\ disk[tree[e.name].ino] = [data |-> e.data, mode |-> e.mode]
                        /\ e.type = "hardlink" => tree[e.name].kind = "file" /\ tree[e.name] = tree[e.link]
                        /\ e.type = "symlink" => tree[e.name] = Link(e.link)
        BY DEF ExtractedIsArchive
    <2>1. call.work = {} /\ call.modes = {}
        BY <1>1 DEF IInv, CallOK
    <2>2. PICK i \in Picked(archive, call.sel) : e = Item(archive, i)
        BY DEF Wanted, Chosen
    <2>3. i \in FinishedItems
        BY <2>1 DEF FinishedItems
    <2>4. InPlace(e)
        BY <1>1, <2>2, <2>3 DEF IInv, Placed, Running
    <2> QED  BY <2>1, <2>4 DEF InPlace
<1> QED  BY <1>1, Inductive, PTL

(* However an extraction ends, it removed nothing and changed only what it  *)
(* was asked for; and nothing for a container with a name or a link that    *)
(* climbs out, with a hard link to no file, or with a name twice            *)
(* (archive/extract.go: extract).                                           *)
THEOREM NothingElseTouched == Spec => []OnlyWantedTouched
<1>1. ASSUME IInv PROVE OnlyWantedTouched
    <2> SUFFICES ASSUME calls > 0
                 PROVE  /\ \A p \in DOMAIN call.tree :
                             /\ p \in DOMAIN tree
                             /\ \/ tree[p] = call.tree[p]
                                \/ /\ \E e \in Wanted : e.name = p /\ e.type = "directory"
                                   /\ tree[p].kind = "directory" /\ call.tree[p].kind = "directory"
                        /\ \A p \in DOMAIN tree \ DOMAIN call.tree : \E e \in Wanted : IsPrefix(p, e.name)
                        /\ \A i \in DOMAIN call.disk :
                             \/ disk[i] = call.disk[i]
                             \/ \E e \in Wanted : e.type = "regular" /\ FileOf(call.tree, e.name) = i
                        /\ Bad(archive) => tree = call.tree /\ disk = call.disk
        BY DEF OnlyWantedTouched
    <2>1. \A p \in DOMAIN call.tree :
             /\ p \in DOMAIN tree
             /\ \/ tree[p] = call.tree[p]
                \/ /\ \E e \in Wanted : e.name = p /\ e.type = "directory"
                   /\ tree[p].kind = "directory" /\ call.tree[p].kind = "directory"
        BY <1>1 DEF IInv, Kept
    <2>2. \A p \in DOMAIN tree \ DOMAIN call.tree : \E e \in Wanted : IsPrefix(p, e.name)
        BY <1>1 DEF IInv, AddedOnly
    <2>3. \A i \in DOMAIN call.disk :
             \/ disk[i] = call.disk[i]
             \/ \E e \in Wanted : e.type = "regular" /\ FileOf(call.tree, e.name) = i
        BY <1>1 DEF IInv, ContentsKept
    <2>4. Bad(archive) => ~Extractable(limits, archive, call.sel)
        BY <1>1, BadRefused DEF IInv, ContainersOK
    <2>5. Bad(archive) => tree = call.tree /\ disk = call.disk
        BY <1>1, <2>4 DEF IInv, RefusedUntouched
    <2> QED  BY <2>1, <2>2, <2>3, <2>5
<1> QED  BY <1>1, Inductive, PTL

-----------------------------------------------------------------------------
(* Links that stay inside                                                   *)

(* Where a walk can be that has not gone out: with no more ".." to go than  *)
(* there are directories above.                                             *)
Wanders ==
    {w \in [at : Seq(STRING), rest : Seq(STRING), out : {FALSE}] :
        \E u \in 0..Len(w.at) : UpsThenPlain(w.rest, u)}

(* A record of one.                                                         *)
LEMMA Wandering ==
    ASSUME NEW a \in Seq(STRING), NEW x, NEW u \in 0..Len(a), UpsThenPlain(x, u)
    PROVE  [at |-> a, rest |-> x, out |-> FALSE] \in Wanders
<1>1. x \in Seq(STRING)
    BY DEF UpsThenPlain
<1> QED  BY <1>1 DEF Wanders

(* What follows the first component, and what is put in its place.          *)
LEMMA RestOfWalk ==
    ASSUME NEW x, NEW u, UpsThenPlain(x, u), x # <<>>
    PROVE  /\ Head(x) \in STRING
           /\ Head(x) = ".." => u > 0 /\ UpsThenPlain(Tail(x), u - 1)
           /\ Head(x) # ".." => /\ u = 0 /\ UpsThenPlain(Tail(x), 0)
                                /\ \A y : \A v : UpsThenPlain(y, v) => UpsThenPlain(y \o Tail(x), v)
<1> DEFINE r == Tail(x)
<1>1. /\ x \in Seq(STRING) /\ Len(x) \in Nat /\ Len(x) > 0 /\ u \in Nat /\ u <= Len(x)
      /\ \A k \in 1..u : x[k] = ".."
      /\ \A k \in (u+1)..Len(x) : x[k] \notin {"..", ".", "/"}
    <2>1. Len(x) # 0
        BY EmptySeq DEF UpsThenPlain
    <2> QED  BY <2>1 DEF UpsThenPlain
<1>2. Head(x) = x[1] /\ Head(x) \in STRING
    BY <1>1
<1>3. /\ r \in Seq(STRING) /\ Len(r) = Len(x) - 1 /\ Len(r) \in Nat
      /\ \A k \in 1..Len(r) : r[k] = x[k + 1]
    BY <1>1
<1> HIDE DEF r
<1>4. ASSUME x[1] = ".." PROVE u > 0 /\ UpsThenPlain(r, u - 1)
    <2>1. u > 0
        <3> SUFFICES ASSUME u = 0 PROVE FALSE
            BY <1>1
        <3>1. 1 \in (u+1)..Len(x)
            BY <1>1
        <3> QED  BY <1>1, <1>4, <3>1
    <2>2. u - 1 \in 0..Len(r)
        BY <1>1, <1>3, <2>1
    <2>3. \A k \in 1..(u-1) : r[k] = ".."
        BY <1>1, <1>3, <2>1
    <2>4. ASSUME NEW k \in ((u-1)+1)..Len(r) PROVE r[k] \notin {"..", ".", "/"}
        <3>1. k \in 1..Len(r) /\ k + 1 \in (u+1)..Len(x)
            BY <1>1, <1>3, <2>1
        <3> QED  BY <1>1, <1>3, <3>1
    <2> QED  BY <1>3, <2>1, <2>2, <2>3, <2>4 DEF UpsThenPlain
<1>5. ASSUME x[1] # ".." PROVE u = 0 /\ UpsThenPlain(r, 0)
    <2>1. u = 0
        <3> SUFFICES ASSUME u > 0 PROVE FALSE
            BY <1>1
        <3>1. 1 \in 1..u
            BY <1>1
        <3> QED  BY <1>1, <1>5, <3>1
    <2>2. ASSUME NEW k \in (0+1)..Len(r) PROVE r[k] \notin {"..", ".", "/"}
        <3>1. k \in 1..Len(r) /\ k + 1 \in (u+1)..Len(x)
            BY <1>1, <1>3, <2>1
        <3> QED  BY <1>1, <1>3, <3>1
    <2> QED  BY <1>3, <2>1, <2>2 DEF UpsThenPlain
<1>6. ASSUME UpsThenPlain(r, 0), NEW y, NEW v, UpsThenPlain(y, v) PROVE UpsThenPlain(y \o r, v)
    <2>1. /\ y \in Seq(STRING) /\ Len(y) \in Nat /\ v \in Nat /\ v <= Len(y)
          /\ \A k \in 1..v : y[k] = ".."
          /\ \A k \in (v+1)..Len(y) : y[k] \notin {"..", ".", "/"}
        BY <1>6 DEF UpsThenPlain
    <2>2. \A k \in 1..Len(r) : r[k] \notin {"..", ".", "/"}
        BY <1>6 DEF UpsThenPlain
    <2>3. /\ y \o r \in Seq(STRING) /\ Len(y \o r) = Len(y) + Len(r)
          /\ \A k \in 1..Len(y) : (y \o r)[k] = y[k]
          /\ \A k \in 1..Len(r) : (y \o r)[Len(y) + k] = r[k]
        <3>1. y \in Seq(STRING) /\ r \in Seq(STRING)
            BY <1>3, <2>1
        <3>2. y \o r \in Seq(STRING) /\ Len(y \o r) = Len(y) + Len(r)
            BY <3>1, ConcatProperties
        <3>3. \A k \in 1..Len(y) : (y \o r)[k] = y[k]
            BY <3>1
        <3>4. \A k \in 1..Len(r) : (y \o r)[Len(y) + k] = r[k]
            <4> SUFFICES ASSUME NEW k \in 1..Len(r) PROVE (y \o r)[Len(y) + k] = r[k]
                OBVIOUS
            <4>1. Len(y) + k \in Len(y)+1 .. Len(y)+Len(r) /\ (Len(y) + k) - Len(y) = k
                BY <1>3, <2>1
            <4> QED  BY <3>1, <4>1
        <3> QED  BY <3>2, <3>3, <3>4
    <2>4. \A k \in 1..v : (y \o r)[k] = ".."
        BY <2>1, <2>3
    <2>5. ASSUME NEW k \in (v+1)..Len(y \o r) PROVE (y \o r)[k] \notin {"..", ".", "/"}
        <3>1. CASE k <= Len(y)
            BY <2>1, <2>3, <3>1
        <3>2. CASE k > Len(y)
            <4>1. k - Len(y) \in 1..Len(r) /\ Len(y) + (k - Len(y)) = k
                BY <1>3, <2>1, <2>3, <3>2
            <4>2. (y \o r)[Len(y) + (k - Len(y))] = r[k - Len(y)]
                BY <2>3, <4>1
            <4> QED  BY <2>2, <4>1, <4>2
        <3> QED  BY <2>1, <3>1, <3>2
    <2>6. v \in 0..Len(y \o r)
        BY <1>3, <2>1, <2>3
    <2> QED  BY <2>3, <2>4, <2>5, <2>6 DEF UpsThenPlain
<1> QED  BY <1>1, <1>2, <1>4, <1>5, <1>6 DEF r

(* A step among modest links does not go out.                               *)
LEMMA WalkStays ==
    ASSUME NEW t, Modest(t), NEW w \in Wanders
    PROVE  WalkStep(t, w) \in Wanders
<1>1. /\ w.at \in Seq(STRING) /\ Len(w.at) \in Nat
      /\ w.out = FALSE /\ w = [at |-> w.at, rest |-> w.rest, out |-> w.out]
    <2>1. w \in [at : Seq(STRING), rest : Seq(STRING), out : {FALSE}]
        BY DEF Wanders
    <2>2. w.at \in Seq(STRING) /\ w.out = FALSE /\ w = [at |-> w.at, rest |-> w.rest, out |-> w.out]
        BY <2>1
    <2> QED  BY <2>2
<1>2. PICK u \in 0..Len(w.at) : UpsThenPlain(w.rest, u)
    BY DEF Wanders
<1>3. CASE w.rest = <<>>
    BY <1>3 DEF WalkStep
<1>4. CASE w.rest # <<>>
    <2> DEFINE c == Head(w.rest)
    <2> DEFINE r == Tail(w.rest)
    <2> DEFINE q == Append(w.at, c)
    <2>1. /\ c \in STRING
          /\ c = ".." => u > 0 /\ UpsThenPlain(r, u - 1)
          /\ c # ".." => /\ u = 0 /\ UpsThenPlain(r, 0)
                         /\ \A y : \A v : UpsThenPlain(y, v) => UpsThenPlain(y \o r, v)
        BY <1>2, <1>4, RestOfWalk
    <2>2. q \in Seq(STRING) /\ Len(q) = Len(w.at) + 1
        BY <1>1, <2>1
    <2>3. CASE c = ".."
        <3>1. WalkStep(t, w) = [at |-> Parent(w.at), rest |-> r, out |-> w.at = <<>>]
            BY <1>1, <1>4, <2>3 DEF WalkStep
        <3>2. Len(w.at) > 0 /\ w.at # <<>> /\ u - 1 \in 0..(Len(w.at) - 1)
            BY <1>1, <1>2, <2>1, <2>3
        <3>3. Parent(w.at) \in Seq(STRING)
            BY <1>1, ParentPaths
        <3>4. Len(Parent(w.at)) = Len(w.at) - 1
            <4>1. CASE Len(w.at) <= 1
                <5>1. Parent(w.at) = <<>>
                    BY <4>1 DEF Parent
                <5>2. Len(Parent(w.at)) = 0
                    BY <5>1, EmptySeq
                <5>3. \A m \in Nat : m > 0 /\ m <= 1 => m - 1 = 0
                    OBVIOUS
                <5> QED  BY <1>1, <3>2, <4>1, <5>2, <5>3
            <4>2. CASE Len(w.at) > 1
                <5>1. Parent(w.at) = SubSeq(w.at, 1, Len(w.at) - 1)
                    BY <1>1, <4>2 DEF Parent, Front
                <5>2. \A m \in Nat : m > 1 => m - 1 \in Int /\ 1 <= m - 1 /\ (m - 1) - 1 + 1 = m - 1
                    OBVIOUS
                <5>3. \A k \in 1..(Len(w.at) - 1) : w.at[k] \in STRING
                    BY <1>1
                <5>4. 1 \in Int /\ Len(w.at) - 1 \in Int /\ 1 <= Len(w.at) - 1 /\ (Len(w.at) - 1) - 1 + 1 = Len(w.at) - 1
                    BY <1>1, <4>2, <5>2
                <5> QED  BY <5>1, <5>3, <5>4, SubSeqProperties
            <4> QED  BY <1>1, <4>1, <4>2
        <3>5. r \in Seq(STRING)
            BY <2>1, <2>3 DEF UpsThenPlain
        <3>6. u - 1 \in 0..Len(Parent(w.at)) /\ (w.at = <<>>) = FALSE
            BY <3>2, <3>4
        <3> HIDE DEF c, r, q
        <3>7. [at |-> Parent(w.at), rest |-> r, out |-> FALSE] \in Wanders
            BY <2>1, <2>3, <3>3, <3>6, Wandering
        <3> QED  BY <3>1, <3>6, <3>7
    <2>4. CASE c # ".." /\ q \notin DOMAIN t
        <3>1. WalkStep(t, w) = [at |-> w.at, rest |-> <<>>, out |-> FALSE]
            BY <1>1, <1>4, <2>4 DEF WalkStep
        <3>2. UpsThenPlain(<<>>, 0) /\ 0 \in 0..Len(w.at) /\ <<>> \in Seq(STRING)
            BY <1>1 DEF UpsThenPlain
        <3> QED  BY <1>1, <3>1, <3>2 DEF Wanders
    <2>5. CASE c # ".." /\ q \in DOMAIN t /\ t[q].kind = "link"
        <3>1. WalkStep(t, w) = [at |-> w.at, rest |-> t[q].to \o r, out |-> FALSE]
            BY <1>1, <1>4, <2>5 DEF WalkStep
        <3>2. PICK v \in 0..Len(q)-1 : UpsThenPlain(t[q].to, v)
            BY <2>5 DEF Modest, ModestLink
        <3> DEFINE s == t[q].to \o r
        <3>3. UpsThenPlain(s, v)
            BY <2>1, <2>5, <3>2
        <3>4. v \in 0..Len(w.at)
            BY <1>1, <2>2, <3>2
        <3> HIDE DEF c, r, q, s
        <3>6. [at |-> w.at, rest |-> s, out |-> FALSE] \in Wanders
            BY <1>1, <3>3, <3>4, Wandering
        <3> QED  BY <3>1, <3>6 DEF s
    <2>6. CASE c # ".." /\ q \in DOMAIN t /\ t[q].kind # "link"
        <3>1. WalkStep(t, w) = [at |-> q, rest |-> r, out |-> FALSE]
            BY <1>1, <1>4, <2>6 DEF WalkStep
        <3>2. UpsThenPlain(r, 0) /\ r \in Seq(STRING)
            BY <2>1, <2>6 DEF UpsThenPlain
        <3>3. 0 \in 0..Len(q)
            BY <1>1, <2>2
        <3> HIDE DEF c, r, q
        <3> QED  BY <2>2, <3>1, <3>2, <3>3 DEF Wanders
    <2> QED  BY <2>3, <2>4, <2>5, <2>6
<1> QED  BY <1>3, <1>4

(* So no walk does, however long it is followed.                            *)
LEMMA ModestStaysInside ==
    ASSUME NEW t, Modest(t), NEW path, UpsThenPlain(path, 0)
    PROVE  StaysInside(t, path)
<1> DEFINE n == MaxHops
<1> DEFINE T == Wanders
<1> DEFINE base == [at |-> <<>>, rest |-> path, out |-> FALSE]
<1> DEFINE hops == [i \in 1..MaxHops |-> i]
<1> DEFINE step == [q \in T \X (1..n) |-> WalkStep(t, q[1])]
<1> DEFINE Body(h) == [s \in SUBSET DOMAIN hops |->
                          IF s = {} THEN base ELSE WalkStep(t, h[s \ {Max(s)}])]
<1> DEFINE g == CHOOSE h : h = Body(h)
<1>1. n \in Nat /\ DOMAIN hops = 1..n
    BY DEF MaxHops
<1>2. base \in T
    <2>1. path \in Seq(STRING) /\ <<>> \in Seq(STRING) /\ 0 \in 0..Len(<<>>)
        BY DEF UpsThenPlain
    <2> QED  BY <2>1 DEF Wanders
<1>3. step \in [T \X (1..n) -> T]
    <2>1. \A q \in T \X (1..n) : WalkStep(t, q[1]) \in T
        BY WalkStays
    <2> QED  BY <2>1
<1>4. \A x \in T, i \in 1..n : step[<<x, i>>] = WalkStep(t, x)
    OBVIOUS
<1>5. StaysInside(t, path) <=> ~g[1..n].out
    BY <1>1 DEF StaysInside, FoldLeft, MapThenFoldSet
<1>6. g = Body(g)
    <2>1. PICK h : IsFold(h, n, T, base, step)
        <3> HIDE DEF T, n, base, step
        <3> QED  BY <1>1, <1>2, <1>3, FoldExists
    <2>2. ASSUME NEW s \in SUBSET (1..n), s # {}
          PROVE  h[s] = WalkStep(t, h[s \ {Max(s)}])
        <3> HIDE DEF T, n, base, step
        <3>1. Max(s) \in 1..n /\ s \ {Max(s)} \in SUBSET (1..n)
            BY <1>1, <2>2, MaxOfPositions
        <3>2. h[s \ {Max(s)}] \in T /\ h[s] = step[<<h[s \ {Max(s)}], Max(s)>>]
            BY <2>1, <2>2, <3>1 DEF IsFold
        <3> QED  BY <1>4, <3>1, <3>2
    <2>3. h \in [SUBSET (1..n) -> T] /\ h[{}] = base
        BY <2>1 DEF IsFold
    <2>4. h = Body(h)
        <3> HIDE DEF T, n, base, hops
        <3> QED  BY <1>1, <2>2, <2>3
    <2> QED  BY <2>4
<1>7. Folds(g, n, T, base, step)
    <2>1. g[{}] = base
        <3> HIDE DEF g, T, base, hops
        <3> QED  BY <1>6
    <2>2. ASSUME NEW i \in 1..n, g[1..(i-1)] \in T
          PROVE  g[1..i] = step[<<g[1..(i-1)], i>>]
        <3> HIDE DEF g, T, n, step, base, hops
        <3>1. 1..i # {} /\ 1..i \in SUBSET (1..n) /\ (1..i) \ {Max(1..i)} = 1..(i-1) /\ Max(1..i) = i
            BY <1>1, FirstPositions
        <3>2. g[1..i] = WalkStep(t, g[(1..i) \ {Max(1..i)}])
            BY <1>1, <1>6, <3>1
        <3>3. step[<<g[1..(i-1)], i>>] = WalkStep(t, g[1..(i-1)])
            BY <1>4, <2>2
        <3> QED  BY <3>1, <3>2, <3>3
    <2> QED  BY <2>1, <2>2 DEF Folds
<1>8. PICK f : IsRun(f, n, T, base, step) /\ RunOf(f, g, n)
    <2> HIDE DEF T, n, base, step, g
    <2> QED  BY <1>1, <1>2, <1>3, <1>7, FoldRuns
<1>9. g[1..n] \in T
    <2> HIDE DEF T, n, base, step, g
    <2>1. n \in 0..n
        BY <1>1
    <2> QED  BY <1>8, <2>1 DEF IsRun, RunOf
<1>10. g[1..n].out = FALSE
    <2> HIDE DEF g, n
    <2> QED  BY <1>9 DEF Wanders
<1> QED  BY <1>5, <1>10

(* The link that an extraction makes is modest.                             *)
LEMMA NewLinkIsModest ==
    ASSUME IInv, pc = "extract", NEW i \in call.work, archive.entries[i].type = "symlink"
    PROVE  ModestLink(Item(archive, i).name, Item(archive, i).link)
<1> DEFINE r == archive.entries[i]
<1>1. i \in Picked(archive, call.sel) /\ Item(archive, i).name # <<>>
    BY WorkItems
<1>2. i \in DOMAIN archive.entries /\ r \in EntryType /\ IsName(r.name) /\ IsName(r.link)
    BY <1>1 DEF IInv, ContainersOK, EntriesOK, Picked
<1>3. Item(archive, i).name = Normal(r.name) /\ Item(archive, i).link = Normal(r.link)
    BY <1>2 DEF Item, Normalized, EntryType
<1>4. ValidEntry(limits, r)
    <2>1. r \in EntrySet(archive)
        BY <1>2 DEF EntrySet, ToSet
    <2> QED  BY <2>1 DEF IInv, CallOK, Extractable, Running
<1>5. ValidPath(Normal(r.name), limits.path, r.type = "directory") /\ ValidTarget(Normal(r.name), r.link, limits.path)
    BY <1>4 DEF ValidEntry
<1> HIDE DEF r
<1>6. UpsThenPlain(Normal(r.name), 0)
    BY <1>2, <1>5, ValidNameStaysIn
<1>7. \E u \in 0..Len(Parent(Normal(r.name))) : UpsThenPlain(Normal(r.link), u)
    BY <1>2, <1>5, <1>6, ValidTargetStaysIn
<1>8. Len(Parent(Normal(r.name))) = Len(Normal(r.name)) - 1
    BY <1>1, <1>3, <1>6, ParentOfPlain
<1> QED  BY <1>3, <1>6, <1>7, <1>8 DEF ModestLink

(* Which links there are after a step.                                      *)
LEMMA LinksAfterStep ==
    ASSUME IInv, [Next]_vars, NEW p \in DOMAIN tree', tree'[p].kind = "link"
    PROVE  \/ p \in DOMAIN tree /\ tree[p].kind = "link" /\ tree'[p].to = tree[p].to
           \/ ModestLink(p, tree'[p].to)
<1>1. CASE tree' = tree
    BY <1>1
<1>2. CASE ExtractEntry
    <2>1. PICK i \in call.work : MakeDirectory(i) \/ WriteRegular(i) \/ MakeHardlink(i) \/ MakeSymlink(i)
        BY <1>2 DEF ExtractEntry
    <2>2. pc = "extract"
        BY <1>2 DEF ExtractEntry
    <2>3. CASE MakeDirectory(i)
        BY <2>3 DEF MakeDirectory, WithDirectories, NewDirectory
    <2>4. CASE WriteRegular(i)
        <3> DEFINE n == Item(archive, i).name
        <3> DEFINE t == WithDirectories(tree, Parent(n))
        <3>1. tree' = tree \/ tree' = t \/ tree' = With(t, n, File(FileOf(t, n)))
            BY <2>4 DEF WriteRegular, target
        <3>2. \A x \in DOMAIN t : t[x].kind = "link" => x \in DOMAIN tree /\ t[x] = tree[x]
            BY DEF WithDirectories, NewDirectory
        <3>3. File(FileOf(t, n)).kind = "file"
            BY DEF File
        <3> HIDE DEF t, n
        <3> QED  BY <3>1, <3>2, <3>3 DEF With
    <2>5. CASE MakeHardlink(i) \/ MakeSymlink(i)
        <3> DEFINE n == Item(archive, i).name
        <3> DEFINE t == WithDirectories(tree, Parent(n))
        <3>1. \A x \in DOMAIN t : t[x].kind = "link" => x \in DOMAIN tree /\ t[x] = tree[x]
            BY DEF WithDirectories, NewDirectory
        <3>2. ASSUME NEW possible, NEW node, MakeLink(i, possible, node) PROVE tree' = tree \/ tree' = t \/ (tree' = With(t, n, node) /\ possible)
            BY <3>2 DEF MakeLink
        <3>3. CASE MakeHardlink(i)
            <4> DEFINE node == tree[Item(archive, i).link]
            <4> DEFINE possible == Item(archive, i).link \in DOMAIN tree /\ node.kind = "file"
            <4>1. MakeLink(i, possible, node)
                BY <3>3 DEF MakeHardlink
            <4>3. possible => node.kind = "file"
                OBVIOUS
            <4> HIDE DEF node, t, n, possible
            <4>2. tree' = tree \/ tree' = t \/ (tree' = With(t, n, node) /\ node.kind = "file")
                BY <3>2, <4>1, <4>3
            <4> QED  BY <3>1, <4>2 DEF With
        <3>4. CASE MakeSymlink(i)
            <4> DEFINE node == Link(Item(archive, i).link)
            <4>1. MakeLink(i, TRUE, node) /\ archive.entries[i].type = "symlink"
                BY <3>4 DEF MakeSymlink, IsNext
            <4>2. ModestLink(n, node.to)
                <5>1. node.to = Item(archive, i).link
                    BY DEF Link
                <5> QED  BY <2>2, <4>1, <5>1, NewLinkIsModest
            <4> HIDE DEF node, t, n
            <4>3. tree' = tree \/ tree' = t \/ tree' = With(t, n, node)
                BY <3>2, <4>1
            <4> QED  BY <3>1, <4>2, <4>3 DEF With
        <3> QED  BY <2>5, <3>3, <3>4
    <2> QED  BY <2>1, <2>3, <2>4, <2>5
<1>3. CASE ChmodDirectory
    <2>1. PICK e \in call.modes : tree' = tree \/ tree' = [tree EXCEPT ![e.name].mode = e.mode]
        BY <1>3 DEF ChmodDirectory
    <2>2. tree \in [DOMAIN tree -> Node]
        BY DEF IInv, TreesOK, IsTree
    <2>3. tree[p] \in Node /\ p \in DOMAIN tree
        BY <2>1, <2>2
    <2>4. tree'[p].kind = tree[p].kind /\ tree'[p].to = tree[p].to
        BY <2>1, <2>3 DEF Node
    <2> QED  BY <2>3, <2>4
<1>4. CASE Walk \/ Pack \/ ChangeSource \/ Close \/ Open \/ List \/ Extract \/ Finish \/ Cancel \/ UNCHANGED vars
    <2>1. tree' = tree
        BY <1>4 DEF Walk, Pack, ChangeSource, Close, Open, List, Extract, Finish, Cancel, vars, target
    <2> QED  BY <1>1, <2>1
<1> QED  BY <1>2, <1>3, <1>4 DEF Next

(* What a call began with, after a step.                                    *)
LEMMA CallAfterStep ==
    ASSUME IInv, [Next]_vars
    PROVE  \/ calls' = 0
           \/ call'.tree = call.tree /\ calls' = calls
           \/ call'.tree = tree /\ tree' = tree
<1>1. CASE ExtractEntry
    <2>1. PICK i \in call.work : MakeDirectory(i) \/ WriteRegular(i) \/ MakeHardlink(i) \/ MakeSymlink(i)
        BY <1>1 DEF ExtractEntry
    <2>2. calls' = calls
        BY <2>1 DEF MakeDirectory, WriteRegular, MakeHardlink, MakeSymlink
    <2>3. call' = call \/ call' = [call EXCEPT !.work = @ \ {i}]
        BY <2>1 DEF MakeDirectory, WriteRegular, MakeHardlink, MakeSymlink, MakeLink, Done
    <2>4. call = [sel |-> call.sel, work |-> call.work, modes |-> call.modes, tree |-> call.tree, disk |-> call.disk]
        BY DEF IInv, CallType
    <2> QED  BY <2>2, <2>3, <2>4
<1>2. CASE ChmodDirectory
    <2>1. PICK e \in call.modes : call' = call \/ call' = [call EXCEPT !.modes = @ \ {e}]
        BY <1>2 DEF ChmodDirectory
    <2>2. call = [sel |-> call.sel, work |-> call.work, modes |-> call.modes, tree |-> call.tree, disk |-> call.disk]
        BY DEF IInv, CallType
    <2> QED  BY <1>2, <2>1, <2>2 DEF ChmodDirectory
<1>3. CASE Extract
    BY <1>3 DEF Extract, target
<1>4. CASE Walk \/ Pack \/ ChangeSource \/ Close \/ Open \/ List \/ Finish \/ Cancel \/ UNCHANGED vars
    BY <1>4 DEF Walk, Pack, ChangeSource, Close, Open, List, Finish, Cancel, vars
<1> QED  BY <1>1, <1>2, <1>3, <1>4 DEF Next

(* Links that were extracted cannot be followed out of the destination, not *)
(* even through each other or through modest links that were there          *)
(* (archive/extract.go: validateSymlinkTarget).                             *)
THEOREM LinksNeverLeave == Spec => []LinksStayInside
<1>1. Init => ModestKept
    BY DEF Init, ModestKept
<1>2. IInv /\ ModestKept /\ [Next]_vars => ModestKept'
    <2> SUFFICES ASSUME IInv, ModestKept, [Next]_vars, calls' > 0, Modest(call'.tree)
                 PROVE  Modest(tree')
        BY DEF ModestKept
    <2>1. Modest(tree)
        <3>1. CASE call'.tree = tree
            BY <3>1
        <3>2. CASE call'.tree = call.tree /\ calls' = calls
            BY <3>2 DEF ModestKept
        <3> QED  BY <3>1, <3>2, CallAfterStep
    <2> SUFFICES ASSUME NEW p \in DOMAIN tree', tree'[p].kind = "link" PROVE ModestLink(p, tree'[p].to)
        BY DEF Modest
    <2> QED  BY <2>1, LinksAfterStep DEF Modest
<1>3. ModestKept => LinksStayInside
    <2> SUFFICES ASSUME ModestKept, calls > 0, Modest(call.tree), NEW p \in DOMAIN tree, tree[p].kind = "link"
                 PROVE  StaysInside(tree, p)
        BY DEF LinksStayInside
    <2>1. Modest(tree) /\ UpsThenPlain(p, 0)
        BY DEF ModestKept, Modest, ModestLink
    <2> QED  BY <2>1, ModestStaysInside
<1> QED  BY <1>1, <1>2, <1>3, Inductive, PTL DEF Spec

-----------------------------------------------------------------------------
(* An extraction into a new directory.                                     *)

(* The ways down a name: what is on the way to it is shorter, and so is     *)
(* what is above that.                                                      *)
LEMMA WaysDown ==
    ASSUME NEW n \in Seq(STRING), NEW p \in PathsTo(n)
    PROVE  /\ p \in Seq(STRING) /\ p # <<>> /\ Len(n) \in Nat \ {0}
           /\ PathsTo(p) \subseteq PathsTo(n)
           /\ p # n => IsStrictPrefix(p, n)
           /\ Parent(p) = <<>> \/ Parent(p) \in PathsTo(n)
           /\ IsStrictPrefix(Parent(p), n) /\ Len(Parent(p)) < Len(n)
           /\ Parent(p) \in Seq(STRING)
<1>1. Len(n) \in Nat /\ \A k \in 1..Len(n) : n[k] \in STRING
    OBVIOUS
<1>2. PICK k \in 1..Len(n) : p = SubSeq(n, 1, k)
    BY DEF PathsTo
<1>3. p \in Seq(STRING) /\ IsPrefix(p, n)
    BY PathsArePrefixes
<1>4. k \in Nat /\ k >= 1 /\ k <= Len(n) /\ Len(n) \in Nat \ {0}
    BY <1>1, <1>2
<1>5. Len(p) = k
    <2>1. \A j \in 1..k : n[j] \in STRING
        BY <1>1, <1>4
    <2>2. 1 \in Int /\ k \in Int /\ 1 <= k /\ k - 1 + 1 = k
        BY <1>4
    <2> QED  BY <1>2, <2>1, <2>2, SubSeqProperties
<1>6. p # <<>>
    BY <1>3, <1>4, <1>5, EmptySeq
<1>7. ASSUME NEW q \in PathsTo(p) PROVE q \in PathsTo(n)
    <2>1. PICK i \in 1..k : q = SubSeq(p, 1, i)
        BY <1>5, <1>7 DEF PathsTo
    <2>2. /\ 1 \in 1..Len(n) /\ k \in 1..Len(n) /\ 1 \in 1..(k - 1 + 1) /\ i \in 1..(k - 1 + 1)
          /\ 1 + 1 - 1 = 1 /\ 1 + i - 1 = i /\ i \in 1..Len(n)
        BY <1>4, <2>1
    <2>3. SubSeq(SubSeq(n, 1, k), 1, i) = SubSeq(n, 1 + 1 - 1, 1 + i - 1)
        BY <2>2, SubSeqOfSubSeq
    <2>4. q = SubSeq(n, 1, i)
        BY <1>2, <2>1, <2>2, <2>3
    <2> QED  BY <2>2, <2>4 DEF PathsTo
<1>8. CASE k = 1
    <2>1. Parent(p) = <<>>
        BY <1>5, <1>8 DEF Parent
    <2>2. Len(<<>>) = 0 /\ <<>> \in Seq(STRING)
        OBVIOUS
    <2>3. SubSeq(<<>>, 1, 0) = <<>> /\ SubSeq(n, 1, 0) = <<>>
        BY SubSeqEmpty
    <2>4. IsPrefix(<<>>, n)
        BY <1>4, <2>2, <2>3 DEF IsPrefix
    <2>5. <<>> # n
        BY <1>4, <2>2
    <2> QED  BY <1>3, <1>4, <1>6, <1>7, <2>1, <2>2, <2>4, <2>5 DEF IsStrictPrefix
<1>9. CASE k # 1
    <2> DEFINE m == k - 1
    <2>1. m \in 1..k /\ m < Len(n) /\ Len(p) > 1 /\ m = Len(p) - 1
        BY <1>4, <1>5, <1>9
    <2>2. Parent(p) = SubSeq(p, 1, m)
        BY <2>1 DEF Parent, Front
    <2>3. Parent(p) \in PathsTo(p)
        <3> HIDE DEF m
        <3> QED  BY <1>5, <2>1, <2>2 DEF PathsTo
    <2>4. Parent(p) \in PathsTo(n)
        BY <1>7, <2>3
    <2>5. Parent(p) \in Seq(STRING) /\ IsPrefix(Parent(p), n)
        BY <2>4, PathsArePrefixes
    <2>6. Len(Parent(p)) = m
        <3>1. \A j \in 1..m : p[j] \in STRING
            <4>1. m \in Nat /\ m <= Len(p)
                BY <1>4, <1>5, <2>1
            <4> HIDE DEF m
            <4> QED  BY <1>3, <4>1
        <3>2. 1 \in Int /\ m \in Int /\ 1 <= m /\ m - 1 + 1 = m
            BY <1>4, <2>1
        <3> HIDE DEF m
        <3> QED  BY <2>2, <3>1, <3>2, SubSeqProperties
    <2>7. Parent(p) # n
        BY <2>1, <2>6
    <2> QED  BY <1>3, <1>4, <1>6, <1>7, <2>1, <2>4, <2>5, <2>6, <2>7 DEF IsStrictPrefix
<1>10. p # n => IsStrictPrefix(p, n)
    BY <1>3 DEF IsStrictPrefix
<1> QED  BY <1>8, <1>9, <1>10, <1>7, <1>3, <1>6, <1>4

(* The ways to a name are those to its parent and the name.                 *)
LEMMA WaysToParent ==
    ASSUME NEW n \in Seq(STRING), n # <<>>
    PROVE  /\ Parent(n) \in Seq(STRING) /\ PathsTo(n) = PathsTo(Parent(n)) \union {n}
           /\ n \notin PathsTo(Parent(n))
           /\ Parent(n) = <<>> \/ Parent(n) \in PathsTo(n)
           /\ IsStrictPrefix(Parent(n), n)
<1>1. Len(n) \in Nat \ {0} /\ n \in PathsTo(n) /\ Parent(n) \in Seq(STRING)
    BY EmptySeq, PathsArePrefixes, ParentPaths
<1>2. Parent(n) = <<>> \/ Parent(n) \in PathsTo(n)
    BY <1>1, WaysDown
<1>3. IsStrictPrefix(Parent(n), n) /\ Len(Parent(n)) < Len(n)
    BY <1>1, WaysDown
<1>4. PathsTo(<<>>) = {}
    BY DEF PathsTo
<1>5. PathsTo(Parent(n)) \subseteq PathsTo(n)
    BY <1>2, <1>4, WaysDown
<1>6. ASSUME n \in PathsTo(Parent(n)) PROVE FALSE
    <2>1. PICK i \in 1..Len(Parent(n)) : n = SubSeq(Parent(n), 1, i)
        BY <1>6 DEF PathsTo
    <2>2. Len(n) <= Len(Parent(n))
        <3>1. IsPrefix(n, Parent(n))
            BY <1>1, <1>6, PathsArePrefixes
        <3> QED  BY <3>1 DEF IsPrefix
    <2>3. Len(Parent(n)) \in Nat
        BY <1>1
    <2> QED  BY <1>1, <1>3, <2>2, <2>3
<1>7. ASSUME NEW p \in PathsTo(n), p # n PROVE p \in PathsTo(Parent(n))
    <2>1. PICK k \in 1..Len(n) : p = SubSeq(n, 1, k)
        BY <1>7 DEF PathsTo
    <2>2. k # Len(n)
        BY <1>7, <2>1, SubSeqFull
    <2> DEFINE m == Len(n) - 1
    <2>3. m \in 1..Len(n) /\ k \in 1..m /\ Len(n) > 1 /\ m \in Nat /\ m <= Len(n)
        BY <1>1, <2>1, <2>2
    <2>4. Parent(n) = SubSeq(n, 1, m)
        BY <2>3 DEF Parent, Front
    <2> HIDE DEF m
    <2>5. Len(Parent(n)) = m
        <3>1. \A j \in 1..m : n[j] \in STRING
            BY <2>3
        <3>2. 1 \in Int /\ m \in Int /\ 1 <= m /\ m - 1 + 1 = m
            BY <2>3
        <3> QED  BY <2>4, <3>1, <3>2, SubSeqProperties
    <2>6. SubSeq(Parent(n), 1, k) = SubSeq(n, 1, k)
        <3>1. /\ 1 \in 1..Len(n) /\ m \in 1..Len(n) /\ 1 \in 1..(m - 1 + 1) /\ k \in 1..(m - 1 + 1)
              /\ 1 + 1 - 1 = 1 /\ 1 + k - 1 = k
            BY <2>3
        <3>2. SubSeq(SubSeq(n, 1, m), 1, k) = SubSeq(n, 1 + 1 - 1, 1 + k - 1)
            BY <3>1, SubSeqOfSubSeq
        <3> QED  BY <2>4, <3>1, <3>2
    <2> QED  BY <2>1, <2>3, <2>5, <2>6 DEF PathsTo
<1> QED  BY <1>1, <1>2, <1>3, <1>5, <1>6, <1>7

(* What an entry that is not finished finds on its way: directories that    *)
(* can be searched, and under its own name nothing but a directory for one. *)
LEMMA Passable ==
    ASSUME IInv, pc = "extract", Fresh, NEW i \in call.work, NEW t, EntriesApart(t), ClosedLast(t)
    PROVE  LET n == Item(archive, i).name
           IN  /\ NoSymlinkComponents(t, n) /\ NoSymlinkComponents(t, Parent(n))
               /\ Parent(n) \in DOMAIN t => t[Parent(n)].kind = "directory"
               /\ n \in DOMAIN t => t[n].kind = "directory" /\ Item(archive, i).type = "directory"
<1> DEFINE n == Item(archive, i).name
<1>1. /\ Running /\ i \in Picked(archive, call.sel) /\ i \notin FinishedItems
      /\ n \in Seq(STRING) /\ n # <<>> /\ Item(archive, i) \in Wanted
    BY WorkItems DEF Running, FinishedItems
<1>2. call.modes = Directories
    BY <1>1 DEF IInv, CallOK
<1>3. \A p \in DOMAIN t : t[p].kind # "directory" =>
         \E j \in FinishedItems : Item(archive, j).name = p /\ Item(archive, j).type # "directory"
    BY DEF EntriesApart
<1>4. n \in DOMAIN t => t[n].kind = "directory"
    <2> SUFFICES ASSUME n \in DOMAIN t, t[n].kind # "directory" PROVE FALSE
        OBVIOUS
    <2>1. PICK j \in FinishedItems : Item(archive, j).name = n
        BY <1>3
    <2>2. j \in Picked(archive, call.sel)
        BY DEF FinishedItems
    <2>3. j = i
        BY <1>1, <2>1, <2>2, NamesDiffer
    <2> QED  BY <1>1, <2>3
<1>5. n \in DOMAIN t => Item(archive, i).type = "directory"
    BY <1>1, <1>4 DEF EntriesApart
<1>6. \A p \in DOMAIN t : t[p].kind = "directory" => t[p].mode # "closed"
    BY <1>2 DEF ClosedLast
<1>7. ASSUME NEW p \in DOMAIN t, IsStrictPrefix(p, n) PROVE OpenDirectory(t, p)
    <2>1. t[p].kind = "directory"
        <3> SUFFICES ASSUME t[p].kind # "directory" PROVE FALSE
            OBVIOUS
        <3>1. PICK j \in FinishedItems : Item(archive, j).name = p /\ Item(archive, j).type # "directory"
            BY <1>3
        <3>2. Item(archive, j) \in Wanted
            BY DEF FinishedItems, Wanted, Chosen
        <3> QED  BY <1>1, <1>7, <3>1, <3>2 DEF Fresh, Coherent
    <2> QED  BY <1>6, <2>1 DEF OpenDirectory
<1>8. ASSUME NEW p \in PathsTo(n), Parent(p) \in DOMAIN t
      PROVE  OpenDirectory(t, Parent(p)) /\ (p \in DOMAIN t => t[p].kind # "link")
    <2>1. IsStrictPrefix(Parent(p), n) /\ (p # n => IsStrictPrefix(p, n))
        BY <1>1, WaysDown
    <2>2. OpenDirectory(t, Parent(p))
        BY <1>7, <1>8, <2>1
    <2>3. p \in DOMAIN t => t[p].kind = "directory"
        BY <1>4, <1>7, <2>1 DEF OpenDirectory
    <2> QED  BY <2>2, <2>3
<1>9. PathsTo(Parent(n)) \subseteq PathsTo(n) /\ IsStrictPrefix(Parent(n), n)
    BY <1>1, WaysToParent
<1>10. NoSymlinkComponents(t, n)
    BY <1>8 DEF NoSymlinkComponents
<1>11. NoSymlinkComponents(t, Parent(n))
    BY <1>8, <1>9 DEF NoSymlinkComponents
<1>12. Parent(n) \in DOMAIN t => t[Parent(n)].kind = "directory"
    BY <1>7, <1>9 DEF OpenDirectory
<1> QED  BY <1>4, <1>5, <1>10, <1>11, <1>12

(* What a tree is as long as nothing in it is in the way.                   *)
Unblocked(t) == OnTheWay(t) /\ EntriesApart(t) /\ ClosedLast(t)

(* So it stays, with the directories that are made for it.                  *)
LEMMA DirectoriesUnblock ==
    ASSUME IInv, pc = "extract", Fresh, NEW i \in call.work, Unblocked(tree), NEW d,
           d \in {Item(archive, i).name, Parent(Item(archive, i).name)},
           d = Item(archive, i).name => Item(archive, i).type = "directory"
    PROVE  CanMakeDirectory(tree, d) /\ Unblocked(WithDirectories(tree, d))
<1> DEFINE n == Item(archive, i).name
<1> DEFINE t == WithDirectories(tree, d)
<1>1. /\ Running /\ i \in Picked(archive, call.sel)
      /\ n \in Seq(STRING) /\ n # <<>> /\ Item(archive, i) \in Wanted
    BY WorkItems DEF Running
<1>2. OnTheWay(tree) /\ EntriesApart(tree) /\ ClosedLast(tree)
    BY DEF Unblocked
<1>3. /\ NoSymlinkComponents(tree, n) /\ NoSymlinkComponents(tree, Parent(n))
      /\ Parent(n) \in DOMAIN tree => tree[Parent(n)].kind = "directory"
      /\ n \in DOMAIN tree => tree[n].kind = "directory" /\ Item(archive, i).type = "directory"
    BY <1>2, Passable
<1>4. CanMakeDirectory(tree, d)
    BY <1>3 DEF CanMakeDirectory
<1>5. /\ Parent(n) \in Seq(STRING) /\ PathsTo(n) = PathsTo(Parent(n)) \union {n}
      /\ n \notin PathsTo(Parent(n)) /\ IsStrictPrefix(Parent(n), n)
    BY <1>1, WaysToParent
<1>6. d \in Seq(STRING) /\ PathsTo(d) \subseteq PathsTo(n) /\ (n \in PathsTo(d) => Item(archive, i).type = "directory")
    BY <1>1, <1>5
<1>7. IsTree(tree)
    BY DEF IInv, TreesOK
<1>8. /\ DOMAIN t = DOMAIN tree \union PathsTo(d)
      /\ \A p \in DOMAIN tree : t[p] = tree[p]
      /\ \A p \in PathsTo(d) \ DOMAIN tree : t[p] = NewDirectory
    BY <1>4, <1>6, <1>7, GrowDirectories
<1>9. NewDirectory.kind = "directory" /\ NewDirectory.mode # "closed"
    BY DEF NewDirectory
<1> HIDE DEF t
<1>10. OnTheWay(t)
    <2>1. ASSUME NEW p \in DOMAIN t PROVE PathsTo(p) \subseteq DOMAIN t
        <3>1. CASE p \in DOMAIN tree
            BY <1>2, <1>8, <3>1 DEF OnTheWay
        <3>2. CASE p \in PathsTo(d)
            <4>1. PathsTo(p) \subseteq PathsTo(d)
                BY <1>6, <3>2, WaysDown
            <4> QED  BY <1>8, <4>1
        <3> QED  BY <1>8, <2>1, <3>1, <3>2
    <2>2. ASSUME NEW p \in DOMAIN t \ {<<>>}
          PROVE  \E k \in Picked(archive, call.sel) : p \in PathsTo(Item(archive, k).name)
        <3>1. CASE p \in DOMAIN tree
            BY <1>2, <2>2, <3>1 DEF OnTheWay
        <3>2. CASE p \in PathsTo(d)
            BY <1>1, <1>6, <3>2
        <3> QED  BY <1>8, <2>2, <3>1, <3>2
    <2> QED  BY <2>1, <2>2 DEF OnTheWay
<1>11. EntriesApart(t)
    <2> SUFFICES ASSUME NEW p \in DOMAIN t
                 PROVE  IF t[p].kind = "directory"
                        THEN \A k \in Picked(archive, call.sel) :
                                Item(archive, k).name = p => Item(archive, k).type = "directory"
                        ELSE \E k \in FinishedItems : Item(archive, k).name = p /\ Item(archive, k).type # "directory"
        BY DEF EntriesApart
    <2>1. CASE p \in DOMAIN tree
        BY <1>2, <1>8, <2>1 DEF EntriesApart
    <2>2. CASE p \in PathsTo(d) \ DOMAIN tree
        <3>1. t[p].kind = "directory"
            BY <1>8, <1>9, <2>2
        <3>2. ASSUME NEW k \in Picked(archive, call.sel), Item(archive, k).name = p
              PROVE  Item(archive, k).type = "directory"
            <4>1. CASE p = n
                <5>1. k = i
                    BY <1>1, <3>2, <4>1, NamesDiffer
                <5> QED  BY <1>6, <2>2, <4>1, <5>1
            <4>2. CASE p # n
                <5>1. IsStrictPrefix(p, n)
                    BY <1>1, <1>6, <2>2, <4>2, WaysDown
                <5>2. Item(archive, k) \in Wanted
                    BY DEF Wanted, Chosen
                <5> QED  BY <1>1, <3>2, <5>1, <5>2 DEF Fresh, Coherent
            <4> QED  BY <4>1, <4>2
        <3> QED  BY <3>1, <3>2
    <2> QED  BY <1>8, <2>1, <2>2
<1>12. ClosedLast(t)
    <2> SUFFICES ASSUME NEW p \in DOMAIN t, t[p].kind = "directory", t[p].mode = "closed"
                 PROVE  \E e \in Directories \ call.modes : e.name = p /\ e.mode = "closed"
        BY DEF ClosedLast
    <2>1. p \in DOMAIN tree /\ t[p] = tree[p]
        BY <1>8, <1>9
    <2> QED  BY <1>2, <2>1 DEF ClosedLast
<1> QED  BY <1>4, <1>10, <1>11, <1>12 DEF Unblocked, t

(* An entry that is finished adds at most a node of its own.                *)
LEMMA EntryDone ==
    ASSUME IInv, pc = "extract", Fresh, Unhindered, NEW i \in call.work, NEW t, Unblocked(t), Done(i),
           UNCHANGED <<writing, input, calls>>,
           \/ tree' = t
           \/ /\ Item(archive, i).type # "directory"
              /\ DOMAIN tree' = DOMAIN t \union {Item(archive, i).name}
              /\ Item(archive, i).name \notin DOMAIN t
              /\ \A p \in DOMAIN t : tree'[p] = t[p]
              /\ tree'[Item(archive, i).name].kind # "directory"
              /\ PathsTo(Parent(Item(archive, i).name)) \subseteq DOMAIN t
    PROVE  Unhindered'
<1> DEFINE n == Item(archive, i).name
<1>1. /\ Running /\ i \in Picked(archive, call.sel)
      /\ n \in Seq(STRING) /\ n # <<>> /\ Item(archive, i) \in Wanted
    BY WorkItems DEF Running
<1>2. /\ archive' = archive /\ pc' = pc
      /\ call'.sel = call.sel /\ call'.modes = call.modes
      /\ FinishedItems' = FinishedItems \union {i} /\ Wanted' = Wanted
    BY DoneKeeps
<1>3. result' = result /\ result # "failed" /\ DeepestFirst
    BY <1>1 DEF Done, Unhindered
<1>4. Directories' = Directories
    BY <1>2 DEF Directories
<1>5. DeepestFirst'
    BY <1>2, <1>3, <1>4 DEF DeepestFirst
<1>6. OnTheWay(t) /\ EntriesApart(t) /\ ClosedLast(t)
    BY DEF Unblocked
<1>7. CASE tree' = t
    <2>1. OnTheWay(tree)'
        BY <1>2, <1>6, <1>7 DEF OnTheWay, Item
    <2>2. EntriesApart(tree)'
        BY <1>2, <1>6, <1>7 DEF EntriesApart, Item
    <2>3. ClosedLast(tree)'
        BY <1>2, <1>4, <1>6, <1>7 DEF ClosedLast
    <2> QED  BY <1>3, <1>5, <2>1, <2>2, <2>3 DEF Unhindered
<1>8. CASE /\ Item(archive, i).type # "directory"
           /\ DOMAIN tree' = DOMAIN t \union {n} /\ n \notin DOMAIN t
           /\ \A p \in DOMAIN t : tree'[p] = t[p]
           /\ tree'[n].kind # "directory"
           /\ PathsTo(Parent(n)) \subseteq DOMAIN t
    <2>1. PathsTo(n) = PathsTo(Parent(n)) \union {n} /\ n \in PathsTo(n)
        BY <1>1, WaysToParent
    <2>2. i \in FinishedItems' /\ Item(archive, i)' = Item(archive, i)
        BY <1>2 DEF Item
    <2>3. OnTheWay(tree)'
        <3>1. ASSUME NEW p \in DOMAIN tree' PROVE PathsTo(p) \subseteq DOMAIN tree'
            <4>1. CASE p \in DOMAIN t
                BY <1>6, <1>8, <4>1 DEF OnTheWay
            <4>2. CASE p = n
                BY <1>8, <2>1, <4>2
            <4> QED  BY <1>8, <4>1, <4>2
        <3>2. ASSUME NEW p \in DOMAIN tree' \ {<<>>}
              PROVE  \E k \in Picked(archive, call.sel) : p \in PathsTo(Item(archive, k).name)
            <4>1. CASE p \in DOMAIN t
                BY <1>6, <3>2, <4>1 DEF OnTheWay
            <4>2. CASE p = n
                BY <1>1, <2>1, <4>2
            <4> QED  BY <1>8, <4>1, <4>2
        <3> QED  BY <1>2, <3>1, <3>2 DEF OnTheWay, Item
    <2>4. EntriesApart(tree)'
        <3> SUFFICES ASSUME NEW p \in DOMAIN tree'
                     PROVE  IF tree'[p].kind = "directory"
                            THEN \A k \in Picked(archive, call.sel) :
                                    Item(archive, k).name = p => Item(archive, k).type = "directory"
                            ELSE \E k \in FinishedItems \union {i} :
                                    Item(archive, k).name = p /\ Item(archive, k).type # "directory"
            BY <1>2 DEF EntriesApart, Item
        <3>1. CASE p \in DOMAIN t
            BY <1>6, <1>8, <3>1 DEF EntriesApart
        <3>2. CASE p = n
            BY <1>8, <3>2
        <3> QED  BY <1>8, <3>1, <3>2
    <2>5. ClosedLast(tree)'
        <3> SUFFICES ASSUME NEW p \in DOMAIN tree', tree'[p].kind = "directory", tree'[p].mode = "closed"
                     PROVE  \E e \in Directories \ call.modes : e.name = p /\ e.mode = "closed"
            BY <1>2, <1>4 DEF ClosedLast
        <3>1. p \in DOMAIN t /\ tree'[p] = t[p]
            BY <1>8
        <3> QED  BY <1>6, <3>1 DEF ClosedLast
    <2> QED  BY <1>3, <1>5, <2>3, <2>4, <2>5 DEF Unhindered
<1> QED  BY <1>7, <1>8

(* What an action keeps that goes on with a call or ends it.                *)
LEMMA FreshStays ==
    ASSUME IInv, pc = "extract", ExtractEntry \/ ChmodDirectory \/ Finish \/ Cancel, Fresh'
    PROVE  Fresh
<1>1. call = [sel |-> call.sel, work |-> call.work, modes |-> call.modes, tree |-> call.tree, disk |-> call.disk]
    BY DEF IInv, CallType
<1>2. archive' = archive /\ calls' = calls
    BY DEF ExtractEntry, MakeDirectory, WriteRegular, MakeHardlink, MakeSymlink, ChmodDirectory, Finish, Cancel, input
<1>3. call'.sel = call.sel /\ call'.tree = call.tree
    <2>1. CASE ExtractEntry
        <3>1. PICK i \in call.work : MakeDirectory(i) \/ WriteRegular(i) \/ MakeHardlink(i) \/ MakeSymlink(i)
            BY <2>1 DEF ExtractEntry
        <3>2. call' = call \/ Done(i)
            BY <3>1 DEF MakeDirectory, WriteRegular, MakeHardlink, MakeSymlink, MakeLink
        <3> QED  BY <1>1, <3>2 DEF Done
    <2>2. CASE ChmodDirectory
        <3>1. PICK e \in call.modes : call' = call \/ call' = [call EXCEPT !.modes = @ \ {e}]
            BY <2>2 DEF ChmodDirectory
        <3> QED  BY <1>1, <3>1
    <2>3. CASE Finish \/ Cancel
        BY <2>3 DEF Finish, Cancel
    <2> QED  BY <2>1, <2>2, <2>3
<1> QED  BY <1>2, <1>3 DEF Fresh, Wanted

(* A directory can be made.                                                 *)
LEMMA DirectorySucceeds ==
    ASSUME IInv, pc = "extract", Fresh, Unhindered, NEW i \in call.work, MakeDirectory(i)
    PROVE  Unhindered'
<1> DEFINE n == Item(archive, i).name
<1>1. Unblocked(tree)
    BY DEF Unhindered, Unblocked, Running
<1>2. IsNext(i, "directory") /\ UNCHANGED <<writing, input, disk, calls>>
    BY DEF MakeDirectory
<1>3. Item(archive, i).type = "directory"
    BY <1>2, WorkItems DEF IsNext
<1>4. CanMakeDirectory(tree, n) /\ Unblocked(WithDirectories(tree, n))
    BY <1>1, <1>3, DirectoriesUnblock
<1>5. tree' = WithDirectories(tree, n) /\ Done(i)
    BY <1>4 DEF MakeDirectory
<1> DEFINE t == WithDirectories(tree, n)
<1>6. tree' = t /\ Unblocked(t)
    BY <1>4, <1>5
<1> HIDE DEF t
<1> QED  BY <1>2, <1>5, <1>6, EntryDone

(* What has the way to the name of a file or a link, and finds it free.     *)
LEMMA NameIsFree ==
    ASSUME IInv, pc = "extract", Fresh, Unhindered, NEW i \in call.work, Item(archive, i).type # "directory"
    PROVE  LET n == Item(archive, i).name
               t == WithDirectories(tree, Parent(n))
           IN  /\ CanMakeDirectory(tree, Parent(n)) /\ Unblocked(t)
               /\ NoSymlinkComponents(t, n) /\ n \notin DOMAIN t
               /\ PathsTo(Parent(n)) \subseteq DOMAIN t
               /\ \A p \in DOMAIN tree : p \in DOMAIN t /\ t[p] = tree[p]
<1> DEFINE n == Item(archive, i).name
<1> DEFINE d == Parent(n)
<1> DEFINE t == WithDirectories(tree, d)
<1>1. Unblocked(tree)
    BY DEF Unhindered, Unblocked, Running
<1>2. n \in Seq(STRING) /\ n # <<>>
    BY WorkItems
<1>3. d # n
    BY <1>2, WaysToParent DEF IsStrictPrefix
<1>4. CanMakeDirectory(tree, d) /\ Unblocked(t)
    BY <1>1, <1>3, DirectoriesUnblock
<1>5. EntriesApart(t) /\ ClosedLast(t)
    BY <1>4 DEF Unblocked
<1>6. DOMAIN t = DOMAIN tree \union PathsTo(d) /\ \A p \in DOMAIN tree : t[p] = tree[p]
    BY DEF WithDirectories
<1> HIDE DEF t
<1>7. NoSymlinkComponents(t, n) /\ (n \in DOMAIN t => Item(archive, i).type = "directory")
    BY <1>5, Passable
<1> QED  BY <1>4, <1>6, <1>7 DEF t

(* A file can be written.                                                   *)
LEMMA FileSucceeds ==
    ASSUME IInv, pc = "extract", Fresh, Unhindered, NEW i \in call.work, WriteRegular(i)
    PROVE  Unhindered'
<1> DEFINE e == Item(archive, i)
<1> DEFINE n == e.name
<1> DEFINE t == WithDirectories(tree, Parent(n))
<1> DEFINE ino == FileOf(t, n)
<1> DEFINE mode == IF ino \in DOMAIN disk THEN disk[ino].mode ELSE "private"
<1>1. IsNext(i, "regular") /\ UNCHANGED <<writing, input, calls>>
    BY DEF WriteRegular
<1>2. i \in Picked(archive, call.sel) /\ e.type = "regular" /\ e \in Wanted
    BY <1>1, WorkItems DEF IsNext
<1>3. /\ CanMakeDirectory(tree, Parent(n)) /\ Unblocked(t)
      /\ NoSymlinkComponents(t, n) /\ n \notin DOMAIN t
      /\ PathsTo(Parent(n)) \subseteq DOMAIN t
    BY <1>2, NameIsFree
<1>4. CanWrite(t, disk, n)
    BY <1>3 DEF CanWrite
<1>5. /\ tree' = With(t, n, File(ino))
      /\ \/ /\ Exact(e)
            /\ disk' = With(disk, ino, [data |-> Copied(e), mode |-> e.mode])
            /\ Done(i)
         \/ /\ disk' = With(disk, ino, [data |-> "partial", mode |-> mode])
            /\ Stop(IF e.whole THEN "cancelled" ELSE "failed")
            /\ UNCHANGED call
    BY <1>3, <1>4 DEF WriteRegular
<1>6. CASE Stop(IF e.whole THEN "cancelled" ELSE "failed")
    <2>1. e.whole
        BY <1>2 DEF Fresh, Coherent
    <2>2. pc' = "idle" /\ result' = "cancelled"
        BY <1>6, <2>1 DEF Stop
    <2> QED  BY <2>2 DEF Unhindered, Running
<1>7. CASE Done(i)
    <2>1. File(ino).kind # "directory"
        BY DEF File
    <2>2. DOMAIN tree' = DOMAIN t \union {n} /\ tree'[n] = File(ino) /\ \A p \in DOMAIN t : tree'[p] = t[p]
        BY <1>3, <1>5 DEF With
    <2>3. Item(archive, i).type # "directory" /\ tree'[Item(archive, i).name].kind # "directory"
        BY <1>2, <2>1, <2>2
    <2> HIDE DEF t, ino
    <2> QED  BY <1>1, <1>3, <1>7, <2>2, <2>3, EntryDone
<1> QED  BY <1>5, <1>6, <1>7

(* So can a link.                                                           *)
LEMMA LinkSucceeds ==
    ASSUME IInv, pc = "extract", Fresh, Unhindered, NEW i \in call.work, NEW possible, NEW node,
           MakeLink(i, possible, node), UNCHANGED <<writing, input, disk, calls>>,
           Item(archive, i).type # "directory", possible, node.kind # "directory"
    PROVE  Unhindered'
<1> DEFINE n == Item(archive, i).name
<1> DEFINE t == WithDirectories(tree, Parent(n))
<1>1. /\ CanMakeDirectory(tree, Parent(n)) /\ Unblocked(t)
      /\ NoSymlinkComponents(t, n) /\ n \notin DOMAIN t
      /\ PathsTo(Parent(n)) \subseteq DOMAIN t
    BY NameIsFree
<1>2. tree' = With(t, n, node) /\ Done(i)
    BY <1>1 DEF MakeLink
<1>3. DOMAIN tree' = DOMAIN t \union {n} /\ tree'[n] = node /\ \A p \in DOMAIN t : tree'[p] = t[p]
    BY <1>1, <1>2 DEF With
<1>4. tree'[Item(archive, i).name].kind # "directory"
    BY <1>3
<1> HIDE DEF t
<1> QED  BY <1>1, <1>2, <1>3, <1>4, EntryDone

(* The target of a hard link is there.                                      *)
LEMMA TargetIsThere ==
    ASSUME IInv, pc = "extract", NEW i \in call.work, IsNext(i, "hardlink")
    PROVE  LET to == Item(archive, i).link
           IN  to \in DOMAIN tree /\ tree[to].kind = "file"
<1> DEFINE e == Item(archive, i)
<1>1. /\ Running /\ i \in Picked(archive, call.sel) /\ e \in Wanted /\ e.type = "hardlink"
      /\ archive.entries[i].type = "hardlink" /\ EntriesOK(archive.entries)
    BY WorkItems DEF IsNext, Running, IInv, ContainersOK
<1>2. Extractable(limits, archive, call.sel)
    BY <1>1 DEF IInv, CallOK
<1>3. archive.entries[i] \in EntrySet(archive) /\ archive.entries[i] \in EntryType
    BY <1>1 DEF Picked, EntrySet, ToSet, EntriesOK
<1>4. PICK r \in EntrySet(archive) : Normal(r.name) = Normal(archive.entries[i].link) /\ r.type = "regular"
    BY <1>1, <1>2, <1>3 DEF Extractable, LinksToRegular
<1>5. PICK k \in DOMAIN archive.entries : r = archive.entries[k]
    BY DEF EntrySet, ToSet
<1>6. e.link = Normal(archive.entries[i].link)
    BY <1>3 DEF Item, Normalized, EntryType
<1>7. archive.entries[k] \in EntryType
    BY <1>1, <1>5 DEF EntriesOK
<1>8. Item(archive, k).name = e.link /\ Item(archive, k).type = "regular"
    BY <1>4, <1>5, <1>6, <1>7 DEF Item, Normalized, EntryType
<1>9. IsSelected(call.sel, archive.entries[k])
    <2>1. CASE call.sel = All
        BY <2>1 DEF IsSelected
    <2>2. CASE call.sel # All
        <3>1. e.link \in {Normal(n) : n \in call.sel}
            BY <1>1, <1>2, <2>2 DEF Extractable, ValidSelection, Wanted
        <3> QED  BY <1>4, <1>5, <1>6, <3>1 DEF IsSelected
    <2> QED  BY <2>1, <2>2
<1>10. k \in Picked(archive, call.sel)
    BY <1>9 DEF Picked
<1>11. k \notin call.work
    BY <1>4, <1>5, LinksComeLast
<1>12. InPlace(Item(archive, k))
    BY <1>1, <1>10, <1>11 DEF IInv, Placed, FinishedItems
<1> QED  BY <1>8, <1>12 DEF InPlace

(* Each entry that is next can be finished.                                 *)
LEMMA EntrySucceeds ==
    ASSUME IInv, Unhindered, ExtractEntry
    PROVE  Unhindered'
<1>1. pc = "extract"
    BY DEF ExtractEntry
<1> SUFFICES ASSUME Fresh PROVE Unhindered'
    BY <1>1, FreshStays DEF Unhindered
<1>2. PICK i \in call.work : MakeDirectory(i) \/ WriteRegular(i) \/ MakeHardlink(i) \/ MakeSymlink(i)
    BY DEF ExtractEntry
<1>3. CASE MakeHardlink(i)
    <2> DEFINE to == Item(archive, i).link
    <2> DEFINE node == tree[to]
    <2> DEFINE possible == to \in DOMAIN tree /\ tree[to].kind = "file"
    <2>1. IsNext(i, "hardlink") /\ UNCHANGED <<writing, input, disk, calls>> /\ MakeLink(i, possible, node)
        BY <1>3 DEF MakeHardlink
    <2>2. possible
        BY <1>1, <2>1, TargetIsThere
    <2>3. node.kind # "directory"
        BY <2>2
    <2>4. Item(archive, i).type # "directory"
        BY <1>1, <2>1, WorkItems DEF IsNext
    <2> HIDE DEF node, possible
    <2> QED  BY <1>1, <2>1, <2>2, <2>3, <2>4, LinkSucceeds
<1>4. CASE MakeSymlink(i)
    <2> DEFINE node == Link(Item(archive, i).link)
    <2>1. IsNext(i, "symlink") /\ UNCHANGED <<writing, input, disk, calls>> /\ MakeLink(i, TRUE, node)
        BY <1>4 DEF MakeSymlink
    <2>2. node.kind # "directory"
        BY DEF Link
    <2>3. Item(archive, i).type # "directory"
        BY <1>1, <2>1, WorkItems DEF IsNext
    <2> HIDE DEF node
    <2> QED  BY <1>1, <2>1, <2>2, <2>3, LinkSucceeds
<1> QED  BY <1>1, <1>2, <1>3, <1>4, DirectorySucceeds, FileSucceeds

(* What was picked is finite.                                               *)
LEMMA PickedFinite ==
    ASSUME NEW a, EntriesOK(a.entries), NEW sel
    PROVE  IsFiniteSet({e \in Chosen(a, sel) : e.type = "directory"})
<1> DEFINE P == Picked(a, sel)
<1> DEFINE C == {Item(a, i) : i \in P}
<1> DEFINE F == [i \in P |-> Item(a, i)]
<1>1. DOMAIN a.entries = 1..Len(a.entries) /\ Len(a.entries) \in Nat
    BY DEF EntriesOK
<1>2. IsFiniteSet(1..Len(a.entries))
    BY <1>1, FS_Interval
<1>3. IsFiniteSet(P)
    BY <1>1, <1>2, FS_Subset DEF Picked
<1>4. F \in Surjection(P, C)
    <2>1. F \in [P -> C] /\ \A c \in C : \E s \in P : F[s] = c
        <3> HIDE DEF P
        <3> QED  OBVIOUS
    <2> HIDE DEF F, C, P
    <2> QED  BY <2>1 DEF Surjection
<1>5. IsFiniteSet(C)
    <2> HIDE DEF F, C, P
    <2> QED  BY <1>3, <1>4, FS_Surjection
<1>6. {e \in C : e.type = "directory"} \subseteq C
    OBVIOUS
<1>7. C = Chosen(a, sel)
    BY DEF Chosen
<1> HIDE DEF C
<1> QED  BY <1>5, <1>6, <1>7, FS_Subset

(* A directory can be searched as long as one below it waits for its mode.  *)
LEMMA StillSearchable ==
    ASSUME IInv, pc = "extract", call.work = {}, Fresh, Unhindered, NEW e \in call.modes
    PROVE  Searchable(tree, e.name)
<1>1. Running /\ call.modes \subseteq Directories /\ IsTree(tree) /\ EntriesOK(archive.entries)
    BY DEF Running, IInv, CallOK, TreesOK, ContainersOK
<1>2. PICK j \in Picked(archive, call.sel) : e = Item(archive, j)
    BY <1>1 DEF Directories, Wanted, Chosen
<1>3. e \in Directories /\ e \in Wanted /\ e.type = "directory" /\ e.name \in Seq(STRING)
    BY <1>1, <1>2, WorkItems DEF Directories
<1>4. e.name \in DOMAIN tree
    BY <1>1, <1>2 DEF IInv, Placed, InPlace, FinishedItems
<1>5. OnTheWay(tree) /\ EntriesApart(tree) /\ ClosedLast(tree) /\ DeepestFirst
    BY <1>1 DEF Unhindered
<1> SUFFICES ASSUME NEW p \in PathsTo(e.name) PROVE OpenDirectory(tree, Parent(p))
    BY DEF Searchable
<1> DEFINE q == Parent(p)
<1>6. /\ q = <<>> \/ q \in PathsTo(e.name)
      /\ IsStrictPrefix(q, e.name) /\ Len(q) < Len(e.name) /\ Len(e.name) \in Nat \ {0} /\ q \in Seq(STRING)
    BY <1>3, WaysDown
<1>7. q \in DOMAIN tree
    BY <1>1, <1>4, <1>5, <1>6 DEF OnTheWay, IsTree
<1> HIDE DEF q
<1>8. tree[q].kind = "directory"
    <2> SUFFICES ASSUME tree[q].kind # "directory" PROVE FALSE
        OBVIOUS
    <2>1. PICK k \in FinishedItems : Item(archive, k).name = q /\ Item(archive, k).type # "directory"
        BY <1>5, <1>7 DEF EntriesApart
    <2>2. Item(archive, k) \in Wanted
        BY DEF FinishedItems, Wanted, Chosen
    <2> QED  BY <1>3, <1>6, <2>1, <2>2 DEF Fresh, Coherent
<1>9. ASSUME tree[q].mode = "closed" PROVE FALSE
    <2>1. PICK d \in Directories \ call.modes : d.name = q /\ d.mode = "closed"
        BY <1>5, <1>7, <1>8, <1>9 DEF ClosedLast
    <2>2. Slashes(e.name) <= Slashes(q)
        BY <1>5, <2>1 DEF DeepestFirst, MayChmod
    <2>3. Len(q) \in Nat /\ e.name # <<>>
        BY <1>6, EmptySeq
    <2>4. CASE q # <<>>
        <3>1. Slashes(q) = Len(q) - 1 /\ Slashes(e.name) = Len(e.name) - 1
            BY <2>3, <2>4 DEF Slashes
        <3> QED  BY <1>6, <2>2, <2>3, <3>1
    <2>5. CASE q = <<>>
        <3>1. d \in Wanted /\ d.name = <<>> /\ d.mode = "closed"
            BY <2>1, <2>5 DEF Directories
        <3>2. Cardinality(Directories) = 1
            BY <3>1 DEF Fresh, Coherent, Directories
        <3>3. IsFiniteSet(Directories)
            BY <1>1, PickedFinite DEF Directories, Wanted
        <3>4. PICK x : Directories = {x}
            BY <3>2, <3>3, FS_Singleton
        <3>5. d = e
            BY <1>3, <2>1, <3>4
        <3> QED  BY <2>1, <2>3, <2>5, <3>5
    <2> QED  BY <2>4, <2>5
<1> QED  BY <1>8, <1>9 DEF OpenDirectory, q

(* So every mode can be set.                                                *)
LEMMA ModeSucceeds ==
    ASSUME IInv, Unhindered, ChmodDirectory
    PROVE  Unhindered'
<1>1. /\ pc = "extract" /\ Running /\ call.work = {} /\ archive' = archive /\ calls' = calls
    BY DEF ChmodDirectory, Running, input
<1> SUFFICES ASSUME Fresh PROVE Unhindered'
    BY <1>1, FreshStays DEF Unhindered
<1>2. PICK e \in call.modes :
         /\ MayChmod(call.modes, e)
         /\ IF Searchable(tree, e.name)
            THEN /\ tree' = [tree EXCEPT ![e.name].mode = e.mode]
                 /\ call' = [call EXCEPT !.modes = @ \ {e}]
                 /\ UNCHANGED <<pc, result>>
            ELSE Stop("failed") /\ UNCHANGED <<tree, call>>
    BY DEF ChmodDirectory
<1>3. /\ tree' = [tree EXCEPT ![e.name].mode = e.mode]
      /\ call' = [call EXCEPT !.modes = @ \ {e}]
      /\ UNCHANGED <<pc, result>>
    BY <1>1, <1>2, StillSearchable
<1>4. call.modes \subseteq Directories /\ IsTree(tree)
    BY <1>1 DEF IInv, CallOK, TreesOK
<1>5. PICK j \in Picked(archive, call.sel) : e = Item(archive, j)
    BY <1>4 DEF Directories, Wanted, Chosen
<1>6. e.name \in DOMAIN tree /\ tree[e.name] \in Node /\ e.mode \in STRING
    BY <1>1, <1>4, <1>5, WorkItems DEF IInv, Placed, InPlace, FinishedItems, IsTree
<1>7. /\ DOMAIN tree' = DOMAIN tree
      /\ \A p \in DOMAIN tree : tree'[p].kind = tree[p].kind /\ (p # e.name => tree'[p] = tree[p])
      /\ tree'[e.name].mode = e.mode
    <2>1. tree' = [tree EXCEPT ![e.name] = [tree[e.name] EXCEPT !.mode = e.mode]]
        BY <1>3
    <2>2. [tree[e.name] EXCEPT !.mode = e.mode].kind = tree[e.name].kind
          /\ [tree[e.name] EXCEPT !.mode = e.mode].mode = e.mode
        BY <1>6 DEF Node
    <2>3. tree \in [DOMAIN tree -> Node]
        BY <1>4 DEF IsTree
    <2> DEFINE g == [tree[e.name] EXCEPT !.mode = e.mode]
    <2>4. tree' = [tree EXCEPT ![e.name] = g] /\ g.kind = tree[e.name].kind /\ g.mode = e.mode
        BY <2>1, <2>2
    <2> HIDE DEF g
    <2> QED  BY <1>6, <2>3, <2>4
<1>8. /\ call'.sel = call.sel /\ call'.work = call.work /\ call'.modes = call.modes \ {e}
    BY <1>3 DEF IInv, CallType
<1>9. Wanted' = Wanted /\ Directories' = Directories /\ FinishedItems' = FinishedItems
    BY <1>1, <1>8 DEF Wanted, Directories, FinishedItems
<1>10. OnTheWay(tree) /\ EntriesApart(tree) /\ ClosedLast(tree) /\ DeepestFirst /\ result # "failed"
    BY <1>1 DEF Unhindered
<1>11. OnTheWay(tree)'
    BY <1>1, <1>7, <1>8, <1>10 DEF OnTheWay, Item
<1>12. EntriesApart(tree)'
    BY <1>1, <1>7, <1>8, <1>9, <1>10 DEF EntriesApart, Item
<1>13. ClosedLast(tree)'
    <2> SUFFICES ASSUME NEW p \in DOMAIN tree, tree[p].kind = "directory", tree'[p].mode = "closed"
                 PROVE  \E f \in Directories \ (call.modes \ {e}) : f.name = p /\ f.mode = "closed"
        BY <1>7, <1>8, <1>9 DEF ClosedLast
    <2>1. CASE p = e.name
        BY <1>4, <1>7, <2>1
    <2>2. CASE p # e.name
        BY <1>7, <1>10, <2>2 DEF ClosedLast
    <2> QED  BY <2>1, <2>2
<1>14. DeepestFirst'
    <2> SUFFICES ASSUME NEW f \in Directories \ (call.modes \ {e}) PROVE MayChmod(call.modes \ {e}, f)
        BY <1>8, <1>9 DEF DeepestFirst
    <2>1. MayChmod(call.modes, f)
        BY <1>2, <1>10 DEF DeepestFirst
    <2> QED  BY <2>1 DEF MayChmod
<1> QED  BY <1>3, <1>10, <1>11, <1>12, <1>13, <1>14 DEF Unhindered

(* A call that begins in a new directory is not in its own way.             *)
LEMMA CallBegins ==
    ASSUME IInv, Extract
    PROVE  Unhindered'
<1>1. /\ pc = "idle" /\ calls' = calls + 1 /\ archive' = archive /\ limits' = limits /\ tree' = tree
    BY DEF Extract, input, target
<1>2. PICK sel \in Selections :
         /\ call' = [sel |-> sel,
                     work |-> {i \in Picked(archive, sel) : Item(archive, i).name # <<>>},
                     modes |-> {e \in Chosen(archive, sel) : e.type = "directory"},
                     tree |-> tree, disk |-> disk]
         /\ IF ~Extractable(limits, archive, sel)
            THEN result' = "invalid" /\ UNCHANGED pc
            ELSE IF ~OpenDirectory(tree, <<>>)
            THEN result' = "failed" /\ UNCHANGED pc
            ELSE result' = "none" /\ pc' = "extract"
    BY DEF Extract
<1>3. /\ call'.sel = sel /\ call'.tree = tree
      /\ call'.modes = {e \in Chosen(archive, sel) : e.type = "directory"}
    BY <1>2
<1>4. Directories' = call'.modes
    BY <1>1, <1>3 DEF Directories, Wanted
<1> SUFFICES ASSUME Fresh' PROVE /\ result' # "failed"
                                 /\ Running' => OnTheWay(tree)' /\ EntriesApart(tree)' /\ ClosedLast(tree)' /\ DeepestFirst'
    BY DEF Unhindered
<1>5. DOMAIN tree = {<<>>} /\ OpenDirectory(tree, <<>>)
    BY <1>3 DEF Fresh, New
<1>6. result' # "failed"
    BY <1>2, <1>5
<1> SUFFICES ASSUME Running' PROVE OnTheWay(tree)' /\ EntriesApart(tree)' /\ ClosedLast(tree)' /\ DeepestFirst'
    BY <1>6
<1>7. Extractable(limits, archive, sel) /\ EntriesOK(archive.entries)
    BY <1>1, <1>2 DEF Running, IInv, ContainersOK
<1>8. PathsTo(<<>>) = {}
    BY DEF PathsTo
<1>9. OnTheWay(tree)'
    BY <1>1, <1>5, <1>8 DEF OnTheWay
<1>10. EntriesApart(tree)'
    <2>1. tree[<<>>].kind = "directory"
        BY <1>5 DEF OpenDirectory
    <2>2. ASSUME NEW i \in Picked(archive, sel), Item(archive, i).name = <<>>
          PROVE  Item(archive, i).type = "directory"
        BY <1>7, <2>2, CheckedItems
    <2> QED  BY <1>1, <1>3, <1>5, <2>1, <2>2 DEF EntriesApart, Item
<1>11. ClosedLast(tree)'
    BY <1>1, <1>5 DEF ClosedLast, OpenDirectory
<1>12. DeepestFirst'
    BY <1>4 DEF DeepestFirst
<1> QED  BY <1>9, <1>10, <1>11, <1>12

(* The other steps leave it.                                                *)
LEMMA OthersUnhindered ==
    ASSUME IInv, Unhindered, Walk \/ Pack \/ ChangeSource \/ Close \/ Open \/ List \/ Finish \/ Cancel \/ UNCHANGED vars
    PROVE  Unhindered'
<1>1. CASE Walk \/ Pack \/ ChangeSource \/ Close \/ Open
    <2>1. calls = 0 /\ calls' = calls
        BY <1>1 DEF Walk, Pack, ChangeSource, Close, Open, IInv, CallsInOrder
    <2> QED  BY <2>1 DEF Unhindered, Fresh
<1>2. CASE List
    <2>1. calls = 0 /\ calls' = calls
        BY <1>2 DEF List
    <2> QED  BY <2>1 DEF Unhindered, Fresh
<1>3. CASE Cancel
    <2>1. result' = "cancelled" /\ pc' = "idle"
        BY <1>3 DEF Cancel, Stop
    <2> QED  BY <2>1 DEF Unhindered, Running
<1>4. CASE Finish \/ UNCHANGED vars
    <2>1. /\ archive' = archive /\ call' = call /\ calls' = calls /\ tree' = tree
          /\ (Running' => Running) /\ (result' = result \/ result' = "ok")
        BY <1>4 DEF Finish, Stop, vars, input, target, Running
    <2>2. /\ Fresh' = Fresh /\ Wanted' = Wanted /\ Directories' = Directories /\ FinishedItems' = FinishedItems
        BY <2>1 DEF Fresh, Wanted, Directories, FinishedItems
    <2> SUFFICES ASSUME Fresh PROVE /\ result' # "failed"
                                    /\ Running => OnTheWay(tree)' /\ EntriesApart(tree)' /\ ClosedLast(tree)' /\ DeepestFirst'
        BY <2>1, <2>2 DEF Unhindered
    <2>3. result' # "failed"
        BY <2>1 DEF Unhindered
    <2> SUFFICES ASSUME Running PROVE OnTheWay(tree)' /\ EntriesApart(tree)' /\ ClosedLast(tree)' /\ DeepestFirst'
        BY <2>3
    <2>4. OnTheWay(tree) /\ EntriesApart(tree) /\ ClosedLast(tree) /\ DeepestFirst
        BY DEF Unhindered
    <2>5. OnTheWay(tree)'
        BY <2>1, <2>4 DEF OnTheWay, Item
    <2>6. EntriesApart(tree)'
        BY <2>1, <2>2, <2>4 DEF EntriesApart, Item
    <2>7. ClosedLast(tree)'
        BY <2>1, <2>2, <2>4 DEF ClosedLast
    <2>8. DeepestFirst'
        BY <2>1, <2>2, <2>4 DEF DeepestFirst
    <2> QED  BY <2>5, <2>6, <2>7, <2>8
<1> QED  BY <1>1, <1>2, <1>3, <1>4

(* At the beginning nothing is written.                                     *)
LEMMA NothingWritten ==
    ASSUME Init
    PROVE  WrittenOK
<1>1. calls = 0 /\ packed = <<>> /\ pc \in {"walk", "open"}
    BY DEF Init
<1>2. CASE pc = "walk" /\ source \in Sources
    <2>1. IsWalk(source.files) /\ FilesOK(source.files)
        BY <1>2, WalkAssumption, ContainersAssumption
    <2>2. Len(source.files) \in Nat
        BY <2>1 DEF FilesOK
    <2> QED  BY <1>1, <1>2, <2>1, <2>2 DEF WrittenOK
<1>3. CASE pc = "open" /\ source = [format |-> "none", files |-> <<>>]
    <2>1. source.files = <<>>
        BY <1>3
    <2>2. IsWalk(<<>>) /\ ToSet(<<>>) = {}
        BY DEF IsWalk, ToSet
    <2> QED  BY <1>1, <2>1, <2>2 DEF WrittenOK
<1> QED  BY <1>2, <1>3 DEF Init

(* An entry is packed.                                                      *)
LEMMA PackWrites ==
    ASSUME IInv, WrittenOK, Pack
    PROVE  WrittenOK'
<1> DEFINE fs == source.files
<1> DEFINE f == fs[Len(packed) + 1]
<1> DEFINE e == [name |-> f.name, type |-> f.type, mode |-> f.mode, link |-> <<>>,
                 data |-> f.data, size |-> IF f.type = "directory" THEN 0 ELSE Bytes[f.data],
                 whole |-> TRUE]
<1>1. /\ pc = "pack" /\ calls = 0 /\ calls' = 0 /\ source' = source
      /\ Len(packed) < Len(fs) /\ pc' \in {"pack", "stopped"}
      /\ packed' = Append(packed, e) \/ packed' = packed
    BY DEF Pack, IInv, CallsInOrder
<1>2. packed \in Seq(EntryType) /\ fs \in Seq(FileType)
    BY DEF IInv, ContainersOK, EntriesOK, FilesOK
<1>3. EntryFor(f, e)
    BY DEF EntryFor
<1> HIDE DEF e, f
<1>4. ASSUME packed' = Append(packed, e)
      PROVE  Len(packed') <= Len(fs) /\ \A i \in 1..Len(packed') : EntryFor(fs[i], packed'[i])
    <2>1. Len(packed) \in Nat /\ Len(fs) \in Nat /\ Len(packed') = Len(packed) + 1
          /\ \A k \in 1..Len(packed) : packed'[k] = packed[k]
        BY <1>2, <1>4
    <2>2. packed'[Len(packed) + 1] = e
        BY <1>2, <1>4
    <2>3. \A i \in 1..Len(packed) : EntryFor(fs[i], packed[i])
        BY DEF WrittenOK
    <2>4. EntryFor(fs[Len(packed) + 1], packed'[Len(packed) + 1])
        BY <1>3, <2>2 DEF f
    <2>5. \A i \in 1..Len(packed') : i \in 1..Len(packed) \/ i = Len(packed) + 1
        BY <2>1
    <2> HIDE DEF fs
    <2> QED  BY <1>1, <2>1, <2>3, <2>4, <2>5
<1>5. Len(packed') <= Len(fs) /\ \A i \in 1..Len(packed') : EntryFor(fs[i], packed'[i])
    BY <1>1, <1>4 DEF WrittenOK
<1> QED  BY <1>1, <1>5 DEF WrittenOK

(* What changes is what is still to be packed, and its contents only.       *)
LEMMA ChangeKeepsWritten ==
    ASSUME IInv, WrittenOK, ChangeSource
    PROVE  WrittenOK'
<1> DEFINE fs == source.files
<1>1. /\ pc = "pack" /\ pc' = pc /\ calls = 0 /\ calls' = 0 /\ packed' = packed
    BY DEF ChangeSource, IInv, CallsInOrder
<1>2. PICK i \in Len(packed) + 1 .. Len(fs), c \in DOMAIN Bytes : source' = [source EXCEPT !.files[i].data = c]
    BY DEF ChangeSource
<1>3. fs \in Seq(FileType) /\ packed \in Seq(EntryType) /\ source = [format |-> source.format, files |-> fs]
    BY DEF IInv, ContainersOK, FilesOK, EntriesOK
<1>4. Len(fs) \in Nat /\ Len(packed) \in Nat /\ DOMAIN fs = 1..Len(fs) /\ i \in 1..Len(fs) /\ fs[i] \in FileType
      /\ i \notin 1..Len(packed)
    BY <1>2, <1>3
<1> DEFINE g == [fs[i] EXCEPT !.data = c]
<1>5. g.name = fs[i].name /\ g.type = fs[i].type
    BY <1>4 DEF FileType
<1>6. source'.files = [fs EXCEPT ![i] = g]
    <2>1. source' = [format |-> source.format, files |-> [fs EXCEPT ![i] = g]]
        BY <1>2, <1>3
    <2> QED  BY <2>1
<1> HIDE DEF g, fs
<1>7. /\ Len(source'.files) = Len(fs) /\ DOMAIN source'.files = DOMAIN fs
      /\ \A k \in DOMAIN fs : /\ source'.files[k].name = fs[k].name /\ source'.files[k].type = fs[k].type
                              /\ k # i => source'.files[k] = fs[k]
    BY <1>3, <1>4, <1>5, <1>6
<1>8. IsWalk(fs) /\ Len(packed) <= Len(fs) /\ (\A k \in 1..Len(packed) : EntryFor(fs[k], packed[k]))
      /\ \A k \in DOMAIN fs : LocalArchivePath(fs[k].name) /\ fs[k].type \in {"directory", "regular"}
    BY <1>1 DEF WrittenOK, fs, ToSet
<1>9. IsWalk(source'.files)
    <2> DEFINE gs == source'.files
    <2>1. DOMAIN gs = DOMAIN fs /\ \A k \in DOMAIN fs : gs[k].name = fs[k].name /\ gs[k].type = fs[k].type
        BY <1>7
    <2>2. IsWalk(fs)
        BY <1>8
    <2> HIDE DEF gs
    <2>3. \A k, j \in DOMAIN gs : gs[k].name = gs[j].name => k = j
        BY <2>1, <2>2 DEF IsWalk
    <2>4. ASSUME NEW k \in DOMAIN gs, NEW p \in PathsTo(gs[k].name) \ {gs[k].name}
          PROVE  \E j \in DOMAIN gs : gs[j].name = p /\ gs[j].type = "directory"
        <3>1. k \in DOMAIN fs /\ p \in PathsTo(fs[k].name) \ {fs[k].name}
            BY <2>1
        <3>2. PICK j \in DOMAIN fs : fs[j].name = p /\ fs[j].type = "directory"
            BY <2>2, <3>1 DEF IsWalk
        <3> QED  BY <2>1, <3>2
    <2>5. IsWalk(gs)
        BY <2>3, <2>4 DEF IsWalk
    <2> QED  BY <2>5 DEF gs
<1>10. \A f \in ToSet(source'.files) : LocalArchivePath(f.name) /\ f.type \in {"directory", "regular"}
    BY <1>7, <1>8 DEF ToSet
<1>11. \A k \in 1..Len(packed) : EntryFor(source'.files[k], packed[k])
    <2>1. \A k \in 1..Len(packed) : k \in DOMAIN fs /\ k # i
        BY <1>4, <1>8
    <2> QED  BY <1>7, <1>8, <2>1
<1> QED  BY <1>1, <1>7, <1>8, <1>9, <1>10, <1>11 DEF WrittenOK

(* Nothing else touches it.                                                 *)
LEMMA WrittenStays ==
    ASSUME IInv, WrittenOK, [Next]_vars
    PROVE  WrittenOK'
<1>1. CASE Walk
    <2>1. /\ source' = source /\ packed' = packed /\ calls = 0 /\ calls' = 0
          /\ \/ /\ \A f \in ToSet(source.files) :
                      LocalArchivePath(f.name) /\ f.type \in {"directory", "regular"}
                /\ pc' = "pack"
             \/ pc' = "stopped"
        BY <1>1 DEF Walk, IInv, CallsInOrder
    <2> QED  BY <2>1 DEF WrittenOK
<1>2. CASE Close
    <2>1. /\ pc = "pack" /\ pc' = "open" /\ Len(packed) = Len(source.files) /\ calls = 0 /\ calls' = 0
          /\ source' = source /\ packed' = packed /\ archive'.entries = packed
        BY <1>2 DEF Close, IInv, CallsInOrder, writing
    <2> QED  BY <2>1 DEF WrittenOK
<1>3. CASE Open
    <2>1. /\ pc = "open" /\ pc' \in {"idle", "stopped"} /\ calls = 0 /\ calls' = 0
          /\ source' = source /\ packed' = packed /\ archive' = archive
        BY <1>3 DEF Open, IInv, CallsInOrder, writing, input
    <2> QED  BY <2>1 DEF WrittenOK
<1>4. CASE List
    <2>1. /\ pc' = pc /\ calls = 0 /\ calls' = 0 /\ source' = source /\ packed' = packed /\ archive' = archive
        BY <1>4 DEF List, writing
    <2> QED  BY <2>1 DEF WrittenOK
<1>5. CASE Extract
    <2>1. /\ pc = "idle" /\ source' = source /\ packed' = packed /\ archive' = archive /\ limits' = limits
          /\ pc' \in {"idle", "extract"}
          /\ result' = "invalid" => ~Extractable(limits, archive, call'.sel)
        BY <1>5 DEF Extract, writing, input
    <2> QED  BY <2>1 DEF WrittenOK
<1>6. CASE ExtractEntry \/ ChmodDirectory \/ Finish \/ Cancel
    <2>1. /\ pc = "extract" /\ source' = source /\ packed' = packed /\ archive' = archive /\ limits' = limits
        BY <1>6 DEF ExtractEntry, MakeDirectory, WriteRegular, MakeHardlink, MakeSymlink, ChmodDirectory, Finish, Cancel,
                    writing, input
    <2>2. /\ pc' \in {"extract", "idle"}
          /\ result' = result \/ result' \in {"ok", "failed", "cancelled"}
        <3>1. CASE ExtractEntry
            <4>1. PICK i \in call.work : MakeDirectory(i) \/ WriteRegular(i) \/ MakeHardlink(i) \/ MakeSymlink(i)
                BY <3>1 DEF ExtractEntry
            <4>2. Done(i) \/ Stop("failed") \/ Stop("cancelled")
                BY <4>1 DEF MakeDirectory, WriteRegular, MakeHardlink, MakeSymlink, MakeLink
            <4> QED  BY <2>1, <4>2 DEF Done, Stop
        <3>2. CASE ChmodDirectory
            BY <2>1, <3>2 DEF ChmodDirectory, Stop
        <3>3. CASE Finish \/ Cancel
            BY <3>3 DEF Finish, Cancel, Stop
        <3> QED  BY <1>6, <3>1, <3>2, <3>3
    <2>3. result # "invalid"
        <3>1. calls > 0 /\ Extractable(limits, archive, call.sel)
            BY <2>1 DEF IInv, CallsInOrder, CallOK, Running
        <3> QED  BY <3>1 DEF WrittenOK
    <2> QED  BY <2>1, <2>2, <2>3 DEF WrittenOK
<1>7. CASE UNCHANGED vars
    <2>1. /\ pc' = pc /\ source' = source /\ packed' = packed /\ archive' = archive /\ limits' = limits
          /\ call' = call /\ calls' = calls /\ result' = result
        BY <1>7 DEF vars, writing, input
    <2> QED  BY <2>1 DEF WrittenOK
<1> QED  BY <1>1, <1>2, <1>3, <1>4, <1>5, <1>6, <1>7, PackWrites, ChangeKeepsWritten DEF Next

(* What Write wrote is read as it was: the i-th entry is the i-th file.     *)
LEMMA ReadAsWritten ==
    ASSUME IInv, WrittenOK, calls > 0, source.files # <<>>
    PROVE  /\ DOMAIN archive.entries = DOMAIN source.files
           /\ Picked(archive, All) = DOMAIN source.files
           /\ \A i \in DOMAIN source.files :
                LET f == source.files[i]
                    e == Item(archive, i)
                IN  /\ EntryFor(f, e) /\ EntryFor(f, archive.entries[i])
                    /\ f.name \in Seq(STRING) /\ f.name # <<>> /\ f.type \in {"directory", "regular"}
                    /\ LocalArchivePath(f.name) /\ Normal(f.name) = f.name
<1>1. pc \notin {"walk", "pack", "stopped"} /\ pc \notin {"walk", "stopped"}
    BY DEF IInv, CallsInOrder
<1>2. archive.entries = packed /\ Len(packed) = Len(source.files)
    BY <1>1 DEF WrittenOK
<1>3. EntriesOK(archive.entries) /\ FilesOK(source.files)
    BY DEF IInv, ContainersOK
<1> DEFINE fs == source.files
<1>4. /\ DOMAIN archive.entries = 1..Len(fs) /\ DOMAIN fs = 1..Len(fs)
    BY <1>2, <1>3 DEF EntriesOK, FilesOK
<1>5. Picked(archive, All) = DOMAIN fs
    BY <1>4 DEF Picked, IsSelected
<1>6. ASSUME NEW i \in DOMAIN fs
      PROVE  LET f == fs[i]
                 e == Item(archive, i)
             IN  /\ EntryFor(f, e) /\ EntryFor(f, archive.entries[i])
                 /\ f.name \in Seq(STRING) /\ f.name # <<>> /\ f.type \in {"directory", "regular"}
                 /\ LocalArchivePath(f.name) /\ Normal(f.name) = f.name
    <2> DEFINE f == fs[i]
    <2> DEFINE r == archive.entries[i]
    <2> DEFINE e == Item(archive, i)
    <2>1. EntryFor(f, r)
        BY <1>2, <1>4, <1>6 DEF WrittenOK
    <2>2. f \in FileType /\ r \in EntryType
        BY <1>3, <1>4, <1>6 DEF EntriesOK, FilesOK
    <2>3. LocalArchivePath(f.name) /\ f.type \in {"directory", "regular"}
        BY <1>1, <1>6 DEF WrittenOK, ToSet
    <2>4. f.name \in Seq(STRING)
        BY <2>2 DEF FileType
    <2>5. Normal(f.name) = f.name /\ f.name # <<>>
        BY <2>3 DEF LocalArchivePath, Normal
    <2>6. r.name = f.name
        BY <2>1 DEF EntryFor
    <2>7. /\ e.name = Normal(r.name) /\ e.type = r.type /\ e.mode = r.mode /\ e.data = r.data /\ e.whole = r.whole
        BY <2>2 DEF Item, Normalized, EntryType
    <2>8. EntryFor(f, e)
        BY <2>1, <2>5, <2>6, <2>7 DEF EntryFor
    <2> QED  BY <2>1, <2>3, <2>4, <2>5, <2>8
<1> QED  BY <1>4, <1>5, <1>6

(* It can be extracted, whole, and makes sense.                             *)
LEMMA WrittenIsExtractable ==
    ASSUME IInv, WrittenOK, calls > 0, source.files # <<>>, call.sel = All
    PROVE  /\ Listed(limits, archive) => Extractable(limits, archive, call.sel)
           /\ Coherent(Wanted)
<1> DEFINE fs == source.files
<1>1. /\ DOMAIN archive.entries = DOMAIN fs /\ Picked(archive, All) = DOMAIN fs
      /\ \A i \in DOMAIN fs :
           /\ EntryFor(fs[i], Item(archive, i)) /\ EntryFor(fs[i], archive.entries[i])
           /\ fs[i].name \in Seq(STRING) /\ fs[i].name # <<>> /\ fs[i].type \in {"directory", "regular"}
           /\ LocalArchivePath(fs[i].name) /\ Normal(fs[i].name) = fs[i].name
    BY ReadAsWritten
<1>2. IsWalk(fs)
    BY DEF WrittenOK
<1>3. ASSUME Listed(limits, archive) PROVE Extractable(limits, archive, call.sel)
    <2>1. ASSUME NEW i \in DOMAIN fs PROVE ValidEntry(limits, archive.entries[i])
        <3> DEFINE r == archive.entries[i]
        <3>1. r.name = fs[i].name /\ r.type \in {"directory", "regular"}
            BY <1>1 DEF EntryFor
        <3>2. Len(Slashed(r.name)) <= limits.path
            BY <1>1, <1>3 DEF Listed
        <3>3. Normal(r.name) = r.name /\ r.name # <<>> /\ Slashed(r.name) = r.name /\ r.name[1] \notin {"/", ".."}
            BY <1>1, <3>1 DEF LocalArchivePath
        <3> HIDE DEF r
        <3>4. ValidPath(Normal(r.name), limits.path, r.type = "directory")
            BY <3>2, <3>3 DEF ValidPath, Absolute, Local
        <3> QED  BY <3>1, <3>4 DEF ValidEntry, r
    <2>2. \A e \in EntrySet(archive) : \E i \in DOMAIN fs : e = archive.entries[i]
        BY <1>1 DEF EntrySet, ToSet
    <2>3. \A e \in EntrySet(archive) : ValidEntry(limits, e)
        BY <2>1, <2>2
    <2>4. LinksToRegular(archive)
        BY <1>1, <2>2 DEF LinksToRegular, EntryFor
    <2>5. ValidSelection(limits, archive, call.sel)
        BY DEF ValidSelection
    <2> QED  BY <1>3, <2>3, <2>4, <2>5 DEF Extractable
<1>4. \A e \in Wanted : \E i \in DOMAIN fs : e = Item(archive, i)
    BY <1>1 DEF Wanted, Chosen
<1>5. ASSUME NEW e \in Wanted, NEW f \in Wanted, IsStrictPrefix(e.name, f.name) PROVE e.type = "directory"
    <2>1. PICK i \in DOMAIN fs : e = Item(archive, i)
        BY <1>4
    <2>2. PICK k \in DOMAIN fs : f = Item(archive, k)
        BY <1>4
    <2>3. e.name = fs[i].name /\ f.name = fs[k].name /\ e.type = fs[i].type
        BY <1>1, <2>1, <2>2 DEF EntryFor
    <2>4. fs[i].name \in PathsTo(fs[k].name) \ {fs[k].name}
        <3> DEFINE p == fs[i].name
        <3> DEFINE n == fs[k].name
        <3>1. p \in Seq(STRING) /\ p # <<>> /\ n \in Seq(STRING) /\ IsStrictPrefix(p, n)
            BY <1>1, <1>5, <2>3
        <3> HIDE DEF p, n
        <3>2. Len(p) \in Nat \ {0} /\ Len(n) \in Nat
            BY <3>1, EmptySeq
        <3>3. Len(p) <= Len(n) /\ SubSeq(p, 1, Len(p)) = SubSeq(n, 1, Len(p)) /\ p # n
            BY <3>1 DEF IsStrictPrefix, IsPrefix
        <3>4. p = SubSeq(n, 1, Len(p))
            BY <3>1, <3>3, SubSeqFull
        <3>5. Len(p) \in 1..Len(n)
            BY <3>2, <3>3
        <3>6. p \in PathsTo(n)
            BY <3>4, <3>5 DEF PathsTo
        <3> QED  BY <3>3, <3>6 DEF p, n
    <2>5. PICK j \in DOMAIN fs : fs[j].name = fs[i].name /\ fs[j].type = "directory"
        <3>1. \A x \in DOMAIN fs : \A p \in PathsTo(fs[x].name) \ {fs[x].name} :
                 \E j \in DOMAIN fs : fs[j].name = p /\ fs[j].type = "directory"
            <4> HIDE DEF fs
            <4> QED  BY <1>2 DEF IsWalk
        <3> DEFINE p == fs[i].name
        <3>2. p \in PathsTo(fs[k].name) \ {fs[k].name}
            BY <2>4
        <3> HIDE DEF p, fs
        <3>3. \E j \in DOMAIN fs : fs[j].name = p /\ fs[j].type = "directory"
            BY <3>1, <3>2
        <3> QED  BY <3>3 DEF p
    <2>6. j = i
        BY <1>2, <2>5 DEF IsWalk
    <2> QED  BY <2>3, <2>5, <2>6
<1>6. \A e \in Wanted : e.whole /\ e.name # <<>>
    BY <1>1, <1>4 DEF EntryFor
<1>7. Coherent(Wanted)
    BY <1>5, <1>6 DEF Coherent
<1> QED  BY <1>3, <1>7

(* A container in which no entry is in another that is no directory can be  *)
(* extracted into a new directory, whatever order its entries and modes     *)
(* have, unless the file system fails or the call is cancelled; and a file  *)
(* system that was written comes out as it was, or as it was when it was    *)
(* read (archive/extract.go: extractEntries, archive/writer.go: Write).     *)
THEOREM NewDirectoriesSuffice == Spec => []NewDirectorySuffices
<1>1. Init => Unhindered /\ WrittenOK
    <2>1. ASSUME Init PROVE Unhindered
        <3>1. calls = 0
            BY <2>1 DEF Init
        <3> QED  BY <3>1 DEF Unhindered, Fresh
    <2> QED  BY <2>1, NothingWritten
<1>2. IInv /\ Unhindered /\ [Next]_vars => Unhindered'
    BY EntrySucceeds, ModeSucceeds, CallBegins, OthersUnhindered DEF Next
<1>3. IInv /\ WrittenOK /\ [Next]_vars => WrittenOK'
    BY WrittenStays
<1>4. ASSUME IInv, Unhindered, WrittenOK PROVE NewDirectorySuffices
    <2>1. OwnOrderSuffices
        BY <1>4 DEF OwnOrderSuffices, Unhindered, Fresh
    <2>2. RoundTrip
        <3> DEFINE fs == source.files
        <3> SUFFICES ASSUME fs # <<>>, calls > 0, New(call.tree), call.sel = All
                     PROVE  /\ Listed(limits, archive) => result \notin {"invalid", "failed"}
                            /\ result = "ok" =>
                                 /\ DOMAIN tree = {<<>>} \union {f.name : f \in ToSet(fs)}
                                 /\ \A f \in ToSet(fs) :
                                      IF f.type = "directory"
                                      THEN tree[f.name].kind = "directory" /\ tree[f.name].mode = f.mode
                                      ELSE disk[tree[f.name].ino] = [data |-> f.data, mode |-> f.mode]
            BY DEF RoundTrip
        <3>1. /\ Listed(limits, archive) => Extractable(limits, archive, call.sel)
              /\ Coherent(Wanted)
            BY <1>4, WrittenIsExtractable
        <3>2. Listed(limits, archive) => result \notin {"invalid", "failed"}
            BY <1>4, <2>1, <3>1 DEF WrittenOK, OwnOrderSuffices
        <3>3. /\ Picked(archive, All) = DOMAIN fs
              /\ \A i \in DOMAIN fs :
                   /\ EntryFor(fs[i], Item(archive, i))
                   /\ fs[i].name \in Seq(STRING) /\ fs[i].name # <<>> /\ fs[i].type \in {"directory", "regular"}
            BY <1>4, ReadAsWritten
        <3>4. IsWalk(fs)
            BY <1>4 DEF WrittenOK
        <3>5. ASSUME result = "ok"
              PROVE  /\ DOMAIN tree = {<<>>} \union {f.name : f \in ToSet(fs)}
                     /\ \A f \in ToSet(fs) :
                          IF f.type = "directory"
                          THEN tree[f.name].kind = "directory" /\ tree[f.name].mode = f.mode
                          ELSE disk[tree[f.name].ino] = [data |-> f.data, mode |-> f.mode]
            <4>1. /\ Running /\ call.work = {} /\ call.modes = {} /\ <<>> \in DOMAIN tree
                  /\ FinishedItems = DOMAIN fs
                BY <1>4, <3>3, <3>5 DEF Running, IInv, CallOK, TreesOK, IsTree, FinishedItems
            <4>2. \A f \in ToSet(fs) : \E i \in DOMAIN fs : f = fs[i]
                BY DEF ToSet
            <4>3. \A i \in DOMAIN fs : fs[i] \in ToSet(fs)
                BY DEF ToSet
            <4>4. \A i \in DOMAIN fs : InPlace(Item(archive, i)) /\ Item(archive, i) \in Wanted
                BY <1>4, <3>3, <4>1 DEF IInv, Placed, Wanted, Chosen
            <4>5. OnTheWay(tree)
                BY <1>4, <3>1, <4>1 DEF Unhindered, Fresh
            <4>6. ASSUME NEW p \in DOMAIN tree, p # <<>> PROVE \E f \in ToSet(fs) : f.name = p
                <5>1. PICK i \in DOMAIN fs : p \in PathsTo(fs[i].name)
                    BY <3>3, <4>5, <4>6 DEF OnTheWay, EntryFor
                <5>2. CASE p = fs[i].name
                    BY <4>3, <5>2
                <5>3. CASE p # fs[i].name
                    <6>1. PICK j \in DOMAIN fs : fs[j].name = p
                        BY <3>4, <5>1, <5>3 DEF IsWalk
                    <6> QED  BY <4>3, <6>1
                <5> QED  BY <5>2, <5>3
            <4>7. ASSUME NEW f \in ToSet(fs)
                  PROVE  /\ f.name \in DOMAIN tree
                         /\ IF f.type = "directory"
                            THEN tree[f.name].kind = "directory" /\ tree[f.name].mode = f.mode
                            ELSE disk[tree[f.name].ino] = [data |-> f.data, mode |-> f.mode]
                <5>1. PICK i \in DOMAIN fs : f = fs[i]
                    BY <4>2
                <5> DEFINE e == Item(archive, i)
                <5>2. InPlace(e) /\ EntryFor(f, e) /\ f.type \in {"directory", "regular"}
                    BY <3>3, <4>4, <5>1
                <5>3. ~SharedBefore(e)
                    <6>1. DOMAIN call.tree = {<<>>} /\ call.tree[<<>>].kind = "directory"
                        BY DEF New, OpenDirectory
                    <6> HIDE DEF e
                    <6> QED  BY <6>1 DEF SharedBefore
                <5> HIDE DEF e
                <5> QED  BY <4>1, <5>2, <5>3 DEF InPlace, EntryFor
            <4>8. DOMAIN tree = {<<>>} \union {f.name : f \in ToSet(fs)}
                <5> DEFINE F == ToSet(fs)
                <5> DEFINE T == DOMAIN tree
                <5>1. <<>> \in T /\ (\A p \in T : p # <<>> => \E f \in F : f.name = p) /\ \A f \in F : f.name \in T
                    BY <4>1, <4>6, <4>7
                <5> HIDE DEF F, T
                <5>2. T = {<<>>} \union {f.name : f \in F}
                    BY <5>1
                <5> QED  BY <5>2 DEF F, T
            <4> QED  BY <4>7, <4>8
        <3> QED  BY <3>2, <3>5
    <2> QED  BY <2>1, <2>2 DEF NewDirectorySuffices
<1> QED  BY <1>1, <1>2, <1>3, <1>4, Inductive, PTL DEF Spec

-----------------------------------------------------------------------------
(* Sums of sizes, and limits.                                               *)

(* h has the sums of the first values of f.                                 *)
IsSum(h, f, n) ==
    /\ h \in [0..n -> Int] /\ h[0] = 0
    /\ \A i \in 1..n : h[i] = h[i-1] + f[i]

(* Whatever is added in whatever order, the sum over a set of positions is   *)
(* the sum without one of them and that one.                                *)
LEMMA SumWithout ==
    ASSUME NEW n \in Nat, NEW f \in [1..n -> Int],
           NEW g \in [SUBSET (1..n) -> Int], g[{}] = 0,
           \A s \in SUBSET (1..n) : s # {} => g[s] = g[s \ {Max(s)}] + f[Max(s)]
    PROVE  \A s \in SUBSET (1..n) : \A x \in s : g[s] = g[s \ {x}] + f[x]
<1> DEFINE Splits(s) == \A x \in s : g[s] = g[s \ {x}] + f[x]
<1> DEFINE U == {k \in 0..n : \A s \in SUBSET (1..k) : Splits(s)}
<1>1. 0 \in U
    OBVIOUS
<1>2. ASSUME NEW k \in 0..(n-1), k \in U PROVE k + 1 \in U
    <2>1. k + 1 \in 0..n /\ k + 1 \in Nat /\ 1..(k+1) \subseteq 1..n /\ 1..k \subseteq 1..n
        OBVIOUS
    <2>2. \A s \in SUBSET (1..k) : Splits(s)
        BY <1>2
    <2>3. ASSUME NEW s \in SUBSET (1..(k+1)), NEW x \in s PROVE g[s] = g[s \ {x}] + f[x]
        <3> DEFINE m == Max(s)
        <3>1. m \in s /\ \A y \in s : y <= m
            BY <2>1, MaxOfPositions
        <3>2. g[s] = g[s \ {m}] + f[m]
            BY <2>1
        <3>3. s \ {m} \in SUBSET (1..k)
            <4>1. ASSUME NEW y \in s \ {m} PROVE y \in 1..k
                <5>1. y \in 1..(k+1) /\ m \in 1..(k+1) /\ y <= m /\ y # m
                    BY <3>1
                <5>2. k \in Int
                    OBVIOUS
                <5> HIDE DEF m
                <5> QED  BY <5>1, <5>2
            <4> QED  BY <4>1
        <3>4. CASE x = m
            BY <3>2, <3>4
        <3>5. CASE x # m
            <4> HIDE DEF m
            <4>1. x \in s \ {m} /\ g[s \ {m}] = g[(s \ {m}) \ {x}] + f[x]
                BY <2>2, <3>3, <3>5
            <4>2. m \in s \ {x} /\ \A y \in s \ {x} : y <= m
                BY <3>1, <3>5
            <4>3. Max(s \ {x}) = m
                <5> DEFINE r == s \ {x}
                <5>1. r \in SUBSET (1..(k+1)) /\ r # {} /\ m \in r /\ \A y \in r : y <= m
                    BY <4>2
                <5>2. Max(r) \in r /\ \A y \in r : y <= Max(r)
                    <6> HIDE DEF r
                    <6> QED  BY <2>1, <5>1, MaxOfPositions
                <5>3. Max(r) \in 1..(k+1) /\ m \in 1..(k+1) /\ Max(r) <= m /\ m <= Max(r)
                    BY <5>1, <5>2
                <5>4. Max(r) = m
                    <6> HIDE DEF r
                    <6> QED  BY <2>1, <5>3
                <5> QED  BY <5>4
            <4>4. g[s \ {x}] = g[(s \ {x}) \ {m}] + f[m]
                BY <2>1, <4>2, <4>3
            <4>5. (s \ {x}) \ {m} = (s \ {m}) \ {x}
                OBVIOUS
            <4>6. f[x] \in Int /\ f[m] \in Int /\ g[(s \ {m}) \ {x}] \in Int
                <5>1. x \in 1..n /\ m \in 1..n /\ (s \ {m}) \ {x} \in SUBSET (1..n)
                    BY <2>1, <3>1
                <5> QED  BY <5>1
            <4> DEFINE rest == g[(s \ {m}) \ {x}]
            <4> DEFINE fm == f[m]
            <4> DEFINE fx == f[x]
            <4>7. g[s] = (rest + fx) + fm /\ g[s \ {x}] = rest + fm
                BY <3>2, <4>1, <4>4, <4>5
            <4>8. fx \in Int /\ fm \in Int /\ rest \in Int
                BY <4>6
            <4> HIDE DEF rest, fm, fx
            <4>9. g[s] = g[s \ {x}] + fx
                BY <4>7, <4>8
            <4> QED  BY <4>9 DEF fx
        <3> QED  BY <3>4, <3>5
    <2> HIDE DEF Splits
    <2>4. \A s \in SUBSET (1..(k+1)) : Splits(s)
        BY <2>3 DEF Splits
    <2> QED  BY <2>1, <2>4
<1>3. 0..n \subseteq U
    <2> HIDE DEF U
    <2> QED  BY <1>1, <1>2, SetInduction
<1>4. n \in 0..n
    OBVIOUS
<1> QED  BY <1>3, <1>4

(* h adds up the values of a set, taking away one element after another.     *)
AddsUp(h, f, pick, n) ==
    /\ h[{}] = 0
    /\ \A s \in SUBSET (1..n) : s # {} => pick[s] \in s /\ h[s] = f[pick[s]] + h[s \ {pick[s]}]

(* It is the only one.                                                      *)
LEMMA SameOnSets ==
    ASSUME NEW n \in Nat, NEW f, NEW g, NEW h, NEW pick,
           AddsUp(h, f, pick, n), AddsUp(g, f, pick, n)
    PROVE  h[1..n] = g[1..n]
<1> DEFINE Same(k) == \A s \in SUBSET (1..n) : Cardinality(s) = k => h[s] = g[s]
<1> DEFINE U == {k \in 0..n : Same(k)}
<1>1. \A s \in SUBSET (1..n) : IsFiniteSet(s)
    <2>1. IsFiniteSet(1..n)
        BY FS_Interval
    <2> QED  BY <2>1, FS_Subset
<1>2. 0 \in U
    <2>1. \A s \in SUBSET (1..n) : Cardinality(s) = 0 => s = {}
        BY <1>1, FS_EmptySet
    <2>2. Same(0)
        BY <2>1 DEF AddsUp
    <2> HIDE DEF Same
    <2> QED  BY <2>2
<1>3. ASSUME NEW k \in 0..(n-1), k \in U PROVE k + 1 \in U
    <2>1. ASSUME NEW s \in SUBSET (1..n), Cardinality(s) = k + 1 PROVE h[s] = g[s]
        <3>1. s # {}
            <4>1. Cardinality({}) = 0 /\ k + 1 # 0
                BY FS_EmptySet
            <4> QED  BY <2>1, <4>1
        <3> DEFINE x == pick[s]
        <3>2. x \in s /\ h[s] = f[x] + h[s \ {x}] /\ g[s] = f[x] + g[s \ {x}]
            BY <3>1 DEF AddsUp
        <3> HIDE DEF x
        <3>3. Cardinality(s \ {x}) = k /\ s \ {x} \in SUBSET (1..n)
            <4>1. IsFiniteSet(s)
                BY <1>1
            <4>2. Cardinality(s \ {x}) = Cardinality(s) - 1
                BY <3>2, <4>1, FS_RemoveElement
            <4>3. Cardinality(s \ {x}) = (k + 1) - 1 /\ k \in Int
                BY <2>1, <4>2
            <4>4. Cardinality(s \ {x}) = k
                BY <4>3
            <4> QED  BY <4>4
        <3>4. h[s \ {x}] = g[s \ {x}]
            BY <1>3, <3>3
        <3> QED  BY <3>2, <3>4
    <2>2. k + 1 \in 0..n
        OBVIOUS
    <2> QED  BY <2>1, <2>2
<1>4. 0..n \subseteq U
    <2> HIDE DEF U
    <2> QED  BY <1>2, <1>3, SetInduction
<1>5. n \in 0..n /\ Cardinality(1..n) = n /\ 1..n \in SUBSET (1..n)
    BY FS_Interval
<1> QED  BY <1>4, <1>5

(* SumFunction is the sum from the front.                                   *)
LEMMA SumExists ==
    ASSUME NEW n \in Nat, NEW f \in [1..n -> Int]
    PROVE  \E h : IsSum(h, f, n) /\ SumFunction(f) = h[n]
<1> DEFINE step == [q \in Int \X (1..n) |-> q[1] + f[q[2]]]
<1> DEFINE T == Int
<1> DEFINE base == 0
<1>1. base \in T /\ step \in [T \X (1..n) -> T] /\ \A x \in Int, i \in 1..n : step[<<x, i>>] = x + f[i]
    OBVIOUS
<1>2. PICK g : IsFold(g, n, T, base, step)
    <2> HIDE DEF T, base, step
    <2> QED  BY <1>1, FoldExists
<1>3. g \in [SUBSET (1..n) -> Int] /\ g[{}] = 0
    BY <1>2 DEF IsFold
<1>4. \A s \in SUBSET (1..n) : s # {} => g[s] = g[s \ {Max(s)}] + f[Max(s)]
    <2> HIDE DEF step
    <2> SUFFICES ASSUME NEW s \in SUBSET (1..n), s # {} PROVE g[s] = g[s \ {Max(s)}] + f[Max(s)]
        OBVIOUS
    <2>1. Max(s) \in 1..n /\ s \ {Max(s)} \in SUBSET (1..n)
        BY MaxOfPositions
    <2>2. g[s] = step[<<g[s \ {Max(s)}], Max(s)>>]
        BY <1>2 DEF IsFold
    <2> QED  BY <1>1, <1>3, <2>1, <2>2
<1>5. \A s \in SUBSET (1..n) : \A x \in s : g[s] = g[s \ {x}] + f[x]
    BY <1>3, <1>4, SumWithout
<1> DEFINE pick == [s \in SUBSET (1..n) |-> CHOOSE x \in s : TRUE]
<1> DEFINE Body(w) == [s \in SUBSET (1..n) |->
                          IF s = {} THEN 0 ELSE f[CHOOSE x \in s : TRUE] + w[s \ {CHOOSE x \in s : TRUE}]]
<1> DEFINE iter == CHOOSE w : w = Body(w)
<1>6. \A s \in SUBSET (1..n) : s # {} => /\ pick[s] \in s /\ pick[s] = CHOOSE x \in s : TRUE
                                         /\ g[s] = f[pick[s]] + g[s \ {pick[s]}]
    <2> SUFFICES ASSUME NEW s \in SUBSET (1..n), s # {}
                 PROVE  /\ pick[s] \in s /\ pick[s] = CHOOSE x \in s : TRUE
                        /\ g[s] = f[pick[s]] + g[s \ {pick[s]}]
        OBVIOUS
    <2>1. pick[s] \in s /\ pick[s] = CHOOSE x \in s : TRUE
        OBVIOUS
    <2> HIDE DEF pick
    <2>2. g[s] = g[s \ {pick[s]}] + f[pick[s]]
        BY <1>5, <2>1
    <2>3. f[pick[s]] \in Int /\ g[s \ {pick[s]}] \in Int
        BY <1>3, <2>1
    <2> QED  BY <2>1, <2>2, <2>3
<1>7. iter = Body(iter)
    <2>1. \A s \in SUBSET (1..n) : g[s] = IF s = {} THEN 0 ELSE f[CHOOSE x \in s : TRUE] + g[s \ {CHOOSE x \in s : TRUE}]
        <3> HIDE DEF pick
        <3> QED  BY <1>3, <1>6
    <2>2. g = Body(g)
        BY <1>3, <2>1
    <2> QED  BY <2>2
<1>8. iter[1..n] = g[1..n]
    <2> HIDE DEF iter, pick
    <2>1. AddsUp(iter, f, pick, n)
        BY <1>6, <1>7 DEF AddsUp
    <2>2. AddsUp(g, f, pick, n)
        BY <1>3, <1>6 DEF AddsUp
    <2> QED  BY <2>1, <2>2, SameOnSets
<1>9. SumFunction(f) = iter[1..n]
    <2>1. DOMAIN f = 1..n
        OBVIOUS
    <2> QED  BY <2>1 DEF SumFunction, SumFunctionOnSet, FoldFunctionOnSet, MapThenFoldSet
<1> DEFINE h == [i \in 0..n |-> g[1..i]]
<1>10. IsSum(h, f, n)
    <2>1. h \in [0..n -> Int]
        <3>1. \A i \in 0..n : 1..i \in SUBSET (1..n)
            OBVIOUS
        <3> QED  BY <1>3, <3>1
    <2>2. h[0] = 0
        <3>1. 1..0 = {}
            OBVIOUS
        <3> QED  BY <1>3, <3>1
    <2>3. ASSUME NEW i \in 1..n PROVE h[i] = h[i-1] + f[i]
        <3>1. 1..i \in SUBSET (1..n) /\ i \in 1..i /\ (1..i) \ {i} = 1..(i-1) /\ i \in 0..n /\ i - 1 \in 0..n
            OBVIOUS
        <3>2. g[1..i] = g[(1..i) \ {i}] + f[i]
            BY <1>5, <3>1
        <3>3. h[i] = g[1..i] /\ h[i-1] = g[1..(i-1)]
            BY <3>1
        <3> QED  BY <3>1, <3>2, <3>3
    <2> HIDE DEF h
    <2> QED  BY <2>1, <2>2, <2>3 DEF IsSum
<1>11. h[n] = g[1..n]
    OBVIOUS
<1> HIDE DEF h, iter
<1> QED  BY <1>8, <1>9, <1>10, <1>11

(* What a list of entries declares.                                         *)
DeclaredTotal(format, entries) == FoldLeft(LAMBDA total, e : total + Declared(format, e), 0, entries)

(* The total of a list of entries is the sum from the front.                *)
LEMMA TotalIsSum ==
    ASSUME NEW S, NEW entries \in Seq(S), NEW format, NEW f, NEW h, IsSum(h, f, Len(entries)),
           \A i \in 1..Len(entries) : f[i] \in Int /\ f[i] = Declared(format, entries[i])
    PROVE  DeclaredTotal(format, entries) = h[Len(entries)]
<1> DEFINE n == Len(entries)
<1> DEFINE T == Int
<1> DEFINE base == 0
<1> DEFINE step == [q \in T \X (1..n) |-> q[1] + f[q[2]]]
<1> DEFINE Body(w) == [s \in SUBSET DOMAIN entries |->
                          IF s = {} THEN base ELSE w[s \ {Max(s)}] + Declared(format, entries[Max(s)])]
<1> DEFINE g == CHOOSE w : w = Body(w)
<1>1. n \in Nat /\ DOMAIN entries = 1..n /\ base \in T
    OBVIOUS
<1>2. step \in [T \X (1..n) -> T]
    OBVIOUS
<1>3. DeclaredTotal(format, entries) = g[1..n]
    BY <1>1 DEF DeclaredTotal, FoldLeft, MapThenFoldSet
<1>4. \A x \in T, i \in 1..n : step[<<x, i>>] = x + Declared(format, entries[i])
    OBVIOUS
<1>5. g = Body(g)
    <2>1. PICK w : IsFold(w, n, T, base, step)
        <3> HIDE DEF T, n, base, step
        <3> QED  BY <1>1, <1>2, FoldExists
    <2>2. ASSUME NEW s \in SUBSET (1..n), s # {}
          PROVE  w[s] = w[s \ {Max(s)}] + Declared(format, entries[Max(s)])
        <3> HIDE DEF T, n, base, step
        <3>1. Max(s) \in 1..n /\ s \ {Max(s)} \in SUBSET (1..n)
            BY <1>1, <2>2, MaxOfPositions
        <3>2. w[s \ {Max(s)}] \in T /\ w[s] = step[<<w[s \ {Max(s)}], Max(s)>>]
            BY <2>1, <2>2, <3>1 DEF IsFold
        <3> QED  BY <1>4, <3>1, <3>2
    <2>3. w \in [SUBSET (1..n) -> T] /\ w[{}] = base
        BY <2>1 DEF IsFold
    <2>4. w = Body(w)
        <3> HIDE DEF T, n, base
        <3> QED  BY <1>1, <2>2, <2>3
    <2> QED  BY <2>4
<1>6. Folds(g, n, T, base, step)
    <2>1. g[{}] = base
        <3> HIDE DEF g, T, base
        <3> QED  BY <1>5
    <2>2. ASSUME NEW i \in 1..n, g[1..(i-1)] \in T
          PROVE  g[1..i] = step[<<g[1..(i-1)], i>>]
        <3> HIDE DEF g, T, n, base, step
        <3>1. n \in Nat
            BY <1>1
        <3>2. 1..i # {} /\ 1..i \in SUBSET (1..n) /\ (1..i) \ {Max(1..i)} = 1..(i-1) /\ Max(1..i) = i
            BY <3>1, FirstPositions
        <3>3. g[1..i] = g[(1..i) \ {Max(1..i)}] + Declared(format, entries[Max(1..i)])
            BY <1>1, <1>5, <3>2
        <3>4. g[1..i] = g[1..(i-1)] + Declared(format, entries[i])
            BY <3>2, <3>3
        <3> QED  BY <1>4, <2>2, <3>4
    <2> QED  BY <2>1, <2>2 DEF Folds
<1>7. PICK r : IsRun(r, n, T, base, step) /\ RunOf(r, g, n)
    <2> HIDE DEF T, n, base, step, g
    <2> QED  BY <1>1, <1>2, <1>6, FoldRuns
<1>8. \A i \in 0..n : r[i] = h[i]
    <2> DEFINE U == {i \in 0..n : r[i] = h[i]}
    <2>1. 0 \in U
        BY <1>7 DEF IsRun, IsSum
    <2>2. ASSUME NEW i \in 0..(n-1), i \in U PROVE i + 1 \in U
        <3>1. i + 1 \in 1..n /\ i + 1 \in 0..n /\ (i + 1) - 1 = i /\ i \in 0..n
            BY <1>1
        <3>2. r[i+1] = step[<<r[i], i+1>>] /\ h[i+1] = h[i] + f[i+1] /\ h[i] \in Int
            BY <1>7, <3>1 DEF IsRun, IsSum
        <3>3. step[<<h[i], i+1>>] = h[i] + f[i+1]
            BY <3>1, <3>2
        <3> QED  BY <2>2, <3>1, <3>2, <3>3
    <2>3. 0..n \subseteq U
        <3> HIDE DEF U, n
        <3> QED  BY <1>1, <2>1, <2>2, SetInduction
    <2> QED  BY <2>3
<1> HIDE DEF g, n
<1>9. n \in 0..n
    BY <1>1
<1>10. g[1..n] = h[n]
    BY <1>7, <1>8, <1>9 DEF RunOf
<1> QED  BY <1>3, <1>10 DEF n

(* So is the total before an entry.                                         *)
LEMMA TotalBeforeIsSum ==
    ASSUME NEW a, a.entries \in Seq(EntryType), NEW f, NEW h, IsSum(h, f, Len(a.entries)),
           \A i \in 1..Len(a.entries) : f[i] \in Int /\ f[i] = Declared(a.format, a.entries[i]),
           NEW i \in 1..Len(a.entries)
    PROVE  TotalBefore(a, i) = h[i-1]
<1> DEFINE before == SubSeq(a.entries, 1, i - 1)
<1> DEFINE k == [m \in 0..(i-1) |-> h[m]]
<1>1. before \in Seq(EntryType) /\ Len(before) = i - 1 /\ \A m \in 1..(i-1) : before[m] = a.entries[m]
    OBVIOUS
<1>2. IsSum(k, f, i - 1)
    <2>1. \A m \in 1..(i-1) : m \in 1..Len(a.entries) /\ m \in 0..(i-1) /\ m - 1 \in 0..(i-1)
        OBVIOUS
    <2>2. 0..(i-1) \subseteq 0..Len(a.entries) /\ 0 \in 0..(i-1)
        OBVIOUS
    <2> QED  BY <2>1, <2>2 DEF IsSum
<1>3. \A m \in 1..(i-1) : f[m] \in Int /\ f[m] = Declared(a.format, before[m])
    BY <1>1
<1>4. DeclaredTotal(a.format, before) = k[i-1]
    <2>1. IsSum(k, f, Len(before)) /\ \A m \in 1..Len(before) : f[m] \in Int /\ f[m] = Declared(a.format, before[m])
        BY <1>1, <1>2, <1>3
    <2>2. DeclaredTotal(a.format, before) = k[Len(before)]
        <3> HIDE DEF k, before
        <3> QED  BY <1>1, <2>1, TotalIsSum
    <2> QED  BY <1>1, <2>2
<1>5. TotalBefore(a, i) = DeclaredTotal(a.format, before)
    BY DEF TotalBefore, DeclaredTotal
<1>6. k[i-1] = h[i-1]
    OBVIOUS
<1> HIDE DEF k, before
<1> QED  BY <1>4, <1>5, <1>6

(* Sums of what is not negative grow.                                       *)
LEMMA SumsGrow ==
    ASSUME NEW n \in Nat, NEW f, NEW h, IsSum(h, f, n), \A i \in 1..n : f[i] \in Nat
    PROVE  \A i \in 0..n : h[i] <= h[n]
<1> DEFINE U == {k \in 0..n : \A i \in 0..k : h[i] <= h[k]}
<1>1. 0 \in U
    BY DEF IsSum
<1>2. ASSUME NEW k \in 0..(n-1), k \in U PROVE k + 1 \in U
    <2>1. k + 1 \in 1..n /\ k + 1 \in 0..n /\ (k + 1) - 1 = k /\ k \in 0..n /\ k \in 0..k
        OBVIOUS
    <2>2. h[k+1] = h[k] + f[k+1] /\ f[k+1] \in Nat /\ h[k] \in Int /\ h[k+1] \in Int
        BY <2>1 DEF IsSum
    <2>3. ASSUME NEW i \in 0..(k+1) PROVE h[i] <= h[k+1]
        <3>1. i = k + 1 \/ i \in 0..k
            OBVIOUS
        <3>2. i \in 0..k => h[i] <= h[k] /\ h[i] \in Int
            BY <1>2 DEF IsSum
        <3> QED  BY <2>2, <3>1, <3>2
    <2> QED  BY <2>1, <2>3
<1>3. 0..n \subseteq U
    <2> HIDE DEF U
    <2> QED  BY <1>1, <1>2, SetInduction
<1>4. n \in 0..n
    OBVIOUS
<1> QED  BY <1>3, <1>4

(* As many names as entries: no two are the same.                           *)
LEMMA NamesOfEntries ==
    ASSUME NEW entries \in Seq(EntryType)
    PROVE  Cardinality({Normal(e.name) : e \in ToSet(entries)}) = Len(entries) <=>
             \A i \in 1..Len(entries) : \A j \in 1..(i-1) : Normal(entries[j].name) # Normal(entries[i].name)
<1> DEFINE n == Len(entries)
<1> DEFINE T == {Normal(e.name) : e \in ToSet(entries)}
<1> DEFINE F == [i \in 1..n |-> Normal(entries[i].name)]
<1>1. n \in Nat /\ ToSet(entries) = {entries[i] : i \in 1..n}
    BY DEF ToSet
<1>2. T = {F[i] : i \in 1..n}
    BY <1>1
<1>3. F \in Surjection(1..n, T)
    <2>1. F \in [1..n -> T] /\ \A t \in T : \E s \in 1..n : F[s] = t
        <3> DEFINE G(i) == Normal(entries[i].name)
        <3> HIDE DEF T
        <3> QED  BY <1>2
    <2> HIDE DEF F, T
    <2> QED  BY <2>1 DEF Surjection
<1>4. IsFiniteSet(1..n) /\ Cardinality(1..n) = n
    BY <1>1, FS_Interval
<1>5. Cardinality(T) = n <=> F \in Injection(1..n, T)
    <2> HIDE DEF F, T
    <2> QED  BY <1>3, <1>4, FS_Surjection
<1>6. F \in Injection(1..n, T) <=> \A i, j \in 1..n : F[i] = F[j] => i = j
    <2>1. F \in [1..n -> T] /\ DOMAIN F = 1..n
        <3> HIDE DEF F, T
        <3> QED  BY <1>3 DEF Surjection
    <2> HIDE DEF F, T
    <2> QED  BY <2>1 DEF Injection, IsInjective
<1>7. (\A i, j \in 1..n : F[i] = F[j] => i = j) <=>
        \A i \in 1..n : \A j \in 1..(i-1) : Normal(entries[j].name) # Normal(entries[i].name)
    <2>1. \A i \in 1..n : F[i] = Normal(entries[i].name)
        OBVIOUS
    <2>2. \A i \in 1..n : \A j \in 1..(i-1) : j \in 1..n /\ j # i
        OBVIOUS
    <2>3. \A i, j \in 1..n : i # j => j \in 1..(i-1) \/ i \in 1..(j-1)
        OBVIOUS
    <2> HIDE DEF F, n
    <2> QED  BY <2>1, <2>2, <2>3
<1> HIDE DEF F
<1> QED  BY <1>5, <1>6, <1>7

(* Limits and declared sizes as a reader has them.                          *)
Measured(l, a) ==
    /\ MaxInt \in Nat /\ {l.input, l.entries, l.file, l.total, l.path} \subseteq 1..MaxInt
    /\ a.entries \in Seq(EntryType)
    /\ \A i \in 1..Len(a.entries) : a.entries[i].size \in 0..(2 * MaxInt + 1)

(* Of a TAR only files, directories and links are taken.                     *)
NoOthers(a) == a.format = "tar" => \A i \in 1..Len(a.entries) : a.entries[i].type # "other"

(* A size that is not above the limit for files is taken for what it is.     *)
LEMMA DeclaredIsSize ==
    ASSUME NEW l, NEW a, Measured(l, a), NoOthers(a), NEW i \in 1..Len(a.entries)
    PROVE  /\ SizeOf(a, i) \in Nat
           /\ Declared(a.format, a.entries[i]) >= 0 /\ Declared(a.format, a.entries[i]) <= l.file
                <=> SizeOf(a, i) <= l.file
           /\ SizeOf(a, i) <= l.file => Declared(a.format, a.entries[i]) = SizeOf(a, i)
<1> DEFINE e == a.entries[i]
<1>1. e.type \in Types /\ e.size \in 0..(2 * MaxInt + 1) /\ MaxInt \in Nat /\ l.file \in 1..MaxInt
    <2>1. e \in EntryType /\ e.size \in 0..(2 * MaxInt + 1)
        BY DEF Measured
    <2>2. MaxInt \in Nat /\ l.file \in 1..MaxInt
        BY DEF Measured
    <2>3. e.type \in Types
        <3> HIDE DEF e
        <3> QED  BY <2>1 DEF EntryType
    <2> QED  BY <2>1, <2>2, <2>3
<1>2. ~(a.format = "tar" /\ e.type = "other")
    BY DEF NoOthers
<1> DEFINE none == e.type = "directory" \/ (a.format = "tar" /\ e.type # "regular")
<1>3. SizeOf(a, i) = IF none THEN 0 ELSE e.size
    BY DEF SizeOf
<1>4. Declared(a.format, e) = IF none THEN 0 ELSE Signed(e.size)
    BY <1>1, <1>2 DEF Declared, Types
<1>5. /\ e.size <= MaxInt => Signed(e.size) = e.size
      /\ e.size > MaxInt => Signed(e.size) < 0 /\ Signed(e.size) \in Int
    BY <1>1 DEF Signed
<1> HIDE DEF none, e
<1>6. CASE none
    BY <1>1, <1>3, <1>4, <1>6 DEF e
<1>7. CASE ~none /\ e.size <= MaxInt
    BY <1>1, <1>3, <1>4, <1>5, <1>7 DEF e
<1>8. CASE ~none /\ e.size > MaxInt
    <2>1. SizeOf(a, i) = e.size /\ Declared(a.format, e) = Signed(e.size)
        BY <1>3, <1>4, <1>8
    <2>2. e.size \in Nat /\ ~(e.size <= l.file)
        BY <1>1, <1>8
    <2> QED  BY <1>5, <1>8, <2>1, <2>2 DEF e
<1>9. e.size <= MaxInt \/ e.size > MaxInt
    BY <1>1
<1> QED  BY <1>6, <1>7, <1>8, <1>9

(* A list of entries is admitted one after the other exactly when all of     *)
(* them are within the limits.                                              *)
LEMMA ListedIsWithin ==
    ASSUME NEW l, NEW a, Measured(l, a)
    PROVE  Listed(l, a) <=> WithinLimits(l, a)
<1> DEFINE n == Len(a.entries)
<1> DEFINE d(i) == Declared(a.format, a.entries[i])
<1> DEFINE f == [i \in 1..n |-> SizeOf(a, i)]
<1> DEFINE Short == \A i \in 1..n : Len(Slashed(a.entries[i].name)) <= l.path
                                  /\ Len(Slashed(a.entries[i].link)) <= l.path
<1> DEFINE Differ == \A i \in 1..n : \A j \in 1..(i-1) : Normal(a.entries[j].name) # Normal(a.entries[i].name)
<1> DEFINE Small == \A i \in 1..n : SizeOf(a, i) <= l.file
<1>1. n \in Nat /\ DOMAIN a.entries = 1..n /\ a.entries \in Seq(EntryType)
      /\ EntrySet(a) = {a.entries[i] : i \in 1..n}
    BY DEF Measured, EntrySet, ToSet
<1>2. l.entries \in 1..MaxInt /\ l.total \in 1..MaxInt /\ MaxInt \in Nat
    BY DEF Measured
<1>3. Listed(l, a) <=> /\ Short /\ Differ /\ NoOthers(a)
                       /\ \A i \in 1..n : Admits(l, TotalBefore(a, i), i, d(i))
    BY <1>1 DEF Listed, NoOthers
<1>4. WithinLimits(l, a) <=> /\ n <= l.entries /\ Small /\ SumFunction(f) <= l.total
                             /\ Short /\ Differ /\ NoOthers(a)
    <2>1. Cardinality({Normal(e.name) : e \in EntrySet(a)}) = n <=> Differ
        BY <1>1, NamesOfEntries DEF EntrySet
    <2>2. Short <=> \A e \in EntrySet(a) : Len(Slashed(e.name)) <= l.path /\ Len(Slashed(e.link)) <= l.path
        BY <1>1
    <2>3. NoOthers(a) <=> (a.format = "tar" => \A e \in EntrySet(a) : e.type # "other")
        BY <1>1 DEF NoOthers
    <2>4. WithinLimits(l, a) <=> /\ n <= l.entries /\ Small /\ SumFunction(f) <= l.total
                                 /\ \A e \in EntrySet(a) : Len(Slashed(e.name)) <= l.path /\ Len(Slashed(e.link)) <= l.path
                                 /\ Cardinality({Normal(e.name) : e \in EntrySet(a)}) = n
                                 /\ a.format = "tar" => \A e \in EntrySet(a) : e.type # "other"
        BY <1>1 DEF WithinLimits
    <2> HIDE DEF Short, Differ, Small, f, n
    <2> QED  BY <2>1, <2>2, <2>3, <2>4
<1>5. ASSUME NoOthers(a), Small
      PROVE  (\A i \in 1..n : Admits(l, TotalBefore(a, i), i, d(i))) <=> n <= l.entries /\ SumFunction(f) <= l.total
    <2>1. \A i \in 1..n : SizeOf(a, i) \in Nat /\ d(i) = SizeOf(a, i) /\ d(i) >= 0 /\ d(i) <= l.file
        BY <1>5, DeclaredIsSize
    <2>2. f \in [1..n -> Int] /\ \A i \in 1..n : f[i] \in Nat /\ f[i] \in Int /\ f[i] = d(i)
        BY <2>1
    <2> HIDE DEF f
    <2>3. PICK h : IsSum(h, f, n) /\ SumFunction(f) = h[n]
        <3> HIDE DEF n
        <3> QED  BY <1>1, <2>2, SumExists
    <2>4. \A i \in 1..n : TotalBefore(a, i) = h[i-1]
        BY <1>1, <2>2, <2>3, TotalBeforeIsSum
    <2>5. \A i \in 1..n : Admits(l, TotalBefore(a, i), i, d(i)) <=> i <= l.entries /\ h[i] <= l.total
        <3> SUFFICES ASSUME NEW i \in 1..n
                     PROVE  Admits(l, TotalBefore(a, i), i, d(i)) <=> i <= l.entries /\ h[i] <= l.total
            OBVIOUS
        <3>1. i - 1 \in 0..n /\ i \in 0..n
            BY <1>1
        <3>2. h[i] = h[i-1] + f[i] /\ h[i-1] \in Int /\ f[i] \in Int
            BY <2>2, <2>3, <3>1 DEF IsSum
        <3>3. f[i] <= l.total - h[i-1] <=> h[i] <= l.total
            BY <1>2, <3>2
        <3>4. Admits(l, TotalBefore(a, i), i, d(i)) <=> i <= l.entries /\ f[i] <= l.total - h[i-1]
            BY <2>1, <2>2, <2>4 DEF Admits
        <3> QED  BY <3>3, <3>4
    <2>6. \A i \in 0..n : h[i] <= h[n]
        <3> HIDE DEF n
        <3> QED  BY <1>1, <2>2, <2>3, SumsGrow
    <2>7. h[0] = 0 /\ h \in [0..n -> Int]
        BY <2>3 DEF IsSum
    <2>8. ASSUME \A i \in 1..n : i <= l.entries /\ h[i] <= l.total PROVE n <= l.entries /\ h[n] <= l.total
        <3>1. CASE n = 0
            BY <1>2, <2>7, <3>1
        <3>2. CASE n # 0
            <4>1. n \in 1..n
                BY <1>1, <3>2
            <4> QED  BY <2>8, <4>1
        <3> QED  BY <3>1, <3>2
    <2>9. ASSUME n <= l.entries, h[n] <= l.total, NEW i \in 1..n PROVE i <= l.entries /\ h[i] <= l.total
        <3>1. i \in 0..n /\ n \in 0..n
            BY <1>1
        <3>2. h[i] <= h[n] /\ h[i] \in Int /\ h[n] \in Int
            BY <2>6, <2>7, <3>1
        <3> QED  BY <1>1, <1>2, <2>9, <3>2
    <2> QED  BY <2>3, <2>5, <2>8, <2>9
<1>6. ASSUME NoOthers(a), \A i \in 1..n : Admits(l, TotalBefore(a, i), i, d(i)) PROVE Small
    <2>1. \A i \in 1..n : d(i) >= 0 /\ d(i) <= l.file
        BY <1>6 DEF Admits
    <2> QED  BY <1>6, <2>1, DeclaredIsSize
<1> HIDE DEF Short, Differ, Small, f, n, d
<1> QED  BY <1>3, <1>4, <1>5, <1>6

(* A container is taken whole exactly when its bytes are within the limit,   *)
(* however it is read.                                                      *)
LEMMA OpensWithin ==
    ASSUME NEW l, NEW a, NEW how, MaxInt \in Nat, l.input \in 1..MaxInt, a.bytes \in 0..MaxInt
    PROVE  Opens(l, a, how) <=> a.bytes \in 2..l.input
<1> DEFINE bytes == a.bytes
<1> DEFINE limit == l.input
<1>1. bytes \in 0..MaxInt /\ limit \in 1..MaxInt
    OBVIOUS
<1> HIDE DEF bytes, limit
<1>2. CopyLimit(limit) = IF limit = MaxInt THEN limit ELSE limit + 1
    <2>1. Signed(limit + 1) = IF limit = MaxInt THEN -limit - 1 ELSE limit + 1
        BY <1>1 DEF Signed
    <2> QED  BY <1>1, <2>1 DEF CopyLimit
<1>3. Spooled(limit, bytes) \in 2..limit <=> bytes \in 2..limit
    BY <1>1, <1>2 DEF Spooled
<1>4. Spooled(limit, bytes) \in Int
    BY <1>1, <1>2 DEF Spooled
<1>5. Opens(l, a, how) <=> LET size == IF how = "stream" THEN Spooled(limit, bytes) ELSE bytes
                           IN  size <= limit /\ size >= 2
    BY DEF Opens, bytes, limit
<1>6. Opens(l, a, how) <=> bytes \in 2..limit
    BY <1>1, <1>3, <1>4, <1>5
<1> QED  BY <1>6 DEF bytes, limit

(* What was admitted stays so while it is extracted.                        *)
LEMMA AdmittedStays ==
    ASSUME AdmissionOK, pc \in {"idle", "extract"}, pc' \in {"idle", "extract"}, result' # "refused",
           packed' = packed, archive' = archive, limits' = limits, listing' = listing
    PROVE  AdmissionOK'
BY DEF AdmissionOK, SizesOK

(* The sizes of what was packed, and of what was admitted.                  *)
LEMMA EarlyAdmission ==
    ASSUME IInv, AdmissionOK, Walk \/ Pack \/ ChangeSource \/ Close \/ Open \/ List
    PROVE  AdmissionOK'
<1>1. CASE Walk
    BY <1>1 DEF Walk, AdmissionOK, SizesOK, input
<1>2. CASE Pack
    <2> DEFINE f == source.files[Len(packed) + 1]
    <2> DEFINE e == [name |-> f.name, type |-> f.type, mode |-> f.mode, link |-> <<>>,
                     data |-> f.data, size |-> IF f.type = "directory" THEN 0 ELSE Bytes[f.data],
                     whole |-> TRUE]
    <2>1. /\ pc = "pack" /\ pc' \in {"pack", "stopped"} /\ result' \in {result, "failed"}
          /\ archive' = archive /\ limits' = limits /\ listing' = listing
          /\ packed' = packed \/ packed' = Append(packed, e)
        BY <1>2 DEF Pack, input
    <2>2. packed \in Seq(EntryType) /\ Len(packed) \in Nat /\ source.files \in Seq(FileType)
          /\ Len(packed) < Len(source.files)
        BY <1>2 DEF Pack, IInv, ContainersOK, EntriesOK, FilesOK
    <2>3. e.size \in 0..(2 * MaxInt + 1)
        <3>1. f \in FileType
            BY <2>2
        <3>2. Bytes[f.data] \in Nat /\ Bytes[f.data] <= MaxInt
            BY <3>1, BytesAssumption, SizesAssumption DEF FileType
        <3>3. e.size = IF f.type = "directory" THEN 0 ELSE Bytes[f.data]
            OBVIOUS
        <3> HIDE DEF e, f
        <3> QED  BY <3>2, <3>3, SizesAssumption
    <2> HIDE DEF e, f
    <2>4. SizesOK(packed')
        <3>1. CASE packed' = packed
            BY <3>1 DEF AdmissionOK
        <3>2. CASE packed' = Append(packed, e)
            <4>1. Len(packed') = Len(packed) + 1 /\ packed'[Len(packed) + 1] = e
                  /\ \A k \in 1..Len(packed) : packed'[k] = packed[k]
                BY <2>2, <3>2
            <4>2. ASSUME NEW k \in 1..Len(packed') PROVE packed'[k].size \in 0..(2 * MaxInt + 1)
                <5>1. k \in 1..Len(packed) \/ k = Len(packed) + 1
                    BY <2>2, <4>1
                <5> QED  BY <2>3, <4>1, <5>1 DEF AdmissionOK, SizesOK
            <4> QED  BY <4>2 DEF SizesOK
        <3> QED  BY <2>1, <3>1, <3>2
    <2> QED  BY <2>1, <2>4 DEF AdmissionOK, SizesOK
<1>3. CASE ChangeSource
    BY <1>3 DEF ChangeSource, AdmissionOK, SizesOK, input
<1>4. CASE Close
    <2>1. /\ pc = "pack" /\ pc' = "open" /\ archive'.bytes = 2 /\ archive'.entries = packed
          /\ packed' = packed /\ limits' = limits /\ listing' = listing /\ result' = result
        BY <1>4 DEF Close, writing
    <2> QED  BY <2>1, SizesAssumption DEF AdmissionOK, SizesOK
<1>5. CASE Open
    <2>1. \A l \in LimitSets : l.input \in 1..MaxInt
        BY SizesAssumption
    <2>2. limits.input \in 1..MaxInt /\ archive.bytes \in 0..MaxInt /\ MaxInt \in Nat
        BY <2>1, SizesAssumption DEF AdmissionOK
    <2>3. PICK how : \/ Opens(limits, archive, how) /\ pc' = "idle" /\ result' = "none"
                     \/ ~Opens(limits, archive, how) /\ pc' = "stopped" /\ result' = "refused"
        BY <1>5 DEF Open
    <2>4. Opens(limits, archive, how) <=> archive.bytes \in 2..limits.input
        BY <2>2, OpensWithin
    <2>5. pc = "open" /\ packed' = packed /\ archive' = archive /\ limits' = limits /\ listing' = listing
        BY <1>5 DEF Open, writing, input
    <2> QED  BY <2>3, <2>4, <2>5 DEF AdmissionOK, SizesOK
<1>6. CASE List
    <2>1. /\ pc = "idle" /\ pc' = pc /\ packed' = packed /\ archive' = archive /\ limits' = limits
          /\ result' = result /\ listing' = IF Listed(limits, archive) THEN "listed" ELSE "refused"
        BY <1>6 DEF List, writing
    <2>2. Listed(limits', archive') <=> Listed(limits, archive)
        BY <2>1
    <2> QED  BY <2>1, <2>2 DEF AdmissionOK, SizesOK
<1> QED  BY <1>1, <1>2, <1>3, <1>4, <1>5, <1>6

(* The steps of extractions and of writing keep it.                         *)
LEMMA AdmissionKept ==
    ASSUME IInv, AdmissionOK, [Next]_vars
    PROVE  AdmissionOK'
<1>1. ASSUME pc \in {"idle", "extract"} PROVE result # "refused"
    BY <1>1 DEF AdmissionOK
<1>2. CASE Extract
    <2>1. pc = "idle" /\ pc' \in {"idle", "extract"} /\ result' \in {"invalid", "failed", "none"}
          /\ packed' = packed /\ archive' = archive /\ limits' = limits /\ listing' = listing
        BY <1>2 DEF Extract, writing, input
    <2> QED  BY <2>1, AdmittedStays
<1>3. CASE ExtractEntry
    <2>1. PICK i \in call.work : MakeDirectory(i) \/ WriteRegular(i) \/ MakeHardlink(i) \/ MakeSymlink(i)
        BY <1>3 DEF ExtractEntry
    <2>2. pc = "extract" /\ pc' \in {pc, "idle"} /\ result' \in {result, "failed", "cancelled"}
        BY <1>3, <2>1 DEF ExtractEntry, MakeDirectory, WriteRegular, MakeHardlink, MakeSymlink, MakeLink, Done, Stop
    <2>3. packed' = packed /\ archive' = archive /\ limits' = limits /\ listing' = listing
        BY <2>1 DEF MakeDirectory, WriteRegular, MakeHardlink, MakeSymlink, writing, input
    <2> QED  BY <1>1, <2>2, <2>3, AdmittedStays
<1>4. CASE ChmodDirectory
    <2>1. pc = "extract" /\ pc' \in {pc, "idle"} /\ result' \in {result, "failed"}
          /\ packed' = packed /\ archive' = archive /\ limits' = limits /\ listing' = listing
        BY <1>4 DEF ChmodDirectory, Stop, writing, input
    <2> QED  BY <1>1, <2>1, AdmittedStays
<1>5. CASE Finish \/ Cancel
    <2>1. pc = "extract" /\ pc' = "idle" /\ result' \in {"ok", "cancelled"}
          /\ packed' = packed /\ archive' = archive /\ limits' = limits /\ listing' = listing
        BY <1>5 DEF Finish, Cancel, Stop, writing, input
    <2> QED  BY <2>1, AdmittedStays
<1>6. CASE UNCHANGED vars
    BY <1>6 DEF vars, writing, input, AdmissionOK, SizesOK
<1> QED  BY <1>2, <1>3, <1>4, <1>5, <1>6, EarlyAdmission DEF Next

(* archive/reader.go (Open, validateEntry): whatever the sizes that a        *)
(* container declares, and whatever the limits, it is admitted exactly when  *)
(* it, each of its entries and all of them are within the limits; no sum     *)
(* and no conversion of a size can wrap around them.                        *)
THEOREM LimitsAreExact == Spec => []LimitsExact
<1>1. Init => AdmissionOK
    <2> SUFFICES ASSUME Init PROVE AdmissionOK
        OBVIOUS
    <2>1. limits \in LimitSets /\ packed = <<>> /\ listing = "none" /\ result = "none" /\ pc \in {"walk", "open"}
        BY DEF Init
    <2>2. archive.bytes \in 0..MaxInt /\ SizesOK(archive.entries)
        <3>1. CASE archive = [format |-> "none", bytes |-> 0, entries |-> <<>>]
            BY <3>1, SizesAssumption DEF SizesOK
        <3>2. CASE archive \in Archives
            <4>1. EntriesOK(archive.entries)
                BY <3>2, ContainersAssumption
            <4>2. DOMAIN archive.entries = 1..Len(archive.entries)
                BY <4>1 DEF EntriesOK
            <4> QED  BY <3>2, <4>2, SizesAssumption DEF SizesOK
        <3> QED  BY <3>1, <3>2 DEF Init
    <2> QED  BY <2>1, <2>2 DEF AdmissionOK, SizesOK
<1>2. IInv /\ AdmissionOK /\ [Next]_vars => AdmissionOK'
    BY AdmissionKept
<1>3. IInv /\ AdmissionOK => LimitsExact
    <2> SUFFICES ASSUME IInv, AdmissionOK PROVE LimitsExact
        OBVIOUS
    <2>1. Measured(limits, archive)
        BY SizesAssumption DEF IInv, ContainersOK, EntriesOK, AdmissionOK, SizesOK, Measured
    <2>2. Listed(limits, archive) <=> WithinLimits(limits, archive)
        BY <2>1, ListedIsWithin
    <2> QED  BY <2>2 DEF AdmissionOK, LimitsExact
<1> QED  BY <1>1, <1>2, <1>3, Inductive, PTL DEF Spec
=============================================================================
