------------------------- MODULE SseAssemblyProofs -------------------------
(***************************************************************************)
(* What the loops of internal/sseutil compute, for streams of any length.  *)
(***************************************************************************)
EXTENDS SseAssembly, SequenceInduction, TLAPS
LOCAL INSTANCE SequencesExt
LOCAL INSTANCE FiniteSetTheorems

-----------------------------------------------------------------------------
(* FoldLeft.  It recurs over sets of indices, the largest index last.      *)

LEMMA MaxOfInitial ==
    ASSUME NEW k \in Nat, NEW w \in SUBSET (1..k), k \in w
    PROVE  Max(w) = k
<1>1. \A y \in w : k >= y
  OBVIOUS
<1>2. \A x \in w : (\A y \in w : x >= y) => x = k
  BY <1>1
<1> QED BY <1>1, <1>2 DEF Max

LEMMA MaxOfSome ==
    ASSUME NEW n \in Nat, NEW w \in SUBSET (1..n), w # {}
    PROVE  Max(w) \in 1..n
<1> DEFINE S == {k \in Nat : \A v \in SUBSET (1..k) : v # {} => Max(v) \in v}
<1>1. 0 \in S
  <2>1. 1..0 = {}
    OBVIOUS
  <2> QED BY <2>1
<1>2. ASSUME NEW k \in Nat, k \in S PROVE k + 1 \in S
  <2>1. ASSUME NEW v \in SUBSET (1..k+1), v # {} PROVE Max(v) \in v
    <3>1. CASE k + 1 \in v
      BY <3>1, MaxOfInitial
    <3>2. CASE k + 1 \notin v
      <4>1. v \in SUBSET (1..k)
        BY <3>2
      <4> QED BY <1>2, <2>1, <4>1
    <3> QED BY <3>1, <3>2
  <2> QED BY <2>1
<1> HIDE DEF S
<1>3. Nat \subseteq S
  BY <1>1, <1>2, NumberInduction
<1> QED BY <1>3 DEF S

StepsOf(n, V) == [1..n -> [V -> V]]

\* f solves the recursion of a fold; g is the values it goes through.
Solves(f, n, V, base, step) ==
    /\ f \in [SUBSET (1..n) -> V]
    /\ \A w \in SUBSET (1..n) :
          f[w] = IF w = {} THEN base ELSE step[Max(w)][f[w \ {Max(w)}]]
SolvesIn(F, n, V, base, step) ==    \* as far as F stays in V
    /\ F[{}] = base
    /\ \A w \in SUBSET (1..n) : w # {} /\ F[w \ {Max(w)}] \in V =>
          F[w] = step[Max(w)][F[w \ {Max(w)}]]
GoesThrough(g, n, V, base, step) ==
    /\ g \in [0..n -> V] /\ g[0] = base
    /\ \A k \in 1..n : g[k] = step[k][g[k - 1]]

\* The recursion has a solution, whatever the steps.
LEMMA FoldExists ==
    ASSUME NEW n \in Nat, NEW V, NEW base \in V, NEW step \in StepsOf(n, V)
    PROVE  \E f : Solves(f, n, V, base, step)
<1> DEFINE Solvable(k) == \E f : Solves(f, k, V, base, step)
           S == {k \in Nat : Solvable(k)}
<1>1. Solvable(0)
  <2> DEFINE f == [w \in SUBSET (1..0) |-> base]
  <2>1. f \in [SUBSET (1..0) -> V] /\ \A w \in SUBSET (1..0) : w = {} /\ f[w] = base
    OBVIOUS
  <2>2. Solves(f, 0, V, base, step)
    BY <2>1 DEF Solves
  <2> QED BY <2>2
<1>2. ASSUME NEW j \in 1..n, Solvable(j - 1) PROVE Solvable(j)
  <2>1. PICK f : Solves(f, j - 1, V, base, step)
    BY <1>2
  <2> DEFINE g == [w \in SUBSET (1..j) |->
                     IF j \in w THEN step[j][f[w \ {j}]] ELSE f[w]]
  <2>2. \A w \in SUBSET (1..j) :
           /\ j \in w => w \ {j} \in SUBSET (1..j-1)
           /\ j \notin w => w \in SUBSET (1..j-1)
    OBVIOUS
  <2>3. g \in [SUBSET (1..j) -> V]
    <3>1. step[j] \in [V -> V]
      BY DEF StepsOf
    <3> QED BY <2>1, <2>2, <3>1 DEF Solves
  <2>4. ASSUME NEW w \in SUBSET (1..j)
        PROVE  g[w] = IF w = {} THEN base ELSE step[Max(w)][g[w \ {Max(w)}]]
    <3>1. CASE j \in w
      <4>1. /\ Max(w) = j /\ w # {}
            /\ w \ {j} \in SUBSET (1..j) /\ j \notin w \ {j}
        BY <3>1, MaxOfInitial
      <4>2. g[w] = step[j][f[w \ {j}]] /\ g[w \ {j}] = f[w \ {j}]
        BY <4>1, <3>1
      <4> HIDE DEF g
      <4> QED BY <4>1, <4>2
    <3>2. CASE j \notin w
      <4>1. /\ w \in SUBSET (1..j-1) /\ w \ {Max(w)} \in SUBSET (1..j)
            /\ j \notin w \ {Max(w)}
        BY <2>2, <3>2
      <4>2. g[w] = f[w] /\ g[w \ {Max(w)}] = f[w \ {Max(w)}]
        BY <4>1, <3>2
      <4> HIDE DEF g
      <4> QED BY <4>1, <4>2, <2>1 DEF Solves
    <3> QED BY <3>1, <3>2
  <2> HIDE DEF g
  <2>5. Solves(g, j, V, base, step)
    BY <2>3, <2>4 DEF Solves
  <2> QED BY <2>5
<1> HIDE DEF Solvable
<1>3. 0 \in S /\ \A j \in 1..n : j - 1 \in S => j \in S
  BY <1>1, <1>2
<1> HIDE DEF S
<1>4. 0..n \subseteq S
  BY <1>3, BoundedInduction
<1>5. n \in 0..n
  OBVIOUS
<1> QED BY <1>4, <1>5 DEF S, Solvable

\* The sets a fold comes by are 1..n, 1..n-1, ..., 1..0.
LEMMA FoldIntervals ==
    ASSUME NEW n \in Nat
    PROVE  /\ 1..0 = {}
           /\ \A k \in 0..n : 1..k \in SUBSET (1..n)
           /\ \A k \in 1..n : 1..k # {} /\ Max(1..k) = k /\ (1..k) \ {k} = 1..(k-1)
BY MaxOfInitial

\* Two folds with the same steps as far as n.
InStep(g, h, n) ==
    /\ g[0] = h[0]
    /\ \A k \in 1..n : g[k - 1] = h[k - 1] => g[k] = h[k]

LEMMA SameSteps ==
    ASSUME NEW n \in Nat, NEW g, NEW h, InStep(g, h, n)
    PROVE  \A k \in 0..n : g[k] = h[k]
<1> DEFINE S == {k \in 0..n : g[k] = h[k]}
<1>1. 0 \in S /\ \A k \in 1..n : k - 1 \in S => k \in S
  BY DEF InStep
<1> HIDE DEF S
<1>2. 0..n \subseteq S
  BY <1>1, BoundedInduction
<1> QED BY <1>2 DEF S

\* What all the values of a fold are in.
LEMMA StepsStay ==
    ASSUME NEW n \in Nat, NEW g, NEW V, g[0] \in V,
           \A k \in 1..n : g[k - 1] \in V => g[k] \in V
    PROVE  \A k \in 0..n : g[k] \in V
<1> DEFINE S == {k \in 0..n : g[k] \in V}
<1>1. 0 \in S /\ \A k \in 1..n : k - 1 \in S => k \in S
  OBVIOUS
<1> HIDE DEF S
<1>2. 0..n \subseteq S
  BY <1>1, BoundedInduction
<1> QED BY <1>2 DEF S

\* A solution of the recursion goes step by step.
LEMMA FoldGoes ==
    ASSUME NEW n \in Nat, NEW V, NEW base \in V, NEW step \in StepsOf(n, V),
           NEW F, SolvesIn(F, n, V, base, step)
    PROVE  \E g : GoesThrough(g, n, V, base, step) /\ g[n] = F[1..n]
<1> DEFINE g == [k \in 0..n |-> F[1..k]]
<1>1. g[0] = base
  BY FoldIntervals DEF SolvesIn
<1>2. ASSUME NEW k \in 1..n, g[k - 1] \in V PROVE g[k] = step[k][g[k - 1]]
  <2> DEFINE w == 1..k
  <2>1. w \in SUBSET (1..n) /\ w # {} /\ Max(w) = k /\ w \ {k} = 1..(k-1)
    BY FoldIntervals
  <2>2. g[k] = F[w] /\ g[k - 1] = F[1..(k-1)]
    OBVIOUS
  <2> HIDE DEF w, g
  <2>3. w \ {Max(w)} = 1..(k-1) /\ F[w \ {Max(w)}] = g[k - 1]
    BY <2>1, <2>2
  <2> QED BY <1>2, <2>1, <2>2, <2>3 DEF SolvesIn
<1>3. g[n] = F[1..n] /\ DOMAIN g = 0..n /\ g = [k \in 0..n |-> g[k]]
  OBVIOUS
<1> HIDE DEF g
<1>4. \A k \in 1..n : g[k - 1] \in V => g[k] \in V
  BY <1>2 DEF StepsOf
<1>5. \A k \in 0..n : g[k] \in V
  BY <1>1, <1>4, StepsStay
<1>6. \A k \in 1..n : k - 1 \in 0..n
  OBVIOUS
<1>7. GoesThrough(g, n, V, base, step)
  BY <1>1, <1>2, <1>3, <1>5, <1>6 DEF GoesThrough
<1> QED BY <1>3, <1>7

LEMMA FoldSteps ==
    ASSUME NEW n \in Nat, NEW V, NEW base \in V, NEW step \in StepsOf(n, V)
    PROVE  \E g : GoesThrough(g, n, V, base, step)
<1>1. PICK f : Solves(f, n, V, base, step)
  BY FoldExists
<1>2. SolvesIn(f, n, V, base, step)
  BY <1>1 DEF Solves, SolvesIn
<1> QED BY <1>2, FoldGoes

-----------------------------------------------------------------------------
(* FlattenSeq.                                                             *)

\* Concatenation, under a name of its own that the provers leave alone.
Cat(s, t) == s \o t

LEMMA CatFacts ==
    ASSUME NEW E
    PROVE  /\ <<>> \in Seq(E)
           /\ \A s \in Seq(E) : Cat(s, <<>>) = s /\ Cat(<<>>, s) = s
           /\ \A s, t \in Seq(E) : Cat(s, t) \in Seq(E)
           /\ \A s, t, u \in Seq(E) : Cat(Cat(s, t), u) = Cat(s, Cat(t, u))
           /\ \A s, t \in Seq(E), e \in E : Cat(s, Append(t, e)) = Append(Cat(s, t), e)
BY DEF Cat

LEMMA FlattenIs ==
    ASSUME NEW ss
    PROVE  FlattenSeq(ss) =
             IF Len(ss) = 0 THEN ss
             ELSE (CHOOSE F : F = [i \in 1..Len(ss) |->
                                     IF i = 1 THEN ss[i] ELSE F[i-1] \o ss[i]])[Len(ss)]
BY DEF FlattenSeq

LEMMA FlattenSteps ==
    ASSUME NEW E, NEW ss \in Seq(Seq(E))
    PROVE  \E g \in [0..Len(ss) -> Seq(E)] :
              /\ g[0] = <<>> /\ g[Len(ss)] = FlattenSeq(ss)
              /\ \A k \in 1..Len(ss) : g[k] = Cat(g[k - 1], ss[k])
<1> DEFINE n == Len(ss)
           V == Seq(E)
           base == <<>>
           step == [k \in 1..n |-> [v \in V |-> Cat(v, ss[k])]]
           Is(F) == F = [i \in 1..n |-> IF i = 1 THEN ss[i] ELSE Cat(F[i-1], ss[i])]
           F == CHOOSE G : Is(G)
<1>1. n \in Nat /\ base \in V /\ \A k \in 1..n : ss[k] \in V
  OBVIOUS
<1>2. FlattenSeq(ss) = IF n = 0 THEN ss ELSE F[n]
  BY FlattenIs DEF Cat
<1>3. n = 0 => ss = base
  OBVIOUS
<1>4. step \in StepsOf(n, V) /\ \A k \in 1..n : \A v \in V : step[k][v] = Cat(v, ss[k])
  <2> HIDE DEF n, V
  <2>1. \A v, x \in V : Cat(v, x) \in V
    BY CatFacts DEF V
  <2> QED BY <1>1, <2>1 DEF StepsOf
<1> HIDE DEF n, V, base, step, F, Is
<1>5. \A k \in 1..n : Cat(base, ss[k]) = ss[k]
  BY <1>1, CatFacts DEF base, V
<1>6. PICK g : GoesThrough(g, n, V, base, step)
  BY <1>1, <1>4, FoldSteps
<1>7. g \in [0..n -> V] /\ g[0] = base
  BY <1>6 DEF GoesThrough
<1>8. ASSUME NEW k \in 1..n PROVE g[k] = Cat(g[k - 1], ss[k])
  <2>1. g[k - 1] \in V
    BY <1>1, <1>7
  <2>2. g[k] = step[k][g[k - 1]]
    BY <1>6 DEF GoesThrough
  <2> QED BY <1>4, <2>1, <2>2
<1>9. n # 0 => g[1] = ss[1]
  <2>1. n # 0 => 1 \in 1..n /\ 1 - 1 = 0
    BY <1>1
  <2> QED BY <1>5, <1>7, <1>8, <2>1
<1>10. Is([k \in 1..n |-> g[k]])
  <2> DEFINE h == [k \in 1..n |-> g[k]]
  <2>1. \A k \in 1..n : k # 1 => k - 1 \in 1..n /\ h[k - 1] = g[k - 1]
    BY <1>1
  <2>2. \A k \in 1..n : h[k] = IF k = 1 THEN ss[k] ELSE Cat(h[k - 1], ss[k])
    BY <1>8, <1>9, <2>1
  <2>3. h = [k \in 1..n |-> h[k]]
    OBVIOUS
  <2> HIDE DEF h
  <2>4. h = [k \in 1..n |-> IF k = 1 THEN ss[k] ELSE Cat(h[k - 1], ss[k])]
    BY <2>2, <2>3
  <2>5. Is(h)
    BY <2>4 DEF Is
  <2> QED BY <2>5 DEF h
<1>11. Is(F)
  BY <1>10 DEF F
<1>12. \A k \in 1..n : F[k] = IF k = 1 THEN ss[k] ELSE Cat(F[k - 1], ss[k])
  BY <1>11 DEF Is
<1>13. n # 0 => g[n] = F[n]
  <2> DEFINE h == [k \in 0..n |-> IF k = 0 THEN base ELSE F[k]]
  <2>1. g[0] = h[0] /\ \A k \in 1..n : h[k] = F[k] /\ (k # 1 => h[k - 1] = F[k - 1])
    BY <1>1, <1>7
  <2> HIDE DEF h
  <2>2. \A k \in 1..n : g[k - 1] = h[k - 1] => g[k] = h[k]
    BY <1>8, <1>9, <1>12, <2>1
  <2>3. InStep(g, h, n)
    BY <2>1, <2>2 DEF InStep
  <2>4. \A k \in 0..n : g[k] = h[k]
    BY <1>1, <2>3, SameSteps
  <2>5. n # 0 => n \in 1..n /\ n \in 0..n
    BY <1>1
  <2> QED BY <2>1, <2>4, <2>5
<1>14. g[n] = FlattenSeq(ss)
  BY <1>2, <1>3, <1>7, <1>13
<1> QED BY <1>7, <1>8, <1>14 DEF base, V, n

LEMMA FlattenAppend ==
    ASSUME NEW E, NEW ss \in Seq(Seq(E)), NEW x \in Seq(E)
    PROVE  FlattenSeq(Append(ss, x)) = Cat(FlattenSeq(ss), x)
<1> DEFINE n == Len(ss)
           tt == Append(ss, x)
<1>1. /\ n \in Nat /\ tt \in Seq(Seq(E)) /\ Len(tt) = n + 1
      /\ tt[n + 1] = x /\ \A k \in 1..n : tt[k] = ss[k]
  OBVIOUS
<1> HIDE DEF tt, n
<1>2. PICK g : g \in [0..n -> Seq(E)] /\ g[0] = <<>> /\ g[n] = FlattenSeq(ss)
         /\ \A k \in 1..n : g[k] = Cat(g[k - 1], ss[k])
  BY FlattenSteps DEF n
<1>3. PICK h : h \in [0..n+1 -> Seq(E)] /\ h[0] = <<>> /\ h[n + 1] = FlattenSeq(tt)
         /\ \A k \in 1..n+1 : h[k] = Cat(h[k - 1], tt[k])
  <2>1. \E h \in [0..Len(tt) -> Seq(E)] :
         /\ h[0] = <<>> /\ h[Len(tt)] = FlattenSeq(tt)
         /\ \A k \in 1..Len(tt) : h[k] = Cat(h[k - 1], tt[k])
    BY <1>1, FlattenSteps
  <2> QED BY <1>1, <2>1
<1>4. \A k \in 1..n : g[k - 1] = h[k - 1] => g[k] = h[k]
  BY <1>1, <1>2, <1>3
<1>5. InStep(g, h, n)
  BY <1>2, <1>3, <1>4 DEF InStep
<1>6. \A k \in 0..n : g[k] = h[k]
  BY <1>1, <1>5, SameSteps
<1>7. h[n + 1] = Cat(h[n], x)
  BY <1>1, <1>3
<1> QED BY <1>1, <1>2, <1>3, <1>6, <1>7 DEF tt

LEMMA FlattenType ==
    ASSUME NEW E, NEW ss \in Seq(Seq(E))
    PROVE  FlattenSeq(ss) \in Seq(E) /\ (ss = <<>> => FlattenSeq(ss) = <<>>)
<1> DEFINE n == Len(ss)
<1>1. n \in Nat /\ n \in 0..n /\ (ss = <<>> => n = 0)
  OBVIOUS
<1> HIDE DEF n
<1>2. PICK g \in [0..n -> Seq(E)] : g[0] = <<>> /\ g[n] = FlattenSeq(ss)
  BY FlattenSteps DEF n
<1> QED BY <1>1, <1>2

-----------------------------------------------------------------------------
(* Payloads, deltas and texts: each element is mapped to a sequence, and    *)
(* the sequences are concatenated.                                         *)

MapSeq(f, s) == [k \in DOMAIN s |-> f[s[k]]]
FlatMap(f, s) == FlattenSeq(MapSeq(f, s))
Parts(D, E) == [D -> Seq(E)]

LEMMA MapFacts ==
    ASSUME NEW D, NEW E, NEW f \in Parts(D, E), NEW s \in Seq(D)
    PROVE  /\ MapSeq(f, s) \in Seq(Seq(E))
           /\ MapSeq(f, <<>>) = <<>>
           /\ \A d \in D : /\ MapSeq(f, Append(s, d)) = Append(MapSeq(f, s), f[d])
                           /\ f[d] \in Seq(E)
<1> DEFINE R == Seq(E)
<1>1. f \in [D -> R]
  BY DEF Parts
<1> HIDE DEF R
<1>2. MapSeq(f, s) \in Seq(R) /\ MapSeq(f, <<>>) = <<>>
  BY <1>1 DEF MapSeq
<1>3. ASSUME NEW d \in D
      PROVE  MapSeq(f, Append(s, d)) = Append(MapSeq(f, s), f[d])
  BY <1>1 DEF MapSeq
<1> QED BY <1>1, <1>2, <1>3 DEF R

LEMMA FlatMapAppend ==
    ASSUME NEW D, NEW E, NEW f \in Parts(D, E), NEW s \in Seq(D)
    PROVE  /\ FlatMap(f, s) \in Seq(E) /\ FlatMap(f, <<>>) = <<>>
           /\ \A d \in D : FlatMap(f, Append(s, d)) = Cat(FlatMap(f, s), f[d])
<1>1. MapSeq(f, s) \in Seq(Seq(E)) /\ MapSeq(f, <<>>) = <<>>
  BY MapFacts
<1>2. FlatMap(f, s) \in Seq(E)
  BY <1>1, FlattenType DEF FlatMap
<1>3. FlatMap(f, <<>>) = <<>>
  <2>1. <<>> \in Seq(Seq(E))
    OBVIOUS
  <2> QED BY <1>1, <2>1, FlattenType DEF FlatMap
<1>4. ASSUME NEW d \in D
      PROVE  FlatMap(f, Append(s, d)) = Cat(FlatMap(f, s), f[d])
  <2>1. MapSeq(f, Append(s, d)) = Append(MapSeq(f, s), f[d]) /\ f[d] \in Seq(E)
    BY MapFacts
  <2> QED BY <1>1, <2>1, FlattenAppend DEF FlatMap
<1> QED BY <1>2, <1>3, <1>4

LEMMA FlatMapCat ==
    ASSUME NEW D, NEW E, NEW f \in Parts(D, E), NEW s \in Seq(D), NEW t \in Seq(D)
    PROVE  FlatMap(f, Cat(s, t)) = Cat(FlatMap(f, s), FlatMap(f, t))
<1> DEFINE S == {u \in Seq(D) : FlatMap(f, Cat(s, u)) = Cat(FlatMap(f, s), FlatMap(f, u))}
<1>1. FlatMap(f, s) \in Seq(E) /\ FlatMap(f, <<>>) = <<>>
  BY FlatMapAppend
<1>2. <<>> \in S
  BY <1>1, CatFacts
<1>3. ASSUME NEW u \in Seq(D), u \in S, NEW d \in D PROVE Append(u, d) \in S
  <2>1. /\ Append(u, d) \in Seq(D) /\ Cat(s, u) \in Seq(D)
        /\ Cat(s, Append(u, d)) = Append(Cat(s, u), d)
    BY CatFacts
  <2>2. FlatMap(f, Append(Cat(s, u), d)) = Cat(FlatMap(f, Cat(s, u)), f[d])
    BY <2>1, FlatMapAppend
  <2>3. FlatMap(f, u) \in Seq(E) /\ FlatMap(f, Append(u, d)) = Cat(FlatMap(f, u), f[d])
    BY FlatMapAppend
  <2>4. f[d] \in Seq(E)
    BY MapFacts
  <2>5. Cat(Cat(FlatMap(f, s), FlatMap(f, u)), f[d])
           = Cat(FlatMap(f, s), Cat(FlatMap(f, u), f[d]))
    <3>1. \A a, b, c \in Seq(E) : Cat(Cat(a, b), c) = Cat(a, Cat(b, c))
      BY CatFacts
    <3> QED BY <1>1, <2>3, <2>4, <3>1
  <2> QED BY <1>3, <2>1, <2>2, <2>3, <2>5
<1> HIDE DEF S
<1>4. Seq(D) \subseteq S
  BY <1>2, <1>3, SequenceInduction
<1> QED BY <1>4 DEF S

\* s is how t begins.
Begins(s, t, E) == s \in Seq(E) /\ \E u \in Seq(E) : t = Cat(s, u)

LEMMA FlatMapBegins ==
    ASSUME NEW D, NEW E, NEW f \in Parts(D, E), NEW s, NEW t, Begins(s, t, D)
    PROVE  Begins(FlatMap(f, s), FlatMap(f, t), E)
<1>1. PICK u \in Seq(D) : t = Cat(s, u) /\ s \in Seq(D)
  BY DEF Begins
<1>2. /\ FlatMap(f, t) = Cat(FlatMap(f, s), FlatMap(f, u))
      /\ FlatMap(f, s) \in Seq(E) /\ FlatMap(f, u) \in Seq(E)
  BY <1>1, FlatMapCat, FlatMapAppend
<1> QED BY <1>2 DEF Begins

PayloadPart == [e \in Event |-> IF e.kind \in {"object", "null"} THEN <<e>> ELSE <<>>]
ChoicesPart == [c \in Event |-> c.choices]
TextPart(i) == [d \in Delta |-> IF Key(d) = i THEN d.text ELSE <<>>]
Text(deltas, i) ==
    FlattenSeq([k \in DOMAIN deltas |->
                  IF Key(deltas[k]) = i THEN deltas[k].text ELSE <<>>])

LEMMA PartsTypes ==
    /\ PayloadPart \in Parts(Event, Event)
    /\ ChoicesPart \in Parts(Event, Delta)
    /\ \A i : TextPart(i) \in Parts(Delta, Tokens)
<1>1. PayloadPart \in Parts(Event, Event)
  <2>1. \A e \in Event : <<e>> \in Seq(Event) /\ <<>> \in Seq(Event)
    OBVIOUS
  <2> QED BY <2>1 DEF PayloadPart, Parts
<1>2. ChoicesPart \in Parts(Event, Delta)
  <2>1. \A c \in Event : c.choices \in Seq(Delta)
    BY DEF Event
  <2> QED BY <2>1 DEF ChoicesPart, Parts
<1>3. ASSUME NEW i PROVE TextPart(i) \in Parts(Delta, Tokens)
  <2>1. \A d \in Delta : d.text \in Seq(Tokens) /\ <<>> \in Seq(Tokens)
    BY DEF Delta
  <2> QED BY <2>1 DEF TextPart, Parts
<1> QED BY <1>1, <1>2, <1>3

LEMMA PayloadsFlat ==
    ASSUME NEW s \in Seq(Event)
    PROVE  Payloads(s) = FlatMap(PayloadPart, s)
<1>1. \A k \in DOMAIN s : s[k] \in Event
  OBVIOUS
<1>2. MapSeq(PayloadPart, s) = [k \in DOMAIN s |->
                                 IF s[k].kind \in {"object", "null"} THEN <<s[k]>> ELSE <<>>]
  BY <1>1 DEF MapSeq, PayloadPart
<1> QED BY <1>2 DEF Payloads, FlatMap

LEMMA DeltasFlat ==
    ASSUME NEW s \in Seq(Event)
    PROVE  Deltas(s) = FlatMap(ChoicesPart, s)
<1>1. \A k \in DOMAIN s : s[k] \in Event
  OBVIOUS
<1>2. MapSeq(ChoicesPart, s) = [k \in DOMAIN s |-> s[k].choices]
  BY <1>1 DEF MapSeq, ChoicesPart
<1> QED BY <1>2 DEF Deltas, FlatMap

LEMMA TextFlat ==
    ASSUME NEW s \in Seq(Delta), NEW i
    PROVE  Text(s, i) = FlatMap(TextPart(i), s)
<1>1. \A k \in DOMAIN s : s[k] \in Delta
  OBVIOUS
<1>2. MapSeq(TextPart(i), s) = [k \in DOMAIN s |->
                                  IF Key(s[k]) = i THEN s[k].text ELSE <<>>]
  BY <1>1 DEF MapSeq, TextPart
<1> QED BY <1>2 DEF Text, FlatMap

\* A stream that begins like another one has the beginning of its payloads, of
\* their deltas, and of the text of every choice.
LEMMA StreamBegins ==
    ASSUME NEW s, NEW t, Begins(s, t, Event), t \in Seq(Event)
    PROVE  /\ Begins(Payloads(s), Payloads(t), Event)
           /\ Begins(Deltas(Payloads(s)), Deltas(Payloads(t)), Delta)
           /\ \A i : Begins(Text(Deltas(Payloads(s)), i), Text(Deltas(Payloads(t)), i), Tokens)
           /\ Payloads(t) \in Seq(Event) /\ Deltas(Payloads(t)) \in Seq(Delta)
<1>1. s \in Seq(Event)
  BY DEF Begins
<1>2. /\ Payloads(s) \in Seq(Event) /\ Payloads(t) \in Seq(Event)
      /\ Begins(Payloads(s), Payloads(t), Event)
  BY <1>1, PayloadsFlat, PartsTypes, FlatMapAppend, FlatMapBegins
<1>3. /\ Deltas(Payloads(s)) \in Seq(Delta) /\ Deltas(Payloads(t)) \in Seq(Delta)
      /\ Begins(Deltas(Payloads(s)), Deltas(Payloads(t)), Delta)
  BY <1>2, DeltasFlat, PartsTypes, FlatMapAppend, FlatMapBegins
<1>4. ASSUME NEW i
      PROVE  Begins(Text(Deltas(Payloads(s)), i), Text(Deltas(Payloads(t)), i), Tokens)
  BY <1>3, TextFlat, PartsTypes, FlatMapBegins
<1> QED BY <1>2, <1>3, <1>4

-----------------------------------------------------------------------------
(* MergeChoices.                                                           *)

Choice == [role : Values, text : Seq(Tokens), tools : Values, finish : Values]
ChoiceMaps == UNION {[D -> Choice] : D \in SUBSET Int}

LEMMA MapOfChoices ==
    ASSUME NEW m
    PROVE  m \in ChoiceMaps <=> /\ m = [i \in DOMAIN m |-> m[i]]
                                /\ DOMAIN m \subseteq Int
                                /\ \A i \in DOMAIN m : m[i] \in Choice
<1>1. ASSUME m \in ChoiceMaps
      PROVE  /\ m = [i \in DOMAIN m |-> m[i]]
             /\ DOMAIN m \subseteq Int
             /\ \A i \in DOMAIN m : m[i] \in Choice
  <2>1. PICK D \in SUBSET Int : m \in [D -> Choice]
    BY <1>1 DEF ChoiceMaps
  <2> QED BY <2>1
<1>2. ASSUME m = [i \in DOMAIN m |-> m[i]], DOMAIN m \subseteq Int,
             \A i \in DOMAIN m : m[i] \in Choice
      PROVE  m \in ChoiceMaps
  <2>1. m \in [DOMAIN m -> Choice]
    BY <1>2
  <2> QED BY <1>2, <2>1 DEF ChoiceMaps
<1> QED BY <1>1, <1>2

\* Whatever the number, it becomes an int.
LEMMA KeyType ==
    ASSUME NEW d \in Delta
    PROVE  Key(d) \in Int
<1>1. d.index \in Int /\ MaxInt \in Nat
  BY AssemblyAssumption DEF Delta
<1> QED BY <1>1 DEF Key, IntOf

LEMMA MergeDeltaType ==
    ASSUME NEW c \in Choice, NEW d \in Delta
    PROVE  MergeDelta(c, d) \in Choice /\ MergeDelta(c, d).text = Cat(c.text, d.text)
<1>1. c.text \o d.text \in Seq(Tokens)
  BY DEF Choice, Delta
<1> QED BY <1>1 DEF MergeDelta, Latest, Choice, Delta, Cat

LEMMA MergeIntoType ==
    ASSUME NEW m \in ChoiceMaps, NEW d \in Delta
    PROVE  MergeInto(m, d) \in ChoiceMaps
<1>1. NewChoice \in Choice
  BY AssemblyAssumption DEF NewChoice, Choice
<1>2. DOMAIN m \subseteq Int /\ (\A i \in DOMAIN m : m[i] \in Choice) /\ Key(d) \in Int
  BY MapOfChoices, KeyType
<1>3. \A c \in Choice : MergeDelta(c, d) \in Choice
  BY MergeDeltaType
<1> DEFINE mm == MergeInto(m, d)
<1>4. /\ mm = [i \in DOMAIN mm |-> mm[i]] /\ DOMAIN mm = DOMAIN m \cup {Key(d)}
      /\ \A i \in DOMAIN mm : mm[i] \in Choice
  BY <1>1, <1>2, <1>3 DEF MergeInto
<1> HIDE DEF mm
<1>5. mm \in ChoiceMaps
  BY <1>2, <1>4, MapOfChoices
<1> QED BY <1>5 DEF mm

LEMMA MergeIs ==
    ASSUME NEW s
    PROVE  MergeChoices(s) =
             (CHOOSE F : F = [w \in SUBSET (DOMAIN s) |->
                 IF w = {} THEN <<>>
                 ELSE MergeInto(F[w \ {Max(w)}], s[Max(w)])])[DOMAIN s]
BY DEF MergeChoices, FoldLeft, MapThenFoldSet

LEMMA MergeSteps ==
    ASSUME NEW s \in Seq(Delta)
    PROVE  \E g : /\ g[0] = <<>> /\ g[Len(s)] = MergeChoices(s)
                  /\ g \in [0..Len(s) -> ChoiceMaps]
                  /\ \A k \in 1..Len(s) : g[k] = MergeInto(g[k - 1], s[k])
<1> DEFINE n == Len(s)
           base == <<>>
           step == [k \in 1..n |-> [v \in ChoiceMaps |-> MergeInto(v, s[k])]]
           Is(F) == F = [w \in SUBSET (DOMAIN s) |-> IF w = {} THEN base
                                        ELSE MergeInto(F[w \ {Max(w)}], s[Max(w)])]
           F == CHOOSE G : Is(G)
<1>1. /\ n \in Nat /\ DOMAIN s = 1..n /\ \A k \in 1..n : s[k] \in Delta
      /\ \A k \in 1..n : k - 1 \in 0..n
  OBVIOUS
<1>2. base \in ChoiceMaps
  <2>1. DOMAIN base = {} /\ base = [i \in DOMAIN base |-> base[i]]
    OBVIOUS
  <2> HIDE DEF base
  <2> QED BY <2>1, MapOfChoices
<1>3. MergeChoices(s) = F[DOMAIN s]
  BY MergeIs
<1> HIDE DEF n
<1>4. step \in StepsOf(n, ChoiceMaps)
  BY <1>1, MergeIntoType DEF StepsOf
<1>5. \A v \in ChoiceMaps, k \in 1..n : step[k][v] = MergeInto(v, s[k])
  OBVIOUS
<1> HIDE DEF base, step
<1>6. \A w \in SUBSET (1..n) : w # {} => Max(w) \in 1..n
  BY <1>1, MaxOfSome
<1>7. PICK f : Solves(f, n, ChoiceMaps, base, step)
  BY <1>1, <1>2, <1>4, FoldExists
<1>8. Is(f)
  <2>1. \A w \in SUBSET (1..n) : w \ {Max(w)} \in SUBSET (1..n)
    OBVIOUS
  <2>2. \A w \in SUBSET (1..n) :
           f[w] = IF w = {} THEN base ELSE MergeInto(f[w \ {Max(w)}], s[Max(w)])
    BY <1>5, <1>6, <1>7, <2>1 DEF Solves
  <2> QED BY <1>1, <1>7, <2>2 DEF Solves
<1>9. Is(F)
  <2> HIDE DEF Is
  <2> QED BY <1>8
<1> HIDE DEF F
<1>10. SolvesIn(F, n, ChoiceMaps, base, step)
  BY <1>1, <1>5, <1>6, <1>9 DEF SolvesIn
<1> HIDE DEF Is
<1>11. PICK g : GoesThrough(g, n, ChoiceMaps, base, step) /\ g[n] = F[1..n]
  BY <1>1, <1>2, <1>4, <1>10, FoldGoes
<1>12. \A k \in 1..n : g[k - 1] \in ChoiceMaps /\ g[k] = MergeInto(g[k - 1], s[k])
  BY <1>1, <1>5, <1>11 DEF GoesThrough
<1> QED BY <1>1, <1>3, <1>11, <1>12 DEF GoesThrough, base, n

LEMMA MergeAppend ==
    ASSUME NEW s \in Seq(Delta), NEW d \in Delta
    PROVE  MergeChoices(Append(s, d)) = MergeInto(MergeChoices(s), d)
<1> DEFINE n == Len(s)
           t == Append(s, d)
<1>1. /\ n \in Nat /\ t \in Seq(Delta) /\ Len(t) = n + 1
      /\ t[n + 1] = d /\ \A k \in 1..n : t[k] = s[k]
  OBVIOUS
<1> HIDE DEF t, n
<1>2. PICK g : g[0] = <<>> /\ g[n] = MergeChoices(s)
               /\ \A k \in 1..n : g[k] = MergeInto(g[k - 1], s[k])
  BY MergeSteps DEF n
<1>3. PICK h : h[0] = <<>> /\ h[n + 1] = MergeChoices(t)
               /\ \A k \in 1..n+1 : h[k] = MergeInto(h[k - 1], t[k])
  <2>1. \E h : /\ h[0] = <<>> /\ h[Len(t)] = MergeChoices(t)
               /\ h \in [0..Len(t) -> ChoiceMaps]
               /\ \A k \in 1..Len(t) : h[k] = MergeInto(h[k - 1], t[k])
    BY <1>1, MergeSteps
  <2> QED BY <1>1, <2>1
<1>4. \A k \in 1..n : g[k - 1] = h[k - 1] => g[k] = h[k]
  BY <1>1, <1>2, <1>3
<1>5. InStep(g, h, n)
  BY <1>2, <1>3, <1>4 DEF InStep
<1>6. \A k \in 0..n : g[k] = h[k]
  BY <1>1, <1>5, SameSteps
<1>7. h[n + 1] = MergeInto(h[n], d)
  BY <1>1, <1>3
<1> QED BY <1>1, <1>2, <1>3, <1>6, <1>7 DEF t

LEMMA MergeType ==
    ASSUME NEW s \in Seq(Delta)
    PROVE  MergeChoices(s) \in ChoiceMaps /\ (s = <<>> => MergeChoices(s) = <<>>)
<1> DEFINE n == Len(s)
<1>1. n \in Nat /\ n \in 0..n /\ (s = <<>> => n = 0)
  OBVIOUS
<1> HIDE DEF n
<1>2. PICK g : /\ g[0] = <<>> /\ g[n] = MergeChoices(s)
               /\ g \in [0..n -> ChoiceMaps]
  BY MergeSteps DEF n
<1> QED BY <1>1, <1>2

IndexSet(deltas) == {Key(deltas[k]) : k \in DOMAIN deltas}

\* What the merge of s holds: the indices of s, and the text of each.
Merged(m, s) ==
    /\ m \in ChoiceMaps /\ DOMAIN m = IndexSet(s)
    /\ \A i \in DOMAIN m : m[i].text = Text(s, i)
    /\ \A i : i \notin DOMAIN m => Text(s, i) = <<>>

LEMMA TextAppend ==
    ASSUME NEW s \in Seq(Delta), NEW d \in Delta, NEW i
    PROVE  /\ Text(s, i) \in Seq(Tokens)
           /\ Text(Append(s, d), i) = IF Key(d) = i THEN Cat(Text(s, i), d.text)
                                      ELSE Text(s, i)
<1>1. TextPart(i) \in Parts(Delta, Tokens)
  BY PartsTypes
<1>2. Append(s, d) \in Seq(Delta)
  OBVIOUS
<1>3. /\ Text(s, i) \in Seq(Tokens)
      /\ Text(Append(s, d), i) = Cat(Text(s, i), TextPart(i)[d])
  <2>1. Text(s, i) = FlatMap(TextPart(i), s)
    BY TextFlat
  <2>2. Text(Append(s, d), i) = FlatMap(TextPart(i), Append(s, d))
    BY <1>2, TextFlat
  <2>3. /\ FlatMap(TextPart(i), s) \in Seq(Tokens)
        /\ FlatMap(TextPart(i), Append(s, d)) = Cat(FlatMap(TextPart(i), s), TextPart(i)[d])
    BY <1>1, FlatMapAppend
  <2> QED BY <2>1, <2>2, <2>3
<1>4. TextPart(i)[d] = IF Key(d) = i THEN d.text ELSE <<>>
  BY DEF TextPart
<1>5. Cat(Text(s, i), <<>>) = Text(s, i)
  BY <1>3, CatFacts
<1> QED BY <1>3, <1>4, <1>5

LEMMA IndexAppend ==
    ASSUME NEW s \in Seq(Delta), NEW d \in Delta
    PROVE  IndexSet(Append(s, d)) = IndexSet(s) \cup {Key(d)}
<1> DEFINE t == Append(s, d)
<1>1. /\ DOMAIN t = DOMAIN s \cup {Len(s) + 1} /\ t[Len(s) + 1] = d
      /\ \A k \in DOMAIN s : t[k] = s[k]
  OBVIOUS
<1> HIDE DEF t
<1>2. IndexSet(t) = IndexSet(s) \cup {Key(d)}
  BY <1>1 DEF IndexSet
<1> QED BY <1>2 DEF t

LEMMA MergedStep ==
    ASSUME NEW s \in Seq(Delta), NEW d \in Delta, NEW m, Merged(m, s)
    PROVE  Merged(MergeInto(m, d), Append(s, d))
<1> DEFINE mm == MergeInto(m, d)
           t == Append(s, d)
<1>1. mm \in ChoiceMaps /\ DOMAIN mm = DOMAIN m \cup {Key(d)}
  BY MergeIntoType DEF Merged, MergeInto
<1>2. IndexSet(t) = IndexSet(s) \cup {Key(d)}
  BY IndexAppend
<1>3. \A i \in DOMAIN m : i # Key(d) => mm[i] = m[i]
  BY DEF MergeInto
<1>4. mm[Key(d)].text = Text(t, Key(d))
  <2> DEFINE c == IF Key(d) \in DOMAIN m THEN m[Key(d)] ELSE NewChoice
  <2>1. mm[Key(d)] = MergeDelta(c, d)
    BY DEF MergeInto
  <2>2. c \in Choice /\ c.text = Text(s, Key(d))
    <3>1. NewChoice \in Choice /\ NewChoice.text = <<>>
      BY AssemblyAssumption DEF NewChoice, Choice
    <3>2. Key(d) \in DOMAIN m => m[Key(d)] \in Choice
      BY MapOfChoices DEF Merged
    <3> QED BY <3>1, <3>2 DEF Merged
  <2> HIDE DEF c, mm
  <2>3. MergeDelta(c, d).text = Cat(c.text, d.text)
    BY <2>2, MergeDeltaType
  <2> QED BY <2>1, <2>2, <2>3, TextAppend
<1> HIDE DEF mm, t
<1>5. ASSUME NEW i \in DOMAIN mm PROVE mm[i].text = Text(t, i)
  <2>1. CASE i = Key(d)
    BY <1>4, <2>1
  <2>2. CASE i # Key(d)
    <3>1. i \in DOMAIN m /\ mm[i] = m[i]
      BY <1>1, <1>3, <2>2
    <3>2. Text(t, i) = Text(s, i)
      BY <2>2, TextAppend DEF t
    <3> QED BY <3>1, <3>2 DEF Merged
  <2> QED BY <2>1, <2>2
<1>6. ASSUME NEW i, i \notin DOMAIN mm PROVE Text(t, i) = <<>>
  <2>1. i # Key(d) /\ i \notin DOMAIN m
    BY <1>1, <1>6
  <2>2. Text(t, i) = Text(s, i)
    BY <2>1, TextAppend DEF t
  <2> QED BY <2>1, <2>2 DEF Merged
<1>7. DOMAIN mm = IndexSet(t)
  BY <1>1, <1>2 DEF Merged
<1>8. Merged(mm, t)
  BY <1>1, <1>5, <1>6, <1>7 DEF Merged
<1> QED BY <1>8 DEF mm, t

\* However many deltas a stream has, the merge has a choice for each of their
\* indices, with the texts of the choice in the order of the stream.
THEOREM MergedText ==
    ASSUME NEW s \in Seq(Delta)
    PROVE  Merged(MergeChoices(s), s)
<1> DEFINE S == {t \in Seq(Delta) : Merged(MergeChoices(t), t)}
<1>1. <<>> \in S
  <2>1. <<>> \in Seq(Delta) /\ DOMAIN <<>> = {}
    OBVIOUS
  <2>2. MergeChoices(<<>>) \in ChoiceMaps /\ MergeChoices(<<>>) = <<>>
    BY <2>1, MergeType
  <2>3. IndexSet(<<>>) = {}
    BY <2>1 DEF IndexSet
  <2>4. ASSUME NEW i PROVE Text(<<>>, i) = <<>>
    <3>1. Text(<<>>, i) = FlatMap(TextPart(i), <<>>)
      BY <2>1, TextFlat
    <3>2. TextPart(i) \in Parts(Delta, Tokens)
      BY PartsTypes
    <3> QED BY <2>1, <3>1, <3>2, FlatMapAppend
  <2> QED BY <2>1, <2>2, <2>3, <2>4 DEF Merged
<1>2. ASSUME NEW t \in Seq(Delta), t \in S, NEW d \in Delta PROVE Append(t, d) \in S
  <2>1. /\ Append(t, d) \in Seq(Delta)
        /\ MergeChoices(Append(t, d)) = MergeInto(MergeChoices(t), d)
    BY MergeAppend
  <2> QED BY <1>2, <2>1, MergedStep
<1> HIDE DEF S
<1>3. Seq(Delta) \subseteq S
  BY <1>1, <1>2, SequenceInduction
<1> QED BY <1>3 DEF S

-----------------------------------------------------------------------------
(* The choices that are shown.                                             *)

LEMMA IndicesFinite ==
    ASSUME NEW s \in Seq(Delta)
    PROVE  IsFiniteSet(IndexSet(s))
<1> DEFINE S == {t \in Seq(Delta) : IsFiniteSet(IndexSet(t))}
<1>1. <<>> \in S
  <2>1. <<>> \in Seq(Delta) /\ DOMAIN <<>> = {}
    OBVIOUS
  <2>2. IndexSet(<<>>) = {}
    BY <2>1 DEF IndexSet
  <2> QED BY <2>1, <2>2, FS_EmptySet
<1>2. ASSUME NEW t \in Seq(Delta), t \in S, NEW d \in Delta PROVE Append(t, d) \in S
  <2>1. Append(t, d) \in Seq(Delta) /\ IndexSet(Append(t, d)) = IndexSet(t) \cup {Key(d)}
    BY IndexAppend
  <2> QED BY <1>2, <2>1, FS_AddElement
<1> HIDE DEF S
<1>3. Seq(Delta) \subseteq S
  BY <1>1, <1>2, SequenceInduction
<1> QED BY <1>3 DEF S

LEMMA GapBelow ==
    ASSUME NEW S, IsFiniteSet(S), NEW i \in Nat, i >= Cardinality(S)
    PROVE  \E k \in 0..i : k \notin S
<1> SUFFICES ASSUME 0..i \in SUBSET S PROVE FALSE
  OBVIOUS
<1>1. Cardinality(0..i) = i + 1
  BY FS_Interval
<1>2. Cardinality(0..i) <= Cardinality(S) /\ Cardinality(S) \in Nat
  BY FS_Subset, FS_CardinalityType
<1> QED BY <1>1, <1>2

\* A chat state shows the text of every choice it has; a choice that is
\* not a negative one is left out only behind a gap, an index no delta has.
THEOREM ChatAssembled ==
    ASSUME NEW chunks \in Seq(Event), AssembleChat(chunks).kind = "chat"
    PROVE  LET choices == AssembleChat(chunks).choices
               ds == Deltas(chunks)
           IN  /\ \A i \in DOMAIN choices : choices[i].text = Text(ds, i)
               /\ \A i \in IndexSet(ds) \ DOMAIN choices : i >= 0 =>
                     \E k \in 0..i : k \notin IndexSet(ds)
<1> DEFINE choices == AssembleChat(chunks).choices
           ds == Deltas(chunks)
           m == MergeChoices(ds)
<1>1. ds \in Seq(Delta)
  BY DeltasFlat, PartsTypes, FlatMapAppend
<1>2. choices = ShownChoices(m)
  BY DEF AssembleChat, Null, Nothing
<1> HIDE DEF choices, ds, m
<1>3. Merged(m, ds)
  BY <1>1, MergedText DEF m
<1>4. ASSUME NEW i \in DOMAIN choices PROVE choices[i].text = Text(ds, i)
  BY <1>2, <1>3 DEF ShownChoices, Merged
<1>5. ASSUME NEW i \in IndexSet(ds) \ DOMAIN choices, i >= 0
      PROVE  \E k \in 0..i : k \notin IndexSet(ds)
  <2>1. i \in Nat
    <3>1. i \in Int
      BY <1>3, MapOfChoices DEF Merged
    <3> QED BY <1>5, <3>1
  <2>2. IsFiniteSet(IndexSet(ds)) /\ Cardinality(IndexSet(ds)) \in Nat
    BY <1>1, IndicesFinite, FS_CardinalityType
  <2>3. i \notin 0..(Cardinality(IndexSet(ds)) - 1)
    BY <1>2, <1>3 DEF ShownChoices, Merged
  <2>4. i >= Cardinality(IndexSet(ds))
    BY <2>1, <2>2, <2>3
  <2> QED BY <2>1, <2>2, <2>4, GapBelow
<1> QED BY <1>4, <1>5 DEF choices, ds

-----------------------------------------------------------------------------
(* The events the parser reads, and the one that decides.                  *)

LEMMA BeginsIs ==
    ASSUME NEW E, NEW s \in Seq(E), NEW t \in Seq(E)
    PROVE  Begins(s, t, E) <=> /\ Len(s) <= Len(t)
                               /\ \A k \in 1..Len(s) : s[k] = t[k]
<1>1. ASSUME NEW u \in Seq(E), t = Cat(s, u)
      PROVE  Len(s) <= Len(t) /\ \A k \in 1..Len(s) : s[k] = t[k]
  BY <1>1 DEF Cat
<1>2. ASSUME Len(s) <= Len(t), \A k \in 1..Len(s) : s[k] = t[k]
      PROVE  \E u \in Seq(E) : t = Cat(s, u)
  <2> DEFINE u == SubSeq(t, Len(s) + 1, Len(t))
  <2>1. /\ u \in Seq(E) /\ Len(u) = Len(t) - Len(s)
        /\ \A k \in 1..Len(u) : u[k] = t[Len(s) + k]
    BY <1>2
  <2> HIDE DEF u
  <2> DEFINE v == s \o u
  <2>2. v \in Seq(E) /\ Len(v) = Len(t) /\ \A k \in 1..Len(t) : v[k] = t[k]
    BY <1>2, <2>1
  <2> HIDE DEF v
  <2>3. v = [k \in 1..Len(v) |-> v[k]] /\ t = [k \in 1..Len(t) |-> t[k]]
    BY <2>2
  <2>4. v = t
    BY <2>2, <2>3
  <2> QED BY <2>1, <2>4 DEF Cat, v
<1> QED BY <1>1, <1>2 DEF Begins

LEMMA MinOfSome ==
    ASSUME NEW n \in Nat, NEW w \in SUBSET (1..n), w # {}
    PROVE  Min(w) \in w /\ \A k \in w : Min(w) <= k
<1>1. w \subseteq Nat
  OBVIOUS
<1>2. PICK x \in w : \A y \in w : x <= y
  BY <1>1, LeastNumber
<1> QED BY <1>2 DEF Min

Unreadable(s) == {i \in 1..Len(s) : s[i].kind = "unreadable"}
Completed(s) == {i \in 1..Len(s) : s[i].completed}

LEMMA ReadableIs ==
    ASSUME NEW s
    PROVE  ReadableEvents(s) = IF Unreadable(s) = {} THEN s
                               ELSE IF Min(Unreadable(s)) = 0 THEN s
                               ELSE SubSeq(s, 1, Min(Unreadable(s)) - 1)
BY DEF ReadableEvents, SelectInSeq, Unreadable

LEMMA AssembledIs ==
    ASSUME NEW s
    PROVE  LET es == ReadableEvents(s)
           IN  AssembleFinalState(s) =
                 IF Completed(es) = {} \/ Min(Completed(es)) = 0
                 THEN AssembleChat(Payloads(es))
                 ELSE ExtractResponse(es[Min(Completed(es))])
BY DEF AssembleFinalState, SelectInSeq, Completed

\* The events before the first unreadable one.
LEMMA ReadableFacts ==
    ASSUME NEW s \in Seq(Event)
    PROVE  LET es == ReadableEvents(s)
           IN  /\ es \in Seq(Event) /\ Len(es) <= Len(s)
               /\ \A k \in 1..Len(es) : es[k] = s[k] /\ s[k].kind # "unreadable"
               /\ Len(es) # Len(s) => s[Len(es) + 1].kind = "unreadable"
<1>1. CASE Unreadable(s) = {}
  <2>1. ReadableEvents(s) = s
    BY <1>1, ReadableIs
  <2>2. \A k \in 1..Len(s) : s[k].kind # "unreadable"
    BY <1>1 DEF Unreadable
  <2> QED BY <2>1, <2>2
<1>2. CASE Unreadable(s) # {}
  <2> DEFINE bad == Min(Unreadable(s))
  <2>1. bad \in Unreadable(s) /\ \A k \in Unreadable(s) : bad <= k
    <3>1. Unreadable(s) \in SUBSET (1..Len(s)) /\ Len(s) \in Nat
      BY DEF Unreadable
    <3> QED BY <1>2, <3>1, MinOfSome
  <2>2. bad \in 1..Len(s) /\ s[bad].kind = "unreadable"
    BY <2>1 DEF Unreadable
  <2>3. ReadableEvents(s) = SubSeq(s, 1, bad - 1)
    BY <1>2, <2>2, ReadableIs
  <2> HIDE DEF bad
  <2>4. \A k \in 1..bad-1 : s[k].kind # "unreadable"
    BY <2>1, <2>2 DEF Unreadable
  <2> DEFINE read == SubSeq(s, 1, bad - 1)
  <2>5. /\ read \in Seq(Event) /\ Len(read) = bad - 1
        /\ \A k \in 1..bad-1 : read[k] = s[k]
    BY <2>2
  <2>6. Len(s) \in Nat /\ bad \in Nat /\ bad - 1 <= Len(s) /\ (bad - 1) + 1 = bad
    BY <2>2
  <2>7. ReadableEvents(s) = read
    BY <2>3
  <2> HIDE DEF read
  <2>8. /\ read \in Seq(Event) /\ Len(read) <= Len(s)
        /\ \A k \in 1..Len(read) : read[k] = s[k] /\ s[k].kind # "unreadable"
        /\ s[Len(read) + 1].kind = "unreadable"
    BY <2>2, <2>4, <2>5, <2>6
  <2> QED BY <2>7, <2>8
<1> QED BY <1>1, <1>2

\* A stream that begins like another one is read like it as far as it goes.
LEMMA ReadableBegins ==
    ASSUME NEW s \in Seq(Event), NEW t \in Seq(Event), Begins(s, t, Event)
    PROVE  /\ Begins(ReadableEvents(s), ReadableEvents(t), Event)
           /\ Begins(ReadableEvents(t), t, Event)
<1> DEFINE es == ReadableEvents(s)
           et == ReadableEvents(t)
<1>1. Len(s) <= Len(t) /\ \A k \in 1..Len(s) : s[k] = t[k]
  BY BeginsIs
<1>2. /\ es \in Seq(Event) /\ Len(es) <= Len(s)
      /\ \A k \in 1..Len(es) : es[k] = s[k] /\ s[k].kind # "unreadable"
  BY ReadableFacts
<1>3. /\ et \in Seq(Event) /\ Len(et) <= Len(t)
      /\ \A k \in 1..Len(et) : et[k] = t[k]
      /\ Len(et) # Len(t) => t[Len(et) + 1].kind = "unreadable"
  BY ReadableFacts
<1> HIDE DEF es, et
<1>4. Len(es) <= Len(et)
  <2> SUFFICES ASSUME Len(et) < Len(es) PROVE FALSE
    BY <1>2, <1>3
  <2>1. Len(et) + 1 \in 1..Len(es) /\ Len(et) # Len(t)
    BY <1>1, <1>2, <1>3
  <2>2. s[Len(et) + 1] = t[Len(et) + 1]
    BY <1>1, <1>2, <2>1
  <2> QED BY <1>2, <1>3, <2>1, <2>2
<1>5. \A k \in 1..Len(es) : es[k] = et[k]
  BY <1>1, <1>2, <1>3, <1>4
<1>6. Begins(es, et, Event) /\ Begins(et, t, Event)
  BY <1>2, <1>3, <1>4, <1>5, BeginsIs
<1> QED BY <1>6 DEF es, et
=============================================================================
