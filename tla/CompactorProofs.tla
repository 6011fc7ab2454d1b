-------------------------- MODULE CompactorProofs --------------------------
(***************************************************************************)
(* What compaction preserves, for every history and every configuration:   *)
(* the types, the first message, the pairing of calls and results and the  *)
(* last round; and that the loops of compactor.py compute it.              *)
(***************************************************************************)
EXTENDS CompactorCode, TLAPS, FiniteSetTheorems, SequenceTheorems,
        WellFoundedInduction

-----------------------------------------------------------------------------
(* Least elements.                                                         *)

\* A nonempty set of naturals has a least element.
LEMMA LeastNatural ==
  ASSUME NEW S, S \subseteq Nat, S # {}
  PROVE  \E x \in S : \A y \in S : x <= y
<1>1. \E x \in S : \A y \in S : << y, x >> \notin OpToRel(<, Nat)
  BY NatLessThanWellFounded, WFMin
<1>2. PICK x \in S : \A y \in S : << y, x >> \notin OpToRel(<, Nat)
  BY <1>1
<1>3. ASSUME NEW y \in S
      PROVE  x <= y
  <2>1. << y, x >> \notin {ss \in Nat \X Nat : ss[1] < ss[2]}
    BY <1>2 DEF OpToRel
  <2>2. x \in Nat /\ y \in Nat
    OBVIOUS
  <2>3. ~ (y < x)
    BY <2>1, <2>2
  <2>4. QED
    BY <2>2, <2>3
<1>4. QED
  BY <1>3

-----------------------------------------------------------------------------
(* Induction and recursive functions.                                      *)

\* Equality of sequences, element by element.
LEMMA SameSequence ==
  ASSUME NEW S, NEW s \in Seq(S), NEW t \in Seq(S), Len(s) = Len(t),
         \A i \in 1..Len(s) : s[i] = t[i]
  PROVE  s = t
OBVIOUS

\* Induction, over a set of naturals: of no predicate, which no prover could
\* instantiate.
LEMMA NaturalInduction ==
  ASSUME NEW S, 0 \in S, \A n \in Nat : n \in S => n + 1 \in S
  PROVE  Nat \subseteq S
<1> SUFFICES ASSUME Nat \ S # {}
             PROVE  FALSE
  OBVIOUS
<1>1. PICK n \in Nat \ S : \A m \in Nat \ S : n <= m
  BY LeastNatural
<1>2. n - 1 \in Nat /\ n - 1 \notin Nat \ S
  BY <1>1
<1>3. (n - 1) + 1 \in S
  BY <1>2
<1> QED
  BY <1>1, <1>3

\* The first n iterates of the step function G from b.
Iteration(f, n, b, G) ==
  /\ f[0] = b
  /\ \A i \in 1..n : f[i] = G[<< i, f[i - 1] >>]

\* A step function can be iterated: what makes the recursive functions of the
\* model well defined.
LEMMA Iterates ==
  ASSUME NEW n \in Nat, NEW T, NEW b \in T,
         NEW G \in [(1..n) \X T -> T]
  PROVE  \E f \in [0..n -> T] : Iteration(f, n, b, G)
<1> DEFINE Upto(f, m) == f[0] = b /\ \A i \in 1..m : f[i] = G[<< i, f[i - 1] >>]
           N == {m \in Nat : m <= n => \E f \in [0..n -> T] : Upto(f, m)}
<1>1. 0 \in N
  <2> DEFINE f == [i \in 0..n |-> b]
  <2>1. f \in [0..n -> T] /\ Upto(f, 0)
    OBVIOUS
  <2> QED
    BY <2>1
<1>2. ASSUME NEW m \in Nat, m \in N
      PROVE  m + 1 \in N
  <2> SUFFICES ASSUME m + 1 <= n
               PROVE  \E f \in [0..n -> T] : Upto(f, m + 1)
    OBVIOUS
  <2>1. PICK f \in [0..n -> T] : Upto(f, m)
    BY <1>2
  <2> DEFINE g == [f EXCEPT ![m + 1] = G[<< m + 1, f[m] >>]]
  <2>2. G[<< m + 1, f[m] >>] \in T
    OBVIOUS
  <2>3. g \in [0..n -> T]
    BY <2>2
  <2>4. g[0] = b
    BY <2>1
  <2>5. ASSUME NEW i \in 1..(m + 1)
        PROVE  g[i] = G[<< i, g[i - 1] >>]
    <3>1. i \in 0..n /\ i - 1 \in 0..n /\ g[i - 1] = f[i - 1]
      OBVIOUS
    <3>2. CASE i = m + 1
      BY SMTT(30), <3>1, <3>2
    <3>3. CASE i # m + 1
      <4>1. g[i] = f[i] /\ f[i] = G[<< i, f[i - 1] >>]
        BY <2>1, <3>1, <3>3
      <4> QED
        BY <3>1, <4>1
    <3> QED
      BY <3>2, <3>3
  <2> HIDE DEF g
  <2> QED
    BY <2>3, <2>4, <2>5
<1>3. n \in N
  <2> HIDE DEF N
  <2> QED
    BY <1>1, <1>2, NaturalInduction
<1> QED
  BY <1>3 DEF Iteration

\* FlattenSeq through its partial results.
FlatParts(f, s) ==
  /\ f[0] = << >>
  /\ \A i \in 1..Len(s) : f[i] = f[i - 1] \o s[i]

\* There are such partial results, as flattening is a recursive function.
LEMMA FlattenParts ==
  ASSUME NEW T, NEW s \in Seq(Seq(T))
  PROVE  \E f \in [0..Len(s) -> Seq(T)] :
            FlatParts(f, s) /\ FlattenSeq(s) = f[Len(s)]
<1> DEFINE n == Len(s)
           G == [p \in (1..n) \X Seq(T) |-> p[2] \o s[p[1]]]
<1>1. n \in Nat
  OBVIOUS
<1>2. \A i \in 1..n : s[i] \in Seq(T)
  OBVIOUS
<1>3. << >> \in Seq(T)
  OBVIOUS
<1> HIDE DEF n
<1>4. ASSUME NEW i \in 1..n, NEW t \in Seq(T)
      PROVE  G[<< i, t >>] = t \o s[i] /\ t \o s[i] \in Seq(T)
  <2>1. s[i] \in Seq(T)
    BY <1>2
  <2>2. << i, t >> \in (1..n) \X Seq(T)
    OBVIOUS
  <2> QED
    BY <2>1, <2>2
<1>5. G \in [(1..n) \X Seq(T) -> Seq(T)]
  <2> SUFFICES ASSUME NEW p \in (1..n) \X Seq(T)
               PROVE  p[2] \o s[p[1]] \in Seq(T)
    OBVIOUS
  <2>1. s[p[1]] \in Seq(T) /\ p[2] \in Seq(T)
    BY <1>2
  <2> QED
    BY <2>1
<1> HIDE DEF G
<1>6. PICK f \in [0..n -> Seq(T)] :
         f[0] = << >> /\ \A i \in 1..n : f[i] = G[<< i, f[i - 1] >>]
  <2> DEFINE TT == Seq(T)
             b == << >>
  <2>1. b \in TT
    BY <1>3
  <2>3. G \in [(1..n) \X TT -> TT]
    BY <1>5
  <2> HIDE DEF TT, b
  <2>2. \E f \in [0..n -> TT] : Iteration(f, n, b, G)
    BY <1>1, <2>1, <2>3, Iterates
  <2> QED
    BY <2>2 DEF TT, b, Iteration
<1>7. ASSUME NEW i \in 1..n
      PROVE  f[i] = f[i - 1] \o s[i]
  <2>1. i - 1 \in 0..n
    BY <1>1
  <2> QED
    BY <1>4, <1>6, <2>1
<1>8. FlatParts(f, s)
  BY <1>6, <1>7 DEF FlatParts, n
<1>0. n # 0 => f[1] = s[1]
  <2> SUFFICES ASSUME n # 0
               PROVE  f[1] = s[1]
    OBVIOUS
  <2>1. 1 \in 1..n
    BY <1>1
  <2>2. f[1] = f[1 - 1] \o s[1]
    BY <1>7, <2>1, Zenon
  <2>3. f[1 - 1] = << >>
    BY <1>6
  <2>4. s[1] \in Seq(T)
    BY <1>2, <2>1
  <2>5. f[1] = << >> \o s[1]
    BY <2>2, <2>3
  <2> QED
    BY <2>4, <2>5
<1>9. ASSUME n # 0
      PROVE  FlattenSeq(s) = f[n]
  <2> DEFINE Body(g, i) == IF i = 1 THEN s[i] ELSE g[i - 1] \o s[i]
             It == CHOOSE g : g = [i \in 1..n |-> Body(g, i)]
             e == [i \in 1..n |-> f[i]]
  <2>1. FlattenSeq(s) = It[n]
    BY <1>9 DEF FlattenSeq, n
  <2>2. ASSUME NEW i \in 1..n
        PROVE  e[i] = Body(e, i)
    <3>1. CASE i = 1
      BY <1>0, <1>9, <3>1
    <3>2. CASE i # 1
      <4>1. i - 1 \in 1..n /\ e[i - 1] = f[i - 1]
        BY <1>1, <3>2
      <4> QED
        BY <1>7, <3>2, <4>1
    <3> QED
      BY <3>1, <3>2
  <2>3. e = [i \in 1..n |-> Body(e, i)]
    BY <2>2
  <2>4. It = [i \in 1..n |-> Body(It, i)]
    <3> HIDE DEF e
    <3> QED
      BY <2>3
  <2> HIDE DEF It, e
  <2>5. \A i \in 1..n : It[i] = Body(It, i)
    BY <2>4
  <2> DEFINE N == {i \in Nat : i + 1 <= n => It[i + 1] = f[i + 1]}
  <2>6. 0 \in N
    <3> SUFFICES ASSUME 1 <= n
                 PROVE  It[1] = f[1]
      OBVIOUS
    <3>1. 1 \in 1..n
      BY <1>1
    <3> QED
      BY <1>0, <1>9, <2>5, <3>1
  <2>7. ASSUME NEW i \in Nat, i \in N
        PROVE  i + 1 \in N
    <3> SUFFICES ASSUME i + 2 <= n
                 PROVE  It[i + 2] = f[i + 2]
      OBVIOUS
    <3>1. i + 2 \in 1..n /\ i + 2 # 1 /\ (i + 2) - 1 = i + 1 /\ i + 1 <= n
      BY <1>1
    <3>2. It[i + 2] = It[i + 1] \o s[i + 2]
      BY <2>5, <3>1
    <3>3. f[i + 2] = f[i + 1] \o s[i + 2]
      BY <1>7, <3>1
    <3> QED
      BY <2>7, <3>1, <3>2, <3>3
  <2> HIDE DEF N
  <2>8. n - 1 \in N
    <3>1. Nat \subseteq N
      BY <2>6, <2>7, NaturalInduction
    <3> QED
      BY <1>1, <1>9, <3>1
  <2>9. It[n] = f[n]
    BY <1>1, <1>9, <2>8 DEF N
  <2> QED
    BY <2>1, <2>9
<1>10. CASE n = 0
  BY <1>6, <1>8, <1>10 DEF FlattenSeq, n
<1> QED
  BY <1>8, <1>9, <1>10 DEF n

\* The m elements of s behind c are those of t behind d.
Alike(s, c, t, d, m) ==
  /\ c \in Nat /\ d \in Nat /\ m \in Nat
  /\ c + m <= Len(s) /\ d + m <= Len(t)
  /\ \A i \in 1..m : s[c + i] = t[d + i]

\* Concatenation; the provers do better when they need not look into it.
Join(x, y) == x \o y

\* The partial results of FlattenSeq as a function of the sequence.
Flat(T, s) ==
  CHOOSE f \in [0..Len(s) -> Seq(T)] :
     FlatParts(f, s) /\ FlattenSeq(s) = f[Len(s)]

\* What is known of it.
LEMMA FlatStep ==
  ASSUME NEW T, NEW s \in Seq(Seq(T))
  PROVE  /\ Flat(T, s) \in [0..Len(s) -> Seq(T)]
         /\ Flat(T, s)[0] = << >>
         /\ \A i \in 1..Len(s) : Flat(T, s)[i] = Join(Flat(T, s)[i - 1], s[i])
         /\ FlattenSeq(s) = Flat(T, s)[Len(s)]
         /\ FlattenSeq(s) \in Seq(T)
<1>1. /\ Flat(T, s) \in [0..Len(s) -> Seq(T)]
      /\ FlatParts(Flat(T, s), s)
      /\ FlattenSeq(s) = Flat(T, s)[Len(s)]
  BY FlattenParts DEF Flat
<1> QED
  BY SMTT(30), <1>1 DEF FlatParts, Join

\* Sequences under concatenation.
LEMMA Associative ==
  ASSUME NEW T, NEW x \in Seq(T), NEW y \in Seq(T), NEW z \in Seq(T)
  PROVE  Join(Join(x, y), z) = Join(x, Join(y, z))
BY DEF Join

\* The empty sequence adds nothing.
LEMMA EmptyNeutral ==
  ASSUME NEW T, NEW x \in Seq(T)
  PROVE  Join(x, << >>) = x /\ Join(<< >>, x) = x
BY DEF Join

\* Where two sequences of sequences run alike, their partial results differ by
\* what comes before.
LEMMA FlatTail ==
  ASSUME NEW T, NEW s \in Seq(Seq(T)), NEW t \in Seq(Seq(T)),
         NEW c, NEW d, NEW m, Alike(s, c, t, d, m),
         NEW u \in Seq(T), Flat(T, s)[c] = Join(u, Flat(T, t)[d])
  PROVE  Flat(T, s)[c + m] = Join(u, Flat(T, t)[d + m])
<1> DEFINE f == Flat(T, s)
           g == Flat(T, t)
           N == {k \in Nat : k <= m => f[c + k] = Join(u, g[d + k])}
<1>1. /\ f \in [0..Len(s) -> Seq(T)] /\ g \in [0..Len(t) -> Seq(T)]
      /\ \A i \in 1..Len(s) : f[i] = Join(f[i - 1], s[i])
      /\ \A i \in 1..Len(t) : g[i] = Join(g[i - 1], t[i])
      /\ f[c] = Join(u, g[d])
  BY FlatStep
<1>2. /\ c \in Nat /\ d \in Nat /\ m \in Nat
      /\ c + m <= Len(s) /\ d + m <= Len(t)
      /\ \A i \in 1..m : s[c + i] = t[d + i]
  BY DEF Alike
<1> HIDE DEF f, g
<1>3. 0 \in N
  BY <1>1, <1>2
<1>4. ASSUME NEW k \in Nat, k \in N
      PROVE  k + 1 \in N
  <2> SUFFICES ASSUME k + 1 <= m
               PROVE  f[c + (k + 1)] = Join(u, g[d + (k + 1)])
    OBVIOUS
  <2>1. /\ c + (k + 1) \in 1..Len(s) /\ (c + (k + 1)) - 1 = c + k
        /\ d + (k + 1) \in 1..Len(t) /\ (d + (k + 1)) - 1 = d + k
        /\ d + k \in 0..Len(t) /\ k + 1 \in 1..m
    BY <1>2
  <2>2. f[c + (k + 1)] = Join(f[c + k], s[c + (k + 1)])
    BY <1>1, <2>1
  <2>3. g[d + (k + 1)] = Join(g[d + k], t[d + (k + 1)])
    BY <1>1, <2>1
  <2>4. f[c + k] = Join(u, g[d + k])
    BY <1>2, <1>4
  <2>5. s[c + (k + 1)] = t[d + (k + 1)]
    BY <1>2, <2>1
  <2>6. g[d + k] \in Seq(T)
    BY <1>1, <2>1
  <2>7. t[d + (k + 1)] \in Seq(T)
    BY <2>1
  <2>8. Join(Join(u, g[d + k]), t[d + (k + 1)])
          = Join(u, Join(g[d + k], t[d + (k + 1)]))
    BY <2>6, <2>7, Associative
  <2> QED
    BY <2>2, <2>3, <2>4, <2>5, <2>8
<1>5. m \in N
  <2> HIDE DEF N
  <2>1. Nat \subseteq N
    BY <1>3, <1>4, NaturalInduction
  <2> QED
    BY <1>2, <2>1
<1> QED
  BY <1>2, <1>5 DEF f, g

\* The case of equal beginnings.
LEMMA FlatSame ==
  ASSUME NEW T, NEW s \in Seq(Seq(T)), NEW t \in Seq(Seq(T)),
         NEW m, Alike(s, 0, t, 0, m)
  PROVE  Flat(T, s)[m] = Flat(T, t)[m] /\ Flat(T, s)[m] \in Seq(T)
<1>1. PICK z : z = 0
  OBVIOUS
<1>2. PICK e \in Seq(T) : e = << >>
  <2>1. << >> \in Seq(T)
    OBVIOUS
  <2> QED
    BY <2>1, Zenon
<1>3. Flat(T, s)[z] = e /\ Flat(T, t)[z] = e
  BY <1>1, <1>2, FlatStep
<1>4. Flat(T, s)[z] = Join(e, Flat(T, t)[z])
  BY <1>2, <1>3, EmptyNeutral
<1>5. Alike(s, z, t, z, m)
  BY <1>1
<1>6. Flat(T, s)[z + m] = Join(e, Flat(T, t)[z + m])
  BY <1>4, <1>5, FlatTail
<1>7. m \in 0..Len(s) /\ m \in 0..Len(t) /\ z + m = m
  BY <1>1 DEF Alike
<1>8. Flat(T, s)[m] \in Seq(T) /\ Flat(T, t)[m] \in Seq(T)
  BY <1>7, FlatStep
<1> QED
  BY <1>2, <1>6, <1>7, <1>8, EmptyNeutral

\* One more element is flattened last.
LEMMA FlattenAppend ==
  ASSUME NEW T, NEW s \in Seq(Seq(T)), NEW x \in Seq(T)
  PROVE  FlattenSeq(Append(s, x)) = Join(FlattenSeq(s), x)
<1> DEFINE t == Append(s, x)
           n == Len(s)
<1>1. /\ t \in Seq(Seq(T)) /\ Len(t) = n + 1 /\ t[n + 1] = x
      /\ Alike(s, 0, t, 0, n) /\ n \in Nat
  BY DEF Alike
<1> HIDE DEF t
<1>2. Flat(T, s)[n] = Flat(T, t)[n]
  BY <1>1, FlatSame
<1>3. n + 1 \in 1..Len(t) /\ (n + 1) - 1 = n
  BY <1>1
<1>4. Flat(T, t)[n + 1] = Join(Flat(T, t)[(n + 1) - 1], t[n + 1])
  BY <1>1, <1>3, FlatStep
<1>5. FlattenSeq(s) = Flat(T, s)[n] /\ FlattenSeq(t) = Flat(T, t)[n + 1]
  BY <1>1, FlatStep
<1> QED
  BY <1>1, <1>2, <1>3, <1>4, <1>5 DEF t

\* Flattening in two parts.
LEMMA FlattenTwo ==
  ASSUME NEW T, NEW s \in Seq(Seq(T)), NEW n \in 0..Len(s)
  PROVE  FlattenSeq(s) = Join(FlattenSeq(SubSeq(s, 1, n)),
                              FlattenSeq(SubSeq(s, n + 1, Len(s))))
<1> DEFINE t == SubSeq(s, 1, n)
           r == SubSeq(s, n + 1, Len(s))
           m == Len(s) - n
<1>1. /\ t \in Seq(Seq(T)) /\ Len(t) = n /\ n \in Nat /\ m \in Nat /\ n + m = Len(s)
      /\ Alike(s, 0, t, 0, n)
  BY DEF Alike
<1>2. /\ r \in Seq(Seq(T)) /\ Len(r) = m /\ 0 + m = Len(r)
      /\ Alike(s, n, r, 0, m)
  <2>1. r \in Seq(Seq(T)) /\ Len(r) = m
    OBVIOUS
  <2>2. \A i \in 1..m : s[n + i] = r[0 + i]
    OBVIOUS
  <2> HIDE DEF r
  <2>3. /\ n \in Nat /\ 0 \in Nat /\ m \in Nat
        /\ n + m <= Len(s) /\ 0 + m <= Len(r) /\ 0 + m = Len(r)
    BY <1>1, <2>1
  <2> QED
    BY <2>1, <2>2, <2>3 DEF Alike
<1> HIDE DEF t, r, m
<1>3. PICK u \in Seq(T) : u = Flat(T, s)[n]
  BY FlatStep
<1>4. PICK z : z = 0
  OBVIOUS
<1>5. PICK e \in Seq(T) : e = << >>
  <2>1. << >> \in Seq(T)
    OBVIOUS
  <2> QED
    BY <2>1, Zenon
<1>6. Flat(T, r)[z] = e
  BY <1>2, <1>4, <1>5, FlatStep
<1>7. Flat(T, s)[n] = Join(u, Flat(T, r)[z])
  BY <1>3, <1>5, <1>6, EmptyNeutral
<1>8. Alike(s, n, r, z, m)
  BY <1>2, <1>4
<1>9. Flat(T, s)[n + m] = Join(u, Flat(T, r)[z + m])
  BY <1>2, <1>7, <1>8, FlatTail
<1>10. u = FlattenSeq(t)
  <2>1. Flat(T, s)[n] = Flat(T, t)[n]
    BY <1>1, FlatSame
  <2> QED
    BY <1>1, <1>3, <2>1, FlatStep
<1>11. FlattenSeq(s) = Flat(T, s)[n + m] /\ FlattenSeq(r) = Flat(T, r)[z + m]
  BY <1>1, <1>2, <1>4, FlatStep
<1> QED
  BY <1>9, <1>10, <1>11 DEF t, r

\* The m elements behind c are empty.
Blank(s, c, m) == /\ c \in Nat /\ m \in Nat /\ c + m <= Len(s)
                  /\ \A i \in (c + 1)..(c + m) : s[i] = << >>

\* Empty elements add nothing.
LEMMA FlatEmpty ==
  ASSUME NEW T, NEW s \in Seq(Seq(T)), NEW c, NEW m, Blank(s, c, m)
  PROVE  Flat(T, s)[c + m] = Flat(T, s)[c]
<1> DEFINE f == Flat(T, s)
           N == {k \in Nat : k <= m => f[c + k] = f[c]}
<1>1. /\ f \in [0..Len(s) -> Seq(T)]
      /\ \A i \in 1..Len(s) : f[i] = Join(f[i - 1], s[i])
      /\ c \in Nat /\ m \in Nat /\ c + m <= Len(s)
      /\ \A i \in (c + 1)..(c + m) : s[i] = << >>
  BY FlatStep DEF Blank
<1> HIDE DEF f
<1>2. 0 \in N
  BY <1>1
<1>3. ASSUME NEW k \in Nat, k \in N
      PROVE  k + 1 \in N
  <2> SUFFICES ASSUME k + 1 <= m
               PROVE  f[c + (k + 1)] = f[c]
    OBVIOUS
  <2>1. /\ c + (k + 1) \in 1..Len(s) /\ (c + (k + 1)) - 1 = c + k
        /\ c + (k + 1) \in (c + 1)..(c + m) /\ c \in 0..Len(s)
    BY <1>1
  <2>2. f[c + (k + 1)] = Join(f[c + k], << >>)
    BY <1>1, <2>1
  <2>3. f[c] \in Seq(T)
    BY <1>1, <2>1
  <2>4. f[c + k] = f[c]
    BY <1>1, <1>3
  <2> QED
    BY <2>2, <2>3, <2>4, EmptyNeutral
<1>4. m \in N
  <2> HIDE DEF N
  <2>1. Nat \subseteq N
    BY <1>2, <1>3, NaturalInduction
  <2> QED
    BY <1>1, <2>1
<1> QED
  BY <1>1, <1>4 DEF f

\* Dropping a front, up to elements that are empty, leaves a suffix.
LEMMA FlattenSuffix ==
  ASSUME NEW T, NEW s \in Seq(Seq(T)), NEW t \in Seq(Seq(T)),
         NEW c, NEW d, NEW m, Alike(s, c, t, d, m),
         c + m = Len(s), d + m = Len(t),
         \A i \in 1..d : t[i] = << >>
  PROVE  \E u \in Seq(T) : FlattenSeq(s) = Join(u, FlattenSeq(t))
<1>1. c \in Nat /\ d \in Nat /\ m \in Nat /\ c \in 0..Len(s) /\ d \in 0..Len(t)
  BY DEF Alike
<1>2. Flat(T, t)[d] = << >>
  <2>1. Flat(T, t)[0] = << >>
    BY FlatStep
  <2>2. Blank(t, 0, d) /\ 0 + d = d
    BY <1>1 DEF Blank
  <2>3. Flat(T, t)[0 + d] = Flat(T, t)[0]
    BY <2>2, FlatEmpty
  <2> QED
    BY <2>1, <2>2, <2>3
<1>3. Flat(T, s)[c] \in Seq(T)
  BY <1>1, FlatStep
<1>4. Flat(T, s)[c] = Join(Flat(T, s)[c], Flat(T, t)[d])
  BY <1>2, <1>3, EmptyNeutral
<1>5. Flat(T, s)[c + m] = Join(Flat(T, s)[c], Flat(T, t)[d + m])
  BY <1>3, <1>4, FlatTail
<1>6. FlattenSeq(s) = Flat(T, s)[c + m] /\ FlattenSeq(t) = Flat(T, t)[d + m]
  BY FlatStep
<1> QED
  BY <1>3, <1>5, <1>6

\* The j-th element of s is empty, and so are all after it; t has another
\* element there.
FillsIn(s, t, j) ==
  /\ Len(s) = Len(t) /\ j \in 1..Len(s)
  /\ \A i \in 1..Len(s) : i # j => t[i] = s[i]
  /\ \A i \in j..Len(s) : s[i] = << >>

\* Filling in the first of the empty elements appends to the flattened
\* sequence.
LEMMA FlattenFill ==
  ASSUME NEW T, NEW s \in Seq(Seq(T)), NEW t \in Seq(Seq(T)),
         NEW j, FillsIn(s, t, j)
  PROVE  FlattenSeq(t) = Join(FlattenSeq(s), t[j])
<1>1. PICK n \in Nat, m \in Nat : m + 1 = j /\ j + n = Len(s) /\ Len(s) = Len(t)
  <2>1. j \in 1..Len(s) /\ Len(s) \in Nat /\ Len(s) = Len(t)
    BY DEF FillsIn
  <2>2. j - 1 \in Nat /\ Len(s) - j \in Nat /\ (j - 1) + 1 = j
        /\ j + (Len(s) - j) = Len(s)
    BY <2>1
  <2> QED
    BY <2>1, <2>2
<1>2. Alike(s, 0, t, 0, m)
  <2> SUFFICES ASSUME NEW i \in 1..m
               PROVE  s[0 + i] = t[0 + i]
    BY <1>1 DEF Alike
  <2>1. i \in 1..Len(s) /\ i # j /\ 0 + i = i
    BY <1>1
  <2> QED
    BY <2>1 DEF FillsIn
<1>3. Flat(T, s)[m] = Flat(T, t)[m] /\ Flat(T, s)[m] \in Seq(T)
  BY <1>2, FlatSame
<1>4. Flat(T, t)[j] = Join(Flat(T, s)[m], t[j])
  <2>1. j \in 1..Len(t) /\ j - 1 = m
    BY <1>1
  <2>2. Flat(T, t)[j] = Join(Flat(T, t)[j - 1], t[j])
    BY <2>1, FlatStep
  <2> QED
    BY <1>3, <2>1, <2>2
<1>5. Flat(T, t)[j + n] = Flat(T, t)[j]
  <2>1. ASSUME NEW i \in (j + 1)..(j + n)
        PROVE  t[i] = << >>
    <3>1. i \in 1..Len(s) /\ i # j /\ i \in j..Len(s)
      BY SMTT(30), <1>1
    <3> QED
      BY <3>1 DEF FillsIn
  <2>2. Blank(t, j, n)
    BY <1>1, <2>1 DEF Blank
  <2> QED
    BY <2>2, FlatEmpty
<1>6. Flat(T, s)[m + (n + 1)] = Flat(T, s)[m]
  <2>1. ASSUME NEW i \in (m + 1)..(m + (n + 1))
        PROVE  s[i] = << >>
    <3>1. i \in j..Len(s)
      BY <1>1
    <3> QED
      BY <3>1 DEF FillsIn
  <2>2. Blank(s, m, n + 1)
    BY <1>1, <2>1 DEF Blank
  <2> QED
    BY <2>2, FlatEmpty
<1>7. FlattenSeq(s) = Flat(T, s)[Len(s)] /\ FlattenSeq(t) = Flat(T, t)[Len(t)]
  BY FlatStep
<1>8. m + (n + 1) = Len(s)
  BY <1>1
<1> QED
  BY <1>1, <1>4, <1>5, <1>6, <1>7, <1>8

\* IsSuffix as the existence of what comes before.
LEMMA SuffixSplits ==
  ASSUME NEW T, NEW s \in Seq(T), NEW t \in Seq(T)
  PROVE  IsSuffix(s, t) <=> \E u \in Seq(T) : t = u \o s
<1>1. IsSuffix(s, t) <=> /\ Len(s) <= Len(t)
                         /\ \A i \in 1..Len(s) : Reverse(s)[i] = Reverse(t)[i]
  <2>1. Len(Reverse(s)) = Len(s) /\ Len(Reverse(t)) = Len(t)
    BY DEF Reverse
  <2>2. Reverse(s) \in Seq(T) /\ Reverse(t) \in Seq(T)
    BY DEF Reverse
  <2> QED
    BY <2>1, <2>2 DEF IsSuffix, IsPrefix
<1>2. IsSuffix(s, t) <=>
        /\ Len(s) <= Len(t)
        /\ \A i \in 1..Len(s) : s[Len(s) + 1 - i] = t[Len(t) + 1 - i]
  <2>1. ASSUME NEW i \in 1..Len(s), Len(s) <= Len(t)
        PROVE  /\ Reverse(s)[i] = s[Len(s) + 1 - i]
               /\ Reverse(t)[i] = t[Len(t) + 1 - i]
    <3>1. Len(s) - i + 1 = Len(s) + 1 - i /\ Len(t) - i + 1 = Len(t) + 1 - i
      OBVIOUS
    <3>2. i \in 1..Len(t)
      BY <2>1
    <3> QED
      BY <3>1, <3>2 DEF Reverse
  <2> QED
    BY <1>1, <2>1
<1>3. ASSUME IsSuffix(s, t)
      PROVE  \E u \in Seq(T) : t = u \o s
  <2> DEFINE d == Len(t) - Len(s)
             u == SubSeq(t, 1, d)
  <2>1. d \in Nat /\ d <= Len(t)
    BY <1>2, <1>3
  <2>2. u \in Seq(T) /\ Len(u) = d /\ \A i \in 1..d : u[i] = t[i]
    BY <2>1
  <2>3. ASSUME NEW i \in 1..Len(s)
        PROVE  s[i] = t[d + i]
    <3> DEFINE r == Len(s) + 1 - i
    <3>1. r \in 1..Len(s) /\ Len(s) + 1 - r = i /\ Len(t) + 1 - r = d + i
      OBVIOUS
    <3> HIDE DEF r
    <3> QED
      BY <1>2, <1>3, <3>1
  <2> HIDE DEF u, d
  <2>4. u \o s \in Seq(T) /\ Len(u \o s) = d + Len(s) /\ d + Len(s) = Len(t)
    BY <2>1, <2>2 DEF d
  <2>5. ASSUME NEW i \in 1..Len(t)
        PROVE  (u \o s)[i] = t[i]
    <3>1. CASE i <= d
      <4>1. i \in 1..d
        BY <2>1, <3>1
      <4>2. (u \o s)[i] = u[i]
        BY <2>1, <2>2, <4>1
      <4> QED
        BY <2>2, <4>1, <4>2
    <3>2. CASE i > d
      <4>1. i - d \in 1..Len(s) /\ d + (i - d) = i
        BY <2>1, <2>4, <3>2
      <4>2. (u \o s)[i] = s[i - d]
        BY <2>1, <2>2, <3>2, <4>1
      <4> QED
        BY <2>3, <4>1, <4>2
    <3>3. i <= d \/ i > d
      BY <2>1
    <3> QED
      BY <3>1, <3>2, <3>3
  <2>6. t = u \o s
    BY <2>4, <2>5, SameSequence
  <2> QED
    BY <2>2, <2>6
<1>4. ASSUME NEW u \in Seq(T), t = u \o s
      PROVE  IsSuffix(s, t)
  BY <1>2, <1>4
<1> QED
  BY <1>3, <1>4

-----------------------------------------------------------------------------
(* The last round and the cut.                                             *)

\* A finite nonempty history has a last user message if it has any.
LEMMA LastStartIsLast ==
  ASSUME NEW h \in Seq(Message), RoundStarts(h) # {}
  PROVE  /\ LastStart(h) \in RoundStarts(h)
         /\ \A j \in RoundStarts(h) : j <= LastStart(h)
<1> DEFINE D == {Len(h) - i : i \in RoundStarts(h)}
<1>1. RoundStarts(h) \subseteq 1..Len(h)
  BY DEF RoundStarts
<1>2. D \subseteq Nat /\ D # {}
  BY <1>1
<1>3. \E x \in D : \A y \in D : x <= y
  BY <1>2, LeastNatural
<1>4. PICK i \in RoundStarts(h) : \A y \in D : Len(h) - i <= y
  BY <1>3
<1>5. ASSUME NEW j \in RoundStarts(h)
      PROVE  j <= i
  <2>1. Len(h) - j \in D
    OBVIOUS
  <2>2. Len(h) - i <= Len(h) - j
    BY <1>4, <2>1
  <2>3. QED
    BY <1>1, <2>2
<1>6. QED
  BY <1>4, <1>5 DEF LastStart

\* There is always an admissible cut, dropping every round is one, and Cut is
\* the least.
LEMMA CutIsLeast ==
  ASSUME NEW h \in Seq(Message)
  PROVE  /\ Cut(h) \in Cuts(h)
         /\ \A d \in Cuts(h) : Cut(h) <= d
<1>1. Cuts(h) \subseteq Nat
  BY DEF Cuts, RoundStarts
<1>2. RoundsFrom(h, Len(h) + 1) = {}
  BY DEF RoundsFrom, RoundStarts
<1>3. AtFloor(h, Len(h) + 1)
  <2>1. Cardinality(RoundsFrom(h, Len(h) + 1)) = 0
    BY <1>2, FS_EmptySet, Zenon
  <2>2. QED
    BY <2>1, CompactionAssumption DEF AtFloor
<1>4. Cuts(h) # {}
  BY <1>3 DEF Cuts
<1>5. \E c \in Cuts(h) : \A d \in Cuts(h) : c <= d
  BY <1>1, <1>4, LeastNatural
<1>6. QED
  BY <1>5 DEF Cut

\* Rounds are cut at their user message, or all are left out.
LEMMA CutStartsRound ==
  ASSUME NEW h \in Seq(Message)
  PROVE  /\ Cut(h) \in 1..(Len(h) + 1)
         /\ Cut(h) \in DOMAIN h => h[Cut(h)].role = "user"
BY CutIsLeast DEF Cuts, RoundStarts

\* With a floor of at least one round the last round is never cut.
LEMMA LastRoundSurvivesCut ==
  ASSUME NEW h \in Seq(Message), KeepRecentRounds > 0, RoundStarts(h) # {}
  PROVE  Cut(h) <= LastStart(h)
<1>1. RoundsFrom(h, LastStart(h)) = {LastStart(h)}
  BY LastStartIsLast DEF RoundsFrom, RoundStarts
<1>2. AtFloor(h, LastStart(h))
  <2>1. Cardinality({LastStart(h)}) = 1
    BY FS_Singleton
  <2>2. QED
    BY <1>1, <2>1, CompactionAssumption DEF AtFloor
<1>3. LastStart(h) \in Cuts(h)
  BY <1>2, LastStartIsLast DEF Cuts
<1>4. QED
  BY <1>3, CutIsLeast

-----------------------------------------------------------------------------
(* Types.                                                                  *)

LEMMA TruncatedSizeType ==
  ASSUME NEW n \in Nat
  PROVE  TruncatedSize(n) \in Nat
<1>1. ASSUME NEW e \in Nat
      PROVE  MarkerChars(e) \in Nat
  <2> DEFINE powers == {k \in 1..6 : 10^k <= e}
  <2>1. IsFiniteSet(1..6)
    <3>1. 1 \in Int /\ 6 \in Int
      OBVIOUS
    <3>2. QED
      BY <3>1, FS_Interval, Zenon
  <2>2. powers \in SUBSET (1..6)
    OBVIOUS
  <2>3. IsFiniteSet(powers)
    BY <2>1, <2>2, FS_Subset, Zenon
  <2>4. Cardinality(powers) \in Nat
    BY <2>3, FS_CardinalityType
  <2>5. QED
    BY <2>4 DEF MarkerChars, Digits
<1>2. CASE n <= MaxToolChars
  BY <1>2 DEF TruncatedSize
<1>3. CASE ~(n <= MaxToolChars)
  <2>1. n - MaxToolChars \in Nat
    BY <1>3, CompactionAssumption
  <2>2. QED
    BY <1>1, <1>3, <2>1, CompactionAssumption DEF TruncatedSize
<1>4. QED
  BY <1>2, <1>3

\* Condensing changes nothing but the sizes of messages.
LEMMA CondenseShape ==
  ASSUME NEW h \in Seq(Message)
  PROVE  /\ Condense(h) \in Seq(Message)
         /\ Len(Condense(h)) = Len(h)
         /\ \A i \in 1..Len(h) :
              /\ Condense(h)[i].role = h[i].role
              /\ Condense(h)[i].body = h[i].body
              /\ Condense(h)[i].calls = h[i].calls
              /\ Condense(h)[i].id = h[i].id
              /\ h[i].role # "tool" \/ i >= LastStart(h) => Condense(h)[i] = h[i]
<1>1. ASSUME NEW m \in Message
      PROVE  /\ CondenseMessage(m) \in Message
             /\ CondenseMessage(m).role = m.role
             /\ CondenseMessage(m).body = m.body
             /\ CondenseMessage(m).calls = m.calls
             /\ CondenseMessage(m).id = m.id
             /\ m.role # "tool" => CondenseMessage(m) = m
  BY TruncatedSizeType DEF CondenseMessage, Message
<1>2. LastStart(h) \in Nat
  <2>1. CASE RoundStarts(h) = {}
    BY <2>1 DEF LastStart
  <2>2. CASE RoundStarts(h) # {}
    BY <2>2, LastStartIsLast DEF RoundStarts
  <2>3. QED
    BY <2>1, <2>2
<1> DEFINE g == Condense(h)
<1>3. g = [i \in 1..Len(h) |->
             IF i < LastStart(h) THEN CondenseMessage(h[i]) ELSE h[i]]
  BY DEF Condense
<1>4. \A i \in 1..Len(h) : h[i] \in Message
  OBVIOUS
<1>5. \A i \in 1..Len(h) : g[i] \in Message
  BY <1>1, <1>3, <1>4
<1>6. g \in Seq(Message) /\ Len(g) = Len(h)
  BY <1>3, <1>5
<1>7. QED
  BY <1>1, <1>2, <1>3, <1>4, <1>6

\* A pruned history is its first message, if that is a system message, and
\* the messages from the cut on.
LEMMA PruneShape ==
  ASSUME NEW h \in Seq(Message)
  PROVE  /\ Lead(h) \in Seq(Message)
         /\ Len(Lead(h)) \in {0, 1}
         /\ Len(Lead(h)) = 1 <=> h # << >> /\ h[1].role = "system"
         /\ Prune(h) \in Seq(Message)
         /\ Len(Prune(h)) = Len(Lead(h)) + Len(h) + 1 - Cut(h)
         /\ Len(Lead(h)) = 1 => Prune(h)[1] = h[1]
         /\ \A i \in (Len(Lead(h)) + 1)..Len(Prune(h)) :
              Prune(h)[i] = h[i - Len(Lead(h)) + Cut(h) - 1]
<1>1. /\ Lead(h) \in Seq(Message)
      /\ Len(Lead(h)) \in {0, 1}
      /\ Len(Lead(h)) = 1 <=> h # << >> /\ h[1].role = "system"
      /\ Len(Lead(h)) = 1 => Lead(h)[1] = h[1]
  BY DEF Lead
<1>2. Cut(h) \in 1..(Len(h) + 1)
  BY CutStartsRound
<1>3. /\ From(h, Cut(h)) \in Seq(Message)
      /\ Len(From(h, Cut(h))) = Len(h) + 1 - Cut(h)
      /\ \A i \in 1..(Len(h) + 1 - Cut(h)) :
           From(h, Cut(h))[i] = h[Cut(h) + i - 1]
  <2>1. \A i \in Cut(h)..Len(h) : h[i] \in Message
    BY <1>2
  <2>2. QED
    BY <1>2, <2>1, SubSeqProperties DEF From
<1>4. /\ Prune(h) \in Seq(Message)
      /\ Len(Prune(h)) = Len(Lead(h)) + Len(From(h, Cut(h)))
      /\ \A i \in 1..(Len(Lead(h)) + Len(From(h, Cut(h)))) :
           Prune(h)[i] = IF i <= Len(Lead(h))
                           THEN Lead(h)[i]
                           ELSE From(h, Cut(h))[i - Len(Lead(h))]
  BY <1>1, <1>3, ConcatProperties DEF Prune
<1>5. Len(Lead(h)) = 1 => Prune(h)[1] = h[1]
  BY <1>1, <1>2, <1>3, <1>4
<1>6. ASSUME NEW i \in (Len(Lead(h)) + 1)..Len(Prune(h))
      PROVE  Prune(h)[i] = h[i - Len(Lead(h)) + Cut(h) - 1]
  <2>1. Prune(h)[i] = From(h, Cut(h))[i - Len(Lead(h))]
    BY <1>1, <1>2, <1>3, <1>4
  <2>2. i - Len(Lead(h)) \in 1..(Len(h) + 1 - Cut(h))
    BY <1>1, <1>2, <1>3, <1>4
  <2>3. From(h, Cut(h))[i - Len(Lead(h))] = h[Cut(h) + (i - Len(Lead(h))) - 1]
    BY <1>3, <2>2
  <2>4. Cut(h) + (i - Len(Lead(h))) - 1 = i - Len(Lead(h)) + Cut(h) - 1
    BY <1>1, <1>2
  <2>5. QED
    BY <2>1, <2>3, <2>4, Zenon
<1>7. QED
  BY <1>1, <1>2, <1>3, <1>4, <1>5, <1>6

\* p is the suffix of h from c on, after L system messages: s positions left.
SuffixOf(p, h, c, L, s) ==
  /\ L \in {0, 1} /\ c \in 1..(Len(h) + 1) /\ s \in Int /\ s = c - 1 - L
  /\ Len(p) = Len(h) - s
  /\ L = 1 => p[1].role = "system"
  /\ \A i \in (L + 1)..Len(p) : p[i] = h[i + s]

LEMMA PruneIsSuffix ==
  ASSUME NEW h \in Seq(Message)
  PROVE  /\ Prune(h) \in Seq(Message)
         /\ SuffixOf(Prune(h), h, Cut(h), Len(Lead(h)), Cut(h) - 1 - Len(Lead(h)))
<1> DEFINE L == Len(Lead(h))
           c == Cut(h)
           s == c - 1 - L
           p == Prune(h)
<1>1. /\ L \in {0, 1} /\ c \in 1..(Len(h) + 1) /\ s \in Int
      /\ p \in Seq(Message) /\ Len(p) = Len(h) - s
      /\ L = 1 => p[1].role = "system"
  <2>1. L \in {0, 1} /\ c \in 1..(Len(h) + 1) /\ Len(h) \in Nat
    BY PruneShape, CutStartsRound
  <2>2. L = 1 => h[1].role = "system" /\ p[1] = h[1]
    BY PruneShape
  <2>3. p \in Seq(Message) /\ Len(p) = L + Len(h) + 1 - c
    BY PruneShape
  <2>4. s \in Int /\ L + Len(h) + 1 - c = Len(h) - s
    BY <2>1
  <2>5. QED
    BY <2>1, <2>2, <2>3, <2>4
<1>2. \A i \in (L + 1)..Len(p) : p[i] = h[i + s]
  <2>1. \A i \in (L + 1)..Len(p) : p[i] = h[i - L + c - 1]
    BY PruneShape
  <2>2. \A i \in (L + 1)..Len(p) : i - L + c - 1 = i + s
    BY <1>1
  <2>3. QED
    BY <2>1, <2>2
<1>3. QED
  BY <1>1, <1>2 DEF SuffixOf

\* Compaction returns a sequence of messages.
THEOREM CompactType ==
  ASSUME NEW h \in Seq(Message)
  PROVE  /\ Compact(h) \in Seq(Message)
         /\ Prune(Condense(h)) \in Seq(Message)
BY CondenseShape, PruneShape DEF Compact

-----------------------------------------------------------------------------
(* Calls and results.                                                      *)

LEMMA AssistantCalls ==
  ASSUME NEW h \in Seq(Message), NEW j \in Assistants(h)
  PROVE  j \in 1..Len(h) /\ Len(h[j].calls) \in Nat
<1>1. j \in 1..Len(h) /\ h[j] \in Message
  BY DEF Assistants
<1>2. h[j].calls \in Seq(ToolCall)
  BY <1>1 DEF Message
<1>3. QED
  BY <1>1, <1>2

\* Condensing keeps roles, calls and ids, hence the pairing.
LEMMA CondensePairing ==
  ASSUME NEW h \in Seq(Message), Paired(h), Settled(h)
  PROVE  Paired(Condense(h)) /\ Settled(Condense(h))
<1> DEFINE g == Condense(h)
<1>1. /\ DOMAIN g = 1..Len(h) /\ DOMAIN h = 1..Len(h) /\ Len(g) = Len(h)
      /\ \A i \in 1..Len(h) : /\ g[i].role = h[i].role
                               /\ g[i].calls = h[i].calls
                               /\ g[i].id = h[i].id
  BY CondenseShape
<1>2. Assistants(g) = Assistants(h)
  BY <1>1 DEF Assistants
<1>3. \A j \in Assistants(h) : g[j].calls = h[j].calls /\ j \in 1..Len(h)
  BY <1>1 DEF Assistants
<1>4. CallsAnsweredInOrder(g)
  <2> SUFFICES ASSUME NEW j \in Assistants(g), NEW k \in 1..Len(g[j].calls),
                      j + k <= Len(g)
               PROVE  g[j + k].role = "tool" /\ g[j + k].id = g[j].calls[k].id
    BY DEF CallsAnsweredInOrder
  <2>1. h[j + k].role = "tool" /\ h[j + k].id = h[j].calls[k].id
    BY <1>1, <1>2, <1>3 DEF Paired, CallsAnsweredInOrder
  <2>2. j + k \in 1..Len(h)
    BY <1>1, <1>2, <1>3
  <2>3. QED
    BY <1>1, <1>2, <1>3, <2>1, <2>2
<1>5. NoOrphanResult(g)
  BY <1>1, <1>2, <1>3 DEF Paired, NoOrphanResult
<1>6. Settled(g)
  BY <1>1, <1>2, <1>3 DEF Settled
<1>7. QED
  BY <1>4, <1>5, <1>6 DEF Paired

\* Rounds are cut at a user message, which no group of a call and its results
\* contains: leaving out the messages before index c, but for a system message,
\* keeps a group whole or drops it whole.
LEMMA SuffixPairing ==
  ASSUME NEW h \in Seq(Message), Paired(h), Settled(h),
         NEW p \in Seq(Message), NEW c, NEW L, NEW s,
         SuffixOf(p, h, c, L, s), c <= Len(h) => h[c].role = "user"
  PROVE  Paired(p) /\ Settled(p)
<1>0. /\ L \in {0, 1} /\ c \in 1..(Len(h) + 1) /\ s \in Int /\ s = c - 1 - L
      /\ Len(p) = Len(h) - s
      /\ L = 1 => p[1].role = "system"
      /\ \A i \in (L + 1)..Len(p) : p[i] = h[i + s]
  BY DEF SuffixOf
<1>1. Len(h) \in Nat /\ Len(p) \in Nat /\ DOMAIN h = 1..Len(h) /\ DOMAIN p = 1..Len(p)
  OBVIOUS
<1>2. \A i \in (L + 1)..Len(p) : p[i] = h[i + s]
  BY <1>0
<1>3. \A i \in DOMAIN p : p[i].role # "system" =>
        /\ i \in (L + 1)..Len(p)
        /\ p[i] = h[i + s]
        /\ i + s \in c..Len(h)
  BY <1>0, <1>1, <1>2, SMTT(30)
<1>4. ASSUME NEW j \in Assistants(p)
      PROVE  /\ j \in (L + 1)..Len(p)
             /\ p[j] = h[j + s]
             /\ j + s \in Assistants(h)
  BY <1>0, <1>1, <1>3 DEF Assistants
<1>5. \A j \in Assistants(h) : Len(h[j].calls) \in Nat /\ j \in 1..Len(h)
  BY AssistantCalls
<1>6. CallsAnsweredInOrder(p)
  <2> SUFFICES ASSUME NEW j \in Assistants(p), NEW k \in 1..Len(p[j].calls),
                      j + k <= Len(p)
               PROVE  p[j + k].role = "tool" /\ p[j + k].id = p[j].calls[k].id
    BY DEF CallsAnsweredInOrder
  <2>1. /\ j + s \in Assistants(h) /\ k \in 1..Len(h[j + s].calls)
        /\ (j + s) + k <= Len(h)
    BY SMTT(30), <1>0, <1>1, <1>4
  <2>2. /\ h[(j + s) + k].role = "tool"
        /\ h[(j + s) + k].id = h[j + s].calls[k].id
    BY <2>1 DEF Paired, CallsAnsweredInOrder
  <2>3. p[j + k] = h[(j + k) + s] /\ (j + k) + s = (j + s) + k
    <3>1. k \in Int /\ k >= 1 /\ j \in Int /\ j >= L + 1
      BY <1>0, <1>1, <1>4
    <3>2. j + k \in (L + 1)..Len(p)
      BY <1>0, <1>1, <3>1
    <3>3. (j + k) + s = (j + s) + k
      BY <1>0, <3>1
    <3>4. QED
      BY <1>2, <3>2, <3>3
  <2>4. QED
    BY <1>4, <2>2, <2>3
<1>7. NoOrphanResult(p)
  <2> SUFFICES ASSUME NEW i \in DOMAIN p, p[i].role = "tool"
               PROVE  \E j \in Assistants(p) : j < i /\ i <= j + Len(p[j].calls)
    BY DEF NoOrphanResult
  <2>1. i \in (L + 1)..Len(p) /\ h[i + s].role = "tool" /\ i + s \in c..Len(h)
    BY <1>3
  <2>2. i + s \in DOMAIN h
    BY <1>0, <1>1, <2>1
  <2>3. PICK j \in Assistants(h) : j < i + s /\ i + s <= j + Len(h[j].calls)
    BY <2>1, <2>2 DEF Paired, NoOrphanResult
  <2>4. j >= c
    <3> SUFFICES ASSUME j < c
                 PROVE  FALSE
      BY <1>0, <1>1, <1>5
    <3>1. /\ i + s \in Int /\ i + s >= c /\ c <= Len(h)
          /\ j \in Int /\ Len(h[j].calls) \in Nat
      BY <1>0, <1>1, <1>5, <2>1
    <3>2. c - j \in 1..Len(h[j].calls) /\ j + (c - j) = c
      <4>1. ASSUME NEW n \in Nat, i + s <= j + n
            PROVE  c - j \in 1..n /\ j + (c - j) = c
        BY <1>0, <3>1, <4>1
      <4>2. QED
        BY <2>3, <3>1, <4>1
    <3>3. h[c].role = "tool"
      BY <3>1, <3>2 DEF Paired, CallsAnsweredInOrder
    <3>4. h[c].role = "user"
      BY <3>1
    <3>5. QED
      BY <3>3, <3>4
  <2>5. j - s \in (L + 1)..Len(p) /\ (j - s) + s = j
    BY <1>0, <1>1, <1>5, <2>4
  <2>6. p[j - s] = h[j]
    BY <1>2, <2>5
  <2>7. j - s \in Assistants(p)
    BY <1>0, <1>1, <2>5, <2>6 DEF Assistants
  <2>8. j - s < i /\ i <= (j - s) + Len(p[j - s].calls)
    <3>1. i \in Int /\ j \in Int /\ Len(h[j].calls) \in Nat
      BY <1>0, <1>1, <1>5
    <3>2. \A x, y, z \in Int, n \in Nat :
            y < x + z /\ x + z <= y + n => y - z < x /\ x <= (y - z) + n
      OBVIOUS
    <3>3. j - s < i /\ i <= (j - s) + Len(h[j].calls)
      BY <1>0, <2>3, <3>1, <3>2
    <3>4. QED
      BY <2>6, <3>3
  <2>9. QED
    BY <2>7, <2>8
<1>8. Settled(p)
  <2> SUFFICES ASSUME NEW j \in Assistants(p)
               PROVE  j + Len(p[j].calls) <= Len(p)
    BY DEF Settled
  <2>1. (j + s) + Len(h[j + s].calls) <= Len(h)
    BY <1>4 DEF Settled
  <2>2. QED
    BY <1>0, <1>1, <1>4, <1>5, <2>1, SMTT(30)
<1>9. QED
  BY <1>6, <1>7, <1>8 DEF Paired

LEMMA PrunePairing ==
  ASSUME NEW h \in Seq(Message), Paired(h), Settled(h)
  PROVE  Paired(Prune(h)) /\ Settled(Prune(h))
<1>1. Cut(h) <= Len(h) => h[Cut(h)].role = "user"
  BY CutStartsRound
<1>2. QED
  BY <1>1, PruneIsSuffix, SuffixPairing

\* Compacting a history in which every call has its result leaves one in which
\* every call has its result, whatever the budgets and sizes are.
THEOREM CompactPairing ==
  ASSUME NEW h \in Seq(Message), Paired(h), Settled(h)
  PROVE  /\ Paired(Compact(h)) /\ Settled(Compact(h))
         /\ Paired(Prune(Condense(h))) /\ Settled(Prune(Condense(h)))
<1>1. Condense(h) \in Seq(Message)
  BY CondenseShape
<1>2. Paired(Condense(h)) /\ Settled(Condense(h))
  BY CondensePairing
<1>3. QED
  BY <1>1, <1>2, PrunePairing DEF Compact

-----------------------------------------------------------------------------
(* The last round.                                                         *)

\* The last user message is the only one no user message follows.
LEMMA LastStartUnique ==
  ASSUME NEW h \in Seq(Message), NEW i \in RoundStarts(h),
         \A j \in RoundStarts(h) : j <= i
  PROVE  LastStart(h) = i
<1>1. RoundStarts(h) # {} /\ RoundStarts(h) \subseteq Nat
  BY DEF RoundStarts
<1>2. LastStart(h) \in RoundStarts(h) /\ i <= LastStart(h)
  BY <1>1, LastStartIsLast
<1>3. QED
  BY <1>1, <1>2

LEMMA CondenseLastStart ==
  ASSUME NEW h \in Seq(Message)
  PROVE  /\ RoundStarts(Condense(h)) = RoundStarts(h)
         /\ LastStart(Condense(h)) = LastStart(h)
<1>1. RoundStarts(Condense(h)) = RoundStarts(h)
  BY CondenseShape DEF RoundStarts
<1>2. QED
  BY <1>1 DEF LastStart

\* A suffix that starts no later than the last user message ends with it too.
LEMMA SuffixLastStart ==
  ASSUME NEW h \in Seq(Message), RoundStarts(h) # {},
         NEW p \in Seq(Message), NEW c, NEW L, NEW s,
         SuffixOf(p, h, c, L, s), c <= LastStart(h)
  PROVE  /\ LastStart(p) \in RoundStarts(p)
         /\ p[LastStart(p)] = h[LastStart(h)]
         /\ LastStart(p) = LastStart(h) - s /\ LastStart(p) > L
<1>0. /\ L \in {0, 1} /\ c \in 1..(Len(h) + 1) /\ s \in Int /\ s = c - 1 - L
      /\ Len(p) = Len(h) - s
      /\ L = 1 => p[1].role = "system"
      /\ \A i \in (L + 1)..Len(p) : p[i] = h[i + s]
  BY DEF SuffixOf
<1>1. PICK u \in RoundStarts(h) : u = LastStart(h) /\ \A j \in RoundStarts(h) : j <= u
  BY LastStartIsLast
<1>2. u \in 1..Len(h) /\ h[u].role = "user" /\ c <= u
  BY <1>1 DEF RoundStarts
<1>3. /\ u - s \in (L + 1)..Len(p) /\ (u - s) + s = u
      /\ u - s \in 1..Len(p)
  BY <1>0, <1>2
<1>4. p[u - s] = h[u]
  BY <1>0, <1>3
<1>5. u - s \in RoundStarts(p)
  BY <1>2, <1>3, <1>4 DEF RoundStarts
<1>6. ASSUME NEW j \in RoundStarts(p)
      PROVE  j <= u - s
  <2>1. j \in 1..Len(p) /\ p[j].role = "user"
    BY DEF RoundStarts
  <2>2. j \in (L + 1)..Len(p)
    BY <1>0, <2>1
  <2>3. p[j] = h[j + s]
    BY <1>0, <2>2
  <2>4. j + s \in 1..Len(h)
    BY <1>0, <2>2
  <2>5. j + s \in RoundStarts(h)
    BY <2>1, <2>3, <2>4 DEF RoundStarts
  <2>6. j + s <= u
    BY <1>1, <2>5
  <2>7. QED
    BY <1>0, <1>2, <2>1, <2>6
<1>7. LastStart(p) = u - s
  BY <1>5, <1>6, LastStartUnique
<1>8. QED
  BY <1>0, <1>1, <1>3, <1>4, <1>5, <1>7

\* The round of the last prompt is kept, its prompt first.
LEMMA PruneLastStart ==
  ASSUME NEW h \in Seq(Message), KeepRecentRounds > 0, RoundStarts(h) # {}
  PROVE  /\ RoundStarts(Prune(h)) # {}
         /\ Prune(h)[LastStart(Prune(h))] = h[LastStart(h)]
BY LastRoundSurvivesCut, PruneIsSuffix, SuffixLastStart

\* A compacted history starts with the same system message, and with a floor
\* of at least one round it ends with the round of the same prompt.
THEOREM CompactKeepsEnds ==
  ASSUME NEW h \in Seq(Message)
  PROVE  /\ (h # << >> /\ h[1].role = "system") =>
               /\ Prune(Condense(h)) # << >>
               /\ Prune(Condense(h))[1] = h[1]
         /\ (KeepRecentRounds > 0 /\ RoundStarts(h) # {}) =>
               LET p == Prune(Condense(h))
               IN  RoundStarts(p) # {} /\ p[LastStart(p)] = h[LastStart(h)]
<1>1. /\ Condense(h) \in Seq(Message) /\ Len(Condense(h)) = Len(h)
      /\ \A i \in 1..Len(h) :
            h[i].role # "tool" => Condense(h)[i] = h[i]
  BY CondenseShape
<1>2. ASSUME h # << >>, h[1].role = "system"
      PROVE  Prune(Condense(h)) # << >> /\ Prune(Condense(h))[1] = h[1]
  <2>1. 1 \in 1..Len(h)
    BY <1>2
  <2>2. Condense(h) # << >> /\ Condense(h)[1] = h[1]
    BY <1>1, <1>2, <2>1
  <2>3. \A g \in Seq(Message) : g # << >> /\ g[1].role = "system" =>
           Prune(g) # << >> /\ Prune(g)[1] = g[1]
    <3> TAKE g \in Seq(Message)
    <3> HAVE g # << >> /\ g[1].role = "system"
    <3>1. Len(Lead(g)) = 1 /\ Prune(g)[1] = g[1] /\ Prune(g) \in Seq(Message)
      BY PruneShape
    <3>2. Len(Prune(g)) = 1 + Len(g) + 1 - Cut(g) /\ Cut(g) \in 1..(Len(g) + 1)
      BY <3>1, PruneShape, CutStartsRound
    <3>3. QED
      BY <3>1, <3>2
  <2>4. QED
    BY <1>1, <1>2, <2>2, <2>3
<1>3. ASSUME KeepRecentRounds > 0, RoundStarts(h) # {}
      PROVE  /\ RoundStarts(Prune(Condense(h))) # {}
             /\ Prune(Condense(h))[LastStart(Prune(Condense(h)))] = h[LastStart(h)]
  <2>1. RoundStarts(Condense(h)) # {} /\ LastStart(Condense(h)) = LastStart(h)
    BY <1>3, CondenseLastStart
  <2>2. LastStart(h) \in 1..Len(h) /\ h[LastStart(h)].role = "user"
    BY <1>3, LastStartIsLast DEF RoundStarts
  <2>3. Condense(h)[LastStart(h)] = h[LastStart(h)]
    BY <1>1, <2>2
  <2>4. QED
    BY <1>1, <1>3, <2>1, <2>3, PruneLastStart
<1>4. QED
  BY <1>2, <1>3

\* The messages of a history from c on.
LEMMA FromShape ==
  ASSUME NEW h \in Seq(Message), NEW c \in 1..(Len(h) + 1)
  PROVE  /\ From(h, c) \in Seq(Message)
         /\ Len(From(h, c)) = Len(h) + 1 - c
         /\ \A i \in 1..(Len(h) + 1 - c) : From(h, c)[i] = h[c + i - 1]
<1>1. \A i \in c..Len(h) : h[i] \in Message
  OBVIOUS
<1>2. QED
  BY <1>1, SubSeqProperties DEF From

\* Two histories with the same messages from c and from d on.
LEMMA SameFrom ==
  ASSUME NEW h \in Seq(Message), NEW g \in Seq(Message),
         NEW c \in 1..(Len(h) + 1), NEW d \in 1..(Len(g) + 1),
         Len(h) + 1 - c = Len(g) + 1 - d,
         \A i \in 1..(Len(h) + 1 - c) : h[c + i - 1] = g[d + i - 1]
  PROVE  From(h, c) = From(g, d)
<1>1. /\ From(h, c) \in Seq(Message) /\ From(g, d) \in Seq(Message)
      /\ Len(From(h, c)) = Len(h) + 1 - c /\ Len(From(g, d)) = Len(h) + 1 - c
      /\ \A i \in 1..(Len(h) + 1 - c) : /\ From(h, c)[i] = h[c + i - 1]
                                         /\ From(g, d)[i] = g[d + i - 1]
  BY FromShape
<1>2. \A i \in 1..Len(From(h, c)) : From(h, c)[i] = From(g, d)[i]
  BY <1>1
<1>3. QED
  BY <1>1, <1>2, SameSequence

\* With a floor of at least one round compaction leaves the last round alone:
\* not a message of it is left out or condensed.
THEOREM CompactKeepsLastRound ==
  ASSUME NEW h \in Seq(Message), KeepRecentRounds > 0, RoundStarts(h) # {}
  PROVE  LET p == Prune(Condense(h))
         IN  From(p, LastStart(p)) = From(h, LastStart(h))
<1> DEFINE g == Condense(h)
           p == Prune(g)
           L == Len(Lead(g))
           s == Cut(g) - 1 - L
           u == LastStart(h)
<1>1. /\ g \in Seq(Message) /\ Len(g) = Len(h)
      /\ \A i \in 1..Len(h) : i >= u => g[i] = h[i]
  BY CondenseShape
<1>2. RoundStarts(g) # {} /\ LastStart(g) = u
  BY CondenseLastStart
<1>3. u \in 1..Len(h)
  BY LastStartIsLast DEF RoundStarts
<1>4. p \in Seq(Message) /\ SuffixOf(p, g, Cut(g), L, s)
  BY <1>1, PruneIsSuffix
<1>5. Cut(g) <= u
  BY <1>1, <1>2, LastRoundSurvivesCut
<1> HIDE DEF g, p, L, s, u
<1>6. LastStart(p) = u - s /\ LastStart(p) > L
  BY <1>1, <1>2, <1>4, <1>5, SuffixLastStart
<1>7. /\ L \in {0, 1} /\ s \in Int /\ Len(p) = Len(g) - s
      /\ \A i \in (L + 1)..Len(p) : p[i] = g[i + s]
  BY <1>4 DEF SuffixOf
<1>8. /\ LastStart(p) \in 1..(Len(p) + 1)
      /\ Len(p) + 1 - LastStart(p) = Len(h) + 1 - u
  BY <1>1, <1>3, <1>6, <1>7
<1>9. ASSUME NEW i \in 1..(Len(h) + 1 - u)
      PROVE  p[LastStart(p) + i - 1] = h[u + i - 1]
  <2>1. LastStart(p) + i - 1 \in (L + 1)..Len(p)
    BY <1>1, <1>3, <1>6, <1>7, <1>8
  <2>2. (LastStart(p) + i - 1) + s = u + i - 1
    BY <1>3, <1>6, <1>7
  <2>3. p[LastStart(p) + i - 1] = g[u + i - 1]
    BY <1>7, <2>1, <2>2
  <2>4. u + i - 1 \in 1..Len(h) /\ u + i - 1 >= u
    BY <1>3
  <2>5. QED
    BY <1>1, <2>3, <2>4
<1>10. u \in 1..(Len(h) + 1)
  BY <1>3
<1>11. From(p, LastStart(p)) = From(h, u)
  BY <1>4, <1>8, <1>9, <1>10, SameFrom
<1>12. QED
  BY <1>11 DEF p, g, u

-----------------------------------------------------------------------------
(* The estimate of a history is the sum of those of its messages.          *)

LEMMA EstimateType ==
  ASSUME NEW m \in Message
  PROVE  EstimateMessage(m) \in Nat /\ EstimateMessage(m) > 0
<1>1. m.size \in Nat /\ m.calls \in Seq(ToolCall)
  BY DEF Message
<1>2. Len(m.calls) \in Nat /\ CallChars \in Nat /\ Overhead \in Nat \ {0}
  BY <1>1, CompactionAssumption
<1>3. CallChars * Len(m.calls) \in Nat
  BY <1>2
<1> QED
  BY <1>1, <1>2, <1>3 DEF EstimateMessage

\* The running sum of a list of messages.
RunningSum(f, h) ==
  /\ f \in [0..Len(h) -> Nat]
  /\ f[0] = 0
  /\ \A i \in 1..Len(h) : f[i] = f[i - 1] + EstimateMessage(h[i])

LEMMA EstimateSums ==
  ASSUME NEW h \in Seq(Message)
  PROVE  \E f : RunningSum(f, h) /\ EstimateMessages(h) = f[Len(h)]
<1> DEFINE n == Len(h)
           G == [p \in (1..n) \X Nat |-> p[2] + EstimateMessage(h[p[1]])]
           Body(g, i) == IF i = 0 THEN 0 ELSE g[i - 1] + EstimateMessage(h[i])
           It == CHOOSE g : g = [i \in 0..n |-> Body(g, i)]
<1>1. n \in Nat /\ \A i \in 1..n : EstimateMessage(h[i]) \in Nat
  BY EstimateType
<1>2. EstimateMessages(h) = It[n]
  BY DEF EstimateMessages
<1> HIDE DEF n
<1>3. \A i \in 1..n, t \in Nat :
         /\ G[<< i, t >>] = t + EstimateMessage(h[i])
         /\ t + EstimateMessage(h[i]) \in Nat
  BY <1>1
<1>4. G \in [(1..n) \X Nat -> Nat]
  BY <1>3
<1> HIDE DEF G
<1>5. PICK f \in [0..n -> Nat] : Iteration(f, n, 0, G)
  BY <1>1, <1>4, Iterates
<1>6. f[0] = 0 /\ \A i \in 1..n : f[i] = f[i - 1] + EstimateMessage(h[i])
  <2>1. \A i \in 1..n : i - 1 \in 0..n
    BY <1>1
  <2> QED
    BY <1>3, <1>5, <2>1 DEF Iteration
<1>7. \A i \in 0..n : f[i] = Body(f, i)
  <2>1. \A i \in 0..n : i = 0 \/ i \in 1..n
    BY <1>1
  <2>2. \A i \in 1..n : i # 0
    BY <1>1
  <2> QED
    BY <1>6, <2>1, <2>2
<1>8. f = [i \in 0..n |-> Body(f, i)]
  BY <1>7
<1>9. It = [i \in 0..n |-> Body(It, i)]
  BY <1>8
<1> HIDE DEF It
<1>10. \A i \in 0..n : It[i] = Body(It, i)
  BY <1>9
<1> DEFINE N == {i \in Nat : i <= n => It[i] = f[i]}
<1>11. 0 \in N
  BY <1>1, <1>6, <1>10
<1>12. ASSUME NEW i \in Nat, i \in N
       PROVE  i + 1 \in N
  <2> SUFFICES ASSUME i + 1 <= n
               PROVE  It[i + 1] = f[i + 1]
    OBVIOUS
  <2>1. i + 1 \in 0..n /\ i + 1 \in 1..n /\ i + 1 # 0 /\ (i + 1) - 1 = i /\ i <= n
    BY <1>1
  <2>2. It[i + 1] = It[i] + EstimateMessage(h[i + 1])
    BY <1>10, <2>1
  <2>3. f[i + 1] = f[i] + EstimateMessage(h[i + 1])
    BY <1>6, <2>1
  <2> QED
    BY <1>12, <2>1, <2>2, <2>3
<1> HIDE DEF N
<1>13. n \in N
  BY <1>1, <1>11, <1>12, NaturalInduction
<1>14. It[n] = f[n]
  BY <1>1, <1>13 DEF N
<1>15. RunningSum(f, h)
  BY <1>5, <1>6 DEF RunningSum, n
<1> QED
  BY <1>2, <1>14, <1>15 DEF n

\* From c on, f grows as g does from its start.
GrowsAs(f, c, g, m) == f[c + m] = f[c] + g[m]

\* Running sums grow alike along messages that are alike.
LEMMA SumTail ==
  ASSUME NEW s \in Seq(Message), NEW t \in Seq(Message),
         NEW f, NEW g, NEW c, NEW m,
         RunningSum(f, s), RunningSum(g, t), Alike(s, c, t, 0, m)
  PROVE  GrowsAs(f, c, g, m)
<1> DEFINE N == {k \in Nat : k <= m => f[c + k] = f[c] + g[k]}
<1>1. /\ c \in Nat /\ m \in Nat /\ c + m <= Len(s) /\ m <= Len(t)
      /\ \A i \in 1..m : s[c + i] = t[0 + i]
      /\ Len(s) \in Nat /\ Len(t) \in Nat
  BY DEF Alike
<1>2. 0 \in N
  <2>1. f[c] \in Nat /\ g[0] = 0
    BY <1>1 DEF RunningSum
  <2> QED
    BY <1>1, <2>1
<1>3. ASSUME NEW k \in Nat, k \in N
      PROVE  k + 1 \in N
  <2> SUFFICES ASSUME k + 1 <= m
               PROVE  f[c + (k + 1)] = f[c] + g[k + 1]
    OBVIOUS
  <2>1. /\ c + (k + 1) \in 1..Len(s) /\ (c + (k + 1)) - 1 = c + k
        /\ k + 1 \in 1..Len(t) /\ (k + 1) - 1 = k /\ 0 + (k + 1) = k + 1
        /\ k + 1 \in 1..m /\ c \in 0..Len(s) /\ k \in 0..Len(t)
    BY <1>1
  <2>2. PICK e \in Nat : e = EstimateMessage(t[k + 1])
    <3>1. t[k + 1] \in Message
      BY <2>1
    <3>2. EstimateMessage(t[k + 1]) \in Nat
      BY <3>1, EstimateType
    <3> QED
      BY <3>2, Zenon
  <2>3. s[c + (k + 1)] = t[k + 1]
    BY <1>1, <2>1
  <2>4. f[c + (k + 1)] = f[c + k] + e
    BY <2>1, <2>2, <2>3 DEF RunningSum
  <2>5. g[k + 1] = g[k] + e
    BY <2>1, <2>2 DEF RunningSum
  <2>6. f[c + k] = f[c] + g[k]
    BY <1>1, <1>3
  <2>7. f[c] \in Nat /\ g[k] \in Nat
    BY <2>1 DEF RunningSum
  <2> QED
    BY <2>4, <2>5, <2>6, <2>7
<1> HIDE DEF N
<1>4. m \in N
  BY <1>1, <1>2, <1>3, NaturalInduction
<1> QED
  BY <1>1, <1>4 DEF N, GrowsAs

LEMMA EstimateJoin ==
  ASSUME NEW x \in Seq(Message), NEW y \in Seq(Message)
  PROVE  /\ EstimateMessages(x) \in Nat
         /\ EstimateMessages(Join(x, y)) = EstimateMessages(x) + EstimateMessages(y)
<1>1. PICK s \in Seq(Message) : s = Join(x, y)
  <2>1. Join(x, y) \in Seq(Message)
    BY DEF Join
  <2> QED
    BY <2>1, Zenon
<1>2. /\ Len(s) = Len(x) + Len(y) /\ Len(x) \in Nat /\ Len(y) \in Nat
      /\ \A i \in 1..Len(x) : s[i] = x[i]
      /\ \A i \in 1..Len(y) : s[Len(x) + i] = y[i]
  BY <1>1 DEF Join
<1>3. PICK f :
         RunningSum(f, s) /\ EstimateMessages(s) = f[Len(s)]
  BY EstimateSums
<1>4. PICK g :
         RunningSum(g, x) /\ EstimateMessages(x) = g[Len(x)]
  BY EstimateSums
<1>5. PICK h :
         RunningSum(h, y) /\ EstimateMessages(y) = h[Len(y)]
  BY EstimateSums
<1>6. Alike(s, 0, x, 0, Len(x))
  BY <1>2 DEF Alike
<1>7. Alike(s, Len(x), y, 0, Len(y))
  BY <1>2 DEF Alike
<1>8. GrowsAs(f, 0, g, Len(x))
  BY <1>3, <1>4, <1>6, SumTail
<1>9. GrowsAs(f, Len(x), h, Len(y))
  BY <1>3, <1>5, <1>7, SumTail
<1>10. f[0] = 0 /\ g[Len(x)] \in Nat /\ 0 + Len(x) = Len(x)
  <2>1. f[0] = 0
    BY <1>3 DEF RunningSum
  <2>2. g \in [0..Len(x) -> Nat]
    BY <1>4 DEF RunningSum
  <2>3. Len(x) \in 0..Len(x) /\ 0 + Len(x) = Len(x)
    BY <1>2
  <2> QED
    BY <2>1, <2>2, <2>3, Zenon
<1>11. f[Len(x)] = g[Len(x)]
  BY <1>8, <1>10 DEF GrowsAs
<1> QED
  <2>1. EstimateMessages(s) = EstimateMessages(x) + EstimateMessages(y)
    BY <1>2, <1>3, <1>4, <1>5, <1>9, <1>11 DEF GrowsAs
  <2> QED
    BY <1>1, <1>4, <1>10, <2>1

\* A round takes some tokens at least.
LEMMA EstimatePositive ==
  ASSUME NEW m \in Message, NEW s \in Seq(Message)
  PROVE  EstimateMessages(Join(<< m >>, s)) > 0
<1>1. PICK one \in Seq(Message) : one = << m >>
  <2>1. << m >> \in Seq(Message)
    OBVIOUS
  <2> QED
    BY <2>1, Zenon
<1>2. Len(one) = 1 /\ one[1] = m
  BY <1>1
<1>3. PICK f :
         RunningSum(f, one) /\ EstimateMessages(one) = f[Len(one)]
  BY EstimateSums
<1>4. f[1] = f[1 - 1] + EstimateMessage(one[1]) /\ f[0] = 0
  BY <1>2, <1>3 DEF RunningSum
<1>5. EstimateMessages(one) > 0
  BY <1>2, <1>3, <1>4, EstimateType
<1>6. EstimateMessages(s) \in Nat
  BY EstimateJoin
<1>7. EstimateMessages(Join(one, s)) = EstimateMessages(one) + EstimateMessages(s)
  BY EstimateJoin
<1>8. EstimateMessages(one) \in Nat
  BY EstimateJoin
<1> QED
  BY <1>1, <1>5, <1>6, <1>7, <1>8

-----------------------------------------------------------------------------
(* The rounds that the loops build lie in the history one behind the other, *)
(* each from a user message to the next.                                    *)

RoundRecord == [user : Message, turns : Seq(Message)]

\* Where round k ends: before the next one starts, or at n.
NextStart(st, k, n) == IF k < Len(st) THEN st[k + 1] ELSE n + 1

Increasing(st) == \A i, j \in 1..Len(st) : i < j => st[i] < st[j]

Turns(h, st, k, n) == SubSeq(h, st[k] + 1, NextStart(st, k, n) - 1)

\* The segments S are the rounds of the first n messages; they start at st.
Grouped(S, st, h, n) ==
  /\ S \in Seq(RoundRecord) /\ st \in Seq(1..n) /\ Len(S) = Len(st)
  /\ Increasing(st)
  /\ \A i \in 1..n : h[i].role = "user" <=> \E k \in 1..Len(st) : st[k] = i
  /\ \A k \in 1..Len(st) : S[k].user = h[st[k]] /\ S[k].turns = Turns(h, st, k, n)

\* One message more.
SubSeqShape(h, a, b) ==
  /\ SubSeq(h, a, b) \in Seq(Message)
  /\ Len(SubSeq(h, a, b)) = b + 1 - a
  /\ \A i \in 1..(b + 1 - a) : SubSeq(h, a, b)[i] = h[a + i - 1]

LEMMA PartShape ==
  ASSUME NEW h \in Seq(Message), NEW a \in 1..(Len(h) + 1), NEW b \in 0..Len(h),
         a <= b + 1
  PROVE  SubSeqShape(h, a, b)
BY DEF SubSeqShape

LEMMA PartGrows ==
  ASSUME NEW h \in Seq(Message), NEW a \in 1..(Len(h) + 1), NEW b \in 0..(Len(h) - 1),
         a <= b + 1
  PROVE  Append(SubSeq(h, a, b), h[b + 1]) = SubSeq(h, a, b + 1)
<1>1. SubSeqShape(h, a, b)
  <2>1. b \in 0..Len(h)
    OBVIOUS
  <2> QED
    BY <2>1, PartShape
<1>2. SubSeqShape(h, a, b + 1)
  <2>1. b + 1 \in 0..Len(h) /\ a <= (b + 1) + 1
    OBVIOUS
  <2> QED
    BY <2>1, PartShape
<1>3. PICK p \in Seq(Message) : p = SubSeq(h, a, b)
  BY <1>1, Zenon DEF SubSeqShape
<1>4. PICK q \in Seq(Message) : q = SubSeq(h, a, b + 1)
  BY <1>2, Zenon DEF SubSeqShape
<1>5. PICK m \in Message : m = h[b + 1]
  <2>1. h[b + 1] \in Message
    OBVIOUS
  <2> QED
    BY <2>1, Zenon
<1>6. /\ Len(p) = b + 1 - a /\ Len(q) = b + 2 - a
      /\ \A i \in 1..(b + 1 - a) : p[i] = h[a + i - 1]
      /\ \A i \in 1..(b + 2 - a) : q[i] = h[a + i - 1]
  BY <1>1, <1>2, <1>3, <1>4 DEF SubSeqShape
<1>7. PICK r \in Seq(Message) : r = Append(p, m)
  <2>1. Append(p, m) \in Seq(Message)
    OBVIOUS
  <2> QED
    BY <2>1, Zenon
<1>8. /\ Len(r) = Len(p) + 1 /\ r[Len(p) + 1] = m
      /\ \A i \in 1..Len(p) : r[i] = p[i]
  BY <1>7
<1>9. Len(r) = Len(q)
  BY <1>6, <1>8
<1>10. \A i \in 1..Len(r) : r[i] = q[i]
  <2> SUFFICES ASSUME NEW i \in 1..Len(r) PROVE r[i] = q[i]
    OBVIOUS
  <2>1. CASE i = Len(p) + 1
    <3>1. i = b + 2 - a /\ a + i - 1 = b + 1 /\ i \in 1..(b + 2 - a)
      BY SMTT(30), <1>6, <1>8, <2>1
    <3> QED
      BY <1>5, <1>6, <1>8, <2>1, <3>1
  <2>2. CASE i # Len(p) + 1
    <3>1. i \in 1..Len(p) /\ i \in 1..(b + 1 - a) /\ i \in 1..(b + 2 - a)
      BY <1>6, <1>8, <2>2
    <3> QED
      BY <1>6, <1>8, <3>1
  <2> QED
    BY <2>1, <2>2
<1>11. r = q
  BY <1>9, <1>10, SameSequence
<1> QED
  BY <1>3, <1>4, <1>5, <1>7, <1>11

LEMMA NothingGrouped ==
  ASSUME NEW h \in Seq(Message), NEW n \in 0..Len(h),
         \A i \in 1..n : h[i].role # "user"
  PROVE  Grouped(<< >>, << >>, h, n)
BY DEF Grouped, Increasing

\* A user message starts a round.
LEMMA GroupUser ==
  ASSUME NEW h \in Seq(Message), NEW n \in 0..(Len(h) - 1), NEW S, NEW st,
         Grouped(S, st, h, n), h[n + 1].role = "user"
  PROVE  Grouped(AddToSegments(S, h[n + 1]), Append(st, n + 1), h, n + 1)
<1> DEFINE K == Len(st)
<1>1. PICK m \in Message : m = h[n + 1]
  <2>1. h[n + 1] \in Message
    OBVIOUS
  <2> QED
    BY <2>1, Zenon
<1>2. PICK r \in RoundRecord : r = [user |-> m, turns |-> << >>]
  <2>1. [user |-> m, turns |-> << >>] \in RoundRecord
    BY DEF RoundRecord
  <2> QED
    BY <2>1, Zenon
<1>3. AddToSegments(S, h[n + 1]) = Append(S, r)
  BY <1>1, <1>2 DEF AddToSegments
<1>4. /\ S \in Seq(RoundRecord) /\ st \in Seq(1..n) /\ Len(S) = K /\ K \in Nat
      /\ n \in Nat
  BY DEF Grouped
<1>5. PICK t : t = Append(st, n + 1)
  OBVIOUS
<1>6. PICK U : U = Append(S, r)
  OBVIOUS
<1>7. /\ t \in Seq(1..(n + 1)) /\ Len(t) = K + 1 /\ t[K + 1] = n + 1
      /\ \A k \in 1..K : t[k] = st[k] /\ st[k] \in 1..n
  <2>1. /\ \A k \in 1..K : st[k] \in 1..n /\ st[k] \in 1..(n + 1)
        /\ st \in Seq(1..(n + 1)) /\ n + 1 \in 1..(n + 1)
    BY <1>4
  <2> QED
    BY <1>5, <2>1
<1>8. /\ U \in Seq(RoundRecord) /\ Len(U) = K + 1 /\ U[K + 1] = r
      /\ \A k \in 1..K : U[k] = S[k]
  BY <1>4, <1>6
<1>9. Increasing(t)
  <2> SUFFICES ASSUME NEW i \in 1..Len(t), NEW j \in 1..Len(t), i < j
               PROVE  t[i] < t[j]
    BY DEF Increasing
  <2>1. i \in 1..(K + 1) /\ j \in 1..(K + 1)
    BY <1>7
  <2>4. \A a \in Nat : \A x, y \in 1..(a + 1) :
           x < y => x \in 1..a /\ (y \in 1..a \/ y = a + 1)
    OBVIOUS
  <2>5. i \in 1..K /\ (j \in 1..K \/ j = K + 1)
    BY <1>4, <2>1, <2>4
  <2>2. CASE j \in 1..K
    BY <1>7, <2>2, <2>5 DEF Grouped, Increasing
  <2>3. CASE j = K + 1
    BY <1>4, <1>7, <2>3, <2>5
  <2> QED
    BY <2>2, <2>3, <2>5
<1>10. ASSUME NEW i \in 1..(n + 1)
       PROVE  h[i].role = "user" <=> \E k \in 1..Len(t) : t[k] = i
  <2>1. CASE i = n + 1
    <3>1. K + 1 \in 1..Len(t)
      BY <1>4, <1>7
    <3> QED
      BY <1>7, <2>1, <3>1
  <2>2. CASE i # n + 1
    <3>1. i \in 1..n
      BY <1>4, <2>2
    <3>2. (\E k \in 1..Len(t) : t[k] = i) <=> \E k \in 1..K : st[k] = i
      <4>1. ASSUME NEW k \in 1..Len(t), t[k] = i
            PROVE  k \in 1..K
        BY <1>4, <1>7, <2>2, <4>1
      <4>2. \A k \in 1..K : k \in 1..Len(t)
        BY <1>4, <1>7
      <4> QED
        BY <1>7, <4>1, <4>2
    <3> QED
      BY <3>1, <3>2 DEF Grouped
  <2> QED
    BY <2>1, <2>2
<1>11. ASSUME NEW k \in 1..Len(t)
       PROVE  U[k].user = h[t[k]] /\ U[k].turns = Turns(h, t, k, n + 1)
  <2>1. CASE k = K + 1
    <3>1. NextStart(t, k, n + 1) = (n + 1) + 1
      BY <1>4, <1>7, <2>1 DEF NextStart
    <3>2. Turns(h, t, k, n + 1) = SubSeq(h, (n + 1) + 1, n + 1)
      BY <1>4, <1>7, <2>1, <3>1 DEF Turns
    <3>3. SubSeq(h, (n + 1) + 1, n + 1) = << >>
      BY <1>4
    <3>4. U[k] = r /\ t[k] = n + 1
      BY <1>7, <1>8, <2>1
    <3> QED
      BY <1>1, <1>2, <3>2, <3>3, <3>4
  <2>2. CASE k # K + 1
    <3>1. k \in 1..K /\ t[k] = st[k] /\ U[k] = S[k]
      BY <1>4, <1>7, <1>8, <2>2
    <3>2. NextStart(t, k, n + 1) = NextStart(st, k, n)
      <4>1. CASE k < K
        <5>1. k + 1 \in 1..K /\ k < Len(t)
          BY SMTT(30), <1>4, <1>7, <3>1, <4>1
        <5> QED
          BY <1>7, <4>1, <5>1 DEF NextStart
      <4>2. CASE k = K
        BY <1>4, <1>7, <4>2 DEF NextStart
      <4> QED
        BY <1>4, <3>1, <4>1, <4>2
    <3>3. Turns(h, t, k, n + 1) = Turns(h, st, k, n)
      BY <3>1, <3>2 DEF Turns
    <3>4. S[k].user = h[st[k]] /\ S[k].turns = Turns(h, st, k, n)
      BY <3>1 DEF Grouped
    <3> QED
      BY <3>1, <3>3, <3>4
  <2> QED
    BY <2>1, <2>2
<1>12. Grouped(U, t, h, n + 1)
  BY <1>7, <1>8, <1>9, <1>10, <1>11 DEF Grouped
<1> QED
  BY <1>3, <1>5, <1>6, <1>12

\* Replacing the last element.
LEMMA ReplaceLast ==
  ASSUME NEW X, NEW s \in Seq(X), NEW x \in X
  PROVE  [s EXCEPT ![Len(s)] = x] \in Seq(X)
<1>1. DOMAIN s = 1..Len(s) /\ Len(s) \in Nat /\ \A i \in 1..Len(s) : s[i] \in X
  OBVIOUS
<1>2. s \in [1..Len(s) -> X]
  OBVIOUS
<1>3. [s EXCEPT ![Len(s)] = x] \in [1..Len(s) -> X]
  BY <1>2
<1> QED
  BY <1>1, <1>3

\* An answer or a result continues the last round; before the first user
\* message there is none.
LEMMA GroupOther ==
  ASSUME NEW h \in Seq(Message), NEW n \in 0..(Len(h) - 1), NEW S, NEW st,
         Grouped(S, st, h, n), h[n + 1].role \in {"assistant", "tool"}
  PROVE  Grouped(AddToSegments(S, h[n + 1]), st, h, n + 1)
<1>1. PICK m \in Message : m = h[n + 1]
  <2>1. h[n + 1] \in Message
    OBVIOUS
  <2> QED
    BY <2>1, Zenon
<1>2. PICK K \in Nat : K = Len(st)
  BY DEF Grouped
<1>3. /\ S \in Seq(RoundRecord) /\ st \in Seq(1..n) /\ Len(S) = K /\ n \in Nat
      /\ st \in Seq(1..(n + 1)) /\ Increasing(st)
  <2>1. st \in Seq(1..n)
    BY DEF Grouped
  <2>2. st \in Seq(1..(n + 1))
    BY <2>1
  <2> QED
    BY <1>2, <2>2 DEF Grouped
<1>4. m.role # "user" /\ m.role \in {"assistant", "tool"}
  BY <1>1
<1>5. ASSUME NEW i \in 1..(n + 1)
      PROVE  h[i].role = "user" <=> \E k \in 1..Len(st) : st[k] = i
  <2>1. CASE i = n + 1
    <3>1. \A k \in 1..Len(st) : st[k] # n + 1
      BY <1>3
    <3> QED
      BY <1>1, <1>4, <2>1, <3>1
  <2>2. CASE i # n + 1
    <3>1. i \in 1..n
      BY <1>3, <2>2
    <3> QED
      BY <3>1 DEF Grouped
  <2> QED
    BY <2>1, <2>2
<1>6. CASE K = 0
  <2>1. S = << >>
    BY <1>3, <1>6
  <2>2. AddToSegments(S, h[n + 1]) = S
    BY <1>1, <1>4, <2>1 DEF AddToSegments
  <2> QED
    BY <1>2, <1>3, <1>5, <1>6, <2>2 DEF Grouped
<1>7. CASE K # 0
  <2>1. K \in 1..Len(S) /\ S # << >> /\ Len(S) = K
    BY <1>2, <1>3, <1>7
  <2>2. PICK r \in RoundRecord : r = S[K]
    <3>1. S[K] \in RoundRecord
      BY <1>3, <2>1
    <3> QED
      BY <3>1, Zenon
  <2>3. PICK q \in RoundRecord :
           /\ q.user = r.user /\ q.turns = Append(r.turns, m)
           /\ q = [r EXCEPT !.turns = Append(@, m)]
    <3>1. r.user \in Message /\ r.turns \in Seq(Message)
      BY DEF RoundRecord
    <3>2. Append(r.turns, m) \in Seq(Message)
      BY <3>1
    <3>3. [r EXCEPT !.turns = Append(@, m)] \in RoundRecord
      BY <3>2 DEF RoundRecord
    <3>4. PICK q \in RoundRecord : q = [r EXCEPT !.turns = Append(@, m)]
      BY <3>3, Zenon
    <3>5. q.user = r.user /\ q.turns = Append(r.turns, m)
      BY <3>4 DEF RoundRecord
    <3> QED
      BY <3>4, <3>5, Zenon
  <2>4. [S EXCEPT ![Len(S)].turns = Append(@, m)]
           = [S EXCEPT ![K] = q]
    <3>1. [r EXCEPT !.turns = Append(@, m)] = q
      BY <2>3, Zenon
    <3>2. S[K] = r
      BY <2>2
    <3>3. [S[K] EXCEPT !.turns = Append(@, m)] = q
      BY <3>1, <3>2, Zenon
    <3> QED
      BY <2>1, <3>3
  <2>5. AddToSegments(S, h[n + 1]) = [S EXCEPT ![K] = q]
    BY <1>1, <1>4, <2>1, <2>4 DEF AddToSegments
  <2>6. PICK U : U = [S EXCEPT ![K] = q]
    OBVIOUS
  <2>7. /\ U \in Seq(RoundRecord) /\ Len(U) = K /\ U[K] = q
        /\ \A k \in 1..K : k # K => U[k] = S[k]
    BY <1>3, <2>1, <2>6
  <2>8. ASSUME NEW k \in 1..Len(st)
        PROVE  U[k].user = h[st[k]] /\ U[k].turns = Turns(h, st, k, n + 1)
    <3>1. S[k].user = h[st[k]] /\ S[k].turns = Turns(h, st, k, n)
      BY DEF Grouped
    <3>2. CASE k = K
      <4>1. /\ NextStart(st, k, n) = n + 1 /\ NextStart(st, k, n + 1) = n + 2
            /\ (n + 1) - 1 = n /\ (n + 2) - 1 = n + 1
        BY <1>2, <1>3, <3>2 DEF NextStart
      <4>2. PICK a \in 1..n : a = st[k]
        BY <1>3
      <4>3. a + 1 \in 1..(Len(h) + 1) /\ n \in 0..(Len(h) - 1) /\ a + 1 <= n + 1
        BY <1>3, <4>2
      <4>4. Append(SubSeq(h, a + 1, n), h[n + 1]) = SubSeq(h, a + 1, n + 1)
        BY <4>3, PartGrows
      <4>5. /\ Turns(h, st, k, n) = SubSeq(h, a + 1, n)
            /\ Turns(h, st, k, n + 1) = SubSeq(h, a + 1, n + 1)
        BY <4>1, <4>2 DEF Turns
      <4>6. r.turns = SubSeq(h, a + 1, n) /\ r.user = h[st[k]]
        BY <2>2, <3>1, <3>2, <4>5
      <4>7. q.turns = SubSeq(h, a + 1, n + 1) /\ q.user = h[st[k]]
        BY <1>1, <2>3, <4>4, <4>6
      <4> QED
        BY <2>7, <3>2, <4>5, <4>7
    <3>3. CASE k # K
      <4>1. k < Len(st) /\ k \in 1..K
        BY <1>2, <3>3
      <4>2. Turns(h, st, k, n + 1) = Turns(h, st, k, n)
        BY <4>1 DEF Turns, NextStart
      <4> QED
        BY <2>7, <3>1, <3>3, <4>1, <4>2
    <3> QED
      BY <3>2, <3>3
  <2>9. Grouped(U, st, h, n + 1)
    BY <1>2, <1>3, <1>5, <2>7, <2>8 DEF Grouped
  <2> QED
    BY <2>5, <2>6, <2>9
<1> QED
  BY <1>6, <1>7

\* Histories with no system message but the first one.
SystemFirst(h) == \A i \in 2..Len(h) : h[i].role # "system"

\* group_into_rounds cuts the history where its user messages are.
LEMMA GroupIntoRoundsRight ==
  ASSUME NEW h \in Seq(Message), SystemFirst(h)
  PROVE  \E st : Grouped(GroupIntoRounds(h), st, h, Len(h))
<1>1. PICK l \in 0..Len(h) :
         /\ l = Len(Lead(h)) /\ \A i \in 1..l : h[i].role # "user"
         /\ \A i \in (l + 1)..Len(h) : h[i].role # "system"
  <2>1. CASE h # << >> /\ h[1].role = "system"
    <3>1. Lead(h) = << h[1] >>
      BY <2>1 DEF Lead
    <3>2. Len(Lead(h)) = 1 /\ 1 \in 0..Len(h)
      BY <2>1, <3>1
    <3> QED
      BY <2>1, <3>2 DEF SystemFirst
  <2>2. CASE ~ (h # << >> /\ h[1].role = "system")
    <3>1. Lead(h) = << >>
      BY <2>2 DEF Lead
    <3>2. Len(Lead(h)) = 0 /\ 0 \in 0..Len(h)
      BY <3>1
    <3>3. \A i \in 1..Len(h) : i = 1 \/ i \in 2..Len(h)
      OBVIOUS
    <3>4. 1 \in 1..Len(h) => h # << >>
      OBVIOUS
    <3>5. \A i \in 1..Len(h) : h[i].role # "system"
      BY <2>2, <3>3, <3>4 DEF SystemFirst
    <3> QED
      BY <3>2, <3>5
  <2> QED
    BY <2>1, <2>2
<1>2. PICK rest \in Seq(Message) :
         rest = SubSeq(h, l + 1, Len(h)) /\ SubSeqShape(h, l + 1, Len(h))
  <2>1. SubSeqShape(h, l + 1, Len(h))
    <3>1. l + 1 \in 1..(Len(h) + 1) /\ Len(h) \in 0..Len(h) /\ l + 1 <= Len(h) + 1
      OBVIOUS
    <3> QED
      BY <3>1, PartShape
  <2> QED
    BY <2>1, Zenon DEF SubSeqShape
<1>3. PICK n \in Nat : n = Len(rest) /\ l + n = Len(h)
  <2>1. Len(rest) = Len(h) - l
    BY <1>2
  <2> QED
    BY <2>1
<1>4. ASSUME NEW i \in 1..n
      PROVE  /\ rest[i] = h[l + i] /\ l + i \in 1..Len(h)
             /\ rest[i].role \in {"user", "assistant", "tool"}
  <2>3. l + i \in 1..Len(h) /\ l + i \in (l + 1)..Len(h) /\ i \in 1..(Len(h) + 1 - (l + 1))
        /\ (l + 1) + i - 1 = l + i
    BY <1>3
  <2>4. rest[i] = h[(l + 1) + i - 1]
    BY <1>2, <2>3 DEF SubSeqShape
  <2>1. rest[i] = h[l + i] /\ l + i \in 1..Len(h) /\ l + i \in (l + 1)..Len(h)
    BY <2>3, <2>4
  <2>2. h[l + i] \in Message /\ h[l + i].role # "system"
    BY <1>1, <2>1
  <2> QED
    BY <2>1, <2>2 DEF Message, Roles
<1> DEFINE T == Seq(RoundRecord)
           Body(g, i) == IF i = 0 THEN << >> ELSE AddToSegments(g[i - 1], rest[i])
           It == CHOOSE g : g = [i \in 0..n |-> Body(g, i)]
           G == [p \in (1..n) \X T |-> AddToSegments(p[2], rest[p[1]])]
           b == << >>
<1>5. GroupIntoRounds(h) = It[n]
  <2>1. GroupIntoRounds(h) = SegmentByUser(rest)
    BY <1>1, <1>2 DEF GroupIntoRounds
  <2> QED
    BY <1>3, <2>1 DEF SegmentByUser
<1>6. ASSUME NEW S \in T, NEW i \in 1..n
      PROVE  AddToSegments(S, rest[i]) \in T
  <2>1. PICK m \in Message : m = rest[i]
    <3>1. rest[i] \in Message
      BY <1>3
    <3> QED
      BY <3>1, Zenon
  <2>2. CASE m.role = "user"
    <3>1. PICK r \in RoundRecord : r = [user |-> m, turns |-> << >>]
      <4>1. [user |-> m, turns |-> << >>] \in RoundRecord
        BY DEF RoundRecord
      <4> QED
        BY <4>1, Zenon
    <3>2. Append(S, r) \in Seq(RoundRecord)
      OBVIOUS
    <3> QED
      BY <2>1, <2>2, <3>1, <3>2 DEF AddToSegments
  <2>3. CASE m.role # "user" /\ S # << >> /\ m.role \in {"assistant", "tool"}
    <3>1. PICK r \in RoundRecord : r = S[Len(S)]
      <4>1. S[Len(S)] \in RoundRecord
        BY <2>3
      <4> QED
        BY <4>1, Zenon
    <3>2. r.turns \in Seq(Message)
      BY DEF RoundRecord
    <3>3. Append(r.turns, m) \in Seq(Message)
      BY <3>2
    <3>4. [r EXCEPT !.turns = Append(@, m)] \in RoundRecord
      BY <3>3 DEF RoundRecord
    <3>5. PICK q \in RoundRecord : q = [r EXCEPT !.turns = Append(@, m)]
      BY <3>4, Zenon
    <3>6. [S EXCEPT ![Len(S)] = q] \in T
      BY ReplaceLast
    <3>7. [S EXCEPT ![Len(S)].turns = Append(@, m)] = [S EXCEPT ![Len(S)] = q]
      BY <3>1, <3>5
    <3> QED
      BY <2>1, <2>3, <3>6, <3>7 DEF AddToSegments
  <2>4. CASE m.role # "user" /\ ~ (S # << >> /\ m.role \in {"assistant", "tool"})
    BY <2>1, <2>4 DEF AddToSegments
  <2> QED
    BY <2>2, <2>3, <2>4
<1>7. b \in T
  OBVIOUS
<1> HIDE DEF T
<1>8. ASSUME NEW i \in 1..n, NEW S \in T
      PROVE  G[<< i, S >>] = AddToSegments(S, rest[i])
  OBVIOUS
<1>9. G \in [(1..n) \X T -> T]
  <2> SUFFICES ASSUME NEW p \in (1..n) \X T
               PROVE  AddToSegments(p[2], rest[p[1]]) \in T
    OBVIOUS
  <2>1. p[1] \in 1..n /\ p[2] \in T
    OBVIOUS
  <2> QED
    BY <1>6, <2>1
<1> HIDE DEF G, b
<1>10. PICK f \in [0..n -> T] : Iteration(f, n, b, G)
  BY <1>7, <1>9, Iterates
<1>11. f[0] = << >> /\ \A i \in 1..n : f[i] = AddToSegments(f[i - 1], rest[i])
  <2>1. \A i \in 1..n : i - 1 \in 0..n
    BY <1>3
  <2> QED
    BY <1>8, <1>10, <2>1 DEF Iteration, b
<1>12. \A i \in 0..n : f[i] = Body(f, i)
  <2>1. \A i \in 0..n : i = 0 \/ i \in 1..n
    BY <1>3
  <2>2. \A i \in 1..n : i # 0
    BY <1>3
  <2> QED
    BY <1>11, <2>1, <2>2
<1>13. f = [i \in 0..n |-> Body(f, i)]
  BY <1>12
<1>14. It = [i \in 0..n |-> Body(It, i)]
  BY <1>13
<1> HIDE DEF It
<1>15. \A i \in 0..n : It[i] = Body(It, i)
  BY <1>14
<1> DEFINE N == {k \in Nat : k <= n => \E st : Grouped(It[k], st, h, l + k)}
<1>16. 0 \in N
  <2>1. It[0] = << >> /\ l + 0 = l
    BY <1>3, <1>15
  <2>2. Grouped(<< >>, << >>, h, l)
    BY <1>1, NothingGrouped
  <2> QED
    BY <2>1, <2>2
<1>17. ASSUME NEW k \in Nat, k \in N
       PROVE  k + 1 \in N
  <2> SUFFICES ASSUME k + 1 <= n
               PROVE  \E st : Grouped(It[k + 1], st, h, l + (k + 1))
    OBVIOUS
  <2>1. /\ k + 1 \in 1..n /\ k + 1 \in 0..n /\ (k + 1) - 1 = k /\ k + 1 # 0 /\ k <= n
        /\ l + k \in 0..(Len(h) - 1) /\ (l + k) + 1 = l + (k + 1)
    BY <1>3
  <2>2. PICK st : Grouped(It[k], st, h, l + k)
    BY <1>17, <2>1
  <2>3. It[k + 1] = AddToSegments(It[k], h[(l + k) + 1])
    BY <1>4, <1>15, <2>1
  <2>4. h[(l + k) + 1].role \in {"user", "assistant", "tool"}
    BY <1>4, <2>1
  <2>5. PICK S, x : S = It[k] /\ x = l + k
    OBVIOUS
  <2>6. /\ Grouped(S, st, h, x) /\ x \in 0..(Len(h) - 1)
        /\ It[k + 1] = AddToSegments(S, h[x + 1]) /\ x + 1 = l + (k + 1)
        /\ h[x + 1].role \in {"user", "assistant", "tool"}
    BY <2>1, <2>2, <2>3, <2>4, <2>5
  <2>7. CASE h[x + 1].role = "user"
    BY <2>6, <2>7, GroupUser
  <2>8. CASE h[x + 1].role # "user"
    <3>1. Grouped(AddToSegments(S, h[x + 1]), st, h, x + 1)
      BY <2>6, <2>8, GroupOther
    <3> QED
      BY <2>6, <3>1
  <2> QED
    BY <2>7, <2>8
<1> HIDE DEF N
<1>18. n \in N
  BY <1>3, <1>16, <1>17, NaturalInduction
<1> QED
  BY <1>3, <1>5, <1>18 DEF N

\* A condensed tool result is the same whether the loop tests its size first.
LEMMA CondenseAlike ==
  ASSUME NEW m \in Message
  PROVE  CondenseTurn(m) = CondenseMessage(m)
<1>1. m.size \in Nat
  BY DEF Message
<1>2. CASE m.role = "tool" /\ m.size > MaxToolChars
  BY <1>2 DEF CondenseMessage, CondenseTurn
<1>3. CASE m.role # "tool"
  BY <1>3 DEF CondenseMessage, CondenseTurn
<1>4. CASE m.role = "tool" /\ ~ (m.size > MaxToolChars)
  <2>1. TruncatedSize(m.size) = m.size
    BY <1>1, <1>4, CompactionAssumption DEF TruncatedSize
  <2>2. [m EXCEPT !.size = m.size] = m
    BY DEF Message
  <2> QED
    BY <1>1, <1>4, <2>1, <2>2 DEF CondenseMessage, CondenseTurn
<1> QED
  BY <1>2, <1>3, <1>4

\* A round's turns with long results condensed.
Condensed(t, s) == /\ t \in Seq(Message) /\ s \in Seq(Message) /\ Len(t) = Len(s)
                   /\ \A i \in 1..Len(s) : t[i] = CondenseMessage(s[i])

LEMMA CondenseRoundShape ==
  ASSUME NEW r \in RoundRecord
  PROVE  /\ CondenseRoundTools(r) \in RoundRecord
         /\ CondenseRoundTools(r).user = r.user
         /\ Condensed(CondenseRoundTools(r).turns, r.turns)
<1>1. PICK s \in Seq(Message) : s = r.turns
  BY DEF RoundRecord
<1>2. PICK n \in Nat : n = Len(s)
  OBVIOUS
<1> DEFINE t == [i \in DOMAIN s |-> CondenseTurn(s[i])]
<1>3. ASSUME NEW i \in 1..n
      PROVE  CondenseTurn(s[i]) = CondenseMessage(s[i]) /\ CondenseTurn(s[i]) \in Message
  <2>1. PICK m \in Message : m = s[i]
    <3>1. s[i] \in Message
      BY <1>2
    <3> QED
      BY <3>1, Zenon
  <2>2. CondenseMessage(m) \in Message
    <3>1. m.size \in Nat
      BY DEF Message
    <3>2. TruncatedSize(m.size) \in Nat
      BY <3>1, TruncatedSizeType
    <3> QED
      BY <3>2 DEF CondenseMessage, Message
  <2> QED
    BY <2>1, <2>2, CondenseAlike
<1>4. DOMAIN s = 1..n
  BY <1>2
<1>5. t \in Seq(Message) /\ Len(t) = n /\ \A i \in 1..n : t[i] = CondenseTurn(s[i])
  BY <1>2, <1>3, <1>4
<1>6. Condensed(t, s)
  BY <1>2, <1>3, <1>5 DEF Condensed
<1>7. CondenseRoundTools(r) = [user |-> r.user, turns |-> t]
  BY <1>1 DEF CondenseRoundTools
<1> HIDE DEF t
<1>8. r.user \in Message /\ t \in Seq(Message)
  BY <1>5 DEF RoundRecord
<1>9. [user |-> r.user, turns |-> t] \in RoundRecord
  BY <1>8 DEF RoundRecord
<1> QED
  BY <1>1, <1>6, <1>7, <1>9

\* Where round k of a grouped history lies.
LEMMA RoundPlace ==
  ASSUME NEW h \in Seq(Message), NEW S, NEW st, Grouped(S, st, h, Len(h)),
         NEW k \in 1..Len(st)
  PROVE  /\ st[k] \in 1..Len(h) /\ NextStart(st, k, Len(h)) \in 2..(Len(h) + 1)
         /\ st[k] < NextStart(st, k, Len(h))
         /\ h[st[k]].role = "user" /\ S[k] \in RoundRecord
         /\ S[k].user = h[st[k]] /\ S[k].turns = Turns(h, st, k, Len(h))
<1>1. /\ st \in Seq(1..Len(h)) /\ S \in Seq(RoundRecord) /\ Len(S) = Len(st)
      /\ Increasing(st)
      /\ \A i \in 1..Len(h) : h[i].role = "user" <=> \E j \in 1..Len(st) : st[j] = i
      /\ S[k].user = h[st[k]] /\ S[k].turns = Turns(h, st, k, Len(h))
  BY DEF Grouped
<1>2. st[k] \in 1..Len(h)
  BY <1>1
<1>3. h[st[k]].role = "user"
  BY <1>1, <1>2
<1>4. S[k] \in RoundRecord
  BY <1>1
<1>5. CASE k < Len(st)
  <2>1. k + 1 \in 1..Len(st) /\ k < k + 1
    BY <1>1, <1>5
  <2>2. st[k] < st[k + 1] /\ st[k + 1] \in 1..Len(h)
    BY <1>1, <2>1 DEF Increasing
  <2>3. NextStart(st, k, Len(h)) = st[k + 1]
    BY <1>5 DEF NextStart
  <2> QED
    BY <1>1, <1>2, <1>3, <1>4, <2>2, <2>3
<1>6. CASE ~ (k < Len(st))
  <2>1. NextStart(st, k, Len(h)) = Len(h) + 1
    BY <1>6 DEF NextStart
  <2> QED
    BY <1>1, <1>2, <1>3, <1>4, <2>1
<1> QED
  BY <1>5, <1>6

\* The last round starts at the last user message.
LEMMA LastOfGrouped ==
  ASSUME NEW h \in Seq(Message), NEW S, NEW st, Grouped(S, st, h, Len(h)),
         Len(st) # 0
  PROVE  LastStart(h) = st[Len(st)]
<1>1. /\ st \in Seq(1..Len(h)) /\ Increasing(st)
      /\ \A i \in 1..Len(h) : h[i].role = "user" <=> \E j \in 1..Len(st) : st[j] = i
  BY DEF Grouped
<1>2. Len(st) \in 1..Len(st) /\ Len(st) \in Nat
  BY <1>1
<1>3. st[Len(st)] \in RoundStarts(h)
  BY <1>2, RoundPlace DEF RoundStarts
<1>4. ASSUME NEW i \in RoundStarts(h)
      PROVE  i <= st[Len(st)]
  <2>1. i \in 1..Len(h) /\ h[i].role = "user"
    BY DEF RoundStarts
  <2>2. PICK j \in 1..Len(st) : st[j] = i
    BY <1>1, <2>1
  <2>3. j = Len(st) \/ j < Len(st)
    BY <1>2
  <2>4. j < Len(st) => st[j] < st[Len(st)]
    BY <1>1, <1>2 DEF Increasing
  <2>5. st[Len(st)] \in Nat
    BY <1>1, <1>2
  <2> QED
    BY <2>1, <2>2, <2>3, <2>4, <2>5
<1> QED
  BY <1>3, <1>4, LastStartUnique

\* The messages of g are those of h in a stretch.
SameWithin(g, h, a, b) == \A i \in a..b : g[i] = h[i]

LEMMA SameStretch ==
  ASSUME NEW h \in Seq(Message), NEW g \in Seq(Message), Len(g) = Len(h),
         NEW a \in 1..(Len(h) + 1), NEW b \in 0..Len(h), a <= b + 1,
         SameWithin(g, h, a, b)
  PROVE  SubSeq(g, a, b) = SubSeq(h, a, b)
<1>1. SubSeqShape(h, a, b) /\ SubSeqShape(g, a, b)
  BY PartShape
<1>2. PICK p \in Seq(Message), q \in Seq(Message) :
         p = SubSeq(h, a, b) /\ q = SubSeq(g, a, b)
  BY <1>1, Zenon DEF SubSeqShape
<1>3. /\ Len(p) = b + 1 - a /\ Len(q) = b + 1 - a
      /\ \A i \in 1..(b + 1 - a) : p[i] = h[a + i - 1] /\ q[i] = g[a + i - 1]
  BY <1>1, <1>2 DEF SubSeqShape
<1>4. ASSUME NEW i \in 1..Len(p)
      PROVE  p[i] = q[i]
  <2>1. i \in 1..(b + 1 - a) /\ a + i - 1 \in a..b
    BY <1>3
  <2> QED
    BY <1>3, <2>1 DEF SameWithin
<1>5. p = q
  BY <1>3, <1>4, SameSequence
<1> QED
  BY <1>2, <1>5

\* _condense_historical_rounds on the rounds is Condense on the history.
LEMMA CondensedRoundsRight ==
  ASSUME NEW h \in Seq(Message), NEW S, NEW st, Grouped(S, st, h, Len(h))
  PROVE  Grouped(CondenseHistoricalRounds(S), st, Condense(h), Len(Condense(h)))
<1>1. PICK g \in Seq(Message) : g = Condense(h)
  BY CondenseShape, Zenon
<1>2. PICK n \in Nat : n = Len(h) /\ Len(g) = n
  BY <1>1, CondenseShape
<1>3. /\ \A i \in 1..n : g[i].role = h[i].role
      /\ \A i \in 1..n : h[i].role # "tool" => g[i] = h[i]
      /\ \A i \in 1..n : i < LastStart(h) => g[i] = CondenseMessage(h[i])
      /\ \A i \in 1..n : ~ (i < LastStart(h)) => g[i] = h[i]
  <2>1. /\ \A i \in 1..n : g[i].role = h[i].role
        /\ \A i \in 1..n : h[i].role # "tool" => g[i] = h[i]
    BY <1>1, <1>2, CondenseShape
  <2>2. DOMAIN h = 1..n
    BY <1>2
  <2>3. g = [i \in 1..n |-> IF i < LastStart(h) THEN CondenseMessage(h[i]) ELSE h[i]]
    BY <1>1, <2>2 DEF Condense
  <2> QED
    BY <2>1, <2>3
<1>4. /\ st \in Seq(1..n) /\ S \in Seq(RoundRecord) /\ Len(S) = Len(st)
      /\ Increasing(st)
      /\ \A i \in 1..n : h[i].role = "user" <=> \E j \in 1..Len(st) : st[j] = i
  BY <1>2 DEF Grouped
<1>5. PICK K \in Nat : K = Len(st)
  BY <1>4
<1>6. PICK R : R = CondenseHistoricalRounds(S)
  OBVIOUS
<1>7. /\ Len(R) = K /\ R \in Seq(RoundRecord)
      /\ \A k \in 1..K : R[k] = IF k < K THEN CondenseRoundTools(S[k]) ELSE S[k]
  <2>1. CASE K <= 1
    <3>1. R = S
      BY <1>4, <1>5, <1>6, <2>1 DEF CondenseHistoricalRounds
    <3>2. \A k \in 1..K : ~ (k < K)
      BY <1>5, <2>1
    <3> QED
      BY <1>4, <1>5, <3>1, <3>2
  <2>2. CASE ~ (K <= 1)
    <3> DEFINE D(k) == IF k < K THEN CondenseRoundTools(S[k]) ELSE S[k]
    <3>1. R = [k \in 1..K |-> D(k)]
      BY <1>4, <1>5, <1>6, <2>2 DEF CondenseHistoricalRounds
    <3>2. \A k \in 1..K : D(k) \in RoundRecord
      BY <1>4, <1>5, CondenseRoundShape
    <3>3. \A k \in 1..K : R[k] = D(k)
      BY <3>1
    <3>4. Len(R) = K /\ R \in Seq(RoundRecord)
      <4> HIDE DEF D
      <4> QED
        BY <1>5, <3>1, <3>2
    <3> QED
      BY <3>3, <3>4
  <2> QED
    BY <2>1, <2>2
<1>8. ASSUME NEW k \in 1..Len(st)
      PROVE  R[k].user = g[st[k]] /\ R[k].turns = Turns(g, st, k, n)
  <2>1. PICK a, c : a = st[k] /\ c = NextStart(st, k, n)
    OBVIOUS
  <2>2. /\ a \in 1..n /\ c \in 2..(n + 1) /\ a < c
        /\ h[a].role = "user" /\ S[k] \in RoundRecord
        /\ S[k].user = h[a] /\ S[k].turns = SubSeq(h, a + 1, c - 1)
    BY <1>2, <2>1, RoundPlace DEF Turns
  <2>3. g[a] = h[a]
    BY <1>3, <2>2
  <2>4. Turns(g, st, k, n) = SubSeq(g, a + 1, c - 1)
    BY <2>1 DEF Turns
  <2>5. /\ a + 1 \in 1..(n + 1) /\ c - 1 \in 0..n /\ a + 1 <= (c - 1) + 1
    BY <1>2, <2>2
  <2>6. CASE k = K
    <3>1. LastStart(h) = a
      BY <1>5, <2>1, <2>6, LastOfGrouped
    <3>2. SameWithin(g, h, a + 1, c - 1)
      <4> SUFFICES ASSUME NEW i \in (a + 1)..(c - 1)
                   PROVE  g[i] = h[i]
        BY DEF SameWithin
      <4>1. i \in 1..n /\ ~ (i < a)
        BY <1>2, <2>2
      <4> QED
        BY <1>3, <3>1, <4>1
    <3>3. SubSeq(g, a + 1, c - 1) = SubSeq(h, a + 1, c - 1)
      <4>1. PICK x, y : x = a + 1 /\ y = c - 1
        OBVIOUS
      <4>2. /\ x \in 1..(Len(h) + 1) /\ y \in 0..Len(h) /\ x <= y + 1
            /\ SameWithin(g, h, x, y) /\ Len(g) = Len(h)
        BY <1>2, <2>5, <3>2, <4>1
      <4>3. SubSeq(g, x, y) = SubSeq(h, x, y)
        BY <4>2, SameStretch
      <4> QED
        BY <4>1, <4>3
    <3>4. R[k] = S[k]
      BY <1>5, <1>7, <2>6
    <3> QED
      BY <2>1, <2>2, <2>3, <2>4, <3>3, <3>4
  <2>7. CASE k # K
    <3>1. k < K /\ k \in 1..K /\ K \in 1..Len(st) /\ Len(st) # 0
      BY <1>5, <2>7
    <3>2. LastStart(h) = st[K] /\ st[K] \in Nat
      BY <1>4, <1>5, <3>1, LastOfGrouped
    <3>3. c <= st[K]
      <4>1. c = st[k + 1] /\ k + 1 \in 1..Len(st) /\ (k + 1 = K \/ k + 1 < K)
        BY <1>5, <2>1, <3>1 DEF NextStart
      <4>2. k + 1 < K => st[k + 1] < st[K]
        BY <1>4, <3>1, <4>1 DEF Increasing
      <4> QED
        BY SMTT(30), <1>2, <2>2, <3>2, <4>1, <4>2
    <3>4. /\ R[k] = CondenseRoundTools(S[k]) /\ R[k].user = S[k].user
          /\ Condensed(R[k].turns, S[k].turns)
      <4>1. R[k] = CondenseRoundTools(S[k])
        BY <1>7, <3>1
      <4> QED
        BY <2>2, <4>1, CondenseRoundShape
    <3>5. PICK t, s : t = R[k].turns /\ s = S[k].turns
      OBVIOUS
    <3>6. /\ t \in Seq(Message) /\ Len(t) = Len(s)
          /\ \A i \in 1..Len(s) : t[i] = CondenseMessage(s[i])
      BY <3>4, <3>5 DEF Condensed
    <3>7. SubSeqShape(h, a + 1, c - 1) /\ SubSeqShape(g, a + 1, c - 1)
      BY <1>2, <2>5, PartShape
    <3>8. PICK q \in Seq(Message) : q = SubSeq(g, a + 1, c - 1)
      BY <3>7, Zenon DEF SubSeqShape
    <3>9. /\ Len(q) = (c - 1) + 1 - (a + 1) /\ Len(s) = (c - 1) + 1 - (a + 1)
          /\ \A i \in 1..((c - 1) + 1 - (a + 1)) :
                q[i] = g[(a + 1) + i - 1] /\ s[i] = h[(a + 1) + i - 1]
      BY <2>2, <3>5, <3>7, <3>8 DEF SubSeqShape
    <3>10. ASSUME NEW i \in 1..Len(t)
           PROVE  t[i] = q[i]
      <4>1. i \in 1..Len(s) /\ i \in 1..((c - 1) + 1 - (a + 1))
        BY <3>6, <3>9
      <4>2. (a + 1) + i - 1 \in 1..n /\ (a + 1) + i - 1 < LastStart(h)
        BY SMTT(30), <1>2, <2>2, <3>2, <3>3, <4>1
      <4> QED
        BY <1>3, <3>6, <3>9, <4>1, <4>2
    <3>11. t = q
      <4>1. Len(t) = Len(q)
        BY <3>6, <3>9
      <4> QED
        BY <3>6, <3>10, <4>1, SameSequence
    <3> QED
      BY <2>1, <2>2, <2>3, <2>4, <3>4, <3>5, <3>8, <3>11
  <2> QED
    BY <2>6, <2>7
<1>9. \A i \in 1..n : g[i].role = "user" <=> \E j \in 1..Len(st) : st[j] = i
  BY <1>3, <1>4
<1>10. Grouped(R, st, g, n)
  BY <1>4, <1>5, <1>7, <1>8, <1>9 DEF Grouped
<1> QED
  BY <1>1, <1>2, <1>6, <1>10

\* Neighbouring stretches of a history.
LEMMA StretchJoin ==
  ASSUME NEW h \in Seq(Message), NEW a \in 1..(Len(h) + 1),
         NEW b \in 1..(Len(h) + 1), NEW c \in 1..(Len(h) + 1), a <= b, b <= c
  PROVE  Join(SubSeq(h, a, b - 1), SubSeq(h, b, c - 1)) = SubSeq(h, a, c - 1)
<1>1. /\ b - 1 \in 0..Len(h) /\ c - 1 \in 0..Len(h)
      /\ a <= (b - 1) + 1 /\ b <= (c - 1) + 1 /\ a <= (c - 1) + 1
  OBVIOUS
<1>2. /\ SubSeqShape(h, a, b - 1) /\ SubSeqShape(h, b, c - 1)
      /\ SubSeqShape(h, a, c - 1)
  BY <1>1, PartShape
<1>3. PICK x \in Seq(Message), y \in Seq(Message), z \in Seq(Message) :
         /\ x = SubSeq(h, a, b - 1) /\ y = SubSeq(h, b, c - 1)
         /\ z = SubSeq(h, a, c - 1)
  BY <1>2, Zenon DEF SubSeqShape
<1>4. /\ Len(x) = b - a /\ Len(y) = c - b /\ Len(z) = c - a
      /\ \A i \in 1..(b - a) : x[i] = h[a + i - 1]
      /\ \A i \in 1..(c - b) : y[i] = h[b + i - 1]
      /\ \A i \in 1..(c - a) : z[i] = h[a + i - 1]
  <2>1. (b - 1) + 1 - a = b - a /\ (c - 1) + 1 - b = c - b /\ (c - 1) + 1 - a = c - a
    OBVIOUS
  <2> QED
    BY <1>2, <1>3, <2>1 DEF SubSeqShape
<1>5. PICK w \in Seq(Message) : w = Join(x, y)
  <2>1. Join(x, y) \in Seq(Message)
    BY DEF Join
  <2> QED
    BY <2>1, Zenon
<1>6. /\ Len(w) = Len(x) + Len(y)
      /\ \A i \in 1..Len(x) : w[i] = x[i]
      /\ \A i \in 1..Len(y) : w[Len(x) + i] = y[i]
  BY <1>5 DEF Join
<1>7. Len(w) = Len(z) /\ Len(w) = c - a
  BY <1>4, <1>6
<1>8. ASSUME NEW i \in 1..Len(w)
      PROVE  w[i] = z[i]
  <2>1. i \in 1..(c - a)
    BY <1>7
  <2>2. CASE i \in 1..(b - a)
    BY <1>4, <1>6, <2>1, <2>2
  <2>3. CASE i \notin 1..(b - a)
    <3>1. /\ i - (b - a) \in 1..(c - b) /\ (b - a) + (i - (b - a)) = i
          /\ b + (i - (b - a)) - 1 = a + i - 1
      BY <2>1, <2>3
    <3>2. w[(b - a) + (i - (b - a))] = y[i - (b - a)]
      BY <1>4, <1>6, <3>1
    <3>3. y[i - (b - a)] = h[b + (i - (b - a)) - 1]
      BY <1>4, <3>1
    <3> QED
      BY <1>4, <2>1, <3>1, <3>2, <3>3
  <2> QED
    BY <2>2, <2>3
<1>9. w = z
  BY <1>7, <1>8, SameSequence
<1> QED
  BY <1>3, <1>5, <1>9

\* Where the rounds after the first d start.
LEMMA RestStart ==
  ASSUME NEW h \in Seq(Message), NEW S, NEW st, Grouped(S, st, h, Len(h)),
         NEW d \in 0..Len(st)
  PROVE  /\ NextStart(st, d, Len(h)) \in 1..(Len(h) + 1)
         /\ d # Len(st) => /\ d + 1 \in 1..Len(st)
                           /\ NextStart(st, d, Len(h)) = st[d + 1]
         /\ d = Len(st) => NextStart(st, d, Len(h)) = Len(h) + 1
<1>1. st \in Seq(1..Len(h)) /\ Len(st) \in Nat
  BY DEF Grouped
<1>2. CASE d # Len(st)
  <2>1. d < Len(st) /\ d + 1 \in 1..Len(st)
    BY <1>1, <1>2
  <2>2. st[d + 1] \in 1..Len(h)
    BY <1>1, <2>1
  <2> QED
    BY <1>2, <2>1, <2>2 DEF NextStart
<1>3. CASE d = Len(st)
  BY <1>1, <1>3 DEF NextStart
<1> QED
  BY <1>2, <1>3

\* A round's messages are the stretch of the history from its user message to
\* the next one, and take some tokens.
LEMMA RoundMessages ==
  ASSUME NEW h \in Seq(Message), NEW S, NEW st, Grouped(S, st, h, Len(h)),
         NEW k \in 1..Len(st)
  PROVE  /\ AllMessages(S[k]) = SubSeq(h, st[k], NextStart(st, k, Len(h)) - 1)
         /\ AllMessages(S[k]) \in Seq(Message)
         /\ EstimateMessages(AllMessages(S[k])) \in Nat
         /\ EstimateMessages(AllMessages(S[k])) > 0
<1>1. PICK a, c : a = st[k] /\ c = NextStart(st, k, Len(h))
  OBVIOUS
<1>2. /\ a \in 1..Len(h) /\ c \in 2..(Len(h) + 1) /\ a < c
      /\ S[k].user = h[a] /\ S[k].turns = SubSeq(h, a + 1, c - 1)
  BY <1>1, RoundPlace DEF Turns
<1>3. /\ a \in 1..(Len(h) + 1) /\ a + 1 \in 1..(Len(h) + 1) /\ c \in 1..(Len(h) + 1)
      /\ a <= a + 1 /\ a + 1 <= c /\ (a + 1) - 1 = a
      /\ c - 1 \in 0..Len(h) /\ a + 1 <= (c - 1) + 1
  BY <1>2
<1>4. Join(SubSeq(h, a, a), SubSeq(h, a + 1, c - 1)) = SubSeq(h, a, c - 1)
  <2>1. PICK b : b = a + 1
    OBVIOUS
  <2>2. Join(SubSeq(h, a, b - 1), SubSeq(h, b, c - 1)) = SubSeq(h, a, c - 1)
    BY <1>3, <2>1, StretchJoin
  <2> QED
    BY <1>3, <2>1, <2>2
<1>5. PICK m \in Message : m = h[a]
  <2>1. h[a] \in Message
    BY <1>2
  <2> QED
    BY <2>1, Zenon
<1>6. SubSeq(h, a, a) = << m >>
  <2>1. a \in 0..Len(h) /\ a <= a + 1
    BY <1>2
  <2>2. SubSeqShape(h, a, a)
    BY <1>3, <2>1, PartShape
  <2>3. PICK p \in Seq(Message) : p = SubSeq(h, a, a)
    BY <2>2, Zenon DEF SubSeqShape
  <2>4. /\ a + 1 - a = 1 /\ a + 1 - 1 = a /\ 1 \in 1..(a + 1 - a)
    BY <1>2
  <2>5. Len(p) = 1 /\ p[1] = m
    BY <1>5, <2>2, <2>3, <2>4 DEF SubSeqShape
  <2>6. p = << m >>
    BY <2>5
  <2> QED
    BY <2>3, <2>6
<1>7. PICK t \in Seq(Message) : t = SubSeq(h, a + 1, c - 1)
  <2>1. SubSeqShape(h, a + 1, c - 1)
    BY <1>3, PartShape
  <2> QED
    BY <2>1, Zenon DEF SubSeqShape
<1>8. AllMessages(S[k]) = Join(<< m >>, t)
  BY <1>2, <1>5, <1>7 DEF AllMessages, Join
<1>9. PICK w \in Seq(Message) : w = Join(<< m >>, t)
  <2>1. Join(<< m >>, t) \in Seq(Message)
    BY DEF Join
  <2> QED
    BY <2>1, Zenon
<1>10. EstimateMessages(w) \in Nat
  BY EstimateJoin
<1>11. EstimateMessages(Join(<< m >>, t)) > 0
  BY EstimatePositive
<1> QED
  BY <1>1, <1>4, <1>6, <1>7, <1>8, <1>9, <1>10, <1>11

\* R is S without its first d rounds.
RestOf(R, S, d) ==
  /\ R \in Seq(RoundRecord) /\ d \in 0..Len(S) /\ Len(R) = Len(S) - d
  /\ \A i \in 1..Len(R) : R[i] = S[d + i]

\* The rounds from the d-th on, flattened, are the history from there on.
LEMMA RestFlattened ==
  ASSUME NEW h \in Seq(Message), NEW S, NEW st, Grouped(S, st, h, Len(h)),
         NEW R, NEW d, RestOf(R, S, d)
  PROVE  FlattenSeq([i \in DOMAIN R |-> AllMessages(R[i])])
            = From(h, NextStart(st, d, Len(h)))
<1>1. PICK K \in Nat, n \in Nat : K = Len(st) /\ K = Len(S) /\ n = Len(h)
  BY DEF Grouped
<1>2. PICK m \in Nat : m = Len(R) /\ d + m = K /\ d \in 0..K
  <2>1. d \in 0..K /\ Len(R) = K - d
    BY <1>1 DEF RestOf
  <2>2. K - d \in Nat /\ d + (K - d) = K
    BY <2>1
  <2> QED
    BY <2>1, <2>2
<1> DEFINE P == [i \in DOMAIN R |-> AllMessages(R[i])]
<1>3. R \in Seq(RoundRecord) /\ DOMAIN R = 1..m
  BY <1>2 DEF RestOf
<1>4. ASSUME NEW i \in 1..m
      PROVE  /\ d + i \in 1..Len(st)
             /\ P[i] = SubSeq(h, st[d + i], NextStart(st, d + i, n) - 1)
             /\ P[i] \in Seq(Message)
  <2>1. PICK k \in 1..Len(st) : k = d + i
    BY <1>1, <1>2
  <2>2. P[i] = AllMessages(S[k])
    BY <1>2, <1>3, <2>1 DEF RestOf
  <2>3. /\ AllMessages(S[k]) = SubSeq(h, st[k], NextStart(st, k, Len(h)) - 1)
        /\ AllMessages(S[k]) \in Seq(Message)
    BY RoundMessages
  <2> HIDE DEF P
  <2>4. P[i] = SubSeq(h, st[d + i], NextStart(st, d + i, n) - 1)
    BY <1>1, <2>1, <2>2, <2>3, Zenon
  <2>5. P[i] \in Seq(Message)
    BY <2>2, <2>3, Zenon
  <2> QED
    BY <2>1, <2>4, <2>5, Zenon
<1>5. P \in Seq(Seq(Message)) /\ Len(P) = m
  <2>1. \A i \in 1..m : P[i] \in Seq(Message)
    BY <1>4
  <2>2. P = [i \in 1..m |-> P[i]]
    BY <1>3
  <2> HIDE DEF P
  <2> QED
    BY <1>2, <2>1, <2>2
<1> HIDE DEF P
<1>6. PICK a \in 1..(Len(h) + 1) : a = NextStart(st, d, n)
  BY <1>1, <1>2, RestStart
<1>7. PICK f : f = Flat(Message, P)
  OBVIOUS
<1>8. /\ f \in [0..m -> Seq(Message)] /\ f[0] = << >>
      /\ \A i \in 1..m : f[i] = Join(f[i - 1], P[i])
      /\ FlattenSeq(P) = f[m]
  BY <1>5, <1>7, FlatStep
<1> DEFINE N == {k \in Nat : k <= m =>
                    /\ f[k] = SubSeq(h, a, NextStart(st, d + k, n) - 1)
                    /\ a <= NextStart(st, d + k, n)}
<1>9. 0 \in N
  <2>1. SubSeq(h, a, a - 1) = << >>
    OBVIOUS
  <2>2. d + 0 = d /\ a <= a
    BY <1>2
  <2> QED
    BY <1>6, <1>8, <2>1, <2>2
<1>10. ASSUME NEW k \in Nat, k \in N
       PROVE  k + 1 \in N
  <2> SUFFICES ASSUME k + 1 <= m
               PROVE  /\ f[k + 1] = SubSeq(h, a, NextStart(st, d + (k + 1), n) - 1)
                      /\ a <= NextStart(st, d + (k + 1), n)
    OBVIOUS
  <2>1. /\ k + 1 \in 1..m /\ (k + 1) - 1 = k /\ k <= m /\ d + k \in 0..Len(st)
        /\ d + k # Len(st) /\ (d + k) + 1 = d + (k + 1) /\ d + (k + 1) \in 1..Len(st)
    BY <1>1, <1>2
  <2>2. PICK b \in 1..(Len(h) + 1) : b = NextStart(st, d + k, n) /\ b = st[d + (k + 1)]
    <3>1. PICK x \in 0..Len(st) : x = d + k
      BY <2>1
    <3>2. NextStart(st, x, Len(h)) \in 1..(Len(h) + 1) /\ NextStart(st, x, Len(h)) = st[x + 1]
      BY <2>1, <3>1, RestStart
    <3> QED
      BY <1>1, <2>1, <3>1, <3>2
  <2>3. PICK c \in 1..(Len(h) + 1) : c = NextStart(st, d + (k + 1), n) /\ b < c
    <3>1. PICK x \in 1..Len(st) : x = d + (k + 1)
      BY <2>1
    <3>2. NextStart(st, x, Len(h)) \in 2..(Len(h) + 1) /\ st[x] < NextStart(st, x, Len(h))
      BY <3>1, RoundPlace
    <3>3. PICK c : c = NextStart(st, x, Len(h))
      OBVIOUS
    <3>4. c \in 1..(Len(h) + 1) /\ b < c
      BY <2>2, <3>1, <3>2, <3>3
    <3> QED
      BY <1>1, <3>1, <3>3, <3>4
  <2>4. f[k] = SubSeq(h, a, b - 1) /\ a <= b
    BY <1>10, <2>1, <2>2
  <2>5. P[k + 1] = SubSeq(h, b, c - 1)
    BY <1>4, <2>1, <2>2, <2>3
  <2>6. f[k + 1] = Join(SubSeq(h, a, b - 1), SubSeq(h, b, c - 1))
    BY <1>8, <2>1, <2>4, <2>5
  <2>7. b <= c
    BY <2>3
  <2>8. f[k + 1] = SubSeq(h, a, c - 1)
    BY <2>4, <2>6, <2>7, StretchJoin
  <2> QED
    BY <2>3, <2>4, <2>8
<1> HIDE DEF N
<1>11. m \in N
  BY <1>9, <1>10, NaturalInduction
<1>12. f[m] = SubSeq(h, a, NextStart(st, d + m, n) - 1)
  BY <1>11 DEF N
<1>13. NextStart(st, d + m, n) = n + 1
  BY <1>1, <1>2 DEF NextStart
<1>14. f[m] = From(h, a)
  BY <1>1, <1>12, <1>13 DEF From
<1> QED
  BY <1>1, <1>6, <1>8, <1>14 DEF P

\* As many rounds start at the next start or later as are left.
LEMMA RestCounted ==
  ASSUME NEW h \in Seq(Message), NEW S, NEW st, Grouped(S, st, h, Len(h)),
         NEW d \in 0..Len(st)
  PROVE  Cardinality(RoundsFrom(h, NextStart(st, d, Len(h)))) = Len(st) - d
<1>1. PICK K \in Nat, n \in Nat : K = Len(st) /\ n = Len(h)
  BY DEF Grouped
<1>2. PICK c \in 1..(n + 1) : c = NextStart(st, d, n)
  BY <1>1, RestStart
<1>3. /\ st \in Seq(1..n) /\ Increasing(st)
      /\ \A i \in 1..n : h[i].role = "user" <=> \E j \in 1..K : st[j] = i
  BY <1>1 DEF Grouped
<1>4. \A k \in (d + 1)..K : k \in 1..K
  BY <1>1
<1>5. ASSUME NEW k \in (d + 1)..K
      PROVE  st[k] \in RoundsFrom(h, c)
  <2>1. k \in 1..K /\ d # K
    BY <1>1
  <2>2. st[k] \in 1..n /\ h[st[k]].role = "user"
    BY <1>1, <2>1, RoundPlace
  <2>3. c = st[d + 1] /\ d + 1 \in 1..K
    BY <1>1, <1>2, <2>1, RestStart
  <2>4. k = d + 1 \/ d + 1 < k
    BY <1>1
  <2>5. c <= st[k]
    BY <1>1, <1>2, <1>3, <2>1, <2>2, <2>3, <2>4 DEF Increasing
  <2> QED
    BY <1>1, <1>2, <2>2, <2>5 DEF RoundsFrom, RoundStarts
<1>6. ASSUME NEW i \in RoundsFrom(h, c)
      PROVE  \E k \in (d + 1)..K : st[k] = i
  <2>1. i \in 1..n /\ h[i].role = "user" /\ i >= c
    BY <1>1 DEF RoundsFrom, RoundStarts
  <2>2. PICK k \in 1..K : st[k] = i
    BY <1>3, <2>1
  <2>3. k >= d + 1
    <3>1. CASE d = K
      <4>1. c = n + 1
        BY <1>1, <1>2, <3>1, RestStart
      <4> QED
        BY <1>1, <2>1, <4>1
    <3>2. CASE d # K
      <4>1. c = st[d + 1] /\ d + 1 \in 1..K
        BY <1>1, <1>2, <3>2, RestStart
      <4>2. k < d + 1 => st[k] < st[d + 1]
        BY <1>1, <1>3, <4>1 DEF Increasing
      <4> QED
        BY <1>1, <1>2, <2>1, <2>2, <4>1, <4>2
    <3> QED
      BY <3>1, <3>2
  <2>4. k \in (d + 1)..K
    BY <1>1, <2>3
  <2> QED
    BY <2>2, <2>4
<1>7. ASSUME NEW i \in (d + 1)..K, NEW j \in (d + 1)..K, st[i] = st[j]
      PROVE  i = j
  <2>1. i \in 1..K /\ j \in 1..K
    BY <1>4
  <2>2. st[i] \in Nat /\ st[j] \in Nat
    BY <1>1, <1>3, <2>1
  <2>3. (i < j => st[i] < st[j]) /\ (j < i => st[j] < st[i])
    BY <1>1, <1>3, <2>1 DEF Increasing
  <2> QED
    BY <1>7, <2>1, <2>2, <2>3
<1>8. PICK I, D : I = (d + 1)..K /\ D = RoundsFrom(h, c)
  OBVIOUS
<1> DEFINE f == [k \in I |-> st[k]]
<1>9. f \in [I -> D] /\ \A k \in I : f[k] = st[k]
  BY <1>5, <1>8
<1>10. f \in Injection(I, D)
  <2>1. DOMAIN f = I
    BY <1>9
  <2>2. IsInjective(f)
    BY <1>7, <1>8, <1>9, <2>1 DEF IsInjective
  <2> QED
    BY <1>9, <2>2 DEF Injection
<1>11. f \in Surjection(I, D)
  BY <1>6, <1>8, <1>9 DEF Surjection
<1> HIDE DEF f
<1>12. ExistsBijection(I, D)
  BY <1>10, <1>11 DEF ExistsBijection, Bijection
<1>13. IsFiniteSet(I) /\ Cardinality(I) = Len(st) - d
  <2>1. d + 1 \in Int /\ K \in Int
    OBVIOUS
  <2>2. /\ IsFiniteSet((d + 1)..K)
        /\ Cardinality((d + 1)..K) = IF d + 1 > K THEN 0 ELSE K - (d + 1) + 1
    BY <2>1, FS_Interval, Zenon
  <2> QED
    BY <1>1, <1>8, <2>2
<1>14. Cardinality(D) = Cardinality(I)
  BY <1>12, <1>13, FS_Bijection
<1> QED
  BY <1>1, <1>2, <1>8, <1>13, <1>14

-----------------------------------------------------------------------------
(* The pruning loop stops at the cut.                                      *)

\* The estimate of the system message and of what is kept from c on.
TokensFrom(h, c) == EstimateMessages(Lead(h) \o From(h, c))

LEMMA LeadType ==
  ASSUME NEW h \in Seq(Message)
  PROVE  Lead(h) \in Seq(Message)
<1>1. CASE h # << >> /\ h[1].role = "system"
  <2>1. h[1] \in Message
    BY <1>1
  <2> QED
    BY <1>1, <2>1 DEF Lead
<1>2. CASE ~ (h # << >> /\ h[1].role = "system")
  BY <1>2 DEF Lead
<1> QED
  BY <1>1, <1>2

\* Leaving a round out takes its tokens from the estimate.
LEMMA RoundFreed ==
  ASSUME NEW h \in Seq(Message), NEW S, NEW st, Grouped(S, st, h, Len(h)),
         NEW k \in 1..Len(st)
  PROVE  /\ TokensFrom(h, st[k]) \in Nat
         /\ TokensFrom(h, NextStart(st, k, Len(h)))
              = TokensFrom(h, st[k]) - EstimateMessages(AllMessages(S[k]))
<1>1. PICK a, c : a = st[k] /\ c = NextStart(st, k, Len(h))
  OBVIOUS
<1>2. /\ a \in 1..(Len(h) + 1) /\ c \in 1..(Len(h) + 1) /\ a <= c
      /\ Len(h) + 1 \in 1..(Len(h) + 1) /\ c <= Len(h) + 1
      /\ (Len(h) + 1) - 1 = Len(h)
  BY <1>1, RoundPlace
<1>3. PICK x \in Seq(Message) : x = AllMessages(S[k]) /\ x = SubSeq(h, a, c - 1)
  <2>1. /\ AllMessages(S[k]) = SubSeq(h, st[k], NextStart(st, k, Len(h)) - 1)
        /\ AllMessages(S[k]) \in Seq(Message)
    BY RoundMessages
  <2> QED
    BY <1>1, <2>1
<1>4. PICK y \in Seq(Message), z \in Seq(Message), l \in Seq(Message) :
         y = From(h, c) /\ z = From(h, a) /\ l = Lead(h)
  BY <1>2, FromShape, LeadType
<1>5. z = Join(x, y)
  <2>1. PICK e \in 1..(Len(h) + 1) : e = Len(h) + 1 /\ e - 1 = Len(h)
    BY <1>2
  <2>2. a <= c /\ c <= e
    BY <1>2, <2>1
  <2>3. Join(SubSeq(h, a, c - 1), SubSeq(h, c, e - 1)) = SubSeq(h, a, e - 1)
    BY <1>2, <2>2, StretchJoin
  <2> QED
    BY <1>3, <1>4, <2>1, <2>3 DEF From
<1>6. /\ EstimateMessages(x) \in Nat /\ EstimateMessages(y) \in Nat
      /\ EstimateMessages(l) \in Nat
      /\ EstimateMessages(Join(x, y)) = EstimateMessages(x) + EstimateMessages(y)
      /\ EstimateMessages(Join(l, y)) = EstimateMessages(l) + EstimateMessages(y)
      /\ EstimateMessages(Join(l, z)) = EstimateMessages(l) + EstimateMessages(z)
  BY EstimateJoin
<1>7. /\ TokensFrom(h, a) = EstimateMessages(Join(l, z))
      /\ TokensFrom(h, c) = EstimateMessages(Join(l, y))
  BY <1>4 DEF TokensFrom, Join
<1>8. EstimateMessages(z) = EstimateMessages(x) + EstimateMessages(y)
  BY <1>5, <1>6
<1>9. /\ TokensFrom(h, a) \in Nat
      /\ TokensFrom(h, c) = TokensFrom(h, a) - EstimateMessages(x)
  BY <1>6, <1>7, <1>8
<1> QED
  BY <1>1, <1>3, <1>9

\* After d turns that left a round out: the first d rounds are gone, the
\* running count is that of what is left, and no earlier cut was admissible.
LoopAt(left, S, st, h, d) ==
  /\ RestOf(left.rounds, S, d)
  /\ left.tokens = TokensFrom(h, NextStart(st, d, Len(h)))
  /\ left.ended = FALSE
  /\ \A k \in 1..d : st[k] \notin Cuts(h)

\* Which cuts are admissible.
LEMMA RestAdmissible ==
  ASSUME NEW h \in Seq(Message), NEW S, NEW st, Grouped(S, st, h, Len(h)),
         NEW d \in 0..Len(st)
  PROVE  NextStart(st, d, Len(h)) \in Cuts(h)
           <=> \/ TokensFrom(h, NextStart(st, d, Len(h))) <= TargetTokens
               \/ Len(st) - d <= KeepRecentRounds
<1>1. PICK c : c = NextStart(st, d, Len(h))
  OBVIOUS
<1>2. Cardinality(RoundsFrom(h, c)) = Len(st) - d
  BY <1>1, RestCounted
<1>3. c \in RoundStarts(h) \cup {Len(h) + 1}
  <2>1. CASE d = Len(st)
    BY <1>1, <2>1, RestStart
  <2>2. CASE d # Len(st)
    <3>1. d + 1 \in 1..Len(st) /\ c = st[d + 1]
      BY <1>1, <2>2, RestStart
    <3>2. st[d + 1] \in 1..Len(h) /\ h[st[d + 1]].role = "user"
      <4>1. PICK k \in 1..Len(st) : k = d + 1
        BY <3>1
      <4>2. st[k] \in 1..Len(h) /\ h[st[k]].role = "user"
        BY RoundPlace
      <4> QED
        BY <4>1, <4>2
    <3> QED
      BY <3>1, <3>2 DEF RoundStarts
  <2> QED
    BY <2>1, <2>2
<1> QED
  BY <1>1, <1>2, <1>3 DEF Cuts, Fits, AtFloor, TokensFrom

LoopState == [rounds : Seq(RoundRecord), tokens : Int, ended : BOOLEAN]

\* A turn keeps the types.
LEMMA PruneOldestType ==
  ASSUME NEW left \in LoopState
  PROVE  PruneOldest(left) \in LoopState
<1>1. left.rounds \in Seq(RoundRecord) /\ left.tokens \in Int
  BY DEF LoopState
<1>2. CASE \/ left.ended \/ left.tokens <= TargetTokens
           \/ Len(left.rounds) <= KeepRecentRounds
  BY <1>2 DEF PruneOldest
<1>3. CASE ~ (\/ left.ended \/ left.tokens <= TargetTokens
              \/ Len(left.rounds) <= KeepRecentRounds)
  <2>1. Len(left.rounds) \in Nat /\ Len(left.rounds) # 0 /\ 1 \in 1..Len(left.rounds)
    BY <1>1, <1>3, CompactionAssumption
  <2>2. PICK r \in RoundRecord : r = Head(left.rounds)
    <3>1. Head(left.rounds) \in RoundRecord
      BY <1>1, <2>1
    <3> QED
      BY <3>1, Zenon
  <2>3. PICK w \in Seq(Message) : w = AllMessages(r)
    <3>1. r.user \in Message /\ r.turns \in Seq(Message)
      BY DEF RoundRecord
    <3>2. AllMessages(r) \in Seq(Message)
      BY <3>1 DEF AllMessages
    <3> QED
      BY <3>2, Zenon
  <2>4. PICK freed \in Nat : freed = EstimateMessages(AllMessages(Head(left.rounds)))
    BY <2>2, <2>3, EstimateJoin
  <2>5. PICK R \in Seq(RoundRecord) : R = Tail(left.rounds)
    <3>1. PICK q \in Seq(RoundRecord) : q = left.rounds /\ q # << >>
      BY <1>1, <2>1
    <3>2. Tail(q) \in Seq(RoundRecord)
      BY <3>1, HeadTailProperties
    <3> QED
      BY <3>1, <3>2
  <2>6. PruneOldest(left)
          = [rounds |-> R,
             tokens |-> IF freed <= 0 THEN left.tokens ELSE left.tokens - freed,
             ended  |-> freed <= 0]
    BY <1>3, <2>4, <2>5 DEF PruneOldest
  <2>7. (IF freed <= 0 THEN left.tokens ELSE left.tokens - freed) \in Int
    BY <1>1
  <2> QED
    BY <2>6, <2>7 DEF LoopState
<1> QED
  BY <1>2, <1>3

\* A turn stops at an admissible cut and leaves a round out otherwise.
LEMMA PruneTurn ==
  ASSUME NEW h \in Seq(Message), NEW S, NEW st, Grouped(S, st, h, Len(h)),
         NEW left \in LoopState, NEW d \in 0..Len(st), LoopAt(left, S, st, h, d)
  PROVE  IF NextStart(st, d, Len(h)) \in Cuts(h)
           THEN PruneOldest(left) = left
           ELSE /\ d + 1 \in 0..Len(st)
                /\ LoopAt(PruneOldest(left), S, st, h, d + 1)
<1>1. PICK K \in Nat : K = Len(st) /\ K = Len(S)
  BY DEF Grouped
<1>2. PICK R \in Seq(RoundRecord) : R = left.rounds
  BY DEF LoopState
<1>3. /\ Len(R) = K - d /\ \A i \in 1..Len(R) : R[i] = S[d + i]
      /\ left.tokens = TokensFrom(h, NextStart(st, d, Len(h)))
      /\ left.ended = FALSE /\ \A k \in 1..d : st[k] \notin Cuts(h)
  BY <1>1, <1>2 DEF LoopAt, RestOf
<1>4. CASE NextStart(st, d, Len(h)) \in Cuts(h)
  <2>1. left.tokens <= TargetTokens \/ Len(R) <= KeepRecentRounds
    BY <1>1, <1>3, <1>4, RestAdmissible
  <2> QED
    BY <1>2, <1>4, <2>1 DEF PruneOldest
<1>5. CASE NextStart(st, d, Len(h)) \notin Cuts(h)
  <2>1. ~ (left.tokens <= TargetTokens) /\ ~ (Len(R) <= KeepRecentRounds)
    BY <1>1, <1>3, <1>5, RestAdmissible
  <2>2. Len(R) # 0 /\ d # K /\ 1 \in 1..Len(R)
    BY <1>1, <1>3, <2>1, CompactionAssumption
  <2>3. PICK k \in 1..Len(st) :
           k = d + 1 /\ NextStart(st, d, Len(h)) = st[k] /\ k \in 0..Len(st)
    <3>1. d # Len(st)
      BY <1>1, <2>2
    <3>2. d + 1 \in 1..Len(st) /\ NextStart(st, d, Len(h)) = st[d + 1]
      BY <3>1, RestStart
    <3>3. d + 1 \in 0..Len(st)
      BY <3>2
    <3> QED
      BY <3>2, <3>3, Zenon
  <2>4. Head(R) = S[k]
    BY <1>3, <2>2, <2>3
  <2>5. PICK freed \in Nat : freed = EstimateMessages(AllMessages(S[k])) /\ freed > 0
    BY RoundMessages
  <2>6. PICK Q \in Seq(RoundRecord) :
           /\ Q = Tail(R) /\ Len(Q) = Len(R) - 1
           /\ \A i \in 1..Len(Q) : Q[i] = R[i + 1]
    <3>1. R # << >>
      BY <2>2
    <3> QED
      BY <3>1, HeadTailProperties
  <2>7. PruneOldest(left) = [rounds |-> Q, tokens |-> left.tokens - freed, ended |-> FALSE]
    <3>1. ~ (freed <= 0) /\ (freed <= 0) = FALSE
      BY <2>5
    <3>2. PruneOldest(left)
            = [rounds |-> Q,
               tokens |-> IF freed <= 0 THEN left.tokens ELSE left.tokens - freed,
               ended  |-> freed <= 0]
      BY <1>2, <1>3, <2>1, <2>4, <2>5, <2>6 DEF PruneOldest
    <3> QED
      BY <3>1, <3>2
  <2>8. RestOf(Q, S, k)
    <3>1. k \in 0..Len(S) /\ Len(Q) = Len(S) - k
      BY <1>1, <1>3, <2>3, <2>6
    <3>2. ASSUME NEW i \in 1..Len(Q)
          PROVE  Q[i] = S[k + i]
      <4>1. i + 1 \in 1..Len(R) /\ d + (i + 1) = k + i
        BY <1>3, <2>3, <2>6
      <4> QED
        BY <1>3, <2>6, <4>1
    <3> QED
      BY <3>1, <3>2 DEF RestOf
  <2>9. left.tokens - freed = TokensFrom(h, NextStart(st, k, Len(h)))
    BY <1>3, <2>3, <2>5, RoundFreed
  <2>10. \A j \in 1..k : st[j] \notin Cuts(h)
    <3>1. \A j \in 1..k : j \in 1..d \/ j = k
      BY <2>3
    <3> QED
      BY <1>3, <1>5, <2>3, <3>1
  <2>11. LoopAt(PruneOldest(left), S, st, h, k)
    BY <2>7, <2>8, <2>9, <2>10 DEF LoopAt
  <2> QED
    BY <1>5, <2>3, <2>11
<1> QED
  BY <1>4, <1>5

\* What the loop leaves: the rounds from an admissible cut on, which no
\* earlier round starts.
LEMMA PruneLoopRight ==
  ASSUME NEW h \in Seq(Message), NEW S, NEW st, Grouped(S, st, h, Len(h)),
         NEW tokens \in Int, tokens = TokensFrom(h, NextStart(st, 0, Len(h)))
  PROVE  \E d \in 0..Len(st) :
            /\ LoopAt(PruneRoundsToTarget(S, tokens), S, st, h, d)
            /\ NextStart(st, d, Len(h)) \in Cuts(h)
<1>1. PICK n \in Nat : n = Len(st) /\ n = Len(S) /\ S \in Seq(RoundRecord)
  BY DEF Grouped
<1>2. PICK b \in LoopState : b = [rounds |-> S, tokens |-> tokens, ended |-> FALSE]
  <2>1. [rounds |-> S, tokens |-> tokens, ended |-> FALSE] \in LoopState
    BY <1>1 DEF LoopState
  <2> QED
    BY <2>1, Zenon
<1> DEFINE Body(g, i) == IF i = 0 THEN b ELSE PruneOldest(g[i - 1])
           It == CHOOSE g : g = [i \in 0..n |-> Body(g, i)]
           G == [p \in (1..n) \X LoopState |-> PruneOldest(p[2])]
<1>3. PruneRoundsToTarget(S, tokens) = It[n]
  BY <1>1, <1>2 DEF PruneRoundsToTarget
<1>4. ASSUME NEW i \in 1..n, NEW s \in LoopState
      PROVE  G[<< i, s >>] = PruneOldest(s)
  OBVIOUS
<1>5. G \in [(1..n) \X LoopState -> LoopState]
  BY PruneOldestType
<1> HIDE DEF G
<1>6. PICK f \in [0..n -> LoopState] : Iteration(f, n, b, G)
  BY <1>5, Iterates
<1>7. f[0] = b /\ \A i \in 1..n : f[i] = PruneOldest(f[i - 1])
  <2>1. \A i \in 1..n : i - 1 \in 0..n
    BY <1>1
  <2> QED
    BY <1>4, <1>6, <2>1 DEF Iteration
<1>8. \A i \in 0..n : f[i] = Body(f, i)
  <2>1. \A i \in 0..n : i = 0 \/ i \in 1..n
    BY <1>1
  <2>2. \A i \in 1..n : i # 0
    BY <1>1
  <2> QED
    BY <1>7, <2>1, <2>2
<1>9. f = [i \in 0..n |-> Body(f, i)]
  BY <1>8
<1>10. It = [i \in 0..n |-> Body(It, i)]
  BY <1>9
<1> HIDE DEF It
<1>11. \A i \in 0..n : It[i] = Body(It, i)
  BY <1>10
<1> DEFINE At(k) == \E d \in 0..n :
                       /\ It[k] \in LoopState /\ LoopAt(It[k], S, st, h, d)
                       /\ d = k \/ NextStart(st, d, Len(h)) \in Cuts(h)
           N == {k \in Nat : k <= n => At(k)}
<1>12. 0 \in N
  <2>1. It[0] = b
    BY <1>1, <1>11
  <2>2. /\ b.rounds = S /\ b.tokens = tokens /\ b.ended = FALSE
    BY <1>2
  <2>3. RestOf(S, S, 0)
    BY <1>1 DEF RestOf
  <2>4. \A k \in 1..0 : st[k] \notin Cuts(h)
    OBVIOUS
  <2>5. LoopAt(b, S, st, h, 0)
    BY <2>2, <2>3, <2>4 DEF LoopAt
  <2> QED
    BY <1>1, <2>1, <2>5
<1>13. ASSUME NEW k \in Nat, k \in N
       PROVE  k + 1 \in N
  <2> SUFFICES ASSUME k + 1 <= n
               PROVE  At(k + 1)
    OBVIOUS
  <2>1. k + 1 \in 0..n /\ k + 1 # 0 /\ (k + 1) - 1 = k /\ k <= n /\ k # n
    BY <1>1
  <2>2. It[k + 1] = PruneOldest(It[k])
    BY <1>11, <2>1
  <2>3. PICK d \in 0..n, s \in LoopState :
           /\ s = It[k] /\ LoopAt(s, S, st, h, d)
           /\ d = k \/ NextStart(st, d, Len(h)) \in Cuts(h)
    BY <1>13, <2>1
  <2>4. PruneOldest(s) \in LoopState
    BY PruneOldestType
  <2>5. CASE NextStart(st, d, Len(h)) \in Cuts(h)
    <3>1. PruneOldest(s) = s
      BY <1>1, <2>3, <2>5, PruneTurn
    <3> QED
      BY <2>2, <2>3, <2>5, <3>1
  <2>6. CASE NextStart(st, d, Len(h)) \notin Cuts(h)
    <3>1. d = k /\ d + 1 \in 0..Len(st) /\ LoopAt(PruneOldest(s), S, st, h, d + 1)
      BY <1>1, <2>3, <2>6, PruneTurn
    <3> QED
      BY <1>1, <2>2, <2>3, <2>4, <3>1
  <2> QED
    BY <2>5, <2>6
<1> HIDE DEF N
<1>14. n \in N
  BY <1>1, <1>12, <1>13, NaturalInduction
<1>15. PICK d \in 0..n :
          /\ LoopAt(It[n], S, st, h, d)
          /\ d = n \/ NextStart(st, d, Len(h)) \in Cuts(h)
  BY <1>14 DEF N
<1>16. CASE d = n
  <2>1. Len(st) - d = 0 /\ d \in 0..Len(st)
    BY <1>1, <1>16
  <2>2. NextStart(st, d, Len(h)) \in Cuts(h)
    BY <2>1, RestAdmissible, CompactionAssumption
  <2> QED
    BY <1>1, <1>3, <1>15, <2>2
<1>17. CASE d # n
  BY <1>1, <1>3, <1>15, <1>17
<1> QED
  BY <1>16, <1>17

\* Condensing leaves the first message alone, if that is a system message.
LEMMA CondenseLead ==
  ASSUME NEW h \in Seq(Message)
  PROVE  Lead(Condense(h)) = Lead(h)
<1>1. PICK g \in Seq(Message) : g = Condense(h)
  BY CondenseShape, Zenon
<1>2. /\ Len(g) = Len(h)
      /\ \A i \in 1..Len(h) : g[i].role = h[i].role
      /\ \A i \in 1..Len(h) : h[i].role # "tool" => g[i] = h[i]
  BY <1>1, CondenseShape
<1>3. CASE h = << >>
  <2>1. g = << >>
    BY <1>2, <1>3
  <2> QED
    BY <1>1, <1>3, <2>1 DEF Lead
<1>4. CASE h # << >>
  <2>1. g # << >> /\ 1 \in 1..Len(h)
    BY <1>2, <1>4
  <2>2. g[1].role = h[1].role /\ (h[1].role = "system" => g[1] = h[1])
    BY <1>2, <2>1
  <2> QED
    BY <1>1, <1>4, <2>1, <2>2 DEF Lead
<1> QED
  BY <1>3, <1>4

\* What the loops of compact work on and where they stop.
Stops(h, S, st, d) ==
  /\ Grouped(S, st, h, Len(h)) /\ d \in 0..Len(st)
  /\ Cut(h) = NextStart(st, d, Len(h))
  /\ \A k \in 1..d : st[k] \notin Cuts(h)

\* What compact returns when it compacts.
Returns(r, h) ==
  /\ r.compacted = TRUE /\ r.messages = Prune(h)
  /\ r.tokens = EstimateMessages(Prune(h))

LEMMA LoopsRight ==
  ASSUME NEW h \in Seq(Message), SystemFirst(h), MustCompact(h)
  PROVE  /\ Returns(CompactResult(h), Condense(h))
         /\ \E S, st, d : Stops(Condense(h), S, st, d)
<1>1. PICK g \in Seq(Message) : g = Condense(h) /\ Lead(g) = Lead(h)
  BY CondenseShape, CondenseLead, Zenon
<1>2. PICK st : Grouped(GroupIntoRounds(h), st, h, Len(h))
  BY GroupIntoRoundsRight
<1>3. PICK R : R = CondenseHistoricalRounds(GroupIntoRounds(h)) /\ Grouped(R, st, g, Len(g))
  BY <1>1, <1>2, CondensedRoundsRight
<1>4. R \in Seq(RoundRecord) /\ Len(R) = Len(st) /\ Len(st) \in Nat /\ 0 \in 0..Len(st)
  BY <1>3 DEF Grouped
<1>5. \A Q, d : RestOf(Q, R, d) =>
         Flatten(Lead(h), Q) = Lead(g) \o From(g, NextStart(st, d, Len(g)))
  <2> TAKE Q, d
  <2> HAVE RestOf(Q, R, d)
  <2>1. FlattenSeq([i \in DOMAIN Q |-> AllMessages(Q[i])])
          = From(g, NextStart(st, d, Len(g)))
    BY <1>3, RestFlattened
  <2> QED
    BY <1>1, <2>1, Zenon DEF Flatten
<1>6. RestOf(R, R, 0)
  BY <1>4 DEF RestOf
<1>7. PICK tokens : tokens = EstimateMessages(Flatten(Lead(h), R))
  OBVIOUS
<1>8. tokens = TokensFrom(g, NextStart(st, 0, Len(g)))
  BY <1>5, <1>6, <1>7 DEF TokensFrom
<1>9. tokens \in Int
  <2>1. PICK c \in 1..(Len(g) + 1) : c = NextStart(st, 0, Len(g))
    BY <1>3, <1>4, RestStart
  <2>2. PICK x \in Seq(Message), y \in Seq(Message) : x = Lead(g) /\ y = From(g, c)
    BY LeadType, FromShape
  <2>3. PICK w \in Seq(Message) : w = x \o y
    <3>1. x \o y \in Seq(Message)
      OBVIOUS
    <3> QED
      BY <3>1, Zenon
  <2>4. EstimateMessages(w) \in Nat
    BY EstimateJoin
  <2> QED
    BY <1>8, <2>1, <2>2, <2>3, <2>4 DEF TokensFrom
<1>10. PICK p : p = PruneRoundsToTarget(R, tokens)
  OBVIOUS
<1>11. PICK d \in 0..Len(st) :
          LoopAt(p, R, st, g, d) /\ NextStart(st, d, Len(g)) \in Cuts(g)
  BY <1>3, <1>8, <1>9, <1>10, PruneLoopRight
<1>12. PICK c : c = NextStart(st, d, Len(g))
  OBVIOUS
<1>13. /\ RestOf(p.rounds, R, d) /\ p.tokens = TokensFrom(g, c)
       /\ \A k \in 1..d : st[k] \notin Cuts(g)
  BY <1>11, <1>12 DEF LoopAt
<1>14. Cut(g) = c
  <2>1. /\ Cut(g) \in Cuts(g) /\ Cut(g) <= c /\ Cut(g) \in Nat
        /\ c \in 1..(Len(g) + 1)
    BY <1>3, <1>11, <1>12, CutIsLeast, CutStartsRound, RestStart
  <2> SUFFICES ASSUME Cut(g) # c
               PROVE  FALSE
    OBVIOUS
  <2>2. Cut(g) < c
    BY <2>1
  <2>3. Cut(g) \in 1..Len(g) /\ g[Cut(g)].role = "user"
    <3>1. Cut(g) \in DOMAIN g
      BY <2>1, <2>2, CutStartsRound
    <3> QED
      BY <3>1, CutStartsRound
  <2>4. PICK j \in 1..Len(st) : st[j] = Cut(g)
    BY <1>3, <2>3 DEF Grouped
  <2>5. j \in 1..d
    <3>1. CASE d = Len(st)
      BY <3>1
    <3>2. CASE d # Len(st)
      <4>1. PICK k \in 1..Len(st) : k = d + 1 /\ c = st[k]
        BY <1>3, <1>12, <3>2, RestStart
      <4>2. k < j => st[k] < st[j]
        BY <1>3 DEF Grouped, Increasing
      <4>3. st[j] < st[k]
        BY <2>2, <2>4, <4>1
      <4>4. st[j] \in Nat /\ st[k] \in Nat
        BY <2>1, <2>4, <4>1
      <4>5. k # j /\ ~ (k < j)
        BY <4>2, <4>3, <4>4
      <4> QED
        BY <1>4, <4>1, <4>5
    <3> QED
      BY <3>1, <3>2
  <2> QED
    BY <1>13, <2>1, <2>4, <2>5
<1>15. Stops(g, R, st, d)
  BY <1>3, <1>11, <1>12, <1>13, <1>14 DEF Stops
<1>16. Flatten(Lead(h), p.rounds) = Prune(g)
  BY <1>5, <1>12, <1>13, <1>14 DEF Prune
<1>17. p.tokens = EstimateMessages(Prune(g))
  BY <1>13, <1>14 DEF TokensFrom, Prune
<1>18. Enabled /\ ~ (EstimateMessages(h) <= MaxTokens)
  <2>1. EstimateMessages(h) \in Nat /\ EstimateMessages(h) > MaxTokens /\ Enabled
    BY EstimateJoin DEF MustCompact
  <2> QED
    BY <2>1, CompactionAssumption
<1>19. CompactResult(h)
          = [compacted |-> TRUE, messages |-> Flatten(Lead(h), p.rounds),
             tokens |-> p.tokens]
  BY <1>3, <1>7, <1>10, <1>18, Zenon DEF CompactResult
<1>20. Returns(CompactResult(h), g)
  BY <1>16, <1>17, <1>19 DEF Returns
<1> QED
  BY <1>1, <1>15, <1>20

LEMMA NothingCompacted ==
  ASSUME NEW h \in Seq(Message), ~ MustCompact(h)
  PROVE  CompactResult(h)
           = [compacted |-> FALSE, messages |-> h, tokens |-> EstimateMessages(h)]
<1>1. EstimateMessages(h) \in Nat
  BY EstimateJoin
<1>2. ~ Enabled \/ EstimateMessages(h) <= MaxTokens
  BY <1>1, CompactionAssumption DEF MustCompact
<1> QED
  BY <1>2 DEF CompactResult

\* As many rounds are left as start at the cut or later.
LEMMA KeptCounted ==
  ASSUME NEW h \in Seq(Message), NEW S, NEW st, NEW d, Stops(h, S, st, d)
  PROVE  /\ Cardinality(RoundStarts(Prune(h))) = Len(st) - d
         /\ Cardinality(RoundStarts(h)) = Len(st)
         /\ Len(st) \in Nat /\ d \in 0..Len(st)
<1>1. /\ Grouped(S, st, h, Len(h)) /\ d \in 0..Len(st) /\ Len(st) \in Nat
      /\ Cut(h) = NextStart(st, d, Len(h))
  BY DEF Stops, Grouped
<1>2. PICK c, D : c = Cut(h) /\ D = RoundsFrom(h, c)
  OBVIOUS
<1>3. Cardinality(D) = Len(st) - d
  BY <1>1, <1>2, RestCounted
<1>4. Cardinality(RoundStarts(h)) = Len(st)
  <2>1. PICK e \in 0..Len(st) : e = 0
    BY <1>1
  <2>2. PICK b : b = NextStart(st, e, Len(h))
    OBVIOUS
  <2>3. Cardinality(RoundsFrom(h, b)) = Len(st)
    BY <1>1, <2>1, <2>2, RestCounted
  <2>4. ASSUME NEW i \in RoundStarts(h)
        PROVE  i >= b
    <3>1. i \in 1..Len(h) /\ h[i].role = "user"
      BY DEF RoundStarts
    <3>2. PICK j \in 1..Len(st) : st[j] = i
      BY <1>1, <3>1 DEF Grouped
    <3>3. b = st[1] /\ 1 \in 1..Len(st)
      BY <1>1, <2>1, <2>2, <3>2, RestStart
    <3>4. j = 1 \/ st[1] < st[j]
      BY <1>1, <3>3 DEF Grouped, Increasing
    <3>5. st[1] \in Nat
      BY <1>1, <3>3, RoundPlace
    <3> QED
      BY <3>1, <3>2, <3>3, <3>4, <3>5
  <2>5. RoundsFrom(h, b) = RoundStarts(h)
    BY <2>4 DEF RoundsFrom
  <2> QED
    BY <2>3, <2>5
<1>5. PICK p \in Seq(Message) : p = Prune(h)
  BY PruneShape
<1>6. PICK L, s :
         /\ L \in {0, 1} /\ c \in 1..(Len(h) + 1) /\ s \in Int /\ s = c - 1 - L
         /\ Len(p) = Len(h) - s
         /\ L = 1 => p[1].role = "system"
         /\ \A i \in (L + 1)..Len(p) : p[i] = h[i + s]
  <2>1. PICK L, s : SuffixOf(p, h, c, L, s)
    BY <1>2, <1>5, PruneIsSuffix
  <2> QED
    BY <2>1 DEF SuffixOf
<1> DEFINE f == [i \in D |-> i - s]
           T == RoundStarts(p)
<1>7. ASSUME NEW i \in D
      PROVE  i \in Nat /\ i - s \in T
  <2>1. i \in 1..Len(h) /\ h[i].role = "user" /\ i >= c
    BY <1>2 DEF RoundsFrom, RoundStarts
  <2>2. i - s \in (L + 1)..Len(p) /\ (i - s) + s = i /\ i - s \in 1..Len(p)
    BY <1>6, <2>1
  <2>3. p[i - s].role = "user"
    BY <1>6, <2>1, <2>2
  <2> QED
    BY <2>1, <2>2, <2>3 DEF RoundStarts
<1>8. ASSUME NEW j \in T
      PROVE  \E i \in D : i - s = j
  <2>1. j \in 1..Len(p) /\ p[j].role = "user"
    BY DEF RoundStarts
  <2>2. j \in (L + 1)..Len(p)
    BY <1>6, <2>1
  <2>3. j + s \in 1..Len(h) /\ j + s >= c /\ (j + s) - s = j
    BY <1>6, <2>1, <2>2
  <2>4. h[j + s].role = "user"
    BY <1>6, <2>1, <2>2
  <2>5. j + s \in D
    BY <1>2, <2>3, <2>4 DEF RoundsFrom, RoundStarts
  <2> QED
    BY <2>3, <2>5
<1> HIDE DEF T
<1>9. f \in [D -> T] /\ \A i \in D : f[i] = i - s
  BY <1>7
<1>10. f \in Injection(D, T)
  <2>1. DOMAIN f = D /\ \A i, j \in D : i - s = j - s => i = j
    BY <1>6, <1>7
  <2>2. IsInjective(f)
    BY <1>9, <2>1 DEF IsInjective
  <2> QED
    BY <1>9, <2>2 DEF Injection
<1>11. f \in Surjection(D, T)
  BY <1>8, <1>9 DEF Surjection
<1> HIDE DEF f
<1>12. ExistsBijection(D, T)
  BY <1>10, <1>11 DEF ExistsBijection, Bijection
<1>13. IsFiniteSet(D)
  <2>1. D \in SUBSET (1..Len(h))
    BY <1>2 DEF RoundsFrom, RoundStarts
  <2>2. 1 \in Int /\ Len(h) \in Int
    OBVIOUS
  <2>3. IsFiniteSet(1..Len(h))
    BY <2>2, FS_Interval, Zenon
  <2> QED
    BY <2>1, <2>3, FS_Subset, Zenon
<1>14. Cardinality(T) = Cardinality(D)
  BY <1>12, <1>13, FS_Bijection
<1> QED
  BY <1>1, <1>3, <1>4, <1>5, <1>14 DEF T

\* Pruning stops as soon as the target or the floor is met.
PrunedOnlyAsNeeded(g, kept, had, tokens) ==
  /\ tokens <= TargetTokens \/ kept <= KeepRecentRounds
  /\ kept < had =>
        /\ kept >= KeepRecentRounds
        /\ \A s \in RoundStarts(g) :
             Cardinality(RoundsFrom(g, s)) = kept + 1 => ~ Fits(g, s)

LEMMA StopsAsNeeded ==
  ASSUME NEW h \in Seq(Message), NEW S, NEW st, NEW d, Stops(h, S, st, d)
  PROVE  PrunedOnlyAsNeeded(h, Cardinality(RoundStarts(Prune(h))),
            Cardinality(RoundStarts(h)), EstimateMessages(Prune(h)))
<1>1. PICK K \in Nat :
         /\ K = Len(st) /\ d \in 0..K /\ K - d \in Nat
         /\ Cardinality(RoundStarts(Prune(h))) = K - d
         /\ Cardinality(RoundStarts(h)) = K
  BY KeptCounted
<1>2. /\ Grouped(S, st, h, Len(h)) /\ d \in 0..Len(st)
      /\ Cut(h) = NextStart(st, d, Len(h))
      /\ \A k \in 1..d : st[k] \notin Cuts(h)
  BY DEF Stops
<1>3. EstimateMessages(Prune(h)) = TokensFrom(h, Cut(h))
  BY DEF TokensFrom, Prune
<1>4. EstimateMessages(Prune(h)) <= TargetTokens \/ K - d <= KeepRecentRounds
  <2>1. Cut(h) \in Cuts(h)
    BY CutIsLeast
  <2> QED
    BY <1>1, <1>2, <1>3, <2>1, RestAdmissible
<1>5. ASSUME NEW k \in 1..Len(st)
      PROVE  /\ st[k] \in Cuts(h) <=> \/ TokensFrom(h, st[k]) <= TargetTokens
                                      \/ K - k + 1 <= KeepRecentRounds
             /\ Cardinality(RoundsFrom(h, st[k])) = K - k + 1
  <2>1. PICK e \in 0..Len(st) :
           e = k - 1 /\ e # Len(st) /\ e + 1 = k /\ Len(st) - e = K - k + 1
    BY <1>1
  <2>2. NextStart(st, e, Len(h)) = st[k]
    BY <1>2, <2>1, RestStart
  <2> QED
    BY <1>2, <2>1, <2>2, RestAdmissible, RestCounted
<1>6. ASSUME K - d < K
      PROVE  /\ K - d >= KeepRecentRounds
             /\ \A s \in RoundStarts(h) :
                  Cardinality(RoundsFrom(h, s)) = (K - d) + 1 => ~ Fits(h, s)
  <2>1. d \in 1..d /\ d \in 1..Len(st)
    BY <1>1, <1>6
  <2>2. /\ ~ (TokensFrom(h, st[d]) <= TargetTokens)
        /\ ~ (K - d + 1 <= KeepRecentRounds)
    BY <1>2, <1>5, <2>1
  <2>3. K - d >= KeepRecentRounds
    BY <1>1, <2>2, CompactionAssumption
  <2>4. ASSUME NEW s \in RoundStarts(h), Cardinality(RoundsFrom(h, s)) = (K - d) + 1
        PROVE  ~ Fits(h, s)
    <3>1. s \in 1..Len(h) /\ h[s].role = "user"
      BY DEF RoundStarts
    <3>2. PICK k \in 1..Len(st) : st[k] = s
      BY <1>2, <3>1 DEF Grouped
    <3>3. K - k + 1 = (K - d) + 1
      BY <1>5, <2>4, <3>2
    <3>4. k = d
      BY <1>1, <3>3
    <3> QED
      BY <2>2, <3>2, <3>4 DEF Fits, TokensFrom
  <2> QED
    BY <2>3, <2>4
<1> QED
  BY <1>1, <1>4, <1>6 DEF PrunedOnlyAsNeeded

-----------------------------------------------------------------------------
(* The histories that compact is given, and the properties of its loops.   *)

\* They are messages, and only the first one may be a system message.
CodeInv == messages \in Seq(Message) /\ SystemFirst(messages)

LEMMA GrowKeeps ==
  ASSUME CodeInv, NEW m \in Message, m.role # "system",
         messages' = Append(messages, m)
  PROVE  CodeInv'
<1>1. PICK h \in Seq(Message), g \in Seq(Message) :
         h = messages /\ g = messages' /\ g = Append(h, m)
  BY DEF CodeInv
<1>2. /\ Len(g) = Len(h) + 1 /\ g[Len(h) + 1] = m /\ Len(h) \in Nat
      /\ \A i \in 1..Len(h) : g[i] = h[i]
  BY <1>1
<1>3. ASSUME NEW i \in 2..Len(g)
      PROVE  g[i].role # "system"
  <2>1. CASE i = Len(h) + 1
    BY <1>2, <2>1
  <2>2. CASE i # Len(h) + 1
    <3>1. i \in 1..Len(h) /\ i \in 2..Len(h)
      BY <1>2, <2>2
    <3> QED
      BY <1>1, <1>2, <3>1 DEF CodeInv, SystemFirst
  <2> QED
    BY <2>1, <2>2
<1>4. SystemFirst(g)
  BY <1>3 DEF SystemFirst
<1> QED
  BY <1>1, <1>4 DEF CodeInv

LEMMA CodeInvHolds == CodeSpec => []CodeInv
<1>1. CodeInit => CodeInv
  <2> SUFFICES ASSUME CodeInit
               PROVE  CodeInv
    OBVIOUS
  <2>1. CASE messages = << >>
    BY <2>1 DEF CodeInv, SystemFirst
  <2>2. CASE messages = << SystemMessage(40) >>
    <3>1. SystemMessage(40) \in Message
      BY DEF SystemMessage, Msg, Message, Roles
    <3>2. messages \in Seq(Message) /\ Len(messages) = 1
      BY <2>2, <3>1
    <3> QED
      BY <3>2 DEF CodeInv, SystemFirst
  <2> QED
    BY <2>1, <2>2 DEF CodeInit
<1>2. CodeInv /\ [CodeNext]_messages => CodeInv'
  <2> SUFFICES ASSUME CodeInv, [CodeNext]_messages
               PROVE  CodeInv'
    OBVIOUS
  <2>1. CASE AddPrompt
    <3>1. PICK s \in UserSizes : messages' = Append(messages, UserMessage(0, s))
      BY <2>1 DEF AddPrompt, Grow
    <3>2. UserMessage(0, s) \in Message /\ UserMessage(0, s).role # "system"
      BY SizesAssumption DEF UserMessage, Msg, Message, Roles
    <3> QED
      BY <3>1, <3>2, GrowKeeps
  <2>2. CASE AddAnswer
    <3>1. PICK calls \in {<< >>} \cup {<< c >> : c \in ToolCall} :
             messages' = Append(messages, AssistantMessage(calls, 10))
      BY <2>2 DEF AddAnswer, Grow
    <3>2. calls \in Seq(ToolCall)
      <4>1. << >> \in Seq(ToolCall) /\ \A c \in ToolCall : << c >> \in Seq(ToolCall)
        OBVIOUS
      <4> QED
        BY <4>1
    <3>3. /\ AssistantMessage(calls, 10) \in Message
          /\ AssistantMessage(calls, 10).role # "system"
      BY <3>2 DEF AssistantMessage, Msg, Message, Roles
    <3> QED
      BY <3>1, <3>3, GrowKeeps
  <2>3. CASE AddResult
    <3>1. PICK s \in ToolSizes, c \in CallIds :
             messages' = Append(messages, ToolMessage(c, Served, s))
      BY <2>3 DEF AddResult, Grow
    <3>2. ToolMessage(c, Served, s) \in Message /\ ToolMessage(c, Served, s).role # "system"
      BY SizesAssumption DEF ToolMessage, Msg, Message, Roles, Served
    <3> QED
      BY <3>1, <3>2, GrowKeeps
  <2>4. CASE UNCHANGED messages
    BY <2>4 DEF CodeInv
  <2> QED
    BY <2>1, <2>2, <2>3, <2>4 DEF CodeNext
<1> QED
  BY <1>1, <1>2, PTL DEF CodeSpec

\* The loops of compactor.py compute the function Compact, and tokens_after,
\* counted down round by round, is the estimate of what they return.
THEOREM LoopsCorrect == CodeSpec => []LoopsAgree
<1>1. CodeInv => LoopsAgree
  <2> SUFFICES ASSUME CodeInv
               PROVE  LoopsAgree
    OBVIOUS
  <2>1. PICK h \in Seq(Message) : h = messages /\ SystemFirst(h)
    BY DEF CodeInv
  <2>2. CASE MustCompact(h)
    <3>1. Returns(CompactResult(h), Condense(h))
      BY <2>1, <2>2, LoopsRight
    <3> QED
      BY <2>1, <2>2, <3>1 DEF LoopsAgree, Returns, Compact
  <2>3. CASE ~ MustCompact(h)
    BY <2>1, <2>3, NothingCompacted DEF LoopsAgree, Compact
  <2> QED
    BY <2>2, <2>3
<1> QED
  BY <1>1, CodeInvHolds, PTL

\* Rounds are left out only beyond the last KeepRecentRounds ones, only while
\* the target is exceeded, and never one more than needed to meet it.
THEOREM PruningCorrect == CodeSpec => []PrunedAsNeeded
<1>1. CodeInv => PrunedAsNeeded
  <2> SUFFICES ASSUME CodeInv
               PROVE  PrunedAsNeeded
    OBVIOUS
  <2>1. PICK h \in Seq(Message) : h = messages /\ SystemFirst(h)
    BY DEF CodeInv
  <2>2. CASE MustCompact(h)
    <3>1. PICK g \in Seq(Message) :
             g = Condense(h) /\ RoundStarts(g) = RoundStarts(h)
      BY CondenseShape, CondenseLastStart
    <3>2. Returns(CompactResult(h), g)
      BY <2>1, <2>2, <3>1, LoopsRight
    <3>3. PICK S, st, d : Stops(g, S, st, d)
      BY <2>1, <2>2, <3>1, LoopsRight
    <3>4. PrunedOnlyAsNeeded(g, Cardinality(RoundStarts(Prune(g))),
             Cardinality(RoundStarts(g)), EstimateMessages(Prune(g)))
      BY <3>3, StopsAsNeeded
    <3> QED
      BY <2>1, <3>1, <3>2, <3>4 DEF PrunedAsNeeded, Returns, PrunedOnlyAsNeeded
  <2>3. CASE ~ MustCompact(h)
    BY <2>1, <2>3, NothingCompacted DEF PrunedAsNeeded
  <2> QED
    BY <2>2, <2>3
<1> QED
  BY <1>1, CodeInvHolds, PTL

\* What the loops leave of a history in which every call has its result is
\* one again.
THEOREM CodePairing == CodeSpec => []CompactionKeepsPairing
<1>1. CodeInv /\ LoopsAgree => CompactionKeepsPairing
  BY CompactPairing DEF CodeInv, LoopsAgree, CompactionKeepsPairing
<1> QED
  BY <1>1, CodeInvHolds, LoopsCorrect, PTL

=============================================================================
