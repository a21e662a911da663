------------------------------ MODULE Recursion ------------------------------
(***************************************************************************)
(* Definitions by recursion, and when they are what they say.              *)
(*                                                                         *)
(* f[x \in X] == ... f[step(x)] ... means "some function that satisfies    *)
(* the equation"; nothing follows from it until such a function is shown   *)
(* to exist.  A recursion that makes one call of itself, on an argument of *)
(* smaller measure, is justified here once and for all.  The loop of       *)
(* CheckLevelUp, the framing of a buffer, the sums over sessions and the   *)
(* client's way through the packets under way are instances.  The last one *)
(* is a fold, whose laws are derived here for the modules that speak of    *)
(* what a client shows.                                                    *)
(***************************************************************************)
EXTENDS SequencesExt, FiniteSetTheorems, SequenceTheorems, TLAPS

CONSTANTS
    Handle(_, _),   \* what a client shows after a packet
    Picture,        \* what it may show
    Packets         \* what may be sent to it

\* g satisfies the recursion on D: base[x] where it stops, and else comb[x] of
\* what it returns for step[x].
Satisfies(g, D, Stop, step, base, comb) ==
    g = [x \in D |-> IF x \in Stop THEN base[x] ELSE comb[x][g[step[x]]]]

\* The arguments of measure below n.
Below(X, mu, n) == {x \in X : mu[x] < n}

\* A set of naturals that is not empty has a least element.
LEMMA LeastNat ==
  ASSUME NEW T, T \subseteq Nat, T # {}
  PROVE  \E m \in T : \A k \in T : m <= k
<1> DEFINE R == OpToRel(<, Nat)
<1>1. \E m \in T : \A k \in T : ~(<<k, m>> \in R)
  <2> HIDE DEF R
  <2>1. IsWellFoundedOn(R, Nat)
    BY NatLessThanWellFounded DEF R
  <2> QED BY <2>1, WFMin
<1>2. \A k, m \in Nat : k < m => <<k, m>> \in R
  BY DEF OpToRel
<1> HIDE DEF R
<1>3. PICK m \in T : \A k \in T : ~(<<k, m>> \in R)
  BY <1>1
<1>4. ASSUME NEW k \in T PROVE m <= k
  <2>1. k \in Nat /\ m \in Nat /\ ~(k < m)
    BY <1>2, <1>3
  <2> QED BY <2>1
<1> QED BY <1>4

\* Likewise a set of things with a measure: one of them has the least.
LEMMA LeastMeasure ==
  ASSUME NEW X, NEW mu \in [X -> Nat], NEW T, T \subseteq X, T # {}
  PROVE  \E x \in T : \A y \in T : mu[x] <= mu[y]
<1> DEFINE M == {mu[x] : x \in T}
<1>1. M \subseteq Nat /\ M # {}
  OBVIOUS
<1>2. PICK m \in M : \A k \in M : m <= k
  <2> HIDE DEF M
  <2> QED BY <1>1, LeastNat
<1> QED BY <1>2

\* A function on the arguments of measure below n that satisfies the recursion
\* exists for every n.
LEMMA ApproximationExists ==
  ASSUME NEW X, NEW V, NEW mu \in [X -> Nat], NEW Stop, NEW step \in [X -> X],
         NEW base \in [X -> V], NEW comb \in [X -> [V -> V]],
         \A x \in X : x \notin Stop => mu[step[x]] < mu[x]
  PROVE  \A n \in Nat : \E g \in [Below(X, mu, n) -> V] :
            Satisfies(g, Below(X, mu, n), Stop, step, base, comb)
<1> DEFINE D(n) == Below(X, mu, n)
           Good(n) == \E g \in [D(n) -> V] : Satisfies(g, D(n), Stop, step, base, comb)
           Bad == {n \in Nat : ~Good(n)}
<1> SUFFICES ASSUME Bad # {} PROVE FALSE
  OBVIOUS
<1>1. PICK m \in Bad : \A k \in Bad : m <= k
  <2>1. Bad \subseteq Nat
    OBVIOUS
  <2> HIDE DEF Bad
  <2> QED BY <2>1, LeastNat
<1>2. m # 0
  <2>1. D(0) = {}
    BY DEF Below
  <2> DEFINE g == [x \in {} |-> x]
  <2>2. g \in [D(0) -> V] /\ Satisfies(g, D(0), Stop, step, base, comb)
    BY <2>1 DEF Satisfies
  <2> QED BY <2>2
<1>3. m \in Nat /\ m - 1 \in Nat /\ m - 1 \notin Bad
  BY <1>1, <1>2
<1>4. PICK g \in [D(m - 1) -> V] : Satisfies(g, D(m - 1), Stop, step, base, comb)
  BY <1>3
<1> DEFINE h == [x \in D(m) |-> IF x \in Stop THEN base[x] ELSE comb[x][g[step[x]]]]
<1>5. ASSUME NEW x \in D(m), x \notin Stop
      PROVE  step[x] \in D(m - 1) /\ step[x] \in D(m)
  <2>1. x \in X /\ mu[x] \in Nat /\ mu[x] < m
    BY DEF Below
  <2>2. step[x] \in X /\ mu[step[x]] \in Nat /\ mu[step[x]] < mu[x]
    BY <1>5, <2>1
  <2> QED BY <1>3, <2>1, <2>2 DEF Below
<1>6. ASSUME NEW x \in D(m), x \notin Stop PROVE h[step[x]] = g[step[x]]
  <2> DEFINE y == step[x]
  <2>1. y \in D(m - 1) /\ y \in D(m)
    BY <1>5, <1>6
  <2> HIDE DEF y, D
  <2>2. g[y] = IF y \in Stop THEN base[y] ELSE comb[y][g[step[y]]]
    BY <1>4, <2>1 DEF Satisfies
  <2>3. h[y] = IF y \in Stop THEN base[y] ELSE comb[y][g[step[y]]]
    BY <2>1
  <2> HIDE DEF h
  <2> QED BY <2>2, <2>3 DEF y
<1>7. \A x \in D(m) : x \in X
  BY DEF Below
<1>8. h \in [D(m) -> V]
  BY <1>4, <1>5, <1>7
<1>9. h = [x \in D(m) |-> IF x \in Stop THEN base[x] ELSE comb[x][h[step[x]]]]
  BY <1>6
<1>10. Satisfies(h, D(m), Stop, step, base, comb)
  <2> HIDE DEF h
  <2> QED BY <1>9 DEF Satisfies
<1> HIDE DEF h
<1>11. Good(m)
  BY <1>8, <1>10
<1> QED BY <1>11

\* Two of them agree where both are defined.
LEMMA ApproximationsAgree ==
  ASSUME NEW X, NEW mu \in [X -> Nat], NEW Stop, NEW step \in [X -> X], NEW base, NEW comb,
         \A x \in X : x \notin Stop => mu[step[x]] < mu[x],
         NEW n \in Nat, NEW k \in Nat, NEW g, NEW h,
         Satisfies(g, Below(X, mu, n), Stop, step, base, comb),
         Satisfies(h, Below(X, mu, k), Stop, step, base, comb)
  PROVE  \A x \in Below(X, mu, n) \cap Below(X, mu, k) : g[x] = h[x]
<1> DEFINE D == Below(X, mu, n) \cap Below(X, mu, k)
           Differ == {x \in D : g[x] # h[x]}
<1> SUFFICES ASSUME Differ # {} PROVE FALSE
  OBVIOUS
<1>1. Differ \subseteq X
  BY DEF Below
<1>2. PICK x \in Differ : \A y \in Differ : mu[x] <= mu[y]
  <2> HIDE DEF Differ
  <2> QED BY <1>1, LeastMeasure
<1>3. /\ g[x] = IF x \in Stop THEN base[x] ELSE comb[x][g[step[x]]]
      /\ h[x] = IF x \in Stop THEN base[x] ELSE comb[x][h[step[x]]]
  BY DEF Satisfies
<1>4. x \notin Stop /\ g[step[x]] # h[step[x]]
  BY <1>3
<1>5. x \in X /\ mu[x] \in Nat /\ mu[x] < n /\ mu[x] < k
  BY DEF Below
<1>6. step[x] \in X /\ mu[step[x]] \in Nat /\ mu[step[x]] < mu[x]
  BY <1>4, <1>5
<1>7. step[x] \in D
  BY <1>5, <1>6 DEF Below
<1>8. step[x] \in Differ
  BY <1>4, <1>7
<1> HIDE DEF Differ
<1> QED BY <1>2, <1>5, <1>6, <1>8

\* A recursion with a measure that falls has a solution.
LEMMA RecursionExists ==
  ASSUME NEW X, NEW V, NEW mu \in [X -> Nat], NEW Stop, NEW step \in [X -> X],
         NEW base \in [X -> V], NEW comb \in [X -> [V -> V]],
         \A x \in X : x \notin Stop => mu[step[x]] < mu[x]
  PROVE  \E g \in [X -> V] : Satisfies(g, X, Stop, step, base, comb)
<1> DEFINE D(n) == Below(X, mu, n)
           A(n) == CHOOSE g \in [D(n) -> V] : Satisfies(g, D(n), Stop, step, base, comb)
           f == [x \in X |-> A(mu[x] + 1)[x]]
<1>1. \A n \in Nat : A(n) \in [D(n) -> V] /\ Satisfies(A(n), D(n), Stop, step, base, comb)
  BY ApproximationExists
<1> HIDE DEF A
<1>2. \A x \in X : mu[x] + 1 \in Nat /\ x \in D(mu[x] + 1)
  BY DEF Below
<1>3. ASSUME NEW x \in X
      PROVE  f[x] = IF x \in Stop THEN base[x] ELSE comb[x][f[step[x]]]
  <2> DEFINE g == A(mu[x] + 1)
  <2>1. g[x] = IF x \in Stop THEN base[x] ELSE comb[x][g[step[x]]]
    <3>1. Satisfies(g, D(mu[x] + 1), Stop, step, base, comb)
      BY <1>1, <1>2
    <3> HIDE DEF g, D
    <3> QED BY <1>2, <3>1 DEF Satisfies
  <2>2. CASE x \in Stop
    BY <2>1, <2>2
  <2>3. CASE x \notin Stop
    <3> DEFINE y == step[x]
    <3>1. y \in X /\ mu[y] \in Nat /\ mu[x] \in Nat /\ mu[y] < mu[x]
      BY <2>3
    <3> HIDE DEF y
    <3>2. y \in D(mu[x] + 1) \cap D(mu[y] + 1) /\ mu[y] + 1 \in Nat /\ mu[x] + 1 \in Nat
      BY <3>1 DEF Below
    <3>3. A(mu[x] + 1)[y] = A(mu[y] + 1)[y]
      <4> DEFINE n == mu[x] + 1
                 k == mu[y] + 1
      <4>1. /\ n \in Nat /\ k \in Nat /\ y \in Below(X, mu, n) \cap Below(X, mu, k)
            /\ Satisfies(A(n), Below(X, mu, n), Stop, step, base, comb)
            /\ Satisfies(A(k), Below(X, mu, k), Stop, step, base, comb)
        BY <1>1, <3>2
      <4> HIDE DEF n, k
      <4>2. \A z \in Below(X, mu, n) \cap Below(X, mu, k) : A(n)[z] = A(k)[z]
        <5> DEFINE g1 == A(n)
                   g2 == A(k)
        <5>1. /\ Satisfies(g1, Below(X, mu, n), Stop, step, base, comb)
              /\ Satisfies(g2, Below(X, mu, k), Stop, step, base, comb)
          BY <4>1
        <5> HIDE DEF g1, g2, D
        <5>2. \A z \in Below(X, mu, n) \cap Below(X, mu, k) : g1[z] = g2[z]
          BY <4>1, <5>1, ApproximationsAgree
        <5> QED BY <5>2 DEF g1, g2
      <4>3. A(n)[y] = A(k)[y]
        BY <4>1, <4>2
      <4> QED BY <4>3 DEF n, k
    <3>4. f[y] = A(mu[y] + 1)[y] /\ f[x] = A(mu[x] + 1)[x]
      BY <3>1
    <3> HIDE DEF f
    <3> QED BY <2>1, <2>3, <3>3, <3>4 DEF y
  <2> QED BY <2>2, <2>3
<1>4. f \in [X -> V]
  BY <1>1, <1>2
<1>5. f = [x \in X |-> IF x \in Stop THEN base[x] ELSE comb[x][f[step[x]]]]
  BY <1>3
<1> HIDE DEF f
<1> QED BY <1>4, <1>5 DEF Satisfies
-----------------------------------------------------------------------------
(***************************************************************************)
(* The way of a client through the packets of a queue.  The three modules  *)
(* that model a client fold its handlers over the packets under way; each  *)
(* instantiates this one with its handlers, Handle.                        *)
(***************************************************************************)

\* No packet brings the client into a state that it does not have.
Handles == \A v \in Picture, p \in Packets : Handle(v, p) \in Picture

\* What v becomes by the packets s.
After(v, s) == FoldLeft(Handle, v, s)

\* A set of positions that is not empty has a last one.
LEMMA LastOne ==
  ASSUME NEW n \in Nat, NEW T \in SUBSET (1..n), T # {}
  PROVE  Max(T) \in T /\ \A k \in T : k <= Max(T)
<1> DEFINE D == {n - k : k \in T}
<1>a. \A k \in T : k \in 1..n /\ n - k \in Nat
  OBVIOUS
<1>1. D \subseteq Nat /\ D # {}
  BY <1>a
<1>2. PICK d \in D : \A e \in D : d <= e
  <2> HIDE DEF D
  <2> QED BY <1>1, LeastNat
<1>3. PICK m \in T : d = n - m
  BY <1>2
<1>4. \A k \in T : m >= k
  BY <1>a, <1>2, <1>3
<1>5. Max(T) \in T /\ \A k \in T : Max(T) >= k
  BY <1>4 DEF Max
<1> QED BY <1>5

\* In particular, k is that of 1..k.
LEMMA LastOfInterval ==
  ASSUME NEW k \in Nat \ {0} PROVE Max(1..k) = k /\ (1..k) \ {k} = 1..(k - 1)
<1>1. 1..k \in SUBSET (1..k) /\ 1..k # {} /\ k \in 1..k
  OBVIOUS
<1>2. Max(1..k) \in 1..k /\ k <= Max(1..k)
  BY <1>1, LastOne
<1> QED BY <1>2

\* The picture after each of the packets of s, from v on.
IsRun(g, v, s) ==
    /\ g \in [0..Len(s) -> Picture]
    /\ g[0] = v
    /\ \A k \in 1..Len(s) : g[k] = Handle(g[k - 1], s[k])

\* There is such a sequence of pictures, and FoldLeft is the last of them.
LEMMA FoldIsRun ==
  ASSUME Handles, NEW v \in Picture, NEW s \in Seq(Packets)
  PROVE  \E g : IsRun(g, v, s) /\ After(v, s) = g[Len(s)]
<1> DEFINE n == Len(s)
           X == SUBSET (1..n)
           Stop == {{}}
           mu == [T \in X |-> Cardinality(T)]
           step == [T \in X |-> T \ {Max(T)}]
           base == [T \in X |-> v]
           comb == [T \in X |-> [w \in Picture |-> IF T = {} THEN v ELSE Handle(w, s[Max(T)])]]
           Folds(c) == c = [T \in X |-> IF T = {} THEN v ELSE Handle(c[T \ {Max(T)}], s[Max(T)])]
<1>1. n \in Nat /\ DOMAIN s = 1..n /\ \A k \in 1..n : s[k] \in Packets
  OBVIOUS
<1> HIDE DEF n
<1>2. \A T \in X : IsFiniteSet(T) /\ Cardinality(T) \in Nat
  <2>1. IsFiniteSet(1..n)
    BY <1>1, FS_Interval
  <2> QED BY <2>1, FS_Subset, FS_CardinalityType
<1>3. \A T \in X : T # {} => Max(T) \in T
  BY <1>1, LastOne
<1>4. \A T \in X : T # {} => Cardinality(T \ {Max(T)}) < Cardinality(T)
  BY <1>2, <1>3, FS_RemoveElement
<1>5. /\ mu \in [X -> Nat] /\ step \in [X -> X] /\ base \in [X -> Picture]
      /\ \A T \in X : T \notin Stop => mu[step[T]] < mu[T]
  BY <1>2, <1>4
<1>6. comb \in [X -> [Picture -> Picture]]
  BY <1>1, <1>3 DEF Handles
<1>7. PICK c \in [X -> Picture] : Satisfies(c, X, Stop, step, base, comb)
  <2> HIDE DEF mu, X, Stop, step, base, comb
  <2> QED BY <1>5, <1>6, RecursionExists
<1>8. ASSUME NEW T \in X PROVE c[T] = IF T = {} THEN v ELSE Handle(c[T \ {Max(T)}], s[Max(T)])
  <2>1. c[T] = IF T \in Stop THEN base[T] ELSE comb[T][c[step[T]]]
    <3> HIDE DEF X, Stop, step, base, comb
    <3> QED BY <1>7 DEF Satisfies
  <2> QED BY <2>1
<1>9. Folds(c)
  BY <1>8
<1> DEFINE f == CHOOSE d : Folds(d)
<1>10. Folds(f)
  <2> HIDE DEF Folds
  <2> QED BY <1>9
<1>11. After(v, s) = f[1..n]
  <2>1. DOMAIN s = 1..n
    BY <1>1
  <2> QED BY <2>1 DEF After, FoldLeft, MapThenFoldSet
<1> HIDE DEF f
<1>12. \A T \in X : f[T] = IF T = {} THEN v ELSE Handle(f[T \ {Max(T)}], s[Max(T)])
  BY <1>10
<1> DEFINE g == [k \in 0..n |-> f[1..k]]
<1>13. g[0] = v /\ g[n] = f[1..n]
  <2>1. 0 \in 0..n /\ n \in 0..n /\ 1..0 = {} /\ {} \in X
    BY <1>1
  <2>2. f[{}] = v
    BY <1>12, <2>1
  <2> QED BY <2>1, <2>2
<1>14. ASSUME NEW k \in 1..n PROVE g[k] = Handle(g[k - 1], s[k])
  <2>1. Max(1..k) = k /\ (1..k) \ {k} = 1..(k - 1) /\ 1..k # {} /\ 1..k \in X
    <3>1. n \in Nat
      BY <1>1
    <3>2. k \in Nat \ {0} /\ k \in 1..k /\ k <= n
      BY <3>1
    <3>3. 1..k \subseteq 1..n
      BY <3>1, <3>2
    <3>4. Max(1..k) = k /\ (1..k) \ {k} = 1..(k - 1)
      BY <3>2, LastOfInterval
    <3> QED BY <3>2, <3>3, <3>4
  <2>2. f[1..k] = Handle(f[1..(k - 1)], s[k])
    BY <1>12, <2>1
  <2> QED BY <1>1, <2>2
<1>15. \A k \in 0..n : g[k] \in Picture
  <2> DEFINE Bad == {k \in 0..n : g[k] \notin Picture}
  <2> HIDE DEF g
  <2> SUFFICES ASSUME Bad # {} PROVE FALSE
    OBVIOUS
  <2>1. PICK m \in Bad : \A k \in Bad : m <= k
    <3>1. Bad \subseteq Nat
      BY <1>1
    <3> HIDE DEF Bad
    <3> QED BY <3>1, LeastNat
  <2>2. m \in 1..n
    BY <1>1, <1>13
  <2>3. m - 1 \in 0..n /\ m - 1 \notin Bad
    BY <1>1, <2>1, <2>2
  <2>4. g[m] = Handle(g[m - 1], s[m]) /\ g[m - 1] \in Picture /\ s[m] \in Packets
    BY <1>1, <1>14, <2>2, <2>3
  <2> QED BY <2>4 DEF Handles
<1>16. g \in [0..n -> Picture]
  BY <1>15
<1> HIDE DEF g
<1>17. IsRun(g, v, s)
  BY <1>13, <1>14, <1>16 DEF IsRun, n
<1> QED BY <1>11, <1>13, <1>17 DEF n

\* What is shown does not depend on how it was put together.
LEMMA RunsAgree ==
  ASSUME NEW v, NEW s \in Seq(Packets), NEW g, NEW h, IsRun(g, v, s), IsRun(h, v, s)
  PROVE  \A k \in 0..Len(s) : g[k] = h[k]
<1> DEFINE Bad == {k \in 0..Len(s) : g[k] # h[k]}
<1> SUFFICES ASSUME Bad # {} PROVE FALSE
  OBVIOUS
<1>1. Len(s) \in Nat
  OBVIOUS
<1>2. PICK m \in Bad : \A k \in Bad : m <= k
  <2>1. Bad \subseteq Nat
    BY <1>1
  <2> HIDE DEF Bad
  <2> QED BY <2>1, LeastNat
<1>3. m \in 1..Len(s)
  BY <1>1 DEF IsRun
<1>4. m - 1 \in 0..Len(s) /\ m - 1 \notin Bad
  BY <1>1, <1>2, <1>3
<1> QED BY <1>3, <1>4 DEF IsRun

\* So any run leads to it.
LEMMA FoldOfRun ==
  ASSUME Handles, NEW v \in Picture, NEW s \in Seq(Packets), NEW g, IsRun(g, v, s)
  PROVE  After(v, s) = g[Len(s)] /\ After(v, s) \in Picture
<1>1. PICK h : IsRun(h, v, s) /\ After(v, s) = h[Len(s)]
  BY FoldIsRun
<1>2. Len(s) \in 0..Len(s)
  OBVIOUS
<1>3. g[Len(s)] = h[Len(s)]
  BY <1>1, <1>2, RunsAgree
<1>4. h[Len(s)] \in Picture
  BY <1>1, <1>2 DEF IsRun
<1> QED BY <1>1, <1>3, <1>4

\* Nothing under way.
LEMMA FoldEmpty ==
  ASSUME Handles, NEW v \in Picture PROVE After(v, <<>>) = v
<1> DEFINE g == [k \in 0..0 |-> v]
<1>1. <<>> \in Seq(Packets) /\ Len(<<>>) = 0
  OBVIOUS
<1>2. g[0] = v /\ g \in [0..Len(<<>>) -> Picture]
  BY <1>1
<1>3. IsRun(g, v, <<>>)
  BY <1>1, <1>2 DEF IsRun
<1> HIDE DEF g
<1> QED BY <1>1, <1>2, <1>3, FoldOfRun

\* The pictures are those the client can show.
LEMMA FoldType ==
  ASSUME Handles, NEW v \in Picture, NEW s \in Seq(Packets) PROVE After(v, s) \in Picture
  BY FoldIsRun, FoldOfRun

\* One packet.
LEMMA FoldOne ==
  ASSUME Handles, NEW v \in Picture, NEW p \in Packets PROVE After(v, <<p>>) = Handle(v, p)
<1> DEFINE s == <<p>>
           g == [k \in 0..1 |-> IF k = 0 THEN v ELSE Handle(v, p)]
<1>1. s \in Seq(Packets) /\ Len(s) = 1 /\ s[1] = p
  OBVIOUS
<1>2. g[0] = v /\ g[1] = Handle(v, p) /\ g \in [0..1 -> Picture]
  BY DEF Handles
<1> HIDE DEF g, s
<1>3. IsRun(g, v, s)
  <2>1. \A k \in 1..1 : g[k] = Handle(g[k - 1], s[k])
    BY <1>1, <1>2
  <2> QED BY <1>1, <1>2, <2>1 DEF IsRun
<1>4. After(v, s) = g[1]
  BY <1>1, <1>3, FoldOfRun
<1> QED BY <1>2, <1>4 DEF s

\* Packets sent later are handled later.
LEMMA FoldConcat ==
  ASSUME Handles, NEW v \in Picture, NEW s \in Seq(Packets), NEW t \in Seq(Packets)
  PROVE  After(v, s \o t) = After(After(v, s), t)
<1> DEFINE m == Len(s)
           n == Len(t)
           u == s \o t
           w == After(v, s)
<1>1. PICK g : IsRun(g, v, s) /\ w = g[m]
  BY FoldIsRun
<1>2. w \in Picture
  BY FoldType
<1>3. /\ m \in Nat /\ n \in Nat /\ u \in Seq(Packets) /\ Len(u) = m + n
      /\ \A k \in 1..m : u[k] = s[k]
      /\ \A k \in 1..n : u[m + k] = t[k]
  BY ConcatProperties
<1> HIDE DEF w, u
<1>4. PICK h : IsRun(h, w, t) /\ After(w, t) = h[n]
  BY <1>2, FoldIsRun
<1> DEFINE c == [k \in 0..(m + n) |-> IF k <= m THEN g[k] ELSE h[k - m]]
<1>5. /\ g \in [0..m -> Picture] /\ g[0] = v /\ \A k \in 1..m : g[k] = Handle(g[k - 1], s[k])
      /\ h \in [0..n -> Picture] /\ h[0] = w /\ \A k \in 1..n : h[k] = Handle(h[k - 1], t[k])
  BY <1>1, <1>4 DEF IsRun
<1> HIDE DEF m, n
<1>6. \A k \in 0..m : c[k] = g[k]
  BY <1>3
<1>7. \A k \in 0..n : c[m + k] = h[k]
  <2>1. c[m] = h[0]
    BY <1>1, <1>3, <1>5
  <2>2. ASSUME NEW k \in 1..n PROVE c[m + k] = h[k]
    <3>1. m + k \in 0..(m + n) /\ ~(m + k <= m) /\ (m + k) - m = k
      BY <1>3
    <3> QED BY <3>1
  <2>3. m + 0 = m
    BY <1>3
  <2>4. \A k \in 0..n : k = 0 \/ k \in 1..n
    BY <1>3
  <2> HIDE DEF c
  <2> QED BY <2>1, <2>2, <2>3, <2>4
<1>8. c \in [0..(m + n) -> Picture]
  <2>1. ASSUME NEW k \in 0..(m + n) PROVE c[k] \in Picture
    <3>1. CASE k <= m
      BY <1>3, <1>5, <3>1
    <3>2. CASE ~(k <= m)
      <4>1. k - m \in 0..n
        BY <1>3, <3>2
      <4> QED BY <1>5, <3>2, <4>1
    <3> QED BY <3>1, <3>2
  <2> QED BY <2>1
<1> HIDE DEF c
<1>9. ASSUME NEW k \in 1..(m + n) PROVE c[k] = Handle(c[k - 1], u[k])
  <2>1. CASE k <= m
    <3>1. k \in 1..m /\ k \in 0..m /\ k - 1 \in 0..m
      BY <1>3, <2>1
    <3> QED BY <1>3, <1>5, <1>6, <3>1
  <2>2. CASE ~(k <= m)
    <3> DEFINE j == k - m
    <3>1. j \in 1..n /\ j \in 0..n /\ j - 1 \in 0..n /\ m + j = k /\ m + (j - 1) = k - 1
      BY <1>3, <2>2
    <3> HIDE DEF j
    <3>2. c[m + j] = h[j] /\ c[m + (j - 1)] = h[j - 1] /\ u[m + j] = t[j]
      BY <1>3, <1>7, <3>1
    <3> QED BY <1>5, <3>1, <3>2
  <2> QED BY <2>1, <2>2
<1>10. c[0] = v /\ c[m + n] = h[n]
  <2>1. 0 \in 0..m /\ n \in 0..n
    BY <1>3
  <2> QED BY <1>5, <1>6, <1>7, <2>1
<1>11. IsRun(c, v, u)
  BY <1>3, <1>8, <1>9, <1>10 DEF IsRun
<1>12. After(v, u) = c[m + n]
  <2>1. After(v, u) = c[Len(u)]
    BY <1>3, <1>11, FoldOfRun
  <2> QED BY <1>3, <2>1
<1> QED BY <1>4, <1>10, <1>12 DEF u, w

\* A packet that the client handles is one that it need not handle later.
LEMMA FoldFirst ==
  ASSUME Handles, NEW v \in Picture, NEW s \in Seq(Packets), s # <<>>
  PROVE  /\ Head(s) \in Packets /\ Tail(s) \in Seq(Packets)
         /\ Handle(v, Head(s)) \in Picture
         /\ After(Handle(v, Head(s)), Tail(s)) = After(v, s)
<1> DEFINE p == Head(s)
           t == Tail(s)
<1>1. p \in Packets /\ t \in Seq(Packets) /\ s = <<p>> \o t /\ <<p>> \in Seq(Packets)
  BY HeadTailProperties
<1> HIDE DEF p, t
<1>2. Handle(v, p) \in Picture
  BY <1>1 DEF Handles
<1>3. After(v, <<p>> \o t) = After(After(v, <<p>>), t)
  BY <1>1, FoldConcat
<1>4. After(v, <<p>>) = Handle(v, p)
  BY <1>1, FoldOne
<1> QED BY <1>1, <1>2, <1>3, <1>4 DEF p, t

\* A packet that is sent last is handled last.
LEMMA FoldLast ==
  ASSUME Handles, NEW v \in Picture, NEW s \in Seq(Packets), NEW p \in Packets
  PROVE  After(v, s \o <<p>>) = Handle(After(v, s), p)
<1>1. <<p>> \in Seq(Packets) /\ After(v, s) \in Picture
  BY FoldType
<1> QED BY <1>1, FoldConcat, FoldOne

\* A packet that changes nothing the second time may be sent any number of times.
LEMMA FoldRepeated ==
  ASSUME Handles, NEW v \in Picture, NEW p \in Packets, NEW n \in Nat,
         Handle(Handle(v, p), p) = Handle(v, p)
  PROVE  /\ [k \in 1..n |-> p] \in Seq(Packets)
         /\ After(v, [k \in 1..n |-> p]) = IF n = 0 THEN v ELSE Handle(v, p)
<1> DEFINE s == [k \in 1..n |-> p]
           g == [k \in 0..n |-> IF k = 0 THEN v ELSE Handle(v, p)]
<1>1. s \in Seq(Packets) /\ Len(s) = n /\ \A k \in 1..n : s[k] = p
  OBVIOUS
<1>2. g[0] = v /\ g \in [0..n -> Picture] /\ \A k \in 1..n : g[k] = Handle(v, p)
  BY DEF Handles
<1>3. g[n] = IF n = 0 THEN v ELSE Handle(v, p)
  OBVIOUS
<1> HIDE DEF g, s
<1>4. ASSUME NEW k \in 1..n PROVE g[k] = Handle(g[k - 1], s[k])
  <2>1. CASE k = 1
    BY <1>1, <1>2, <2>1
  <2>2. CASE k # 1
    <3>1. k - 1 \in 1..n
      BY <2>2
    <3> QED BY <1>1, <1>2, <3>1
  <2> QED BY <2>1, <2>2
<1>5. IsRun(g, v, s)
  BY <1>1, <1>2, <1>4 DEF IsRun
<1>6. After(v, s) = g[n]
  BY <1>1, <1>5, FoldOfRun
<1> QED BY <1>1, <1>3, <1>6 DEF s

\* Induction over the packets: I relates the number of packets handled to what
\* the client shows.
LEMMA FoldInduction ==
  ASSUME Handles, NEW v \in Picture, NEW s \in Seq(Packets), NEW I,
         <<0, v>> \in I,
         \A k \in 1..Len(s), w \in Picture : <<k - 1, w>> \in I => <<k, Handle(w, s[k])>> \in I
  PROVE  <<Len(s), After(v, s)>> \in I
<1>1. PICK g : IsRun(g, v, s) /\ After(v, s) = g[Len(s)]
  BY FoldIsRun
<1> DEFINE Bad == {k \in 0..Len(s) : <<k, g[k]>> \notin I}
<1>2. Len(s) \in Nat
  OBVIOUS
<1>3. Bad = {}
  <2> SUFFICES ASSUME Bad # {} PROVE FALSE
    OBVIOUS
  <2>1. PICK m \in Bad : \A k \in Bad : m <= k
    <3>1. Bad \subseteq Nat
      BY <1>2
    <3> HIDE DEF Bad
    <3> QED BY <3>1, LeastNat
  <2>2. m \in 1..Len(s)
    <3>1. g[0] = v
      BY <1>1 DEF IsRun
    <3>2. m # 0
      BY <3>1
    <3> QED BY <1>2, <3>2
  <2>3. m - 1 \in 0..Len(s) /\ m - 1 \notin Bad
    BY <1>2, <2>1, <2>2
  <2>4. g[m - 1] \in Picture /\ g[m] = Handle(g[m - 1], s[m])
    BY <1>1, <2>2, <2>3 DEF IsRun
  <2>5. <<m - 1, g[m - 1]>> \in I
    BY <2>3
  <2> QED BY <2>2, <2>4, <2>5
<1>4. Len(s) \in 0..Len(s)
  BY <1>2
<1> QED BY <1>1, <1>3, <1>4

\* What two clients that get the same packets have in common, R, they keep.
LEMMA FoldRelation ==
  ASSUME Handles, NEW v \in Picture, NEW w \in Picture, NEW s \in Seq(Packets), NEW R,
         <<v, w>> \in R,
         \A k \in 1..Len(s), x \in Picture, y \in Picture :
            <<x, y>> \in R => <<Handle(x, s[k]), Handle(y, s[k])>> \in R
  PROVE  <<After(v, s), After(w, s)>> \in R
<1>1. PICK g : IsRun(g, v, s) /\ After(v, s) = g[Len(s)]
  BY FoldIsRun
<1>2. PICK h : IsRun(h, w, s) /\ After(w, s) = h[Len(s)]
  BY FoldIsRun
<1> DEFINE Bad == {k \in 0..Len(s) : <<g[k], h[k]>> \notin R}
<1>3. Len(s) \in Nat
  OBVIOUS
<1>4. Bad = {}
  <2> SUFFICES ASSUME Bad # {} PROVE FALSE
    OBVIOUS
  <2>1. PICK m \in Bad : \A k \in Bad : m <= k
    <3>1. Bad \subseteq Nat
      BY <1>3
    <3> HIDE DEF Bad
    <3> QED BY <3>1, LeastNat
  <2>2. m \in 1..Len(s)
    BY <1>1, <1>2, <1>3 DEF IsRun
  <2>3. m - 1 \in 0..Len(s) /\ m - 1 \notin Bad
    BY <1>3, <2>1, <2>2
  <2>4. /\ g[m - 1] \in Picture /\ g[m] = Handle(g[m - 1], s[m])
        /\ h[m - 1] \in Picture /\ h[m] = Handle(h[m - 1], s[m])
    BY <1>1, <1>2, <2>2, <2>3 DEF IsRun
  <2>5. <<g[m - 1], h[m - 1]>> \in R
    BY <2>3
  <2> QED BY <2>2, <2>4, <2>5
<1>5. Len(s) \in 0..Len(s)
  BY <1>3
<1> QED BY <1>1, <1>2, <1>4, <1>5
=============================================================================
