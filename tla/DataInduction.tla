--------------------------- MODULE DataInduction ----------------------------
(***************************************************************************)
(* Induction over the data of the models, for the proof modules.  What is  *)
(* to be shown of every number is given as the set of the numbers it holds *)
(* of, and a step of a recursion as a function, so that a prover that does *)
(* not instantiate operators can use the facts.                            *)
(***************************************************************************)
EXTENDS Integers, Sequences, TLAPS, WellFoundedInduction

\* A set of natural numbers that is not empty has a least element.
LEMMA LeastElement ==
    ASSUME NEW T, T \subseteq Nat, T # {}
    PROVE  \E m \in T : \A k \in T : m <= k
<1>1. PICK m \in T : \A y \in T : <<y, m>> \notin OpToRel(<, Nat)
  BY NatLessThanWellFounded, WFMin, Zenon
<1>2. \A y \in T : ~(y < m)
  BY <1>1 DEF OpToRel
<1> QED
  BY <1>2

\* Induction up to n.
LEMMA UpTo ==
    ASSUME NEW n \in Nat, NEW T, 0 \in T,
           \A i \in 1 .. n : i - 1 \in T => i \in T
    PROVE  0 .. n \subseteq T
<1> SUFFICES ASSUME NEW j \in 0 .. n, j \notin T
             PROVE  FALSE
  OBVIOUS
<1>0. (0 .. n) \ T \subseteq Nat /\ j \in (0 .. n) \ T
  OBVIOUS
<1>1. PICK m \in (0 .. n) \ T : \A k \in (0 .. n) \ T : m <= k
  BY <1>0, LeastElement
<1>2. m # 0 /\ m - 1 \in 0 .. n
  BY <1>1
<1>3. m - 1 \in T
  BY <1>1, <1>2
<1> QED
  BY <1>1, <1>2, <1>3

\* Induction down from n, for what a number takes from larger ones.
LEMMA DownFrom ==
    ASSUME NEW n \in Nat, NEW T,
           \A i \in 0 .. n : (\A j \in i + 1 .. n : j \in T) => i \in T
    PROVE  0 .. n \subseteq T
<1> SUFFICES ASSUME NEW j \in 0 .. n, j \notin T
             PROVE  FALSE
  OBVIOUS
<1> DEFINE U == {d \in 0 .. n : n - d \notin T}
<1>1. U \subseteq Nat /\ n - j \in U
  OBVIOUS
<1>2. PICK m \in U : \A k \in U : m <= k
  BY <1>1, LeastElement
<1>3. ASSUME NEW i \in (n - m) + 1 .. n
      PROVE  i \in T
  <2>1. n - i \in 0 .. n /\ n - i < m /\ n - (n - i) = i
    OBVIOUS
  <2> QED
    BY <2>1, <1>2
<1> QED
  BY <1>2, <1>3

\* g goes from s on through the steps up to n, all in D.
Follows(g, n, D, s, step) ==
    /\ g \in [0 .. n -> D]
    /\ g[0] = s
    /\ \A i \in 1 .. n : g[i] = step[i][g[i - 1]]

\* A recursion that takes one step per number has a solution.
LEMMA StepsExist ==
    ASSUME NEW n \in Nat, NEW D, NEW s \in D, NEW step \in [1 .. n -> [D -> D]]
    PROVE  \E g : Follows(g, n, D, s, step)
<1> DEFINE Solves(g, m) == g[0] = s /\ \A i \in 1 .. m : g[i] = step[i][g[i - 1]]
           T == {m \in 0 .. n : \E g \in [0 .. n -> D] : Solves(g, m)}
<1>1. 0 \in T
  <2> DEFINE g == [i \in 0 .. n |-> s]
  <2>1. g \in [0 .. n -> D] /\ Solves(g, 0)
    OBVIOUS
  <2> HIDE DEF g
  <2> QED
    BY <2>1
<1>2. ASSUME NEW m \in 1 .. n, m - 1 \in T
      PROVE  m \in T
  <2>1. PICK g \in [0 .. n -> D] : Solves(g, m - 1)
    BY <1>2
  <2> DEFINE h == [g EXCEPT ![m] = step[m][g[m - 1]]]
  <2>2. m - 1 \in 0 .. n /\ m \in 0 .. n /\ g[m - 1] \in D
    OBVIOUS
  <2>3. step[m][g[m - 1]] \in D
    BY <2>2
  <2>4. h \in [0 .. n -> D]
    BY <2>3
  <2>5. Solves(h, m)
    <3>1. h[0] = s
      BY <2>1
    <3>2. ASSUME NEW i \in 1 .. m
          PROVE  h[i] = step[i][h[i - 1]]
      <4>1. h[i - 1] = g[i - 1]
        OBVIOUS
      <4>2. CASE i = m
        BY <4>1, <4>2
      <4>3. CASE i # m
        <5>1. i \in 1 .. m - 1 /\ h[i] = g[i]
          BY <4>3
        <5> QED
          BY <2>1, <4>1, <5>1
      <4> QED
        BY <4>2, <4>3
    <3> QED
      BY <3>1, <3>2
  <2> QED
    BY <2>2, <2>4, <2>5
<1>3. n \in T
  <2> HIDE DEF T
  <2>1. 0 .. n \subseteq T
    BY <1>1, <1>2, UpTo
  <2> QED
    BY <2>1
<1> QED
  BY <1>3 DEF Follows

\* g is computed along jumps upwards: where a jump goes up, g takes its step from
\* the value there, and has the value of base elsewhere.
Climbs(g, n, base, step, jump) ==
    \A a \in 0 .. n : g[a] = IF jump[a] \in a + 1 .. n THEN step[a][g[jump[a]]] ELSE base[a]

\* A recursion along jumps upwards has a solution.
LEMMA JumpsExist ==
    ASSUME NEW n \in Nat, NEW D, NEW base \in [0 .. n -> D], NEW step \in [0 .. n -> [D -> D]],
           NEW jump \in [0 .. n -> Int]
    PROVE  \E g : g \in [0 .. n -> D] /\ Climbs(g, n, base, step, jump)
<1> DEFINE Eq(g, a) == g[a] = IF jump[a] \in a + 1 .. n THEN step[a][g[jump[a]]] ELSE base[a]
           Solves(g, d) == \A a \in 0 .. n : a > n - d => Eq(g, a)
           T == {d \in 0 .. n + 1 : \E g \in [0 .. n -> D] : Solves(g, d)}
<1>1. 0 \in T
  <2>1. base \in [0 .. n -> D] /\ Solves(base, 0)
    OBVIOUS
  <2> QED
    BY <2>1
<1>2. ASSUME NEW d \in 1 .. n + 1, d - 1 \in T
      PROVE  d \in T
  <2>1. PICK g \in [0 .. n -> D] : Solves(g, d - 1)
    BY <1>2
  <2>2. PICK b \in 0 .. n : b = n - d + 1
    OBVIOUS
  <2>3. PICK s : s = IF jump[b] \in b + 1 .. n THEN step[b][g[jump[b]]] ELSE base[b]
    OBVIOUS
  <2>4. s \in D
    <3>1. CASE jump[b] \in b + 1 .. n
      <4>1. g[jump[b]] \in D /\ step[b] \in [D -> D]
        BY <2>2, <3>1
      <4>2. step[b][g[jump[b]]] \in D
        BY <4>1
      <4> QED
        BY <2>3, <3>1, <4>2
    <3>2. CASE jump[b] \notin b + 1 .. n
      BY <2>3, <3>2
    <3> QED
      BY <3>1, <3>2
  <2>5. PICK h : h = [g EXCEPT ![b] = s]
    OBVIOUS
  <2>6. h \in [0 .. n -> D]
    BY <2>4, <2>5
  <2>7. ASSUME NEW a \in 0 .. n, a > n - d
        PROVE  Eq(h, a)
    <3>1. jump[a] \in a + 1 .. n => h[jump[a]] = g[jump[a]]
      BY <2>2, <2>5, <2>7
    <3>2. CASE a = b
      BY <2>3, <2>5, <3>1, <3>2
    <3>3. CASE a # b
      <4>1. a > n - (d - 1) /\ h[a] = g[a]
        BY <2>2, <2>5, <2>7, <3>3
      <4>2. Eq(g, a)
        BY <2>1, <4>1
      <4> QED
        BY <3>1, <4>1, <4>2
    <3> QED
      BY <3>2, <3>3
  <2>8. Solves(h, d)
    BY <2>7
  <2> HIDE DEF Solves
  <2> QED
    BY <2>6, <2>8
<1>3. n + 1 \in T
  <2> HIDE DEF T
  <2>1. 0 .. n + 1 \subseteq T
    <3>1. n + 1 \in Nat
      OBVIOUS
    <3> QED
      BY <1>1, <1>2, <3>1, UpTo
  <2> QED
    BY <2>1
<1>4. PICK g \in [0 .. n -> D] : Solves(g, n + 1)
  BY <1>3
<1>5. \A a \in 0 .. n : Eq(g, a)
  BY <1>4
<1> QED
  BY <1>5 DEF Climbs

\* g collects what it meets on the paths of jumps upwards.
Collects(g, n, item, jump) ==
    \A a \in 0 .. n : g[a] = IF jump[a] \in a + 1 .. n THEN <<item[a]>> \o g[jump[a]] ELSE <<>>

\* A recursion of this kind has a solution.
LEMMA PathsExist ==
    ASSUME NEW n \in Nat, NEW D, NEW item \in [0 .. n -> D], NEW jump \in [0 .. n -> Int]
    PROVE  \E g : g \in [0 .. n -> Seq(D)] /\ Collects(g, n, item, jump)
<1>1. PICK base : base = [a \in 0 .. n |-> <<>>]
  OBVIOUS
<1>2. PICK step : step = [a \in 0 .. n |-> [s \in Seq(D) |-> <<item[a]>> \o s]]
  OBVIOUS
<1>3. base \in [0 .. n -> Seq(D)]
  BY <1>1
<1>4. step \in [0 .. n -> [Seq(D) -> Seq(D)]]
  <2>1. ASSUME NEW a \in 0 .. n, NEW s \in Seq(D) PROVE <<item[a]>> \o s \in Seq(D)
    OBVIOUS
  <2> QED
    BY <1>2, <2>1
<1>5. PICK g : g \in [0 .. n -> Seq(D)] /\ Climbs(g, n, base, step, jump)
  BY <1>3, <1>4, JumpsExist
<1>6. ASSUME NEW a \in 0 .. n
      PROVE  g[a] = IF jump[a] \in a + 1 .. n THEN <<item[a]>> \o g[jump[a]] ELSE <<>>
  <2>1. g[a] = IF jump[a] \in a + 1 .. n THEN step[a][g[jump[a]]] ELSE base[a]
    BY <1>5 DEF Climbs
  <2>2. jump[a] \in a + 1 .. n => g[jump[a]] \in Seq(D)
    BY <1>5
  <2> QED
    BY <1>1, <1>2, <2>1, <2>2
<1> QED
  BY <1>5, <1>6 DEF Collects

\* Induction from b to n.
LEMMA UpFrom ==
    ASSUME NEW b \in Int, NEW n \in Int, b <= n, NEW T, b \in T, \A i \in b + 1 .. n : i - 1 \in T => i \in T
    PROVE  b .. n \subseteq T
<1>1. PICK U : U = {d \in Nat : b + d \in T}
  OBVIOUS
<1>2. PICK k : k = n - b
  OBVIOUS
<1>3. k \in Nat
  BY <1>2
<1>4. 0 \in U
  BY <1>1
<1>5. ASSUME NEW i \in 1 .. k, i - 1 \in U PROVE i \in U
  <2>1. b + (i - 1) \in T /\ b + i \in b + 1 .. n /\ (b + i) - 1 = b + (i - 1)
    BY <1>1, <1>2, <1>5
  <2>2. b + i \in T
    BY <2>1
  <2> QED
    BY <1>1, <2>2
<1>6. 0 .. k \subseteq U
  BY <1>3, <1>4, <1>5, UpTo
<1> SUFFICES ASSUME NEW j \in b .. n PROVE j \in T
  OBVIOUS
<1>7. j - b \in 0 .. k /\ b + (j - b) = j
  BY <1>2
<1> QED
  BY <1>1, <1>6, <1>7

\* g runs from s at b through the steps up to n.
Runs(g, b, n, D, s, step) ==
    /\ g \in [b .. n -> D]
    /\ g[b] = s
    /\ \A i \in b + 1 .. n : g[i] = step[i][g[i - 1]]

LEMMA RunExists ==
    ASSUME NEW b \in Int, NEW n \in Int, b <= n, NEW D, NEW s \in D, NEW step \in [b + 1 .. n -> [D -> D]]
    PROVE  \E g : Runs(g, b, n, D, s, step)
<1>1. PICK k : k = n - b
  OBVIOUS
<1>2. k \in Nat
  BY <1>1
<1>3. PICK st : st = [i \in 1 .. k |-> step[b + i]]
  OBVIOUS
<1>4. st \in [1 .. k -> [D -> D]]
  <2>1. ASSUME NEW i \in 1 .. k PROVE step[b + i] \in [D -> D]
    <3>1. b + i \in b + 1 .. n
      BY <1>1
    <3> QED
      BY <3>1
  <2> QED
    BY <1>3, <2>1
<1>5. PICK f : Follows(f, k, D, s, st)
  BY <1>2, <1>4, StepsExist
<1>6. f \in [0 .. k -> D] /\ f[0] = s /\ \A i \in 1 .. k : f[i] = st[i][f[i - 1]]
  BY <1>5 DEF Follows
<1>7. PICK g : g = [i \in b .. n |-> f[i - b]]
  OBVIOUS
<1>8. ASSUME NEW i \in b .. n PROVE i - b \in 0 .. k /\ f[i - b] \in D /\ g[i] = f[i - b]
  <2>1. i - b \in 0 .. k
    BY <1>1
  <2> QED
    BY <1>6, <1>7, <2>1
<1>9. g \in [b .. n -> D]
  BY <1>7, <1>8
<1>10. g[b] = s
  <2>1. b \in b .. n /\ b - b = 0
    OBVIOUS
  <2> QED
    BY <1>6, <1>8, <2>1
<1>11. ASSUME NEW i \in b + 1 .. n PROVE g[i] = step[i][g[i - 1]]
  <2>1. i \in b .. n /\ i - 1 \in b .. n /\ i - b \in 1 .. k /\ (i - 1) - b = (i - b) - 1 /\ b + (i - b) = i
    BY <1>1
  <2>2. f[i - b] = st[i - b][f[(i - b) - 1]]
    BY <1>6, <2>1
  <2>3. st[i - b] = step[i]
    BY <1>3, <2>1
  <2> QED
    BY <1>8, <2>1, <2>2, <2>3
<1> QED
  BY <1>9, <1>10, <1>11 DEF Runs
=============================================================================
