-------------------------- MODULE HostRoundProofs --------------------------
(***************************************************************************)
(* Theorems about the host's rounds, for any number of VMs, priorities,    *)
(* devices, block sizes, limits, pool and host memory: the pool is never   *)
(* overdrawn, the host's reserve is kept, and priority decides.            *)
(***************************************************************************)
EXTENDS HostRound, WellFoundedInduction, TLAPS

\* What is assumed of the constants.
LEMMA Numbers == N \in Nat \ {0}
BY RoundAssumption

USE Numbers DEF VMs

-----------------------------------------------------------------------------
\* Counting.  What holds at 0 and is handed on from each number to the next holds up to
\* any number, by the well-foundedness of the natural numbers.

NatLess == {pair \in Nat \X Nat : pair[1] < pair[2]}

\* Every non-empty set of natural numbers has a minimal element, ...
LEMMA NatLessWellFounded == IsWellFoundedOn(NatLess, Nat)
BY NatLessThanWellFounded DEF OpToRel, NatLess

\* ... which is its least.
LEMMA LeastOf ==
  ASSUME NEW T, T \subseteq Nat, T # {}
  PROVE  \E x \in T : \A y \in T : x <= y
<1>1. PICK x \in T : \A y \in T : ~(<<y, x>> \in NatLess)
  BY NatLessWellFounded, WFMin
<1>2. ASSUME NEW y \in T, y < x PROVE FALSE
  <2>1. <<y, x>> \in Nat \X Nat /\ <<y, x>>[1] < <<y, x>>[2]
    BY <1>2
  <2>2. <<y, x>> \in NatLess
    BY <2>1 DEF NatLess
  <2> QED
    BY <1>1, <2>2
<1> QED
  BY <1>2

\* A set that holds 0 and the successors of its members holds every number.
LEMMA UpTo ==
  ASSUME NEW m \in Nat, NEW S, 0 \in S, \A n \in 1 .. m : n - 1 \in S => n \in S
  PROVE  \A n \in 0 .. m : n \in S
<1> DEFINE T == {n \in 0 .. m : n \notin S}
<1> SUFFICES ASSUME T # {} PROVE FALSE
  OBVIOUS
<1>1. PICK x \in T : \A y \in T : x <= y
  <2>1. T \subseteq Nat
    OBVIOUS
  <2> HIDE DEF T
  <2> QED
    BY <2>1, LeastOf
<1>2. x \in 1 .. m /\ x - 1 \in 0 .. m
  OBVIOUS
<1>3. x - 1 \notin T
  BY <1>1, <1>2
<1> QED
  BY <1>2, <1>3

\* The same for the VMs, taken in configuration order.
LEMMA ByVM ==
  ASSUME NEW S, 0 \in S, \A n \in VMs : n - 1 \in S => n \in S
  PROVE  N \in S
<1>1. \A n \in 0 .. N : n \in S
  BY UpTo
<1> QED
  BY <1>1

-----------------------------------------------------------------------------
\* Sums

\* s are the partial sums of f.
Sums(s, f) ==
  /\ s \in [0 .. N -> Int] /\ s[0] = 0
  /\ \A k \in VMs : s[k] = s[k - 1] + f[k]

\* Partial sums exist, so SumsOf is what its definition says.
LEMMA SumsExist ==
  ASSUME NEW f \in [VMs -> Int]
  PROVE  Sums(SumsOf(f), f)
<1> DEFINE P(g, m) == /\ g \in [0 .. m -> Int] /\ g[0] = 0
                      /\ \A k \in 1 .. m : g[k] = g[k - 1] + f[k]
           S == {m \in 0 .. N : \E g : P(g, m)}
<1>1. 0 \in S
  <2> DEFINE g == [k \in 0 .. 0 |-> 0]
  <2>1. P(g, 0) /\ 0 \in 0 .. N
    OBVIOUS
  <2> HIDE DEF P, g
  <2> QED
    BY <2>1
<1>2. ASSUME NEW n \in VMs, n - 1 \in S PROVE n \in S
  <2>1. PICK g : P(g, n - 1)
    BY <1>2
  <2> DEFINE h == [k \in 0 .. n |-> IF k = n THEN g[n - 1] + f[n] ELSE g[k]]
  <2>2. P(h, n)
    BY <2>1
  <2> HIDE DEF P, h
  <2> QED
    BY <2>2
<1>3. \A n \in VMs : n - 1 \in S => n \in S
  BY <1>2
<1>4. PICK g : P(g, N)
  <2>1. N \in S
    <3> HIDE DEF S
    <3> QED
      BY <1>1, <1>3, ByVM
  <2> QED
    BY <2>1
<1>5. g = [k \in 0 .. N |-> IF k = 0 THEN 0 ELSE g[k - 1] + f[k]]
  BY <1>4
<1> DEFINE s == SumsOf(f)
<1>6. s = [k \in 0 .. N |-> IF k = 0 THEN 0 ELSE s[k - 1] + f[k]]
  BY <1>5 DEF SumsOf
<1> HIDE DEF s
<1>7. 0 \in 0 .. N /\ s[0] = 0
  BY <1>6
<1>8. \A k \in VMs : s[k] = s[k - 1] + f[k]
  BY <1>6
<1> DEFINE R == {m \in 0 .. N : s[m] \in Int}
<1>9. \A n \in 1 .. N : n - 1 \in R => n \in R
  BY <1>8
<1>10. \A n \in 0 .. N : n \in R
  <2>1. 0 \in R
    BY <1>7
  <2> HIDE DEF R
  <2> QED
    BY <2>1, <1>9, UpTo
<1>11. s \in [0 .. N -> Int]
  BY <1>6, <1>10
<1> QED
  BY <1>7, <1>8, <1>11 DEF Sums, s

\* One term more.
LEMMA SumsAt ==
  ASSUME NEW f \in [VMs -> Int], NEW s, Sums(s, f), NEW n \in VMs
  PROVE  s[n] = s[n - 1] + f[n] /\ s[n - 1] \in Int /\ s[n] \in Int /\ f[n] \in Int
<1>1. n - 1 \in 0 .. N /\ n \in 0 .. N
  OBVIOUS
<1> QED
  BY <1>1 DEF Sums

\* Terms of a sum may be exchanged, and smaller terms make a smaller sum.
LEMMA Exchange ==
  /\ \A a, b, c \in Int : a + (b + c) = (a + b) + c
  /\ \A a, b, c \in Int : (a + b) + c = (a + c) + b
  /\ \A a, b, c \in Int : a + (b - c) = a - c + b
OBVIOUS

LEMMA SmallerTerms == \A a, b, c, d \in Int : a <= b /\ c <= d => a + c <= b + d
OBVIOUS

\* Two functions that differ at one place have sums that differ by as much.
LEMMA TotalUpdate ==
  ASSUME NEW f \in [VMs -> Int], NEW g \in [VMs -> Int], NEW v \in VMs,
         \A w \in VMs \ {v} : g[w] = f[w]
  PROVE  Total(g) = Total(f) - f[v] + g[v]
<1> DEFINE s == SumsOf(f)
           t == SumsOf(g)
           d == g[v] - f[v]
           S == {n \in 0 .. N : t[n] = IF n < v THEN s[n] ELSE s[n] + d}
<1>1. Sums(s, f) /\ Sums(t, g)
  BY SumsExist
<1>2. f[v] \in Int /\ g[v] \in Int /\ d \in Int
  OBVIOUS
<1>3. g[v] = f[v] + d
  BY <1>2
<1> HIDE DEF s, t, d
<1>4. 0 \in S
  BY <1>1 DEF Sums
<1>5. ASSUME NEW n \in VMs, n - 1 \in S PROVE n \in S
  <2>1. s[n] = s[n - 1] + f[n] /\ s[n - 1] \in Int /\ s[n] \in Int /\ f[n] \in Int
    BY <1>1, SumsAt
  <2>2. t[n] = t[n - 1] + g[n]
    BY <1>1, SumsAt
  <2>3. t[n - 1] = IF n - 1 < v THEN s[n - 1] ELSE s[n - 1] + d
    BY <1>5
  <2>4. t[n] = IF n < v THEN s[n] ELSE s[n] + d
    <3>1. CASE n < v
      <4>1. t[n - 1] = s[n - 1] /\ g[n] = f[n]
        BY <2>3, <3>1
      <4> QED
        BY <2>1, <2>2, <3>1, <4>1
    <3>2. CASE n = v
      <4>1. t[n - 1] = s[n - 1] /\ t[n] = s[n - 1] + (f[n] + d)
        BY <1>3, <2>2, <2>3, <3>2
      <4>2. s[n - 1] + (f[n] + d) = (s[n - 1] + f[n]) + d
        <5>1. s[n - 1] \in Int /\ f[n] \in Int /\ d \in Int
          BY <1>2, <2>1
        <5> QED
          BY <5>1, Exchange
      <4> QED
        BY <2>1, <3>2, <4>1, <4>2
    <3>3. CASE n > v
      <4>1. ~(n - 1 < v) /\ ~(n < v) /\ n # v
        BY <3>3
      <4>2. t[n] = (s[n - 1] + d) + f[n]
        BY <2>2, <2>3, <4>1
      <4>3. (s[n - 1] + d) + f[n] = (s[n - 1] + f[n]) + d
        <5>1. s[n - 1] \in Int /\ f[n] \in Int /\ d \in Int
          BY <1>2, <2>1
        <5> QED
          BY <5>1, Exchange
      <4> QED
        BY <2>1, <4>1, <4>2, <4>3
    <3> QED
      BY <3>1, <3>2, <3>3
  <2> QED
    BY <2>4
<1>6. \A n \in VMs : n - 1 \in S => n \in S
  BY <1>5
<1>7. N \in S
  <2> HIDE DEF S
  <2> QED
    BY <1>4, <1>6, ByVM
<1>8. t[N] = s[N] + d /\ s[N] \in Int
  BY <1>1, <1>7, SumsAt
<1>9. s[N] + d = s[N] - f[v] + g[v]
  BY <1>2, <1>8, Exchange DEF d
<1> QED
  BY <1>8, <1>9 DEF Total, s, t

\* A smaller function has a smaller sum.
LEMMA TotalOrder ==
  ASSUME NEW f \in [VMs -> Int], NEW g \in [VMs -> Int], \A v \in VMs : f[v] <= g[v]
  PROVE  Total(f) <= Total(g)
<1> DEFINE s == SumsOf(f)
           t == SumsOf(g)
           S == {n \in 0 .. N : s[n] <= t[n]}
<1>1. Sums(s, f) /\ Sums(t, g)
  BY SumsExist
<1> HIDE DEF s, t
<1>2. 0 \in S
  BY <1>1 DEF Sums
<1>3. ASSUME NEW n \in VMs, n - 1 \in S PROVE n \in S
  <2>1. s[n] = s[n - 1] + f[n] /\ t[n] = t[n - 1] + g[n]
    BY <1>1, SumsAt
  <2>2. /\ s[n - 1] \in Int /\ s[n] \in Int /\ t[n - 1] \in Int /\ t[n] \in Int
        /\ f[n] \in Int /\ g[n] \in Int
    BY <1>1, SumsAt
  <2>3. s[n - 1] <= t[n - 1] /\ f[n] <= g[n]
    BY <1>3
  <2>4. s[n - 1] + f[n] <= t[n - 1] + g[n]
    BY <2>2, <2>3, SmallerTerms
  <2> QED
    BY <2>1, <2>4
<1>4. \A n \in VMs : n - 1 \in S => n \in S
  BY <1>3
<1>5. N \in S
  <2> HIDE DEF S
  <2> QED
    BY <1>2, <1>4, ByVM
<1> QED
  BY <1>5 DEF Total, s, t

\* The sum of two functions.
LEMMA TotalSum ==
  ASSUME NEW f \in [VMs -> Int], NEW g \in [VMs -> Int], NEW h \in [VMs -> Int],
         \A v \in VMs : h[v] = f[v] + g[v]
  PROVE  Total(h) = Total(f) + Total(g)
<1> DEFINE s == SumsOf(f)
           t == SumsOf(g)
           u == SumsOf(h)
           S == {n \in 0 .. N : u[n] = s[n] + t[n]}
<1>1. Sums(s, f) /\ Sums(t, g) /\ Sums(u, h)
  BY SumsExist
<1> HIDE DEF s, t, u
<1>2. 0 \in S
  BY <1>1 DEF Sums
<1>3. ASSUME NEW n \in VMs, n - 1 \in S PROVE n \in S
  <2>1. s[n] = s[n - 1] + f[n] /\ s[n - 1] \in Int /\ s[n] \in Int /\ f[n] \in Int
    BY <1>1, SumsAt
  <2>2. t[n] = t[n - 1] + g[n] /\ t[n - 1] \in Int /\ t[n] \in Int /\ g[n] \in Int
    BY <1>1, SumsAt
  <2>3. u[n] = u[n - 1] + h[n] /\ u[n - 1] \in Int /\ h[n] \in Int /\ h[n] = f[n] + g[n]
    BY <1>1, SumsAt
  <2>4. u[n - 1] = s[n - 1] + t[n - 1]
    BY <1>3
  <2>5. u[n] = (s[n - 1] + t[n - 1]) + (f[n] + g[n])
    BY <2>3, <2>4, Zenon
  <2>6. (s[n - 1] + t[n - 1]) + (f[n] + g[n]) = (s[n - 1] + f[n]) + (t[n - 1] + g[n])
    <3> DEFINE a == s[n - 1]
               b == t[n - 1]
               c == f[n]
               d == g[n]
    <3>1. a \in Int /\ b \in Int /\ c \in Int /\ d \in Int
      BY <2>1, <2>2
    <3> HIDE DEF a, b, c, d
    <3>2. (a + b) + (c + d) = (a + c) + (b + d)
      BY <3>1
    <3> QED
      BY <3>2 DEF a, b, c, d
  <2>7. u[n] = s[n] + t[n]
    BY <2>1, <2>2, <2>5, <2>6, Zenon
  <2> QED
    BY <2>7
<1>4. \A n \in VMs : n - 1 \in S => n \in S
  BY <1>3
<1>5. N \in S
  <2> HIDE DEF S
  <2> QED
    BY <1>2, <1>4, ByVM
<1> QED
  BY <1>5 DEF Total, s, t, u

\* A sum is a number, nothing if every term is, and, of natural numbers, no less than any
\* term.
LEMMA TotalType == ASSUME NEW f \in [VMs -> Int] PROVE Total(f) \in Int
<1>1. Sums(SumsOf(f), f) /\ N \in 0 .. N
  BY SumsExist
<1> QED
  BY <1>1 DEF Total, Sums

LEMMA TotalZero == Total([v \in VMs |-> 0]) = 0
<1> DEFINE f == [v \in VMs |-> 0]
<1>1. f \in [VMs -> Int] /\ \A v \in VMs : f[v] = f[v] + f[v]
  OBVIOUS
<1> HIDE DEF f
<1>2. Total(f) \in Int /\ Total(f) = Total(f) + Total(f)
  BY <1>1, TotalSum, TotalType
<1> QED
  BY <1>2 DEF f

LEMMA TotalMember ==
  ASSUME NEW f \in [VMs -> Nat], NEW v \in VMs
  PROVE  Total(f) \in Nat /\ f[v] <= Total(f)
<1> DEFINE z == [w \in VMs |-> 0]
           g == [w \in VMs |-> IF w = v THEN f[v] ELSE 0]
<1>1. /\ z \in [VMs -> Int] /\ g \in [VMs -> Int] /\ f \in [VMs -> Int]
      /\ \A w \in VMs : g[w] <= f[w]
      /\ \A w \in VMs \ {v} : g[w] = z[w]
      /\ z[v] = 0 /\ g[v] = f[v] /\ f[v] \in Nat
  OBVIOUS
<1>2. Total(z) = 0
  BY TotalZero
<1> HIDE DEF z, g
<1>3. Total(g) = Total(z) - z[v] + g[v]
  <2>1. z \in [VMs -> Int] /\ g \in [VMs -> Int] /\ \A w \in VMs \ {v} : g[w] = z[w]
    BY <1>1
  <2> QED
    BY <2>1, TotalUpdate
<1>4. Total(g) <= Total(f) /\ Total(f) \in Int /\ Total(g) \in Int
  BY <1>1, TotalOrder, TotalType
<1> QED
  BY <1>1, <1>2, <1>3, <1>4

\* The same for natural numbers.
LEMMA SizesOrder ==
  ASSUME NEW f \in [VMs -> Nat], NEW g \in [VMs -> Nat], \A v \in VMs : f[v] <= g[v]
  PROVE  Total(f) \in Nat /\ Total(g) \in Nat /\ Total(f) <= Total(g)
<1>1. f \in [VMs -> Int] /\ g \in [VMs -> Int] /\ 1 \in VMs
  OBVIOUS
<1>2. Total(f) \in Nat /\ Total(g) \in Nat
  BY <1>1, TotalMember
<1>3. Total(f) <= Total(g)
  BY <1>1, TotalOrder
<1> QED
  BY <1>2, <1>3

LEMMA SizesSum ==
  ASSUME NEW f \in [VMs -> Nat], NEW g \in [VMs -> Nat], NEW h \in [VMs -> Nat],
         \A v \in VMs : h[v] = f[v] + g[v]
  PROVE  Total(h) = Total(f) + Total(g)
<1>1. f \in [VMs -> Int] /\ g \in [VMs -> Int] /\ h \in [VMs -> Int]
  OBVIOUS
<1> QED
  BY <1>1, TotalSum

-----------------------------------------------------------------------------
\* Blocks

\* Division with remainder, and multiples.
LEMMA Multiple == ASSUME NEW b \in Nat \ {0}, NEW k \in Nat PROVE (b * k) % b = 0
OBVIOUS

LEMMA Divided ==
  ASSUME NEW b \in Nat \ {0}, NEW x \in Nat
  PROVE  x \div b \in Nat /\ x % b \in 0 .. b - 1 /\ x = b * (x \div b) + (x % b)
<1>1. x \div b \in Nat
  OBVIOUS
<1>2. x % b \in 0 .. b - 1
  OBVIOUS
<1>3. x = b * (x \div b) + (x % b)
  OBVIOUS
<1> QED
  BY <1>1, <1>2, <1>3

\* Rounding down gives whole blocks and loses less than one.
LEMMA AlignDown ==
  ASSUME NEW b \in Nat \ {0}, NEW x \in Nat
  PROVE  /\ align_down(x, b) \in Nat /\ align_down(x, b) <= x /\ x < align_down(x, b) + b
         /\ align_down(x, b) % b = 0
<1>1. x \div b \in Nat /\ x % b \in 0 .. b - 1 /\ x = b * (x \div b) + (x % b)
  BY Divided
<1>2. align_down(x, b) = b * (x \div b)
  BY <1>1 DEF align_down
<1>3. align_down(x, b) % b = 0
  BY <1>1, <1>2, Multiple
<1>4. align_down(x, b) \in Nat /\ align_down(x, b) <= x /\ x < align_down(x, b) + b
  BY <1>1 DEF align_down
<1> QED
  BY <1>3, <1>4

\* Between two sizes there is at least a block.
LEMMA BlockBetween ==
  ASSUME NEW b \in Nat \ {0}, NEW x \in Nat, NEW y \in Nat, x % b = 0, y % b = 0, x < y
  PROVE  x + b <= y
<1> DEFINE i == x \div b
           j == y \div b
<1>1. i \in Nat /\ j \in Nat /\ x = b * i /\ y = b * j
  BY Divided
<1> HIDE DEF i, j
<1>2. i < j
  BY <1>1
<1>3. b * (j - i) >= b
  BY <1>1, <1>2
<1> QED
  BY <1>1, <1>3

\* Whole blocks added and taken away are whole blocks.
LEMMA BlocksAdded ==
  ASSUME NEW b \in Nat \ {0}, NEW x \in Nat, NEW y \in Nat, x % b = 0, y % b = 0
  PROVE  (x + y) % b = 0 /\ (x >= y => (x - y) % b = 0)
<1> DEFINE i == x \div b
           j == y \div b
<1>1. i \in Nat /\ j \in Nat /\ x = b * i /\ y = b * j
  BY Divided
<1> HIDE DEF i, j
<1>2. x + y = b * (i + j)
  BY <1>1
<1>3. ASSUME x >= y PROVE i >= j /\ x - y = b * (i - j)
  BY <1>1, <1>3
<1>4. x >= y => (x - y) % b = 0
  <2> SUFFICES ASSUME x >= y PROVE (x - y) % b = 0
    OBVIOUS
  <2>1. i - j \in Nat /\ x - y = b * (i - j)
    BY <1>1, <1>3
  <2> QED
    BY <2>1, Multiple
<1> QED
  BY <1>1, <1>2, <1>4, Multiple

-----------------------------------------------------------------------------
\* The order of priority

\* Any two VMs are ordered, one way only, and the order is transitive.
LEMMA BeforeOrder ==
  /\ \A v, w \in VMs : v # w => Before(v, w) \/ Before(w, v)
  /\ \A v, w \in VMs : Before(v, w) => v # w /\ ~Before(w, v)
  /\ \A u, v, w \in VMs : Before(u, v) /\ Before(v, w) => Before(u, w)
<1>1. \A v \in VMs : Priority[v] \in Nat /\ v \in Nat
  <2>1. Priority \in [VMs -> Nat]
    BY RoundAssumption
  <2> QED
    BY <2>1
<1>2. \A v, w \in VMs : v # w => Before(v, w) \/ Before(w, v)
  BY <1>1 DEF Before
<1>3. \A v, w \in VMs : Before(v, w) => v # w /\ ~Before(w, v)
  BY <1>1 DEF Before
<1>4. \A u, v, w \in VMs : Before(u, v) /\ Before(v, w) => Before(u, w)
  BY <1>1 DEF Before
<1> QED
  BY <1>2, <1>3, <1>4

\* The first n VMs sorted.
Sorted(o, n) ==
  /\ o \in [1 .. n -> 1 .. n]
  /\ \A v \in 1 .. n : \E k \in 1 .. n : o[k] = v
  /\ \A j, k \in 1 .. n : j < k => Before(o[j], o[k])

\* One more VM is put before the first that comes after it.
LEMMA Insertion ==
  ASSUME NEW n \in VMs, NEW o, Sorted(o, n - 1)
  PROVE  \E q : Sorted(q, n)
<1> DEFINE T == {k \in 1 .. n : k = n \/ Before(n, o[k])}
<1>1. PICK p \in T : \A k \in T : p <= k
  <2>1. T \subseteq Nat /\ n \in T
    OBVIOUS
  <2> HIDE DEF T
  <2> QED
    BY <2>1, LeastOf
<1>2. p \in 1 .. n /\ \A k \in 1 .. p - 1 : ~Before(n, o[k])
  BY <1>1
<1>3. p = n \/ Before(n, o[p])
  BY <1>1
<1> HIDE DEF T
<1> DEFINE q == [k \in 1 .. n |-> IF k < p THEN o[k] ELSE IF k = p THEN n ELSE o[k - 1]]
<1>4. \A k \in 1 .. n - 1 : o[k] \in 1 .. n - 1 /\ o[k] \in VMs /\ o[k] # n
  BY DEF Sorted
<1>5. q \in [1 .. n -> 1 .. n]
  <2> SUFFICES ASSUME NEW k \in 1 .. n PROVE q[k] \in 1 .. n
    OBVIOUS
  <2>1. CASE k < p
    BY <1>2, <1>4, <2>1
  <2>2. CASE k = p
    BY <2>2
  <2>3. CASE k > p
    <3>1. k - 1 \in 1 .. n - 1
      BY <1>2, <2>3
    <3> QED
      BY <1>2, <1>4, <2>3, <3>1
  <2> QED
    BY <1>2, <2>1, <2>2, <2>3
<1>6. ASSUME NEW v \in 1 .. n PROVE \E k \in 1 .. n : q[k] = v
  <2>1. CASE v = n
    BY <1>2, <2>1
  <2>2. CASE v # n
    <3>1. PICK k \in 1 .. n - 1 : o[k] = v
      BY <2>2 DEF Sorted
    <3>2. CASE k < p
      BY <3>1, <3>2
    <3>3. CASE k >= p
      <4>1. k + 1 \in 1 .. n /\ ~(k + 1 < p) /\ k + 1 # p /\ k + 1 - 1 = k
        BY <1>2, <3>3
      <4> QED
        BY <3>1, <4>1
    <3> QED
      BY <1>2, <3>2, <3>3
  <2> QED
    BY <2>1, <2>2
<1>7. ASSUME NEW j \in 1 .. n, NEW k \in 1 .. n, j < k PROVE Before(q[j], q[k])
  <2>0. n \in VMs
    OBVIOUS
  <2>1. CASE k < p
    <3>1. q[j] = o[j] /\ q[k] = o[k] /\ j \in 1 .. n - 1 /\ k \in 1 .. n - 1
      BY <1>2, <1>7, <2>1
    <3> QED
      BY <1>7, <3>1 DEF Sorted
  <2>2. CASE k = p
    <3>1. q[j] = o[j] /\ q[k] = n /\ j \in 1 .. n - 1 /\ j \in 1 .. p - 1
      BY <1>2, <1>7, <2>2
    <3>2. ~Before(n, o[j]) /\ o[j] \in VMs /\ o[j] # n
      BY <1>2, <1>4, <3>1
    <3> QED
      BY <2>0, <3>1, <3>2, BeforeOrder
  <2>3. CASE k > p /\ j < p
    <3>1. q[j] = o[j] /\ q[k] = o[k - 1] /\ j \in 1 .. n - 1 /\ k - 1 \in 1 .. n - 1 /\ j < k - 1
      BY <1>2, <1>7, <2>3
    <3> QED
      BY <3>1 DEF Sorted
  <2>4. CASE k > p /\ j = p
    <3>1. q[j] = n /\ q[k] = o[k - 1] /\ p \in 1 .. n - 1 /\ k - 1 \in 1 .. n - 1 /\ p <= k - 1
      BY <1>2, <1>7, <2>4
    <3>2. Before(n, o[p]) /\ o[p] \in VMs /\ o[k - 1] \in VMs
      BY <1>3, <1>4, <3>1
    <3>3. p = k - 1 \/ Before(o[p], o[k - 1])
      BY <3>1 DEF Sorted
    <3> QED
      BY <2>0, <3>1, <3>2, <3>3, BeforeOrder
  <2>5. CASE k > p /\ j > p
    <3>1. /\ q[j] = o[j - 1] /\ q[k] = o[k - 1] /\ j - 1 \in 1 .. n - 1
          /\ k - 1 \in 1 .. n - 1 /\ j - 1 < k - 1
      BY <1>2, <1>7, <2>5
    <3> QED
      BY <3>1 DEF Sorted
  <2> QED
    BY <1>2, <2>1, <2>2, <2>3, <2>4, <2>5
<1>8. Sorted(q, n)
  <2> HIDE DEF q
  <2> QED
    BY <1>5, <1>6, <1>7 DEF Sorted
<1> QED
  BY <1>8

\* The VMs can be sorted: the order of the code's loops exists.
LEMMA OrderExists ==
  /\ PriorityOrder \in [VMs -> VMs]
  /\ \A v \in VMs : \E k \in VMs : PriorityOrder[k] = v
  /\ \A j, k \in VMs : j < k => Before(PriorityOrder[j], PriorityOrder[k])
<1> DEFINE S == {n \in 0 .. N : \E o : Sorted(o, n)}
<1>1. 0 \in S
  <2> DEFINE o == [k \in 1 .. 0 |-> 0]
  <2>1. Sorted(o, 0) /\ 0 \in 0 .. N
    BY DEF Sorted
  <2> HIDE DEF o
  <2> QED
    BY <2>1
<1>2. \A n \in VMs : n - 1 \in S => n \in S
  BY Insertion
<1>3. N \in S
  <2> HIDE DEF S
  <2> QED
    BY <1>1, <1>2, ByVM
<1>4. PICK o : Sorted(o, N)
  BY <1>3
<1>5. /\ o \in [VMs -> VMs]
      /\ \A v \in VMs : \E k \in VMs : o[k] = v
      /\ \A j, k \in VMs : j < k => Before(o[j], o[k])
  BY <1>4 DEF Sorted
<1> QED
  BY <1>5 DEF PriorityOrder

\* The first ready VM in that order is ready.
LEMMA ChosenReady == ReadyVMs # {} => Chosen \in ReadyVMs /\ Chosen \in VMs
<1> SUFFICES ASSUME ReadyVMs # {} PROVE Chosen \in ReadyVMs /\ Chosen \in VMs
  OBVIOUS
<1> DEFINE T == {k \in VMs : PriorityOrder[k] \in ReadyVMs}
<1>1. PICK k \in T : \A j \in T : k <= j
  <2>1. PICK v \in VMs : v \in ReadyVMs
    BY DEF ReadyVMs
  <2>2. PICK j \in VMs : PriorityOrder[j] = v
    BY OrderExists
  <2>3. T # {} /\ T \subseteq Nat
    BY <2>1, <2>2
  <2> HIDE DEF T
  <2> QED
    BY <2>3, LeastOf
<1>2. /\ k \in VMs /\ PriorityOrder[k] \in ReadyVMs
      /\ \A j \in 1 .. k - 1 : PriorityOrder[j] \notin ReadyVMs
  BY <1>1
<1> QED
  BY <1>2 DEF Chosen, ReadyVMs
-----------------------------------------------------------------------------
\* The allocation of the pool

Member == [charged : Nat, desired : Nat, block : Nat \ {0}]
Turn == [free : Nat, ceiling : [VMs -> Nat]]

\* One turn of the loop: what is given comes out of what is free, is no more than wanted,
\* and is short by a block only if less than a block is left.
LEMMA ServeFacts ==
  ASSUME NEW acc \in Turn, NEW v \in VMs, NEW m \in Member
  PROVE  LET r == serve(acc, v, m)
             given == r.ceiling[v] - m.charged
             wanted == saturating_sub(m.desired, m.charged)
         IN /\ r \in Turn /\ r.free <= acc.free
            /\ given \in Nat /\ given = acc.free - r.free /\ given <= wanted
            /\ wanted - given >= m.block => r.free < m.block
            /\ \A w \in VMs \ {v} : r.ceiling[w] = acc.ceiling[w]
<1> DEFINE wanted == saturating_sub(m.desired, m.charged)
           most == least(wanted, acc.free)
           granted == align_down(most, m.block)
           r == serve(acc, v, m)
<1>1. m.charged \in Nat /\ m.block \in Nat \ {0} /\ acc.free \in Nat /\ acc.ceiling \in [VMs -> Nat]
  BY DEF Member, Turn
<1>2. wanted \in Nat
  BY DEF saturating_sub, Member
<1>3. r = [free |-> acc.free - granted, ceiling |-> [acc.ceiling EXCEPT ![v] = m.charged + granted]]
  BY DEF serve
<1> HIDE DEF r, wanted
<1>4. most \in Nat /\ most <= wanted /\ most <= acc.free /\ (most = wanted \/ most = acc.free)
  BY <1>1, <1>2 DEF least
<1> HIDE DEF most
<1>5. granted \in Nat /\ granted <= most /\ most < granted + m.block
  BY <1>1, <1>4, AlignDown
<1> HIDE DEF granted
<1>6. /\ r.free = acc.free - granted /\ r.ceiling[v] = m.charged + granted
      /\ \A w \in VMs \ {v} : r.ceiling[w] = acc.ceiling[w]
      /\ r.ceiling \in [VMs -> Nat]
  <2>1. /\ r.free = acc.free - granted
        /\ r.ceiling = [acc.ceiling EXCEPT ![v] = m.charged + granted]
    BY <1>3
  <2>2. m.charged + granted \in Nat
    BY <1>1, <1>5
  <2> QED
    BY <1>1, <2>1, <2>2
<1>7. r.free \in Nat
  <2>1. acc.free \in Nat /\ granted <= acc.free
    BY <1>1, <1>4, <1>5
  <2> QED
    BY <1>5, <1>6, <2>1
<1>8. r \in Turn
  BY <1>3, <1>6, <1>7 DEF Turn
<1>9. /\ r.free <= acc.free
      /\ r.ceiling[v] - m.charged = granted
      /\ granted = acc.free - r.free
      /\ granted <= wanted
  <2>1. acc.free \in Nat /\ granted \in Nat /\ r.free = acc.free - granted
    BY <1>1, <1>5, <1>6
  <2>2. r.free <= acc.free /\ granted = acc.free - r.free
    BY <2>1
  <2>3. r.ceiling[v] - m.charged = granted
    BY <1>1, <1>5, <1>6
  <2>4. granted <= wanted
    BY <1>2, <1>4, <1>5
  <2> QED
    BY <2>2, <2>3, <2>4
<1>10. ASSUME wanted - granted >= m.block PROVE r.free < m.block
  <2>1. most = acc.free
    BY <1>1, <1>2, <1>4, <1>5, <1>10
  <2> QED
    BY <1>1, <1>4, <1>5, <1>6, <2>1
<1> QED
  BY <1>5, <1>6, <1>8, <1>9, <1>10 DEF r, wanted

\* The loop over the VMs is what its definition says.
LEMMA TurnsExist ==
  ASSUME NEW members \in [VMs -> Member]
  PROVE  LET t == turns_of(members)
         IN /\ t[0].free = saturating_sub(Pool, Total([v \in VMs |-> members[v].charged]))
            /\ t[0].ceiling = [v \in VMs |-> 0]
            /\ \A k \in VMs :
                 t[k] = serve(t[k - 1], PriorityOrder[k], members[PriorityOrder[k]])
            /\ \A k \in 0 .. N : t[k] \in Turn
<1> DEFINE start == [free |-> saturating_sub(Pool, Total([v \in VMs |-> members[v].charged])),
                     ceiling |-> [v \in VMs |-> 0]]
           after(acc, k) == serve(acc, PriorityOrder[k], members[PriorityOrder[k]])
           P(g, m) == /\ g = [k \in 0 .. m |-> g[k]] /\ g[0] = start
                      /\ \A k \in 1 .. m : g[k] = after(g[k - 1], k)
           S == {m \in 0 .. N : \E g : P(g, m)}
           t == turns_of(members)
<1>1. start \in Turn
  <2> DEFINE f == [v \in VMs |-> members[v].charged]
  <2>1. f \in [VMs -> Nat] /\ 1 \in VMs
    BY DEF Member
  <2> HIDE DEF f
  <2>2. Total(f) \in Nat
    BY <2>1, TotalMember
  <2>3. saturating_sub(Pool, Total(f)) \in Nat
    BY <2>2, RoundAssumption DEF saturating_sub
  <2> QED
    BY <2>3 DEF Turn, f
<1>2. t = CHOOSE g : g = [k \in 0 .. N |-> IF k = 0 THEN start ELSE after(g[k - 1], k)]
  BY DEF turns_of
<1>3. \A acc \in Turn, k \in VMs : after(acc, k) \in Turn
  BY OrderExists, ServeFacts
<1> HIDE DEF start, after, t
<1>4. 0 \in S
  <2> DEFINE g == [k \in 0 .. 0 |-> start]
  <2>1. P(g, 0) /\ 0 \in 0 .. N
    OBVIOUS
  <2> HIDE DEF P, g
  <2> QED
    BY <2>1
<1>5. ASSUME NEW n \in VMs, n - 1 \in S PROVE n \in S
  <2>1. PICK g : P(g, n - 1)
    BY <1>5
  <2> DEFINE h == [k \in 0 .. n |-> IF k = n THEN after(g[n - 1], n) ELSE g[k]]
  <2>2. h = [k \in 0 .. n |-> h[k]] /\ h[0] = start
    BY <2>1
  <2>3. ASSUME NEW k \in 1 .. n PROVE h[k] = after(h[k - 1], k)
    <3>1. k - 1 \in 0 .. n /\ k - 1 # n /\ h[k - 1] = g[k - 1]
      BY <2>1
    <3>2. CASE k = n
      BY <3>1, <3>2
    <3>3. CASE k # n
      <4>1. k \in 1 .. n - 1 /\ h[k] = g[k]
        BY <3>3
      <4>2. g[k] = after(g[k - 1], k)
        BY <2>1, <4>1
      <4> HIDE DEF h, P
      <4> QED
        BY <3>1, <4>1, <4>2
    <3> QED
      BY <3>2, <3>3
  <2> HIDE DEF h
  <2>4. P(h, n)
    BY <2>2, <2>3
  <2> HIDE DEF P
  <2> QED
    BY <2>4
<1>6. PICK g : P(g, N)
  <2>1. \A n \in VMs : n - 1 \in S => n \in S
    BY <1>5
  <2>2. N \in S
    <3> HIDE DEF S
    <3> QED
      BY <1>4, <2>1, ByVM
  <2> QED
    BY <2>2
<1>7. g = [k \in 0 .. N |-> IF k = 0 THEN start ELSE after(g[k - 1], k)]
  <2>1. ASSUME NEW k \in 0 .. N PROVE g[k] = IF k = 0 THEN start ELSE after(g[k - 1], k)
    <3>1. CASE k = 0
      BY <1>6, <3>1
    <3>2. CASE k # 0
      <4>1. k \in 1 .. N
        BY <3>2
      <4>2. g[k] = after(g[k - 1], k)
        BY <1>6, <4>1
      <4> QED
        BY <3>2, <4>2
    <3> QED
      BY <3>1, <3>2
  <2> QED
    BY <1>6, <2>1
<1>8. t = [k \in 0 .. N |-> IF k = 0 THEN start ELSE after(t[k - 1], k)]
  BY <1>2, <1>7
<1>9. t[0] = start /\ \A k \in VMs : t[k] = after(t[k - 1], k)
  <2>1. 0 \in 0 .. N
    OBVIOUS
  <2>2. t[0] = start
    BY <1>8, <2>1
  <2>3. \A k \in VMs : t[k] = after(t[k - 1], k)
    BY <1>8
  <2> QED
    BY <2>2, <2>3
<1> DEFINE R == {m \in 0 .. N : t[m] \in Turn}
<1>10. \A k \in 0 .. N : t[k] \in Turn
  <2>1. 0 \in R /\ \A n \in 1 .. N : n - 1 \in R => n \in R
    BY <1>1, <1>3, <1>9
  <2>2. \A k \in 0 .. N : k \in R
    <3> HIDE DEF R
    <3> QED
      BY <2>1, UpTo
  <2> QED
    BY <2>2
<1> QED
  BY <1>9, <1>10 DEF start, after, t
\* One turn of the loop for the VM whose turn it is.
LEMMA TurnOf ==
  ASSUME NEW members \in [VMs -> Member], NEW k \in VMs
  PROVE  LET t == turns_of(members)
             v == PriorityOrder[k]
             given == t[k].ceiling[v] - members[v].charged
         IN /\ v \in VMs /\ t[k - 1] \in Turn /\ t[k] \in Turn /\ t[k].free <= t[k - 1].free
            /\ given \in Nat /\ given = t[k - 1].free - t[k].free
            /\ given <= saturating_sub(members[v].desired, members[v].charged)
            /\ saturating_sub(members[v].desired, members[v].charged) - given >= members[v].block
                 => t[k].free < members[v].block
            /\ \A w \in VMs \ {v} : t[k].ceiling[w] = t[k - 1].ceiling[w]
<1> DEFINE t == turns_of(members)
           v == PriorityOrder[k]
<1>1. v \in VMs /\ members[v] \in Member
  BY OrderExists
<1>2. k - 1 \in 0 .. N /\ k \in 0 .. N
  OBVIOUS
<1>3. t[k - 1] \in Turn /\ t[k] = serve(t[k - 1], v, members[v])
  BY <1>2, TurnsExist
<1> HIDE DEF t, v
<1>4. LET r == serve(t[k - 1], v, members[v])
          given == r.ceiling[v] - members[v].charged
          wanted == saturating_sub(members[v].desired, members[v].charged)
      IN /\ r \in Turn /\ r.free <= t[k - 1].free
         /\ given \in Nat /\ given = t[k - 1].free - r.free /\ given <= wanted
         /\ wanted - given >= members[v].block => r.free < members[v].block
         /\ \A w \in VMs \ {v} : r.ceiling[w] = t[k - 1].ceiling[w]
  BY <1>1, <1>3, ServeFacts
<1> QED
  BY <1>1, <1>3, <1>4 DEF t, v

\* The ceilings hand out no more than was free.
LEMMA AllocateBounds ==
  ASSUME NEW members \in [VMs -> Member]
  PROVE  /\ allocate_pool(members) \in [VMs -> Nat]
         /\ Total([v \in VMs |-> saturating_sub(allocate_pool(members)[v], members[v].charged)])
              <= saturating_sub(Pool, Total([v \in VMs |-> members[v].charged]))
<1> DEFINE t == turns_of(members)
           given(n) == [v \in VMs |-> saturating_sub(t[n].ceiling[v], members[v].charged)]
           S == {n \in 0 .. N : Total(given(n)) + t[n].free <= t[0].free}
<1>1. /\ \A k \in 0 .. N : t[k].free \in Nat /\ t[k].ceiling \in [VMs -> Nat]
      /\ t[0].ceiling = [v \in VMs |-> 0]
      /\ t[0].free = saturating_sub(Pool, Total([v \in VMs |-> members[v].charged]))
  BY TurnsExist DEF Turn
<1>2. \A v \in VMs : members[v].charged \in Nat
  BY DEF Member
<1>3. \A k \in VMs :
        /\ PriorityOrder[k] \in VMs
        /\ t[k].ceiling[PriorityOrder[k]] - members[PriorityOrder[k]].charged \in Nat
        /\ t[k].ceiling[PriorityOrder[k]] - members[PriorityOrder[k]].charged
             = t[k - 1].free - t[k].free
        /\ \A w \in VMs \ {PriorityOrder[k]} : t[k].ceiling[w] = t[k - 1].ceiling[w]
  BY TurnOf
<1> HIDE DEF t
<1>4. \A n \in 0 .. N : given(n) \in [VMs -> Nat] /\ given(n) \in [VMs -> Int]
  <2> SUFFICES ASSUME NEW n \in 0 .. N
               PROVE  given(n) \in [VMs -> Nat] /\ given(n) \in [VMs -> Int]
    OBVIOUS
  <2>1. ASSUME NEW v \in VMs
        PROVE  saturating_sub(t[n].ceiling[v], members[v].charged) \in Nat
    <3>1. t[n].ceiling[v] \in Nat /\ members[v].charged \in Nat
      BY <1>1, <1>2
    <3> QED
      BY <3>1 DEF saturating_sub
  <2>2. given(n) \in [VMs -> Nat]
    BY <2>1
  <2> HIDE DEF given
  <2> QED
    BY <2>2
<1>5. 0 \in S
  <2>1. 0 \in 0 .. N
    OBVIOUS
  <2>2. given(0) = [v \in VMs |-> 0]
    BY <1>1, <1>2 DEF saturating_sub
  <2>3. Total(given(0)) = 0
    BY <2>2, TotalZero
  <2> HIDE DEF given
  <2> QED
    BY <1>1, <2>1, <2>3
<1>6. ASSUME NEW k \in VMs, k - 1 \in S PROVE k \in S
  <2> DEFINE v == PriorityOrder[k]
  <2>1. k - 1 \in 0 .. N /\ k \in 0 .. N /\ v \in VMs
    BY <1>3
  <2>2. \A w \in VMs \ {v} : given(k)[w] = given(k - 1)[w]
    BY <1>3
  <2>3. given(k)[v] = t[k - 1].free - t[k].free
    <3>1. t[k].ceiling[v] \in Nat /\ members[v].charged \in Nat
      BY <1>1, <1>2, <2>1
    <3>2. t[k].ceiling[v] - members[v].charged \in Nat
      BY <1>3
    <3>3. given(k)[v] = t[k].ceiling[v] - members[v].charged
      BY <2>1, <3>1, <3>2 DEF saturating_sub
    <3> QED
      BY <1>3, <3>3
  <2> HIDE DEF given, v
  <2>4. Total(given(k)) = Total(given(k - 1)) - given(k - 1)[v] + given(k)[v]
    <3>1. given(k) \in [VMs -> Int] /\ given(k - 1) \in [VMs -> Int] /\ v \in VMs
      BY <1>4, <2>1
    <3> QED
      BY ONLY <2>2, <3>1, TotalUpdate
  <2>5. Total(given(k - 1)) \in Int /\ given(k - 1)[v] \in Nat /\ Total(given(k)) \in Int
    BY <1>4, <2>1, TotalType
  <2>6. t[k].free \in Nat /\ t[k - 1].free \in Nat /\ t[0].free \in Nat
    BY <1>1, <2>1
  <2>7. Total(given(k - 1)) + t[k - 1].free <= t[0].free
    BY <1>6
  <2>8. Total(given(k)) + t[k].free <= t[0].free
    <3> DEFINE all == Total(given(k - 1))
               part == given(k - 1)[v]
               before == t[k - 1].free
               left == t[k].free
               start == t[0].free
    <3>1. /\ all \in Int /\ part \in Nat /\ before \in Nat /\ left \in Nat /\ start \in Nat
          /\ all + before <= start /\ Total(given(k)) = all - part + (before - left)
      BY <2>3, <2>4, <2>5, <2>6, <2>7
    <3>2. left = t[k].free /\ start = t[0].free
      OBVIOUS
    <3> HIDE DEF all, part, before, left, start
    <3>3. all - part + (before - left) + left <= start
      BY <3>1
    <3> QED
      BY <3>1, <3>2, <3>3
  <2> QED
    BY <2>1, <2>8
<1>7. N \in S
  <2>1. \A k \in VMs : k - 1 \in S => k \in S
    BY <1>6
  <2> HIDE DEF S
  <2> QED
    BY <1>5, <2>1, ByVM
<1>8. N \in 0 .. N
  OBVIOUS
<1>9. Total(given(N)) <= t[0].free
  <2> HIDE DEF given
  <2>1. Total(given(N)) \in Int /\ t[N].free \in Nat /\ t[0].free \in Nat
    BY <1>1, <1>4, <1>8, TotalType
  <2> QED
    BY <1>7, <2>1
<1> QED
  BY <1>1, <1>8, <1>9 DEF allocate_pool, t

\* What a VM was given stays; what is free only shrinks.
LEMMA TurnStays ==
  ASSUME NEW members \in [VMs -> Member], NEW j \in VMs
  PROVE  LET t == turns_of(members)
             v == PriorityOrder[j]
         IN \A n \in j .. N : t[n].ceiling[v] = t[j].ceiling[v] /\ t[n].free <= t[j].free
<1> DEFINE t == turns_of(members)
           v == PriorityOrder[j]
           S == {n \in 0 .. N : n >= j => t[n].ceiling[v] = t[j].ceiling[v] /\ t[n].free <= t[j].free}
<1>1. \A k \in 0 .. N : t[k].free \in Nat
  BY TurnsExist DEF Turn
<1>2. \A k \in VMs :
        /\ t[k].free <= t[k - 1].free
        /\ \A w \in VMs \ {PriorityOrder[k]} : t[k].ceiling[w] = t[k - 1].ceiling[w]
  BY TurnOf
<1>3. v \in VMs /\ \A k \in VMs : k > j => PriorityOrder[k] # v
  BY OrderExists, BeforeOrder
<1> HIDE DEF t, v
<1>4. 0 \in S
  OBVIOUS
<1>5. ASSUME NEW k \in VMs, k - 1 \in S PROVE k \in S
  <2>1. k \in 0 .. N /\ k - 1 \in 0 .. N
    OBVIOUS
  <2>2. CASE k > j
    <3>1. t[k - 1].ceiling[v] = t[j].ceiling[v] /\ t[k - 1].free <= t[j].free
      BY <1>5, <2>2
    <3>2. t[k].ceiling[v] = t[k - 1].ceiling[v] /\ t[k].free <= t[k - 1].free
      BY <1>2, <1>3, <2>2
    <3>3. t[k].free \in Nat /\ t[k - 1].free \in Nat /\ t[j].free \in Nat
      BY <1>1, <2>1
    <3>4. t[k].ceiling[v] = t[j].ceiling[v] /\ t[k].free <= t[j].free
      BY <3>1, <3>2, <3>3
    <3> QED
      BY <2>1, <3>4
  <2>3. CASE k = j
    BY <1>1, <2>1, <2>3
  <2>4. CASE k < j
    BY <2>1, <2>4
  <2> QED
    BY <2>2, <2>3, <2>4
<1>6. \A n \in 0 .. N : n \in S
  <2>1. \A k \in 1 .. N : k - 1 \in S => k \in S
    BY <1>5
  <2> HIDE DEF S
  <2> QED
    BY <1>4, <2>1, UpTo
<1> QED
  BY <1>6 DEF t, v

\* The allocation gives no VM less than it could use by a block or more while it gives a
\* later one a block.
LEMMA AllocatePriority ==
  ASSUME NEW members \in [VMs -> Member], NEW v \in VMs, NEW w \in VMs, Before(v, w)
  PROVE  LET given(x) == allocate_pool(members)[x] - members[x].charged
             wanted == saturating_sub(members[v].desired, members[v].charged)
         IN wanted - given(v) >= members[v].block => given(w) < members[v].block
<1> DEFINE t == turns_of(members)
           wanted == saturating_sub(members[v].desired, members[v].charged)
<1>1. PICK j \in VMs, k \in VMs : PriorityOrder[j] = v /\ PriorityOrder[k] = w
  BY OrderExists
<1>2. j < k
  <2>1. j # k /\ ~(k < j)
    BY <1>1, OrderExists, BeforeOrder
  <2> QED
    BY <2>1
<1>3. /\ wanted - (t[j].ceiling[v] - members[v].charged) >= members[v].block
           => t[j].free < members[v].block
      /\ t[j] \in Turn
  BY <1>1, TurnOf
<1>4. /\ t[k].ceiling[w] - members[w].charged = t[k - 1].free - t[k].free
      /\ t[k] \in Turn /\ t[k - 1] \in Turn
  BY <1>1, TurnOf
<1>5. /\ t[N].ceiling[v] = t[j].ceiling[v]
      /\ t[k - 1].free <= t[j].free
  <2>1. N \in j .. N /\ k - 1 \in j .. N
    BY <1>2
  <2> QED
    BY <1>1, <2>1, TurnStays
<1>6. t[N].ceiling[w] = t[k].ceiling[w]
  <2>1. N \in k .. N
    OBVIOUS
  <2> QED
    BY <1>1, <2>1, TurnStays
<1>7. t[j].free \in Nat /\ t[k].free \in Nat /\ t[k - 1].free \in Nat /\ members[v].block \in Nat
  BY <1>3, <1>4 DEF Turn, Member
<1> HIDE DEF t, wanted
<1>8. ASSUME wanted - (t[N].ceiling[v] - members[v].charged) >= members[v].block
      PROVE  t[N].ceiling[w] - members[w].charged < members[v].block
  <2>1. t[j].free < members[v].block
    BY <1>3, <1>5, <1>8
  <2>2. t[N].ceiling[w] - members[w].charged = t[k - 1].free - t[k].free
    BY <1>4, <1>6
  <2>3. t[k - 1].free - t[k].free < members[v].block
    <3> DEFINE before == t[k - 1].free
               left == t[k].free
               first == t[j].free
               block == members[v].block
    <3>1. /\ before <= first /\ first < block
          /\ before \in Nat /\ left \in Nat /\ first \in Nat /\ block \in Nat
      BY <1>5, <1>7, <2>1
    <3> HIDE DEF before, left, first, block
    <3>2. before - left < block
      BY <3>1
    <3> QED
      BY <3>2 DEF before, left, block
  <2> QED
    BY <2>2, <2>3
<1> QED
  BY <1>8 DEF allocate_pool, t, wanted
-----------------------------------------------------------------------------
\* Types

Aligned(v, x) == x \in Nat /\ x % Block[v] = 0

Devices ==
  /\ requested \in [VMs -> Nat] /\ current \in [VMs -> Nat]
  /\ whole \in [VMs -> BOOLEAN] /\ paused \in [VMs -> BOOLEAN]
  /\ late \in [VMs -> Nat \cup {None}]
  /\ \A v \in VMs : /\ Aligned(v, requested[v]) /\ Aligned(v, current[v])
                    /\ late[v] # None => Aligned(v, late[v])
Known ==
  /\ intent \in [VMs -> Intents \cup {None}]
  /\ last_charge \in [VMs -> Nat \cup {None}]
  /\ outstanding_growth \in [VMs -> Nat \cup {None}]
Observations ==
  /\ turn \in VMs
  /\ observed \in [VMs -> [op : Ops, bytes : Nat, charge : Nat \cup {None}]]
  /\ \A v \in VMs : observed[v].op # "Held" => Aligned(v, observed[v].charge)
Allocated == ceilings \in [VMs -> Nat] /\ committed \in Nat
Widening == phase \in {"suspend", "widen", "restore", "resume", "read"}
Commands ==
  /\ phase \in {"check", "apply"} =>
       /\ cmd \in [kind : {"resize", "settle", "extend"}, vm : VMs, target : Nat,
                   seen : Nat \X Nat, prior : Nat]
       /\ Aligned(cmd.vm, cmd.target)
       /\ intent[cmd.vm] # None
  /\ Widening =>
       /\ cmd \in [kind : {"widen", "failed"}, vm : {turn}, target : Nat,
                   seen : Nat \X Nat, prior : Nat]
       /\ Aligned(turn, observed[turn].charge)

Types == Devices /\ Known /\ Observations /\ Allocated /\ Commands

\* The steps of a widening after its first, and those of the world.
Widens ==
  \/ WidenReject \/ WidenSuspend \/ WidenApply
  \/ WidenRestore \/ WidenResume \/ WidenUnknown
World == GuestPlug \/ GuestUnplug \/ DeviceReset \/ LateApply \/ Recover

\* What the constants are.
LEMMA Constants ==
  /\ \A v \in VMs : /\ Block[v] \in Nat \ {0} /\ Device[v] \in Nat
                    /\ Device[v] % Block[v] = 0
                    /\ Minimum[v] \in Nat /\ Maximum[v] \in Nat
  /\ Pool \in Nat /\ HostTotal \in Nat /\ Reserve \in Nat /\ Margin \in Nat
  /\ None \notin Nat /\ None \notin Intents
BY RoundAssumption, RoundNoneAssumption

\* No bytes are whole blocks, and so is a block.
LEMMA WholeBlocks == \A v \in VMs : 0 % Block[v] = 0 /\ Block[v] % Block[v] = 0
<1> SUFFICES ASSUME NEW v \in VMs PROVE 0 % Block[v] = 0 /\ Block[v] % Block[v] = 0
  OBVIOUS
<1>1. Block[v] \in Nat \ {0}
  BY Constants
<1>2. (Block[v] * 0) % Block[v] = 0 /\ (Block[v] * 1) % Block[v] = 0
  BY <1>1, Multiple
<1> QED
  BY <1>1, <1>2

\* Rounding down a difference that may be negative: more than nothing is whole blocks.
LEMMA GrantedBlocks ==
  ASSUME NEW b \in Nat \ {0}, NEW x \in Int, align_down(x, b) > 0
  PROVE  align_down(x, b) \in Nat /\ align_down(x, b) <= x /\ align_down(x, b) % b = 0
<1>1. x % b \in 0 .. b - 1
  OBVIOUS
<1>2. x \in Nat
  BY <1>1 DEF align_down
<1> QED
  BY <1>2, AlignDown

\* What act does with the request it serves.
LEMMA ActFacts ==
  ASSUME Types, ActCommand
  PROVE  \E v \in VMs, target \in Nat, growth \in Nat, i \in Intents :
           LET at == observed[v].charge
           IN /\ observed[v].op # "Held" /\ at \in Nat
              /\ Aligned(v, target) /\ i.target = target
              /\ growth = saturating_sub(target, at)
              /\ \/ /\ observed[v].op = "Add" /\ target = at + growth /\ growth > 0
                    /\ target <= ceilings[v]
                    /\ committed + growth + Reserve <= Available
                 \/ target < at /\ growth = 0
              /\ phase = "act" /\ phase' = "check"
              /\ intent' = [intent EXCEPT ![v] = i]
              /\ committed' = saturating_add(committed, growth)
              /\ outstanding_growth' = [outstanding_growth EXCEPT ![v] = growth]
              /\ cmd' = [kind |-> "resize", vm |-> v, target |-> target,
                         seen |-> <<at, at>>, prior |-> committed]
              /\ observed' = [observed EXCEPT ![v] = Held(None)]
              /\ UNCHANGED <<deviceVars, latched, stopped, last_charge, turn, ceilings>>
<1> DEFINE v == Chosen
           at == observed[v].charge
           add == observed[v].op = "Add"
           grant == Grant(v)
           target == IF add THEN at + grant ELSE at - grant
           growth == saturating_sub(target, at)
           i == [direction |-> IF add THEN "Grow" ELSE "Shrink", target |-> target]
<1>1. /\ phase = "act" /\ ReadyVMs # {} /\ grant > 0 /\ phase' = "check"
      /\ intent' = [intent EXCEPT ![v] = i]
      /\ committed' = saturating_add(committed, growth)
      /\ outstanding_growth' = [outstanding_growth EXCEPT ![v] = growth]
      /\ cmd' = [kind |-> "resize", vm |-> v, target |-> target,
                 seen |-> <<at, at>>, prior |-> committed]
      /\ observed' = [observed EXCEPT ![v] = Held(None)]
      /\ UNCHANGED <<deviceVars, latched, stopped, last_charge, turn, ceilings>>
  BY DEF ActCommand, Acting, Commit, Take
<1>2. v \in VMs /\ observed[v].op # "Held"
  BY <1>1, ChosenReady DEF ReadyVMs
<1>3. /\ at \in Nat /\ at % Block[v] = 0 /\ observed[v].bytes \in Nat /\ ceilings[v] \in Nat
      /\ committed \in Nat
  BY <1>2 DEF Types, Observations, Allocated, Aligned
<1>4. Available \in Int
  <2>1. current \in [VMs -> Int]
    BY DEF Types, Devices
  <2> QED
    BY <2>1, TotalType, Constants DEF Available
<1> DEFINE host == saturating_sub(saturating_sub(
                     saturating_sub(Available, committed), Reserve), Margin)
           free == least(least(Wanted(v), Device[v] - at),
                         least(saturating_sub(ceilings[v], at), host))
           given == least(observed[v].bytes, saturating_sub(at, Minimum[v]))
<1>5. grant = IF add THEN align_down(free, Block[v]) ELSE align_down(given, Block[v])
  BY DEF Grant
<1>6. Wanted(v) \in Nat
  BY <1>2, <1>3, Constants DEF Wanted, least, saturating_sub
<1>7. host \in Nat /\ (host > 0 => committed + host + Reserve <= Available)
  BY <1>3, <1>4, Constants DEF saturating_sub
<1>8. Block[v] \in Nat \ {0} /\ Device[v] \in Nat /\ Minimum[v] \in Nat
  BY <1>2, Constants
<1> HIDE DEF v, grant, host
<1>9. CASE add
  <2>1. free \in Int /\ free <= saturating_sub(ceilings[v], at) /\ free <= host
    BY <1>3, <1>6, <1>7, <1>8 DEF least, saturating_sub
  <2>2. grant = align_down(free, Block[v])
    BY <1>5, <1>9
  <2> HIDE DEF free
  <2>3. grant \in Nat /\ grant <= free /\ grant % Block[v] = 0 /\ grant > 0
    BY <1>1, <1>8, <2>1, <2>2, GrantedBlocks
  <2>4. target = at + grant /\ target \in Nat /\ target % Block[v] = 0
    <3>1. target = at + grant
      BY <1>9
    <3> HIDE DEF target, add, at
    <3>2. at + grant \in Nat /\ (at + grant) % Block[v] = 0
      BY <1>3, <1>8, <2>3, BlocksAdded
    <3> QED
      BY <3>1, <3>2
  <2>5. growth = grant /\ target <= ceilings[v] /\ committed + growth + Reserve <= Available
    BY <1>3, <1>4, <1>7, <2>1, <2>3, <2>4, Constants DEF saturating_sub
  <2>6. i \in Intents /\ i.target = target
    BY <2>4 DEF Intents, Directions
  <2> HIDE DEF target, growth, i
  <2> QED
    BY <1>1, <1>2, <1>3, <1>9, <2>3, <2>4, <2>5, <2>6 DEF Aligned, growth
<1>10. CASE ~add
  <2>1. given \in Nat /\ given <= at
    BY <1>3, <1>8 DEF least, saturating_sub
  <2>2. grant = align_down(given, Block[v])
    BY <1>5, <1>10
  <2> HIDE DEF given
  <2>3. grant \in Nat /\ grant <= at /\ grant % Block[v] = 0
    <3>1. grant \in Nat /\ grant <= given /\ grant % Block[v] = 0
      BY <1>8, <2>1, <2>2, AlignDown
    <3> QED
      BY <1>3, <2>1, <3>1
  <2>4. target = at - grant /\ target \in Nat /\ target % Block[v] = 0 /\ target < at
    <3>1. target = at - grant /\ grant > 0
      BY <1>1, <1>10
    <3> HIDE DEF target, add, at
    <3>2. at - grant \in Nat /\ (at - grant) % Block[v] = 0 /\ at - grant <= at
      BY <1>3, <1>8, <2>3, BlocksAdded
    <3>3. at - grant < at
      BY <1>3, <2>3, <3>1
    <3> QED
      BY <3>1, <3>2, <3>3
  <2>5. growth = 0
    BY <1>3, <2>4 DEF saturating_sub
  <2>6. i \in Intents /\ i.target = target
    BY <2>4 DEF Intents, Directions
  <2> HIDE DEF target, growth, i
  <2> QED
    BY <1>1, <1>2, <1>3, <2>4, <2>5, <2>6 DEF Aligned, growth
<1> QED
  BY <1>9, <1>10
\* A charge, and what is accounted for with it, is a size.
LEMMA AccountFacts ==
  ASSUME Types
  PROVE  /\ Charge \in Nat
         /\ Account => /\ last_charge' \in [VMs -> Nat \cup {None}]
                       /\ outstanding_growth' \in [VMs -> Nat \cup {None}]
<1>1. Request(turn) \in Nat /\ current[turn] \in Nat /\ turn \in VMs
  BY Constants DEF Types, Devices, Observations, Request
<1>2. Target(turn) \in Nat
  BY <1>1 DEF Types, Known, Intents, Target
<1>3. Charge \in Nat
  BY <1>1, <1>2 DEF Charge, greatest, Holding
<1>4. saturating_sub(greatest(Request(turn), Target(turn)), current[turn]) \in Nat
  BY <1>1, <1>2 DEF greatest, saturating_sub
<1>5. ASSUME Account
      PROVE  /\ last_charge' \in [VMs -> Nat \cup {None}]
             /\ outstanding_growth' \in [VMs -> Nat \cup {None}]
  <2>1. last_charge' = [last_charge EXCEPT ![turn] = Charge]
    BY <1>5 DEF Account
  <2>2. outstanding_growth' = [outstanding_growth EXCEPT ![turn] =
          saturating_sub(greatest(Request(turn), Target(turn)), current[turn])]
    BY <1>5 DEF Account
  <2> QED
    BY <1>3, <1>4, <2>1, <2>2 DEF Types, Known
<1> QED
  BY <1>3, <1>5

\* The command that phase one sends.
LEMMA PendingFacts ==
  ASSUME Types, ObserveSettle \/ ObserveExtend
  PROVE  \E kind \in {"settle", "extend"}, target \in Nat, i \in Intents :
           /\ Aligned(turn, target) /\ i.target = target
           /\ kind = "settle" => target = current[turn]
           /\ kind = "extend" => target < Request(turn)
           /\ turn \in VMs /\ phase = "observe" /\ phase' = "check"
           /\ intent' = [intent EXCEPT ![turn] = i]
           /\ observed' = [observed EXCEPT ![turn] = Held(Charge)]
           /\ cmd' = [kind |-> kind, vm |-> turn, target |-> target,
                      seen |-> <<Request(turn), current[turn]>>, prior |-> committed]
           /\ ~stopped[turn] /\ Diverged /\ Owned /\ Account
           /\ UNCHANGED <<deviceVars, latched, stopped, turn, ceilings, committed>>
<1>1. turn \in VMs /\ Aligned(turn, current[turn])
  BY DEF Types, Devices, Observations
<1>2. ASSUME NEW kind \in {"settle", "extend"}, NEW target \in Nat, ObservePending(kind, target)
      PROVE  \E i \in Intents :
               /\ i.target = target
               /\ phase = "observe" /\ phase' = "check"
               /\ intent' = [intent EXCEPT ![turn] = i]
               /\ observed' = [observed EXCEPT ![turn] = Held(Charge)]
               /\ cmd' = [kind |-> kind, vm |-> turn, target |-> target,
                          seen |-> <<Request(turn), current[turn]>>, prior |-> committed]
               /\ ~stopped[turn] /\ Diverged /\ Owned /\ Account
               /\ UNCHANGED <<deviceVars, latched, stopped, turn, ceilings, committed>>
  <2> DEFINE i == [direction |-> IF kind = "settle" THEN Settling(intent[turn].direction)
                                ELSE intent[turn].direction,
                   target |-> target]
  <2>1. intent[turn] \in Intents
    BY <1>1, <1>2 DEF ObservePending, Owned, Types, Known
  <2>2. i \in Intents /\ i.target = target
    BY <2>1 DEF Intents, Directions, Settling
  <2>3. intent' = [intent EXCEPT ![turn] = i]
    BY <1>2 DEF ObservePending
  <2> HIDE DEF i
  <2> QED
    BY <1>2, <2>2, <2>3 DEF ObservePending, Observe, Send
<1>3. CASE ObserveSettle
  <2>1. current[turn] \in Nat /\ ObservePending("settle", current[turn])
    BY <1>1, <1>3 DEF ObserveSettle, Aligned
  <2> QED
    BY <1>1, <1>2, <2>1
<1>4. CASE ObserveExtend
  <2>1. PICK target \in 0 .. Device[turn] :
          /\ target < Request(turn) /\ target % Block[turn] = 0
          /\ ObservePending("extend", target)
    BY <1>4 DEF ObserveExtend
  <2>2. target \in Nat /\ Aligned(turn, target)
    BY <1>1, <2>1, Constants DEF Aligned
  <2> QED
    BY <1>1, <1>2, <2>1, <2>2
<1> QED
  BY <1>3, <1>4

\* A widening changes no size that a command asked for, and its command is its own.
LEMMA WidensFacts ==
  ASSUME Widens
  PROVE  /\ Widening
         /\ UNCHANGED <<requested, current, late, intent, last_charge, outstanding_growth>>
         /\ UNCHANGED <<turn, observed, ceilings, committed>>
         /\ \/ /\ phase' \in {"widen", "restore", "resume", "read"}
               /\ cmd' = cmd \/ cmd' = [cmd EXCEPT !.kind = "failed"]
            \/ phase' = "observe"
<1> USE DEF deviceVars, checkpointVars, processVars, roundVars, widenVars
<1>1. ASSUME Perform, phase # "apply" PROVE UNCHANGED <<requested, current, late>>
  BY <1>1 DEF Perform
<1>2. ASSUME Unknown, phase # "apply" PROVE UNCHANGED <<requested, current, late>>
  BY <1>1, <1>2 DEF Unknown, Unanswered
<1>3. CASE WidenReject \/ WidenSuspend \/ WidenApply
  BY <1>1, <1>2, <1>3 DEF WidenReject, WidenSuspend, WidenApply, Widening
<1>4. CASE WidenRestore \/ WidenResume \/ WidenUnknown
  BY <1>1, <1>2, <1>4 DEF WidenRestore, WidenResume, WidenUnknown, Widening
<1> QED
  BY <1>3, <1>4 DEF Widens

\* The world leaves the daemon alone, ...
LEMMA WorldFacts ==
  ASSUME World
  PROVE  /\ UNCHANGED <<intent, latched, stopped, last_charge, outstanding_growth, phase>>
         /\ UNCHANGED <<turn, observed, ceilings, committed, cmd>>
<1> USE DEF deviceVars, checkpointVars, processVars, roundVars
<1>1. CASE GuestPlug \/ GuestUnplug \/ DeviceReset
  BY <1>1 DEF GuestPlug, GuestUnplug, DeviceReset, Move
<1>2. CASE LateApply \/ Recover
  BY <1>2 DEF LateApply, Recover
<1> QED
  BY <1>1, <1>2 DEF World

\* ... and the daemon touches a device only when a command is sent, ...
LEMMA CommandSent ==
  ASSUME SinkApply \/ SinkUnknown \/ Crash, ~UNCHANGED <<requested, current, late>>
  PROVE  /\ phase = "apply" /\ current' = current
         /\ \/ requested' = [requested EXCEPT ![cmd.vm] = cmd.target] /\ late' = late
            \/ requested' = requested /\ late' = [late EXCEPT ![cmd.vm] = cmd.target]
<1>1. Perform \/ Unanswered
  BY DEF SinkApply, SinkUnknown, Unknown, Crash
<1> QED
  BY <1>1 DEF Perform, Unanswered, deviceVars

\* ... or when one comes late.
LEMMA DevicesTouched ==
  ASSUME Next
  PROVE  \/ UNCHANGED <<requested, current, late>>
         \/ GuestPlug \/ GuestUnplug \/ DeviceReset \/ LateApply
         \/ /\ SinkApply \/ SinkUnknown \/ Crash
            /\ ~UNCHANGED <<requested, current, late>>
<1> USE DEF deviceVars, checkpointVars, processVars, roundVars
<1>1. CASE \/ ObserveUnreadable \/ ObserveStopped \/ ObserveHeld \/ ObserveReady
           \/ ObserveSettle \/ ObserveExtend \/ ObserveTimeout \/ WidenStart \/ ReadGuest
  BY <1>1 DEF ObserveUnreadable, ObserveStopped, ObserveHeld, ObserveReady, ObserveSettle,
       ObserveExtend, ObservePending, ObserveTimeout, WidenStart, ReadGuest
<1>2. CASE \/ Allocate \/ ActNothing \/ ActCommand \/ EndRound
           \/ SinkPass \/ SinkReject \/ Start \/ ClearLatch \/ Recover
  BY <1>2 DEF Allocate, ActNothing, ActCommand, EndRound, SinkPass, SinkReject, Start,
       ClearLatch, Recover
<1>3. CASE Widens
  BY <1>3, WidensFacts
<1> QED
  BY <1>1, <1>2, <1>3 DEF Next, Widens

\* What is suspended, and what has its whole device requested.
LEMMA WholeTouched ==
  ASSUME Next
  PROVE  \/ UNCHANGED <<whole, paused>>
         \/ Perform \/ Unanswered \/ LateApply \/ Recover
<1> USE DEF deviceVars, checkpointVars, processVars, roundVars
<1>1. CASE \/ ObserveUnreadable \/ ObserveStopped \/ ObserveHeld \/ ObserveReady
           \/ ObserveSettle \/ ObserveExtend \/ ObserveTimeout \/ WidenStart \/ ReadGuest
  BY <1>1 DEF ObserveUnreadable, ObserveStopped, ObserveHeld, ObserveReady, ObserveSettle,
       ObserveExtend, ObservePending, ObserveTimeout, WidenStart, ReadGuest
<1>2. CASE \/ Allocate \/ ActNothing \/ ActCommand \/ EndRound
           \/ SinkPass \/ SinkReject \/ Start \/ ClearLatch
  BY <1>2 DEF Allocate, ActNothing, ActCommand, EndRound, SinkPass, SinkReject, Start,
       ClearLatch
<1>3. CASE Widens
  BY <1>3 DEF Widens, WidenReject, WidenSuspend, WidenApply, WidenRestore, WidenResume,
       WidenUnknown, Unknown
<1>4. CASE SinkApply \/ SinkUnknown \/ Crash
  BY <1>4 DEF SinkApply, SinkUnknown, Crash, Unknown
<1>5. CASE GuestPlug \/ GuestUnplug \/ DeviceReset
  BY <1>5 DEF GuestPlug, GuestUnplug, DeviceReset, Move
<1> QED
  BY <1>1, <1>2, <1>3, <1>4, <1>5 DEF Next, Widens

\* A guest plugs no block beyond its device's request, ...
LEMMA RequestFacts ==
  ASSUME Types, NEW v \in VMs
  PROVE  /\ Request(v) \in Nat /\ Request(v) % Block[v] = 0
         /\ current[v] \in Nat /\ current[v] % Block[v] = 0
         /\ requested[v] \in Nat /\ requested[v] % Block[v] = 0
         /\ Block[v] \in Nat \ {0} /\ Block[v] % Block[v] = 0 /\ 0 % Block[v] = 0
BY Constants, WholeBlocks DEF Types, Devices, Aligned, Request

LEMMA DevicesStep == ASSUME Types, Next PROVE Devices'
<1>1. /\ requested \in [VMs -> Nat] /\ current \in [VMs -> Nat]
      /\ whole \in [VMs -> BOOLEAN] /\ paused \in [VMs -> BOOLEAN]
      /\ late \in [VMs -> Nat \cup {None}]
      /\ \A v \in VMs : /\ Aligned(v, requested[v]) /\ Aligned(v, current[v])
                        /\ late[v] # None => Aligned(v, late[v])
  BY DEF Types, Devices
<1>2. whole' \in [VMs -> BOOLEAN] /\ paused' \in [VMs -> BOOLEAN]
  <2>1. CASE UNCHANGED <<whole, paused>>
    BY <1>1, <2>1
  <2>2. CASE Perform
    BY <1>1, <2>2 DEF Perform
  <2>3. CASE Unanswered /\ ~Perform
    BY <1>1, <2>3 DEF Unanswered, deviceVars
  <2>4. CASE LateApply \/ Recover
    BY <1>1, <2>4 DEF LateApply, Recover
  <2> QED
    BY <2>1, <2>2, <2>3, <2>4, WholeTouched
<1> DEFINE Sizes == /\ requested \in [VMs -> Nat] /\ current \in [VMs -> Nat]
                    /\ late \in [VMs -> Nat \cup {None}]
                    /\ \A v \in VMs : /\ Aligned(v, requested[v]) /\ Aligned(v, current[v])
                                      /\ late[v] # None => Aligned(v, late[v])
<1>3. ASSUME NEW v \in VMs, NEW x \in Nat, Aligned(v, x), current' = current,
             \/ requested' = [requested EXCEPT ![v] = x]
                /\ (late' = late \/ late' = [late EXCEPT ![v] = None])
             \/ late' = [late EXCEPT ![v] = x] /\ requested' = requested
      PROVE  Sizes'
  <2>1. CASE requested' = [requested EXCEPT ![v] = x] /\ late' = late
    BY <1>1, <1>3, <2>1 DEF Aligned
  <2>2. CASE requested' = [requested EXCEPT ![v] = x] /\ late' = [late EXCEPT ![v] = None]
    BY <1>1, <1>3, <2>2 DEF Aligned
  <2>3. CASE late' = [late EXCEPT ![v] = x] /\ requested' = requested
    BY <1>1, <1>3, <2>3 DEF Aligned
  <2> QED
    BY <1>3, <2>1, <2>2, <2>3
<1>4. ASSUME NEW v \in VMs, NEW x \in Nat, x % Block[v] = 0, Move(v, x)
      PROVE  Sizes'
  <2>1. current' = [current EXCEPT ![v] = x] /\ requested' = requested /\ late' = late
    BY <1>4 DEF Move
  <2> QED
    BY <1>1, <1>4, <2>1 DEF Aligned
<1>5. CASE UNCHANGED <<requested, current, late>>
  BY <1>1, <1>2, <1>5 DEF Devices, Aligned
<1>6. CASE (SinkApply \/ SinkUnknown \/ Crash) /\ ~UNCHANGED <<requested, current, late>>
  <2>1. /\ phase = "apply" /\ current' = current
        /\ \/ requested' = [requested EXCEPT ![cmd.vm] = cmd.target] /\ late' = late
           \/ requested' = requested /\ late' = [late EXCEPT ![cmd.vm] = cmd.target]
    BY <1>6, CommandSent
  <2>2. cmd.vm \in VMs /\ cmd.target \in Nat /\ Aligned(cmd.vm, cmd.target)
    BY <2>1 DEF Types, Commands
  <2>3. Sizes'
    BY <1>3, <2>1, <2>2
  <2> QED
    BY <1>2, <2>3 DEF Devices
<1>7. CASE LateApply
  <2>1. PICK v \in VMs : /\ late[v] # None /\ requested' = [requested EXCEPT ![v] = late[v]]
                         /\ late' = [late EXCEPT ![v] = None] /\ current' = current
    BY <1>7 DEF LateApply
  <2>2. late[v] \in Nat /\ Aligned(v, late[v])
    BY <1>1, <2>1
  <2>3. Sizes'
    BY <1>3, <2>1, <2>2
  <2> QED
    BY <1>2, <2>3 DEF Devices
<1>8. CASE GuestPlug
  <2>1. PICK v \in VMs : current[v] < Request(v) /\ Move(v, current[v] + Block[v])
    BY <1>8 DEF GuestPlug
  <2> DEFINE x == current[v] + Block[v]
  <2>2. x \in Nat /\ x % Block[v] = 0
    <3>1. /\ Block[v] \in Nat \ {0} /\ current[v] \in Nat
          /\ current[v] % Block[v] = 0 /\ Block[v] % Block[v] = 0
      BY RequestFacts
    <3>2. (current[v] + Block[v]) % Block[v] = 0
      BY <3>1, BlocksAdded
    <3> QED
      BY <3>1, <3>2
  <2>3. Move(v, x)
    BY <2>1
  <2> HIDE DEF x
  <2>4. Sizes'
    BY <1>4, <2>2, <2>3
  <2> QED
    BY <1>2, <2>4 DEF Devices
<1>9. CASE GuestUnplug
  <2>1. PICK v \in VMs : current[v] > Request(v) /\ Move(v, current[v] - Block[v])
    BY <1>9 DEF GuestUnplug
  <2> DEFINE x == current[v] - Block[v]
  <2>2. Request(v) + Block[v] <= current[v]
    BY <2>1, RequestFacts, BlockBetween
  <2>3. x \in Nat /\ x % Block[v] = 0
    <3>1. /\ Block[v] \in Nat \ {0} /\ current[v] \in Nat /\ Request(v) \in Nat
          /\ current[v] % Block[v] = 0 /\ Block[v] % Block[v] = 0
      BY RequestFacts
    <3>2. current[v] >= Block[v]
      BY <2>2, <3>1
    <3>3. (current[v] - Block[v]) % Block[v] = 0
      BY <3>1, <3>2, BlocksAdded
    <3> QED
      BY <3>1, <3>2, <3>3
  <2>4. Move(v, x)
    BY <2>1
  <2> HIDE DEF x
  <2>5. Sizes'
    BY <1>4, <2>3, <2>4
  <2> QED
    BY <1>2, <2>5 DEF Devices
<1>10. CASE DeviceReset
  <2>1. PICK v \in VMs : Move(v, 0)
    BY <1>10 DEF DeviceReset
  <2>2. 0 % Block[v] = 0
    BY RequestFacts
  <2>3. Sizes'
    BY <1>4, <2>1, <2>2
  <2> QED
    BY <1>2, <2>3 DEF Devices
<1> QED
  BY <1>5, <1>6, <1>7, <1>8, <1>9, <1>10, DevicesTouched
\* What the pool sees of the VMs.
LEMMA Members ==
  ASSUME Types
  PROVE  LET m == [v \in VMs |-> pool_member(v)]
         IN /\ m \in [VMs -> Member]
            /\ \A v \in VMs :
                 /\ m[v].charged = IF observed[v].charge = None THEN Pool ELSE observed[v].charge
                 /\ observed[v].op # "Held" => m[v].block = Block[v]
                 /\ m[v].desired = m[v].charged + (IF observed[v].op = "Add" THEN Wanted(v) ELSE 0)
                 /\ observed[v].op # "Held" => Wanted(v) \in Nat
<1> SUFFICES ASSUME NEW v \in VMs
             PROVE  /\ pool_member(v) \in Member
                    /\ pool_member(v).charged =
                         IF observed[v].charge = None THEN Pool ELSE observed[v].charge
                    /\ observed[v].op # "Held" => pool_member(v).block = Block[v]
                    /\ pool_member(v).desired =
                         pool_member(v).charged + (IF observed[v].op = "Add" THEN Wanted(v) ELSE 0)
                    /\ observed[v].op # "Held" => Wanted(v) \in Nat
  OBVIOUS
<1> DEFINE charged == IF observed[v].charge = None THEN Pool ELSE observed[v].charge
           desired == charged + (IF observed[v].op = "Add" THEN Wanted(v) ELSE 0)
           block == IF observed[v].charge = None THEN 1 ELSE Block[v]
<1>1. pool_member(v) = [charged |-> charged, desired |-> desired, block |-> block]
  BY DEF pool_member
<1>2. charged \in Nat /\ block \in Nat \ {0}
  BY Constants DEF Types, Observations
<1>3. observed[v].op # "Held" => observed[v].charge \in Nat /\ block = Block[v]
  BY Constants DEF Types, Observations, Aligned
<1>4. observed[v].bytes \in Nat
  BY DEF Types, Observations
<1>5. observed[v].op # "Held" => Wanted(v) \in Nat
  BY <1>3, <1>4, Constants DEF Wanted, least, saturating_sub
<1>6. desired \in Nat
  BY <1>2, <1>5
<1> HIDE DEF charged, desired, block
<1>7. pool_member(v) \in Member
  BY <1>1, <1>2, <1>6 DEF Member
<1> QED
  BY <1>1, <1>3, <1>5, <1>7 DEF charged, desired

\* What the round starts with: the growth still owed to the VMs, as far as it is known.
LEMMA Owed ==
  ASSUME Types, Allocate
  PROVE  /\ committed' \in Nat
         /\ \/ committed' = HostTotal
            \/ /\ \A v \in VMs : outstanding_growth[v] # None
               /\ committed' = Total([v \in VMs |-> outstanding_growth[v]])
<1> DEFINE owed(v) == IF outstanding_growth[v] = None THEN Unbounded ELSE outstanding_growth[v]
           f == [v \in VMs |-> owed(v)]
<1>1. committed' = least(Total(f), Unbounded)
  BY DEF Allocate
<1>2. f \in [VMs -> Nat] /\ 1 \in VMs
  BY Constants DEF Types, Known, Unbounded
<1>3. Total(f) \in Nat
  <2> HIDE DEF f
  <2> QED
    BY <1>2, TotalMember
<1>4. committed' \in Nat /\ (committed' = HostTotal \/ (committed' = Total(f) /\ Total(f) < HostTotal))
  BY <1>1, <1>3, Constants DEF least, Unbounded
<1>5. ASSUME Total(f) < HostTotal
      PROVE  /\ \A v \in VMs : outstanding_growth[v] # None
             /\ f = [v \in VMs |-> outstanding_growth[v]]
  <2>1. ASSUME NEW v \in VMs PROVE outstanding_growth[v] # None
    <3>1. f[v] <= Total(f) /\ f[v] \in Nat
      BY <1>2, TotalMember
    <3>2. f[v] # HostTotal
      BY <1>3, <1>5, <3>1, Constants
    <3> QED
      BY <3>2 DEF Unbounded
  <2> QED
    BY <2>1
<1> HIDE DEF f
<1> QED
  BY <1>4, <1>5

LEMMA KnownStep == ASSUME Types, Next PROVE Known'
<1> USE DEF deviceVars, checkpointVars, processVars, roundVars
<1>1. /\ intent \in [VMs -> Intents \cup {None}]
      /\ last_charge \in [VMs -> Nat \cup {None}]
      /\ outstanding_growth \in [VMs -> Nat \cup {None}]
  BY DEF Types, Known
<1>2. CASE UNCHANGED <<intent, last_charge, outstanding_growth>>
  BY <1>1, <1>2 DEF Known
<1>3. CASE \/ ObserveUnreadable \/ Allocate \/ ActNothing \/ SinkPass \/ SinkApply
           \/ SinkUnknown \/ Start \/ ReadGuest
  BY <1>2, <1>3 DEF ObserveUnreadable, Allocate, ActNothing, SinkPass, SinkApply,
       SinkUnknown, Start, ReadGuest
<1>4. CASE World \/ Widens
  BY <1>2, <1>4, WorldFacts, WidensFacts
<1>5. CASE ObserveStopped \/ ObserveTimeout
  <2>1. intent' = intent /\ Account
    BY <1>5 DEF ObserveStopped, ObserveTimeout
  <2> QED
    BY <1>1, <2>1, AccountFacts DEF Known
<1>6. CASE ObserveHeld \/ ObserveReady \/ WidenStart
  <2>1. Resolve /\ Account
    BY <1>6 DEF ObserveHeld, ObserveReady, WidenStart
  <2>2. intent' \in [VMs -> Intents \cup {None}]
    BY <1>1, <2>1 DEF Resolve
  <2> QED
    BY <2>1, <2>2, AccountFacts DEF Known
<1>7. CASE ObserveSettle \/ ObserveExtend
  <2>1. PICK i \in Intents : intent' = [intent EXCEPT ![turn] = i] /\ Account
    BY <1>7, PendingFacts
  <2>2. intent' \in [VMs -> Intents \cup {None}]
    BY <1>1, <2>1
  <2> QED
    BY <2>1, <2>2, AccountFacts DEF Known
<1>8. CASE ActCommand
  <2>1. PICK v \in VMs, growth \in Nat, i \in Intents :
          /\ intent' = [intent EXCEPT ![v] = i] /\ last_charge' = last_charge
          /\ outstanding_growth' = [outstanding_growth EXCEPT ![v] = growth]
    BY <1>8, ActFacts
  <2> QED
    BY <1>1, <2>1 DEF Known
<1>9. CASE EndRound \/ Crash
  <2>1. intent' = intent
    BY <1>9 DEF EndRound, Crash
  <2>2. \/ Forget
        \/ last_charge' = last_charge /\ outstanding_growth' = outstanding_growth
    BY <1>9 DEF EndRound, Crash
  <2> QED
    BY <1>1, <2>1, <2>2 DEF Forget, Known
<1>10. CASE SinkReject
  <2> DEFINE v == cmd.vm
             kept == IF cmd.kind = "resize" THEN None
                     ELSE IF cmd.kind = "extend" THEN [intent[v] EXCEPT !.target = cmd.seen[1]]
                     ELSE intent[v]
  <2>1. /\ v \in VMs /\ cmd.seen \in Nat \X Nat
    BY <1>10 DEF SinkReject, Types, Commands
  <2>2. /\ intent' = [intent EXCEPT ![v] = kept] /\ last_charge' = last_charge
        /\ outstanding_growth' = [outstanding_growth EXCEPT ![v] =
             IF cmd.kind = "resize" THEN 0 ELSE @]
    BY <1>10 DEF SinkReject
  <2>3. kept \in Intents \cup {None}
    <3>1. intent[v] \in Intents
      BY <1>1, <1>10, <2>1 DEF SinkReject, Types, Commands
    <3>2. cmd.seen[1] \in Nat
      BY <2>1
    <3> QED
      BY <3>1, <3>2 DEF Intents
  <2> HIDE DEF kept, v
  <2> QED
    BY <1>1, <2>1, <2>2, <2>3 DEF Known
<1>11. CASE ClearLatch
  <2>1. PICK v \in VMs : intent' = [intent EXCEPT ![v] = None]
    BY <1>11 DEF ClearLatch
  <2>2. UNCHANGED <<last_charge, outstanding_growth>>
    BY <1>11 DEF ClearLatch
  <2> QED
    BY <1>1, <2>1, <2>2 DEF Known
<1> QED
  BY <1>3, <1>4, <1>5, <1>6, <1>7, <1>8, <1>9, <1>10, <1>11 DEF Next, World,
     Widens

LEMMA ObservationsStep == ASSUME Types, Next PROVE Observations'
<1> USE DEF deviceVars, checkpointVars, processVars, roundVars
<1>1. /\ turn \in VMs
      /\ observed \in [VMs -> [op : Ops, bytes : Nat, charge : Nat \cup {None}]]
      /\ \A v \in VMs : observed[v].op # "Held" => Aligned(v, observed[v].charge)
  BY DEF Types, Observations
<1>2. ASSUME NEW c \in Nat \cup {None}
      PROVE  /\ Held(c) \in [op : Ops, bytes : Nat, charge : Nat \cup {None}]
             /\ Held(c).op = "Held" /\ Held(c).charge = c
  BY DEF Held, Ops
<1>3. ASSUME turn' = turn \/ (Advance) PROVE turn' \in VMs
  BY <1>1, <1>3 DEF Advance
<1>4. ASSUME NEW v \in VMs, NEW c \in Nat \cup {None}, turn' \in VMs,
             observed' = [observed EXCEPT ![v] = Held(c)]
      PROVE  Observations'
  BY <1>1, <1>2, <1>4 DEF Observations, Aligned
<1>5. ASSUME turn' \in VMs, observed' = observed PROVE Observations'
  BY <1>1, <1>5 DEF Observations, Aligned
<1>6. CASE ObserveUnreadable
  <2>1. last_charge[turn] \in Nat \cup {None}
    BY <1>1 DEF Types, Known
  <2> QED
    BY <1>1, <1>3, <1>4, <1>6, <2>1 DEF ObserveUnreadable, Observe
<1>7. CASE ObserveStopped \/ ObserveHeld \/ ObserveTimeout \/ WidenStart
  <2>1. Observe(Charge) /\ (Advance \/ turn' = turn)
    BY <1>7 DEF ObserveStopped, ObserveHeld, ObserveTimeout, WidenStart
  <2> QED
    BY <1>1, <1>3, <1>4, <2>1, AccountFacts DEF Observe
<1>8. CASE ObserveReady
  <2>1. PICK op \in {"Add", "Remove"}, bytes \in 1 .. Device[turn] :
          observed' = [observed EXCEPT ![turn] =
                         [op |-> op, bytes |-> bytes, charge |-> current[turn]]]
    BY <1>8 DEF ObserveReady, GuestAsks
  <2>2. Advance
    BY <1>8 DEF ObserveReady
  <2>3. bytes \in Nat /\ Aligned(turn, current[turn]) /\ current[turn] \in Nat
    BY <1>1, Constants DEF Types, Devices, Aligned
  <2>4. /\ observed' \in [VMs -> [op : Ops, bytes : Nat, charge : Nat \cup {None}]]
        /\ observed'[turn].charge = current[turn]
        /\ \A v \in VMs \ {turn} : observed'[v] = observed[v]
    BY <1>1, <2>1, <2>3 DEF Ops
  <2>5. \A v \in VMs : observed'[v].op # "Held" => Aligned(v, observed'[v].charge)
    BY <1>1, <2>3, <2>4
  <2> QED
    BY <1>3, <2>2, <2>4, <2>5 DEF Observations, Aligned
<1>9. CASE ObserveSettle \/ ObserveExtend
  <2>1. observed' = [observed EXCEPT ![turn] = Held(Charge)] /\ turn' = turn
    BY <1>9, PendingFacts
  <2>2. Charge \in Nat \cup {None}
    BY AccountFacts
  <2> QED
    BY <1>1, <1>4, <2>1, <2>2
<1>10. CASE ActNothing
  <2>1. Chosen \in VMs /\ turn' = turn /\ observed' = [observed EXCEPT ![Chosen] = Held(None)]
    BY <1>10, ChosenReady DEF ActNothing, Acting, Take
  <2> QED
    BY <1>1, <1>4, <2>1
<1>11. CASE ActCommand
  <2>1. PICK v \in VMs : observed' = [observed EXCEPT ![v] = Held(None)] /\ turn' = turn
    BY <1>11, ActFacts
  <2> QED
    BY <1>1, <1>4, <2>1
<1>12. CASE EndRound \/ Crash
  <2>1. turn' = 1 /\ observed' = [v \in VMs |-> Held(None)]
    BY <1>12 DEF EndRound, Crash, NewRound, First
  <2>2. /\ Held(None) \in [op : Ops, bytes : Nat, charge : Nat \cup {None}]
        /\ Held(None).op = "Held"
    BY <1>2
  <2> HIDE DEF Held
  <2>3. turn' \in VMs /\ \A v \in VMs : observed'[v].op = "Held"
    BY <2>1, <2>2
  <2>4. observed' \in [VMs -> [op : Ops, bytes : Nat, charge : Nat \cup {None}]]
    BY <2>1, <2>2
  <2> QED
    BY <2>3, <2>4 DEF Observations
<1>13. CASE SinkReject \/ SinkApply \/ SinkUnknown
  BY <1>1, <1>3, <1>5, <1>13 DEF SinkReject, SinkApply, SinkUnknown, Continue
<1>14. CASE Allocate \/ SinkPass \/ Start \/ ClearLatch
  BY <1>1, <1>5, <1>14 DEF Allocate, SinkPass, Start, ClearLatch
<1>15. CASE World \/ Widens
  BY <1>1, <1>5, <1>15, WorldFacts, WidensFacts
<1>16. CASE ReadGuest
  <2>1. phase = "read" /\ Advance /\ (observed' = observed \/ GuestAsks(observed[turn].charge))
    BY <1>16 DEF ReadGuest
  <2>2. CASE observed' = observed
    BY <1>3, <1>5, <2>1, <2>2
  <2>3. CASE GuestAsks(observed[turn].charge)
    <3>1. PICK op \in {"Add", "Remove"}, bytes \in 1 .. Device[turn] :
            observed' = [observed EXCEPT ![turn] =
                           [op |-> op, bytes |-> bytes, charge |-> observed[turn].charge]]
      BY <2>3 DEF GuestAsks
    <3>2. bytes \in Nat /\ Aligned(turn, observed[turn].charge)
      BY <1>1, <2>1, Constants DEF Types, Commands, Widening
    <3>3. /\ observed' \in [VMs -> [op : Ops, bytes : Nat, charge : Nat \cup {None}]]
          /\ observed'[turn].charge = observed[turn].charge
          /\ \A v \in VMs \ {turn} : observed'[v] = observed[v]
      BY <1>1, <3>1, <3>2 DEF Ops
    <3>4. \A v \in VMs : observed'[v].op # "Held" => Aligned(v, observed'[v].charge)
      BY <1>1, <3>2, <3>3
    <3> QED
      BY <1>3, <2>1, <3>3, <3>4 DEF Observations, Aligned
  <2> QED
    BY <2>1, <2>2, <2>3
<1> QED
  BY <1>6, <1>7, <1>8, <1>9, <1>10, <1>11, <1>12, <1>13, <1>14, <1>15, <1>16 DEF Next, World,
     Widens

LEMMA AllocatedStep == ASSUME Types, Next PROVE Allocated'
<1> USE DEF deviceVars, checkpointVars, processVars, roundVars
<1>1. ceilings \in [VMs -> Nat] /\ committed \in Nat
  BY DEF Types, Allocated
<1>2. CASE UNCHANGED <<ceilings, committed>>
  BY <1>1, <1>2 DEF Allocated
<1>3. CASE \/ ObserveUnreadable \/ ObserveStopped \/ ObserveHeld \/ ObserveReady
           \/ ObserveSettle \/ ObserveExtend \/ ObserveTimeout \/ WidenStart \/ ReadGuest
  BY <1>2, <1>3 DEF ObserveUnreadable, ObserveStopped, ObserveHeld, ObserveReady,
       ObserveSettle, ObserveExtend, ObservePending, ObserveTimeout, WidenStart, ReadGuest
<1>4. CASE \/ ActNothing \/ SinkPass \/ SinkReject \/ SinkApply \/ SinkUnknown
           \/ Start \/ ClearLatch \/ World \/ Widens
  BY <1>2, <1>4, WorldFacts, WidensFacts DEF ActNothing, SinkPass, SinkReject, SinkApply,
       SinkUnknown, Start, ClearLatch
<1>5. CASE Allocate
  <2>1. ceilings' = allocate_pool([v \in VMs |-> pool_member(v)])
    BY <1>5 DEF Allocate
  <2>2. ceilings' \in [VMs -> Nat]
    BY <2>1, Members, AllocateBounds
  <2>3. committed' \in Nat
    BY <1>5, Owed
  <2> QED
    BY <2>2, <2>3 DEF Allocated
<1>6. CASE ActCommand
  <2>1. PICK growth \in Nat :
          committed' = saturating_add(committed, growth) /\ ceilings' = ceilings
    BY <1>6, ActFacts
  <2>2. committed' \in Nat
    BY <1>1, <2>1, Constants DEF saturating_add, least, Unbounded
  <2> QED
    BY <1>1, <2>1, <2>2 DEF Allocated
<1>7. CASE EndRound \/ Crash
  BY <1>7 DEF EndRound, Crash, NewRound, Allocated
<1> QED
  BY <1>3, <1>4, <1>5, <1>6, <1>7 DEF Next, World, Widens

LEMMA CommandsStep == ASSUME Types, Next PROVE Commands'
<1> USE DEF deviceVars, checkpointVars, processVars, roundVars
<1>1. CASE phase' \in {"observe", "allocate", "act", "down"}
  BY <1>1 DEF Commands, Widening
<1>2. CASE UNCHANGED <<intent, phase, cmd, turn, observed>>
  BY <1>2 DEF Types, Commands, Widening, Aligned
<1>3. CASE \/ ObserveUnreadable \/ ObserveStopped \/ ObserveHeld \/ ObserveReady
           \/ ObserveTimeout \/ ReadGuest
  BY <1>1, <1>3 DEF ObserveUnreadable, ObserveStopped, ObserveHeld, ObserveReady,
       ObserveTimeout, ReadGuest, Advance
<1>4. CASE \/ Allocate \/ EndRound \/ SinkReject \/ SinkApply \/ SinkUnknown
           \/ Start \/ Crash
  BY <1>1, <1>4 DEF Allocate, EndRound, SinkReject, SinkApply, SinkUnknown, Continue,
       Advance, Start, Crash
<1>5. CASE ActNothing \/ ClearLatch
  BY <1>1, <1>5 DEF ActNothing, Acting, ClearLatch
<1>6. CASE World
  BY <1>2, <1>6, WorldFacts
<1>7. CASE SinkPass
  <2>1. phase \in {"check", "apply"} /\ cmd' = cmd /\ intent' = intent /\ phase' = "apply"
    BY <1>7 DEF SinkPass
  <2> QED
    BY <2>1 DEF Types, Commands, Widening, Aligned
<1>8. CASE ObserveSettle \/ ObserveExtend
  <2>1. PICK kind \in {"settle", "extend"}, target \in Nat, i \in Intents :
          /\ Aligned(turn, target) /\ intent' = [intent EXCEPT ![turn] = i]
          /\ cmd' = [kind |-> kind, vm |-> turn, target |-> target,
                     seen |-> <<Request(turn), current[turn]>>, prior |-> committed]
          /\ phase' = "check"
    BY <1>8, PendingFacts
  <2>2. turn \in VMs /\ Request(turn) \in Nat /\ current[turn] \in Nat /\ committed \in Nat
    BY RequestFacts DEF Types, Observations, Allocated
  <2>3. intent'[turn] # None
    BY <2>1, <2>2, Constants DEF Types, Known
  <2> QED
    BY <2>1, <2>2, <2>3 DEF Commands, Widening, Aligned
<1>9. CASE ActCommand
  <2>1. PICK v \in VMs, target \in Nat, i \in Intents :
          /\ observed[v].charge \in Nat
          /\ Aligned(v, target) /\ intent' = [intent EXCEPT ![v] = i]
          /\ cmd' = [kind |-> "resize", vm |-> v, target |-> target,
                     seen |-> <<observed[v].charge, observed[v].charge>>, prior |-> committed]
          /\ phase' = "check"
    BY <1>9, ActFacts
  <2>2. committed \in Nat
    BY DEF Types, Allocated
  <2>3. intent'[v] # None
    BY <2>1, Constants DEF Types, Known
  <2> QED
    BY <2>1, <2>2, <2>3 DEF Commands, Widening, Aligned
<1>10. CASE WidenStart
  <2>1. /\ cmd' = [kind |-> "widen", vm |-> turn, target |-> Device[turn],
                   seen |-> <<Request(turn), current[turn]>>, prior |-> committed]
        /\ phase' = "suspend" /\ turn' = turn /\ Reached
        /\ observed' = [observed EXCEPT ![turn] = Held(Charge)]
    BY <1>10 DEF WidenStart, Send, Observe
  <2>2. /\ turn \in VMs /\ Request(turn) \in Nat /\ current[turn] \in Nat /\ committed \in Nat
        /\ Device[turn] \in Nat /\ Aligned(turn, Request(turn))
    BY RequestFacts, Constants DEF Types, Observations, Allocated, Aligned
  <2>3. Charge = Request(turn)
    BY <2>1, <2>2 DEF Reached, Charge, Holding, Target, greatest
  <2>4. observed'[turn] = Held(Charge)
    BY <2>1, <2>2 DEF Types, Observations
  <2>5. observed'[turn].charge = Request(turn)
    BY <2>3, <2>4 DEF Held
  <2> QED
    BY <2>1, <2>2, <2>5 DEF Commands, Widening, Aligned
<1>11. CASE Widens
  <2>1. /\ Widening /\ UNCHANGED <<turn, observed>>
        /\ \/ /\ phase' \in {"widen", "restore", "resume", "read"}
              /\ cmd' = cmd \/ cmd' = [cmd EXCEPT !.kind = "failed"]
           \/ phase' = "observe"
    BY <1>11, WidensFacts
  <2>2. /\ cmd \in [kind : {"widen", "failed"}, vm : {turn}, target : Nat,
                    seen : Nat \X Nat, prior : Nat]
        /\ Aligned(turn, observed[turn].charge)
    BY <2>1 DEF Types, Commands
  <2> QED
    BY <1>1, <2>1, <2>2 DEF Commands, Widening, Aligned
<1> QED
  BY <1>3, <1>4, <1>5, <1>6, <1>7, <1>8, <1>9, <1>10, <1>11 DEF Next, World, Widens

LEMMA TypesInit == Init => Types
<1> SUFFICES ASSUME Init PROVE Types
  OBVIOUS
<1>1. Devices /\ Allocated
  BY Constants DEF Init, Devices, Aligned, Allocated
<1>2. Known
  BY DEF Init, Known
<1>3. Observations
  BY DEF Init, Observations, Held, Ops, First
<1>4. Commands
  BY DEF Init, Commands, Widening
<1> QED
  BY <1>1, <1>2, <1>3, <1>4 DEF Types

LEMMA TypesStep == Types /\ [Next]_vars => Types'
<1> SUFFICES ASSUME Types, [Next]_vars PROVE Types'
  OBVIOUS
<1>1. CASE Next
  BY <1>1, DevicesStep, KnownStep, ObservationsStep, AllocatedStep, CommandsStep DEF Types
<1>2. CASE UNCHANGED vars
  BY <1>2 DEF vars, deviceVars, checkpointVars, processVars, roundVars, Types, Devices,
       Known, Observations, Allocated, Commands, Widening, Aligned
<1> QED
  BY <1>1, <1>2

\* Whatever the guests, libvirt and the daemon's crashes do, the sizes are whole blocks
\* and the rest of the state is of its type.
THEOREM TypesHold == Spec => []Types
<1> QED
  BY TypesInit, TypesStep, PTL DEF Spec
-----------------------------------------------------------------------------
\* What is recorded of commands, of those that may come late and of a widening.  Until a
\* command is answered its VM rests and its target is its intent; a VM whose whole device is
\* requested is suspended, owns no command and holds no more than it will be asked to.

Sending == phase \in {"check", "apply"}

ReadyUnchanged == \A v \in VMs : observed[v].op # "Held" => requested[v] = observed[v].charge
CommandRecorded ==
  Sending => /\ observed[cmd.vm].op = "Held"
             /\ intent[cmd.vm] # None /\ intent[cmd.vm].target = cmd.target
             /\ cmd.seen[1] = requested[cmd.vm] /\ cmd.target # requested[cmd.vm]
LateRecorded ==
  \A v \in VMs : late[v] # None =>
    /\ intent[v] # None /\ intent[v].target = late[v] /\ requested[v] # late[v]
    /\ observed[v].op = "Held"
    /\ Sending => cmd.vm # v
WideningHeld ==
  Widening =>
    /\ observed[turn] = Held(requested[turn])
    /\ current[turn] <= requested[turn] /\ requested[turn] < Device[turn]
    /\ intent[turn] = None /\ late[turn] = None
    /\ phase \in {"widen", "restore"} => paused[turn]
    /\ phase # "restore" => ~whole[turn]
WholeApart ==
  \A v \in VMs : whole[v] =>
    /\ paused[v] /\ current[v] <= requested[v] /\ requested[v] < Device[v]
    /\ intent[v] = None /\ late[v] = None
    /\ observed[v].op = "Held"
    /\ Sending => cmd.vm # v

Recorded ==
  Types /\ ReadyUnchanged /\ CommandRecorded /\ LateRecorded /\ WideningHeld /\ WholeApart

\* A VM that is not in a widening shows what it was asked for.
LEMMA RequestApart ==
  ASSUME Recorded, NEW v \in VMs,
         \/ intent[v] # None \/ observed[v].op # "Held" \/ late[v] # None
         \/ Request(v) = current[v] \/ ~paused[v] \/ (Sending /\ cmd.vm = v)
         \/ Device[v] <= requested[v]
  PROVE  ~whole[v] /\ Request(v) = requested[v]
<1>1. requested[v] \in Nat /\ current[v] \in Nat /\ Device[v] \in Nat
  BY Constants DEF Recorded, Types, Devices
<1>2. ASSUME whole[v] PROVE FALSE
  <2>1. /\ paused[v] /\ current[v] <= requested[v] /\ requested[v] < Device[v]
        /\ intent[v] = None /\ late[v] = None /\ observed[v].op = "Held"
        /\ (Sending => cmd.vm # v)
    BY <1>2 DEF Recorded, WholeApart
  <2>2. Request(v) = Device[v]
    BY <1>2 DEF Request
  <2> QED
    BY <1>1, <2>1, <2>2
<1> QED
  BY <1>2 DEF Request

\* A VM with a command that may come late is not at rest.
LEMMA LateMoving ==
  ASSUME Recorded, NEW v \in VMs, late[v] # None
  PROVE  Request(v) = requested[v] /\ Request(v) # Target(v) /\ intent[v] # None
<1>1. Request(v) = requested[v]
  BY RequestApart
<1> QED
  BY <1>1 DEF Recorded, LateRecorded, Target

\* A plugged block stays within the request.
LEMMA PlugWithin ==
  ASSUME Types, GuestPlug
  PROVE  \E v \in VMs : /\ ~paused[v] /\ current[v] < Request(v)
                        /\ current'[v] <= Request(v) /\ current'[v] = current[v] + Block[v]
                        /\ \A w \in VMs \ {v} : current'[w] = current[w]
                        /\ UNCHANGED <<requested, whole, paused, late>>
<1>1. PICK v \in VMs : /\ ~paused[v] /\ current[v] < Request(v)
                       /\ Move(v, current[v] + Block[v])
  BY DEF GuestPlug
<1>2. current[v] + Block[v] <= Request(v)
  BY <1>1, RequestFacts, BlockBetween
<1>3. current'[v] = current[v] + Block[v] /\ \A w \in VMs \ {v} : current'[w] = current[w]
  BY <1>1 DEF Move, Types, Devices
<1> QED
  BY <1>1, <1>2, <1>3 DEF Move

\* Unplugging, or losing all of it, makes one VM's allocation smaller.
LEMMA UnplugSmaller ==
  ASSUME Types, GuestUnplug \/ DeviceReset
  PROVE  \E v \in VMs : /\ current'[v] <= current[v]
                        /\ GuestUnplug => /\ ~paused[v] /\ Request(v) < current[v]
                                          /\ Request(v) <= current'[v]
                                          /\ Racing(v) => "race" \in Faults
                        /\ \A w \in VMs \ {v} : current'[w] = current[w]
                        /\ UNCHANGED <<requested, whole, paused, late>>
<1>1. CASE GuestUnplug
  <2>1. PICK v \in VMs : /\ ~paused[v] /\ current[v] > Request(v)
                         /\ Racing(v) => "race" \in Faults
                         /\ Move(v, current[v] - Block[v])
    BY <1>1 DEF GuestUnplug
  <2>2. current'[v] = current[v] - Block[v] /\ \A w \in VMs \ {v} : current'[w] = current[w]
    BY <2>1 DEF Move, Types, Devices
  <2>3. /\ Block[v] \in Nat \ {0} /\ Request(v) \in Nat /\ current[v] \in Nat
        /\ Request(v) + Block[v] <= current[v]
    BY <2>1, RequestFacts, BlockBetween
  <2>4. current'[v] <= current[v] /\ Request(v) <= current'[v]
    BY <2>2, <2>3
  <2> QED
    BY <2>1, <2>2, <2>4 DEF Move
<1>2. CASE ~GuestUnplug /\ DeviceReset
  <2>1. PICK v \in VMs : Move(v, 0)
    BY <1>2 DEF DeviceReset
  <2>2. current[v] \in Nat /\ current'[v] = 0 /\ \A w \in VMs \ {v} : current'[w] = current[w]
    BY <2>1 DEF Move, Types, Devices
  <2> QED
    BY <1>2, <2>1, <2>2 DEF Move
<1> QED
  BY <1>1, <1>2

\* A command that comes late is the last of its VM's.
LEMMA LateLands ==
  ASSUME Types, LateApply
  PROVE  \E v \in VMs : /\ late[v] # None /\ requested'[v] = late[v]
                        /\ late'[v] = None /\ ~whole'[v]
                        /\ \A w \in VMs \ {v} : /\ requested'[w] = requested[w]
                                                /\ late'[w] = late[w] /\ whole'[w] = whole[w]
                        /\ UNCHANGED <<current, paused>>
<1>1. PICK v \in VMs : /\ late[v] # None
                       /\ requested' = [requested EXCEPT ![v] = late[v]]
                       /\ whole' = [whole EXCEPT ![v] = FALSE]
                       /\ late' = [late EXCEPT ![v] = None]
  BY DEF LateApply
<1>2. UNCHANGED <<current, paused>>
  BY DEF LateApply
<1> QED
  BY <1>1, <1>2 DEF Types, Devices

\* The operator puts one VM back.
LEMMA RecoverFacts ==
  ASSUME Types, Recover
  PROVE  \E v \in VMs : /\ phase \in {"suspend", "widen", "restore", "resume"} => cmd.vm # v
                        /\ ~whole'[v]
                        /\ \A w \in VMs \ {v} : whole'[w] = whole[w] /\ paused'[w] = paused[w]
                        /\ UNCHANGED <<requested, current, late>>
BY DEF Recover, Types, Devices

\* Which steps leave a command to send.
LEMMA SendingStep ==
  ASSUME Next, Sending'
  PROVE  \/ ObserveSettle \/ ObserveExtend \/ ActCommand
         \/ SinkPass
         \/ World /\ Sending /\ UNCHANGED <<phase, cmd>>
<1>1. CASE \/ ObserveUnreadable \/ ObserveStopped \/ ObserveHeld \/ ObserveReady
           \/ ObserveTimeout \/ WidenStart \/ ReadGuest
  BY <1>1 DEF ObserveUnreadable, ObserveStopped, ObserveHeld, ObserveReady, ObserveTimeout,
       WidenStart, ReadGuest, Advance, Sending
<1>2. CASE \/ Allocate \/ ActNothing \/ EndRound \/ SinkReject \/ SinkApply \/ SinkUnknown
           \/ Start \/ Crash \/ ClearLatch
  BY <1>2 DEF Allocate, ActNothing, Acting, EndRound, SinkReject, SinkApply, SinkUnknown,
       Continue, Advance, Start, Crash, ClearLatch, Sending
<1>3. CASE World
  BY <1>3, WorldFacts DEF Sending
<1>4. CASE Widens
  BY <1>4, WidensFacts DEF Sending
<1> QED
  BY <1>1, <1>2, <1>3, <1>4 DEF Next, World, Widens

\* Which steps are of a widening.
LEMMA WideningStep ==
  ASSUME Next, Widening'
  PROVE  \/ WidenStart
         \/ Widens
         \/ World /\ Widening
<1>1. CASE \/ ObserveUnreadable \/ ObserveStopped \/ ObserveHeld \/ ObserveReady
           \/ ObserveSettle \/ ObserveExtend \/ ObserveTimeout \/ ReadGuest
  BY <1>1 DEF ObserveUnreadable, ObserveStopped, ObserveHeld, ObserveReady, ObserveSettle,
       ObserveExtend, ObservePending, ObserveTimeout, ReadGuest, Advance, Widening
<1>2. CASE \/ Allocate \/ ActNothing \/ ActCommand \/ EndRound \/ Start \/ Crash \/ ClearLatch
  BY <1>2 DEF Allocate, ActNothing, ActCommand, Acting, EndRound, Start, Crash, ClearLatch,
       Widening
<1>3. CASE SinkPass \/ SinkReject \/ SinkApply \/ SinkUnknown
  BY <1>3 DEF SinkPass, SinkReject, SinkApply, SinkUnknown, Continue, Advance, Widening
<1>4. CASE World
  BY <1>4, WorldFacts DEF Widening
<1> QED
  BY <1>1, <1>2, <1>3, <1>4 DEF Next, World, Widens

\* Which steps change what a VM owns.
LEMMA IntentStep ==
  ASSUME Types, Next, NEW v \in VMs
  PROVE  \/ intent'[v] = intent[v]
         \/ v = turn /\ Reached /\ intent'[v] = None
         \/ v = turn /\ (ObserveSettle \/ ObserveExtend)
         \/ ActCommand /\ observed[v].op # "Held"
         \/ SinkReject /\ v = cmd.vm
         \/ ClearLatch /\ intent'[v] = None /\ (late[v] = None \/ "hasty" \in Faults)
<1> USE DEF deviceVars, checkpointVars, processVars, roundVars
<1>1. intent \in [VMs -> Intents \cup {None}] /\ turn \in VMs
  BY DEF Types, Known, Observations
<1>2. CASE \/ ObserveUnreadable \/ ObserveStopped \/ ObserveTimeout \/ ReadGuest
           \/ Allocate \/ ActNothing \/ EndRound \/ SinkPass \/ SinkApply \/ SinkUnknown
           \/ Start \/ Crash
  BY <1>2 DEF ObserveUnreadable, ObserveStopped, ObserveTimeout, ReadGuest, Allocate,
       ActNothing, EndRound, SinkPass, SinkApply, SinkUnknown, Start, Crash
<1>3. CASE ObserveHeld \/ ObserveReady \/ WidenStart
  <2>1. intent' = [intent EXCEPT ![turn] = IF Reached THEN None ELSE @]
    BY <1>3 DEF ObserveHeld, ObserveReady, WidenStart, Resolve
  <2> QED
    BY <1>1, <2>1
<1>4. CASE ObserveSettle \/ ObserveExtend
  <2>1. PICK i \in Intents : intent' = [intent EXCEPT ![turn] = i]
    BY <1>4, PendingFacts
  <2> QED
    BY <1>1, <1>4, <2>1
<1>5. CASE ActCommand
  <2>1. PICK w \in VMs, i \in Intents :
          observed[w].op # "Held" /\ intent' = [intent EXCEPT ![w] = i]
    BY <1>5, ActFacts
  <2> QED
    BY <1>1, <1>5, <2>1
<1>6. CASE SinkReject
  <2>1. \A w \in VMs \ {cmd.vm} : intent'[w] = intent[w]
    BY <1>1, <1>6 DEF SinkReject
  <2> QED
    BY <1>6, <2>1
<1>7. CASE ClearLatch
  <2>1. PICK w \in VMs : /\ late[w] = None \/ "hasty" \in Faults
                         /\ intent' = [intent EXCEPT ![w] = None]
    BY <1>7 DEF ClearLatch
  <2> QED
    BY <1>1, <1>7, <2>1
<1>8. CASE World \/ Widens
  BY <1>8, WorldFacts, WidensFacts
<1> QED
  BY <1>2, <1>3, <1>4, <1>5, <1>6, <1>7, <1>8 DEF Next, World, Widens

\* What is observed of a VM stays, is forgotten, or is read again.
LEMMA ObservedStep ==
  ASSUME Types, Next, NEW v \in VMs
  PROVE  \/ observed'[v] = observed[v]
         \/ observed'[v].op = "Held" /\ observed'[v].charge = None
         \/ /\ phase = "observe" /\ v = turn /\ observed'[v] = Held(Charge)
         \/ ObserveUnreadable /\ v = turn /\ observed'[v] = Held(last_charge[v])
         \/ ObserveReady /\ v = turn /\ observed'[v].charge = current[v]
         \/ ReadGuest /\ v = turn /\ observed'[v].charge = observed[v].charge
<1> USE DEF deviceVars, checkpointVars, processVars, roundVars
<1>1. turn \in VMs /\ observed \in [VMs -> [op : Ops, bytes : Nat, charge : Nat \cup {None}]]
  BY DEF Types, Observations
<1>2. Held(None).op = "Held" /\ Held(None).charge = None
  BY DEF Held
<1>3. CASE \/ SinkPass \/ SinkReject \/ SinkApply \/ SinkUnknown \/ Allocate \/ Start
           \/ ClearLatch \/ World \/ Widens
  BY <1>3, WorldFacts, WidensFacts DEF SinkPass, SinkReject, SinkApply, SinkUnknown,
       Allocate, Start, ClearLatch
<1>4. CASE ObserveUnreadable
  BY <1>1, <1>4 DEF ObserveUnreadable, Observe
<1>5. CASE ObserveStopped \/ ObserveHeld \/ ObserveTimeout \/ WidenStart
  BY <1>1, <1>5 DEF ObserveStopped, ObserveHeld, ObserveTimeout, WidenStart, Observe
<1>6. CASE ObserveSettle \/ ObserveExtend
  <2>1. phase = "observe" /\ observed' = [observed EXCEPT ![turn] = Held(Charge)]
    BY <1>6, PendingFacts
  <2> QED
    BY <1>1, <2>1
<1>7. CASE ObserveReady
  <2>1. PICK op \in {"Add", "Remove"}, bytes \in 1 .. Device[turn] :
          observed' = [observed EXCEPT ![turn] =
                         [op |-> op, bytes |-> bytes, charge |-> current[turn]]]
    BY <1>7 DEF ObserveReady, GuestAsks
  <2>2. v = turn => observed'[v].charge = current[v]
    BY <1>1, <2>1
  <2>3. v # turn => observed'[v] = observed[v]
    BY <1>1, <2>1
  <2> QED
    BY <1>7, <2>2, <2>3
<1>8. CASE ActNothing
  <2>1. observed' = [observed EXCEPT ![Chosen] = Held(None)]
    BY <1>8 DEF ActNothing, Take
  <2> HIDE DEF Held
  <2> QED
    BY <1>1, <1>2, <2>1
<1>9. CASE ActCommand
  <2>1. PICK w \in VMs : observed' = [observed EXCEPT ![w] = Held(None)]
    BY <1>9, ActFacts
  <2> QED
    BY <1>1, <1>2, <2>1
<1>10. CASE EndRound \/ Crash
  BY <1>2, <1>10 DEF EndRound, Crash, NewRound
<1>11. CASE ReadGuest
  <2>1. CASE observed' = observed
    BY <2>1
  <2>2. CASE GuestAsks(observed[turn].charge)
    <3>1. PICK op \in {"Add", "Remove"}, bytes \in 1 .. Device[turn] :
            observed' = [observed EXCEPT ![turn] =
                           [op |-> op, bytes |-> bytes, charge |-> observed[turn].charge]]
      BY <2>2 DEF GuestAsks
    <3>2. v = turn => observed'[v].charge = observed[v].charge
      BY <1>1, <3>1
    <3>3. v # turn => observed'[v] = observed[v]
      BY <1>1, <3>1
    <3> QED
      BY <1>11, <3>2, <3>3
  <2> QED
    BY <1>11, <2>1, <2>2 DEF ReadGuest
<1> QED
  BY <1>3, <1>4, <1>5, <1>6, <1>7, <1>8, <1>9, <1>10, <1>11 DEF Next, World, Widens

\* A VM whose command is not sent, and of which none may come late, is asked for nothing else.
LEMMA RequestedStays ==
  ASSUME Recorded, Next, NEW v \in VMs, late[v] = None, Sending => cmd.vm # v
  PROVE  requested'[v] = requested[v] /\ late'[v] = None
<1>0. Types
  BY DEF Recorded
<1>1. CASE UNCHANGED <<requested, current, late>>
  BY <1>1
<1>2. CASE GuestPlug \/ GuestUnplug \/ DeviceReset
  BY <1>0, <1>2, PlugWithin, UnplugSmaller
<1>3. CASE LateApply
  <2>1. PICK w \in VMs : /\ late[w] # None
                         /\ \A x \in VMs \ {w} : requested'[x] = requested[x] /\ late'[x] = late[x]
    BY <1>0, <1>3, LateLands
  <2> QED
    BY <2>1
<1>4. CASE (SinkApply \/ SinkUnknown \/ Crash) /\ ~UNCHANGED <<requested, current, late>>
  <2>1. /\ phase = "apply"
        /\ \/ requested' = [requested EXCEPT ![cmd.vm] = cmd.target] /\ late' = late
           \/ requested' = requested /\ late' = [late EXCEPT ![cmd.vm] = cmd.target]
    BY <1>4, CommandSent
  <2>2. cmd.vm # v
    BY <2>1 DEF Sending
  <2> QED
    BY <1>0, <2>1, <2>2 DEF Types, Devices
<1> QED
  BY <1>1, <1>2, <1>3, <1>4, DevicesTouched

\* What makes a command late.
LEMMA LateStep ==
  ASSUME Recorded, Next, NEW v \in VMs, late'[v] # None, late'[v] # late[v]
  PROVE  /\ SinkUnknown \/ Crash
         /\ phase = "apply" /\ v = cmd.vm /\ late'[v] = cmd.target /\ requested' = requested
<1>0. Types
  BY DEF Recorded
<1>1. CASE GuestPlug \/ GuestUnplug \/ DeviceReset
  BY <1>0, <1>1, PlugWithin, UnplugSmaller
<1>2. CASE LateApply
  BY <1>0, <1>2, LateLands
<1>3. CASE (SinkApply \/ SinkUnknown \/ Crash) /\ ~UNCHANGED <<requested, current, late>>
  <2>1. /\ phase = "apply" /\ requested' = requested
        /\ late' = [late EXCEPT ![cmd.vm] = cmd.target]
    BY <1>3, CommandSent
  <2>2. ~SinkApply
    BY <2>1 DEF SinkApply, Perform
  <2>3. cmd.vm \in VMs
    BY <1>0, <2>1 DEF Types, Commands
  <2> QED
    BY <1>0, <1>3, <2>1, <2>2, <2>3 DEF Types, Devices
<1> QED
  BY <1>1, <1>2, <1>3, DevicesTouched

\* A VM that is held and moving is not found ready.
LEMMA HeldStays ==
  ASSUME Recorded, Next, NEW v \in VMs, observed[v].op = "Held",
         ObserveReady /\ v = turn => FALSE, ReadGuest /\ v = turn => FALSE
  PROVE  observed'[v].op = "Held"
<1>1. \A c : Held(c).op = "Held"
  BY DEF Held
<1> QED
  BY <1>1, ObservedStep DEF Recorded

LEMMA ReadyUnchangedStep ==
  ASSUME Recorded, Next PROVE ReadyUnchanged'
<1> SUFFICES ASSUME NEW v \in VMs, observed'[v].op # "Held"
             PROVE  requested'[v] = observed'[v].charge
  BY DEF ReadyUnchanged
<1>0. Types /\ ReadyUnchanged /\ turn \in VMs
  BY DEF Recorded, Types, Observations
<1>1. \A c : Held(c).op = "Held"
  BY DEF Held
<1>2. CASE ObserveReady /\ v = turn /\ observed'[v].charge = current[v]
  <2>1. requested' = requested /\ Request(v) = current[v]
    BY <1>2 DEF ObserveReady, AtRest, Diverged, deviceVars
  <2>2. Request(v) = requested[v]
    BY <2>1, RequestApart
  <2> QED
    BY <1>2, <2>1, <2>2
<1>3. CASE ReadGuest /\ v = turn /\ observed'[v].charge = observed[v].charge
  <2>1. requested' = requested /\ phase = "read"
    BY <1>3 DEF ReadGuest, deviceVars
  <2>2. observed[v] = Held(requested[v])
    BY <1>3, <2>1 DEF Recorded, WideningHeld, Widening
  <2> QED
    BY <1>3, <2>1, <2>2 DEF Held
<1>4. CASE observed'[v] = observed[v]
  <2>1. late[v] = None /\ (Sending => cmd.vm # v)
    BY <1>4 DEF Recorded, LateRecorded, CommandRecorded
  <2> QED
    BY <1>0, <1>4, <2>1, RequestedStays DEF ReadyUnchanged
<1> QED
  BY <1>0, <1>1, <1>2, <1>3, <1>4, ObservedStep

LEMMA CommandRecordedStep ==
  ASSUME Recorded, Types', Next PROVE CommandRecorded'
<1> USE DEF deviceVars, checkpointVars, processVars, roundVars
<1> SUFFICES ASSUME Sending' PROVE CommandRecorded'
  BY DEF CommandRecorded
<1>0. Types /\ CommandRecorded /\ turn \in VMs
  BY DEF Recorded, Types, Observations
<1>1. CASE ObserveSettle \/ ObserveExtend
  <2>1. PICK kind \in {"settle", "extend"}, target \in Nat, i \in Intents :
          /\ kind = "settle" => target = current[turn]
          /\ kind = "extend" => target < Request(turn)
          /\ i.target = target /\ intent' = [intent EXCEPT ![turn] = i]
          /\ observed' = [observed EXCEPT ![turn] = Held(Charge)]
          /\ cmd' = [kind |-> kind, vm |-> turn, target |-> target,
                     seen |-> <<Request(turn), current[turn]>>, prior |-> committed]
          /\ Diverged /\ Owned
          /\ UNCHANGED deviceVars
    BY <1>0, <1>1, PendingFacts
  <2>2. Request(turn) = requested[turn] /\ Request(turn) \in Nat
    BY <1>0, <2>1, RequestApart, RequestFacts DEF Owned
  <2>3. target # requested[turn] /\ requested' = requested
    BY <2>1, <2>2 DEF Diverged
  <2>4. observed'[turn].op = "Held" /\ intent'[turn] = i
    BY <1>0, <2>1 DEF Held, Types, Observations, Known
  <2>5. cmd'.vm = turn /\ cmd'.target = target /\ cmd'.seen[1] = requested[turn]
    BY <2>1, <2>2
  <2>6. i # None
    BY Constants
  <2> QED
    BY <2>1, <2>3, <2>4, <2>5, <2>6 DEF CommandRecorded
<1>2. CASE ActCommand
  <2>1. PICK v \in VMs, target \in Nat, growth \in Nat, i \in Intents :
          /\ observed[v].op # "Held" /\ observed[v].charge \in Nat
          /\ \/ target = observed[v].charge + growth /\ growth > 0
             \/ target < observed[v].charge
          /\ i.target = target /\ intent' = [intent EXCEPT ![v] = i]
          /\ cmd' = [kind |-> "resize", vm |-> v, target |-> target,
                     seen |-> <<observed[v].charge, observed[v].charge>>, prior |-> committed]
          /\ observed' = [observed EXCEPT ![v] = Held(None)]
          /\ UNCHANGED deviceVars
    BY <1>0, <1>2, ActFacts
  <2>2. requested[v] = observed[v].charge
    BY <2>1 DEF Recorded, ReadyUnchanged
  <2>3. observed'[v].op = "Held" /\ intent'[v] = i
    BY <1>0, <2>1 DEF Held, Types, Observations, Known
  <2>4. cmd'.vm = v /\ cmd'.target = target /\ cmd'.seen[1] = requested[v] /\ i # None
    BY <2>1, <2>2, Constants
  <2>5. target # requested[v] /\ requested' = requested
    BY <2>1, <2>2
  <2> QED
    BY <2>1, <2>3, <2>4, <2>5 DEF CommandRecorded
<1>3. CASE SinkPass
  BY <1>0, <1>3 DEF SinkPass, CommandRecorded, Sending
<1>4. CASE World /\ Sending /\ UNCHANGED <<phase, cmd>>
  <2>1. cmd.vm \in VMs /\ late[cmd.vm] = None
    BY <1>0, <1>4 DEF Sending, Types, Commands, Recorded, LateRecorded
  <2>2. requested'[cmd.vm] = requested[cmd.vm]
    <3>1. CASE GuestPlug \/ GuestUnplug \/ DeviceReset
      BY <1>0, <3>1, PlugWithin, UnplugSmaller
    <3>2. CASE LateApply
      <4>1. PICK w \in VMs : /\ late[w] # None
                             /\ \A x \in VMs \ {w} : requested'[x] = requested[x]
        BY <1>0, <3>2, LateLands
      <4> QED
        BY <2>1, <4>1
    <3>3. CASE Recover
      BY <3>3 DEF Recover
    <3> QED
      BY <1>4, <3>1, <3>2, <3>3 DEF World
  <2>3. UNCHANGED <<intent, observed, cmd>>
    BY <1>4, WorldFacts
  <2> QED
    BY <1>0, <1>4, <2>2, <2>3 DEF CommandRecorded
<1> QED
  BY <1>1, <1>2, <1>3, <1>4, SendingStep

\* Whose command the next one is.
LEMMA NextCommand ==
  ASSUME Recorded, Next, Sending', NEW v \in VMs,
         intent[v] = None \/ Request(v) # Target(v), observed[v].op = "Held",
         Sending => cmd.vm # v
  PROVE  cmd'.vm # v
<1>0. Types /\ turn \in VMs
  BY DEF Recorded, Types, Observations
<1>1. CASE ObserveSettle \/ ObserveExtend
  <2>1. cmd'.vm = turn /\ Owned
    BY <1>0, <1>1, PendingFacts
  <2> QED
    BY <2>1 DEF Owned, Contradicted
<1>2. CASE ActCommand
  <2>1. PICK w \in VMs : observed[w].op # "Held" /\ cmd'.vm = w
    BY <1>0, <1>2, ActFacts
  <2> QED
    BY <2>1
<1>3. CASE SinkPass
  BY <1>3 DEF SinkPass, Sending
<1> QED
  BY <1>1, <1>2, <1>3, SendingStep

LEMMA LateRecordedStep ==
  ASSUME Recorded, Next, "hasty" \notin Faults PROVE LateRecorded'
<1> USE DEF deviceVars, checkpointVars, processVars, roundVars
<1> SUFFICES ASSUME NEW v \in VMs, late'[v] # None
             PROVE  /\ intent'[v] # None /\ intent'[v].target = late'[v]
                    /\ requested'[v] # late'[v]
                    /\ observed'[v].op = "Held"
                    /\ Sending' => cmd'.vm # v
  BY DEF LateRecorded
<1>0. Types /\ turn \in VMs
  BY DEF Recorded, Types, Observations
<1>1. CASE late'[v] = late[v]
  <2>1. /\ intent[v] # None /\ intent[v].target = late[v] /\ requested[v] # late[v]
        /\ observed[v].op = "Held" /\ (Sending => cmd.vm # v)
    BY <1>1 DEF Recorded, LateRecorded
  <2>2. Request(v) # Target(v) /\ late[v] # None
    BY <1>1, LateMoving
  <2>3. intent'[v] = intent[v]
    <3>1. ~(v = turn /\ Reached)
      BY <2>2 DEF Reached
    <3>2. ~(v = turn /\ (ObserveSettle \/ ObserveExtend))
      BY <1>0, <2>2, PendingFacts DEF Owned, Contradicted
    <3>3. ~(SinkReject /\ v = cmd.vm)
      BY <2>1 DEF SinkReject, Sending
    <3> QED
      BY <1>0, <2>1, <2>2, <3>1, <3>2, <3>3, IntentStep
  <2>4. requested'[v] = requested[v]
    <3>1. CASE UNCHANGED <<requested, current, late>>
      BY <3>1
    <3>2. CASE GuestPlug \/ GuestUnplug \/ DeviceReset
      BY <1>0, <3>2, PlugWithin, UnplugSmaller
    <3>3. CASE LateApply
      <4>1. PICK w \in VMs : /\ late'[w] = None
                             /\ \A x \in VMs \ {w} : requested'[x] = requested[x]
        BY <1>0, <3>3, LateLands
      <4> QED
        BY <4>1
    <3>4. CASE (SinkApply \/ SinkUnknown \/ Crash) /\ ~UNCHANGED <<requested, current, late>>
      <4>1. /\ phase = "apply"
            /\ requested' = [requested EXCEPT ![cmd.vm] = cmd.target] \/ requested' = requested
        BY <3>4, CommandSent
      <4>2. cmd.vm # v
        BY <2>1, <4>1 DEF Sending
      <4> QED
        BY <1>0, <4>1, <4>2 DEF Types, Devices
    <3> QED
      BY <3>1, <3>2, <3>3, <3>4, DevicesTouched
  <2>5. observed'[v].op = "Held"
    <3>1. ObserveReady /\ v = turn => FALSE
      BY <2>1, <2>2 DEF ObserveReady, AtRest, Reached
    <3>2. ReadGuest /\ v = turn => FALSE
      BY <2>2 DEF ReadGuest, Recorded, WideningHeld, Widening
    <3> QED
      BY <2>1, <3>1, <3>2, HeldStays
  <2>6. Sending' => cmd'.vm # v
    BY <2>1, <2>2, NextCommand
  <2> QED
    BY <1>1, <2>1, <2>3, <2>4, <2>5, <2>6
<1>2. CASE late'[v] # late[v]
  <2>1. /\ SinkUnknown \/ Crash
        /\ phase = "apply" /\ v = cmd.vm /\ late'[v] = cmd.target /\ requested' = requested
    BY <1>2, LateStep
  <2>2. /\ observed[v].op = "Held" /\ intent[v] # None /\ intent[v].target = cmd.target
        /\ cmd.target # requested[v]
    BY <2>1 DEF Recorded, CommandRecorded, Sending
  <2>3. intent' = intent
    BY <2>1 DEF SinkUnknown, Crash
  <2>4. observed'[v].op = "Held"
    BY <2>1, <2>2, HeldStays DEF ObserveReady, ReadGuest
  <2>5. ~Sending'
    BY <2>1 DEF SinkUnknown, Continue, Advance, Crash, Sending
  <2> QED
    BY <2>1, <2>2, <2>3, <2>4, <2>5
<1> QED
  BY <1>1, <1>2

\* A widening starts at rest.
LEMMA WidenStarts ==
  ASSUME Recorded, WidenStart
  PROVE  WideningHeld'
<1> USE DEF deviceVars, checkpointVars, processVars, roundVars
<1>0. Types /\ turn \in VMs
  BY DEF Recorded, Types, Observations
<1>1. /\ Reached /\ intent[turn] # None /\ Request(turn) < Device[turn] /\ Resolve
      /\ observed' = [observed EXCEPT ![turn] = Held(Charge)]
      /\ phase' = "suspend" /\ turn' = turn
      /\ UNCHANGED <<requested, current, whole, paused, late>>
  BY DEF WidenStart, Reached, Observe
<1>2. Request(turn) = requested[turn] /\ ~whole[turn]
  BY <1>0, <1>1, RequestApart
<1>3. current[turn] = requested[turn] /\ Target(turn) = requested[turn] /\ requested[turn] \in Nat
  BY <1>0, <1>1, <1>2, RequestFacts DEF Reached
<1>4. Charge = requested[turn]
  BY <1>2, <1>3 DEF Charge, Holding, greatest
<1>5. observed'[turn] = Held(requested[turn])
  BY <1>0, <1>1, <1>4 DEF Types, Observations
<1>6. intent'[turn] = None
  BY <1>0, <1>1 DEF Resolve, Types, Known
<1>7. late[turn] = None
  BY <1>0, <1>1, LateMoving DEF Reached
<1> QED
  BY <1>1, <1>2, <1>3, <1>5, <1>6, <1>7 DEF WideningHeld

LEMMA WideningHeldStep ==
  ASSUME Recorded, Next PROVE WideningHeld'
<1> SUFFICES ASSUME Widening' PROVE WideningHeld'
  BY DEF WideningHeld
<1>0. Types /\ turn \in VMs
  BY DEF Recorded, Types, Observations
<1>1. CASE WidenStart
  BY <1>1, WidenStarts
<1>2. ASSUME Widening
      PROVE  /\ observed[turn] = Held(requested[turn])
             /\ current[turn] <= requested[turn] /\ requested[turn] < Device[turn]
             /\ intent[turn] = None /\ late[turn] = None
             /\ phase \in {"widen", "restore"} => paused[turn]
             /\ phase # "restore" => ~whole[turn]
             /\ cmd.vm = turn
  BY <1>2 DEF Recorded, WideningHeld, Types, Commands
<1>3. CASE Widens
  <2>1. /\ Widening
        /\ UNCHANGED <<requested, current, late, intent>>
        /\ UNCHANGED <<turn, observed>>
    BY <1>3, WidensFacts
  <2>2. phase' \in {"widen", "restore"} => paused'[turn]
    <3>1. CASE WidenSuspend
      BY <1>0, <1>2, <2>1, <3>1 DEF WidenSuspend, Perform, Types, Devices
    <3>2. CASE WidenApply
      <4>1. phase = "widen" /\ (Perform \/ Unanswered)
        BY <3>2 DEF WidenApply, Unknown
      <4>2. paused' = paused
        BY <4>1 DEF Perform, Unanswered, deviceVars
      <4> QED
        BY <1>2, <2>1, <4>1, <4>2
    <3>3. CASE WidenReject \/ WidenRestore \/ WidenResume \/ WidenUnknown
      BY <3>3 DEF WidenReject, WidenRestore, WidenResume, WidenUnknown
    <3> QED
      BY <1>3, <3>1, <3>2, <3>3 DEF Widens
  <2>3. phase' # "restore" => ~whole'[turn]
    <3>1. CASE WidenReject \/ WidenSuspend \/ WidenResume
      <4>1. phase \in {"suspend", "resume"} /\ (UNCHANGED whole \/ Perform \/ Unanswered)
        BY <3>1 DEF WidenReject, WidenSuspend, WidenResume, Unknown, deviceVars
      <4>2. whole' = whole
        BY <4>1 DEF Perform, Unanswered, deviceVars
      <4> QED
        BY <1>2, <2>1, <4>1, <4>2
    <3>2. CASE WidenRestore
      BY <1>0, <1>2, <2>1, <3>2 DEF WidenRestore, Perform, Types, Devices
    <3>3. CASE WidenApply \/ WidenUnknown
      BY <3>3 DEF WidenApply, WidenUnknown, Widening
    <3> QED
      BY <1>3, <3>1, <3>2, <3>3 DEF Widens
  <2> QED
    BY <1>2, <2>1, <2>2, <2>3 DEF WideningHeld
<1>4. CASE World /\ Widening
  <2>1. UNCHANGED <<phase, turn, observed, intent, cmd>>
    BY <1>4, WorldFacts
  <2>2. late[turn] = None /\ ~Sending
    BY <1>2, <1>4 DEF Widening, Sending
  <2>3. requested'[turn] = requested[turn] /\ late'[turn] = None
    BY <1>0, <1>4, <2>2, RequestedStays DEF Next, World
  <2>4. current'[turn] <= requested[turn]
    <3>1. requested[turn] \in Nat /\ current[turn] \in Nat
      BY <1>0, RequestFacts
    <3>2. CASE GuestPlug
      <4>1. PICK v \in VMs : /\ ~paused[v] /\ current'[v] <= Request(v)
                             /\ \A w \in VMs \ {v} : current'[w] = current[w]
        BY <1>0, <3>2, PlugWithin
      <4>2. CASE v = turn
        BY <4>1, <4>2, RequestApart
      <4> QED
        BY <1>0, <1>2, <1>4, <4>1, <4>2
    <3>3. CASE GuestUnplug \/ DeviceReset
      <4>1. PICK v \in VMs : /\ current'[v] <= current[v]
                             /\ \A w \in VMs \ {v} : current'[w] = current[w]
        BY <1>0, <3>3, UnplugSmaller
      <4>2. current'[turn] = current[turn] \/ current'[turn] <= current[turn]
        BY <1>0, <4>1
      <4>3. current'[turn] \in Nat
        BY <1>0, <1>4, DevicesStep DEF Next, World, Devices
      <4> QED
        BY <1>2, <1>4, <3>1, <4>2, <4>3
    <3>4. CASE LateApply \/ Recover
      <4>1. current' = current
        BY <3>4 DEF LateApply, Recover
      <4> QED
        BY <1>2, <1>4, <4>1
    <3> QED
      BY <1>4, <3>2, <3>3, <3>4 DEF World
  <2>5. /\ phase \in {"widen", "restore"} => paused'[turn]
        /\ phase # "restore" => ~whole'[turn]
    <3>1. CASE GuestPlug \/ GuestUnplug \/ DeviceReset
      <4>1. UNCHANGED <<whole, paused>>
        BY <1>0, <3>1, PlugWithin, UnplugSmaller
      <4> QED
        BY <1>2, <1>4, <4>1
    <3>2. CASE LateApply
      <4>1. PICK w \in VMs : /\ late[w] # None
                             /\ \A x \in VMs \ {w} : whole'[x] = whole[x]
                             /\ paused' = paused
        BY <1>0, <3>2, LateLands
      <4> QED
        BY <1>0, <1>2, <1>4, <4>1
    <3>3. CASE Recover
      <4>1. PICK w \in VMs : /\ phase \in {"suspend", "widen", "restore", "resume"} => cmd.vm # w
                             /\ ~whole'[w]
                             /\ \A x \in VMs \ {w} : whole'[x] = whole[x] /\ paused'[x] = paused[x]
        BY <1>0, <3>3, RecoverFacts
      <4>2. CASE turn = w
        BY <1>2, <1>4, <4>1, <4>2
      <4>3. CASE turn # w
        BY <1>0, <1>2, <1>4, <4>1, <4>3
      <4> QED
        BY <4>2, <4>3
    <3> QED
      BY <1>4, <3>1, <3>2, <3>3 DEF World
  <2> QED
    BY <1>2, <1>4, <2>1, <2>3, <2>4, <2>5 DEF WideningHeld
<1> QED
  BY <1>1, <1>3, <1>4, WideningStep

\* What asks for a whole device: a widening, or the command it died with.
LEMMA WholeStep ==
  ASSUME Recorded, Next, NEW v \in VMs, whole'[v], ~whole[v]
  PROVE  /\ Widens \/ Crash
         /\ phase \in {"widen", "restore"} /\ v = turn
         /\ UNCHANGED <<requested, current, paused, late>>
<1>0. Types
  BY DEF Recorded
<1>1. ~LateApply /\ ~Recover
  BY <1>0, LateLands, RecoverFacts
<1>2. Perform \/ Unanswered
  BY <1>1, WholeTouched
<1>3. /\ phase \in {"widen", "restore"}
      /\ whole' = [whole EXCEPT ![cmd.vm] = TRUE]
      /\ UNCHANGED <<requested, current, paused, late>>
  BY <1>0, <1>2 DEF Perform, Unanswered, deviceVars, Types, Devices, Commands
<1>4. cmd.vm = turn
  BY <1>0, <1>3 DEF Types, Commands, Widening
<1>5. v = turn
  BY <1>0, <1>3, <1>4 DEF Types, Devices
<1>6. Widens \/ Crash
  <2>1. ~World
    BY <1>0, <1>1, PlugWithin, UnplugSmaller DEF World
  <2>2. \/ WidenStart \/ Widens \/ Crash \/ ReadGuest \/ SinkApply \/ SinkUnknown
        \/ UNCHANGED deviceVars
    BY <2>1 DEF Next, World, Widens, ObserveUnreadable, ObserveStopped, ObserveHeld,
         ObserveReady, ObserveSettle, ObserveExtend, ObservePending, ObserveTimeout, Allocate,
         ActNothing, ActCommand, EndRound, SinkPass, SinkReject, Start, ClearLatch
  <2>3. ~(UNCHANGED deviceVars)
    BY DEF deviceVars
  <2> QED
    BY <1>3, <2>2, <2>3 DEF WidenStart, ReadGuest, SinkApply, SinkUnknown
<1> QED
  BY <1>3, <1>5, <1>6

LEMMA WholeApartStep ==
  ASSUME Recorded, Types', Next PROVE WholeApart'
<1> SUFFICES ASSUME NEW v \in VMs, whole'[v]
             PROVE  /\ paused'[v] /\ current'[v] <= requested'[v] /\ requested'[v] < Device[v]
                    /\ intent'[v] = None /\ late'[v] = None
                    /\ observed'[v].op = "Held"
                    /\ Sending' => cmd'.vm # v
  BY DEF WholeApart
<1>0. Types /\ turn \in VMs
  BY DEF Recorded, Types, Observations
<1>1. CASE whole[v]
  <2>1. /\ paused[v] /\ current[v] <= requested[v] /\ requested[v] < Device[v]
        /\ intent[v] = None /\ late[v] = None /\ observed[v].op = "Held"
        /\ (Sending => cmd.vm # v)
    BY <1>1 DEF Recorded, WholeApart
  <2>2. Request(v) # current[v]
    BY <1>1, RequestApart
  <2>3. paused'[v]
    <3>1. CASE UNCHANGED <<whole, paused>>
      BY <2>1, <3>1
    <3>2. CASE Perform /\ phase # "resume"
      <4>1. paused' = paused \/ paused' = [paused EXCEPT ![cmd.vm] = TRUE]
        BY <3>2 DEF Perform
      <4> QED
        BY <1>0, <2>1, <4>1 DEF Types, Devices
    <3>3. CASE Perform /\ phase = "resume"
      <4>1. paused' = [paused EXCEPT ![cmd.vm] = FALSE] /\ cmd.vm = turn /\ ~whole[turn]
        BY <1>0, <3>3 DEF Perform, Recorded, WideningHeld, Widening, Types, Commands
      <4> QED
        BY <1>0, <1>1, <2>1, <4>1 DEF Types, Devices
    <3>4. CASE Unanswered /\ ~Perform
      <4>1. paused' = paused
        BY <3>4 DEF Unanswered, deviceVars
      <4> QED
        BY <2>1, <4>1
    <3>5. CASE LateApply
      BY <2>1, <3>5 DEF LateApply
    <3>6. CASE Recover
      <4>1. PICK w \in VMs : ~whole'[w] /\ \A x \in VMs \ {w} : paused'[x] = paused[x]
        BY <1>0, <3>6, RecoverFacts
      <4> QED
        BY <2>1, <4>1
    <3> QED
      BY <3>1, <3>2, <3>3, <3>4, <3>5, <3>6, WholeTouched
  <2>4. requested'[v] = requested[v] /\ late'[v] = None
    BY <2>1, RequestedStays
  <2>5. current'[v] <= requested[v]
    <3>1. requested[v] \in Nat /\ current[v] \in Nat /\ current'[v] \in Nat
      BY <1>0, RequestFacts DEF Types, Devices
    <3>2. CASE UNCHANGED <<requested, current, late>>
      BY <2>1, <3>2
    <3>3. CASE GuestPlug
      <4>1. PICK w \in VMs : ~paused[w] /\ \A x \in VMs \ {w} : current'[x] = current[x]
        BY <1>0, <3>3, PlugWithin
      <4> QED
        BY <2>1, <4>1
    <3>4. CASE GuestUnplug \/ DeviceReset
      <4>1. PICK w \in VMs : /\ current'[w] <= current[w]
                             /\ \A x \in VMs \ {w} : current'[x] = current[x]
        BY <1>0, <3>4, UnplugSmaller
      <4>2. current'[v] = current[v] \/ current'[v] <= current[v]
        BY <4>1
      <4> QED
        BY <2>1, <3>1, <4>2
    <3>5. CASE LateApply
      BY <2>1, <3>5 DEF LateApply
    <3>6. CASE (SinkApply \/ SinkUnknown \/ Crash) /\ ~UNCHANGED <<requested, current, late>>
      <4>1. current' = current
        BY <3>6, CommandSent
      <4> QED
        BY <2>1, <4>1
    <3> QED
      BY <3>2, <3>3, <3>4, <3>5, <3>6, DevicesTouched
  <2>6. intent'[v] = None
    <3>1. ~(v = turn /\ (ObserveSettle \/ ObserveExtend))
      BY <1>0, <2>1, PendingFacts DEF Owned
    <3>2. ~(SinkReject /\ v = cmd.vm)
      BY <2>1 DEF SinkReject, Sending
    <3> QED
      BY <1>0, <2>1, <3>1, <3>2, IntentStep
  <2>7. observed'[v].op = "Held"
    <3>1. ObserveReady /\ v = turn => FALSE
      BY <2>2 DEF ObserveReady, AtRest, Diverged
    <3>2. ReadGuest /\ v = turn => FALSE
      BY <1>1 DEF ReadGuest, Recorded, WideningHeld, Widening
    <3> QED
      BY <2>1, <3>1, <3>2, HeldStays
  <2>8. Sending' => cmd'.vm # v
    BY <2>1, NextCommand
  <2> QED
    BY <2>1, <2>3, <2>4, <2>5, <2>6, <2>7, <2>8
<1>2. CASE ~whole[v]
  <2>1. /\ Widens \/ Crash
        /\ phase \in {"widen", "restore"} /\ v = turn
        /\ UNCHANGED <<requested, current, paused, late>>
    BY <1>2, WholeStep
  <2>2. /\ observed[v] = Held(requested[v])
        /\ current[v] <= requested[v] /\ requested[v] < Device[v]
        /\ intent[v] = None /\ late[v] = None /\ paused[v]
    BY <2>1 DEF Recorded, WideningHeld, Widening
  <2>3. intent' = intent /\ ~Sending'
    BY <2>1, WidensFacts DEF Crash, checkpointVars, Sending
  <2>4. observed'[v].op = "Held"
    BY <2>1, <2>2, HeldStays DEF Held, ObserveReady, ReadGuest
  <2> QED
    BY <2>1, <2>2, <2>3, <2>4
<1> QED
  BY <1>1, <1>2

LEMMA RecordedInit == Init => Recorded
<1> SUFFICES ASSUME Init PROVE Recorded
  OBVIOUS
<1>1. Types
  BY TypesInit
<1>2. ReadyUnchanged /\ CommandRecorded /\ LateRecorded /\ WideningHeld /\ WholeApart
  BY DEF Init, Held, ReadyUnchanged, CommandRecorded, LateRecorded, WideningHeld, WholeApart,
     Sending, Widening
<1> QED
  BY <1>1, <1>2 DEF Recorded

LEMMA RecordedStep ==
  ASSUME Recorded, [Next]_vars, "hasty" \notin Faults PROVE Recorded'
<1>1. Types'
  BY TypesStep DEF Recorded
<1>2. CASE Next
  BY <1>1, <1>2, ReadyUnchangedStep, CommandRecordedStep, LateRecordedStep, WideningHeldStep,
     WholeApartStep DEF Recorded
<1>3. CASE UNCHANGED vars
  <2> USE DEF vars, deviceVars, checkpointVars, processVars, roundVars, Sending, Widening
  <2>1. ReadyUnchanged' /\ CommandRecorded' /\ LateRecorded'
    BY <1>3 DEF Recorded, ReadyUnchanged, CommandRecorded, LateRecorded
  <2>2. WideningHeld' /\ WholeApart'
    BY <1>3 DEF Recorded, WideningHeld, WholeApart
  <2> QED
    BY <1>1, <2>1, <2>2 DEF Recorded
<1> QED
  BY <1>2, <1>3

-----------------------------------------------------------------------------
\* The pool.  The invariant looks one step ahead of the devices: a command claims its
\* target when it is recorded, and a ceiling above what a ready VM was charged is promised
\* to it until its request is served.

Observing ==
  phase \in {"observe", "allocate", "down"} \/ Widening \/ (Sending /\ cmd.kind # "resize")
Granting == phase = "act" \/ (Sending /\ cmd.kind = "resize")

\* What a VM holds, but for a widening, and what it claims.
Kept(v) == greatest(requested[v], current[v])
Claim(v) == greatest(Kept(v), Target(v))
ChargedFirst ==
  Observing => \A v \in VMs : observed[v].charge # None => Claim(v) <= observed[v].charge
Promised(v) ==
  IF observed[v].op = "Add" /\ ceilings[v] > observed[v].charge
    THEN greatest(Claim(v), ceilings[v]) ELSE Claim(v)
PoolShared ==
  /\ Total([v \in VMs |-> Claim(v)]) <= Pool
  /\ Granting => Total([v \in VMs |-> Promised(v)]) <= Pool

PoolInv == Recorded /\ ChargedFirst /\ PoolShared

\* What a VM claims is the largest of three sizes.
LEMMA ClaimFacts ==
  ASSUME Types, NEW v \in VMs
  PROVE  /\ requested[v] \in Nat /\ current[v] \in Nat /\ Claim(v) \in Nat /\ Kept(v) \in Nat
         /\ requested[v] <= Kept(v) /\ current[v] <= Kept(v) /\ Kept(v) <= Claim(v)
         /\ intent[v] # None => intent[v].target \in Nat /\ intent[v].target <= Claim(v)
<1>1. requested[v] \in Nat /\ current[v] \in Nat
  BY DEF Types, Devices
<1>2. intent[v] = None \/ intent[v] \in Intents
  BY DEF Types, Known
<1>3. intent[v] # None => intent[v].target \in Nat
  BY <1>2 DEF Intents
<1> QED
  BY <1>1, <1>3 DEF Claim, Kept, Target, greatest

LEMMA ClaimWithin ==
  ASSUME Types', NEW v \in VMs, NEW b \in Nat, requested'[v] <= b, current'[v] <= b,
         intent'[v] # None => intent'[v].target <= b
  PROVE  Claim(v)' \in Nat /\ Claim(v)' <= b
<1>1. requested'[v] \in Nat /\ current'[v] \in Nat
  BY DEF Types, Devices
<1>2. intent'[v] = None \/ intent'[v] \in Intents
  BY DEF Types, Known
<1>3. intent'[v] # None => intent'[v].target \in Nat
  BY <1>2 DEF Intents
<1> QED
  BY <1>1, <1>3 DEF Claim, Kept, Target, greatest

LEMMA PromisedFacts ==
  ASSUME Types, NEW v \in VMs
  PROVE  /\ Promised(v) \in Nat /\ Claim(v) <= Promised(v)
         /\ observed[v].op = "Add" /\ ceilings[v] > observed[v].charge
              => ceilings[v] <= Promised(v)
<1>1. Claim(v) \in Nat /\ ceilings[v] \in Nat
  BY ClaimFacts DEF Types, Allocated
<1> QED
  BY <1>1 DEF Promised, greatest

\* No step but that of a command makes a VM claim more.
LEMMA ClaimsShrink ==
  ASSUME Recorded, Types', Next, ~ActCommand, NEW v \in VMs
  PROVE  Claim(v)' \in Nat /\ Claim(v)' <= Claim(v)
<1> USE DEF deviceVars, checkpointVars, processVars, roundVars
<1>0. Types /\ CommandRecorded
  BY DEF Recorded
<1>1. /\ requested[v] \in Nat /\ current[v] \in Nat /\ Claim(v) \in Nat
      /\ requested[v] <= Claim(v) /\ current[v] <= Claim(v)
      /\ intent[v] # None => intent[v].target \in Nat /\ intent[v].target <= Claim(v)
  BY <1>0, ClaimFacts
<1>2. turn \in VMs /\ intent \in [VMs -> Intents \cup {None}] /\ requested \in [VMs -> Nat]
  BY <1>0 DEF Types, Observations, Known, Devices
<1>3. ASSUME UNCHANGED <<requested, current>>, intent'[v] = intent[v] \/ intent'[v] = None
             \/ intent'[v].target <= requested[v] \/ intent'[v].target <= current[v],
             intent'[v] # None => intent'[v].target \in Nat
      PROVE  Claim(v)' \in Nat /\ Claim(v)' <= Claim(v)
  <2>1. requested'[v] <= Claim(v) /\ current'[v] <= Claim(v)
    BY <1>1, <1>3
  <2>2. intent'[v] # None => intent'[v].target <= Claim(v)
    BY <1>1, <1>3
  <2> QED
    BY <1>1, <2>1, <2>2, ClaimWithin
<1>4. intent'[v] # None => intent'[v].target \in Nat
  BY DEF Types, Known, Intents
<1>5. CASE ObserveUnreadable \/ ObserveStopped \/ ObserveTimeout \/ ReadGuest
  BY <1>3, <1>4, <1>5 DEF ObserveUnreadable, ObserveStopped, ObserveTimeout, ReadGuest
<1>6. CASE ObserveHeld \/ ObserveReady \/ WidenStart
  <2>1. UNCHANGED deviceVars /\ Resolve
    BY <1>6 DEF ObserveHeld, ObserveReady, WidenStart
  <2>2. intent'[v] = intent[v] \/ intent'[v] = None
    BY <1>2, <2>1 DEF Resolve
  <2> QED
    BY <1>3, <1>4, <2>1, <2>2
<1>7. CASE ObserveSettle \/ ObserveExtend
  <2>1. PICK target \in Nat, i \in Intents :
          /\ target = current[turn] \/ target < Request(turn)
          /\ i.target = target /\ intent' = [intent EXCEPT ![turn] = i]
          /\ UNCHANGED deviceVars /\ Owned
    BY <1>0, <1>7, PendingFacts
  <2>2. intent'[v] = intent[v] \/ (v = turn /\ intent'[v].target = target)
    BY <1>2, <2>1
  <2>3. v = turn => target <= current[v] \/ target <= requested[v]
    <3>1. Request(turn) = requested[turn]
      BY <1>2, <2>1, RequestApart DEF Owned
    <3> QED
      BY <1>1, <2>1, <3>1
  <2> QED
    BY <1>3, <1>4, <2>1, <2>2, <2>3
<1>8. CASE Allocate \/ ActNothing \/ EndRound \/ SinkPass \/ Start \/ Recover
  BY <1>3, <1>4, <1>8 DEF Allocate, ActNothing, EndRound, SinkPass, Start, Recover
<1>9. CASE SinkReject
  <2>1. /\ UNCHANGED deviceVars /\ phase = "check"
        /\ intent' = [intent EXCEPT ![cmd.vm] =
             IF cmd.kind = "resize" THEN None
             ELSE IF cmd.kind = "extend" THEN [@ EXCEPT !.target = cmd.seen[1]]
             ELSE @]
    BY <1>9 DEF SinkReject
  <2>2. Sending /\ cmd.vm \in VMs /\ intent[cmd.vm] \in Intents
    BY <1>0, <1>2, <2>1 DEF Sending, Types, Commands
  <2>3. cmd.kind = "extend" => cmd.seen[1] = requested[cmd.vm]
    BY <1>0, <2>2 DEF CommandRecorded
  <2>4. CASE cmd.vm # v \/ cmd.kind # "extend"
    <3>1. intent'[v] = intent[v] \/ intent'[v] = None
      BY <1>2, <2>1, <2>2, <2>4
    <3> QED
      BY <1>3, <1>4, <2>1, <3>1
  <2>5. CASE cmd.vm = v /\ cmd.kind = "extend"
    <3>1. intent'[v] = [intent[v] EXCEPT !.target = requested[v]]
      BY <1>2, <2>1, <2>2, <2>3, <2>5
    <3>2. intent'[v].target = requested[v]
      BY <2>2, <2>5, <3>1 DEF Intents
    <3> QED
      BY <1>1, <1>3, <1>4, <2>1, <3>2
  <2> QED
    BY <2>4, <2>5
<1>10. CASE SinkApply \/ SinkUnknown \/ Crash
  <2>0. intent' = intent
    BY <1>10 DEF SinkApply, SinkUnknown, Crash
  <2>1. CASE UNCHANGED <<requested, current, late>>
    BY <1>3, <1>4, <2>0, <2>1
  <2>2. CASE ~UNCHANGED <<requested, current, late>>
    <3>1. /\ phase = "apply" /\ current' = current
          /\ requested' = [requested EXCEPT ![cmd.vm] = cmd.target] \/ requested' = requested
      BY <1>10, <2>2, CommandSent
    <3>2. cmd.vm \in VMs /\ intent[cmd.vm] # None /\ intent[cmd.vm].target = cmd.target
      BY <1>0, <3>1 DEF CommandRecorded, Sending, Types, Commands
    <3>3. requested'[v] <= Claim(v)
      BY <1>1, <1>2, <3>1, <3>2
    <3> QED
      BY <1>1, <2>0, <3>1, <3>3, ClaimWithin
  <2> QED
    BY <2>1, <2>2
<1>11. CASE ClearLatch
  <2>1. PICK w \in VMs : intent' = [intent EXCEPT ![w] = None]
    BY <1>11 DEF ClearLatch
  <2>2. UNCHANGED deviceVars
    BY <1>11 DEF ClearLatch
  <2>3. intent'[v] = intent[v] \/ intent'[v] = None
    BY <1>2, <2>1
  <2> QED
    BY <1>3, <1>4, <2>2, <2>3
<1>12. CASE GuestPlug
  <2>0. PICK w \in VMs : /\ ~paused[w] /\ current'[w] <= Request(w)
                         /\ \A x \in VMs \ {w} : current'[x] = current[x]
                         /\ requested' = requested
    BY <1>0, <1>12, PlugWithin
  <2>1. requested' = requested /\ intent' = intent
        /\ (current'[v] <= requested[v] \/ current'[v] = current[v])
    <3>1. Request(w) = requested[w]
      BY <2>0, RequestApart
    <3> QED
      BY <1>12, <2>0, <3>1, WorldFacts DEF World
  <2>2. current'[v] \in Nat
    BY DEF Types, Devices
  <2> QED
    BY <1>1, <2>1, <2>2, ClaimWithin
<1>13. CASE GuestUnplug \/ DeviceReset
  <2>1. requested' = requested /\ intent' = intent /\ current'[v] <= current[v]
    BY <1>0, <1>1, <1>13, UnplugSmaller, WorldFacts DEF World
  <2>2. current'[v] \in Nat
    BY DEF Types, Devices
  <2> QED
    BY <1>1, <2>1, <2>2, ClaimWithin
<1>14. CASE LateApply
  <2>1. PICK w \in VMs : /\ late[w] # None /\ requested'[w] = late[w]
                         /\ \A x \in VMs \ {w} : requested'[x] = requested[x]
                         /\ current' = current
    BY <1>0, <1>14, LateLands
  <2>2. intent' = intent
    BY <1>14, WorldFacts DEF World
  <2>3. intent[w] # None /\ intent[w].target = late[w]
    BY <2>1 DEF Recorded, LateRecorded
  <2>4. requested'[v] <= Claim(v)
    BY <1>1, <2>1, <2>3
  <2> QED
    BY <1>1, <2>1, <2>2, <2>4, ClaimWithin
<1>15. CASE Widens
  BY <1>3, <1>4, <1>15, WidensFacts
<1> QED
  BY <1>5, <1>6, <1>7, <1>8, <1>9, <1>10, <1>11, <1>12, <1>13, <1>14, <1>15 DEF Next, Widens
\* A round observes before it grants.
LEMMA ObservingStep == ASSUME Next, Observing' PROVE Observing \/ EndRound \/ Crash
<1> USE DEF deviceVars, checkpointVars, processVars, roundVars
<1>1. CASE \/ ObserveUnreadable \/ ObserveStopped \/ ObserveHeld \/ ObserveReady
           \/ ObserveSettle \/ ObserveExtend \/ ObserveTimeout \/ WidenStart \/ ReadGuest
           \/ Allocate
  BY <1>1 DEF ObserveUnreadable, ObserveStopped, ObserveHeld, ObserveReady, ObserveSettle,
       ObserveExtend, ObservePending, ObserveTimeout, WidenStart, ReadGuest, Allocate, Observing,
       Widening
<1>2. CASE ActNothing \/ ActCommand
  BY <1>2 DEF ActNothing, ActCommand, Acting, Observing, Sending, Widening
<1>3. CASE SinkPass \/ SinkReject \/ SinkApply \/ SinkUnknown
  BY <1>3 DEF SinkPass, SinkReject, SinkApply, SinkUnknown, Continue, Observing, Sending,
       Widening
<1>4. CASE Start \/ ClearLatch
  BY <1>4 DEF Start, ClearLatch, Observing
<1>5. CASE World
  BY <1>5, WorldFacts DEF Observing, Sending, Widening
<1>6. CASE Widens
  BY <1>6, WidensFacts DEF Observing
<1> QED
  BY <1>1, <1>2, <1>3, <1>4, <1>5, <1>6 DEF Next, World, Widens

LEMMA ChargedFirstStep ==
  ASSUME Recorded, Types', ChargedFirst, Next, "unreadable" \notin Faults
  PROVE  ChargedFirst'
<1> USE DEF deviceVars, checkpointVars, processVars, roundVars
<1> SUFFICES ASSUME Observing', NEW v \in VMs, observed'[v].charge # None
             PROVE  Claim(v)' <= observed'[v].charge
  BY DEF ChargedFirst
<1>0. Types /\ turn \in VMs
  BY DEF Recorded, Types, Observations
<1>1. CASE ActCommand
  <2>1. phase' = "check" /\ cmd'.kind = "resize"
    BY <1>0, <1>1, ActFacts
  <2> QED
    BY <2>1 DEF Observing, Widening
<1>2. CASE EndRound \/ Crash
  BY <1>2 DEF EndRound, Crash, NewRound, Held
<1>3. CASE ~ActCommand /\ ~EndRound /\ ~Crash
  <2>1. Claim(v)' \in Nat /\ Claim(v)' <= Claim(v) /\ Claim(v) \in Nat
    BY <1>0, <1>3, ClaimsShrink, ClaimFacts
  <2>2. observed'[v].charge \in Nat
    BY DEF Types, Observations
  <2>3. CASE observed'[v] = observed[v]
    <3>1. Observing
      BY <1>3, ObservingStep
    <3> QED
      BY <2>1, <2>2, <2>3, <3>1 DEF ChargedFirst
  <2>4. CASE v = turn /\ observed'[v] = Held(Charge)
    <3>1. observed'[v].charge = greatest(Holding(v), Target(v))
      BY <2>4 DEF Held, Charge
    <3>2. /\ requested[v] \in Nat /\ current[v] \in Nat /\ Request(v) \in Nat
          /\ requested[v] <= Request(v)
      <4>1. /\ requested[v] \in Nat /\ current[v] \in Nat /\ Request(v) \in Nat
            /\ Device[v] \in Nat
        BY <1>0, RequestFacts, Constants
      <4>2. Request(v) = requested[v] \/ (Request(v) = Device[v] /\ requested[v] < Device[v])
        BY DEF Request, Recorded, WholeApart
      <4> QED
        BY <4>1, <4>2
    <3>3. Target(v) \in Nat
      BY <1>0 DEF Types, Known, Intents, Target
    <3>4. Claim(v) <= observed'[v].charge /\ observed'[v].charge \in Nat
      BY <3>1, <3>2, <3>3 DEF Claim, Kept, Holding, greatest
    <3> QED
      BY <2>1, <3>4
  <2>5. CASE ObserveUnreadable /\ v = turn /\ observed'[v] = Held(last_charge[v])
    BY <2>5 DEF ObserveUnreadable, Held
  <2>6. CASE ObserveReady /\ v = turn /\ observed'[v].charge = current[v]
    <3>1. /\ UNCHANGED <<requested, current>> /\ Request(v) = current[v]
          /\ Resolve /\ (intent[v] = None \/ Reached)
      BY <2>6 DEF ObserveReady, AtRest, Diverged, deviceVars
    <3>2. intent'[v] = None
      BY <1>0, <2>6, <3>1 DEF Resolve, Types, Known
    <3>3. requested[v] = current[v] /\ current[v] \in Nat
      BY <1>0, <3>1, RequestApart, RequestFacts
    <3> QED
      BY <2>6, <3>1, <3>2, <3>3, ClaimWithin
  <2>7. CASE ReadGuest /\ v = turn /\ observed'[v].charge = observed[v].charge
    <3>1. Observing
      BY <2>7 DEF ReadGuest, Observing, Widening
    <3> QED
      BY <2>1, <2>2, <2>7, <3>1 DEF ChargedFirst
  <2> QED
    BY <1>0, <2>3, <2>4, <2>5, <2>6, <2>7, ObservedStep DEF Held
<1> QED
  BY <1>1, <1>2, <1>3
\* The ceilings promise no more than the pool has: if what is charged leaves nothing, no
\* ceiling is above a charge; if it leaves something, every VM was charged what it claims.
LEMMA AllocateShares ==
  ASSUME Types, Types', ChargedFirst, PoolShared, Allocate
  PROVE  PoolShared'
<1> DEFINE members == [v \in VMs |-> pool_member(v)]
           charged == [v \in VMs |-> members[v].charged]
           given == [v \in VMs |-> saturating_sub(ceilings'[v], members[v].charged)]
           claims == [v \in VMs |-> Claim(v)]
           promises == [v \in VMs |-> Promised(v)']
           both == [v \in VMs |-> charged[v] + given[v]]
<1>1. /\ ceilings' = allocate_pool(members) /\ phase = "allocate" /\ phase' = "act"
      /\ UNCHANGED <<requested, current, intent, observed>>
  BY DEF Allocate, deviceVars, checkpointVars
<1>2. /\ members \in [VMs -> Member]
      /\ \A v \in VMs : members[v].charged = IF observed[v].charge = None THEN Pool
                                             ELSE observed[v].charge
  BY Members
<1> HIDE DEF members
<1>3. /\ ceilings' \in [VMs -> Nat]
      /\ Total(given) <= saturating_sub(Pool, Total(charged))
  BY <1>1, <1>2, AllocateBounds
<1>4. charged \in [VMs -> Nat] /\ given \in [VMs -> Nat] /\ 1 \in VMs
  <2>1. ASSUME NEW v \in VMs
        PROVE  /\ members[v].charged \in Nat
               /\ saturating_sub(ceilings'[v], members[v].charged) \in Nat
    <3>1. members[v].charged \in Nat /\ ceilings'[v] \in Nat
      BY <1>2, <1>3 DEF Member
    <3> QED
      BY <3>1 DEF saturating_sub
  <2> QED
    BY <2>1
<1>5. \A v \in VMs : Claim(v)' = Claim(v)
  BY <1>1 DEF Claim, Kept, Target
<1>6. claims \in [VMs -> Nat] /\ Total(claims) <= Pool
  BY ClaimFacts DEF PoolShared
<1>7. promises \in [VMs -> Nat]
  <2> SUFFICES ASSUME NEW v \in VMs PROVE Promised(v)' \in Nat
    OBVIOUS
  <2>1. Claim(v) \in Nat /\ ceilings'[v] \in Nat
    BY <1>3, ClaimFacts
  <2> QED
    BY <1>5, <2>1 DEF Promised, greatest
<1>8. \A v \in VMs : charged[v] = members[v].charged
                     /\ given[v] = saturating_sub(ceilings'[v], charged[v])
  OBVIOUS
<1>9. \A v \in VMs : \/ Promised(v)' = Claim(v)
                     \/ /\ observed[v].op # "Held" /\ ceilings'[v] > observed[v].charge
                        /\ Promised(v)' = greatest(Claim(v), ceilings'[v])
  BY <1>1, <1>5 DEF Promised
<1>10. \A v \in VMs : observed[v].op # "Held" => charged[v] = observed[v].charge
                                                 /\ observed[v].charge \in Nat
  BY <1>2, <1>8, Constants DEF Types, Observations, Aligned
<1> HIDE DEF charged, given
<1>11. Total(charged) \in Nat /\ Total(given) \in Nat
  BY <1>4, TotalMember
<1>12. CASE Total(charged) >= Pool
  <2>1. Total(given) <= 0
    BY <1>3, <1>11, <1>12, Constants DEF saturating_sub
  <2>2. ASSUME NEW v \in VMs PROVE Promised(v)' = Claim(v)
    <3>1. given[v] <= Total(given) /\ given[v] \in Nat
      BY <1>4, TotalMember
    <3>2. given[v] = 0
      BY <1>11, <2>1, <3>1
    <3>3. charged[v] \in Nat /\ ceilings'[v] \in Nat
      BY <1>3, <1>4
    <3>4. ~(ceilings'[v] > charged[v])
      BY <1>8, <3>2, <3>3 DEF saturating_sub
    <3> QED
      BY <1>9, <1>10, <3>4
  <2>3. promises = claims
    BY <2>2
  <2>4. [v \in VMs |-> Claim(v)'] = claims
    BY <1>5
  <2> QED
    BY <1>6, <2>3, <2>4 DEF PoolShared
<1>13. CASE Total(charged) < Pool
  <2>1. \A v \in VMs : observed[v].charge # None /\ charged[v] = observed[v].charge
    <3> SUFFICES ASSUME NEW v \in VMs
                 PROVE  observed[v].charge # None /\ charged[v] = observed[v].charge
      OBVIOUS
    <3>1. charged[v] <= Total(charged) /\ charged[v] \in Nat
      BY <1>4, TotalMember
    <3>2. charged[v] # Pool
      BY <1>11, <1>13, <3>1, Constants
    <3> QED
      BY <1>2, <1>8, <3>2
  <2>2. \A v \in VMs : Claim(v) <= charged[v]
    BY <1>1, <2>1 DEF ChargedFirst, Observing
  <2>3. both \in [VMs -> Nat] /\ \A v \in VMs : both[v] = charged[v] + given[v]
    BY <1>4
  <2>4. \A v \in VMs : promises[v] <= both[v]
    <3> SUFFICES ASSUME NEW v \in VMs PROVE Promised(v)' <= charged[v] + given[v]
      BY <2>3
    <3>1. charged[v] \in Nat /\ given[v] \in Nat /\ ceilings'[v] \in Nat /\ Claim(v) \in Nat
      BY <1>3, <1>4, ClaimFacts
    <3>2. Claim(v) <= charged[v]
      BY <2>2
    <3>3. CASE Promised(v)' = Claim(v)
      BY <3>1, <3>2, <3>3
    <3>4. CASE /\ ceilings'[v] > charged[v]
               /\ Promised(v)' = greatest(Claim(v), ceilings'[v])
      BY <1>8, <3>1, <3>2, <3>4 DEF greatest, saturating_sub
    <3> QED
      BY <1>9, <1>10, <3>3, <3>4
  <2> HIDE DEF both
  <2>5. Total(both) = Total(charged) + Total(given)
    BY <1>4, <2>3, SizesSum
  <2> HIDE DEF promises
  <2>6. Total(promises) <= Total(both)
    BY <1>7, <2>3, <2>4, SizesOrder
  <2>7. Total(promises) \in Nat
    BY <1>7, <2>3, <2>4, SizesOrder
  <2>8. Total(promises) <= Pool
    BY <1>3, <1>11, <1>13, <2>5, <2>6, <2>7, Constants DEF saturating_sub
  <2>9. [v \in VMs |-> Claim(v)'] = claims
    BY <1>5
  <2> QED
    BY <1>6, <2>8, <2>9 DEF PoolShared, promises
<1> QED
  BY <1>11, <1>12, <1>13, Constants

\* A VM's promise covers its claim after its command.
LEMMA CommandShares ==
  ASSUME Types, Types', ReadyUnchanged, PoolShared, ActCommand
  PROVE  PoolShared'
<1> DEFINE promises == [v \in VMs |-> Promised(v)]
           next == [v \in VMs |-> Promised(v)']
           claims == [v \in VMs |-> Claim(v)']
<1>1. PICK v \in VMs, target \in Nat, growth \in Nat, i \in Intents :
        /\ observed[v].op # "Held" /\ observed[v].charge \in Nat
        /\ i.target = target
        /\ \/ /\ observed[v].op = "Add" /\ target = observed[v].charge + growth /\ growth > 0
              /\ target <= ceilings[v]
           \/ target < observed[v].charge
        /\ phase = "act" /\ phase' = "check"
        /\ intent' = [intent EXCEPT ![v] = i]
        /\ observed' = [observed EXCEPT ![v] = Held(None)]
        /\ UNCHANGED <<requested, current, ceilings>>
  BY ActFacts DEF deviceVars
<1>2. \A w \in VMs : /\ Promised(w) \in Nat /\ Claim(w) <= Promised(w) /\ Claim(w) \in Nat
                     /\ Claim(w)' \in Nat
  <2> SUFFICES ASSUME NEW w \in VMs
               PROVE  /\ Promised(w) \in Nat /\ Claim(w) <= Promised(w) /\ Claim(w) \in Nat
                      /\ Claim(w)' \in Nat
    OBVIOUS
  <2>1. requested'[w] \in Nat /\ current'[w] \in Nat
        /\ (intent'[w] # None => intent'[w].target \in Nat)
    BY DEF Types, Devices, Known, Intents
  <2>2. Claim(w)' \in Nat
    BY <2>1 DEF Claim, Kept, Target, greatest
  <2> QED
    BY <2>2, PromisedFacts, ClaimFacts
<1>3. \A w \in VMs \ {v} : Promised(w)' = Promised(w) /\ Claim(w)' = Claim(w)
  <2> SUFFICES ASSUME NEW w \in VMs \ {v}
               PROVE  Promised(w)' = Promised(w) /\ Claim(w)' = Claim(w)
    OBVIOUS
  <2>1. intent'[w] = intent[w] /\ observed'[w] = observed[w]
    BY <1>1 DEF Types, Known, Observations
  <2>2. Claim(w)' = Claim(w)
    BY <1>1, <2>1 DEF Claim, Kept, Target
  <2> QED
    BY <1>1, <2>1, <2>2 DEF Promised
<1>4. Promised(v)' = Claim(v)'
  <2>1. observed'[v].op = "Held"
    BY <1>1 DEF Held, Types, Observations
  <2> QED
    BY <2>1 DEF Promised
<1>5. Claim(v)' <= Promised(v)
  <2>1. intent'[v].target = target
    BY <1>1 DEF Types, Known
  <2>2. /\ requested[v] \in Nat /\ current[v] \in Nat /\ ceilings[v] \in Nat
        /\ requested[v] <= Claim(v) /\ current[v] <= Claim(v)
    <3>1. /\ requested[v] \in Nat /\ current[v] \in Nat /\ Claim(v) \in Nat
          /\ Kept(v) \in Nat /\ requested[v] <= Kept(v) /\ current[v] <= Kept(v)
          /\ Kept(v) <= Claim(v)
      BY ClaimFacts
    <3>2. ceilings[v] \in Nat
      BY DEF Types, Allocated
    <3> QED
      BY <3>1, <3>2
  <2>3. target <= Promised(v)
    <3>1. CASE target < observed[v].charge
      <4>1. requested[v] = observed[v].charge
        BY <1>1 DEF ReadyUnchanged
      <4> QED
        BY <1>1, <1>2, <2>2, <3>1, <4>1
    <3>2. CASE /\ observed[v].op = "Add" /\ target = observed[v].charge + growth /\ growth > 0
               /\ target <= ceilings[v]
      <4>1. ceilings[v] > observed[v].charge
        BY <1>1, <2>2, <3>2
      <4>2. ceilings[v] <= Promised(v)
        BY <3>2, <4>1, PromisedFacts
      <4> QED
        BY <1>2, <2>2, <3>2, <4>2
    <3> QED
      BY <1>1, <3>1, <3>2
  <2>4. requested'[v] <= Promised(v) /\ current'[v] <= Promised(v)
    BY <1>1, <1>2, <2>2
  <2> QED
    BY <1>2, <2>1, <2>3, <2>4, ClaimWithin
<1>6. Total(promises) <= Pool
  BY <1>1 DEF PoolShared, Granting
<1>7. promises \in [VMs -> Nat] /\ next \in [VMs -> Nat] /\ claims \in [VMs -> Nat]
  <2> SUFFICES ASSUME NEW w \in VMs
               PROVE  Promised(w) \in Nat /\ Promised(w)' \in Nat /\ Claim(w)' \in Nat
    OBVIOUS
  <2> QED
    BY <1>2, <1>3, <1>4
<1>8. \A w \in VMs : next[w] <= promises[w] /\ claims[w] <= promises[w]
  <2> SUFFICES ASSUME NEW w \in VMs
               PROVE  Promised(w)' <= Promised(w) /\ Claim(w)' <= Promised(w)
    OBVIOUS
  <2>1. CASE w = v
    BY <1>4, <1>5, <2>1
  <2>2. CASE w # v
    BY <1>2, <1>3, <2>2
  <2> QED
    BY <2>1, <2>2
<1> HIDE DEF promises, next, claims
<1>9. Total(next) <= Total(promises) /\ Total(claims) <= Total(promises)
  BY <1>7, <1>8, SizesOrder
<1>10. Total(next) \in Nat /\ Total(claims) \in Nat /\ Total(promises) \in Nat
  BY <1>7, <1>8, SizesOrder
<1>11. Total(next) <= Pool /\ Total(claims) <= Pool
  BY <1>6, <1>9, <1>10, Constants
<1> QED
  BY <1>11 DEF PoolShared, next, claims

\* No other step claims more, nor promises more while the round grants.
LEMMA GrantingStep ==
  ASSUME Types, Next, Granting', ~Allocate
  PROVE  Granting /\ ceilings' = ceilings
<1> USE DEF deviceVars, checkpointVars, processVars, roundVars
<1>1. CASE \/ ObserveUnreadable \/ ObserveStopped \/ ObserveHeld \/ ObserveReady
           \/ ObserveTimeout \/ WidenStart \/ ReadGuest
  BY <1>1 DEF ObserveUnreadable, ObserveStopped, ObserveHeld, ObserveReady, ObserveTimeout,
       WidenStart, ReadGuest, Advance, Granting, Sending
<1>2. CASE ObserveSettle \/ ObserveExtend
  <2>1. phase' = "check" /\ cmd'.kind # "resize"
    BY <1>2, PendingFacts
  <2> QED
    BY <2>1 DEF Granting
<1>3. CASE ActNothing \/ ActCommand
  BY <1>3 DEF ActNothing, ActCommand, Acting, Granting
<1>4. CASE SinkPass \/ SinkReject \/ SinkApply \/ SinkUnknown
  BY <1>4 DEF SinkPass, SinkReject, SinkApply, SinkUnknown, Continue, Advance, Granting, Sending
<1>5. CASE Start \/ ClearLatch
  BY <1>5 DEF Start, ClearLatch, Granting, Sending
<1>7. CASE World \/ Widens
  BY <1>7, WorldFacts, WidensFacts DEF Granting, Sending
<1>6. CASE EndRound \/ Crash
  BY <1>6 DEF EndRound, Crash, NewRound, Granting, Sending
<1> QED
  BY <1>1, <1>2, <1>3, <1>4, <1>5, <1>6, <1>7 DEF Next, World, Widens

LEMMA PoolSharedStep ==
  ASSUME PoolInv, Types', Next PROVE PoolShared'
<1>1. CASE Allocate
  BY <1>1, AllocateShares DEF PoolInv, Recorded
<1>2. CASE ActCommand
  BY <1>2, CommandShares DEF PoolInv, Recorded
<1>3. CASE ~Allocate /\ ~ActCommand
  <2> DEFINE claims == [v \in VMs |-> Claim(v)]
             promises == [v \in VMs |-> Promised(v)]
             nextClaims == [v \in VMs |-> Claim(v)']
             nextPromises == [v \in VMs |-> Promised(v)']
  <2>1. Types /\ Recorded
    BY DEF PoolInv, Recorded
  <2>2. \A v \in VMs : Claim(v)' \in Nat /\ Claim(v)' <= Claim(v) /\ Claim(v) \in Nat
    BY <1>3, <2>1, ClaimsShrink, ClaimFacts
  <2>3. Total(nextClaims) <= Pool
    <3>1. nextClaims \in [VMs -> Nat] /\ claims \in [VMs -> Nat]
      BY <2>2
    <3>2. \A v \in VMs : nextClaims[v] <= claims[v]
      BY <2>2
    <3>3. Total(claims) <= Pool
      BY DEF PoolInv, PoolShared
    <3> HIDE DEF nextClaims, claims
    <3>4. Total(nextClaims) <= Total(claims) /\ Total(nextClaims) \in Nat /\ Total(claims) \in Nat
      BY <3>1, <3>2, SizesOrder
    <3> QED
      BY <3>3, <3>4, Constants
  <2>4. ASSUME Granting' PROVE Total(nextPromises) <= Pool
    <3>1. Granting /\ ceilings' = ceilings
      BY <1>3, <2>1, <2>4, GrantingStep
    <3>2. ASSUME NEW v \in VMs PROVE Promised(v)' \in Nat /\ Promised(v)' <= Promised(v)
      <4>1. /\ Claim(v)' \in Nat /\ Claim(v)' <= Claim(v) /\ Claim(v) \in Nat
            /\ ceilings[v] \in Nat /\ Promised(v) \in Nat /\ Claim(v) <= Promised(v)
        BY <2>1, <2>2, PromisedFacts DEF Types, Allocated
      <4>2. observed'[v] = observed[v] \/ observed'[v].op # "Add"
        <5>1. ~ObserveReady
          BY <3>1 DEF ObserveReady, Granting, Sending
        <5>2. \A c : Held(c).op = "Held"
          BY DEF Held
        <5>3. ~ReadGuest
          BY <3>1 DEF ReadGuest, Granting, Sending
        <5> QED
          BY <2>1, <5>1, <5>2, <5>3, ObservedStep
      <4> QED
        BY <3>1, <4>1, <4>2 DEF Promised, greatest
    <3>3. nextPromises \in [VMs -> Nat] /\ promises \in [VMs -> Nat]
      BY <2>1, <3>2, PromisedFacts
    <3>4. \A v \in VMs : nextPromises[v] <= promises[v]
      BY <3>2
    <3>5. Total(promises) <= Pool
      BY <3>1 DEF PoolInv, PoolShared
    <3> HIDE DEF nextPromises, promises
    <3>6. Total(nextPromises) <= Total(promises)
          /\ Total(nextPromises) \in Nat /\ Total(promises) \in Nat
      BY <3>3, <3>4, SizesOrder
    <3> QED
      BY <3>5, <3>6, Constants
  <2> QED
    BY <2>3, <2>4 DEF PoolShared
<1> QED
  BY <1>1, <1>2, <1>3
LEMMA PoolInit == Init => PoolInv
<1> SUFFICES ASSUME Init PROVE PoolInv
  OBVIOUS
<1>1. Types /\ Recorded
  BY TypesInit, RecordedInit
<1>2. ChargedFirst
  BY DEF Init, Held, ChargedFirst
<1>3. PoolShared
  <2>1. \A v \in VMs : Claim(v) = requested[v]
    <3> SUFFICES ASSUME NEW v \in VMs PROVE Claim(v) = requested[v]
      OBVIOUS
    <3>1. requested[v] \in Nat /\ current[v] = requested[v] /\ intent[v] = None
      BY <1>1 DEF Init, Types, Devices
    <3> QED
      BY <3>1 DEF Claim, Kept, Target, greatest
  <2>2. requested = [v \in VMs |-> requested[v]] /\ Total(requested) <= Pool
    BY DEF Init
  <2>3. [v \in VMs |-> Claim(v)] = requested
    BY <2>1, <2>2
  <2>4. ~Granting
    BY DEF Init, Granting, Sending
  <2> QED
    BY <2>2, <2>3, <2>4 DEF PoolShared
<1> QED
  BY <1>1, <1>2, <1>3 DEF PoolInv

LEMMA PoolStep ==
  ASSUME {"unreadable", "hasty"} \cap Faults = {} PROVE PoolInv /\ [Next]_vars => PoolInv'
<1> SUFFICES ASSUME PoolInv, [Next]_vars PROVE PoolInv'
  OBVIOUS
<1>1. Types' /\ Recorded /\ Recorded'
  BY TypesStep, RecordedStep DEF PoolInv, Recorded
<1>2. CASE Next
  <2>1. ChargedFirst'
    BY <1>1, <1>2, ChargedFirstStep DEF PoolInv
  <2>2. PoolShared'
    BY <1>1, <1>2, PoolSharedStep
  <2> QED
    BY <1>1, <2>1, <2>2 DEF PoolInv
<1>3. CASE UNCHANGED vars
  <2> USE DEF vars, deviceVars, checkpointVars, processVars, roundVars
  <2>1. ChargedFirst'
    BY <1>3 DEF PoolInv, ChargedFirst, Observing, Widening, Sending, Claim, Kept, Target
  <2>2. PoolShared'
    BY <1>3 DEF PoolInv, PoolShared, Granting, Sending, Promised, Claim, Kept, Target
  <2> QED
    BY <1>1, <2>1, <2>2 DEF PoolInv
<1> QED
  BY <1>2, <1>3

\* A guest that runs occupies no more than it keeps.
LEMMA OccupiedFacts ==
  ASSUME Recorded, NEW v \in VMs
  PROVE  Occupied(v) \in Nat /\ Kept(v) \in Nat /\ Occupied(v) <= Kept(v)
<1>1. requested[v] \in Nat /\ current[v] \in Nat
  BY RequestFacts DEF Recorded
<1>2. CASE paused[v]
  BY <1>1, <1>2 DEF Occupied, Kept, greatest
<1>3. CASE ~paused[v]
  <2>1. Request(v) = requested[v]
    BY <1>3, RequestApart
  <2> QED
    BY <1>1, <1>3, <2>1 DEF Occupied, Holding, Kept, greatest
<1> QED
  BY <1>2, <1>3

\* Claims cover what the VMs occupy.
LEMMA PoolImplied == PoolInv => PoolRespected
<1> SUFFICES ASSUME PoolInv PROVE PoolRespected
  OBVIOUS
<1> DEFINE sizes == [v \in VMs |-> Occupied(v)]
           claims == [v \in VMs |-> Claim(v)]
<1>1. ASSUME NEW v \in VMs
      PROVE  Occupied(v) \in Nat /\ Claim(v) \in Nat /\ Occupied(v) <= Claim(v)
  <2>1. Recorded /\ Types
    BY DEF PoolInv, Recorded
  <2>2. Occupied(v) \in Nat /\ Kept(v) \in Nat /\ Occupied(v) <= Kept(v)
    BY <2>1, OccupiedFacts
  <2>3. Claim(v) \in Nat /\ Kept(v) <= Claim(v)
    BY <2>1, ClaimFacts
  <2> QED
    BY <2>2, <2>3
<1>2. sizes \in [VMs -> Nat] /\ claims \in [VMs -> Nat]
      /\ \A v \in VMs : sizes[v] <= claims[v]
  BY <1>1
<1>3. Total(claims) <= Pool
  BY DEF PoolInv, PoolShared
<1> HIDE DEF sizes, claims
<1>4. Total(sizes) \in Nat /\ Total(claims) \in Nat /\ Total(sizes) <= Total(claims)
  BY <1>2, SizesOrder
<1>5. Total(sizes) <= Pool
  BY <1>3, <1>4, Constants
<1> QED
  BY <1>5 DEF PoolRespected, sizes

\* The pool is never overdrawn, whatever the guests, the refusals of libvirt, the unknown
\* outcomes, the commands that land rounds later, the widenings cut off anywhere, a lost
\* allocation and the crashes of the daemon interleave to, as long as no VM that was read
\* before becomes unreadable later (the charge such a VM keeps may be smaller than what was
\* asked of it since: the run round_stale_charge), and no latch is cleared while a command
\* nobody answered may still be carried out.
THEOREM PoolNeverOverdrawn ==
  {"unreadable", "hasty"} \cap Faults = {} => (Spec => []PoolRespected)
<1> SUFFICES ASSUME {"unreadable", "hasty"} \cap Faults = {} PROVE Spec => []PoolRespected
  OBVIOUS
<1>1. PoolInv /\ [Next]_vars => PoolInv'
  BY PoolStep
<1> QED
  BY <1>1, PoolInit, PoolImplied, PTL DEF Spec
-----------------------------------------------------------------------------
\* The reserve.  A VM reaches what it holds and the target of a command for it that is on
\* its way to libvirt or may still be carried out there; the growth the daemon counts covers
\* what it reaches.

Resizing(v) == Sending /\ cmd.kind = "resize" /\ cmd.vm = v
Coming(v) == IF Resizing(v) THEN cmd.target ELSE IF late[v] # None THEN late[v] ELSE 0
Reach(v) == greatest(Kept(v), Coming(v))
Growth(v) == IF outstanding_growth[v] = None THEN 0 ELSE outstanding_growth[v]

GrowthCounted ==
  \A v \in VMs : outstanding_growth[v] # None => Reach(v) <= current[v] + outstanding_growth[v]
Resting(v) == observed[v].op # "Held" \/ (Widening /\ turn = v) \/ Resizing(v)
AtRestAll == \A v \in VMs : Resting(v) => requested[v] = current[v]
RetargetsWithin ==
  /\ phase = "check" /\ cmd.kind = "settle" => cmd.target = cmd.seen[2]
  /\ phase = "check" /\ cmd.kind = "extend" => cmd.target <= cmd.seen[1]
  /\ phase = "apply" /\ cmd.kind # "resize" => cmd.target <= Kept(cmd.vm)
GrowthCommitted ==
  Granting => \/ committed >= HostTotal
              \/ /\ \A v \in VMs : outstanding_growth[v] # None
                 /\ Total([v \in VMs |-> Growth(v)]) <= committed
ReserveLeft == Total([v \in VMs |-> Reach(v)]) <= HostTotal - Reserve

ReserveInv ==
  Recorded /\ GrowthCounted /\ AtRestAll /\ RetargetsWithin /\ GrowthCommitted /\ ReserveLeft

LEMMA ReachFacts ==
  ASSUME Types, NEW v \in VMs
  PROVE  /\ requested[v] \in Nat /\ current[v] \in Nat /\ Kept(v) \in Nat /\ Reach(v) \in Nat
         /\ requested[v] <= Kept(v) /\ current[v] <= Kept(v) /\ Kept(v) <= Reach(v)
         /\ Kept(v) = requested[v] \/ Kept(v) = current[v]
         /\ Resizing(v) => cmd.target \in Nat /\ cmd.target <= Reach(v)
         /\ late[v] # None => late[v] \in Nat /\ (Resizing(v) \/ late[v] <= Reach(v))
         /\ ~Resizing(v) /\ late[v] = None => Reach(v) = Kept(v)
         /\ outstanding_growth[v] = None \/ outstanding_growth[v] \in Nat
         /\ Growth(v) \in Nat
<1>1. requested[v] \in Nat /\ current[v] \in Nat /\ (late[v] # None => late[v] \in Nat)
  BY DEF Types, Devices
<1>2. /\ Kept(v) \in Nat /\ requested[v] <= Kept(v) /\ current[v] <= Kept(v)
      /\ Kept(v) = requested[v] \/ Kept(v) = current[v]
  BY <1>1 DEF Kept, greatest
<1>3. Resizing(v) => cmd.target \in Nat
  BY DEF Resizing, Sending, Types, Commands
<1>4. /\ Coming(v) \in Nat
      /\ Resizing(v) => Coming(v) = cmd.target
      /\ ~Resizing(v) /\ late[v] # None => Coming(v) = late[v]
      /\ ~Resizing(v) /\ late[v] = None => Coming(v) = 0
  BY <1>1, <1>3 DEF Coming
<1>5. /\ Reach(v) \in Nat /\ Kept(v) <= Reach(v) /\ Coming(v) <= Reach(v)
      /\ Coming(v) = 0 => Reach(v) = Kept(v)
  BY <1>2, <1>4 DEF Reach, greatest
<1>6. outstanding_growth[v] = None \/ outstanding_growth[v] \in Nat
  BY DEF Types, Known
<1> QED
  BY <1>1, <1>2, <1>3, <1>4, <1>5, <1>6 DEF Growth

\* The same after a step: what bounds a VM's sizes and commands bounds what it reaches.
LEMMA ReachNext ==
  ASSUME Types', NEW v \in VMs
  PROVE  /\ requested'[v] \in Nat /\ current'[v] \in Nat /\ Kept(v)' \in Nat /\ Reach(v)' \in Nat
         /\ Kept(v)' = requested'[v] \/ Kept(v)' = current'[v]
         /\ requested'[v] <= Kept(v)' /\ current'[v] <= Kept(v)'
         /\ outstanding_growth'[v] = None \/ outstanding_growth'[v] \in Nat
         /\ Growth(v)' \in Nat
         /\ \A b \in Nat : /\ requested'[v] <= b /\ current'[v] <= b
                           /\ Resizing(v)' => cmd'.target <= b
                           /\ late'[v] # None => late'[v] <= b
                           => Reach(v)' <= b
<1>1. requested'[v] \in Nat /\ current'[v] \in Nat /\ (late'[v] # None => late'[v] \in Nat)
  BY DEF Types, Devices
<1>2. /\ Kept(v)' \in Nat /\ (Kept(v)' = requested'[v] \/ Kept(v)' = current'[v])
      /\ requested'[v] <= Kept(v)' /\ current'[v] <= Kept(v)'
  BY <1>1 DEF Kept, greatest
<1>3. Resizing(v)' => cmd'.target \in Nat
  BY DEF Resizing, Sending, Types, Commands
<1>4. /\ Coming(v)' \in Nat
      /\ Resizing(v)' => Coming(v)' = cmd'.target
      /\ ~Resizing(v)' /\ late'[v] # None => Coming(v)' = late'[v]
      /\ ~Resizing(v)' /\ late'[v] = None => Coming(v)' = 0
  BY <1>1, <1>3 DEF Coming
<1>5. Reach(v)' \in Nat /\ (Reach(v)' = Kept(v)' \/ Reach(v)' = Coming(v)')
  BY <1>2, <1>4 DEF Reach, greatest
<1>6. outstanding_growth'[v] = None \/ outstanding_growth'[v] \in Nat
  BY DEF Types, Known
<1>7. ASSUME NEW b \in Nat, requested'[v] <= b, current'[v] <= b,
             Resizing(v)' => cmd'.target <= b, late'[v] # None => late'[v] <= b
      PROVE  Reach(v)' <= b
  <2>1. Kept(v)' <= b /\ Coming(v)' <= b
    BY <1>2, <1>4, <1>7
  <2> QED
    BY <1>5, <2>1
<1> QED
  BY <1>1, <1>2, <1>5, <1>6, <1>7 DEF Growth

\* A VM that rests has no command that may come late, and shows what it was asked for.
LEMMA RestingFacts ==
  ASSUME Recorded, AtRestAll, NEW v \in VMs, Resting(v)
  PROVE  late[v] = None /\ requested[v] = current[v] /\ (Sending /\ cmd.vm = v => Resizing(v))
<1>1. requested[v] = current[v]
  BY DEF AtRestAll
<1>2. CASE observed[v].op # "Held"
  BY <1>1, <1>2 DEF Recorded, LateRecorded, CommandRecorded
<1>3. CASE Widening /\ turn = v
  BY <1>1, <1>3 DEF Recorded, WideningHeld, Widening, Sending
<1>4. CASE Resizing(v)
  BY <1>1, <1>4 DEF Recorded, LateRecorded, Resizing
<1> QED
  BY <1>2, <1>3, <1>4 DEF Resting

\* Every step but a command's lets a VM reach no more, and the growth counted covers it.
LEMMA ReachShrinks ==
  ASSUME ReserveInv, Types', Next, ~ActCommand, "reset" \notin Faults, "race" \notin Faults,
         NEW v \in VMs
  PROVE  /\ Reach(v)' <= Reach(v)
         /\ outstanding_growth'[v] # None => Reach(v)' <= current'[v] + outstanding_growth'[v]
<1> USE DEF deviceVars, checkpointVars, processVars, roundVars
<1>1. Recorded /\ Types /\ GrowthCounted /\ AtRestAll /\ RetargetsWithin
  BY DEF ReserveInv, Recorded
<1>2. /\ requested[v] \in Nat /\ current[v] \in Nat /\ Kept(v) \in Nat /\ Reach(v) \in Nat
      /\ requested[v] <= Kept(v) /\ current[v] <= Kept(v) /\ Kept(v) <= Reach(v)
      /\ Kept(v) = requested[v] \/ Kept(v) = current[v]
      /\ Resizing(v) => cmd.target \in Nat /\ cmd.target <= Reach(v)
      /\ late[v] # None => late[v] \in Nat /\ (Resizing(v) \/ late[v] <= Reach(v))
      /\ ~Resizing(v) /\ late[v] = None => Reach(v) = Kept(v)
      /\ outstanding_growth[v] = None \/ outstanding_growth[v] \in Nat
  BY <1>1, ReachFacts
<1>3. /\ requested'[v] \in Nat /\ current'[v] \in Nat /\ Reach(v)' \in Nat
      /\ outstanding_growth'[v] = None \/ outstanding_growth'[v] \in Nat
  BY ReachNext
<1>4. ASSUME NEW b \in Nat, requested'[v] <= b, current'[v] <= b,
             Resizing(v)' => cmd'.target <= b, late'[v] # None => late'[v] <= b
      PROVE  Reach(v)' <= b
  BY <1>4, ReachNext
<1>5. outstanding_growth[v] # None => Reach(v) <= current[v] + outstanding_growth[v]
  BY <1>1 DEF GrowthCounted
<1>6. turn \in VMs /\ outstanding_growth \in [VMs -> Nat \cup {None}]
      /\ requested \in [VMs -> Nat] /\ late \in [VMs -> Nat \cup {None}]
  BY <1>1 DEF Types, Observations, Known, Devices
<1>7. late[v] # None => ~Resizing(v) /\ late[v] <= Reach(v)
  BY <1>1, <1>2 DEF Recorded, LateRecorded, Resizing
<1>8. ASSUME UNCHANGED <<requested, current, late>>, ~Resizing(v)' \/ (Resizing(v) /\ cmd' = cmd)
      PROVE  Reach(v)' <= Reach(v)
  <2>1. requested'[v] <= Reach(v) /\ current'[v] <= Reach(v)
    BY <1>2, <1>8
  <2>2. Resizing(v)' => cmd'.target <= Reach(v)
    BY <1>2, <1>8
  <2>3. late'[v] # None => late'[v] <= Reach(v)
    BY <1>7, <1>8
  <2> QED
    BY <1>2, <1>4, <2>1, <2>2, <2>3
<1>9. ASSUME Reach(v)' <= Reach(v), current'[v] = current[v],
             outstanding_growth'[v] = outstanding_growth[v] \/ outstanding_growth'[v] = None
      PROVE  outstanding_growth'[v] # None => Reach(v)' <= current'[v] + outstanding_growth'[v]
  BY <1>2, <1>3, <1>5, <1>9
<1>10. ASSUME UNCHANGED <<requested, current, late>>, ~Resizing(v)', Account
       PROVE  outstanding_growth'[v] # None => Reach(v)' <= current'[v] + outstanding_growth'[v]
  <2>1. Reach(v)' <= Reach(v) /\ current'[v] = current[v]
    BY <1>8, <1>10
  <2>2. CASE v # turn
    <3>1. outstanding_growth'[v] = outstanding_growth[v]
      BY <1>6, <1>10, <2>2 DEF Account
    <3> QED
      BY <1>9, <2>1, <3>1
  <2>3. CASE v = turn
    <3> DEFINE wanted == greatest(Request(v), Target(v))
    <3>1. outstanding_growth'[v] = saturating_sub(wanted, current[v])
      BY <1>6, <1>10, <2>3 DEF Account
    <3>2. Request(v) \in Nat /\ requested[v] <= Request(v)
      <4>1. whole[v] => Request(v) = Device[v] /\ requested[v] < Device[v]
        BY <1>1 DEF Recorded, WholeApart, Request
      <4>2. ~whole[v] => Request(v) = requested[v]
        BY DEF Request
      <4> QED
        BY <1>2, <4>1, <4>2, Constants
    <3>3. Target(v) \in Nat /\ (late[v] # None => Target(v) = late[v])
      BY <1>1 DEF Recorded, LateRecorded, Types, Known, Intents, Target
    <3>4. wanted \in Nat /\ requested[v] <= wanted /\ (late[v] # None => late[v] <= wanted)
      BY <1>2, <3>2, <3>3 DEF greatest
    <3> HIDE DEF wanted
    <3>5. outstanding_growth'[v] \in Nat /\ wanted <= current[v] + outstanding_growth'[v]
      BY <1>2, <3>1, <3>4 DEF saturating_sub
    <3> DEFINE bound == current[v] + outstanding_growth'[v]
    <3>6. bound \in Nat /\ requested[v] <= bound /\ current[v] <= bound
          /\ (late[v] # None => late[v] <= bound)
      BY <1>2, <3>4, <3>5
    <3>7. bound = current'[v] + outstanding_growth'[v]
      BY <2>1
    <3> HIDE DEF bound
    <3>8. Reach(v)' <= bound
      BY <1>4, <1>10, <3>6
    <3> QED
      BY <3>7, <3>8
  <2> QED
    BY <2>2, <2>3
<1>11. CASE ObserveUnreadable \/ ReadGuest
  <2>1. UNCHANGED <<requested, current, late>> /\ ~Resizing(v)'
        /\ outstanding_growth' = outstanding_growth
    BY <1>11 DEF ObserveUnreadable, ReadGuest, Advance, Resizing, Sending
  <2> QED
    BY <1>8, <1>9, <2>1
<1>12. CASE ObserveStopped \/ ObserveHeld \/ ObserveReady \/ ObserveTimeout \/ WidenStart
  <2>1. UNCHANGED <<requested, current, late>> /\ ~Resizing(v)' /\ Account
    BY <1>12 DEF ObserveStopped, ObserveHeld, ObserveReady, ObserveTimeout, WidenStart, Advance,
         Resizing, Sending
  <2> QED
    BY <1>8, <1>10, <2>1
<1>13. CASE ObserveSettle \/ ObserveExtend
  <2>1. UNCHANGED <<requested, current, late>> /\ cmd'.kind # "resize" /\ Account
    BY <1>1, <1>13, PendingFacts
  <2>2. ~Resizing(v)'
    BY <2>1 DEF Resizing
  <2> QED
    BY <1>8, <1>10, <2>1, <2>2
<1>14. CASE Allocate \/ ActNothing \/ Start \/ ClearLatch
  <2>1. UNCHANGED <<requested, current, late>> /\ ~Resizing(v)'
        /\ outstanding_growth' = outstanding_growth
    BY <1>14 DEF Allocate, ActNothing, Acting, Start, ClearLatch, Resizing, Sending
  <2> QED
    BY <1>8, <1>9, <2>1
<1>15. CASE EndRound
  <2>1. UNCHANGED <<requested, current, late>> /\ ~Resizing(v)'
        /\ (outstanding_growth'[v] = outstanding_growth[v] \/ outstanding_growth'[v] = None)
    BY <1>15 DEF EndRound, NewRound, Forget, Resizing, Sending
  <2> QED
    BY <1>8, <1>9, <2>1
<1>16. CASE Widens
  <2>1. UNCHANGED <<requested, current, late>> /\ outstanding_growth' = outstanding_growth
    BY <1>16, WidensFacts
  <2>2. ~Resizing(v)'
    BY <1>16, WidensFacts DEF Resizing, Sending
  <2> QED
    BY <1>8, <1>9, <2>1, <2>2
<1>17. CASE SinkPass
  <2>1. UNCHANGED <<requested, current, late>> /\ cmd' = cmd
        /\ outstanding_growth' = outstanding_growth /\ phase = "check"
    BY <1>17 DEF SinkPass
  <2>2. ~Resizing(v)' \/ (Resizing(v) /\ cmd' = cmd)
    BY <2>1 DEF Resizing, Sending
  <2> QED
    BY <1>8, <1>9, <2>1, <2>2
<1>18. CASE SinkReject
  <2>1. /\ UNCHANGED <<requested, current, late>> /\ phase = "check"
        /\ outstanding_growth' = [outstanding_growth EXCEPT ![cmd.vm] =
             IF cmd.kind = "resize" THEN 0 ELSE @]
    BY <1>18 DEF SinkReject
  <2>2. ~Resizing(v)'
    BY <1>18 DEF SinkReject, Continue, Advance, Resizing, Sending
  <2>3. Reach(v)' <= Reach(v)
    BY <1>8, <2>1, <2>2
  <2>4. CASE Resizing(v)
    <3>1. cmd.vm = v /\ outstanding_growth'[v] = 0
      BY <1>6, <2>1, <2>4 DEF Resizing
    <3>2. late[v] = None /\ requested[v] = current[v]
      BY <1>1, <2>4, RestingFacts DEF Resting
    <3>3. Reach(v)' <= current[v]
      BY <1>2, <1>4, <2>1, <2>2, <3>2
    <3> QED
      BY <1>2, <1>3, <2>1, <2>3, <3>1, <3>3
  <2>5. CASE ~Resizing(v)
    <3>1. outstanding_growth'[v] = outstanding_growth[v]
      BY <1>6, <2>1, <2>5 DEF Resizing, Sending
    <3> QED
      BY <1>9, <2>1, <2>3, <3>1
  <2> QED
    BY <2>4, <2>5
<1>19. CASE SinkApply \/ SinkUnknown \/ Crash
  <2>1. ~Resizing(v)'
        /\ (outstanding_growth'[v] = outstanding_growth[v] \/ outstanding_growth'[v] = None)
    BY <1>19 DEF SinkApply, SinkUnknown, Crash, Forget, Continue, Advance, Resizing, Sending
  <2>2. CASE UNCHANGED <<requested, current, late>>
    BY <1>8, <1>9, <2>1, <2>2
  <2>3. CASE ~UNCHANGED <<requested, current, late>>
    <3>1. /\ phase = "apply" /\ current' = current
          /\ \/ requested' = [requested EXCEPT ![cmd.vm] = cmd.target] /\ late' = late
             \/ requested' = requested /\ late' = [late EXCEPT ![cmd.vm] = cmd.target]
      BY <1>19, <2>3, CommandSent
    <3>2. /\ requested'[v] = requested[v] \/ (v = cmd.vm /\ requested'[v] = cmd.target)
          /\ late'[v] = late[v] \/ (v = cmd.vm /\ late'[v] = cmd.target)
      BY <1>6, <3>1
    <3>3. v = cmd.vm => cmd.target <= Reach(v)
      <4>1. CASE v = cmd.vm /\ cmd.kind = "resize"
        BY <1>2, <3>1, <4>1 DEF Resizing, Sending
      <4>2. CASE v = cmd.vm /\ cmd.kind # "resize"
        <5>1. cmd.target <= Kept(v) /\ cmd.target \in Nat
          BY <1>1, <3>1, <4>2 DEF RetargetsWithin, Types, Commands
        <5> QED
          BY <1>2, <5>1
      <4> QED
        BY <4>1, <4>2
    <3>4. /\ requested'[v] <= Reach(v) /\ current'[v] <= Reach(v)
          /\ late'[v] # None => late'[v] <= Reach(v)
      BY <1>2, <1>7, <3>1, <3>2, <3>3
    <3>5. Reach(v)' <= Reach(v)
      BY <1>2, <1>4, <2>1, <3>4
    <3> QED
      BY <1>9, <2>1, <3>1, <3>5
  <2> QED
    BY <2>2, <2>3
<1>20. ASSUME World
       PROVE  /\ outstanding_growth'[v] = outstanding_growth[v] /\ cmd' = cmd
              /\ Resizing(v)' <=> Resizing(v)
  BY <1>20, WorldFacts DEF Resizing, Sending
<1>21. CASE GuestPlug
  <2>1. PICK w \in VMs : /\ ~paused[w] /\ current'[w] <= Request(w)
                         /\ current'[w] = current[w] + Block[w]
                         /\ \A x \in VMs \ {w} : current'[x] = current[x]
                         /\ UNCHANGED <<requested, late>>
    BY <1>1, <1>21, PlugWithin
  <2>2. Request(w) = requested[w]
    BY <1>1, <2>1, RequestApart
  <2>3. current[v] <= current'[v] /\ current'[v] <= Reach(v)
    BY <1>2, <2>1, <2>2, Constants
  <2>4. Reach(v)' <= Reach(v)
    BY <1>2, <1>4, <1>7, <1>20, <1>21, <2>1, <2>3 DEF World
  <2> QED
    BY <1>2, <1>3, <1>5, <1>20, <1>21, <2>3, <2>4 DEF World
<1>22. CASE GuestUnplug
  <2>1. PICK w \in VMs :
          /\ current'[w] <= current[w] /\ ~paused[w]
          /\ Request(w) < current[w] /\ Request(w) <= current'[w]
          /\ Racing(w) => "race" \in Faults
          /\ \A x \in VMs \ {w} : current'[x] = current[x]
          /\ UNCHANGED <<requested, late>>
    BY <1>1, <1>22, UnplugSmaller
  <2>2. current'[v] <= Reach(v)
    BY <1>2, <1>3, <2>1
  <2>3. Reach(v)' <= Reach(v)
    BY <1>2, <1>4, <1>7, <1>20, <1>22, <2>1, <2>2 DEF World
  <2>4. CASE v = w
    <3>1. Request(v) = requested[v]
      BY <1>1, <2>1, <2>4, RequestApart
    <3>2. ~Resizing(v)
      BY <1>1, <1>2, <2>1, <2>4, <3>1, RestingFacts DEF Resting
    <3>3. late[v] # None => late[v] <= current'[v]
      BY <1>2, <1>3, <2>1, <2>4, <3>1 DEF Racing
    <3>4. requested'[v] <= current'[v]
      BY <2>1, <2>4, <3>1
    <3>5. Reach(v)' <= current'[v]
      BY <1>3, <1>4, <1>20, <1>22, <2>1, <3>2, <3>3, <3>4 DEF World
    <3> QED
      BY <1>3, <2>3, <3>5
  <2>5. CASE v # w
    BY <1>9, <1>20, <1>22, <2>1, <2>3, <2>5 DEF World
  <2> QED
    BY <2>4, <2>5
<1>23. CASE LateApply
  <2>1. PICK w \in VMs : /\ late[w] # None /\ requested'[w] = late[w] /\ late'[w] = None
                         /\ \A x \in VMs \ {w} : requested'[x] = requested[x] /\ late'[x] = late[x]
                         /\ UNCHANGED current
    BY <1>1, <1>23, LateLands
  <2>2. requested'[v] <= Reach(v) /\ (late'[v] # None => late'[v] <= Reach(v))
    BY <1>2, <1>7, <2>1
  <2>3. Reach(v)' <= Reach(v)
    BY <1>2, <1>4, <1>20, <1>23, <2>1, <2>2 DEF World
  <2> QED
    BY <1>9, <1>20, <1>23, <2>1, <2>3 DEF World
<1>24. CASE Recover
  <2>1. UNCHANGED <<requested, current, late>>
    BY <1>24 DEF Recover
  <2> QED
    BY <1>8, <1>9, <1>20, <1>24, <2>1 DEF World
<1>25. CASE DeviceReset
  BY <1>25 DEF DeviceReset
<1> QED
  BY <1>11, <1>12, <1>13, <1>14, <1>15, <1>16, <1>17, <1>18, <1>19, <1>21, <1>22, <1>23, <1>24,
     <1>25 DEF Next, Widens

\* A guest's move changes no VM that rests, ...
LEMMA MovesElsewhere ==
  ASSUME Recorded, AtRestAll, World, "reset" \notin Faults, NEW v \in VMs, Resting(v)
  PROVE  requested'[v] = requested[v] /\ current'[v] = current[v]
<1>0. Types
  BY DEF Recorded
<1>1. /\ requested[v] \in Nat /\ current[v] \in Nat /\ late[v] = None
      /\ requested[v] = current[v]
  BY <1>0, RestingFacts DEF Types, Devices
<1>2. CASE GuestPlug
  <2>1. PICK w \in VMs : /\ ~paused[w] /\ current[w] < Request(w)
                         /\ \A x \in VMs \ {w} : current'[x] = current[x]
                         /\ UNCHANGED requested
    BY <1>0, <1>2, PlugWithin
  <2>2. v # w
    BY <1>1, <2>1, RequestApart
  <2> QED
    BY <2>1, <2>2
<1>3. CASE GuestUnplug
  <2>1. PICK w \in VMs : /\ ~paused[w] /\ Request(w) < current[w]
                         /\ \A x \in VMs \ {w} : current'[x] = current[x]
                         /\ UNCHANGED requested
    BY <1>0, <1>3, UnplugSmaller
  <2>2. v # w
    BY <1>1, <2>1, RequestApart
  <2> QED
    BY <2>1, <2>2
<1>4. CASE LateApply
  BY <1>0, <1>1, <1>4, LateLands
<1>5. CASE Recover
  BY <1>5 DEF Recover
<1>6. CASE DeviceReset
  BY <1>6 DEF DeviceReset
<1> QED
  BY <1>2, <1>3, <1>4, <1>5, <1>6 DEF World

\* ... and only its own observation brings a VM to rest.
LEMMA AtRestStep ==
  ASSUME Recorded, AtRestAll, Next, "reset" \notin Faults PROVE AtRestAll'
<1> USE DEF deviceVars, checkpointVars, processVars, roundVars
<1> SUFFICES ASSUME NEW v \in VMs, Resting(v)' PROVE requested'[v] = current'[v]
  BY DEF AtRestAll
<1>0. Types /\ turn \in VMs
  BY DEF Recorded, Types, Observations
<1>1. ASSUME UNCHANGED <<requested, current, late>>, Request(v) = current[v]
      PROVE  requested'[v] = current'[v]
  <2>1. Request(v) = requested[v]
    BY <1>1, RequestApart
  <2> QED
    BY <1>1, <2>1
<1>2. CASE v = turn /\ (ObserveReady \/ WidenStart)
  <2>1. UNCHANGED <<requested, current, late>> /\ AtRest
    BY <1>2 DEF ObserveReady, WidenStart
  <2>2. Request(v) = current[v]
    BY <1>2, <2>1 DEF AtRest, Diverged
  <2> QED
    BY <1>1, <2>1, <2>2
<1>3. CASE ~(v = turn /\ (ObserveReady \/ WidenStart))
  <2>1. Resting(v)
    <3>1. CASE observed'[v].op # "Held"
      <4>1. ReadGuest /\ v = turn => phase = "read"
        BY DEF ReadGuest
      <4> QED
        BY <1>3, <3>1, <4>1, HeldStays DEF Resting, Widening
    <3>2. CASE Widening' /\ turn' = v
      <4>1. CASE WidenStart
        BY <1>3, <3>2, <4>1 DEF WidenStart
      <4>2. CASE Widens
        BY <3>2, <4>2, WidensFacts DEF Resting
      <4>3. CASE World /\ Widening
        BY <3>2, <4>3, WorldFacts DEF Resting
      <4> QED
        BY <3>2, <4>1, <4>2, <4>3, WideningStep
    <3>3. CASE Resizing(v)'
      <4>1. CASE ObserveSettle \/ ObserveExtend
        <5>1. cmd'.kind # "resize"
          BY <1>0, <4>1, PendingFacts
        <5> QED
          BY <3>3, <5>1 DEF Resizing
      <4>2. CASE ActCommand
        <5>1. PICK w \in VMs : observed[w].op # "Held" /\ cmd'.vm = w
          BY <1>0, <4>2, ActFacts
        <5> QED
          BY <3>3, <5>1 DEF Resizing, Resting
      <4>3. CASE SinkPass
        BY <3>3, <4>3 DEF SinkPass, Resizing, Resting, Sending
      <4>4. CASE World /\ Sending /\ UNCHANGED <<phase, cmd>>
        BY <3>3, <4>4 DEF Resizing, Resting, Sending
      <4>5. Sending'
        BY <3>3 DEF Resizing
      <4> QED
        BY <4>1, <4>2, <4>3, <4>4, <4>5, SendingStep
    <3> QED
      BY <3>1, <3>2, <3>3 DEF Resting
  <2>2. requested[v] = current[v]
    BY <2>1, RestingFacts
  <2>3. requested'[v] = requested[v] /\ current'[v] = current[v]
    <3>1. CASE UNCHANGED <<requested, current, late>>
      BY <3>1
    <3>2. CASE GuestPlug \/ GuestUnplug \/ DeviceReset \/ LateApply
      BY <2>1, <3>2, MovesElsewhere DEF World
    <3>3. CASE (SinkApply \/ SinkUnknown \/ Crash) /\ ~UNCHANGED <<requested, current, late>>
      <4>1. /\ phase = "apply" /\ current' = current
            /\ \/ requested' = [requested EXCEPT ![cmd.vm] = cmd.target]
               \/ requested' = requested
        BY <3>3, CommandSent
      <4>2. v # cmd.vm
        <5> SUFFICES ASSUME v = cmd.vm PROVE FALSE
          OBVIOUS
        <5>1. observed[v].op = "Held"
          BY <4>1 DEF Recorded, CommandRecorded, Sending
        <5>2. observed'[v].op = "Held"
          BY <3>3, <5>1, HeldStays, <4>1 DEF ObserveReady, ReadGuest
        <5>3. ~Sending' /\ ~Widening'
          BY <3>3, <4>1 DEF SinkApply, SinkUnknown, Crash, Continue, Advance, Sending, Widening
        <5> QED
          BY <5>2, <5>3 DEF Resting, Resizing
      <4> QED
        BY <1>0, <4>1, <4>2 DEF Types, Devices
    <3> QED
      BY <3>1, <3>2, <3>3, DevicesTouched
  <2> QED
    BY <2>2, <2>3
<1> QED
  BY <1>2, <1>3

LEMMA RetargetsWithinStep ==
  ASSUME Recorded, Types', RetargetsWithin, Next, "reset" \notin Faults, "race" \notin Faults
  PROVE  RetargetsWithin'
<1>0. Types
  BY DEF Recorded
<1>1. CASE ~Sending'
  BY <1>1 DEF Sending, RetargetsWithin
<1>2. CASE ObserveSettle \/ ObserveExtend
  <2>1. PICK kind \in {"settle", "extend"}, target \in Nat :
          /\ kind = "settle" => target = current[turn]
          /\ kind = "extend" => target < Request(turn)
          /\ phase' = "check"
          /\ cmd' = [kind |-> kind, vm |-> turn, target |-> target,
                     seen |-> <<Request(turn), current[turn]>>, prior |-> committed]
    BY <1>0, <1>2, PendingFacts
  <2>2. cmd'.kind = kind /\ cmd'.target = target /\ cmd'.seen[1] = Request(turn)
        /\ cmd'.seen[2] = current[turn]
    BY <2>1
  <2>3. Request(turn) \in Nat
    BY <1>0, RequestFacts DEF Types, Observations
  <2> QED
    BY <2>1, <2>2, <2>3 DEF RetargetsWithin
<1>3. CASE ActCommand
  <2>1. phase' = "check" /\ cmd'.kind = "resize"
    BY <1>0, <1>3, ActFacts
  <2> QED
    BY <2>1 DEF RetargetsWithin
<1>4. CASE SinkPass
  <2>1. /\ phase = "check" /\ phase' = "apply" /\ cmd' = cmd /\ UNCHANGED <<requested, current>>
        /\ Live(cmd.vm) = cmd.seen
    BY <1>4 DEF SinkPass, deviceVars
  <2>2. /\ cmd.vm \in VMs /\ cmd.kind \in {"resize", "settle", "extend"} /\ cmd.target \in Nat
        /\ cmd.seen[1] = requested[cmd.vm] /\ cmd.seen[2] = current[cmd.vm]
    BY <1>0, <2>1 DEF Types, Commands, Live, Recorded, CommandRecorded, Sending
  <2>3. cmd.kind # "resize" => cmd.target <= requested[cmd.vm] \/ cmd.target = current[cmd.vm]
    BY <2>1, <2>2 DEF RetargetsWithin
  <2>4. /\ Kept(cmd.vm) \in Nat /\ requested[cmd.vm] <= Kept(cmd.vm)
        /\ current[cmd.vm] <= Kept(cmd.vm) /\ requested[cmd.vm] \in Nat
    BY <1>0, <2>2, ReachFacts
  <2>5. cmd.kind # "resize" => cmd.target <= Kept(cmd.vm)
    BY <2>2, <2>3, <2>4
  <2>6. Kept(cmd.vm)' = Kept(cmd.vm)
    BY <2>1 DEF Kept
  <2> QED
    BY <2>1, <2>5, <2>6 DEF RetargetsWithin
<1>5. CASE World /\ Sending /\ UNCHANGED <<phase, cmd>>
  <2>1. PICK v \in VMs : v = cmd.vm /\ v = cmd'.vm /\ cmd.target \in Nat
    BY <1>0, <1>5 DEF Sending, Types, Commands
  <2>2. ASSUME phase = "apply" PROVE Kept(v)' >= Kept(v)
    <3>1. /\ requested[v] \in Nat /\ current[v] \in Nat /\ Kept(v) \in Nat
          /\ Kept(v) = requested[v] \/ Kept(v) = current[v]
      BY <1>0, ReachFacts
    <3>2. /\ Kept(v)' \in Nat /\ requested'[v] <= Kept(v)' /\ current'[v] <= Kept(v)'
          /\ requested'[v] \in Nat /\ current'[v] \in Nat
      BY ReachNext
    <3>3. CASE GuestPlug
      <4>1. requested' = requested
            /\ (current'[v] = current[v] \/ current'[v] = current[v] + Block[v])
        BY <1>0, <2>1, <3>3, PlugWithin
      <4>2. Block[v] \in Nat
        BY <2>1, Constants
      <4> QED
        BY <3>1, <3>2, <4>1, <4>2
    <3>4. CASE GuestUnplug
      <4>1. PICK w \in VMs : /\ Racing(w) => "race" \in Faults
                             /\ \A x \in VMs \ {w} : current'[x] = current[x]
                             /\ UNCHANGED requested
        BY <1>0, <3>4, UnplugSmaller
      <4>2. v # w
        BY <2>1, <2>2, <4>1 DEF Racing
      <4>3. requested' = requested /\ current'[v] = current[v]
        BY <4>1, <4>2
      <4> QED
        BY <3>1, <3>2, <4>3
    <3>5. CASE LateApply
      <4>1. late[v] = None
        BY <1>5, <2>1 DEF Recorded, LateRecorded
      <4>2. requested'[v] = requested[v] /\ current' = current
        BY <1>0, <3>5, <4>1, LateLands
      <4> QED
        BY <3>1, <3>2, <4>2
    <3>6. CASE Recover
      <4>1. requested' = requested /\ current' = current
        BY <3>6 DEF Recover
      <4> QED
        BY <3>1, <3>2, <4>1
    <3>7. CASE DeviceReset
      BY <3>7 DEF DeviceReset
    <3> QED
      BY <1>5, <3>3, <3>4, <3>5, <3>6, <3>7 DEF World
  <2>3. ASSUME phase = "apply", cmd.kind # "resize" PROVE cmd.target <= Kept(v)'
    <3>1. cmd.target <= Kept(v)
      BY <2>1, <2>3 DEF RetargetsWithin
    <3>2. Kept(v) \in Nat /\ Kept(v)' \in Nat
      BY <1>0, ReachFacts, ReachNext
    <3> QED
      BY <2>1, <2>2, <2>3, <3>1, <3>2
  <2>4. Kept(cmd.vm)' = Kept(v)'
    BY <2>1 DEF Kept
  <2>5. phase' = phase /\ cmd' = cmd
    BY <1>5
  <2> QED
    BY <1>5, <2>3, <2>4, <2>5 DEF RetargetsWithin
<1> QED
  BY <1>1, <1>2, <1>3, <1>4, <1>5, SendingStep

\* While a round grants, only a command adds to the growth counted, and to the budget.
LEMMA BudgetStep ==
  ASSUME Types, Next, Granting', ~Allocate, ~ActCommand, NEW v \in VMs
  PROVE  /\ committed' = committed
         /\ outstanding_growth'[v] = outstanding_growth[v] \/ outstanding_growth'[v] = 0
<1> USE DEF deviceVars, checkpointVars, processVars, roundVars
<1>1. Granting
  BY GrantingStep
<1>2. phase \notin {"observe", "down"}
  BY <1>1 DEF Granting, Sending
<1>3. CASE ActNothing \/ SinkPass \/ SinkApply \/ SinkUnknown
  BY <1>3 DEF ActNothing, SinkPass, SinkApply, SinkUnknown
<1>4. CASE SinkReject
  <2>1. committed' = committed /\ cmd.vm \in VMs
    BY <1>4 DEF SinkReject, Types, Commands
  <2>2. outstanding_growth' = [outstanding_growth EXCEPT ![cmd.vm] =
          IF cmd.kind = "resize" THEN 0 ELSE @]
    BY <1>4 DEF SinkReject
  <2>3. outstanding_growth \in [VMs -> Nat \cup {None}]
    BY DEF Types, Known
  <2> QED
    BY <2>1, <2>2, <2>3
<1>5. CASE World \/ Widens
  BY <1>5, WorldFacts, WidensFacts
<1>6. CASE EndRound \/ Crash
  BY <1>6 DEF EndRound, Crash, NewRound, Granting, Sending
<1>7. CASE \/ ObserveUnreadable \/ ObserveStopped \/ ObserveHeld \/ ObserveReady
           \/ ObserveSettle \/ ObserveExtend \/ ObserveTimeout \/ Start \/ ClearLatch
           \/ WidenStart \/ ReadGuest
  BY <1>1, <1>2, <1>7 DEF Granting, Sending, WidenStart, ReadGuest, ObserveUnreadable, ObserveStopped, ObserveHeld, ObserveReady,
       ObserveSettle, ObserveExtend, ObservePending, ObserveTimeout, Start, ClearLatch
<1> QED
  BY <1>3, <1>4, <1>5, <1>6, <1>7 DEF Next, World, Widens

\* A command: its growth is taken from what the host has left and is counted.
LEMMA CommandGrowth ==
  ASSUME ReserveInv, Types', ActCommand
  PROVE  GrowthCounted' /\ GrowthCommitted' /\ ReserveLeft'
<1>1. PICK v \in VMs, target \in Nat, growth \in Nat :
        LET at == observed[v].charge
        IN /\ observed[v].op # "Held" /\ at \in Nat
           /\ \/ /\ target = at + growth /\ growth > 0
                 /\ committed + growth + Reserve <= Available
              \/ target < at /\ growth = 0
           /\ phase = "act" /\ phase' = "check"
           /\ committed' = saturating_add(committed, growth)
           /\ outstanding_growth' = [outstanding_growth EXCEPT ![v] = growth]
           /\ cmd' = [kind |-> "resize", vm |-> v, target |-> target,
                      seen |-> <<at, at>>, prior |-> committed]
           /\ UNCHANGED <<requested, current, late>>
  BY ActFacts DEF ReserveInv, Recorded, deviceVars
<1> DEFINE at == observed[v].charge
           sizes == [w \in VMs |-> current[w]]
           counted == [w \in VMs |-> Growth(w)]
           added == [w \in VMs |-> IF w = v THEN growth ELSE 0]
           grown == [w \in VMs |-> counted[w] + added[w]]
           after == [w \in VMs |-> Growth(w)']
           reach == [w \in VMs |-> Reach(w)]
           next == [w \in VMs |-> Reach(w)']
           upto == [w \in VMs |-> sizes[w] + grown[w]]
<1>2. Types /\ GrowthCounted /\ GrowthCommitted /\ ReserveLeft /\ committed \in Nat
  BY DEF ReserveInv, Recorded, Types, Allocated
<1>3. requested[v] = at /\ current[v] = at /\ at \in Nat /\ late[v] = None
  <2>1. requested[v] = current[v] /\ late[v] = None
    BY <1>1, RestingFacts DEF ReserveInv, Resting
  <2>2. requested[v] = at
    BY <1>1 DEF ReserveInv, Recorded, ReadyUnchanged
  <2> QED
    BY <1>1, <2>1, <2>2
<1>4. \A w \in VMs : /\ current[w] \in Nat /\ Growth(w) \in Nat /\ Reach(w) \in Nat
                     /\ Reach(w)' \in Nat /\ Growth(w)' \in Nat
                     /\ outstanding_growth[w] = None \/ outstanding_growth[w] \in Nat
  BY <1>2, ReachFacts, ReachNext
<1>5. ASSUME NEW w \in VMs \ {v}
      PROVE  /\ Reach(w)' = Reach(w) /\ outstanding_growth'[w] = outstanding_growth[w]
             /\ Growth(w)' = Growth(w)
  <2>1. ~Resizing(w) /\ ~Resizing(w)'
    BY <1>1 DEF Resizing, Sending
  <2>2. Reach(w)' = Reach(w)
    BY <1>1, <2>1 DEF Reach, Coming, Kept
  <2>3. outstanding_growth'[w] = outstanding_growth[w]
    BY <1>1, <1>2 DEF Types, Known
  <2> QED
    BY <2>2, <2>3 DEF Growth
<1>6. /\ outstanding_growth'[v] = growth /\ Growth(v)' = growth
      /\ Reach(v) = at /\ Reach(v)' = greatest(at, target) /\ Reach(v)' = at + growth
  <2>1. outstanding_growth'[v] = growth /\ growth # None
    BY <1>1, <1>2, Constants DEF Types, Known
  <2>2. Kept(v) = at /\ Kept(v)' = at
    BY <1>1, <1>3 DEF Kept, greatest
  <2>3. ~Resizing(v) /\ Resizing(v)' /\ cmd'.target = target
    BY <1>1 DEF Resizing, Sending
  <2>4. Coming(v) = 0 /\ Coming(v)' = target
    BY <1>3, <2>3 DEF Coming
  <2>6. Reach(v) = at /\ Reach(v)' = greatest(at, target)
    BY <1>3, <2>2, <2>4 DEF Reach, greatest
  <2>5. greatest(at, target) = at + growth
    BY <1>1, <1>3 DEF greatest
  <2> QED
    BY <2>1, <2>5, <2>6 DEF Growth
<1>7. GrowthCounted'
  <2> SUFFICES ASSUME NEW w \in VMs, outstanding_growth'[w] # None
               PROVE  Reach(w)' <= current'[w] + outstanding_growth'[w]
    BY DEF GrowthCounted
  <2>1. CASE w = v
    BY <1>1, <1>3, <1>6, <2>1
  <2>2. CASE w # v
    BY <1>1, <1>2, <1>5, <2>2 DEF GrowthCounted
  <2> QED
    BY <2>1, <2>2
<1>8. /\ sizes \in [VMs -> Nat] /\ counted \in [VMs -> Nat] /\ added \in [VMs -> Nat]
      /\ grown \in [VMs -> Nat] /\ after \in [VMs -> Nat] /\ reach \in [VMs -> Nat]
      /\ next \in [VMs -> Nat] /\ upto \in [VMs -> Nat]
  BY <1>1, <1>4
<1>9. Total(added) = growth
  <2> DEFINE zero == [w \in VMs |-> 0]
  <2>1. /\ zero \in [VMs -> Int] /\ added \in [VMs -> Int]
        /\ zero[v] = 0 /\ added[v] = growth
        /\ \A w \in VMs \ {v} : added[w] = zero[w]
    <3>1. growth \in Int /\ 0 \in Int
      BY <1>1
    <3> QED
      BY <3>1
  <2>2. Total(zero) = 0
    BY TotalZero
  <2> HIDE DEF zero, added
  <2>3. Total(added) = Total(zero) - zero[v] + added[v]
    <3>1. zero \in [VMs -> Int] /\ added \in [VMs -> Int] /\ v \in VMs
      BY <2>1
    <3>2. \A w \in VMs \ {v} : added[w] = zero[w]
      BY <2>1
    <3> QED
      BY ONLY <3>1, <3>2, TotalUpdate
  <2> QED
    BY <1>1, <2>1, <2>2, <2>3
<1>10. /\ \A w \in VMs : grown[w] = counted[w] + added[w] /\ upto[w] = sizes[w] + grown[w]
       /\ \A w \in VMs : after[w] <= grown[w]
  <2> SUFFICES ASSUME NEW w \in VMs PROVE Growth(w)' <= counted[w] + added[w]
    BY DEF grown, upto
  <2>1. CASE w = v
    <3>1. added[w] = growth /\ counted[w] \in Nat /\ Growth(w)' = growth
      BY <1>6, <1>8, <2>1
    <3> QED
      BY <1>1, <3>1
  <2>2. CASE w # v
    <3>1. added[w] = 0 /\ counted[w] = Growth(w) /\ Growth(w)' = Growth(w) /\ Growth(w) \in Nat
      BY <1>4, <1>5, <2>2
    <3> QED
      BY <3>1
  <2> QED
    BY <2>1, <2>2
<1>11. \A w \in VMs : next[w] = Reach(w)' /\ reach[w] = Reach(w) /\ sizes[w] = current[w]
                      /\ counted[w] = Growth(w)
  OBVIOUS
<1>12. sizes = current
  BY <1>2 DEF Types, Devices
<1> HIDE DEF sizes, counted, added, grown, after, next, reach, upto
<1>13. /\ Total(grown) = Total(counted) + growth
       /\ Total(upto) = Total(sizes) + Total(grown)
  <2>1. Total(grown) = Total(counted) + Total(added)
    <3>1. /\ counted \in [VMs -> Nat] /\ added \in [VMs -> Nat] /\ grown \in [VMs -> Nat]
          /\ \A w \in VMs : grown[w] = counted[w] + added[w]
      BY <1>8, <1>10
    <3> QED
      BY <3>1, SizesSum
  <2>2. Total(upto) = Total(sizes) + Total(grown)
    <3>1. /\ sizes \in [VMs -> Nat] /\ grown \in [VMs -> Nat] /\ upto \in [VMs -> Nat]
          /\ \A w \in VMs : upto[w] = sizes[w] + grown[w]
      BY <1>8, <1>10
    <3> QED
      BY <3>1, SizesSum
  <2> QED
    BY <1>9, <2>1, <2>2
<1>14. /\ Total(after) \in Nat /\ Total(after) <= Total(grown)
       /\ Total(sizes) \in Nat /\ Total(counted) \in Nat /\ Total(next) \in Nat
       /\ Total(reach) \in Nat
  BY <1>1, <1>8, <1>10, SizesOrder, TotalMember
<1>15. GrowthCommitted'
  <2>1. Granting
    BY <1>1 DEF Granting
  <2>2. CASE committed >= HostTotal \/ committed + growth >= HostTotal
    <3>1. committed' = HostTotal
      BY <1>1, <1>2, <2>2, Constants DEF saturating_add, least, Unbounded
    <3> QED
      BY <3>1, Constants DEF GrowthCommitted
  <2>3. CASE ~(committed >= HostTotal) /\ ~(committed + growth >= HostTotal)
    <3>1. committed' = committed + growth
      BY <1>1, <1>2, <2>3, Constants DEF saturating_add, least, Unbounded
    <3>2. /\ \A w \in VMs : outstanding_growth[w] # None
          /\ Total(counted) <= committed
      BY <1>2, <2>1, <2>3 DEF GrowthCommitted, counted
    <3>3. Total(after) <= committed'
      BY <1>1, <1>2, <1>13, <1>14, <3>1, <3>2
    <3>4. \A w \in VMs : outstanding_growth'[w] # None
      BY <1>1, <1>5, <1>6, <3>2, Constants
    <3> QED
      BY <3>3, <3>4 DEF GrowthCommitted, after
  <2> QED
    BY <2>2, <2>3
<1>16. ReserveLeft'
  <2>1. CASE growth = 0
    <3>1. \A w \in VMs : next[w] <= reach[w]
      <4> SUFFICES ASSUME NEW w \in VMs PROVE Reach(w)' <= Reach(w)
        BY <1>11
      <4>1. CASE w = v
        BY <1>3, <1>6, <2>1, <4>1
      <4>2. CASE w # v
        BY <1>4, <1>5, <4>2
      <4> QED
        BY <4>1, <4>2
    <3>2. Total(next) <= Total(reach)
      BY <1>8, <3>1, SizesOrder
    <3>3. Total(reach) <= HostTotal - Reserve
      BY <1>2 DEF ReserveLeft, reach
    <3>4. Total(next) <= HostTotal - Reserve
      BY <1>14, <3>2, <3>3, Constants
    <3> QED
      BY <3>4 DEF ReserveLeft, next
  <2>2. CASE growth # 0
    <3>1. committed + growth + Reserve <= HostTotal - Total(sizes)
      BY <1>1, <1>12, <2>2 DEF Available
    <3>2. Granting /\ ~(committed >= HostTotal)
      BY <1>1, <1>2, <1>14, <2>2, <3>1, Constants DEF Granting
    <3>3. /\ \A w \in VMs : outstanding_growth[w] # None
          /\ Total(counted) <= committed
      BY <1>2, <3>2 DEF GrowthCommitted, counted
    <3>4. \A w \in VMs : next[w] <= upto[w]
      <4> SUFFICES ASSUME NEW w \in VMs
                   PROVE  Reach(w)' <= current[w] + (Growth(w) + added[w])
        BY <1>10, <1>11
      <4>1. current[w] \in Nat /\ Growth(w) \in Nat /\ Growth(w) = outstanding_growth[w]
        BY <1>4, <3>3 DEF Growth
      <4>2. CASE w = v
        <5>1. added[w] = growth
          BY <4>2 DEF added
        <5> QED
          BY <1>1, <1>3, <1>6, <4>1, <4>2, <5>1
      <4>3. CASE w # v
        <5>1. added[w] = 0
          BY <4>3 DEF added
        <5>2. Reach(w) <= current[w] + outstanding_growth[w]
          BY <1>2, <3>3 DEF GrowthCounted
        <5> QED
          BY <1>5, <4>1, <4>3, <5>1, <5>2
      <4> QED
        BY <4>2, <4>3
    <3>5. Total(next) <= Total(upto)
      BY <1>8, <3>4, SizesOrder
    <3>6. Total(next) <= HostTotal - Reserve
      BY <1>1, <1>2, <1>13, <1>14, <3>1, <3>3, <3>5, Constants
    <3> QED
      BY <3>6 DEF ReserveLeft, next
  <2> QED
    BY <2>1, <2>2
<1> QED
  BY <1>7, <1>15, <1>16
LEMMA ReserveInit == Init => ReserveInv
<1> SUFFICES ASSUME Init PROVE ReserveInv
  OBVIOUS
<1>1. Recorded /\ Types
  BY RecordedInit, TypesInit
<1>2. GrowthCounted /\ AtRestAll /\ RetargetsWithin /\ GrowthCommitted
  BY DEF Init, GrowthCounted, AtRestAll, RetargetsWithin, GrowthCommitted, Granting, Sending
<1>3. ReserveLeft
  <2>1. \A v \in VMs : Reach(v) = requested[v]
    <3> SUFFICES ASSUME NEW v \in VMs PROVE Reach(v) = requested[v]
      OBVIOUS
    <3>1. requested[v] \in Nat /\ current[v] = requested[v] /\ ~Resizing(v)
          /\ late[v] = None
      BY <1>1 DEF Init, Types, Devices, Resizing, Sending
    <3> QED
      BY <3>1 DEF Reach, Coming, Kept, greatest
  <2>2. requested = [v \in VMs |-> requested[v]] /\ Total(requested) <= HostTotal - Reserve
    BY DEF Init
  <2>3. [v \in VMs |-> Reach(v)] = requested
    BY <2>1, <2>2
  <2> QED
    BY <2>2, <2>3 DEF ReserveLeft
<1> QED
  BY <1>1, <1>2, <1>3 DEF ReserveInv

\* The parts that counting changes.
LEMMA CountedStep ==
  ASSUME ReserveInv, Types', Next, "reset" \notin Faults, "race" \notin Faults
  PROVE  GrowthCounted' /\ GrowthCommitted' /\ ReserveLeft'
<1>1. CASE ActCommand
  BY <1>1, CommandGrowth
<1>2. CASE ~ActCommand
  <2>1. Types /\ GrowthCommitted /\ ReserveLeft
    BY DEF ReserveInv, Recorded
  <2>2. \A v \in VMs :
          /\ Reach(v)' <= Reach(v)
          /\ outstanding_growth'[v] # None => Reach(v)' <= current'[v] + outstanding_growth'[v]
    BY <1>2, ReachShrinks
  <2>3. GrowthCounted'
    BY <2>2 DEF GrowthCounted
  <2>4. ReserveLeft'
    <3> DEFINE reach == [v \in VMs |-> Reach(v)]
               next == [v \in VMs |-> Reach(v)']
    <3>1. reach \in [VMs -> Nat] /\ next \in [VMs -> Nat]
      BY <2>1, ReachFacts, ReachNext
    <3>2. \A v \in VMs : next[v] <= reach[v]
      BY <2>2
    <3>3. Total(reach) <= HostTotal - Reserve
      BY <2>1 DEF ReserveLeft
    <3> HIDE DEF reach, next
    <3>4. Total(next) \in Nat /\ Total(reach) \in Nat /\ Total(next) <= Total(reach)
      BY <3>1, <3>2, SizesOrder
    <3>5. Total(next) <= HostTotal - Reserve
      BY <3>3, <3>4, Constants
    <3> QED
      BY <3>5 DEF ReserveLeft, next
  <2>5. CASE Allocate
    <3>1. phase' = "act" /\ outstanding_growth' = outstanding_growth
      BY <2>5 DEF Allocate, processVars
    <3>2. \/ committed' = HostTotal
          \/ /\ \A v \in VMs : outstanding_growth[v] # None
             /\ committed' = Total([v \in VMs |-> outstanding_growth[v]])
      BY <2>1, <2>5, Owed
    <3> SUFFICES GrowthCommitted'
      BY <2>3, <2>4
    <3>3. CASE committed' = HostTotal
      BY <3>3, Constants DEF GrowthCommitted
    <3>4. CASE /\ \A v \in VMs : outstanding_growth[v] # None
               /\ committed' = Total([v \in VMs |-> outstanding_growth[v]])
      <4>1. \A v \in VMs : Growth(v)' = outstanding_growth[v]
        BY <3>1, <3>4 DEF Growth
      <4>2. [v \in VMs |-> Growth(v)'] = [v \in VMs |-> outstanding_growth[v]]
        BY <4>1
      <4>3. committed' \in Nat
        BY DEF Types, Allocated
      <4>4. Total([v \in VMs |-> Growth(v)']) = committed'
        BY <3>4, <4>2
      <4>5. Total([v \in VMs |-> Growth(v)']) <= committed'
        BY <4>3, <4>4
      <4>6. \A v \in VMs : outstanding_growth'[v] # None
        BY <3>1, <3>4
      <4> QED
        BY <4>5, <4>6 DEF GrowthCommitted
    <3> QED
      BY <3>2, <3>3, <3>4
  <2>6. CASE ~Allocate
    <3> SUFFICES ASSUME Granting' PROVE GrowthCommitted'
      BY <2>3, <2>4 DEF GrowthCommitted
    <3> DEFINE counted == [v \in VMs |-> Growth(v)]
               next == [v \in VMs |-> Growth(v)']
    <3>1. Granting
      BY <2>1, <2>6, GrantingStep
    <3>2. \A v \in VMs :
            /\ committed' = committed
            /\ outstanding_growth'[v] = outstanding_growth[v] \/ outstanding_growth'[v] = 0
      BY <1>2, <2>1, <2>6, BudgetStep
    <3>3. committed' = committed
      BY <3>2
    <3>4. \A v \in VMs : Growth(v) \in Nat /\ Growth(v)' \in Nat /\ Growth(v)' <= Growth(v)
      <4> SUFFICES ASSUME NEW v \in VMs
                   PROVE  Growth(v) \in Nat /\ Growth(v)' \in Nat /\ Growth(v)' <= Growth(v)
        OBVIOUS
      <4>1. Growth(v) \in Nat /\ Growth(v)' \in Nat
        BY <2>1, ReachFacts, ReachNext
      <4>2. Growth(v)' = Growth(v) \/ Growth(v)' = 0
        BY <3>2 DEF Growth
      <4> QED
        BY <4>1, <4>2
    <3>5. CASE committed >= HostTotal
      BY <3>3, <3>5 DEF GrowthCommitted
    <3>6. CASE /\ \A v \in VMs : outstanding_growth[v] # None
               /\ Total(counted) <= committed
      <4>1. counted \in [VMs -> Nat] /\ next \in [VMs -> Nat]
            /\ \A v \in VMs : next[v] <= counted[v]
        BY <3>4
      <4> HIDE DEF counted, next
      <4>2. Total(next) \in Nat /\ Total(counted) \in Nat /\ Total(next) <= Total(counted)
        BY <4>1, SizesOrder
      <4>3. committed \in Nat
        BY <2>1 DEF Types, Allocated
      <4>4. Total(next) <= committed'
        BY <3>3, <3>6, <4>2, <4>3
      <4>5. \A v \in VMs : outstanding_growth'[v] # None
        BY <3>2, <3>6, Constants
      <4> QED
        BY <4>4, <4>5 DEF GrowthCommitted, next
    <3> QED
      BY <2>1, <3>1, <3>5, <3>6 DEF GrowthCommitted
  <2> QED
    BY <2>3, <2>4, <2>5, <2>6
<1> QED
  BY <1>1, <1>2

LEMMA ReserveStep ==
  ASSUME Faults \cap {"reset", "race", "hasty"} = {}
  PROVE  ReserveInv /\ [Next]_vars => ReserveInv'
<1> SUFFICES ASSUME ReserveInv, [Next]_vars PROVE ReserveInv'
  OBVIOUS
<1>1. "reset" \notin Faults /\ "race" \notin Faults /\ "hasty" \notin Faults
  OBVIOUS
<1>2. /\ Recorded /\ Recorded' /\ Types' /\ AtRestAll /\ RetargetsWithin
  BY <1>1, RecordedStep DEF ReserveInv, Recorded
<1>3. CASE Next
  <2>1. AtRestAll'
    BY <1>1, <1>2, <1>3, AtRestStep
  <2>2. RetargetsWithin'
    BY <1>1, <1>2, <1>3, RetargetsWithinStep
  <2>3. GrowthCounted' /\ GrowthCommitted' /\ ReserveLeft'
    BY <1>1, <1>2, <1>3, CountedStep
  <2> QED
    BY <1>2, <2>1, <2>2, <2>3 DEF ReserveInv
<1>4. CASE UNCHANGED vars
  <2> USE DEF vars, deviceVars, checkpointVars, processVars, roundVars, Sending, Kept
  <2>1. AtRestAll' /\ RetargetsWithin'
    BY <1>2, <1>4 DEF AtRestAll, Resting, Resizing, Widening, RetargetsWithin
  <2>2. GrowthCounted' /\ GrowthCommitted' /\ ReserveLeft'
    BY <1>4 DEF ReserveInv, GrowthCounted, GrowthCommitted, ReserveLeft, Reach, Coming, Resizing,
         Growth, Granting
  <2> QED
    BY <1>2, <2>1, <2>2 DEF ReserveInv
<1> QED
  BY <1>3, <1>4

LEMMA ReserveImplied == ReserveInv => ReserveKept
<1> SUFFICES ASSUME ReserveInv PROVE ReserveKept
  OBVIOUS
<1> DEFINE holdings == [v \in VMs |-> Occupied(v)]
           reach == [v \in VMs |-> Reach(v)]
<1>1. ASSUME NEW v \in VMs
      PROVE  Occupied(v) \in Nat /\ Reach(v) \in Nat /\ Occupied(v) <= Reach(v)
  <2>1. Recorded /\ Types
    BY DEF ReserveInv, Recorded
  <2>2. Occupied(v) \in Nat /\ Kept(v) \in Nat /\ Occupied(v) <= Kept(v)
    BY <2>1, OccupiedFacts
  <2>3. Reach(v) \in Nat /\ Kept(v) <= Reach(v)
    BY <2>1, ReachFacts
  <2> QED
    BY <2>2, <2>3
<1>2. holdings \in [VMs -> Nat] /\ reach \in [VMs -> Nat]
      /\ \A v \in VMs : holdings[v] <= reach[v]
  BY <1>1
<1>3. Total(reach) <= HostTotal - Reserve
  BY DEF ReserveInv, ReserveLeft
<1> HIDE DEF holdings, reach
<1>4. Total(holdings) \in Nat /\ Total(reach) \in Nat /\ Total(holdings) <= Total(reach)
  BY <1>2, SizesOrder
<1>5. Total(holdings) <= HostTotal - Reserve
  BY <1>3, <1>4, Constants
<1> QED
  BY <1>5 DEF ReserveKept, holdings

\* The host's reserve is kept, whatever the guests, libvirt's refusals, unknown outcomes,
\* commands that land rounds later, widenings cut off anywhere, unreadable VMs and crashes of
\* the daemon interleave to, as long as no device loses its allocation under a request that
\* stands, no guest unplugs between a command's last reading of it and the command's effect
\* (growth that was not asked for in a round is in no round's budget), and no latch is cleared
\* while a command nobody answered may still be carried out.
THEOREM ReserveAlwaysKept ==
  Faults \cap {"reset", "race", "hasty"} = {} => (Spec => []ReserveKept)
<1> SUFFICES ASSUME Faults \cap {"reset", "race", "hasty"} = {} PROVE Spec => []ReserveKept
  OBVIOUS
<1>1. ReserveInv /\ [Next]_vars => ReserveInv'
  BY ReserveStep
<1> QED
  BY <1>1, ReserveInit, ReserveImplied, PTL DEF Spec
-----------------------------------------------------------------------------
\* Priority.  What the allocation gave by priority stays as it is until the round ends: a
\* step of the round only takes VMs out of it.

PriorityKept ==
  Granting =>
    \A v, w \in VMs :
      LET given(x) == ceilings[x] - observed[x].charge
      IN /\ Before(v, w) /\ observed[v].op = "Add" /\ observed[w].op = "Add"
         /\ Wanted(v) - given(v) >= Block[v]
         => given(w) < Block[v]

LEMMA AllocateKeepsPriority ==
  ASSUME Types, Allocate PROVE PriorityKept'
<1> DEFINE members == [v \in VMs |-> pool_member(v)]
<1>1. ceilings' = allocate_pool(members) /\ observed' = observed
  BY DEF Allocate
<1>2. /\ members \in [VMs -> Member]
      /\ \A v \in VMs :
           /\ members[v].charged = IF observed[v].charge = None THEN Pool ELSE observed[v].charge
           /\ observed[v].op # "Held" => members[v].block = Block[v]
           /\ members[v].desired =
                members[v].charged + (IF observed[v].op = "Add" THEN Wanted(v) ELSE 0)
           /\ observed[v].op # "Held" => Wanted(v) \in Nat
  BY Members
<1> HIDE DEF members
<1>3. ASSUME NEW v \in VMs, observed[v].op = "Add"
      PROVE  /\ members[v].charged = observed[v].charge /\ members[v].block = Block[v]
             /\ saturating_sub(members[v].desired, members[v].charged) = Wanted(v)
  <2>1. observed[v].charge \in Nat
    BY <1>3 DEF Types, Observations, Aligned
  <2>2. members[v].charged = observed[v].charge /\ members[v].block = Block[v]
    BY <1>2, <1>3, <2>1, Constants
  <2>3. members[v].desired = observed[v].charge + Wanted(v) /\ Wanted(v) \in Nat
    BY <1>2, <1>3, <2>2
  <2> QED
    BY <2>1, <2>2, <2>3 DEF saturating_sub
<1>4. ASSUME NEW v \in VMs, NEW w \in VMs, Before(v, w),
             observed[v].op = "Add", observed[w].op = "Add",
             Wanted(v) - (ceilings'[v] - observed[v].charge) >= Block[v]
      PROVE  ceilings'[w] - observed[w].charge < Block[v]
  <2>1. saturating_sub(members[v].desired, members[v].charged)
          - (allocate_pool(members)[v] - members[v].charged) >= members[v].block
    BY <1>1, <1>3, <1>4
  <2>2. allocate_pool(members)[w] - members[w].charged < members[v].block
    BY <1>2, <1>4, <2>1, AllocatePriority
  <2> QED
    BY <1>1, <1>3, <1>4, <2>2
<1>5. \A v \in VMs : Wanted(v)' = Wanted(v)
  BY <1>1 DEF Wanted
<1> QED
  BY <1>1, <1>4, <1>5 DEF PriorityKept, Before

LEMMA PriorityKeptStep ==
  ASSUME Types, PriorityKept, Next PROVE PriorityKept'
<1>1. CASE Allocate
  BY <1>1, AllocateKeepsPriority
<1>2. CASE ~Allocate
  <2> SUFFICES ASSUME Granting' PROVE PriorityKept'
    BY DEF PriorityKept
  <2>1. Granting /\ ceilings' = ceilings
    BY <1>2, GrantingStep
  <2>2. ~ObserveReady /\ ~ReadGuest
    BY <2>1 DEF ObserveReady, ReadGuest, Granting, Sending
  <2>3. \A v \in VMs : observed'[v].op = "Add" => observed'[v] = observed[v]
    <3>1. \A c : Held(c).op = "Held"
      BY DEF Held
    <3> QED
      BY <2>2, <3>1, ObservedStep
  <2>4. \A v \in VMs : observed'[v].op = "Add" => Wanted(v)' = Wanted(v)
    BY <2>3 DEF Wanted
  <2> QED
    BY <2>1, <2>3, <2>4 DEF PriorityKept, Before
<1> QED
  BY <1>1, <1>2

LEMMA PriorityStep == Types /\ PriorityKept /\ [Next]_vars => Types' /\ PriorityKept'
<1> SUFFICES ASSUME Types, PriorityKept, [Next]_vars PROVE Types' /\ PriorityKept'
  OBVIOUS
<1>1. Types'
  BY TypesStep
<1>2. CASE Next
  BY <1>1, <1>2, PriorityKeptStep
<1>3. CASE UNCHANGED vars
  BY <1>1, <1>3 DEF vars, roundVars, PriorityKept, Granting, Sending, Wanted, Before
<1> QED
  BY <1>2, <1>3

\* As long as a round serves its ready VMs, no VM of lower priority was given a block that one
\* of higher priority could still use, whatever has happened to either since: no fault is
\* excluded.
THEOREM PriorityAlwaysServed == Spec => []PriorityServed
<1>1. Init => Types /\ PriorityKept
  BY TypesInit DEF Init, PriorityKept, Granting, Sending
<1>2. PriorityKept => PriorityServed
  BY DEF PriorityKept, PriorityServed, Granting
<1> QED
  BY <1>1, <1>2, PriorityStep, PTL DEF Spec
=============================================================================
