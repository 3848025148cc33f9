---------------------------- MODULE AstWalkProofs ----------------------------
(***************************************************************************)
(* What Parse hands the injectors, and what the two walks leave, for trees *)
(* of any size: every list is of numbers in ascending order, since the     *)
(* nodes are numbered in the order a queue reaches them.                   *)
(***************************************************************************)
EXTENDS AstWalk, SequenceTheorems, WellFoundedInduction, TLAPS

-----------------------------------------------------------------------------
(* Induction and recursion, stated with sets and functions *)

\* A set of naturals has a least member.
LEMMA LeastExists ==
    ASSUME NEW T \in SUBSET Nat, T # {}
    PROVE  \E x \in T : \A y \in T : x <= y
<1> DEFINE Less == {ss \in Nat \X Nat : ss[1] < ss[2]}
<1>1. IsWellFoundedOn(Less, Nat)
  BY NatLessThanWellFounded DEF OpToRel
<1>2. \A a, b \in Nat : a < b => <<a, b>> \in Less
  OBVIOUS
<1>. HIDE DEF Less
<1>3. PICK x \in T : \A y \in T : ~(<<y, x>> \in Less)
  BY <1>1, WFMin
<1>4. \A y \in T : x <= y
  <2>. SUFFICES ASSUME NEW y \in T PROVE x <= y
    OBVIOUS
  <2>1. x \in Nat /\ y \in Nat
    OBVIOUS
  <2>2. ~(<<y, x>> \in Less)
    BY <1>3
  <2>3. ~(y < x)
    BY <1>2, <2>1, <2>2
  <2>. QED
    BY <2>1, <2>3
<1>. QED
  BY <1>4

\* A set that holds 0 and with each number below N the next holds 0..N.
LEMMA UpTo ==
    ASSUME NEW N \in Nat, NEW T, 0 \in T, \A n \in 0..(N - 1) : n \in T => n + 1 \in T
    PROVE  \A n \in 0..N : n \in T
<1> DEFINE Missing == {n \in 0..N : n \notin T}
<1>1. SUFFICES ASSUME Missing # {} PROVE FALSE
  OBVIOUS
<1>2. Missing \in SUBSET Nat
  OBVIOUS
<1>3. PICK x \in Missing : \A y \in Missing : x <= y
  <2>. HIDE DEF Missing
  <2>. QED
    BY <1>1, <1>2, LeastExists
<1>4. x \in 1..N
  BY <1>3
<1>5. x - 1 \in 0..(N - 1) /\ (x - 1) + 1 = x
  BY <1>4
<1>6. x - 1 \in Missing
  BY <1>3, <1>5
<1>. QED
  BY <1>3, <1>4, <1>5, <1>6

\* A function can be given by its value at 0 and its steps.
Steps(N, S) == [1..N -> [S -> S]]
Follows(f, N, S, b, h) == f \in [0..N -> S] /\ f[0] = b /\ \A n \in 1..N : f[n] = h[n][f[n - 1]]
LEMMA Recursion ==
    ASSUME NEW N \in Nat, NEW S, NEW b \in S, NEW h \in Steps(N, S)
    PROVE  \E f : Follows(f, N, S, b, h)
<1> DEFINE Upto(n) == \E f \in [0..n -> S] : f[0] = b /\ \A m \in 1..n : f[m] = h[m][f[m - 1]]
           T == {n \in 0..N : Upto(n)}
<1>. USE DEF Steps
<1>1. Upto(0)
  <2>. DEFINE f == [m \in 0..0 |-> b]
  <2>1. f \in [0..0 -> S] /\ f[0] = b /\ \A m \in 1..0 : f[m] = h[m][f[m - 1]]
    OBVIOUS
  <2>. QED
    BY <2>1
<1>2. ASSUME NEW n \in 0..(N - 1), Upto(n) PROVE Upto(n + 1)
  <2>1. PICK f \in [0..n -> S] : f[0] = b /\ \A m \in 1..n : f[m] = h[m][f[m - 1]]
    BY <1>2
  <2>. DEFINE g == [m \in 0..(n + 1) |-> IF m = n + 1 THEN h[n + 1][f[n]] ELSE f[m]]
  <2>2. n + 1 \in 1..N /\ n \in 0..n
    OBVIOUS
  <2>3. h[n + 1][f[n]] \in S
    BY <2>2
  <2>4. \A m \in 0..(n + 1) : m # n + 1 => m \in 0..n
    OBVIOUS
  <2>5. g \in [0..(n + 1) -> S]
    BY <2>3, <2>4
  <2>6. g[0] = b
    BY <2>1
  <2>7. ASSUME NEW m \in 1..(n + 1) PROVE g[m] = h[m][g[m - 1]]
    <3>1. m - 1 \in 0..n /\ g[m - 1] = f[m - 1]
      OBVIOUS
    <3>2. CASE m = n + 1
      BY <3>1, <3>2
    <3>3. CASE m \in 1..n
      BY <2>1, <3>1, <3>3
    <3>. QED
      BY <3>2, <3>3
  <2>. HIDE DEF g
  <2>. QED
    BY <2>5, <2>6, <2>7
<1>. HIDE DEF Upto
<1>3. 0 \in T /\ \A n \in 0..(N - 1) : n \in T => n + 1 \in T
  BY <1>1, <1>2
<1>4. \A n \in 0..N : n \in T
  <2>. HIDE DEF T
  <2>. QED
    BY <1>3, UpTo
<1>. QED
  BY <1>4 DEF Upto, Follows

-----------------------------------------------------------------------------
(* Lists in ascending order *)

\* The list of the numbers of T.
Lists(s, T) ==
    /\ s \in Seq(Nat) /\ ToSet(s) = T
    /\ \A i, j \in 1..Len(s) : i < j => s[i] < s[j]

LEMMA ListsPlaces ==
    ASSUME NEW s, NEW T, Lists(s, T)
    PROVE  /\ s \in Seq(Nat) /\ Len(s) \in Nat /\ T \subseteq Nat
           /\ \A i \in 1..Len(s) : s[i] \in T
           /\ \A x \in T : \E i \in 1..Len(s) : s[i] = x
           /\ \A i, j \in 1..Len(s) : i < j => s[i] < s[j]
<1>1. s \in Seq(Nat) /\ Len(s) \in Nat /\ DOMAIN s = 1..Len(s)
  BY DEF Lists
<1>2. T = {s[i] : i \in 1..Len(s)}
  BY <1>1 DEF Lists, ToSet
<1>. QED
  BY <1>1, <1>2 DEF Lists

\* How a list is known to be that of T.
LEMMA ListsBy ==
    ASSUME NEW s \in Seq(Nat), NEW T, \A i \in 1..Len(s) : s[i] \in T,
           \A x \in T : \E i \in 1..Len(s) : s[i] = x,
           \A i, j \in 1..Len(s) : i < j => s[i] < s[j]
    PROVE  Lists(s, T)
<1>1. DOMAIN s = 1..Len(s)
  OBVIOUS
<1>2. ToSet(s) = {s[i] : i \in 1..Len(s)}
  BY <1>1 DEF ToSet
<1>. QED
  BY <1>2 DEF Lists

LEMMA ListsNothing == Lists(<<>>, {}) /\ \A T : Lists(<<>>, T) => T = {}
<1>1. <<>> \in Seq(Nat) /\ DOMAIN <<>> = {} /\ Len(<<>>) = 0
  OBVIOUS
<1>2. ToSet(<<>>) = {}
  BY <1>1 DEF ToSet
<1>. QED
  BY <1>1, <1>2 DEF Lists

LEMMA ListsOne == \A n \in Nat : Lists(<<n>>, {n})
<1>. SUFFICES ASSUME NEW n \in Nat PROVE Lists(<<n>>, {n})
  OBVIOUS
<1>1. <<n>> \in Seq(Nat) /\ Len(<<n>>) = 1 /\ <<n>>[1] = n
  OBVIOUS
<1>2. PICK s \in Seq(Nat) : s = <<n>> /\ Len(s) = 1 /\ s[1] = n
  BY <1>1
<1>. PICK T : T = {n}
  OBVIOUS
<1>3. \A i, j \in 1..Len(s) : s[i] \in T /\ ~(i < j)
  BY <1>2
<1>4. \A x \in T : \E i \in 1..Len(s) : s[i] = x
  BY <1>2
<1>5. Lists(s, T)
  BY <1>3, <1>4, ListsBy
<1>. QED
  BY <1>2, <1>5

LEMMA ListsConcat ==
    ASSUME NEW s, NEW T, Lists(s, T), NEW u, NEW U, Lists(u, U), \A x \in T, y \in U : x < y
    PROVE  Lists(s \o u, T \cup U)
<1>1. /\ s \in Seq(Nat) /\ Len(s) \in Nat /\ \A i \in 1..Len(s) : s[i] \in T
      /\ \A x \in T : \E i \in 1..Len(s) : s[i] = x
      /\ \A i, j \in 1..Len(s) : i < j => s[i] < s[j]
  BY ListsPlaces
<1>2. /\ u \in Seq(Nat) /\ Len(u) \in Nat /\ \A i \in 1..Len(u) : u[i] \in U
      /\ \A x \in U : \E i \in 1..Len(u) : u[i] = x
      /\ \A i, j \in 1..Len(u) : i < j => u[i] < u[j]
  BY ListsPlaces
<1>3. PICK w \in Seq(Nat) : w = s \o u
  BY <1>1, <1>2, ConcatProperties
<1>4. /\ Len(w) = Len(s) + Len(u)
      /\ \A i \in 1..(Len(s) + Len(u)) : w[i] = IF i <= Len(s) THEN s[i] ELSE u[i - Len(s)]
  BY <1>1, <1>2, <1>3, ConcatProperties
<1>5. \A i \in 1..Len(s) : i \in 1..Len(w) /\ w[i] = s[i]
  BY <1>1, <1>2, <1>4
<1>6. ASSUME NEW j \in 1..Len(u) PROVE Len(s) + j \in 1..Len(w) /\ w[Len(s) + j] = u[j]
  <2>1. /\ Len(s) + j \in 1..(Len(s) + Len(u)) /\ ~(Len(s) + j <= Len(s))
        /\ (Len(s) + j) - Len(s) = j
    BY <1>1, <1>2
  <2>. QED
    BY <1>4, <2>1
<1>7. ASSUME NEW i \in 1..Len(w), ~(i \in 1..Len(s)) PROVE \E j \in 1..Len(u) : i = Len(s) + j
  <2>1. i - Len(s) \in 1..Len(u) /\ i = Len(s) + (i - Len(s))
    BY <1>1, <1>2, <1>4, <1>7
  <2>. QED
    BY <2>1
<1>8. ASSUME NEW i \in 1..Len(w) PROVE w[i] \in T \cup U
  <2>1. CASE i \in 1..Len(s)
    BY <1>1, <1>5, <2>1
  <2>2. CASE ~(i \in 1..Len(s))
    <3>1. PICK j \in 1..Len(u) : i = Len(s) + j
      BY <1>7, <2>2
    <3>. QED
      BY <1>2, <1>6, <3>1
  <2>. QED
    BY <2>1, <2>2
<1>9. \A x \in T \cup U : \E i \in 1..Len(w) : w[i] = x
  BY <1>1, <1>2, <1>5, <1>6
<1>10. ASSUME NEW i \in 1..Len(w), NEW j \in 1..Len(w), i < j PROVE w[i] < w[j]
  <2>1. CASE j \in 1..Len(s)
    <3>1. i \in 1..Len(s)
      BY <1>1, <1>10, <2>1
    <3>. QED
      BY <1>1, <1>5, <1>10, <2>1, <3>1
  <2>2. CASE i \in 1..Len(s) /\ ~(j \in 1..Len(s))
    <3>1. PICK b \in 1..Len(u) : j = Len(s) + b
      BY <1>7, <2>2
    <3>2. w[i] \in T /\ w[j] \in U
      BY <1>1, <1>2, <1>5, <1>6, <2>2, <3>1
    <3>. QED
      BY <3>2
  <2>3. CASE ~(i \in 1..Len(s)) /\ ~(j \in 1..Len(s))
    <3>1. PICK a \in 1..Len(u), b \in 1..Len(u) : i = Len(s) + a /\ j = Len(s) + b
      BY <1>7, <2>3
    <3>2. a < b
      BY <1>1, <1>10, <3>1
    <3>3. w[i] = u[a] /\ w[j] = u[b]
      BY <1>6, <3>1
    <3>. QED
      BY <1>2, <3>2, <3>3
  <2>. QED
    BY <2>1, <2>2, <2>3
<1>11. Lists(w, T \cup U)
  BY <1>8, <1>9, <1>10, ListsBy
<1>. QED
  BY <1>3, <1>11

LEMMA ListsAppend ==
    ASSUME NEW s, NEW T, Lists(s, T), NEW c \in Nat, \A x \in T : x < c
    PROVE  Lists(Append(s, c), T \cup {c})
<1>1. Lists(<<c>>, {c})
  BY ListsOne
<1>2. PICK u, U : u = <<c>> /\ U = {c}
  OBVIOUS
<1>3. Lists(s \o u, T \cup U)
  BY <1>1, <1>2, ListsConcat
<1>4. Append(s, c) = s \o <<c>>
  BY ListsPlaces, AppendIsConcat
<1>. QED
  BY <1>2, <1>3, <1>4

\* The head of a list is the least of its numbers.
LEMMA ListsHead ==
    ASSUME NEW s, NEW T, Lists(s, T), s # <<>>
    PROVE  /\ Head(s) \in T /\ \A x \in T : Head(s) <= x
           /\ Lists(Tail(s), T \ {Head(s)})
<1>1. /\ s \in Seq(Nat) /\ Len(s) \in Nat /\ \A i \in 1..Len(s) : s[i] \in T
      /\ \A x \in T : \E i \in 1..Len(s) : s[i] = x
      /\ \A i, j \in 1..Len(s) : i < j => s[i] < s[j]
  BY ListsPlaces
<1>2. Len(s) >= 1 /\ 1 \in 1..Len(s) /\ Head(s) = s[1] /\ s[1] \in Nat
  BY <1>1
<1>3. PICK u \in Seq(Nat) : /\ u = Tail(s) /\ Len(u) = Len(s) - 1
                            /\ \A i \in 1..Len(u) : u[i] = s[i + 1]
  BY <1>1, HeadTailProperties
<1>4. \A i \in 1..Len(s) : s[i] \in Nat
  BY <1>1
<1>5. ASSUME NEW i \in 1..Len(s) PROVE s[1] <= s[i] /\ (i # 1 => s[1] # s[i])
  <2>1. CASE i = 1
    BY <1>2, <2>1
  <2>2. CASE i # 1
    <3>1. s[1] < s[i]
      BY <1>1, <1>2, <2>2
    <3>. QED
      BY <1>2, <1>4, <3>1
  <2>. QED
    BY <2>1, <2>2
<1>6. \A x \in T : Head(s) <= x
  BY <1>1, <1>2, <1>5
<1>7. ASSUME NEW i \in 1..Len(u) PROVE i + 1 \in 1..Len(s) /\ i + 1 # 1 /\ u[i] = s[i + 1]
  BY <1>1, <1>3
<1>8. \A i \in 1..Len(u) : u[i] \in T \ {Head(s)}
  <2>. SUFFICES ASSUME NEW i \in 1..Len(u) PROVE u[i] \in T \ {Head(s)}
    OBVIOUS
  <2>1. PICK j \in 1..Len(s) : j = i + 1 /\ j # 1 /\ u[i] = s[j]
    BY <1>7
  <2>. QED
    BY <1>1, <1>2, <1>5, <2>1
<1>9. ASSUME NEW x \in T \ {Head(s)} PROVE \E i \in 1..Len(u) : u[i] = x
  <2>1. PICK j \in 1..Len(s) : s[j] = x
    BY <1>1
  <2>2. j # 1
    BY <1>2, <2>1
  <2>3. j - 1 \in 1..Len(u) /\ (j - 1) + 1 = j
    BY <1>1, <1>3, <2>2
  <2>4. u[j - 1] = x
    BY <1>3, <2>1, <2>3
  <2>. QED
    BY <2>3, <2>4
<1>10. ASSUME NEW i \in 1..Len(u), NEW j \in 1..Len(u), i < j PROVE u[i] < u[j]
  <2>1. i + 1 < j + 1
    BY <1>1, <1>3, <1>10
  <2>2. s[i + 1] < s[j + 1]
    BY <1>1, <1>7, <2>1
  <2>. QED
    BY <1>7, <2>2
<1>11. Lists(u, T \ {Head(s)})
  BY <1>8, <1>9, <1>10, ListsBy
<1>. QED
  BY <1>1, <1>2, <1>3, <1>6, <1>11

LEMMA ListsInjective ==
    ASSUME NEW s, NEW T, Lists(s, T)
    PROVE  IsInjective(s)
<1>1. /\ s \in Seq(Nat) /\ Len(s) \in Nat /\ DOMAIN s = 1..Len(s)
      /\ \A i, j \in 1..Len(s) : i < j => s[i] < s[j]
  BY ListsPlaces
<1>2. ASSUME NEW a \in 1..Len(s), NEW b \in 1..Len(s), s[a] = s[b] PROVE a = b
  <2>1. s[a] \in Nat /\ s[b] \in Nat
    BY <1>1
  <2>2. ~(a < b) /\ ~(b < a)
    BY <1>1, <1>2, <2>1
  <2>. QED
    BY <2>2
<1>. QED
  BY <1>1, <1>2 DEF IsInjective

-----------------------------------------------------------------------------
(* What Keep keeps *)

Kept(g, s, P) ==
    /\ g[0] = <<>> /\ Keep(s, P) = g[Len(s)]
    /\ \A k \in 1..Len(s) : g[k] = IF s[k] \in P THEN Append(g[k - 1], s[k]) ELSE g[k - 1]

LEMMA KeepIsFunction ==
    ASSUME NEW s \in Seq(Nat), NEW P
    PROVE  \E g : Kept(g, s, P)
<1> DEFINE N == Len(s)
           h == [k \in 1..N |-> [t \in Seq(Nat) |-> IF s[k] \in P THEN Append(t, s[k]) ELSE t]]
           IsIt(f) == f = [k \in 0..N |-> IF k = 0 THEN <<>> ELSE IF s[k] \in P THEN Append(f[k - 1], s[k]) ELSE f[k - 1]]
           g == CHOOSE g : IsIt(g)
<1>1. N \in Nat /\ <<>> \in Seq(Nat) /\ \A k \in 1..N : s[k] \in Nat
  OBVIOUS
<1>. HIDE DEF N
<1>2. h \in Steps(N, Seq(Nat))
  BY <1>1 DEF Steps
<1>3. PICK f \in [0..N -> Seq(Nat)] : f[0] = <<>> /\ \A k \in 1..N : f[k] = h[k][f[k - 1]]
  <2>. HIDE DEF h
  <2>1. \E f : Follows(f, N, Seq(Nat), <<>>, h)
    BY <1>1, <1>2, Recursion
  <2>. QED
    BY <2>1 DEF Follows
<1>4. ASSUME NEW k \in 1..N
      PROVE  f[k] = IF s[k] \in P THEN Append(f[k - 1], s[k]) ELSE f[k - 1]
  <2>1. k - 1 \in 0..N
    BY <1>1
  <2>2. f[k - 1] \in Seq(Nat)
    BY <2>1
  <2>3. f[k] = h[k][f[k - 1]]
    BY <1>3
  <2>. QED
    BY <2>2, <2>3
<1>. HIDE DEF h
<1>5. IsIt(f)
  <2>1. ASSUME NEW k \in 0..N
        PROVE  f[k] = IF k = 0 THEN <<>> ELSE IF s[k] \in P THEN Append(f[k - 1], s[k]) ELSE f[k - 1]
    <3>1. k = 0 \/ k \in 1..N
      BY <1>1
    <3>. QED
      BY <1>3, <1>4, <3>1
  <2>. QED
    BY <2>1
<1>6. IsIt(g)
  <2>. HIDE DEF IsIt
  <2>. QED
    BY <1>5
<1>7. Keep(s, P) = g[N]
  BY DEF Keep, N
<1>. HIDE DEF g
<1>8. \A k \in 0..N : g[k] = IF k = 0 THEN <<>> ELSE IF s[k] \in P THEN Append(g[k - 1], s[k]) ELSE g[k - 1]
  BY <1>6
<1>9. g[0] = <<>>
  BY <1>1, <1>8
<1>10. ASSUME NEW k \in 1..N PROVE g[k] = IF s[k] \in P THEN Append(g[k - 1], s[k]) ELSE g[k - 1]
  <2>1. k \in 0..N /\ k # 0
    BY <1>1
  <2>. QED
    BY <1>8, <2>1
<1>11. Kept(g, s, P)
  BY <1>7, <1>9, <1>10, Zenon DEF Kept, N
<1>. QED
  BY <1>11, Zenon

\* Of a list it keeps the numbers that are in P.
LEMMA ListsKeep ==
    ASSUME NEW s, NEW T, Lists(s, T), NEW P
    PROVE  Lists(Keep(s, P), T \cap P)
<1>1. /\ s \in Seq(Nat) /\ Len(s) \in Nat /\ \A i \in 1..Len(s) : s[i] \in T
      /\ \A x \in T : \E i \in 1..Len(s) : s[i] = x
      /\ \A i, j \in 1..Len(s) : i < j => s[i] < s[j]
  BY ListsPlaces
<1>2. \A i \in 1..Len(s) : s[i] \in Nat
  BY <1>1
<1>3. PICK g : Kept(g, s, P)
  BY <1>1, KeepIsFunction
<1>4. /\ g[0] = <<>> /\ Keep(s, P) = g[Len(s)]
      /\ \A k \in 1..Len(s) : g[k] = IF s[k] \in P THEN Append(g[k - 1], s[k]) ELSE g[k - 1]
  BY <1>3 DEF Kept
<1>. DEFINE Upto(k) == {s[i] : i \in 1..k} \cap P
            Done == {k \in 0..Len(s) : Lists(g[k], Upto(k))}
<1>5. 0 \in Done
  <2>1. Upto(0) = {} /\ 0 \in 0..Len(s)
    BY <1>1
  <2>. HIDE DEF Upto
  <2>2. Lists(g[0], Upto(0))
    BY <1>4, <2>1, ListsNothing, Zenon
  <2>. QED
    BY <2>1, <2>2
<1>6. ASSUME NEW n \in 0..(Len(s) - 1), n \in Done PROVE n + 1 \in Done
  <2>1. PICK k \in 1..Len(s) : k = n + 1 /\ k - 1 = n /\ n \in 0..Len(s) /\ k \in 0..Len(s)
    BY <1>1
  <2>2. Lists(g[n], Upto(n))
    BY <1>6
  <2>3. ASSUME NEW x \in Upto(n) PROVE x < s[k]
    <3>1. PICK i \in 1..n : x = s[i]
      OBVIOUS
    <3>2. i \in 1..Len(s) /\ i < k
      BY <1>1, <2>1
    <3>. QED
      BY <1>1, <3>1, <3>2
  <2>4. \A i : i \in 1..k <=> i \in 1..n \/ i = k
    BY <1>1, <2>1
  <2>5. {s[i] : i \in 1..k} = {s[i] : i \in 1..n} \cup {s[k]}
    BY <2>4
  <2>6. g[k] = IF s[k] \in P THEN Append(g[n], s[k]) ELSE g[n]
    BY <1>4, <2>1
  <2>7. CASE s[k] \in P
    <3>1. Upto(k) = Upto(n) \cup {s[k]}
      BY <2>5, <2>7
    <3>. HIDE DEF Upto
    <3>2. PICK c, t : c = s[k] /\ t = g[n] /\ c \in Nat
      BY <1>2
    <3>3. Lists(Append(t, c), Upto(n) \cup {c})
      BY <2>2, <2>3, <3>2, ListsAppend
    <3>. QED
      BY <2>1, <2>6, <2>7, <3>1, <3>2, <3>3
  <2>8. CASE s[k] \notin P
    <3>1. Upto(k) = Upto(n)
      BY <2>5, <2>8
    <3>. HIDE DEF Upto
    <3>. QED
      BY <2>1, <2>2, <2>6, <2>8, <3>1
  <2>. QED
    BY <2>7, <2>8
<1>7. \A n \in 0..Len(s) : n \in Done
  <2>. HIDE DEF Done
  <2>. QED
    BY <1>1, <1>5, <1>6, UpTo
<1>8. Lists(g[Len(s)], Upto(Len(s)))
  <2>1. Len(s) \in 0..Len(s)
    BY <1>1
  <2>. QED
    BY <1>7, <2>1
<1>9. Upto(Len(s)) = T \cap P
  BY <1>1
<1>. HIDE DEF Upto
<1>. QED
  BY <1>4, <1>8, <1>9

-----------------------------------------------------------------------------
(* The tree *)

\* The nodes have their father before them, level by level.
IsTree(f) ==
    /\ f \in Seq(Nat) /\ Len(f) >= 1 /\ f[1] = 0
    /\ \A n \in 2..Len(f) : f[n] >= 1 /\ f[n] < n
    /\ \A m, n \in 1..Len(f) : m <= n => f[m] <= f[n]

LEMMA TreeNodes ==
    ASSUME IsTree(father)
    PROVE  /\ Len(father) \in Nat /\ Len(father) >= 1 /\ Nodes = 1..Len(father) /\ 1 \in Nodes /\ Nodes \subseteq Nat
           /\ \A n \in Nodes : /\ father[n] \in Nat /\ father[n] < n
                               /\ n # 1 => father[n] \in Nodes
                               /\ father[n] = 0 <=> n = 1
           /\ \A m, n \in Nodes : m <= n => father[m] <= father[n]
<1>1. father \in Seq(Nat) /\ Len(father) >= 1 /\ father[1] = 0 /\ Len(father) \in Nat
  BY DEF IsTree
<1>2. Nodes = 1..Len(father)
  BY <1>1 DEF Nodes
<1>3. 1 \in Nodes /\ Nodes \subseteq Nat
  BY <1>1, <1>2
<1>4. ASSUME NEW n \in Nodes
      PROVE  /\ father[n] \in Nat /\ father[n] < n
             /\ n # 1 => father[n] \in Nodes
             /\ father[n] = 0 <=> n = 1
  <2>1. n \in 1..Len(father) /\ father[n] \in Nat
    BY <1>1, <1>2
  <2>2. CASE n = 1
    BY <1>1, <2>2
  <2>3. CASE n # 1
    <3>1. n \in 2..Len(father)
      BY <1>1, <2>1, <2>3
    <3>2. father[n] >= 1 /\ father[n] < n
      BY <3>1 DEF IsTree
    <3>. QED
      BY <1>1, <1>2, <2>1, <2>3, <3>2
  <2>. QED
    BY <2>2, <2>3
<1>5. \A m, n \in Nodes : m <= n => father[m] <= father[n]
  BY <1>2 DEF IsTree
<1>. QED
  BY <1>1, <1>2, <1>3, <1>4, <1>5

LEMMA ListsChildren ==
    ASSUME IsTree(father), NEW n
    PROVE  Lists(ChildrenOf(n), {c \in Nodes : father[c] = n})
<1>1. Len(father) \in Nat /\ Nodes = 1..Len(father)
  BY TreeNodes
<1>2. PICK s : s = [c \in Nodes |-> c]
  OBVIOUS
<1>3. s \in Seq(Nat) /\ Len(s) = Len(father) /\ \A c \in Nodes : s[c] = c
  BY <1>1, <1>2
<1>4. Lists(s, Nodes)
  BY <1>1, <1>3, ListsBy
<1>5. Lists(Keep(s, {c \in Nodes : father[c] = n}), Nodes \cap {c \in Nodes : father[c] = n})
  BY <1>4, ListsKeep
<1>6. Nodes \cap {c \in Nodes : father[c] = n} = {c \in Nodes : father[c] = n}
  OBVIOUS
<1>. QED
  BY <1>2, <1>5, <1>6 DEF ChildrenOf

\* The nodes above a node are itself and those above its father.
LEMMA AboveIs ==
    ASSUME IsTree(father)
    PROVE  Above(0) = {} /\ \A n \in Nodes : Above(n) = {n} \cup Above(father[n])
<1> DEFINE N == Len(father)
           IsUp(f) == f = [m \in 0..N |-> IF m = 0 THEN {} ELSE {m} \cup f[father[m]]]
           Upto(n) == \E f : f = [m \in 0..n |-> IF m = 0 THEN {} ELSE {m} \cup f[father[m]]]
           T == {n \in 0..N : Upto(n)}
           up == CHOOSE f : IsUp(f)
<1>1. N \in Nat /\ Nodes = 1..N /\ \A m \in 1..N : father[m] \in Nat /\ father[m] < m
  BY TreeNodes
<1>. HIDE DEF N
<1>2. Upto(0)
  <2>. DEFINE f == [m \in 0..0 |-> {}]
  <2>1. f = [m \in 0..0 |-> IF m = 0 THEN {} ELSE {m} \cup f[father[m]]]
    OBVIOUS
  <2>. HIDE DEF f
  <2>. QED
    BY <2>1
<1>3. ASSUME NEW n \in 0..(N - 1), Upto(n) PROVE Upto(n + 1)
  <2>1. PICK f : f = [m \in 0..n |-> IF m = 0 THEN {} ELSE {m} \cup f[father[m]]]
    BY <1>3
  <2>2. \A m \in 0..n : f[m] = IF m = 0 THEN {} ELSE {m} \cup f[father[m]]
    BY <2>1
  <2>3. PICK k \in 1..N : k = n + 1
    BY <1>1
  <2>. DEFINE g == [m \in 0..k |-> IF m = k THEN {k} \cup f[father[k]] ELSE f[m]]
  <2>4. \A m \in 0..k : m = k \/ m \in 0..n
    BY <2>3
  <2>5. ASSUME NEW m \in 0..k PROVE g[m] = IF m = 0 THEN {} ELSE {m} \cup g[father[m]]
    <3>1. CASE m = 0
      <4>1. m # k /\ m \in 0..n
        BY <2>3, <3>1
      <4>. QED
        BY <2>2, <3>1, <4>1
    <3>2. CASE m # 0
      <4>1. m \in 1..N /\ m # 0
        BY <1>1, <2>3, <3>2
      <4>2. father[m] \in 0..n /\ father[m] # k /\ father[m] \in 0..k
        BY <1>1, <2>3, <4>1
      <4>3. g[father[m]] = f[father[m]]
        BY <4>2
      <4>4. g[m] = {m} \cup f[father[m]]
        <5>1. CASE m = k
          BY <5>1
        <5>2. CASE m # k
          <6>1. m \in 0..n /\ g[m] = f[m]
            BY <2>4, <5>2
          <6>. QED
            BY <2>2, <3>2, <6>1
        <5>. QED
          BY <5>1, <5>2
      <4>. HIDE DEF g
      <4>. QED
        BY <3>2, <4>3, <4>4
    <3>. QED
      BY <3>1, <3>2
  <2>6. g = [m \in 0..k |-> IF m = 0 THEN {} ELSE {m} \cup g[father[m]]]
    BY <2>5
  <2>. HIDE DEF g
  <2>. QED
    BY <2>3, <2>6
<1>4. Upto(N)
  <2>. HIDE DEF Upto
  <2>1. 0 \in T /\ \A n \in 0..(N - 1) : n \in T => n + 1 \in T
    BY <1>1, <1>2, <1>3
  <2>2. \A n \in 0..N : n \in T
    <3>. HIDE DEF T
    <3>. QED
      BY <1>1, <2>1, UpTo
  <2>3. N \in 0..N
    BY <1>1
  <2>. QED
    BY <2>2, <2>3
<1>5. IsUp(up)
  <2>1. \E f : IsUp(f)
    BY <1>4
  <2>. HIDE DEF IsUp
  <2>. QED
    BY <2>1
<1>6. \A n : Above(n) = up[n]
  BY DEF Above, N
<1>. HIDE DEF up
<1>7. \A m \in 0..N : up[m] = IF m = 0 THEN {} ELSE {m} \cup up[father[m]]
  BY <1>5
<1>8. Above(0) = {}
  <2>1. 0 \in 0..N
    BY <1>1
  <2>2. up[0] = {}
    BY <1>7, <2>1
  <2>. QED
    BY <1>6, <2>2, Zenon
<1>9. ASSUME NEW n \in Nodes PROVE Above(n) = {n} \cup Above(father[n])
  <2>1. n \in 0..N /\ n # 0
    BY <1>1
  <2>. QED
    BY <1>6, <1>7, <2>1
<1>. QED
  BY <1>8, <1>9

\* They are nodes, and none comes after it.
LEMMA AboveBefore ==
    ASSUME IsTree(father)
    PROVE  \A n \in Nodes : n \in Above(n) /\ \A m \in Above(n) : m \in Nodes /\ m <= n
<1> DEFINE N == Len(father)
           T == {n \in 0..N : \A k \in 0..n : \A m \in Above(k) : m \in Nodes /\ m <= k}
<1>1. N \in Nat /\ Nodes = 1..N /\ \A m \in 1..N : father[m] \in Nat /\ father[m] < m
  BY TreeNodes
<1>2. Above(0) = {} /\ \A n \in Nodes : Above(n) = {n} \cup Above(father[n])
  BY AboveIs
<1>. HIDE DEF N
<1>3. 0 \in T
  BY <1>1, <1>2
<1>4. ASSUME NEW n \in 0..(N - 1), n \in T PROVE n + 1 \in T
  <2>1. ASSUME NEW k \in 0..(n + 1), NEW m \in Above(k) PROVE m \in Nodes /\ m <= k
    <3>1. CASE k \in 0..n
      BY <1>4, <3>1
    <3>2. CASE k = n + 1
      <4>1. k \in 1..N /\ father[k] \in 0..n
        BY <1>1, <3>2
      <4>2. m = k \/ m \in Above(father[k])
        BY <1>1, <1>2, <4>1
      <4>3. m \in Above(father[k]) => m \in Nodes /\ m <= father[k]
        BY <1>4, <4>1
      <4>. QED
        BY <1>1, <4>1, <4>2, <4>3
    <3>. QED
      BY <3>1, <3>2
  <2>. QED
    BY <1>1, <2>1
<1>5. \A n \in 0..N : n \in T
  <2>. HIDE DEF T
  <2>. QED
    BY <1>1, <1>3, <1>4, UpTo
<1>6. ASSUME NEW n \in Nodes PROVE n \in Above(n) /\ \A m \in Above(n) : m \in Nodes /\ m <= n
  <2>1. n \in 0..N /\ n \in 0..n
    BY <1>1
  <2>2. n \in T
    BY <1>5, <2>1
  <2>. QED
    BY <1>2, <2>1, <2>2
<1>. QED
  BY <1>6

-----------------------------------------------------------------------------
(* A part of the tree, gone through level by level *)

\* R is a part of the tree that hangs from r.
HangsFrom(R, r) ==
    /\ r \in R /\ R \subseteq Nodes
    /\ \A m \in R : m # r => father[m] \in R

\* The nodes of R a queue holds when those up to h have been visited.
Frontier(R, r, h) == {m \in R : m > h /\ (m = r \/ father[m] <= h)}

LEMMA RootFirst ==
    ASSUME IsTree(father), NEW R, NEW r, HangsFrom(R, r)
    PROVE  \A m \in R : r <= m
<1>1. R \subseteq Nat /\ R # {} /\ R \subseteq Nodes /\ r \in Nat
  BY TreeNodes DEF HangsFrom
<1>2. PICK x \in R : \A y \in R : x <= y
  BY <1>1, LeastExists
<1>3. ASSUME x # r PROVE FALSE
  <2>1. father[x] \in R
    BY <1>3 DEF HangsFrom
  <2>2. father[x] < x /\ father[x] \in Nat /\ x \in Nat
    BY <1>1, TreeNodes
  <2>3. x <= father[x]
    BY <1>2, <2>1
  <2>. QED
    BY <2>2, <2>3
<1>. QED
  BY <1>2, <1>3

\* What has not been visited hangs from what the queue holds.
LEMMA FrontFirst ==
    ASSUME IsTree(father), NEW R, NEW r, HangsFrom(R, r), NEW h \in Nat, NEW x \in R, x > h
    PROVE  \E a \in Frontier(R, r, h) : a <= x
<1> DEFINE S == {m \in R : m > h}
<1>1. S \subseteq Nat /\ S # {} /\ R \subseteq Nodes
  BY TreeNodes DEF HangsFrom
<1>2. PICK a \in S : \A y \in S : a <= y
  <2>. HIDE DEF S
  <2>. QED
    BY <1>1, LeastExists
<1>3. ASSUME a # r PROVE father[a] <= h
  <2>1. father[a] \in R
    BY <1>3 DEF HangsFrom
  <2>2. father[a] < a /\ father[a] \in Nat /\ a \in Nat
    BY <1>1, TreeNodes
  <2>3. father[a] \notin S
    BY <1>2, <2>2
  <2>. QED
    BY <2>1, <2>2, <2>3
<1>4. a \in Frontier(R, r, h)
  BY <1>3 DEF Frontier
<1>. QED
  BY <1>2, <1>4

\* One round: the first node of the queue goes and its children come, after all others.
LEMMA FrontMoves ==
    ASSUME IsTree(father), NEW R, NEW r, HangsFrom(R, r), NEW h \in Nat,
           NEW n \in Frontier(R, r, h), \A x \in Frontier(R, r, h) : n <= x
    PROVE  /\ n \in R /\ n \in Nodes
           /\ {m \in R : m <= n} = {m \in R : m <= h} \cup {n}
           /\ Frontier(R, r, n) = (Frontier(R, r, h) \ {n}) \cup {m \in R : father[m] = n}
           /\ \A x \in Frontier(R, r, h) \ {n}, c \in Nodes : father[c] = n => x < c
<1>1. R \subseteq Nodes /\ n \in R /\ n > h /\ n \in Nat /\ Nodes \subseteq Nat
  BY TreeNodes DEF HangsFrom, Frontier
<1>2. \A m \in R : r <= m
  BY RootFirst
<1>3. r \in Nat /\ r \in R /\ \A m \in R : m \in Nat /\ father[m] \in Nat /\ father[m] < m
  BY <1>1, TreeNodes DEF HangsFrom
<1>4. ASSUME NEW m \in R, m > h, m < n PROVE FALSE
  <2>1. PICK a \in Frontier(R, r, h) : a <= m
    BY <1>4, FrontFirst
  <2>2. n <= a /\ a \in Nat
    BY <1>1, <2>1 DEF Frontier
  <2>. QED
    BY <1>1, <1>3, <1>4, <2>1, <2>2
<1>5. ASSUME NEW m \in R PROVE m <= n <=> m <= h \/ m = n
  BY <1>1, <1>3, <1>4
<1>6. ASSUME NEW m \in R
      PROVE  m \in Frontier(R, r, n) <=> (m \in Frontier(R, r, h) /\ m # n) \/ father[m] = n
  <2>1. ASSUME m \in Frontier(R, r, n) PROVE (m \in Frontier(R, r, h) /\ m # n) \/ father[m] = n
    <3>1. m > n /\ m # r /\ father[m] <= n
      BY <1>1, <1>2, <1>3, <2>1 DEF Frontier
    <3>2. father[m] \in R
      BY <3>1 DEF HangsFrom
    <3>3. father[m] <= h \/ father[m] = n
      BY <1>5, <3>1, <3>2
    <3>. QED
      BY <1>1, <1>3, <3>1, <3>3 DEF Frontier
  <2>2. ASSUME m \in Frontier(R, r, h), m # n PROVE m \in Frontier(R, r, n)
    <3>1. n <= m /\ (m = r \/ father[m] <= h)
      BY <2>2 DEF Frontier
    <3>2. m > n /\ (m = r \/ father[m] <= n)
      BY <1>1, <1>3, <2>2, <3>1
    <3>. QED
      BY <3>2 DEF Frontier
  <2>3. ASSUME father[m] = n PROVE m \in Frontier(R, r, n)
    BY <1>1, <1>3, <2>3 DEF Frontier
  <2>. QED
    BY <2>1, <2>2, <2>3
<1>7. ASSUME NEW x \in Frontier(R, r, h) \ {n}, NEW c \in Nodes, father[c] = n PROVE x < c
  <2>1. x \in R /\ x \in Nodes /\ n <= x /\ x # n /\ (x = r \/ father[x] <= h)
    BY <1>1 DEF Frontier
  <2>2. father[x] <= h /\ father[x] \in Nat /\ x \in Nat /\ c \in Nat
    BY <1>1, <1>2, <1>3, <2>1
  <2>3. c <= x => n <= father[x]
    BY <1>7, <2>1, TreeNodes
  <2>. QED
    BY <1>1, <2>2, <2>3
<1>8. Frontier(R, r, n) \subseteq R /\ Frontier(R, r, h) \subseteq R
  BY DEF Frontier
<1>9. Frontier(R, r, n) = (Frontier(R, r, h) \ {n}) \cup {m \in R : father[m] = n}
  BY <1>6, <1>8
<1>10. {m \in R : m <= n} = {m \in R : m <= h} \cup {n}
  BY <1>1, <1>5
<1>. QED
  BY <1>1, <1>7, <1>9, <1>10

-----------------------------------------------------------------------------
(* The queue of GetNodesByName *)

LEMMA BelowHangs ==
    ASSUME IsTree(father), NEW r \in Nodes
    PROVE  /\ HangsFrom(Below(r), r)
           /\ \A n \in Below(r), c \in Nodes : father[c] = n => c \in Below(r)
<1>1. Below(r) \subseteq Nodes /\ \A m \in Nodes : m \in Below(r) <=> r \in Above(m)
  BY DEF Below
<1>2. Above(0) = {} /\ \A n \in Nodes : Above(n) = {n} \cup Above(father[n])
  BY AboveIs
<1>3. \A n \in Nodes : n # 1 => father[n] \in Nodes
  BY TreeNodes
<1>4. father[1] = 0 /\ 1 \in Nodes
  BY TreeNodes
<1>5. r \in Below(r)
  BY <1>1, AboveBefore
<1>6. ASSUME NEW m \in Below(r), m # r PROVE father[m] \in Below(r)
  <2>1. m \in Nodes /\ r \in Above(father[m])
    BY <1>1, <1>2, <1>6
  <2>2. m # 1
    BY <1>2, <1>4, <2>1
  <2>. QED
    BY <1>1, <1>3, <2>1, <2>2
<1>7. \A n \in Below(r), c \in Nodes : father[c] = n => c \in Below(r)
  BY <1>1, <1>2
<1>. QED
  BY <1>1, <1>5, <1>6, <1>7 DEF HangsFrom

Queues(g, n) ==
    /\ g[0] = <<n>> /\ Queue(n) = g[Len(father)]
    /\ \A k \in 1..Len(father) :
         g[k] = IF k <= Len(g[k - 1]) THEN g[k - 1] \o ChildrenOf(g[k - 1][k]) ELSE g[k - 1]

LEMMA QueueIsFunction ==
    ASSUME IsTree(father), NEW n \in Nodes
    PROVE  \E g : Queues(g, n)
<1> DEFINE N == Len(father)
           On(s, k) == IF k <= Len(s) THEN s \o ChildrenOf(s[k]) ELSE s
           h == [k \in 1..N |-> [s \in Seq(Nat) |-> On(s, k)]]
           IsIt(f) == f = [k \in 0..N |-> IF k = 0 THEN <<n>>
                                          ELSE LET s == f[k - 1]
                                               IN  IF k <= Len(s) THEN s \o ChildrenOf(s[k]) ELSE s]
           g == CHOOSE g : IsIt(g)
<1>1. N \in Nat /\ n \in Nat /\ <<n>> \in Seq(Nat)
  BY TreeNodes
<1>. HIDE DEF N
<1>2. ASSUME NEW s \in Seq(Nat), NEW k \in 1..N PROVE On(s, k) \in Seq(Nat)
  <2>1. PICK u \in Seq(Nat) : u = ChildrenOf(s[k])
    BY ListsChildren DEF Lists
  <2>2. s \o u \in Seq(Nat)
    BY ConcatProperties
  <2>. QED
    BY <2>1, <2>2
<1>. HIDE DEF On
<1>3. h \in Steps(N, Seq(Nat))
  BY <1>2 DEF Steps
<1>4. PICK f \in [0..N -> Seq(Nat)] : f[0] = <<n>> /\ \A k \in 1..N : f[k] = h[k][f[k - 1]]
  <2>. HIDE DEF h
  <2>1. \E f : Follows(f, N, Seq(Nat), <<n>>, h)
    BY <1>1, <1>3, Recursion
  <2>. QED
    BY <2>1 DEF Follows
<1>5. ASSUME NEW k \in 1..N PROVE f[k] = On(f[k - 1], k)
  <2>1. k - 1 \in 0..N
    BY <1>1
  <2>2. f[k - 1] \in Seq(Nat)
    BY <2>1
  <2>3. f[k] = h[k][f[k - 1]]
    BY <1>4
  <2>. QED
    BY <2>2, <2>3
<1>. HIDE DEF h
<1>6. IsIt(f)
  <2>1. ASSUME NEW k \in 0..N PROVE f[k] = IF k = 0 THEN <<n>> ELSE On(f[k - 1], k)
    <3>1. k = 0 \/ k \in 1..N
      BY <1>1
    <3>. QED
      BY <1>4, <1>5, <3>1
  <2>2. f = [k \in 0..N |-> IF k = 0 THEN <<n>> ELSE On(f[k - 1], k)]
    BY <2>1
  <2>. QED
    BY <2>2, Zenon DEF On
<1>7. IsIt(g)
  <2>. HIDE DEF IsIt
  <2>. QED
    BY <1>6
<1>8. Queue(n) = g[N]
  BY DEF Queue, N
<1>. HIDE DEF g
<1>9. \A k \in 0..N : g[k] = IF k = 0 THEN <<n>> ELSE On(g[k - 1], k)
  <2>1. g = [k \in 0..N |-> IF k = 0 THEN <<n>> ELSE On(g[k - 1], k)]
    BY <1>7, Zenon DEF On
  <2>. HIDE DEF IsIt
  <2>. QED
    BY <2>1
<1>10. g[0] = <<n>>
  <2>1. 0 \in 0..N
    BY <1>1
  <2>. QED
    BY <1>9, <2>1
<1>11. ASSUME NEW k \in 1..N PROVE g[k] = On(g[k - 1], k)
  <2>1. k \in 0..N /\ k # 0
    BY <1>1
  <2>. QED
    BY <1>9, <2>1
<1>12. Queues(g, n)
  BY <1>8, <1>10, <1>11, Zenon DEF Queues, N, On
<1>. QED
  BY <1>12, Zenon

\* A list of positive numbers is no longer than any of them allows.
LEMMA ListsShort ==
    ASSUME NEW s, NEW T, Lists(s, T), 0 \notin T
    PROVE  \A i \in 1..Len(s) : i <= s[i]
<1>1. /\ s \in Seq(Nat) /\ Len(s) \in Nat /\ \A i \in 1..Len(s) : s[i] \in T
      /\ \A i, j \in 1..Len(s) : i < j => s[i] < s[j]
  BY ListsPlaces
<1>2. \A i \in 1..Len(s) : s[i] \in Nat /\ s[i] # 0
  BY <1>1
<1>. DEFINE M == {i \in 0..Len(s) : i = 0 \/ i <= s[i]}
<1>3. ASSUME NEW i \in 0..(Len(s) - 1), i \in M PROVE i + 1 \in M
  <2>1. PICK j \in 1..Len(s) : j = i + 1 /\ j \in 0..Len(s)
    BY <1>1
  <2>2. j <= s[j]
    <3>1. CASE i = 0
      BY <1>2, <2>1, <3>1
    <3>2. CASE i # 0
      <4>1. i \in 1..Len(s) /\ i <= s[i]
        BY <1>1, <1>3, <3>2
      <4>2. s[i] < s[j]
        BY <1>1, <2>1, <4>1
      <4>. QED
        BY <1>2, <2>1, <4>1, <4>2
    <3>. QED
      BY <3>1, <3>2
  <2>. QED
    BY <2>1, <2>2
<1>4. \A i \in 0..Len(s) : i \in M
  <2>1. 0 \in M
    BY <1>1
  <2>. HIDE DEF M
  <2>. QED
    BY <1>1, <1>3, <2>1, UpTo
<1>. QED
  BY <1>1, <1>4

\* What the queue holds of R once the nodes up to h have been visited, k in number.
Seen(R, r, h) == {m \in R : m <= h} \cup Frontier(R, r, h)
HasVisited(s, k, R, r, h) ==
    h \in Nat /\ Lists(s, Seen(R, r, h)) /\ \A i \in 1..Len(s) : s[i] <= h <=> i <= k

LEMMA FrontStarts ==
    ASSUME IsTree(father), NEW R, NEW r, HangsFrom(R, r)
    PROVE  Frontier(R, r, 0) = {r} /\ {m \in R : m <= 0} = {}
<1>1. /\ R \subseteq Nodes /\ r \in R
      /\ \A m \in Nodes : m \in Nat /\ m > 0 /\ father[m] \in Nat /\ (father[m] = 0 <=> m = 1)
  BY TreeNodes DEF HangsFrom
<1>2. \A m \in R : r <= m
  BY RootFirst
<1>3. ASSUME NEW m \in R, father[m] <= 0 PROVE m = r
  <2>1. m = 1 /\ r > 0 /\ r \in Nat
    BY <1>1, <1>3
  <2>. QED
    BY <1>2, <2>1
<1>. QED
  BY <1>1, <1>3 DEF Frontier

\* One round of the loop: k is the place it looks at.
LEMMA QueueMoves ==
    ASSUME IsTree(father), NEW n \in Nodes, NEW R, R = Below(n), NEW h, NEW s, NEW k \in Nat \ {0},
           HasVisited(s, k - 1, R, n, h), k <= Len(s)
    PROVE  HasVisited(s \o ChildrenOf(s[k]), k, R, n, s[k])
<1>1. h \in Nat /\ Lists(s, Seen(R, n, h)) /\ \A i \in 1..Len(s) : s[i] <= h <=> i <= k - 1
  BY DEF HasVisited
<1>2. /\ s \in Seq(Nat) /\ Len(s) \in Nat /\ \A i \in 1..Len(s) : s[i] \in Seen(R, n, h)
      /\ \A x \in Seen(R, n, h) : \E i \in 1..Len(s) : s[i] = x
      /\ \A i, j \in 1..Len(s) : i < j => s[i] < s[j]
  BY <1>1, ListsPlaces
<1>3. HangsFrom(R, n) /\ \A m \in R, c \in Nodes : father[c] = m => c \in R
  BY BelowHangs
<1>4. R \subseteq Nodes /\ \A m \in Nodes : m \in Nat /\ father[m] \in Nat /\ father[m] < m
  BY <1>3, TreeNodes DEF HangsFrom
<1>5. k \in 1..Len(s) /\ k \in Nat
  BY <1>2
<1>6. PICK x : x = s[k]
  OBVIOUS
<1>7. x \in Frontier(R, n, h) /\ x \in Nat
  <2>1. x \in Nat /\ ~(x <= h) /\ x \in Seen(R, n, h)
    BY <1>1, <1>2, <1>5, <1>6
  <2>. QED
    BY <2>1 DEF Seen
<1>8. ASSUME NEW y \in Frontier(R, n, h) PROVE x <= y
  <2>1. y \in Nat /\ ~(y <= h)
    BY <1>1, <1>4 DEF Frontier
  <2>2. PICK j \in 1..Len(s) : s[j] = y
    BY <1>2 DEF Seen
  <2>3. ~(j <= k - 1)
    BY <1>1, <2>1, <2>2
  <2>4. j = k \/ k < j
    BY <1>5, <2>3
  <2>. QED
    BY <1>2, <1>5, <1>6, <1>7, <2>1, <2>2, <2>4
<1>9. /\ x \in R /\ x \in Nodes
      /\ {m \in R : m <= x} = {m \in R : m <= h} \cup {x}
      /\ Frontier(R, n, x) = (Frontier(R, n, h) \ {x}) \cup {m \in R : father[m] = x}
      /\ \A y \in Frontier(R, n, h) \ {x}, c \in Nodes : father[c] = x => y < c
  BY <1>1, <1>3, <1>7, <1>8, FrontMoves
<1>. DEFINE C == {c \in Nodes : father[c] = x}
<1>10. C = {m \in R : father[m] = x}
  BY <1>3, <1>4, <1>9
<1>11. Seen(R, n, x) = Seen(R, n, h) \cup C
  BY <1>7, <1>9, <1>10 DEF Seen
<1>12. ASSUME NEW y \in Seen(R, n, h), NEW c \in C PROVE y < c
  <2>1. c \in Nat /\ x < c
    BY <1>4
  <2>2. y \in Frontier(R, n, h) \ {x} \/ (y \in Nat /\ y <= x)
    <3>1. y \in R \/ y \in Frontier(R, n, h)
      BY DEF Seen
    <3>2. y \in Frontier(R, n, h) \ {x} \/ y = x \/ (y \in R /\ y <= h)
      BY DEF Seen
    <3>3. x > h
      BY <1>7 DEF Frontier
    <3>. QED
      BY <1>1, <1>4, <1>7, <3>2, <3>3
  <2>3. c \in Nodes /\ father[c] = x
    OBVIOUS
  <2>4. CASE y \in Frontier(R, n, h) \ {x}
    BY <1>9, <2>3, <2>4, Zenon
  <2>5. CASE y \in Nat /\ y <= x
    BY <1>7, <2>1, <2>5
  <2>. QED
    BY <2>2, <2>4, <2>5
<1>13. Lists(ChildrenOf(x), C)
  BY ListsChildren
<1>. HIDE DEF C
<1>14. PICK u : u = ChildrenOf(x)
  OBVIOUS
<1>15. Lists(s \o u, Seen(R, n, x))
  BY <1>1, <1>11, <1>12, <1>13, <1>14, ListsConcat
<1>16. ASSUME NEW i \in 1..Len(s \o u) PROVE (s \o u)[i] <= x <=> i <= k
  <2>1. /\ s \o u \in Seq(Nat) /\ Len(s \o u) \in Nat
        /\ \A a, b \in 1..Len(s \o u) : a < b => (s \o u)[a] < (s \o u)[b]
    BY <1>15, ListsPlaces
  <2>2. u \in Seq(Nat) /\ Len(u) \in Nat
    BY <1>13, <1>14, ListsPlaces
  <2>3. PICK w \in Seq(Nat) : w = s \o u
    BY <2>1
  <2>4. Len(w) = Len(s) + Len(u) /\ \A a \in 1..(Len(s) + Len(u)) : w[a] = IF a <= Len(s) THEN s[a] ELSE u[a - Len(s)]
    BY <1>2, <2>2, <2>3, ConcatProperties
  <2>5. k \in 1..Len(w) /\ w[k] = x
    <3>1. k \in 1..(Len(s) + Len(u)) /\ k <= Len(s)
      BY <1>2, <1>5, <2>2
    <3>2. w[k] = s[k]
      BY <2>4, <3>1
    <3>. QED
      BY <1>6, <2>4, <3>1, <3>2, Zenon
  <2>6. i \in 1..Len(w) /\ w[i] \in Nat /\ \A a, b \in 1..Len(w) : a < b => w[a] < w[b]
    <3>1. i \in 1..Len(w) /\ \A a, b \in 1..Len(w) : a < b => w[a] < w[b]
      BY <2>1, <2>3, Zenon
    <3>. QED
      BY <3>1
  <2>7. w[i] <= x <=> i <= k
    <3>1. CASE i < k
      BY <1>5, <1>7, <2>5, <2>6, <3>1
    <3>2. CASE i = k
      BY <1>7, <2>5, <3>2
    <3>3. CASE k < i
      BY <1>5, <1>7, <2>5, <2>6, <3>3
    <3>. QED
      BY <1>5, <2>6, <3>1, <3>2, <3>3
  <2>. QED
    BY <2>3, <2>7
<1>17. HasVisited(s \o u, k, R, n, x)
  BY <1>7, <1>15, <1>16, Zenon DEF HasVisited
<1>. QED
  BY <1>6, <1>14, <1>17, Zenon

\* GetNodesByName goes through each node below n, n itself included, once and in order.
LEMMA ListsQueue ==
    ASSUME IsTree(father), NEW n \in Nodes
    PROVE  Lists(Queue(n), Below(n))
<1> DEFINE N == Len(father)
           R == Below(n)
<1>1. /\ N \in Nat /\ Nodes = 1..N /\ n \in Nat
  BY TreeNodes
<1>2. HangsFrom(R, n) /\ R \subseteq Nodes
  BY BelowHangs DEF HangsFrom
<1>3. PICK g : Queues(g, n)
  BY QueueIsFunction
<1>4. /\ g[0] = <<n>> /\ Queue(n) = g[N]
      /\ \A k \in 1..N : g[k] = IF k <= Len(g[k - 1]) THEN g[k - 1] \o ChildrenOf(g[k - 1][k]) ELSE g[k - 1]
  BY <1>3 DEF Queues
<1>. HIDE DEF N, R
<1>. DEFINE Visited(k) == \E h : HasVisited(g[k], k, R, n, h)
            T == {k \in 0..N : Visited(k)}
<1>5. Visited(0)
  <2>1. Frontier(R, n, 0) = {n} /\ {m \in R : m <= 0} = {}
    BY <1>2, FrontStarts
  <2>2. Seen(R, n, 0) = {n}
    BY <2>1 DEF Seen
  <2>3. Lists(g[0], Seen(R, n, 0))
    BY <1>1, <1>4, <2>2, ListsOne, Zenon
  <2>4. n # 0
    BY <1>1
  <2>5. ASSUME NEW i \in 1..Len(g[0]) PROVE g[0][i] <= 0 <=> i <= 0
    <3>1. g[0][i] \in Seen(R, n, 0) /\ i \in Nat /\ i # 0
      BY <2>3, ListsPlaces
    <3>. QED
      BY <1>1, <2>2, <2>4, <3>1
  <2>6. HasVisited(g[0], 0, R, n, 0)
    BY <2>3, <2>5 DEF HasVisited
  <2>. QED
    BY <2>6, Zenon
<1>6. ASSUME NEW k \in 1..N, Visited(k - 1) PROVE Visited(k)
  <2>1. PICK s, h : s = g[k - 1] /\ HasVisited(s, k - 1, R, n, h)
    BY <1>6
  <2>2. g[k] = IF k <= Len(s) THEN s \o ChildrenOf(s[k]) ELSE s
    BY <1>4, <2>1
  <2>3. CASE k <= Len(s)
    <3>1. k \in Nat \ {0} /\ R = Below(n)
      BY <1>1 DEF R
    <3>2. HasVisited(s \o ChildrenOf(s[k]), k, R, n, s[k])
      BY <2>1, <2>3, <3>1, QueueMoves
    <3>. QED
      BY <2>2, <2>3, <3>2, Zenon
  <2>4. CASE ~(k <= Len(s))
    <3>1. h \in Nat /\ Lists(s, Seen(R, n, h)) /\ \A i \in 1..Len(s) : s[i] <= h <=> i <= k - 1
      BY <2>1 DEF HasVisited
    <3>2. Len(s) \in Nat
      BY <3>1, ListsPlaces
    <3>3. \A i \in 1..Len(s) : s[i] <= h <=> i <= k
      BY <1>1, <2>4, <3>1, <3>2
    <3>4. HasVisited(s, k, R, n, h)
      BY <3>1, <3>3 DEF HasVisited
    <3>. QED
      BY <2>2, <2>4, <3>4
  <2>. QED
    BY <2>3, <2>4
<1>. HIDE DEF Visited
<1>7. ASSUME NEW k \in 0..(N - 1), k \in T PROVE k + 1 \in T
  <2>1. k + 1 \in 1..N /\ (k + 1) - 1 = k /\ k + 1 \in 0..N
    BY <1>1
  <2>2. PICK j \in 1..N : j = k + 1
    BY <2>1
  <2>3. Visited(j - 1)
    BY <1>7, <2>1, <2>2
  <2>4. Visited(j)
    BY <1>6, <2>3
  <2>. QED
    BY <2>1, <2>2, <2>4
<1>8. Visited(N)
  <2>1. 0 \in T /\ N \in 0..N
    BY <1>1, <1>5
  <2>2. \A k \in 0..N : k \in T
    <3>. HIDE DEF T
    <3>. QED
      BY <1>1, <1>7, <2>1, UpTo
  <2>. QED
    BY <2>1, <2>2
<1>9. PICK s, h : s = g[N] /\ HasVisited(s, N, R, n, h)
  BY <1>8 DEF Visited
<1>10. h \in Nat /\ Lists(s, Seen(R, n, h)) /\ \A i \in 1..Len(s) : s[i] <= h <=> i <= N
  BY <1>9 DEF HasVisited
<1>11. ASSUME NEW a \in Frontier(R, n, h) PROVE FALSE
  <2>1. a \in 1..N /\ a > h /\ a \in Seen(R, n, h)
    BY <1>1, <1>2 DEF Frontier, Seen
  <2>2. PICK i \in 1..Len(s) : s[i] = a
    BY <1>10, <2>1, ListsPlaces
  <2>3. i \in Nat /\ ~(i <= N)
    BY <1>1, <1>10, <2>1, <2>2
  <2>4. 0 \notin Seen(R, n, h)
    BY <1>1, <1>2 DEF Seen, Frontier
  <2>5. i <= s[i]
    BY <1>10, <2>4, ListsShort
  <2>. QED
    BY <1>1, <2>1, <2>2, <2>3, <2>5
<1>12. ASSUME NEW x \in R, ~(x <= h) PROVE FALSE
  <2>1. x > h
    BY <1>1, <1>2, <1>10, <1>12
  <2>. QED
    BY <1>2, <1>10, <1>11, <2>1, FrontFirst
<1>13. Seen(R, n, h) = R
  BY <1>11, <1>12 DEF Seen
<1>. QED
  BY <1>4, <1>9, <1>10, <1>13 DEF R

LEMMA BelowRoot ==
    ASSUME IsTree(father)
    PROVE  Below(1) = Nodes
<1> DEFINE S == {m \in Nodes : m \notin Below(1)}
<1>1. /\ 1 \in Nodes /\ Nodes \subseteq Nat
      /\ \A n \in Nodes : father[n] \in Nat /\ father[n] < n /\ (n # 1 => father[n] \in Nodes)
  BY TreeNodes
<1>2. /\ HangsFrom(Below(1), 1)
      /\ \A n \in Below(1), c \in Nodes : father[c] = n => c \in Below(1)
  BY <1>1, BelowHangs
<1>3. SUFFICES ASSUME S # {} PROVE FALSE
  BY DEF Below
<1>4. PICK x \in S : \A y \in S : x <= y
  <2>1. S \in SUBSET Nat
    BY <1>1
  <2>. HIDE DEF S
  <2>. QED
    BY <1>3, <2>1, LeastExists
<1>5. x # 1 /\ x \in Nodes /\ x \notin Below(1)
  BY <1>2 DEF HangsFrom
<1>6. father[x] \in Nodes /\ father[x] \notin S
  BY <1>1, <1>4, <1>5
<1>. QED
  BY <1>2, <1>5, <1>6

-----------------------------------------------------------------------------
(* What Parse finds *)

\* GetNodesByName lists the nodes of a kind below n.
LEMMA ListsByName ==
    ASSUME IsTree(father), NEW n \in Nodes, NEW name
    PROVE  Lists(GetNodesByName(n, name), Below(n) \cap OfKind(name))
<1>1. PICK s, P : s = Queue(n) /\ P = OfKind(name)
  OBVIOUS
<1>2. Lists(s, Below(n))
  BY <1>1, ListsQueue
<1>3. Lists(Keep(s, P), Below(n) \cap P)
  BY <1>2, ListsKeep
<1>. QED
  BY <1>1, <1>3 DEF GetNodesByName

LEMMA ListsContracts ==
    ASSUME IsTree(father)
    PROVE  Lists(Keep(GetNodesByName(1, "ContractDefinition"), Contracts), Contracts)
<1>1. PICK name : name = "ContractDefinition"
  OBVIOUS
<1>2. 1 \in Nodes /\ Below(1) = Nodes
  BY BelowRoot, TreeNodes
<1>3. PICK s, T : s = GetNodesByName(1, name) /\ T = Below(1) \cap OfKind(name)
  OBVIOUS
<1>4. Lists(s, T)
  BY <1>2, <1>3, ListsByName
<1>5. Lists(Keep(s, Contracts), T \cap Contracts)
  BY <1>4, ListsKeep
<1>6. T \cap Contracts = Contracts
  BY <1>1, <1>2, <1>3 DEF Contracts, OfKind
<1>. QED
  BY <1>1, <1>3, <1>5, <1>6

\* A contract's children are its members that have a name.
LEMMA ListsMembers ==
    ASSUME IsTree(father), NEW n
    PROVE  Lists(ParseContract(n), {c \in Nodes : father[c] = n} \cap (Members \cap Named))
<1>1. PICK s, P : s = ChildrenOf(n) /\ P = Members \cap Named
  OBVIOUS
<1>2. Lists(s, {c \in Nodes : father[c] = n})
  BY <1>1, ListsChildren
<1>3. PICK T : T = {c \in Nodes : father[c] = n}
  OBVIOUS
<1>4. Lists(Keep(s, P), T \cap P)
  BY <1>2, <1>3, ListsKeep
<1>. QED
  BY <1>1, <1>3, <1>4 DEF ParseContract

\* Lists with nothing in common make one that holds nothing twice.
Once(s, T) == s \in Seq(Nat) /\ ToSet(s) = T /\ IsInjective(s)
LEMMA OnceConcat ==
    ASSUME NEW s, NEW T, Once(s, T), NEW u, NEW U, Lists(u, U), T \cap U = {}
    PROVE  Once(s \o u, T \cup U)
<1>1. /\ s \in Seq(Nat) /\ Len(s) \in Nat /\ DOMAIN s = 1..Len(s) /\ T = {s[i] : i \in 1..Len(s)}
      /\ \A i, j \in 1..Len(s) : s[i] = s[j] => i = j
  <2>1. s \in Seq(Nat) /\ DOMAIN s = 1..Len(s) /\ Len(s) \in Nat
    BY DEF Once
  <2>. QED
    BY <2>1 DEF Once, ToSet, IsInjective
<1>2. /\ u \in Seq(Nat) /\ Len(u) \in Nat /\ DOMAIN u = 1..Len(u) /\ U = {u[i] : i \in 1..Len(u)}
      /\ \A i, j \in 1..Len(u) : u[i] = u[j] => i = j
  <2>1. u \in Seq(Nat) /\ DOMAIN u = 1..Len(u) /\ Len(u) \in Nat
    BY ListsPlaces
  <2>2. IsInjective(u) /\ ToSet(u) = U
    BY ListsInjective DEF Lists
  <2>. QED
    BY <2>1, <2>2 DEF ToSet, IsInjective
<1>3. PICK w \in Seq(Nat) : w = s \o u
  BY <1>1, <1>2, ConcatProperties
<1>4. /\ Len(w) = Len(s) + Len(u) /\ DOMAIN w = 1..Len(w)
      /\ \A i \in 1..(Len(s) + Len(u)) : w[i] = IF i <= Len(s) THEN s[i] ELSE u[i - Len(s)]
  BY <1>1, <1>2, <1>3, ConcatProperties
<1>5. \A i \in 1..Len(s) : i \in 1..Len(w) /\ w[i] = s[i]
  BY <1>1, <1>2, <1>4
<1>6. ASSUME NEW j \in 1..Len(u) PROVE Len(s) + j \in 1..Len(w) /\ w[Len(s) + j] = u[j]
  <2>1. /\ Len(s) + j \in 1..(Len(s) + Len(u)) /\ ~(Len(s) + j <= Len(s))
        /\ (Len(s) + j) - Len(s) = j
    BY <1>1, <1>2
  <2>. QED
    BY <1>4, <2>1
<1>7. ASSUME NEW i \in 1..Len(w), ~(i \in 1..Len(s)) PROVE \E j \in 1..Len(u) : i = Len(s) + j
  <2>1. i - Len(s) \in 1..Len(u) /\ i = Len(s) + (i - Len(s))
    BY <1>1, <1>2, <1>4, <1>7
  <2>. QED
    BY <2>1
<1>8. {w[i] : i \in 1..Len(w)} = T \cup U
  <2>1. \A i \in 1..Len(w) : w[i] \in T \cup U
    BY <1>1, <1>2, <1>5, <1>6, <1>7
  <2>2. \A x \in T : \E i \in 1..Len(w) : w[i] = x
    <3>1. \A x \in T : \E i \in 1..Len(s) : s[i] = x
      BY <1>1
    <3>. QED
      BY <1>5, <3>1
  <2>3. \A x \in U : \E i \in 1..Len(w) : w[i] = x
    <3>1. \A x \in U : \E j \in 1..Len(u) : u[j] = x
      BY <1>2
    <3>. QED
      BY <1>6, <3>1
  <2>. QED
    BY <2>1, <2>2, <2>3
<1>9. ASSUME NEW i \in 1..Len(w), NEW j \in 1..Len(w), w[i] = w[j] PROVE i = j
  <2>1. CASE i \in 1..Len(s) /\ j \in 1..Len(s)
    BY <1>1, <1>5, <1>9, <2>1
  <2>2. CASE ~(i \in 1..Len(s)) /\ ~(j \in 1..Len(s))
    <3>1. PICK a \in 1..Len(u), b \in 1..Len(u) : i = Len(s) + a /\ j = Len(s) + b
      BY <1>7, <2>2
    <3>2. u[a] = u[b]
      BY <1>6, <1>9, <3>1
    <3>3. a = b
      BY <1>2, <3>2
    <3>. QED
      BY <3>1, <3>3
  <2>3. CASE ~(i \in 1..Len(s) <=> j \in 1..Len(s))
    <3>1. \A k \in 1..Len(w) : k \in 1..Len(s) => w[k] \in T
      BY <1>1, <1>5
    <3>2. ASSUME NEW k \in 1..Len(w), ~(k \in 1..Len(s)) PROVE w[k] \in U
      <4>1. PICK b \in 1..Len(u) : k = Len(s) + b
        BY <1>7, <3>2
      <4>. QED
        BY <1>2, <1>6, <4>1
    <3>. QED
      BY <1>9, <2>3, <3>1, <3>2
  <2>. QED
    BY <2>1, <2>2, <2>3
<1>10. ToSet(w) = T \cup U /\ IsInjective(w)
  BY <1>4, <1>8, <1>9 DEF ToSet, IsInjective
<1>. QED
  BY <1>3, <1>10 DEF Once

\* FunctionNode's children: each site below the function once.
Declared(n) == (Below(n) \cap OfKind("VariableDeclaration")) \cap Named
LEMMA FunctionLists ==
    ASSUME IsTree(father), NEW n \in Nodes
    PROVE  Once(ParseFunction(n), Declared(n) \cup {m \in Below(n) : kind[m][1] \in Sites})
<1>1. PICK va, as, vs, fc : /\ va = "VariableDeclaration" /\ as = "Assignment"
                            /\ vs = "VariableDeclarationStatement" /\ fc = "FunctionCall"
  OBVIOUS
<1>2. /\ va # as /\ va # vs /\ va # fc /\ as # vs /\ as # fc /\ vs # fc /\ Sites = {as, vs, fc}
  BY <1>1 DEF Sites
<1>3. PICK g, A, V, F : /\ g = GetNodesByName(n, va) /\ A = GetNodesByName(n, as)
                        /\ V = GetNodesByName(n, vs) /\ F = GetNodesByName(n, fc)
  OBVIOUS
<1>4. ParseFunction(n) = ((Keep(g, Named) \o A) \o V) \o F
  BY <1>1, <1>3 DEF ParseFunction
<1>5. PICK G, TA, TV, TF : /\ G = Below(n) \cap OfKind(va) /\ TA = Below(n) \cap OfKind(as)
                           /\ TV = Below(n) \cap OfKind(vs) /\ TF = Below(n) \cap OfKind(fc)
  OBVIOUS
<1>6. Lists(g, G) /\ Lists(A, TA) /\ Lists(V, TV) /\ Lists(F, TF)
  <2>1. \A name : Lists(GetNodesByName(n, name), Below(n) \cap OfKind(name))
    BY ListsByName
  <2>. QED
    BY <1>3, <1>5, <2>1
<1>7. Lists(Keep(g, Named), G \cap Named)
  BY <1>6, ListsKeep
<1>8. PICK s, T : s = Keep(g, Named) /\ T = G \cap Named
  OBVIOUS
<1>9. Once(s, T)
  BY <1>7, <1>8, ListsInjective DEF Once, Lists
<1>10. T \cap TA = {} /\ (T \cup TA) \cap TV = {} /\ ((T \cup TA) \cup TV) \cap TF = {}
  BY <1>2, <1>5, <1>8 DEF OfKind
<1>11. PICK s2, T2 : s2 = s \o A /\ T2 = T \cup TA
  OBVIOUS
<1>12. Once(s2, T2)
  BY <1>6, <1>9, <1>10, <1>11, OnceConcat
<1>13. PICK s3, T3 : s3 = s2 \o V /\ T3 = T2 \cup TV
  OBVIOUS
<1>14. Once(s3, T3)
  BY <1>6, <1>10, <1>11, <1>12, <1>13, OnceConcat
<1>15. Once(s3 \o F, T3 \cup TF)
  BY <1>6, <1>10, <1>11, <1>13, <1>14, OnceConcat
<1>16. T3 \cup TF = Declared(n) \cup {m \in Below(n) : kind[m][1] \in Sites}
  <2>1. Below(n) \subseteq Nodes /\ T = Declared(n)
    BY <1>1, <1>5, <1>8 DEF Below, Declared
  <2>2. {m \in Below(n) : kind[m][1] \in Sites} = (TA \cup TV) \cup TF
    BY <1>2, <1>5, <2>1 DEF OfKind
  <2>. QED
    BY <1>11, <1>13, <2>1, <2>2
<1>. QED
  BY <1>4, <1>8, <1>11, <1>13, <1>15, <1>16

-----------------------------------------------------------------------------
(* The functions the injectors go through *)

\* The children the contracts and their functions keep.
Kids == [n \in Nodes |->
          IF n \in Contracts THEN ParseContract(n)
          ELSE IF n \in OfKind("FunctionDefinition") \cap Named /\ father[n] \in Contracts
            THEN ParseFunction(n)
          ELSE <<>>]
Handed == {f \in OfKind("FunctionDefinition") \cap Named : father[f] \in Contracts}

Founds(g) ==
    /\ g[0] = <<>> /\ Functions = g[Len(contract_nodes)]
    /\ \A k \in 1..Len(contract_nodes) :
         g[k] = g[k - 1] \o Keep(children[contract_nodes[k]], OfKind("FunctionDefinition"))

\* A contract's functions.
LEMMA ListsFunctions ==
    ASSUME IsTree(father), children = Kids, NEW c \in Contracts
    PROVE  Lists(Keep(children[c], OfKind("FunctionDefinition")), {f \in Handed : father[f] = c})
<1>1. PICK P : P = OfKind("FunctionDefinition")
  OBVIOUS
<1>2. c \in Nodes
  BY DEF Contracts, OfKind
<1>3. PICK s, T : s = ParseContract(c) /\ T = {n \in Nodes : father[n] = c} \cap (Members \cap Named)
  OBVIOUS
<1>4. children[c] = s
  BY <1>2, <1>3 DEF Kids
<1>5. Lists(s, T)
  BY <1>3, ListsMembers
<1>6. Lists(Keep(s, P), T \cap P)
  BY <1>5, ListsKeep
<1>7. P \subseteq Nodes /\ P \subseteq Members
  BY <1>1 DEF OfKind, Members
<1>8. Handed = {f \in P \cap Named : father[f] \in Contracts}
  BY <1>1 DEF Handed
<1>9. T \cap P = {f \in Handed : father[f] = c}
  BY <1>3, <1>7, <1>8
<1>. QED
  BY <1>1, <1>4, <1>6, <1>9

LEMMA FunctionsIsFunction ==
    ASSUME IsTree(father), children = Kids, Lists(contract_nodes, Contracts)
    PROVE  \E g : Founds(g)
<1> DEFINE N == Len(contract_nodes)
           P == OfKind("FunctionDefinition")
           Of(k) == Keep(children[contract_nodes[k]], P)
           h == [k \in 1..N |-> [s \in Seq(Nat) |-> s \o Of(k)]]
           IsIt(f) == f = [k \in 0..N |-> IF k = 0 THEN <<>>
                                          ELSE f[k - 1] \o Keep(children[contract_nodes[k]], P)]
           g == CHOOSE g : IsIt(g)
<1>1. N \in Nat /\ <<>> \in Seq(Nat) /\ \A k \in 1..N : contract_nodes[k] \in Contracts
  BY ListsPlaces
<1>2. ASSUME NEW k \in 1..N PROVE Of(k) \in Seq(Nat)
  <2>1. PICK c \in Contracts : c = contract_nodes[k]
    BY <1>1
  <2>. QED
    BY <2>1, ListsFunctions DEF Lists
<1>3. Functions = g[N]
  BY DEF Functions
<1>. HIDE DEF N, Of, P
<1>4. h \in Steps(N, Seq(Nat))
  <2>1. ASSUME NEW k \in 1..N, NEW s \in Seq(Nat) PROVE s \o Of(k) \in Seq(Nat)
    <3>1. PICK u \in Seq(Nat) : u = Of(k)
      BY <1>2
    <3>2. s \o u \in Seq(Nat)
      BY ConcatProperties
    <3>. QED
      BY <3>1, <3>2
  <2>. QED
    BY <2>1 DEF Steps
<1>5. PICK f \in [0..N -> Seq(Nat)] : f[0] = <<>> /\ \A k \in 1..N : f[k] = h[k][f[k - 1]]
  <2>. HIDE DEF h
  <2>1. \E f : Follows(f, N, Seq(Nat), <<>>, h)
    BY <1>1, <1>4, Recursion
  <2>. QED
    BY <2>1 DEF Follows
<1>6. ASSUME NEW k \in 1..N PROVE f[k] = f[k - 1] \o Of(k)
  <2>1. k - 1 \in 0..N
    BY <1>1
  <2>2. f[k - 1] \in Seq(Nat)
    BY <2>1
  <2>3. f[k] = h[k][f[k - 1]]
    BY <1>5
  <2>. QED
    BY <2>2, <2>3
<1>. HIDE DEF h
<1>7. IsIt(f)
  <2>1. ASSUME NEW k \in 0..N PROVE f[k] = IF k = 0 THEN <<>> ELSE f[k - 1] \o Of(k)
    <3>1. k = 0 \/ k \in 1..N
      BY <1>1
    <3>. QED
      BY <1>5, <1>6, <3>1
  <2>2. f = [k \in 0..N |-> IF k = 0 THEN <<>> ELSE f[k - 1] \o Of(k)]
    BY <2>1
  <2>. QED
    BY <2>2, Zenon DEF Of
<1>8. IsIt(g)
  <2>. HIDE DEF IsIt
  <2>. QED
    BY <1>7
<1>. HIDE DEF g
<1>9. \A k \in 0..N : g[k] = IF k = 0 THEN <<>> ELSE g[k - 1] \o Of(k)
  <2>1. g = [k \in 0..N |-> IF k = 0 THEN <<>> ELSE g[k - 1] \o Of(k)]
    BY <1>8, Zenon DEF Of
  <2>. HIDE DEF IsIt
  <2>. QED
    BY <2>1
<1>10. g[0] = <<>>
  <2>1. 0 \in 0..N
    BY <1>1
  <2>. QED
    BY <1>9, <2>1
<1>11. ASSUME NEW k \in 1..N PROVE g[k] = g[k - 1] \o Of(k)
  <2>1. k \in 0..N /\ k # 0
    BY <1>1
  <2>. QED
    BY <1>9, <2>1
<1>12. Founds(g)
  BY <1>3, <1>10, <1>11, Zenon DEF Founds, N, Of, P
<1>. QED
  BY <1>12, Zenon

\* Those of each contract in turn: in ascending order, as their fathers are.
LEMMA FunctionsFound ==
    ASSUME IsTree(father), children = Kids, Lists(contract_nodes, Contracts)
    PROVE  Lists(Functions, Handed)
<1> DEFINE N == Len(contract_nodes)
           Upto(k) == {f \in Handed : \E i \in 1..k : father[f] = contract_nodes[i]}
           P == OfKind("FunctionDefinition")
           Of(k) == Keep(children[contract_nodes[k]], P)
<1>1. /\ N \in Nat /\ contract_nodes \in Seq(Nat) /\ \A k \in 1..N : contract_nodes[k] \in Contracts
      /\ \A c \in Contracts : \E i \in 1..N : contract_nodes[i] = c
      /\ \A i, j \in 1..N : i < j => contract_nodes[i] < contract_nodes[j]
  BY ListsPlaces
<1>2. PICK g : Founds(g)
  BY FunctionsIsFunction
<1>3. /\ g[0] = <<>> /\ Functions = g[N]
      /\ \A k \in 1..N : g[k] = g[k - 1] \o Of(k)
  BY <1>2 DEF Founds
<1>4. ASSUME NEW k \in 1..N PROVE Lists(Of(k), {f \in Handed : father[f] = contract_nodes[k]})
  <2>1. PICK c \in Contracts : c = contract_nodes[k]
    BY <1>1
  <2>. QED
    BY <2>1, ListsFunctions
<1>5. Handed \subseteq Nodes /\ \A f \in Handed : father[f] \in Contracts
  BY DEF Handed, OfKind
<1>. HIDE DEF N, P, Of
<1>. DEFINE T == {k \in 0..N : Lists(g[k], Upto(k))}
<1>6. 0 \in T
  <2>1. Upto(0) = {} /\ 0 \in 0..N
    BY <1>1
  <2>. HIDE DEF Upto
  <2>2. Lists(g[0], Upto(0))
    BY <1>3, <2>1, ListsNothing, Zenon
  <2>. QED
    BY <2>1, <2>2
<1>7. ASSUME NEW n \in 0..(N - 1), n \in T PROVE n + 1 \in T
  <2>1. PICK k \in 1..N : k = n + 1 /\ k - 1 = n /\ k \in 0..N
    BY <1>1
  <2>2. PICK s, u, S, U : /\ s = g[n] /\ S = Upto(n) /\ u = Of(k)
                          /\ U = {f \in Handed : father[f] = contract_nodes[k]}
    OBVIOUS
  <2>3. Lists(s, S) /\ Lists(u, U)
    BY <1>4, <1>7, <2>2
  <2>4. ASSUME NEW x \in S, NEW y \in U PROVE x < y
    <3>1. PICK i \in 1..n : father[x] = contract_nodes[i]
      BY <2>2
    <3>2. i \in 1..N /\ i < k
      BY <1>1, <2>1
    <3>3. father[x] < father[y]
      BY <1>1, <2>2, <3>1, <3>2
    <3>4. x \in Nodes /\ y \in Nodes
      BY <1>5, <2>2
    <3>5. x \in Nat /\ y \in Nat /\ father[x] \in Nat /\ father[y] \in Nat
          /\ (y <= x => father[y] <= father[x])
      BY <3>4, TreeNodes
    <3>. QED
      BY <3>3, <3>5
  <2>5. Lists(s \o u, S \cup U)
    BY <2>3, <2>4, ListsConcat
  <2>6. \A i : i \in 1..k <=> i \in 1..n \/ i = k
    BY <1>1, <2>1
  <2>7. Upto(k) = S \cup U
    BY <2>2, <2>6
  <2>8. g[k] = s \o u
    BY <1>3, <2>1, <2>2
  <2>. HIDE DEF Upto
  <2>. QED
    BY <2>1, <2>5, <2>7, <2>8
<1>8. N \in T
  <2>1. N \in 0..N
    BY <1>1
  <2>2. \A k \in 0..N : k \in T
    <3>. HIDE DEF T
    <3>. QED
      BY <1>1, <1>6, <1>7, UpTo
  <2>. QED
    BY <2>1, <2>2
<1>9. Upto(N) = Handed
  BY <1>1, <1>5
<1>. HIDE DEF Upto
<1>. QED
  BY <1>3, <1>8, <1>9

-----------------------------------------------------------------------------
(* The inductive invariant *)

TreeInv ==
    /\ IsTree(father)
    /\ kind \in Seq(NodeKinds \cup {<<"SourceUnit", "">>}) /\ Len(kind) = Len(father)
    /\ kind[1] = <<"SourceUnit", "">>
    /\ \A n \in 2..Len(father) : kind[n] \in NodeKinds /\ <<kind[father[n]][1], kind[n][1]>> \in Holds

\* From Parse on.
ParseInv ==
    stage = "parsed" => Lists(contract_nodes, Contracts) /\ children = Kids

\* A function stands in a contract.
LEMMA HandedAre ==
    ASSUME TreeInv
    PROVE  Handed = {f \in OfKind("FunctionDefinition") \cap Named : kind[father[f]][2] \notin Libraries}
<1>1. IsTree(father)
  BY DEF TreeInv
<1>2. Nodes = 1..Len(father) /\ Len(father) \in Nat /\ \A n \in Nodes : n # 1 => father[n] \in Nodes
  BY <1>1, TreeNodes
<1>3. ASSUME NEW f \in OfKind("FunctionDefinition")
      PROVE  father[f] \in OfKind("ContractDefinition")
  <2>1. f \in Nodes /\ kind[f][1] = "FunctionDefinition"
    BY DEF OfKind
  <2>2. f # 1
    <3>1. kind[1][1] = "SourceUnit"
      <4>1. kind[1] = <<"SourceUnit", "">>
        BY DEF TreeInv
      <4>2. \A a, b : <<a, b>>[1] = a
        OBVIOUS
      <4>. QED
        BY <4>1, <4>2, Zenon
    <3>. QED
      BY <2>1, <3>1
  <2>3. <<kind[father[f]][1], "FunctionDefinition">> \in Holds
    <3>1. f \in 2..Len(father)
      BY <1>2, <2>1, <2>2
    <3>. QED
      BY <2>1, <3>1 DEF TreeInv
  <2>4. kind[father[f]][1] = "ContractDefinition"
    BY <2>3 DEF Holds
  <2>. QED
    BY <1>2, <2>1, <2>2, <2>4 DEF OfKind
<1>. QED
  BY <1>3 DEF Handed, Contracts

LEMMA FunctionsHanded ==
    ASSUME TreeInv, children = Kids, NEW f \in Handed
    PROVE  f \in Nodes /\ children[f] = ParseFunction(f)
<1>1. f \in Nodes /\ f \notin Contracts
  BY DEF Handed, Contracts, OfKind
<1>2. children[f] = ParseFunction(f)
  BY <1>1 DEF Kids, Handed
<1>. QED
  BY <1>1, <1>2

\* No function stands in another.
LEMMA FunctionsApart ==
    ASSUME TreeInv
    PROVE  \A n \in Nodes : \A f, g \in OfKind("FunctionDefinition") \cap Above(n) : f = g
<1> DEFINE P == OfKind("FunctionDefinition")
           S == {n \in Nodes : \E f, g \in P \cap Above(n) : f # g}
<1>1. IsTree(father)
  BY DEF TreeInv
<1>2. /\ Nodes = 1..Len(father) /\ Len(father) \in Nat /\ Nodes \subseteq Nat
      /\ \A n \in Nodes : father[n] < n /\ (n # 1 => father[n] \in Nodes) /\ (father[n] = 0 <=> n = 1)
  BY <1>1, TreeNodes
<1>3. Above(0) = {} /\ \A n \in Nodes : Above(n) = {n} \cup Above(father[n])
  BY <1>1, AboveIs
<1>4. kind[1][1] = "SourceUnit" /\ \A n \in Nodes : n # 1 => <<kind[father[n]][1], kind[n][1]>> \in Holds
  <2>1. kind[1] = <<"SourceUnit", "">>
    BY DEF TreeInv
  <2>2. \A a, b : <<a, b>>[1] = a
    OBVIOUS
  <2>3. kind[1][1] = "SourceUnit"
    BY <2>1, <2>2, Zenon
  <2>4. \A n \in Nodes : n # 1 => n \in 2..Len(father)
    BY <1>2
  <2>. QED
    BY <2>3, <2>4 DEF TreeInv
<1>5. ASSUME NEW n \in P PROVE P \cap Above(father[n]) = {}
  <2>1. n \in Nodes /\ kind[n][1] = "FunctionDefinition" /\ n # 1
    BY <1>4 DEF OfKind
  <2>2. PICK c \in Nodes : c = father[n]
    BY <1>2, <2>1
  <2>3. kind[c][1] = "ContractDefinition" /\ c # 1
    BY <1>4, <2>1, <2>2 DEF Holds
  <2>4. PICK u \in Nodes : u = father[c]
    BY <1>2, <2>3
  <2>5. kind[u][1] = "SourceUnit"
    BY <1>4, <2>3, <2>4 DEF Holds
  <2>6. u = 1
    BY <1>4, <2>5 DEF Holds
  <2>7. Above(u) = {u}
    <3>1. father[u] = 0 /\ Above(u) = {u} \cup Above(father[u])
      BY <1>2, <1>3, <2>6
    <3>. QED
      BY <1>3, <3>1
  <2>8. Above(c) = {c, u}
    BY <1>3, <2>4, <2>7
  <2>. QED
    BY <2>2, <2>3, <2>5, <2>8 DEF OfKind
<1>. SUFFICES ASSUME S # {} PROVE FALSE
  OBVIOUS
<1>6. PICK n \in S : \A m \in S : n <= m
  <2>1. S \in SUBSET Nat
    BY <1>2
  <2>. HIDE DEF S
  <2>. QED
    BY <2>1, LeastExists
<1>7. PICK f, g \in P \cap Above(n) : f # g
  OBVIOUS
<1>8. n \in Nodes /\ Above(n) = {n} \cup Above(father[n])
  BY <1>3
<1>9. CASE n = 1
  <2>1. Above(n) = {1}
    <3>1. father[n] = 0
      BY <1>2, <1>9
    <3>. QED
      BY <1>3, <1>8, <1>9, <3>1
  <2>. QED
    BY <1>7, <2>1
<1>10. CASE n # 1 /\ n \notin P
  <2>1. f \in Above(father[n]) /\ g \in Above(father[n])
    BY <1>7, <1>8, <1>10
  <2>2. father[n] \in S /\ father[n] < n
    BY <1>2, <1>7, <1>8, <1>10, <2>1
  <2>. QED
    BY <1>2, <1>6, <1>8, <2>2
<1>11. CASE n \in P
  BY <1>5, <1>7, <1>8, <1>11
<1>. QED
  BY <1>9, <1>10, <1>11

\* Reentrancy finds the function around a node, if there is one.
LEMMA UpperIs ==
    ASSUME TreeInv, NEW n \in Nodes
    PROVE  /\ \A f \in OfKind("FunctionDefinition") : GetUpperFuncNodePtr(n) = f <=> n \in Below(f)
           /\ GetUpperFuncNodePtr(n) \in Nodes \cup {NoFunction}
<1> DEFINE P == OfKind("FunctionDefinition")
<1>1. IsTree(father)
  BY DEF TreeInv
<1>2. Nodes \subseteq Nat /\ 1 \in Nodes /\ 0 \notin Nodes
  BY <1>1, TreeNodes
<1>3. PICK name : name = "FunctionDefinition"
  OBVIOUS
<1>4. PICK s, T, A : /\ s = GetNodesByName(1, name) /\ T = Below(1) \cap OfKind(name)
                     /\ A = Above(n)
  OBVIOUS
<1>5. Lists(s, T)
  BY <1>1, <1>2, <1>4, ListsByName
<1>6. PICK e : e = Keep(s, A)
  OBVIOUS
<1>7. Lists(e, T \cap A)
  BY <1>5, <1>6, ListsKeep
<1>8. T \cap A = P \cap Above(n)
  <2>1. Below(1) = Nodes
    BY <1>1, BelowRoot
  <2>. QED
    BY <1>3, <1>4, <2>1 DEF OfKind
<1>9. GetUpperFuncNodePtr(n) = IF e = <<>> THEN NoFunction ELSE Head(e)
  BY <1>3, <1>4, <1>6 DEF GetUpperFuncNodePtr, GetFunctionDefinitionNodes
<1>10. P \subseteq Nodes /\ NoFunction = 0
  BY DEF OfKind, NoFunction
<1>11. \A f \in P : n \in Below(f) <=> f \in T \cap A
  BY <1>8 DEF Below
<1>12. CASE e = <<>>
  <2>1. T \cap A = {}
    BY <1>7, <1>12, ListsNothing
  <2>. QED
    BY <1>2, <1>9, <1>10, <1>11, <1>12, <2>1
<1>13. CASE e # <<>>
  <2>1. Head(e) \in T \cap A
    BY <1>7, <1>13, ListsHead
  <2>2. \A f, g \in T \cap A : f = g
    BY <1>8, FunctionsApart
  <2>. QED
    BY <1>8, <1>9, <1>10, <1>11, <1>13, <2>1, <2>2
<1>. QED
  BY <1>12, <1>13

\* It goes through every assignment once.
LEMMA AssignmentsListed ==
    ASSUME TreeInv
    PROVE  Lists(GetAssignmentNodes, OfKind("Assignment"))
<1>1. IsTree(father)
  BY DEF TreeInv
<1>2. PICK name : name = "Assignment"
  OBVIOUS
<1>3. 1 \in Nodes /\ Below(1) = Nodes
  BY <1>1, BelowRoot, TreeNodes
<1>4. Lists(GetNodesByName(1, name), Below(1) \cap OfKind(name))
  BY <1>1, <1>3, ListsByName
<1>5. Below(1) \cap OfKind(name) = OfKind("Assignment")
  BY <1>2, <1>3 DEF OfKind
<1>. QED
  BY <1>2, <1>4, <1>5 DEF GetAssignmentNodes

LEMMA ParseTells == TreeInv /\ ParseInv => ChildrenOnce
<1>. SUFFICES ASSUME TreeInv, ParseInv, stage = "parsed"
              PROVE  /\ IsInjective(Functions)
                     /\ ToSet(Functions) = {f \in OfKind("FunctionDefinition") \cap Named : kind[father[f]][2] \notin Libraries}
                     /\ \A f \in ToSet(Functions) :
                          /\ IsInjective(children[f])
                          /\ {n \in ToSet(children[f]) : kind[n][1] \in Sites} = {n \in Below(f) : kind[n][1] \in Sites}
                     /\ IsInjective(GetAssignmentNodes)
                     /\ ToSet(GetAssignmentNodes) = OfKind("Assignment")
                     /\ \A a \in ToSet(GetAssignmentNodes), f \in OfKind("FunctionDefinition") :
                          GetUpperFuncNodePtr(a) = f <=> a \in Below(f)
  BY DEF ChildrenOnce
<1>1. IsTree(father) /\ Lists(contract_nodes, Contracts) /\ children = Kids
  BY DEF TreeInv, ParseInv
<1>2. Lists(Functions, Handed)
  BY <1>1, FunctionsFound
<1>3. IsInjective(Functions) /\ ToSet(Functions) = Handed
  BY <1>2, ListsInjective DEF Lists
<1>4. ASSUME NEW f \in Handed
      PROVE  /\ IsInjective(children[f])
             /\ {n \in ToSet(children[f]) : kind[n][1] \in Sites} = {n \in Below(f) : kind[n][1] \in Sites}
  <2>1. f \in Nodes /\ children[f] = ParseFunction(f)
    BY <1>1, FunctionsHanded
  <2>2. Once(children[f], Declared(f) \cup {m \in Below(f) : kind[m][1] \in Sites})
    BY <1>1, <2>1, FunctionLists
  <2>3. \A n \in Declared(f) : kind[n][1] \notin Sites
    BY DEF Declared, OfKind, Sites
  <2>. QED
    BY <2>2, <2>3 DEF Once
<1>5. PICK s, T : s = GetAssignmentNodes /\ T = OfKind("Assignment")
  OBVIOUS
<1>6. Lists(s, T)
  BY <1>5, AssignmentsListed
<1>7. IsInjective(s) /\ ToSet(s) = T
  BY <1>6, ListsInjective DEF Lists
<1>8. \A a \in T : a \in Nodes
  BY <1>5 DEF OfKind
<1>9. \A a \in T, f \in OfKind("FunctionDefinition") : GetUpperFuncNodePtr(a) = f <=> a \in Below(f)
  BY <1>8, UpperIs
<1>. QED
  BY <1>3, <1>4, <1>5, <1>7, <1>9, HandedAre

-----------------------------------------------------------------------------
(* The walks *)

\* The declarations the nodes of R up to h refer to have been written, in that order.
Written(R, h) ==
    /\ code \in Seq(id_src_map)
    /\ ToSet(code) = {ref[m] : m \in {n \in R : n <= h}} \cap id_src_map
    /\ \A p, r \in 1..Len(code) : p < r => FirstReference(code[p]) < FirstReference(code[r])

\* Each name has the kind of the last node up to h that defines it.
DefinedBy(name, h) == {n \in Defining(name) : n <= h}
LastKind(S) == IF S = {} THEN "UNKNOWN" ELSE kind[CHOOSE n \in S : \A m \in S : m <= n][1]
Mapped(h) ==
    /\ DOMAIN define_map = Names
    /\ \A name \in Names : define_map[name] = LastKind(DefinedBy(name, h))

\* A walk has visited the nodes up to some h, and its queue holds what comes next.
WalkInv ==
    /\ stage = "walk" =>
         /\ root \in Nodes /\ (root = 1 \/ is_recursive)
         /\ walk = "GetDefinitionMap" =>
              \E h \in Nat : Lists(q, Frontier(Reached, root, h)) /\ Mapped(h)
         /\ walk = "ExpandFuncNode" =>
              \E h \in Nat : Lists(q, Frontier(Below(root), root, h)) /\ Written(Below(root), h)
    /\ stage # "walk" => code = <<>> /\ define_map = [n \in Names |-> "UNKNOWN"]

IInv == TreeInv /\ ParseInv /\ WalkInv

\* What GetDefinitionMap goes through is a part of the tree: a function that is not gone
\* into is its end.
LEMMA ReachedHangs ==
    ASSUME IsTree(father), root \in Nodes, root = 1 \/ is_recursive
    PROVE  /\ HangsFrom(Reached, root)
           /\ \A n \in Reached : {c \in Reached : father[c] = n}
                = IF n \in Closed THEN {} ELSE {c \in Nodes : father[c] = n}
<1>1. /\ HangsFrom(Below(root), root)
      /\ \A n \in Below(root), c \in Nodes : father[c] = n => c \in Below(root)
  BY BelowHangs
<1>2. Above(0) = {} /\ \A n \in Nodes : Above(n) = {n} \cup Above(father[n])
  BY AboveIs
<1>3. \A n \in Nodes : n \in Above(n) /\ \A m \in Above(n) : m \in Nodes /\ m <= n
  BY AboveBefore
<1>4. /\ Nodes \subseteq Nat /\ 1 \in Nodes
      /\ \A n \in Nodes : father[n] \in Nat /\ father[n] < n /\ (father[n] = 0 <=> n = 1)
                          /\ (n # 1 => father[n] \in Nodes)
  BY TreeNodes
<1>5. Below(root) \subseteq Nodes /\ root \in Below(root)
  BY <1>1 DEF HangsFrom
<1>6. \A n : n \in Reached <=> n \in Below(root) /\ (Above(n) \ {n}) \cap Closed = {}
  BY DEF Reached
<1>7. ASSUME NEW n \in Nodes, n # 1 PROVE Above(n) \ {n} = Above(father[n])
  <2>1. father[n] \in Nodes /\ father[n] < n /\ n \in Nat /\ father[n] \in Nat
    BY <1>4, <1>7
  <2>2. n \notin Above(father[n])
    BY <1>3, <2>1
  <2>. QED
    BY <1>2, <2>2
<1>8. root \in Reached
  <2>1. CASE root = 1
    <3>1. Above(1) \subseteq {1}
      BY <1>2, <1>4
    <3>. QED
      BY <1>5, <1>6, <2>1, <3>1
  <2>2. CASE is_recursive
    BY <1>5, <1>6, <2>2 DEF Closed
  <2>. QED
    BY <2>1, <2>2
<1>9. ASSUME NEW m \in Reached, m # root PROVE father[m] \in Reached
  <2>1. m \in Below(root) /\ m \in Nodes /\ father[m] \in Below(root) /\ father[m] \in Nodes
    BY <1>1, <1>5, <1>6, <1>9 DEF HangsFrom
  <2>2. m # 1
    BY <1>4, <2>1
  <2>3. Above(father[m]) \cap Closed = {}
    BY <1>6, <1>7, <2>1, <2>2
  <2>. QED
    BY <1>6, <2>1, <2>3
<1>10. ASSUME NEW n \in Reached, NEW c \in Nodes, father[c] = n
       PROVE  c \in Reached <=> n \notin Closed
  <2>1. n \in Below(root) /\ n \in Nodes /\ c \in Below(root) /\ c # 1
    BY <1>1, <1>4, <1>5, <1>6, <1>10
  <2>2. Above(c) \ {c} = Above(n) /\ n \in Above(n)
    BY <1>3, <1>7, <1>10, <2>1
  <2>. QED
    BY <1>6, <2>1, <2>2
<1>11. Reached \subseteq Nodes
  BY <1>5, <1>6
<1>12. ASSUME NEW n \in Reached
       PROVE  {c \in Reached : father[c] = n} = IF n \in Closed THEN {} ELSE {c \in Nodes : father[c] = n}
  <2>1. CASE n \in Closed
    BY <1>10, <1>11, <2>1
  <2>2. CASE n \notin Closed
    BY <1>10, <1>11, <2>2
  <2>. QED
    BY <2>1, <2>2
<1>. QED
  BY <1>8, <1>9, <1>11, <1>12 DEF HangsFrom

\* A round of either loop: C are the nodes it adds to the queue.
LEMMA RoundMoves ==
    ASSUME IsTree(father), NEW R, NEW r, HangsFrom(R, r), NEW h \in Nat, NEW s, s # <<>>,
           Lists(s, Frontier(R, r, h)), NEW u, NEW C, Lists(u, C), C = {c \in R : father[c] = Head(s)}
    PROVE  /\ Head(s) \in R /\ Head(s) \in Nodes /\ Head(s) \in Nat /\ h < Head(s)
           /\ {m \in R : m <= Head(s)} = {m \in R : m <= h} \cup {Head(s)}
           /\ Lists(Tail(s) \o u, Frontier(R, r, Head(s)))
<1>1. PICK n, F : n = Head(s) /\ F = Frontier(R, r, h)
  OBVIOUS
<1>2. n \in F /\ (\A x \in F : n <= x) /\ Lists(Tail(s), F \ {n})
  BY <1>1, ListsHead
<1>3. /\ n \in R /\ n \in Nodes
      /\ {m \in R : m <= n} = {m \in R : m <= h} \cup {n}
      /\ Frontier(R, r, n) = (F \ {n}) \cup {m \in R : father[m] = n}
      /\ \A x \in F \ {n}, c \in Nodes : father[c] = n => x < c
  BY <1>1, <1>2, FrontMoves
<1>4. n \in Nat /\ h < n
  BY <1>1, <1>2, <1>3, TreeNodes DEF Frontier
<1>5. C \subseteq Nodes /\ C = {m \in R : father[m] = n}
  BY <1>1 DEF HangsFrom
<1>6. PICK t, G : t = Tail(s) /\ G = F \ {n}
  OBVIOUS
<1>7. Lists(t \o u, G \cup C)
  <2>1. \A x \in G, y \in C : x < y
    BY <1>3, <1>5, <1>6
  <2>. QED
    BY <1>2, <1>6, <2>1, ListsConcat
<1>. QED
  BY <1>1, <1>3, <1>4, <1>5, <1>6, <1>7

\* An empty queue: all has been visited.
LEMMA FrontEmpty ==
    ASSUME IsTree(father), NEW R, NEW r, HangsFrom(R, r), NEW h \in Nat, Lists(<<>>, Frontier(R, r, h))
    PROVE  {m \in R : m <= h} = R
<1>1. Frontier(R, r, h) = {}
  BY ListsNothing
<1>2. R \subseteq Nat
  BY TreeNodes DEF HangsFrom
<1>3. ASSUME NEW x \in R, ~(x <= h) PROVE FALSE
  <2>1. x > h
    BY <1>2, <1>3
  <2>. QED
    BY <1>1, <2>1, FrontFirst
<1>. QED
  BY <1>3

LEMMA WalkTells == IInv => DeclarationsOnce /\ DeepestDefinition
<1>. SUFFICES ASSUME IInv PROVE DeclarationsOnce /\ DeepestDefinition
  OBVIOUS
<1>1. IsTree(father)
  BY DEF IInv, TreeInv
<1>2. ASSUME Walked("ExpandFuncNode")
      PROVE  /\ ToSet(code) = {ref[n] : n \in Below(root)} \cap id_src_map
             /\ \A p, r \in 1..Len(code) : p < r => FirstReference(code[p]) < FirstReference(code[r])
  <2>1. root \in Nodes
    BY <1>2 DEF IInv, WalkInv, Walked
  <2>2. PICK h \in Nat : Lists(<<>>, Frontier(Below(root), root, h)) /\ Written(Below(root), h)
    BY <1>2 DEF IInv, WalkInv, Walked
  <2>3. PICK R : R = Below(root)
    OBVIOUS
  <2>4. {m \in R : m <= h} = R
    BY <1>1, <2>1, <2>2, <2>3, BelowHangs, FrontEmpty
  <2>. QED
    BY <2>2, <2>3, <2>4 DEF Written
<1>3. ASSUME Walked("GetDefinitionMap"), NEW name \in Names
      PROVE  define_map[name] = LastKind(Defining(name))
  <2>1. root \in Nodes /\ (root = 1 \/ is_recursive)
    BY <1>3 DEF IInv, WalkInv, Walked
  <2>2. PICK h \in Nat : Lists(<<>>, Frontier(Reached, root, h)) /\ Mapped(h)
    BY <1>3 DEF IInv, WalkInv, Walked
  <2>3. {m \in Reached : m <= h} = Reached
    BY <1>1, <2>1, <2>2, ReachedHangs, FrontEmpty
  <2>4. DefinedBy(name, h) = Defining(name)
    BY <2>3 DEF DefinedBy, Defining
  <2>. QED
    BY <2>2, <2>4 DEF Mapped
<1>. QED
  BY <1>2, <1>3 DEF DeclarationsOnce, DeepestDefinition, LastKind

-----------------------------------------------------------------------------
(* The steps *)

LEMMA InitHolds == Init => IInv
<1>. SUFFICES ASSUME Init PROVE IInv
  OBVIOUS
<1>1. father = <<0>> /\ stage = "solc"
  BY DEF Init
<1>2. father \in Seq(Nat) /\ Len(father) = 1 /\ father[1] = 0
  BY <1>1
<1>3. IsTree(father)
  BY <1>2 DEF IsTree
<1>4. PICK u : u = <<"SourceUnit", "">>
  OBVIOUS
<1>5. kind = <<u>>
  BY <1>4 DEF Init
<1>6. kind \in Seq(NodeKinds \cup {u}) /\ Len(kind) = 1 /\ kind[1] = u
  BY <1>5
<1>7. TreeInv
  <2>1. \A n \in 2..Len(father) : FALSE
    BY <1>2
  <2>. QED
    BY <1>2, <1>3, <1>4, <1>6, <2>1, Zenon DEF TreeInv
<1>8. stage # "parsed" /\ stage # "walk" /\ code = <<>> /\ define_map = [n \in Names |-> "UNKNOWN"]
  BY DEF Init
<1>. QED
  BY <1>7, <1>8 DEF IInv, ParseInv, WalkInv

\* solc adds nodes level by level.
LEMMA AddNodeKeeps == IInv /\ AddNode => IInv'
<1>. SUFFICES ASSUME IInv, AddNode PROVE IInv'
  OBVIOUS
<1>1. IsTree(father) /\ father \in Seq(Nat) /\ Len(father) \in Nat /\ Len(father) >= 1
  <2>1. IsTree(father)
    BY DEF IInv, TreeInv
  <2>. QED
    BY <2>1 DEF IsTree
<1>2. PICK f \in Last(father)..Len(father), new \in NodeKinds :
        /\ f > 0 /\ <<kind[f][1], new[1]>> \in Holds
        /\ father' = Append(father, f) /\ kind' = Append(kind, new)
  BY DEF AddNode
<1>3. PICK g, k, l, n : g = father' /\ k = kind' /\ l = Len(father) /\ n = l + 1
  OBVIOUS
<1>4. l \in Nat /\ l >= 1 /\ Last(father) = father[l] /\ father[l] \in Nat
  BY <1>1, <1>3 DEF Last
<1>5. f \in Nat /\ f >= 1 /\ f <= l /\ father[l] <= f
  BY <1>2, <1>3, <1>4
<1>6. g \in Seq(Nat) /\ Len(g) = n /\ g[n] = f /\ \A i \in 1..l : g[i] = father[i]
  BY <1>1, <1>2, <1>3, <1>5, AppendProperties
<1>7. /\ father[1] = 0
      /\ \A i \in 2..l : father[i] >= 1 /\ father[i] < i
      /\ \A i, j \in 1..l : i <= j => father[i] <= father[j]
      /\ \A i \in 1..l : father[i] \in Nat
  BY <1>1, <1>3 DEF IsTree
<1>8. \A i \in 1..n : i = n \/ i \in 1..l
  BY <1>3, <1>4
<1>9. IsTree(g)
  <2>1. g[1] = 0
    BY <1>4, <1>6, <1>7
  <2>2. ASSUME NEW i \in 2..n PROVE g[i] >= 1 /\ g[i] < i
    <3>1. CASE i = n
      BY <1>3, <1>4, <1>5, <1>6, <3>1
    <3>2. CASE i # n
      <4>1. i \in 2..l /\ i \in 1..l
        BY <1>3, <1>4, <3>2
      <4>. QED
        BY <1>6, <1>7, <4>1
    <3>. QED
      BY <3>1, <3>2
  <2>3. ASSUME NEW i \in 1..n, NEW j \in 1..n, i <= j PROVE g[i] <= g[j]
    <3>1. CASE j # n
      <4>1. i \in 1..l /\ j \in 1..l
        BY <1>3, <1>4, <2>3, <3>1
      <4>. QED
        BY <1>6, <1>7, <2>3, <4>1
    <3>2. CASE j = n
      <4>1. CASE i = n
        BY <1>5, <1>6, <3>2, <4>1
      <4>2. CASE i \in 1..l
        <5>1. l \in 1..l /\ i <= l
          BY <1>4, <4>2
        <5>2. father[i] <= father[l]
          BY <1>7, <4>2, <5>1
        <5>. QED
          BY <1>4, <1>5, <1>6, <1>7, <3>2, <4>2, <5>2
      <4>. QED
        BY <1>8, <4>1, <4>2
    <3>. QED
      BY <3>1, <3>2
  <2>. QED
    BY <1>3, <1>4, <1>6, <2>1, <2>2, <2>3 DEF IsTree
<1>10. PICK u : u = <<"SourceUnit", "">>
  OBVIOUS
<1>11. /\ kind \in Seq(NodeKinds \cup {u}) /\ Len(kind) = l /\ kind[1] = u
       /\ \A i \in 2..l : kind[i] \in NodeKinds /\ <<kind[father[i]][1], kind[i][1]>> \in Holds
  BY <1>3, <1>10, Zenon DEF IInv, TreeInv
<1>12. k \in Seq(NodeKinds \cup {u}) /\ Len(k) = n /\ k[n] = new /\ \A i \in 1..l : k[i] = kind[i]
  <2>1. new \in NodeKinds \cup {u}
    OBVIOUS
  <2>. QED
    BY <1>2, <1>3, <1>11, <2>1, AppendProperties
<1>13. k[1] = u
  <2>1. 1 \in 1..l
    BY <1>4
  <2>. QED
    BY <1>11, <1>12, <2>1
<1>14. ASSUME NEW i \in 2..n PROVE k[i] \in NodeKinds /\ <<k[g[i]][1], k[i][1]>> \in Holds
  <2>1. CASE i = n
    <3>1. g[i] = f /\ f \in 1..l /\ k[i] = new
      BY <1>4, <1>5, <1>6, <1>12, <2>1
    <3>2. k[f] = kind[f]
      BY <1>12, <3>1
    <3>. QED
      BY <1>2, <3>1, <3>2, Zenon
  <2>2. CASE i # n
    <3>1. i \in 2..l /\ i \in 1..l
      BY <1>3, <1>4, <2>2
    <3>2. g[i] = father[i] /\ father[i] \in 1..l
      BY <1>4, <1>6, <1>7, <3>1
    <3>3. k[i] = kind[i] /\ k[father[i]] = kind[father[i]]
      BY <1>12, <3>1, <3>2
    <3>. QED
      BY <1>11, <3>1, <3>2, <3>3, Zenon
  <2>. QED
    BY <2>1, <2>2
<1>15. TreeInv'
  <2>1. Len(k) = Len(g)
    BY <1>6, <1>12
  <2>2. \A i \in 2..Len(g) : k[i] \in NodeKinds /\ <<k[g[i]][1], k[i][1]>> \in Holds
    BY <1>6, <1>14, Zenon
  <2>. QED
    BY <1>3, <1>9, <1>10, <1>12, <1>13, <2>1, <2>2, Zenon DEF TreeInv, IsTree
<1>16. stage = "solc" /\ stage' = "solc" /\ code' = code /\ define_map' = define_map
  BY DEF AddNode
<1>17. code = <<>> /\ define_map = [x \in Names |-> "UNKNOWN"]
  BY <1>16 DEF IInv, WalkInv
<1>18. ParseInv' /\ WalkInv'
  BY <1>16, <1>17 DEF ParseInv, WalkInv
<1>. QED
  BY <1>15, <1>18 DEF IInv

LEMMA TreeKept == TreeInv /\ father' = father /\ kind' = kind => TreeInv'
<1>. SUFFICES ASSUME TreeInv, father' = father, kind' = kind PROVE TreeInv'
  OBVIOUS
<1>. QED
  BY Zenon DEF TreeInv, IsTree

LEMMA ResolveKeeps == IInv /\ Resolve => IInv'
<1>. SUFFICES ASSUME IInv, Resolve PROVE IInv'
  OBVIOUS
<1>1. TreeInv'
  BY TreeKept DEF IInv, Resolve
<1>2. stage = "solc" /\ stage' = "compiled" /\ code' = code /\ define_map' = define_map
  BY DEF Resolve
<1>3. code = <<>> /\ define_map = [n \in Names |-> "UNKNOWN"]
  BY <1>2 DEF IInv, WalkInv
<1>4. ParseInv' /\ WalkInv'
  BY <1>2, <1>3 DEF ParseInv, WalkInv
<1>. QED
  BY <1>1, <1>4 DEF IInv

LEMMA ContractsKept ==
    ASSUME father' = father, kind' = kind
    PROVE  Contracts' = Contracts /\ Kids' = Kids
<1>1. Contracts' = Contracts
  BY DEF Contracts, OfKind, Nodes
<1>2. ASSUME NEW n PROVE ParseContract(n)' = ParseContract(n)
  BY DEF ParseContract, ChildrenOf, Keep, Nodes, Members, Named, OfKind
<1>3. ASSUME NEW n PROVE ParseFunction(n)' = ParseFunction(n)
  BY DEF ParseFunction, GetNodesByName, Queue, ChildrenOf, Keep, Nodes, Members, Named, OfKind
<1>4. Nodes' = Nodes /\ (OfKind("FunctionDefinition") \cap Named)' = OfKind("FunctionDefinition") \cap Named
  BY DEF Nodes, OfKind, Named
<1>5. Kids' = Kids
  BY <1>1, <1>2, <1>3, <1>4 DEF Kids
<1>. QED
  BY <1>1, <1>5

LEMMA ParseKeeps == IInv /\ Parse => IInv'
<1>. SUFFICES ASSUME IInv, Parse PROVE IInv'
  OBVIOUS
<1>1. father' = father /\ kind' = kind
  BY DEF Parse, tree
<1>2. TreeInv' /\ IsTree(father)
  BY <1>1, TreeKept DEF IInv, TreeInv
<1>3. PICK c : c = contract_nodes'
  OBVIOUS
<1>4. Lists(c, Contracts)
  <2>1. c = Keep(GetNodesByName(1, "ContractDefinition"), Contracts)
    BY <1>3 DEF Parse
  <2>. QED
    BY <1>2, <2>1, ListsContracts
<1>5. ToSet(c) = Contracts
  BY <1>4 DEF Lists
<1>6. children' = Kids
  <2>1. children' = [n \in Nodes |->
          IF n \in ToSet(c) THEN ParseContract(n)
          ELSE IF n \in OfKind("FunctionDefinition") \cap Named /\ father[n] \in ToSet(c)
            THEN ParseFunction(n)
          ELSE <<>>]
    BY <1>3, Zenon DEF Parse
  <2>. QED
    BY <1>5, <2>1, Zenon DEF Kids
<1>7. stage = "compiled" /\ stage' = "parsed" /\ code' = code /\ define_map' = define_map
  BY DEF Parse
<1>8. ParseInv'
  <2>1. Contracts' = Contracts /\ Kids' = Kids
    BY <1>1, ContractsKept
  <2>2. Lists(contract_nodes', Contracts')
    BY <1>3, <1>4, <2>1, Zenon
  <2>3. Lists(contract_nodes, Contracts)'
    BY <2>2 DEF Lists
  <2>. QED
    BY <1>6, <2>1, <2>3 DEF ParseInv
<1>9. code = <<>> /\ define_map = [n \in Names |-> "UNKNOWN"]
  BY <1>7 DEF IInv, WalkInv
<1>10. WalkInv'
  BY <1>7, <1>9 DEF WalkInv
<1>. QED
  BY <1>2, <1>8, <1>10 DEF IInv

\* Before the first round nothing has been visited and the queue holds the root.
WalkFrom(R) == Frontier(R, root, 0) = {root} /\ {m \in R : m <= 0} = {}
RootGiven == IsTree(father) /\ root \in Nodes /\ (root = 1 \/ is_recursive)
LEMMA WalkStarts == RootGiven => WalkFrom(Reached) /\ WalkFrom(Below(root)) /\ Reached \subseteq Nat
<1>. SUFFICES ASSUME IsTree(father), root \in Nodes, root = 1 \/ is_recursive
              PROVE  WalkFrom(Reached) /\ WalkFrom(Below(root)) /\ Reached \subseteq Nat
  BY DEF RootGiven
<1>1. HangsFrom(Reached, root) /\ HangsFrom(Below(root), root)
  BY ReachedHangs, BelowHangs
<1>2. WalkFrom(Reached)
  BY <1>1, FrontStarts DEF WalkFrom
<1>3. WalkFrom(Below(root))
  <2>1. PICK R : R = Below(root)
    OBVIOUS
  <2>. QED
    BY <1>1, <2>1, FrontStarts DEF WalkFrom
<1>4. Reached \subseteq Nat
  BY <1>1, TreeNodes DEF HangsFrom
<1>. QED
  BY <1>2, <1>3, <1>4

\* With nothing visited nothing is mapped or written.
Untouched == code = <<>> /\ define_map = [n \in Names |-> "UNKNOWN"]
LEMMA NothingDone ==
    Untouched /\ WalkFrom(Reached) /\ WalkFrom(Below(root)) => Mapped(0) /\ Written(Below(root), 0)
<1>. SUFFICES ASSUME Untouched, {m \in Reached : m <= 0} = {}, {m \in Below(root) : m <= 0} = {}
              PROVE  Mapped(0) /\ Written(Below(root), 0)
  BY DEF WalkFrom
<1>1. Written(Below(root), 0)
  <2>1. ToSet(code) = {} /\ Len(code) = 0 /\ code \in Seq(id_src_map)
    BY DEF ToSet, Untouched
  <2>2. {ref[m] : m \in {n \in Below(root) : n <= 0}} = {}
    OBVIOUS
  <2>. QED
    BY <2>1, <2>2 DEF Written
<1>2. Mapped(0)
  <2>1. \A name : DefinedBy(name, 0) = {}
    BY DEF DefinedBy, Defining
  <2>. QED
    BY <2>1 DEF Mapped, LastKind, Untouched
<1>. QED
  BY <1>1, <1>2

LEMMA StartWalkKeeps ==
    ASSUME IInv, NEW which \in {"GetDefinitionMap", "ExpandFuncNode"}, NEW n, NEW recursive,
           n \in Nodes, n = 1 \/ recursive, StartWalk(which, n, recursive)
    PROVE  IInv'
<1>1. /\ stage = "parsed" /\ stage' = "walk" /\ walk' = which /\ root' = n /\ is_recursive' = recursive
      /\ q' = <<n>> /\ father' = father /\ kind' = kind
      /\ define_map' = define_map /\ code' = code
  BY DEF StartWalk, tree, parsed
<1>2. TreeInv' /\ IsTree(father)
  BY <1>1, TreeKept DEF IInv, TreeInv
<1>3. ParseInv'
  BY <1>1 DEF ParseInv
<1>4. Untouched'
  BY <1>1 DEF IInv, WalkInv, Untouched
<1>5. RootGiven' /\ n \in Nat
  <2>1. IsTree(father)' /\ Nodes' = Nodes
    BY <1>1, <1>2, Zenon DEF IsTree, Nodes
  <2>2. n \in Nat
    BY <1>2, TreeNodes
  <2>. QED
    BY <1>1, <2>1, <2>2, Zenon DEF RootGiven
<1>6. (WalkFrom(Reached) /\ WalkFrom(Below(root)))'
  <2>1. (RootGiven => WalkFrom(Reached) /\ WalkFrom(Below(root)) /\ Reached \subseteq Nat)'
    BY WalkStarts, PTL
  <2>. QED
    BY <1>5, <2>1
<1>7. (Mapped(0) /\ Written(Below(root), 0))'
  <2>1. (Untouched /\ WalkFrom(Reached) /\ WalkFrom(Below(root)) => Mapped(0) /\ Written(Below(root), 0))'
    BY NothingDone, PTL
  <2>. QED
    BY <1>4, <1>6, <2>1
<1>8. Lists(<<n>>, {n})
  BY <1>5, ListsOne
<1>9. Lists(q', {root'})
  BY <1>1, <1>8, Zenon
<1>10. (\E h \in Nat : Lists(q, Frontier(Reached, root, h)) /\ Mapped(h))'
  <2>1. Lists(q, Frontier(Reached, root, 0))'
    BY <1>6, <1>9 DEF WalkFrom, Lists
  <2>. QED
    BY <1>7, <2>1
<1>11. (\E h \in Nat : Lists(q, Frontier(Below(root), root, h)) /\ Written(Below(root), h))'
  <2>1. Lists(q, Frontier(Below(root), root, 0))'
    BY <1>6, <1>9 DEF WalkFrom, Lists
  <2>. QED
    BY <1>7, <2>1
<1>12. WalkInv'
  BY <1>1, <1>5, <1>10, <1>11 DEF WalkInv, RootGiven
<1>. QED
  BY <1>2, <1>3, <1>12 DEF IInv

\* What a walk does not change.
LEMMA RoundsKeep ==
    ASSUME father' = father, kind' = kind, ref' = ref, root' = root, is_recursive' = is_recursive
    PROVE  /\ Reached' = Reached /\ Below(root)' = Below(root) /\ Nodes' = Nodes
           /\ \A R, r, h : Frontier(R, r, h)' = Frontier(R, r, h)
           /\ \A name : Defining(name)' = Defining(name)
           /\ \A d : FirstReference(d)' = FirstReference(d)
<1>1. Below(root)' = Below(root) /\ Nodes' = Nodes
  BY DEF Below, Above, Nodes
<1>2. Reached' = Reached
  BY DEF Reached, Below, Above, Closed, Nodes, OfKind, Named
<1>3. \A R, r, h : Frontier(R, r, h)' = Frontier(R, r, h)
  BY DEF Frontier
<1>4. \A name : Defining(name)' = Defining(name)
  BY <1>2 DEF Defining
<1>5. \A d : FirstReference(d)' = FirstReference(d)
  BY DEF FirstReference, Below, Above, Nodes
<1>. QED
  BY <1>1, <1>2, <1>3, <1>4, <1>5

\* A set's last node is what LastKind looks at.
LEMMA LastKindIs ==
    ASSUME NEW S, S \subseteq Nat, NEW n \in S, \A m \in S : m <= n
    PROVE  LastKind(S) = kind[n][1]
<1>1. \A x : x \in S /\ (\A m \in S : m <= x) <=> x = n
  <2>. SUFFICES ASSUME NEW x \in S, \A m \in S : m <= x PROVE x = n
    OBVIOUS
  <2>1. x \in Nat /\ n \in Nat /\ x <= n /\ n <= x
    OBVIOUS
  <2>. QED
    BY <2>1
<1>. DEFINE c == CHOOSE x \in S : \A m \in S : m <= x
<1>2. c = n
  <2>1. c \in S /\ \A m \in S : m <= c
    BY <1>1
  <2>. HIDE DEF c
  <2>. QED
    BY <1>1, <2>1
<1>3. S # {}
  OBVIOUS
<1>4. LastKind(S) = IF S = {} THEN "UNKNOWN" ELSE kind[c][1]
  BY Zenon DEF LastKind
<1>. HIDE DEF c
<1>. QED
  BY <1>2, <1>3, <1>4

\* A name a node of the tree has is one of Names.
LEMMA NamedHave ==
    ASSUME TreeInv, NEW n \in Named
    PROVE  kind[n][2] \in Names
<1>1. IsTree(father) /\ kind[1] = <<"SourceUnit", "">>
  BY DEF TreeInv
<1>2. \A a, b : <<a, b>>[2] = b
  OBVIOUS
<1>3. kind[1][2] = ""
  BY <1>1, <1>2, Zenon
<1>4. n \in Nodes /\ kind[n][2] # ""
  BY DEF Named
<1>5. n # 1
  BY <1>3, <1>4, Zenon
<1>6. n \in 2..Len(father)
  <2>1. IsTree(father) /\ n \in Nodes
    BY <1>1, <1>4
  <2>2. Nodes = 1..Len(father) /\ Len(father) \in Nat
    BY <2>1, TreeNodes
  <2>. QED
    BY <1>5, <2>1, <2>2
<1>7. kind[n] \in NodeKinds
  BY <1>6, Zenon DEF TreeInv
<1>. QED
  BY <1>4, <1>7 DEF Names

\* One round of GetDefinitionMap: the name of the node has its kind from now on.
LEMMA MapMoves ==
    ASSUME TreeInv, Reached \subseteq Nat, NEW h \in Nat, Mapped(h), NEW n \in Reached, h < n,
           {m \in Reached : m <= n} = {m \in Reached : m <= h} \cup {n},
           NEW d, d = IF n \in Named /\ kind[n][1] \in Definitions
                        THEN [define_map EXCEPT ![kind[n][2]] = kind[n][1]]
                        ELSE define_map
    PROVE  DOMAIN d = Names /\ \A name \in Names : d[name] = LastKind(DefinedBy(name, n))
<1>1. DOMAIN define_map = Names /\ \A name \in Names : define_map[name] = LastKind(DefinedBy(name, h))
  BY DEF Mapped
<1>2. n \in Nodes
  BY DEF Reached, Below
<1>3. \A name \in Names : name # ""
  BY DEF Names
<1>4. ASSUME NEW name \in Names
      PROVE  n \in Defining(name) <=> n \in Named /\ kind[n][1] \in Definitions /\ kind[n][2] = name
  BY <1>2, <1>3 DEF Defining, Named
<1>5. ASSUME NEW name \in Names
      PROVE  DefinedBy(name, n) = IF n \in Defining(name) THEN DefinedBy(name, h) \cup {n} ELSE DefinedBy(name, h)
  <2>1. Defining(name) \subseteq Reached
    BY DEF Defining
  <2>. QED
    BY <2>1 DEF DefinedBy
<1>6. ASSUME NEW name \in Names
      PROVE  d[name] = IF n \in Defining(name) THEN kind[n][1] ELSE define_map[name]
  <2>1. CASE n \in Named /\ kind[n][1] \in Definitions
    BY <1>1, <1>4, <2>1
  <2>2. CASE ~(n \in Named /\ kind[n][1] \in Definitions)
    BY <1>4, <2>2
  <2>. QED
    BY <2>1, <2>2
<1>7. DOMAIN d = Names
  BY <1>1
<1>8. ASSUME NEW name \in Names PROVE d[name] = LastKind(DefinedBy(name, n))
  <2>1. CASE n \in Defining(name)
    <3>1. PICK S : S = DefinedBy(name, n)
      OBVIOUS
    <3>2. S \subseteq Nat /\ n \in S /\ \A m \in S : m <= n
      <4>1. S \subseteq Reached /\ \A m \in S : m <= n
        BY <3>1 DEF DefinedBy, Defining
      <4>2. n \in S
        BY <1>5, <2>1, <3>1
      <4>. QED
        BY <4>1, <4>2
    <3>3. LastKind(S) = kind[n][1]
      BY <3>2, LastKindIs
    <3>. QED
      BY <1>6, <2>1, <3>1, <3>3
  <2>2. CASE n \notin Defining(name)
    BY <1>1, <1>5, <1>6, <2>2
  <2>. QED
    BY <2>1, <2>2
<1>. QED
  BY <1>7, <1>8

LEMMA VisitDefinitionKeeps == IInv /\ VisitDefinition => IInv'
<1>. SUFFICES ASSUME IInv, VisitDefinition PROVE IInv'
  OBVIOUS
<1>1. /\ stage = "walk" /\ walk = "GetDefinitionMap" /\ q # <<>>
      /\ stage' = stage /\ walk' = walk /\ root' = root /\ is_recursive' = is_recursive
      /\ father' = father /\ kind' = kind /\ ref' = ref
  BY DEF VisitDefinition, tree, walking
<1>2. PICK n : n = Head(q)
  OBVIOUS
<1>3. /\ define_map' = IF n \in Named /\ kind[n][1] \in Definitions
                         THEN [define_map EXCEPT ![kind[n][2]] = kind[n][1]]
                         ELSE define_map
      /\ q' = IF n \in Closed THEN Tail(q) ELSE Tail(q) \o ChildrenOf(n)
  BY <1>2 DEF VisitDefinition, Push
<1>4. TreeInv /\ TreeInv' /\ IsTree(father)
  BY <1>1, TreeKept DEF IInv, TreeInv
<1>5. root \in Nodes /\ (root = 1 \/ is_recursive)
  BY <1>1 DEF IInv, WalkInv
<1>6. PICK h \in Nat : Lists(q, Frontier(Reached, root, h)) /\ Mapped(h)
  BY <1>1 DEF IInv, WalkInv
<1>7. /\ HangsFrom(Reached, root)
      /\ n \in Reached => {c \in Reached : father[c] = n} = IF n \in Closed THEN {} ELSE {c \in Nodes : father[c] = n}
  BY <1>4, <1>5, ReachedHangs
<1>8. n \in Reached /\ Reached \subseteq Nat
  <2>1. n \in Frontier(Reached, root, h)
    BY <1>1, <1>2, <1>6, ListsHead
  <2>. QED
    BY <1>4, <1>7, <2>1, TreeNodes DEF Frontier, HangsFrom
<1>9. PICK u, C : /\ u = IF n \in Closed THEN <<>> ELSE ChildrenOf(n)
                  /\ C = {c \in Reached : father[c] = n}
  OBVIOUS
<1>10. Lists(u, C)
  <2>1. CASE n \in Closed
    BY <1>7, <1>8, <1>9, <2>1, ListsNothing
  <2>2. CASE n \notin Closed
    BY <1>4, <1>7, <1>8, <1>9, <2>2, ListsChildren
  <2>. QED
    BY <2>1, <2>2
<1>11. /\ n \in Nat /\ h < n
       /\ {m \in Reached : m <= n} = {m \in Reached : m <= h} \cup {n}
       /\ Lists(Tail(q) \o u, Frontier(Reached, root, n))
  <2>1. PICK R, s : R = Reached /\ s = q
    OBVIOUS
  <2>. QED
    BY <1>1, <1>2, <1>4, <1>6, <1>7, <1>9, <1>10, <2>1, RoundMoves
<1>12. q' = Tail(q) \o u
  <2>1. CASE n \in Closed
    <3>1. q \in Seq(Nat)
      BY <1>6 DEF Lists
    <3>2. Tail(q) \in Seq(Nat)
      BY <1>1, <3>1
    <3>3. Tail(q) \o <<>> = Tail(q)
      BY <3>2, ConcatEmptySeq
    <3>. QED
      BY <1>3, <1>9, <2>1, <3>3
  <2>2. CASE n \notin Closed
    BY <1>3, <1>9, <2>2
  <2>. QED
    BY <2>1, <2>2
<1>13. PICK d : d = define_map'
  OBVIOUS
<1>14. DOMAIN d = Names /\ \A name \in Names : d[name] = LastKind(DefinedBy(name, n))
  BY <1>3, <1>4, <1>6, <1>8, <1>11, <1>13, MapMoves
<1>15. Mapped(n)'
  <2>1. \A name : Defining(name)' = Defining(name)
    BY <1>1, RoundsKeep
  <2>2. ASSUME NEW name PROVE LastKind(DefinedBy(name, n))' = LastKind(DefinedBy(name, n))
    <3>1. DefinedBy(name, n)' = DefinedBy(name, n)
      BY <2>1 DEF DefinedBy
    <3>. QED
      BY <1>1, <3>1 DEF LastKind
  <2>. QED
    BY <1>13, <1>14, <2>2, Zenon DEF Mapped
<1>16. Lists(q, Frontier(Reached, root, n))'
  <2>1. Reached' = Reached
    BY <1>1, RoundsKeep
  <2>2. Frontier(Reached, root, n)' = Frontier(Reached, root, n)
    BY <1>1, <2>1 DEF Frontier
  <2>. QED
    BY <1>11, <1>12, <2>2, Zenon DEF Lists
<1>17. WalkInv'
  <2>1. Nodes' = Nodes
    BY <1>1, RoundsKeep
  <2>. QED
    BY <1>1, <1>5, <1>11, <1>15, <1>16, <2>1 DEF WalkInv
<1>18. ParseInv'
  BY <1>1 DEF ParseInv
<1>. QED
  BY <1>4, <1>17, <1>18 DEF IInv

\* The first node that refers to d.
LEMMA FirstReferenceIs ==
    ASSUME Below(root) \subseteq Nat, NEW d, NEW n \in Below(root), ref[n] = d,
           \A m \in Below(root) : ref[m] = d => n <= m
    PROVE  FirstReference(d) = n
<1>1. ASSUME NEW x \in Below(root), ref[x] = d, \A m \in Below(root) : ref[m] = d => x <= m PROVE x = n
  <2>1. x \in Nat /\ n \in Nat
    OBVIOUS
  <2>2. x <= n /\ n <= x
    BY <1>1
  <2>. QED
    BY <2>1, <2>2
<1>2. FirstReference(d) = CHOOSE x \in Below(root) : ref[x] = d /\ \A m \in Below(root) : ref[m] = d => x <= m
  BY Zenon DEF FirstReference
<1>. DEFINE c == CHOOSE x \in Below(root) : ref[x] = d /\ \A m \in Below(root) : ref[m] = d => x <= m
<1>3. c \in Below(root) /\ ref[c] = d /\ \A m \in Below(root) : ref[m] = d => c <= m
  OBVIOUS
<1>4. FirstReference(d) = c
  BY <1>2
<1>. HIDE DEF c
<1>. QED
  BY <1>1, <1>3, <1>4

\* A declaration that a node up to h refers to is referred to first by one of them.
LEMMA FirstReferenceBy ==
    ASSUME Below(root) \subseteq Nat, NEW h \in Nat, NEW m \in Below(root), m <= h
    PROVE  FirstReference(ref[m]) \in Nat /\ FirstReference(ref[m]) <= h
<1> DEFINE S == {x \in Below(root) : ref[x] = ref[m]}
<1>1. m \in S /\ S \in SUBSET Nat
  OBVIOUS
<1>2. PICK x \in S : \A y \in S : x <= y
  <2>. HIDE DEF S
  <2>. QED
    BY <1>1, LeastExists
<1>3. FirstReference(ref[m]) = x
  <2>1. PICK d : d = ref[m]
    OBVIOUS
  <2>2. x \in Below(root) /\ ref[x] = d /\ \A y \in Below(root) : ref[y] = d => x <= y
    BY <1>2, <2>1
  <2>3. FirstReference(d) = x
    BY <2>2, FirstReferenceIs
  <2>. QED
    BY <2>1, <2>3
<1>4. x <= m /\ x \in Nat /\ m \in Nat
  BY <1>1, <1>2
<1>. QED
  BY <1>3, <1>4

\* One round of ExpandFuncNode: a declaration not referred to before comes last.
LEMMA WrittenMoves ==
    ASSUME Below(root) \subseteq Nat, NEW h \in Nat, Written(Below(root), h), NEW n \in Below(root), h < n,
           {m \in Below(root) : m <= n} = {m \in Below(root) : m <= h} \cup {n},
           NEW c, c = IF NotYetVisited(ref[n]) THEN Append(code, ref[n]) ELSE code
    PROVE  /\ c \in Seq(id_src_map)
           /\ ToSet(c) = {ref[m] : m \in {x \in Below(root) : x <= n}} \cap id_src_map
           /\ \A p, r \in 1..Len(c) : p < r => FirstReference(c[p]) < FirstReference(c[r])
<1>1. PICK R, d : R = Below(root) /\ d = ref[n]
  OBVIOUS
<1>2. /\ code \in Seq(id_src_map) /\ Len(code) \in Nat /\ DOMAIN code = 1..Len(code)
      /\ ToSet(code) = {ref[m] : m \in {x \in R : x <= h}} \cap id_src_map
      /\ \A p, r \in 1..Len(code) : p < r => FirstReference(code[p]) < FirstReference(code[r])
  BY <1>1 DEF Written
<1>3. {ref[m] : m \in {x \in R : x <= n}} = {ref[m] : m \in {x \in R : x <= h}} \cup {d}
  BY <1>1
<1>4. \A p \in 1..Len(code) : code[p] \in ToSet(code)
  BY <1>2 DEF ToSet
<1>5. CASE d \in id_src_map /\ d \notin ToSet(code)
  <2>1. c = Append(code, d)
    BY <1>1, <1>5 DEF NotYetVisited
  <2>2. /\ c \in Seq(id_src_map) /\ Len(c) = Len(code) + 1 /\ c[Len(code) + 1] = d /\ DOMAIN c = 1..Len(c)
        /\ \A p \in 1..Len(code) : c[p] = code[p]
    BY <1>2, <1>5, <2>1, AppendProperties
  <2>3. PICK l \in Nat, k \in Nat : l = Len(code) /\ k = Len(c) /\ k = l + 1
    <3>1. Len(code) \in Nat /\ Len(c) = Len(code) + 1
      BY <1>2, <2>2
    <3>. QED
      BY <3>1
  <2>3a. c[k] = d
    BY <2>2, <2>3, Zenon
  <2>4. /\ k \in 1..k /\ \A p \in 1..l : p \in 1..k
        /\ \A p \in 1..k : p \in 1..l \/ p = k
        /\ \A p, r \in 1..k : p < r => p \in 1..l
    BY <2>3
  <2>5. ToSet(c) = ToSet(code) \cup {d}
    <3>1. ToSet(c) = {c[p] : p \in 1..k} /\ ToSet(code) = {code[p] : p \in 1..l}
      <4>1. DOMAIN c = 1..k /\ DOMAIN code = 1..l
        BY <1>2, <2>2, <2>3, Zenon
      <4>. QED
        BY <4>1 DEF ToSet
    <3>2. \A p \in 1..l : c[p] = code[p]
      BY <2>2, <2>3, Zenon
    <3>3. ASSUME NEW x \in ToSet(c) PROVE x \in ToSet(code) \cup {d}
      <4>1. PICK p \in 1..k : x = c[p]
        BY <3>1
      <4>2. CASE p = k
        BY <2>3a, <4>1, <4>2
      <4>3. CASE p \in 1..l
        <5>1. x = code[p]
          BY <3>2, <4>1, <4>3
        <5>. QED
          BY <3>1, <4>3, <5>1
      <4>. QED
        BY <2>4, <4>2, <4>3
    <3>4. ASSUME NEW x \in ToSet(code) \cup {d} PROVE x \in ToSet(c)
      <4>1. CASE x = d
        BY <2>4, <2>3a, <3>1, <4>1
      <4>2. CASE x \in ToSet(code)
        <5>1. PICK p \in 1..l : x = code[p]
          BY <3>1, <4>2
        <5>2. p \in 1..k /\ x = c[p]
          BY <2>4, <3>2, <5>1
        <5>. QED
          BY <3>1, <5>2
      <4>. QED
        BY <4>1, <4>2
    <3>. QED
      BY <3>3, <3>4
  <2>6. ToSet(c) = {ref[m] : m \in {x \in R : x <= n}} \cap id_src_map
    BY <1>2, <1>3, <1>5, <2>5
  <2>7. FirstReference(d) = n
    <3>1. ASSUME NEW m \in R, ref[m] = d PROVE n <= m
      <4>1. ~(m <= h)
        BY <1>2, <1>5, <3>1
      <4>2. m \in Nat /\ n \in Nat
        BY <1>1
      <4>3. m <= n => m = n
        BY <1>1, <4>1
      <4>. QED
        BY <4>2, <4>3
    <3>. QED
      BY <1>1, <3>1, FirstReferenceIs
  <2>8. ASSUME NEW p \in 1..Len(code) PROVE FirstReference(code[p]) < n
    <3>1. PICK m \in R : m <= h /\ code[p] = ref[m]
      BY <1>2, <1>4
    <3>2. FirstReference(ref[m]) \in Nat /\ FirstReference(ref[m]) <= h
      BY <1>1, <3>1, FirstReferenceBy
    <3>3. n \in Nat
      BY <1>1
    <3>4. FirstReference(ref[m]) < n
      BY <3>2, <3>3
    <3>. QED
      BY <3>1, <3>4
  <2>9. ASSUME NEW p \in 1..Len(c), NEW r \in 1..Len(c), p < r
        PROVE  FirstReference(c[p]) < FirstReference(c[r])
    <3>1. p \in 1..Len(code) /\ (r \in 1..Len(code) \/ r = k)
      <4>1. p \in 1..k /\ r \in 1..k
        BY <2>3, Zenon
      <4>2. p \in 1..l /\ (r \in 1..l \/ r = k)
        BY <2>4, <2>9, <4>1
      <4>. QED
        BY <2>3, <4>2, Zenon
    <3>2. CASE r = k
      <4>1. c[p] = code[p] /\ c[r] = d
        BY <2>2, <2>3a, <3>1, <3>2, Zenon
      <4>. QED
        BY <2>7, <2>8, <3>1, <4>1
    <3>3. CASE r \in 1..Len(code)
      <4>1. c[p] = code[p] /\ c[r] = code[r]
        BY <2>2, <3>1, <3>3, Zenon
      <4>. QED
        BY <1>2, <2>9, <3>1, <3>3, <4>1
    <3>. QED
      BY <3>1, <3>2, <3>3
  <2>. QED
    BY <1>1, <2>2, <2>6, <2>9
<1>6. CASE ~(d \in id_src_map /\ d \notin ToSet(code))
  <2>1. c = code
    BY <1>1, <1>6 DEF NotYetVisited
  <2>2. ToSet(code) = {ref[m] : m \in {x \in R : x <= n}} \cap id_src_map
    BY <1>2, <1>3, <1>6
  <2>. QED
    BY <1>1, <1>2, <2>1, <2>2
<1>. QED
  BY <1>5, <1>6

LEMMA VisitReferenceKeeps == IInv /\ VisitReference => IInv'
<1>. SUFFICES ASSUME IInv, VisitReference PROVE IInv'
  OBVIOUS
<1>1. /\ stage = "walk" /\ walk = "ExpandFuncNode" /\ q # <<>>
      /\ stage' = stage /\ walk' = walk /\ root' = root /\ is_recursive' = is_recursive
      /\ father' = father /\ kind' = kind /\ ref' = ref /\ id_src_map' = id_src_map
  BY DEF VisitReference, tree, walking, parsed
<1>2. PICK n : n = Head(q)
  OBVIOUS
<1>3. /\ code' = IF NotYetVisited(ref[n]) THEN Append(code, ref[n]) ELSE code
      /\ q' = Tail(q) \o ChildrenOf(n)
  BY <1>2 DEF VisitReference, Push
<1>4. TreeInv' /\ IsTree(father)
  BY <1>1, TreeKept DEF IInv, TreeInv
<1>5. root \in Nodes /\ (root = 1 \/ is_recursive)
  BY <1>1 DEF IInv, WalkInv
<1>6. PICK R : R = Below(root)
  OBVIOUS
<1>7. PICK h \in Nat : Lists(q, Frontier(R, root, h)) /\ Written(Below(root), h)
  BY <1>1, <1>6 DEF IInv, WalkInv
<1>8. HangsFrom(R, root) /\ \A m \in R, c \in Nodes : father[c] = m => c \in R
  BY <1>4, <1>5, <1>6, BelowHangs
<1>9. n \in R /\ R \subseteq Nat /\ R \subseteq Nodes
  <2>1. n \in Frontier(R, root, h)
    BY <1>1, <1>2, <1>7, ListsHead
  <2>. QED
    BY <1>4, <1>8, <2>1, TreeNodes DEF Frontier, HangsFrom
<1>10. PICK u, C, s : u = ChildrenOf(n) /\ C = {c \in R : father[c] = n} /\ s = q
  OBVIOUS
<1>11. Lists(u, C)
  <2>1. C = {c \in Nodes : father[c] = n}
    BY <1>8, <1>9, <1>10
  <2>. QED
    BY <1>4, <1>10, <2>1, ListsChildren
<1>12. /\ n \in Nat /\ h < n
       /\ {m \in R : m <= n} = {m \in R : m <= h} \cup {n}
       /\ Lists(Tail(s) \o u, Frontier(R, root, n))
  BY <1>1, <1>2, <1>4, <1>7, <1>8, <1>10, <1>11, RoundMoves
<1>13. PICK c : c = code'
  OBVIOUS
<1>14. /\ c \in Seq(id_src_map)
       /\ ToSet(c) = {ref[m] : m \in {x \in Below(root) : x <= n}} \cap id_src_map
       /\ \A p, r \in 1..Len(c) : p < r => FirstReference(c[p]) < FirstReference(c[r])
  BY <1>3, <1>6, <1>7, <1>9, <1>12, <1>13, WrittenMoves
<1>15. Written(Below(root), n)'
  <2>1. Below(root)' = Below(root) /\ \A d : FirstReference(d)' = FirstReference(d)
    BY <1>1, RoundsKeep
  <2>2. (code \in Seq(id_src_map))'
    BY <1>1, <1>13, <1>14
  <2>3. (ToSet(code) = {ref[m] : m \in {x \in Below(root) : x <= n}} \cap id_src_map)'
    BY <1>1, <1>13, <1>14, <2>1 DEF ToSet
  <2>4. (\A p, r \in 1..Len(code) : p < r => FirstReference(code[p]) < FirstReference(code[r]))'
    <3>1. ASSUME NEW p PROVE FirstReference(code[p])' = FirstReference(c[p])
      <4>1. Below(root)' = Below(root)
        BY <2>1
      <4>. QED
        BY <1>1, <1>13, <4>1 DEF FirstReference
    <3>. QED
      BY <1>13, <1>14, <3>1
  <2>. QED
    BY <2>2, <2>3, <2>4, Zenon DEF Written
<1>16. Lists(q, Frontier(Below(root), root, n))'
  <2>1. Below(root)' = Below(root)
    BY <1>1, RoundsKeep
  <2>2. Frontier(Below(root), root, n)' = Frontier(R, root, n)
    BY <1>1, <1>6, <2>1 DEF Frontier
  <2>. QED
    BY <1>3, <1>10, <1>12, <2>2, Zenon DEF Lists
<1>17. WalkInv'
  <2>1. Nodes' = Nodes
    BY <1>1, RoundsKeep
  <2>. QED
    BY <1>1, <1>5, <1>12, <1>15, <1>16, <2>1 DEF WalkInv
<1>18. ParseInv'
  BY <1>1 DEF ParseInv
<1>. QED
  BY <1>4, <1>17, <1>18 DEF IInv

-----------------------------------------------------------------------------
(* The theorems *)

LEMMA StepHolds == IInv /\ [Next]_vars => IInv'
<1>. SUFFICES ASSUME IInv, [Next]_vars PROVE IInv'
  OBVIOUS
<1>1. ASSUME UNCHANGED vars PROVE IInv'
  <2>1. /\ stage' = stage /\ father' = father /\ kind' = kind /\ ref' = ref
        /\ contract_nodes' = contract_nodes /\ children' = children /\ id_src_map' = id_src_map
        /\ walk' = walk /\ root' = root /\ is_recursive' = is_recursive
        /\ q' = q /\ define_map' = define_map /\ code' = code
    BY <1>1 DEF vars, tree, parsed, walking
  <2>2. TreeInv'
    BY <2>1, TreeKept DEF IInv
  <2>3. ParseInv'
    <3>1. Contracts' = Contracts /\ Kids' = Kids
      BY <2>1, ContractsKept
    <3>2. stage = "parsed" => Lists(contract_nodes, Contracts) /\ children = Kids
      BY DEF IInv, ParseInv
    <3>3. Lists(contract_nodes, Contracts)' <=> Lists(contract_nodes, Contracts)
      BY <2>1, <3>1, Zenon DEF Lists, ToSet
    <3>. QED
      BY <2>1, <3>1, <3>2, <3>3, Zenon DEF ParseInv
  <2>4. WalkInv'
    <3>1. /\ Reached' = Reached /\ Below(root)' = Below(root) /\ Nodes' = Nodes
          /\ \A R, r, h : Frontier(R, r, h)' = Frontier(R, r, h)
          /\ \A name : Defining(name)' = Defining(name)
          /\ \A d : FirstReference(d)' = FirstReference(d)
      BY <2>1, RoundsKeep
    <3>2. ASSUME NEW h, Mapped(h) PROVE Mapped(h)'
      <4>1. ASSUME NEW name PROVE LastKind(DefinedBy(name, h))' = LastKind(DefinedBy(name, h))
        <5>1. DefinedBy(name, h)' = DefinedBy(name, h)
          BY <3>1 DEF DefinedBy
        <5>. QED
          BY <2>1, <5>1 DEF LastKind
      <4>. QED
        BY <2>1, <3>2, <4>1, Zenon DEF Mapped
    <3>3. ASSUME NEW h, Written(Below(root), h) PROVE Written(Below(root), h)'
      <4>1. ASSUME NEW p PROVE FirstReference(code[p])' = FirstReference(code[p])
        BY <2>1, <3>1 DEF FirstReference
      <4>. QED
        BY <2>1, <3>1, <3>3, <4>1 DEF Written, ToSet
    <3>4. ASSUME NEW h
          PROVE  /\ Lists(q, Frontier(Reached, root, h)) => Lists(q, Frontier(Reached, root, h))'
                 /\ Lists(q, Frontier(Below(root), root, h)) => Lists(q, Frontier(Below(root), root, h))'
      <4>1. /\ Frontier(Reached, root, h)' = Frontier(Reached, root, h)
            /\ Frontier(Below(root), root, h)' = Frontier(Below(root), root, h)
        BY <2>1, <3>1 DEF Frontier
      <4>. QED
        BY <2>1, <4>1 DEF Lists, ToSet
    <3>. QED
      BY <2>1, <3>1, <3>2, <3>3, <3>4, Zenon DEF IInv, WalkInv
  <2>. QED
    BY <2>2, <2>3, <2>4 DEF IInv
<1>2. CASE AddNode
  BY <1>2, AddNodeKeeps
<1>3. CASE Resolve
  BY <1>3, ResolveKeeps
<1>4. CASE Parse
  BY <1>4, ParseKeeps
<1>5. ASSUME StartWalk("GetDefinitionMap", 1, FALSE) PROVE IInv'
  <2>1. 1 \in Nodes
    BY TreeNodes DEF IInv, TreeInv
  <2>2. PICK which, n, recursive : which = "GetDefinitionMap" /\ n = 1 /\ recursive = FALSE
    OBVIOUS
  <2>3. StartWalk(which, n, recursive)
    BY <1>5, <2>2, Zenon
  <2>. QED
    BY <2>1, <2>2, <2>3, StartWalkKeeps
<1>6. ASSUME NEW f \in ToSet(Functions) \cup Updating, NEW which \in {"GetDefinitionMap", "ExpandFuncNode"},
             StartWalk(which, f, TRUE)
      PROVE  IInv'
  <2>1. stage = "parsed"
    BY <1>6 DEF StartWalk
  <2>2. Lists(Functions, Handed)
    <3>1. IsTree(father) /\ children = Kids /\ Lists(contract_nodes, Contracts)
      BY <2>1 DEF IInv, TreeInv, ParseInv
    <3>. QED
      BY <3>1, FunctionsFound
  <2>3. f \in Nodes
    <3>1. CASE f \in ToSet(Functions)
      BY <2>2, <3>1 DEF Lists, Handed, OfKind
    <3>2. CASE f \in Updating
      <4>1. PICK a \in ToSet(GetAssignmentNodes) : f = GetUpperFuncNodePtr(a) /\ f # NoFunction
        BY <3>2 DEF Updating
      <4>2. a \in Nodes
        <5>1. Lists(GetAssignmentNodes, OfKind("Assignment"))
          BY AssignmentsListed DEF IInv
        <5>. QED
          BY <4>1, <5>1 DEF Lists, OfKind
      <4>. QED
        BY <4>1, <4>2, UpperIs DEF IInv
    <3>. QED
      BY <1>6, <3>1, <3>2
  <2>4. PICK recursive : recursive = TRUE
    OBVIOUS
  <2>5. StartWalk(which, f, recursive)
    BY <1>6, <2>4, Zenon
  <2>. QED
    BY <2>3, <2>4, <2>5, StartWalkKeeps
<1>7. CASE VisitDefinition
  BY <1>7, VisitDefinitionKeeps
<1>8. CASE VisitReference
  BY <1>8, VisitReferenceKeeps
<1>. QED
  BY <1>1, <1>2, <1>3, <1>4, <1>5, <1>6, <1>7, <1>8 DEF Next

LEMMA IInvHolds == Spec => []IInv
BY InitHolds, StepHolds, PTL DEF Spec

\* Whatever the tree, four injectors are handed each named function of each contract that
\* is no library once, and each assignment, declaring statement and call of a function
\* once and with no other function; Reentrancy, which walks the tree itself, is handed
\* each assignment of the source once and with the function it stands in:
\* AstWrapper::Parse (ast_wrapper.h:27-74), FunctionNode::Parse, the ExtractInject loops
\* and ReentrancyProcessor::Extract (reentrancy_processor.h:26-45).
THEOREM ChildrenOnceHolds == Spec => []ChildrenOnce
<1>1. IInv => ChildrenOnce
  BY ParseTells DEF IInv
<1>. QED
  BY <1>1, IInvHolds, PTL

\* When GetDefinitionMap has ended, each name has the kind of its deepest and rightmost
\* definition in what the walk goes into, or none (processor.h:474-508).
THEOREM DeepestDefinitionHolds == Spec => []DeepestDefinition
<1>1. IInv => DeepestDefinition
  BY WalkTells
<1>. QED
  BY <1>1, IInvHolds, PTL

\* When ExpandFuncNode has ended, each known declaration the function refers to is before
\* it once, in the order the nodes refer to them first (processor.h:157-189).
THEOREM DeclarationsOnceHolds == Spec => []DeclarationsOnce
<1>1. IInv => DeclarationsOnce
  BY WalkTells
<1>. QED
  BY <1>1, IInvHolds, PTL

=============================================================================
