------------------------ MODULE SourceCleanerProofs ------------------------
(***************************************************************************)
(* That the passes drop the comments and nothing else, that none of them   *)
(* cuts the text short and that statements end lines, for texts of any     *)
(* length over any characters.                                             *)
(***************************************************************************)
EXTENDS SourceCleaner, SequenceTheorems, FiniteSetTheorems, WellFoundedInduction, TLAPS

-----------------------------------------------------------------------------
(* Induction and recursion, stated with sets and functions *)

\* A set that holds 0 and with each number below N the next holds 0..N.
LEMMA UpTo ==
    ASSUME NEW N \in Nat, NEW T, 0 \in T, \A n \in 0..(N - 1) : n \in T => n + 1 \in T
    PROVE  \A n \in 0..N : n \in T
<1> DEFINE Less == {ss \in Nat \X Nat : ss[1] < ss[2]}
           Missing == {n \in 0..N : n \notin T}
<1>1. IsWellFoundedOn(Less, Nat)
  BY NatLessThanWellFounded DEF OpToRel
<1>2. \A a, b \in Nat : a < b => <<a, b>> \in Less
  OBVIOUS
<1>3. Missing \subseteq Nat
  OBVIOUS
<1>. HIDE DEF Less
<1>4. SUFFICES ASSUME Missing # {} PROVE FALSE
  OBVIOUS
<1>5. PICK x \in Missing : \A y \in Missing : ~(<<y, x>> \in Less)
  BY <1>1, <1>3, <1>4, WFMin
<1>6. x \in 1..N
  BY <1>5
<1>7. x - 1 \in 0..(N - 1) /\ (x - 1) + 1 = x
  BY <1>6
<1>8. x - 1 \notin T
  BY <1>5, <1>7
<1>9. x - 1 \in Missing
  BY <1>7, <1>8
<1>10. <<x - 1, x>> \in Less
  BY <1>2, <1>6
<1>. QED
  BY <1>5, <1>9, <1>10

\* A function can be given by its value at 0 and its steps.
Steps(N, S) == [1..N -> [S -> S]]
Follows(f, N, S, b, h) == f \in [0..N -> S] /\ f[0] = b /\ \A n \in 1..N : f[n] = h[n][f[n - 1]]
LEMMA Recursion ==
    ASSUME NEW N \in Nat, NEW S, NEW b \in S, NEW h \in Steps(N, S)
    PROVE  \E f : Follows(f, N, S, b, h)
<1> DEFINE Upto(n) == \E f \in [0..n -> S] : f[0] = b /\ \A m \in 1..n : f[m] = h[m][f[m - 1]]
           T == {n \in 0..N : Upto(n)}
<1>. USE DEF Steps
<1>1. Upto(0)
  <2>. DEFINE f == [m \in 0..0 |-> b]
  <2>1. f \in [0..0 -> S] /\ f[0] = b /\ \A m \in 1..0 : f[m] = h[m][f[m - 1]]
    OBVIOUS
  <2>. QED
    BY <2>1
<1>2. ASSUME NEW n \in 0..(N - 1), Upto(n) PROVE Upto(n + 1)
  <2>1. PICK f \in [0..n -> S] : f[0] = b /\ \A m \in 1..n : f[m] = h[m][f[m - 1]]
    BY <1>2
  <2>. DEFINE g == [m \in 0..(n + 1) |-> IF m = n + 1 THEN h[n + 1][f[n]] ELSE f[m]]
  <2>2. n + 1 \in 1..N /\ n \in 0..n
    OBVIOUS
  <2>3. h[n + 1][f[n]] \in S
    BY <2>2
  <2>4. \A m \in 0..(n + 1) : m # n + 1 => m \in 0..n
    OBVIOUS
  <2>5. g \in [0..(n + 1) -> S]
    BY <2>3, <2>4
  <2>6. g[0] = b
    BY <2>1
  <2>7. ASSUME NEW m \in 1..(n + 1) PROVE g[m] = h[m][g[m - 1]]
    <3>1. m - 1 \in 0..n /\ g[m - 1] = f[m - 1]
      OBVIOUS
    <3>2. CASE m = n + 1
      BY <3>1, <3>2
    <3>3. CASE m \in 1..n
      BY <2>1, <3>1, <3>3
    <3>. QED
      BY <3>2, <3>3
  <2>. HIDE DEF g
  <2>. QED
    BY <2>5, <2>6, <2>7
<1>. HIDE DEF Upto
<1>3. 0 \in T /\ \A n \in 0..(N - 1) : n \in T => n + 1 \in T
  BY <1>1, <1>2
<1>4. \A n \in 0..N : n \in T
  <2>. HIDE DEF T
  <2>. QED
    BY <1>3, UpTo
<1>. QED
  BY <1>4 DEF Upto, Follows

-----------------------------------------------------------------------------
(* What Keep leaves *)

Keeps(f, S, s, P) ==
    /\ f \in [0..Len(s) -> Seq(S)]
    /\ f[0] = <<>>
    /\ \A n \in 1..Len(s) : f[n] = IF n \in P THEN Append(f[n - 1], s[n]) ELSE f[n - 1]
    /\ Keep(s, P) = f[Len(s)]

\* The function Keep is defined with exists.
LEMMA KeepIsFunction ==
    ASSUME NEW S, NEW s \in Seq(S), NEW P
    PROVE  \E f : Keeps(f, S, s, P)
<1> DEFINE h == [n \in 1..Len(s) |-> [t \in Seq(S) |-> IF n \in P THEN Append(t, s[n]) ELSE t]]
           IsIt(f) == f = [n \in 0..Len(s) |-> IF n = 0 THEN <<>> ELSE IF n \in P THEN Append(f[n - 1], s[n]) ELSE f[n - 1]]
<1>1. Len(s) \in Nat /\ <<>> \in Seq(S)
  OBVIOUS
<1>2. h \in [1..Len(s) -> [Seq(S) -> Seq(S)]]
  OBVIOUS
<1>3. PICK f \in [0..Len(s) -> Seq(S)] : f[0] = <<>> /\ \A n \in 1..Len(s) : f[n] = h[n][f[n - 1]]
  <2>. HIDE DEF h
  <2>1. h \in Steps(Len(s), Seq(S))
    BY <1>2 DEF Steps
  <2>2. \E f : Follows(f, Len(s), Seq(S), <<>>, h)
    BY <1>1, <2>1, Recursion
  <2>. QED
    BY <2>2 DEF Follows
<1>4. ASSUME NEW n \in 1..Len(s)
      PROVE  f[n] = IF n \in P THEN Append(f[n - 1], s[n]) ELSE f[n - 1]
  <2>1. n - 1 \in 0..Len(s)
    BY <1>1
  <2>2. f[n - 1] \in Seq(S)
    BY <2>1
  <2>3. f[n] = h[n][f[n - 1]]
    BY <1>3
  <2>. QED
    BY <2>2, <2>3
<1>. HIDE DEF h
<1>5. IsIt(f)
  <2>1. ASSUME NEW n \in 0..Len(s)
        PROVE  f[n] = IF n = 0 THEN <<>> ELSE IF n \in P THEN Append(f[n - 1], s[n]) ELSE f[n - 1]
    <3>1. n = 0 \/ n \in 1..Len(s)
      BY <1>1
    <3>. QED
      BY <1>3, <1>4, <3>1
  <2>. QED
    BY <2>1
<1>6. IsIt(CHOOSE g : IsIt(g))
  <2>. HIDE DEF IsIt
  <2>. QED
    BY <1>5
<1>. DEFINE g == CHOOSE g : IsIt(g)
<1>7. Keep(s, P) = g[Len(s)]
  BY DEF Keep
<1>8. \A n \in 0..Len(s) : g[n] = f[n]
  <2>. DEFINE T == {n \in 0..Len(s) : g[n] = f[n]}
  <2>1. \A n \in 0..Len(s) : g[n] = IF n = 0 THEN <<>> ELSE IF n \in P THEN Append(g[n - 1], s[n]) ELSE g[n - 1]
    <3>. HIDE DEF g
    <3>. QED
      BY <1>6 DEF g
  <2>. HIDE DEF g
  <2>2. 0 \in T
    BY <1>1, <1>3, <2>1
  <2>3. ASSUME NEW n \in 0..(Len(s) - 1), n \in T PROVE n + 1 \in T
    <3>1. n + 1 \in 1..Len(s) /\ n + 1 \in 0..Len(s) /\ n + 1 # 0 /\ (n + 1) - 1 = n
      BY <1>1
    <3>2. g[n + 1] = IF n + 1 \in P THEN Append(g[n], s[n + 1]) ELSE g[n]
      BY <2>1, <3>1
    <3>3. f[n + 1] = IF n + 1 \in P THEN Append(f[n], s[n + 1]) ELSE f[n]
      BY <1>4, <3>1
    <3>. QED
      BY <2>3, <3>1, <3>2, <3>3
  <2>4. \A n \in 0..Len(s) : n \in T
    <3>. HIDE DEF T
    <3>. QED
      BY <1>1, <2>2, <2>3, UpTo
  <2>. QED
    BY <2>4
<1>9. g[Len(s)] = f[Len(s)]
  <2>. HIDE DEF g
  <2>. QED
    BY <1>1, <1>8
<1>. QED
  BY <1>3, <1>4, <1>7, <1>9 DEF Keeps

\* Any sequence comes from the empty one by appending.
LEMMA Appending ==
    ASSUME NEW S, NEW T, <<>> \in T, \A t \in Seq(S), c \in S : t \in T => Append(t, c) \in T
    PROVE  \A s \in Seq(S) : s \in T
<1>. SUFFICES ASSUME NEW s \in Seq(S) PROVE s \in T
  OBVIOUS
<1>. DEFINE Begun == {n \in 0..Len(s) : SubSeq(s, 1, n) \in T}
<1>1. Len(s) \in Nat
  OBVIOUS
<1>2. 0 \in Begun
  <2>1. SubSeq(s, 1, 0) = <<>>
    BY SubSeqEmpty
  <2>2. 0 \in 0..Len(s)
    BY <1>1
  <2>. QED
    BY <2>1, <2>2, Zenon
<1>3. ASSUME NEW n \in 0..(Len(s) - 1), n \in Begun PROVE n + 1 \in Begun
  <2>1. n + 1 \in 1..Len(s) /\ n \in 0..Len(s) /\ n + 1 \in 0..Len(s)
    BY <1>1
  <2>2. SubSeq(s, 1, n) \in Seq(S) /\ s[n + 1] \in S
    BY <2>1
  <2>3. SubSeq(s, 1, n + 1) = Append(SubSeq(s, 1, n), s[n + 1])
    BY <1>1, <2>1
  <2>. QED
    BY <1>3, <2>1, <2>2, <2>3
<1>4. \A n \in 0..Len(s) : n \in Begun
  <2>. HIDE DEF Begun
  <2>. QED
    BY <1>1, <1>2, <1>3, UpTo
<1>5. Len(s) \in Begun
  BY <1>1, <1>4
<1>6. SubSeq(s, 1, Len(s)) = s
  BY SubSeqFull
<1>. QED
  BY <1>5, <1>6

LEMMA KeepEmpty == \A P : Keep(<<>>, P) = <<>>
<1>. SUFFICES ASSUME NEW P PROVE Keep(<<>>, P) = <<>>
  OBVIOUS
<1>1. <<>> \in Seq({}) /\ Len(<<>>) = 0
  OBVIOUS
<1>2. PICK f : Keeps(f, {}, <<>>, P)
  BY <1>1, KeepIsFunction
<1>. QED
  BY <1>1, <1>2 DEF Keeps

LEMMA KeepType == ASSUME NEW S, NEW s \in Seq(S), NEW P PROVE Keep(s, P) \in Seq(S)
<1>1. PICK f : Keeps(f, S, s, P)
  BY KeepIsFunction
<1>2. Len(s) \in 0..Len(s)
  OBVIOUS
<1>. QED
  BY <1>1, <1>2 DEF Keeps

\* What is kept of a longer sequence.
LEMMA KeepAppend ==
    ASSUME NEW S, NEW t \in Seq(S), NEW c \in S, NEW P
    PROVE  Keep(Append(t, c), P) = IF Len(t) + 1 \in P THEN Append(Keep(t, P), c) ELSE Keep(t, P)
<1>. DEFINE s == Append(t, c)
<1>1. /\ s \in Seq(S) /\ Len(t) \in Nat /\ Len(s) = Len(t) + 1
      /\ s[Len(t) + 1] = c /\ \A n \in 1..Len(t) : s[n] = t[n]
  OBVIOUS
<1>. HIDE DEF s
<1>2. PICK f : Keeps(f, S, s, P)
  BY <1>1, KeepIsFunction
<1>3. PICK g : Keeps(g, S, t, P)
  BY KeepIsFunction
<1>. DEFINE T == {n \in 0..Len(t) : f[n] = g[n]}
<1>4. 0 \in T
  BY <1>1, <1>2, <1>3 DEF Keeps
<1>5. ASSUME NEW n \in 0..(Len(t) - 1), n \in T PROVE n + 1 \in T
  <2>1. n + 1 \in 1..Len(t) /\ n + 1 \in 1..Len(s) /\ n + 1 \in 0..Len(t) /\ (n + 1) - 1 = n
    BY <1>1
  <2>2. f[n + 1] = IF n + 1 \in P THEN Append(f[n], s[n + 1]) ELSE f[n]
    BY <1>2, <2>1 DEF Keeps
  <2>3. g[n + 1] = IF n + 1 \in P THEN Append(g[n], t[n + 1]) ELSE g[n]
    BY <1>3, <2>1 DEF Keeps
  <2>. QED
    BY <1>1, <1>5, <2>1, <2>2, <2>3
<1>6. \A n \in 0..Len(t) : n \in T
  <2>. HIDE DEF T
  <2>. QED
    BY <1>1, <1>4, <1>5, UpTo
<1>7. f[Len(t)] = Keep(t, P)
  BY <1>1, <1>3, <1>6 DEF Keeps
<1>8. Len(t) + 1 \in 1..Len(s) /\ (Len(t) + 1) - 1 = Len(t)
  BY <1>1
<1>9. Keep(s, P) = IF Len(t) + 1 \in P THEN Append(f[Len(t)], s[Len(t) + 1]) ELSE f[Len(t)]
  BY <1>1, <1>2, <1>8 DEF Keeps
<1>. QED
  BY <1>1, <1>7, <1>9 DEF s

\* Places outside the sequence do not count.
LEMMA KeepSame ==
    ASSUME NEW S, NEW s \in Seq(S), NEW P, NEW Q, \A n \in 1..Len(s) : n \in P <=> n \in Q
    PROVE  Keep(s, P) = Keep(s, Q)
<1>. DEFINE Agree(t) == \A n \in 1..Len(t) : n \in P <=> n \in Q
            T == {t \in Seq(S) : Agree(t) => Keep(t, P) = Keep(t, Q)}
<1>1. <<>> \in T
  BY KeepEmpty
<1>2. ASSUME NEW t \in Seq(S), NEW c \in S, t \in T PROVE Append(t, c) \in T
  <2>. SUFFICES ASSUME Agree(Append(t, c)) PROVE Keep(Append(t, c), P) = Keep(Append(t, c), Q)
    OBVIOUS
  <2>1. Len(Append(t, c)) = Len(t) + 1 /\ Len(t) \in Nat
    OBVIOUS
  <2>2. Agree(t) /\ (Len(t) + 1 \in P <=> Len(t) + 1 \in Q)
    BY <2>1
  <2>3. Keep(t, P) = Keep(t, Q)
    BY <1>2, <2>2
  <2>4. \A R : Keep(Append(t, c), R) = IF Len(t) + 1 \in R THEN Append(Keep(t, R), c) ELSE Keep(t, R)
    BY KeepAppend
  <2>. QED
    BY <2>2, <2>3, <2>4, Zenon
<1>3. \A t \in Seq(S) : t \in T
  <2>. HIDE DEF T
  <2>. QED
    BY <1>1, <1>2, Appending
<1>. QED
  BY <1>3

LEMMA WithoutEmpty == \A C : Without(<<>>, C) = <<>>
<1>. QED
  BY KeepEmpty DEF Without

LEMMA WithoutAppend ==
    ASSUME NEW S, NEW t \in Seq(S), NEW c \in S, NEW C
    PROVE  Without(Append(t, c), C) = IF c \notin C THEN Append(Without(t, C), c) ELSE Without(t, C)
<1>. DEFINE s == Append(t, c)
            P == {p \in 1..Len(s) : s[p] \notin C}
            Q == {p \in 1..Len(t) : t[p] \notin C}
<1>1. /\ s \in Seq(S) /\ Len(t) \in Nat /\ Len(s) = Len(t) + 1
      /\ s[Len(t) + 1] = c /\ \A n \in 1..Len(t) : s[n] = t[n]
  OBVIOUS
<1>2. \A n \in 1..Len(t) : n \in P <=> n \in Q
  <2>. HIDE DEF s
  <2>. QED
    BY <1>1
<1>3. Len(t) + 1 \in P <=> c \notin C
  <2>. HIDE DEF s
  <2>. QED
    BY <1>1
<1>4. Keep(s, P) = IF Len(t) + 1 \in P THEN Append(Keep(t, P), c) ELSE Keep(t, P)
  <2>. HIDE DEF P
  <2>. QED
    BY KeepAppend
<1>5. Keep(t, P) = Keep(t, Q)
  <2>. HIDE DEF P, Q
  <2>. QED
    BY <1>2, KeepSame
<1>. QED
  BY <1>3, <1>4, <1>5 DEF Without

\* Leaving characters out of what was kept is keeping fewer places.
LEMMA WithoutKeep ==
    ASSUME NEW S, NEW s \in Seq(S), NEW P, NEW C
    PROVE  Without(Keep(s, P), C) = Keep(s, {p \in P : s[p] \notin C})
<1>. DEFINE Holds(t) == Without(Keep(t, P), C) = Keep(t, {p \in P : t[p] \notin C})
            T == {t \in Seq(S) : Holds(t)}
<1>1. <<>> \in T
  <2>1. Keep(<<>>, P) = <<>> /\ Keep(<<>>, {p \in P : <<>>[p] \notin C}) = <<>> /\ Without(<<>>, C) = <<>>
    BY KeepEmpty, WithoutEmpty
  <2>. QED
    BY <2>1
<1>2. ASSUME NEW t \in Seq(S), NEW c \in S, t \in T PROVE Append(t, c) \in T
  <2>. DEFINE a == Append(t, c)
              Q == {p \in P : a[p] \notin C}
  <2>1. /\ a \in Seq(S) /\ Len(t) \in Nat /\ Len(a) = Len(t) + 1
        /\ a[Len(t) + 1] = c /\ \A n \in 1..Len(t) : a[n] = t[n]
    OBVIOUS
  <2>2. \A n \in 1..Len(t) : n \in Q <=> n \in {p \in P : t[p] \notin C}
    <3>. HIDE DEF a
    <3>. QED
      BY <2>1
  <2>3. Len(t) + 1 \in Q <=> Len(t) + 1 \in P /\ c \notin C
    <3>. HIDE DEF a
    <3>. QED
      BY <2>1
  <2>4. Keep(a, Q) = IF Len(t) + 1 \in Q THEN Append(Keep(t, Q), c) ELSE Keep(t, Q)
    <3>. HIDE DEF Q
    <3>. QED
      BY KeepAppend
  <2>5. Keep(t, Q) = Keep(t, {p \in P : t[p] \notin C})
    <3>. DEFINE R == {p \in P : t[p] \notin C}
    <3>. HIDE DEF Q, R
    <3>1. \A n \in 1..Len(t) : n \in Q <=> n \in R
      BY <2>2 DEF R
    <3>2. Keep(t, Q) = Keep(t, R)
      BY <3>1, KeepSame
    <3>. QED
      BY <3>2 DEF R
  <2>6. Keep(t, Q) = Without(Keep(t, P), C)
    BY <1>2, <2>5
  <2>7. Keep(a, P) = IF Len(t) + 1 \in P THEN Append(Keep(t, P), c) ELSE Keep(t, P)
    BY KeepAppend
  <2>8. Keep(t, P) \in Seq(S)
    BY KeepType
  <2>9. Without(Append(Keep(t, P), c), C) = IF c \notin C THEN Append(Without(Keep(t, P), C), c) ELSE Without(Keep(t, P), C)
    BY <2>8, WithoutAppend
  <2>10. Without(Keep(a, P), C) = Keep(a, Q)
    <3>. HIDE DEF a, Q
    <3>. QED
      BY <2>3, <2>4, <2>6, <2>7, <2>9
  <2>. QED
    BY <2>1, <2>10
<1>3. \A t \in Seq(S) : t \in T
  <2>. HIDE DEF T
  <2>. QED
    BY <1>1, <1>2, Appending
<1>. QED
  BY <1>3

\* Of two times leaving out the order does not matter.
LEMMA WithoutTwice ==
    ASSUME NEW S, NEW s \in Seq(S), NEW C, NEW D
    PROVE  Without(Without(s, C), D) = Without(s, C \cup D)
<1>. DEFINE P == {p \in 1..Len(s) : s[p] \notin C}
            Q == {p \in P : s[p] \notin D}
            R == {p \in 1..Len(s) : s[p] \notin C \cup D}
<1>1. \A n \in 1..Len(s) : n \in Q <=> n \in R
  OBVIOUS
<1>2. Keep(s, Q) = Keep(s, R)
  <2>. HIDE DEF Q, R
  <2>. QED
    BY <1>1, KeepSame
<1>3. Without(Keep(s, P), D) = Keep(s, Q)
  <2>. HIDE DEF P
  <2>. QED
    BY WithoutKeep
<1>. QED
  BY <1>2, <1>3 DEF Without

\* The places kept, in order.
Places(e, s, P) ==
    /\ e \in [1..Len(Keep(s, P)) -> 1..Len(s)]
    /\ \A m \in 1..Len(Keep(s, P)) : e[m] \in P /\ Keep(s, P)[m] = s[e[m]]
    /\ \A m, n \in 1..Len(Keep(s, P)) : m < n => e[m] < e[n]
    /\ \A p \in 1..Len(s) : p \in P => \E m \in 1..Len(Keep(s, P)) : e[m] = p

LEMMA KeepPlaces ==
    ASSUME NEW S, NEW s \in Seq(S), NEW P
    PROVE  \E e : Places(e, s, P)
<1>. DEFINE T == {t \in Seq(S) : \E e : Places(e, t, P)}
<1>1. <<>> \in T
  <2>1. Places(<<>>, <<>>, P)
    BY KeepEmpty DEF Places
  <2>. QED
    BY <2>1
<1>2. ASSUME NEW t \in Seq(S), NEW c \in S, t \in T PROVE Append(t, c) \in T
  <2>1. PICK e : Places(e, t, P)
    BY <1>2
  <2>. DEFINE a == Append(t, c)
              k == Keep(t, P)
              l == Keep(a, P)
  <2>2. /\ a \in Seq(S) /\ Len(t) \in Nat /\ Len(a) = Len(t) + 1
        /\ a[Len(t) + 1] = c /\ \A n \in 1..Len(t) : a[n] = t[n]
    OBVIOUS
  <2>3. k \in Seq(S) /\ Len(k) \in Nat
    BY KeepType
  <2>4. l = IF Len(t) + 1 \in P THEN Append(k, c) ELSE k
    BY KeepAppend
  <2>5. Places(e, t, P) <=>
          /\ e \in [1..Len(k) -> 1..Len(t)]
          /\ \A m \in 1..Len(k) : e[m] \in P /\ k[m] = t[e[m]]
          /\ \A m, n \in 1..Len(k) : m < n => e[m] < e[n]
          /\ \A p \in 1..Len(t) : p \in P => \E m \in 1..Len(k) : e[m] = p
    BY DEF Places
  <2>6. \A d : Places(d, a, P) <=>
          /\ d \in [1..Len(l) -> 1..Len(a)]
          /\ \A m \in 1..Len(l) : d[m] \in P /\ l[m] = a[d[m]]
          /\ \A m, n \in 1..Len(l) : m < n => d[m] < d[n]
          /\ \A p \in 1..Len(a) : p \in P => \E m \in 1..Len(l) : d[m] = p
    BY DEF Places
  <2>. HIDE DEF a, k, l
  <2>7. CASE Len(t) + 1 \notin P
    <3>1. l = k
      BY <2>4, <2>7
    <3>2. e \in [1..Len(l) -> 1..Len(a)]
      BY <2>1, <2>2, <2>5, <3>1
    <3>3. \A m \in 1..Len(l) : e[m] \in P /\ l[m] = a[e[m]]
      BY <2>1, <2>2, <2>5, <3>1
    <3>4. \A p \in 1..Len(a) : p \in P => \E m \in 1..Len(l) : e[m] = p
      BY <2>1, <2>2, <2>5, <2>7, <3>1
    <3>5. Places(e, a, P)
      BY <2>1, <2>5, <2>6, <3>1, <3>2, <3>3, <3>4
    <3>. QED
      BY <2>2, <3>5 DEF a
  <2>8. CASE Len(t) + 1 \in P
    <3>1. /\ l \in Seq(S) /\ Len(l) = Len(k) + 1
          /\ l[Len(k) + 1] = c /\ \A m \in 1..Len(k) : l[m] = k[m]
      BY <2>3, <2>4, <2>8
    <3>. DEFINE d == [m \in 1..Len(l) |-> IF m = Len(k) + 1 THEN Len(t) + 1 ELSE e[m]]
    <3>2. \A m \in 1..Len(l) : m \in 1..Len(k) \/ m = Len(k) + 1
      BY <2>3, <3>1
    <3>3. d[Len(k) + 1] = Len(t) + 1 /\ \A m \in 1..Len(k) : d[m] = e[m] /\ e[m] \in 1..Len(t)
      <4>1. Len(k) + 1 \in 1..Len(l) /\ \A m \in 1..Len(k) : m \in 1..Len(l) /\ m # Len(k) + 1
        BY <2>3, <3>1
      <4>2. \A m \in 1..Len(k) : e[m] \in 1..Len(t)
        BY <2>1, <2>5
      <4>. QED
        BY <4>1, <4>2
    <3>4. d \in [1..Len(l) -> 1..Len(a)]
      <4>1. ASSUME NEW m \in 1..Len(l) PROVE d[m] \in 1..Len(a)
        <5>. HIDE DEF d
        <5>1. CASE m = Len(k) + 1
          BY <2>2, <3>3, <5>1
        <5>2. CASE m \in 1..Len(k)
          BY <2>2, <3>3, <5>2
        <5>. QED
          BY <3>2, <5>1, <5>2
      <4>. QED
        BY <4>1
    <3>. HIDE DEF d
    <3>5. ASSUME NEW m \in 1..Len(l) PROVE d[m] \in P /\ l[m] = a[d[m]]
      <4>1. CASE m \in 1..Len(k)
        BY <2>1, <2>2, <2>5, <3>1, <3>3, <4>1
      <4>2. CASE m = Len(k) + 1
        BY <2>2, <2>8, <3>1, <3>3, <4>2
      <4>. QED
        BY <3>2, <4>1, <4>2
    <3>6. ASSUME NEW m \in 1..Len(l), NEW n \in 1..Len(l), m < n PROVE d[m] < d[n]
      <4>1. m \in 1..Len(k)
        BY <2>3, <3>1, <3>6
      <4>2. CASE n \in 1..Len(k)
        BY <2>1, <2>5, <3>3, <3>6, <4>1, <4>2
      <4>3. CASE n = Len(k) + 1
        BY <2>2, <3>3, <4>1, <4>3
      <4>. QED
        BY <3>2, <4>2, <4>3
    <3>7. ASSUME NEW p \in 1..Len(a), p \in P PROVE \E m \in 1..Len(l) : d[m] = p
      <4>1. CASE p \in 1..Len(t)
        <5>1. PICK m \in 1..Len(k) : e[m] = p
          BY <2>1, <2>5, <3>7, <4>1
        <5>. QED
          BY <2>3, <3>1, <3>3, <5>1
      <4>2. CASE p = Len(t) + 1
        BY <2>3, <3>1, <3>3, <4>2
      <4>. QED
        BY <2>2, <4>1, <4>2
    <3>8. Places(d, a, P)
      BY <2>6, <3>4, <3>5, <3>6, <3>7
    <3>. QED
      BY <2>2, <3>8 DEF a
  <2>. QED
    BY <2>7, <2>8
<1>3. \A t \in Seq(S) : t \in T
  <2>. HIDE DEF T
  <2>. QED
    BY <1>1, <1>2, Appending
<1>. QED
  BY <1>3

\* Between two places kept one after the other none is kept.
LEMMA PlacesNext ==
    ASSUME NEW S, NEW s \in Seq(S), NEW P, NEW e, Places(e, s, P)
    PROVE  /\ \A m \in 1..(Len(Keep(s, P)) - 1) : \A p \in (e[m] + 1)..(e[m + 1] - 1) : p \notin P
           /\ Keep(s, P) = <<>> => \A p \in 1..Len(s) : p \notin P
           /\ Keep(s, P) # <<>> =>
                 /\ \A p \in 1..(e[1] - 1) : p \notin P
                 /\ \A p \in (e[Len(Keep(s, P))] + 1)..Len(s) : p \notin P
<1>. DEFINE k == Keep(s, P)
<1>1. k \in Seq(S) /\ Len(k) \in Nat /\ Len(s) \in Nat
  BY KeepType
<1>2. /\ e \in [1..Len(k) -> 1..Len(s)]
      /\ \A m, n \in 1..Len(k) : m < n => e[m] < e[n]
      /\ \A p \in 1..Len(s) : p \in P => \E m \in 1..Len(k) : e[m] = p
  BY DEF Places
<1>. HIDE DEF k
<1>3. ASSUME NEW m \in 1..(Len(k) - 1), NEW p \in (e[m] + 1)..(e[m + 1] - 1), p \in P PROVE FALSE
  <2>1. m \in 1..Len(k) /\ m + 1 \in 1..Len(k)
    BY <1>1
  <2>2. e[m] \in 1..Len(s) /\ e[m + 1] \in 1..Len(s)
    BY <1>2, <2>1
  <2>3. p \in 1..Len(s) /\ e[m] < p /\ p < e[m + 1]
    BY <1>1, <2>2
  <2>4. PICK n \in 1..Len(k) : e[n] = p
    BY <1>2, <1>3, <2>3
  <2>5. CASE n < m \/ n = m
    BY <1>2, <2>1, <2>2, <2>3, <2>4, <2>5
  <2>6. CASE n > m + 1 \/ n = m + 1
    BY <1>2, <2>1, <2>2, <2>3, <2>4, <2>6
  <2>. QED
    BY <1>1, <2>5, <2>6
<1>4. ASSUME k = <<>>, NEW p \in 1..Len(s), p \in P PROVE FALSE
  BY <1>2, <1>4
<1>5. ASSUME k # <<>> PROVE 1 \in 1..Len(k) /\ Len(k) \in 1..Len(k) /\ e[1] \in 1..Len(s) /\ e[Len(k)] \in 1..Len(s)
  BY <1>1, <1>2, <1>5
<1>6. ASSUME k # <<>>, NEW p \in 1..(e[1] - 1), p \in P PROVE FALSE
  <2>1. PICK n \in 1..Len(k) : e[n] = p
    BY <1>1, <1>2, <1>5, <1>6
  <2>2. n = 1 \/ 1 < n
    BY <1>1
  <2>. QED
    BY <1>1, <1>2, <1>5, <1>6, <2>1, <2>2
<1>7. ASSUME k # <<>>, NEW p \in (e[Len(k)] + 1)..Len(s), p \in P PROVE FALSE
  <2>1. PICK n \in 1..Len(k) : e[n] = p
    BY <1>1, <1>2, <1>5, <1>7
  <2>2. n = Len(k) \/ n < Len(k)
    BY <1>1
  <2>. QED
    BY <1>1, <1>2, <1>5, <1>7, <2>1, <2>2
<1>. QED
  BY <1>3, <1>4, <1>6, <1>7 DEF k

\* The line pass leaves no two slashes side by side.
NoTwoSlashes(s) == \A p \in 1..Len(s) : ~Pair(s, p, "/", "/")

LEMMA LinePassTakesSlashes ==
    ASSUME NEW s \in Seq(Chars)
    PROVE  NoTwoSlashes(WithoutLineComments(s))
<1>. DEFINE P == {p \in 1..Len(s) : ~InLineComment(s, p)}
            k == Keep(s, P)
<1>1. k \in Seq(Chars) /\ Len(k) \in Nat /\ Len(s) \in Nat
  BY KeepType
<1>2. PICK e : Places(e, s, P)
  <2>. HIDE DEF P
  <2>. QED
    BY KeepPlaces
<1>3. /\ e \in [1..Len(k) -> 1..Len(s)]
      /\ \A m \in 1..Len(k) : e[m] \in P /\ k[m] = s[e[m]]
      /\ \A m, n \in 1..Len(k) : m < n => e[m] < e[n]
  <2>. HIDE DEF P
  <2>. QED
    BY <1>2 DEF Places
<1>4. \A m \in 1..(Len(k) - 1) : \A p \in (e[m] + 1)..(e[m + 1] - 1) : p \notin P
  <2>. HIDE DEF P
  <2>. QED
    BY <1>2, PlacesNext
<1>. HIDE DEF k
<1>5. SUFFICES ASSUME NEW m \in 1..Len(k), Pair(k, m, "/", "/") PROVE FALSE
  BY DEF NoTwoSlashes, WithoutLineComments, k
<1>6. m \in 1..(Len(k) - 1) /\ m + 1 \in 1..Len(k) /\ k[m] = "/" /\ k[m + 1] = "/"
  BY <1>1, <1>5 DEF Pair
<1>. DEFINE a == e[m]
            b == e[m + 1]
<1>7. /\ a \in 1..Len(s) /\ b \in 1..Len(s) /\ a < b /\ s[a] = "/" /\ s[b] = "/"
      /\ a \in P
  BY <1>1, <1>3, <1>6
<1>8. \A p \in (a + 1)..(b - 1) : p \notin P
  BY <1>4, <1>6
<1>. HIDE DEF a, b
<1>9. ~InLineComment(s, a) /\ a + 1 \in 1..Len(s) /\ a < Len(s)
  BY <1>1, <1>7
<1>10. s[a + 1] # "/"
  <2>. SUFFICES ASSUME s[a + 1] = "/" PROVE InLineComment(s, a)
    BY <1>9
  <2>1. a \in 1..a /\ \A r \in a..a : s[r] # "nl"
    BY <1>7
  <2>. QED
    BY <1>7, <1>9, <2>1 DEF InLineComment
<1>11. a + 1 \notin P
  BY <1>1, <1>7, <1>8, <1>10
<1>12. InLineComment(s, a + 1)
  BY <1>9, <1>11
<1>13. PICK q \in 1..(a + 1) : q < Len(s) /\ s[q] = "/" /\ s[q + 1] = "/" /\ \A r \in q..(a + 1) : s[r] # "nl"
  BY <1>12 DEF InLineComment
<1>14. q # a + 1
  BY <1>10, <1>13
<1>15. q \in 1..a /\ \A r \in q..a : s[r] # "nl"
  BY <1>7, <1>13, <1>14
<1>16. InLineComment(s, a)
  BY <1>13, <1>15 DEF InLineComment
<1>. QED
  BY <1>9, <1>16

\* RemoveEmptyLine leaves no two newlines side by side.
NoEmptyLine(s) == \A p \in 1..Len(s) : ~Pair(s, p, "nl", "nl")
NotAgain(s) == {p \in 1..Len(s) : ~(s[p] = "nl" /\ p - 1 \in 1..Len(s) /\ s[p - 1] = "nl")}

LEMMA EmptyLinesGo ==
    ASSUME NEW s \in Seq(Chars)
    PROVE  NoEmptyLine(Keep(s, NotAgain(s)))
<1>. DEFINE P == NotAgain(s)
            k == Keep(s, P)
<1>1. k \in Seq(Chars) /\ Len(k) \in Nat /\ Len(s) \in Nat
  BY KeepType
<1>2. PICK e : Places(e, s, P)
  <2>. HIDE DEF P
  <2>. QED
    BY KeepPlaces
<1>3. /\ e \in [1..Len(k) -> 1..Len(s)]
      /\ \A m \in 1..Len(k) : e[m] \in P /\ k[m] = s[e[m]]
      /\ \A m, n \in 1..Len(k) : m < n => e[m] < e[n]
  <2>. HIDE DEF P
  <2>. QED
    BY <1>2 DEF Places
<1>4. \A m \in 1..(Len(k) - 1) : \A p \in (e[m] + 1)..(e[m + 1] - 1) : p \notin P
  <2>. HIDE DEF P
  <2>. QED
    BY <1>2, PlacesNext
<1>. HIDE DEF k
<1>5. SUFFICES ASSUME NEW m \in 1..Len(k), Pair(k, m, "nl", "nl") PROVE FALSE
  BY DEF NoEmptyLine, k
<1>6. m \in 1..(Len(k) - 1) /\ m + 1 \in 1..Len(k) /\ k[m] = "nl" /\ k[m + 1] = "nl"
  BY <1>1, <1>5 DEF Pair
<1>. DEFINE a == e[m]
            b == e[m + 1]
<1>7. /\ a \in 1..Len(s) /\ b \in 1..Len(s) /\ a < b /\ s[a] = "nl" /\ s[b] = "nl" /\ b \in P
      /\ \A p \in (a + 1)..(b - 1) : p \notin P
  BY <1>1, <1>3, <1>4, <1>6
<1>. HIDE DEF a, b
<1>8. b - 1 \in 1..Len(s) /\ s[b - 1] # "nl"
  BY <1>1, <1>7 DEF NotAgain
<1>9. b - 1 \in P
  BY <1>1, <1>7, <1>8 DEF NotAgain
<1>10. b - 1 # a
  BY <1>7, <1>8
<1>. QED
  BY <1>7, <1>8, <1>9, <1>10

\* What ProcessEndOfLine counts: all parentheses, those of literals also.
BareCount(s, p, c) == Cardinality({q \in 1..p : s[q] = c})
BareOpened(s, p) == BareCount(s, p, "(") - BareCount(s, p, ")")

LEMMA OpenedBare ==
    ASSUME NEW s, NoEndInString(s), NEW p \in 1..Len(s)
    PROVE  Opened(s, p) = BareOpened(s, p)
<1>1. ASSUME NEW q \in 1..p, s[q] \in {"(", ")"} PROVE Mode(s)[q] # "string"
  <2>1. q \in 1..Len(s)
    OBVIOUS
  <2>. QED
    BY <1>1, <2>1 DEF NoEndInString
<1>2. /\ {q \in 1..p : s[q] = "(" /\ Mode(s)[q] # "string"} = {q \in 1..p : s[q] = "("}
      /\ {q \in 1..p : s[q] = ")" /\ Mode(s)[q] # "string"} = {q \in 1..p : s[q] = ")"}
  BY <1>1
<1>. QED
  BY <1>2, Zenon DEF Opened, Count, BareOpened, BareCount

\* How many of one character stand up to a place.
LEMMA CountStep ==
    ASSUME NEW s \in Seq(Chars), NEW p \in 1..Len(s), NEW c
    PROVE  /\ BareCount(s, p, c) = BareCount(s, p - 1, c) + (IF s[p] = c THEN 1 ELSE 0)
           /\ BareCount(s, p, c) \in Nat /\ BareCount(s, p - 1, c) \in Nat
<1>. DEFINE A == {q \in 1..p : s[q] = c}
            B == {q \in 1..(p - 1) : s[q] = c}
<1>1. p \in Nat /\ p - 1 \in Nat /\ p \notin B
  OBVIOUS
<1>2. IsFiniteSet(B) /\ IsFiniteSet(A)
  <2>1. IsFiniteSet(1..(p - 1)) /\ IsFiniteSet(1..p)
    BY <1>1, FS_Interval
  <2>2. B \subseteq 1..(p - 1) /\ A \subseteq 1..p
    OBVIOUS
  <2>. QED
    BY <2>1, <2>2, FS_Subset
<1>3. (s[p] = c => A = B \cup {p}) /\ (s[p] # c => A = B)
  <2>1. \A q : q \in 1..p <=> q \in 1..(p - 1) \/ q = p
    OBVIOUS
  <2>. QED
    BY <2>1
<1>. HIDE DEF A, B
<1>4. Cardinality(B \cup {p}) = Cardinality(B) + 1
  BY <1>1, <1>2, FS_AddElement
<1>5. Cardinality(A) \in Nat /\ Cardinality(B) \in Nat
  BY <1>2, FS_CardinalityType
<1>6. BareCount(s, p, c) = Cardinality(A) /\ BareCount(s, p - 1, c) = Cardinality(B)
  BY DEF BareCount, A, B
<1>7. CASE s[p] = c
  BY <1>3, <1>4, <1>5, <1>6, <1>7
<1>8. CASE s[p] # c
  BY <1>3, <1>5, <1>6, <1>8
<1>. QED
  BY <1>7, <1>8

LEMMA OpenedStep ==
    ASSUME NEW s \in Seq(Chars), NEW p \in 1..Len(s)
    PROVE  BareOpened(s, p) = BareOpened(s, p - 1) + Depth(s[p]) /\ BareOpened(s, p - 1) \in Int
<1>1. BareCount(s, p, "(") = BareCount(s, p - 1, "(") + (IF s[p] = "(" THEN 1 ELSE 0) /\ BareCount(s, p - 1, "(") \in Nat
  BY CountStep
<1>2. BareCount(s, p, ")") = BareCount(s, p - 1, ")") + (IF s[p] = ")" THEN 1 ELSE 0) /\ BareCount(s, p - 1, ")") \in Nat
  BY CountStep
<1>. QED
  BY <1>1, <1>2 DEF BareOpened, Depth

LEMMA OpenedSame ==
    ASSUME NEW s, NEW u, NEW p \in Nat, \A q \in 1..p : s[q] = u[q]
    PROVE  BareOpened(s, p) = BareOpened(u, p)
<1>1. \A c : {q \in 1..p : s[q] = c} = {q \in 1..p : u[q] = c}
  OBVIOUS
<1>2. /\ {q \in 1..p : s[q] = "("} = {q \in 1..p : u[q] = "("}
      /\ {q \in 1..p : s[q] = ")"} = {q \in 1..p : u[q] = ")"}
  BY <1>1
<1>. QED
  BY <1>2 DEF BareOpened, BareCount

LEMMA OpenedNothing == \A s : BareOpened(s, 0) = 0
<1>. SUFFICES ASSUME NEW s PROVE BareOpened(s, 0) = 0
  OBVIOUS
<1>1. {q \in 1..0 : s[q] = "("} = {} /\ {q \in 1..0 : s[q] = ")"} = {}
  <2>1. 1..0 = {}
    OBVIOUS
  <2>. QED
    BY <2>1, Zenon
<1>2. Cardinality({}) = 0
  BY FS_EmptySet
<1>3. BareOpened(s, 0) = 0 - 0
  BY <1>1, <1>2 DEF BareOpened, BareCount
<1>. QED
  BY <1>3

\* Whether a line goes on depends on what follows alone.
LEMMA MoreShift ==
    ASSUME NEW s \in Seq(Chars), NEW u \in Seq(Chars), NEW p \in 0..Len(s), NEW d \in Int,
           p + d \in 0..Len(u), Len(u) = Len(s) + d,
           \A q \in (p + 1)..Len(s) : s[q] = u[q + d],
           MoreOnLine(s, p)
    PROVE  MoreOnLine(u, p + d)
<1>1. Len(s) \in Nat /\ Len(u) \in Nat /\ p \in Int
  OBVIOUS
<1>2. PICK q \in (p + 1)..Len(s) : s[q] \notin {" ", "nl"} /\ \A r \in (p + 1)..(q - 1) : s[r] = " "
  BY DEF MoreOnLine
<1>3. q \in Int /\ q + d \in (p + d + 1)..Len(u)
  BY <1>1
<1>4. s[q] = u[q + d]
  OBVIOUS
<1>5. ASSUME NEW r \in (p + d + 1)..((q + d) - 1) PROVE u[r] = " "
  <2>1. r - d \in (p + 1)..(q - 1) /\ r - d \in (p + 1)..Len(s) /\ (r - d) + d = r
    BY <1>1, <1>3
  <2>2. s[r - d] = u[(r - d) + d]
    BY <2>1
  <2>. QED
    BY <1>2, <2>1, <2>2
<1>6. u[q + d] \notin {" ", "nl"}
  BY <1>2, <1>4
<1>7. \E k \in (p + d + 1)..Len(u) : u[k] \notin {" ", "nl"} /\ \A r \in (p + d + 1)..(k - 1) : u[r] = " "
  <2>. DEFINE k == q + d
  <2>1. k \in (p + d + 1)..Len(u)
    BY <1>3
  <2>2. u[k] \notin {" ", "nl"}
    BY <1>6
  <2>3. \A r \in (p + d + 1)..(k - 1) : u[r] = " "
    BY <1>5
  <2>. HIDE DEF k
  <2>. QED
    BY <2>1, <2>2, <2>3, Zenon
<1>. QED
  BY <1>7 DEF MoreOnLine

-----------------------------------------------------------------------------
(* Types, and what each pass gets *)

TypeInv ==
    /\ source \in Seq(Chars) /\ str \in Seq(Chars) /\ result \in Seq(Chars)
    /\ pass \in {"utf8", "line", "block", "empty", "ends", "cleaned"}
    /\ i \in Nat \ {0} /\ (pass \in {"block", "ends"} => i <= Len(str) + 1)
    /\ insideComment \in BOOLEAN /\ st \in Int

\* Until the block pass the text is a function of the source.
TextInv ==
    /\ pass = "utf8" => str = source
    /\ pass = "line" => str = Without(source, {"tail"})
    /\ pass = "block" => str = WithoutLineComments(Read(source))

LEMMA TextsAreSequences == Texts \subseteq Seq(Chars)
<1>. SUFFICES ASSUME NEW n \in 0..MaxLength, NEW alphabet \in Alphabets, NEW s \in [1..n -> alphabet]
              PROVE  s \in Seq(Chars)
  BY DEF Texts
<1>1. n \in Nat /\ alphabet \subseteq Chars
  BY AlphabetsAssumption, MaxLengthAssumption
<1>2. s \in [1..n -> Chars]
  BY <1>1
<1>. QED
  BY <1>1, <1>2, SeqDef

LEMMA InitTypes == Init => TypeInv /\ TextInv
<1>. SUFFICES ASSUME Init PROVE TypeInv /\ TextInv
  OBVIOUS
<1>1. source \in Seq(Chars) /\ str = source /\ <<>> \in Seq(Chars)
  BY TextsAreSequences DEF Init
<1>2. pass = "utf8" /\ i = 1 /\ insideComment = FALSE /\ st = 0 /\ result = <<>>
  BY DEF Init
<1>3. i \in Nat \ {0} /\ i <= Len(str) + 1 /\ pass \in {"utf8", "line", "block", "empty", "ends", "cleaned"}
  BY <1>1, <1>2
<1>4. TypeInv
  <2>1. insideComment \in BOOLEAN
    BY <1>2, Zenon
  <2>2. st \in Int /\ result \in Seq(Chars) /\ str \in Seq(Chars)
    BY <1>1, <1>2
  <2>. QED
    BY <1>1, <1>3, <2>1, <2>2 DEF TypeInv
<1>. QED
  BY <1>1, <1>2, <1>4 DEF TextInv

LEMMA NewlineIsChar == "nl" \in Chars
<1>. QED
  BY DEF Chars

\* Each action keeps the types.
LEMMA NextTypes == TypeInv /\ [CleanSourceCode]_vars => TypeInv'
<1>. SUFFICES ASSUME TypeInv, [CleanSourceCode]_vars PROVE TypeInv'
  OBVIOUS
<1>. USE DEF TypeInv
<1>0. Len(str) \in Nat /\ <<>> \in Seq(Chars)
  OBVIOUS
<1>1. CASE RemoveNonUTF8
  <2>1. str' \in Seq(Chars)
    BY <1>1, KeepType DEF RemoveNonUTF8, Without
  <2>. QED
    BY <1>1, <2>1 DEF RemoveNonUTF8
<1>2. CASE RemoveLineComments
  <2>1. AfterUrl(str) \in Seq(Chars)
    BY KeepType DEF AfterUrl, Without
  <2>2. str' \in Seq(Chars)
    BY <1>2, <2>1, KeepType DEF RemoveLineComments, WithoutLineComments
  <2>3. Len(str') \in Nat
    BY <2>2
  <2>4. i' = 1 /\ pass' = "block" /\ insideComment' = FALSE /\ result' = <<>> /\ UNCHANGED <<source, st>>
    BY <1>2 DEF RemoveLineComments
  <2>5. i' \in Nat \ {0} /\ i' <= Len(str') + 1 /\ pass' \in {"utf8", "line", "block", "empty", "ends", "cleaned"}
    BY <2>3, <2>4
  <2>6. insideComment' \in BOOLEAN /\ st' \in Int /\ source' \in Seq(Chars) /\ result' \in Seq(Chars)
    BY <1>0, <2>4
  <2>. QED
    BY <2>2, <2>5, <2>6
<1>3. CASE OpenComment
  <2>1. i + 1 <= Len(str) /\ i' = i + 2 /\ insideComment' = TRUE /\ UNCHANGED <<source, str, pass, st, result>>
    BY <1>0, <1>3 DEF OpenComment, Step, Is
  <2>. QED
    BY <1>0, <2>1
<1>4. CASE CloseComment
  <2>1. i + 1 <= Len(str) /\ i' = i + 2 /\ insideComment' = FALSE /\ UNCHANGED <<source, str, pass, st, result>>
    BY <1>0, <1>4 DEF CloseComment, Step, Is
  <2>2. insideComment' \in BOOLEAN
    BY <2>1, Zenon
  <2>3. i' \in Nat \ {0} /\ i' <= Len(str') + 1
    BY <1>0, <2>1
  <2>. QED
    BY <2>1, <2>2, <2>3
<1>5. CASE SkipComment
  BY <1>0, <1>5 DEF SkipComment, Step
<1>6. CASE CopyCode
  <2>1. i \in 1..Len(str)
    BY <1>0, <1>6 DEF CopyCode
  <2>2. str[i] \in Chars
    BY <2>1
  <2>3. result' \in Seq(Chars)
    BY <1>6, <2>2 DEF CopyCode
  <2>. QED
    BY <1>0, <1>6, <2>3 DEF CopyCode, Step
<1>7. CASE EndBlockComments
  BY <1>0, <1>7 DEF EndBlockComments
<1>8. CASE RemoveEmptyLine
  <2>1. str' \in Seq(Chars)
    BY <1>8, KeepType DEF RemoveEmptyLine
  <2>2. Len(str') \in Nat
    BY <2>1
  <2>. QED
    BY <1>0, <1>8, <2>1, <2>2 DEF RemoveEmptyLine
<1>9. CASE ProcessCharacter
  <2>1. i \in 1..Len(str)
    BY <1>0, <1>9 DEF ProcessCharacter
  <2>2. str[i] \in Chars /\ <<str[i], "nl">> \in Seq(Chars)
    BY <2>1, NewlineIsChar
  <2>3. result' \in Seq(Chars)
    BY <1>9, <2>2 DEF ProcessCharacter
  <2>4. st' \in Int
    BY <1>9 DEF ProcessCharacter, Depth
  <2>. QED
    BY <1>0, <1>9, <2>1, <2>3, <2>4 DEF ProcessCharacter
<1>10. CASE EndCleaning
  BY <1>10 DEF EndCleaning
<1>11. CASE UNCHANGED vars
  BY <1>11 DEF vars
<1>. QED
  BY <1>1, <1>2, <1>3, <1>4, <1>5, <1>6, <1>7, <1>8, <1>9, <1>10, <1>11 DEF CleanSourceCode

\* Bytes and addresses left out in two passes are left out of the source.
LEMMA ReadInTwo == ASSUME NEW s \in Seq(Chars) PROVE AfterUrl(Without(s, {"tail"})) = Read(s)
<1>1. {"tail"} \cup {"url"} = {"tail", "url"}
  OBVIOUS
<1>. QED
  BY <1>1, WithoutTwice DEF AfterUrl, Read

LEMMA NextText == TypeInv /\ TextInv /\ [CleanSourceCode]_vars => TextInv'
<1>. SUFFICES ASSUME TypeInv, TextInv, [CleanSourceCode]_vars PROVE TextInv'
  OBVIOUS
<1>1. CASE RemoveNonUTF8
  BY <1>1 DEF RemoveNonUTF8, TextInv
<1>2. CASE RemoveLineComments
  <2>1. AfterUrl(str) = Read(source)
    BY <1>2, ReadInTwo DEF RemoveLineComments, TextInv, TypeInv
  <2>. QED
    BY <1>2, <2>1 DEF RemoveLineComments, TextInv
<1>3. CASE OpenComment \/ CloseComment \/ SkipComment \/ CopyCode
  BY <1>3 DEF OpenComment, CloseComment, SkipComment, CopyCode, Step, TextInv
<1>4. CASE EndBlockComments
  BY <1>4 DEF EndBlockComments, TextInv
<1>5. CASE RemoveEmptyLine \/ ProcessCharacter \/ EndCleaning
  BY <1>5 DEF RemoveEmptyLine, ProcessCharacter, EndCleaning, TextInv
<1>6. CASE UNCHANGED vars
  BY <1>6 DEF vars, TextInv
<1>. QED
  BY <1>1, <1>2, <1>3, <1>4, <1>5, <1>6 DEF CleanSourceCode

\* The types of the variables, and where the positions of the two loops may stand
\* (compiler.h:63, string_utils.h:35 and 86).
THEOREM TypesHold == Spec => []TypeInv
<1>1. Init => TypeInv
  BY InitTypes
<1>2. TypeInv /\ [CleanSourceCode]_vars => TypeInv'
  BY NextTypes
<1>. QED
  BY <1>1, <1>2, PTL DEF Spec

LEMMA TextHolds == Spec => [](TypeInv /\ TextInv)
<1>1. Init => TypeInv /\ TextInv
  BY InitTypes
<1>2. (TypeInv /\ TextInv) /\ [CleanSourceCode]_vars => (TypeInv /\ TextInv)'
  BY NextTypes, NextText
<1>. QED
  BY <1>1, <1>2, PTL DEF Spec

-----------------------------------------------------------------------------
(* The block pass never cuts *)

LEMMA ReadType == ASSUME NEW s \in Seq(Chars) PROVE Read(s) \in Seq(Chars)
<1>. QED
  BY KeepType DEF Read, Without

LEMMA NoCut == TypeInv /\ TextInv => NeverCuts
<1>. SUFFICES ASSUME TypeInv, TextInv, pass = "block", i <= Len(str), CutsHere PROVE FALSE
  BY DEF NeverCuts
<1>1. NoTwoSlashes(str)
  <2>1. Read(source) \in Seq(Chars)
    BY ReadType DEF TypeInv
  <2>. QED
    BY <2>1, LinePassTakesSlashes DEF TextInv
<1>2. i \in 1..Len(str) /\ i < Len(str) /\ str[i] = "/" /\ str[i + 1] = "/"
  <2>1. str \in Seq(Chars) /\ Len(str) \in Nat /\ i \in Nat
    BY DEF TypeInv
  <2>. QED
    BY <2>1 DEF CutsHere, Is
<1>. QED
  BY <1>1, <1>2 DEF NoTwoSlashes, Pair

\* RemoveBlockComments never breaks off at a "//", so the rest of a file is never dropped
\* by it, whatever the source (string_utils.h:46).
THEOREM NeverCutsHolds == Spec => []NeverCuts
<1>. QED
  BY TextHolds, NoCut, PTL

-----------------------------------------------------------------------------
(* The last pass ends lines *)

LineEnds(s, n) == \A p \in 1..n : EndsLine(s[p], BareOpened(s, p)) => ~MoreOnLine(s, p)

\* What has been written, followed by what has not been read.
Whole == result \o SubSeq(str, i, Len(str))

LinesInv ==
    /\ pass = "ends" =>
          /\ LineEnds(Whole, Len(result))
          /\ NoEmptyLine(Whole)
          /\ st = BareOpened(Whole, Len(result))
    /\ Cleaned => LineEnds(str, Len(str)) /\ NoEmptyLine(str)

\* A newline put after the place n is in no one's way.
LEMMA NewlineAfter ==
    ASSUME NEW s \in Seq(Chars), NEW u \in Seq(Chars), NEW n \in 1..(Len(s) - 1),
           Len(u) = Len(s) + 1,
           \A p \in 1..n : u[p] = s[p],
           u[n + 1] = "nl",
           \A p \in (n + 1)..Len(s) : u[p + 1] = s[p],
           s[n] # "nl", s[n + 1] # "nl",
           LineEnds(s, n - 1), NoEmptyLine(s)
    PROVE  LineEnds(u, n + 1) /\ NoEmptyLine(u)
<1>1. Len(s) \in Nat /\ Len(u) \in Nat /\ n \in Nat
  OBVIOUS
<1>2. ASSUME NEW p \in 1..(n + 1), EndsLine(u[p], BareOpened(u, p)), MoreOnLine(u, p) PROVE FALSE
  <2>1. PICK q \in (p + 1)..Len(u) : u[q] \notin {" ", "nl"} /\ \A r \in (p + 1)..(q - 1) : u[r] = " "
    BY <1>2 DEF MoreOnLine
  <2>2. p # n + 1
    BY <1>2 DEF EndsLine
  <2>3. p \in 1..n
    BY <1>1, <2>2
  <2>4. q < n + 1
    <3>1. q # n + 1
      BY <2>1
    <3>2. CASE n + 1 < q
      <4>1. n + 1 \in (p + 1)..(q - 1)
        BY <1>1, <2>3, <3>2
      <4>2. u[n + 1] = " "
        BY <2>1, <4>1
      <4>. QED
        BY <4>2
    <3>. QED
      BY <1>1, <3>1, <3>2
  <2>5. q \in (p + 1)..Len(s) /\ q \in 1..n /\ p \in 1..(n - 1)
    BY <1>1, <2>3, <2>4
  <2>6. s[q] \notin {" ", "nl"}
    BY <2>1, <2>5
  <2>7. ASSUME NEW r \in (p + 1)..(q - 1) PROVE s[r] = " "
    <3>1. r \in 1..n
      BY <1>1, <2>5
    <3>. QED
      BY <2>1, <3>1
  <2>8. MoreOnLine(s, p)
    BY <2>5, <2>6, <2>7, Zenon DEF MoreOnLine
  <2>9. BareOpened(s, p) = BareOpened(u, p)
    <3>1. p \in Nat /\ \A q_1 \in 1..p : s[q_1] = u[q_1]
      BY <1>1, <2>3
    <3>. QED
      BY <3>1, OpenedSame
  <2>10. EndsLine(s[p], BareOpened(s, p))
    BY <1>2, <2>3, <2>9
  <2>. QED
    BY <2>5, <2>8, <2>10 DEF LineEnds
<1>3. ASSUME NEW p \in 1..Len(u), Pair(u, p, "nl", "nl") PROVE FALSE
  <2>1. p < Len(u) /\ u[p] = "nl" /\ u[p + 1] = "nl"
    BY <1>3 DEF Pair
  <2>2. CASE p < n
    <3>1. p \in 1..n /\ p + 1 \in 1..n /\ p \in 1..Len(s) /\ p < Len(s)
      BY <1>1, <2>2
    <3>. QED
      BY <2>1, <3>1 DEF NoEmptyLine, Pair
  <2>3. CASE p = n
    BY <2>1, <2>3
  <2>4. CASE p = n + 1
    <3>1. n + 1 \in (n + 1)..Len(s) /\ u[(n + 1) + 1] = s[n + 1]
      BY <1>1
    <3>. QED
      BY <2>1, <2>4, <3>1
  <2>5. CASE p > n + 1
    <3>1. PICK m \in Nat : p = m + 1
      BY <1>1, <2>5
    <3>2. m \in (n + 1)..Len(s) /\ m + 1 \in (n + 1)..Len(s) /\ m \in 1..Len(s) /\ m < Len(s)
      BY <1>1, <2>1, <2>5, <3>1
    <3>3. u[m + 1] = s[m] /\ u[(m + 1) + 1] = s[m + 1]
      BY <3>2
    <3>. QED
      BY <2>1, <3>1, <3>2, <3>3 DEF NoEmptyLine, Pair
  <2>. QED
    BY <1>1, <2>2, <2>3, <2>4, <2>5
<1>. QED
  BY <1>2, <1>3 DEF LineEnds, NoEmptyLine

\* A text followed by the rest of another.
LEMMA Followed ==
    ASSUME NEW a \in Seq(Chars), NEW b \in Seq(Chars), NEW j \in 1..(Len(b) + 1)
    PROVE  /\ a \o SubSeq(b, j, Len(b)) \in Seq(Chars)
           /\ Len(a \o SubSeq(b, j, Len(b))) = Len(a) + ((Len(b) - j) + 1)
           /\ \A p \in 1..Len(a) : (a \o SubSeq(b, j, Len(b)))[p] = a[p]
           /\ \A q \in j..Len(b) : (a \o SubSeq(b, j, Len(b)))[Len(a) + ((q - j) + 1)] = b[q]
<1>. DEFINE c == SubSeq(b, j, Len(b))
<1>1. Len(a) \in Nat /\ Len(b) \in Nat
  OBVIOUS
<1>2. c \in Seq(Chars) /\ Len(c) = (Len(b) - j) + 1
  BY <1>1
<1>3. \A q \in j..Len(b) : (q - j) + 1 \in 1..Len(c) /\ c[(q - j) + 1] = b[q]
  BY <1>1, <1>2
<1>. HIDE DEF c
<1>4. a \o c \in Seq(Chars) /\ Len(a \o c) = Len(a) + Len(c)
  BY <1>2
<1>5. \A p \in 1..Len(a) : (a \o c)[p] = a[p]
  BY <1>1, <1>2
<1>6. \A m \in 1..Len(c) : (a \o c)[Len(a) + m] = c[m]
  BY <1>1, <1>2
<1>7. \A q \in j..Len(b) : (a \o c)[Len(a) + ((q - j) + 1)] = b[q]
  BY <1>3, <1>6
<1>. QED
  BY <1>2, <1>4, <1>5, <1>7 DEF c

\* One character is read and written, and with it perhaps a newline.
LEMMA ProcessKeepsLines == TypeInv /\ LinesInv /\ ProcessCharacter => LinesInv'
<1>. SUFFICES ASSUME TypeInv, LinesInv, ProcessCharacter PROVE LinesInv'
  OBVIOUS
<1>. DEFINE n == Len(result)
            len == Len(str)
            s == result \o SubSeq(str, i, Len(str))
            u == result' \o SubSeq(str, i + 1, Len(str))
            c == str[i]
<1>1. /\ str \in Seq(Chars) /\ result \in Seq(Chars) /\ n \in Nat /\ len \in Nat
      /\ i \in 1..len /\ c \in Chars /\ pass = "ends"
  BY DEF TypeInv, ProcessCharacter
<1>2. pass' = "ends" /\ str' = str /\ i' = i + 1 /\ st' = st + Depth(c)
  BY DEF ProcessCharacter
<1>3. /\ s \in Seq(Chars) /\ Len(s) = n + ((len - i) + 1)
      /\ \A p \in 1..n : s[p] = result[p]
      /\ \A q \in i..len : s[n + ((q - i) + 1)] = str[q]
  <2>1. i \in 1..(Len(str) + 1)
    BY <1>1
  <2>. QED
    BY <1>1, <2>1, Followed
<1>4. result' \in Seq(Chars)
  BY <1>1, NewlineIsChar DEF ProcessCharacter
<1>5. /\ u \in Seq(Chars) /\ Len(u) = Len(result') + ((len - (i + 1)) + 1)
      /\ \A p \in 1..Len(result') : u[p] = result'[p]
      /\ \A q \in (i + 1)..len : u[Len(result') + ((q - (i + 1)) + 1)] = str[q]
  <2>1. PICK j \in 1..(len + 1) : j = i + 1
    BY <1>1
  <2>2. PICK a \in Seq(Chars) : a = result'
    BY <1>4
  <2>3. /\ a \o SubSeq(str, j, len) \in Seq(Chars)
        /\ Len(a \o SubSeq(str, j, len)) = Len(a) + ((len - j) + 1)
        /\ \A p \in 1..Len(a) : (a \o SubSeq(str, j, len))[p] = a[p]
        /\ \A q \in j..len : (a \o SubSeq(str, j, len))[Len(a) + ((q - j) + 1)] = str[q]
    BY <1>1, Followed
  <2>. QED
    BY <2>1, <2>2, <2>3
<1>6. Whole = s /\ Whole' = u
  BY <1>2 DEF Whole
<1>7. LineEnds(s, n) /\ NoEmptyLine(s) /\ st = BareOpened(s, n)
  BY <1>1, <1>6 DEF LinesInv
<1>. HIDE DEF s, u, n, len
<1>8. n + 1 \in 1..Len(s) /\ s[n + 1] = c
  <2>1. i \in i..len /\ n + ((i - i) + 1) = n + 1
    BY <1>1
  <2>. QED
    BY <1>1, <1>3, <2>1
<1>9. st' = BareOpened(s, n + 1)
  <2>1. PICK p \in 1..Len(s) : p = n + 1
    BY <1>8
  <2>2. BareOpened(s, p) = BareOpened(s, p - 1) + Depth(s[p])
    BY <1>3, OpenedStep
  <2>3. p - 1 = n
    BY <1>1, <2>1
  <2>. QED
    BY <1>2, <1>7, <1>8, <2>1, <2>2, <2>3
<1>10. MoreOnLine(s, n + 1) => MoreOnLine(str, i)
  <2>. SUFFICES ASSUME MoreOnLine(s, n + 1) PROVE MoreOnLine(str, i)
    OBVIOUS
  <2>1. PICK p \in 0..Len(s), d \in Int : p = n + 1 /\ d = i - (n + 1)
    BY <1>1, <1>8
  <2>2. p + d = i /\ p + d \in 0..Len(str) /\ Len(str) = Len(s) + d
    BY <1>1, <1>3, <2>1 DEF len
  <2>3. \A q \in (p + 1)..Len(s) : s[q] = str[q + d]
    <3>. SUFFICES ASSUME NEW q \in (p + 1)..Len(s) PROVE s[q] = str[q + d]
      OBVIOUS
    <3>1. PICK r \in i..len : r = q + d
      BY <1>1, <1>3, <2>1
    <3>2. n + ((r - i) + 1) = q
      BY <1>1, <1>3, <2>1, <3>1
    <3>. QED
      BY <1>3, <3>1, <3>2
  <2>4. MoreOnLine(s, p)
    BY <2>1
  <2>5. MoreOnLine(str, p + d)
    BY <1>1, <1>3, <2>2, <2>3, <2>4, MoreShift
  <2>. QED
    BY <2>2, <2>5
<1>11. CASE ~(EndsLine(c, st') /\ MoreOnLine(str, i))
  <2>1. result' = Append(result, c)
    BY <1>11 DEF ProcessCharacter
  <2>2. Len(result') = n + 1
    BY <1>1, <2>1 DEF n
  <2>3. Len(u) = Len(s)
    BY <1>1, <1>3, <1>5, <2>2
  <2>4. ASSUME NEW p \in 1..Len(s) PROVE u[p] = s[p]
    <3>1. CASE p \in 1..n
      <4>1. result'[p] = result[p] /\ p \in 1..Len(result')
        BY <1>1, <2>1, <2>2, <3>1 DEF n
      <4>. QED
        BY <1>3, <1>5, <3>1, <4>1
    <3>2. CASE p = n + 1
      <4>1. result'[n + 1] = c /\ n + 1 \in 1..Len(result')
        BY <1>1, <2>1, <2>2 DEF n
      <4>. QED
        BY <1>5, <1>8, <3>2, <4>1
    <3>3. CASE p > n + 1
      <4>1. PICK q \in (i + 1)..len : p = n + ((q - i) + 1)
        <5>. DEFINE q == (p - (n + 1)) + i
        <5>1. q \in (i + 1)..len /\ p = n + ((q - i) + 1)
          BY <1>1, <1>3, <3>3
        <5>. QED
          BY <5>1
      <4>2. (n + 1) + ((q - (i + 1)) + 1) = p /\ q \in i..len
        BY <1>1, <4>1
      <4>. QED
        BY <1>3, <1>5, <2>2, <4>1, <4>2
    <3>. QED
      BY <1>1, <1>3, <3>1, <3>2, <3>3
  <2>5. u = s
    BY <1>3, <1>5, <2>3, <2>4, SeqEqual
  <2>6. EndsLine(s[n + 1], BareOpened(s, n + 1)) => ~MoreOnLine(s, n + 1)
    BY <1>8, <1>9, <1>10, <1>11
  <2>7. LineEnds(s, n + 1)
    <3>1. \A p \in 1..(n + 1) : p \in 1..n \/ p = n + 1
      BY <1>1
    <3>. QED
      BY <1>7, <2>6, <3>1 DEF LineEnds
  <2>. QED
    BY <1>2, <1>6, <1>7, <1>9, <2>2, <2>5, <2>7 DEF LinesInv, Cleaned
<1>12. CASE EndsLine(c, st') /\ MoreOnLine(str, i)
  <2>1. result' = result \o <<c, "nl">>
    BY <1>12 DEF ProcessCharacter
  <2>2. /\ Len(result') = n + 2 /\ result'[n + 1] = c /\ result'[n + 2] = "nl"
        /\ \A p \in 1..n : result'[p] = result[p]
    BY <1>1, <2>1, NewlineIsChar DEF n
  <2>3. Len(u) = Len(s) + 1
    BY <1>1, <1>3, <1>5, <2>2
  <2>4. ASSUME NEW p \in 1..(n + 1) PROVE u[p] = s[p]
    BY <1>1, <1>3, <1>5, <1>8, <2>2
  <2>5. u[(n + 1) + 1] = "nl"
    <3>1. (n + 1) + 1 = n + 2 /\ n + 2 \in 1..Len(result')
      BY <1>1, <2>2
    <3>. QED
      BY <1>5, <2>2, <3>1
  <2>6. ASSUME NEW p \in ((n + 1) + 1)..Len(s) PROVE u[p + 1] = s[p]
    <3>1. PICK q \in (i + 1)..len : p = n + ((q - i) + 1)
      <4>. DEFINE q == (p - (n + 1)) + i
      <4>1. q \in (i + 1)..len /\ p = n + ((q - i) + 1)
        BY <1>1, <1>3
      <4>. QED
        BY <4>1
    <3>2. (n + 2) + ((q - (i + 1)) + 1) = p + 1 /\ q \in i..len
      BY <1>1, <3>1
    <3>. QED
      BY <1>3, <1>5, <2>2, <3>1, <3>2
  <2>7. i + 1 \in 1..len /\ str[i + 1] # "nl"
    <3>1. PICK q \in (i + 1)..len : str[q] \notin {" ", "nl"} /\ \A r \in (i + 1)..(q - 1) : str[r] = " "
      BY <1>12 DEF MoreOnLine, len
    <3>2. i + 1 \in 1..len /\ (q = i + 1 \/ q > i + 1)
      BY <1>1
    <3>3. CASE q = i + 1
      <4>1. str[q] # "nl"
        BY <3>1
      <4>. QED
        BY <3>2, <3>3, <4>1
    <3>4. CASE q > i + 1
      <4>1. i + 1 \in (i + 1)..(q - 1)
        BY <1>1, <3>4
      <4>2. str[i + 1] = " "
        BY <3>1, <4>1
      <4>. QED
        BY <3>2, <4>2
    <3>. QED
      BY <3>2, <3>3, <3>4
  <2>8. n + 1 \in 1..(Len(s) - 1) /\ s[(n + 1) + 1] # "nl"
    <3>1. n + (((i + 1) - i) + 1) = (n + 1) + 1 /\ i + 1 \in i..len
      BY <1>1, <2>7
    <3>2. s[(n + 1) + 1] = str[i + 1]
      BY <1>3, <3>1
    <3>. QED
      BY <1>1, <1>3, <2>7, <3>2
  <2>9. s[n + 1] # "nl"
    BY <1>8, <1>12 DEF EndsLine
  <2>10. LineEnds(u, (n + 1) + 1) /\ NoEmptyLine(u)
    <3>1. PICK m \in 1..(Len(s) - 1) : m = n + 1
      BY <2>8
    <3>2. m - 1 = n
      BY <1>1, <3>1
    <3>3. LineEnds(s, m - 1)
      BY <1>7, <3>2
    <3>4. LineEnds(u, m + 1) /\ NoEmptyLine(u)
      BY <1>3, <1>5, <1>7, <2>3, <2>4, <2>5, <2>6, <2>8, <2>9, <3>1, <3>3, NewlineAfter
    <3>. QED
      BY <3>1, <3>4
  <2>11. BareOpened(u, n + 2) = st'
    <3>1. PICK p \in 1..Len(u) : p = n + 2
      BY <1>1, <1>3, <1>8, <2>3
    <3>2. p - 1 = n + 1 /\ n + 1 \in Nat
      BY <1>1, <3>1
    <3>3. BareOpened(u, p) = BareOpened(u, p - 1) + Depth(u[p]) /\ BareOpened(u, p - 1) \in Int
      BY <1>5, OpenedStep
    <3>4. BareOpened(u, n + 1) = BareOpened(s, n + 1)
      BY <2>4, <3>2, OpenedSame
    <3>5. u[p] = "nl"
      BY <1>1, <2>5, <3>1
    <3>6. Depth("nl") = 0
      BY DEF Depth
    <3>. QED
      BY <1>9, <3>1, <3>2, <3>3, <3>4, <3>5, <3>6
  <2>12. Len(result') = (n + 1) + 1 /\ Len(result') = n + 2
    BY <1>1, <2>2
  <2>. QED
    BY <1>2, <1>6, <2>10, <2>11, <2>12 DEF LinesInv, Cleaned
<1>. QED
  BY <1>11, <1>12

LEMMA NextLines == TypeInv /\ LinesInv /\ [CleanSourceCode]_vars => LinesInv'
<1>. SUFFICES ASSUME TypeInv, LinesInv, [CleanSourceCode]_vars PROVE LinesInv'
  OBVIOUS
<1>1. CASE RemoveNonUTF8 \/ RemoveLineComments \/ EndBlockComments
  BY <1>1 DEF RemoveNonUTF8, RemoveLineComments, EndBlockComments, LinesInv, Cleaned
<1>2. CASE OpenComment \/ CloseComment \/ SkipComment \/ CopyCode
  BY <1>2 DEF OpenComment, CloseComment, SkipComment, CopyCode, Step, LinesInv, Cleaned
<1>3. CASE RemoveEmptyLine
  <2>1. str' \in Seq(Chars) /\ NoEmptyLine(str')
    <3>1. {p \in 1..Len(str) : ~(Is(p, "nl") /\ Is(p - 1, "nl"))} = NotAgain(str)
      BY DEF Is, NotAgain
    <3>2. str' = Keep(str, NotAgain(str)) /\ str \in Seq(Chars)
      BY <1>3, <3>1 DEF RemoveEmptyLine, TypeInv
    <3>. QED
      BY <3>2, EmptyLinesGo, KeepType
  <2>2. pass' = "ends" /\ i' = 1 /\ st' = 0 /\ result' = <<>>
    BY <1>3 DEF RemoveEmptyLine
  <2>3. Whole' = <<>> \o SubSeq(str', 1, Len(str'))
    BY <2>2 DEF Whole
  <2>4. Whole' = str'
    <3>1. SubSeq(str', 1, Len(str')) = str'
      BY <2>1, SubSeqFull
    <3>. QED
      BY <2>1, <2>3, <3>1
  <2>5. Len(result') = 0
    BY <2>2
  <2>6. LineEnds(Whole', Len(result'))
    BY <2>5 DEF LineEnds
  <2>7. st' = BareOpened(Whole', Len(result'))
    BY <2>2, <2>5, OpenedNothing
  <2>. QED
    BY <2>1, <2>2, <2>4, <2>6, <2>7 DEF LinesInv, Cleaned
<1>4. CASE ProcessCharacter
  BY <1>4, ProcessKeepsLines
<1>5. CASE EndCleaning
  <2>1. /\ pass = "ends" /\ i = Len(str) + 1 /\ str' = result /\ pass' = "cleaned"
        /\ str \in Seq(Chars) /\ result \in Seq(Chars)
    BY <1>5 DEF EndCleaning, TypeInv
  <2>2. Whole = result
    <3>1. SubSeq(str, i, Len(str)) = <<>>
      BY <2>1
    <3>. QED
      BY <2>1, <3>1 DEF Whole
  <2>. QED
    BY <2>1, <2>2 DEF LinesInv, Cleaned
<1>6. CASE UNCHANGED vars
  BY <1>6 DEF vars, LinesInv, Cleaned, Whole
<1>. QED
  BY <1>1, <1>2, <1>3, <1>4, <1>5, <1>6 DEF CleanSourceCode

\* A line of a cleaned text holds one statement at most, as long as its literals hold no
\* parenthesis, brace or semicolon, and none is empty but the first (string_utils.h:64 and 86).
THEOREM StatementEndsLineHolds == Spec => []StatementEndsLine
<1>1. Init => TypeInv /\ LinesInv
  BY InitTypes DEF Init, LinesInv, Cleaned
<1>2. (TypeInv /\ LinesInv) /\ [CleanSourceCode]_vars => (TypeInv /\ LinesInv)'
  BY NextTypes, NextLines
<1>3. TypeInv /\ LinesInv => StatementEndsLine
  <2>. SUFFICES ASSUME TypeInv, LinesInv, Cleaned, NEW p \in 1..Len(str)
                PROVE  /\ NoEndInString(str) /\ EndsAt(p) => ~MoreOnLine(str, p)
                       /\ ~(Is(p, "nl") /\ Is(p + 1, "nl"))
    BY DEF StatementEndsLine
  <2>1. LineEnds(str, Len(str)) /\ ~Pair(str, p, "nl", "nl") /\ Len(str) \in Nat
    BY DEF LinesInv, NoEmptyLine, TypeInv
  <2>2. NoEndInString(str) /\ EndsAt(p) => EndsLine(str[p], BareOpened(str, p))
    BY OpenedBare DEF EndsAt
  <2>. QED
    BY <2>1, <2>2 DEF LineEnds, Pair, Is
<1>. QED
  BY <1>1, <1>2, <1>3, PTL DEF Spec

-----------------------------------------------------------------------------
(* How Solidity would read a text if it had no literals *)

BareNextMode(s, p, mode) ==
    IF mode = "code" THEN IF Pair(s, p, "/", "*") THEN "open"
                          ELSE IF Pair(s, p, "/", "/") THEN "line" ELSE "code"
    ELSE IF mode = "open" THEN "block"
    ELSE IF mode = "block" THEN IF Pair(s, p, "*", "/") THEN "close" ELSE "block"
    ELSE IF mode = "line" THEN IF s[p] = "nl" THEN "code" ELSE "line"
    ELSE "code"
BareMode(s) ==
    LET mode[p \in 1..Len(s)] == IF p = 1 THEN "code" ELSE BareNextMode(s, p - 1, mode[p - 1])
    IN  mode
BareCode(s) ==
    LET mode == BareMode(s)
    IN  Keep(s, {p \in 1..Len(s) : \/ mode[p] = "line" /\ s[p] = "nl"
                                   \/ mode[p] = "code" /\ BareNextMode(s, p, "code") = "code"})
BareNoLineInBlock(s) ==
    \A p \in 1..Len(s) : Pair(s, p, "/", "/") => BareMode(s)[p] \notin {"block", "close"}

Modes == {"code", "open", "block", "close", "line"}

LEMMA BareNextModeType == \A s, p, mode : BareNextMode(s, p, mode) \in Modes
<1>. QED
  BY DEF BareNextMode, Modes

\* The modes follow each other from "code" on.
LEMMA BareModeFollows ==
    ASSUME NEW s \in Seq(Chars)
    PROVE  /\ Len(s) > 0 => BareMode(s)[1] = "code"
           /\ \A p \in 1..(Len(s) - 1) : BareMode(s)[p + 1] = BareNextMode(s, p, BareMode(s)[p])
           /\ \A p \in 1..Len(s) : BareMode(s)[p] \in Modes
<1>. DEFINE h == [n \in 1..Len(s) |-> [m \in Modes |-> BareNextMode(s, n, m)]]
            IsIt(g) == g = [p \in 1..Len(s) |-> IF p = 1 THEN "code" ELSE BareNextMode(s, p - 1, g[p - 1])]
<1>1. Len(s) \in Nat
  OBVIOUS
<1>2. "code" \in Modes
  BY DEF Modes
<1>3. h \in Steps(Len(s), Modes)
  BY BareNextModeType DEF Steps
<1>4. PICK f : Follows(f, Len(s), Modes, "code", h)
  <2>. HIDE DEF h
  <2>. QED
    BY <1>1, <1>2, <1>3, Recursion
<1>5. f[0] = "code" /\ \A n \in 0..Len(s) : f[n] \in Modes
  BY <1>4 DEF Follows
<1>6. ASSUME NEW n \in 1..Len(s) PROVE f[n] = BareNextMode(s, n, f[n - 1])
  <2>1. f[n] = h[n][f[n - 1]] /\ n - 1 \in 0..Len(s)
    BY <1>1, <1>4 DEF Follows
  <2>2. f[n - 1] \in Modes
    BY <1>5, <2>1
  <2>. QED
    BY <2>1, <2>2
<1>. HIDE DEF h
<1>. DEFINE g == [p \in 1..Len(s) |-> f[p - 1]]
<1>7. IsIt(g)
  <2>1. ASSUME NEW p \in 1..Len(s) PROVE g[p] = IF p = 1 THEN "code" ELSE BareNextMode(s, p - 1, g[p - 1])
    <3>1. CASE p = 1
      BY <1>5, <3>1
    <3>2. CASE p # 1
      <4>1. PICK n \in 1..Len(s) : n = p - 1
        BY <1>1, <3>2
      <4>2. f[n] = BareNextMode(s, n, f[n - 1])
        BY <1>6
      <4>. QED
        BY <3>2, <4>1, <4>2
    <3>. QED
      BY <3>1, <3>2
  <2>. QED
    BY <2>1
<1>8. IsIt(CHOOSE k : IsIt(k))
  <2>. HIDE DEF IsIt
  <2>. QED
    BY <1>7
<1>. DEFINE k == CHOOSE k : IsIt(k)
<1>9. BareMode(s) = k
  BY DEF BareMode
<1>10. \A p \in 1..Len(s) : k[p] = IF p = 1 THEN "code" ELSE BareNextMode(s, p - 1, k[p - 1])
  <2>. HIDE DEF k
  <2>. QED
    BY <1>8 DEF k
<1>. HIDE DEF k
<1>11. Len(s) > 0 => k[1] = "code"
  BY <1>1, <1>10
<1>12. ASSUME NEW p \in 1..(Len(s) - 1) PROVE k[p + 1] = BareNextMode(s, p, k[p])
  <2>1. PICK q \in 1..Len(s) : q = p + 1
    BY <1>1
  <2>2. q - 1 = p /\ q # 1
    BY <2>1
  <2>3. k[q] = BareNextMode(s, q - 1, k[q - 1])
    BY <1>10, <2>2
  <2>. QED
    BY <2>1, <2>2, <2>3
<1>13. ASSUME NEW p \in 1..Len(s) PROVE k[p] \in Modes
  <2>1. k[p] = "code" \/ k[p] = BareNextMode(s, p - 1, k[p - 1])
    BY <1>10
  <2>. QED
    BY <1>2, <2>1, BareNextModeType
<1>. QED
  BY <1>9, <1>11, <1>12, <1>13

\* A place is in a line comment if the comment starts there or goes on there.
LEMMA InLineStep ==
    ASSUME NEW s \in Seq(Chars), NEW p \in 1..Len(s)
    PROVE  InLineComment(s, p) <=>
             Pair(s, p, "/", "/") \/ (s[p] # "nl" /\ p > 1 /\ InLineComment(s, p - 1))
<1>1. Len(s) \in Nat /\ p \in Nat
  OBVIOUS
<1>2. ASSUME Pair(s, p, "/", "/") PROVE InLineComment(s, p)
  <2>1. p \in 1..p /\ \A r \in p..p : s[r] # "nl"
    BY <1>2 DEF Pair
  <2>. QED
    BY <1>2, <2>1 DEF Pair, InLineComment
<1>3. ASSUME s[p] # "nl", p > 1, InLineComment(s, p - 1) PROVE InLineComment(s, p)
  <2>1. PICK q \in 1..(p - 1) : q < Len(s) /\ s[q] = "/" /\ s[q + 1] = "/" /\ \A r \in q..(p - 1) : s[r] # "nl"
    BY <1>3 DEF InLineComment
  <2>2. q \in 1..p /\ \A r \in q..p : s[r] # "nl"
    BY <1>3, <2>1
  <2>. QED
    BY <2>1, <2>2 DEF InLineComment
<1>4. ASSUME InLineComment(s, p), ~Pair(s, p, "/", "/") PROVE s[p] # "nl" /\ p > 1 /\ InLineComment(s, p - 1)
  <2>1. PICK q \in 1..p : q < Len(s) /\ s[q] = "/" /\ s[q + 1] = "/" /\ \A r \in q..p : s[r] # "nl"
    BY <1>4 DEF InLineComment
  <2>2. q # p
    BY <1>4, <2>1 DEF Pair
  <2>3. q \in 1..(p - 1) /\ p > 1 /\ p \in q..p /\ \A r \in q..(p - 1) : s[r] # "nl"
    BY <1>1, <2>1, <2>2
  <2>4. InLineComment(s, p - 1)
    BY <2>1, <2>3 DEF InLineComment
  <2>. QED
    BY <2>1, <2>3, <2>4
<1>. QED
  BY <1>2, <1>3, <1>4

ReadAsLine(s, p) ==
    \/ BareMode(s)[p] = "line" /\ s[p] # "nl"
    \/ BareMode(s)[p] = "code" /\ Pair(s, p, "/", "/")

\* What the pattern "//.*" matches is what Solidity reads as line comments, when no "//"
\* stands in a block comment.
LEMMA LinesAgree ==
    ASSUME NEW s \in Seq(Chars), BareNoLineInBlock(s)
    PROVE  \A p \in 1..Len(s) : InLineComment(s, p) <=> ReadAsLine(s, p)
<1>. DEFINE T == {n \in 0..Len(s) : n > 0 => (InLineComment(s, n) <=> ReadAsLine(s, n))}
<1>1. Len(s) \in Nat
  OBVIOUS
<1>2. ASSUME NEW p \in 1..Len(s), Pair(s, p, "/", "/") PROVE BareMode(s)[p] \in {"code", "line"}
  <2>1. BareMode(s)[p] \in Modes /\ BareMode(s)[p] \notin {"block", "close"}
    BY <1>2, BareModeFollows DEF BareNoLineInBlock
  <2>2. ASSUME BareMode(s)[p] = "open" PROVE FALSE
    <3>1. p # 1
      BY <1>1, <2>2, BareModeFollows
    <3>2. PICK q \in 1..(Len(s) - 1) : p = q + 1
      <4>1. p - 1 \in 1..(Len(s) - 1) /\ p = (p - 1) + 1
        BY <1>1, <3>1
      <4>. QED
        BY <4>1
    <3>3. BareNextMode(s, q, BareMode(s)[q]) = "open"
      BY <2>2, <3>2, BareModeFollows
    <3>4. Pair(s, q, "/", "*")
      BY <3>3 DEF BareNextMode
    <3>. QED
      BY <1>2, <3>2, <3>4 DEF Pair
  <2>. QED
    BY <2>1, <2>2 DEF Modes
<1>3. 0 \in T
  BY <1>1
<1>4. ASSUME NEW n \in 0..(Len(s) - 1), n \in T PROVE n + 1 \in T
  <2>1. PICK p \in 1..Len(s) : p = n + 1
    BY <1>1
  <2>2. CASE n = 0
    <3>1. p = 1 /\ BareMode(s)[p] = "code"
      BY <1>1, <2>1, <2>2, BareModeFollows
    <3>2. InLineComment(s, p) <=> Pair(s, p, "/", "/")
      BY <3>1, InLineStep
    <3>3. InLineComment(s, p) <=> ReadAsLine(s, p)
      BY <3>1, <3>2 DEF ReadAsLine
    <3>. QED
      BY <1>1, <2>1, <3>3
  <2>3. CASE n > 0
    <3>1. p - 1 = n /\ p > 1 /\ n \in 1..(Len(s) - 1) /\ p \in 0..Len(s)
      BY <1>1, <2>1, <2>3
    <3>2. InLineComment(s, n) <=> ReadAsLine(s, n)
      BY <1>4, <2>3
    <3>3. InLineComment(s, p) <=> Pair(s, p, "/", "/") \/ (s[p] # "nl" /\ InLineComment(s, n))
      BY <3>1, InLineStep
    <3>4. BareMode(s)[p] = BareNextMode(s, n, BareMode(s)[n])
      BY <2>1, <3>1, BareModeFollows
    <3>5. ReadAsLine(s, n) <=> BareMode(s)[p] = "line"
      <4>1. ReadAsLine(s, n) => BareMode(s)[p] = "line"
        BY <3>4 DEF ReadAsLine, BareNextMode, Pair
      <4>2. BareMode(s)[p] = "line" => ReadAsLine(s, n)
        BY <3>4 DEF ReadAsLine, BareNextMode
      <4>. QED
        BY <4>1, <4>2
    <3>6. Pair(s, p, "/", "/") => BareMode(s)[p] \in {"code", "line"} /\ s[p] # "nl"
      BY <1>2 DEF Pair
    <3>7. InLineComment(s, p) <=> ReadAsLine(s, p)
      BY <3>2, <3>3, <3>5, <3>6 DEF ReadAsLine
    <3>. QED
      BY <2>1, <3>1, <3>7
  <2>. QED
    BY <2>2, <2>3
<1>5. \A n \in 0..Len(s) : n \in T
  <2>. HIDE DEF T
  <2>. QED
    BY <1>1, <1>3, <1>4, UpTo
<1>. QED
  BY <1>1, <1>5

-----------------------------------------------------------------------------
(* The block pass keeps the code *)

CodePlaces(s) == {p \in 1..Len(s) : s[p] # "nl" /\ BareMode(s)[p] = "code" /\ BareNextMode(s, p, "code") = "code"}
Lines(s) == {p \in 1..Len(s) : ~InLineComment(s, p)}

\* Where the characters that the line pass leaves stood, and the code up to each place.
Spots(s) == CHOOSE e : Places(e, s, Lines(s))
KeptUpTo(s) == CHOOSE f : Keeps(f, Chars, s, CodePlaces(s))
Here(s, k) == IF k <= Len(WithoutLineComments(s)) THEN Spots(s)[k] ELSE Len(s) + 1

\* What has been written is the code before the place h, which is read in this mode.
At(s, h, out, inside) ==
    /\ h \in 1..(Len(s) + 1)
    /\ Inline(out) = KeptUpTo(s)[h - 1]
    /\ h <= Len(s) => BareMode(s)[h] \in IF inside THEN {"block"} ELSE {"code", "line"}

LEMMA KeptUpToIs == ASSUME NEW s \in Seq(Chars) PROVE Keeps(KeptUpTo(s), Chars, s, CodePlaces(s))
<1>1. \E f : Keeps(f, Chars, s, CodePlaces(s))
  BY KeepIsFunction
<1>. QED
  BY <1>1 DEF KeptUpTo

LEMMA SpotsAre ==
    ASSUME NEW s \in Seq(Chars)
    PROVE  /\ Spots(s) \in [1..Len(WithoutLineComments(s)) -> 1..Len(s)]
           /\ \A m \in 1..Len(WithoutLineComments(s)) :
                 ~InLineComment(s, Spots(s)[m]) /\ WithoutLineComments(s)[m] = s[Spots(s)[m]]
           /\ \A m, n \in 1..Len(WithoutLineComments(s)) : m < n => Spots(s)[m] < Spots(s)[n]
<1>1. WithoutLineComments(s) = Keep(s, Lines(s))
  BY DEF WithoutLineComments, Lines
<1>2. \E e : Places(e, s, Lines(s))
  BY KeepPlaces
<1>3. Places(Spots(s), s, Lines(s))
  BY <1>2 DEF Spots
<1>4. \A p : p \in Lines(s) => ~InLineComment(s, p)
  BY DEF Lines
<1>. QED
  BY <1>1, <1>3, <1>4 DEF Places

\* From one character to the next all is in a line comment.
LEMMA HereNext ==
    ASSUME NEW s \in Seq(Chars), NEW k \in 1..Len(WithoutLineComments(s)), NEW l, l = k + 1
    PROVE  /\ Here(s, l) \in (Spots(s)[k] + 1)..(Len(s) + 1)
           /\ \A p \in (Spots(s)[k] + 1)..(Here(s, l) - 1) : InLineComment(s, p)
<1>. DEFINE t == WithoutLineComments(s)
            e == Spots(s)
<1>1. t = Keep(s, Lines(s)) /\ t \in Seq(Chars) /\ Len(t) \in Nat /\ Len(s) \in Nat
  BY KeepType DEF WithoutLineComments, Lines
<1>2. Places(e, s, Lines(s))
  <2>1. \E d : Places(d, s, Lines(s))
    BY KeepPlaces
  <2>. QED
    BY <2>1 DEF Spots
<1>3. e \in [1..Len(t) -> 1..Len(s)] /\ \A m, n \in 1..Len(t) : m < n => e[m] < e[n]
  BY SpotsAre
<1>4. /\ \A m \in 1..(Len(t) - 1) : \A p \in (e[m] + 1)..(e[m + 1] - 1) : p \notin Lines(s)
      /\ t # <<>> => \A p \in (e[Len(t)] + 1)..Len(s) : p \notin Lines(s)
  BY <1>1, <1>2, PlacesNext
<1>5. Here(s, l) = IF l <= Len(t) THEN e[l] ELSE Len(s) + 1
  BY DEF Here
<1>6. k \in 1..Len(t)
  OBVIOUS
<1>. HIDE DEF t, e
<1>7. \A p \in 1..Len(s) : p \notin Lines(s) => InLineComment(s, p)
  BY DEF Lines
<1>8. e[k] \in 1..Len(s)
  BY <1>3, <1>6
<1>9. CASE l <= Len(t)
  <2>1. l \in 1..Len(t) /\ k < l /\ k \in 1..(Len(t) - 1)
    BY <1>1, <1>6, <1>9
  <2>2. e[k] < e[l] /\ e[l] \in 1..Len(s) /\ Here(s, l) = e[l]
    BY <1>3, <1>5, <1>6, <1>9, <2>1
  <2>3. \A p \in (e[k] + 1)..(e[l] - 1) : p \notin Lines(s) /\ p \in 1..Len(s)
    BY <1>4, <1>8, <2>1, <2>2
  <2>4. e[l] \in (e[k] + 1)..(Len(s) + 1)
    BY <1>1, <1>8, <2>2
  <2>. QED
    BY <1>7, <2>2, <2>3, <2>4 DEF e
<1>10. CASE ~(l <= Len(t))
  <2>1. k = Len(t) /\ t # <<>> /\ Here(s, l) = Len(s) + 1
    BY <1>1, <1>5, <1>6, <1>10
  <2>2. \A p \in (e[k] + 1)..Len(s) : p \notin Lines(s) /\ p \in 1..Len(s)
    BY <1>1, <1>4, <1>8, <2>1
  <2>3. Len(s) + 1 \in (e[k] + 1)..(Len(s) + 1) /\ (Len(s) + 1) - 1 = Len(s)
    BY <1>1, <1>8
  <2>. QED
    BY <1>7, <2>1, <2>2, <2>3 DEF e
<1>. QED
  BY <1>9, <1>10

LEMMA HereFirst ==
    ASSUME NEW s \in Seq(Chars)
    PROVE  /\ Here(s, 1) \in 1..(Len(s) + 1)
           /\ \A p \in 1..(Here(s, 1) - 1) : InLineComment(s, p)
<1>. DEFINE t == WithoutLineComments(s)
            e == Spots(s)
<1>1. t = Keep(s, Lines(s)) /\ t \in Seq(Chars) /\ Len(t) \in Nat /\ Len(s) \in Nat
  BY KeepType DEF WithoutLineComments, Lines
<1>2. Places(e, s, Lines(s))
  <2>1. \E d : Places(d, s, Lines(s))
    BY KeepPlaces
  <2>. QED
    BY <2>1 DEF Spots
<1>3. e \in [1..Len(t) -> 1..Len(s)]
  BY SpotsAre
<1>4. /\ t = <<>> => \A p \in 1..Len(s) : p \notin Lines(s)
      /\ t # <<>> => \A p \in 1..(e[1] - 1) : p \notin Lines(s)
  BY <1>1, <1>2, PlacesNext
<1>5. Here(s, 1) = IF 1 <= Len(t) THEN e[1] ELSE Len(s) + 1
  BY DEF Here
<1>. HIDE DEF t, e
<1>6. \A p \in 1..Len(s) : p \notin Lines(s) => InLineComment(s, p)
  BY DEF Lines
<1>7. CASE t = <<>>
  <2>1. Here(s, 1) = Len(s) + 1 /\ (Len(s) + 1) - 1 = Len(s)
    BY <1>1, <1>5, <1>7
  <2>. QED
    BY <1>1, <1>4, <1>6, <1>7, <2>1
<1>8. CASE t # <<>>
  <2>1. 1 \in 1..Len(t)
    BY <1>1, <1>8
  <2>2. e[1] \in 1..Len(s) /\ Here(s, 1) = e[1]
    BY <1>3, <1>5, <2>1
  <2>3. \A p \in 1..(e[1] - 1) : p \notin Lines(s) /\ p \in 1..Len(s)
    BY <1>4, <1>8, <2>2
  <2>. QED
    BY <1>1, <1>6, <2>2, <2>3
<1>. QED
  BY <1>7, <1>8

\* One place further.
LEMMA KeptStep ==
    ASSUME NEW s \in Seq(Chars), NEW h \in 1..Len(s)
    PROVE  /\ h \in CodePlaces(s) => KeptUpTo(s)[h] = Append(KeptUpTo(s)[h - 1], s[h])
           /\ h \notin CodePlaces(s) => KeptUpTo(s)[h] = KeptUpTo(s)[h - 1]
           /\ h \in CodePlaces(s) <=> s[h] # "nl" /\ BareMode(s)[h] = "code" /\ BareNextMode(s, h, "code") = "code"
<1>. QED
  BY KeptUpToIs DEF Keeps, CodePlaces

\* The modes on from a place.
LEMMA ModeStep ==
    ASSUME NEW s \in Seq(Chars), NEW h \in 1..Len(s), NEW g, g = h + 1
    PROVE  g <= Len(s) => BareMode(s)[g] = BareNextMode(s, h, BareMode(s)[h])
<1>. SUFFICES ASSUME g <= Len(s) PROVE BareMode(s)[g] = BareNextMode(s, h, BareMode(s)[h])
  OBVIOUS
<1>1. Len(s) \in Nat /\ h \in 1..(Len(s) - 1)
  OBVIOUS
<1>. QED
  BY <1>1, BareModeFollows

\* A place read by neither kind of copying leaves what is kept as it is.
LEMMA AtStep ==
    ASSUME NEW s \in Seq(Chars), NEW h \in 1..Len(s), NEW g, g = h + 1, NEW out, NEW inside, NEW after,
           At(s, h, out, inside), h \notin CodePlaces(s),
           BareNextMode(s, h, BareMode(s)[h]) \in IF after THEN {"block"} ELSE {"code", "line"}
    PROVE  At(s, g, out, after)
<1>1. Len(s) \in Nat /\ g \in 1..(Len(s) + 1) /\ g - 1 = h
  OBVIOUS
<1>2. KeptUpTo(s)[h] = KeptUpTo(s)[h - 1]
  BY KeptStep
<1>3. Inline(out) = KeptUpTo(s)[g - 1]
  BY <1>1, <1>2 DEF At
<1>4. g <= Len(s) => BareMode(s)[g] = BareNextMode(s, h, BareMode(s)[h])
  BY ModeStep
<1>. QED
  BY <1>1, <1>3, <1>4 DEF At

\* Over line comments.
LEMMA SkipLine ==
    ASSUME NEW s \in Seq(Chars), BareNoLineInBlock(s), NEW h, NEW g \in h..(Len(s) + 1), NEW out, NEW inside,
           At(s, h, out, inside), \A p \in h..(g - 1) : InLineComment(s, p)
    PROVE  At(s, g, out, inside)
<1>1. Len(s) \in Nat /\ h \in Nat /\ h \in 1..(Len(s) + 1) /\ g \in Nat /\ h <= g
  BY DEF At
<1>. DEFINE T == {n \in 0..(g - h) : At(s, h + n, out, inside)}
<1>2. 0 \in T
  <2>1. h + 0 = h /\ 0 \in 0..(g - h)
    BY <1>1
  <2>. QED
    BY <2>1, Zenon
<1>3. ASSUME NEW n \in 0..((g - h) - 1), n \in T PROVE n + 1 \in T
  <2>1. PICK p \in h..(g - 1) : p = h + n
    BY <1>1
  <2>2. p \in 1..Len(s) /\ InLineComment(s, p)
    BY <1>1
  <2>3. ReadAsLine(s, p)
    BY <2>2, LinesAgree
  <2>4. At(s, p, out, inside)
    BY <1>3, <2>1
  <2>5. BareMode(s)[p] \in IF inside THEN {"block"} ELSE {"code", "line"}
    BY <1>1, <2>2, <2>4 DEF At
  <2>6. ~inside
    <3>1. BareMode(s)[p] # "block"
      BY <2>3 DEF ReadAsLine
    <3>. QED
      BY <2>5, <3>1
  <2>7. BareNextMode(s, p, BareMode(s)[p]) = "line" /\ p \notin CodePlaces(s)
    BY <2>3 DEF ReadAsLine, BareNextMode, Pair, CodePlaces
  <2>8. PICK q : q = p + 1
    OBVIOUS
  <2>9. BareNextMode(s, p, BareMode(s)[p]) \in IF inside THEN {"block"} ELSE {"code", "line"}
    BY <2>6, <2>7
  <2>10. At(s, q, out, inside)
    BY <2>2, <2>4, <2>7, <2>8, <2>9, AtStep
  <2>11. q = h + (n + 1) /\ n + 1 \in 0..(g - h)
    BY <1>1, <2>1, <2>8
  <2>. QED
    BY <2>10, <2>11
<1>4. PICK d \in Nat : d = g - h
  BY <1>1
<1>5. \A n \in 0..d : n \in T
  <2>. HIDE DEF T
  <2>. QED
    BY <1>2, <1>3, <1>4, UpTo
<1>6. d \in T /\ h + d = g
  BY <1>1, <1>4, <1>5
<1>. QED
  BY <1>6

LEMMA InlineAppend ==
    ASSUME NEW t \in Seq(Chars), NEW c \in Chars
    PROVE  /\ c # "nl" => Inline(Append(t, c)) = Append(Inline(t), c)
           /\ c = "nl" => Inline(Append(t, c)) = Inline(t)
<1>1. Without(Append(t, c), {"nl"}) = IF c \notin {"nl"} THEN Append(Without(t, {"nl"}), c) ELSE Without(t, {"nl"})
  BY WithoutAppend
<1>. QED
  BY <1>1 DEF Inline

\* The code without its newlines.
LEMMA InlineCode ==
    ASSUME NEW s \in Seq(Chars)
    PROVE  Inline(BareCode(s)) = KeptUpTo(s)[Len(s)]
<1>. DEFINE P == {p \in 1..Len(s) : \/ BareMode(s)[p] = "line" /\ s[p] = "nl"
                                    \/ BareMode(s)[p] = "code" /\ BareNextMode(s, p, "code") = "code"}
            Q == {p \in P : s[p] \notin {"nl"}}
<1>1. BareCode(s) = Keep(s, P)
  BY DEF BareCode
<1>2. Without(Keep(s, P), {"nl"}) = Keep(s, Q)
  <2>. HIDE DEF P
  <2>. QED
    BY WithoutKeep
<1>3. \A p \in 1..Len(s) : p \in Q <=> p \in CodePlaces(s)
  BY DEF CodePlaces
<1>4. Keep(s, Q) = Keep(s, CodePlaces(s))
  <2>. HIDE DEF Q
  <2>. QED
    BY <1>3, KeepSame
<1>5. Keep(s, CodePlaces(s)) = KeptUpTo(s)[Len(s)]
  BY KeptUpToIs DEF Keeps
<1>. QED
  BY <1>1, <1>2, <1>4, <1>5 DEF Inline

\* What is known where the pass stands.
LEMMA Stands ==
    ASSUME NEW s \in Seq(Chars), BareNoLineInBlock(s), NEW t, t = WithoutLineComments(s),
           NEW k \in 1..Len(t), NEW out, NEW inside, At(s, Here(s, k), out, inside)
    PROVE  \E h \in 1..Len(s) :
             /\ h = Spots(s)[k] /\ s[h] = t[k] /\ At(s, h, out, inside) /\ ~ReadAsLine(s, h)
             /\ inside => BareMode(s)[h] = "block"
             /\ ~inside => BareMode(s)[h] \in {"code", "line"}
             /\ (BareMode(s)[h] = "line" => s[h] = "nl") /\ (BareMode(s)[h] = "code" => ~Pair(s, h, "/", "/"))
<1>1. t \in Seq(Chars) /\ Len(t) \in Nat /\ Len(s) \in Nat
  BY KeepType DEF WithoutLineComments
<1>2. PICK h \in 1..Len(s) : h = Spots(s)[k]
  BY SpotsAre
<1>3. s[h] = t[k] /\ ~InLineComment(s, h)
  BY <1>2, SpotsAre
<1>4. Here(s, k) = h
  BY <1>1, <1>2 DEF Here
<1>5. ~ReadAsLine(s, h)
  BY <1>3, LinesAgree
<1>6. At(s, h, out, inside)
  BY <1>4
<1>7. BareMode(s)[h] \in IF inside THEN {"block"} ELSE {"code", "line"}
  BY <1>1, <1>6 DEF At
<1>8. (inside => BareMode(s)[h] = "block") /\ (~inside => BareMode(s)[h] \in {"code", "line"})
  BY <1>7
<1>. QED
  BY <1>2, <1>3, <1>5, <1>6, <1>8 DEF ReadAsLine

\* A place that is read neither as a line comment nor left out comes next.
LEMMA NextSpot ==
    ASSUME NEW s \in Seq(Chars), BareNoLineInBlock(s), NEW t, t = WithoutLineComments(s),
           NEW k \in 1..Len(t), NEW l, l = k + 1,
           NEW g \in 1..Len(s), g = Spots(s)[k] + 1, ~ReadAsLine(s, g)
    PROVE  l \in 1..Len(t) /\ Spots(s)[l] = g /\ t[l] = s[g]
<1>1. t \in Seq(Chars) /\ Len(t) \in Nat /\ Len(s) \in Nat /\ k \in 1..Len(WithoutLineComments(s))
  BY KeepType DEF WithoutLineComments
<1>2. /\ Here(s, l) \in (Spots(s)[k] + 1)..(Len(s) + 1)
      /\ \A p \in (Spots(s)[k] + 1)..(Here(s, l) - 1) : InLineComment(s, p)
  BY <1>1, HereNext
<1>3. ~InLineComment(s, g)
  BY LinesAgree
<1>4. Here(s, l) = g
  <2>1. PICK x : x = Here(s, l)
    OBVIOUS
  <2>2. x \in g..(Len(s) + 1) /\ \A p \in g..(x - 1) : InLineComment(s, p)
    BY <1>2, <2>1
  <2>. QED
    BY <1>1, <1>3, <2>1, <2>2
<1>5. l \in 1..Len(t)
  BY <1>1, <1>4 DEF Here
<1>6. Spots(s)[l] = g
  BY <1>4, <1>5 DEF Here
<1>. QED
  BY <1>5, <1>6, SpotsAre

\* And then all up to the next character is in line comments.
LEMMA ThenHere ==
    ASSUME NEW s \in Seq(Chars), BareNoLineInBlock(s), NEW t, t = WithoutLineComments(s),
           NEW k \in 1..Len(t), NEW l, l = k + 1,
           NEW g, g = Spots(s)[k] + 1, NEW out, NEW inside, At(s, g, out, inside)
    PROVE  At(s, Here(s, l), out, inside)
<1>1. k \in 1..Len(WithoutLineComments(s))
  OBVIOUS
<1>2. /\ Here(s, l) \in (Spots(s)[k] + 1)..(Len(s) + 1)
      /\ \A p \in (Spots(s)[k] + 1)..(Here(s, l) - 1) : InLineComment(s, p)
  BY <1>1, HereNext
<1>3. PICK x : x = Here(s, l)
  OBVIOUS
<1>4. x \in g..(Len(s) + 1) /\ \A p \in g..(x - 1) : InLineComment(s, p)
  BY <1>2, <1>3
<1>5. At(s, x, out, inside)
  BY <1>4, SkipLine
<1>. QED
  BY <1>3, <1>5

-----------------------------------------------------------------------------
(* The actions of the block pass, on the text s *)

Reads(s, t, k, out, inside) ==
    /\ s \in Seq(Chars) /\ BareNoLineInBlock(s) /\ t = WithoutLineComments(s)
    /\ k \in 1..Len(t) /\ At(s, Here(s, k), out, inside)

Begins(t, k, a, b) == k \in 1..Len(t) /\ k + 1 \in 1..Len(t) /\ t[k] = a /\ t[k + 1] = b

\* Spelled out where it is needed.
Yes(inside) == inside

LEMMA CopyReads ==
    ASSUME NEW s, NEW t, NEW k, NEW out \in Seq(Chars), NEW inside, ~inside, Reads(s, t, k, out, inside),
           ~Begins(t, k, "/", "*"), NEW l, l = k + 1
    PROVE  At(s, Here(s, l), Append(out, t[k]), inside)
<1>. USE DEF Reads
<1>1. PICK h \in 1..Len(s) :
        /\ h = Spots(s)[k] /\ s[h] = t[k] /\ At(s, h, out, inside)
        /\ BareMode(s)[h] \in {"code", "line"}
        /\ (BareMode(s)[h] = "line" => s[h] = "nl") /\ (BareMode(s)[h] = "code" => ~Pair(s, h, "/", "/"))
  BY Stands
<1>2. s \in Seq(Chars) /\ Len(s) \in Nat /\ s[h] \in Chars
  OBVIOUS
<1>3. PICK g : g = h + 1
  OBVIOUS
<1>4. ~Pair(s, h, "/", "*")
  <2>. SUFFICES ASSUME Pair(s, h, "/", "*") PROVE FALSE
    OBVIOUS
  <2>1. g \in 1..Len(s) /\ s[h] = "/" /\ s[g] = "*"
    BY <1>2, <1>3 DEF Pair
  <2>2. BareMode(s)[h] = "code"
    BY <1>1, <2>1
  <2>3. BareMode(s)[g] = "open"
    <3>1. BareMode(s)[g] = BareNextMode(s, h, BareMode(s)[h])
      BY <1>2, <1>3, <2>1, ModeStep
    <3>. QED
      BY <2>2, <3>1 DEF BareNextMode
  <2>4. ~ReadAsLine(s, g)
    BY <2>3 DEF ReadAsLine
  <2>5. l \in 1..Len(t) /\ t[l] = s[g]
    BY <1>1, <1>3, <2>1, <2>4, NextSpot
  <2>. QED
    BY <1>1, <2>1, <2>5 DEF Begins
<1>5. BareNextMode(s, h, BareMode(s)[h]) = "code"
  BY <1>1, <1>4 DEF BareNextMode
<1>6. At(s, g, Append(out, t[k]), inside)
  <2>1. Inline(out) = KeptUpTo(s)[h - 1]
    BY <1>1 DEF At
  <2>2. CASE s[h] = "nl"
    <3>1. h \notin CodePlaces(s)
      BY <2>2 DEF CodePlaces
    <3>2. Inline(Append(out, s[h])) = Inline(out)
      BY <1>2, <2>2, InlineAppend
    <3>3. At(s, h, Append(out, s[h]), inside)
      BY <1>1, <3>2 DEF At
    <3>4. BareNextMode(s, h, BareMode(s)[h]) \in IF inside THEN {"block"} ELSE {"code", "line"}
      BY <1>5
    <3>5. At(s, g, Append(out, s[h]), inside)
      BY <1>2, <1>3, <3>1, <3>3, <3>4, AtStep
    <3>. QED
      BY <1>1, <3>5
  <2>3. CASE s[h] # "nl"
    <3>1. BareMode(s)[h] = "code"
      BY <1>1, <2>3
    <3>2. KeptUpTo(s)[h] = Append(KeptUpTo(s)[h - 1], s[h])
      BY <1>2, <1>5, <2>3, <3>1, KeptStep
    <3>3. Inline(Append(out, s[h])) = Append(Inline(out), s[h])
      BY <1>2, <2>3, InlineAppend
    <3>4. g <= Len(s) => BareMode(s)[g] = "code"
      BY <1>2, <1>3, <1>5, ModeStep
    <3>5. g \in 1..(Len(s) + 1) /\ g - 1 = h
      BY <1>2, <1>3
    <3>6. Inline(Append(out, s[h])) = KeptUpTo(s)[g - 1]
      BY <2>1, <3>2, <3>3, <3>5
    <3>7. At(s, g, Append(out, s[h]), inside)
      BY <3>4, <3>5, <3>6 DEF At
    <3>. QED
      BY <1>1, <3>7
  <2>. QED
    BY <2>2, <2>3
<1>. QED
  BY <1>1, <1>3, <1>6, ThenHere

LEMMA OpenReads ==
    ASSUME NEW s, NEW t, NEW k, NEW out, NEW inside, ~inside, Reads(s, t, k, out, inside),
           Begins(t, k, "/", "*"), NEW l, l = k + 2, NEW after, Yes(after)
    PROVE  At(s, Here(s, l), out, after)
<1>. USE DEF Reads
<1>1. PICK h \in 1..Len(s) :
        /\ h = Spots(s)[k] /\ s[h] = t[k] /\ At(s, h, out, inside)
        /\ BareMode(s)[h] \in {"code", "line"}
        /\ (BareMode(s)[h] = "line" => s[h] = "nl") /\ (BareMode(s)[h] = "code" => ~Pair(s, h, "/", "/"))
  BY Stands
<1>2. s \in Seq(Chars) /\ Len(s) \in Nat /\ Len(t) \in Nat /\ k \in Nat
  BY DEF Begins
<1>3. PICK m \in 1..Len(t) : m = k + 1 /\ t[m] = "*" /\ t[k] = "/"
  BY DEF Begins
<1>4. BareMode(s)[h] = "code" /\ s[h] = "/"
  BY <1>1, <1>3
<1>5. PICK g \in 1..Len(s) : g = h + 1
  <2>1. Spots(s)[m] \in 1..Len(s) /\ Spots(s)[k] < Spots(s)[m]
    BY <1>2, <1>3, SpotsAre
  <2>. QED
    BY <1>1, <1>2, <2>1
<1>6. BareMode(s)[g] = BareNextMode(s, h, "code")
  BY <1>2, <1>4, <1>5, ModeStep
<1>7. BareMode(s)[g] \in {"code", "open"}
  BY <1>1, <1>4, <1>6 DEF BareNextMode
<1>8. ~ReadAsLine(s, g)
  BY <1>1, <1>2, <1>4, <1>5, <1>7 DEF ReadAsLine, Pair
<1>9. Spots(s)[m] = g /\ t[m] = s[g]
  BY <1>1, <1>3, <1>5, <1>8, NextSpot
<1>10. Pair(s, h, "/", "*")
  BY <1>2, <1>3, <1>4, <1>5, <1>9 DEF Pair
<1>11. BareNextMode(s, h, "code") = "open" /\ BareMode(s)[g] = "open"
  BY <1>6, <1>10 DEF BareNextMode
<1>12. h \notin CodePlaces(s) /\ g \notin CodePlaces(s)
  BY <1>11 DEF CodePlaces
<1>13. PICK f : f = g + 1
  OBVIOUS
<1>14. f \in 1..(Len(s) + 1) /\ f - 1 = g /\ g - 1 = h
  BY <1>2, <1>5, <1>13
<1>15. KeptUpTo(s)[g] = KeptUpTo(s)[h] /\ KeptUpTo(s)[h] = KeptUpTo(s)[h - 1]
  BY <1>2, <1>12, <1>14, KeptStep
<1>16. Inline(out) = KeptUpTo(s)[f - 1]
  BY <1>1, <1>14, <1>15 DEF At
<1>17. f <= Len(s) => BareMode(s)[f] = "block"
  <2>1. f <= Len(s) => BareMode(s)[f] = BareNextMode(s, g, BareMode(s)[g])
    BY <1>2, <1>13, ModeStep
  <2>. QED
    BY <1>11, <2>1 DEF BareNextMode
<1>18. At(s, f, out, after)
  BY <1>14, <1>16, <1>17 DEF At, Yes
<1>19. l = m + 1 /\ f = Spots(s)[m] + 1
  BY <1>2, <1>3, <1>9, <1>13
<1>. QED
  BY <1>18, <1>19, ThenHere

LEMMA CloseReads ==
    ASSUME NEW s, NEW t, NEW k, NEW out, NEW inside, Yes(inside), Reads(s, t, k, out, inside),
           Begins(t, k, "*", "/"), NEW l, l = k + 2, NEW after, ~after
    PROVE  At(s, Here(s, l), out, after)
<1>. USE DEF Reads
<1>1. PICK h \in 1..Len(s) :
        /\ h = Spots(s)[k] /\ s[h] = t[k] /\ At(s, h, out, inside)
        /\ inside => BareMode(s)[h] = "block"
  BY Stands
<1>20. BareMode(s)[h] = "block"
  BY <1>1 DEF Yes
<1>2. s \in Seq(Chars) /\ Len(s) \in Nat /\ Len(t) \in Nat /\ k \in Nat
  BY DEF Begins
<1>3. PICK m \in 1..Len(t) : m = k + 1 /\ t[m] = "/" /\ t[k] = "*"
  BY DEF Begins
<1>5. PICK g \in 1..Len(s) : g = h + 1
  <2>1. Spots(s)[m] \in 1..Len(s) /\ Spots(s)[k] < Spots(s)[m]
    BY <1>2, <1>3, SpotsAre
  <2>. QED
    BY <1>1, <1>2, <2>1
<1>6. BareMode(s)[g] = BareNextMode(s, h, "block")
  BY <1>2, <1>5, <1>20, ModeStep
<1>7. BareMode(s)[g] \in {"block", "close"}
  BY <1>6 DEF BareNextMode
<1>8. ~ReadAsLine(s, g)
  BY <1>7 DEF ReadAsLine
<1>9. Spots(s)[m] = g /\ t[m] = s[g]
  BY <1>1, <1>3, <1>5, <1>8, NextSpot
<1>10. Pair(s, h, "*", "/")
  BY <1>1, <1>2, <1>3, <1>5, <1>9 DEF Pair
<1>11. BareNextMode(s, h, "block") = "close" /\ BareMode(s)[g] = "close"
  BY <1>6, <1>10 DEF BareNextMode
<1>12. h \notin CodePlaces(s) /\ g \notin CodePlaces(s)
  BY <1>11, <1>20 DEF CodePlaces
<1>13. PICK f : f = g + 1
  OBVIOUS
<1>14. f \in 1..(Len(s) + 1) /\ f - 1 = g /\ g - 1 = h
  BY <1>2, <1>5, <1>13
<1>15. KeptUpTo(s)[g] = KeptUpTo(s)[h] /\ KeptUpTo(s)[h] = KeptUpTo(s)[h - 1]
  BY <1>2, <1>12, <1>14, KeptStep
<1>16. Inline(out) = KeptUpTo(s)[f - 1]
  BY <1>1, <1>14, <1>15 DEF At
<1>17. f <= Len(s) => BareMode(s)[f] = "code"
  <2>1. f <= Len(s) => BareMode(s)[f] = BareNextMode(s, g, BareMode(s)[g])
    BY <1>2, <1>13, ModeStep
  <2>. QED
    BY <1>11, <2>1 DEF BareNextMode
<1>18. At(s, f, out, after)
  BY <1>14, <1>16, <1>17 DEF At
<1>19. l = m + 1 /\ f = Spots(s)[m] + 1
  BY <1>2, <1>3, <1>9, <1>13
<1>. QED
  BY <1>18, <1>19, ThenHere

LEMMA SkipReads ==
    ASSUME NEW s, NEW t, NEW k, NEW out, NEW inside, Yes(inside), Reads(s, t, k, out, inside),
           ~Begins(t, k, "*", "/"), NEW l, l = k + 1
    PROVE  At(s, Here(s, l), out, inside)
<1>. USE DEF Reads
<1>1. PICK h \in 1..Len(s) :
        /\ h = Spots(s)[k] /\ s[h] = t[k] /\ At(s, h, out, inside)
        /\ inside => BareMode(s)[h] = "block"
  BY Stands
<1>20. BareMode(s)[h] = "block"
  BY <1>1 DEF Yes
<1>2. s \in Seq(Chars) /\ Len(s) \in Nat
  OBVIOUS
<1>3. PICK g : g = h + 1
  OBVIOUS
<1>4. ~Pair(s, h, "*", "/")
  <2>. SUFFICES ASSUME Pair(s, h, "*", "/") PROVE FALSE
    OBVIOUS
  <2>1. g \in 1..Len(s) /\ s[h] = "*" /\ s[g] = "/"
    BY <1>2, <1>3 DEF Pair
  <2>2. BareMode(s)[g] = "close"
    <3>1. BareMode(s)[g] = BareNextMode(s, h, BareMode(s)[h])
      BY <1>2, <1>3, <2>1, ModeStep
    <3>. QED
      BY <1>20, <3>1 DEF BareNextMode
  <2>3. ~ReadAsLine(s, g)
    BY <2>2 DEF ReadAsLine
  <2>4. l \in 1..Len(t) /\ t[l] = s[g]
    BY <1>1, <1>3, <2>1, <2>3, NextSpot
  <2>. QED
    BY <1>1, <2>1, <2>4 DEF Begins
<1>5. BareNextMode(s, h, BareMode(s)[h]) \in IF inside THEN {"block"} ELSE {"code", "line"}
  BY <1>4, <1>20 DEF BareNextMode, Yes
<1>6. h \notin CodePlaces(s)
  BY <1>20 DEF CodePlaces
<1>7. At(s, g, out, inside)
  BY <1>1, <1>2, <1>3, <1>5, <1>6, AtStep
<1>. QED
  BY <1>1, <1>3, <1>7, ThenHere

-----------------------------------------------------------------------------
(* The passes together *)

CodeInv ==
    BareNoLineInBlock(Read(source)) =>
        /\ pass = "block" => At(Read(source), Here(Read(source), i), result, insideComment)
        /\ pass \in {"empty", "ends", "cleaned"} => Inline(str) = Inline(BareCode(Read(source)))
        /\ pass = "ends" => Inline(result) = Inline(SubSeq(str, 1, i - 1))

\* Empty lines are made of newlines.
LEMMA EmptyLinesHoldNoCode ==
    ASSUME NEW t \in Seq(Chars)
    PROVE  Inline(Keep(t, NotAgain(t))) = Inline(t)
<1>. DEFINE P == NotAgain(t)
            Q == {p \in P : t[p] \notin {"nl"}}
            R == {p \in 1..Len(t) : t[p] \notin {"nl"}}
<1>1. \A p \in 1..Len(t) : p \in Q <=> p \in R
  BY DEF NotAgain
<1>2. Keep(t, Q) = Keep(t, R)
  <2>. HIDE DEF Q, R
  <2>. QED
    BY <1>1, KeepSame
<1>3. Without(Keep(t, P), {"nl"}) = Keep(t, Q)
  <2>. HIDE DEF P
  <2>. QED
    BY WithoutKeep
<1>. QED
  BY <1>2, <1>3 DEF Inline, Without

\* The block pass begins before the first character.
LEMMA BlockBegins ==
    ASSUME NEW s \in Seq(Chars), BareNoLineInBlock(s), NEW inside, ~inside
    PROVE  At(s, Here(s, 1), <<>>, inside)
<1>1. Len(s) \in Nat
  OBVIOUS
<1>2. PICK h, out : h = 1 /\ out = <<>>
  OBVIOUS
<1>3. Inline(out) = KeptUpTo(s)[h - 1]
  <2>1. Inline(<<>>) = <<>>
    BY WithoutEmpty DEF Inline
  <2>2. KeptUpTo(s)[0] = <<>>
    BY KeptUpToIs DEF Keeps
  <2>. QED
    BY <1>2, <2>1, <2>2
<1>4. h <= Len(s) => BareMode(s)[h] = "code"
  BY <1>1, <1>2, BareModeFollows
<1>5. At(s, h, out, inside)
  BY <1>1, <1>2, <1>3, <1>4 DEF At
<1>6. PICK g : g = Here(s, 1)
  OBVIOUS
<1>7. g \in h..(Len(s) + 1) /\ \A p \in h..(g - 1) : InLineComment(s, p)
  BY <1>2, <1>6, HereFirst
<1>8. At(s, g, out, inside)
  BY <1>5, <1>7, SkipLine
<1>. QED
  BY <1>2, <1>6, <1>8

LEMMA AppendTwice ==
    ASSUME NEW a \in Seq(Chars), NEW c \in Chars, NEW d \in Chars
    PROVE  a \o <<c, d>> = Append(Append(a, c), d)
<1>. DEFINE x == a \o <<c, d>>
            y == Append(Append(a, c), d)
<1>1. x \in Seq(Chars) /\ y \in Seq(Chars) /\ Len(x) = Len(a) + 2 /\ Len(y) = Len(a) + 2 /\ Len(a) \in Nat
  OBVIOUS
<1>2. \A p \in 1..Len(a) : x[p] = a[p] /\ y[p] = a[p]
  OBVIOUS
<1>3. x[Len(a) + 1] = c /\ y[Len(a) + 1] = c /\ x[Len(a) + 2] = d /\ y[Len(a) + 2] = d
  OBVIOUS
<1>. HIDE DEF x, y
<1>4. \A p \in 1..Len(x) : x[p] = y[p]
  <2>1. \A p \in 1..Len(x) : p \in 1..Len(a) \/ p = Len(a) + 1 \/ p = Len(a) + 2
    BY <1>1
  <2>. QED
    BY <1>2, <1>3, <2>1
<1>5. x = y
  BY <1>1, <1>4, SeqEqual
<1>. QED
  BY <1>5 DEF x, y

LEMMA NextCode ==
    TypeInv /\ TextInv /\ CodeInv /\ [CleanSourceCode]_vars => CodeInv'
<1>. SUFFICES ASSUME TypeInv, TextInv, CodeInv, [CleanSourceCode]_vars PROVE CodeInv'
  OBVIOUS
<1>1. /\ str \in Seq(Chars) /\ result \in Seq(Chars) /\ Len(str) \in Nat /\ i \in Nat
      /\ Read(source) \in Seq(Chars)
  BY ReadType DEF TypeInv
<1>2. source' = source
  BY DEF CleanSourceCode, RemoveNonUTF8, RemoveLineComments, OpenComment, CloseComment, SkipComment, CopyCode,
         EndBlockComments, RemoveEmptyLine, ProcessCharacter, EndCleaning, Step, vars
<1>. SUFFICES ASSUME BareNoLineInBlock(Read(source))
              PROVE  /\ pass' = "block" => At(Read(source), Here(Read(source), i'), result', insideComment')
                     /\ pass' \in {"empty", "ends", "cleaned"} => Inline(str') = Inline(BareCode(Read(source)))
                     /\ pass' = "ends" => Inline(result') = Inline(SubSeq(str', 1, i' - 1))
  BY <1>2 DEF CodeInv
<1>. DEFINE s == Read(source)
<1>3. CASE RemoveNonUTF8
  BY <1>3 DEF RemoveNonUTF8
<1>4. CASE RemoveLineComments
  <2>1. pass' = "block" /\ i' = 1 /\ ~insideComment' /\ result' = <<>>
    BY <1>4 DEF RemoveLineComments
  <2>2. PICK inside : inside = insideComment'
    OBVIOUS
  <2>3. ~inside
    BY <2>1, <2>2
  <2>4. At(s, Here(s, 1), <<>>, inside)
    BY <1>1, <2>3, BlockBegins
  <2>. QED
    BY <2>1, <2>2, <2>4
<1>5. ASSUME pass = "block", i <= Len(str) PROVE Reads(s, str, i, result, insideComment)
  <2>1. str = WithoutLineComments(s) /\ i \in 1..Len(str)
    BY <1>1, <1>5 DEF TextInv, TypeInv
  <2>2. At(s, Here(s, i), result, insideComment)
    BY <1>5 DEF CodeInv
  <2>. QED
    BY <1>1, <2>1, <2>2 DEF Reads
<1>. HIDE DEF s
<1>6. CASE OpenComment
  <2>1. /\ pass = "block" /\ i <= Len(str) /\ ~insideComment /\ Begins(str, i, "/", "*")
        /\ pass' = "block" /\ insideComment' /\ i' = i + 2 /\ result' = result
    BY <1>1, <1>6 DEF OpenComment, Step, Is, Begins
  <2>2. PICK l, after : l = i' /\ after = insideComment'
    OBVIOUS
  <2>3. Yes(after) /\ l = i + 2
    BY <2>1, <2>2 DEF Yes
  <2>4. At(s, Here(s, l), result, after)
    BY <1>5, <2>1, <2>3, OpenReads
  <2>. QED
    BY <2>1, <2>2, <2>4 DEF s
<1>7. CASE CloseComment
  <2>1. /\ pass = "block" /\ i <= Len(str) /\ Yes(insideComment) /\ Begins(str, i, "*", "/")
        /\ pass' = "block" /\ ~insideComment' /\ i' = i + 2 /\ result' = result
    BY <1>1, <1>7 DEF CloseComment, Step, Is, Begins, Yes
  <2>2. PICK l, after : l = i' /\ after = insideComment'
    OBVIOUS
  <2>3. ~after /\ l = i + 2
    BY <2>1, <2>2
  <2>4. At(s, Here(s, l), result, after)
    BY <1>5, <2>1, <2>3, CloseReads
  <2>. QED
    BY <2>1, <2>2, <2>4 DEF s
<1>8. CASE SkipComment
  <2>1. /\ pass = "block" /\ i <= Len(str) /\ Yes(insideComment) /\ ~Begins(str, i, "*", "/")
        /\ pass' = "block" /\ insideComment' = insideComment /\ i' = i + 1 /\ result' = result
    BY <1>1, <1>8 DEF SkipComment, Step, Is, Begins, Yes
  <2>2. PICK l : l = i'
    OBVIOUS
  <2>3. At(s, Here(s, l), result, insideComment)
    BY <1>5, <2>1, <2>2, SkipReads
  <2>. QED
    BY <2>1, <2>2, <2>3 DEF s
<1>9. CASE CopyCode
  <2>1. /\ pass = "block" /\ i <= Len(str) /\ ~insideComment /\ ~Begins(str, i, "/", "*")
        /\ pass' = "block" /\ insideComment' = insideComment /\ i' = i + 1 /\ result' = Append(result, str[i])
    BY <1>1, <1>9 DEF CopyCode, Step, Is, Begins
  <2>2. PICK l : l = i'
    OBVIOUS
  <2>3. At(s, Here(s, l), Append(result, str[i]), insideComment)
    BY <1>1, <1>5, <2>1, <2>2, CopyReads
  <2>. QED
    BY <2>1, <2>2, <2>3 DEF s
<1>10. CASE EndBlockComments
  <2>1. pass = "block" /\ str' = result /\ pass' = "empty" /\ i > Len(str)
    BY <1>1, <1>10, NoCut DEF EndBlockComments, NeverCuts
  <2>2. str = WithoutLineComments(s) /\ At(s, Here(s, i), result, insideComment)
    BY <2>1 DEF TextInv, CodeInv, s
  <2>3. Here(s, i) = Len(s) + 1
    BY <1>1, <2>1, <2>2 DEF Here
  <2>4. Inline(result) = KeptUpTo(s)[(Len(s) + 1) - 1]
    BY <2>2, <2>3 DEF At
  <2>5. s \in Seq(Chars) /\ (Len(s) + 1) - 1 = Len(s)
    BY <1>1 DEF s
  <2>6. Inline(result) = Inline(BareCode(s))
    BY <2>4, <2>5, InlineCode
  <2>. QED
    BY <2>1, <2>6 DEF s
<1>11. CASE RemoveEmptyLine
  <2>1. {p \in 1..Len(str) : ~(Is(p, "nl") /\ Is(p - 1, "nl"))} = NotAgain(str)
    <3>. HIDE <1>1
    <3>. QED
      BY DEF Is, NotAgain
  <2>2. pass = "empty" /\ str' = Keep(str, NotAgain(str)) /\ pass' = "ends" /\ i' = 1 /\ result' = <<>>
    BY <1>11, <2>1 DEF RemoveEmptyLine
  <2>3. Inline(str') = Inline(str)
    BY <1>1, <2>2, EmptyLinesHoldNoCode
  <2>4. SubSeq(str', 1, 1 - 1) = <<>>
    <3>1. SubSeq(str', 1, 0) = <<>> /\ 1 - 1 = 0
      BY SubSeqEmpty
    <3>. QED
      BY <3>1
  <2>. QED
    BY <2>2, <2>3, <2>4 DEF CodeInv, s
<1>12. CASE ProcessCharacter
  <2>1. pass = "ends" /\ i \in 1..Len(str) /\ pass' = "ends" /\ str' = str /\ i' = i + 1
    BY <1>1, <1>12 DEF ProcessCharacter, TypeInv
  <2>2. SubSeq(str, 1, i - 1) \in Seq(Chars) /\ SubSeq(str, 1, i) = Append(SubSeq(str, 1, i - 1), str[i]) /\ str[i] \in Chars
    <3>1. PICK n \in 0..(Len(str) - 1) : i = n + 1
      <4>1. i - 1 \in 0..(Len(str) - 1) /\ i = (i - 1) + 1
        BY <1>1, <2>1
      <4>. QED
        BY <4>1
    <3>2. SubSeq(str, 1, n) \in Seq(Chars) /\ SubSeq(str, 1, n + 1) = Append(SubSeq(str, 1, n), str[n + 1])
      BY <1>1, <3>1
    <3>3. i - 1 = n
      BY <3>1
    <3>. QED
      BY <1>1, <2>1, <3>1, <3>2, <3>3
  <2>3. PICK a \in Seq(Chars), c \in Chars : a = SubSeq(str, 1, i - 1) /\ c = str[i]
    BY <2>2
  <2>4. Inline(result) = Inline(a)
    BY <2>1, <2>3 DEF CodeInv
  <2>5. Inline(Append(result, c)) = Inline(Append(a, c))
    <3>1. CASE c = "nl"
      <4>1. Inline(Append(result, c)) = Inline(result) /\ Inline(Append(a, c)) = Inline(a)
        BY <1>1, <3>1, InlineAppend
      <4>. QED
        BY <2>4, <4>1
    <3>2. CASE c # "nl"
      <4>1. Inline(Append(result, c)) = Append(Inline(result), c) /\ Inline(Append(a, c)) = Append(Inline(a), c)
        BY <1>1, <3>2, InlineAppend
      <4>. QED
        BY <2>4, <4>1
    <3>. QED
      BY <3>1, <3>2
  <2>6. Inline(result') = Inline(Append(result, c))
    <3>1. CASE result' = Append(result, c)
      BY <3>1
    <3>2. CASE result' = result \o <<c, "nl">>
      <4>1. PICK b \in Seq(Chars) : b = Append(result, c)
        <5>1. Append(result, c) \in Seq(Chars)
          BY <1>1
        <5>. QED
          BY <5>1, Zenon
      <4>2. result' = Append(b, "nl")
        <5>1. PICK r \in Seq(Chars), d \in Chars : r = result /\ d = "nl"
          BY <1>1, NewlineIsChar
        <5>2. r \o <<c, d>> = Append(Append(r, c), d)
          BY AppendTwice
        <5>. QED
          BY <3>2, <4>1, <5>1, <5>2
      <4>3. Inline(Append(b, "nl")) = Inline(b)
        BY NewlineIsChar, InlineAppend
      <4>. QED
        BY <4>1, <4>2, <4>3
    <3>3. result' = Append(result, c) \/ result' = result \o <<c, "nl">>
      BY <1>12, <2>3 DEF ProcessCharacter
    <3>. QED
      BY <3>1, <3>2, <3>3
  <2>7. i' - 1 = i
    BY <1>1, <2>1
  <2>8. Inline(result') = Inline(SubSeq(str', 1, i' - 1))
    BY <2>1, <2>2, <2>3, <2>5, <2>6, <2>7
  <2>. QED
    BY <2>1, <2>8 DEF CodeInv, s
<1>13. CASE EndCleaning
  <2>1. pass = "ends" /\ i = Len(str) + 1 /\ str' = result /\ pass' = "cleaned"
    BY <1>1, <1>13 DEF EndCleaning, TypeInv
  <2>2. SubSeq(str, 1, i - 1) = str
    <3>1. i - 1 = Len(str)
      BY <1>1, <2>1
    <3>. QED
      BY <1>1, <3>1, SubSeqFull
  <2>. QED
    BY <2>1, <2>2 DEF CodeInv, s
<1>14. CASE UNCHANGED vars
  BY <1>14 DEF vars, CodeInv, s
<1>. QED
  BY <1>3, <1>4, <1>6, <1>7, <1>8, <1>9, <1>10, <1>11, <1>12, <1>13, <1>14 DEF CleanSourceCode, s

-----------------------------------------------------------------------------
(* Literals without comment marks change nothing *)

AllModes == Modes \cup {"string"}

LEMMA NextModeType == \A s, p, mode : NextMode(s, p, mode) \in AllModes
<1>. QED
  BY DEF NextMode, Modes, AllModes

LEMMA ModeFollows ==
    ASSUME NEW s \in Seq(Chars)
    PROVE  /\ Len(s) > 0 => Mode(s)[1] = "code"
           /\ \A p \in 1..(Len(s) - 1) : Mode(s)[p + 1] = NextMode(s, p, Mode(s)[p])
           /\ \A p \in 1..Len(s) : Mode(s)[p] \in AllModes
<1>. DEFINE h == [n \in 1..Len(s) |-> [m \in AllModes |-> NextMode(s, n, m)]]
            IsIt(g) == g = [p \in 1..Len(s) |-> IF p = 1 THEN "code" ELSE NextMode(s, p - 1, g[p - 1])]
<1>1. Len(s) \in Nat
  OBVIOUS
<1>2. "code" \in AllModes
  BY DEF Modes, AllModes
<1>3. h \in Steps(Len(s), AllModes)
  BY NextModeType DEF Steps
<1>4. PICK f : Follows(f, Len(s), AllModes, "code", h)
  <2>. HIDE DEF h
  <2>. QED
    BY <1>1, <1>2, <1>3, Recursion
<1>5. f[0] = "code" /\ \A n \in 0..Len(s) : f[n] \in AllModes
  BY <1>4 DEF Follows
<1>6. ASSUME NEW n \in 1..Len(s) PROVE f[n] = NextMode(s, n, f[n - 1])
  <2>1. f[n] = h[n][f[n - 1]] /\ n - 1 \in 0..Len(s)
    BY <1>1, <1>4 DEF Follows
  <2>2. f[n - 1] \in AllModes
    BY <1>5, <2>1
  <2>. QED
    BY <2>1, <2>2
<1>. HIDE DEF h
<1>. DEFINE g == [p \in 1..Len(s) |-> f[p - 1]]
<1>7. IsIt(g)
  <2>1. ASSUME NEW p \in 1..Len(s) PROVE g[p] = IF p = 1 THEN "code" ELSE NextMode(s, p - 1, g[p - 1])
    <3>1. CASE p = 1
      BY <1>5, <3>1
    <3>2. CASE p # 1
      <4>1. PICK n \in 1..Len(s) : n = p - 1
        BY <1>1, <3>2
      <4>2. f[n] = NextMode(s, n, f[n - 1])
        BY <1>6
      <4>. QED
        BY <3>2, <4>1, <4>2
    <3>. QED
      BY <3>1, <3>2
  <2>. QED
    BY <2>1
<1>8. IsIt(CHOOSE k : IsIt(k))
  <2>. HIDE DEF IsIt
  <2>. QED
    BY <1>7
<1>. DEFINE k == CHOOSE k : IsIt(k)
<1>9. Mode(s) = k
  BY DEF Mode
<1>10. \A p \in 1..Len(s) : k[p] = IF p = 1 THEN "code" ELSE NextMode(s, p - 1, k[p - 1])
  <2>. HIDE DEF k
  <2>. QED
    BY <1>8 DEF k
<1>. HIDE DEF k
<1>11. Len(s) > 0 => k[1] = "code"
  BY <1>1, <1>10
<1>12. ASSUME NEW p \in 1..(Len(s) - 1) PROVE k[p + 1] = NextMode(s, p, k[p])
  <2>1. PICK q \in 1..Len(s) : q = p + 1
    BY <1>1
  <2>2. q - 1 = p /\ q # 1
    BY <2>1
  <2>3. k[q] = NextMode(s, q - 1, k[q - 1])
    BY <1>10, <2>2
  <2>. QED
    BY <2>1, <2>2, <2>3
<1>13. ASSUME NEW p \in 1..Len(s) PROVE k[p] \in AllModes
  <2>1. k[p] = "code" \/ k[p] = NextMode(s, p - 1, k[p - 1])
    BY <1>10
  <2>. QED
    BY <1>2, <2>1, NextModeType
<1>. QED
  BY <1>9, <1>11, <1>12, <1>13

\* What is read as a literal is read as code by one who knows no literals.
LEMMA ModesAgree ==
    ASSUME NEW s \in Seq(Chars), NoCommentInString(s)
    PROVE  \A p \in 1..Len(s) : BareMode(s)[p] = IF Mode(s)[p] = "string" THEN "code" ELSE Mode(s)[p]
<1>. DEFINE Agree(p) == BareMode(s)[p] = IF Mode(s)[p] = "string" THEN "code" ELSE Mode(s)[p]
            T == {n \in 0..Len(s) : n = 0 \/ Agree(n)}
<1>1. Len(s) \in Nat
  OBVIOUS
<1>2. 0 \in T
  BY <1>1
<1>3. ASSUME NEW n \in 0..(Len(s) - 1), n \in T PROVE n + 1 \in T
  <2>1. PICK p \in 1..Len(s) : p = n + 1
    BY <1>1
  <2>2. CASE n = 0
    BY <1>1, <2>1, <2>2, ModeFollows, BareModeFollows
  <2>3. CASE n # 0
    <3>1. n \in 1..(Len(s) - 1) /\ n \in 1..Len(s) /\ Agree(n)
      BY <1>1, <1>3, <2>3
    <3>2. Mode(s)[p] = NextMode(s, n, Mode(s)[n]) /\ Mode(s)[n] \in AllModes
      BY <2>1, <3>1, ModeFollows
    <3>3. BareMode(s)[p] = BareNextMode(s, n, BareMode(s)[n])
      BY <2>1, <3>1, BareModeFollows
    <3>4. Mode(s)[n] = "string" => ~Pair(s, n, "/", "/") /\ ~Pair(s, n, "/", "*")
      BY <3>1 DEF NoCommentInString
    <3>5. CASE Mode(s)[n] = "string"
      <4>1. BareMode(s)[n] = "code"
        BY <3>1, <3>5
      <4>2. BareMode(s)[p] = "code"
        BY <3>3, <3>4, <3>5, <4>1 DEF BareNextMode
      <4>3. Mode(s)[p] \in {"code", "string"}
        BY <3>2, <3>5 DEF NextMode
      <4>. QED
        BY <2>1, <4>2, <4>3
    <3>6. CASE Mode(s)[n] = "code"
      <4>1. BareMode(s)[n] = "code"
        BY <3>1, <3>6
      <4>2. Mode(s)[p] = IF Pair(s, n, "/", "*") THEN "open" ELSE IF Pair(s, n, "/", "/") THEN "line"
                         ELSE IF s[n] = "quote" THEN "string" ELSE "code"
        BY <3>2, <3>6 DEF NextMode
      <4>3. BareMode(s)[p] = IF Pair(s, n, "/", "*") THEN "open" ELSE IF Pair(s, n, "/", "/") THEN "line" ELSE "code"
        BY <3>3, <4>1 DEF BareNextMode
      <4>. QED
        BY <2>1, <4>2, <4>3
    <3>7. CASE Mode(s)[n] \notin {"string", "code"}
      <4>1. BareMode(s)[n] = Mode(s)[n]
        BY <3>1, <3>7
      <4>2. Mode(s)[p] = BareMode(s)[p] /\ Mode(s)[p] # "string"
        BY <3>2, <3>3, <3>7, <4>1 DEF NextMode, BareNextMode
      <4>. QED
        BY <2>1, <4>2
    <3>. QED
      BY <3>5, <3>6, <3>7
  <2>. QED
    BY <2>2, <2>3
<1>4. \A n \in 0..Len(s) : n \in T
  <2>. HIDE DEF T
  <2>. QED
    BY <1>1, <1>2, <1>3, UpTo
<1>. QED
  BY <1>4

LEMMA CodeAgrees ==
    ASSUME NEW s \in Seq(Chars), NoCommentInString(s)
    PROVE  /\ Code(s) = BareCode(s)
           /\ NoLineInBlock(s) => BareNoLineInBlock(s)
<1>1. \A p \in 1..Len(s) : BareMode(s)[p] = IF Mode(s)[p] = "string" THEN "code" ELSE Mode(s)[p]
  BY ModesAgree
<1>2. ASSUME NEW p \in 1..Len(s)
      PROVE  (\/ Mode(s)[p] = "line" /\ s[p] = "nl"
              \/ Mode(s)[p] = "code" /\ NextMode(s, p, "code") \in {"code", "string"}
              \/ Mode(s)[p] = "string")
             <=> (\/ BareMode(s)[p] = "line" /\ s[p] = "nl"
                  \/ BareMode(s)[p] = "code" /\ BareNextMode(s, p, "code") = "code")
  <2>1. NextMode(s, p, "code") \in {"code", "string"} <=> ~Pair(s, p, "/", "*") /\ ~Pair(s, p, "/", "/")
    BY DEF NextMode
  <2>2. BareNextMode(s, p, "code") = "code" <=> ~Pair(s, p, "/", "*") /\ ~Pair(s, p, "/", "/")
    BY DEF BareNextMode
  <2>3. Mode(s)[p] = "string" => ~Pair(s, p, "/", "*") /\ ~Pair(s, p, "/", "/")
    BY DEF NoCommentInString
  <2>. QED
    BY <1>1, <2>1, <2>2, <2>3
<1>3. {p \in 1..Len(s) : \/ Mode(s)[p] = "line" /\ s[p] = "nl"
                         \/ Mode(s)[p] = "code" /\ NextMode(s, p, "code") \in {"code", "string"}
                         \/ Mode(s)[p] = "string"}
      = {p \in 1..Len(s) : \/ BareMode(s)[p] = "line" /\ s[p] = "nl"
                           \/ BareMode(s)[p] = "code" /\ BareNextMode(s, p, "code") = "code"}
  BY <1>2
<1>4. Code(s) = BareCode(s)
  BY <1>3, Zenon DEF Code, BareCode
<1>5. NoLineInBlock(s) => BareNoLineInBlock(s)
  BY <1>1 DEF NoLineInBlock, BareNoLineInBlock
<1>. QED
  BY <1>4, <1>5

\* The passes drop what Solidity reads as comments and nothing else, from a source of any
\* length in which no "//" stands in a block comment and no "//" or "/*" in a string
\* literal (compiler.h:63, string_utils.h:35 and 108).
THEOREM CodeKeptHolds == Spec => []CodeKept
<1>. DEFINE I == TypeInv /\ TextInv /\ CodeInv
<1>1. Init => I
  BY InitTypes DEF Init, CodeInv
<1>2. I /\ [CleanSourceCode]_vars => I'
  BY NextTypes, NextText, NextCode
<1>3. I => CodeKept
  <2>. SUFFICES ASSUME TypeInv, CodeInv, Cleaned, NoLineInBlock(Read(source)), NoCommentInString(Read(source))
                PROVE  Inline(str) = Inline(Code(Read(source)))
    BY DEF CodeKept
  <2>1. Read(source) \in Seq(Chars)
    BY ReadType DEF TypeInv
  <2>2. PICK s \in Seq(Chars) : s = Read(source)
    BY <2>1
  <2>3. Code(s) = BareCode(s) /\ BareNoLineInBlock(s)
    BY <2>2, CodeAgrees
  <2>. QED
    BY <2>2, <2>3 DEF CodeInv, Cleaned
<1>. QED
  BY <1>1, <1>2, <1>3, PTL DEF Spec

=============================================================================
