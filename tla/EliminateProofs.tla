--------------------------- MODULE EliminateProofs ---------------------------
(***************************************************************************)
(* Eliminate keeps exactly the lines it should, for code of any length.    *)
(***************************************************************************)
EXTENDS Eliminate, TLAPS, FiniteSetTheorems, SequenceTheorems, WellFoundedInduction

\* What has been marked when the scan is at line x.
Marked(x) ==
    {n \in Holding : n < x} \cup {b \in Lines : \E a \in Holding : a < x /\ Opens(a) /\ Closer(a, b)}

TypeInv ==
    /\ TypeOK
    /\ i <= Len(line_part) + 1 /\ j <= Len(line_part) + 1
    /\ phase = "begin" => i = 1 /\ need = {}
    /\ phase = "match" => i \in Lines /\ st > 0

ScanInv ==
    /\ phase = "scan" => need = Marked(i)
    /\ phase = "match" =>
          /\ i \in Holding /\ Opens(i) /\ j > i
          /\ need = Marked(i) \cup {i}
          /\ st = Depth(i, j - 1)
          /\ \A c \in i..(j - 1) : Depth(i, c) > 0
    /\ SliceIsWanted

LEMMA InitTypeInv == Init => TypeInv
<1> SUFFICES ASSUME Init PROVE TypeInv
  OBVIOUS
<1>1. PICK n \in 0..MaxLines : line_part \in [1..n -> Line]
  BY Zenon DEF Init
<1>2. line_part \in Seq(Line) /\ Len(line_part) = n
  BY <1>1
<1> QED
  BY <1>2, MaxLinesAssumption DEF Init, TypeInv, TypeOK, Lines, Phases

LEMMA NextTypeInv == TypeInv /\ [Next]_vars => TypeInv'
<1> SUFFICES ASSUME TypeInv, [Next]_vars PROVE TypeInv'
  OBVIOUS
<1> USE MaxLinesAssumption DEF TypeInv, TypeOK, Lines, Phases
<1>1. CASE Begin
  BY <1>1 DEF Begin
<1>2. CASE PassLine
  BY <1>2 DEF PassLine
<1>3. CASE MarkLine
  BY <1>3 DEF MarkLine, FirstAfter
<1>4. CASE MatchLine
  <2>1. st' = st + Delta(j) /\ Delta(j) \in {-1, 0, 1} /\ j \in Lines /\ i \in Lines
    BY <1>4 DEF MatchLine, Delta
  <2>2. st' \in Nat /\ phase = "match" /\ line_part' = line_part /\ detects' = detects /\ code' = code
    BY <1>4, <2>1 DEF MatchLine
  <2>3. \/ phase' = "scan" /\ need' = need \cup {j} /\ i' = i + 1 /\ j' = j
        \/ phase' = "match" /\ need' = need /\ i' = i /\ j' = j + 1 /\ st' # 0
    BY <1>4 DEF MatchLine
  <2>4. Len(line_part) \in 0..MaxLines
    BY LenProperties
  <2>5. CASE phase' = "scan" /\ need' = need \cup {j} /\ i' = i + 1 /\ j' = j
    BY <2>1, <2>2, <2>4, <2>5
  <2>6. CASE phase' = "match" /\ need' = need /\ i' = i /\ j' = j + 1 /\ st' # 0
    BY <2>1, <2>2, <2>4, <2>6
  <2> QED
    BY <2>3, <2>5, <2>6
<1>5. CASE MatchEnds
  BY <1>5 DEF MatchEnds
<1>6. CASE Rebuild
  BY <1>6 DEF Rebuild
<1>7. CASE UNCHANGED vars
  BY <1>7 DEF vars
<1> QED
  BY <1>1, <1>2, <1>3, <1>4, <1>5, <1>6, <1>7 DEF Next

\* The loop variables stay within the lines and the depth never goes negative.
THEOREM EliminateTypeCorrect == Spec => []TypeOK
<1>1. TypeInv => TypeOK
  BY DEF TypeInv
<1> QED
  BY <1>1, InitTypeInv, NextTypeInv, PTL DEF Spec

-----------------------------------------------------------------------------
(* Depth.                                                                  *)

\* No lines, no change of depth.
LEMMA DepthAtOpener == \A a \in Nat : Depth(a, a) = 1
<1> SUFFICES ASSUME NEW a \in Nat PROVE Depth(a, a) = 1
  OBVIOUS
<1>1. {n \in (a + 1)..a : Opens(n)} = {} /\ {n \in (a + 1)..a : Closes(n)} = {}
  OBVIOUS
<1> QED
  BY <1>1, FS_EmptySet DEF Depth

\* The depth is an integer and each line adds its own.
LEMMA DepthStep ==
    ASSUME NEW a \in Nat, NEW b \in Nat, b > a
    PROVE  Depth(a, b) \in Int /\ Depth(a, b - 1) \in Int /\ Depth(a, b) = Depth(a, b - 1) + Delta(b)
<1> DEFINE O(c) == {n \in (a + 1)..c : Opens(n)}
           C(c) == {n \in (a + 1)..c : Closes(n)}
<1>1. IsFiniteSet(O(b - 1)) /\ IsFiniteSet(C(b - 1))
  <2>1. IsFiniteSet((a + 1)..(b - 1))
    BY FS_Interval
  <2>2. O(b - 1) \subseteq (a + 1)..(b - 1) /\ C(b - 1) \subseteq (a + 1)..(b - 1)
    OBVIOUS
  <2> HIDE DEF O, C
  <2> QED
    BY <2>1, <2>2, FS_Subset
<1>2. Cardinality(O(b - 1)) \in Nat /\ Cardinality(C(b - 1)) \in Nat
  BY <1>1, FS_CardinalityType
<1>3. b \notin O(b - 1) /\ b \notin C(b - 1)
  OBVIOUS
<1>4. \A n : n \in (a + 1)..b <=> n \in (a + 1)..(b - 1) \/ n = b
  OBVIOUS
<1>5. /\ O(b) = (IF Opens(b) THEN O(b - 1) \cup {b} ELSE O(b - 1))
      /\ C(b) = (IF Closes(b) THEN C(b - 1) \cup {b} ELSE C(b - 1))
  <2> HIDE DEF Opens, Closes
  <2> QED
    BY <1>4
<1> HIDE DEF O, C
<1>6. Cardinality(O(b)) = Cardinality(O(b - 1)) + (IF Opens(b) THEN 1 ELSE 0)
  <2> HIDE DEF Opens
  <2>1. Cardinality(O(b - 1) \cup {b}) = Cardinality(O(b - 1)) + 1
    BY <1>1, <1>3, FS_AddElement
  <2> QED
    BY <1>2, <1>5, <2>1
<1>7. Cardinality(C(b)) = Cardinality(C(b - 1)) + (IF Closes(b) THEN 1 ELSE 0)
  <2> HIDE DEF Closes
  <2>1. Cardinality(C(b - 1) \cup {b}) = Cardinality(C(b - 1)) + 1
    BY <1>1, <1>3, FS_AddElement
  <2> QED
    BY <1>2, <1>5, <2>1
<1>8. ~(Opens(b) /\ Closes(b))
  BY DEF Opens, Closes
<1>9. Depth(a, b) = 1 + Cardinality(O(b)) - Cardinality(C(b))
  BY DEF Depth, O, C
<1>10. Depth(a, b - 1) = 1 + Cardinality(O(b - 1)) - Cardinality(C(b - 1))
  BY DEF Depth, O, C
<1> QED
  BY <1>2, <1>6, <1>7, <1>8, <1>9, <1>10 DEF Delta

-----------------------------------------------------------------------------
(* The scan.                                                               *)

\* A line that closes a block opens none.
LEMMA CloserCloses ==
    ASSUME NEW a \in Nat, NEW b \in Nat, Closer(a, b)
    PROVE  ~Opens(b)
<1>1. Depth(a, b) = Depth(a, b - 1) + Delta(b) /\ Depth(a, b) = 0 /\ Depth(a, b - 1) \in Int
  BY DepthStep DEF Closer
<1>2. Depth(a, b - 1) > 0
  BY DEF Closer
<1>3. Opens(b) => Delta(b) = 1
  BY DEF Delta
<1> QED
  BY <1>1, <1>2, <1>3

\* A block has one closing line.
LEMMA CloserUnique ==
    ASSUME NEW a \in Nat, NEW b \in Nat, NEW c \in Nat, Closer(a, b), Closer(a, c)
    PROVE  b = c
<1>1. CASE b < c
  BY <1>1 DEF Closer
<1>2. CASE c < b
  BY <1>2 DEF Closer
<1> QED
  BY <1>1, <1>2

\* Moving the scan over line x.
LEMMA MarkedStep ==
    ASSUME NEW x \in Lines
    PROVE  Marked(x + 1) = Marked(x) \cup (IF x \in Holding THEN {x} ELSE {})
                              \cup {b \in Lines : x \in Holding /\ Opens(x) /\ Closer(x, b)}
<1> HIDE DEF Opens, Closer, Holding
<1>1. \A n \in Holding : n < x + 1 <=> n < x \/ n = x
  BY DEF Holding, Lines
<1> QED
  BY <1>1 DEF Marked

LEMMA NextScanInv == TypeInv /\ ScanInv /\ [Next]_vars => ScanInv'
<1> SUFFICES ASSUME TypeInv, ScanInv, [Next]_vars PROVE ScanInv'
  OBVIOUS
<1>0. line_part' = line_part /\ detects' = detects
  BY DEF Next, Begin, PassLine, MarkLine, MatchLine, MatchEnds, Rebuild, vars
<1>0a. \A x : Marked(x)' = Marked(x)
  BY <1>0 DEF Marked, Holding, Lines, Opens, Closer, Depth, Closes
<1>0b. \A a, b : Depth(a, b)' = Depth(a, b)
  BY <1>0 DEF Depth, Opens, Closes
<1>0c. Wanted' = Wanted /\ Holding' = Holding /\ Lines' = Lines /\ (\A x : Opens(x)' = Opens(x))
  BY <1>0 DEF Wanted, Holding, Lines, Opens, Closer, Depth, Closes
<1>0d. Holding \subseteq Lines /\ Lines \subseteq Nat /\ i \in Nat /\ j \in Nat
  BY DEF Holding, Lines, TypeInv, TypeOK
<1>1. CASE Begin
  <2>1. i = 1 /\ need = {} /\ i' = i /\ need' = need
    BY <1>1 DEF Begin, TypeInv
  <2>2. Marked(1) = {}
    BY <1>0d DEF Marked, Lines, Holding
  <2> QED
    BY <1>0, <1>0a, <1>1, <2>1, <2>2 DEF Begin, ScanInv, SliceIsWanted
<1>2. CASE PassLine
  <2>1. need = Marked(i) /\ i \in Lines /\ (i \in need \/ i \notin Holding)
    BY <1>2 DEF PassLine, ScanInv, Holding
  <2>2. i \in Holding => ~Opens(i)
    <3> SUFFICES ASSUME i \in Holding PROVE ~Opens(i)
      OBVIOUS
    <3>1. PICK a \in Holding : Closer(a, i)
      BY <1>0d, <2>1 DEF Marked
    <3> QED
      BY <1>0d, <3>1, CloserCloses
  <2>3. Marked(i + 1) = Marked(i)
    BY <2>1, <2>2, MarkedStep
  <2> QED
    BY <1>0, <1>0a, <1>2, <2>1, <2>3 DEF PassLine, ScanInv, SliceIsWanted
<1>3. CASE MarkLine
  <2>1. need = Marked(i) /\ i \in Lines /\ i \in Holding
    BY <1>3 DEF MarkLine, ScanInv, Holding
  <2>2. CASE Opens(i)
    <3>1. phase' = "match" /\ j' = i + 1 /\ st' = 1 /\ i' = i /\ need' = need \cup {i}
      BY <1>3, <2>2 DEF MarkLine, FirstAfter
    <3>2. j' - 1 = i /\ Depth(i, i) = 1
      BY <1>0d, <3>1, DepthAtOpener
    <3>3. \A c \in i..(j' - 1) : Depth(i, c) > 0
      BY <1>0d, <3>2
    <3> QED
      BY <1>0a, <1>0b, <1>0c, <1>0d, <2>1, <2>2, <3>1, <3>2, <3>3 DEF ScanInv, SliceIsWanted
  <2>3. CASE ~Opens(i)
    <3>1. phase' = "scan" /\ i' = i + 1 /\ need' = need \cup {i}
      BY <1>3, <2>3 DEF MarkLine
    <3>2. Marked(i + 1) = Marked(i) \cup {i}
      BY <2>1, <2>3, MarkedStep
    <3> QED
      BY <1>0a, <2>1, <3>1, <3>2 DEF ScanInv, SliceIsWanted
  <2> QED
    BY <2>2, <2>3
<1>4. CASE MatchLine
  <2>1. /\ i \in Holding /\ Opens(i) /\ j > i /\ j \in Lines /\ need = Marked(i) \cup {i}
        /\ st = Depth(i, j - 1) /\ st > 0 /\ \A c \in i..(j - 1) : Depth(i, c) > 0
    BY <1>4 DEF MatchLine, ScanInv, TypeInv
  <2>2. st' = Depth(i, j) /\ Depth(i, j) \in Int /\ Delta(j) \in {-1, 0, 1}
    BY <1>0d, <1>4, <2>1, DepthStep DEF MatchLine, Delta
  <2>3. CASE st' = 0
    <3>1. Closer(i, j)
      BY <2>1, <2>2, <2>3 DEF Closer
    <3>2. {b \in Lines : Closer(i, b)} = {j}
      BY <1>0d, <2>1, <3>1, CloserUnique
    <3>3. Marked(i + 1) = Marked(i) \cup {i} \cup {j}
      BY <1>0d, <2>1, <3>2, MarkedStep
    <3>4. phase' = "scan" /\ i' = i + 1 /\ need' = need \cup {j}
      BY <1>4, <2>3 DEF MatchLine
    <3> QED
      BY <1>0a, <2>1, <3>3, <3>4 DEF ScanInv, SliceIsWanted
  <2>4. CASE st' # 0
    <3>1. phase' = "match" /\ i' = i /\ j' = j + 1 /\ need' = need
      BY <1>4, <2>4 DEF MatchLine
    <3>2. st \in Nat /\ Depth(i, j) > 0
      BY <1>4, <2>1, <2>2, <2>4 DEF TypeInv, TypeOK, MatchLine
    <3>3. \A c \in i..j : Depth(i, c) > 0
      BY <1>0d, <2>1, <3>2
    <3>4. j' - 1 = j
      BY <1>0d, <3>1
    <3> QED
      BY <1>0a, <1>0b, <1>0c, <1>0d, <2>1, <2>2, <3>1, <3>3, <3>4 DEF ScanInv, SliceIsWanted
  <2> QED
    BY <2>3, <2>4
<1>5. CASE MatchEnds
  <2>1. /\ i \in Holding /\ Opens(i) /\ j = Len(line_part) + 1 /\ need = Marked(i) \cup {i}
        /\ \A c \in i..(j - 1) : Depth(i, c) > 0
    BY <1>0d, <1>5 DEF MatchEnds, ScanInv, TypeInv, TypeOK, Lines
  <2>2. \A b \in Lines : ~Closer(i, b)
    BY <1>0d, <2>1 DEF Closer, Lines
  <2>3. Marked(i + 1) = Marked(i) \cup {i}
    BY <1>0d, <2>1, <2>2, MarkedStep
  <2> QED
    BY <1>0a, <1>5, <2>1, <2>3 DEF MatchEnds, ScanInv, SliceIsWanted
<1>6. CASE Rebuild
  <2>1. need = Marked(i) /\ i = Len(line_part) + 1
    BY <1>0d, <1>6 DEF Rebuild, ScanInv, TypeInv, TypeOK, Lines
  <2>2. \A a \in Holding : a < i
    BY <2>1 DEF Holding, Lines, TypeInv, TypeOK
  <2>3. Marked(i) = Wanted
    BY <2>2 DEF Marked, Wanted
  <2> QED
    BY <1>0c, <1>6, <2>1, <2>3 DEF Rebuild, ScanInv, SliceIsWanted
<1>7. CASE UNCHANGED vars
  BY <1>0a, <1>0b, <1>0c, <1>7 DEF vars, ScanInv, SliceIsWanted
<1> QED
  BY <1>1, <1>2, <1>3, <1>4, <1>5, <1>6, <1>7 DEF Next

\* The slice is the lines holding a token and the lines closing their blocks.
THEOREM SliceIsWantedHolds == Spec => []SliceIsWanted
<1>1. Init => ScanInv
  BY DEF Init, ScanInv, SliceIsWanted
<1>2. ScanInv => SliceIsWanted
  BY DEF ScanInv
<1> QED
  BY <1>1, <1>2, InitTypeInv, NextTypeInv, NextScanInv, PTL DEF Spec

-----------------------------------------------------------------------------
(* Nesting.  In nested code the openers of the slice and its closers are   *)
(* matched one to one, each opener before its closer.                      *)

Up(S) == {n \in S : Opens(n)}
Down(S) == {n \in S : Closes(n)}

\* A set of line numbers has a first.
LEMMA FirstLine ==
    ASSUME NEW T \in SUBSET Nat, T # {}
    PROVE  \E x \in T : \A y \in T : x <= y
<1> DEFINE Less == {ss \in Nat \X Nat : ss[1] < ss[2]}
<1>1. IsWellFoundedOn(Less, Nat)
  BY NatLessThanWellFounded DEF OpToRel
<1>2. \A a, b \in Nat : a < b => <<a, b>> \in Less
  OBVIOUS
<1> HIDE DEF Less
<1>3. PICK x \in T : \A y \in T : ~(<<y, x>> \in Less)
  BY <1>1, WFMin
<1>4. ASSUME NEW y \in T PROVE x <= y
  <2>1. x \in Nat /\ y \in Nat /\ ~(<<y, x>> \in Less)
    BY <1>3
  <2>2. ~(y < x)
    BY <1>2, <2>1
  <2> QED
    BY <2>1, <2>2
<1> QED
  BY <1>4

\* What lines x to y add to the depth.
Net(x, y) == Cardinality({n \in x..y : Opens(n)}) - Cardinality({n \in x..y : Closes(n)})

\* Lines are counted in two parts.
LEMMA CountSplit ==
    ASSUME NEW A, NEW B, A \cap B = {}, IsFiniteSet(A), IsFiniteSet(B)
    PROVE  Cardinality(A \cup B) = Cardinality(A) + Cardinality(B)
<1>1. Cardinality(A) \in Nat /\ Cardinality(B) \in Nat /\ Cardinality(A \cap B) = 0
  BY FS_CardinalityType, FS_EmptySet
<1>2. Cardinality(A \cup B) = Cardinality(A) + Cardinality(B) - Cardinality(A \cap B)
  BY FS_Union
<1> QED
  BY <1>1, <1>2

\* So is what they add.
LEMMA NetSplit ==
    \A x, m, z, y \in Nat : z = m + 1 /\ x <= z /\ m <= y =>
        Net(x, y) = Net(x, m) + Net(z, y) /\ Net(x, m) \in Int /\ Net(z, y) \in Int
<1> SUFFICES ASSUME NEW x \in Nat, NEW m \in Nat, NEW z \in Nat, NEW y \in Nat, z = m + 1, x <= z, m <= y
             PROVE  Net(x, y) = Net(x, m) + Net(z, y) /\ Net(x, m) \in Int /\ Net(z, y) \in Int
  OBVIOUS
<1> DEFINE O(u, v) == {n \in u..v : Opens(n)}
           C(u, v) == {n \in u..v : Closes(n)}
<1>1. ASSUME NEW u \in Nat, NEW v \in Nat
      PROVE  /\ IsFiniteSet(O(u, v)) /\ Cardinality(O(u, v)) \in Nat
             /\ IsFiniteSet(C(u, v)) /\ Cardinality(C(u, v)) \in Nat
  <2>1. IsFiniteSet(u..v)
    BY FS_Interval
  <2>2. O(u, v) \subseteq u..v /\ C(u, v) \subseteq u..v
    OBVIOUS
  <2> HIDE DEF O, C
  <2>3. IsFiniteSet(O(u, v)) /\ IsFiniteSet(C(u, v))
    BY <2>1, <2>2, FS_Subset
  <2> QED
    BY <2>3, FS_CardinalityType
<1>2. /\ O(x, y) = O(x, m) \cup O(z, y) /\ O(x, m) \cap O(z, y) = {}
      /\ C(x, y) = C(x, m) \cup C(z, y) /\ C(x, m) \cap C(z, y) = {}
  <2>1. \A n : n \in x..y <=> n \in x..m \/ n \in z..y
    OBVIOUS
  <2>2. \A n : ~(n \in x..m /\ n \in z..y)
    OBVIOUS
  <2> HIDE DEF Opens, Closes
  <2> QED
    BY <2>1, <2>2
<1> HIDE DEF O, C
<1>3. Cardinality(O(x, m) \cup O(z, y)) = Cardinality(O(x, m)) + Cardinality(O(z, y))
  BY <1>1, <1>2, CountSplit
<1>4. Cardinality(C(x, m) \cup C(z, y)) = Cardinality(C(x, m)) + Cardinality(C(z, y))
  BY <1>1, <1>2, CountSplit
<1>5. \A u, v : Net(u, v) = Cardinality(O(u, v)) - Cardinality(C(u, v))
  BY DEF O, C, Net
<1>6. /\ Net(x, m) = Cardinality(O(x, m)) - Cardinality(C(x, m))
      /\ Net(z, y) = Cardinality(O(z, y)) - Cardinality(C(z, y))
      /\ Net(x, y) = Cardinality(O(x, m) \cup O(z, y)) - Cardinality(C(x, m) \cup C(z, y))
  BY <1>2, <1>5
<1>7. /\ Cardinality(O(x, m)) \in Nat /\ Cardinality(C(x, m)) \in Nat
      /\ Cardinality(O(z, y)) \in Nat /\ Cardinality(C(z, y)) \in Nat
  BY <1>1
<1> QED
  BY <1>3, <1>4, <1>6, <1>7

\* An opener's line adds one.
LEMMA NetAtOpener ==
    ASSUME NEW c \in Nat, Opens(c)
    PROVE  Net(c, c) = 1
<1>1. ~Closes(c)
  BY DEF Opens, Closes
<1>2. c..c = {c}
  OBVIOUS
<1> HIDE DEF Opens, Closes
<1>3. {n \in c..c : Opens(n)} = {c} /\ {n \in c..c : Closes(n)} = {}
  BY <1>1, <1>2
<1>4. Cardinality({c}) = 1 /\ Cardinality({}) = 0
  BY FS_Singleton, FS_EmptySet
<1> QED
  BY <1>3, <1>4 DEF Net

LEMMA DepthIsNet ==
    ASSUME NEW a \in Nat, NEW b \in Nat
    PROVE  Depth(a, b) = 1 + Net(a + 1, b) /\ Net(a + 1, b) \in Int
<1>1. IsFiniteSet((a + 1)..b)
  BY FS_Interval
<1> DEFINE O == {n \in (a + 1)..b : Opens(n)}
           C == {n \in (a + 1)..b : Closes(n)}
<1>2. O \subseteq (a + 1)..b /\ C \subseteq (a + 1)..b
  OBVIOUS
<1>3. Depth(a, b) = 1 + Cardinality(O) - Cardinality(C) /\ Net(a + 1, b) = Cardinality(O) - Cardinality(C)
  BY DEF Depth, Net
<1> HIDE DEF O, C
<1>4. Cardinality(O) \in Nat /\ Cardinality(C) \in Nat
  BY <1>1, <1>2, FS_Subset, FS_CardinalityType
<1> QED
  BY <1>3, <1>4

\* The depth of an outer block is that at an inner opener's line plus the inner depth.
LEMMA DepthSum ==
    ASSUME NEW a \in Nat, NEW c \in Nat, NEW b \in Nat, a < c, c <= b, Opens(c)
    PROVE  Depth(a, b) = Depth(a, c - 1) + Depth(c, b)
<1>1. /\ c - 1 \in Nat /\ a + 1 \in Nat /\ c + 1 \in Nat /\ c = (c - 1) + 1
      /\ a + 1 <= c /\ c - 1 <= b /\ c <= c + 1
  OBVIOUS
<1>2. Net(a + 1, b) = Net(a + 1, c - 1) + Net(c, b) /\ Net(a + 1, c - 1) \in Int
  BY <1>1, NetSplit
<1>3. Net(c, b) = Net(c, c) + Net(c + 1, b) /\ Net(c + 1, b) \in Int
  BY <1>1, NetSplit
<1>4. /\ Depth(a, b) = 1 + Net(a + 1, b) /\ Depth(a, c - 1) = 1 + Net(a + 1, c - 1)
      /\ Depth(c, b) = 1 + Net(c + 1, b)
  BY <1>1, DepthIsNet
<1>5. Net(c, c) = 1
  BY NetAtOpener
<1> QED
  BY <1>2, <1>3, <1>4, <1>5

\* A line closes one block at most, and its last character is a closing brace.
LEMMA CloserInjective ==
    ASSUME NEW a \in Nat, NEW c \in Nat, NEW b \in Nat, Opens(a), Opens(c), Closer(a, b), Closer(c, b)
    PROVE  a = c
<1>1. ASSUME NEW x \in Nat, NEW y \in Nat, x < y, Opens(y), Closer(x, b), Closer(y, b) PROVE FALSE
  <2>1. Depth(x, b) = Depth(x, y - 1) + Depth(y, b)
    BY <1>1, DepthSum DEF Closer
  <2>2. Depth(x, b) = 0 /\ Depth(y, b) = 0 /\ Depth(x, y - 1) > 0
    BY <1>1 DEF Closer
  <2>3. Depth(x, y - 1) \in Int
    BY <1>1, DepthStep
  <2> QED
    BY <2>1, <2>2, <2>3
<1> QED
  BY <1>1

LEMMA CloserIsBrace ==
    ASSUME NEW a \in Nat, NEW b \in Nat, Closer(a, b)
    PROVE  a < b /\ Closes(b)
<1>1. b > a /\ Depth(a, b) = 0 /\ Depth(a, b - 1) > 0
  BY DEF Closer
<1>2. Depth(a, b - 1) \in Int /\ Depth(a, b) = Depth(a, b - 1) + Delta(b)
  BY <1>1, DepthStep
<1>3. Delta(b) \in {-1, 0, 1} /\ (Delta(b) = -1 => Closes(b))
  BY DEF Delta
<1> QED
  BY <1>1, <1>2, <1>3

\* In nested code every block is closed.
LEMMA EveryBlockCloses ==
    ASSUME line_part \in Seq(Line), Nested(Lines), NEW a \in Lines, Opens(a)
    PROVE  \E b \in Lines : Closer(a, b)
<1> DEFINE N == Len(line_part)
<1>1. N \in Nat /\ a \in Nat /\ 1 <= a /\ a <= N /\ a - 1 \in Nat /\ Lines = 1..N
  BY DEF Lines
<1> HIDE DEF N
<1>2. Depth(a, N) <= 0
  <2>1. Net(1, N) = 0
    <3>1. /\ IsFiniteSet({n \in 1..N : Opens(n)})
          /\ Cardinality({n \in 1..N : Opens(n)}) = Cardinality({n \in 1..N : Closes(n)})
      <4>1. IsFiniteSet(1..N) /\ {n \in 1..N : Opens(n)} \subseteq 1..N
        BY <1>1, FS_Interval
      <4>2. IsFiniteSet({n \in 1..N : Opens(n)})
        BY <4>1, FS_Subset
      <4> QED
        BY <1>1, <4>2 DEF Nested
    <3>2. Cardinality({n \in 1..N : Opens(n)}) \in Nat
      BY <3>1, FS_CardinalityType
    <3> QED
      BY <3>1, <3>2 DEF Net
  <2>2. /\ a = (a - 1) + 1 /\ 1 <= a /\ a - 1 <= N /\ a <= a + 1 /\ a + 1 \in Nat /\ 1 \in Nat
    BY <1>1
  <2>3. Net(1, N) = Net(1, a - 1) + Net(a, N) /\ Net(1, a - 1) \in Int /\ Net(a, N) \in Int
    BY <1>1, <2>2, NetSplit
  <2>4. Net(a, N) = Net(a, a) + Net(a + 1, N) /\ Net(a + 1, N) \in Int
    BY <1>1, <2>2, NetSplit
  <2>5. Net(a, a) = 1
    BY <1>1, NetAtOpener
  <2>6. Net(1, a - 1) >= 0
    <3> DEFINE O == {n \in 1..(a - 1) : Opens(n)}
               C == {n \in 1..(a - 1) : Closes(n)}
    <3>1. O \subseteq 1..(a - 1) /\ C \subseteq 1..(a - 1) /\ Net(1, a - 1) = Cardinality(O) - Cardinality(C)
      BY DEF Net
    <3>2. Cardinality(C) <= Cardinality(O)
      <4>1. CASE a = 1
        <5>1. C = {} /\ O = {}
          BY <4>1
        <5> HIDE DEF C, O
        <5> QED
          BY <5>1, FS_EmptySet
      <4>2. CASE a # 1
        <5>1. a - 1 \in Lines
          BY <1>1, <4>2
        <5>2. \A n : n \in Lines /\ n <= a - 1 <=> n \in 1..(a - 1)
          BY <1>1
        <5>3. {n \in Lines : n <= a - 1 /\ Opens(n)} = O /\ {n \in Lines : n <= a - 1 /\ Closes(n)} = C
          BY <5>2
        <5> HIDE DEF C, O
        <5> QED
          BY <5>1, <5>3 DEF Nested
      <4> QED
        BY <4>1, <4>2
    <3> HIDE DEF O, C
    <3>3. IsFiniteSet(1..(a - 1))
      BY <1>1, FS_Interval
    <3>4. Cardinality(O) \in Nat /\ Cardinality(C) \in Nat
      BY <3>1, <3>3, FS_Subset, FS_CardinalityType
    <3> QED
      BY <3>1, <3>2, <3>4
  <2>7. Depth(a, N) = 1 + Net(a + 1, N)
    BY <1>1, DepthIsNet
  <2> QED
    BY <2>1, <2>3, <2>4, <2>5, <2>6, <2>7
<1> DEFINE T == {b \in Lines : b > a /\ Depth(a, b) <= 0}
<1>3. Depth(a, a) = 1
  BY <1>1, DepthAtOpener
<1>4. N \in T
  <2>1. N # a
    BY <1>2, <1>3
  <2> QED
    BY <1>1, <1>2, <2>1
<1>5. T \in SUBSET Nat
  BY <1>1
<1>6. PICK b \in T : \A y \in T : b <= y
  BY <1>4, <1>5, FirstLine
<1>7. b \in Nat /\ b \in Lines /\ b > a /\ Depth(a, b) <= 0
  BY <1>5
<1>8. ASSUME NEW c \in a..(b - 1) PROVE Depth(a, c) \in Int /\ Depth(a, c) > 0
  <2>1. CASE c = a
    BY <1>3, <2>1
  <2>2. CASE c # a
    <3>1. c \in Nat /\ c > a /\ c < b /\ c \in Lines
      BY <1>1, <1>7, <2>2
    <3>2. Depth(a, c) \in Int
      BY <1>1, <3>1, DepthStep
    <3>3. c \notin T
      <4>1. c \in T => b <= c
        BY <1>6
      <4> QED
        BY <1>7, <3>1, <4>1
    <3> QED
      BY <3>1, <3>2, <3>3
  <2> QED
    BY <2>1, <2>2
<1>9. Depth(a, b) = 0
  <2>1. Depth(a, b) \in Int /\ Depth(a, b) = Depth(a, b - 1) + Delta(b) /\ Delta(b) \in {-1, 0, 1}
    BY <1>1, <1>7, DepthStep DEF Delta
  <2>2. Depth(a, b - 1) \in Int /\ Depth(a, b - 1) > 0
    BY <1>1, <1>7, <1>8
  <2> QED
    BY <1>7, <2>1, <2>2
<1>10. Closer(a, b)
  BY <1>7, <1>8, <1>9 DEF Closer
<1> QED
  BY <1>7, <1>10

\* The wanted lines of nested code are nested.
LEMMA WantedNested ==
    ASSUME line_part \in Seq(Line), Nested(Lines), \A n \in Lines : Closes(n) => ~line_part[n].tok
    PROVE  Nested(Wanted)
<1>1. Lines \subseteq Nat /\ Holding \subseteq Lines /\ IsFiniteSet(Lines)
  <2>1. IsFiniteSet(1..Len(line_part))
    BY FS_Interval
  <2> QED
    BY <2>1 DEF Lines, Holding
<1>2. Wanted \subseteq Lines /\ IsFiniteSet(Wanted)
  <2>1. Wanted \subseteq Lines
    BY <1>1 DEF Wanted
  <2> QED
    BY <1>1, <2>1, FS_Subset
<1>3. \A a \in Up(Wanted) : a \in Holding /\ Opens(a)
  <2> SUFFICES ASSUME NEW a \in Up(Wanted), a \notin Holding PROVE FALSE
    BY DEF Up
  <2>1. a \in Lines /\ Opens(a)
    BY <1>2 DEF Up
  <2>2. PICK c \in Holding : Closer(c, a)
    BY DEF Up, Wanted
  <2> QED
    BY <1>1, <2>1, <2>2, CloserCloses
<1>4. \A b \in Down(Wanted) : \E a \in Holding : Opens(a) /\ Closer(a, b)
  <2> SUFFICES ASSUME NEW b \in Down(Wanted) PROVE \E a \in Holding : Opens(a) /\ Closer(a, b)
    OBVIOUS
  <2>1. b \in Lines /\ Closes(b)
    BY <1>2 DEF Down
  <2>2. b \notin Holding
    BY <2>1 DEF Holding
  <2> QED
    BY <2>2 DEF Down, Wanted
<1>5. \A a \in Up(Wanted) : \E b \in Down(Wanted) : Closer(a, b)
  <2> SUFFICES ASSUME NEW a \in Up(Wanted) PROVE \E b \in Down(Wanted) : Closer(a, b)
    OBVIOUS
  <2>1. a \in Holding /\ Opens(a) /\ a \in Lines
    BY <1>1, <1>3
  <2>2. PICK b \in Lines : Closer(a, b)
    BY <2>1, EveryBlockCloses
  <2>3. b \in Wanted
    BY <2>1, <2>2 DEF Wanted
  <2>4. Closes(b)
    BY <1>1, <2>1, <2>2, CloserIsBrace
  <2> QED
    BY <2>2, <2>3, <2>4 DEF Down
<1>6. Up(Wanted) \subseteq Nat /\ Down(Wanted) \subseteq Nat /\ IsFiniteSet(Up(Wanted))
  <2>1. Up(Wanted) \subseteq Wanted /\ Down(Wanted) \subseteq Wanted
    BY DEF Up, Down
  <2> QED
    BY <1>1, <1>2, <2>1, FS_Subset
<1>7. Cardinality(Up(Wanted)) = Cardinality(Down(Wanted))
  <2> DEFINE f == [a \in Up(Wanted) |-> CHOOSE b \in Down(Wanted) : Closer(a, b)]
  <2>1. \A a \in Up(Wanted) : f[a] \in Down(Wanted) /\ Closer(a, f[a])
    BY <1>5
  <2>2. f \in [Up(Wanted) -> Down(Wanted)]
    BY <2>1
  <2> HIDE DEF f
  <2>3. \A a, c \in Up(Wanted) : f[a] = f[c] => a = c
    <3> SUFFICES ASSUME NEW a \in Up(Wanted), NEW c \in Up(Wanted), f[a] = f[c] PROVE a = c
      OBVIOUS
    <3>1. Closer(a, f[a]) /\ Closer(c, f[a]) /\ a \in Nat /\ c \in Nat /\ f[a] \in Nat /\ Opens(a) /\ Opens(c)
      BY <1>3, <1>6, <2>1
    <3> QED
      BY <3>1, CloserInjective
  <2>4. \A b \in Down(Wanted) : \E a \in Up(Wanted) : f[a] = b
    <3> SUFFICES ASSUME NEW b \in Down(Wanted) PROVE \E a \in Up(Wanted) : f[a] = b
      OBVIOUS
    <3>1. PICK a \in Holding : Opens(a) /\ Closer(a, b)
      BY <1>4
    <3>2. a \in Up(Wanted)
      BY <3>1 DEF Up, Wanted
    <3>3. Closer(a, f[a]) /\ a \in Nat /\ b \in Nat /\ f[a] \in Nat
      BY <1>6, <2>1, <3>2
    <3>4. f[a] = b
      BY <3>1, <3>3, CloserUnique
    <3> QED
      BY <3>2, <3>4
  <2>5. ExistsBijection(Up(Wanted), Down(Wanted))
    BY <2>2, <2>3, <2>4 DEF ExistsBijection, Bijection, Injection, Surjection, IsInjective
  <2> QED
    BY <1>6, <2>5, FS_Bijection
<1>8. ASSUME NEW m \in Wanted
      PROVE  Cardinality({n \in Wanted : n <= m /\ Closes(n)}) <= Cardinality({n \in Wanted : n <= m /\ Opens(n)})
  <2> DEFINE D == {n \in Wanted : n <= m /\ Closes(n)}
             U == {n \in Wanted : n <= m /\ Opens(n)}
             g == [b \in D |-> CHOOSE a \in U : Closer(a, b)]
  <2>1. \A b \in D : \E a \in U : Closer(a, b)
    <3> SUFFICES ASSUME NEW b \in D PROVE \E a \in U : Closer(a, b)
      OBVIOUS
    <3>1. b \in Down(Wanted) /\ b \in Nat /\ m \in Nat /\ b <= m
      BY <1>1, <1>2 DEF Down
    <3>2. PICK a \in Holding : Opens(a) /\ Closer(a, b)
      BY <1>4, <3>1
    <3>3. a \in Nat /\ a \in Wanted /\ a < b
      BY <1>1, <3>1, <3>2, CloserIsBrace DEF Wanted
    <3>4. a <= m
      BY <3>1, <3>3
    <3> QED
      BY <3>2, <3>3, <3>4
  <2>2. \A b \in D : g[b] \in U /\ Closer(g[b], b)
    BY <2>1
  <2>3. g \in [D -> U]
    BY <2>2
  <2>4. U \subseteq Nat /\ D \subseteq Nat /\ IsFiniteSet(U)
    BY <1>1, <1>2, FS_Subset
  <2> HIDE DEF g, D, U
  <2>5. \A b, c \in D : g[b] = g[c] => b = c
    <3> SUFFICES ASSUME NEW b \in D, NEW c \in D, g[b] = g[c] PROVE b = c
      OBVIOUS
    <3>1. Closer(g[b], b) /\ Closer(g[b], c) /\ g[b] \in Nat /\ b \in Nat /\ c \in Nat
      BY <2>2, <2>4
    <3> QED
      BY <3>1, CloserUnique
  <2>6. g \in Injection(D, U)
    BY <2>3, <2>5 DEF Injection, IsInjective
  <2>7. Cardinality(D) <= Cardinality(U)
    BY <2>4, <2>6, FS_Injection
  <2> QED
    BY <2>7 DEF D, U
<1> QED
  BY <1>7, <1>8 DEF Nested, Up, Down

\* A function no detect token is looked for in stays as it is.
KeptWhole ==
    /\ phase \in {"scan", "match"} => detects
    /\ phase = "done" /\ ~detects => code = Lines

LEMMA NextKeptWhole == KeptWhole /\ [Next]_vars => KeptWhole'
<1> SUFFICES ASSUME KeptWhole, [Next]_vars PROVE KeptWhole'
  OBVIOUS
<1>1. line_part' = line_part /\ detects' = detects /\ Lines' = Lines
  BY DEF Next, Begin, PassLine, MarkLine, MatchLine, MatchEnds, Rebuild, vars, Lines
<1> QED
  BY <1>1 DEF KeptWhole, Next, Begin, PassLine, MarkLine, MatchLine, MatchEnds, Rebuild, vars

\* Of nested code whose closing lines hold no token the slice is nested, for code of any length.
THEOREM SliceIsNestedHolds == Spec => []SliceIsNested
<1>1. Init => KeptWhole
  BY DEF Init, KeptWhole
<1>2. TypeInv /\ SliceIsWanted /\ KeptWhole => SliceIsNested
  <2> SUFFICES ASSUME TypeInv, SliceIsWanted, KeptWhole, phase = "done", Nested(Lines),
                      \A n \in Lines : Closes(n) => ~line_part[n].tok
               PROVE  Nested(code)
    BY DEF SliceIsNested
  <2>1. CASE detects
    <3>1. code = Wanted
      BY <2>1 DEF SliceIsWanted
    <3>2. Nested(Wanted)
      BY WantedNested DEF TypeInv, TypeOK
    <3> QED
      BY <3>1, <3>2
  <2>2. CASE ~detects
    BY <2>2 DEF KeptWhole
  <2> QED
    BY <2>1, <2>2
<1> QED
  BY <1>1, <1>2, InitTypeInv, NextTypeInv, NextKeptWhole, SliceIsWantedHolds, PTL DEF Spec

=============================================================================
