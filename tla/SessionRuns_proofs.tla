--------------------------- MODULE SessionRuns_proofs ---------------------------
(***************************************************************************)
(* What is promised of the migrations and of the saved runs, proved for    *)
(* any scripts, sessions, runs and traces.                                 *)
(***************************************************************************)
EXTENDS SessionRuns, FiniteSetTheorems, WellFoundedInduction, TLAPS

-------------------------------------------------------------------------------
(* Numbers and sequences.                                                  *)

\* A set of natural numbers with a member has a least one.
LEMMA LeastOf ==
    ASSUME NEW T \in SUBSET Nat, T # {}
    PROVE  \E m \in T : \A k \in T : m <= k
<1> DEFINE Less == {ss \in Nat \X Nat : ss[1] < ss[2]}
<1>1. IsWellFoundedOn(Less, Nat)  BY NatLessThanWellFounded DEF OpToRel
<1>2. PICK m \in T : \A k \in T : ~(<<k, m>> \in Less)
  <2> HIDE DEF Less
  <2> QED BY <1>1, WFMin
<1>3. ASSUME NEW k \in T PROVE m <= k
  <2>1. k \in Nat /\ m \in Nat /\ <<k, m>> \notin Less  BY <1>2
  <2>2. ~(k < m)
    <3> SUFFICES ASSUME k < m PROVE <<k, m>> \in Less  BY <2>1
    <3>1. <<k, m>> \in Nat \X Nat /\ <<k, m>>[1] < <<k, m>>[2]  BY <2>1
    <3> QED BY <3>1
  <2> QED BY <2>1, <2>2
<1> QED BY <1>3

\* Being a sequence, of whatever.
LEMMA SequenceFacts ==
    ASSUME NEW s
    PROVE  /\ IsSequence(s) => Len(s) \in Nat /\ DOMAIN s = 1..Len(s)
           /\ \A S : s \in Seq(S) => IsSequence(s)
           /\ IsSequence(s) => \A S : (\A i \in 1..Len(s) : s[i] \in S) => s \in Seq(S)
<1>1. IsSequence(s) => Len(s) \in Nat /\ DOMAIN s = 1..Len(s)
  BY DEF IsSequence
<1>2. ASSUME NEW S, s \in Seq(S) PROVE IsSequence(s)
  <2>1. Len(s) \in Nat /\ s \in [1..Len(s) -> S]  BY <1>2
  <2>2. s \in [1..Len(s) -> ToSet(s)]  BY <2>1 DEF ToSet
  <2> QED BY <2>1, <2>2 DEF IsSequence
<1>3. ASSUME NEW S, IsSequence(s), \A i \in 1..Len(s) : s[i] \in S PROVE s \in Seq(S)
  <2>1. Len(s) \in Nat /\ s \in [1..Len(s) -> ToSet(s)]  BY <1>3 DEF IsSequence
  <2>2. s \in [1..Len(s) -> S]  BY <1>3, <2>1
  <2> QED BY <2>1, <2>2
<1> QED BY <1>1, <1>2, <1>3

\* A sequence given by its elements.
LEMMA SequenceOf ==
    ASSUME NEW n \in Nat, NEW s, DOMAIN s = 1..n, s = [i \in 1..n |-> s[i]]
    PROVE  IsSequence(s) /\ Len(s) = n
<1>1. s \in [1..n -> ToSet(s)]  BY DEF ToSet
<1>2. s \in Seq(ToSet(s))  BY <1>1
<1>3. Len(s) = n  BY <1>1, <1>2
<1> QED BY <1>2, <1>3 DEF IsSequence

\* Append and concatenation, of sequences of whatever.
LEMMA AppendFacts ==
    ASSUME NEW s, NEW e, IsSequence(s)
    PROVE  /\ IsSequence(Append(s, e)) /\ Len(s) \in Nat /\ Len(Append(s, e)) = Len(s) + 1
           /\ \A i \in 1..Len(s) : Append(s, e)[i] = s[i]
           /\ Append(s, e)[Len(s) + 1] = e
<1> DEFINE S == ToSet(s) \cup {e}
<1>1. s \in Seq(S)  BY SequenceFacts DEF ToSet
<1> HIDE DEF S
<1>2. e \in S  BY DEF S
<1>3. Append(s, e) \in Seq(S)  BY <1>1, <1>2
<1>4. /\ Len(s) \in Nat /\ Len(Append(s, e)) = Len(s) + 1
      /\ \A i \in 1..Len(s) : Append(s, e)[i] = s[i]
      /\ Append(s, e)[Len(s) + 1] = e
  BY <1>1, <1>2
<1> QED BY <1>3, <1>4, SequenceFacts

\* A concatenation is the one sequence, then the other.
LEMMA ConcatFacts ==
    ASSUME NEW s, NEW u, IsSequence(s), IsSequence(u)
    PROVE  /\ IsSequence(s \o u) /\ Len(s) \in Nat /\ Len(u) \in Nat
           /\ Len(s \o u) = Len(s) + Len(u)
           /\ \A i \in 1..Len(s) : (s \o u)[i] = s[i]
           /\ \A i \in 1..Len(u) : (s \o u)[Len(s) + i] = u[i]
<1> DEFINE S == ToSet(s) \cup ToSet(u)
<1>1. s \in Seq(S) /\ u \in Seq(S)  BY SequenceFacts DEF ToSet
<1> HIDE DEF S
<1>2. s \o u \in Seq(S)  BY <1>1
<1>3. /\ Len(s) \in Nat /\ Len(u) \in Nat
      /\ Len(s \o u) = Len(s) + Len(u)
      /\ \A i \in 1..Len(s) : (s \o u)[i] = s[i]
      /\ \A i \in 1..Len(u) : (s \o u)[Len(s) + i] = u[i]
  BY <1>1
<1> QED BY <1>2, <1>3, SequenceFacts

\* f[i] is the concatenation of the first i sequences, for i up to n.
Joins(f, ss, n) ==
    f = [i \in 1..n |-> IF i = 1 THEN ss[i] ELSE f[i - 1] \o ss[i]]

\* FlattenSeq is what its recursive function says: the function exists.
LEMMA FlattenJoins ==
    ASSUME NEW ss, Len(ss) \in Nat \ {0}
    PROVE  \E f : Joins(f, ss, Len(ss)) /\ FlattenSeq(ss) = f[Len(ss)]
<1> DEFINE n == Len(ss)
<1> DEFINE T == {k \in 1..n : ~\E f : Joins(f, ss, k)}
<1>1. T = {}
  <2> SUFFICES ASSUME T # {} PROVE FALSE
    OBVIOUS
  <2>1. PICK k \in T : \A j \in T : k <= j
    <3>1. T \in SUBSET Nat  OBVIOUS
    <3> HIDE DEF T
    <3> QED BY <3>1, LeastOf
  <2>2. k # 1
    <3>1. Joins([i \in 1..1 |-> ss[i]], ss, 1)  BY DEF Joins
    <3> QED BY <3>1
  <2>3. PICK f : Joins(f, ss, k - 1)
    <3>1. k - 1 \in 1..n /\ k - 1 \notin T  BY <2>1, <2>2
    <3> QED BY <3>1
  <2>4. Joins([i \in 1..k |-> IF i = k THEN f[k - 1] \o ss[k] ELSE f[i]], ss, k)
    <3> DEFINE g == [i \in 1..k |-> IF i = k THEN f[k - 1] \o ss[k] ELSE f[i]]
    <3>1. ASSUME NEW i \in 1..k PROVE g[i] = IF i = 1 THEN ss[i] ELSE g[i - 1] \o ss[i]
      <4>1. CASE i = k
        <5>1. k - 1 \in 1..k /\ k - 1 # k /\ k \in 1..k  BY <2>1, <2>2
        <5> QED BY <2>2, <4>1, <5>1
      <4>2. CASE i # k
        <5>1. i \in 1..(k - 1)  BY <4>2
        <5>2. f[i] = IF i = 1 THEN ss[i] ELSE f[i - 1] \o ss[i]  BY <2>3, <5>1, Zenon DEF Joins
        <5> QED BY <4>2, <5>1, <5>2
      <4> QED BY <4>1, <4>2
    <3> QED BY <3>1 DEF Joins
  <2> QED BY <2>4
<1>2. PICK f : Joins(f, ss, n)  BY <1>1
<1> QED BY <1>2 DEF FlattenSeq, Joins

\* Sequences of elements of S, put one after the other, are a sequence of
\* elements of S.
LEMMA FlattenType ==
    ASSUME NEW ss, NEW S, IsSequence(ss), \A i \in 1..Len(ss) : ss[i] \in Seq(S)
    PROVE  FlattenSeq(ss) \in Seq(S)
<1>1. CASE Len(ss) = 0
  <2>1. ss \in Seq(S)  BY <1>1, SequenceFacts
  <2> QED BY <1>1, <2>1 DEF FlattenSeq
<1>2. CASE Len(ss) # 0
  <2>1. Len(ss) \in Nat \ {0}  BY <1>2, SequenceFacts
  <2>2. PICK f : Joins(f, ss, Len(ss)) /\ FlattenSeq(ss) = f[Len(ss)]
    BY <2>1, FlattenJoins
  <2> DEFINE T == {i \in 1..Len(ss) : f[i] \notin Seq(S)}
  <2>3. ASSUME NEW i \in 1..Len(ss) PROVE f[i] = IF i = 1 THEN ss[i] ELSE f[i - 1] \o ss[i]
    BY <2>2, Zenon DEF Joins
  <2>4. T = {}
    <3> SUFFICES ASSUME T # {} PROVE FALSE
      OBVIOUS
    <3>1. PICK k \in T : \A j \in T : k <= j
      <4>1. T \in SUBSET Nat  OBVIOUS
      <4> HIDE DEF T
      <4> QED BY <4>1, LeastOf
    <3>2. k # 1  BY <2>3, <3>1
    <3>3. k - 1 \in 1..Len(ss) /\ f[k - 1] \in Seq(S)  BY <2>1, <3>1, <3>2
    <3>4. f[k] = f[k - 1] \o ss[k] /\ ss[k] \in Seq(S)  BY <2>3, <3>1, <3>2
    <3>5. \A a, b \in Seq(S) : a \o b \in Seq(S)  OBVIOUS
    <3>6. f[k] \in Seq(S)  BY ONLY <3>3, <3>4, <3>5
    <3> QED BY <3>1, <3>6
  <2> QED BY <2>1, <2>2, <2>4
<1> QED BY <1>1, <1>2

-------------------------------------------------------------------------------
(* The migrations.                                                         *)

\* A position is a version and a place in its script; the places before the
\* last are statements.
LEMMA PositionFacts ==
    /\ \A x : x \in Positions <=> \E v \in Versions : \E k \in 1..(Len(Scripts[v]) + 1) : x = <<v, k>>
    /\ \A x : x \in Statements <=> \E v \in Versions : \E k \in 1..Len(Scripts[v]) : x = <<v, k>>
    /\ \A v \in Versions : v \in Nat \ {0} /\ Len(Scripts[v]) \in Nat
<1>1. \A x : x \in Positions <=> \E v \in Versions : x \in {v} \X (1..(Len(Scripts[v]) + 1))
  BY DEF Positions
<1>2. \A x : x \in Statements <=> \E v \in Versions : x \in {v} \X (1..Len(Scripts[v]))
  BY DEF Statements
<1>3. \A v \in Versions : v \in Nat \ {0} /\ Len(Scripts[v]) \in Nat
  BY ScriptsAssumption DEF Versions
<1>4. \A v, S, x : x \in {v} \X S <=> \E k \in S : x = <<v, k>>
  OBVIOUS
<1> QED BY <1>1, <1>2, <1>3, <1>4

\* Versions are recorded in order, each after all its statements.
RecordedInOrder ==
    \A v \in recorded, w \in Versions : w <= v => w \in recorded

\* What is recorded has had its statements.
RecordedApplied ==
    \A v \in recorded : \A k \in 1..Len(Scripts[v]) : <<v, k>> \in schema

\* The script that is run is the first that is not recorded, and its
\* statements up to this one were executed.
AtFirstMissing ==
    /\ at \in Positions =>
          /\ at[1] \notin recorded
          /\ \A w \in Versions : w < at[1] => w \in recorded
          /\ \A k \in 1..Len(Scripts[at[1]]) : k < at[2] => <<at[1], k>> \in schema
    /\ at = Open => Versions \subseteq recorded

\* The inductive invariant of the migrations.
MInv == MTypeOK /\ RecordedInOrder /\ RecordedApplied /\ AtFirstMissing

\* What the next script is.
LEMMA NextFacts ==
    ASSUME NEW S \in SUBSET Versions
    PROVE  \/ NextScript(S) = Open /\ Versions \subseteq S
           \/ \E v \in Versions \ S : /\ NextScript(S) = <<v, 1>>
                                      /\ \A w \in Versions : w < v => w \in S
<1>1. CASE Versions \subseteq S  BY <1>1 DEF NextScript
<1>2. CASE ~(Versions \subseteq S)
  <2> DEFINE T == Versions \ S
             v == CHOOSE u \in T : \A w \in T : u <= w
  <2>1. T \in SUBSET Nat /\ T # {}
    BY <1>2, PositionFacts
  <2>2. \E u \in T : \A w \in T : u <= w
    <3> HIDE DEF T
    <3> QED BY <2>1, LeastOf
  <2>3. v \in T /\ \A w \in T : v <= w
    <3> HIDE DEF T
    <3> QED BY <2>2
  <2>4. NextScript(S) = <<v, 1>>  BY <1>2 DEF NextScript
  <2> HIDE DEF v
  <2>5. \A w \in Versions : w < v => w \in S
    BY <2>1, <2>3, PositionFacts
  <2> QED BY <2>3, <2>4, <2>5
<1> QED BY <1>1, <1>2

\* Opening the database goes to the first script that is missing, or to none.
LEMMA NextInOrder ==
    ASSUME NEW S \in SUBSET Versions, recorded' = S, at' = NextScript(S)
    PROVE  at' \in {Open} \cup Positions /\ AtFirstMissing'
<1>1. CASE NextScript(S) = Open /\ Versions \subseteq S
  <2>1. Open \notin Positions  BY PositionFacts DEF Open
  <2> QED BY <1>1, <2>1 DEF AtFirstMissing
<1>2. ASSUME NEW v \in Versions \ S, NextScript(S) = <<v, 1>>,
             \A w \in Versions : w < v => w \in S
      PROVE  at' \in {Open} \cup Positions /\ AtFirstMissing'
  <2>1. <<v, 1>> \in Positions  BY PositionFacts
  <2>2. <<v, 1>> # Open  BY PositionFacts DEF Open
  <2>3. at'[1] = v /\ at'[2] = 1 /\ at' # Open /\ at' \in Positions  BY <1>2, <2>1, <2>2
  <2>4. \A k \in 1..Len(Scripts[v]) : ~(k < 1)  BY PositionFacts
  <2> QED BY <1>2, <2>3, <2>4 DEF AtFirstMissing
<1> QED BY <1>1, <1>2, NextFacts

\* Every step of the migrations keeps the invariant.
LEMMA MigrationStep ==
    ASSUME MInv, [MNext]_migrationVars
    PROVE  MInv'
<1> USE DEF MInv
<1>0. /\ Closed \notin Positions /\ Failed \notin Positions /\ Open \notin Positions
      /\ Closed # Open /\ Failed # Open
  BY PositionFacts DEF Closed, Failed, Open
<1>1. CASE Connect
  <2>1. MTypeOK' /\ AtFirstMissing'
    BY <1>1, NextInOrder DEF Connect, MTypeOK
  <2> QED BY <1>1, <2>1 DEF Connect, RecordedInOrder, RecordedApplied
<1>2. CASE RunStatement
  <2>1. PICK v \in Versions : \E k \in 1..Len(Scripts[v]) : at = <<v, k>>
    BY <1>2, PositionFacts DEF RunStatement
  <2>0. PICK k \in 1..Len(Scripts[v]) : at = <<v, k>>  BY <2>1
  <2>2. at' = <<v, k + 1>> /\ schema' = schema \cup {<<v, k>>} /\ UNCHANGED recorded
    BY <1>2, <2>0 DEF RunStatement
  <2>3. <<v, k + 1>> \in Positions /\ <<v, k>> \in Positions /\ <<v, k>> \in Statements
    BY <2>0, PositionFacts
  <2>4. MTypeOK'  BY <2>2, <2>3 DEF MTypeOK
  <2>5. \A j \in 1..Len(Scripts[v]) : j < k + 1 => j < k \/ j = k
    BY <2>0, PositionFacts
  <2>6. at[1] = v /\ at[2] = k /\ at'[1] = v /\ at'[2] = k + 1
    BY <2>0, <2>2
  <2>7. AtFirstMissing'
    BY <1>0, <2>0, <2>2, <2>3, <2>5, <2>6 DEF AtFirstMissing
  <2> QED BY <2>2, <2>4, <2>7 DEF RecordedInOrder, RecordedApplied
<1>3. CASE StatementRaises
  BY <1>0, <1>3 DEF StatementRaises, MTypeOK, RecordedInOrder, RecordedApplied, AtFirstMissing
<1>4. CASE RecordVersion
  <2>1. PICK v \in Versions : \E k \in 1..(Len(Scripts[v]) + 1) : at = <<v, k>>
    BY <1>4, PositionFacts DEF RecordVersion
  <2>0. PICK k \in 1..(Len(Scripts[v]) + 1) : at = <<v, k>>  BY <2>1
  <2>2. /\ at \in Positions /\ at[1] = v /\ at[2] = k
        /\ recorded' = recorded \cup {v} /\ at' = NextScript(recorded') /\ UNCHANGED schema
    BY <1>4, <2>0 DEF RecordVersion
  <2>3. k = Len(Scripts[v]) + 1
    <3>1. k \notin 1..Len(Scripts[v])
      BY <1>4, <2>0, PositionFacts DEF RecordVersion
    <3> QED BY <2>0, <3>1, PositionFacts
  <2>4. \A j \in 1..Len(Scripts[v]) : <<v, j>> \in schema
    BY <2>2, <2>3, PositionFacts DEF AtFirstMissing
  <2>5. recorded' \in SUBSET Versions  BY <2>0, <2>2 DEF MTypeOK
  <2>6. MTypeOK' /\ AtFirstMissing'
    BY <2>2, <2>5, NextInOrder DEF MTypeOK
  <2>7. RecordedApplied'  BY <2>2, <2>4 DEF RecordedApplied
  <2>8. \A w \in Versions : w <= v => w = v \/ w \in recorded
    BY <2>0, <2>2, PositionFacts DEF AtFirstMissing
  <2>9. RecordedInOrder'  BY <2>2, <2>8 DEF RecordedInOrder
  <2> QED BY <2>6, <2>7, <2>9
<1>5. CASE Stop
  BY <1>0, <1>5 DEF Stop, MTypeOK, RecordedInOrder, RecordedApplied, AtFirstMissing
<1>6. CASE UNCHANGED migrationVars
  BY <1>6 DEF migrationVars, MTypeOK, RecordedInOrder, RecordedApplied, AtFirstMissing
<1> QED BY <1>1, <1>2, <1>3, <1>4, <1>5, <1>6 DEF MNext

-------------------------------------------------------------------------------
(* What a run has to save.                                                 *)

\* Sequences put one after the other have no elements but theirs.
LEMMA FlattenRange ==
    ASSUME NEW ss, IsSequence(ss), \A i \in 1..Len(ss) : IsSequence(ss[i])
    PROVE  /\ IsSequence(FlattenSeq(ss))
           /\ \A j \in 1..Len(FlattenSeq(ss)) :
                 \E i \in 1..Len(ss) : \E k \in 1..Len(ss[i]) : FlattenSeq(ss)[j] = ss[i][k]
<1> DEFINE S == UNION {ToSet(ss[i]) : i \in 1..Len(ss)}
<1>1. ASSUME NEW x \in S PROVE \E i \in 1..Len(ss) : \E k \in 1..Len(ss[i]) : x = ss[i][k]
  <2>1. PICK i \in 1..Len(ss) : x \in ToSet(ss[i])  OBVIOUS
  <2>2. DOMAIN ss[i] = 1..Len(ss[i])  BY SequenceFacts
  <2> QED BY <2>1, <2>2 DEF ToSet
<1>2. ASSUME NEW i \in 1..Len(ss) PROVE ss[i] \in Seq(S)
  <2>1. \A k \in 1..Len(ss[i]) : ss[i][k] \in S
    <3>1. DOMAIN ss[i] = 1..Len(ss[i])  BY SequenceFacts
    <3> QED BY <3>1 DEF ToSet
  <2> HIDE DEF S
  <2> QED BY <2>1, SequenceFacts
<1> HIDE DEF S
<1>3. FlattenSeq(ss) \in Seq(S)  BY <1>2, FlattenType
<1>4. \A j \in 1..Len(FlattenSeq(ss)) : FlattenSeq(ss)[j] \in S  BY <1>3
<1> QED BY <1>1, <1>3, <1>4, SequenceFacts

\* ... and each of theirs.
LEMMA FlattenOnto ==
    ASSUME NEW ss, IsSequence(ss), \A i \in 1..Len(ss) : IsSequence(ss[i])
    PROVE  \A i \in 1..Len(ss) : \A k \in 1..Len(ss[i]) :
              \E j \in 1..Len(FlattenSeq(ss)) : FlattenSeq(ss)[j] = ss[i][k]
<1>0. Len(ss) \in Nat  BY SequenceFacts
<1>1. CASE Len(ss) = 0  BY <1>1
<1>2. CASE Len(ss) # 0
  <2>1. Len(ss) \in Nat \ {0}  BY <1>0, <1>2
  <2>2. PICK f : Joins(f, ss, Len(ss)) /\ FlattenSeq(ss) = f[Len(ss)]
    BY <2>1, FlattenJoins
  <2>3. ASSUME NEW m \in 1..Len(ss) PROVE f[m] = IF m = 1 THEN ss[m] ELSE f[m - 1] \o ss[m]
    BY <2>2, Zenon DEF Joins
  <2> DEFINE Has(g, x) == \E j \in 1..Len(g) : g[j] = x
             Good(m) == /\ IsSequence(f[m])
                        /\ \A i \in 1..m : \A k \in 1..Len(ss[i]) : Has(f[m], ss[i][k])
             T == {m \in 1..Len(ss) : ~Good(m)}
  <2>4. T = {}
    <3> SUFFICES ASSUME T # {} PROVE FALSE
      OBVIOUS
    <3>1. PICK m \in T : \A j \in T : m <= j
      <4>1. T \in SUBSET Nat  OBVIOUS
      <4> HIDE DEF T
      <4> QED BY <4>1, LeastOf
    <3>2. m \in 1..Len(ss) /\ ~Good(m)  BY <3>1
    <3>3. m # 1
      <4> SUFFICES ASSUME m = 1 PROVE Good(1)  BY <3>2
      <4>1. f[1] = ss[1]  BY <2>3, <3>2
      <4>2. \A i \in 1..1 : i = 1  OBVIOUS
      <4> QED BY <3>2, <4>1, <4>2
    <3>4. m - 1 \in 1..Len(ss) /\ Good(m - 1)
      <4>1. m - 1 \in 1..Len(ss) /\ ~(m <= m - 1)  BY <3>2, <3>3
      <4>2. m - 1 \notin T  BY <3>1, <4>1
      <4> QED BY <4>1, <4>2
    <3>5. f[m] = f[m - 1] \o ss[m] /\ IsSequence(f[m - 1]) /\ IsSequence(ss[m])
      BY <2>3, <3>2, <3>3, <3>4
    <3> DEFINE h == f[m - 1]
               u == ss[m]
    <3>6. /\ IsSequence(h \o u) /\ Len(h) \in Nat /\ Len(u) \in Nat
          /\ Len(h \o u) = Len(h) + Len(u)
          /\ \A i \in 1..Len(h) : (h \o u)[i] = h[i]
          /\ \A i \in 1..Len(u) : (h \o u)[Len(h) + i] = u[i]
      <4>1. IsSequence(h) /\ IsSequence(u)  BY <3>5
      <4> HIDE DEF h, u
      <4> QED BY <4>1, ConcatFacts
    <3>7. \A x : Has(h, x) => Has(h \o u, x)
      <4> HIDE DEF h, u
      <4>1. \A j \in 1..Len(h) : j \in 1..Len(h \o u)  BY <3>6
      <4> QED BY <3>6, <4>1
    <3>8. \A k \in 1..Len(u) : Has(h \o u, u[k])
      <4> HIDE DEF h, u
      <4>1. \A k \in 1..Len(u) : Len(h) + k \in 1..Len(h \o u)  BY <3>6
      <4> QED BY <3>6, <4>1
    <3>9. \A i \in 1..m : i = m \/ i \in 1..(m - 1)  BY <3>2
    <3>10. Good(m)
      <4>1. f[m] = h \o u  BY <3>5
      <4>2. \A i \in 1..(m - 1) : \A k \in 1..Len(ss[i]) : Has(h, ss[i][k])  BY <3>4
      <4>3. ss[m] = u  OBVIOUS
      <4> HIDE DEF h, u, Has
      <4>4. \A i \in 1..m : \A k \in 1..Len(ss[i]) : Has(f[m], ss[i][k])
        BY <3>7, <3>8, <3>9, <4>1, <4>2, <4>3
      <4> QED BY <3>6, <4>1, <4>4
    <3> QED BY <3>2, <3>10
  <2>5. Good(Len(ss))  BY <2>1, <2>4
  <2> QED BY <2>2, <2>5
<1> QED BY <1>1, <1>2

\* Sequences of operations of the kinds W, put one after the other.
LEMMA FlattenKinds ==
    ASSUME NEW ss, NEW W, IsSequence(ss),
           \A i \in 1..Len(ss) : IsSequence(ss[i]) /\ \A k \in 1..Len(ss[i]) : ss[i][k].what \in W
    PROVE  /\ IsSequence(FlattenSeq(ss))
           /\ \A j \in 1..Len(FlattenSeq(ss)) : FlattenSeq(ss)[j].what \in W
BY FlattenRange

\* A turn is a sequence of calls, and the calls the loop got to are its first.
LEMMA TurnFacts ==
    ASSUME NEW k \in 1..Len(Traces)
    PROVE  LET t == Traces[k]
           IN  /\ Len(t.turns) \in Nat
               /\ \A n \in Steps(t) : /\ IsSequence(t.turns[n])
                                      /\ Len(Handled(t, n)) \in Nat
<1> DEFINE t == Traces[k]
<1>1. /\ IsSequence(t.turns) /\ \A n \in 1..Len(t.turns) : IsSequence(t.turns[n])
      /\ t.turns # <<>> => t.cut \in 0..Len(t.turns[Len(t.turns)])
  BY TracesAssumption
<1>2. Len(t.turns) \in Nat  BY <1>1, SequenceFacts
<1>3. ASSUME NEW n \in Steps(t) PROVE IsSequence(t.turns[n]) /\ Len(Handled(t, n)) \in Nat
  <2>1. IsSequence(t.turns[n]) /\ Len(t.turns[n]) \in Nat
    BY <1>1, SequenceFacts DEF Steps
  <2>2. CASE n = Len(t.turns)
    <3>1. t.turns # <<>>  BY <1>2, <2>2 DEF Steps
    <3>2. t.cut \in 0..Len(t.turns[n])  BY <1>1, <2>2, <3>1
    <3>3. t.turns[n] \in Seq(ToSet(t.turns[n]))  BY <2>1 DEF IsSequence
    <3>4. Len(SubSeq(t.turns[n], 1, Len(t.turns[n]) - t.cut)) \in Nat
      BY <2>1, <3>2, <3>3
    <3> QED BY <2>1, <2>2, <3>4 DEF Handled
  <2>3. CASE n # Len(t.turns)  BY <2>1, <2>3 DEF Handled
  <2> QED BY <2>1, <2>2, <2>3
<1> QED BY <1>2, <1>3

\* The saves that add a row of their own.
RowOps == {"step", "call", "snapshot", "files"}

\* The first saves are steps.
LEMMA StepSavesFacts ==
    ASSUME NEW k \in 1..Len(Traces)
    PROVE  LET s == StepSaves(Traces[k])
           IN  IsSequence(s) /\ \A i \in 1..Len(s) : s[i].what = "step"
<1> DEFINE t == Traces[k]
<1>1. Len(t.turns) \in Nat  BY TurnFacts
<1> HIDE DEF t
<1>2. StepSaves(t) = [n \in 1..Len(t.turns) |-> Op("step", n, <<>>)]
  BY DEF StepSaves, Steps
<1>3. IsSequence(StepSaves(t)) /\ Len(StepSaves(t)) = Len(t.turns)
  BY <1>1, <1>2, SequenceOf
<1>4. \A i \in 1..Len(t.turns) : StepSaves(t)[i].what = "step"
  BY <1>2 DEF Op
<1> QED BY <1>3, <1>4 DEF t

\* The save of a call that the loop got to.
IsCall(t, op) == \E n \in Steps(t) : \E id \in HandledIds(t, n) : op = Op("call", n, <<id>>)

\* Every call that the loop got to is saved, and nothing else.
LEMMA CallSavesFacts ==
    ASSUME NEW k \in 1..Len(Traces)
    PROVE  LET t == Traces[k]
               s == CallSaves(t)
           IN  /\ IsSequence(s)
               /\ \A i \in 1..Len(s) : IsCall(t, s[i])
               /\ \A op : IsCall(t, op) => \E i \in 1..Len(s) : s[i] = op
<1> DEFINE t == Traces[k]
<1>1. Len(t.turns) \in Nat /\ \A n \in Steps(t) : Len(Handled(t, n)) \in Nat  BY TurnFacts
<1> HIDE DEF t
<1> DEFINE ss == [n \in Steps(t) |->
               [j \in 1..Len(Handled(t, n)) |-> Op("call", n, <<CallId(Handled(t, n)[j], n)>>)]]
<1>2. DOMAIN ss = 1..Len(t.turns) /\ ss = [i \in 1..Len(t.turns) |-> ss[i]]
  BY DEF Steps
<1>3. ASSUME NEW n \in Steps(t)
      PROVE  /\ IsSequence(ss[n]) /\ Len(ss[n]) = Len(Handled(t, n))
             /\ \A j \in 1..Len(Handled(t, n)) : ss[n][j] = Op("call", n, <<CallId(Handled(t, n)[j], n)>>)
  <2> DEFINE u == [j \in 1..Len(Handled(t, n)) |-> Op("call", n, <<CallId(Handled(t, n)[j], n)>>)]
  <2>1. IsSequence(u) /\ Len(u) = Len(Handled(t, n))
    BY <1>1, SequenceOf
  <2>2. ss[n] = u  OBVIOUS
  <2>3. \A j \in 1..Len(Handled(t, n)) : u[j] = Op("call", n, <<CallId(Handled(t, n)[j], n)>>)
    OBVIOUS
  <2> HIDE DEF ss, u
  <2> QED BY <2>1, <2>2, <2>3
<1> HIDE DEF ss
<1>4. IsSequence(ss) /\ Len(ss) = Len(t.turns)  BY <1>1, <1>2, SequenceOf
<1>5. Steps(t) = 1..Len(ss)  BY <1>4 DEF Steps
<1> DEFINE s == FlattenSeq(ss)
<1>6. /\ IsSequence(s)
      /\ \A j \in 1..Len(s) : \E n \in Steps(t) : \E i \in 1..Len(ss[n]) : s[j] = ss[n][i]
  <2>1. \A i \in 1..Len(ss) : IsSequence(ss[i])  BY <1>3, <1>5
  <2>2. /\ IsSequence(s)
        /\ \A j \in 1..Len(s) : \E n \in 1..Len(ss) : \E i \in 1..Len(ss[n]) : s[j] = ss[n][i]
    BY <1>4, <2>1, FlattenRange
  <2> QED BY <1>5, <2>2
<1>7. \A n \in Steps(t) : \A i \in 1..Len(ss[n]) : \E j \in 1..Len(s) : s[j] = ss[n][i]
  BY <1>3, <1>4, <1>5, FlattenOnto
<1> HIDE DEF s
<1>8. ASSUME NEW j \in 1..Len(s) PROVE IsCall(t, s[j])
  <2>1. PICK n \in Steps(t) : \E i \in 1..Len(ss[n]) : s[j] = ss[n][i]  BY <1>6
  <2>2. PICK i \in 1..Len(ss[n]) : s[j] = ss[n][i]  BY <2>1
  <2>3. i \in 1..Len(Handled(t, n)) /\ s[j] = Op("call", n, <<CallId(Handled(t, n)[i], n)>>)
    BY <1>3, <2>2
  <2>4. CallId(Handled(t, n)[i], n) \in HandledIds(t, n)  BY <2>3 DEF HandledIds
  <2> QED BY <2>3, <2>4 DEF IsCall
<1>9. ASSUME NEW op, IsCall(t, op) PROVE \E i \in 1..Len(s) : s[i] = op
  <2>1. PICK n \in Steps(t) : \E id \in HandledIds(t, n) : op = Op("call", n, <<id>>)
    BY <1>9 DEF IsCall
  <2>2. PICK i \in 1..Len(Handled(t, n)) : op = Op("call", n, <<CallId(Handled(t, n)[i], n)>>)
    BY <2>1 DEF HandledIds
  <2>3. op = ss[n][i] /\ i \in 1..Len(ss[n])  BY <1>3, <2>2
  <2> QED BY <1>7, <2>3
<1>10. CallSaves(t) = s  BY DEF CallSaves, ss, s
<1> QED BY <1>6, <1>8, <1>9, <1>10 DEF t

\* The saves of snapshots are snapshots and their files.
LEMMA SnapshotSavesFacts ==
    ASSUME NEW k \in 1..Len(Traces)
    PROVE  LET s == SnapshotSaves(Traces[k])
           IN  IsSequence(s) /\ \A i \in 1..Len(s) : s[i].what \in {"snapshot", "files"}
<1> DEFINE t == Traces[k]
<1>1. Len(t.turns) \in Nat  BY TurnFacts
<1> HIDE DEF t
<1> DEFINE ss == [n \in Steps(t) |->
               IF \E j \in 1..Len(Handled(t, n)) : Handled(t, n)[j].writes
               THEN <<Op("snapshot", n, <<>>), Op("files", n, <<>>)>> ELSE <<>>]
<1>2. DOMAIN ss = 1..Len(t.turns) /\ ss = [i \in 1..Len(t.turns) |-> ss[i]]
  BY DEF Steps
<1>3. ASSUME NEW n \in Steps(t)
      PROVE  IsSequence(ss[n]) /\ \A j \in 1..Len(ss[n]) : ss[n][j].what \in {"snapshot", "files"}
  <2>1. IsSequence(<<>>) /\ Len(<<>>) = 0  BY DEF IsSequence
  <2> DEFINE a == Op("snapshot", n, <<>>)
             b == Op("files", n, <<>>)
  <2>2. a.what \in {"snapshot", "files"} /\ b.what \in {"snapshot", "files"}  BY DEF Op
  <2> HIDE DEF a, b
  <2>3. /\ IsSequence(<<a, b>>) /\ Len(<<a, b>>) = 2
        /\ <<a, b>>[1] = a /\ <<a, b>>[2] = b
    <3>1. <<a, b>> \in Seq({a, b})  OBVIOUS
    <3> QED BY <3>1, SequenceFacts
  <2>4. \A j \in 1..2 : <<a, b>>[j].what \in {"snapshot", "files"}  BY <2>2, <2>3
  <2>5. ss[n] \in {<<a, b>>, <<>>}  BY DEF a, b
  <2> HIDE DEF ss
  <2> QED BY <2>1, <2>3, <2>4, <2>5
<1> HIDE DEF ss
<1>4. IsSequence(ss) /\ Len(ss) = Len(t.turns)  BY <1>1, <1>2, SequenceOf
<1>5. \A i \in 1..Len(ss) : IsSequence(ss[i]) /\ \A j \in 1..Len(ss[i]) : ss[i][j].what \in {"snapshot", "files"}
  BY <1>3, <1>4 DEF Steps
<1>6. IsSequence(FlattenSeq(ss)) /\ \A j \in 1..Len(FlattenSeq(ss)) : FlattenSeq(ss)[j].what \in {"snapshot", "files"}
  BY <1>4, <1>5, FlattenKinds
<1> QED BY <1>6 DEF SnapshotSaves, ss, t

\* The messages a loop can leave.
MessageSet(t) ==
    {Op("system", 0, <<>>), Op("user", 0, <<>>), Op("assistant", Len(t.turns), <<>>)}
    \cup {Op("assistant", StepOfAssistant(t, n), NamedIds(t, n)) : n \in Steps(t)}
    \cup UNION {{Op("tool", StepOfToolMessage(t, id), <<id>>) : id \in HandledIds(t, n)} : n \in Steps(t)}

\* The messages of a run are of these kinds, with the steps the code resolves.
LEMMA MessagesFacts ==
    ASSUME NEW k \in 1..Len(Traces), NEW isFresh \in BOOLEAN
    PROVE  Messages(Traces[k], isFresh) \in Seq(MessageSet(Traces[k]))
<1> DEFINE t == Traces[k]
           S == MessageSet(t)
<1>0. Len(t.turns) \in Nat /\ \A n \in Steps(t) : Len(Handled(t, n)) \in Nat  BY TurnFacts
<1>1. Op("system", 0, <<>>) \in S /\ Op("user", 0, <<>>) \in S /\ Op("assistant", Len(t.turns), <<>>) \in S
  BY DEF MessageSet
<1>2. \A n \in Steps(t) : Op("assistant", StepOfAssistant(t, n), NamedIds(t, n)) \in S
  BY DEF MessageSet
<1>3. ASSUME NEW n \in Steps(t), NEW id \in HandledIds(t, n)
      PROVE  Op("tool", StepOfToolMessage(t, id), <<id>>) \in S
  <2> DEFINE Tools(m) == {Op("tool", StepOfToolMessage(t, i), <<i>>) : i \in HandledIds(t, m)}
  <2>1. Op("tool", StepOfToolMessage(t, id), <<id>>) \in Tools(n)  OBVIOUS
  <2>2. UNION {Tools(m) : m \in Steps(t)} \subseteq S  BY DEF MessageSet
  <2> HIDE DEF Tools, S, t
  <2> QED BY <2>1, <2>2
<1> HIDE DEF S, t
<1>4. /\ <<>> \in Seq(S) /\ \A e \in S : <<e>> \in Seq(S)
      /\ \A a, b \in Seq(S) : a \o b \in Seq(S)
  OBVIOUS
<1>5. ASSUME NEW n \in Steps(t) PROVE TurnMessages(t, n) \in Seq(S)
  <2> DEFINE tools == [j \in 1..Len(Handled(t, n)) |->
               LET id == CallId(Handled(t, n)[j], n) IN  Op("tool", StepOfToolMessage(t, id), <<id>>)]
             hd    == Op("assistant", StepOfAssistant(t, n), NamedIds(t, n))
             text  == Op("assistant", Len(t.turns), <<>>)
             nudge == IF n = Len(t.turns) /\ t.answered THEN <<>> ELSE <<Op("user", 0, <<>>)>>
  <2>1. tools \in Seq(S)
    <3>1. \A j \in 1..Len(Handled(t, n)) : CallId(Handled(t, n)[j], n) \in HandledIds(t, n)
      BY DEF HandledIds
    <3>2. \A j \in 1..Len(Handled(t, n)) : tools[j] \in S  BY <1>3, <3>1
    <3>3. DOMAIN tools = 1..Len(Handled(t, n)) /\ tools = [j \in 1..Len(Handled(t, n)) |-> tools[j]]
      OBVIOUS
    <3> HIDE DEF tools
    <3>4. IsSequence(tools) /\ Len(tools) = Len(Handled(t, n))  BY <1>0, <3>3, SequenceOf
    <3> QED BY <3>2, <3>4, SequenceFacts
  <2>2. hd \in S /\ text \in S /\ nudge \in Seq(S)  BY <1>1, <1>2, <1>4
  <2>3. TurnMessages(t, n) = IF t.turns[n] # <<>> THEN <<hd>> \o tools ELSE <<text>> \o nudge
    BY DEF TurnMessages
  <2> HIDE DEF tools, hd, text, nudge
  <2> QED BY <1>4, <2>1, <2>2, <2>3
<1> DEFINE ss == [n \in Steps(t) |-> TurnMessages(t, n)]
<1>6. FlattenSeq(ss) \in Seq(S)
  <2>1. DOMAIN ss = 1..Len(t.turns) /\ ss = [n \in 1..Len(t.turns) |-> ss[n]]
    BY DEF Steps
  <2>2. \A n \in Steps(t) : ss[n] \in Seq(S)  BY <1>5
  <2> HIDE DEF ss
  <2>3. IsSequence(ss) /\ Len(ss) = Len(t.turns)  BY <1>0, <2>1, SequenceOf DEF t
  <2> QED BY <2>2, <2>3, FlattenType DEF Steps
<1> DEFINE first == IF isFresh THEN <<Op("system", 0, <<>>)>> ELSE <<>>
           asked == <<Op("user", 0, <<>>)>>
<1>7. first \in Seq(S) /\ asked \in Seq(S)  BY <1>1, <1>4
<1>8. Messages(t, isFresh) = first \o asked \o FlattenSeq(ss)  BY DEF Messages
<1> HIDE DEF first, asked, ss
<1> QED BY <1>4, <1>6, <1>7, <1>8 DEF S, t

\* Where the messages begin in what a run has to save.
Before(t, isFresh) == Len(Records(t, isFresh)) - Len(Messages(t, isFresh))

\* The agenda is the rows, of every call among them, then the messages, then
\* the completion.
LEMMA AgendaFacts ==
    ASSUME NEW k \in 1..Len(Traces), NEW isFresh \in BOOLEAN
    PROVE  LET t == Traces[k]
               A == Agenda(t, isFresh)
               R == Records(t, isFresh)
               M == Messages(t, isFresh)
               b == Before(t, isFresh)
           IN  /\ b \in Nat /\ Len(M) \in Nat /\ Len(R) = b + Len(M) /\ Len(A) = Len(R) + 1
               /\ \A i \in 1..Len(R) : A[i] = R[i]
               /\ \A i \in 1..b : R[i].what \in RowOps
               /\ \A i \in 1..Len(M) : R[b + i] = M[i] /\ M[i] \in MessageSet(t)
               /\ A[Len(R) + 1] = Op("complete", 0, <<>>)
               /\ \A op : IsCall(t, op) => \E i \in 1..b : R[i] = op
               /\ \A i \in 1..b : R[i].what = "call" => IsCall(t, R[i])
<1> DEFINE t == Traces[k]
           M == Messages(t, isFresh)
           p == StepSaves(t)
           q == CallSaves(t)
           s == SnapshotSaves(t)
<1>1. IsSequence(p) /\ \A i \in 1..Len(p) : p[i].what = "step"  BY StepSavesFacts
<1>2. /\ IsSequence(q) /\ \A i \in 1..Len(q) : IsCall(t, q[i])
      /\ \A op : IsCall(t, op) => \E i \in 1..Len(q) : q[i] = op
  BY CallSavesFacts
<1>3. IsSequence(s) /\ \A i \in 1..Len(s) : s[i].what \in {"snapshot", "files"}  BY SnapshotSavesFacts
<1>4. M \in Seq(MessageSet(t))  BY MessagesFacts
<1>5. Records(t, isFresh) = p \o q \o s \o M  BY DEF Records
<1>6. \A op : IsCall(t, op) => op.what = "call"  BY DEF IsCall, Op
<1>7. Agenda(t, isFresh) = Append(Records(t, isFresh), Op("complete", 0, <<>>))  BY DEF Agenda
<1> HIDE DEF t, M, p, q, s
<1>8. /\ IsSequence(p \o q) /\ Len(p) \in Nat /\ Len(q) \in Nat /\ Len(p \o q) = Len(p) + Len(q)
      /\ \A i \in 1..Len(p) : (p \o q)[i] = p[i]
      /\ \A i \in 1..Len(q) : (p \o q)[Len(p) + i] = q[i]
  BY <1>1, <1>2, ConcatFacts
<1> DEFINE u == p \o q
<1>9. IsSequence(u)  BY <1>8
<1> HIDE DEF u
<1>10. /\ IsSequence(u \o s) /\ Len(u) \in Nat /\ Len(s) \in Nat /\ Len(u \o s) = Len(u) + Len(s)
       /\ \A i \in 1..Len(u) : (u \o s)[i] = u[i]
       /\ \A i \in 1..Len(s) : (u \o s)[Len(u) + i] = s[i]
  BY <1>3, <1>9, ConcatFacts
<1> DEFINE v == u \o s
<1>11. IsSequence(v) /\ IsSequence(M)  BY <1>4, <1>10, SequenceFacts
<1> HIDE DEF v
<1>12. /\ IsSequence(v \o M) /\ Len(v) \in Nat /\ Len(M) \in Nat /\ Len(v \o M) = Len(v) + Len(M)
       /\ \A i \in 1..Len(v) : (v \o M)[i] = v[i]
       /\ \A i \in 1..Len(M) : (v \o M)[Len(v) + i] = M[i]
  BY <1>11, ConcatFacts
<1> DEFINE R == v \o M
<1>13. Records(t, isFresh) = R  BY <1>5 DEF R, v, u
<1>14. IsSequence(R)  BY <1>12
<1> DEFINE A == Append(R, Op("complete", 0, <<>>))
<1>15. Agenda(t, isFresh) = A  BY <1>7, <1>13
<1> HIDE DEF R
<1>16. /\ Len(R) \in Nat /\ Len(A) = Len(R) + 1
       /\ \A i \in 1..Len(R) : A[i] = R[i]
       /\ A[Len(R) + 1] = Op("complete", 0, <<>>)
  BY <1>14, AppendFacts
<1> HIDE DEF A
<1>17. Len(R) = Len(v) + Len(M) /\ Len(v) = Len(p) + Len(q) + Len(s)
  BY <1>8, <1>10, <1>12 DEF R, v, u
<1>18. \A i \in 1..Len(v) : R[i] = v[i]  BY <1>12 DEF R
<1>19. \A i \in 1..Len(M) : R[Len(v) + i] = M[i]  BY <1>12 DEF R
<1>20. \A i \in 1..Len(p) : v[i] = p[i]
  <2>1. \A i \in 1..Len(p) : i \in 1..Len(u)  BY <1>8 DEF u
  <2> QED BY <1>8, <1>10, <2>1 DEF u, v
<1>21. \A i \in 1..Len(q) : v[Len(p) + i] = q[i]
  <2>1. \A i \in 1..Len(q) : Len(p) + i \in 1..Len(u)  BY <1>8 DEF u
  <2> QED BY <1>8, <1>10, <2>1 DEF u, v
<1>22. \A i \in 1..Len(s) : v[Len(p) + Len(q) + i] = s[i]
  BY <1>8, <1>10 DEF u, v
<1>23. ASSUME NEW i \in 1..Len(v)
       PROVE  /\ v[i].what \in RowOps
              /\ v[i].what = "call" => IsCall(t, v[i])
  <2>1. CASE i \in 1..Len(p)
    <3>1. v[i].what = "step"  BY <1>1, <1>20, <2>1
    <3> QED BY <3>1 DEF RowOps
  <2>2. CASE i \in (Len(p) + 1)..(Len(p) + Len(q))
    <3>1. i - Len(p) \in 1..Len(q) /\ i = Len(p) + (i - Len(p))  BY <1>8, <2>2
    <3>2. v[i] = q[i - Len(p)]  BY <1>21, <3>1
    <3>3. IsCall(t, v[i])  BY <1>2, <3>1, <3>2
    <3> QED BY <1>6, <3>3 DEF RowOps
  <2>3. CASE i \in (Len(p) + Len(q) + 1)..(Len(p) + Len(q) + Len(s))
    <3> DEFINE j == i - (Len(p) + Len(q))
    <3>1. j \in 1..Len(s) /\ i = Len(p) + Len(q) + j  BY <1>8, <1>10, <2>3
    <3> HIDE DEF j
    <3>2. v[i] = s[j]  BY <1>22, <3>1
    <3> QED BY <1>3, <3>1, <3>2 DEF RowOps
  <2> QED BY <1>8, <1>10, <1>17, <2>1, <2>2, <2>3
<1>24. ASSUME NEW op, IsCall(t, op) PROVE \E i \in 1..Len(v) : R[i] = op
  <2>1. PICK j \in 1..Len(q) : q[j] = op  BY <1>2, <1>24
  <2>2. Len(p) + j \in 1..Len(v)  BY <1>8, <1>10, <1>17
  <2> QED BY <1>18, <1>21, <2>1, <2>2
<1>25. \A i \in 1..Len(M) : M[i] \in MessageSet(t)  BY <1>4
<1>26. Before(t, isFresh) = Len(v)
  <2>1. Before(t, isFresh) = Len(R) - Len(M)  BY <1>13 DEF Before, M
  <2> QED BY <1>12, <1>17, <2>1
<1>27. /\ Len(v) \in Nat /\ Len(M) \in Nat /\ Len(R) = Len(v) + Len(M) /\ Len(A) = Len(R) + 1
       /\ \A i \in 1..Len(v) : R[i].what \in RowOps
       /\ \A i \in 1..Len(v) : R[i].what = "call" => IsCall(t, R[i])
  BY <1>12, <1>16, <1>17, <1>18, <1>23
<1> QED BY <1>13, <1>15, <1>16, <1>19, <1>24, <1>25, <1>26, <1>27, Zenon DEF t, M

-------------------------------------------------------------------------------
(* The tables.                                                             *)

\* The tables have the columns they are created with.
Tables(d) ==
    /\ d = [model |-> d.model, status |-> d.status, rows |-> d.rows, msgs |-> d.msgs]
    /\ d.model \in [Sessions -> SessionRow]
    /\ d.status \in [Runs -> Status]
    /\ \A row \in d.rows : row.run \in Runs
    /\ d.msgs = [s \in Sessions |-> d.msgs[s]]
    /\ \A s \in Sessions :
          /\ IsSequence(d.msgs[s])
          /\ \A i \in 1..Len(d.msgs[s]) : d.msgs[s][i].run \in Runs

\* All kinds of saves.
Saved == {"create", "complete", "touch", "step", "call", "snapshot", "files"} \cup MessageOps

\* What the save of an operation changes.
LEMMA StoreFacts ==
    ASSUME Tables(db), NEW r, NEW op
    PROVE  /\ op.what = "create" =>
                Store(r, op) = [model |-> db.model, status |-> [db.status EXCEPT ![r] = "running"],
                                rows |-> db.rows, msgs |-> db.msgs]
           /\ op.what = "complete" =>
                Store(r, op) = [model |-> db.model,
                                status |-> [db.status EXCEPT ![r] = FinalStatus(Traces[trace[r]])],
                                rows |-> db.rows, msgs |-> db.msgs]
           /\ op.what = "touch" =>
                Store(r, op) = [model |-> [db.model EXCEPT ![sessionOf[r]] = seen[r]],
                                status |-> db.status, rows |-> db.rows, msgs |-> db.msgs]
           /\ op.what \in RowOps =>
                Store(r, op) = [model |-> db.model, status |-> db.status,
                                rows |-> db.rows \cup {Row(r, op)}, msgs |-> db.msgs]
           /\ op.what \in MessageOps =>
                Store(r, op) = [model |-> db.model, status |-> db.status, rows |-> db.rows,
                                msgs |-> [db.msgs EXCEPT ![sessionOf[r]] = Append(@, Row(r, op))]]
<1>0. db = [model |-> db.model, status |-> db.status, rows |-> db.rows, msgs |-> db.msgs]
  BY DEF Tables
<1>1. CASE op.what = "create"
  BY <1>0, <1>1 DEF Store, InsertRun, RowOps, MessageOps
<1>2. CASE op.what = "complete"
  BY <1>0, <1>2 DEF Store, CompleteRun, RowOps, MessageOps
<1>3. CASE op.what = "touch"
  BY <1>0, <1>3 DEF Store, UpdateModel, RowOps, MessageOps
<1>4. CASE op.what \in RowOps
  BY <1>0, <1>4 DEF Store, AddStep, AddToolCall, SaveSnapshot, RowOps, MessageOps
<1>5. CASE op.what \in MessageOps
  BY <1>0, <1>5 DEF Store, AppendMessage, RowOps, MessageOps
<1> QED BY <1>1, <1>2, <1>3, <1>4, <1>5

\* Where a run holds the lock of its session, and where it has no agenda yet.
Holding == {"creating", "planning", "beginning", "loop", "saving", "touching", "touched"}
Early   == {"new", "locking", "creating", "planning", "beginning", "loop"}

\* The types of all that the runs, the requests and the migrations share.
\* What a PATCH that has read its row is about to write.
Edits == [session : Sessions, seen : Models, to : SessionRow]

Types ==
    /\ MInv
    /\ Tables(db) /\ Tables(disk)
    /\ sessionOf \in [Runs -> Sessions]
    /\ pc \in [Runs -> Labels]
    /\ next \in [Runs -> Nat]
    /\ trace \in [Runs -> Nat]
    /\ fresh \in [Runs -> BOOLEAN]
    /\ seen \in [Runs -> SessionRow]
    /\ lock \in [Sessions -> Runs \cup {None}]
    /\ planner \in Runs \cup Sessions \cup {None}
    /\ acked \in [Sessions -> SessionRow]
    /\ raced \in [Sessions -> BOOLEAN]
    /\ edit \in [Patches -> Edits \cup {None}]

\* What a run holds where it is.
Points ==
    \A r \in Runs :
        /\ pc[r] \in Early => next[r] = 1
        /\ pc[r] = "saving" => trace[r] \in 1..Len(Traces) /\ next[r] \in 1..Len(AgendaOf(r))
        /\ pc[r] = "touched" => seen[r] \in Models

\* A run that is under way has the lock of its session, and nobody else.
Locked ==
    /\ \A r \in Runs : pc[r] \in Holding => lock[sessionOf[r]] = r
    /\ \A s \in Sessions : lock[s] # None => pc[lock[s]] \in Holding /\ sessionOf[lock[s]] = s

\* The save that a run is at.
SavesOp(r, op) ==
    \/ pc[r] = "creating" /\ op = Op("create", 0, <<>>)
    \/ pc[r] = "saving" /\ op = AgendaOf(r)[next[r]]
    \/ pc[r] = "touched" /\ op = Op("touch", 0, <<>>) /\ ~SessionMissing(r)

\* The agenda of a run that saves, by its place.
LEMMA AgendaOfFacts ==
    ASSUME Types, NEW r \in Runs, trace[r] \in 1..Len(Traces)
    PROVE  LET t == Traces[trace[r]]
           IN  /\ AgendaOf(r) = Agenda(t, fresh[r])
               /\ AllRecords[trace[r]][fresh[r]] = Records(t, fresh[r])
               /\ AllMessages[trace[r]][fresh[r]] = Messages(t, fresh[r])
<1>1. fresh[r] \in BOOLEAN  BY DEF Types
<1> QED BY <1>1 DEF AgendaOf, Agendas, AllRecords, AllMessages

\* What a run saves where.
LEMMA OpKinds ==
    ASSUME Types, Points, NEW r \in Runs, NEW op, SavesOp(r, op)
    PROVE  /\ op.what \in {"create", "complete", "touch"} \cup RowOps \cup MessageOps
           /\ op.what = "create" <=> pc[r] = "creating"
           /\ op.what = "touch" <=> pc[r] = "touched"
<1>1. CASE pc[r] = "creating"  BY <1>1 DEF SavesOp, Op
<1>2. CASE pc[r] = "touched"  BY <1>2 DEF SavesOp, Op
<1>3. CASE pc[r] = "saving"
  <2> DEFINE t == Traces[trace[r]]
             A == Agenda(t, fresh[r])
             R == Records(t, fresh[r])
             M == Messages(t, fresh[r])
             b == Before(t, fresh[r])
             i == next[r]
  <2>1. trace[r] \in 1..Len(Traces) /\ fresh[r] \in BOOLEAN  BY <1>3 DEF Points, Types
  <2>2. op = A[i] /\ i \in 1..Len(A)  BY <1>3, <2>1, AgendaOfFacts DEF Points, SavesOp
  <2>3. /\ b \in Nat /\ Len(M) \in Nat /\ Len(R) = b + Len(M) /\ Len(A) = Len(R) + 1
        /\ \A j \in 1..Len(R) : A[j] = R[j]
        /\ \A j \in 1..b : R[j].what \in RowOps
        /\ \A j \in 1..Len(M) : R[b + j] = M[j] /\ M[j] \in MessageSet(t)
        /\ A[Len(R) + 1] = Op("complete", 0, <<>>)
    BY <2>1, AgendaFacts
  <2>4. \A e \in MessageSet(t) : e.what \in MessageOps
    BY DEF MessageSet, Op, MessageOps
  <2> HIDE DEF t, A, R, M, b
  <2>5. CASE i \in 1..b
    <3>1. op.what \in RowOps  BY <2>2, <2>3, <2>5
    <3> QED BY <1>3, <3>1 DEF RowOps
  <2>6. CASE i \in (b + 1)..Len(R)
    <3>1. i - b \in 1..Len(M) /\ i = b + (i - b)
      <4> HIDE DEF i
      <4> QED BY <2>3, <2>6
    <3>2. op = M[i - b]  BY <2>2, <2>3, <2>6, <3>1
    <3>3. op.what \in MessageOps  BY <2>3, <2>4, <3>1, <3>2
    <3> QED BY <1>3, <3>3 DEF MessageOps
  <2>7. CASE i = Len(R) + 1  BY <1>3, <2>2, <2>3, <2>7 DEF Op
  <2> QED BY <2>2, <2>3, <2>5, <2>6, <2>7
<1> QED BY <1>1, <1>2, <1>3 DEF SavesOp

\* A crash: the connection is what is committed, and no run is under way.
Restarted ==
    /\ db' = disk
    /\ pc' = [r \in Runs |-> IF Running(r) THEN "crashed" ELSE pc[r]]

\* A step of a run saves at most the operation that it is at.
LEMMA RunSaves ==
    ASSUME NEW r \in Runs, RunStep(r)
    PROVE  /\ UNCHANGED <<sessionOf, edit, acked, raced>>
           /\ disk' \in {disk, db'}
           /\ \/ db' = db
              \/ \E op : SavesOp(r, op) /\ ~Refused(r, op) /\ db' = Store(r, op)
<1> USE DEF history
<1>0. ASSUME NEW op, SavesOp(r, op), Saves(r, op) \/ SaveRaises(r, op)
      PROVE  /\ disk' \in {disk, db'}
             /\ \/ db' = db
                \/ ~Refused(r, op) /\ db' = Store(r, op)
  BY <1>0 DEF Saves, SaveRaises
<1>1. CASE Start(r)  BY <1>1 DEF Start
<1>2. CASE Busy(r)  BY <1>2 DEF Busy
<1>3. CASE Lock(r)  BY <1>3 DEF Lock
<1>4. CASE CreateRun(r)
  <2>1. SavesOp(r, Op("create", 0, <<>>))  BY <1>4 DEF CreateRun, SavesOp
  <2> QED BY <1>0, <1>4, <2>1 DEF CreateRun
<1>5. CASE SetLlm(r)  BY <1>5 DEF SetLlm
<1>6. CASE BeginRun(r)  BY <1>6 DEF BeginRun
<1>7. CASE RunLoop(r)  BY <1>7 DEF RunLoop
<1>8. CASE Save(r)
  <2>1. SavesOp(r, AgendaOf(r)[next[r]])  BY <1>8 DEF Save, SavesOp
  <2> QED BY <1>0, <1>8, <2>1 DEF Save
<1>9. CASE ReadRow(r)  BY <1>9 DEF ReadRow
<1>10. CASE WriteRow(r)
  <2>1. CASE SessionMissing(r)  BY <1>10, <2>1 DEF WriteRow
  <2>2. CASE ~SessionMissing(r)
    <3>1. SavesOp(r, Op("touch", 0, <<>>))  BY <1>10, <2>2 DEF WriteRow, SavesOp
    <3> QED BY <1>0, <1>10, <2>2, <3>1 DEF WriteRow
  <2> QED BY <2>1, <2>2
<1> QED BY <1>1, <1>2, <1>3, <1>4, <1>5, <1>6, <1>7, <1>8, <1>9, <1>10 DEF RunStep

\* A PATCH moves no run, and writes the row as a whole when it writes.
LEMMA PatchMoves ==
    ASSUME Types, NEW p \in Patches, Patch(p)
    PROVE  /\ UNCHANGED <<migrationVars, runVars, sessionOf, lock, planner>>
           /\ disk' \in {disk, db'}
           /\ \/ /\ UNCHANGED <<db, disk, acked, raced>>
                 /\ \E s \in Sessions, to \in Models \cup {None} :
                       /\ db.model[s] # None
                       /\ edit' = [edit EXCEPT ![p] =
                                     [session |-> s, seen |-> db.model[s], to |-> to]]
              \/ /\ edit[p] # None /\ edit[p] \in Edits
                 /\ edit' = [edit EXCEPT ![p] = None]
                 /\ db' \in {db, Patched(edit[p])}
                 /\ \/ edit[p].to = None /\ UNCHANGED <<acked, raced>>
                       /\ db' = Patched(edit[p]) /\ disk' = db'
                    \/ /\ edit[p].to # None
                       /\ db' = Patched(edit[p]) /\ disk' = db'
                       /\ acked' = [acked EXCEPT ![edit[p].session] = edit[p].to]
                       /\ raced' = [raced EXCEPT ![edit[p].session] = Overlapped(edit[p].session)]
                    \/ /\ UNCHANGED <<disk, acked>>
                       /\ raced' = [raced EXCEPT ![edit[p].session] = @ \/ db' # db]
<1>1. CASE \E s \in Sessions, to \in Models \cup {None} : PatchReads(p, s, to)
  BY <1>1 DEF PatchReads
<1>2. CASE PatchWrites(p)
  <2>1. edit[p] \in Edits  BY <1>2 DEF PatchWrites, Types
  <2> QED BY <1>2, <2>1, Zenon DEF PatchWrites
<1> QED BY <1>1, <1>2 DEF Patch

\* A PATCH that writes sets the model of one session to one it has read or sets.
LEMMA PatchedOne ==
    ASSUME NEW e \in Edits, db' = Patched(e)
    PROVE  db' = db \/ \E m \in Models : db.model[e.session] # None /\ db' = UpdateModel(e.session, m)
<1>1. e.seen \in Models /\ (e.to # None => e.to \in Models)  BY DEF Edits, SessionRow
<1>2. (IF e.to = None THEN e.seen ELSE e.to) \in Models  BY <1>1
<1> QED BY <1>2, Zenon DEF Patched

\* What a step does to the tables: what is committed stays or becomes what the
\* connection sees, and that changes by the one save that a run is at, by a
\* request or by a crash.
LEMMA TableMoves ==
    ASSUME Types, [Next]_vars
    PROVE  /\ UNCHANGED sessionOf
           /\ disk' \in {disk, db'}
           /\ \/ db' = db
              \/ Restarted
              \/ \E r \in Runs : \E op : SavesOp(r, op) /\ ~Refused(r, op) /\ db' = Store(r, op)
              \/ \E s \in Sessions : db' = Cascaded(s)
              \/ \E s \in Sessions : \E m \in Models : db' = UpdateModel(s, m)
<1>1. CASE UNCHANGED vars  BY <1>1 DEF vars
<1>2. ASSUME NEW s \in Sessions, Delete(s)
      PROVE  UNCHANGED sessionOf /\ disk' \in {disk, db'} /\ db' = Cascaded(s)
  BY <1>2 DEF Delete
<1>3. ASSUME NEW p \in Patches, Patch(p)
      PROVE  /\ UNCHANGED sessionOf /\ disk' \in {disk, db'}
             /\ db' = db \/ \E s \in Sessions : \E m \in Models : db' = UpdateModel(s, m)
  <2>1. CASE UNCHANGED db  BY <1>3, <2>1, PatchMoves
  <2>2. CASE edit[p] \in Edits /\ db' = Patched(edit[p])
    <3>1. edit[p].session \in Sessions  BY <2>2 DEF Edits
    <3> QED BY <1>3, <2>2, <3>1, PatchMoves, PatchedOne
  <2> QED BY <1>3, <2>1, <2>2, PatchMoves
<1>4. CASE Migrate  BY <1>4 DEF Migrate
<1>5. CASE Crash  BY <1>5 DEF Crash, Restarted
<1>6. ASSUME NEW s \in Sessions, RefreshPlan(s) PROVE UNCHANGED <<sessionOf, db, disk>>
  BY <1>6 DEF RefreshPlan
<1> QED BY <1>1, <1>2, <1>3, <1>4, <1>5, <1>6, RunSaves, Zenon DEF Next

\* What a step does to the tables keeps their columns.
LEMMA TablesKept ==
    ASSUME Types, Points, [Next]_vars
    PROVE  Tables(db') /\ Tables(disk')
<1>1. Tables(db) /\ Tables(disk) /\ sessionOf \in [Runs -> Sessions]  BY DEF Types
<1>2. ASSUME NEW r \in Runs, NEW op, SavesOp(r, op), db' = Store(r, op)
      PROVE  Tables(db')
  <2>0. sessionOf[r] \in Sessions /\ Row(r, op).run = r  BY <1>1 DEF Row
  <2>1. CASE op.what = "create"
    <3>1. db' = [model |-> db.model, status |-> [db.status EXCEPT ![r] = "running"],
                 rows |-> db.rows, msgs |-> db.msgs]
      BY <1>1, <1>2, <2>1, StoreFacts
    <3> QED BY <1>1, <3>1 DEF Tables, Status
  <2>2. CASE op.what = "complete"
    <3>1. db' = [model |-> db.model,
                 status |-> [db.status EXCEPT ![r] = FinalStatus(Traces[trace[r]])],
                 rows |-> db.rows, msgs |-> db.msgs]
      BY <1>1, <1>2, <2>2, StoreFacts
    <3> QED BY <1>1, <3>1 DEF Tables, Status, FinalStatus
  <2>3. CASE op.what = "touch"
    <3>1. db' = [model |-> [db.model EXCEPT ![sessionOf[r]] = seen[r]],
                 status |-> db.status, rows |-> db.rows, msgs |-> db.msgs]
      BY <1>1, <1>2, <2>3, StoreFacts
    <3>2. seen[r] \in SessionRow  BY DEF Types
    <3> QED BY <1>1, <3>1, <3>2 DEF Tables
  <2>4. CASE op.what \in RowOps
    <3>1. db' = [model |-> db.model, status |-> db.status,
                 rows |-> db.rows \cup {Row(r, op)}, msgs |-> db.msgs]
      BY <1>1, <1>2, <2>4, StoreFacts
    <3> QED BY <1>1, <2>0, <3>1 DEF Tables
  <2>5. CASE op.what \in MessageOps
    <3> DEFINE s == sessionOf[r]
               e == Row(r, op)
    <3>1. db' = [model |-> db.model, status |-> db.status, rows |-> db.rows,
                 msgs |-> [db.msgs EXCEPT ![s] = Append(@, e)]]
      BY <1>1, <1>2, <2>5, StoreFacts
    <3>2. s \in Sessions /\ e.run \in Runs  BY <2>0
    <3> HIDE DEF s, e
    <3>3. /\ IsSequence(db.msgs[s])
          /\ \A i \in 1..Len(db.msgs[s]) : db.msgs[s][i].run \in Runs
      BY <1>1, <3>2 DEF Tables
    <3>4. /\ IsSequence(Append(db.msgs[s], e)) /\ Len(db.msgs[s]) \in Nat
          /\ Len(Append(db.msgs[s], e)) = Len(db.msgs[s]) + 1
          /\ \A i \in 1..Len(db.msgs[s]) : Append(db.msgs[s], e)[i] = db.msgs[s][i]
          /\ Append(db.msgs[s], e)[Len(db.msgs[s]) + 1] = e
      BY <3>3, AppendFacts
    <3>5. \A i \in 1..(Len(db.msgs[s]) + 1) : Append(db.msgs[s], e)[i].run \in Runs
      BY <3>2, <3>3, <3>4
    <3>6. \A z \in Sessions : db'.msgs[z] = IF z = s THEN Append(db.msgs[s], e) ELSE db.msgs[z]
      BY <1>1, <3>1, <3>2 DEF Tables
    <3>7. \A z \in Sessions : /\ IsSequence(db'.msgs[z])
                              /\ \A i \in 1..Len(db'.msgs[z]) : db'.msgs[z][i].run \in Runs
      BY <1>1, <3>4, <3>5, <3>6 DEF Tables
    <3>8. /\ db' = [model |-> db'.model, status |-> db'.status, rows |-> db'.rows, msgs |-> db'.msgs]
          /\ db'.model = db.model /\ db'.status = db.status /\ db'.rows = db.rows
      BY <3>1
    <3>9. db'.msgs = [z \in Sessions |-> db'.msgs[z]]
      BY <1>1, <3>1 DEF Tables
    <3> QED BY <1>1, <3>7, <3>8, <3>9 DEF Tables
  <2> QED BY <1>2, <2>1, <2>2, <2>3, <2>4, <2>5, OpKinds
<1>3. ASSUME NEW s \in Sessions, db' = Cascaded(s) PROVE Tables(db')
  <2>1. /\ db'.model = [db.model EXCEPT ![s] = None]
        /\ db'.status = [r \in Runs |-> IF sessionOf[r] = s THEN "absent" ELSE db.status[r]]
        /\ db'.rows \subseteq db.rows
        /\ db'.msgs = [db.msgs EXCEPT ![s] = <<>>]
        /\ db' = [model |-> db'.model, status |-> db'.status, rows |-> db'.rows, msgs |-> db'.msgs]
    BY <1>3 DEF Cascaded
  <2>2. \A z \in Sessions : db'.msgs[z] = IF z = s THEN <<>> ELSE db.msgs[z]
    BY <1>1, <2>1 DEF Tables
  <2>3. db'.msgs = [z \in Sessions |-> db'.msgs[z]]  BY <1>1, <2>1 DEF Tables
  <2>4. db'.model \in [Sessions -> SessionRow]
    BY <1>1, <2>1 DEF Tables, SessionRow
  <2>5. db'.status \in [Runs -> Status]
    BY <1>1, <2>1 DEF Tables, Status
  <2>6. IsSequence(<<>>) /\ Len(<<>>) = 0  BY DEF IsSequence
  <2> QED BY <1>1, <2>1, <2>2, <2>3, <2>4, <2>5, <2>6 DEF Tables
<1>4. ASSUME NEW s \in Sessions, NEW m \in Models, db' = UpdateModel(s, m) PROVE Tables(db')
  <2>1. db' = [model |-> [db.model EXCEPT ![s] = m], status |-> db.status,
               rows |-> db.rows, msgs |-> db.msgs]
    BY <1>1, <1>4 DEF Tables, UpdateModel
  <2> QED BY <1>1, <2>1 DEF Tables, SessionRow
<1>5. Tables(db')
  BY <1>1, <1>2, <1>3, <1>4, TableMoves DEF Restarted
<1> QED BY <1>1, <1>5, TableMoves

\* The runs leave the migrations alone, and the migrations the runs.
LEMMA StepMigrates ==
    ASSUME [Next]_vars
    PROVE  [MNext]_migrationVars
<1>1. CASE UNCHANGED vars  BY <1>1 DEF vars
<1>2. ASSUME NEW r \in Runs, RunStep(r) PROVE UNCHANGED migrationVars
  <2>1. CASE Start(r)  BY <2>1 DEF Start
  <2>2. CASE Busy(r)  BY <2>2 DEF Busy
  <2>3. CASE Lock(r)  BY <2>3 DEF Lock
  <2>4. CASE CreateRun(r)  BY <2>4 DEF CreateRun
  <2>5. CASE SetLlm(r)  BY <2>5 DEF SetLlm
  <2>6. CASE BeginRun(r)  BY <2>6 DEF BeginRun
  <2>7. CASE RunLoop(r)  BY <2>7 DEF RunLoop
  <2>8. CASE Save(r)  BY <2>8 DEF Save
  <2>9. CASE ReadRow(r)  BY <2>9 DEF ReadRow
  <2>10. CASE WriteRow(r)  BY <2>10 DEF WriteRow
  <2> QED BY <1>2, <2>1, <2>2, <2>3, <2>4, <2>5, <2>6, <2>7, <2>8, <2>9, <2>10 DEF RunStep
<1>3. ASSUME NEW s \in Sessions, Delete(s) PROVE UNCHANGED migrationVars
  BY <1>3 DEF Delete
<1>4. ASSUME NEW p \in Patches, Patch(p) PROVE UNCHANGED migrationVars
  BY <1>4 DEF Patch, PatchReads, PatchWrites
<1>7. ASSUME NEW s \in Sessions, RefreshPlan(s) PROVE UNCHANGED migrationVars
  BY <1>7 DEF RefreshPlan
<1>5. CASE Migrate  BY <1>5 DEF Migrate, MNext
<1>6. CASE Crash  BY <1>6 DEF Crash, MNext
<1> QED BY <1>1, <1>2, <1>3, <1>4, <1>5, <1>6, <1>7 DEF Next

\* The invariant of the migrations holds of the whole program.
LEMMA MigrationsInit ==
    ASSUME MInit
    PROVE  MInv
<1>1. Closed \notin Positions /\ Closed # Open  BY PositionFacts DEF Closed, Open
<1> QED BY <1>1 DEF MInit, MInv, MTypeOK, RecordedInOrder, RecordedApplied, AtFirstMissing

\* No interruption leaves a version recorded whose statements did not run.
LEMMA RecordedIsApplied ==
    ASSUME MInv
    PROVE  VersionMeansApplied
<1>1. ASSUME NEW v \in recorded, NEW s \in Statements, s[1] <= v PROVE s \in schema
  <2>1. PICK w \in Versions : \E k \in 1..Len(Scripts[w]) : s = <<w, k>>  BY PositionFacts
  <2>2. PICK k \in 1..Len(Scripts[w]) : s = <<w, k>>  BY <2>1
  <2>3. w \in recorded  BY <1>1, <2>2 DEF MInv, RecordedInOrder
  <2> QED BY <2>2, <2>3 DEF MInv, RecordedApplied
<1>2. ASSUME at = Open PROVE schema = Statements
  <2>1. Versions \subseteq recorded  BY <1>2 DEF MInv, AtFirstMissing
  <2>2. ASSUME NEW s \in Statements PROVE s \in schema
    <3>1. PICK w \in Versions : \E k \in 1..Len(Scripts[w]) : s = <<w, k>>  BY PositionFacts
    <3> QED BY <2>1, <3>1 DEF MInv, RecordedApplied
  <2> QED BY <2>2 DEF MInv, MTypeOK
<1> QED BY <1>1, <1>2 DEF VersionMeansApplied

\* A recorded version, and every version before it, has had each of its
\* statements executed, wherever apply_migrations was interrupted; the program
\* never runs on tables it does not have.
THEOREM VersionMeansAppliedHolds == Spec => []VersionMeansApplied
<1>1. Init => MInv  BY MigrationsInit DEF Init
<1>2. MInv /\ [Next]_vars => MInv'  BY StepMigrates, MigrationStep
<1>3. MInv => VersionMeansApplied  BY RecordedIsApplied
<1> QED BY <1>1, <1>2, <1>3, PTL DEF Spec

-------------------------------------------------------------------------------
(* The types, and where a run is.                                          *)

\* The program starts with empty tables and idle runs.
LEMMA TypesInit ==
    ASSUME Init
    PROVE  Types /\ Points /\ Locked
<1>1. PICK w \in Workloads :
         /\ sessionOf = w.sessionOf /\ acked = w.model
         /\ db = [EmptyDb EXCEPT !.model = w.model]
  BY DEF Init
<1>2. db = [model |-> w.model, status |-> [r \in Runs |-> "absent"],
            rows |-> {}, msgs |-> [s \in Sessions |-> <<>>]]
  BY <1>1 DEF EmptyDb
<1>3. IsSequence(<<>>) /\ Len(<<>>) = 0  BY DEF IsSequence
<1>4. Tables(db) /\ Tables(disk)
  <2>1. Tables(db)  BY <1>2, <1>3, RunsAssumption DEF Tables, SessionRow, Status
  <2> QED BY <2>1 DEF Init
<1>5. Types
  BY <1>1, <1>4, MigrationsInit, RunsAssumption DEF Init, Types, Labels, SessionRow
<1>6. Points  BY DEF Init, Points, Early
<1>7. Locked  BY <1>5 DEF Init, Locked, Holding, Types
<1> QED BY <1>5, <1>6, <1>7

\* A step of a run moves this run only.
LEMMA OnlyTheRun ==
    ASSUME Types, NEW r \in Runs, RunStep(r)
    PROVE  \A q \in Runs : q # r =>
              /\ pc'[q] = pc[q] /\ next'[q] = next[q] /\ trace'[q] = trace[q]
              /\ fresh'[q] = fresh[q] /\ seen'[q] = seen[q]
<1> USE DEF Types, Goto, Abort
<1>1. CASE Start(r)  BY <1>1 DEF Start
<1>2. CASE Busy(r)  BY <1>2 DEF Busy
<1>3. CASE Lock(r)  BY <1>3 DEF Lock
<1>4. CASE CreateRun(r)  BY <1>4 DEF CreateRun
<1>5. CASE SetLlm(r)  BY <1>5 DEF SetLlm
<1>6. CASE BeginRun(r)  BY <1>6 DEF BeginRun
<1>7. CASE RunLoop(r)  BY <1>7 DEF RunLoop
<1>8. CASE Save(r)  BY <1>8 DEF Save, SaveFailed
<1>9. CASE ReadRow(r)  BY <1>9 DEF ReadRow
<1>10. CASE WriteRow(r)  BY <1>10 DEF WriteRow
<1> QED BY <1>1, <1>2, <1>3, <1>4, <1>5, <1>6, <1>7, <1>8, <1>9, <1>10 DEF RunStep

\* How a run moves, and what becomes of the lock of its session.
LEMMA RunMoves ==
    ASSUME Types, NEW r \in Runs, RunStep(r)
    PROVE  /\ pc' \in [Runs -> Labels]
           /\ \/ lock' = lock /\ (pc[r] \in Holding <=> pc'[r] \in Holding)
              \/ /\ pc[r] = "locking" /\ pc'[r] = "creating"
                 /\ lock[sessionOf[r]] = None
                 /\ lock' = [lock EXCEPT ![sessionOf[r]] = r]
              \/ pc[r] \in Holding /\ pc'[r] = "raised" /\ Unlock(r)
              \/ pc[r] = "touched" /\ pc'[r] = "done" /\ Unlock(r)
<1> USE DEF Types, Goto, Abort, Labels, Holding
<1>1. CASE Start(r)  BY <1>1 DEF Start
<1>2. CASE Busy(r)  BY <1>2 DEF Busy
<1>3. CASE Lock(r)  BY <1>3 DEF Lock, LockFree
<1>4. CASE CreateRun(r)  BY <1>4 DEF CreateRun
<1>5. CASE SetLlm(r)  BY <1>5 DEF SetLlm
<1>6. CASE BeginRun(r)  BY <1>6 DEF BeginRun
<1>7. CASE RunLoop(r)  BY <1>7 DEF RunLoop
<1>8. CASE Save(r)  BY <1>8 DEF Save, SaveFailed
<1>9. CASE ReadRow(r)  BY <1>9 DEF ReadRow
<1>10. CASE WriteRow(r)  BY <1>10 DEF WriteRow
<1> QED BY <1>1, <1>2, <1>3, <1>4, <1>5, <1>6, <1>7, <1>8, <1>9, <1>10 DEF RunStep

\* Locks are taken and given back by who holds them.
LEMMA LockedKept ==
    ASSUME Types, Points, Locked, [Next]_vars
    PROVE  Locked' /\ lock' \in [Sessions -> Runs \cup {None}] /\ pc' \in [Runs -> Labels]
<1>0. UNCHANGED sessionOf /\ sessionOf \in [Runs -> Sessions] /\ None \notin Runs
  BY TableMoves, RunsAssumption DEF Types
<1>1. ASSUME UNCHANGED <<pc, lock>>
      PROVE  Locked' /\ lock' \in [Sessions -> Runs \cup {None}] /\ pc' \in [Runs -> Labels]
  BY <1>0, <1>1 DEF Locked, Types
<1>2. ASSUME NEW r \in Runs, RunStep(r)
      PROVE  Locked' /\ lock' \in [Sessions -> Runs \cup {None}] /\ pc' \in [Runs -> Labels]
  <2>1. /\ pc' \in [Runs -> Labels] /\ \A q \in Runs : q # r => pc'[q] = pc[q]
        /\ lock \in [Sessions -> Runs \cup {None}]
    BY <1>2, RunMoves, OnlyTheRun DEF Types
  <2>2. CASE lock' = lock /\ (pc[r] \in Holding <=> pc'[r] \in Holding)
    BY <1>0, <2>1, <2>2 DEF Locked
  <2>3. CASE /\ pc[r] = "locking" /\ pc'[r] = "creating"
             /\ lock[sessionOf[r]] = None
             /\ lock' = [lock EXCEPT ![sessionOf[r]] = r]
    BY <1>0, <2>1, <2>3 DEF Locked, Holding
  <2>4. CASE pc[r] \in Holding /\ pc'[r] \in {"raised", "done"} /\ Unlock(r)
    BY <1>0, <2>1, <2>4 DEF Locked, Holding, Unlock
  <2> QED BY <1>2, <2>1, <2>2, <2>3, <2>4, RunMoves DEF Holding
<1>3. CASE Crash
  <2>1. /\ lock' = [s \in Sessions |-> None]
        /\ pc' = [r \in Runs |-> IF Running(r) THEN "crashed" ELSE pc[r]]
    BY <1>3 DEF Crash
  <2>2. pc' \in [Runs -> Labels] /\ \A r \in Runs : pc'[r] \notin Holding
    BY <2>1 DEF Types, Labels, Holding, Running
  <2> QED BY <2>1, <2>2 DEF Locked
<1>4. UNCHANGED <<pc, lock>> \/ (\E r \in Runs : RunStep(r)) \/ Crash
  BY DEF Next, Delete, Patch, PatchReads, PatchWrites, RefreshPlan, Migrate, vars, runVars
<1> QED BY <1>1, <1>2, <1>3, <1>4

\* A run keeps what it has to hold where it is.
LEMMA PointsKept ==
    ASSUME Types, Points, [Next]_vars
    PROVE  /\ Points'
           /\ next' \in [Runs -> Nat] /\ trace' \in [Runs -> Nat]
           /\ fresh' \in [Runs -> BOOLEAN] /\ seen' \in [Runs -> SessionRow]
<1>1. ASSUME UNCHANGED <<next, trace, fresh, seen>>,
             \A r \in Runs : pc'[r] = pc[r] \/ pc'[r] = "crashed"
      PROVE  /\ Points'
             /\ next' \in [Runs -> Nat] /\ trace' \in [Runs -> Nat]
             /\ fresh' \in [Runs -> BOOLEAN] /\ seen' \in [Runs -> SessionRow]
  BY <1>1 DEF Points, Types, Early, AgendaOf
<1>2. ASSUME NEW r \in Runs, RunStep(r)
      PROVE  /\ Points'
             /\ next' \in [Runs -> Nat] /\ trace' \in [Runs -> Nat]
             /\ fresh' \in [Runs -> BOOLEAN] /\ seen' \in [Runs -> SessionRow]
  <2>1. \A q \in Runs : q # r =>
              /\ pc'[q] = pc[q] /\ next'[q] = next[q] /\ trace'[q] = trace[q]
              /\ fresh'[q] = fresh[q] /\ seen'[q] = seen[q]
    BY <1>2, OnlyTheRun
  <2> DEFINE Good == /\ next' \in [Runs -> Nat] /\ trace' \in [Runs -> Nat]
                     /\ fresh' \in [Runs -> BOOLEAN] /\ seen' \in [Runs -> SessionRow]
                     /\ pc'[r] \in Early => next'[r] = 1
                     /\ pc'[r] = "saving" =>
                           /\ trace'[r] \in 1..Len(Traces)
                           /\ next'[r] \in 1..Len(Agendas[trace'[r]][fresh'[r]])
                     /\ pc'[r] = "touched" => seen'[r] \in Models
  <2>2. ASSUME Good
        PROVE  /\ Points'
               /\ next' \in [Runs -> Nat] /\ trace' \in [Runs -> Nat]
               /\ fresh' \in [Runs -> BOOLEAN] /\ seen' \in [Runs -> SessionRow]
    <3>1. ASSUME NEW q \in Runs
          PROVE  /\ pc'[q] \in Early => next'[q] = 1
                 /\ pc'[q] = "saving" =>
                       trace'[q] \in 1..Len(Traces) /\ next'[q] \in 1..Len(Agendas[trace'[q]][fresh'[q]])
                 /\ pc'[q] = "touched" => seen'[q] \in Models
      BY <2>1, <2>2 DEF Points, AgendaOf
    <3> QED BY <2>2, <3>1 DEF Points, AgendaOf
  <2> USE DEF Types, Points, Goto, Abort, Early, AgendaOf
  <2>3. CASE Start(r)  BY <2>2, <2>3 DEF Start
  <2>4. CASE Busy(r)  BY <2>2, <2>4 DEF Busy
  <2>5. CASE Lock(r)  BY <2>2, <2>5 DEF Lock
  <2>6. CASE CreateRun(r)  BY <2>2, <2>6 DEF CreateRun
  <2>7. CASE SetLlm(r)  BY <2>2, <2>7 DEF SetLlm
  <2>8. CASE BeginRun(r)  BY <2>2, <2>8 DEF BeginRun
  <2>9. CASE RunLoop(r)
    <3>1. CASE pc'[r] = "raised" /\ UNCHANGED <<trace, next, fresh, seen>>
      BY <2>2, <2>9, <3>1
    <3>2. ASSUME NEW t \in 1..Len(Traces), trace' = [trace EXCEPT ![r] = t], pc'[r] = "saving"
          PROVE  Good
      <4>1. Len(Traces) \in Nat  BY TracesAssumption, SequenceFacts
      <4>2. Agendas[t][fresh[r]] = Agenda(Traces[t], fresh[r]) /\ fresh[r] \in BOOLEAN
        BY DEF Agendas
      <4>3. Len(Agenda(Traces[t], fresh[r])) \in Nat /\ Len(Agenda(Traces[t], fresh[r])) >= 1
        <5> DEFINE b == Before(Traces[t], fresh[r])
                   M == Messages(Traces[t], fresh[r])
                   R == Records(Traces[t], fresh[r])
                   A == Agenda(Traces[t], fresh[r])
        <5>1. b \in Nat /\ Len(M) \in Nat /\ Len(R) = b + Len(M) /\ Len(A) = Len(R) + 1
          BY <4>2, AgendaFacts
        <5> HIDE DEF b, M, R, A
        <5>2. Len(A) \in Nat /\ Len(A) >= 1  BY <5>1
        <5> QED BY <5>2 DEF A
      <4>4. 1 \in 1..Len(Agenda(Traces[t], fresh[r]))  BY <4>3
      <4>5. UNCHANGED <<next, fresh, seen>> /\ next[r] = 1  BY <2>9 DEF RunLoop
      <4>6. trace' \in [Runs -> Nat] /\ trace'[r] = t  BY <3>2, <4>1
      <4> QED BY <3>2, <4>2, <4>4, <4>5, <4>6
    <3> QED BY <2>2, <2>9, <3>1, <3>2 DEF RunLoop
  <2>10. CASE Save(r)
    <3>1. UNCHANGED <<trace, fresh, seen>> /\ pc[r] = "saving"  BY <2>10 DEF Save
    <3>2. CASE pc'[r] = "raised" /\ UNCHANGED next  BY <2>2, <3>1, <3>2
    <3>3. ASSUME next' = [next EXCEPT ![r] = @ + 1],
                 pc'[r] = IF next[r] = Len(AgendaOf(r)) THEN "touching" ELSE "saving"
          PROVE  Good
      <4> DEFINE n == Len(Agendas[trace[r]][fresh[r]])
      <4>1. next[r] \in 1..n /\ next[r] \in Nat /\ next'[r] = next[r] + 1 /\ next' \in [Runs -> Nat]
        BY <3>1, <3>3
      <4>2. pc'[r] = IF next[r] = n THEN "touching" ELSE "saving"  BY <3>3
      <4>3. n \in Nat
        <5>1. trace[r] \in 1..Len(Traces) /\ fresh[r] \in BOOLEAN  BY <3>1
        <5>2. Agendas[trace[r]][fresh[r]] = Agenda(Traces[trace[r]], fresh[r])
          BY <5>1 DEF Agendas
        <5> DEFINE b == Before(Traces[trace[r]], fresh[r])
                   M == Messages(Traces[trace[r]], fresh[r])
                   R == Records(Traces[trace[r]], fresh[r])
                   A == Agenda(Traces[trace[r]], fresh[r])
        <5>3. b \in Nat /\ Len(M) \in Nat /\ Len(R) = b + Len(M) /\ Len(A) = Len(R) + 1
          BY <5>1, AgendaFacts
        <5> HIDE DEF b, M, R, A
        <5>4. Len(A) \in Nat  BY <5>3
        <5> QED BY <5>2, <5>4 DEF A
      <4> HIDE DEF n
      <4>4. pc'[r] = "saving" => next'[r] \in 1..n  BY <4>1, <4>2, <4>3
      <4> QED BY <3>1, <4>1, <4>2, <4>4 DEF n
    <3> QED BY <2>2, <2>10, <3>2, <3>3 DEF Save, SaveFailed
  <2>11. CASE ReadRow(r)
    <3>1. db.model[sessionOf[r]] \in SessionRow  BY DEF Tables
    <3> QED BY <2>2, <2>11, <3>1 DEF ReadRow, SessionRow
  <2>12. CASE WriteRow(r)  BY <2>2, <2>12 DEF WriteRow
  <2> QED BY <1>2, <2>3, <2>4, <2>5, <2>6, <2>7, <2>8, <2>9, <2>10, <2>11, <2>12 DEF RunStep
<1>3. CASE Crash
  BY <1>1, <1>3 DEF Crash
<1>4. \/ UNCHANGED <<pc, next, trace, fresh, seen>>
      \/ \E r \in Runs : RunStep(r)
      \/ Crash
  BY DEF Next, Delete, Patch, PatchReads, PatchWrites, RefreshPlan, Migrate, vars, runVars
<1> QED BY <1>1, <1>2, <1>3, <1>4

\* The types, whatever a step does.
LEMMA TypesKept ==
    ASSUME Types, Points, Locked, [Next]_vars
    PROVE  Types'
<1>1. MInv'  BY StepMigrates, MigrationStep DEF Types
<1>2. Tables(db)' /\ Tables(disk)' /\ (sessionOf \in [Runs -> Sessions])'
  BY TablesKept, TableMoves DEF Types
<1>3. /\ (pc \in [Runs -> Labels])' /\ (lock \in [Sessions -> Runs \cup {None}])'
      /\ (next \in [Runs -> Nat])' /\ (trace \in [Runs -> Nat])'
      /\ (fresh \in [Runs -> BOOLEAN])' /\ (seen \in [Runs -> SessionRow])'
  BY LockedKept, PointsKept
<1>4. /\ (planner \in Runs \cup Sessions \cup {None})'
      /\ (acked \in [Sessions -> SessionRow])' /\ (raced \in [Sessions -> BOOLEAN])'
      /\ (edit \in [Patches -> Edits \cup {None}])'
  <2>1. /\ planner \in Runs \cup Sessions \cup {None} /\ acked \in [Sessions -> SessionRow]
        /\ raced \in [Sessions -> BOOLEAN] /\ edit \in [Patches -> Edits \cup {None}]
    BY DEF Types
  <2>2. ASSUME NEW r \in Runs, RunStep(r)
        PROVE  planner' \in {planner, None, r} /\ UNCHANGED <<edit, acked, raced>>
    <3>0. UNCHANGED <<edit, acked, raced>>  BY <2>2, RunSaves
    <3>1. CASE Start(r)  BY <3>0, <3>1 DEF Start
    <3>2. CASE Busy(r)  BY <3>0, <3>2 DEF Busy
    <3>3. CASE Lock(r)  BY <3>0, <3>3 DEF Lock
    <3>4. CASE CreateRun(r)  BY <3>0, <3>4 DEF CreateRun
    <3>5. CASE SetLlm(r)  BY <3>0, <3>5 DEF SetLlm
    <3>6. CASE BeginRun(r)  BY <3>0, <3>6 DEF BeginRun, TakeLlm
    <3>7. CASE RunLoop(r)  BY <3>0, <3>7 DEF RunLoop
    <3>8. CASE Save(r)  BY <3>0, <3>8 DEF Save
    <3>9. CASE ReadRow(r)  BY <3>0, <3>9 DEF ReadRow
    <3>10. CASE WriteRow(r)  BY <3>0, <3>10 DEF WriteRow
    <3> QED BY <2>2, <3>0, <3>1, <3>2, <3>3, <3>4, <3>5, <3>6, <3>7, <3>8, <3>9, <3>10 DEF RunStep
  <2>3. ASSUME NEW p \in Patches, Patch(p)
        PROVE  /\ planner' = planner /\ acked' \in [Sessions -> SessionRow]
               /\ raced' \in [Sessions -> BOOLEAN] /\ edit' \in [Patches -> Edits \cup {None}]
    <3>1. planner' = planner  BY <2>3, PatchMoves
    <3>2. ASSUME NEW s \in Sessions, NEW to \in Models \cup {None}, db.model[s] # None,
                 UNCHANGED <<acked, raced>>,
                 edit' = [edit EXCEPT ![p] = [session |-> s, seen |-> db.model[s], to |-> to]]
          PROVE  /\ acked' \in [Sessions -> SessionRow] /\ raced' \in [Sessions -> BOOLEAN]
                 /\ edit' \in [Patches -> Edits \cup {None}]
      <4>1. db.model[s] \in Models  BY <3>2 DEF Types, Tables, SessionRow
      <4>2. [session |-> s, seen |-> db.model[s], to |-> to] \in Edits
        BY <4>1 DEF Edits, SessionRow
      <4> QED BY <2>1, <3>2, <4>2
    <3>3. ASSUME edit[p] # None, edit[p] \in Edits, edit' = [edit EXCEPT ![p] = None],
                 \/ UNCHANGED <<acked, raced>>
                 \/ /\ edit[p].to # None
                    /\ acked' = [acked EXCEPT ![edit[p].session] = edit[p].to]
                    /\ raced' = [raced EXCEPT ![edit[p].session] = Overlapped(edit[p].session)]
                 \/ /\ UNCHANGED acked
                    /\ raced' = [raced EXCEPT ![edit[p].session] = @ \/ db' # db]
          PROVE  /\ acked' \in [Sessions -> SessionRow] /\ raced' \in [Sessions -> BOOLEAN]
                 /\ edit' \in [Patches -> Edits \cup {None}]
      <4>1. edit[p].session \in Sessions /\ (edit[p].to # None => edit[p].to \in Models)
        BY <3>3 DEF Edits, SessionRow
      <4> DEFINE c == Overlapped(edit[p].session)
                 f == raced[edit[p].session] \/ db' # db
      <4>2. c \in BOOLEAN /\ f \in BOOLEAN  BY DEF Overlapped
      <4>3. \/ raced' = raced \/ raced' = [raced EXCEPT ![edit[p].session] = c]
            \/ raced' = [raced EXCEPT ![edit[p].session] = f]
        BY <3>3, Zenon
      <4> HIDE DEF c, f
      <4>4. raced' \in [Sessions -> BOOLEAN]  BY <2>1, <4>2, <4>3
      <4>5. acked' \in [Sessions -> SessionRow]  BY <2>1, <3>3, <4>1 DEF SessionRow
      <4>6. edit' \in [Patches -> Edits \cup {None}]  BY <2>1, <3>3
      <4> QED BY <4>4, <4>5, <4>6
    <3> QED BY <2>3, <3>1, <3>2, <3>3, PatchMoves
  <2>4. ASSUME NEW s \in Sessions, Delete(s) PROVE UNCHANGED <<planner, edit, acked, raced>>
    BY <2>4 DEF Delete, history
  <2>5. CASE Migrate  BY <2>1, <2>5 DEF Migrate, history
  <2>6. CASE Crash  BY <2>1, <2>6 DEF Crash
  <2>7. CASE UNCHANGED vars  BY <2>1, <2>7 DEF vars, history
  <2>8. ASSUME NEW s \in Sessions, RefreshPlan(s)
        PROVE  planner' = s /\ UNCHANGED <<edit, acked, raced>>
    BY <2>8 DEF RefreshPlan, history
  <2> QED BY <2>1, <2>2, <2>3, <2>4, <2>5, <2>6, <2>7, <2>8 DEF Next
<1> QED BY <1>1, <1>2, <1>3, <1>4 DEF Types

\* What is in the tables hangs on rows that exist: the foreign keys.
Rooted(d) ==
    /\ \A row \in d.rows : d.status[row.run] # "absent"
    /\ \A s \in Sessions : \A i \in 1..Len(d.msgs[s]) :
          d.status[d.msgs[s][i].run] # "absent" /\ sessionOf[d.msgs[s][i].run] = s
    /\ \A r \in Runs : d.model[sessionOf[r]] = None => d.status[r] = "absent"

\* The messages of a session when one is appended.
LEMMA Appended ==
    ASSUME Tables(db), NEW s \in Sessions, NEW e,
           db' = [model |-> db.model, status |-> db.status, rows |-> db.rows,
                  msgs |-> [db.msgs EXCEPT ![s] = Append(@, e)]]
    PROVE  /\ db'.model = db.model /\ db'.status = db.status /\ db'.rows = db.rows
           /\ Len(db.msgs[s]) \in Nat /\ Len(db'.msgs[s]) = Len(db.msgs[s]) + 1
           /\ \A i \in 1..Len(db.msgs[s]) : db'.msgs[s][i] = db.msgs[s][i]
           /\ db'.msgs[s][Len(db.msgs[s]) + 1] = e
           /\ \A z \in Sessions : z # s => db'.msgs[z] = db.msgs[z]
<1>1. IsSequence(db.msgs[s])  BY DEF Tables
<1>2. db'.msgs[s] = Append(db.msgs[s], e) /\ \A z \in Sessions : z # s => db'.msgs[z] = db.msgs[z]
  BY DEF Tables
<1>3. db'.model = db.model /\ db'.status = db.status /\ db'.rows = db.rows  OBVIOUS
<1> QED BY <1>1, <1>2, <1>3, AppendFacts

\* The tables stay rooted when a run saves where it is.
LEMMA RootedSave ==
    ASSUME Types, Points, Rooted(db), NEW r \in Runs, NEW op,
           SavesOp(r, op), ~Refused(r, op), db' = Store(r, op)
    PROVE  Rooted(db')
<1>0. Tables(db) /\ sessionOf \in [Runs -> Sessions] /\ Row(r, op).run = r
  BY DEF Types, Row
<1>1. /\ op.what # "touch" => db.model[sessionOf[r]] # None
      /\ op.what \notin {"create", "touch"} => db.status[r] # "absent"
  BY DEF Refused, SessionMissing, RunMissing
<1>2. CASE op.what = "create"
  <2>1. db' = [model |-> db.model, status |-> [db.status EXCEPT ![r] = "running"],
               rows |-> db.rows, msgs |-> db.msgs]
    BY <1>0, <1>2, StoreFacts
  <2>2. \A q \in Runs : db'.status[q] = IF q = r THEN "running" ELSE db.status[q]
    BY <1>0, <2>1 DEF Tables
  <2> QED BY <1>0, <1>1, <1>2, <2>1, <2>2 DEF Rooted, Tables
<1>3. CASE op.what = "complete"
  <2>1. db' = [model |-> db.model,
               status |-> [db.status EXCEPT ![r] = FinalStatus(Traces[trace[r]])],
               rows |-> db.rows, msgs |-> db.msgs]
    BY <1>0, <1>3, StoreFacts
  <2>2. \A q \in Runs : q # r => db'.status[q] = db.status[q]
    BY <1>0, <2>1 DEF Tables
  <2>3. db'.status[r] # "absent"
    BY <1>0, <2>1 DEF Tables, FinalStatus
  <2> QED BY <1>0, <1>1, <1>3, <2>1, <2>2, <2>3 DEF Rooted, Tables
<1>4. CASE op.what = "touch"
  <2>1. db' = [model |-> [db.model EXCEPT ![sessionOf[r]] = seen[r]],
               status |-> db.status, rows |-> db.rows, msgs |-> db.msgs]
    BY <1>0, <1>4, StoreFacts
  <2>2. pc[r] = "touched" /\ ~SessionMissing(r)
    BY <1>4, OpKinds DEF SavesOp, Op
  <2>3. db.model[sessionOf[r]] # None /\ \A s \in Sessions :
           db'.model[s] = IF s = sessionOf[r] THEN seen[r] ELSE db.model[s]
    BY <1>0, <2>1, <2>2 DEF Tables, SessionMissing
  <2>4. seen[r] # None  BY <2>2, RunsAssumption DEF Points
  <2> QED BY <1>0, <2>1, <2>3, <2>4 DEF Rooted
<1>5. CASE op.what \in RowOps
  <2>1. db' = [model |-> db.model, status |-> db.status,
               rows |-> db.rows \cup {Row(r, op)}, msgs |-> db.msgs]
    BY <1>0, <1>5, StoreFacts
  <2>2. db.status[r] # "absent"  BY <1>1, <1>5 DEF RowOps
  <2> QED BY <1>0, <2>1, <2>2 DEF Rooted
<1>6. CASE op.what \in MessageOps
  <2> DEFINE s == sessionOf[r]
             e == Row(r, op)
  <2>1. db' = [model |-> db.model, status |-> db.status, rows |-> db.rows,
               msgs |-> [db.msgs EXCEPT ![s] = Append(@, e)]]
    BY <1>0, <1>6, StoreFacts
  <2>2. s \in Sessions /\ e.run = r /\ sessionOf[r] = s  BY <1>0
  <2>3. db.status[r] # "absent"  BY <1>1, <1>6 DEF MessageOps
  <2> HIDE DEF s, e
  <2>4. /\ db'.model = db.model /\ db'.status = db.status /\ db'.rows = db.rows
        /\ Len(db.msgs[s]) \in Nat /\ Len(db'.msgs[s]) = Len(db.msgs[s]) + 1
        /\ \A i \in 1..Len(db.msgs[s]) : db'.msgs[s][i] = db.msgs[s][i]
        /\ db'.msgs[s][Len(db.msgs[s]) + 1] = e
        /\ \A z \in Sessions : z # s => db'.msgs[z] = db.msgs[z]
    BY <1>0, <2>1, <2>2, Appended
  <2>5. ASSUME NEW z \in Sessions, NEW i \in 1..Len(db'.msgs[z])
        PROVE  db'.status[db'.msgs[z][i].run] # "absent" /\ sessionOf[db'.msgs[z][i].run] = z
    <3>1. CASE z # s  BY <2>4, <2>5, <3>1 DEF Rooted
    <3>2. CASE z = s /\ i \in 1..Len(db.msgs[s])
      <4>1. db'.msgs[z][i] = db.msgs[s][i]  BY <2>4, <3>2
      <4>2. db.status[db.msgs[s][i].run] # "absent" /\ sessionOf[db.msgs[s][i].run] = s
        BY <2>2, <3>2 DEF Rooted
      <4> QED BY <2>4, <3>2, <4>1, <4>2
    <3>3. CASE z = s /\ i = Len(db.msgs[s]) + 1  BY <2>2, <2>3, <2>4, <3>3
    <3> QED BY <2>4, <2>5, <3>1, <3>2, <3>3
  <2> QED BY <2>4, <2>5 DEF Rooted
<1> QED BY <1>2, <1>3, <1>4, <1>5, <1>6, OpKinds

\* Every step keeps the tables rooted.
LEMMA RootedKept ==
    ASSUME Types, Points, Rooted(db), Rooted(disk), [Next]_vars
    PROVE  Rooted(db)' /\ Rooted(disk)'
<1>0. Tables(db) /\ sessionOf \in [Runs -> Sessions]  BY DEF Types
<1>1. ASSUME NEW s \in Sessions, db' = Cascaded(s) PROVE Rooted(db')
  <2>1. /\ db'.model = [db.model EXCEPT ![s] = None]
        /\ db'.status = [r \in Runs |-> IF sessionOf[r] = s THEN "absent" ELSE db.status[r]]
        /\ db'.rows = {row \in db.rows : sessionOf[row.run] # s}
        /\ db'.msgs = [db.msgs EXCEPT ![s] = <<>>]
    BY <1>1 DEF Cascaded
  <2>2. \A z \in Sessions : /\ db'.msgs[z] = IF z = s THEN <<>> ELSE db.msgs[z]
                            /\ db'.model[z] = IF z = s THEN None ELSE db.model[z]
    BY <1>0, <2>1 DEF Tables
  <2>3. \A r \in Runs : db'.status[r] = IF sessionOf[r] = s THEN "absent" ELSE db.status[r]
    BY <2>1
  <2>4. \A row \in db'.rows : db'.status[row.run] # "absent"
    BY <1>0, <2>1, <2>3 DEF Rooted, Tables
  <2>5. ASSUME NEW z \in Sessions, NEW i \in 1..Len(db'.msgs[z])
        PROVE  db'.status[db'.msgs[z][i].run] # "absent" /\ sessionOf[db'.msgs[z][i].run] = z
    <3>1. z # s  BY <2>2, <2>5
    <3>2. db'.msgs[z] = db.msgs[z] /\ db.msgs[z][i].run \in Runs
      BY <1>0, <2>2, <2>5, <3>1 DEF Tables
    <3> QED BY <2>3, <2>5, <3>1, <3>2 DEF Rooted
  <2>6. \A r \in Runs : db'.model[sessionOf[r]] = None => db'.status[r] = "absent"
    BY <1>0, <2>2, <2>3 DEF Rooted
  <2> QED BY <2>4, <2>5, <2>6 DEF Rooted
<1>2. ASSUME NEW s \in Sessions, NEW m \in Models, db' = UpdateModel(s, m) PROVE Rooted(db')
  <2>1. db' = [model |-> [db.model EXCEPT ![s] = m], status |-> db.status,
               rows |-> db.rows, msgs |-> db.msgs]
    BY <1>0, <1>2 DEF Tables, UpdateModel
  <2>2. m # None  BY RunsAssumption
  <2> QED BY <1>0, <2>1, <2>2 DEF Rooted, Tables
<1>3. Rooted(db')
  BY <1>1, <1>2, RootedSave, TableMoves DEF Restarted
<1>4. Rooted(disk')  BY <1>3, TableMoves
<1> QED BY <1>3, <1>4, TableMoves DEF Rooted

\* The invariant that the types and every other promise rest on.
Base == Types /\ Points /\ Locked /\ Rooted(db) /\ Rooted(disk)

\* The program starts in the base invariant.
LEMMA BaseInit ==
    ASSUME Init
    PROVE  Base
<1>1. Rooted(db)
  <2>1. PICK w \in Workloads : db = [EmptyDb EXCEPT !.model = w.model]
    BY DEF Init
  <2>2. db.rows = {} /\ db.msgs = [s \in Sessions |-> <<>>] /\ db.status = [r \in Runs |-> "absent"]
    BY <2>1 DEF EmptyDb
  <2>3. Len(<<>>) = 0  OBVIOUS
  <2> QED BY <2>2, <2>3 DEF Rooted
<1>2. disk = db  BY DEF Init
<1> QED BY <1>1, <1>2, TypesInit DEF Base

\* Every step keeps the base invariant.
LEMMA BaseKept ==
    ASSUME Base, [Next]_vars
    PROVE  Base'
<1>1. Types' /\ Locked' /\ Points'  BY TypesKept, LockedKept, PointsKept DEF Base
<1>2. Rooted(db)' /\ Rooted(disk)'  BY RootedKept DEF Base
<1> QED BY <1>1, <1>2 DEF Base

\* Rows and messages belong to runs that exist, on the connection and on disk,
\* whatever is deleted meanwhile; a run that saves has a trace, and only a run
\* that is under way has the lock.
THEOREM TypeCorrect == Spec => []TypeOK
<1>1. Init => Base  BY BaseInit
<1>2. Base /\ [Next]_vars => Base'  BY BaseKept
<1>3. Base => TypeOK
  <2> SUFFICES ASSUME Base PROVE TypeOK
    OBVIOUS
  <2>1. MTypeOK  BY DEF Base, Types, MInv
  <2>2. \A d \in {db, disk} :
          /\ d.model \in [Sessions -> SessionRow]
          /\ d.status \in [Runs -> Status]
          /\ \A row \in d.rows : d.status[row.run] # "absent"
          /\ \A s \in Sessions : \A i \in 1..Len(d.msgs[s]) :
                d.status[d.msgs[s][i].run] # "absent" /\ sessionOf[d.msgs[s][i].run] = s
          /\ \A r \in Runs : d.model[sessionOf[r]] = None => d.status[r] = "absent"
    BY DEF Base, Types, Tables, Rooted
  <2>3. /\ pc \in [Runs -> Labels] /\ planner \in Runs \cup Sessions \cup {None}
        /\ \A p \in Patches : edit[p] # None => edit[p].session \in Sessions /\ edit[p].seen \in Models
    BY DEF Base, Types, Edits
  <2>4. \A r \in Runs : pc[r] = "saving" => trace[r] \in 1..Len(Traces) /\ next[r] \in 1..Len(AgendaOf(r))
    BY DEF Base, Points
  <2>5. \A s \in Sessions : lock[s] \in Runs => Running(lock[s]) /\ sessionOf[lock[s]] = s
    <3>1. \A s \in Sessions : lock[s] \in Runs => lock[s] # None  BY RunsAssumption
    <3> QED BY <3>1 DEF Base, Locked, Running, Holding
  <2> QED BY <2>1, <2>2, <2>3, <2>4, <2>5 DEF TypeOK
<1> QED BY <1>1, <1>2, <1>3, PTL DEF Spec

-------------------------------------------------------------------------------
(* The planner, and the model of a session.                                *)

\* The run whose LLM the planner has is inside begin_run.
Borrowed == planner \in Runs => pc[planner] = "beginning"

\* Who takes the planner gives it back in the step after.
LEMMA BorrowedKept ==
    ASSUME Types, Borrowed, [Next]_vars
    PROVE  Borrowed'
<1>0. None \notin Runs /\ Sessions \cap Runs = {} /\ pc \in [Runs -> Labels]
  BY RunsAssumption DEF Types
<1>1. ASSUME NEW r \in Runs, RunStep(r) PROVE Borrowed'
  <2>1. CASE Start(r)  BY <1>0, <2>1 DEF Borrowed, Start, Goto
  <2>2. CASE Busy(r)  BY <1>0, <2>2 DEF Borrowed, Busy, Goto
  <2>3. CASE Lock(r)  BY <1>0, <2>3 DEF Borrowed, Lock, Goto
  <2>4. CASE CreateRun(r)  BY <1>0, <2>4 DEF Borrowed, CreateRun, Goto, Abort
  <2>5. CASE SetLlm(r)  BY <1>0, <2>5 DEF Borrowed, SetLlm, Goto
  <2>6. CASE BeginRun(r)  BY <1>0, <2>6 DEF Borrowed, BeginRun, TakeLlm
  <2>7. CASE RunLoop(r)  BY <1>0, <2>7 DEF Borrowed, RunLoop, Goto, Abort
  <2>8. CASE Save(r)  BY <1>0, <2>8 DEF Borrowed, Save, SaveFailed, Goto, Abort
  <2>9. CASE ReadRow(r)  BY <1>0, <2>9 DEF Borrowed, ReadRow, Goto, Abort
  <2>10. CASE WriteRow(r)  BY <1>0, <2>10 DEF Borrowed, WriteRow, Goto, Abort
  <2> QED BY <1>1, <2>1, <2>2, <2>3, <2>4, <2>5, <2>6, <2>7, <2>8, <2>9, <2>10 DEF RunStep
<1>2. CASE Crash  BY <1>0, <1>2 DEF Borrowed, Crash
<1>4. ASSUME NEW s \in Sessions, RefreshPlan(s) PROVE Borrowed'
  BY <1>0, <1>4 DEF Borrowed, RefreshPlan
<1>3. \/ \E r \in Runs : RunStep(r)
      \/ Crash
      \/ \E s \in Sessions : RefreshPlan(s)
      \/ UNCHANGED <<pc, planner>>
  BY DEF Next, Delete, Patch, PatchReads, PatchWrites, Migrate, vars, runVars
<1> QED BY <1>1, <1>2, <1>3, <1>4 DEF Borrowed

\* The LLM of a run is in the shared planner only while the run is inside
\* begin_run, whatever overlaps or raises there.
THEOREM PlannerReleasedHolds == Spec => []PlannerReleased
<1>1. Init => Base /\ Borrowed  BY BaseInit, RunsAssumption DEF Init, Borrowed
<1>2. Base /\ Borrowed /\ [Next]_vars => (Base /\ Borrowed)'
  BY BaseKept, BorrowedKept DEF Base
<1>3. Base /\ Borrowed => PlannerReleased
  BY DEF Borrowed, PlannerReleased
<1> QED BY <1>1, <1>2, <1>3, PTL DEF Spec

\* A row has the model that was acknowledged last, unless somebody may have
\* undone the switch.
Current(d) ==
    \A s \in Sessions : d.model[s] # None /\ ~raced[s] => d.model[s] = acked[s]

\* What a touch, or a PATCH of another column, has read and will write back is
\* the model that was acknowledged last, unless the switch came after the read.
ReadCurrent ==
    /\ \A r \in Runs : pc[r] = "touched" /\ ~raced[sessionOf[r]] /\ db.model[sessionOf[r]] # None
          => seen[r] = acked[sessionOf[r]]
    /\ \A p \in Patches :
          /\ edit[p] # None /\ edit[p].to = None
          /\ ~raced[edit[p].session] /\ db.model[edit[p].session] # None
          => edit[p].seen = acked[edit[p].session]

\* Only a read brings a run between the read and the write of its touch.
LEMMA TouchedByRead ==
    ASSUME Types, NEW r \in Runs, RunStep(r), pc'[r] = "touched"
    PROVE  ReadRow(r)
<1> USE DEF Types, Goto, Abort
<1>1. ~Start(r)  BY DEF Start
<1>2. ~Busy(r)  BY DEF Busy
<1>3. ~Lock(r)  BY DEF Lock
<1>4. ~CreateRun(r)  BY DEF CreateRun
<1>5. ~SetLlm(r)  BY DEF SetLlm
<1>6. ~BeginRun(r)  BY DEF BeginRun
<1>7. ~RunLoop(r)  BY DEF RunLoop
<1>8. ~Save(r)  BY DEF Save, SaveFailed
<1>9. ~WriteRow(r)  BY DEF WriteRow
<1> QED BY <1>1, <1>2, <1>3, <1>4, <1>5, <1>6, <1>7, <1>8, <1>9 DEF RunStep

\* A PATCH, whether it reads, writes or fails at its commit.
LEMMA CurrentPatched ==
    ASSUME Types, Current(db), Current(disk), ReadCurrent, UNCHANGED sessionOf,
           NEW p \in Patches, Patch(p)
    PROVE  Current(db)' /\ Current(disk)' /\ ReadCurrent'
<1>0. /\ Tables(db) /\ sessionOf \in [Runs -> Sessions] /\ edit \in [Patches -> Edits \cup {None}]
      /\ raced \in [Sessions -> BOOLEAN] /\ acked \in [Sessions -> SessionRow]
      /\ UNCHANGED <<pc, seen>>
  BY PatchMoves DEF Types, runVars
<1>1. ASSUME UNCHANGED <<db, disk, acked, raced>>, NEW s \in Sessions, NEW to \in Models \cup {None},
             db.model[s] # None,
             edit' = [edit EXCEPT ![p] = [session |-> s, seen |-> db.model[s], to |-> to]]
      PROVE  Current(db)' /\ Current(disk)' /\ ReadCurrent'
  <2>1. Current(db)' /\ Current(disk)'  BY <1>1 DEF Current
  <2>2. \A r \in Runs : pc'[r] = "touched" /\ ~raced'[sessionOf'[r]] /\ db'.model[sessionOf'[r]] # None
           => seen'[r] = acked'[sessionOf'[r]]
    BY <1>0, <1>1 DEF ReadCurrent
  <2>3. ~raced[s] => db.model[s] = acked[s]  BY <1>1 DEF Current
  <2>4. ASSUME NEW q \in Patches, edit'[q] # None, edit'[q].to = None,
               ~raced[edit'[q].session], db.model[edit'[q].session] # None
        PROVE  edit'[q].seen = acked[edit'[q].session]
    <3>1. CASE q = p
      <4>1. edit'[q] = [session |-> s, seen |-> db.model[s], to |-> to]  BY <1>0, <1>1, <3>1
      <4> QED BY <2>3, <2>4, <4>1
    <3>2. CASE q # p
      <4>1. edit'[q] = edit[q]  BY <1>0, <1>1, <3>2
      <4> QED BY <2>4, <4>1 DEF ReadCurrent
    <3> QED BY <3>1, <3>2
  <2> QED BY <1>1, <2>1, <2>2, <2>4 DEF ReadCurrent
<1>2. ASSUME NEW e \in Edits, e = edit[p], e # None, edit' = [edit EXCEPT ![p] = None],
             db' \in {db, Patched(e)},
             \/ e.to = None /\ UNCHANGED <<acked, raced>> /\ db' = Patched(e) /\ disk' = db'
             \/ /\ e.to # None /\ db' = Patched(e) /\ disk' = db'
                /\ acked' = [acked EXCEPT ![e.session] = e.to]
                /\ raced' = [raced EXCEPT ![e.session] = Overlapped(e.session)]
             \/ /\ UNCHANGED <<disk, acked>>
                /\ raced' = [raced EXCEPT ![e.session] = @ \/ db' # db]
      PROVE  Current(db)' /\ Current(disk)' /\ ReadCurrent'
  <2> DEFINE s == e.session
             m == IF e.to = None THEN e.seen ELSE e.to
  <2>0. s \in Sessions  BY <1>2 DEF Edits
  <2>1. ASSUME db' = Patched(e)
        PROVE  /\ \A z \in Sessions : z # s => db'.model[z] = db.model[z]
               /\ db.model[s] = None => db'.model[s] = None
               /\ db.model[s] # None => db'.model[s] = m
    <3>1. CASE db.model[s] = None  BY <2>1, <3>1 DEF Patched
    <3>2. CASE db.model[s] # None
      <4> HIDE DEF m
      <4>1. db' = UpdateModel(s, m)  BY <2>1, <3>2, Zenon DEF Patched, m
      <4>2. db' = [model |-> [db.model EXCEPT ![s] = m], status |-> db.status,
                   rows |-> db.rows, msgs |-> db.msgs]
        BY <1>0, <4>1 DEF Tables, UpdateModel
      <4> QED BY <1>0, <2>0, <3>2, <4>2 DEF Tables
    <3> QED BY <3>1, <3>2
  <2>2. /\ \A z \in Sessions : z # s => db'.model[z] = db.model[z]
        /\ \A z \in Sessions : db'.model[z] # None => db.model[z] # None
    BY <1>2, <2>0, <2>1
  <2>3. \A q \in Patches : edit'[q] # None => edit'[q] = edit[q] /\ q # p /\ edit[q].session \in Sessions
    BY <1>0, <1>2 DEF Edits
  <2> HIDE DEF m
  <2>4. CASE e.to = None /\ UNCHANGED <<acked, raced>> /\ db' = Patched(e) /\ disk' = db'
    <3>1. m = e.seen  BY <2>4 DEF m
    <3>2. ~raced[s] /\ db.model[s] # None => e.seen = acked[s]
      BY <1>2, <2>4 DEF ReadCurrent
    <3>3. Current(db)'  BY <2>1, <2>2, <2>4, <3>1, <3>2 DEF Current
    <3>4. ReadCurrent'  BY <1>0, <2>2, <2>3, <2>4 DEF ReadCurrent
    <3> QED BY <2>4, <3>3, <3>4 DEF Current
  <2>5. CASE /\ e.to # None /\ db' = Patched(e) /\ disk' = db'
             /\ acked' = [acked EXCEPT ![s] = e.to]
             /\ raced' = [raced EXCEPT ![s] = Overlapped(s)]
    <3>1. m = e.to  BY <2>5 DEF m
    <3>2. /\ acked'[s] = e.to /\ (raced'[s] <=> Overlapped(s))
          /\ \A z \in Sessions : z # s => acked'[z] = acked[z] /\ raced'[z] = raced[z]
      BY <1>0, <2>0, <2>5
    <3>3. Current(db)'  BY <2>1, <2>2, <2>5, <3>1, <3>2 DEF Current
    <3>4. ASSUME NEW r \in Runs, pc[r] = "touched", ~raced'[sessionOf[r]], db'.model[sessionOf[r]] # None
          PROVE  seen[r] = acked'[sessionOf[r]]
      <4>1. sessionOf[r] # s  BY <3>2, <3>4 DEF Overlapped
      <4> QED BY <1>0, <2>2, <3>2, <3>4, <4>1 DEF ReadCurrent
    <3>5. ASSUME NEW q \in Patches, edit'[q] # None, edit'[q].to = None,
                 ~raced'[edit'[q].session], db'.model[edit'[q].session] # None
          PROVE  edit'[q].seen = acked'[edit'[q].session]
      <4>1. edit'[q] = edit[q] /\ edit[q].session \in Sessions  BY <2>3, <3>5
      <4>2. edit[q].session # s  BY <3>2, <3>5, <4>1 DEF Overlapped
      <4> QED BY <2>2, <3>2, <3>5, <4>1, <4>2 DEF ReadCurrent
    <3>6. ReadCurrent'  BY <1>0, <3>4, <3>5 DEF ReadCurrent
    <3> QED BY <2>5, <3>3, <3>6 DEF Current
  <2>6. CASE /\ UNCHANGED <<disk, acked>>
             /\ raced' = [raced EXCEPT ![s] = @ \/ db' # db]
    <3>1. /\ \A z \in Sessions : ~raced'[z] => ~raced[z]
          /\ ~raced'[s] => db' = db
      <4> DEFINE c == raced[s] \/ db' # db
      <4>1. raced' = [raced EXCEPT ![s] = c] /\ c \in BOOLEAN  BY <2>6
      <4>2. (~c => db' = db) /\ (~c => ~raced[s])  OBVIOUS
      <4> HIDE DEF c
      <4> QED BY <1>0, <2>0, <4>1, <4>2
    <3>2. Current(db)'  BY <2>2, <2>6, <3>1 DEF Current
    <3>3. Current(disk)'  BY <2>6, <3>1 DEF Current
    <3>4. ReadCurrent'  BY <1>0, <2>2, <2>3, <2>6, <3>1 DEF ReadCurrent
    <3> QED BY <3>2, <3>3, <3>4
  <2> QED BY <1>2, <2>4, <2>5, <2>6
<1> QED BY <1>1, <1>2, PatchMoves

\* No switch without an acknowledgement: what saves and deletions do.
LEMMA CurrentKept ==
    ASSUME Types, Points, Locked, Current(db), Current(disk), ReadCurrent, [Next]_vars
    PROVE  Current(db)' /\ Current(disk)' /\ ReadCurrent'
<1>0. /\ Tables(db) /\ sessionOf \in [Runs -> Sessions] /\ UNCHANGED sessionOf
      /\ disk' \in {disk, db'} /\ edit \in [Patches -> Edits \cup {None}]
      /\ \A p \in Patches : edit[p] # None => edit[p].session \in Sessions
  BY TableMoves DEF Types, Edits
<1>1. ASSUME NEW p \in Patches, Patch(p)
      PROVE  Current(db)' /\ Current(disk)' /\ ReadCurrent'
  BY <1>0, <1>1, CurrentPatched
<1>2. ASSUME NEW s \in Sessions, Delete(s)
      PROVE  Current(db)' /\ Current(disk)' /\ ReadCurrent'
  <2>1. db' = Cascaded(s) /\ UNCHANGED <<pc, seen, edit, acked, raced>>
    BY <1>2 DEF Delete, runVars, history
  <2>2. \A z \in Sessions : db'.model[z] = IF z = s THEN None ELSE db.model[z]
    BY <1>0, <2>1 DEF Tables, Cascaded
  <2>3. Current(db)'  BY <2>1, <2>2 DEF Current
  <2>4. ReadCurrent'  BY <1>0, <2>1, <2>2 DEF ReadCurrent
  <2> QED BY <1>0, <2>1, <2>3, <2>4 DEF Current
<1>3. ASSUME NEW r \in Runs, RunStep(r)
      PROVE  Current(db)' /\ Current(disk)' /\ ReadCurrent'
  <2>1. UNCHANGED <<edit, acked, raced>>  BY <1>3, RunSaves
  <2>2. \/ db'.model = db.model
        \/ /\ pc[r] = "touched" /\ db.model[sessionOf[r]] # None
           /\ db'.model = [db.model EXCEPT ![sessionOf[r]] = seen[r]]
    <3>1. ASSUME NEW op, SavesOp(r, op), db' = Store(r, op)
          PROVE  \/ db'.model = db.model
                 \/ /\ pc[r] = "touched" /\ db.model[sessionOf[r]] # None
                    /\ db'.model = [db.model EXCEPT ![sessionOf[r]] = seen[r]]
      <4>1. op.what = "touch" => pc[r] = "touched" /\ db.model[sessionOf[r]] # None
        BY <3>1, OpKinds DEF SavesOp, SessionMissing
      <4>2. op.what \in {"create", "complete", "touch"} \cup RowOps \cup MessageOps
        BY <3>1, OpKinds
      <4> QED BY <1>0, <3>1, <4>1, <4>2, StoreFacts
    <3> QED BY <1>3, <3>1, RunSaves
  <2>3. Current(db')
    <3>1. CASE db'.model = db.model  BY <3>1 DEF Current
    <3>2. CASE /\ pc[r] = "touched" /\ db.model[sessionOf[r]] # None
               /\ db'.model = [db.model EXCEPT ![sessionOf[r]] = seen[r]]
      <4>1. \A s \in Sessions : db'.model[s] = IF s = sessionOf[r] THEN seen[r] ELSE db.model[s]
        BY <1>0, <3>2 DEF Tables
      <4>2. ~raced[sessionOf[r]] => seen[r] = acked[sessionOf[r]]
        BY <3>2 DEF ReadCurrent
      <4> QED BY <4>1, <4>2 DEF Current
    <3> QED BY <2>2, <3>1, <3>2
  <2>4. Current(db)' /\ Current(disk)'  BY <1>0, <2>1, <2>3 DEF Current
  <2>5. \A s \in Sessions : db'.model[s] = db.model[s] \/ \E q \in Runs : q = r /\ sessionOf[q] = s /\ pc[q] = "touched"
    BY <1>0, <2>2 DEF Tables
  <2>6. ASSUME NEW q \in Runs, pc'[q] = "touched", ~raced[sessionOf[q]], db'.model[sessionOf[q]] # None
        PROVE  seen'[q] = acked[sessionOf[q]]
    <3>1. CASE q # r
      <4>1. pc[q] = "touched" /\ seen'[q] = seen[q]  BY <1>3, <2>6, <3>1, OnlyTheRun
      <4>2. ~(sessionOf[r] = sessionOf[q] /\ pc[r] = "touched")
        BY <3>1, <4>1 DEF Locked, Holding
      <4>3. db'.model[sessionOf[q]] = db.model[sessionOf[q]]
        BY <1>0, <2>5, <4>2
      <4> QED BY <2>6, <4>1, <4>3 DEF ReadCurrent
    <3>2. CASE q = r
      <4>1. ReadRow(r)  BY <1>3, <2>6, <3>2, TouchedByRead
      <4>2. db' = db /\ seen'[r] = db.model[sessionOf[r]]
        BY <4>1 DEF ReadRow, Types
      <4> QED BY <1>0, <2>6, <3>2, <4>2 DEF Current
    <3> QED BY <3>1, <3>2
  <2>7. \A s \in Sessions : db'.model[s] # None => db.model[s] # None
    BY <1>0, <2>2 DEF Tables
  <2>8. \A p \in Patches :
           /\ edit'[p] # None /\ edit'[p].to = None
           /\ ~raced'[edit'[p].session] /\ db'.model[edit'[p].session] # None
           => edit'[p].seen = acked'[edit'[p].session]
    BY <1>0, <2>1, <2>7 DEF ReadCurrent
  <2> QED BY <1>0, <2>1, <2>4, <2>6, <2>8 DEF ReadCurrent
<1>4. CASE Crash
  <2>1. /\ db' = disk /\ UNCHANGED <<disk, acked, raced>>
        /\ pc' = [r \in Runs |-> IF Running(r) THEN "crashed" ELSE pc[r]]
        /\ edit' = [p \in Patches |-> None]
    BY <1>4 DEF Crash
  <2>2. \A r \in Runs : pc'[r] # "touched"  BY <2>1 DEF Running
  <2> QED BY <2>1, <2>2 DEF Current, ReadCurrent
<1>5. ASSUME UNCHANGED <<db, disk, pc, seen, edit, acked, raced>>
      PROVE  Current(db)' /\ Current(disk)' /\ ReadCurrent'
  BY <1>0, <1>5 DEF Current, ReadCurrent
<1>6. \/ \E s \in Sessions : Delete(s)
      \/ \E p \in Patches : Patch(p)
      \/ \E r \in Runs : RunStep(r)
      \/ Crash
      \/ UNCHANGED <<db, disk, pc, seen, edit, acked, raced>>
  BY DEF Next, RefreshPlan, Migrate, vars, runVars, history
<1> QED BY <1>1, <1>2, <1>3, <1>4, <1>5, <1>6

\* The model a user switched to last stays, whatever runs, PATCH requests and
\* failing saves do after it, unless somebody had read the row before the switch
\* or a later switch failed at its commit.
THEOREM SwitchKeptHolds == Spec => []SwitchKept
<1> DEFINE Inv == Base /\ Current(db) /\ Current(disk) /\ ReadCurrent
<1>1. Init => Inv
  <2> SUFFICES ASSUME Init PROVE Inv
    OBVIOUS
  <2>1. PICK w \in Workloads : acked = w.model /\ db = [EmptyDb EXCEPT !.model = w.model]
    BY DEF Init
  <2>2. db.model = w.model  BY <2>1 DEF EmptyDb
  <2>3. Current(db)  BY <2>1, <2>2 DEF Current
  <2>4. ReadCurrent  BY DEF Init, ReadCurrent
  <2> QED BY <2>3, <2>4, BaseInit DEF Init
<1>2. Inv /\ [Next]_vars => Inv'
  BY BaseKept, CurrentKept DEF Base
<1>3. Inv => SwitchKept  BY DEF Current, SwitchKept
<1> QED BY <1>1, <1>2, <1>3, PTL DEF Spec

-------------------------------------------------------------------------------
(* What a run leaves in the tables.                                        *)

\* How far a run is, by what it does.
LEMMA RunForward ==
    ASSUME Types, NEW r \in Runs, RunStep(r)
    PROVE  /\ pc'[r] \in Early => pc[r] \in Early
           /\ pc'[r] \in {"new", "locking", "creating"} => pc[r] \in {"new", "locking"}
           /\ pc'[r] = "saving" => RunLoop(r) \/ Save(r)
           /\ \/ UNCHANGED <<trace, fresh>>
              \/ UNCHANGED <<db, disk>> /\ pc[r] \in {"locking", "loop"}
<1> USE DEF Types, Goto, Abort, Early
<1>1. CASE Start(r)  BY <1>1 DEF Start
<1>2. CASE Busy(r)  BY <1>2 DEF Busy
<1>3. CASE Lock(r)  BY <1>3 DEF Lock
<1>4. CASE CreateRun(r)  BY <1>4 DEF CreateRun
<1>5. CASE SetLlm(r)  BY <1>5 DEF SetLlm
<1>6. CASE BeginRun(r)  BY <1>6 DEF BeginRun
<1>7. CASE RunLoop(r)  BY <1>7 DEF RunLoop
<1>8. CASE Save(r)  BY <1>8 DEF Save, SaveFailed
<1>9. CASE ReadRow(r)  BY <1>9 DEF ReadRow
<1>10. CASE WriteRow(r)  BY <1>10 DEF WriteRow
<1> QED BY <1>1, <1>2, <1>3, <1>4, <1>5, <1>6, <1>7, <1>8, <1>9, <1>10 DEF RunStep

\* What the other steps do to the runs: nothing, or a crash.
LEMMA OtherMoves ==
    ASSUME Types, [Next]_vars
    PROVE  \/ \E r \in Runs : RunStep(r)
           \/ /\ UNCHANGED <<next, trace, fresh>>
              /\ \A r \in Runs : pc'[r] \in {pc[r], "crashed"}
              /\ pc' = pc \/ \A r \in Runs : pc'[r] \in {"new", "done", "raised", "crashed"}
              /\ \/ UNCHANGED <<db, disk>>
                 \/ db' = disk /\ disk' = disk /\ \A r \in Runs : pc'[r] # "saving"
                 \/ /\ pc' = pc /\ disk' \in {disk, db'}
                    /\ \/ db' = db
                       \/ \E s \in Sessions : db' = Cascaded(s)
                       \/ \E s \in Sessions : \E m \in Models : db' = UpdateModel(s, m)
<1>1. CASE Crash
  BY <1>1 DEF Crash, Types, Labels, Running
<1>2. ASSUME NEW s \in Sessions, Delete(s)
      PROVE  UNCHANGED <<pc, next, trace, fresh>> /\ disk' \in {disk, db'} /\ db' = Cascaded(s)
  BY <1>2 DEF Delete, runVars
<1>3. ASSUME NEW p \in Patches, Patch(p)
      PROVE  /\ UNCHANGED <<pc, next, trace, fresh>>
             /\ \/ UNCHANGED <<db, disk>>
                \/ /\ disk' \in {disk, db'}
                   /\ db' = db \/ \E s \in Sessions : \E m \in Models : db' = UpdateModel(s, m)
  <2>1. UNCHANGED <<pc, next, trace, fresh>> /\ disk' \in {disk, db'}
    BY <1>3, PatchMoves DEF runVars
  <2>2. CASE edit[p] \in Edits /\ db' = Patched(edit[p])
    <3>1. edit[p].session \in Sessions  BY <2>2 DEF Edits
    <3> QED BY <2>1, <2>2, <3>1, PatchedOne
  <2>3. CASE UNCHANGED db  BY <2>1, <2>3
  <2> QED BY <1>3, <2>1, <2>2, <2>3, PatchMoves
<1>6. ASSUME NEW s \in Sessions, RefreshPlan(s)
      PROVE  UNCHANGED <<pc, next, trace, fresh, db, disk>>
  BY <1>6 DEF RefreshPlan, runVars
<1>4. CASE Migrate  BY <1>4 DEF Migrate, runVars
<1>5. CASE UNCHANGED vars  BY <1>5 DEF vars, runVars
<1> QED BY <1>1, <1>2, <1>3, <1>4, <1>5, <1>6 DEF Next

\* Nothing of r is in the tables but its row.
Blank(d, r) ==
    /\ d.status[r] \in {"absent", "running"}
    /\ \A row \in d.rows : row.run # r
    /\ \A s \in Sessions : \A i \in 1..Len(d.msgs[s]) : d.msgs[s][i].run # r

\* Before its loop has returned a run has left nothing but its row, and no row
\* before it is created.
Blanks(d) ==
    \A r \in Runs : /\ pc[r] \in Early => Blank(d, r)
                    /\ pc[r] \in {"new", "locking", "creating"} => d.status[r] = "absent"

\* What the save of an operation of r leaves alone.
LEMMA StoreOf ==
    ASSUME Types, Points, NEW r \in Runs, NEW op, SavesOp(r, op), db' = Store(r, op)
    PROVE  /\ \A q \in Runs : q # r => db'.status[q] = db.status[q]
           /\ \A q \in Runs : q # r => SaidBy(db', q) = SaidBy(db, q)
           /\ db.rows \subseteq db'.rows
           /\ \A row \in db'.rows : row \in db.rows \/ (row = Row(r, op) /\ op.what \in RowOps)
           /\ \A s \in Sessions : \A i \in 1..Len(db'.msgs[s]) :
                 \/ /\ i \in 1..Len(db.msgs[s]) /\ db'.msgs[s][i] = db.msgs[s][i]
                 \/ /\ i = Len(db.msgs[s]) + 1 /\ db'.msgs[s][i] = Row(r, op)
                    /\ op.what \in MessageOps /\ s = sessionOf[r]
<1>0. Tables(db) /\ sessionOf \in [Runs -> Sessions] /\ Row(r, op).run = r
  BY DEF Types, Row
<1>1. CASE op.what \in {"create", "complete", "touch"}
  <2>1. db'.rows = db.rows /\ db'.msgs = db.msgs
    BY <1>0, <1>1, StoreFacts
  <2>2. \/ db'.status = db.status
        \/ \E x : db'.status = [db.status EXCEPT ![r] = x]
    <3>1. CASE op.what = "create"
      <4>1. db'.status = [db.status EXCEPT ![r] = "running"]  BY <1>0, <3>1, StoreFacts
      <4> QED BY <4>1
    <3>2. CASE op.what = "complete"
      <4>1. db'.status = [db.status EXCEPT ![r] = FinalStatus(Traces[trace[r]])]
        BY <1>0, <3>2, StoreFacts
      <4> QED BY <4>1
    <3>3. CASE op.what = "touch"  BY <1>0, <3>3, StoreFacts
    <3> QED BY <1>1, <3>1, <3>2, <3>3
  <2>3. \A q \in Runs : q # r => db'.status[q] = db.status[q]
    BY <1>0, <2>2 DEF Tables
  <2>4. \A q \in Runs : SaidBy(db', q) = SaidBy(db, q)  BY <2>1 DEF SaidBy
  <2> QED BY <2>1, <2>3, <2>4
<1>2. CASE op.what \in RowOps
  <2>1. db' = [model |-> db.model, status |-> db.status,
               rows |-> db.rows \cup {Row(r, op)}, msgs |-> db.msgs]
    BY <1>0, <1>2, StoreFacts
  <2> QED BY <1>2, <2>1 DEF SaidBy
<1>3. CASE op.what \in MessageOps
  <2> DEFINE z == sessionOf[r]
             e == Row(r, op)
  <2>1. db' = [model |-> db.model, status |-> db.status, rows |-> db.rows,
               msgs |-> [db.msgs EXCEPT ![z] = Append(@, e)]]
    BY <1>0, <1>3, StoreFacts
  <2>2. z \in Sessions /\ e.run = r  BY <1>0
  <2> HIDE DEF z, e
  <2>3. /\ db'.model = db.model /\ db'.status = db.status /\ db'.rows = db.rows
        /\ Len(db.msgs[z]) \in Nat /\ Len(db'.msgs[z]) = Len(db.msgs[z]) + 1
        /\ \A i \in 1..Len(db.msgs[z]) : db'.msgs[z][i] = db.msgs[z][i]
        /\ db'.msgs[z][Len(db.msgs[z]) + 1] = e
        /\ \A s \in Sessions : s # z => db'.msgs[s] = db.msgs[s]
    BY <1>0, <2>1, <2>2, Appended
  <2>4. ASSUME NEW s \in Sessions, NEW i \in 1..Len(db'.msgs[s])
        PROVE  \/ /\ i \in 1..Len(db.msgs[s]) /\ db'.msgs[s][i] = db.msgs[s][i]
               \/ /\ i = Len(db.msgs[s]) + 1 /\ db'.msgs[s][i] = e /\ s = z
    <3>1. CASE s # z  BY <2>3, <2>4, <3>1
    <3>2. CASE s = z
      <4>1. i \in 1..(Len(db.msgs[z]) + 1)  BY <2>3, <2>4, <3>2
      <4>2. i \in 1..Len(db.msgs[z]) \/ i = Len(db.msgs[z]) + 1  BY <2>3, <4>1
      <4> QED BY <2>3, <3>2, <4>2
    <3> QED BY <3>1, <3>2
  <2>5. ASSUME NEW q \in Runs, q # r PROVE SaidBy(db', q) = SaidBy(db, q)
    <3>1. CASE sessionOf[q] # z  BY <1>0, <2>3, <3>1 DEF SaidBy
    <3>2. CASE sessionOf[q] = z
      <4>1. SaidBy(db', q) = {i \in 1..Len(db'.msgs[z]) : db'.msgs[z][i].run = q}
        BY <3>2 DEF SaidBy
      <4>2. SaidBy(db, q) = {i \in 1..Len(db.msgs[z]) : db.msgs[z][i].run = q}
        BY <3>2 DEF SaidBy
      <4>3. \A i \in 1..Len(db'.msgs[z]) : i \in 1..Len(db.msgs[z]) \/ i = Len(db.msgs[z]) + 1
        BY <2>3
      <4>4. \A i \in 1..Len(db.msgs[z]) : i \in 1..Len(db'.msgs[z])
        BY <2>3
      <4>5. db'.msgs[z][Len(db.msgs[z]) + 1].run # q  BY <2>2, <2>3, <2>5
      <4> QED BY <2>3, <4>1, <4>2, <4>3, <4>4, <4>5
    <3> QED BY <3>1, <3>2
  <2>6. \A s \in Sessions : \A i \in 1..Len(db'.msgs[s]) :
           \/ /\ i \in 1..Len(db.msgs[s]) /\ db'.msgs[s][i] = db.msgs[s][i]
           \/ /\ i = Len(db.msgs[s]) + 1 /\ db'.msgs[s][i] = Row(r, op)
              /\ op.what \in MessageOps /\ s = sessionOf[r]
    BY <1>3, <2>4 DEF e, z
  <2> QED BY <2>3, <2>5, <2>6
<1> QED BY <1>1, <1>2, <1>3, OpKinds

\* What a deletion leaves of a session's runs, and of the others'.
LEMMA CascadedOf ==
    ASSUME Types, Rooted(db), NEW s \in Sessions, db' = Cascaded(s)
    PROVE  /\ \A r \in Runs : sessionOf[r] = s => db'.status[r] = "absent"
           /\ \A r \in Runs : sessionOf[r] # s => /\ db'.status[r] = db.status[r]
                                                  /\ SaidBy(db', r) = SaidBy(db, r)
                                                  /\ db'.msgs[sessionOf[r]] = db.msgs[sessionOf[r]]
           /\ db'.rows \subseteq db.rows
           /\ \A row \in db.rows : sessionOf[row.run] # s => row \in db'.rows
           /\ Len(db'.msgs[s]) = 0
           /\ \A z \in Sessions : z # s => db'.msgs[z] = db.msgs[z]
<1>0. Tables(db) /\ sessionOf \in [Runs -> Sessions]  BY DEF Types
<1>1. /\ db'.status = [r \in Runs |-> IF sessionOf[r] = s THEN "absent" ELSE db.status[r]]
      /\ db'.rows = {row \in db.rows : sessionOf[row.run] # s}
      /\ db'.msgs = [db.msgs EXCEPT ![s] = <<>>]
  BY DEF Cascaded
<1>2. \A z \in Sessions : db'.msgs[z] = IF z = s THEN <<>> ELSE db.msgs[z]
  BY <1>0, <1>1 DEF Tables
<1>3. Len(<<>>) = 0  OBVIOUS
<1> QED BY <1>0, <1>1, <1>2, <1>3 DEF SaidBy

\* Every step leaves the runs that have nothing to save blank.
LEMMA BlanksKept ==
    ASSUME Base, Blanks(db), Blanks(disk), [Next]_vars
    PROVE  Blanks(db)' /\ Blanks(disk)'
<1>0. /\ Types /\ Points /\ Tables(db) /\ Tables(disk) /\ sessionOf \in [Runs -> Sessions]
      /\ disk' \in {disk, db'}
  BY TableMoves DEF Base, Types
<1>1. ASSUME NEW q \in Runs, RunStep(q), NEW r \in Runs
      PROVE  /\ pc'[r] \in Early => pc[r] \in Early
             /\ pc'[r] \in {"new", "locking", "creating"} =>
                   pc[r] \in {"new", "locking", "creating"} /\ (r = q => pc[r] # "creating")
  BY <1>0, <1>1, RunForward, OnlyTheRun
<1>2. ASSUME NEW q \in Runs, RunStep(q), NEW r \in Runs, pc'[r] \in Early PROVE Blank(db', r)
  <2>1. Blank(db, r)  BY <1>1, <1>2 DEF Blanks
  <2>2. ASSUME NEW op, SavesOp(q, op), db' = Store(q, op) PROVE Blank(db', r)
    <3>0. /\ \A row \in db'.rows : row \in db.rows \/ (row = Row(q, op) /\ op.what \in RowOps)
          /\ \A s \in Sessions : \A i \in 1..Len(db'.msgs[s]) :
                 \/ /\ i \in 1..Len(db.msgs[s]) /\ db'.msgs[s][i] = db.msgs[s][i]
                 \/ db'.msgs[s][i] = Row(q, op) /\ op.what \in MessageOps
          /\ r # q => db'.status[r] = db.status[r]
      BY <1>0, <2>2, StoreOf
    <3>1. CASE r # q
      <4>1. Row(q, op).run # r  BY <3>1 DEF Row
      <4> QED BY <2>1, <3>0, <3>1, <4>1 DEF Blank
    <3>2. CASE r = q
      <4>1. pc[r] = "creating" /\ op.what = "create"
        BY <1>1, <1>2, <2>2, <3>2 DEF SavesOp, Early, Op
      <4>2. db' = [model |-> db.model, status |-> [db.status EXCEPT ![r] = "running"],
                   rows |-> db.rows, msgs |-> db.msgs]
        BY <1>0, <2>2, <3>2, <4>1, StoreFacts
      <4>3. db'.status[r] = "running" /\ db'.rows = db.rows /\ db'.msgs = db.msgs
        BY <1>0, <4>2 DEF Tables
      <4> QED BY <2>1, <4>3 DEF Blank
    <3> QED BY <3>1, <3>2
  <2> QED BY <1>2, <2>1, <2>2, RunSaves
<1>3. ASSUME NEW q \in Runs, RunStep(q), NEW r \in Runs, pc'[r] \in {"new", "locking", "creating"}
      PROVE  db'.status[r] = "absent"
  <2>1. db.status[r] = "absent" /\ (r = q => pc[r] \in {"new", "locking"})
    BY <1>1, <1>3 DEF Blanks
  <2>2. ASSUME NEW op, SavesOp(q, op), db' = Store(q, op) PROVE db'.status[r] = db.status[r]
    <3>1. r # q  BY <2>1, <2>2 DEF SavesOp
    <3> QED BY <1>0, <2>2, <3>1, StoreOf
  <2> QED BY <1>3, <2>1, <2>2, RunSaves
<1>4. ASSUME NEW q \in Runs, RunStep(q) PROVE Blanks(db)' /\ Blanks(disk)'
  <2>1. Blanks(db)'  BY <1>2, <1>3, <1>4 DEF Blanks, Blank
  <2>2. CASE disk' = disk
    <3>1. \A r \in Runs : pc'[r] \in {"new", "locking", "creating"} => pc[r] \in {"new", "locking", "creating"}
      BY <1>1, <1>4
    <3>2. \A r \in Runs : pc'[r] \in Early => pc[r] \in Early
      BY <1>1, <1>4
    <3> QED BY <2>1, <2>2, <3>1, <3>2 DEF Blanks, Blank
  <2>3. CASE disk' = db'  BY <2>1, <2>3 DEF Blanks, Blank
  <2> QED BY <1>0, <2>2, <2>3
<1>5. ASSUME \A r \in Runs : pc'[r] \in {pc[r], "crashed"}, UNCHANGED <<db, disk>> \/ (db' = disk /\ disk' = disk)
      PROVE  Blanks(db)' /\ Blanks(disk)'
  BY <1>5 DEF Blanks, Blank, Early
<1>6. ASSUME pc' = pc, NEW s \in Sessions, db' = Cascaded(s) PROVE Blanks(db)'
  <2>1. /\ \A r \in Runs : db'.status[r] \in {db.status[r], "absent"}
        /\ db'.rows \subseteq db.rows
        /\ \A z \in Sessions : Len(db'.msgs[z]) = 0 \/ db'.msgs[z] = db.msgs[z]
    BY <1>0, <1>6, CascadedOf DEF Base
  <2> QED BY <1>6, <2>1 DEF Blanks, Blank
<1>7. ASSUME pc' = pc, NEW s \in Sessions, NEW m \in Models, db' = UpdateModel(s, m) PROVE Blanks(db)'
  <2>1. db'.status = db.status /\ db'.rows = db.rows /\ db'.msgs = db.msgs
    BY <1>0, <1>7 DEF Tables, UpdateModel
  <2> QED BY <1>7, <2>1 DEF Blanks, Blank
<1>8. ASSUME disk' = db', Blanks(db)' PROVE Blanks(disk)'
  BY <1>8 DEF Blanks, Blank
<1>9. ASSUME pc' = pc, disk' = disk PROVE Blanks(disk)'
  BY <1>9 DEF Blanks, Blank
<1>10. ASSUME pc' = pc, db' = db PROVE Blanks(db)'
  BY <1>10 DEF Blanks, Blank
<1> QED BY <1>0, <1>4, <1>5, <1>6, <1>7, <1>8, <1>9, <1>10, OtherMoves

\* The messages of a run in its session can be counted.
LEMMA SaidFacts ==
    ASSUME NEW d, Tables(d), sessionOf \in [Runs -> Sessions], NEW r \in Runs
    PROVE  /\ IsFiniteSet(SaidBy(d, r)) /\ Cardinality(SaidBy(d, r)) \in Nat
           /\ Cardinality(SaidBy(d, r)) = 0 <=> SaidBy(d, r) = {}
<1> DEFINE n == Len(d.msgs[sessionOf[r]])
<1>1. n \in Nat  BY SequenceFacts DEF Tables
<1>2. SaidBy(d, r) \in SUBSET (1..n)  BY DEF SaidBy
<1>3. IsFiniteSet(1..n)
  <2> HIDE DEF n
  <2> QED BY <1>1, FS_Interval
<1> HIDE DEF n
<1>4. IsFiniteSet(SaidBy(d, r))  BY <1>2, <1>3, FS_Subset
<1> QED BY <1>4, FS_CardinalityType, FS_EmptySet

\* The save that a run is at, by its place in the agenda.
LEMMA SavePlaces ==
    ASSUME Base, NEW r \in Runs, pc[r] = "saving"
    PROVE  LET t  == Traces[trace[r]]
               R  == Records(t, fresh[r])
               M  == Messages(t, fresh[r])
               b  == Before(t, fresh[r])
               n  == next[r]
               op == AgendaOf(r)[n]
           IN  /\ trace[r] \in 1..Len(Traces) /\ fresh[r] \in BOOLEAN
               /\ b \in Nat /\ Len(M) \in Nat /\ n \in 1..(b + Len(M) + 1)
               /\ Len(AgendaOf(r)) = b + Len(M) + 1
               /\ n <= b => op = R[n] /\ op.what \in RowOps /\ (op.what = "call" => IsCall(t, op))
               /\ n > b /\ n <= b + Len(M) => op = M[n - b] /\ op.what \in MessageOps /\ n - b \in 1..Len(M)
               /\ n = b + Len(M) + 1 => op = Op("complete", 0, <<>>)
<1> DEFINE t == Traces[trace[r]]
           A == Agenda(t, fresh[r])
           R == Records(t, fresh[r])
           M == Messages(t, fresh[r])
           b == Before(t, fresh[r])
           n == next[r]
<1>1. trace[r] \in 1..Len(Traces) /\ fresh[r] \in BOOLEAN /\ n \in 1..Len(AgendaOf(r))
  BY DEF Base, Points, Types
<1>2. AgendaOf(r) = A  BY <1>1, AgendaOfFacts DEF Base
<1>3. /\ b \in Nat /\ Len(M) \in Nat /\ Len(R) = b + Len(M) /\ Len(A) = Len(R) + 1
      /\ \A i \in 1..Len(R) : A[i] = R[i]
      /\ \A i \in 1..b : R[i].what \in RowOps
      /\ \A i \in 1..Len(M) : R[b + i] = M[i] /\ M[i] \in MessageSet(t)
      /\ A[Len(R) + 1] = Op("complete", 0, <<>>)
  BY <1>1, AgendaFacts
<1>9. \A i \in 1..b : R[i].what = "call" => IsCall(t, R[i])
  BY <1>1, AgendaFacts
<1>4. \A e \in MessageSet(t) : e.what \in MessageOps
  BY DEF MessageSet, Op, MessageOps
<1> HIDE DEF A, R, M, b, n, t
<1>5. Len(AgendaOf(r)) = b + Len(M) + 1 /\ n \in 1..(b + Len(M) + 1)
  BY <1>1, <1>2, <1>3
<1>6. ASSUME n <= b PROVE A[n] = R[n] /\ R[n].what \in RowOps /\ (R[n].what = "call" => IsCall(t, R[n]))
  <2>1. n \in 1..b /\ n \in 1..Len(R)  BY <1>3, <1>5, <1>6
  <2> QED BY <1>3, <1>9, <2>1
<1>7. ASSUME n > b, n <= b + Len(M)
      PROVE  A[n] = M[n - b] /\ A[n].what \in MessageOps /\ n - b \in 1..Len(M)
  <2>1. n - b \in 1..Len(M) /\ n \in 1..Len(R) /\ n = b + (n - b)  BY <1>3, <1>5, <1>7
  <2>2. A[n] = R[n] /\ R[b + (n - b)] = M[n - b] /\ M[n - b] \in MessageSet(t)
    BY <1>3, <2>1
  <2> QED BY <1>4, <2>1, <2>2
<1>8. n = b + Len(M) + 1 => A[n] = Op("complete", 0, <<>>)  BY <1>3
<1> QED BY <1>1, <1>2, <1>3, <1>5, <1>6, <1>7, <1>8 DEF R, M, b, n, t

\* A message of r that is appended is counted, and is the last of its session.
LEMMA MessageCounted ==
    ASSUME Types, NEW r \in Runs, NEW op, op.what \in MessageOps, db' = Store(r, op)
    PROVE  LET s == sessionOf[r]
               n == Len(db.msgs[s])
           IN  /\ db'.status = db.status /\ db'.rows = db.rows
               /\ n \in Nat /\ Len(db'.msgs[s]) = n + 1
               /\ \A i \in 1..n : db'.msgs[s][i] = db.msgs[s][i]
               /\ db'.msgs[s][n + 1] = Row(r, op)
               /\ \A z \in Sessions : z # s => db'.msgs[z] = db.msgs[z]
               /\ SaidBy(db', r) = SaidBy(db, r) \cup {n + 1}
               /\ Cardinality(SaidBy(db', r)) = Cardinality(SaidBy(db, r)) + 1
<1> DEFINE s == sessionOf[r]
           n == Len(db.msgs[s])
           e == Row(r, op)
<1>0. Tables(db) /\ sessionOf \in [Runs -> Sessions] /\ s \in Sessions /\ e.run = r
  BY DEF Types, Row
<1>1. db' = [model |-> db.model, status |-> db.status, rows |-> db.rows,
             msgs |-> [db.msgs EXCEPT ![s] = Append(@, e)]]
  BY <1>0, StoreFacts
<1> HIDE DEF s, e
<1>2. /\ db'.model = db.model /\ db'.status = db.status /\ db'.rows = db.rows
      /\ n \in Nat /\ Len(db'.msgs[s]) = n + 1
      /\ \A i \in 1..n : db'.msgs[s][i] = db.msgs[s][i]
      /\ db'.msgs[s][n + 1] = e
      /\ \A z \in Sessions : z # s => db'.msgs[z] = db.msgs[z]
  BY <1>0, <1>1, Appended
<1> HIDE DEF n
<1>3. SaidBy(db, r) = {i \in 1..n : db.msgs[s][i].run = r}  BY DEF SaidBy, s, n
<1>4. SaidBy(db', r) = {i \in 1..(n + 1) : db'.msgs[s][i].run = r}
  BY <1>2 DEF SaidBy, s
<1>5. \A i \in 1..(n + 1) : i \in 1..n \/ i = n + 1  BY <1>2
<1>6. n + 1 \in 1..(n + 1) /\ \A i \in 1..n : i \in 1..(n + 1)  BY <1>2
<1>7. SaidBy(db', r) = SaidBy(db, r) \cup {n + 1}
  BY <1>0, <1>2, <1>3, <1>4, <1>5, <1>6
<1>8. n + 1 \notin SaidBy(db, r)  BY <1>2, <1>3
<1>9. Cardinality(SaidBy(db', r)) = Cardinality(SaidBy(db, r)) + 1
  <2>1. IsFiniteSet(SaidBy(db, r))  BY <1>0, SaidFacts
  <2> QED BY <1>7, <1>8, <2>1, FS_AddElement
<1> QED BY <1>2, <1>7, <1>9 DEF s, n, e

\* What r has saved so far, where its agenda says next.
SoFar(d, r) ==
    LET b == Before(Traces[trace[r]], fresh[r])
        s == sessionOf[r]
    IN  /\ d.status[r] = "running"
        /\ \A i \in 1..b : i < next[r] => Row(r, Records(Traces[trace[r]], fresh[r])[i]) \in d.rows
        /\ Cardinality(SaidBy(d, r)) = IF next[r] <= b THEN 0 ELSE next[r] - 1 - b
        /\ SaidBy(d, r) # {} => d.msgs[s][Len(d.msgs[s])].run = r

\* A run that saves has saved its agenda up to here, unless its row was
\* deleted, and its last message is the last of the session.
Underway ==
    \A r \in Runs : pc[r] = "saving" =>
        /\ disk.status[r] \in {"absent", "running"}
        /\ db.status[r] \in {"absent", "running"}
        /\ db.status[r] # "absent" => SoFar(db, r)

\* The save that succeeds and is not the last.
LEMMA SaveGoesOn ==
    ASSUME Types, NEW r \in Runs, Save(r), pc'[r] = "saving"
    PROVE  LET op == AgendaOf(r)[next[r]]
           IN  /\ pc[r] = "saving" /\ ~Refused(r, op) /\ db' = Store(r, op)
               /\ next'[r] = next[r] + 1 /\ next[r] # Len(AgendaOf(r))
               /\ UNCHANGED <<trace, fresh, sessionOf>>
<1> DEFINE op == AgendaOf(r)[next[r]]
<1>1. pc[r] = "saving" /\ UNCHANGED <<trace, fresh, sessionOf>>  BY DEF Save
<1>2. pc'[r] # "raised"  OBVIOUS
<1>3. /\ Saves(r, op)
      /\ next' = [next EXCEPT ![r] = @ + 1]
      /\ Goto(r, IF next[r] = Len(AgendaOf(r)) THEN "touching" ELSE "saving")
  BY <1>2 DEF Save, SaveFailed, Abort, Goto, Types
<1>4. next'[r] = next[r] + 1 /\ next[r] # Len(AgendaOf(r))
  BY <1>3 DEF Goto, Types
<1> QED BY <1>1, <1>3, <1>4 DEF Saves

\* A run that begins to save has saved nothing.
LEMMA SoFarNothing ==
    ASSUME Base, NEW r \in Runs, Blank(db, r), RunLoop(r), pc'[r] = "saving", db.status[r] # "absent"
    PROVE  SoFar(db, r)'
<1>1. /\ db' = db /\ sessionOf' = sessionOf /\ fresh' = fresh
      /\ next'[r] = 1 /\ trace'[r] \in 1..Len(Traces)
      /\ sessionOf \in [Runs -> Sessions]
  BY DEF RunLoop, Base, Types, Points, Early, Goto, Abort
<1>2. SaidBy(db, r)' = {}  BY <1>1 DEF SaidBy, Blank
<1>3. Before(Traces[trace'[r]], fresh[r]) \in Nat
  <2>1. trace'[r] \in 1..Len(Traces) /\ fresh[r] \in BOOLEAN  BY <1>1 DEF Base, Types
  <2> QED BY <2>1, AgendaFacts
<1>4. Cardinality({}) = 0  BY FS_EmptySet
<1>5. db.status[r] = "running"  BY DEF Blank
<1> QED BY <1>1, <1>2, <1>3, <1>4, <1>5 DEF SoFar

\* A save that succeeds brings a run one place further.
LEMMA SoFarFurther ==
    ASSUME Base, NEW r \in Runs, Save(r), pc'[r] = "saving", SoFar(db, r)
    PROVE  SoFar(db, r)'
<1> DEFINE t  == Traces[trace[r]]
           R  == Records(t, fresh[r])
           M  == Messages(t, fresh[r])
           b  == Before(t, fresh[r])
           n  == next[r]
           s  == sessionOf[r]
           op == AgendaOf(r)[n]
<1>0. Types /\ Points /\ Tables(db) /\ sessionOf \in [Runs -> Sessions]  BY DEF Base, Types
<1>1. /\ pc[r] = "saving" /\ ~Refused(r, op) /\ db' = Store(r, op)
      /\ next'[r] = n + 1 /\ n # Len(AgendaOf(r))
      /\ UNCHANGED <<trace, fresh, sessionOf>>
  BY <1>0, SaveGoesOn
<1>2. /\ b \in Nat /\ Len(M) \in Nat /\ n \in 1..(b + Len(M) + 1)
      /\ Len(AgendaOf(r)) = b + Len(M) + 1
      /\ n <= b => op = R[n] /\ op.what \in RowOps
      /\ n > b /\ n <= b + Len(M) => op = M[n - b] /\ op.what \in MessageOps
  BY <1>1, SavePlaces
<1>3. /\ db.status[r] = "running"
      /\ \A i \in 1..b : i < n => Row(r, R[i]) \in db.rows
      /\ Cardinality(SaidBy(db, r)) = IF n <= b THEN 0 ELSE n - 1 - b
      /\ SaidBy(db, r) # {} => db.msgs[s][Len(db.msgs[s])].run = r
  BY DEF SoFar
<1>4. ASSUME /\ db'.status[r] = "running"
             /\ \A i \in 1..b : i < n + 1 => Row(r, R[i]) \in db'.rows
             /\ Cardinality(SaidBy(db', r)) = IF n + 1 <= b THEN 0 ELSE n - b
             /\ SaidBy(db', r) # {} => db'.msgs[s][Len(db'.msgs[s])].run = r
      PROVE  SoFar(db, r)'
  <2>1. SaidBy(db, r)' = SaidBy(db', r)  BY <1>1 DEF SaidBy
  <2>2. next'[r] - 1 - b = n - b  BY <1>1, <1>2
  <2>3. trace'[r] = trace[r] /\ fresh'[r] = fresh[r] /\ sessionOf'[r] = sessionOf[r]  BY <1>1
  <2> QED BY <1>1, <1>4, <2>1, <2>2, <2>3 DEF SoFar
<1> HIDE DEF t, R, M, b, n, op
<1>5. CASE n <= b
  <2>1. db' = [model |-> db.model, status |-> db.status,
               rows |-> db.rows \cup {Row(r, op)}, msgs |-> db.msgs]
    BY <1>0, <1>1, <1>2, <1>5, StoreFacts
  <2>2. /\ db'.status = db.status /\ db'.msgs = db.msgs
        /\ db.rows \subseteq db'.rows /\ Row(r, op) \in db'.rows
    BY <2>1
  <2>3. \A i \in 1..b : i < n + 1 => Row(r, R[i]) \in db'.rows
    <3>1. \A i \in 1..b : i < n + 1 => i < n \/ i = n  BY <1>2
    <3> QED BY <1>2, <1>3, <1>5, <2>2, <3>1
  <2>4. SaidBy(db', r) = SaidBy(db, r) /\ Cardinality(SaidBy(db, r)) = 0
    BY <1>3, <1>5, <2>2 DEF SaidBy
  <2>5. SaidBy(db, r) = {}  BY <1>0, <2>4, SaidFacts
  <2>6. ~(n + 1 <= b) => n - b = 0  BY <1>2, <1>5
  <2> QED BY <1>3, <1>4, <2>2, <2>3, <2>4, <2>5, <2>6
<1>6. CASE n > b
  <2>0. op.what \in MessageOps  BY <1>1, <1>2, <1>6
  <2>1. /\ db'.status = db.status /\ db'.rows = db.rows
        /\ Len(db.msgs[s]) \in Nat /\ Len(db'.msgs[s]) = Len(db.msgs[s]) + 1
        /\ db'.msgs[s][Len(db.msgs[s]) + 1] = Row(r, op)
        /\ Cardinality(SaidBy(db', r)) = Cardinality(SaidBy(db, r)) + 1
    BY <1>0, <1>1, <2>0, MessageCounted
  <2>2. db'.msgs[s][Len(db'.msgs[s])].run = r  BY <2>1 DEF Row
  <2>3. Cardinality(SaidBy(db', r)) = n - b
    <3>1. Cardinality(SaidBy(db, r)) = n - 1 - b  BY <1>2, <1>3, <1>6
    <3> QED BY <1>2, <2>1, <3>1
  <2>4. ~(n + 1 <= b)  BY <1>2, <1>6
  <2>5. \A i \in 1..b : i < n  BY <1>2, <1>6
  <2> QED BY <1>3, <1>4, <2>1, <2>2, <2>3, <2>4, <2>5
<1> QED BY <1>2, <1>5, <1>6

\* Who else saves leaves what r has saved.
LEMMA SoFarBystander ==
    ASSUME Base, NEW r \in Runs, NEW q \in Runs, q # r, RunStep(q),
           pc[r] = "saving", SoFar(db, r)
    PROVE  SoFar(db, r)'
<1>0. Types /\ Points /\ Locked /\ Tables(db) /\ sessionOf \in [Runs -> Sessions]  BY DEF Base, Types
<1>1. /\ UNCHANGED sessionOf /\ next'[r] = next[r] /\ trace'[r] = trace[r] /\ fresh'[r] = fresh[r]
  BY <1>0, OnlyTheRun, RunSaves
<1>2. ASSUME NEW op, SavesOp(q, op), db' = Store(q, op) PROVE SoFar(db, r)'
  <2>1. /\ db'.status[r] = db.status[r] /\ SaidBy(db', r) = SaidBy(db, r) /\ db.rows \subseteq db'.rows
    BY <1>0, <1>2, StoreOf
  <2>2. db'.msgs[sessionOf[r]] = db.msgs[sessionOf[r]]
    <3>1. CASE op.what \in MessageOps
      <4>1. pc[q] = "saving"  BY <1>2, <3>1 DEF SavesOp, Op, MessageOps
      <4>2. sessionOf[q] # sessionOf[r]  BY <1>0, <4>1 DEF Locked, Holding
      <4> QED BY <1>0, <1>2, <3>1, <4>2, MessageCounted
    <3>2. CASE op.what \notin MessageOps
      <4>1. op.what \in {"create", "complete", "touch"} \cup RowOps  BY <1>0, <1>2, <3>2, OpKinds
      <4> QED BY <1>0, <1>2, <4>1, StoreFacts
    <3> QED BY <3>1, <3>2
  <2>3. SaidBy(db, r)' = SaidBy(db, r)  BY <1>1, <2>1 DEF SaidBy
  <2> QED BY <1>1, <2>1, <2>2, <2>3 DEF SoFar
<1>3. CASE db' = db
  <2>1. SaidBy(db, r)' = SaidBy(db, r)  BY <1>1, <1>3 DEF SaidBy
  <2> QED BY <1>1, <1>3, <2>1 DEF SoFar
<1> QED BY <1>2, <1>3, RunSaves

\* Every step keeps what the runs under way have saved.
LEMMA UnderwayKept ==
    ASSUME Base, Blanks(db), Blanks(disk), Underway, [Next]_vars
    PROVE  Underway'
<1>0. /\ Types /\ Points /\ Locked /\ Tables(db) /\ sessionOf \in [Runs -> Sessions]
      /\ UNCHANGED sessionOf /\ disk' \in {disk, db'}
  BY TableMoves DEF Base, Types
<1>1. ASSUME NEW q \in Runs, RunStep(q), NEW r \in Runs, pc'[r] = "saving"
      PROVE  /\ disk'.status[r] \in {"absent", "running"}
             /\ db'.status[r] \in {"absent", "running"}
             /\ db'.status[r] # "absent" => SoFar(db, r)'
  <2>1. CASE r # q
    <3>1. pc[r] = "saving"  BY <1>0, <1>1, <2>1, OnlyTheRun
    <3>2. db'.status[r] = db.status[r]
      <4>1. ASSUME NEW op, SavesOp(q, op), db' = Store(q, op) PROVE db'.status[r] = db.status[r]
        BY <1>0, <2>1, <4>1, StoreOf
      <4> QED BY <1>1, <4>1, RunSaves
    <3>3. db.status[r] # "absent" => SoFar(db, r)'
      BY <1>1, <2>1, <3>1, SoFarBystander DEF Underway
    <3> QED BY <1>0, <3>1, <3>2, <3>3 DEF Underway
  <2>2. CASE r = q /\ RunLoop(r)
    <3>1. UNCHANGED <<db, disk>> /\ pc[r] = "loop"  BY <2>2 DEF RunLoop
    <3>2. Blank(db, r) /\ Blank(disk, r)  BY <3>1 DEF Blanks, Early
    <3>3. db.status[r] # "absent" => SoFar(db, r)'  BY <1>1, <2>2, <3>2, SoFarNothing
    <3> QED BY <3>1, <3>2, <3>3 DEF Blank
  <2>3. CASE r = q /\ Save(r)
    <3> DEFINE op == AgendaOf(r)[next[r]]
    <3>1. pc[r] = "saving" /\ ~Refused(r, op) /\ db' = Store(r, op) /\ next[r] # Len(AgendaOf(r))
      BY <1>0, <1>1, <2>3, SaveGoesOn
    <3>2. op.what \in RowOps \cup MessageOps
      <4> DEFINE n == next[r]
                 b == Before(Traces[trace[r]], fresh[r])
                 M == Messages(Traces[trace[r]], fresh[r])
      <4>1. /\ b \in Nat /\ Len(M) \in Nat /\ n \in 1..(b + Len(M) + 1)
            /\ Len(AgendaOf(r)) = b + Len(M) + 1
            /\ n <= b => op.what \in RowOps
            /\ n > b /\ n <= b + Len(M) => op.what \in MessageOps
        BY <3>1, SavePlaces
      <4>2. n # Len(AgendaOf(r))  BY <3>1
      <4> HIDE DEF op, n, b, M
      <4> QED BY <4>1, <4>2
    <3>3. db'.status = db.status
      <4>1. CASE op.what \in RowOps  BY <1>0, <3>1, <4>1, StoreFacts
      <4>2. CASE op.what \in MessageOps  BY <1>0, <3>1, <4>2, StoreFacts
      <4> QED BY <3>2, <4>1, <4>2
    <3>4. db.status[r] # "absent" => SoFar(db, r)'
      BY <1>1, <2>3, <3>1, SoFarFurther DEF Underway
    <3> QED BY <1>0, <3>1, <3>3, <3>4 DEF Underway
  <2> QED BY <1>0, <1>1, <2>1, <2>2, <2>3, RunForward
<1>2. ASSUME NEW r \in Runs, pc[r] = "saving", pc' = pc, disk' \in {disk, db'},
             UNCHANGED <<next, trace, fresh>>, NEW s \in Sessions, db' = Cascaded(s)
      PROVE  /\ disk'.status[r] \in {"absent", "running"}
             /\ db'.status[r] \in {"absent", "running"}
             /\ db'.status[r] # "absent" => SoFar(db, r)'
  <2>1. /\ sessionOf[r] = s => db'.status[r] = "absent"
        /\ sessionOf[r] # s => /\ db'.status[r] = db.status[r]
                               /\ SaidBy(db', r) = SaidBy(db, r)
                               /\ db'.msgs[sessionOf[r]] = db.msgs[sessionOf[r]]
        /\ \A row \in db.rows : sessionOf[row.run] # s => row \in db'.rows
    BY <1>0, <1>2, CascadedOf DEF Base
  <2>2. CASE sessionOf[r] = s  BY <1>2, <2>1, <2>2 DEF Underway
  <2>3. CASE sessionOf[r] # s
    <3>1. SaidBy(db, r)' = SaidBy(db, r)  BY <1>0, <2>1, <2>3 DEF SaidBy
    <3>2. \A x : Row(r, x) \in db.rows => Row(r, x) \in db'.rows  BY <2>1, <2>3 DEF Row
    <3>3. db'.status[r] # "absent" => SoFar(db, r)'
      BY <1>0, <1>2, <2>1, <2>3, <3>1, <3>2 DEF SoFar, Underway
    <3> QED BY <1>2, <2>1, <2>3, <3>3 DEF Underway
  <2> QED BY <2>2, <2>3
<1>3. ASSUME NEW r \in Runs, pc[r] = "saving", disk' \in {disk, db'}, UNCHANGED <<next, trace, fresh>>,
             db'.status = db.status, db'.rows = db.rows, db'.msgs = db.msgs
      PROVE  /\ disk'.status[r] \in {"absent", "running"}
             /\ db'.status[r] \in {"absent", "running"}
             /\ db'.status[r] # "absent" => SoFar(db, r)'
  <2>1. SaidBy(db, r)' = SaidBy(db, r)  BY <1>0, <1>3 DEF SaidBy
  <2> QED BY <1>0, <1>3, <2>1 DEF SoFar, Underway
<1>4. ASSUME NEW s \in Sessions, NEW m \in Models, db' = UpdateModel(s, m)
      PROVE  db'.status = db.status /\ db'.rows = db.rows /\ db'.msgs = db.msgs
  BY <1>0, <1>4 DEF Tables, UpdateModel
<1>5. ASSUME ~\E q \in Runs : RunStep(q), NEW r \in Runs, pc'[r] = "saving"
      PROVE  /\ disk'.status[r] \in {"absent", "running"}
             /\ db'.status[r] \in {"absent", "running"}
             /\ db'.status[r] # "absent" => SoFar(db, r)'
  <2>1. /\ UNCHANGED <<next, trace, fresh>> /\ pc[r] = "saving"
        /\ \/ UNCHANGED <<db, disk>>
           \/ /\ pc' = pc /\ disk' \in {disk, db'}
              /\ \/ db' = db
                 \/ \E s \in Sessions : db' = Cascaded(s)
                 \/ \E s \in Sessions : \E m \in Models : db' = UpdateModel(s, m)
    BY <1>0, <1>5, OtherMoves
  <2>2. CASE db' = db /\ disk' \in {disk, db'}  BY <1>3, <2>1, <2>2
  <2>3. ASSUME pc' = pc, disk' \in {disk, db'}, NEW s \in Sessions, db' = Cascaded(s)
        PROVE  /\ disk'.status[r] \in {"absent", "running"}
               /\ db'.status[r] \in {"absent", "running"}
               /\ db'.status[r] # "absent" => SoFar(db, r)'
    BY <1>2, <2>1, <2>3
  <2>4. ASSUME pc' = pc, disk' \in {disk, db'}, NEW s \in Sessions, NEW m \in Models, db' = UpdateModel(s, m)
        PROVE  /\ disk'.status[r] \in {"absent", "running"}
               /\ db'.status[r] \in {"absent", "running"}
               /\ db'.status[r] # "absent" => SoFar(db, r)'
    BY <1>3, <1>4, <2>1, <2>4
  <2> QED BY <2>1, <2>2, <2>3, <2>4
<1> QED BY <1>1, <1>5 DEF Underway

-------------------------------------------------------------------------------
(* The chronicle of the runs, on the connection and on disk.               *)

\* The i-th message of a session is the next that its run had to say, follows
\* the one before, and what its run did is in the tables.
Told(d, tr, fr, s, i) ==
    LET r    == d.msgs[s][i].run
        t    == Traces[tr[r]]
        said == Cardinality({j \in 1..i : d.msgs[s][j].run = r})
    IN  /\ tr[r] \in 1..Len(Traces)
        /\ said \in 1..Len(Messages(t, fr[r]))
        /\ d.msgs[s][i] = Row(r, Messages(t, fr[r])[said])
        /\ said > 1 => d.msgs[s][i - 1].run = r
        /\ \A j \in 1..Before(t, fr[r]) : Row(r, Records(t, fr[r])[j]) \in d.rows

\* All messages are told in order.
InOrder(d, tr, fr) == \A s \in Sessions : \A i \in 1..Len(d.msgs[s]) : Told(d, tr, fr, s, i)

\* A run that has ended has left everything.
Ended(d, tr, fr) ==
    \A r \in Runs : d.status[r] \in {"completed", "stopped"} =>
        LET t == Traces[tr[r]] IN
        /\ tr[r] \in 1..Len(Traces)
        /\ \A j \in 1..Before(t, fr[r]) : Row(r, Records(t, fr[r])[j]) \in d.rows
        /\ Cardinality(SaidBy(d, r)) = Len(Messages(t, fr[r]))

\* The row of a call is of a call that its run's loop got to, and no id has two.
Called(d, tr) ==
    /\ \A row \in d.rows : row.what = "call" =>
          /\ tr[row.run] \in 1..Len(Traces)
          /\ \E op : IsCall(Traces[tr[row.run]], op) /\ row = Row(row.run, op)
    /\ \A row, other \in d.rows :
          row.what = "call" /\ other.what = "call" /\ row.ids = other.ids => row = other

\* The tables tell what the runs did.
Chronicle(d, tr, fr) == InOrder(d, tr, fr) /\ Ended(d, tr, fr) /\ Called(d, tr)

\* What is learned of a run that has left nothing changes nothing.
LEMMA ChronicleTraces ==
    ASSUME NEW d, NEW tr, NEW fr, NEW tr2, NEW fr2, Tables(d), NEW r \in Runs,
           Chronicle(d, tr, fr), Blank(d, r),
           \A q \in Runs : q # r => tr2[q] = tr[q] /\ fr2[q] = fr[q]
    PROVE  Chronicle(d, tr2, fr2)
<1>1. InOrder(d, tr2, fr2)
  <2> SUFFICES ASSUME NEW s \in Sessions, NEW i \in 1..Len(d.msgs[s])
               PROVE  Told(d, tr2, fr2, s, i)
    BY DEF InOrder
  <2>1. d.msgs[s][i].run \in Runs /\ d.msgs[s][i].run # r  BY DEF Tables, Blank
  <2>2. Told(d, tr, fr, s, i)  BY DEF Chronicle, InOrder
  <2>3. tr2[d.msgs[s][i].run] = tr[d.msgs[s][i].run] /\ fr2[d.msgs[s][i].run] = fr[d.msgs[s][i].run]
    BY <2>1
  <2> QED BY <2>2, <2>3 DEF Told
<1>2. Ended(d, tr2, fr2)
  <2> SUFFICES ASSUME NEW q \in Runs, d.status[q] \in {"completed", "stopped"}
               PROVE  LET t == Traces[tr2[q]] IN
                      /\ tr2[q] \in 1..Len(Traces)
                      /\ \A j \in 1..Before(t, fr2[q]) : Row(q, Records(t, fr2[q])[j]) \in d.rows
                      /\ Cardinality(SaidBy(d, q)) = Len(Messages(t, fr2[q]))
    BY DEF Ended
  <2>1. q # r  BY DEF Blank
  <2>2. tr2[q] = tr[q] /\ fr2[q] = fr[q]  BY <2>1
  <2> QED BY <2>2 DEF Chronicle, Ended
<1>3. Called(d, tr2)
  <2>1. \A row \in d.rows : tr2[row.run] = tr[row.run]  BY DEF Tables, Blank
  <2> QED BY <2>1 DEF Chronicle, Called
<1> QED BY <1>1, <1>2, <1>3 DEF Chronicle

\* The chronicle is about rows, messages and statuses.
LEMMA ChronicleTables ==
    ASSUME NEW d, NEW e, NEW tr, NEW fr, Chronicle(d, tr, fr),
           e.rows = d.rows, e.msgs = d.msgs, e.status = d.status
    PROVE  Chronicle(e, tr, fr)
<1>1. \A q \in Runs : SaidBy(e, q) = SaidBy(d, q)  BY DEF SaidBy
<1>2. InOrder(e, tr, fr)
  <2> SUFFICES ASSUME NEW s \in Sessions, NEW i \in 1..Len(e.msgs[s])
               PROVE  Told(e, tr, fr, s, i)
    BY DEF InOrder
  <2>1. Told(d, tr, fr, s, i)  BY DEF Chronicle, InOrder
  <2> QED BY <2>1 DEF Told
<1>3. Ended(e, tr, fr)  BY <1>1 DEF Chronicle, Ended
<1> QED BY <1>2, <1>3 DEF Chronicle, Called

\* A deletion takes the runs of a session with all that they left.
LEMMA ChronicleCascaded ==
    ASSUME Base, Chronicle(db, trace, fresh), NEW s \in Sessions, db' = Cascaded(s)
    PROVE  Chronicle(db', trace, fresh)
<1>0. /\ Types /\ Tables(db) /\ Rooted(db) /\ sessionOf \in [Runs -> Sessions]
      /\ InOrder(db, trace, fresh) /\ Ended(db, trace, fresh) /\ Called(db, trace)
  BY DEF Base, Types, Chronicle
<1>1. /\ \A r \in Runs : sessionOf[r] = s => db'.status[r] = "absent"
      /\ \A r \in Runs : sessionOf[r] # s => /\ db'.status[r] = db.status[r]
                                             /\ SaidBy(db', r) = SaidBy(db, r)
      /\ db'.rows \subseteq db.rows
      /\ \A row \in db.rows : sessionOf[row.run] # s => row \in db'.rows
      /\ Len(db'.msgs[s]) = 0
      /\ \A z \in Sessions : z # s => db'.msgs[z] = db.msgs[z]
  BY <1>0, CascadedOf
<1>2. \A r \in Runs : sessionOf[r] # s => \A x : Row(r, x) \in db.rows => Row(r, x) \in db'.rows
  BY <1>1 DEF Row
<1>3. InOrder(db', trace, fresh)
  <2> SUFFICES ASSUME NEW z \in Sessions, NEW i \in 1..Len(db'.msgs[z])
               PROVE  Told(db', trace, fresh, z, i)
    BY DEF InOrder
  <2>1. z # s  BY <1>1
  <2>2. db'.msgs[z] = db.msgs[z]  BY <1>1, <2>1
  <2>3. db.msgs[z][i].run \in Runs /\ sessionOf[db.msgs[z][i].run] # s
    BY <1>0, <2>1, <2>2 DEF Tables, Rooted
  <2>4. Told(db, trace, fresh, z, i)  BY <1>0, <2>2 DEF InOrder
  <2>5. \A x : Row(db.msgs[z][i].run, x) \in db.rows => Row(db.msgs[z][i].run, x) \in db'.rows
    BY <1>2, <2>3
  <2> QED BY <2>2, <2>4, <2>5 DEF Told
<1>4. Ended(db', trace, fresh)
  <2> SUFFICES ASSUME NEW q \in Runs, db'.status[q] \in {"completed", "stopped"}
               PROVE  LET t == Traces[trace[q]] IN
                      /\ trace[q] \in 1..Len(Traces)
                      /\ \A j \in 1..Before(t, fresh[q]) : Row(q, Records(t, fresh[q])[j]) \in db'.rows
                      /\ Cardinality(SaidBy(db', q)) = Len(Messages(t, fresh[q]))
    BY DEF Ended
  <2>1. sessionOf[q] # s /\ db'.status[q] = db.status[q] /\ SaidBy(db', q) = SaidBy(db, q)
    BY <1>1
  <2>2. \A x : Row(q, x) \in db.rows => Row(q, x) \in db'.rows  BY <1>2, <2>1
  <2> QED BY <1>0, <2>1, <2>2 DEF Ended
<1>5. Called(db', trace)  BY <1>0, <1>1 DEF Called
<1> QED BY <1>3, <1>4, <1>5 DEF Chronicle

\* What was told stays told when tables only grow.
LEMMA ToldStays ==
    ASSUME NEW d, NEW e, NEW tr, NEW fr, NEW s \in Sessions, Tables(d),
           NEW i \in 1..Len(d.msgs[s]), Told(d, tr, fr, s, i),
           \A j \in 1..Len(d.msgs[s]) : e.msgs[s][j] = d.msgs[s][j],
           d.rows \subseteq e.rows
    PROVE  Told(e, tr, fr, s, i)
<1> DEFINE r    == d.msgs[s][i].run
           said == {j \in 1..i : d.msgs[s][j].run = r}
<1>1. Len(d.msgs[s]) \in Nat /\ i \in Nat /\ i >= 1 /\ \A j \in 1..i : j \in 1..Len(d.msgs[s])
  BY SequenceFacts DEF Tables
<1>2. e.msgs[s][i] = d.msgs[s][i]  OBVIOUS
<1>3. {j \in 1..i : e.msgs[s][j].run = r} = said  BY <1>1
<1>4. Cardinality(said) \in Nat /\ Cardinality(said) <= i
  <2>1. IsFiniteSet(1..i) /\ Cardinality(1..i) = i  BY <1>1, FS_Interval
  <2>2. said \in SUBSET (1..i)  OBVIOUS
  <2>3. IsFiniteSet(said) /\ Cardinality(said) <= Cardinality(1..i)  BY <2>1, <2>2, FS_Subset
  <2> QED BY <2>1, <2>3, FS_CardinalityType
<1>5. Told(d, tr, fr, s, i) => (Cardinality(said) > 1 => d.msgs[s][i - 1].run = r)  BY DEF Told
<1>6. Cardinality(said) > 1 => i - 1 \in 1..Len(d.msgs[s])
  <2> HIDE DEF said
  <2> QED BY <1>1, <1>4
<1>7. Cardinality(said) > 1 => e.msgs[s][i - 1].run = r  BY <1>5, <1>6
<1> QED BY <1>2, <1>3, <1>7 DEF Told

\* A save keeps the messages in order: the one it may append is the next.
LEMMA InOrderSave ==
    ASSUME Base, Underway, InOrder(db, trace, fresh), NEW r \in Runs, NEW op,
           SavesOp(r, op), ~Refused(r, op), db' = Store(r, op)
    PROVE  InOrder(db', trace, fresh)
<1>0. Types /\ Points /\ Tables(db) /\ sessionOf \in [Runs -> Sessions]  BY DEF Base, Types
<1>1. /\ db.rows \subseteq db'.rows
      /\ \A s \in Sessions : \A i \in 1..Len(db'.msgs[s]) :
            \/ i \in 1..Len(db.msgs[s]) /\ db'.msgs[s][i] = db.msgs[s][i]
            \/ /\ i = Len(db.msgs[s]) + 1 /\ db'.msgs[s][i] = Row(r, op)
               /\ op.what \in MessageOps /\ s = sessionOf[r]
  BY <1>0, StoreOf
<1>2. \A s \in Sessions : \A i \in 1..Len(db.msgs[s]) : db'.msgs[s][i] = db.msgs[s][i]
  <2>1. CASE op.what \in MessageOps
    <3>1. /\ \A i \in 1..Len(db.msgs[sessionOf[r]]) : db'.msgs[sessionOf[r]][i] = db.msgs[sessionOf[r]][i]
          /\ \A z \in Sessions : z # sessionOf[r] => db'.msgs[z] = db.msgs[z]
      BY <1>0, <2>1, MessageCounted
    <3> QED BY <3>1
  <2>2. CASE op.what \notin MessageOps
    <3>1. op.what \in {"create", "complete", "touch"} \cup RowOps  BY <1>0, <2>2, OpKinds
    <3>2. db'.msgs = db.msgs  BY <1>0, <3>1, StoreFacts
    <3> QED BY <3>2
  <2> QED BY <2>1, <2>2
<1>3. ASSUME NEW s \in Sessions, NEW i \in 1..Len(db.msgs[s]) PROVE Told(db', trace, fresh, s, i)
  <2>1. Told(db, trace, fresh, s, i)  BY DEF InOrder
  <2> DEFINE e == db'
  <2>2. e.rows = db'.rows /\ e.msgs = db'.msgs  OBVIOUS
  <2> HIDE DEF e
  <2>3. Told(e, trace, fresh, s, i)
    BY <1>0, <1>1, <1>2, <2>1, <2>2, ToldStays
  <2> QED BY <2>3 DEF e
<1>4. ASSUME op.what \in MessageOps, NEW s, s = sessionOf[r], NEW i, i = Len(db.msgs[s]) + 1
      PROVE  Told(db', trace, fresh, s, i)
  <2> DEFINE t  == Traces[trace[r]]
             R  == Records(t, fresh[r])
             M  == Messages(t, fresh[r])
             b  == Before(t, fresh[r])
             n  == next[r]
             by == {j \in 1..i : db'.msgs[s][j].run = r}
  <2>1. pc[r] = "saving" /\ op = AgendaOf(r)[n]
    BY <1>4 DEF SavesOp, Op, MessageOps
  <2>2. db.status[r] # "absent"  BY <1>4 DEF Refused, RunMissing, MessageOps
  <2>3. SoFar(db, r)  BY <2>1, <2>2 DEF Underway
  <2>4. /\ trace[r] \in 1..Len(Traces)
        /\ b \in Nat /\ Len(M) \in Nat /\ n \in 1..(b + Len(M) + 1)
        /\ n <= b => op.what \in RowOps
        /\ n > b /\ n <= b + Len(M) => op = M[n - b] /\ n - b \in 1..Len(M)
        /\ n = b + Len(M) + 1 => op = Op("complete", 0, <<>>)
    BY <2>1, SavePlaces
  <2>5. op.what \notin RowOps /\ op # Op("complete", 0, <<>>)
    BY <1>4 DEF MessageOps, RowOps, Op
  <2>6. /\ \A j \in 1..b : j < n => Row(r, R[j]) \in db.rows
        /\ Cardinality(SaidBy(db, r)) = IF n <= b THEN 0 ELSE n - 1 - b
        /\ SaidBy(db, r) # {} => db.msgs[s][Len(db.msgs[s])].run = r
    BY <1>4, <2>3 DEF SoFar
  <2>7. /\ db'.rows = db.rows /\ Len(db.msgs[s]) \in Nat /\ Len(db'.msgs[s]) = i
        /\ \A j \in 1..Len(db.msgs[s]) : db'.msgs[s][j] = db.msgs[s][j]
        /\ db'.msgs[s][i] = Row(r, op)
        /\ Cardinality(SaidBy(db', r)) = Cardinality(SaidBy(db, r)) + 1
    BY <1>0, <1>4, MessageCounted
  <2>8. by = SaidBy(db', r)  BY <1>4, <2>7 DEF SaidBy
  <2>9. /\ IsFiniteSet(SaidBy(db, r)) /\ Cardinality(SaidBy(db, r)) \in Nat
        /\ Cardinality(SaidBy(db, r)) = 0 <=> SaidBy(db, r) = {}
    BY <1>0, SaidFacts
  <2> HIDE DEF t, R, M, b, n, by
  <2>10. n > b /\ n <= b + Len(M)  BY <2>4, <2>5
  <2>11. Cardinality(by) = n - b /\ n - b \in 1..Len(M) /\ op = M[n - b]
    <3>1. Cardinality(SaidBy(db, r)) = n - 1 - b  BY <2>4, <2>6, <2>10
    <3>2. Cardinality(by) = n - 1 - b + 1  BY <2>7, <2>8, <3>1
    <3> QED BY <2>4, <2>10, <3>2
  <2>12. Cardinality(by) > 1 => db'.msgs[s][i - 1].run = r
    <3> SUFFICES ASSUME Cardinality(by) > 1 PROVE db'.msgs[s][i - 1].run = r  OBVIOUS
    <3>1. Cardinality(SaidBy(db, r)) # 0  BY <2>7, <2>8, <2>9
    <3>2. SaidBy(db, r) # {}  BY <2>9, <3>1
    <3>3. Len(db.msgs[s]) # 0
      <4>1. PICK x \in SaidBy(db, r) : TRUE  BY <3>2
      <4>2. x \in 1..Len(db.msgs[s])  BY <1>4, <4>1 DEF SaidBy
      <4> QED BY <2>7, <4>2
    <3>4. i - 1 = Len(db.msgs[s]) /\ Len(db.msgs[s]) \in 1..Len(db.msgs[s])
      BY <1>4, <2>7, <3>3
    <3> QED BY <2>6, <2>7, <3>2, <3>4
  <2>13. \A j \in 1..b : Row(r, R[j]) \in db'.rows
    <3>1. \A j \in 1..b : j < n  BY <2>4, <2>10
    <3> QED BY <2>6, <2>7, <3>1
  <2>14. db'.msgs[s][i].run = r  BY <2>7 DEF Row
  <2>15. by = {j \in 1..i : db'.msgs[s][j].run = db'.msgs[s][i].run}  BY <2>14 DEF by
  <2>16. /\ Cardinality(by) \in 1..Len(M) /\ db'.msgs[s][i] = Row(r, M[Cardinality(by)])
    BY <2>7, <2>11
  <2>17. Told(db', trace, fresh, s, i) =
           /\ trace[r] \in 1..Len(Traces)
           /\ Cardinality(by) \in 1..Len(M)
           /\ db'.msgs[s][i] = Row(r, M[Cardinality(by)])
           /\ Cardinality(by) > 1 => db'.msgs[s][i - 1].run = r
           /\ \A j \in 1..b : Row(r, R[j]) \in db'.rows
    BY <2>14, <2>15 DEF Told, t, R, M, b
  <2> QED BY <2>4, <2>12, <2>13, <2>16, <2>17
<1> QED BY <1>1, <1>3, <1>4 DEF InOrder

\* A save ends a run only when it is the last of its agenda.
LEMMA EndedSave ==
    ASSUME Base, Underway, Ended(db, trace, fresh), NEW r \in Runs, NEW op,
           SavesOp(r, op), ~Refused(r, op), db' = Store(r, op)
    PROVE  Ended(db', trace, fresh)
<1>0. Types /\ Points /\ Tables(db) /\ sessionOf \in [Runs -> Sessions]  BY DEF Base, Types
<1>1. /\ \A q \in Runs : q # r => db'.status[q] = db.status[q] /\ SaidBy(db', q) = SaidBy(db, q)
      /\ db.rows \subseteq db'.rows
  BY <1>0, StoreOf
<1>2. op.what \in {"create", "complete", "touch"} \cup RowOps \cup MessageOps
  BY <1>0, OpKinds
<1> DEFINE Left(e, q) ==
             /\ trace[q] \in 1..Len(Traces)
             /\ \A j \in 1..Before(Traces[trace[q]], fresh[q]) :
                   Row(q, Records(Traces[trace[q]], fresh[q])[j]) \in e.rows
             /\ Cardinality(SaidBy(e, q)) = Len(Messages(Traces[trace[q]], fresh[q]))
<1>3. \A q \in Runs : db.status[q] \in {"completed", "stopped"} => Left(db, q)  BY DEF Ended
<1>4. ASSUME NEW q \in Runs, db'.status[q] \in {"completed", "stopped"}, q # r PROVE Left(db', q)
  BY <1>1, <1>3, <1>4
<1>5. CASE op.what = "create"
  <2>1. db' = [model |-> db.model, status |-> [db.status EXCEPT ![r] = "running"],
               rows |-> db.rows, msgs |-> db.msgs]
    BY <1>0, <1>5, StoreFacts
  <2>2. db'.status[r] = "running"  BY <1>0, <2>1 DEF Tables
  <2> HIDE DEF Left
  <2>3. \A q \in Runs : db'.status[q] \in {"completed", "stopped"} => Left(db', q)  BY <1>4, <2>2
  <2> QED BY <2>3 DEF Ended, Left
<1>6. CASE op.what = "touch"
  <2>1. db'.status = db.status /\ db'.rows = db.rows /\ db'.msgs = db.msgs
    BY <1>0, <1>6, StoreFacts
  <2>2. \A q \in Runs : SaidBy(db', q) = SaidBy(db, q)  BY <2>1 DEF SaidBy
  <2>3. \A q \in Runs : db'.status[q] \in {"completed", "stopped"} => Left(db', q)
    BY <1>3, <2>1, <2>2
  <2> QED BY <2>3 DEF Ended
<1>7. CASE op.what \in RowOps \cup MessageOps
  <2>1. db'.status = db.status
    <3>1. CASE op.what \in RowOps  BY <1>0, <3>1, StoreFacts
    <3>2. CASE op.what \in MessageOps  BY <1>0, <3>2, StoreFacts
    <3> QED BY <1>7, <3>1, <3>2
  <2>2. pc[r] = "saving"  BY <1>7 DEF SavesOp, Op, RowOps, MessageOps
  <2>3. db'.status[r] \in {"absent", "running"}  BY <2>1, <2>2 DEF Underway
  <2> HIDE DEF Left
  <2>4. \A q \in Runs : db'.status[q] \in {"completed", "stopped"} => Left(db', q)  BY <1>4, <2>3
  <2> QED BY <2>4 DEF Ended, Left
<1>8. CASE op.what = "complete"
  <2> DEFINE t == Traces[trace[r]]
             R == Records(t, fresh[r])
             M == Messages(t, fresh[r])
             b == Before(t, fresh[r])
             n == next[r]
  <2>1. pc[r] = "saving" /\ op = AgendaOf(r)[n]
    BY <1>8 DEF SavesOp, Op
  <2>2. SoFar(db, r)  BY <1>8, <2>1 DEF Underway, Refused, RunMissing
  <2>3. /\ trace[r] \in 1..Len(Traces)
        /\ b \in Nat /\ Len(M) \in Nat /\ n \in 1..(b + Len(M) + 1)
        /\ n <= b => op.what \in RowOps
        /\ n > b /\ n <= b + Len(M) => op.what \in MessageOps
    BY <2>1, SavePlaces
  <2>4. /\ \A j \in 1..b : j < n => Row(r, R[j]) \in db.rows
        /\ Cardinality(SaidBy(db, r)) = IF n <= b THEN 0 ELSE n - 1 - b
    BY <2>2 DEF SoFar
  <2>5. op.what \notin RowOps /\ op.what \notin MessageOps  BY <1>8 DEF RowOps, MessageOps
  <2>6. db'.rows = db.rows /\ db'.msgs = db.msgs  BY <1>0, <1>8, StoreFacts
  <2>7. SaidBy(db', r) = SaidBy(db, r)  BY <2>6 DEF SaidBy
  <2> HIDE DEF t, R, M, b, n
  <2>8. n = b + Len(M) + 1  BY <2>3, <2>5
  <2>9. Cardinality(SaidBy(db, r)) = Len(M) /\ \A j \in 1..b : j < n  BY <2>3, <2>4, <2>8
  <2>10. \A j \in 1..b : Row(r, R[j]) \in db'.rows  BY <2>4, <2>6, <2>9
  <2>11. Left(db', r)  BY <2>3, <2>7, <2>9, <2>10 DEF R, M, b, t
  <2> HIDE DEF Left
  <2>12. \A q \in Runs : db'.status[q] \in {"completed", "stopped"} => Left(db', q)  BY <1>4, <2>11
  <2> QED BY <2>12 DEF Ended, Left
<1> QED BY <1>2, <1>5, <1>6, <1>7, <1>8

\* The row of a call is new, and of a call the loop got to.
LEMMA CalledSave ==
    ASSUME Base, Called(db, trace), NEW r \in Runs, NEW op,
           SavesOp(r, op), ~Refused(r, op), db' = Store(r, op)
    PROVE  Called(db', trace)
<1>0. Types /\ Points  BY DEF Base
<1>1. \A row \in db'.rows : row \in db.rows \/ (row = Row(r, op) /\ op.what \in RowOps)
  BY <1>0, StoreOf
<1>2. Row(r, op).run = r /\ Row(r, op).what = op.what /\ Row(r, op).ids = op.ids  BY DEF Row
<1>3. ASSUME op.what = "call"
      PROVE  /\ trace[r] \in 1..Len(Traces) /\ IsCall(Traces[trace[r]], op)
             /\ ~IdTaken(op)
  <2> DEFINE n == next[r]
             b == Before(Traces[trace[r]], fresh[r])
             M == Messages(Traces[trace[r]], fresh[r])
  <2>1. pc[r] = "saving" /\ op = AgendaOf(r)[n]  BY <1>3 DEF SavesOp, Op
  <2>2. /\ trace[r] \in 1..Len(Traces)
        /\ b \in Nat /\ Len(M) \in Nat /\ n \in 1..(b + Len(M) + 1)
        /\ n <= b => (op.what = "call" => IsCall(Traces[trace[r]], op))
        /\ n > b /\ n <= b + Len(M) => op.what \in MessageOps
        /\ n = b + Len(M) + 1 => op = Op("complete", 0, <<>>)
    BY <2>1, SavePlaces
  <2>3. op.what \notin MessageOps /\ op # Op("complete", 0, <<>>)
    BY <1>3 DEF MessageOps, Op
  <2> HIDE DEF n, b, M
  <2>4. n <= b  BY <2>2, <2>3
  <2> QED BY <1>3, <2>2, <2>4 DEF Refused
<1>4. ASSUME NEW row \in db'.rows, row.what = "call"
      PROVE  /\ trace[row.run] \in 1..Len(Traces)
             /\ \E o : IsCall(Traces[trace[row.run]], o) /\ row = Row(row.run, o)
  <2>1. CASE row \in db.rows  BY <1>4, <2>1 DEF Called
  <2>2. CASE row = Row(r, op)  BY <1>2, <1>3, <1>4, <2>2
  <2> QED BY <1>1, <2>1, <2>2
<1>5. ASSUME NEW row \in db'.rows, NEW other \in db'.rows,
             row.what = "call", other.what = "call", row.ids = other.ids
      PROVE  row = other
  <2>1. CASE row \in db.rows /\ other \in db.rows  BY <1>5, <2>1 DEF Called
  <2>2. CASE row = Row(r, op) /\ other \in db.rows  BY <1>2, <1>3, <1>5, <2>2 DEF IdTaken
  <2>3. CASE other = Row(r, op) /\ row \in db.rows  BY <1>2, <1>3, <1>5, <2>3 DEF IdTaken
  <2>4. CASE row = Row(r, op) /\ other = Row(r, op)  BY <2>4
  <2> QED BY <1>1, <2>1, <2>2, <2>3, <2>4
<1> QED BY <1>4, <1>5 DEF Called

\* The blanks, what is under way and the chronicle: what the tables are worth.
Worth ==
    /\ Blanks(db) /\ Blanks(disk) /\ Underway
    /\ Chronicle(db, trace, fresh) /\ Chronicle(disk, trace, fresh)

\* Empty tables tell the truth.
LEMMA WorthInit ==
    ASSUME Init
    PROVE  Worth
<1>1. PICK w \in Workloads : db = [EmptyDb EXCEPT !.model = w.model]
  BY DEF Init
<1>2. /\ db.rows = {} /\ db.msgs = [s \in Sessions |-> <<>>]
      /\ db.status = [r \in Runs |-> "absent"]
  BY <1>1 DEF EmptyDb
<1>3. disk = db /\ pc = [r \in Runs |-> "new"]  BY DEF Init
<1>4. Len(<<>>) = 0  OBVIOUS
<1>5. \A s \in Sessions : ~\E i \in 1..Len(db.msgs[s]) : TRUE  BY <1>2, <1>4
<1>6. Blanks(db)  BY <1>2, <1>5 DEF Blanks, Blank
<1>7. Underway  BY <1>3 DEF Underway
<1>8. Chronicle(db, trace, fresh)  BY <1>2, <1>5 DEF Chronicle, InOrder, Ended, Called
<1> QED BY <1>3, <1>6, <1>7, <1>8 DEF Worth

\* What the tables say of the runs stays true.
LEMMA ChronicleKept ==
    ASSUME Base, Worth, [Next]_vars
    PROVE  Chronicle(db', trace', fresh') /\ Chronicle(disk', trace', fresh')
<1>0. /\ Types /\ Points /\ Tables(db) /\ Tables(disk) /\ disk' \in {disk, db'}
      /\ Chronicle(db, trace, fresh) /\ Chronicle(disk, trace, fresh)
  BY TableMoves DEF Base, Types, Worth
<1>1. ASSUME NEW r \in Runs, RunStep(r), UNCHANGED <<trace, fresh>>
      PROVE  Chronicle(db', trace', fresh') /\ Chronicle(disk', trace', fresh')
  <2>1. ASSUME NEW op, SavesOp(r, op), ~Refused(r, op), db' = Store(r, op)
        PROVE  Chronicle(db', trace, fresh)
    BY <1>0, <2>1, InOrderSave, EndedSave, CalledSave DEF Chronicle, Worth
  <2>2. db' = db \/ \E op : SavesOp(r, op) /\ ~Refused(r, op) /\ db' = Store(r, op)
    BY <1>1, RunSaves
  <2>3. Chronicle(db', trace, fresh)  BY <1>0, <2>1, <2>2
  <2> QED BY <1>0, <1>1, <2>3
<1>2. ASSUME NEW r \in Runs, RunStep(r), UNCHANGED <<db, disk>>, pc[r] \in {"locking", "loop"}
      PROVE  Chronicle(db', trace', fresh') /\ Chronicle(disk', trace', fresh')
  <2>1. Blank(db, r) /\ Blank(disk, r)  BY <1>2 DEF Worth, Blanks, Early
  <2>2. \A q \in Runs : q # r => trace'[q] = trace[q] /\ fresh'[q] = fresh[q]
    BY <1>0, <1>2, OnlyTheRun
  <2>3. Chronicle(db, trace', fresh')  BY <1>0, <2>1, <2>2, ChronicleTraces
  <2>4. Chronicle(disk, trace', fresh')  BY <1>0, <2>1, <2>2, ChronicleTraces
  <2> QED BY <1>2, <2>3, <2>4
<1>3. ASSUME NEW r \in Runs, RunStep(r)
      PROVE  Chronicle(db', trace', fresh') /\ Chronicle(disk', trace', fresh')
  BY <1>0, <1>1, <1>2, <1>3, RunForward
<1>4. ASSUME UNCHANGED <<trace, fresh>>, NEW s \in Sessions, db' = Cascaded(s), disk' \in {disk, db'}
      PROVE  Chronicle(db', trace', fresh') /\ Chronicle(disk', trace', fresh')
  <2>1. Chronicle(db', trace, fresh)  BY <1>0, <1>4, ChronicleCascaded
  <2> QED BY <1>0, <1>4, <2>1
<1>5. ASSUME UNCHANGED <<trace, fresh>>, NEW s \in Sessions, NEW m \in Models,
             db' = UpdateModel(s, m), disk' \in {disk, db'}
      PROVE  Chronicle(db', trace', fresh') /\ Chronicle(disk', trace', fresh')
  <2>1. db'.status = db.status /\ db'.rows = db.rows /\ db'.msgs = db.msgs
    BY <1>0, <1>5 DEF Tables, UpdateModel
  <2>2. Chronicle(db', trace, fresh)  BY <1>0, <2>1, ChronicleTables
  <2> QED BY <1>0, <1>5, <2>2
<1>6. ASSUME UNCHANGED <<trace, fresh>>,
             (db' = db /\ disk' \in {disk, db'}) \/ (db' = disk /\ disk' = disk)
      PROVE  Chronicle(db', trace', fresh') /\ Chronicle(disk', trace', fresh')
  BY <1>0, <1>6
<1>7. CASE ~\E r \in Runs : RunStep(r)
  <2>1. /\ UNCHANGED <<trace, fresh>>
        /\ \/ UNCHANGED <<db, disk>> \/ (db' = disk /\ disk' = disk)
           \/ /\ disk' \in {disk, db'}
              /\ \/ db' = db
                 \/ \E s \in Sessions : db' = Cascaded(s)
                 \/ \E s \in Sessions : \E m \in Models : db' = UpdateModel(s, m)
    BY <1>0, <1>7, OtherMoves
  <2> QED BY <1>4, <1>5, <1>6, <2>1
<1> QED BY <1>3, <1>7

\* Every step keeps the tables worth what they were.
LEMMA WorthKept ==
    ASSUME Base, Worth, [Next]_vars
    PROVE  Worth'
<1>1. Blanks(db)' /\ Blanks(disk)' /\ Underway'  BY BlanksKept, UnderwayKept DEF Worth
<1>2. UNCHANGED sessionOf  BY TableMoves DEF Base
<1>3. Chronicle(db', trace', fresh') /\ Chronicle(disk', trace', fresh')  BY ChronicleKept
<1>4. Chronicle(db, trace, fresh)' /\ Chronicle(disk, trace, fresh)'
  BY <1>2, <1>3 DEF Chronicle, InOrder, Ended, Called, Told, SaidBy
<1> QED BY <1>1, <1>4 DEF Worth

\* What the proofs of the chronicle's properties rest on.
Chronicled == Base /\ Worth

\* Together with the types, what the tables are worth is inductive.
THEOREM ChronicleHolds == Spec => []Chronicled
<1>1. Init => Chronicled  BY BaseInit, WorthInit DEF Chronicled
<1>2. Chronicled /\ [Next]_vars => Chronicled'  BY BaseKept, WorthKept DEF Chronicled
<1> QED BY <1>1, <1>2, PTL DEF Spec

\* A run that the disk says has ended has left all its rows and all its
\* messages there, whichever of its saves another thread committed and whatever
\* failed or crashed on the way.
THEOREM CompletedIsWholeHolds == Spec => []CompletedIsWhole
<1>1. ASSUME Chronicled PROVE CompletedIsWhole
  <2> SUFFICES ASSUME NEW r \in Runs, disk.status[r] \in {"completed", "stopped"}
               PROVE  LET did == AllRecords[trace[r]][fresh[r]] IN
                      /\ \A i \in 1..Len(did) : did[i].what \notin MessageOps => Row(r, did[i]) \in disk.rows
                      /\ Cardinality(SaidBy(disk, r)) = Len(AllMessages[trace[r]][fresh[r]])
    BY DEF CompletedIsWhole
  <2> DEFINE t == Traces[trace[r]]
             R == Records(t, fresh[r])
             M == Messages(t, fresh[r])
             b == Before(t, fresh[r])
  <2>1. /\ trace[r] \in 1..Len(Traces)
        /\ \A j \in 1..b : Row(r, R[j]) \in disk.rows
        /\ Cardinality(SaidBy(disk, r)) = Len(M)
    BY <1>1 DEF Chronicled, Worth, Chronicle, Ended
  <2>2. Types /\ fresh[r] \in BOOLEAN  BY <1>1 DEF Chronicled, Base, Types
  <2>3. AllRecords[trace[r]][fresh[r]] = R /\ AllMessages[trace[r]][fresh[r]] = M
    BY <2>1, <2>2, AgendaOfFacts
  <2>4. /\ b \in Nat /\ Len(M) \in Nat /\ Len(R) = b + Len(M)
        /\ \A i \in 1..Len(M) : R[b + i] = M[i] /\ M[i] \in MessageSet(t)
    BY <2>1, <2>2, AgendaFacts
  <2>5. \A e \in MessageSet(t) : e.what \in MessageOps
    BY DEF MessageSet, Op, MessageOps
  <2> HIDE DEF t, R, M, b
  <2>6. ASSUME NEW i \in 1..Len(R), R[i].what \notin MessageOps PROVE Row(r, R[i]) \in disk.rows
    <3>1. CASE i \in 1..b  BY <2>1, <3>1
    <3>2. CASE i \notin 1..b
      <4>1. i - b \in 1..Len(M) /\ i = b + (i - b)  BY <2>4, <3>2
      <4>2. R[i] = M[i - b] /\ M[i - b] \in MessageSet(t)  BY <2>4, <4>1
      <4> QED BY <2>5, <2>6, <4>2
    <3> QED BY <3>1, <3>2
  <2> QED BY <2>1, <2>3, <2>6
<1> QED BY <1>1, ChronicleHolds, PTL

\* The messages of a run lie together and are a prefix of what it said, on the
\* connection and on disk, whatever failed, was deleted or crashed.
THEOREM RunsDoNotMixHolds == Spec => []RunsDoNotMix
<1>1. ASSUME Chronicled, NEW d \in {db, disk}, NEW s \in Sessions, NEW i \in 1..Len(d.msgs[s])
      PROVE  LET m    == d.msgs[s][i]
                 said == Cardinality({j \in 1..i : d.msgs[s][j].run = m.run})
             IN  /\ m = Said(m.run, said)
                 /\ said > 1 => d.msgs[s][i - 1].run = m.run
  <2>1. Told(d, trace, fresh, s, i)  BY <1>1 DEF Chronicled, Worth, Chronicle, InOrder
  <2>2. Types /\ Tables(d)  BY <1>1 DEF Chronicled, Base, Types
  <2>3. d.msgs[s][i].run \in Runs  BY <2>2 DEF Tables
  <2>4. trace[d.msgs[s][i].run] \in 1..Len(Traces)  BY <2>1 DEF Told
  <2>5. AllMessages[trace[d.msgs[s][i].run]][fresh[d.msgs[s][i].run]]
          = Messages(Traces[trace[d.msgs[s][i].run]], fresh[d.msgs[s][i].run])
    BY <2>2, <2>3, <2>4, AgendaOfFacts
  <2> QED BY <2>1, <2>5 DEF Told, Said
<1>2. Chronicled => RunsDoNotMix  BY <1>1 DEF RunsDoNotMix
<1> QED BY <1>2, ChronicleHolds, PTL

\* The step that tool_call_to_step has for an id is one that handled a call of
\* this id, and it has one for every such id.
LEMMA StepOfCallFacts ==
    ASSUME NEW k \in 1..Len(Traces), NEW id
    PROVE  LET t == Traces[k]
               g == StepOfCall(t, id)
           IN  /\ g # 0 => g \in Steps(t) /\ id \in HandledIds(t, g)
               /\ \A n \in Steps(t) : id \in HandledIds(t, n) => g # 0
<1> DEFINE t == Traces[k]
           S == {n \in Steps(t) : id \in HandledIds(t, n)} \cup {0}
           l == Len(t.turns)
           D == {j \in 0..l : l - j \in S}
<1>1. l \in Nat  BY TurnFacts
<1>2. StepOfCall(t, id) = Max(S)  BY DEF StepOfCall
<1>3. S \subseteq 0..l /\ 0 \in S  BY <1>1 DEF Steps
<1>4. \A n \in S : n # 0 => n \in Steps(t) /\ id \in HandledIds(t, n)  OBVIOUS
<1>5. \A n \in Steps(t) : id \in HandledIds(t, n) => n \in S /\ n # 0  BY <1>1 DEF Steps
<1> HIDE DEF t, S, l
<1>6. D \in SUBSET Nat /\ D # {}
  <2>1. l \in D  BY <1>1, <1>3
  <2> QED BY <1>1, <2>1
<1>7. PICK j \in D : \A x \in D : j <= x
  <2> HIDE DEF D
  <2> QED BY <1>6, LeastOf
<1>8. l - j \in S /\ \A n \in S : l - j >= n
  <2>1. ASSUME NEW n \in S PROVE l - j >= n
    <3>1. n \in 0..l /\ l - n \in 0..l /\ l - (l - n) = n  BY <1>1, <1>3
    <3>2. l - n \in D  BY <3>1
    <3>3. j <= l - n  BY <1>7, <3>2
    <3> QED BY <1>1, <1>6, <3>1, <3>3
  <2> QED BY <2>1
<1>9. Max(S) \in S /\ \A n \in S : Max(S) >= n  BY <1>8 DEF Max
<1>10. \A n \in S : n # 0 => Max(S) # 0  BY <1>1, <1>3, <1>9
<1> QED BY <1>2, <1>4, <1>5, <1>9, <1>10 DEF t

\* A message of a run whose rows are there: one for the id of every call that
\* the loop got to, which names its step, and no other.
Spoken(d, m) ==
    LET r == m.run
        t == Traces[trace[r]]
    IN  /\ trace[r] \in 1..Len(Traces)
        /\ \E e \in MessageSet(t) : m = Row(r, e)
        /\ \A id : StepOfCall(t, id) # 0 =>
              Row(r, Op("call", StepOfCall(t, id), <<id>>)) \in CallRows(d, r, id)
        /\ \A id : StepOfCall(t, id) = 0 => CallRows(d, r, id) = {}
        /\ \A id : \A row, other \in CallRows(d, r, id) : row = other

\* Once a run speaks, its calls have their rows.
LEMMA CallRowsFacts ==
    ASSUME Chronicled
    PROVE  \A d \in {db, disk} : \A s \in Sessions : \A i \in 1..Len(d.msgs[s]) :
               Spoken(d, d.msgs[s][i])
<1> SUFFICES ASSUME NEW d \in {db, disk}, NEW s \in Sessions, NEW i \in 1..Len(d.msgs[s])
             PROVE  Spoken(d, d.msgs[s][i])
  OBVIOUS
<1> DEFINE r == d.msgs[s][i].run
           t == Traces[trace[r]]
           R == Records(t, fresh[r])
           M == Messages(t, fresh[r])
           b == Before(t, fresh[r])
           said == Cardinality({j \in 1..i : d.msgs[s][j].run = r})
<1>1. Types /\ Tables(d) /\ Called(d, trace) /\ Told(d, trace, fresh, s, i)
  BY DEF Chronicled, Base, Types, Worth, Chronicle, InOrder
<1>2. r \in Runs /\ fresh[r] \in BOOLEAN  BY <1>1 DEF Tables, Types
<1>3. /\ trace[r] \in 1..Len(Traces) /\ said \in 1..Len(M)
      /\ d.msgs[s][i] = Row(r, M[said])
      /\ \A j \in 1..b : Row(r, R[j]) \in d.rows
  BY <1>1 DEF Told
<1>4. /\ \A j \in 1..Len(M) : M[j] \in MessageSet(t)
      /\ \A op : IsCall(t, op) => \E j \in 1..b : R[j] = op
  BY <1>2, <1>3, AgendaFacts
<1> HIDE DEF R, M, b, said
<1>5. ASSUME NEW id, StepOfCall(t, id) # 0
      PROVE  Row(r, Op("call", StepOfCall(t, id), <<id>>)) \in CallRows(d, r, id)
  <2> DEFINE g == StepOfCall(t, id)
             op == Op("call", g, <<id>>)
  <2>1. g \in Steps(t) /\ id \in HandledIds(t, g)  BY <1>3, <1>5, StepOfCallFacts
  <2>2. IsCall(t, op)  BY <2>1 DEF IsCall
  <2>3. Row(r, op) \in d.rows  BY <1>3, <1>4, <2>2
  <2>4. Row(r, op).what = "call" /\ Row(r, op).run = r /\ Row(r, op).ids = <<id>>  BY DEF Row, Op
  <2> QED BY <2>3, <2>4 DEF CallRows
<1>6. ASSUME NEW id, NEW row \in CallRows(d, r, id) PROVE StepOfCall(t, id) # 0
  <2>1. row \in d.rows /\ row.what = "call" /\ row.run = r /\ row.ids = <<id>>  BY DEF CallRows
  <2>2. PICK op : IsCall(t, op) /\ row = Row(r, op)  BY <1>1, <2>1 DEF Called
  <2>3. PICK n \in Steps(t) : \E x \in HandledIds(t, n) : op = Op("call", n, <<x>>)
    BY <2>2 DEF IsCall
  <2>4. PICK x \in HandledIds(t, n) : op = Op("call", n, <<x>>)  BY <2>3
  <2>5. row.ids = <<x>>  BY <2>2, <2>4 DEF Row, Op
  <2>6. x = id  BY <2>1, <2>5
  <2> QED BY <1>3, <2>4, <2>6, StepOfCallFacts
<1>7. \A id : \A row, other \in CallRows(d, r, id) : row = other
  BY <1>1 DEF Called, CallRows
<1>8. \E e \in MessageSet(t) : d.msgs[s][i] = Row(r, e)  BY <1>3, <1>4
<1> QED BY <1>3, <1>5, <1>6, <1>7, <1>8 DEF Spoken

\* Tool messages and assistant messages name the step of the call's row,
\* whatever ids the model gave, repeated or left out.
THEOREM AnswersJoinTheirStepHolds == Spec => []AnswersJoinTheirStep
<1>1. ASSUME Chronicled, NEW d \in {db, disk}, NEW s \in Sessions, NEW i \in 1..Len(d.msgs[s])
      PROVE  LET m == d.msgs[s][i] IN
             /\ m.what = "tool" => \E row \in CallRows(d, m.run, m.ids[1]) : row.n = m.n
             /\ m.what = "assistant" => \A k \in 1..Len(m.ids) :
                   (\A j \in 1..(k - 1) : CallRows(d, m.run, m.ids[j]) = {})
                       => \A row \in CallRows(d, m.run, m.ids[k]) : row.n = m.n
  <2> DEFINE m == d.msgs[s][i]
             r == m.run
             t == Traces[trace[r]]
  <2>1. /\ trace[r] \in 1..Len(Traces)
        /\ \E e \in MessageSet(t) : m = Row(r, e)
        /\ \A id : StepOfCall(t, id) # 0 =>
              Row(r, Op("call", StepOfCall(t, id), <<id>>)) \in CallRows(d, r, id)
        /\ \A id : StepOfCall(t, id) = 0 => CallRows(d, r, id) = {}
        /\ \A id : \A row, other \in CallRows(d, r, id) : row = other
    <3>1. Spoken(d, m)  BY <1>1, CallRowsFacts
    <3> HIDE DEF m
    <3> QED BY <3>1 DEF Spoken
  <2>2. PICK e \in MessageSet(t) : m = Row(r, e)  BY <2>1
  <2>3. m.what = e.what /\ m.n = e.n /\ m.ids = e.ids  BY <2>2 DEF Row
  <2> HIDE DEF m, r
  <2>4. \A id : Row(r, Op("call", StepOfCall(t, id), <<id>>)).n = StepOfCall(t, id)  BY DEF Row, Op
  <2>5. ASSUME e.what = "tool" PROVE \E row \in CallRows(d, r, e.ids[1]) : row.n = e.n
    <3>1. PICK n \in Steps(t) : e \in {Op("tool", StepOfToolMessage(t, id), <<id>>) : id \in HandledIds(t, n)}
      BY <2>5 DEF MessageSet, Op
    <3>2. PICK id \in HandledIds(t, n) : e = Op("tool", StepOfToolMessage(t, id), <<id>>)  BY <3>1
    <3>3. e.n = StepOfCall(t, id) /\ e.ids[1] = id  BY <3>2 DEF Op, StepOfToolMessage
    <3>4. StepOfCall(t, id) # 0  BY <2>1, StepOfCallFacts
    <3> QED BY <2>1, <2>4, <3>3, <3>4
  <2>6. ASSUME e.what = "assistant", NEW k \in 1..Len(e.ids),
               \A j \in 1..(k - 1) : CallRows(d, r, e.ids[j]) = {},
               NEW row \in CallRows(d, r, e.ids[k])
        PROVE  row.n = e.n
    <3>1. e.ids # <<>>
      <4>1. Len(<<>>) = 0  OBVIOUS
      <4> QED BY <2>6, <4>1
    <3>2. PICK n \in Steps(t) : e = Op("assistant", StepOfAssistant(t, n), NamedIds(t, n))
      BY <2>6, <3>1 DEF MessageSet, Op
    <3> DEFINE ids   == NamedIds(t, n)
               known == {j \in 1..Len(ids) : StepOfCall(t, ids[j]) # 0}
    <3>3. e.ids = ids /\ e.n = StepOfAssistant(t, n)  BY <3>2 DEF Op
    <3>4. StepOfAssistant(t, n) = IF known = {} THEN 1 ELSE StepOfCall(t, ids[Min(known)])
      BY DEF StepOfAssistant
    <3> HIDE DEF ids, t
    <3>5. k \in known  BY <2>1, <2>6, <3>3
    <3>6. ASSUME NEW x \in known PROVE k <= x
      <4>1. x \in Int /\ k \in Int /\ x >= 1 /\ StepOfCall(t, ids[x]) # 0  BY <2>6
      <4>2. CallRows(d, r, ids[x]) # {}  BY <2>1, <4>1
      <4>3. x \notin 1..(k - 1)  BY <2>6, <3>3, <4>2
      <4> QED BY <4>1, <4>3
    <3>7. Min(known) = k
      <4>1. known \subseteq Int  OBVIOUS
      <4> HIDE DEF known
      <4>2. Min(known) \in known /\ \A y \in known : Min(known) <= y  BY <3>5, <3>6 DEF Min
      <4> QED BY <3>5, <3>6, <4>1, <4>2
    <3>8. e.n = StepOfCall(t, ids[k]) /\ StepOfCall(t, ids[k]) # 0  BY <3>3, <3>4, <3>5, <3>7
    <3>9. row = Row(r, Op("call", StepOfCall(t, ids[k]), <<ids[k]>>))
      BY <2>1, <2>6, <3>3, <3>8
    <3> QED BY <2>4, <3>8, <3>9
  <2> QED BY <2>3, <2>5, <2>6 DEF r, m
<1>2. Chronicled => AnswersJoinTheirStep  BY <1>1 DEF AnswersJoinTheirStep
<1> QED BY <1>2, ChronicleHolds, PTL

===============================================================================
