--------------------------- MODULE RestoreProofs ---------------------------
(***************************************************************************)
(* Proofs about module Restore, from KeysAssumption and NilAssumption:     *)
(* what the filter on the preamble makes of any dump, what a restore may   *)
(* drop and has loaded when it reports success, and which backup it takes. *)
(***************************************************************************)
EXTENDS Restore, FiniteSetTheorems, SequenceTheorems, WellFoundedInduction, TLAPS

-----------------------------------------------------------------------------
(* The dump                                                                 *)

Preamble == <<Line("--", "nothing"), Line("timeout", "timeout"), Line("SET", "nothing")>>

RowLines(rows) ==
  [i \in 1..Cardinality(rows) |->
     LET a == SetToSeq(rows)[i]
     IN  Line(IF a \in Lookalikes THEN "timeout" ELSE "data", a)]

Body(rows) ==
  <<Line("DROP", "drop")>> \o RowLines(rows) \o <<Line("SET", "nothing"), Line("ALTER", "nothing")>>

\* Three sequences, the second of them empty, in a row.
LEMMA FlattenThree ==
  ASSUME NEW S, NEW x \in S, NEW y \in S
  PROVE  FlattenSeq(<< <<x>>, <<>>, <<y>> >>) = <<x, y>>
PROOF
<1> DEFINE s == << <<x>>, <<>>, <<y>> >>
           F(g) == g = [i \in 1..Len(s) |-> IF i = 1 THEN s[i] ELSE g[i - 1] \o s[i]]
           h == [i \in 1..3 |-> IF i = 3 THEN <<x, y>> ELSE <<x>>]
<1>1. Len(s) = 3 /\ s[1] = <<x>> /\ s[2] = <<>> /\ s[3] = <<y>>
  OBVIOUS
<1>2. <<x>> \o <<>> = <<x>>
  BY ConcatEmptySeq
<1>3. <<x>> \o <<y>> = <<x, y>>
  <2>1. <<x>> \in Seq(S) /\ <<y>> \in Seq(S) /\ <<x, y>> \in Seq(S)
    OBVIOUS
  <2>2. Len(<<x>> \o <<y>>) = 2 /\ Len(<<x, y>>) = 2
    BY <2>1
  <2>3. \A i \in 1..2 : (<<x>> \o <<y>>)[i] = <<x, y>>[i]
    BY <2>1
  <2>4. QED
    BY <2>1, <2>2, <2>3, SeqEqual, ConcatProperties
<1> HIDE DEF s
<1>4. F(h)
  <2>1. h[1] = <<x>> /\ h[2] = <<x>> /\ h[3] = <<x, y>>
    OBVIOUS
  <2>2. \A i \in 1..3 : h[i] = IF i = 1 THEN s[i] ELSE h[i - 1] \o s[i]
    <3>1. h[1] = s[1] /\ h[2] = h[1] \o s[2] /\ h[3] = h[2] \o s[3]
      BY <2>1, <1>1, <1>2, <1>3
    <3> HIDE DEF h
    <3>2. ASSUME NEW i \in 1..3
          PROVE  h[i] = IF i = 1 THEN s[i] ELSE h[i - 1] \o s[i]
      <4>1. CASE i = 1
        BY <4>1, <3>1
      <4>2. CASE i = 2
        <5>1. i - 1 = 1 /\ i # 1
          BY <4>2
        <5>2. QED
          BY <4>2, <5>1, <3>1
      <4>3. CASE i = 3
        <5>1. i - 1 = 2 /\ i # 1
          BY <4>3
        <5>2. QED
          BY <4>3, <5>1, <3>1
      <4>4. QED
        BY <4>1, <4>2, <4>3
    <3>3. QED
      BY <3>2
  <2>3. QED
    BY <1>1, <2>2
<1>5. F(CHOOSE g : F(g))
  BY <1>4, Zenon
<1>6. ASSUME NEW g, F(g)
      PROVE  g[Len(s)] = <<x, y>>
  <2>1. g[1] = s[1] /\ g[2] = g[1] \o s[2] /\ g[3] = g[2] \o s[3]
    BY <1>1, <1>6
  <2>2. QED
    BY <2>1, <1>1, <1>2, <1>3
<1>7. FlattenSeq(s) = (CHOOSE g : F(g))[Len(s)]
  BY <1>1 DEF FlattenSeq
<1>8. QED
  BY <1>5, <1>6, <1>7 DEF s

\* The lines of a dump are lines.
LEMMA PreambleLines ==
  /\ Preamble \in Seq(Lines) /\ Len(Preamble) = 3
  /\ Preamble[1] = Line("--", "nothing")
  /\ Preamble[2] = Line("timeout", "timeout")
  /\ Preamble[3] = Line("SET", "nothing")
PROOF
<1>1. Line("--", "nothing") \in Lines /\ Line("timeout", "timeout") \in Lines /\ Line("SET", "nothing") \in Lines
  BY DEF Line, Lines
<1>2. QED
  BY <1>1 DEF Preamble

\* Whatever follows the preamble, the filter takes the setting out of it and leaves
\* all the rest as it is, in its order.
LEMMA StripsPreamble ==
  ASSUME NEW t \in Seq(Lines), t # <<>> => ~isDumpPreamble(t[1])
  PROVE  stripIncompatibleSettings(Preamble \o t) = <<Preamble[1], Preamble[3]>> \o t
PROOF
<1> DEFINE d == Preamble \o t
           Ends(n) == /\ \A i \in 1..n : isDumpPreamble(d[i])
                      /\ n < Len(d) => ~isDumpPreamble(d[n + 1])
           Kept(n) == [i \in 1..n |-> IF d[i].reads = "timeout" THEN <<>> ELSE <<d[i]>>]
<1>0. Preamble \in Seq(Lines) /\ Len(Preamble) = 3
  BY PreambleLines
<1>1. d \in Seq(Lines) /\ Len(d) = 3 + Len(t) /\ Len(t) \in Nat
  BY <1>0, ConcatProperties
<1>2. /\ d[1] = Preamble[1] /\ d[2] = Preamble[2] /\ d[3] = Preamble[3]
      /\ \A i \in 1..Len(t) : d[3 + i] = t[i]
  <2>1. \A i \in 1..3 + Len(t) : d[i] = IF i <= 3 THEN Preamble[i] ELSE t[i - 3]
    <3>1. \A i \in 1..Len(Preamble) + Len(t) :
            d[i] = IF i <= Len(Preamble) THEN Preamble[i] ELSE t[i - Len(Preamble)]
      BY <1>0, ConcatProperties
    <3> HIDE DEF d
    <3>2. QED
      BY <3>1, <1>0
  <2>2. Len(t) \in Nat
    OBVIOUS
  <2> HIDE DEF d
  <2>3. d[1] = Preamble[1] /\ d[2] = Preamble[2] /\ d[3] = Preamble[3]
    BY <2>1, <2>2
  <2>4. ASSUME NEW i \in 1..Len(t)
        PROVE  d[3 + i] = t[i]
    <3>1. 3 + i \in 1..3 + Len(t) /\ ~(3 + i <= 3) /\ (3 + i) - 3 = i
      BY <2>2
    <3>2. QED
      BY <2>1, <3>1
  <2>5. QED
    BY <2>3, <2>4
<1>3. isDumpPreamble(d[1]) /\ isDumpPreamble(d[2]) /\ isDumpPreamble(d[3])
  BY <1>2, PreambleLines DEF isDumpPreamble, Line
<1>4. t = <<>> \/ (Len(d) > 3 /\ ~isDumpPreamble(d[4]))
  <2>1. CASE t # <<>>
    <3>1. Len(t) > 0
      BY <2>1
    <3>2. d[3 + 1] = t[1]
      BY <3>1, <1>1, <1>2
    <3>3. QED
      BY <2>1, <3>1, <3>2, <1>1
  <2>2. QED
    BY <2>1
<1> HIDE DEF d
<1>5. 3 \in 0..Len(d) /\ Ends(3)
  <2>1. \A i \in 1..3 : i = 1 \/ i = 2 \/ i = 3
    OBVIOUS
  <2>2. \A i \in 1..3 : isDumpPreamble(d[i])
    BY <2>1, <1>3
  <2>3. 3 < Len(d) => ~isDumpPreamble(d[4])
    BY <1>1, <1>4
  <2>4. QED
    BY <2>2, <2>3, <1>1
<1>6. ASSUME NEW n \in 0..Len(d), Ends(n)
      PROVE  n = 3
  <2>1. CASE n < 3
    <3>1. n + 1 \in 1..3 /\ n < Len(d)
      BY <2>1, <1>1
    <3>2. isDumpPreamble(d[n + 1])
      BY <3>1, <1>5
    <3>3. QED
      BY <3>1, <3>2, <1>6
  <2>2. CASE n > 3
    <3>1. 4 \in 1..n /\ t # <<>>
      BY <2>2, <1>1
    <3>2. QED
      BY <3>1, <1>4, <1>6
  <2>3. QED
    BY <2>1, <2>2, <1>1
<1>7. (CHOOSE n \in 0..Len(d) : Ends(n)) = 3
  BY <1>5, <1>6
<1>8. stripIncompatibleSettings(d) = FlattenSeq(Kept(3)) \o SubSeq(d, 4, Len(d))
  <2> DEFINE N == CHOOSE n \in 0..Len(d) : Ends(n)
  <2>1. stripIncompatibleSettings(d) = FlattenSeq(Kept(N)) \o SubSeq(d, N + 1, Len(d))
    BY DEF stripIncompatibleSettings
  <2>2. N = 3
    BY <1>7
  <2> HIDE DEF N
  <2>3. N + 1 = 4
    BY <2>2
  <2>4. QED
    BY <2>1, <2>2, <2>3
<1>9. Kept(3) = << <<Preamble[1]>>, <<>>, <<Preamble[3]>> >>
  <2>1. d[1].reads # "timeout" /\ d[2].reads = "timeout" /\ d[3].reads # "timeout"
    BY <1>2, PreambleLines DEF Line
  <2>2. QED
    BY <2>1, <1>2
<1>10. FlattenSeq(Kept(3)) = <<Preamble[1], Preamble[3]>>
  <2>1. Preamble[1] \in Lines /\ Preamble[3] \in Lines
    <3>1. Line("--", "nothing") \in Lines /\ Line("SET", "nothing") \in Lines
      BY DEF Line, Lines
    <3>2. QED
      BY <3>1, PreambleLines, Zenon
  <2>2. QED
    BY <2>1, <1>9, FlattenThree
<1>11. SubSeq(d, 4, Len(d)) = t
  <2>1. \A i \in 4..Len(d) : d[i] \in Lines
    BY <1>1
  <2>2. /\ SubSeq(d, 4, Len(d)) \in Seq(Lines)
        /\ Len(SubSeq(d, 4, Len(d))) = Len(t)
        /\ \A i \in 1..Len(t) : SubSeq(d, 4, Len(d))[i] = d[4 + i - 1]
    BY <2>1, <1>1, SubSeqProperties
  <2>3. \A i \in 1..Len(t) : d[4 + i - 1] = t[i]
    BY <1>1, <1>2
  <2>4. QED
    BY <2>2, <2>3, SeqEqual
<1>12. QED
  BY <1>8, <1>10, <1>11 DEF d

\* SetToSeq lists a finite set: every element, and nothing else.
LEMMA SetToSeqLists ==
  ASSUME NEW S, IsFiniteSet(S)
  PROVE  /\ SetToSeq(S) \in [1..Cardinality(S) -> S]
         /\ \A a \in S : \E i \in 1..Cardinality(S) : SetToSeq(S)[i] = a
PROOF
<1> DEFINE n == Cardinality(S)
<1>1. n \in Nat /\ ExistsBijection(1..n, S)
  BY FS_CardinalityType
<1>2. PICK g \in Bijection(1..n, S) : TRUE
  BY <1>1 DEF ExistsBijection
<1>3. g \in [1..n -> S] /\ IsInjective(g)
  BY <1>2 DEF Bijection, Injection, IsInjective
<1>4. SetToSeq(S) \in [1..n -> S] /\ IsInjective(SetToSeq(S))
  BY <1>3 DEF SetToSeq
<1>5. SetToSeq(S) \in Injection(1..n, S)
  BY <1>4 DEF Injection, IsInjective
<1>6. IsFiniteSet(1..n) /\ Cardinality(1..n) = n
  BY <1>1, FS_Interval
<1>7. SetToSeq(S) \in Surjection(1..n, S)
  BY <1>5, <1>6, FS_Injection
<1>8. QED
  BY <1>4, <1>7 DEF Surjection

\* A dump is its preamble and, where there is a schema, the drop, the rows and the rest.
LEMMA DumpShape ==
  ASSUME NEW rows
  PROVE  Dump(rows) = Preamble \o (IF rows = NoSchema THEN <<>> ELSE Body(rows))
PROOF
BY DEF Dump, Preamble, Body, RowLines

LEMMA RowLinesType ==
  ASSUME NEW rows \in SUBSET Entries
  PROVE  /\ IsFiniteSet(rows) /\ Cardinality(rows) \in Nat
         /\ RowLines(rows) \in Seq(Lines)
         /\ Len(RowLines(rows)) = Cardinality(rows)
         /\ \A i \in 1..Cardinality(rows) : RowLines(rows)[i].runs = SetToSeq(rows)[i]
         /\ \A i \in 1..Cardinality(rows) : SetToSeq(rows)[i] \in rows
         /\ \A a \in rows : \E i \in 1..Cardinality(rows) : SetToSeq(rows)[i] = a
PROOF
<1>1. IsFiniteSet(rows) /\ Cardinality(rows) \in Nat
  BY KeysAssumption, FS_Subset, FS_CardinalityType
<1>2. /\ \A i \in 1..Cardinality(rows) : SetToSeq(rows)[i] \in rows
      /\ \A a \in rows : \E i \in 1..Cardinality(rows) : SetToSeq(rows)[i] = a
  BY <1>1, SetToSeqLists
<1>3. ASSUME NEW i \in 1..Cardinality(rows)
      PROVE  RowLines(rows)[i] \in Lines /\ RowLines(rows)[i].runs = SetToSeq(rows)[i]
  BY <1>2 DEF RowLines, Lines, Line
<1>4. RowLines(rows) \in Seq(Lines) /\ Len(RowLines(rows)) = Cardinality(rows)
  <2>1. RowLines(rows) \in [1..Cardinality(rows) -> Lines]
    BY <1>3 DEF RowLines
  <2>2. QED
    BY <2>1, <1>1
<1>5. QED
  BY <1>1, <1>2, <1>3, <1>4

\* What each line of the stripped dump of a schema does.
LEMMA StrippedLines ==
  ASSUME NEW rows \in SUBSET Entries
  PROVE  LET s == <<Preamble[1], Preamble[3]>> \o Body(rows)
             n == Cardinality(rows)
         IN  /\ Body(rows) \in Seq(Lines) /\ Body(rows) # <<>> /\ Body(rows)[1] = Line("DROP", "drop")
             /\ s \in Seq(Lines) /\ Len(s) = n + 5
             /\ s[1].runs = "nothing" /\ s[2].runs = "nothing" /\ s[3].runs = "drop"
             /\ \A i \in 1..n : s[3 + i].runs = SetToSeq(rows)[i]
             /\ s[n + 4].runs = "nothing" /\ s[n + 5].runs = "nothing"
PROOF
<1> DEFINE n == Cardinality(rows)
           R == RowLines(rows)
           A == <<Line("DROP", "drop")>>
           Z == <<Line("SET", "nothing"), Line("ALTER", "nothing")>>
           P == <<Preamble[1], Preamble[3]>>
           AR == A \o R
           B == AR \o Z
           s == P \o B
<1>1. n \in Nat /\ R \in Seq(Lines) /\ Len(R) = n
  BY RowLinesType
<1>2. /\ A \in Seq(Lines) /\ Len(A) = 1 /\ A[1] = Line("DROP", "drop")
      /\ Z \in Seq(Lines) /\ Len(Z) = 2 /\ Z[1].runs = "nothing" /\ Z[2].runs = "nothing"
      /\ P \in Seq(Lines) /\ Len(P) = 2 /\ P[1].runs = "nothing" /\ P[2].runs = "nothing"
  <2>1. Line("DROP", "drop") \in Lines /\ Line("SET", "nothing") \in Lines /\ Line("ALTER", "nothing") \in Lines
    BY DEF Line, Lines
  <2>2. Line("SET", "nothing").runs = "nothing" /\ Line("ALTER", "nothing").runs = "nothing"
    BY DEF Line
  <2>3. /\ Preamble[1] \in Lines /\ Preamble[1].runs = "nothing"
        /\ Preamble[3] \in Lines /\ Preamble[3].runs = "nothing"
    BY PreambleLines DEF Line, Lines
  <2>4. QED
    BY <2>1, <2>2, <2>3
<1>3. Body(rows) = B
  BY DEF Body
<1> HIDE DEF n, R, A, Z, P
<1>4. /\ AR \in Seq(Lines) /\ Len(AR) = n + 1 /\ AR[1] = Line("DROP", "drop")
      /\ \A i \in 1..n : AR[1 + i] = R[i]
  <2>1. AR \in Seq(Lines) /\ Len(AR) = Len(A) + Len(R)
    BY <1>1, <1>2, ConcatProperties
  <2>2. \A i \in 1..Len(A) + Len(R) : AR[i] = IF i <= Len(A) THEN A[i] ELSE R[i - Len(A)]
    BY <1>1, <1>2, ConcatProperties
  <2> HIDE DEF AR
  <2>3. \A i \in 1..1 + n : AR[i] = IF i <= 1 THEN A[i] ELSE R[i - 1]
    BY <2>2, <1>1, <1>2
  <2>4. AR[1] = A[1]
    BY <2>3, <1>1
  <2>5. ASSUME NEW i \in 1..n PROVE AR[1 + i] = R[i]
    <3>1. 1 + i \in 1..1 + n /\ ~(1 + i <= 1) /\ (1 + i) - 1 = i
      BY <1>1
    <3>2. QED
      BY <3>1, <2>3
  <2>6. QED
    BY <2>1, <2>4, <2>5, <1>1, <1>2
<1> HIDE DEF AR
<1>5. /\ B \in Seq(Lines) /\ Len(B) = n + 3 /\ B[1] = Line("DROP", "drop")
      /\ \A i \in 1..n : B[1 + i] = R[i]
      /\ B[n + 2] = Z[1] /\ B[n + 3] = Z[2]
  <2>1. B \in Seq(Lines) /\ Len(B) = Len(AR) + Len(Z)
    BY <1>4, <1>2, ConcatProperties
  <2>2. \A i \in 1..Len(AR) + Len(Z) : B[i] = IF i <= Len(AR) THEN AR[i] ELSE Z[i - Len(AR)]
    BY <1>4, <1>2, ConcatProperties
  <2> HIDE DEF B
  <2>3. \A i \in 1..(n + 1) + 2 : B[i] = IF i <= n + 1 THEN AR[i] ELSE Z[i - (n + 1)]
    BY <2>2, <1>4, <1>2
  <2>4. B[1] = AR[1]
    BY <2>3, <1>1
  <2>5. ASSUME NEW i \in 1..n PROVE B[1 + i] = R[i]
    <3>1. 1 + i \in 1..(n + 1) + 2 /\ 1 + i <= n + 1
      BY <1>1
    <3>2. QED
      BY <3>1, <2>3, <1>4
  <2>6. B[n + 2] = Z[1] /\ B[n + 3] = Z[2]
    <3>1. n + 2 \in 1..(n + 1) + 2 /\ ~(n + 2 <= n + 1) /\ (n + 2) - (n + 1) = 1
      BY <1>1
    <3>2. n + 3 \in 1..(n + 1) + 2 /\ ~(n + 3 <= n + 1) /\ (n + 3) - (n + 1) = 2
      BY <1>1
    <3>3. QED
      BY <3>1, <3>2, <2>3
  <2>7. QED
    BY <2>1, <2>4, <2>5, <2>6, <1>1, <1>2, <1>4
<1> HIDE DEF B
<1>6. /\ s \in Seq(Lines) /\ Len(s) = n + 5
      /\ s[1] = P[1] /\ s[2] = P[2]
      /\ \A i \in 1..n + 3 : s[2 + i] = B[i]
  <2>1. s \in Seq(Lines) /\ Len(s) = Len(P) + Len(B)
    BY <1>5, <1>2, ConcatProperties
  <2>2. \A i \in 1..Len(P) + Len(B) : s[i] = IF i <= Len(P) THEN P[i] ELSE B[i - Len(P)]
    BY <1>5, <1>2, ConcatProperties
  <2> HIDE DEF s
  <2>3. \A i \in 1..2 + (n + 3) : s[i] = IF i <= 2 THEN P[i] ELSE B[i - 2]
    BY <2>2, <1>5, <1>2
  <2>4. s[1] = P[1] /\ s[2] = P[2]
    BY <2>3, <1>1
  <2>5. ASSUME NEW i \in 1..n + 3 PROVE s[2 + i] = B[i]
    <3>1. 2 + i \in 1..2 + (n + 3) /\ ~(2 + i <= 2) /\ (2 + i) - 2 = i
      BY <1>1
    <3>2. QED
      BY <3>1, <2>3
  <2>6. QED
    BY <2>1, <2>4, <2>5, <1>1, <1>2, <1>5
<1> HIDE DEF s
<1>7. s[3].runs = "drop"
  <2>1. 1 \in 1..n + 3 /\ 2 + 1 = 3
    BY <1>1
  <2>2. s[3] = B[1]
    BY <2>1, <1>6
  <2>3. QED
    BY <2>2, <1>5 DEF Line
<1>8. ASSUME NEW i \in 1..n PROVE s[3 + i].runs = SetToSeq(rows)[i]
  <2>1. 1 + i \in 1..n + 3 /\ 2 + (1 + i) = 3 + i
    BY <1>1
  <2>2. s[3 + i] = R[i]
    BY <2>1, <1>5, <1>6
  <2>3. QED
    BY <2>2, RowLinesType DEF n, R
<1>9. s[n + 4].runs = "nothing" /\ s[n + 5].runs = "nothing"
  <2>1. n + 2 \in 1..n + 3 /\ n + 3 \in 1..n + 3 /\ 2 + (n + 2) = n + 4 /\ 2 + (n + 3) = n + 5
    BY <1>1
  <2>2. s[n + 4] = Z[1] /\ s[n + 5] = Z[2]
    BY <2>1, <1>5, <1>6
  <2>3. QED
    BY <2>2, <1>2
<1>10. B # <<>>
  BY <1>5, <1>1
<1>11. QED
  BY <1>2, <1>3, <1>5, <1>6, <1>7, <1>8, <1>9, <1>10, <1>1 DEF s, P, n

-----------------------------------------------------------------------------
(* The order of keys                                                        *)

LEMMA LeastOf ==
  ASSUME NEW S, S \subseteq Nat, S # {}
  PROVE  \E x \in S : \A y \in S : x <= y
PROOF
<1>1. PICK x \in S : \A y \in S : ~(<<y, x>> \in OpToRel(<, Nat))
  BY NatLessThanWellFounded, WFMin
<1>2. \A y \in S : ~(y < x)
  BY <1>1 DEF OpToRel
<1>3. QED
  BY <1>2

LEMMA SameStart ==
  ASSUME NEW s \in Seq(Nat), NEW t \in Seq(Nat), NEW m \in Nat, m <= Len(s), m <= Len(t)
  PROVE  SubSeq(s, 1, m) = SubSeq(t, 1, m) <=> \A i \in 1..m : s[i] = t[i]
PROOF
<1>1. /\ SubSeq(s, 1, m) \in Seq(Nat) /\ Len(SubSeq(s, 1, m)) = m
      /\ \A i \in 1..m : SubSeq(s, 1, m)[i] = s[i]
  <2>1. \A i \in 1..m : s[i] \in Nat
    OBVIOUS
  <2>2. QED
    BY <2>1, SubSeqProperties
<1>2. /\ SubSeq(t, 1, m) \in Seq(Nat) /\ Len(SubSeq(t, 1, m)) = m
      /\ \A i \in 1..m : SubSeq(t, 1, m)[i] = t[i]
  <2>1. \A i \in 1..m : t[i] \in Nat
    OBVIOUS
  <2>2. QED
    BY <2>1, SubSeqProperties
<1>3. ASSUME \A i \in 1..m : s[i] = t[i]
      PROVE  SubSeq(s, 1, m) = SubSeq(t, 1, m)
  BY <1>1, <1>2, <1>3, SeqEqual
<1>4. ASSUME SubSeq(s, 1, m) = SubSeq(t, 1, m)
      PROVE  \A i \in 1..m : s[i] = t[i]
  BY <1>1, <1>2, <1>4
<1>5. QED
  BY <1>3, <1>4

\* Up to position k the strings agree; there s has ended or has the smaller code.
FirstBelow(s, t, k) ==
  /\ k \in 1..Len(t) /\ k <= Len(s) + 1
  /\ \A i \in 1..k - 1 : s[i] = t[i]
  /\ k = Len(s) + 1 \/ s[k] < t[k]

LEMMA LessAt ==
  ASSUME NEW s \in Seq(Nat), NEW t \in Seq(Nat)
  PROVE  Less(s, t) <=> \E k \in 1..Len(t) : FirstBelow(s, t, k)
PROOF
<1>0. Len(s) \in Nat /\ Len(t) \in Nat
  OBVIOUS
<1>1. ASSUME IsStrictPrefix(s, t)
      PROVE  FirstBelow(s, t, Len(s) + 1)
  <2>1. Len(s) <= Len(t) /\ s # t /\ \A i \in 1..Len(s) : s[i] = t[i]
    BY <1>0, <1>1, SameStart DEF IsStrictPrefix, IsPrefix
  <2>2. Len(s) # Len(t)
    BY <2>1, SeqEqual
  <2>3. Len(s) + 1 \in 1..Len(t) /\ (Len(s) + 1) - 1 = Len(s)
    BY <2>1, <2>2, <1>0
  <2>4. QED
    BY <2>1, <2>3, <1>0 DEF FirstBelow
<1>2. ASSUME NEW i \in 1..Len(s), i <= Len(t), SubSeq(s, 1, i - 1) = SubSeq(t, 1, i - 1), s[i] < t[i]
      PROVE  FirstBelow(s, t, i)
  <2>1. i - 1 \in Nat /\ i - 1 <= Len(s) /\ i - 1 <= Len(t)
    BY <1>0, <1>2
  <2>2. \A j \in 1..i - 1 : s[j] = t[j]
    BY <2>1, <1>2, SameStart
  <2>3. QED
    BY <2>2, <1>0, <1>2 DEF FirstBelow
<1>3. ASSUME NEW k \in 1..Len(t), FirstBelow(s, t, k)
      PROVE  Less(s, t)
  <2>1. CASE k = Len(s) + 1
    <3>1. k - 1 = Len(s)
      BY <2>1, <1>0
    <3>2. Len(s) <= Len(t) /\ Len(s) # Len(t) /\ \A i \in 1..Len(s) : s[i] = t[i]
      BY <3>1, <2>1, <1>0, <1>3 DEF FirstBelow
    <3>3. ASSUME NEW m \in Nat, m = Len(s)
          PROVE  SubSeq(s, 1, m) = SubSeq(t, 1, m)
      <4>1. m <= Len(s) /\ m <= Len(t) /\ \A i \in 1..m : s[i] = t[i]
        BY <3>2, <3>3, <1>0
      <4>2. QED
        BY <4>1, SameStart
    <3>4. SubSeq(s, 1, Len(s)) = SubSeq(t, 1, Len(s))
      BY <3>3, <1>0, Zenon
    <3>5. QED
      BY <3>2, <3>4 DEF Less, IsStrictPrefix, IsPrefix
  <2>2. CASE k # Len(s) + 1
    <3>1. k \in 1..Len(s) /\ k - 1 \in Nat /\ k - 1 <= Len(s) /\ k - 1 <= Len(t) /\ k <= Len(t)
      BY <2>2, <1>0, <1>3 DEF FirstBelow
    <3>2. s[k] < t[k] /\ \A i \in 1..k - 1 : s[i] = t[i]
      BY <2>2, <1>3 DEF FirstBelow
    <3>3. SubSeq(s, 1, k - 1) = SubSeq(t, 1, k - 1)
      BY <3>1, <3>2, SameStart
    <3>4. QED
      BY <3>1, <3>2, <3>3 DEF Less
  <2>3. QED
    BY <2>1, <2>2
<1>4. ASSUME Less(s, t) PROVE \E k \in 1..Len(t) : FirstBelow(s, t, k)
  <2>1. CASE IsStrictPrefix(s, t)
    BY <2>1, <1>1 DEF FirstBelow
  <2>2. CASE ~IsStrictPrefix(s, t)
    <3>1. PICK i \in 1..Len(s) : /\ i <= Len(t)
                                 /\ SubSeq(s, 1, i - 1) = SubSeq(t, 1, i - 1)
                                 /\ s[i] < t[i]
      BY <1>4, <2>2 DEF Less
    <3>2. FirstBelow(s, t, i)
      BY <3>1, <1>2
    <3>3. QED
      BY <3>2 DEF FirstBelow
  <2>3. QED
    BY <2>1, <2>2
<1>5. QED
  BY <1>3, <1>4

\* Strings are totally ordered: FindLatestBackupKey may compare them two by two.
LEMMA LessIsTotalOrder ==
  /\ \A s \in Seq(Nat) : ~Less(s, s)
  /\ \A s, t \in Seq(Nat) : s = t \/ Less(s, t) \/ Less(t, s)
  /\ \A s, t, u \in Seq(Nat) : Less(s, t) /\ Less(t, u) => Less(s, u)
PROOF
<1>1. ASSUME NEW s \in Seq(Nat), Less(s, s) PROVE FALSE
  <2>1. PICK k \in 1..Len(s) : FirstBelow(s, s, k)
    BY <1>1, LessAt
  <2>2. k # Len(s) + 1 /\ s[k] \in Nat
    OBVIOUS
  <2>3. QED
    BY <2>1, <2>2 DEF FirstBelow
<1>2. ASSUME NEW s \in Seq(Nat), NEW t \in Seq(Nat), s # t PROVE Less(s, t) \/ Less(t, s)
  <2> DEFINE D == {i \in 1..Len(s) : i <= Len(t) /\ s[i] # t[i]}
  <2>0. Len(s) \in Nat /\ Len(t) \in Nat
    OBVIOUS
  <2>1. CASE D # {}
    <3>1. D \subseteq Nat
      BY <2>0
    <3>2. PICK k \in D : \A i \in D : k <= i
      BY <2>1, <3>1, LeastOf
    <3>3. \A i \in 1..k - 1 : s[i] = t[i] /\ t[i] = s[i]
      <4>1. ASSUME NEW i \in 1..k - 1 PROVE s[i] = t[i]
        <5>1. i \in 1..Len(s) /\ i <= Len(t) /\ ~(k <= i)
          BY <2>0, <3>2
        <5>2. QED
          BY <5>1, <3>2
      <4>2. QED
        BY <4>1
    <3>4. k \in 1..Len(s) /\ k \in 1..Len(t) /\ k <= Len(s) + 1 /\ k <= Len(t) + 1
      BY <2>0, <3>2
    <3>5. s[k] < t[k] \/ t[k] < s[k]
      <4>1. s[k] \in Nat /\ t[k] \in Nat /\ s[k] # t[k]
        BY <3>2, <3>4
      <4>2. QED
        BY <4>1
    <3>6. FirstBelow(s, t, k) \/ FirstBelow(t, s, k)
      BY <3>3, <3>4, <3>5 DEF FirstBelow
    <3>7. QED
      BY <3>4, <3>6, LessAt
  <2>2. CASE D = {} /\ Len(s) < Len(t)
    <3>1. (Len(s) + 1) - 1 = Len(s) /\ Len(s) + 1 \in 1..Len(t)
      BY <2>0, <2>2
    <3>2. \A i \in 1..Len(s) : s[i] = t[i]
      <4>1. ASSUME NEW i \in 1..Len(s) PROVE s[i] = t[i]
        <5>1. i <= Len(t)
          BY <2>0, <2>2
        <5>2. QED
          BY <5>1, <2>2
      <4>2. QED
        BY <4>1
    <3>3. FirstBelow(s, t, Len(s) + 1)
      BY <3>1, <3>2, <2>0 DEF FirstBelow
    <3>4. QED
      BY <3>1, <3>3, LessAt
  <2>3. CASE D = {} /\ Len(t) < Len(s)
    <3>1. (Len(t) + 1) - 1 = Len(t) /\ Len(t) + 1 \in 1..Len(s)
      BY <2>0, <2>3
    <3>2. \A i \in 1..Len(t) : t[i] = s[i]
      <4>1. ASSUME NEW i \in 1..Len(t) PROVE t[i] = s[i]
        <5>1. i \in 1..Len(s) /\ i <= Len(t)
          BY <2>0, <2>3
        <5>2. QED
          BY <5>1, <2>3
      <4>2. QED
        BY <4>1
    <3>3. FirstBelow(t, s, Len(t) + 1)
      BY <3>1, <3>2, <2>0 DEF FirstBelow
    <3>4. QED
      BY <3>1, <3>3, LessAt
  <2>4. CASE D = {} /\ Len(t) = Len(s)
    <3>1. \A i \in 1..Len(s) : s[i] = t[i]
      BY <2>0, <2>4
    <3>2. QED
      BY <3>1, <2>4, <1>2, SeqEqual
  <2>5. QED
    BY <2>0, <2>1, <2>2, <2>3, <2>4
<1>3. ASSUME NEW s \in Seq(Nat), NEW t \in Seq(Nat), NEW u \in Seq(Nat), Less(s, t), Less(t, u)
      PROVE  Less(s, u)
  <2>0. Len(s) \in Nat /\ Len(t) \in Nat /\ Len(u) \in Nat
    OBVIOUS
  <2>1. PICK k \in 1..Len(t) : FirstBelow(s, t, k)
    BY <1>3, LessAt
  <2>2. PICK m \in 1..Len(u) : FirstBelow(t, u, m)
    BY <1>3, LessAt
  <2>3. CASE k < m
    <3>1. t[k] = u[k] /\ k \in 1..Len(u) /\ \A i \in 1..k - 1 : i \in 1..m - 1
      BY <2>0, <2>2, <2>3 DEF FirstBelow
    <3>2. FirstBelow(s, u, k)
      BY <2>1, <2>2, <3>1 DEF FirstBelow
    <3>3. QED
      BY <3>1, <3>2, LessAt
  <2>4. CASE k = m
    <3>1. t[k] < u[k] /\ t[k] \in Nat /\ u[k] \in Nat
      <4>1. k # Len(t) + 1
        BY <2>0
      <4>2. QED
        BY <4>1, <2>2, <2>4 DEF FirstBelow
    <3>2. k = Len(s) + 1 \/ s[k] < u[k]
      <4>1. CASE k # Len(s) + 1
        <5>1. s[k] < t[k] /\ k \in 1..Len(s)
          BY <4>1, <2>0, <2>1 DEF FirstBelow
        <5>2. s[k] \in Nat
          BY <5>1
        <5>3. QED
          BY <5>1, <5>2, <3>1
      <4>2. QED
        BY <4>1
    <3>3. FirstBelow(s, u, k)
      BY <2>1, <2>2, <2>4, <3>2 DEF FirstBelow
    <3>4. QED
      BY <2>4, <3>3, LessAt
  <2>5. CASE m < k
    <3>1. s[m] = t[m] /\ m \in 1..Len(s) /\ \A i \in 1..m - 1 : i \in 1..k - 1
      BY <2>0, <2>1, <2>5 DEF FirstBelow
    <3>2. t[m] < u[m]
      <4>1. m # Len(t) + 1
        BY <2>0, <2>5
      <4>2. QED
        BY <4>1, <2>2 DEF FirstBelow
    <3>3. m <= Len(s) + 1
      BY <3>1, <2>0
    <3>4. FirstBelow(s, u, m)
      BY <2>1, <2>2, <3>1, <3>2, <3>3 DEF FirstBelow
    <3>5. QED
      BY <3>4, LessAt
  <2>6. QED
    BY <2>3, <2>4, <2>5
<1>4. QED
  BY <1>1, <1>2, <1>3

\* The key of a backup: its prefix, the slash and the name that grows with the time.
LEMMA KeyShape ==
  ASSUME NEW b \in Backup
  PROVE  /\ b.prefix \in Seq(Nat) /\ Key(b) \in Seq(Nat) /\ Len(Key(b)) = Len(b.prefix) + 2
         /\ \A i \in 1..Len(b.prefix) : Key(b)[i] = b.prefix[i]
         /\ Key(b)[Len(b.prefix) + 1] = Slash
         /\ Key(b)[Len(b.prefix) + 2] = Name(b.time)
         /\ b.time \in Nat
PROOF
<1> DEFINE p == b.prefix
           e == <<Slash, Name(b.time)>>
<1>1. p \in Seq(Nat) /\ b.time \in Nat /\ Slash \in Nat
  BY KeysAssumption DEF Backup
<1>2. e \in Seq(Nat)
  <2>1. Name(b.time) \in Nat
    BY <1>1 DEF Name
  <2>2. QED
    BY <1>1, <2>1
<1>3. Len(e) = 2 /\ e[1] = Slash /\ e[2] = Name(b.time)
  OBVIOUS
<1>4. Key(b) = p \o e
  BY DEF Key
<1>5. Len(p) \in Nat
  BY <1>1
<1> HIDE DEF p, e
<1>6. /\ p \o e \in Seq(Nat) /\ Len(p \o e) = Len(p) + Len(e)
      /\ \A i \in 1..Len(p) + Len(e) : (p \o e)[i] = IF i <= Len(p) THEN p[i] ELSE e[i - Len(p)]
  <2>1. p \in Seq(Nat)
    BY <1>1
  <2>2. QED
    BY ONLY <2>1, <1>2, ConcatProperties, Zenon
<1>7. /\ Key(b) \in Seq(Nat) /\ Len(Key(b)) = Len(p) + 2
      /\ \A i \in 1..Len(p) + 2 : Key(b)[i] = IF i <= Len(p) THEN p[i] ELSE e[i - Len(p)]
  BY <1>3, <1>4, <1>6, Zenon
<1>8. \A i \in 1..Len(p) : i \in 1..Len(p) + 2 /\ i <= Len(p)
  BY <1>5
<1>9. Len(p) + 1 \in 1..Len(p) + 2 /\ ~(Len(p) + 1 <= Len(p)) /\ (Len(p) + 1) - Len(p) = 1
  BY <1>5
<1>10. Len(p) + 2 \in 1..Len(p) + 2 /\ ~(Len(p) + 2 <= Len(p)) /\ (Len(p) + 2) - Len(p) = 2
  BY <1>5
<1>11. Key(b)[Len(p) + 1] = e[1] /\ Key(b)[Len(p) + 2] = e[2]
  BY <1>7, <1>9, <1>10, Zenon
<1>12. \A i \in 1..Len(p) : Key(b)[i] = p[i]
  BY <1>7, <1>8, Zenon
<1>13. QED
  BY <1>1, <1>3, <1>7, <1>11, <1>12, Zenon DEF p

\* Every backup is listed under its own prefix.
LEMMA OwnKeysListed ==
  ASSUME NEW b \in Backup, b.prefix = Prefix
  PROVE  IsPrefix(Prefix, Key(b))
PROOF
<1>1. /\ Prefix \in Seq(Nat) /\ Key(b) \in Seq(Nat) /\ Len(Key(b)) = Len(Prefix) + 2
      /\ \A i \in 1..Len(Prefix) : Prefix[i] = Key(b)[i]
  BY KeyShape
<1>2. Len(Prefix) \in Nat
  BY <1>1
<1>3. ASSUME NEW m \in Nat, m = Len(Prefix)
      PROVE  SubSeq(Prefix, 1, m) = SubSeq(Key(b), 1, m)
  <2>1. m <= Len(Prefix) /\ m <= Len(Key(b)) /\ \A i \in 1..m : Prefix[i] = Key(b)[i]
    BY <1>1, <1>2, <1>3
  <2>2. QED
    BY <1>1, <2>1, SameStart
<1>4. SubSeq(Prefix, 1, Len(Prefix)) = SubSeq(Key(b), 1, Len(Prefix))
  BY <1>2, <1>3, Zenon
<1>5. Len(Prefix) <= Len(Key(b))
  BY <1>1, <1>2
<1>6. QED
  BY <1>4, <1>5 DEF IsPrefix

\* Among the keys of one prefix the order of strings is the order in time.
LEMMA KeysSortByTime ==
  ASSUME NEW b \in Backup, NEW c \in Backup, b.prefix = c.prefix, Less(Key(b), Key(c))
  PROVE  b.time < c.time
PROOF
<1> DEFINE n == Len(b.prefix)
<1>1. /\ n \in Nat /\ b.time \in Nat /\ c.time \in Nat
      /\ Key(b) \in Seq(Nat) /\ Key(c) \in Seq(Nat)
      /\ Len(Key(b)) = n + 2 /\ Len(Key(c)) = n + 2
      /\ \A i \in 1..n : Key(b)[i] = b.prefix[i] /\ Key(c)[i] = b.prefix[i]
      /\ Key(b)[n + 1] = Slash /\ Key(c)[n + 1] = Slash /\ Slash \in Nat
      /\ Key(b)[n + 2] = Name(b.time) /\ Key(c)[n + 2] = Name(c.time)
  <2>1. /\ b.prefix \in Seq(Nat) /\ Key(b) \in Seq(Nat) /\ Len(Key(b)) = n + 2
        /\ \A i \in 1..n : Key(b)[i] = b.prefix[i]
        /\ Key(b)[n + 1] = Slash /\ Key(b)[n + 2] = Name(b.time) /\ b.time \in Nat
    BY KeyShape, Zenon
  <2>2. /\ Key(c) \in Seq(Nat) /\ Len(Key(c)) = n + 2
        /\ \A i \in 1..n : Key(c)[i] = b.prefix[i]
        /\ Key(c)[n + 1] = Slash /\ Key(c)[n + 2] = Name(c.time) /\ c.time \in Nat
    <3>1. n = Len(c.prefix)
      OBVIOUS
    <3>2. QED
      BY <3>1, KeyShape, Zenon
  <2>3. n \in Nat
    BY <2>1
  <2>4. QED
    BY <2>1, <2>2, <2>3, KeysAssumption, Zenon
<1> HIDE DEF n
<1>2. PICK k \in 1..n + 2 : FirstBelow(Key(b), Key(c), k)
  BY <1>1, LessAt
<1>3. k # Len(Key(b)) + 1
  BY <1>1
<1>4. Key(b)[k] < Key(c)[k]
  BY <1>2, <1>3 DEF FirstBelow
<1>5. \A i \in 1..n + 1 : Key(b)[i] = Key(c)[i]
  <2>1. \A i \in 1..n + 1 : i \in 1..n \/ i = n + 1
    BY <1>1
  <2>2. QED
    BY <2>1, <1>1, Zenon
<1>6. \A i \in 1..n + 1 : Key(b)[i] \in Nat
  BY <1>1
<1>7. k = n + 2
  <2>1. ASSUME k \in 1..n + 1 PROVE FALSE
    <3>1. Key(b)[k] = Key(c)[k] /\ Key(b)[k] \in Nat
      BY <2>1, <1>5, <1>6
    <3>2. QED
      BY <3>1, <1>4
  <2>2. QED
    BY <2>1, <1>1
<1>8. Name(b.time) < Name(c.time)
  BY <1>1, <1>4, <1>7, Zenon
<1>9. QED
  BY <1>1, <1>8 DEF Name

\* There is a greatest key when there is any, so the loop of FindLatestBackupKey
\* ends at it.
LEMMA LatestExists ==
  ASSUME backups \subseteq Backup, IsFiniteSet(backups), Listed # {},
         \A b, c \in backups : Key(b) = Key(c) => b = c
  PROVE  /\ FindLatestBackupKey \in Listed
         /\ \A c \in Listed : c = FindLatestBackupKey \/ Less(Key(c), Key(FindLatestBackupKey))
PROOF
<1> DEFINE Above(b) == {c \in Listed : Less(Key(b), Key(c))}
           N == {Cardinality(Above(b)) : b \in Listed}
<1>0. Listed \subseteq backups
  BY DEF Listed
<1>1. \A b \in Listed : Key(b) \in Seq(Nat)
  BY <1>0, KeyShape
<1>2. \A b \in Listed : IsFiniteSet(Above(b)) /\ Cardinality(Above(b)) \in Nat
  <2>1. \A b \in Listed : Above(b) \in SUBSET backups
    BY <1>0
  <2>2. QED
    BY <2>1, FS_Subset, FS_CardinalityType
<1>3. ASSUME NEW b \in Listed, NEW c \in Above(b)
      PROVE  Cardinality(Above(c)) < Cardinality(Above(b))
  <2>1. c \in Listed /\ Less(Key(b), Key(c)) /\ Key(b) \in Seq(Nat) /\ Key(c) \in Seq(Nat)
    BY <1>1
  <2>2. Above(c) \subseteq Above(b)
    <3>1. ASSUME NEW d \in Above(c) PROVE d \in Above(b)
      <4>1. d \in Listed /\ Less(Key(c), Key(d)) /\ Key(d) \in Seq(Nat)
        BY <1>1
      <4>2. Less(Key(b), Key(d))
        BY <2>1, <4>1, LessIsTotalOrder
      <4>3. QED
        BY <4>1, <4>2
    <3>2. QED
      BY <3>1
  <2>3. c \notin Above(c)
    BY <2>1, LessIsTotalOrder
  <2>4. IsFiniteSet(Above(b)) /\ Cardinality(Above(b)) \in Nat /\ Cardinality(Above(c)) \in Nat
    BY <1>2, <2>1
  <2>5. Above(c) # Above(b)
    BY <2>3
  <2> HIDE DEF Above
  <2>6. Cardinality(Above(c)) <= Cardinality(Above(b)) /\ Cardinality(Above(c)) # Cardinality(Above(b))
    BY <2>2, <2>4, <2>5, FS_Subset
  <2>7. QED
    BY <2>4, <2>6
<1>4. N \subseteq Nat /\ N # {}
  BY <1>2
<1>5. PICK n \in N : \A m \in N : n <= m
  BY <1>4, LeastOf
<1>6. PICK b \in Listed : n = Cardinality(Above(b))
  BY <1>5
<1>7. Above(b) = {}
  <2>1. ASSUME NEW c \in Above(b) PROVE FALSE
    <3>1. Cardinality(Above(c)) < n /\ c \in Listed
      BY <1>3, <1>6
    <3>2. n <= Cardinality(Above(c)) /\ n \in Nat /\ Cardinality(Above(c)) \in Nat
      BY <3>1, <1>4, <1>5
    <3>3. QED
      BY <3>1, <3>2
  <2>2. QED
    BY <2>1
<1>8. ASSUME NEW c \in Listed
      PROVE  c = b \/ Less(Key(c), Key(b))
  <2>1. ~Less(Key(b), Key(c))
    BY <1>7
  <2>2. Key(c) = Key(b) \/ Less(Key(c), Key(b))
    BY <2>1, <1>1, LessIsTotalOrder
  <2>3. QED
    BY <2>2, <1>0
<1>9. \E x \in Listed : \A c \in Listed : c = x \/ Less(Key(c), Key(x))
  BY <1>8
<1>10. QED
  BY <1>9, Zenon DEF FindLatestBackupKey

-----------------------------------------------------------------------------
(* What psql has left to run                                                *)

\* The state right after the download, for any backup.
LEMMA DownloadedInput ==
  ASSUME NEW rows \in (SUBSET Entries) \cup {NoSchema},
         NEW s, s = stripIncompatibleSettings(Dump(rows))
  PROVE  /\ s \in Seq(Lines)
         /\ \A i \in DOMAIN s : s[i].runs # "timeout"
         /\ \A i, j \in DOMAIN s : s[i].runs = "drop" /\ s[j].runs = "drop" => i = j
         /\ \A i, j \in DOMAIN s : s[i].runs = "drop" /\ s[j].runs \in Entries => i < j
         /\ rows = NoSchema => \A i \in DOMAIN s : s[i].runs \notin Entries
         /\ rows # NoSchema => \E i \in DOMAIN s : s[i].runs = "drop"
         /\ rows # NoSchema => \A a \in rows : \E i \in DOMAIN s : s[i].runs = a
PROOF
<1> DEFINE P == <<Preamble[1], Preamble[3]>>
<1>0. "nothing" \notin Entries /\ "drop" \notin Entries /\ "timeout" \notin Entries
  BY KeysAssumption
<1>1. CASE rows = NoSchema
  <2>1. s = P \o <<>>
    <3>1. <<>> \in Seq(Lines)
      OBVIOUS
    <3>2. stripIncompatibleSettings(Preamble \o <<>>) = P \o <<>>
      BY <3>1, StripsPreamble
    <3>3. QED
      BY <3>2, <1>1, DumpShape
  <2>2. P \in Seq(Lines) /\ Len(P) = 2 /\ P[1].runs = "nothing" /\ P[2].runs = "nothing"
    BY PreambleLines DEF Line, Lines
  <2> HIDE DEF P
  <2>3. s = P
    BY <2>1, <2>2, ConcatEmptySeq
  <2>4. DOMAIN s = 1..2 /\ \A i \in 1..2 : s[i].runs = "nothing"
    <3>1. \A i \in 1..2 : i = 1 \/ i = 2
      OBVIOUS
    <3>2. DOMAIN s = 1..2
      BY <2>2, <2>3
    <3>3. QED
      BY <3>1, <3>2, <2>2, <2>3
  <2>5. QED
    BY <2>2, <2>3, <2>4, <1>0, <1>1
<1>2. CASE rows # NoSchema
  <2> DEFINE n == Cardinality(rows)
             q == SetToSeq(rows)
  <2>0. rows \in SUBSET Entries
    BY <1>2
  <2>1. n \in Nat /\ (\A i \in 1..n : q[i] \in rows) /\ (\A a \in rows : \E i \in 1..n : q[i] = a)
    BY <2>0, RowLinesType
  <2>2. Body(rows) \in Seq(Lines) /\ ~isDumpPreamble(Body(rows)[1])
    BY <2>0, StrippedLines DEF isDumpPreamble, Line
  <2>3. s = P \o Body(rows)
    <3>1. stripIncompatibleSettings(Preamble \o Body(rows)) = P \o Body(rows)
      BY <2>2, StripsPreamble
    <3>2. QED
      BY <3>1, <1>2, DumpShape
  <2>4. /\ s \in Seq(Lines) /\ Len(s) = n + 5
        /\ s[1].runs = "nothing" /\ s[2].runs = "nothing" /\ s[3].runs = "drop"
        /\ \A i \in 1..n : s[3 + i].runs = q[i]
        /\ s[n + 4].runs = "nothing" /\ s[n + 5].runs = "nothing"
    BY <2>0, <2>3, StrippedLines
  <2> HIDE DEF n, q, P
  <2>5. DOMAIN s = 1..n + 5
    BY <2>4
  <2>6. ASSUME NEW i \in 1..n + 5
        PROVE  \/ i = 3 /\ s[i].runs = "drop"
               \/ i > 3 /\ s[i].runs \in Entries
               \/ s[i].runs = "nothing"
    <3>1. CASE i \in {1, 2, 3, n + 4, n + 5}
      BY <3>1, <2>4
    <3>2. CASE i \notin {1, 2, 3, n + 4, n + 5}
      <4>1. i - 3 \in 1..n /\ 3 + (i - 3) = i /\ i > 3
        BY <3>2, <2>1
      <4>2. s[i].runs = q[i - 3]
        BY <4>1, <2>4
      <4>3. q[i - 3] \in Entries
        BY <4>1, <2>0, <2>1
      <4>4. QED
        BY <4>1, <4>2, <4>3
    <3>3. QED
      BY <3>1, <3>2
  <2>7. \A i \in 1..n + 5 : s[i].runs # "timeout"
    BY <2>6, <1>0
  <2>8. \A i \in 1..n + 5 : s[i].runs = "drop" => i = 3
    BY <2>6, <1>0
  <2>9. \A i \in 1..n + 5 : s[i].runs \in Entries => i > 3
    BY <2>6, <1>0
  <2>10. 3 \in 1..n + 5
    BY <2>1
  <2>11. ASSUME NEW a \in rows
         PROVE  \E i \in 1..n + 5 : s[i].runs = a
    <3>1. PICK i \in 1..n : q[i] = a
      BY <2>1
    <3>2. 3 + i \in 1..n + 5 /\ s[3 + i].runs = a
      BY <3>1, <2>1, <2>4
    <3>3. QED
      BY <3>2
  <2>12. QED
    <3>1. \A i, j \in 1..n + 5 : s[i].runs = "drop" /\ s[j].runs \in Entries => i < j
      BY <2>8, <2>9
    <3>2. QED
      BY <2>4, <2>5, <2>7, <2>8, <2>10, <2>11, <3>1, <1>2
<1>3. QED
  BY <1>1, <1>2

\* A step of psql takes the first line off.
LEMMA OneLineLess ==
  ASSUME NEW s \in Seq(Lines), s # <<>>
  PROVE  /\ Head(s) = s[1] /\ 1 \in DOMAIN s /\ s[1] \in Lines
         /\ Tail(s) \in Seq(Lines)
         /\ \A i \in DOMAIN Tail(s) : i \in Nat /\ i + 1 \in DOMAIN s /\ Tail(s)[i] = s[i + 1]
         /\ \A i \in DOMAIN s : i = 1 \/ (i - 1 \in DOMAIN Tail(s) /\ (i - 1) + 1 = i)
         /\ DOMAIN s \subseteq Nat
PROOF
<1>1. Len(s) \in Nat /\ Len(s) > 0 /\ DOMAIN s = 1..Len(s) /\ Head(s) = s[1]
  OBVIOUS
<1>2. /\ Tail(s) \in Seq(Lines) /\ Len(Tail(s)) = Len(s) - 1
      /\ \A i \in 1..Len(Tail(s)) : Tail(s)[i] = s[i + 1]
  BY HeadTailProperties
<1>3. DOMAIN Tail(s) = 1..Len(s) - 1
  BY <1>2
<1>4. QED
  BY <1>1, <1>2, <1>3

-----------------------------------------------------------------------------
(* The invariant                                                            *)

\* The bucket stays finite, with one object under a key.
LEMMA PutKeeps ==
  ASSUME RestoreInv, NEW b \in Backup
  PROVE  /\ Put(b) \subseteq Backup /\ IsFiniteSet(Put(b))
         /\ \A c, d \in Put(b) : Key(c) = Key(d) => c = d
PROOF
<1> DEFINE Rest == {c \in backups : Key(c) # Key(b)}
<1>0. backups \subseteq Backup /\ IsFiniteSet(backups) /\ \A c, d \in backups : Key(c) = Key(d) => c = d
  BY DEF RestoreInv, TypeOK
<1>1. Put(b) = Rest \cup {b}
  BY DEF Put
<1>2. IsFiniteSet(Rest)
  BY <1>0, FS_Subset
<1>3. IsFiniteSet(Rest \cup {b})
  BY <1>2, FS_AddElement
<1>4. QED
  BY <1>0, <1>1, <1>3

\* The parts of the invariant that the steps of the environment leave alone.
LEMMA EnvironmentKeeps ==
  ASSUME RestoreInv, Environment
  PROVE  RestoreInv'
PROOF
<1> USE DEF RestoreInv
<1>0. /\ db \in (SUBSET Entries) \cup {NoSchema}
      /\ \A S \in SUBSET Entries : S # NoSchema
  BY KeysAssumption DEF TypeOK
<1>1. CASE ServerStarts
  <2>1. TypeOK'
    BY <1>1 DEF TypeOK, ServerStarts
  <2>2. Rows' = Rows /\ db = NoSchema /\ db' # NoSchema
    BY <1>0, <1>1 DEF ServerStarts, Rows
  <2>3. (rpc = "psql" => InputInv)'
    BY <1>1, <2>2 DEF ServerStarts, InputInv, Drops, Loads
  <2>4. UnforcedInv'
    BY <1>1, <2>2 DEF ServerStarts, UnforcedInv, Drops
  <2>5. QED
    BY <1>1, <2>1, <2>3, <2>4 DEF ServerStarts
<1>2. CASE LoseDatabase
  <2>1. TypeOK'
    BY <1>2 DEF TypeOK, LoseDatabase
  <2>2. QED
    BY <1>2, <2>1 DEF LoseDatabase, UnforcedInv
<1>3. CASE Tick
  <2>1. TypeOK'
    <3>1. now + 1 \in 1..MaxTime
      BY <1>3, KeysAssumption DEF TypeOK, Tick
    <3>2. QED
      BY <1>3, <3>1 DEF TypeOK, Tick
  <2>2. QED
    BY <1>3, <2>1 DEF Tick, InputInv, UnforcedInv, Drops, Loads, Rows
<1>4. CASE BackupStart
  <2>1. TypeOK'
    <3>1. [prefix |-> Prefix, time |-> now, rows |-> db] \in Backup
      BY DEF TypeOK, Backup
    <3>2. QED
      BY <1>4, <3>1 DEF TypeOK, BackupStart
  <2>2. QED
    BY <1>4, <2>1 DEF BackupStart, InputInv, UnforcedInv, Drops, Loads, Rows
<1>5. ASSUME NEW e \in Entries, Create(e)
      PROVE  RestoreInv'
  <2>1. TypeOK'
    BY <1>5, KeysAssumption DEF TypeOK, Create
  <2>2. Rows' = Rows \cup {e} /\ db' # NoSchema /\ db # NoSchema
    BY <1>0, <1>5 DEF Create, Rows
  <2>3. (rpc = "psql" => InputInv)'
    BY <1>5, <2>2 DEF Create, InputInv, Drops, Loads
  <2>4. UnforcedInv'
    BY <1>5, <2>2 DEF Create, UnforcedInv, Drops
  <2>5. QED
    BY <1>5, <2>1, <2>3, <2>4 DEF Create
<1>6. ASSUME NEW e \in Entries, Delete(e)
      PROVE  RestoreInv'
  <2>1. TypeOK'
    BY <1>0, <1>6 DEF TypeOK, Delete, Rows
  <2>2. Rows' = Rows \ {e} /\ db' # NoSchema /\ db # NoSchema
    BY <1>0, <1>6 DEF Delete, Rows
  <2>3. (rpc = "psql" => InputInv)'
    <3>1. rpc = "psql" => Rows \cup removed \subseteq (Rows \cup removed)'
      BY <1>6, <2>2 DEF Delete
    <3>2. QED
      BY <1>6, <2>2, <3>1 DEF Delete, InputInv, Drops, Loads
  <2>4. UnforcedInv'
    BY <1>6, <2>2 DEF Delete, UnforcedInv, Drops
  <2>5. QED
    BY <1>6, <2>1, <2>3, <2>4 DEF Delete
<1>7. ASSUME NEW j \in dumping, BackupEnd(j)
      PROVE  RestoreInv'
  <2>1. j \in Backup
    BY DEF TypeOK
  <2>2. /\ backups' \subseteq Backup /\ IsFiniteSet(backups')
        /\ \A c, d \in backups' : Key(c) = Key(d) => c = d
    <3>1. CASE backups' = backups
      BY <3>1 DEF TypeOK
    <3>2. CASE backups' = Put(j)
      BY <2>1, <3>2, PutKeeps
    <3>3. QED
      BY <1>7, <3>1, <3>2 DEF BackupEnd
  <2>3. TypeOK'
    BY <1>7, <2>2 DEF TypeOK, BackupEnd
  <2>4. QED
    BY <1>7, <2>2, <2>3 DEF BackupEnd, InputInv, UnforcedInv, Drops, Loads, Rows
<1>8. ASSUME NEW p \in Others, ForeignBackup(p)
      PROVE  RestoreInv'
  <2>1. [prefix |-> p, time |-> now, rows |-> {}] \in Backup
    BY DEF TypeOK, Backup
  <2>2. /\ backups' \subseteq Backup /\ IsFiniteSet(backups')
        /\ \A c, d \in backups' : Key(c) = Key(d) => c = d
    BY <1>8, <2>1, PutKeeps DEF ForeignBackup
  <2>3. TypeOK'
    BY <1>8, <2>2 DEF TypeOK, ForeignBackup
  <2>4. QED
    BY <1>8, <2>2, <2>3 DEF ForeignBackup, InputInv, UnforcedInv, Drops, Loads, Rows
<1>9. QED
  BY <1>1, <1>2, <1>3, <1>4, <1>5, <1>6, <1>7, <1>8 DEF Environment

\* A line of psql: the invariant moves up by one, and the restore stays in psql.
LEMMA LineKeeps ==
  ASSUME RestoreInv, PsqlLine
  PROVE  RestoreInv' /\ rpc' = "psql" /\ (~force => Rows \ Rows' \subseteq since \cup (Entries \ Artifacts))
PROOF
<1> DEFINE does == input[1].runs
<1>0. /\ TypeOK /\ InputInv /\ UnforcedInv /\ source # Nil /\ rpc = "psql"
      /\ IsFiniteSet(backups) /\ input \in Seq(Lines) /\ input # <<>>
      /\ db \in (SUBSET Entries) \cup {NoSchema}
      /\ \A S \in SUBSET Entries : S # NoSchema
      /\ "nothing" \notin Entries /\ "drop" \notin Entries /\ "timeout" \notin Entries
  BY KeysAssumption DEF RestoreInv, PsqlLine, TypeOK
<1>1. /\ Head(input) = input[1] /\ 1 \in DOMAIN input /\ input[1] \in Lines
      /\ Tail(input) \in Seq(Lines)
      /\ \A i \in DOMAIN Tail(input) : i \in Nat /\ i + 1 \in DOMAIN input /\ Tail(input)[i] = input[i + 1]
      /\ \A i \in DOMAIN input : i = 1 \/ (i - 1 \in DOMAIN Tail(input) /\ (i - 1) + 1 = i)
      /\ DOMAIN input \subseteq Nat
  BY <1>0, OneLineLess
<1>2. does \in Entries \cup {"nothing", "drop"}
  BY <1>0, <1>1 DEF Lines, InputInv
<1>3. /\ db' = IF does = "drop" THEN {} ELSE IF does \in Entries THEN db \cup {does} ELSE db
      /\ rpc' = "psql"
      /\ input' = Tail(input)
      /\ removed' = IF does = "drop" THEN {} ELSE removed
      /\ UNCHANGED <<now, dumping, backups, force, source, since>>
  <2>1. does # "timeout"
    BY <1>0, <1>2
  <2>2. QED
    BY <2>1, <1>0, <1>1 DEF PsqlLine
<1> HIDE DEF does
<1>4. does \in Entries => db # NoSchema
  <2>1. ASSUME does \in Entries, db = NoSchema PROVE FALSE
    <3>1. 1 \in Loads
      BY <2>1, <1>1 DEF Loads, does
    <3>2. PICK i \in Drops : TRUE
      BY <2>1, <3>1, <1>0 DEF InputInv
    <3>3. i < 1 /\ i \in DOMAIN input
      BY <3>1, <3>2, <1>0 DEF InputInv, Drops
    <3>4. i = 1 \/ i - 1 \in Nat
      BY <3>3, <1>1
    <3>5. QED
      BY <3>3, <3>4, <1>1
  <2>2. QED
    BY <2>1
<1>5. /\ does = "drop" => Rows' = {} /\ db' # NoSchema
      /\ does \in Entries => Rows' = Rows \cup {does} /\ db' # NoSchema
      /\ does = "nothing" => Rows' = Rows /\ db' = db
      /\ db' \in (SUBSET Entries) \cup {NoSchema}
  <2>1. {} # NoSchema
    BY <1>0
  <2>2. CASE does = "drop"
    BY <2>1, <2>2, <1>0, <1>3 DEF Rows
  <2>3. CASE does \in Entries
    BY <2>3, <1>0, <1>3, <1>4 DEF Rows
  <2>4. CASE does = "nothing"
    BY <2>4, <1>0, <1>3 DEF Rows
  <2>5. QED
    BY <2>2, <2>3, <2>4, <1>0, <1>2
<1>6. /\ \A i \in Drops' : i \in Nat /\ i + 1 \in Drops
      /\ \A i \in Loads' : i \in Nat /\ i + 1 \in Loads /\ input'[i] = input[i + 1]
      /\ \A i \in Drops : i = 1 \/ (i - 1 \in Drops' /\ (i - 1) + 1 = i)
      /\ \A i \in Loads : i = 1 \/ (i - 1 \in Loads' /\ input'[i - 1] = input[i])
  BY <1>1, <1>3 DEF Drops, Loads
<1>7. does = "drop" => 1 \in Drops /\ Drops' = {}
  <2>1. ASSUME does = "drop", NEW i \in Drops' PROVE FALSE
    <3>1. i \in Nat /\ i + 1 \in Drops /\ 1 \in Drops
      BY <2>1, <1>1, <1>6 DEF Drops, does
    <3>2. i + 1 = 1
      BY <3>1, <1>0 DEF InputInv
    <3>3. i = 0 /\ i \in DOMAIN input'
      BY <3>1, <3>2, <2>1 DEF Drops
    <3>4. 0 \notin DOMAIN input'
      BY <1>1, <1>3
    <3>5. QED
      BY <3>3, <3>4
  <2>2. QED
    BY <2>1, <1>1 DEF Drops, does
<1>8. does # "drop" => 1 \notin Drops
  BY DEF Drops, does
<1>9. InputInv'
  <2>1. \A i \in DOMAIN input' : input'[i].runs # "timeout"
    BY <1>0, <1>1, <1>3 DEF InputInv
  <2>2. \A i, j \in Drops' : i = j
    <3>1. ASSUME NEW i \in Drops', NEW j \in Drops' PROVE i = j
      <4>1. i \in Nat /\ j \in Nat /\ i + 1 = j + 1
        BY <1>0, <1>6 DEF InputInv
      <4>2. QED
        BY <4>1
    <3>2. QED
      BY <3>1
  <2>3. \A i \in Drops', j \in Loads' : i < j
    <3>1. ASSUME NEW i \in Drops', NEW j \in Loads' PROVE i < j
      <4>1. i \in Nat /\ j \in Nat /\ i + 1 < j + 1
        BY <1>0, <1>6 DEF InputInv
      <4>2. QED
        BY <4>1
    <3>2. QED
      BY <3>1
  <2>4. Loads' # {} => db' # NoSchema \/ Drops' # {}
    <3>1. CASE does = "nothing"
      <4>1. ASSUME Loads' # {}, Drops' = {} PROVE db # NoSchema
        <5>1. Loads # {} /\ Drops = {}
          BY <4>1, <3>1, <1>6, <1>8
        <5>2. QED
          BY <5>1, <1>0 DEF InputInv
      <4>2. QED
        BY <4>1, <3>1, <1>5
    <3>2. QED
      BY <3>1, <1>2, <1>5
  <2>5. ASSUME source.rows # NoSchema, NEW a \in source.rows
        PROVE  (\E i \in Loads' : input'[i].runs = a) \/ (a \in (Rows \cup removed)' /\ Drops' = {})
    <3>1. CASE \E i \in Loads : input[i].runs = a
      <4>1. PICK i \in Loads : input[i].runs = a
        BY <3>1
      <4>2. CASE i = 1
        <5>1. does = a /\ does \in Entries
          BY <4>1, <4>2 DEF does, Loads
        <5>2. a \in Rows'
          BY <5>1, <1>5
        <5>3. Drops' = {}
          <6>1. ASSUME NEW k \in Drops' PROVE FALSE
            <7>1. k \in Nat /\ k + 1 < 1
              BY <4>1, <4>2, <1>0, <1>6 DEF InputInv
            <7>2. QED
              BY <7>1
          <6>2. QED
            BY <6>1
        <5>4. QED
          BY <5>2, <5>3
      <4>3. CASE i # 1
        BY <4>1, <4>3, <1>6
      <4>4. QED
        BY <4>2, <4>3
    <3>2. CASE a \in Rows \cup removed /\ Drops = {}
      <4>1. does # "drop"
        BY <3>2, <1>7
      <4>2. Drops' = {}
        BY <3>2, <1>6
      <4>3. QED
        BY <4>1, <4>2, <3>2, <1>2, <1>3, <1>5
    <3>3. QED
      BY <3>1, <3>2, <2>5, <1>0 DEF InputInv
  <2>6. QED
    BY <2>1, <2>2, <2>3, <2>4, <2>5, <1>3 DEF InputInv
<1>10. UnforcedInv'
  <2>1. CASE does = "drop"
    BY <2>1, <1>3, <1>5 DEF UnforcedInv
  <2>2. CASE does = "nothing"
    <3>1. Drops = {} => Drops' = {}
      BY <1>6
    <3>2. QED
      BY <2>2, <3>1, <1>0, <1>3, <1>5 DEF UnforcedInv
  <2>3. CASE does \in Entries
    <3>1. Drops' = {}
      <4>1. 1 \in Loads
        BY <2>3, <1>1 DEF Loads, does
      <4>2. ASSUME NEW k \in Drops' PROVE FALSE
        <5>1. k \in Nat /\ k + 1 < 1
          BY <4>1, <1>0, <1>6 DEF InputInv
        <5>2. QED
          BY <5>1
      <4>3. QED
        BY <4>2
    <3>2. QED
      BY <3>1, <1>3 DEF UnforcedInv
  <2>4. QED
    BY <2>1, <2>2, <2>3, <1>2
<1>11. TypeOK'
  BY <1>0, <1>1, <1>3, <1>5 DEF TypeOK
<1>12. ~force => Rows \ Rows' \subseteq since \cup (Entries \ Artifacts)
  <2>1. CASE does = "drop"
    BY <2>1, <1>0, <1>7 DEF UnforcedInv, Rows
  <2>2. CASE does # "drop"
    BY <2>2, <1>2, <1>5
  <2>3. QED
    BY <2>1, <2>2
<1>13. QED
  BY <1>0, <1>3, <1>9, <1>10, <1>11, <1>12 DEF RestoreInv

\* The end of the process leaves nothing behind but the database.
LEMMA ExitKeeps ==
  ASSUME RestoreInv, NEW code \in {"exit0", "exit1"}, Exit(code),
         UNCHANGED <<db, now, dumping, backups>>
  PROVE  RestoreInv'
PROOF
<1>1. rpc' = code /\ source' = Nil /\ since' = {} /\ removed' = {}
  BY DEF Exit
<1>2. force' \in BOOLEAN /\ input' \in Seq(Lines)
  <2>1. force' \in BOOLEAN
    BY DEF Exit
  <2>2. input' \in Seq(Lines)
    BY DEF Exit
  <2>3. QED
    BY <2>1, <2>2
<1>3. TypeOK'
  BY <1>1, <1>2 DEF RestoreInv, TypeOK
<1>4. QED
  BY <1>1, <1>3 DEF RestoreInv, UnforcedInv

LEMMA RestoreStepsKeep ==
  ASSUME RestoreInv, RestoreSteps
  PROVE  RestoreInv'
PROOF
<1>0. /\ TypeOK /\ IsFiniteSet(backups) /\ UnforcedInv
      /\ Nil \notin Backup
      /\ backups \subseteq Backup
      /\ \A b, c \in backups : Key(b) = Key(c) => b = c
  BY NilAssumption DEF RestoreInv, TypeOK
<1>1. ASSUME NEW f \in BOOLEAN, RestoreStart(f) PROVE RestoreInv'
  <2>1. TypeOK'
    BY <1>0, <1>1 DEF TypeOK, RestoreStart
  <2>2. QED
    BY <1>1, <2>1 DEF RestoreInv, RestoreStart, UnforcedInv
<1>2. CASE Check
  <2>1. CASE TargetHasData /\ ~force
    BY <1>2, <2>1, ExitKeeps DEF Check
  <2>2. CASE ~(TargetHasData /\ ~force)
    <3>1. /\ rpc' = "find" /\ source = Nil
          /\ UNCHANGED <<db, now, dumping, backups, force, source, input, since, removed>>
      BY <1>2, <2>2 DEF RestoreInv, Check
    <3>2. TypeOK'
      BY <1>0, <3>1 DEF TypeOK
    <3>3. ~force => Rows \cap Artifacts = {}
      BY <2>2 DEF TargetHasData
    <3>4. UnforcedInv'
      BY <3>1, <3>3 DEF UnforcedInv, Rows
    <3>5. QED
      BY <1>0, <3>1, <3>2, <3>4 DEF RestoreInv
  <2>3. QED
    BY <2>1, <2>2
<1>3. CASE FindBackup
  <2>1. CASE Listed = {}
    BY <1>3, <2>1, ExitKeeps DEF FindBackup
  <2>2. CASE Listed # {}
    <3>1. FindLatestBackupKey \in Backup
      <4>1. FindLatestBackupKey \in Listed
        BY <1>0, <2>2, LatestExists
      <4>2. QED
        BY <4>1, <1>0 DEF Listed
    <3>2. /\ rpc = "find" /\ rpc' = "download" /\ source' = FindLatestBackupKey
          /\ UNCHANGED <<db, now, dumping, backups, force, input, since, removed>>
      BY <1>3, <2>2 DEF FindBackup
    <3>3. TypeOK'
      BY <1>0, <3>1, <3>2 DEF TypeOK
    <3>4. UnforcedInv'
      BY <1>0, <3>2 DEF UnforcedInv, Rows
    <3>5. QED
      BY <1>0, <3>1, <3>2, <3>3, <3>4 DEF RestoreInv
  <2>3. QED
    BY <2>1, <2>2
<1>4. ASSUME NEW b \in backups, NamedBackup(b) PROVE RestoreInv'
  <2>1. TypeOK'
    BY <1>0, <1>4 DEF TypeOK, NamedBackup
  <2>2. UnforcedInv'
    BY <1>0, <1>4 DEF NamedBackup, UnforcedInv, Rows
  <2>3. QED
    BY <1>0, <1>4, <2>1, <2>2 DEF RestoreInv, NamedBackup
<1>5. CASE Download
  <2>1. source \in Backup /\ rpc = "download" /\ rpc' = "psql"
    BY <1>5 DEF RestoreInv, TypeOK, Download
  <2>2. source.rows \in (SUBSET Entries) \cup {NoSchema}
    BY <2>1 DEF Backup
  <2>3. /\ input' = stripIncompatibleSettings(Dump(source.rows))
        /\ UNCHANGED <<db, now, dumping, backups, force, source, since, removed>>
    BY <1>5 DEF Download
  <2> DEFINE s == input'
  <2>4. /\ s \in Seq(Lines)
        /\ \A i \in DOMAIN s : s[i].runs # "timeout"
        /\ \A i, j \in DOMAIN s : s[i].runs = "drop" /\ s[j].runs = "drop" => i = j
        /\ \A i, j \in DOMAIN s : s[i].runs = "drop" /\ s[j].runs \in Entries => i < j
        /\ source.rows = NoSchema => \A i \in DOMAIN s : s[i].runs \notin Entries
        /\ source.rows # NoSchema => \E i \in DOMAIN s : s[i].runs = "drop"
        /\ source.rows # NoSchema => \A a \in source.rows : \E i \in DOMAIN s : s[i].runs = a
    BY <2>2, <2>3, DownloadedInput
  <2>5. TypeOK'
    BY <1>0, <2>1, <2>3, <2>4 DEF TypeOK
  <2>6. InputInv'
    <3>1. \A a \in source.rows : source.rows # NoSchema => a \in Entries
      BY <2>2
    <3>2. source.rows # NoSchema => \A a \in source.rows : \E i \in Loads' : s[i].runs = a
      BY <2>4, <3>1 DEF Loads
    <3>3. Loads' # {} => Drops' # {}
      BY <2>4 DEF Loads, Drops
    <3>4. /\ \A i, j \in Drops' : i = j
          /\ \A i \in Drops', j \in Loads' : i < j
      BY <2>4 DEF Loads, Drops
    <3>5. QED
      BY <2>3, <2>4, <3>2, <3>3, <3>4 DEF InputInv
  <2>7. UnforcedInv'
    BY <1>0, <2>1, <2>3 DEF UnforcedInv, Rows
  <2>8. QED
    <3>1. source' # Nil /\ IsFiniteSet(backups')
      BY <1>0, <2>1, <2>3
    <3>2. QED
      BY <2>1, <2>5, <2>6, <2>7, <3>1 DEF RestoreInv
<1>6. CASE PsqlLine
  BY <1>6, LineKeeps
<1>7. CASE Fail
  BY <1>7, ExitKeeps DEF Fail
<1>8. CASE PsqlStops
  BY <1>8, ExitKeeps DEF PsqlStops
<1>9. CASE RestoreDone
  BY <1>9, ExitKeeps DEF RestoreDone
<1>10. CASE Again
  <2>1. TypeOK'
    BY <1>0, <1>10 DEF TypeOK, Again
  <2>2. source' = Nil
    BY <1>10 DEF RestoreInv, Again
  <2>3. QED
    BY <1>0, <1>10, <2>1, <2>2 DEF RestoreInv, Again, UnforcedInv
<1>11. QED
  BY <1>1, <1>2, <1>3, <1>4, <1>5, <1>6, <1>7, <1>8, <1>9, <1>10 DEF RestoreSteps

LEMMA RestoreInvInitially == Init => RestoreInv
PROOF
<1> SUFFICES ASSUME Init PROVE RestoreInv
  OBVIOUS
<1>1. TypeOK
  <2>1. force \in BOOLEAN
    BY DEF Init
  <2>2. input \in Seq(Lines)
    BY DEF Init
  <2>3. now \in 1..MaxTime
    BY KeysAssumption DEF Init
  <2>4. QED
    BY <2>1, <2>2, <2>3 DEF Init, TypeOK
<1>2. QED
  BY <1>1, FS_EmptySet DEF Init, RestoreInv, UnforcedInv

LEMMA StutterKeeps == RestoreInv /\ UNCHANGED vars => RestoreInv'
PROOF
<1> SUFFICES ASSUME RestoreInv, UNCHANGED vars PROVE RestoreInv'
  OBVIOUS
<1>1. TypeOK'
  BY DEF RestoreInv, TypeOK, vars
<1>2. QED
  BY <1>1 DEF RestoreInv, InputInv, UnforcedInv, Drops, Loads, Rows, vars

\* The invariant of a restore, in every reachable state: what psql has left to run,
\* and what an unforced restore found.
THEOREM RestoreInvariance == Spec => []RestoreInv
PROOF
<1>1. RestoreInv /\ [Next]_vars => RestoreInv'
  BY EnvironmentKeeps, RestoreStepsKeep, StutterKeeps DEF Next
<1>2. QED
  BY <1>1, RestoreInvInitially, PTL DEF Spec

\* The types of the restore's state, and one object under a key.
THEOREM RestoreTypes == Spec => []TypeOK
PROOF
<1>1. RestoreInv => TypeOK
  BY DEF RestoreInv
<1>2. QED
  BY <1>1, RestoreInvariance, PTL

-----------------------------------------------------------------------------
(* The properties                                                           *)

\* A restore that exits with 0 has loaded every row of its backup; what of them is
\* not there the server has deleted since.
THEOREM SuccessHasLoadedAll == Spec => SuccessLoadsAll
PROOF
<1>1. ASSUME RestoreInv, [Next]_vars, rpc' = "exit0", rpc # "exit0"
      PROVE  source # Nil /\ (source.rows # NoSchema => source.rows \subseteq Rows' \cup removed)
  <2>1. RestoreDone
    BY <1>1, LineKeeps
       DEF Next, Environment, RestoreSteps, vars, ServerStarts, LoseDatabase, Tick, BackupStart,
           Create, Delete, BackupEnd, ForeignBackup, RestoreStart, Check, FindBackup, NamedBackup,
           Download, Fail, PsqlStops, Again, Exit
  <2>2. InputInv /\ source # Nil /\ input = <<>> /\ Rows' = Rows
    BY <1>1, <2>1 DEF RestoreInv, RestoreDone, Rows
  <2>3. Loads = {}
    BY <2>2 DEF Loads
  <2>4. QED
    BY <2>2, <2>3 DEF InputInv
<1>2. QED
  BY <1>1, RestoreInvariance, PTL DEF Spec, SuccessLoadsAll

\* No line of a stripped dump is refused, whatever rows the backup holds and whatever
\* they read like.
THEOREM DumpIsAccepted == Spec => DumpAccepted
PROOF
<1>1. ASSUME RestoreInv, PsqlLine PROVE rpc' = "psql"
  BY <1>1, LineKeeps
<1>2. QED
  BY <1>1, RestoreInvariance, PTL DEF Spec, DumpAccepted

\* What a restore that was not forced takes away came after its check, or is not of the
\* table the check reads.
THEOREM UnforcedDropsNothing == Spec => UnforcedSparesData
PROOF
<1>1. ASSUME RestoreInv, PsqlLine, ~force
      PROVE  Rows \ Rows' \subseteq since \cup (Entries \ Artifacts)
  BY <1>1, LineKeeps
<1>2. QED
  BY <1>1, RestoreInvariance, PTL DEF Spec, UnforcedSparesData

\* Whatever the prefixes in the bucket, the restore takes this instance's most recent
\* backup or one of an instance whose keys begin with this one's prefix.
THEOREM LatestIsOwn == Spec => LatestIsNewestOwn
PROOF
<1>1. ASSUME RestoreInv, FindBackup, source' # Nil
      PROVE  \/ source' \in Own /\ \A b \in Own : b.time <= source'.time
             \/ source' \in Listed \ Own
  <2>0. /\ backups \subseteq Backup /\ IsFiniteSet(backups)
        /\ \A b, c \in backups : Key(b) = Key(c) => b = c
    BY <1>1 DEF RestoreInv, TypeOK
  <2>1. Listed # {} /\ source' = FindLatestBackupKey
    BY <1>1 DEF FindBackup, Exit
  <2>2. source' \in Listed /\ \A c \in Listed : c = source' \/ Less(Key(c), Key(source'))
    BY <2>0, <2>1, LatestExists
  <2>3. ASSUME source' \in Own, NEW b \in Own PROVE b.time <= source'.time
    <3>1. b \in Backup /\ b \in Listed /\ source' \in Backup /\ b.prefix = source'.prefix
      BY <2>0, <2>3, OwnKeysListed DEF Own, Listed
    <3>2. b.time \in Nat /\ source'.time \in Nat
      BY <3>1 DEF Backup
    <3>3. b = source' \/ b.time < source'.time
      BY <3>1, <2>2, KeysSortByTime
    <3>4. QED
      BY <3>2, <3>3
  <2>4. QED
    BY <2>2, <2>3
<1>2. QED
  BY <1>1, RestoreInvariance, PTL DEF Spec, LatestIsNewestOwn
=============================================================================
