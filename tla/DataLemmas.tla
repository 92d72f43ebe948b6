----------------------------- MODULE DataLemmas -----------------------------
(***************************************************************************)
(* Induction over the numbers, with the set of those a fact holds for in   *)
(* the place of the fact, and what it gives about the operators on         *)
(* sequences that are defined by recursion.                                *)
(***************************************************************************)
EXTENDS SequencesExt, WellFoundedInduction, TLAPS

\* A set of natural numbers has a least one.
LEMMA LeastNumber ==
    ASSUME NEW S \in SUBSET Nat, S # {}
    PROVE  \E n \in S : \A m \in S : n <= m
<1> DEFINE Less == {ss \in Nat \X Nat : ss[1] < ss[2]}
<1>1. IsWellFoundedOn(Less, Nat)
    BY NatLessThanWellFounded DEF OpToRel
<1> HIDE DEF Less
<1>2. PICK n \in S : \A m \in S : <<m, n>> \notin Less
    BY <1>1, WFMin
<1>3. \A m \in S : ~(m < n)
    BY <1>2 DEF Less
<1> QED  BY <1>2, <1>3

\* ... which is what Min is.
LEMMA MinIsLeast ==
    ASSUME NEW S \in SUBSET Nat, S # {}
    PROVE  Min(S) \in S /\ \A m \in S : Min(S) <= m
<1>1. \E n \in S : \A m \in S : n <= m
    BY LeastNumber
<1> QED  BY <1>1 DEF Min

\* What holds of 0, and of n + 1 when it holds of n, holds of every number.
LEMMA Induction ==
    ASSUME NEW S, 0 \in S, \A n \in Nat : n \in S => n + 1 \in S
    PROVE  \A n \in Nat : n \in S
<1> SUFFICES ASSUME Nat \ S # {} PROVE FALSE
    OBVIOUS
<1>1. PICK k \in Nat \ S : \A m \in Nat \ S : k <= m
    BY LeastNumber
<1>2. k - 1 \in Nat /\ k = (k - 1) + 1
    BY <1>1
<1> QED  BY <1>1, <1>2

LEMMA ToSetOfConcat ==
    ASSUME NEW T, NEW a \in Seq(T), NEW b \in Seq(T)
    PROVE  \A x : x \in ToSet(a \o b) <=> x \in ToSet(a) \/ x \in ToSet(b)
<1>1. /\ a \o b \in Seq(T) /\ Len(a \o b) = Len(a) + Len(b)
      /\ Len(a) \in Nat /\ Len(b) \in Nat
      /\ DOMAIN a = 1..Len(a) /\ DOMAIN b = 1..Len(b)
      /\ DOMAIN (a \o b) = 1..(Len(a) + Len(b))
    OBVIOUS
<1>2. /\ \A i \in 1..Len(a) : (a \o b)[i] = a[i]
      /\ \A i \in 1..Len(b) : (a \o b)[Len(a) + i] = b[i]
    BY <1>1
<1>3. \A i \in 1..(Len(a) + Len(b)) :
          i \in 1..Len(a) \/ (i - Len(a) \in 1..Len(b) /\ i = Len(a) + (i - Len(a)))
    BY <1>1
<1>4. ASSUME NEW x, x \in ToSet(a \o b) PROVE x \in ToSet(a) \/ x \in ToSet(b)
    BY <1>1, <1>2, <1>3, <1>4 DEF ToSet
<1>5. ASSUME NEW x, x \in ToSet(a) \/ x \in ToSet(b) PROVE x \in ToSet(a \o b)
    <2>1. \A i \in 1..Len(a) : i \in 1..(Len(a) + Len(b))
        BY <1>1
    <2>2. \A i \in 1..Len(b) : Len(a) + i \in 1..(Len(a) + Len(b))
        BY <1>1
    <2> QED  BY <1>1, <1>2, <1>5, <2>1, <2>2 DEF ToSet
<1> QED  BY <1>4, <1>5

-----------------------------------------------------------------------------
(***************************************************************************)
(* FlattenSeq.                                                             *)
(***************************************************************************)
\* The sequence of the concatenations of the first sequences.
IsFlattening(f, seqs, n) ==
    f = [i \in 1..n |-> IF i = 1 THEN seqs[i] ELSE f[i - 1] \o seqs[i]]

LEMMA FlatteningAt ==
    ASSUME NEW f, NEW seqs, NEW n \in Nat, IsFlattening(f, seqs, n),
           NEW i \in 1..n
    PROVE  f[i] = IF i = 1 THEN seqs[i] ELSE f[i - 1] \o seqs[i]
BY DEF IsFlattening

LEMMA FlatteningExists ==
    ASSUME NEW seqs
    PROVE  \A n \in Nat : \E f : IsFlattening(f, seqs, n)
<1> DEFINE S == {n \in Nat : \E f : IsFlattening(f, seqs, n)}
<1>1. 0 \in S
    <2> DEFINE f == [i \in 1..0 |-> seqs[i]]
    <2>1. IsFlattening(f, seqs, 0)
        BY DEF IsFlattening
    <2> QED  BY <2>1
<1>2. ASSUME NEW n \in Nat, n \in S PROVE n + 1 \in S
    <2>1. PICK f : IsFlattening(f, seqs, n)
        BY <1>2
    <2> DEFINE g == [i \in 1..(n + 1) |->
                        IF i = 1 THEN seqs[i] ELSE f[i - 1] \o seqs[i]]
    <2>2. ASSUME NEW i \in 1..n PROVE g[i] = f[i]
        <3>1. g[i] = IF i = 1 THEN seqs[i] ELSE f[i - 1] \o seqs[i]
            OBVIOUS
        <3> HIDE DEF g
        <3> QED  BY <2>1, <3>1, FlatteningAt
    <2>3. ASSUME NEW i \in 1..(n + 1), i # 1 PROVE g[i - 1] = f[i - 1]
        <3>1. i - 1 \in 1..n
            BY <2>3
        <3> HIDE DEF g
        <3> QED  BY <2>2, <3>1
    <2>4. IsFlattening(g, seqs, n + 1)
        BY <2>3 DEF IsFlattening
    <2> QED  BY <2>4
<1> HIDE DEF S
<1>3. \A n \in Nat : n \in S
    BY <1>1, <1>2, Induction
<1> QED  BY <1>3 DEF S

LEMMA FlattenIsLast ==
    ASSUME NEW seqs, Len(seqs) \in Nat, Len(seqs) # 0
    PROVE  \E f : /\ IsFlattening(f, seqs, Len(seqs))
                  /\ FlattenSeq(seqs) = f[Len(seqs)]
<1> DEFINE f == CHOOSE f : IsFlattening(f, seqs, Len(seqs))
<1>1. IsFlattening(f, seqs, Len(seqs))
    BY FlatteningExists
<1>2. FlattenSeq(seqs) = f[Len(seqs)]
    BY DEF FlattenSeq, IsFlattening
<1> QED  BY <1>1, <1>2

\* Of three sequences.
LEMMA FlattenOfThree ==
    ASSUME NEW a, NEW b, NEW c
    PROVE  FlattenSeq(<<a, b, c>>) = (a \o b) \o c
<1> DEFINE seqs == <<a, b, c>>
<1>1. Len(seqs) = 3
    OBVIOUS
<1> HIDE DEF seqs
<1>2. PICK f : /\ IsFlattening(f, seqs, Len(seqs))
               /\ FlattenSeq(seqs) = f[Len(seqs)]
    <2>1. Len(seqs) \in Nat /\ Len(seqs) # 0
        BY <1>1
    <2> QED  BY <2>1, FlattenIsLast
<1>3. /\ f[1] = seqs[1] /\ f[2] = f[1] \o seqs[2] /\ f[3] = f[2] \o seqs[3]
    <2>1. IsFlattening(f, seqs, 3)
        BY <1>1, <1>2
    <2>2. \A i \in 1..3 :
              f[i] = IF i = 1 THEN seqs[i] ELSE f[i - 1] \o seqs[i]
        BY <2>1, FlatteningAt
    <2>3. f[1] = seqs[1] /\ f[2] = f[2 - 1] \o seqs[2] /\ f[3] = f[3 - 1] \o seqs[3]
        <3>1. 1 \in 1..3 /\ 2 \in 1..3 /\ 3 \in 1..3 /\ 2 # 1 /\ 3 # 1
            OBVIOUS
        <3> QED  BY <2>2, <3>1
    <2>4. 2 - 1 = 1 /\ 3 - 1 = 2
        OBVIOUS
    <2> QED  BY <2>3, <2>4
<1>4. seqs[1] = a /\ seqs[2] = b /\ seqs[3] = c
    BY DEF seqs
<1> QED  BY <1>1, <1>2, <1>3, <1>4 DEF seqs

\* A flattened sequence holds what the sequences it is made of hold.
LEMMA FlattenHolds ==
    ASSUME NEW T, NEW seqs \in Seq(Seq(T))
    PROVE  /\ FlattenSeq(seqs) \in Seq(T)
           /\ \A x : x \in ToSet(FlattenSeq(seqs)) <=>
                        \E i \in DOMAIN seqs : x \in ToSet(seqs[i])
<1>1. CASE seqs = << >>
    BY <1>1 DEF FlattenSeq, ToSet
<1>2. CASE seqs # << >>
    <2>1. Len(seqs) \in Nat \ {0} /\ DOMAIN seqs = 1..Len(seqs)
        BY <1>2
    <2>2. PICK f : /\ IsFlattening(f, seqs, Len(seqs))
                   /\ FlattenSeq(seqs) = f[Len(seqs)]
        BY <2>1, FlattenIsLast
    <2> DEFINE Holds(n) ==
                  /\ f[n] \in Seq(T)
                  /\ \A x : x \in ToSet(f[n]) <=>
                               \E i \in 1..n : x \in ToSet(seqs[i])
               S == {n \in Nat : n \in 1..Len(seqs) => Holds(n)}
    <2>3. 0 \in S
        OBVIOUS
    <2>4. ASSUME NEW n \in Nat, n \in S PROVE n + 1 \in S
        <3> SUFFICES ASSUME n + 1 \in 1..Len(seqs) PROVE Holds(n + 1)
            OBVIOUS
        <3>1. seqs[n + 1] \in Seq(T)
            BY <2>1
        <3>2. CASE n = 0
            BY <2>2, <3>1, <3>2 DEF IsFlattening
        <3>3. CASE n # 0
            <4>1. Holds(n)
                BY <2>4, <3>3
            <4>2. f[n + 1] = f[n] \o seqs[n + 1]
                <5>1. n + 1 \in 1..Len(seqs) /\ n + 1 # 1 /\ (n + 1) - 1 = n
                    BY <3>3
                <5> HIDE DEF S
                <5>2. f[n + 1] = IF n + 1 = 1 THEN seqs[n + 1]
                                 ELSE f[(n + 1) - 1] \o seqs[n + 1]
                    BY <2>1, <2>2, <5>1, FlatteningAt
                <5> QED  BY <5>1, <5>2
            <4>3. f[n + 1] \in Seq(T)
                BY <3>1, <4>1, <4>2
            <4>4. \A x : x \in ToSet(f[n + 1]) <=>
                            x \in ToSet(f[n]) \/ x \in ToSet(seqs[n + 1])
                BY <3>1, <4>1, <4>2, ToSetOfConcat
            <4>5. \A x : (\E i \in 1..(n + 1) : x \in ToSet(seqs[i])) <=>
                            \/ \E i \in 1..n : x \in ToSet(seqs[i])
                            \/ x \in ToSet(seqs[n + 1])
                BY <3>3
            <4> QED  BY <4>1, <4>3, <4>4, <4>5
        <3> QED  BY <3>2, <3>3
    <2> HIDE DEF S
    <2>5. \A n \in Nat : n \in S
        BY <2>3, <2>4, Induction
    <2>6. Len(seqs) \in S /\ Len(seqs) \in 1..Len(seqs)
        BY <2>1, <2>5
    <2>7. Holds(Len(seqs))
        BY <2>6 DEF S
    <2> QED  BY <2>1, <2>2, <2>7
<1> QED  BY <1>1, <1>2
=============================================================================
