--------------------------- MODULE CommitsProofs ---------------------------
(***************************************************************************)
(* What the three operations that create a commit return, and how the      *)
(* histories of commits extend each other.                                 *)
(***************************************************************************)
EXTENDS Commits, SequenceTheorems, TLAPS

LEMMA CommitParts ==
    ASSUME NEW c \in Commit
    PROVE  /\ c \in Seq(Patch)
           /\ Len(c) \in Nat /\ Len(c) >= 1
           /\ Last(c) \in Patch
           /\ Front(c) \in Seq(Patch)
           /\ Len(Front(c)) = Len(c) - 1
           /\ \A i \in 1..(Len(c) - 1) : Front(c)[i] = c[i]
  <1>1. c \in Seq(Patch) /\ c # << >>
    BY DEF Commit
  <1>2. Len(c) \in Nat /\ Len(c) >= 1
    BY <1>1, EmptySeq, LenProperties
  <1>3. \A i \in 1..Len(c) : c[i] \in Patch
    BY <1>1, ElementOfSeq
  <1>4. Last(c) \in Patch
    BY <1>2, <1>3 DEF Last
  <1>5. /\ Front(c) \in Seq(Patch)
        /\ Len(Front(c)) = Len(c) - 1
        /\ \A i \in 1..(Len(c) - 1) : Front(c)[i] = c[i]
    <2>1. \A i \in 1..(Len(c) - 1) : c[i] \in Patch
      BY <1>2, <1>3
    <2>2. 1 \in Int /\ Len(c) - 1 \in Int
      BY <1>2
    <2> DEFINE n == Len(c) - 1
               f == SubSeq(c, 1, n)
    <2> HIDE DEF n
    <2>3. /\ f \in Seq(Patch)
          /\ Len(f) = IF 1 <= n THEN n - 1 + 1 ELSE 0
          /\ \A i \in 1..(n - 1 + 1) : f[i] = c[1 + i - 1]
      BY <2>1, <2>2, SubSeqProperties DEF n
    <2> HIDE DEF f
    <2>4. n \in Nat
      BY <1>2 DEF n
    <2>5. Len(f) = n /\ \A i \in 1..n : f[i] = c[i]
      BY <2>3, <2>4
    <2>6. f = Front(c)
      BY DEF f, n, Front
    <2> QED
      BY <2>3, <2>5, <2>6 DEF n
  <1> QED
    BY <1>1, <1>2, <1>4, <1>5

LEMMA AppendIsCommit ==
    ASSUME NEW s \in Seq(Patch), NEW p \in Patch
    PROVE  Append(s, p) \in Commit
  BY AppendProperties DEF Commit

(***************************************************************************)
(* The operations return commits.                                          *)
(***************************************************************************)
LEMMA CherryPickIsCommit ==
    ASSUME NEW onto \in Commit, NEW cherry \in Commit
    PROVE  CherryPick(onto, cherry) \in Commit
  BY CommitParts, AppendIsCommit DEF CherryPick

LEMMA RewordTipIsCommit ==
    ASSUME NEW c \in Commit, NEW msg \in Message
    PROVE  RewordTip(c, msg) \in Commit
  <1>1. [Last(c) EXCEPT !.msg = msg] \in Patch
    BY CommitParts DEF Patch
  <1> QED
    BY <1>1, CommitParts, AppendIsCommit DEF RewordTip

LEMMA SquashIsCommit ==
    ASSUME NEW c \in Commit, NEW into \in Commit
    PROVE  Squash(c, into) \in Commit
  <1>1. [Last(into) EXCEPT !.changes = @ \cup Last(c).changes] \in Patch
    BY CommitParts DEF Patch
  <1> QED
    BY <1>1, CommitParts, AppendIsCommit DEF Squash

LEMMA TreeIsChanges ==
    ASSUME NEW c \in Commit \cup {NoCommit}
    PROVE  Tree(c) \subseteq Change
  <1>1. c \in Seq(Patch)
    BY EmptySeq DEF Commit, NoCommit
  <1>2. \A i \in DOMAIN c : c[i] \in Patch
    BY <1>1, ElementOfSeq, LenProperties
  <1> QED
    BY <1>2 DEF Tree, Patch

(***************************************************************************)
(* Histories.                                                              *)
(***************************************************************************)
LEMMA PrefixByElement ==
    ASSUME NEW s \in Seq(Patch), NEW t \in Seq(Patch)
    PROVE  IsPrefix(s, t) <=>
             /\ Len(s) <= Len(t)
             /\ \A i \in 1..Len(s) : s[i] = t[i]
  <1>1. Len(s) \in Nat /\ Len(t) \in Nat
    BY LenProperties
  <1>2. ASSUME Len(s) <= Len(t)
        PROVE  SubSeq(s, 1, Len(s)) = SubSeq(t, 1, Len(s)) <=>
                 \A i \in 1..Len(s) : s[i] = t[i]
    <2> DEFINE a == SubSeq(s, 1, Len(s))
               b == SubSeq(t, 1, Len(s))
    <2>1. /\ \A i \in 1..Len(s) : s[i] \in Patch
          /\ \A i \in 1..Len(s) : t[i] \in Patch
      BY <1>1, <1>2, ElementOfSeq
    <2>2. 1 \in Int /\ Len(s) \in Int
      BY <1>1
    <2>3. /\ a \in Seq(Patch)
          /\ Len(a) = IF 1 <= Len(s) THEN Len(s) - 1 + 1 ELSE 0
          /\ \A i \in 1..(Len(s) - 1 + 1) : a[i] = s[1 + i - 1]
      BY <2>1, <2>2, SubSeqProperties
    <2>4. /\ b \in Seq(Patch)
          /\ Len(b) = IF 1 <= Len(s) THEN Len(s) - 1 + 1 ELSE 0
          /\ \A i \in 1..(Len(s) - 1 + 1) : b[i] = t[1 + i - 1]
      BY <2>1, <2>2, SubSeqProperties
    <2>5. /\ Len(a) = Len(s) /\ \A i \in 1..Len(s) : a[i] = s[i]
          /\ Len(b) = Len(s) /\ \A i \in 1..Len(s) : b[i] = t[i]
      BY <1>1, <2>3, <2>4
    <2> HIDE DEF a, b
    <2>6. a = b <=> \A i \in 1..Len(s) : a[i] = b[i]
      BY <2>3, <2>4, <2>5, SeqEqual
    <2> QED
      BY <2>5, <2>6 DEF a, b
  <1> QED
    BY <1>2 DEF IsPrefix

LEMMA PrefixOfItself ==
    ASSUME NEW s \in Seq(Patch)
    PROVE  IsPrefix(s, s)
  BY PrefixByElement, LenProperties

LEMMA PrefixOfAppend ==
    ASSUME NEW s \in Seq(Patch), NEW t \in Seq(Patch), NEW p \in Patch,
           IsPrefix(s, t)
    PROVE  IsPrefix(s, Append(t, p))
  <1>1. Len(s) \in Nat /\ Len(t) \in Nat
    BY LenProperties
  <1>2. Len(s) <= Len(t) /\ \A i \in 1..Len(s) : s[i] = t[i]
    BY PrefixByElement
  <1>3. /\ Append(t, p) \in Seq(Patch)
        /\ Len(Append(t, p)) = Len(t) + 1
        /\ \A i \in 1..Len(t) : Append(t, p)[i] = t[i]
    BY AppendProperties
  <1>4. Len(s) <= Len(Append(t, p)) /\ \A i \in 1..Len(s) : s[i] = Append(t, p)[i]
    BY <1>1, <1>2, <1>3
  <1> QED
    BY <1>3, <1>4, PrefixByElement

\* A history that a commit contains is the commit or older than it.
LEMMA PrefixOfFront ==
    ASSUME NEW s \in Seq(Patch), NEW c \in Commit, IsPrefix(s, c), s # c
    PROVE  IsPrefix(s, Front(c))
  <1>1. Len(s) \in Nat /\ Len(c) \in Nat
    BY CommitParts, LenProperties
  <1>2. Len(s) <= Len(c) /\ \A i \in 1..Len(s) : s[i] = c[i]
    BY CommitParts, PrefixByElement
  <1>3. Len(s) # Len(c)
    BY <1>2, CommitParts, SeqEqual
  <1>4. /\ Len(s) <= Len(Front(c))
        /\ \A i \in 1..Len(s) : s[i] = Front(c)[i]
    BY <1>1, <1>2, <1>3, CommitParts
  <1> QED
    BY <1>4, CommitParts, PrefixByElement

\* A pick only ever extends what is under it.
LEMMA CherryPickExtends ==
    ASSUME NEW onto \in Commit, NEW cherry \in Commit,
           NEW s \in Seq(Patch), IsPrefix(s, onto)
    PROVE  IsPrefix(s, CherryPick(onto, cherry))
  <1>1. CASE Front(cherry) = onto
    <2>1. Len(s) \in Nat /\ Len(onto) \in Nat /\ Len(cherry) \in Nat
      BY CommitParts, LenProperties
    <2>2. Len(s) <= Len(onto) /\ \A i \in 1..Len(s) : s[i] = onto[i]
      BY CommitParts, PrefixByElement
    <2>3. /\ Len(onto) = Len(cherry) - 1
          /\ \A i \in 1..Len(onto) : onto[i] = cherry[i]
      BY <1>1, CommitParts
    <2>4. Len(s) <= Len(cherry) /\ \A i \in 1..Len(s) : s[i] = cherry[i]
      BY <2>1, <2>2, <2>3
    <2> QED
      BY <1>1, <2>4, CommitParts, PrefixByElement DEF CherryPick
  <1>2. CASE Front(cherry) # onto
    BY <1>2, CommitParts, PrefixOfAppend DEF CherryPick
  <1> QED
    BY <1>1, <1>2

\* reword and squash replace the tip and nothing under it.
LEMMA RewordTipExtends ==
    ASSUME NEW c \in Commit, NEW msg \in Message,
           NEW s \in Seq(Patch), IsPrefix(s, c), s # c
    PROVE  IsPrefix(s, RewordTip(c, msg))
  <1>1. [Last(c) EXCEPT !.msg = msg] \in Patch
    BY CommitParts DEF Patch
  <1> QED
    BY <1>1, CommitParts, PrefixOfFront, PrefixOfAppend DEF RewordTip

LEMMA SquashExtends ==
    ASSUME NEW c \in Commit, NEW into \in Commit,
           NEW s \in Seq(Patch), IsPrefix(s, into), s # into
    PROVE  IsPrefix(s, Squash(c, into))
  <1>1. [Last(into) EXCEPT !.changes = @ \cup Last(c).changes] \in Patch
    BY CommitParts DEF Patch
  <1> QED
    BY <1>1, CommitParts, PrefixOfFront, PrefixOfAppend DEF Squash

=============================================================================
