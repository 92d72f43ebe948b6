----------------------------- MODULE WalkProofs -----------------------------
(***************************************************************************)
(* next, prev and run, in every repository and for every sequence of       *)
(* requests: what the user has not committed is kept, run tries its        *)
(* commits from the bottom up and ends where and how it should, and prev   *)
(* stops at the nearest protected commit.                                  *)
(*                                                                         *)
(* What they look at of the repository is a number of records computed     *)
(* from its history.  The first lemmas show what those hold; the rest      *)
(* reasons from that, and never from how they are computed.                *)
(***************************************************************************)
EXTENDS Walk, DataLemmas, SequenceTheorems, FiniteSetTheorems

\* The phases in which a command may move HEAD.
Moving == {"step", "visit", "try", "pop"}

\* While a command that is no dry run may move HEAD, nothing of the user's is
\* in the working directory, so that a forced checkout has nothing to lose.
NothingInTheWay ==
    pc \in Moving /\ ~cmd.dry_run => content \subseteq {"litter"}

\* The entry of a command in progress is the newest on the stash.
EntryOnTop == pc # "idle" /\ entry # NoEntry => entry = Len(stash)

Types ==
    /\ mine \subseteq {"edit", "new"}
    /\ content \subseteq Content
    /\ stash \in Seq(SUBSET Tracked)

KeepInv == Types /\ EditsSurvive /\ NothingInTheWay /\ EntryOnTop

-----------------------------------------------------------------------------
\* An edit that was in the working directory or on the stash still is when
\* the working directory only gained.
LEMMA ContentGrows ==
    ASSUME EditsSurvive, UNCHANGED <<mine, stash>>,
           content \subseteq content'
    PROVE  EditsSurvive'
BY DEF EditsSurvive

\* A switch takes nothing of the user's away.
LEMMA SwitchKeeps ==
    ASSUME KeepInv, NEW to,
           SwitchTo(to) \/ SwitchFails(to),
           pc \in Moving, ~cmd.dry_run, UNCHANGED <<mine, stash>>
    PROVE  /\ content' \subseteq {"litter"}
           /\ EditsSurvive'
<1>1. content \subseteq {"litter"}
  BY DEF KeepInv, NothingInTheWay
<1>2. content' \subseteq {"litter"}
  BY <1>1 DEF SwitchTo, SwitchFails, Tracked
<1>3. mine \subseteq UNION {stash[i] : i \in DOMAIN stash}
  BY <1>1 DEF KeepInv, EditsSurvive, Types
<1>4. QED
  BY <1>2, <1>3 DEF EditsSurvive

THEOREM KeepInit == Init => KeepInv
<1> SUFFICES ASSUME Init PROVE KeepInv
  OBVIOUS
<1>1. /\ mine \subseteq {"edit", "new"} /\ content = mine
      /\ stash = << >>
  BY DEF Init
<1>2. Types /\ EditsSurvive
  BY <1>1 DEF Types, EditsSurvive, Content, Tracked
<1>3. QED
  BY <1>2 DEF Init, KeepInv, NothingInTheWay, EntryOnTop, Moving

\* Leaving a command, or moving on in it without touching the work.
LEMMA WorkUntouched ==
    ASSUME KeepInv, UNCHANGED <<mine, content, stash, entry>>,
           pc' = "idle"
              \/ /\ pc' \in Moving /\ pc \in Moving
                 /\ UNCHANGED cmd
    PROVE  KeepInv'
<1>1. Types' /\ EditsSurvive'
  BY DEF KeepInv, Types, EditsSurvive
<1>2. NothingInTheWay' /\ EntryOnTop'
  BY DEF KeepInv, NothingInTheWay, EntryOnTop, Moving
<1>3. QED
  BY <1>1, <1>2 DEF KeepInv

\* A command switches and goes on, or ends.
LEMMA SwitchPreserves ==
    ASSUME KeepInv, NEW to,
           SwitchTo(to) \/ SwitchFails(to),
           pc \in Moving, ~cmd.dry_run, pc' \in Moving \cup {"idle"},
           UNCHANGED <<mine, stash, entry, cmd>>
    PROVE  KeepInv'
<1>1. content' \subseteq {"litter"} /\ EditsSurvive'
  BY SwitchKeeps
<1>2. Types'
  BY <1>1 DEF KeepInv, Types, Content, Tracked
<1>3. NothingInTheWay' /\ EntryOnTop'
  BY <1>1 DEF KeepInv, NothingInTheWay, EntryOnTop, Moving
<1>4. QED
  BY <1>1, <1>2, <1>3 DEF KeepInv

\* ops::switch, and the end of the command.
LEMMA ExitPreserves ==
    ASSUME KeepInv, NEW c, NEW code, SwitchAndExit(c, code), pc \in Moving,
           UNCHANGED <<mine, stash, entry, cmd>>
    PROVE  KeepInv'
<1>1. pc' = "idle"
  BY DEF SwitchAndExit, Exit, Go
<1>2. CASE UNCHANGED content
  BY <1>1, <1>2, WorkUntouched
<1>3. CASE /\ ~cmd.dry_run
           /\ SwitchTo(Destination(c)) \/ SwitchFails(Destination(c))
  BY <1>1, <1>3, SwitchPreserves
<1>4. QED
  BY <1>2, <1>3 DEF SwitchAndExit

-----------------------------------------------------------------------------
LEMMA StashPreserves == KeepInv /\ Stash => KeepInv'
<1> SUFFICES ASSUME KeepInv, Stash PROVE KeepInv'
  OBVIOUS
<1>1. pc' = "check" /\ mine' = mine
  BY DEF Stash, Go, given
<1>2. NothingInTheWay'
  BY <1>1 DEF NothingInTheWay, Moving
<1>3. CASE UNCHANGED <<stash, content, entry>>
  <2>1. pc = "stash"
    BY DEF Stash, At
  <2>2. QED
    BY <1>1, <1>2, <1>3, <2>1 DEF KeepInv, Types, EditsSurvive, EntryOnTop
<1>4. CASE /\ stash' = Append(stash, content \cap Tracked)
           /\ content' = content \ Tracked
           /\ entry' = Len(stash')
  <2>1. stash \in Seq(SUBSET Tracked) /\ content \cap Tracked \in SUBSET Tracked
    BY DEF KeepInv, Types
  <2>2. /\ stash' \in Seq(SUBSET Tracked) /\ Len(stash') = Len(stash) + 1
        /\ DOMAIN stash' = 1..(Len(stash) + 1)
        /\ DOMAIN stash = 1..Len(stash) /\ Len(stash) \in Nat
    BY <1>4, <2>1
  <2>3. /\ \A i \in DOMAIN stash : i \in DOMAIN stash' /\ stash'[i] = stash[i]
        /\ stash'[Len(stash) + 1] = content \cap Tracked
    BY <1>4, <2>1, <2>2
  <2>4. UNION {stash[i] : i \in DOMAIN stash}
            \subseteq UNION {stash'[i] : i \in DOMAIN stash'}
    BY <2>3
  <2>5. content \cap Tracked \subseteq UNION {stash'[i] : i \in DOMAIN stash'}
    BY <2>2, <2>3
  <2>6. content \subseteq content' \cup (content \cap Tracked)
    BY <1>4
  <2>7. EditsSurvive'
    BY <1>1, <2>4, <2>5, <2>6 DEF KeepInv, EditsSurvive
  <2>8. Types'
    BY <1>1, <1>4, <2>2 DEF KeepInv, Types
  <2>9. QED
    BY <1>2, <1>4, <2>7, <2>8 DEF KeepInv, EntryOnTop
<1>5. QED
  BY <1>3, <1>4 DEF Stash

LEMMA PlanPreserves == KeepInv /\ Plan => KeepInv'
<1> SUFFICES ASSUME KeepInv, Plan PROVE KeepInv'
  OBVIOUS
<1>1. UNCHANGED <<mine, content, stash, entry, cmd>>
  BY DEF Plan, given, place, begun
<1>2. pc = "check" /\ pc' \in {"step", "visit", "idle"}
  BY DEF Plan, At, Go, Exit
<1>3. ~cmd.dry_run => content = {}
  BY DEF Plan, IsDirty
<1>4. Types' /\ EditsSurvive'
  BY <1>1 DEF KeepInv, Types, EditsSurvive
<1>5. NothingInTheWay'
  BY <1>1, <1>3 DEF NothingInTheWay
<1>6. EntryOnTop'
  BY <1>1, <1>2 DEF KeepInv, EntryOnTop
<1>7. QED
  BY <1>4, <1>5, <1>6 DEF KeepInv

LEMMA VisitPreserves == KeepInv /\ Visit => KeepInv'
<1> SUFFICES ASSUME KeepInv, Visit PROVE KeepInv'
  OBVIOUS
<1>1. /\ UNCHANGED <<mine, stash, entry, cmd>>
      /\ pc = "visit" /\ pc' \in {"try", "idle"}
  BY DEF Visit, given, begun, At, Go, Exit
<1>2. CASE UNCHANGED content /\ pc' = "try"
  BY <1>1, <1>2, WorkUntouched DEF Moving
<1>3. CASE /\ ~cmd.dry_run
           /\ \/ SwitchTo(OnCommit(current'))
              \/ SwitchFails(OnCommit(current'))
  BY <1>1, <1>3, SwitchPreserves DEF Moving
<1>4. QED
  BY <1>2, <1>3 DEF Visit, Go

LEMMA GoHomePreserves == KeepInv /\ GoHome => KeepInv'
<1> SUFFICES ASSUME KeepInv, GoHome PROVE KeepInv'
  OBVIOUS
<1>1. /\ UNCHANGED <<mine, stash, entry, cmd>>
      /\ pc = "visit" /\ pc' \in {"pop", "idle"}
  BY DEF GoHome, given, begun, At, Go, Exit
<1>2. CASE UNCHANGED content
  BY <1>1, <1>2, WorkUntouched DEF Moving
<1>3. CASE ~cmd.dry_run /\ (SwitchTo(Home) \/ SwitchFails(Home))
  BY <1>1, <1>3, SwitchPreserves DEF Moving
<1>4. QED
  BY <1>2, <1>3 DEF GoHome

LEMMA TryPreserves == KeepInv /\ Try => KeepInv'
<1> SUFFICES ASSUME KeepInv, Try PROVE KeepInv'
  OBVIOUS
<1>1. /\ UNCHANGED <<mine, stash, entry, cmd>>
      /\ pc = "try" /\ pc' = "visit"
  BY DEF Try, given, begun, At, Go
<1>2. content' = content \/ content' = content \cup {"litter"}
  BY DEF Try
<1>3. EditsSurvive'
  BY <1>1, <1>2, ContentGrows DEF KeepInv
<1>4. Types'
  BY <1>1, <1>2 DEF KeepInv, Types, Content, Tracked
<1>5. NothingInTheWay' /\ EntryOnTop'
  BY <1>1, <1>2 DEF KeepInv, NothingInTheWay, EntryOnTop, Moving
<1>6. QED
  BY <1>3, <1>4, <1>5 DEF KeepInv

LEMMA PopPreserves == KeepInv /\ Pop => KeepInv'
<1> SUFFICES ASSUME KeepInv, Pop PROVE KeepInv'
  OBVIOUS
<1>1. mine' = mine /\ pc = "pop" /\ pc' = "idle"
  BY DEF Pop, given, At, Go, Exit
<1>2. NothingInTheWay' /\ EntryOnTop'
  BY <1>1 DEF NothingInTheWay, EntryOnTop, Moving
<1>3. CASE UNCHANGED <<stash, content>>
  BY <1>1, <1>2, <1>3 DEF KeepInv, Types, EditsSurvive
<1>4. CASE /\ Pops
           /\ stash' = SubSeq(stash, 1, entry - 1)
           /\ content' = content \cup stash[entry]
  <2>1. stash \in Seq(SUBSET Tracked) /\ Len(stash) \in Nat
    BY DEF KeepInv, Types
  <2>2. entry = Len(stash) /\ entry \in DOMAIN stash
    BY <1>1, <1>4, <2>1 DEF KeepInv, EntryOnTop, Pops, NoEntry
  <2>3. stash[entry] \in SUBSET Tracked
    BY <2>1, <2>2
  <2>4. /\ stash' \in Seq(SUBSET Tracked)
        /\ DOMAIN stash' = 1..(entry - 1)
        /\ \A i \in 1..(entry - 1) : stash'[i] = stash[i]
    BY <1>4, <2>1, <2>2
  <2>5. DOMAIN stash = (1..(entry - 1)) \cup {entry}
    BY <2>1, <2>2
  <2>6. UNION {stash[i] : i \in DOMAIN stash} \subseteq
            (UNION {stash'[i] : i \in DOMAIN stash'}) \cup stash[entry]
    BY <2>4, <2>5
  <2>7. EditsSurvive'
    BY <1>1, <1>4, <2>6 DEF KeepInv, EditsSurvive
  <2>8. Types'
    BY <1>1, <1>4, <2>3, <2>4 DEF KeepInv, Types, Content
  <2>9. QED
    BY <1>2, <2>7, <2>8 DEF KeepInv
<1>5. QED
  BY <1>3, <1>4 DEF Pop

-----------------------------------------------------------------------------
THEOREM KeepNext == KeepInv /\ [Next]_vars => KeepInv'
<1> SUFFICES ASSUME KeepInv, [Next]_vars PROVE KeepInv'
  OBVIOUS
<1>1. CASE Begin
  <2>1. /\ UNCHANGED <<mine, content, stash>> /\ entry' = NoEntry
        /\ pc' = "stash"
    BY <1>1 DEF Begin, given, place, Go
  <2>2. QED
    BY <2>1 DEF KeepInv, Types, EditsSurvive, NothingInTheWay, EntryOnTop,
                Moving
<1>2. CASE RefuseBusy \/ RefuseDirty
  BY <1>2, WorkUntouched
     DEF RefuseBusy, RefuseDirty, given, place, begun, Exit, Go
<1>3. CASE Stash
  BY <1>3, StashPreserves
<1>4. CASE Plan
  BY <1>4, PlanPreserves
<1>5. CASE Step
  <2>1. UNCHANGED <<mine, content, stash, entry, cmd, pc>> /\ pc = "step"
    BY <1>5 DEF Step, given, place, begun, At
  <2>2. QED
    BY <2>1, WorkUntouched DEF Moving
<1>6. CASE Arrive
  <2>1. UNCHANGED <<mine, stash, entry, cmd>> /\ pc = "step"
    BY <1>6 DEF Arrive, given, begun, At
  <2>2. CASE UNCHANGED content /\ pc' = "idle"
    BY <2>1, <2>2, WorkUntouched
  <2>3. CASE SwitchAndExit(current, "ok")
    BY <2>1, <2>3, ExitPreserves DEF Moving
  <2>4. QED
    BY <1>6, <2>2, <2>3 DEF Arrive, Exit, Go
<1>7. CASE Visit
  BY <1>7, VisitPreserves
<1>8. CASE Try
  BY <1>8, TryPreserves
<1>9. CASE StayAtFailure
  <2>1. UNCHANGED <<mine, stash, entry, cmd>> /\ pc = "visit"
    BY <1>9 DEF StayAtFailure, given, begun, At
  <2>2. SwitchAndExit(FirstFailure(tried), ExitCode)
    BY <1>9 DEF StayAtFailure
  <2>3. QED
    BY <2>1, <2>2, ExitPreserves DEF Moving
<1>10. CASE GoHome
  BY <1>10, GoHomePreserves
<1>11. CASE Pop
  BY <1>11, PopPreserves
<1>12. CASE Quit \/ UNCHANGED vars
  <2>1. UNCHANGED <<mine, content, stash, entry, cmd, pc>>
    BY <1>12 DEF Quit, vars, given, place, begun
  <2>2. QED
    BY <2>1 DEF KeepInv, Types, EditsSurvive, NothingInTheWay, EntryOnTop
<1>13. QED
  BY <1>1, <1>2, <1>3, <1>4, <1>5, <1>6, <1>7, <1>8, <1>9, <1>10, <1>11,
     <1>12 DEF Next

\* Whatever next, prev and run do, and wherever git fails or the user stops
\* them, what was not committed is in the working directory or on the stash.
THEOREM WalkKeepsWork == Spec => []EditsSurvive
<1>1. KeepInv => EditsSurvive
  BY DEF KeepInv
<1>2. QED
  BY <1>1, KeepInit, KeepNext, PTL DEF Spec

-----------------------------------------------------------------------------
(***************************************************************************)
(* Histories.  What is shown of all commits is shown of each, given that   *)
(* it holds of its parents: no commit comes before itself.                 *)
(***************************************************************************)
\* The commits C, the parents of each and how deep each lies.
IsHistory(C, P, depth) ==
    /\ depth \in [C -> Nat]
    /\ \A c \in C : P[c] \subseteq C /\ \A p \in P[c] : depth[p] < depth[c]

LEMMA ParentsFirst ==
    ASSUME NEW C, NEW P, NEW depth, IsHistory(C, P, depth), NEW G,
           \A c \in C : P[c] \subseteq G => c \in G
    PROVE  C \subseteq G
<1> DEFINE S == {n \in Nat : \A c \in C : depth[c] < n => c \in G}
<1>1. \A c \in C : depth[c] \in Nat
    BY DEF IsHistory
<1>2. 0 \in S
    BY <1>1
<1>3. ASSUME NEW n \in Nat, n \in S
      PROVE  n + 1 \in S
    <2> SUFFICES ASSUME NEW c \in C, depth[c] < n + 1
                 PROVE  c \in G
        OBVIOUS
    <2>1. ASSUME NEW p \in P[c]
          PROVE  p \in G
        <3>1. p \in C /\ depth[p] < depth[c]
            BY DEF IsHistory
        <3>2. depth[p] < n
            BY <1>1, <3>1
        <3> QED  BY <1>3, <3>1, <3>2
    <2> QED  BY <2>1
<1> HIDE DEF S
<1>4. \A n \in Nat : n \in S
    BY <1>2, <1>3, Induction
<1> QED
    <2> SUFFICES ASSUME NEW c \in C
                 PROVE  c \in G
        OBVIOUS
    <2>1. depth[c] + 1 \in S
        BY <1>1, <1>4
    <2> QED  BY <1>1, <2>1 DEF S

\* What each commit has below it, itself included.
AreHistories(C, P, H) == \A c \in C : H[c] = {c} \cup UNION {H[p] : p \in P[c]}

Unfolds(C, P, H) == H = [c \in C |-> {c} \cup UNION {H[p] : p \in P[c]}]

\* What is in every set that holds c, and the parents of all it holds.
LEMMA HistoryExists ==
    ASSUME NEW C, NEW P, \A c \in C : P[c] \subseteq C
    PROVE  \E H : Unfolds(C, P, H)
<1> DEFINE Closed(S) == \A d \in S : P[d] \subseteq S
           H == [c \in C |-> {d \in C : \A S \in SUBSET C :
                                    c \in S /\ Closed(S) => d \in S}]
<1>1. ASSUME NEW c \in C
      PROVE  H[c] = {c} \cup UNION {H[p] : p \in P[c]}
    <2> DEFINE T == {c} \cup UNION {H[p] : p \in P[c]}
    <2>1. T \subseteq H[c]
        <3>1. c \in H[c]
            OBVIOUS
        <3>2. ASSUME NEW p \in P[c], NEW d \in H[p]
              PROVE  d \in H[c]
            <4>1. p \in C
                OBVIOUS
            <4> QED  BY <3>2, <4>1
        <3> HIDE DEF H
        <3> QED  BY <3>1, <3>2
    <2>2. T \subseteq C
        OBVIOUS
    <2>3. Closed(T)
        <3> SUFFICES ASSUME NEW d \in T, NEW e \in P[d]
                     PROVE  e \in T
            OBVIOUS
        <3>1. CASE d = c
            <4>1. e \in P[c] /\ e \in H[e]
                BY <3>1
            <4> HIDE DEF H, Closed
            <4> QED  BY <4>1
        <3>2. ASSUME NEW p \in P[c], d \in H[p]
              PROVE  e \in T
            <4>1. p \in C /\ d \in C /\ e \in C
                BY <3>2
            <4>2. ASSUME NEW S \in SUBSET C, p \in S, Closed(S)
                  PROVE  e \in S
                <5>1. d \in S
                    BY <3>2, <4>1, <4>2
                <5> QED  BY <4>2, <5>1
            <4>3. e \in H[p]
                BY <4>1, <4>2
            <4> QED  BY <4>3
        <3> QED  BY <3>1, <3>2
    <2>4. H[c] \subseteq T
        <3>1. c \in T
            OBVIOUS
        <3> HIDE DEF T, Closed
        <3> QED  BY <2>2, <2>3, <3>1
    <2> QED  BY <2>1, <2>4
<1>2. H = [c \in C |-> {c} \cup UNION {H[p] : p \in P[c]}]
    <2> DEFINE K == [c \in C |-> {c} \cup UNION {H[p] : p \in P[c]}]
    <2>1. \A c \in C : H[c] = K[c]
        BY <1>1
    <2> QED  BY <2>1
<1> QED  BY <1>2 DEF Unfolds

\* Of a history: a commit is in its own, what is in it brings its own along, and is
\* less deep.
LEMMA HistoryHolds ==
    ASSUME NEW C, NEW P, NEW depth, IsHistory(C, P, depth),
           NEW H, AreHistories(C, P, H)
    PROVE  \A c \in C : /\ c \in H[c] /\ H[c] \subseteq C
                        /\ \A d \in H[c] : H[d] \subseteq H[c]
                        /\ \A d \in H[c] : d = c \/ depth[d] < depth[c]
<1> DEFINE Good(c) == /\ c \in H[c] /\ H[c] \subseteq C
                      /\ \A d \in H[c] : H[d] \subseteq H[c]
                      /\ \A d \in H[c] : d = c \/ depth[d] < depth[c]
           G == {c \in C : Good(c)}
<1>1. ASSUME NEW c \in C, P[c] \subseteq G
      PROVE  c \in G
    <2>1. H[c] = {c} \cup UNION {H[p] : p \in P[c]}
        BY DEF AreHistories
    <2>2. \A p \in P[c] : p \in C /\ Good(p) /\ depth[p] < depth[c]
        BY <1>1 DEF IsHistory
    <2>3. c \in H[c] /\ H[c] \subseteq C
        BY <2>1, <2>2
    <2>4. ASSUME NEW d \in H[c], d # c
          PROVE  H[d] \subseteq H[c] /\ depth[d] < depth[c]
        <3>1. PICK p \in P[c] : d \in H[p]
            BY <2>1, <2>4
        <3>2. Good(p) /\ depth[p] < depth[c]
            BY <2>2
        <3>3. H[p] \subseteq H[c]
            BY <2>1
        <3>4. H[d] \subseteq H[c]
            BY <3>1, <3>2, <3>3
        <3>5. depth[d] < depth[c]
            <4>1. p \in C /\ c \in C /\ d \in C
                BY <2>2, <2>3, <2>4
            <4>2. depth[p] \in Nat /\ depth[c] \in Nat /\ depth[d] \in Nat
                BY <4>1 DEF IsHistory
            <4>3. d = p \/ depth[d] < depth[p]
                BY <3>1, <3>2
            <4> QED  BY <3>2, <4>2, <4>3
        <3> QED  BY <3>4, <3>5
    <2> QED  BY <2>3, <2>4
<1>2. C \subseteq G
    <2> HIDE DEF G
    <2> QED  BY <1>1, ParentsFirst
<1> QED  BY <1>2

\* Without merges a history is a line: of two commits in it one is in the other's.
LEMMA LinesAreLines ==
    ASSUME NEW C, NEW P, NEW depth, IsHistory(C, P, depth),
           NEW H, AreHistories(C, P, H),
           \A c \in C : \A p, q \in P[c] : p = q
    PROVE  \A c \in C : \A d, e \in H[c] : d \in H[e] \/ e \in H[d]
<1> DEFINE Good(c) == \A d, e \in H[c] : d \in H[e] \/ e \in H[d]
           G == {c \in C : Good(c)}
<1>1. ASSUME NEW c \in C, P[c] \subseteq G
      PROVE  c \in G
    <2>1. H[c] = {c} \cup UNION {H[p] : p \in P[c]}
        BY DEF AreHistories
    <2> SUFFICES ASSUME NEW d \in H[c], NEW e \in H[c]
                 PROVE  d \in H[e] \/ e \in H[d]
        OBVIOUS
    <2>2. CASE d = c \/ e = c
        BY <2>2
    <2>3. CASE d # c /\ e # c
        <3>1. PICK p \in P[c] : d \in H[p]
            BY <2>1, <2>3
        <3>2. PICK q \in P[c] : e \in H[q]
            BY <2>1, <2>3
        <3>3. p = q /\ Good(p)
            BY <1>1
        <3> QED  BY <3>1, <3>2, <3>3
    <2> QED  BY <2>2, <2>3
<1>2. C \subseteq G
    <2> HIDE DEF G
    <2> QED  BY <1>1, ParentsFirst
<1> QED  BY <1>2

\* The same of the commits of a repository: they are ordered by their histories.
IsOrdered(commits, parents, H) ==
    /\ \A c \in commits : /\ c \in H[c] /\ H[c] \subseteq commits
                          /\ H[c] = {c} \cup UNION {H[p] : p \in Range(parents[c])}
                          /\ Range(parents[c]) \subseteq commits
                          /\ \A d \in H[c] : H[d] \subseteq H[c]
                          /\ \A d \in H[c] : c \in H[d] => d = c
    /\ (\A c \in commits : Len(parents[c]) <= 1) =>
            \A c \in commits : \A d, e \in H[c] : d \in H[e] \/ e \in H[d]

LEMMA ParentsAreThere ==
    ASSUME NEW r, IsRepository(r)
    PROVE  \E depth :
              /\ IsHistory(DOMAIN r.parents,
                           [c \in DOMAIN r.parents |-> Range(r.parents[c])], depth)
              /\ \A c \in DOMAIN r.parents :
                    depth[c] \in 1..Cardinality(DOMAIN r.parents)
<1> DEFINE C == DOMAIN r.parents
           P == [c \in C |-> Range(r.parents[c])]
<1>1. \A c \in C : r.parents[c] \in Seq(C)
    BY DEF IsRepository
<1>2. PICK depth \in [C -> 1..Cardinality(C)] :
          \A c \in C : \A p \in Range(r.parents[c]) : depth[p] < depth[c]
    BY DEF IsRepository
<1>3. Cardinality(C) \in Nat
    BY FS_CardinalityType DEF IsRepository
<1>4. \A c \in C : P[c] = Range(r.parents[c]) /\ P[c] \subseteq C
    <2> SUFFICES ASSUME NEW c \in C
                 PROVE  Range(r.parents[c]) \subseteq C
        OBVIOUS
    <2>1. r.parents[c] \in [1..Len(r.parents[c]) -> C]
        BY <1>1
    <2> QED  BY <2>1 DEF Range
<1> HIDE DEF C, P
<1>5. IsHistory(C, P, depth)
    BY <1>2, <1>3, <1>4 DEF IsHistory
<1>6. \A c \in C : depth[c] \in 1..Cardinality(C)
    BY <1>2
<1> QED  BY <1>5, <1>6 DEF C, P

LEMMA HistoriesAreOrdered ==
    ASSUME NEW r, IsRepository(r)
    PROVE  IsOrdered(DOMAIN r.parents, r.parents, Histories(r))
<1> DEFINE C == DOMAIN r.parents
           P == [c \in C |-> Range(r.parents[c])]
           H == Histories(r)
<1>1. PICK depth : IsHistory(C, P, depth)
    BY ParentsAreThere
<1>2. \A c \in C : P[c] = Range(r.parents[c]) /\ P[c] \subseteq C
    <2> HIDE DEF C
    <2> QED  BY <1>1 DEF IsHistory
<1>3. H = [c \in C |-> {c} \cup UNION {H[p] : p \in Range(r.parents[c])}]
    <2>1. \E G : Unfolds(C, P, G)
        <3> HIDE DEF C, P
        <3> QED  BY <1>2, HistoryExists
    <2>2. PICK G : Unfolds(C, P, G)
        BY <2>1
    <2>3. G = [c \in C |-> {c} \cup UNION {G[p] : p \in Range(r.parents[c])}]
        BY <1>2, <2>2 DEF Unfolds
    <2> QED  BY <2>3 DEF Histories
<1> HIDE DEF H
<1>4. AreHistories(C, P, H)
    BY <1>2, <1>3 DEF AreHistories
<1> HIDE DEF C, P
<1>5. \A c \in C : /\ c \in H[c] /\ H[c] \subseteq C
                   /\ \A d \in H[c] : H[d] \subseteq H[c]
                   /\ \A d \in H[c] : d = c \/ depth[d] < depth[c]
    BY <1>1, <1>4, HistoryHolds
<1>6. \A c \in C : \A d \in H[c] : c \in H[d] => d = c
    <2> SUFFICES ASSUME NEW c \in C, NEW d \in H[c], c \in H[d], d # c
                 PROVE  FALSE
        OBVIOUS
    <2>1. d \in C /\ depth[d] < depth[c] /\ depth[c] < depth[d]
        BY <1>5
    <2> QED  BY <1>1, <2>1 DEF IsHistory
<1>7. ASSUME \A c \in C : Len(r.parents[c]) <= 1
      PROVE  \A c \in C : \A d, e \in H[c] : d \in H[e] \/ e \in H[d]
    <2>1. \A c \in C : \A p, q \in P[c] : p = q
        <3> SUFFICES ASSUME NEW c \in C, NEW p \in Range(r.parents[c]),
                            NEW q \in Range(r.parents[c])
                     PROVE  p = q
            BY <1>2
        <3>1. r.parents[c] \in Seq(C) /\ Len(r.parents[c]) <= 1
            BY <1>7 DEF IsRepository, C
        <3>2. DOMAIN r.parents[c] = 1..Len(r.parents[c]) /\ Len(r.parents[c]) \in Nat
            BY <3>1
        <3>3. PICK i \in DOMAIN r.parents[c] : p = r.parents[c][i]
            BY DEF Range
        <3>4. PICK j \in DOMAIN r.parents[c] : q = r.parents[c][j]
            BY DEF Range
        <3>5. i = 1 /\ j = 1
            BY <3>1, <3>2
        <3> QED  BY <3>3, <3>4, <3>5
    <2> QED  BY <1>1, <1>4, <2>1, LinesAreLines
<1>8. \A c \in C : /\ H[c] = {c} \cup UNION {H[p] : p \in Range(r.parents[c])}
                   /\ Range(r.parents[c]) \subseteq C
    BY <1>2, <1>4 DEF AreHistories
<1>9. IsOrdered(C, r.parents, H)
    BY <1>5, <1>6, <1>7, <1>8 DEF IsOrdered
<1> QED  BY <1>9 DEF C, H

\* A merge base is a commit, or none.
LEMMA MergeBaseIsThere ==
    ASSUME NEW r, IsRepository(r), NEW one, NEW two \in DOMAIN r.parents
    PROVE  MergeBase(r, one, two) \in (DOMAIN r.parents) \cup {None}
<1> DEFINE C == DOMAIN r.parents
           P == [c \in C |-> Range(r.parents[c])]
           H == Histories(r)
           N == Cardinality(C)
           common == H[one] \cap H[two]
           best == {c \in common : \A d \in common : c \in H[d] => d = c}
<1>1. PICK depth : IsHistory(C, P, depth) /\ \A c \in C : depth[c] \in 1..N
    BY ParentsAreThere
<1>2. \A c \in C : P[c] = Range(r.parents[c]) /\ P[c] \subseteq C
    <2> HIDE DEF C
    <2> QED  BY <1>1 DEF IsHistory
<1>3. IsOrdered(C, r.parents, H)
    BY HistoriesAreOrdered
<1>4. N \in Nat
    BY FS_CardinalityType DEF IsRepository
<1>5. MergeBase(r, one, two) = IF common = {} THEN None ELSE CHOOSE c \in best : TRUE
    BY DEF MergeBase
<1> HIDE DEF C, P, H, N
<1>6. two \in C
    BY DEF C
<1>7. common \subseteq C
    BY <1>3, <1>6 DEF IsOrdered
<1>8. AreHistories(C, P, H)
    BY <1>2, <1>3 DEF AreHistories, IsOrdered
<1>9. \A c \in C : \A d \in H[c] : d = c \/ depth[d] < depth[c]
    BY <1>1, <1>8, HistoryHolds
<1> HIDE DEF common
<1>10. ASSUME common # {}
       PROVE  \E c \in common : \A d \in common : c \in H[d] => d = c
    <2> DEFINE heights == {N - depth[c] : c \in common}
    <2>1. heights \in SUBSET Nat /\ heights # {}
        BY <1>1, <1>4, <1>7, <1>10
    <2> HIDE DEF heights
    <2>2. PICK least \in heights : \A h \in heights : least <= h
        BY <2>1, LeastNumber
    <2>3. PICK c \in common : least = N - depth[c]
        BY DEF heights
    <2>4. \A d \in common : depth[d] <= depth[c]
        <3> SUFFICES ASSUME NEW d \in common
                     PROVE  depth[d] <= depth[c]
            OBVIOUS
        <3>1. N - depth[c] <= N - depth[d]
            BY <2>2, <2>3 DEF heights
        <3>2. depth[c] \in 1..N /\ depth[d] \in 1..N
            BY <1>1, <1>7
        <3> QED  BY <1>4, <3>1, <3>2
    <2>5. ASSUME NEW d \in common, c \in H[d], d # c
          PROVE  FALSE
        <3>1. c \in C /\ d \in C /\ depth[c] < depth[d] /\ depth[d] <= depth[c]
            BY <1>7, <1>9, <2>4, <2>5
        <3>2. depth[c] \in Nat /\ depth[d] \in Nat
            BY <1>1, <3>1 DEF IsHistory
        <3> QED  BY <3>1, <3>2
    <2> QED  BY <2>5
<1>11. common # {} => (CHOOSE c \in best : TRUE) \in best
    <2> SUFFICES ASSUME common # {}
                 PROVE  \E c \in best : TRUE
        OBVIOUS
    <2> QED  BY <1>10
<1> QED
    <2>1. common # {} => MergeBase(r, one, two) \in C
        BY <1>5, <1>7, <1>11
    <2>2. common = {} => MergeBase(r, one, two) = None
        BY <1>5
    <2> QED  BY <2>1, <2>2 DEF C

-----------------------------------------------------------------------------
(***************************************************************************)
(* Where everything is.                                                    *)
(***************************************************************************)
Commits == DOMAIN repo.parents
Placed(h) == h.at \in Commits /\ (h = OnCommit(h.at) \/ h = OnBranch(h.on))
Results == [at : Commits, ok : BOOLEAN]

\* HEAD, the cursor, the graph and the queue are at commits of the repository, HEAD
\* in one of the two ways it can be, and a command knows the branches.
PlacesInv ==
    /\ repo \in Repo
    /\ Placed(head) /\ Placed(home)
    /\ current \in Commits /\ graph.commits \subseteq Commits
    /\ queue \in Seq(Commits) /\ tried \in Seq(Results)
    /\ branches \in {{}, FromRepo(repo)}
    /\ pc # "idle" \/ log # << >> => branches = FromRepo(repo)

\* A branch is at a commit, and a local one where the repository has it.
LEMMA BranchesAreThere ==
    ASSUME NEW r, IsRepository(r), NEW b \in FromRepo(r)
    PROVE  /\ b.id \in DOMAIN r.parents /\ b.kind \in Kind /\ b.name \in Nat
           /\ ~b.is_remote => b.id = r.local[b.name]
<1>1. PICK n \in DOMAIN r.local :
          \/ \E kind \in Kind, pull \in {None, r.remote[n]} :
                b = Branch(n, FALSE, r.local[n], kind, pull)
          \/ /\ n \in DOMAIN r.remote
             /\ b = Branch(n, TRUE, r.remote[n], "protected", None)
    BY DEF FromRepo, Kind
<1>2. n \in Nat /\ r.local[n] \in DOMAIN r.parents
    BY DEF IsRepository
<1>3. n \in DOMAIN r.remote => r.remote[n] \in DOMAIN r.parents
    BY DEF IsRepository
<1> QED  BY <1>1, <1>2, <1>3 DEF Branch, Kind

\* There is a best branch: by its kind, and then by its name.
LEMMA BestIsAmongThem ==
    ASSUME NEW c, HasBranch(c), repo \in Repo, branches = FromRepo(repo)
    PROVE  BestBranch(c) \in BranchesAt(branches, c)
<1> DEFINE here == BranchesAt(branches, c)
           ranks == {KindRank[b.kind] : b \in here}
<1>1. IsRepository(repo)
    BY RepositoriesAre
<1>2. \A b \in here : b.name \in Nat /\ b.kind \in Kind
    BY <1>1, BranchesAreThere DEF BranchesAt
<1>3. \A k \in Kind : KindRank[k] \in Nat
    BY DEF Kind, KindRank
<1>4. here # {}
    BY DEF HasBranch
<1> HIDE DEF here
<1>5. ranks \in SUBSET Nat /\ ranks # {}
    BY <1>2, <1>3, <1>4
<1>6. PICK k \in ranks : \A j \in ranks : k <= j
    BY <1>5, LeastNumber
<1> DEFINE names == {b.name : b \in {a \in here : KindRank[a.kind] = k}}
<1>7. names \in SUBSET Nat /\ names # {}
    BY <1>2, <1>6
<1>8. PICK n \in names : \A m \in names : n <= m
    BY <1>7, LeastNumber
<1>9. PICK b \in here : KindRank[b.kind] = k /\ b.name = n
    BY <1>8
<1>10. ASSUME NEW o \in here
       PROVE  \/ KindRank[b.kind] < KindRank[o.kind]
              \/ KindRank[b.kind] = KindRank[o.kind] /\ b.name <= o.name
    <2>1. k <= KindRank[o.kind] /\ k \in Nat /\ KindRank[o.kind] \in Nat
        BY <1>5, <1>6
    <2>2. KindRank[o.kind] = k => n <= o.name
        BY <1>8
    <2> QED  BY <1>9, <2>1, <2>2
<1>11. \E a \in here : \A o \in here \ {a} :
            \/ KindRank[a.kind] < KindRank[o.kind]
            \/ KindRank[a.kind] = KindRank[o.kind] /\ a.name <= o.name
    BY <1>9, <1>10
<1> QED  BY <1>11 DEF BestBranch, here

\* Where a command switches to, if it does not panic, is where it meant to.
LEMMA DestinationIsThere ==
    ASSUME NEW c \in Commits, repo \in Repo, branches = FromRepo(repo),
           ~cmd.dry_run, ~Panics(c)
    PROVE  Destination(c).at = c /\ Placed(Destination(c))
<1>1. CASE ~HasBranch(c)
    BY <1>1 DEF Destination, Placed, OnCommit
<1>2. CASE HasBranch(c)
    <2> DEFINE b == BestBranch(c)
    <2>1. b \in BranchesAt(branches, c)
        BY <1>2, BestIsAmongThem
    <2>2. b \in FromRepo(repo) /\ b.id = c /\ ~b.is_remote
        BY <1>2, <2>1 DEF BranchesAt, Panics
    <2>3. repo.local[b.name] = c
        BY <2>2, RepositoriesAre, BranchesAreThere
    <2>4. Destination(c) = OnBranch(b.name)
        BY <1>2 DEF Destination
    <2> HIDE DEF b
    <2> QED  BY <2>3, <2>4 DEF Placed, OnBranch
<1> QED  BY <1>1, <1>2

\* A graph has commits of the repository only.
LEMMA GraphIsThere ==
    ASSUME NEW r, IsRepository(r), NEW chosen,
           \A b \in chosen : b.id \in DOMAIN r.parents
    PROVE  GraphOf(r, chosen).commits \subseteq DOMAIN r.parents
<1>1. \A b \in chosen : CommitRange(r, RootOf(r, chosen), b.id) \subseteq DOMAIN r.parents
    BY HistoriesAreOrdered DEF CommitRange, IsOrdered
<1> QED  BY <1>1 DEF GraphOf, NoGraph

\* HEAD goes back to where it was.
LEMMA HomeIsHome ==
    ASSUME Placed(home)
    PROVE  Home = home
BY DEF Placed, Home, OnBranch, OnCommit, NoBranch

LEMMA PlacesInit == Init => PlacesInv
<1> SUFFICES ASSUME Init
             PROVE  PlacesInv
    OBVIOUS
<1>1. repo \in Repo /\ head \in HeadsOf(repo) /\ home = head /\ current = head.at
    BY DEF Init
<1>2. Placed(head)
    BY <1>1, HeadsAre DEF Placed, Commits, OnCommit, OnBranch, NoBranch
<1>3. /\ queue = << >> /\ tried = << >> /\ log = << >> /\ branches = {}
      /\ graph.commits = {} /\ pc = "idle"
    BY DEF Init, NoGraph
<1>4. << >> \in Seq(Commits) /\ << >> \in Seq(Results)
    OBVIOUS
<1> QED  BY <1>1, <1>2, <1>3, <1>4 DEF PlacesInv, Placed

\* The commits a stack is made of, as next and run see it.
LEMMA StackIsThere ==
    ASSUME PlacesInv, pc # "idle", NEW fork, NEW at
    PROVE  GraphOf(repo, StackOf(fork, at)).commits \subseteq Commits
<1>1. IsRepository(repo) /\ branches = FromRepo(repo)
    BY RepositoriesAre DEF PlacesInv
<1>2. StackOf(fork, at) \subseteq branches
    BY DEF StackOf, Dependents, Descendants, WithRemotes
<1>3. \A b \in StackOf(fork, at) : b.id \in DOMAIN repo.parents
    BY <1>1, <1>2, BranchesAreThere
<1> QED  BY <1>1, <1>3, GraphIsThere DEF Commits

\* The walk of a run begins at a commit, if it begins.
LEMMA FirstIsThere ==
    ASSUME PlacesInv, graph'.commits \subseteq Commits, graph' # NoGraph,
           NEW fork, fork \in Commits \cup {None},
           fork = None => graph'.root # None
    PROVE  FirstOf(fork) \in Seq(Commits) /\ Len(FirstOf(fork)) <= 1
<1>1. ASSUME fork = None
      PROVE  ~ContainsId(repo, graph', fork)
    <2>1. None \notin Commits /\ \A c \in Commits : repo.parents[c] \in Seq(Commits)
        BY RepositoriesAre DEF PlacesInv, IsRepository, Commits
    <2>2. \A c \in Commits : \A i \in DOMAIN repo.parents[c] : repo.parents[c][i] \in Commits
        BY <2>1
    <2>3. \A c \in Commits : None \notin Range(repo.parents[c])
        BY <2>1, <2>2 DEF Range
    <2> QED  BY <1>1, <2>1, <2>3 DEF ContainsId
<1>2. CASE fork \in Commits
    BY <1>2 DEF FirstOf
<1>3. CASE fork = None
    BY <1>1, <1>3 DEF FirstOf
<1> QED  BY <1>2, <1>3

LEMMA PlanKeepsPlaces == PlacesInv /\ Plan => PlacesInv'
<1> SUFFICES ASSUME PlacesInv, Plan
             PROVE  PlacesInv'
    OBVIOUS
<1>1. /\ UNCHANGED <<repo, head, home, current, tried, branches>>
      /\ pc = "check"
    BY DEF Plan, given, place, begun, At
<1>2. branches = FromRepo(repo)
    BY <1>1 DEF PlacesInv
<1>3. CASE cmd.command = "prev"
    <2>1. UNCHANGED <<graph, queue>>
        BY <1>3 DEF Plan
    <2> QED  BY <1>1, <1>2, <2>1
                DEF PlacesInv, Placed, Commits, OnCommit, OnBranch, Results
<1>4. CASE cmd.command # "prev"
    <2> DEFINE fork == MergeBase(repo, BaseOf(home.at), home.at)
    <2>1. /\ graph' = GraphOf(repo, StackOf(fork, home.at))
          /\ queue' # queue => graph' # NoGraph /\ queue' = FirstOf(fork)
        BY <1>4 DEF Plan
    <2>2. graph'.commits \subseteq Commits
        BY <1>1, <2>1, StackIsThere
    <2>3. fork \in Commits \cup {None}
        BY MergeBaseIsThere, RepositoriesAre DEF PlacesInv, Placed, Commits
    <2>4. graph' # NoGraph => graph'.root # None
        BY <2>1 DEF GraphOf
    <2> HIDE DEF fork
    <2>5. queue' \in Seq(Commits)
        BY <2>1, <2>2, <2>3, <2>4, FirstIsThere DEF PlacesInv
    <2> QED  BY <1>1, <1>2, <2>2, <2>5
                DEF PlacesInv, Placed, Commits, OnCommit, OnBranch, Results
<1> QED  BY <1>3, <1>4

LEMMA StepKeepsPlaces == PlacesInv /\ Step => PlacesInv'
<1> SUFFICES ASSUME PlacesInv, Step
             PROVE  PlacesInv'
    OBVIOUS
<1>1. /\ UNCHANGED <<repo, head, home, graph, queue, tried, branches, pc, log>>
      /\ current' \in Onward
    BY DEF Step, given, place, begun, ByAge, Newest, Oldest
<1>2. Onward \subseteq Commits
    <2>1. \A c \in Commits : Range(repo.parents[c]) \subseteq Commits
        BY HistoriesAreOrdered, RepositoriesAre DEF PlacesInv, IsOrdered, Commits
    <2> QED  BY <2>1 DEF PlacesInv, Onward, ChildrenOf, LeastProtected
<1> QED  BY <1>1, <1>2 DEF PlacesInv, Placed, Commits, OnCommit, OnBranch, Results

\* ops::switch leaves HEAD where it is or takes it to the commit it was given.
LEMMA SwitchAndExitPlaces ==
    ASSUME PlacesInv, NEW c \in Commits, NEW code, SwitchAndExit(c, code),
           pc # "idle", UNCHANGED repo
    PROVE  /\ Placed(head)'
           /\ head' # head => head' = Destination(c) /\ head'.at = c
<1>1. CASE UNCHANGED head
    <2>1. Placed(head)
        BY DEF PlacesInv
    <2> QED  BY <1>1, <2>1 DEF Placed, Commits, OnCommit, OnBranch
<1>2. CASE ~cmd.dry_run /\ ~Panics(c) /\ head' = Destination(c)
    <2>1. Destination(c).at = c /\ Placed(Destination(c))
        BY <1>2, DestinationIsThere DEF PlacesInv
    <2> QED  BY <1>2, <2>1 DEF Placed, Commits, OnCommit, OnBranch
<1> QED  BY <1>1, <1>2 DEF SwitchAndExit, SwitchTo, SwitchFails

LEMMA ArriveKeepsPlaces == PlacesInv /\ Arrive => PlacesInv'
<1> SUFFICES ASSUME PlacesInv, Arrive
             PROVE  PlacesInv'
    OBVIOUS
<1>1. /\ UNCHANGED <<repo, home, current, graph, queue, tried, branches>>
      /\ pc = "step" /\ current \in Commits
    BY DEF Arrive, given, begun, cursor, At, PlacesInv
<1>2. Placed(head)'
    <2>1. CASE UNCHANGED head
        BY <1>1, <2>1 DEF PlacesInv, Placed, Commits, OnCommit, OnBranch
    <2>2. CASE SwitchAndExit(current, "ok")
        BY <1>1, <2>2, SwitchAndExitPlaces
    <2> QED  BY <2>1, <2>2 DEF Arrive
<1> QED  BY <1>1, <1>2 DEF PlacesInv, Placed, Commits, OnCommit, OnBranch, Results

\* The queue is of commits, and so are the children that join it.
LEMMA ExtendedIsThere ==
    ASSUME PlacesInv, NEW q \in Extended
    PROVE  /\ q \in Seq(Commits)
           /\ prior = None => q = queue
           /\ prior # None =>
                \A i \in DOMAIN q : \/ \E j \in DOMAIN queue : q[i] = queue[j]
                                    \/ prior \in Range(repo.parents[q[i]])
<1>1. CASE prior = None
    BY <1>1 DEF PlacesInv, Extended
<1>2. CASE prior # None
    <2> DEFINE kids == ChildrenOf(repo, graph, prior)
    <2>1. kids \subseteq Commits
        BY DEF ChildrenOf, PlacesInv
    <2>2. IsFiniteSet(kids)
        BY <2>1, FS_Subset, RepositoriesAre DEF PlacesInv, IsRepository, Commits
    <2>3. Cardinality(kids) \in Nat
        BY <2>2, FS_CardinalityType
    <2>4. PICK s \in [1..Cardinality(kids) -> kids] : q = queue \o s
        BY <1>2 DEF Extended
    <2>5. \A k \in kids : prior \in Range(repo.parents[k])
        BY DEF ChildrenOf
    <2> HIDE DEF kids
    <2>6. s \in Seq(kids) /\ s \in Seq(Commits) /\ Len(s) = Cardinality(kids)
        BY <2>1, <2>3, <2>4
    <2>7. /\ q \in Seq(Commits) /\ Len(q) = Len(queue) + Len(s)
          /\ \A i \in 1..Len(q) : q[i] = IF i <= Len(queue) THEN queue[i]
                                        ELSE s[i - Len(queue)]
        <3>1. queue \in Seq(Commits)
            BY DEF PlacesInv
        <3>2. s \in Seq(Commits)
            BY <2>6
        <3>3. /\ queue \o s \in Seq(Commits) /\ Len(queue \o s) = Len(queue) + Len(s)
              /\ \A i \in 1..(Len(queue) + Len(s)) :
                    (queue \o s)[i] = IF i <= Len(queue) THEN queue[i]
                                      ELSE s[i - Len(queue)]
            BY <3>1, <3>2, ConcatProperties
        <3> QED  BY <2>4, <3>3
    <2>8. ASSUME NEW i \in DOMAIN q
          PROVE  \/ \E j \in DOMAIN queue : q[i] = queue[j]
                 \/ prior \in Range(repo.parents[q[i]])
        <3>1. i \in 1..Len(q) /\ Len(queue) \in Nat /\ DOMAIN queue = 1..Len(queue)
            BY <2>7 DEF PlacesInv
        <3>2. CASE i <= Len(queue)
            BY <2>7, <3>1, <3>2
        <3>3. CASE i > Len(queue)
            <4>1. i - Len(queue) \in 1..Cardinality(kids)
                BY <2>6, <2>7, <3>1, <3>3
            <4>2. q[i] = s[i - Len(queue)] /\ s[i - Len(queue)] \in kids
                BY <2>4, <2>7, <3>1, <3>3, <4>1
            <4> QED  BY <2>5, <4>2
        <3> QED  BY <3>1, <3>2, <3>3
    <2> QED  BY <1>2, <2>7, <2>8
<1> QED  BY <1>1, <1>2

LEMMA VisitKeepsPlaces == PlacesInv /\ Visit => PlacesInv'
<1> SUFFICES ASSUME PlacesInv, Visit
             PROVE  PlacesInv'
    OBVIOUS
<1>1. /\ UNCHANGED <<repo, home, graph, tried, branches>> /\ pc = "visit"
    BY DEF Visit, given, begun, At
<1>2. PICK q \in Extended :
          q # << >> /\ current' = Head(q) /\ queue' = Tail(q)
    BY DEF Visit
<1>3. q \in Seq(Commits)
    BY ExtendedIsThere
<1>4. current' \in Commits /\ queue' \in Seq(Commits)
    BY <1>2, <1>3, HeadTailProperties
<1>5. Placed(head)'
    <2>1. CASE UNCHANGED head
        BY <1>1, <2>1 DEF PlacesInv, Placed, Commits, OnCommit, OnBranch
    <2>2. CASE head' = OnCommit(current')
        BY <1>1, <1>4, <2>2 DEF Placed, Commits, OnCommit
    <2> QED  BY <2>1, <2>2 DEF Visit, SwitchTo, SwitchFails
<1> QED  BY <1>1, <1>4, <1>5 DEF PlacesInv, Placed, Commits, OnCommit, OnBranch, Results

LEMMA TryKeepsPlaces == PlacesInv /\ Try => PlacesInv'
<1> SUFFICES ASSUME PlacesInv, Try
             PROVE  PlacesInv'
    OBVIOUS
<1>1. /\ UNCHANGED <<repo, head, home, current, graph, queue, branches>>
      /\ pc = "try"
    BY DEF Try, given, begun, At
<1>2. PICK success \in BOOLEAN : tried' = Append(tried, [at |-> current, ok |-> success])
    BY DEF Try
<1>3. tried' \in Seq(Results)
    BY <1>2 DEF PlacesInv, Results
<1> QED  BY <1>1, <1>3 DEF PlacesInv, Placed, Commits, OnCommit, OnBranch, Results

\* The first failure is one that was tried, and everything before it went well.
LEMMA FirstFailureIsFirst ==
    ASSUME PlacesInv, Failures(tried) # {}
    PROVE  \E i \in DOMAIN tried :
              /\ ~tried[i].ok /\ FirstFailure(tried) = tried[i].at
              /\ FirstFailure(tried) \in Commits
              /\ \A j \in 1..(i - 1) : tried[j].ok
<1> DEFINE failures == Failures(tried)
           i == Min(failures)
<1>1. DOMAIN tried = 1..Len(tried) /\ Len(tried) \in Nat
    BY DEF PlacesInv
<1>2. failures \in SUBSET Nat
    BY <1>1 DEF Failures
<1>3. i \in failures /\ \A j \in failures : i <= j
    BY <1>2, MinIsLeast
<1>4. i \in DOMAIN tried /\ ~tried[i].ok /\ FirstFailure(tried) = tried[i].at
    BY <1>3 DEF Failures, FirstFailure
<1>5. tried[i].at \in Commits
    <2> HIDE DEF i
    <2>1. tried[i] \in Results
        BY <1>4 DEF PlacesInv
    <2> QED  BY <2>1 DEF Results
<1>6. ASSUME NEW j \in 1..(i - 1)
      PROVE  tried[j].ok
    <2> HIDE DEF i
    <2>1. j \in DOMAIN tried /\ ~(i <= j)
        BY <1>1, <1>4
    <2> QED  BY <1>3, <2>1 DEF Failures
<1> QED  BY <1>4, <1>5, <1>6

LEMMA StayKeepsPlaces == PlacesInv /\ StayAtFailure => PlacesInv'
<1> SUFFICES ASSUME PlacesInv, StayAtFailure
             PROVE  PlacesInv'
    OBVIOUS
<1>1. /\ UNCHANGED <<repo, home, current, graph, queue, tried, branches>>
      /\ pc = "visit"
    BY DEF StayAtFailure, given, begun, cursor, At
<1>2. FirstFailure(tried) \in Commits
    BY FirstFailureIsFirst DEF StayAtFailure, SwitchesToFailure
<1>3. Placed(head)'
    BY <1>1, <1>2, SwitchAndExitPlaces DEF StayAtFailure
<1> QED  BY <1>1, <1>3 DEF PlacesInv, Placed, Commits, OnCommit, OnBranch, Results

LEMMA GoHomeKeepsPlaces == PlacesInv /\ GoHome => PlacesInv'
<1> SUFFICES ASSUME PlacesInv, GoHome
             PROVE  PlacesInv'
    OBVIOUS
<1>1. /\ UNCHANGED <<repo, home, current, graph, queue, tried, branches>>
      /\ pc = "visit"
    BY DEF GoHome, given, begun, cursor, At
<1>2. head' = head \/ head' = home
    BY HomeIsHome DEF GoHome, SwitchTo, SwitchFails, PlacesInv
<1> QED  BY <1>1, <1>2 DEF PlacesInv, Placed, Commits, OnCommit, OnBranch, Results

LEMMA PlacesNext == PlacesInv /\ [Next]_vars => PlacesInv'
<1> SUFFICES ASSUME PlacesInv, [Next]_vars
             PROVE  PlacesInv'
    OBVIOUS
<1>1. CASE Begin
    <2>1. /\ UNCHANGED <<repo, head>> /\ home' = head /\ current' = head.at
          /\ branches' = FromRepo(repo) /\ graph' = NoGraph
          /\ queue' = << >> /\ tried' = << >>
        BY <1>1 DEF Begin, given, place
    <2>2. << >> \in Seq(Commits) /\ << >> \in Seq(Results)
        OBVIOUS
    <2> QED  BY <2>1, <2>2 DEF PlacesInv, Placed, Commits, OnCommit, OnBranch,
                               Results, NoGraph
<1>2. CASE \/ RefuseBusy \/ Stash \/ RefuseDirty \/ Pop
    <2>1. /\ UNCHANGED <<repo, head, home, current, graph, queue, tried, branches>>
          /\ pc # "idle"
        BY <1>2 DEF RefuseBusy, Stash, RefuseDirty, Pop, given, place, begun,
                    cursor, At
    <2> QED  BY <2>1 DEF PlacesInv, Placed, Commits, OnCommit, OnBranch, Results
<1>3. CASE Quit \/ UNCHANGED vars
    <2>1. UNCHANGED <<repo, head, home, current, graph, queue, tried, branches, pc, log>>
        BY <1>3 DEF Quit, vars, given, place, begun, cursor
    <2> QED  BY <2>1 DEF PlacesInv, Placed, Commits, OnCommit, OnBranch, Results
<1> QED  BY <1>1, <1>2, <1>3, PlanKeepsPlaces, StepKeepsPlaces, ArriveKeepsPlaces,
            VisitKeepsPlaces, TryKeepsPlaces, StayKeepsPlaces, GoHomeKeepsPlaces
            DEF Next

-----------------------------------------------------------------------------
(***************************************************************************)
(* What run has tried.                                                     *)
(***************************************************************************)
\* The i-th trial passed, as far as run minds.
Passed(i) == tried[i].ok \/ cmd.no_fail_fast
IsBelow(i, c) == tried[i].at \in Range(repo.parents[c])

\* A commit run may try: it has tried a parent, which passed.
Due(c) == \E j \in DOMAIN tried : IsBelow(j, c) /\ Passed(j)
Cleared ==
    \A i \in 2..Len(tried) :
        \E j \in 1..(i - 1) : IsBelow(j, tried[i].at) /\ Passed(j)

\* Once something was tried, what is in the queue is due, and the children of prior
\* are, which is the last commit that was tried.  Before, there is the fork alone.
CursorInv ==
    /\ pc \in {"stash", "check"} => tried = << >> /\ prior = None
    /\ pc \in {"visit", "try"} =>
          /\ Cleared
          /\ tried # << >> => \A i \in DOMAIN queue : Due(queue[i])
    /\ pc = "visit" =>
          /\ tried = << >> => prior = None /\ Len(queue) <= 1
          /\ prior # None => /\ tried # << >> /\ prior = tried[Len(tried)].at
                             /\ Passed(Len(tried))
    /\ pc = "try" => /\ prior = current
                     /\ tried = << >> => queue = << >>
                     /\ tried # << >> => Due(current)

LEMMA CursorPlan == PlacesInv /\ CursorInv /\ Plan => CursorInv'
<1> SUFFICES ASSUME PlacesInv, CursorInv, Plan
             PROVE  CursorInv'
    OBVIOUS
<1>1. /\ UNCHANGED <<repo, cmd, tried, prior>> /\ tried = << >> /\ prior = None
      /\ pc' \in {"step", "visit", "idle"}
    BY DEF Plan, given, begun, At, Go, Exit, CursorInv
<1>2. pc' = "visit" => Len(queue') <= 1
    <2> SUFFICES ASSUME pc' = "visit"
                 PROVE  Len(queue') <= 1
        OBVIOUS
    <2>1. queue' = FirstOf(MergeBase(repo, BaseOf(home.at), home.at))
        BY DEF Plan, Go, Exit
    <2> QED  BY <2>1 DEF FirstOf
<1>3. Cleared'
    BY <1>1 DEF Cleared
<1> QED  BY <1>1, <1>2, <1>3 DEF CursorInv

LEMMA CursorVisit == PlacesInv /\ CursorInv /\ Visit => CursorInv'
<1> SUFFICES ASSUME PlacesInv, CursorInv, Visit
             PROVE  CursorInv'
    OBVIOUS
<1>1. /\ UNCHANGED <<repo, cmd, tried>> /\ pc = "visit" /\ pc' \in {"try", "idle"}
    BY DEF Visit, given, begun, At, Go, Exit
<1>2. PICK q \in Extended :
          q # << >> /\ current' = Head(q) /\ prior' = Head(q) /\ queue' = Tail(q)
    BY DEF Visit
<1>3. /\ q \in Seq(Commits)
      /\ prior = None => q = queue
      /\ prior # None =>
           \A i \in DOMAIN q : \/ \E j \in DOMAIN queue : q[i] = queue[j]
                               \/ prior \in Range(repo.parents[q[i]])
    BY ExtendedIsThere
<1>4. /\ DOMAIN q = 1..Len(q) /\ Len(q) \in Nat /\ Len(q) > 0 /\ Head(q) = q[1]
      /\ Tail(q) \in Seq(Commits) /\ Len(Tail(q)) = Len(q) - 1
      /\ \A i \in 1..Len(Tail(q)) : Tail(q)[i] = q[i + 1]
    BY <1>2, <1>3, HeadTailProperties
<1>5. ASSUME tried # << >>
      PROVE  \A i \in DOMAIN q : Due(q[i])
    <2>1. \A i \in DOMAIN queue : Due(queue[i])
        BY <1>1, <1>5 DEF CursorInv
    <2>2. CASE prior = None
        BY <1>3, <2>1, <2>2
    <2>3. CASE prior # None
        <3> SUFFICES ASSUME NEW i \in DOMAIN q
                     PROVE  Due(q[i])
            OBVIOUS
        <3>1. CASE \E j \in DOMAIN queue : q[i] = queue[j]
            BY <2>1, <3>1
        <3>2. CASE prior \in Range(repo.parents[q[i]])
            <4>1. prior = tried[Len(tried)].at /\ Passed(Len(tried))
                BY <1>1, <2>3 DEF CursorInv
            <4>2. Len(tried) \in DOMAIN tried
                BY <1>5 DEF PlacesInv
            <4> QED  BY <3>2, <4>1, <4>2 DEF Due, IsBelow
        <3> QED  BY <1>3, <2>3, <3>1, <3>2
    <2> QED  BY <2>2, <2>3
<1>6. tried # << >> => Due(current') /\ \A i \in DOMAIN queue' : Due(queue'[i])
    <2> SUFFICES ASSUME tried # << >>
                 PROVE  Due(q[1]) /\ \A i \in 1..Len(Tail(q)) : Due(q[i + 1])
        BY <1>2, <1>4
    <2>1. 1 \in DOMAIN q /\ \A i \in 1..Len(Tail(q)) : i + 1 \in DOMAIN q
        BY <1>4
    <2> QED  BY <1>5, <2>1
<1>7. tried = << >> => queue' = << >>
    <2> SUFFICES ASSUME tried = << >>
                 PROVE  Tail(q) = << >>
        BY <1>2
    <2>1. q = queue /\ Len(queue) <= 1
        BY <1>1, <1>3 DEF CursorInv
    <2>2. Len(Tail(q)) = 0
        BY <1>4, <2>1
    <2> QED  BY <1>4, <2>2, EmptySeq
<1>8. Cleared /\ (Cleared <=> Cleared')
    BY <1>1 DEF CursorInv, Cleared, IsBelow, Passed
<1>9. \A c : Due(c) <=> \E j \in DOMAIN tried' :
                            /\ tried'[j].at \in Range(repo'.parents[c])
                            /\ tried'[j].ok \/ cmd'.no_fail_fast
    BY <1>1 DEF Due, IsBelow, Passed
<1>10. tried # << >> => Due(current)' /\ \A i \in DOMAIN queue' : Due(queue[i])'
    BY <1>6, <1>9 DEF Due, IsBelow, Passed
<1> QED  BY <1>1, <1>2, <1>7, <1>8, <1>10 DEF CursorInv

LEMMA CursorTry == PlacesInv /\ CursorInv /\ Try => CursorInv'
<1> SUFFICES ASSUME PlacesInv, CursorInv, Try
             PROVE  CursorInv'
    OBVIOUS
<1>1. /\ UNCHANGED <<repo, cmd, queue, current>> /\ pc = "try" /\ pc' = "visit"
    BY DEF Try, given, begun, At, Go
<1>2. PICK success \in BOOLEAN :
          /\ tried' = Append(tried, [at |-> current, ok |-> success])
          /\ prior' = IF StopsAt(success) THEN None ELSE prior
    BY DEF Try
<1> DEFINE n == Len(tried)
<1>3. /\ DOMAIN tried = 1..n /\ n \in Nat /\ tried \in Seq(Results)
    BY DEF PlacesInv
<1>4. /\ DOMAIN tried' = 1..(n + 1) /\ Len(tried') = n + 1
      /\ \A i \in 1..n : tried'[i] = tried[i]
      /\ tried'[n + 1] = [at |-> current, ok |-> success]
    <2>1. [at |-> current, ok |-> success] \in Results
        BY DEF PlacesInv, Results
    <2> QED  BY <1>2, <1>3, <2>1
<1> HIDE DEF n
<1>5. tried' # << >>
    BY <1>3, <1>4
<1>6. ASSUME NEW c, Due(c)
      PROVE  \E j \in 1..n : /\ tried'[j].at \in Range(repo'.parents[c])
                             /\ tried'[j].ok \/ cmd'.no_fail_fast
    BY <1>1, <1>3, <1>4, <1>6 DEF Due, IsBelow, Passed
<1>7. tried # << >> => Due(current)
    BY <1>1 DEF CursorInv
<1>8. Cleared'
    <2> SUFFICES ASSUME NEW i \in 2..(n + 1)
                 PROVE  \E j \in 1..(i - 1) :
                           /\ tried'[j].at \in Range(repo'.parents[tried'[i].at])
                           /\ tried'[j].ok \/ cmd'.no_fail_fast
        BY <1>3, <1>4 DEF Cleared, IsBelow, Passed
    <2>1. CASE i = n + 1
        <3>1. tried # << >> /\ tried'[i].at = current
            BY <1>3, <1>4, <2>1
        <3>2. i - 1 = n
            BY <1>3, <2>1
        <3> QED  BY <1>6, <1>7, <3>1, <3>2
    <2>2. CASE i \in 2..n
        <3>1. PICK j \in 1..(i - 1) : IsBelow(j, tried[i].at) /\ Passed(j)
            BY <1>1, <2>2 DEF CursorInv, Cleared, n
        <3>2. j \in 1..n /\ i \in 1..n
            BY <1>3, <2>2
        <3> QED  BY <1>1, <1>4, <3>1, <3>2 DEF IsBelow, Passed
    <2> QED  BY <1>3, <2>1, <2>2
<1>9. \A i \in DOMAIN queue' : Due(queue[i])'
    <2> SUFFICES ASSUME NEW i \in DOMAIN queue
                 PROVE  \E j \in 1..(n + 1) :
                           /\ tried'[j].at \in Range(repo'.parents[queue[i]])
                           /\ tried'[j].ok \/ cmd'.no_fail_fast
        BY <1>1, <1>4 DEF Due, IsBelow, Passed
    <2>1. tried # << >>
        <3> SUFFICES ASSUME tried = << >>
                     PROVE  FALSE
            OBVIOUS
        <3>1. queue = << >>
            BY <1>1 DEF CursorInv
        <3> QED  BY <3>1
    <2>2. Due(queue[i])
        BY <1>1, <2>1 DEF CursorInv
    <2>3. PICK j \in 1..n : /\ tried'[j].at \in Range(repo'.parents[queue[i]])
                            /\ tried'[j].ok \/ cmd'.no_fail_fast
        BY <1>6, <2>2
    <2> QED  BY <1>3, <2>3
<1>10. prior' # None => prior' = tried'[Len(tried')].at /\ Passed(Len(tried))'
    <2> SUFFICES ASSUME prior' # None
                 PROVE  /\ prior' = tried'[n + 1].at
                        /\ tried'[n + 1].ok \/ cmd'.no_fail_fast
        BY <1>4 DEF Passed
    <2>1. ~StopsAt(success) /\ prior' = current
        BY <1>1, <1>2 DEF CursorInv
    <2> QED  BY <1>1, <1>4, <2>1 DEF StopsAt
<1> QED  BY <1>1, <1>5, <1>8, <1>9, <1>10 DEF CursorInv

LEMMA CursorNext == PlacesInv /\ CursorInv /\ [Next]_vars => CursorInv'
<1> SUFFICES ASSUME PlacesInv, CursorInv, [Next]_vars
             PROVE  CursorInv'
    OBVIOUS
<1>1. CASE Begin
    BY <1>1 DEF Begin, Go, CursorInv
<1>2. CASE Stash
    <2>1. UNCHANGED <<tried, prior>> /\ pc = "stash" /\ pc' = "check"
        BY <1>2 DEF Stash, cursor, At, Go
    <2> QED  BY <2>1 DEF CursorInv
<1>3. CASE \/ RefuseBusy \/ RefuseDirty \/ Arrive \/ StayAtFailure
           \/ GoHome \/ Pop
    <2>1. pc' \in {"idle", "pop"}
        BY <1>3 DEF RefuseBusy, RefuseDirty, Arrive, StayAtFailure, GoHome, Pop,
                    SwitchAndExit, Exit, Go
    <2> QED  BY <2>1 DEF CursorInv
<1>4. CASE Step
    <2>1. pc' = "step"
        BY <1>4 DEF Step, At
    <2> QED  BY <2>1 DEF CursorInv
<1>5. CASE Quit \/ UNCHANGED vars
    <2>1. UNCHANGED <<repo, cmd, pc, current, queue, prior, tried>>
        BY <1>5 DEF Quit, vars, given, begun, cursor
    <2> QED  BY <2>1 DEF CursorInv, Cleared, Due, IsBelow, Passed
<1> QED  BY <1>1, <1>2, <1>3, <1>4, <1>5, CursorPlan, CursorVisit, CursorTry DEF Next

\* In every repository, whatever the program says of a commit, and wherever merges
\* lead the cursor: a commit is only tried after one of its parents.
THEOREM RunClimbs == Spec => []TriesAbovePassed
<1>1. Init => PlacesInv /\ CursorInv
    BY PlacesInit DEF Init, CursorInv
<1>2. CursorInv => TriesAbovePassed
    BY DEF CursorInv, TriesAbovePassed, Cleared, IsBelow, Passed, At
<1> QED  BY <1>1, <1>2, PlacesNext, CursorNext, PTL DEF Spec

-----------------------------------------------------------------------------
(***************************************************************************)
(* How a run ends.                                                         *)
(***************************************************************************)
Stashed == {stash[i] : i \in DOMAIN stash}

\* No command is surprised by what an earlier one left: only a program or half a
\* checkout leaves anything.
LitterInv ==
    /\ faults \in Nat
    /\ \A files \in Stashed \cup {content} : "litter" \in files => faults > 0

\* HEAD is where it was but for a run that is trying commits, and such a run has
\* nothing on the stash when it may end elsewhere.
HeadInv ==
    /\ pc # "idle" /\ (cmd.dry_run \/ pc \notin {"visit", "try"}) => head = home
    /\ pc = "step" => ~IsRun
    /\ pc # "idle" /\ IsRun /\ cmd.switch => entry = NoEntry

EndInv == LitterInv /\ HeadInv /\ log \in Seq(Ended) /\ RunEndsWhereItShould

LEMMA FaultsGrow ==
    ASSUME faults \in Nat, [Next]_vars
    PROVE  faults' \in Nat /\ faults' >= faults
<1>1. faults' = faults \/ Fault
    BY DEF Next, Begin, RefuseBusy, Stash, RefuseDirty, Plan, Step, Arrive, Visit,
           Try, StayAtFailure, GoHome, Pop, Quit, SwitchAndExit, SwitchFails,
           vars
<1> QED  BY <1>1 DEF Fault

\* What a step puts on the stash was in the working directory, what it takes from
\* it comes back there; and what it adds to that is litter, at the price of a fault.
LEMMA LitterNext == LitterInv /\ KeepInv /\ [Next]_vars => LitterInv'
<1> SUFFICES ASSUME LitterInv, KeepInv, [Next]_vars
             PROVE  LitterInv'
    OBVIOUS
<1> DEFINE held == Stashed \cup {content}
           held2 == Stashed' \cup {content'}
<1>1. faults' \in Nat /\ faults' >= faults /\ faults \in Nat
    BY FaultsGrow DEF LitterInv
<1>2. stash \in Seq(SUBSET Tracked) /\ DOMAIN stash = 1..Len(stash) /\ Len(stash) \in Nat
    BY DEF KeepInv, Types
<1>3. ASSUME faults' = faults
      PROVE  \A files \in held2 : "litter" \in files =>
                \E g \in held : "litter" \in g
    <2>1. CASE Stash
        <3>1. CASE UNCHANGED <<stash, content>>
            BY <3>1 DEF Stashed
        <3>2. CASE /\ stash' = Append(stash, content \cap Tracked)
                   /\ content' = content \ Tracked
            <4>1. content \cap Tracked \in SUBSET Tracked
                OBVIOUS
            <4>2. /\ DOMAIN stash' = 1..(Len(stash) + 1)
                  /\ \A i \in 1..Len(stash) : stash'[i] = stash[i]
                  /\ stash'[Len(stash) + 1] = content \cap Tracked
                BY <1>2, <3>2, <4>1
            <4>3. Stashed' \subseteq Stashed \cup {content \cap Tracked}
                BY <1>2, <4>2 DEF Stashed
            <4> QED  BY <3>2, <4>3
        <3> QED  BY <2>1, <3>1, <3>2 DEF Stash
    <2>2. CASE Pop
        <3>1. CASE UNCHANGED <<stash, content>>
            BY <3>1 DEF Stashed
        <3>2. CASE /\ Pops /\ stash' = SubSeq(stash, 1, entry - 1)
                   /\ content' = content \cup stash[entry]
            <4>1. entry = Len(stash) /\ entry \in DOMAIN stash
                BY <1>2, <2>2, <3>2 DEF KeepInv, EntryOnTop, Pops, NoEntry, Pop, At
            <4>2. /\ DOMAIN stash' = 1..(entry - 1)
                  /\ \A i \in 1..(entry - 1) : stash'[i] = stash[i]
                BY <1>2, <3>2, <4>1
            <4>3. Stashed' \subseteq Stashed /\ stash[entry] \in Stashed
                BY <1>2, <4>1, <4>2 DEF Stashed
            <4> QED  BY <3>2, <4>3
        <3> QED  BY <2>2, <3>1, <3>2 DEF Pop
    <2>3. CASE ~Stash /\ ~Pop
        <3>1. UNCHANGED stash
            BY <2>3 DEF Next, Begin, RefuseBusy, RefuseDirty, Plan, Step, Arrive,
                        Visit, Try, StayAtFailure, GoHome, Quit, vars, place
        <3>2. content' \subseteq content
            BY <1>1, <1>3, <2>3
               DEF Next, Begin, RefuseBusy, RefuseDirty, Plan, Step, Arrive, Visit,
                   Try, StayAtFailure, GoHome, Quit, vars, place, SwitchAndExit,
                   SwitchTo, SwitchFails, Fault
        <3> QED  BY <3>1, <3>2 DEF Stashed
    <2> QED  BY <2>1, <2>2, <2>3
<1>4. CASE faults' = faults
    BY <1>1, <1>3, <1>4 DEF LitterInv
<1>5. CASE faults' # faults
    BY <1>1, <1>5 DEF LitterInv
<1> QED  BY <1>4, <1>5

LEMMA HeadNext == PlacesInv /\ HeadInv /\ [Next]_vars => HeadInv'
<1> SUFFICES ASSUME PlacesInv, HeadInv, [Next]_vars
             PROVE  HeadInv'
    OBVIOUS
<1>1. CASE Begin
    BY <1>1 DEF Begin, place, Go, HeadInv
<1>2. CASE Stash
    <2>1. UNCHANGED <<head, home, cmd>> /\ pc = "stash" /\ pc' = "check"
        BY <1>2 DEF Stash, begun, At, Go
    <2>2. ~Stashes => entry' = entry
        BY <1>2 DEF Stash
    <2>3. IsRun /\ cmd.switch => ~Stashes
        BY DEF Stashes
    <2> QED  BY <2>1, <2>2, <2>3 DEF HeadInv, IsRun
<1>3. CASE Plan
    <2>1. UNCHANGED <<head, home, cmd, entry>> /\ pc = "check"
        BY <1>3 DEF Plan, place, begun, At
    <2>2. pc' \in {"step", "visit", "idle"} /\ (pc' = "step" => ~IsRun)
        BY <1>3 DEF Plan, Go, Exit, IsRun
    <2> QED  BY <2>1, <2>2 DEF HeadInv, IsRun
<1>4. CASE RefuseBusy \/ RefuseDirty \/ Arrive \/ StayAtFailure \/ Pop
    <2>1. pc' = "idle"
        BY <1>4 DEF RefuseBusy, RefuseDirty, Arrive, StayAtFailure, Pop,
                    SwitchAndExit, Exit, Go
    <2> QED  BY <2>1 DEF HeadInv
<1>5. CASE Step
    <2>1. UNCHANGED <<head, home, cmd, entry, pc>>
        BY <1>5 DEF Step, place, begun
    <2> QED  BY <2>1 DEF HeadInv, IsRun
<1>6. CASE Visit \/ Try
    <2>1. /\ UNCHANGED <<home, cmd, entry>> /\ pc \in {"visit", "try"}
          /\ pc' \in {"visit", "try", "idle"}
        BY <1>6 DEF Visit, Try, begun, At, Go, Exit
    <2>2. cmd.dry_run /\ pc' # "idle" => head' = head
        BY <1>6 DEF Visit, Try, Exit, Go
    <2> QED  BY <2>1, <2>2 DEF HeadInv, IsRun
<1>7. CASE GoHome
    <2>1. UNCHANGED <<home, cmd, entry>> /\ pc = "visit" /\ pc' \in {"pop", "idle"}
        BY <1>7 DEF GoHome, begun, At, Go, Exit
    <2>2. Home = home
        BY HomeIsHome DEF PlacesInv
    <2>3. pc' = "pop" => head' = home
        <3>1. CASE cmd.dry_run
            <4>1. head' = head
                BY <1>7, <3>1 DEF GoHome
            <4> QED  BY <2>1, <3>1, <4>1 DEF HeadInv
        <3>2. CASE ~cmd.dry_run
            BY <1>7, <2>2, <3>2 DEF GoHome, SwitchTo, Exit, Go
        <3> QED  BY <3>1, <3>2
    <2> QED  BY <2>1, <2>3 DEF HeadInv, IsRun
<1>8. CASE Quit \/ UNCHANGED vars
    <2>1. UNCHANGED <<head, home, cmd, entry, pc>>
        BY <1>8 DEF Quit, vars, place, begun
    <2> QED  BY <2>1 DEF HeadInv, IsRun
<1> QED  BY <1>1, <1>2, <1>3, <1>4, <1>5, <1>6, <1>7, <1>8 DEF Next

\* One more command has ended.
LEMMA LogGrows ==
    ASSUME log \in Seq(Ended), NEW e, log' = Append(log, e)
    PROVE  /\ Ended' = Ended \cup {e}
           /\ log' \in Seq(Ended')
<1>1. log \in Seq(Ended \cup {e}) /\ e \in Ended \cup {e}
    <2>1. Ended \subseteq Ended \cup {e}
        OBVIOUS
    <2> QED  BY <2>1
<1>2. /\ Len(log) \in Nat /\ DOMAIN log = 1..Len(log)
      /\ log' \in Seq(Ended \cup {e})
      /\ DOMAIN log' = 1..(Len(log) + 1)
      /\ \A i \in 1..Len(log) : log'[i] = log[i]
      /\ log'[Len(log) + 1] = e
    BY <1>1, AppendProperties
<1>3. \A i \in DOMAIN log' : i \in DOMAIN log \/ i = Len(log) + 1
    BY <1>2
<1>4. Ended' = Ended \cup {e}
    BY <1>2, <1>3 DEF Ended
<1> QED  BY <1>2, <1>4

\* What RunEndsWhereItShould asks of one command.
EndsWell(l) ==
    l.cmd.command = "run" /\ Finished(l) =>
        /\ \/ l.to = l.from
           \/ /\ l.cmd.switch /\ ~l.cmd.dry_run /\ l.code = "failed"
              /\ \E i \in DOMAIN l.tried :
                   /\ ~l.tried[i].ok /\ l.to.at = l.tried[i].at
                   /\ \A j \in 1..(i - 1) : l.tried[j].ok
        /\ l.kept => faults > 0

\* The command that ends now does it well if what is left to see of it is true.
LEMMA EndingWell ==
    ASSUME EndInv, [Next]_vars, NEW code, Exit(code),
           IsRun /\ code \in {"ok", "failed"} =>
              /\ \/ head' = home
                 \/ /\ cmd.switch /\ ~cmd.dry_run /\ code = "failed"
                    /\ \E i \in DOMAIN tried :
                         /\ ~tried[i].ok /\ head'.at = tried[i].at
                         /\ \A j \in 1..(i - 1) : tried[j].ok
              /\ entry \in DOMAIN stash' => faults' > 0
    PROVE  log' \in Seq(Ended') /\ RunEndsWhereItShould'
<1> DEFINE e == [cmd |-> cmd, from |-> home, to |-> head', tried |-> tried,
                 code |-> code, kept |-> entry \in DOMAIN stash']
<1>1. log' = Append(log, e)
    BY DEF Exit
<1>2. log' \in Seq(Ended') /\ Ended' = Ended \cup {e}
    <2> HIDE DEF e
    <2> QED  BY <1>1, LogGrows DEF EndInv
<1>3. faults' \in Nat /\ faults' >= faults /\ faults \in Nat
    BY FaultsGrow DEF EndInv, LitterInv
<1>4. ASSUME NEW l \in Ended
      PROVE  EndsWell(l)'
    <2>1. EndsWell(l)
        BY DEF EndInv, RunEndsWhereItShould, EndsWell
    <2> QED  BY <1>3, <2>1 DEF EndsWell, Finished
<1>5. ASSUME NEW l, l = e
      PROVE  EndsWell(l)'
    <2>1. /\ l.cmd = cmd /\ l.from = home /\ l.to = head' /\ l.tried = tried
          /\ l.code = code /\ l.kept = (entry \in DOMAIN stash')
        BY <1>5
    <2> HIDE DEF e
    <2> QED  BY <2>1 DEF EndsWell, Finished, IsRun
<1>6. \A l \in Ended' : EndsWell(l)'
    <2> HIDE DEF e
    <2> QED  BY <1>2, <1>4, <1>5
<1> QED  BY <1>2, <1>6 DEF RunEndsWhereItShould, EndsWell

\* Until a command ends, nothing changes of those that have.
LEMMA NotEnding ==
    ASSUME EndInv, [Next]_vars, UNCHANGED log
    PROVE  log' \in Seq(Ended') /\ RunEndsWhereItShould'
<1>1. faults' \in Nat /\ faults' >= faults /\ faults \in Nat
    BY FaultsGrow DEF EndInv, LitterInv
<1>2. Ended' = Ended
    BY DEF Ended
<1>3. ASSUME NEW l \in Ended
      PROVE  EndsWell(l)'
    <2>1. EndsWell(l)
        BY DEF EndInv, RunEndsWhereItShould, EndsWell
    <2> QED  BY <1>1, <2>1 DEF EndsWell, Finished
<1>4. log' \in Seq(Ended')
    BY <1>2 DEF EndInv
<1> QED  BY <1>2, <1>3, <1>4 DEF RunEndsWhereItShould, EndsWell

LEMMA StayEndsWell ==
    ASSUME PlacesInv, KeepInv, EndInv, [Next]_vars, StayAtFailure
    PROVE  log' \in Seq(Ended') /\ RunEndsWhereItShould'
<1> DEFINE c == FirstFailure(tried)
<1>1. /\ pc = "visit" /\ cmd.switch /\ Failures(tried) # {}
      /\ UNCHANGED <<stash, repo>> /\ SwitchAndExit(c, ExitCode)
    BY DEF StayAtFailure, SwitchesToFailure, At, given
<1>2. PICK i \in DOMAIN tried :
          /\ ~tried[i].ok /\ c = tried[i].at /\ c \in Commits
          /\ \A j \in 1..(i - 1) : tried[j].ok
    BY <1>1, FirstFailureIsFirst
<1>3. ExitCode = "failed"
    BY <1>1 DEF ExitCode
<1> HIDE DEF c
<1>4. IsRun => entry \notin DOMAIN stash'
    <2>1. IsRun => entry = 0
        BY <1>1 DEF EndInv, HeadInv, NoEntry
    <2>2. DOMAIN stash = 1..Len(stash) /\ Len(stash) \in Nat
        BY DEF KeepInv, Types
    <2> QED  BY <1>1, <2>1, <2>2
<1>5. CASE Exit("panic") \/ Exit("failure")
    BY <1>5, EndingWell
<1>6. CASE cmd.dry_run /\ head' = head /\ Exit(ExitCode)
    <2>1. head = home
        BY <1>1, <1>6 DEF EndInv, HeadInv
    <2> QED  BY <1>4, <1>6, <2>1, EndingWell
<1>7. CASE ~cmd.dry_run /\ ~Panics(c) /\ SwitchTo(Destination(c)) /\ Exit(ExitCode)
    <2>1. Destination(c).at = c
        BY <1>1, <1>2, <1>7, DestinationIsThere DEF PlacesInv
    <2>2. head'.at = c
        BY <1>7, <2>1 DEF SwitchTo
    <2>3. \E k \in DOMAIN tried : /\ ~tried[k].ok /\ head'.at = tried[k].at
                                  /\ \A j \in 1..(k - 1) : tried[j].ok
        BY <1>2, <2>2
    <2> QED  BY <1>1, <1>3, <1>4, <1>7, <2>3, EndingWell
<1> QED  BY <1>1, <1>5, <1>6, <1>7 DEF SwitchAndExit

LEMMA PopEndsWell ==
    ASSUME PlacesInv, KeepInv, EndInv, [Next]_vars, Pop
    PROVE  log' \in Seq(Ended') /\ RunEndsWhereItShould'
<1>1. pc = "pop" /\ Exit(ExitCode) /\ head' = head
    BY DEF Pop, At
<1>2. head = home
    BY <1>1 DEF EndInv, HeadInv
<1>3. stash \in Seq(SUBSET Tracked) /\ DOMAIN stash = 1..Len(stash) /\ Len(stash) \in Nat
    BY DEF KeepInv, Types
<1>4. entry \in DOMAIN stash' => faults' > 0
    <2>1. CASE Pops /\ stash' = SubSeq(stash, 1, entry - 1)
        <3>1. entry = Len(stash) /\ entry \in 1..Len(stash)
            BY <1>1, <1>3, <2>1 DEF KeepInv, EntryOnTop, Pops, NoEntry
        <3>2. DOMAIN stash' = 1..(entry - 1)
            BY <1>3, <2>1, <3>1
        <3> QED  BY <1>3, <3>1, <3>2
    <2>2. CASE "litter" \in content /\ UNCHANGED faults
        BY <2>2 DEF EndInv, LitterInv
    <2>3. CASE Fault
        BY <2>3 DEF Fault, EndInv, LitterInv
    <2>4. CASE ~Pops /\ UNCHANGED stash
        BY <1>3, <2>4 DEF Pops, NoEntry
    <2> QED  BY <2>1, <2>2, <2>3, <2>4 DEF Pop
<1> QED  BY <1>1, <1>2, <1>4, EndingWell

LEMMA EndNext == PlacesInv /\ KeepInv /\ EndInv /\ [Next]_vars => EndInv'
<1> SUFFICES ASSUME PlacesInv, KeepInv, EndInv, [Next]_vars
             PROVE  log' \in Seq(Ended') /\ RunEndsWhereItShould'
    BY LitterNext, HeadNext DEF EndInv
<1>1. CASE UNCHANGED log
    BY <1>1, NotEnding
<1>2. CASE RefuseBusy \/ RefuseDirty
    <2>1. Exit("usage")
        BY <1>2 DEF RefuseBusy, RefuseDirty
    <2> QED  BY <2>1, EndingWell
<1>3. CASE Plan \/ Visit \/ GoHome
    <2>1. UNCHANGED log \/ Exit("failure")
        BY <1>3 DEF Plan, Visit, GoHome
    <2> QED  BY <1>1, <2>1, EndingWell
<1>4. CASE Arrive
    <2>1. ~IsRun
        BY <1>4 DEF Arrive, At, EndInv, HeadInv
    <2>2. \E code : Exit(code)
        BY <1>4 DEF Arrive, SwitchAndExit
    <2> QED  BY <2>1, <2>2, EndingWell
<1>5. CASE StayAtFailure
    BY <1>5, StayEndsWell
<1>6. CASE Pop
    BY <1>6, PopEndsWell
<1>7. CASE Begin \/ Stash \/ Step \/ Try \/ Quit \/ UNCHANGED vars
    <2>1. UNCHANGED log
        BY <1>7 DEF Begin, Stash, Step, Try, Quit, vars
    <2> QED  BY <1>1, <2>1
<1> QED  BY <1>2, <1>3, <1>4, <1>5, <1>6, <1>7 DEF Next

\* However often git fails, whatever the program leaves and whatever was asked
\* before: a run that comes to its end has brought HEAD home, or to the first
\* failure, and the work back.
THEOREM RunComesHome == Spec => []RunEndsWhereItShould
<1>1. Init => PlacesInv /\ KeepInv /\ EndInv
    <2> SUFFICES ASSUME Init
                 PROVE  EndInv
        BY PlacesInit, KeepInit
    <2>1. LitterInv
        BY DEF Init, LitterInv, Stashed
    <2>2. log \in Seq(Ended) /\ Ended = {}
        BY DEF Init, Ended
    <2> QED  BY <2>1, <2>2 DEF Init, EndInv, HeadInv, RunEndsWhereItShould
<1>2. EndInv => RunEndsWhereItShould
    BY DEF EndInv
<1> QED  BY <1>1, <1>2, PlacesNext, KeepNext, EndNext, PTL DEF Spec

-----------------------------------------------------------------------------
(***************************************************************************)
(* How far prev goes.                                                      *)
(***************************************************************************)
Guarded(c) == KindAt(branches, c) >= KindRank["mixed"]

\* Of the guarded commits from a commit down, c is below none.
PassesNone(c, from) ==
    \A g \in Histories(repo)[from] : Guarded(g) => c \notin Histories(repo)[g] \ {g}

\* The prevs the property is about.
Minds(request) == request.command = "prev" /\ ~request.protected /\ IsLinear

PrevInv ==
    /\ pc \in {"visit", "try", "pop"} => IsRun
    /\ pc \in {"stash", "check"} => current = home.at
    /\ pc = "step" /\ Minds(cmd) =>
          current \in Histories(repo)[home.at] /\ PassesNone(current, home.at)
    /\ PrevStopsAtProtected

\* A commit is below none of its own history.
LEMMA NoneIsPassedAtHome ==
    ASSUME PlacesInv
    PROVE  home.at \in Histories(repo)[home.at] /\ PassesNone(home.at, home.at)
BY HistoriesAreOrdered, RepositoriesAre
   DEF PlacesInv, Placed, Commits, IsOrdered, PassesNone

\* The step of prev: from a commit that is not guarded to its parent.  In a line
\* the guarded ones are below the commit, and so not above its parent, or above
\* the commit already.
LEMMA ParentPassesNone ==
    ASSUME PlacesInv, IsLinear, ~Guarded(current),
           current \in Histories(repo)[home.at], PassesNone(current, home.at),
           NEW p \in Range(repo.parents[current])
    PROVE  p \in Histories(repo)[home.at] /\ PassesNone(p, home.at)
<1> DEFINE H == Histories(repo)
<1>1. IsOrdered(Commits, repo.parents, H) /\ home.at \in Commits /\ current \in Commits
    BY HistoriesAreOrdered, RepositoriesAre DEF PlacesInv, Placed, Commits
<1> HIDE DEF H
<1>2. /\ p \in Commits /\ p \in H[p]
      /\ H[current] = {current} \cup UNION {H[q] : q \in Range(repo.parents[current])}
    BY <1>1 DEF IsOrdered
<1>3. p \in H[current] /\ H[current] \subseteq H[home.at]
    <2>1. p \in H[current]
        BY <1>2
    <2>2. current \in H[home.at]
        BY DEF H
    <2> QED  BY <1>1, <2>1, <2>2 DEF IsOrdered
<1>4. \A q \in Range(repo.parents[current]) : q = p
    <2>1. repo.parents[current] \in Seq(Commits) /\ Len(repo.parents[current]) <= 1
        BY <1>1, RepositoriesAre DEF IsLinear, PlacesInv, IsRepository, Commits
    <2>2. /\ DOMAIN repo.parents[current] = 1..Len(repo.parents[current])
          /\ Len(repo.parents[current]) \in Nat
        BY <2>1
    <2>3. \A i, j \in DOMAIN repo.parents[current] : i = j
        BY <2>1, <2>2
    <2> QED  BY <2>3 DEF Range
<1>5. H[current] = {current} \cup H[p]
    BY <1>2, <1>4
<1>6. ASSUME NEW g \in H[home.at], Guarded(g), p \in H[g], p # g
      PROVE  FALSE
    <2>1. g # current
        BY <1>6
    <2>2. current \notin H[g]
        BY <1>6, <2>1 DEF PassesNone, H
    <2>3. current \in H[home.at] /\ g \in Commits
        BY <1>1 DEF H, IsOrdered
    <2>4. g \in H[current]
        <3>1. \A d, e \in H[home.at] : d \in H[e] \/ e \in H[d]
            BY <1>1 DEF IsOrdered, IsLinear, Commits
        <3> QED  BY <2>2, <2>3, <3>1
    <2>5. g \in H[p]
        BY <1>5, <2>1, <2>4
    <2> QED  BY <1>1, <1>2, <1>6, <2>3, <2>5 DEF IsOrdered
<1> QED  BY <1>3, <1>6 DEF PassesNone, H

\* What PrevStopsAtProtected asks of one command.
StopsInTime(l) == Minds(l.cmd) => PassesNone(l.to.at, l.from.at)

LEMMA PrevEnds ==
    ASSUME PlacesInv, PrevInv, log \in Seq(Ended), NEW code, Exit(code),
           UNCHANGED <<repo, branches>>,
           Minds(cmd) => PassesNone(head'.at, home.at)
    PROVE  PrevStopsAtProtected'
<1> DEFINE e == [cmd |-> cmd, from |-> home, to |-> head', tried |-> tried,
                 code |-> code, kept |-> entry \in DOMAIN stash']
<1>1. Ended' = Ended \cup {e}
    <2>1. log' = Append(log, e)
        BY DEF Exit
    <2> HIDE DEF e
    <2> QED  BY <2>1, LogGrows
<1>2. \A l \in Ended : StopsInTime(l)
    BY DEF PrevInv, PrevStopsAtProtected, StopsInTime, Minds, PassesNone, Guarded
<1>3. \A l \in {e} : StopsInTime(l)
    BY DEF StopsInTime
<1> HIDE DEF e
<1>4. \A l \in Ended' : StopsInTime(l)
    BY <1>1, <1>2, <1>3
<1> QED  BY <1>4 DEF PrevStopsAtProtected, StopsInTime, Minds, PassesNone, Guarded,
                     IsLinear

LEMMA PrevStays ==
    ASSUME PlacesInv, PrevInv, log \in Seq(Ended), UNCHANGED <<repo, log>>,
           branches' \in {branches, FromRepo(repo)}
    PROVE  PrevStopsAtProtected'
<1>1. Ended' = Ended
    BY DEF Ended
<1>2. CASE branches' = branches
    BY <1>1, <1>2 DEF PrevInv, PrevStopsAtProtected, IsLinear
<1>3. CASE branches' # branches
    <2>1. log = << >>
        BY <1>3 DEF PlacesInv
    <2>2. Ended = {}
        BY <2>1 DEF Ended
    <2> QED  BY <1>1, <2>2 DEF PrevStopsAtProtected
<1> QED  BY <1>2, <1>3

LEMMA PrevNext == PlacesInv /\ EndInv /\ PrevInv /\ [Next]_vars => PrevInv'
<1> SUFFICES ASSUME PlacesInv, EndInv, PrevInv, [Next]_vars
             PROVE  PrevInv'
    OBVIOUS
<1>1. log \in Seq(Ended)
    BY DEF EndInv
<1>2. home.at \in Histories(repo)[home.at] /\ PassesNone(home.at, home.at)
    BY NoneIsPassedAtHome
<1>3. CASE Begin
    <2>1. /\ UNCHANGED <<repo, log>> /\ branches' = FromRepo(repo)
          /\ pc' = "stash" /\ current' = head.at /\ home' = head
        BY <1>3 DEF Begin, given, Go
    <2> QED  BY <1>1, <2>1, PrevStays DEF PrevInv
<1>4. CASE Stash
    <2>1. /\ UNCHANGED <<repo, log, branches, current, home>>
          /\ pc = "stash" /\ pc' = "check"
        BY <1>4 DEF Stash, given, begun, cursor, At, Go
    <2> QED  BY <1>1, <2>1, PrevStays DEF PrevInv
<1>5. CASE RefuseBusy \/ RefuseDirty
    <2>1. /\ UNCHANGED <<repo, branches, head>> /\ pc \in {"stash", "check"}
          /\ pc' = "idle" /\ Exit("usage")
        BY <1>5 DEF RefuseBusy, RefuseDirty, given, begun, place, At, Exit, Go
    <2>2. head' = home
        BY <2>1 DEF EndInv, HeadInv
    <2> QED  BY <1>1, <1>2, <2>1, <2>2, PrevEnds DEF PrevInv
<1>6. CASE Plan
    <2>1. /\ UNCHANGED <<repo, branches, head, cmd, home, current>> /\ pc = "check"
          /\ head = home /\ current = home.at
        BY <1>6 DEF Plan, given, begun, place, At, EndInv, HeadInv, PrevInv
    <2>2. \/ UNCHANGED log /\ pc' \in {"step", "visit"} /\ (pc' = "visit" => IsRun)
          \/ Exit("failure") /\ pc' = "idle"
        BY <1>6 DEF Plan, Exit, Go
    <2>3. PrevStopsAtProtected'
        BY <1>1, <1>2, <2>1, <2>2, PrevEnds, PrevStays
    <2>4. pc' = "step" /\ Minds(cmd)' =>
              (current \in Histories(repo)[home.at] /\ PassesNone(current, home.at))'
        BY <1>2, <2>1 DEF PassesNone, Guarded
    <2>5. pc' \in {"visit", "try", "pop"} => IsRun'
        BY <2>1, <2>2 DEF IsRun
    <2>6. pc' \notin {"stash", "check"}
        BY <2>2
    <2> QED  BY <2>3, <2>4, <2>5, <2>6 DEF PrevInv
<1>7. CASE Step
    <2>1. /\ UNCHANGED <<repo, log, branches, cmd, home, pc>> /\ pc = "step"
          /\ MayStep /\ current' \in Onward
        BY <1>7 DEF Step, given, begun, At, ByAge, Newest, Oldest
    <2>2. PrevStopsAtProtected'
        BY <1>1, <2>1, PrevStays
    <2>3. ASSUME Minds(cmd)
          PROVE  (current \in Histories(repo)[home.at] /\ PassesNone(current, home.at))'
        <3>1. current' \in Range(repo.parents[current])
            BY <2>1, <2>3 DEF Minds, Onward, LeastProtected
        <3>2. ~Guarded(current)
            BY <2>1, <2>3 DEF MayStep, StaysPut, Minds, Guarded
        <3>3. IsLinear /\ current \in Histories(repo)[home.at]
              /\ PassesNone(current, home.at)
            BY <2>1, <2>3 DEF PrevInv, Minds
        <3>4. current' \in Histories(repo)[home.at] /\ PassesNone(current', home.at)
            BY <3>1, <3>2, <3>3, ParentPassesNone
        <3> QED  BY <2>1, <3>4 DEF PassesNone, Guarded
    <2>4. Minds(cmd)' => Minds(cmd)
        BY <2>1 DEF Minds, IsLinear
    <2> QED  BY <2>1, <2>2, <2>3, <2>4 DEF PrevInv
<1>8. CASE Arrive
    <2>1. UNCHANGED <<repo, branches>> /\ pc = "step" /\ head = home
        BY <1>8 DEF Arrive, given, begun, At, EndInv, HeadInv
    <2>2. current \in Commits /\ (Minds(cmd) => PassesNone(current, home.at))
        BY <2>1 DEF PlacesInv, PrevInv
    <2>3. head' # head => head'.at = current
        <3>1. CASE SwitchAndExit(current, "ok")
            BY <2>1, <2>2, <3>1, SwitchAndExitPlaces
        <3> QED  BY <1>8, <3>1 DEF Arrive
    <2>4. Minds(cmd) => PassesNone(head'.at, home.at)
        BY <1>2, <2>1, <2>2, <2>3
    <2>5. \E code : Exit(code)
        BY <1>8 DEF Arrive, SwitchAndExit
    <2>6. pc' = "idle"
        BY <2>5 DEF Exit, Go
    <2> QED  BY <1>1, <2>1, <2>4, <2>5, <2>6, PrevEnds DEF PrevInv
<1>9. CASE Visit \/ Try \/ StayAtFailure \/ GoHome \/ Pop
    <2>1. /\ UNCHANGED <<repo, branches, cmd>> /\ pc \in {"visit", "try", "pop"}
          /\ pc' \in {"visit", "try", "pop", "idle"}
        BY <1>9 DEF Visit, Try, StayAtFailure, GoHome, Pop, given, begun, At, Go,
                    Exit, SwitchAndExit
    <2>2. IsRun /\ IsRun' /\ ~Minds(cmd)
        BY <2>1 DEF PrevInv, IsRun, Minds
    <2>3. UNCHANGED log \/ \E code : Exit(code)
        BY <1>9 DEF Visit, Try, StayAtFailure, GoHome, Pop, SwitchAndExit
    <2>4. PrevStopsAtProtected'
        BY <1>1, <2>1, <2>2, <2>3, PrevEnds, PrevStays
    <2> QED  BY <2>1, <2>2, <2>4 DEF PrevInv
<1>10. CASE Quit \/ UNCHANGED vars
    <2>1. UNCHANGED <<repo, log, branches, cmd, current, home, pc>>
        BY <1>10 DEF Quit, vars, given, begun, cursor
    <2>2. PrevStopsAtProtected'
        BY <1>1, <2>1, PrevStays
    <2> QED  BY <2>1, <2>2 DEF PrevInv, IsRun, Minds, IsLinear, PassesNone, Guarded
<1> QED  BY <1>3, <1>4, <1>5, <1>6, <1>7, <1>8, <1>9, <1>10 DEF Next

\* In every repository without merges, from wherever HEAD is: prev goes no further
\* down than the first commit that is guarded.
THEOREM PrevKeepsAbove == Spec => []PrevStopsAtProtected
<1>1. Init => PlacesInv /\ KeepInv /\ EndInv /\ PrevInv
    <2> SUFFICES ASSUME Init
                 PROVE  EndInv /\ PrevInv
        BY PlacesInit, KeepInit
    <2>1. LitterInv
        BY DEF Init, LitterInv, Stashed
    <2>2. log \in Seq(Ended) /\ Ended = {}
        BY DEF Init, Ended
    <2>3. EndInv
        BY <2>1, <2>2 DEF Init, EndInv, HeadInv, RunEndsWhereItShould
    <2> QED  BY <2>2, <2>3 DEF Init, PrevInv, PrevStopsAtProtected
<1>2. PrevInv => PrevStopsAtProtected
    BY DEF PrevInv
<1> QED  BY <1>1, <1>2, PlacesNext, KeepNext, EndNext, PrevNext, PTL DEF Spec

=============================================================================
