------------------------------- MODULE MCWalk -------------------------------
(***************************************************************************)
(* The repositories and the requests of the runs about walking a stack.    *)
(*                                                                         *)
(* Commits 1 and 2 are upstream's in every shape, the others the user's    *)
(* unless main is there.  Branch 1 is main, the protected one.             *)
(***************************************************************************)
EXTENDS Walk

CONSTANT Moved      \* whether main may be ahead of the stack everywhere

Size == 5
Main == 1

Line ==  << << >>, <<1>>, <<2>>, <<3>>, <<4>> >>
Aside == << << >>, <<1>>, <<2>>, <<3>>, <<2>> >>
Fork ==  << << >>, <<1>>, <<2>>, <<3>>, <<3>> >>
Merge == << << >>, <<1>>, <<2>>, <<2>>, <<3, 4>> >>

\* A repository; commit 4 leaves the files as they are when it is empty.
Repository(parents, local, remote, time, empty) ==
    [parents |-> parents, time |-> time, busy |-> FALSE,
     by |-> [c \in 1..Size |-> IF c <= 2 THEN "upstream" ELSE "user"],
     tree |-> [c \in 1..Size |-> IF empty /\ c = 4 THEN 3 ELSE c],
     auto_base |-> 0, local |-> local, remote |-> remote, protected |-> {Main}]

InOrder == [c \in 1..Size |-> c]
AtOnce == [c \in 1..Size |-> 1]
Nowhere == [b \in {} |-> None]
MainAt(c) == [b \in {Main} |-> c]

\* The stacks whose base has a branch of its own, as run needs it.
Based ==
    {Repository(Line, <<2, 4, 5>>, MainAt(2), InOrder, TRUE),
     Repository(Line, <<2, 5>>, MainAt(3), InOrder, FALSE),
     Repository(Line, <<2, 5, 5>>, Nowhere, InOrder, FALSE),
     Repository(Aside, <<2, 3, 4>>, MainAt(5), InOrder, FALSE),
     Repository(Fork, <<2, 4, 5>>, MainAt(2), AtOnce, FALSE),
     Repository(Merge, <<2, 5, 3>>, MainAt(2), InOrder, FALSE),
     Repository(Merge, <<4, 5>>, MainAt(4), InOrder, FALSE)}
\* Main has moved on everywhere, or is not found, or a rebase goes on.
Unbased ==
    {Repository(Aside, <<5, 4>>, MainAt(5), InOrder, FALSE),
     Repository(Line, [b \in {2, 3} |-> 2 * b - 1], Nowhere, InOrder, FALSE),
     [Repository(Line, <<2, 4, 5>>, MainAt(2), InOrder, FALSE)
        EXCEPT !.auto_base = 3],
     [Repository(Fork, <<2, 4, 5>>, MainAt(2), InOrder, FALSE)
        EXCEPT !.busy = TRUE]}
MCRepo == IF Moved THEN Based \cup Unbased ELSE Based

\* HEAD on any local branch, or detached at any commit.
MCHeadsOf(r) ==
    {[on |-> b, at |-> r.local[b]] : b \in DOMAIN r.local}
        \cup {[on |-> NoBranch, at |-> c] : c \in 1..Size}

GoPrev(n) == [NoRequest EXCEPT !.command = "prev", !.count = n]
GoNext(n) == [NoRequest EXCEPT !.command = "next", !.count = n]
DoRun == [NoRequest EXCEPT !.command = "run"]

MCAsks ==
    {<<GoPrev(n), GoNext(n)>> : n \in 1..2}
    \cup {<<[GoPrev(2) EXCEPT !.protected = TRUE], GoNext(2)>>,
          <<[GoNext(1) EXCEPT !.branch = TRUE],
            [GoPrev(1) EXCEPT !.branch = TRUE]>>,
          <<[GoNext(2) EXCEPT !.stash = TRUE],
            [GoPrev(1) EXCEPT !.oldest = TRUE, !.stash = TRUE]>>,
          <<[GoNext(1) EXCEPT !.oldest = TRUE, !.dry_run = TRUE],
            [GoPrev(1) EXCEPT !.dry_run = TRUE]>>,
          <<DoRun, [DoRun EXCEPT !.switch = TRUE]>>,
          <<[DoRun EXCEPT !.no_fail_fast = TRUE]>>,
          <<[DoRun EXCEPT !.no_fail_fast = TRUE, !.switch = TRUE]>>,
          <<[DoRun EXCEPT !.dry_run = TRUE, !.switch = TRUE]>>}

-----------------------------------------------------------------------------
\* The commits that some branch has and no protected branch does, below HEAD.
StackBelow(c) ==
    LET H == Histories(repo)
        held == UNION {H[b.id] : b \in {x \in branches : ~x.is_remote}}
        upstream == UNION {H[b.id] : b \in {x \in branches :
                                               x.kind = "protected"}}
    IN  (H[c] \cap held) \ upstream
TriedAt(l) == {t.at : t \in Range(l.tried)}

\* docs, git run, "Run a command across the current stack of commits": a run
\* that succeeds, with HEAD on a branch, has tried the program on its commits.
SuccessIsTried ==
    \A l \in Ended :
        /\ l.cmd.command = "run" /\ l.code = "ok"
        /\ IsLinear /\ l.from.on # NoBranch
        => StackBelow(l.from.at) \subseteq TriedAt(l)

\* next takes back a prev of as many commits (not of as many branches) when the
\* history in between has no forks, some branch is on top of it and some branch
\* is below: next only looks at what is between branches.
IsBack(p, n) ==
    /\ p.cmd.command = "prev" /\ n.cmd.command = "next"
    /\ p.code = "ok" /\ n.code = "ok" /\ ~p.cmd.dry_run /\ ~n.cmd.dry_run
    /\ p.cmd.count = n.cmd.count /\ ~p.cmd.branch /\ ~n.cmd.branch /\ IsLinear
    /\ CommitCount(repo, p.to.at, p.from.at) = p.cmd.count
    /\ \A c \in {p.to.at} \cup
              (CommitRange(repo, p.to.at, p.from.at) \ {p.from.at}) :
            Cardinality({d \in 1..Size : c \in Range(repo.parents[d])}) = 1
    /\ \E b \in branches : p.from.at \in Histories(repo)[b.id]
    /\ \E b \in branches : b.id \in Histories(repo)[p.to.at]

NextUndoesPrev ==
    \A i \in 2..Len(log) : IsBack(log[i - 1], log[i]) =>
                                log[i].to.at = log[i - 1].from.at
=============================================================================
