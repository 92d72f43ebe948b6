------------------------------ MODULE GraphOps ------------------------------
(***************************************************************************)
(* The commit graph (graph::Graph) and the operations that plan a command  *)
(* on it.  A graph is a record                                             *)
(*   root      the commit every branch descends from                       *)
(*   nodes     the commits of the graph                                    *)
(*   parent    the parent a commit is to have (of all but the root)        *)
(*   action    "pick", "fixup" or "protected" (graph::Action)              *)
(*   reword    the new message of the commits that get one                 *)
(*   branches  the branches at a commit, a sequence of [name, kind]; the   *)
(*             kinds are those of graph::BranchKind                        *)
(* Every commit has one parent here.  petgraph lists the children of a     *)
(* commit in the order their edges came and went, which starts from the    *)
(* order of the branches' hashes: Rank is any order at all.                *)
(***************************************************************************)
EXTENDS Commits, FiniteSets, FiniteSetsExt

CONSTANTS
    Fixes,      \* the message a "fixup! ..." message names
    Rank(_)     \* where petgraph lists a commit among its siblings

ASSUME FixesIsAFunction ==
    DOMAIN Fixes \subseteq Message /\ Range(Fixes) \subseteq Message

UserKinds == {"mutable", "mixed"}       \* BranchKind::has_user_commits

HasUserCommits(b) == b.kind \in UserKinds

IsProtected(g, n) == g.action[n] = "protected"

Kids(g, n) ==
    SetToSortSeq({k \in g.nodes \ {g.root} : g.parent[k] = n},
                 LAMBDA a, b : Rank(a) < Rank(b))

\* AncestorsCursor, to its end: the commit and all below it.
Ancestry(g, n) ==
    LET A[m \in g.nodes] ==
            {m} \cup IF m = g.root THEN {} ELSE A[g.parent[m]]
    IN  A[n]

\* DescendantsCursor: breadth first from a commit, not past the commits at
\* which the caller stops it.
Descendants(g, start, stops) ==
    LET Level[k \in 0..Cardinality(g.nodes)] ==
            IF k = 0 THEN <<start>>
            ELSE LET below == SelectSeq(Level[k - 1], LAMBDA n : n \notin stops)
                 IN  FlattenSeq([i \in DOMAIN below |-> Kids(g, below[i])])
    IN  FlattenSeq([k \in 1..(Cardinality(g.nodes) + 1) |-> Level[k - 1]])

-----------------------------------------------------------------------------
Histories(c) == {SubSeq(c, 1, k) : k \in 1..Len(c)}

\* Graph::from_branches: everything between the branches and their merge base.
FromBranches(branches) ==
    LET tips == DOMAIN branches
        shared == {c \in Histories(CHOOSE t \in tips : TRUE) :
                        \A t \in tips : IsPrefix(c, t)}
        root == CHOOSE c \in shared : \A d \in shared : Len(d) <= Len(c)
        nodes == {c \in UNION {Histories(t) : t \in tips} : Len(c) >= Len(root)}
    IN  [root |-> root,
         nodes |-> nodes,
         parent |-> [n \in nodes \ {root} |-> Front(n)],
         action |-> [n \in nodes |-> "pick"],
         reword |-> [n \in {} |-> ""],
         branches |-> [n \in nodes |->
                          IF n \in tips THEN branches[n] ELSE << >>]]

\* Graph::insert of a new commit.
Insert(g, n, parent) ==
    [g EXCEPT
        !.nodes = @ \cup {n},
        !.parent = [m \in DOMAIN @ \cup {n} |-> IF m = n THEN parent ELSE @[m]],
        !.action = [m \in DOMAIN @ \cup {n} |-> IF m = n THEN "pick" ELSE @[m]],
        !.branches = [m \in DOMAIN @ \cup {n} |-> IF m = n THEN << >> ELSE @[m]]]

\* A commit is protected with all that is below it.
Protect(g, tips) ==
    LET protected == UNION {Ancestry(g, n) : n \in tips}
    IN  [g EXCEPT !.action = [n \in g.nodes |->
                                IF n \in protected THEN "protected" ELSE @[n]]]

HasKind(g, n, kinds) == \E b \in Range(g.branches[n]) : b.kind \in kinds

BranchIds(g) == {n \in g.nodes : g.branches[n] # << >>}

ProtectBranches(g) ==
    Protect(g, {n \in g.nodes : HasKind(g, n, {"protected"})})

\* protect_large_branches: the commits of a branch are counted from its tip
\* down to the first protected one, unless a user's branch is met.
ProtectLargeBranches(g, max) ==
    LET Ends(m, n) == IsProtected(m, n) \/ HasKind(m, n, {"protected"})
        Walked(m, tip) ==
            {n \in Ancestry(m, tip) :
                \A e \in Ancestry(m, tip) : Ends(m, e) => e \in Ancestry(m, n)}
        Large(m, tip) ==
            /\ \A n \in Walked(m, tip) : ~HasKind(m, n, UserKinds)
            /\ max <= Cardinality(Walked(m, tip))
        ids == SetToSortSeq(BranchIds(g), LAMBDA a, b : Rank(a) < Rank(b))
    IN  FoldLeft(LAMBDA m, tip : IF Large(m, tip) THEN Protect(m, {tip}) ELSE m,
                 g, ids)

\* tag_commits_while and protect_tagged_branch: a branch is protected when
\* every commit from the root to its tip is tagged.
ProtectTaggedBranches(g, tagged) ==
    Protect(g, {n \in BranchIds(g) : Ancestry(g, n) \subseteq tagged})

\* The first commit of every stack moves onto `onto'.
RebaseEveryCommit(g, onto) ==           \* mutant: not the first one only
    [g EXCEPT !.parent = [n \in DOMAIN @ |->
        IF ~IsProtected(g, n) THEN onto ELSE @[n]]]

RebaseDevelopmentBranches(g, onto) ==
    [g EXCEPT !.parent = [n \in DOMAIN @ |->
        IF ~IsProtected(g, n) /\ IsProtected(g, @[n]) THEN onto ELSE @[n]]]

NotForwarded(g, pull_start, pull_end) == g      \* mutant: branches stay

FastForwardPulledBranches(g, pull_start, pull_end) ==
    LET start == g.branches[pull_start]
    IN  IF pull_start = pull_end THEN g
        ELSE [g EXCEPT
                !.branches[pull_start] =
                    SelectSeq(start, LAMBDA b : ~HasUserCommits(b)),
                !.branches[pull_end] =
                    @ \o SelectSeq(start, HasUserCommits)]

\* Branches marked deleted in the graph, and what the callers drop for good.
MarkDeleted(g, ids) ==
    [g EXCEPT !.branches = [n \in g.nodes |->
        IF n \in ids
        THEN [i \in DOMAIN @[n] |->
                IF @[n][i].kind = "mutable"
                THEN [@[n][i] EXCEPT !.kind = "deleted"] ELSE @[n][i]]
        ELSE @[n]]]

Mutables(g, ids) ==
    LET At(n) == SelectSeq(g.branches[n], LAMBDA b : b.kind = "mutable")
    IN  FlattenSeq([i \in DOMAIN ids |->
            [k \in DOMAIN At(ids[i]) |->
                [id |-> ids[i], name |-> At(ids[i])[k].name]]])

\* delete_squashed_branches_by_tree_id: the walk from where the pull started
\* does not pass a commit with a branch.
SquashedIds(g, pull_start, trees) ==
    SelectSeq(Descendants(g, pull_start,
                    {n \in g.nodes : HasKind(g, n, UserKinds \cup {"protected"})}),
              LAMBDA n : Tree(n) \in trees)

\* delete_merged_branches: from the newest pulled commit down.
MergedIds(g, pulled) ==
    SetToSortSeq(pulled \cap g.nodes, LAMBDA a, b : Len(a) > Len(b))

-----------------------------------------------------------------------------
Summary(n) == Last(n).msg
IsFixup(n) == Summary(n) \in DOMAIN Fixes

\* Graph::remove gives the children of a commit to its parent.
Orphaned(g, n) == g.parent              \* mutant: they stay where they are

Unlinked(g, n) ==
    [m \in DOMAIN g.parent |->
        IF g.parent[m] = n THEN g.parent[n] ELSE g.parent[m]]

\* fixup_commit: the fixup goes right after its target, below the children of
\* the target.
BesideChildren(parent, fixup, target) ==    \* mutant: not below them
    [parent EXCEPT ![fixup] = target]

RightAfter(parent, fixup, target) ==
    [n \in DOMAIN parent |->
        IF n = fixup THEN target
        ELSE IF parent[n] = target THEN fixup ELSE parent[n]]

\* The branches of the fixup go to the commit under it, then the user's
\* branches of the target to the fixup.
FixupCommit(g, fixup, target, effect) ==
    LET left == [g EXCEPT !.branches[g.parent[fixup]] = @ \o g.branches[fixup],
                          !.branches[fixup] = << >>]
        here == left.branches[target]
    IN  [left EXCEPT
            !.parent = RightAfter(Unlinked(g, fixup), fixup, target),
            !.branches[target] = SelectSeq(here, LAMBDA b : ~HasUserCommits(b)),
            !.branches[fixup] = SelectSeq(here, HasUserCommits),
            !.action[fixup] = IF effect = "squash" THEN "fixup" ELSE @]

\* graph::fixup: every fixup commit is moved to the nearest commit under it
\* that it fixes, or that fixes the same one.
Fixup(g, effect) ==
    LET targets(f, m) ==
            {a \in Ancestry(m, f) \ {f} :
                /\ ~IsProtected(m, a)
                /\ \/ Summary(a) = Fixes[Summary(f)]
                   \/ IsFixup(a) /\ Fixes[Summary(a)] = Fixes[Summary(f)]}
        Nearest(f, m) == CHOOSE a \in targets(f, m) :
                            \A b \in targets(f, m) : b \in Ancestry(m, a)
        fixups == SelectSeq(Descendants(g, g.root, {}),
                            LAMBDA n : ~IsProtected(g, n) /\ IsFixup(n))
    IN  IF effect = "ignore" THEN g
        ELSE FoldLeft(LAMBDA m, f : IF targets(f, m) = {} THEN m
                                    ELSE FixupCommit(m, f, Nearest(f, m), effect),
                      g, fixups)

\* reword_commit is refused while a fixup of the commit is above it.
CanReword(g, n) ==
    \A f \in g.nodes : n \in Ancestry(g, f) /\ IsFixup(f)
                            => Fixes[Summary(f)] # Summary(n)

RewordCommit(g, n, msg) ==
    [g EXCEPT !.reword = [m \in DOMAIN @ \cup {n} |->
                            IF m = n THEN msg ELSE @[m]]]

=============================================================================
