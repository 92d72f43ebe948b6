----------------------------- MODULE BranchSets -----------------------------
(***************************************************************************)
(* What the commands read off a repository before they move HEAD: its      *)
(* BranchSet, the commit a stack is based on, the branches that belong to  *)
(* the stack and the graph of their commits.                               *)
(*                                                                         *)
(* Unlike in Commits, where a commit is its history, a commit is a number  *)
(* here and may be a merge: nothing is rewritten.  A repository is a       *)
(* record with                                                             *)
(*   parents[c]      the parents of c, the first parent first              *)
(*   time[c], by[c]  when and by whom c was committed                      *)
(*   tree[c]         what c looks like when checked out                    *)
(*   local, remote   where each local branch, and the remote branch of     *)
(*                   that name, is; branches without one are not in the    *)
(*                   domain.  The names are numbers, in git's order        *)
(*   protected       the names that stack.protected-branch matches         *)
(*   auto_base       stack.auto-base-commit-count, 0 when it is unset      *)
(*   busy            a merge, rebase, ... is in progress                   *)
(***************************************************************************)
EXTENDS Naturals, Sequences, FiniteSets, FiniteSetsExt, Functions

None == 0           \* no commit

\* A repository is there as a whole, and no commit comes before itself.
IsRepository(repo) ==
    LET commits == DOMAIN repo.parents
    IN  /\ IsFiniteSet(commits) /\ None \notin commits
        /\ \A c \in commits : repo.parents[c] \in Seq(commits)
        /\ \E depth \in [commits -> 1..Cardinality(commits)] :
              \A c \in commits : \A p \in Range(repo.parents[c]) :
                  depth[p] < depth[c]
        /\ \A b \in DOMAIN repo.local : b \in Nat \ {0} /\ repo.local[b] \in commits
        /\ \A b \in DOMAIN repo.remote : repo.remote[b] \in commits

-----------------------------------------------------------------------------
\* The history of each commit, itself included.
Histories(repo) ==
    LET H[c \in DOMAIN repo.parents] ==
            {c} \cup UNION {H[p] : p \in Range(repo.parents[c])}
    IN  H

\* The best common ancestor of two commits.
MergeBase(repo, one, two) ==
    LET H == Histories(repo)
        common == H[one] \cap H[two]
        best == {c \in common : \A d \in common : c \in H[d] => d = c}
    IN  IF common = {} THEN None ELSE CHOOSE c \in best : TRUE

\* The commits of head that base does not have.
CommitRange(repo, base, head) == Histories(repo)[head] \ Histories(repo)[base]
CommitCount(repo, base, head) == Cardinality(CommitRange(repo, base, head))

\* head and its first parents, the newest first.
FirstParents(repo, head) ==
    LET F[c \in DOMAIN repo.parents] ==
            <<c>> \o IF repo.parents[c] = << >> THEN << >>
                     ELSE F[Head(repo.parents[c])]
    IN  F[head]

-----------------------------------------------------------------------------
(***************************************************************************)
(* A BranchSet is a set of branches.                                       *)
(***************************************************************************)
Kind == {"deleted", "mutable", "mixed", "protected"}
KindRank == [deleted |-> 1, mutable |-> 2, mixed |-> 3, protected |-> 4]

Branch(name, is_remote, id, kind, pull) ==
    [name |-> name, is_remote |-> is_remote, id |-> id, kind |-> kind,
     pull |-> pull]

\* A protected branch that has a remote is mixed: the user may commit to it,
\* and the remote takes its place among the protected ones.
FromRepo(repo) ==
    UNION {LET here(kind, pull) == Branch(n, FALSE, repo.local[n], kind, pull)
           IN  IF n \notin repo.protected THEN {here("mutable", None)}
               ELSE IF n \in DOMAIN repo.remote
               THEN {here("mixed", repo.remote[n]),
                     Branch(n, TRUE, repo.remote[n], "protected", None)}
               ELSE {here("protected", None)}
           : n \in DOMAIN repo.local}

BranchesAt(branches, c) == {b \in branches : b.id = c}

\* Option<BranchKind>: the strongest protection at a commit, 0 for none.
KindAt(branches, c) ==
    Max({0} \cup {KindRank[b.kind] : b \in BranchesAt(branches, c)})

\* insert_entry: a mixed branch brings its remote along.
WithRemotes(all, chosen) ==
    chosen \cup {r \in all : /\ r.kind = "protected"
                             /\ \E b \in chosen : /\ b.kind = "mixed"
                                                  /\ b.pull = r.id
                                                  /\ b.name = r.name}

\* The branches on top of base.
Descendants(repo, branches, base) ==
    WithRemotes(branches,
        {b \in branches : MergeBase(repo, b.id, base) = base})

\* The branches on top of base that share more than base with head.
Dependents(repo, branches, base, head) ==
    WithRemotes(branches,
        {b \in branches :
            /\ MergeBase(repo, b.id, base) = base
            /\ MergeBase(repo, b.id, head) = base => b.id = base})

-----------------------------------------------------------------------------
(***************************************************************************)
(* find_protected_base, infer_base and resolve_implicit_base.              *)
(***************************************************************************)
\* The best of the protected commits by a list of two counts, the first of
\* them by id when they are even.
Closest(ids, first, second) ==
    CHOOSE i \in ids : \A j \in ids :
        \/ first[i] < first[j]
        \/ first[i] = first[j] /\ second[i] < second[j]
        \/ first[i] = first[j] /\ second[i] = second[j] /\ i <= j

FindProtectedBase(repo, branches, head) ==
    LET ids == {b.id : b \in {p \in branches : p.kind = "protected"}}
        shared == [i \in ids |-> MergeBase(repo, head, i)]
        related == {i \in ids : shared[i] # None}
        on_line == SelectSeq(FirstParents(repo, head),
                             LAMBDA c : \E i \in related : shared[i] = c)
        ahead == [i \in related |-> CommitCount(repo, shared[i], head)]
        behind == [i \in related |-> CommitCount(repo, shared[i], i)]
    IN  IF head \in ids THEN head
        ELSE IF related = {} THEN None
        ELSE IF on_line # << >>
        THEN Closest({i \in related : shared[i] = Head(on_line)}, ahead, behind)
        ELSE Closest(related, behind, ahead)

\* The first commit below head that is someone else's, a merge or the root.
InferBase(repo, head) ==
    LET I[c \in DOMAIN repo.parents] ==
            IF repo.by[c] # repo.by[head] \/ Len(repo.parents[c]) # 1 THEN c
            ELSE I[repo.parents[c][1]]
    IN  I[head]

\* The protected base, unless it is max_count or more commits away.
ResolveImplicitBase(repo, branches, head, max_count) ==
    LET base == FindProtectedBase(repo, branches, head)
        fork == MergeBase(repo, base, head)
        distance == CommitCount(repo, fork, head)
                        + CommitCount(repo, fork, base)
    IN  IF base = None THEN InferBase(repo, head)
        ELSE IF max_count # 0 /\ max_count <= distance
        THEN InferBase(repo, head)
        ELSE base

-----------------------------------------------------------------------------
(***************************************************************************)
(* Graph::from_branches.  It fails when there is no branch, or when the    *)
(* branches have no common history.                                        *)
(***************************************************************************)
NoGraph == [root |-> None, commits |-> {}]

RootOf(repo, branches) ==
    LET ids == {b.id : b \in branches}
        meet(a, b) == IF a = None \/ b = None THEN None
                      ELSE MergeBase(repo, a, b)
    IN  IF ids = {} THEN None ELSE FoldSet(meet, Min(ids), ids)

\* The root, and the commits that have an edge to each of their parents.
GraphOf(repo, branches) ==
    LET root == RootOf(repo, branches)
    IN  IF root = None THEN NoGraph
        ELSE [root |-> root,
              commits |-> UNION {CommitRange(repo, root, b.id) : b \in branches}]

ContainsId(repo, graph, c) ==
    \/ c = graph.root
    \/ c \in graph.commits
    \/ \E d \in graph.commits : c \in Range(repo.parents[d])

ChildrenOf(repo, graph, c) ==
    {d \in graph.commits : c \in Range(repo.parents[d])}

=============================================================================
