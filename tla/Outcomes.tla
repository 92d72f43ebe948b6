------------------------------ MODULE Outcomes ------------------------------
(***************************************************************************)
(* What a planned graph asks for, read as a tree, without batches, marks   *)
(* or an order: where each branch goes, and which it goes after.  A plan p *)
(* is a graph and its dropped branches, with the branches (refs) and the   *)
(* HEAD it was made from and whether the command only pretends (dry_run).  *)
(***************************************************************************)
EXTENDS Scripts

\* The commit a node is to become: protected commits stay, any other one is
\* applied to what its parent became.
Rewritten(g) ==
    LET R[n \in g.nodes] ==
            IF IsProtected(g, n) THEN n
            ELSE IF g.action[n] = "fixup" THEN Squash(n, R[g.parent[n]])
            ELSE LET picked == CherryPick(R[g.parent[n]], n)
                 IN  IF n \in DOMAIN g.reword
                     THEN RewordTip(picked, g.reword[n]) ELSE picked
    IN  R

\* The branches to_scripts moves, with their node.
UserBranches(g) ==
    UNION {{[name |-> b.name, node |-> n] :
                b \in Range(SelectSeq(g.branches[n], HasUserCommits))} :
           n \in g.nodes}

PlannedRefs(p) ==
    LET goes == UserBranches(p.graph)
        drops == {d.name : d \in Range(p.dropped)}
        becomes == Rewritten(p.graph)
        At(b) == (CHOOSE u \in goes : u.name = b).node
    IN  [b \in DOMAIN p.refs |->
            IF p.dry_run THEN p.refs[b]
            ELSE IF b \in drops THEN NoCommit
            ELSE IF \E u \in goes : u.name = b THEN becomes[At(b)]
            ELSE p.refs[b]]

\* The branches a branch is stacked on, among those that the stack rewrites.
Below(p) ==
    [b \in DOMAIN p.refs |->
        {u.name : u \in {v \in UserBranches(p.graph) :
            /\ ~IsProtected(p.graph, v.node)
            /\ \E w \in UserBranches(p.graph) :
                  /\ w.name = b /\ w.node # v.node
                  /\ v.node \in Ancestry(p.graph, w.node)}}]

\* Where a detached HEAD goes: with its commit, and into what the commits
\* squashed into that one make of it.
HeadBecomes(g, id) ==
    LET becomes == Rewritten(g)
        F[n \in g.nodes] ==
            LET fixups == {k \in Range(Kids(g, n)) : g.action[k] = "fixup"}
            IN  IF fixups = {} THEN becomes[n]
                ELSE F[CHOOSE k \in fixups : TRUE]
    IN  IF id \in g.nodes /\ ~IsProtected(g, id) THEN F[id] ELSE id

=============================================================================
