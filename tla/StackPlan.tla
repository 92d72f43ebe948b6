----------------------------- MODULE StackPlan -----------------------------
(***************************************************************************)
(* What `git stack' makes of a commit graph: the changes of --rebase,      *)
(* --fixup and --repair (plan_changes), the script that carries them out   *)
(* (to_script), and the branches --push has to push.                       *)
(*                                                                         *)
(* A script is a tree: a list of commands, and the dependent scripts that  *)
(* run after it has been committed.  Here it is the sequence of its        *)
(* scripts in the order they run, each with the position of the one it     *)
(* depends on, 0 for the first.                                            *)
(***************************************************************************)
EXTENDS StackGraph

(***************************************************************************)
(* node_to_script and extend_dependents.                                   *)
(***************************************************************************)
AsItIs(part, command) == part           \* mutant: the script starts anywhere

WithFirst(part, command) ==
    [part EXCEPT ![1].commands = <<command>> \o @]

\* A script followed by those that depend on it, each a sequence itself.
Above(commands, parts) ==
    LET Shifted(part, k) ==
            [i \in DOMAIN part |->
                [part[i] EXCEPT !.above = IF @ = 0 THEN 1 ELSE @ + k]]
    IN  FoldLeft(LAMBDA all, part : all \o Shifted(part, Len(all)),
                 <<[commands |-> commands, above |-> 0]>>, parts)

CreatesAt(g, n) ==
    LET own == SelectSeq(g.branches[n], IsLocal)
    IN  [i \in DOMAIN own |-> [op |-> "create", name |-> own[i].name]]

\* One commit above another goes into the same script, unless it ends a
\* branch: then, and where the graph forks, the commit is marked and what is
\* above it comes back to the mark.
NodeScripts(g, top) ==
    LET S[n \in g.nodes] ==
            LET picks == IF g.action[n] \in {"pick", "fixup"}
                         THEN <<[op |-> g.action[n], id |-> n]>> ELSE << >>
                own == picks \o CreatesAt(g, n)
                kids == Kids(g, n)
                parts == SelectSeq([i \in DOMAIN kids |-> S[kids[i]]],
                                   LAMBDA part : part # << >>)
                inlined == [Head(parts) EXCEPT ![1].commands = own \o @]
                marked == own \o <<[op |-> "mark", id |-> n]>>
                back == [i \in DOMAIN parts |->
                            WithFirst(parts[i], [op |-> "back", id |-> n])]
            IN  IF parts = << >>
                THEN IF own = << >> THEN << >> ELSE Above(own, << >>)
                ELSE IF Len(parts) = 1 /\ ~HasBranches(g, n) THEN inlined
                ELSE Above(marked, back)
    IN  S[top]

(***************************************************************************)
(* to_script, and the deletions plan_changes appends.  The first script    *)
(* moves the branches at protected commits, all but those at the root; the *)
(* stacks depend on it.                                                    *)
(***************************************************************************)
ToScript(g, dropped) ==
    LET order == SelectSeq(Descendants(g, g.root,
                               {n \in g.nodes : ~IsProtected(g, n)}),
                           LAMBDA n : n # g.root)
        SwitchTo(n) == [op |-> "switch", id |-> n]
        Moves(n) == IF IsProtected(g, n) /\ HasBranches(g, n)
                    THEN <<SwitchTo(n)>> \o CreatesAt(g, n) ELSE << >>
        names == SetToSeq(dropped)
        deletes == [i \in DOMAIN names |-> [op |-> "delete", name |-> names[i]]]
        first == FlattenSeq([i \in DOMAIN order |-> Moves(order[i])]) \o deletes
        Stack(n) == LET part == NodeScripts(g, n)
                    IN  IF IsProtected(g, n) \/ part = << >> THEN << >>
                        ELSE WithFirst(part, SwitchTo(g.parent[n]))
        stacks == SelectSeq([i \in DOMAIN order |-> Stack(order[i])],
                            LAMBDA part : part # << >>)
    IN  Above(first, IF IsProtected(g, g.root) THEN stacks ELSE << >>)

-----------------------------------------------------------------------------
MergeBase(a, b) ==
    LET shared == Histories(a) \cap Histories(b)
    IN  CHOOSE c \in shared : \A d \in shared : Len(d) <= Len(c)

\* What is protected: commits, and the stacks that are large, old or somebody
\* else's.
Settled(g, protected, o) ==
    LET large == ProtectLargeStacks(ProtectCommits(g, protected), o.large)
    IN  ProtectWholeStacks(ProtectWholeStacks(large, o.stale), o.foreign)

(***************************************************************************)
(* plan_changes.  The branches are those of the stack with the base's and  *)
(* the onto's; the protected ones are given by their commits and by the    *)
(* names of the local ones; the options o say what is asked and which      *)
(* commits are old, or somebody else's.                                    *)
(***************************************************************************)
PlanChanges(branches, base, onto, protected, names, o) ==
    LET settled == Settled(FromBranches(branches), protected \cup {onto}, o)
        start == MergeBase(base, onto)
        pulled == {c \in Histories(onto) : Len(c) > Len(start)}
        moved == DropSquashed(
                     FastForward(MoveStacks(settled, onto), start, onto),
                     {Tree(c) : c \in pulled})
        dropped == IF o.rebase THEN MergedBranches(moved, pulled, names)
                               ELSE {}
        rebased == IF o.rebase THEN WithoutBranches(moved, dropped) ELSE settled
        fixed == FixupStacks(rebased, o.fixup)
    IN  [graph |-> IF o.repair THEN RealignStacks(MergeStacks(fixed)) ELSE fixed,
         dropped |-> dropped]

\* push: the graph is made anew of the branches as they are.  git_push goes
\* from the root up.
ToPush(branches, protected, pushed, o) ==
    LET g == Settled(FromBranches(branches), protected, o)
        order == SelectSeq(Descendants(g, g.root, {}),
                           LAMBDA n : n \in Pushable(g, pushed))
        Names(n) == LET own == SelectSeq(g.branches[n], IsLocal)
                    IN  [i \in DOMAIN own |-> own[i].name]
    IN  FlattenSeq([i \in DOMAIN order |-> Names(order[i])])

=============================================================================
