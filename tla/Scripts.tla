------------------------------ MODULE Scripts ------------------------------
(***************************************************************************)
(* graph::to_scripts: the commit graph, as the planning operations left    *)
(* it, turned into the scripts the executor plays.  The dropped branches   *)
(* are a sequence of [id, name].                                           *)
(***************************************************************************)
EXTENDS GraphOps

\* dropped_branches as to_scripts collects it: a map by commit id, in which
\* the last branch of a commit replaces the ones before it.
DropMap(dropped) ==
    [id \in {d.id : d \in Range(dropped)} |->
        dropped[SelectLastInSeq(dropped, LAMBDA d : d.id = id)].name]

Drops(drop, n) ==
    IF n \in DOMAIN drop THEN <<[op |-> "delete", name |-> drop[n]]>> ELSE << >>

Creates(g, n) ==
    LET own == SelectSeq(g.branches[n], HasUserCommits)
    IN  [i \in DOMAIN own |-> [op |-> "create", name |-> own[i].name]]

\* What gather_script pushes for one commit.  A protected commit above one
\* that is not would make it panic; here it makes a command that is none.
NodeCommands(g, drop, n) ==
    Drops(drop, n)
    \o <<[op |-> g.action[n], id |-> n]>>
    \o (IF g.action[n] = "pick" /\ n \in DOMAIN g.reword
        THEN <<[op |-> "reword", msg |-> g.reword[n]]>> ELSE << >>)
    \o Creates(g, n)

(***************************************************************************)
(* gather_script.  A batch follows first children to a leaf; every other   *)
(* child starts a batch of its own, pushed before the one it branches      *)
(* from.  Here a batch lists its commits; ExpandBatch adds the commands.   *)
(***************************************************************************)
OtherKids(g, n) == IF Kids(g, n) = << >> THEN << >> ELSE Tail(Kids(g, n))

Spine(g, start) ==
    LET S[n \in g.nodes] ==
            <<n>> \o (IF Kids(g, n) = << >> THEN << >> ELSE S[Head(Kids(g, n))])
    IN  S[start]

GatherScript(g, start) ==
    LET G[n \in g.nodes] ==
            LET ids == Spine(g, n)
                others == FlattenSeq([i \in DOMAIN ids |-> OtherKids(g, ids[i])])
            IN  FlattenSeq([i \in DOMAIN others |-> G[others[i]]])
                \o <<[onto |-> g.parent[n], ids |-> ids]>>
    IN  G[start]

(***************************************************************************)
(* Script::from(Vec<Batch>).                                               *)
(***************************************************************************)
\* gen_graph and sort_batches.  No batch carries a mark yet when the graph is
\* made, so its only edges go from a commit to the batches onto it; petgraph's
\* toposort of such a graph lists the commits from the last one named to the
\* first, each followed by its batches as they were pushed.
SortBatches(batches) ==
    LET first == {i \in DOMAIN batches :
                    \A j \in 1..(i - 1) : batches[j].onto # batches[i].onto}
        ontos == SetToSortSeq(first, >)
    IN  FlattenSeq([k \in DOMAIN ontos |->
            SelectSeq(batches, LAMBDA b : b.onto = batches[ontos[k]].onto)])

\* infer_marks: a commit some batch goes onto is marked after its commands.
NoMarks(batches, n) == << >>            \* mutant: no mark is inferred

Marks(batches, n) ==
    IF \E b \in Range(batches) : b.onto = n THEN <<[op |-> "mark", id |-> n]>>
                                            ELSE << >>

ExpandBatch(g, drop, batches, b) ==
    [onto |-> b.onto,
     commands |-> FlattenSeq([i \in DOMAIN b.ids |->
         NodeCommands(g, drop, b.ids[i]) \o Marks(batches, b.ids[i])])]

StackScript(g, drop, start) ==
    LET batches == SortBatches(GatherScript(g, start))
    IN  [i \in DOMAIN batches |-> ExpandBatch(g, drop, batches, batches[i])]

(***************************************************************************)
(* to_scripts.                                                             *)
(***************************************************************************)
\* protected_branches_to_scripts: nothing is picked, branches move to n.
ProtectedScripts(g, drop, n) ==
    LET commands == Drops(drop, n) \o Creates(g, n)
    IN  IF commands = << >> THEN << >>
        ELSE << <<[onto |-> n, commands |-> commands]>> >>

\* The commits whose dropped branch ends up in some script.
Reached(g) == IF IsProtected(g, g.root) THEN g.nodes ELSE {}

LeftOver(g, drop) ==
    LET ids == SetToSeq(DOMAIN drop \ Reached(g))
        commands == [i \in DOMAIN ids |-> [op |-> "delete", name |-> drop[ids[i]]]]
    IN  IF ids = << >> THEN << >>
        ELSE << <<[onto |-> g.root, commands |-> commands]>> >>

ToScripts(g, dropped) ==
    LET drop == DropMap(dropped)
        later == [id \in DOMAIN drop \ {g.root} |-> drop[id]]
        order == Descendants(g, g.root, {n \in g.nodes : ~IsProtected(g, n)})
        ScriptsOf(n) ==
            IF IsProtected(g, n) THEN ProtectedScripts(g, later, n)
            ELSE IF n = g.root THEN << >>
            ELSE <<StackScript(g, drop, n)>>
    IN  LeftOver(g, drop)
        \o (IF IsProtected(g, g.root) THEN ProtectedScripts(g, drop, g.root)
                                      ELSE << >>)
        \o FlattenSeq([i \in DOMAIN order |-> ScriptsOf(order[i])])

=============================================================================
