------------------------------ MODULE Restack ------------------------------
(***************************************************************************)
(* A restacking command from its planned graph to the end of the executor: *)
(* to_scripts turns the graph into scripts, the executor plays them.       *)
(* The properties compare the repository with the graph itself, read as a  *)
(* tree, without batches, marks or an order.                               *)
(***************************************************************************)
EXTENDS Executor, Outcomes

(***************************************************************************)
(* A plan is a graph and its dropped branches, with the repository they    *)
(* were made from and the options of the command.  The jobs of a command   *)
(* that restacks are the JobOf its plans.                                  *)
(***************************************************************************)
\* Each commit of the graph, with what it is to become.
Becomings(g) == {<<n, Rewritten(g)[n]>> : n \in g.nodes}

GoalOf(p) ==
    [old |-> p.refs,
     new |-> PlannedRefs(p),
     below |-> Below(p),
     becomes |-> Becomings(p.graph),
     head |-> HeadBecomes(p.graph, p.head.at)]

Goals ==
    [old : [Branch -> Commit \cup {NoCommit}],
     new : [Branch -> Commit \cup {NoCommit}],
     below : [Branch -> SUBSET Branch],
     becomes : SUBSET (Commit \X Commit),
     head : Commit \cup {NoCommit}]

JobOf(p) ==
    [goal |-> GoalOf(p),
     refs |-> p.refs, head |-> p.head,
     scripts |-> ToScripts(p.graph, p.dropped),
     restore |-> p.restore, dry_run |-> p.dry_run]

-----------------------------------------------------------------------------
(***************************************************************************)
(* What the scripts of a job are to build, command by command.             *)
(***************************************************************************)
\* What a command makes of the commit built so far.
Applied(commit, c) ==
    CASE c.op = "pick" -> CherryPick(commit, c.id)
      [] c.op = "reword" -> RewordTip(commit, c.msg)
      [] c.op = "fixup" -> Squash(c.id, commit)
      [] OTHER -> commit

\* The commit built before each of the commands, and after the last one.
BuiltBy(start, commands) ==
    LET C[i \in 1..(Len(commands) + 1)] ==
            IF i = 1 THEN start ELSE Applied(C[i - 1], commands[i - 1])
    IN  C

Updates == {"create", "delete"}
MarkedIn(b) == {c.id : c \in {d \in Range(b.commands) : d.op = "mark"}}
UpdatedIn(b) == {c.name : c \in {d \in Range(b.commands) : d.op \in Updates}}
DeletedIn(b) == {c.name : c \in {d \in Range(b.commands) : d.op = "delete"}}

BatchesOf(j) == UNION {Range(s) : s \in Range(j.scripts)}
Marked(j) == UNION {MarkedIn(b) : b \in BatchesOf(j)}

\* A batch goes onto what became of its commit, if that is one to rewrite.
StartOf(j, b) ==
    IF b.onto \in Marked(j)
    THEN (CHOOSE p \in j.goal.becomes : p[1] = b.onto)[2] ELSE b.onto

\* A mark stands for what the graph makes of its commit, a branch is put where
\* the graph puts it, after the branches below it.
CommandIsSound(j, batches, k, i, built) ==
    LET c == batches[k].commands[i]
    IN  /\ c.op = "mark" => <<c.id, built[i]>> \in j.goal.becomes
        /\ c.op = "create" => j.goal.new[c.name] = built[i]
        /\ c.op = "delete" => j.goal.new[c.name] = NoCommit
        /\ c.op \in Updates =>
            \A a \in j.goal.below[c.name] :
                \/ \E e \in 1..(k - 1) : a \in UpdatedIn(batches[e])
                \/ \E h \in 1..(i - 1) : /\ batches[k].commands[h].op = "create"
                                       /\ batches[k].commands[h].name = a

BatchIsSound(j, batches, k) ==
    LET b == batches[k]
        built == BuiltBy(StartOf(j, b), b.commands)
    IN  /\ b.onto \in Marked(j) => \E e \in 1..(k - 1) : b.onto \in MarkedIn(batches[e])
        /\ \A i \in DOMAIN b.commands : CommandIsSound(j, batches, k, i, built)

\* Where the commit HEAD was at has gone by then (Executor::update_head).
HeadFollows(id, c, old, new) ==
    CASE c.op = "pick" -> Follow(id, c.id, new)
      [] c.op = "reword" -> Follow(id, old, new)
      [] c.op = "fixup" -> Follow(Follow(id, old, new), c.id, new)
      [] OTHER -> id

HeadsBy(id, commands, built) ==
    LET H[i \in 1..(Len(commands) + 1)] ==
            IF i = 1 THEN id
            ELSE HeadFollows(H[i - 1], commands[i - 1], built[i - 1], built[i])
    IN  H

\* One batch, k0 of script s0, takes a detached HEAD where the graph does; no
\* other moves it.
Passed(s0, k0, s, k) == s0 < s \/ (s0 = s /\ k0 <= k)
HeadOnceIt(j, passed) == IF passed THEN j.goal.head ELSE j.head.at

HeadTurns(j, s0, k0) ==
    \A s \in DOMAIN j.scripts : \A k \in DOMAIN j.scripts[s] :
        LET b == j.scripts[s][k]
            heads == HeadsBy(HeadOnceIt(j, Passed(s0, k0, s, k - 1)), b.commands,
                             BuiltBy(StartOf(j, b), b.commands))
        IN  heads[Len(b.commands) + 1] = HeadOnceIt(j, Passed(s0, k0, s, k))

HeadIsSound(j) ==
    \E s0 \in DOMAIN j.scripts : \E k0 \in DOMAIN j.scripts[s0] : HeadTurns(j, s0, k0)

\* No branch is deleted twice, or was not there.
DeletesAreSound(j) ==
    \A s \in DOMAIN j.scripts : \A k \in DOMAIN j.scripts[s] :
        LET b == j.scripts[s][k]
        IN  /\ \A name \in DeletedIn(b) : j.refs[name] # NoCommit
            /\ \A g, h \in DOMAIN b.commands :
                    /\ b.commands[g].op = "delete" /\ b.commands[h].op = "delete"
                    /\ b.commands[g].name = b.commands[h].name
                    => g = h
            /\ \A t \in DOMAIN j.scripts : \A m \in DOMAIN j.scripts[t] :
                    <<s, k>> # <<t, m>> =>
                        DeletedIn(b) \cap DeletedIn(j.scripts[t][m]) = {}

SoundPlan(j) ==
    /\ j.goal \in Goals
    /\ j.goal.old = j.refs
    /\ j.dry_run => j.goal.new = j.refs
    /\ \A p, q \in j.goal.becomes : p[1] = q[1] => p = q
    /\ ~j.dry_run =>
        /\ \A s \in DOMAIN j.scripts : \A k \in DOMAIN j.scripts[s] :
                BatchIsSound(j, j.scripts[s], k)
        /\ \A b \in Branch : \/ j.goal.new[b] = j.refs[b]
                             \/ \E batch_of \in BatchesOf(j) : b \in UpdatedIn(batch_of)
        /\ DeletesAreSound(j)
        /\ j.restore = NoBranch /\ BatchesOf(j) # {} => HeadIsSound(j)

\* No branch loses a change, and a stack stays one.
SoundGoal(g) ==
    \A a, b \in Branch : g.new[a] # NoCommit /\ g.new[b] # NoCommit =>
        /\ Tree(g.old[a]) \subseteq Tree(g.new[a])
        /\ IsPrefix(g.old[a], g.old[b]) => IsPrefix(g.new[a], g.new[b])

-----------------------------------------------------------------------------
(***************************************************************************)
(* Properties.                                                             *)
(***************************************************************************)
\* What to_scripts makes of a graph, played without a failure, is what the graph
\* asks for: a batch goes onto a commit that an earlier batch of its script marks
\* or that stays, each mark is what the graph makes of its commit, each branch is
\* put where the graph puts it and after those below it, and a detached HEAD goes
\* along; and the graph itself takes no change from a branch nor parts a stack.
PlanIsSound == SoundPlan(job) /\ SoundGoal(job.goal)

Branches == INSTANCE StackMoves WITH
    Plans <- Goal, plan <- job.goal, tip <- refs

\* Through faults, abandoned batches and a kill at any step, a branch is
\* either untouched or exactly where the graph puts it, and never ahead of
\* the branches below it in its stack.
StacksMoveUpwards == Branches!Spec

\* A run git never fails succeeds: every branch is where the graph puts it,
\* the dropped ones are gone, and HEAD is back on its branch or on what its
\* commit became.
CleanRunRestacks ==
    pc = "done" /\ faults = 0 =>
        /\ success
        /\ refs = job.goal.new
        /\ IF restore_branch # NoBranch \/ ~detached
           THEN head.on = (IF detached THEN restore_branch
                                       ELSE job.head.on)
           ELSE head = [on |-> NoBranch, at |-> job.goal.head]

\* README, "Maintain branches relative to each other through rebase": a branch
\* stacked on another one is stacked on it again after a run git never fails.
StacksStayStacked ==
    pc = "done" /\ faults = 0 =>
        \A a, b \in Branch :
            /\ IsPrefix(job.refs[a], job.refs[b])
            /\ refs[a] # NoCommit /\ refs[b] # NoCommit
            => IsPrefix(refs[a], refs[b])

\* No branch ever loses a change: what it held when the command began, it
\* holds in every state in which it exists.
NoChangeIsLost ==
    \A b \in Branch :
        refs[b] # NoCommit => Tree(job.refs[b]) \subseteq Tree(refs[b])

=============================================================================
