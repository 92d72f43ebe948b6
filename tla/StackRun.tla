------------------------------ MODULE StackRun ------------------------------
(***************************************************************************)
(* A run of `git stack' that changes something: the user's work is put on  *)
(* git's stash, the branches are backed up, the script of the plan is      *)
(* played, HEAD is put back, the branches that are ready are pushed, and   *)
(* the work comes back.                                                    *)
(*                                                                         *)
(* A script is staged in memory in one step; everything git does to a file *)
(* is a step of its own, so that every state is one the command can be     *)
(* killed in.  The scripts of the stacks run one after the other.          *)
(***************************************************************************)
EXTENDS StackChoice

CONSTANTS
    LocalMain,  \* a protected branch
    Jobs,       \* what the command is run on: JobOf its requests
    Goal,       \* where the plan puts the branches
    MaxFaults   \* how many times git may fail in a behaviour

ASSUME MainIsABranch == LocalMain \in Branch /\ NoBranch \notin Branch
ASSUME FaultBound == MaxFaults \in Nat

\* legacy::git::Command: to commits, marked or not, and for branches.
Command == [op : {"switch", "mark", "back", "pick", "fixup"}, id : Commit]
              \cup [op : {"create", "delete"}, name : Branch]

ASSUME JobsAreSound ==
    \A j \in Jobs : /\ j.asked.work \in BOOLEAN
                    /\ j.asked.refs \in [Branch -> Commit \cup {NoCommit}]
                    /\ j.asked.protected \subseteq Branch
                    /\ j.goal \in Goal
                    /\ j.scripts \in Seq([commands : Seq(Command), above : Nat])

(***************************************************************************)
(* From the repository and the options to the job.  A request has          *)
(*   refs, remote  the local branches, and those of the push remote        *)
(*   protected, upstream, head, stack, base, onto   as in StackChoice       *)
(*   pull, fetched  --pull, and where upstream's branches are by now        *)
(*   work          there are uncommitted changes                           *)
(*   midway        a merge, rebase or the like is under way                *)
(*   rebase, fixup, repair, push, dry_run                                  *)
(*   stale, foreign   the commits that are old, or somebody else's         *)
(*   large         stack.protect-commit-count, 0 for none                  *)
(*   limit         stack.auto-base-commit-count, 0 for none                *)
(***************************************************************************)
Restacks(r) == r.rebase \/ r.fixup # "ignore" \/ r.repair

\* The branch to come back to; when a stack drops it, the local branch of what
\* that stack goes onto, if there is one.
RestoreBranch(r, stacks, plans) ==
    LET Local(i) == {b.name : b \in {t \in stacks[i].onto.by :
                                        IsThere(r, Ours(t.name))}}
        After(on, i) == IF on \in plans[i].dropped /\ Local(i) # {}
                        THEN CHOOSE name \in Local(i) : TRUE ELSE on
    IN  FoldLeft(After, r.head.on, [i \in DOMAIN plans |-> i])

(***************************************************************************)
(* What the graph says of the branches, read as a tree.                    *)
(***************************************************************************)
Becomes(g) ==
    LET R[n \in g.nodes] ==
            IF IsProtected(g, n) THEN n
            ELSE IF g.action[n] = "delete" THEN R[g.parent[n]]
            ELSE IF g.action[n] = "fixup" THEN Squash(n, R[g.parent[n]])
            ELSE CherryPick(R[g.parent[n]], n)
    IN  R

LocalsAt(g, n) == {b.name : b \in {c \in Range(g.branches[n]) : IsLocal(c)}}

\* What a plan makes of the branches before, but for those at its root, which
\* stay; of the stacks that move a branch, the last one decides.
WithGoal(goal, plan) ==
    LET g == plan.graph
        At(b) == {n \in g.nodes \ {g.root} : b \in LocalsAt(g, n)}
        becomes == Becomes(g)
        moved == {b \in Branch : b \in plan.dropped \/ At(b) # {}}
        Below(b) == UNION {LocalsAt(g, a) :
                        a \in UNION {Ancestry(g, n) \ {n, g.root} : n \in At(b)}}
    IN  [goal EXCEPT
            !.new = [b \in Branch |->
                        IF b \in plan.dropped THEN NoCommit
                        ELSE IF At(b) = {} THEN @[b]
                        ELSE becomes[CHOOSE n \in At(b) : TRUE]],
            !.below = [b \in Branch |-> IF b \in moved THEN Below(b)
                                         ELSE @[b] \ moved]]

GoalOf(r, plans) ==
    LET goal == FoldLeft(WithGoal, [old |-> r.refs, new |-> r.refs,
                                    below |-> [b \in Branch |-> {}]], plans)
    IN  IF r.dry_run THEN [goal EXCEPT !.new = r.refs] ELSE goal

Goals ==
    [old : [Branch -> Commit \cup {NoCommit}],
     new : [Branch -> Commit \cup {NoCommit}],
     below : [Branch -> SUBSET Branch]]

\* The scripts of the stacks, all planned before the first one runs.
AllScripts(parts) ==
    LET Shifted(part, k) ==
            [i \in DOMAIN part |->
                [part[i] EXCEPT !.above = IF @ = 0 THEN 0 ELSE @ + k]]
    IN  FoldLeft(LAMBDA all, part : all \o Shifted(part, Len(all)), << >>, parts)

JobOf(r) ==
    LET stacks == ChosenStacks(r, r)
        now == IF r.pull THEN Pulled(r, stacks, r.fetched) ELSE r
        guarded == Guarded(r, stacks)
        Planned(done, stack) == Append(done, PlanOf(now, stack, guarded, r))
        plans == FoldLeft(Planned, << >>, stacks)
    IN  [asked |-> r,
         upstream |-> now.upstream,
         listed |-> UNION {s.branches : s \in Range(stacks)},
         guarded |-> guarded,
         goal |-> GoalOf(r, plans),
         scripts |-> AllScripts([i \in DOMAIN plans |->
                            ToScript(plans[i].graph, plans[i].dropped)]),
         restore |-> RestoreBranch(r, stacks, plans)]

VARIABLES
    job,
    pc,
    script, at,         \* the script that runs, the next pending update of it
    marks,              \* Executor.marks
    branches,           \* Executor.branches: <<commit, name>>
    delete_branches,    \* Executor.delete_branches
    post_rewrite,       \* Executor.post_rewrite: <<old, new>>
    missed,             \* the scripts that failed, or depend on one that did
    detached,           \* Executor.detached
    refs, head,         \* the local branches and HEAD
    work,               \* where the user's uncommitted changes are
    backup,             \* the branches in the snapshot, once there is one
    remote,             \* the branches of the push remote
    pushes,             \* the branches to push
    unpushed,           \* some push has failed
    told,               \* what the post-rewrite hook was told
    faults

staged == <<marks, branches, delete_branches, post_rewrite>>
repository == <<refs, head, remote>>
vars == <<job, pc, script, at, staged, missed, detached, repository, work,
          backup, pushes, unpushed, told, faults>>

asked == job.asked
dry_run == asked.dry_run
Scripts == job.scripts
NoBackup == [b \in {} |-> NoCommit]

HeadCommit == IF head.on = NoBranch THEN head.at ELSE refs[head.on]

Terminal == {"done", "refused", "unpopped", "error"}

Begins(request) == IF Restacks(request) THEN "stash" ELSE "push"

Init ==
    /\ job \in Jobs
    /\ pc = Begins(job.asked)
    /\ script = 1 /\ at = 1
    /\ marks = [m \in {} |-> NoCommit]
    /\ branches = << >> /\ delete_branches = << >> /\ post_rewrite = << >>
    /\ missed = {} /\ detached = FALSE
    /\ refs = job.asked.refs /\ head = job.asked.head
    /\ remote = job.asked.remote
    /\ work = IF job.asked.work THEN "files" ELSE "none"
    /\ backup = NoBackup
    /\ pushes = << >> /\ unpushed = FALSE
    /\ told = {} /\ faults = 0

Fault ==
    /\ ~dry_run
    /\ faults < MaxFaults
    /\ faults' = faults + 1

(***************************************************************************)
(* stack, up to the plan.                                                  *)
(***************************************************************************)
\* A stash that fails is only logged.
Stash ==
    /\ pc = "stash"
    /\ pc' = "check"
    /\ \/ /\ work' = IF work = "files" /\ ~dry_run THEN "stash" ELSE work
          /\ UNCHANGED faults
       \/ work = "files" /\ Fault /\ UNCHANGED work
    /\ UNCHANGED <<job, script, at, staged, missed, detached, repository,
                   backup, pushes, unpushed, told>>

\* A pop that fails is only logged; the work stays on the stash.
PopTo(end) ==
    \/ /\ work' = IF work = "stash" THEN "files" ELSE work
       /\ pc' = end
       /\ UNCHANGED faults
    \/ work = "stash" /\ Fault /\ pc' = "unpopped" /\ UNCHANGED work

IsDirty == asked.midway \/ work = "files"

\* --dry-run only warns.
CheckNothing ==                 \* mutant: the working tree is not looked at
    /\ pc = "check"
    /\ pc' = "backup"
    /\ UNCHANGED <<job, script, at, staged, missed, detached, repository,
                   work, backup, pushes, unpushed, told, faults>>

Check ==
    /\ pc = "check" /\ (dry_run \/ ~IsDirty)
    /\ pc' = "backup"
    /\ UNCHANGED <<job, script, at, staged, missed, detached, repository,
                   work, backup, pushes, unpushed, told, faults>>

Refuse ==
    /\ pc = "check" /\ ~dry_run /\ IsDirty
    /\ PopTo("refused")
    /\ UNCHANGED <<job, script, at, staged, missed, detached, repository,
                   backup, pushes, unpushed, told>>

\* git_branch_stash::Snapshot::from_repo, and Stack::push.
NotPushed ==                    \* mutant: the snapshot is not put on the stack
    /\ pc = "backup"
    /\ pc' = "script"
    /\ UNCHANGED <<job, script, at, staged, missed, detached, repository,
                   work, backup, pushes, unpushed, told, faults>>

BackUp ==
    /\ pc = "backup"
    /\ pc' = "script"
    /\ backup' = IF dry_run THEN NoBackup ELSE refs
    /\ UNCHANGED <<job, script, at, staged, missed, detached, repository,
                   work, pushes, unpushed, told, faults>>

\* An error that ends the command at once leaves the work on the stash.
Stop ==
    /\ pc' = "error"
    /\ UNCHANGED <<job, script, at, staged, missed, detached, repository,
                   work, backup, pushes, unpushed, told>>

BackUpFails == pc = "backup" /\ Fault /\ Stop

(***************************************************************************)
(* Executor::run_script.                                                   *)
(***************************************************************************)
Running == pc = "script" /\ script <= Len(Scripts)

\* stage_single: what was listed as `old' is now `new'.
Retarget(pairs, old, new) ==
    [i \in DOMAIN pairs |->
        IF pairs[i][2] = old THEN <<pairs[i][1], new>> ELSE pairs[i]]

\* The commit a mark stands for.
RegisteredAsIs(known, id, new) ==               \* mutant: its old id
    [m \in DOMAIN known \cup {id} |-> m]

Registered(known, id, new) ==
    [m \in DOMAIN known \cup {id} |-> IF m = id THEN new ELSE known[m]]

StageSingle(dry, st, command) ==
    LET op == command.op
        picked == IF dry THEN command.id ELSE CherryPick(st.cursor, command.id)
        squashed == IF dry THEN command.id ELSE Squash(command.id, st.cursor)
    IN  CASE op = "switch" -> [st EXCEPT !.cursor = command.id]
          [] op = "mark" -> [st EXCEPT
                !.marks = Registered(@, command.id, st.cursor)]
          [] op = "back" -> [st EXCEPT !.cursor = st.marks[command.id]]
          [] op = "pick" -> [st EXCEPT
                !.cursor = picked,
                !.rewrites = Append(@, <<command.id, picked>>)]
          [] op = "fixup" -> [st EXCEPT
                !.cursor = squashed,
                !.rewrites = Append(Retarget(@, st.cursor, squashed),
                                    <<command.id, squashed>>)]
          [] op = "create" -> [st EXCEPT
                !.branches = Append(@, <<st.cursor, command.name>>)]
          [] op = "delete" -> [st EXCEPT !.deletes = Append(@, command.name)]

\* After each of the commands.
StageAll(dry, start, commands) ==
    LET S[i \in 0..Len(commands)] ==
            IF i = 0 THEN start ELSE StageSingle(dry, S[i - 1], commands[i])
    IN  S

StagedNow ==
    StageAll(dry_run,
             [cursor |-> HeadCommit, marks |-> marks, branches |-> branches,
              deletes |-> delete_branches, rewrites |-> post_rewrite],
             Scripts[script].commands)

StageScript ==
    /\ Running /\ script \notin missed
    /\ LET st == StagedNow[Len(Scripts[script].commands)]
       IN  /\ marks' = st.marks /\ branches' = st.branches
           /\ delete_branches' = st.deletes /\ post_rewrite' = st.rewrites
    /\ pc' = "hook"
    /\ UNCHANGED <<job, script, at, missed, detached, repository, work,
                   backup, pushes, unpushed, told, faults>>

DependsOn(scripts, i, j) ==
    LET D[k \in DOMAIN scripts] ==
            k = j \/ (scripts[k].above # 0 /\ D[scripts[k].above])
    IN  D[i]

AllAfter(bad) ==                \* mutant: a failure ends the whole command
    {i \in DOMAIN Scripts : \E j \in bad : j <= i}

\* The scripts that depend on a failed one do not run; the others do.
DependentsOf(bad) ==
    {i \in DOMAIN Scripts : \E j \in bad : DependsOn(Scripts, i, j)}

\* Executor::abandon.
Abandon ==
    /\ missed' = DependentsOf(missed \cup {script})
    /\ branches' = << >> /\ delete_branches' = << >> /\ post_rewrite' = << >>
    /\ script' = script + 1
    /\ pc' = "script"
    /\ UNCHANGED <<job, at, detached, repository, work, backup, pushes,
                   unpushed, told>>

\* A cherry-pick or a squash fails; the marks before it stay.
StageFails ==
    /\ Running /\ script \notin missed
    /\ LET commands == Scripts[script].commands
       IN  \E i \in DOMAIN commands :
               /\ commands[i].op \in {"pick", "fixup"}
               /\ marks' = StagedNow[i - 1].marks
    /\ Fault
    /\ Abandon

SkipScript ==
    /\ Running /\ script \in missed
    /\ script' = script + 1
    /\ UNCHANGED <<job, pc, at, staged, missed, detached, repository, work,
                   backup, pushes, unpushed, told, faults>>

(***************************************************************************)
(* Executor::commit.                                                       *)
(***************************************************************************)
HookAccepts ==
    /\ pc = "hook"
    /\ pc' = IF branches = << >> /\ delete_branches = << >> THEN "notify"
                                                            ELSE "detach"
    /\ UNCHANGED <<job, script, at, staged, missed, detached, repository,
                   work, backup, pushes, unpushed, told, faults>>

HookVetoes == pc = "hook" /\ Fault /\ UNCHANGED marks /\ Abandon

Detach ==
    /\ pc = "detach"
    /\ IF dry_run THEN UNCHANGED <<head, detached>>
                  ELSE /\ head' = [on |-> NoBranch, at |-> HeadCommit]
                       /\ detached' = TRUE
    /\ at' = 1
    /\ pc' = "branch"
    /\ UNCHANGED <<job, script, staged, missed, refs, remote, work, backup,
                   pushes, unpushed, told, faults>>

DetachFails == pc = "detach" /\ Fault /\ UNCHANGED marks /\ Abandon

UpdatedEvenDry(name, commit) == [refs EXCEPT ![name] = commit]    \* mutant

Updated(name, commit) ==
    IF dry_run THEN refs ELSE [refs EXCEPT ![name] = commit]

\* Repo::branch, forced.
MoveBranch ==
    /\ pc = "branch" /\ at <= Len(branches)
    /\ refs' = Updated(branches[at][2], branches[at][1])
    /\ at' = at + 1
    /\ UNCHANGED <<job, pc, script, staged, missed, detached, head, remote,
                   work, backup, pushes, unpushed, told, faults>>

EndMoves ==
    /\ pc = "branch" /\ at > Len(branches)
    /\ at' = 1
    /\ pc' = "delete"
    /\ UNCHANGED <<job, script, staged, missed, detached, repository, work,
                   backup, pushes, unpushed, told, faults>>

DeleteBranch ==
    /\ pc = "delete" /\ at <= Len(delete_branches)
    /\ refs' = Updated(delete_branches[at], NoCommit)
    /\ at' = at + 1
    /\ UNCHANGED <<job, pc, script, staged, missed, detached, head, remote,
                   work, backup, pushes, unpushed, told, faults>>

UpdateFails ==
    /\ \/ pc = "branch" /\ at <= Len(branches)
       \/ pc = "delete" /\ at <= Len(delete_branches)
    /\ Fault
    /\ UNCHANGED marks
    /\ Abandon

EndDeletes ==
    /\ pc = "delete" /\ at > Len(delete_branches)
    /\ pc' = "notify"
    /\ UNCHANGED <<job, script, at, staged, missed, detached, repository,
                   work, backup, pushes, unpushed, told, faults>>

\* The post-rewrite hook; then the next script.
Notify ==
    /\ pc = "notify"
    /\ told' = IF dry_run THEN told
               ELSE told \cup {p \in Range(post_rewrite) : p[1] # p[2]}
    /\ branches' = << >> /\ delete_branches' = << >> /\ post_rewrite' = << >>
    /\ script' = script + 1
    /\ pc' = "script"
    /\ UNCHANGED <<job, at, marks, missed, detached, repository, work,
                   backup, pushes, unpushed, faults>>

(***************************************************************************)
(* Executor::close.                                                        *)
(***************************************************************************)
Closing == pc = "script" /\ script > Len(Scripts)
MustSwitch == ~dry_run /\ detached
CanSwitch == job.restore # NoBranch /\ refs[job.restore] # NoCommit

Close ==
    /\ Closing /\ ~MustSwitch
    /\ pc' = "push"
    /\ UNCHANGED <<job, script, at, staged, missed, detached, repository,
                   work, backup, pushes, unpushed, told, faults>>

Switch ==
    /\ Closing /\ MustSwitch /\ CanSwitch
    /\ head' = [on |-> job.restore, at |-> NoCommit]
    /\ pc' = "checkout"
    /\ UNCHANGED <<job, script, at, staged, missed, detached, refs, remote,
                   work, backup, pushes, unpushed, told, faults>>

\* A detached HEAD is called "HEAD", which is no branch.
SwitchFails ==
    /\ Closing /\ MustSwitch
    /\ IF CanSwitch THEN Fault ELSE UNCHANGED faults
    /\ Stop

\* checkout_head, forced: it overwrites what is in the working directory.
Checkout ==
    /\ pc = "checkout"
    /\ work' = IF work = "files" THEN "lost" ELSE work
    /\ pc' = "push"
    /\ UNCHANGED <<job, script, at, staged, missed, detached, repository,
                   backup, pushes, unpushed, told, faults>>

CheckoutFails == pc = "checkout" /\ Fault /\ Stop

(***************************************************************************)
(* push, and the end of the command.                                       *)
(***************************************************************************)
PushQueue ==
    LET r == [asked EXCEPT !.refs = refs, !.upstream = job.upstream]
        pushed == {Ours(b) : b \in {c \in Branch : /\ remote[c] # NoCommit
                                                  /\ remote[c] = refs[c]}}
    IN  ToPush(BranchesAt(r, job.listed, {HeadCommit}),
               {CommitAt(r, b) : b \in {g \in job.guarded : IsThere(r, g)}},
               pushed, asked)

PlanPush ==
    /\ pc = "push"
    /\ IF asked.push THEN pushes' = PushQueue /\ pc' = "pushing"
                     ELSE UNCHANGED pushes /\ pc' = "pop"
    /\ UNCHANGED <<job, script, at, staged, missed, detached, repository,
                   work, backup, unpushed, told, faults>>

\* git push --force-with-lease, one branch at a time; a failure is reported
\* at the end.
Push ==
    /\ pc = "pushing" /\ pushes # << >>
    /\ remote' = IF dry_run THEN remote
                 ELSE [remote EXCEPT ![Head(pushes)] = refs[Head(pushes)]]
    /\ pushes' = Tail(pushes)
    /\ UNCHANGED <<job, pc, script, at, staged, missed, detached, refs, head,
                   work, backup, unpushed, told, faults>>

PushFails ==
    /\ pc = "pushing" /\ pushes # << >>
    /\ Fault
    /\ unpushed' = TRUE
    /\ pushes' = Tail(pushes)
    /\ UNCHANGED <<job, pc, script, at, staged, missed, detached, repository,
                   work, backup, told>>

EndPush ==
    /\ pc = "pushing" /\ pushes = << >>
    /\ pc' = IF unpushed THEN "error" ELSE "pop"
    /\ UNCHANGED <<job, script, at, staged, missed, detached, repository,
                   work, backup, pushes, unpushed, told, faults>>

Pop ==
    /\ pc = "pop"
    /\ PopTo("done")
    /\ UNCHANGED <<job, script, at, staged, missed, detached, repository,
                   backup, pushes, unpushed, told>>

Ended == pc \in Terminal /\ UNCHANGED vars

Next ==
    \/ Stash \/ Check \/ Refuse \/ BackUp \/ BackUpFails
    \/ StageScript \/ StageFails \/ SkipScript
    \/ HookAccepts \/ HookVetoes \/ Detach \/ DetachFails
    \/ MoveBranch \/ EndMoves \/ DeleteBranch \/ UpdateFails \/ EndDeletes
    \/ Notify
    \/ Close \/ Switch \/ SwitchFails \/ Checkout \/ CheckoutFails
    \/ PlanPush \/ Push \/ PushFails \/ EndPush \/ Pop \/ Ended

Spec == Init /\ [][Next]_vars

-----------------------------------------------------------------------------
(***************************************************************************)
(* What the scripts of a job j do when nothing fails.                      *)
(***************************************************************************)
Fresh(known) ==
    [cursor |-> NoCommit, marks |-> known, branches |-> << >>,
     deletes |-> << >>, rewrites |-> << >>]

\* What is staged at the end of each script, with the marks of all before it.
Played(j) ==
    LET P[k \in 0..Len(j.scripts)] ==
            IF k = 0 THEN Fresh([m \in {} |-> NoCommit])
            ELSE StageAll(j.asked.dry_run, Fresh(P[k - 1].marks),
                          j.scripts[k].commands)[Len(j.scripts[k].commands)]
    IN  P

MarkedBy(commands) == {c.id : c \in {d \in Range(commands) : d.op = "mark"}}

\* The branches in the order they are updated, each with where to.
UpdatesOf(st) ==
    st.branches \o [i \in DOMAIN st.deletes |-> <<NoCommit, st.deletes[i]>>]

PlacedBy(j, k) ==
    {b \in Branch : <<j.goal.new[b], b>> \in Range(UpdatesOf(Played(j)[k]))}

\* A script begins by saying what it goes onto, or is there to delete.
Onto == {"switch", "back"}

StartIsSound(commands) ==
    \/ commands # << >> /\ commands[1].op \in Onto
    \/ \A i \in DOMAIN commands : commands[i].op = "delete"

\* A script comes back to what it marked itself, or to what a script it depends
\* on marked, and no other after that.
BackIsSound(j, k, i) ==
    LET commands == j.scripts[k].commands
        Marks(e) == MarkedBy(j.scripts[e].commands)
    IN  \/ \E h \in 1..(i - 1) : commands[h].op = "mark"
                                 /\ commands[h].id = commands[i].id
        \/ \E e \in 1..(k - 1) :
                /\ DependsOn(j.scripts, k, e) /\ commands[i].id \in Marks(e)
                /\ \A f \in (e + 1)..(k - 1) : commands[i].id \notin Marks(f)

\* A branch is put where the plan puts it, after the branches below it; or it
\* is left where it was, when it has not been moved before.
UpdateIsSound(j, k, i) ==
    LET updates == UpdatesOf(Played(j)[k])
        commit == updates[i][1]
        name == updates[i][2]
        Here(b) == \E h \in 1..(i - 1) : updates[h] = <<j.goal.new[b], b>>
        Below(b) == \E e \in 1..(k - 1) :
                        DependsOn(j.scripts, k, e) /\ b \in PlacedBy(j, e)
    IN  \/ /\ commit = j.goal.new[name]
           /\ \A b \in j.goal.below[name] :
                j.goal.new[b] = j.asked.refs[b] \/ Here(b) \/ Below(b)
        \/ /\ commit = j.asked.refs[name]
           /\ ~Here(name) /\ \A e \in 1..(k - 1) : name \notin PlacedBy(j, e)

ScriptIsSound(j, k) ==
    LET commands == j.scripts[k].commands
        st == Played(j)[k]
    IN  /\ j.scripts[k].above < k
        /\ StartIsSound(commands)
        /\ \A i \in DOMAIN commands : commands[i].op = "back" => BackIsSound(j, k, i)
        /\ st.branches \in Seq(Commit \X Branch) /\ st.deletes \in Seq(Branch)
        /\ \A i \in DOMAIN UpdatesOf(st) : UpdateIsSound(j, k, i)

SoundPlan(j) ==
    /\ j.goal \in Goals
    /\ j.goal.old = j.asked.refs
    /\ j.asked.dry_run \/ ~Restacks(j.asked) => j.goal.new = j.asked.refs
    /\ ~j.asked.dry_run =>
        /\ \A k \in DOMAIN j.scripts : ScriptIsSound(j, k)
        /\ \A b \in Branch : \/ j.goal.new[b] = j.asked.refs[b]
                             \/ \E k \in DOMAIN j.scripts : b \in PlacedBy(j, k)

(***************************************************************************)
(* What a job j says of the branches, with its branches `where'.           *)
(***************************************************************************)
\* The commits of a branch that no protected branch has, here or upstream.
AboveMain(j, where, b) ==
    LET mains == {where[p] : p \in j.asked.protected} \cup Range(j.upstream)
    IN  Histories(where[b]) \ UNION {Histories(c) : c \in mains \ {NoCommit}}

\* No other branch is on these commits.
IsLowest(j, where, b) == AboveMain(j, where, b) \cap Range(where) = {where[b]}

\* docs, stack.protect-commit-count: "Protect commits that are on a branch with
\* `count`+ commits"; of a stack, its lowest branch.
IsLarge(j, where, b) ==
    /\ j.asked.large # 0
    /\ Cardinality(AboveMain(j, where, b)) >= j.asked.large
    /\ IsLowest(j, where, b)

\* The code's large branches have `count' + 3 commits: between these and the
\* documented ones the docs and the code disagree.
IsLargeInDocsOnly(j, where, b) ==
    /\ IsLarge(j, where, b)
    /\ Cardinality(AboveMain(j, where, b)) < j.asked.large + 3

\* A protected branch upstream that b has most in common with, as far as was
\* known when the command began.
IsClosest(r, p, b) ==
    LET Shared(q) == Len(MergeBase(r.refs[b], r.upstream[q]))
    IN  p \in r.protected /\ \A q \in r.protected : Shared(q) <= Shared(p)

Distance(r, b, p) ==
    LET c == r.refs[b]
    IN  Len(c) + Len(r.upstream[p]) - 2 * Len(MergeBase(c, r.upstream[p]))

\* stack.auto-base-commit-count: "Split off branches that are more than `count`
\* commits away from the implied base".
IsSplitOff(r, b, p) == r.limit # 0 /\ Distance(r, b, p) > r.limit

\* The code splits off those that are `count' away, too.
IsSplitOffInCodeOnly(r, b, p) == r.limit # 0 /\ Distance(r, b, p) = r.limit

\* A branch that is split off, all of whose commits are by one author: there is
\* nothing to infer its base from but the first commit.
HasNoBase(r, b) ==
    /\ \E p \in r.protected :
            IsClosest(r, p, b) /\ (IsSplitOff(r, b, p) \/ IsSplitOffInCodeOnly(r, b, p))
    /\ Histories(r.refs[b]) \cap r.foreign \in {{}, Histories(r.refs[b])}

\* The lowest branch of a stack that is old, somebody else's or large stays.
IsKeptBack(j, b) ==
    /\ IsLowest(j, j.asked.refs, b)
    /\ \/ j.asked.refs[b] \in j.asked.stale \cup j.asked.foreign
       \/ IsLarge(j, j.asked.refs, b) /\ ~IsLargeInDocsOnly(j, j.asked.refs, b)

\* What a branch loses that is not kept back itself: the changes of the commits it
\* shares with one that is, and, where it has no base, with the protected branches.
MayLose(j, b) ==
    LET old == j.asked.refs
        kept == {q \in Branch \ {b} : IsKeptBack(j, q)}
        above == AboveMain(j, old, b)
        left == UNION {above \cap AboveMain(j, old, q) : q \in kept}
                    \cup IF HasNoBase(j.asked, b) THEN Histories(old[b]) \ above ELSE {}
    IN  IF IsKeptBack(j, b) THEN {} ELSE UNION {Last(c).changes : c \in left}

KeepsChanges(j, where, b) ==
    where[b] # NoCommit =>
        \A change \in Tree(j.asked.refs[b]) \ Tree(where[b]) : change \in MayLose(j, b)

\* Where a protected branch may be: where it was, or where its counterpart is;
\* one that was cut where others are may have gone along theirs.
PlacesOf(j, b) ==
    LET cut == {p \in j.asked.protected : j.asked.refs[p] = j.asked.refs[b]}
    IN  {j.asked.refs[b]} \cup {j.upstream[p] : p \in cut}

IsNoPlaceAsked(r) == r.base = << >> /\ r.onto = << >>
NoPlaceAsked == IsNoPlaceAsked(asked)

\* The graphs take a change from a branch in these two cases only, and a
\* protected branch stays or goes along its counterpart.
SoundGoal(j) ==
    /\ \A b \in Branch : KeepsChanges(j, j.goal.new, b)
    /\ IsNoPlaceAsked(j.asked) =>
            \A b \in j.asked.protected : j.goal.new[b] \in PlacesOf(j, b)

-----------------------------------------------------------------------------
(***************************************************************************)
(* Properties.                                                             *)
(***************************************************************************)
\* What to_script makes of the graphs of all stacks, played one after the other
\* without a failure, is what the graphs ask for: a script comes back to marks
\* that a script it depends on has set, each branch is put where the last stack
\* that moves it puts it and after those below it; and the graphs themselves take
\* no change from a branch that NoChangeIsLost does not name, nor move a protected
\* one.  (It is looked at when the command begins; the job stays what it is.)
PlanIsSound == pc = Begins(asked) => SoundPlan(job) /\ SoundGoal(job)

Stacks == INSTANCE StackMoves WITH
    Plans <- Goal, plan <- job.goal, tip <- refs

\* Through faults, failed scripts and a kill at any step, a branch is either
\* untouched or exactly where the graph puts it, and never ahead of the
\* branches below it in its stack.
StacksMoveUpwards == Stacks!Spec

Over == pc \in {"push", "pushing", "pop", "done"}
CleanlyOver == Over /\ faults = 0

\* A run git never fails leaves every branch where the graph puts it, and
\* HEAD on its branch, or on the local main when that is dropped.
CleanRunRestacks ==
    CleanlyOver => /\ refs = job.goal.new
                   /\ missed = {}
                   /\ head.on = IF detached THEN job.restore
                                            ELSE asked.head.on

\* With fixups moved, commits dropped as merged upstream and stacks merged, at
\* every step a branch has all changes it had, but for two cases the code gets
\* wrong: it is on a branch that is kept back, or parts from it (protect_old_branches
\* and the like end at the lowest branch, and rebase_development_branches takes
\* whatever is above), or it is split off and infer_base finds nobody else's
\* commit.  In these it keeps at least the changes of its own commits.
NoChangeIsLost == \A b \in Branch : KeepsChanges(job, refs, b)

\* run_script reports the branches that depend on a failed one as "Blocked
\* dependents": one failure keeps no other branch from where the graph puts
\* it.
OnlyDependentsAreBlocked ==
    Over /\ ~dry_run /\ faults <= 1 /\ refs # job.goal.new =>
        \E failed \in missed : \A b \in Branch :
            \/ refs[b] = job.goal.new[b]
            \/ \E i \in DOMAIN Scripts :
                   /\ DependsOn(Scripts, i, failed)
                   /\ \E c \in Range(Scripts[i].commands) :
                         c.op \in {"create", "delete"} /\ c.name = b

\* The user's uncommitted changes are not overwritten, and are back in the
\* working directory at the end.
WorkIsKept ==
    /\ work # "lost"
    /\ pc \in {"done", "refused"} => (work = "files") = asked.work

\* docs, git branch-stash: "git-stack implicitly does a git branch-stash
\* whenever modifying the tree": no branch moves without a backup of all.
NothingMovesUnsaved == refs # asked.refs => backup = asked.refs

\* --dry-run walks through everything and changes nothing.
DryRunTouchesNothing ==
    dry_run => /\ refs = asked.refs /\ head = asked.head
               /\ remote = asked.remote /\ told = {}
               /\ (work = "files") = asked.work

(***************************************************************************)
(* The stack a branch is on: what is above main and is not kept back.      *)
(***************************************************************************)
AboveNow(b) == AboveMain(job, refs, b)

Stack(b) ==
    AboveNow(b) \ UNION {asked.stale, asked.foreign,
                       UNION {AboveNow(p) : p \in {q \in Branch : IsLarge(job, refs, q)}}}

\* docs, --push: "A branch is ready if: It is not stacked on top of any other
\* development branches; It has no WIP commits".
Ready(b) ==
    /\ Stack(b) # {}
    /\ refs[b] \in Stack(b)
    /\ \A c \in Stack(b) : /\ Summary(c) \notin Wips
                           /\ c # refs[b] => c \notin Range(refs)

\* It has commits of a branch that is large in the docs only, or is still on an
\* old one: of an old stack only the lowest branch is kept back.
MayBeProtected(b) ==
    \E q \in Branch :
        /\ IsLargeInDocsOnly(job, refs, q) \/ refs[q] \in asked.stale \ {refs[b]}
        /\ AboveNow(b) \cap AboveNow(q) # {}

\* --push, "Push all ready development branches": these are pushed and no other,
\* even after a restack that failed for some of them.  Of a branch that may or may
\* not count as protected nothing is said.
ReadyArePushed ==
    \A b \in {c \in Branch : ~MayBeProtected(c)} :
        /\ remote[b] # asked.remote[b] => Ready(b)
        /\ pc = "done" /\ asked.push /\ ~dry_run /\ Ready(b) => remote[b] = refs[b]

(***************************************************************************)
(* --repair.                                                               *)
(***************************************************************************)
\* docs, --repair: "If you used git rebase, then the stack will be split in
\* two. This will merge them" and "If you commit directly on a parent stack, this
\* will update the dependent stacks to be on top of that new commit": no two
\* commits of the stacks have one parent and one tree, and where two branches part
\* above main, there is a branch below both.
RepairMendsStacks ==
    CleanlyOver /\ asked.repair /\ ~dry_run =>
        LET above == UNION {Stack(b) : b \in Branch}
        IN  /\ \A c, d \in above : Front(c) = Front(d) /\ Tree(c) = Tree(d) => c = d
            /\ \A a, b \in Branch :
                LET shared == Stack(a) \cap Stack(b)
                IN  \/ shared = {}
                    \/ IsPrefix(refs[a], refs[b]) \/ IsPrefix(refs[b], refs[a])
                    \/ \E d \in Branch : refs[d] \in shared

(***************************************************************************)
(* --rebase, on every stack or on the ones asked for.                      *)
(***************************************************************************)
\* docs, Protected Branch: "branches like `main` or `v3` that `git-stack` must
\* not modify", but for tracking their counterpart upstream: with several of
\* them and a branch in several stacks, such a branch goes there or stays.  One
\* that is cut where another protected branch is may be found on that one's way
\* (fast_forward_pulled_branches takes all local branches that are at the base).
ProtectedBranchesStay ==
    NoPlaceAsked => \A b \in asked.protected : refs[b] \in PlacesOf(job, b)

\* --stack: the branches of BASE..HEAD, BASE..HEAD.. or BASE..
IsAsked(b) ==
    LET tip == HeadOf(asked)
        c == asked.refs[b]
        base == Len(MergeBase(asked.refs[LocalMain], tip))
        OnHeads(n) == Len(MergeBase(c, tip)) >= n
    IN  CASE asked.stack = "current" -> IsPrefix(c, tip) /\ Len(c) >= base
          [] asked.stack = "dependents" ->
                OnHeads(IF Len(c) = base THEN base ELSE base + 1)
          [] asked.stack = "descendants" -> OnHeads(base)
          [] asked.stack = "all" -> TRUE

\* The docs and the code disagree on whether b is to be moved, or there is no
\* telling where to.
IsDisputed(b) ==
    \/ IsLargeInDocsOnly(job, asked.refs, b)
    \/ HasNoBase(asked, b)
    \/ \E p \in asked.protected : IsClosest(asked, p, b) /\ IsSplitOffInCodeOnly(asked, b, p)

\* docs: "finds the best-match protected base branch for each development
\* branch", and "--rebase will move development branches to the latest commit
\* of this protected base": all those that are asked for, and no other, nor one
\* that is large or split off, both as documented.  One with no commit of its own
\* goes along its base, or stays on it.
DevelopmentFollowsItsBase ==
    CleanlyOver /\ asked.rebase /\ ~dry_run /\ NoPlaceAsked =>
        \A b \in {c \in Branch \ asked.protected : refs[c] # NoCommit} :
            ~IsDisputed(b) /\ asked.refs[b] \notin asked.stale \cup asked.foreign =>
                IF IsAsked(b) /\ ~IsLarge(job, asked.refs, b)
                    /\ \E p \in asked.protected :
                            IsClosest(asked, p, b) /\ ~IsSplitOff(asked, b, p)
                THEN \E p \in asked.protected :
                        /\ IsClosest(asked, p, b)
                        /\ \/ IsPrefix(job.upstream[p], refs[b])
                           \/ /\ IsPrefix(asked.refs[b], refs[b])
                              /\ IsPrefix(refs[b], job.upstream[p])
                ELSE refs[b] = asked.refs[b]

\* stack(): "Must not be in a detached HEAD state.": nothing is rewritten.
DetachedHeadIsRefused ==
    asked.head.on = NoBranch => refs = asked.refs

=============================================================================
