# git-stack in TLA+

`git-stack` keeps stacks of branches on top of each other: after a pull, an
amend or a reword it replays the commits above the change and moves every
branch of the stack. What must not go wrong is the user's history: no branch
may lose a change, a stack may not come apart, and HEAD and the files must be
where the user left them, also when git fails or the process is killed half way.
These modules model the planning and the replaying as `src/` implements them,
check them with TLC on small repositories and prove part of it with TLAPS.

## The system

| Part | Source | State | Operations |
|---|---|---|---|
| Commit objects and refs | `git/repo.rs` | branches, HEAD, working directory, objects | `cherry_pick`, `reword`, `squash`, `branch`, `delete_branch`, `detach`, `switch_*`; also fetch, push, stash, `merge_base`, `commit_range` |
| Branch set | `graph/branch.rs` | branches by commit, kind of each | `from_repo`, `update`, `dependents`, `descendants`, `branch` |
| Commit graph | `graph/mod.rs`, `graph/commit.rs`, `any.rs` | nodes, edges, tags per commit, branch set | insert, remove, rebase, cursors over ancestors and descendants |
| Graph operations | `graph/ops.rs` | none of their own | protect, rebase, fast-forward, drop merged, fixup, reword, realign, merge, trim, push status, `to_scripts` |
| Scripts and executor | `rewrite/mod.rs` | marks, staged branches, deletions and rewrites, head id, detached | `Script::from`, `run`, `commit`, `abandon`, `close` |
| Commands that rewrite | `bin/git-stack/{sync,amend,reword}.rs` | stash, backup snapshot | plan a graph, make scripts, play them, close, pop the stash |
| Command `run` | `bin/git-stack/run.rs` | stash | switch to each commit and run a program |
| Navigation | `bin/git-stack/{next,prev}.rs`, `ops.rs` | HEAD | pick a child or a parent, switch |
| Command `git stack` | `bin/git-stack/stack.rs` | stash, backup snapshot | `--rebase`, `--fixup`, `--repair`, `--push`, and showing the stacks |
| Settings | `config.rs`, `legacy/git/{config,protect}.rs` | git's files and the environment | reading one place, adding the places up, which branches are protected |
| Commands that write git's configuration | `bin/git-stack/{alias,config}.rs` | git's files | `alias --register`, `alias --unregister`, `--protect` |
| Arguments, logging, rendering | `bin/git-stack/{main,args,logger}.rs`, parts of `stack.rs` | none | no part in a rewrite |
| Legacy library | `legacy/**` | its own graph, scripts and executor | what `git stack` is built on: `Node` trees, `to_script`, `realign_stacks`, `merge_stacks`, `pushable`, `Executor` |

**How they interact.** A command reads the repository into a `BranchSet` and a
`Graph`; graph operations change the parents, actions and branches of the
graph, and report the branches to drop; `to_scripts` turns the graph into one
script per stack, each a list of batches (a commit to go onto, and commands);
the executor plays them. The batches of a script talk to each other only
through *marks*: a batch that goes onto a commit rewritten by another batch
finds the new id under the mark of the old one. The executor asks and tells
git's hooks. The repository is shared with whatever else the user runs, and
`sync` waits for a remote between reading the branches and planning. Every
command reads its settings first; what it takes from them is an input of the
model of the command.

There are two of each: `sync`, `amend`, `reword`, `run`, `next` and `prev` are
built on `graph/`, `git/` and `rewrite/`; `git stack` itself is built on
`legacy/`, with a graph that is a tree of nodes, scripts that are a tree of
scripts, and an executor of its own. The two do alike things in different
orders, so both are modelled. `realign_stacks`, `merge_stacks_by_tree_id`,
`trim_tagged_branch` and `pushable` of `graph/ops.rs` are called by no command.

**What is hard.** Nothing here is concurrent inside the process: one thread
plans and then plays. The difficulty is in *order* (of batches, of commands in
a batch, of the planning operations), in *partial failure* (a batch is applied
one ref at a time, and may be abandoned between any two steps), in *state that
goes stale* while it is used (marks, the list for post-rewrite, HEAD's branch,
a graph changed while it is walked, branches read before a fetch) and in a kill
at any point. `PROJECT.json`
lists the hazards with the line at which each bites and the property aimed
at it; hazards without a property say why.

**What makes each part correct.**

- Executor: a batch moves all its branches or stops; a stack moves from the
  bottom up; a failure skips the rest of the script; HEAD returns; the files
  are HEAD's; a dry run changes nothing; the hook hears of final, live commits;
  the end is reached.
- Scripts: the replayed history is that of the graph, wherever its forks are.
- Graph operations: no change is lost, stacked branches stay stacked, a pulled
  branch follows, a merged one is dropped.
- Amend: the staged change is in every branch above the commit it amends.
- Sync, one after the other: what the user committed is not lost whatever
  upstream does with it, only branches upstream has all of are deleted, a second
  sync changes nothing, one that died is made up for by the next, and the stack
  gets onto main in the end.
- `git stack`: a branch goes onto the protected branch it is closest to, those
  asked for and no other, and a protected branch goes to its own counterpart or
  stays; every branch is untouched or exactly where the graph puts it,
  what does not depend on a failed script is restacked, `--repair` leaves no
  split and no bent stack, the ready branches are pushed and no others, there is
  a backup before a branch moves, and uncommitted work comes back.
- Sessions: uncommitted work is never lost and comes back at the end, and the
  snapshot is taken before a branch is restacked; a dry run leaves all as it was.
- Branch set: dependents, descendants and the protected base are such that the
  commands that walk a stack walk the stack HEAD is on.
- Settings: a setting is what the first place says that, in the documented
  order, says anything readable (but where `git -c` and `GIT_CONFIG_COUNT` differ).
- Commands that write: `--register` overwrites nothing and what it reports as
  registered is in effect; `--unregister` leaves none of git-stack's aliases;
  a pattern just protected decides, and no other branch changes.
- Navigation: `next` undoes `prev`, and `prev` stops at protected commits.
- `run`: every commit of the stack is tried, none above a failure, HEAD ends at
  home or at the first failure, and uncommitted work comes back.

## The modules

| Module | Models | Notes |
|---|---|---|
| `Commits` | commit ids, `cherry_pick`, `reword`, `squash` | a commit is the sequence of patches that leads to it, so two ids are equal exactly when the histories are, and the parent is the history without its last patch |
| `GraphOps` | `graph/mod.rs`, and the operations of `graph/ops.rs` that sync, amend and reword call | a graph is a record; the order in which petgraph lists children is an arbitrary `Rank` |
| `Scripts` | `to_scripts`, `gather_script`, and `Script::from` with its sorting and marks | pure |
| `Planner` | the planning halves of `sync.rs`, `amend.rs`, `reword.rs` | pure |
| `Executor` | `rewrite::Executor` and the calls it makes to git | the state machine |
| `StackMoves` | what a command promises of the branches | abstract specification |
| `Outcomes` | what a planned graph comes to: each commit replayed on its new parent, each branch at what its commit became | pure, written without batches, marks or order |
| `Restack` | a planned graph taken through `Scripts` and `Executor` | composes them; what scripts are to do for their graph (`PlanIsSound`), the refinement and the properties of whole commands |
| `Session` | a whole amend, reword or sync: staging, `commit_fixup`, stash, snapshot, editor, plan, restack, `close`, pop | the state machine around the executor, which is abstract in it |
| `Rounds` | a clone over many rounds of `sync`, with a user and an upstream that go on, calls that fail and a sync that dies | composes `Planner` and `Scripts` with the repository, the remote and the network |
| `BranchSets` | `from_repo`, `dependents`, `descendants`, the implicit base, `Graph::from_branches` | pure; commits are numbers with any number of parents, for the commands that rewrite nothing |
| `Walk` | `next`, `prev` and `run`, one request after the other | a state machine over `BranchSets` |
| `StackGraph` | `legacy/graph/{mod,node,actions}.rs`, and the operations of `legacy/graph/ops.rs` that `git stack` calls | the tree as parents, with the order of children |
| `StackPlan` | `plan_changes` of `stack.rs`, `to_script`, `node_to_script`, `pushable` | pure |
| `StackChoice` | `State::new` of `stack.rs` and what it asks of `legacy/git/branches.rs`: the protected base of a branch, the stacks, the branches of `--stack`, `--base` and `--onto`; `--pull` | pure |
| `StackRun` | `stack()`, `git_push`, and `legacy/git/commands.rs`'s `Executor` | the state machine; implements `StackMoves` |
| `GitConfig` | the operations of `git2::Config` that are used: reading levels, setting, removing | pure, external |
| `Settings` | `RepoConfig`: one place, the environment, all places added up; `ProtectedBranches` | pure |
| `ConfigCommands` | `alias --register` and `--unregister`, `--protect` | a state machine over the files of `GitConfig` |
| `MCShapes`, `MCStacks`, `MCSync`, `MCAmend`, `MCWalk`, `MCStackRun`, `MCRounds`, `MCConfig` | repositories, files and requests | for TLC |
| `CommitsProofs`, `ExecutorProofs`, `RestackProofs`, `SessionProofs`, `WalkProofs`, `StackRunProofs`, `ConfigCommandsProofs` | theorems | for TLAPS |
| `DataLemmas` | facts about numbers, sequences and flattening that the proofs share | for TLAPS |

**Executor.** Its variables are the fields of the struct (`marks`, `branches`,
`delete_branches`, `post_rewrite`, `head_id`, `detached`), the locals of
`run_script` and `stage_batch` (`script`, `batch`, `at`, `cursor`, `failed`),
the repository (`refs`, `head`, `checkout`) and what the hook was told. There
is one action per command of a batch (`StageMark`, `StagePick`, ...), one per
step of `commit` (`HookAccepts`, `Detach`, `MoveBranch`, `DeleteBranch`,
`Notify`, ...), and one per outcome of `close`. Everything git does to a file
is a step of its own, so every state is one in which the process may be killed;
a property that holds in every state holds of a killed command. Each call that
can fail has a failing action (`StageFails`, `HookVetoes`, `DetachFails`,
`MoveFails`, `DeleteFails`, `SwitchFails`, `CheckoutFails`); `MaxFaults` bounds
how often git fails by choice, while refusals git always makes (moving the
branch HEAD is on, deleting a branch that is gone) are free. `Abandon` clears
exactly what `Executor::abandon` clears. A job carries its `goal`, a value the
executor passes along and never reads: properties of a command read it.

**Planning.** `SyncPlan`, `AmendPlan`, `RewordPlan` call the operations in the
order the commands do; a plan is a graph and the branches to drop, and
`DropSquashed` and `DropMerged` add to both. `ToScripts` keeps the shape of the code: a batch follows
first children to a leaf, other children start batches of their own that are
pushed before it, the batches are sorted *before* marks exist, dropped branches
go through a map keyed by commit.

**Session.** What the executor does to a branch is abstract here: the branch
leaves its `"old"` commit (by way of the `"fixup"`, for amend) for its `"new"`
one. What is kept in detail is where each uncommitted edit is: staged, in the
files only, in the fixup, or in an entry of git's stash. `AmendNext`,
`RewordNext` and `SyncNext` say in which order each command goes through its
phases, which differs (sync stashes and takes the snapshot before it plans,
reword plans first, amend commits its fixup before either); each phase is an
action. A failed stash or pop goes on, as in the code, and any other error ends
the command at once (`GitFails`, `CheckoutFails`, `EditAborts`, `Refuse`).
Switching to another tree overwrites the files, with force. A command that is
killed leaves the state it was killed in, so each state counts as an end.

**Walk.** `head`, `content` (what the working directory has over HEAD's commit)
and git's `stash` are the repository's; `home`, `branches`, `graph`, `entry`
(`stash_id`), `current`, `progress`, `queue`, `prior` and `tried` are the locals
of the commands and the fields of the cursor; `log` is what the user saw of
the commands that ended. The three share `Begin`, `RefuseBusy`, `Stash`,
`RefuseDirty` and `Plan`; `Step` and `Arrive` are the loop and the end of next
and prev; `Visit`, `Try`, `StayAtFailure`, `GoHome` and `Pop` are run. Whether
the program succeeds, and whether it changes tracked files, is a choice. As in
the code, a stash takes changes of tracked files only, a switch sets HEAD first
and overwrites files by force only when the two trees differ (`SwitchFails` may
leave half of that, `"litter"`), the order of children is arbitrary, a dry run
still runs the program, a stash or pop that fails is ignored, and `ops::switch`
panics where the best branch at a commit is a remote one: an exit of its own.

**StackChoice.** A branch is a name and a side, local or the pull remote's. As in
`State::new`, a protected branch comes with its counterpart, which takes its
place among the protected ones; `ImplicitStacks` lets every branch find its
protected base (`FindProtectedBase`, or a commit, `InferBase`, when that is too
far away or there is none) and puts those with the same one into a
stack, in the order of the ids; `ExplicitStack` is the one stack of `--stack`,
`--base` or `--onto`, with `InScope` for `branch`, `dependents` and `descendants`.
Each stack also has its base and its onto among its branches (`StackOf`), and all
of these are guarded against being dropped (`Guarded`). After a pull (`Pulled`)
the stacks stay what they are and everything in them is looked up again by name
(`Refreshed`, `BranchesAt`).

**StackRun.** A job is what `ChosenStacks`, `PlanChanges` and `ToScript` make of a
request: one script for each stack, all planned before the first one runs, and
run one after the other on the same executor. The goal of a command is that of
its stacks, the last one deciding where a branch is in several (`WithGoal`). The
legacy script is a tree, kept as the sequence of its scripts in the order they
run, each with the one it depends on (`above`). A script is staged in memory in
one step (`StageScript` is a fold of `StageSingle` over its commands, and
`StageFails` stops at any commit it cannot pick), because nothing of git is
changed in between; each update of a ref, of HEAD and of the files is a step of
its own (`Detach`, `MoveBranch`, `DeleteBranch`, `Switch`, `Checkout`, `Push`),
so every state is one in which the command may be killed. `Stash`, `Check`,
`Refuse`, `BackUp`, `PlanPush` and `Pop` are `stack()` around it. Where the code
ends the command with an error (`BackUpFails`, `SwitchFails`, `CheckoutFails`)
the stash is not popped; where it only logs one (a stash or a pop that fails,
a failed script, a failed push) it goes on. A script that failed keeps back
those that depend on it (`DependentsOf`) and no others.

**Rounds.** The variables are the clone (`local` branches, the `tracking` branch
of main, which branches are `pushed`, `head`), the remote (`origin`), and a sync
under way (`pc`, and `seen`: what it has read). `StartSync` reads the branches
and takes the snapshot; `Prune` and `Fetch` talk to the remote and may be
replaced by `CallFails`, after which the code only warns; `Finish` reads the
branches again, if a call went well, and plans from that (`Updated`), then plays
the moves of all scripts in order; `Die` plays only some of them and leaves HEAD
detached. `Play` folds `Staged` over the commands of `ToScripts`: the executor's
own steps are in `Executor`, and what counts here is the order of the moves and
the branches they were planned from. What the user and upstream do
(`UserCommits`, `UserBranches`, `UserSwitches`, `UserPushes`, `UpstreamCommits`,
`UpstreamMerges`, `UpstreamSquashes`) is not code of the repository, and the user
may commit while a sync waits. `exposed` keeps what was committed while a sync
waited that then could reach no remote: that is the subject of `raced_sync`.

**Settings and the commands that write them.** A file gives each key the values
of its lines, and each place (git's levels, `.gitconfig` in the working tree,
`git -c`, `GIT_CONFIG_COUNT`) is a file. `SettingsFollowTheDocs` ranks them as
`docs/reference.md` does, `git -c` above `GIT_CONFIG_COUNT`; where these two differ
on a setting the code takes the second, and the property names that case
(`EnvDisagrees`) and leaves it out. `Settings` keeps one
setting of each kind that is read alike (a count, a word, a flag, a capacity, a
remote with a fallback) and what each reader does with text it cannot read, which
differs between files and the environment. `Register` takes a snapshot of which
aliases are missing and then writes one key at a time, to the user's file;
`Unregister` goes through every entry of every level and removes it from the
user's file; `Protect` clears the patterns and writes each again (`ClearPatterns`,
`SetPattern`), with libgit2's rule that `^$` replaces empty values. A write may
fail (`WriteFails`; `NotCleared` where the code ignores it) and the command may be
killed between two writes (`Killed`).

**The specification of a command** is written without batches, marks or order:
`Rewritten(g)` in `Outcomes` replays the graph as a tree, by recursion on
parents; `PlannedRefs` puts each branch at what its commit became. That is what
`CleanRunRestacks` compares the repository with, and what `StackMoves` moves.
`Becomes` and `GoalOf` in `StackRun` do the same for the legacy graph.

**The contract between planning and playing.** `SoundPlan` says what scripts owe
their graph when they are played without a failure (`BuiltBy` replays a batch on
commits, `HeadsBy` takes HEAD along): a batch goes onto a commit that an earlier
batch of its script marks, or that nothing rewrites; each mark stands for what the
graph makes of its commit; each branch is put where the graph puts it, after the
branches below it; no branch is deleted twice; and one batch takes a detached HEAD
where the graph takes it. `SoundGoal` says of the graph itself that it takes no
change from a branch and parts no stack. Together they are `PlanIsSound`, a fact
about planning alone. That the executor, with faults, hooks and kills, then does
what the properties of `Restack` say is proved for every such plan.

`StackRun` has a contract of the same name for the scripts of the legacy library,
which are all planned before the first one runs and share one set of marks.
`Played(j)` is what each script has staged when all before it went well
(`StageAll` is the executor's own staging, step by step). `SoundPlan(j)` says: a
script begins by saying what it goes onto, or only deletes; it comes back to marks
that it set itself or that a script it depends on was the last to set
(`BackIsSound`); each branch it updates goes where the goal has it, after those
below it were put by the same script or by one it depends on, or is put where it
was before anything moved it (`UpdateIsSound`, for a protected branch that is in
the stack of another one, too); and each branch that has to move is moved by some
script. `SoundGoal` says of the graphs that they take no change from a branch but
those `MayLose` names, and that a protected branch stays or goes to its counterpart
(`PlacesOf`). The contract does not speak of faults: it is about the scripts as they
are written.

**Where docs and code part.** Three properties of `stack` and one of `config` are
stated as the documentation has them, with the cases in which the code is known to do
otherwise named in the property itself; the observations below say what it does
there. The requests that show it are in the run, so that everything else is checked on
them, too.

| Property | Its exception |
|---|---|
| `NoChangeIsLost` | `MayLose`: the changes of commits shared with a branch that is kept back (`IsKeptBack`), and with main, for a branch that is split off with nothing to infer a base from (`HasNoBase`). Its own changes such a branch keeps |
| `DevelopmentFollowsItsBase` | `IsDisputed`: branches large for the docs but not for the code (`IsLargeInDocsOnly`: from `count` to `count` + 2 commits), branches exactly `count` commits away from their base (`IsSplitOffInCodeOnly`), and those of `HasNoBase` |
| `ReadyArePushed` | `MayBeProtected`: branches with commits of one that is large in the docs only, and those still on an old one |
| `SettingsFollowTheDocs` | `EnvDisagrees` |

`ProtectedBranchesStay` has one as well: of protected branches cut at one commit each
may be found on the way of the other. Requests of that kind (`CutRequests`) are not in
the run, because with them main moves twice, which `StackMoves` does not allow;
`stack.cfg` with `Asked <- CutRequests` and this invariant alone passes.

## The runs

| Run | Question | Result |
|---|---|---|
| `restack` | sync of every stack of 3 commits, every set of branches on it, upstream having merged nothing or up to any commit, advanced or not; amend (with and without a message) and reword of every commit of every such stack, one of which may be a fixup of another already; HEAD on any of the branches or detached, with a second branch at HEAD or not, dry run, one fault of git anywhere; every plan keeps to the contract (`PlanIsSound`) | holds |
| `stack` | `git stack` on every stack of 3 commits: `--rebase` with upstream having merged it up to any commit, as it is or squashed; `--fixup` (move or squash) of any commit; `--repair` with a commit that repeats another, and of a stack split by `git rebase`; `--push` with a WIP commit and any set of pushed branches; old or foreign stacks; uncommitted work, a merge under way, dry run; `--stack` current, dependents or descendants with HEAD on main or any branch, `--base` and `--onto` with any branch; a second protected branch at any commit, with main apart from it, at it or past it, and `--pull` or not; branches too far from main or without any protected branch, with a base to infer or without, and branches below, between and above the documented and the coded limits of large ones, also with another parting from them; two faults anywhere; the scripts and graphs of every request keep to the contract (`PlanIsSound`) | holds |
| `rounds` | a clone with main and two branches: any order of commits, new branches, switches, pushes, upstream's commits, merges and squashes, and syncs, with one call to the remote that fails or one sync that dies between two moves | holds |
| `config` | `--register`, `--unregister` and `--protect`, up to two in a row, on aliases in all of git's levels, one setting of each kind in any of the places it is read from, and patterns in three places; one write that fails or one kill anywhere | holds |
| `session` | every request (two edits staged or not, `--all`, each kind of message, dry run, HEAD on a branch or detached) with two faults anywhere | holds |
| `walk` | next, prev and run, up to two in a row with various flags, in 11 repositories of five commits (lines, forks, merges, upstream ahead or not, a branch empty, limits, a rebase in progress), HEAD anywhere, uncommitted work or not, one fault of git or of the program | holds |
| `shared_fork` | is a stack restacked that forks twice? | violated: a batch is played before the one that marks its onto |
| `fresh_branch` | does a branch at main without commits follow main? | violated: it is deleted |
| `refused_amend` | does `amend --message` of HEAD on a branch work with staged changes, when it is no dry run and git fails at nothing? | violated: the fixup is committed, the branch is moved to it, the rest of the work is stashed, and then `reword_commit` refuses because of that fixup; the work stays on the stash |
| `skipped_stack` | has a `run` that succeeds tried the stack? | violated: it tries nothing when main has moved on from the fork, because the graph then begins above the fork |
| `detached_stack` | is a detached HEAD refused, as `stack()` says? | violated: `head_branch` answers with a branch called `HEAD`, so the branches are moved, the switch to `HEAD` fails, and the work stays on the stash |
| `raced_sync` | does the snapshot of a sync have all it takes out of the branches? | violated: a commit made while the sync waits for a remote it then cannot reach is in neither |

Two checks are refinements or temporal: `StacksMoveUpwards` says the composed
system implements `StackMoves` with `tip <- refs`, once for `Restack` and once for `StackRun` (each branch moves at most
once, to its place, after the branches below it, and a failure or kill leaves
a lower part of the stack moved), and `Terminates` says the end is reached.

**Fairness.** Two properties need it. `Terminates` is checked under
`WF_vars(Next)`: the executor is one thread that waits for nobody; weak fairness
says that it takes its next step. `Converges` is checked under `WF_pc(Goes)`,
where `Goes` is any step that changes `pc`: a sync that was started goes on (by
succeeding, failing or dying), and the user starts another one now and then;
the user may otherwise stop, and no particular thing has to happen. No fairness
is put on single actions, so no failure is assumed to stop and no call of git to
succeed; in `rounds` the number of failures is bounded. The final states of the
executor stutter (`Ended`), so deadlock checking stays on and would show an
executor stuck before its end. It is off in `config` only, where the user has
given all commands and nothing goes on.

**Bounds.**
- `restack`: `Size = 3`: the 6 shapes of a stack of three commits include
  forks, a branch on a fork, a branch inside a batch, merged prefixes, a fixup
  below another commit and above its target. The order in `Script::from` needs a
  second fork inside a branch that is not the first: no shape with up to five
  rewritten commits shows it, and `shared_fork` therefore takes one shape of six.
  A commit that is a fixup already comes with HEAD on a branch, one branch at
  HEAD and no dry run, and a dry run with a branch at each commit; the fixup
  amend itself makes comes with all.
- `restack`: `MaxFaults = 1` with one fault anywhere; scripts are independent
  after a failure (`failed` is reset), so a second fault repeats the first one in
  another script.
- `Extras`: where an extra branch may be, empty in `restack` because what it
  adds are a finding and an observation below; `Count = 0` switches
  `protect-commit-count` off. Branches are numbered by their commit, so several
  branches at a commit occur in `fresh_branch` and, at HEAD, in amend only.
- `stack`: stacks of three commits, and one of five that `git rebase` has split
  in two, since a repair needs both halves. Two faults, so that a pop or a push
  fails after a script did. HEAD is on a branch except where the request is about
  a detached one. A fixup names a commit below it, or the base (a target in
  another branch is not in its stack). Old and foreign stacks may have branches on
  one another; somebody else's commits that are rewritten are not pushed, because a
  set of commits does not follow the author they keep. A
  second protected branch is never cut at the very commit main is at
  (`ReleaseRequests`), and the
  properties on where `--rebase` takes a branch (`ProtectedBranchesStay`,
  `DevelopmentFollowsItsBase`) are about requests without `--base` or `--onto`,
  which ask for something else. A limit of three on the distance to the base has
  branches two, three and four commits away (`FarRequests`); upstream's commits are
  not the user's then, as they are in `OwnRequests`. A large
  branch has one to five commits, against limits of 1, 2 and 5 (`LargeRequests`):
  below the limit, between it and the code's limit + 3, and from there on.
  Ids are ordered as the commits are, which fixes the order of the stacks.
- `rounds`: two branches of the user, so that one is stacked on another or
  beside it; two commits of the user and one of upstream, so that a branch is
  merged while another goes on, and upstream goes on after that; one trouble,
  since a second one meets a clone like the first did. A change is made once and
  never reverted.
- `config`: two commands, so that the second meets what the first has left
  half-way; one fault. The starts are of three families (`AliasStarts`,
  `FileStarts`, `PatternStarts`), because no command touches the keys of more
  than one of them. A setting is in at most two places: adding up is a fold of
  one operation over the places, and two places show its order. `Wide = 256`
  is the width of `usize`, of which only the wrap of a negative number shows.
- `session`: two edits, so that one can be staged and the other not; two
  branches, so that HEAD may have both, one or none; two faults, so that a pop
  fails after another failure (the entry of the fixup stays on the stash, and
  the next step fails as well).
- `walk`: five commits, so that a stack of three has a fork or a merge in it;
  two requests, since the second only meets what the first left (HEAD, files,
  stash); one fault, of git or a program that changes files. A count goes up to
  two. The `Unbased` repositories are those in which run and next lose sight of
  the stack. What depends on the line between two commits
  (`PrevStopsAtProtected`, `NextUndoesPrev`) is stated for histories without
  merges; `TriesAbovePassed` and the rest also with. No repository has criss-cross
  merges, so a merge base is unique.

## What is proved

Every theorem is for all values of the constants that fulfil the assumptions below.

`CommitsProofs` has the lemmas on commits (each operation yields a commit, what
its tree is, and which histories it is a prefix of), `DataLemmas` those on data:
that a set of numbers has a least element, by it induction in the form of a set
that has zero and with each number the next, and by that what `FlattenSeq` and the
like yield. `ExecutorProofs` proves of the executor, for every set of branches,
changes, messages, goals, jobs and every bound on faults:

| Theorem | Statement | Argument |
|---|---|---|
| `TypesHold` | `Spec => []TypeOK` | `TypeInv`: the types, and `Position` (in the states that read a batch, it exists, and `cursor` is a commit while staging). Types alone are not inductive: `Cmd` would be read out of range |
| `FilesAreHeads` | `Spec => []WorktreeFollowsHead` | inductive with the types; a forced update never moves the branch HEAD is on, and every switch that leaves other files goes through `checkout`. The state after a failed checkout is excepted, which does leave HEAD and files apart |
| `DryRunIsHarmless` | `Spec => []DryRunTouchesNothing` | no step changes `job`, and each step that touches the repository tests `dry_run` |
| `HeadReturns` | `Spec => []HeadComesBack` | `HeadIsAccounted`: until `close`, HEAD is untouched or `detached` says so |
| `HookHearsTheLastWord` | `Spec => []HookHearsFinalIds` | `RewritesAreCurrent`: every new id listed is in the history of `cursor`, which needs that `Retarget` follows each rewrite and that each operation extends the history or replaces only its tip |

`RestackProofs` proves of a restacking command, for every plan that keeps to the
contract, every bound on faults and a kill at any step (TLC found both inductive
invariants to hold in all states of `restack`, too):

| Theorem | Statement | Argument |
|---|---|---|
| `StacksOnlyMoveUpwards` | `Spec /\ SoundPlan(job) => StacksMoveUpwards` | the refinement of `StackMoves`: `MoveBranch` and `DeleteBranch` are its `Move`, or change nothing, and every other step stutters. `MovesInv`: each branch is where it was or where it goes; each mark stands for what its commit becomes (`MarksInv`); in a script that has not failed all batches so far have done all they had to (`ScriptInv`); and what is staged and the commit at hand are what `BuiltBy` says at this command (`BatchInv`). The last needs the marks, the marks need it |
| `CleanRunsRestack` | `Spec /\ SoundPlan(job) => []CleanRunRestacks` | `CleanInv`: while nothing has failed, a branch to delete is there until its turn comes (`GoneInv`, `DropsInv`) and HEAD is on none of the branches that move (`HeadIsOff`), so git has no reason of its own to refuse, and `success` stays; with it all batches are done (`SuccessInv`), and `head_id` is where the contract says HEAD is by then (`HeadInv`), for `close` to go to (`EndInv`) |
| `StacksAreStacked` | `Spec /\ PlanIsSound => []StacksStayStacked` | a clean run ends where the graph says, where stacks are stacks |
| `ChangesAreKept` | `Spec /\ PlanIsSound => []NoChangeIsLost` | a branch is where it was or where the graph puts it (`MovesInv`), which has all its changes |

The hypothesis is about planning, and the plan is made before the first step:
`restack` checks `PlanIsSound` on each plan it makes, and `stack` that of `StackRun`. It is not an assumption on
the constants, because the code does not always keep to it: the plan of
`shared_fork` breaks it, and that is the defect. What is proved is that the defect
is not in the playing: with sound scripts no fault, veto of a hook or kill makes
the executor put a branch anywhere else, move a branch before those below it, or
lose a change.

`SessionProofs` proves of a session, for every set of edits and of branches and
every bound on faults:

| Theorem | Statement | Argument |
|---|---|---|
| `SessionTypesHold` | `Spec => []TypeOK` | with `OwnPhases`: a command is only in phases of its own |
| `WorkSurvives` | `Spec => []WorkIsKept` | `KeptInv`: between the stash and the pop the files are clean, so that nothing is there to be overwritten; and once HEAD has left the old commit, HEAD and its branches stay away from it, so that the fixup stays reachable, which is where a pop leaves the edits it does not put back |
| `WorkComesBack` | `Spec => []WorkReturns` | `ReturnInv`: as long as git has not failed it is known in every phase where the work is, down in the files or lifted onto the stash, and under the name that the next pop asks for (`WorkIsInPlace`); and `PretendInv`: a dry run finds everything as it was and never gets to the phases that commit a fixup |
| `RestackIsBackedUp` | `Spec => []RestackCanBeUndone` | `UndoInv`: until `restack` no branch is at its new commit, and from `backup` on the snapshot has them all |

`WalkProofs` proves of next, prev and run, for every repository, place of HEAD,
sequence of requests and bound on faults:

| Theorem | Statement | Argument |
|---|---|---|
| `WalkKeepsWork` | `Spec => []EditsSurvive` | `KeepInv`: in the phases in which a command that is no dry run may move HEAD nothing of the user's is in the working directory (`NothingInTheWay`), so that forced checkouts have nothing to lose; and the entry a command pops is the newest on the stash (`EntryOnTop`), so that the pop drops no other |
| `RunClimbs` | `Spec => []TriesAbovePassed` | `PlacesInv` (HEAD, the cursor, the queue and the graph are at commits of the repository) and `CursorInv`: once something was tried, all that is in the queue is due, and so are the children of `prior`, which is the last commit tried and passed |
| `RunComesHome` | `Spec => []RunEndsWhereItShould` | `EndInv`: outside `visit` and `try` HEAD is at home, a run that may end elsewhere has nothing on the stash (`HeadInv`), and only a fault leaves anything in the way of a pop (`LitterInv`) |
| `PrevKeepsAbove` | `Spec => []PrevStopsAtProtected` | `PrevInv`: the commit prev is at is in the history of where it began, below no guarded commit on the way. In a history without merges what is below a commit is below its parent or is it, which takes the lemmas on `Histories`, by induction over the depth of a commit |

`WorkIsKept` is stated for a stash that does not fail: when it does the code
goes on and overwrites the work (`unsaved`, a hazard of its own).

`StackRunProofs` proves of `git stack`, for every repository, request, script
and bound on faults:

| Theorem | Statement | Argument |
|---|---|---|
| `StackDryRunIsHarmless` | `Spec => []DryRunTouchesNothing` | `DryInv`: in a dry run nothing fails, the work never leaves the files, HEAD is never detached, and so there is nothing to switch back to and no forced checkout. The property alone is not inductive: `Switch` does not look at `--dry-run` but at `detached` |
| `StackIsBackedUp` | `Spec => []NothingMovesUnsaved` | `BackupInv`: the branches are where they were until `backup`, so that the snapshot is of those, and a script runs only with it taken |
| `StackKeepsWork` | `Spec => []WorkIsKept` | `WorkInv`: from the check of the working directory to the forced checkout, nothing uncommitted is in the files of a run that is no dry run, and a dry run gets to no checkout |
| `MovesAreUpwards` | `Spec /\ SoundPlan(job) => StacksMoveUpwards` | the refinement of `StackMoves`: `MoveBranch` and `DeleteBranch` are its `Move`, or change nothing (`StepIsAMove`, `UpdateIsAMove`), and every other step stutters. The invariant is `PlannedInv`, below |
| `CleanStacksRestack` | `Spec /\ SoundPlan(job) => []CleanRunRestacks` | without a fault no script is missed (`FaultsInv`); at the end a branch is where the goal has it unless all that place it were missed (`OnlyMissedIsLeft`); and `EndInv` follows HEAD |
| `OthersAreRestacked` | `Spec /\ SoundPlan(job) => []OnlyDependentsAreBlocked` | one fault misses one script and what depends on it (`MissedInv`), so a branch that is not in place is placed only by those (`OnlyMissedIsLeft`) |
| `StackKeepsChanges` | `Spec /\ PlanIsSound => []NoChangeIsLost` | each branch is where it was or where the goal has it (`WhereInv`), which takes from a branch only what `MayLose` names |
| `ProtectedAreKept` | `Spec /\ PlanIsSound => []ProtectedBranchesStay` | likewise |

The cases of the first three follow one lemma, `GoesOnFrom`: which steps only go on
in the command, from where, and where to. The others rest on `PlannedInv`, which
TLC found to hold in all states of `stack` before it was proved. For a run that is
no dry run it says (`MovesInv`):

- `MarksInv`: of the scripts that ran and were not missed, the last one to mark a
  commit has left the mark as `Played` has it. A script that fails has left marks of
  its own (`abandon` does not take them back), so this cannot be said of all marks:
  it is why `BackIsSound` asks for a script that is depended on, and for none
  between that marks the commit anew.
- `MissedInv`: what depends on a missed script is missed, and after one fault the
  missed ones are those that depend on one script.
- `BatchInv`: what is staged while a script commits is what `Played` says. This takes
  the marks: staging reads nothing else that a script before it has left
  (`StagesAgree`: two runs of a script stage the same when the marks it comes back to
  are the same).
- `WhereInv`: a branch is where it was or where it goes; it is there once a script
  that was not missed has placed it, and not before one has. The second half is what
  makes a move final, and the first what puts it above the branches below it.

`ConfigCommandsProofs` proves of the commands that write the configuration, for
all aliases, levels, values and starting files and every bound on faults:

| Theorem | Statement | Argument |
|---|---|---|
| `RegisterOverwritesNothing` | `Spec => RegisterKeepsWhatThereIs` | `RegisterInv`: what is left to write is a list without repetitions, and whatever of it the snapshot found missing is still missing in every level. The first part is what makes the second inductive: after an alias was written none of the rest is that alias, so a snapshot taken once stays true |
| `RegisterTakesHold` | `Spec => []RegisteredMeansInEffect` | `LinesInv` (the lines of aliases are values, `todo` is of aliases) and `ComesIntoEffect`: an alias is still to be done or in effect, because what was missing in all levels is in effect once it is in one |
| `UnregisterLeavesNothing` | `Spec => []UnregisteredMeansGone` | `GoneInv`: each line of the user's file that calls git-stack is still in `todo`, so that an empty one leaves none. That the list has every entry of every level is a lemma on flattening |
| `ProtectTakesHold` | `Spec => []ProtectDecides` | `ProtectInv`: the lines of the file and the patterns still to be written decide together as the old patterns and the new one do, for every branch (`Rewriting`). What makes it inductive is `BlanksAreLast`: libgit2 writes a pattern into the place of each blank line, which may be above another pattern that then decides instead; but what is below a blank line is still to be written once more. The lemmas are about `Decider`, the last pattern that matches |
| `SettingsAreAsDocumented` | `Spec => []SettingsFollowTheDocs` | no invariant: the sum of the places is compared with the first place that says anything, place by place, in the six places of the documentation; `git -c` and `GIT_CONFIG_COUNT`, which the code ranks the other way round, come out alike where they do not differ |

Assumptions of the executor's theorems: `NoBranchIsNoName`, `MaxFaultsIsNat`, and `JobsAreSound` (a job is
well typed, HEAD resolves, and a command that found HEAD on a branch hands a
branch to `close`, which is what the commands do with `head_branch`). TLC
evaluates all of them in the runs, for every job planned there. A session
assumes `FaultBound`, and a walk `WalkBounds`, that the bound on faults is a
number, `RepositoriesAre` (`IsRepository`: finitely many commits, parents that are
commits, no commit its own ancestor, branches at commits) and `HeadsAre` (HEAD is
on a branch or at a commit); `git stack` that its jobs are well typed, each script
depending on one by its number (`JobsAreSound` of `StackRun`); the commands that write, that git-stack lists no
alias twice (`OursAreAliases`), that a blank line is no pattern (`BlankMatchesNothing`;
the `ignore` crate skips one), that a key without a value calls none of its
commands (`BareKeysNameNoCommand`) and that they start from files (`StartsAreFiles`).

`TypesHold` and `SessionTypesHold` state type invariants that no run repeats, and
`DryRunIsHarmless` is proved of the executor instead of run (`stack` runs the one of
`git stack`); the proofs of the others rest on the first two.

Only model-checked:

- `Terminates` and `Converges`: liveness is out of the prover's reach.
- That planning keeps to the contract (both `PlanIsSound`) and that the staged change
  reaches the stack (`StagedChangeReachesTheStack`): facts about the graph
  operations and `to_scripts`, whose recursive functions walk a graph that changes.
  What they compute for every graph is an induction over data.
- Of `git stack`, what the graphs themselves ask for: that `--repair` mends a stack
  (`RepairMendsStacks`), that each branch goes onto its protected base
  (`DevelopmentFollowsItsBase`) and which branches are ready to be pushed
  (`ReadyArePushed`). The executor's part in them is proved: it puts every branch
  where the goal has it.
- All of `rounds`, which plays whole scripts in one step by a fold over the plan:
  its properties are as much about planning as `PlanIsSound` is.
- `NextUndoesPrev`, whose graph begins at the common base of many branches, a fold
  over a set.

## What else the models show

Not violations of anything the repository says, but worth knowing:

- `next` from a commit below the lowest branch sees no child: the graph begins
  at the common base of the branches and not at the fork, as in `skipped_stack`.
  `NextUndoesPrev` is therefore stated for commits above some branch, and for steps
  of commits: with `--branch` the two count the branches on the way, each in its
  own direction.
- `run` that finds untracked files refuses after it has stashed the rest, and
  leaves that entry on the stash (`EditsSurvive` holds, the work does not come
  back by itself).
- A failing commit keeps run from the commits above it; siblings and what is
  queued already are still tried (`TriesAbovePassed` says exactly that).
- `prev` tells protected commits by the branch that is at them, so below a tip
  main has left it walks on into protected history.
- Of two merged branches at one commit `sync` drops one: `to_scripts` keeps the
  branches to drop in a map by commit. The next sync may drop the other, which is
  why `SyncTwiceIsOnce` excepts branches main has (`BothInMain`).
  `git stack --rebase` keeps both.
- For sync `stack.protect-commit-count` protects nothing: a branch is found to hold a
  user's branch, its own (`docs/reference.md:194`).
- For `git stack` it protects branches of `count` + 3 commits or more, where
  `docs/reference.md:194` says "`count`+ commits": the count starts at zero, the
  limit itself does not count, and the commit the branch is at is not looked at
  (`IsLargeInDocsOnly`).
- It splits off branches that are `stack.auto-base-commit-count` commits away from
  their base or more (`max_commit_count <= ahead_count + behind_count`,
  `stack.rs:866`), where `docs/reference.md:196` says "more than `count`"
  (`IsSplitOffInCodeOnly`).
- `git stack --rebase` on an old, foreign or large stack: only its lowest branch
  is kept where it is. The branches above it, and those that part from it, are
  moved onto upstream without the commits they share with it: `<<0, 1, 2, 3>>` on
  an old `<<0, 1, 2>>` becomes `<<0, 7, 3>>`. `protect_old_branches` and the like
  end at the first branch, and `rebase_development_branches` takes the first
  commits above, whatever is below them. `NoChangeIsLost` excepts what these branches
  share with the lowest one, and nothing else of them (`MayLose`). An old branch on an
  old one is also pushed when it could not be moved, since it is the lowest one that
  nothing protects.
- `infer_base` goes down to the first commit somebody else made. When the user
  made them all that is the first commit of the repository, and so a branch
  further than `stack.auto-base-commit-count` from main (commits of main it does
  not have count, too) is rebased onto that, without the commits of main it was
  on: `<<0, 1, 2, 3>>` with main at `<<0, 1>>` becomes `<<0, 2, 3>>`. That is the
  other exception of `NoChangeIsLost` (`HasNoBase`).
- A sync that is killed leaves HEAD detached at the commit it was at. The next
  sync makes up for it when it is started from a branch it was to move.
- `--unregister` looks at every level and removes from the user's file: an alias
  of another program is removed with the rest if another level binds its name to
  git-stack, and an alias that is in another file only, or has several lines,
  makes it fail.
- `--protect` clears the patterns before it writes them: killed or failing in
  between it loses those not yet written. A glob that does not parse is written
  all the same, and makes later commands fail.
- `GIT_CONFIG_COUNT` wins over `git -c` (`config.rs:109-115`), which
  `docs/reference.md:182-187` names the other way round (`EnvDisagrees`); in
  the environment a boolean is on only as `true`; and `git -c core.editor` is not looked at.
- In a linked worktree the settings of the repository are not read:
  `from_repo` opens `config` in that worktree's own directory under `.git`.
- The documented values of `stack.show-format` are not those the code reads, and
  `stack.pull-remote` has no fallback that is ever reached.
- `switch` panics where only a remote branch such as `origin/main` is at the
  commit; and amend of a commit other than HEAD with staged changes fails an
  assertion when HEAD is not above it.
- A detached HEAD may be left on an abandoned commit: `abandon` keeps `head_id`,
  which `close` switches to.
- `git stack` with two protected branches cut at one commit: both local branches
  are in the first stack and are fast-forwarded to what that one goes onto, so main
  goes to origin/release first and comes to origin/main only with the second
  script; killed or failing in between it stays there. With `--pull` before a
  fetch that parts the two, the release follows origin/main and is left there
  (`docs/reference.md:7`: a branch `git-stack` "must not modify"). `stack.cfg` with
  `Asked <- CutRequests` shows both: `StacksMoveUpwards` and `PlanIsSound` are violated,
  and `ProtectedBranchesStay` holds by its exception (`PlacesOf`).
- `git stack --rebase --onto` with a branch of the user's moves the local main
  there too: main is the base, and `fast_forward_pulled_branches` takes all local
  branches that are at the base.
- A branch without a commit of its own is moved by `--rebase` only if it is where
  its base's local branch is; further down or up that line it stays
  (`DevelopmentFollowsItsBase` allows it).
- `git stack`: an error in the snapshot, in the plan, in `close` or of a push
  ends it with the work on git's stash.
- `git stack --push` pushes also after a restack that failed in part, which
  `ReadyArePushed` allows: what is pushed is ready all the same.
- `git stack --fixup`: when several children of a commit are looked through for
  fixups they share the list of those still to place, so a fixup may move out of
  the branch it is in to its target in a sibling.
- `git stack --repair` puts right the first branch of a stack that has lost
  commits to `git rebase`, where `docs/reference.md:145` speaks of the stack.
- The post-rewrite hook is told of commits that no branch contains yet, when a
  script only marks them for the next one.
- When main was merged into a stack, run tries only what comes after the merge.

## What is left out

- Merge commits, and commit dates, where commits are rewritten: every commit
  has one parent there (`BranchSets` and `Walk` have both). Conflicts are
  faults of a pick, and a change applies anywhere.
- In the planning of `restack` and `stack`, what was fetched is an input; `Rounds`
  has the fetch and the prune of sync, and `stack` the
  fetch of `git stack --pull`; its prune, and its fetch failing, are left out. A plan that is refused (`amend -m` of a staged change, which
  `reword_commit` always refuses) does not reach the executor.
- What an undo does: the snapshot belongs to `git-branch-stash`. Amend takes it
  after its fixup was committed, so it has the branches at the fixup.
- In `Session`, files git does not track, conflicts within a file between the fixup and the
  rest of the work, and `amend --interactive`, which is a `todo!`.
- In `restack`, foreign and stale commits and an upstream that squashes:
  `ProtectTaggedBranches` and `SquashedIds` model what is done about
  them, `stack` has them in its runs.
- In `StackRun`, the `trim_*` operations, which only the display calls, and a local
  main with commits that are not upstream.
- Other processes that move refs while a command runs, but for the user's commits
  while a sync waits (`Rounds`).
- An explicit base or onto commit of sync, amend and the like, and how one is
  spelled; arguments, logging and display, which change
  nothing; `--dump-config`, `--protected` and the status of the aliases, which
  only print; how settings are written as text; how a glob matches a name.
- Signing of commits, and `InMemoryRepo`, which is a test double.

## Plan

In order of importance:

1. `Commits`, `Executor`, `GraphOps`, `Scripts`, `Planner`, `Restack`, their
   runs, and the safety theorems of the executor: done.
2. `Session` and its theorems: done for amend, reword and sync.
3. `BranchSets`, `Walk`: navigation, `run`, the implicit base: done. `branch` of
   a branch set, and the explicit base and onto commit of `bin/git-stack/ops.rs`,
   are left.
4. `StackGraph`, `StackPlan`, `StackRun`: `git stack` on the legacy library, and
   its safety theorems: done; `StackChoice`: several stacks, `--pull`, and a scope,
   base or onto of the user's, large branches and bases that are inferred: done.
5. `Rounds`: one sync after the other with what happens in between: done.
6. `GitConfig`, `Settings`, `ConfigCommands`: done, with their theorems.
7. Foreign and stale commits in `restack`; amend in `Rounds`, and an upstream that
   rewrites its history.
8. Proofs: of both executors, that they keep to the graph through all faults
   (`RestackProofs`, `StackRunProofs`), of sessions, walks and the commands that
   write: done. Left: that a staged change is in every branch above once the goal
   has it there; lemmas on the graph operations (`RightAfter`, `Unlinked`,
   `RebaseDevelopmentBranches` keep the graph a tree), which is the first half of
   `PlanIsSound`; of `rounds`, that nothing is lost.
