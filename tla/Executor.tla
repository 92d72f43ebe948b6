------------------------------ MODULE Executor ------------------------------
(***************************************************************************)
(* The rewrite::Executor: it plays the scripts of one command on the       *)
(* repository, batch by batch.  A batch is first staged in memory (commits *)
(* are created, nothing points to them), then committed: the               *)
(* reference-transaction hook is asked, HEAD is detached, the branches are *)
(* moved one at a time, the dropped ones are deleted, and the post-rewrite *)
(* hook is told.  A failure at any point abandons what is left of the      *)
(* batch and skips the rest of its script.  When every script has run,     *)
(* `close' puts HEAD back and checks its tree out.                         *)
(*                                                                         *)
(* Everything git does to a file is a step of its own, so that every state *)
(* of the model is one the command can be killed in.                       *)
(***************************************************************************)
EXTENDS Commits

CONSTANTS
    Branch,     \* the names of local branches
    NoBranch,   \* no name: HEAD is detached, or there is none to restore
    Goal,       \* what a command can be out to achieve: the executor
                \* carries it along, the properties of a command read it
    Jobs,       \* what the commands ask of the executor
    MaxFaults   \* how many times git may fail in a behaviour

ASSUME NoBranchIsNoName == NoBranch \notin Branch
ASSUME MaxFaultsIsNat == MaxFaults \in Nat

(***************************************************************************)
(* Scripts.                                                                *)
(***************************************************************************)
Command ==
    [op : {"mark", "pick", "fixup"}, id : Commit]
        \cup [op : {"reword"}, msg : Message]
        \cup [op : {"create", "delete"}, name : Branch]

Batch == [onto : Commit, commands : Seq(Command)]

Script == Seq(Batch)

\* What HEAD names: a branch, or a commit when it is detached.
HeadRef == [on : Branch \cup {NoBranch}, at : Commit \cup {NoCommit}]

\* A job: what the command is out to achieve, the repository it found, the
\* scripts it planned, the branch it hands to `close', and its --dry-run flag.
Job ==
    [goal : Goal,
     refs : [Branch -> Commit \cup {NoCommit}],
     head : HeadRef,
     scripts : Seq(Script),
     restore : Branch \cup {NoBranch},
     dry_run : BOOLEAN]

\* HEAD is detached at a commit, or on a branch that exists.
HeadResolves(j) ==
    IF j.head.on = NoBranch THEN j.head.at # NoCommit
                            ELSE j.refs[j.head.on] # NoCommit

\* A command that found HEAD on a branch hands a branch to `close'.
HeadIsRestored(j) == j.head.on # NoBranch => j.restore # NoBranch

ASSUME JobsAreSound ==
    \A j \in Jobs : j \in Job /\ HeadResolves(j) /\ HeadIsRestored(j)

VARIABLES
    job,                \* the job being run
    pc,                 \* where the executor is
    script, batch, at,  \* the script, its batch, and the command or the
                        \* pending update in it that comes next
    cursor,             \* `head_oid' of stage_batch: the commit built so far
    marks,              \* Executor.marks: original id -> id in the new history
    branches,           \* Executor.branches: staged <<commit, name>> updates
    delete_branches,    \* Executor.delete_branches
    post_rewrite,       \* Executor.post_rewrite: <<old, new>> pairs
    head_id,            \* Executor.head_id: where HEAD's commit has gone
    detached,           \* Executor.detached
    failed,             \* a batch of this script has failed
    success,            \* no batch of any script has failed
    refs,               \* the local branches
    head,               \* HEAD
    checkout,           \* the tree in the working directory
    told,               \* every pair the post-rewrite hook was told of
    faults              \* how often git has failed

staged == <<cursor, branches, delete_branches, post_rewrite>>
position == <<script, batch>>
repository == <<refs, head, checkout>>
vars == <<job, pc, script, batch, at, cursor, marks, branches, delete_branches,
          post_rewrite, head_id, detached, failed, success, refs, head,
          checkout, told, faults>>

dry_run == job.dry_run
Scripts == job.scripts
Batches == Scripts[script]
Commands == Batches[batch].commands
Cmd == Commands[at]

Terminal == {"done", "error", "torn"}

HeadCommit == IF head.on = NoBranch THEN head.at ELSE refs[head.on]

Init ==
    /\ job \in Jobs
    /\ pc = "script"
    /\ script = 1 /\ batch = 1 /\ at = 1
    /\ cursor = NoCommit
    /\ marks = [m \in {} |-> NoCommit]
    /\ branches = << >> /\ delete_branches = << >> /\ post_rewrite = << >>
    /\ head_id = NoCommit
    /\ detached = FALSE /\ failed = FALSE /\ success = TRUE
    /\ refs = job.refs
    /\ head = job.head
    /\ checkout = Tree(HeadCommit)
    /\ told = {}
    /\ faults = 0

(***************************************************************************)
(* run: the loop over the batches of a script.                             *)
(***************************************************************************)
RunScript ==
    /\ pc = "script" /\ script <= Len(Scripts)
    /\ head_id' = IF head_id = NoCommit THEN HeadCommit ELSE head_id
    /\ failed' = FALSE
    /\ batch' = 1
    /\ pc' = "batch"
    /\ UNCHANGED <<job, script, at, staged, marks, detached, success,
                   repository, told, faults>>

\* The script ends after its last batch; after a failure its other batches
\* are ignored.
EndScriptAfterLastBatch ==      \* mutant: a failure leaves the loop waiting
    /\ pc = "batch" /\ batch > Len(Batches)
    /\ script' = script + 1
    /\ pc' = "script"
    /\ UNCHANGED <<job, batch, at, staged, marks, head_id, detached, failed,
                   success, repository, told, faults>>

EndScript ==
    /\ pc = "batch" /\ (failed \/ batch > Len(Batches))
    /\ script' = script + 1
    /\ pc' = "script"
    /\ UNCHANGED <<job, batch, at, staged, marks, head_id, detached, failed,
                   success, repository, told, faults>>

\* Executor::abandon, and the failure the caller of `run' reports.
AbandonAndGoOn ==               \* mutant: the rest of the script still runs
    /\ branches' = << >> /\ delete_branches' = << >> /\ post_rewrite' = << >>
    /\ success' = FALSE
    /\ batch' = batch + 1
    /\ pc' = "batch"
    /\ UNCHANGED <<job, script, at, cursor, marks, head_id, detached, failed,
                   repository, told>>

Abandon ==
    /\ branches' = << >> /\ delete_branches' = << >> /\ post_rewrite' = << >>
    /\ failed' = TRUE /\ success' = FALSE
    /\ batch' = batch + 1
    /\ pc' = "batch"
    /\ UNCHANGED <<job, script, at, cursor, marks, head_id, detached,
                   repository, told>>

\* git reports an error: a conflict, a lock held by another process, a hook
\* that says no.
Fault ==
    /\ ~dry_run
    /\ faults < MaxFaults
    /\ faults' = faults + 1

(***************************************************************************)
(* stage_batch: one action per command.                                    *)
(***************************************************************************)
Resolve(onto) == IF onto \in DOMAIN marks THEN marks[onto] ELSE onto

StageBatch ==
    /\ pc = "batch" /\ ~failed /\ batch <= Len(Batches)
    /\ cursor' = Resolve(Batches[batch].onto)
    /\ at' = 1
    /\ pc' = "stage"
    /\ UNCHANGED <<job, position, marks, branches, delete_branches,
                   post_rewrite, head_id, detached, failed, success,
                   repository, told, faults>>

Staging(op) == pc = "stage" /\ at <= Len(Commands) /\ Cmd.op = op

StayBehind(id, old, new) == id    \* mutant: HEAD's commit is not followed

\* Executor::update_head: HEAD's commit goes where its rewrite goes.
Follow(id, old, new) == IF id = old THEN new ELSE id

\* A rewritten commit that is rewritten again.
RetargetNot(pairs, old, new) == pairs   \* mutant: the first rewrite is kept

Retarget(pairs, old, new) ==
    [i \in DOMAIN pairs |-> <<pairs[i][1], Follow(pairs[i][2], old, new)>>]

StageMark ==
    /\ Staging("mark")
    /\ marks' = [m \in DOMAIN marks \cup {Cmd.id} |->
                    IF m = Cmd.id THEN cursor ELSE marks[m]]
    /\ at' = at + 1
    /\ UNCHANGED <<job, pc, position, staged, head_id, detached, failed,
                   success, repository, told, faults>>

StagePick ==
    /\ Staging("pick")
    /\ LET updated == IF dry_run THEN Cmd.id ELSE CherryPick(cursor, Cmd.id)
       IN  /\ cursor' = updated
           /\ head_id' = Follow(head_id, Cmd.id, updated)
           /\ post_rewrite' = Append(post_rewrite, <<Cmd.id, updated>>)
    /\ at' = at + 1
    /\ UNCHANGED <<job, pc, position, marks, branches, delete_branches,
                   detached, failed, success, repository, told, faults>>

StageReword ==
    /\ Staging("reword")
    /\ LET updated == IF dry_run THEN cursor ELSE RewordTip(cursor, Cmd.msg)
       IN  /\ cursor' = updated
           /\ head_id' = Follow(head_id, cursor, updated)
           /\ post_rewrite' = Retarget(post_rewrite, cursor, updated)
    /\ at' = at + 1
    /\ UNCHANGED <<job, pc, position, marks, branches, delete_branches,
                   detached, failed, success, repository, told, faults>>

StageFixup ==
    /\ Staging("fixup")
    /\ LET updated == IF dry_run THEN Cmd.id ELSE Squash(Cmd.id, cursor)
       IN  /\ cursor' = updated
           /\ head_id' = Follow(Follow(head_id, cursor, updated),
                                Cmd.id, updated)
           /\ post_rewrite' = Append(Retarget(post_rewrite, cursor, updated),
                                     <<Cmd.id, updated>>)
    /\ at' = at + 1
    /\ UNCHANGED <<job, pc, position, marks, branches, delete_branches,
                   detached, failed, success, repository, told, faults>>

StageCreate ==
    /\ Staging("create")
    /\ branches' = Append(branches, <<cursor, Cmd.name>>)
    /\ at' = at + 1
    /\ UNCHANGED <<job, pc, position, cursor, marks, delete_branches,
                   post_rewrite, head_id, detached, failed, success,
                   repository, told, faults>>

StageDelete ==
    /\ Staging("delete")
    /\ delete_branches' = Append(delete_branches, Cmd.name)
    /\ at' = at + 1
    /\ UNCHANGED <<job, pc, position, cursor, marks, branches, post_rewrite,
                   head_id, detached, failed, success, repository, told,
                   faults>>

\* The commands that create a commit can fail; a pick that has nothing to do
\* cannot.
StageFails ==
    /\ pc = "stage" /\ at <= Len(Commands)
    /\ Cmd.op \in {"pick", "reword", "fixup"}
    /\ Cmd.op = "pick" => cursor # Front(Cmd.id)
    /\ Fault
    /\ Abandon

EndBatch ==
    /\ pc = "stage" /\ at > Len(Commands)
    /\ pc' = "hook"
    /\ UNCHANGED <<job, position, at, staged, marks, head_id, detached,
                   failed, success, repository, told, faults>>

(***************************************************************************)
(* commit: the batch is made permanent.                                    *)
(***************************************************************************)
HookAccepts ==
    /\ pc = "hook"
    /\ pc' = IF branches = << >> /\ delete_branches = << >> THEN "notify"
                                                            ELSE "detach"
    /\ UNCHANGED <<job, position, at, staged, marks, head_id, detached,
                   failed, success, repository, told, faults>>

HookVetoes == pc = "hook" /\ Fault /\ Abandon

\* git will not move the branch HEAD is on, so HEAD is detached first.
DetachUnnoticed ==              \* mutant: `detached' is not recorded
    /\ pc = "detach"
    /\ head' = IF dry_run THEN head ELSE [on |-> NoBranch, at |-> HeadCommit]
    /\ at' = 1
    /\ pc' = "branch"
    /\ UNCHANGED <<job, position, staged, marks, head_id, detached, failed,
                   success, refs, checkout, told, faults>>

Detach ==
    /\ pc = "detach"
    /\ IF dry_run THEN UNCHANGED <<head, detached>>
                  ELSE /\ head' = [on |-> NoBranch, at |-> HeadCommit]
                       /\ detached' = TRUE
    /\ at' = 1
    /\ pc' = "branch"
    /\ UNCHANGED <<job, position, staged, marks, head_id, failed, success,
                   refs, checkout, told, faults>>

DetachFails == pc = "detach" /\ Fault /\ Abandon

\* What a branch update makes of the branches.
Updated(name, commit) ==
    IF dry_run THEN refs ELSE [refs EXCEPT ![name] = commit]

MovingBranch == pc = "branch" /\ at <= Len(branches)

\* Repo::branch, forced: whatever the branch was is overwritten.
MoveBranch ==
    /\ MovingBranch
    /\ dry_run \/ head.on # branches[at][2]
    /\ refs' = Updated(branches[at][2], branches[at][1])
    /\ at' = at + 1
    /\ UNCHANGED <<job, pc, position, staged, marks, head_id, detached,
                   failed, success, head, checkout, told, faults>>

\* git always refuses to move the branch that HEAD is on.
MoveFails ==
    /\ MovingBranch /\ ~dry_run
    /\ IF head.on = branches[at][2] THEN UNCHANGED faults ELSE Fault
    /\ Abandon

EndMoves ==
    /\ pc = "branch" /\ at > Len(branches)
    /\ branches' = << >>
    /\ at' = 1
    /\ pc' = "delete"
    /\ UNCHANGED <<job, position, cursor, marks, delete_branches,
                   post_rewrite, head_id, detached, failed, success,
                   repository, told, faults>>

DeletingBranch == pc = "delete" /\ at <= Len(delete_branches)

\* git deletes a branch that exists and that HEAD is not on.
CanDelete(name) == refs[name] # NoCommit /\ head.on # name

DeleteBranch ==
    /\ DeletingBranch
    /\ dry_run \/ CanDelete(delete_branches[at])
    /\ refs' = Updated(delete_branches[at], NoCommit)
    /\ at' = at + 1
    /\ UNCHANGED <<job, pc, position, staged, marks, head_id, detached,
                   failed, success, head, checkout, told, faults>>

DeleteFails ==
    /\ DeletingBranch /\ ~dry_run
    /\ IF CanDelete(delete_branches[at]) THEN Fault ELSE UNCHANGED faults
    /\ Abandon

EndDeletes ==
    /\ pc = "delete" /\ at > Len(delete_branches)
    /\ delete_branches' = << >>
    /\ pc' = "notify"
    /\ UNCHANGED <<job, position, at, cursor, marks, branches, post_rewrite,
                   head_id, detached, failed, success, repository, told,
                   faults>>

\* The post-rewrite hook hears of the commits that really changed.
Notify ==
    /\ pc = "notify"
    /\ told' = IF dry_run THEN told
               ELSE told \cup {p \in Range(post_rewrite) : p[1] # p[2]}
    /\ post_rewrite' = << >>
    /\ batch' = batch + 1
    /\ pc' = "batch"
    /\ UNCHANGED <<job, script, at, cursor, marks, branches, delete_branches,
                   head_id, detached, failed, success, repository, faults>>

(***************************************************************************)
(* close: HEAD returns to the branch the command names or, when there is   *)
(* none, to the commit its own commit became.                              *)
(***************************************************************************)
restore_branch == job.restore
Closing == pc = "script" /\ script > Len(Scripts)
MustSwitch ==
    /\ ~dry_run /\ detached
    /\ restore_branch # NoBranch \/ head_id # NoCommit

NothingToSwitch ==
    /\ Closing /\ ~MustSwitch
    /\ pc' = "done"
    /\ UNCHANGED <<job, position, at, staged, marks, head_id, detached,
                   failed, success, repository, told, faults>>

\* Repo::switch_branch and Repo::switch_commit: HEAD is set, then the tree is
\* checked out when it is another one than that of the commit HEAD left.
OtherTreeNever(target) == FALSE         \* mutant: nothing is checked out

OtherTree(target) == Tree(HeadCommit) # Tree(target)

SwitchTo(target, new_head) ==
    /\ head' = new_head
    /\ pc' = IF OtherTree(target) THEN "checkout" ELSE "done"
    /\ UNCHANGED <<job, position, at, staged, marks, head_id, detached,
                   failed, success, refs, checkout, told, faults>>

SwitchBranch ==
    /\ Closing /\ MustSwitch
    /\ restore_branch # NoBranch /\ refs[restore_branch] # NoCommit
    /\ SwitchTo(refs[restore_branch],
                [on |-> restore_branch, at |-> NoCommit])

SwitchCommit ==
    /\ Closing /\ MustSwitch
    /\ restore_branch = NoBranch
    /\ SwitchTo(head_id, [on |-> NoBranch, at |-> head_id])

\* The command ends with an error, HEAD still detached.
Stop ==
    /\ pc' = "error"
    /\ UNCHANGED <<job, position, at, staged, marks, head_id, detached,
                   failed, success, repository, told>>

\* git always refuses when the branch to restore is gone.
SwitchFails ==
    /\ Closing /\ MustSwitch
    /\ IF restore_branch # NoBranch /\ refs[restore_branch] = NoCommit
       THEN UNCHANGED faults ELSE Fault
    /\ Stop

CheckoutHead ==
    /\ pc = "checkout"
    /\ checkout' = Tree(HeadCommit)
    /\ pc' = "done"
    /\ UNCHANGED <<job, position, at, staged, marks, head_id, detached,
                   failed, success, refs, head, told, faults>>

\* HEAD is set and the files are not.
CheckoutFails ==
    /\ pc = "checkout"
    /\ Fault
    /\ pc' = "torn"
    /\ UNCHANGED <<job, position, at, staged, marks, head_id, detached,
                   failed, success, repository, told>>

Ended == pc \in Terminal /\ UNCHANGED vars

-----------------------------------------------------------------------------
Stage ==
    \/ StageBatch \/ StageMark \/ StagePick \/ StageReword \/ StageFixup
    \/ StageCreate \/ StageDelete \/ StageFails \/ EndBatch

CommitBatch ==
    \/ HookAccepts \/ HookVetoes
    \/ Detach \/ DetachFails
    \/ MoveBranch \/ MoveFails \/ EndMoves
    \/ DeleteBranch \/ DeleteFails \/ EndDeletes
    \/ Notify

Close ==
    \/ NothingToSwitch \/ SwitchBranch \/ SwitchCommit
    \/ SwitchFails \/ CheckoutHead \/ CheckoutFails

Next == RunScript \/ EndScript \/ Stage \/ CommitBatch \/ Close \/ Ended

Spec == Init /\ [][Next]_vars

\* The executor is one thread that nothing stops: it takes its next step.
FairSpec == Spec /\ WF_vars(Next)

-----------------------------------------------------------------------------
(***************************************************************************)
(* Properties.                                                             *)
(***************************************************************************)
\* The job is any of Jobs and never changes.
TypeOK ==
    /\ pc \in {"script", "batch", "stage", "hook", "detach", "branch",
               "delete", "notify", "checkout"} \cup Terminal
    /\ script \in Nat /\ batch \in Nat /\ at \in Nat
    /\ cursor \in Commit \cup {NoCommit}
    /\ DOMAIN marks \subseteq Commit
    /\ \A m \in DOMAIN marks : marks[m] \in Commit
    /\ branches \in Seq(Commit \X Branch)
    /\ delete_branches \in Seq(Branch)
    /\ post_rewrite \in Seq(Commit \X Commit)
    /\ head_id \in Commit \cup {NoCommit}
    /\ detached \in BOOLEAN /\ failed \in BOOLEAN /\ success \in BOOLEAN
    /\ refs \in [Branch -> Commit \cup {NoCommit}]
    /\ head \in HeadRef
    /\ checkout \subseteq Change
    /\ told \subseteq Commit \X Commit
    /\ faults \in 0..MaxFaults

\* The files in the working directory are those of HEAD's commit in every
\* state but one: while `close' checks the tree out of the commit it has just
\* put HEAD on, and after that failed.  A command killed anywhere else leaves
\* no difference behind for the user to find.
WorktreeFollowsHead ==
    pc \notin {"checkout", "torn"} => checkout = Tree(HeadCommit)

\* HEAD is never left behind: when HEAD was on a branch and the command gets
\* to its end, whatever failed on the way, HEAD is on its branch again, or on
\* the one that stands in for it.
HeadComesBack ==
    pc = "done" /\ job.head.on # NoBranch =>
        head.on \in {job.head.on, restore_branch} \ {NoBranch}

\* The new ids the post-rewrite hook is told of are those of the finished
\* batch: none was replaced by a later reword or fixup of the same batch.
HookHearsFinalIds ==
    pc = "notify" /\ ~dry_run =>
        \A p \in Range(post_rewrite) : IsPrefix(p[2], cursor)

\* --dry-run: the whole script is walked through, with neither a branch nor
\* HEAD moved, nor a hook told anything.
DryRunTouchesNothing ==
    dry_run => /\ refs = job.refs
               /\ head = job.head
               /\ told = {}

\* The executor always gets to the end of its scripts, whatever fails.
Terminates == <>(pc \in Terminal)

=============================================================================
