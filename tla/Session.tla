------------------------------ MODULE Session ------------------------------
(***************************************************************************)
(* A whole `amend', `reword' or `sync' as the user sees it: the work in    *)
(* the working directory is committed as a fixup or put on git's stash,    *)
(* the branches are backed up, the stack is planned and restacked, HEAD    *)
(* and the work come back.  Executor and Restack model the restacking in   *)
(* detail; here each branch just goes, one after the other, from its old   *)
(* commit to its new one.                                                  *)
(*                                                                         *)
(* Every state is one the command can be killed in.                        *)
(***************************************************************************)
EXTENDS Naturals

CONSTANTS
    Edit,       \* the changes the user has not committed
    Branch,     \* the branches of the stack
    MaxFaults   \* how many times git may fail in a behaviour

ASSUME FaultBound == MaxFaults \in Nat

Where == {"old", "fixup", "new"}
NoBackup == [b \in {} |-> "old"]

\* What the user asks for, and finds when asking.
Request ==
    {r \in [command : {"amend", "reword", "sync"},
            staged : SUBSET Edit, unstaged : SUBSET Edit,
            all : BOOLEAN,          \* --all
            message : {"keep", "text", "editor"},
            fixed : BOOLEAN,        \* some fixup of the commit is above it
            is_fixup : BOOLEAN,     \* the commit is a fixup itself
            at_head : SUBSET Branch,
            attached : BOOLEAN,
            dry_run : BOOLEAN] :
        /\ r.staged \cap r.unstaged = {}
        /\ r.attached => r.at_head # {}
        /\ r.all \/ r.is_fixup => r.command = "amend"
        /\ r.command = "reword" => r.message # "keep"
        /\ r.command = "sync" => r.message = "keep" /\ ~r.fixed}

VARIABLES
    cmd,        \* the request
    pc,         \* the phase the command is in
    index,      \* the edits that are staged ...
    files,      \* ... and those that are only in the working directory
    fixup,      \* the edits in the commit commit_fixup created
    stash,      \* git's stash: the entries the command pushed
    tip,        \* where each branch is
    head,       \* HEAD: whether on a branch, and at which commit
    backup,     \* the branches in the snapshot of git-branch-stash
    reworded,   \* there is a new message
    unsaved,    \* git could not stash the work
    faults

vars == <<cmd, pc, index, files, fixup, stash, tip, head, backup, reworded,
          unsaved, faults>>
work == <<index, files, stash, unsaved>>

(***************************************************************************)
(* The phases of the commands, each with the one that comes after it.      *)
(***************************************************************************)
AmendNext ==
    [stage |-> "commit", commit |-> "save", save |-> "detach",
     detach |-> "move", move |-> "switch", switch |-> "restore",
     restore |-> "update", update |-> "backup", backup |-> "edit",
     edit |-> "stash", stash |-> "plan", plan |-> "restack",
     restack |-> "close", close |-> "pop", pop |-> "done"]
RewordNext ==
    [edit |-> "plan", plan |-> "stash", stash |-> "backup",
     backup |-> "restack", restack |-> "close", close |-> "pop",
     pop |-> "done"]
BackupLast ==                   \* mutant: the backup is made after the fact
    [stash |-> "update", update |-> "plan", plan |-> "restack",
     restack |-> "backup", backup |-> "close", close |-> "pop",
     pop |-> "done"]
SyncNext ==
    [stash |-> "backup", backup |-> "update", update |-> "plan",
     plan |-> "restack", restack |-> "close", close |-> "pop",
     pop |-> "done"]

FirstPhase == [amend |-> "stage", reword |-> "edit", sync |-> "stash"]

At(phase) == pc = phase
Proceed ==
    LET following == [amend |-> AmendNext, reword |-> RewordNext,
                      sync |-> SyncNext]
    IN  pc' = following[cmd.command][pc]

Init ==
    /\ cmd \in Request
    /\ pc = FirstPhase[cmd.command]
    /\ index = cmd.staged /\ files = cmd.unstaged
    /\ fixup = {} /\ stash = {}
    /\ tip = [b \in Branch |-> "old"]
    /\ head = [attached |-> cmd.attached, at |-> "old"]
    /\ backup = NoBackup
    /\ reworded = FALSE /\ unsaved = FALSE
    /\ faults = 0

Fault == faults < MaxFaults /\ faults' = faults + 1

(***************************************************************************)
(* git::stash_push and git::stash_pop.  A push that fails is only logged,  *)
(* and so is a pop.                                                        *)
(***************************************************************************)
Push(id) ==
    \/ /\ index \cup files = {}
       /\ UNCHANGED <<work, faults>>
    \/ /\ index \cup files # {}
       /\ stash' = stash \cup {[id |-> id, edits |-> index \cup files]}
       /\ index' = {} /\ files' = {}
       /\ UNCHANGED <<unsaved, faults>>
    \/ /\ index \cup files # {}
       /\ Fault
       /\ unsaved' = TRUE
       /\ UNCHANGED <<index, files, stash>>

\* What HEAD already has is no change any more.
Pop(id) ==
    LET entries == {e \in stash : e.id = id}
        committed == IF cmd.dry_run THEN {} ELSE fixup
    IN  \/ /\ stash' = stash \ entries
           /\ files' = files \cup ((UNION {e.edits : e \in entries}) \ committed)
           /\ UNCHANGED <<index, unsaved, faults>>
        \/ entries # {} /\ Fault /\ UNCHANGED work

(***************************************************************************)
(* stage_fixup and commit_fixup, of amend.                                 *)
(***************************************************************************)
Stage ==
    /\ At("stage") /\ Proceed
    /\ IF cmd.all /\ ~cmd.dry_run
       THEN index' = index \cup files /\ files' = {}
       ELSE UNCHANGED <<index, files>>
    /\ UNCHANGED <<cmd, fixup, stash, tip, head, backup, reworded, unsaved,
                   faults>>

CommitFixup ==
    /\ At("commit")
    /\ fixup' = index
    /\ IF index = {} \/ cmd.dry_run THEN pc' = "update" ELSE Proceed
    /\ UNCHANGED <<cmd, work, tip, head, backup, reworded, faults>>

SaveNothing ==                  \* mutant: the work is not stashed first
    /\ At("save") /\ Proceed
    /\ UNCHANGED <<cmd, work, fixup, tip, head, backup, reworded, faults>>

Save ==
    /\ At("save") /\ Proceed
    /\ Push("fixup")
    /\ UNCHANGED <<cmd, fixup, tip, head, backup, reworded>>

DetachHead ==
    /\ At("detach") /\ Proceed
    /\ head' = [head EXCEPT !.attached = FALSE]
    /\ UNCHANGED <<cmd, work, fixup, tip, backup, reworded, faults>>

\* Every branch at HEAD comes along.
MoveToFixup(b) ==
    /\ At("move") /\ b \in cmd.at_head /\ tip[b] = "old"
    /\ tip' = [tip EXCEPT ![b] = "fixup"]
    /\ UNCHANGED <<cmd, pc, work, fixup, head, backup, reworded, faults>>

EndMoves ==
    /\ At("move") /\ \A b \in cmd.at_head : tip[b] = "fixup"
    /\ Proceed
    /\ UNCHANGED <<cmd, work, fixup, tip, head, backup, reworded, faults>>

\* The fixup has another tree than its parent: it is checked out, with force.
SwitchToFixup ==
    /\ At("switch") /\ Proceed
    /\ head' = [attached |-> cmd.attached, at |-> "fixup"]
    /\ index' = {} /\ files' = {}
    /\ UNCHANGED <<cmd, fixup, stash, tip, backup, reworded, unsaved, faults>>

Restore ==
    /\ At("restore") /\ Proceed
    /\ Pop("fixup")
    /\ UNCHANGED <<cmd, fixup, tip, head, backup, reworded>>

(***************************************************************************)
(* What the commands have in common.                                       *)
(***************************************************************************)
\* BranchSet::update; sync fetches first, and only warns when that fails.
Update ==
    /\ At("update") /\ Proceed
    /\ UNCHANGED <<cmd, work, fixup, tip, head, backup, reworded, faults>>

BackUp ==
    /\ At("backup") /\ Proceed
    /\ backup' = IF cmd.dry_run THEN NoBackup ELSE tip
    /\ UNCHANGED <<cmd, work, fixup, tip, head, reworded, faults>>

\* The user may leave the message as it is, which is no new message: `amend'
\* goes on if it has a fixup, `reword' has nothing to do.
EditMessage(changed) ==
    /\ At("edit")
    /\ cmd.message = "text" => changed
    /\ cmd.message = "keep" => ~changed
    /\ reworded' = changed
    /\ IF changed \/ fixup # {} THEN Proceed ELSE pc' = "failed"
    /\ UNCHANGED <<cmd, work, fixup, tip, head, backup, faults>>

\* The editor fails, or the message is empty.
EditAborts ==
    /\ At("edit") /\ cmd.message = "editor"
    /\ pc' = "failed"
    /\ UNCHANGED <<cmd, work, fixup, tip, head, backup, reworded, faults>>

Stash ==
    /\ At("stash")
    /\ Proceed
    /\ IF cmd.dry_run THEN UNCHANGED <<work, faults>> ELSE Push("command")
    /\ UNCHANGED <<cmd, fixup, tip, head, backup, reworded>>

\* reword_commit refuses a commit some fixup of which is above it; the fixup
\* this command made is one, unless it fixes what the commit fixes.
Refused ==
    /\ reworded
    /\ cmd.fixed \/ (fixup # {} /\ ~cmd.is_fixup)

Plan ==
    /\ At("plan") /\ ~Refused
    /\ Proceed
    /\ UNCHANGED <<cmd, work, fixup, tip, head, backup, reworded, faults>>

Refuse ==
    /\ At("plan") /\ Refused
    /\ pc' = "failed"
    /\ UNCHANGED <<cmd, work, fixup, tip, head, backup, reworded, faults>>

\* Executor::commit detaches HEAD before it moves a branch.
DetachToRestack ==
    /\ At("restack") /\ ~cmd.dry_run /\ head.attached
    /\ head' = [head EXCEPT !.attached = FALSE]
    /\ UNCHANGED <<cmd, pc, work, fixup, tip, backup, reworded, faults>>

Restack(b) ==
    /\ At("restack") /\ ~cmd.dry_run /\ ~head.attached /\ tip[b] # "new"
    /\ tip' = [tip EXCEPT ![b] = "new"]
    /\ UNCHANGED <<cmd, pc, work, fixup, head, backup, reworded, faults>>

\* The branches a failed batch leaves behind stay where they are.
EndRestack ==
    /\ At("restack") /\ Proceed
    /\ IF cmd.dry_run \/ \A b \in Branch : tip[b] = "new"
       THEN UNCHANGED faults ELSE Fault
    /\ UNCHANGED <<cmd, work, fixup, tip, head, backup, reworded>>

\* Executor::close goes back to the branch, wherever it is by now, and a HEAD
\* that was on none to the commit that took the place of its own.
Places ==
    IF cmd.attached THEN {tip[b] : b \in cmd.at_head}
    ELSE {head.at} \cup (IF \E b \in Branch : tip[b] = "new" THEN {"new"} ELSE {})

Close(place, same_tree) ==
    /\ At("close") /\ ~cmd.dry_run /\ ~head.attached /\ place \in Places
    /\ Proceed
    /\ head' = [attached |-> cmd.attached, at |-> place]
    /\ IF same_tree THEN UNCHANGED <<index, files>>
       ELSE place # head.at /\ index' = {} /\ files' = {}   \* with force
    /\ UNCHANGED <<cmd, fixup, stash, tip, backup, reworded, unsaved, faults>>

NothingToClose ==
    /\ At("close") /\ (cmd.dry_run \/ head.attached)
    /\ Proceed
    /\ UNCHANGED <<cmd, work, fixup, tip, head, backup, reworded, faults>>

PopWrongEntry ==                \* mutant: the entry of the fixup is popped
    /\ At("pop") /\ Proceed
    /\ Pop("fixup")
    /\ UNCHANGED <<cmd, fixup, tip, head, backup, reworded>>

PopWork ==
    /\ At("pop") /\ Proceed
    /\ Pop("command")
    /\ UNCHANGED <<cmd, fixup, tip, head, backup, reworded>>

\* `?' on an error of git: the command ends at once.  A HEAD that is not on a
\* branch needs no detaching, a close need not ask git, and only sync does
\* while it plans.
GitFails ==
    /\ \/ pc \in {"stage", "move", "switch", "backup"}
       \/ At("commit") /\ index # {}
       \/ At("detach") /\ head.attached
       \/ At("plan") /\ cmd.command = "sync"
       \/ At("close") /\ ~cmd.dry_run /\ ~head.attached
    /\ Fault
    /\ pc' = "failed"
    /\ UNCHANGED <<cmd, work, fixup, tip, head, backup, reworded>>

\* Of a switch: HEAD is set, and then the tree cannot be checked out.
CheckoutFails(place) ==
    /\ \/ At("switch") /\ place = "fixup"
       \/ At("close") /\ ~cmd.dry_run /\ ~head.attached /\ place \in Places
    /\ place # head.at
    /\ head' = [attached |-> cmd.attached, at |-> place]
    /\ Fault
    /\ pc' = "failed"
    /\ UNCHANGED <<cmd, work, fixup, tip, backup, reworded>>

Ended == pc \in {"done", "failed"} /\ UNCHANGED vars

-----------------------------------------------------------------------------
Next ==
    \/ Stage \/ CommitFixup \/ Save \/ DetachHead
    \/ \E b \in Branch : MoveToFixup(b)
    \/ EndMoves \/ SwitchToFixup \/ Restore
    \/ Update \/ BackUp
    \/ \E changed \in BOOLEAN : EditMessage(changed)
    \/ EditAborts \/ Stash \/ Plan \/ Refuse
    \/ DetachToRestack
    \/ \E b \in Branch : Restack(b)
    \/ EndRestack
    \/ \E place \in Where, same_tree \in BOOLEAN : Close(place, same_tree)
    \/ NothingToClose \/ PopWork
    \/ GitFails
    \/ \E place \in Where : CheckoutFails(place)
    \/ Ended

Spec == Init /\ [][Next]_vars

-----------------------------------------------------------------------------
(***************************************************************************)
(* Properties.                                                             *)
(***************************************************************************)
Tips == [Branch -> Where]

TypeOK ==
    /\ pc \in DOMAIN AmendNext \cup {"done", "failed"}
    /\ index \subseteq Edit /\ files \subseteq Edit /\ fixup \subseteq Edit
    /\ stash \subseteq [id : {"fixup", "command"}, edits : SUBSET Edit]
    /\ tip \in Tips
    /\ head \in [attached : BOOLEAN, at : Where]
    /\ backup \in Tips \cup {NoBackup}
    /\ reworded \in BOOLEAN /\ unsaved \in BOOLEAN
    /\ faults \in 0..MaxFaults

Uncommitted == cmd.staged \cup cmd.unstaged

\* The fixup is in the history of HEAD or of a branch, squashed or not.
FixupIsReachable ==
    head.at # "old" \/ \E b \in cmd.at_head : tip[b] # "old"

Kept ==
    index \cup files \cup (UNION {e.edits : e \in stash})
        \cup (IF FixupIsReachable THEN fixup ELSE {})

\* Wherever the command fails or is killed, what the user had not committed
\* is in the working directory, on the stash or in a commit that HEAD or a
\* branch contains - unless git failed to stash it, which is not reported.
WorkIsKept == ~unsaved => Uncommitted \subseteq Kept

\* Nothing of the user's is elsewhere than it was, and no snapshot was taken.
AsFound ==
    /\ index = cmd.staged /\ files = cmd.unstaged /\ stash = {}
    /\ tip = [b \in Branch |-> "old"]
    /\ head = [attached |-> cmd.attached, at |-> "old"]
    /\ backup = NoBackup

\* What a command takes out of the working directory it gives back: when git never
\* fails and the command gets to its end, the stash is as it was, and what did not
\* become part of a commit is in the working directory.  With --dry-run nothing is
\* taken out at all, nor moved, whatever fails: amend tests for it on its own at
\* the staging, the fixup, the snapshot and the stash.
WorkReturns ==
    /\ cmd.dry_run => AsFound
    /\ At("done") /\ faults = 0 =>
        /\ stash = {}
        /\ index \cup files = Uncommitted \ (IF cmd.dry_run THEN {} ELSE fixup)

\* "note: to undo, run `git branch-stash pop git-stack'": when a branch has
\* been restacked, the snapshot has it where it was before that.
RestackCanBeUndone ==
    \A b \in Branch :
        tip[b] = "new" => b \in DOMAIN backup /\ backup[b] # "new"

\* An amend --message on a branch, with some edits staged and others not, of a
\* commit that is no fixup and has none.
AmendsWithMessage ==
    /\ cmd.command = "amend" /\ ~cmd.dry_run
    /\ cmd.message = "text" /\ ~cmd.fixed /\ ~cmd.is_fixup
    /\ cmd.attached
    /\ cmd.staged # {} /\ cmd.unstaged # {} /\ ~cmd.all

\* amend --help, "To change the commit message, use `--edit` or `--message`":
\* when git never fails such an amend gets to its end.
AmendTakesAMessage ==
    AmendsWithMessage /\ faults = 0 => ~At("failed")

=============================================================================
