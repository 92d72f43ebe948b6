--------------------------- MODULE ExecutorProofs ---------------------------
(***************************************************************************)
(* Theorems about the executor, for any branches, messages, changes, jobs  *)
(* and number of faults.                                                   *)
(***************************************************************************)
EXTENDS Executor, CommitsProofs

(***************************************************************************)
(* Types.  TypeOK is not inductive by itself: that a command or an update  *)
(* the executor reads is one depends on where the executor is in the job.  *)
(***************************************************************************)
AtWork == {"batch", "stage", "hook", "detach", "branch", "delete", "notify"}

Position ==
    /\ job \in Jobs
    /\ script >= 1 /\ batch >= 1 /\ at >= 1
    /\ pc \in AtWork => script <= Len(Scripts)
    /\ pc = "stage" => batch <= Len(Batches) /\ cursor # NoCommit

TypeInv == TypeOK /\ Position

LEMMA JobParts ==
    ASSUME NEW j \in Jobs
    PROVE  /\ j.refs \in [Branch -> Commit \cup {NoCommit}]
           /\ j.head \in HeadRef
           /\ j.scripts \in Seq(Script)
           /\ j.restore \in Branch \cup {NoBranch}
           /\ j.dry_run \in BOOLEAN
           /\ HeadResolves(j)
           /\ HeadIsRestored(j)
  BY JobsAreSound DEF Job

LEMMA HeadCommitIsCommit ==
    ASSUME refs \in [Branch -> Commit \cup {NoCommit}], head \in HeadRef
    PROVE  HeadCommit \in Commit \cup {NoCommit}
  BY DEF HeadCommit, HeadRef

\* What the executor reads of its job while it is at work.
LEMMA CurrentBatch ==
    ASSUME TypeInv, pc \in AtWork
    PROVE  /\ Scripts \in Seq(Script)
           /\ Batches \in Seq(Batch)
           /\ batch <= Len(Batches) =>
                /\ Batches[batch].onto \in Commit
                /\ Commands \in Seq(Command)
                /\ at <= Len(Commands) => Cmd \in Command
  <1>1. Scripts \in Seq(Script)
    BY JobParts DEF TypeInv, Position, Scripts
  <1>2. Batches \in Script
    BY <1>1, ElementOfSeq DEF TypeInv, TypeOK, Position, Batches
  <1>3. ASSUME batch <= Len(Batches)
        PROVE  Batches[batch] \in Batch
    BY <1>2, <1>3, ElementOfSeq DEF TypeInv, TypeOK, Position, Script
  <1>4. ASSUME batch <= Len(Batches)
        PROVE  Batches[batch].onto \in Commit /\ Commands \in Seq(Command)
    BY <1>3, <1>4 DEF Batch, Commands
  <1>5. ASSUME batch <= Len(Batches), at <= Len(Commands)
        PROVE  Cmd \in Command
    BY <1>4, <1>5, ElementOfSeq DEF TypeInv, TypeOK, Position, Cmd
  <1> QED
    BY <1>1, <1>2, <1>4, <1>5 DEF Script

LEMMA CommandParts ==
    ASSUME NEW c \in Command
    PROVE  /\ c.op \in {"mark", "pick", "fixup"} => c.id \in Commit
           /\ c.op = "reword" => c.msg \in Message
           /\ c.op \in {"create", "delete"} => c.name \in Branch
  BY DEF Command

\* A failure drops what was staged and moves on to the next batch.
LEMMA AbandonKeepsTypes ==
    ASSUME TypeInv, pc \in AtWork, Abandon, faults' \in 0..MaxFaults
    PROVE  TypeInv'
  <1> USE DEF TypeInv
  <1>1. /\ branches' \in Seq(Commit \X Branch)
        /\ delete_branches' \in Seq(Branch)
        /\ post_rewrite' \in Seq(Commit \X Commit)
    BY EmptySeq DEF Abandon
  <1>2. pc' = "batch" /\ batch' \in Nat
    BY DEF Abandon, TypeOK
  <1>3. failed' \in BOOLEAN /\ success' \in BOOLEAN
    BY DEF Abandon
  <1>4. TypeOK'
    BY <1>1, <1>2, <1>3 DEF TypeOK, Abandon, repository
  <1>5. Position'
    BY DEF TypeOK, Position, Abandon, Scripts, AtWork
  <1> QED
    BY <1>4, <1>5

LEMMA FaultIsCounted ==
    ASSUME TypeInv, Fault
    PROVE  faults' \in 0..MaxFaults
  BY MaxFaultsIsNat DEF TypeInv, TypeOK, Fault

LEMMA RetargetIsTyped ==
    ASSUME TypeInv, NEW old \in Commit, NEW new \in Commit
    PROVE  Retarget(post_rewrite, old, new) \in Seq(Commit \X Commit)
  <1>1. post_rewrite \in Seq(Commit \X Commit)
    BY DEF TypeInv, TypeOK
  <1>2. Len(post_rewrite) \in Nat /\ DOMAIN post_rewrite = 1..Len(post_rewrite)
    BY <1>1, LenProperties
  <1>3. \A i \in DOMAIN post_rewrite : post_rewrite[i] \in Commit \X Commit
    BY <1>1, <1>2, ElementOfSeq
  <1>4. \A i \in 1..Len(post_rewrite) :
             <<post_rewrite[i][1], Follow(post_rewrite[i][2], old, new)>>
                \in Commit \X Commit
    BY <1>2, <1>3 DEF Follow
  <1>5. [i \in 1..Len(post_rewrite) |->
              <<post_rewrite[i][1], Follow(post_rewrite[i][2], old, new)>>]
             \in Seq(Commit \X Commit)
    BY <1>2, <1>4, IsASeq
  <1> QED
    BY <1>2, <1>5 DEF Retarget

LEMMA StageKeepsTypes ==
    ASSUME TypeInv, Stage
    PROVE  TypeInv'
  <1> USE DEF TypeInv
  <1>1. CASE StageBatch
    <2>1. Batches[batch].onto \in Commit
      BY <1>1, CurrentBatch DEF StageBatch, AtWork
    <2>2. Resolve(Batches[batch].onto) \in Commit
      BY <2>1 DEF Resolve, TypeOK
    <2>3. TypeOK'
      BY <1>1, <2>2 DEF StageBatch, TypeOK, position, repository
    <2>4. Position'
      BY <1>1, <2>2 DEF StageBatch, Position, position, AtWork, Scripts,
                        Batches, Commit, NoCommit, TypeOK
    <2> QED
      BY <2>3, <2>4
  <1>2. ASSUME pc = "stage", at <= Len(Commands)
        PROVE  /\ Cmd \in Command
               /\ cursor \in Commit
    BY <1>2, CurrentBatch DEF Position, AtWork, TypeOK
  <1>3. ASSUME pc = "stage",
               UNCHANGED <<job, pc, position>>, at' = at + 1,
               cursor' \in Commit
        PROVE  Position'
    BY <1>3 DEF Position, position, AtWork, Scripts, Batches, Commit,
                NoCommit, TypeOK
  <1>4. CASE StageMark
    <2>1. Cmd.id \in Commit /\ cursor \in Commit
      BY <1>2, <1>4, CommandParts DEF StageMark, Staging
    <2>2. TypeOK'
      BY <1>4, <2>1 DEF StageMark, Staging, TypeOK, position, staged, repository
    <2> QED
      BY <1>3, <1>4, <2>1, <2>2 DEF StageMark, Staging, staged
  <1>5. CASE StagePick
    <2> DEFINE updated == IF dry_run THEN Cmd.id ELSE CherryPick(cursor, Cmd.id)
    <2>1. Cmd.id \in Commit /\ cursor \in Commit
      BY <1>2, <1>5, CommandParts DEF StagePick, Staging
    <2>2. updated \in Commit
      BY <2>1, CherryPickIsCommit
    <2>3. /\ cursor' = updated
          /\ head_id' = Follow(head_id, Cmd.id, updated)
          /\ post_rewrite' = Append(post_rewrite, <<Cmd.id, updated>>)
      BY <1>5 DEF StagePick
    <2> HIDE DEF updated
    <2>4. head_id' \in Commit \cup {NoCommit}
      BY <2>2, <2>3 DEF Follow, TypeOK
    <2>5. post_rewrite' \in Seq(Commit \X Commit)
      BY <2>1, <2>2, <2>3, AppendProperties DEF TypeOK
    <2>6. TypeOK'
      BY <1>5, <2>2, <2>3, <2>4, <2>5
         DEF StagePick, Staging, TypeOK, position, repository
    <2> QED
      BY <1>3, <1>5, <2>2, <2>3, <2>6 DEF StagePick, Staging
  <1>6. CASE StageReword
    <2> DEFINE updated == IF dry_run THEN cursor ELSE RewordTip(cursor, Cmd.msg)
    <2>1. Cmd.msg \in Message /\ cursor \in Commit
      BY <1>2, <1>6, CommandParts DEF StageReword, Staging
    <2>2. updated \in Commit
      BY <2>1, RewordTipIsCommit
    <2>3. /\ cursor' = updated
          /\ head_id' = Follow(head_id, cursor, updated)
          /\ post_rewrite' = Retarget(post_rewrite, cursor, updated)
      BY <1>6 DEF StageReword
    <2> HIDE DEF updated
    <2>4. head_id' \in Commit \cup {NoCommit}
      BY <2>2, <2>3 DEF Follow, TypeOK
    <2>5. post_rewrite' \in Seq(Commit \X Commit)
      BY <2>1, <2>2, <2>3, RetargetIsTyped
    <2>6. TypeOK'
      BY <1>6, <2>2, <2>3, <2>4, <2>5
         DEF StageReword, Staging, TypeOK, position, repository
    <2> QED
      BY <1>3, <1>6, <2>2, <2>3, <2>6 DEF StageReword, Staging
  <1>7. CASE StageFixup
    <2> DEFINE updated == IF dry_run THEN Cmd.id ELSE Squash(Cmd.id, cursor)
               moved == Retarget(post_rewrite, cursor, updated)
    <2>1. Cmd.id \in Commit /\ cursor \in Commit
      BY <1>2, <1>7, CommandParts DEF StageFixup, Staging
    <2>2. updated \in Commit
      BY <2>1, SquashIsCommit
    <2>3. /\ cursor' = updated
          /\ head_id' = Follow(Follow(head_id, cursor, updated),
                               Cmd.id, updated)
          /\ post_rewrite' = Append(moved, <<Cmd.id, updated>>)
      BY <1>7 DEF StageFixup
    <2> HIDE DEF updated
    <2>4. head_id' \in Commit \cup {NoCommit}
      BY <2>2, <2>3 DEF Follow, TypeOK
    <2>5. moved \in Seq(Commit \X Commit)
      BY <2>1, <2>2, RetargetIsTyped
    <2> HIDE DEF moved
    <2>6. post_rewrite' \in Seq(Commit \X Commit)
      BY <2>1, <2>2, <2>3, <2>5, AppendProperties
    <2>7. TypeOK'
      BY <1>7, <2>2, <2>3, <2>4, <2>6
         DEF StageFixup, Staging, TypeOK, position, repository
    <2> QED
      BY <1>3, <1>7, <2>2, <2>3, <2>7 DEF StageFixup, Staging
  <1>8. CASE StageCreate
    <2>1. Cmd.name \in Branch /\ cursor \in Commit
      BY <1>2, <1>8, CommandParts DEF StageCreate, Staging
    <2>2. branches' \in Seq(Commit \X Branch)
      BY <1>8, <2>1, AppendProperties DEF StageCreate, TypeOK
    <2>3. TypeOK'
      BY <1>8, <2>2 DEF StageCreate, Staging, TypeOK, position, repository
    <2> QED
      BY <1>3, <1>8, <2>1, <2>3 DEF StageCreate, Staging
  <1>9. CASE StageDelete
    <2>1. Cmd.name \in Branch /\ cursor \in Commit
      BY <1>2, <1>9, CommandParts DEF StageDelete, Staging
    <2>2. delete_branches' \in Seq(Branch)
      BY <1>9, <2>1, AppendProperties DEF StageDelete, TypeOK
    <2>3. TypeOK'
      BY <1>9, <2>2 DEF StageDelete, Staging, TypeOK, position, repository
    <2> QED
      BY <1>3, <1>9, <2>1, <2>3 DEF StageDelete, Staging
  <1>10. CASE StageFails
    BY <1>10, FaultIsCounted, AbandonKeepsTypes DEF StageFails, AtWork
  <1>11. CASE EndBatch
    BY <1>11 DEF EndBatch, TypeOK, Position, position, staged, repository,
                 Scripts, AtWork
  <1> QED
    BY <1>1, <1>4, <1>5, <1>6, <1>7, <1>8, <1>9, <1>10, <1>11 DEF Stage

LEMMA CommitKeepsTypes ==
    ASSUME TypeInv, CommitBatch
    PROVE  TypeInv'
  <1> USE DEF TypeInv
  <1>1. ASSUME pc \in AtWork, pc' \in AtWork \ {"stage"},
               UNCHANGED <<job, script>>, batch' \in {batch, batch + 1},
               at' \in {1, at, at + 1}
        PROVE  Position'
    BY <1>1 DEF Position, TypeOK, AtWork, Scripts
  <1>2. ASSUME NEW name \in Branch, NEW commit \in Commit \cup {NoCommit}
        PROVE  Updated(name, commit) \in [Branch -> Commit \cup {NoCommit}]
    BY DEF Updated, TypeOK
  <1>3. CASE HookAccepts
    <2>1. TypeOK'
      BY <1>3 DEF HookAccepts, TypeOK, position, staged, repository
    <2> QED
      BY <1>1, <1>3, <2>1 DEF HookAccepts, AtWork, position
  <1>4. CASE HookVetoes
    BY <1>4, FaultIsCounted, AbandonKeepsTypes DEF HookVetoes, AtWork
  <1>5. CASE Detach
    <2>1. [on |-> NoBranch, at |-> HeadCommit] \in HeadRef
      BY HeadCommitIsCommit DEF HeadRef, TypeOK
    <2>2. TypeOK'
      BY <1>5, <2>1 DEF Detach, TypeOK, position, staged
    <2> QED
      BY <1>1, <1>5, <2>2 DEF Detach, AtWork, position
  <1>6. CASE DetachFails
    BY <1>6, FaultIsCounted, AbandonKeepsTypes DEF DetachFails, AtWork
  <1>7. CASE MoveBranch
    <2>1. branches[at] \in Commit \X Branch
      BY <1>7, ElementOfSeq DEF MoveBranch, MovingBranch, TypeOK, Position
    <2>2. refs' \in [Branch -> Commit \cup {NoCommit}]
      BY <1>2, <1>7, <2>1 DEF MoveBranch
    <2>3. TypeOK'
      BY <1>7, <2>2 DEF MoveBranch, MovingBranch, TypeOK, position, staged
    <2> QED
      BY <1>1, <1>7, <2>3 DEF MoveBranch, MovingBranch, AtWork, position
  <1>8. CASE MoveFails
    <2>1. faults' \in 0..MaxFaults
      BY <1>8, FaultIsCounted DEF MoveFails, TypeOK
    <2> QED
      BY <1>8, <2>1, AbandonKeepsTypes DEF MoveFails, MovingBranch, AtWork
  <1>9. CASE EndMoves
    <2>1. TypeOK'
      BY <1>9, EmptySeq DEF EndMoves, TypeOK, position, repository
    <2> QED
      BY <1>1, <1>9, <2>1 DEF EndMoves, AtWork, position
  <1>10. CASE DeleteBranch
    <2>1. delete_branches[at] \in Branch
      BY <1>10, ElementOfSeq
         DEF DeleteBranch, DeletingBranch, TypeOK, Position
    <2>2. refs' \in [Branch -> Commit \cup {NoCommit}]
      BY <1>2, <1>10, <2>1 DEF DeleteBranch
    <2>3. TypeOK'
      BY <1>10, <2>2 DEF DeleteBranch, DeletingBranch, TypeOK, position, staged
    <2> QED
      BY <1>1, <1>10, <2>3 DEF DeleteBranch, DeletingBranch, AtWork, position
  <1>11. CASE DeleteFails
    <2>1. faults' \in 0..MaxFaults
      BY <1>11, FaultIsCounted DEF DeleteFails, TypeOK
    <2> QED
      BY <1>11, <2>1, AbandonKeepsTypes DEF DeleteFails, DeletingBranch, AtWork
  <1>12. CASE EndDeletes
    <2>1. TypeOK'
      BY <1>12, EmptySeq DEF EndDeletes, TypeOK, position, repository
    <2> QED
      BY <1>1, <1>12, <2>1 DEF EndDeletes, AtWork, position
  <1>13. CASE Notify
    <2>1. \A i \in DOMAIN post_rewrite : post_rewrite[i] \in Commit \X Commit
      BY ElementOfSeq, LenProperties DEF TypeOK
    <2>2. told' \subseteq Commit \X Commit
      BY <1>13, <2>1 DEF Notify, Range, TypeOK
    <2>3. TypeOK'
      BY <1>13, <2>2, EmptySeq DEF Notify, TypeOK, repository
    <2> QED
      BY <1>1, <1>13, <2>3 DEF Notify, AtWork
  <1> QED
    BY <1>3, <1>4, <1>5, <1>6, <1>7, <1>8, <1>9, <1>10, <1>11, <1>12, <1>13
       DEF CommitBatch

LEMMA LoopKeepsTypes ==
    ASSUME TypeInv, RunScript \/ EndScript
    PROVE  TypeInv'
  <1> USE DEF TypeInv
  <1>1. CASE RunScript
    <2>1. head_id' \in Commit \cup {NoCommit}
      BY <1>1, HeadCommitIsCommit DEF RunScript, TypeOK
    <2>2. failed' \in BOOLEAN
      BY <1>1 DEF RunScript
    <2>3. TypeOK'
      BY <1>1, <2>1, <2>2 DEF RunScript, TypeOK, staged, repository
    <2>4. Position'
      BY <1>1 DEF RunScript, TypeOK, Position, Scripts, AtWork
    <2> QED
      BY <2>3, <2>4
  <1>2. CASE EndScript
    <2>1. TypeOK'
      BY <1>2 DEF EndScript, TypeOK, staged, repository
    <2>2. Position'
      BY <1>2 DEF EndScript, TypeOK, Position, Scripts, AtWork
    <2> QED
      BY <2>1, <2>2
  <1> QED
    BY <1>1, <1>2

LEMMA CloseKeepsTypes ==
    ASSUME TypeInv, Close
    PROVE  TypeInv'
  <1> USE DEF TypeInv
  <1>1. ASSUME pc' \in Terminal \cup {"checkout"}, UNCHANGED <<job, position, at>>
        PROVE  Position'
    BY <1>1 DEF Position, position, Terminal, AtWork
  <1>2. CASE NothingToSwitch
    <2>1. TypeOK'
      BY <1>2 DEF NothingToSwitch, TypeOK, Terminal, position, staged, repository
    <2> QED
      BY <1>1, <1>2, <2>1 DEF NothingToSwitch, Terminal
  <1>3. ASSUME NEW target, NEW new_head \in HeadRef,
               SwitchTo(target, new_head)
        PROVE  TypeInv'
    <2>1. pc' \in Terminal \cup {"checkout"}
      BY <1>3 DEF SwitchTo, Terminal
    <2>2. TypeOK'
      BY <1>3, <2>1 DEF SwitchTo, TypeOK, position, staged
    <2> QED
      BY <1>1, <1>3, <2>1, <2>2 DEF SwitchTo
  <1>4. CASE SwitchBranch
    <2>1. [on |-> restore_branch, at |-> NoCommit] \in HeadRef
      BY <1>4, JobParts DEF SwitchBranch, HeadRef, restore_branch, Position
    <2> QED
      BY <1>3, <1>4, <2>1 DEF SwitchBranch
  <1>5. CASE SwitchCommit
    <2>1. [on |-> NoBranch, at |-> head_id] \in HeadRef
      BY DEF TypeOK, HeadRef
    <2> QED
      BY <1>3, <1>5, <2>1 DEF SwitchCommit
  <1>6. CASE SwitchFails
    <2>1. faults' \in 0..MaxFaults
      BY <1>6, FaultIsCounted DEF SwitchFails, TypeOK
    <2>2. TypeOK'
      BY <1>6, <2>1 DEF SwitchFails, Stop, TypeOK, Terminal, position, staged,
                        repository
    <2> QED
      BY <1>1, <1>6, <2>2 DEF SwitchFails, Stop, Terminal
  <1>7. CASE CheckoutHead
    <2>1. Tree(HeadCommit) \subseteq Change
      BY HeadCommitIsCommit, TreeIsChanges DEF TypeOK
    <2>2. TypeOK'
      BY <1>7, <2>1 DEF CheckoutHead, TypeOK, Terminal, position, staged
    <2> QED
      BY <1>1, <1>7, <2>2 DEF CheckoutHead, Terminal
  <1>8. CASE CheckoutFails
    <2>1. faults' \in 0..MaxFaults
      BY <1>8, FaultIsCounted DEF CheckoutFails
    <2>2. TypeOK'
      BY <1>8, <2>1 DEF CheckoutFails, TypeOK, Terminal, position, staged,
                        repository
    <2> QED
      BY <1>1, <1>8, <2>2 DEF CheckoutFails, Terminal
  <1> QED
    BY <1>2, <1>4, <1>5, <1>6, <1>7, <1>8 DEF Close

LEMMA InitHasTypes ==
    ASSUME Init
    PROVE  TypeInv
  <1>1. /\ refs \in [Branch -> Commit \cup {NoCommit}]
        /\ head \in HeadRef
    BY JobParts DEF Init
  <1>2. checkout \subseteq Change
    BY <1>1, HeadCommitIsCommit, TreeIsChanges DEF Init
  <1>3. /\ branches \in Seq(Commit \X Branch)
        /\ delete_branches \in Seq(Branch)
        /\ post_rewrite \in Seq(Commit \X Commit)
    BY EmptySeq DEF Init
  <1>4. detached \in BOOLEAN /\ failed \in BOOLEAN /\ success \in BOOLEAN
    BY DEF Init
  <1>5. TypeOK
    BY <1>1, <1>2, <1>3, <1>4, MaxFaultsIsNat DEF Init, TypeOK
  <1>6. Position
    BY DEF Init, Position, AtWork
  <1> QED
    BY <1>5, <1>6 DEF TypeInv

LEMMA StepKeepsTypes ==
    ASSUME TypeInv, [Next]_vars
    PROVE  TypeInv'
  <1>1. CASE RunScript \/ EndScript
    BY <1>1, LoopKeepsTypes
  <1>2. CASE Stage
    BY <1>2, StageKeepsTypes
  <1>3. CASE CommitBatch
    BY <1>3, CommitKeepsTypes
  <1>4. CASE Close
    BY <1>4, CloseKeepsTypes
  <1>5. CASE Ended \/ UNCHANGED vars
    <2>1. UNCHANGED vars
      BY <1>5 DEF Ended
    <2>2. TypeOK'
      BY <2>1 DEF vars, TypeInv, TypeOK
    <2>3. Position'
      BY <2>1 DEF vars, TypeInv, Position, Scripts, Batches
    <2> QED
      BY <2>2, <2>3 DEF TypeInv
  <1> QED
    BY <1>1, <1>2, <1>3, <1>4, <1>5 DEF Next

\* Every variable of the executor keeps its type: every command read is one,
\* every commit made is one, and no branch, HEAD or hook ever gets anything
\* but a commit, or no commit for a branch that is gone.
THEOREM TypesHold == Spec => []TypeOK
  <1>1. Init => TypeInv
    BY InitHasTypes
  <1>2. TypeInv /\ [Next]_vars => TypeInv'
    BY StepKeepsTypes
  <1>3. TypeInv => TypeOK
    BY DEF TypeInv
  <1> QED
    BY <1>1, <1>2, <1>3, PTL DEF Spec

(***************************************************************************)
(* The repository, while nothing but the executor touches it.              *)
(***************************************************************************)
\* The steps that change the repository, tell a hook, or check the files out.
Visible ==
    \/ Detach \/ MoveBranch \/ DeleteBranch \/ Notify
    \/ SwitchBranch \/ SwitchCommit \/ CheckoutHead \/ CheckoutFails

\* Every other step leaves the repository and the hook alone, and neither
\* starts nor ends a checkout.
LEMMA OtherStepsAreInvisible ==
    ASSUME [Next]_vars, ~Visible
    PROVE  /\ UNCHANGED <<job, refs, head, checkout, told>>
           /\ pc' \in {"checkout", "torn"} <=> pc \in {"checkout", "torn"}
  <1> USE DEF position, staged, repository
  <1>1. CASE RunScript \/ EndScript
    BY <1>1 DEF RunScript, EndScript
  <1>2. CASE Stage
    BY <1>2 DEF Stage, StageBatch, StageMark, StagePick, StageReword,
                StageFixup, StageCreate, StageDelete, StageFails, EndBatch,
                Staging, Abandon
  <1>3. CASE CommitBatch
    BY <1>3 DEF Visible, CommitBatch, HookAccepts, HookVetoes, DetachFails,
                MoveFails, EndMoves, DeleteFails, EndDeletes, MovingBranch,
                DeletingBranch, Abandon
  <1>4. CASE Close
    BY <1>4 DEF Visible, Close, NothingToSwitch, SwitchFails, Closing, Stop
  <1>5. CASE Ended \/ UNCHANGED vars
    BY <1>5 DEF Ended, vars
  <1> QED
    BY <1>1, <1>2, <1>3, <1>4, <1>5 DEF Next

\* Moving or deleting another branch than the one HEAD is on does not touch
\* the commit that is checked out.
LEMMA HeadCommitStays ==
    ASSUME TypeInv, NEW name \in Branch, NEW commit, head.on # name \/ dry_run,
           refs' = Updated(name, commit), head' = head
    PROVE  HeadCommit' = HeadCommit
  BY DEF TypeInv, TypeOK, HeadRef, HeadCommit, Updated

\* The files in the working directory are HEAD's at every step at which a
\* command can be killed, but for the checkout that ends it: no batch, no
\* failure and no hook leaves a difference behind.
THEOREM FilesAreHeads == Spec => []WorktreeFollowsHead
  <1>1. Init => WorktreeFollowsHead
    BY DEF Init, WorktreeFollowsHead
  <1>2. ASSUME TypeInv, WorktreeFollowsHead, [Next]_vars
        PROVE  WorktreeFollowsHead'
    <2> USE <1>2 DEF WorktreeFollowsHead
    <2>1. CASE ~Visible
      BY <2>1, OtherStepsAreInvisible DEF HeadCommit
    <2>2. CASE Detach
      BY <2>2 DEF Detach, HeadCommit
    <2>3. CASE MoveBranch
      <3>1. branches[at][2] \in Branch
        BY <2>3, ElementOfSeq
           DEF MoveBranch, MovingBranch, TypeInv, TypeOK, Position
      <3> QED
        BY <2>3, <3>1, HeadCommitStays DEF MoveBranch, MovingBranch
    <2>4. CASE DeleteBranch
      <3>1. delete_branches[at] \in Branch
        BY <2>4, ElementOfSeq
           DEF DeleteBranch, DeletingBranch, TypeInv, TypeOK, Position
      <3> QED
        BY <2>4, <3>1, HeadCommitStays DEF DeleteBranch, DeletingBranch, CanDelete
    <2>5. CASE Notify
      BY <2>5 DEF Notify, repository, HeadCommit
    <2>6. CASE SwitchBranch
      <3>1. restore_branch # NoBranch
        BY <2>6 DEF SwitchBranch
      <3>2. HeadCommit' = refs[restore_branch]
        BY <2>6, <3>1 DEF SwitchBranch, SwitchTo, HeadCommit
      <3> QED
        BY <2>6, <3>2 DEF SwitchBranch, SwitchTo, OtherTree, Closing
    <2>7. CASE SwitchCommit
      <3>1. HeadCommit' = head_id
        BY <2>7 DEF SwitchCommit, SwitchTo, HeadCommit
      <3> QED
        BY <2>7, <3>1 DEF SwitchCommit, SwitchTo, OtherTree, Closing
    <2>8. CASE CheckoutHead
      BY <2>8 DEF CheckoutHead, HeadCommit
    <2>9. CASE CheckoutFails
      BY <2>9 DEF CheckoutFails
    <2> QED
      BY <2>1, <2>2, <2>3, <2>4, <2>5, <2>6, <2>7, <2>8, <2>9 DEF Visible
  <1>3. Init => TypeInv
    BY InitHasTypes
  <1>4. TypeInv /\ [Next]_vars => TypeInv'
    BY StepKeepsTypes
  <1> QED
    BY <1>1, <1>2, <1>3, <1>4, PTL DEF Spec

LEMMA DryRunStaysHarmless ==
    ASSUME DryRunTouchesNothing, [Next]_vars
    PROVE  DryRunTouchesNothing'
  <1> USE DEF DryRunTouchesNothing, dry_run
  <1>1. CASE ~Visible
    BY <1>1, OtherStepsAreInvisible
  <1>2. CASE Detach \/ MoveBranch \/ DeleteBranch
    BY <1>2 DEF Detach, MoveBranch, DeleteBranch, Updated
  <1>3. CASE Notify
    BY <1>3 DEF Notify, repository
  <1>4. CASE SwitchBranch \/ SwitchCommit
    BY <1>4 DEF SwitchBranch, SwitchCommit, MustSwitch, SwitchTo
  <1>5. CASE CheckoutHead \/ CheckoutFails
    BY <1>5 DEF CheckoutHead, CheckoutFails, repository
  <1> QED
    BY <1>1, <1>2, <1>3, <1>4, <1>5 DEF Visible

\* --dry-run walks through every script and leaves the branches, HEAD and the
\* hooks alone.
THEOREM DryRunIsHarmless == Spec => []DryRunTouchesNothing
  <1>1. Init => DryRunTouchesNothing
    BY DEF Init, DryRunTouchesNothing
  <1>2. DryRunTouchesNothing /\ [Next]_vars => DryRunTouchesNothing'
    BY DryRunStaysHarmless
  <1> QED
    BY <1>1, <1>2, PTL DEF Spec

(***************************************************************************)
(* HEAD comes back.  `close' only acts when `detached' says so: the flag   *)
(* has to know of every HEAD that is not where the command found it.       *)
(***************************************************************************)
HeadIsAccounted ==
    /\ dry_run => ~detached
    /\ ~detached => head = job.head
    /\ pc \in {"checkout", "done"} /\ job.head.on # NoBranch =>
        head.on \in {job.head.on, restore_branch} \ {NoBranch}

LEMMA HeadStaysAccounted ==
    ASSUME TypeInv, HeadIsAccounted, [Next]_vars
    PROVE  HeadIsAccounted'
  <1> USE DEF HeadIsAccounted, dry_run, restore_branch, position, staged,
              repository
  <1>1. job.dry_run \in BOOLEAN /\ detached \in BOOLEAN
    BY JobParts DEF TypeInv, TypeOK, Position
  <1>2. job.head.on # NoBranch => restore_branch # NoBranch
    BY JobParts DEF TypeInv, Position, HeadIsRestored
  <1>3. ASSUME UNCHANGED <<job, detached, head>>, pc' \notin {"checkout", "done"}
        PROVE  HeadIsAccounted'
    BY <1>3
  <1>4. CASE RunScript \/ EndScript
    BY <1>3, <1>4 DEF RunScript, EndScript
  <1>5. CASE Stage
    BY <1>3, <1>5 DEF Stage, StageBatch, StageMark, StagePick, StageReword,
                      StageFixup, StageCreate, StageDelete, StageFails,
                      EndBatch, Staging, Abandon
  <1>6. CASE CommitBatch
    <2>1. CASE Detach
      BY <1>1, <2>1 DEF Detach
    <2>2. CASE ~Detach
      BY <1>3, <1>6, <2>2
         DEF CommitBatch, HookAccepts, HookVetoes, DetachFails, MoveBranch,
             MoveFails, EndMoves, DeleteBranch, DeleteFails, EndDeletes,
             Notify, MovingBranch, DeletingBranch, Abandon
    <2> QED
      BY <2>1, <2>2
  <1>7. CASE Close
    <2>1. CASE NothingToSwitch
      <3>1. job.head.on # NoBranch => ~detached
        BY <1>1, <1>2, <2>1 DEF NothingToSwitch, MustSwitch
      <3> QED
        BY <1>2, <2>1, <3>1 DEF NothingToSwitch
    <2>2. CASE SwitchBranch
      BY <1>1, <2>2 DEF SwitchBranch, SwitchTo, MustSwitch
    <2>3. CASE SwitchCommit
      BY <1>1, <1>2, <2>3 DEF SwitchCommit, SwitchTo, MustSwitch
    <2>4. CASE SwitchFails
      BY <1>3, <2>4 DEF SwitchFails, Stop
    <2>5. CASE CheckoutHead
      BY <2>5 DEF CheckoutHead
    <2>6. CASE CheckoutFails
      BY <1>3, <2>6 DEF CheckoutFails
    <2> QED
      BY <1>7, <2>1, <2>2, <2>3, <2>4, <2>5, <2>6 DEF Close
  <1>8. CASE Ended \/ UNCHANGED vars
    BY <1>8 DEF Ended, vars
  <1> QED
    BY <1>4, <1>5, <1>6, <1>7, <1>8 DEF Next

\* Whatever fails on the way, a command that gets to its end and found HEAD on
\* a branch leaves it on that branch, or on the one that stands in for it.
THEOREM HeadReturns == Spec => []HeadComesBack
  <1> DEFINE Inv == TypeInv /\ HeadIsAccounted
  <1>1. Init => Inv
    BY InitHasTypes DEF Init, HeadIsAccounted
  <1>2. Inv /\ [Next]_vars => Inv'
    BY StepKeepsTypes, HeadStaysAccounted
  <1>3. Inv => HeadComesBack
    BY DEF HeadIsAccounted, HeadComesBack
  <1> QED
    BY <1>1, <1>2, <1>3, PTL DEF Spec

(***************************************************************************)
(* The post-rewrite hook.  A commit that a batch made can be replaced by a *)
(* reword or a fixup of the same batch; what the hook is told has to keep  *)
(* up.                                                                     *)
(***************************************************************************)
Building == {"stage", "hook", "detach", "branch", "delete", "notify"}

RewritesAreCurrent ==
    /\ pc \in Building /\ ~dry_run =>
        \A i \in DOMAIN post_rewrite : IsPrefix(post_rewrite[i][2], cursor)
    /\ pc \in {"script", "batch"} => post_rewrite = << >>

LEMMA RewritesAreTyped ==
    ASSUME TypeInv
    PROVE  /\ Len(post_rewrite) \in Nat
           /\ DOMAIN post_rewrite = 1..Len(post_rewrite)
           /\ \A i \in DOMAIN post_rewrite :
                /\ post_rewrite[i] \in Commit \X Commit
                /\ post_rewrite[i][2] \in Seq(Patch)
  <1>1. post_rewrite \in Seq(Commit \X Commit)
    BY DEF TypeInv, TypeOK
  <1>2. \A i \in 1..Len(post_rewrite) : post_rewrite[i] \in Commit \X Commit
    BY <1>1, ElementOfSeq
  <1> QED
    BY <1>1, <1>2, LenProperties, CommitParts

\* Replacing the tip of the history under construction: every new id is the
\* replaced tip, and follows it, or is older, and stays.
LEMMA RetargetKeepsUp ==
    ASSUME TypeInv, NEW updated \in Commit, cursor \in Commit,
           \A i \in DOMAIN post_rewrite : IsPrefix(post_rewrite[i][2], cursor),
           \A s \in Seq(Patch) :
               IsPrefix(s, cursor) /\ s # cursor => IsPrefix(s, updated)
    PROVE  LET moved == Retarget(post_rewrite, cursor, updated)
           IN  /\ DOMAIN moved = DOMAIN post_rewrite
               /\ \A i \in DOMAIN moved : IsPrefix(moved[i][2], updated)
  <1> DEFINE moved == Retarget(post_rewrite, cursor, updated)
  <1>1. /\ DOMAIN moved = DOMAIN post_rewrite
        /\ \A i \in DOMAIN post_rewrite :
              moved[i][2] = Follow(post_rewrite[i][2], cursor, updated)
    BY DEF Retarget
  <1>2. IsPrefix(updated, updated)
    BY CommitParts, PrefixOfItself
  <1>3. \A i \in DOMAIN post_rewrite :
            IsPrefix(Follow(post_rewrite[i][2], cursor, updated), updated)
    BY <1>2, RewritesAreTyped DEF Follow
  <1> QED
    BY <1>1, <1>3

\* The post-rewrite hook is told of commits of the finished batch, never of
\* one that a later reword or fixup of the batch has replaced.
THEOREM HookHearsTheLastWord == Spec => []HookHearsFinalIds
  <1> DEFINE Inv == TypeInv /\ RewritesAreCurrent
  <1>1. Init => Inv
    BY InitHasTypes DEF Init, RewritesAreCurrent, Building
  <1>2. Inv /\ [Next]_vars => Inv'
    <2> SUFFICES ASSUME TypeInv, RewritesAreCurrent, [Next]_vars
                 PROVE  RewritesAreCurrent'
      BY StepKeepsTypes
    <2> USE DEF RewritesAreCurrent, Building, dry_run
    <2>1. ASSUME UNCHANGED <<job, post_rewrite, cursor>>,
                 pc' \in {"script", "batch"} => pc \in {"script", "batch"},
                 pc' \in Building => pc \in Building
          PROVE  RewritesAreCurrent'
      BY <2>1
    <2>2. ASSUME post_rewrite' = << >>
          PROVE  RewritesAreCurrent'
      BY <2>2
    <2>3. CASE RunScript \/ EndScript
      BY <2>1, <2>3 DEF RunScript, EndScript, staged
    <2>4. CASE Stage
      <3>1. ASSUME pc = "stage", at <= Len(Commands)
            PROVE  Cmd \in Command /\ cursor \in Commit
        BY <3>1, CurrentBatch DEF TypeInv, TypeOK, Position, AtWork
      <3>2. ASSUME pc = "stage", pc' = pc, job' = job,
                   ~dry_run =>
                      \A i \in DOMAIN post_rewrite' :
                          IsPrefix(post_rewrite'[i][2], cursor')
            PROVE  RewritesAreCurrent'
        BY <3>2
      <3>3. ASSUME NEW pairs \in Seq(Commit \X Commit), NEW old \in Commit,
                   NEW new \in Commit,
                   \A i \in DOMAIN pairs : IsPrefix(pairs[i][2], new)
            PROVE  \A i \in DOMAIN Append(pairs, <<old, new>>) :
                       IsPrefix(Append(pairs, <<old, new>>)[i][2], new)
        <4>1. IsPrefix(new, new)
          BY CommitParts, PrefixOfItself
        <4>2. /\ Append(pairs, <<old, new>>) \in Seq(Commit \X Commit)
              /\ Len(Append(pairs, <<old, new>>)) = Len(pairs) + 1
              /\ \A i \in 1..Len(pairs) :
                    Append(pairs, <<old, new>>)[i] = pairs[i]
              /\ Append(pairs, <<old, new>>)[Len(pairs) + 1] = <<old, new>>
          BY AppendProperties
        <4>3. /\ Len(pairs) \in Nat
              /\ DOMAIN pairs = 1..Len(pairs)
              /\ DOMAIN Append(pairs, <<old, new>>) = 1..(Len(pairs) + 1)
          BY <4>2, LenProperties
        <4> QED
          BY <3>3, <4>1, <4>2, <4>3
      <3>4. CASE StageBatch
        BY <2>2, <3>4 DEF StageBatch
      <3>5. CASE StageMark \/ StageCreate \/ StageDelete
        BY <2>1, <3>5 DEF StageMark, StageCreate, StageDelete, Staging, staged
      <3>6. CASE StagePick
        <4> DEFINE picked == CherryPick(cursor, Cmd.id)
        <4>1. Cmd.id \in Commit /\ cursor \in Commit
          BY <3>1, <3>6, CommandParts DEF StagePick, Staging
        <4>2. ASSUME ~dry_run
              PROVE  \A i \in DOMAIN post_rewrite' :
                         IsPrefix(post_rewrite'[i][2], cursor')
          <5>1. /\ cursor' = picked
                /\ post_rewrite' = Append(post_rewrite, <<Cmd.id, picked>>)
            BY <3>6, <4>2 DEF StagePick
          <5>2. picked \in Commit
            BY <4>1, CherryPickIsCommit
          <5>3. \A i \in DOMAIN post_rewrite :
                    IsPrefix(post_rewrite[i][2], picked)
            BY <3>6, <4>1, <4>2, RewritesAreTyped, CherryPickExtends
               DEF StagePick, Staging
          <5> HIDE DEF picked
          <5>4. post_rewrite \in Seq(Commit \X Commit)
            BY DEF TypeInv, TypeOK
          <5> QED
            BY <3>3, <4>1, <5>1, <5>2, <5>3, <5>4
        <4> QED
          BY <3>2, <3>6, <4>2 DEF StagePick, Staging
      <3>7. CASE StageReword
        <4> DEFINE reworded == RewordTip(cursor, Cmd.msg)
        <4>1. Cmd.msg \in Message /\ cursor \in Commit
          BY <3>1, <3>7, CommandParts DEF StageReword, Staging
        <4>2. ASSUME ~dry_run
              PROVE  \A i \in DOMAIN post_rewrite' :
                         IsPrefix(post_rewrite'[i][2], cursor')
          <5>1. /\ cursor' = reworded
                /\ post_rewrite' = Retarget(post_rewrite, cursor, reworded)
            BY <3>7, <4>2 DEF StageReword
          <5>2. reworded \in Commit
            BY <4>1, RewordTipIsCommit
          <5>3. \A s \in Seq(Patch) :
                    IsPrefix(s, cursor) /\ s # cursor => IsPrefix(s, reworded)
            BY <4>1, RewordTipExtends
          <5> HIDE DEF reworded
          <5>4. \A i \in DOMAIN post_rewrite : IsPrefix(post_rewrite[i][2], cursor)
            BY <3>7, <4>2 DEF StageReword, Staging
          <5> QED
            BY <4>1, <5>1, <5>2, <5>3, <5>4, RetargetKeepsUp
        <4> QED
          BY <3>2, <3>7, <4>2 DEF StageReword, Staging
      <3>8. CASE StageFixup
        <4> DEFINE squashed == Squash(Cmd.id, cursor)
                   moved == Retarget(post_rewrite, cursor, squashed)
        <4>1. Cmd.id \in Commit /\ cursor \in Commit
          BY <3>1, <3>8, CommandParts DEF StageFixup, Staging
        <4>2. ASSUME ~dry_run
              PROVE  \A i \in DOMAIN post_rewrite' :
                         IsPrefix(post_rewrite'[i][2], cursor')
          <5>1. /\ cursor' = squashed
                /\ post_rewrite' = Append(moved, <<Cmd.id, squashed>>)
            BY <3>8, <4>2 DEF StageFixup
          <5>2. squashed \in Commit
            BY <4>1, SquashIsCommit
          <5>3. \A s \in Seq(Patch) :
                    IsPrefix(s, cursor) /\ s # cursor => IsPrefix(s, squashed)
            BY <4>1, SquashExtends
          <5> HIDE DEF squashed
          <5>4. \A i \in DOMAIN post_rewrite : IsPrefix(post_rewrite[i][2], cursor)
            BY <3>8, <4>2 DEF StageFixup, Staging
          <5>5. \A i \in DOMAIN moved : IsPrefix(moved[i][2], squashed)
            BY <4>1, <5>2, <5>3, <5>4, RetargetKeepsUp
          <5>6. moved \in Seq(Commit \X Commit)
            BY <4>1, <5>2, RetargetIsTyped
          <5> HIDE DEF moved
          <5> QED
            BY <3>3, <4>1, <5>1, <5>2, <5>5, <5>6
        <4> QED
          BY <3>2, <3>8, <4>2 DEF StageFixup, Staging
      <3>9. CASE StageFails
        BY <2>2, <3>9 DEF StageFails, Abandon
      <3>10. CASE EndBatch
        BY <2>1, <3>10 DEF EndBatch, staged
      <3> QED
        BY <2>4, <3>4, <3>5, <3>6, <3>7, <3>8, <3>9, <3>10 DEF Stage
    <2>5. CASE CommitBatch
      <3>1. CASE HookVetoes \/ DetachFails \/ MoveFails \/ DeleteFails
        BY <2>2, <3>1 DEF HookVetoes, DetachFails, MoveFails, DeleteFails, Abandon
      <3>2. CASE Notify
        BY <2>2, <3>2 DEF Notify
      <3>3. CASE HookAccepts \/ Detach \/ MoveBranch \/ EndMoves
                  \/ DeleteBranch \/ EndDeletes
        BY <2>1, <3>3
           DEF HookAccepts, Detach, MoveBranch, EndMoves, DeleteBranch,
               EndDeletes, MovingBranch, DeletingBranch, staged
      <3> QED
        BY <2>5, <3>1, <3>2, <3>3 DEF CommitBatch
    <2>6. CASE Close
      BY <2>1, <2>6 DEF Close, NothingToSwitch, SwitchBranch, SwitchCommit,
                        SwitchTo, SwitchFails, Stop, CheckoutHead,
                        CheckoutFails, staged
    <2>7. CASE Ended \/ UNCHANGED vars
      BY <2>1, <2>7 DEF Ended, vars
    <2> QED
      BY <2>3, <2>4, <2>5, <2>6, <2>7 DEF Next
  <1>3. Inv => HookHearsFinalIds
    BY DEF RewritesAreCurrent, Building, HookHearsFinalIds, Range
  <1> QED
    BY <1>1, <1>2, <1>3, PTL DEF Spec

=============================================================================
