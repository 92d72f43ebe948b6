--------------------------- MODULE StackRunProofs ---------------------------
(***************************************************************************)
(* `git stack' on any repository: --dry-run changes nothing, no branch     *)
(* moves without a backup of all, the user's work is never overwritten,    *)
(* and the scripts of a sound plan put every branch where the graphs put   *)
(* it, upwards and whatever fails.                                         *)
(***************************************************************************)
EXTENDS StackRun, DataLemmas

\* The steps that do nothing but go on in the command.
GoesOn ==
    \/ Check \/ StageScript \/ StageFails \/ SkipScript
    \/ HookAccepts \/ HookVetoes \/ DetachFails \/ UpdateFails
    \/ EndMoves \/ EndDeletes \/ Close \/ PlanPush \/ EndPush

\* Between the backup and the end of the last script.
Rewriting ==
    {"script", "hook", "detach", "branch", "delete", "notify"}

\* Where a step that only goes on comes from, and where it may lead.
LEMMA GoesOnFrom ==
    ASSUME GoesOn
    PROVE  /\ UNCHANGED <<job, detached, repository, work, backup, unpushed, told>>
           /\ \/ pc = "check" /\ pc' = "backup" /\ (dry_run \/ ~IsDirty)
              \/ pc \in Rewriting /\ pc' \in Rewriting
              \/ pc = "script" /\ pc' = "push"
              \/ pc = "push" /\ pc' \in {"pushing", "pop"}
              \/ pc = "pushing" /\ pc' \in {"pop", "error"}
<1>1. CASE Check
  BY <1>1 DEF Check
<1>2. CASE StageScript \/ StageFails \/ SkipScript
  BY <1>2 DEF StageScript, StageFails, SkipScript, Running, Abandon, Rewriting
<1>3. CASE HookAccepts \/ HookVetoes \/ DetachFails \/ UpdateFails
  BY <1>3 DEF HookAccepts, HookVetoes, DetachFails, UpdateFails, Abandon,
              Rewriting
<1>4. CASE EndMoves \/ EndDeletes \/ Close
  BY <1>4 DEF EndMoves, EndDeletes, Close, Closing, Rewriting
<1>5. CASE PlanPush \/ EndPush
  BY <1>5 DEF PlanPush, EndPush
<1>6. QED
  BY <1>1, <1>2, <1>3, <1>4, <1>5 DEF GoesOn

\* These faults end the command where it stands.
LEMMA StopsFrom ==
    ASSUME BackUpFails \/ SwitchFails \/ CheckoutFails
    PROVE  /\ UNCHANGED <<job, detached, repository, work, backup, told>>
           /\ pc' = "error"
BY DEF BackUpFails, SwitchFails, CheckoutFails, Stop

\* The job is what it was.
LEMMA JobStays == [Next]_vars => job' = job
<1> SUFFICES ASSUME [Next]_vars PROVE job' = job
  OBVIOUS
<1>1. CASE GoesOn
  BY <1>1, GoesOnFrom
<1>2. CASE BackUpFails \/ SwitchFails \/ CheckoutFails
  BY <1>2, StopsFrom
<1>3. CASE Stash \/ Refuse \/ BackUp \/ Detach \/ MoveBranch \/ DeleteBranch
  BY <1>3 DEF Stash, Refuse, BackUp, Detach, MoveBranch, DeleteBranch
<1>4. CASE Notify \/ Switch \/ Checkout \/ Push \/ PushFails \/ Pop
  BY <1>4 DEF Notify, Switch, Checkout, Push, PushFails, Pop
<1>5. QED
  BY <1>1, <1>2, <1>3, <1>4 DEF Next, GoesOn, Ended, vars

-----------------------------------------------------------------------------
(***************************************************************************)
(* --dry-run.                                                              *)
(***************************************************************************)
\* Nothing has been detached, so nothing is switched back and checked out.
DryInv ==
    dry_run => /\ refs = asked.refs /\ head = asked.head
               /\ remote = asked.remote /\ told = {}
               /\ work = IF asked.work THEN "files" ELSE "none"
               /\ ~detached /\ pc # "checkout"

THEOREM DryInit == Init => DryInv
BY DEF Init, Begins, DryInv, asked, dry_run

\* A step that leaves the repository and the work as they are.
LEMMA DryUntouched ==
    ASSUME DryInv, UNCHANGED <<job, detached, repository, work, told>>,
           pc' # "checkout"
    PROVE  DryInv'
BY DEF DryInv, asked, dry_run, repository

THEOREM DryNext == DryInv /\ [Next]_vars => DryInv'
<1> SUFFICES ASSUME DryInv, [Next]_vars PROVE DryInv'
  OBVIOUS
<1>1. CASE GoesOn
  BY <1>1, GoesOnFrom, DryUntouched DEF Rewriting
<1>2. CASE BackUpFails \/ SwitchFails \/ CheckoutFails
  BY <1>2, StopsFrom, DryUntouched
<1>3. CASE Stash
  BY <1>3 DEF Stash, Fault, DryInv, asked, dry_run, repository
<1>4. CASE Refuse
  BY <1>4 DEF Refuse, DryInv, asked, dry_run
<1>5. CASE BackUp
  BY <1>5, DryUntouched DEF BackUp
<1>6. CASE Detach
  BY <1>6 DEF Detach, DryInv, asked, dry_run
<1>7. CASE MoveBranch
  BY <1>7 DEF MoveBranch, Updated, DryInv, asked, dry_run
<1>8. CASE DeleteBranch
  BY <1>8 DEF DeleteBranch, Updated, DryInv, asked, dry_run
<1>9. CASE Notify
  BY <1>9 DEF Notify, DryInv, asked, dry_run, repository
<1>10. CASE Switch
  BY <1>10 DEF Switch, MustSwitch, DryInv, asked, dry_run
<1>11. CASE Checkout
  BY <1>11 DEF Checkout, DryInv, asked, dry_run
<1>12. CASE Push
  BY <1>12 DEF Push, DryInv, asked, dry_run
<1>13. CASE PushFails
  BY <1>13 DEF PushFails, Fault, DryInv, asked, dry_run
<1>14. CASE Pop
  BY <1>14 DEF Pop, PopTo, Fault, DryInv, asked, dry_run, repository
<1>15. CASE Ended \/ UNCHANGED vars
  BY <1>15 DEF Ended, vars, DryInv, asked, dry_run, repository
<1>16. QED
  BY <1>1, <1>2, <1>3, <1>4, <1>5, <1>6, <1>7, <1>8, <1>9, <1>10, <1>11,
     <1>12, <1>13, <1>14, <1>15 DEF Next, GoesOn

\* `git stack --dry-run' goes through stash, backup, scripts, HEAD and push
\* and leaves the branches, HEAD, the remote, the work and the hook alone.
THEOREM StackDryRunIsHarmless == Spec => []DryRunTouchesNothing
<1>1. Init => asked.work \in BOOLEAN
  BY JobsAreSound DEF Init, Begins, asked
<1>2. asked.work \in BOOLEAN /\ [Next]_vars => (asked.work \in BOOLEAN)'
  BY JobStays DEF asked
<1>3. DryInv /\ asked.work \in BOOLEAN => DryRunTouchesNothing
  BY DEF DryInv, DryRunTouchesNothing
<1>4. QED
  BY <1>1, <1>2, <1>3, DryInit, DryNext, PTL DEF Spec

-----------------------------------------------------------------------------
(***************************************************************************)
(* The backup.                                                             *)
(***************************************************************************)
\* The branches are where they were until they are backed up, and they are
\* backed up before a script runs.
BackupInv ==
    /\ NothingMovesUnsaved
    /\ pc \in {"stash", "check", "backup"} => refs = asked.refs
    /\ pc \in Rewriting => dry_run \/ backup = asked.refs

THEOREM BackupInit == Init => BackupInv
BY DEF Init, Begins, BackupInv, NothingMovesUnsaved, asked, Rewriting

\* A step that moves no branch, and does not enter the scripts.
LEMMA BackupUntouched ==
    ASSUME BackupInv, UNCHANGED <<job, refs, backup>>,
           pc' \in {"stash", "check", "backup"}
               => pc \in {"stash", "check", "backup"},
           pc' \in Rewriting => pc \in Rewriting
    PROVE  BackupInv'
BY DEF BackupInv, NothingMovesUnsaved, asked, dry_run

\* A branch moves or goes while a script is committed.
LEMMA BackupCovers ==
    ASSUME BackupInv, NEW name, NEW commit, refs' = Updated(name, commit),
           UNCHANGED <<job, backup, pc>>, pc \in {"branch", "delete"}
    PROVE  BackupInv'
<1>1. dry_run \/ backup = asked.refs
  BY DEF BackupInv, Rewriting
<1>2. CASE dry_run
  BY <1>2, BackupUntouched DEF Updated, Rewriting
<1>3. CASE backup = asked.refs
  BY <1>3 DEF BackupInv, NothingMovesUnsaved, asked, dry_run, Rewriting
<1>4. QED
  BY <1>1, <1>2, <1>3

THEOREM BackupNext == BackupInv /\ [Next]_vars => BackupInv'
<1> SUFFICES ASSUME BackupInv, [Next]_vars PROVE BackupInv'
  OBVIOUS
<1>1. CASE GoesOn
  BY <1>1, GoesOnFrom, BackupUntouched DEF repository, Rewriting
<1>2. CASE BackUpFails \/ SwitchFails \/ CheckoutFails
  BY <1>2, StopsFrom, BackupUntouched DEF repository, Rewriting
<1>3. CASE Stash
  BY <1>3, BackupUntouched DEF Stash, repository, Rewriting
<1>4. CASE Refuse
  BY <1>4, BackupUntouched DEF Refuse, PopTo, repository, Rewriting
<1>5. CASE BackUp
  BY <1>5 DEF BackUp, BackupInv, NothingMovesUnsaved, asked, dry_run,
              repository
<1>6. CASE Detach
  BY <1>6, BackupUntouched DEF Detach, Rewriting
<1>7. CASE MoveBranch
  <2>1. /\ refs' = Updated(branches[at][2], branches[at][1])
        /\ UNCHANGED <<job, backup, pc>> /\ pc = "branch"
    BY <1>7 DEF MoveBranch
  <2>2. QED
    BY <2>1, BackupCovers
<1>8. CASE DeleteBranch
  <2>1. /\ refs' = Updated(delete_branches[at], NoCommit)
        /\ UNCHANGED <<job, backup, pc>> /\ pc = "delete"
    BY <1>8 DEF DeleteBranch
  <2>2. QED
    BY <2>1, BackupCovers
<1>9. CASE Notify
  BY <1>9, BackupUntouched DEF Notify, repository, Rewriting
<1>10. CASE Switch \/ Checkout
  BY <1>10, BackupUntouched DEF Switch, Checkout, repository, Rewriting
<1>11. CASE Push \/ PushFails
  BY <1>11, BackupUntouched DEF Push, PushFails, repository, Rewriting
<1>12. CASE Pop
  BY <1>12, BackupUntouched DEF Pop, PopTo, repository, Rewriting
<1>13. CASE Ended \/ UNCHANGED vars
  BY <1>13, BackupUntouched DEF Ended, vars, repository
<1>14. QED
  BY <1>1, <1>2, <1>3, <1>4, <1>5, <1>6, <1>7, <1>8, <1>9, <1>10, <1>11,
     <1>12, <1>13 DEF Next, GoesOn

\* No branch is anywhere but where the user left it unless a backup of all
\* of them is on the stack of backups, whatever fails and wherever
\* `git stack' is killed.
THEOREM StackIsBackedUp == Spec => []NothingMovesUnsaved
<1>1. BackupInv => NothingMovesUnsaved
  BY DEF BackupInv
<1>2. QED
  BY <1>1, BackupInit, BackupNext, PTL DEF Spec

-----------------------------------------------------------------------------
(***************************************************************************)
(* The user's work.                                                        *)
(***************************************************************************)
\* From the check of the working directory to the forced checkout, a run
\* that is no dry run has nothing uncommitted there.
Overwriting == Rewriting \cup {"backup", "checkout"}

WorkInv ==
    /\ asked.work \in BOOLEAN
    /\ work \in IF asked.work THEN {"files", "stash"} ELSE {"none"}
    /\ pc \in Overwriting /\ ~dry_run => work # "files"
    /\ pc = "checkout" => ~dry_run
    /\ pc \in {"done", "refused"} => work # "stash"

THEOREM WorkInit == Init => WorkInv
<1> SUFFICES ASSUME Init PROVE WorkInv
  OBVIOUS
<1>1. asked.work \in BOOLEAN
  BY JobsAreSound DEF Init, Begins, asked
<1>2. pc \in {"stash", "push"} /\ work = IF asked.work THEN "files" ELSE "none"
  BY DEF Init, Begins, asked
<1>3. QED
  BY <1>1, <1>2 DEF WorkInv, Overwriting, Rewriting

\* A step that leaves the work where it is, and does not enter the part of
\* the command that overwrites files.
LEMMA WorkUntouched ==
    ASSUME WorkInv, UNCHANGED <<job, work>>,
           pc' \in Overwriting => pc \in Overwriting,
           pc' = "checkout" => ~dry_run,
           pc' \in {"done", "refused"} => pc \in {"done", "refused"}
    PROVE  WorkInv'
BY DEF WorkInv, asked, dry_run

\* The pop of the stash.
LEMMA WorkReturns ==
    ASSUME WorkInv, UNCHANGED job, NEW end \in {"done", "refused"}, PopTo(end)
    PROVE  WorkInv'
<1>1. pc' \in {"done", "refused", "unpopped"}
  BY DEF PopTo
<1>2. CASE /\ work' = IF work = "stash" THEN "files" ELSE work
           /\ pc' = end
  BY <1>1, <1>2 DEF WorkInv, Overwriting, Rewriting, asked, dry_run
<1>3. CASE pc' = "unpopped" /\ UNCHANGED work
  BY <1>3, WorkUntouched DEF Overwriting, Rewriting
<1>4. QED
  BY <1>2, <1>3 DEF PopTo

THEOREM WorkNext == WorkInv /\ [Next]_vars => WorkInv'
<1> SUFFICES ASSUME WorkInv, [Next]_vars PROVE WorkInv'
  OBVIOUS
<1>1. CASE GoesOn
  <2>1. UNCHANGED <<job, work>>
    BY <1>1, GoesOnFrom
  <2>2. CASE pc = "check" /\ pc' = "backup" /\ (dry_run \/ ~IsDirty)
    BY <2>1, <2>2 DEF IsDirty, WorkInv, asked, dry_run
  <2>3. CASE ~(pc = "check" /\ pc' = "backup")
    BY <1>1, <2>1, <2>3, GoesOnFrom, WorkUntouched DEF Overwriting, Rewriting
  <2>4. QED
    BY <1>1, <2>2, <2>3, GoesOnFrom DEF Rewriting
<1>2. CASE BackUpFails \/ SwitchFails \/ CheckoutFails
  BY <1>2, StopsFrom, WorkUntouched DEF Overwriting, Rewriting
<1>3. CASE Stash
  <2>1. pc' = "check" /\ job' = job
    BY <1>3 DEF Stash
  <2>2. work' = work \/ (work = "files" /\ work' = "stash")
    BY <1>3 DEF Stash
  <2>3. QED
    BY <2>1, <2>2 DEF WorkInv, Overwriting, Rewriting, asked, dry_run
<1>4. CASE Refuse
  BY <1>4, WorkReturns DEF Refuse
<1>5. CASE BackUp
  BY <1>5, WorkUntouched DEF BackUp, Overwriting, Rewriting
<1>6. CASE Detach \/ MoveBranch \/ DeleteBranch \/ Notify
  BY <1>6, WorkUntouched
     DEF Detach, MoveBranch, DeleteBranch, Notify, Overwriting, Rewriting
<1>7. CASE Switch
  BY <1>7, WorkUntouched DEF Switch, Closing, MustSwitch, Overwriting, Rewriting
<1>8. CASE Checkout
  <2>1. pc = "checkout" /\ pc' = "push" /\ job' = job /\ work # "files"
    BY <1>8 DEF Checkout, WorkInv, Overwriting
  <2>2. work' = work
    BY <1>8, <2>1 DEF Checkout
  <2>3. QED
    BY <2>1, <2>2, WorkUntouched DEF Overwriting, Rewriting
<1>9. CASE Push \/ PushFails
  BY <1>9, WorkUntouched DEF Push, PushFails, Overwriting, Rewriting
<1>10. CASE Pop
  BY <1>10, WorkReturns DEF Pop
<1>11. CASE Ended \/ UNCHANGED vars
  BY <1>11 DEF Ended, vars, WorkInv, asked, dry_run
<1>12. QED
  BY <1>1, <1>2, <1>3, <1>4, <1>5, <1>6, <1>7, <1>8, <1>9, <1>10, <1>11
     DEF Next, GoesOn

\* The forced checkout at the end of the scripts never finds anything the
\* user has not committed, and a run that ends well gives it back.
THEOREM StackKeepsWork == Spec => []WorkIsKept
<1>1. WorkInv => WorkIsKept
  BY DEF WorkInv, WorkIsKept
<1>2. QED
  BY <1>1, WorkInit, WorkNext, PTL DEF Spec

-----------------------------------------------------------------------------
(***************************************************************************)
(* What is staged, command by command.                                     *)
(***************************************************************************)
IsStaging(f, dry, start, commands, n) ==
    f = [i \in 0..n |-> IF i = 0 THEN start
                        ELSE StageSingle(dry, f[i - 1], commands[i])]

LEMMA StagingAt ==
    ASSUME NEW f, NEW dry, NEW start, NEW commands, NEW n \in Nat,
           IsStaging(f, dry, start, commands, n), NEW i \in 0..n
    PROVE  f[i] = IF i = 0 THEN start ELSE StageSingle(dry, f[i - 1], commands[i])
BY DEF IsStaging

LEMMA StagingExists ==
    ASSUME NEW dry, NEW start, NEW commands
    PROVE  \A n \in Nat : \E f : IsStaging(f, dry, start, commands, n)
<1> DEFINE S == {n \in Nat : \E f : IsStaging(f, dry, start, commands, n)}
<1>1. 0 \in S
  <2> DEFINE f == [i \in 0..0 |-> start]
  <2>1. IsStaging(f, dry, start, commands, 0)
    BY DEF IsStaging
  <2> QED
    BY <2>1
<1>2. ASSUME NEW n \in Nat, n \in S PROVE n + 1 \in S
  <2>1. PICK f : IsStaging(f, dry, start, commands, n)
    BY <1>2
  <2> DEFINE g == [i \in 0..(n + 1) |-> IF i = 0 THEN start
                        ELSE StageSingle(dry, f[i - 1], commands[i])]
  <2>2. ASSUME NEW i \in 0..n PROVE g[i] = f[i]
    <3>1. g[i] = IF i = 0 THEN start ELSE StageSingle(dry, f[i - 1], commands[i])
      OBVIOUS
    <3> HIDE DEF g
    <3> QED
      BY <2>1, <3>1, StagingAt
  <2>3. ASSUME NEW i \in 0..(n + 1), i # 0 PROVE g[i - 1] = f[i - 1]
    <3>1. i - 1 \in 0..n
      BY <2>3
    <3> HIDE DEF g
    <3> QED
      BY <2>2, <3>1
  <2>4. IsStaging(g, dry, start, commands, n + 1)
    BY <2>3 DEF IsStaging
  <2> QED
    BY <2>4
<1> HIDE DEF S
<1>3. \A n \in Nat : n \in S
  BY <1>1, <1>2, Induction
<1> QED
  BY <1>3 DEF S

LEMMA StagedStepByStep ==
    ASSUME NEW dry, NEW start, NEW commands, Len(commands) \in Nat
    PROVE  /\ StageAll(dry, start, commands)[0] = start
           /\ \A i \in 1..Len(commands) :
                StageAll(dry, start, commands)[i] =
                    StageSingle(dry, StageAll(dry, start, commands)[i - 1], commands[i])
<1> DEFINE f == CHOOSE f : IsStaging(f, dry, start, commands, Len(commands))
<1>1. IsStaging(f, dry, start, commands, Len(commands))
  BY StagingExists
<1>2. StageAll(dry, start, commands) = f
  BY DEF StageAll, IsStaging
<1> HIDE DEF f
<1>3. f[0] = start
  BY <1>1, StagingAt
<1>4. ASSUME NEW i \in 1..Len(commands)
      PROVE  f[i] = StageSingle(dry, f[i - 1], commands[i])
  <2>1. i \in 0..Len(commands) /\ i # 0
    OBVIOUS
  <2> QED
    BY <1>1, <2>1, StagingAt
<1> QED
  BY <1>2, <1>3, <1>4

-----------------------------------------------------------------------------
(***************************************************************************)
(* One command.                                                            *)
(***************************************************************************)
IsStage(st) ==
    st = [cursor |-> st.cursor, marks |-> st.marks, branches |-> st.branches,
          deletes |-> st.deletes, rewrites |-> st.rewrites]

\* Where it takes the cursor.
CursorBy(st, c) ==
    CASE c.op = "switch" -> c.id
      [] c.op = "back" -> st.marks[c.id]
      [] c.op = "pick" -> CherryPick(st.cursor, c.id)
      [] c.op = "fixup" -> Squash(c.id, st.cursor)
      [] OTHER -> st.cursor

LEMMA StagesOne ==
    ASSUME NEW dry, ~dry, NEW st, IsStage(st), NEW c \in Command
    PROVE  LET next == StageSingle(dry, st, c)
           IN  /\ IsStage(next)
               /\ next.cursor = CursorBy(st, c)
               /\ next.marks = IF c.op = "mark" THEN Registered(st.marks, c.id, st.cursor)
                               ELSE st.marks
               /\ next.branches = IF c.op = "create"
                                  THEN Append(st.branches, <<st.cursor, c.name>>)
                                  ELSE st.branches
               /\ next.deletes = IF c.op = "delete" THEN Append(st.deletes, c.name)
                                 ELSE st.deletes
<1> DEFINE next == StageSingle(dry, st, c)
<1>1. c.op \in {"switch", "mark", "back", "pick", "fixup", "create", "delete"}
  BY DEF Command
<1>2. CASE c.op = "switch"
  BY <1>2 DEF StageSingle, IsStage, CursorBy
<1>3. CASE c.op = "mark"
  BY <1>3 DEF StageSingle, IsStage, CursorBy
<1>4. CASE c.op = "back"
  BY <1>4 DEF StageSingle, IsStage, CursorBy
<1>5. CASE c.op = "pick"
  BY <1>5 DEF StageSingle, IsStage, CursorBy
<1>6. CASE c.op = "fixup"
  BY <1>6 DEF StageSingle, IsStage, CursorBy
<1>7. CASE c.op = "create"
  BY <1>7 DEF StageSingle, IsStage, CursorBy
<1>8. CASE c.op = "delete"
  BY <1>8 DEF StageSingle, IsStage, CursorBy
<1> QED
  BY <1>1, <1>2, <1>3, <1>4, <1>5, <1>6, <1>7, <1>8

-----------------------------------------------------------------------------
(***************************************************************************)
(* What is staged does not depend on where HEAD is, nor on the marks no    *)
(* command comes back to.                                                  *)
(***************************************************************************)
Agree(s, t, known) ==
    /\ s.branches = t.branches /\ s.deletes = t.deletes
    /\ \A m \in known : /\ m \in DOMAIN s.marks /\ m \in DOMAIN t.marks
                        /\ s.marks[m] = t.marks[m]

LEMMA CommandAgrees ==
    ASSUME NEW dry, ~dry, NEW s, NEW t, IsStage(s), IsStage(t),
           NEW known, Agree(s, t, known),
           NEW c \in Command,
           c.op \in Onto \/ c.op = "delete" \/ s.cursor = t.cursor,
           c.op = "back" => c.id \in known
    PROVE  LET u == StageSingle(dry, s, c)
               v == StageSingle(dry, t, c)
           IN  /\ IsStage(u) /\ IsStage(v)
               /\ Agree(u, v, known \cup (IF c.op = "mark" THEN {c.id} ELSE {}))
               /\ c.op \in Onto \/ s.cursor = t.cursor => u.cursor = v.cursor
<1> DEFINE u == StageSingle(dry, s, c)
           v == StageSingle(dry, t, c)
<1>1. /\ IsStage(u) /\ u.cursor = CursorBy(s, c)
      /\ u.marks = IF c.op = "mark" THEN Registered(s.marks, c.id, s.cursor)
                   ELSE s.marks
      /\ u.branches = IF c.op = "create" THEN Append(s.branches, <<s.cursor, c.name>>)
                      ELSE s.branches
      /\ u.deletes = IF c.op = "delete" THEN Append(s.deletes, c.name)
                     ELSE s.deletes
  BY StagesOne
<1>2. /\ IsStage(v) /\ v.cursor = CursorBy(t, c)
      /\ v.marks = IF c.op = "mark" THEN Registered(t.marks, c.id, t.cursor)
                   ELSE t.marks
      /\ v.branches = IF c.op = "create" THEN Append(t.branches, <<t.cursor, c.name>>)
                      ELSE t.branches
      /\ v.deletes = IF c.op = "delete" THEN Append(t.deletes, c.name)
                     ELSE t.deletes
  BY StagesOne
<1> HIDE DEF u, v
<1>3. c.op \in Onto \/ s.cursor = t.cursor => u.cursor = v.cursor
  BY <1>1, <1>2 DEF CursorBy, Onto, Agree
<1>4. u.branches = v.branches /\ u.deletes = v.deletes
  BY <1>1, <1>2 DEF Onto, Agree
<1>5. CASE c.op = "mark"
  <2>1. s.cursor = t.cursor
    BY <1>5 DEF Onto
  <2>2. /\ u.marks = Registered(s.marks, c.id, s.cursor)
        /\ v.marks = Registered(t.marks, c.id, s.cursor)
    BY <1>1, <1>2, <1>5, <2>1
  <2>3. ASSUME NEW m \in known \cup {c.id}
        PROVE  m \in DOMAIN u.marks /\ m \in DOMAIN v.marks /\ u.marks[m] = v.marks[m]
    BY <2>2 DEF Registered, Agree
  <2> QED
    BY <1>1, <1>2, <1>3, <1>4, <1>5, <2>3 DEF Agree, u, v
<1>6. CASE c.op # "mark"
  <2>1. u.marks = s.marks /\ v.marks = t.marks
    BY <1>1, <1>2, <1>6
  <2> QED
    BY <1>1, <1>2, <1>3, <1>4, <1>6, <2>1 DEF Agree, u, v
<1> QED
  BY <1>5, <1>6

\* The commits marked by the first commands.
MarkedUpTo(commands, n) ==
    {commands[h].id : h \in {g \in 1..n : commands[g].op = "mark"}}

LEMMA AllIsMarked ==
    ASSUME NEW commands \in Seq(Command)
    PROVE  MarkedBy(commands) = MarkedUpTo(commands, Len(commands))
BY DEF MarkedBy, MarkedUpTo, Range

LEMMA MarkedNext ==
    ASSUME NEW commands, NEW n \in Nat
    PROVE  MarkedUpTo(commands, n + 1) =
             MarkedUpTo(commands, n)
                 \cup (IF commands[n + 1].op = "mark" THEN {commands[n + 1].id} ELSE {})
<1>1. 1..(n + 1) = (1..n) \cup {n + 1}
  OBVIOUS
<1> QED
  BY <1>1 DEF MarkedUpTo

LEMMA StagesAgree ==
    ASSUME NEW dry, ~dry, NEW commands \in Seq(Command), StartIsSound(commands),
           NEW s, NEW t, IsStage(s), IsStage(t), NEW known, Agree(s, t, known),
           \A i \in DOMAIN commands : commands[i].op = "back" =>
                commands[i].id \in known \cup MarkedUpTo(commands, i - 1)
    PROVE  \A i \in 0..Len(commands) :
                Agree(StageAll(dry, s, commands)[i], StageAll(dry, t, commands)[i],
                      known \cup MarkedUpTo(commands, i))
<1> DEFINE S == StageAll(dry, s, commands)
           T == StageAll(dry, t, commands)
           Ok(i) == /\ IsStage(S[i]) /\ IsStage(T[i])
                    /\ Agree(S[i], T[i], known \cup MarkedUpTo(commands, i))
                    /\ i # 0 /\ commands[1].op \in Onto => S[i].cursor = T[i].cursor
           N == {i \in Nat : i <= Len(commands) => Ok(i)}
<1>1. Len(commands) \in Nat /\ DOMAIN commands = 1..Len(commands)
  OBVIOUS
<1>2. S[0] = s /\ \A i \in 1..Len(commands) : S[i] = StageSingle(dry, S[i - 1], commands[i])
  BY <1>1, StagedStepByStep
<1>7. T[0] = t /\ \A i \in 1..Len(commands) : T[i] = StageSingle(dry, T[i - 1], commands[i])
  BY <1>1, StagedStepByStep
<1> HIDE DEF S, T
<1>3. 0 \in N
  <2>1. MarkedUpTo(commands, 0) = {}
    BY DEF MarkedUpTo
  <2>2. S[0] = s /\ T[0] = t
    BY <1>2, <1>7
  <2> QED
    BY <2>1, <2>2
<1>4. ASSUME NEW n \in Nat, n \in N PROVE n + 1 \in N
  <2> SUFFICES ASSUME n + 1 <= Len(commands) PROVE Ok(n + 1)
    OBVIOUS
  <2> DEFINE c == commands[n + 1]
             now == known \cup MarkedUpTo(commands, n)
  <2>8. n + 1 \in 1..Len(commands) /\ (n + 1) - 1 = n /\ n <= Len(commands)
    BY <1>1
  <2>9. Ok(n)
    BY <1>4, <2>8
  <2> HIDE DEF N
  <2>1. /\ Ok(n) /\ c \in Command /\ n + 1 \in DOMAIN commands
        /\ S[n + 1] = StageSingle(dry, S[n], c)
        /\ T[n + 1] = StageSingle(dry, T[n], c)
    <3>1. c \in Command
      BY <2>8
    <3>2. S[n + 1] = StageSingle(dry, S[n], c)
      BY <1>2, <2>8
    <3>3. T[n + 1] = StageSingle(dry, T[n], c)
      BY <1>7, <2>8
    <3> QED
      BY <1>1, <2>8, <2>9, <3>1, <3>2, <3>3
  <2>2. c.op \in Onto \/ c.op = "delete" \/ S[n].cursor = T[n].cursor
    BY <2>1 DEF StartIsSound
  <2>3. c.op = "back" => c.id \in now
    <3>1. (n + 1) - 1 = n
      OBVIOUS
    <3> QED
      BY <2>1, <3>1
  <2>4. MarkedUpTo(commands, n + 1) = MarkedUpTo(commands, n)
                 \cup (IF c.op = "mark" THEN {c.id} ELSE {})
    BY MarkedNext
  <2> HIDE DEF c
  <2>5. /\ IsStage(S[n + 1]) /\ IsStage(T[n + 1])
        /\ Agree(S[n + 1], T[n + 1], now \cup (IF c.op = "mark" THEN {c.id} ELSE {}))
        /\ c.op \in Onto \/ S[n].cursor = T[n].cursor => S[n + 1].cursor = T[n + 1].cursor
    <3> HIDE DEF now
    <3>1. /\ IsStage(S[n]) /\ IsStage(T[n]) /\ Agree(S[n], T[n], now)
      BY <2>1 DEF now
    <3> QED
      BY <2>1, <2>2, <2>3, <3>1, CommandAgrees
  <2>6. commands[1].op \in Onto => S[n + 1].cursor = T[n + 1].cursor
    <3>1. CASE n = 0
      BY <2>5, <3>1 DEF c
    <3>2. CASE n # 0
      BY <2>1, <2>5, <3>2
    <3> QED
      BY <3>1, <3>2
  <2>7. now \cup (IF c.op = "mark" THEN {c.id} ELSE {})
            = known \cup MarkedUpTo(commands, n + 1)
    BY <2>4
  <2> QED
    BY <2>5, <2>6, <2>7
<1> HIDE DEF N
<1>5. \A n \in Nat : n \in N
  BY <1>3, <1>4, Induction
<1>6. ASSUME NEW i \in 0..Len(commands)
      PROVE  Agree(S[i], T[i], known \cup MarkedUpTo(commands, i))
  <2>1. i \in N /\ i <= Len(commands)
    BY <1>1, <1>5
  <2> QED
    BY <2>1 DEF N
<1> QED
  BY <1>6 DEF S, T

\* A mark stays what it is while others are set.
LEMMA OtherMarksStay ==
    ASSUME NEW dry, ~dry, NEW commands \in Seq(Command), NEW s, IsStage(s),
           NEW m, m \notin MarkedBy(commands)
    PROVE  \A i \in 0..Len(commands) :
             LET known == StageAll(dry, s, commands)[i].marks
             IN  m \in DOMAIN s.marks => m \in DOMAIN known /\ known[m] = s.marks[m]
<1> DEFINE S == StageAll(dry, s, commands)
           Ok(i) == /\ IsStage(S[i])
                    /\ m \in DOMAIN s.marks =>
                            m \in DOMAIN S[i].marks /\ S[i].marks[m] = s.marks[m]
           N == {i \in Nat : i <= Len(commands) => Ok(i)}
<1>1. Len(commands) \in Nat /\ DOMAIN commands = 1..Len(commands)
  OBVIOUS
<1>2. S[0] = s /\ \A i \in 1..Len(commands) : S[i] = StageSingle(dry, S[i - 1], commands[i])
  BY <1>1, StagedStepByStep
<1> HIDE DEF S
<1>3. 0 \in N
  BY <1>2
<1>4. ASSUME NEW n \in Nat, n \in N PROVE n + 1 \in N
  <2> SUFFICES ASSUME n + 1 <= Len(commands) PROVE Ok(n + 1)
    OBVIOUS
  <2> DEFINE c == commands[n + 1]
  <2>8. n + 1 \in 1..Len(commands) /\ (n + 1) - 1 = n /\ n <= Len(commands)
    BY <1>1
  <2>9. Ok(n)
    BY <1>4, <2>8
  <2> HIDE DEF N
  <2>1. /\ Ok(n) /\ c \in Command /\ n + 1 \in DOMAIN commands
        /\ S[n + 1] = StageSingle(dry, S[n], c)
    <3>1. c \in Command
      BY <2>8
    <3>2. S[n + 1] = StageSingle(dry, S[n], c)
      BY <1>2, <2>8
    <3> QED
      BY <1>1, <2>8, <2>9, <3>1, <3>2
  <2>2. c.op = "mark" => c.id # m
    BY <2>1 DEF MarkedBy, Range
  <2> HIDE DEF c
  <2>3. /\ IsStage(S[n + 1])
        /\ S[n + 1].marks = IF c.op = "mark" THEN Registered(S[n].marks, c.id, S[n].cursor)
                            ELSE S[n].marks
    <3> DEFINE here == S[n]
               next == StageSingle(dry, here, c)
    <3>1. IsStage(here) /\ S[n + 1] = next /\ c \in Command
      BY <2>1
    <3> HIDE DEF here
    <3>2. /\ IsStage(next) /\ next.cursor = CursorBy(here, c)
          /\ next.marks = IF c.op = "mark" THEN Registered(here.marks, c.id, here.cursor)
                          ELSE here.marks
          /\ next.branches = IF c.op = "create"
                             THEN Append(here.branches, <<here.cursor, c.name>>)
                             ELSE here.branches
          /\ next.deletes = IF c.op = "delete" THEN Append(here.deletes, c.name)
                            ELSE here.deletes
      BY <3>1, StagesOne
    <3> HIDE DEF next
    <3> QED
      BY <3>1, <3>2 DEF here
  <2>4. CASE c.op = "mark"
    <3>1. S[n + 1].marks = Registered(S[n].marks, c.id, S[n].cursor)
      BY <2>3, <2>4
    <3>2. m \in DOMAIN S[n].marks =>
            m \in DOMAIN S[n + 1].marks /\ S[n + 1].marks[m] = S[n].marks[m]
      BY <2>2, <2>4, <3>1 DEF Registered
    <3> QED
      BY <2>1, <2>3, <3>2
  <2>5. CASE c.op # "mark"
    BY <2>1, <2>3, <2>5
  <2> QED
    BY <2>4, <2>5
<1> HIDE DEF N
<1>5. \A n \in Nat : n \in N
  BY <1>3, <1>4, Induction
<1> QED
  BY <1>5 DEF N, S

\* Every stage is one, and knows what was marked so far.
LEMMA StagesKnow ==
    ASSUME NEW dry, ~dry, NEW commands \in Seq(Command), NEW s, IsStage(s)
    PROVE  \A i \in 0..Len(commands) :
             LET st == StageAll(dry, s, commands)[i]
             IN  IsStage(st) /\ MarkedUpTo(commands, i) \subseteq DOMAIN st.marks
<1> DEFINE S == StageAll(dry, s, commands)
           Ok(i) == IsStage(S[i]) /\ MarkedUpTo(commands, i) \subseteq DOMAIN S[i].marks
           N == {i \in Nat : i <= Len(commands) => Ok(i)}
<1>1. Len(commands) \in Nat
  OBVIOUS
<1>2. S[0] = s /\ \A i \in 1..Len(commands) : S[i] = StageSingle(dry, S[i - 1], commands[i])
  BY <1>1, StagedStepByStep
<1> HIDE DEF S
<1>3. 0 \in N
  BY <1>2 DEF MarkedUpTo
<1>4. ASSUME NEW n \in Nat, n \in N PROVE n + 1 \in N
  <2> SUFFICES ASSUME n + 1 <= Len(commands) PROVE Ok(n + 1)
    OBVIOUS
  <2> DEFINE c == commands[n + 1]
             here == S[n]
             next == StageSingle(dry, here, c)
  <2>1. n + 1 \in 1..Len(commands) /\ (n + 1) - 1 = n /\ n <= Len(commands)
    BY <1>1
  <2>2. IsStage(here) /\ MarkedUpTo(commands, n) \subseteq DOMAIN here.marks
    BY <1>4, <2>1
  <2> HIDE DEF N
  <2>3. c \in Command
    BY <2>1
  <2>4. S[n + 1] = next
    BY <1>2, <2>1
  <2>5. MarkedUpTo(commands, n + 1) = MarkedUpTo(commands, n)
                 \cup (IF c.op = "mark" THEN {c.id} ELSE {})
    BY MarkedNext
  <2> HIDE DEF c, here
  <2>6. /\ IsStage(next) /\ next.cursor = CursorBy(here, c)
        /\ next.marks = IF c.op = "mark" THEN Registered(here.marks, c.id, here.cursor)
                        ELSE here.marks
        /\ next.branches = IF c.op = "create"
                           THEN Append(here.branches, <<here.cursor, c.name>>)
                           ELSE here.branches
        /\ next.deletes = IF c.op = "delete" THEN Append(here.deletes, c.name)
                          ELSE here.deletes
    BY <2>2, <2>3, StagesOne
  <2> HIDE DEF next
  <2>7. MarkedUpTo(commands, n + 1) \subseteq DOMAIN next.marks
    BY <2>2, <2>5, <2>6 DEF Registered
  <2> QED
    BY <2>4, <2>6, <2>7
<1> HIDE DEF N
<1>5. \A n \in Nat : n \in N
  BY <1>3, <1>4, Induction
<1> QED
  BY <1>5 DEF N, S

\* What a script updates, one of its commands asks for.
AsksFor(commands, n, name) ==
    \E h \in 1..n : commands[h].op \in {"create", "delete"} /\ commands[h].name = name

LEMMA AsksNext ==
    ASSUME NEW commands, NEW n \in Nat, NEW name
    PROVE  /\ AsksFor(commands, n, name) => AsksFor(commands, n + 1, name)
           /\ commands[n + 1].op \in {"create", "delete"}
                => AsksFor(commands, n + 1, commands[n + 1].name)
BY DEF AsksFor

LEMMA UpdatesAreAskedFor ==
    ASSUME NEW dry, ~dry, NEW commands \in Seq(Command), NEW s, IsStage(s),
           s.branches = << >>, s.deletes = << >>
    PROVE  \A i \in 0..Len(commands) :
             LET st == StageAll(dry, s, commands)[i]
             IN  /\ \A h \in DOMAIN st.branches : AsksFor(commands, i, st.branches[h][2])
                 /\ \A h \in DOMAIN st.deletes : AsksFor(commands, i, st.deletes[h])
<1> DEFINE S == StageAll(dry, s, commands)
           P == {S[i].cursor : i \in 0..Len(commands)} \X Branch
           Ok(i) == /\ IsStage(S[i])
                    /\ S[i].branches \in Seq(P) /\ S[i].deletes \in Seq(Branch)
                    /\ \A h \in DOMAIN S[i].branches :
                            AsksFor(commands, i, S[i].branches[h][2])
                    /\ \A h \in DOMAIN S[i].deletes :
                            AsksFor(commands, i, S[i].deletes[h])
           N == {i \in Nat : i <= Len(commands) => Ok(i)}
<1>1. Len(commands) \in Nat
  OBVIOUS
<1>2. S[0] = s /\ \A i \in 1..Len(commands) : S[i] = StageSingle(dry, S[i - 1], commands[i])
  BY <1>1, StagedStepByStep
<1>6. \A i \in 0..Len(commands) : \A b \in Branch : <<S[i].cursor, b>> \in P
  OBVIOUS
<1> HIDE DEF S, P
<1>3. 0 \in N
  <2>1. S[0] = s
    BY <1>2
  <2>2. << >> \in Seq(P) /\ << >> \in Seq(Branch) /\ DOMAIN << >> = {}
    OBVIOUS
  <2>3. Ok(0)
    BY <2>1, <2>2
  <2> HIDE DEF Ok
  <2> QED
    BY <2>3
<1>4. ASSUME NEW n \in Nat, n \in N PROVE n + 1 \in N
  <2> SUFFICES ASSUME n + 1 <= Len(commands) PROVE Ok(n + 1)
    OBVIOUS
  <2> DEFINE c == commands[n + 1]
             here == S[n]
             next == StageSingle(dry, here, c)
  <2>1. n + 1 \in 1..Len(commands) /\ (n + 1) - 1 = n /\ n <= Len(commands)
    BY <1>1
  <2>2. Ok(n)
    BY <1>4, <2>1
  <2> HIDE DEF N
  <2>3. c \in Command
    BY <2>1
  <2>4. S[n + 1] = next
    BY <1>2, <2>1
  <2>5. /\ \A name : AsksFor(commands, n, name) => AsksFor(commands, n + 1, name)
        /\ c.op \in {"create", "delete"} => AsksFor(commands, n + 1, c.name)
    BY AsksNext
  <2>6. \A b \in Branch : <<here.cursor, b>> \in P
    BY <1>6, <2>1
  <2>7. /\ IsStage(here) /\ here.branches \in Seq(P) /\ here.deletes \in Seq(Branch)
        /\ \A h \in DOMAIN here.branches : AsksFor(commands, n + 1, here.branches[h][2])
        /\ \A h \in DOMAIN here.deletes : AsksFor(commands, n + 1, here.deletes[h])
    BY <2>2, <2>5
  <2> HIDE DEF c, here, Ok
  <2>8. /\ IsStage(next) /\ next.cursor = CursorBy(here, c)
        /\ next.marks = IF c.op = "mark" THEN Registered(here.marks, c.id, here.cursor)
                        ELSE here.marks
        /\ next.branches = IF c.op = "create"
                           THEN Append(here.branches, <<here.cursor, c.name>>)
                           ELSE here.branches
        /\ next.deletes = IF c.op = "delete" THEN Append(here.deletes, c.name)
                          ELSE here.deletes
    BY <2>3, <2>7, StagesOne
  <2> HIDE DEF next
  <2>9. c.op \in {"create", "delete"} => c.name \in Branch
    BY <2>3 DEF Command
  <2>10. /\ next.branches \in Seq(P)
         /\ \A h \in DOMAIN next.branches : AsksFor(commands, n + 1, next.branches[h][2])
    <3>1. CASE c.op = "create"
      <4> DEFINE pair == <<here.cursor, c.name>>
      <4>1. pair \in P /\ pair[2] = c.name /\ next.branches = Append(here.branches, pair)
        BY <2>6, <2>8, <2>9, <3>1
      <4>2. AsksFor(commands, n + 1, pair[2])
        BY <2>5, <3>1, <4>1
      <4> HIDE DEF pair
      <4> QED
        BY <2>7, <4>1, <4>2
    <3>2. CASE c.op # "create"
      BY <2>7, <2>8, <3>2
    <3> QED
      BY <3>1, <3>2
  <2>11. /\ next.deletes \in Seq(Branch)
         /\ \A h \in DOMAIN next.deletes : AsksFor(commands, n + 1, next.deletes[h])
    <3>1. CASE c.op = "delete"
      <4>1. c.name \in Branch /\ next.deletes = Append(here.deletes, c.name)
        BY <2>8, <2>9, <3>1
      <4>2. AsksFor(commands, n + 1, c.name)
        BY <2>5, <3>1
      <4> QED
        BY <2>7, <4>1, <4>2
    <3>2. CASE c.op # "delete"
      BY <2>7, <2>8, <3>2
    <3> QED
      BY <3>1, <3>2
  <2> QED
    BY <2>4, <2>8, <2>10, <2>11 DEF Ok
<1> HIDE DEF N
<1>5. \A n \in Nat : n \in N
  BY <1>3, <1>4, Induction
<1> QED
  BY <1>5 DEF N, S

-----------------------------------------------------------------------------
(***************************************************************************)
(* The scripts, one after the other.                                       *)
(***************************************************************************)
LastOf(j, known, k) ==
    StageAll(j.asked.dry_run, Fresh(known), j.scripts[k].commands)
        [Len(j.scripts[k].commands)]

Nothing == Fresh([m \in {} |-> NoCommit])

IsPlaying(f, j, n) ==
    f = [k \in 0..n |-> IF k = 0 THEN Nothing ELSE LastOf(j, f[k - 1].marks, k)]

LEMMA PlayingAt ==
    ASSUME NEW f, NEW j, NEW n \in Nat, IsPlaying(f, j, n), NEW k \in 0..n
    PROVE  f[k] = IF k = 0 THEN Nothing ELSE LastOf(j, f[k - 1].marks, k)
BY DEF IsPlaying

LEMMA PlayingExists ==
    ASSUME NEW j
    PROVE  \A n \in Nat : \E f : IsPlaying(f, j, n)
<1> DEFINE S == {n \in Nat : \E f : IsPlaying(f, j, n)}
<1>1. 0 \in S
  <2> DEFINE f == [k \in 0..0 |-> Nothing]
  <2>1. IsPlaying(f, j, 0)
    BY DEF IsPlaying
  <2> QED
    BY <2>1
<1>2. ASSUME NEW n \in Nat, n \in S PROVE n + 1 \in S
  <2>1. PICK f : IsPlaying(f, j, n)
    BY <1>2
  <2> DEFINE g == [k \in 0..(n + 1) |-> IF k = 0 THEN Nothing
                                         ELSE LastOf(j, f[k - 1].marks, k)]
  <2>2. ASSUME NEW k \in 0..n PROVE g[k] = f[k]
    <3>1. g[k] = IF k = 0 THEN Nothing ELSE LastOf(j, f[k - 1].marks, k)
      OBVIOUS
    <3> HIDE DEF g
    <3> QED
      BY <2>1, <3>1, PlayingAt
  <2>3. ASSUME NEW k \in 0..(n + 1), k # 0 PROVE g[k - 1] = f[k - 1]
    <3>1. k - 1 \in 0..n
      BY <2>3
    <3> HIDE DEF g
    <3> QED
      BY <2>2, <3>1
  <2>4. IsPlaying(g, j, n + 1)
    BY <2>3 DEF IsPlaying
  <2> QED
    BY <2>4
<1> HIDE DEF S
<1>3. \A n \in Nat : n \in S
  BY <1>1, <1>2, Induction
<1> QED
  BY <1>3 DEF S

LEMMA PlayedStepByStep ==
    ASSUME NEW j, Len(j.scripts) \in Nat
    PROVE  /\ Played(j)[0] = Nothing
           /\ \A k \in 1..Len(j.scripts) :
                Played(j)[k] = LastOf(j, Played(j)[k - 1].marks, k)
<1> DEFINE f == CHOOSE f : IsPlaying(f, j, Len(j.scripts))
<1>1. IsPlaying(f, j, Len(j.scripts))
  BY PlayingExists
<1>2. Played(j) = f
  BY DEF Played, IsPlaying, LastOf, Nothing
<1> HIDE DEF f
<1>3. f[0] = Nothing
  BY <1>1, PlayingAt
<1>4. ASSUME NEW k \in 1..Len(j.scripts)
      PROVE  f[k] = LastOf(j, f[k - 1].marks, k)
  <2>1. k \in 0..Len(j.scripts) /\ k # 0
    OBVIOUS
  <2> QED
    BY <1>1, <2>1, PlayingAt
<1> QED
  BY <1>2, <1>3, <1>4

-----------------------------------------------------------------------------
(***************************************************************************)
(* What depends on what.                                                   *)
(***************************************************************************)
Script == [commands : Seq(Command), above : Nat]

\* A script depends on one that runs before it.
IsTree(scripts) ==
    scripts \in Seq(Script) /\ \A k \in DOMAIN scripts : scripts[k].above < k

LEMMA AboveIsBelow ==
    ASSUME NEW scripts, IsTree(scripts), NEW k \in DOMAIN scripts
    PROVE  scripts[k].above \in Nat /\ scripts[k].above < k
<1>1. scripts \in Seq(Script)
  BY DEF IsTree
<1>2. scripts[k] \in Script
  BY <1>1
<1>3. scripts[k].above \in Nat
  BY <1>2 DEF Script
<1> QED
  BY <1>3 DEF IsTree

IsDepending(f, scripts, j, n) ==
    f = [k \in 1..n |-> k = j \/ (scripts[k].above # 0 /\ f[scripts[k].above])]

LEMMA DependingAt ==
    ASSUME NEW f, NEW scripts, NEW j, NEW n \in Nat, IsDepending(f, scripts, j, n),
           NEW k \in 1..n
    PROVE  f[k] = (k = j \/ (scripts[k].above # 0 /\ f[scripts[k].above]))
BY DEF IsDepending

LEMMA DependingExists ==
    ASSUME NEW scripts, IsTree(scripts), NEW j
    PROVE  \A n \in Nat : n <= Len(scripts) => \E f : IsDepending(f, scripts, j, n)
<1> DEFINE S == {n \in Nat : n <= Len(scripts) => \E f : IsDepending(f, scripts, j, n)}
<1>0. Len(scripts) \in Nat /\ DOMAIN scripts = 1..Len(scripts)
  BY DEF IsTree
<1>1. 0 \in S
  <2> DEFINE f == [k \in 1..0 |-> TRUE]
  <2>1. IsDepending(f, scripts, j, 0)
    BY DEF IsDepending
  <2> QED
    BY <2>1
<1>2. ASSUME NEW n \in Nat, n \in S PROVE n + 1 \in S
  <2> SUFFICES ASSUME n + 1 <= Len(scripts)
               PROVE  \E f : IsDepending(f, scripts, j, n + 1)
    OBVIOUS
  <2>1. PICK f : IsDepending(f, scripts, j, n)
    BY <1>0, <1>2
  <2> DEFINE g == [k \in 1..(n + 1) |->
                        k = j \/ (scripts[k].above # 0 /\ f[scripts[k].above])]
  <2>2. ASSUME NEW k \in 1..n PROVE g[k] = f[k]
    <3>1. g[k] = (k = j \/ (scripts[k].above # 0 /\ f[scripts[k].above]))
      OBVIOUS
    <3> HIDE DEF g
    <3>2. f[k] = (k = j \/ (scripts[k].above # 0 /\ f[scripts[k].above]))
      BY <2>1, DependingAt
    <3> QED
      BY <3>1, <3>2
  <2>3. ASSUME NEW k \in 1..(n + 1), scripts[k].above # 0
        PROVE  g[scripts[k].above] = f[scripts[k].above]
    <3>1. scripts[k].above \in 1..n
      <4>1. k \in DOMAIN scripts
        BY <1>0
      <4>2. scripts[k].above \in Nat /\ scripts[k].above < k
        BY <4>1, AboveIsBelow
      <4> QED
        BY <2>3, <4>2
    <3> HIDE DEF g
    <3> QED
      BY <2>2, <3>1
  <2>4. IsDepending(g, scripts, j, n + 1)
    BY <2>3 DEF IsDepending
  <2> QED
    BY <2>4
<1> HIDE DEF S
<1>3. \A n \in Nat : n \in S
  BY <1>1, <1>2, Induction
<1> QED
  BY <1>3 DEF S

LEMMA DependsStepByStep ==
    ASSUME NEW scripts, IsTree(scripts), NEW i \in DOMAIN scripts, NEW j
    PROVE  DependsOn(scripts, i, j) <=>
             i = j \/ (scripts[i].above # 0 /\ DependsOn(scripts, scripts[i].above, j))
<1> DEFINE f == CHOOSE f : IsDepending(f, scripts, j, Len(scripts))
<1>0. Len(scripts) \in Nat /\ DOMAIN scripts = 1..Len(scripts)
  BY DEF IsTree
<1>1. IsDepending(f, scripts, j, Len(scripts))
  BY <1>0, DependingExists
<1>2. \A k : DependsOn(scripts, k, j) = f[k]
  BY <1>0 DEF DependsOn, IsDepending
<1> HIDE DEF f
<1>3. f[i] = (i = j \/ (scripts[i].above # 0 /\ f[scripts[i].above]))
  BY <1>0, <1>1, DependingAt
<1> QED
  BY <1>2, <1>3

\* What a script depends on, and what depends on it, by induction.
LEMMA DependsDown ==
    ASSUME NEW scripts, IsTree(scripts), NEW j, NEW bad,
           \A k \in DOMAIN scripts : scripts[k].above \in bad => k \in bad
    PROVE  \A i \in DOMAIN scripts : DependsOn(scripts, i, j) =>
                j \in 1..i /\ (j \in bad => i \in bad)
<1> DEFINE Ok(i) == DependsOn(scripts, i, j) => j \in 1..i /\ (j \in bad => i \in bad)
           N == {i \in DOMAIN scripts : ~Ok(i)}
<1>0. Len(scripts) \in Nat /\ DOMAIN scripts = 1..Len(scripts)
  BY DEF IsTree
<1> SUFFICES ASSUME N # {} PROVE FALSE
  OBVIOUS
<1>1. PICK i \in N : \A k \in N : i <= k
  <2>1. N \in SUBSET Nat
    BY <1>0
  <2> HIDE DEF N
  <2> QED
    BY <2>1, LeastNumber
<1>2. i \in DOMAIN scripts /\ DependsOn(scripts, i, j) /\ ~Ok(i)
  OBVIOUS
<1>3. CASE i = j
  BY <1>0, <1>2, <1>3
<1>4. CASE i # j
  <2> DEFINE a == scripts[i].above
  <2>1. a # 0 /\ DependsOn(scripts, a, j)
    BY <1>2, <1>4, DependsStepByStep
  <2>2. a \in Nat /\ a < i
    BY <1>2, AboveIsBelow
  <2>3. a \in DOMAIN scripts
    BY <1>0, <1>2, <2>1, <2>2
  <2>4. a \notin N
    BY <1>0, <1>1, <1>2, <2>2, <2>3
  <2>5. Ok(a)
    BY <2>3, <2>4
  <2> QED
    BY <1>0, <1>2, <2>1, <2>2, <2>3, <2>5
<1> QED
  BY <1>3, <1>4

-----------------------------------------------------------------------------
(***************************************************************************)
(* The scripts when nothing fails.                                         *)
(***************************************************************************)
IsTyped(j) == j.scripts \in Seq(Script) /\ ~j.asked.dry_run

LEMMA PlayedIsStaged ==
    ASSUME NEW j, IsTyped(j)
    PROVE  \A k \in 0..Len(j.scripts) :
             /\ IsStage(Played(j)[k])
             /\ k # 0 => MarkedBy(j.scripts[k].commands) \subseteq DOMAIN Played(j)[k].marks
<1> DEFINE P == Played(j)
<1>1. Len(j.scripts) \in Nat /\ DOMAIN j.scripts = 1..Len(j.scripts)
  BY DEF IsTyped
<1>2. /\ P[0] = Nothing
      /\ \A k \in 1..Len(j.scripts) : P[k] = LastOf(j, P[k - 1].marks, k)
  BY <1>1, PlayedStepByStep
<1> HIDE DEF P
<1>3. IsStage(P[0])
  BY <1>2 DEF IsStage, Nothing, Fresh
<1>4. ASSUME NEW k \in 1..Len(j.scripts)
      PROVE  IsStage(P[k]) /\ MarkedBy(j.scripts[k].commands) \subseteq DOMAIN P[k].marks
  <2> DEFINE commands == j.scripts[k].commands
             start == Fresh(P[k - 1].marks)
             dry == j.asked.dry_run
  <2>1. commands \in Seq(Command)
    <3>1. j.scripts \in Seq(Script)
      BY DEF IsTyped
    <3>2. j.scripts[k] \in Script
      BY <1>1, <3>1
    <3> QED
      BY <3>2 DEF Script
  <2>2. IsStage(start)
    BY DEF IsStage, Fresh
  <2>3. P[k] = StageAll(dry, start, commands)[Len(commands)]
    BY <1>2 DEF LastOf
  <2>4. ~dry
    BY DEF IsTyped
  <2>5. Len(commands) \in 0..Len(commands)
    BY <2>1
  <2> HIDE DEF commands, start, dry
  <2>6. LET st == StageAll(dry, start, commands)[Len(commands)]
        IN  IsStage(st) /\ MarkedUpTo(commands, Len(commands)) \subseteq DOMAIN st.marks
    BY <2>1, <2>2, <2>4, <2>5, StagesKnow
  <2>7. MarkedBy(commands) = MarkedUpTo(commands, Len(commands))
    BY <2>1, AllIsMarked
  <2> QED
    BY <2>3, <2>6, <2>7 DEF commands
<1> QED
  BY <1>1, <1>3, <1>4 DEF P

\* The marks a script sets are those of the next ones, but where these set them.
LEMMA MarksAreKept ==
    ASSUME NEW j, IsTyped(j), NEW e \in 1..Len(j.scripts),
           NEW m \in MarkedBy(j.scripts[e].commands)
    PROVE  \A k \in e..Len(j.scripts) :
             (\A f \in (e + 1)..k : m \notin MarkedBy(j.scripts[f].commands))
                => /\ m \in DOMAIN Played(j)[k].marks
                   /\ Played(j)[k].marks[m] = Played(j)[e].marks[m]
<1> DEFINE P == Played(j)
           L == Len(j.scripts)
           Clear(k) == \A f \in (e + 1)..k : m \notin MarkedBy(j.scripts[f].commands)
           Ok(k) == Clear(k) => m \in DOMAIN P[k].marks /\ P[k].marks[m] = P[e].marks[m]
           N == {n \in Nat : e + n <= L => Ok(e + n)}
<1>1. L \in Nat /\ DOMAIN j.scripts = 1..L
  BY DEF IsTyped
<1>2. \A k \in 1..L : P[k] = LastOf(j, P[k - 1].marks, k)
  BY <1>1, PlayedStepByStep
<1>3. m \in DOMAIN P[e].marks
  <2>1. e \in 0..L /\ e # 0
    BY <1>1
  <2> QED
    BY <2>1, PlayedIsStaged
<1> HIDE DEF P, L
<1>4. 0 \in N
  BY <1>3
<1>5. ASSUME NEW n \in Nat, n \in N PROVE n + 1 \in N
  <2> DEFINE k == e + n
  <2> SUFFICES ASSUME k + 1 <= L, Clear(k + 1)
               PROVE  m \in DOMAIN P[k + 1].marks /\ P[k + 1].marks[m] = P[e].marks[m]
    <3>1. e + (n + 1) = k + 1
      BY DEF L
    <3> QED
      BY <3>1
  <2>1. k \in Nat /\ k + 1 \in 1..L /\ (k + 1) - 1 = k /\ k + 1 \in (e + 1)..(k + 1)
    BY <1>1 DEF L
  <2>2. Clear(k) /\ m \notin MarkedBy(j.scripts[k + 1].commands)
    BY <2>1
  <2>3. m \in DOMAIN P[k].marks /\ P[k].marks[m] = P[e].marks[m]
    BY <1>1, <1>5, <2>1, <2>2
  <2> DEFINE commands == j.scripts[k + 1].commands
             start == Fresh(P[k].marks)
             dry == j.asked.dry_run
  <2>4. commands \in Seq(Command)
    <3>1. j.scripts \in Seq(Script)
      BY DEF IsTyped
    <3>2. j.scripts[k + 1] \in Script
      BY <1>1, <2>1, <3>1
    <3> QED
      BY <3>2 DEF Script
  <2>5. IsStage(start) /\ start.marks = P[k].marks
    BY DEF IsStage, Fresh
  <2>6. P[k + 1] = StageAll(dry, start, commands)[Len(commands)]
    BY <1>2, <2>1 DEF LastOf
  <2>7. ~dry /\ m \notin MarkedBy(commands)
    BY <2>2 DEF IsTyped
  <2>8. Len(commands) \in 0..Len(commands)
    BY <2>4
  <2> HIDE DEF commands, start, dry, k
  <2>9. LET known == StageAll(dry, start, commands)[Len(commands)].marks
        IN  m \in DOMAIN start.marks => m \in DOMAIN known /\ known[m] = start.marks[m]
    BY <2>4, <2>5, <2>7, <2>8, OtherMarksStay
  <2> QED
    BY <2>3, <2>5, <2>6, <2>9
<1> HIDE DEF N
<1>6. \A n \in Nat : n \in N
  BY <1>4, <1>5, Induction
<1>7. ASSUME NEW k \in e..L PROVE Ok(k)
  <2>1. k - e \in Nat /\ e + (k - e) = k /\ k <= L
    BY <1>1
  <2>2. e + (k - e) <= L => Ok(e + (k - e))
    BY <1>6, <2>1 DEF N
  <2> HIDE DEF Ok
  <2> QED
    BY <2>1, <2>2
<1> QED
  BY <1>7 DEF P, L

-----------------------------------------------------------------------------
(***************************************************************************)
(* The scripts as they are carried out.                                    *)
(***************************************************************************)
Committing == {"hook", "detach", "branch", "delete", "notify"}

\* The script that was staged last, or not at all.
Ran == IF pc \in Committing THEN script ELSE script - 1

MarkedIn(e) == MarkedBy(Scripts[e].commands)

\* A mark is what it is when nothing fails, but for the scripts that were left out.
MarksInv ==
    \A e \in 1..Ran : e \notin missed =>
        \A m \in MarkedIn(e) :
            (\A f \in (e + 1)..Ran : m \notin MarkedIn(f))
                => m \in DOMAIN marks /\ marks[m] = Played(job)[e].marks[m]

\* A script that depends on a missed one is missed.
MissedInv ==
    /\ missed \subseteq DOMAIN Scripts
    /\ \A i \in DOMAIN Scripts : Scripts[i].above \in missed => i \in missed
    /\ missed # {} => faults >= 2 \/ \E bad \in missed : missed = DependentsOf({bad})

\* What is to be updated is what is when nothing fails.
BatchInv ==
    /\ script \in Nat \ {0} /\ at \in Nat \ {0}
    /\ pc \in Committing => /\ script \in DOMAIN Scripts /\ script \notin missed
                            /\ branches = Played(job)[script].branches
                            /\ delete_branches = Played(job)[script].deletes
    /\ pc \notin Committing => branches = << >> /\ delete_branches = << >>
    /\ pc = "branch" => at <= Len(branches) + 1
    /\ pc = "delete" => at <= Len(delete_branches) + 1

\* A plan to be carried out.
Carried == SoundPlan(job) /\ job \in Jobs /\ ~dry_run

LEMMA CarriedIsTyped ==
    ASSUME Carried
    PROVE  /\ IsTyped(job) /\ IsTree(Scripts)
           /\ Len(Scripts) \in Nat /\ DOMAIN Scripts = 1..Len(Scripts)
           /\ \A k \in DOMAIN Scripts :
                ScriptIsSound(job, k) /\ Scripts[k].commands \in Seq(Command)
<1>1. job.scripts \in Seq([commands : Seq(Command), above : Nat])
  BY JobsAreSound DEF Carried
<1>2. Scripts \in Seq(Script)
  BY <1>1 DEF Script, Scripts
<1>3. Len(Scripts) \in Nat /\ DOMAIN Scripts = 1..Len(Scripts)
  BY <1>2
<1>4. \A k \in DOMAIN Scripts : ScriptIsSound(job, k)
  BY DEF Carried, SoundPlan, Scripts, dry_run, asked
<1>5. ASSUME NEW k \in DOMAIN Scripts PROVE Scripts[k].commands \in Seq(Command)
  <2>1. Scripts[k] \in Script
    BY <1>2, <1>5
  <2> QED
    BY <2>1 DEF Script
<1>6. ASSUME NEW k \in DOMAIN Scripts PROVE Scripts[k].above < k
  BY <1>4 DEF ScriptIsSound, Scripts
<1>7. IsTyped(job)
  BY <1>2 DEF IsTyped, Carried, Scripts, dry_run, asked
<1> QED
  BY <1>2, <1>3, <1>4, <1>5, <1>6, <1>7 DEF IsTree

\* The marks a script may come back to.
KnownTo(k) ==
    {m \in UNION {MarkedIn(e) : e \in 1..(k - 1)} :
        \E e \in 1..(k - 1) :
            /\ DependsOn(Scripts, k, e) /\ m \in MarkedIn(e)
            /\ \A f \in (e + 1)..(k - 1) : m \notin MarkedIn(f)}

Start ==
    [cursor |-> HeadCommit, marks |-> marks, branches |-> << >>,
     deletes |-> << >>, rewrites |-> post_rewrite]

LEMMA KnownMarks ==
    ASSUME Carried, MarksInv, MissedInv, BatchInv,
           pc = "script", script \in DOMAIN Scripts, script \notin missed
    PROVE  Agree(Start, Fresh(Played(job)[script - 1].marks), KnownTo(script))
<1> DEFINE P == Played(job)
           k == script
<1>1. /\ IsTyped(job) /\ IsTree(Scripts) /\ Len(Scripts) \in Nat
      /\ DOMAIN Scripts = 1..Len(Scripts)
  BY CarriedIsTyped
<1>2. Ran = k - 1
  BY DEF Ran, Committing
<1>3. ASSUME NEW m \in KnownTo(k)
      PROVE  /\ m \in DOMAIN marks /\ m \in DOMAIN P[k - 1].marks
             /\ marks[m] = P[k - 1].marks[m]
  <2>1. PICK e \in 1..(k - 1) :
            /\ DependsOn(Scripts, k, e) /\ m \in MarkedIn(e)
            /\ \A f \in (e + 1)..(k - 1) : m \notin MarkedIn(f)
    BY <1>3 DEF KnownTo
  <2>2. e \notin missed
    <3>1. \A i \in DOMAIN Scripts : Scripts[i].above \in missed => i \in missed
      BY DEF MissedInv
    <3>2. e \in missed => k \in missed
      BY <1>1, <2>1, <3>1, DependsDown
    <3> QED
      BY <3>2
  <2>3. m \in DOMAIN marks /\ marks[m] = P[e].marks[m]
    BY <1>2, <2>1, <2>2 DEF MarksInv
  <2>4. m \in DOMAIN P[k - 1].marks /\ P[k - 1].marks[m] = P[e].marks[m]
    <3>1. e \in 1..Len(Scripts) /\ k - 1 \in e..Len(Scripts)
      BY <1>1, <2>1
    <3>2. m \in MarkedBy(job.scripts[e].commands)
      BY <2>1 DEF MarkedIn, Scripts
    <3>3. \A f \in (e + 1)..(k - 1) : m \notin MarkedBy(job.scripts[f].commands)
      BY <2>1 DEF MarkedIn, Scripts
    <3> HIDE DEF P
    <3>4. \A n \in e..Len(job.scripts) :
             (\A f \in (e + 1)..n : m \notin MarkedBy(job.scripts[f].commands))
                => m \in DOMAIN P[n].marks /\ P[n].marks[m] = P[e].marks[m]
      BY <1>1, <3>1, <3>2, MarksAreKept DEF Scripts, P
    <3> QED
      BY <3>1, <3>3, <3>4 DEF Scripts
  <2> QED
    BY <2>3, <2>4
<1> QED
  BY <1>3 DEF Agree, Start, Fresh

\* What a script stages, when what it depends on was not missed.
LEMMA StagedAsPlayed ==
    ASSUME Carried, MarksInv, MissedInv, BatchInv,
           pc = "script", script \in DOMAIN Scripts, script \notin missed
    PROVE  LET st == StagedNow[Len(Scripts[script].commands)]
               as == Played(job)[script]
           IN  /\ st.branches = as.branches /\ st.deletes = as.deletes
               /\ \A m \in MarkedIn(script) :
                    m \in DOMAIN st.marks /\ st.marks[m] = as.marks[m]
<1> DEFINE commands == Scripts[script].commands
           start == Fresh(Played(job)[script - 1].marks)
           known == KnownTo(script)
           dry == dry_run
           now == Start
<1>1. /\ Len(Scripts) \in Nat /\ DOMAIN Scripts = 1..Len(Scripts)
      /\ ScriptIsSound(job, script) /\ commands \in Seq(Command)
  BY CarriedIsTyped
<1>2. IsStage(now) /\ IsStage(start)
  BY DEF IsStage, Start, Fresh
<1>3. Agree(now, start, known)
  BY KnownMarks
<1>4. StartIsSound(commands)
  BY <1>1 DEF ScriptIsSound, Scripts
<1>5. ASSUME NEW i \in DOMAIN commands, commands[i].op = "back"
      PROVE  commands[i].id \in known \cup MarkedUpTo(commands, i - 1)
  <2>1. BackIsSound(job, script, i)
    BY <1>1, <1>5 DEF ScriptIsSound, Scripts
  <2>2. CASE \E h \in 1..(i - 1) : commands[h].op = "mark"
                                   /\ commands[h].id = commands[i].id
    BY <2>2 DEF MarkedUpTo
  <2>3. CASE \E e \in 1..(script - 1) :
                /\ DependsOn(Scripts, script, e) /\ commands[i].id \in MarkedIn(e)
                /\ \A f \in (e + 1)..(script - 1) : commands[i].id \notin MarkedIn(f)
    BY <2>3 DEF KnownTo
  <2> QED
    BY <2>1, <2>2, <2>3 DEF BackIsSound, MarkedIn, Scripts
<1>6. ~dry
  BY DEF Carried
<1>7. StagedNow = StageAll(dry, now, commands)
  <2>1. branches = << >> /\ delete_branches = << >>
    BY DEF BatchInv, Committing
  <2> QED
    BY <2>1 DEF StagedNow, Start
<1>8. Played(job)[script] = StageAll(dry, start, commands)[Len(commands)]
  BY <1>1, PlayedStepByStep DEF LastOf, Scripts, dry_run, asked
<1>9. Len(commands) \in 0..Len(commands)
  BY <1>1
<1> HIDE DEF commands, start, known, dry, now
<1>10. Agree(StageAll(dry, now, commands)[Len(commands)],
             StageAll(dry, start, commands)[Len(commands)],
             known \cup MarkedUpTo(commands, Len(commands)))
  BY <1>1, <1>2, <1>3, <1>4, <1>5, <1>6, <1>9, StagesAgree
<1>11. MarkedIn(script) = MarkedUpTo(commands, Len(commands))
  BY <1>1, AllIsMarked DEF MarkedIn, commands
<1> QED
  BY <1>7, <1>8, <1>10, <1>11 DEF Agree, commands

\* A mark no command of the script sets stays as it is.
LEMMA StagedKeepsMarks ==
    ASSUME Carried, script \in DOMAIN Scripts, NEW m \in DOMAIN marks,
           m \notin MarkedIn(script)
    PROVE  \A i \in 0..Len(Scripts[script].commands) :
             m \in DOMAIN StagedNow[i].marks /\ StagedNow[i].marks[m] = marks[m]
<1> DEFINE commands == Scripts[script].commands
           dry == dry_run
           now == [cursor |-> HeadCommit, marks |-> marks, branches |-> branches,
                   deletes |-> delete_branches, rewrites |-> post_rewrite]
<1>1. commands \in Seq(Command)
  BY CarriedIsTyped
<1>2. IsStage(now) /\ now.marks = marks
  BY DEF IsStage
<1>3. ~dry
  BY DEF Carried
<1>4. StagedNow = StageAll(dry, now, commands)
  BY DEF StagedNow
<1>5. m \notin MarkedBy(commands)
  BY DEF MarkedIn
<1> HIDE DEF commands, dry, now
<1>6. \A i \in 0..Len(commands) :
         LET known == StageAll(dry, now, commands)[i].marks
         IN  m \in DOMAIN now.marks => m \in DOMAIN known /\ known[m] = now.marks[m]
  BY <1>1, <1>2, <1>3, <1>5, OtherMarksStay
<1> QED
  BY <1>2, <1>4, <1>6 DEF commands

\* The updates of the script that runs, and how many of them are done.
Updates == UpdatesOf(Played(job)[script])

Done ==
    CASE pc = "branch" -> at - 1
      [] pc = "delete" -> Len(branches) + (at - 1)
      [] pc = "notify" -> Len(Updates)
      [] OTHER -> 0

PutSoFar == {b \in Branch : \E h \in 1..Done : Updates[h] = <<job.goal.new[b], b>>}

\* A branch is where it was, or where the graph puts it: then an update has
\* put it there.
WhereInv ==
    /\ refs = [b \in Branch |-> refs[b]]
    /\ \A b \in Branch :
        /\ refs[b] \in {asked.refs[b], job.goal.new[b]}
        /\ b \in PutSoFar => refs[b] = job.goal.new[b]
        /\ \A e \in 1..(script - 1) :
                e \notin missed /\ b \in PlacedBy(job, e) => refs[b] = job.goal.new[b]
        /\ refs[b] # asked.refs[b] =>
                b \in PutSoFar \/ \E e \in 1..(script - 1) : b \in PlacedBy(job, e)

LEMMA UpdatesAre ==
    ASSUME Carried, NEW k \in DOMAIN Scripts
    PROVE  LET st == Played(job)[k]
               us == UpdatesOf(st)
           IN  /\ st.branches \in Seq(Commit \X Branch) /\ st.deletes \in Seq(Branch)
               /\ us \in Seq((Commit \cup {NoCommit}) \X Branch)
               /\ Len(us) = Len(st.branches) + Len(st.deletes)
               /\ \A h \in 1..Len(st.branches) : us[h] = st.branches[h]
               /\ \A h \in 1..Len(st.deletes) :
                    us[Len(st.branches) + h] = <<NoCommit, st.deletes[h]>>
<1> DEFINE st == Played(job)[k]
           us == UpdatesOf(st)
           B == st.branches
           D == st.deletes
           P == (Commit \cup {NoCommit}) \X Branch
           E == [i \in DOMAIN D |-> <<NoCommit, D[i]>>]
<1>1. B \in Seq(Commit \X Branch) /\ D \in Seq(Branch)
  BY CarriedIsTyped DEF ScriptIsSound
<1>2. us = B \o E
  BY DEF UpdatesOf
<1> HIDE DEF st, us, B, D
<1>3. B \in Seq(P)
  BY <1>1
<1>4. E \in Seq(P) /\ Len(E) = Len(D) /\ \A h \in 1..Len(D) : E[h] = <<NoCommit, D[h]>>
  BY <1>1
<1>5. E \in Seq(P) /\ Len(E) = Len(D)
  BY <1>4
<1> HIDE DEF E, P
<1>6. /\ us \in Seq(P) /\ Len(us) = Len(B) + Len(E)
      /\ \A h \in 1..Len(B) : us[h] = B[h]
      /\ \A h \in 1..Len(E) : us[Len(B) + h] = E[h]
  <2>0. E \in Seq(P)
    BY <1>5
  <2>1. us \in Seq(P)
    BY <1>2, <1>3, <2>0
  <2>2. Len(us) = Len(B) + Len(E)
    BY <1>2, <1>3, <2>0
  <2>3. \A h \in 1..Len(B) : us[h] = B[h]
    BY <1>2, <1>3, <2>0
  <2>4. \A h \in 1..Len(E) : us[Len(B) + h] = E[h]
    BY <1>2, <1>3, <2>0
  <2> QED
    BY <2>1, <2>2, <2>3, <2>4
<1> QED
  BY <1>1, <1>4, <1>6 DEF st, us, B, D, P

\* What is put where the graph says is what the script places.
LEMMA PutIsPlaced ==
    ASSUME Carried, BatchInv
    PROVE  /\ PutSoFar \subseteq PlacedBy(job, script)
           /\ pc = "notify" => PutSoFar = PlacedBy(job, script)
           /\ pc \notin Committing => PutSoFar = {}
<1>1. CASE pc \in Committing
  <2> DEFINE st == Played(job)[script]
             L == Len(Updates)
  <2>1. script \in DOMAIN Scripts /\ branches = st.branches /\ delete_branches = st.deletes
    BY <1>1 DEF BatchInv
  <2>2. /\ st.branches \in Seq(Commit \X Branch) /\ st.deletes \in Seq(Branch)
        /\ Updates \in Seq((Commit \cup {NoCommit}) \X Branch)
        /\ L = Len(st.branches) + Len(st.deletes)
    BY <2>1, UpdatesAre DEF Updates
  <2> HIDE DEF st
  <2>3. /\ DOMAIN Updates = 1..L /\ L \in Nat
        /\ Len(branches) \in Nat /\ Len(delete_branches) \in Nat
        /\ L = Len(branches) + Len(delete_branches)
    <3>1. branches \in Seq(Commit \X Branch) /\ delete_branches \in Seq(Branch)
      BY <2>1, <2>2
    <3>2. Len(branches) \in Nat /\ Len(delete_branches) \in Nat
      BY <3>1
    <3>3. DOMAIN Updates = 1..L /\ L \in Nat
      <4> DEFINE P == (Commit \cup {NoCommit}) \X Branch
      <4>1. Updates \in Seq(P)
        BY <2>2
      <4> HIDE DEF P
      <4> QED
        BY <4>1
    <3>4. L = Len(branches) + Len(delete_branches)
      BY <2>1, <2>2
    <3> HIDE DEF L
    <3> QED
      BY <3>2, <3>3, <3>4
  <2>4. Done \in 0..L
    BY <2>3 DEF Done, BatchInv
  <2>5. pc = "notify" => Done = L
    BY DEF Done
  <2>6. PlacedBy(job, script) =
            {b \in Branch : \E h \in 1..L : Updates[h] = <<job.goal.new[b], b>>}
    BY <2>3 DEF PlacedBy, Updates, Range
  <2> HIDE DEF L
  <2>7. 1..Done \subseteq 1..L
    BY <2>3, <2>4
  <2> QED
    BY <1>1, <2>5, <2>6, <2>7 DEF PutSoFar
<1>2. CASE pc \notin Committing
  <2>1. Done = 0
    BY <1>2 DEF Done, Committing
  <2> QED
    BY <1>2, <2>1 DEF PutSoFar, Committing
<1> QED
  BY <1>1, <1>2

-----------------------------------------------------------------------------
(***************************************************************************)
(* Where the branches are.                                                 *)
(***************************************************************************)
\* No branch moves, and the script goes on.
LEMMA WhereGoesOn ==
    ASSUME WhereInv, UNCHANGED <<job, refs, script>>, missed \subseteq missed',
           PutSoFar' = PutSoFar
    PROVE  WhereInv'
BY DEF WhereInv, asked

\* No branch moves, and the script is over.
LEMMA WhereLeaves ==
    ASSUME Carried, BatchInv, WhereInv, UNCHANGED <<job, refs>>,
           script' = script + 1, missed \subseteq missed', PutSoFar' = {},
           script \in missed' \/ pc = "notify"
    PROVE  WhereInv'
<1> DEFINE new == job.goal.new
<1>1. script \in Nat \ {0}
  BY DEF BatchInv
<1>2. /\ PutSoFar \subseteq PlacedBy(job, script)
      /\ pc = "notify" => PutSoFar = PlacedBy(job, script)
  BY PutIsPlaced
<1>3. 1..(script' - 1) = 1..(script - 1) \cup {script}
  BY <1>1
<1>4. job' = job /\ refs' = refs /\ asked' = asked
  BY DEF asked
<1>5. ASSUME NEW b \in Branch
      PROVE  /\ refs[b] \in {asked.refs[b], new[b]}
             /\ \A e \in 1..(script - 1) \cup {script} :
                    e \notin missed' /\ b \in PlacedBy(job, e) => refs[b] = new[b]
             /\ refs[b] # asked.refs[b] =>
                    \E e \in 1..(script - 1) \cup {script} : b \in PlacedBy(job, e)
  BY <1>2 DEF WhereInv
<1>6. refs = [b \in Branch |-> refs[b]]
  BY DEF WhereInv
<1> QED
  BY <1>3, <1>4, <1>5, <1>6 DEF WhereInv

\* A branch moves, or goes: where the plan wants it and after those below it, or it
\* is where it is already.
LEMMA UpdateIsAMove ==
    ASSUME Carried, BatchInv, MissedInv, WhereInv,
           pc \in Committing, NEW commit, NEW name, Done + 1 \in DOMAIN Updates, Done \in Nat,
           Updates[Done + 1] = <<commit, name>>,
           refs' = [refs EXCEPT ![name] = commit],
           UNCHANGED <<job, script, missed>>,
           Updates' = Updates, Done' = Done + 1
    PROVE  WhereInv' /\ [Stacks!Next]_<<job.goal, refs>>
<1> DEFINE new == job.goal.new
           k == script
<1>1. k \in DOMAIN Scripts /\ k \notin missed /\ k \in Nat
  BY DEF BatchInv
<1>2. name \in Branch
  <2>1. Updates \in Seq((Commit \cup {NoCommit}) \X Branch)
    BY <1>1, UpdatesAre DEF Updates
  <2>2. Updates[Done + 1] \in (Commit \cup {NoCommit}) \X Branch
    BY <2>1
  <2> QED
    BY <2>2
<1>3. UpdateIsSound(job, k, Done + 1)
  <2>1. ScriptIsSound(job, k)
    BY <1>1, CarriedIsTyped
  <2> QED
    BY <2>1 DEF ScriptIsSound, Updates
<1>4. refs' = [b \in Branch |-> IF b = name THEN commit ELSE refs[b]]
  BY <1>2 DEF WhereInv
<1>5. job' = job /\ asked' = asked /\ script' = script /\ missed' = missed
  BY DEF asked
<1>6. job.goal.old = asked.refs
  BY DEF Carried, SoundPlan, asked
<1>7. 1..Done' = 1..Done \cup {Done + 1}
  OBVIOUS
<1>8. PutSoFar' = PutSoFar \cup (IF commit = new[name] THEN {name} ELSE {})
  <2>1. PutSoFar' = {b \in Branch : \E h \in 1..Done \cup {Done + 1} :
                                        Updates[h] = <<new[b], b>>}
    BY <1>5, <1>7 DEF PutSoFar
  <2>2. \A b \in Branch : Updates[Done + 1] = <<new[b], b>> <=>
                            b = name /\ commit = new[name]
    OBVIOUS
  <2> QED
    BY <1>2, <2>1, <2>2 DEF PutSoFar
<1>9. CASE /\ commit = new[name]
           /\ \A b \in job.goal.below[name] :
                \/ new[b] = asked.refs[b]
                \/ \E h \in 1..Done : Updates[h] = <<new[b], b>>
                \/ \E e \in 1..(k - 1) : DependsOn(Scripts, k, e) /\ b \in PlacedBy(job, e)
  <2>1. WhereInv'
    <3>1. ASSUME NEW b \in Branch
          PROVE  /\ refs'[b] \in {asked.refs[b], new[b]}
                 /\ b \in PutSoFar' => refs'[b] = new[b]
                 /\ \A e \in 1..(k - 1) :
                        e \notin missed /\ b \in PlacedBy(job, e) => refs'[b] = new[b]
                 /\ refs'[b] # asked.refs[b] =>
                        b \in PutSoFar' \/ \E e \in 1..(k - 1) : b \in PlacedBy(job, e)
      BY <1>4, <1>8, <1>9 DEF WhereInv
    <3> QED
      BY <1>4, <1>5, <3>1 DEF WhereInv
  <2>2. CASE refs[name] = new[name]
    <3>1. refs' = refs
      BY <1>2, <1>4, <1>9, <2>2 DEF WhereInv
    <3> QED
      BY <1>5, <2>1, <3>1
  <2>3. CASE refs[name] # new[name]
    <3>1. refs[name] = job.goal.old[name]
      BY <1>2, <1>6, <2>3 DEF WhereInv
    <3>2. ASSUME NEW b \in job.goal.below[name] PROVE refs[b] = new[b]
      <4>1. b \in Branch
        BY <1>2 DEF Carried, SoundPlan, Goals
      <4>2. CASE new[b] = asked.refs[b]
        BY <4>1, <4>2 DEF WhereInv
      <4>3. CASE \E h \in 1..Done : Updates[h] = <<new[b], b>>
        BY <4>1, <4>3 DEF WhereInv, PutSoFar
      <4>4. CASE \E e \in 1..(k - 1) : DependsOn(Scripts, k, e) /\ b \in PlacedBy(job, e)
        <5>1. PICK e \in 1..(k - 1) : DependsOn(Scripts, k, e) /\ b \in PlacedBy(job, e)
          BY <4>4
        <5>2. e \notin missed
          <6>1. \A i \in DOMAIN Scripts : Scripts[i].above \in missed => i \in missed
            BY DEF MissedInv
          <6> QED
            BY <1>1, <5>1, <6>1, CarriedIsTyped, DependsDown
        <5> QED
          BY <4>1, <5>1, <5>2 DEF WhereInv
      <4> QED
        BY <1>9, <4>2, <4>3, <4>4
    <3>3. Stacks!Move(name)
      BY <1>5, <1>9, <3>1, <3>2 DEF Stacks!Move
    <3> QED
      BY <1>2, <2>1, <3>3 DEF Stacks!Next
  <2> QED
    BY <2>2, <2>3
<1>10. CASE /\ commit = asked.refs[name]
            /\ ~\E h \in 1..Done : Updates[h] = <<new[name], name>>
            /\ \A e \in 1..(k - 1) : name \notin PlacedBy(job, e)
  <2>1. refs[name] = asked.refs[name]
    BY <1>2, <1>10 DEF WhereInv, PutSoFar
  <2>2. refs' = refs
    BY <1>2, <1>4, <1>10, <2>1 DEF WhereInv
  <2>3. ASSUME NEW b \in Branch
        PROVE  /\ b \in PutSoFar' => refs[b] = new[b]
               /\ b \in PutSoFar => b \in PutSoFar'
    BY <1>8, <1>10, <2>1 DEF WhereInv
  <2>4. WhereInv'
    BY <1>5, <2>2, <2>3 DEF WhereInv
  <2> QED
    BY <1>5, <2>2, <2>4
<1>11. (Done + 1) - 1 = Done /\ Updates[Done + 1][1] = commit /\ Updates[Done + 1][2] = name
  OBVIOUS
<1>12. \/ /\ commit = new[name]
          /\ \A b \in job.goal.below[name] :
                \/ new[b] = asked.refs[b]
                \/ \E h \in 1..Done : Updates[h] = <<new[b], b>>
                \/ \E e \in 1..(k - 1) : DependsOn(Scripts, k, e) /\ b \in PlacedBy(job, e)
       \/ /\ commit = asked.refs[name]
          /\ ~\E h \in 1..Done : Updates[h] = <<new[name], name>>
          /\ \A e \in 1..(k - 1) : name \notin PlacedBy(job, e)
  BY <1>3, <1>11 DEF UpdateIsSound, Updates, asked, Scripts
<1> QED
  BY <1>9, <1>10, <1>12

-----------------------------------------------------------------------------
(***************************************************************************)
(* One lemma per kind of step.                                             *)
(***************************************************************************)
FaultsInv == faults \in Nat /\ (faults = 0 => missed = {})

MovesInv == MarksInv /\ MissedInv /\ BatchInv /\ WhereInv

\* A script that fails takes those with it that depend on it.
LEMMA AbandonMisses ==
    ASSUME Carried, MissedInv, FaultsInv, script \in DOMAIN Scripts, Fault, Abandon
    PROVE  MissedInv' /\ missed \subseteq missed' /\ script \in missed'
<1>1. IsTree(Scripts) /\ DOMAIN Scripts = 1..Len(Scripts)
  BY CarriedIsTyped
<1>2. /\ missed' = DependentsOf(missed \cup {script})
      /\ job' = job /\ Scripts' = Scripts /\ faults' = faults + 1
  BY DEF Abandon, Fault, Scripts
<1>3. \A i \in DOMAIN Scripts : \A j : DependsOn(Scripts, i, j) <=>
             i = j \/ (Scripts[i].above # 0 /\ DependsOn(Scripts, Scripts[i].above, j))
  BY <1>1, DependsStepByStep
<1>4. missed' \subseteq DOMAIN Scripts
  BY <1>2 DEF DependentsOf
<1>5. missed \subseteq missed' /\ script \in missed'
  BY <1>2, <1>3 DEF DependentsOf, MissedInv
<1>6. ASSUME NEW i \in DOMAIN Scripts, Scripts[i].above \in missed' PROVE i \in missed'
  <2>1. PICK j \in missed \cup {script} : DependsOn(Scripts, Scripts[i].above, j)
    BY <1>2, <1>6 DEF DependentsOf
  <2>2. Scripts[i].above # 0
    BY <1>1, <1>4, <1>6
  <2>3. DependsOn(Scripts, i, j)
    BY <1>3, <2>1, <2>2
  <2> QED
    BY <1>2, <2>3 DEF DependentsOf
<1>7. faults' >= 2 \/ \E bad \in missed' : missed' = DependentsOf({bad})
  <2>1. CASE faults = 0
    BY <1>2, <1>5, <2>1 DEF FaultsInv
  <2>2. CASE faults # 0
    BY <1>2, <2>2 DEF FaultsInv
  <2> QED
    BY <2>1, <2>2
<1> QED
  BY <1>2, <1>4, <1>5, <1>6, <1>7 DEF MissedInv, DependentsOf

\* The scripts that are missed stay so.
LEMMA MissedStays ==
    ASSUME MissedInv, UNCHANGED <<job, missed>>,
           faults \in Nat, faults' \in {faults, faults + 1}
    PROVE  MissedInv'
<1>1. Scripts' = Scripts /\ missed' = missed /\ faults' >= faults /\ faults' \in Nat
  BY DEF Scripts
<1> QED
  BY <1>1 DEF MissedInv, DependentsOf

\* The script has been staged, or left out: the marks of the others stay.
LEMMA MarksPast ==
    ASSUME Carried, MarksInv, UNCHANGED job, missed \subseteq missed', script \in Nat \ {0},
           Ran = script - 1, Ran' = script,
           \A m \in DOMAIN marks \ MarkedIn(script) :
                m \in DOMAIN marks' /\ marks'[m] = marks[m],
           script \in missed' \/ \A m \in MarkedIn(script) :
                m \in DOMAIN marks' /\ marks'[m] = Played(job)[script].marks[m]
    PROVE  MarksInv'
<1>1. \A e : MarkedIn(e)' = MarkedIn(e)
  BY DEF MarkedIn, Scripts
<1> SUFFICES ASSUME NEW e \in 1..script, e \notin missed', NEW m \in MarkedIn(e),
                    \A f \in (e + 1)..script : m \notin MarkedIn(f)
             PROVE  m \in DOMAIN marks' /\ marks'[m] = Played(job)[e].marks[m]
  BY <1>1 DEF MarksInv
<1>2. CASE e = script
  BY <1>2
<1>3. CASE e # script
  <2>1. e \in 1..Ran /\ e \notin missed /\ m \notin MarkedIn(script)
    BY <1>3
  <2>2. \A f \in (e + 1)..Ran : m \notin MarkedIn(f)
    OBVIOUS
  <2>3. m \in DOMAIN marks /\ marks[m] = Played(job)[e].marks[m]
    BY <2>1, <2>2 DEF MarksInv
  <2> QED
    BY <2>1, <2>3
<1> QED
  BY <1>2, <1>3

LEMMA MarksStay ==
    ASSUME MarksInv, UNCHANGED <<job, marks>>, missed \subseteq missed', Ran' = Ran
    PROVE  MarksInv'
BY DEF MarksInv, MarkedIn, Scripts

LEMMA StageKeeps ==
    ASSUME Carried, MovesInv, FaultsInv, StageScript
    PROVE  MovesInv'
<1>1. /\ pc = "script" /\ pc' = "hook" /\ script \in DOMAIN Scripts /\ script \notin missed
      /\ UNCHANGED <<job, script, at, missed, refs, faults>>
  BY CarriedIsTyped DEF StageScript, Running, repository, MovesInv, BatchInv
<1>2. LET st == StagedNow[Len(Scripts[script].commands)]
      IN  /\ marks' = st.marks /\ branches' = st.branches
          /\ delete_branches' = st.deletes
  BY DEF StageScript
<1>3. LET st == StagedNow[Len(Scripts[script].commands)]
          as == Played(job)[script]
      IN  /\ st.branches = as.branches /\ st.deletes = as.deletes
          /\ \A m \in MarkedIn(script) :
               m \in DOMAIN st.marks /\ st.marks[m] = as.marks[m]
  BY <1>1, StagedAsPlayed DEF MovesInv
<1>4. ASSUME NEW m \in DOMAIN marks \ MarkedIn(script)
      PROVE  m \in DOMAIN marks' /\ marks'[m] = marks[m]
  <2>1. Len(Scripts[script].commands) \in 0..Len(Scripts[script].commands)
    <3>1. Scripts[script].commands \in Seq(Command)
      BY <1>1, CarriedIsTyped
    <3> QED
      BY <3>1
  <2> QED
    BY <1>1, <1>2, <2>1, StagedKeepsMarks
<1>5. MarksInv'
  <2>1. Ran = script - 1 /\ Ran' = script
    BY <1>1 DEF Ran, Committing
  <2> QED
    BY <1>1, <1>2, <1>3, <1>4, <2>1, MarksPast DEF MovesInv, BatchInv
<1>6. MissedInv'
  BY <1>1, MissedStays DEF MovesInv, FaultsInv
<1>7. BatchInv'
  BY <1>1, <1>2, <1>3 DEF BatchInv, MovesInv, Committing, Scripts
<1>8. WhereInv'
  <2>1. Done = 0 /\ Done' = 0
    BY <1>1 DEF Done
  <2>2. PutSoFar' = PutSoFar
    BY <1>1, <2>1 DEF PutSoFar
  <2> QED
    BY <1>1, <2>2, WhereGoesOn DEF MovesInv
<1> QED
  BY <1>5, <1>6, <1>7, <1>8 DEF MovesInv

\* A script ends: it is committed, or it or one it depends on has failed.
LEMMA LeaveKeeps ==
    ASSUME Carried, MovesInv, FaultsInv,
           StageFails \/ SkipScript \/ HookVetoes \/ DetachFails \/ UpdateFails \/ Notify
    PROVE  MovesInv'
<1>1. script \in DOMAIN Scripts /\ DOMAIN Scripts = 1..Len(Scripts) /\ script \in Nat \ {0}
  BY CarriedIsTyped DEF StageFails, SkipScript, HookVetoes, DetachFails, UpdateFails,
        Notify, Running, Committing, MovesInv, BatchInv
<1>2. UNCHANGED <<job, at, refs>> /\ script' = script + 1 /\ pc' = "script"
  BY DEF StageFails, SkipScript, HookVetoes, DetachFails, UpdateFails, Notify, Running,
         Abandon, repository
<1>3. branches' = << >> /\ delete_branches' = << >>
  BY DEF StageFails, SkipScript, HookVetoes, DetachFails, UpdateFails, Notify, Running,
         Abandon, staged, MovesInv, BatchInv, Committing
<1>4. MissedInv' /\ missed \subseteq missed' /\ (script \in missed' \/ pc = "notify")
  <2>1. CASE SkipScript \/ Notify
    <3>1. UNCHANGED <<job, missed, faults>> /\ (script \in missed \/ pc = "notify")
      BY <2>1 DEF SkipScript, Notify
    <3> QED
      BY <3>1, MissedStays DEF MovesInv, FaultsInv
  <2>2. CASE StageFails \/ HookVetoes \/ DetachFails \/ UpdateFails
    <3>1. Fault /\ Abandon
      BY <2>2 DEF StageFails, HookVetoes, DetachFails, UpdateFails
    <3> QED
      BY <1>1, <3>1, AbandonMisses DEF MovesInv
  <2> QED
    BY <2>1, <2>2
<1>5. BatchInv'
  BY <1>1, <1>2, <1>3 DEF BatchInv, MovesInv, Committing
<1>6. Ran' = script
  BY <1>1, <1>2 DEF Ran, Committing
<1>7. MarksInv'
  <2>1. CASE HookVetoes \/ DetachFails \/ UpdateFails \/ Notify
    <3>1. marks' = marks /\ pc \in Committing
      BY <2>1 DEF HookVetoes, DetachFails, UpdateFails, Notify, Committing
    <3>2. Ran' = Ran
      BY <1>6, <3>1 DEF Ran
    <3> QED
      BY <1>2, <1>4, <3>1, <3>2, MarksStay DEF MovesInv
  <2>2. CASE StageFails \/ SkipScript
    <3>1. Ran = script - 1 /\ script \in missed'
      BY <1>4, <2>2 DEF StageFails, SkipScript, Running, Ran, Committing
    <3>2. ASSUME NEW m \in DOMAIN marks \ MarkedIn(script)
          PROVE  m \in DOMAIN marks' /\ marks'[m] = marks[m]
      <4>1. CASE SkipScript
        BY <4>1 DEF SkipScript, staged
      <4>2. CASE StageFails
        <5>1. PICK i \in DOMAIN Scripts[script].commands : marks' = StagedNow[i - 1].marks
          BY <4>2 DEF StageFails
        <5>2. Scripts[script].commands \in Seq(Command)
          BY <1>1, CarriedIsTyped
        <5>3. i - 1 \in 0..Len(Scripts[script].commands)
          BY <5>2
        <5> QED
          BY <1>1, <5>1, <5>3, StagedKeepsMarks
      <4> QED
        BY <2>2, <4>1, <4>2
    <3> QED
      BY <1>1, <1>2, <1>4, <1>6, <3>1, <3>2, MarksPast DEF MovesInv
  <2> QED
    BY <2>1, <2>2
<1>8. WhereInv'
  <2>1. PutSoFar' = {}
    BY <1>2 DEF PutSoFar, Done
  <2> QED
    BY <1>2, <1>4, <2>1, WhereLeaves DEF MovesInv
<1> QED
  BY <1>4, <1>5, <1>7, <1>8 DEF MovesInv

\* The batch goes on: the hook accepted it, HEAD is detached, all are updated.
LEMMA BatchGoesOn ==
    ASSUME Carried, MovesInv, FaultsInv, HookAccepts \/ Detach \/ EndMoves \/ EndDeletes
    PROVE  MovesInv'
<1>1. /\ pc \in Committing /\ pc' \in Committing
      /\ UNCHANGED <<job, script, marks, branches, delete_branches, missed, refs, faults>>
  BY DEF HookAccepts, Detach, EndMoves, EndDeletes, Committing, staged, repository
<1>2. /\ script \in DOMAIN Scripts /\ script \in Nat \ {0} /\ script \notin missed
      /\ branches = Played(job)[script].branches
      /\ delete_branches = Played(job)[script].deletes
      /\ at \in Nat \ {0}
      /\ pc = "branch" => at <= Len(branches) + 1
      /\ pc = "delete" => at <= Len(delete_branches) + 1
  BY <1>1 DEF MovesInv, BatchInv
<1>3. /\ Len(branches) \in Nat /\ Len(delete_branches) \in Nat
      /\ Len(Updates) = Len(branches) + Len(delete_branches)
  <2>1. /\ branches \in Seq(Commit \X Branch) /\ delete_branches \in Seq(Branch)
        /\ Len(Updates) = Len(branches) + Len(delete_branches)
    BY <1>2, UpdatesAre DEF Updates
  <2> QED
    BY <2>1
<1>4. MarksInv'
  BY <1>1, MarksStay DEF Ran, MovesInv
<1>5. MissedInv'
  BY <1>1, MissedStays DEF MovesInv, FaultsInv
<1>6. BatchInv' /\ Done' = Done
  <2>1. Updates' = Updates /\ Scripts' = Scripts
    BY <1>1 DEF Updates, Scripts
  <2>2. CASE HookAccepts
    <3>1. /\ pc = "hook" /\ at' = at
          /\ pc' = IF branches = << >> /\ delete_branches = << >> THEN "notify" ELSE "detach"
      BY <2>2 DEF HookAccepts
    <3>2. branches = << >> /\ delete_branches = << >> => Len(Updates) = 0
      BY <1>3
    <3> QED
      BY <1>1, <1>2, <2>1, <3>1, <3>2 DEF BatchInv, Done, Committing
  <2>3. CASE Detach
    BY <1>1, <1>2, <1>3, <2>1, <2>3 DEF Detach, BatchInv, Done, Committing
  <2>4. CASE EndMoves
    BY <1>1, <1>2, <1>3, <2>1, <2>4 DEF EndMoves, BatchInv, Done, Committing
  <2>5. CASE EndDeletes
    BY <1>1, <1>2, <1>3, <2>1, <2>5 DEF EndDeletes, BatchInv, Done, Committing
  <2> QED
    BY <2>2, <2>3, <2>4, <2>5
<1>7. WhereInv'
  <2>1. PutSoFar' = PutSoFar
    BY <1>1, <1>6 DEF PutSoFar, Updates
  <2> QED
    BY <1>1, <2>1, WhereGoesOn DEF MovesInv
<1> QED
  BY <1>4, <1>5, <1>6, <1>7 DEF MovesInv

\* A branch is put in its place, or deleted.
LEMMA BranchMoves ==
    ASSUME Carried, MovesInv, FaultsInv, MoveBranch \/ DeleteBranch
    PROVE  MovesInv' /\ [Stacks!Next]_<<job.goal, refs>>
<1>1. /\ pc \in {"branch", "delete"} /\ pc' = pc /\ at' = at + 1
      /\ UNCHANGED <<job, script, marks, branches, delete_branches, missed, faults>>
  BY DEF MoveBranch, DeleteBranch, staged
<1>2. /\ script \in DOMAIN Scripts /\ script \in Nat \ {0} /\ script \notin missed
      /\ branches = Played(job)[script].branches
      /\ delete_branches = Played(job)[script].deletes
      /\ at \in Nat \ {0}
  BY <1>1 DEF MovesInv, BatchInv, Committing
<1>3. /\ branches \in Seq(Commit \X Branch) /\ delete_branches \in Seq(Branch)
      /\ Updates \in Seq((Commit \cup {NoCommit}) \X Branch)
      /\ Len(Updates) = Len(branches) + Len(delete_branches)
      /\ \A h \in 1..Len(branches) : Updates[h] = branches[h]
      /\ \A h \in 1..Len(delete_branches) :
            Updates[Len(branches) + h] = <<NoCommit, delete_branches[h]>>
  BY <1>2, UpdatesAre DEF Updates
<1>4. Len(branches) \in Nat /\ Len(delete_branches) \in Nat /\ Len(Updates) \in Nat
  BY <1>3
<1>5. DOMAIN Updates = 1..Len(Updates)
  <2> DEFINE P == (Commit \cup {NoCommit}) \X Branch
  <2>1. Updates \in Seq(P)
    BY <1>3
  <2> HIDE DEF P
  <2> QED
    BY <2>1
<1>6. PICK commit, name :
        /\ Done \in Nat /\ Done + 1 \in DOMAIN Updates /\ Done' = Done + 1
        /\ Updates[Done + 1] = <<commit, name>>
        /\ refs' = [refs EXCEPT ![name] = commit]
  <2>1. CASE MoveBranch
    <3>1. pc = "branch" /\ at <= Len(branches)
          /\ refs' = [refs EXCEPT ![branches[at][2]] = branches[at][1]]
      BY <2>1 DEF MoveBranch, Updated, Carried
    <3>2. Done = at - 1 /\ Done' = at
      BY <1>1, <1>2, <3>1 DEF Done
    <3>3. at \in 1..Len(branches) /\ Done + 1 = at
      BY <1>2, <1>4, <3>1, <3>2
    <3>4. branches[at] = <<branches[at][1], branches[at][2]>>
      <4>1. branches[at] \in Commit \X Branch
        BY <1>3, <3>3
      <4> QED
        BY <4>1
    <3>5. Done \in Nat /\ Done + 1 \in DOMAIN Updates /\ Done' = Done + 1
      BY <1>3, <1>4, <1>5, <3>2, <3>3
    <3>6. Updates[Done + 1] = <<branches[at][1], branches[at][2]>>
      BY <1>3, <3>3, <3>4
    <3> QED
      BY <3>1, <3>5, <3>6
  <2>2. CASE DeleteBranch
    <3>1. pc = "delete" /\ at <= Len(delete_branches)
          /\ refs' = [refs EXCEPT ![delete_branches[at]] = NoCommit]
      BY <2>2 DEF DeleteBranch, Updated, Carried
    <3>2. Done = Len(branches) + (at - 1) /\ Done' = Len(branches) + at
      BY <1>1, <1>2, <3>1 DEF Done
    <3>3. at \in 1..Len(delete_branches) /\ Done + 1 = Len(branches) + at
      BY <1>2, <1>4, <3>1, <3>2
    <3>4. Done \in Nat /\ Done + 1 \in DOMAIN Updates /\ Done' = Done + 1
      <4>1. Len(Updates) = Len(branches) + Len(delete_branches)
        BY <1>3
      <4>2. Len(branches) + at \in 1..Len(Updates)
        BY <1>4, <3>3, <4>1
      <4>3. Done \in Nat /\ Done' = Done + 1
        BY <1>4, <3>2, <3>3
      <4> QED
        BY <1>5, <3>3, <4>2, <4>3
    <3>5. Updates[Done + 1] = <<NoCommit, delete_branches[at]>>
      BY <1>3, <3>3
    <3> QED
      BY <3>1, <3>4, <3>5
  <2> QED
    BY <2>1, <2>2
<1>7. MarksInv'
  <2>1. Ran' = Ran
    BY <1>1 DEF Ran
  <2> QED
    BY <1>1, <2>1, MarksStay DEF MovesInv
<1>8. MissedInv'
  BY <1>1, MissedStays DEF MovesInv, FaultsInv
<1>9. BatchInv'
  <2>1. /\ pc = "branch" => at <= Len(branches)
        /\ pc = "delete" => at <= Len(delete_branches)
    BY DEF MoveBranch, DeleteBranch
  <2> QED
    BY <1>1, <1>2, <1>4, <2>1 DEF BatchInv, Committing, Scripts
<1>10. WhereInv' /\ [Stacks!Next]_<<job.goal, refs>>
  <2>1. pc \in Committing /\ Updates' = Updates
    BY <1>1 DEF Committing, Updates
  <2> QED
    BY <1>1, <1>6, <2>1, UpdateIsAMove DEF MovesInv
<1> QED
  BY <1>7, <1>8, <1>9, <1>10 DEF MovesInv

\* The steps before and after the scripts.
Aside ==
    \/ Stash \/ Check \/ Refuse \/ BackUp \/ BackUpFails
    \/ Close \/ Switch \/ SwitchFails \/ Checkout \/ CheckoutFails
    \/ PlanPush \/ Push \/ PushFails \/ EndPush \/ Pop
    \/ Ended \/ UNCHANGED vars

LEMMA AsideTouchesNothing ==
    ASSUME Aside
    PROVE  /\ UNCHANGED <<job, script, at, marks, branches, delete_branches, missed, refs>>
           /\ faults' \in {faults, faults + 1}
           /\ pc' = pc \/ {pc, pc'} \cap Committing = {}
<1>1. CASE Stash \/ Check \/ Refuse \/ BackUp \/ BackUpFails
  BY <1>1 DEF Stash, Check, Refuse, BackUp, BackUpFails, PopTo, Stop, Fault, staged,
              repository, Committing
<1>2. CASE Close \/ Switch \/ SwitchFails \/ Checkout \/ CheckoutFails
  BY <1>2 DEF Close, Switch, SwitchFails, Checkout, CheckoutFails, Closing, Stop, Fault,
              staged, repository, Committing
<1>3. CASE PlanPush \/ Push \/ PushFails \/ EndPush \/ Pop
  BY <1>3 DEF PlanPush, Push, PushFails, EndPush, Pop, PopTo, Fault, staged, repository,
              Committing
<1>4. CASE Ended \/ UNCHANGED vars
  BY <1>4 DEF Ended, vars, staged, repository
<1> QED
  BY <1>1, <1>2, <1>3, <1>4 DEF Aside

LEMMA AsideKeeps ==
    ASSUME Carried, MovesInv, FaultsInv, Aside
    PROVE  MovesInv'
<1>1. /\ UNCHANGED <<job, script, at, marks, branches, delete_branches, missed, refs>>
      /\ faults' \in {faults, faults + 1}
      /\ pc' = pc \/ {pc, pc'} \cap Committing = {}
  BY AsideTouchesNothing
<1>2. MarksInv'
  BY <1>1, MarksStay DEF Ran, MovesInv
<1>3. MissedInv'
  BY <1>1, MissedStays DEF MovesInv, FaultsInv
<1>4. BatchInv'
  BY <1>1 DEF BatchInv, MovesInv, Committing, Scripts
<1>5. WhereInv'
  <2>1. Updates' = Updates
    BY <1>1 DEF Updates
  <2>2. Done' = Done
    BY <1>1, <2>1 DEF Done, Committing
  <2>3. PutSoFar' = PutSoFar
    BY <1>1, <2>1, <2>2 DEF PutSoFar
  <2> QED
    BY <1>1, <2>3, WhereGoesOn DEF MovesInv
<1> QED
  BY <1>2, <1>3, <1>4, <1>5 DEF MovesInv

LEMMA StepKeepsMoves ==
    ASSUME Carried, MovesInv, FaultsInv, [Next]_vars
    PROVE  MovesInv'
<1>1. CASE StageScript
  BY <1>1, StageKeeps
<1>2. CASE StageFails \/ SkipScript \/ HookVetoes \/ DetachFails \/ UpdateFails \/ Notify
  BY <1>2, LeaveKeeps
<1>3. CASE HookAccepts \/ Detach \/ EndMoves \/ EndDeletes
  BY <1>3, BatchGoesOn
<1>4. CASE MoveBranch \/ DeleteBranch
  BY <1>4, BranchMoves
<1>5. CASE Aside
  BY <1>5, AsideKeeps
<1> QED
  BY <1>1, <1>2, <1>3, <1>4, <1>5 DEF Next, Aside

LEMMA InitMoves ==
    ASSUME Init, Carried
    PROVE  MovesInv
<1>1. /\ script = 1 /\ at = 1 /\ pc \in {"stash", "push"} /\ missed = {}
      /\ branches = << >> /\ delete_branches = << >> /\ refs = asked.refs
  BY DEF Init, Begins, asked
<1>2. MarksInv
  <2>1. Ran = 0
    BY <1>1 DEF Ran, Committing
  <2> QED
    BY <2>1 DEF MarksInv
<1>3. MissedInv
  <2>1. DOMAIN Scripts = 1..Len(Scripts)
    BY CarriedIsTyped
  <2> QED
    BY <1>1, <2>1 DEF MissedInv
<1>4. BatchInv
  BY <1>1 DEF BatchInv, Committing
<1>5. WhereInv
  <2>1. PutSoFar = {}
    BY <1>1 DEF PutSoFar, Done
  <2>2. refs \in [Branch -> Commit \cup {NoCommit}]
    BY <1>1, JobsAreSound DEF Carried, asked
  <2>3. refs = [b \in Branch |-> refs[b]]
    BY <2>2
  <2> QED
    BY <1>1, <2>1, <2>3 DEF WhereInv
<1> QED
  BY <1>2, <1>3, <1>4, <1>5 DEF MovesInv

-----------------------------------------------------------------------------
(***************************************************************************)
(* No script is missed unless something has failed.                        *)
(***************************************************************************)
LEMMA FaultsNext == FaultsInv /\ [Next]_vars => FaultsInv'
<1> SUFFICES ASSUME FaultsInv, [Next]_vars PROVE FaultsInv'
  OBVIOUS
<1>1. CASE Aside
  BY <1>1, AsideTouchesNothing DEF FaultsInv
<1>2. CASE StageFails \/ HookVetoes \/ DetachFails \/ UpdateFails
  BY <1>2 DEF StageFails, HookVetoes, DetachFails, UpdateFails, Fault, FaultsInv
<1>3. CASE StageScript \/ SkipScript \/ Notify \/ HookAccepts \/ Detach \/ EndMoves
           \/ EndDeletes \/ MoveBranch \/ DeleteBranch
  BY <1>3 DEF StageScript, SkipScript, Notify, HookAccepts, Detach, EndMoves,
              EndDeletes, MoveBranch, DeleteBranch, FaultsInv
<1> QED
  BY <1>1, <1>2, <1>3 DEF Next, Aside

-----------------------------------------------------------------------------
(***************************************************************************)
(* The end of the command.                                                 *)
(***************************************************************************)
Ending == {"checkout", "push", "pushing", "pop", "done"}

\* All scripts are over then, and HEAD is where it was or on the branch to restore.
EndInv ==
    /\ ~detached => head = asked.head
    /\ detached => ~dry_run
    /\ pc \in Ending => /\ detached => head.on = job.restore
                        /\ ~Restacks(asked) \/ script > Len(Scripts)
    /\ ~Restacks(asked) => /\ refs = asked.refs /\ missed = {}
                           /\ pc \in {"push", "pushing", "pop"} \cup Terminal

LEMMA EndInit == Init => EndInv
BY DEF Init, Begins, EndInv, Ending, asked

\* A step before the end, or one that stops there.
LEMMA MiddleKeepsEnd ==
    ASSUME EndInv, UNCHANGED <<job, detached, head>>,
           pc \notin Ending \cup Terminal, pc' \notin Ending
    PROVE  EndInv'
BY DEF EndInv, Ending, Terminal, asked, dry_run

\* A step after the scripts.
LEMMA LateKeepsEnd ==
    ASSUME EndInv, UNCHANGED <<job, script, missed, detached, refs, head>>,
           pc \in Ending, pc' \in {"push", "pushing", "pop"} \cup Terminal
    PROVE  EndInv'
BY DEF EndInv, Ending, Terminal, asked, dry_run, Scripts

LEMMA EndNext == EndInv /\ [Next]_vars => EndInv'
<1> SUFFICES ASSUME EndInv, [Next]_vars PROVE EndInv'
  OBVIOUS
<1>1. CASE Stash \/ Check \/ Refuse \/ BackUp \/ BackUpFails
  <2>1. UNCHANGED <<job, detached, head>>
    BY <1>1 DEF Stash, Check, Refuse, BackUp, BackUpFails, Stop, repository
  <2>2. pc \in {"stash", "check", "backup"}
        /\ pc' \in {"check", "backup", "script", "refused", "unpopped", "error"}
    BY <1>1 DEF Stash, Check, Refuse, BackUp, BackUpFails, PopTo, Stop
  <2> QED
    BY <2>1, <2>2, MiddleKeepsEnd DEF Ending, Terminal
<1>2. CASE StageScript \/ StageFails \/ SkipScript \/ Notify
  <2>1. UNCHANGED <<job, detached, head>>
    BY <1>2 DEF StageScript, StageFails, SkipScript, Notify, Abandon, repository
  <2>2. pc \in {"script", "notify"} /\ pc' \in {"script", "hook"}
    BY <1>2 DEF StageScript, StageFails, SkipScript, Notify, Abandon, Running
  <2> QED
    BY <2>1, <2>2, MiddleKeepsEnd DEF Ending, Terminal
<1>3. CASE HookAccepts \/ HookVetoes \/ DetachFails \/ UpdateFails \/ EndMoves \/ EndDeletes
  <2>1. UNCHANGED <<job, detached, head>>
    BY <1>3 DEF HookAccepts, HookVetoes, DetachFails, UpdateFails, EndMoves, EndDeletes,
                Abandon, repository
  <2>2. pc \in Committing /\ pc' \in Committing \cup {"script"}
    BY <1>3 DEF HookAccepts, HookVetoes, DetachFails, UpdateFails, EndMoves, EndDeletes,
                Abandon, Committing
  <2> QED
    BY <2>1, <2>2, MiddleKeepsEnd DEF Ending, Terminal, Committing
<1>4. CASE MoveBranch \/ DeleteBranch
  <2>1. UNCHANGED <<job, detached, head, pc>> /\ pc \in {"branch", "delete"}
    BY <1>4 DEF MoveBranch, DeleteBranch
  <2> QED
    BY <2>1, MiddleKeepsEnd DEF Ending, Terminal
<1>5. CASE Detach
  <2>1. pc = "detach" /\ pc' = "branch" /\ job' = job
    BY <1>5 DEF Detach
  <2>2. CASE dry_run
    BY <1>5, <2>1, <2>2, MiddleKeepsEnd DEF Detach, Ending, Terminal
  <2>3. CASE ~dry_run
    <3>1. detached'
      BY <1>5, <2>3 DEF Detach
    <3> QED
      BY <2>1, <2>3, <3>1 DEF EndInv, Ending, Terminal, asked, dry_run
  <2> QED
    BY <2>2, <2>3
<1>6. CASE Close
  <2>1. /\ pc = "script" /\ pc' = "push" /\ script > Len(Scripts) /\ (dry_run \/ ~detached)
        /\ UNCHANGED <<job, script, missed, detached, refs, head>>
    BY <1>6 DEF Close, Closing, MustSwitch, repository
  <2> QED
    BY <2>1 DEF EndInv, Ending, Terminal, asked, dry_run, Scripts
<1>7. CASE Switch
  <2>1. /\ pc = "script" /\ pc' = "checkout" /\ script > Len(Scripts) /\ detached
        /\ head'.on = job.restore
        /\ UNCHANGED <<job, script, missed, detached, refs>>
    BY <1>7 DEF Switch, Closing, MustSwitch
  <2> QED
    BY <2>1 DEF EndInv, Ending, Terminal, asked, dry_run, Scripts
<1>8. CASE SwitchFails
  <2>1. pc = "script" /\ pc' = "error" /\ UNCHANGED <<job, detached, head>>
    BY <1>8 DEF SwitchFails, Closing, Stop, repository
  <2> QED
    BY <2>1, MiddleKeepsEnd DEF Ending, Terminal
<1>9. CASE Checkout \/ CheckoutFails \/ PlanPush \/ Push \/ PushFails \/ EndPush \/ Pop
  <2>1. UNCHANGED <<job, script, missed, detached, refs, head>>
    BY <1>9 DEF Checkout, CheckoutFails, PlanPush, Push, PushFails, EndPush, Pop, Stop,
                repository
  <2>2. pc \in Ending /\ pc' \in {"push", "pushing", "pop"} \cup Terminal
    BY <1>9 DEF Checkout, CheckoutFails, PlanPush, Push, PushFails, EndPush, Pop, PopTo,
                Stop, Ending, Terminal
  <2> QED
    BY <2>1, <2>2, LateKeepsEnd
<1>10. CASE Ended \/ UNCHANGED vars
  BY <1>10 DEF Ended, vars, repository, EndInv, Ending, Terminal, asked, dry_run, Scripts
<1> QED
  BY <1>1, <1>2, <1>3, <1>4, <1>5, <1>6, <1>7, <1>8, <1>9, <1>10 DEF Next

-----------------------------------------------------------------------------
(***************************************************************************)
(* The branches get where the graphs put them.                             *)
(***************************************************************************)
PlannedInv ==
    /\ job \in Jobs /\ SoundPlan(job)
    /\ FaultsInv /\ EndInv /\ DryInv
    /\ ~dry_run => MovesInv

LEMMA InitIsPlanned == Init /\ SoundPlan(job) => PlannedInv
<1> SUFFICES ASSUME Init, SoundPlan(job) PROVE PlannedInv
  OBVIOUS
<1>1. job \in Jobs /\ FaultsInv
  BY DEF Init, Begins, FaultsInv
<1>2. ~dry_run => MovesInv
  BY <1>1, InitMoves DEF Carried
<1> QED
  BY <1>1, <1>2, EndInit, DryInit DEF PlannedInv

LEMMA PlannedStays == PlannedInv /\ [Next]_vars => PlannedInv'
<1> SUFFICES ASSUME PlannedInv, [Next]_vars PROVE PlannedInv'
  OBVIOUS
<1>1. job' = job
  BY JobStays
<1>2. dry_run' = dry_run /\ SoundPlan(job)' /\ job' \in Jobs
  BY <1>1 DEF dry_run, asked, PlannedInv
<1>3. ~dry_run => MovesInv'
  BY StepKeepsMoves DEF PlannedInv, Carried
<1> QED
  BY <1>2, <1>3, FaultsNext, EndNext, DryNext DEF PlannedInv

LEMMA StepIsAMove == PlannedInv /\ [Next]_vars => [Stacks!Next]_<<job.goal, refs>>
<1> SUFFICES ASSUME PlannedInv, [Next]_vars PROVE [Stacks!Next]_<<job.goal, refs>>
  OBVIOUS
<1>1. job' = job
  BY JobStays
<1>2. CASE dry_run
  <2>1. refs = asked.refs /\ DryInv'
    BY <1>2, DryNext DEF PlannedInv, DryInv
  <2>2. refs' = asked.refs
    BY <1>1, <1>2, <2>1 DEF DryInv, asked, dry_run
  <2> QED
    BY <1>1, <2>1, <2>2
<1>3. CASE MoveBranch \/ DeleteBranch
  <2>1. CASE ~dry_run
    BY <1>3, <2>1, BranchMoves DEF PlannedInv, Carried
  <2> QED
    BY <1>2, <2>1
<1>4. CASE ~(MoveBranch \/ DeleteBranch)
  <2>1. CASE Aside
    BY <1>1, <2>1, AsideTouchesNothing
  <2>2. CASE ~Aside
    <3>1. \/ StageScript \/ StageFails \/ SkipScript \/ HookVetoes \/ DetachFails
          \/ UpdateFails \/ Notify \/ HookAccepts \/ Detach \/ EndMoves \/ EndDeletes
      BY <1>4, <2>2 DEF Next, Aside
    <3>2. refs' = refs
      BY <3>1 DEF StageScript, StageFails, SkipScript, HookVetoes, DetachFails,
            UpdateFails, Notify, HookAccepts, Detach, EndMoves, EndDeletes, Abandon,
            repository
    <3> QED
      BY <1>1, <3>2
  <2> QED
    BY <2>1, <2>2
<1> QED
  BY <1>2, <1>3, <1>4

\* However many stacks are restacked, whatever git fails at, whichever scripts
\* are left out for it and wherever the command is killed: a branch is where it
\* was or where the last stack that moves it puts it, it gets there in one step,
\* and after the branches below it.
THEOREM MovesAreUpwards == Spec /\ SoundPlan(job) => StacksMoveUpwards
<1>1. Init /\ SoundPlan(job) => PlannedInv
  BY InitIsPlanned
<1>2. PlannedInv /\ [Next]_vars => PlannedInv'
  BY PlannedStays
<1>3. Init /\ SoundPlan(job) => Stacks!Init
  <2>1. Init => job.goal \in Goal
    BY JobsAreSound DEF Init, Begins
  <2> QED
    BY <2>1 DEF Init, Begins, SoundPlan, Stacks!Init
<1>4. PlannedInv /\ [Next]_vars => [Stacks!Next]_<<job.goal, refs>>
  BY StepIsAMove
<1> QED
  BY <1>1, <1>2, <1>3, <1>4, PTL DEF Spec, StacksMoveUpwards, Stacks!Spec

\* A branch is where it was or where the graph puts it.
LEMMA NowhereElse ==
    ASSUME PlannedInv, NEW b \in Branch
    PROVE  refs[b] \in {asked.refs[b], job.goal.new[b]}
<1>1. CASE dry_run
  BY <1>1 DEF PlannedInv, DryInv
<1>2. CASE ~dry_run
  BY <1>2 DEF PlannedInv, MovesInv, WhereInv
<1> QED
  BY <1>1, <1>2

\* In the end, only the updates of missed scripts are not made.
LEMMA OnlyMissedIsLeft ==
    ASSUME PlannedInv, Over, ~dry_run, Restacks(asked), NEW b \in Branch,
           refs[b] # job.goal.new[b]
    PROVE  \E k \in DOMAIN Scripts : k \in missed /\ b \in PlacedBy(job, k)
<1>1. Carried
  BY DEF PlannedInv, Carried
<1>2. /\ DOMAIN Scripts = 1..Len(Scripts) /\ Len(Scripts) \in Nat
      /\ script > Len(Scripts) /\ script \in Nat
  BY <1>1, CarriedIsTyped DEF PlannedInv, EndInv, Over, Ending, MovesInv, BatchInv
<1>3. job.goal.new[b] # asked.refs[b]
  BY NowhereElse
<1>4. PICK k \in DOMAIN Scripts : b \in PlacedBy(job, k)
  BY <1>3 DEF PlannedInv, SoundPlan, Scripts, asked, dry_run
<1>5. k \in 1..(script - 1)
  BY <1>2
<1> QED
  BY <1>4, <1>5 DEF PlannedInv, MovesInv, WhereInv

LEMMA CleanRunIsRestacked == PlannedInv => CleanRunRestacks
<1> SUFFICES ASSUME PlannedInv, CleanlyOver
             PROVE  /\ refs = job.goal.new /\ missed = {}
                    /\ head.on = IF detached THEN job.restore ELSE asked.head.on
  BY DEF CleanRunRestacks
<1>1. missed = {} /\ Over
  BY DEF PlannedInv, FaultsInv, CleanlyOver
<1>2. head.on = IF detached THEN job.restore ELSE asked.head.on
  BY <1>1 DEF PlannedInv, EndInv, Over, Ending
<1>3. job.goal.new \in [Branch -> Commit \cup {NoCommit}]
  BY DEF PlannedInv, SoundPlan, Goals
<1>4. refs = job.goal.new
  <2>1. CASE dry_run \/ ~Restacks(asked)
    <3>1. refs = asked.refs
      BY <2>1 DEF PlannedInv, DryInv, EndInv
    <3> QED
      BY <2>1, <3>1 DEF PlannedInv, SoundPlan, asked, dry_run
  <2>2. CASE ~dry_run /\ Restacks(asked)
    <3>1. \A b \in Branch : refs[b] = job.goal.new[b]
      BY <1>1, <2>2, OnlyMissedIsLeft
    <3>2. refs = [b \in Branch |-> refs[b]]
      BY <2>2 DEF PlannedInv, MovesInv, WhereInv
    <3> QED
      BY <1>3, <3>1, <3>2
  <2> QED
    BY <2>1, <2>2
<1> QED
  BY <1>1, <1>2, <1>4

\* When git fails at nothing, every branch gets where the graphs put it, no
\* script is left out, and HEAD is back on its branch or on the one that takes
\* its place.
THEOREM CleanStacksRestack == Spec /\ SoundPlan(job) => []CleanRunRestacks
<1> QED
  BY InitIsPlanned, PlannedStays, CleanRunIsRestacked, PTL DEF Spec

LEMMA PlacedIsAskedFor ==
    ASSUME Carried, NEW k \in DOMAIN Scripts, NEW b \in PlacedBy(job, k)
    PROVE  \E c \in Range(Scripts[k].commands) :
                c.op \in {"create", "delete"} /\ c.name = b
<1> DEFINE commands == Scripts[k].commands
           start == Fresh(Played(job)[k - 1].marks)
           dry == dry_run
           st == Played(job)[k]
<1>1. /\ Len(Scripts) \in Nat /\ DOMAIN Scripts = 1..Len(Scripts)
      /\ commands \in Seq(Command)
  BY CarriedIsTyped
<1>2. st = StageAll(dry, start, commands)[Len(commands)]
  BY <1>1, PlayedStepByStep DEF LastOf, Scripts, dry_run, asked
<1>3. IsStage(start) /\ start.branches = << >> /\ start.deletes = << >>
  BY DEF IsStage, Fresh
<1>4. ~dry
  BY DEF Carried
<1>5. DOMAIN commands = 1..Len(commands) /\ Len(commands) \in 0..Len(commands)
  BY <1>1
<1>6. /\ st.branches \in Seq(Commit \X Branch) /\ st.deletes \in Seq(Branch)
      /\ UpdatesOf(st) \in Seq((Commit \cup {NoCommit}) \X Branch)
      /\ Len(UpdatesOf(st)) = Len(st.branches) + Len(st.deletes)
      /\ \A h \in 1..Len(st.branches) : UpdatesOf(st)[h] = st.branches[h]
      /\ \A h \in 1..Len(st.deletes) :
            UpdatesOf(st)[Len(st.branches) + h] = <<NoCommit, st.deletes[h]>>
  BY UpdatesAre
<1>7. \E h \in DOMAIN UpdatesOf(st) : UpdatesOf(st)[h] = <<job.goal.new[b], b>>
  BY DEF PlacedBy, Range
<1> HIDE DEF commands, start, dry, st
<1>8. /\ \A h \in DOMAIN st.branches : AsksFor(commands, Len(commands), st.branches[h][2])
      /\ \A h \in DOMAIN st.deletes : AsksFor(commands, Len(commands), st.deletes[h])
  BY <1>1, <1>2, <1>3, <1>4, <1>5, UpdatesAreAskedFor
<1>9. AsksFor(commands, Len(commands), b)
  <2> DEFINE B == Len(st.branches)
             D == Len(st.deletes)
             us == UpdatesOf(st)
  <2>1. B \in Nat /\ D \in Nat /\ DOMAIN st.branches = 1..B /\ DOMAIN st.deletes = 1..D
    BY <1>6
  <2> HIDE DEF B, D
  <2>2. DOMAIN us = 1..(B + D)
    <3> DEFINE P == (Commit \cup {NoCommit}) \X Branch
    <3>1. us \in Seq(P) /\ Len(us) = B + D
      BY <1>6 DEF B, D
    <3> HIDE DEF P
    <3> QED
      BY <3>1
  <2>3. PICK h \in 1..(B + D) : us[h] = <<job.goal.new[b], b>>
    BY <1>7, <2>2
  <2>4. CASE h <= B
    <3>1. h \in 1..B
      BY <2>1, <2>3, <2>4
    <3>2. us[h] = st.branches[h]
      BY <1>6, <3>1 DEF B
    <3> QED
      BY <1>8, <2>1, <2>3, <3>1, <3>2
  <2>5. CASE h > B
    <3>1. h - B \in 1..D /\ B + (h - B) = h
      BY <2>1, <2>3, <2>5
    <3>2. us[B + (h - B)] = <<NoCommit, st.deletes[h - B]>>
      BY <1>6, <3>1 DEF B, D
    <3> QED
      BY <1>8, <2>1, <2>3, <3>1, <3>2
  <2> QED
    BY <2>1, <2>4, <2>5
<1> QED
  BY <1>5, <1>9 DEF AsksFor, Range, commands

LEMMA DependentsAreBlocked == PlannedInv => OnlyDependentsAreBlocked
<1> SUFFICES ASSUME PlannedInv, Over, ~dry_run, faults <= 1, refs # job.goal.new
             PROVE  \E failed \in missed : \A b \in Branch :
                        \/ refs[b] = job.goal.new[b]
                        \/ \E i \in DOMAIN Scripts :
                               /\ DependsOn(Scripts, i, failed)
                               /\ \E c \in Range(Scripts[i].commands) :
                                     c.op \in {"create", "delete"} /\ c.name = b
  BY DEF OnlyDependentsAreBlocked
<1>1. Carried
  BY DEF PlannedInv, Carried
<1>2. Restacks(asked)
  BY DEF PlannedInv, EndInv, SoundPlan, asked
<1>3. PICK b0 \in Branch : refs[b0] # job.goal.new[b0]
  <2>1. job.goal.new \in [Branch -> Commit \cup {NoCommit}]
    BY DEF PlannedInv, SoundPlan, Goals
  <2>2. refs = [b \in Branch |-> refs[b]]
    BY DEF PlannedInv, MovesInv, WhereInv
  <2> QED
    BY <2>1, <2>2
<1>4. missed # {}
  BY <1>2, <1>3, OnlyMissedIsLeft
<1>5. PICK failed \in missed : missed = DependentsOf({failed})
  BY <1>4 DEF PlannedInv, MovesInv, MissedInv, FaultsInv
<1>6. ASSUME NEW b \in Branch, refs[b] # job.goal.new[b]
      PROVE  \E i \in DOMAIN Scripts :
                /\ DependsOn(Scripts, i, failed)
                /\ \E c \in Range(Scripts[i].commands) :
                      c.op \in {"create", "delete"} /\ c.name = b
  <2>1. PICK k \in DOMAIN Scripts : k \in missed /\ b \in PlacedBy(job, k)
    BY <1>2, <1>6, OnlyMissedIsLeft
  <2>2. DependsOn(Scripts, k, failed)
    BY <1>5, <2>1 DEF DependentsOf
  <2> QED
    BY <1>1, <2>1, <2>2, PlacedIsAskedFor
<1> QED
  BY <1>5, <1>6

\* After one failure, every branch is where the graphs put it but those that a
\* script updates which depends on the one that failed.
THEOREM OthersAreRestacked == Spec /\ SoundPlan(job) => []OnlyDependentsAreBlocked
<1> QED
  BY InitIsPlanned, PlannedStays, DependentsAreBlocked, PTL DEF Spec

\* What the graphs do to the changes and to the protected branches.
LEMMA GoalStays == SoundGoal(job) /\ [Next]_vars => SoundGoal(job)'
BY JobStays

\* A command that begins with a sound plan.
LEMMA InitIsSound ==
    Init /\ PlanIsSound => SoundPlan(job) /\ SoundGoal(job)
<1> SUFFICES ASSUME Init, PlanIsSound PROVE SoundPlan(job) /\ SoundGoal(job)
  OBVIOUS
<1>1. pc = Begins(asked)
  BY DEF Init, asked
<1> QED
  BY <1>1 DEF PlanIsSound

LEMMA GoalKeepsChanges ==
    ASSUME NEW j, SoundGoal(j)
    PROVE  \A b \in Branch : KeepsChanges(j, j.goal.new, b)
BY DEF SoundGoal

LEMMA NothingLostWhereItWas ==
    ASSUME NEW j, NEW b, NEW where, where[b] = j.asked.refs[b]
    PROVE  KeepsChanges(j, where, b)
BY DEF KeepsChanges

\* Whatever fails and wherever it is killed, a run takes from a branch only what
\* its graphs take: what it shares with a branch that is kept back or, if it has
\* no base, with main, and nothing from any other.
THEOREM StackKeepsChanges == Spec /\ PlanIsSound => []NoChangeIsLost
<1>1. PlannedInv /\ SoundGoal(job) => NoChangeIsLost
  <2> SUFFICES ASSUME PlannedInv, SoundGoal(job), NEW b \in Branch
               PROVE  KeepsChanges(job, refs, b)
    BY DEF NoChangeIsLost
  <2>1. KeepsChanges(job, job.goal.new, b)
    BY GoalKeepsChanges
  <2>2. refs[b] \in {job.asked.refs[b], job.goal.new[b]}
    BY NowhereElse DEF asked
  <2> QED
    BY <2>1, <2>2, NothingLostWhereItWas DEF KeepsChanges
<1> QED
  BY <1>1, InitIsSound, InitIsPlanned, PlannedStays, GoalStays, PTL DEF Spec

\* With no --base and no --onto, a protected branch is at every step where it was,
\* or where its counterpart upstream is or that of one cut at the same commit.
THEOREM ProtectedAreKept == Spec /\ PlanIsSound => []ProtectedBranchesStay
<1>1. PlannedInv /\ SoundGoal(job) => ProtectedBranchesStay
  <2> SUFFICES ASSUME PlannedInv, SoundGoal(job), NoPlaceAsked, NEW b \in asked.protected
               PROVE  refs[b] \in PlacesOf(job, b)
    BY DEF ProtectedBranchesStay
  <2>1. b \in Branch
    BY JobsAreSound DEF PlannedInv, asked
  <2>2. IsNoPlaceAsked(job.asked) /\ b \in job.asked.protected
    BY DEF NoPlaceAsked, asked
  <2>3. job.goal.new[b] \in PlacesOf(job, b)
    BY <2>2 DEF SoundGoal
  <2>4. job.asked.refs[b] \in PlacesOf(job, b)
    BY DEF PlacesOf
  <2>5. refs[b] \in {job.asked.refs[b], job.goal.new[b]}
    BY <2>1, NowhereElse DEF asked
  <2> QED
    BY <2>3, <2>4, <2>5
<1> QED
  BY <1>1, InitIsSound, InitIsPlanned, PlannedStays, GoalStays, PTL DEF Spec
=============================================================================
