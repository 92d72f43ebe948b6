--------------------------- MODULE RestackProofs ---------------------------
(***************************************************************************)
(* The executor does to the branches what the graph asks for: whatever     *)
(* fails, StackMoves; when nothing does, all of it.  For every job whose   *)
(* scripts, played without a failure, would do so.                         *)
(***************************************************************************)
EXTENDS Restack, ExecutorProofs, DataLemmas

(***************************************************************************)
(* What a batch is to build.                                               *)
(***************************************************************************)
IsBuilding(f, start, commands, n) ==
    f = [i \in 1..n |-> IF i = 1 THEN start ELSE Applied(f[i - 1], commands[i - 1])]

LEMMA BuildingAt ==
    ASSUME NEW f, NEW start, NEW commands, NEW n \in Nat,
           IsBuilding(f, start, commands, n), NEW i \in 1..n
    PROVE  f[i] = IF i = 1 THEN start ELSE Applied(f[i - 1], commands[i - 1])
  BY DEF IsBuilding

LEMMA BuildingExists ==
    ASSUME NEW start, NEW commands
    PROVE  \A n \in Nat : \E f : IsBuilding(f, start, commands, n)
  <1> DEFINE S == {n \in Nat : \E f : IsBuilding(f, start, commands, n)}
  <1>1. 0 \in S
    <2> DEFINE f == [i \in 1..0 |-> start]
    <2>1. IsBuilding(f, start, commands, 0)
      BY DEF IsBuilding
    <2> QED
      BY <2>1
  <1>2. ASSUME NEW n \in Nat, n \in S PROVE n + 1 \in S
    <2>1. PICK f : IsBuilding(f, start, commands, n)
      BY <1>2
    <2> DEFINE g == [i \in 1..(n + 1) |->
                        IF i = 1 THEN start ELSE Applied(f[i - 1], commands[i - 1])]
    <2>2. ASSUME NEW i \in 1..n PROVE g[i] = f[i]
      <3>1. g[i] = IF i = 1 THEN start ELSE Applied(f[i - 1], commands[i - 1])
        OBVIOUS
      <3> HIDE DEF g
      <3> QED
        BY <2>1, <3>1, BuildingAt
    <2>3. ASSUME NEW i \in 1..(n + 1), i # 1 PROVE g[i - 1] = f[i - 1]
      <3>1. i - 1 \in 1..n
        BY <2>3
      <3> HIDE DEF g
      <3> QED
        BY <2>2, <3>1
    <2>4. IsBuilding(g, start, commands, n + 1)
      BY <2>3 DEF IsBuilding
    <2> QED
      BY <2>4
  <1> HIDE DEF S
  <1>3. \A n \in Nat : n \in S
    BY <1>1, <1>2, Induction
  <1> QED
    BY <1>3 DEF S

LEMMA BuiltStepByStep ==
    ASSUME NEW start, NEW commands, Len(commands) \in Nat
    PROVE  /\ BuiltBy(start, commands)[1] = start
           /\ \A i \in 1..Len(commands) :
                BuiltBy(start, commands)[i + 1]
                    = Applied(BuiltBy(start, commands)[i], commands[i])
  <1> DEFINE n == Len(commands) + 1
             f == CHOOSE f : IsBuilding(f, start, commands, n)
  <1>1. n \in Nat
    OBVIOUS
  <1>2. IsBuilding(f, start, commands, n)
    <2> HIDE DEF n
    <2> QED
      BY <1>1, BuildingExists
  <1>3. BuiltBy(start, commands) = f
    BY DEF BuiltBy, IsBuilding
  <1> HIDE DEF f
  <1>4. \A i \in 1..n : f[i] = IF i = 1 THEN start ELSE Applied(f[i - 1], commands[i - 1])
    <2> HIDE DEF n
    <2> QED
      BY <1>1, <1>2, BuildingAt
  <1>5. f[1] = start
    BY <1>1, <1>4
  <1>6. ASSUME NEW i \in 1..Len(commands) PROVE f[i + 1] = Applied(f[i], commands[i])
    <2>1. i + 1 \in 1..n /\ i + 1 # 1 /\ (i + 1) - 1 = i
      OBVIOUS
    <2>2. f[i + 1] = IF i + 1 = 1 THEN start
                     ELSE Applied(f[(i + 1) - 1], commands[(i + 1) - 1])
      BY <1>4, <2>1
    <2> QED
      BY <2>1, <2>2
  <1> QED
    BY <1>3, <1>5, <1>6

(***************************************************************************)
(* Where a run stands.                                                     *)
(***************************************************************************)
Here == Batches[batch]
BuiltHere == BuiltBy(StartOf(job, Here), Commands)

Moved(name) == name \in Branch /\ refs[name] = job.goal.new[name]
Earlier(name) == \E e \in 1..(batch - 1) : name \in UpdatedIn(Batches[e])

MarksUpTo(n) ==
    \A h \in 1..n : Commands[h].op = "mark" => Commands[h].id \in DOMAIN marks

CreatesUpTo(n) ==
    \A h \in 1..n : Commands[h].op = "create" =>
        \E q \in DOMAIN branches : branches[q][2] = Commands[h].name

DeletesUpTo(n) ==
    \A h \in 1..n : Commands[h].op = "delete" =>
        \E q \in DOMAIN delete_branches : delete_branches[q] = Commands[h].name

\* What is staged is what the graph asks for, in its order.
MovesAreSound ==
    \A q \in DOMAIN branches :
        /\ branches[q][1] = job.goal.new[branches[q][2]]
        /\ \A a \in job.goal.below[branches[q][2]] :
                Earlier(a) \/ \E p \in 1..(q - 1) : branches[p][2] = a

DropsAreSound ==
    \A q \in DOMAIN delete_branches :
        /\ job.goal.new[delete_branches[q]] = NoCommit
        /\ \A a \in job.goal.below[delete_branches[q]] :
                Earlier(a) \/ \E p \in DOMAIN branches : branches[p][2] = a

StagedUpTo(n) ==
    /\ MarksUpTo(n) /\ CreatesUpTo(n) /\ DeletesUpTo(n)
    /\ MovesAreSound /\ DropsAreSound

AllStaged == \E n \in Nat : n = Len(Commands) /\ StagedUpTo(n)

\* A batch the run is through with.
BatchDone(e) ==
    /\ MarkedIn(Batches[e]) \subseteq DOMAIN marks
    /\ \A name \in UpdatedIn(Batches[e]) : Moved(name)

(***************************************************************************)
(* The inductive invariant.  No branch is but where it was or where it is  *)
(* to go, and a mark stands for what its commit becomes; in a script that  *)
(* has not failed, all batches so far are done; the one in progress has    *)
(* built what it is to build.                                              *)
(***************************************************************************)
WhereInv == \A b \in Branch : refs[b] \in {job.refs[b], job.goal.new[b]}

MarksInv ==
    \A m \in DOMAIN marks :
        m \in Marked(job) /\ <<m, marks[m]>> \in job.goal.becomes

ScriptInv ==
    /\ pc \in Building => ~failed /\ batch <= Len(Batches)
    /\ pc \in AtWork /\ ~failed => \A e \in 1..(batch - 1) : BatchDone(e)

NothingStaged ==
    /\ pc \in {"script", "batch", "notify"} =>
        branches = << >> /\ delete_branches = << >>
    /\ pc = "delete" => branches = << >>

BatchInv ==
    /\ pc = "stage" =>
        \E n \in 0..Len(Commands) :
            at = n + 1 /\ cursor = BuiltHere[n + 1] /\ StagedUpTo(n)
    /\ pc \in {"hook", "detach", "branch"} => AllStaged
    /\ pc = "branch" =>
        \A q \in 1..(at - 1) : q \in DOMAIN branches => Moved(branches[q][2])
    /\ pc = "delete" =>
        /\ MarksUpTo(Len(Commands)) /\ DeletesUpTo(Len(Commands))
        /\ \A h \in 1..Len(Commands) :
                Commands[h].op = "create" => Moved(Commands[h].name)
        /\ \A q \in DOMAIN delete_branches :
                /\ job.goal.new[delete_branches[q]] = NoCommit
                /\ \A a \in job.goal.below[delete_branches[q]] : Moved(a)
                /\ q < at => Moved(delete_branches[q])
    /\ pc = "notify" => BatchDone(batch)

MovesInv == WhereInv /\ MarksInv /\ ScriptInv /\ NothingStaged /\ BatchInv

\* The runs the invariant is about.
Planned == SoundPlan(job) /\ ~dry_run

-----------------------------------------------------------------------------
(***************************************************************************)
(* What holds of the batch in progress, and what keeps holding of it.      *)
(***************************************************************************)
LEMMA HereIsSound ==
  ASSUME TypeInv, Planned, pc \in AtWork, batch <= Len(Batches)
  PROVE  /\ Len(Commands) \in Nat /\ DOMAIN Commands = 1..Len(Commands)
         /\ \A i \in 1..Len(Commands) : Commands[i] \in Command
         /\ Here.onto \in Marked(job) =>
                \E e \in 1..(batch - 1) : Here.onto \in MarkedIn(Batches[e])
         /\ \A i \in 1..Len(Commands) : CommandIsSound(job, Batches, batch, i, BuiltHere)
         /\ MarkedIn(Here) \subseteq Marked(job)
         /\ BuiltHere[1] = StartOf(job, Here)
         /\ \A i \in 1..Len(Commands) :
                BuiltHere[i + 1] = Applied(BuiltHere[i], Commands[i])
  <1>1. Scripts \in Seq(Script) /\ script \in DOMAIN Scripts
    BY CurrentBatch DEF TypeInv, TypeOK, Position
  <1>2. Batches \in Seq(Batch) /\ batch \in DOMAIN Batches
    BY CurrentBatch DEF TypeInv, TypeOK, Position
  <1>3. Commands \in Seq(Command)
    BY CurrentBatch
  <1>4. /\ Len(Commands) \in Nat /\ DOMAIN Commands = 1..Len(Commands)
        /\ \A i \in 1..Len(Commands) : Commands[i] \in Command
    BY <1>3
  <1>5. BatchIsSound(job, Batches, batch)
    BY <1>1, <1>2 DEF Planned, SoundPlan, dry_run, Scripts, Batches
  <1>6. MarkedIn(Here) \subseteq Marked(job)
    <2>1. Here \in BatchesOf(job)
      BY <1>1, <1>2 DEF Here, Batches, Scripts, BatchesOf, Range
    <2> QED
      BY <2>1 DEF Marked
  <1>7. Here.commands = Commands /\ Batches[batch] = Here
    BY DEF Here, Commands
  <1>8. BatchIsSound(job, Batches, batch) =>
            /\ Here.onto \in Marked(job) =>
                \E e \in 1..(batch - 1) : Here.onto \in MarkedIn(Batches[e])
            /\ \A i \in DOMAIN Commands :
                    CommandIsSound(job, Batches, batch, i, BuiltHere)
    BY <1>7 DEF BatchIsSound, BuiltHere
  <1> QED
    BY <1>4, <1>5, <1>6, <1>8, BuiltStepByStep DEF BuiltHere

LEMMA SameBatch ==
  ASSUME UNCHANGED <<job, script, batch>>
  PROVE  /\ Batches' = Batches /\ Commands' = Commands /\ Here' = Here
         /\ BuiltHere' = BuiltHere
  BY DEF Batches, Commands, Here, BuiltHere, Scripts

\* What has been staged stays so while nothing else is.
LEMMA StagedStays ==
  ASSUME UNCHANGED <<job, script, batch, marks, branches, delete_branches>>,
         NEW n, StagedUpTo(n)
  PROVE  StagedUpTo(n)'
  BY SameBatch DEF StagedUpTo, MarksUpTo, CreatesUpTo, DeletesUpTo,
                   MovesAreSound, DropsAreSound, Earlier

\* What is done stays done, as long as branches only go where they are to go.
LEMMA DoneStays ==
  ASSUME UNCHANGED <<job, script>>, DOMAIN marks \subseteq DOMAIN marks',
         \A name : Moved(name) => Moved(name)', NEW e, BatchDone(e)
  PROVE  BatchDone(e)'
  BY DEF BatchDone, Batches, Scripts

LEMMA MovedStays ==
  ASSUME UNCHANGED <<job, refs>>
  PROVE  \A name : Moved(name) => Moved(name)'
  BY DEF Moved

\* A branch goes where the graph puts it.
LEMMA MovesThere ==
  ASSUME TypeInv, Planned, WhereInv, job' = job, NEW name \in Branch,
         refs' = Updated(name, job.goal.new[name])
  PROVE  WhereInv' /\ Moved(name)' /\ \A b : Moved(b) => Moved(b)'
  <1>1. DOMAIN refs = Branch /\ ~dry_run
    BY DEF TypeInv, TypeOK, Planned
  <1>2. refs' = [refs EXCEPT ![name] = job.goal.new[name]]
    BY <1>1 DEF Updated
  <1> QED
    BY <1>1, <1>2 DEF WhereInv, Moved

-----------------------------------------------------------------------------
(***************************************************************************)
(* Staging.                                                                *)
(***************************************************************************)
\* A step that moves no branch and changes no mark keeps what there is.
LEMMA KeepsPlaces ==
  ASSUME MovesInv, UNCHANGED <<job, script, batch, marks, refs, failed>>,
         pc \in AtWork, pc' \in Building => pc \in Building
  PROVE  WhereInv' /\ MarksInv' /\ ScriptInv'
  <1>1. WhereInv' /\ MarksInv'
    BY DEF MovesInv, WhereInv, MarksInv
  <1>2. Batches' = Batches
    BY SameBatch
  <1>3. \A e : BatchDone(e) => BatchDone(e)'
    BY DoneStays, MovedStays
  <1>4. ScriptInv'
    BY <1>2, <1>3 DEF MovesInv, ScriptInv
  <1> QED
    BY <1>1, <1>4

\* A failure ends what the script does; what it has staged is dropped.
LEMMA AbandonKeeps ==
  ASSUME MovesInv, Abandon
  PROVE  MovesInv'
  <1>1. /\ pc' = "batch" /\ failed'
        /\ UNCHANGED <<job, script, marks, refs>>
        /\ branches' = << >> /\ delete_branches' = << >>
    BY DEF Abandon, repository
  <1>2. WhereInv' /\ MarksInv'
    BY <1>1 DEF MovesInv, WhereInv, MarksInv
  <1> QED
    BY <1>1, <1>2 DEF MovesInv, ScriptInv, NothingStaged, BatchInv, Building

\* A batch starts from the commit the graph puts it on: one that is not rewritten,
\* or what one has become that an earlier batch has marked.
LEMMA BatchStarts ==
  ASSUME TypeInv, Planned, MovesInv, StageBatch
  PROVE  MovesInv'
  <1>1. /\ pc = "batch" /\ ~failed /\ batch <= Len(Batches)
        /\ cursor' = Resolve(Here.onto) /\ at' = 1 /\ pc' = "stage"
        /\ UNCHANGED <<job, script, batch, marks, refs, failed, branches, delete_branches>>
    BY DEF StageBatch, Here, position, repository
  <1>2. /\ BuiltHere[1] = StartOf(job, Here) /\ Len(Commands) \in Nat
        /\ Here.onto \in Marked(job) =>
                \E e \in 1..(batch - 1) : Here.onto \in MarkedIn(Batches[e])
    BY <1>1, HereIsSound DEF AtWork
  <1>3. Resolve(Here.onto) = StartOf(job, Here)
    <2>1. CASE Here.onto \in Marked(job)
      <3>1. Here.onto \in DOMAIN marks
        BY <1>1, <1>2, <2>1 DEF MovesInv, ScriptInv, BatchDone, AtWork
      <3>2. <<Here.onto, marks[Here.onto]>> \in job.goal.becomes
        BY <3>1 DEF MovesInv, MarksInv
      <3>3. \A p, q \in job.goal.becomes : p[1] = q[1] => p = q
        BY DEF Planned, SoundPlan
      <3> DEFINE pair == CHOOSE p \in job.goal.becomes : p[1] = Here.onto
      <3>4. pair = <<Here.onto, marks[Here.onto]>>
        BY <3>2, <3>3
      <3>5. StartOf(job, Here) = pair[2]
        BY <2>1 DEF StartOf
      <3> HIDE DEF pair
      <3>6. StartOf(job, Here) = marks[Here.onto]
        BY <3>4, <3>5
      <3> QED
        BY <3>1, <3>6 DEF Resolve
    <2>2. CASE Here.onto \notin Marked(job)
      BY <2>2 DEF Resolve, StartOf, MovesInv, MarksInv
    <2> QED
      BY <2>1, <2>2
  <1>4. branches' = << >> /\ delete_branches' = << >>
    BY <1>1 DEF MovesInv, NothingStaged
  <1>5. StagedUpTo(0)'
    BY <1>4 DEF StagedUpTo, MarksUpTo, CreatesUpTo, DeletesUpTo, MovesAreSound,
                DropsAreSound
  <1>6. WhereInv' /\ MarksInv'
    BY <1>1 DEF MovesInv, WhereInv, MarksInv
  <1>7. Batches' = Batches /\ Commands' = Commands /\ BuiltHere' = BuiltHere
    BY <1>1, SameBatch
  <1>8. ScriptInv'
    <2>1. \A e : BatchDone(e) => BatchDone(e)'
      BY <1>1, DoneStays, MovedStays
    <2> QED
      BY <1>1, <1>7, <2>1 DEF MovesInv, ScriptInv, AtWork
  <1>9. BatchInv'
    <2>1. at' = 0 + 1 /\ 0 \in 0..Len(Commands') /\ cursor' = BuiltHere'[0 + 1]
      BY <1>1, <1>2, <1>3, <1>7
    <2> QED
      BY <1>1, <1>5, <2>1 DEF BatchInv
  <1> QED
    BY <1>1, <1>6, <1>8, <1>9 DEF MovesInv, NothingStaged

\* Where a staging step stands, and what the job says of its command.
LEMMA Standing ==
  ASSUME TypeInv, Planned, MovesInv, pc = "stage", at <= Len(Commands)
  PROVE  \E n \in 0..Len(Commands) :
            /\ at = n + 1 /\ n + 1 \in 1..Len(Commands) /\ Len(Commands) \in Nat
            /\ Cmd = Commands[n + 1] /\ Cmd \in Command
            /\ cursor = BuiltHere[n + 1]
            /\ BuiltHere[n + 2] = Applied(cursor, Cmd)
            /\ StagedUpTo(n)
            /\ CommandIsSound(job, Batches, batch, n + 1, BuiltHere)
            /\ Cmd.op = "mark" => Cmd.id \in Marked(job)
            /\ Batches[batch].commands = Commands
  <1>1. batch <= Len(Batches)
    BY DEF MovesInv, ScriptInv, Building
  <1>2. PICK n \in 0..Len(Commands) :
            at = n + 1 /\ cursor = BuiltHere[n + 1] /\ StagedUpTo(n)
    BY DEF MovesInv, BatchInv
  <1>3. /\ Len(Commands) \in Nat /\ DOMAIN Commands = 1..Len(Commands)
        /\ \A i \in 1..Len(Commands) : Commands[i] \in Command
        /\ \A i \in 1..Len(Commands) : CommandIsSound(job, Batches, batch, i, BuiltHere)
        /\ MarkedIn(Here) \subseteq Marked(job)
        /\ \A i \in 1..Len(Commands) :
                BuiltHere[i + 1] = Applied(BuiltHere[i], Commands[i])
    BY <1>1, HereIsSound DEF AtWork
  <1>4. n + 1 \in 1..Len(Commands)
    BY <1>2, <1>3
  <1>5. Cmd = Commands[n + 1] /\ Batches[batch].commands = Commands
    BY <1>2 DEF Cmd, Commands
  <1>6. Cmd.op = "mark" => Cmd.id \in MarkedIn(Here)
    BY <1>3, <1>4, <1>5 DEF MarkedIn, Here, Range
  <1>7. BuiltHere[(n + 1) + 1] = Applied(cursor, Cmd) /\ (n + 1) + 1 = n + 2
    BY <1>2, <1>3, <1>4, <1>5
  <1> QED
    BY <1>2, <1>3, <1>4, <1>5, <1>6, <1>7

\* A command is played: it remains to be shown that what it stages is sound.
LEMMA StagesOne ==
  ASSUME MovesInv, pc = "stage", NEW n \in 0..Len(Commands), Len(Commands) \in Nat,
         n + 1 \in 1..Len(Commands), at = n + 1, at' = at + 1,
         cursor' = BuiltHere[n + 2], StagedUpTo(n + 1)',
         UNCHANGED <<job, pc, script, batch>>
  PROVE  BatchInv' /\ NothingStaged'
  <1>1. Commands' = Commands /\ BuiltHere' = BuiltHere
    BY SameBatch
  <1>2. /\ n + 1 \in 0..Len(Commands') /\ at' = (n + 1) + 1
        /\ cursor' = BuiltHere'[(n + 1) + 1]
    <2>1. (n + 1) + 1 = n + 2 /\ n + 1 \in 0..Len(Commands)
      OBVIOUS
    <2> QED
      BY <1>1, <2>1
  <1> QED
    BY <1>2 DEF BatchInv, NothingStaged

LEMMA CommitIsBuilt ==
  ASSUME TypeInv, Planned, MovesInv, StagePick \/ StageReword \/ StageFixup
  PROVE  MovesInv'
  <1>1. /\ pc = "stage" /\ at <= Len(Commands) /\ at' = at + 1
        /\ UNCHANGED <<job, pc, script, batch, marks, refs, failed, branches, delete_branches>>
        /\ Cmd.op \in {"pick", "reword", "fixup"}
    BY DEF StagePick, StageReword, StageFixup, Staging, position, repository
  <1>2. cursor' = Applied(cursor, Cmd)
    BY DEF StagePick, StageReword, StageFixup, Staging, Applied, Planned
  <1>3. WhereInv' /\ MarksInv' /\ ScriptInv'
    BY <1>1, KeepsPlaces DEF AtWork
  <1>4. PICK n \in 0..Len(Commands) :
            /\ at = n + 1 /\ n + 1 \in 1..Len(Commands) /\ Len(Commands) \in Nat
            /\ Cmd = Commands[n + 1]
            /\ BuiltHere[n + 2] = Applied(cursor, Cmd)
            /\ StagedUpTo(n)
    BY <1>1, Standing
  <1>5. StagedUpTo(n + 1)
    <2>1. \A h \in 1..(n + 1) : h \in 1..n \/ h = n + 1
      OBVIOUS
    <2> QED
      BY <1>1, <1>4, <2>1 DEF StagedUpTo, MarksUpTo, CreatesUpTo, DeletesUpTo
  <1>6. StagedUpTo(n + 1)'
    BY <1>1, <1>5, StagedStays
  <1> QED
    BY <1>1, <1>2, <1>3, <1>4, <1>6, StagesOne DEF MovesInv

LEMMA CommitIsMarked ==
  ASSUME TypeInv, Planned, MovesInv, StageMark
  PROVE  MovesInv'
  <1>1. /\ pc = "stage" /\ at <= Len(Commands) /\ at' = at + 1 /\ Cmd.op = "mark"
        /\ UNCHANGED <<job, pc, script, batch, cursor, refs, failed, branches, delete_branches>>
        /\ marks' = [m \in DOMAIN marks \cup {Cmd.id} |->
                        IF m = Cmd.id THEN cursor ELSE marks[m]]
    BY DEF StageMark, Staging, position, staged, repository
  <1>2. PICK n \in 0..Len(Commands) :
            /\ at = n + 1 /\ n + 1 \in 1..Len(Commands) /\ Len(Commands) \in Nat
            /\ Cmd = Commands[n + 1]
            /\ cursor = BuiltHere[n + 1]
            /\ BuiltHere[n + 2] = Applied(cursor, Cmd)
            /\ StagedUpTo(n)
            /\ CommandIsSound(job, Batches, batch, n + 1, BuiltHere)
            /\ Cmd.id \in Marked(job)
            /\ Batches[batch].commands = Commands
    BY <1>1, Standing
  <1>3. Applied(cursor, Cmd) = cursor
    BY <1>1 DEF Applied
  <1>4. <<Cmd.id, cursor>> \in job.goal.becomes
    BY <1>1, <1>2 DEF CommandIsSound
  <1>5. WhereInv' /\ MarksInv'
    BY <1>1, <1>2, <1>4 DEF MovesInv, WhereInv, MarksInv
  <1>6. DOMAIN marks' = DOMAIN marks \cup {Cmd.id}
    BY <1>1
  <1>7. ScriptInv'
    <2>1. \A e : BatchDone(e) => BatchDone(e)'
      BY <1>1, <1>6, DoneStays, MovedStays
    <2> QED
      BY <1>1, <2>1, SameBatch DEF MovesInv, ScriptInv
  <1>8. StagedUpTo(n + 1)'
    <2>1. \A h \in 1..(n + 1) : h \in 1..n \/ h = n + 1
      OBVIOUS
    <2>2. Commands' = Commands /\ Batches' = Batches
      BY <1>1, SameBatch
    <2>3. MarksUpTo(n + 1)'
      BY <1>2, <1>6, <2>1, <2>2 DEF StagedUpTo, MarksUpTo
    <2>4. CreatesUpTo(n + 1)' /\ DeletesUpTo(n + 1)'
      BY <1>1, <1>2, <2>1, <2>2 DEF StagedUpTo, CreatesUpTo, DeletesUpTo
    <2>5. MovesAreSound' /\ DropsAreSound'
      BY <1>1, <1>2, <2>2 DEF StagedUpTo, MovesAreSound, DropsAreSound, Earlier
    <2> QED
      BY <2>3, <2>4, <2>5 DEF StagedUpTo
  <1> QED
    BY <1>1, <1>2, <1>3, <1>5, <1>7, <1>8, StagesOne DEF MovesInv

\* The branches a staged update comes after were updated by an earlier batch, or are
\* staged before it.
LEMMA BelowIsStaged ==
  ASSUME NEW n \in Nat, CreatesUpTo(n), Batches[batch].commands = Commands,
         CommandIsSound(job, Batches, batch, n + 1, BuiltHere),
         Commands[n + 1].op \in Updates, NEW a \in job.goal.below[Commands[n + 1].name]
  PROVE  Earlier(a) \/ \E p \in DOMAIN branches : branches[p][2] = a
  <1>1. \/ \E e \in 1..(batch - 1) : a \in UpdatedIn(Batches[e])
        \/ \E h \in 1..((n + 1) - 1) : /\ Commands[h].op = "create"
                                      /\ Commands[h].name = a
    BY DEF CommandIsSound
  <1>2. (n + 1) - 1 = n
    OBVIOUS
  <1> QED
    BY <1>1, <1>2 DEF Earlier, CreatesUpTo

LEMMA MoveIsStaged ==
  ASSUME TypeInv, Planned, MovesInv, StageCreate
  PROVE  MovesInv'
  <1>1. /\ pc = "stage" /\ at <= Len(Commands) /\ at' = at + 1 /\ Cmd.op = "create"
        /\ UNCHANGED <<job, pc, script, batch, cursor, marks, refs, failed, delete_branches>>
        /\ branches' = Append(branches, <<cursor, Cmd.name>>)
    BY DEF StageCreate, Staging, position, repository
  <1>2. PICK n \in 0..Len(Commands) :
            /\ at = n + 1 /\ n + 1 \in 1..Len(Commands) /\ Len(Commands) \in Nat
            /\ Cmd = Commands[n + 1]
            /\ cursor = BuiltHere[n + 1]
            /\ BuiltHere[n + 2] = Applied(cursor, Cmd)
            /\ StagedUpTo(n)
            /\ CommandIsSound(job, Batches, batch, n + 1, BuiltHere)
            /\ Batches[batch].commands = Commands
    BY <1>1, Standing
  <1>3. Applied(cursor, Cmd) = cursor
    BY <1>1 DEF Applied
  <1>4. job.goal.new[Cmd.name] = cursor
    BY <1>1, <1>2 DEF CommandIsSound
  <1>5. WhereInv' /\ MarksInv' /\ ScriptInv'
    BY <1>1, KeepsPlaces DEF AtWork
  <1>6. /\ branches \in Seq(Commit \X Branch) /\ Len(branches) \in Nat
        /\ DOMAIN branches = 1..Len(branches)
    BY DEF TypeInv, TypeOK
  <1>7. /\ DOMAIN branches' = 1..(Len(branches) + 1)
        /\ \A q \in 1..Len(branches) : branches'[q] = branches[q]
        /\ branches'[Len(branches) + 1] = <<cursor, Cmd.name>>
    BY <1>1, <1>6
  <1>8. StagedUpTo(n + 1)'
    <2>1. \A h \in 1..(n + 1) : h \in 1..n \/ h = n + 1
      OBVIOUS
    <2>2. Commands' = Commands /\ Batches' = Batches
      BY <1>1, SameBatch
    <2>3. MarksUpTo(n + 1)' /\ DeletesUpTo(n + 1)'
      BY <1>1, <1>2, <2>1, <2>2 DEF StagedUpTo, MarksUpTo, DeletesUpTo
    <2>4. Len(branches) + 1 \in DOMAIN branches' /\ DOMAIN branches \subseteq DOMAIN branches'
      BY <1>6, <1>7
    <2>5. branches'[Len(branches) + 1][2] = Cmd.name
      BY <1>7
    <2>6. CreatesUpTo(n + 1)'
      <3> SUFFICES ASSUME NEW h \in 1..(n + 1), Commands[h].op = "create"
                   PROVE  \E q \in DOMAIN branches' : branches'[q][2] = Commands[h].name
        BY <2>2 DEF CreatesUpTo
      <3>1. CASE h \in 1..n
        BY <1>2, <1>6, <1>7, <2>4, <3>1 DEF StagedUpTo, CreatesUpTo
      <3>2. CASE h = n + 1
        BY <1>2, <2>4, <2>5, <3>2
      <3> QED
        BY <2>1, <3>1, <3>2
    <2>7. MovesAreSound'
      <3> SUFFICES ASSUME NEW q \in DOMAIN branches'
                   PROVE  /\ branches'[q][1] = job.goal.new[branches'[q][2]]
                          /\ \A a \in job.goal.below[branches'[q][2]] :
                                Earlier(a) \/ \E p \in 1..(q - 1) : branches'[p][2] = a
        BY <1>1, <2>2 DEF MovesAreSound, Earlier
      <3>1. CASE q \in 1..Len(branches)
        <4>1. \A p \in 1..(q - 1) : p \in 1..Len(branches)
          BY <1>6, <3>1
        <4> QED
          BY <1>2, <1>6, <1>7, <3>1, <4>1 DEF StagedUpTo, MovesAreSound
      <3>2. CASE q = Len(branches) + 1
        <4>1. branches'[q][1] = cursor /\ branches'[q][2] = Cmd.name
          BY <1>7, <3>2
        <4>2. ASSUME NEW a \in job.goal.below[Cmd.name]
              PROVE  Earlier(a) \/ \E p \in DOMAIN branches : branches[p][2] = a
          BY <1>1, <1>2, <4>2, BelowIsStaged DEF Updates, StagedUpTo
        <4>3. 1..(q - 1) = DOMAIN branches
          BY <1>6, <3>2
        <4> QED
          BY <1>4, <1>6, <1>7, <4>1, <4>2, <4>3
      <3> QED
        BY <1>6, <1>7, <3>1, <3>2
    <2>8. DropsAreSound'
      <3> SUFFICES ASSUME NEW q \in DOMAIN delete_branches
                   PROVE  /\ job.goal.new[delete_branches[q]] = NoCommit
                          /\ \A a \in job.goal.below[delete_branches[q]] :
                                Earlier(a) \/ \E p \in DOMAIN branches' : branches'[p][2] = a
        BY <1>1, <2>2 DEF DropsAreSound, Earlier
      <3> QED
        BY <1>2, <1>6, <1>7, <2>4 DEF StagedUpTo, DropsAreSound
    <2> QED
      BY <2>3, <2>6, <2>7, <2>8 DEF StagedUpTo
  <1> QED
    BY <1>1, <1>2, <1>3, <1>5, <1>8, StagesOne DEF MovesInv

LEMMA DropIsStaged ==
  ASSUME TypeInv, Planned, MovesInv, StageDelete
  PROVE  MovesInv'
  <1>1. /\ pc = "stage" /\ at <= Len(Commands) /\ at' = at + 1 /\ Cmd.op = "delete"
        /\ UNCHANGED <<job, pc, script, batch, cursor, marks, refs, failed, branches>>
        /\ delete_branches' = Append(delete_branches, Cmd.name)
    BY DEF StageDelete, Staging, position, repository
  <1>2. PICK n \in 0..Len(Commands) :
            /\ at = n + 1 /\ n + 1 \in 1..Len(Commands) /\ Len(Commands) \in Nat
            /\ Cmd = Commands[n + 1]
            /\ cursor = BuiltHere[n + 1]
            /\ BuiltHere[n + 2] = Applied(cursor, Cmd)
            /\ StagedUpTo(n)
            /\ CommandIsSound(job, Batches, batch, n + 1, BuiltHere)
            /\ Batches[batch].commands = Commands
    BY <1>1, Standing
  <1>3. Applied(cursor, Cmd) = cursor
    BY <1>1 DEF Applied
  <1>4. job.goal.new[Cmd.name] = NoCommit
    BY <1>1, <1>2 DEF CommandIsSound
  <1>5. WhereInv' /\ MarksInv' /\ ScriptInv'
    BY <1>1, KeepsPlaces DEF AtWork
  <1>6. /\ delete_branches \in Seq(Branch) /\ Len(delete_branches) \in Nat
        /\ DOMAIN delete_branches = 1..Len(delete_branches)
    BY DEF TypeInv, TypeOK
  <1>7. /\ DOMAIN delete_branches' = 1..(Len(delete_branches) + 1)
        /\ \A q \in 1..Len(delete_branches) : delete_branches'[q] = delete_branches[q]
        /\ delete_branches'[Len(delete_branches) + 1] = Cmd.name
    BY <1>1, <1>6
  <1>8. StagedUpTo(n + 1)'
    <2>1. \A h \in 1..(n + 1) : h \in 1..n \/ h = n + 1
      OBVIOUS
    <2>2. Commands' = Commands /\ Batches' = Batches
      BY <1>1, SameBatch
    <2>3. MarksUpTo(n + 1)' /\ CreatesUpTo(n + 1)'
      BY <1>1, <1>2, <2>1, <2>2 DEF StagedUpTo, MarksUpTo, CreatesUpTo
    <2>4. /\ Len(delete_branches) + 1 \in DOMAIN delete_branches'
          /\ DOMAIN delete_branches \subseteq DOMAIN delete_branches'
      BY <1>6, <1>7
    <2>5. DeletesUpTo(n + 1)'
      <3> SUFFICES ASSUME NEW h \in 1..(n + 1), Commands[h].op = "delete"
                   PROVE  \E q \in DOMAIN delete_branches' :
                                delete_branches'[q] = Commands[h].name
        BY <2>2 DEF DeletesUpTo
      <3>1. CASE h \in 1..n
        BY <1>2, <1>6, <1>7, <2>4, <3>1 DEF StagedUpTo, DeletesUpTo
      <3>2. CASE h = n + 1
        BY <1>2, <1>7, <2>4, <3>2
      <3> QED
        BY <2>1, <3>1, <3>2
    <2>6. MovesAreSound'
      BY <1>1, <1>2, <2>2 DEF StagedUpTo, MovesAreSound, Earlier
    <2>7. DropsAreSound'
      <3> SUFFICES ASSUME NEW q \in DOMAIN delete_branches'
                   PROVE  /\ job.goal.new[delete_branches'[q]] = NoCommit
                          /\ \A a \in job.goal.below[delete_branches'[q]] :
                                Earlier(a) \/ \E p \in DOMAIN branches : branches[p][2] = a
        BY <1>1, <2>2 DEF DropsAreSound, Earlier
      <3>1. CASE q \in 1..Len(delete_branches)
        BY <1>2, <1>6, <1>7, <3>1 DEF StagedUpTo, DropsAreSound
      <3>2. CASE q = Len(delete_branches) + 1
        <4>1. delete_branches'[q] = Cmd.name
          BY <1>7, <3>2
        <4>2. ASSUME NEW a \in job.goal.below[Cmd.name]
              PROVE  Earlier(a) \/ \E p \in DOMAIN branches : branches[p][2] = a
          BY <1>1, <1>2, <4>2, BelowIsStaged DEF Updates, StagedUpTo
        <4> QED
          BY <1>4, <4>1, <4>2
      <3> QED
        BY <1>6, <1>7, <3>1, <3>2
    <2> QED
      BY <2>3, <2>5, <2>6, <2>7 DEF StagedUpTo
  <1> QED
    BY <1>1, <1>2, <1>3, <1>5, <1>8, StagesOne DEF MovesInv

LEMMA StageKeepsMoves ==
  ASSUME TypeInv, Planned, MovesInv, Stage
  PROVE  MovesInv'
  <1>1. CASE EndBatch
    <2>1. /\ pc = "stage" /\ at > Len(Commands) /\ pc' = "hook"
          /\ UNCHANGED <<job, script, batch, marks, refs, failed, branches, delete_branches>>
      BY <1>1 DEF EndBatch, position, staged, repository
    <2>2. PICK n \in 0..Len(Commands) : at = n + 1 /\ StagedUpTo(n)
      BY <2>1 DEF MovesInv, BatchInv
    <2>3. Len(Commands) \in Nat
      BY <2>1, HereIsSound DEF AtWork, MovesInv, ScriptInv, Building
    <2>4. n \in Nat /\ n = Len(Commands)
      BY <2>1, <2>2, <2>3
    <2>5. StagedUpTo(n)'
      BY <2>1, <2>2, StagedStays
    <2>6. AllStaged'
      BY <2>1, <2>4, <2>5, SameBatch DEF AllStaged
    <2>7. WhereInv' /\ MarksInv' /\ ScriptInv'
      BY <2>1, KeepsPlaces DEF AtWork, Building
    <2> QED
      BY <2>1, <2>6, <2>7 DEF MovesInv, NothingStaged, BatchInv
  <1>2. CASE StageFails
    BY <1>2, AbandonKeeps DEF StageFails
  <1> QED
    BY <1>1, <1>2, BatchStarts, CommitIsBuilt, CommitIsMarked, MoveIsStaged,
       DropIsStaged DEF Stage

-----------------------------------------------------------------------------
(***************************************************************************)
(* Committing.                                                             *)
(***************************************************************************)
\* Everything the batch in progress was to do is done.
LEMMA AllIsDone ==
  ASSUME TypeInv, Planned, pc \in AtWork, batch <= Len(Batches),
         MarksUpTo(Len(Commands)),
         \A h \in 1..Len(Commands) :
             Commands[h].op \in Updates => Moved(Commands[h].name)
  PROVE  BatchDone(batch)
  <1>1. DOMAIN Commands = 1..Len(Commands) /\ Batches[batch].commands = Commands
    BY HereIsSound DEF Commands
  <1>2. ASSUME NEW m \in MarkedIn(Batches[batch]) PROVE m \in DOMAIN marks
    <2>1. PICK h \in DOMAIN Commands : Commands[h].op = "mark" /\ Commands[h].id = m
      BY <1>1, <1>2 DEF MarkedIn, Range
    <2> QED
      BY <1>1, <2>1 DEF MarksUpTo
  <1>3. ASSUME NEW name \in UpdatedIn(Batches[batch]) PROVE Moved(name)
    <2>1. PICK h \in DOMAIN Commands : Commands[h].op \in Updates /\ Commands[h].name = name
      BY <1>1, <1>3 DEF UpdatedIn, Range
    <2> QED
      BY <1>1, <2>1
  <1> QED
    BY <1>2, <1>3 DEF BatchDone

\* HEAD is detached, or a hook agrees, and nothing else happens.
LEMMA BatchIsAccepted ==
  ASSUME TypeInv, Planned, MovesInv, HookAccepts \/ Detach
  PROVE  MovesInv'
  <1>1. /\ pc \in {"hook", "detach"} /\ pc' \in {"detach", "branch", "notify"}
        /\ UNCHANGED <<job, script, batch, marks, refs, failed, branches, delete_branches>>
        /\ pc' = "branch" => at' = 1
    BY DEF HookAccepts, Detach, position, staged, repository
  <1>2. PICK n \in Nat : n = Len(Commands) /\ StagedUpTo(n)
    BY <1>1 DEF MovesInv, BatchInv, AllStaged
  <1>3. AllStaged'
    <2>1. StagedUpTo(n)'
      BY <1>1, <1>2, StagedStays
    <2> QED
      BY <1>1, <1>2, <2>1, SameBatch DEF AllStaged
  <1>4. WhereInv' /\ MarksInv' /\ ScriptInv'
    BY <1>1, KeepsPlaces DEF AtWork, Building
  <1>5. CASE pc' # "notify"
    BY <1>1, <1>3, <1>4, <1>5 DEF MovesInv, NothingStaged, BatchInv
  <1>6. CASE pc' = "notify"
    <2>1. branches = << >> /\ delete_branches = << >>
      BY <1>6 DEF HookAccepts, Detach
    <2>2. DOMAIN branches = {} /\ DOMAIN delete_branches = {}
      BY <2>1
    <2>3. \A h \in 1..Len(Commands) : Commands[h].op \notin Updates
      BY <1>2, <2>2 DEF StagedUpTo, CreatesUpTo, DeletesUpTo, Updates
    <2>4. BatchDone(batch)
      BY <1>1, <1>2, <2>3, AllIsDone
         DEF StagedUpTo, AtWork, MovesInv, ScriptInv, Building
    <2>5. PICK k : k = batch
      OBVIOUS
    <2>6. BatchDone(k)'
      BY <1>1, <2>4, <2>5, DoneStays, MovedStays
    <2>7. BatchDone(batch)'
      BY <1>1, <2>5, <2>6 DEF BatchDone
    <2> QED
      BY <1>1, <1>4, <1>6, <2>1, <2>7 DEF MovesInv, NothingStaged, BatchInv
  <1> QED
    BY <1>5, <1>6

\* A branch is moved to where the graph puts it, and what it is stacked on is there.
LEMMA MoveIsSound ==
  ASSUME TypeInv, Planned, MovesInv, MoveBranch
  PROVE  /\ branches[at][2] \in Branch
         /\ refs' = Updated(branches[at][2], job.goal.new[branches[at][2]])
         /\ \A a \in job.goal.below[branches[at][2]] : Moved(a)
  <1>1. /\ pc = "branch" /\ at <= Len(branches)
        /\ refs' = Updated(branches[at][2], branches[at][1])
    BY DEF MoveBranch, MovingBranch
  <1>2. at \in DOMAIN branches /\ branches[at] \in Commit \X Branch /\ at \in Nat
    BY <1>1 DEF TypeInv, TypeOK, Position
  <1>3. /\ MovesAreSound
        /\ \A q \in 1..(at - 1) : q \in DOMAIN branches => Moved(branches[q][2])
    BY <1>1 DEF MovesInv, BatchInv, AllStaged, StagedUpTo
  <1>4. ASSUME NEW a \in job.goal.below[branches[at][2]] PROVE Moved(a)
    <2>1. Earlier(a) \/ \E p \in 1..(at - 1) : branches[p][2] = a
      BY <1>2, <1>3 DEF MovesAreSound
    <2>2. CASE Earlier(a)
      BY <1>1, <2>2 DEF Earlier, MovesInv, ScriptInv, BatchDone, Building, AtWork
    <2>3. \A p \in 1..(at - 1) : p \in DOMAIN branches
      BY <1>2, <1>1 DEF TypeInv, TypeOK
    <2> QED
      BY <1>3, <2>1, <2>2, <2>3
  <1> QED
    BY <1>1, <1>2, <1>3, <1>4 DEF MovesAreSound

LEMMA DropIsSound ==
  ASSUME TypeInv, Planned, MovesInv, DeleteBranch
  PROVE  /\ delete_branches[at] \in Branch
         /\ refs' = Updated(delete_branches[at], job.goal.new[delete_branches[at]])
         /\ \A a \in job.goal.below[delete_branches[at]] : Moved(a)
  <1>1. /\ pc = "delete" /\ at <= Len(delete_branches)
        /\ refs' = Updated(delete_branches[at], NoCommit)
    BY DEF DeleteBranch, DeletingBranch
  <1>2. at \in DOMAIN delete_branches /\ delete_branches[at] \in Branch
    BY <1>1 DEF TypeInv, TypeOK, Position
  <1> QED
    BY <1>1, <1>2 DEF MovesInv, BatchInv

LEMMA BranchIsMoved ==
  ASSUME TypeInv, Planned, MovesInv, MoveBranch
  PROVE  MovesInv'
  <1>1. /\ pc = "branch" /\ pc' = "branch" /\ at' = at + 1 /\ at \in Nat
        /\ UNCHANGED <<job, script, batch, marks, failed, branches, delete_branches>>
    BY DEF MoveBranch, MovingBranch, position, staged, TypeInv, TypeOK
  <1>2. PICK name \in Branch : /\ name = branches[at][2]
                               /\ refs' = Updated(name, job.goal.new[name])
    BY MoveIsSound
  <1>3. WhereInv' /\ Moved(name)' /\ \A b : Moved(b) => Moved(b)'
    BY <1>1, <1>2, MovesThere DEF MovesInv
  <1>4. \A e : BatchDone(e) => BatchDone(e)'
    BY <1>1, <1>3, DoneStays
  <1>5. MarksInv' /\ ScriptInv'
    BY <1>1, <1>4, SameBatch DEF MovesInv, MarksInv, ScriptInv
  <1>6. AllStaged'
    <2>1. PICK n \in Nat : n = Len(Commands) /\ StagedUpTo(n)
      BY <1>1 DEF MovesInv, BatchInv, AllStaged
    <2>2. StagedUpTo(n)'
      BY <1>1, <2>1, StagedStays
    <2> QED
      BY <1>1, <2>1, <2>2, SameBatch DEF AllStaged
  <1>7. ASSUME NEW q \in 1..(at' - 1), q \in DOMAIN branches'
        PROVE  Moved(branches[q][2])'
    <2>1. PICK other : other = branches[q][2]
      OBVIOUS
    <2>2. Moved(other)'
      <3>1. CASE q = at
        BY <1>2, <1>3, <2>1, <3>1
      <3>2. CASE q # at
        <4>1. q \in 1..(at - 1) /\ q \in DOMAIN branches
          BY <1>1, <1>7, <3>2
        <4>2. Moved(other)
          BY <1>1, <2>1, <4>1 DEF MovesInv, BatchInv
        <4> QED
          BY <1>3, <4>2
      <3> QED
        BY <3>1, <3>2
    <2> QED
      BY <1>1, <2>1, <2>2 DEF Moved
  <1> QED
    BY <1>1, <1>3, <1>5, <1>6, <1>7 DEF MovesInv, NothingStaged, BatchInv

\* All branches of the batch are where they go; what is left to do is to delete.
LEMMA MovesEnd ==
  ASSUME TypeInv, Planned, MovesInv, EndMoves
  PROVE  MovesInv'
  <1>1. /\ pc = "branch" /\ pc' = "delete" /\ at' = 1 /\ at > Len(branches)
        /\ branches' = << >>
        /\ UNCHANGED <<job, script, batch, marks, failed, refs, delete_branches>>
    BY DEF EndMoves, position, repository
  <1>2. /\ MarksUpTo(Len(Commands)) /\ CreatesUpTo(Len(Commands))
        /\ DeletesUpTo(Len(Commands)) /\ DropsAreSound
    BY <1>1 DEF MovesInv, BatchInv, AllStaged, StagedUpTo
  <1>3. ASSUME NEW q \in DOMAIN branches PROVE Moved(branches[q][2])
    <2>1. q \in 1..(at - 1)
      BY <1>1 DEF TypeInv, TypeOK
    <2> QED
      BY <1>1, <2>1 DEF MovesInv, BatchInv
  <1>4. WhereInv' /\ MarksInv' /\ ScriptInv'
    BY <1>1, KeepsPlaces DEF AtWork, Building
  <1>5. Commands' = Commands /\ Batches' = Batches
    BY <1>1, SameBatch
  <1>6. \A b : Moved(b) => Moved(b)'
    BY <1>1, MovedStays
  <1>7. ASSUME NEW h \in 1..Len(Commands), Commands[h].op = "create"
        PROVE  Moved(Commands[h].name)
    BY <1>2, <1>3, <1>7 DEF CreatesUpTo
  <1>8. ASSUME NEW q \in DOMAIN delete_branches
        PROVE  /\ job.goal.new[delete_branches[q]] = NoCommit
               /\ \A a \in job.goal.below[delete_branches[q]] : Moved(a)
               /\ ~(q < 1)
    <2>1. ~(q < 1)
      BY <1>8 DEF TypeInv, TypeOK
    <2>2. ASSUME NEW a \in job.goal.below[delete_branches[q]] PROVE Moved(a)
      <3>1. CASE Earlier(a)
        BY <1>1, <3>1
           DEF Earlier, MovesInv, ScriptInv, BatchDone, Building, AtWork
      <3>2. CASE \E p \in DOMAIN branches : branches[p][2] = a
        BY <1>3, <3>2
      <3> QED
        BY <1>2, <1>8, <3>1, <3>2 DEF DropsAreSound
    <2> QED
      BY <1>2, <2>1, <2>2 DEF DropsAreSound
  <1>9. BatchInv'
    <2>1. MarksUpTo(Len(Commands))' /\ DeletesUpTo(Len(Commands))'
      BY <1>1, <1>2, <1>5 DEF MarksUpTo, DeletesUpTo
    <2>2. \A h \in 1..Len(Commands') :
                Commands'[h].op = "create" => Moved(Commands[h].name)'
      BY <1>1, <1>5, <1>7 DEF Moved
    <2>3. \A q \in DOMAIN delete_branches' :
                /\ job'.goal.new[delete_branches'[q]] = NoCommit
                /\ \A a \in job'.goal.below[delete_branches'[q]] : Moved(a)'
                /\ q < at' => Moved(delete_branches[q])'
      BY <1>1, <1>6, <1>8
    <2> QED
      BY <1>1, <2>1, <2>2, <2>3 DEF BatchInv
  <1> QED
    BY <1>1, <1>4, <1>9 DEF MovesInv, NothingStaged

LEMMA BranchIsDropped ==
  ASSUME TypeInv, Planned, MovesInv, DeleteBranch
  PROVE  MovesInv'
  <1>1. /\ pc = "delete" /\ pc' = "delete" /\ at' = at + 1 /\ at \in Nat
        /\ UNCHANGED <<job, script, batch, marks, failed, branches, delete_branches>>
        /\ at <= Len(delete_branches)
    BY DEF DeleteBranch, DeletingBranch, position, staged, TypeInv, TypeOK
  <1>2. PICK name \in Branch : /\ name = delete_branches[at]
                               /\ refs' = Updated(name, job.goal.new[name])
    BY DropIsSound
  <1>3. WhereInv' /\ Moved(name)' /\ \A b : Moved(b) => Moved(b)'
    BY <1>1, <1>2, MovesThere DEF MovesInv
  <1>4. \A e : BatchDone(e) => BatchDone(e)'
    BY <1>1, <1>3, DoneStays
  <1>5. MarksInv' /\ ScriptInv'
    BY <1>1, <1>4, SameBatch DEF MovesInv, MarksInv, ScriptInv
  <1>6. Commands' = Commands
    BY <1>1, SameBatch
  <1>7. ASSUME NEW h \in 1..Len(Commands), Commands[h].op = "create"
        PROVE  Moved(Commands[h].name)'
    <2>1. PICK other : other = Commands[h].name
      OBVIOUS
    <2>2. Moved(other)
      BY <1>1, <1>7, <2>1 DEF MovesInv, BatchInv
    <2>3. Moved(other)'
      BY <1>3, <2>2
    <2> QED
      BY <1>6, <2>1, <2>3 DEF Moved
  <1>8. ASSUME NEW q \in DOMAIN delete_branches
        PROVE  /\ job.goal.new[delete_branches[q]] = NoCommit
               /\ \A a \in job.goal.below[delete_branches[q]] : Moved(a)'
               /\ q < at + 1 => Moved(delete_branches[q])'
    <2>1. /\ job.goal.new[delete_branches[q]] = NoCommit
          /\ \A a \in job.goal.below[delete_branches[q]] : Moved(a)
          /\ q < at => Moved(delete_branches[q])
      BY <1>1 DEF MovesInv, BatchInv
    <2>2. ASSUME q < at + 1 PROVE Moved(delete_branches[q])'
      <3>1. PICK other : other = delete_branches[q]
        OBVIOUS
      <3>2. q \in Nat
        BY <1>8 DEF TypeInv, TypeOK
      <3>3. Moved(other)'
        BY <1>1, <1>2, <1>3, <2>1, <2>2, <3>1, <3>2
      <3> QED
        BY <1>1, <3>1, <3>3 DEF Moved
    <2> QED
      BY <1>3, <2>1, <2>2
  <1>9. BatchInv'
    <2>1. MarksUpTo(Len(Commands))' /\ DeletesUpTo(Len(Commands))'
      BY <1>1, <1>6 DEF MovesInv, BatchInv, MarksUpTo, DeletesUpTo
    <2>2. \A h \in 1..Len(Commands') :
                Commands'[h].op = "create" => Moved(Commands[h].name)'
      BY <1>6, <1>7
    <2> QED
      BY <1>1, <1>8, <2>1, <2>2 DEF BatchInv
  <1> QED
    BY <1>1, <1>3, <1>5, <1>9 DEF MovesInv, NothingStaged

\* The batch is done.
LEMMA DropsEnd ==
  ASSUME TypeInv, Planned, MovesInv, EndDeletes
  PROVE  MovesInv'
  <1>1. /\ pc = "delete" /\ pc' = "notify" /\ at > Len(delete_branches)
        /\ delete_branches' = << >> /\ branches' = << >>
        /\ UNCHANGED <<job, script, batch, marks, failed, refs>>
    BY DEF EndDeletes, position, repository, MovesInv, NothingStaged
  <1>2. /\ MarksUpTo(Len(Commands)) /\ DeletesUpTo(Len(Commands))
        /\ \A h \in 1..Len(Commands) :
                Commands[h].op = "create" => Moved(Commands[h].name)
        /\ \A q \in DOMAIN delete_branches : q < at => Moved(delete_branches[q])
    BY <1>1 DEF MovesInv, BatchInv
  <1>3. \A q \in DOMAIN delete_branches : q < at
    BY <1>1 DEF TypeInv, TypeOK
  <1>4. ASSUME NEW h \in 1..Len(Commands), Commands[h].op \in Updates
        PROVE  Moved(Commands[h].name)
    BY <1>2, <1>3, <1>4 DEF DeletesUpTo, Updates
  <1>5. BatchDone(batch)
    BY <1>1, <1>2, <1>4, AllIsDone DEF AtWork, MovesInv, ScriptInv, Building
  <1>6. BatchDone(batch)'
    <2>1. PICK k : k = batch
      OBVIOUS
    <2>2. BatchDone(k)'
      BY <1>1, <1>5, <2>1, DoneStays, MovedStays
    <2> QED
      BY <1>1, <2>1, <2>2 DEF BatchDone
  <1>7. WhereInv' /\ MarksInv' /\ ScriptInv'
    BY <1>1, KeepsPlaces DEF AtWork, Building
  <1> QED
    BY <1>1, <1>6, <1>7 DEF MovesInv, NothingStaged, BatchInv

\* One more batch is done.
LEMMA BatchEnds ==
  ASSUME TypeInv, Planned, MovesInv, Notify
  PROVE  MovesInv'
  <1>1. /\ pc = "notify" /\ pc' = "batch" /\ batch' = batch + 1 /\ batch \in Nat
        /\ UNCHANGED <<job, script, marks, failed, refs, branches, delete_branches>>
    BY DEF Notify, repository, TypeInv, TypeOK
  <1>2. \A e : BatchDone(e) => BatchDone(e)'
    BY <1>1, DoneStays, MovedStays
  <1>3. \A e \in 1..(batch' - 1) : e \in 1..(batch - 1) \/ e = batch
    BY <1>1
  <1>4. BatchDone(batch) /\ \A e \in 1..(batch - 1) : BatchDone(e)
    BY <1>1 DEF MovesInv, ScriptInv, BatchInv, AtWork, Building
  <1>5. ASSUME NEW e \in 1..(batch' - 1) PROVE BatchDone(e)'
    <2>1. BatchDone(e)
      BY <1>3, <1>4
    <2> QED
      BY <1>2, <2>1
  <1>6. ScriptInv'
    BY <1>1, <1>5 DEF ScriptInv, Building
  <1>7. WhereInv' /\ MarksInv'
    BY <1>1 DEF MovesInv, WhereInv, MarksInv
  <1> QED
    BY <1>1, <1>6, <1>7 DEF MovesInv, NothingStaged, BatchInv

LEMMA CommitKeepsMoves ==
  ASSUME TypeInv, Planned, MovesInv, CommitBatch
  PROVE  MovesInv'
  <1>1. CASE HookVetoes \/ DetachFails \/ MoveFails \/ DeleteFails
    BY <1>1, AbandonKeeps DEF HookVetoes, DetachFails, MoveFails, DeleteFails
  <1> QED
    BY <1>1, BatchIsAccepted, BranchIsMoved, MovesEnd, BranchIsDropped, DropsEnd,
       BatchEnds DEF CommitBatch

-----------------------------------------------------------------------------
(***************************************************************************)
(* Runs.                                                                   *)
(***************************************************************************)
LEMMA LoopKeepsMoves ==
  ASSUME TypeInv, MovesInv, RunScript \/ EndScript
  PROVE  MovesInv'
  <1>1. /\ UNCHANGED <<job, marks, refs, branches, delete_branches>>
        /\ pc' \in {"script", "batch"} /\ branches = << >> /\ delete_branches = << >>
        /\ pc' = "batch" => batch' = 1
    BY DEF RunScript, EndScript, staged, repository, MovesInv, NothingStaged
  <1>2. WhereInv' /\ MarksInv'
    BY <1>1 DEF MovesInv, WhereInv, MarksInv
  <1> QED
    BY <1>1, <1>2 DEF MovesInv, ScriptInv, NothingStaged, BatchInv, Building, AtWork

LEMMA CloseKeepsMoves ==
  ASSUME MovesInv, Close
  PROVE  MovesInv'
  <1>1. /\ UNCHANGED <<job, marks, refs>>
        /\ pc' \in {"checkout", "done", "error", "torn"}
    BY DEF Close, NothingToSwitch, SwitchBranch, SwitchCommit, SwitchTo, SwitchFails,
           Stop, CheckoutHead, CheckoutFails, repository
  <1>2. WhereInv' /\ MarksInv'
    BY <1>1 DEF MovesInv, WhereInv, MarksInv
  <1> QED
    BY <1>1, <1>2 DEF MovesInv, ScriptInv, NothingStaged, BatchInv, Building, AtWork

LEMMA StutterKeepsMoves ==
  ASSUME MovesInv, UNCHANGED vars
  PROVE  MovesInv'
  <1>1. UNCHANGED <<job, pc, script, batch, at, cursor, marks, branches,
                    delete_branches, failed, refs>>
    BY DEF vars
  <1>2. /\ Batches' = Batches /\ Commands' = Commands /\ BuiltHere' = BuiltHere
    BY <1>1, SameBatch
  <1>3. \A n : StagedUpTo(n) => StagedUpTo(n)'
    BY <1>1, StagedStays
  <1>4. \A name : Moved(name) => Moved(name)'
    BY <1>1, MovedStays
  <1>5. \A e : BatchDone(e) => BatchDone(e)'
    BY <1>1, <1>4, DoneStays
  <1>6. WhereInv' /\ MarksInv' /\ ScriptInv' /\ NothingStaged'
    BY <1>1, <1>2, <1>5 DEF MovesInv, WhereInv, MarksInv, ScriptInv, NothingStaged
  <1>7. BatchInv'
    <2>1. CASE pc = "stage"
      BY <1>1, <1>2, <1>3, <2>1 DEF MovesInv, BatchInv
    <2>2. CASE pc \in {"hook", "detach", "branch"}
      <3>1. AllStaged'
        BY <1>2, <1>3, <2>2 DEF MovesInv, BatchInv, AllStaged
      <3>2. pc = "branch" =>
                \A q \in 1..(at - 1) : q \in DOMAIN branches => Moved(branches[q][2])
        BY DEF MovesInv, BatchInv
      <3> QED
        BY <1>1, <2>2, <3>1, <3>2 DEF BatchInv, Moved
    <2>3. CASE pc = "delete"
      BY <1>1, <1>2, <2>3 DEF MovesInv, BatchInv, MarksUpTo, DeletesUpTo, Moved
    <2>4. CASE pc = "notify"
      <3>1. PICK k : k = batch
        OBVIOUS
      <3>2. BatchDone(k)'
        BY <1>5, <2>4, <3>1 DEF MovesInv, BatchInv
      <3> QED
        BY <1>1, <2>4, <3>1, <3>2 DEF BatchInv, BatchDone
    <2> QED
      BY <1>1, <2>1, <2>2, <2>3, <2>4 DEF BatchInv
  <1> QED
    BY <1>6, <1>7 DEF MovesInv

LEMMA StepKeepsMoves ==
  ASSUME TypeInv, Planned, MovesInv, [Next]_vars
  PROVE  MovesInv'
  BY LoopKeepsMoves, StageKeepsMoves, CommitKeepsMoves, CloseKeepsMoves,
     StutterKeepsMoves DEF Next, Ended

LEMMA InitMoves ==
  ASSUME Init
  PROVE  MovesInv
  <1>1. /\ pc = "script" /\ refs = job.refs /\ DOMAIN marks = {}
        /\ branches = << >> /\ delete_branches = << >>
    BY DEF Init
  <1> QED
    BY <1>1 DEF MovesInv, WhereInv, MarksInv, ScriptInv, NothingStaged, BatchInv,
                Building, AtWork

-----------------------------------------------------------------------------
(***************************************************************************)
(* The executor does no more than StackMoves allows.                       *)
(***************************************************************************)
PlannedInv ==
    /\ TypeInv /\ SoundPlan(job)
    /\ DryRunTouchesNothing
    /\ ~dry_run => MovesInv

LEMMA InitIsPlanned ==
  ASSUME Init, SoundPlan(job)
  PROVE  PlannedInv
  BY InitHasTypes, InitMoves DEF PlannedInv, DryRunTouchesNothing, Init

\* Only two steps move a branch.
LEMMA OthersMoveNothing ==
  ASSUME [Next]_vars, ~MoveBranch, ~DeleteBranch
  PROVE  UNCHANGED <<job, refs>>
  <1> USE DEF position, staged, repository
  <1>1. CASE Visible
    BY <1>1 DEF Visible, Detach, Notify, SwitchBranch, SwitchCommit, SwitchTo,
                CheckoutHead, CheckoutFails
  <1>2. CASE ~Visible
    BY <1>2, OtherStepsAreInvisible
  <1> QED
    BY <1>1, <1>2

LEMMA JobStays ==
  ASSUME [Next]_vars
  PROVE  job' = job
  BY OthersMoveNothing DEF MoveBranch, DeleteBranch

LEMMA PlannedStays ==
  ASSUME PlannedInv, [Next]_vars
  PROVE  PlannedInv'
  <1>1. job' = job
    BY JobStays
  <1>2. SoundPlan(job)' /\ dry_run' = dry_run
    BY <1>1 DEF PlannedInv, dry_run
  <1>3. TypeInv' /\ DryRunTouchesNothing'
    BY StepKeepsTypes, DryRunStaysHarmless DEF PlannedInv
  <1>4. ~dry_run => MovesInv'
    BY StepKeepsMoves DEF PlannedInv, Planned
  <1> QED
    BY <1>2, <1>3, <1>4 DEF PlannedInv

\* A step that puts a branch where it goes, with those it is stacked on there
\* already, is a move, or nothing at all.
LEMMA MoveIsAMove ==
  ASSUME TypeInv, Planned, WhereInv, job' = job, NEW name \in Branch,
         refs' = Updated(name, job.goal.new[name]),
         \A a \in job.goal.below[name] : Moved(a)
  PROVE  Branches!Next \/ UNCHANGED <<job.goal, refs>>
  <1>1. /\ refs \in [Branch -> Commit \cup {NoCommit}] /\ ~dry_run
        /\ job.goal.old = job.refs
    BY DEF TypeInv, TypeOK, Planned, SoundPlan
  <1>2. refs' = [refs EXCEPT ![name] = job.goal.new[name]]
    BY <1>1 DEF Updated
  <1>3. CASE refs[name] = job.goal.new[name]
    BY <1>1, <1>2, <1>3
  <1>4. CASE refs[name] # job.goal.new[name]
    <2>1. refs[name] = job.goal.old[name]
      BY <1>1, <1>4 DEF WhereInv
    <2>2. Branches!Move(name)
      BY <1>2, <2>1 DEF Branches!Move, Moved
    <2> QED
      BY <2>2 DEF Branches!Next
  <1> QED
    BY <1>3, <1>4

LEMMA StepIsAMove ==
  ASSUME PlannedInv, [Next]_vars
  PROVE  Branches!Next \/ UNCHANGED <<job.goal, refs>>
  <1>1. job' = job
    BY JobStays
  <1>2. CASE MoveBranch \/ DeleteBranch
    <2>1. CASE dry_run
      BY <1>1, <1>2, <2>1 DEF MoveBranch, DeleteBranch, Updated
    <2>2. CASE ~dry_run
      <3>1. Planned /\ TypeInv /\ MovesInv
        BY <2>2 DEF PlannedInv, Planned
      <3>2. CASE MoveBranch
        <4>1. PICK name \in Branch :
                    /\ name = branches[at][2]
                    /\ refs' = Updated(name, job.goal.new[name])
                    /\ \A a \in job.goal.below[name] : Moved(a)
          BY <3>1, <3>2, MoveIsSound
        <4> QED
          BY <1>1, <3>1, <4>1, MoveIsAMove DEF MovesInv
      <3>3. CASE DeleteBranch
        <4>1. PICK name \in Branch :
                    /\ name = delete_branches[at]
                    /\ refs' = Updated(name, job.goal.new[name])
                    /\ \A a \in job.goal.below[name] : Moved(a)
          BY <3>1, <3>3, DropIsSound
        <4> QED
          BY <1>1, <3>1, <4>1, MoveIsAMove DEF MovesInv
      <3> QED
        BY <1>2, <3>2, <3>3
    <2> QED
      BY <2>1, <2>2
  <1>3. CASE ~MoveBranch /\ ~DeleteBranch
    BY <1>3, OthersMoveNothing
  <1> QED
    BY <1>2, <1>3

\* Whatever git fails at, and wherever the command is killed, a branch is where
\* it was or where the graph puts it, it gets there in one step, and after the
\* branches it is stacked on: for any plan whose scripts do so when nothing fails.
THEOREM StacksOnlyMoveUpwards == Spec /\ SoundPlan(job) => StacksMoveUpwards
  <1>1. Init /\ SoundPlan(job) => PlannedInv
    BY InitIsPlanned
  <1>2. PlannedInv /\ [Next]_vars => PlannedInv'
    BY PlannedStays
  <1>3. Init /\ SoundPlan(job) => Branches!Init
    <2>1. Init => job.goal \in Goal
      BY JobsAreSound DEF Init, Job
    <2> QED
      BY <2>1 DEF Init, SoundPlan, Branches!Init
  <1>4. PlannedInv /\ [Next]_vars => [Branches!Next]_<<job.goal, refs>>
    BY StepIsAMove
  <1> QED
    BY <1>1, <1>2, <1>3, <1>4, PTL DEF Spec, StacksMoveUpwards, Branches!Spec

-----------------------------------------------------------------------------
(***************************************************************************)
(* The executor does all the graph asks for when nothing fails.            *)
(***************************************************************************)
\* A batch the run has left behind.
Before(s, k) == s < script \/ (s = script /\ pc \in AtWork /\ k < batch)

Gone(b) ==
    \/ \E s \in DOMAIN Scripts : \E k \in DOMAIN Scripts[s] :
            Before(s, k) /\ b \in DeletedIn(Scripts[s][k])
    \/ pc = "delete" /\ \E q \in DOMAIN delete_branches : q < at /\ delete_branches[q] = b
    \/ pc = "notify" /\ b \in DeletedIn(Here)

\* A branch to delete is there until its turn comes: git has no reason to refuse.
GoneInv ==
    \A b \in Branch : job.goal.new[b] = NoCommit /\ refs[b] # job.refs[b] => Gone(b)

DropsInv ==
    pc \in Building =>
        \A q \in DOMAIN delete_branches :
            /\ \E h \in DOMAIN Commands :
                    /\ pc = "stage" => h < at
                    /\ Commands[h].op = "delete"
                    /\ Commands[h].name = delete_branches[q]
            /\ \A p \in DOMAIN delete_branches :
                    delete_branches[p] = delete_branches[q] => p = q

\* Neither has it for a branch to move: HEAD is on none.
HeadIsOff == pc \in {"branch", "delete"} => head.on = NoBranch

\* A success is one of all batches of the scripts so far.
SuccessInv ==
    /\ success => ~failed
    /\ success => \A s \in DOMAIN Scripts : s < script =>
            \A k \in DOMAIN Scripts[s] : \A name \in UpdatedIn(Scripts[s][k]) : Moved(name)

\* Where HEAD's commit is before each command of the batch.
HeadsHere(s0, k0) ==
    HeadsBy(HeadOnceIt(job, Passed(s0, k0, script, batch - 1)), Commands, BuiltHere)

\* head_id is where the batches so far have taken the commit of a detached HEAD.
HeadStands(s0, k0) ==
    /\ pc = "script" =>
        head_id = IF script = 1 THEN NoCommit ELSE HeadOnceIt(job, s0 < script)
    /\ pc = "batch" => head_id = HeadOnceIt(job, Passed(s0, k0, script, batch - 1))
    /\ pc = "stage" => head_id = HeadsHere(s0, k0)[at]
    /\ pc \in Building \ {"stage"} => head_id = HeadOnceIt(job, Passed(s0, k0, script, batch))

HeadInv ==
    success /\ restore_branch = NoBranch /\ BatchesOf(job) # {} =>
        \E s0 \in DOMAIN Scripts : \E k0 \in DOMAIN Scripts[s0] :
            HeadTurns(job, s0, k0) /\ HeadStands(s0, k0)

HeadIsKnown ==
    /\ detached => BatchesOf(job) # {}
    /\ restore_branch = NoBranch =>
        /\ pc \in AtWork \/ script > 1 => head_id # NoCommit
        /\ detached => head_id # NoCommit

\* At the end.
EndInv ==
    pc \in {"checkout", "done"} =>
        /\ success => refs = job.goal.new
        /\ detached /\ restore_branch # NoBranch => head.on = restore_branch
        /\ detached /\ restore_branch = NoBranch /\ success =>
            head = [on |-> NoBranch, at |-> job.goal.head]

CleanInv ==
    /\ GoneInv /\ DropsInv /\ HeadIsOff /\ SuccessInv
    /\ HeadInv /\ HeadIsKnown /\ EndInv

-----------------------------------------------------------------------------
(***************************************************************************)
(* Git has no reason of its own to refuse an update.                       *)
(***************************************************************************)
LEMMA HeadStaysOff ==
  ASSUME Planned, HeadIsOff, [Next]_vars
  PROVE  HeadIsOff'
  <1> USE DEF HeadIsOff, position, staged, repository
  <1>1. CASE RunScript \/ EndScript
    BY <1>1 DEF RunScript, EndScript
  <1>2. CASE Stage
    BY <1>2 DEF Stage, StageBatch, StageMark, StagePick, StageReword, StageFixup,
                StageCreate, StageDelete, StageFails, EndBatch, Staging, Abandon
  <1>3. CASE CommitBatch
    BY <1>3 DEF CommitBatch, HookAccepts, HookVetoes, Detach, DetachFails, MoveBranch,
                MoveFails, EndMoves, DeleteBranch, DeleteFails, EndDeletes, Notify,
                MovingBranch, DeletingBranch, Abandon, Planned
  <1>4. CASE Close
    BY <1>4 DEF Close, NothingToSwitch, SwitchBranch, SwitchCommit, SwitchTo,
                SwitchFails, Stop, CheckoutHead, CheckoutFails
  <1>5. CASE Ended \/ UNCHANGED vars
    BY <1>5 DEF Ended, vars
  <1> QED
    BY <1>1, <1>2, <1>3, <1>4, <1>5 DEF Next

\* How a step goes on in the scripts.
LEMMA StepGoesOn ==
  ASSUME [Next]_vars
  PROVE  \/ UNCHANGED <<script, batch>> /\ (pc' \in AtWork <=> pc \in AtWork)
         \/ script' = script + 1 /\ pc \in AtWork /\ pc' = "script"
         \/ script' = script /\ batch' = batch + 1 /\ pc \in AtWork /\ pc' \in AtWork
         \/ script' = script /\ pc = "script"
  <1> USE DEF AtWork, position
  <1>1. CASE RunScript \/ EndScript
    BY <1>1 DEF RunScript, EndScript
  <1>2. CASE Stage
    BY <1>2 DEF Stage, StageBatch, StageMark, StagePick, StageReword, StageFixup,
                StageCreate, StageDelete, StageFails, EndBatch, Staging, Abandon
  <1>3. CASE CommitBatch
    BY <1>3 DEF CommitBatch, HookAccepts, HookVetoes, Detach, DetachFails, MoveBranch,
                MoveFails, EndMoves, DeleteBranch, DeleteFails, EndDeletes, Notify,
                MovingBranch, DeletingBranch, Abandon
  <1>4. CASE Close
    BY <1>4 DEF Close, Closing, NothingToSwitch, SwitchBranch, SwitchCommit, SwitchTo,
                SwitchFails, Stop, CheckoutHead, CheckoutFails
  <1>5. CASE Ended \/ UNCHANGED vars
    BY <1>5 DEF Ended, vars
  <1> QED
    BY <1>1, <1>2, <1>3, <1>4, <1>5 DEF Next

LEMMA BeforeStays ==
  ASSUME TypeInv, [Next]_vars, NEW s \in Nat, NEW k, Before(s, k), k \in Nat
  PROVE  Before(s, k)'
  <1>1. script \in Nat /\ batch \in Nat
    BY DEF TypeInv, TypeOK
  <1>2. pc = "script" => pc \notin AtWork
    BY DEF AtWork
  <1> QED
    BY <1>1, <1>2, StepGoesOn DEF Before

\* The deletions pending in a batch are those of its commands, each once.
LEMMA DropsStay ==
  ASSUME TypeInv, Planned, MovesInv, DropsInv, [Next]_vars
  PROVE  DropsInv'
  <1>1. ASSUME UNCHANGED <<job, script, batch, delete_branches>>, pc \in Building,
               pc' = "stage" => pc = "stage" /\ at' >= at
        PROVE  DropsInv'
    <2>1. Commands' = Commands
      BY <1>1, SameBatch
    <2>2. ASSUME NEW h \in DOMAIN Commands, pc = "stage", h < at, pc' = "stage"
          PROVE  h < at'
      <3>1. pc \in AtWork /\ batch <= Len(Batches)
        BY <1>1 DEF AtWork, MovesInv, ScriptInv, Building
      <3>2. h \in Nat /\ at \in Nat /\ at' \in Nat
        BY <3>1, HereIsSound, StepKeepsTypes DEF TypeInv, TypeOK
      <3> QED
        BY <1>1, <2>2, <3>2
    <2> QED
      BY <1>1, <2>1, <2>2 DEF DropsInv
  <1>2. ASSUME delete_branches' = << >> PROVE DropsInv'
    BY <1>2 DEF DropsInv
  <1>3. ASSUME pc' \notin Building PROVE DropsInv'
    BY <1>3 DEF DropsInv
  <1>4. CASE StageDelete
    <2>1. /\ pc = "stage" /\ at <= Len(Commands) /\ at' = at + 1 /\ Cmd.op = "delete"
          /\ UNCHANGED <<job, pc, script, batch>>
          /\ delete_branches' = Append(delete_branches, Cmd.name)
      BY <1>4 DEF StageDelete, Staging, position
    <2>2. PICK n \in 0..Len(Commands) :
            /\ at = n + 1 /\ n + 1 \in 1..Len(Commands) /\ Cmd = Commands[n + 1]
            /\ Len(Commands) \in Nat
      BY <2>1, Standing
    <2>3. /\ pc \in AtWork /\ batch <= Len(Batches) /\ pc \in Building
          /\ DOMAIN Commands = 1..Len(Commands)
      BY <2>1, HereIsSound DEF AtWork, MovesInv, ScriptInv, Building
    <2>4. /\ DOMAIN delete_branches = 1..Len(delete_branches)
          /\ Len(delete_branches) \in Nat
          /\ DOMAIN delete_branches' = 1..(Len(delete_branches) + 1)
          /\ \A q \in 1..Len(delete_branches) : delete_branches'[q] = delete_branches[q]
          /\ delete_branches'[Len(delete_branches) + 1] = Cmd.name
      BY <2>1 DEF TypeInv, TypeOK
    <2>5. \A g, h \in DOMAIN Commands :
                /\ Commands[g].op = "delete" /\ Commands[h].op = "delete"
                /\ Commands[g].name = Commands[h].name
                => g = h
      <3>1. script \in DOMAIN job.scripts /\ batch \in DOMAIN job.scripts[script]
        BY <2>3, CurrentBatch DEF TypeInv, TypeOK, Position, Scripts, Batches
      <3>2. Commands = job.scripts[script][batch].commands
        BY DEF Commands, Batches, Scripts
      <3>3. DeletesAreSound(job)
        BY DEF Planned, SoundPlan, dry_run
      <3> QED
        BY <3>1, <3>2, <3>3 DEF DeletesAreSound
    <2>6. ASSUME NEW q \in DOMAIN delete_branches
          PROVE  /\ \E h \in DOMAIN Commands :
                        /\ h < at /\ Commands[h].op = "delete"
                        /\ Commands[h].name = delete_branches[q]
                 /\ delete_branches[q] # Cmd.name
                 /\ \A p \in DOMAIN delete_branches :
                        delete_branches[p] = delete_branches[q] => p = q
      BY <2>1, <2>2, <2>3, <2>5 DEF DropsInv
    <2>7. Commands' = Commands
      BY <2>1, SameBatch
    <2>8. ASSUME NEW q \in DOMAIN delete_branches'
          PROVE  /\ \E h \in DOMAIN Commands :
                        /\ h < at' /\ Commands[h].op = "delete"
                        /\ Commands[h].name = delete_branches'[q]
                 /\ \A p \in DOMAIN delete_branches' :
                        delete_branches'[p] = delete_branches'[q] => p = q
      <3>1. CASE q \in DOMAIN delete_branches
        <4>1. PICK h \in DOMAIN Commands :
                    /\ h < at /\ Commands[h].op = "delete"
                    /\ Commands[h].name = delete_branches[q]
          BY <2>6, <3>1
        <4>2. h < at'
          BY <2>1, <2>2, <2>3, <4>1
        <4> QED
          BY <2>4, <2>6, <3>1, <4>1, <4>2
      <3>2. CASE q = Len(delete_branches) + 1
        <4>1. at \in DOMAIN Commands /\ at < at' /\ Commands[at] = Cmd
          BY <2>1, <2>2, <2>3
        <4> QED
          BY <2>1, <2>4, <2>6, <3>2, <4>1
      <3> QED
        BY <2>4, <3>1, <3>2
    <2> QED
      BY <2>1, <2>7, <2>8 DEF DropsInv
  <1>5. CASE RunScript \/ EndScript
    BY <1>3, <1>5 DEF RunScript, EndScript, Building
  <1>6. CASE Stage
    <2>1. CASE StageBatch
      <3>1. delete_branches' = << >>
        BY <2>1 DEF StageBatch, MovesInv, NothingStaged
      <3> QED
        BY <1>2, <3>1
    <2>2. CASE StageFails
      BY <1>2, <2>2 DEF StageFails, Abandon
    <2>3. CASE StageMark \/ StagePick \/ StageReword \/ StageFixup \/ StageCreate \/ EndBatch
      <3>1. /\ UNCHANGED <<job, script, batch, delete_branches>> /\ pc = "stage"
            /\ pc' = "stage" => at' = at + 1
        BY <2>3 DEF StageMark, StagePick, StageReword, StageFixup, StageCreate, EndBatch,
                    Staging, position, staged
      <3>2. pc' = "stage" => at' >= at
        BY <3>1 DEF TypeInv, TypeOK
      <3> QED
        BY <1>1, <3>1, <3>2 DEF Building
    <2> QED
      BY <1>4, <1>6, <2>1, <2>2, <2>3 DEF Stage
  <1>7. CASE CommitBatch
    <2>1. CASE HookVetoes \/ DetachFails \/ MoveFails \/ DeleteFails
      BY <1>2, <2>1 DEF HookVetoes, DetachFails, MoveFails, DeleteFails, Abandon
    <2>2. CASE EndDeletes \/ Notify
      BY <1>2, <1>3, <2>2 DEF EndDeletes, Notify, Building
    <2>3. CASE HookAccepts \/ Detach \/ MoveBranch \/ EndMoves \/ DeleteBranch
      <3>1. /\ UNCHANGED <<job, script, batch, delete_branches>> /\ pc \in Building
            /\ pc' # "stage"
        BY <2>3 DEF HookAccepts, Detach, MoveBranch, MovingBranch, EndMoves, DeleteBranch,
                    DeletingBranch, position, staged, Building
      <3> QED
        BY <1>1, <3>1
    <2> QED
      BY <1>7, <2>1, <2>2, <2>3 DEF CommitBatch
  <1>8. CASE Close
    BY <1>3, <1>8 DEF Close, NothingToSwitch, SwitchBranch, SwitchCommit, SwitchTo,
                      SwitchFails, Stop, CheckoutHead, CheckoutFails, Building
  <1>9. CASE Ended \/ UNCHANGED vars
    BY <1>9 DEF Ended, vars, DropsInv, Commands, Batches, Scripts
  <1> QED
    BY <1>5, <1>6, <1>7, <1>8, <1>9 DEF Next

\* What is gone when a batch ends is among what the batch deletes.
LEMMA DropsAreOfTheBatch ==
  ASSUME TypeInv, Planned, MovesInv, DropsInv, pc \in Building
  PROVE  /\ script \in DOMAIN Scripts /\ batch \in DOMAIN Batches
         /\ script \in Nat /\ batch \in Nat
         /\ Here = Scripts[script][batch]
         /\ \A q \in DOMAIN delete_branches : delete_branches[q] \in DeletedIn(Here)
  <1>1. pc \in AtWork /\ batch <= Len(Batches)
    BY DEF AtWork, MovesInv, ScriptInv, Building
  <1>2. script \in DOMAIN Scripts /\ batch \in DOMAIN Batches
    BY <1>1, CurrentBatch DEF TypeInv, TypeOK, Position
  <1>3. \A q \in DOMAIN delete_branches : delete_branches[q] \in DeletedIn(Here)
    BY DEF DropsInv, DeletedIn, Range, Commands, Here
  <1> QED
    BY <1>2, <1>3 DEF TypeInv, TypeOK, Here, Batches

LEMMA GoneStays ==
  ASSUME TypeInv, Planned, MovesInv, DropsInv, [Next]_vars, NEW b, Gone(b)
  PROVE  Gone(b)'
  <1>1. job' = job /\ Scripts' = Scripts
    BY JobStays DEF Scripts
  <1>2. Scripts \in Seq(Script)
    BY JobParts DEF TypeInv, Position, Scripts
  <1>3. CASE \E s \in DOMAIN Scripts : \E k \in DOMAIN Scripts[s] :
                Before(s, k) /\ b \in DeletedIn(Scripts[s][k])
    <2>1. PICK s \in DOMAIN Scripts : \E k \in DOMAIN Scripts[s] :
                Before(s, k) /\ b \in DeletedIn(Scripts[s][k])
      BY <1>3
    <2>2. PICK k \in DOMAIN Scripts[s] : Before(s, k) /\ b \in DeletedIn(Scripts[s][k])
      BY <2>1
    <2>3. Scripts[s] \in Seq(Batch)
      BY <1>2, ElementOfSeq DEF Script
    <2>4. s \in Nat /\ k \in Nat
      BY <1>2, <2>3
    <2>5. Before(s, k)'
      BY <2>2, <2>4, BeforeStays
    <2> QED
      BY <1>1, <2>2, <2>5 DEF Gone
  <1>4. ASSUME UNCHANGED <<script, batch, delete_branches>>, pc = "delete", pc' = "delete",
               at' >= at, \E q \in DOMAIN delete_branches : q < at /\ delete_branches[q] = b
        PROVE  Gone(b)'
    <2>1. PICK q \in DOMAIN delete_branches : q < at /\ delete_branches[q] = b
      BY <1>4
    <2>2. q \in Nat /\ at \in Nat /\ at' \in Nat
      BY StepKeepsTypes DEF TypeInv, TypeOK
    <2>3. q < at'
      BY <1>4, <2>1, <2>2
    <2> QED
      BY <1>4, <2>1, <2>3 DEF Gone
  <1>5. ASSUME pc \in Building, b \in DeletedIn(Here),
               \/ UNCHANGED <<script, batch>> /\ pc' = "notify"
               \/ script' = script /\ batch' = batch + 1 /\ pc' = "batch"
        PROVE  Gone(b)'
    <2>1. /\ script \in DOMAIN Scripts /\ batch \in DOMAIN Batches
          /\ script \in Nat /\ batch \in Nat /\ Here = Scripts[script][batch]
          /\ Batches = Scripts[script]
      BY <1>5, DropsAreOfTheBatch DEF Batches
    <2>2. CASE UNCHANGED <<script, batch>> /\ pc' = "notify"
      BY <1>1, <1>5, <2>1, <2>2, SameBatch DEF Gone
    <2>3. CASE script' = script /\ batch' = batch + 1 /\ pc' = "batch"
      <3>1. PICK s \in Nat, k \in Nat : s = script /\ k = batch
        BY <2>1
      <3>2. Before(s, k)'
        BY <2>3, <3>1 DEF Before, AtWork
      <3> QED
        BY <1>1, <1>5, <2>1, <3>1, <3>2 DEF Gone
    <2> QED
      BY <1>5, <2>2, <2>3
  <1>6. CASE pc = "delete" /\ \E q \in DOMAIN delete_branches : q < at /\ delete_branches[q] = b
    <2>1. pc \in Building /\ b \in DeletedIn(Here)
      BY <1>6, DropsAreOfTheBatch DEF Building
    <2>2. CASE DeleteBranch
      <3>1. at' >= at
        BY <2>2 DEF DeleteBranch, TypeInv, TypeOK
      <3> QED
        BY <1>4, <1>6, <2>2, <3>1 DEF DeleteBranch, DeletingBranch, position, staged
    <2>3. CASE DeleteFails
      BY <1>5, <2>1, <2>3 DEF DeleteFails, Abandon
    <2>4. CASE EndDeletes
      BY <1>5, <2>1, <2>4 DEF EndDeletes, position
    <2>5. CASE UNCHANGED vars
      <3>1. UNCHANGED <<script, batch, delete_branches, pc, at>>
        BY <2>5 DEF vars
      <3>2. at' >= at
        BY <3>1 DEF TypeInv, TypeOK
      <3> QED
        BY <1>4, <1>6, <3>1, <3>2
    <2> QED
      BY <1>6, <2>2, <2>3, <2>4, <2>5
         DEF Next, RunScript, EndScript, Stage, StageBatch, StageMark, StagePick,
             StageReword, StageFixup, StageCreate, StageDelete, StageFails, EndBatch,
             Staging, CommitBatch, HookAccepts, HookVetoes, Detach, DetachFails,
             MoveBranch, MoveFails, MovingBranch, EndMoves, Notify, Close,
             NothingToSwitch, Closing, SwitchBranch, SwitchCommit, SwitchFails,
             CheckoutHead, CheckoutFails, Ended
  <1>7. CASE pc = "notify" /\ b \in DeletedIn(Here)
    <2>1. CASE Notify
      BY <1>5, <1>7, <2>1 DEF Notify, Building
    <2>2. CASE UNCHANGED vars
      BY <1>5, <1>7, <2>2 DEF vars, Building
    <2> QED
      BY <1>7, <2>1, <2>2
         DEF Next, RunScript, EndScript, Stage, StageBatch, StageMark, StagePick,
             StageReword, StageFixup, StageCreate, StageDelete, StageFails, EndBatch,
             Staging, CommitBatch, HookAccepts, HookVetoes, Detach, DetachFails,
             MoveBranch, MoveFails, MovingBranch, EndMoves, DeleteBranch, DeleteFails,
             DeletingBranch, EndDeletes, Close, NothingToSwitch, Closing, SwitchBranch,
             SwitchCommit, SwitchFails, CheckoutHead, CheckoutFails, Ended
  <1> QED
    BY <1>3, <1>6, <1>7 DEF Gone

LEMMA GoneKept ==
  ASSUME TypeInv, Planned, MovesInv, DropsInv, GoneInv, [Next]_vars
  PROVE  GoneInv'
  <1>1. job' = job
    BY JobStays
  <1>2. SUFFICES ASSUME NEW b \in Branch, job.goal.new[b] = NoCommit, refs'[b] # job.refs[b]
                 PROVE  Gone(b)'
    BY <1>1 DEF GoneInv
  <1>3. CASE refs'[b] = refs[b]
    BY <1>2, <1>3, GoneStays DEF GoneInv
  <1>4. CASE MoveBranch
    <2>1. /\ pc = "branch" /\ at <= Len(branches)
          /\ refs' = Updated(branches[at][2], branches[at][1])
      BY <1>4 DEF MoveBranch, MovingBranch
    <2>2. at \in DOMAIN branches /\ branches[at] \in Commit \X Branch
      BY <2>1 DEF TypeInv, TypeOK, Position
    <2>3. job.goal.new[branches[at][2]] = branches[at][1]
      BY <2>1, <2>2 DEF MovesInv, BatchInv, AllStaged, StagedUpTo, MovesAreSound
    <2>4. branches[at][1] # NoCommit
      BY <2>2 DEF Commit, NoCommit
    <2>5. b # branches[at][2]
      BY <1>2, <2>3, <2>4
    <2>6. refs'[b] = refs[b]
      BY <2>1, <2>5 DEF Updated, TypeInv, TypeOK
    <2> QED
      BY <1>3, <2>6
  <1>5. CASE DeleteBranch
    <2>1. /\ pc = "delete" /\ at <= Len(delete_branches) /\ pc' = "delete" /\ at' = at + 1
          /\ refs' = Updated(delete_branches[at], NoCommit)
          /\ delete_branches' = delete_branches
      BY <1>5 DEF DeleteBranch, DeletingBranch, staged
    <2>2. at \in DOMAIN delete_branches /\ at \in Nat
      BY <2>1 DEF TypeInv, TypeOK, Position
    <2>3. CASE b = delete_branches[at]
      <3>1. at < at'
        BY <2>1, <2>2
      <3> QED
        BY <2>1, <2>2, <2>3, <3>1 DEF Gone
    <2>4. CASE b # delete_branches[at]
      <3>1. refs'[b] = refs[b]
        BY <2>1, <2>4 DEF Updated, TypeInv, TypeOK
      <3> QED
        BY <1>3, <3>1
    <2> QED
      BY <2>3, <2>4
  <1> QED
    BY <1>3, <1>4, <1>5, OthersMoveNothing

\* Only a fault keeps a branch from being moved, or deleted.
LEMMA FailuresAreFaults ==
  ASSUME TypeInv, Planned, MovesInv, DropsInv, GoneInv, HeadIsOff, MoveFails \/ DeleteFails
  PROVE  Fault
  <1>1. CASE MoveFails
    <2>1. at \in DOMAIN branches /\ branches[at] \in Commit \X Branch
      BY <1>1 DEF MoveFails, MovingBranch, TypeInv, TypeOK, Position
    <2>2. head.on # branches[at][2]
      BY <1>1, <2>1, NoBranchIsNoName DEF MoveFails, MovingBranch, HeadIsOff
    <2> QED
      BY <1>1, <2>2 DEF MoveFails
  <1>2. CASE DeleteFails
    <2>1. /\ pc = "delete" /\ at <= Len(delete_branches) /\ at \in DOMAIN delete_branches
          /\ delete_branches[at] \in Branch /\ at \in Nat
      BY <1>2 DEF DeleteFails, DeletingBranch, TypeInv, TypeOK, Position
    <2> DEFINE b == delete_branches[at]
    <2>2. head.on # b
      BY <2>1, NoBranchIsNoName DEF HeadIsOff
    <2>3. /\ script \in DOMAIN Scripts /\ batch \in DOMAIN Batches
          /\ script \in Nat /\ batch \in Nat /\ Here = Scripts[script][batch]
          /\ b \in DeletedIn(Here)
      BY <2>1, DropsAreOfTheBatch DEF Building
    <2>4. DeletesAreSound(job)
      BY DEF Planned, SoundPlan, dry_run
    <2>5. job.refs[b] # NoCommit
      BY <2>3, <2>4 DEF DeletesAreSound, Scripts, Batches
    <2>6. ~Gone(b)
      <3>1. ASSUME NEW s \in DOMAIN Scripts, NEW k \in DOMAIN Scripts[s], Before(s, k)
            PROVE  b \notin DeletedIn(Scripts[s][k])
        <4>1. s # script \/ k # batch
          BY <2>3, <3>1 DEF Before
        <4>2. DeletedIn(Scripts[s][k]) \cap DeletedIn(Scripts[script][batch]) = {}
          BY <2>3, <2>4, <4>1 DEF DeletesAreSound, Scripts, Batches
        <4> QED
          BY <2>3, <4>2
      <3>2. ASSUME NEW q \in DOMAIN delete_branches, q < at PROVE delete_branches[q] # b
        BY <2>1, <3>2 DEF DropsInv, Building
      <3> QED
        BY <2>1, <3>1, <3>2 DEF Gone
    <2>7. job.goal.new[b] = NoCommit
      BY <2>1 DEF MovesInv, BatchInv
    <2>8. refs[b] = job.refs[b]
      BY <2>1, <2>6, <2>7 DEF GoneInv
    <2>9. CanDelete(b)
      BY <2>2, <2>5, <2>8 DEF CanDelete
    <2> QED
      BY <1>2, <2>9 DEF DeleteFails
  <1> QED
    BY <1>1, <1>2

-----------------------------------------------------------------------------
(***************************************************************************)
(* Without a fault, every batch of every script is done.                   *)
(***************************************************************************)
LEMMA FaultlessSucceeds ==
  ASSUME TypeInv, SoundPlan(job), faults = 0 => success, [Next]_vars,
         ~dry_run => MovesInv /\ DropsInv /\ GoneInv /\ HeadIsOff
  PROVE  faults' = 0 => success'
  <1> USE DEF position, staged, repository
  <1>1. ASSUME Fault PROVE faults' # 0
    BY <1>1 DEF Fault, TypeInv, TypeOK
  <1>2. CASE MoveFails \/ DeleteFails
    <2>1. ~dry_run
      BY <1>2 DEF MoveFails, DeleteFails
    <2>2. Fault
      BY <1>2, <2>1, FailuresAreFaults DEF Planned
    <2> QED
      BY <1>1, <2>2
  <1>3. CASE StageFails \/ HookVetoes \/ DetachFails
    BY <1>1, <1>3 DEF StageFails, HookVetoes, DetachFails
  <1>4. CASE SwitchFails \/ CheckoutFails
    BY <1>1, <1>4 DEF SwitchFails, Stop, CheckoutFails
  <1>5. CASE RunScript \/ EndScript
    BY <1>5 DEF RunScript, EndScript
  <1>6. CASE Stage /\ ~StageFails
    BY <1>6 DEF Stage, StageBatch, StageMark, StagePick, StageReword, StageFixup,
                StageCreate, StageDelete, EndBatch
  <1>7. CASE CommitBatch /\ ~(HookVetoes \/ DetachFails \/ MoveFails \/ DeleteFails)
    BY <1>7 DEF CommitBatch, HookAccepts, Detach, MoveBranch, EndMoves, DeleteBranch,
                EndDeletes, Notify
  <1>8. CASE NothingToSwitch \/ SwitchBranch \/ SwitchCommit \/ CheckoutHead
    BY <1>8 DEF NothingToSwitch, SwitchBranch, SwitchCommit, SwitchTo, CheckoutHead
  <1>9. CASE Ended \/ UNCHANGED vars
    BY <1>9 DEF Ended, vars
  <1> QED
    BY <1>2, <1>3, <1>4, <1>5, <1>6, <1>7, <1>8, <1>9 DEF Next, Close

LEMMA MovedForGood ==
  ASSUME TypeInv, Planned, MovesInv, [Next]_vars
  PROVE  \A name : Moved(name) => Moved(name)'
  <1>1. job' = job
    BY JobStays
  <1>2. CASE MoveBranch
    <2>1. PICK name \in Branch : refs' = Updated(name, job.goal.new[name])
      BY <1>2, MoveIsSound
    <2> QED
      BY <1>1, <2>1, MovesThere DEF MovesInv
  <1>3. CASE DeleteBranch
    <2>1. PICK name \in Branch : refs' = Updated(name, job.goal.new[name])
      BY <1>3, DropIsSound
    <2> QED
      BY <1>1, <2>1, MovesThere DEF MovesInv
  <1> QED
    BY <1>1, <1>2, <1>3, OthersMoveNothing, MovedStays

\* What a step makes of `success' and `failed'.
LEMMA SuccessIsKept ==
  ASSUME [Next]_vars, success'
  PROVE  /\ success
         /\ failed' = failed \/ failed' = FALSE
         /\ script' # script => EndScript
  <1> USE DEF position, staged, repository
  <1>1. CASE RunScript \/ EndScript
    BY <1>1 DEF RunScript, EndScript
  <1>2. CASE Stage
    BY <1>2 DEF Stage, StageBatch, StageMark, StagePick, StageReword, StageFixup,
                StageCreate, StageDelete, StageFails, EndBatch, Abandon
  <1>3. CASE CommitBatch
    BY <1>3 DEF CommitBatch, HookAccepts, HookVetoes, Detach, DetachFails, MoveBranch,
                MoveFails, EndMoves, DeleteBranch, DeleteFails, EndDeletes, Notify, Abandon
  <1>4. CASE Close
    BY <1>4 DEF Close, NothingToSwitch, SwitchBranch, SwitchCommit, SwitchTo,
                SwitchFails, Stop, CheckoutHead, CheckoutFails
  <1>5. CASE Ended \/ UNCHANGED vars
    BY <1>5 DEF Ended, vars
  <1> QED
    BY <1>1, <1>2, <1>3, <1>4, <1>5 DEF Next

LEMMA SuccessStays ==
  ASSUME TypeInv, Planned, MovesInv, SuccessInv, [Next]_vars
  PROVE  SuccessInv'
  <1>1. SUFFICES ASSUME success'
                 PROVE  /\ ~failed'
                        /\ \A s \in DOMAIN Scripts : s < script' =>
                            \A k \in DOMAIN Scripts[s] :
                                \A name \in UpdatedIn(Scripts[s][k]) : Moved(name)'
    <2>1. Scripts' = Scripts
      BY JobStays DEF Scripts
    <2> QED
      BY <2>1 DEF SuccessInv
  <1>2. success /\ ~failed /\ ~failed'
    <2>1. success /\ (failed' = failed \/ failed' = FALSE)
      BY <1>1, SuccessIsKept
    <2>2. ~failed
      BY <2>1 DEF SuccessInv
    <2>3. CASE failed' = failed
      BY <2>1, <2>2, <2>3, Zenon
    <2>4. CASE failed' = FALSE
      BY <2>1, <2>2, <2>4, Zenon
    <2> QED
      BY <2>1, <2>3, <2>4
  <1>3. Scripts \in Seq(Script)
    BY JobParts DEF TypeInv, Position, Scripts
  <1>4. ASSUME NEW s \in DOMAIN Scripts, s < script', NEW k \in DOMAIN Scripts[s],
               NEW name \in UpdatedIn(Scripts[s][k])
        PROVE  Moved(name)
    <2>1. CASE s < script
      BY <1>2, <1>4, <2>1 DEF SuccessInv
    <2>2. CASE ~(s < script)
      <3>1. s \in Nat /\ script \in Nat
        BY <1>3 DEF TypeInv, TypeOK
      <3>2. EndScript
        BY <1>1, <1>4, <2>2, SuccessIsKept
      <3>3. pc = "batch" /\ batch > Len(Batches) /\ s = script /\ batch \in Nat
        BY <1>2, <1>4, <2>2, <3>1, <3>2 DEF EndScript, TypeInv, TypeOK
      <3>4. k \in 1..(batch - 1) /\ Scripts[s][k] = Batches[k]
        BY <3>3, CurrentBatch DEF Batches, AtWork
      <3> QED
        BY <1>2, <1>4, <3>3, <3>4 DEF MovesInv, ScriptInv, BatchDone, AtWork
    <2> QED
      BY <2>1, <2>2
  <1> QED
    BY <1>2, <1>4, MovedForGood

\* When a success gets to `close', the branches are what the graph makes of them.
LEMMA AllIsMoved ==
  ASSUME TypeInv, Planned, MovesInv, SuccessInv, Closing, success
  PROVE  refs = job.goal.new
  <1>1. /\ refs \in [Branch -> Commit \cup {NoCommit}]
        /\ job.goal.new \in [Branch -> Commit \cup {NoCommit}]
    BY DEF TypeInv, TypeOK, Planned, SoundPlan, Goals
  <1>2. ASSUME NEW b \in Branch PROVE refs[b] = job.goal.new[b]
    <2>1. CASE job.goal.new[b] = job.refs[b]
      BY <2>1 DEF MovesInv, WhereInv
    <2>2. CASE \E batch_of \in BatchesOf(job) : b \in UpdatedIn(batch_of)
      <3>1. Scripts \in Seq(Script) /\ Scripts = job.scripts
        BY JobParts DEF TypeInv, Position, Scripts
      <3>2. PICK s \in DOMAIN Scripts : \E k \in DOMAIN Scripts[s] :
                    b \in UpdatedIn(Scripts[s][k])
        BY <2>2, <3>1 DEF BatchesOf, Range
      <3>3. s < script
        BY <3>1 DEF Closing, TypeInv, TypeOK
      <3> QED
        BY <3>2, <3>3 DEF SuccessInv, Moved
    <2> QED
      BY <2>1, <2>2 DEF Planned, SoundPlan, dry_run
  <1> QED
    BY <1>1, <1>2

-----------------------------------------------------------------------------
(***************************************************************************)
(* A detached HEAD goes with its commit.                                   *)
(***************************************************************************)
IsFollowing(f, id, commands, built, n) ==
    f = [i \in 1..n |-> IF i = 1 THEN id
                        ELSE HeadFollows(f[i - 1], commands[i - 1], built[i - 1], built[i])]

LEMMA FollowingAt ==
    ASSUME NEW f, NEW id, NEW commands, NEW built, NEW n \in Nat,
           IsFollowing(f, id, commands, built, n), NEW i \in 1..n
    PROVE  f[i] = IF i = 1 THEN id
                  ELSE HeadFollows(f[i - 1], commands[i - 1], built[i - 1], built[i])
  BY DEF IsFollowing

LEMMA FollowingExists ==
    ASSUME NEW id, NEW commands, NEW built
    PROVE  \A n \in Nat : \E f : IsFollowing(f, id, commands, built, n)
  <1> DEFINE S == {n \in Nat : \E f : IsFollowing(f, id, commands, built, n)}
  <1>1. 0 \in S
    <2> DEFINE f == [i \in 1..0 |-> id]
    <2>1. IsFollowing(f, id, commands, built, 0)
      BY DEF IsFollowing
    <2> QED
      BY <2>1
  <1>2. ASSUME NEW n \in Nat, n \in S PROVE n + 1 \in S
    <2>1. PICK f : IsFollowing(f, id, commands, built, n)
      BY <1>2
    <2> DEFINE g == [i \in 1..(n + 1) |->
                        IF i = 1 THEN id
                        ELSE HeadFollows(f[i - 1], commands[i - 1], built[i - 1], built[i])]
    <2>2. ASSUME NEW i \in 1..n PROVE g[i] = f[i]
      <3>1. g[i] = IF i = 1 THEN id
                   ELSE HeadFollows(f[i - 1], commands[i - 1], built[i - 1], built[i])
        OBVIOUS
      <3> HIDE DEF g
      <3> QED
        BY <2>1, <3>1, FollowingAt
    <2>3. ASSUME NEW i \in 1..(n + 1), i # 1 PROVE g[i - 1] = f[i - 1]
      <3>1. i - 1 \in 1..n
        BY <2>3
      <3> HIDE DEF g
      <3> QED
        BY <2>2, <3>1
    <2>4. IsFollowing(g, id, commands, built, n + 1)
      BY <2>3 DEF IsFollowing
    <2> QED
      BY <2>4
  <1> HIDE DEF S
  <1>3. \A n \in Nat : n \in S
    BY <1>1, <1>2, Induction
  <1> QED
    BY <1>3 DEF S

LEMMA HeadsStepByStep ==
    ASSUME NEW id, NEW commands, NEW built, Len(commands) \in Nat
    PROVE  /\ HeadsBy(id, commands, built)[1] = id
           /\ \A i \in 1..Len(commands) :
                HeadsBy(id, commands, built)[i + 1]
                    = HeadFollows(HeadsBy(id, commands, built)[i], commands[i],
                                  built[i], built[i + 1])
  <1> DEFINE n == Len(commands) + 1
             f == CHOOSE f : IsFollowing(f, id, commands, built, n)
  <1>1. n \in Nat
    OBVIOUS
  <1>2. IsFollowing(f, id, commands, built, n)
    <2> HIDE DEF n
    <2> QED
      BY <1>1, FollowingExists
  <1>3. HeadsBy(id, commands, built) = f
    BY DEF HeadsBy, IsFollowing
  <1> HIDE DEF f
  <1>4. \A i \in 1..n : f[i] = IF i = 1 THEN id
                               ELSE HeadFollows(f[i - 1], commands[i - 1],
                                                built[i - 1], built[i])
    <2> HIDE DEF n
    <2> QED
      BY <1>1, <1>2, FollowingAt
  <1>5. f[1] = id
    BY <1>1, <1>4
  <1>6. ASSUME NEW i \in 1..Len(commands)
        PROVE  f[i + 1] = HeadFollows(f[i], commands[i], built[i], built[i + 1])
    <2>1. i + 1 \in 1..n /\ i + 1 # 1 /\ (i + 1) - 1 = i
      OBVIOUS
    <2>2. f[i + 1] = IF i + 1 = 1 THEN id
                     ELSE HeadFollows(f[(i + 1) - 1], commands[(i + 1) - 1],
                                      built[(i + 1) - 1], built[i + 1])
      BY <1>4, <2>1
    <2> QED
      BY <2>1, <2>2
  <1> QED
    BY <1>3, <1>5, <1>6

\* A staging step takes head_id along.
LEMMA HeadFollowsStep ==
  ASSUME TypeInv, Planned, MovesInv, NEW s0, NEW k0, pc = "stage",
         head_id = HeadsHere(s0, k0)[at],
         StageMark \/ StagePick \/ StageReword \/ StageFixup \/ StageCreate \/ StageDelete
  PROVE  /\ at' = at + 1 /\ pc' = "stage" /\ UNCHANGED <<job, script, batch>>
         /\ head_id' = HeadsHere(s0, k0)[at + 1]
  <1>1. at <= Len(Commands) /\ ~dry_run
    BY DEF StageMark, StagePick, StageReword, StageFixup, StageCreate, StageDelete,
           Staging, Planned
  <1>2. PICK n \in 0..Len(Commands) :
            /\ at = n + 1 /\ n + 1 \in 1..Len(Commands) /\ Len(Commands) \in Nat
            /\ Cmd = Commands[n + 1]
            /\ cursor = BuiltHere[n + 1]
            /\ BuiltHere[n + 2] = Applied(cursor, Cmd)
    BY <1>1, Standing
  <1>3. at \in 1..Len(Commands) /\ BuiltHere[at + 1] = Applied(cursor, Cmd)
        /\ cursor = BuiltHere[at] /\ Cmd = Commands[at]
    <2>1. at + 1 = n + 2
      BY <1>2
    <2> QED
      BY <1>2, <2>1
  <1>4. HeadsHere(s0, k0)[at + 1] = HeadFollows(head_id, Cmd, cursor, Applied(cursor, Cmd))
    BY <1>2, <1>3, HeadsStepByStep DEF HeadsHere
  <1>5. /\ at' = at + 1 /\ pc' = "stage" /\ UNCHANGED <<job, script, batch>>
    BY DEF StageMark, StagePick, StageReword, StageFixup, StageCreate, StageDelete,
           position
  <1>6. head_id' = HeadFollows(head_id, Cmd, cursor, Applied(cursor, Cmd))
    <2>1. CASE StagePick
      BY <1>1, <2>1 DEF StagePick, Staging, HeadFollows, Applied
    <2>2. CASE StageReword
      BY <1>1, <2>2 DEF StageReword, Staging, HeadFollows, Applied
    <2>3. CASE StageFixup
      BY <1>1, <2>3 DEF StageFixup, Staging, HeadFollows, Applied
    <2>4. CASE StageMark
      BY <2>4 DEF StageMark, Staging, HeadFollows
    <2>5. CASE StageCreate
      BY <2>5 DEF StageCreate, Staging, HeadFollows
    <2>6. CASE StageDelete
      BY <2>6 DEF StageDelete, Staging, HeadFollows
    <2> QED
      BY <2>1, <2>2, <2>3, <2>4, <2>5, <2>6
  <1> QED
    BY <1>4, <1>5, <1>6

LEMMA HeadStaysKnown ==
  ASSUME TypeInv, Planned, MovesInv, HeadIsAccounted, HeadIsKnown, [Next]_vars
  PROVE  HeadIsKnown'
  <1> USE DEF position, staged, repository, restore_branch
  <1>1. job' = job
    BY JobStays
  <1>2. script \in Nat /\ TypeInv'
    BY StepKeepsTypes DEF TypeInv, TypeOK
  <1>3. ASSUME UNCHANGED <<script, head_id, detached>>, pc' \in AtWork => pc \in AtWork
        PROVE  HeadIsKnown'
    BY <1>1, <1>3 DEF HeadIsKnown
  <1>4. CASE RunScript
    <2>1. /\ pc = "script" /\ UNCHANGED <<script, detached>>
          /\ head_id' = IF head_id = NoCommit THEN HeadCommit ELSE head_id
      BY <1>4 DEF RunScript
    <2>2. ASSUME restore_branch = NoBranch, head_id = NoCommit
          PROVE  HeadCommit # NoCommit
      <3>1. detached \in BOOLEAN /\ ~detached
        BY <2>2 DEF HeadIsKnown, TypeInv, TypeOK
      <3>2. head = job.head
        BY <3>1 DEF HeadIsAccounted
      <3>3. job.head.on = NoBranch /\ job.head.at # NoCommit
        BY <2>2, JobParts DEF TypeInv, Position, HeadResolves, HeadIsRestored
      <3> QED
        BY <3>2, <3>3 DEF HeadCommit
    <2> QED
      BY <1>1, <2>1, <2>2 DEF HeadIsKnown
  <1>5. CASE EndScript
    BY <1>1, <1>2, <1>5 DEF EndScript, HeadIsKnown, AtWork
  <1>6. CASE Stage
    <2>1. CASE StagePick \/ StageReword \/ StageFixup
      <3>1. /\ pc = "stage" /\ pc' = "stage" /\ UNCHANGED <<script, detached>>
            /\ cursor' # NoCommit
        BY <1>2, <2>1 DEF StagePick, StageReword, StageFixup, Staging, TypeInv, Position
      <3>2. head_id' \in {head_id, cursor'}
        BY <2>1 DEF StagePick, StageReword, StageFixup, Follow
      <3> QED
        BY <1>1, <3>1, <3>2 DEF HeadIsKnown, AtWork
    <2>2. CASE ~(StagePick \/ StageReword \/ StageFixup)
      BY <1>3, <1>6, <2>2 DEF Stage, StageBatch, StageMark, StageCreate, StageDelete,
                              StageFails, EndBatch, Staging, Abandon, AtWork
    <2> QED
      BY <2>1, <2>2
  <1>7. CASE CommitBatch
    <2>1. CASE Detach
      <3>1. /\ pc = "detach" /\ pc' = "branch" /\ UNCHANGED <<script, head_id>>
        BY <2>1 DEF Detach
      <3>2. pc \in AtWork /\ pc \in Building
        BY <3>1 DEF AtWork, Building
      <3>3. batch \in DOMAIN Batches /\ script \in DOMAIN Scripts
        BY <3>2, CurrentBatch DEF MovesInv, ScriptInv, TypeInv, TypeOK, Position
      <3>4. Batches[batch] \in BatchesOf(job)
        BY <3>3 DEF BatchesOf, Range, Batches, Scripts
      <3> QED
        BY <1>1, <3>1, <3>2, <3>4 DEF HeadIsKnown
    <2>2. CASE ~Detach
      BY <1>3, <1>7, <2>2
         DEF CommitBatch, HookAccepts, HookVetoes, DetachFails, MoveBranch, MoveFails,
             MovingBranch, EndMoves, DeleteBranch, DeleteFails, DeletingBranch, EndDeletes,
             Notify, Abandon, AtWork
    <2> QED
      BY <2>1, <2>2
  <1>8. CASE Close
    BY <1>3, <1>8 DEF Close, NothingToSwitch, SwitchBranch, SwitchCommit, SwitchTo,
                      SwitchFails, Stop, CheckoutHead, CheckoutFails, AtWork
  <1>9. CASE Ended \/ UNCHANGED vars
    BY <1>3, <1>9 DEF Ended, vars
  <1> QED
    BY <1>4, <1>5, <1>6, <1>7, <1>8, <1>9 DEF Next

LEMMA HeadStandsStill ==
  ASSUME TypeInv, Planned, MovesInv, SuccessInv, HeadIsAccounted, HeadIsKnown, [Next]_vars,
         success', restore_branch = NoBranch,
         NEW s0 \in DOMAIN Scripts, NEW k0 \in DOMAIN Scripts[s0],
         HeadTurns(job, s0, k0), HeadStands(s0, k0)
  PROVE  HeadStands(s0, k0)'
  <1> USE DEF position, staged, repository
  <1>1. job' = job /\ success /\ failed = FALSE
    BY JobStays, SuccessIsKept DEF SuccessInv, TypeInv, TypeOK
  <1>2. /\ script \in Nat /\ batch \in Nat /\ at \in Nat /\ script >= 1 /\ batch >= 1
        /\ Scripts \in Seq(Script) /\ s0 \in Nat /\ s0 >= 1 /\ s0 <= Len(Scripts)
    BY JobParts DEF TypeInv, TypeOK, Position, Scripts
  <1>3. /\ Scripts[s0] \in Seq(Batch) /\ k0 \in Nat /\ k0 >= 1 /\ k0 <= Len(Scripts[s0])
    <2>1. Scripts[s0] \in Seq(Batch)
      BY <1>2, ElementOfSeq DEF Script
    <2> QED
      BY <2>1
  <1>4. CASE RunScript
    <2>1. /\ pc = "script" /\ pc' = "batch" /\ batch' = 1 /\ script' = script
          /\ head_id' = IF head_id = NoCommit THEN HeadCommit ELSE head_id
      BY <1>4 DEF RunScript
    <2>2. Passed(s0, k0, script, 0) <=> s0 < script
      BY <1>2, <1>3 DEF Passed
    <2>3. CASE script = 1
      <3>1. head_id = NoCommit
        BY <2>1, <2>3 DEF HeadStands
      <3>2. ~detached
        BY <3>1 DEF HeadIsKnown
      <3>3. HeadCommit = job.head.at
        BY <3>2, JobParts DEF HeadIsAccounted, HeadCommit, TypeInv, Position, HeadIsRestored,
                              restore_branch
      <3>4. ~Passed(s0, k0, script, 0)
        BY <1>2, <2>2, <2>3
      <3>5. head_id' = HeadOnceIt(job, Passed(s0, k0, script, 0))
        BY <2>1, <3>1, <3>3, <3>4 DEF HeadOnceIt
      <3>6. batch' - 1 = 0
        BY <2>1
      <3>7. HeadOnceIt(job, Passed(s0, k0, script, batch - 1))'
                = HeadOnceIt(job, Passed(s0, k0, script, 0))
        BY <1>1, <2>1, <3>6 DEF HeadOnceIt, Passed
      <3> QED
        BY <2>1, <3>5, <3>7 DEF HeadStands, Building
    <2>4. CASE script # 1
      <3>1. head_id # NoCommit
        BY <1>2, <2>4 DEF HeadIsKnown
      <3>2. head_id' = HeadOnceIt(job, s0 < script)
        BY <2>1, <2>4, <3>1 DEF HeadStands
      <3>3. batch' - 1 = 0
        BY <2>1
      <3>4. HeadOnceIt(job, Passed(s0, k0, script, batch - 1))' = HeadOnceIt(job, s0 < script)
        <4>1. Passed(s0, k0, script, batch - 1)' <=> Passed(s0, k0, script, 0)
          BY <2>1, <3>3 DEF Passed
        <4> QED
          BY <1>1, <2>2, <4>1 DEF HeadOnceIt
      <3> QED
        BY <2>1, <3>2, <3>4 DEF HeadStands, Building
    <2> QED
      BY <2>3, <2>4
  <1>5. CASE EndScript
    <2>1. /\ pc = "batch" /\ pc' = "script" /\ batch > Len(Batches) /\ script' = script + 1
          /\ head_id' = head_id
      BY <1>1, <1>5 DEF EndScript
    <2>2. head_id = HeadOnceIt(job, Passed(s0, k0, script, batch - 1))
      BY <2>1 DEF HeadStands
    <2>3. Passed(s0, k0, script, batch - 1) <=> s0 < script + 1
      <3>1. CASE s0 = script
        <4>1. k0 <= batch - 1
          BY <1>2, <1>3, <2>1, <3>1 DEF Batches
        <4> QED
          BY <1>2, <3>1, <4>1 DEF Passed
      <3>2. CASE s0 # script
        BY <1>2, <3>2 DEF Passed
      <3> QED
        BY <3>1, <3>2
    <2>4. script' # 1
      BY <1>2, <2>1
    <2>5. HeadOnceIt(job, s0 < script)' = head_id
      BY <1>1, <2>1, <2>2, <2>3 DEF HeadOnceIt
    <2> QED
      BY <2>1, <2>4, <2>5 DEF HeadStands, Building
  <1>6. ASSUME UNCHANGED <<job, script, batch, head_id>>, pc \in Building \ {"stage"},
               pc' \in Building \ {"stage"}
        PROVE  HeadStands(s0, k0)'
    BY <1>6 DEF HeadStands, Building, HeadOnceIt, Passed
  <1>7. CASE Stage
    <2>1. CASE StageBatch
      <3>1. /\ pc = "batch" /\ pc' = "stage" /\ at' = 1 /\ batch <= Len(Batches)
            /\ UNCHANGED <<job, script, batch, head_id>>
        BY <2>1 DEF StageBatch
      <3>2. Len(Commands) \in Nat
        BY <3>1, HereIsSound DEF AtWork
      <3>3. HeadsHere(s0, k0)[1] = head_id
        BY <3>1, <3>2, HeadsStepByStep DEF HeadStands, HeadsHere
      <3>4. HeadsHere(s0, k0)' = HeadsHere(s0, k0)
        BY <3>1, SameBatch DEF HeadsHere, HeadOnceIt, Passed
      <3> QED
        BY <3>1, <3>3, <3>4 DEF HeadStands, Building
    <2>2. CASE StageMark \/ StagePick \/ StageReword \/ StageFixup \/ StageCreate \/ StageDelete
      <3>1. pc = "stage" /\ head_id = HeadsHere(s0, k0)[at]
        BY <2>2 DEF StageMark, StagePick, StageReword, StageFixup, StageCreate, StageDelete,
                    Staging, HeadStands
      <3>2. /\ at' = at + 1 /\ pc' = "stage" /\ UNCHANGED <<job, script, batch>>
            /\ head_id' = HeadsHere(s0, k0)[at + 1]
        BY <2>2, <3>1, HeadFollowsStep
      <3>3. HeadsHere(s0, k0)' = HeadsHere(s0, k0)
        BY <3>2, SameBatch DEF HeadsHere, HeadOnceIt, Passed
      <3> QED
        BY <3>2, <3>3 DEF HeadStands, Building
    <2>3. CASE EndBatch
      <3>1. /\ pc = "stage" /\ pc' = "hook" /\ at > Len(Commands)
            /\ UNCHANGED <<job, script, batch, head_id>>
        BY <2>3 DEF EndBatch
      <3>2. pc \in AtWork /\ batch <= Len(Batches)
        BY <3>1 DEF AtWork, Building, MovesInv, ScriptInv
      <3>3. Len(Commands) \in Nat
        BY <3>2, HereIsSound
      <3>4. at = Len(Commands) + 1
        <4>1. PICK n \in 0..Len(Commands) : at = n + 1
          BY <3>1 DEF MovesInv, BatchInv
        <4> QED
          BY <3>1, <3>3, <4>1
      <3>5. head_id = HeadsHere(s0, k0)[Len(Commands) + 1]
        BY <3>1, <3>4 DEF HeadStands
      <3>6. script \in DOMAIN job.scripts /\ batch \in DOMAIN job.scripts[script]
        BY <3>2, CurrentBatch DEF TypeInv, TypeOK, Position, Scripts, Batches
      <3>7. Here = job.scripts[script][batch] /\ Commands = Here.commands
        BY DEF Here, Commands, Batches, Scripts
      <3>8. HeadsHere(s0, k0)[Len(Commands) + 1]
                = HeadOnceIt(job, Passed(s0, k0, script, batch))
        BY <3>6, <3>7 DEF HeadTurns, HeadsHere, BuiltHere
      <3> QED
        BY <3>1, <3>5, <3>8 DEF HeadStands, Building, HeadOnceIt, Passed
    <2>4. CASE StageFails
      BY <1>1, <2>4 DEF StageFails, Abandon
    <2> QED
      BY <1>7, <2>1, <2>2, <2>3, <2>4 DEF Stage
  <1>8. CASE CommitBatch
    <2>1. CASE HookVetoes \/ DetachFails \/ MoveFails \/ DeleteFails
      BY <2>1 DEF HookVetoes, DetachFails, MoveFails, DeleteFails, Abandon
    <2>2. CASE HookAccepts \/ Detach \/ MoveBranch \/ EndMoves \/ DeleteBranch \/ EndDeletes
      BY <1>6, <2>2 DEF HookAccepts, Detach, MoveBranch, MovingBranch, EndMoves,
                        DeleteBranch, DeletingBranch, EndDeletes, Building
    <2>3. CASE Notify
      <3>1. /\ pc = "notify" /\ pc' = "batch" /\ batch' = batch + 1
            /\ UNCHANGED <<job, script, head_id>>
        BY <2>3 DEF Notify
      <3>2. head_id = HeadOnceIt(job, Passed(s0, k0, script, batch))
        BY <3>1 DEF HeadStands, Building
      <3>3. batch' - 1 = batch
        BY <1>2, <3>1
      <3>4. HeadOnceIt(job, Passed(s0, k0, script, batch - 1))' = head_id
        BY <3>1, <3>2, <3>3 DEF HeadOnceIt, Passed
      <3> QED
        BY <3>1, <3>4 DEF HeadStands, Building
    <2> QED
      BY <1>8, <2>1, <2>2, <2>3 DEF CommitBatch
  <1>9. CASE Close
    BY <1>9 DEF Close, NothingToSwitch, SwitchBranch, SwitchCommit, SwitchTo, SwitchFails,
                Stop, CheckoutHead, CheckoutFails, HeadStands, Building
  <1>10. CASE Ended \/ UNCHANGED vars
    <2>1. UNCHANGED <<job, pc, script, batch, at, head_id>>
      BY <1>10 DEF Ended, vars
    <2>2. HeadsHere(s0, k0)' = HeadsHere(s0, k0)
      BY <2>1, SameBatch DEF HeadsHere, HeadOnceIt, Passed
    <2> QED
      BY <2>1, <2>2 DEF HeadStands, HeadOnceIt, Passed
  <1> QED
    BY <1>4, <1>5, <1>7, <1>8, <1>9, <1>10 DEF Next

LEMMA HeadStays ==
  ASSUME TypeInv, Planned, MovesInv, SuccessInv, HeadIsAccounted, HeadIsKnown, HeadInv,
         [Next]_vars
  PROVE  HeadInv'
  <1>1. job' = job /\ Scripts' = Scripts /\ restore_branch' = restore_branch
    BY JobStays DEF Scripts, restore_branch
  <1>2. SUFFICES ASSUME success', restore_branch = NoBranch, BatchesOf(job) # {}
                 PROVE  \E s0 \in DOMAIN Scripts : \E k0 \in DOMAIN Scripts[s0] :
                            HeadTurns(job, s0, k0) /\ HeadStands(s0, k0)'
    BY <1>1 DEF HeadInv
  <1>3. PICK s0 \in DOMAIN Scripts : \E k0 \in DOMAIN Scripts[s0] :
                HeadTurns(job, s0, k0) /\ HeadStands(s0, k0)
    BY <1>2, SuccessIsKept DEF HeadInv
  <1>4. PICK k0 \in DOMAIN Scripts[s0] : HeadTurns(job, s0, k0) /\ HeadStands(s0, k0)
    BY <1>3
  <1>5. HeadStands(s0, k0)'
    BY <1>2, <1>4, HeadStandsStill
  <1> QED
    BY <1>4, <1>5

-----------------------------------------------------------------------------
(***************************************************************************)
(* The end.                                                                *)
(***************************************************************************)
LEMMA EndStays ==
  ASSUME TypeInv, Planned, MovesInv, HeadIsAccounted, CleanInv, [Next]_vars
  PROVE  EndInv'
  <1> USE DEF position, staged, repository, restore_branch
  <1>1. job' = job
    BY JobStays
  <1>2. ASSUME pc' \notin {"checkout", "done"} PROVE EndInv'
    BY <1>2 DEF EndInv
  <1>3. ASSUME UNCHANGED <<success, refs, head, detached>>, pc \in {"checkout", "done"}
        PROVE  EndInv'
    BY <1>1, <1>3 DEF CleanInv, EndInv
  <1>4. ASSUME Closing, success PROVE refs = job.goal.new
    BY <1>4, AllIsMoved DEF CleanInv
  <1>5. CASE NothingToSwitch
    <2>1. ~detached
      BY <1>5 DEF NothingToSwitch, MustSwitch, CleanInv, HeadIsKnown, Planned
    <2> QED
      BY <1>1, <1>4, <1>5, <2>1 DEF NothingToSwitch, EndInv
  <1>6. CASE SwitchBranch
    <2>1. head'.on = restore_branch /\ restore_branch # NoBranch
      BY <1>6 DEF SwitchBranch, SwitchTo
    <2> QED
      BY <1>1, <1>4, <1>6, <2>1 DEF SwitchBranch, SwitchTo, EndInv
  <1>7. CASE SwitchCommit
    <2>1. /\ Closing /\ restore_branch = NoBranch /\ detached
          /\ head' = [on |-> NoBranch, at |-> head_id]
          /\ UNCHANGED <<success, refs, detached>>
      BY <1>7 DEF SwitchCommit, SwitchTo, MustSwitch
    <2>2. ASSUME success PROVE head_id = job.goal.head
      <3>1. BatchesOf(job) # {}
        BY <2>1 DEF CleanInv, HeadIsKnown
      <3>2. PICK s0 \in DOMAIN Scripts : \E k0 \in DOMAIN Scripts[s0] : HeadStands(s0, k0)
        BY <2>1, <2>2, <3>1 DEF CleanInv, HeadInv
      <3>3. PICK k0 \in DOMAIN Scripts[s0] : HeadStands(s0, k0)
        BY <3>2
      <3>4. Scripts \in Seq(Script) /\ script \in Nat
        BY JobParts DEF TypeInv, TypeOK, Position, Scripts
      <3>5. s0 < script /\ script # 1
        BY <2>1, <3>4 DEF Closing
      <3> QED
        BY <2>1, <3>3, <3>5 DEF HeadStands, Closing, HeadOnceIt
    <2> QED
      BY <1>1, <1>4, <2>1, <2>2 DEF EndInv
  <1>8. CASE SwitchFails \/ CheckoutFails
    BY <1>2, <1>8 DEF SwitchFails, Stop, CheckoutFails
  <1>9. CASE CheckoutHead
    BY <1>3, <1>9 DEF CheckoutHead
  <1>10. CASE RunScript \/ EndScript \/ Stage
    BY <1>2, <1>10 DEF RunScript, EndScript, Stage, StageBatch, StageMark, StagePick,
                       StageReword, StageFixup, StageCreate, StageDelete, StageFails,
                       EndBatch, Staging, Abandon
  <1>11. CASE CommitBatch
    BY <1>2, <1>11 DEF CommitBatch, HookAccepts, HookVetoes, Detach, DetachFails,
                       MoveBranch, MoveFails, MovingBranch, EndMoves, DeleteBranch,
                       DeleteFails, DeletingBranch, EndDeletes, Notify, Abandon
  <1>12. CASE Ended \/ UNCHANGED vars
    <2>1. UNCHANGED <<pc, success, refs, head, detached>>
      BY <1>12 DEF Ended, vars
    <2> QED
      BY <1>2, <1>3, <2>1
  <1> QED
    BY <1>5, <1>6, <1>7, <1>8, <1>9, <1>10, <1>11, <1>12 DEF Next, Close

LEMMA CleanStays ==
  ASSUME TypeInv, Planned, MovesInv, HeadIsAccounted, CleanInv, [Next]_vars
  PROVE  CleanInv'
  <1>1. GoneInv' /\ DropsInv' /\ HeadIsOff' /\ SuccessInv'
    BY GoneKept, DropsStay, HeadStaysOff, SuccessStays DEF CleanInv
  <1>2. HeadInv' /\ HeadIsKnown' /\ EndInv'
    BY HeadStays, HeadStaysKnown, EndStays DEF CleanInv
  <1> QED
    BY <1>1, <1>2 DEF CleanInv

LEMMA InitIsClean ==
  ASSUME Init, Planned
  PROVE  CleanInv
  <1>1. /\ pc = "script" /\ script = 1 /\ refs = job.refs /\ head_id = NoCommit
        /\ delete_branches = << >> /\ detached = FALSE /\ failed = FALSE /\ job \in Jobs
    BY DEF Init
  <1>2. Scripts \in Seq(Script)
    BY <1>1, JobParts DEF Scripts
  <1>3. GoneInv /\ DropsInv /\ HeadIsOff /\ HeadIsKnown /\ EndInv
    BY <1>1 DEF GoneInv, DropsInv, HeadIsOff, HeadIsKnown, EndInv, Building, AtWork
  <1>4. SuccessInv
    <2>1. \A s \in DOMAIN Scripts : ~(s < script)
      BY <1>1, <1>2
    <2> QED
      BY <1>1, <2>1 DEF SuccessInv
  <1>5. HeadInv
    <2> SUFFICES ASSUME restore_branch = NoBranch, BatchesOf(job) # {}
                 PROVE  \E s0 \in DOMAIN Scripts : \E k0 \in DOMAIN Scripts[s0] :
                            HeadTurns(job, s0, k0) /\ HeadStands(s0, k0)
      BY DEF HeadInv
    <2>1. HeadIsSound(job)
      BY DEF Planned, SoundPlan, dry_run, restore_branch
    <2>2. PICK s0 \in DOMAIN Scripts : \E k0 \in DOMAIN Scripts[s0] : HeadTurns(job, s0, k0)
      BY <2>1 DEF HeadIsSound, Scripts
    <2>3. PICK k0 \in DOMAIN Scripts[s0] : HeadTurns(job, s0, k0)
      BY <2>2
    <2>4. HeadStands(s0, k0)
      BY <1>1 DEF HeadStands, Building
    <2> QED
      BY <2>3, <2>4
  <1> QED
    BY <1>3, <1>4, <1>5 DEF CleanInv

RestackInv ==
    /\ PlannedInv /\ HeadIsAccounted
    /\ ~dry_run => CleanInv
    /\ faults = 0 => success

LEMMA RestackStays ==
  ASSUME RestackInv, [Next]_vars
  PROVE  RestackInv'
  <1>1. PlannedInv' /\ HeadIsAccounted'
    BY PlannedStays, HeadStaysAccounted DEF RestackInv, PlannedInv
  <1>2. dry_run' = dry_run
    BY JobStays DEF dry_run
  <1>3. ~dry_run => CleanInv'
    BY CleanStays DEF RestackInv, PlannedInv, Planned
  <1>4. faults' = 0 => success'
    BY FaultlessSucceeds DEF RestackInv, PlannedInv, CleanInv
  <1> QED
    BY <1>1, <1>2, <1>3, <1>4 DEF RestackInv

LEMMA RestackStarts ==
  ASSUME Init, SoundPlan(job)
  PROVE  RestackInv
  <1>1. PlannedInv /\ HeadIsAccounted
    BY InitIsPlanned DEF Init, HeadIsAccounted
  <1>2. ~dry_run => CleanInv
    BY InitIsClean DEF Planned
  <1> QED
    BY <1>1, <1>2 DEF RestackInv, Init

LEMMA RestackIsClean ==
  ASSUME RestackInv
  PROVE  CleanRunRestacks
  <1> SUFFICES ASSUME pc = "done", faults = 0
               PROVE  /\ success
                      /\ refs = job.goal.new
                      /\ IF restore_branch # NoBranch \/ ~detached
                         THEN head.on = (IF detached THEN restore_branch ELSE job.head.on)
                         ELSE head = [on |-> NoBranch, at |-> job.goal.head]
    BY DEF CleanRunRestacks
  <1>1. success /\ detached \in BOOLEAN /\ (~detached => head = job.head)
    BY DEF RestackInv, HeadIsAccounted, PlannedInv, TypeInv, TypeOK
  <1>2. CASE dry_run
    <2>1. refs = job.goal.new
      BY <1>2 DEF RestackInv, PlannedInv, DryRunTouchesNothing, SoundPlan,
                  dry_run
    <2>2. ~detached
      BY <1>2 DEF RestackInv, HeadIsAccounted
    <2> QED
      BY <1>1, <2>1, <2>2
  <1>3. CASE ~dry_run
    BY <1>1, <1>3 DEF RestackInv, CleanInv, EndInv
  <1> QED
    BY <1>2, <1>3

\* A run git never fails does all the graph asks for: every branch is where the
\* graph puts it, the dropped ones are gone, HEAD is back on its branch or on what
\* its commit became; for any plan whose scripts do so command by command.
THEOREM CleanRunsRestack == Spec /\ SoundPlan(job) => []CleanRunRestacks
  <1>1. Init /\ SoundPlan(job) => RestackInv
    BY RestackStarts
  <1>2. RestackInv /\ [Next]_vars => RestackInv'
    BY RestackStays
  <1>3. RestackInv => CleanRunRestacks
    BY RestackIsClean
  <1> QED
    BY <1>1, <1>2, <1>3, PTL DEF Spec

\* A branch stacked on another one is stacked on it again after such a run.
THEOREM StacksAreStacked == Spec /\ PlanIsSound => []StacksStayStacked
  <1> DEFINE Inv == RestackInv /\ SoundGoal(job.goal)
  <1>1. Init /\ PlanIsSound => Inv
    BY RestackStarts DEF PlanIsSound
  <1>2. Inv /\ [Next]_vars => Inv'
    BY RestackStays, JobStays
  <1>3. Inv => StacksStayStacked
    <2> SUFFICES ASSUME RestackInv, SoundGoal(job.goal), pc = "done", faults = 0
                 PROVE  \A a, b \in Branch :
                            /\ IsPrefix(job.refs[a], job.refs[b])
                            /\ refs[a] # NoCommit /\ refs[b] # NoCommit
                            => IsPrefix(refs[a], refs[b])
      BY DEF StacksStayStacked
    <2>1. refs = job.goal.new
      BY RestackIsClean DEF CleanRunRestacks
    <2>2. job.goal.old = job.refs
      BY DEF RestackInv, PlannedInv, SoundPlan
    <2> QED
      BY <2>1, <2>2 DEF SoundGoal
  <1> QED
    BY <1>1, <1>2, <1>3, PTL DEF Spec

\* No branch ever loses a change, whatever git fails at and wherever the command is
\* killed.
THEOREM ChangesAreKept == Spec /\ PlanIsSound => []NoChangeIsLost
  <1> DEFINE Inv == PlannedInv /\ SoundGoal(job.goal)
  <1>1. Init /\ PlanIsSound => Inv
    BY InitIsPlanned DEF PlanIsSound
  <1>2. Inv /\ [Next]_vars => Inv'
    BY PlannedStays, JobStays
  <1>3. Inv => NoChangeIsLost
    <2> SUFFICES ASSUME PlannedInv, SoundGoal(job.goal), NEW b \in Branch, refs[b] # NoCommit
                 PROVE  Tree(job.refs[b]) \subseteq Tree(refs[b])
      BY DEF NoChangeIsLost
    <2>1. refs[b] \in {job.refs[b], job.goal.new[b]}
      BY DEF PlannedInv, MovesInv, WhereInv, DryRunTouchesNothing
    <2>2. job.goal.new[b] # NoCommit => Tree(job.refs[b]) \subseteq Tree(job.goal.new[b])
      BY DEF PlannedInv, SoundPlan, SoundGoal
    <2> QED
      BY <2>1, <2>2
  <1> QED
    BY <1>1, <1>2, <1>3, PTL DEF Spec

=============================================================================
