------------------------------- MODULE Rounds -------------------------------
(***************************************************************************)
(* A clone over many rounds of `git stack sync': the user commits,         *)
(* branches off and pushes, upstream merges what was pushed and goes on    *)
(* with its own work, and a sync brings the two together, unless the       *)
(* network fails it, the user does not wait for it, or it dies half-way.   *)
(*                                                                         *)
(* A sync reads the branches before it talks to the remotes, and what it   *)
(* read is in `seen' until it plans.  The scripts of the plan are played   *)
(* here as the moves they come to, in order; the Executor has their steps. *)
(* A commit is its history of changes, as in Commits, and the messages     *)
(* tell nothing apart.                                                     *)
(***************************************************************************)
EXTENDS Planner

CONSTANTS
    Dev, Main,          \* the names of development branches, and main
    NoBranch,           \* no name: HEAD is detached
    Mine, Theirs,       \* the changes the user, and upstream, can make
    Root,               \* the commit everything starts from
    Plain,              \* the one message
    MaxTroubles         \* how often the network fails or a sync dies

Branch == Dev \cup {Main}

ASSUME Names == Main \notin Dev /\ NoBranch \notin Branch
ASSUME Authors == Mine \cup Theirs \subseteq Change /\ Mine \cap Theirs = {}
ASSUME Texts == Plain \in Message
ASSUME Start == Root \in Commit /\ Tree(Root) \cap (Mine \cup Theirs) = {}
ASSUME Bounds == MaxTroubles \in Nat

VARIABLES
    local,      \* the local branches
    tracking,   \* the remote-tracking branch of main
    pushed,     \* the branches that have a remote-tracking branch
    origin,     \* the branches of the remote
    head,       \* HEAD
    pc, seen,   \* the sync: where it is, and what it has read
    made,       \* the changes the user has committed
    exposed,    \* those of them a sync did not look for
    troubles

clone == <<local, tracking, pushed, head>>
vars == <<clone, origin, pc, seen, made, exposed, troubles>>

Refs == [Branch -> Commit \cup {NoCommit}]

Exists(refs, b) == refs[b] # NoCommit
All(refs) == UNION {Tree(refs[b]) : b \in Branch}
HeadCommit == IF head.on = NoBranch THEN head.at ELSE local[head.on]
On(b) == [on |-> b, at |-> NoCommit]

-----------------------------------------------------------------------------
(***************************************************************************)
(* What a sync reads: the branches on top of where HEAD's stack left main, *)
(* the local main (base) and the remote one (onto).                        *)
(***************************************************************************)
\* BranchSet::descendants.
Descended(refs, fork) ==
    [b \in Branch |-> IF IsPrefix(fork, refs[b]) THEN refs[b] ELSE NoCommit]

AsRead(tips, refs, main) ==
    [tips |-> tips,
     base |-> refs[Main],
     onto |-> main,
     push |-> {b \in pushed : Exists(tips, b)},     \* what may be pruned
     fresh |-> FALSE,       \* some call to a remote went well
     saved |-> All(refs),   \* what the snapshot has
     late |-> {}]           \* what the user has committed meanwhile

ReadAboveMain(refs, main, commit) ==    \* mutant: not from the merge base
    AsRead(Descended(refs, refs[Main]), refs, main)

Read(refs, main, commit) ==
    AsRead(Descended(refs, MergeBase(refs[Main], commit)), refs, main)

\* BranchSet::update and AnnotatedOid::update, when some call went well.
Tracked(s, refs) ==
    [s EXCEPT !.tips =
        [b \in Branch |-> IF Exists(s.tips, b) THEN refs[b] ELSE NoCommit]]

UpdatedNever(s, refs, main) == s        \* mutant: as it was read

UpdatedBases(s, refs, main) ==          \* mutant: not the branches
    IF ~s.fresh THEN s ELSE [s EXCEPT !.base = refs[Main], !.onto = main]

UpdatedLocals(s, refs, main) ==         \* mutant: not what is pulled
    IF ~s.fresh THEN s ELSE [Tracked(s, refs) EXCEPT !.base = refs[Main]]

Updated(s, refs, main) ==
    IF ~s.fresh THEN s
    ELSE [Tracked(s, refs) EXCEPT !.base = refs[Main], !.onto = main]

(***************************************************************************)
(* What a sync does: its moves in order, each a branch and its new commit, *)
(* NoCommit for a branch that is deleted.                                  *)
(***************************************************************************)
\* BranchSet::from_repo: by commit, its local branches and the remote main.
BranchSetOf(s) ==
    LET Local(c) == SetToSeq({b \in Branch : s.tips[b] = c})
        kind == [b \in Branch |-> IF b = Main THEN "mixed" ELSE "mutable"]
        theirs == [name |-> Main, kind |-> "protected"]
    IN  [c \in (Range(s.tips) \ {NoCommit}) \cup {s.onto} |->
            [i \in DOMAIN Local(c) |-> [name |-> Local(c)[i],
                                        kind |-> kind[Local(c)[i]]]]
            \o IF c = s.onto THEN <<theirs>> ELSE << >>]

NoLimits == [count |-> 0, stale |-> {}, foreign |-> {}]

\* stage_batch.
Staged(st, command) ==
    LET op == command.op
        picked == CherryPick(st.cursor, command.id)
    IN  CASE op = "pick" -> [st EXCEPT
                !.cursor = picked,
                !.head = IF @ = command.id THEN picked ELSE @]
          [] op = "mark" -> [st EXCEPT !.marks =
                [m \in DOMAIN @ \cup {command.id} |->
                    IF m = command.id THEN st.cursor ELSE @[m]]]
          [] op = "create" -> [st EXCEPT
                !.moves = Append(@, <<command.name, st.cursor>>)]
          [] op = "delete" -> [st EXCEPT
                !.drops = Append(@, <<command.name, NoCommit>>)]

\* A batch moves its branches, then deletes those it drops.
PlayedBatch(st, batch) ==
    LET onto == batch.onto
        cursor == IF onto \in DOMAIN st.marks THEN st.marks[onto] ELSE onto
        end == FoldLeft(Staged, [st EXCEPT !.cursor = cursor], batch.commands)
    IN  [end EXCEPT !.moves = @ \o end.drops, !.drops = << >>]

PlayPlan(plan, commit) ==
    FoldLeft(PlayedBatch,
             [cursor |-> NoCommit, marks |-> [m \in {} |-> NoCommit],
              moves |-> << >>, drops |-> << >>, head |-> commit],
             FlattenSeq(ToScripts(plan.graph, plan.dropped)))

Play(s, commit) ==
    PlayPlan(SyncPlan(BranchSetOf(s), s.base, s.onto, commit, NoLimits), commit)

\* Moves, over whatever the branches are by now.
Moved(refs, moves) ==
    FoldLeft(LAMBDA r, m : [r EXCEPT ![m[1]] = m[2]], refs, moves)

\* HEAD comes back to its branch, or to the local main when that was dropped.
\* Detached, it goes with its commit.
ComeBack(refs, commit) ==
    IF head.on = NoBranch THEN [head EXCEPT !.at = commit]
    ELSE IF Exists(refs, head.on) THEN head ELSE On(Main)

\* What the sync under way is to do.
Planned == Play(Updated(seen, local, tracking), HeadCommit)

\* What a sync with nothing new upstream makes of the branches from a commit.
Outcome(refs, main, commit) ==
    Moved(refs, Play(Read(refs, main, commit), commit).moves)

-----------------------------------------------------------------------------
Stages == {"idle", "prune", "fetch", "plan"}
Idle == [tips |-> [b \in Branch |-> NoCommit], base |-> NoCommit, onto |-> NoCommit,
         push |-> {}, fresh |-> FALSE, saved |-> {}, late |-> {}]

Init ==
    /\ local = [b \in Branch |-> IF b = Main THEN Root ELSE NoCommit]
    /\ tracking = Root /\ pushed = {} /\ origin = local
    /\ head = On(Main)
    /\ pc = "idle" /\ seen = Idle
    /\ made = {} /\ exposed = {}
    /\ troubles = 0

(***************************************************************************)
(* The user.  Changes and names are taken in order.                        *)
(***************************************************************************)
FirstOf(edits) == {e \in edits : \A d \in edits : e <= d}

Patched(e) == [changes |-> {e}, msg |-> Plain]

\* Waiting for the network, the user may go on working.
UserCommits ==
    /\ pc \in {"idle", "prune", "fetch"}
    /\ head.on # NoBranch
    /\ \E e \in FirstOf(Mine \ made) :
        /\ local' = [local EXCEPT ![head.on] = Append(@, Patched(e))]
        /\ made' = made \cup {e}
        /\ seen' = IF pc = "idle" THEN seen ELSE [seen EXCEPT !.late = @ \cup {e}]
    /\ UNCHANGED <<tracking, pushed, origin, head, pc, exposed, troubles>>

\* A new branch from where HEAD is, with a first commit.
UserBranches ==
    /\ pc = "idle"
    /\ \E e \in FirstOf(Mine \ made),
          b \in FirstOf({d \in Dev : ~Exists(local, d) /\ ~Exists(origin, d)}) :
        /\ local' = [local EXCEPT ![b] = Append(HeadCommit, Patched(e))]
        /\ head' = On(b)
        /\ made' = made \cup {e}
    /\ UNCHANGED <<tracking, pushed, origin, pc, seen, exposed, troubles>>

UserSwitches(b) ==
    /\ pc = "idle" /\ Exists(local, b) /\ head # On(b)
    /\ head' = On(b)
    /\ UNCHANGED <<local, tracking, pushed, origin, pc, seen, made, exposed, troubles>>

UserPushes ==
    /\ pc = "idle" /\ head.on \in Dev
    /\ origin' = [origin EXCEPT ![head.on] = local[head.on]]
    /\ pushed' = pushed \cup {head.on}
    /\ UNCHANGED <<local, tracking, head, pc, seen, made, exposed, troubles>>

(***************************************************************************)
(* Upstream.                                                               *)
(***************************************************************************)
Upstream(main) ==
    /\ origin' = main
    /\ UNCHANGED <<clone, pc, seen, made, exposed, troubles>>

UpstreamCommits ==
    \E e \in FirstOf(Theirs \ Tree(origin[Main])) :
        Upstream([origin EXCEPT ![Main] = Append(@, Patched(e))])

\* A branch is merged, as it is or squashed, and deleted.
IsMerged(b) == Tree(origin[b]) \subseteq Tree(origin[Main])

UpstreamMerges(b) ==
    /\ Exists(origin, b) /\ ~IsMerged(b)
    /\ IsPrefix(origin[Main], origin[b])
    /\ Upstream([origin EXCEPT ![Main] = origin[b], ![b] = NoCommit])

UpstreamSquashes(b) ==
    /\ Exists(origin, b) /\ ~IsMerged(b)
    /\ Upstream([origin EXCEPT
            ![Main] = Append(@, [changes |-> Tree(origin[b]) \ Tree(@),
                                 msg |-> Plain]),
            ![b] = NoCommit])

(***************************************************************************)
(* git stack sync.                                                         *)
(***************************************************************************)
StartSync ==
    /\ pc = "idle"
    /\ seen' = Read(local, tracking, HeadCommit)
    /\ pc' = IF seen'.push = {} THEN "fetch" ELSE "prune"
    /\ UNCHANGED <<clone, origin, made, exposed, troubles>>

\* git_prune_development: what the remote no longer has goes.
Prune ==
    /\ pc = "prune"
    /\ pushed' = pushed \ {b \in seen.push : ~Exists(origin, b)}
    /\ seen' = [seen EXCEPT !.fresh = TRUE]
    /\ pc' = "fetch"
    /\ UNCHANGED <<local, tracking, origin, head, made, exposed, troubles>>

\* git_fetch_upstream.
Fetch ==
    /\ pc = "fetch"
    /\ tracking' = origin[Main]
    /\ seen' = [seen EXCEPT !.fresh = TRUE]
    /\ pc' = "plan"
    /\ UNCHANGED <<local, pushed, origin, head, made, exposed, troubles>>

\* Either call may fail; the sync only warns and goes on.
CallFails ==
    /\ pc \in {"prune", "fetch"}
    /\ troubles < MaxTroubles
    /\ troubles' = troubles + 1
    /\ pc' = IF pc = "prune" THEN "fetch" ELSE "plan"
    /\ UNCHANGED <<clone, origin, seen, made, exposed>>

\* No call went well, and the user has worked on: the plan is made of branches
\* that have changed since they were read.
IsBlind == ~seen.fresh /\ seen.late # {}

\* The branches are read again, planned and moved.
Restack(moves) ==
    /\ local' = Moved(local, moves)
    /\ exposed' = IF IsBlind THEN exposed \cup seen.late ELSE exposed
    /\ pc' = "idle" /\ seen' = Idle
    /\ UNCHANGED <<tracking, pushed, origin, made>>

Finish ==
    /\ pc = "plan"
    /\ \E play \in {Planned} :
        /\ Restack(play.moves)
        /\ head' = ComeBack(local', play.head)
    /\ UNCHANGED troubles

\* Killed before the last move, with HEAD detached.
Die ==
    /\ pc = "plan" /\ troubles < MaxTroubles
    /\ \E moves \in {Planned.moves} :
        \E k \in 0..(Len(moves) - 1) : Restack(SubSeq(moves, 1, k))
    /\ head' = [on |-> NoBranch, at |-> HeadCommit]
    /\ troubles' = troubles + 1

-----------------------------------------------------------------------------
Next ==
    \/ UserCommits
    \/ UserBranches
    \/ \E b \in Branch : UserSwitches(b)
    \/ UserPushes
    \/ UpstreamCommits
    \/ \E b \in Dev : UpstreamMerges(b) \/ UpstreamSquashes(b)
    \/ StartSync \/ Prune \/ Fetch \/ CallFails \/ Finish \/ Die

Spec == Init /\ [][Next]_vars

\* The user syncs again and again, and a sync goes on: what moves pc is never put
\* off for ever.
Goes == pc' \in Stages \ {pc}
FairSpec == Spec /\ WF_pc(Goes)

-----------------------------------------------------------------------------
(***************************************************************************)
(* Properties.                                                             *)
(***************************************************************************)
\* Whatever upstream does with it, and whenever a sync dies, what the user has
\* committed is in a branch or has come back from upstream; but for what was
\* committed while a sync waited that could not reach a remote.
NoWorkIsLost == made \ exposed \subseteq All(local) \cup Tree(tracking)

\* README, "Undo support: backs up branch state prior to rewriting history": what
\* a sync takes out of the branches is in its snapshot, or came from upstream.
UndoBringsBack ==
    [][pc = "plan" =>
        All(local) \subseteq seen.saved \cup All(local') \cup Tree(tracking)]_vars

\* Only a branch that upstream has all of is deleted.
OnlyMergedBranchesGo ==
    [][\A b \in Branch : Exists(local, b) /\ ~Exists(local', b)
            => Tree(local[b]) \ exposed' \subseteq Tree(tracking')]_vars

\* Two commits main has everything of: of branches at these, one sync may delete
\* what the other leaves.
BothInMain(c, d) == IsPrefix(c, tracking) /\ IsPrefix(d, tracking)

Finished == pc = "plan" /\ pc' = "idle" /\ UNCHANGED troubles /\ seen.late = {}
Died == pc = "plan" /\ troubles' # troubles /\ seen.late = {}

\* A sync that is run again, with nothing new in between, changes nothing.
SyncTwiceIsOnce ==
    [][Finished /\ head'.on # NoBranch =>
        \A again \in {Outcome(local', tracking', HeadCommit')}, b \in Branch :
            again[b] = local'[b] \/ BothInMain(again[b], local'[b])]_vars

\* A sync that died half-way is made up for: whatever it had done, a sync from a
\* branch it was to move brings that branch where it was to be.
KilledSyncIsMadeUpFor ==
    [][Died =>
        \A due \in {Moved(local, Planned.moves)} :
        \A b \in {d \in Branch : due[d] # local[d]} :
        \A again \in {IF ~Exists(local', b) THEN NoCommit
                      ELSE Outcome(local', tracking', local'[b])[b]} :
            again = due[b] \/ BothInMain(again, due[b])]_vars

\* Syncing again and again, the user's branch gets on top of what upstream has,
\* or has nothing of its own left.
UpToDate ==
    \/ head.on = NoBranch
    \/ IsPrefix(origin[Main], local[head.on])
    \/ head.on # Main /\ IsPrefix(local[head.on], local[Main])

Converges == []<>UpToDate

=============================================================================
