-------------------------------- MODULE Walk --------------------------------
(***************************************************************************)
(* The commands that move HEAD over a stack without rewriting it: `git     *)
(* next' and `git prev', and `git run', which tries a program on every     *)
(* commit of the stack.  A user gives a few of them, one after the other,  *)
(* in one repository.                                                      *)
(***************************************************************************)
EXTENDS BranchSets

CONSTANTS
    Repo,           \* the repositories, see BranchSets
    HeadsOf(_),     \* where HEAD may be in a repository
    Asks,           \* the sequences of requests a user may make
    MaxFaults       \* how many times git fails, or the program leaves files

ASSUME WalkBounds == MaxFaults \in Nat
ASSUME RepositoriesAre == \A r \in Repo : IsRepository(r)

\* A request: the command and its flags.
RequestType ==
    [command : {"next", "prev", "run"}, count : Nat, dry_run : BOOLEAN,
     branch : BOOLEAN, stash : BOOLEAN, oldest : BOOLEAN,
     protected : BOOLEAN,                               \* prev only
     no_fail_fast : BOOLEAN, switch : BOOLEAN]          \* run only

\* What can be in the working directory: the user's edits of tracked files
\* and new files, and what a program, or half a checkout, left in tracked
\* files.
Tracked == {"edit", "litter"}
Content == Tracked \cup {"new"}

NoBranch == 0
NoEntry == 0

\* HEAD is on a branch, and so at its commit, or else detached at some commit.
ASSUME HeadsAre ==
    \A r \in Repo : \A h \in HeadsOf(r) :
        /\ h.at \in DOMAIN r.parents
        /\ \/ h = [on |-> NoBranch, at |-> h.at]
           \/ h = [on |-> h.on, at |-> r.local[h.on]]

VARIABLES
    repo,       \* the repository: the commands leave it alone
    asks,       \* what the user will ask for
    mine,       \* what the user had not committed in the beginning
    head,       \* HEAD: the branch it is on, if any, and the commit
    content,    \* what the working directory has over HEAD's commit
    stash,      \* git's stash, the last entry the newest
    cmd,        \* the request
    pc,         \* where the command is
    home,       \* HEAD when the command began
    branches,   \* the BranchSet it read then
    graph,      \* the graph of the stack, for next and run
    entry,      \* stash_id: the entry of this command
    current,    \* current_id
    progress,   \* the commits, or branches, next or prev have passed
    queue,      \* the cursor of run: node_queue ...
    prior,      \* ... and prior
    tried,      \* the commits the program ran on, and whether it succeeded
    log,        \* the commands that have ended
    faults

place == <<head, content, stash>>
given == <<repo, asks, mine>>
begun == <<cmd, home, branches>>
cursor == <<current, progress, queue, prior, tried>>
vars == <<given, place, begun, graph, pc, entry, cursor, log, faults>>

NoRequest ==
    [command |-> "next", count |-> 0, dry_run |-> FALSE, branch |-> FALSE,
     stash |-> FALSE, oldest |-> FALSE, protected |-> FALSE,
     no_fail_fast |-> FALSE, switch |-> FALSE]

Init ==
    /\ repo \in Repo /\ asks \in Asks
    /\ head \in HeadsOf(repo)
    /\ mine \in SUBSET {"edit", "new"} /\ content = mine
    /\ stash = << >> /\ entry = NoEntry
    /\ cmd = NoRequest /\ pc = "idle" /\ home = head
    /\ branches = {} /\ graph = NoGraph
    /\ current = head.at /\ progress = 0
    /\ queue = << >> /\ prior = None /\ tried = << >>
    /\ log = << >> /\ faults = 0

At(phase) == pc = phase
Go(phase) == pc' = phase
Fault == faults < MaxFaults /\ faults' = faults + 1
IsRun == cmd.command = "run"

\* The end of a command, with its exit code.
Exit(code) ==
    /\ Go("idle")
    /\ log' = Append(log, [cmd |-> cmd, from |-> home, to |-> head',
                           tried |-> tried, code |-> code,
                           kept |-> entry \in DOMAIN stash'])

Begin ==
    /\ At("idle") /\ Len(log) < Len(asks)
    /\ cmd' = asks[Len(log) + 1] /\ home' = head /\ entry' = NoEntry
    /\ branches' = FromRepo(repo) /\ graph' = NoGraph
    /\ current' = head.at /\ progress' = 0
    /\ queue' = << >> /\ prior' = None /\ tried' = << >>
    /\ Go("stash")
    /\ UNCHANGED <<given, place, log, faults>>

-----------------------------------------------------------------------------
(***************************************************************************)
(* Before HEAD moves: no operation may be in progress and the working      *)
(* directory must be clean, which stashing can make it.  A dry run says so *)
(* and goes on.                                                            *)
(***************************************************************************)
RefuseBusy ==
    /\ At("stash") /\ repo.busy /\ ~cmd.dry_run
    /\ UNCHANGED <<given, place, begun, graph, entry, cursor, faults>>
    /\ Exit("usage")

Stashes == ~cmd.dry_run /\ IF IsRun THEN ~cmd.switch ELSE cmd.stash

\* git::stash_push: it takes the changes of tracked files only and fails,
\* which is only logged, when there are none.
Stash ==
    /\ At("stash") /\ ~(repo.busy /\ ~cmd.dry_run)
    /\ Go("check")
    /\ \/ /\ Stashes /\ content \cap Tracked # {}
          /\ stash' = Append(stash, content \cap Tracked)
          /\ content' = content \ Tracked
          /\ entry' = Len(stash')
          /\ UNCHANGED faults
       \/ /\ Stashes /\ content \cap Tracked # {}
          /\ Fault
          /\ UNCHANGED <<stash, content, entry>>
       \/ /\ ~(Stashes /\ content \cap Tracked # {})
          /\ UNCHANGED <<stash, content, entry, faults>>
    /\ UNCHANGED <<given, head, begun, graph, cursor, log>>

NeverDirty == FALSE             \* mutant: it is not looked at
IsDirty == content # {}

RefuseDirty ==
    /\ At("check") /\ IsDirty /\ ~cmd.dry_run
    /\ UNCHANGED <<given, place, begun, graph, entry, cursor, faults>>
    /\ Exit("usage")

\* The commit the stack is based on, and the graph over it: run looks at the
\* branches that share commits with HEAD, next at all that are on the base.
BaseOf(at) == ResolveImplicitBase(repo, branches, at, repo.auto_base)
DependentsOf(fork, at) == Dependents(repo, branches, fork, at)  \* mutant
StackOf(fork, at) == IF IsRun THEN Dependents(repo, branches, fork, at)
                     ELSE Descendants(repo, branches, fork)

\* DescendantsCursor::new: a commit that is not in the graph has none.
FirstOf(fork) == IF ContainsId(repo, graph', fork) THEN <<fork>> ELSE << >>

Plan ==
    /\ At("check") /\ ~(IsDirty /\ ~cmd.dry_run)
    /\ UNCHANGED <<given, place, begun, entry, current, progress, prior,
                   tried, faults>>
    /\ \/ /\ cmd.command = "prev"
          /\ Go("step") /\ UNCHANGED <<graph, queue, log>>
       \/ /\ cmd.command # "prev"
          /\ LET fork == MergeBase(repo, BaseOf(home.at), home.at)
             IN  /\ graph' = GraphOf(repo, StackOf(fork, home.at))
                 /\ \/ /\ graph' # NoGraph /\ ~IsRun
                       /\ Go("step") /\ UNCHANGED <<queue, log>>
                    \/ /\ graph' # NoGraph /\ IsRun
                       /\ Go("visit") /\ queue' = FirstOf(fork)
                       /\ UNCHANGED log
                    \/ /\ graph' = NoGraph       \* Graph::from_branches fails
                       /\ UNCHANGED queue
                       /\ Exit("failure")

-----------------------------------------------------------------------------
(***************************************************************************)
(* GitRepo::switch_branch and switch_commit.  HEAD is set first; the files *)
(* are checked out, by force, only when the two commits differ in theirs.  *)
(***************************************************************************)
Overwrites(to) == repo.tree[head.at] # repo.tree[to.at]

SwitchTo(to) ==
    /\ head' = to
    /\ content' = IF Overwrites(to) THEN content \ Tracked ELSE content

\* HEAD cannot be set, or the checkout stops half-way.
SwitchFails(to) ==
    /\ Fault
    /\ \/ UNCHANGED <<head, content>>
       \/ /\ Overwrites(to)
          /\ head' = to
          /\ content' = (content \ Tracked) \cup {"litter"}

OnCommit(c) == [on |-> NoBranch, at |-> c]
OnBranch(b) == [on |-> b, at |-> repo.local[b]]

\* ops::switch: the branch at the commit that is the user's most, or else
\* the commit.  The best branch can be a remote one, which the code does not
\* expect.
BestBranch(c) ==
    CHOOSE b \in BranchesAt(branches, c) :
        \A o \in BranchesAt(branches, c) \ {b} :
            \/ KindRank[b.kind] < KindRank[o.kind]
            \/ KindRank[b.kind] = KindRank[o.kind] /\ b.name <= o.name

HasBranch(c) == BranchesAt(branches, c) # {}
Panics(c) == HasBranch(c) /\ BestBranch(c).is_remote /\ ~cmd.dry_run
Destination(c) == IF HasBranch(c) THEN OnBranch(BestBranch(c).name)
                  ELSE OnCommit(c)

\* ... to c, and the command ends.
SwitchAndExit(c, code) ==
    \/ /\ Panics(c)
       /\ UNCHANGED <<head, content, faults>>
       /\ Exit("panic")
    \/ /\ cmd.dry_run
       /\ UNCHANGED <<head, content, faults>>
       /\ Exit(code)
    \/ /\ ~cmd.dry_run /\ ~Panics(c)
       /\ SwitchTo(Destination(c))
       /\ UNCHANGED faults
       /\ Exit(code)
    \/ /\ ~cmd.dry_run /\ ~Panics(c)
       /\ SwitchFails(Destination(c))
       /\ Exit("failure")

-----------------------------------------------------------------------------
(***************************************************************************)
(* next and prev: one commit at a time, to the newest, or the oldest, of   *)
(* its children or parents.                                                *)
(***************************************************************************)
Newest(ids) == {c \in ids : \A d \in ids : repo.time[d] <= repo.time[c]}
Oldest(ids) == {c \in ids : \A d \in ids : repo.time[c] <= repo.time[d]}
ByAge(ids) == IF cmd.oldest THEN Oldest(ids) ELSE Newest(ids)

\* The children of the current commit, or its parents without the ones that
\* are more protected than another.
LeastProtected(ids) ==
    {c \in ids : \A d \in ids : KindAt(branches, c) <= KindAt(branches, d)}
Onward ==
    IF cmd.command = "next" THEN ChildrenOf(repo, graph, current)
    ELSE LeastProtected(Range(repo.parents[current]))

StaysPutIfProtected ==          \* mutant: a mixed branch is the user's
    /\ cmd.command = "prev" /\ ~cmd.protected
    /\ KindAt(branches, current) = KindRank["protected"]

\* prev stops at a commit a protected branch is at, or the local branch of
\* one.
StaysPut == /\ cmd.command = "prev" /\ ~cmd.protected
            /\ KindAt(branches, current) >= KindRank["mixed"]

Counts(c) == cmd.branch => HasBranch(c)

MayStep == progress < cmd.count /\ ~StaysPut /\ Onward # {}

Step ==
    /\ At("step") /\ MayStep
    /\ current' \in ByAge(Onward)
    /\ progress' = IF Counts(current') THEN progress + 1 ELSE progress
    /\ UNCHANGED <<given, place, begun, graph, pc, entry, queue, prior,
                   tried, log, faults>>

Arrive ==
    /\ At("step") /\ ~MayStep
    /\ UNCHANGED <<given, stash, begun, graph, entry, cursor>>
    /\ \/ /\ current = home.at
          /\ UNCHANGED <<head, content, faults>>
          /\ Exit("ok")
       \/ /\ current # home.at
          /\ SwitchAndExit(current, "ok")

-----------------------------------------------------------------------------
(***************************************************************************)
(* run: DescendantsCursor::next and stop, and the program in between.      *)
(***************************************************************************)
\* The queue once the children of the prior commit are in it, in any order.
Extended ==
    IF prior = None THEN {queue}
    ELSE LET kids == ChildrenOf(repo, graph, prior)
         IN  {queue \o s : s \in {t \in [1..Cardinality(kids) -> kids] :
                                    IsInjective(t)}}

Visit ==
    /\ At("visit")
    /\ UNCHANGED <<given, stash, begun, graph, entry, progress, tried>>
    /\ \E q \in Extended :
        /\ q # << >>
        /\ current' = Head(q) /\ prior' = Head(q) /\ queue' = Tail(q)
    /\ \/ /\ cmd.dry_run
          /\ Go("try") /\ UNCHANGED <<head, content, log, faults>>
       \/ /\ ~cmd.dry_run
          /\ SwitchTo(OnCommit(current'))
          /\ Go("try") /\ UNCHANGED <<log, faults>>
       \/ /\ ~cmd.dry_run
          /\ SwitchFails(OnCommit(current'))
          /\ Exit("failure")

\* cursor.stop, at a failure unless --no-fail-fast is given: the children of
\* the commit are not looked at.
NeverStops(success) == FALSE            \* mutant
StopsAt(success) == ~success /\ ~cmd.no_fail_fast

Try ==
    /\ At("try")
    /\ \E success \in BOOLEAN :
        /\ tried' = Append(tried, [at |-> current, ok |-> success])
        /\ prior' = IF StopsAt(success) THEN None ELSE prior
    /\ \/ UNCHANGED <<content, faults>>
       \/ /\ Fault /\ content' = content \cup {"litter"}
    /\ Go("visit")
    /\ UNCHANGED <<given, head, stash, begun, graph, entry, current,
                   progress, queue, log>>

Failures(ts) == {i \in DOMAIN ts : ~ts[i].ok}
LastFailure(ts) == ts[Max(Failures(ts))].at                 \* mutant
FirstFailure(ts) == ts[Min(Failures(ts))].at
ExitCode == IF Failures(tried) = {} THEN "ok" ELSE "failed"

SwitchesToFailure == /\ Failures(tried) # {} /\ cmd.switch
                     /\ FirstFailure(tried) # home.at

StayAtFailure ==
    /\ At("visit") /\ << >> \in Extended /\ SwitchesToFailure
    /\ UNCHANGED <<given, stash, begun, graph, entry, cursor>>
    /\ SwitchAndExit(FirstFailure(tried), ExitCode)

\* Otherwise HEAD goes back to where it was ...
Home == IF home.on # NoBranch THEN OnBranch(home.on) ELSE OnCommit(home.at)

GoHome ==
    /\ At("visit") /\ << >> \in Extended /\ ~SwitchesToFailure
    /\ UNCHANGED <<given, stash, begun, graph, entry, cursor>>
    /\ \/ /\ cmd.dry_run
          /\ Go("pop") /\ UNCHANGED <<head, content, log, faults>>
       \/ /\ ~cmd.dry_run
          /\ SwitchTo(Home)
          /\ Go("pop") /\ UNCHANGED <<log, faults>>
       \/ /\ ~cmd.dry_run
          /\ SwitchFails(Home)
          /\ Exit("failure")

\* ... and the work that was stashed comes back: git::stash_pop.  It may fail
\* over what is in the working directory by now, which is only logged.
Pops == entry # NoEntry

Pop ==
    /\ At("pop")
    /\ \/ /\ Pops
          /\ stash' = SubSeq(stash, 1, entry - 1)
          /\ content' = content \cup stash[entry]
          /\ UNCHANGED faults
       \/ /\ Pops /\ "litter" \in content
          /\ UNCHANGED <<stash, content, faults>>
       \/ /\ Pops /\ "litter" \notin content
          /\ Fault
          /\ UNCHANGED <<stash, content>>
       \/ /\ ~Pops
          /\ UNCHANGED <<stash, content, faults>>
    /\ UNCHANGED <<given, head, begun, graph, entry, cursor>>
    /\ Exit(ExitCode)

\* The user has got it all.
Quit == At("idle") /\ Len(log) = Len(asks) /\ UNCHANGED vars

Next ==
    \/ Begin \/ RefuseBusy \/ Stash \/ RefuseDirty \/ Plan
    \/ Step \/ Arrive
    \/ Visit \/ Try \/ StayAtFailure \/ GoHome \/ Pop
    \/ Quit

Spec == Init /\ [][Next]_vars

-----------------------------------------------------------------------------
\* No command loses what the user has not committed: it is in the working
\* directory or on git's stash, though HEAD is moved by force.
EditsSurvive ==
    mine \subseteq content \cup UNION {stash[i] : i \in DOMAIN stash}

Ended == {log[i] : i \in DOMAIN log}
Finished(l) == l.code \in {"ok", "failed"}
IsLinear == \A c \in DOMAIN repo.parents : Len(repo.parents[c]) <= 1

\* A run that ends in an orderly way leaves HEAD where it was; with --switch,
\* and a failure elsewhere, at the commit that failed first.  What it put on
\* git's stash has come back, unless git fails or the program has left changes
\* in the way.
RunEndsWhereItShould ==
    \A l \in Ended : l.cmd.command = "run" /\ Finished(l) =>
        /\ \/ l.to = l.from
           \/ /\ l.cmd.switch /\ ~l.cmd.dry_run /\ l.code = "failed"
              /\ \E i \in DOMAIN l.tried :
                   /\ ~l.tried[i].ok /\ l.to.at = l.tried[i].at
                   /\ \A j \in 1..(i - 1) : l.tried[j].ok
        /\ l.kept => faults > 0

\* run, descending: the program is only tried on a commit after it was tried
\* on a parent, and succeeded there when run is to fail fast.
TriesAbovePassed ==
    At("visit") => \A i \in 2..Len(tried) : \E j \in 1..(i - 1) :
        /\ tried[j].at \in Range(repo.parents[tried[i].at])
        /\ tried[j].ok \/ cmd.no_fail_fast

\* prev, without --protected, does not go below a commit a protected branch,
\* or the local branch of one, is at.
PrevStopsAtProtected ==
    \A l \in Ended :
        l.cmd.command = "prev" /\ ~l.cmd.protected /\ IsLinear =>
            \A c \in Histories(repo)[l.from.at] :
                KindAt(branches, c) >= KindRank["mixed"] =>
                    l.to.at \notin Histories(repo)[c] \ {c}

=============================================================================
