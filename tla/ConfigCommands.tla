--------------------------- MODULE ConfigCommands ---------------------------
(***************************************************************************)
(* The commands that write git's configuration: `git stack alias           *)
(* --register', `git stack alias --unregister' and `git stack --protect'.  *)
(* Each reads first, then writes key by key, straight to the file: a write *)
(* may fail, and the command may be killed between two of them.  The       *)
(* aliases are read from all of git's levels and written to the user's;    *)
(* the patterns are those of the repository's own file.                    *)
(***************************************************************************)
EXTENDS Settings

CONSTANTS
    Ours,       \* the aliases git-stack has, in their order (ALIASES)
    Other,      \* the other aliases there are, in any order
    Base,       \* by alias value, the git-stack command it begins with
    Action,     \* by git-stack alias, the value it is given
    Patterns,   \* what may be protected
    Branch,     \* the branches there are
    Starts,     \* the files the user may have
    MaxCommands, MaxFaults

Place == {"system", "user", "local", "workdir", "params", "env"}
Aliases == Ours \o Other
Commands == {"register", "unregister", "protect"}

ASSUME OursAreAliases ==
    /\ Ours \in Seq(Key) /\ IsInjective(Ours) /\ Other \in Seq(Key)
    /\ ToSet(Aliases) \subseteq Key \ SettingKeys
    /\ \A a \in ToSet(Ours) : Action[a] \in Value /\ Base[Action[a]] = a
ASSUME BareKeysNameNoCommand == Base[NoValue] \notin ToSet(Ours)
ASSUME PatternsAreValues == Patterns \subseteq Value \ {NoValue}
ASSUME StartsAreFiles == Starts \subseteq [Place -> File]
ASSUME Bounds == MaxCommands \in Nat /\ MaxFaults \in Nat

VARIABLES
    files,
    op,         \* the command that runs, or "none"
    todo,       \* what it has left to write
    missing,    \* register: the aliases its snapshot did not have
    asked,      \* --protect: the pattern, and what the file had
    ok,         \* whether it has met nothing wrong
    last,       \* the last command and how it ended
    ran, faults

NotAsked == [pattern |-> Empty, before |-> << >>]

command == <<op, todo, missing, asked, ok>>
vars == <<files, command, last, ran, faults>>

Start(name, work) ==
    /\ op = "none" /\ ran < MaxCommands
    /\ op' = name /\ todo' = work
    /\ ok' = TRUE
    /\ ran' = ran + 1
    /\ UNCHANGED <<files, last, faults>>

End(result) ==
    /\ op' = "none" /\ todo' = << >> /\ missing' = {} /\ asked' = NotAsked
    /\ ok' = TRUE
    /\ last' = [op |-> op, result |-> result]
    /\ UNCHANGED ran

\* One more thing is done.
Goes(file, place) ==
    /\ files' = [files EXCEPT ![place] = file]
    /\ todo' = Tail(todo)
    /\ UNCHANGED <<op, missing, asked, ok, last, ran, faults>>

Fault ==
    /\ faults < MaxFaults
    /\ faults' = faults + 1
    /\ UNCHANGED files

Init ==
    /\ files \in Starts
    /\ op = "none" /\ todo = << >> /\ missing = {} /\ asked = NotAsked
    /\ ok = TRUE
    /\ last = [op |-> "none", result |-> "ok"]
    /\ ran = 0 /\ faults = 0

-----------------------------------------------------------------------------
(***************************************************************************)
(* register.                                                               *)
(***************************************************************************)
Effective(alias) == Get(files, RepoLevels, alias)

MissingHere(levels) ==          \* mutant: from the repository alone
    {a \in ToSet(Ours) : ~IsSet(files, <<"local">>, a)}

MissingOf(levels) == {a \in ToSet(Ours) : ~IsSet(files, levels, a)}

Register ==
    /\ Start("register", Ours)
    /\ missing' = MissingOf(RepoLevels)
    /\ UNCHANGED asked

\* An alias that is there is left alone; whether it is the command's decides how
\* register ends.
Accepted(alias, value) == TRUE  \* mutant: whatever it is

Accepts(alias, value) == Base[value] = alias

Registered ==
    /\ op = "register" /\ todo # << >> /\ Head(todo) \notin missing
    /\ todo' = Tail(todo)
    /\ ok' = (ok /\ Accepts(Head(todo), Effective(Head(todo))))
    /\ UNCHANGED <<files, op, missing, asked, last, ran, faults>>

SetAlias ==
    /\ op = "register" /\ todo # << >> /\ Head(todo) \in missing
    /\ CanSet(files["user"], Head(todo))
    /\ Goes(SetStr(files["user"], Head(todo), Action[Head(todo)]), "user")

EndRegister ==
    /\ op = "register" /\ todo = << >>
    /\ End(IF ok THEN "ok" ELSE "failed")
    /\ UNCHANGED <<files, faults>>

(***************************************************************************)
(* unregister: every entry of every level, the lowest first.               *)
(***************************************************************************)
AliasEntries(levels) ==
    FlattenSeq([l \in DOMAIN levels |->
        FlattenSeq([a \in DOMAIN Aliases |->
            LET values == files[levels[l]][Aliases[a]]
            IN  [i \in DOMAIN values |-> [key |-> Aliases[a], value |-> values[i]]]])])

Unregister ==
    /\ Start("unregister", AliasEntries(RepoLevels))
    /\ UNCHANGED <<missing, asked>>

IsOursAsRegistered(entry) ==    \* mutant: not with flags of the user
    entry.key \in ToSet(Ours) /\ entry.value = Action[entry.key]

\* An alias of git-stack's name counts if it is that command's, one of another
\* name if it is any of git-stack's.
IsOurs(entry) ==
    /\ entry.value # NoValue
    /\ IF entry.key \in ToSet(Ours) THEN Base[entry.value] = entry.key
       ELSE Base[entry.value] \in ToSet(Ours)

KeepEntry ==
    /\ op = "unregister" /\ todo # << >> /\ ~IsOurs(Head(todo))
    /\ todo' = Tail(todo)
    /\ UNCHANGED <<files, op, missing, asked, ok, last, ran, faults>>

RemoveEntry ==
    /\ op = "unregister" /\ todo # << >> /\ IsOurs(Head(todo))
    /\ CanRemove(files["user"], Head(todo).key)
    /\ Goes(RemoveAll(files["user"], Head(todo).key), "user")

\* The entry is of another file, or one of several lines.
CannotRemove ==
    /\ op = "unregister" /\ todo # << >> /\ IsOurs(Head(todo))
    /\ ~CanRemove(files["user"], Head(todo).key)
    /\ End("failed")
    /\ UNCHANGED <<files, faults>>

EndUnregister ==
    /\ op = "unregister" /\ todo = << >>
    /\ End("ok")
    /\ UNCHANGED <<files, faults>>

(***************************************************************************)
(* --protect: the patterns of the repository are removed and written again *)
(* one by one, with the new one at the end.  Removing may fail unnoticed.  *)
(***************************************************************************)
Clearing == "clear"
ASSUME ClearingIsNoPattern == Clearing \notin Value

Protect(pattern) ==
    LET before == FromRepo(files).protected
    IN  /\ Start("protect", <<Clearing>> \o Append(before, pattern))
        /\ asked' = [pattern |-> pattern, before |-> before]
        /\ UNCHANGED missing

ClearPatterns ==
    /\ op = "protect" /\ todo # << >> /\ Head(todo) = Clearing
    /\ Goes(RemoveAll(files["local"], "protected"), "local")

NotCleared ==
    /\ op = "protect" /\ todo # << >> /\ Head(todo) = Clearing
    /\ Fault
    /\ todo' = Tail(todo)
    /\ UNCHANGED <<op, missing, asked, ok, last, ran>>

SetPattern ==
    /\ op = "protect" /\ todo # << >> /\ Head(todo) # Clearing
    /\ Goes(SetEmpty(files["local"], "protected", Head(todo)), "local")

EndProtect ==
    /\ op = "protect" /\ todo = << >>
    /\ End("ok")
    /\ UNCHANGED <<files, faults>>

-----------------------------------------------------------------------------
\* A write fails, and with it the command; but see NotCleared.
WriteFails ==
    /\ todo # << >>
    /\ \/ op = "register" /\ Head(todo) \in missing
       \/ op = "unregister" /\ IsOurs(Head(todo))
       \/ op = "protect" /\ Head(todo) # Clearing
    /\ Fault
    /\ End("failed")

Killed ==
    /\ op # "none"
    /\ Fault
    /\ End("killed")

Next ==
    \/ Register \/ Registered \/ SetAlias \/ EndRegister
    \/ Unregister \/ KeepEntry \/ RemoveEntry \/ CannotRemove \/ EndUnregister
    \/ \E pattern \in Patterns : Protect(pattern)
    \/ ClearPatterns \/ NotCleared \/ SetPattern \/ EndProtect
    \/ WriteFails \/ Killed

Spec == Init /\ [][Next]_vars

-----------------------------------------------------------------------------
(***************************************************************************)
(* Properties.                                                             *)
(***************************************************************************)
\* docs/reference.md, "Configuration is read from the following (in precedence
\* order)": `git -c', GIT_CONFIG_COUNT, the repository, the working tree and git's
\* other files.
Params == FromEnvIter(files["params"])
Env == FromEnvIter(files["env"])

DocumentedOrder ==
    <<Params, Env, FromRepo(files), FromWorkdir(files),
      FromGitconfig(files, UserLevels), Defaults>>

Single == {"count", "word", "flag", "capacity", "push", "pull"}

\* What the first of the places says that says anything of f.
FirstSaid(places, f) ==
    LET says == {i \in DOMAIN places : places[i][f] # None}
    IN  places[Min(says)][f]

\* Of two that disagree from_env takes GIT_CONFIG_COUNT's, against the docs.
EnvDisagrees(f) == Params[f] # None /\ Env[f] # None /\ Params[f] # Env[f]

\* A setting is what the first of these places says that says anything git-stack
\* can read - but for one that `git -c' and GIT_CONFIG_COUNT set differently.
SettingsFollowTheDocs ==
    LET read == FromAll(files, None)
        places == DocumentedOrder
    IN  \A f \in Single : EnvDisagrees(f) \/ read[f] = FirstSaid(places, f)

\* Whatever fails or kills it, register changes no alias that is set anywhere: in
\* this repository, in another one or outside of any.
RegisterKeepsWhatThereIs ==
    [][op = "register" =>
        \A p \in Place, k \in Key :
            files[p][k] # << >> => files'[p][k] = files[p][k]]_vars

Ended(name, result) == op = "none" /\ last = [op |-> name, result |-> result]

\* A register that ends well leaves every alias of git-stack in effect.
RegisteredMeansInEffect ==
    Ended("register", "ok") =>
        \A a \in ToSet(Ours) : /\ IsSet(files, RepoLevels, a)
                               /\ Base[Effective(a)] = a

\* What an alias of the user is to git-stack: an alias of its own, or another name
\* for one of its commands.
Calls(alias, value) ==
    /\ Base[value] \in ToSet(Ours)
    /\ alias \in ToSet(Ours) => Base[value] = alias

\* An unregister that ends well leaves no alias of git-stack in the user's file.
UnregisteredMeansGone ==
    Ended("unregister", "ok") =>
        \A a \in ToSet(Aliases) : \A v \in ToSet(files["user"][a]) : ~Calls(a, v)

\* The patterns of the files, the repository's own being `own'.
FilePatterns(own) ==
    DefaultBranches \o FromGitconfig(files, UserLevels).protected
        \o FromWorkdir(files).protected \o own

\* The pattern --protect was given decides for the branches it matches, over what
\* any file says; for the other branches nothing changes.
ProtectDecides ==
    op = "protect" /\ todo = << >> =>
        LET now == FilePatterns(FromRepo(files).protected)
            before == FilePatterns(asked.before)
        IN  \A b \in Branch :
                IsProtected(now, b) =
                    IF b \in Matches[asked.pattern] THEN asked.pattern \notin Negated
                    ELSE IsProtected(before, b)

=============================================================================
