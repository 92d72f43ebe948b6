------------------------------ MODULE Settings ------------------------------
(***************************************************************************)
(* RepoConfig: what git-stack makes of its configuration.  A setting is    *)
(* optional, a sequence of no or one value.  One of each kind stands for   *)
(* all that are read alike:                                                *)
(*   protected  stack.protected-branch, which adds up over the places      *)
(*   count      protect-commit-count, auto-base-commit-count               *)
(*   word       protect-commit-age, stack, show-format, show-commits,      *)
(*              auto-fixup                                                 *)
(*   flag       show-stacked; auto-repair, whose default is the accessor's *)
(*   capacity   branch-stash.capacity                                      *)
(*   push       push-remote, or else remote.pushDefault                    *)
(*   pull       pull-remote                                                *)
(*   editor     core.editor, with $VISUAL and $EDITOR unset                *)
(***************************************************************************)
EXTENDS GitConfig, Integers

CONSTANTS
    Number,     \* the texts that are numbers: what they are
    Flag,       \* the texts git takes for a boolean: which
    Word,       \* the texts a word may be
    True,       \* the text "true"
    Wide,       \* how many numbers a usize has
    DefaultBranches,    \* init.defaultBranch, and the names always protected
    Matches,    \* which branches a pattern matches
    Negated     \* the patterns that begin with "!"

SettingKeys == {"protected", "count", "word", "flag", "capacity", "push",
                "pushDefault", "pull", "editor"}

\* A blank line is no pattern.
ASSUME BlankMatchesNothing == Matches[Empty] = {}
ASSUME DefaultsAreNames == DefaultBranches \in Seq(Value \ {NoValue})
ASSUME Texts ==
    /\ DOMAIN Number \cup DOMAIN Flag \cup Word \cup {True} \subseteq Value
    /\ \A v \in DOMAIN Number : Number[v] \in Int
    /\ \A v \in DOMAIN Flag : Flag[v] \in BOOLEAN
    /\ SettingKeys \subseteq Key

None == << >>
Some(v) == <<v>>
Or(option, other) == IF option # None THEN option ELSE other

-----------------------------------------------------------------------------
(***************************************************************************)
(* Reading one place.                                                      *)
(***************************************************************************)
Numbers == DOMAIN Number
Usizes == {v \in Numbers : Number[v] >= 0}
Flags == DOMAIN Flag \cup {NoValue}

IsOn(v) == v = NoValue \/ Flag[v]
Text(v) == IF v = NoValue THEN Empty ELSE v

\* The value of a key, if it is one of those that can be read.
LastReadable(values, readable) ==
    IF values # << >> /\ Last(values) \in readable THEN Some(Last(values))
    ELSE None

\* The values of a key, but for the lines that give it none.
Said(values) ==
    LET S[i \in 0..Len(values)] ==
            IF i = 0 THEN << >>
            ELSE IF values[i] = NoValue THEN S[i - 1]
            ELSE Append(S[i - 1], values[i])
    IN  S[Len(values)]

\* What `f' makes of an option.
Map(option, f(_)) == [i \in DOMAIN option |-> f(option[i])]

FromGitconfig(files, levels) ==
    LET At(key, readable) == LastReadable(Multivar(files, levels, key), readable)
        AtLeastZero(v) == IF Number[v] < 0 THEN 0 ELSE Number[v]
        AsUsize(v) == Number[v] % Wide
    IN  [protected |-> Said(Multivar(files, levels, "protected")),
         count |-> Map(At("count", Numbers), AtLeastZero),
         word |-> At("word", Word),
         flag |-> Map(At("flag", Flags), IsOn),
         capacity |-> Map(At("capacity", Numbers), AsUsize),
         push |-> Map(Or(At("push", Value), At("pushDefault", Value)), Text),
         pull |-> Map(At("pull", Value), Text),
         editor |-> Map(At("editor", Value), Text)]

\* In the environment a value that cannot be read leaves the one before it, but
\* for a flag, which it turns off, and the capacity, which it resets.
FromEnvIter(file) ==
    LET At(key, readable) ==
            LastReadable(SelectSeq(file[key], LAMBDA v : v \in readable), readable)
        Parsed(v) == Number[v]
        IsTrue(v) == v \in {True, NoValue}
        texts == Value \ {NoValue}
    IN  [protected |-> Said(file.protected),
         count |-> Map(At("count", Usizes), Parsed),
         word |-> At("word", Word),
         flag |-> Map(At("flag", Value), IsTrue),
         capacity |-> Map(LastReadable(file.capacity, Usizes), Parsed),
         push |-> At("push", texts),
         pull |-> At("pull", texts),
         editor |-> At("editor", texts)]

(***************************************************************************)
(* Adding the places up.                                                   *)
(***************************************************************************)
UpdateNot(config, other) ==             \* mutant: what is there stays
    [f \in DOMAIN config |->
        IF f = "protected" THEN config[f] \o other[f]
        ELSE Or(config[f], other[f])]

Update(config, other) ==
    [f \in DOMAIN config |->
        IF f = "protected" THEN config[f] \o other[f]
        ELSE Or(other[f], config[f])]

UserLevels == <<"system", "user">>      \* Config::open_default
RepoLevels == UserLevels \o <<"local">> \* Repository::config

FromRepo(files) == FromGitconfig(files, <<"local">>)
FromWorkdir(files) == FromGitconfig(files, <<"workdir">>)

\* `git -c' first, then GIT_CONFIG_COUNT; the editor is GIT_EDITOR or nothing.
FromEnv(files, git_editor) ==
    [Update(FromEnvIter(files["params"]), FromEnvIter(files["env"]))
        EXCEPT !.editor = git_editor]

Defaults ==
    [protected |-> DefaultBranches, count |-> Some(50), word |-> Some("all"),
     flag |-> Some(TRUE), capacity |-> Some(30), push |-> Some("origin"),
     pull |-> Some("origin"), editor |-> None]

FromAll(files, git_editor) ==
    LET users == Update(Defaults, FromGitconfig(files, UserLevels))
        trees == Update(users, FromWorkdir(files))
        repos == Update(trees, FromRepo(files))
    IN  Update(repos, FromEnv(files, git_editor))

-----------------------------------------------------------------------------
\* ProtectedBranches: of the patterns that match a branch the last one counts.
IsProtected(patterns, branch) ==
    LET hits == {i \in DOMAIN patterns : branch \in Matches[patterns[i]]}
    IN  hits # {} /\ patterns[Max(hits)] \notin Negated

=============================================================================
