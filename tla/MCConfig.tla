------------------------------ MODULE MCConfig ------------------------------
(***************************************************************************)
(* The configurations the runs start from: aliases in the three levels     *)
(* git has, one setting in any of the places it is read from, or patterns  *)
(* of protected branches.                                                  *)
(***************************************************************************)
EXTENDS ConfigCommands

CONSTANT Asked      \* the families of configurations of the run

MCOurs == <<"sync", "run">>
MCOther == <<"s">>
MCKey == SettingKeys \cup ToSet(Aliases)
MCAction == [sync |-> "stack sync", run |-> "stack run"]
MCNumber == [v \in {"-1", "0", "2"} |->
                CASE v = "-1" -> -1 [] v = "0" -> 0 [] v = "2" -> 2]
MCFlag == [v \in {"true", "yes", "no", "0", "2"} |-> v \in {"true", "yes", "2"}]
MCValue == {"", "valueless", "stack sync", "stack sync -n", "stack run", "fetch",
            "all", "main", "m*", "!main"}
           \cup DOMAIN MCNumber \cup DOMAIN MCFlag
MCBase == [v \in MCValue |-> CASE v \in {"stack sync", "stack sync -n"} -> "sync"
                               [] v = "stack run" -> "run"
                               [] OTHER -> "nothing"]
MCMatches == [p \in MCValue |-> CASE p \in {"main", "!main"} -> {"main"}
                                  [] p = "m*" -> {"main", "mine"}
                                  [] OTHER -> {}]
MCDefaultBranches == <<"main">>

\* The files that hold `lines', which gives places their lines of some keys.
Holding(lines) ==
    [p \in Place |-> [k \in Key |->
        IF p \in DOMAIN lines /\ k \in DOMAIN lines[p] THEN lines[p][k] ELSE << >>]]

Line(v) == <<v>>
Lines(values) == {<< >>} \cup {Line(v) : v \in values}

AliasStarts ==
    {Holding([system |-> [sync |-> a], user |-> [sync |-> b, run |-> c, s |-> d],
              local |-> [sync |-> e]]) :
        a \in Lines({"stack sync", "fetch"}),
        b \in Lines({"stack sync", "stack sync -n", "fetch", "valueless"})
              \cup {<<"fetch", "stack sync">>},
        c \in Lines({"stack run"}),
        d \in Lines({"stack sync"}),
        e \in Lines({"stack sync", "fetch"})}

\* A setting of every kind, with values that can be read and ones that cannot.
SettingValues ==
    [count |-> {"-1", "yes"}, word |-> {"all", "main"}, flag |-> {"yes", "valueless"},
     capacity |-> {"-1", "0"}, push |-> {"main", "valueless"}]

\* Two places have a line for it, or fewer.
FileStarts ==
    UNION {{Holding([p \in {q, r} |-> (key :> IF p = q THEN a ELSE b)]) :
              q \in Place, r \in Place,
              a \in Lines(SettingValues[key]), b \in Lines(SettingValues[key])} :
           key \in DOMAIN SettingValues}

\* Patterns in the repository, in the working tree and in the environment.
PatternStarts ==
    {Holding([local |-> [protected |-> a], workdir |-> [protected |-> b],
              env |-> [protected |-> c]]) :
        a \in Lines({"main", "!main", ""}) \cup {<<"m*", "!main">>, <<"", "m*">>},
        b \in Lines({"m*", "!main"}),
        c \in Lines({"!main"})}

MCStarts ==
    UNION {CASE f = "aliases" -> AliasStarts
             [] f = "files" -> FileStarts
             [] f = "patterns" -> PatternStarts : f \in Asked}

=============================================================================
