----------------------------- MODULE GitConfig -----------------------------
(***************************************************************************)
(* Git's configuration, as far as git-stack uses it of libgit2.  A file    *)
(* gives every key the values of its lines, in order; `files' is a file    *)
(* for each place, and a level is a place that git itself reads.           *)
(***************************************************************************)
EXTENDS Naturals, SequencesExt

CONSTANTS
    Key,
    Value,      \* what a line may say
    Empty,      \* the value that is an empty string
    NoValue     \* a line that is a key alone

ASSUME SpecialValues == {Empty, NoValue} \subseteq Value /\ Empty # NoValue

File == [Key -> Seq(Value)]

\* Config::multivar, over levels from the lowest to the highest.
Multivar(files, levels, key) ==
    FlattenSeq([i \in DOMAIN levels |-> files[levels[i]][key]])

IsSet(files, levels, key) == \E i \in DOMAIN levels : files[levels[i]][key] # << >>

\* Config::get_*, of a key that is set: the last line of the highest level.
Get(files, levels, key) == Last(Multivar(files, levels, key))

\* Config::set_str and Config::remove refuse a key with several lines, and
\* remove one without any.
CanSet(file, key) == Len(file[key]) <= 1
SetStr(file, key, value) == [file EXCEPT ![key] = <<value>>]

CanRemove(file, key) == Len(file[key]) = 1
RemoveAll(file, key) == [file EXCEPT ![key] = << >>]

SetEvery(file, key, value) ==           \* mutant: every value, as with ".*"
    [file EXCEPT ![key] = IF @ = << >> THEN <<value>>
                          ELSE [i \in DOMAIN @ |-> value]]

\* Config::set_multivar with "^$": empty values are replaced, or a line added.
SetEmpty(file, key, value) ==
    [file EXCEPT ![key] =
        IF Empty \in ToSet(@)
        THEN [i \in DOMAIN @ |-> IF @[i] = Empty THEN value ELSE @[i]]
        ELSE Append(@, value)]

=============================================================================
