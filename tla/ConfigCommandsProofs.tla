------------------------ MODULE ConfigCommandsProofs ------------------------
(***************************************************************************)
(* Whatever the user's files, the aliases and the settings are, and        *)
(* wherever a write fails: `git stack alias --register' overwrites         *)
(* nothing, and a run of it that ends well leaves each alias set;          *)
(* --unregister leaves none of ours; a pattern --protect has written       *)
(* decides; and the settings a command works with are the ones the         *)
(* documented order of places gives.                                       *)
(***************************************************************************)
EXTENDS ConfigCommands, DataLemmas, SequenceTheorems, TLAPS

\* That the files give each key something.  What it is does not matter here.
Keyed(file) == file = [k \in Key |-> file[k]]
FilesAreKeyed == files = [p \in Place |-> files[p]] /\ \A p \in Place : Keyed(files[p])

\* An alias register has yet to come to, and found missing, is missing still.  It
\* is so only because no alias is in the list twice: the first would set it.
Waiting == \A i \in DOMAIN todo : todo[i] \in missing => files["user"][todo[i]] = << >>

RegisterInv ==
    /\ FilesAreKeyed
    /\ op = "register" => /\ todo \in Seq(Key) /\ IsInjective(todo)
                          /\ Waiting

-----------------------------------------------------------------------------
LEMMA UserIsALevel == 2 \in DOMAIN RepoLevels /\ RepoLevels[2] = "user"
BY DEF RepoLevels, UserLevels

\* What was taken off the front of a list without repetitions is not in the rest.
LEMMA TailIsDistinct ==
    ASSUME NEW s \in Seq(Key), s # << >>, IsInjective(s)
    PROVE  /\ Tail(s) \in Seq(Key) /\ IsInjective(Tail(s))
           /\ \A i \in DOMAIN Tail(s) : /\ i + 1 \in DOMAIN s
                                        /\ Tail(s)[i] = s[i + 1]
                                        /\ Tail(s)[i] # Head(s)
<1>1. /\ Tail(s) \in Seq(Key) /\ Len(Tail(s)) = Len(s) - 1
      /\ \A i \in 1..Len(Tail(s)) : Tail(s)[i] = s[i + 1]
  BY HeadTailProperties
<1>2. /\ DOMAIN Tail(s) = 1..(Len(s) - 1) /\ DOMAIN s = 1..Len(s)
      /\ Len(s) \in Nat /\ Len(s) > 0 /\ Head(s) = s[1]
  BY <1>1
<1>3. \A i \in DOMAIN Tail(s) : i + 1 \in DOMAIN s /\ Tail(s)[i] = s[i + 1]
  BY <1>1, <1>2
<1>4. \A i \in DOMAIN Tail(s) : Tail(s)[i] # Head(s)
  <2> SUFFICES ASSUME NEW i \in DOMAIN Tail(s), s[i + 1] = s[1]
               PROVE  FALSE
    BY <1>2, <1>3
  <2>1. i + 1 = 1
    BY <1>2, <1>3 DEF IsInjective
  <2> QED  BY <1>2, <2>1
<1>5. IsInjective(Tail(s))
  <2> SUFFICES ASSUME NEW i \in DOMAIN Tail(s), NEW j \in DOMAIN Tail(s),
                      Tail(s)[i] = Tail(s)[j]
               PROVE  i = j
    BY DEF IsInjective
  <2>1. i + 1 = j + 1
    BY <1>3 DEF IsInjective
  <2> QED  BY <1>2, <2>1
<1> QED  BY <1>1, <1>3, <1>4, <1>5

\* Each way of writing a file leaves a file.
LEMMA WritingKeepsKeys ==
    ASSUME NEW file, Keyed(file), NEW key, NEW value
    PROVE  /\ Keyed(SetStr(file, key, value))
           /\ Keyed(RemoveAll(file, key))
           /\ Keyed(SetEmpty(file, key, value))
BY DEF Keyed, SetStr, RemoveAll, SetEmpty

LEMMA GoingKeepsFiles ==
    ASSUME FilesAreKeyed, NEW file, Keyed(file), NEW place \in Place, Goes(file, place)
    PROVE  FilesAreKeyed'
BY DEF FilesAreKeyed, Goes

-----------------------------------------------------------------------------
LEMMA RegisterInit == Init => RegisterInv
<1> SUFFICES ASSUME Init PROVE RegisterInv
  OBVIOUS
<1>1. files \in [Place -> File]
  BY StartsAreFiles DEF Init
<1>2. FilesAreKeyed
  BY <1>1 DEF FilesAreKeyed, File, Keyed
<1> QED  BY <1>2 DEF Init, RegisterInv

LEMMA RegisterNext == RegisterInv /\ [Next]_vars => RegisterInv'
<1> SUFFICES ASSUME RegisterInv, [Next]_vars PROVE RegisterInv'
  OBVIOUS
<1>a. FilesAreKeyed /\ "user" \in Place /\ "local" \in Place
      /\ Keyed(files["user"]) /\ Keyed(files["local"])
  BY DEF RegisterInv, FilesAreKeyed, Place
<1>b. ASSUME UNCHANGED files, op' # "register" PROVE RegisterInv'
  BY <1>a, <1>b DEF RegisterInv, FilesAreKeyed
<1>1. CASE Register
  <2>1. UNCHANGED files /\ todo' = Ours /\ missing' = MissingOf(RepoLevels)
    BY <1>1 DEF Register, Start
  <2>2. todo' \in Seq(Key) /\ IsInjective(todo')
    BY <2>1, OursAreAliases
  <2>3. \A a \in missing' : files["user"][a] = << >>
    BY <2>1, UserIsALevel DEF MissingOf, IsSet
  <2> QED  BY <1>a, <2>1, <2>2, <2>3 DEF RegisterInv, FilesAreKeyed, Waiting
<1>2. CASE Registered
  <2>1. /\ UNCHANGED <<files, missing>> /\ todo' = Tail(todo)
        /\ todo \in Seq(Key) /\ todo # << >> /\ IsInjective(todo) /\ Waiting
    BY <1>2 DEF Registered, RegisterInv
  <2>2. Waiting'
    BY <2>1, TailIsDistinct DEF Waiting
  <2> QED  BY <1>a, <2>1, <2>2, TailIsDistinct DEF RegisterInv, FilesAreKeyed
<1>3. CASE SetAlias
  <2> DEFINE alias == Head(todo)
             file == SetStr(files["user"], alias, Action[alias])
  <2>1. /\ Goes(file, "user")
        /\ todo \in Seq(Key) /\ todo # << >> /\ IsInjective(todo) /\ Waiting
    BY <1>3 DEF SetAlias, RegisterInv
  <2>2. /\ UNCHANGED missing /\ todo' = Tail(todo)
        /\ files' = [files EXCEPT !["user"] = file]
    BY <2>1 DEF Goes
  <2>3. FilesAreKeyed'
    BY <1>a, <2>1, WritingKeepsKeys, GoingKeepsFiles
  <2>4. \A k \in Key \ {alias} : files'["user"][k] = files["user"][k]
    BY <1>a, <2>2 DEF FilesAreKeyed, Keyed, SetStr
  <2>5. Waiting'
    <3> SUFFICES ASSUME NEW i \in DOMAIN Tail(todo), Tail(todo)[i] \in missing
                 PROVE  files'["user"][Tail(todo)[i]] = << >>
      BY <2>2 DEF Waiting
    <3>1. /\ Tail(todo)[i] = todo[i + 1] /\ i + 1 \in DOMAIN todo
          /\ Tail(todo)[i] # alias
      BY <2>1, TailIsDistinct
    <3>2. files["user"][todo[i + 1]] = << >>
      BY <2>1, <3>1 DEF Waiting
    <3>3. todo[i + 1] \in Key
      BY <2>1, <3>1
    <3> QED  BY <2>4, <3>1, <3>2, <3>3
  <2> QED  BY <2>1, <2>2, <2>3, <2>5, TailIsDistinct DEF RegisterInv
<1>4. CASE EndRegister
  BY <1>4, <1>b DEF EndRegister, End
<1>5. CASE Unregister
  BY <1>5, <1>b DEF Unregister, Start
<1>6. CASE KeepEntry
  BY <1>6, <1>b DEF KeepEntry
<1>7. CASE RemoveEntry
  <2>1. Goes(RemoveAll(files["user"], Head(todo).key), "user") /\ op' # "register"
    BY <1>7 DEF RemoveEntry, Goes
  <2> QED  BY <1>a, <2>1, WritingKeepsKeys, GoingKeepsFiles DEF RegisterInv
<1>8. CASE CannotRemove \/ EndUnregister
  BY <1>8, <1>b DEF CannotRemove, EndUnregister, End
<1>9. CASE \E pattern \in Patterns : Protect(pattern)
  BY <1>9, <1>b DEF Protect, Start
<1>10. CASE ClearPatterns
  <2>1. Goes(RemoveAll(files["local"], "protected"), "local") /\ op' # "register"
    BY <1>10 DEF ClearPatterns, Goes
  <2> QED  BY <1>a, <2>1, WritingKeepsKeys, GoingKeepsFiles DEF RegisterInv
<1>11. CASE NotCleared
  BY <1>11, <1>b DEF NotCleared, Fault
<1>12. CASE SetPattern
  <2>1. Goes(SetEmpty(files["local"], "protected", Head(todo)), "local")
        /\ op' # "register"
    BY <1>12 DEF SetPattern, Goes
  <2> QED  BY <1>a, <2>1, WritingKeepsKeys, GoingKeepsFiles DEF RegisterInv
<1>13. CASE EndProtect
  BY <1>13, <1>b DEF EndProtect, End
<1>14. CASE WriteFails \/ Killed
  BY <1>14, <1>b DEF WriteFails, Killed, Fault, End
<1>15. CASE UNCHANGED vars
  BY <1>15, <1>a DEF vars, command, RegisterInv, FilesAreKeyed, Waiting
<1> QED
  BY <1>1, <1>2, <1>3, <1>4, <1>5, <1>6, <1>7, <1>8, <1>9, <1>10, <1>11, <1>12,
     <1>13, <1>14, <1>15 DEF Next

\* Whatever the aliases and the user's files are and whatever fails, register
\* changes no key that has a value: it only writes an alias where it found none in
\* any file of this repository, and meanwhile sets no other one.
THEOREM RegisterOverwritesNothing == Spec => RegisterKeepsWhatThereIs
<1> DEFINE Kept == op = "register" =>
                      \A p \in Place, k \in Key :
                          files[p][k] # << >> => files'[p][k] = files[p][k]
<1>1. RegisterInv /\ [Next]_vars => [Kept]_vars
  <2> SUFFICES ASSUME RegisterInv, Next, op = "register" PROVE Kept
    OBVIOUS
  <2>1. CASE SetAlias
    <3> DEFINE alias == Head(todo)
    <3>1. /\ files' = [files EXCEPT !["user"] =
                          [files["user"] EXCEPT ![alias] = <<Action[alias]>>]]
          /\ todo \in Seq(Key) /\ todo # << >> /\ alias \in missing /\ Waiting
          /\ FilesAreKeyed
      BY <2>1 DEF SetAlias, Goes, SetStr, RegisterInv
    <3>2. files["user"][alias] = << >>
      BY <3>1 DEF Waiting
    <3>3. \A p \in Place, k \in Key :
              p # "user" \/ k # alias => files'[p][k] = files[p][k]
      BY <3>1 DEF FilesAreKeyed, Keyed
    <3> QED  BY <3>2, <3>3
  <2>2. CASE UNCHANGED files
    BY <2>2
  <2>3. SetAlias \/ UNCHANGED files
    BY DEF Next, Register, Registered, EndRegister, Unregister, KeepEntry, RemoveEntry,
           CannotRemove, EndUnregister, Protect, ClearPatterns, NotCleared, SetPattern,
           EndProtect, WriteFails, Killed, Fault, Start
  <2> QED  BY <2>1, <2>2, <2>3
<1>2. QED
  BY <1>1, RegisterInit, RegisterNext, PTL DEF Spec, RegisterKeepsWhatThereIs

-----------------------------------------------------------------------------
(***************************************************************************)
(* The lines of the aliases are values, and the commands that are about    *)
(* aliases have aliases, or lines of aliases, to do.  (The lines of the    *)
(* settings do not matter here.)                                           *)
(***************************************************************************)
AliasLines == \A p \in Place, a \in ToSet(Aliases) : files[p][a] \in Seq(Value)

AliasEntry == [key : ToSet(Aliases), value : Value]

TodoOfAliases ==
    /\ op = "register" => todo \in Seq(ToSet(Ours))
    /\ op = "unregister" => todo \in Seq(AliasEntry)

LinesInv == RegisterInv /\ AliasLines /\ TodoOfAliases

LEMMA LevelsOfARepository == RepoLevels = <<"system", "user", "local">>
<1> DEFINE levels == <<"system", "user", "local">>
<1>1. /\ DOMAIN RepoLevels = 1..3
      /\ RepoLevels[1] = "system" /\ RepoLevels[2] = "user"
      /\ RepoLevels[3] = "local"
    BY DEF RepoLevels, UserLevels
<1>2. /\ DOMAIN levels = 1..3
      /\ levels[1] = "system" /\ levels[2] = "user" /\ levels[3] = "local"
    OBVIOUS
<1>3. /\ RepoLevels \in Seq({"system", "user", "local"})
      /\ levels \in Seq({"system", "user", "local"})
    BY DEF RepoLevels, UserLevels
<1> HIDE DEF levels
<1>4. \A i \in 1..3 : RepoLevels[i] = levels[i]
    BY <1>1, <1>2
<1>5. RepoLevels = levels
    BY <1>1, <1>2, <1>3, <1>4, SeqEqual, LenProperties
<1> QED  BY <1>5 DEF levels

LEMMA AliasesAreKeys ==
    /\ Aliases \in Seq(Key) /\ ToSet(Ours) \subseteq ToSet(Aliases)
    /\ "protected" \notin ToSet(Aliases)
<1>1. /\ Ours \in Seq(Key) /\ Other \in Seq(Key)
      /\ ToSet(Aliases) \subseteq Key \ SettingKeys
    BY OursAreAliases
<1>2. Aliases \in Seq(Key) /\ ToSet(Ours) \subseteq ToSet(Aliases)
    BY <1>1, ToSetOfConcat DEF Aliases
<1> QED  BY <1>1, <1>2 DEF SettingKeys

\* What is left of a list of things is a list of such things, and holds all it
\* held but what came first.
LEMMA TailHolds ==
    ASSUME NEW S, NEW s \in Seq(S), s # << >>
    PROVE  /\ Head(s) \in S /\ Tail(s) \in Seq(S)
           /\ \A x : x \in ToSet(s) <=> x = Head(s) \/ x \in ToSet(Tail(s))
<1>1. /\ Head(s) = s[1] /\ Tail(s) \in Seq(S) /\ Len(Tail(s)) = Len(s) - 1
      /\ \A i \in 1..Len(Tail(s)) : Tail(s)[i] = s[i + 1]
    BY HeadTailProperties
<1>2. /\ Len(s) \in Nat \ {0} /\ DOMAIN s = 1..Len(s)
      /\ DOMAIN Tail(s) = 1..(Len(s) - 1)
    BY <1>1
<1>3. \A i \in DOMAIN s : s[i] = Head(s) \/ s[i] \in ToSet(Tail(s))
    <2> SUFFICES ASSUME NEW i \in DOMAIN s, i # 1
                 PROVE  s[i] \in ToSet(Tail(s))
        BY <1>1
    <2>1. i - 1 \in DOMAIN Tail(s) /\ Tail(s)[i - 1] = s[i]
        BY <1>1, <1>2
    <2> QED  BY <2>1 DEF ToSet
<1>4. \A i \in DOMAIN Tail(s) : i + 1 \in DOMAIN s /\ Tail(s)[i] = s[i + 1]
    BY <1>1, <1>2
<1>5. 1 \in DOMAIN s
    BY <1>2
<1> QED  BY <1>1, <1>3, <1>4, <1>5 DEF ToSet

LEMMA SeqOfItsOwn ==
    ASSUME NEW S, NEW s \in Seq(S)
    PROVE  s \in Seq(ToSet(s))
<1>1. s \in [1..Len(s) -> S] /\ Len(s) \in Nat /\ DOMAIN s = 1..Len(s)
    BY LenProperties
<1>2. s \in [1..Len(s) -> ToSet(s)]
    BY <1>1 DEF ToSet
<1> QED  BY <1>1, <1>2, SeqDef

LEMMA LinesInit == Init => LinesInv
<1> SUFFICES ASSUME Init PROVE LinesInv
    OBVIOUS
<1>1. files \in [Place -> File]
    BY StartsAreFiles DEF Init
<1>2. \A a \in ToSet(Aliases) : a \in Key
    BY OursAreAliases
<1>3. AliasLines
    BY <1>1, <1>2 DEF AliasLines, File
<1> QED  BY <1>3, RegisterInit DEF Init, LinesInv, TodoOfAliases

\* The steps that write a file write one key of it.
LEMMA SetAliasWrites ==
    ASSUME LinesInv, SetAlias
    PROVE  LET alias == Head(todo)
           IN  /\ alias \in ToSet(Ours) /\ alias \in missing
               /\ todo' = Tail(todo) /\ UNCHANGED <<op, missing, ok>>
               /\ files'["user"][alias] = <<Action[alias]>>
               /\ \A p \in Place, k \in Key :
                     p # "user" \/ k # alias => files'[p][k] = files[p][k]
<1> DEFINE alias == Head(todo)
<1>1. alias \in ToSet(Ours) /\ alias \in Key
    BY TailHolds, AliasesAreKeys, OursAreAliases
       DEF SetAlias, LinesInv, TodoOfAliases
<1>2. /\ files' = [files EXCEPT !["user"] =
                      [files["user"] EXCEPT ![alias] = <<Action[alias]>>]]
      /\ todo' = Tail(todo) /\ UNCHANGED <<op, missing, ok>>
      /\ alias \in missing
    BY DEF SetAlias, Goes, SetStr
<1>3. FilesAreKeyed /\ "user" \in Place
    BY DEF LinesInv, RegisterInv, Place
<1> HIDE DEF alias
<1>4. /\ files'["user"][alias] = <<Action[alias]>>
      /\ \A p \in Place, k \in Key :
            p # "user" \/ k # alias => files'[p][k] = files[p][k]
    BY <1>1, <1>2, <1>3 DEF FilesAreKeyed, Keyed
<1> QED  BY <1>1, <1>2, <1>4 DEF alias

LEMMA RemoveEntryWrites ==
    ASSUME LinesInv, RemoveEntry
    PROVE  LET alias == Head(todo).key
           IN  /\ alias \in ToSet(Aliases)
               /\ todo' = Tail(todo) /\ UNCHANGED op
               /\ files'["user"][alias] = << >>
               /\ \A p \in Place, k \in Key :
                     p # "user" \/ k # alias => files'[p][k] = files[p][k]
<1> DEFINE alias == Head(todo).key
<1>1. Head(todo) \in AliasEntry
    BY TailHolds DEF RemoveEntry, LinesInv, TodoOfAliases
<1>2. alias \in ToSet(Aliases) /\ alias \in Key
    BY <1>1, OursAreAliases DEF AliasEntry
<1>3. /\ files' = [files EXCEPT !["user"] =
                      [files["user"] EXCEPT ![alias] = << >>]]
      /\ todo' = Tail(todo) /\ UNCHANGED op
    BY DEF RemoveEntry, Goes, RemoveAll
<1>4. FilesAreKeyed /\ "user" \in Place
    BY DEF LinesInv, RegisterInv, Place
<1> HIDE DEF alias
<1>5. /\ files'["user"][alias] = << >>
      /\ \A p \in Place, k \in Key :
            p # "user" \/ k # alias => files'[p][k] = files[p][k]
    BY <1>2, <1>3, <1>4 DEF FilesAreKeyed, Keyed
<1> QED  BY <1>2, <1>3, <1>5 DEF alias

LEMMA PatternsAreNoAliases ==
    ASSUME LinesInv, ClearPatterns \/ SetPattern
    PROVE  /\ \A p \in Place, a \in ToSet(Aliases) : files'[p][a] = files[p][a]
           /\ op' = "protect" /\ UNCHANGED last
<1>1. PICK lines : files' = [files EXCEPT !["local"] =
                                [files["local"] EXCEPT !["protected"] = lines]]
    BY DEF ClearPatterns, SetPattern, Goes, RemoveAll, SetEmpty
<1>2. /\ FilesAreKeyed /\ "local" \in Place
      /\ "protected" \in Key /\ "protected" \notin ToSet(Aliases)
      /\ ToSet(Aliases) \subseteq Key
    BY AliasesAreKeys, OursAreAliases, Texts
       DEF LinesInv, RegisterInv, Place, SettingKeys
<1>3. \A p \in Place, k \in Key :
          p # "local" \/ k # "protected" => files'[p][k] = files[p][k]
    BY <1>1, <1>2 DEF FilesAreKeyed, Keyed
<1> QED  BY <1>2, <1>3 DEF ClearPatterns, SetPattern, Goes

\* The other steps leave the files alone.
Reads ==
    \/ Register \/ Registered \/ EndRegister
    \/ Unregister \/ KeepEntry \/ CannotRemove \/ EndUnregister
    \/ \E pattern \in Patterns : Protect(pattern)
    \/ NotCleared \/ EndProtect \/ WriteFails \/ Killed

LEMMA ReadingChangesNothing == ASSUME Reads PROVE UNCHANGED files
BY DEF Reads, Register, Registered, EndRegister, Unregister, KeepEntry,
   CannotRemove, EndUnregister, Protect, NotCleared, EndProtect, WriteFails,
   Killed, Fault, Start

\* What unregister will look at: every line of every alias of every level.
LEMMA EveryEntryIsListed ==
    ASSUME AliasLines
    PROVE  /\ AliasEntries(RepoLevels) \in Seq(AliasEntry)
           /\ \A a \in ToSet(Aliases) : \A v \in ToSet(files["user"][a]) :
                [key |-> a, value |-> v] \in ToSet(AliasEntries(RepoLevels))
<1> DEFINE Lines(p, a) ==
               LET values == files[p][a]
               IN  [i \in DOMAIN values |-> [key |-> a, value |-> values[i]]]
           ByAlias(p) == [a \in DOMAIN Aliases |-> Lines(p, Aliases[a])]
           ByLevel == [l \in DOMAIN RepoLevels |-> FlattenSeq(ByAlias(RepoLevels[l]))]
<1>1. /\ DOMAIN RepoLevels = 1..3
      /\ \A l \in DOMAIN RepoLevels : RepoLevels[l] \in Place
      /\ RepoLevels[2] = "user" /\ 2 \in DOMAIN RepoLevels
    BY LevelsOfARepository DEF Place
<1>2. ASSUME NEW p \in Place, NEW a \in ToSet(Aliases)
      PROVE  /\ Lines(p, a) \in Seq(AliasEntry)
             /\ \A v \in ToSet(files[p][a]) :
                    [key |-> a, value |-> v] \in ToSet(Lines(p, a))
    <2>1. files[p][a] \in Seq(Value)
        BY <1>2 DEF AliasLines
    <2>2. /\ DOMAIN files[p][a] = 1..Len(files[p][a])
          /\ Len(files[p][a]) \in Nat
          /\ \A i \in DOMAIN files[p][a] : files[p][a][i] \in Value
        BY <2>1
    <2>3. Lines(p, a) \in Seq(AliasEntry)
        BY <1>2, <2>2 DEF AliasEntry
    <2>4. ASSUME NEW v \in ToSet(files[p][a])
          PROVE  [key |-> a, value |-> v] \in ToSet(Lines(p, a))
        <3>1. PICK i \in DOMAIN files[p][a] : files[p][a][i] = v
            BY <2>4 DEF ToSet
        <3>2. i \in DOMAIN Lines(p, a) /\ Lines(p, a)[i] = [key |-> a, value |-> v]
            BY <3>1
        <3> HIDE DEF Lines
        <3> QED  BY <3>2 DEF ToSet
    <2> QED  BY <2>3, <2>4
<1> HIDE DEF Lines
<1>3. DOMAIN Aliases = 1..Len(Aliases) /\ Len(Aliases) \in Nat
      /\ \A a \in DOMAIN Aliases : Aliases[a] \in ToSet(Aliases)
    BY AliasesAreKeys DEF ToSet
<1>4. ASSUME NEW p \in Place
      PROVE  /\ FlattenSeq(ByAlias(p)) \in Seq(AliasEntry)
             /\ \A a \in ToSet(Aliases) : \A v \in ToSet(files[p][a]) :
                   [key |-> a, value |-> v] \in ToSet(FlattenSeq(ByAlias(p)))
    <2>1. ByAlias(p) \in Seq(Seq(AliasEntry))
        BY <1>2, <1>3
    <2>2. ASSUME NEW a \in ToSet(Aliases), NEW v \in ToSet(files[p][a])
          PROVE  \E i \in DOMAIN ByAlias(p) :
                    [key |-> a, value |-> v] \in ToSet(ByAlias(p)[i])
        <3>1. PICK i \in DOMAIN Aliases : Aliases[i] = a
            BY <2>2 DEF ToSet
        <3>2. i \in DOMAIN ByAlias(p) /\ ByAlias(p)[i] = Lines(p, a)
            BY <3>1
        <3> QED  BY <1>2, <3>2
    <2> HIDE DEF ByAlias
    <2> QED  BY <2>1, <2>2, FlattenHolds
<1> HIDE DEF ByAlias
<1>5. ByLevel \in Seq(Seq(AliasEntry))
    BY <1>1, <1>4
<1>6. 2 \in DOMAIN ByLevel /\ ByLevel[2] = FlattenSeq(ByAlias("user"))
    BY <1>1
<1>7. AliasEntries(RepoLevels) = FlattenSeq(ByLevel)
    BY DEF AliasEntries, ByAlias, Lines
<1> HIDE DEF ByLevel
<1>8. /\ FlattenSeq(ByLevel) \in Seq(AliasEntry)
      /\ \A x : x \in ToSet(ByLevel[2]) => x \in ToSet(FlattenSeq(ByLevel))
    BY <1>5, <1>6, FlattenHolds
<1> QED  BY <1>1, <1>4, <1>6, <1>7, <1>8

LEMMA LinesNext == LinesInv /\ [Next]_vars => LinesInv'
<1> SUFFICES ASSUME LinesInv, [Next]_vars PROVE LinesInv'
    OBVIOUS
<1>1. RegisterInv'
    BY RegisterNext DEF LinesInv
<1>2. AliasLines'
    <2>1. CASE SetAlias
        <3>1. Action[Head(todo)] \in Value
            BY <2>1, SetAliasWrites, OursAreAliases
        <3>2. \A a \in ToSet(Aliases) : a \in Key
            BY OursAreAliases
        <3>3. <<Action[Head(todo)]>> \in Seq(Value)
            BY <3>1
        <3> QED  BY <2>1, <3>2, <3>3, SetAliasWrites DEF LinesInv, AliasLines
    <2>2. CASE RemoveEntry
        <3>1. \A a \in ToSet(Aliases) : a \in Key
            BY OursAreAliases
        <3>2. << >> \in Seq(Value)
            OBVIOUS
        <3> QED  BY <2>2, <3>1, <3>2, RemoveEntryWrites DEF LinesInv, AliasLines
    <2>3. CASE ClearPatterns \/ SetPattern
        BY <2>3, PatternsAreNoAliases DEF LinesInv, AliasLines
    <2>4. CASE Reads \/ UNCHANGED vars
        <3>1. UNCHANGED files
            BY <2>4, ReadingChangesNothing DEF vars
        <3> QED  BY <3>1 DEF LinesInv, AliasLines
    <2> QED  BY <2>1, <2>2, <2>3, <2>4 DEF Next, Reads
<1>3. TodoOfAliases'
    <2>1. CASE Register
        <3>1. Ours \in Seq(ToSet(Ours))
            BY OursAreAliases, SeqOfItsOwn
        <3> QED  BY <2>1, <3>1 DEF Register, Start, TodoOfAliases
    <2>2. CASE Unregister
        BY <2>2, EveryEntryIsListed DEF Unregister, Start, TodoOfAliases, LinesInv
    <2>3. CASE todo' = Tail(todo) /\ todo # << >> /\ UNCHANGED op
        BY <2>3, TailHolds DEF LinesInv, TodoOfAliases
    <2>4. CASE op' \in {"none", "protect"}
        BY <2>4 DEF TodoOfAliases
    <2>5. CASE UNCHANGED vars
        BY <2>5 DEF LinesInv, TodoOfAliases, vars, command
    <2> QED
        BY <2>1, <2>2, <2>3, <2>4, <2>5 DEF Next, Registered, SetAlias,
           EndRegister, KeepEntry, RemoveEntry, CannotRemove, EndUnregister,
           Protect, ClearPatterns, NotCleared, SetPattern, EndProtect,
           WriteFails, Killed, Goes, End, Start
<1> QED  BY <1>1, <1>2, <1>3 DEF LinesInv

-----------------------------------------------------------------------------
(***************************************************************************)
(* What a register that ends well has made sure of, alias by alias.        *)
(***************************************************************************)
InEffect(a) == IsSet(files, RepoLevels, a) /\ Base[Effective(a)] = a

NotYetSet(a) == \A l \in DOMAIN RepoLevels : files[RepoLevels[l]][a] = << >>

\* The command has looked at, or set, every alias that it has not left to do.
ComesIntoEffect ==
    op = "register" =>
        /\ \A a \in ToSet(todo) : a \in missing => NotYetSet(a)
        /\ \A a \in ToSet(todo) : a \notin missing => ~NotYetSet(a)
        /\ ok => \A a \in ToSet(Ours) : a \in ToSet(todo) \/ InEffect(a)

EffectInv == LinesInv /\ ComesIntoEffect /\ RegisteredMeansInEffect

\* What an alias does depends on the lines it has, and on nothing else.
LEMMA SameLinesSameEffect ==
    ASSUME NEW a, \A p \in Place : files'[p][a] = files[p][a]
    PROVE  (InEffect(a) <=> InEffect(a)') /\ (NotYetSet(a) <=> NotYetSet(a)')
<1>1. \A l \in DOMAIN RepoLevels : RepoLevels[l] \in Place
    BY LevelsOfARepository DEF Place
<1>2. \A l \in DOMAIN RepoLevels :
          files'[RepoLevels[l]][a] = files[RepoLevels[l]][a]
    BY <1>1
<1>3. [l \in DOMAIN RepoLevels |-> files'[RepoLevels[l]][a]]
        = [l \in DOMAIN RepoLevels |-> files[RepoLevels[l]][a]]
    BY <1>2
<1>4. Effective(a)' = Effective(a)
    BY <1>3 DEF Effective, Get, Multivar
<1> QED  BY <1>2, <1>4 DEF InEffect, NotYetSet, IsSet

\* An alias that no file had is in effect once the user's file has it.
LEMMA SettingTakesEffect ==
    ASSUME LinesInv, SetAlias, NEW alias, alias = Head(todo), NotYetSet(alias)
    PROVE  InEffect(alias)'
<1> DEFINE line == <<Action[alias]>>
<1>1. /\ alias \in ToSet(Ours) /\ alias \in Key
      /\ files'["user"][alias] = line
      /\ \A p \in Place : p # "user" => files'[p][alias] = files[p][alias]
    BY SetAliasWrites, AliasesAreKeys, OursAreAliases
<1>2. /\ files["system"][alias] = << >> /\ files["local"][alias] = << >>
      /\ DOMAIN RepoLevels = 1..3
    BY LevelsOfARepository DEF NotYetSet
<1>3. /\ files'["system"][alias] = << >> /\ files'["local"][alias] = << >>
    BY <1>1, <1>2 DEF Place
<1> DEFINE parts == [l \in DOMAIN RepoLevels |-> files'[RepoLevels[l]][alias]]
<1>4. parts = << << >>, line, << >> >>
    BY <1>1, <1>3, LevelsOfARepository
<1>5. FlattenSeq(<< << >>, line, << >> >>) = (<< >> \o line) \o << >>
    BY FlattenOfThree
<1>6. (<< >> \o line) \o << >> = line
    <2>1. line \in Seq({Action[alias]})
        OBVIOUS
    <2> QED  BY <2>1, ConcatEmptySeq
<1>7. Effective(alias)' = Action[alias]
    <2>1. Effective(alias)' = Last(FlattenSeq(parts))
        BY DEF Effective, Get, Multivar
    <2> HIDE DEF parts
    <2>2. FlattenSeq(parts) = line
        BY <1>4, <1>5, <1>6
    <2>3. Last(line) = Action[alias]
        BY DEF Last
    <2> QED  BY <2>1, <2>2, <2>3
<1>8. Base[Action[alias]] = alias
    <2> QED  BY <1>1, OursAreAliases
<1>9. IsSet(files, RepoLevels, alias)'
    <2>1. files'["user"][alias] # << >>
        BY <1>1
    <2> QED  BY <2>1, UserIsALevel DEF IsSet
<1> QED  BY <1>7, <1>8, <1>9 DEF InEffect

LEMMA RegisterTakesEffect ==
    ASSUME EffectInv, [Next]_vars
    PROVE  ComesIntoEffect'
<1>1. LinesInv /\ ComesIntoEffect
    BY DEF EffectInv
<1>2. CASE Register
    <2>1. /\ todo' = Ours /\ missing' = MissingOf(RepoLevels) /\ UNCHANGED files
        BY <1>2 DEF Register, Start
    <2>2. \A a \in ToSet(Ours) : a \in missing' <=> NotYetSet(a)'
        BY <2>1 DEF MissingOf, IsSet, NotYetSet
    <2> QED  BY <2>1, <2>2 DEF ComesIntoEffect
<1>3. CASE Registered
    <2> DEFINE alias == Head(todo)
    <2>1. /\ todo \in Seq(ToSet(Ours)) /\ todo # << >> /\ op = "register"
          /\ UNCHANGED <<op, files, missing>> /\ todo' = Tail(todo)
          /\ ok' = (ok /\ Accepts(alias, Effective(alias))) /\ alias \notin missing
        BY <1>1, <1>3 DEF Registered, LinesInv, TodoOfAliases
    <2>2. /\ alias \in ToSet(todo)
          /\ \A x : x \in ToSet(todo) <=> x = alias \/ x \in ToSet(todo')
        BY <2>1, TailHolds
    <2>3. ~NotYetSet(alias)
        BY <1>1, <2>1, <2>2 DEF ComesIntoEffect
    <2>4. ok' => InEffect(alias)
        BY <2>1, <2>3 DEF Accepts, InEffect, NotYetSet, IsSet
    <2>5. \A a : (InEffect(a) <=> InEffect(a)') /\ (NotYetSet(a) <=> NotYetSet(a)')
        BY <2>1, SameLinesSameEffect
    <2> HIDE DEF alias
    <2>6. ok' => ok
        BY <2>1
    <2> QED  BY <1>1, <2>1, <2>2, <2>4, <2>5, <2>6 DEF ComesIntoEffect
<1>4. CASE SetAlias
    <2> DEFINE alias == Head(todo)
    <2>1. /\ todo \in Seq(ToSet(Ours)) /\ todo # << >> /\ op = "register"
          /\ IsInjective(todo) /\ todo \in Seq(Key)
        BY <1>1, <1>4 DEF SetAlias, LinesInv, TodoOfAliases, RegisterInv
    <2>2. /\ alias \in ToSet(todo)
          /\ \A x : x \in ToSet(todo) <=> x = alias \/ x \in ToSet(Tail(todo))
        BY <2>1, TailHolds
    <2>3. alias \notin ToSet(Tail(todo))
        BY <2>1, TailIsDistinct DEF ToSet
    <2>4. /\ alias \in missing /\ todo' = Tail(todo)
          /\ UNCHANGED <<op, missing, ok>>
          /\ \A p \in Place, k \in Key : k # alias => files'[p][k] = files[p][k]
        BY <1>1, <1>4, SetAliasWrites
    <2>5. NotYetSet(alias)
        BY <1>1, <2>1, <2>2, <2>4 DEF ComesIntoEffect
    <2>6. \A a \in Key \ {alias} : /\ InEffect(a) <=> InEffect(a)'
                                   /\ NotYetSet(a) <=> NotYetSet(a)'
        BY <2>4, SameLinesSameEffect
    <2>7. ToSet(Ours) \subseteq Key /\ ToSet(todo) \subseteq Key
        BY <2>1, OursAreAliases DEF ToSet
    <2>8. ASSUME NEW a, a = alias PROVE InEffect(a)'
        BY <1>1, <1>4, <2>5, <2>8, SettingTakesEffect
    <2> HIDE DEF alias
    <2>9. \A a \in ToSet(Ours) : InEffect(a) => InEffect(a)'
        BY <2>6, <2>7, <2>8
    <2>10. \A a \in ToSet(Tail(todo)) : NotYetSet(a) <=> NotYetSet(a)'
        BY <2>2, <2>3, <2>6, <2>7
    <2>11. ok' => \A a \in ToSet(Ours) : a \in ToSet(todo)' \/ InEffect(a)'
        BY <1>1, <2>1, <2>2, <2>4, <2>8, <2>9 DEF ComesIntoEffect
    <2> QED  BY <1>1, <2>1, <2>2, <2>4, <2>10, <2>11 DEF ComesIntoEffect
<1>5. CASE op' # "register"
    BY <1>5 DEF ComesIntoEffect
<1>6. CASE UNCHANGED vars
    <2>1. \A a : (InEffect(a) <=> InEffect(a)') /\ (NotYetSet(a) <=> NotYetSet(a)')
        BY <1>6, SameLinesSameEffect DEF vars
    <2> QED  BY <1>1, <1>6, <2>1 DEF vars, command, ComesIntoEffect
<1> QED
    BY <1>2, <1>3, <1>4, <1>5, <1>6 DEF Next, EndRegister, Unregister,
       KeepEntry, RemoveEntry, CannotRemove, EndUnregister, Protect,
       ClearPatterns, NotCleared, SetPattern, EndProtect, WriteFails, Killed,
       Goes, End, Start

LEMMA RegisteredStep ==
    ASSUME EffectInv, [Next]_vars
    PROVE  RegisteredMeansInEffect'
<1> SUFFICES ASSUME Ended("register", "ok")', NEW a \in ToSet(Ours)
             PROVE  InEffect(a)'
    BY DEF RegisteredMeansInEffect, InEffect
<1>1. CASE EndRegister
    <2>1. /\ op = "register" /\ todo = << >> /\ ok /\ UNCHANGED files
        BY <1>1 DEF EndRegister, End, Ended
    <2>2. InEffect(a)
        BY <2>1 DEF EffectInv, ComesIntoEffect, ToSet
    <2> QED  BY <2>1, <2>2, SameLinesSameEffect
<1>2. CASE UNCHANGED vars
    <2>1. InEffect(a)
        BY <1>2 DEF EffectInv, RegisteredMeansInEffect, InEffect, Ended, vars,
           command
    <2> QED  BY <1>2, <2>1, SameLinesSameEffect DEF vars
<1>3. EndRegister \/ UNCHANGED vars
    BY DEF EffectInv, Ended, Next, Register, Registered, SetAlias, Unregister,
       KeepEntry, RemoveEntry, CannotRemove, EndUnregister, Protect,
       ClearPatterns, NotCleared, SetPattern, EndProtect, WriteFails, Killed,
       Goes, End, Start
<1> QED  BY <1>1, <1>2, <1>3

\* A register that ends well has every alias of git-stack in effect, the ones it
\* set and the ones it found, at whatever level, whatever a command before it left.
THEOREM RegisterTakesHold == Spec => []RegisteredMeansInEffect
<1>1. Init => EffectInv
    BY LinesInit DEF Init, EffectInv, ComesIntoEffect, RegisteredMeansInEffect,
       Ended
<1>2. EffectInv /\ [Next]_vars => EffectInv'
    BY LinesNext, RegisterTakesEffect, RegisteredStep DEF EffectInv
<1>3. EffectInv => RegisteredMeansInEffect
    BY DEF EffectInv
<1> QED  BY <1>1, <1>2, <1>3, PTL DEF Spec

-----------------------------------------------------------------------------
(***************************************************************************)
(* What an unregister that ends well has removed.                          *)
(***************************************************************************)
\* What is git-stack's in the user's file is in the list of what is left to do.
StillListed ==
    op = "unregister" =>
        \A a \in ToSet(Aliases) : \A v \in ToSet(files["user"][a]) :
            Calls(a, v) => [key |-> a, value |-> v] \in ToSet(todo)

GoneInv == LinesInv /\ StillListed /\ UnregisteredMeansGone

LEMMA StillListedStep ==
    ASSUME GoneInv, [Next]_vars
    PROVE  StillListed'
<1>1. LinesInv /\ StillListed
    BY DEF GoneInv
<1>2. CASE Unregister
    BY <1>1, <1>2, EveryEntryIsListed DEF Unregister, Start, StillListed, LinesInv
<1>3. CASE KeepEntry
    <2>1. /\ todo \in Seq(AliasEntry) /\ todo # << >> /\ ~IsOurs(Head(todo))
          /\ UNCHANGED <<op, files>> /\ todo' = Tail(todo)
        BY <1>1, <1>3 DEF KeepEntry, LinesInv, TodoOfAliases
    <2>2. \A a, v : Calls(a, v) => Head(todo) # [key |-> a, value |-> v]
        BY <2>1, BareKeysNameNoCommand DEF Calls, IsOurs
    <2> QED  BY <1>1, <2>1, <2>2, TailHolds DEF StillListed
<1>4. CASE RemoveEntry
    <2> DEFINE alias == Head(todo).key
    <2>1. /\ todo \in Seq(AliasEntry) /\ todo # << >>
        BY <1>1, <1>4 DEF RemoveEntry, LinesInv, TodoOfAliases
    <2>2. /\ todo' = Tail(todo) /\ UNCHANGED op
          /\ files'["user"][alias] = << >>
          /\ \A a \in Key : a # alias => files'["user"][a] = files["user"][a]
        BY <1>1, <1>4, RemoveEntryWrites DEF Place
    <2>3. \A a, v : a # alias => Head(todo) # [key |-> a, value |-> v]
        OBVIOUS
    <2> HIDE DEF alias
    <2>4. ToSet(files'["user"][alias]) = {}
        BY <2>2 DEF ToSet
    <2>5. ToSet(Aliases) \subseteq Key
        BY OursAreAliases
    <2> QED  BY <1>1, <2>1, <2>2, <2>3, <2>4, <2>5, TailHolds DEF StillListed
<1>5. CASE op' # "unregister"
    BY <1>5 DEF StillListed
<1>6. CASE UNCHANGED vars
    BY <1>1, <1>6 DEF vars, command, StillListed
<1> QED
    BY <1>2, <1>3, <1>4, <1>5, <1>6 DEF Next, Register, Registered, SetAlias,
       EndRegister, CannotRemove, EndUnregister, Protect, ClearPatterns,
       NotCleared, SetPattern, EndProtect, WriteFails, Killed, Goes, End, Start

LEMMA UnregisteredStep ==
    ASSUME GoneInv, [Next]_vars
    PROVE  UnregisteredMeansGone'
<1> SUFFICES ASSUME Ended("unregister", "ok")'
             PROVE  \A a \in ToSet(Aliases) :
                        \A v \in ToSet(files'["user"][a]) : ~Calls(a, v)
    BY DEF UnregisteredMeansGone
<1>1. CASE EndUnregister
    <2>1. op = "unregister" /\ todo = << >> /\ UNCHANGED files
        BY <1>1 DEF EndUnregister
    <2>2. ToSet(todo) = {}
        BY <2>1 DEF ToSet
    <2> QED  BY <2>1, <2>2 DEF GoneInv, StillListed
<1>2. CASE UNCHANGED vars
    BY <1>2 DEF GoneInv, UnregisteredMeansGone, Ended, vars, command
<1>3. EndUnregister \/ UNCHANGED vars
    BY DEF Ended, Next, Register, Registered, SetAlias, EndRegister, Unregister,
       KeepEntry, RemoveEntry, CannotRemove, Protect,
       ClearPatterns, NotCleared, SetPattern, EndProtect, WriteFails, Killed,
       Goes, End, Start
<1> QED  BY <1>1, <1>2, <1>3

\* An unregister that ends well has left no line in the user's file that calls
\* git-stack, whatever lines there were, at whatever levels.
THEOREM UnregisterLeavesNothing == Spec => []UnregisteredMeansGone
<1>1. Init => GoneInv
    BY LinesInit DEF Init, GoneInv, StillListed, UnregisteredMeansGone, Ended
<1>2. GoneInv /\ [Next]_vars => GoneInv'
    BY LinesNext, StillListedStep, UnregisteredStep DEF GoneInv
<1>3. GoneInv => UnregisteredMeansGone
    BY DEF GoneInv
<1> QED  BY <1>1, <1>2, <1>3, PTL DEF Spec

-----------------------------------------------------------------------------
(***************************************************************************)
(* What git-stack makes of its configuration, in every state of every file. *)
(***************************************************************************)
\* The first of six places that says something of f is the last one that was laid
\* over the others.
LEMMA FirstOfSix ==
    ASSUME NEW f, NEW p, NEW e, NEW r, NEW w, NEW u, NEW d, d[f] # None
    PROVE  FirstSaid(<<p, e, r, w, u, d>>, f)
               = Or(p[f], Or(e[f], Or(r[f], Or(w[f], Or(u[f], d[f])))))
<1> DEFINE places == <<p, e, r, w, u, d>>
           says == {i \in DOMAIN places : places[i][f] # None}
<1>1. /\ DOMAIN places = 1..6
      /\ places[1] = p /\ places[2] = e /\ places[3] = r /\ places[4] = w
      /\ places[5] = u /\ places[6] = d
    OBVIOUS
<1>2. says \subseteq 1..6 /\ 6 \in says
    BY <1>1
<1> DEFINE m == Min(says)
<1>3. m \in says /\ \A i \in says : m <= i
    BY <1>2, MinIsLeast
<1>4. FirstSaid(<<p, e, r, w, u, d>>, f) = places[m][f]
    BY DEF FirstSaid
<1>5. m \in 1..6 /\ places[m][f] # None
    BY <1>2, <1>3
<1>6. \A i \in 1..6 : i < m => places[i][f] = None
    BY <1>1, <1>2, <1>3
<1> HIDE DEF places, says, m
<1>7. CASE m = 1
    BY <1>1, <1>4, <1>5, <1>7 DEF Or
<1>8. CASE m = 2
    BY <1>1, <1>4, <1>5, <1>6, <1>8 DEF Or
<1>9. CASE m = 3
    BY <1>1, <1>4, <1>5, <1>6, <1>9 DEF Or
<1>10. CASE m = 4
    BY <1>1, <1>4, <1>5, <1>6, <1>10 DEF Or
<1>11. CASE m = 5
    BY <1>1, <1>4, <1>5, <1>6, <1>11 DEF Or
<1>12. CASE m = 6
    BY <1>1, <1>4, <1>5, <1>6, <1>12 DEF Or
<1> QED  BY <1>5, <1>7, <1>8, <1>9, <1>10, <1>11, <1>12 DEF places

\* What is laid over a configuration wins where it says something.
LEMMA UpdateWins ==
    ASSUME NEW config, NEW other, NEW f \in DOMAIN config, f # "protected"
    PROVE  /\ Update(config, other)[f] = Or(other[f], config[f])
           /\ DOMAIN Update(config, other) = DOMAIN config
BY DEF Update

\* Whatever the files are: a setting is what the first of the documented places says
\* that says anything of it, where `git -c' and GIT_CONFIG_COUNT do not set it
\* differently.  Nothing is left unset, the defaults say all of them.
THEOREM SettingsAreAsDocumented == Spec => []SettingsFollowTheDocs
<1>1. SettingsFollowTheDocs
    <2> DEFINE r == FromRepo(files)
               w == FromWorkdir(files)
               u == FromGitconfig(files, UserLevels)
               users == Update(Defaults, u)
               trees == Update(users, w)
               repos == Update(trees, r)
               both == FromEnv(files, None)
    <2> SUFFICES ASSUME NEW f \in Single, ~EnvDisagrees(f)
                 PROVE  FromAll(files, None)[f]
                            = FirstSaid(<<Params, Env, r, w, u, Defaults>>, f)
        BY DEF SettingsFollowTheDocs, DocumentedOrder
    <2>1. f # "protected" /\ f # "editor" /\ f \in DOMAIN Defaults /\ Defaults[f] # None
        BY DEF Single, Defaults, Some, None
    <2>2. FirstSaid(<<Params, Env, r, w, u, Defaults>>, f)
              = Or(Params[f], Or(Env[f], Or(r[f], Or(w[f], Or(u[f], Defaults[f])))))
        BY <2>1, FirstOfSix
    <2>3. f \in DOMAIN Params
        BY DEF Params, FromEnvIter, Single
    <2>4. both[f] = Or(Env[f], Params[f])
        <3>1. both = [Update(Params, Env) EXCEPT !.editor = None]
            BY DEF FromEnv, Params, Env
        <3> QED  BY <2>1, <2>3, <3>1, UpdateWins
    <2>5. FromAll(files, None) = Update(repos, both)
        BY DEF FromAll
    <2> HIDE DEF r, w, u, both
    <2>6. users[f] = Or(u[f], Defaults[f]) /\ f \in DOMAIN users
        BY <2>1, UpdateWins
    <2> HIDE DEF users
    <2>7. trees[f] = Or(w[f], users[f]) /\ f \in DOMAIN trees
        BY <2>1, <2>6, UpdateWins
    <2> HIDE DEF trees
    <2>8. repos[f] = Or(r[f], trees[f]) /\ f \in DOMAIN repos
        BY <2>1, <2>7, UpdateWins
    <2> HIDE DEF repos
    <2>9. Update(repos, both)[f] = Or(both[f], repos[f])
        BY <2>1, <2>8, UpdateWins
    <2>10. Params[f] = None \/ Env[f] = None \/ Params[f] = Env[f]
        BY DEF EnvDisagrees
    <2> QED  BY <2>2, <2>4, <2>5, <2>6, <2>7, <2>8, <2>9, <2>10 DEF Or
<1> QED  BY <1>1, PTL

-----------------------------------------------------------------------------
(***************************************************************************)
(* Which pattern decides: the last of those that match a branch.           *)
(***************************************************************************)
Hits(s, b) == {i \in DOMAIN s : s[i] # NoValue /\ b \in Matches[s[i]]}

\* The one that decides, or NoValue when none does.
Decider(s, b) == IF Hits(s, b) = {} THEN NoValue ELSE s[Max(Hits(s, b))]

\* What matches and has nothing after it that does, decides.
LEMMA LastHitDecides ==
    ASSUME NEW s \in Seq(Value), NEW b
    PROVE  /\ \A i \in Hits(s, b) : (\A j \in Hits(s, b) : j <= i)
                                        => Decider(s, b) = s[i] /\ s[i] # NoValue
           /\ Hits(s, b) # {} => \E i \in Hits(s, b) : \A j \in Hits(s, b) : j <= i
<1>1. Hits(s, b) \subseteq 1..Len(s) /\ Len(s) \in Nat
    BY DEF Hits
<1>2. Hits(s, b) # {} => \E i \in Hits(s, b) : \A j \in Hits(s, b) : j <= i
    <2> SUFFICES ASSUME Hits(s, b) # {}
                 PROVE  \E i \in Hits(s, b) : \A j \in Hits(s, b) : j <= i
        OBVIOUS
    <2> DEFINE Up == {n \in Nat : \A j \in Hits(s, b) : j <= n}
    <2>1. Up \in SUBSET Nat /\ Len(s) \in Up
        BY <1>1
    <2>2. PICK n \in Up : \A m \in Up : n <= m
        BY <2>1, LeastNumber
    <2>3. n \in Hits(s, b)
        <3> SUFFICES ASSUME n \notin Hits(s, b) PROVE FALSE
            OBVIOUS
        <3>1. \A j \in Hits(s, b) : j \in Nat /\ j <= n /\ j # n /\ j >= 1
            BY <1>1, <2>2
        <3>2. n - 1 \in Up
            BY <2>2, <3>1
        <3> QED  BY <2>2, <3>2
    <2> QED  BY <2>2, <2>3
<1>3. ASSUME NEW i \in Hits(s, b), \A j \in Hits(s, b) : j <= i
      PROVE  Decider(s, b) = s[i] /\ s[i] # NoValue
    <2>1. \A k \in Hits(s, b) : (\A j \in Hits(s, b) : k >= j) => k = i
        BY <1>1, <1>3
    <2>2. \A j \in Hits(s, b) : i >= j
        BY <1>1, <1>3
    <2>3. Max(Hits(s, b)) = i
        BY <2>1, <2>2 DEF Max
    <2> QED  BY <1>3, <2>3 DEF Decider, Hits
<1> QED  BY <1>2, <1>3

LEMMA NoHitNoDecider ==
    ASSUME NEW s \in Seq(Value), NEW b
    PROVE  /\ Decider(s, b) = NoValue <=> Hits(s, b) = {}
           /\ Decider(s, b) # NoValue => /\ b \in Matches[Decider(s, b)]
                                         /\ Decider(s, b) \in ToSet(s)
<1>1. CASE Hits(s, b) = {}
    BY <1>1 DEF Decider
<1>2. CASE Hits(s, b) # {}
    <2>1. PICK i \in Hits(s, b) : \A j \in Hits(s, b) : j <= i
        BY <1>2, LastHitDecides
    <2>2. Decider(s, b) = s[i] /\ s[i] # NoValue
        BY <2>1, LastHitDecides
    <2>3. b \in Matches[s[i]] /\ s[i] \in ToSet(s)
        BY DEF Hits, ToSet
    <2> QED  BY <1>2, <2>2, <2>3
<1> QED  BY <1>1, <1>2

LEMMA DeciderOfConcat ==
    ASSUME NEW s \in Seq(Value), NEW t \in Seq(Value), NEW b
    PROVE  /\ s \o t \in Seq(Value)
           /\ Decider(s \o t, b) = IF Decider(t, b) # NoValue THEN Decider(t, b)
                                   ELSE Decider(s, b)
<1> DEFINE st == s \o t
<1>1. /\ st \in Seq(Value) /\ Len(s) \in Nat /\ Len(t) \in Nat
      /\ DOMAIN st = 1..(Len(s) + Len(t))
      /\ DOMAIN s = 1..Len(s) /\ DOMAIN t = 1..Len(t)
    OBVIOUS
<1>2. /\ \A i \in 1..Len(s) : st[i] = s[i]
      /\ \A i \in 1..Len(t) : st[Len(s) + i] = t[i]
    OBVIOUS
<1> HIDE DEF st
<1>3. \A i \in 1..(Len(s) + Len(t)) :
          i \in 1..Len(s) \/ (i - Len(s) \in 1..Len(t) /\ i = Len(s) + (i - Len(s)))
    BY <1>1
<1>4. \A i \in Hits(st, b) : i \in Hits(s, b) \/ i - Len(s) \in Hits(t, b)
    BY <1>1, <1>2, <1>3 DEF Hits
<1>5. \A i \in Hits(t, b) : Len(s) + i \in Hits(st, b)
    <2>1. \A i \in 1..Len(t) : Len(s) + i \in 1..(Len(s) + Len(t))
        BY <1>1
    <2> QED  BY <1>1, <1>2, <2>1 DEF Hits
<1>6. \A i \in Hits(s, b) : i \in Hits(st, b)
    <2>1. \A i \in 1..Len(s) : i \in 1..(Len(s) + Len(t))
        BY <1>1
    <2> QED  BY <1>1, <1>2, <2>1 DEF Hits
<1>7. Hits(s, b) \subseteq 1..Len(s) /\ Hits(t, b) \subseteq 1..Len(t)
    BY DEF Hits
<1>8. CASE Hits(t, b) # {}
    <2>1. PICK i \in Hits(t, b) : \A j \in Hits(t, b) : j <= i
        BY <1>8, LastHitDecides
    <2>2. Decider(t, b) = t[i] /\ t[i] # NoValue
        BY <2>1, LastHitDecides
    <2>3. Len(s) + i \in Hits(st, b) /\ st[Len(s) + i] = t[i]
        BY <1>2, <1>5, <1>7
    <2>4. \A j \in Hits(st, b) : j <= Len(s) + i
        <3> SUFFICES ASSUME NEW j \in Hits(st, b) PROVE j <= Len(s) + i
            OBVIOUS
        <3>1. CASE j \in Hits(s, b)
            BY <1>1, <1>7, <3>1
        <3>2. CASE j - Len(s) \in Hits(t, b)
            <4>1. j - Len(s) <= i /\ j \in 1..(Len(s) + Len(t)) /\ i \in Nat
                BY <1>1, <1>7, <2>1, <3>2 DEF Hits
            <4> QED  BY <1>1, <4>1
        <3> QED  BY <1>4, <3>1, <3>2
    <2>5. Decider(st, b) = t[i]
        BY <1>1, <2>3, <2>4, LastHitDecides
    <2> QED  BY <1>1, <2>2, <2>5 DEF st
<1>9. CASE Hits(t, b) = {}
    <2>1. Hits(st, b) = Hits(s, b)
        BY <1>4, <1>6, <1>9
    <2>2. Decider(t, b) = NoValue
        BY <1>9, NoHitNoDecider
    <2>3. Decider(st, b) = Decider(s, b)
        <3>1. CASE Hits(s, b) = {}
            BY <2>1, <3>1 DEF Decider
        <3>2. CASE Hits(s, b) # {}
            <4>1. PICK i \in Hits(s, b) : \A j \in Hits(s, b) : j <= i
                BY <3>2, LastHitDecides
            <4>2. Decider(s, b) = s[i]
                BY <4>1, LastHitDecides
            <4>3. Decider(st, b) = st[i]
                BY <1>1, <2>1, <4>1, LastHitDecides
            <4> QED  BY <1>2, <1>7, <4>2, <4>3
        <3> QED  BY <3>1, <3>2
    <2> QED  BY <1>1, <2>2, <2>3 DEF st
<1> QED  BY <1>8, <1>9

LEMMA DeciderOfOne ==
    ASSUME NEW p \in Value, NEW b
    PROVE  /\ <<p>> \in Seq(Value)
           /\ Decider(<<p>>, b) = IF b \in Matches[p] THEN p ELSE NoValue
<1>1. <<p>> \in Seq(Value) /\ DOMAIN <<p>> = {1} /\ <<p>>[1] = p
    OBVIOUS
<1>2. CASE b \in Matches[p] /\ p # NoValue
    <2>1. Hits(<<p>>, b) = {1}
        BY <1>1, <1>2 DEF Hits
    <2> QED  BY <1>1, <1>2, <2>1, LastHitDecides
<1>3. CASE b \notin Matches[p] \/ p = NoValue
    <2>1. Hits(<<p>>, b) = {}
        BY <1>1, <1>3 DEF Hits
    <2> QED  BY <1>1, <1>3, <2>1 DEF Decider
<1> QED  BY <1>2, <1>3

LEMMA AppendHolds ==
    ASSUME NEW s \in Seq(Value), NEW p \in Value
    PROVE  /\ Append(s, p) \in Seq(Value)
           /\ \A x : x \in ToSet(Append(s, p)) <=> x \in ToSet(s) \/ x = p
<1>1. Append(s, p) = s \o <<p>> /\ Append(s, p) \in Seq(Value) /\ <<p>> \in Seq(Value)
    OBVIOUS
<1>2. ToSet(<<p>>) = {p}
    BY DEF ToSet
<1>3. \A x : x \in ToSet(s \o <<p>>) <=> x \in ToSet(s) \/ x \in ToSet(<<p>>)
    BY <1>1, ToSetOfConcat
<1> QED  BY <1>1, <1>2, <1>3

LEMMA DeciderOfAppend ==
    ASSUME NEW s \in Seq(Value), NEW p \in Value, NEW b
    PROVE  Decider(Append(s, p), b) =
               IF b \in Matches[p] /\ p # NoValue THEN p ELSE Decider(s, b)
<1>1. Append(s, p) = s \o <<p>> /\ <<p>> \in Seq(Value)
    OBVIOUS
<1>2. Decider(<<p>>, b) = IF b \in Matches[p] THEN p ELSE NoValue
    BY DeciderOfOne
<1>3. Decider(s \o <<p>>, b) = IF Decider(<<p>>, b) # NoValue THEN Decider(<<p>>, b)
                               ELSE Decider(s, b)
    BY <1>1, DeciderOfConcat
<1> QED  BY <1>1, <1>2, <1>3

\* A branch is protected if what decides is no exception.
LEMMA ProtectedByDecider ==
    ASSUME NEW s \in Seq(Value \ {NoValue}), NEW b
    PROVE  IsProtected(s, b) <=> /\ Decider(s, b) # NoValue
                                 /\ Decider(s, b) \notin Negated
<1>1. s \in Seq(Value) /\ \A i \in DOMAIN s : s[i] # NoValue
    OBVIOUS
<1>2. Hits(s, b) = {i \in DOMAIN s : b \in Matches[s[i]]}
    BY <1>1 DEF Hits
<1>3. Decider(s, b) = NoValue <=> Hits(s, b) = {}
    BY <1>1, NoHitNoDecider
<1> QED  BY <1>2, <1>3 DEF IsProtected, Decider

\* The lines said among the first ones, one by one.
IsSaid(f, values, n) ==
    f = [i \in 0..n |-> IF i = 0 THEN << >>
                        ELSE IF values[i] = NoValue THEN f[i - 1]
                        ELSE Append(f[i - 1], values[i])]

LEMMA SaidAt ==
    ASSUME NEW f, NEW values, NEW n \in Nat, IsSaid(f, values, n), NEW i \in 0..n
    PROVE  f[i] = IF i = 0 THEN << >>
                  ELSE IF values[i] = NoValue THEN f[i - 1]
                  ELSE Append(f[i - 1], values[i])
BY DEF IsSaid

LEMMA SaidExists ==
    ASSUME NEW values
    PROVE  \A n \in Nat : \E f : IsSaid(f, values, n)
<1> DEFINE S == {n \in Nat : \E f : IsSaid(f, values, n)}
<1>1. 0 \in S
    <2> DEFINE f == [i \in 0..0 |-> << >>]
    <2>1. IsSaid(f, values, 0)
        BY DEF IsSaid
    <2> QED  BY <2>1
<1>2. ASSUME NEW n \in Nat, n \in S PROVE n + 1 \in S
    <2>1. PICK f : IsSaid(f, values, n)
        BY <1>2
    <2> DEFINE g == [i \in 0..(n + 1) |->
                        IF i = 0 THEN << >>
                        ELSE IF values[i] = NoValue THEN f[i - 1]
                        ELSE Append(f[i - 1], values[i])]
    <2>2. ASSUME NEW i \in 0..n PROVE g[i] = f[i]
        <3>1. g[i] = IF i = 0 THEN << >>
                     ELSE IF values[i] = NoValue THEN f[i - 1]
                     ELSE Append(f[i - 1], values[i])
            OBVIOUS
        <3> HIDE DEF g
        <3> QED  BY <2>1, <3>1, SaidAt
    <2>3. ASSUME NEW i \in 0..(n + 1), i # 0 PROVE g[i - 1] = f[i - 1]
        <3>1. i - 1 \in 0..n
            BY <2>3
        <3> HIDE DEF g
        <3> QED  BY <2>2, <3>1
    <2>4. IsSaid(g, values, n + 1)
        BY <2>3 DEF IsSaid
    <2> QED  BY <2>4
<1> HIDE DEF S
<1>3. \A n \in Nat : n \in S
    BY <1>1, <1>2, Induction
<1> QED  BY <1>3 DEF S

\* Lines that say nothing decide nothing.
LEMMA WhatIsSaidDecides ==
    ASSUME NEW s \in Seq(Value)
    PROVE  /\ Said(s) \in Seq(Value \ {NoValue})
           /\ \A x : x \in ToSet(s) => x = NoValue \/ x \in ToSet(Said(s))
           /\ \A b : Decider(Said(s), b) = Decider(s, b)
<1> DEFINE f == CHOOSE f : IsSaid(f, s, Len(s))
<1>1. Len(s) \in Nat /\ DOMAIN s = 1..Len(s) /\ \A i \in 1..Len(s) : s[i] \in Value
    OBVIOUS
<1>2. IsSaid(f, s, Len(s))
    BY <1>1, SaidExists
<1>3. Said(s) = f[Len(s)]
    BY DEF Said, IsSaid
<1> HIDE DEF f
<1>4. \A i \in 0..Len(s) : f[i] = IF i = 0 THEN << >>
                                  ELSE IF s[i] = NoValue THEN f[i - 1]
                                  ELSE Append(f[i - 1], s[i])
    BY <1>1, <1>2, SaidAt
<1> DEFINE Up(n) == SubSeq(s, 1, n)
           Ok(n) == /\ f[n] \in Seq(Value \ {NoValue})
                    /\ \A x : x \in ToSet(Up(n)) => x = NoValue \/ x \in ToSet(f[n])
                    /\ \A b : Decider(f[n], b) = Decider(Up(n), b)
           S == {n \in Nat : n \in 0..Len(s) => Ok(n)}
<1>5. 0 \in S
    <2>1. f[0] = << >> /\ Up(0) = << >> /\ << >> \in Seq(Value \ {NoValue})
        BY <1>1, <1>4
    <2>2. ToSet(<< >>) = {}
        BY DEF ToSet
    <2> QED  BY <2>1, <2>2
<1>6. ASSUME NEW n \in Nat, n \in S PROVE n + 1 \in S
    <2> SUFFICES ASSUME n + 1 \in 0..Len(s) PROVE Ok(n + 1)
        OBVIOUS
    <2> DEFINE v == s[n + 1]
    <2>1. Ok(n) /\ v \in Value
        BY <1>1, <1>6
    <2>2. f[n + 1] = IF v = NoValue THEN f[n] ELSE Append(f[n], v)
        <3>1. n + 1 # 0 /\ (n + 1) - 1 = n
            OBVIOUS
        <3> QED  BY <1>4, <3>1
    <2>3. Up(n) \in Seq(Value) /\ Up(n + 1) = Append(Up(n), v)
        <3>1. Up(n) \in Seq(Value)
            BY <1>1
        <3>2. Up(n + 1) = Append(Up(n), v)
            BY <1>1
        <3> QED  BY <3>1, <3>2
    <2> HIDE DEF v, Up
    <2>4. \A b : Decider(Up(n + 1), b) =
                    IF b \in Matches[v] /\ v # NoValue THEN v ELSE Decider(Up(n), b)
        <3>1. v \in Value /\ Up(n) \in Seq(Value)
            BY <2>1, <2>3
        <3>2. \A b : Decider(Append(Up(n), v), b) =
                    IF b \in Matches[v] /\ v # NoValue THEN v ELSE Decider(Up(n), b)
            BY <3>1, DeciderOfAppend
        <3> QED  BY <2>3, <3>2
    <2>5. \A x : x \in ToSet(Up(n + 1)) <=> x \in ToSet(Up(n)) \/ x = v
        <3>1. \A x : x \in ToSet(Append(Up(n), v)) <=> x \in ToSet(Up(n)) \/ x = v
            BY <2>1, <2>3, AppendHolds
        <3> QED  BY <2>3, <3>1
    <2>6. CASE v = NoValue
        BY <2>1, <2>2, <2>4, <2>5, <2>6
    <2>7. CASE v # NoValue
        <3>1. f[n] \in Seq(Value) /\ f[n] \in Seq(Value \ {NoValue})
            BY <2>1
        <3>2. f[n + 1] = Append(f[n], v)
            BY <2>2, <2>7
        <3>3. f[n + 1] \in Seq(Value \ {NoValue})
            BY <2>1, <2>7, <3>1, <3>2
        <3>6. \A x : x \in ToSet(Append(f[n], v)) <=> x \in ToSet(f[n]) \/ x = v
            BY <2>1, <3>1, AppendHolds
        <3>7. \A b : Decider(Append(f[n], v), b) =
                        IF b \in Matches[v] /\ v # NoValue THEN v ELSE Decider(f[n], b)
            <4>1. v \in Value /\ f[n] \in Seq(Value)
                BY <2>1, <3>1
            <4> QED  BY <4>1, DeciderOfAppend
        <3> QED  BY <2>1, <2>4, <2>5, <3>2, <3>3, <3>6, <3>7
    <2> QED  BY <2>6, <2>7
<1> HIDE DEF S
<1>7. \A n \in Nat : n \in S
    BY <1>5, <1>6, Induction
<1>8. Len(s) \in S /\ Len(s) \in 0..Len(s) /\ Up(Len(s)) = s
    BY <1>1, <1>7
<1>9. Ok(Len(s))
    BY <1>8 DEF S
<1> QED  BY <1>3, <1>8, <1>9

-----------------------------------------------------------------------------
(***************************************************************************)
(* Writing the patterns of --protect one by one.                           *)
(***************************************************************************)
\* What comes after a blank line is still to be written, or blank as well.
BlanksAreLast(lines, rest) ==
    \A i, j \in DOMAIN lines :
        i < j /\ lines[i] = Empty => lines[j] \in {Empty, NoValue} \cup ToSet(rest)

Filled(lines, p) ==
    IF Empty \in ToSet(lines)
    THEN [i \in DOMAIN lines |-> IF lines[i] = Empty THEN p ELSE lines[i]]
    ELSE Append(lines, p)

LEMMA FilledIsTyped ==
    ASSUME NEW lines \in Seq(Value), NEW p \in Value
    PROVE  Filled(lines, p) \in Seq(Value)
<1>1. CASE Empty \in ToSet(lines)
    <2>1. DOMAIN lines = 1..Len(lines) /\ Len(lines) \in Nat
        OBVIOUS
    <2>2. Filled(lines, p) = [i \in 1..Len(lines) |->
                                 IF lines[i] = Empty THEN p ELSE lines[i]]
        BY <1>1, <2>1 DEF Filled
    <2>3. Filled(lines, p) \in [1..Len(lines) -> Value]
        BY <2>1, <2>2
    <2> QED  BY <2>1, <2>3, SeqDef
<1>2. CASE Empty \notin ToSet(lines)
    BY <1>2 DEF Filled
<1> QED  BY <1>1, <1>2

LEMMA FillingKeepsBlanksLast ==
    ASSUME NEW lines \in Seq(Value), NEW left \in Seq(Value), left # << >>,
           BlanksAreLast(lines, left)
    PROVE  BlanksAreLast(Filled(lines, Head(left)), Tail(left))
<1> DEFINE p == Head(left)
           t == Tail(left)
           u == Filled(lines, p)
<1>1. \A x : x \in ToSet(left) <=> x = p \/ x \in ToSet(t)
    BY TailHolds
<1>2. p \in Value
    BY TailHolds
<1> HIDE DEF p, t
<1>3. CASE Empty \in ToSet(lines)
    <2>1. u = [i \in DOMAIN lines |-> IF lines[i] = Empty THEN p ELSE lines[i]]
        BY <1>3 DEF Filled
    <2>2. CASE p = Empty
        <3>1. \A i \in DOMAIN u : i \in DOMAIN lines /\ u[i] = lines[i]
            BY <2>1, <2>2
        <3> HIDE DEF u
        <3> QED  BY <1>1, <2>2, <3>1 DEF BlanksAreLast, u, p, t
    <2>3. CASE p # Empty
        <3>1. \A i \in DOMAIN u : u[i] # Empty
            BY <2>1, <2>3
        <3> HIDE DEF u
        <3> QED  BY <3>1 DEF BlanksAreLast, u, p, t
    <2> QED  BY <2>2, <2>3
<1>4. CASE Empty \notin ToSet(lines)
    <2>1. u = Append(lines, p)
        BY <1>4 DEF Filled
    <2>2. /\ DOMAIN u = 1..(Len(lines) + 1) /\ DOMAIN lines = 1..Len(lines)
          /\ Len(lines) \in Nat
          /\ \A i \in 1..Len(lines) : u[i] = lines[i]
        BY <1>2, <2>1
    <2>3. \A i, j \in DOMAIN u : i < j => i \in DOMAIN lines /\ u[i] = lines[i]
        BY <2>2
    <2>4. \A i \in DOMAIN lines : lines[i] # Empty
        BY <1>4 DEF ToSet
    <2> HIDE DEF u
    <2> QED  BY <2>3, <2>4 DEF BlanksAreLast, u, p, t
<1> QED  BY <1>3, <1>4

\* A line written in the place of the blank ones decides as one written at the end:
\* what comes after it is written once more.
LEMMA FillingDecides ==
    ASSUME NEW lines \in Seq(Value), NEW left \in Seq(Value), left # << >>,
           BlanksAreLast(lines, left), NEW b,
           Decider(Tail(left), b) = NoValue
    PROVE  LET p == Head(left)
           IN  Decider(Filled(lines, p), b) =
                   IF b \in Matches[p] /\ p # NoValue THEN p ELSE Decider(lines, b)
<1> DEFINE p == Head(left)
           t == Tail(left)
           u == Filled(lines, p)
<1>1. /\ p \in Value /\ t \in Seq(Value)
      /\ \A x : x \in ToSet(left) <=> x = p \/ x \in ToSet(t)
    BY TailHolds
<1>2. u \in Seq(Value)
    BY <1>1, FilledIsTyped
<1>3. \A x \in ToSet(t) : b \notin Matches[x] \/ x = NoValue
    <2>1. Hits(t, b) = {}
        BY <1>1, NoHitNoDecider
    <2> QED  BY <2>1 DEF Hits, ToSet
<1>4. \A i, j \in DOMAIN lines :
          i < j /\ lines[i] = Empty => lines[j] \in {Empty, NoValue} \cup ToSet(left)
    BY DEF BlanksAreLast
<1>5. Matches[Empty] = {}
    BY BlankMatchesNothing
<1> HIDE DEF p, t
<1>6. CASE Empty \notin ToSet(lines)
    <2>1. u = Append(lines, p)
        BY <1>6 DEF Filled
    <2>2. p \in Value
        BY <1>1
    <2>3. Decider(Append(lines, p), b) =
              IF b \in Matches[p] /\ p # NoValue THEN p ELSE Decider(lines, b)
        BY <2>2, DeciderOfAppend
    <2> QED  BY <2>1, <2>3 DEF p
<1>7. CASE Empty \in ToSet(lines)
    <2>1. u = [i \in DOMAIN lines |-> IF lines[i] = Empty THEN p ELSE lines[i]]
        BY <1>7 DEF Filled
    <2>2. DOMAIN u = DOMAIN lines
        BY <2>1
    <2>3. \A i \in DOMAIN lines : u[i] = IF lines[i] = Empty THEN p ELSE lines[i]
        BY <2>1
    <2> HIDE DEF u
    <2>4. CASE b \in Matches[p] /\ p # NoValue
        <3>1. PICK e \in DOMAIN lines : lines[e] = Empty
            BY <1>7 DEF ToSet
        <3>2. e \in Hits(u, b)
            BY <2>2, <2>3, <2>4, <3>1 DEF Hits
        <3>3. PICK i \in Hits(u, b) : \A j \in Hits(u, b) : j <= i
            BY <1>2, <3>2, LastHitDecides
        <3>4. /\ i \in DOMAIN lines /\ u[i] # NoValue /\ b \in Matches[u[i]]
              /\ e <= i
            BY <2>2, <3>2, <3>3 DEF Hits
        <3>5. u[i] = p
            <4>1. CASE lines[i] = Empty
                BY <2>3, <3>4, <4>1
            <4>2. CASE lines[i] # Empty
                <5>1. e < i
                    <6>1. e # i /\ e \in Nat /\ i \in Nat
                        BY <3>1, <3>4, <4>2
                    <6> QED  BY <3>4, <6>1
                <5>2. u[i] = lines[i] /\ lines[i] \in {Empty, NoValue} \cup ToSet(left)
                    BY <1>4, <2>3, <3>1, <3>4, <4>2, <5>1
                <5> QED  BY <1>1, <1>3, <3>4, <4>2, <5>2
            <4> QED  BY <4>1, <4>2
        <3>6. Decider(u, b) = u[i]
            BY <1>2, <3>3, LastHitDecides
        <3> QED  BY <2>4, <3>5, <3>6 DEF u, p
    <2>5. CASE ~(b \in Matches[p] /\ p # NoValue)
        <3>1. \A i \in DOMAIN lines :
                  /\ i \in Hits(u, b) <=> i \in Hits(lines, b)
                  /\ i \in Hits(lines, b) => u[i] = lines[i]
            BY <1>5, <2>2, <2>3, <2>5 DEF Hits
        <3>2. Hits(u, b) = Hits(lines, b)
            BY <2>2, <3>1 DEF Hits
        <3>3. CASE Hits(lines, b) = {}
            BY <2>5, <3>2, <3>3 DEF Decider, u, p
        <3>4. CASE Hits(lines, b) # {}
            <4>1. PICK i \in Hits(lines, b) : \A j \in Hits(lines, b) : j <= i
                BY <3>4, LastHitDecides
            <4>2. Decider(lines, b) = lines[i]
                BY <4>1, LastHitDecides
            <4>3. Decider(u, b) = u[i]
                BY <1>2, <3>2, <4>1, LastHitDecides
            <4>4. u[i] = lines[i]
                BY <3>1 DEF Hits
            <4> QED  BY <2>5, <4>2, <4>3, <4>4 DEF u, p
        <3> QED  BY <3>3, <3>4
    <2> QED  BY <2>4, <2>5
<1> QED  BY <1>6, <1>7

\* What the repository's file says, and what it is to say in the end.
OwnPatterns == files["local"]["protected"]
Whole == Append(asked.before, asked.pattern)

\* A --protect under way: what is in the file and what is still to be written decide
\* together as the old patterns and the new one do.
Rewriting ==
    /\ todo \in Seq(Value)
    /\ \A b : Decider(OwnPatterns \o todo, b) = Decider(Whole, b)
    /\ BlanksAreLast(OwnPatterns, todo)

ProtectInv ==
    /\ files \in [Place -> File]
    /\ op = "protect" =>
          /\ asked.pattern \in Patterns
          /\ asked.before \in Seq(Value \ {NoValue})
          /\ \/ todo = <<Clearing>> \o Whole /\ asked.before = Said(OwnPatterns)
             \/ Rewriting

LEMMA WhatIsAsked ==
    ASSUME asked.pattern \in Patterns, asked.before \in Seq(Value \ {NoValue})
    PROVE  /\ asked.pattern \in Value /\ asked.pattern # NoValue
           /\ asked.before \in Seq(Value) /\ Whole \in Seq(Value)
           /\ \A x : x \in ToSet(asked.before) => x \in ToSet(Whole)
           /\ \A b : Decider(Whole, b) = IF b \in Matches[asked.pattern]
                                         THEN asked.pattern
                                         ELSE Decider(asked.before, b)
<1>1. asked.pattern \in Value /\ asked.pattern # NoValue
    BY PatternsAreValues
<1>2. asked.before \in Seq(Value)
    OBVIOUS
<1>3. Whole \in Seq(Value) /\ \A x : x \in ToSet(asked.before) => x \in ToSet(Whole)
    BY <1>1, <1>2, AppendHolds DEF Whole
<1>4. \A b : Decider(Append(asked.before, asked.pattern), b) =
                 IF b \in Matches[asked.pattern] /\ asked.pattern # NoValue
                 THEN asked.pattern ELSE Decider(asked.before, b)
    BY <1>1, <1>2, DeciderOfAppend
<1> QED  BY <1>1, <1>2, <1>3, <1>4 DEF Whole

LEMMA PlacesAreTyped ==
    ASSUME files \in [Place -> File]
    PROVE  /\ \A p \in Place, k \in Key : files[p][k] \in Seq(Value)
           /\ "protected" \in Key /\ "local" \in Place /\ OwnPatterns \in Seq(Value)
<1>1. "protected" \in Key /\ "local" \in Place
    BY Texts DEF Place, SettingKeys
<1>2. \A p \in Place, k \in Key : files[p][k] \in Seq(Value)
    BY DEF File
<1> QED  BY <1>1, <1>2 DEF OwnPatterns

LEMMA FlattenOfOne ==
    ASSUME NEW T, NEW seqs \in Seq(Seq(T)), Len(seqs) = 1
    PROVE  FlattenSeq(seqs) = seqs[1]
<1>1. Len(seqs) \in Nat /\ Len(seqs) # 0
    OBVIOUS
<1>2. PICK f : /\ IsFlattening(f, seqs, Len(seqs))
               /\ FlattenSeq(seqs) = f[Len(seqs)]
    BY <1>1, FlattenIsLast
<1>3. IsFlattening(f, seqs, 1) /\ 1 \in 1..1 /\ 1 \in Nat
    BY <1>2
<1>4. f[1] = IF 1 = 1 THEN seqs[1] ELSE f[1 - 1] \o seqs[1]
    BY <1>3, FlatteningAt
<1> QED  BY <1>2, <1>4

\* The patterns of each place, as git-stack reads them.
LEMMA ReadPatterns ==
    ASSUME files \in [Place -> File]
    PROVE  /\ FromRepo(files).protected = Said(OwnPatterns)
           /\ FromWorkdir(files).protected \in Seq(Value \ {NoValue})
           /\ FromGitconfig(files, UserLevels).protected \in Seq(Value \ {NoValue})
<1>1. ASSUME NEW levels, NEW n \in Nat, DOMAIN levels = 1..n,
             \A i \in 1..n : levels[i] \in Place
      PROVE  LET seqs == [i \in DOMAIN levels |-> files[levels[i]]["protected"]]
             IN  /\ seqs \in Seq(Seq(Value)) /\ Len(seqs) = n
                 /\ FromGitconfig(files, levels).protected = Said(FlattenSeq(seqs))
                 /\ FromGitconfig(files, levels).protected \in Seq(Value \ {NoValue})
    <2> DEFINE seqs == [i \in DOMAIN levels |-> files[levels[i]]["protected"]]
    <2>1. seqs \in [1..n -> Seq(Value)]
        BY <1>1, PlacesAreTyped
    <2>2. FromGitconfig(files, levels).protected = Said(FlattenSeq(seqs))
        BY DEF FromGitconfig, Multivar
    <2> HIDE DEF seqs
    <2>3. seqs \in Seq(Seq(Value)) /\ Len(seqs) = n
        BY <1>1, <2>1, SeqDef, LenProperties
    <2>4. FlattenSeq(seqs) \in Seq(Value)
        BY <2>3, FlattenHolds
    <2>5. Said(FlattenSeq(seqs)) \in Seq(Value \ {NoValue})
        BY <2>4, WhatIsSaidDecides
    <2> QED  BY <2>2, <2>3, <2>5 DEF seqs
<1>2. FromRepo(files).protected = Said(OwnPatterns)
    <2> DEFINE levels == <<"local">>
               seqs == [i \in DOMAIN levels |-> files[levels[i]]["protected"]]
    <2>1. DOMAIN levels = 1..1 /\ levels[1] = "local" /\ 1 \in Nat
        OBVIOUS
    <2>2. \A i \in 1..1 : levels[i] \in Place
        BY <2>1 DEF Place
    <2> HIDE DEF levels
    <2>3. /\ seqs \in Seq(Seq(Value)) /\ Len(seqs) = 1
          /\ FromGitconfig(files, levels).protected = Said(FlattenSeq(seqs))
        BY <1>1, <2>1, <2>2
    <2>4. FlattenSeq(seqs) = seqs[1]
        BY <2>3, FlattenOfOne
    <2>5. seqs[1] = OwnPatterns
        BY <2>1 DEF OwnPatterns
    <2> HIDE DEF seqs
    <2> QED  BY <2>3, <2>4, <2>5 DEF FromRepo, levels
<1>3. FromWorkdir(files).protected \in Seq(Value \ {NoValue})
    <2> DEFINE levels == <<"workdir">>
    <2>1. DOMAIN levels = 1..1 /\ levels[1] = "workdir" /\ 1 \in Nat
        OBVIOUS
    <2>2. \A i \in 1..1 : levels[i] \in Place
        BY <2>1 DEF Place
    <2> HIDE DEF levels
    <2>3. FromGitconfig(files, levels).protected \in Seq(Value \ {NoValue})
        BY <1>1, <2>1, <2>2
    <2> QED  BY <2>3 DEF FromWorkdir, levels
<1>4. FromGitconfig(files, UserLevels).protected \in Seq(Value \ {NoValue})
    <2>1. DOMAIN UserLevels = 1..2 /\ 2 \in Nat
        BY DEF UserLevels
    <2>2. \A i \in 1..2 : UserLevels[i] \in Place
        BY DEF Place, UserLevels
    <2> QED  BY <1>1, <2>1, <2>2
<1> QED  BY <1>2, <1>3, <1>4

\* Whatever is in the other places: once all is written, the new pattern decides for
\* what it matches, and what decided before does for the rest.
LEMMA WrittenDecides == ProtectInv => ProtectDecides
<1> SUFFICES ASSUME ProtectInv, op = "protect", todo = << >>, NEW b \in Branch
             PROVE  IsProtected(FilePatterns(FromRepo(files).protected), b) =
                        IF b \in Matches[asked.pattern] THEN asked.pattern \notin Negated
                        ELSE IsProtected(FilePatterns(asked.before), b)
    BY DEF ProtectDecides
<1> DEFINE T == Value \ {NoValue}
           user == FromGitconfig(files, UserLevels).protected
           workdir == FromWorkdir(files).protected
           others == DefaultBranches \o user \o workdir
<1>1. /\ files \in [Place -> File]
      /\ asked.pattern \in Patterns /\ asked.before \in Seq(T)
    BY DEF ProtectInv
<1>2. Rewriting
    <2>1. Whole \in Seq(Value)
        BY <1>1, WhatIsAsked
    <2>2. <<Clearing>> \o Whole # << >>
        BY <2>1
    <2> QED  BY <2>2 DEF ProtectInv
<1>3. OwnPatterns \in Seq(Value)
    BY <1>1, PlacesAreTyped
<1>4. Decider(OwnPatterns, b) = Decider(Whole, b)
    <2>1. OwnPatterns \o todo = OwnPatterns
        BY <1>3
    <2>2. Decider(OwnPatterns \o todo, b) = Decider(Whole, b)
        BY <1>2 DEF Rewriting
    <2> QED  BY <2>1, <2>2
<1>5. others \in Seq(T)
    <2>1. user \in Seq(T) /\ workdir \in Seq(T)
        BY <1>1, ReadPatterns
    <2> HIDE DEF user, workdir
    <2> QED  BY <2>1, DefaultsAreNames
<1>6. \A own : FilePatterns(own) = others \o own
    BY DEF FilePatterns
<1> HIDE DEF others
<1>7. ASSUME NEW own \in Seq(T)
      PROVE  LET d == IF Decider(own, b) # NoValue THEN Decider(own, b)
                      ELSE Decider(others, b)
             IN  IsProtected(FilePatterns(own), b) <=> d # NoValue /\ d \notin Negated
    <2>1. own \in Seq(Value) /\ others \in Seq(Value) /\ others \o own \in Seq(T)
        BY <1>5
    <2>2. Decider(others \o own, b) = IF Decider(own, b) # NoValue THEN Decider(own, b)
                                      ELSE Decider(others, b)
        BY <2>1, DeciderOfConcat
    <2>3. IsProtected(others \o own, b) <=> /\ Decider(others \o own, b) # NoValue
                                            /\ Decider(others \o own, b) \notin Negated
        BY <2>1, ProtectedByDecider
    <2> QED  BY <1>6, <2>2, <2>3
<1>8. /\ FromRepo(files).protected = Said(OwnPatterns)
      /\ Said(OwnPatterns) \in Seq(T)
      /\ Decider(Said(OwnPatterns), b) = Decider(OwnPatterns, b)
    BY <1>1, <1>3, ReadPatterns, WhatIsSaidDecides
<1>9. /\ Decider(Whole, b) = IF b \in Matches[asked.pattern] THEN asked.pattern
                             ELSE Decider(asked.before, b)
      /\ asked.pattern # NoValue
    BY <1>1, WhatIsAsked
<1>10. CASE b \in Matches[asked.pattern]
    <2>1. IsProtected(FilePatterns(Said(OwnPatterns)), b) <=> asked.pattern \notin Negated
        BY <1>4, <1>7, <1>8, <1>9, <1>10
    <2> QED  BY <1>8, <1>10, <2>1 DEF IsProtected
<1>11. CASE b \notin Matches[asked.pattern]
    <2>1. IsProtected(FilePatterns(Said(OwnPatterns)), b)
              <=> IsProtected(FilePatterns(asked.before), b)
        BY <1>1, <1>4, <1>7, <1>8, <1>9, <1>11
    <2> QED  BY <1>8, <1>11, <2>1 DEF IsProtected
<1> QED  BY <1>10, <1>11

LEMMA ProtectInit == Init => ProtectInv
BY StartsAreFiles DEF Init, ProtectInv

\* Where --protect is: before it has cleared the patterns, or writing them.
LEMMA WhereProtectIs ==
    ASSUME ProtectInv, op = "protect", todo # << >>
    PROVE  /\ Whole \in Seq(Value) /\ OwnPatterns \in Seq(Value)
           /\ Head(todo) = Clearing => /\ Tail(todo) = Whole
                                       /\ asked.before = Said(OwnPatterns)
           /\ Head(todo) # Clearing => Rewriting /\ Head(todo) \in Value
<1>1. Whole \in Seq(Value) /\ OwnPatterns \in Seq(Value)
    BY WhatIsAsked, PlacesAreTyped DEF ProtectInv
<1>2. CASE todo = <<Clearing>> \o Whole /\ asked.before = Said(OwnPatterns)
    <2>1. Head(todo) = Clearing /\ Tail(todo) = Whole
        BY <1>1, <1>2
    <2> QED  BY <1>1, <1>2, <2>1
<1>3. CASE Rewriting
    <2>1. Head(todo) \in Value
        BY <1>3, TailHolds DEF Rewriting
    <2> QED  BY <1>1, <1>3, <2>1, ClearingIsNoPattern
<1> QED  BY <1>2, <1>3 DEF ProtectInv

LEMMA OnlyThePatternsChange ==
    ASSUME files \in [Place -> File], NEW lines \in Seq(Value),
           files' = [files EXCEPT !["local"] =
                        [files["local"] EXCEPT !["protected"] = lines]]
    PROVE  files' \in [Place -> File] /\ OwnPatterns' = lines
<1>1. "protected" \in Key /\ "local" \in Place /\ files["local"] \in File
    BY PlacesAreTyped
<1>2. /\ [files["local"] EXCEPT !["protected"] = lines] \in File
      /\ [files["local"] EXCEPT !["protected"] = lines]["protected"] = lines
    BY <1>1 DEF File
<1> QED  BY <1>1, <1>2 DEF OwnPatterns

LEMMA ProtectBegins ==
    ASSUME ProtectInv, NEW pattern \in Patterns, Protect(pattern)
    PROVE  ProtectInv'
<1> DEFINE before == FromRepo(files).protected
<1>1. /\ files' = files /\ op' = "protect"
      /\ todo' = <<Clearing>> \o Append(before, pattern)
      /\ asked' = [pattern |-> pattern, before |-> before]
    BY DEF Protect, Start
<1>2. before = Said(OwnPatterns) /\ before \in Seq(Value \ {NoValue})
    BY ReadPatterns, PlacesAreTyped, WhatIsSaidDecides DEF ProtectInv
<1> HIDE DEF before
<1>3. /\ asked'.pattern = pattern /\ asked'.before = before
      /\ OwnPatterns' = OwnPatterns
    BY <1>1 DEF OwnPatterns
<1>4. Whole' = Append(before, pattern)
    BY <1>3 DEF Whole
<1> QED  BY <1>1, <1>2, <1>3, <1>4 DEF ProtectInv

LEMMA ClearingGoesOn ==
    ASSUME ProtectInv, ClearPatterns
    PROVE  ProtectInv'
<1>1. /\ op = "protect" /\ todo # << >> /\ Head(todo) = Clearing
      /\ files' = [files EXCEPT !["local"] =
                      [files["local"] EXCEPT !["protected"] = << >>]]
      /\ todo' = Tail(todo) /\ op' = "protect" /\ asked' = asked
    BY DEF ClearPatterns, Goes, RemoveAll
<1>2. << >> \in Seq(Value)
    OBVIOUS
<1>3. files' \in [Place -> File] /\ OwnPatterns' = << >>
    BY <1>1, <1>2, OnlyThePatternsChange DEF ProtectInv
<1>4. todo' = Whole /\ Whole \in Seq(Value) /\ Whole' = Whole
    BY <1>1, WhereProtectIs DEF Whole
<1>5. << >> \o Whole = Whole
    BY <1>4
<1>6. Rewriting'
    BY <1>3, <1>4, <1>5 DEF Rewriting, BlanksAreLast
<1> QED  BY <1>1, <1>3, <1>6 DEF ProtectInv

LEMMA NotClearingGoesOn ==
    ASSUME ProtectInv, NotCleared
    PROVE  ProtectInv'
<1>1. /\ op = "protect" /\ todo # << >> /\ Head(todo) = Clearing
      /\ files' = files /\ todo' = Tail(todo) /\ op' = "protect" /\ asked' = asked
    BY DEF NotCleared, Fault
<1>2. /\ todo' = Whole /\ Whole \in Seq(Value) /\ Whole' = Whole
      /\ OwnPatterns' = OwnPatterns /\ OwnPatterns \in Seq(Value)
      /\ asked.before = Said(OwnPatterns)
    BY <1>1, WhereProtectIs DEF Whole, OwnPatterns
<1>3. ASSUME NEW b PROVE Decider(OwnPatterns \o Whole, b) = Decider(Whole, b)
    <2>1. Decider(OwnPatterns \o Whole, b) =
              IF Decider(Whole, b) # NoValue THEN Decider(Whole, b)
              ELSE Decider(OwnPatterns, b)
        BY <1>2, DeciderOfConcat
    <2>2. Decider(asked.before, b) = Decider(OwnPatterns, b)
        BY <1>2, WhatIsSaidDecides
    <2>3. /\ Decider(Whole, b) = IF b \in Matches[asked.pattern] THEN asked.pattern
                                 ELSE Decider(asked.before, b)
          /\ asked.pattern # NoValue
        BY <1>1, WhatIsAsked DEF ProtectInv
    <2> QED  BY <2>1, <2>2, <2>3
<1>4. BlanksAreLast(OwnPatterns, Whole)
    <2>1. \A x : x \in ToSet(OwnPatterns) => x = NoValue \/ x \in ToSet(Whole)
        <3>1. \A x : x \in ToSet(OwnPatterns)
                        => x = NoValue \/ x \in ToSet(Said(OwnPatterns))
            BY <1>2, WhatIsSaidDecides
        <3>2. \A x : x \in ToSet(asked.before) => x \in ToSet(Whole)
            BY <1>1, WhatIsAsked DEF ProtectInv
        <3> QED  BY <1>2, <3>1, <3>2
    <2>2. \A j \in DOMAIN OwnPatterns : OwnPatterns[j] \in ToSet(OwnPatterns)
        BY DEF ToSet
    <2> QED  BY <2>1, <2>2 DEF BlanksAreLast
<1>5. Rewriting'
    BY <1>2, <1>3, <1>4 DEF Rewriting
<1> QED  BY <1>1, <1>5 DEF ProtectInv

LEMMA WritingGoesOn ==
    ASSUME ProtectInv, SetPattern
    PROVE  ProtectInv'
<1> DEFINE p == Head(todo)
           t == Tail(todo)
           u == Filled(OwnPatterns, p)
<1>1. /\ op = "protect" /\ todo # << >> /\ p # Clearing
      /\ files' = [files EXCEPT !["local"] =
                      [files["local"] EXCEPT !["protected"] = u]]
      /\ todo' = t /\ op' = "protect" /\ asked' = asked
    <2>1. "local" \in Place /\ "protected" \in Key /\ files["local"] \in [Key -> Seq(Value)]
        BY PlacesAreTyped DEF ProtectInv, File
    <2> QED  BY <2>1 DEF SetPattern, Goes, SetEmpty, Filled, OwnPatterns
<1>2. /\ Whole \in Seq(Value) /\ OwnPatterns \in Seq(Value) /\ Rewriting
      /\ p \in Value /\ Whole' = Whole
    BY <1>1, WhereProtectIs DEF Whole
<1>3. u \in Seq(Value)
    BY <1>2, FilledIsTyped
<1>4. files' \in [Place -> File] /\ OwnPatterns' = u
    BY <1>1, <1>3, OnlyThePatternsChange DEF ProtectInv
<1>5. todo \in Seq(Value) /\ t \in Seq(Value) /\ BlanksAreLast(OwnPatterns, todo)
    BY <1>1, <1>2, TailHolds DEF Rewriting
<1>6. BlanksAreLast(u, t)
    BY <1>1, <1>2, <1>5, FillingKeepsBlanksLast
<1>7. ASSUME NEW b PROVE Decider(u \o t, b) = Decider(OwnPatterns \o todo, b)
    <2>1. Decider(u \o t, b) = IF Decider(t, b) # NoValue THEN Decider(t, b)
                               ELSE Decider(u, b)
        BY <1>3, <1>5, DeciderOfConcat
    <2>2. Decider(OwnPatterns \o todo, b) =
              IF Decider(todo, b) # NoValue THEN Decider(todo, b)
              ELSE Decider(OwnPatterns, b)
        BY <1>2, <1>5, DeciderOfConcat
    <2>3. Decider(todo, b) = IF Decider(t, b) # NoValue THEN Decider(t, b)
                             ELSE IF b \in Matches[p] THEN p ELSE NoValue
        <3>1. todo = <<p>> \o t
            BY <1>1, <1>5
        <3>2. <<p>> \in Seq(Value)
              /\ Decider(<<p>>, b) = IF b \in Matches[p] THEN p ELSE NoValue
            BY <1>2, DeciderOfOne
        <3> HIDE DEF p, t
        <3>3. Decider(<<p>> \o t, b) = IF Decider(t, b) # NoValue THEN Decider(t, b)
                                       ELSE Decider(<<p>>, b)
            BY <1>5, <3>2, DeciderOfConcat
        <3> QED  BY <3>1, <3>2, <3>3
    <2>4. Decider(t, b) = NoValue =>
              Decider(u, b) = IF b \in Matches[p] /\ p # NoValue THEN p
                              ELSE Decider(OwnPatterns, b)
        BY <1>1, <1>2, <1>5, FillingDecides
    <2> HIDE DEF p, t, u
    <2> QED  BY <2>1, <2>2, <2>3, <2>4
<1>8. Rewriting'
    <2>1. \A b : Decider(OwnPatterns \o todo, b) = Decider(Whole, b)
        BY <1>2 DEF Rewriting
    <2>2. todo' = t /\ OwnPatterns' = u /\ Whole' = Whole
        BY <1>1, <1>2, <1>4
    <2> HIDE DEF p, t, u
    <2> QED  BY <1>5, <1>6, <1>7, <2>1, <2>2 DEF Rewriting
<1> QED  BY <1>1, <1>4, <1>8 DEF ProtectInv

\* Elsewhere the files stay files, too.
LEMMA FilesStayFiles ==
    ASSUME LinesInv, files \in [Place -> File], SetAlias \/ RemoveEntry
    PROVE  files' \in [Place -> File]
<1>1. "user" \in Place /\ files["user"] \in File
    BY DEF Place
<1>2. CASE SetAlias
    <2> DEFINE alias == Head(todo)
    <2>1. /\ op = "register" /\ todo # << >>
          /\ files' = [files EXCEPT !["user"] =
                          [files["user"] EXCEPT ![alias] = <<Action[alias]>>]]
        BY <1>2 DEF SetAlias, Goes, SetStr
    <2>2. Action[alias] \in Value
        BY <2>1, TailHolds, OursAreAliases DEF LinesInv, TodoOfAliases
    <2>3. <<Action[alias]>> \in Seq(Value)
        BY <2>2
    <2> QED  BY <1>1, <2>1, <2>3 DEF File
<1>3. CASE RemoveEntry
    <2>1. files' = [files EXCEPT !["user"] =
                       [files["user"] EXCEPT ![Head(todo).key] = << >>]]
        BY <1>3 DEF RemoveEntry, Goes, RemoveAll
    <2>2. << >> \in Seq(Value)
        OBVIOUS
    <2> QED  BY <1>1, <2>1, <2>2 DEF File
<1> QED  BY <1>2, <1>3

LEMMA ProtectNext == LinesInv /\ ProtectInv /\ [Next]_vars => ProtectInv'
<1> SUFFICES ASSUME LinesInv, ProtectInv, [Next]_vars PROVE ProtectInv'
    OBVIOUS
<1>1. CASE \E pattern \in Patterns : Protect(pattern)
    BY <1>1, ProtectBegins
<1>2. CASE ClearPatterns
    BY <1>2, ClearingGoesOn
<1>3. CASE NotCleared
    BY <1>3, NotClearingGoesOn
<1>4. CASE SetPattern
    BY <1>4, WritingGoesOn
<1>5. CASE SetAlias \/ RemoveEntry
    <2>1. files' \in [Place -> File]
        BY <1>5, FilesStayFiles DEF ProtectInv
    <2>2. op' # "protect"
        BY <1>5 DEF SetAlias, RemoveEntry, Goes
    <2> QED  BY <2>1, <2>2 DEF ProtectInv
<1>6. CASE \/ Register \/ Registered \/ EndRegister \/ Unregister \/ KeepEntry
           \/ CannotRemove \/ EndUnregister \/ EndProtect \/ WriteFails \/ Killed
    <2>1. files' = files /\ op' # "protect"
        BY <1>6 DEF Register, Registered, EndRegister, Unregister, KeepEntry, End,
               CannotRemove, EndUnregister, EndProtect, WriteFails, Killed, Fault, Start
    <2> QED  BY <2>1 DEF ProtectInv
<1>7. CASE UNCHANGED vars
    BY <1>7 DEF vars, command, ProtectInv, Rewriting, Whole, OwnPatterns
<1> QED  BY <1>1, <1>2, <1>3, <1>4, <1>5, <1>6, <1>7 DEF Next

\* Whatever the files say, and whether or not the old patterns could be removed: when
\* --protect has written all, its pattern decides for the branches it matches, and for
\* all others nothing has changed.
THEOREM ProtectTakesHold == Spec => []ProtectDecides
BY LinesInit, LinesNext, ProtectInit, ProtectNext, WrittenDecides, PTL DEF Spec
=============================================================================
