--------------------------- MODULE SessionProofs ---------------------------
(***************************************************************************)
(* The work of the user survives a session, for any edits, branches and    *)
(* number of faults.                                                       *)
(***************************************************************************)
EXTENDS Session, TLAPS

(***************************************************************************)
(* Types, and that a command only is in phases of its own.                 *)
(***************************************************************************)
OwnPhases ==
    \/ pc \in {"done", "failed"}
    \/ cmd.command = "amend" /\ pc \in DOMAIN AmendNext
    \/ cmd.command = "reword" /\ pc \in DOMAIN RewordNext
    \/ cmd.command = "sync" /\ pc \in DOMAIN SyncNext

TypeInv == cmd \in Request /\ OwnPhases /\ TypeOK

\* A phase of a command is followed by one of its phases.
LEMMA ProceedStays ==
    ASSUME cmd \in Request, OwnPhases, pc \notin {"done", "failed"},
           Proceed, cmd' = cmd
    PROVE  OwnPhases' /\ pc' \in DOMAIN AmendNext \cup {"done", "failed"}
<1>1. CASE cmd.command = "amend"
    BY <1>1 DEF OwnPhases, Proceed, AmendNext, RewordNext, SyncNext
<1>2. CASE cmd.command = "reword"
    BY <1>2 DEF OwnPhases, Proceed, AmendNext, RewordNext, SyncNext
<1>3. CASE cmd.command = "sync"
    BY <1>3 DEF OwnPhases, Proceed, AmendNext, RewordNext, SyncNext
<1> QED  BY <1>1, <1>2, <1>3 DEF Request

\* The fields of a request that steps of the session read.
LEMMA RequestParts ==
    ASSUME NEW r \in Request
    PROVE  /\ r.command \in {"amend", "reword", "sync"}
           /\ r.staged \in SUBSET Edit /\ r.unstaged \in SUBSET Edit
           /\ r.at_head \in SUBSET Branch
           /\ r.attached \in BOOLEAN /\ r.dry_run \in BOOLEAN
BY DEF Request

LEMMA FaultIsBounded ==
    ASSUME faults \in 0..MaxFaults, Fault
    PROVE  faults' \in 0..MaxFaults
BY FaultBound DEF Fault

-----------------------------------------------------------------------------
(***************************************************************************)
(* Types.                                                                  *)
(***************************************************************************)
LEMMA InitHasTypes == Init => TypeInv
<1> SUFFICES ASSUME Init PROVE TypeInv
    OBVIOUS
<1>1. cmd \in Request /\ cmd.command \in {"amend", "reword", "sync"}
    BY RequestParts DEF Init
<1>2. pc = FirstPhase[cmd.command]
    BY DEF Init
<1>3. OwnPhases /\ pc \in DOMAIN AmendNext
    BY <1>1, <1>2 DEF OwnPhases, FirstPhase, AmendNext, RewordNext, SyncNext
<1>4. tip \in Tips /\ head \in [attached : BOOLEAN, at : Where]
    BY <1>1, RequestParts DEF Init, Tips, Where
<1>5. faults \in 0..MaxFaults
    BY FaultBound DEF Init
<1> QED  BY <1>1, <1>3, <1>4, <1>5, RequestParts DEF Init, TypeInv, TypeOK

\* Putting work on the stash, and taking it back, keeps its types.
LEMMA PushKeepsTypes ==
    ASSUME TypeOK, NEW id \in {"fixup", "command"}, Push(id)
    PROVE  /\ index' \subseteq Edit /\ files' \subseteq Edit
           /\ stash' \subseteq [id : {"fixup", "command"}, edits : SUBSET Edit]
           /\ unsaved' \in BOOLEAN
           /\ faults' \in 0..MaxFaults
<1>1. CASE index \cup files = {} /\ UNCHANGED <<work, faults>>
    BY <1>1 DEF TypeOK, work
<1>2. CASE /\ stash' = stash \cup {[id |-> id, edits |-> index \cup files]}
           /\ index' = {} /\ files' = {}
           /\ UNCHANGED <<unsaved, faults>>
    BY <1>2 DEF TypeOK
<1>3. CASE Fault /\ unsaved' = TRUE /\ UNCHANGED <<index, files, stash>>
    BY <1>3, FaultIsBounded DEF TypeOK
<1> QED  BY <1>1, <1>2, <1>3 DEF Push

LEMMA PopKeepsTypes ==
    ASSUME TypeOK, NEW id, Pop(id)
    PROVE  /\ index' \subseteq Edit /\ files' \subseteq Edit
           /\ stash' \subseteq [id : {"fixup", "command"}, edits : SUBSET Edit]
           /\ unsaved' \in BOOLEAN
           /\ faults' \in 0..MaxFaults
<1> DEFINE entries == {e \in stash : e.id = id}
           committed == IF cmd.dry_run THEN {} ELSE fixup
<1>1. CASE /\ stash' = stash \ entries
           /\ files' = files \cup ((UNION {e.edits : e \in entries}) \ committed)
           /\ UNCHANGED <<index, unsaved, faults>>
    <2>1. \A e \in entries : e.edits \subseteq Edit
        BY DEF TypeOK
    <2>2. files' \subseteq Edit
        BY <1>1, <2>1 DEF TypeOK
    <2> QED  BY <1>1, <2>2 DEF TypeOK
<1>2. CASE Fault /\ UNCHANGED work
    BY <1>2, FaultIsBounded DEF TypeOK, work
<1> QED  BY <1>1, <1>2 DEF Pop

LEMMA StepKeepsTypes == TypeInv /\ [Next]_vars => TypeInv'
<1> SUFFICES ASSUME TypeInv, [Next]_vars PROVE TypeInv'
    OBVIOUS
<1> USE DEF TypeInv
<1>1. CASE Stage
    <2>1. cmd' = cmd /\ OwnPhases' /\ pc' \in DOMAIN AmendNext \cup {"done", "failed"}
        BY <1>1, ProceedStays DEF Stage, At, OwnPhases, AmendNext
    <2> QED  BY <1>1, <2>1, RequestParts DEF Stage, work, TypeOK, Tips, Where
<1>2. CASE CommitFixup
    <2>1. cmd' = cmd /\ pc \notin {"done", "failed"}
        BY <1>2 DEF CommitFixup, At
    <2>2. OwnPhases' /\ pc' \in DOMAIN AmendNext \cup {"done", "failed"}
        <3>1. CASE index = {} \/ cmd.dry_run
            BY <1>2, <2>1, <3>1
               DEF CommitFixup, At, OwnPhases, AmendNext, RewordNext, SyncNext
        <3>2. CASE ~(index = {} \/ cmd.dry_run)
            BY <1>2, <2>1, <3>2, ProceedStays DEF CommitFixup
        <3> QED  BY <3>1, <3>2
    <2> QED  BY <1>2, <2>1, <2>2 DEF CommitFixup, work, TypeOK
<1>3. CASE DetachHead
    <2>1. cmd' = cmd /\ OwnPhases' /\ pc' \in DOMAIN AmendNext \cup {"done", "failed"}
        BY <1>3, ProceedStays DEF DetachHead, At, OwnPhases, AmendNext
    <2> QED  BY <1>3, <2>1, RequestParts DEF DetachHead, work, TypeOK, Tips, Where
<1>4. CASE EndMoves
    <2>1. cmd' = cmd /\ OwnPhases' /\ pc' \in DOMAIN AmendNext \cup {"done", "failed"}
        BY <1>4, ProceedStays DEF EndMoves, At, OwnPhases, AmendNext
    <2> QED  BY <1>4, <2>1, RequestParts DEF EndMoves, work, TypeOK, Tips, Where
<1>5. CASE SwitchToFixup
    <2>1. cmd' = cmd /\ OwnPhases' /\ pc' \in DOMAIN AmendNext \cup {"done", "failed"}
        BY <1>5, ProceedStays DEF SwitchToFixup, At, OwnPhases, AmendNext
    <2> QED  BY <1>5, <2>1, RequestParts DEF SwitchToFixup, work, TypeOK, Tips, Where
<1>6. CASE Update
    <2>1. cmd' = cmd /\ OwnPhases' /\ pc' \in DOMAIN AmendNext \cup {"done", "failed"}
        BY <1>6, ProceedStays DEF Update, At, OwnPhases, AmendNext
    <2> QED  BY <1>6, <2>1, RequestParts DEF Update, work, TypeOK, Tips, Where
<1>7. CASE BackUp
    <2>1. cmd' = cmd /\ OwnPhases' /\ pc' \in DOMAIN AmendNext \cup {"done", "failed"}
        BY <1>7, ProceedStays DEF BackUp, At, OwnPhases, AmendNext
    <2> QED  BY <1>7, <2>1, RequestParts DEF BackUp, work, TypeOK, Tips, Where
<1>8. CASE EditAborts
    <2>1. cmd' = cmd /\ OwnPhases' /\ pc' \in DOMAIN AmendNext \cup {"done", "failed"}
        BY <1>8, ProceedStays DEF EditAborts, At, OwnPhases, AmendNext
    <2> QED  BY <1>8, <2>1, RequestParts DEF EditAborts, work, TypeOK, Tips, Where
<1>9. CASE Plan
    <2>1. cmd' = cmd /\ OwnPhases' /\ pc' \in DOMAIN AmendNext \cup {"done", "failed"}
        BY <1>9, ProceedStays DEF Plan, At, OwnPhases, AmendNext
    <2> QED  BY <1>9, <2>1, RequestParts DEF Plan, work, TypeOK, Tips, Where
<1>10. CASE Refuse
    <2>1. cmd' = cmd /\ OwnPhases' /\ pc' \in DOMAIN AmendNext \cup {"done", "failed"}
        BY <1>10, ProceedStays DEF Refuse, At, OwnPhases, AmendNext
    <2> QED  BY <1>10, <2>1, RequestParts DEF Refuse, work, TypeOK, Tips, Where
<1>11. CASE Save
    <2>1. cmd' = cmd /\ OwnPhases' /\ pc' \in DOMAIN AmendNext \cup {"done", "failed"}
        BY <1>11, ProceedStays DEF Save, At, OwnPhases, AmendNext
    <2> QED  BY <1>11, <2>1, PushKeepsTypes DEF Save, TypeOK
<1>12. CASE Restore
    <2>1. cmd' = cmd /\ OwnPhases' /\ pc' \in DOMAIN AmendNext \cup {"done", "failed"}
        BY <1>12, ProceedStays DEF Restore, At, OwnPhases, AmendNext
    <2> QED  BY <1>12, <2>1, PopKeepsTypes DEF Restore, TypeOK
<1>13. CASE PopWork
    <2>1. cmd' = cmd /\ OwnPhases' /\ pc' \in DOMAIN AmendNext \cup {"done", "failed"}
        BY <1>13, ProceedStays DEF PopWork, At, OwnPhases, AmendNext
    <2> QED  BY <1>13, <2>1, PopKeepsTypes DEF PopWork, TypeOK
<1>14. CASE Stash
    <2>1. cmd' = cmd /\ OwnPhases' /\ pc' \in DOMAIN AmendNext \cup {"done", "failed"}
        BY <1>14, ProceedStays DEF Stash, At, OwnPhases, AmendNext
    <2>2. CASE cmd.dry_run
        BY <1>14, <2>1, <2>2 DEF Stash, work, TypeOK
    <2>3. CASE ~cmd.dry_run
        BY <1>14, <2>1, <2>3, PushKeepsTypes DEF Stash, TypeOK
    <2> QED  BY <2>2, <2>3
<1>15. ASSUME NEW b \in Branch, MoveToFixup(b) PROVE TypeInv'
    BY <1>15 DEF MoveToFixup, work, TypeOK, Tips, Where, OwnPhases
<1>16. ASSUME NEW b \in Branch, Restack(b) PROVE TypeInv'
    BY <1>16 DEF Restack, work, TypeOK, Tips, Where, OwnPhases
<1>17. ASSUME NEW changed \in BOOLEAN, EditMessage(changed) PROVE TypeInv'
    <2>1. cmd' = cmd /\ OwnPhases' /\ pc' \in DOMAIN AmendNext \cup {"done", "failed"}
        BY <1>17, ProceedStays DEF EditMessage, At, OwnPhases, AmendNext
    <2> QED  BY <1>17, <2>1 DEF EditMessage, work, TypeOK
<1>18. CASE EndRestack
    <2>1. cmd' = cmd /\ OwnPhases' /\ pc' \in DOMAIN AmendNext \cup {"done", "failed"}
        BY <1>18, ProceedStays DEF EndRestack, At, OwnPhases, AmendNext
    <2>2. faults' \in 0..MaxFaults
        BY <1>18, FaultIsBounded DEF EndRestack, TypeOK
    <2> QED  BY <1>18, <2>1, <2>2 DEF EndRestack, work, TypeOK
<1>19. ASSUME NEW place \in Where, NEW same \in BOOLEAN, Close(place, same)
       PROVE  TypeInv'
    <2>1. cmd' = cmd /\ OwnPhases' /\ pc' \in DOMAIN AmendNext \cup {"done", "failed"}
        BY <1>19, ProceedStays DEF Close, At, OwnPhases, AmendNext
    <2> QED  BY <1>19, <2>1, RequestParts DEF Close, TypeOK, Where
<1>20. CASE GitFails
    <2>1. faults' \in 0..MaxFaults
        BY <1>20, FaultIsBounded DEF GitFails, TypeOK
    <2> QED  BY <1>20, <2>1 DEF GitFails, work, TypeOK, OwnPhases
<1>22. CASE DetachToRestack
    BY <1>22 DEF DetachToRestack, work, TypeOK, Where, OwnPhases
<1>23. CASE NothingToClose
    <2>1. cmd' = cmd /\ OwnPhases' /\ pc' \in DOMAIN AmendNext \cup {"done", "failed"}
        BY <1>23, ProceedStays DEF NothingToClose, At, OwnPhases, AmendNext
    <2> QED  BY <1>23, <2>1 DEF NothingToClose, work, TypeOK
<1>24. ASSUME NEW place \in Where, CheckoutFails(place) PROVE TypeInv'
    <2>1. faults' \in 0..MaxFaults
        BY <1>24, FaultIsBounded DEF CheckoutFails, TypeOK
    <2> QED  BY <1>24, <2>1, RequestParts DEF CheckoutFails, work, TypeOK, OwnPhases
<1>21. CASE UNCHANGED vars
    BY <1>21 DEF vars, TypeOK, OwnPhases
<1> QED
    BY <1>1, <1>2, <1>3, <1>4, <1>5, <1>6, <1>7, <1>8, <1>9, <1>10, <1>11,
       <1>12, <1>13, <1>14, <1>15, <1>16, <1>17, <1>18, <1>19, <1>20, <1>21,
       <1>22, <1>23, <1>24
       DEF Next, Ended

\* The types of a session hold throughout it.
THEOREM SessionTypesHold == Spec => []TypeOK
<1>1. TypeInv => TypeOK
    BY DEF TypeInv
<1> QED  BY InitHasTypes, StepKeepsTypes, <1>1, PTL DEF Spec

-----------------------------------------------------------------------------
(***************************************************************************)
(* Work that is kept.  Git overwrites the files in `switch' and `close':   *)
(* by then whatever was uncommitted has to be somewhere else, and what was *)
(* committed as the fixup has to be reachable before its edits leave the   *)
(* stash.                                                                  *)
(***************************************************************************)
Clean == index = {} /\ files = {}

\* The phases between git's stash taking the work and giving it back.
AfterStash ==
    [amend |-> {"plan", "restack", "close"},
     reword |-> {"backup", "restack", "close"},
     sync |-> {"backup", "update", "plan", "restack", "close"}]

NothingCommittedYet ==
    cmd.command = "amend" /\ pc \in {"stage", "commit"} => fixup = {}

SavedForTheFixup ==
    ~unsaved /\ pc \in {"detach", "move", "switch"} => Clean

SavedForTheRestack ==
    ~unsaved /\ ~cmd.dry_run /\ pc \in AfterStash[cmd.command] => Clean

\* Every branch at HEAD is moved before HEAD is, and nothing goes back.
BranchesAreMoved ==
    pc = "switch" => \A b \in cmd.at_head : tip[b] # "old"

FixupIsPlaced ==
    \/ cmd.dry_run \/ fixup = {}
    \/ pc \in {"save", "detach", "move", "switch", "failed"}
    \/ head.at # "old" /\ \A b \in cmd.at_head : tip[b] # "old"

KeptInv ==
    /\ TypeInv
    /\ NothingCommittedYet
    /\ SavedForTheFixup
    /\ SavedForTheRestack
    /\ BranchesAreMoved
    /\ FixupIsPlaced
    /\ WorkIsKept

-----------------------------------------------------------------------------
(***************************************************************************)
(* The parts of KeptInv that WorkIsKept rests on.                          *)
(***************************************************************************)
LEMMA NothingCommittedYetStays ==
    TypeInv /\ NothingCommittedYet /\ [Next]_vars => NothingCommittedYet'
<1> SUFFICES ASSUME TypeInv, NothingCommittedYet, [Next]_vars
             PROVE  NothingCommittedYet'
    OBVIOUS
<1>1. CASE Stage
    BY <1>1 DEF Stage, At, Proceed, AmendNext, NothingCommittedYet
<1> QED
    BY <1>1 DEF TypeInv, OwnPhases, NothingCommittedYet, Next, vars, At, Proceed,
       AmendNext, RewordNext, SyncNext, Ended,
       CommitFixup, Save, DetachHead, MoveToFixup, EndMoves, SwitchToFixup,
       Restore, Update, BackUp, EditMessage, EditAborts, Stash, Plan, Refuse,
       DetachToRestack, Restack, EndRestack, Close, NothingToClose, PopWork,
       GitFails, CheckoutFails

\* A push leaves the working directory clean, or is known to have failed.
LEMMA PushCleans ==
    ASSUME NEW id, Push(id), ~unsaved'
    PROVE  Clean'
BY DEF Push, Clean, work

LEMMA SavedForTheFixupStays ==
    TypeInv /\ SavedForTheFixup /\ [Next]_vars => SavedForTheFixup'
<1> SUFFICES ASSUME TypeInv, SavedForTheFixup, [Next]_vars
             PROVE  SavedForTheFixup'
    OBVIOUS
<1>1. CASE Save
    BY <1>1, PushCleans DEF Save, SavedForTheFixup
<1>2. CASE DetachHead \/ EndMoves \/ \E b \in Branch : MoveToFixup(b)
    BY <1>2 DEF DetachHead, EndMoves, MoveToFixup, At, work, Clean,
       SavedForTheFixup
<1> QED
    BY <1>1, <1>2 DEF TypeInv, OwnPhases, SavedForTheFixup, Clean, work, Next,
       vars, At, Proceed, AmendNext, RewordNext, SyncNext, Ended,
       Stage, CommitFixup, SwitchToFixup, Restore, Update, BackUp, EditMessage,
       EditAborts, Stash, Plan, Refuse, DetachToRestack, Restack, EndRestack,
       Close, NothingToClose, PopWork, GitFails, CheckoutFails

LEMMA SavedForTheRestackStays ==
    TypeInv /\ SavedForTheRestack /\ [Next]_vars => SavedForTheRestack'
<1> SUFFICES ASSUME TypeInv, SavedForTheRestack, [Next]_vars
             PROVE  SavedForTheRestack'
    OBVIOUS
<1>1. CASE Stash
    BY <1>1, PushCleans DEF Stash, SavedForTheRestack
<1>2. CASE Plan \/ Update \/ BackUp \/ EndRestack \/ DetachToRestack
           \/ \E b \in Branch : Restack(b)
    BY <1>2 DEF Plan, Update, BackUp, EndRestack, DetachToRestack, Restack, At,
       Proceed, AmendNext, RewordNext, SyncNext, work, Clean, AfterStash,
       SavedForTheRestack, TypeInv, OwnPhases
<1> QED
    BY <1>1, <1>2 DEF TypeInv, OwnPhases, SavedForTheRestack, AfterStash, Clean,
       work, Next, vars, At, Proceed, AmendNext, RewordNext, SyncNext, Ended,
       Stage, CommitFixup, Save, DetachHead, MoveToFixup, EndMoves,
       SwitchToFixup, Restore, EditMessage, EditAborts, Refuse, Close,
       NothingToClose, PopWork, GitFails, CheckoutFails

LEMMA BranchesAreMovedStays ==
    TypeInv /\ BranchesAreMoved /\ [Next]_vars => BranchesAreMoved'
<1> SUFFICES ASSUME TypeInv, BranchesAreMoved, [Next]_vars
             PROVE  BranchesAreMoved'
    OBVIOUS
<1>1. CASE EndMoves
    BY <1>1 DEF EndMoves, BranchesAreMoved
<1> QED
    BY <1>1 DEF TypeInv, OwnPhases, BranchesAreMoved, Next, vars, At, Proceed,
       AmendNext, RewordNext, SyncNext, Ended,
       Stage, CommitFixup, Save, DetachHead, MoveToFixup, SwitchToFixup,
       Restore, Update, BackUp, EditMessage, EditAborts, Stash, Plan, Refuse,
       DetachToRestack, Restack, EndRestack, Close, NothingToClose, PopWork,
       GitFails, CheckoutFails

\* Once HEAD and its branches have left the old commit, they stay away from it.
LEMMA FixupIsPlacedStays ==
    TypeInv /\ NothingCommittedYet /\ BranchesAreMoved /\ FixupIsPlaced
        /\ [Next]_vars => FixupIsPlaced'
<1> SUFFICES ASSUME TypeInv, NothingCommittedYet, BranchesAreMoved,
                    FixupIsPlaced, [Next]_vars
             PROVE  FixupIsPlaced'
    OBVIOUS
<1> USE DEF FixupIsPlaced, At
<1>1. CASE CommitFixup
    BY <1>1 DEF CommitFixup, Proceed, AmendNext, RewordNext, SyncNext, TypeInv,
       OwnPhases
<1>2. CASE SwitchToFixup
    BY <1>2 DEF SwitchToFixup, BranchesAreMoved
<1>3. ASSUME NEW b \in Branch, Restack(b) PROVE FixupIsPlaced'
    BY <1>3, RequestParts DEF Restack, TypeInv, TypeOK, Tips
<1>4. ASSUME NEW b \in Branch, MoveToFixup(b) PROVE FixupIsPlaced'
    BY <1>4 DEF MoveToFixup
<1>5. ASSUME NEW place, NEW same, Close(place, same) PROVE FixupIsPlaced'
    BY <1>5 DEF Close, Places
<1>6. ASSUME NEW place, CheckoutFails(place) PROVE FixupIsPlaced'
    BY <1>6 DEF CheckoutFails
<1>7. CASE DetachHead \/ EndMoves \/ Save
    BY <1>7 DEF DetachHead, EndMoves, Save, Proceed, AmendNext, RewordNext,
       SyncNext, TypeInv, OwnPhases
<1>8. CASE Stage
    BY <1>8 DEF Stage, NothingCommittedYet, TypeInv, OwnPhases, RewordNext,
       SyncNext
<1>9. CASE DetachToRestack
    BY <1>9 DEF DetachToRestack, TypeInv, TypeOK
<1> QED
    BY <1>1, <1>2, <1>3, <1>4, <1>5, <1>6, <1>7, <1>8, <1>9 DEF Next, vars,
       Ended, Restore, Update, BackUp, EditMessage, EditAborts, Stash, Plan,
       Refuse, EndRestack, NothingToClose, PopWork, GitFails

-----------------------------------------------------------------------------
(***************************************************************************)
(* The work itself, edit by edit.                                          *)
(***************************************************************************)
Safe(e) ==
    \/ e \in index \/ e \in files
    \/ \E entry \in stash : e \in entry.edits
    \/ e \in fixup /\ FixupIsReachable

LEMMA KeptIsSafe == WorkIsKept <=> (~unsaved => \A e \in Uncommitted : Safe(e))
<1>1. ASSUME NEW e PROVE e \in Kept <=> Safe(e)
    <2> DEFINE stashed == UNION {entry.edits : entry \in stash}
    <2>1. e \in stashed <=> \E entry \in stash : e \in entry.edits
        BY Zenon
    <2>2. Kept = index \cup files \cup stashed
                     \cup (IF FixupIsReachable THEN fixup ELSE {})
        BY DEF Kept
    <2> HIDE DEF stashed
    <2> QED  BY <2>1, <2>2 DEF Safe
<1> QED  BY <1>1 DEF WorkIsKept

LEMMA KeptIsSafeNext ==
    (WorkIsKept <=> (~unsaved => \A e \in Uncommitted : Safe(e)))'
BY KeptIsSafe, PTL

\* The work survives a step that leaves every edit that was safe safe.
LEMMA SafeStep ==
    ASSUME WorkIsKept, cmd' = cmd, unsaved => unsaved',
           ~unsaved' => \A e \in Uncommitted : Safe(e) => Safe(e)'
    PROVE  WorkIsKept'
<1>1. Uncommitted' = Uncommitted
    BY DEF Uncommitted
<1>2. ~unsaved' => \A e \in Uncommitted' : Safe(e)'
    BY <1>1, KeptIsSafe
<1> QED  BY <1>2, KeptIsSafeNext

\* In particular one that moves no edits and takes HEAD and the branches no
\* further back.
LEMMA IdleStep ==
    ASSUME WorkIsKept, UNCHANGED <<cmd, work, fixup>>,
           fixup # {} /\ FixupIsReachable => FixupIsReachable'
    PROVE  WorkIsKept'
<1>1. unsaved' = unsaved /\ \A e : Safe(e) => Safe(e)'
    BY DEF Safe, work
<1> QED  BY <1>1, SafeStep

LEMMA PushKeepsWork ==
    ASSUME WorkIsKept, NEW id, Push(id), UNCHANGED <<cmd, fixup, tip, head>>
    PROVE  WorkIsKept'
<1>0. FixupIsReachable' = FixupIsReachable
    BY DEF FixupIsReachable
<1>1. CASE UNCHANGED work
    BY <1>0, <1>1, IdleStep DEF work
<1>2. CASE /\ stash' = stash \cup {[id |-> id, edits |-> index \cup files]}
           /\ index' = {} /\ files' = {}
           /\ UNCHANGED <<unsaved, faults>>
    <2> DEFINE entry == [id |-> id, edits |-> index \cup files]
    <2>1. entry \in stash' /\ stash \subseteq stash'
        BY <1>2
    <2>2. ASSUME NEW e, Safe(e) PROVE Safe(e)'
        <3>1. CASE e \in index \/ e \in files
            <4>1. e \in entry.edits
                BY <3>1
            <4> QED  BY <2>1, <4>1 DEF Safe
        <3>2. CASE \E old \in stash : e \in old.edits
            BY <2>1, <3>2 DEF Safe
        <3>3. CASE e \in fixup /\ FixupIsReachable
            BY <1>0, <3>3 DEF Safe
        <3> QED  BY <2>2, <3>1, <3>2, <3>3 DEF Safe
    <2> QED  BY <1>2, <2>2, SafeStep
<1>3. CASE unsaved' = TRUE
    BY <1>3 DEF WorkIsKept
<1> QED  BY <1>1, <1>2, <1>3 DEF Push, work

\* What a pop does not put back is in a fixup that is reachable by then.
LEMMA PopKeepsWork ==
    ASSUME WorkIsKept, NEW id, Pop(id), UNCHANGED <<cmd, fixup, tip, head>>,
           cmd.dry_run \/ fixup = {} \/ FixupIsReachable
    PROVE  WorkIsKept'
<1>0. FixupIsReachable' = FixupIsReachable
    BY DEF FixupIsReachable
<1> DEFINE entries == {e \in stash : e.id = id}
           committed == IF cmd.dry_run THEN {} ELSE fixup
           returned == UNION {e.edits : e \in entries}
<1>1. CASE UNCHANGED work
    BY <1>0, <1>1, IdleStep DEF work
<1>2. CASE /\ stash' = stash \ entries
           /\ files' = files \cup (returned \ committed)
           /\ UNCHANGED <<index, unsaved, faults>>
    <2>1. ASSUME NEW e, Safe(e) PROVE Safe(e)'
        <3>1. CASE e \in index \/ e \in files \/ (e \in fixup /\ FixupIsReachable)
            BY <1>0, <1>2, <3>1 DEF Safe
        <3>2. CASE \E entry \in stash : e \in entry.edits
            <4>1. PICK entry \in stash : e \in entry.edits
                BY <3>2
            <4>2. CASE entry.id # id
                <5>1. entry \in stash'
                    BY <1>2, <4>1, <4>2
                <5> QED  BY <4>1, <5>1 DEF Safe
            <4>3. CASE entry.id = id
                <5>1. e \in returned
                    BY <4>1, <4>3, Zenon
                <5>2. CASE e \in committed
                    BY <1>0, <5>2 DEF Safe
                <5> HIDE DEF committed, returned
                <5>3. CASE e \notin committed
                    <6>1. e \in files'
                        BY <1>2, <5>1, <5>3
                    <6> QED  BY <6>1 DEF Safe
                <5> QED  BY <5>2, <5>3
            <4> QED  BY <4>2, <4>3
        <3> QED  BY <2>1, <3>1, <3>2 DEF Safe
    <2> QED  BY <1>2, <2>1, SafeStep
<1> QED  BY <1>1, <1>2 DEF Pop

-----------------------------------------------------------------------------
LEMMA WorkIsKeptStep == KeptInv /\ [Next]_vars => WorkIsKept'
<1> SUFFICES ASSUME KeptInv, [Next]_vars PROVE WorkIsKept'
    OBVIOUS
<1>1. WorkIsKept /\ TypeOK
    BY DEF KeptInv, TypeInv
<1>2. CASE Stage
    <2>1. \A e : Safe(e) => Safe(e)'
        BY <1>2 DEF Stage, Safe, FixupIsReachable
    <2> QED  BY <1>1, <1>2, <2>1, SafeStep DEF Stage
<1>3. CASE CommitFixup
    <2>1. fixup = {}
        BY <1>3 DEF CommitFixup, At, KeptInv, TypeInv, OwnPhases, RewordNext,
           SyncNext, NothingCommittedYet
    <2>2. \A e : Safe(e) => Safe(e)'
        BY <1>3, <2>1 DEF CommitFixup, Safe, work
    <2> QED  BY <1>1, <1>3, <2>2, SafeStep DEF CommitFixup, work
<1>4. CASE Save
    BY <1>1, <1>4, PushKeepsWork DEF Save
<1>5. CASE SwitchToFixup
    <2>1. ~unsaved => Clean
        BY <1>5 DEF SwitchToFixup, At, KeptInv, SavedForTheFixup
    <2>2. FixupIsReachable'
        BY <1>5 DEF SwitchToFixup, FixupIsReachable
    <2>3. ~unsaved => \A e : Safe(e) => Safe(e)'
        BY <1>5, <2>1, <2>2 DEF SwitchToFixup, Clean, Safe
    <2> QED  BY <1>1, <1>5, <2>3, SafeStep DEF SwitchToFixup
<1>6. CASE Restore
    <2>1. cmd.dry_run \/ fixup = {} \/ FixupIsReachable
        BY <1>6 DEF Restore, At, KeptInv, FixupIsPlaced, FixupIsReachable
    <2> QED  BY <1>1, <1>6, <2>1, PopKeepsWork DEF Restore
<1>7. CASE Stash
    <2>1. CASE cmd.dry_run
        BY <1>1, <1>7, <2>1, IdleStep DEF Stash, FixupIsReachable
    <2>2. CASE ~cmd.dry_run
        BY <1>1, <1>7, <2>2, PushKeepsWork DEF Stash
    <2> QED  BY <2>1, <2>2
<1>8. ASSUME NEW place, NEW same, Close(place, same) PROVE WorkIsKept'
    <2>1. ~unsaved => Clean
        BY <1>8 DEF Close, At, AfterStash, KeptInv, TypeInv, OwnPhases,
           SavedForTheRestack
    <2>2. fixup = {} \/ FixupIsReachable'
        BY <1>8 DEF Close, At, Places, KeptInv, FixupIsPlaced, FixupIsReachable
    <2>3. ~unsaved => \A e : Safe(e) => Safe(e)'
        BY <1>8, <2>1, <2>2 DEF Close, Clean, Safe
    <2> QED  BY <1>1, <1>8, <2>3, SafeStep DEF Close
<1>9. CASE PopWork
    <2>1. cmd.dry_run \/ fixup = {} \/ FixupIsReachable
        BY <1>9 DEF PopWork, At, KeptInv, FixupIsPlaced, FixupIsReachable
    <2> QED  BY <1>1, <1>9, <2>1, PopKeepsWork DEF PopWork
<1>10. ASSUME NEW b \in Branch, MoveToFixup(b) \/ Restack(b)
       PROVE  WorkIsKept'
    <2>1. FixupIsReachable => FixupIsReachable'
        BY <1>1, <1>10, RequestParts
           DEF MoveToFixup, Restack, FixupIsReachable, TypeOK, Tips, KeptInv,
           TypeInv
    <2> QED  BY <1>1, <1>10, <2>1, IdleStep DEF MoveToFixup, Restack
<1>11. ASSUME NEW place, CheckoutFails(place) PROVE WorkIsKept'
    <2>1. fixup # {} /\ FixupIsReachable => FixupIsReachable'
        BY <1>11 DEF CheckoutFails, At, Places, KeptInv, FixupIsPlaced,
           FixupIsReachable
    <2> QED  BY <1>1, <1>11, <2>1, IdleStep DEF CheckoutFails
<1>12. CASE DetachHead \/ DetachToRestack
    <2>1. FixupIsReachable' = FixupIsReachable
        BY <1>1, <1>12
           DEF DetachHead, DetachToRestack, TypeOK, FixupIsReachable
    <2> QED  BY <1>1, <1>12, <2>1, IdleStep DEF DetachHead, DetachToRestack
<1>13. CASE UNCHANGED <<cmd, work, fixup, tip, head>>
    BY <1>1, <1>13, IdleStep DEF FixupIsReachable
<1> QED
    BY <1>2, <1>3, <1>4, <1>5, <1>6, <1>7, <1>8, <1>9, <1>10, <1>11, <1>12,
       <1>13
       DEF Next, vars, work, Ended, EndMoves, Update, BackUp, EditMessage,
       EditAborts, Plan, Refuse, EndRestack, NothingToClose, GitFails

LEMMA InitKeepsWork == Init => KeptInv
<1> SUFFICES ASSUME Init PROVE KeptInv
    OBVIOUS
<1>1. TypeInv
    BY InitHasTypes
<1>2. pc \in {"stage", "edit", "stash"} /\ fixup = {}
    BY <1>1 DEF Init, FirstPhase, TypeInv, Request
<1>3. \A e \in Uncommitted : Safe(e)
    BY DEF Init, Uncommitted, Safe
<1>4. WorkIsKept
    BY <1>3, KeptIsSafe
<1> QED
    BY <1>1, <1>2, <1>4, RequestParts
       DEF KeptInv, NothingCommittedYet, SavedForTheFixup, SavedForTheRestack,
       AfterStash, BranchesAreMoved, FixupIsPlaced, TypeInv

\* Wherever the command is stopped, and whatever git refuses, what the user had
\* not committed is in the files, on the stash, or in a reachable commit.
THEOREM WorkSurvives == Spec => []WorkIsKept
<1>1. KeptInv /\ [Next]_vars => KeptInv'
    BY StepKeepsTypes, NothingCommittedYetStays, SavedForTheFixupStays,
       SavedForTheRestackStays, BranchesAreMovedStays, FixupIsPlacedStays,
       WorkIsKeptStep DEF KeptInv
<1>2. KeptInv => WorkIsKept
    BY DEF KeptInv
<1> QED  BY InitKeepsWork, <1>1, <1>2, PTL DEF Spec

-----------------------------------------------------------------------------
(***************************************************************************)
(* A restack that can be undone: the snapshot is taken before the first    *)
(* branch is restacked, and is not touched after that.                     *)
(***************************************************************************)
AfterBackup ==
    [amend |-> {"edit", "stash", "plan", "restack"},
     reword |-> {"restack"},
     sync |-> {"update", "plan", "restack"}]

NothingRestackedYet ==
    pc \notin {"restack", "close", "pop", "done", "failed"} =>
        \A b \in Branch : tip[b] # "new"

BackedUp ==
    ~cmd.dry_run /\ pc \in AfterBackup[cmd.command] =>
        DOMAIN backup = Branch /\ \A b \in Branch : backup[b] # "new"

UndoInv ==
    TypeInv /\ NothingRestackedYet /\ BackedUp /\ RestackCanBeUndone

LEMMA NothingRestackedYetStays ==
    TypeInv /\ NothingRestackedYet /\ [Next]_vars => NothingRestackedYet'
<1> SUFFICES ASSUME TypeInv, NothingRestackedYet, [Next]_vars
             PROVE  NothingRestackedYet'
    OBVIOUS
<1> USE DEF NothingRestackedYet, At
<1>1. ASSUME NEW b \in Branch, MoveToFixup(b) PROVE NothingRestackedYet'
    BY <1>1 DEF MoveToFixup, TypeInv, TypeOK, Tips
<1>2. ASSUME NEW b \in Branch, Restack(b) PROVE NothingRestackedYet'
    BY <1>2 DEF Restack
<1>3. CASE EndRestack \/ NothingToClose \/ PopWork
           \/ \E place \in Where, same \in BOOLEAN : Close(place, same)
    BY <1>3 DEF EndRestack, NothingToClose, PopWork, Close, Proceed, AmendNext,
       RewordNext, SyncNext, TypeInv, OwnPhases
<1> QED
    BY <1>1, <1>2, <1>3 DEF Next, vars, Ended,
       Stage, CommitFixup, Save, DetachHead, EndMoves, SwitchToFixup, Restore,
       Update, BackUp, EditMessage, EditAborts, Stash, Plan, Refuse,
       DetachToRestack, GitFails, CheckoutFails

LEMMA BackedUpStays ==
    TypeInv /\ NothingRestackedYet /\ BackedUp /\ [Next]_vars => BackedUp'
<1> SUFFICES ASSUME TypeInv, NothingRestackedYet, BackedUp, [Next]_vars
             PROVE  BackedUp'
    OBVIOUS
<1>1. CASE BackUp
    BY <1>1 DEF BackUp, At, NothingRestackedYet, BackedUp, TypeInv, TypeOK, Tips
<1>2. CASE UNCHANGED <<cmd, backup>>
    <2>1. CASE pc' = pc \/ pc' = "failed"
        BY <1>2, <2>1 DEF BackedUp, AfterBackup, TypeInv, Request
    <2>2. CASE ~BackUp /\ Proceed
        BY <1>2, <2>2 DEF BackedUp, AfterBackup, Proceed, TypeInv, OwnPhases,
           AmendNext, RewordNext, SyncNext, Next, vars, At, Ended,
           Stage, CommitFixup, Save, DetachHead, MoveToFixup, EndMoves,
           SwitchToFixup, Restore, Update, EditMessage, EditAborts, Stash,
           Plan, Refuse, DetachToRestack, Restack, EndRestack, Close,
           NothingToClose, PopWork, GitFails, CheckoutFails
    <2>3. CASE CommitFixup /\ pc' = "update"
        BY <1>2, <2>3 DEF CommitFixup, At, BackedUp, AfterBackup, TypeInv,
           OwnPhases, RewordNext, SyncNext
    <2> QED
        BY <1>1, <2>1, <2>2, <2>3 DEF Next, vars, Ended,
           Stage, CommitFixup, Save, DetachHead, MoveToFixup, EndMoves,
           SwitchToFixup, Restore, Update, EditMessage, EditAborts, Stash,
           Plan, Refuse, DetachToRestack, Restack, EndRestack, Close,
           NothingToClose, PopWork, GitFails, CheckoutFails
<1> QED
    BY <1>1, <1>2 DEF Next, vars, Ended,
       Stage, CommitFixup, Save, DetachHead, MoveToFixup, EndMoves,
       SwitchToFixup, Restore, Update, EditMessage, EditAborts, Stash,
       Plan, Refuse, DetachToRestack, Restack, EndRestack, Close,
       NothingToClose, PopWork, GitFails, CheckoutFails

LEMMA UndoStep ==
    UndoInv /\ [Next]_vars => RestackCanBeUndone'
<1> SUFFICES ASSUME UndoInv, [Next]_vars PROVE RestackCanBeUndone'
    OBVIOUS
<1> USE DEF UndoInv, RestackCanBeUndone
<1>1. ASSUME NEW b \in Branch, MoveToFixup(b) PROVE RestackCanBeUndone'
    BY <1>1 DEF MoveToFixup, TypeInv, TypeOK, Tips
<1>2. ASSUME NEW b \in Branch, Restack(b) PROVE RestackCanBeUndone'
    BY <1>2 DEF Restack, At, BackedUp, AfterBackup, TypeInv, TypeOK, Tips,
       OwnPhases
<1>3. CASE BackUp
    BY <1>3 DEF BackUp, At, NothingRestackedYet
<1> QED
    BY <1>1, <1>2, <1>3 DEF Next, vars, Ended,
       Stage, CommitFixup, Save, DetachHead, EndMoves, SwitchToFixup, Restore,
       Update, EditMessage, EditAborts, Stash, Plan, Refuse, DetachToRestack,
       EndRestack, Close, NothingToClose, PopWork, GitFails, CheckoutFails

\* Whatever fails on the way, a branch that was restacked is in the snapshot,
\* where it was before it was restacked.
THEOREM RestackIsBackedUp == Spec => []RestackCanBeUndone
<1>1. Init => UndoInv
    <2> SUFFICES ASSUME Init PROVE UndoInv
        OBVIOUS
    <2>1. TypeInv /\ pc \in {"stage", "edit", "stash"}
        BY InitHasTypes DEF Init, FirstPhase, Request
    <2>2. \A b \in Branch : tip[b] # "new"
        BY DEF Init
    <2>3. BackedUp
        BY <2>1 DEF Init, FirstPhase, BackedUp, AfterBackup, TypeInv, Request
    <2> QED  BY <2>1, <2>2, <2>3
                DEF UndoInv, NothingRestackedYet, RestackCanBeUndone
<1>2. UndoInv /\ [Next]_vars => UndoInv'
    BY StepKeepsTypes, NothingRestackedYetStays, BackedUpStays, UndoStep
       DEF UndoInv
<1>3. UndoInv => RestackCanBeUndone
    BY DEF UndoInv
<1> QED  BY <1>1, <1>2, <1>3, PTL DEF Spec

-----------------------------------------------------------------------------
(***************************************************************************)
(* Work that comes back.  As long as git never fails it is known in every  *)
(* phase where the work is: down in the index and the files, or lifted     *)
(* onto the stash, under the name that will be popped.                     *)
(***************************************************************************)
Committed == IF cmd.dry_run THEN {} ELSE fixup

Down(edits) == stash = {} /\ index \cup files = edits

Lifted(id, edits) ==
    /\ Clean
    /\ \A e \in stash : e.id = id
    /\ UNION {e.edits : e \in stash} = edits

ForTheFixup == pc \in {"detach", "move", "switch", "restore"}
ForTheRestack ==
    ~cmd.dry_run /\ pc \in AfterStash[cmd.command] \cup {"pop"}

WorkIsInPlace ==
    /\ At("save") => ~cmd.dry_run /\ Down(Uncommitted)
    /\ ForTheFixup => ~cmd.dry_run /\ Lifted("fixup", Uncommitted)
    /\ ForTheRestack => Lifted("command", Uncommitted \ Committed)
    /\ ~(At("save") \/ ForTheFixup \/ ForTheRestack \/ At("failed"))
         => Down(Uncommitted \ Committed)

ReturnInv ==
    /\ TypeInv
    /\ NothingCommittedYet
    /\ faults = 0 => WorkIsInPlace

-----------------------------------------------------------------------------
(***************************************************************************)
(* What lifts the work and sets it down again.                             *)
(***************************************************************************)
LEMMA NoFaultBefore ==
    ASSUME TypeOK, Next \/ UNCHANGED vars, faults' = 0
    PROVE  faults = 0
BY FaultBound DEF TypeOK, Next, vars, Ended, Fault, Push, Pop, work,
   Stage, CommitFixup, Save, DetachHead, MoveToFixup, EndMoves, SwitchToFixup,
   Restore, Update, BackUp, EditMessage, EditAborts, Stash, Plan, Refuse,
   DetachToRestack, Restack, EndRestack, Close, NothingToClose, PopWork,
   GitFails, CheckoutFails

LEMMA FaultCounts ==
    ASSUME faults = 0, Fault
    PROVE  faults' # 0
BY DEF Fault

LEMMA PushLifts ==
    ASSUME NEW id, NEW edits, Down(edits), Push(id), faults = 0, faults' = 0
    PROVE  Clean' /\ (\A e \in stash' : e.id = id)
           /\ UNION {e.edits : e \in stash'} = edits
<1>1. CASE index \cup files = {} /\ UNCHANGED work
    BY <1>1 DEF Down, Clean, work
<1>2. CASE /\ stash' = stash \cup {[id |-> id, edits |-> index \cup files]}
           /\ index' = {} /\ files' = {}
    <2> DEFINE entry == [id |-> id, edits |-> edits]
    <2>1. stash' = {entry}
        BY <1>2 DEF Down
    <2>2. entry.edits = edits
        OBVIOUS
    <2> HIDE DEF entry
    <2>3. UNION {e.edits : e \in {entry}} = entry.edits
        BY Zenon
    <2>4. UNION {e.edits : e \in stash'} = edits
        BY <2>1, <2>2, <2>3
    <2>5. \A e \in stash' : e.id = id
        BY <2>1 DEF entry
    <2> QED  BY <1>2, <2>4, <2>5 DEF Clean
<1> QED  BY <1>1, <1>2, FaultCounts DEF Push

LEMMA PopSetsDown ==
    ASSUME NEW id, NEW edits, Lifted(id, edits), Pop(id),
           faults = 0, faults' = 0
    PROVE  stash' = {} /\ index' \cup files' = edits \ Committed
<1> DEFINE entries == {e \in stash : e.id = id}
<1>1. entries = stash
    BY DEF Lifted
<1>2. /\ stash' = stash \ entries
      /\ files' = files \cup ((UNION {e.edits : e \in entries}) \ Committed)
      /\ index' = index
    BY FaultCounts DEF Pop, Committed
<1> QED  BY <1>1, <1>2 DEF Lifted, Clean

\* With nothing on the stash there is nothing to pop.
LEMMA PopOfNothing ==
    ASSUME NEW id, stash = {}, Pop(id)
    PROVE  UNCHANGED <<index, files, stash>>
<1>1. {e \in stash : e.id = id} = {}
    OBVIOUS
<1>2. UNION {e.edits : e \in {}} = {}
    BY Zenon
<1> QED  BY <1>1, <1>2 DEF Pop, work

-----------------------------------------------------------------------------
(***************************************************************************)
(* Every step leaves the work where the next phase looks for it.           *)
(***************************************************************************)
LEMMA PhasesOfTheRestack ==
    ASSUME TypeInv
    PROVE  ForTheRestack <=>
               /\ ~cmd.dry_run
               /\ \/ pc \in {"restack", "close", "pop"}
                  \/ pc = "plan" /\ cmd.command \in {"amend", "sync"}
                  \/ pc = "backup" /\ cmd.command \in {"reword", "sync"}
                  \/ pc = "update" /\ cmd.command = "sync"
BY DEF TypeInv, OwnPhases, Request, ForTheRestack, AfterStash, AmendNext,
   RewordNext, SyncNext

\* A step that leaves the work alone, and goes no further than to a phase that
\* looks for it in the same place.
LEMMA WorkStays ==
    ASSUME WorkIsInPlace, TypeInv,
           UNCHANGED <<cmd, index, files, stash, fixup>>,
           \/ pc' = pc \/ pc' = "failed"
           \/ /\ At("save") <=> At("save")'
              /\ ForTheFixup <=> ForTheFixup'
              /\ ForTheRestack <=> ForTheRestack'
              /\ ~At("failed")
    PROVE  WorkIsInPlace'
<1>1. /\ Uncommitted' = Uncommitted /\ Committed' = Committed
      /\ Clean' = Clean
    BY DEF Uncommitted, Committed, Clean
<1>2. CASE pc' = "failed"
    <2>1. cmd.command \in {"amend", "reword", "sync"} /\ cmd' = cmd
        BY RequestParts DEF TypeInv
    <2>2. ~At("save")' /\ ~ForTheFixup' /\ ~ForTheRestack' /\ At("failed")'
        BY <1>2, <2>1 DEF At, ForTheFixup, ForTheRestack, AfterStash
    <2> QED  BY <2>2 DEF WorkIsInPlace
<1>3. CASE pc' # "failed"
    BY <1>1, <1>3 DEF WorkIsInPlace, Down, Lifted, At, ForTheFixup,
       ForTheRestack
<1> QED  BY <1>2, <1>3

LEMMA WorkIsInPlaceStep ==
    ASSUME ReturnInv, TypeInv', [Next]_vars, faults = 0, faults' = 0
    PROVE  WorkIsInPlace'
<1>1. TypeInv /\ WorkIsInPlace
    BY DEF ReturnInv
<1>2. /\ OwnPhases /\ OwnPhases'
      /\ cmd.command \in {"amend", "reword", "sync"}
      /\ ForTheRestack <=>
               /\ ~cmd.dry_run
               /\ \/ pc \in {"restack", "close", "pop"}
                  \/ pc = "plan" /\ cmd.command \in {"amend", "sync"}
                  \/ pc = "backup" /\ cmd.command \in {"reword", "sync"}
                  \/ pc = "update" /\ cmd.command = "sync"
    BY <1>1, PhasesOfTheRestack, RequestParts DEF TypeInv
<1>3. cmd' = cmd => (ForTheRestack' <=>
               /\ ~cmd.dry_run
               /\ \/ pc' \in {"restack", "close", "pop"}
                  \/ pc' = "plan" /\ cmd.command \in {"amend", "sync"}
                  \/ pc' = "backup" /\ cmd.command \in {"reword", "sync"}
                  \/ pc' = "update" /\ cmd.command = "sync")
    BY <1>2 DEF ForTheRestack, AfterStash, TypeInv, OwnPhases, AmendNext,
       RewordNext, SyncNext
<1>4. CASE Stage
    <2>1. Down(Uncommitted \ Committed)
        BY <1>1, <1>2, <1>4 DEF WorkIsInPlace, Stage, At, ForTheFixup
    <2>2. pc' = "commit" /\ cmd' = cmd
        BY <1>2, <1>4 DEF Stage, At, Proceed, OwnPhases, AmendNext,
           RewordNext, SyncNext
    <2>3. Down(Uncommitted \ Committed)'
        BY <1>4, <2>1 DEF Stage, Down, Uncommitted, Committed
    <2> QED  BY <1>3, <2>2, <2>3 DEF WorkIsInPlace, At, ForTheFixup
<1>5. CASE CommitFixup
    <2>1. Down(Uncommitted \ Committed)
        BY <1>1, <1>2, <1>5 DEF WorkIsInPlace, CommitFixup, At, ForTheFixup
    <2>2. /\ pc = "commit" /\ cmd.command = "amend" /\ fixup = {}
          /\ UNCHANGED <<cmd, index, files, stash>> /\ fixup' = index
        BY <1>2, <1>5 DEF CommitFixup, At, work, ReturnInv,
           NothingCommittedYet, OwnPhases, RewordNext, SyncNext
    <2>3. Down(Uncommitted)' /\ Committed = {}
        BY <2>1, <2>2 DEF Down, Uncommitted, Committed
    <2>4. CASE index = {} \/ cmd.dry_run
        <3>1. pc' = "update" /\ Committed' = {}
            BY <1>5, <2>2, <2>4 DEF CommitFixup, Committed
        <3> QED  BY <1>3, <2>2, <2>3, <3>1
                    DEF WorkIsInPlace, At, ForTheFixup, Down
    <2>5. CASE ~(index = {} \/ cmd.dry_run)
        <3>1. pc' = "save"
            BY <1>5, <2>2, <2>5 DEF CommitFixup, Proceed, AmendNext
        <3> QED  BY <1>3, <2>2, <2>3, <2>5, <3>1
                    DEF WorkIsInPlace, At, ForTheFixup
    <2> QED  BY <2>4, <2>5
<1>6. CASE Save
    <2>1. Down(Uncommitted) /\ ~cmd.dry_run
        BY <1>1, <1>6 DEF WorkIsInPlace, Save
    <2>2. pc' = "detach" /\ cmd' = cmd
        BY <1>2, <1>6 DEF Save, At, Proceed, OwnPhases, AmendNext,
           RewordNext, SyncNext
    <2>3. Lifted("fixup", Uncommitted)'
        BY <1>6, <2>1, <2>2, PushLifts DEF Save, Lifted, Uncommitted
    <2> QED  BY <1>3, <2>1, <2>2, <2>3 DEF WorkIsInPlace, At, ForTheFixup
<1>7. CASE SwitchToFixup
    <2>1. Lifted("fixup", Uncommitted) /\ ~cmd.dry_run
        BY <1>1, <1>7 DEF WorkIsInPlace, SwitchToFixup, At, ForTheFixup
    <2>2. pc' = "restore" /\ cmd' = cmd
        BY <1>2, <1>7 DEF SwitchToFixup, At, Proceed, OwnPhases, AmendNext,
           RewordNext, SyncNext
    <2>3. Lifted("fixup", Uncommitted)'
        BY <1>7, <2>1 DEF SwitchToFixup, Lifted, Clean, Uncommitted
    <2> QED  BY <1>3, <2>1, <2>2, <2>3 DEF WorkIsInPlace, At, ForTheFixup
<1>8. CASE Restore
    <2>1. Lifted("fixup", Uncommitted)
        BY <1>1, <1>8 DEF WorkIsInPlace, Restore, At, ForTheFixup
    <2>2. pc' = "update" /\ cmd.command = "amend" /\ UNCHANGED <<cmd, fixup>>
        BY <1>2, <1>8 DEF Restore, At, Proceed, OwnPhases, AmendNext,
           RewordNext, SyncNext
    <2>3. Down(Uncommitted \ Committed)'
        BY <1>8, <2>1, <2>2, PopSetsDown
           DEF Restore, Down, Uncommitted, Committed
    <2> QED  BY <1>3, <2>2, <2>3 DEF WorkIsInPlace, At, ForTheFixup
<1>9. CASE Stash
    <2>1. Down(Uncommitted \ Committed)
        BY <1>1, <1>2, <1>9 DEF WorkIsInPlace, Stash, At, ForTheFixup
    <2>2. /\ UNCHANGED <<cmd, fixup>>
          /\ \/ pc' = "plan" /\ cmd.command = "amend"
             \/ pc' = "backup" /\ cmd.command \in {"reword", "sync"}
        BY <1>2, <1>9 DEF Stash, At, Proceed, OwnPhases, AmendNext,
           RewordNext, SyncNext
    <2>3. CASE cmd.dry_run
        <3>1. Down(Uncommitted \ Committed)'
            BY <1>9, <2>1, <2>2, <2>3
               DEF Stash, work, Down, Uncommitted, Committed
        <3> QED  BY <1>3, <2>2, <2>3, <3>1
                    DEF WorkIsInPlace, At, ForTheFixup
    <2>4. CASE ~cmd.dry_run
        <3>1. Lifted("command", Uncommitted \ Committed)'
            BY <1>9, <2>1, <2>2, <2>4, PushLifts
               DEF Stash, Lifted, Uncommitted, Committed
        <3> QED  BY <1>3, <2>2, <2>4, <3>1
                    DEF WorkIsInPlace, At, ForTheFixup
    <2> QED  BY <2>3, <2>4
<1>10. ASSUME NEW place, NEW same, Close(place, same) PROVE WorkIsInPlace'
    <2>1. Lifted("command", Uncommitted \ Committed)
        BY <1>1, <1>2, <1>10 DEF WorkIsInPlace, Close, At
    <2>2. pc' = "pop" /\ UNCHANGED <<cmd, fixup>> /\ ~cmd.dry_run
        BY <1>2, <1>10 DEF Close, At, Proceed, AmendNext, RewordNext, SyncNext
    <2>3. Lifted("command", Uncommitted \ Committed)'
        BY <1>10, <2>1, <2>2
           DEF Close, Lifted, Clean, Uncommitted, Committed
    <2> QED  BY <1>3, <2>2, <2>3 DEF WorkIsInPlace, At, ForTheFixup
<1>11. CASE PopWork
    <2>1. pc' = "done" /\ UNCHANGED <<cmd, fixup>>
        BY <1>2, <1>11 DEF PopWork, At, Proceed, AmendNext, RewordNext,
           SyncNext
    <2>2. CASE cmd.dry_run
        <3>1. Down(Uncommitted \ Committed)
            BY <1>1, <1>2, <1>11, <2>2
               DEF WorkIsInPlace, PopWork, At, ForTheFixup
        <3>2. Down(Uncommitted \ Committed)'
            BY <1>11, <2>1, <3>1, PopOfNothing
               DEF PopWork, Down, Uncommitted, Committed
        <3> QED  BY <1>3, <2>1, <3>2 DEF WorkIsInPlace, At, ForTheFixup
    <2>3. CASE ~cmd.dry_run
        <3>1. Lifted("command", Uncommitted \ Committed)
            BY <1>1, <1>2, <1>11, <2>3 DEF WorkIsInPlace, PopWork, At
        <3>2. Down(Uncommitted \ Committed)'
            BY <1>11, <2>1, <3>1, PopSetsDown
               DEF PopWork, Down, Uncommitted, Committed
        <3> QED  BY <1>3, <2>1, <3>2 DEF WorkIsInPlace, At, ForTheFixup
    <2> QED  BY <2>2, <2>3
<1>12. CASE \/ DetachHead \/ EndMoves \/ Update \/ BackUp \/ Plan
            \/ EndRestack \/ NothingToClose
            \/ \E changed \in BOOLEAN : EditMessage(changed)
    <2>1. UNCHANGED <<cmd, index, files, stash, fixup>>
        BY <1>12 DEF DetachHead, EndMoves, Update, BackUp, Plan, EndRestack,
           NothingToClose, EditMessage, work
    <2>2. CASE pc' = "failed"
        BY <1>1, <2>1, <2>2, WorkStays
    <2>3. CASE pc' # "failed"
        <3>1. /\ At("save") <=> At("save")'
              /\ ForTheFixup <=> ForTheFixup'
              /\ ForTheRestack <=> ForTheRestack'
              /\ ~At("failed")
            BY <1>2, <1>3, <1>12, <2>1, <2>3 DEF At, ForTheFixup, OwnPhases,
               Proceed, AmendNext, RewordNext, SyncNext, DetachHead, EndMoves,
               Update, BackUp, Plan, EndRestack, NothingToClose, EditMessage
        <3> QED  BY <1>1, <2>1, <3>1, WorkStays
    <2> QED  BY <2>2, <2>3
<1>13. CASE /\ UNCHANGED <<cmd, index, files, stash, fixup>>
            /\ pc' = pc \/ pc' = "failed"
    BY <1>1, <1>13, WorkStays
<1> QED
    BY <1>4, <1>5, <1>6, <1>7, <1>8, <1>9, <1>10, <1>11, <1>12, <1>13
       DEF Next, vars, work, Ended, MoveToFixup, EditAborts, Refuse,
       DetachToRestack, Restack, GitFails, CheckoutFails

LEMMA InitReturns == Init => ReturnInv
<1> SUFFICES ASSUME Init PROVE ReturnInv
    OBVIOUS
<1>1. TypeInv
    BY InitHasTypes
<1>2. cmd.command \in {"amend", "reword", "sync"}
    BY <1>1, RequestParts DEF TypeInv
<1>3. pc = FirstPhase[cmd.command] /\ fixup = {}
    BY DEF Init
<1>4. ~At("save") /\ ~ForTheFixup /\ ~At("failed")
    BY <1>2, <1>3 DEF FirstPhase, At, ForTheFixup
<1>5. ~ForTheRestack
    BY <1>1, <1>2, <1>3, PhasesOfTheRestack DEF FirstPhase
<1>6. Down(Uncommitted \ Committed)
    BY DEF Init, Down, Uncommitted, Committed
<1> QED  BY <1>1, <1>3, <1>4, <1>5, <1>6
            DEF ReturnInv, NothingCommittedYet, WorkIsInPlace

(***************************************************************************)
(* A dry run takes nothing: it never gets to the phases that commit the    *)
(* fixup, and in those it gets to each step that moves something asks.     *)
(***************************************************************************)
FixupPhases == {"save", "detach", "move", "switch", "restore"}

PretendInv == cmd.dry_run => AsFound /\ pc \notin FixupPhases

LEMMA ProceedPretends ==
    ASSUME TypeInv, Proceed, pc \notin FixupPhases \cup {"commit", "done", "failed"}
    PROVE  pc' \notin FixupPhases
<1>1. CASE cmd.command = "amend"
    BY <1>1 DEF TypeInv, OwnPhases, Proceed, FixupPhases, AmendNext, RewordNext, SyncNext
<1>2. CASE cmd.command = "reword"
    BY <1>2 DEF TypeInv, OwnPhases, Proceed, FixupPhases, AmendNext, RewordNext, SyncNext
<1>3. CASE cmd.command = "sync"
    BY <1>3 DEF TypeInv, OwnPhases, Proceed, FixupPhases, AmendNext, RewordNext, SyncNext
<1> QED  BY <1>1, <1>2, <1>3, RequestParts DEF TypeInv

LEMMA PretendStep ==
    ASSUME TypeInv, PretendInv, [Next]_vars
    PROVE  PretendInv'
<1> SUFFICES ASSUME cmd'.dry_run PROVE (AsFound /\ pc \notin FixupPhases)'
    BY DEF PretendInv
<1>1. cmd' = cmd
    BY DEF Next, vars, Stage, CommitFixup, Save, DetachHead, MoveToFixup, EndMoves,
       SwitchToFixup, Restore, Update, BackUp, EditMessage, EditAborts, Stash, Plan,
       Refuse, DetachToRestack, Restack, EndRestack, Close, NothingToClose, PopWork,
       GitFails, CheckoutFails, Ended
<1>2. cmd.dry_run /\ AsFound /\ pc \notin FixupPhases
    BY <1>1 DEF PretendInv
<1> DEFINE here == <<index, files, stash, tip, head, backup>>
<1>3. here' = here => AsFound'
    BY <1>1, <1>2 DEF AsFound
<1>4. CASE Stage
    BY <1>2, <1>3, <1>4, ProceedPretends DEF Stage, At, FixupPhases
<1>5. CASE CommitFixup
    BY <1>2, <1>3, <1>5 DEF CommitFixup, work, FixupPhases
<1>6. CASE Update
    BY <1>2, <1>3, <1>6, ProceedPretends DEF Update, At, work
<1>7. CASE BackUp
    BY <1>1, <1>2, <1>7, ProceedPretends DEF BackUp, At, work, AsFound
<1>8. CASE \E changed \in BOOLEAN : EditMessage(changed)
    BY <1>2, <1>3, <1>8, ProceedPretends DEF EditMessage, At, work, FixupPhases
<1>9. CASE EditAborts \/ Refuse \/ GitFails
    BY <1>2, <1>3, <1>9 DEF EditAborts, Refuse, GitFails, work, FixupPhases
<1>10. CASE Stash
    BY <1>2, <1>3, <1>10, ProceedPretends DEF Stash, At, work
<1>11. CASE Plan \/ NothingToClose
    BY <1>2, <1>3, <1>11, ProceedPretends DEF Plan, NothingToClose, At, work
<1>12. CASE EndRestack
    BY <1>2, <1>3, <1>12, ProceedPretends DEF EndRestack, At, work
<1>13. CASE PopWork
    <2>1. {e \in stash : e.id = "command"} = {} /\ stash \ {} = stash
        BY <1>2 DEF AsFound
    <2>2. UNION {e.edits : e \in {}} = {}
        OBVIOUS
    <2>3. files' = files /\ index' = index /\ stash' = stash
        BY <1>13, <2>1, <2>2 DEF PopWork, Pop, work
    <2> QED  BY <1>2, <1>3, <1>13, <2>3, ProceedPretends DEF PopWork, At
<1>14. CASE \E place \in Where : CheckoutFails(place)
    BY <1>2, <1>14 DEF CheckoutFails, At, FixupPhases
<1>15. CASE Ended \/ UNCHANGED vars
    BY <1>2, <1>3, <1>15 DEF Ended, vars
<1>16. CASE \/ Save \/ DetachHead \/ \E b \in Branch : MoveToFixup(b)
            \/ EndMoves \/ SwitchToFixup \/ Restore
    BY <1>2, <1>16 DEF Save, DetachHead, MoveToFixup, EndMoves, SwitchToFixup, Restore,
       At, FixupPhases
<1>17. CASE \/ DetachToRestack \/ \E b \in Branch : Restack(b)
            \/ \E place \in Where, same_tree \in BOOLEAN : Close(place, same_tree)
    BY <1>2, <1>17 DEF DetachToRestack, Restack, Close
<1> QED  BY <1>4, <1>5, <1>6, <1>7, <1>8, <1>9, <1>10, <1>11, <1>12, <1>13, <1>14,
            <1>15, <1>16, <1>17 DEF Next

\* A command git never lets down gives back what it took: at its end nothing
\* of it is left on the stash, and what was not committed and did not become
\* part of the fixup is in the index or the files again.  A dry run has taken
\* nothing, at any step.
THEOREM WorkComesBack == Spec => []WorkReturns
<1>1. ReturnInv /\ [Next]_vars => ReturnInv'
    <2> SUFFICES ASSUME ReturnInv, [Next]_vars PROVE ReturnInv'
        OBVIOUS
    <2>1. TypeInv' /\ NothingCommittedYet'
        BY StepKeepsTypes, NothingCommittedYetStays DEF ReturnInv
    <2>2. ASSUME faults' = 0 PROVE WorkIsInPlace'
        <3>1. faults = 0
            BY <2>2, NoFaultBefore DEF ReturnInv, TypeInv
        <3> QED  BY <2>1, <2>2, <3>1, WorkIsInPlaceStep
    <2> QED  BY <2>1, <2>2 DEF ReturnInv
<1>2. ReturnInv /\ PretendInv => WorkReturns
    <2> SUFFICES ASSUME ReturnInv, At("done"), faults = 0
                 PROVE  Down(Uncommitted \ Committed)
        BY DEF WorkReturns, PretendInv, Down, Committed
    <2>1. ~ForTheRestack /\ ~ForTheFixup /\ ~At("save") /\ ~At("failed")
        BY PhasesOfTheRestack DEF ReturnInv, At, ForTheFixup
    <2> QED  BY <2>1 DEF ReturnInv, WorkIsInPlace
<1>3. Init => PretendInv
    BY RequestParts DEF Init, PretendInv, AsFound, FirstPhase, FixupPhases
<1>4. ReturnInv /\ PretendInv /\ [Next]_vars => PretendInv'
    BY PretendStep DEF ReturnInv
<1> QED  BY InitReturns, <1>1, <1>2, <1>3, <1>4, PTL DEF Spec

=============================================================================
