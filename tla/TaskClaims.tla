----------------------------- MODULE TaskClaims -----------------------------
(***************************************************************************)
(* What sessions make of the board.  A session reaches paosd through its   *)
(* socket when it can; a sandboxed one queues the operation as a file and  *)
(* learns of the outcome, if at all, by reading the row back.  The daemon  *)
(* applies the files in whatever order the directory yields, late, and     *)
(* once more after a restart, while other sessions and the operator act.   *)
(***************************************************************************)
EXTENDS TaskBoard

CONSTANTS
    Spooled,               \* the operations of sessions that may take the spool
    NoFile,
    MaxFiles, MaxCrashes   \* bounds of the instance

ClaimFile == [op : {"task_claim", "task_release"}, n : Nat, task : Tasks, session : Sessions]
StateFile == [op : {"task_state"}, n : Nat, task : Tasks, to : States, session : Sessions]
TaskFile  == ClaimFile \cup StateFile

ASSUME ClaimsAssumption ==
    /\ NoFile \notin TaskFile
    /\ Spooled \subseteq {"task_claim", "task_release", "task_state"}
    /\ MaxFiles \in Nat /\ MaxCrashes \in Nat

VARIABLES
    spool, inHand,   \* queued files; the one applied but not yet removed
    waiting,         \* the task whose row a session's claim is polling
    told,            \* what each session was last told about each task
    letGo,           \* history: the sessions that queued a release, with its task
    nfiles, crashes

claims == <<spool, inHand, waiting, told, letGo, nfiles, crashes>>
vars   == <<board, claims>>

ClaimsTypeOK ==
    /\ spool \subseteq TaskFile
    /\ inHand \in TaskFile \cup {NoFile}
    /\ waiting \in [Sessions -> Tasks \cup {None}]
    /\ told \in [Sessions -> [Tasks -> {"nothing", "owned", "lost"}]]
    /\ letGo \subseteq Sessions \X Tasks
    /\ nfiles \in Nat /\ crashes \in Nat

ClaimsInit ==
    /\ Init
    /\ spool = {} /\ inHand = NoFile
    /\ waiting = [s \in Sessions |-> None]
    /\ told = [s \in Sessions |-> [t \in Tasks |-> "nothing"]]
    /\ letGo = {}
    /\ nfiles = 0 /\ crashes = 0

Tell(s, t, what) == told' = [told EXCEPT ![s][t] = what]

\* A session runs one command at a time.
Free(s) == s \in live /\ waiting[s] = None

-----------------------------------------------------------------------------
(* The drain: a refused operation is consumed like one that took.           *)

\* Mutant: a queued claim is taken at its word.
ApplyClaimBlindly(t, s) ==
    /\ claimedBy' = [claimedBy EXCEPT ![t] = s]
    /\ state' = [state EXCEPT ![t] = "in_progress"]
    /\ UNCHANGED <<origin, orphaned, grant, movedBy, deps, live>>

ApplyClaim(t, s) == IF CanClaim(t) THEN Claim(t, s) ELSE UNCHANGED board

ApplyRelease(t, s) == IF CanRelease(t, s) THEN Release(t, s) ELSE UNCHANGED board

ApplyState(t, to, s) ==
    IF state[t] # to /\ CanMove(t, to, s) THEN SetState(t, to, s) ELSE UNCHANGED board

DrainApply(f) ==
    /\ inHand = NoFile
    /\ \/ f.op = "task_claim" /\ ApplyClaim(f.task, f.session)
       \/ f.op = "task_release" /\ ApplyRelease(f.task, f.session)
       \/ f.op = "task_state" /\ ApplyState(f.task, f.to, f.session)
    /\ inHand' = f
    /\ UNCHANGED <<spool, waiting, told, letGo, nfiles, crashes>>

DrainRemove ==
    /\ inHand # NoFile
    /\ spool' = spool \ {inHand}
    /\ inHand' = NoFile
    /\ UNCHANGED <<board, waiting, told, letGo, nfiles, crashes>>

DaemonRestart ==
    /\ inHand # NoFile /\ crashes < MaxCrashes
    /\ crashes' = crashes + 1
    /\ inHand' = NoFile
    /\ UNCHANGED <<board, spool, waiting, told, letGo, nfiles>>

-----------------------------------------------------------------------------
(* Commands of a session.                                                   *)

Queue(f) ==
    /\ f.op \in Spooled /\ nfiles < MaxFiles
    /\ nfiles' = nfiles + 1
    /\ spool' = spool \cup {f}
    /\ UNCHANGED <<board, inHand, crashes>>

\* `paos task claim`, answered by a live daemon.
ClaimWon(t, s) ==
    /\ Free(s)
    /\ Claim(t, s)
    /\ Tell(s, t, "owned")
    /\ UNCHANGED <<spool, inHand, waiting, letGo, nfiles, crashes>>

\* Mutant: an answer nothing knows how to read.
ClaimRefusedOddly(t, s) ==
    /\ Free(s)
    /\ claimedBy[t] \notin {None, s}
    /\ Tell(s, t, "refused")
    /\ UNCHANGED <<board, spool, inHand, waiting, letGo, nfiles, crashes>>

\* The refusal names the holder; it is news only when that is another session.
ClaimRefused(t, s) ==
    /\ Free(s)
    /\ claimedBy[t] \notin {None, s}
    /\ Tell(s, t, "lost")
    /\ UNCHANGED <<board, spool, inHand, waiting, letGo, nfiles, crashes>>

\* The daemon is out of reach: queue, then poll the row.  Claims alone are not
\* checked before they are queued.  An earlier defeat is being disputed.
ClaimQueued(t, s) ==
    /\ Free(s)
    /\ Queue([op |-> "task_claim", n |-> nfiles, task |-> t, session |-> s])
    /\ waiting' = [waiting EXCEPT ![s] = t]
    /\ Tell(s, t, IF told[s][t] = "lost" THEN "nothing" ELSE told[s][t])
    /\ UNCHANGED letGo

StopWaiting(s) ==
    /\ waiting' = [waiting EXCEPT ![s] = None]
    /\ UNCHANGED <<board, spool, inHand, letGo, nfiles, crashes>>

\* Mutant: any owner will do.
ConfirmedByAny(s) ==
    /\ waiting[s] # None /\ claimedBy[waiting[s]] # None
    /\ Tell(s, waiting[s], "owned")
    /\ StopWaiting(s)

Confirmed(s) ==
    /\ waiting[s] # None /\ claimedBy[waiting[s]] = s
    /\ Tell(s, waiting[s], "owned")
    /\ StopWaiting(s)

LostTheRace(s) ==
    /\ waiting[s] # None /\ claimedBy[waiting[s]] \notin {s, None}
    /\ Tell(s, waiting[s], "lost")
    /\ StopWaiting(s)

\* Fifteen seconds without an owner: UNCONFIRMED.
Unconfirmed(s) ==
    /\ waiting[s] # None
    /\ UNCHANGED told
    /\ StopWaiting(s)

\* `release` and the state verbs ask the policy of the row as it stands, then
\* send or queue; either way the session is done with the task it gave back.
ReleaseSent(t, s) ==
    /\ Free(s)
    /\ Release(t, s)
    /\ Tell(s, t, "nothing")
    /\ UNCHANGED <<spool, inHand, waiting, letGo, nfiles, crashes>>

ReleaseQueued(t, s) ==
    /\ Free(s) /\ CanRelease(t, s)
    /\ Queue([op |-> "task_release", n |-> nfiles, task |-> t, session |-> s])
    /\ Tell(s, t, "nothing")
    /\ letGo' = letGo \cup {<<s, t>>}
    /\ UNCHANGED waiting

StateSent(t, to, s) ==
    /\ Free(s)
    /\ SetState(t, to, s)
    /\ UNCHANGED claims

StateQueued(t, to, s) ==
    /\ Free(s) /\ CanMove(t, to, s)
    /\ Queue([op |-> "task_state", n |-> nfiles, task |-> t, to |-> to, session |-> s])
    /\ UNCHANGED <<waiting, told, letGo>>

\* The session's processes end with it, and what they knew.
End(s) ==
    /\ s \in live
    /\ SessionEnd(s)
    /\ waiting' = [waiting EXCEPT ![s] = None]
    /\ told' = [told EXCEPT ![s] = [t \in Tasks |-> "nothing"]]
    /\ UNCHANGED <<spool, inHand, letGo, nfiles, crashes>>

Start(s) ==
    /\ s \notin live
    /\ SessionStart(s)
    /\ UNCHANGED claims

-----------------------------------------------------------------------------
\* The dashboard and Telegram run inside the daemon.
OperatorActs(t) ==
    /\ \/ \E from \in From, startReady \in BOOLEAN : Create(t, from, startReady)
       \/ \E to \in Moves : SetState(t, to, Operator)
       \/ GrantClose(t)
       \/ \E u \in Tasks : DepAdd(t, u) \/ DepRm(t, u)
    /\ UNCHANGED claims

SessionActs(t, s) ==
    \/ ClaimWon(t, s) \/ ClaimRefused(t, s) \/ ClaimQueued(t, s)
    \/ ReleaseSent(t, s) \/ ReleaseQueued(t, s)
    \/ \E to \in Moves : StateSent(t, to, s) \/ StateQueued(t, to, s)

ClaimsNext ==
    \/ \E f \in spool : DrainApply(f)
    \/ DrainRemove \/ DaemonRestart
    \/ \E t \in Tasks : OperatorActs(t) \/ \E s \in Workers : SessionActs(t, s)
    \/ \E s \in Workers : Confirmed(s) \/ LostTheRace(s) \/ Unconfirmed(s) \/ End(s) \/ Start(s)

ClaimsSpec == ClaimsInit /\ [][ClaimsNext]_vars

-----------------------------------------------------------------------------
(* Properties. *)

\* A session that was told it owns a task does own it, unless it has queued a
\* release of that task itself: late, reordered and repeated claims and state
\* changes never take a task from under a session at work on it.
OwnersHold ==
    \A s \in Sessions, t \in Tasks :
        told[s][t] = "owned" /\ <<s, t>> \notin letGo => claimedBy[t] = s

\* Whatever the spool does to the order and number of the operations, the
\* board only ever moves as one whose operations are called directly.
ImplementsBoard == Init /\ [][Next]_board

-----------------------------------------------------------------------------
(* What the code's comments promise and the code does not keep.             *)

\* task.rs: "a session that starts work on a task it does not own is the exact
\* failure this function exists to prevent".
OneOwner ==
    \A s1, s2 \in Sessions, t \in Tasks :
        told[s1][t] = "owned" /\ told[s2][t] = "owned" => s1 = s2
=============================================================================
