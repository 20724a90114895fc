-------------------------------- MODULE Spool --------------------------------
(***************************************************************************)
(* The spool directory: how a write leaves a sandboxed session.  A CLI call*)
(* creates a .json file and then fills it (fs::write under the final name);*)
(* paosd walks the directory every few seconds, and for each entry reads,  *)
(* parses, applies and removes it.  What does not parse or is malformed is *)
(* renamed to .bad; what meets a busy database is left for the next walk.  *)
(***************************************************************************)
EXTENDS Naturals, FiniteSets

CONSTANTS Calls,        \* the CLI calls of the run; each writes one file
          Malformed,    \* those whose operation the daemon rejects as malformed
          None,
          MaxRestarts, MaxBusy   \* bounds: daemon kills, busy database errors

ASSUME ConstantsAssumption ==
    /\ Malformed \subseteq Calls
    /\ None \notin Calls
    /\ MaxRestarts \in Nat /\ MaxBusy \in Nat

VARIABLES
    name,      \* the file: "absent", "json", "bad" or "removed"
    body,      \* what has been written into it: "empty" or "full"
    told,      \* the call printed "queued" and returned 0
    dead,      \* the call was killed before it finished writing
    toVisit,   \* entries this walk has still to yield
    hand,      \* the entry in hand
    got,       \* what was read from it
    phase,     \* "idle", "read" or "applied"
    applied,   \* how often the operation of a call took effect
    restarts, busy

vars == <<name, body, told, dead, toVisit, hand, got, phase, applied, restarts, busy>>

TypeOK ==
    /\ name \in [Calls -> {"absent", "json", "bad", "removed"}]
    /\ body \in [Calls -> {"empty", "full"}]
    /\ told \subseteq Calls /\ dead \subseteq Calls /\ toVisit \subseteq Calls
    /\ hand \in Calls \cup {None}
    /\ got \in {"empty", "full"}
    /\ phase \in {"idle", "read", "applied"}
    /\ (hand = None) <=> (phase = "idle")
    /\ applied \in [Calls -> Nat]
    /\ restarts \in Nat /\ busy \in Nat

Init ==
    /\ name = [c \in Calls |-> "absent"]
    /\ body = [c \in Calls |-> "empty"]
    /\ told = {} /\ dead = {} /\ toVisit = {}
    /\ hand = None /\ got = "empty" /\ phase = "idle"
    /\ applied = [c \in Calls |-> 0]
    /\ restarts = 0 /\ busy = 0

-----------------------------------------------------------------------------
(* A CLI call: open, write, report. *)

drain == <<toVisit, hand, got, phase, applied, restarts, busy>>

Create(c) ==
    /\ name[c] = "absent"
    /\ name' = [name EXCEPT ![c] = "json"]
    /\ UNCHANGED <<body, told, dead, drain>>

\* The bytes go to the open file, whatever its name has become.
Write(c) ==
    /\ name[c] # "absent" /\ c \notin dead /\ body[c] = "empty"
    /\ body' = [body EXCEPT ![c] = "full"]
    /\ told' = told \cup {c}
    /\ UNCHANGED <<name, dead, drain>>

CallKilled(c) ==
    /\ name[c] # "absent" /\ body[c] = "empty" /\ c \notin dead
    /\ dead' = dead \cup {c}
    /\ UNCHANGED <<name, body, told, drain>>

-----------------------------------------------------------------------------
(* The drain. *)

StartWalk ==
    /\ phase = "idle" /\ toVisit = {}
    /\ \E c \in Calls : name[c] = "json"
    /\ toVisit' = {c \in Calls : name[c] = "json"}
    /\ UNCHANGED <<name, body, told, dead, hand, got, phase, applied, restarts, busy>>

ReadEntry(c) ==
    /\ phase = "idle" /\ c \in toVisit
    /\ toVisit' = toVisit \ {c}
    /\ hand' = c /\ got' = body[c] /\ phase' = "read"
    /\ UNCHANGED <<name, body, told, dead, applied, restarts, busy>>

PutDown == hand' = None /\ got' = "empty" /\ phase' = "idle"

\* Mutants: what cannot be applied stays where it is; or is deleted.
QuarantineLeaves ==
    /\ phase = "read"
    /\ got = "empty" \/ hand \in Malformed
    /\ PutDown
    /\ UNCHANGED <<name, body, told, dead, toVisit, applied, restarts, busy>>
QuarantineDeletes ==
    /\ phase = "read"
    /\ got = "empty" \/ hand \in Malformed
    /\ name' = [name EXCEPT ![hand] = "absent"]
    /\ PutDown
    /\ UNCHANGED <<body, told, dead, toVisit, applied, restarts, busy>>

\* Unparseable, or parsed and malformed: renamed, never deleted.
Quarantine ==
    /\ phase = "read"
    /\ got = "empty" \/ hand \in Malformed
    /\ name' = [name EXCEPT ![hand] = "bad"]
    /\ PutDown
    /\ UNCHANGED <<body, told, dead, toVisit, applied, restarts, busy>>

ApplyOp ==
    /\ phase = "read" /\ got = "full" /\ hand \notin Malformed
    /\ applied' = [applied EXCEPT ![hand] = @ + 1]
    /\ phase' = "applied"
    /\ UNCHANGED <<name, body, told, dead, toVisit, hand, got, restarts, busy>>

\* A transient database error: kept for the next walk.
KeepIt ==
    /\ phase = "read" /\ got = "full" /\ hand \notin Malformed
    /\ busy < MaxBusy
    /\ busy' = busy + 1
    /\ PutDown
    /\ UNCHANGED <<name, body, told, dead, toVisit, applied, restarts>>

\* Mutant: applied and left in the directory.
RemoveFileNot ==
    /\ phase = "applied"
    /\ PutDown
    /\ UNCHANGED <<name, body, told, dead, toVisit, applied, restarts, busy>>

RemoveFile ==
    /\ phase = "applied"
    /\ name' = [name EXCEPT ![hand] = "removed"]
    /\ PutDown
    /\ UNCHANGED <<body, told, dead, toVisit, applied, restarts, busy>>

DaemonRestart ==
    /\ restarts < MaxRestarts
    /\ phase # "idle" \/ toVisit # {}
    /\ restarts' = restarts + 1
    /\ toVisit' = {}
    /\ PutDown
    /\ UNCHANGED <<name, body, told, dead, applied, busy>>

\* Everything is written and everything drained; no further call is made.
Quiet ==
    /\ \A c \in Calls : name[c] \in {"bad", "removed"} /\ (body[c] = "full" \/ c \in dead)
    /\ phase = "idle" /\ toVisit = {}
    /\ UNCHANGED vars

Drain == StartWalk \/ (\E c \in Calls : ReadEntry(c)) \/ Quarantine \/ ApplyOp
         \/ KeepIt \/ RemoveFile

Next == \/ \E c \in Calls : Create(c) \/ Write(c) \/ CallKilled(c)
        \/ Drain \/ DaemonRestart \/ Quiet

Spec == Init /\ [][Next]_vars

\* paosd walks the directory on a timer and an entry's handling never blocks.
FairSpec == Spec /\ WF_vars(Drain)

-----------------------------------------------------------------------------
(* Properties. *)

\* An operation takes effect more than once only at the price of a daemon
\* killed between applying and removing: one kill, at most one repetition.
Repetitions == UNION {{c} \X (2..applied[c]) : c \in Calls}
RepetitionNeedsRestart == Cardinality(Repetitions) <= restarts

\* A file that is gone took effect, and one set aside never did or will.
GoneMeansApplied ==
    \A c \in Calls : /\ name[c] = "removed" => applied[c] > 0
                     /\ name[c] = "bad" => applied[c] = 0

\* The state is well formed, and nothing is repeated for free or lost on its way.
SpoolSafety == TypeOK /\ RepetitionNeedsRestart /\ GoneMeansApplied

\* The directory never fills up: every file is eventually applied or set aside.
EveryFileLeaves == \A c \in Calls : name[c] = "json" ~> name[c] \in {"bad", "removed"}

StatusOf(c) == CASE name[c] = "absent" -> "idle"
                 [] name[c] = "bad" -> "setaside"
                 [] applied[c] > 0 -> "applied"
                 [] OTHER -> "pending"

Promise == INSTANCE SpoolPromise WITH status <- [c \in Calls |-> StatusOf(c)]

\* The files, the walk and the restarts implement the promise.
KeepsPromise == Promise!Spec

\* bus.rs tells the caller "(queued - paosd applies it within ~5s)", and the
\* drain's comments call a lost write the failure the spool exists to prevent.
\* A well-formed call that was told so is applied, or still waiting to be.
QueuedIsApplied ==
    \A c \in told \ Malformed : name[c] = "json" \/ applied[c] > 0
=============================================================================
