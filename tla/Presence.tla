------------------------------- MODULE Presence -------------------------------
(***************************************************************************)
(* Who is there.  Hooks of each Claude session announce its start, every   *)
(* turn and its end; paosd keeps one row per handle, bound to a session id *)
(* that outlives the process (a session is resumed under its old id), and  *)
(* an operator's sweep archives the rows of processes that are gone.  The  *)
(* calls go through the socket, or, when no answer comes, through the      *)
(* spool, which delivers late, in any order, and again after a kill.       *)
(***************************************************************************)
EXTENDS Naturals

CONSTANTS
    Sids, Handles, None,
    MaxPids, MaxFiles, MaxCrashes   \* bounds of the instance

ASSUME PresenceConstants ==
    /\ None \notin Sids
    /\ MaxPids \in Nat /\ MaxFiles \in Nat /\ MaxCrashes \in Nat

NoPid == 0

\* What a call carries; "life" is the process it comes from, of which the
\* payload of an end says nothing and that of a heartbeat need not (pid).
LifeCall == [op : {"start", "heartbeat", "end"}, sid : Sids, life : Nat, pid : Nat, n : Nat]
NameCall == [op : {"join", "claim", "touch"}, name : Handles, n : Nat]

VARIABLES
    sidOf,     \* the session a handle is bound to; None: no such row
    ended,     \* archived handles
    pidOf,     \* the recorded pid
    silent,    \* last seen longer ago than REAP_THRESHOLD_S
    members,   \* handles with a member row
    held,      \* handles owning an unfinished task
    running,   \* the process of each session, NoPid when there is none
    npids,     \* processes launched so far
    spool, nfiles, crashes,
    bound,       \* history: sessions whose start took effect in their present
                 \* life, and no call of an earlier life or a forget since
    restless,    \* history: archived handles that were given something since
    halfReaped   \* history: handles a killed sweep was archiving

rows  == <<sidOf, ended, pidOf, silent, members, held>>
procs == <<running, npids>>
files == <<spool, nfiles>>
vars  == <<rows, procs, files, crashes, bound, restless, halfReaped>>

PresenceTypeOK ==
    /\ sidOf \in [Handles -> Sids \cup {None}]
    /\ pidOf \in [Handles -> Nat]
    /\ ended \subseteq {h \in Handles : sidOf[h] # None}
    /\ silent \subseteq Handles /\ members \subseteq Handles /\ held \subseteq Handles
    /\ running \in [Sids -> 0..npids] /\ npids \in Nat
    /\ spool \subseteq LifeCall \cup NameCall /\ nfiles \in Nat /\ crashes \in Nat
    /\ bound \subseteq Sids /\ restless \subseteq ended /\ halfReaped \subseteq ended

Init ==
    /\ sidOf = [h \in Handles |-> None]
    /\ pidOf = [h \in Handles |-> NoPid]
    /\ ended = {} /\ silent = {} /\ members = {} /\ held = {}
    /\ running = [s \in Sids |-> NoPid] /\ npids = 0
    /\ spool = {} /\ nfiles = 0 /\ crashes = 0
    /\ bound = {} /\ restless = {} /\ halfReaped = {}

Named(s) == {h \in Handles : sidOf[h] = s}

Crash == crashes < MaxCrashes /\ crashes' = crashes + 1

-----------------------------------------------------------------------------
(* The store's side of the calls.                                           *)

\* A pid that is not given leaves the recorded one alone.
Coalesce(p, old) == IF p = NoPid THEN old ELSE p

\* A known session id gets its row back, whatever name was asked for; another
\* one gets a free handle.
SessionStart(s, p) ==
    \E h \in Handles :
        /\ sidOf[h] = s \/ (sidOf[h] = None /\ Named(s) = {})
        /\ sidOf' = [sidOf EXCEPT ![h] = s]
        /\ pidOf' = [pidOf EXCEPT ![h] = Coalesce(p, @)]
        /\ ended' = ended \ {h} /\ silent' = silent \ {h}
        /\ restless' = restless \ {h} /\ halfReaped' = halfReaped \ {h}
        /\ UNCHANGED <<members, held>>

\* An archived session is not revived by it.
Heartbeat(s, p) ==
    LET up == Named(s) \ ended IN
    /\ pidOf' = [h \in Handles |-> IF h \in up THEN Coalesce(p, pidOf[h]) ELSE pidOf[h]]
    /\ silent' = silent \ up
    /\ UNCHANGED <<sidOf, ended, members, held, restless, halfReaped>>

\* session_end's statements: the archive stamp, then the memberships, then the
\* claims.  A killed daemon leaves a prefix of them for the last handle.
Retire(H) ==
    /\ ended' = ended \cup H
    /\ members' = members \ H /\ held' = held \ H
    /\ restless' = restless \ H /\ halfReaped' = halfReaped \ H
    /\ UNCHANGED <<sidOf, pidOf, silent>>

RetireCut(done, h) ==
    /\ ended' = ended \cup done \cup {h}
    /\ members' \in {members \ done, members \ (done \cup {h})}
    /\ held' = held \ done
    /\ restless' = restless \ done
    /\ UNCHANGED <<sidOf, pidOf, silent>>

\* Mutant: ending an archived session is taken to be done already.
SessionEndOnce(s) == Retire(Named(s) \ ended)

SessionEnd(s) == Retire(Named(s))

Join(h) ==
    /\ members' = members \cup {h}
    /\ restless' = IF h \in ended THEN restless \cup {h} ELSE restless
    /\ UNCHANGED <<sidOf, ended, pidOf, silent, held, halfReaped>>

Claim(h) ==
    /\ held' = held \cup {h}
    /\ restless' = IF h \in ended THEN restless \cup {h} ELSE restless
    /\ UNCHANGED <<sidOf, ended, pidOf, silent, members, halfReaped>>

Touch(h) ==
    /\ silent' = IF h \in ended THEN silent ELSE silent \ {h}
    /\ UNCHANGED <<sidOf, ended, pidOf, members, held, restless, halfReaped>>

Apply(f) ==
    \/ f.op = "start" /\ SessionStart(f.sid, f.pid)
    \/ f.op = "heartbeat" /\ Heartbeat(f.sid, f.pid)
    \/ f.op = "end" /\ SessionEnd(f.sid)
    \/ f.op = "join" /\ Join(f.name)
    \/ f.op = "claim" /\ Claim(f.name)
    \/ f.op = "touch" /\ Touch(f.name)

\* The same, killed in the middle.
ApplyCut(f) ==
    /\ f.op = "end"
    /\ \E h \in Named(f.sid) : RetireCut({}, h)
    /\ UNCHANGED halfReaped

Late(f) == f.op = "end" \/ f.life # running[f.sid]

BoundAfter(f) ==
    IF f.op \notin {"start", "heartbeat", "end"} THEN bound
    ELSE IF Late(f) THEN bound \ {f.sid}
    ELSE IF f.op = "start" THEN bound \cup {f.sid}
    ELSE bound

-----------------------------------------------------------------------------
(* Sessions and their hooks. *)

Queue(f) ==
    /\ nfiles < MaxFiles
    /\ nfiles' = nfiles + 1
    /\ spool' = spool \cup {f}

Answered(f) == Apply(f) /\ UNCHANGED <<files, crashes>>

\* No connection, or one that broke off before the answer.
Spooled(f) ==
    /\ Queue(f)
    /\ \/ UNCHANGED <<rows, crashes, restless, halfReaped>>
       \/ Crash /\ (Apply(f) \/ ApplyCut(f))

LifeOp(op, s, p) == [op |-> op, sid |-> s, life |-> running[s], pid |-> p, n |-> nfiles]
NameOp(op, h) == [op |-> op, name |-> h, n |-> nfiles]

\* Started or resumed: a new process under the session's id.
Launch(s) ==
    /\ running[s] = NoPid /\ npids < MaxPids
    /\ npids' = npids + 1
    /\ running' = [running EXCEPT ![s] = npids + 1]
    /\ UNCHANGED <<rows, files, crashes, bound, restless, halfReaped>>

\* At the start, and again after a compaction.
StartHook(s) ==
    /\ running[s] # NoPid
    /\ LET f == LifeOp("start", s, running[s]) IN
       \/ Answered(f) /\ bound' = bound \cup {s}
       \/ Spooled(f) /\ UNCHANGED bound
    /\ UNCHANGED procs

\* After every turn; the flat verb may come without a pid.
Turn(s) ==
    /\ running[s] # NoPid
    /\ \E p \in {NoPid, running[s]} :
         LET f == LifeOp("heartbeat", s, p) IN Answered(f) \/ Spooled(f)
    /\ UNCHANGED <<procs, bound>>

Gone(s) ==
    /\ running' = [running EXCEPT ![s] = NoPid]
    /\ bound' = bound \ {s}
    /\ UNCHANGED npids

EndHook(s) ==
    /\ running[s] # NoPid
    /\ LET f == LifeOp("end", s, NoPid) IN Answered(f) \/ Spooled(f)
    /\ Gone(s)

SessionCrash(s) ==
    /\ running[s] # NoPid
    /\ Gone(s)
    /\ UNCHANGED <<rows, files, crashes, restless, halfReaped>>

\* Verbs of a session, under the live handle it looks up: joins and the listener's
\* proof of life are always spooled, a claim only without a daemon.
Verb(s) ==
    /\ running[s] # NoPid
    /\ \E h \in Named(s) \ ended :
       \/ Answered(NameOp("claim", h))
       \/ \E op \in {"join", "claim", "touch"} :
            /\ Queue(NameOp(op, h))
            /\ UNCHANGED <<rows, crashes, restless, halfReaped>>
       \/ /\ h \in held /\ held' = held \ {h}      \* gives its task back
          /\ UNCHANGED <<sidOf, ended, pidOf, silent, members>>
          /\ UNCHANGED <<files, crashes, restless, halfReaped>>
    /\ UNCHANGED <<procs, bound>>

-----------------------------------------------------------------------------
(* The drain. *)

DrainApply(f) ==
    /\ Apply(f)
    /\ spool' = spool \ {f}
    /\ bound' = BoundAfter(f)
    /\ UNCHANGED <<nfiles, procs, crashes>>

\* Killed before the file is removed, perhaps before the operation is done.
DrainKilled(f) ==
    /\ Crash
    /\ Apply(f) \/ ApplyCut(f)
    /\ bound' = BoundAfter(f)
    /\ UNCHANGED <<files, procs>>

-----------------------------------------------------------------------------
(* The operator's sweeps. *)

\* What kill(pid, 0) says of each process: that of a running one is certain;
\* a dead one's number may have gone to another process, of anyone.
Probes == {v \in [1..npids -> {"alive", "dead", "unknown"}] :
             \A s \in Sids : running[s] # NoPid => v[running[s]] = "alive"}

PidAlive(v, p) == IF p = NoPid THEN "unknown" ELSE v[p]

\* Mutant: silence is enough.
DueSilent(v) ==
    {h \in Handles \ ended : sidOf[h] # None /\ (h \in silent \/ PidAlive(v, pidOf[h]) = "dead")}

Due(v) ==
    {h \in Handles \ ended :
        /\ sidOf[h] # None
        /\ PidAlive(v, pidOf[h]) # "alive"
        /\ PidAlive(v, pidOf[h]) = "dead" \/ h \in silent}

\* A sweep may find nothing.
Reap ==
    \E v \in Probes :
        /\ Retire(Due(v))
        /\ UNCHANGED <<procs, files, crashes, bound>>

ReapKilled ==
    /\ Crash
    /\ \E v \in Probes : \E h \in Due(v) : \E done \in SUBSET (Due(v) \ {h}) :
         /\ RetireCut(done, h)
         /\ halfReaped' = (halfReaped \ done) \cup {h}
    /\ UNCHANGED <<procs, files, bound>>

\* prune and the purge of ghost members: rows not seen for long enough.
Prune(h) ==
    /\ h \in members
    /\ members' = members \ {h}
    /\ UNCHANGED <<sidOf, ended, pidOf, silent, held>>
    /\ UNCHANGED <<procs, files, crashes, bound, restless, halfReaped>>

\* Mutant: a forgotten row leaves its archive stamp to the next of its name.
ForgetHalf(h) ==
    /\ sidOf[h] # None
    /\ sidOf' = [sidOf EXCEPT ![h] = None]
    /\ pidOf' = [pidOf EXCEPT ![h] = NoPid]
    /\ silent' = silent \ {h} /\ members' = members \ {h}
    /\ bound' = bound \ {sidOf[h]}
    /\ UNCHANGED <<ended, held, procs, files, crashes, restless, halfReaped>>

\* The row and the memberships go; tasks keep their owner's name.
Forget(h) ==
    /\ sidOf[h] # None
    /\ sidOf' = [sidOf EXCEPT ![h] = None]
    /\ pidOf' = [pidOf EXCEPT ![h] = NoPid]
    /\ ended' = ended \ {h} /\ silent' = silent \ {h} /\ members' = members \ {h}
    /\ bound' = bound \ {sidOf[h]}
    /\ restless' = restless \ {h} /\ halfReaped' = halfReaped \ {h}
    /\ UNCHANGED <<held, procs, files, crashes>>

FallSilent(h) ==
    /\ sidOf[h] # None /\ h \notin silent
    /\ silent' = silent \cup {h}
    /\ UNCHANGED <<sidOf, ended, pidOf, members, held>>
    /\ UNCHANGED <<procs, files, crashes, bound, restless, halfReaped>>

SessionStep(s) == Launch(s) \/ StartHook(s) \/ Turn(s) \/ EndHook(s) \/ SessionCrash(s) \/ Verb(s)

Next ==
    \/ \E s \in Sids : SessionStep(s)
    \/ \E f \in spool : DrainApply(f) \/ DrainKilled(f)
    \/ Reap \/ ReapKilled
    \/ \E h \in Handles : Prune(h) \/ Forget(h) \/ FallSilent(h)

Spec == Init /\ [][Next]_vars

-----------------------------------------------------------------------------
(* Properties. *)

\* lib.rs: "pid confirmed ALIVE -> NEVER reap".  A session whose present start
\* took effect is live under its own pid until its process ends: no sweep,
\* however silent it is, no heartbeat without a pid and no repeated or late call
\* of this life archives it.  Only a call of an earlier life, or a forget, can.
RunningStaysLive ==
    \A s \in bound :
        /\ running[s] # NoPid
        /\ \E h \in Handles \ ended : sidOf[h] = s /\ pidOf[h] = running[s]

\* An archived session holds no room and no task, or what it holds was given to
\* it afterwards, or the sweep that archived it was killed; if it was its own
\* end that was cut short, that end is still in the spool and will be repeated.
ArchivedHoldsNothing ==
    \A h \in ended \cap (members \cup held) :
        \/ h \in restless \cup halfReaped
        \/ \E f \in spool : f.op = "end" /\ f.sid = sidOf[h]
=============================================================================
