------------------------------ MODULE TaskBoard ------------------------------
(***************************************************************************)
(* The work queue: tasks, who holds them, who may close them, and what they*)
(* wait for.  Every operation of crates/paos-tasks runs to its end under   *)
(* the daemon's one database lock, whoever asked for it (socket, spool,    *)
(* dashboard or Telegram), so each is one step.  What the store checks is  *)
(* a guard here; a refused call changes nothing and is no step.            *)
(***************************************************************************)
EXTENDS Naturals, FiniteSets

CONSTANTS
    Tasks, Sessions, Operator, None,
    From,       \* the origins of the tasks the instance creates
    Moves,      \* the states it moves tasks to
    Workers     \* the sessions that claim, release, end and start again

States    == {"proposed", "ready", "in_progress", "review", "done", "dropped"}
Claimable == {"proposed", "ready", "in_progress"}
Finished  == {"done", "dropped"}
Origins   == {"operator", "session"}
Actors    == Sessions \cup {Operator}

ASSUME TaskConstants ==
    /\ Operator \notin Sessions /\ None \notin Sessions /\ None # Operator
    /\ From \subseteq Origins /\ Moves \subseteq States /\ Workers \subseteq Sessions

VARIABLES
    state,      \* "absent" before the task is created
    origin,     \* who created it, which decides who may close it
    claimedBy,
    orphaned,   \* it lost its owner to a session's end
    grant,      \* the operator lets sessions close it
    movedBy,    \* who last changed its state through set_state
    deps,       \* <<t, u>>: t depends on u
    live        \* sessions not ended

board == <<state, origin, claimedBy, orphaned, grant, movedBy, deps, live>>

TypeOK ==
    /\ state \in [Tasks -> States \cup {"absent"}]
    /\ origin \in [Tasks -> Origins]
    /\ claimedBy \in [Tasks -> Sessions \cup {None}]
    /\ orphaned \in [Tasks -> BOOLEAN]
    /\ grant \in [Tasks -> BOOLEAN]
    /\ movedBy \in [Tasks -> Actors \cup {None}]
    /\ deps \subseteq Tasks \X Tasks
    /\ live \subseteq Sessions

Init ==
    /\ state = [t \in Tasks |-> "absent"]
    /\ origin = [t \in Tasks |-> "session"]
    /\ claimedBy = [t \in Tasks |-> None]
    /\ orphaned = [t \in Tasks |-> FALSE]
    /\ grant = [t \in Tasks |-> FALSE]
    /\ movedBy = [t \in Tasks |-> None]
    /\ deps = {}
    /\ live = Sessions

-----------------------------------------------------------------------------
(* Queries. *)

Exists(t)    == state[t] # "absent"
Open(t)      == Exists(t) /\ state[t] \notin Finished
DependsOn(t) == {u \in Tasks : <<t, u>> \in deps}
IsBlocked(t) == \E u \in DependsOn(t) : state[u] \notin Finished

\* Mutant: whoever holds a task may close it.
MayCloseOwn(t, actor) ==
    actor = Operator \/ origin[t] = "session" \/ grant[t] \/ claimedBy[t] = actor

MayClose(t, actor) == actor = Operator \/ origin[t] = "session" \/ grant[t]

\* Mutant: only direct dependencies are looked at.
ReachesDirectly(a, b) == b \in DependsOn(a) \cup {a}

\* b is found by walking the edges from a: it is in every set that holds a and
\* is closed under dependencies.
Reaches(a, b) ==
    \A S \in SUBSET Tasks : a \in S /\ (\A t \in S : DependsOn(t) \subseteq S) => b \in S

-----------------------------------------------------------------------------
(* Operations. *)

\* An operator's task waits for triage unless it says otherwise.
Create(t, from, startReady) ==
    /\ ~Exists(t)
    /\ state' = [state EXCEPT ![t] = IF from = "operator" /\ ~startReady
                                     THEN "proposed" ELSE "ready"]
    /\ origin' = [origin EXCEPT ![t] = from]
    /\ UNCHANGED <<claimedBy, orphaned, grant, movedBy, deps, live>>

\* Mutant: the UPDATE lost its `claimed_by IS NULL`.
CanClaimHeld(t) == state[t] \in Claimable

CanClaim(t) == claimedBy[t] = None /\ state[t] \in Claimable

\* Mutant: a rescue leaves the orphan mark.
ClaimOrphaned(t, s) ==
    /\ CanClaim(t)
    /\ claimedBy' = [claimedBy EXCEPT ![t] = s]
    /\ state' = [state EXCEPT ![t] = "in_progress"]
    /\ UNCHANGED <<origin, orphaned, grant, movedBy, deps, live>>

Claim(t, s) ==
    /\ CanClaim(t)
    /\ claimedBy' = [claimedBy EXCEPT ![t] = s]
    /\ state' = [state EXCEPT ![t] = "in_progress"]
    /\ orphaned' = [orphaned EXCEPT ![t] = FALSE]
    /\ UNCHANGED <<origin, grant, movedBy, deps, live>>

CanRelease(t, s) == claimedBy[t] = s

\* State and orphan mark stay as they are.
Release(t, s) ==
    /\ CanRelease(t, s)
    /\ claimedBy' = [claimedBy EXCEPT ![t] = None]
    /\ UNCHANGED <<state, origin, orphaned, grant, movedBy, deps, live>>

\* `done` may be reopened, `dropped` may not; only `done` asks for authority.
\* (Moving a task to the state it is in answers OK and changes nothing.)
CanMove(t, to, actor) ==
    /\ Exists(t)
    /\ state[t] # to => /\ state[t] # "dropped"
                        /\ to = "done" => MayClose(t, actor)

\* Mutant: moving a task assigns it to whoever moved it.
SetStateAssigns(t, to, actor) ==
    /\ state[t] # to /\ CanMove(t, to, actor)
    /\ state' = [state EXCEPT ![t] = to]
    /\ movedBy' = [movedBy EXCEPT ![t] = actor]
    /\ claimedBy' = [claimedBy EXCEPT ![t] = actor]
    /\ UNCHANGED <<origin, orphaned, grant, deps, live>>

\* The claim is not touched.
SetState(t, to, actor) ==
    /\ state[t] # to /\ CanMove(t, to, actor)
    /\ state' = [state EXCEPT ![t] = to]
    /\ movedBy' = [movedBy EXCEPT ![t] = actor]
    /\ UNCHANGED <<origin, claimedBy, orphaned, grant, deps, live>>

GrantClose(t) ==
    /\ Exists(t)
    /\ grant' = [grant EXCEPT ![t] = TRUE]
    /\ UNCHANGED <<state, origin, claimedBy, orphaned, movedBy, deps, live>>

DepAdd(t, u) ==
    /\ t # u /\ Exists(t) /\ Exists(u)
    /\ ~Reaches(u, t)
    /\ deps' = deps \cup {<<t, u>>}
    /\ UNCHANGED <<state, origin, claimedBy, orphaned, grant, movedBy, live>>

DepRm(t, u) ==
    /\ <<t, u>> \in deps
    /\ deps' = deps \ {<<t, u>>}
    /\ UNCHANGED <<state, origin, claimedBy, orphaned, grant, movedBy, live>>

\* orphan_claims_of: what the session held and had not finished goes back.
Held(s) == {t \in Tasks : claimedBy[t] = s /\ state[t] \notin Finished}

SessionEnd(s) ==
    /\ live' = live \ {s}
    /\ claimedBy' = [t \in Tasks |-> IF t \in Held(s) THEN None ELSE claimedBy[t]]
    /\ orphaned' = [t \in Tasks |-> t \in Held(s) \/ orphaned[t]]
    /\ UNCHANGED <<state, origin, grant, movedBy, deps>>

SessionStart(s) ==
    /\ live' = live \cup {s}
    /\ UNCHANGED <<state, origin, claimedBy, orphaned, grant, movedBy, deps>>

Next ==
    \/ \E t \in Tasks :
         \/ \E from \in From, startReady \in BOOLEAN : Create(t, from, startReady)
         \/ \E s \in Workers : Claim(t, s) \/ Release(t, s)
         \/ \E to \in Moves, actor \in Actors : SetState(t, to, actor)
         \/ GrantClose(t)
         \/ \E u \in Tasks : DepAdd(t, u) \/ DepRm(t, u)
    \/ \E s \in Workers : SessionEnd(s) \/ SessionStart(s)

Spec == Init /\ [][Next]_board

-----------------------------------------------------------------------------
(* Properties. *)

\* No chain of dependencies leads back to where it started, by whatever order
\* of additions and removals it came about: every set of tasks has one that
\* depends on none of the set.
Acyclic == \A S \in SUBSET Tasks : S # {} => \E t \in S : DependsOn(t) \cap S = {}

\* The board never stands still on itself: while any task is open, some open
\* task waits for nothing.
SomeWorkIsUnblocked ==
    (\E t \in Tasks : Open(t)) => \E t \in Tasks : Open(t) /\ ~IsBlocked(t)

\* A task the operator asked for is done only by the operator, or by a session
\* after a grant; however it was reopened, dragged or released in between.
CloseAuthority ==
    \A t \in Tasks : state[t] = "done" /\ origin[t] = "operator" /\ ~grant[t]
                     => movedBy[t] = Operator

\* The orphan mark means what the badge takes it to mean: nobody holds it.
OrphansAreUnowned == \A t \in Tasks : orphaned[t] => claimedBy[t] = None

\* Two sessions racing for a task are served one after the other: a held task
\* changes hands only through nobody's.
NoStolenClaim ==
    [][\A t \in Tasks : claimedBy[t] # None => claimedBy'[t] \in {claimedBy[t], None}]_board

\* Abandoned work is never resurrected, nor are its edges to others reason to
\* wait any longer.
DroppedStaysDropped ==
    [][\A t \in Tasks : state[t] = "dropped" => state'[t] = "dropped"]_board
=============================================================================
