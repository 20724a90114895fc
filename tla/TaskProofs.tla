------------------------------ MODULE TaskProofs ------------------------------
(***************************************************************************)
(* What holds of the task board for any set of tasks and sessions; that    *)
(* the spool does not disturb it, and what a session may rely on when it   *)
(* was told it owns a task, for any tasks, sessions and bounds.            *)
(***************************************************************************)
EXTENDS TaskClaims, TLAPS

(***************************************************************************)
(* Type correctness.                                                       *)
(***************************************************************************)

\* Every operation of the task store leaves well-typed rows.
THEOREM TypeCorrect == Spec => []TypeOK
<1>1. Init => TypeOK
  BY DEF Init, TypeOK, Origins
<1>2. TypeOK /\ [Next]_board => TypeOK'
  <2> SUFFICES ASSUME TypeOK, [Next]_board PROVE TypeOK'
    OBVIOUS
  <2> USE TaskConstants DEF TypeOK
  <2>1. ASSUME NEW t \in Tasks, NEW from \in From, NEW startReady \in BOOLEAN,
               Create(t, from, startReady)
        PROVE  TypeOK'
    BY <2>1 DEF Create, States
  <2>2. ASSUME NEW t \in Tasks, NEW s \in Workers, Claim(t, s)
        PROVE  TypeOK'
    BY <2>2 DEF Claim, States
  <2>3. ASSUME NEW t \in Tasks, NEW s \in Workers, Release(t, s)
        PROVE  TypeOK'
    BY <2>3 DEF Release
  <2>4. ASSUME NEW t \in Tasks, NEW to \in Moves, NEW actor \in Actors,
               SetState(t, to, actor)
        PROVE  TypeOK'
    BY <2>4 DEF SetState
  <2>5. ASSUME NEW t \in Tasks, GrantClose(t)
        PROVE  TypeOK'
    BY <2>5 DEF GrantClose
  <2>6. ASSUME NEW t \in Tasks, NEW u \in Tasks, DepAdd(t, u) \/ DepRm(t, u)
        PROVE  TypeOK'
    BY <2>6 DEF DepAdd, DepRm
  <2>7. ASSUME NEW s \in Workers, SessionEnd(s)
        PROVE  TypeOK'
    BY <2>7 DEF SessionEnd, Held
  <2>8. ASSUME NEW s \in Workers, SessionStart(s)
        PROVE  TypeOK'
    BY <2>8 DEF SessionStart
  <2>9. CASE UNCHANGED board
    BY <2>9 DEF board
  <2> QED
    BY <2>1, <2>2, <2>3, <2>4, <2>5, <2>6, <2>7, <2>8, <2>9 DEF Next
<1> QED
  BY <1>1, <1>2, PTL DEF Spec

(***************************************************************************)
(* The dependency graph.                                                   *)
(***************************************************************************)

\* An edge joins tasks that exist, and no operation removes a task.
DepsExist == \A t, u \in Tasks : <<t, u>> \in deps => Exists(t) /\ Exists(u)

GraphInv == TypeOK /\ DepsExist /\ Acyclic

\* Adding an edge after the walk of `reaches` has found no way back keeps the
\* graph acyclic: what the walk covered, C, is closed under the old edges and
\* does not hold t, so a set either meets C, and is decided by the old edges
\* inside C, or avoids C, and then avoids u, the only new target.
LEMMA NewEdgeIsSafe ==
    ASSUME NEW t \in Tasks, NEW u \in Tasks, Acyclic, ~Reaches(u, t),
           deps' = deps \cup {<<t, u>>}
    PROVE  Acyclic'
<1>1. PICK C \in SUBSET Tasks : /\ u \in C /\ t \notin C
                                /\ \A x \in C : DependsOn(x) \subseteq C
  BY DEF Reaches
<1>2. \A x \in Tasks : /\ x # t => DependsOn(x)' = DependsOn(x)
                       /\ DependsOn(x)' \subseteq DependsOn(x) \cup {u}
  BY DEF DependsOn
<1>3. SUFFICES ASSUME NEW S \in SUBSET Tasks, S # {}
               PROVE  \E x \in S : DependsOn(x)' \cap S = {}
  BY DEF Acyclic
<1>4. CASE S \cap C # {}
  <2>1. PICK x \in S \cap C : DependsOn(x) \cap (S \cap C) = {}
    BY <1>4 DEF Acyclic
  <2>2. DependsOn(x) \cap S = {}
    BY <2>1, <1>1
  <2> QED
    BY <2>1, <2>2, <1>1, <1>2
<1>5. CASE S \cap C = {}
  <2>1. PICK x \in S : DependsOn(x) \cap S = {}
    BY <1>3 DEF Acyclic
  <2>2. u \notin S
    BY <1>1, <1>5
  <2> QED
    BY <2>1, <2>2, <1>2
<1> QED
  BY <1>4, <1>5

\* Removing edges never closes a cycle.
LEMMA FewerEdgesAreSafe ==
    ASSUME Acyclic, deps' \subseteq deps
    PROVE  Acyclic'
<1>1. SUFFICES ASSUME NEW S \in SUBSET Tasks, S # {}
               PROVE  \E x \in S : DependsOn(x)' \cap S = {}
  BY DEF Acyclic
<1>2. PICK x \in S : DependsOn(x) \cap S = {}
  BY <1>1 DEF Acyclic
<1>3. DependsOn(x)' \subseteq DependsOn(x)
  BY DEF DependsOn
<1> QED
  BY <1>2, <1>3

LEMMA GraphInductive == GraphInv /\ TypeOK' /\ [Next]_board => GraphInv'
<1> SUFFICES ASSUME GraphInv, TypeOK', [Next]_board PROVE DepsExist' /\ Acyclic'
  BY DEF GraphInv
<1> USE TaskConstants DEF GraphInv
<1>1. ASSUME deps' = deps, \A t \in Tasks : Exists(t) => Exists(t)'
      PROVE  DepsExist' /\ Acyclic'
  BY <1>1, FewerEdgesAreSafe DEF DepsExist
<1>2. ASSUME NEW t \in Tasks, NEW from \in From, NEW startReady \in BOOLEAN,
             Create(t, from, startReady)
      PROVE  DepsExist' /\ Acyclic'
  BY <1>1, <1>2 DEF Create, Exists, TypeOK
<1>3. ASSUME NEW t \in Tasks, NEW s \in Workers, Claim(t, s)
      PROVE  DepsExist' /\ Acyclic'
  BY <1>1, <1>3 DEF Claim, Exists, TypeOK
<1>4. ASSUME NEW t \in Tasks, NEW to \in Moves, NEW actor \in Actors,
             SetState(t, to, actor)
      PROVE  DepsExist' /\ Acyclic'
  BY <1>1, <1>4 DEF SetState, Exists, TypeOK, States
<1>5. ASSUME NEW t \in Tasks, NEW u \in Tasks, DepAdd(t, u)
      PROVE  DepsExist' /\ Acyclic'
  <2>1. Acyclic'
    BY <1>5, NewEdgeIsSafe DEF DepAdd
  <2>2. DepsExist'
    BY <1>5 DEF DepAdd, DepsExist, Exists
  <2> QED
    BY <2>1, <2>2
<1>6. ASSUME NEW t \in Tasks, NEW u \in Tasks, DepRm(t, u)
      PROVE  DepsExist' /\ Acyclic'
  <2>1. Acyclic'
    BY <1>6, FewerEdgesAreSafe DEF DepRm
  <2>2. DepsExist'
    BY <1>6 DEF DepRm, DepsExist, Exists
  <2> QED
    BY <2>1, <2>2
<1>7. CASE \/ UNCHANGED board
           \/ \E t \in Tasks : GrantClose(t) \/ \E s \in Workers : Release(t, s)
           \/ \E s \in Workers : SessionEnd(s) \/ SessionStart(s)
  <2>1. deps' = deps /\ state' = state
    BY <1>7 DEF board, GrantClose, Release, SessionEnd, SessionStart
  <2> QED
    BY <1>1, <2>1 DEF Exists
<1> QED
  BY <1>2, <1>3, <1>4, <1>5, <1>6, <1>7 DEF Next

\* However dependencies are added and removed, and by whomever, the graph
\* never has a cycle.
THEOREM AlwaysAcyclic == Spec => []Acyclic
<1>1. Init => GraphInv
  <2>1. Init => DepsExist /\ Acyclic
    BY DEF Init, DepsExist, Acyclic, DependsOn
  <2>2. Init => TypeOK
    BY DEF Init, TypeOK, Origins
  <2> QED
    BY <2>1, <2>2 DEF GraphInv
<1>2. GraphInv => Acyclic
  BY DEF GraphInv
<1> QED
  BY <1>1, <1>2, GraphInductive, TypeCorrect, PTL DEF Spec

\* The board never waits on itself: the open tasks are a set like any other,
\* and the one of them that depends on no other is not blocked.
THEOREM WorkCanGoOn == Spec => []SomeWorkIsUnblocked
<1>1. Init => GraphInv
  <2>1. Init => DepsExist /\ Acyclic
    BY DEF Init, DepsExist, Acyclic, DependsOn
  <2>2. Init => TypeOK
    BY DEF Init, TypeOK, Origins
  <2> QED
    BY <2>1, <2>2 DEF GraphInv
<1>2. GraphInv => SomeWorkIsUnblocked
  <2> SUFFICES ASSUME GraphInv, NEW t \in Tasks, Open(t)
               PROVE  \E x \in Tasks : Open(x) /\ ~IsBlocked(x)
    BY DEF SomeWorkIsUnblocked
  <2> DEFINE S == {x \in Tasks : Open(x)}
  <2>1. PICK x \in S : DependsOn(x) \cap S = {}
    BY DEF GraphInv, Acyclic
  <2>2. ASSUME NEW y \in DependsOn(x)
        PROVE  state[y] \in Finished
    BY <2>1 DEF DependsOn, Open, GraphInv, DepsExist
  <2> QED
    BY <2>1, <2>2 DEF IsBlocked
<1> QED
  BY <1>1, <1>2, GraphInductive, TypeCorrect, PTL DEF Spec

(***************************************************************************)
(* Who holds a task and who may close it.                                  *)
(***************************************************************************)

\* No sequence of reopening, dragging, claiming and releasing gets a task of
\* the operator's to `done` without the operator or a grant.
THEOREM AuthorityKept == Spec => []CloseAuthority
<1>1. Init => CloseAuthority
  BY DEF Init, CloseAuthority
<1>2. TypeOK /\ CloseAuthority /\ [Next]_board => CloseAuthority'
  <2> SUFFICES ASSUME TypeOK, CloseAuthority, [Next]_board PROVE CloseAuthority'
    OBVIOUS
  <2> USE TaskConstants DEF TypeOK, CloseAuthority
  <2>1. ASSUME NEW t \in Tasks, NEW from \in From, NEW startReady \in BOOLEAN,
               Create(t, from, startReady)
        PROVE  CloseAuthority'
    BY <2>1 DEF Create
  <2>2. ASSUME NEW t \in Tasks, NEW s \in Workers, Claim(t, s)
        PROVE  CloseAuthority'
    BY <2>2 DEF Claim
  <2>3. ASSUME NEW t \in Tasks, NEW to \in Moves, NEW actor \in Actors,
               SetState(t, to, actor)
        PROVE  CloseAuthority'
    BY <2>3 DEF SetState, CanMove, MayClose
  <2>4. ASSUME NEW t \in Tasks, GrantClose(t)
        PROVE  CloseAuthority'
    BY <2>4 DEF GrantClose
  <2>5. CASE \/ UNCHANGED board
             \/ \E t \in Tasks : \/ \E s \in Workers : Release(t, s)
                                 \/ \E u \in Tasks : DepAdd(t, u) \/ DepRm(t, u)
             \/ \E s \in Workers : SessionEnd(s) \/ SessionStart(s)
    BY <2>5 DEF board, Release, DepAdd, DepRm, SessionEnd, SessionStart
  <2> QED
    BY <2>1, <2>2, <2>3, <2>4, <2>5 DEF Next
<1> QED
  BY <1>1, <1>2, TypeCorrect, PTL DEF Spec

\* The dashboard's orphan badge never points at a task somebody works on.
THEOREM BadgeIsTrue == Spec => []OrphansAreUnowned
<1>1. Init => OrphansAreUnowned
  BY DEF Init, OrphansAreUnowned
<1>2. TypeOK /\ OrphansAreUnowned /\ [Next]_board => OrphansAreUnowned'
  <2> SUFFICES ASSUME TypeOK, OrphansAreUnowned, [Next]_board PROVE OrphansAreUnowned'
    OBVIOUS
  <2> USE DEF TypeOK, OrphansAreUnowned
  <2>1. ASSUME NEW t \in Tasks, NEW s \in Workers, Claim(t, s)
        PROVE  OrphansAreUnowned'
    BY <2>1 DEF Claim
  <2>2. ASSUME NEW t \in Tasks, NEW s \in Workers, Release(t, s)
        PROVE  OrphansAreUnowned'
    BY <2>2 DEF Release
  <2>3. ASSUME NEW s \in Workers, SessionEnd(s)
        PROVE  OrphansAreUnowned'
    BY <2>3 DEF SessionEnd
  <2>4. CASE \/ UNCHANGED board
             \/ \E t \in Tasks :
                  \/ \E from \in From, startReady \in BOOLEAN : Create(t, from, startReady)
                  \/ \E to \in Moves, actor \in Actors : SetState(t, to, actor)
                  \/ GrantClose(t)
                  \/ \E u \in Tasks : DepAdd(t, u) \/ DepRm(t, u)
             \/ \E s \in Workers : SessionStart(s)
    BY <2>4 DEF board, Create, SetState, GrantClose, DepAdd, DepRm, SessionStart
  <2> QED
    BY <2>1, <2>2, <2>3, <2>4 DEF Next
<1> QED
  BY <1>1, <1>2, TypeCorrect, PTL DEF Spec

\* A claim is never taken over: between two holders a task is free, because the
\* one UPDATE that sets the holder asks for a row that has none.
THEOREM ClaimsAreExclusive == Spec => NoStolenClaim
<1> DEFINE Handover == \A t \in Tasks : claimedBy[t] # None => claimedBy'[t] \in {claimedBy[t], None}
<1>1. TypeOK /\ [Next]_board => [Handover]_board
  <2> SUFFICES ASSUME TypeOK, Next PROVE Handover
    OBVIOUS
  <2> USE DEF TypeOK
  <2>1. ASSUME NEW t \in Tasks, NEW s \in Workers, Claim(t, s) \/ Release(t, s)
        PROVE  Handover
    BY <2>1 DEF Claim, CanClaim, Release
  <2>2. ASSUME NEW s \in Workers, SessionEnd(s)
        PROVE  Handover
    BY <2>2 DEF SessionEnd
  <2>3. CASE \/ \E t \in Tasks :
                  \/ \E from \in From, startReady \in BOOLEAN : Create(t, from, startReady)
                  \/ \E to \in Moves, actor \in Actors : SetState(t, to, actor)
                  \/ GrantClose(t)
                  \/ \E u \in Tasks : DepAdd(t, u) \/ DepRm(t, u)
             \/ \E s \in Workers : SessionStart(s)
    BY <2>3 DEF Create, SetState, GrantClose, DepAdd, DepRm, SessionStart
  <2> QED
    BY <2>1, <2>2, <2>3 DEF Next
<1> QED
  BY <1>1, TypeCorrect, PTL DEF Spec, NoStolenClaim

\* What was dropped on purpose stays dropped: neither a claim nor a move from
\* the board, the command line or Telegram brings it back.
THEOREM DroppedIsFinal == Spec => DroppedStaysDropped
<1> DEFINE Stays == \A t \in Tasks : state[t] = "dropped" => state'[t] = "dropped"
<1>1. TypeOK /\ [Next]_board => [Stays]_board
  <2> SUFFICES ASSUME TypeOK, Next PROVE Stays
    OBVIOUS
  <2> USE DEF TypeOK
  <2>1. ASSUME NEW t \in Tasks, NEW from \in From, NEW startReady \in BOOLEAN,
               Create(t, from, startReady)
        PROVE  Stays
    BY <2>1 DEF Create, Exists
  <2>2. ASSUME NEW t \in Tasks, NEW s \in Workers, Claim(t, s)
        PROVE  Stays
    BY <2>2 DEF Claim, CanClaim, Claimable
  <2>3. ASSUME NEW t \in Tasks, NEW to \in Moves, NEW actor \in Actors,
               SetState(t, to, actor)
        PROVE  Stays
    BY <2>3 DEF SetState, CanMove
  <2>4. CASE \/ \E t \in Tasks :
                  \/ \E s \in Workers : Release(t, s)
                  \/ GrantClose(t)
                  \/ \E u \in Tasks : DepAdd(t, u) \/ DepRm(t, u)
             \/ \E s \in Workers : SessionEnd(s) \/ SessionStart(s)
    BY <2>4 DEF Release, GrantClose, DepAdd, DepRm, SessionEnd, SessionStart
  <2> QED
    BY <2>1, <2>2, <2>3, <2>4 DEF Next
<1> QED
  BY <1>1, TypeCorrect, PTL DEF Spec, DroppedStaysDropped

(***************************************************************************)
(* The spooled operations are those the sessions asked for.                *)
(***************************************************************************)

\* Files hold operations of sessions, of the kinds that may take the spool.
FilesAsked ==
    \A f \in spool : /\ f.op \in Spooled
                     /\ f.task \in Tasks /\ f.session \in Workers
                     /\ f.op = "task_state" => f.to \in Moves
                     /\ f.op = "task_release" => <<f.session, f.task>> \in letGo

LEMMA FilesAskedInductive == FilesAsked /\ [ClaimsNext]_vars => FilesAsked'
<1> SUFFICES ASSUME FilesAsked, [ClaimsNext]_vars PROVE FilesAsked'
  OBVIOUS
<1> USE DEF FilesAsked
<1>1. ASSUME spool' \subseteq spool, letGo' = letGo PROVE FilesAsked'
  BY <1>1
<1>2. ASSUME NEW f \in spool, DrainApply(f) PROVE FilesAsked'
  BY <1>1, <1>2 DEF DrainApply
<1>3. CASE DrainRemove \/ DaemonRestart
  BY <1>1, <1>3 DEF DrainRemove, DaemonRestart
<1>4. ASSUME NEW t \in Tasks, OperatorActs(t) PROVE FilesAsked'
  BY <1>1, <1>4 DEF OperatorActs, claims
<1>5. ASSUME NEW t \in Tasks, NEW s \in Workers, SessionActs(t, s) PROVE FilesAsked'
  <2>1. CASE ClaimWon(t, s) \/ ClaimRefused(t, s) \/ ReleaseSent(t, s)
    BY <1>1, <2>1 DEF ClaimWon, ClaimRefused, ReleaseSent
  <2>2. CASE \E to \in Moves : StateSent(t, to, s)
    BY <1>1, <2>2 DEF StateSent, claims
  <2>3. ASSUME NEW g, g.op \in Spooled, g.task = t, g.session = s,
               g.op = "task_state" => g.to \in Moves,
               g.op = "task_release" => <<s, t>> \in letGo',
               spool' = spool \cup {g}, letGo \subseteq letGo'
        PROVE  FilesAsked'
    BY <2>3
  <2>5. CASE ClaimQueued(t, s)
    BY <2>3, <2>5 DEF ClaimQueued, Queue
  <2>6. CASE ReleaseQueued(t, s)
    BY <2>3, <2>6 DEF ReleaseQueued, Queue
  <2>4. ASSUME NEW to \in Moves, StateQueued(t, to, s) PROVE FilesAsked'
    BY <2>3, <2>4 DEF StateQueued, Queue
  <2> QED
    BY <1>5, <2>1, <2>2, <2>4, <2>5, <2>6 DEF SessionActs
<1>6. ASSUME NEW s \in Workers,
             Confirmed(s) \/ LostTheRace(s) \/ Unconfirmed(s) \/ End(s) \/ Start(s)
      PROVE  FilesAsked'
  BY <1>1, <1>6 DEF Confirmed, LostTheRace, Unconfirmed, StopWaiting, End, Start, claims
<1>7. CASE UNCHANGED vars
  BY <1>1, <1>7 DEF vars, claims
<1> QED
  BY <1>2, <1>3, <1>4, <1>5, <1>6, <1>7 DEF ClaimsNext

(***************************************************************************)
(* The refinement.                                                         *)
(***************************************************************************)

LEMMA StepsImplementBoard == FilesAsked /\ [ClaimsNext]_vars => [Next]_board
<1> SUFFICES ASSUME FilesAsked, [ClaimsNext]_vars PROVE [Next]_board
  OBVIOUS
<1> Workers \subseteq Actors
  BY TaskConstants DEF Actors
<1>1. ASSUME NEW f \in spool, DrainApply(f) PROVE [Next]_board
  <2>1. f.task \in Tasks /\ f.session \in Workers /\ (f.op = "task_state" => f.to \in Moves)
    BY DEF FilesAsked
  <2>2. CASE f.op = "task_claim" /\ ApplyClaim(f.task, f.session)
    BY <2>1, <2>2 DEF ApplyClaim, Next
  <2>3. CASE f.op = "task_release" /\ ApplyRelease(f.task, f.session)
    BY <2>1, <2>3 DEF ApplyRelease, Next
  <2>4. CASE f.op = "task_state" /\ ApplyState(f.task, f.to, f.session)
    BY <2>1, <2>4 DEF ApplyState, Next
  <2> QED
    BY <1>1, <2>2, <2>3, <2>4 DEF DrainApply
<1>2. CASE DrainRemove \/ DaemonRestart
  BY <1>2 DEF DrainRemove, DaemonRestart
<1>3. ASSUME NEW t \in Tasks, OperatorActs(t) PROVE [Next]_board
  BY <1>3 DEF OperatorActs, Next, Actors
<1>4. ASSUME NEW t \in Tasks, NEW s \in Workers, SessionActs(t, s) PROVE [Next]_board
  <2>1. CASE ClaimWon(t, s) \/ ReleaseSent(t, s)
    BY <2>1 DEF ClaimWon, ReleaseSent, Next
  <2>2. CASE \E to \in Moves : StateSent(t, to, s)
    BY <2>2 DEF StateSent, Next
  <2>3. CASE \/ ClaimRefused(t, s) \/ ClaimQueued(t, s) \/ ReleaseQueued(t, s)
             \/ \E to \in Moves : StateQueued(t, to, s)
    BY <2>3 DEF ClaimRefused, ClaimQueued, ReleaseQueued, StateQueued, Queue
  <2> QED
    BY <1>4, <2>1, <2>2, <2>3 DEF SessionActs
<1>5. ASSUME NEW s \in Workers,
             Confirmed(s) \/ LostTheRace(s) \/ Unconfirmed(s) \/ End(s) \/ Start(s)
      PROVE  [Next]_board
  BY <1>5 DEF Confirmed, LostTheRace, Unconfirmed, StopWaiting, End, Start, Next
<1>6. CASE UNCHANGED vars
  BY <1>6 DEF vars
<1> QED
  BY <1>1, <1>2, <1>3, <1>4, <1>5, <1>6 DEF ClaimsNext

\* Late, reordered, repeated and refused operations of the spool amount to
\* operations called directly on the board: all that is proved of the board
\* holds of the fleet's use of it.
THEOREM SpoolImplementsBoard == ClaimsSpec => ImplementsBoard
<1>1. ClaimsInit => Init /\ FilesAsked
  BY DEF ClaimsInit, FilesAsked
<1> QED
  BY <1>1, FilesAskedInductive, StepsImplementBoard, PTL DEF ClaimsSpec, ImplementsBoard

(***************************************************************************)
(* What a session may rely on.                                             *)
(***************************************************************************)

LEMMA ClaimsTyped == ClaimsSpec => []TypeOK
<1>1. ClaimsSpec => Spec
  BY SpoolImplementsBoard DEF ImplementsBoard, Spec
<1> QED
  BY <1>1, TypeCorrect, PTL

LEMMA ClaimsTypeInductive == ClaimsTypeOK /\ [ClaimsNext]_vars => ClaimsTypeOK'
<1> SUFFICES ASSUME ClaimsTypeOK, [ClaimsNext]_vars PROVE ClaimsTypeOK'
  OBVIOUS
<1> Workers \subseteq Sessions /\ Moves \subseteq States
  BY TaskConstants
<1> USE DEF ClaimsTypeOK
<1>1. ASSUME NEW f \in spool, DrainApply(f) PROVE ClaimsTypeOK'
  BY <1>1 DEF DrainApply
<1>2. CASE DrainRemove \/ DaemonRestart
  BY <1>2 DEF DrainRemove, DaemonRestart
<1>3. ASSUME NEW t \in Tasks, OperatorActs(t) PROVE ClaimsTypeOK'
  BY <1>3 DEF OperatorActs, claims
<1>4. ASSUME NEW t \in Tasks, NEW s \in Workers, SessionActs(t, s) PROVE ClaimsTypeOK'
  <2>1. CASE ClaimWon(t, s) \/ ClaimRefused(t, s) \/ ReleaseSent(t, s)
    BY <2>1 DEF ClaimWon, ClaimRefused, ReleaseSent, Tell
  <2>2. CASE ClaimQueued(t, s)
    <3>1. [op |-> "task_claim", n |-> nfiles, task |-> t, session |-> s] \in TaskFile
      BY DEF TaskFile, ClaimFile
    <3>2. told[s][t] \in {"nothing", "owned", "lost"}
      OBVIOUS
    <3> QED
      BY <2>2, <3>1, <3>2 DEF ClaimQueued, Queue, Tell
  <2>3. CASE ReleaseQueued(t, s)
    <3>1. [op |-> "task_release", n |-> nfiles, task |-> t, session |-> s] \in TaskFile
      BY DEF TaskFile, ClaimFile
    <3> QED
      BY <2>3, <3>1 DEF ReleaseQueued, Queue, Tell
  <2>4. ASSUME NEW to \in Moves, StateSent(t, to, s) PROVE ClaimsTypeOK'
    BY <2>4 DEF StateSent, claims
  <2>5. ASSUME NEW to \in Moves, StateQueued(t, to, s) PROVE ClaimsTypeOK'
    <3>1. [op |-> "task_state", n |-> nfiles, task |-> t, to |-> to, session |-> s] \in TaskFile
      BY DEF TaskFile, StateFile
    <3> QED
      BY <2>5, <3>1 DEF StateQueued, Queue
  <2> QED
    BY <1>4, <2>1, <2>2, <2>3, <2>4, <2>5 DEF SessionActs
<1>5. ASSUME NEW s \in Workers, Confirmed(s) \/ LostTheRace(s) PROVE ClaimsTypeOK'
  <2>1. waiting[s] \in Tasks
    BY <1>5 DEF Confirmed, LostTheRace
  <2> QED
    BY <1>5, <2>1, SMTT(20) DEF Confirmed, LostTheRace, StopWaiting, Tell
<1>6. ASSUME NEW s \in Workers, Unconfirmed(s) \/ Start(s) PROVE ClaimsTypeOK'
  BY <1>6 DEF Unconfirmed, StopWaiting, Start, claims
<1>7. ASSUME NEW s \in Workers, End(s) PROVE ClaimsTypeOK'
  BY <1>7 DEF End
<1>8. CASE UNCHANGED vars
  BY <1>8 DEF vars, claims
<1> QED
  BY <1>1, <1>2, <1>3, <1>4, <1>5, <1>6, <1>7, <1>8 DEF ClaimsNext

\* Queued task operations and what sessions were told keep their types.
THEOREM ClaimsTypeCorrect == ClaimsSpec => []ClaimsTypeOK
<1>1. ClaimsInit => ClaimsTypeOK
  BY DEF ClaimsInit, ClaimsTypeOK
<1> QED
  BY <1>1, ClaimsTypeInductive, PTL DEF ClaimsSpec

OwnersInv == FilesAsked /\ OwnersHold

\* No step takes a task from a session that was told it owns it: a claim finds
\* the row held and changes nothing, only its holder or its holder's end
\* releases it, and both are told at once.
LEMMA OwnersInductive ==
    OwnersInv /\ TypeOK /\ ClaimsTypeOK /\ [ClaimsNext]_vars => OwnersInv'
<1> SUFFICES ASSUME OwnersInv, TypeOK, ClaimsTypeOK, [ClaimsNext]_vars
             PROVE  OwnersHold'
  BY FilesAskedInductive DEF OwnersInv
<1> FilesAsked /\ OwnersHold /\ Workers \subseteq Sessions
  BY TaskConstants DEF OwnersInv
<1> USE TaskConstants
<1>1. ASSUME UNCHANGED <<told, letGo>>, \A t \in Tasks : claimedBy[t] # None => claimedBy'[t] = claimedBy[t]
      PROVE  OwnersHold'
  BY <1>1 DEF ClaimsTypeOK, OwnersHold
<1>2. ASSUME NEW t \in Tasks, NEW s \in Sessions, Claim(t, s)
      PROVE  \A x \in Tasks : claimedBy[x] # None => claimedBy'[x] = claimedBy[x]
  BY <1>2 DEF Claim, CanClaim, TypeOK
<1>3. ASSUME NEW t \in Tasks, NEW s \in Sessions, NEW what \in {"nothing", "owned", "lost"},
             Tell(s, t, what), letGo' = letGo,
             what = "owned" /\ <<s, t>> \notin letGo => claimedBy'[t] = s,
             \A x \in Tasks : claimedBy[x] # None => claimedBy'[x] = claimedBy[x]
      PROVE  OwnersHold'
  BY <1>3 DEF ClaimsTypeOK, OwnersHold, Tell
<1>4. ASSUME NEW f \in spool, DrainApply(f)
      PROVE  OwnersHold'
  <2>1. f.task \in Tasks /\ f.session \in Sessions
    BY DEF FilesAsked
  <2>2. CASE f.op = "task_claim" /\ ApplyClaim(f.task, f.session)
    BY <1>1, <1>2, <1>4, <2>1, <2>2 DEF DrainApply, ApplyClaim, board
  <2>3. CASE f.op = "task_state" /\ ApplyState(f.task, f.to, f.session)
    BY <1>1, <1>4, <2>3 DEF DrainApply, ApplyState, SetState, board
  <2>4. CASE f.op = "task_release" /\ ApplyRelease(f.task, f.session)
    <3>1. <<f.session, f.task>> \in letGo
      BY <2>4 DEF FilesAsked
    <3>2. CASE UNCHANGED board
      BY <1>1, <1>4, <3>2 DEF DrainApply, board
    <3>3. CASE CanRelease(f.task, f.session) /\ Release(f.task, f.session)
      <4>1. /\ claimedBy' = [claimedBy EXCEPT ![f.task] = None]
            /\ claimedBy[f.task] = f.session
        BY <3>3 DEF Release, CanRelease
      <4> QED
        BY <1>4, <2>1, <3>1, <4>1 DEF DrainApply, OwnersHold, TypeOK
    <3> QED
      BY <2>4, <3>2, <3>3 DEF ApplyRelease
  <2> QED
    BY <1>4, <2>2, <2>3, <2>4 DEF DrainApply
<1>5. CASE DrainRemove \/ DaemonRestart
  BY <1>1, <1>5 DEF DrainRemove, DaemonRestart, board
<1>6. ASSUME NEW t \in Tasks, OperatorActs(t)
      PROVE  OwnersHold'
  BY <1>1, <1>6 DEF OperatorActs, Create, SetState, GrantClose, DepAdd, DepRm, claims
<1>7. ASSUME NEW t \in Tasks, NEW s \in Workers, SessionActs(t, s)
      PROVE  OwnersHold'
  <2>1. CASE ClaimWon(t, s)
    <3>1. claimedBy'[t] = s
      BY <2>1 DEF ClaimWon, Claim, TypeOK
    <3> QED
      BY <1>2, <1>3, <2>1, <3>1 DEF ClaimWon
  <2>2. CASE ClaimRefused(t, s)
    BY <1>3, <2>2 DEF ClaimRefused, board
  <2>3. CASE ClaimQueued(t, s)
    <3>1. told[s][t] \in {"nothing", "owned", "lost"} /\ claimedBy' = claimedBy
      BY <2>3 DEF ClaimsTypeOK, ClaimQueued, Queue, board
    <3>2. told[s][t] = "owned" /\ <<s, t>> \notin letGo => claimedBy[t] = s
      BY DEF OwnersHold
    <3> QED
      BY <1>3, <2>3, <3>1, <3>2 DEF ClaimQueued
  <2>4. CASE ReleaseSent(t, s)
    <3>1. /\ claimedBy' = [claimedBy EXCEPT ![t] = None] /\ claimedBy[t] = s
          /\ told' = [told EXCEPT ![s][t] = "nothing"] /\ letGo' = letGo
      BY <2>4 DEF ReleaseSent, Release, CanRelease, Tell
    <3> QED
      BY <3>1 DEF ClaimsTypeOK, OwnersHold, TypeOK
  <2>5. CASE ReleaseQueued(t, s)
    BY <2>5 DEF ReleaseQueued, Queue, Tell, ClaimsTypeOK, OwnersHold, board
  <2>6. ASSUME NEW to \in Moves, StateSent(t, to, s) \/ StateQueued(t, to, s)
        PROVE  OwnersHold'
    BY <1>1, <2>6 DEF StateSent, StateQueued, Queue, SetState, claims, board
  <2> QED
    BY <1>7, <2>1, <2>2, <2>3, <2>4, <2>5, <2>6 DEF SessionActs
<1>8. ASSUME NEW s \in Workers, Confirmed(s) \/ LostTheRace(s)
      PROVE  OwnersHold'
  <2>1. waiting[s] \in Tasks
    BY <1>8 DEF Confirmed, LostTheRace, ClaimsTypeOK
  <2>2. CASE Confirmed(s)
    BY <1>3, <2>1, <2>2 DEF Confirmed, StopWaiting, board
  <2>3. CASE LostTheRace(s)
    BY <1>3, <2>1, <2>3 DEF LostTheRace, StopWaiting, board
  <2> QED
    BY <1>8, <2>2, <2>3
<1>9. ASSUME NEW s \in Workers, Unconfirmed(s) \/ Start(s)
      PROVE  OwnersHold'
  BY <1>1, <1>9 DEF Unconfirmed, StopWaiting, Start, SessionStart, claims, board
<1>10. ASSUME NEW s \in Workers, End(s)
       PROVE  OwnersHold'
  <2>1. /\ claimedBy' = [t \in Tasks |-> IF t \in Held(s) THEN None ELSE claimedBy[t]]
        /\ told' = [told EXCEPT ![s] = [t \in Tasks |-> "nothing"]] /\ letGo' = letGo
    BY <1>10 DEF End, SessionEnd
  <2> QED
    BY <2>1 DEF ClaimsTypeOK, OwnersHold, Held
<1>11. CASE UNCHANGED vars
  BY <1>1, <1>11 DEF vars, claims, board
<1> QED
  BY <1>4, <1>5, <1>6, <1>7, <1>8, <1>9, <1>10, <1>11 DEF ClaimsNext

\* "You own it" stays true until the session itself gives the task back or
\* ends, however late, often or out of order claims and state changes of
\* anybody are drained.
THEOREM OwnersKeepTasks == ClaimsSpec => []OwnersHold
<1>1. ClaimsInit => OwnersInv
  BY DEF ClaimsInit, OwnersInv, FilesAsked, OwnersHold
<1>2. OwnersInv /\ TypeOK /\ ClaimsTypeOK /\ [ClaimsNext]_vars => OwnersInv'
  BY OwnersInductive
<1>3. OwnersInv => OwnersHold
  BY DEF OwnersInv
<1> QED
  BY <1>1, <1>2, <1>3, ClaimsTyped, ClaimsTypeCorrect, PTL DEF ClaimsSpec
=============================================================================
