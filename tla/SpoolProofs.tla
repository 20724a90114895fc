----------------------------- MODULE SpoolProofs -----------------------------
(***************************************************************************)
(* What holds of the spool for any set of calls, however often the daemon  *)
(* is killed or finds the database busy.                                   *)
(***************************************************************************)
EXTENDS Spool, FiniteSetTheorems, TLAPS

(***************************************************************************)
(* Type correctness.                                                       *)
(***************************************************************************)

\* Every step of a call and of the drain leaves well-typed files.
THEOREM SpoolTyped == Spec => []TypeOK
<1>1. Init => TypeOK
  BY ConstantsAssumption DEF Init, TypeOK
<1>2. TypeOK /\ [Next]_vars => TypeOK'
  <2> SUFFICES ASSUME TypeOK, [Next]_vars PROVE TypeOK'
    OBVIOUS
  <2> USE ConstantsAssumption DEF TypeOK, PutDown, drain
  <2>1. ASSUME NEW c \in Calls, Create(c) PROVE TypeOK'
    BY <2>1 DEF Create
  <2>2. ASSUME NEW c \in Calls, Write(c) \/ CallKilled(c) PROVE TypeOK'
    BY <2>2 DEF Write, CallKilled
  <2>3. CASE StartWalk
    BY <2>3 DEF StartWalk
  <2>4. ASSUME NEW c \in Calls, ReadEntry(c) PROVE TypeOK'
    BY <2>4 DEF ReadEntry
  <2>5. CASE Quarantine \/ RemoveFile
    BY <2>5 DEF Quarantine, RemoveFile
  <2>6. CASE ApplyOp
    BY <2>6 DEF ApplyOp
  <2>7. CASE KeepIt \/ DaemonRestart
    BY <2>7 DEF KeepIt, DaemonRestart
  <2>8. CASE Quiet \/ UNCHANGED vars
    BY <2>8 DEF Quiet, vars
  <2> QED
    BY <2>1, <2>2, <2>3, <2>4, <2>5, <2>6, <2>7, <2>8 DEF Next, Drain
<1> QED
  BY <1>1, <1>2, PTL DEF Spec

(***************************************************************************)
(* What the drain holds, and what became of each file.                     *)
(***************************************************************************)

\* Only the walk takes a file out of its directory, so what it has still to visit and
\* what it has in hand are there; and they are two different things.
WalkInv ==
    /\ \A c \in toVisit : name[c] = "json" /\ c # hand
    /\ hand # None => name[hand] = "json"

\* An operation that took effect was written and well formed, so that a file read
\* afterwards, by a daemon that was killed before removing it, is not set aside.
EffectInv ==
    /\ \A c \in Calls : applied[c] > 0 => /\ body[c] = "full" /\ c \notin Malformed
                                          /\ name[c] \in {"json", "removed"}
    /\ phase # "idle" => IF got = "full" THEN body[hand] = "full" ELSE applied[hand] = 0
    /\ phase = "applied" => applied[hand] > 0
    /\ \A c \in Calls : name[c] = "removed" => applied[c] > 0

\* The invariant of the walk.
SpoolInv == TypeOK /\ WalkInv /\ EffectInv

\* Each half of a write, each step of the walk and a kill between any two keep it.
LEMMA SpoolInvHolds == Spec => []SpoolInv
<1>1. Init => SpoolInv
  BY ConstantsAssumption DEF Init, SpoolInv, TypeOK, WalkInv, EffectInv
<1>2. SpoolInv /\ TypeOK' /\ [Next]_vars => SpoolInv'
  <2> SUFFICES ASSUME SpoolInv, TypeOK', [Next]_vars PROVE WalkInv' /\ EffectInv'
    BY DEF SpoolInv
  <2> USE ConstantsAssumption DEF SpoolInv, TypeOK, WalkInv, EffectInv, PutDown, drain
  <2>1. ASSUME NEW c \in Calls, Create(c) PROVE WalkInv' /\ EffectInv'
    BY <2>1 DEF Create
  <2>2. ASSUME NEW c \in Calls, Write(c) \/ CallKilled(c) PROVE WalkInv' /\ EffectInv'
    BY <2>2 DEF Write, CallKilled
  <2>3. CASE StartWalk
    BY <2>3 DEF StartWalk
  <2>4. ASSUME NEW c \in Calls, ReadEntry(c) PROVE WalkInv' /\ EffectInv'
    BY <2>4 DEF ReadEntry
  <2>5. CASE Quarantine
    BY <2>5 DEF Quarantine
  <2>6. CASE ApplyOp
    BY <2>6 DEF ApplyOp
  <2>7. CASE RemoveFile
    BY <2>7 DEF RemoveFile
  <2>8. CASE KeepIt \/ DaemonRestart
    BY <2>8 DEF KeepIt, DaemonRestart
  <2>9. CASE Quiet \/ UNCHANGED vars
    BY <2>9 DEF Quiet, vars
  <2> QED
    BY <2>1, <2>2, <2>3, <2>4, <2>5, <2>6, <2>7, <2>8, <2>9 DEF Next, Drain
<1> QED
  BY <1>1, <1>2, SpoolTyped, PTL DEF Spec

(***************************************************************************)
(* Repetitions.                                                            *)
(***************************************************************************)

\* An operation takes effect once, and once more for each kill of the daemon: while its
\* file is in the directory and not in hand, only kills account for what it did.
Repeated ==
    \A c \in Calls :
        applied[c] <= restarts + IF name[c] = "removed" \/ (phase = "applied" /\ hand = c)
                                 THEN 1 ELSE 0

\* No operation takes effect more often than the daemon was killed, plus once (dream.rs,
\* drain_spool: the file is removed after it was applied).
THEOREM OncePerKill == Spec => [](\A c \in Calls : applied[c] <= 1 + restarts)
<1>1. Init => Repeated
  BY DEF Init, Repeated
<1>2. SpoolInv /\ Repeated /\ [Next]_vars => Repeated'
  <2> SUFFICES ASSUME SpoolInv, Repeated, [Next]_vars PROVE Repeated'
    OBVIOUS
  <2> USE ConstantsAssumption DEF SpoolInv, TypeOK, WalkInv, EffectInv, Repeated, PutDown, drain
  <2>1. ASSUME NEW c \in Calls, Create(c) \/ Write(c) \/ CallKilled(c) PROVE Repeated'
    BY <2>1 DEF Create, Write, CallKilled
  <2>2. CASE StartWalk \/ (\E c \in Calls : ReadEntry(c)) \/ KeepIt
    BY <2>2 DEF StartWalk, ReadEntry, KeepIt
  <2>3. CASE Quarantine
    BY <2>3 DEF Quarantine
  <2>4. CASE ApplyOp
    BY <2>4 DEF ApplyOp
  <2>5. CASE RemoveFile
    BY <2>5 DEF RemoveFile
  <2>6. CASE DaemonRestart
    BY <2>6 DEF DaemonRestart
  <2>7. CASE Quiet \/ UNCHANGED vars
    BY <2>7 DEF Quiet, vars
  <2> QED
    BY <2>1, <2>2, <2>3, <2>4, <2>5, <2>6, <2>7 DEF Next, Drain
<1>3. TypeOK /\ Repeated => \A c \in Calls : applied[c] <= 1 + restarts
  BY DEF TypeOK, Repeated
<1> QED
  BY <1>1, <1>2, <1>3, SpoolInvHolds, SpoolTyped, PTL DEF Spec

\* Operations that took effect and whose files wait in the directory to take effect again:
\* each is there because the daemon was killed before removing it, and has not yet cost a
\* repetition.
Leftover ==
    {c \in Calls : name[c] = "json" /\ applied[c] > 0 /\ ~(phase = "applied" /\ hand = c)}

\* Every repetition, made or still to come, is paid for by a kill of its own.
KillsPay ==
    /\ IsFiniteSet(Repetitions) /\ IsFiniteSet(Leftover)
    /\ Cardinality(Repetitions) + Cardinality(Leftover) <= restarts

\* A set grows by at most the one element it is given.
LEMMA OneMoreAtMost ==
    ASSUME NEW S, IsFiniteSet(S), NEW x
    PROVE  IsFiniteSet(S \cup {x}) /\ Cardinality(S \cup {x}) <= Cardinality(S) + 1
<1>1. Cardinality(S) \in Nat
  BY FS_CardinalityType
<1> QED
  BY <1>1, FS_AddElement

\* An operation that takes effect once more is one repetition more, unless it is its first.
LEMMA OneMoreRepetition ==
    ASSUME TypeOK, NEW h \in Calls, applied' = [applied EXCEPT ![h] = @ + 1]
    PROVE  Repetitions' = IF applied[h] = 0 THEN Repetitions
                          ELSE Repetitions \cup {<<h, applied[h] + 1>>}
<1> USE DEF TypeOK
<1>1. \A x : x \in Repetitions <=> \E c \in Calls : \E k \in 2..applied[c] : x = <<c, k>>
  BY DEF Repetitions
<1>2. \A x : x \in Repetitions' <=> \E c \in Calls : \E k \in 2..applied'[c] : x = <<c, k>>
  BY DEF Repetitions
<1>3. /\ \A c \in Calls : applied[c] \in Nat
      /\ applied'[h] = applied[h] + 1 /\ \A c \in Calls \ {h} : applied'[c] = applied[c]
  OBVIOUS
<1>4. 2..applied'[h] = IF applied[h] = 0 THEN 2..applied[h]
                       ELSE (2..applied[h]) \cup {applied[h] + 1}
  <2> DEFINE n == applied[h]
  <2>1. n \in Nat /\ applied'[h] = n + 1
    BY <1>3
  <2> HIDE DEF n
  <2>2. \A k : k \in 2..(n + 1) <=> k \in 2..n \/ (n # 0 /\ k = n + 1)
    BY <2>1
  <2>3. 2..(n + 1) = IF n = 0 THEN 2..n ELSE (2..n) \cup {n + 1}
    BY <2>2, Zenon
  <2> QED
    BY <2>1, <2>3 DEF n
<1>5. ASSUME NEW x, x \in Repetitions
      PROVE  x \in Repetitions'
  <2>1. PICK c \in Calls : \E k \in 2..applied[c] : x = <<c, k>>
    BY <1>1, <1>5
  <2>2. PICK k \in 2..applied[c] : x = <<c, k>>
    BY <2>1
  <2>3. k \in 2..applied'[c]
    BY <1>3, <2>2
  <2> QED
    BY <1>2, <2>2, <2>3
<1>6. ASSUME NEW x, x \in Repetitions', x \notin Repetitions
      PROVE  applied[h] # 0 /\ x = <<h, applied[h] + 1>>
  <2>1. PICK c \in Calls : \E k \in 2..applied'[c] : x = <<c, k>>
    BY <1>2, <1>6
  <2>2. PICK k \in 2..applied'[c] : x = <<c, k>>
    BY <2>1
  <2>3. k \notin 2..applied[c]
    BY <1>1, <1>6, <2>2
  <2>4. c = h
    BY <1>3, <2>2, <2>3
  <2> QED
    BY <1>4, <2>2, <2>3, <2>4
<1>7. applied[h] # 0 => <<h, applied[h] + 1>> \in Repetitions'
  BY <1>2, <1>3
<1> QED
  BY <1>5, <1>6, <1>7

\* Only a kill between applying and removing leaves a file to be applied again, and only
\* applying such a file repeats anything.
LEMMA KillsPayHolds == Spec => []KillsPay
<1>1. Init => KillsPay
  <2> SUFFICES ASSUME Init PROVE KillsPay
    OBVIOUS
  <2>1. Repetitions = {} /\ Leftover = {}
    BY DEF Init, Repetitions, Leftover
  <2> QED
    BY <2>1, FS_EmptySet DEF Init, KillsPay
<1>2. SpoolInv /\ KillsPay /\ [Next]_vars => KillsPay'
  <2> SUFFICES ASSUME SpoolInv, KillsPay, [Next]_vars PROVE KillsPay'
    OBVIOUS
  <2> USE ConstantsAssumption DEF SpoolInv
  <2>1. /\ Cardinality(Repetitions) \in Nat /\ Cardinality(Leftover) \in Nat /\ restarts \in Nat
        /\ IsFiniteSet(Repetitions) /\ IsFiniteSet(Leftover)
        /\ Cardinality(Repetitions) + Cardinality(Leftover) <= restarts
    BY FS_CardinalityType DEF KillsPay, TypeOK
  <2>2. ASSUME applied' = applied, restarts' = restarts, Leftover' \subseteq Leftover
        PROVE  KillsPay'
    <3>1. Repetitions' = Repetitions
      BY <2>2 DEF Repetitions
    <3>2. IsFiniteSet(Leftover') /\ Cardinality(Leftover') <= Cardinality(Leftover)
      BY <2>1, <2>2, FS_Subset
    <3>3. Cardinality(Leftover') \in Nat
      BY <3>2, FS_CardinalityType
    <3> QED
      BY <2>1, <2>2, <3>1, <3>2, <3>3 DEF KillsPay
  <2>3. ASSUME NEW c \in Calls, Create(c) PROVE KillsPay'
    <3>1. Leftover' \subseteq Leftover
      BY <2>3 DEF Create, drain, Leftover, TypeOK, EffectInv
    <3> QED
      BY <2>2, <2>3, <3>1 DEF Create, drain
  <2>4. CASE (\E c \in Calls : Write(c) \/ CallKilled(c)) \/ StartWalk \/ KeepIt \/ Quiet
             \/ UNCHANGED vars
    <3>1. Leftover' \subseteq Leftover
      BY <2>4 DEF Write, CallKilled, StartWalk, KeepIt, Quiet, vars, drain, PutDown, Leftover, TypeOK
    <3> QED
      BY <2>2, <2>4, <3>1 DEF Write, CallKilled, StartWalk, KeepIt, Quiet, vars, drain
  <2>5. ASSUME NEW c \in Calls, ReadEntry(c) PROVE KillsPay'
    <3>1. Leftover' \subseteq Leftover
      BY <2>5 DEF ReadEntry, Leftover, TypeOK
    <3> QED
      BY <2>2, <2>5, <3>1 DEF ReadEntry
  <2>6. CASE Quarantine \/ RemoveFile
    <3>1. Leftover' \subseteq Leftover
      BY <2>6 DEF Quarantine, RemoveFile, PutDown, Leftover, TypeOK, WalkInv
    <3> QED
      BY <2>2, <2>6, <3>1 DEF Quarantine, RemoveFile
  <2>7. CASE ApplyOp
    <3>1. PICK h \in Calls : h = hand /\ name[h] = "json" /\ phase = "read"
      BY <2>7 DEF ApplyOp, TypeOK, WalkInv
    <3>2. /\ applied' = [applied EXCEPT ![h] = @ + 1] /\ phase' = "applied"
          /\ UNCHANGED <<hand, name, restarts>> /\ applied \in [Calls -> Nat]
      BY <2>7, <3>1 DEF ApplyOp, TypeOK
    <3>3. Leftover' = Leftover \ {h}
      BY <3>1, <3>2 DEF Leftover
    <3>4. h \in Leftover <=> applied[h] # 0
      BY <3>1, <3>2 DEF Leftover
    <3>5. /\ IsFiniteSet(Leftover')
          /\ Cardinality(Leftover') = IF applied[h] # 0 THEN Cardinality(Leftover) - 1
                                      ELSE Cardinality(Leftover)
      BY <2>1, <3>3, <3>4, FS_RemoveElement
    <3>6. Repetitions' = IF applied[h] = 0 THEN Repetitions
                         ELSE Repetitions \cup {<<h, applied[h] + 1>>}
      BY <3>2, OneMoreRepetition
    <3>7. /\ IsFiniteSet(Repetitions')
          /\ Cardinality(Repetitions') <= IF applied[h] = 0 THEN Cardinality(Repetitions)
                                          ELSE Cardinality(Repetitions) + 1
      <4> DEFINE new == <<h, applied[h] + 1>>
      <4> HIDE DEF new
      <4>1. /\ IsFiniteSet(Repetitions \cup {new})
            /\ Cardinality(Repetitions \cup {new}) <= Cardinality(Repetitions) + 1
        BY <2>1, OneMoreAtMost
      <4> QED
        BY <2>1, <3>6, <4>1 DEF new
    <3>8. Cardinality(Repetitions') \in Nat /\ Cardinality(Leftover') \in Nat
      BY <3>5, <3>7, FS_CardinalityType
    <3> QED
      BY <2>1, <3>2, <3>5, <3>7, <3>8 DEF KillsPay
  <2>8. CASE DaemonRestart
    <3>1. applied' = applied /\ restarts' = restarts + 1
      BY <2>8 DEF DaemonRestart
    <3>2. Repetitions' = Repetitions
      BY <3>1 DEF Repetitions
    <3>3. Leftover' \subseteq Leftover \cup {hand}
      BY <2>8 DEF DaemonRestart, PutDown, Leftover, TypeOK
    <3>4. /\ IsFiniteSet(Leftover \cup {hand})
          /\ Cardinality(Leftover \cup {hand}) <= Cardinality(Leftover) + 1
      BY <2>1, OneMoreAtMost
    <3>5. IsFiniteSet(Leftover') /\ Cardinality(Leftover') <= Cardinality(Leftover \cup {hand})
      BY <3>3, <3>4, FS_Subset
    <3>6. Cardinality(Leftover') \in Nat /\ Cardinality(Leftover \cup {hand}) \in Nat
      BY <3>4, <3>5, FS_CardinalityType
    <3> QED
      BY <2>1, <3>1, <3>2, <3>4, <3>5, <3>6 DEF KillsPay
  <2> QED
    BY <2>3, <2>4, <2>5, <2>6, <2>7, <2>8 DEF Next, Drain
<1> QED
  BY <1>1, <1>2, SpoolInvHolds, PTL DEF Spec

\* Over all the calls together, an operation takes effect again only at the price of a kill
\* between applying and removing (dream.rs, drain_spool), and no file is lost on its way.
THEOREM SpoolIsSafe == Spec => []SpoolSafety
<1>1. SpoolInv /\ KillsPay => SpoolSafety
  <2> SUFFICES ASSUME SpoolInv, KillsPay PROVE SpoolSafety
    OBVIOUS
  <2>1. /\ Cardinality(Repetitions) \in Nat /\ Cardinality(Leftover) \in Nat /\ restarts \in Nat
        /\ Cardinality(Repetitions) + Cardinality(Leftover) <= restarts
    BY FS_CardinalityType DEF KillsPay, SpoolInv, TypeOK
  <2>2. RepetitionNeedsRestart
    BY <2>1 DEF RepetitionNeedsRestart
  <2>3. GoneMeansApplied
    BY DEF SpoolInv, TypeOK, EffectInv, GoneMeansApplied
  <2> QED
    BY <2>2, <2>3 DEF SpoolInv, SpoolSafety
<1> QED
  BY <1>1, SpoolInvHolds, KillsPayHolds, PTL

(***************************************************************************)
(* Nothing is lost, and the promise is kept.                               *)
(***************************************************************************)

\* A file that is gone took effect, and one that was set aside never did (drain_spool:
\* only what was applied is removed, only what cannot be is renamed to .bad).
THEOREM NothingLostOnTheWay == Spec => []GoneMeansApplied
<1>1. SpoolInv => GoneMeansApplied
  BY DEF SpoolInv, TypeOK, EffectInv, GoneMeansApplied
<1> QED
  BY <1>1, SpoolInvHolds, PTL

\* What SpoolPromise sees of a call, spelt out.
Seen(c) == IF name[c] = "absent" THEN "idle"
           ELSE IF name[c] = "bad" THEN "setaside"
           ELSE IF applied[c] > 0 THEN "applied" ELSE "pending"

StatusSeen == \A c \in Calls : StatusOf(c) = Seen(c)

\* The refinement mapping and its spelling agree.
LEMMA StatusIsSeen == SpoolInv => StatusSeen
<1> SUFFICES ASSUME SpoolInv, NEW c \in Calls PROVE StatusOf(c) = Seen(c)
  BY DEF StatusSeen
<1> USE DEF SpoolInv, TypeOK, EffectInv, Seen
<1>1. CASE name[c] = "absent"
  BY <1>1 DEF StatusOf
<1>2. CASE name[c] = "bad"
  BY <1>2 DEF StatusOf
<1>3. CASE name[c] \in {"json", "removed"} /\ applied[c] > 0
  BY <1>3 DEF StatusOf
<1>4. CASE name[c] \in {"json", "removed"} /\ ~(applied[c] > 0)
  BY <1>4 DEF StatusOf
<1> QED
  BY <1>1, <1>2, <1>3, <1>4

\* A step moves one call along, from where SpoolPromise lets it move, or none.
Moves(c, from, to) ==
    /\ Seen(c) = from /\ Seen(c)' = to
    /\ \A d \in Calls \ {c} : Seen(d)' = Seen(d)

\* Creating a file, applying it and setting it aside each move its call; nothing else does.
LEMMA StepsMoveOne ==
    SpoolInv /\ [Next]_vars =>
        \/ \E c \in Calls : \/ Moves(c, "idle", "pending")
                           \/ Moves(c, "pending", "applied")
                           \/ Moves(c, "pending", "setaside")
        \/ \A c \in Calls : Seen(c)' = Seen(c)
<1> SUFFICES ASSUME SpoolInv, [Next]_vars,
                    ~ \A c \in Calls : Seen(c)' = Seen(c)
             PROVE  \E c \in Calls : \/ Moves(c, "idle", "pending")
                                    \/ Moves(c, "pending", "applied")
                                    \/ Moves(c, "pending", "setaside")
  OBVIOUS
<1> USE DEF SpoolInv, TypeOK, WalkInv, EffectInv, PutDown, drain, Seen, Moves
<1>1. ASSUME NEW c \in Calls, Create(c) PROVE Moves(c, "idle", "pending")
  BY <1>1 DEF Create
<1>2. ASSUME NEW c \in Calls, Write(c) \/ CallKilled(c) PROVE FALSE
  BY <1>2 DEF Write, CallKilled
<1>3. CASE StartWalk \/ (\E c \in Calls : ReadEntry(c)) \/ KeepIt \/ DaemonRestart
  BY <1>3 DEF StartWalk, ReadEntry, KeepIt, DaemonRestart
<1>4. CASE Quarantine
  <2>1. PICK h \in Calls : h = hand /\ name[h] = "json" /\ applied[h] = 0
    BY <1>4, ConstantsAssumption DEF Quarantine
  <2>2. name' = [name EXCEPT ![h] = "bad"] /\ applied' = applied
    BY <1>4, <2>1 DEF Quarantine
  <2> QED
    BY <2>1, <2>2
<1>5. CASE ApplyOp
  <2>1. PICK h \in Calls : h = hand /\ name[h] = "json"
    BY <1>5, ConstantsAssumption DEF ApplyOp
  <2>2. applied' = [applied EXCEPT ![h] = @ + 1] /\ name' = name
    BY <1>5, <2>1 DEF ApplyOp
  <2> QED
    BY <2>1, <2>2
<1>6. CASE RemoveFile
  BY <1>6, ConstantsAssumption DEF RemoveFile
<1>7. CASE Quiet \/ UNCHANGED vars
  BY <1>7 DEF Quiet, vars
<1> QED
  BY <1>1, <1>2, <1>3, <1>4, <1>5, <1>6, <1>7 DEF Next, Drain

\* The files, the walk and the kills implement SpoolPromise: a queued operation is
\* pending until it is applied or set aside, and neither is taken back.
THEOREM SpoolKeepsPromise == Spec => KeepsPromise
<1> DEFINE status == [c \in Calls |-> StatusOf(c)]
<1>1. Init => Promise!Init
  BY DEF Init, StatusOf, Promise!Init
<1>2. SpoolInv' => StatusSeen'
  BY StatusIsSeen, PTL
<1>3. SpoolInv /\ SpoolInv' /\ [Next]_vars => [Promise!Next]_status
  <2> SUFFICES ASSUME SpoolInv, SpoolInv', [Next]_vars PROVE [Promise!Next]_status
    OBVIOUS
  <2>1. /\ status = [c \in Calls |-> Seen(c)]
        /\ status' = [c \in Calls |-> Seen(c)']
    BY <1>2, StatusIsSeen DEF StatusSeen
  <2>2. ASSUME NEW c \in Calls, NEW from, NEW to, Moves(c, from, to)
        PROVE  status[c] = from /\ status' = [status EXCEPT ![c] = to]
    BY <2>1, <2>2 DEF Moves
  <2>3. CASE \A c \in Calls : Seen(c)' = Seen(c)
    BY <2>1, <2>3
  <2>4. CASE \E c \in Calls : \/ Moves(c, "idle", "pending")
                             \/ Moves(c, "pending", "applied")
                             \/ Moves(c, "pending", "setaside")
    BY <2>2, <2>4 DEF Promise!Next, Promise!Queue, Promise!Apply, Promise!SetAside, Promise!Move
  <2> QED
    BY <2>3, <2>4, StepsMoveOne
<1> QED
  BY <1>1, <1>3, SpoolInvHolds, PTL DEF Spec, KeepsPromise, Promise!Spec
=============================================================================
