-------------------------- MODULE BusDeliveryProofs --------------------------
(***************************************************************************)
(* That what a session is to see is never behind one of its cursors, for   *)
(* any rooms, sessions, readers, messages and bounds: HonestReceipts is an *)
(* inductive invariant of BusDelivery, of what must be seen whatever       *)
(* happens and of all messages as long as DND and the backlog cap hold     *)
(* none of them back.                                                      *)
(***************************************************************************)
EXTENDS BusDeliveryTyping, FiniteSetTheorems

(***************************************************************************)
(* Transcripts and what of them is covered.                                *)
(***************************************************************************)

LEMMA StartsWithItself == \A log \in Seq(Message) : StartsWith(log, log)
  BY DEF StartsWith

LEMMA StartsWithAppend ==
    ASSUME NEW log \in Seq(Message), NEW m \in Message
    PROVE  StartsWith(Append(log, m), log)
  BY DEF StartsWith

LEMMA StartsWithTransitive ==
    ASSUME NEW log1 \in Seq(Message), NEW log2 \in Seq(Message), NEW front \in Seq(Message),
           StartsWith(log1, front), StartsWith(log2, log1)
    PROVE  StartsWith(log2, front)
  BY DEF StartsWith

LEMMA CoveredGrows ==
    ASSUME NEW what, NEW log1 \in Seq(Message), NEW log2 \in Seq(Message), StartsWith(log2, log1),
           NEW got1, NEW got2, got1 \subseteq got2, NEW s, NEW n \in Nat,
           CoveredIn(log1, got1, s, n, what)
    PROVE  CoveredIn(log2, got2, s, n, what)
<1>1. Len(log1) \in Nat /\ Len(log2) \in Nat /\ n <= Len(log1) /\ Len(log1) <= Len(log2)
  BY DEF StartsWith, CoveredIn
<1>2. \A i \in 1..n : log1[i] = log2[i]
  BY <1>1 DEF StartsWith
<1> QED
  BY <1>1, <1>2 DEF CoveredIn

LEMMA NothingToCover ==
    ASSUME NEW what, NEW log \in Seq(Message), NEW got, NEW s
    PROVE  CoveredIn(log, got, s, 0, what)
  BY DEF CoveredIn

\* cap_backlog leaves these hits alone.
WithinCap(hits) == BacklogMax = 0 \/ Cardinality(hits) <= BacklogMax

\* No reader at its decision holds anything back, for DND or for the cap.
Unrestrained ==
    \A p \in Procs : pc[p] = "decide" => ~urgentOnly[p] /\ WithinCap(Hits(p))

\* The backlog cap drops nothing urgent and nothing of the operator's.
LEMMA CapKeepsMust ==
    ASSUME NEW log, NEW hits, NEW limit, NEW i \in hits, Must(log[i])
    PROVE  i \in CapBacklog(log, hits, limit)
  BY DEF CapBacklog

\* Printing what a reader prints covers all it has read: up to the cursor it
\* started from nothing was missing, and beyond it every message that must be
\* seen is a hit, under DND too, and survives the cap.  So is and does every
\* other message, when neither applies.
LEMMA PrintingCovers ==
    ASSUME NEW what, NEW log \in Seq(Message), NEW got, NEW s \in Sessions, NEW n \in Nat,
           NEW urgent \in BOOLEAN,
           what = "must" \/ (~urgent /\ WithinCap(UnreadFor(log, n, s, urgent))),
           \A i \in 1..Len(log) : i <= n /\ IsFor(log[i], s) /\ Counts(log[i], what)
                                  => log[i].id \in got
    PROVE  LET hits == UnreadFor(log, n, s, urgent)
           IN  CoveredIn(log, got \cup {log[i].id : i \in CapBacklog(log, hits, BacklogMax)},
                         s, Len(log), what)
<1> DEFINE hits == UnreadFor(log, n, s, urgent)
<1>1. ASSUME NEW i \in 1..Len(log), IsFor(log[i], s), Counts(log[i], what), i > n
      PROVE  i \in CapBacklog(log, hits, BacklogMax)
  <2>1. CASE Must(log[i])
    <3>1. i \in hits
      BY <1>1, <2>1 DEF UnreadFor
    <3> QED
      BY <2>1, <3>1, CapKeepsMust
  <2>2. CASE ~Must(log[i])
    <3>1. ~urgent /\ WithinCap(hits)
      BY <1>1, <2>2 DEF Counts
    <3>2. i \in hits
      BY <1>1, <3>1 DEF UnreadFor
    <3> QED
      BY <3>1, <3>2 DEF CapBacklog, WithinCap
  <2> QED
    BY <2>1, <2>2
<1>2. ASSUME NEW i \in 1..Len(log), IsFor(log[i], s), Counts(log[i], what), ~(i > n)
      PROVE  log[i].id \in got
  BY <1>2
<1> HIDE DEF hits
<1>3. CoveredIn(log, got \cup {log[i].id : i \in CapBacklog(log, hits, BacklogMax)}, s, Len(log), what)
  BY <1>1, <1>2 DEF CoveredIn
<1> QED
  BY <1>3 DEF hits

-----------------------------------------------------------------------------
(***************************************************************************)
(* Steps of the daemon and of session verbs.                               *)
(***************************************************************************)

\* Rooms whose name was never freed only grow, and nothing printed is unprinted.
Grow ==
    /\ reused \subseteq reused'
    /\ \A r \in Rooms \ reused' : StartsWith(transcript'[r], transcript[r])
    /\ \A s \in Sessions : delivered[s] \subseteq delivered'[s]

LEMMA GrowCovers ==
    ASSUME NEW what, TypeOK, TypeOK', Grow, NEW r \in Rooms \ reused', NEW s \in Sessions, NEW n \in Nat,
           Covered(r, s, n, what)
    PROVE  CoveredIn(transcript'[r], delivered'[s], s, n, what)
<1>1. transcript[r] \in Seq(Message) /\ transcript'[r] \in Seq(Message)
  BY DEF TypeOK
<1> QED
  BY <1>1, CoveredGrows DEF Grow, Covered

CursorsCovered(what) ==
    \A r \in Rooms \ reused, s \in Sessions : Covered(r, s, cursors[r][s], what)

\* A step that touches no reader, no overlay file and adds no receipt.
Quiet(what) ==
    /\ Grow
    /\ CursorsCovered(what)'
    /\ \A f \in spool' : f.op = "bus_cursor" => f \in spool
    /\ UNCHANGED <<overlay, pc, room, seen, cur>>

LEMMA QuietKeeps ==
    ASSUME NEW what, HonestReceipts(what), TypeOK', Quiet(what)
    PROVE  HonestReceipts(what)'
<1> USE DEF HonestReceipts
<1>1. NoneBehind(what)'
  <2> SUFFICES ASSUME NEW r \in Rooms \ reused', NEW s \in Sessions
               PROVE  CoveredIn(transcript'[r], delivered'[s], s, overlay'[r][s], what)
    BY DEF NoneBehind, Quiet, CursorsCovered, Covered
  <2>1. overlay[r][s] \in Nat /\ r \in Rooms \ reused
    BY DEF TypeOK, Quiet, Grow
  <2>2. Covered(r, s, overlay[r][s], what)
    BY <2>1 DEF NoneBehind
  <2> QED
    BY <2>1, <2>2, GrowCovers DEF Quiet
<1>2. ReceiptsCovered(what)'
  <2> SUFFICES ASSUME NEW f \in spool', f.op = "bus_cursor", f.room \notin reused'
               PROVE  CoveredIn(transcript'[f.room], delivered'[f.member], f.member, f.seq, what)
    BY DEF ReceiptsCovered, Covered
  <2>1. f \in spool /\ f \in File /\ f.room \notin reused
    BY DEF Quiet, Grow, TypeOK
  <2>2. f.room \in Rooms /\ f.member \in Sessions /\ f.seq \in Nat
    BY <2>1, FileFields
  <2>3. Covered(f.room, f.member, f.seq, what)
    BY <2>1 DEF ReceiptsCovered
  <2> QED
    BY <2>1, <2>2, <2>3, GrowCovers DEF Quiet
<1>3. ASSUME NEW p \in Procs
      PROVE  ReaderCovered(p, what)'
  <2> SUFFICES ASSUME pc[p] \in {"cursor", "decide", "emit", "mark", "write"},
                      room[p] \notin reused'
               PROVE  /\ StartsWith(transcript'[room[p]], seen[p])
                      /\ pc[p] = "decide" =>
                            CoveredIn(transcript'[room[p]], delivered'[Owner[p]], Owner[p], cur[p], what)
                      /\ pc[p] \in {"emit", "mark", "write"} =>
                            CoveredIn(transcript'[room[p]], delivered'[Owner[p]], Owner[p],
                                      Len(seen[p]), what)
    BY DEF ReaderCovered, Covered, Quiet
  <2>1. /\ room[p] \in Rooms \ reused' /\ room[p] \notin reused /\ Owner[p] \in Sessions
        /\ cur[p] \in Nat /\ seen[p] \in Seq(Message) /\ Len(seen[p]) \in Nat
        /\ transcript[room[p]] \in Seq(Message) /\ transcript'[room[p]] \in Seq(Message)
    BY ConstantsAssumption DEF TypeOK, Quiet, Grow
  <2>2. ReaderCovered(p, what)
    OBVIOUS
  <2>3. StartsWith(transcript'[room[p]], seen[p])
    BY <2>1, <2>2, StartsWithTransitive DEF ReaderCovered, Quiet, Grow
  <2>4. pc[p] = "decide" =>
           CoveredIn(transcript'[room[p]], delivered'[Owner[p]], Owner[p], cur[p], what)
    BY <2>1, <2>2, GrowCovers DEF ReaderCovered, Quiet
  <2>5. pc[p] \in {"emit", "mark", "write"} =>
           CoveredIn(transcript'[room[p]], delivered'[Owner[p]], Owner[p], Len(seen[p]), what)
    BY <2>1, <2>2, GrowCovers DEF ReaderCovered, Quiet
  <2> QED
    BY <2>3, <2>4, <2>5
<1> QED
  BY <1>1, <1>2, <1>3

\* Transcripts and cursors untouched: nothing to show about them.
LEMMA StandingStill ==
    ASSUME NEW what, HonestReceipts(what), UNCHANGED <<transcript, cursors, reused, delivered>>
    PROVE  Grow /\ CursorsCovered(what)'
<1>1. Grow
  <2>1. \A r \in Rooms : transcript[r] \in Seq(Message)
    BY DEF HonestReceipts, TypeOK
  <2> QED
    BY <2>1, StartsWithItself DEF Grow
<1>2. CursorsCovered(what)'
  <2> SUFFICES ASSUME NEW r \in Rooms \ reused', NEW s \in Sessions
               PROVE  CoveredIn(transcript'[r], delivered'[s], s, cursors'[r][s], what)
    BY DEF CursorsCovered, Covered
  <2>1. CoveredIn(transcript[r], delivered[s], s, cursors[r][s], what)
    BY DEF HonestReceipts, NoneBehind, Covered
  <2>2. transcript' = transcript /\ delivered' = delivered /\ cursors' = cursors
    OBVIOUS
  <2> QED
    BY <2>1, <2>2, Zenon
<1> QED
  BY <1>1, <1>2

\* Growing transcripts over cursors that stand, or fall to zero.
LEMMA CursorsStay ==
    ASSUME NEW what, HonestReceipts(what), TypeOK', Grow,
           \A r \in Rooms \ reused', s \in Sessions : cursors'[r][s] \in {0, cursors[r][s]}
    PROVE  CursorsCovered(what)'
<1> SUFFICES ASSUME NEW r \in Rooms \ reused', NEW s \in Sessions
             PROVE  CoveredIn(transcript'[r], delivered'[s], s, cursors'[r][s], what)
  BY DEF CursorsCovered, Covered
<1> TypeOK
  BY DEF HonestReceipts
<1>1. r \in Rooms \ reused /\ cursors[r][s] \in Nat /\ transcript'[r] \in Seq(Message)
  BY DEF TypeOK, Grow
<1>2. CoveredIn(transcript'[r], delivered'[s], s, cursors[r][s], what)
  <2>1. Covered(r, s, cursors[r][s], what)
    BY <1>1 DEF HonestReceipts, NoneBehind
  <2> QED
    BY <1>1, <2>1, GrowCovers
<1> QED
  BY <1>1, <1>2, NothingToCover

LEMMA PostGrows ==
    ASSUME NEW what, HonestReceipts(what), TypeOK', NEW d \in Draft, Post(d), delivered' = delivered
    PROVE  Grow /\ CursorsCovered(what)'
<1> DEFINE m == [id |-> nextId, sender |-> d.sender, target |-> d.target,
                 urgent |-> d.urgent, ambient |-> d.ambient]
<1>1. m \in Message
  BY DEF Message, Draft, HonestReceipts, TypeOK
<1>2. transcript' = [transcript EXCEPT ![d.room] = Append(transcript[d.room], m)]
  BY DEF Post
<1> HIDE DEF m
<1>3. ASSUME NEW r \in Rooms PROVE StartsWith(transcript'[r], transcript[r])
  <2>1. transcript[r] \in Seq(Message)
    BY DEF HonestReceipts, TypeOK
  <2>2. transcript'[r] = IF r = d.room THEN Append(transcript[r], m) ELSE transcript[r]
    BY <1>2 DEF HonestReceipts, TypeOK
  <2> QED
    BY <1>1, <2>1, <2>2, StartsWithAppend, StartsWithItself
<1>4. Grow
  BY <1>3 DEF Grow, Post
<1> QED
  BY <1>4, CursorsStay DEF Post

LEMMA DeleteGrows ==
    ASSUME NEW what, HonestReceipts(what), TypeOK', NEW r \in Rooms, DeleteRoom(r), delivered' = delivered
    PROVE  Grow /\ CursorsCovered(what)'
<1>1. ASSUME NEW x \in Rooms \ reused'
      PROVE  /\ StartsWith(transcript'[x], transcript[x])
             /\ \A s \in Sessions : cursors'[x][s] = cursors[x][s]
  <2>1. x # r /\ transcript[x] \in Seq(Message)
    BY DEF DeleteRoom, HonestReceipts, TypeOK
  <2>2. transcript'[x] = transcript[x] /\ cursors'[x] = cursors[x]
    BY <2>1 DEF DeleteRoom, HonestReceipts, TypeOK
  <2> QED
    BY <2>1, <2>2, StartsWithItself
<1>2. Grow
  BY <1>1 DEF Grow, DeleteRoom
<1> QED
  BY <1>1, <1>2, CursorsStay

\* A cursor moves to where a spooled receipt says, and that was printed.
LEMMA AdvanceGrows ==
    ASSUME NEW what, HonestReceipts(what), TypeOK', NEW f \in spool, f.op = "bus_cursor",
           AdvanceCursor(f.room, f.member, f.seq), delivered' = delivered
    PROVE  Grow /\ CursorsCovered(what)'
<1>1. f.room \in Rooms /\ f.member \in Sessions /\ f.seq \in Nat
  BY FileFields DEF HonestReceipts, TypeOK
<1>2. Grow
  <2>1. \A r \in Rooms : transcript[r] \in Seq(Message)
    BY DEF HonestReceipts, TypeOK
  <2> QED
    BY <2>1, StartsWithItself DEF AdvanceCursor, Grow
<1>3. ASSUME NEW r \in Rooms \ reused, NEW s \in Sessions
      PROVE  Covered(r, s, cursors'[r][s], what)
  <2>1. \/ cursors'[r][s] = cursors[r][s]
        \/ r = f.room /\ s = f.member /\ cursors'[r][s] = f.seq
    BY <1>1 DEF AdvanceCursor, HonestReceipts, TypeOK
  <2>2. Covered(r, s, cursors[r][s], what)
    BY DEF HonestReceipts, NoneBehind
  <2>3. r = f.room => Covered(f.room, f.member, f.seq, what)
    BY DEF HonestReceipts, ReceiptsCovered
  <2> QED
    BY <2>1, <2>2, <2>3
<1>4. CursorsCovered(what)'
  BY <1>3 DEF CursorsCovered, Covered, AdvanceCursor
<1> QED
  BY <1>2, <1>4

LEMMA DaemonKeeps ==
    ASSUME NEW what, HonestReceipts(what), TypeOK', Daemon
    PROVE  HonestReceipts(what)'
<1> SUFFICES Quiet(what)
  BY QuietKeeps
<1> USE ConstantsAssumption DEF locals
<1>1. ASSUME NEW f \in spool, DrainApply(f)
      PROVE  Quiet(what)
  <2>1. f \in File
    BY DEF HonestReceipts, TypeOK
  <2>2. Grow /\ CursorsCovered(what)'
    <3>1. CASE \/ f.op = "bus_join" /\ Join(f.room, f.name)
               \/ f.op = "bus_leave" /\ Leave(f.room, f.name)
               \/ f.op = "bus_close" /\ Close(f.room)
      BY <1>1, <3>1, StandingStill DEF DrainApply, Join, Leave, Close
    <3>2. CASE f.op = "bus_send" /\ Post(f.draft)
      BY <1>1, <2>1, <3>2, FileFields, PostGrows DEF DrainApply
    <3>3. CASE f.op = "bus_cursor" /\ AdvanceCursor(f.room, f.member, f.seq)
      BY <1>1, <3>3, AdvanceGrows DEF DrainApply
    <3>4. CASE f.op = "bus_delete_room" /\ DeleteRoom(f.room)
      BY <1>1, <2>1, <3>4, FileFields, DeleteGrows DEF DrainApply
    <3> QED
      BY <1>1, <3>1, <3>2, <3>3, <3>4 DEF DrainApply, ApplyBusOp
  <2> QED
    BY <1>1, <2>2 DEF DrainApply, Quiet
<1>2. CASE DrainRemove \/ DaemonRestart
  BY <1>2, StandingStill DEF DrainRemove, DaemonRestart, db, ghosts, Quiet
<1>3. ASSUME NEW d \in Drafts, SendDirect(d)
      PROVE  Quiet(what)
  BY <1>3, PostGrows DEF SendDirect, files, Quiet
<1>4. ASSUME NEW s \in Users, ReachableDirect(s) \/ SessionEnd(s) \/ SessionStart(s)
      PROVE  Quiet(what)
  BY <1>4, StandingStill DEF ReachableDirect, SessionEnd, SessionStart, files, ghosts, Quiet
<1>5. ASSUME NEW r \in Rooms, GcClose(r)
      PROVE  Quiet(what)
  <2>1. \A x \in Rooms, s \in Sessions : cursors'[x][s] \in {0, cursors[x][s]}
    BY <1>5 DEF GcClose, HonestReceipts, TypeOK
  <2>2. Grow
    <3>1. \A x \in Rooms : transcript[x] \in Seq(Message)
      BY DEF HonestReceipts, TypeOK
    <3> QED
      BY <1>5, <3>1, StartsWithItself DEF GcClose, ghosts, Grow
  <2> QED
    BY <1>5, <2>1, <2>2, CursorsStay DEF GcClose, files, ghosts, Quiet
<1>6. ASSUME NEW r \in Rooms, GcPurge(r)
      PROVE  Quiet(what)
  BY <1>6, DeleteGrows DEF GcPurge, files, Quiet
<1> QED
  BY <1>1, <1>2, <1>3, <1>4, <1>5, <1>6 DEF Daemon

LEMMA VerbsKeep ==
    ASSUME NEW what, HonestReceipts(what), TypeOK', SessionVerbs
    PROVE  HonestReceipts(what)'
<1> SUFFICES Quiet(what)
  BY QuietKeeps
<1> USE DEF db, locals, ghosts
<1>1. ASSUME NEW fs, Enqueue(fs), \A f \in fs : f.op # "bus_cursor"
      PROVE  Quiet(what)
  BY <1>1, StandingStill DEF Enqueue, Quiet
<1>2. ASSUME NEW r \in Rooms, NEW s \in Users,
             JoinVerb(r, s) \/ LeaveVerb(r, s) \/ CloseVerb(r, s)
      PROVE  Quiet(what)
  BY <1>1, <1>2 DEF JoinVerb, LeaveVerb, CloseVerb, JoinFile
<1>3. ASSUME NEW d \in Drafts, SendVerb(d)
      PROVE  Quiet(what)
  BY <1>1, <1>3 DEF SendVerb
<1>4. ASSUME NEW r \in Rooms, DeleteRoomVerb(r)
      PROVE  Quiet(what)
  BY <1>1, <1>4 DEF DeleteRoomVerb
<1>5. ASSUME NEW s \in Users, HelloVerb(s)
      PROVE  Quiet(what)
  BY <1>1, <1>5 DEF HelloVerb, JoinFile
<1>6. ASSUME NEW s \in Users, ReachableVerb(s)
      PROVE  Quiet(what)
  BY <1>1, <1>6 DEF ReachableVerb, JoinFile
<1>7. ASSUME NEW s \in Users, ToggleDnd(s) \/ ProbeLock(s) \/ ProbeUnlock(s)
      PROVE  Quiet(what)
  BY <1>7, StandingStill DEF ToggleDnd, ProbeLock, ProbeUnlock, Quiet
<1> QED
  BY <1>2, <1>3, <1>4, <1>5, <1>6, <1>7 DEF SessionVerbs

-----------------------------------------------------------------------------
(***************************************************************************)
(* Steps of the readers.                                                   *)
(***************************************************************************)

\* What a step of p leaves alone: the store, and the other readers.
Alone(p) ==
    /\ UNCHANGED <<transcript, cursors, reused>>
    /\ \A s \in Sessions : delivered[s] \subseteq delivered'[s]
    /\ \A q \in Procs \ {p} : /\ pc'[q] = pc[q] /\ room'[q] = room[q]
                              /\ seen'[q] = seen[q] /\ cur'[q] = cur[q]

LEMMA ReaderKeeps ==
    ASSUME NEW what, HonestReceipts(what), TypeOK', NEW p \in Procs, Alone(p), ReaderCovered(p, what)',
           \A r \in Rooms \ reused, s \in Sessions :
               overlay'[r][s] = overlay[r][s] \/ Covered(r, s, overlay'[r][s], what),
           \A f \in spool' : f.op = "bus_cursor" /\ f.room \notin reused =>
               f \in spool \/ Covered(f.room, f.member, f.seq, what)
    PROVE  HonestReceipts(what)'
<1> TypeOK
  BY DEF HonestReceipts
<1>1. Grow
  <2>1. \A r \in Rooms : transcript[r] \in Seq(Message)
    BY DEF TypeOK
  <2> QED
    BY <2>1, StartsWithItself DEF Alone, Grow
<1>2. \A r \in Rooms \ reused', s \in Sessions, n \in Nat :
          Covered(r, s, n, what) => CoveredIn(transcript'[r], delivered'[s], s, n, what)
  BY <1>1, GrowCovers
<1>3. NoneBehind(what)'
  <2> SUFFICES ASSUME NEW r \in Rooms \ reused', NEW s \in Sessions
               PROVE  /\ CoveredIn(transcript'[r], delivered'[s], s, cursors'[r][s], what)
                      /\ CoveredIn(transcript'[r], delivered'[s], s, overlay'[r][s], what)
    BY DEF NoneBehind, Covered
  <2>1. /\ r \in Rooms \ reused /\ cursors'[r][s] = cursors[r][s]
        /\ cursors[r][s] \in Nat /\ overlay'[r][s] \in Nat
    BY DEF TypeOK, Alone
  <2>2. Covered(r, s, cursors[r][s], what) /\ Covered(r, s, overlay'[r][s], what)
    BY <2>1 DEF HonestReceipts, NoneBehind
  <2> QED
    BY <1>2, <2>1, <2>2
<1>4. ReceiptsCovered(what)'
  <2> SUFFICES ASSUME NEW f \in spool', f.op = "bus_cursor", f.room \notin reused'
               PROVE  CoveredIn(transcript'[f.room], delivered'[f.member], f.member, f.seq, what)
    BY DEF ReceiptsCovered, Covered
  <2>1. f.room \in Rooms \ reused' /\ f.member \in Sessions /\ f.seq \in Nat
    BY FileFields DEF TypeOK
  <2>2. Covered(f.room, f.member, f.seq, what)
    BY DEF HonestReceipts, ReceiptsCovered, Alone
  <2> QED
    BY <1>2, <2>1, <2>2
<1>5. ASSUME NEW q \in Procs \ {p}
      PROVE  ReaderCovered(q, what)'
  <2>1. /\ room[q] \in Rooms /\ Owner[q] \in Sessions /\ cur[q] \in Nat
        /\ seen[q] \in Seq(Message) /\ Len(seen[q]) \in Nat
    BY ConstantsAssumption DEF TypeOK
  <2>2. ReaderCovered(q, what)
    BY DEF HonestReceipts
  <2>3. /\ pc'[q] = pc[q] /\ room'[q] = room[q] /\ seen'[q] = seen[q] /\ cur'[q] = cur[q]
        /\ reused' = reused /\ transcript' = transcript
    BY DEF Alone
  <2>4. room[q] \notin reused /\ pc[q] = "decide" =>
           CoveredIn(transcript'[room[q]], delivered'[Owner[q]], Owner[q], cur[q], what)
    BY <1>2, <2>1, <2>2, <2>3 DEF ReaderCovered
  <2>5. room[q] \notin reused /\ pc[q] \in {"emit", "mark", "write"} =>
           CoveredIn(transcript'[room[q]], delivered'[Owner[q]], Owner[q], Len(seen[q]), what)
    BY <1>2, <2>1, <2>2, <2>3 DEF ReaderCovered
  <2> QED
    BY <2>2, <2>3, <2>4, <2>5 DEF ReaderCovered, Covered
<1> QED
  BY <1>3, <1>4, <1>5 DEF HonestReceipts

\* Between two rooms a reader holds nothing.
LEMMA IdleReaderKeeps ==
    ASSUME NEW what, HonestReceipts(what), TypeOK', NEW p \in Procs, Alone(p), UNCHANGED <<overlay, spool>>,
           pc'[p] \notin {"cursor", "decide", "emit", "mark", "write"}
    PROVE  HonestReceipts(what)'
<1>1. ReaderCovered(p, what)'
  BY DEF ReaderCovered
<1> QED
  BY <1>1, ReaderKeeps

LEMMA ExitIsIdle ==
    ASSUME TypeOK, NEW p \in Procs, NEW code, ExitWith(p, code),
           UNCHANGED <<transcript, cursors, reused, delivered>>
    PROVE  Alone(p) /\ pc'[p] = "off"
  BY DEF TypeOK, ExitWith, Alone

LEMMA FinishIsIdle ==
    ASSUME TypeOK, NEW p \in Procs, FinishRoom(p),
           UNCHANGED <<transcript, cursors, reused, delivered>>
    PROVE  Alone(p) /\ pc'[p] \in {"off", "poll"}
<1>1. CASE Kind[p] = "recv"
  BY <1>1 DEF FinishRoom, TypeOK, Alone
<1>2. CASE Kind[p] # "recv"
  BY <1>2, ExitIsIdle DEF FinishRoom
<1> QED
  BY <1>1, <1>2

LEMMA DecideKeeps ==
    ASSUME NEW what, HonestReceipts(what), TypeOK', NEW p \in Procs, Decide(p),
           what = "must" \/ Unrestrained
    PROVE  HonestReceipts(what)'
<1> TypeOK
  BY DEF HonestReceipts
<1> UNCHANGED <<overlay, spool, room, transcript, cursors, reused>>
  BY DEF Decide, StoreUnchanged, db
<1>1. CASE ~ReaderWakes(p)
  <2>1. Alone(p) /\ pc'[p] = "poll"
    BY <1>1 DEF Decide, TypeOK, Alone
  <2> QED
    BY <2>1, IdleReaderKeeps
<1>2. CASE ReaderWakes(p)
  <2> DEFINE r == room[p]
             s == Owner[p]
             n == EffectiveCursor(p)
             printed == {seen[p][i].id : i \in ToPrint(p)}
  <2>1. /\ r \in Rooms /\ s \in Sessions /\ cur[p] \in Nat /\ overlay[r][s] \in Nat
        /\ seen[p] \in Seq(Message) /\ transcript[r] \in Seq(Message)
        /\ urgentOnly[p] \in BOOLEAN /\ n \in Nat
    BY ConstantsAssumption DEF TypeOK, EffectiveCursor
  <2>2. /\ delivered' = [delivered EXCEPT ![s] = delivered[s] \cup printed]
        /\ pc' = [pc EXCEPT ![p] = "emit"] /\ seen' = seen /\ cur' = cur
        /\ pc[p] = "decide"
    BY <1>2 DEF Decide
  <2>3. delivered'[s] = delivered[s] \cup printed
    BY <2>1, <2>2 DEF TypeOK
  <2>4. Alone(p) /\ pc'[p] = "emit"
    BY <2>1, <2>2 DEF TypeOK, Alone
  <2>5. ASSUME r \notin reused
        PROVE  /\ StartsWith(transcript[r], seen[p])
               /\ CoveredIn(transcript[r], delivered'[s], s, Len(seen[p]), what)
    <3>1. StartsWith(transcript[r], seen[p]) /\ CoveredIn(transcript[r], delivered[s], s, cur[p], what)
      BY <2>2, <2>5 DEF HonestReceipts, ReaderCovered, Covered
    <3>2. CoveredIn(transcript[r], delivered[s], s, overlay[r][s], what)
      BY <2>1, <2>5 DEF HonestReceipts, NoneBehind, Covered
    <3>3. CoveredIn(transcript[r], delivered[s], s, n, what)
      BY <3>1, <3>2 DEF EffectiveCursor
    <3>4. \A i \in 1..Len(seen[p]) : i <= n /\ IsFor(seen[p][i], s) /\ Counts(seen[p][i], what)
                                    => seen[p][i].id \in delivered[s]
      <4>1. Len(seen[p]) \in Nat
        BY <2>1
      <4> HIDE DEF r, s, n
      <4> QED
        BY <2>1, <3>1, <3>3, <4>1 DEF CoveredIn, StartsWith
    <3>4a. what = "must" \/ (~urgentOnly[p] /\ WithinCap(UnreadFor(seen[p], n, s, urgentOnly[p])))
      BY <2>2 DEF Unrestrained, Hits
    <3>5. printed = {seen[p][i].id : i \in CapBacklog(seen[p],
                        UnreadFor(seen[p], n, s, urgentOnly[p]), BacklogMax)}
      BY DEF ToPrint, Hits
    <3>6. CoveredIn(seen[p], delivered[s] \cup printed, s, Len(seen[p]), what)
      <4> HIDE DEF r, s, n, printed
      <4> QED
        BY <2>1, <3>4, <3>4a, <3>5, PrintingCovers
    <3>7. CoveredIn(transcript[r], delivered[s] \cup printed, s, Len(seen[p]), what)
      <4>1. Len(seen[p]) \in Nat
        BY <2>1
      <4> HIDE DEF r, s, n, printed
      <4> QED
        BY <2>1, <3>1, <3>6, <4>1, CoveredGrows
    <3> QED
      BY <2>3, <3>1, <3>7
  <2>6. ReaderCovered(p, what)'
    BY <2>2, <2>4, <2>5 DEF ReaderCovered, Covered
  <2> QED
    BY <2>4, <2>6, ReaderKeeps
<1> QED
  BY <1>1, <1>2

\* The receipt, like the overlay mark, names what was read, and that is covered.
LEMMA EmitKeeps ==
    ASSUME NEW what, HonestReceipts(what), TypeOK', NEW p \in Procs, EmitReceipt(p)
    PROVE  HonestReceipts(what)'
<1> TypeOK
  BY DEF HonestReceipts
<1> DEFINE f == [op |-> "bus_cursor", room |-> room[p], member |-> Owner[p], seq |-> Len(seen[p])]
<1>1. /\ UNCHANGED <<overlay, room, seen, cur, transcript, cursors, reused, delivered>>
      /\ spool' = spool \cup {f} /\ pc' = [pc EXCEPT ![p] = "mark"] /\ pc[p] = "emit"
  BY DEF EmitReceipt, StoreUnchanged, db
<1>2. Alone(p) /\ pc'[p] = "mark"
  BY <1>1 DEF TypeOK, Alone
<1>3. ReaderCovered(p, what)
  BY DEF HonestReceipts
<1>4. ReaderCovered(p, what)'
  BY <1>1, <1>2, <1>3 DEF ReaderCovered, Covered
<1>5. room[p] \notin reused => Covered(f.room, f.member, f.seq, what)
  BY <1>1, <1>3 DEF ReaderCovered
<1> QED
  BY <1>1, <1>2, <1>4, <1>5, ReaderKeeps

LEMMA MarkKeeps ==
    ASSUME NEW what, HonestReceipts(what), TypeOK', NEW p \in Procs, MarkRead(p) \/ MarkWrite(p)
    PROVE  HonestReceipts(what)'
<1> TypeOK /\ ReaderCovered(p, what)
  BY DEF HonestReceipts
<1> UNCHANGED <<transcript, cursors, reused, delivered, spool>>
  BY DEF MarkRead, MarkWrite, StoreUnchanged, db
<1>1. CASE MarkRead(p)
  <2>1. CASE overlay[room[p]][Owner[p]] < Len(seen[p])
    <3>1. /\ UNCHANGED <<overlay, room, seen, cur>>
          /\ pc' = [pc EXCEPT ![p] = "write"] /\ pc[p] = "mark"
      BY <1>1, <2>1 DEF MarkRead
    <3>2. Alone(p) /\ pc'[p] = "write"
      BY <3>1 DEF TypeOK, Alone
    <3>3. ReaderCovered(p, what)'
      BY <3>1, <3>2 DEF ReaderCovered, Covered
    <3> QED
      BY <3>1, <3>2, <3>3, ReaderKeeps
  <2>2. CASE ~(overlay[room[p]][Owner[p]] < Len(seen[p]))
    BY <1>1, <2>2, FinishIsIdle, IdleReaderKeeps DEF MarkRead
  <2> QED
    BY <2>1, <2>2
<1>2. CASE MarkWrite(p)
  <2>1. Alone(p) /\ pc'[p] \in {"off", "poll"}
    BY <1>2, FinishIsIdle DEF MarkWrite
  <2>2. ReaderCovered(p, what)'
    BY <2>1 DEF ReaderCovered
  <2>3. ASSUME NEW r \in Rooms \ reused, NEW s \in Sessions
        PROVE  overlay'[r][s] = overlay[r][s] \/ Covered(r, s, overlay'[r][s], what)
    <3>1. \/ overlay'[r][s] = overlay[r][s]
          \/ r = room[p] /\ s = Owner[p] /\ overlay'[r][s] = Len(seen[p])
      BY <1>2, ConstantsAssumption DEF MarkWrite, TypeOK
    <3> QED
      BY <1>2, <3>1 DEF MarkWrite, ReaderCovered
  <2> QED
    BY <2>1, <2>2, <2>3, ReaderKeeps
<1> QED
  BY <1>1, <1>2

LEMMA ReadKeeps ==
    ASSUME NEW what, HonestReceipts(what), TypeOK', NEW p \in Procs, ReadMessages(p) \/ ReadCursor(p)
    PROVE  HonestReceipts(what)'
<1> TypeOK
  BY DEF HonestReceipts
<1>1. /\ UNCHANGED <<transcript, cursors, reused, delivered, spool, overlay, room>>
      /\ room[p] \in Rooms /\ Owner[p] \in Sessions /\ transcript[room[p]] \in Seq(Message)
  BY ConstantsAssumption DEF ReadMessages, ReadCursor, StoreUnchanged, db, TypeOK
<1>2. CASE ReadMessages(p)
  <2>1. CASE Kind[p] = "recv" /\ transcript[room[p]] = <<>>
    <3>1. Alone(p) /\ pc'[p] = "poll"
      BY <1>1, <1>2, <2>1 DEF ReadMessages, TypeOK, Alone
    <3> QED
      BY <1>1, <3>1, IdleReaderKeeps
  <2>2. CASE ~(Kind[p] = "recv" /\ transcript[room[p]] = <<>>)
    <3>1. /\ seen' = [seen EXCEPT ![p] = transcript[room[p]]] /\ cur' = cur
          /\ pc' = [pc EXCEPT ![p] = "cursor"]
      BY <1>2, <2>2 DEF ReadMessages
    <3>2. Alone(p) /\ pc'[p] = "cursor" /\ seen'[p] = transcript[room[p]]
      BY <1>1, <3>1 DEF TypeOK, Alone
    <3>3. StartsWith(transcript[room[p]], seen'[p])
      BY <1>1, <3>2, StartsWithItself
    <3>4. ReaderCovered(p, what)'
      BY <1>1, <3>2, <3>3 DEF ReaderCovered
    <3> QED
      BY <1>1, <3>2, <3>4, ReaderKeeps
  <2> QED
    BY <2>1, <2>2
<1>3. CASE ReadCursor(p)
  <2>1. /\ cur' = [cur EXCEPT ![p] = cursors[room[p]][Owner[p]]] /\ seen' = seen
        /\ pc' = [pc EXCEPT ![p] = "decide"] /\ pc[p] = "cursor"
    BY <1>3 DEF ReadCursor
  <2>2. Alone(p) /\ pc'[p] = "decide" /\ cur'[p] = cursors[room[p]][Owner[p]]
    BY <1>1, <2>1 DEF TypeOK, Alone
  <2>3. ReaderCovered(p, what)'
    BY <1>1, <2>1, <2>2 DEF HonestReceipts, ReaderCovered, NoneBehind, Covered
  <2> QED
    BY <1>1, <2>2, <2>3, ReaderKeeps
<1> QED
  BY <1>2, <1>3

LEMMA ReadersKeep ==
    ASSUME NEW what, HonestReceipts(what), TypeOK', NEW p \in Procs, Reader(p),
           what = "must" \/ Unrestrained
    PROVE  HonestReceipts(what)'
<1> TypeOK
  BY DEF HonestReceipts
<1> USE DEF db
<1>1. CASE Arm(p)
  <2>1. Alone(p) /\ UNCHANGED <<overlay, spool>>
    BY <1>1 DEF Arm, StoreUnchanged, TypeOK, Alone
  <2>2. pc'[p] \in {"off", "window"}
    BY <1>1 DEF Arm, TypeOK
  <2> QED
    BY <2>1, <2>2, IdleReaderKeeps
<1>2. CASE StartRecv(p) \/ StartWindow(p)
  <2>1. Alone(p) /\ UNCHANGED <<overlay, spool>> /\ pc'[p] \in {"poll", "closedcheck"}
    BY <1>2 DEF StartRecv, StartWindow, StoreUnchanged, TypeOK, Alone
  <2> QED
    BY <2>1, IdleReaderKeeps
<1>3. CASE CheckRoomsClosed(p)
  <2>1. UNCHANGED <<overlay, spool, transcript, cursors, reused, delivered>>
    BY <1>3 DEF CheckRoomsClosed, StoreUnchanged
  <2>2. CASE \A r \in targets[p] : rooms[r] = "closed"
    BY <1>3, <2>1, <2>2, ExitIsIdle, IdleReaderKeeps DEF CheckRoomsClosed
  <2>3. CASE ~ \A r \in targets[p] : rooms[r] = "closed"
    <3>1. Alone(p) /\ pc'[p] = "poll"
      BY <1>3, <2>1, <2>3 DEF CheckRoomsClosed, TypeOK, Alone
    <3> QED
      BY <2>1, <3>1, IdleReaderKeeps
  <2> QED
    BY <2>2, <2>3
<1>4. ASSUME NEW r \in Rooms, PollRoom(p, r)
      PROVE  HonestReceipts(what)'
  <2>1. UNCHANGED <<overlay, spool, transcript, cursors, reused, delivered, seen, cur>>
    BY <1>4 DEF PollRoom, StoreUnchanged
  <2>2. \/ room' = room /\ pc' = pc /\ pc[p] = "poll"
        \/ room' = [room EXCEPT ![p] = r] /\ pc' = [pc EXCEPT ![p] = "read"]
    BY <1>4 DEF PollRoom
  <2>3. Alone(p) /\ pc'[p] \in {"poll", "read"}
    BY <2>1, <2>2 DEF TypeOK, Alone
  <2> QED
    BY <2>1, <2>3, IdleReaderKeeps
<1>5. CASE NextPass(p)
  <2>1. Alone(p) /\ UNCHANGED <<overlay, spool>> /\ pc'[p] = "poll"
    BY <1>5 DEF NextPass, StoreUnchanged, TypeOK, Alone
  <2> QED
    BY <2>1, IdleReaderKeeps
<1>6. CASE WindowExpires(p)
  <2>1. UNCHANGED <<overlay, spool, transcript, cursors, reused, delivered>>
    BY <1>6 DEF WindowExpires, StoreUnchanged
  <2>2. CASE Kind[p] = "once"
    BY <1>6, <2>1, <2>2, ExitIsIdle, IdleReaderKeeps DEF WindowExpires
  <2>3. CASE Kind[p] # "once"
    <3>1. Alone(p) /\ pc'[p] = "window"
      BY <1>6, <2>1, <2>3 DEF WindowExpires, TypeOK, Alone
    <3> QED
      BY <2>1, <3>1, IdleReaderKeeps
  <2> QED
    BY <2>2, <2>3
<1>7. CASE RecvDone(p)
  <2>1. UNCHANGED <<overlay, spool, transcript, cursors, reused, delivered>>
    BY <1>7 DEF RecvDone, StoreUnchanged
  <2> QED
    BY <1>7, <2>1, ExitIsIdle, IdleReaderKeeps DEF RecvDone
<1>8. CASE Kill(p)
  BY <1>8, ExitIsIdle, IdleReaderKeeps DEF Kill
<1> QED
  BY <1>1, <1>2, <1>3, <1>4, <1>5, <1>6, <1>7, <1>8, ReadKeeps, DecideKeeps, EmitKeeps, MarkKeeps
     DEF Reader, ReaderStep

-----------------------------------------------------------------------------

LEMMA InitDelivered == ASSUME NEW what, Init PROVE HonestReceipts(what)
<1>1. TypeOK
  BY InitTyped
<1>2. NoneBehind(what)
  <2>1. \A r \in Rooms, s \in Sessions :
            transcript[r] \in Seq(Message) /\ cursors[r][s] = 0 /\ overlay[r][s] = 0
    BY <1>1 DEF Init, TypeOK
  <2> QED
    BY <2>1, NothingToCover DEF NoneBehind, Covered
<1>3. ReceiptsCovered(what) /\ \A p \in Procs : ReaderCovered(p, what)
  BY DEF Init, ReceiptsCovered, ReaderCovered
<1> QED
  BY <1>1, <1>2, <1>3 DEF HonestReceipts

LEMMA DeliveryInductive ==
    ASSUME NEW what, HonestReceipts(what), [Next]_vars, what = "must" \/ Unrestrained
    PROVE  HonestReceipts(what)'
<1>1. TypeOK'
  BY TypeInductive DEF HonestReceipts
<1>2. CASE UNCHANGED vars
  <2>1. Quiet(what)
    BY <1>2, StandingStill DEF vars, db, files, locals, ghosts, Quiet
  <2> QED
    BY <1>1, <2>1, QuietKeeps
<1> QED
  BY <1>1, <1>2, DaemonKeeps, VerbsKeep, ReadersKeep DEF Next

\* The inductive invariant itself: neither a receipt in the spool nor a reader
\* about to write one ever names more than was printed.
THEOREM ReceiptsAreHonest == Spec => []DeliveryInv
<1>1. Init => DeliveryInv
  BY InitDelivered DEF DeliveryInv
<1>2. DeliveryInv /\ [Next]_vars => DeliveryInv'
  BY DeliveryInductive DEF DeliveryInv
<1> QED
  BY <1>1, <1>2, PTL DEF Spec

\* Nothing urgent and nothing the operator typed is ever behind a session's
\* cursor unprinted, in a room whose name was not freed: whatever the number of
\* readers, the order the spool is drained in, the messages and the rooms.
THEOREM NothingLost == Spec => []MustDelivered
<1>1. DeliveryInv => MustDelivered
  BY DEF DeliveryInv, HonestReceipts, MustDelivered
<1> QED
  BY <1>1, ReceiptsAreHonest, PTL

-----------------------------------------------------------------------------
(***************************************************************************)
(* Every message, as long as nothing holds any back.                       *)
(***************************************************************************)

Whole == HonestReceipts("all")

\* As long as no reader decides under DND or over a backlog beyond the cap,
\* no message addressed to a session is ever behind its cursor unprinted.
THEOREM NothingLeftOut == Spec /\ []Unrestrained => []NothingSkipped
<1>1. Init => Whole
  BY InitDelivered DEF Whole
<1>2. Whole /\ Unrestrained /\ [Next]_vars => Whole'
  BY DeliveryInductive DEF Whole
<1>3. Whole => NothingSkipped
  BY DEF Whole, HonestReceipts, NothingSkipped
<1> QED
  BY <1>1, <1>2, <1>3, PTL DEF Spec

(* Where sessions have no DND to set and the cap is no smaller than all the *)
(* messages there can be, nothing ever holds a message back.                *)

\* The sends in the spool, and those of them still to be applied.
Sends   == {f \in spool : f.op = "bus_send"}
Pending == Sends \ {inHand}

\* Every message was sent directly, or by a file of its own, or by one that a
\* restart applied again.
FewMessages ==
    /\ nfiles <= MaxFiles /\ crashes <= MaxCrashes
    /\ IsFiniteSet(Sends) /\ Cardinality(Sends) <= nfiles
    /\ nextId + Cardinality(Pending) <= 1 + MaxMsgs + nfiles + crashes
    /\ \A r \in Rooms : Len(transcript[r]) < nextId
    /\ \A p \in Procs : Len(seen[p]) < nextId

LEMMA AtMostOneMore ==
    ASSUME NEW S, IsFiniteSet(S), NEW x, NEW T \in SUBSET (S \cup {x})
    PROVE  /\ IsFiniteSet(T) /\ Cardinality(T) \in Nat
           /\ Cardinality(T) <= Cardinality(S) + 1
<1>1. IsFiniteSet(S \cup {x}) /\ Cardinality(S) \in Nat
  BY FS_AddElement, FS_CardinalityType
<1>2. Cardinality(S \cup {x}) \in {Cardinality(S), Cardinality(S) + 1}
  BY FS_AddElement
<1>3. IsFiniteSet(T) /\ Cardinality(T) <= Cardinality(S \cup {x})
  BY <1>1, FS_Subset
<1>4. Cardinality(T) \in Nat
  BY <1>3, FS_CardinalityType
<1> QED
  BY <1>1, <1>2, <1>3, <1>4

LEMMA PendingCount ==
    ASSUME FewMessages
    PROVE  /\ IsFiniteSet(Pending) /\ Cardinality(Pending) \in Nat
           /\ Cardinality(Sends) \in Nat /\ Cardinality(Pending) <= Cardinality(Sends)
  BY FS_Subset, FS_CardinalityType DEF FewMessages, Pending

\* A step that sends nothing.
LEMMA FewStayFew ==
    ASSUME TypeOK, FewMessages, Sends' \subseteq Sends, Pending' \subseteq Pending,
           UNCHANGED <<nextId, nfiles, crashes>>,
           \A r \in Rooms : transcript'[r] \in {transcript[r], <<>>},
           \A p \in Procs : \/ seen'[p] \in {seen[p], <<>>}
                             \/ \E r \in Rooms : seen'[p] = transcript[r]
    PROVE  FewMessages'
<1>1. /\ IsFiniteSet(Pending') /\ Cardinality(Pending') <= Cardinality(Pending)
      /\ Cardinality(Pending) \in Nat
  BY PendingCount, FS_Subset
<1>2. IsFiniteSet(Sends') /\ Cardinality(Sends') <= Cardinality(Sends)
  BY FS_Subset DEF FewMessages
<1>3. /\ Cardinality(Pending') \in Nat /\ Cardinality(Sends') \in Nat
      /\ Cardinality(Sends) \in Nat
  BY <1>1, <1>2, PendingCount, FS_CardinalityType
<1>4. nextId \in Nat /\ nfiles \in Nat /\ crashes \in Nat /\ MaxMsgs \in Nat
  BY ConstantsAssumption DEF TypeOK
<1>5. 0 < nextId
  BY <1>4, ConstantsAssumption DEF FewMessages, TypeOK
<1>6. \A r \in Rooms : Len(transcript'[r]) < nextId
  BY <1>4, <1>5 DEF FewMessages
<1>7. \A p \in Procs : Len(seen'[p]) < nextId
  BY <1>4, <1>5 DEF FewMessages
<1> QED
  BY <1>1, <1>2, <1>3, <1>4, <1>6, <1>7 DEF FewMessages

LEMMA PostOneMore ==
    ASSUME TypeOK, TypeOK', NEW d \in Draft, Post(d), seen' = seen,
           \A r \in Rooms : Len(transcript[r]) < nextId,
           \A p \in Procs : Len(seen[p]) < nextId
    PROVE  /\ nextId' = nextId + 1
           /\ \A r \in Rooms : Len(transcript'[r]) < nextId'
           /\ \A p \in Procs : Len(seen'[p]) < nextId'
<1> DEFINE m == [id |-> nextId, sender |-> d.sender, target |-> d.target,
                 urgent |-> d.urgent, ambient |-> d.ambient]
<1>1. /\ transcript' = [transcript EXCEPT ![d.room] = Append(transcript[d.room], m)]
      /\ nextId' = nextId + 1 /\ nextId \in Nat /\ m \in Message
      /\ transcript \in [Rooms -> Seq(Message)] /\ seen \in [Procs -> Seq(Message)]
  BY DEF Post, TypeOK, Message, Draft
<1> HIDE DEF m
<1>2. \A r \in Rooms : Len(transcript'[r]) \in {Len(transcript[r]), Len(transcript[r]) + 1}
  BY <1>1
<1> QED
  BY <1>1, <1>2

LEMMA FewDaemon == ASSUME TypeOK, TypeOK', FewMessages, Daemon PROVE FewMessages'
<1> USE ConstantsAssumption DEF locals
<1>0. /\ nextId \in Nat /\ nfiles \in Nat /\ crashes \in Nat /\ MaxMsgs \in Nat
      /\ \A r \in Rooms : transcript[r] \in Seq(Message)
  BY DEF TypeOK
<1>1. ASSUME NEW f \in spool, DrainApply(f)
      PROVE  FewMessages'
  <2>1. f \in File /\ inHand = NoFile /\ inHand' = f /\ f # NoFile
    BY <1>1, NoFileAssumption DEF DrainApply, TypeOK
  <2>2. Sends' = Sends /\ Pending' = Pending \ {f} /\ UNCHANGED <<nfiles, crashes, seen>>
    BY <1>1, <2>1, NoFileAssumption DEF DrainApply, Sends, Pending, TypeOK
  <2>3. CASE f.op = "bus_send" /\ Post(f.draft)
    <3>1. f \in Pending
      BY <2>1, <2>3 DEF Sends, Pending
    <3>2. Cardinality(Pending') = Cardinality(Pending) - 1
      BY <2>2, <3>1, PendingCount, FS_RemoveElement
    <3>3. /\ nextId' = nextId + 1
          /\ \A r \in Rooms : Len(transcript'[r]) < nextId'
          /\ \A p \in Procs : Len(seen'[p]) < nextId'
      BY <2>1, <2>2, <2>3, FileFields, PostOneMore DEF FewMessages
    <3> QED
      BY <1>0, <2>2, <3>2, <3>3, PendingCount DEF FewMessages
  <2>4. CASE ~(f.op = "bus_send" /\ Post(f.draft))
    <3>1. UNCHANGED nextId /\ \A r \in Rooms : transcript'[r] \in {transcript[r], <<>>}
      <4>1. \/ Join(f.room, f.name) \/ Leave(f.room, f.name) \/ Close(f.room)
            \/ AdvanceCursor(f.room, f.member, f.seq) \/ DeleteRoom(f.room)
        BY <1>1, <2>4 DEF DrainApply, ApplyBusOp
      <4> QED
        BY <4>1 DEF Join, Leave, Close, AdvanceCursor, DeleteRoom, TypeOK
    <3> QED
      BY <2>2, <3>1, FewStayFew
  <2> QED
    BY <2>3, <2>4
<1>2. CASE DrainRemove
  <2>1. Sends' \subseteq Sends /\ Pending' \subseteq Pending
    BY <1>2 DEF DrainRemove, Sends, Pending
  <2> QED
    BY <1>2, <2>1, FewStayFew DEF DrainRemove, db, ghosts
<1>3. CASE DaemonRestart
  <2>1. Sends' = Sends /\ Pending' \subseteq Pending \cup {inHand}
    BY <1>3 DEF DaemonRestart, Sends, Pending
  <2>3. Cardinality(Pending') <= Cardinality(Pending) + 1 /\ Cardinality(Pending') \in Nat
    BY <2>1, PendingCount, AtMostOneMore
  <2>4. /\ crashes' = crashes + 1 /\ crashes' <= MaxCrashes
        /\ UNCHANGED <<nextId, nfiles, transcript, seen>>
    BY <1>3, <1>0 DEF DaemonRestart, db
  <2> QED
    BY <1>0, <2>1, <2>3, <2>4, PendingCount DEF FewMessages
<1>4. ASSUME NEW d \in Drafts, SendDirect(d)
      PROVE  FewMessages'
  <2>1. Sends' = Sends /\ Pending' = Pending /\ UNCHANGED <<nfiles, crashes, seen>>
    BY <1>4 DEF SendDirect, files, Sends, Pending
  <2>2. /\ nextId' = nextId + 1
        /\ \A r \in Rooms : Len(transcript'[r]) < nextId'
        /\ \A p \in Procs : Len(seen'[p]) < nextId'
    BY <1>4, <2>1, PostOneMore DEF SendDirect, FewMessages
  <2>3. nextId <= MaxMsgs
    BY <1>4 DEF SendDirect
  <2> QED
    BY <1>0, <2>1, <2>2, <2>3, PendingCount DEF FewMessages
<1>5. ASSUME NEW s \in Users, ReachableDirect(s) \/ SessionEnd(s) \/ SessionStart(s)
      PROVE  FewMessages'
  BY <1>5, FewStayFew
     DEF ReachableDirect, SessionEnd, SessionStart, files, ghosts, Sends, Pending
<1>6. ASSUME NEW r \in Rooms, GcClose(r) \/ GcPurge(r)
      PROVE  FewMessages'
  <2>1. \A x \in Rooms : transcript'[x] \in {transcript[x], <<>>}
    BY <1>6 DEF GcClose, GcPurge, DeleteRoom, TypeOK
  <2> QED
    BY <1>6, <2>1, FewStayFew DEF GcClose, GcPurge, DeleteRoom, files, ghosts, Sends, Pending
<1> QED
  BY <1>1, <1>2, <1>3, <1>4, <1>5, <1>6 DEF Daemon

LEMMA FewVerbs == ASSUME TypeOK, TypeOK', FewMessages, SessionVerbs PROVE FewMessages'
<1> USE DEF db, locals, ghosts
<1>0. /\ nextId \in Nat /\ nfiles \in Nat /\ crashes \in Nat /\ MaxMsgs \in Nat
      /\ MaxFiles \in Nat
  BY ConstantsAssumption DEF TypeOK
<1>1. ASSUME NEW fs, Enqueue(fs), NEW x, \A f \in fs : f.op = "bus_send" => f = x
      PROVE  FewMessages'
  <2>1. Sends' \subseteq Sends \cup {x} /\ Pending' \subseteq Pending \cup {x}
    BY <1>1 DEF Enqueue, Sends, Pending
  <2>2. /\ IsFiniteSet(Sends') /\ Cardinality(Sends') <= Cardinality(Sends) + 1
        /\ Cardinality(Sends') \in Nat
    BY <2>1, AtMostOneMore DEF FewMessages
  <2>3. Cardinality(Pending') <= Cardinality(Pending) + 1 /\ Cardinality(Pending') \in Nat
    BY <2>1, PendingCount, AtMostOneMore
  <2>4. /\ nfiles' = nfiles + 1 /\ nfiles' <= MaxFiles
        /\ UNCHANGED <<nextId, crashes, transcript, seen>>
    BY <1>0, <1>1 DEF Enqueue
  <2> QED
    BY <1>0, <2>2, <2>3, <2>4, PendingCount DEF FewMessages
<1>2. ASSUME NEW fs, Enqueue(fs), \A f \in fs : f.op # "bus_send"
      PROVE  FewMessages'
  BY <1>1, <1>2
<1>3. ASSUME NEW r \in Rooms, NEW s \in Users,
             JoinVerb(r, s) \/ LeaveVerb(r, s) \/ CloseVerb(r, s)
      PROVE  FewMessages'
  BY <1>2, <1>3 DEF JoinVerb, LeaveVerb, CloseVerb, JoinFile
<1>4. ASSUME NEW d \in Drafts, SendVerb(d)
      PROVE  FewMessages'
  BY <1>1, <1>4 DEF SendVerb
<1>5. ASSUME NEW r \in Rooms, DeleteRoomVerb(r)
      PROVE  FewMessages'
  BY <1>2, <1>5 DEF DeleteRoomVerb
<1>6. ASSUME NEW s \in Users, HelloVerb(s)
      PROVE  FewMessages'
  BY <1>2, <1>6 DEF HelloVerb, JoinFile
<1>7. ASSUME NEW s \in Users, ReachableVerb(s)
      PROVE  FewMessages'
  BY <1>2, <1>7 DEF ReachableVerb, JoinFile
<1>8. ASSUME NEW s \in Users, ToggleDnd(s) \/ ProbeLock(s) \/ ProbeUnlock(s)
      PROVE  FewMessages'
  BY <1>8, FewStayFew DEF ToggleDnd, ProbeLock, ProbeUnlock, Sends, Pending
<1> QED
  BY <1>3, <1>4, <1>5, <1>6, <1>7, <1>8 DEF SessionVerbs

LEMMA FewReaders ==
    ASSUME TypeOK, FewMessages, NEW p \in Procs, Reader(p)
    PROVE  FewMessages'
<1>1. UNCHANGED <<nextId, nfiles, crashes, transcript, inHand>>
  BY DEF Reader, ReaderStep, Arm, StartRecv, StartWindow, CheckRoomsClosed, PollRoom,
         ReadMessages, ReadCursor, Decide, EmitReceipt, MarkRead, MarkWrite, NextPass,
         RecvDone, WindowExpires, Kill, StoreUnchanged, db
<1>2. Sends' = Sends
  <2>1. CASE EmitReceipt(p)
    BY <2>1 DEF EmitReceipt, Sends
  <2>2. CASE ~EmitReceipt(p)
    <3>1. spool' = spool
      BY <2>2 DEF Reader, ReaderStep, Arm, StartRecv, StartWindow, CheckRoomsClosed, PollRoom,
             ReadMessages, ReadCursor, Decide, MarkRead, MarkWrite, NextPass,
             RecvDone, WindowExpires, Kill
    <3> QED
      BY <3>1 DEF Sends
  <2> QED
    BY <2>1, <2>2
<1>3. Pending' = Pending
  BY <1>1, <1>2 DEF Pending
<1>4. \/ seen' = seen \/ seen' = [seen EXCEPT ![p] = <<>>]
      \/ seen' = [seen EXCEPT ![p] = transcript[room[p]]]
  BY DEF Reader, ReaderStep, Arm, StartRecv, StartWindow, CheckRoomsClosed, PollRoom,
         ReadMessages, ReadCursor, Decide, EmitReceipt, MarkRead, MarkWrite, NextPass,
         RecvDone, WindowExpires, Kill, FinishRoom, ExitWith
<1>5. \A q \in Procs : \/ seen'[q] \in {seen[q], <<>>}
                        \/ \E r \in Rooms : seen'[q] = transcript[r]
  BY <1>4 DEF TypeOK
<1> QED
  BY <1>1, <1>2, <1>3, <1>5, FewStayFew

LEMMA FewInductive == TypeOK /\ FewMessages /\ [Next]_vars => FewMessages'
<1> SUFFICES ASSUME TypeOK, FewMessages, [Next]_vars PROVE FewMessages'
  OBVIOUS
<1>1. TypeOK'
  BY TypeInductive
<1>2. CASE UNCHANGED vars
  BY <1>2, FewStayFew DEF vars, db, files, locals, ghosts, Sends, Pending
<1> QED
  BY <1>1, <1>2, FewDaemon, FewVerbs, FewReaders DEF Next

NeverDisturbed == dnd = {} /\ \A p \in Procs : urgentOnly[p] = FALSE

LEMMA CalmInductive ==
    ASSUME "dnd" \notin Verbs, TypeOK, NeverDisturbed, [Next]_vars
    PROVE  NeverDisturbed'
<1> USE DEF NeverDisturbed, db, files, locals, ghosts
<1>1. CASE UNCHANGED vars
  BY <1>1 DEF vars
<1>2. CASE Daemon
  <2>1. UNCHANGED <<dnd, urgentOnly>>
    BY <1>2 DEF Daemon, DrainApply, DrainRemove, DaemonRestart, SendDirect, ReachableDirect,
                SessionEnd, SessionStart, GcClose, GcPurge
  <2> QED
    BY <2>1
<1>3. CASE SessionVerbs
  <2>1. UNCHANGED <<dnd, urgentOnly>>
    BY <1>3 DEF SessionVerbs, JoinVerb, LeaveVerb, CloseVerb, SendVerb, DeleteRoomVerb,
                HelloVerb, ReachableVerb, ToggleDnd, ProbeLock, ProbeUnlock, Enqueue
  <2> QED
    BY <2>1
<1>4. ASSUME NEW p \in Procs, Reader(p)
      PROVE  NeverDisturbed'
  <2>1. dnd' = dnd
    BY <1>4 DEF Reader, ReaderStep, Arm, StartRecv, StartWindow, CheckRoomsClosed, PollRoom,
           ReadMessages, ReadCursor, Decide, EmitReceipt, MarkRead, MarkWrite, NextPass,
           RecvDone, WindowExpires, Kill, StoreUnchanged
  <2>2. \/ urgentOnly' = urgentOnly \/ urgentOnly' = [urgentOnly EXCEPT ![p] = FALSE]
        \/ urgentOnly' = [urgentOnly EXCEPT ![p] = Owner[p] \in dnd]
    BY <1>4 DEF Reader, ReaderStep, Arm, StartRecv, StartWindow, CheckRoomsClosed, PollRoom,
           ReadMessages, ReadCursor, Decide, EmitReceipt, MarkRead, MarkWrite, NextPass,
           RecvDone, WindowExpires, Kill, FinishRoom, ExitWith
  <2>3. urgentOnly \in [Procs -> BOOLEAN]
    BY DEF TypeOK
  <2> QED
    BY <2>1, <2>2, <2>3
<1> QED
  BY <1>1, <1>2, <1>3, <1>4 DEF Next

LEMMA NothingHeldBack ==
    ASSUME MaxMsgs + MaxFiles + MaxCrashes <= BacklogMax, TypeOK, FewMessages, NeverDisturbed
    PROVE  Unrestrained
<1> SUFFICES ASSUME NEW p \in Procs
             PROVE  ~urgentOnly[p] /\ Cardinality(Hits(p)) <= BacklogMax
  BY DEF Unrestrained, WithinCap
<1>1. Len(seen[p]) \in Nat /\ Hits(p) \in SUBSET (1..Len(seen[p]))
  BY DEF TypeOK, Hits, UnreadFor
<1>2. /\ IsFiniteSet(1..Len(seen[p]))
      /\ Cardinality(1..Len(seen[p])) = IF 1 > Len(seen[p]) THEN 0 ELSE Len(seen[p]) - 1 + 1
  BY <1>1, FS_Interval, SMTT(20)
<1>3. Cardinality(Hits(p)) <= Cardinality(1..Len(seen[p])) /\ Cardinality(Hits(p)) \in Nat
  BY <1>1, <1>2, FS_Subset, FS_CardinalityType
<1>4. Cardinality(Hits(p)) <= Len(seen[p]) /\ Cardinality(Hits(p)) \in Nat
  BY <1>1, <1>2, <1>3
<1>5. Len(seen[p]) <= MaxMsgs + MaxFiles + MaxCrashes
  <2>1. /\ nextId \in Nat /\ nfiles \in Nat /\ crashes \in Nat /\ MaxMsgs \in Nat
        /\ MaxFiles \in Nat /\ MaxCrashes \in Nat
    BY ConstantsAssumption DEF TypeOK
  <2>2. /\ nfiles <= MaxFiles /\ crashes <= MaxCrashes /\ Len(seen[p]) < nextId
        /\ nextId + Cardinality(Pending) <= 1 + MaxMsgs + nfiles + crashes
    BY DEF FewMessages
  <2>3. Cardinality(Pending) \in Nat
    BY PendingCount
  <2> QED
    BY <1>1, <2>1, <2>2, <2>3
<1> QED
  BY <1>1, <1>4, <1>5, ConstantsAssumption DEF NeverDisturbed

LEMMA FewAtFirst == Init => FewMessages /\ NeverDisturbed
<1> SUFFICES ASSUME Init PROVE FewMessages /\ NeverDisturbed
  OBVIOUS
<1>1. Sends = {} /\ Pending = {}
  BY DEF Init, Sends, Pending
<1> QED
  BY <1>1, FS_EmptySet, ConstantsAssumption DEF Init, FewMessages, NeverDisturbed

\* Where no session sets DND and the cap is no smaller than all the messages
\* there can be, no message addressed to a session is ever behind its cursor
\* unprinted.
THEOREM NothingLeftOutWithinCap ==
    ASSUME "dnd" \notin Verbs, MaxMsgs + MaxFiles + MaxCrashes <= BacklogMax
    PROVE  Spec => []NothingSkipped
<1>1. Init => TypeOK /\ FewMessages /\ NeverDisturbed
  BY InitTyped, FewAtFirst
<1>2. /\ TypeOK /\ FewMessages /\ NeverDisturbed /\ [Next]_vars
      => TypeOK' /\ FewMessages' /\ NeverDisturbed'
  BY TypeInductive, FewInductive, CalmInductive
<1>3. TypeOK /\ FewMessages /\ NeverDisturbed => Unrestrained
  BY NothingHeldBack
<1>4. Spec => []Unrestrained
  BY <1>1, <1>2, <1>3, PTL DEF Spec
<1> QED
  BY <1>4, NothingLeftOut, PTL

-----------------------------------------------------------------------------
(***************************************************************************)
(* A listener wakes its session once for a message, as long as no listener *)
(* is killed between printing and writing the overlay, and none of the     *)
(* session's readers is a `recv`, which takes no lock.                     *)
(***************************************************************************)

Undisturbed == MaxKills = 0 /\ \A p \in Procs : Kind[p] # "recv"

Reading(p)   == pc[p] \in {"cursor", "decide"}
Finishing(p) == pc[p] \in {"emit", "mark", "write"}
Holding(p)   == Reading(p) \/ Finishing(p)

HoldsLock == \A p \in Procs : pc[p] # "off" => lock[Owner[p]] = p

\* AUTOINCREMENT: an id is used once, whatever room is deleted.
IdsOnce ==
    /\ \A r \in Rooms : \A i \in 1..Len(transcript[r]) : transcript[r][i].id < nextId
    /\ \A s \in Sessions : \A id \in delivered[s] : id < nextId
    /\ \A p \in Procs : Holding(p) => \A i \in 1..Len(seen[p]) : seen[p][i].id < nextId
    /\ \A r, x \in Rooms : \A i \in 1..Len(transcript[r]), j \in 1..Len(transcript[x]) :
           transcript[r][i].id = transcript[x][j].id => r = x /\ i = j

\* A message a reader holds stands in the transcript where it stood, or nowhere.
SeenInPlace ==
    \A p \in Procs, r \in Rooms : Holding(p) =>
        \A i \in 1..Len(seen[p]), j \in 1..Len(transcript[r]) :
            seen[p][i].id = transcript[r][j].id => r = room[p] /\ i = j

\* What a session was shown its overlay knows, or a reader that has still to write it.
OverlayKnows ==
    \A r \in Rooms, s \in Sessions : \A i \in 1..Len(transcript[r]) :
        transcript[r][i].id \in delivered[s] =>
            \/ i <= overlay[r][s]
            \/ \E p \in Procs : /\ Owner[p] = s /\ Finishing(p)
                                /\ room[p] = r /\ i <= Len(seen[p])

\* So does what a reader holds of it.
ReaderKnows(p) ==
    /\ Reading(p) => \A i \in 1..Len(seen[p]) :
           seen[p][i].id \in delivered[Owner[p]] => i <= overlay[room[p]][Owner[p]]
    /\ pc[p] = "write" => overlay[room[p]][Owner[p]] < Len(seen[p])

WakeInv ==
    /\ HoldsLock /\ IdsOnce /\ SeenInPlace /\ OverlayKnows
    /\ \A p \in Procs : ReaderKnows(p)

LEMMA IdsAreNumbers ==
    ASSUME NEW log \in Seq(Message), NEW i \in 1..Len(log)
    PROVE  log[i].id \in Nat
<1>1. log[i] \in Message
  OBVIOUS
<1> QED
  BY <1>1 DEF Message

LEMMA OneReader ==
    ASSUME HoldsLock, NEW p \in Procs, NEW q \in Procs, pc[p] # "off", pc[q] # "off",
           Owner[p] = Owner[q]
    PROVE  p = q
  BY DEF HoldsLock

\* What the daemon and session verbs do: rooms are emptied, or one message is added.
StoreStep ==
    /\ UNCHANGED <<pc, seen, room, overlay, delivered>>
    /\ \A s \in Sessions : lock[s] \in Procs => lock'[s] = lock[s]
    /\ \/ /\ nextId' = nextId
          /\ \A r \in Rooms : transcript'[r] \in {transcript[r], <<>>}
       \/ \E x \in Rooms, m \in Message :
              /\ m.id = nextId /\ nextId' = nextId + 1
              /\ transcript' = [transcript EXCEPT ![x] = Append(@, m)]

LEMMA StoreKeepsWake ==
    ASSUME TypeOK, WakeInv, StoreStep
    PROVE  WakeInv'
<1> USE DEF WakeInv
<1>1. /\ nextId \in Nat /\ transcript \in [Rooms -> Seq(Message)]
      /\ seen \in [Procs -> Seq(Message)] /\ delivered \in [Sessions -> SUBSET Nat]
      /\ Owner \in [Procs -> Sessions]
      /\ UNCHANGED <<pc, seen, room, overlay, delivered>>
  BY ConstantsAssumption DEF TypeOK, StoreStep
<1>2. HoldsLock'
  BY <1>1 DEF HoldsLock, StoreStep
<1>3. \A r \in Rooms : \A i \in 1..Len(transcript'[r]) :
         \/ i \in 1..Len(transcript[r]) /\ transcript'[r][i] = transcript[r][i]
         \/ transcript'[r][i].id = nextId /\ nextId' = nextId + 1
  <2>1. CASE \A r \in Rooms : transcript'[r] \in {transcript[r], <<>>}
    <3> SUFFICES ASSUME NEW r \in Rooms, NEW i \in 1..Len(transcript'[r])
                 PROVE  i \in 1..Len(transcript[r]) /\ transcript'[r][i] = transcript[r][i]
      OBVIOUS
    <3>1. transcript'[r] = transcript[r]
      BY <2>1
    <3> QED
      BY <3>1
  <2>2. ASSUME NEW x \in Rooms, NEW m \in Message, m.id = nextId, nextId' = nextId + 1,
               transcript' = [transcript EXCEPT ![x] = Append(@, m)]
        PROVE  \A r \in Rooms : \A i \in 1..Len(transcript'[r]) :
                  \/ i \in 1..Len(transcript[r]) /\ transcript'[r][i] = transcript[r][i]
                  \/ transcript'[r][i].id = nextId /\ nextId' = nextId + 1
    <3> SUFFICES ASSUME NEW r \in Rooms, NEW i \in 1..Len(transcript'[r])
                 PROVE  \/ i \in 1..Len(transcript[r]) /\ transcript'[r][i] = transcript[r][i]
                        \/ transcript'[r][i].id = nextId /\ nextId' = nextId + 1
      OBVIOUS
    <3>1. CASE r = x
      <4>1. transcript'[r] = Append(transcript[r], m) /\ transcript[r] \in Seq(Message)
        BY <1>1, <2>2, <3>1
      <4> QED
        BY <2>2, <4>1
    <3>2. CASE r # x
      BY <1>1, <2>2, <3>2
    <3> QED
      BY <3>1, <3>2
  <2> QED
    BY <2>1, <2>2 DEF StoreStep
<1>4. \A r, x \in Rooms : \A i \in 1..Len(transcript'[r]), j \in 1..Len(transcript'[x]) :
         transcript'[r][i].id = nextId /\ transcript'[x][j].id = nextId => r = x /\ i = j
  <2>1. CASE \A r \in Rooms : transcript'[r] \in {transcript[r], <<>>}
    <3>1. \A r \in Rooms : \A i \in 1..Len(transcript'[r]) : transcript'[r][i].id < nextId
      <4> SUFFICES ASSUME NEW r \in Rooms, NEW i \in 1..Len(transcript'[r])
                   PROVE  transcript'[r][i].id < nextId
        OBVIOUS
      <4>1. transcript'[r] = transcript[r]
        BY <2>1
      <4> QED
        BY <4>1 DEF IdsOnce
    <3> QED
      BY <1>1, <3>1
  <2>2. ASSUME NEW y \in Rooms, NEW m \in Message,
               transcript' = [transcript EXCEPT ![y] = Append(@, m)]
        PROVE  \A r \in Rooms : \A i \in 1..Len(transcript'[r]) :
                  transcript'[r][i].id = nextId => r = y /\ i = Len(transcript[y]) + 1
    <3> SUFFICES ASSUME NEW r \in Rooms, NEW i \in 1..Len(transcript'[r]),
                        ~(r = y /\ i = Len(transcript[y]) + 1)
                 PROVE  transcript'[r][i].id < nextId
      BY <1>1
    <3>1. i \in 1..Len(transcript[r]) /\ transcript'[r][i] = transcript[r][i]
      <4>1. CASE r = y
        <5>1. transcript'[r] = Append(transcript[r], m) /\ transcript[r] \in Seq(Message)
          BY <1>1, <2>2, <4>1
        <5> QED
          BY <4>1, <5>1
      <4>2. CASE r # y
        BY <1>1, <2>2, <4>2
      <4> QED
        BY <4>1, <4>2
    <3> QED
      BY <3>1 DEF IdsOnce
  <2> QED
    BY <2>1, <2>2 DEF StoreStep
<1>5. nextId' \in Nat /\ nextId <= nextId'
  BY <1>1 DEF StoreStep
<1>6. \A r \in Rooms : \A i \in 1..Len(transcript[r]) : transcript[r][i].id \in Nat
  BY <1>1, IdsAreNumbers
<1>7. \A p \in Procs : \A i \in 1..Len(seen[p]) : seen[p][i].id \in Nat
  BY <1>1, IdsAreNumbers
<1>8. IdsOnce'
  <2>1. \A r \in Rooms : \A i \in 1..Len(transcript'[r]) : transcript'[r][i].id < nextId'
    <3> SUFFICES ASSUME NEW r \in Rooms, NEW i \in 1..Len(transcript'[r])
                 PROVE  transcript'[r][i].id < nextId'
      OBVIOUS
    <3>1. CASE transcript'[r][i].id = nextId /\ nextId' = nextId + 1
      BY <1>1, <3>1
    <3>2. CASE i \in 1..Len(transcript[r]) /\ transcript'[r][i] = transcript[r][i]
      <4>1. transcript[r][i].id < nextId /\ transcript[r][i].id \in Nat
        BY <1>6, <3>2 DEF IdsOnce
      <4> QED
        BY <1>1, <1>5, <3>2, <4>1
    <3> QED
      BY <1>3, <3>1, <3>2
  <2>2. \A s \in Sessions : \A id \in delivered'[s] : id < nextId'
    BY <1>1, <1>5 DEF IdsOnce
  <2>3. \A p \in Procs : Holding(p) => \A i \in 1..Len(seen[p]) : seen[p][i].id < nextId'
    BY <1>1, <1>5, <1>7 DEF IdsOnce
  <2>4. ASSUME NEW r \in Rooms, NEW x \in Rooms,
               NEW i \in 1..Len(transcript'[r]), NEW j \in 1..Len(transcript'[x]),
               transcript'[r][i].id = transcript'[x][j].id
        PROVE  r = x /\ i = j
    <3>1. CASE transcript'[r][i].id = nextId
      BY <1>4, <2>4, <3>1
    <3>2. CASE transcript'[r][i].id # nextId
      <4>1. i \in 1..Len(transcript[r]) /\ transcript'[r][i] = transcript[r][i]
        BY <1>3, <3>2
      <4>2. j \in 1..Len(transcript[x]) /\ transcript'[x][j] = transcript[x][j]
        BY <1>3, <2>4, <3>2
      <4>3. transcript[r][i].id = transcript[x][j].id
        BY <2>4, <4>1, <4>2
      <4> QED
        BY <4>1, <4>2, <4>3 DEF IdsOnce
    <3> QED
      BY <3>1, <3>2
  <2> QED
    BY <1>1, <2>1, <2>2, <2>3, <2>4 DEF IdsOnce, Holding, Reading, Finishing
<1>9. SeenInPlace'
  <2>0. \A p \in Procs : Holding(p)' <=> Holding(p)
    BY <1>1 DEF Holding, Reading, Finishing
  <2>a. seen' = seen /\ room' = room
    BY <1>1
  <2> SUFFICES ASSUME NEW p \in Procs, NEW r \in Rooms, Holding(p),
                      NEW i \in 1..Len(seen[p]), NEW j \in 1..Len(transcript'[r]),
                      seen[p][i].id = transcript'[r][j].id
               PROVE  r = room[p] /\ i = j
    BY <2>0, <2>a DEF SeenInPlace
  <2>1. seen[p][i].id < nextId /\ seen[p][i].id \in Nat
    BY <1>7 DEF IdsOnce
  <2>2. j \in 1..Len(transcript[r]) /\ transcript'[r][j] = transcript[r][j]
    BY <1>1, <1>3, <2>1
  <2>3. seen[p][i].id = transcript[r][j].id
    BY <2>2
  <2> QED
    BY <2>2, <2>3 DEF SeenInPlace
<1>10. OverlayKnows'
  <2> SUFFICES ASSUME NEW r \in Rooms, NEW s \in Sessions, NEW i \in 1..Len(transcript'[r]),
                      transcript'[r][i].id \in delivered[s]
               PROVE  \/ i <= overlay[r][s]
                      \/ \E p \in Procs : /\ Owner[p] = s /\ Finishing(p)
                                          /\ room[p] = r /\ i <= Len(seen[p])
    BY <1>1 DEF OverlayKnows, Finishing
  <2>1. transcript'[r][i].id < nextId
    BY DEF IdsOnce
  <2>2. i \in 1..Len(transcript[r]) /\ transcript'[r][i] = transcript[r][i]
    BY <1>1, <1>3, <2>1
  <2> QED
    BY <2>2 DEF OverlayKnows
<1>11. \A p \in Procs : ReaderKnows(p)'
  BY <1>1 DEF ReaderKnows, Reading
<1> QED
  BY <1>2, <1>8, <1>9, <1>10, <1>11

LEMMA StoreSteps ==
    ASSUME TypeOK, Daemon \/ SessionVerbs \/ UNCHANGED vars
    PROVE  StoreStep
<1> USE DEF db, files, locals, ghosts
<1>0. transcript \in [Rooms -> Seq(Message)] /\ nextId \in Nat
  BY DEF TypeOK
<1>1. ASSUME NEW d \in Draft, Post(d)
      PROVE  \E x \in Rooms, m \in Message :
                /\ m.id = nextId /\ nextId' = nextId + 1
                /\ transcript' = [transcript EXCEPT ![x] = Append(@, m)]
  <2> DEFINE m == [id |-> nextId, sender |-> d.sender, target |-> d.target,
                   urgent |-> d.urgent, ambient |-> d.ambient]
  <2>1. m \in Message /\ m.id = nextId /\ d.room \in Rooms
    BY <1>0 DEF Message, Draft
  <2>2. nextId' = nextId + 1 /\ transcript' = [transcript EXCEPT ![d.room] = Append(@, m)]
    BY <1>1 DEF Post
  <2> HIDE DEF m
  <2> QED
    BY <2>1, <2>2
<1>2. ASSUME UNCHANGED <<transcript, nextId>>
      PROVE  nextId' = nextId /\ \A r \in Rooms : transcript'[r] \in {transcript[r], <<>>}
  BY <1>2
<1>3. ASSUME NEW r \in Rooms, DeleteRoom(r)
      PROVE  nextId' = nextId /\ \A x \in Rooms : transcript'[x] \in {transcript[x], <<>>}
  BY <1>0, <1>3 DEF DeleteRoom
<1>4. ASSUME NEW f \in spool, DrainApply(f)
      PROVE  StoreStep
  <2>1. /\ f \in File /\ UNCHANGED <<pc, seen, room, overlay, delivered, lock>>
    BY <1>4 DEF DrainApply, TypeOK
  <2>2. CASE Join(f.room, f.name) \/ Leave(f.room, f.name) \/ Close(f.room)
             \/ AdvanceCursor(f.room, f.member, f.seq)
    <3>1. UNCHANGED <<transcript, nextId>>
      BY <2>2 DEF Join, Leave, Close, AdvanceCursor
    <3> QED
      BY <1>2, <2>1, <3>1 DEF StoreStep
  <2>3. CASE f.op = "bus_send" /\ Post(f.draft)
    BY <1>1, <2>1, <2>3, FileFields DEF StoreStep
  <2>4. CASE f.op = "bus_delete_room" /\ DeleteRoom(f.room)
    BY <1>3, <2>1, <2>4, FileFields DEF StoreStep
  <2> QED
    BY <1>4, <2>2, <2>3, <2>4 DEF DrainApply, ApplyBusOp
<1>5. CASE DrainRemove \/ DaemonRestart \/ UNCHANGED vars
  BY <1>2, <1>5 DEF DrainRemove, DaemonRestart, vars, StoreStep
<1>6. ASSUME NEW d \in Drafts, SendDirect(d)
      PROVE  StoreStep
  <2>1. d \in Draft /\ Post(d) /\ UNCHANGED <<pc, seen, room, overlay, delivered, lock>>
    BY <1>6, ConstantsAssumption DEF SendDirect
  <2> QED
    BY <1>1, <2>1 DEF StoreStep
<1>7. ASSUME NEW s \in Users, ReachableDirect(s) \/ SessionEnd(s) \/ SessionStart(s)
      PROVE  StoreStep
  BY <1>2, <1>7 DEF ReachableDirect, SessionEnd, SessionStart, StoreStep
<1>8. ASSUME NEW r \in Rooms, GcClose(r) \/ GcPurge(r)
      PROVE  StoreStep
  BY <1>2, <1>3, <1>8 DEF GcClose, GcPurge, StoreStep
<1>9. CASE SessionVerbs
  <2>1. UNCHANGED <<transcript, nextId, pc, seen, room, overlay, delivered>>
    BY <1>9 DEF SessionVerbs, JoinVerb, LeaveVerb, CloseVerb, SendVerb, DeleteRoomVerb,
                HelloVerb, ReachableVerb, ToggleDnd, ProbeLock, ProbeUnlock, Enqueue
  <2>2. \/ lock' = lock
        \/ \E s \in Users : lock[s] \in {NoHolder, Prober} /\ \E h : lock' = [lock EXCEPT ![s] = h]
    BY <1>9 DEF SessionVerbs, JoinVerb, LeaveVerb, CloseVerb, SendVerb, DeleteRoomVerb,
                HelloVerb, ReachableVerb, ToggleDnd, ProbeLock, ProbeUnlock, Enqueue
  <2>3. \A s \in Sessions : lock[s] \in Procs => lock'[s] = lock[s]
    BY <2>2, ConstantsAssumption DEF TypeOK
  <2> QED
    BY <1>2, <2>1, <2>3 DEF StoreStep
<1> QED
  BY <1>4, <1>5, <1>6, <1>7, <1>8, <1>9 DEF Daemon

-----------------------------------------------------------------------------

\* A step of reader p, whatever it does to p.
PStep(p) ==
    /\ pc[p] # "off" \/ pc'[p] \in {"off", "window"}
    /\ UNCHANGED <<transcript, nextId>>
    /\ \A q \in Procs \ {p} : pc'[q] = pc[q] /\ room'[q] = room[q] /\ seen'[q] = seen[q]
    /\ \A s \in Sessions : lock[s] \in Procs \ {p} => lock'[s] = lock[s]
    /\ pc'[p] # "off" => lock'[Owner[p]] = p
    /\ \A s \in Sessions \ {Owner[p]} :
           delivered'[s] = delivered[s] /\ \A r \in Rooms : overlay'[r][s] = overlay[r][s]

\* The parts of WakeInv that are about other readers.
LEMMA OthersKeepWake ==
    ASSUME TypeOK, WakeInv, NEW p \in Procs, PStep(p)
    PROVE  /\ HoldsLock'
           /\ \A q \in Procs \ {p} : pc[q] # "off" /\ pc[p] # "off" => Owner[q] # Owner[p]
           /\ pc[p] # "off" => \A q \in Procs \ {p} : ReaderKnows(q)'
<1> USE DEF WakeInv
<1>1. Owner \in [Procs -> Sessions] /\ room \in [Procs -> Rooms]
  BY ConstantsAssumption DEF TypeOK
<1>2. HoldsLock'
  BY <1>1 DEF HoldsLock, PStep
<1>3. \A q \in Procs \ {p} : pc[q] # "off" /\ pc[p] # "off" => Owner[q] # Owner[p]
  BY OneReader
<1>4. ASSUME NEW q \in Procs \ {p}, pc[p] # "off"
      PROVE  ReaderKnows(q)'
  <2>1. CASE pc[q] = "off"
    BY <2>1 DEF PStep, ReaderKnows, Reading
  <2>2. CASE pc[q] # "off"
    <3>1. /\ Owner[q] \in Sessions \ {Owner[p]} /\ room[q] \in Rooms
          /\ pc'[q] = pc[q] /\ room'[q] = room[q] /\ seen'[q] = seen[q]
      BY <1>1, <1>3, <1>4, <2>2 DEF PStep
    <3>2. delivered'[Owner[q]] = delivered[Owner[q]]
          /\ overlay'[room[q]][Owner[q]] = overlay[room[q]][Owner[q]]
      BY <3>1 DEF PStep
    <3> QED
      BY <3>1, <3>2 DEF ReaderKnows, Reading
  <2> QED
    BY <2>1, <2>2
<1> QED
  BY <1>2, <1>3, <1>4

\* What a step of p has to show of p itself.
Fresh(p) ==
    Holding(p) => \A i \in 1..Len(seen[p]) :
        /\ seen[p][i].id < nextId
        /\ \A r \in Rooms : \A j \in 1..Len(transcript[r]) :
               seen[p][i].id = transcript[r][j].id => r = room[p] /\ i = j

ShownKnown(s) ==
    \A r \in Rooms : \A i \in 1..Len(transcript[r]) :
        transcript[r][i].id \in delivered[s] =>
            \/ i <= overlay[r][s]
            \/ \E p \in Procs : /\ Owner[p] = s /\ Finishing(p)
                                /\ room[p] = r /\ i <= Len(seen[p])

LEMMA ReaderKeepsWake ==
    ASSUME TypeOK, WakeInv, NEW p \in Procs, PStep(p),
           \A id \in delivered'[Owner[p]] : id < nextId,
           Fresh(p)', ShownKnown(Owner[p])', ReaderKnows(p)',
           pc[p] # "off" \/ UNCHANGED <<delivered, overlay>>
    PROVE  WakeInv'
<1> USE DEF WakeInv
<1>0. /\ Owner \in [Procs -> Sessions] /\ room \in [Procs -> Rooms]
      /\ UNCHANGED <<transcript, nextId>>
  BY ConstantsAssumption DEF TypeOK, PStep
<1>1. HoldsLock'
  BY OthersKeepWake
<1>2. IdsOnce'
  <2>1. \A s \in Sessions : \A id \in delivered'[s] : id < nextId
    <3> SUFFICES ASSUME NEW s \in Sessions, NEW id \in delivered'[s] PROVE id < nextId
      OBVIOUS
    <3>1. CASE s = Owner[p]
      BY <3>1
    <3>2. CASE s # Owner[p]
      BY <3>2 DEF PStep, IdsOnce
    <3> QED
      BY <3>1, <3>2
  <2>2. \A q \in Procs : Holding(q)' => \A i \in 1..Len(seen'[q]) : seen'[q][i].id < nextId
    <3> SUFFICES ASSUME NEW q \in Procs, Holding(q)', NEW i \in 1..Len(seen'[q])
                 PROVE  seen'[q][i].id < nextId
      OBVIOUS
    <3>1. CASE q = p
      BY <1>0, <3>1 DEF Fresh
    <3>2. CASE q # p
      BY <3>2 DEF PStep, IdsOnce, Holding, Reading, Finishing
    <3> QED
      BY <3>1, <3>2
  <2> QED
    BY <1>0, <2>1, <2>2 DEF IdsOnce
<1>3. SeenInPlace'
  <2> SUFFICES ASSUME NEW q \in Procs, NEW r \in Rooms, Holding(q)',
                      NEW i \in 1..Len(seen'[q]), NEW j \in 1..Len(transcript[r]),
                      seen'[q][i].id = transcript[r][j].id
               PROVE  r = room'[q] /\ i = j
    BY <1>0 DEF SeenInPlace
  <2>1. CASE q = p
    BY <1>0, <2>1 DEF Fresh
  <2>2. CASE q # p
    <3>1. Holding(q) /\ seen'[q] = seen[q] /\ room'[q] = room[q]
      BY <2>2 DEF PStep, Holding, Reading, Finishing
    <3> QED
      BY <3>1 DEF SeenInPlace
  <2> QED
    BY <2>1, <2>2
<1>4. OverlayKnows'
  <2> SUFFICES ASSUME NEW s \in Sessions PROVE ShownKnown(s)'
    BY DEF OverlayKnows, ShownKnown
  <2>1. CASE s = Owner[p]
    BY <2>1
  <2>2. CASE s # Owner[p]
    <3> SUFFICES ASSUME NEW r \in Rooms, NEW i \in 1..Len(transcript[r]),
                        transcript[r][i].id \in delivered'[s]
                 PROVE  \/ i <= overlay'[r][s]
                        \/ \E q \in Procs : /\ Owner[q] = s /\ Finishing(q)'
                                            /\ room'[q] = r /\ i <= Len(seen'[q])
      BY <1>0 DEF ShownKnown
    <3>1. delivered'[s] = delivered[s] /\ overlay'[r][s] = overlay[r][s]
      BY <2>2 DEF PStep
    <3>2. CASE \E q \in Procs : /\ Owner[q] = s /\ Finishing(q)
                                /\ room[q] = r /\ i <= Len(seen[q])
      <4>1. PICK q \in Procs : /\ Owner[q] = s /\ Finishing(q)
                               /\ room[q] = r /\ i <= Len(seen[q])
        BY <3>2
      <4>2. q # p
        BY <2>2, <4>1
      <4> QED
        BY <4>1, <4>2 DEF PStep, Finishing
    <3> QED
      BY <3>1, <3>2 DEF OverlayKnows
  <2> QED
    BY <2>1, <2>2
<1>5. ASSUME NEW q \in Procs PROVE ReaderKnows(q)'
  <2>1. CASE q # p /\ pc[p] = "off"
    <3>1. /\ UNCHANGED <<delivered, overlay>> /\ pc'[q] = pc[q] /\ room'[q] = room[q]
          /\ seen'[q] = seen[q] /\ ReaderKnows(q)
      BY <2>1 DEF PStep
    <3> QED
      BY <3>1 DEF ReaderKnows, Reading
  <2> QED
    BY <2>1, OthersKeepWake
<1> QED
  BY <1>1, <1>2, <1>3, <1>4, <1>5

\* A reader that neither holds nor owes anything.
LEMMA IdleKeepsWake ==
    ASSUME TypeOK, WakeInv, NEW p \in Procs, PStep(p), UNCHANGED <<delivered, overlay>>,
           ~Finishing(p), pc'[p] \in {"off", "window", "closedcheck", "poll", "read"}
    PROVE  WakeInv'
<1> USE DEF WakeInv
<1>0. Owner[p] \in Sessions /\ UNCHANGED <<transcript, nextId>>
  BY ConstantsAssumption DEF TypeOK, PStep
<1>1. Fresh(p)' /\ ReaderKnows(p)'
  BY DEF Fresh, ReaderKnows, Holding, Reading, Finishing
<1>2. ShownKnown(Owner[p])'
  <2> SUFFICES ASSUME NEW r \in Rooms, NEW i \in 1..Len(transcript[r]),
                      transcript[r][i].id \in delivered[Owner[p]], ~(i <= overlay[r][Owner[p]])
               PROVE  \E q \in Procs : /\ Owner[q] = Owner[p] /\ Finishing(q)'
                                       /\ room'[q] = r /\ i <= Len(seen'[q])
    BY <1>0 DEF ShownKnown
  <2>1. PICK q \in Procs : /\ Owner[q] = Owner[p] /\ Finishing(q)
                           /\ room[q] = r /\ i <= Len(seen[q])
    BY <1>0 DEF OverlayKnows
  <2>2. q # p
    BY <2>1
  <2> QED
    BY <2>1, <2>2 DEF PStep, Finishing
<1> QED
  BY <1>0, <1>1, <1>2, ReaderKeepsWake DEF IdsOnce

\* A reader that has printed and not yet written, and stays so.
LEMMA OwingKeepsWake ==
    ASSUME TypeOK, WakeInv, NEW p \in Procs, PStep(p),
           UNCHANGED <<delivered, overlay, room, seen>>,
           Finishing(p), pc'[p] \in {"mark", "write"},
           pc'[p] = "write" => overlay[room[p]][Owner[p]] < Len(seen[p])
    PROVE  WakeInv'
<1> USE DEF WakeInv
<1>0. Owner[p] \in Sessions /\ room[p] \in Rooms /\ UNCHANGED <<transcript, nextId>>
  BY ConstantsAssumption DEF TypeOK, PStep
<1>1. Fresh(p)
  BY DEF IdsOnce, SeenInPlace, Fresh
<1>2. Fresh(p)'
  BY <1>0, <1>1 DEF Fresh, Holding
<1>3. ReaderKnows(p)'
  BY <1>0 DEF ReaderKnows, Reading
<1>4. ShownKnown(Owner[p])'
  <2> SUFFICES ASSUME NEW r \in Rooms, NEW i \in 1..Len(transcript[r]),
                      transcript[r][i].id \in delivered[Owner[p]], ~(i <= overlay[r][Owner[p]])
               PROVE  \E q \in Procs : /\ Owner[q] = Owner[p] /\ Finishing(q)'
                                       /\ room[q] = r /\ i <= Len(seen[q])
    BY <1>0 DEF ShownKnown
  <2>1. PICK q \in Procs : /\ Owner[q] = Owner[p] /\ Finishing(q)
                           /\ room[q] = r /\ i <= Len(seen[q])
    BY <1>0 DEF OverlayKnows
  <2>2. Finishing(q)'
    BY <2>1 DEF PStep, Finishing
  <2> QED
    BY <2>1, <2>2
<1> QED
  BY <1>0, <1>2, <1>3, <1>4, ReaderKeepsWake DEF IdsOnce, Finishing

\* Done: the overlay names all that was printed.
LEMMA DoneKeepsWake ==
    ASSUME TypeOK, TypeOK', WakeInv, NEW p \in Procs, PStep(p), delivered' = delivered,
           Finishing(p), pc'[p] \in {"off", "poll"},
           \A r \in Rooms : overlay[r][Owner[p]] <= overlay'[r][Owner[p]],
           Len(seen[p]) <= overlay'[room[p]][Owner[p]]
    PROVE  WakeInv'
<1> USE DEF WakeInv
<1>0. /\ Owner[p] \in Sessions /\ room[p] \in Rooms /\ UNCHANGED <<transcript, nextId>>
      /\ Len(seen[p]) \in Nat
  BY ConstantsAssumption DEF TypeOK, PStep
<1>1. \A r \in Rooms : overlay[r][Owner[p]] \in Nat /\ overlay'[r][Owner[p]] \in Nat
  BY <1>0 DEF TypeOK
<1>2. Fresh(p)' /\ ReaderKnows(p)'
  BY DEF Fresh, ReaderKnows, Holding, Reading, Finishing
<1>3. ShownKnown(Owner[p])'
  <2> SUFFICES ASSUME NEW r \in Rooms, NEW i \in 1..Len(transcript[r]),
                      transcript[r][i].id \in delivered[Owner[p]]
               PROVE  i <= overlay'[r][Owner[p]]
    BY <1>0 DEF ShownKnown
  <2>1. CASE i <= overlay[r][Owner[p]]
    BY <1>1, <2>1
  <2>2. CASE ~(i <= overlay[r][Owner[p]])
    <3>1. PICK q \in Procs : /\ Owner[q] = Owner[p] /\ Finishing(q)
                             /\ room[q] = r /\ i <= Len(seen[q])
      BY <1>0, <2>2 DEF OverlayKnows
    <3>2. q = p
      BY <3>1, OneReader DEF Finishing
    <3> QED
      BY <1>0, <1>1, <3>1, <3>2
  <2> QED
    BY <2>1, <2>2
<1> QED
  BY <1>0, <1>2, <1>3, ReaderKeepsWake DEF IdsOnce, Finishing

LEMMA ReadingKeepsWake ==
    ASSUME TypeOK, WakeInv, NEW p \in Procs, PStep(p), UNCHANGED <<delivered, overlay, room>>,
           \/ pc[p] = "read" /\ pc'[p] = "cursor" /\ seen'[p] = transcript[room[p]]
           \/ pc[p] = "cursor" /\ pc'[p] = "decide" /\ seen'[p] = seen[p]
    PROVE  WakeInv'
<1> USE DEF WakeInv
<1>0. /\ Owner[p] \in Sessions /\ room[p] \in Rooms /\ UNCHANGED <<transcript, nextId>>
      /\ pc[p] # "off" /\ ~Finishing(p)
  BY ConstantsAssumption DEF TypeOK, PStep, Finishing
<1>1. \A q \in Procs : Finishing(q) => Owner[q] # Owner[p]
  BY <1>0, OneReader DEF Finishing
<1>2. \A r \in Rooms : \A i \in 1..Len(transcript[r]) :
          transcript[r][i].id \in delivered[Owner[p]] => i <= overlay[r][Owner[p]]
  BY <1>0, <1>1 DEF OverlayKnows
<1>3. ShownKnown(Owner[p])'
  BY <1>0, <1>2 DEF ShownKnown
<1>4. Fresh(p)' /\ ReaderKnows(p)'
  <2>1. CASE pc[p] = "read"
    <3>1. Fresh(p)'
      BY <1>0, <2>1 DEF Fresh, IdsOnce
    <3>2. ReaderKnows(p)'
      BY <1>0, <1>2, <2>1 DEF ReaderKnows
    <3> QED
      BY <3>1, <3>2
  <2>2. CASE pc[p] = "cursor"
    <3>1. Fresh(p)
      BY DEF IdsOnce, SeenInPlace, Fresh
    <3>2. Fresh(p)'
      BY <1>0, <2>2, <3>1 DEF Fresh, Holding, Reading
    <3>3. ReaderKnows(p)'
      BY <1>0, <2>2 DEF ReaderKnows, Reading
    <3> QED
      BY <3>2, <3>3
  <2> QED
    BY <2>1, <2>2
<1> QED
  BY <1>0, <1>3, <1>4, ReaderKeepsWake DEF IdsOnce

LEMMA CapAddsNothing ==
    ASSUME NEW log, NEW hits, NEW limit
    PROVE  CapBacklog(log, hits, limit) \subseteq hits
  BY DEF CapBacklog, Newest

\* What is printed comes after all the overlay names, and so was never printed.
LEMMA PrintsWhatIsNew ==
    ASSUME TypeOK, WakeInv, NEW p \in Procs, pc[p] = "decide", NEW i \in ToPrint(p)
    PROVE  i \in 1..Len(seen[p]) /\ seen[p][i].id \notin delivered[Owner[p]]
<1>1. i \in Hits(p)
  BY CapAddsNothing DEF ToPrint
<1>2. i \in 1..Len(seen[p]) /\ i > EffectiveCursor(p) /\ Len(seen[p]) \in Nat
  BY <1>1 DEF Hits, UnreadFor, TypeOK
<1>3. overlay[room[p]][Owner[p]] \in Nat /\ cur[p] \in Nat
  BY ConstantsAssumption DEF TypeOK
<1>4. ~(i <= overlay[room[p]][Owner[p]])
  BY <1>2, <1>3 DEF EffectiveCursor
<1> QED
  BY <1>2, <1>4 DEF WakeInv, ReaderKnows, Reading

LEMMA PrintingKeepsWake ==
    ASSUME TypeOK, WakeInv, NEW p \in Procs, Decide(p), ReaderWakes(p)
    PROVE  WakeInv'
<1> USE DEF WakeInv
<1> DEFINE s == Owner[p]
           printed == {seen[p][i].id : i \in ToPrint(p)}
<1>0. /\ s \in Sessions /\ room[p] \in Rooms /\ delivered \in [Sessions -> SUBSET Nat]
      /\ pc \in [Procs -> PCs] /\ seen[p] \in Seq(Message) /\ nextId \in Nat
  BY ConstantsAssumption DEF TypeOK
<1>1. /\ UNCHANGED <<transcript, nextId, overlay, lock, room, seen>>
      /\ pc[p] = "decide" /\ pc' = [pc EXCEPT ![p] = "emit"]
      /\ delivered' = [delivered EXCEPT ![s] = @ \cup printed]
  BY DEF Decide, StoreUnchanged, db
<1>2. /\ pc'[p] = "emit" /\ delivered'[s] = delivered[s] \cup printed
      /\ \A q \in Procs \ {p} : pc'[q] = pc[q]
      /\ \A x \in Sessions \ {s} : delivered'[x] = delivered[x]
  BY <1>0, <1>1
<1> HIDE DEF printed
<1>3. PStep(p)
  <2>1. lock[s] = p
    BY <1>1 DEF HoldsLock
  <2> QED
    BY <1>1, <1>2, <2>1 DEF PStep
<1>4. Fresh(p)
  BY DEF IdsOnce, SeenInPlace, Fresh
<1>5. Fresh(p)' /\ ReaderKnows(p)'
  BY <1>1, <1>2, <1>4 DEF Fresh, ReaderKnows, Holding, Reading, Finishing
<1>6. \A id \in printed : \E i \in 1..Len(seen[p]) : id = seen[p][i].id
  BY <1>1, PrintsWhatIsNew DEF printed
<1>7. \A id \in delivered'[s] : id < nextId
  <2>1. \A id \in printed : id < nextId
    BY <1>1, <1>4, <1>6 DEF Fresh, Holding, Reading
  <2> QED
    BY <1>0, <1>2, <2>1 DEF IdsOnce
<1>8. ShownKnown(s)'
  <2> SUFFICES ASSUME NEW r \in Rooms, NEW i \in 1..Len(transcript[r]),
                      transcript[r][i].id \in delivered'[s], ~(i <= overlay[r][s])
               PROVE  room[p] = r /\ i <= Len(seen[p])
    BY <1>1, <1>2 DEF ShownKnown, Finishing
  <2>1. transcript[r][i].id \notin delivered[s]
    <3> SUFFICES ASSUME transcript[r][i].id \in delivered[s] PROVE FALSE
      OBVIOUS
    <3>1. PICK q \in Procs : Owner[q] = s /\ Finishing(q)
      BY <1>0 DEF OverlayKnows
    <3>2. q = p
      BY <1>1, <3>1, OneReader DEF Finishing
    <3> QED
      BY <1>1, <3>1, <3>2 DEF Finishing
  <2>2. PICK j \in 1..Len(seen[p]) : transcript[r][i].id = seen[p][j].id
    BY <1>2, <1>6, <2>1
  <2>3. r = room[p] /\ j = i
    BY <1>1, <1>4, <2>2 DEF Fresh, Holding, Reading
  <2> QED
    BY <1>0, <2>2, <2>3
<1> HIDE DEF s
<1>9. pc[p] # "off"
  BY <1>1
<1> QED
  BY <1>3, <1>5, <1>7, <1>8, <1>9, ReaderKeepsWake DEF s

LEMMA ExitStep ==
    ASSUME TypeOK, HoldsLock, NEW p \in Procs, NEW code, ExitWith(p, code), pc[p] # "off",
           UNCHANGED <<transcript, nextId, delivered>>,
           \A s \in Sessions \ {Owner[p]}, r \in Rooms : overlay'[r][s] = overlay[r][s]
    PROVE  PStep(p) /\ pc'[p] = "off"
<1>1. /\ pc \in [Procs -> PCs] /\ room \in [Procs -> Rooms] /\ seen \in [Procs -> Seq(Message)]
      /\ lock \in [Sessions -> Procs \cup {NoHolder, Prober}] /\ Owner[p] \in Sessions
  BY ConstantsAssumption DEF TypeOK
<1>2. /\ pc' = [pc EXCEPT ![p] = "off"] /\ room' = [room EXCEPT ![p] = Lobby]
      /\ seen' = [seen EXCEPT ![p] = <<>>]
      /\ lock' = [lock EXCEPT ![Owner[p]] = IF @ = p THEN NoHolder ELSE @]
  BY DEF ExitWith
<1> QED
  BY <1>1, <1>2 DEF PStep

\* A step that keeps the lock a running reader has.
LEMMA RunningStep ==
    ASSUME TypeOK, HoldsLock, NEW p \in Procs, pc[p] # "off",
           UNCHANGED <<transcript, nextId, lock>>,
           \A q \in Procs \ {p} : pc'[q] = pc[q] /\ room'[q] = room[q] /\ seen'[q] = seen[q],
           \A s \in Sessions \ {Owner[p]} :
               delivered'[s] = delivered[s] /\ \A r \in Rooms : overlay'[r][s] = overlay[r][s]
    PROVE  PStep(p)
<1>1. lock'[Owner[p]] = p
  BY DEF HoldsLock
<1> QED
  BY <1>1 DEF PStep

LEMMA ListenersKeepWake ==
    ASSUME Undisturbed, TypeOK, TypeOK', WakeInv, NEW p \in Procs, Reader(p)
    PROVE  WakeInv'
<1> USE DEF db
<1> HoldsLock
  BY DEF WakeInv
<1>0. /\ pc \in [Procs -> PCs] /\ room \in [Procs -> Rooms] /\ seen \in [Procs -> Seq(Message)]
      /\ Owner[p] \in Sessions /\ Kind[p] # "recv" /\ lock \in [Sessions -> Procs \cup {NoHolder, Prober}]
      /\ overlay \in [Rooms -> [Sessions -> Nat]] /\ room[p] \in Rooms
  BY ConstantsAssumption DEF TypeOK, Undisturbed
<1>1. CASE Arm(p)
  <2>1. UNCHANGED <<delivered, overlay, transcript, nextId, room, seen>> /\ pc[p] = "off"
    BY <1>1 DEF Arm, StoreUnchanged
  <2>2. CASE lock[Owner[p]] = NoHolder
    <3>1. pc' = [pc EXCEPT ![p] = "window"] /\ lock' = [lock EXCEPT ![Owner[p]] = p]
      BY <1>1, <2>2 DEF Arm
    <3>2. PStep(p) /\ pc'[p] = "window"
      BY <1>0, <2>1, <2>2, <3>1, ConstantsAssumption DEF PStep
    <3> QED
      BY <2>1, <3>2, IdleKeepsWake DEF Finishing
  <2>3. CASE lock[Owner[p]] # NoHolder
    <3>1. pc' = pc /\ lock' = lock
      BY <1>1, <2>3 DEF Arm
    <3>2. PStep(p) /\ pc'[p] = "off"
      BY <1>0, <2>1, <3>1 DEF PStep
    <3> QED
      BY <2>1, <3>2, IdleKeepsWake DEF Finishing
  <2> QED
    BY <2>2, <2>3
<1>2. CASE StartRecv(p) \/ RecvDone(p)
  BY <1>0, <1>2 DEF StartRecv, RecvDone
<1>3. CASE Kill(p)
  BY <1>3 DEF Kill, Undisturbed, TypeOK
<1>4. CASE StartWindow(p)
  <2>1. /\ UNCHANGED <<delivered, overlay, transcript, nextId, room, seen, lock>>
        /\ pc[p] = "window" /\ pc' = [pc EXCEPT ![p] = "closedcheck"]
    BY <1>4 DEF StartWindow, StoreUnchanged
  <2>2. PStep(p) /\ pc'[p] = "closedcheck"
    BY <1>0, <2>1, RunningStep
  <2> QED
    BY <2>1, <2>2, IdleKeepsWake DEF Finishing
<1>5. CASE CheckRoomsClosed(p)
  <2>1. UNCHANGED <<delivered, overlay, transcript, nextId>> /\ pc[p] = "closedcheck"
    BY <1>5 DEF CheckRoomsClosed, StoreUnchanged
  <2>2. CASE ExitWith(p, "closed")
    BY <2>1, <2>2, ExitStep, IdleKeepsWake DEF Finishing
  <2>3. CASE pc' = [pc EXCEPT ![p] = "poll"] /\ UNCHANGED <<room, seen, lock>>
    <3>1. PStep(p) /\ pc'[p] = "poll"
      BY <1>0, <2>1, <2>3, RunningStep
    <3> QED
      BY <2>1, <3>1, IdleKeepsWake DEF Finishing
  <2> QED
    BY <1>5, <2>2, <2>3 DEF CheckRoomsClosed
<1>6. ASSUME NEW r \in Rooms, PollRoom(p, r)
      PROVE  WakeInv'
  <2>1. UNCHANGED <<delivered, overlay, transcript, nextId, seen, lock>> /\ pc[p] = "poll"
    BY <1>6 DEF PollRoom, StoreUnchanged
  <2>2. \/ pc' = pc /\ room' = room
        \/ pc' = [pc EXCEPT ![p] = "read"] /\ room' = [room EXCEPT ![p] = r]
    BY <1>6 DEF PollRoom
  <2>3. PStep(p) /\ pc'[p] \in {"poll", "read"}
    BY <1>0, <2>1, <2>2, RunningStep
  <2> QED
    BY <2>1, <2>3, IdleKeepsWake DEF Finishing
<1>7. CASE ReadMessages(p)
  <2>1. /\ UNCHANGED <<delivered, overlay, transcript, nextId, room, lock>> /\ pc[p] = "read"
        /\ seen' = [seen EXCEPT ![p] = transcript[room[p]]]
        /\ pc' = [pc EXCEPT ![p] = "cursor"]
    BY <1>0, <1>7 DEF ReadMessages, StoreUnchanged
  <2>2. PStep(p) /\ pc'[p] = "cursor" /\ seen'[p] = transcript[room[p]]
    BY <1>0, <2>1, RunningStep
  <2> QED
    BY <2>1, <2>2, ReadingKeepsWake
<1>8. CASE ReadCursor(p)
  <2>1. /\ UNCHANGED <<delivered, overlay, transcript, nextId, room, seen, lock>>
        /\ pc[p] = "cursor" /\ pc' = [pc EXCEPT ![p] = "decide"]
    BY <1>8 DEF ReadCursor, StoreUnchanged
  <2>2. PStep(p) /\ pc'[p] = "decide"
    BY <1>0, <2>1, RunningStep
  <2> QED
    BY <2>1, <2>2, ReadingKeepsWake
<1>9. CASE Decide(p)
  <2>1. CASE ReaderWakes(p)
    BY <1>9, <2>1, PrintingKeepsWake
  <2>2. CASE ~ReaderWakes(p)
    <3>1. /\ UNCHANGED <<delivered, overlay, transcript, nextId, room, lock>> /\ pc[p] = "decide"
          /\ pc' = [pc EXCEPT ![p] = "poll"] /\ seen' = [seen EXCEPT ![p] = <<>>]
      BY <1>9, <2>2 DEF Decide, StoreUnchanged
    <3>2. PStep(p) /\ pc'[p] = "poll"
      BY <1>0, <3>1, RunningStep
    <3> QED
      BY <3>1, <3>2, IdleKeepsWake DEF Finishing
  <2> QED
    BY <2>1, <2>2
<1>10. CASE EmitReceipt(p)
  <2>1. /\ UNCHANGED <<delivered, overlay, transcript, nextId, room, seen, lock>>
        /\ pc[p] = "emit" /\ pc' = [pc EXCEPT ![p] = "mark"]
    BY <1>10 DEF EmitReceipt, StoreUnchanged
  <2>2. PStep(p) /\ pc'[p] = "mark"
    BY <1>0, <2>1, RunningStep
  <2> QED
    BY <2>1, <2>2, OwingKeepsWake DEF Finishing
<1>11. CASE MarkRead(p)
  <2>1. UNCHANGED <<delivered, overlay, transcript, nextId>> /\ pc[p] = "mark"
    BY <1>11 DEF MarkRead, StoreUnchanged
  <2>2. CASE overlay[room[p]][Owner[p]] < Len(seen[p])
    <3>1. UNCHANGED <<room, seen, lock>> /\ pc' = [pc EXCEPT ![p] = "write"]
      BY <1>11, <2>2 DEF MarkRead
    <3>2. PStep(p) /\ pc'[p] = "write"
      BY <1>0, <2>1, <3>1, RunningStep
    <3> QED
      BY <2>1, <2>2, <3>1, <3>2, OwingKeepsWake DEF Finishing
  <2>3. CASE ~(overlay[room[p]][Owner[p]] < Len(seen[p]))
    <3>1. PStep(p) /\ pc'[p] = "off"
      BY <1>0, <1>11, <2>1, <2>3, ExitStep DEF MarkRead, FinishRoom
    <3>2. /\ \A r \in Rooms : overlay[r][Owner[p]] <= overlay'[r][Owner[p]]
          /\ Len(seen[p]) <= overlay'[room[p]][Owner[p]]
      BY <1>0, <2>1, <2>3
    <3> QED
      BY <2>1, <3>1, <3>2, DoneKeepsWake DEF Finishing
  <2> QED
    BY <2>2, <2>3
<1>12. CASE MarkWrite(p)
  <2>1. /\ UNCHANGED <<delivered, transcript, nextId>> /\ pc[p] = "write"
        /\ overlay' = [overlay EXCEPT ![room[p]][Owner[p]] = Len(seen[p])]
        /\ ExitWith(p, "delivered")
    BY <1>0, <1>12 DEF MarkWrite, FinishRoom, StoreUnchanged
  <2>2. overlay[room[p]][Owner[p]] < Len(seen[p]) /\ Len(seen[p]) \in Nat
    BY <1>0, <2>1 DEF WakeInv, ReaderKnows
  <2>3. /\ \A s \in Sessions \ {Owner[p]}, r \in Rooms : overlay'[r][s] = overlay[r][s]
        /\ overlay'[room[p]][Owner[p]] = Len(seen[p])
        /\ \A r \in Rooms \ {room[p]} : overlay'[r][Owner[p]] = overlay[r][Owner[p]]
    BY <1>0, <2>1
  <2>4. \A r \in Rooms : overlay[r][Owner[p]] <= overlay'[r][Owner[p]]
    <3> SUFFICES ASSUME NEW r \in Rooms PROVE overlay[r][Owner[p]] <= overlay'[r][Owner[p]]
      OBVIOUS
    <3>1. overlay[r][Owner[p]] \in Nat
      BY <1>0
    <3> QED
      BY <2>2, <2>3, <3>1
  <2>5. PStep(p) /\ pc'[p] = "off"
    BY <2>1, <2>3, ExitStep
  <2>6. Len(seen[p]) <= overlay'[room[p]][Owner[p]]
    BY <2>2, <2>3
  <2> QED
    BY <2>1, <2>4, <2>5, <2>6, DoneKeepsWake DEF Finishing
<1>13. CASE NextPass(p)
  <2>1. UNCHANGED <<delivered, overlay, transcript, nextId, room, seen, lock, pc>> /\ pc[p] = "poll"
    BY <1>13 DEF NextPass, StoreUnchanged
  <2>2. PStep(p) /\ pc'[p] = "poll"
    BY <1>0, <2>1, RunningStep
  <2> QED
    BY <2>1, <2>2, IdleKeepsWake DEF Finishing
<1>14. CASE WindowExpires(p)
  <2>1. UNCHANGED <<delivered, overlay, transcript, nextId>> /\ pc[p] = "poll"
    BY <1>14 DEF WindowExpires, StoreUnchanged
  <2>2. CASE ExitWith(p, "rearm")
    BY <2>1, <2>2, ExitStep, IdleKeepsWake DEF Finishing
  <2>3. CASE pc' = [pc EXCEPT ![p] = "window"] /\ UNCHANGED <<room, seen, lock>>
    <3>1. PStep(p) /\ pc'[p] = "window"
      BY <1>0, <2>1, <2>3, RunningStep
    <3> QED
      BY <2>1, <3>1, IdleKeepsWake DEF Finishing
  <2> QED
    BY <1>14, <2>2, <2>3 DEF WindowExpires
<1> QED
  BY <1>1, <1>2, <1>3, <1>4, <1>5, <1>6, <1>7, <1>8, <1>9, <1>10, <1>11, <1>12, <1>13, <1>14
     DEF Reader, ReaderStep

LEMMA WakeAtFirst == Init => WakeInv
  BY ConstantsAssumption DEF Init, WakeInv, HoldsLock, IdsOnce, SeenInPlace, OverlayKnows,
     ReaderKnows, Holding, Reading, Finishing

\* A listener never prints what its session already had: the lock, the overlay
\* and the receipts together, whatever is queued, replayed, closed or deleted.
THEOREM OneWakeEach == ASSUME Undisturbed PROVE Spec => NoSecondWake
<1> DEFINE Inv == TypeOK /\ WakeInv
<1>1. Init => Inv
  BY InitTyped, WakeAtFirst
<1>2. Inv /\ [Next]_vars => Inv'
  <2> SUFFICES ASSUME Inv, [Next]_vars PROVE TypeOK' /\ WakeInv'
    OBVIOUS
  <2>1. TypeOK'
    BY TypeInductive
  <2> QED
    BY <2>1, StoreSteps, StoreKeepsWake, ListenersKeepWake DEF Next
<1>3. Inv => \A p \in Procs : pc[p] = "decide" =>
                  \A i \in ToPrint(p) : seen[p][i].id \notin delivered[Owner[p]]
  BY PrintsWhatIsNew
<1>4. Inv => [\A p \in Procs :
                 pc[p] = "decide" /\ pc'[p] = "emit" /\ Kind[p] # "recv"
                 => \A i \in ToPrint(p) : seen[p][i].id \notin delivered[Owner[p]]]_vars
  BY <1>3
<1>5. Spec => []Inv
  <2> HIDE DEF Inv
  <2> QED
    BY <1>1, <1>2, PTL DEF Spec
<1> HIDE DEF Inv
<1> QED
  BY <1>4, <1>5, PTL DEF Spec, NoSecondWake
=============================================================================
