-------------------------- MODULE BusDeliveryTyping --------------------------
(***************************************************************************)
(* The type invariant of BusDelivery, for any rooms, sessions and readers. *)
(***************************************************************************)
EXTENDS BusDelivery, TLAPS

\* What a spooled file of each kind carries.
LEMMA FileFields ==
    ASSUME NEW f \in File
    PROVE  /\ f.op \in {"bus_join", "bus_leave"} => f.room \in Rooms /\ f.name \in Sessions
           /\ f.op \in {"bus_close", "bus_delete_room"} => f.room \in Rooms
           /\ f.op = "bus_send" => f.draft \in Draft
           /\ f.op = "bus_cursor" => /\ f.room \in Rooms /\ f.member \in Sessions
                                     /\ f.seq \in Nat
  BY DEF File, RoomFile, WipeFile, SendFile, ReceiptFile

\* Nothing but the fields of db, and of reused, matter to a store operation.
StoreOK ==
    /\ rooms \in [Rooms -> {"absent", "open", "closed"}]
    /\ transcript \in [Rooms -> Seq(Message)]
    /\ nextId \in Nat
    /\ members \in [Rooms -> SUBSET Sessions]
    /\ history \in [Sessions -> SUBSET Rooms]
    /\ cursors \in [Rooms -> [Sessions -> Nat]]
    /\ live \subseteq Sessions
    /\ reused \subseteq Rooms

FilesOK ==
    /\ spool \subseteq File
    /\ inHand \in File \cup {NoFile}
    /\ overlay \in [Rooms -> [Sessions -> Nat]]
    /\ dnd \subseteq Sessions
    /\ lock \in [Sessions -> Procs \cup {NoHolder, Prober}]

LocalsOK ==
    /\ pc \in [Procs -> PCs]
    /\ targets \in [Procs -> SUBSET Rooms]
    /\ left \in [Procs -> SUBSET Rooms]
    /\ room \in [Procs -> Rooms]
    /\ last \in [Procs -> [Rooms -> Nat \cup {-1}]]
    /\ seen \in [Procs -> Seq(Message)]
    /\ cur \in [Procs -> Nat]
    /\ urgentOnly \in [Procs -> BOOLEAN]
    /\ exit \in [Procs -> Exits]

GhostsOK ==
    /\ delivered \in [Sessions -> SUBSET Nat]
    /\ nfiles \in Nat /\ kills \in Nat /\ crashes \in Nat

LEMMA TypeParts == TypeOK <=> StoreOK /\ FilesOK /\ LocalsOK /\ GhostsOK
  BY DEF TypeOK, StoreOK, FilesOK, LocalsOK, GhostsOK

LEMMA TypePartsNext == TypeOK' <=> StoreOK' /\ FilesOK' /\ LocalsOK' /\ GhostsOK'
  BY DEF TypeOK, StoreOK, FilesOK, LocalsOK, GhostsOK

LEMMA InitTyped == Init => TypeOK
  BY ConstantsAssumption DEF Init, TypeOK, PCs, Exits

-----------------------------------------------------------------------------

\* A message appended to a transcript gives a transcript.
LEMMA PostTyped ==
    ASSUME StoreOK, NEW d \in Draft, Post(d)
    PROVE  StoreOK'
<1> DEFINE m == [id |-> nextId, sender |-> d.sender, target |-> d.target,
                 urgent |-> d.urgent, ambient |-> d.ambient]
<1>1. m \in Message /\ d.room \in Rooms
  BY DEF StoreOK, Message, Draft
<1>2. transcript' \in [Rooms -> Seq(Message)]
  <2>1. transcript[d.room] \in Seq(Message)
    BY <1>1 DEF StoreOK
  <2> HIDE DEF m
  <2>2. Append(transcript[d.room], m) \in Seq(Message)
    BY <1>1, <2>1
  <2>3. transcript' = [transcript EXCEPT ![d.room] = Append(transcript[d.room], m)]
    BY DEF Post, m
  <2> QED
    BY <1>1, <2>2, <2>3 DEF StoreOK
<1>3. rooms' \in [Rooms -> {"absent", "open", "closed"}]
  BY DEF Post, EnsureRoom, StoreOK
<1>4. members' \in [Rooms -> SUBSET Sessions]
  BY DEF Post, StoreOK, Draft
<1> QED
  BY <1>2, <1>3, <1>4 DEF Post, StoreOK

\* The store operations, by whichever path they are reached.
LEMMA StoreOpsTyped ==
    ASSUME StoreOK, NEW f \in File, ApplyBusOp(f)
    PROVE  StoreOK'
<1>1. CASE f.op = "bus_join" /\ Join(f.room, f.name)
  BY <1>1, FileFields DEF Join, EnsureRoom, StoreOK
<1>2. CASE f.op = "bus_leave" /\ Leave(f.room, f.name)
  BY <1>2, FileFields DEF Leave, StoreOK
<1>3. CASE f.op = "bus_send" /\ Post(f.draft)
  BY <1>3, FileFields, PostTyped
<1>4. CASE f.op = "bus_cursor" /\ AdvanceCursor(f.room, f.member, f.seq)
  BY <1>4, FileFields DEF AdvanceCursor, StoreOK
<1>5. CASE f.op = "bus_close" /\ Close(f.room)
  BY <1>5, FileFields DEF Close, StoreOK
<1>6. CASE f.op = "bus_delete_room" /\ DeleteRoom(f.room)
  BY <1>6, FileFields DEF DeleteRoom, StoreOK
<1> QED
  BY <1>1, <1>2, <1>3, <1>4, <1>5, <1>6 DEF ApplyBusOp

LEMMA DaemonTyped == TypeOK /\ Daemon => TypeOK'
<1> SUFFICES ASSUME TypeOK, Daemon PROVE StoreOK' /\ FilesOK' /\ LocalsOK' /\ GhostsOK'
  BY TypePartsNext
<1> StoreOK /\ FilesOK /\ LocalsOK /\ GhostsOK
  BY TypeParts
<1> USE ConstantsAssumption DEF locals
<1>1. ASSUME NEW f \in spool, DrainApply(f)
      PROVE  StoreOK' /\ FilesOK' /\ LocalsOK' /\ GhostsOK'
  <2>1. f \in File
    BY DEF FilesOK
  <2>2. StoreOK'
    BY <1>1, <2>1, StoreOpsTyped DEF DrainApply
  <2> QED
    BY <1>1, <2>1, <2>2 DEF DrainApply, FilesOK, LocalsOK, GhostsOK
<1>2. CASE DrainRemove \/ DaemonRestart
  BY <1>2, SMTT(20) DEF DrainRemove, DaemonRestart, db, ghosts, StoreOK, FilesOK, LocalsOK, GhostsOK
<1>3. ASSUME NEW d \in Drafts, SendDirect(d)
      PROVE  StoreOK' /\ FilesOK' /\ LocalsOK' /\ GhostsOK'
  <2>1. StoreOK'
    BY <1>3, PostTyped DEF SendDirect
  <2> QED
    BY <1>3, <2>1 DEF SendDirect, files, FilesOK, LocalsOK, GhostsOK
<1>4. ASSUME NEW s \in Users, ReachableDirect(s) \/ SessionEnd(s) \/ SessionStart(s)
      PROVE  StoreOK' /\ FilesOK' /\ LocalsOK' /\ GhostsOK'
  <2>1. s \in Sessions
    OBVIOUS
  <2>2. CASE ReachableDirect(s)
    BY <2>1, <2>2 DEF ReachableDirect, files, ghosts, StoreOK, FilesOK, LocalsOK, GhostsOK
  <2>3. CASE SessionEnd(s) \/ SessionStart(s)
    <3>1. StoreOK'
      BY <2>1, <2>3 DEF SessionEnd, SessionStart, ghosts, StoreOK
    <3> QED
      BY <2>3, <3>1 DEF SessionEnd, SessionStart, files, ghosts, FilesOK, LocalsOK, GhostsOK
  <2> QED
    BY <1>4, <2>2, <2>3
<1>5. ASSUME NEW r \in Rooms, GcClose(r) \/ GcPurge(r)
      PROVE  StoreOK' /\ FilesOK' /\ LocalsOK' /\ GhostsOK'
  <2>1. StoreOK'
    <3>1. CASE GcClose(r)
      BY <3>1 DEF GcClose, ghosts, StoreOK
    <3>2. CASE GcPurge(r)
      BY <3>2 DEF GcPurge, DeleteRoom, StoreOK
    <3> QED
      BY <1>5, <3>1, <3>2
  <2> QED
    BY <1>5, <2>1 DEF GcClose, GcPurge, files, ghosts, FilesOK, LocalsOK, GhostsOK
<1> QED
  BY <1>1, <1>2, <1>3, <1>4, <1>5 DEF Daemon

-----------------------------------------------------------------------------

LEMMA EnqueueTyped ==
    ASSUME TypeOK, NEW fs \in SUBSET File, Enqueue(fs)
    PROVE  TypeOK'
  BY DEF TypeOK, Enqueue, db, locals

LEMMA VerbsTyped == TypeOK /\ SessionVerbs => TypeOK'
<1> SUFFICES ASSUME TypeOK, SessionVerbs PROVE TypeOK'
  OBVIOUS
<1> nfiles \in Nat /\ Users \subseteq Sessions /\ Lobby \in Rooms
  BY ConstantsAssumption DEF TypeOK
<1>1. \A r \in Rooms, s \in Sessions : JoinFile(r, s) \in File
  BY DEF JoinFile, File, RoomFile
<1>2. ASSUME NEW r \in Rooms, NEW s \in Users,
             JoinVerb(r, s) \/ LeaveVerb(r, s) \/ CloseVerb(r, s)
      PROVE  TypeOK'
  <2>1. CASE JoinVerb(r, s)
    BY <1>1, <2>1, EnqueueTyped DEF JoinVerb
  <2>2. CASE LeaveVerb(r, s)
    <3>1. [op |-> "bus_leave", n |-> nfiles, room |-> r, name |-> s] \in File
      BY DEF File, RoomFile
    <3> QED
      BY <2>2, <3>1, EnqueueTyped DEF LeaveVerb
  <2>3. CASE CloseVerb(r, s)
    <3>1. [op |-> "bus_close", n |-> nfiles, room |-> r] \in File
      BY DEF File, WipeFile
    <3> QED
      BY <2>3, <3>1, EnqueueTyped DEF CloseVerb
  <2> QED
    BY <1>2, <2>1, <2>2, <2>3
<1>3. ASSUME NEW d \in Drafts, SendVerb(d)
      PROVE  TypeOK'
  <2>1. [op |-> "bus_send", n |-> nfiles, draft |-> d] \in File
    BY ConstantsAssumption DEF File, SendFile
  <2> QED
    BY <1>3, <2>1, EnqueueTyped DEF SendVerb
<1>4. ASSUME NEW r \in Rooms, DeleteRoomVerb(r)
      PROVE  TypeOK'
  <2>1. [op |-> "bus_delete_room", n |-> nfiles, room |-> r] \in File
    BY DEF File, WipeFile
  <2> QED
    BY <1>4, <2>1, EnqueueTyped DEF DeleteRoomVerb
<1>5. ASSUME NEW s \in Users, HelloVerb(s) \/ ReachableVerb(s)
      PROVE  TypeOK'
  <2>1. history[s] \subseteq Rooms
    BY DEF TypeOK
  <2>2. CASE HelloVerb(s)
    <3> DEFINE fs == {JoinFile(Lobby, s)} \cup
                     {JoinFile(r, s) : r \in {x \in history[s] \ JoinedRooms(s) :
                                                       rooms[x] # "closed"}}
    <3>1. fs \in SUBSET File
      BY <1>1, <2>1
    <3>2. Enqueue(fs)
      BY <2>2 DEF HelloVerb
    <3> QED
      BY <3>1, <3>2, EnqueueTyped
  <2>3. CASE ReachableVerb(s)
    <3> DEFINE fs == {JoinFile(r, s) : r \in history[s] \ JoinedRooms(s)}
    <3>1. fs \in SUBSET File
      BY <1>1, <2>1
    <3>2. Enqueue(fs)
      BY <2>3 DEF ReachableVerb
    <3> QED
      BY <3>1, <3>2, EnqueueTyped
  <2> QED
    BY <1>5, <2>2, <2>3
<1>6. ASSUME NEW s \in Users, ToggleDnd(s) \/ ProbeLock(s) \/ ProbeUnlock(s)
      PROVE  TypeOK'
  BY <1>6 DEF ToggleDnd, ProbeLock, ProbeUnlock, TypeOK, db, locals, ghosts
<1> QED
  BY <1>2, <1>3, <1>4, <1>5, <1>6 DEF SessionVerbs

-----------------------------------------------------------------------------

\* A reader's end leaves its locals as they were at first.
LEMMA ExitTyped ==
    ASSUME LocalsOK, lock \in [Sessions -> Procs \cup {NoHolder, Prober}],
           NEW p \in Procs, NEW code \in Exits, ExitWith(p, code)
    PROVE  LocalsOK' /\ lock' \in [Sessions -> Procs \cup {NoHolder, Prober}]
<1>1. Lobby \in Rooms /\ Owner[p] \in Sessions /\ <<>> \in Seq(Message)
  BY ConstantsAssumption
<1>2. [r \in Rooms |-> -1] \in [Rooms -> Nat \cup {-1}]
  OBVIOUS
<1>3. last' \in [Procs -> [Rooms -> Nat \cup {-1}]]
  BY <1>2 DEF LocalsOK, ExitWith
<1>4. seen' \in [Procs -> Seq(Message)]
  BY <1>1 DEF LocalsOK, ExitWith
<1>5. lock' \in [Sessions -> Procs \cup {NoHolder, Prober}]
  BY <1>1 DEF ExitWith
<1>6. /\ pc' \in [Procs -> PCs] /\ exit' \in [Procs -> Exits] /\ cur' \in [Procs -> Nat]
      /\ room' \in [Procs -> Rooms] /\ urgentOnly' \in [Procs -> BOOLEAN]
  BY <1>1 DEF LocalsOK, ExitWith, PCs
<1>7. targets' \in [Procs -> SUBSET Rooms] /\ left' \in [Procs -> SUBSET Rooms]
  BY DEF LocalsOK, ExitWith
<1> QED
  BY <1>3, <1>4, <1>5, <1>6, <1>7 DEF LocalsOK

LEMMA FinishTyped ==
    ASSUME LocalsOK, lock \in [Sessions -> Procs \cup {NoHolder, Prober}],
           NEW p \in Procs, FinishRoom(p)
    PROVE  LocalsOK' /\ lock' \in [Sessions -> Procs \cup {NoHolder, Prober}]
<1>1. CASE Kind[p] = "recv"
  <2>1. seen' \in [Procs -> Seq(Message)]
    <3>1. seen \in [Procs -> Seq(Message)] /\ <<>> \in Seq(Message)
      BY DEF LocalsOK
    <3>2. seen' = [seen EXCEPT ![p] = <<>>]
      BY <1>1 DEF FinishRoom
    <3> QED
      BY <3>1, <3>2
  <2>2. pc' = [pc EXCEPT ![p] = "poll"] /\ cur' = [cur EXCEPT ![p] = 0]
    BY <1>1 DEF FinishRoom
  <2>3. pc' \in [Procs -> PCs]
    BY <2>2 DEF LocalsOK, PCs
  <2>4. cur' \in [Procs -> Nat]
    BY <2>2 DEF LocalsOK
  <2> QED
    BY <1>1, <2>1, <2>3, <2>4 DEF FinishRoom, LocalsOK
<1>2. CASE Kind[p] # "recv"
  BY <1>2, ExitTyped DEF FinishRoom, Exits
<1> QED
  BY <1>1, <1>2

LEMMA ReadersTyped == ASSUME TypeOK, NEW p \in Procs, Reader(p) PROVE TypeOK'
<1> StoreOK /\ FilesOK /\ LocalsOK /\ GhostsOK
  BY TypeParts
<1> SUFFICES StoreOK' /\ FilesOK' /\ LocalsOK' /\ GhostsOK'
  BY TypePartsNext
<1> Owner[p] \in Sessions /\ room[p] \in Rooms /\ Lobby \in Rooms
  BY ConstantsAssumption DEF LocalsOK
<1> USE DEF db
<1>1. ASSUME StoreUnchanged, UNCHANGED <<spool, overlay>>, UNCHANGED delivered, LocalsOK',
             lock' \in [Sessions -> Procs \cup {NoHolder, Prober}]
      PROVE  StoreOK' /\ FilesOK' /\ LocalsOK' /\ GhostsOK'
  BY <1>1 DEF StoreUnchanged, StoreOK, FilesOK, GhostsOK
<1>2. ASSUME StoreUnchanged, UNCHANGED <<spool, overlay, lock>>, UNCHANGED delivered, LocalsOK'
      PROVE  StoreOK' /\ FilesOK' /\ LocalsOK' /\ GhostsOK'
  BY <1>1, <1>2 DEF FilesOK
<1>3. CASE Arm(p)
  <2>1. LocalsOK' /\ lock' \in [Sessions -> Procs \cup {NoHolder, Prober}]
    <3>1. lock' \in [Sessions -> Procs \cup {NoHolder, Prober}]
      BY <1>3 DEF Arm, FilesOK
    <3>2. pc' \in [Procs -> PCs] /\ exit' \in [Procs -> Exits]
      BY <1>3 DEF Arm, LocalsOK, PCs, Exits
    <3> QED
      BY <1>3, <3>1, <3>2 DEF Arm, LocalsOK
  <2> QED
    BY <1>1, <1>3, <2>1 DEF Arm
<1>4. CASE StartRecv(p)
  <2>1. JoinedRooms(Owner[p]) \subseteq Rooms
    BY DEF JoinedRooms
  <2>2. LocalsOK'
    BY <1>4, <2>1 DEF StartRecv, LocalsOK, PCs, Exits
  <2> QED
    BY <1>2, <1>4, <2>2 DEF StartRecv
<1>5. CASE StartWindow(p)
  <2>1. JoinedRooms(Owner[p]) \subseteq Rooms
    BY DEF JoinedRooms
  <2>2. LocalsOK'
    BY <1>5, <2>1 DEF StartWindow, LocalsOK, PCs
  <2> QED
    BY <1>2, <1>5, <2>2 DEF StartWindow
<1>6. CASE CheckRoomsClosed(p)
  <2>1. LocalsOK' /\ lock' \in [Sessions -> Procs \cup {NoHolder, Prober}]
    <3>1. CASE \A r \in targets[p] : rooms[r] = "closed"
      <4>1. ExitWith(p, "closed")
        BY <1>6, <3>1 DEF CheckRoomsClosed
      <4> QED
        BY <4>1, ExitTyped DEF Exits, FilesOK
    <3>2. CASE ~ \A r \in targets[p] : rooms[r] = "closed"
      <4>1. [r \in Rooms |-> -1] \in [Rooms -> Nat \cup {-1}]
        OBVIOUS
      <4>2. last' \in [Procs -> [Rooms -> Nat \cup {-1}]]
        BY <1>6, <3>2, <4>1 DEF CheckRoomsClosed, LocalsOK
      <4>3. left' \in [Procs -> SUBSET Rooms] /\ pc' \in [Procs -> PCs]
        BY <1>6, <3>2 DEF CheckRoomsClosed, LocalsOK, PCs
      <4> QED
        BY <1>6, <3>2, <4>2, <4>3 DEF CheckRoomsClosed, LocalsOK, FilesOK
    <3> QED
      BY <3>1, <3>2
  <2> QED
    BY <1>1, <1>6, <2>1 DEF CheckRoomsClosed
<1>7. ASSUME NEW r \in Rooms, PollRoom(p, r)
      PROVE  StoreOK' /\ FilesOK' /\ LocalsOK' /\ GhostsOK'
  <2>1. MaxId(r) \in Nat
    <3>1. transcript[r] \in Seq(Message)
      BY DEF StoreOK
    <3>2. transcript[r] # <<>> => transcript[r][Len(transcript[r])] \in Message
      BY <3>1
    <3> QED
      BY <3>2 DEF MaxId, Message
  <2>2. last[p][r] \in Nat \cup {-1}
    BY DEF LocalsOK
  <2>3. LocalsOK'
    <3>1. CASE Kind[p] # "recv" /\ last[p][r] = MaxId(r)
      BY <1>7, <3>1 DEF PollRoom, LocalsOK
    <3>2. CASE ~(Kind[p] # "recv" /\ last[p][r] = MaxId(r))
      <4> DEFINE n == IF Kind[p] = "recv" THEN last[p][r] ELSE MaxId(r)
      <4>1. n \in Nat \cup {-1}
        BY <2>1, <2>2
      <4>2. last' = [last EXCEPT ![p][r] = n]
        BY <1>7, <3>2 DEF PollRoom, LocalsOK
      <4>3. last' \in [Procs -> [Rooms -> Nat \cup {-1}]]
        BY <4>1, <4>2 DEF LocalsOK
      <4> QED
        BY <1>7, <3>2, <4>3 DEF PollRoom, LocalsOK, PCs
    <3> QED
      BY <3>1, <3>2
  <2> QED
    BY <1>2, <1>7, <2>3 DEF PollRoom
<1>8. CASE ReadMessages(p) \/ ReadCursor(p)
  <2>1. transcript[room[p]] \in Seq(Message) /\ cursors[room[p]][Owner[p]] \in Nat
    BY DEF StoreOK
  <2>2. LocalsOK'
    BY <1>8, <2>1 DEF ReadMessages, ReadCursor, LocalsOK, PCs
  <2> QED
    BY <1>2, <1>8, <2>2 DEF ReadMessages, ReadCursor
<1>9. CASE Decide(p)
  <2>1. LocalsOK'
    <3>1. CASE ReaderWakes(p)
      BY <1>9, <3>1 DEF Decide, LocalsOK, PCs
    <3>2. CASE ~ReaderWakes(p)
      <4>1. <<>> \in Seq(Message)
        OBVIOUS
      <4>2. seen' \in [Procs -> Seq(Message)]
        BY <1>9, <3>2, <4>1 DEF Decide, LocalsOK
      <4>3. pc' = [pc EXCEPT ![p] = "poll"] /\ cur' = [cur EXCEPT ![p] = 0]
        BY <1>9, <3>2 DEF Decide
      <4>4. pc' \in [Procs -> PCs]
        BY <4>3 DEF LocalsOK, PCs
      <4>5. cur' \in [Procs -> Nat]
        BY <4>3 DEF LocalsOK
      <4> QED
        BY <1>9, <4>2, <4>4, <4>5 DEF Decide, LocalsOK
    <3> QED
      BY <3>1, <3>2
  <2>2. delivered' \in [Sessions -> SUBSET Nat]
    <3>1. CASE ReaderWakes(p)
      <4>1. ToPrint(p) \subseteq 1..Len(seen[p])
        BY DEF ToPrint, CapBacklog, Newest, Hits, UnreadFor
      <4>2. \A i \in ToPrint(p) : seen[p][i].id \in Nat
        <5>1. seen[p] \in Seq(Message)
          BY DEF LocalsOK
        <5>2. \A i \in 1..Len(seen[p]) : seen[p][i] \in Message
          BY <5>1
        <5> QED
          BY <4>1, <5>2 DEF Message
      <4> QED
        BY <1>9, <3>1, <4>2 DEF Decide, GhostsOK
    <3>2. CASE ~ReaderWakes(p)
      BY <1>9, <3>2 DEF Decide, GhostsOK
    <3> QED
      BY <3>1, <3>2
  <2> QED
    BY <1>9, <2>1, <2>2 DEF Decide, StoreUnchanged, StoreOK, FilesOK, GhostsOK
<1>10. CASE EmitReceipt(p)
  <2>1. [op |-> "bus_cursor", room |-> room[p], member |-> Owner[p], seq |-> Len(seen[p])] \in File
    BY DEF LocalsOK, File, ReceiptFile
  <2>2. LocalsOK'
    BY <1>10 DEF EmitReceipt, LocalsOK, PCs
  <2> QED
    BY <1>10, <2>1, <2>2 DEF EmitReceipt, StoreUnchanged, StoreOK, FilesOK, GhostsOK
<1>11. CASE MarkRead(p)
  <2>1. LocalsOK' /\ lock' \in [Sessions -> Procs \cup {NoHolder, Prober}]
    <3>1. CASE overlay[room[p]][Owner[p]] < Len(seen[p])
      BY <1>11, <3>1 DEF MarkRead, LocalsOK, FilesOK, PCs
    <3>2. CASE ~(overlay[room[p]][Owner[p]] < Len(seen[p]))
      <4>1. FinishRoom(p)
        BY <1>11, <3>2 DEF MarkRead
      <4> QED
        BY <4>1, FinishTyped DEF FilesOK
    <3> QED
      BY <3>1, <3>2
  <2> QED
    BY <1>1, <1>11, <2>1 DEF MarkRead
<1>12. CASE MarkWrite(p)
  <2>1. LocalsOK' /\ lock' \in [Sessions -> Procs \cup {NoHolder, Prober}]
    BY <1>12, FinishTyped DEF MarkWrite, FilesOK
  <2>2. overlay' \in [Rooms -> [Sessions -> Nat]]
    <3>1. Len(seen[p]) \in Nat
      BY DEF LocalsOK
    <3> QED
      BY <1>12, <3>1 DEF MarkWrite, FilesOK
  <2> QED
    BY <1>12, <2>1, <2>2 DEF MarkWrite, StoreUnchanged, StoreOK, FilesOK, GhostsOK
<1>13. CASE NextPass(p)
  <2>1. LocalsOK'
    BY <1>13 DEF NextPass, LocalsOK
  <2> QED
    BY <1>2, <1>13, <2>1 DEF NextPass
<1>14. CASE WindowExpires(p)
  <2>1. LocalsOK' /\ lock' \in [Sessions -> Procs \cup {NoHolder, Prober}]
    <3>1. CASE Kind[p] = "once"
      BY <1>14, <3>1, ExitTyped DEF WindowExpires, Exits, FilesOK
    <3>2. CASE Kind[p] # "once"
      BY <1>14, <3>2 DEF WindowExpires, LocalsOK, FilesOK, PCs
    <3> QED
      BY <3>1, <3>2
  <2> QED
    BY <1>1, <1>14, <2>1 DEF WindowExpires
<1>15. CASE RecvDone(p)
  <2>1. LocalsOK' /\ lock' \in [Sessions -> Procs \cup {NoHolder, Prober}]
    BY <1>15, ExitTyped DEF RecvDone, Exits, FilesOK
  <2> QED
    BY <1>1, <1>15, <2>1 DEF RecvDone
<1>16. CASE Kill(p)
  <2>1. LocalsOK' /\ lock' \in [Sessions -> Procs \cup {NoHolder, Prober}]
    BY <1>16, ExitTyped DEF Kill, Exits, FilesOK
  <2> QED
    BY <1>16, <2>1 DEF Kill, StoreOK, FilesOK, GhostsOK
<1> QED
  BY <1>3, <1>4, <1>5, <1>6, <1>7, <1>8, <1>9, <1>10, <1>11, <1>12, <1>13, <1>14, <1>15, <1>16
     DEF Reader, ReaderStep

LEMMA TypeInductive == TypeOK /\ [Next]_vars => TypeOK'
<1>1. CASE UNCHANGED vars
  BY <1>1 DEF vars, db, files, locals, ghosts, TypeOK
<1> QED
  BY <1>1, DaemonTyped, VerbsTyped, ReadersTyped DEF Next

\* Rows, spool files, overlay files and the locals of readers keep their types
\* through every operation, interruption and restart.
THEOREM TypeCorrect == Spec => []TypeOK
  BY InitTyped, TypeInductive, PTL DEF Spec
=============================================================================
