---------------------------- MODULE BusDelivery ----------------------------
(***************************************************************************)
(* Delivery on the session bus: from a message being posted to a session   *)
(* having it printed by one of its readers.                                *)
(*                                                                         *)
(* Three kinds of actors share state and nothing synchronises them:        *)
(*   - the daemon, the only writer of paos.db: it serves the socket and    *)
(*     drains the spool, one file at a time, in directory order;           *)
(*   - readers, short processes of a session: the listener it keeps armed  *)
(*     (`bus wait-joined`, one window: `bus listen-joined`) and `bus recv`.*)
(*     They read the database, then print, then report how far they got    *)
(*     twice: a spooled receipt, and a cursor file of their own that is    *)
(*     read together with the database (the overlay);                      *)
(*   - sessions running verbs (join, leave, send, close, ...), which only  *)
(*     ever queue a file.                                                  *)
(***************************************************************************)
EXTENDS BusAddressing, Integers

CONSTANTS
    Rooms, Lobby,
    Procs,             \* the reader processes of the instance
    Owner, Kind,       \* whose reader it is; "wait", "once" or "recv"
    NoHolder, Prober,  \* an unheld listen lock; a lock held by a probe
    NoFile,
    Drafts,            \* the messages the instance may send
    BacklogMax,        \* BACKLOG_MAX_DELIVER
    BroadcastWakes,    \* the daemon's broadcast_wakes setting
    Joined0,           \* who has joined what when the run starts
    Verbs,             \* the verbs and failures the instance exercises
    Users,             \* the sessions that run them
    MaxMsgs, MaxFiles, MaxKills, MaxCrashes   \* bounds of the instance

Draft == [room : Rooms, sender : Senders, target : Targets,
          urgent : BOOLEAN, ambient : BOOLEAN]

ASSUME ConstantsAssumption ==
    /\ Lobby \in Rooms
    /\ Owner \in [Procs -> Sessions]
    /\ Kind \in [Procs -> {"wait", "once", "recv"}]
    /\ NoHolder \notin Procs /\ Prober \notin Procs /\ NoHolder # Prober
    /\ Drafts \subseteq Draft
    /\ BacklogMax \in Nat
    /\ BroadcastWakes \in BOOLEAN
    /\ Joined0 \in [Rooms -> SUBSET Sessions]
    /\ Users \subseteq Sessions
    /\ MaxMsgs \in Nat /\ MaxFiles \in Nat /\ MaxKills \in Nat /\ MaxCrashes \in Nat

\* Files of the spool directory.  A verb's file carries the number of the call
\* that wrote it, so that two calls are two files; receipts need none: two
\* equal receipts cannot be told apart by a MAX.
RoomFile    == [op : {"bus_join", "bus_leave"}, n : Nat, room : Rooms, name : Sessions]
WipeFile    == [op : {"bus_close", "bus_delete_room"}, n : Nat, room : Rooms]
SendFile    == [op : {"bus_send"}, n : Nat, draft : Draft]
ReceiptFile == [op : {"bus_cursor"}, room : Rooms, member : Sessions, seq : Nat]
File        == RoomFile \cup WipeFile \cup SendFile \cup ReceiptFile

ASSUME NoFileAssumption == NoFile \notin File

VARIABLES
    \* paos.db
    rooms,       \* "absent", "open" or "closed"
    transcript,  \* the messages of a room; a message's position is its seq
    nextId,      \* the next messages.id (AUTOINCREMENT)
    members,
    history,     \* room_history: the rooms a handle joined and did not leave
    cursors,
    live,        \* sessions whose row has no ended_ts
    \* files
    spool, inHand,  \* spooled files; the one the drain applied but did not remove
    overlay,     \* cursors/<room>/<member>, written by readers
    dnd,         \* handles with a dnd marker
    lock,        \* holder of listen/<handle>.lock
    \* locals of the readers
    pc, targets, left, room, last, seen, cur, urgentOnly, exit,
    \* history of the run
    delivered,   \* ids a session has had printed
    reused,      \* rooms deleted at least once: their names are free again
    nfiles, kills, crashes

db     == <<rooms, transcript, nextId, members, history, cursors, live>>
files  == <<spool, inHand, overlay, dnd, lock>>
locals == <<pc, targets, left, room, last, seen, cur, urgentOnly, exit>>
ghosts == <<delivered, reused, nfiles, kills, crashes>>
vars   == <<db, files, locals, ghosts>>

PCs   == {"off", "window", "closedcheck", "poll", "read", "cursor", "decide",
          "emit", "mark", "write"}
Exits == {"none", "delivered", "rearm", "already", "closed", "killed", "read"}

TypeOK ==
    /\ rooms \in [Rooms -> {"absent", "open", "closed"}]
    /\ transcript \in [Rooms -> Seq(Message)]
    /\ nextId \in Nat
    /\ members \in [Rooms -> SUBSET Sessions]
    /\ history \in [Sessions -> SUBSET Rooms]
    /\ cursors \in [Rooms -> [Sessions -> Nat]]
    /\ live \subseteq Sessions
    /\ spool \subseteq File
    /\ inHand \in File \cup {NoFile}
    /\ overlay \in [Rooms -> [Sessions -> Nat]]
    /\ dnd \subseteq Sessions
    /\ lock \in [Sessions -> Procs \cup {NoHolder, Prober}]
    /\ pc \in [Procs -> PCs]
    /\ targets \in [Procs -> SUBSET Rooms]
    /\ left \in [Procs -> SUBSET Rooms]
    /\ room \in [Procs -> Rooms]
    /\ last \in [Procs -> [Rooms -> Nat \cup {-1}]]
    /\ seen \in [Procs -> Seq(Message)]
    /\ cur \in [Procs -> Nat]
    /\ urgentOnly \in [Procs -> BOOLEAN]
    /\ exit \in [Procs -> Exits]
    /\ delivered \in [Sessions -> SUBSET Nat]
    /\ reused \subseteq Rooms
    /\ nfiles \in Nat /\ kills \in Nat /\ crashes \in Nat

\* A store in which every session is live and has joined Joined0's rooms.
Init ==
    /\ rooms = [r \in Rooms |-> IF Joined0[r] = {} THEN "absent" ELSE "open"]
    /\ transcript = [r \in Rooms |-> <<>>]
    /\ nextId = 1
    /\ members = Joined0
    /\ history = [s \in Sessions |-> {r \in Rooms : s \in Joined0[r]}]
    /\ cursors = [r \in Rooms |-> [s \in Sessions |-> 0]]
    /\ live = Sessions
    /\ spool = {} /\ inHand = NoFile
    /\ overlay = [r \in Rooms |-> [s \in Sessions |-> 0]]
    /\ dnd = {}
    /\ lock = [s \in Sessions |-> NoHolder]
    /\ pc = [p \in Procs |-> "off"]
    /\ targets = [p \in Procs |-> {}]
    /\ left = [p \in Procs |-> {}]
    /\ room = [p \in Procs |-> Lobby]
    /\ last = [p \in Procs |-> [r \in Rooms |-> -1]]
    /\ seen = [p \in Procs |-> <<>>]
    /\ cur = [p \in Procs |-> 0]
    /\ urgentOnly = [p \in Procs |-> FALSE]
    /\ exit = [p \in Procs |-> "none"]
    /\ delivered = [s \in Sessions |-> {}]
    /\ reused = {}
    /\ nfiles = 0 /\ kills = 0 /\ crashes = 0

-----------------------------------------------------------------------------
(* What the daemon does to the database, by whichever path it was asked.    *)

JoinedRooms(s) == {Lobby} \cup {r \in Rooms : s \in members[r]}

\* INSERT OR IGNORE INTO rooms: a closed room stays closed.
EnsureRoom(r) == rooms' = [rooms EXCEPT ![r] = IF @ = "absent" THEN "open" ELSE @]

Join(r, s) ==
    /\ EnsureRoom(r)
    /\ members' = [members EXCEPT ![r] = @ \cup {s}]
    /\ history' = [history EXCEPT ![s] = @ \cup {r}]
    /\ UNCHANGED <<transcript, nextId, cursors, live, reused>>

Leave(r, s) ==
    /\ members' = [members EXCEPT ![r] = @ \ {s}]
    /\ history' = [history EXCEPT ![s] = @ \ {r}]
    /\ UNCHANGED <<rooms, transcript, nextId, cursors, live, reused>>

\* Posting joins a live sender, without a room_history row.
Post(d) ==
    /\ EnsureRoom(d.room)
    /\ members' = [members EXCEPT ![d.room] = @ \cup ({d.sender} \cap live)]
    /\ transcript' = [transcript EXCEPT ![d.room] =
           Append(@, [id |-> nextId, sender |-> d.sender, target |-> d.target,
                      urgent |-> d.urgent, ambient |-> d.ambient])]
    /\ nextId' = nextId + 1
    /\ UNCHANGED <<history, cursors, live, reused>>

\* The receipt is a MAX: directory order is not send order.
AdvanceCursor(r, s, seq) ==
    /\ cursors' = [cursors EXCEPT ![r][s] = IF seq > @ THEN seq ELSE @]
    /\ UNCHANGED <<rooms, transcript, nextId, members, history, live, reused>>

Close(r) ==
    /\ rooms' = [rooms EXCEPT ![r] = IF @ = "absent" THEN @ ELSE "closed"]
    /\ members' = [members EXCEPT ![r] = {}]
    /\ UNCHANGED <<transcript, nextId, history, cursors, live, reused>>

\* delete-room, and the purge of a long-closed room: every row of it goes.
DeleteRoom(r) ==
    /\ rooms' = [rooms EXCEPT ![r] = "absent"]
    /\ transcript' = [transcript EXCEPT ![r] = <<>>]
    /\ members' = [members EXCEPT ![r] = {}]
    /\ cursors' = [cursors EXCEPT ![r] = [s \in Sessions |-> 0]]
    /\ reused' = reused \cup {r}
    /\ UNCHANGED <<nextId, history, live>>

ApplyBusOp(f) ==
    \/ f.op = "bus_join" /\ Join(f.room, f.name)
    \/ f.op = "bus_leave" /\ Leave(f.room, f.name)
    \/ f.op = "bus_send" /\ Post(f.draft)
    \/ f.op = "bus_cursor" /\ AdvanceCursor(f.room, f.member, f.seq)
    \/ f.op = "bus_close" /\ Close(f.room)
    \/ f.op = "bus_delete_room" /\ DeleteRoom(f.room)

-----------------------------------------------------------------------------
(* The daemon.                                                              *)

\* One entry of the directory, whichever read_dir yields next.
DrainApply(f) ==
    /\ inHand = NoFile
    /\ ApplyBusOp(f)
    /\ inHand' = f
    /\ UNCHANGED <<spool, overlay, dnd, lock, locals, delivered, nfiles, kills, crashes>>

\* The file goes only after its operation took.
DrainRemove ==
    /\ inHand # NoFile
    /\ spool' = spool \ {inHand}
    /\ inHand' = NoFile
    /\ UNCHANGED <<db, overlay, dnd, lock, locals, ghosts>>

\* Killed between the two: the file is still there and is applied again.
DaemonRestart ==
    /\ inHand # NoFile
    /\ crashes < MaxCrashes
    /\ crashes' = crashes + 1
    /\ inHand' = NoFile
    /\ UNCHANGED <<db, spool, overlay, dnd, lock, locals, delivered, reused, nfiles, kills>>

\* Messages that reach the daemon directly: the socket, and the operator's
\* channels, whose process is the daemon's own.
SendDirect(d) ==
    /\ d.sender = Operator \/ "socket" \in Verbs
    /\ nextId <= MaxMsgs
    /\ Post(d)
    /\ UNCHANGED <<files, locals, delivered, nfiles, kills, crashes>>

\* The daemon's `reachable`: rejoin what was dropped, never a closed room.
ReachableDirect(s) ==
    LET missing == {r \in history[s] \ JoinedRooms(s) : rooms[r] # "closed"}
    IN  /\ "socket" \in Verbs
        /\ missing # {}
        /\ rooms' = [r \in Rooms |-> IF r \in missing THEN "open" ELSE rooms[r]]
        /\ members' = [r \in Rooms |-> IF r \in missing THEN members[r] \cup {s}
                                       ELSE members[r]]
        /\ UNCHANGED <<transcript, nextId, history, cursors, live>>
        /\ UNCHANGED <<files, locals, ghosts>>

\* session-end and session-start, over the socket from the harness's hooks.
SessionEnd(s) ==
    /\ "session" \in Verbs
    /\ s \in live
    /\ live' = live \ {s}
    /\ members' = [r \in Rooms |-> members[r] \ {s}]
    /\ UNCHANGED <<rooms, transcript, nextId, history, cursors>>
    /\ UNCHANGED <<files, locals, ghosts>>

SessionStart(s) ==
    /\ "session" \in Verbs
    /\ s \notin live
    /\ live' = live \cup {s}
    /\ UNCHANGED <<rooms, transcript, nextId, members, history, cursors>>
    /\ UNCHANGED <<files, locals, ghosts>>

\* The room sweep: idle rooms close and lose their cursors, rooms closed for
\* long are purged; the lobby is exempt.
GcClose(r) ==
    /\ "gc" \in Verbs
    /\ r # Lobby /\ rooms[r] = "open"
    /\ rooms' = [rooms EXCEPT ![r] = "closed"]
    /\ members' = [members EXCEPT ![r] = {}]
    /\ cursors' = [cursors EXCEPT ![r] = [s \in Sessions |-> 0]]
    /\ UNCHANGED <<transcript, nextId, history, live>>
    /\ UNCHANGED <<files, locals, ghosts>>

GcPurge(r) ==
    /\ "gc" \in Verbs
    /\ r # Lobby /\ rooms[r] = "closed"
    /\ DeleteRoom(r)
    /\ UNCHANGED <<files, locals, delivered, nfiles, kills, crashes>>

-----------------------------------------------------------------------------
(* Verbs of a session.  Each queues files and returns.                      *)

Enqueue(fs) ==
    /\ nfiles < MaxFiles
    /\ nfiles' = nfiles + 1
    /\ spool' = spool \cup fs
    /\ UNCHANGED <<db, inHand, overlay, dnd, lock, locals, delivered, reused, kills, crashes>>

JoinFile(r, s) == [op |-> "bus_join", n |-> nfiles, room |-> r, name |-> s]

JoinVerb(r, s) == "join" \in Verbs /\ s \in live /\ Enqueue({JoinFile(r, s)})

\* Mutant: an op name the drain has no arm for.
LeaveVerbMisnamed(r, s) ==
    /\ "leave" \in Verbs /\ s \in live
    /\ Enqueue({[op |-> "room_leave", n |-> nfiles, room |-> r, name |-> s]})

LeaveVerb(r, s) ==
    /\ "leave" \in Verbs /\ s \in live
    /\ Enqueue({[op |-> "bus_leave", n |-> nfiles, room |-> r, name |-> s]})

SendVerb(d) ==
    /\ "send" \in Verbs /\ d.sender \in live
    /\ Enqueue({[op |-> "bus_send", n |-> nfiles, draft |-> d]})

\* Only a member closes a room (--force is the dashboard's).
CloseVerb(r, s) ==
    /\ "close" \in Verbs /\ s \in live
    /\ rooms[r] # "closed" /\ s \in members[r]
    /\ Enqueue({[op |-> "bus_close", n |-> nfiles, room |-> r]})

DeleteRoomVerb(r) ==
    /\ "delete" \in Verbs
    /\ rooms[r] # "absent" \/ transcript[r] # <<>> \/ members[r] # {}
    /\ Enqueue({[op |-> "bus_delete_room", n |-> nfiles, room |-> r]})

\* `hello`: the lobby, and prior rooms that are neither joined nor closed.
HelloVerb(s) ==
    /\ "hello" \in Verbs /\ s \in live
    /\ Enqueue({JoinFile(Lobby, s)} \cup
               {JoinFile(r, s) : r \in {x \in history[s] \ JoinedRooms(s) :
                                                       rooms[x] # "closed"}})

\* `reachable` from a sandbox: every prior room that is not joined.
ReachableVerb(s) ==
    LET missing == history[s] \ JoinedRooms(s)
    IN  /\ "reachable" \in Verbs /\ s \in live
        /\ missing # {}
        /\ Enqueue({JoinFile(r, s) : r \in missing})

ToggleDnd(s) ==
    /\ "dnd" \in Verbs /\ s \in live
    /\ dnd' = IF s \in dnd THEN dnd \ {s} ELSE dnd \cup {s}
    /\ UNCHANGED <<db, spool, inHand, overlay, lock, locals, ghosts>>

\* `is_listening` of a bystander: it takes the lock to see whether it can.
ProbeLock(s) ==
    /\ "probe" \in Verbs
    /\ lock[s] = NoHolder
    /\ lock' = [lock EXCEPT ![s] = Prober]
    /\ UNCHANGED <<db, spool, inHand, overlay, dnd, locals, ghosts>>

ProbeUnlock(s) ==
    /\ lock[s] = Prober
    /\ lock' = [lock EXCEPT ![s] = NoHolder]
    /\ UNCHANGED <<db, spool, inHand, overlay, dnd, locals, ghosts>>

-----------------------------------------------------------------------------
(* Readers.  Every step is one read or one write of shared state.           *)

StoreUnchanged == UNCHANGED <<db, inHand, dnd, nfiles, kills, crashes, reused>>

\* The process ends with an exit code: its locals go, and its lock with it.
ExitWith(p, code) ==
    /\ pc' = [pc EXCEPT ![p] = "off"]
    /\ exit' = [exit EXCEPT ![p] = code]
    /\ lock' = [lock EXCEPT ![Owner[p]] = IF @ = p THEN NoHolder ELSE @]
    /\ targets' = [targets EXCEPT ![p] = {}]
    /\ left' = [left EXCEPT ![p] = {}]
    /\ room' = [room EXCEPT ![p] = Lobby]
    /\ last' = [last EXCEPT ![p] = [r \in Rooms |-> -1]]
    /\ seen' = [seen EXCEPT ![p] = <<>>]
    /\ cur' = [cur EXCEPT ![p] = 0]
    /\ urgentOnly' = [urgentOnly EXCEPT ![p] = FALSE]

\* acquire_lock, at the start of a listener.
Arm(p) ==
    /\ Kind[p] # "recv" /\ pc[p] = "off" /\ Owner[p] \in live
    /\ IF lock[Owner[p]] = NoHolder
       THEN /\ lock' = [lock EXCEPT ![Owner[p]] = p]
            /\ pc' = [pc EXCEPT ![p] = "window"]
            /\ exit' = [exit EXCEPT ![p] = "none"]
       ELSE /\ exit' = [exit EXCEPT ![p] = "already"]
            /\ UNCHANGED <<lock, pc>>
    /\ UNCHANGED <<targets, left, room, last, seen, cur, urgentOnly, delivered, spool, overlay>>
    /\ StoreUnchanged

\* DND and the joined rooms are looked up once per window.
StartWindow(p) ==
    /\ pc[p] = "window"
    /\ urgentOnly' = [urgentOnly EXCEPT ![p] = Owner[p] \in dnd]
    /\ targets' = [targets EXCEPT ![p] = JoinedRooms(Owner[p])]
    /\ pc' = [pc EXCEPT ![p] = "closedcheck"]
    /\ UNCHANGED <<left, room, last, seen, cur, exit, delivered, spool, overlay, lock>>
    /\ StoreUnchanged

CheckRoomsClosed(p) ==
    /\ pc[p] = "closedcheck"
    /\ IF \A r \in targets[p] : rooms[r] = "closed"
       THEN ExitWith(p, "closed")
       ELSE /\ left' = [left EXCEPT ![p] = targets[p]]
            /\ last' = [last EXCEPT ![p] = [r \in Rooms |-> -1]]
            /\ pc' = [pc EXCEPT ![p] = "poll"]
            /\ UNCHANGED <<targets, room, seen, cur, urgentOnly, exit, lock>>
    /\ UNCHANGED <<delivered, spool, overlay>>
    /\ StoreUnchanged

\* `recv` holds no lock and looks past DND.
StartRecv(p) ==
    /\ Kind[p] = "recv" /\ pc[p] = "off" /\ Owner[p] \in live
    /\ "recv" \in Verbs
    /\ left' = [left EXCEPT ![p] = JoinedRooms(Owner[p])]
    /\ pc' = [pc EXCEPT ![p] = "poll"]
    /\ exit' = [exit EXCEPT ![p] = "none"]
    /\ UNCHANGED <<targets, room, last, seen, cur, urgentOnly, delivered, spool, overlay, lock>>
    /\ StoreUnchanged

\* The lobby heads the list of joined rooms.
NextRoom(p, r) == r \in left[p] /\ (Lobby \in left[p] => r = Lobby)

MaxId(r) == IF transcript[r] = <<>> THEN 0 ELSE transcript[r][Len(transcript[r])].id

\* A listener looks at a room only when its newest id moved since the window
\* began; `recv` always looks.
PollRoom(p, r) ==
    /\ pc[p] = "poll" /\ NextRoom(p, r)
    /\ left' = [left EXCEPT ![p] = @ \ {r}]
    /\ IF Kind[p] # "recv" /\ last[p][r] = MaxId(r)
       THEN UNCHANGED <<last, room, pc>>
       ELSE /\ last' = [last EXCEPT ![p][r] = IF Kind[p] = "recv" THEN @ ELSE MaxId(r)]
            /\ room' = [room EXCEPT ![p] = r]
            /\ pc' = [pc EXCEPT ![p] = "read"]
    /\ UNCHANGED <<targets, seen, cur, urgentOnly, exit, delivered, spool, overlay, lock>>
    /\ StoreUnchanged

ReadMessages(p) ==
    /\ pc[p] = "read"
    /\ IF Kind[p] = "recv" /\ transcript[room[p]] = <<>>
       THEN pc' = [pc EXCEPT ![p] = "poll"] /\ UNCHANGED seen
       ELSE /\ seen' = [seen EXCEPT ![p] = transcript[room[p]]]
            /\ pc' = [pc EXCEPT ![p] = "cursor"]
    /\ UNCHANGED <<targets, left, room, last, cur, urgentOnly, exit, delivered, spool, overlay, lock>>
    /\ StoreUnchanged

ReadCursor(p) ==
    /\ pc[p] = "cursor"
    /\ cur' = [cur EXCEPT ![p] = cursors[room[p]][Owner[p]]]
    /\ pc' = [pc EXCEPT ![p] = "decide"]
    /\ UNCHANGED <<targets, left, room, last, seen, urgentOnly, exit, delivered, spool, overlay, lock>>
    /\ StoreUnchanged

\* Mutant: a listener that trusts the database alone.
EffectiveCursorNoOverlay(p) == cur[p]

\* effective_cursor: the database's, or the overlay's if it is further on.
EffectiveCursor(p) ==
    LET o == overlay[room[p]][Owner[p]] IN IF o > cur[p] THEN o ELSE cur[p]

Hits(p) == UnreadFor(seen[p], EffectiveCursor(p), Owner[p], urgentOnly[p])

\* Mutant: what does not wake is not printed, and counted as read all the same.
WakingOnly(p) == {i \in Hits(p) : WakesListener(seen[p][i], Owner[p], BroadcastWakes)}

ToPrint(p) == CapBacklog(seen[p], Hits(p), BacklogMax)

ReaderWakes(p) ==
    \/ Kind[p] = "recv"
    \/ Hits(p) # {} /\ AnyWakes(seen[p], Hits(p), Owner[p], BroadcastWakes)

\* The overlay is the last thing read before the decision; printing is all
\* that happens between the decision and the receipt.
Decide(p) ==
    /\ pc[p] = "decide"
    /\ IF ReaderWakes(p)
       THEN /\ delivered' = [delivered EXCEPT ![Owner[p]] =
                                @ \cup {seen[p][i].id : i \in ToPrint(p)}]
            /\ pc' = [pc EXCEPT ![p] = "emit"]
            /\ UNCHANGED <<seen, cur>>
       ELSE /\ pc' = [pc EXCEPT ![p] = "poll"]
            /\ seen' = [seen EXCEPT ![p] = <<>>]
            /\ cur' = [cur EXCEPT ![p] = 0]
            /\ UNCHANGED delivered
    /\ UNCHANGED <<targets, left, room, last, urgentOnly, exit, spool, overlay, lock>>
    /\ StoreUnchanged

\* The receipt names the newest message READ, not the newest one printed.
EmitReceipt(p) ==
    /\ pc[p] = "emit"
    /\ spool' = spool \cup {[op |-> "bus_cursor", room |-> room[p],
                             member |-> Owner[p], seq |-> Len(seen[p])]}
    /\ pc' = [pc EXCEPT ![p] = "mark"]
    /\ UNCHANGED <<targets, left, room, last, seen, cur, urgentOnly, exit, delivered, overlay, lock>>
    /\ StoreUnchanged

\* A listener exits after the room that woke it; `recv` goes on.
FinishRoom(p) ==
    IF Kind[p] = "recv"
    THEN /\ pc' = [pc EXCEPT ![p] = "poll"]
         /\ seen' = [seen EXCEPT ![p] = <<>>]
         /\ cur' = [cur EXCEPT ![p] = 0]
         /\ UNCHANGED <<targets, left, room, last, urgentOnly, exit, lock>>
    ELSE ExitWith(p, "delivered")

\* record_pending_cursor reads the overlay ...
MarkRead(p) ==
    /\ pc[p] = "mark"
    /\ IF overlay[room[p]][Owner[p]] < Len(seen[p])
       THEN /\ pc' = [pc EXCEPT ![p] = "write"]
            /\ UNCHANGED <<targets, left, room, last, seen, cur, urgentOnly, exit, lock>>
       ELSE FinishRoom(p)
    /\ UNCHANGED <<delivered, spool, overlay>>
    /\ StoreUnchanged

\* ... and writes it, in two steps.
MarkWrite(p) ==
    /\ pc[p] = "write"
    /\ overlay' = [overlay EXCEPT ![room[p]][Owner[p]] = Len(seen[p])]
    /\ FinishRoom(p)
    /\ UNCHANGED <<delivered, spool>>
    /\ StoreUnchanged

\* The deadline has not passed: sleep, then look at every room again.
NextPass(p) ==
    /\ pc[p] = "poll" /\ left[p] = {} /\ Kind[p] # "recv"
    /\ left' = [left EXCEPT ![p] = targets[p]]
    /\ UNCHANGED <<pc, targets, room, last, seen, cur, urgentOnly, exit, delivered, spool, overlay, lock>>
    /\ StoreUnchanged

\* It has: the always-on loop starts another window, a single window exits 75.
WindowExpires(p) ==
    /\ pc[p] = "poll" /\ left[p] = {} /\ Kind[p] # "recv"
    /\ IF Kind[p] = "once"
       THEN ExitWith(p, "rearm")
       ELSE /\ pc' = [pc EXCEPT ![p] = "window"]
            /\ UNCHANGED <<targets, left, room, last, seen, cur, urgentOnly, exit, lock>>
    /\ UNCHANGED <<delivered, spool, overlay>>
    /\ StoreUnchanged

RecvDone(p) ==
    /\ pc[p] = "poll" /\ left[p] = {} /\ Kind[p] = "recv"
    /\ ExitWith(p, "read")
    /\ UNCHANGED <<delivered, spool, overlay>>
    /\ StoreUnchanged

\* A signal, an orphaning or a dying harness ends a reader anywhere; the
\* kernel drops its lock.
Kill(p) ==
    /\ pc[p] # "off" /\ kills < MaxKills
    /\ kills' = kills + 1
    /\ ExitWith(p, "killed")
    /\ UNCHANGED <<db, spool, inHand, overlay, dnd, delivered, reused, nfiles, crashes>>

-----------------------------------------------------------------------------
Daemon ==
    \/ \E f \in spool : DrainApply(f)
    \/ DrainRemove
    \/ DaemonRestart
    \/ \E d \in Drafts : SendDirect(d)
    \/ \E s \in Users : ReachableDirect(s) \/ SessionEnd(s) \/ SessionStart(s)
    \/ \E r \in Rooms : GcClose(r) \/ GcPurge(r)

SessionVerbs ==
    \/ \E r \in Rooms, s \in Users : JoinVerb(r, s) \/ LeaveVerb(r, s) \/ CloseVerb(r, s)
    \/ \E d \in Drafts : SendVerb(d)
    \/ \E r \in Rooms : DeleteRoomVerb(r)
    \/ \E s \in Users : HelloVerb(s) \/ ReachableVerb(s) \/ ToggleDnd(s)
                           \/ ProbeLock(s) \/ ProbeUnlock(s)

ReaderStep(p) ==
    \/ StartWindow(p) \/ CheckRoomsClosed(p)
    \/ (\E r \in Rooms : PollRoom(p, r))
    \/ ReadMessages(p) \/ ReadCursor(p) \/ Decide(p)
    \/ EmitReceipt(p) \/ MarkRead(p) \/ MarkWrite(p)
    \/ NextPass(p) \/ RecvDone(p)

Reader(p) == Arm(p) \/ StartRecv(p) \/ ReaderStep(p) \/ WindowExpires(p) \/ Kill(p)

Next == Daemon \/ SessionVerbs \/ \E p \in Procs : Reader(p)

Spec == Init /\ [][Next]_vars

\* A reader that runs keeps running and its deadline passes; sessions re-arm
\* at the end of a turn; the daemon drains every few seconds.
Fairness ==
    /\ \A p \in Procs : WF_vars(ReaderStep(p)) /\ SF_vars(WindowExpires(p)) /\ WF_vars(Arm(p))
    /\ WF_vars(\E f \in spool : DrainApply(f)) /\ WF_vars(DrainRemove)

FairSpec == Spec /\ Fairness

-----------------------------------------------------------------------------
(* Properties.                                                              *)

\* What a promise is about: "must", what DND and the cap let through; "all".
Counts(m, what) == what = "all" \/ Must(m)

\* Every such message of log up to position n that is for s is in got.
CoveredIn(log, got, s, n, what) ==
    /\ n <= Len(log)
    /\ \A i \in 1..n : IsFor(log[i], s) /\ Counts(log[i], what) => log[i].id \in got

Covered(r, s, n, what) == CoveredIn(transcript[r], delivered[s], s, n, what)

NoneBehind(what) ==
    \A r \in Rooms \ reused, s \in Sessions :
        Covered(r, s, cursors[r][s], what) /\ Covered(r, s, overlay[r][s], what)

\* Nothing urgent and nothing the operator typed is ever behind a session's
\* cursor unprinted: DND, the wake filter, the backlog cap, a killed reader, a
\* second reader, a lost or replayed receipt may delay it, never lose it.  (For
\* a room whose name was freed and taken again see StaleOverlayHidesNothing.)
MustDelivered == NoneBehind("must")

\* Without DND, and with a backlog within the cap, the same holds of every
\* message addressed to the session: what does not wake it rides along.
NothingSkipped == NoneBehind("all")

\* Why it holds: nothing that can become a cursor names more than was printed.
\* A receipt in the spool does not ...
ReceiptsCovered(what) ==
    \A f \in spool : f.op = "bus_cursor" /\ f.room \notin reused
                      => Covered(f.room, f.member, f.seq, what)

StartsWith(log, front) == /\ Len(front) <= Len(log)
                          /\ \A i \in 1..Len(front) : front[i] = log[i]

\* ... and a reader holds the beginning of a transcript, a cursor that does not,
\* and a receipt still to be written that does not.
ReaderCovered(p, what) ==
    pc[p] \in {"cursor", "decide", "emit", "mark", "write"} /\ room[p] \notin reused =>
        /\ StartsWith(transcript[room[p]], seen[p])
        /\ pc[p] = "decide" => Covered(room[p], Owner[p], cur[p], what)
        /\ pc[p] \in {"emit", "mark", "write"} => Covered(room[p], Owner[p], Len(seen[p]), what)

HonestReceipts(what) ==
    /\ TypeOK /\ NoneBehind(what) /\ ReceiptsCovered(what)
    /\ \A p \in Procs : ReaderCovered(p, what)

DeliveryInv == HonestReceipts("must")

\* A listener never spends a turn on a message the session already had: the
\* lock, the receipt and the overlay together, whatever the daemon's delay.
NoSecondWake ==
    [][\A p \in Procs :
          pc[p] = "decide" /\ pc'[p] = "emit" /\ Kind[p] # "recv"
          => \A i \in ToPrint(p) : seen[p][i].id \notin delivered[Owner[p]]]_vars

\* An urgent message, or one the operator types, in a room the session stays
\* in is eventually printed by its listener.
WakesReach ==
    \A r \in Rooms, s \in {Owner[p] : p \in {q \in Procs : Kind[q] = "wait"}},
       id \in 1..(MaxMsgs + MaxFiles + MaxCrashes) :
        (\E i \in 1..Len(transcript[r]) :
            LET m == transcript[r][i]
            IN  m.id = id /\ IsFor(m, s) /\ WakesListener(m, s, BroadcastWakes) /\ Must(m))
        ~> \/ id \in delivered[s]
           \/ r \notin JoinedRooms(s) \/ s \notin live
-----------------------------------------------------------------------------
(* What the code's comments promise and the code does not keep.             *)

\* readonly.rs, of the overlay file: "A stale one cannot hide a newer message."
\* Deleting or purging a room restarts its seq at 1 and leaves the file.
StaleOverlayHidesNothing ==
    \A r \in Rooms, s \in Sessions : \A i \in 1..Len(transcript[r]) :
        i <= overlay[r][s] /\ IsFor(transcript[r][i], s) /\ Must(transcript[r][i])
        => transcript[r][i].id \in delivered[s]
=============================================================================
