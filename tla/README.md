# A verification project for PAOS

PAOS is a daemon (`paosd`) and a command line (`paos`) that let a fleet of
coding sessions and one human operator share rooms, messages, a task board,
memory and a Telegram channel.  This directory holds TLA+ models of the parts of
it that have state, the TLC configurations that check them on small instances,
and TLAPS proofs of the properties that matter most for every value of the
constants.

Paths below are relative to `src/paos/crates/` of the repository.
`PROJECT.json` is the machine-readable companion: every definition with the
lines it stands for, every run, every mutant, hazard, finding and theorem.

    tlc -workers 2 -config delivery_core.cfg MCDelivery     # one run
    tlapm TaskProofs.tla                                    # one proof module

## 1. Inventory of the system

**Processes.**  `paosd` is the only writer of `paos.db`.  Its socket handlers,
its spool drain, the web dashboard, the account poller, the nightly scheduler
and the two loops of the Telegram bridge are threads of one process that share
one `Mutex<Connection>` (`paosd/src/main.rs:131-140`): an operation of theirs is
one step of a model unless it gives the lock up or talks to the outside in the
middle.  Sessions run short-lived `paos` commands.  A sandboxed session cannot
reach the socket: it opens the database read-only and writes each operation as a
file into the spool directory, which the daemon drains every five seconds.

| component | state | operations | talks to |
|---|---|---|---|
| addressing and wake policy (`paos-bus/src/lib.rs`, `wait.rs`) | none | `addressed_to`, `wakes_listener`, `unread_for`, `cap_backlog` | used by every reader |
| rooms and messages (`paos-bus`, `paos-presence`) | `rooms`, `members`, `room_history`, `messages`, `cursors` | post, join, leave, close, delete, sweep, hello, reachable | socket, spool, operator |
| readers (`paos-cli/src/listen.rs`, `bus.rs`) | lock file, cursor overlay files, DND marker, their own locals | `wait-joined`, `listen-joined`, `recv`, `is_listening` | read the database, write receipts to the spool |
| spool (`paos-cli/src/main.rs:618`, `paosd/src/dream.rs:452`) | a directory of `.json` and `.bad` files | create, write; walk, apply, remove, quarantine | every sandboxed verb |
| task board (`paos-tasks`) | `tasks`, `task_deps`, `task_log` | create, claim, release, set_state, grant, dep_add, dep_rm, orphan | socket, spool, dashboard, Telegram, session end |
| task commands (`paos-cli/src/task.rs`) | what a session was told | `claim_and_confirm`, release, state verbs with pre-checks | board, spool |
| presence (`paos-presence`, `paos-cli/src/hook.rs`) | `sessions`: handles, session ids, pids, last seen | start, heartbeat, end, touch, reap, prune, forget | socket, spool, rooms, board |
| supervision (`paos-presence`, `paosd/src/bridge.rs:1697`) | stale and deaf marks, a set of alert keys in memory | mark, journal, announce exhaustion, wake, page | presence, accounts, Telegram |
| operator channel (`paos-operator/src/lib.rs`, `paos-cli/src/operator.rs`) | mode, escalations, outbox, operator messages | ask, answer, resolve, sweep on leaving, say, send, listen | bus, bridge |
| Telegram bridge, outbound (`paosd/src/bridge.rs`) | mode last seen, mirror cursor, limiter, give-up counter, topics | push questions, drain the outbox, mirror the bus, reconcile topics | Telegram |
| Telegram bridge, inbound (`paosd/src/bridge.rs`) | update offset | long-poll; taps, quote-replies, commands, texts in a topic | Telegram, bus |
| accounts (`paos-operator/src/switch.rs`, `poll.rs`, `accounts.rs`) | keychain items, `~/.claude.json`, `state.json` | capture, poll and refresh, switch, pick | token server, Claude Code |
| memory and librarian (`paos-memory`, `paos-librarian`) | memories, proposals | remember, supersede, forget; propose, approve, reject | spool, bridge, dream |
| nightly scheduler (`paosd/src/dream.rs:700`, `paos-store/src/backup.rs`) | three stamps in `meta`, snapshot files | dream when due, snapshot, prune, doctor's line | memory, files |
| start-up (`paosd/src/main.rs`, `paos-store/src/lib.rs`) | schema version, socket file | migrate, probe, clear, bind | launchd, other daemons |
| session digest (`paos-cli/src/hook.rs`) | none that lasts | three recalls, build, evict to the cap | memory |
| push registry (`paos-bus/src/push.rs`) | in-memory subscribers | register, publish, remove | nobody, see section 6 |
| trajectories, guard, gc report, standup, doctor, install | none | read, render | files |

**What is hard.**  Readers hold no database transaction: they read the
transcript, then the cursor, then a file, print, and report how far they got in
two places, one of which reaches the database seconds later, in directory order,
and twice if the daemon dies in between.  DND and the joined rooms are read once
per half-hour window.  Room names are freed and reused.  A queued operation is
checked against a row as it was, and applied to the row as it has become.  A
session may end between asking and being served.  A call to Telegram may be
carried out and its answer lost; the two loops of the bridge work from lists
they read under a lock they have given up; a killed daemon forgets its offset,
its limiter, its keys and what it had in hand.  A credential lives in two stores
that no lock covers, while its server replaces it each time it is used.
Approving a proposal, ending a session, switching an account and taking a
snapshot are several writes, and any may be the last.

**What correctness means**, part by part:

- delivery: nothing that must be seen is ever behind a cursor unprinted;
  nothing is a reason to wake twice; what wakes is eventually printed;
- spool: at least once, again only after a kill, nothing applied is lost, the
  directory empties;
- board: one holder at a time, authority to close kept through any detour,
  orphan marks that are true, dependencies that never block everybody;
- commands: what a session was told about a task is so; the spool adds no
  behaviour to the board;
- presence: who runs is never archived, who is archived holds nothing;
- questions: decided once, the asker told once, an answer from the phone belongs
  to the question quoted; questions get out and taps get back;
- the phone: what the mirror passed is on it, in order, repeated only after a
  fault, and nothing blocks the rest for ever; what is typed is neither lost nor
  silently unheard; the fleet knows the mode; no topic is left behind;
- supervision: told once per time, whatever else happens; exhaustion announced;
- accounts: none lost, credential and identity of one account, the live token
  spared, the back-off kept, no switch burnt, a spent account left;
- memory: one decision per proposal, what was approved is stored, a split loses
  no half;
- nights: one dream a night, none skipped, a stamp means a snapshot that holds
  what it should, the doctor shows a dream that died;
- start-up: the version tells the schema, one daemon works, a kill never keeps
  the next from coming up;
- digest: the best facts of every tier, within the cap, no tier starved.

## 2. Modules

| module | models | uses |
|---|---|---|
| `BusAddressing` | the pure operators on a room's transcript | SequencesExt, FiniteSetsExt |
| `BusDelivery` | rooms, spool of bus operations, readers | `BusAddressing` |
| `SpoolPromise` | what the spool promises, abstractly | |
| `Spool` | the files, the walk, the kills | instantiates `SpoolPromise` |
| `TaskBoard` | the work queue, every operation one step | |
| `TaskClaims` | sessions and the spool in front of the board | `TaskBoard` |
| `Presence` | session rows, hooks, sweeps | |
| `Escalations` | questions to the human, both loops of the bridge | |
| `OperatorChat` | `operator send` and its listeners | |
| `PhoneFeed` | outbox and mirror | |
| `PhoneInbox` | what the operator types | |
| `Topics` | one forum topic per room | |
| `Supervision` | stale, deaf, exhausted | |
| `Accounts` | credentials, write by write | |
| `AccountPicker` | the decision to switch | |
| `MemoryCuration` | facts, proposals, decisions | |
| `Nightly` | dream, snapshot, stamps | |
| `StartUp` | migrations, probe, bind | |
| `SessionDigest` | the digest of a session start | |
| `BusDeliveryTyping`, `BusDeliveryProofs`, `SpoolProofs`, `TaskProofs` (board and commands), `PresenceProofs` (and the digest), `EscalationsProofs`, `PhoneProofs` (feed, inbox, topics), `DaemonProofs` (the rest) | theorems and proofs | the modules above, TLAPS |
| `MCDelivery`, `MCSpool`, `MCBoard`, `MCClaims`, `MCFleet`, `MCProgress` | instances for TLC | |

Definitions whose comment starts with *Mutant* are small plausible bugs in the
definition of the same name; `PROJECT.json` pairs each checked property with one
of them that breaks it.  Properties a module states and no run checks are ones
the code does not keep under the named constant or fault; section 5 lists them.

### BusAddressing and BusDelivery

A transcript is a sequence of message records and a message's `seq` is its
position: `post` numbers messages per room from `MAX(seq)+1`
(`paos-bus/src/lib.rs:146-150`).  Message `id`s are global and never reused
(AUTOINCREMENT), which lets `delivered[s]`, the ids session `s` had printed,
tell the lives of a room apart.  A target is `All` or the set of handles named;
`ambient` marks operator banners, `urgent` wakes.

- `rooms`, `members`, `history`, `cursors`, `live` are the database columns the
  code reads; `Join`, `Leave`, `Post`, `AdvanceCursor`, `Close`, `DeleteRoom`
  are the drain's arms, shared with the socket (`SendDirect`,
  `ReachableDirect`), the sweep (`GcClose`, `GcPurge`) and session ends.
- `spool`, `inHand`: queued files, and the one applied but not yet removed;
  `DrainApply`, `DrainRemove`, `DaemonRestart` are the drain in the steps a kill
  can separate.  Any file may be next: `read_dir` promises no order.
- `overlay[r][s]` is the cursor file `cursors/<room>/<member>`, `dnd` the marker
  files, `lock` the advisory lock.
- Verbs (`JoinVerb`, ..., `ReachableVerb`) evaluate the guard the command
  evaluates and queue a file.  Verbs that make several files queue them together.
- A reader goes through `pc` = window, closedcheck, poll, read, cursor, decide,
  emit, mark, write.  Each step is one read or one write of shared state, so any
  other actor may act between any two.  `Kill` ends it anywhere.  The overlay
  read and the decision are one step (`Decide`), with printing in the same step:
  nothing else is read between them, and a kill after printing is a kill at
  `emit`.
- `reused` records rooms whose name was freed; properties about a room's cursors
  leave these out, and the run `stale_overlay` shows what happens in them.

`Verbs`, `Users`, `Drafts`, `Procs` select what an instance exercises; `MaxMsgs`,
`MaxFiles`, `MaxKills`, `MaxCrashes` bound what would otherwise never end.
The listener's `NextPass` (look again) and `WindowExpires` (deadline passed)
stand for its clock.

### Spool and SpoolPromise

`Spool` is the directory seen from the bytes: `Create` and `Write` are the two
halves of `fs::write` (`paos-cli/src/main.rs:634`), `StartWalk` lists the
directory, `ReadEntry` reads what is there at that moment, and `Quarantine`,
`ApplyOp` followed by `RemoveFile`, or `KeepIt` are the three outcomes of an
entry.  The kind of operation does not matter here, only whether it is
malformed.  `SpoolPromise` is what `BusDelivery` and `TaskClaims` assume of a
spool: pending until applied or set aside, neither taken back.

### TaskBoard and TaskClaims

`TaskBoard` has one action per store operation with the store's checks as
guards; a refused call changes nothing and is no step.  `Reaches` is stated as
membership in every closed set that holds the start, which is what the code's
depth-first walk computes and can be reasoned about without recursion.
`movedBy` is the actor of the last state change, which the code writes to
`task_log`.

`TaskClaims` puts sessions in front of it.  Each command has the form that is
answered by the daemon (`ClaimWon`, `ClaimRefused`, `ReleaseSent`, `StateSent`)
and the form that is queued (`ClaimQueued`, ...), with the pre-check of the
command as guard.  `waiting` is the poll loop of `claim_and_confirm` and
`Confirmed`, `LostTheRace`, `Unconfirmed` its three ways out.  `told` is what
the session was last told; `letGo` remembers who queued a release of what, and
no action reads it.  The drain re-checks everything (`ApplyClaim`, ...): a
refused file is consumed.

### Presence

The `sessions` table seen by handle: `sidOf` is `session_id`, `ended` the rows
with an `ended_ts`, `pidOf` the recorded pid, `silent` those last seen longer
ago than `REAP_THRESHOLD_S`.  `members` is a handle's membership in a room and
`held` its ownership of a task, as far as a session's end takes them away.

- `Launch`, `SessionCrash` and the moment of `EndHook` are the Claude process,
  whose pid is new each time; a session id comes back when it is resumed.
- `StartHook`, `Turn`, `EndHook` are the three hook events.  Each call is
  `Answered`, or `Spooled`: the socket was closed, or it broke off after the
  daemon had begun or finished the call (`paos-cli/src/main.rs:412-422` cannot
  tell), which takes a kill of the daemon.
- `Retire` is `session_end`; `RetireCut` is what a kill leaves of its three
  statements.  They are assumed not to fail otherwise.
- `Probes` is what `kill(pid, 0)` can say: the truth about a running process,
  anything about a number that may have been given away.  `Due` is the one
  predicate of the sweep and its preview.
- `FallSilent` is time passing for one row.
- `bound`, `restless` and `halfReaped` are histories no action reads.

### Supervision

The pass of the outbound loop in four stages (`stage`): `supervise` recomputes
the marks `stale` and `deaf` from the rows, `Journal` writes a row per newly deaf
session, `Capacity` announces that no account is left, `Page` wakes and pages
while the channel is open.  `alerted` is the in-memory set of keys, re-armed
(`Rearm`) when a session is no longer deaf; `SupKill` empties it.  `episode`
counts the times a session was marked, `journal`, `pages`, `woken`, `announced`
what was done about them.  `age` is time since `last_seen`; a turn renews it.

### Escalations

`esc` is the table, `group` the group's messages with the question each shows,
`updates` what the operator did to them.  `ask`, `answer`, `Resolve` and the
sweep in `SetMode` are the functions of `paos-operator/src/lib.rs`; `informed`
counts answers posted to the asker.  `outbound_loop` compares the mode with the
one of its last pass, lists what to push, and sends one by one, recording the
message id afterwards; `inbound_loop` fetches a batch from `offset`, advances,
and handles update by update.  A send may fail, or arrive and fail (`faults`);
`Kill` forgets offset, list and mode; `KillInAnswer` is a kill between deciding
and posting.  `DirectMessages` lets the operator quote a message of the bot's
direct chat, whose ids overlap the group's; the bridge serves that chat too and
matches such a reply by its number alone.

### PhoneFeed, PhoneInbox and Topics

`PhoneFeed` is one pass of the outbound loop after another: outbox, then
mirror.  `bus` holds of each message only what the mirror makes of it (for the
operator or not, acceptable to Telegram or not); `tokens` is the limiter,
`stuck` the counter of the message at the head, `dropped` what was given up,
`steer` the ids `tg_message_map` can route a reply by.  `cursor` moves at the end
of a pass, a kill leaves it.

`PhoneInbox` is what the inbound loop does with everything that is not an answer
to a question.  `Fetch` and `Handle_(u)` are the long poll and
`handle_message`; the command words, the labels that stand for them, and the
order in which the code tries them are kept, their text is not.  `posted` records
who had an armed listener when a text was posted; the code posts and then looks
who listens, the model does both in one step (a listener that dies in between is
reported as unheard although it heard, which no property minds).  `toldMode` is
the mode of the last banner.

`Topics` follows `topic_for` and `reconcile_topics`: `read`, `shut` and `named` are what the queries of
`rooms_needing_topics`, `closed_rooms` and the titles return; `row` is
`tg_topics`, `thread` the forum.  Calls are carried out or not and say so or not;
with `Refusals`, Telegram may also answer `"ok":false`, which all calls but
`create_topic` take for success.

### OperatorChat

`Look` is the `SELECT` of the oldest unconsumed row, `Take` the `UPDATE` and the
printing.  Each listener is a process with its own connection, so the two are
steps.

### Accounts and AccountPicker

A credential is an account and a generation; `server` is the generation each
account's token server accepts, so a copy with an older one is worthless.
`RotateLive` is Claude Code.  A poll takes the slots one by one
(`refresh_with_backoff`, `StoreForPoll`), a switch is `refresh_for_switch`,
`StoreForSwitch`, `restash_outgoing`, `write_live`, `write_claude_json`, each a
step that may fail or be the last.  `overlaps` counts operations begun while another
process was in the middle of one, and `selfAsked` remembers that a person asked for
the account already in use, which nothing refuses.  `AccountPicker` is the pure
decision (`Candidates`, `Best`, `decide_switch`) driven by usage, the cooldown and
the three-minute poll.  It is asked with two sets of thresholds: a poll passes those
of config.json (`config`, which `Configure` rewrites at any time), a person's switch
the built-in ones with the trip and the cooldown at zero (`AskedConfig`,
`paos-cli/src/accounts.rs:193`).

### MemoryCuration

`memories` maps a fact to absent, live, retired or the fact that superseded it;
`proposals` is the queue in id order.  `Approve` reads the proposal, plans
(`Decision`) and leaves the operations in `deciding[d]`; `SendStep` sends one,
over the socket or into `memoryFiles`; `PhoneApprove` does all of it in one hold
of the lock.  `DrainMemory` takes any file, as the directory has no order; what it sets
aside is remembered in `quarantined`.

### Nightly, StartUp, SessionDigest

`Nightly` counts time in checks of the scheduler; `last_run`, `last_ok`,
`last_backup` are the stamps, `snaps` the files.  `StartDream` stamps and runs,
`StartBackup` to `EndBackup` write, check, stamp and prune.  `SchedulerDies` may
fall anywhere.  A dream takes as long as it likes, as the thread waits for it without
limit; `Overruns` notes one that runs on almost to the next (`overran`).
`NeverFinished` is the doctor's line as the doctor shows it: only while the dream is
switched on, and with the hour of slack (`Slack`) it allows.  `StartUp` has one
action per statement of `main`: open, migrate rung by rung (`ApplyRung`, one
transaction each), probe, clear, bind, serve; `OnlyOnce` are the rungs that fail if
applied twice.  Nothing keeps two daemons from starting at the same moment; `raced`
remembers where two met, on the ladder or before the socket.  `SessionDigest` takes three
rankings, merges (`fresh`), and evicts by `Victim` until the digest fits.  A filter of
a list is `Kept`, the lines at given places in their order.

### The composed instances

`MCFleet` and `MCProgress` extend the modules that share no state with each
other and let `part` choose, once, which of them moves.  TLC's state graph is
then the union of the parts' graphs and one run answers one question for all:
*is any of them ever wrong* (`fleet`) and *do they all get there* (`progress`).
The larger parts meet only so many faults in one behaviour; the bounds stand in
`FleetNext`.  The symmetry of `fleet` is over session ids and handles, which the
model only ever picks by `\E`, and that run checks no liveness.

## 3. What is checked

Passing runs:

| run | question | instance |
|---|---|---|
| `delivery_core` | is any addressed message stepped over; is a wake ever spent on a message the session had? | two listeners of one session (one always-on, one single window), joins, leaves, session end and restart; a typed instruction that wakes, and a directed and a plain message over the socket that ride along with it; one crash of the drain |
| `delivery_lossy` | can DND, the cap or a killed reader lose what must be seen? | a listener racing `recv`, cap of 1, two messages, DND at any moment, one kill |
| `delivery_rooms` | is the invariant of the proof true while rooms close, are swept, purged, deleted, rejoined, probed? | one listener, two rooms, one verb file, one crash |
| `delivery_live` | is what wakes eventually printed? | one listener, two possible messages (one over the spool), DND, one kill, one crash |
| `board` | can dependencies block everybody; close authority, orphan marks, exclusivity | either three tasks and their edges, or two tasks of both origins, all six states and two sessions |
| `claims` | does the board behave as if called directly; is "you own it" true? | two tasks, two sessions, operator, one queued file, one crash |
| `fleet` | is any of twelve components ever wrong? | see below |
| `progress` | do the spool, the questions, the mirror, the topics, operator messages, the announcement of exhaustion, a spent account and a starting daemon all get there? | see below |

Runs that end in a counterexample: `stale_overlay`, `torn_write`, `two_owners`,
`taken_twice` (section 5).

The parts of `fleet` and their bounds:

| part | instance | properties |
|---|---|---|
| presence | two session ids, two handles, two processes, two queued files and one kill (two of these three in one behaviour) | `RunningStaysLive`, `ArchivedHoldsNothing` |
| questions | one asker, two questions, attended and away, one action on the phone, in the group or as a reply to one message of the direct chat, one lost reply or one kill | `EscSafety`, `DecisionsStand` |
| feed | two bus messages of any kind, one `say`, a bucket of two, one failed call or one kill | `FeedSafety` |
| inbox | one session, one room and the lobby, one topic, two texts, one note; one move, lost reply or kill | `InboxSafety` |
| topics | two rooms, two threads, two changes of a room, one lost call, kill or adoption | `TopicSafety` |
| watch | one session, every pattern of listening and turns, two of: deaf again, exhausted, killed | `SupSafety` |
| accounts | two slots, a poller and a person, two generations of each token, one mishap or a request for the account in use | `AccountSafety` |
| picker | three accounts, usage 0 to 2 of 2 in one window and 0 to 1 in the other, or unknown; config.json with the built-in thresholds or lower ones, rewritten at any time | `NoThrash` |
| curation | three facts, a terminal and a sandboxed session, one proposal of any kind, merges with and without sources; two of: queued file, write, setback | `CurationSafety`, `DecidedOnce` |
| nightly | two days of six checks, a dream of any length, a slack of one check, two snapshots kept, one kill, failure or change of configuration | `NightlySafety` |
| startup | two daemons started at any moment, a ladder of three with a rung that only works once, four starts, two kills | `StartSafety` |
| digest | three facts of two sizes, every ranking of two of the three queries, a cap of eight | `DigestSafety` |

`progress` uses the same parts with smaller bounds, the spool (three calls, one
malformed, two kills, one busy error) and `OperatorChat` (two listeners, two
messages, one death).

Why these bounds are enough to be interesting: two messages are what it takes
for one to arrive between a read and a receipt; a cap of one with two messages
drops one; a receipt file counts towards no bound, so receipts of several
wakes, late and repeated, coexist with the one verb file.  Three tasks are the
least for a cycle no direct check finds.  One queued file drained at any later
moment, twice if the daemon dies, races with direct operations of both sessions
and the operator, which is how the order of two files matters; the theorem
`SpoolImplementsBoard` covers any number of them.  Two processes are a life and
its resumption, and two files a late call and something given to an archived
handle.  Two questions let an answer go to the wrong one, and a push that was
carried out and not recorded shows one question in two messages.  Two mirrored
messages let one overtake or block the other, and a fault at any of their steps
falls before and after each write.  Two slots let an outgoing credential be
stashed in the wrong one.  Three accounts give the picker a second choice when
its first tripped in one window and is spent in the other.  Three facts are a
fact and the two halves it is split into.  A ladder of three whose second rung
must not be repeated has one before and one after it.  What is bounded to one
mishap here has no bound in the proofs of section 4.

`NothingSkipped` is stated for instances without DND and with a backlog within
the cap: what does not wake a session is printed with the wake that comes after it, and the
receipt then covers both.  Under DND the listener prints what is urgent and its receipt still
names the newest message of the room (`paos-cli/src/listen.rs:200`), so ordinary
messages end up behind the cursor unprinted.  `delivery_core` is such an instance,
and section 4 proves the property for all of them; what holds always is
`MustDelivered`.  In the same way `NoSecondWake` needs that no reader is killed after
it printed and that none is a `recv`, which takes no lock.

**Fairness.**  `FairSpec` of `BusDelivery` assumes that a running reader keeps
running (weak fairness of its steps), that its deadline passes (strong fairness
of `WindowExpires`, as `NextPass` may be chosen in between each time), that a
session re-arms its listener when it is down (weak fairness of `Arm`: the
session's own instructions and stop hook do this at the end of each turn), and
that the daemon drains (`paosd/src/dream.rs:49-65`, every five seconds).
`ProgressSpec` assumes of each part that the daemon's thread goes on (`Loop`: the
walk of the spool, the outbound loop, its pass of the topics and of supervision,
the poll every three minutes that launchd starts, a starting daemon) and, where a
second actor is needed, that it does too (`OtherLoop`: the inbound loop, the
refill of the limiter, time, the other listener, the other daemon).  A killed
daemon is started again by launchd, which is part of the step that kills it.
Failures are finite because they are bounded and never forced; questions, taps,
messages, kills, changes of mode and of usage are never forced either.  A
message Telegram refuses for ever is not a failure in this sense: the mirror's
liveness holds because of the give-up count, which its mutant removes.

## 4. What is proved

With no bound on sessions, rooms, readers, messages, tasks, files, questions,
kills or crashes:

- **Delivery** (`BusDeliveryTyping`, `BusDeliveryProofs`): `TypeCorrect`,
  `ReceiptsAreHonest` and `NothingLost` (`Spec => []MustDelivered`).
  `MustDelivered` alone is not inductive: a cursor becomes what a receipt says,
  and a receipt says what its reader had read.  `DeliveryInv` therefore adds
  that no queued receipt (`ReceiptsCovered`), no cursor a reader holds and no
  receipt it has still to write (`ReaderCovered`) names more than its session
  was shown, and that what a reader has read is a beginning of the transcript.
  The argument: transcripts only grow and delivered sets only grow, so what is
  covered stays covered (`GrowCovers`); the step that establishes coverage is
  `Decide`, where what must be seen is among the hits under DND or not and
  survives the cap (`CapKeepsMust`, `PrintingCovers`).  Deleting a room breaks
  the growth and puts the room in `reused`.

  The same invariant with every message in the place of those that must be seen
  gives `NothingLeftOut` (`Spec /\ []Unrestrained => []NothingSkipped`): the only
  step that can leave a message out is a decision under DND or over a backlog beyond
  the cap.  `NothingLeftOutWithinCap` discharges that from the constants: no DND
  verb, and no more messages than the cap, as every line of a transcript comes from
  a post, a file or a file applied again.

  `OneWakeEach` (`NoSecondWake`) assumes `Undisturbed`: no reader is killed and none
  is a `recv`.  `WakeInv` says that whoever is not at rest holds its session's lock,
  that an id is used once, that what a reader has read stands where it was read, and
  that what a session was shown is at or below its cursor file, or below the place
  the one reader at work is about to write there.
- **Spool** (`SpoolProofs`): types, `OncePerKill`, `NothingLostOnTheWay`,
  `SpoolIsSafe` and `SpoolKeepsPromise`, the refinement of `SpoolPromise`.
  `EffectInv` says that an operation that took effect was written in full and is not
  malformed, so that a second reading of its file, after a kill, cannot set it aside;
  `Repeated` counts an effect against the kills unless its file is gone or in hand.
  For all calls together, `KillsPay`: the repetitions made and the files applied and
  still there (`Leftover`) are no more than the kills, as a kill leaves at most the
  one in hand.  Each step moves one call along or none (`StepsMoveOne`).
- **Board** (`TaskProofs`): types, `AlwaysAcyclic`, `WorkCanGoOn`,
  `AuthorityKept`, `BadgeIsTrue`, `ClaimsAreExclusive`, `DroppedIsFinal`.
  Acyclicity is stated as "every set of tasks has one that depends on none of
  the set"; a new edge is safe because the walk that did not find its start
  leaves a closed set without it, and any set can be split along that set
  (`NewEdgeIsSafe`).  `GraphInv` adds types and that edges join existing tasks,
  which `WorkCanGoOn` (while a task is open, some open task waits for nothing)
  needs.
- **Commands** (`TaskProofs`): `SpoolImplementsBoard` (the spool adds no
  behaviour: every step of `TaskClaims` is a step of `TaskBoard` or none),
  `ClaimsTypeCorrect`, and `OwnersKeepTasks`: a session told it owns a task owns
  it unless it queued a release itself.  The invariant adds `FilesAsked`: a file
  in the spool is one a session asked for, and a release file names a pair in
  `letGo`.  The only steps that take a task from its holder are a release of its
  own and its end.
- **Presence** (`PresenceProofs`): types, `RunningStayLive` and
  `ArchivedHoldNothing`.  The invariant adds that a session id has one handle
  and that a start or heartbeat in the spool carries the pid of the life it
  comes from (`FilesHonest`): then a call of the present life rewrites what is
  there, one of another session touches another row, and the sweep meets its own
  proof of life.  For the second, every step either takes the holdings with the
  stamp or leaves the excuse the property names (`CallsKeepExcuses`): what kills
  a daemon in the middle of an end also makes that end be repeated, from the
  file or from the caller that got no answer.  A sweep is not repeated, as the
  row is archived by then.
- **The digest** (`PresenceProofs`): `DigestIsFair`.  `BestStay` and `TiersShare` are
  not inductive, as `Victim` goes by places in the digest and they speak of facts.
  `Laid` adds that the bullets of a section stand in the order of what it was given
  (`Ranked`), so that the last place is the least fact.  An eviction and the dropping
  of bare headers are one thinning of the list (`Evicts`: an increasing choice of
  places that leaves out the victim and otherwise headers only); it keeps order and
  headers (`EvictionThins`, `EvictionKeepsRanks`), and by the choice of the victim
  the best facts and the fair share (`EvictionKeepsBest`, `EvictionIsFair`).
- **Questions** (`EscalationsProofs`): `QuestionsKeptApart` and
  `FirstAnswerStands`, for any number of messages in the direct chat.  Of a reply in the
  direct chat they say that it decides at most one question and once; that the question is
  the one shown is claimed of what is tapped or quoted in the group.  The invariant ties four things together: the table
  (`Tabled`), each row with the messages that show it and the update that answered
  it (`RowOK`), the group and the phone (`ChatOK`), and a push in progress with the
  last message shown (`PassOK`).  A lost reply leaves a second message for the same
  question, which is why `RowOK` speaks of the message recorded and not of the only
  one.
- **The mirror** (`PhoneProofs`): `FeedIsSafe`, i.e. `MirrorCovers`,
  `RepetitionNeedsFault` and `NoOvertaking`.  `FeedInv` is `Covered` up to the cursor
  and, in a pass, up to `upto`, with the rows still ahead (`RowsAhead`): the cursor is
  saved only to where the pass has sent or given up everything.  A message is sent
  only when the pass stands right before it, so all before it are covered, which is
  the order; and its copies are at most the faults, the kills and the one it is due
  for having been passed (`PaidFor`).
- **What is typed** (`PhoneProofs`): `InboxIsSafe`.  The list at hand is the part of
  the typed that ends at the offset (`InOrder`); chatter is posted as the loop comes
  to it, so first in order, and again only after a kill (`PostedInTurn`); what left no
  trace (`Silent`) and what nobody heard and nobody reported (`Unheard`) are counted
  against lost replies and kills.
- **Topics** (`PhoneProofs`): `TopicsAreKept`.  A thread without a row is paid for by
  a call whose answer was lost, a kill between creating and recording, or an adoption;
  `TopicInv` adds that rows point to threads there are and that what is about to be
  closed has a row.
- **Start-up** (`DaemonProofs`): `StartsSafely`, for any number of daemons started at any
  moment (its hypothesis only keeps the marker "none" from being a daemon).  The version
  never claims a rung that is not there; it says exactly what is there unless two climbed
  at once, and one daemon works unless two had asked the socket before either bound it.
  `StartInv` adds, each until its race has happened, that the daemon on the ladder stands
  right above what has been applied, that one that serves owns the socket file, and that
  none serves while another is past its probe.
- **The picker** (`DaemonProofs`): `SwitchesLast`; the rank of the choice is a least
  one (`MinIsLeast`, `BestIsCandidate`) and a candidate is under the thresholds it was
  chosen with.  It holds for every config.json: that the new account is not over the burst
  mark is claimed only where the target lies below that mark, which nothing enforces.
- **Accounts** (`DaemonProofs`): `AccountsAreSafe`.  A switch to the account in use
  is a step like any other; that no account is lost is claimed until one was asked for
  (`selfAsked`, see section 5).  Three invariants, each under the mishaps
  its part of `AccountSafety` names: credential, slot and identity are of one account
  (`OneAccountInv`, by the step each process is at: `HoldsItsOwn`); every copy but the
  one being replaced is the generation its server accepts (`GoodCredInv`,
  `HoldsGood`); a slot in its window is in the back-off of the poll at work or of the
  state file (`BackoffInv`).
- **Memory** (`DaemonProofs`): `OneDecision` (a rewritten list keeps its length and
  every entry that is no longer pending, `FirstDecisionStands`) and
  `ApprovedIsStored`, for merges with and without sources: where one without is approved
  and only the spool is in reach, its file is set aside, and the property says that this is
  the only way an approved text does not get there (`SetAside`).  `CurationInv` follows an operation from the plan to the store: what a plan will send
  (`PlansInv`), what lies in the spool (`FilesInv`) and what the store holds
  (`StoreInv`) is what some proposal of the right shape (`ShapeInv`) justifies, and a
  fact is superseded only by one sent before it, so a split loses no half.  What a text
  is the last to bear (`Bears`, `BorneBefore`) tells a file that will be set aside from one
  that will be stored.
- **Supervision** (`DaemonProofs`): `ToldOfDeafOnce`.  What a key remembers and what
  has been told are paired by `Owed`, the row or page still due for the time a session
  is deaf now: told plus owed never exceeds times plus kills, and equals it for the
  journal while nobody was killed.
- **Nights** (`DaemonProofs`): `NightsAreRight`, for every window, pause and slack and
  dreams of any length.  One dream a night is claimed where the window of hours is no longer
  than the pause between two dreams (`WindowFits`; the code's are 3 and 22 hours,
  `dream.rs:34-36`; with a longer window one night can hold two), and the doctor's line for
  a dream that died while the dream is switched on and none has overrun.  `NightInv`
  says what the hour and the stamp tell of tonight's run, `NightIsKept` that earlier
  nights undisturbed had one, `DreamInv` and `BackupInv` what a run or a snapshot in
  progress will be worth.

The assumptions are the named `ASSUME`s on constants of each module (disjoint
markers, subsets, natural bounds), all evaluated by TLC in the runs, and the ones
written into the theorems above.

**Model-checked only**: all liveness, which is out of the prover's reach
(`WakesReach`, `EveryFileLeaves`, `QuestionsGetThrough`, `MirrorMovesOn`,
`ReadersGetTopics`, `SentIsTaken`, `ExhaustionReaches`, `SpentIsLeft`, `ComesUp`).
Every safety property a passing run checks is stated by a theorem, under the
hypotheses named above.

## 5. Disagreements between the code and what it says

Each of these is a run that ends in a counterexample; `PROJECT.json` quotes the
line.

- `stale_overlay`: deleting or purging a room restarts its numbering and leaves
  readers' cursor files, so the first messages of its next life are never printed.
- `torn_write`: the drain reads a spool file between creation and write, sets
  the empty file aside, and the caller is told it is queued.
- `two_owners`: a re-claim is confirmed from a row whose release is still
  queued; after the release another session is told it owns the task as well.
- `taken_twice`: two listeners read one message from the operator before either
  consumes it, and both act on it.

Stated in the modules as the code's comments state them, and false under the
constant or fault named, without a run of their own:

| property | fails when |
|---|---|
| `AnswersAreTold` (Escalations) | the daemon is killed between deciding and posting the answer (`paos-operator/src/lib.rs:206-224`) |
| `AnswersTheQuoted`, without its restriction to the group | the operator replies in the direct chat: its message ids and the group's overlap (`paos-operator/src/lib.rs:385`), so that another question may be answered |
| `SaysMoveOn` (PhoneFeed) | Telegram never accepts a `say`: the outbox has no give-up count (`bridge.rs:1931`) |
| `SteeredIsLive` (PhoneInbox) | a quote-reply to a message of a session that has ended; a reborn handle gets it instead |
| `ClosedIsClosed` (Topics) | `Refusals`: `"ok":false` counts as done (`paos-operator/src/telegram.rs:448-477`) |
| `WokenFirst` (Supervision) | the channel closes while a session recovers and opens before it is deaf again: the wake's key is re-armed only below the gate (`bridge.rs:1877`) |
| `DeafIsMarked` | a session heartbeats while it is deaf (`paos-presence/src/lib.rs:592-594`, against the comment at 16) |
| `NothingLost` (Accounts), without `~selfAsked` | switching to the account in use writes its older stashed token over the live one (`paos-operator/src/switch.rs:62`, `:69`) |
| `ApprovedReaches` (MemoryCuration), without `SetAside` | an approved merge that names no source is set aside by the drain; the librarian queues such merges itself (`paos-librarian/src/upkeep.rs:124`, `paos-cli/src/librarian.rs:287-289`) |
| `NeverNeither` | a fact is split and its last part normalises to the fact itself, which then supersedes itself |
| `NewestIsWhole` (Nightly) | a kill while the snapshot is compressed leaves a truncated file that sorts newest (`paos-store/src/backup.rs:119-129`) |
| `VersionIsSchema`, `OneWorks` (StartUp), without `raced` | two daemons started at the same moment both pass the probe and work (`paosd/src/main.rs:119-126`), or both climb the ladder (`paos-store/src/lib.rs:154`): the slower sets the version back, and the next start fails on a column that is there already |
| `NoThrash`, with the thresholds of config.json for a switch that was asked for | config.json lowers them: the switch is decided with the built-in ones (`paos-cli/src/accounts.rs:193-194`) and lands on an account the next poll leaves |
| `DeadDreamShows`, without `enabled` and `~overran` | the doctor says "disabled by config" first (`paos-memory/src/doctor.rs:245-252`), and its hour of slack (line 270) takes the finish of a dream that overran for that of the next |
| `ShownOnce`, `SomethingShown` (SessionDigest) | a fact recalled by two queries prints two scores; one over-long fact evicts every other first |

Behaviours the models also reach: a late queued join makes an ended session a
member again, which posting guards against (`paos-bus/src/lib.rs:126-130`) and
joining does not; a late queued claim makes an ended session the owner of a task,
or hands a task to a session told that it lost; a late end, heartbeat or start of
an earlier life ends a resumed session or records a dead pid for it; a sweep
killed in the middle leaves an archived session its rooms and tasks for good; a
forgotten handle leaves its tasks to the next session that gets its name; a post
into a closed room makes its sender a member of it; joining by posting writes no
`room_history` row, so a reap forgets it; asking whether a session listens takes
the lock its listener needs; two readers of one session can lower the cursor file
(which costs a repeated message, never a lost one).  A mirrored message given up after
`MAX_SEND_ATTEMPTS` and sent again because the daemon was killed before it saved the
cursor arrives after what followed it.  An alert consumes its key
even if the page does not arrive.  The dashboard changes the mode without the
banner that `paosd/src/handlers.rs:361-378` says every real change must post
(`paos-web/src/lib.rs:576-585`), and a kill between the two loses it.  `/adopt`
can map two rooms to one thread.  A fact remembered again after it was retired
stays invisible.  The doctor says "never finished" while a dream is running.  A
`target_max` above `switch_at` in config.json makes polls switch back and forth, and the page that no account is left goes by
the built-in thresholds (`bridge.rs:1536`).

Read and not modelled: a spooled `ask` tells the session to use `operator listen`
although answers go to the bus; a quote-reply to a closed question is broadcast; a
released review of a session's own task is in no queue; the dashboard's retire
sets `ended_ts` and nothing else (`paos-web/src/lib.rs:482-492`);
`handle_message` replies over the network while it holds the daemon's lock; a
dream has no timeout and holds back the backups; a reranked recall reinforces the
whole shortlist and not what it returned (`paos-memory/src/lib.rs:344-392`, comment
at 540); duplicates are searched for in one scope and queued into another
(`paos-librarian`, `near_duplicate` and `queue_candidates`); a proposal of lessons
carries no target and is queued again by each run; a multi-line fact reaches the
digest as its first line (`paos-cli/src/hook.rs:164-168`); the digest counts its
overflow where its comment says it names it; a stale button on the phone's task
list acts on a task that has moved on.

## 6. Not modelled, and why

- **Push registry and `Request::Listen`**: no command sends the request
  (`paos-cli/src/bus.rs:1228`), so the code path has no user; the polling listener
  of `BusDelivery` is what runs.
- **Ranking, embedding, prompts, drafting, trajectories**: computations over text
  and vectors whose state is one statement each.  What they may do to the store is
  in `MemoryCuration`.
- **Rendering**: the phone's task list and digest, dashboard pages, standup,
  doctor and gc reports.  The task list's buttons are the operator's actions of
  `TaskBoard`.
- **Guard, install, services probe, secrets, slot listing, usage parsing**: text
  scanning and start-up I/O without state that lasts.
- Room renames, kinds, topics, statuses, notes, epics and scopes change nothing
  the properties read.
- SQLite is taken as atomic per statement and per transaction, a socket call as
  served, refused or broken off.

About a third of the lines under `src/` are tests, and most of what is left of the
larger files renders or parses.  The state machines modelled here are what remains,
and they are an eighth of the implementation's lines; more of it would be models of
formatting.

## 7. Plan

Done: the modules of section 2, the runs of section 3, the proofs of section 4.
Next, in this order:

1. Proofs: the abstract promise of more components, as for the spool and the board
   (a question: open, decided, told; a mirrored message: posted, passed, on the phone),
   with the refinement as theorem.
2. `Presence` composed with `BusDelivery`'s `room_history`, so that what a reap
   took can be shown to come back, and the sweep statement by statement.
3. `TaskClaims` extended by queued creates, grants and dependencies and by spooled
   session ends.
4. The librarian's passes as producers of proposals, with the targets they omit.
