------------------------------ MODULE Escalations ------------------------------
(***************************************************************************)
(* Questions to the human.  A session asks, or is found blocked when the   *)
(* operator leaves; the daemon's outbound loop pushes open questions to    *)
(* the Telegram group while the channel is open; its inbound loop          *)
(* long-polls for taps and quote-replies, which answer.  The loops, the    *)
(* socket handlers and the operator interleave, a send may fail or arrive  *)
(* without saying so, and a killed daemon forgets its offset, its list and *)
(* the mode it last saw.                                                   *)
(***************************************************************************)
EXTENDS Naturals, Sequences, SequencesExt, FiniteSets, FiniteSetsExt

CONSTANTS
    Askers,          \* sessions
    Modes,           \* modes the operator uses
    DirectMessages,  \* bot messages in the operator's direct chat
    MaxAsks, MaxUpdates, MaxFaults, MaxKills   \* bounds of the instance

ASSUME EscalationConstants ==
    /\ IsFiniteSet(Askers) /\ Modes \subseteq {"attended", "autonomous", "away"}
    /\ {DirectMessages, MaxAsks, MaxUpdates, MaxFaults, MaxKills} \subseteq Nat

VARIABLES
    mode, seen,       \* operator_mode; the operator ever wrote to the bot
    blocked,          \* live sessions whose status says they are blocked
    esc, informed,        \* escalations by id; answers posted to the asker
    group,            \* the group's messages by id: the escalation each shows
    updates, acked,   \* what the operator did; how much of it the daemon confirmed
    prevMode, out, todo,    \* outbound loop
    offset, batch,          \* inbound loop
    faults, kills

questions == <<esc, informed>>
telegram  == <<group, updates, acked>>
outbound  == <<prevMode, out, todo>>
inbound   == <<offset, batch>>
escVars   == <<mode, seen, blocked, questions, telegram, outbound, inbound, faults, kills>>

Ids(q) == 1..Len(q)

EscTypeOK ==
    /\ mode \in Modes /\ prevMode \in Modes /\ seen \in BOOLEAN /\ blocked \subseteq Askers
    /\ esc \in Seq([session : Askers, status : {"open", "answered", "resolved"},
                    msg : 0..Len(group), by : 0..Len(updates)])
    /\ informed \in [Ids(esc) -> Nat]
    /\ group \in Seq(Ids(esc))
    /\ updates \in Seq([do : {"tap", "reply"}, chat : {"group", "direct"}, msg : Nat \ {0}])
    /\ acked \in 0..Len(updates) /\ offset \in 0..Len(updates)
    /\ batch \in Seq(Ids(updates))
    /\ out \in {"rest", "push", "pushed"} /\ todo \subseteq Ids(esc)

EscInit ==
    /\ mode \in Modes \ {"away"} /\ prevMode = mode /\ seen = FALSE /\ blocked = {}
    /\ esc = <<>> /\ informed = <<>> /\ group = <<>> /\ updates = <<>> /\ acked = 0
    /\ out = "rest" /\ todo = {} /\ offset = 0 /\ batch = <<>>
    /\ faults = 0 /\ kills = 0

-----------------------------------------------------------------------------
(* The store's side. *)

ask(q) ==
    /\ Len(esc) + Len(q) <= MaxAsks
    /\ esc' = esc \o [k \in DOMAIN q |->
                        [session |-> q[k], status |-> "open", msg |-> 0, by |-> 0]]
    /\ informed' = informed \o [k \in DOMAIN q |-> 0]

\* Mutant: the answer is recorded whatever the status.
answerAnyway(i, u) ==
    /\ esc' = [esc EXCEPT ![i].status = "answered", ![i].by = u]
    /\ informed' = [informed EXCEPT ![i] = @ + 1]

\* The row, if it is still open, then a message to the session that asked.
\* u is the update it came with, 0 for the command line and the dashboard.
answer(i, u) ==
    IF esc[i].status = "open"
    THEN /\ esc' = [esc EXCEPT ![i].status = "answered", ![i].by = u]
         /\ informed' = [informed EXCEPT ![i] = @ + 1]
    ELSE UNCHANGED questions

open_escalations == {i \in Ids(esc) : esc[i].status = "open"}
unpushed == {i \in open_escalations : esc[i].msg = 0}

\* Mutant: the last escalation pushed is the one meant.
latest_escalation(m) == {i \in open_escalations : esc[i].msg = Len(group)}

\* By number alone, whatever chat the number is from.
escalation_by_message_id(m) == {i \in open_escalations : esc[i].msg = m}

\* Open in away mode, and for fifteen minutes after the operator wrote.
may_push == IF mode = "away" THEN {TRUE} ELSE IF seen THEN BOOLEAN ELSE {FALSE}

-----------------------------------------------------------------------------
(* Sessions, and the operator at the keyboard. *)

Ask(s) ==
    /\ ask(<<s>>)
    /\ UNCHANGED <<mode, seen, blocked, telegram, outbound, inbound, faults, kills>>

StatusChanges(s) ==
    /\ blocked' \in {blocked \cup {s}, blocked \ {s}}
    /\ UNCHANGED <<mode, seen, questions, telegram, outbound, inbound, faults, kills>>

SetMode(m) ==
    /\ mode' = m
    /\ UNCHANGED <<seen, blocked, questions, telegram, outbound, inbound, faults, kills>>

AnswerAtKeyboard(i) ==
    /\ i \in Ids(esc) /\ answer(i, 0)
    /\ UNCHANGED <<mode, seen, blocked, telegram, outbound, inbound, faults, kills>>

Resolve(i) ==
    /\ i \in open_escalations
    /\ esc' = [esc EXCEPT ![i].status = "resolved"]
    /\ UNCHANGED <<mode, seen, blocked, informed, telegram, outbound, inbound, faults, kills>>

-----------------------------------------------------------------------------
(* The outbound loop: sweep, gate, then the open questions one by one. *)

\* Only when this pass sees away and the last one did not.
sweep_blocked_on_away ==
    IF mode = "away" /\ prevMode # "away"
    THEN blocked \ {esc[i].session : i \in open_escalations} ELSE {}

Pass ==
    /\ out = "rest" /\ prevMode' = mode
    /\ \E q \in SetToSeqs(sweep_blocked_on_away) : ask(q)
    /\ \E open \in may_push :
         LET list == {i \in Ids(esc') : esc'[i].status = "open" /\ esc'[i].msg = 0} IN
         IF open /\ list # {} THEN out' = "push" /\ todo' = list ELSE UNCHANGED <<out, todo>>
    /\ UNCHANGED <<mode, seen, blocked, telegram, inbound, faults, kills>>

NextInPass == todo' = todo \ {Min(todo)} /\ out' = IF todo' = {} THEN "rest" ELSE "push"

Push ==
    /\ out = "push"
    /\ group' = Append(group, Min(todo)) /\ out' = "pushed"
    /\ UNCHANGED <<mode, seen, blocked, questions, updates, acked, prevMode, todo,
                   inbound, faults, kills>>

\* The call fails; the message may have arrived all the same.
PushFails ==
    /\ out = "push" /\ faults < MaxFaults /\ faults' = faults + 1
    /\ group' \in {group, Append(group, Min(todo))}
    /\ NextInPass
    /\ UNCHANGED <<mode, seen, blocked, questions, updates, acked, prevMode, inbound, kills>>

MarkPushed ==
    /\ out = "pushed"
    /\ esc' = [esc EXCEPT ![Min(todo)].msg = Len(group)]
    /\ NextInPass
    /\ UNCHANGED <<mode, seen, blocked, informed, telegram, prevMode, inbound, faults, kills>>

-----------------------------------------------------------------------------
(* The operator's phone, and the inbound loop. *)

\* A tap on a question's option, or a quote-reply to any message of the bot.
Act(do, chat, m) ==
    /\ Len(updates) < MaxUpdates
    /\ chat = "direct" => do = "reply"
    /\ updates' = Append(updates, [do |-> do, chat |-> chat, msg |-> m])
    /\ UNCHANGED <<mode, seen, blocked, questions, group, acked, outbound, inbound,
                   faults, kills>>

\* Mutant: what was fetched is confirmed with it.
PollConfirms ==
    /\ batch = <<>> /\ acked < Len(updates)
    /\ acked' = Len(updates) /\ offset' = Len(updates)
    /\ batch' = [k \in 1..(Len(updates) - acked) |-> acked + k]
    /\ UNCHANGED <<mode, seen, blocked, questions, group, updates, outbound, faults, kills>>

\* getUpdates confirms what lies below the offset it asks from and returns the rest,
\* again if need be.  The offset moves before anything is handled.
Poll ==
    /\ batch = <<>>
    /\ acked' = Max({offset, acked})
    /\ acked' < Len(updates)
    /\ batch' = [k \in 1..(Len(updates) - acked') |-> acked' + k]
    /\ offset' = Len(updates)
    /\ UNCHANGED <<mode, seen, blocked, questions, group, updates, outbound, faults, kills>>

\* callback_data carries the escalation's own id; a reply is matched by message id.
handle_callback(u) == answer(group[updates[u].msg], u)

handle_message(u) ==
    LET asked == escalation_by_message_id(updates[u].msg) IN
    IF asked = {} THEN UNCHANGED questions ELSE answer(Min(asked), u)

Handle ==
    /\ batch # <<>>
    /\ seen' = TRUE
    /\ LET u == Head(batch) IN
         IF updates[u].do = "tap" THEN handle_callback(u) ELSE handle_message(u)
    /\ batch' = Tail(batch)
    /\ UNCHANGED <<mode, blocked, telegram, outbound, offset, faults, kills>>

-----------------------------------------------------------------------------
(* Kills. *)

Reset ==
    /\ kills < MaxKills /\ kills' = kills + 1
    /\ prevMode' = mode /\ out' = "rest" /\ todo' = {} /\ offset' = 0 /\ batch' = <<>>

Kill ==
    /\ Reset
    /\ UNCHANGED <<mode, seen, blocked, questions, telegram, faults>>

\* Between the two writes of an answer given at the keyboard.
KillInAnswer(i) ==
    /\ i \in open_escalations
    /\ Reset
    /\ esc' = [esc EXCEPT ![i].status = "answered"]
    /\ UNCHANGED <<mode, seen, blocked, informed, telegram, faults>>

outbound_loop == Pass \/ Push \/ PushFails \/ MarkPushed
inbound_loop  == Poll \/ Handle

EscNext ==
    \/ \E s \in Askers : Ask(s) \/ StatusChanges(s)
    \/ \E m \in Modes : SetMode(m)
    \/ \E i \in 1..MaxAsks : AnswerAtKeyboard(i) \/ Resolve(i) \/ KillInAnswer(i)
    \/ \E do \in {"tap", "reply"}, m \in Ids(group) : Act(do, "group", m)
    \/ \E m \in 1..DirectMessages : Act("reply", "direct", m)
    \/ outbound_loop \/ inbound_loop \/ Kill

EscSpec == EscInit /\ [][EscNext]_escVars

\* Both loops are threads of a running daemon.
EscFairness == WF_escVars(outbound_loop) /\ WF_escVars(inbound_loop)

-----------------------------------------------------------------------------
(* Properties. *)

\* A question is decided once: whatever is tapped twice, replied to late, redelivered
\* after a kill or answered in two places, the first decision stands.
DecisionsStand ==
    [][\A i \in Ids(esc) : esc[i].status # "open" =>
         esc'[i].status = esc[i].status /\ esc'[i].by = esc[i].by]_escVars

\* The asker is told at most once, and only of an answer.
ToldOnce == \A i \in Ids(esc) : informed[i] = 0 \/ (informed[i] = 1 /\ esc[i].status = "answered")

\* lib.rs: delivery is in answer "so no path can answer without telling anyone".
AnswersAreTold == \A i \in Ids(esc) : esc[i].status = "answered" => informed[i] = 1

\* What the operator answers in the group is the question shown in the message tapped
\* or quoted, through repeated pushes, lost replies and kills (bridge.rs: "a quote-reply
\* routes to whoever originated the quoted message").  Of a reply in the direct chat
\* nothing is claimed: the bridge takes it too, and matches its number alone, though the
\* two chats number their messages apart.
AnswersTheQuoted ==
    \A i \in Ids(esc) : esc[i].by # 0 =>
        LET u == updates[esc[i].by] IN u.chat = "group" => group[u.msg] = i

\* While the operator is away, a question reaches the phone unless it is closed first.
AskedReaches ==
    \A i \in 1..MaxAsks :
        (i \in Ids(esc) /\ mode = "away")
            ~> (mode # "away" \/ i \notin unpushed)

\* A tap takes effect, across kills: the question it was on ends up closed.
Tapped(u) == u \in Ids(updates) /\ updates[u].do = "tap"
TapsDecide ==
    \A u \in 1..MaxUpdates :
        Tapped(u) ~> (Tapped(u) /\ group[updates[u].msg] \notin open_escalations)

\* The state is well formed, and the two invariants above hold together: who was
\* told what, and which question an answer given in the group belongs to.
EscSafety == EscTypeOK /\ ToldOnce /\ AnswersTheQuoted

\* Questions get through to the operator and the operator's taps get back.
QuestionsGetThrough == AskedReaches /\ TapsDecide
=============================================================================
