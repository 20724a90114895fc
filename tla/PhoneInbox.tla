------------------------------ MODULE PhoneInbox ------------------------------
(***************************************************************************)
(* What the operator types on the phone, as the bridge's inbound loop      *)
(* turns it into messages of the bus: commands and the labels that stand   *)
(* for them, texts for one session, quote-replies to a session's message,  *)
(* and texts for the room whose topic they were typed in.  (Answers to     *)
(* escalations are in Escalations.)  Sessions come, go and re-arm their    *)
(* listeners meanwhile; a reply may not arrive; a killed daemon is handed  *)
(* again what it had not yet confirmed.                                    *)
(***************************************************************************)
EXTENDS Naturals, Sequences, SequencesExt, FiniteSets, FiniteSetsExt

CONSTANTS
    Fleet,          \* session handles
    InboxRooms,     \* rooms beside the lobby, which every session joins
    Places,         \* the group's topics; 0 is General, or the direct chat
    InboxModes,     \* the modes the operator uses
    MaxTexts, MaxNotes, MaxMoves, MaxLostReplies, MaxInboxKills   \* bounds of the instance

ASSUME InboxConstants ==
    /\ Places \subseteq Nat \ {0} /\ "lobby" \notin InboxRooms
    /\ InboxModes \subseteq {"attended", "autonomous", "away"}
    /\ {MaxTexts, MaxNotes, MaxMoves, MaxLostReplies, MaxInboxKills} \subseteq Nat

VARIABLES
    opMode, toldMode,     \* operator_mode; the mode the last banner told the fleet
    live, armed, member,   \* sessions not ended; listeners holding their lock; `members`
    notes,                 \* tg_message_map: messages of the group, by id, with their session
    place,                 \* tg_topics: the topic of each room, 0 for none
    typed,                 \* what the operator typed
    confirmed, nextUpdate, fetched,   \* as getUpdates sees it; the offset; the list at hand
    posted,                \* the messages posted as the operator, with who heard them
    shown,                 \* replies that reached the phone
    unannounced,           \* history: the mode was changed without the banner
    moves, lostReplies, inboxKills

fleetSide == <<live, armed, member, notes, moves>>
loopSide  == <<confirmed, nextUpdate, fetched>>
inboxVars == <<opMode, toldMode, fleetSide, place, typed, loopSide, posted, shown,
               unannounced, lostReplies, inboxKills>>

AnyRoom == InboxRooms \cup {"lobby"}

\* What the parser makes of a text: a slash command, or a keyboard label that stands for
\* one, is "mode", "say", "adopt" or "view" (the commands that only answer); "at" is
\* `@session text`; anything else is chat.
Texts == [do : {"mode", "say", "adopt", "view", "at", "chat"},
          arg : InboxModes \cup Fleet \cup AnyRoom \cup {"-", "suffix"},
          in : Places \cup {0}, quote : Nat]

Posts == [text : Nat, room : AnyRoom, to : Fleet \cup {"@all"}, ambient : BOOLEAN,
          heard : SUBSET Fleet]

InboxTypeOK ==
    /\ opMode \in InboxModes /\ toldMode \in InboxModes /\ unannounced \in BOOLEAN
    /\ live \subseteq Fleet /\ armed \subseteq Fleet
    /\ member \in [AnyRoom -> SUBSET Fleet]
    /\ notes \in Seq(Fleet) /\ place \in [AnyRoom -> Places \cup {0}]
    /\ typed \in Seq(Texts) /\ posted \in Seq(Posts)
    /\ confirmed \in 0..Len(typed) /\ nextUpdate \in 0..Len(typed)
    /\ fetched \in Seq(DOMAIN typed)
    /\ shown \subseteq (DOMAIN typed) \X {"done", "unknown", "unheard"}

InboxInit ==
    /\ opMode \in InboxModes /\ toldMode = opMode /\ unannounced = FALSE
    /\ live = Fleet /\ armed = Fleet
    /\ member = [r \in AnyRoom |-> IF r = "lobby" THEN Fleet ELSE {}]
    /\ notes = <<>> /\ place \in [AnyRoom -> Places \cup {0}] /\ place["lobby"] = 0
    /\ \A q, r \in InboxRooms : place[q] = place[r] => q = r \/ place[q] = 0
    /\ typed = <<>> /\ confirmed = 0 /\ nextUpdate = 0 /\ fetched = <<>>
    /\ posted = <<>> /\ shown = {} /\ moves = 0 /\ lostReplies = 0 /\ inboxKills = 0

-----------------------------------------------------------------------------
(* The fleet, the operator at the keyboard, and the operator's phone. *)

\* A session starts again, arms or loses its listener, joins a room, or ends: an end
\* takes its memberships, `retire` of the dashboard leaves them.
Move(s) ==
    /\ moves < MaxMoves /\ moves' = moves + 1
    /\ \/ live' = live \cup {s} /\ UNCHANGED <<armed, member>>
       \/ s \in live /\ armed' \in {armed \cup {s}, armed \ {s}} /\ UNCHANGED <<live, member>>
       \/ /\ s \in live
          /\ \E r \in InboxRooms : member' = [member EXCEPT ![r] = @ \cup {s}]
          /\ UNCHANGED <<live, armed>>
       \/ /\ live' = live \ {s} /\ armed' = armed \ {s}
          /\ member' \in {member, [r \in AnyRoom |-> member[r] \ {s}]}
    /\ UNCHANGED <<opMode, toldMode, notes, place, typed, loopSide, posted, shown,
                   unannounced, lostReplies, inboxKills>>

\* A message of a session reaches the group and is recorded as its.
Note(s) ==
    /\ s \in live /\ Len(notes) < MaxNotes /\ notes' = Append(notes, s)
    /\ UNCHANGED <<opMode, toldMode, live, armed, member, moves, place, typed, loopSide,
                   posted, shown, unannounced, lostReplies, inboxKills>>

TypeText(t) ==
    /\ Len(typed) < MaxTexts /\ typed' = Append(typed, t)
    /\ UNCHANGED <<opMode, toldMode, fleetSide, place, loopSide, posted, shown,
                   unannounced, lostReplies, inboxKills>>

Text(do, arg, in, quote) == [do |-> do, arg |-> arg, in |-> in, quote |-> quote]

\* A mode, a text for a handle or for a suffix handles share, an adoption, a question,
\* chatter: with the topic it is typed in, and the note it replies to, where they matter.
Typable ==
    LET who == Fleet \cup {"suffix"}
        somewhere == Places \cup {0}
        quotable == 0..Len(notes)
    IN  {Text("mode", m, 0, 0) : m \in InboxModes} \cup {Text("view", "-", 0, 0)}
          \cup {Text("say", s, 0, 0) : s \in who}
          \cup {Text("adopt", r, p, 0) : r \in InboxRooms, p \in somewhere}
          \cup {Text("at", s, 0, n) : s \in Fleet, n \in quotable}
          \cup {Text("chat", "-", p, 0) : p \in somewhere}
          \cup {Text("chat", "-", 0, n) : n \in quotable}

-----------------------------------------------------------------------------
(* Posting as the operator, the mode, replies. *)

Hears(r, to) == {s \in live \cap armed \cap member[r] : to \in {"@all", s}}

post_as_operator(u, r, to) ==
    posted' = Append(posted, [text |-> u, room |-> r, to |-> to, ambient |-> FALSE,
                              heard |-> Hears(r, to)])

Banner(u, m) ==
    /\ posted' = Append(posted, [text |-> u, room |-> "lobby", to |-> "@all", ambient |-> TRUE,
                                 heard |-> Hears("lobby", "@all")])
    /\ toldMode' = m /\ unannounced' = FALSE

\* set_mode says whether the mode changed, and only a change is told.
set_mode(u, m) ==
    /\ opMode' = m
    /\ IF m # opMode THEN Banner(u, m) ELSE UNCHANGED <<posted, toldMode, unannounced>>

\* `paos operator mode` goes through the daemon; the dashboard writes the table alone.
ModeAtKeyboard(m) ==
    /\ m # opMode /\ moves < MaxMoves /\ moves' = moves + 1 /\ set_mode(0, m)
    /\ UNCHANGED <<live, armed, member, notes, place, typed, loopSide, shown, lostReplies,
                   inboxKills>>

ModeAtDashboard(m) ==
    /\ m # opMode /\ moves < MaxMoves /\ moves' = moves + 1
    /\ opMode' = m /\ unannounced' = TRUE
    /\ UNCHANGED <<toldMode, live, armed, member, notes, place, typed, loopSide, posted,
                   shown, lostReplies, inboxKills>>

\* A reply is sent once, and nobody looks at whether it got there.
reply(u, what) ==
    \/ shown' = shown \cup {<<u, what>>} /\ UNCHANGED lostReplies
    \/ lostReplies < MaxLostReplies /\ lostReplies' = lostReplies + 1 /\ UNCHANGED shown

NoReply == UNCHANGED <<shown, lostReplies>>
NoPost  == UNCHANGED <<posted, opMode, toldMode, unannounced>>

\* An exact handle, or the one live handle the suffix fits.
resolve_session(token) ==
    IF token \in live THEN {token}
    ELSE IF token = "suffix" /\ Cardinality(live) = 1 THEN live ELSE {}

\* Any room whose topic it is: adopting can give two rooms one topic.
room_for_thread(p) ==
    LET rooms == {r \in AnyRoom : p # 0 /\ place[r] = p} IN
    IF rooms = {} THEN {"lobby"} ELSE rooms

-----------------------------------------------------------------------------
(* handle_message, one action for each of its ways through. *)

\* getUpdates confirms what is below the offset it asks from, and returns the rest.
Fetch ==
    /\ fetched = <<>>
    /\ confirmed' = Max({nextUpdate, confirmed})
    /\ confirmed' < Len(typed)
    /\ fetched' = [k \in 1..(Len(typed) - confirmed') |-> confirmed' + k]
    /\ nextUpdate' = Len(typed)
    /\ UNCHANGED <<opMode, toldMode, fleetSide, place, typed, posted, shown, unannounced,
                   lostReplies, inboxKills>>

Handling(u, kinds) ==
    /\ fetched # <<>> /\ u = Head(fetched) /\ typed[u].do \in kinds
    /\ fetched' = Tail(fetched)
    /\ UNCHANGED <<fleetSide, typed, confirmed, nextUpdate, inboxKills>>

\* Commands typed as replies are commands, and so are labels.
is_command(u) == typed[u].do \in {"mode", "say", "adopt", "view"}
Relayed(u) == typed[u].quote # 0 /\ ~is_command(u)

\* A quote-reply goes to whoever wrote the quoted message, by name.
HandleQuoted(u) ==
    /\ Handling(u, {"at", "chat"}) /\ Relayed(u)
    /\ post_as_operator(u, "lobby", notes[typed[u].quote])
    /\ NoReply /\ UNCHANGED <<place, opMode, toldMode, unannounced>>

\* A command, a label, or a tap on the panel.
HandleMode(u) ==
    /\ Handling(u, {"mode"}) /\ set_mode(u, typed[u].arg) /\ reply(u, "done")
    /\ UNCHANGED place

\* `/say` answers when it is sent, `@session` only when it is not.
HandleDirected(u) ==
    /\ Handling(u, {"say", "at"}) /\ ~Relayed(u)
    /\ LET to == resolve_session(typed[u].arg) IN
         IF to = {} THEN reply(u, "unknown") /\ UNCHANGED posted
         ELSE /\ \E s \in to : post_as_operator(u, "lobby", s)
              /\ IF typed[u].do = "say" THEN reply(u, "done") ELSE NoReply
    /\ UNCHANGED <<place, opMode, toldMode, unannounced>>

\* Only inside a topic.
HandleAdopt(u) ==
    /\ Handling(u, {"adopt"})
    /\ place' = IF typed[u].in = 0 THEN place ELSE [place EXCEPT ![typed[u].arg] = typed[u].in]
    /\ reply(u, IF typed[u].in = 0 THEN "unknown" ELSE "done") /\ NoPost

HandleView(u) == Handling(u, {"view"}) /\ reply(u, "done") /\ NoPost /\ UNCHANGED place

\* Mutant: every row of `members` counts as a reader.
Listening_rows(r) == member[r]

\* Members that have not ended and whose lock is held.
Listening(r) == live \cap armed \cap member[r]

\* To everyone in the room of the topic; with nobody listening the operator is told.
HandleChat(u) ==
    /\ Handling(u, {"chat"}) /\ ~Relayed(u)
    /\ \E r \in room_for_thread(typed[u].in) :
         /\ post_as_operator(u, r, "@all")
         /\ IF Listening(r) = {} THEN reply(u, "unheard") ELSE NoReply
    /\ UNCHANGED <<place, opMode, toldMode, unannounced>>

-----------------------------------------------------------------------------
(* Kills. *)

Forgets ==
    /\ inboxKills < MaxInboxKills /\ inboxKills' = inboxKills + 1
    /\ nextUpdate' = 0 /\ fetched' = <<>>

KillInbox ==
    /\ Forgets
    /\ UNCHANGED <<opMode, toldMode, fleetSide, place, typed, confirmed, posted, shown,
                   unannounced, lostReplies>>

\* Between the mode and its banner.
KillBeforeBanner(u) ==
    /\ fetched # <<>> /\ u = Head(fetched) /\ typed[u].do = "mode" /\ typed[u].arg # opMode
    /\ Forgets /\ opMode' = typed[u].arg /\ unannounced' = TRUE
    /\ UNCHANGED <<toldMode, fleetSide, place, typed, confirmed, posted, shown, lostReplies>>

\* Between the post and the warning that nobody heard it.
KillBeforeWarning(u) ==
    /\ fetched # <<>> /\ u = Head(fetched) /\ typed[u].do = "chat" /\ ~Relayed(u)
    /\ Forgets
    /\ \E r \in room_for_thread(typed[u].in) : post_as_operator(u, r, "@all")
    /\ UNCHANGED <<opMode, toldMode, fleetSide, place, typed, confirmed, shown, unannounced,
                   lostReplies>>

Handle_(u) ==
    \/ HandleQuoted(u) \/ HandleMode(u) \/ HandleDirected(u) \/ HandleAdopt(u)
    \/ HandleView(u) \/ HandleChat(u)

InboxNext ==
    \/ \E s \in Fleet : Move(s) \/ Note(s)
    \/ \E t \in Typable : TypeText(t)
    \/ \E m \in InboxModes : ModeAtKeyboard(m) \/ ModeAtDashboard(m)
    \/ Fetch \/ KillInbox
    \/ \E u \in DOMAIN typed : Handle_(u) \/ KillBeforeBanner(u) \/ KillBeforeWarning(u)

InboxSpec == InboxInit /\ [][InboxNext]_inboxVars

-----------------------------------------------------------------------------
(* Properties. *)

\* handlers.rs: the mode is broadcast "on a REAL change", so the fleet always knows the
\* operator's mode, except after a kill between the two or a change on the dashboard.
FleetKnowsMode == toldMode = opMode \/ unannounced

PostsOf(u) == {i \in DOMAIN posted : posted[i].text = u}

\* What was typed for a room or in reply to a session reaches the bus in the order it was
\* typed, whatever is handed out again; and nothing is posted again but after a kill.
TypedInOrder ==
    LET said == {u \in DOMAIN typed : typed[u].do = "chat" /\ PostsOf(u) # {}} IN
    /\ \A u \in DOMAIN typed : Cardinality(PostsOf(u)) <= 1 + inboxKills
    /\ \A u, v \in said : u < v => Min(PostsOf(u)) < Min(PostsOf(v))

\* A text for a room that nobody heard does not look delivered: the operator is told,
\* or the reply was lost, or the daemon killed before it.
HeardOrTold ==
    Cardinality({u \in DOMAIN typed :
                   /\ typed[u].do = "chat" /\ ~Relayed(u)
                   /\ \E i \in PostsOf(u) : posted[i].heard = {}
                   /\ <<u, "unheard">> \notin shown})
        <= lostReplies + inboxKills

\* Nothing typed is swallowed: once Telegram will not hand it out again, a text was
\* posted or answered, or its answer was lost.
NothingSwallowed ==
    Cardinality({u \in 1..confirmed : PostsOf(u) = {} /\ \A w \in shown : w[1] # u}) <= lostReplies

\* bridge.rs: "a session gets steered".  (Not so for a session that has ended: the reply
\* is posted under its name and nobody is told.)
SteeredIsLive ==
    \A u \in DOMAIN typed : Relayed(u) => \A i \in PostsOf(u) : posted[i].heard # {}

\* The state is well formed, and what the operator typed is neither lost, misordered,
\* silently unheard nor, when it is a mode, unknown to the fleet.
InboxSafety ==
    InboxTypeOK /\ FleetKnowsMode /\ TypedInOrder /\ HeardOrTold /\ NothingSwallowed
=============================================================================
