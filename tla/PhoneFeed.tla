------------------------------- MODULE PhoneFeed -------------------------------
(***************************************************************************)
(* What reaches the operator's phone unasked: the outbox of `paos operator *)
(* say`, then the mirror of bus messages addressed to the operator, one    *)
(* pass of the outbound loop after another while the channel is open.      *)
(* Messages are rate limited; a send may fail, may arrive without saying   *)
(* so, and some messages Telegram never accepts.  The mirror's cursor is   *)
(* saved at the end of a pass.                                             *)
(***************************************************************************)
EXTENDS Naturals, Integers, Sequences, FiniteSetsExt

CONSTANTS
    Rate,            \* messages a minute, and the bucket's size (15)
    Batch,           \* MIRROR_BATCH (15)
    SayLimit,        \* rows of the outbox a pass takes (10)
    MaxSendAttempts, \* MAX_SEND_ATTEMPTS (5)
    MaxBus, MaxOutbox, MaxFeedFaults, MaxFeedKills   \* bounds of the instance

ASSUME FeedConstants ==
    /\ {Rate, Batch, SayLimit, MaxSendAttempts} \subseteq Nat \ {0}
    /\ {MaxBus, MaxOutbox, MaxFeedFaults, MaxFeedKills} \subseteq Nat

VARIABLES
    open,              \* may_push
    bus,               \* messages by id: what the mirror makes of each
    outbox,            \* operator_outbox by id
    cursor, first,     \* tg_mirror_last_msg_id; where the mirror was started
    phone, steer,      \* the group by message id; the ids tg_message_map knows
    pass, feedRows, upto,  \* the outbound loop: stage, ids at hand (ascending), sent_upto
    tokens, stuck,     \* the limiter: bucket, and <<stuck_id, stuck_n>>
    dropped,           \* messages given up on
    feedFaults, feedKills

memory   == <<pass, feedRows, upto, tokens, stuck>>
feedVars == <<open, bus, outbox, cursor, first, phone, steer, memory, dropped,
              feedFaults, feedKills>>

\* own: from the operator.  peer: not addressed to the operator.
Kinds == {"own", "peer", "addressed", "unacceptable"}
ForOperator(i) == bus[i] \in {"addressed", "unacceptable"}

FeedTypeOK ==
    /\ open \in BOOLEAN /\ bus \in Seq(Kinds)
    /\ outbox \in Seq([ok : BOOLEAN, sent : BOOLEAN])
    /\ cursor \in -1..Len(bus) /\ first \in -1..cursor /\ upto \in -1..Len(bus)
    /\ phone \in Seq(({"bus"} \X DOMAIN bus) \cup ({"say"} \X DOMAIN outbox))
    /\ steer \subseteq DOMAIN phone /\ pass \in {"rest", "say", "mirror"}
    /\ feedRows \subseteq DOMAIN (IF pass = "mirror" THEN bus ELSE outbox)
    /\ tokens \in 0..Rate
    /\ stuck \in (0..Len(bus)) \X (0..MaxSendAttempts)
    /\ dropped \subseteq DOMAIN bus
    /\ feedFaults \in 0..MaxFeedFaults /\ feedKills \in 0..MaxFeedKills

FeedInit ==
    /\ open = FALSE /\ bus = <<>> /\ outbox = <<>> /\ cursor = -1 /\ first = -1
    /\ phone = <<>> /\ steer = {} /\ pass = "rest" /\ feedRows = {} /\ upto = -1
    /\ tokens = Rate /\ stuck = <<0, 0>> /\ dropped = {} /\ feedFaults = 0 /\ feedKills = 0

-----------------------------------------------------------------------------
(* Sessions, the operator's mode, time. *)

Post(kind) ==
    /\ Len(bus) < MaxBus /\ bus' = Append(bus, kind)
    /\ UNCHANGED <<open, outbox, cursor, first, phone, steer, memory, dropped,
                   feedFaults, feedKills>>

enqueue_say(ok) ==
    /\ Len(outbox) < MaxOutbox /\ outbox' = Append(outbox, [ok |-> ok, sent |-> FALSE])
    /\ UNCHANGED <<open, bus, cursor, first, phone, steer, memory, dropped,
                   feedFaults, feedKills>>

Gate ==
    /\ open' = ~open
    /\ UNCHANGED <<bus, outbox, cursor, first, phone, steer, memory, dropped,
                   feedFaults, feedKills>>

\* allowance, as time passes.
Refill ==
    /\ tokens < Rate /\ tokens' = tokens + 1
    /\ UNCHANGED <<open, bus, outbox, cursor, first, phone, steer, pass, feedRows, upto,
                   stuck, dropped, feedFaults, feedKills>>

-----------------------------------------------------------------------------
(* A send. *)

Arrives(what) == phone' = Append(phone, what)

\* An acceptable message fails now and then, and may have arrived all the same.
Fails(what, ok) ==
    IF ok
    THEN /\ feedFaults < MaxFeedFaults /\ feedFaults' = feedFaults + 1
         /\ phone' \in {phone, Append(phone, what)}
    ELSE UNCHANGED <<phone, feedFaults>>

\* The row a pass is at, and those after it.
Row  == Min(feedRows)
RowsAfter == feedRows \ {Row}

-----------------------------------------------------------------------------
(* drain_outbox. *)

Unsent        == {i \in DOMAIN outbox : ~outbox[i].sent}
unsent_outbox == {i \in Unsent : Cardinality({j \in Unsent : j < i}) < SayLimit}

StartPass ==
    /\ pass = "rest" /\ open
    /\ pass' = "say" /\ feedRows' = unsent_outbox
    /\ UNCHANGED <<open, bus, outbox, cursor, first, phone, steer, upto, tokens, stuck,
                   dropped, feedFaults, feedKills>>

SayOne ==
    /\ pass = "say" /\ feedRows # {} /\ outbox[Row].ok
    /\ Arrives(<<"say", Row>>)
    /\ outbox' = [outbox EXCEPT ![Row].sent = TRUE]
    /\ steer' = steer \cup {Len(phone')}
    /\ feedRows' = RowsAfter
    /\ UNCHANGED <<open, bus, cursor, first, pass, upto, tokens, stuck, dropped,
                   feedFaults, feedKills>>

\* The first failure ends the draining: retry next pass rather than dropping.
SayFails ==
    /\ pass = "say" /\ feedRows # {}
    /\ Fails(<<"say", Row>>, outbox[Row].ok)
    /\ feedRows' = {}
    /\ UNCHANGED <<open, bus, outbox, cursor, first, steer, pass, upto, tokens, stuck,
                   dropped, feedKills>>

-----------------------------------------------------------------------------
(* mirror. *)

\* The cursor is read with the rows; on the very first run it is set past everything.
StartMirror ==
    /\ pass = "say" /\ feedRows = {}
    /\ LET allowance == Min({tokens, Batch})
           last == Min({Len(bus), cursor + allowance}) IN
         CASE allowance = 0 -> pass' = "rest" /\ UNCHANGED <<cursor, first, feedRows, upto, tokens>>
           [] allowance > 0 /\ cursor = -1 ->
                /\ cursor' = Len(bus) /\ first' = Len(bus) /\ pass' = "rest"
                /\ UNCHANGED <<feedRows, upto, tokens>>
           [] OTHER ->
                /\ feedRows' = (cursor + 1)..last /\ tokens' = tokens - (last - cursor)
                /\ upto' = cursor /\ pass' = "mirror" /\ UNCHANGED <<cursor, first>>
    /\ UNCHANGED <<open, bus, outbox, phone, steer, stuck, dropped, feedFaults, feedKills>>

MirrorPasses ==
    /\ pass = "mirror" /\ feedRows # {} /\ ~ForOperator(Row)
    /\ upto' = Row /\ feedRows' = RowsAfter
    /\ UNCHANGED <<open, bus, outbox, cursor, first, phone, steer, pass, tokens, stuck,
                   dropped, feedFaults, feedKills>>

\* Mutant: what was sent is not recorded, so that a reply to it finds nobody.
MirrorUnrecorded ==
    /\ pass = "mirror" /\ feedRows # {} /\ bus[Row] = "addressed"
    /\ Arrives(<<"bus", Row>>)
    /\ upto' = Row /\ feedRows' = RowsAfter
    /\ UNCHANGED <<open, bus, outbox, cursor, first, steer, pass, tokens, stuck, dropped,
                   feedFaults, feedKills>>

MirrorOne ==
    /\ pass = "mirror" /\ feedRows # {} /\ bus[Row] = "addressed"
    /\ Arrives(<<"bus", Row>>)
    /\ steer' = steer \cup {Len(phone')}
    /\ upto' = Row /\ feedRows' = RowsAfter
    /\ UNCHANGED <<open, bus, outbox, cursor, first, pass, tokens, stuck, dropped,
                   feedFaults, feedKills>>

Attempts(i) == IF stuck[1] = i THEN stuck[2] + 1 ELSE 1

\* Mutant: attempts are not counted.
MirrorFailsUncounted ==
    /\ pass = "mirror" /\ feedRows # {} /\ ForOperator(Row)
    /\ Fails(<<"bus", Row>>, bus[Row] = "addressed")
    /\ feedRows' = {}
    /\ UNCHANGED <<open, bus, outbox, cursor, first, steer, pass, upto, tokens, stuck,
                   dropped, feedKills>>

\* Held back and retried, until it has failed once too often.
MirrorFails ==
    /\ pass = "mirror" /\ feedRows # {} /\ ForOperator(Row)
    /\ LET i == Row IN
         /\ Fails(<<"bus", i>>, bus[i] = "addressed")
         /\ IF Attempts(i) > MaxSendAttempts
            THEN /\ stuck' = <<0, 0>> /\ dropped' = dropped \cup {i}
                 /\ upto' = i /\ feedRows' = RowsAfter
            ELSE /\ stuck' = <<i, Attempts(i)>> /\ feedRows' = {}
                 /\ UNCHANGED <<dropped, upto>>
    /\ UNCHANGED <<open, bus, outbox, cursor, first, steer, pass, tokens, feedKills>>

SaveCursor ==
    /\ pass = "mirror" /\ feedRows = {}
    /\ cursor' = upto /\ pass' = "rest"
    /\ UNCHANGED <<open, bus, outbox, first, phone, steer, feedRows, upto, tokens, stuck,
                   dropped, feedFaults, feedKills>>

\* A kill forgets the limiter and the list; what was being sent may have arrived.
FeedKill ==
    /\ feedKills < MaxFeedKills /\ feedKills' = feedKills + 1
    /\ \/ UNCHANGED phone
       \/ feedRows # {} /\ pass = "say"    /\ outbox[Row].ok /\ Arrives(<<"say", Row>>)
       \/ feedRows # {} /\ pass = "mirror" /\ bus[Row] = "addressed" /\ Arrives(<<"bus", Row>>)
    /\ pass' = "rest" /\ feedRows' = {} /\ upto' = -1 /\ tokens' = Rate /\ stuck' = <<0, 0>>
    /\ UNCHANGED <<open, bus, outbox, cursor, first, steer, dropped, feedFaults>>

FeedLoop ==
    StartPass \/ SayOne \/ SayFails \/ StartMirror \/ MirrorPasses \/ MirrorOne
    \/ MirrorFails \/ SaveCursor

FeedNext ==
    \/ \E k \in Kinds : Post(k)
    \/ \E ok \in BOOLEAN : enqueue_say(ok)
    \/ Gate \/ Refill \/ FeedLoop \/ FeedKill

FeedSpec == FeedInit /\ [][FeedNext]_feedVars

\* The loop is a thread of a running daemon, and time passes.
FeedFairness == WF_feedVars(FeedLoop) /\ WF_feedVars(Refill)

-----------------------------------------------------------------------------
(* Properties. *)

\* What the cursor has passed, the operator has on the phone, where a reply finds
\* its author, or the daemon gave it up; never was it marked delivered and lost.
MirrorCovers ==
    \A i \in DOMAIN bus : first < i /\ i <= cursor /\ ForOperator(i) =>
        i \in dropped \/ \E m \in steer : phone[m] = <<"bus", i>>

Times(what) == Cardinality({m \in DOMAIN phone : phone[m] = what})

\* Every repetition on the phone is owed to a failed call or a kill: a healthy
\* daemon sends nothing twice.
RepetitionNeedsFault ==
    \A i \in DOMAIN bus : Times(<<"bus", i>>) <= 1 + feedFaults + feedKills

\* Mirrored messages arrive in the order they were posted, through failures and kills:
\* when one arrives, those posted before it arrived earlier or were given up.  (One
\* given up and sent again after a kill does come after what followed it.)
NoOvertaking ==
    \A m \in DOMAIN phone, i, j \in DOMAIN bus :
        phone[m] = <<"bus", j>> /\ first < i /\ i < j /\ ForOperator(i) =>
            i \in dropped \/ \E n \in 1..(m - 1) : phone[n] = <<"bus", i>>

\* Whatever Telegram refuses, a message to the operator arrives or is given up
\* while the channel stays open.
MirrorMovesOn ==
    \A i \in 1..MaxBus :
        (i \in DOMAIN bus /\ ForOperator(i) /\ cursor # -1)
            ~> (~open \/ i <= Max({cursor, first}))

\* bridge.rs, of the cap the mirror has: without it "a single message Telegram will
\* never accept blocks ALL delivery forever".
SaysMoveOn ==
    \A i \in 1..MaxOutbox :
        (i \in DOMAIN outbox /\ outbox[i].ok) ~> (~open \/ outbox[i].sent)

\* The state is well formed, and the feed neither loses, repeats nor reorders.
FeedSafety == FeedTypeOK /\ MirrorCovers /\ RepetitionNeedsFault /\ NoOvertaking
=============================================================================
