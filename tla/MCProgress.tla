----------------------------- MODULE MCProgress -----------------------------
(* What must eventually happen: the spool's drain, and on instances smaller    *)
(* than those of MCFleet the components of the daemon that owe progress.  They *)
(* share no state: `part` says which of them runs; the rest stay as they start.*)
EXTENDS Spool, Escalations, PhoneFeed, Topics, OperatorChat, Supervision,
        AccountPicker, StartUp, TLC

CONSTANTS c1, c2, c3, ana, bob, alley, barn

MCCalls     == {c1, c2, c3}
MCMalformed == {c3}
One      == {ana}
Two      == {ana, bob}
TwoRooms == {alley, barn}

\* The built-in thresholds, and a config.json that lowers some of them.
BuiltIn   == [switch_at |-> 2, weekly_switch_at |-> 2, target_max |-> 1, cooldown |-> 1]
Lowered   == [switch_at |-> 1, weekly_switch_at |-> 1, target_max |-> 0, cooldown |-> 0]
TwoConfigs == {BuiltIn, Lowered}

VARIABLE part
progressVars ==
    <<part, vars, escVars, feedVars, topicVars, chatVars, supVars, pickerVars, startVars>>

ProgressInit ==
    /\ part \in {"spool", "questions", "feed", "topics", "chat", "watch", "picker", "startup"}
    /\ Init /\ EscInit /\ FeedInit /\ TopicInit /\ ChatInit /\ SupInit /\ PickerInit /\ StartInit
    /\ part # "watch" => claimed = {}                  \* one start for the parts at rest
    /\ part # "picker" => active = 1 /\ config = Default

Runs(p, Step, partVars) == IF part = p THEN Step ELSE UNCHANGED partVars

ProgressNext ==
    /\ UNCHANGED part
    /\ Runs("spool", Next, vars)
    /\ Runs("questions", EscNext, escVars)
    /\ Runs("feed", FeedNext, feedVars)
    /\ Runs("topics", TopicNext, topicVars)
    /\ Runs("chat", ChatNext, chatVars)
    /\ Runs("watch", SupNext, supVars)
    /\ Runs("picker", PickerNext, pickerVars)
    /\ Runs("startup", StartNext, startVars)

\* The fairness of the parts, taken together: only the one that runs has these steps.
Running ==
    CASE part = "spool" -> vars        [] part = "questions" -> escVars
      [] part = "feed" -> feedVars     [] part = "topics" -> topicVars
      [] part = "chat" -> chatVars     [] part = "watch" -> supVars
      [] part = "picker" -> pickerVars [] part = "startup" -> startVars

Loop ==
    /\ UNCHANGED part
    /\ \/ part = "spool" /\ Drain
       \/ part = "questions" /\ outbound_loop
       \/ part = "feed" /\ FeedLoop
       \/ part = "topics" /\ Reconciliation
       \/ part = "chat" /\ (Look(ana) \/ Take(ana))
       \/ part = "watch" /\ SupLoop
       \/ part = "picker" /\ PollSwitch
       \/ part = "startup" /\ RunDaemon("p")

OtherLoop ==
    /\ UNCHANGED part
    /\ \/ part = "questions" /\ inbound_loop
       \/ part = "feed" /\ Refill
       \/ part = "chat" /\ (Look(bob) \/ Take(bob))
       \/ part = "watch" /\ Tick
       \/ part = "picker" /\ Elapse
       \/ part = "startup" /\ RunDaemon("q")

ProgressSpec ==
    /\ ProgressInit /\ [][ProgressNext]_progressVars
    /\ WF_Running(Loop) /\ WF_Running(OtherLoop)
=============================================================================
