------------------------------- MODULE MCFleet -------------------------------
(* The daemon's components that share no state with the bus and the board, one *)
(* at a time: `part` says which of them runs, and the rest stay as they start.  *)
EXTENDS Presence, Escalations, PhoneFeed, PhoneInbox, Topics,
        Supervision, Accounts, AccountPicker, MemoryCuration, Nightly, StartUp,
        SessionDigest, TLC

CONSTANTS a, b, h1, h2, ana, alley, barn

TwoSids    == {a, b}
TwoHandles == {h1, h2}
One        == {ana}
OneRoom    == {alley}
TwoRooms   == {alley, barn}

\* The built-in thresholds, and a config.json that lowers some of them.
BuiltIn   == [switch_at |-> 2, weekly_switch_at |-> 2, target_max |-> 1, cooldown |-> 1]
Lowered   == [switch_at |-> 1, weekly_switch_at |-> 1, target_max |-> 1, cooldown |-> 0]
TwoConfigs == {BuiltIn, Lowered}

VARIABLE part
fleetVars == <<part, vars, escVars, feedVars, inboxVars, topicVars, supVars,
               accountVars, pickerVars, curationVars, nightVars, startVars,
               digestVars>>

\* The first ordering names the facts; queries may agree on the scores of two of them.
FewScores ==
    /\ ranking \in {r \in [Tiers -> SetToSeqs(Known)] : r[Prefs] = <<1, 2, 3>>}
    /\ alike \in {{}, {1, 3}}
OneStart  == ranking = [t \in Tiers |-> <<1, 2, 3>>] /\ alike = {} /\ sizeOf = [f \in Known |-> 2]

FleetInit ==
    /\ part \in {"presence", "questions", "feed", "inbox", "topics", "watch",
                 "accounts", "picker", "curation", "nightly", "startup", "digest"}
    /\ IF part = "digest" THEN FewScores ELSE OneStart
    /\ Init /\ EscInit /\ FeedInit /\ InboxInit /\ TopicInit /\ SupInit /\ AccountInit
    /\ PickerInit /\ CurationInit /\ NightlyInit /\ StartInit /\ DigestInit
    /\ part # "watch" => claimed = {}                  \* one start for the parts at rest
    /\ signedIn = "x" /\ opMode = "attended"           \* slots are interchangeable
    /\ part # "inbox" => place = [r \in AnyRoom |-> 0]
    /\ part # "picker" => active = 1 /\ config = Default

\* The larger parts meet only so many of their hazards in one behaviour.
Runs(p, Step, partVars) == IF part = p THEN Step ELSE UNCHANGED partVars

FleetNext ==
    /\ UNCHANGED part
    /\ Runs("presence", Next /\ nfiles' + crashes' <= 2, vars)
    /\ Runs("questions", EscNext /\ faults' + kills' <= 1, escVars)
    /\ Runs("feed", FeedNext /\ feedFaults' + feedKills' <= 1, feedVars)
    /\ Runs("inbox", InboxNext /\ moves' + lostReplies' + inboxKills' <= 1, inboxVars)
    /\ Runs("topics", TopicNext /\ adoptions' + callFaults' + topicKills' <= 1, topicVars)
    /\ Runs("watch", SupNext /\ supKills' + episode'[ana] + outages' <= 2, supVars)
    /\ Runs("accounts", AccountNext /\ (selfAsked' => Mishaps' = 0), accountVars)
    /\ Runs("picker", PickerNext /\ (five' = five \/ seven' = seven), pickerVars)
    /\ Runs("curation", CurationNext /\ queued' + setbacks' + writes' <= 2, curationVars)
    /\ Runs("nightly", NightlyNext /\ nightKills' + nightFailures' <= 1, nightVars)
    /\ Runs("startup", StartNext, startVars)
    /\ Runs("digest", DigestNext, digestVars)

\* Session ids and handles are interchangeable.
Symmetry == Permutations(TwoSids) \cup Permutations(TwoHandles)

FleetSpec == FleetInit /\ [][FleetNext]_fleetVars
=============================================================================
