-------------------------------- MODULE Accounts --------------------------------
(***************************************************************************)
(* Claude accounts.  Each has a refresh token that its server replaces     *)
(* every time it is used; a copy of an older one is worthless.  The        *)
(* keychain holds the live credential and one per slot, ~/.claude.json the *)
(* identity signed in.  Claude Code rotates the live token as it likes; a  *)
(* poll refreshes the slots that are not live and may end in a switch; a   *)
(* person switches or captures from the keyboard or the phone.  Nothing    *)
(* locks; any write may fail and any process may be killed.                *)
(***************************************************************************)
EXTENDS Naturals, FiniteSets

CONSTANTS
    Slots,       \* captured accounts, a slot each
    Procs,       \* "poller", "person"
    MaxGen, MaxMishaps   \* bounds of the instance

ASSUME AccountConstants ==
    /\ Procs \subseteq {"poller", "person"}
    /\ {MaxGen, MaxMishaps} \subseteq Nat

VARIABLES
    server,                 \* the token generation each account's server accepts
    liveCred, signedIn,     \* the live keychain item; the identity in ~/.claude.json
    stash,                  \* the slots' keychain items
    doing,                  \* per process: step, slot, and the credential in hand
    poll,                   \* the poll in progress: active slot, slots to do, refresh_backoff
    barred,                 \* refresh_backoff in state.json
    limited, hammered,      \* slots told 429 and still in its window; one tried again in it
    failures, deaths_, overlaps,  \* writes and calls that failed, kills, races
    selfAsked               \* history: a person has asked for the account that was live

keychain == <<liveCred, stash>>
backoff  == <<barred, limited, hammered>>
mishaps  == <<failures, deaths_, overlaps>>
accountVars == <<server, signedIn, keychain, doing, poll, backoff, mishaps, selfAsked>>

Creds == [acct : Slots, gen : 0..MaxGen]
Steps == {"poll", "ask", "keep", "refresh", "store", "restash", "live", "identity"}
Rest  == [step |-> "rest"]
NoPoll == [todo |-> {}, active |-> {}, barred |-> {}]

AccountTypeOK ==
    /\ server \in [Slots -> 0..MaxGen] /\ liveCred \in Creds /\ signedIn \in Slots
    /\ stash \in [Slots -> Creds]
    /\ doing \in [Procs -> [step : Steps, slot : Slots, cred : Creds] \cup {Rest}]
    /\ poll \in [todo : SUBSET Slots, active : SUBSET Slots, barred : SUBSET Slots]
    /\ {barred, limited} \subseteq SUBSET Slots
    /\ hammered \in BOOLEAN /\ selfAsked \in BOOLEAN /\ {failures, deaths_, overlaps} \subseteq Nat

AccountInit ==
    /\ server = [s \in Slots |-> 0]
    /\ signedIn \in Slots /\ liveCred = [acct |-> signedIn, gen |-> 0]
    /\ stash = [s \in Slots |-> [acct |-> s, gen |-> 0]]
    /\ doing = [p \in Procs |-> Rest] /\ poll = NoPoll
    /\ barred = {} /\ limited = {} /\ hammered = FALSE
    /\ failures = 0 /\ deaths_ = 0 /\ overlaps = 0 /\ selfAsked = FALSE

Mishaps == failures + deaths_ + overlaps
At(p, step) == p \in Procs /\ doing[p].step = step
Do(p, job) == doing' = [doing EXCEPT ![p] = job]
Go(p, step) == Do(p, [doing[p] EXCEPT !.step = step])
Stop(p) == Do(p, Rest)
Fail == Mishaps < MaxMishaps /\ failures' = failures + 1 /\ UNCHANGED <<deaths_, overlaps>>
Busy(Q) == \E q \in Q : doing[q] # Rest

\* A step taken while another process is under way.
Alongside(Q) ==
    /\ overlaps' = overlaps + IF Busy(Q) THEN 1 ELSE 0
    /\ Busy(Q) => Mishaps < MaxMishaps
    /\ UNCHANGED <<failures, deaths_>>

\* The token endpoint: a generation is good once.
Valid(c) == c.gen = server[c.acct] /\ c.gen < MaxGen
Rotates(c) == server' = [server EXCEPT ![c.acct] = @ + 1]
merge_refreshed(c) == [c EXCEPT !.gen = @ + 1]

\* A call that was answered, with the new credential in hand; and one that was not,
\* though the server may have rotated the token.
UsageAnswered(p, step) ==
    /\ Valid(doing[p].cred) /\ Rotates(doing[p].cred)
    /\ Do(p, [doing[p] EXCEPT !.step = step, !.cred = merge_refreshed(@)])
Unanswered(c) == Fail /\ (UNCHANGED server \/ (Valid(c) /\ Rotates(c)))

-----------------------------------------------------------------------------
(* Claude Code. *)

RotateLive ==
    /\ Valid(liveCred) /\ Rotates(liveCred) /\ liveCred' = merge_refreshed(liveCred)
    /\ Alongside({p \in Procs : doing[p].step \in {"restash", "live", "identity"}})
    /\ UNCHANGED <<signedIn, stash, doing, poll, backoff, selfAsked>>

-----------------------------------------------------------------------------
(* use_slot, for whoever calls it. *)

Begin(p, t) == Do(p, [step |-> "refresh", slot |-> t, cred |-> stash[t]])

\* Nothing keeps a person from naming the account that is live.
switch_now(t) ==
    /\ At("person", "rest") /\ Begin("person", t)
    /\ selfAsked' = (selfAsked \/ t = signedIn)
    /\ Alongside(Procs \ {"person"})
    /\ UNCHANGED <<server, signedIn, keychain, poll, backoff>>

\* A token that still has a minute is used as it is; a failed refresh abandons the switch.
refresh_for_switch(p) ==
    /\ At(p, "refresh")
    /\ \/ Go(p, "restash") /\ UNCHANGED <<server, mishaps>>
       \/ UsageAnswered(p, "store") /\ UNCHANGED mishaps
       \/ ~Valid(doing[p].cred) /\ Stop(p) /\ UNCHANGED <<server, mishaps>>
       \/ Unanswered(doing[p].cred) /\ Stop(p)
    /\ UNCHANGED <<signedIn, keychain, poll, backoff, selfAsked>>

StoreForSwitch(p) ==
    /\ At(p, "store")
    /\ \/ stash' = [stash EXCEPT ![doing[p].slot] = doing[p].cred]
          /\ Go(p, "restash") /\ UNCHANGED mishaps
       \/ Fail /\ Stop(p) /\ UNCHANGED stash
    /\ UNCHANGED <<server, signedIn, liveCred, poll, backoff, selfAsked>>

\* Mutant: the outgoing credential is simply overwritten.
restash_nothing(p) ==
    /\ At(p, "restash") /\ Go(p, "live")
    /\ UNCHANGED <<server, signedIn, keychain, poll, backoff, mishaps, selfAsked>>

\* Whose slot it is, is read from ~/.claude.json.  Its failures are swallowed.
restash_outgoing(p) ==
    /\ At(p, "restash") /\ Go(p, "live")
    /\ \/ stash' = (IF signedIn = doing[p].slot THEN stash
                    ELSE [stash EXCEPT ![signedIn] = liveCred])
          /\ UNCHANGED mishaps
       \/ signedIn # doing[p].slot /\ Fail /\ UNCHANGED stash
    /\ UNCHANGED <<server, signedIn, liveCred, poll, backoff, selfAsked>>

\* From here on the credential in hand is the outgoing one, to roll back to.
write_live(p) ==
    /\ At(p, "live")
    /\ \/ /\ liveCred' = doing[p].cred /\ UNCHANGED mishaps
          /\ Do(p, [doing[p] EXCEPT !.step = "identity", !.cred = liveCred])
       \/ Fail /\ Stop(p) /\ UNCHANGED liveCred
    /\ UNCHANGED <<server, signedIn, stash, poll, backoff, selfAsked>>

\* A failed identity write puts the credential back, if that write does not fail too.
write_claude_json(p) ==
    /\ At(p, "identity") /\ Stop(p)
    /\ \/ signedIn' = doing[p].slot /\ UNCHANGED <<liveCred, mishaps>>
       \/ Fail /\ liveCred' = doing[p].cred /\ UNCHANGED signedIn
       \/ /\ Mishaps + 2 <= MaxMishaps /\ failures' = failures + 2
          /\ UNCHANGED <<signedIn, liveCred, deaths_, overlaps>>
    /\ UNCHANGED <<server, stash, poll, backoff, selfAsked>>

\* capture_current, by the account's own name.
capture_current ==
    /\ At("person", "rest")
    /\ stash' = [stash EXCEPT ![signedIn] = liveCred]
    /\ Alongside(Procs \ {"person"})
    /\ UNCHANGED <<server, signedIn, liveCred, doing, poll, backoff, selfAsked>>

-----------------------------------------------------------------------------
(* run_poll. *)

Polling == [step |-> "poll", slot |-> signedIn, cred |-> liveCred]

StartPoll ==
    /\ At("poller", "rest") /\ Do("poller", Polling)
    /\ poll' = [todo |-> Slots, active |-> {signedIn}, barred |-> barred]
    /\ Alongside(Procs \ {"poller"})
    /\ UNCHANGED <<server, signedIn, keychain, backoff, selfAsked>>

AskFor(s) == Do("poller", [step |-> "ask", slot |-> s, cred |-> stash[s]])

\* The live account's own blob is used; a valid token clears the backoff; a slot in
\* its backoff window is left alone.
PollSlot(s) ==
    /\ At("poller", "poll") /\ s \in poll.todo
    /\ \/ /\ s \in poll.active \cup poll.barred
          /\ poll' = [poll EXCEPT !.todo = @ \ {s}] /\ UNCHANGED <<doing, limited>>
       \/ /\ s \notin poll.active /\ limited' = limited \ {s} /\ UNCHANGED doing
          /\ poll' = [poll EXCEPT !.todo = @ \ {s}, !.barred = @ \ {s}]
       \/ /\ s \notin poll.active \cup poll.barred /\ AskFor(s)
          /\ poll' = [poll EXCEPT !.todo = @ \ {s}] /\ UNCHANGED limited
    /\ UNCHANGED <<server, signedIn, keychain, barred, hammered, mishaps, selfAsked>>

refresh_with_backoff ==
    /\ At("poller", "ask")
    /\ LET s == doing["poller"].slot  c == doing["poller"].cred IN
         /\ hammered' = (hammered \/ s \in limited)
         /\ \/ UsageAnswered("poller", "keep") /\ limited' = limited \ {s} /\ UNCHANGED <<poll, mishaps>>
            \/ /\ ~Valid(c) /\ Go("poller", "poll")
               /\ UNCHANGED <<server, poll, limited, mishaps>>
            \/ /\ poll' = [poll EXCEPT !.barred = @ \cup {s}] /\ limited' = limited \cup {s}
               /\ Go("poller", "poll") /\ UNCHANGED <<server, mishaps>>
            \/ Unanswered(c) /\ Go("poller", "poll") /\ UNCHANGED <<poll, limited>>
    /\ UNCHANGED <<signedIn, keychain, barred, selfAsked>>

StoreForPoll ==
    /\ At("poller", "keep") /\ Go("poller", "poll")
    /\ \/ /\ stash' = [stash EXCEPT ![doing["poller"].slot] = doing["poller"].cred]
          /\ poll' = [poll EXCEPT !.barred = @ \ {doing["poller"].slot}] /\ UNCHANGED mishaps
       \/ Fail /\ UNCHANGED <<stash, poll>>
    /\ UNCHANGED <<server, signedIn, liveCred, backoff, selfAsked>>

save_state == (barred' = poll.barred /\ UNCHANGED mishaps) \/ (Fail /\ UNCHANGED barred)

\* The backoff is saved before anything that can fail; the picker names any slot but
\* the one the poll took for active.
EndPoll ==
    /\ At("poller", "poll") /\ poll.todo = {} /\ poll' = NoPoll
    /\ save_state
    /\ Stop("poller") \/ \E t \in Slots \ poll.active : Begin("poller", t)
    /\ UNCHANGED <<server, signedIn, keychain, limited, hammered, selfAsked>>

\* `until` passes.
Cool(s) ==
    /\ s \in limited \cup barred
    /\ limited' = limited \ {s} /\ barred' = barred \ {s}
    /\ poll' = [poll EXCEPT !.barred = @ \ {s}]
    /\ UNCHANGED <<server, signedIn, keychain, doing, hammered, mishaps, selfAsked>>

DieHalfway(p) ==
    /\ doing[p] # Rest /\ Stop(p)
    /\ poll' = IF p = "poller" THEN NoPoll ELSE poll
    /\ Mishaps < MaxMishaps /\ deaths_' = deaths_ + 1
    /\ UNCHANGED <<server, signedIn, keychain, backoff, failures, overlaps, selfAsked>>

AccountNext ==
    \/ RotateLive \/ capture_current \/ StartPoll \/ refresh_with_backoff \/ StoreForPoll \/ EndPoll
    \/ \E s \in Slots : switch_now(s) \/ PollSlot(s) \/ Cool(s)
    \/ \E p \in Procs :
          \/ refresh_for_switch(p) \/ StoreForSwitch(p) \/ restash_outgoing(p)
          \/ write_live(p) \/ write_claude_json(p) \/ DieHalfway(p)

AccountSpec == AccountInit /\ [][AccountNext]_accountVars

-----------------------------------------------------------------------------
(* Properties. *)

Copy(c, a) == c.acct = a /\ c.gen = server[a]
InHand(a) == \E p \in Procs : doing[p] # Rest /\ Copy(doing[p].cred, a)

\* No account needs a new login as long as nothing fails, nobody is killed, nothing
\* overlaps and nobody asks for the account that is live already, whose slot may hold
\* an older token: the one its server accepts is the live one, or in its own slot.
NothingLost ==
    Mishaps = 0 /\ ~selfAsked => \A a \in Slots : Copy(liveCred, a) \/ Copy(stash[a], a) \/ InHand(a)

\* Credentials and identity are of one account whenever nobody is switching, after any
\* single failed write.
SignedInAsOne ==
    ~Busy(Procs) /\ deaths_ = 0 /\ overlaps = 0 /\ failures <= 1 => liveCred.acct = signedIn

\* The poll never spends the token of the account Claude Code is using.
LiveIsSpared ==
    At("poller", "ask") /\ deaths_ = 0 /\ overlaps = 0 /\ failures <= 1
        => doing["poller"].slot # liveCred.acct

\* A slot told 429 is not tried again in its window, from one poll to the next, unless
\* the record of it could not be kept.
NotHammered == hammered => failures + deaths_ > 0

\* The state is well formed, and no slot is lost, mixed up, spent behind Claude
\* Code's back or polled into the ground.
AccountSafety == AccountTypeOK /\ NothingLost /\ SignedInAsOne /\ LiveIsSpared /\ NotHammered
=============================================================================
