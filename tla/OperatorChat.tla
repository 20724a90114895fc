----------------------------- MODULE OperatorChat -----------------------------
(***************************************************************************)
(* What the operator sends with `paos operator send`, and the sessions     *)
(* that wait for it with `paos operator listen`.  Each listener opens the  *)
(* store itself, reads the oldest unconsumed row and then consumes it, in  *)
(* two statements of their own.                                            *)
(***************************************************************************)
EXTENDS Naturals, FiniteSets, FiniteSetsExt

CONSTANTS Listeners, MaxSent, MaxDeaths   \* the last two bound the instance

ASSUME ChatConstants == {MaxSent, MaxDeaths} \subseteq Nat

VARIABLES
    sentUpto,      \* operator_chat holds 1..sentUpto
    consumed,      \* ids marked so
    holds,         \* the row a listener has read and not yet consumed, 0 for none
    printed,       \* what each listener has printed
    deaths

chatVars == <<sentUpto, consumed, holds, printed, deaths>>

ChatTypeOK ==
    /\ sentUpto \in 0..MaxSent /\ consumed \subseteq 1..sentUpto
    /\ holds \in [Listeners -> 0..sentUpto] /\ printed \in [Listeners -> SUBSET (1..sentUpto)]

ChatInit ==
    /\ sentUpto = 0 /\ consumed = {} /\ holds = [l \in Listeners |-> 0]
    /\ printed = [l \in Listeners |-> {}] /\ deaths = 0

record_operator_message ==
    /\ sentUpto < MaxSent /\ sentUpto' = sentUpto + 1
    /\ UNCHANGED <<consumed, holds, printed, deaths>>

Unconsumed == (1..sentUpto) \ consumed

\* The SELECT of take_operator_message.
Look(l) ==
    /\ holds[l] = 0 /\ Unconsumed # {}
    /\ holds' = [holds EXCEPT ![l] = Min(Unconsumed)]
    /\ UNCHANGED <<sentUpto, consumed, printed, deaths>>

\* Mutant: the row is printed and not consumed.
TakeNothing(l) ==
    /\ holds[l] # 0
    /\ printed' = [printed EXCEPT ![l] = @ \cup {holds[l]}]
    /\ holds' = [holds EXCEPT ![l] = 0]
    /\ UNCHANGED <<sentUpto, consumed, deaths>>

\* Its UPDATE, after which the listener prints and exits; the next starts afresh.
Take(l) ==
    /\ holds[l] # 0
    /\ consumed' = consumed \cup {holds[l]}
    /\ printed' = [printed EXCEPT ![l] = @ \cup {holds[l]}]
    /\ holds' = [holds EXCEPT ![l] = 0]
    /\ UNCHANGED <<sentUpto, deaths>>

\* A listener is killed, with a row in hand or right after consuming it.
Die(l) ==
    /\ deaths < MaxDeaths /\ deaths' = deaths + 1
    /\ consumed' \in {consumed, consumed \cup ({holds[l]} \ {0})}
    /\ holds' = [holds EXCEPT ![l] = 0]
    /\ UNCHANGED <<sentUpto, printed>>

ChatNext ==
    \/ record_operator_message
    \/ \E l \in Listeners : Look(l) \/ Take(l) \/ Die(l)

ChatSpec == ChatInit /\ [][ChatNext]_chatVars

\* A waiting listener polls for as long as it runs.
ChatFairness == \A l \in Listeners : WF_chatVars(Look(l) \/ Take(l))

-----------------------------------------------------------------------------
(* Properties. *)

\* No message is passed over: one that is consumed was printed, unless a listener
\* died with it.
ConsumedIsHeard ==
    Cardinality(consumed \ UNION {printed[l] : l \in Listeners}) <= deaths

\* lib.rs: "two sessions listening must not both receive the same message".
TakenOnce ==
    \A l, k \in Listeners : l # k => printed[l] \cap printed[k] = {}

\* The state is well formed, nothing is consumed unheard but by a listener that died,
\* and whatever the operator sends is taken in the end.
SentIsTaken ==
    /\ [](ChatTypeOK /\ ConsumedIsHeard)
    /\ \A i \in 1..MaxSent : i <= sentUpto ~> i \in consumed
=============================================================================
