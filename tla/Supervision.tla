------------------------------ MODULE Supervision ------------------------------
(***************************************************************************)
(* What the daemon tells the operator unasked.  Once a minute a pass of    *)
(* the outbound loop marks stale and deaf sessions, journals the deaf,     *)
(* announces that no account has capacity left, and, while the channel is  *)
(* open, wakes a deaf session and pages the operator if it stays deaf.     *)
(* What was already done is remembered in a set of keys that a kill        *)
(* forgets.  A page may fail to arrive; nobody looks.                      *)
(***************************************************************************)
EXTENDS Naturals, FiniteSetsExt

CONSTANTS
    Watched,                 \* live sessions
    StaleAfter, DeafAfter,   \* STALE_AFTER_SECS and DEAF_AFTER_SECS, in ticks
    MaxEpisodes, MaxLostPages, MaxSupKills   \* bounds of the instance

ASSUME SupervisionConstants ==
    /\ {StaleAfter, DeafAfter} \subseteq Nat /\ StaleAfter < DeafAfter
    /\ {MaxEpisodes, MaxLostPages, MaxSupKills} \subseteq Nat

VARIABLES
    inRooms, listening, claimed,    \* sets of sessions
    age,                            \* ticks since a session's last_seen, up to one past DeafAfter
    stale, deaf,                    \* stale_since and deaf_since
    channel, exhausted,             \* may_push; the cache says no account has capacity
    stage, alerted,                 \* the pass
    episode, journal, pages,        \* per session: times marked deaf, journalled, paged
    woken,                          \* the episode a session was last woken in
    outages, announced,             \* exhaustions seen; pages of it that arrived
    lostPages, supKills

sessionState == <<inRooms, listening, claimed, age>>
marks   == <<stale, deaf, episode>>
world   == <<channel, exhausted>>
told_   == <<journal, woken, pages, outages, announced>>
supVars == <<sessionState, marks, world, stage, alerted, told_, lostPages, supKills>>

PerSession == {"journal", "woke", "deaf"} \X Watched
Keys == PerSession \cup {<<"accounts-exhausted">>}
Ages == 0..(DeafAfter + 1)

SupTypeOK ==
    /\ {inRooms, listening, claimed, stale, deaf} \subseteq SUBSET Watched
    /\ age \in [Watched -> Ages]
    /\ channel \in BOOLEAN /\ exhausted \in BOOLEAN
    /\ stage \in {"rest", "journal", "capacity", "page"} /\ alerted \subseteq Keys
    /\ {episode, journal, woken, pages} \subseteq [Watched -> Nat]
    /\ {outages, announced} \subseteq Nat

SupInit ==
    /\ inRooms = {} /\ listening = {} /\ claimed \in SUBSET Watched /\ age = [s \in Watched |-> 0]
    /\ stale = {} /\ deaf = {} /\ channel = FALSE /\ exhausted = FALSE
    /\ stage = "rest" /\ alerted = {}
    /\ episode = [s \in Watched |-> 0] /\ journal = episode /\ woken = episode /\ pages = episode
    /\ outages = 0 /\ announced = 0 /\ lostPages = 0 /\ supKills = 0

-----------------------------------------------------------------------------
(* Sessions, the channel and the accounts. *)

\* The bound on episodes: a session that has been deaf often enough no longer
\* goes deaf again.
Exposed(rooms, listeners) == rooms \ listeners
WithinEpisodes(s) == episode[s] < MaxEpisodes

\* A turn of the session: the Stop hook's heartbeat.
heartbeat(s) ==
    /\ s \in Exposed(inRooms, listening) => WithinEpisodes(s)
    /\ age' = [age EXCEPT ![s] = 0] /\ stale' = stale \ {s}
    /\ UNCHANGED <<inRooms, listening, claimed, deaf, episode, world, stage, alerted, told_,
                   lostPages, supKills>>

Toggle(S, s) == IF s \in S THEN S \ {s} ELSE S \cup {s}

\* Arms or drops its listener, joins or leaves its rooms.
Prompted(s) ==
    /\ \/ listening' = Toggle(listening, s) /\ UNCHANGED inRooms
       \/ inRooms' = Toggle(inRooms, s) /\ UNCHANGED listening
    /\ s \in Exposed(inRooms', listening') => WithinEpisodes(s)
    /\ UNCHANGED <<claimed, age, marks, world, stage, alerted, told_, lostPages, supKills>>

Tick ==
    /\ age' = [s \in Watched |-> Min({age[s] + 1, DeafAfter + 1})] /\ age' # age
    /\ UNCHANGED <<inRooms, listening, claimed, marks, world, stage, alerted, told_,
                   lostPages, supKills>>

World ==
    /\ \/ channel' = ~channel /\ UNCHANGED exhausted
       \/ exhausted' = ~exhausted /\ outages < MaxEpisodes /\ UNCHANGED channel
    /\ UNCHANGED <<sessionState, marks, stage, alerted, told_, lostPages, supKills>>

-----------------------------------------------------------------------------
(* supervise, in the presence store. *)

IsStale(s) == s \in claimed /\ age[s] > StaleAfter
IsDeaf(s)  == s \in inRooms /\ s \notin listening /\ age[s] > DeafAfter

supervise ==
    /\ stage = "rest"
    /\ stale' = {s \in Watched : IsStale(s)}
    /\ deaf'  = {s \in Watched : IsDeaf(s)}
    /\ episode' = [s \in Watched |-> episode[s] + IF s \in deaf' \ deaf THEN 1 ELSE 0]
    /\ stage' = "journal"
    /\ UNCHANGED <<sessionState, world, alerted, told_, lostPages, supKills>>

-----------------------------------------------------------------------------
(* supervise_and_alert. *)

Rearm(kinds) == {k \in alerted : k[1] \in kinds => k[2] \in deaf}

\* Mutant: the rows, too, are written only while the channel is open.
JournalWhenOpen ==
    /\ stage = "journal"
    /\ journal' = [s \in Watched |->
                     journal[s] + IF channel /\ s \in deaf /\ <<"journal", s>> \notin alerted THEN 1 ELSE 0]
    /\ alerted' = Rearm({"journal"}) \cup {<<"journal", s>> : s \in deaf}
    /\ stage' = "capacity"
    /\ UNCHANGED <<sessionState, marks, world, woken, pages, outages, announced,
                   lostPages, supKills>>

Journal ==
    /\ stage = "journal"
    /\ journal' = [s \in Watched |->
                     journal[s] + IF s \in deaf /\ <<"journal", s>> \notin alerted THEN 1 ELSE 0]
    /\ alerted' = Rearm({"journal"}) \cup {<<"journal", s>> : s \in deaf}
    /\ stage' = "capacity"
    /\ UNCHANGED <<sessionState, marks, world, woken, pages, outages, announced,
                   lostPages, supKills>>

\* A page, arriving or not.
PageArrives == UNCHANGED lostPages
PageIsLost  == lostPages < MaxLostPages /\ lostPages' = lostPages + 1

\* Mutant: the announcement waits for the channel like every other page.
CapacityGated ==
    /\ stage = "capacity"
    /\ IF ~exhausted
       THEN alerted' = alerted \ {<<"accounts-exhausted">>} /\ UNCHANGED <<outages, announced>>
       ELSE IF <<"accounts-exhausted">> \in alerted \/ ~channel
       THEN UNCHANGED <<alerted, outages, announced>>
       ELSE /\ alerted' = alerted \cup {<<"accounts-exhausted">>}
            /\ outages' = outages + 1 /\ announced' = announced + 1
    /\ stage' = IF channel THEN "page" ELSE "rest"
    /\ UNCHANGED <<sessionState, marks, world, journal, woken, pages, lostPages, supKills>>

\* Announced whether the channel is open or not, once until capacity returns.
Capacity ==
    /\ stage = "capacity"
    /\ IF ~exhausted
       THEN alerted' = alerted \ {<<"accounts-exhausted">>} /\ UNCHANGED <<outages, announced, lostPages>>
       ELSE IF <<"accounts-exhausted">> \in alerted
       THEN UNCHANGED <<alerted, outages, announced, lostPages>>
       ELSE /\ alerted' = alerted \cup {<<"accounts-exhausted">>} /\ outages' = outages + 1
            /\ \/ PageArrives /\ announced' = announced + 1
               \/ PageIsLost /\ UNCHANGED announced
    /\ stage' = IF channel THEN "page" ELSE "rest"
    /\ UNCHANGED <<sessionState, marks, world, journal, woken, pages, supKills>>

\* First a wake, and a page when a later pass finds it deaf still.
Page ==
    /\ stage = "page"
    /\ LET toWake == {s \in deaf : <<"woke", s>> \notin alerted}
           toPage == {s \in deaf \ toWake : <<"deaf", s>> \notin alerted} IN
         /\ woken' = [s \in Watched |-> IF s \in toWake THEN episode[s] ELSE woken[s]]
         /\ pages' = [s \in Watched |-> pages[s] + IF s \in toPage THEN 1 ELSE 0]
         /\ alerted' = Rearm({"woke", "deaf"}) \cup {<<"woke", s>> : s \in toWake}
                                               \cup {<<"deaf", s>> : s \in toPage}
    /\ stage' = "rest"
    /\ UNCHANGED <<sessionState, marks, world, journal, outages, announced, lostPages, supKills>>

SupKill ==
    /\ supKills < MaxSupKills /\ supKills' = supKills + 1
    /\ stage' = "rest" /\ alerted' = {}
    /\ UNCHANGED <<sessionState, marks, world, told_, lostPages>>

SupLoop == supervise \/ Journal \/ Capacity \/ Page

SupNext ==
    \/ \E s \in Watched : heartbeat(s) \/ Prompted(s)
    \/ Tick \/ World \/ SupLoop \/ SupKill

SupSpec == SupInit /\ [][SupNext]_supVars

\* The loop is a thread of a running daemon, and time passes.
SupFairness == WF_supVars(SupLoop) /\ WF_supVars(Tick)

-----------------------------------------------------------------------------
(* Properties. *)

\* Every time a session goes deaf is in the journal once, whatever the channel; only
\* a kill writes a row again.
JournalledOnce ==
    \A s \in Watched :
        /\ stage \notin {"journal"} /\ supKills = 0 => journal[s] = episode[s]
        /\ journal[s] <= episode[s] + supKills

\* The operator is paged at most once each time a session goes deaf.
PagedOnce == \A s \in Watched : pages[s] <= episode[s] + supKills

\* bridge.rs: "TRY THE REPAIR BEFORE PAGING A HUMAN"; each page is about a session
\* that was woken since it went deaf.
WokenFirst ==
    [][\A s \in Watched : pages'[s] > pages[s] => woken[s] = episode[s]]_supVars

\* Running out of capacity reaches the operator even while the channel is closed.
ExhaustionReaches == exhausted /\ announced = 0 ~> (announced > 0 \/ ~exhausted \/ lostPages > 0)

\* presence: a session "is DEAF when it is alive and in rooms but has no listener"; one
\* that stays so is marked, however often it heartbeats.
DeafIsMarked ==
    \A s \in Watched : <>[](s \in Exposed(inRooms, listening)) => <>(s \in deaf)

\* The state is well formed, and neither the journal nor the operator hears twice.
SupSafety == SupTypeOK /\ JournalledOnce /\ PagedOnce
=============================================================================
