-------------------------------- MODULE Topics --------------------------------
(***************************************************************************)
(* One Telegram forum topic per room.  The outbound loop gives every room  *)
(* with a live reader a topic, reopens and retitles the topic of a room it *)
(* is about to write to, and closes the topics of closed rooms; the        *)
(* operator may adopt a topic for a room.  A call may be carried out, be   *)
(* refused, or fail with or without having been carried out.  Except when  *)
(* a topic is created, the code takes a refusal for success.               *)
(***************************************************************************)
EXTENDS Naturals, FiniteSets, Sequences, Functions

CONSTANTS
    TopicRooms,
    Refusals,                  \* whether Telegram ever refuses a call
    MaxThreads, MaxCallFaults, MaxTopicKills, MaxRoomChanges   \* bounds of the instance

ASSUME TopicConstants ==
    /\ Refusals \in BOOLEAN
    /\ {MaxThreads, MaxCallFaults, MaxTopicKills, MaxRoomChanges} \subseteq Nat

VARIABLES
    read, shut, named,       \* rooms with a live reader; closed rooms; rooms that declared repos
    row,                     \* tg_topics: room -> [thread, closed, title]
    thread,                  \* Telegram: by id, the room it was made for, open or not
    sweep,                   \* the reconciliation in progress: stage and rooms still to do
    callFaults, topicKills, adoptions, roomChanges

rooms_    == <<read, shut, named, roomChanges>>
topicVars == <<rooms_, row, thread, sweep, callFaults, topicKills, adoptions>>

Rows == [thread : 1..MaxThreads, closed : BOOLEAN, title : {"bare", "repos", "adopted"}]

TopicTypeOK ==
    /\ {read, shut, named} \subseteq SUBSET TopicRooms
    /\ DOMAIN row \subseteq TopicRooms /\ row \in [DOMAIN row -> Rows]
    /\ thread \in Seq([room : TopicRooms, open : BOOLEAN]) /\ Len(thread) <= MaxThreads
    /\ sweep \in [stage : {"rest", "give", "close"}, todo : SUBSET TopicRooms]

TopicInit ==
    /\ read = {} /\ shut = {} /\ named = {} /\ row = <<>> /\ thread = <<>>
    /\ sweep = [stage |-> "rest", todo |-> {}]
    /\ callFaults = 0 /\ topicKills = 0 /\ adoptions = 0 /\ roomChanges = 0

-----------------------------------------------------------------------------
(* The rooms. *)

RoomChange(r) ==
    /\ roomChanges < MaxRoomChanges /\ roomChanges' = roomChanges + 1
    /\ \/ read' \in {read \cup {r}, read \ {r}} /\ UNCHANGED <<shut, named>>
       \/ shut' \in {shut \cup {r}, shut \ {r}} /\ UNCHANGED <<read, named>>
       \/ named' = named \cup {r} /\ UNCHANGED <<read, shut>>
    /\ UNCHANGED <<row, thread, sweep, callFaults, topicKills, adoptions>>

-----------------------------------------------------------------------------
(* Calls to Telegram. *)

\* Whether the caller goes on as if done, and whether it was done.
Done == <<TRUE, TRUE>>
Outcomes == {Done, <<FALSE, FALSE>>, <<FALSE, TRUE>>}
              \cup (IF Refusals THEN {<<TRUE, FALSE>>} ELSE {})

Spend(calls) ==
    /\ callFaults' = callFaults + Cardinality({c \in calls : c[2] # Done})
    /\ callFaults' <= MaxCallFaults

SetOpen(t, b) == [thread EXCEPT ![t].open = b]

desired_title(r) == IF r \in named THEN "repos" ELSE "bare"

\* reopen_topic and rename_topic on a room that has a row, each where needed, in one
\* hold of the lock.
Refresh(r) ==
    \E reopened \in Outcomes, retitled \in Outcomes :
        /\ ~row[r].closed => reopened = Done
        /\ row[r].title = desired_title(r) => retitled = Done
        /\ Spend({<<"reopen", reopened>>, <<"retitle", retitled>>})
        /\ row' = [row EXCEPT ![r].closed = @ /\ ~reopened[1],
                             ![r].title = IF retitled[1] THEN desired_title(r) ELSE @]
        /\ thread' = IF row[r].closed /\ reopened[2]
                     THEN SetOpen(row[r].thread, TRUE) ELSE thread

NewThread(r) == thread' = Append(thread, [room |-> r, open |-> TRUE])

\* create_topic: anything but an answer with an id is an error.
CreateTopic(r) ==
    /\ Len(thread) < MaxThreads
    /\ \/ /\ NewThread(r)
          /\ row' = [q \in DOMAIN row \cup {r} |->
                       IF q = r THEN [thread |-> Len(thread'), closed |-> FALSE,
                                      title |-> desired_title(r)] ELSE row[q]]
          /\ UNCHANGED callFaults
       \/ /\ Spend({<<"create", <<FALSE, FALSE>>>>}) /\ UNCHANGED row
          /\ UNCHANGED thread \/ NewThread(r)

\* Mutant: a row marked closed does not count as a topic.
topic_for_open(r) == IF r \in DOMAIN row /\ ~row[r].closed THEN Refresh(r) ELSE CreateTopic(r)

topic_for(r) == IF r \in DOMAIN row THEN Refresh(r) ELSE CreateTopic(r)

\* A message or a `say` on its way to the room's topic.
WriteTo(r) ==
    /\ sweep.stage = "rest" /\ topic_for(r)
    /\ UNCHANGED <<rooms_, sweep, topicKills, adoptions>>

-----------------------------------------------------------------------------
(* reconcile_topics. *)

\* Mutant: only rooms that declared repos are given topics.
named_rooms_needing_topics == (read \cap named) \ DOMAIN row

rooms_needing_topics == read \ DOMAIN row
stale_topics == {r \in DOMAIN row : ~row[r].closed /\ r \in shut}

Reconcile ==
    /\ sweep.stage = "rest"
    /\ sweep' = [stage |-> "give", todo |-> rooms_needing_topics]
    /\ UNCHANGED <<rooms_, row, thread, callFaults, topicKills, adoptions>>

Give(r) ==
    /\ sweep.stage = "give" /\ r \in sweep.todo
    /\ topic_for(r)
    /\ sweep' = [sweep EXCEPT !.todo = @ \ {r}]
    /\ UNCHANGED <<rooms_, topicKills, adoptions>>

ListStale ==
    /\ sweep.stage = "give" /\ sweep.todo = {}
    /\ sweep' = [stage |-> "close", todo |-> stale_topics]
    /\ UNCHANGED <<rooms_, row, thread, callFaults, topicKills, adoptions>>

Close(r) ==
    /\ sweep.stage = "close" /\ r \in sweep.todo
    /\ \E o \in Outcomes :
         /\ Spend({<<"close", o>>})
         /\ thread' = IF o[2] THEN SetOpen(row[r].thread, FALSE) ELSE thread
         /\ row' = IF o[1] THEN [row EXCEPT ![r].closed = TRUE] ELSE row
    /\ sweep' = [sweep EXCEPT !.todo = @ \ {r}]
    /\ UNCHANGED <<rooms_, topicKills, adoptions>>

EndSweep ==
    /\ sweep.stage = "close" /\ sweep.todo = {}
    /\ sweep' = [stage |-> "rest", todo |-> {}]
    /\ UNCHANGED <<rooms_, row, thread, callFaults, topicKills, adoptions>>

\* `/adopt r` typed in topic t: the row is replaced.
adopt(r, t) ==
    /\ t \in DOMAIN thread /\ adoptions < 1
    /\ row' = [q \in DOMAIN row \cup {r} |->
                 IF q = r THEN [thread |-> t, closed |-> FALSE, title |-> "adopted"] ELSE row[q]]
    /\ adoptions' = adoptions + 1
    /\ UNCHANGED <<rooms_, thread, sweep, callFaults, topicKills>>

\* A kill, possibly after a topic was created and before its row.
TopicKill ==
    /\ topicKills < MaxTopicKills /\ topicKills' = topicKills + 1
    /\ \/ UNCHANGED thread
       \/ Len(thread) < MaxThreads /\ \E r \in TopicRooms \ DOMAIN row : NewThread(r)
    /\ sweep' = [stage |-> "rest", todo |-> {}]
    /\ UNCHANGED <<rooms_, row, callFaults, adoptions>>

Reconciliation ==
    Reconcile \/ ListStale \/ EndSweep \/ \E r \in TopicRooms : Give(r) \/ Close(r)

TopicNext ==
    \/ \E r \in TopicRooms : RoomChange(r) \/ WriteTo(r) \/ \E t \in 1..MaxThreads : adopt(r, t)
    \/ Reconciliation \/ TopicKill

TopicSpec == TopicInit /\ [][TopicNext]_topicVars

\* The loop is a thread of a running daemon.
TopicFairness == WF_topicVars(Reconciliation)

-----------------------------------------------------------------------------
(* Properties. *)

\* No topic is left behind: one without a row is owed to a failed call, a kill or
\* an adoption.  (A row marked closed used to breed a second topic.)
NoOrphans ==
    Cardinality(DOMAIN thread \ {row[r].thread : r \in DOMAIN row})
        <= callFaults + topicKills + adoptions

\* A room that is marked closed in tg_topics has its topic closed: bridge.rs, "Record
\* ONLY on success, so a failed call is retried next tick".
ClosedIsClosed == \A r \in DOMAIN row : row[r].closed => ~thread[row[r].thread].open

\* A room where somebody is reading gets a topic.
ReadersGetTopics ==
    \A r \in TopicRooms : r \in read ~> (r \notin read \/ r \in DOMAIN row \/ Len(thread) = MaxThreads)

\* The state is well formed, and no topic is orphaned.
TopicSafety == TopicTypeOK /\ NoOrphans
=============================================================================
