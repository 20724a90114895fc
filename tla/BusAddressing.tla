--------------------------- MODULE BusAddressing ---------------------------
(***************************************************************************)
(* The pure decisions of the bus: who a message addresses, whom it wakes,  *)
(* what a reader still has to see, and what a long backlog is cut down to. *)
(* They live in crates/paos-bus as functions over vectors of messages; a   *)
(* room's transcript is a sequence here, and because seq is MAX(seq)+1 and *)
(* rows only ever disappear with the whole room, a message's seq is its    *)
(* position.  Sets of messages of one room are therefore sets of positions.*)
(***************************************************************************)
EXTENDS Naturals, Sequences, FiniteSets

CONSTANTS Sessions,   \* handles of fleet sessions
          Operator,   \* the sender name of the human
          All         \* the target "@all" (an empty target means the same)

ASSUME OperatorAssumption == Operator \notin Sessions

Senders == Sessions \cup {Operator}
Targets == {All} \cup SUBSET Sessions

\* A row of `messages`, without its room and position (they are where it is
\* stored) and without its text and timestamp.
Message == [id : Nat, sender : Senders, target : Targets,
            urgent : BOOLEAN, ambient : BOOLEAN]

IsBroadcast(target) == target = All

AddressedTo(target, name) == IsBroadcast(target) \/ name \in target

\* Urgent or typed by the operator: what DND lets through and what the backlog
\* cap never drops.
Must(m) == m.urgent \/ m.sender = Operator

WakesListener(m, name, broadcastWakes) ==
    \/ broadcastWakes
    \/ m.urgent
    \/ ~IsBroadcast(m.target) /\ AddressedTo(m.target, name)
    \/ IsBroadcast(m.target) /\ ~m.ambient /\ m.sender = Operator

\* m is for `name`: addressed to it and not its own.
IsFor(m, name) == m.sender # name /\ AddressedTo(m.target, name)

\* Mutants: the message right after the cursor is missed; the operator's typed
\* messages are held back by DND.
UnreadForOffByOne(log, cursor, name, urgentOnly) ==
    {i \in 1..Len(log) : /\ i > cursor + 1
                         /\ IsFor(log[i], name)
                         /\ urgentOnly => Must(log[i])}
UnreadForUrgentOnly(log, cursor, name, urgentOnly) ==
    {i \in 1..Len(log) : /\ i > cursor
                         /\ IsFor(log[i], name)
                         /\ urgentOnly => log[i].urgent}

UnreadFor(log, cursor, name, urgentOnly) ==
    {i \in 1..Len(log) : /\ i > cursor
                         /\ IsFor(log[i], name)
                         /\ urgentOnly => Must(log[i])}

\* The k largest members of a set of positions.
Newest(S, k) == {i \in S : Cardinality({j \in S : j > i}) < k}

\* Mutant: the newest are kept, whatever they are.
CapBacklogNewest(log, hits, limit) ==
    IF limit = 0 \/ Cardinality(hits) <= limit THEN hits ELSE Newest(hits, limit)

CapBacklog(log, hits, limit) ==
    LET must == {i \in hits : Must(log[i])}
    IN  IF limit = 0 \/ Cardinality(hits) <= limit THEN hits
        ELSE IF limit > Cardinality(must)
             THEN must \cup Newest(hits \ must, limit - Cardinality(must))
             ELSE must

AnyWakes(log, hits, name, broadcastWakes) ==
    \E i \in hits : WakesListener(log[i], name, broadcastWakes)
=============================================================================
