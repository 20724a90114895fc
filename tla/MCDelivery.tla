----------------------------- MODULE MCDelivery -----------------------------
(* Instances of BusDelivery: one listening session s1 (and its readers), a   *)
(* peer s2 that writes to it, the lobby and a working room.                  *)
EXTENDS BusDelivery, TLC

CONSTANTS s1, s2, p1, p2, q1, lobby, work

MCLobby == lobby

TwoListeners == (p1 :> s1 @@ p2 :> s1)
WaitAndOnce  == (p1 :> "wait" @@ p2 :> "once")
OneListener  == (p1 :> s1)
JustWait     == (p1 :> "wait")
WithRecv     == (p1 :> s1 @@ q1 :> s1)
WaitAndRecv  == (p1 :> "wait" @@ q1 :> "recv")

Everyone  == (lobby :> {s1, s2} @@ work :> {s1, s2})
LobbyOnly == (lobby :> {s1, s2} @@ work :> {})

Say(r, from, to, u, a) ==
    [room |-> r, sender |-> from, target |-> to, urgent |-> u, ambient |-> a]

Wake      == Say(lobby, s2, {s1}, TRUE, FALSE)          \* bus wake @s1
Chatter   == Say(work, s2, All, FALSE, FALSE)           \* a plain broadcast
Directed  == Say(work, s2, {s1}, FALSE, FALSE)          \* send --to @s1
Instruct  == Say(work, Operator, All, FALSE, FALSE)     \* typed by the operator
Banner    == Say(lobby, Operator, All, FALSE, TRUE)     \* operator mode banner

OnlyInstruct == {Instruct}
RoomDrafts  == {Chatter, Directed, Instruct}
MixedDrafts == {Chatter, Instruct}
WakeDrafts  == {Wake, Instruct}
=============================================================================
