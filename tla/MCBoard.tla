------------------------------- MODULE MCBoard -------------------------------
(* Instances of TaskBoard: `focus` says whether a behaviour is about the       *)
(* dependencies among three tasks, or about the claims and states of two.      *)
EXTENDS TaskBoard, TLC

CONSTANTS t1, t2, t3, s1, s2

ThreeTasks  == {t1, t2, t3}
TwoSessions == {s1, s2}
AllStates   == States
AllOrigins  == Origins

\* The third task is not like the others: half of the behaviours do without it.
Symmetry == Permutations({t1, t2}) \cup Permutations(Workers)

VARIABLE focus
BoardInit == Init /\ focus \in {"dependencies", "claims"}

Asked(from, moves, t) ==
    \/ \E o \in from, startReady \in BOOLEAN : Create(t, o, startReady)
    \/ \E to \in moves, actor \in Actors : SetState(t, to, actor)
    \/ GrantClose(t)
    \/ \E u \in Tasks : DepAdd(t, u) \/ DepRm(t, u)

Dependencies ==
    /\ focus = "dependencies" /\ UNCHANGED focus
    /\ \E t \in Tasks : Asked({"session"}, {"done", "dropped", "ready"}, t)

Claims ==
    /\ focus = "claims" /\ UNCHANGED focus
    /\ \/ \E t \in Tasks \ {t3} :
            \/ Asked(From, Moves, t)
            \/ \E s \in Workers : Claim(t, s) \/ Release(t, s)
       \/ \E s \in Workers : SessionEnd(s) \/ SessionStart(s)

BoardSpec == BoardInit /\ [][Dependencies \/ Claims]_<<board, focus>>
=============================================================================
