--------------------------- MODULE EscalationsProofs ---------------------------
(***************************************************************************)
(* What holds of the questions to the human, for any number of sessions,   *)
(* questions, messages, lost replies and kills.                            *)
(***************************************************************************)
EXTENDS Escalations, FiniteSetTheorems, SequenceTheorems, WellFoundedInduction, TLAPS

(***************************************************************************)
(* What the helpers return.                                                *)
(***************************************************************************)

\* A set of naturals that is not empty has a least element, and Min chooses it.
LEMMA MinIsLeast ==
    ASSUME NEW S \in SUBSET Nat, S # {}
    PROVE  Min(S) \in S /\ \A x \in S : Min(S) <= x
<1> DEFINE below == {pair \in Nat \X Nat : pair[1] < pair[2]}
<1>1. below = OpToRel(<, Nat)
  BY Zenon DEF OpToRel
<1>2. IsWellFoundedOn(below, Nat)
  BY <1>1, NatLessThanWellFounded, Zenon
<1>3. PICK m \in S : \A x \in S : ~ (<<x, m>> \in below)
  <2> HIDE DEF below
  <2> QED
    BY <1>2, WFMin
<1>4. ASSUME NEW x \in S PROVE m <= x
  <2>1. x \in Nat /\ m \in Nat
    OBVIOUS
  <2>2. CASE x < m
    <3>1. <<x, m>> \in below
      BY <2>1, <2>2
    <3> QED
      BY <1>3, <3>1
  <2> QED
    BY <2>1, <2>2
<1> QED
  BY <1>4 DEF Min

\* The smaller of two naturals is one of them and no larger than either.
LEMMA MinOfTwo ==
    ASSUME NEW a \in Nat, NEW b \in Nat
    PROVE  Min({a, b}) \in {a, b} /\ Min({a, b}) <= a /\ Min({a, b}) <= b
<1>1. \E x \in {a, b} : \A y \in {a, b} : x <= y
  OBVIOUS
<1>2. Min({a, b}) \in {a, b} /\ \A y \in {a, b} : Min({a, b}) <= y
  BY <1>1 DEF Min
<1> QED
  BY <1>2

\* The larger of two naturals is one of them and no smaller than either.
LEMMA MaxOfTwo ==
    ASSUME NEW a \in Nat, NEW b \in Nat
    PROVE  Max({a, b}) \in {a, b}
<1>1. \E x \in {a, b} : \A y \in {a, b} : x >= y
  OBVIOUS
<1> QED
  BY <1>1 DEF Max

\* A list of some of the askers, in any order.
LEMMA ListOfAskers ==
    ASSUME NEW S \in SUBSET Askers, NEW q \in SetToSeqs(S)
    PROVE  q \in Seq(Askers)
<1>1. Cardinality(S) \in Nat
  BY EscalationConstants, FS_Subset, FS_CardinalityType
<1>2. q \in [1..Cardinality(S) -> Askers]
  BY DEF SetToSeqs
<1> QED
  BY <1>1, <1>2, SeqDef

(***************************************************************************)
(* The invariant.                                                          *)
(***************************************************************************)

Question == [session : Askers, status : {"open", "answered", "resolved"}, msg : Nat, by : Nat]

\* The table, and beside each question how often its asker was told.
Tabled == esc \in Seq(Question) /\ informed \in Seq(Nat) /\ Len(informed) = Len(esc)

\* What is so of one question: an open one was told to nobody, what the table says of a
\* message is what the group shows, and an answer given in the group was to that message.
RowOK(i) ==
    /\ esc[i].msg <= Len(group) /\ esc[i].by <= Len(updates)
    /\ esc[i].status = "open" => informed[i] = 0 /\ esc[i].by = 0
    /\ informed[i] = 0 \/ (informed[i] = 1 /\ esc[i].status = "answered")
    /\ esc[i].msg # 0 => group[esc[i].msg] = i
    /\ esc[i].by # 0 =>
         (updates[esc[i].by].chat = "group" => group[updates[esc[i].by].msg] = i)

\* The group and the phone: a tap is in the group, and an update in the group is about a
\* message the group shows.
ChatOK ==
    /\ group \in Seq(Ids(esc))
    /\ updates \in Seq([do : {"tap", "reply"}, chat : {"group", "direct"}, msg : Nat \ {0}])
    /\ \A u \in Ids(updates) : updates[u].chat = "group" => updates[u].msg \in Ids(group)
    /\ \A u \in Ids(updates) : updates[u].do = "tap" => updates[u].chat = "group"
    /\ acked \in 0..Len(updates) /\ offset \in 0..Len(updates)
    /\ batch \in Seq(Ids(updates))

\* A push in progress is of the first question to do, and is the last message shown.
PassOK ==
    /\ mode \in Modes /\ prevMode \in Modes /\ seen \in BOOLEAN /\ blocked \subseteq Askers
    /\ out \in {"rest", "push", "pushed"} /\ todo \subseteq Ids(esc)
    /\ out # "rest" => todo # {}
    /\ out = "pushed" => Len(group) > 0 /\ group[Len(group)] = Min(todo)

EscInv == Tabled /\ (\A i \in Ids(esc) : RowOK(i)) /\ ChatOK /\ PassOK

\* What an update in the group is about is shown, and is a question of the table.
LEMMA UpdatesPoint ==
    ASSUME ChatOK
    PROVE  /\ Len(updates) \in Nat /\ Len(group) \in Nat
           /\ \A u \in Ids(updates) :
                /\ u \in 0..Len(updates)
                /\ updates[u].do = "tap" => updates[u].chat = "group"
                /\ updates[u].chat = "group" =>
                     updates[u].msg \in Ids(group) /\ group[updates[u].msg] \in Ids(esc)
<1>1. /\ group \in Seq(Ids(esc)) /\ Len(group) \in Nat /\ Len(updates) \in Nat
      /\ \A u \in Ids(updates) : /\ updates[u].chat = "group" => updates[u].msg \in Ids(group)
                                 /\ updates[u].do = "tap" => updates[u].chat = "group"
  BY DEF ChatOK
<1>2. \A m \in Ids(group) : group[m] \in Ids(esc)
  BY <1>1, ElementOfSeq DEF Ids
<1>3. \A u \in Ids(updates) : u \in 0..Len(updates)
  BY <1>1 DEF Ids
<1> QED
  BY <1>1, <1>2, <1>3

\* While the group only grows, what is about it stays so.
LEMMA ChatKeeps ==
    ASSUME ChatOK, Ids(esc') = Ids(esc), group' \in Seq(Ids(esc)), Len(group') \in Nat,
           Len(group') >= Len(group), UNCHANGED <<updates, acked, inbound>>
    PROVE  ChatOK'
<1>1. Len(group) \in Nat
  BY UpdatesPoint
<1>2. \A u \in Ids(updates) : updates[u].chat = "group" => updates[u].msg \in Ids(group')
  <2>1. Ids(group) \subseteq Ids(group')
    BY <1>1 DEF Ids
  <2> QED
    BY <2>1 DEF ChatOK
<1>3. updates' = updates /\ acked' = acked /\ offset' = offset /\ batch' = batch
  BY DEF inbound
<1>4. Ids(updates') = Ids(updates) /\ Ids(group') = Ids(group)'
  BY <1>3
<1> QED
  BY <1>2, <1>3, <1>4 DEF ChatOK

\* Asking adds open questions and leaves the others alone.
LEMMA AskAdds ==
    ASSUME Tabled, NEW q \in Seq(Askers), ask(q)
    PROVE  /\ esc' \in Seq(Question) /\ informed' \in Seq(Nat)
           /\ Len(esc') = Len(esc) + Len(q) /\ Len(informed') = Len(esc')
           /\ \A i \in Ids(esc) : esc'[i] = esc[i] /\ informed'[i] = informed[i]
           /\ \A i \in Ids(esc') \ Ids(esc) :
                /\ esc'[i].status = "open" /\ esc'[i].msg = 0 /\ esc'[i].by = 0
                /\ informed'[i] = 0
<1> DEFINE asked == [k \in DOMAIN q |-> [session |-> q[k], status |-> "open", msg |-> 0, by |-> 0]]
           none == [k \in DOMAIN q |-> 0]
<1>1. Len(q) \in Nat /\ DOMAIN q = 1..Len(q)
  OBVIOUS
<1>2. asked \in Seq(Question) /\ Len(asked) = Len(q)
  <2>1. asked \in [1..Len(q) -> Question]
    BY <1>1 DEF Question
  <2> HIDE DEF asked
  <2> QED
    BY <1>1, <2>1, SeqDef
<1>3. none \in Seq(Nat) /\ Len(none) = Len(q)
  <2>1. none \in [1..Len(q) -> Nat]
    BY <1>1
  <2> HIDE DEF none
  <2> QED
    BY <1>1, <2>1, SeqDef
<1>4. esc \in Seq(Question) /\ informed \in Seq(Nat) /\ Len(informed) = Len(esc)
  BY DEF Tabled
<1>5. esc' = esc \o asked /\ informed' = informed \o none
  BY DEF ask
<1>6. \A k \in 1..Len(q) : /\ asked[k].status = "open" /\ asked[k].msg = 0 /\ asked[k].by = 0
                           /\ none[k] = 0
  BY <1>1
<1> HIDE DEF asked, none
<1>7. /\ esc \o asked \in Seq(Question) /\ Len(esc \o asked) = Len(esc) + Len(asked)
      /\ \A i \in 1..Len(esc) + Len(asked) :
           (esc \o asked)[i] = IF i <= Len(esc) THEN esc[i] ELSE asked[i - Len(esc)]
  BY <1>2, <1>4, ConcatProperties
<1>8. /\ informed \o none \in Seq(Nat) /\ Len(informed \o none) = Len(informed) + Len(none)
      /\ \A i \in 1..Len(informed) + Len(none) :
           (informed \o none)[i] = IF i <= Len(informed) THEN informed[i] ELSE none[i - Len(informed)]
  BY <1>3, <1>4, ConcatProperties
<1>9. Len(esc) \in Nat /\ Len(q) \in Nat
  BY <1>4
<1>10. /\ esc' \in Seq(Question) /\ informed' \in Seq(Nat)
       /\ Len(esc') = Len(esc) + Len(q) /\ Len(informed') = Len(esc')
  BY <1>2, <1>3, <1>4, <1>5, <1>7, <1>8
<1>11. ASSUME NEW i \in Ids(esc)
       PROVE  esc'[i] = esc[i] /\ informed'[i] = informed[i]
  BY <1>2, <1>3, <1>4, <1>5, <1>7, <1>8, <1>9 DEF Ids
<1>12. ASSUME NEW i \in Ids(esc') \ Ids(esc)
       PROVE  /\ esc'[i].status = "open" /\ esc'[i].msg = 0 /\ esc'[i].by = 0
              /\ informed'[i] = 0
  <2>1. i - Len(esc) \in 1..Len(q) /\ i \in 1..Len(esc) + Len(q) /\ ~(i <= Len(esc))
    BY <1>9, <1>10 DEF Ids
  <2>2. esc'[i] = asked[i - Len(esc)] /\ informed'[i] = none[i - Len(esc)]
    BY <1>2, <1>3, <1>4, <1>5, <1>7, <1>8, <2>1
  <2> QED
    BY <1>6, <2>1, <2>2
<1> QED
  BY <1>10, <1>11, <1>12

\* An answer closes an open question and tells its asker; another question, or one that
\* is closed, it leaves alone.
LEMMA AnswerDecides ==
    ASSUME Tabled, NEW i \in Ids(esc), NEW u \in Nat, answer(i, u)
    PROVE  /\ esc' \in Seq(Question) /\ informed' \in Seq(Nat)
           /\ Len(esc') = Len(esc) /\ Len(informed') = Len(esc)
           /\ \A j \in Ids(esc) : j # i \/ esc[i].status # "open" =>
                esc'[j] = esc[j] /\ informed'[j] = informed[j]
           /\ esc[i].status = "open" =>
                /\ esc'[i].status = "answered" /\ esc'[i].by = u /\ esc'[i].msg = esc[i].msg
                /\ informed'[i] = informed[i] + 1
<1>1. esc \in Seq(Question) /\ informed \in Seq(Nat) /\ Len(informed) = Len(esc)
  BY DEF Tabled
<1>2. i \in 1..Len(esc) /\ Len(esc) \in Nat
  BY <1>1 DEF Ids
<1>3. CASE esc[i].status # "open"
  BY <1>1, <1>3 DEF answer, questions
<1>4. CASE esc[i].status = "open"
  <2> DEFINE decided == [esc[i] EXCEPT !.status = "answered", !.by = u]
  <2>1. esc' = [esc EXCEPT ![i] = decided]
    BY <1>1, <1>2, <1>4 DEF answer, Question
  <2>2. informed' = [informed EXCEPT ![i] = informed[i] + 1]
    BY <1>4 DEF answer
  <2>3. esc[i] \in Question
    BY <1>1, <1>2
  <2>4. /\ decided \in Question
        /\ decided.status = "answered" /\ decided.by = u /\ decided.msg = esc[i].msg
    BY <2>3 DEF Question
  <2> HIDE DEF decided
  <2>5. /\ esc' \in Seq(Question) /\ Len(esc') = Len(esc)
        /\ \A j \in 1..Len(esc) : esc'[j] = IF j = i THEN decided ELSE esc[j]
    BY <1>1, <1>2, <2>1, <2>4, ExceptSeq
  <2>6. /\ informed' \in Seq(Nat) /\ Len(informed') = Len(esc)
        /\ \A j \in 1..Len(esc) : informed'[j] = IF j = i THEN informed[i] + 1 ELSE informed[j]
    BY <1>1, <1>2, <2>2, ExceptSeq
  <2> QED
    BY <1>2, <1>4, <2>4, <2>5, <2>6 DEF Ids
<1> QED
  BY <1>3, <1>4

\* Anything else that happens to one row: its status or its message is rewritten.
LEMMA RowRewritten ==
    ASSUME Tabled, NEW i \in Ids(esc), NEW row \in Question, esc' = [esc EXCEPT ![i] = row]
    PROVE  /\ esc' \in Seq(Question) /\ Len(esc') = Len(esc) /\ esc'[i] = row
           /\ \A j \in Ids(esc) : j # i => esc'[j] = esc[j]
  BY ExceptSeq DEF Ids, Tabled

(***************************************************************************)
(* The steps.                                                              *)
(***************************************************************************)

\* The list of what is to be pushed only loses its first.
LEMMA PassGoesOn ==
    ASSUME Tabled, todo \subseteq Ids(esc), todo # {}, NextInPass
    PROVE  /\ todo' \subseteq Ids(esc) /\ out' \in {"rest", "push"}
           /\ out' # "rest" => todo' # {}
  BY DEF NextInPass

\* What a push in progress is about exists.
LEMMA FirstToDo ==
    ASSUME Tabled, todo \subseteq Ids(esc), todo # {}
    PROVE  Min(todo) \in Ids(esc)
<1>1. todo \in SUBSET Nat
  BY DEF Tabled, Ids
<1> QED
  BY <1>1, MinIsLeast

\* An answer keeps the invariant when it comes from the keyboard, from the direct chat, or
\* from an update about a message of the group that shows the question answered.
LEMMA AnswersKeep ==
    ASSUME EscInv, NEW i \in Ids(esc), NEW u \in 0..Len(updates), answer(i, u),
           u # 0 => (updates[u].chat = "group" => group[updates[u].msg] = i),
           UNCHANGED <<group, updates>>
    PROVE  Tabled' /\ Ids(esc') = Ids(esc) /\ \A j \in Ids(esc') : RowOK(j)'
<1> USE DEF EscInv
<1>0. Len(updates) \in Nat
  BY DEF ChatOK
<1>1. /\ esc' \in Seq(Question) /\ informed' \in Seq(Nat)
      /\ Len(esc') = Len(esc) /\ Len(informed') = Len(esc)
      /\ \A j \in Ids(esc) : j # i \/ esc[i].status # "open" =>
           esc'[j] = esc[j] /\ informed'[j] = informed[j]
      /\ esc[i].status = "open" =>
           /\ esc'[i].status = "answered" /\ esc'[i].by = u /\ esc'[i].msg = esc[i].msg
           /\ informed'[i] = informed[i] + 1
  BY <1>0, AnswerDecides
<1>2. Tabled' /\ Ids(esc') = Ids(esc)
  BY <1>1 DEF Tabled, Ids
<1>3. ASSUME NEW j \in Ids(esc), j # i \/ esc[i].status # "open" PROVE RowOK(j)'
  <2>1. esc'[j] = esc[j] /\ informed'[j] = informed[j]
    BY <1>1, <1>3
  <2>2. RowOK(j)
    OBVIOUS
  <2> QED
    BY <2>1, <2>2 DEF RowOK
<1>4. ASSUME esc[i].status = "open" PROVE RowOK(i)'
  <2>1. RowOK(i)
    OBVIOUS
  <2> QED
    BY <1>0, <1>1, <1>4, <2>1 DEF RowOK
<1> QED
  BY <1>2, <1>3, <1>4

\* A message that arrives is shown last, and nothing shown changes.
LEMMA GroupGrows ==
    ASSUME EscInv, NEW i \in Ids(esc), group' = Append(group, i)
    PROVE  /\ group' \in Seq(Ids(esc)) /\ Len(group') = Len(group) + 1 /\ group'[Len(group')] = i
           /\ \A m \in Ids(group) : group'[m] = group[m]
  BY AppendProperties DEF EscInv, ChatOK, Ids

\* Questions stay as they are when the group and the updates only grow.
LEMMA GrowthKeeps ==
    ASSUME EscInv, UNCHANGED questions,
           Len(group') \in Nat, Len(group') >= Len(group),
           \A m \in Ids(group) : group'[m] = group[m],
           Len(updates') \in Nat, Len(updates') >= Len(updates),
           \A u \in Ids(updates) : updates'[u] = updates[u]
    PROVE  Tabled' /\ Ids(esc') = Ids(esc) /\ \A j \in Ids(esc') : RowOK(j)'
<1> USE DEF EscInv, questions
<1>1. Tabled' /\ Ids(esc') = Ids(esc)
  BY DEF Tabled, Ids
<1>2. ASSUME NEW j \in Ids(esc) PROVE RowOK(j)'
  <2>1. RowOK(j) /\ esc[j] \in Question /\ esc' = esc /\ informed' = informed
    BY DEF Tabled, Ids
  <2>2. esc[j].msg # 0 => esc[j].msg \in Ids(group)
    BY <2>1 DEF RowOK, Question, Ids, ChatOK
  <2>3. esc[j].by # 0 => /\ esc[j].by \in Ids(updates)
                         /\ updates[esc[j].by].chat = "group" => updates[esc[j].by].msg \in Ids(group)
    <3>1. esc[j].by # 0 => esc[j].by \in Ids(updates)
      <4>1. esc[j].by \in Nat /\ Len(updates) \in Nat
        BY <2>1, UpdatesPoint DEF Question
      <4>2. esc[j].by <= Len(updates)
        BY <2>1 DEF RowOK
      <4> QED
        BY <4>1, <4>2 DEF Ids
    <3> QED
      BY <3>1 DEF ChatOK
  <2>4. Len(group) \in Nat /\ Len(updates) \in Nat /\ esc[j].msg \in Nat /\ esc[j].by \in Nat
    BY <2>1 DEF ChatOK, Question
  <2>5. esc[j].msg <= Len(group') /\ esc[j].by <= Len(updates')
    BY <2>1, <2>4 DEF RowOK
  <2>6. esc[j].msg # 0 => group'[esc[j].msg] = j
    BY <2>1, <2>2 DEF RowOK
  <2>7. esc[j].by # 0 =>
          (updates'[esc[j].by].chat = "group" => group'[updates'[esc[j].by].msg] = j)
    BY <2>1, <2>3 DEF RowOK
  <2> QED
    BY <2>1, <2>5, <2>6, <2>7 DEF RowOK
<1> QED
  BY <1>1, <1>2

\* Asking, answering, resolving, the two loops of the bridge step by step, lost replies
\* and kills keep the invariant.
LEMMA EscInvHolds == EscSpec => []EscInv
<1>1. EscInit => EscInv
  <2> SUFFICES ASSUME EscInit PROVE EscInv
    OBVIOUS
  <2>1. Tabled /\ Ids(esc) = {} /\ Ids(updates) = {}
    BY DEF EscInit, Tabled, Ids
  <2>2. ChatOK
    BY <2>1 DEF EscInit, ChatOK
  <2>3. PassOK
    BY EscalationConstants DEF EscInit, PassOK
  <2> QED
    BY <2>1, <2>2, <2>3 DEF EscInv
<1>2. EscInv /\ [EscNext]_escVars => EscInv'
  <2> SUFFICES ASSUME EscInv, [EscNext]_escVars PROVE EscInv'
    OBVIOUS
  <2>0. Len(group) \in Nat /\ Len(updates) \in Nat /\ Len(esc) \in Nat
    BY DEF EscInv, ChatOK, Tabled
  <2>1. ASSUME NEW q \in Seq(Askers), ask(q), UNCHANGED telegram
        PROVE  /\ Tabled' /\ \A j \in Ids(esc') : RowOK(j)'
               /\ group' \in Seq(Ids(esc')) /\ Ids(esc) \subseteq Ids(esc')
    <3>1. /\ esc' \in Seq(Question) /\ informed' \in Seq(Nat)
          /\ Len(esc') = Len(esc) + Len(q) /\ Len(informed') = Len(esc')
          /\ \A i \in Ids(esc) : esc'[i] = esc[i] /\ informed'[i] = informed[i]
          /\ \A i \in Ids(esc') \ Ids(esc) :
               /\ esc'[i].status = "open" /\ esc'[i].msg = 0 /\ esc'[i].by = 0
               /\ informed'[i] = 0
      BY <2>1, AskAdds DEF EscInv
    <3>2. Ids(esc) \subseteq Ids(esc') /\ Len(esc') \in Nat
      BY <2>0, <3>1 DEF Ids
    <3>3. ASSUME NEW j \in Ids(esc') PROVE RowOK(j)'
      <4>1. group' = group /\ updates' = updates
        BY <2>1 DEF telegram
      <4>2. CASE j \in Ids(esc)
        <5>1. RowOK(j)
          BY <4>2 DEF EscInv
        <5> QED
          BY <3>1, <4>1, <4>2, <5>1 DEF RowOK
      <4>3. CASE j \notin Ids(esc)
        BY <2>0, <3>1, <4>1, <4>3 DEF RowOK
      <4> QED
        BY <4>2, <4>3
    <3> QED
      BY <2>1, <3>1, <3>2, <3>3, SeqMonotonic DEF Tabled, telegram, EscInv, ChatOK
  <2>2. ASSUME NEW s \in Askers, Ask(s) PROVE EscInv'
    <3>1. <<s>> \in Seq(Askers)
      OBVIOUS
    <3> QED
      BY <2>1, <2>2, <3>1 DEF Ask, EscInv, ChatOK, PassOK, telegram, outbound, inbound
  <2>3. ASSUME NEW s \in Askers, StatusChanges(s) PROVE EscInv'
    BY <2>0, <2>3, GrowthKeeps DEF StatusChanges, EscInv, ChatOK, PassOK, telegram, outbound, inbound
  <2>4. ASSUME NEW m \in Modes, SetMode(m) PROVE EscInv'
    BY <2>0, <2>4, GrowthKeeps DEF SetMode, EscInv, ChatOK, PassOK, telegram, outbound, inbound
  <2>5. ASSUME NEW i \in 1..MaxAsks, AnswerAtKeyboard(i) PROVE EscInv'
    <3>1. i \in Ids(esc) /\ answer(i, 0) /\ UNCHANGED <<group, updates>> /\ 0 \in 0..Len(updates)
      BY <2>0, <2>5 DEF AnswerAtKeyboard, telegram
    <3>2. Tabled' /\ Ids(esc') = Ids(esc) /\ \A j \in Ids(esc') : RowOK(j)'
      BY <3>1, AnswersKeep
    <3> QED
      BY <2>5, <3>2 DEF AnswerAtKeyboard, EscInv, ChatOK, PassOK, telegram, outbound, inbound
  <2>6. ASSUME NEW i \in 1..MaxAsks, Resolve(i) PROVE EscInv'
    <3> DEFINE row == [esc[i] EXCEPT !.status = "resolved"]
    <3>1. i \in Ids(esc) /\ esc[i].status = "open" /\ esc' = [esc EXCEPT ![i] = row]
      BY <2>6 DEF Resolve, open_escalations
    <3>2. esc[i] \in Question /\ RowOK(i)
      BY <3>1 DEF EscInv, Tabled, Ids
    <3>3. /\ row \in Question /\ row.status = "resolved" /\ row.msg = esc[i].msg /\ row.by = esc[i].by
      BY <3>2 DEF Question
    <3> HIDE DEF row
    <3>4. /\ esc' \in Seq(Question) /\ Len(esc') = Len(esc) /\ esc'[i] = row
          /\ \A j \in Ids(esc) : j # i => esc'[j] = esc[j]
      BY <3>1, <3>3, RowRewritten DEF EscInv
    <3>5. Tabled' /\ Ids(esc') = Ids(esc) /\ UNCHANGED <<informed, group, updates>>
      BY <2>6, <3>4 DEF Resolve, EscInv, Tabled, Ids, telegram
    <3>6. ASSUME NEW j \in Ids(esc) PROVE RowOK(j)'
      BY <3>1, <3>2, <3>3, <3>4, <3>5, <3>6 DEF RowOK, EscInv
    <3> QED
      BY <2>6, <3>5, <3>6 DEF Resolve, EscInv, ChatOK, PassOK, telegram, outbound, inbound
  <2>7. ASSUME NEW i \in 1..MaxAsks, KillInAnswer(i) PROVE EscInv'
    <3> DEFINE row == [esc[i] EXCEPT !.status = "answered"]
    <3>1. i \in Ids(esc) /\ esc[i].status = "open" /\ esc' = [esc EXCEPT ![i] = row]
      BY <2>7 DEF KillInAnswer, open_escalations
    <3>2. esc[i] \in Question /\ RowOK(i)
      BY <3>1 DEF EscInv, Tabled, Ids
    <3>3. /\ row \in Question /\ row.status = "answered" /\ row.msg = esc[i].msg /\ row.by = esc[i].by
      BY <3>2 DEF Question
    <3> HIDE DEF row
    <3>4. /\ esc' \in Seq(Question) /\ Len(esc') = Len(esc) /\ esc'[i] = row
          /\ \A j \in Ids(esc) : j # i => esc'[j] = esc[j]
      BY <3>1, <3>3, RowRewritten DEF EscInv
    <3>5. Tabled' /\ Ids(esc') = Ids(esc) /\ UNCHANGED <<informed, group, updates>>
      BY <2>7, <3>4 DEF KillInAnswer, EscInv, Tabled, Ids, telegram
    <3>6. ASSUME NEW j \in Ids(esc) PROVE RowOK(j)'
      BY <3>1, <3>2, <3>3, <3>4, <3>5, <3>6 DEF RowOK, EscInv
    <3>7. ChatOK'
      BY <2>0, <2>7, <3>5 DEF KillInAnswer, Reset, EscInv, ChatOK, telegram
    <3>8. PassOK'
      BY <2>7 DEF KillInAnswer, Reset, EscInv, PassOK
    <3> QED
      BY <3>5, <3>6, <3>7, <3>8 DEF EscInv
  <2>8. ASSUME NEW do \in {"tap", "reply"}, NEW chat \in {"group", "direct"}, NEW m \in Nat \ {0},
               chat = "group" => m \in Ids(group), Act(do, chat, m)
        PROVE  EscInv'
    <3>1. [do |-> do, chat |-> chat, msg |-> m] \in
              [do : {"tap", "reply"}, chat : {"group", "direct"}, msg : Nat \ {0}]
      OBVIOUS
    <3> DEFINE act == [do |-> do, chat |-> chat, msg |-> m]
    <3>2. /\ act.chat = "group" => act.msg \in Ids(group)
          /\ act.do = "tap" => act.chat = "group"
          /\ updates' = Append(updates, act)
      BY <2>8 DEF Act
    <3> HIDE DEF act
    <3>3. /\ updates' \in Seq([do : {"tap", "reply"}, chat : {"group", "direct"}, msg : Nat \ {0}])
          /\ Len(updates') = Len(updates) + 1 /\ updates'[Len(updates')] = act
          /\ \A u \in Ids(updates) : updates'[u] = updates[u]
      BY <2>0, <3>1, <3>2, AppendProperties DEF EscInv, ChatOK, Ids, act
    <3>4. UNCHANGED <<questions, group, acked, inbound, outbound, mode, seen, blocked>>
      BY <2>8 DEF Act
    <3>5. Tabled' /\ Ids(esc') = Ids(esc) /\ \A j \in Ids(esc') : RowOK(j)'
      BY <2>0, <3>3, <3>4, GrowthKeeps
    <3>6. ChatOK'
      <4>1. Ids(updates) \subseteq Ids(updates') /\ batch' \in Seq(Ids(updates'))
        <5>1. Ids(updates) \subseteq Ids(updates') /\ batch' = batch
          BY <2>0, <3>3, <3>4 DEF Ids, inbound
        <5> QED
          BY <5>1, SeqMonotonic DEF EscInv, ChatOK
      <4>2. ASSUME NEW u \in Ids(updates')
            PROVE  /\ updates'[u].chat = "group" => updates'[u].msg \in Ids(group)
                   /\ updates'[u].do = "tap" => updates'[u].chat = "group"
        <5>1. CASE u \in Ids(updates)
          BY <3>3, <5>1 DEF EscInv, ChatOK
        <5>2. CASE u \notin Ids(updates)
          <6>1. u = Len(updates')
            BY <2>0, <3>3, <5>2 DEF Ids
          <6> QED
            BY <3>2, <3>3, <6>1
        <5> QED
          BY <5>1, <5>2
      <4> QED
        BY <2>0, <3>3, <3>4, <3>5, <4>1, <4>2 DEF EscInv, ChatOK, inbound
    <3> QED
      BY <3>4, <3>5, <3>6 DEF EscInv, PassOK, outbound
  <2>9. CASE Pass
    <3>1. PICK q \in SetToSeqs(sweep_blocked_on_away) : ask(q)
      BY <2>9 DEF Pass
    <3>2. sweep_blocked_on_away \in SUBSET Askers
      BY DEF sweep_blocked_on_away, EscInv, PassOK
    <3>3. q \in Seq(Askers)
      BY <3>1, <3>2, ListOfAskers
    <3>4. /\ prevMode' = mode
          /\ UNCHANGED <<mode, seen, blocked, group, updates, acked, offset, batch>>
          /\ out = "rest"
      BY <2>9 DEF Pass, telegram, inbound
    <3>5. /\ Tabled' /\ \A j \in Ids(esc') : RowOK(j)'
          /\ group' \in Seq(Ids(esc')) /\ Ids(esc) \subseteq Ids(esc')
      BY <2>1, <3>1, <3>3, <3>4 DEF telegram
    <3>6. \/ out' = "push" /\ todo' # {} /\ todo' \subseteq Ids(esc')
          \/ UNCHANGED <<out, todo>>
      <4> DEFINE list == {i \in Ids(esc') : esc'[i].status = "open" /\ esc'[i].msg = 0}
      <4>1. \E open \in may_push :
              IF open /\ list # {} THEN out' = "push" /\ todo' = list ELSE UNCHANGED <<out, todo>>
        BY <2>9 DEF Pass
      <4> QED
        BY <4>1
    <3>7. ChatOK'
      BY <3>4, <3>5 DEF EscInv, ChatOK
    <3>8. PassOK'
      BY <3>4, <3>5, <3>6 DEF EscInv, PassOK
    <3> QED
      BY <3>5, <3>7, <3>8 DEF EscInv
  <2>10. CASE Push
    <3>1. /\ todo # {} /\ group' = Append(group, Min(todo)) /\ out' = "pushed"
          /\ UNCHANGED <<mode, seen, blocked, questions, updates, acked, prevMode, todo, inbound>>
      BY <2>10 DEF Push, EscInv, PassOK
    <3>2. Min(todo) \in Ids(esc)
      BY <3>1, FirstToDo DEF EscInv, PassOK
    <3>3. /\ group' \in Seq(Ids(esc)) /\ Len(group') = Len(group) + 1 /\ group'[Len(group')] = Min(todo)
          /\ \A m \in Ids(group) : group'[m] = group[m]
      BY <3>1, <3>2, GroupGrows
    <3>4. /\ Len(group') \in Nat /\ Len(group') >= Len(group) /\ Len(group') > 0
          /\ Len(updates') \in Nat /\ Len(updates') >= Len(updates)
          /\ \A u \in Ids(updates) : updates'[u] = updates[u]
      BY <2>0, <3>1, <3>3
    <3>5. Tabled' /\ Ids(esc') = Ids(esc) /\ \A j \in Ids(esc') : RowOK(j)'
      BY <3>1, <3>3, <3>4, GrowthKeeps
    <3>6. ChatOK'
      BY <2>0, <3>1, <3>3, <3>5, ChatKeeps DEF EscInv
    <3>7. PassOK'
      BY <3>1, <3>3, <3>5, <3>4 DEF EscInv, PassOK
    <3> QED
      BY <3>5, <3>6, <3>7 DEF EscInv
  <2>11. CASE PushFails
    <3>1. /\ todo # {} /\ out = "push" /\ NextInPass
          /\ group' = group \/ group' = Append(group, Min(todo))
          /\ UNCHANGED <<mode, seen, blocked, questions, updates, acked, prevMode, inbound>>
      BY <2>11 DEF PushFails, EscInv, PassOK
    <3>2. Min(todo) \in Ids(esc)
      BY <3>1, FirstToDo DEF EscInv, PassOK
    <3>3. /\ group' \in Seq(Ids(esc)) /\ Len(group') \in Nat /\ Len(group') >= Len(group)
          /\ \A m \in Ids(group) : group'[m] = group[m]
      BY <2>0, <3>1, <3>2, GroupGrows DEF EscInv, ChatOK
    <3>4. Tabled' /\ Ids(esc') = Ids(esc) /\ \A j \in Ids(esc') : RowOK(j)'
      BY <2>0, <3>1, <3>3, GrowthKeeps
    <3>5. ChatOK'
      BY <2>0, <3>1, <3>3, <3>4, ChatKeeps DEF EscInv
    <3>6. PassOK'
      BY <3>1, <3>4, PassGoesOn DEF EscInv, PassOK
    <3> QED
      BY <3>4, <3>5, <3>6 DEF EscInv
  <2>12. CASE MarkPushed
    <3> DEFINE i == Min(todo)
               row == [esc[i] EXCEPT !.msg = Len(group)]
    <3>1. /\ todo # {} /\ out = "pushed" /\ NextInPass /\ esc' = [esc EXCEPT ![i] = row]
          /\ UNCHANGED <<mode, seen, blocked, informed, telegram, prevMode, inbound>>
          /\ Len(group) > 0 /\ group[Len(group)] = i
      BY <2>12 DEF MarkPushed, EscInv, PassOK
    <3>2. i \in Ids(esc)
      BY <3>1, FirstToDo DEF EscInv, PassOK
    <3>3. esc[i] \in Question /\ RowOK(i)
      BY <3>2 DEF EscInv, Tabled, Ids
    <3>4. /\ row \in Question /\ row.status = esc[i].status /\ row.msg = Len(group) /\ row.by = esc[i].by
      BY <2>0, <3>3 DEF Question
    <3> HIDE DEF row, i
    <3>5. /\ esc' \in Seq(Question) /\ Len(esc') = Len(esc) /\ esc'[i] = row
          /\ \A j \in Ids(esc) : j # i => esc'[j] = esc[j]
      BY <3>1, <3>2, <3>4, RowRewritten DEF EscInv
    <3>6. Tabled' /\ Ids(esc') = Ids(esc) /\ UNCHANGED <<informed, group, updates>>
      BY <3>1, <3>5 DEF EscInv, Tabled, Ids, telegram
    <3>7. ASSUME NEW j \in Ids(esc) PROVE RowOK(j)'
      <4>1. CASE j = i
        BY <2>0, <3>1, <3>3, <3>4, <3>5, <3>6, <4>1 DEF RowOK
      <4>2. CASE j # i
        BY <3>5, <3>6, <4>2 DEF RowOK, EscInv
      <4> QED
        BY <4>1, <4>2
    <3>8. ChatOK'
      BY <3>1, <3>6 DEF EscInv, ChatOK, telegram, inbound
    <3>9. PassOK'
      BY <3>1, <3>6, PassGoesOn DEF EscInv, PassOK
    <3> QED
      BY <3>6, <3>7, <3>8, <3>9 DEF EscInv
  <2>13. CASE Poll
    <3>1. acked \in Nat /\ offset \in Nat /\ acked' = Max({offset, acked})
      BY <2>0, <2>13 DEF Poll, EscInv, ChatOK
    <3>2. acked' \in {offset, acked}
      BY <3>1, MaxOfTwo
    <3>3. acked' \in 0..Len(updates) /\ offset' = Len(updates)
          /\ batch' = [k \in 1..(Len(updates) - acked') |-> acked' + k]
          /\ UNCHANGED <<mode, seen, blocked, questions, group, updates, outbound>>
      BY <2>0, <2>13, <3>2 DEF Poll, EscInv, ChatOK
    <3>4. batch' \in Seq(Ids(updates))
      <4>1. Len(updates) - acked' \in Nat
        BY <2>0, <3>3
      <4>2. batch' \in [1..(Len(updates) - acked') -> Ids(updates)]
        BY <2>0, <3>3 DEF Ids
      <4> QED
        BY <4>1, <4>2, SeqDef
    <3>5. Tabled' /\ Ids(esc') = Ids(esc) /\ \A j \in Ids(esc') : RowOK(j)'
      BY <2>0, <3>3, GrowthKeeps
    <3>6. ChatOK'
      BY <2>0, <3>3, <3>4, <3>5 DEF EscInv, ChatOK
    <3> QED
      BY <3>3, <3>5, <3>6 DEF EscInv, PassOK, outbound
  <2>14. CASE Handle
    <3> DEFINE u == Head(batch)
    <3>1. /\ batch # <<>> /\ seen' = TRUE /\ batch' = Tail(batch)
          /\ UNCHANGED <<mode, blocked, telegram, outbound, offset>>
          /\ IF updates[u].do = "tap" THEN handle_callback(u) ELSE handle_message(u)
      BY <2>14 DEF Handle
    <3>2. u \in Ids(updates) /\ batch' \in Seq(Ids(updates))
      BY <3>1, HeadTailProperties DEF EscInv, ChatOK
    <3> HIDE DEF u
    <3>3. /\ updates[u].chat = "group" =>
               updates[u].msg \in Ids(group) /\ group[updates[u].msg] \in Ids(esc)
          /\ updates[u].do = "tap" => updates[u].chat = "group"
          /\ u \in 0..Len(updates)
      BY <3>2, UpdatesPoint DEF EscInv
    <3>4. \/ UNCHANGED questions
          \/ \E i \in Ids(esc) :
               answer(i, u) /\ (updates[u].chat = "group" => group[updates[u].msg] = i)
      <4>1. CASE updates[u].do = "tap"
        BY <3>1, <3>3, <4>1 DEF handle_callback
      <4>2. CASE updates[u].do # "tap" /\ escalation_by_message_id(updates[u].msg) # {}
        <5> DEFINE asked == escalation_by_message_id(updates[u].msg)
        <5>1. answer(Min(asked), u)
          BY <3>1, <4>2 DEF handle_message
        <5>2. asked \in SUBSET Nat
          BY DEF escalation_by_message_id, open_escalations, Ids, EscInv, Tabled
        <5>3. Min(asked) \in asked
          BY <4>2, <5>2, MinIsLeast
        <5>4. Min(asked) \in Ids(esc) /\ esc[Min(asked)].msg = updates[u].msg
          BY <5>3 DEF escalation_by_message_id, open_escalations
        <5>5. updates[u].chat = "group" => group[updates[u].msg] = Min(asked)
          <6>1. RowOK(Min(asked))
            BY <5>4 DEF EscInv
          <6>2. updates[u].chat = "group" => updates[u].msg # 0
            BY <3>3 DEF Ids
          <6> QED
            BY <5>4, <6>1, <6>2 DEF RowOK
        <5> HIDE DEF asked
        <5> QED
          BY <5>1, <5>4, <5>5
      <4>3. CASE updates[u].do # "tap" /\ escalation_by_message_id(updates[u].msg) = {}
        BY <3>1, <4>3 DEF handle_message
      <4> QED
        BY <4>1, <4>2, <4>3
    <3>5. Tabled' /\ Ids(esc') = Ids(esc) /\ \A j \in Ids(esc') : RowOK(j)'
      <4>1. CASE UNCHANGED questions
        BY <2>0, <3>1, <4>1, GrowthKeeps DEF telegram
      <4>2. ASSUME NEW i \in Ids(esc), answer(i, u),
                   updates[u].chat = "group" => group[updates[u].msg] = i
            PROVE  Tabled' /\ Ids(esc') = Ids(esc) /\ \A j \in Ids(esc') : RowOK(j)'
        BY <3>1, <3>3, <4>2, AnswersKeep DEF telegram
      <4> QED
        BY <3>4, <4>1, <4>2
    <3>6. ChatOK'
      BY <3>1, <3>2, <3>5 DEF EscInv, ChatOK, telegram
    <3> QED
      BY <3>1, <3>5, <3>6 DEF EscInv, PassOK, outbound, telegram
  <2>15. CASE Kill
    <3>1. /\ prevMode' = mode /\ out' = "rest" /\ todo' = {} /\ offset' = 0 /\ batch' = <<>>
          /\ UNCHANGED <<mode, seen, blocked, questions, group, updates, acked>>
      BY <2>15 DEF Kill, Reset, telegram
    <3>2. Tabled' /\ Ids(esc') = Ids(esc) /\ \A j \in Ids(esc') : RowOK(j)'
      BY <2>0, <3>1, GrowthKeeps
    <3> QED
      BY <2>0, <3>1, <3>2 DEF EscInv, ChatOK, PassOK
  <2>16. CASE UNCHANGED escVars
    <3>1. UNCHANGED <<mode, seen, blocked, questions, telegram, outbound, inbound>>
      BY <2>16 DEF escVars
    <3>2. Tabled' /\ Ids(esc') = Ids(esc) /\ \A j \in Ids(esc') : RowOK(j)'
      BY <2>0, <3>1, GrowthKeeps DEF telegram
    <3> QED
      BY <3>1, <3>2 DEF EscInv, ChatOK, PassOK, telegram, outbound, inbound
  <2>17. ASSUME NEW do \in {"tap", "reply"}, NEW m \in Ids(group), Act(do, "group", m) PROVE EscInv'
    BY <2>8, <2>17 DEF Ids
  <2>18. ASSUME NEW m \in 1..DirectMessages, Act("reply", "direct", m) PROVE EscInv'
    BY <2>8, <2>18
  <2> QED
    BY <2>2, <2>3, <2>4, <2>5, <2>6, <2>7, <2>9, <2>10, <2>11, <2>12, <2>13, <2>14, <2>15,
       <2>16, <2>17, <2>18 DEF EscNext, outbound_loop, inbound_loop
<1> QED
  BY <1>1, <1>2, PTL DEF EscSpec

\* The state is well formed, the asker is told at most once and only of an answer, and
\* the question answered in the group is the one shown in the message tapped or quoted
\* (bridge.rs, handle_callback and handle_message), through repeated pushes, lost replies
\* and kills, and whatever is replied in the direct chat.
THEOREM QuestionsKeptApart == EscSpec => []EscSafety
<1>1. EscInv => EscSafety
  <2> SUFFICES ASSUME EscInv PROVE EscSafety
    OBVIOUS
  <2>1. Len(group) \in Nat /\ Len(updates) \in Nat /\ Len(esc) \in Nat
    BY DEF EscInv, ChatOK, Tabled
  <2>2. ASSUME NEW i \in Ids(esc)
        PROVE  esc[i] \in [session : Askers, status : {"open", "answered", "resolved"},
                           msg : 0..Len(group), by : 0..Len(updates)]
    <3>1. esc[i] \in Question /\ RowOK(i)
      BY DEF EscInv, Tabled, Ids
    <3> QED
      BY <2>1, <3>1 DEF Question, RowOK
  <2>3. esc \in Seq([session : Askers, status : {"open", "answered", "resolved"},
                     msg : 0..Len(group), by : 0..Len(updates)])
    <3> DEFINE Shown == [session : Askers, status : {"open", "answered", "resolved"},
                         msg : 0..Len(group), by : 0..Len(updates)]
    <3>1. \A i \in 1..Len(esc) : esc[i] \in Shown
      BY <2>2 DEF Ids
    <3> HIDE DEF Shown
    <3>2. esc \in [1..Len(esc) -> Shown]
      BY <3>1 DEF EscInv, Tabled
    <3>3. esc \in Seq(Shown)
      BY <2>1, <3>2, SeqDef
    <3> QED
      BY <3>3 DEF Shown
  <2>4. informed \in [Ids(esc) -> Nat]
    BY DEF EscInv, Tabled, Ids
  <2>5. EscTypeOK
    BY <2>3, <2>4 DEF EscInv, ChatOK, PassOK, EscTypeOK
  <2>6. ToldOnce
    BY DEF EscInv, RowOK, ToldOnce
  <2>7. AnswersTheQuoted
    BY DEF EscInv, RowOK, AnswersTheQuoted
  <2> QED
    BY <2>5, <2>6, <2>7 DEF EscSafety
<1> QED
  BY <1>1, EscInvHolds, PTL

\* A question is decided once: tapped twice, quoted late in either chat, redelivered after a
\* kill or answered in two places, the first decision stands (lib.rs, answer and resolve).
THEOREM FirstAnswerStands == EscSpec => DecisionsStand
<1> DEFINE Stand == \A i \in Ids(esc) : esc[i].status # "open" =>
                      esc'[i].status = esc[i].status /\ esc'[i].by = esc[i].by
<1>1. EscInv /\ [EscNext]_escVars => Stand
  <2> SUFFICES ASSUME EscInv, [EscNext]_escVars PROVE Stand
    OBVIOUS
  <2>0. Len(group) \in Nat /\ Len(updates) \in Nat /\ Len(esc) \in Nat
    BY DEF EscInv, ChatOK, Tabled
  <2>1. CASE UNCHANGED esc
    BY <2>1
  <2>2. ASSUME NEW q \in Seq(Askers), ask(q) PROVE Stand
    BY <2>2, AskAdds DEF EscInv
  <2>3. ASSUME NEW i \in Ids(esc), NEW u \in Nat, answer(i, u) PROVE Stand
    <3>1. \A j \in Ids(esc) : j # i \/ esc[i].status # "open" => esc'[j] = esc[j]
      BY <2>3, AnswerDecides DEF EscInv
    <3> QED
      BY <3>1
  <2>4. ASSUME NEW i \in Ids(esc), NEW row \in Question, esc' = [esc EXCEPT ![i] = row],
               esc[i].status = "open" \/ (row.status = esc[i].status /\ row.by = esc[i].by)
        PROVE  Stand
    BY <2>4, RowRewritten DEF EscInv
  <2>5. ASSUME NEW s \in Askers, Ask(s) PROVE Stand
    <3>1. <<s>> \in Seq(Askers)
      OBVIOUS
    <3> QED
      BY <2>2, <2>5, <3>1 DEF Ask
  <2>6. CASE Pass
    <3>1. PICK q \in SetToSeqs(sweep_blocked_on_away) : ask(q)
      BY <2>6 DEF Pass
    <3>2. sweep_blocked_on_away \in SUBSET Askers
      BY DEF sweep_blocked_on_away, EscInv, PassOK
    <3> QED
      BY <2>2, <3>1, <3>2, ListOfAskers
  <2>7. ASSUME NEW i \in 1..MaxAsks, AnswerAtKeyboard(i) PROVE Stand
    BY <2>3, <2>7 DEF AnswerAtKeyboard
  <2>8. ASSUME NEW i \in 1..MaxAsks, Resolve(i) \/ KillInAnswer(i) PROVE Stand
    <3>1. PICK to \in {"resolved", "answered"} : esc' = [esc EXCEPT ![i].status = to]
      BY <2>8 DEF Resolve, KillInAnswer
    <3> DEFINE row == [esc[i] EXCEPT !.status = to]
    <3>2. i \in Ids(esc) /\ esc[i].status = "open"
      BY <2>8 DEF Resolve, KillInAnswer, open_escalations
    <3>3. esc[i] \in Question
      BY <3>2 DEF EscInv, Tabled, Ids
    <3>4. row \in Question /\ esc' = [esc EXCEPT ![i] = row]
      BY <3>1, <3>3 DEF Question
    <3> HIDE DEF row
    <3> QED
      BY <2>4, <3>2, <3>4
  <2>9. CASE MarkPushed
    <3> DEFINE i == Min(todo)
               row == [esc[i] EXCEPT !.msg = Len(group)]
    <3>1. i \in Ids(esc) /\ esc' = [esc EXCEPT ![i] = row]
      BY <2>9, FirstToDo DEF MarkPushed, EscInv, PassOK
    <3> HIDE DEF i
    <3>2. esc[i] \in Question
      BY <3>1 DEF EscInv, Tabled, Ids
    <3>3. row \in Question /\ row.status = esc[i].status /\ row.by = esc[i].by
      BY <2>0, <3>2 DEF Question
    <3> HIDE DEF row
    <3> QED
      BY <2>4, <3>1, <3>3
  <2>10. CASE Handle
    <3> DEFINE u == Head(batch)
    <3>1. batch # <<>> /\ IF updates[u].do = "tap" THEN handle_callback(u) ELSE handle_message(u)
      BY <2>10 DEF Handle
    <3>2. u \in Ids(updates)
      BY <3>1, HeadTailProperties DEF EscInv, ChatOK
    <3> HIDE DEF u
    <3>3. u \in Nat /\ (updates[u].do = "tap" => group[updates[u].msg] \in Ids(esc))
      BY <2>0, <3>2, UpdatesPoint DEF EscInv
    <3>4. CASE updates[u].do = "tap"
      BY <2>3, <3>1, <3>3, <3>4 DEF handle_callback
    <3>5. CASE updates[u].do # "tap"
      <4> DEFINE asked == escalation_by_message_id(updates[u].msg)
      <4>1. asked \in SUBSET Nat /\ asked \subseteq Ids(esc)
        BY DEF escalation_by_message_id, open_escalations, Ids, EscInv, Tabled
      <4>2. CASE asked = {}
        BY <2>1, <3>1, <3>5, <4>2 DEF handle_message, questions
      <4>3. CASE asked # {}
        <5>1. Min(asked) \in asked
          BY <4>1, <4>3, MinIsLeast
        <5> QED
          BY <2>3, <3>1, <3>3, <3>5, <4>1, <4>3, <5>1 DEF handle_message
      <4> QED
        BY <4>2, <4>3
    <3> QED
      BY <3>4, <3>5
  <2>11. CASE UNCHANGED questions
    BY <2>1, <2>11 DEF questions
  <2> QED
    BY <2>1, <2>5, <2>6, <2>7, <2>8, <2>9, <2>10, <2>11
    DEF EscNext, escVars, questions, StatusChanges, SetMode, Act, outbound_loop, inbound_loop,
        Push, PushFails, Poll, Kill
<1>2. EscInv /\ [EscNext]_escVars => [Stand]_escVars
  <2> HIDE DEF Stand
  <2> QED
    BY <1>1
<1> QED
  BY <1>2, EscInvHolds, PTL DEF EscSpec, DecisionsStand
=============================================================================
