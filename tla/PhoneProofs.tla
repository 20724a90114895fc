------------------------------ MODULE PhoneProofs ------------------------------
(***************************************************************************)
(* What holds of the phone's side of the daemon for every value of the     *)
(* constants: the feed of messages to the phone, the inbox of what the     *)
(* operator types there, and the topics of the rooms.                      *)
(***************************************************************************)
EXTENDS PhoneFeed, PhoneInbox, Topics, EscalationsProofs, Integers

(***************************************************************************)
(* Counting.                                                               *)
(***************************************************************************)

\* The numbers up to another are finitely many.
LEMMA UpTo == ASSUME NEW n \in Nat PROVE IsFiniteSet(1..n)
  BY FS_Interval

\* A set grows by at most the one element it is given.
LEMMA OneMoreAtMost ==
    ASSUME NEW S, IsFiniteSet(S), NEW x
    PROVE  /\ IsFiniteSet(S \cup {x}) /\ Cardinality(S \cup {x}) \in Nat
           /\ Cardinality(S \cup {x}) <= Cardinality(S) + 1
<1>1. Cardinality(S) \in Nat
  BY FS_CardinalityType
<1> QED
  BY <1>1, FS_AddElement, FS_CardinalityType

\* What fits under a count still does, when one more at most comes with one more counted.
LEMMA StillPaid ==
    ASSUME NEW S, IsFiniteSet(S), NEW m \in Nat, NEW n \in Nat, Cardinality(S) <= m,
           NEW T, \/ T \subseteq S /\ m <= n
                  \/ (\E x : T \subseteq S \cup {x}) /\ m + 1 <= n
    PROVE  Cardinality(T) <= n
<1>1. Cardinality(S) \in Nat
  BY FS_CardinalityType
<1>2. CASE T \subseteq S /\ m <= n
  <2>1. Cardinality(T) <= Cardinality(S) /\ Cardinality(T) \in Nat
    BY <1>2, FS_Subset, FS_CardinalityType
  <2> QED
    BY <1>1, <1>2, <2>1
<1>3. CASE (\E x : T \subseteq S \cup {x}) /\ m + 1 <= n
  <2>1. PICK x : T \subseteq S \cup {x}
    BY <1>3
  <2>2. /\ IsFiniteSet(S \cup {x}) /\ Cardinality(S \cup {x}) \in Nat
        /\ Cardinality(S \cup {x}) <= Cardinality(S) + 1
    BY OneMoreAtMost
  <2>3. Cardinality(T) <= Cardinality(S \cup {x}) /\ Cardinality(T) \in Nat
    BY <2>1, <2>2, FS_Subset, FS_CardinalityType
  <2> QED
    BY <1>1, <1>3, <2>2, <2>3
<1> QED
  BY <1>2, <1>3

(***************************************************************************)
(* The feed.                                                               *)
(***************************************************************************)

\* What the operator was to see up to k is on the phone, or given up.
Covered(k) ==
    \A i \in 1..Len(bus) : first < i /\ i <= k /\ ForOperator(i) =>
        i \in dropped \/ \E m \in steer : phone[m] = <<"bus", i>>

\* The rows at hand are the ones right after what this pass has done.
RowsAhead ==
    /\ upto \in 0..Len(bus) /\ cursor <= upto
    /\ \E r \in upto..Len(bus) : feedRows = (upto + 1)..r

\* Of every message, one arrival is due once the mirror is past it; any other is paid for.
Due(i) == IF i <= cursor \/ (pass = "mirror" /\ i <= upto) THEN 1 ELSE 0
PaidFor == \A i \in Nat : Times(<<"bus", i>>) <= feedFaults + feedKills + Due(i)

FeedInv ==
    /\ FeedTypeOK /\ NoOvertaking /\ PaidFor
    /\ Covered(cursor)
    /\ pass = "mirror" => RowsAhead /\ Covered(upto)

\* What the phone may hold.
Notes == ({"bus"} \X DOMAIN bus) \cup ({"say"} \X DOMAIN outbox)

\* A call to the phone: nothing arrives, or one message, after the others.
Calls(what) == phone' = phone \/ phone' = Append(phone, what)

PhoneHolds(S) == phone \in Seq(S)

\* What a call does to the phone.
LEMMA PhoneStep ==
    ASSUME NEW S, PhoneHolds(S), NEW what \in S, Calls(what)
    PROVE  /\ PhoneHolds(S)' /\ Len(phone) \in Nat /\ Len(phone') \in Nat
           /\ \/ phone' = phone
              \/ phone' # phone /\ Len(phone') = Len(phone) + 1 /\ phone'[Len(phone')] = what
           /\ \A m \in 1..Len(phone) : phone'[m] = phone[m]
<1> USE DEF PhoneHolds, Calls
<1>1. Len(phone) \in Nat
  OBVIOUS
<1>2. CASE phone' = phone
  BY <1>1, <1>2
<1>3. CASE phone' = Append(phone, what)
  <2>1. /\ phone' \in Seq(S) /\ Len(phone') = Len(phone) + 1 /\ phone'[Len(phone) + 1] = what
        /\ \A m \in 1..Len(phone) : phone'[m] = phone[m]
    BY <1>3, AppendProperties
  <2> QED
    BY <1>1, <2>1
<1> QED
  BY <1>2, <1>3

\* The places where a message is.
Arrivals(w) == {m \in 1..Len(phone) : phone[m] = w}

LEMMA PlacesCounted ==
    ASSUME NEW S, PhoneHolds(S), NEW w
    PROVE  /\ Times(w) = Cardinality(Arrivals(w)) /\ Len(phone) \in Nat
           /\ IsFiniteSet(Arrivals(w)) /\ Times(w) \in Nat
<1>1. Times(w) = Cardinality(Arrivals(w)) /\ Len(phone) \in Nat
  <2>1. DOMAIN phone = 1..Len(phone) /\ Len(phone) \in Nat
    BY DEF PhoneHolds
  <2> QED
    BY <2>1 DEF Times, Arrivals
<1>2. Arrivals(w) \subseteq 1..Len(phone)
  BY DEF Arrivals
<1>3. IsFiniteSet(Arrivals(w))
  BY <1>1, <1>2, UpTo, FS_Subset
<1> QED
  BY <1>1, <1>3, FS_CardinalityType

\* A message counts once more where it arrived, and nothing else counts differently.
LEMMA TimesStep ==
    ASSUME NEW S, PhoneHolds(S), NEW what \in S, Calls(what), NEW w
    PROVE  /\ Times(w) \in Nat /\ Times(w)' \in Nat
           /\ w # what \/ phone' = phone => Times(w)' = Times(w)
           /\ Times(w)' <= Times(w) + 1
<1>1. /\ Len(phone) \in Nat /\ PhoneHolds(S)'
      /\ \/ phone' = phone
         \/ phone' # phone /\ Len(phone') = Len(phone) + 1 /\ phone'[Len(phone')] = what
      /\ \A m \in 1..Len(phone) : phone'[m] = phone[m]
  BY PhoneStep
<1>2. /\ Times(w) = Cardinality(Arrivals(w)) /\ IsFiniteSet(Arrivals(w)) /\ Times(w) \in Nat
      /\ Times(w)' = Cardinality(Arrivals(w)')
  <2>1. Times(w) = Cardinality(Arrivals(w)) /\ IsFiniteSet(Arrivals(w)) /\ Times(w) \in Nat
    BY PlacesCounted
  <2>2. Times(w)' = Cardinality(Arrivals(w)')
    <3>1. DOMAIN phone' = 1..Len(phone')
      BY <1>1 DEF PhoneHolds
    <3> QED
      BY <3>1 DEF Times, Arrivals
  <2> QED
    BY <2>1, <2>2
<1>3. CASE phone' = phone
  <2>1. Arrivals(w)' = Arrivals(w)
    BY <1>3 DEF Arrivals
  <2> QED
    BY <1>2, <2>1
<1>4. CASE phone' # phone
  <2>1. Len(phone') = Len(phone) + 1 /\ phone'[Len(phone')] = what
    BY <1>1, <1>4
  <2>2. Arrivals(w)' = IF w = what THEN Arrivals(w) \cup {Len(phone')} ELSE Arrivals(w)
    BY <1>1, <2>1 DEF Arrivals
  <2>3. Len(phone') \notin Arrivals(w)
    BY <1>1, <2>1 DEF Arrivals
  <2>4. CASE w = what
    <3>1. Cardinality(Arrivals(w) \cup {Len(phone')}) = Cardinality(Arrivals(w)) + 1
      BY <1>2, <2>3, FS_AddElement
    <3> QED
      BY <1>2, <1>4, <2>2, <2>4, <3>1
  <2>5. CASE w # what
    BY <1>2, <2>2, <2>5
  <2> QED
    BY <2>4, <2>5
<1> QED
  BY <1>3, <1>4

\* Sending, or trying to, puts a message after all it must come after, when what is
\* before it is covered; and what was covered stays so.
LEMMA SendKeeps ==
    ASSUME FeedInv, NEW what \in Notes, Calls(what),
           steer' = steer \/ (phone' # phone /\ steer' = steer \cup {Len(phone')}),
           dropped \subseteq dropped', UNCHANGED <<bus, first>>,
           \A j \in Nat : what = <<"bus", j>> => Covered(j - 1)
    PROVE  /\ phone' \in Seq(Notes) /\ steer' \subseteq DOMAIN phone'
           /\ NoOvertaking'
           /\ \A k \in Int : Covered(k) => Covered(k)'
<1>1. PhoneHolds(Notes)
  BY DEF FeedInv, FeedTypeOK, Notes, PhoneHolds
<1>2. /\ Len(phone) \in Nat /\ Len(phone') \in Nat
      /\ \/ phone' = phone
         \/ phone' # phone /\ Len(phone') = Len(phone) + 1 /\ phone'[Len(phone')] = what
      /\ \A m \in 1..Len(phone) : phone'[m] = phone[m]
  BY <1>1, PhoneStep
<1>3. phone \in Seq(Notes) /\ phone' \in Seq(Notes)
  <2> HIDE DEF Notes
  <2>1. CASE phone' = phone
    BY <1>1, <2>1 DEF PhoneHolds
  <2>2. CASE phone' = Append(phone, what)
    BY <1>1, <2>2, AppendProperties DEF PhoneHolds
  <2> QED
    BY <1>1, <2>1, <2>2 DEF Calls, PhoneHolds
<1>4. steer \subseteq 1..Len(phone) /\ steer' \subseteq 1..Len(phone') /\ steer \subseteq steer'
  <2>1. steer \subseteq 1..Len(phone)
    BY DEF FeedInv, FeedTypeOK
  <2>2. Len(phone') >= Len(phone) /\ (phone' # phone => Len(phone') \in 1..Len(phone'))
    BY <1>2
  <2>3. 1..Len(phone) \subseteq 1..Len(phone')
    BY <1>2, <2>2
  <2> QED
    BY <2>1, <2>2, <2>3
<1>5. \A k \in Int : Covered(k) => Covered(k)'
  BY <1>2, <1>4 DEF Covered, ForOperator
<1>6. NoOvertaking'
  <2> SUFFICES ASSUME NEW m \in 1..Len(phone'), NEW i \in DOMAIN bus, NEW j \in DOMAIN bus,
                      phone'[m] = <<"bus", j>>, first < i, i < j, ForOperator(i)
               PROVE  i \in dropped' \/ \E n \in 1..(m - 1) : phone'[n] = <<"bus", i>>
    <3>1. DOMAIN phone' = 1..Len(phone')
      BY <1>3
    <3> QED
      BY <3>1 DEF NoOvertaking, ForOperator
  <2>0. Len(bus) \in Nat /\ i \in 1..Len(bus) /\ j \in Nat
    <3>1. bus \in Seq(Kinds)
      BY DEF FeedInv, FeedTypeOK
    <3> QED
      BY <3>1, LenProperties
  <2>1. CASE m \in 1..Len(phone)
    <3>1. phone[m] = <<"bus", j>> /\ m \in DOMAIN phone
      BY <1>2, <1>3, <2>1
    <3>2. i \in dropped \/ \E n \in 1..(m - 1) : phone[n] = <<"bus", i>>
      BY <3>1 DEF FeedInv, NoOvertaking
    <3>3. \A n \in 1..(m - 1) : n \in 1..Len(phone)
      BY <1>2, <2>1
    <3> QED
      BY <1>2, <3>2, <3>3
  <2>2. CASE m \notin 1..Len(phone)
    <3>1. m = Len(phone) + 1 /\ what = <<"bus", j>>
      BY <1>2, <2>2, SMTT(20)
    <3>2. Covered(j - 1)
      BY <2>0, <3>1
    <3>3. i <= j - 1
      BY <2>0
    <3>4. i \in dropped \/ \E n \in steer : phone[n] = <<"bus", i>>
      BY <2>0, <3>2, <3>3 DEF Covered
    <3> QED
      BY <1>2, <1>4, <3>1, <3>4
  <2> QED
    BY <2>1, <2>2
<1> QED
  BY <1>3, <1>4, <1>5, <1>6

\* A call that may count a message once more is paid for, by a fault, a kill, or the
\* arrival that was due.
LEMMA PaidStep ==
    ASSUME FeedInv, NEW what, Calls(what), feedFaults' \in Nat, feedKills' \in Nat,
           \A i \in Nat : feedFaults + feedKills + Due(i) <= feedFaults' + feedKills' + Due(i)',
           \A i \in Nat : phone' # phone /\ what = <<"bus", i>> =>
               feedFaults + feedKills + Due(i) + 1 <= feedFaults' + feedKills' + Due(i)'
    PROVE  PaidFor'
<1> SUFFICES ASSUME NEW i \in Nat
             PROVE  Times(<<"bus", i>>)' <= feedFaults' + feedKills' + Due(i)'
  BY DEF PaidFor, Due
<1> DEFINE w == <<"bus", i>>
           S == Notes \cup {what}
<1>1. PhoneHolds(S) /\ what \in S
  <2>1. phone \in Seq(Notes)
    BY DEF FeedInv, FeedTypeOK, Notes
  <2> HIDE DEF Notes
  <2> QED
    BY <2>1, SeqMonotonic DEF PhoneHolds
<1>2. feedFaults \in Nat /\ feedKills \in Nat
  BY FeedConstants DEF FeedInv, FeedTypeOK
<1>3. Times(w) <= feedFaults + feedKills + Due(i)
  BY DEF FeedInv, PaidFor
<1>4. Due(i) \in Nat /\ Due(i)' \in Nat
  BY DEF Due
<1>5. feedFaults + feedKills + Due(i) <= feedFaults' + feedKills' + Due(i)'
  OBVIOUS
<1>6. phone' # phone /\ what = w => feedFaults + feedKills + Due(i) + 1 <= feedFaults' + feedKills' + Due(i)'
  OBVIOUS
<1> HIDE DEF w, S, Due
<1>7. /\ Times(w) \in Nat /\ Times(w)' \in Nat
      /\ w # what \/ phone' = phone => Times(w)' = Times(w)
      /\ Times(w)' <= Times(w) + 1
  BY <1>1, TimesStep
<1>8. Times(w)' <= feedFaults' + feedKills' + Due(i)'
  <2>1. CASE phone' # phone /\ what = w
    BY <1>2, <1>3, <1>4, <1>6, <1>7, <2>1
  <2>2. CASE ~(phone' # phone /\ what = w)
    BY <1>2, <1>3, <1>4, <1>5, <1>7, <2>2
  <2> QED
    BY <2>1, <2>2
<1> QED
  BY <1>8 DEF w

\* With the phone as it was, only what is due and what has failed matters.
LEMMA PaidStill ==
    ASSUME FeedInv, phone' = phone, feedFaults' \in Nat, feedKills' \in Nat,
           \A i \in Nat : feedFaults + feedKills + Due(i) <= feedFaults' + feedKills' + Due(i)'
    PROVE  PaidFor'
<1>1. PICK what : what = <<"say", 0>>
  OBVIOUS
<1>2. Calls(what)
  BY DEF Calls
<1> QED
  BY <1>2, PaidStep

\* ... all the more one that costs nothing and takes back no row it has passed.
LEMMA PaidQuiet ==
    ASSUME FeedInv, UNCHANGED <<phone, feedFaults, feedKills>>,
           \A i \in Nat : Due(i) <= Due(i)'
    PROVE  PaidFor'
<1>1. feedFaults \in Nat /\ feedKills \in Nat
  BY FeedConstants DEF FeedInv, FeedTypeOK
<1>2. ASSUME NEW i \in Nat
      PROVE  feedFaults + feedKills + Due(i) <= feedFaults' + feedKills' + Due(i)'
  <2>1. Due(i) \in Nat /\ Due(i)' \in Nat
    BY DEF Due
  <2>2. Due(i) <= Due(i)'
    OBVIOUS
  <2>3. feedFaults' = feedFaults /\ feedKills' = feedKills
    OBVIOUS
  <2> QED
    BY <1>1, <2>1, <2>2, <2>3
<1> QED
  BY <1>1, <1>2, PaidStill

\* A step that leaves the phone and the cursor alone leaves their order and cover alone.
LEMMA PhoneStill ==
    ASSUME FeedInv, UNCHANGED <<bus, first, phone, steer, dropped, cursor>>
    PROVE  /\ NoOvertaking' /\ Covered(cursor)'
           /\ UNCHANGED <<pass, upto, feedRows>> =>
                (pass' = "mirror" => RowsAhead' /\ Covered(upto)')
<1>1. NoOvertaking'
  <2>1. NoOvertaking
    BY DEF FeedInv
  <2> QED
    BY <2>1 DEF NoOvertaking, ForOperator
<1>2. Covered(cursor)'
  BY DEF FeedInv, Covered, ForOperator
<1>3. ASSUME UNCHANGED <<pass, upto, feedRows>>, pass = "mirror" PROVE RowsAhead' /\ Covered(upto)'
  BY <1>3 DEF FeedInv, Covered, RowsAhead, ForOperator
<1> QED
  BY <1>1, <1>2, <1>3

\* The row a pass of the mirror is at is the one after what it has done.
LEMMA NextRow ==
    ASSUME FeedInv, pass = "mirror", feedRows # {}
    PROVE  /\ Row = upto + 1 /\ upto \in Nat /\ upto + 1 \in 1..Len(bus) /\ cursor <= upto
           /\ \E r \in (upto + 1)..Len(bus) : RowsAfter = (upto + 2)..r
<1>1. Len(bus) \in Nat /\ upto \in Nat /\ cursor <= upto
  BY DEF FeedInv, FeedTypeOK, RowsAhead
<1>2. PICK r \in upto..Len(bus) : feedRows = (upto + 1)..r
  BY DEF FeedInv, RowsAhead
<1>3. upto + 1 \in feedRows /\ r \in Nat /\ upto + 1 <= r
  BY <1>1, <1>2
<1>4. feedRows \in SUBSET Nat /\ \A x \in feedRows : upto + 1 <= x
  BY <1>1, <1>2
<1>5. Row = upto + 1
  <2>1. Row \in feedRows /\ \A x \in feedRows : Row <= x
    BY <1>4, MinIsLeast DEF Row
  <2> QED
    BY <1>1, <1>3, <1>4, <2>1
<1>6. RowsAfter = (upto + 2)..r
  BY <1>1, <1>2, <1>3, <1>5 DEF RowsAfter
<1> QED
  BY <1>1, <1>2, <1>3, <1>5, <1>6

\* The row the outbox's draining is at is a row of the outbox.
LEMMA NextSay ==
    ASSUME FeedInv, pass # "mirror", feedRows # {}
    PROVE  Row \in DOMAIN outbox /\ RowsAfter \subseteq DOMAIN outbox
<1>1. feedRows \subseteq 1..Len(outbox) /\ Len(outbox) \in Nat
  BY DEF FeedInv, FeedTypeOK
<1>2. feedRows \in SUBSET Nat
  BY <1>1
<1>3. Row \in feedRows
  BY <1>2, MinIsLeast DEF Row
<1> QED
  BY <1>1, <1>3 DEF RowsAfter, FeedInv, FeedTypeOK

\* What a pass takes of the mirror fits the bucket.
LEMMA TakenRows ==
    ASSUME FeedInv, cursor # -1, NEW allowance \in Nat, allowance <= tokens,
           NEW last, last = Min({Len(bus), cursor + allowance})
    PROVE  last \in cursor..Len(bus) /\ tokens - (last - cursor) \in 0..Rate
<1>1. Len(bus) \in Nat /\ cursor \in 0..Len(bus) /\ tokens \in 0..Rate /\ Rate \in Nat
  BY FeedConstants DEF FeedInv, FeedTypeOK
<1>2. cursor + allowance \in Nat
  BY <1>1
<1>3. last \in {Len(bus), cursor + allowance} /\ last <= Len(bus) /\ last <= cursor + allowance
  BY <1>1, <1>2, MinOfTwo
<1> QED
  BY <1>1, <1>3

\* The row the mirror is at is a message of the bus, and nothing is due of it yet.
LEMMA NextHere ==
    ASSUME FeedInv, pass = "mirror", feedRows # {}
    PROVE  /\ Row = upto + 1 /\ upto \in Nat /\ upto + 1 \in 1..Len(bus) /\ cursor <= upto
           /\ <<"bus", upto + 1>> \in Notes
           /\ \A j \in Nat : <<"bus", upto + 1>> = <<"bus", j>> => j = upto + 1
<1>1. Row = upto + 1 /\ upto \in Nat /\ upto + 1 \in 1..Len(bus) /\ cursor <= upto
  BY NextRow
<1>2. DOMAIN bus = 1..Len(bus)
  BY DEF FeedInv, FeedTypeOK
<1>3. <<"bus", upto + 1>> \in Notes
  BY <1>1, <1>2 DEF Notes
<1> QED
  BY <1>1, <1>3

\* Past a row, the mirror's state is well formed.
LEMMA PastTyped ==
    ASSUME FeedInv, pass = "mirror", feedRows # {},
           (phone' \in Seq(Notes) /\ steer' \subseteq DOMAIN phone') \/ UNCHANGED <<phone, steer>>,
           UNCHANGED <<open, bus, outbox, cursor, first, pass, tokens, feedKills>>,
           \/ UNCHANGED <<stuck, dropped, feedFaults>>
           \/ /\ stuck' = <<0, 0>> /\ dropped' = dropped \cup {Row}
              /\ feedFaults' \in 0..MaxFeedFaults,
           upto' = Row, feedRows' = RowsAfter
    PROVE  FeedTypeOK'
<1>1. upto' \in -1..Len(bus)
  <2>1. Len(bus) \in Nat
    BY DEF FeedInv, FeedTypeOK
  <2> QED
    BY <2>1, NextRow
<1>2. feedRows' \subseteq DOMAIN bus
  BY DEF FeedInv, FeedTypeOK, RowsAfter
<1>3. phone' \in Seq(({"bus"} \X DOMAIN bus) \cup ({"say"} \X DOMAIN outbox)) /\ steer' \subseteq DOMAIN phone'
  BY DEF FeedInv, FeedTypeOK, Notes
<1>4. /\ stuck' \in (0..Len(bus)) \X (0..MaxSendAttempts) /\ dropped' \subseteq DOMAIN bus
      /\ feedFaults' \in 0..MaxFeedFaults
  <2>1. Row \in DOMAIN bus
    <3>1. Row \in 1..Len(bus) /\ DOMAIN bus = 1..Len(bus)
      BY NextRow, SMTT(20) DEF FeedInv, FeedTypeOK
    <3> QED
      BY <3>1
  <2>2. Len(bus) \in Nat /\ MaxSendAttempts \in Nat
    BY FeedConstants DEF FeedInv, FeedTypeOK
  <2>3. <<0, 0>> \in (0..Len(bus)) \X (0..MaxSendAttempts)
    BY <2>2
  <2> QED
    BY <2>1, <2>3 DEF FeedInv, FeedTypeOK
<1> QED
  BY <1>1, <1>2, <1>3, <1>4 DEF FeedInv, FeedTypeOK

\* What is sent is the last on the phone.
LEMMA ArrivesLast ==
    ASSUME FeedInv, NEW what \in Notes, phone' = Append(phone, what)
    PROVE  phone' # phone /\ phone'[Len(phone')] = what
<1>1. phone \in Seq(Notes)
  BY DEF FeedInv, FeedTypeOK, Notes
<1> HIDE DEF Notes
<1>2. Len(phone') = Len(phone) + 1 /\ Len(phone) \in Nat /\ phone'[Len(phone) + 1] = what
  BY <1>1, AppendProperties
<1> QED
  BY <1>2

\* A step that leaves the mirror, with at most one call to the phone, keeps the invariant.
LEMMA OutsideTheMirror ==
    ASSUME FeedInv, NEW what \in Notes, Calls(what),
           steer' = steer \/ (phone' # phone /\ steer' = steer \cup {Len(phone')}),
           UNCHANGED <<bus, cursor, first, dropped>>, pass' # "mirror",
           \A j \in Nat : what = <<"bus", j>> => Covered(j - 1),
           phone' \in Seq(Notes) /\ steer' \subseteq DOMAIN phone' => FeedTypeOK',
           PaidFor'
    PROVE  FeedInv'
<1>1. /\ phone' \in Seq(Notes) /\ steer' \subseteq DOMAIN phone'
      /\ NoOvertaking'
      /\ \A k \in Int : Covered(k) => Covered(k)'
  BY SendKeeps
<1>2. Covered(cursor)'
  <2>1. cursor \in Int /\ cursor' = cursor
    BY DEF FeedInv, FeedTypeOK
  <2>2. PICK c \in Int : c = cursor
    BY <2>1
  <2>3. Covered(c)'
    BY <1>1, <2>2 DEF FeedInv
  <2> QED
    BY <2>1, <2>2, <2>3 DEF Covered
<1> QED
  BY <1>1, <1>2 DEF FeedInv

\* A step of the mirror past a row that is on the phone, given up, or not the operator's.
LEMMA PastARow ==
    ASSUME FeedInv, pass = "mirror", feedRows # {}, NEW what \in Notes, Calls(what),
           steer' = steer \/ (phone' # phone /\ steer' = steer \cup {Len(phone')}),
           dropped \subseteq dropped', UNCHANGED <<bus, cursor, first, pass>>,
           \A j \in Nat : what = <<"bus", j>> => j = upto + 1,
           upto' = upto + 1, feedRows' = RowsAfter,
           ForOperator(upto + 1) => upto + 1 \in dropped' \/ \E m \in steer' : phone'[m] = <<"bus", upto + 1>>,
           phone' \in Seq(Notes) /\ steer' \subseteq DOMAIN phone' => FeedTypeOK',
           PaidFor'
    PROVE  FeedInv'
<1>1. /\ upto \in Nat /\ upto + 1 \in 1..Len(bus) /\ cursor <= upto /\ Len(bus) \in Nat /\ cursor \in Int
      /\ \E r \in (upto + 1)..Len(bus) : RowsAfter = (upto + 2)..r
  <2>1. Len(bus) \in Nat /\ cursor \in Int
    BY DEF FeedInv, FeedTypeOK
  <2> QED
    BY <2>1, NextRow
<1>2. Covered(upto) /\ Covered(cursor)
  BY DEF FeedInv
<1>3. \A j \in Nat : what = <<"bus", j>> => Covered(j - 1)
  <2> SUFFICES ASSUME NEW j \in Nat, what = <<"bus", j>> PROVE Covered(j - 1)
    OBVIOUS
  <2>1. j - 1 = upto
    BY <1>1
  <2> QED
    BY <1>2, <2>1
<1>4. /\ phone' \in Seq(Notes) /\ steer' \subseteq DOMAIN phone'
      /\ NoOvertaking'
      /\ \A k \in Int : Covered(k) => Covered(k)'
  BY <1>3, SendKeeps
<1>5. PICK u \in Nat, c \in Int : u = upto /\ c = cursor
  BY <1>1
<1>6. Covered(u)' /\ Covered(c)'
  BY <1>2, <1>4, <1>5
<1>7. Covered(cursor)'
  BY <1>5, <1>6 DEF Covered
<1>8. Covered(upto)'
  <2> SUFFICES ASSUME NEW i \in 1..Len(bus), first < i, i <= u + 1, ForOperator(i)
               PROVE  i \in dropped' \/ \E m \in steer' : phone'[m] = <<"bus", i>>
    BY <1>5 DEF Covered, ForOperator
  <2>1. CASE i <= u
    BY <1>6, <2>1 DEF Covered, ForOperator
  <2>2. CASE i = u + 1
    BY <1>5, <2>2
  <2> QED
    BY <1>1, <2>1, <2>2
<1>9. RowsAhead'
  <2>1. PICK r \in (upto + 1)..Len(bus) : RowsAfter = (upto + 2)..r
    BY <1>1
  <2>2. r \in upto'..Len(bus') /\ feedRows' = (upto' + 1)..r
    BY <1>1, <2>1
  <2>3. upto' \in 0..Len(bus') /\ cursor' <= upto'
    BY <1>1
  <2> QED
    BY <2>2, <2>3 DEF RowsAhead
<1> QED
  BY <1>4, <1>7, <1>8, <1>9 DEF FeedInv

\* Sending, failing, giving up, saving the cursor and a kill between any two of them keep
\* the invariant; only an arrival and giving up widen what is covered.
LEMMA FeedInvHolds == FeedSpec => []FeedInv
<1>1. FeedInit => FeedInv
  <2> SUFFICES ASSUME FeedInit PROVE FeedInv
    OBVIOUS
  <2> USE FeedConstants DEF FeedInit
  <2>1. /\ phone = <<>> /\ bus = <<>> /\ outbox = <<>>
        /\ Len(bus) = 0 /\ DOMAIN phone = {} /\ DOMAIN bus = {} /\ DOMAIN outbox = {}
    OBVIOUS
  <2>2. FeedTypeOK
    <3>1. /\ phone \in Seq(Notes) /\ bus \in Seq(Kinds)
          /\ outbox \in Seq([ok : BOOLEAN, sent : BOOLEAN])
      OBVIOUS
    <3>2. phone \in Seq(({"bus"} \X DOMAIN bus) \cup ({"say"} \X DOMAIN outbox))
      BY <3>1 DEF Notes
    <3>3. /\ open \in BOOLEAN /\ steer \subseteq DOMAIN phone /\ pass \in {"rest", "say", "mirror"}
          /\ feedRows \subseteq DOMAIN (IF pass = "mirror" THEN bus ELSE outbox)
          /\ dropped \subseteq DOMAIN bus
      OBVIOUS
    <3>4. /\ cursor \in -1..0 /\ first \in -1..cursor /\ upto \in -1..0
          /\ tokens \in 0..Rate /\ stuck \in (0..0) \X (0..MaxSendAttempts)
          /\ feedFaults \in 0..MaxFeedFaults /\ feedKills \in 0..MaxFeedKills
      OBVIOUS
    <3>5. Len(bus) = 0
      BY <2>1
    <3> HIDE DEF FeedInit
    <3> QED
      BY <3>1, <3>2, <3>3, <3>4, <3>5 DEF FeedTypeOK
  <2>3. NoOvertaking /\ Covered(cursor)
    BY <2>1 DEF NoOvertaking, Covered
  <2>4. PaidFor
    <3>1. \A w : Times(w) = 0
      BY <2>1, FS_EmptySet DEF Times
    <3> QED
      BY <3>1 DEF PaidFor, Due
  <2> QED
    BY <2>2, <2>3, <2>4 DEF FeedInv
<1>2. FeedInv /\ [FeedNext]_feedVars => FeedInv'
  <2> SUFFICES ASSUME FeedInv, [FeedNext]_feedVars PROVE FeedInv'
    OBVIOUS
  <2> USE FeedConstants
  <2>0. feedFaults \in Nat /\ feedKills \in Nat
    BY DEF FeedInv, FeedTypeOK
  <2>1. /\ Len(bus) \in Nat /\ Len(outbox) \in Nat /\ cursor \in -1..Len(bus) /\ first \in -1..cursor
        /\ feedFaults \in Nat /\ feedKills \in Nat /\ tokens \in Nat
    <3>1. bus \in Seq(Kinds) /\ outbox \in Seq([ok : BOOLEAN, sent : BOOLEAN])
      BY DEF FeedInv, FeedTypeOK
    <3>2. cursor \in -1..Len(bus) /\ first \in -1..cursor /\ tokens \in 0..Rate /\ Rate \in Nat
      BY DEF FeedInv, FeedTypeOK
    <3> QED
      BY <2>0, <3>1, <3>2, LenProperties
  <2>2. ASSUME NEW kind \in Kinds, Post(kind) PROVE FeedInv'
    <3>1. bus' \in Seq(Kinds) /\ Len(bus') = Len(bus) + 1 /\ \A i \in 1..Len(bus) : bus'[i] = bus[i]
      BY <2>2, AppendProperties DEF Post, FeedInv, FeedTypeOK
    <3>2. /\ UNCHANGED <<open, outbox, cursor, first, phone, steer, pass, feedRows, upto, tokens,
                         stuck, dropped, feedFaults, feedKills>>
      BY <2>2 DEF Post, memory
    <3>3. DOMAIN bus = 1..Len(bus) /\ DOMAIN bus' = 1..Len(bus') /\ DOMAIN bus \subseteq DOMAIN bus'
      <4>1. DOMAIN bus = 1..Len(bus) /\ DOMAIN bus' = 1..Len(bus')
        BY <3>1 DEF FeedInv, FeedTypeOK
      <4> QED
        BY <2>1, <3>1, <4>1
    <3>4. phone' \in Seq(Notes') /\ phone \in Seq(Notes)
      <4>1. phone \in Seq(Notes) /\ Notes \subseteq Notes'
        BY <3>2, <3>3 DEF FeedInv, FeedTypeOK, Notes
      <4> HIDE DEF Notes
      <4> QED
        BY <3>2, <4>1, SeqMonotonic
    <3>5. FeedTypeOK'
      <4>1. /\ cursor' \in -1..Len(bus') /\ first' \in -1..cursor' /\ upto' \in -1..Len(bus')
            /\ stuck' \in (0..Len(bus')) \X (0..MaxSendAttempts)
        <5>1. /\ upto \in -1..Len(bus) /\ stuck \in (0..Len(bus)) \X (0..MaxSendAttempts)
          BY DEF FeedInv, FeedTypeOK
        <5>2. Len(bus') = Len(bus) + 1
          BY <3>1
        <5>3. (0..Len(bus)) \subseteq 0..Len(bus')
          BY <2>1, <5>2
        <5> QED
          BY <2>1, <3>2, <5>1, <5>2, <5>3, SMTT(20)
      <4>2. feedRows' \subseteq DOMAIN (IF pass' = "mirror" THEN bus' ELSE outbox')
        BY <3>2, <3>3 DEF FeedInv, FeedTypeOK
      <4> QED
        BY <3>1, <3>2, <3>3, <3>4, <4>1, <4>2 DEF FeedInv, FeedTypeOK, Notes
    <3>6. NoOvertaking'
      <4> SUFFICES ASSUME NEW m \in DOMAIN phone, NEW i \in DOMAIN bus', NEW j \in DOMAIN bus',
                          phone[m] = <<"bus", j>>, first < i, i < j, ForOperator(i)'
                   PROVE  i \in dropped \/ \E n \in 1..(m - 1) : phone[n] = <<"bus", i>>
        BY <3>2 DEF NoOvertaking
      <4>1. j \in DOMAIN bus
        BY <3>4 DEF Notes
      <4>2. i \in 1..Len(bus) /\ i \in DOMAIN bus
        BY <2>1, <3>1, <3>3, <4>1, SMTT(20)
      <4>3. ForOperator(i)
        BY <3>1, <4>2 DEF ForOperator
      <4> QED
        BY <4>1, <4>2, <4>3 DEF FeedInv, NoOvertaking
    <3>7. ASSUME NEW k \in Int, k <= Len(bus), Covered(k) PROVE Covered(k)'
      <4> SUFFICES ASSUME NEW i \in 1..Len(bus'), first < i, i <= k, bus'[i] \in {"addressed", "unacceptable"}
                   PROVE  i \in dropped \/ \E m \in steer : phone[m] = <<"bus", i>>
        BY <3>2 DEF Covered, ForOperator
      <4>1. Len(bus') = Len(bus) + 1
        BY <3>1
      <4>2. i \in 1..Len(bus)
        BY <2>1, <3>7, <4>1, SMTT(20)
      <4>3. bus'[i] = bus[i]
        BY <3>1, <4>2
      <4> QED
        BY <3>7, <4>2, <4>3 DEF Covered, ForOperator
    <3>8. PICK c \in Int, u \in Int : c = cursor /\ (pass = "mirror" => u = upto)
      BY <2>1 DEF FeedInv, RowsAhead
    <3>9. Covered(c)' /\ (pass = "mirror" => Covered(u)')
      <4>1. Covered(c) /\ c <= Len(bus)
        BY <2>1, <3>8 DEF FeedInv
      <4>2. pass = "mirror" => Covered(u) /\ u <= Len(bus)
        BY <2>1, <3>8 DEF FeedInv, RowsAhead
      <4> QED
        BY <3>7, <4>1, <4>2
    <3>10. Covered(cursor)' /\ (pass = "mirror" => Covered(upto)')
      <4>1. cursor' = c /\ (pass = "mirror" => upto' = u)
        BY <3>2, <3>8
      <4> QED
        BY <3>9, <4>1 DEF Covered
    <3>11. pass' = "mirror" => RowsAhead'
      <4> SUFFICES ASSUME pass = "mirror" PROVE RowsAhead'
        BY <3>2
      <4>1. RowsAhead
        BY DEF FeedInv
      <4>2. upto \in 0..Len(bus') /\ \A r \in upto..Len(bus) : r \in upto..Len(bus')
        <5>1. upto \in 0..Len(bus) /\ Len(bus) \in Nat
          BY <2>1, <4>1 DEF RowsAhead
        <5>2. Len(bus') = Len(bus) + 1
          BY <3>1
        <5> QED
          BY <5>1, <5>2
      <4> QED
        BY <3>2, <4>1, <4>2 DEF RowsAhead
    <3>12. PaidFor'
      BY <3>2, PaidQuiet DEF Due
    <3> QED
      BY <3>2, <3>5, <3>6, <3>10, <3>11, <3>12 DEF FeedInv
  <2>3. ASSUME NEW ok \in BOOLEAN, enqueue_say(ok) PROVE FeedInv'
    <3>1. /\ outbox' \in Seq([ok : BOOLEAN, sent : BOOLEAN]) /\ Len(outbox') = Len(outbox) + 1
      BY <2>3, AppendProperties DEF enqueue_say, FeedInv, FeedTypeOK
    <3>2. /\ UNCHANGED <<open, bus, cursor, first, phone, steer, pass, feedRows, upto, tokens,
                         stuck, dropped, feedFaults, feedKills>>
      BY <2>3 DEF enqueue_say, memory
    <3>3. DOMAIN outbox \subseteq DOMAIN outbox'
      <4>1. DOMAIN outbox = 1..Len(outbox) /\ DOMAIN outbox' = 1..Len(outbox')
        BY <3>1 DEF FeedInv, FeedTypeOK
      <4> QED
        BY <2>1, <3>1, <4>1
    <3>4. phone' \in Seq(Notes')
      <4>1. phone \in Seq(Notes) /\ Notes \subseteq Notes'
        BY <3>2, <3>3 DEF FeedInv, FeedTypeOK, Notes
      <4> HIDE DEF Notes
      <4> QED
        BY <3>2, <4>1, SeqMonotonic
    <3>5. FeedTypeOK'
      <4>1. feedRows' \subseteq DOMAIN (IF pass' = "mirror" THEN bus' ELSE outbox')
        BY <3>2, <3>3 DEF FeedInv, FeedTypeOK
      <4> QED
        BY <3>1, <3>2, <3>4, <4>1 DEF FeedInv, FeedTypeOK, Notes
    <3>6. PaidFor'
      BY <3>2, PaidQuiet DEF Due
    <3>7. NoOvertaking' /\ Covered(cursor)' /\ (pass' = "mirror" => RowsAhead' /\ Covered(upto)')
      BY <3>2, PhoneStill
    <3> QED
      BY <3>5, <3>6, <3>7 DEF FeedInv
  <2>4. CASE Gate \/ Refill \/ UNCHANGED feedVars
    <3>1. /\ UNCHANGED <<bus, outbox, cursor, first, phone, steer, pass, feedRows, upto,
                         stuck, dropped, feedFaults, feedKills>>
          /\ open' \in BOOLEAN /\ tokens' \in 0..Rate
      <4>1. open \in BOOLEAN /\ tokens \in 0..Rate /\ Rate \in Nat
        BY DEF FeedInv, FeedTypeOK
      <4>2. CASE Gate
        BY <4>1, <4>2 DEF Gate, memory
      <4>3. CASE Refill
        BY <4>1, <4>3 DEF Refill
      <4>4. CASE UNCHANGED feedVars
        BY <4>1, <4>4 DEF feedVars, memory
      <4> QED
        BY <2>4, <4>2, <4>3, <4>4
    <3>2. FeedTypeOK'
      BY <3>1 DEF FeedInv, FeedTypeOK
    <3>3. PaidFor'
      BY <3>1, PaidQuiet DEF Due
    <3>4. NoOvertaking' /\ Covered(cursor)' /\ (pass' = "mirror" => RowsAhead' /\ Covered(upto)')
      BY <3>1, PhoneStill
    <3> QED
      BY <3>2, <3>3, <3>4 DEF FeedInv
  <2>5. CASE StartPass
    <3>1. /\ UNCHANGED <<open, bus, outbox, cursor, first, phone, steer, upto, tokens,
                         stuck, dropped, feedFaults, feedKills>>
          /\ pass = "rest" /\ pass' = "say" /\ feedRows' \subseteq DOMAIN outbox
      BY <2>5 DEF StartPass, unsent_outbox, Unsent
    <3>2. FeedTypeOK'
      BY <3>1 DEF FeedInv, FeedTypeOK
    <3>3. PaidFor'
      BY <3>1, PaidQuiet DEF Due
    <3>4. NoOvertaking' /\ Covered(cursor)'
      BY <3>1, PhoneStill
    <3> QED
      BY <3>1, <3>2, <3>3, <3>4 DEF FeedInv
  <2>6. CASE SayOne
    <3> DEFINE what == <<"say", Row>>
    <3>1. /\ pass = "say" /\ pass' = pass /\ feedRows # {} /\ feedRows' = RowsAfter
          /\ phone' = Append(phone, what) /\ steer' = steer \cup {Len(phone')}
          /\ outbox' = [outbox EXCEPT ![Row].sent = TRUE]
          /\ UNCHANGED <<open, bus, cursor, first, upto, tokens, stuck, dropped, feedFaults, feedKills>>
      BY <2>6 DEF SayOne, Arrives
    <3>2. Row \in DOMAIN outbox /\ RowsAfter \subseteq DOMAIN outbox
      BY <3>1, NextSay
    <3>3. what \in Notes /\ \A j : what # <<"bus", j>>
      BY <3>2 DEF Notes
    <3>4. /\ outbox' \in Seq([ok : BOOLEAN, sent : BOOLEAN]) /\ DOMAIN outbox' = DOMAIN outbox
      <4>1. outbox \in Seq([ok : BOOLEAN, sent : BOOLEAN]) /\ Row \in 1..Len(outbox)
        <5>1. outbox \in Seq([ok : BOOLEAN, sent : BOOLEAN])
          BY DEF FeedInv, FeedTypeOK
        <5> QED
          BY <3>2, <5>1
      <4>2. [outbox[Row] EXCEPT !.sent = TRUE] \in [ok : BOOLEAN, sent : BOOLEAN]
        <5>1. outbox[Row] \in [ok : BOOLEAN, sent : BOOLEAN]
          BY <4>1, ElementOfSeq
        <5> QED
          BY <5>1
      <4>3. outbox' = [outbox EXCEPT ![Row] = [outbox[Row] EXCEPT !.sent = TRUE]]
        BY <3>1
      <4> QED
        BY <4>1, <4>2, <4>3, ExceptSeq
    <3> HIDE DEF what
    <3>5. Calls(what) /\ phone' # phone
      <4>1. phone \in Seq(Notes)
        BY DEF FeedInv, FeedTypeOK, Notes
      <4> HIDE DEF Notes
      <4>2. Len(phone') = Len(phone) + 1 /\ Len(phone) \in Nat
        BY <3>1, <3>3, <4>1, AppendProperties
      <4> QED
        BY <3>1, <4>2 DEF Calls
    <3>6. PaidFor'
      <4>1. \A i \in Nat : Due(i)' = Due(i) /\ Due(i) \in Nat
        BY <3>1 DEF Due
      <4>2. \A i \in Nat : feedFaults + feedKills + Due(i) <= feedFaults' + feedKills' + Due(i)'
        <5>1. feedFaults' = feedFaults /\ feedKills' = feedKills
          BY <3>1
        <5> QED
          BY <2>1, <4>1, <5>1, SMTT(20)
      <4> QED
        BY <2>1, <3>1, <3>3, <3>5, <4>2, PaidStep
    <3>7. phone' \in Seq(Notes) /\ steer' \subseteq DOMAIN phone' => FeedTypeOK'
      BY <3>1, <3>2, <3>4 DEF FeedInv, FeedTypeOK, Notes
    <3> QED
      BY <3>1, <3>3, <3>5, <3>6, <3>7, OutsideTheMirror
  <2>7. CASE SayFails
    <3> DEFINE what == <<"say", Row>>
    <3>1. /\ pass = "say" /\ pass' = pass /\ feedRows # {} /\ feedRows' = {}
          /\ phone' = phone \/ phone' = Append(phone, what)
          /\ UNCHANGED <<open, bus, outbox, cursor, first, steer, upto, tokens, stuck, dropped, feedKills>>
          /\ feedFaults' \in 0..MaxFeedFaults /\ feedFaults <= feedFaults'
      <4>1. feedFaults \in 0..MaxFeedFaults /\ MaxFeedFaults \in Nat
        BY DEF FeedInv, FeedTypeOK
      <4> QED
        BY <2>7, <4>1, SMTT(20) DEF SayFails, Fails
    <3>2. Row \in DOMAIN outbox
      BY <3>1, NextSay
    <3>3. what \in Notes /\ \A j : what # <<"bus", j>>
      BY <3>2 DEF Notes
    <3> HIDE DEF what
    <3>4. Calls(what) /\ feedFaults' \in Nat
      BY <2>1, <3>1 DEF Calls
    <3>5. PaidFor'
      <4>1. \A i \in Nat : Due(i)' = Due(i) /\ Due(i) \in Nat
        BY <3>1 DEF Due
      <4>2. \A i \in Nat : feedFaults + feedKills + Due(i) <= feedFaults' + feedKills' + Due(i)'
        <5>1. feedFaults <= feedFaults' /\ feedKills' = feedKills /\ feedFaults' \in Nat
          BY <3>1, <3>4
        <5>2. feedFaults \in Nat /\ feedKills \in Nat
          BY <2>1
        <5> QED
          BY <4>1, <5>1, <5>2
      <4> QED
        BY <2>1, <3>1, <3>3, <3>4, <4>2, PaidStep
    <3>6. phone' \in Seq(Notes) /\ steer' \subseteq DOMAIN phone' => FeedTypeOK'
      BY <2>1, <3>1, <3>4 DEF FeedInv, FeedTypeOK, Notes
    <3> QED
      BY <3>1, <3>3, <3>4, <3>5, <3>6, OutsideTheMirror
  <2>8. CASE StartMirror
    <3> DEFINE allowance == Min({tokens, Batch})
               last == Min({Len(bus), cursor + allowance})
    <3>1. allowance \in Nat /\ allowance <= tokens
      <4>1. Batch \in Nat
        OBVIOUS
      <4> QED
        BY <2>1, <4>1, MinOfTwo
    <3>2. /\ UNCHANGED <<open, bus, outbox, phone, steer, stuck, dropped, feedFaults, feedKills>>
          /\ \/ pass' = "rest" /\ UNCHANGED <<cursor, first, feedRows, upto, tokens>>
             \/ /\ cursor = -1 /\ cursor' = Len(bus) /\ first' = Len(bus) /\ pass' = "rest"
                /\ UNCHANGED <<feedRows, upto, tokens>>
             \/ /\ cursor # -1 /\ feedRows' = (cursor + 1)..last /\ tokens' = tokens - (last - cursor)
                /\ upto' = cursor /\ pass' = "mirror" /\ UNCHANGED <<cursor, first>>
          /\ pass = "say" /\ feedRows = {}
      <4> HIDE DEF last
      <4>1. allowance # 0 /\ ~(allowance > 0 /\ cursor = -1) => cursor # -1
        BY <3>1
      <4>2. /\ UNCHANGED <<open, bus, outbox, phone, steer, stuck, dropped, feedFaults, feedKills>>
            /\ pass = "say" /\ feedRows = {}
        BY <2>8 DEF StartMirror
      <4>3. CASE allowance = 0
        BY <2>8, <4>2, <4>3 DEF StartMirror
      <4>4. CASE allowance > 0 /\ cursor = -1
        BY <2>8, <4>2, <4>4 DEF StartMirror
      <4>5. CASE allowance # 0 /\ ~(allowance > 0 /\ cursor = -1)
        BY <2>8, <4>1, <4>2, <4>5 DEF StartMirror, last
      <4> QED
        BY <4>3, <4>4, <4>5
    <3> HIDE DEF allowance
    <3>3. CASE pass' = "rest" /\ UNCHANGED <<cursor, first, feedRows, upto, tokens>>
      <4>1. NoOvertaking' /\ Covered(cursor)'
        BY <3>2, <3>3, PhoneStill
      <4>2. FeedTypeOK'
        BY <3>2, <3>3 DEF FeedInv, FeedTypeOK
      <4>3. PaidFor'
        <5>1. \A i \in Nat : Due(i)' = Due(i) /\ Due(i) \in Nat
          BY <3>2, <3>3 DEF Due
        <5> QED
          BY <3>2, <5>1, PaidQuiet
      <4> QED
        BY <3>3, <4>1, <4>2, <4>3 DEF FeedInv
    <3>4. CASE /\ cursor = -1 /\ cursor' = Len(bus) /\ first' = Len(bus) /\ pass' = "rest"
               /\ UNCHANGED <<feedRows, upto, tokens>>
      <4>1. Covered(cursor)'
        <5>1. first' = cursor' /\ cursor' \in Nat
          BY <2>1, <3>4
        <5> QED
          BY <5>1 DEF Covered
      <4>2. NoOvertaking'
        <5>1. \A i \in DOMAIN bus : ~(first' < i)
          <6>1. DOMAIN bus = 1..Len(bus)
            BY DEF FeedInv, FeedTypeOK
          <6>2. \A i \in 1..Len(bus) : ~(first' < i)
            BY <2>1, <3>4
          <6> QED
            BY <6>1, <6>2
        <5> QED
          BY <3>2, <5>1 DEF NoOvertaking
      <4>3. FeedTypeOK'
        <5>1. cursor' \in -1..Len(bus) /\ first' \in -1..cursor'
          BY <2>1, <3>4
        <5> QED
          BY <3>2, <3>4, <5>1 DEF FeedInv, FeedTypeOK
      <4>4. PaidFor'
        <5>1. \A i \in Nat : Due(i)' \in Nat /\ Due(i) \in Nat /\ Due(i) <= Due(i)'
          <6> SUFFICES ASSUME NEW i \in Nat PROVE Due(i)' \in Nat /\ Due(i) \in Nat /\ Due(i) <= Due(i)'
            OBVIOUS
          <6>1. Due(i) = 0
            BY <3>2, <3>4 DEF Due
          <6> QED
            BY <6>1 DEF Due
        <5> QED
          BY <3>2, <5>1, PaidQuiet
      <4> QED
        BY <3>4, <4>1, <4>2, <4>3, <4>4 DEF FeedInv
    <3>5. CASE /\ cursor # -1 /\ feedRows' = (cursor + 1)..last /\ tokens' = tokens - (last - cursor)
               /\ upto' = cursor /\ pass' = "mirror" /\ UNCHANGED <<cursor, first>>
      <4>1. last \in cursor..Len(bus) /\ tokens' \in 0..Rate
        BY <3>1, <3>5, TakenRows
      <4> HIDE DEF last
      <4>2. RowsAhead'
        <5>1. upto' = cursor /\ cursor' = cursor /\ Len(bus') = Len(bus) /\ cursor \in 0..Len(bus)
          BY <2>1, <3>2, <3>5
        <5>2. feedRows' = (upto' + 1)..last /\ last \in upto'..Len(bus')
          BY <3>5, <4>1, <5>1
        <5> QED
          BY <2>1, <5>1, <5>2, SMTT(20) DEF RowsAhead
      <4>3. NoOvertaking' /\ Covered(cursor)'
        BY <3>2, <3>5, PhoneStill
      <4>4. Covered(upto)'
        BY <3>5, <4>3 DEF Covered
      <4>5. FeedTypeOK'
        <5>1. feedRows' \subseteq 1..Len(bus)
          BY <2>1, <3>5, <4>1
        <5>2. upto' \in -1..Len(bus)
          BY <2>1, <3>5
        <5>3. DOMAIN bus = 1..Len(bus)
          BY DEF FeedInv, FeedTypeOK
        <5>4. feedRows' \subseteq DOMAIN (IF pass' = "mirror" THEN bus' ELSE outbox')
          BY <3>2, <3>5, <5>1, <5>3
        <5> QED
          BY <3>2, <3>5, <4>1, <5>2, <5>4 DEF FeedInv, FeedTypeOK
      <4>6. PaidFor'
        <5>1. \A i \in Nat : Due(i)' = Due(i) /\ Due(i) \in Nat
          BY <2>1, <3>2, <3>5 DEF Due
        <5> QED
          BY <3>2, <5>1, PaidQuiet
      <4> QED
        BY <4>2, <4>3, <4>4, <4>5, <4>6 DEF FeedInv
    <3> QED
      BY <3>2, <3>3, <3>4, <3>5
  <2>9. CASE MirrorPasses
    <3> DEFINE what == <<"bus", upto + 1>>
    <3>1. /\ pass = "mirror" /\ pass' = pass /\ feedRows # {} /\ ~ForOperator(Row)
          /\ upto' = Row /\ feedRows' = RowsAfter
          /\ UNCHANGED <<open, bus, outbox, cursor, first, phone, steer, tokens, stuck, dropped,
                         feedFaults, feedKills>>
      BY <2>9 DEF MirrorPasses
    <3>2. Row = upto + 1 /\ upto \in Nat /\ upto + 1 \in 1..Len(bus) /\ what \in Notes
          /\ \A j \in Nat : what = <<"bus", j>> => j = upto + 1
      BY <3>1, NextHere
    <3> HIDE DEF what
    <3>3. Calls(what)
      BY <3>1 DEF Calls
    <3>4. PaidFor'
      <4>1. \A i \in Nat : Due(i)' \in Nat /\ Due(i) \in Nat /\ Due(i) <= Due(i)'
        BY <2>1, <3>1, <3>2 DEF Due
      <4> QED
        BY <3>1, <4>1, PaidQuiet
    <3>5. FeedTypeOK'
      BY <3>1, <3>2, PastTyped
    <3> QED
      BY <3>1, <3>2, <3>3, <3>4, <3>5, PastARow
  <2>10. CASE MirrorOne
    <3> DEFINE what == <<"bus", upto + 1>>
    <3>1. /\ pass = "mirror" /\ pass' = pass /\ feedRows # {} /\ phone' = Append(phone, <<"bus", Row>>)
          /\ steer' = steer \cup {Len(phone')} /\ upto' = Row /\ feedRows' = RowsAfter
          /\ UNCHANGED <<open, bus, outbox, cursor, first, tokens, stuck, dropped,
                         feedFaults, feedKills>>
      BY <2>10 DEF MirrorOne, Arrives
    <3>2. Row = upto + 1 /\ upto \in Nat /\ upto + 1 \in 1..Len(bus) /\ what \in Notes
          /\ cursor <= upto /\ \A j \in Nat : what = <<"bus", j>> => j = upto + 1
      BY <3>1, NextHere
    <3>3. phone' = Append(phone, what)
      BY <3>1, <3>2
    <3> HIDE DEF what
    <3>4. Calls(what) /\ phone' # phone /\ phone'[Len(phone')] = what
      BY <3>2, <3>3, ArrivesLast DEF Calls
    <3>5. PaidFor'
      <4>1. \A i \in Nat : Due(i)' \in Nat /\ Due(i) \in Nat /\ Due(i) <= Due(i)'
        BY <2>1, <3>1, <3>2 DEF Due
      <4>2. \A i \in Nat : i = upto + 1 => Due(i) = 0 /\ Due(i)' = 1
        BY <2>1, <3>1, <3>2 DEF Due
      <4>3. \A i \in Nat : feedFaults + feedKills + Due(i) <= feedFaults' + feedKills' + Due(i)'
        <5>1. feedFaults' = feedFaults /\ feedKills' = feedKills
          BY <3>1
        <5> QED
          BY <2>0, <4>1, <5>1
      <4>4. \A i \in Nat : what = <<"bus", i>> =>
               feedFaults + feedKills + Due(i) + 1 <= feedFaults' + feedKills' + Due(i)'
        <5> SUFFICES ASSUME NEW i \in Nat, what = <<"bus", i>>
                     PROVE  feedFaults + feedKills + Due(i) + 1 <= feedFaults' + feedKills' + Due(i)'
          OBVIOUS
        <5>1. Due(i) = 0 /\ Due(i)' = 1
          BY <3>2, <4>2
        <5>2. feedFaults' = feedFaults /\ feedKills' = feedKills
          BY <3>1
        <5> QED
          BY <2>1, <5>1, <5>2
      <4> QED
        BY <2>1, <3>1, <3>4, <4>3, <4>4, PaidStep
    <3>6. phone' \in Seq(Notes) /\ steer' \subseteq DOMAIN phone' => FeedTypeOK'
      BY <3>1, <3>2, PastTyped
    <3>7. \E m \in steer' : phone'[m] = <<"bus", upto + 1>>
      BY <3>1, <3>4 DEF what
    <3> QED
      BY <3>1, <3>2, <3>4, <3>5, <3>6, <3>7, PastARow
  <2>11. CASE MirrorFails
    <3> DEFINE what == <<"bus", upto + 1>>
    <3>1. pass = "mirror" /\ feedRows # {}
      BY <2>11 DEF MirrorFails
    <3>2. Row = upto + 1 /\ upto \in Nat /\ upto + 1 \in 1..Len(bus) /\ what \in Notes
          /\ cursor <= upto /\ \A j \in Nat : what = <<"bus", j>> => j = upto + 1
      BY <3>1, NextHere
    <3>3. feedFaults \in 0..MaxFeedFaults /\ MaxFeedFaults \in Nat
      BY DEF FeedInv, FeedTypeOK
    <3>4. /\ Calls(what) /\ feedFaults' \in 0..MaxFeedFaults /\ feedFaults <= feedFaults'
          /\ phone' # phone => feedFaults' = feedFaults + 1
      <4>1. Fails(what, bus[Row] = "addressed")
        BY <2>11, <3>2 DEF MirrorFails
      <4>2. CASE bus[Row] = "addressed"
        BY <3>3, <4>1, <4>2 DEF Fails, Calls
      <4>3. CASE bus[Row] # "addressed"
        BY <3>3, <4>1, <4>3 DEF Fails, Calls
      <4> QED
        BY <4>2, <4>3
    <3>5. UNCHANGED <<open, bus, outbox, cursor, first, steer, pass, tokens, feedKills>>
      BY <2>11 DEF MirrorFails
    <3>6. \/ /\ stuck' = <<0, 0>> /\ dropped' = dropped \cup {Row}
             /\ upto' = Row /\ feedRows' = RowsAfter
          \/ /\ Attempts(Row) <= MaxSendAttempts /\ stuck' = <<Row, Attempts(Row)>>
             /\ feedRows' = {} /\ UNCHANGED <<dropped, upto>>
      <4>1. Attempts(Row) \in Nat /\ MaxSendAttempts \in Nat
        <5>1. stuck[2] \in Nat
          BY DEF FeedInv, FeedTypeOK
        <5> QED
          BY <5>1 DEF Attempts
      <4> HIDE DEF what
      <4> QED
        BY <2>11, <4>1 DEF MirrorFails
    <3> HIDE DEF what
    <3>7. ASSUME \A i \in Nat : Due(i)' \in Nat /\ Due(i) \in Nat /\ Due(i) <= Due(i)'
          PROVE  PaidFor'
      <4>1. feedFaults' \in Nat /\ feedKills' = feedKills
        BY <3>4, <3>5
      <4>2. \A i \in Nat : feedFaults + feedKills + Due(i) <= feedFaults' + feedKills' + Due(i)'
        BY <2>0, <3>4, <3>7, <4>1
      <4>3. ASSUME phone' # phone
            PROVE  \A i \in Nat : feedFaults + feedKills + Due(i) + 1 <= feedFaults' + feedKills' + Due(i)'
        <5>1. feedFaults' = feedFaults + 1
          BY <3>4, <4>3
        <5> QED
          BY <2>0, <3>7, <4>1, <5>1
      <4> QED
        BY <2>0, <3>4, <4>1, <4>2, <4>3, PaidStep
    <3>8. CASE /\ stuck' = <<0, 0>> /\ dropped' = dropped \cup {Row}
               /\ upto' = Row /\ feedRows' = RowsAfter
      <4>1. \A i \in Nat : Due(i)' \in Nat /\ Due(i) \in Nat /\ Due(i) <= Due(i)'
        BY <2>1, <3>1, <3>2, <3>5, <3>8 DEF Due
      <4>2. PaidFor'
        BY <3>7, <4>1
      <4>3. phone' \in Seq(Notes) /\ steer' \subseteq DOMAIN phone' => FeedTypeOK'
        BY <3>1, <3>4, <3>5, <3>8, PastTyped
      <4> QED
        BY <3>1, <3>2, <3>4, <3>5, <3>8, <4>2, <4>3, PastARow
    <3>9. CASE /\ Attempts(Row) <= MaxSendAttempts /\ stuck' = <<Row, Attempts(Row)>>
               /\ feedRows' = {} /\ UNCHANGED <<dropped, upto>>
      <4>1. \A i \in Nat : Due(i)' = Due(i) /\ Due(i) \in Nat
        BY <3>5, <3>9 DEF Due
      <4>2. PaidFor'
        BY <2>0, <3>7, <4>1
      <4>3. Covered(upto) /\ Covered(cursor) /\ upto \in 0..Len(bus) /\ cursor <= upto
        BY <3>1 DEF FeedInv, RowsAhead
      <4>4. \A j \in Nat : what = <<"bus", j>> => Covered(j - 1)
        <5> SUFFICES ASSUME NEW j \in Nat, what = <<"bus", j>> PROVE Covered(j - 1)
          OBVIOUS
        <5>1. j - 1 = upto
          BY <3>2
        <5> QED
          BY <4>3, <5>1
      <4>5. /\ phone' \in Seq(Notes) /\ steer' \subseteq DOMAIN phone'
            /\ NoOvertaking'
            /\ \A k \in Int : Covered(k) => Covered(k)'
        BY <3>2, <3>4, <3>5, <3>9, <4>4, SendKeeps
      <4>6. Covered(upto)' /\ Covered(cursor)'
        <5>1. PICK u \in Nat, c \in Int : u = upto /\ c = cursor
          BY <2>1, <3>2
        <5>2. Covered(u)' /\ Covered(c)'
          BY <4>3, <4>5, <5>1
        <5> QED
          BY <3>5, <3>9, <5>1, <5>2 DEF Covered
      <4>7. RowsAhead'
        <5>1. {} = (upto + 1)..upto /\ upto \in upto..Len(bus)
          BY <2>1, <4>3
        <5> QED
          BY <3>5, <3>9, <4>3, <5>1 DEF RowsAhead
      <4>8. FeedTypeOK'
        <5>1. stuck' \in (0..Len(bus)) \X (0..MaxSendAttempts)
          <6>1. Attempts(Row) \in Nat
            <7>1. stuck[2] \in Nat
              BY DEF FeedInv, FeedTypeOK
            <7> QED
              BY <7>1 DEF Attempts
          <6>2. Row \in 0..Len(bus) /\ Attempts(Row) \in 0..MaxSendAttempts
            BY <2>1, <3>2, <3>9, <6>1
          <6> QED
            BY <3>9, <6>2
        <5> QED
          BY <3>1, <3>4, <3>5, <3>9, <4>5, <5>1 DEF FeedInv, FeedTypeOK, Notes
      <4> QED
        BY <4>2, <4>5, <4>6, <4>7, <4>8 DEF FeedInv
    <3> QED
      BY <3>6, <3>8, <3>9
  <2>12. CASE SaveCursor
    <3>1. /\ pass = "mirror" /\ feedRows = {} /\ cursor' = upto /\ pass' = "rest"
          /\ UNCHANGED <<open, bus, outbox, first, phone, steer, feedRows, upto, tokens, stuck,
                         dropped, feedFaults, feedKills>>
      BY <2>12 DEF SaveCursor
    <3>2. upto \in 0..Len(bus) /\ cursor <= upto /\ Covered(upto)
      BY <3>1 DEF FeedInv, RowsAhead
    <3>3. FeedTypeOK'
      <4>1. cursor' \in -1..Len(bus) /\ first' \in -1..cursor'
        <5>1. cursor' = upto /\ first' = first
          BY <3>1
        <5> QED
          BY <2>1, <3>2, <5>1
      <4> QED
        BY <3>1, <4>1 DEF FeedInv, FeedTypeOK
    <3>4. Covered(cursor)'
      BY <3>1, <3>2 DEF Covered, ForOperator
    <3>5. NoOvertaking'
      BY <3>1 DEF FeedInv, NoOvertaking, ForOperator
    <3>6. PaidFor'
      <4>1. \A i \in Nat : Due(i)' = Due(i) /\ Due(i) \in Nat
        BY <2>1, <3>1, <3>2 DEF Due
      <4> QED
        BY <2>1, <3>1, <4>1, PaidStill
    <3> QED
      BY <3>1, <3>3, <3>4, <3>5, <3>6 DEF FeedInv
  <2>13. CASE FeedKill
    <3>1. /\ pass' = "rest" /\ feedRows' = {} /\ upto' = -1 /\ tokens' = Rate /\ stuck' = <<0, 0>>
          /\ feedKills' = feedKills + 1 /\ feedKills' \in 0..MaxFeedKills
          /\ UNCHANGED <<open, bus, outbox, cursor, first, steer, dropped, feedFaults>>
      BY <2>1, <2>13 DEF FeedKill
    <3>2. /\ \A i \in Nat : Due(i) \in Nat /\ Due(i)' \in Nat /\ Due(i) <= Due(i)' + 1
          /\ \A i \in Nat : pass = "mirror" /\ i = upto + 1 /\ cursor <= upto => Due(i) = 0
      <4>1. \A i \in Nat : Due(i) \in {0, 1} /\ Due(i)' \in {0, 1}
        BY DEF Due
      <4>2. ASSUME NEW i \in Nat, pass = "mirror", i = upto + 1, cursor <= upto PROVE Due(i) = 0
        <5>1. upto \in Int /\ ~(i <= cursor) /\ ~(i <= upto)
          <6>1. upto \in 0..Len(bus)
            BY <4>2 DEF FeedInv, RowsAhead
          <6> QED
            BY <2>1, <4>2, <6>1
        <5> QED
          BY <5>1 DEF Due
      <4>3. \A i \in Nat : Due(i) \in Nat /\ Due(i)' \in Nat /\ Due(i) <= Due(i)' + 1
        BY <4>1
      <4> QED
        BY <4>2, <4>3
    <3>3. \A i \in Nat : feedFaults + feedKills + Due(i) <= feedFaults' + feedKills' + Due(i)'
      <4>1. feedFaults' = feedFaults /\ feedKills' = feedKills + 1
        BY <3>1
      <4> QED
        BY <2>0, <3>2, <4>1
    <3>4. feedFaults' \in Nat /\ feedKills' \in Nat
      BY <2>1, <3>1
    <3>5. phone' \in Seq(Notes) /\ steer' \subseteq DOMAIN phone' => FeedTypeOK'
      <4>1. Rate \in 0..Rate /\ <<0, 0>> \in (0..Len(bus)) \X (0..MaxSendAttempts) /\ -1 \in -1..Len(bus)
        BY <2>1
      <4> QED
        BY <3>1, <4>1 DEF FeedInv, FeedTypeOK, Notes
    <3>6. CASE UNCHANGED phone
      <4>1. NoOvertaking' /\ Covered(cursor)'
        BY <3>1, <3>6, PhoneStill
      <4>2. PaidFor'
        BY <3>3, <3>4, <3>6, PaidStill
      <4>3. phone' \in Seq(Notes) /\ steer' \subseteq DOMAIN phone'
        BY <3>1, <3>6 DEF FeedInv, FeedTypeOK, Notes
      <4> QED
        BY <3>1, <3>5, <4>1, <4>2, <4>3 DEF FeedInv
    <3>7. ASSUME feedRows # {}, pass = "say", phone' = Append(phone, <<"say", Row>>) PROVE FeedInv'
      <4>1. PICK what : what = <<"say", Row>>
        OBVIOUS
      <4>2. what \in Notes /\ \A j : what # <<"bus", j>>
        BY <3>7, <4>1, NextSay DEF Notes
      <4>3. Calls(what)
        BY <3>7, <4>1 DEF Calls
      <4>4. PaidFor'
        BY <3>3, <3>4, <4>2, <4>3, PaidStep
      <4> QED
        BY <3>1, <3>5, <4>2, <4>3, <4>4, OutsideTheMirror
    <3>8. ASSUME feedRows # {}, pass = "mirror", phone' = Append(phone, <<"bus", Row>>) PROVE FeedInv'
      <4>1. PICK what : what = <<"bus", upto + 1>>
        OBVIOUS
      <4>2. /\ Row = upto + 1 /\ upto \in Nat /\ cursor <= upto /\ what \in Notes
            /\ \A j \in Nat : what = <<"bus", j>> => j = upto + 1
        BY <3>8, <4>1, NextHere
      <4>3. Calls(what)
        BY <3>8, <4>1, <4>2 DEF Calls
      <4>4. \A i \in Nat : what = <<"bus", i>> =>
               feedFaults + feedKills + Due(i) + 1 <= feedFaults' + feedKills' + Due(i)'
        <5> SUFFICES ASSUME NEW i \in Nat, what = <<"bus", i>>
                     PROVE  feedFaults + feedKills + Due(i) + 1 <= feedFaults' + feedKills' + Due(i)'
          OBVIOUS
        <5>1. Due(i) = 0 /\ Due(i)' \in Nat
          BY <3>2, <3>8, <4>2
        <5>2. feedFaults' = feedFaults /\ feedKills' = feedKills + 1
          BY <3>1
        <5> QED
          BY <2>1, <5>1, <5>2
      <4>5. PaidFor'
        BY <3>3, <3>4, <4>3, <4>4, PaidStep
      <4>6. \A j \in Nat : what = <<"bus", j>> => Covered(j - 1)
        <5> SUFFICES ASSUME NEW j \in Nat, what = <<"bus", j>> PROVE Covered(j - 1)
          OBVIOUS
        <5>1. j - 1 = upto
          BY <4>2
        <5> QED
          BY <3>8, <5>1 DEF FeedInv
      <4> QED
        BY <3>1, <3>5, <4>2, <4>3, <4>5, <4>6, OutsideTheMirror
    <3> QED
      BY <2>13, <3>6, <3>7, <3>8 DEF FeedKill, Arrives
  <2> QED
    BY <2>2, <2>3, <2>4, <2>5, <2>6, <2>7, <2>8, <2>9, <2>10, <2>11, <2>12, <2>13 DEF FeedNext, FeedLoop
<1> QED
  BY <1>1, <1>2, PTL DEF FeedSpec

\* The feed is right whatever is posted, said, refused, lost or killed: what the cursor
\* has passed is on the phone or was given up, a repetition is owed to a fault or a kill,
\* and a message comes after those posted before it (bridge.rs, mirror and drain_outbox:
\* the cursor is saved after the sends, a failed send ends the pass).
THEOREM FeedIsSafe == FeedSpec => []FeedSafety
<1>1. FeedInv => FeedSafety
  <2> SUFFICES ASSUME FeedInv PROVE MirrorCovers /\ RepetitionNeedsFault
    BY DEF FeedInv, FeedSafety
  <2>1. DOMAIN bus = 1..Len(bus) /\ Covered(cursor) /\ Len(bus) \in Nat
    BY DEF FeedInv, FeedTypeOK
  <2>2. MirrorCovers
    BY <2>1 DEF Covered, MirrorCovers
  <2>3. RepetitionNeedsFault
    <3> SUFFICES ASSUME NEW i \in 1..Len(bus)
                 PROVE  Times(<<"bus", i>>) <= 1 + feedFaults + feedKills
      BY <2>1 DEF RepetitionNeedsFault
    <3>1. Times(<<"bus", i>>) <= feedFaults + feedKills + Due(i) /\ Due(i) \in {0, 1}
      BY <2>1 DEF FeedInv, PaidFor, Due
    <3>2. feedFaults \in Nat /\ feedKills \in Nat
      BY FeedConstants DEF FeedInv, FeedTypeOK
    <3>3. phone \in Seq(Notes)
      BY DEF FeedInv, FeedTypeOK, Notes
    <3>4. \A w : Times(w) \in Nat
      BY <3>3, PlacesCounted DEF PhoneHolds
    <3> HIDE DEF Due
    <3>5. PICK t \in Nat : t = Times(<<"bus", i>>)
      BY <3>4
    <3> QED
      BY <3>1, <3>2, <3>5
  <2> QED
    BY <2>2, <2>3
<1> QED
  BY <1>1, FeedInvHolds, PTL

(***************************************************************************)
(* The inbox.                                                              *)
(***************************************************************************)

\* How far the loop has got in what was typed.
HandledUpTo == IF fetched = <<>> THEN IF nextUpdate > confirmed THEN nextUpdate ELSE confirmed
               ELSE nextUpdate - Len(fetched)

\* What was typed makes sense: a mode is one, and a quoted note is there.
TypedWell(t) ==
    /\ t.do = "mode" => t.arg \in InboxModes
    /\ t.do = "adopt" => t.arg \in AnyRoom
    /\ t.quote <= Len(notes)

InboxTyped ==
    /\ InboxTypeOK
    /\ {moves, lostReplies, inboxKills} \subseteq Nat
    /\ \A u \in DOMAIN typed : TypedWell(typed[u])
    /\ \A i \in DOMAIN posted : posted[i].text <= Len(typed)

\* The list at hand is the part of the typed that ends at the offset, not yet confirmed.
InOrder ==
    /\ fetched # <<>> => confirmed + Len(fetched) <= nextUpdate
    /\ \A k \in DOMAIN fetched : fetched[k] = nextUpdate - Len(fetched) + k

IsChat(u) == typed[u].do = "chat"

\* Chatter is posted as the loop comes to it, and first in the order it was typed.
PostedInTurn ==
    /\ \A u \in DOMAIN typed :
         Cardinality(PostsOf(u)) <= inboxKills + IF u <= HandledUpTo THEN 1 ELSE 0
    /\ \A u \in DOMAIN typed : u <= HandledUpTo /\ IsChat(u) => PostsOf(u) # {}
    /\ \A u, v \in DOMAIN typed : u < v /\ IsChat(u) /\ IsChat(v) =>
         \A j \in PostsOf(v) : \E i \in PostsOf(u) : i < j

\* Texts that left no trace, and chatter for a room nobody heard and nobody was told of.
Silent == {u \in DOMAIN typed : u <= HandledUpTo /\ PostsOf(u) = {} /\ \A w \in shown : w[1] # u}
Unheard == {u \in DOMAIN typed :
              /\ IsChat(u) /\ ~Relayed(u)
              /\ \E i \in PostsOf(u) : posted[i].heard = {}
              /\ <<u, "unheard">> \notin shown}

InboxInv ==
    /\ InboxTyped /\ InOrder /\ PostedInTurn
    /\ FleetKnowsMode
    /\ Cardinality(Silent) <= lostReplies
    /\ Cardinality(Unheard) <= lostReplies + inboxKills

\* Where the loop stands.
LEMMA Standing ==
    ASSUME InboxTyped, InOrder
    PROVE  /\ HandledUpTo \in 0..Len(typed) /\ confirmed <= HandledUpTo
           /\ fetched # <<>> => /\ Head(fetched) = HandledUpTo + 1
                                /\ Head(fetched) \in 1..Len(typed)
<1>1. /\ Len(typed) \in Nat /\ DOMAIN typed = 1..Len(typed)
      /\ Len(fetched) \in Nat /\ DOMAIN fetched = 1..Len(fetched)
      /\ \A k \in 1..Len(fetched) : fetched[k] \in 1..Len(typed)
      /\ fetched # <<>> => Len(fetched) # 0 /\ Head(fetched) = fetched[1]
      /\ confirmed \in 0..Len(typed) /\ nextUpdate \in 0..Len(typed)
  <2>1. typed \in Seq(Texts) /\ fetched \in Seq(DOMAIN typed)
    BY DEF InboxTyped, InboxTypeOK
  <2>2. /\ Len(typed) \in Nat /\ DOMAIN typed = 1..Len(typed)
        /\ Len(fetched) \in Nat /\ DOMAIN fetched = 1..Len(fetched)
    BY <2>1, LenProperties
  <2>3. \A k \in 1..Len(fetched) : fetched[k] \in 1..Len(typed)
    BY <2>1, <2>2, ElementOfSeq
  <2>4. fetched # <<>> => Len(fetched) # 0 /\ Head(fetched) = fetched[1]
    BY <2>1, EmptySeq, HeadTailProperties
  <2>5. confirmed \in 0..Len(typed) /\ nextUpdate \in 0..Len(typed)
    BY DEF InboxTyped, InboxTypeOK
  <2> QED
    BY <2>2, <2>3, <2>4, <2>5
<1>2. CASE fetched = <<>>
  BY <1>1, <1>2 DEF HandledUpTo
<1>3. CASE fetched # <<>>
  <2>1. /\ fetched[1] = nextUpdate - Len(fetched) + 1 /\ confirmed + Len(fetched) <= nextUpdate
        /\ fetched[1] \in 1..Len(typed)
    BY <1>1, <1>3 DEF InOrder
  <2>2. HandledUpTo = nextUpdate - Len(fetched)
    BY <1>3 DEF HandledUpTo
  <2> QED
    BY <1>1, <1>3, <2>1, <2>2
<1> QED
  BY <1>2, <1>3

\* The posts of a text are finitely many, and each has its place.
LEMMA PostsAreFew ==
    ASSUME posted \in Seq(Posts), NEW u
    PROVE  /\ IsFiniteSet(PostsOf(u)) /\ Cardinality(PostsOf(u)) \in Nat
           /\ PostsOf(u) \subseteq 1..Len(posted)
<1>1. Len(posted) \in Nat /\ DOMAIN posted = 1..Len(posted)
  BY LenProperties
<1>2. PostsOf(u) \subseteq 1..Len(posted)
  BY <1>1 DEF PostsOf
<1>3. IsFiniteSet(1..Len(posted))
  BY <1>1, UpTo
<1> QED
  BY <1>2, <1>3, FS_Subset, FS_CardinalityType

\* One message posted for text u.
OnePost(u, p) == p \in Posts /\ p.text = u /\ posted' = Append(posted, p)
Says(u) == \E p : OnePost(u, p)

\* A post is the last one, and is of its text.
LEMMA PostAdds ==
    ASSUME posted \in Seq(Posts), NEW u, NEW p, OnePost(u, p)
    PROVE  /\ posted' \in Seq(Posts) /\ Len(posted) \in Nat
           /\ DOMAIN posted = 1..Len(posted) /\ DOMAIN posted' = 1..(Len(posted) + 1)
           /\ posted'[Len(posted) + 1] = p
           /\ \A i \in 1..Len(posted) : posted'[i] = posted[i]
           /\ PostsOf(u)' = PostsOf(u) \cup {Len(posted) + 1}
           /\ \A x : x # u => PostsOf(x)' = PostsOf(x)
<1>1. /\ posted' \in Seq(Posts) /\ Len(posted') = Len(posted) + 1 /\ Len(posted) \in Nat
      /\ posted'[Len(posted) + 1] = p
      /\ \A i \in 1..Len(posted) : posted'[i] = posted[i]
  BY AppendProperties DEF OnePost
<1>2. DOMAIN posted = 1..Len(posted) /\ DOMAIN posted' = 1..(Len(posted) + 1)
  BY <1>1, LenProperties
<1>3. p.text = u
  BY DEF OnePost
<1>4. \A x : PostsOf(x)' = {i \in 1..(Len(posted) + 1) : posted'[i].text = x}
  BY <1>2 DEF PostsOf
<1>5. \A x : PostsOf(x) = {i \in 1..Len(posted) : posted[i].text = x}
  BY <1>2 DEF PostsOf
<1>6. 1..(Len(posted) + 1) = (1..Len(posted)) \cup {Len(posted) + 1}
  BY <1>1
<1> QED
  BY <1>1, <1>2, <1>3, <1>4, <1>5, <1>6

\* Posts are what is said of the operator's text, and never taken back.
LEMMA PostsKeep ==
    ASSUME posted \in Seq(Posts), NEW u, posted' = posted \/ Says(u)
    PROVE  /\ posted' \in Seq(Posts)
           /\ \A x : PostsOf(x) \subseteq PostsOf(x)'
           /\ \A x : x # u => PostsOf(x)' = PostsOf(x)
           /\ \A x : \A i \in PostsOf(x) : posted'[i] = posted[i]
           /\ Says(u) => PostsOf(u)' # {}
<1>1. CASE posted' = posted
  <2>1. \A x : PostsOf(x)' = PostsOf(x)
    BY <1>1 DEF PostsOf
  <2>2. ASSUME NEW p, OnePost(u, p) PROVE FALSE
    <3>1. Len(posted') = Len(posted) + 1 /\ Len(posted) \in Nat
      BY <2>2, AppendProperties DEF OnePost
    <3> QED
      BY <1>1, <3>1
  <2> QED
    BY <1>1, <2>1, <2>2 DEF Says
<1>2. ASSUME NEW p, OnePost(u, p)
      PROVE  /\ posted' \in Seq(Posts)
             /\ \A x : PostsOf(x) \subseteq PostsOf(x)'
             /\ \A x : x # u => PostsOf(x)' = PostsOf(x)
             /\ \A x : \A i \in PostsOf(x) : posted'[i] = posted[i]
             /\ PostsOf(u)' # {}
  <2>1. /\ posted' \in Seq(Posts) /\ Len(posted) \in Nat
        /\ \A i \in 1..Len(posted) : posted'[i] = posted[i]
        /\ PostsOf(u)' = PostsOf(u) \cup {Len(posted) + 1}
        /\ \A x : x # u => PostsOf(x)' = PostsOf(x)
    BY <1>2, PostAdds
  <2>2. \A x : PostsOf(x) \subseteq 1..Len(posted)
    BY PostsAreFew
  <2> QED
    BY <2>1, <2>2
<1> QED
  BY <1>1, <1>2 DEF Says

\* Without a post nothing changes.
LEMMA PostsSame == posted' = posted => \A x : PostsOf(x)' = PostsOf(x)
  BY DEF PostsOf

\* What a step may do to the posts and to how far the loop has got: handle the next text,
\* be a kill, or neither.
Turns(u) ==
    \/ /\ u = HandledUpTo + 1 /\ HandledUpTo' = u /\ inboxKills' = inboxKills
       /\ IsChat(u) => Says(u)
    \/ /\ HandledUpTo' <= HandledUpTo /\ inboxKills' = inboxKills + 1
       /\ u = HandledUpTo + 1 \/ posted' = posted
    \/ /\ HandledUpTo' = HandledUpTo /\ inboxKills' = inboxKills
       /\ u = 0 \/ posted' = posted

\* Whatever it is, every text keeps its turn.
LEMMA TurnsKept ==
    ASSUME InboxTyped, InOrder, PostedInTurn, NEW u \in Nat, typed' = typed,
           posted' = posted \/ Says(u), Turns(u), HandledUpTo' \in 0..Len(typed)
    PROVE  PostedInTurn'
<1>1. /\ posted \in Seq(Posts) /\ inboxKills \in Nat /\ HandledUpTo \in 0..Len(typed)
      /\ Len(typed) \in Nat /\ DOMAIN typed = 1..Len(typed) /\ \A x : IsChat(x)' = IsChat(x)
  <2>1. posted \in Seq(Posts) /\ typed \in Seq(Texts) /\ inboxKills \in Nat
    BY DEF InboxTyped, InboxTypeOK
  <2> QED
    BY <2>1, Standing, LenProperties DEF IsChat
<1>2. /\ posted' \in Seq(Posts)
      /\ \A x : PostsOf(x) \subseteq PostsOf(x)'
      /\ \A x : x # u => PostsOf(x)' = PostsOf(x)
      /\ Says(u) => PostsOf(u)' # {}
  BY <1>1, PostsKeep
<1>3. ASSUME NEW x \in DOMAIN typed
      PROVE  Cardinality(PostsOf(x)') <= inboxKills' + IF x <= HandledUpTo' THEN 1 ELSE 0
  <2>1. Cardinality(PostsOf(x)) <= inboxKills + IF x <= HandledUpTo THEN 1 ELSE 0
    BY DEF PostedInTurn
  <2>2. IsFiniteSet(PostsOf(x)) /\ Cardinality(PostsOf(x)) \in Nat /\ x \in 1..Len(typed)
    BY <1>1, PostsAreFew
  <2>3. CASE PostsOf(x)' = PostsOf(x)
    BY <1>1, <2>1, <2>2, <2>3 DEF Turns
  <2>4. CASE x = u /\ Says(u)
    <3>1. PICK p : OnePost(u, p)
      BY <2>4 DEF Says
    <3>2. PostsOf(x)' = PostsOf(x) \cup {Len(posted) + 1} /\ posted' # posted
      <4>1. Len(posted') = Len(posted) + 1 /\ Len(posted) \in Nat
        BY <1>1, <3>1, AppendProperties DEF OnePost
      <4> QED
        BY <1>1, <2>4, <3>1, <4>1, PostAdds
    <3>3. Cardinality(PostsOf(x)') <= Cardinality(PostsOf(x)) + 1 /\ Cardinality(PostsOf(x)') \in Nat
      BY <2>2, <3>2, OneMoreAtMost
    <3>4. \/ x = HandledUpTo + 1 /\ HandledUpTo' = x /\ inboxKills' = inboxKills
          \/ x = HandledUpTo + 1 /\ HandledUpTo' <= HandledUpTo /\ inboxKills' = inboxKills + 1
      BY <2>2, <2>4, <3>2 DEF Turns
    <3> QED
      BY <1>1, <2>1, <2>2, <3>3, <3>4
  <2> QED
    BY <1>2, <2>3, <2>4, PostsSame DEF Says
<1>4. ASSUME NEW x \in DOMAIN typed, x <= HandledUpTo', IsChat(x) PROVE PostsOf(x)' # {}
  <2>1. CASE x <= HandledUpTo
    BY <1>2, <1>4, <2>1 DEF PostedInTurn
  <2>2. CASE ~(x <= HandledUpTo)
    <3>1. x = u /\ Says(u)
      BY <1>1, <1>4, <2>2 DEF Turns
    <3> QED
      BY <1>2, <3>1
  <2> QED
    BY <2>1, <2>2
<1>5. ASSUME NEW x \in DOMAIN typed, NEW y \in DOMAIN typed, x < y, IsChat(x), IsChat(y),
             NEW j \in PostsOf(y)'
      PROVE  \E i \in PostsOf(x)' : i < j
  <2>1. CASE j \in PostsOf(y)
    BY <1>2, <1>5, <2>1 DEF PostedInTurn
  <2>2. CASE j \notin PostsOf(y)
    <3>1. y = u /\ Says(u)
      BY <1>2, <2>2, PostsSame, <1>5
    <3>2. PICK p : OnePost(u, p)
      BY <3>1 DEF Says
    <3>3. j = Len(posted) + 1 /\ Len(posted) \in Nat /\ posted' # posted
      <4>1. Len(posted') = Len(posted) + 1 /\ Len(posted) \in Nat
        BY <1>1, <3>2, AppendProperties DEF OnePost
      <4>2. PostsOf(y)' = PostsOf(y) \cup {Len(posted) + 1}
        BY <1>1, <3>1, <3>2, PostAdds
      <4> QED
        BY <1>5, <2>2, <4>1, <4>2
    <3>4. y = HandledUpTo + 1
      BY <1>1, <1>5, <3>1, <3>3 DEF Turns
    <3>5. x <= HandledUpTo
      BY <1>1, <1>5, <3>4
    <3>6. PostsOf(x) # {} /\ PostsOf(x) \subseteq 1..Len(posted)
      BY <1>1, <1>5, <3>5, PostsAreFew DEF PostedInTurn
    <3>7. PICK i \in PostsOf(x) : TRUE
      BY <3>6
    <3>8. i < j /\ i \in PostsOf(x)'
      BY <1>2, <3>3, <3>6, <3>7
    <3> QED
      BY <3>8
  <2> QED
    BY <2>1, <2>2
<1> QED
  BY <1>1, <1>3, <1>4, <1>5 DEF PostedInTurn

\* The texts are finitely many, and so are those that went astray.
LEMMA AstrayAreFew ==
    ASSUME InboxTyped
    PROVE  IsFiniteSet(Silent) /\ IsFiniteSet(Unheard)
<1>1. typed \in Seq(Texts)
  BY DEF InboxTyped, InboxTypeOK
<1>2. IsFiniteSet(DOMAIN typed)
  BY <1>1, LenProperties, UpTo
<1> QED
  BY <1>2, FS_Subset DEF Silent, Unheard

\* What a step leaves on the phone: a reply, a reply lost, or nothing new.
Answers(u) ==
    \/ shown' = shown /\ lostReplies' = lostReplies
    \/ shown' = shown /\ lostReplies' = lostReplies + 1
    \/ /\ \E w \in {"done", "unknown", "unheard"} : shown' = shown \cup {<<u, w>>}
       /\ lostReplies' = lostReplies

\* A handled text is posted, answered, or had its answer lost.
Traced(u) == Says(u) \/ (\E w \in shown' : w[1] = u) \/ lostReplies' = lostReplies + 1

\* Texts without a trace are as many as lost replies.
LEMMA SilencePaid ==
    ASSUME InboxTyped, InOrder, Cardinality(Silent) <= lostReplies,
           NEW u \in Nat, typed' = typed, posted' = posted \/ Says(u), Answers(u),
           HandledUpTo' \in 0..Len(typed),
           \/ HandledUpTo' <= HandledUpTo
           \/ HandledUpTo' = HandledUpTo + 1 /\ u = HandledUpTo' /\ Traced(u)
    PROVE  Cardinality(Silent') <= lostReplies'
<1>1. /\ posted \in Seq(Posts) /\ lostReplies \in Nat /\ lostReplies' \in Nat
      /\ lostReplies <= lostReplies' /\ shown \subseteq shown'
      /\ HandledUpTo \in 0..Len(typed) /\ Len(typed) \in Nat /\ DOMAIN typed = 1..Len(typed)
  <2>1. posted \in Seq(Posts) /\ lostReplies \in Nat /\ typed \in Seq(Texts)
    BY DEF InboxTyped, InboxTypeOK
  <2>2. lostReplies' \in Nat /\ lostReplies <= lostReplies' /\ shown \subseteq shown'
    BY <2>1 DEF Answers
  <2> QED
    BY <2>1, <2>2, Standing, LenProperties
<1>2. /\ \A x : PostsOf(x) \subseteq PostsOf(x)'
      /\ Says(u) => PostsOf(u)' # {}
  BY <1>1, PostsKeep
<1>3. \/ Silent' \subseteq Silent
      \/ (\E x : Silent' \subseteq Silent \cup {x}) /\ lostReplies' = lostReplies + 1
  <2>1. CASE HandledUpTo' <= HandledUpTo
    <3>1. \A x \in 1..Len(typed) : x <= HandledUpTo' => x <= HandledUpTo
      BY <1>1, <2>1
    <3>2. Silent' \subseteq Silent
      BY <1>1, <1>2, <3>1 DEF Silent
    <3> QED
      BY <3>2
  <2>2. CASE HandledUpTo' = HandledUpTo + 1 /\ u = HandledUpTo' /\ Traced(u)
    <3>1. \A x \in 1..Len(typed) : x <= HandledUpTo' => x <= HandledUpTo \/ x = u
      BY <1>1, <2>2
    <3>2. Silent' \subseteq Silent \cup {u}
      BY <1>1, <1>2, <3>1 DEF Silent
    <3>3. CASE Says(u) \/ \E w \in shown' : w[1] = u
      <4>1. u \notin Silent'
        BY <1>2, <3>3 DEF Silent
      <4> QED
        BY <3>2, <4>1
    <3>4. CASE lostReplies' = lostReplies + 1
      BY <3>2, <3>4
    <3> QED
      BY <2>2, <3>3, <3>4 DEF Traced
  <2> QED
    BY <2>1, <2>2
<1>4. IsFiniteSet(Silent)
  BY AstrayAreFew
<1>5. CASE Silent' \subseteq Silent
  BY <1>1, <1>4, <1>5, StillPaid
<1>6. CASE (\E x : Silent' \subseteq Silent \cup {x}) /\ lostReplies' = lostReplies + 1
  <2>1. lostReplies + 1 <= lostReplies'
    BY <1>1, <1>6
  <2> QED
    BY <1>1, <1>4, <1>6, <2>1, StillPaid
<1> QED
  BY <1>3, <1>5, <1>6

\* A step after which a text is unheard and untold of is a lost reply or a kill.
Warned(u) ==
    \A p : OnePost(u, p) /\ p.heard = {} /\ u \in DOMAIN typed /\ IsChat(u) /\ ~Relayed(u) =>
        \/ <<u, "unheard">> \in shown'
        \/ lostReplies' + inboxKills' >= lostReplies + inboxKills + 1

\* Chatter nobody heard and nobody was told of is as much as lost replies and kills.
LEMMA UnheardPaid ==
    ASSUME InboxTyped, Cardinality(Unheard) <= lostReplies + inboxKills,
           NEW u \in Nat, typed' = typed, posted' = posted \/ Says(u), Answers(u),
           inboxKills' \in Nat, inboxKills <= inboxKills', Warned(u)
    PROVE  Cardinality(Unheard') <= lostReplies' + inboxKills'
<1>1. /\ posted \in Seq(Posts) /\ lostReplies \in Nat /\ lostReplies' \in Nat
      /\ lostReplies <= lostReplies' /\ shown \subseteq shown' /\ inboxKills \in Nat
      /\ \A x : (IsChat(x)' <=> IsChat(x)) /\ (Relayed(x)' <=> Relayed(x))
  <2>1. posted \in Seq(Posts) /\ lostReplies \in Nat /\ inboxKills \in Nat
    BY DEF InboxTyped, InboxTypeOK
  <2>2. lostReplies' \in Nat /\ lostReplies <= lostReplies' /\ shown \subseteq shown'
    BY <2>1 DEF Answers
  <2>3. \A x : (IsChat(x)' <=> IsChat(x)) /\ (Relayed(x)' <=> Relayed(x))
    BY DEF IsChat, Relayed, is_command
  <2> QED
    BY <2>1, <2>2, <2>3
<1> DEFINE before == lostReplies + inboxKills
           after  == lostReplies' + inboxKills'
<1>6. before \in Nat /\ after \in Nat /\ before <= after
  <2>1. /\ lostReplies \in Nat /\ lostReplies' \in Nat /\ inboxKills \in Nat /\ inboxKills' \in Nat
        /\ lostReplies <= lostReplies' /\ inboxKills <= inboxKills'
    BY <1>1
  <2>2. \A a, b, c, d \in Nat :
          a <= c /\ b <= d => a + b \in Nat /\ c + d \in Nat /\ a + b <= c + d
    OBVIOUS
  <2> QED
    BY <2>1, <2>2
<1> HIDE DEF before, after
<1>7. Cardinality(Unheard) <= before
  BY DEF before
<1>8. ASSUME Cardinality(Unheard') <= after PROVE Cardinality(Unheard') <= lostReplies' + inboxKills'
  BY <1>8 DEF after
<1>2. /\ \A x : x # u => PostsOf(x)' = PostsOf(x)
      /\ \A x : \A i \in PostsOf(x) : posted'[i] = posted[i]
  BY <1>1, PostsKeep
<1>3. \A x : x # u /\ x \in Unheard' => x \in Unheard
  BY <1>1, <1>2 DEF Unheard
<1>4. CASE u \notin Unheard' \/ u \in Unheard
  <2>1. Unheard' \subseteq Unheard
    BY <1>3, <1>4
  <2>2. IsFiniteSet(Unheard)
    BY AstrayAreFew
  <2> QED
    BY <1>6, <1>7, <1>8, <2>1, <2>2, StillPaid
<1>5. CASE u \in Unheard' /\ u \notin Unheard
  <2>1. PICK i \in PostsOf(u)' : posted'[i].heard = {}
    BY <1>5 DEF Unheard
  <2>2. u \in DOMAIN typed /\ IsChat(u) /\ ~Relayed(u) /\ <<u, "unheard">> \notin shown'
        /\ <<u, "unheard">> \notin shown
    BY <1>1, <1>5 DEF Unheard
  <2>3. i \notin PostsOf(u)
    BY <1>2, <1>5, <2>1, <2>2 DEF Unheard
  <2>4. PICK p : OnePost(u, p)
    BY <2>1, <2>3, PostsSame DEF Says
  <2>5. posted'[i] = p
    BY <1>1, <2>1, <2>3, <2>4, PostAdds
  <2>6. after >= before + 1
    BY <2>1, <2>2, <2>4, <2>5 DEF Warned, before, after
  <2>7. Unheard' \subseteq Unheard \cup {u}
    BY <1>3
  <2>8. before + 1 <= after
    BY <1>6, <2>6
  <2>9. IsFiniteSet(Unheard)
    BY AstrayAreFew
  <2> QED
    BY <1>6, <1>7, <1>8, <2>7, <2>8, <2>9, StillPaid
<1> QED
  BY <1>4, <1>5

\* What the loop posts as the operator is one message of the text, heard by those it says.
LEMMA PostIsOne ==
    ASSUME InboxTyped, NEW u \in Nat, NEW r \in AnyRoom, NEW to \in Fleet \cup {"@all"},
           NEW a \in BOOLEAN,
           posted' = Append(posted, [text |-> u, room |-> r, to |-> to, ambient |-> a,
                                     heard |-> Hears(r, to)])
    PROVE  Says(u) /\ \A p : OnePost(u, p) => p.heard = Hears(r, to)
<1> DEFINE q == [text |-> u, room |-> r, to |-> to, ambient |-> a, heard |-> Hears(r, to)]
<1>1. Hears(r, to) \subseteq Fleet
  BY DEF Hears, InboxTyped, InboxTypeOK
<1>2. q \in Posts /\ q.text = u /\ q.heard = Hears(r, to)
  BY <1>1 DEF Posts
<1>3. posted' = Append(posted, q) /\ posted \in Seq(Posts)
  BY DEF InboxTyped, InboxTypeOK
<1> HIDE DEF q
<1>4. OnePost(u, q)
  BY <1>2, <1>3 DEF OnePost
<1>5. ASSUME NEW p, OnePost(u, p) PROVE p = q
  <2>1. posted'[Len(posted) + 1] = p /\ posted'[Len(posted) + 1] = q
    BY <1>3, <1>4, <1>5, PostAdds
  <2> QED
    BY <2>1
<1> QED
  BY <1>2, <1>4, <1>5 DEF Says

\* Handling a text: it leaves the list; chatter is posted; something is posted, answered or
\* lost; and a room where nobody hears is owned up to.
Handles(u) ==
    /\ fetched # <<>> /\ u = Head(fetched) /\ fetched' = Tail(fetched)
    /\ UNCHANGED <<fleetSide, typed, confirmed, nextUpdate, inboxKills>>
    /\ posted' = posted \/ Says(u)
    /\ IsChat(u) => Says(u)
    /\ Answers(u) /\ Traced(u) /\ Warned(u)
    /\ opMode' \in InboxModes /\ toldMode' \in InboxModes /\ unannounced' \in BOOLEAN
    /\ place' \in [AnyRoom -> Places \cup {0}]
    /\ FleetKnowsMode'

\* A reply is an answer, and one way or the other a trace.
LEMMA ReplyAnswers ==
    ASSUME NEW u, NEW w \in {"done", "unknown", "unheard"}, reply(u, w)
    PROVE  Answers(u) /\ Traced(u) /\ (<<u, w>> \in shown' \/ lostReplies' = lostReplies + 1)
<1>1. CASE shown' = shown \cup {<<u, w>>} /\ UNCHANGED lostReplies
  <2>1. <<u, w>> \in shown' /\ <<u, w>>[1] = u
    BY <1>1
  <2>2. \E x \in shown' : x[1] = u
    BY <2>1
  <2> QED
    BY <1>1, <2>1, <2>2 DEF Answers, Traced
<1>2. CASE lostReplies' = lostReplies + 1 /\ UNCHANGED shown
  BY <1>2 DEF Answers, Traced
<1> QED
  BY <1>1, <1>2 DEF reply

\* Changing the mode posts at most one banner, and the fleet knows the mode after it.
LEMMA ModeIsTold ==
    ASSUME InboxTyped, FleetKnowsMode, NEW u \in Nat, NEW m \in InboxModes, set_mode(u, m)
    PROVE  /\ posted' = posted \/ Says(u)
           /\ opMode' \in InboxModes /\ toldMode' \in InboxModes /\ unannounced' \in BOOLEAN
           /\ FleetKnowsMode'
<1>1. opMode \in InboxModes /\ toldMode \in InboxModes /\ unannounced \in BOOLEAN
  BY DEF InboxTyped, InboxTypeOK
<1>2. CASE m # opMode
  <2>1. opMode' = m /\ Banner(u, m)
    BY <1>2 DEF set_mode
  <2>2. Says(u)
    <3>1. "lobby" \in AnyRoom
      BY DEF AnyRoom
    <3> QED
      BY <2>1, <3>1, PostIsOne DEF Banner
  <2> QED
    BY <2>1, <2>2 DEF Banner, FleetKnowsMode
<1>3. CASE m = opMode
  BY <1>1, <1>3 DEF set_mode, FleetKnowsMode
<1> QED
  BY <1>2, <1>3

\* Each of the ways through handle_message handles its text.
LEMMA EachWayHandles ==
    ASSUME InboxTyped, FleetKnowsMode, NEW u \in DOMAIN typed, Handle_(u)
    PROVE  Handles(u)
<1>0. /\ u \in Nat /\ typed[u] \in Texts /\ TypedWell(typed[u]) /\ notes \in Seq(Fleet)
      /\ opMode \in InboxModes /\ toldMode \in InboxModes /\ unannounced \in BOOLEAN
      /\ place \in [AnyRoom -> Places \cup {0}] /\ live \subseteq Fleet /\ "lobby" \in AnyRoom
  <2>1. typed \in Seq(Texts)
    BY DEF InboxTyped, InboxTypeOK
  <2>2. u \in Nat /\ typed[u] \in Texts
    BY <2>1, ElementOfSeq, LenProperties
  <2> QED
    BY <2>2 DEF InboxTyped, InboxTypeOK, AnyRoom
<1>1. ASSUME NEW kinds, Handling(u, kinds)
      PROVE  /\ fetched # <<>> /\ u = Head(fetched) /\ fetched' = Tail(fetched)
             /\ UNCHANGED <<fleetSide, typed, confirmed, nextUpdate, inboxKills>>
             /\ typed[u].do \in kinds
  BY <1>1 DEF Handling
<1>2. ASSUME UNCHANGED <<opMode, toldMode, unannounced>>
      PROVE  /\ opMode' \in InboxModes /\ toldMode' \in InboxModes /\ unannounced' \in BOOLEAN
             /\ FleetKnowsMode'
  BY <1>0, <1>2 DEF FleetKnowsMode
<1>3. NoReply => Answers(u)
  BY DEF NoReply, Answers
<1>4. ASSUME ~IsChat(u) PROVE (IsChat(u) => Says(u)) /\ Warned(u)
  BY <1>4 DEF Warned
<1>5. CASE HandleQuoted(u)
  <2>1. /\ Handling(u, {"at", "chat"}) /\ Relayed(u) /\ post_as_operator(u, "lobby", notes[typed[u].quote])
        /\ NoReply /\ UNCHANGED <<place, opMode, toldMode, unannounced>>
    BY <1>5 DEF HandleQuoted
  <2>2. notes[typed[u].quote] \in Fleet
    <3>1. typed[u].quote \in Nat /\ typed[u].quote # 0 /\ typed[u].quote <= Len(notes)
      BY <1>0, <2>1 DEF Texts, TypedWell, Relayed
    <3>2. typed[u].quote \in 1..Len(notes)
      BY <1>0, <3>1, LenProperties
    <3> QED
      BY <1>0, <3>2, ElementOfSeq
  <2>3. Says(u)
    BY <1>0, <2>1, <2>2, PostIsOne DEF post_as_operator
  <2>4. Traced(u) /\ Warned(u)
    BY <2>1, <2>3 DEF Traced, Warned
  <2> QED
    BY <1>0, <1>1, <1>2, <1>3, <2>1, <2>3, <2>4 DEF Handles
<1>6. CASE HandleMode(u)
  <2>1. /\ Handling(u, {"mode"}) /\ set_mode(u, typed[u].arg) /\ reply(u, "done") /\ place' = place
    BY <1>6 DEF HandleMode
  <2>2. typed[u].do = "mode" /\ typed[u].arg \in InboxModes
    BY <1>0, <1>1, <2>1 DEF TypedWell
  <2>3. ~IsChat(u)
    BY <2>2 DEF IsChat
  <2>4. /\ posted' = posted \/ Says(u)
        /\ opMode' \in InboxModes /\ toldMode' \in InboxModes /\ unannounced' \in BOOLEAN
        /\ FleetKnowsMode'
    BY <1>0, <2>1, <2>2, ModeIsTold
  <2>5. Answers(u) /\ Traced(u)
    BY <2>1, ReplyAnswers
  <2> QED
    BY <1>0, <1>1, <1>4, <2>1, <2>3, <2>4, <2>5 DEF Handles
<1>7. CASE HandleDirected(u)
  <2> DEFINE to == resolve_session(typed[u].arg)
  <2>1. /\ Handling(u, {"say", "at"}) /\ UNCHANGED <<place, opMode, toldMode, unannounced>>
        /\ IF to = {} THEN reply(u, "unknown") /\ UNCHANGED posted
           ELSE /\ \E s \in to : post_as_operator(u, "lobby", s)
                /\ IF typed[u].do = "say" THEN reply(u, "done") ELSE NoReply
    BY <1>7 DEF HandleDirected
  <2>2. ~IsChat(u)
    BY <1>1, <2>1 DEF IsChat
  <2>3. to \subseteq Fleet
    BY <1>0 DEF resolve_session
  <2> HIDE DEF to
  <2>4. CASE to = {}
    <3>1. Answers(u) /\ Traced(u) /\ posted' = posted
      BY <2>1, <2>4, ReplyAnswers
    <3> QED
      BY <1>0, <1>1, <1>2, <1>4, <2>1, <2>2, <3>1 DEF Handles
  <2>5. CASE to # {}
    <3>1. PICK s \in to : post_as_operator(u, "lobby", s)
      BY <2>1, <2>5
    <3>2. Says(u)
      BY <1>0, <2>3, <3>1, PostIsOne DEF post_as_operator
    <3>3. Answers(u) /\ Traced(u)
      BY <1>3, <2>1, <2>5, <3>2, ReplyAnswers DEF Traced
    <3> QED
      BY <1>0, <1>1, <1>2, <1>4, <2>1, <2>2, <3>2, <3>3 DEF Handles
  <2> QED
    BY <2>4, <2>5
<1>8. CASE HandleAdopt(u)
  <2>1. /\ Handling(u, {"adopt"}) /\ NoPost
        /\ place' = IF typed[u].in = 0 THEN place ELSE [place EXCEPT ![typed[u].arg] = typed[u].in]
        /\ reply(u, IF typed[u].in = 0 THEN "unknown" ELSE "done")
    BY <1>8 DEF HandleAdopt
  <2>2. ~IsChat(u)
    BY <1>1, <2>1 DEF IsChat
  <2>3. typed[u].in \in Places \cup {0}
    BY <1>0 DEF Texts
  <2>4. place' \in [AnyRoom -> Places \cup {0}]
    BY <1>0, <2>1, <2>3
  <2>5. Answers(u) /\ Traced(u)
    BY <2>1, ReplyAnswers
  <2> QED
    BY <1>1, <1>2, <1>4, <2>1, <2>2, <2>4, <2>5 DEF Handles, NoPost
<1>9. CASE HandleView(u)
  <2>1. Handling(u, {"view"}) /\ reply(u, "done") /\ NoPost /\ place' = place
    BY <1>9 DEF HandleView
  <2>2. ~IsChat(u)
    BY <1>1, <2>1 DEF IsChat
  <2>3. Answers(u) /\ Traced(u)
    BY <2>1, ReplyAnswers
  <2> QED
    BY <1>0, <1>1, <1>2, <1>4, <2>1, <2>2, <2>3 DEF Handles, NoPost
<1>10. CASE HandleChat(u)
  <2>1. /\ Handling(u, {"chat"}) /\ UNCHANGED <<place, opMode, toldMode, unannounced>>
    BY <1>10 DEF HandleChat
  <2>2. PICK r \in room_for_thread(typed[u].in) :
          /\ post_as_operator(u, r, "@all")
          /\ IF Listening(r) = {} THEN reply(u, "unheard") ELSE NoReply
    BY <1>10 DEF HandleChat
  <2>3. r \in AnyRoom
    BY <1>0, <2>2 DEF room_for_thread
  <2>4. Says(u) /\ \A p : OnePost(u, p) => p.heard = Hears(r, "@all")
    BY <1>0, <2>2, <2>3, PostIsOne DEF post_as_operator
  <2>5. Hears(r, "@all") = Listening(r)
    BY DEF Hears, Listening
  <2>6. Answers(u) /\ Traced(u)
    BY <1>3, <2>2, <2>4, ReplyAnswers DEF Traced
  <2>7. Warned(u)
    <3>1. ASSUME Listening(r) = {} PROVE <<u, "unheard">> \in shown' \/ lostReplies' = lostReplies + 1
      BY <2>2, <3>1, ReplyAnswers
    <3>2. lostReplies \in Nat /\ inboxKills \in Nat /\ inboxKills' = inboxKills
      BY <1>1, <2>1 DEF InboxTyped
    <3> QED
      BY <2>4, <2>5, <3>1, <3>2 DEF Warned
  <2> QED
    BY <1>0, <1>1, <1>2, <2>1, <2>4, <2>6, <2>7 DEF Handles
<1> QED
  BY <1>5, <1>6, <1>7, <1>8, <1>9, <1>10 DEF Handle_

\* A step that adds nothing to what was typed keeps the state well formed.
LEMMA StillTyped ==
    ASSUME InboxTyped, NEW u \in Nat, u <= Len(typed), posted' = posted \/ Says(u),
           typed' = typed, Answers(u), u \in DOMAIN typed \/ shown' = shown,
           live' \subseteq Fleet, armed' \subseteq Fleet, member' \in [AnyRoom -> SUBSET Fleet],
           notes' \in Seq(Fleet), Len(notes) <= Len(notes'),
           place' \in [AnyRoom -> Places \cup {0}],
           opMode' \in InboxModes, toldMode' \in InboxModes, unannounced' \in BOOLEAN,
           confirmed' \in 0..Len(typed), nextUpdate' \in 0..Len(typed),
           fetched' \in Seq(DOMAIN typed), moves' \in Nat, inboxKills' \in Nat
    PROVE  InboxTyped'
<1>1. /\ posted \in Seq(Posts) /\ typed \in Seq(Texts) /\ notes \in Seq(Fleet)
      /\ lostReplies \in Nat
      /\ shown \subseteq (DOMAIN typed) \X {"done", "unknown", "unheard"}
      /\ \A x \in DOMAIN typed : TypedWell(typed[x])
      /\ \A i \in DOMAIN posted : posted[i].text <= Len(typed)
  BY DEF InboxTyped, InboxTypeOK
<1>2. posted' \in Seq(Posts) /\ \A i \in DOMAIN posted' : posted'[i].text <= Len(typed)
  <2>1. CASE posted' = posted
    BY <1>1, <2>1
  <2>2. ASSUME NEW p, OnePost(u, p)
        PROVE  posted' \in Seq(Posts) /\ \A i \in DOMAIN posted' : posted'[i].text <= Len(typed)
    <3>1. /\ posted' \in Seq(Posts) /\ Len(posted) \in Nat
          /\ DOMAIN posted = 1..Len(posted) /\ DOMAIN posted' = 1..(Len(posted) + 1)
          /\ posted'[Len(posted) + 1] = p
          /\ \A i \in 1..Len(posted) : posted'[i] = posted[i]
      BY <1>1, <2>2, PostAdds
    <3>2. p.text = u
      BY <2>2 DEF OnePost
    <3>3. \A i \in 1..Len(posted) : posted'[i].text <= Len(typed)
      BY <1>1, <3>1
    <3>4. posted'[Len(posted) + 1].text <= Len(typed)
      BY <3>1, <3>2
    <3>5. \A i \in 1..(Len(posted) + 1) : i \in 1..Len(posted) \/ i = Len(posted) + 1
      <4>1. \A n \in Nat : \A i \in 1..(n + 1) : i \in 1..n \/ i = n + 1
        OBVIOUS
      <4> QED
        BY <3>1, <4>1
    <3> QED
      BY <3>1, <3>3, <3>4, <3>5
  <2> QED
    BY <2>1, <2>2 DEF Says
<1>3. lostReplies' \in Nat /\ shown' \subseteq (DOMAIN typed) \X {"done", "unknown", "unheard"}
  BY <1>1 DEF Answers
<1>4. \A x \in DOMAIN typed : TypedWell(typed[x])'
  <2>1. ASSUME NEW x \in DOMAIN typed PROVE TypedWell(typed[x])'
    <3>1. typed[x].quote \in Nat /\ Len(notes) \in Nat /\ Len(notes') \in Nat
      <4>1. typed[x] \in Texts
        BY <1>1, ElementOfSeq, LenProperties
      <4> QED
        BY <1>1, <4>1, LenProperties DEF Texts
    <3> QED
      BY <1>1, <3>1 DEF TypedWell
  <2> QED
    BY <2>1
<1> QED
  BY <1>1, <1>2, <1>3, <1>4 DEF InboxTyped, InboxTypeOK

\* The loop stands somewhere in what was typed.
LEMMA StandingSomewhere == (InboxTyped /\ InOrder) => (HandledUpTo \in 0..Len(typed))
  BY Standing

\* A step that adds nothing to what was typed keeps the promises too.
LEMMA PromisesKept ==
    ASSUME InboxInv, InboxTyped', InOrder', FleetKnowsMode', NEW u \in Nat, typed' = typed,
           posted' = posted \/ Says(u), Turns(u), Answers(u), Warned(u),
           HandledUpTo' = HandledUpTo + 1 => u = HandledUpTo' /\ Traced(u)
    PROVE  InboxInv'
<1>1. InboxTyped /\ InOrder /\ PostedInTurn /\ Cardinality(Silent) <= lostReplies
      /\ Cardinality(Unheard) <= lostReplies + inboxKills
  BY DEF InboxInv
<1>2. HandledUpTo \in 0..Len(typed) /\ Len(typed) \in Nat /\ inboxKills \in Nat /\ inboxKills' \in Nat
  BY <1>1, Standing, LenProperties DEF InboxTyped, InboxTypeOK
<1>3. HandledUpTo' \in 0..Len(typed)
  <2>1. (InboxTyped /\ InOrder)' => (HandledUpTo \in 0..Len(typed))'
    BY StandingSomewhere, PTL
  <2> QED
    BY <2>1
<1>4. /\ inboxKills <= inboxKills'
      /\ HandledUpTo' <= HandledUpTo \/ (HandledUpTo' = HandledUpTo + 1 /\ u = HandledUpTo' /\ Traced(u))
  BY <1>2, <1>3 DEF Turns
<1>5. PostedInTurn'
  BY <1>1, <1>3, TurnsKept
<1>6. Cardinality(Silent') <= lostReplies'
  BY <1>1, <1>3, <1>4, SilencePaid
<1>7. Cardinality(Unheard') <= lostReplies' + inboxKills'
  BY <1>1, <1>2, <1>4, UnheardPaid
<1> QED
  BY <1>5, <1>6, <1>7 DEF InboxInv

\* Handling the next text.
LEMMA HandlingKeeps ==
    ASSUME InboxInv, NEW u \in DOMAIN typed, Handles(u) PROVE InboxInv'
<1>1. InboxTyped /\ InOrder /\ InboxTypeOK /\ moves \in Nat /\ inboxKills \in Nat
  BY DEF InboxInv, InboxTyped
<1>2. /\ Len(typed) \in Nat /\ DOMAIN typed = 1..Len(typed) /\ u \in Nat /\ u <= Len(typed)
      /\ fetched \in Seq(DOMAIN typed) /\ fetched # <<>> /\ u = Head(fetched)
      /\ fetched' = Tail(fetched) /\ typed' = typed /\ confirmed' = confirmed
      /\ nextUpdate' = nextUpdate /\ inboxKills' = inboxKills
      /\ confirmed \in 0..Len(typed) /\ nextUpdate \in 0..Len(typed)
  BY <1>1, LenProperties DEF InboxTypeOK, Handles
<1>3. /\ fetched' \in Seq(DOMAIN typed) /\ Len(fetched') = Len(fetched) - 1
      /\ Len(fetched) \in Nat \ {0} /\ DOMAIN fetched = 1..Len(fetched)
      /\ DOMAIN fetched' = 1..(Len(fetched) - 1)
      /\ \A k \in 1..(Len(fetched) - 1) : fetched'[k] = fetched[k + 1]
  <2>1. /\ fetched' \in Seq(DOMAIN typed) /\ Len(fetched') = Len(fetched) - 1
        /\ \A k \in 1..Len(fetched') : fetched'[k] = fetched[k + 1]
    BY <1>2, HeadTailProperties
  <2>2. Len(fetched) \in Nat \ {0} /\ DOMAIN fetched = 1..Len(fetched)
    BY <1>2, LenProperties, EmptySeq
  <2> QED
    BY <2>1, <2>2, LenProperties
<1>4. InOrder'
  <2>1. confirmed + Len(fetched) <= nextUpdate /\ \A k \in 1..Len(fetched) : fetched[k] = nextUpdate - Len(fetched) + k
    BY <1>1, <1>2, <1>3 DEF InOrder
  <2>2. \A k \in 1..(Len(fetched) - 1) : fetched'[k] = nextUpdate - (Len(fetched) - 1) + k
    BY <1>2, <1>3, <2>1
  <2>3. confirmed' + Len(fetched') <= nextUpdate'
    BY <1>2, <1>3, <2>1
  <2>4. \A k \in DOMAIN fetched' : fetched'[k] = nextUpdate' - Len(fetched') + k
    BY <1>2, <1>3, <2>2
  <2> QED
    BY <2>3, <2>4 DEF InOrder
<1>5. HandledUpTo' = HandledUpTo + 1 /\ u = HandledUpTo'
  <2>1. u = HandledUpTo + 1 /\ HandledUpTo = nextUpdate - Len(fetched)
        /\ confirmed + Len(fetched) <= nextUpdate
    BY <1>1, <1>2, Standing DEF HandledUpTo, InOrder
  <2>2. CASE fetched' = <<>>
    <3>1. Len(fetched) = 1
      BY <1>3, <2>2, EmptySeq
    <3>2. HandledUpTo' = nextUpdate
      BY <1>2, <2>1, <2>2, <3>1 DEF HandledUpTo
    <3> QED
      BY <1>2, <2>1, <3>1, <3>2
  <2>3. CASE fetched' # <<>>
    <3>1. HandledUpTo' = nextUpdate - (Len(fetched) - 1)
      BY <1>2, <1>3, <2>3 DEF HandledUpTo
    <3> QED
      BY <1>2, <1>3, <2>1, <3>1
  <2> QED
    BY <2>2, <2>3
<1>6. /\ posted' = posted \/ Says(u)
      /\ Answers(u) /\ Traced(u) /\ Warned(u) /\ (IsChat(u) => Says(u)) /\ FleetKnowsMode'
      /\ UNCHANGED <<live, armed, member, notes, moves>>
      /\ opMode' \in InboxModes /\ toldMode' \in InboxModes /\ unannounced' \in BOOLEAN
      /\ place' \in [AnyRoom -> Places \cup {0}]
  BY DEF Handles, fleetSide
<1>7. InboxTyped'
  <2>1. /\ live' \subseteq Fleet /\ armed' \subseteq Fleet /\ member' \in [AnyRoom -> SUBSET Fleet]
        /\ notes' \in Seq(Fleet) /\ Len(notes) <= Len(notes') /\ moves' \in Nat /\ inboxKills' \in Nat
    BY <1>1, <1>2, <1>6, LenProperties DEF InboxTypeOK
  <2> QED
    BY <1>1, <1>2, <1>3, <1>6, <2>1, StillTyped
<1>8. Turns(u)
  BY <1>2, <1>5, <1>6 DEF Turns
<1> QED
  BY <1>2, <1>4, <1>5, <1>6, <1>7, <1>8, PromisesKept

\* A step that leaves the loop where it is and posts nothing of what was typed.
LEMMA StandingStill ==
    ASSUME InboxInv, UNCHANGED <<typed, loopSide, shown, lostReplies, inboxKills>>,
           posted' = posted \/ Says(0), FleetKnowsMode',
           live' \subseteq Fleet, armed' \subseteq Fleet, member' \in [AnyRoom -> SUBSET Fleet],
           notes' \in Seq(Fleet), Len(notes) <= Len(notes'), moves' \in Nat, place' = place,
           opMode' \in InboxModes, toldMode' \in InboxModes, unannounced' \in BOOLEAN
    PROVE  InboxInv'
<1>1. InboxTyped /\ InOrder /\ InboxTypeOK /\ inboxKills \in Nat
  BY DEF InboxInv, InboxTyped
<1>2. /\ Len(typed) \in Nat /\ DOMAIN typed = 1..Len(typed) /\ typed \in Seq(Texts)
      /\ UNCHANGED <<typed, confirmed, nextUpdate, fetched, shown, lostReplies, inboxKills>>
      /\ confirmed \in 0..Len(typed) /\ nextUpdate \in 0..Len(typed) /\ fetched \in Seq(DOMAIN typed)
      /\ place \in [AnyRoom -> Places \cup {0}]
  BY <1>1, LenProperties DEF InboxTypeOK, loopSide
<1>3. InOrder' /\ HandledUpTo' = HandledUpTo
  BY <1>1, <1>2 DEF InOrder, HandledUpTo
<1>4. Answers(0) /\ Warned(0) /\ Turns(0)
  BY <1>2, <1>3 DEF Answers, Warned, Turns
<1>5. InboxTyped'
  <2>1. 0 \in Nat /\ 0 <= Len(typed) /\ shown' = shown /\ typed' = typed /\ inboxKills' \in Nat
        /\ place' \in [AnyRoom -> Places \cup {0}]
        /\ confirmed' \in 0..Len(typed) /\ nextUpdate' \in 0..Len(typed)
        /\ fetched' \in Seq(DOMAIN typed)
    BY <1>1, <1>2
  <2> QED
    BY <1>1, <1>4, <2>1, StillTyped
<1>6. HandledUpTo' # HandledUpTo + 1
  BY <1>1, <1>3, Standing
<1> QED
  BY <1>2, <1>3, <1>4, <1>5, <1>6, PromisesKept

\* A kill, whatever it left of the text at hand.
LEMMA KillKeeps ==
    ASSUME InboxInv, UNCHANGED <<typed, confirmed, shown, lostReplies, fleetSide, place>>, Forgets,
           NEW u \in Nat, u <= Len(typed),
           posted' = posted \/ (fetched # <<>> /\ u = Head(fetched) /\ Says(u)),
           FleetKnowsMode', opMode' \in InboxModes, toldMode' \in InboxModes, unannounced' \in BOOLEAN
    PROVE  InboxInv'
<1>1. InboxTyped /\ InOrder /\ InboxTypeOK /\ inboxKills \in Nat /\ moves \in Nat /\ lostReplies \in Nat
  BY DEF InboxInv, InboxTyped
<1>2. /\ Len(typed) \in Nat /\ DOMAIN typed = 1..Len(typed) /\ typed \in Seq(Texts)
      /\ UNCHANGED <<typed, confirmed, shown, lostReplies, live, armed, member, notes, moves, place>>
      /\ nextUpdate' = 0 /\ fetched' = <<>> /\ inboxKills' = inboxKills + 1
      /\ confirmed \in 0..Len(typed)
  BY <1>1, LenProperties DEF InboxTypeOK, Forgets, fleetSide
<1>3. InOrder'
  BY <1>2, EmptySeq DEF InOrder
<1>4. HandledUpTo' = confirmed /\ confirmed <= HandledUpTo /\ HandledUpTo \in Nat
      /\ (fetched # <<>> => Head(fetched) = HandledUpTo + 1)
  BY <1>1, <1>2, Standing DEF HandledUpTo
<1>5. Answers(u) /\ Warned(u) /\ Turns(u) /\ (posted' = posted \/ Says(u))
  BY <1>1, <1>2, <1>4 DEF Answers, Warned, Turns
<1>6. InboxTyped'
  <2>1. /\ live' \subseteq Fleet /\ armed' \subseteq Fleet /\ member' \in [AnyRoom -> SUBSET Fleet]
        /\ notes' \in Seq(Fleet) /\ Len(notes) <= Len(notes') /\ moves' \in Nat /\ inboxKills' \in Nat
        /\ fetched' \in Seq(DOMAIN typed) /\ place' \in [AnyRoom -> Places \cup {0}]
        /\ confirmed' \in 0..Len(typed) /\ nextUpdate' \in 0..Len(typed)
    BY <1>1, <1>2, LenProperties, EmptySeq DEF InboxTypeOK
  <2> QED
    BY <1>1, <1>2, <1>5, <2>1, StillTyped
<1>7. HandledUpTo' # HandledUpTo + 1
  BY <1>2, <1>4
<1> QED
  BY <1>2, <1>3, <1>5, <1>6, <1>7, PromisesKept

\* One more text typed: it is behind the loop, and nothing is said of it yet.
LEMMA TypingKeeps ==
    ASSUME InboxInv, NEW t \in Typable, TypeText(t) PROVE InboxInv'
<1>1. /\ InboxTyped /\ InOrder /\ PostedInTurn /\ InboxTypeOK /\ FleetKnowsMode
      /\ {moves, lostReplies, inboxKills} \subseteq Nat
      /\ Cardinality(Silent) <= lostReplies /\ Cardinality(Unheard) <= lostReplies + inboxKills
      /\ \A u \in DOMAIN typed : TypedWell(typed[u])
      /\ \A i \in DOMAIN posted : posted[i].text <= Len(typed)
  BY DEF InboxInv, InboxTyped
<1>2. t \in Texts /\ TypedWell(t)
  <2>1. Len(notes) \in Nat
    BY <1>1, LenProperties DEF InboxTypeOK
  <2>2. \A n \in 0..Len(notes) : n \in Nat /\ n <= Len(notes)
    BY <2>1
  <2> QED
    BY <2>1, <2>2, InboxConstants DEF Typable, Text, Texts, TypedWell, AnyRoom
<1>3. /\ typed \in Seq(Texts) /\ typed' = Append(typed, t) /\ typed' \in Seq(Texts)
      /\ Len(typed) \in Nat /\ Len(typed') = Len(typed) + 1
      /\ DOMAIN typed = 1..Len(typed) /\ DOMAIN typed' = 1..(Len(typed) + 1)
      /\ \A u \in 1..Len(typed) : typed'[u] = typed[u]
      /\ typed'[Len(typed) + 1] = t
      /\ DOMAIN typed' = DOMAIN typed \cup {Len(typed) + 1}
  <2>1. typed \in Seq(Texts) /\ typed' = Append(typed, t)
    BY <1>1 DEF InboxTypeOK, TypeText
  <2>2. /\ typed' \in Seq(Texts) /\ Len(typed') = Len(typed) + 1 /\ Len(typed) \in Nat
        /\ \A u \in 1..Len(typed) : typed'[u] = typed[u]
        /\ typed'[Len(typed) + 1] = t
    BY <1>2, <2>1, AppendProperties
  <2>3. DOMAIN typed = 1..Len(typed) /\ DOMAIN typed' = 1..(Len(typed) + 1)
    BY <2>1, <2>2, LenProperties
  <2> QED
    BY <2>1, <2>2, <2>3
<1>4. UNCHANGED <<opMode, toldMode, live, armed, member, notes, moves, place, confirmed, nextUpdate,
                  fetched, posted, shown, unannounced, lostReplies, inboxKills>>
  BY DEF TypeText, fleetSide, loopSide
<1>5. /\ HandledUpTo' = HandledUpTo /\ HandledUpTo \in 0..Len(typed)
      /\ \A x : PostsOf(x)' = PostsOf(x)
      /\ PostsOf(Len(typed) + 1) = {}
  <2>1. HandledUpTo' = HandledUpTo /\ \A x : PostsOf(x)' = PostsOf(x)
    BY <1>4 DEF HandledUpTo, PostsOf
  <2>2. \A i \in DOMAIN posted : posted[i].text # Len(typed) + 1
    BY <1>1, <1>3
  <2> QED
    BY <1>1, <2>1, <2>2, Standing DEF PostsOf
<1>6. \A u \in 1..Len(typed) : (IsChat(u)' <=> IsChat(u)) /\ (Relayed(u)' <=> Relayed(u))
  BY <1>3 DEF IsChat, Relayed, is_command
<1>7. InboxTyped'
  <2>1. fetched \in Seq(DOMAIN typed')
    <3>1. fetched \in Seq(DOMAIN typed)
      BY <1>1 DEF InboxTypeOK
    <3> QED
      BY <1>3, <3>1
  <2>2. \A u \in DOMAIN typed' : TypedWell(typed'[u])
    <3>1. \A u \in DOMAIN typed : TypedWell(typed[u])
      BY <1>1
    <3>2. \A u \in DOMAIN typed' : u \in DOMAIN typed \/ u = Len(typed) + 1
      BY <1>3
    <3> QED
      BY <1>2, <1>3, <3>1, <3>2
  <2>3. \A u \in DOMAIN typed' : TypedWell(typed[u])'
    BY <1>4, <2>2 DEF TypedWell
  <2>4. confirmed \in 0..(Len(typed) + 1) /\ nextUpdate \in 0..(Len(typed) + 1)
    BY <1>1, <1>3 DEF InboxTypeOK
  <2>5. \A i \in DOMAIN posted : posted[i].text <= Len(typed) + 1
    <3>1. posted \in Seq(Posts)
      BY <1>1 DEF InboxTypeOK
    <3>2. \A i \in DOMAIN posted : posted[i].text \in Nat
      <4>1. \A i \in DOMAIN posted : posted[i] \in Posts
        BY <3>1, ElementOfSeq, LenProperties
      <4> QED
        BY <4>1 DEF Posts
    <3> QED
      BY <1>1, <1>3, <3>2
  <2>6. shown \subseteq (DOMAIN typed') \X {"done", "unknown", "unheard"}
    BY <1>1, <1>3 DEF InboxTypeOK
  <2>7. InboxTypeOK'
    BY <1>1, <1>3, <1>4, <2>1, <2>4, <2>6 DEF InboxTypeOK
  <2> QED
    BY <1>1, <1>3, <1>4, <2>3, <2>5, <2>7 DEF InboxTyped
<1>8. InOrder'
  BY <1>1, <1>4 DEF InOrder
<1>9. PostedInTurn'
  <2>1. ASSUME NEW u \in DOMAIN typed'
        PROVE  Cardinality(PostsOf(u)) <= inboxKills + IF u <= HandledUpTo THEN 1 ELSE 0
    <3>1. CASE u \in DOMAIN typed
      BY <1>1, <3>1 DEF PostedInTurn
    <3>2. CASE u = Len(typed) + 1
      <4>1. Cardinality(PostsOf(u)) = 0
        BY <1>5, <3>2, FS_EmptySet
      <4>2. ~(u <= HandledUpTo) /\ inboxKills \in Nat
        BY <1>1, <1>3, <1>5, <3>2
      <4> QED
        BY <4>1, <4>2
    <3> QED
      BY <1>3, <2>1, <3>1, <3>2
  <2>2. ASSUME NEW u \in DOMAIN typed', u <= HandledUpTo, IsChat(u)' PROVE PostsOf(u) # {}
    <3>1. u \in DOMAIN typed
      BY <1>3, <1>5, <2>2
    <3> QED
      BY <1>1, <1>3, <1>6, <2>2, <3>1 DEF PostedInTurn
  <2>3. ASSUME NEW u \in DOMAIN typed', NEW v \in DOMAIN typed', u < v, IsChat(u)', IsChat(v)',
               NEW j \in PostsOf(v)
        PROVE  \E i \in PostsOf(u) : i < j
    <3>1. v \in DOMAIN typed /\ u \in DOMAIN typed
      BY <1>3, <1>5, <2>3
    <3> QED
      BY <1>1, <1>3, <1>6, <2>3, <3>1 DEF PostedInTurn
  <2> QED
    BY <1>4, <1>5, <2>1, <2>2, <2>3 DEF PostedInTurn
<1>10. Cardinality(Silent') <= lostReplies'
  <2>1. Silent' \subseteq Silent
    <3>1. \A u \in DOMAIN typed' : u <= HandledUpTo => u \in DOMAIN typed
      BY <1>3, <1>5
    <3> QED
      BY <1>4, <1>5, <3>1 DEF Silent
  <2> QED
    BY <1>1, <1>4, <2>1, AstrayAreFew, StillPaid
<1>11. Cardinality(Unheard') <= lostReplies' + inboxKills'
  <2>1. Unheard' \subseteq Unheard
    BY <1>3, <1>4, <1>5, <1>6 DEF Unheard
  <2>2. lostReplies + inboxKills \in Nat
    BY <1>1
  <2>3. Cardinality(Unheard') <= lostReplies + inboxKills
    BY <1>1, <2>1, <2>2, AstrayAreFew, StillPaid
  <2> QED
    BY <1>4, <2>3
<1> QED
  BY <1>1, <1>4, <1>7, <1>8, <1>9, <1>10, <1>11 DEF InboxInv, FleetKnowsMode

\* getUpdates hands out what is behind the loop, and confirms what the loop has done.
LEMMA FetchKeeps ==
    ASSUME InboxInv, Fetch PROVE InboxInv'
<1>1. /\ InboxTyped /\ InOrder /\ InboxTypeOK /\ moves \in Nat /\ inboxKills \in Nat
      /\ FleetKnowsMode
  BY DEF InboxInv, InboxTyped
<1>2. /\ Len(typed) \in Nat /\ DOMAIN typed = 1..Len(typed) /\ typed \in Seq(Texts)
      /\ confirmed \in 0..Len(typed) /\ nextUpdate \in 0..Len(typed)
      /\ place \in [AnyRoom -> Places \cup {0}]
  BY <1>1, LenProperties DEF InboxTypeOK
<1>3. /\ fetched = <<>> /\ confirmed' = Max({nextUpdate, confirmed}) /\ confirmed' < Len(typed)
      /\ fetched' = [k \in 1..(Len(typed) - confirmed') |-> confirmed' + k]
      /\ nextUpdate' = Len(typed)
      /\ UNCHANGED <<opMode, toldMode, live, armed, member, notes, moves, place, typed, posted, shown,
                     unannounced, lostReplies, inboxKills>>
  BY DEF Fetch, fleetSide
<1>4. confirmed' = HandledUpTo /\ confirmed' \in 0..Len(typed) /\ HandledUpTo \in Nat
  <2>1. \A x \in {nextUpdate, confirmed} : x <= HandledUpTo
    BY <1>2, <1>3 DEF HandledUpTo
  <2>2. HandledUpTo \in {nextUpdate, confirmed}
    BY <1>3 DEF HandledUpTo
  <2>3. nextUpdate \in Nat /\ confirmed \in Nat
    BY <1>2
  <2>4. Max({nextUpdate, confirmed}) = HandledUpTo
    BY <2>1, <2>2, <2>3 DEF Max
  <2> QED
    BY <1>2, <1>3, <2>2, <2>4
<1> DEFINE c == confirmed'
           l == Len(typed)
           n == l - c
<1>5. /\ n \in Nat \ {0} /\ c \in Nat /\ l \in Nat /\ c + n = l
      /\ fetched' \in Seq(DOMAIN typed) /\ Len(fetched') = n
      /\ DOMAIN fetched' = 1..n /\ fetched' # <<>> /\ \A k \in 1..n : fetched'[k] = c + k
  <2>1. c \in Nat /\ l \in Nat /\ c < l /\ DOMAIN typed = 1..l
    BY <1>2, <1>3, <1>4
  <2>2. fetched' = [k \in 1..n |-> c + k]
    BY <1>3
  <2> HIDE DEF c, l
  <2>3. n \in Nat \ {0} /\ c + n = l
    BY <2>1
  <2>4. \A k \in 1..n : c + k \in DOMAIN typed
    BY <2>1
  <2>5. fetched' \in [1..n -> DOMAIN typed] /\ DOMAIN fetched' = 1..n
    BY <2>2, <2>4
  <2>6. \A k \in 1..n : fetched'[k] = c + k
    BY <2>2
  <2> HIDE DEF n
  <2>7. fetched' \in Seq(DOMAIN typed) /\ Len(fetched') = n
    BY <2>3, <2>5, SeqDef
  <2>8. fetched' # <<>>
    BY <2>3, <2>7, EmptySeq
  <2> QED
    BY <2>1, <2>3, <2>5, <2>6, <2>7, <2>8
<1>6. InOrder' /\ HandledUpTo' = HandledUpTo
  <2>1. nextUpdate' = l /\ confirmed' = c /\ HandledUpTo = c
    BY <1>3, <1>4
  <2> HIDE DEF n, c, l
  <2>2. \A k \in DOMAIN fetched' : fetched'[k] = nextUpdate' - Len(fetched') + k
    BY <1>5, <2>1, SMTT(20)
  <2>3. confirmed' + Len(fetched') <= nextUpdate' /\ nextUpdate' - Len(fetched') = c
    BY <1>5, <2>1
  <2>4. HandledUpTo' = nextUpdate' - Len(fetched')
    BY <1>5 DEF HandledUpTo
  <2> QED
    BY <2>1, <2>2, <2>3, <2>4 DEF InOrder
<1>7. Answers(0) /\ Warned(0) /\ Turns(0)
  BY <1>2, <1>3, <1>6 DEF Answers, Warned, Turns
<1>8. InboxTyped'
  <2>1. /\ 0 \in Nat /\ 0 <= Len(typed) /\ shown' = shown /\ typed' = typed /\ posted' = posted
        /\ inboxKills' \in Nat /\ moves' \in Nat
        /\ live' \subseteq Fleet /\ armed' \subseteq Fleet /\ member' \in [AnyRoom -> SUBSET Fleet]
        /\ notes' \in Seq(Fleet) /\ Len(notes) <= Len(notes')
        /\ place' \in [AnyRoom -> Places \cup {0}]
        /\ opMode' \in InboxModes /\ toldMode' \in InboxModes /\ unannounced' \in BOOLEAN
        /\ confirmed' \in 0..Len(typed) /\ nextUpdate' \in 0..Len(typed)
    BY <1>1, <1>2, <1>3, <1>4, LenProperties DEF InboxTypeOK
  <2> QED
    BY <1>1, <1>5, <1>7, <2>1, StillTyped
<1>9. HandledUpTo' # HandledUpTo + 1 /\ FleetKnowsMode'
  BY <1>1, <1>3, <1>4, <1>6 DEF FleetKnowsMode
<1> QED
  BY <1>3, <1>6, <1>7, <1>8, <1>9, PromisesKept

\* The invariant holds, whatever the operator types and the daemon and the phone suffer.
LEMMA InboxInvHolds == InboxSpec => []InboxInv
<1>1. InboxInit => InboxInv
  <2> SUFFICES ASSUME InboxInit PROVE InboxInv
    OBVIOUS
  <2>1. /\ typed = <<>> /\ posted = <<>> /\ notes = <<>> /\ fetched = <<>> /\ confirmed = 0
        /\ nextUpdate = 0 /\ shown = {} /\ moves = 0 /\ lostReplies = 0 /\ inboxKills = 0
        /\ opMode \in InboxModes /\ toldMode = opMode /\ unannounced = FALSE
        /\ live = Fleet /\ armed = Fleet /\ place \in [AnyRoom -> Places \cup {0}]
        /\ member = [r \in AnyRoom |-> IF r = "lobby" THEN Fleet ELSE {}]
    BY DEF InboxInit
  <2>2. /\ Len(typed) = 0 /\ DOMAIN typed = {} /\ DOMAIN posted = {} /\ DOMAIN fetched = {}
        /\ typed \in Seq(Texts) /\ posted \in Seq(Posts) /\ notes \in Seq(Fleet)
        /\ fetched \in Seq(DOMAIN typed)
    BY <2>1, EmptySeq
  <2>3. member \in [AnyRoom -> SUBSET Fleet]
    BY <2>1
  <2>4. InboxTyped
    <3>1. confirmed \in 0..Len(typed) /\ nextUpdate \in 0..Len(typed)
      BY <2>1, <2>2
    <3>2. InboxTypeOK
      BY <2>1, <2>2, <2>3, <3>1 DEF InboxTypeOK
    <3>3. {moves, lostReplies, inboxKills} \subseteq Nat
      BY <2>1
    <3> QED
      BY <2>2, <3>2, <3>3 DEF InboxTyped
  <2>5. Silent = {} /\ Unheard = {}
    BY <2>2 DEF Silent, Unheard
  <2> QED
    BY <2>1, <2>2, <2>4, <2>5, FS_EmptySet DEF InboxInv, InOrder, PostedInTurn, FleetKnowsMode
<1>2. InboxInv /\ [InboxNext]_inboxVars => InboxInv'
  <2> SUFFICES ASSUME InboxInv, [InboxNext]_inboxVars PROVE InboxInv'
    OBVIOUS
  <2>1. /\ live \subseteq Fleet /\ armed \subseteq Fleet /\ member \in [AnyRoom -> SUBSET Fleet]
        /\ notes \in Seq(Fleet) /\ Len(notes) \in Nat
        /\ opMode \in InboxModes /\ toldMode \in InboxModes /\ unannounced \in BOOLEAN
        /\ moves \in Nat /\ FleetKnowsMode /\ InboxTyped /\ typed \in Seq(Texts)
        /\ Len(typed) \in Nat /\ DOMAIN typed = 1..Len(typed)
    BY LenProperties DEF InboxInv, InboxTyped, InboxTypeOK
  <2>2. ASSUME NEW s \in Fleet, Move(s) PROVE InboxInv'
    <3>1. /\ moves' = moves + 1
          /\ UNCHANGED <<opMode, toldMode, notes, place, typed, loopSide, posted, shown,
                         unannounced, lostReplies, inboxKills>>
      BY <2>2 DEF Move
    <3>2. live' \subseteq Fleet /\ armed' \subseteq Fleet /\ member' \in [AnyRoom -> SUBSET Fleet]
      BY <2>1, <2>2 DEF Move
    <3>3. FleetKnowsMode'
      BY <2>1, <3>1 DEF FleetKnowsMode
    <3> QED
      BY <2>1, <3>1, <3>2, <3>3, StandingStill
  <2>3. ASSUME NEW s \in Fleet, Note(s) PROVE InboxInv'
    <3>1. /\ notes' = Append(notes, s)
          /\ UNCHANGED <<opMode, toldMode, live, armed, member, moves, place, typed, loopSide,
                         posted, shown, unannounced, lostReplies, inboxKills>>
      BY <2>3 DEF Note
    <3>2. notes' \in Seq(Fleet) /\ Len(notes) <= Len(notes')
      BY <2>1, <3>1, AppendProperties
    <3>3. FleetKnowsMode'
      BY <2>1, <3>1 DEF FleetKnowsMode
    <3> QED
      BY <2>1, <3>1, <3>2, <3>3, StandingStill
  <2>4. ASSUME NEW t \in Typable, TypeText(t) PROVE InboxInv'
    BY <2>4, TypingKeeps
  <2>5. ASSUME NEW m \in InboxModes, ModeAtKeyboard(m) PROVE InboxInv'
    <3>1. /\ moves' = moves + 1 /\ set_mode(0, m)
          /\ UNCHANGED <<live, armed, member, notes, place, typed, loopSide, shown, lostReplies,
                         inboxKills>>
      BY <2>5 DEF ModeAtKeyboard
    <3>2. /\ posted' = posted \/ Says(0)
          /\ opMode' \in InboxModes /\ toldMode' \in InboxModes /\ unannounced' \in BOOLEAN
          /\ FleetKnowsMode'
      BY <2>1, <3>1, ModeIsTold
    <3> QED
      BY <2>1, <3>1, <3>2, StandingStill
  <2>6. ASSUME NEW m \in InboxModes, ModeAtDashboard(m) PROVE InboxInv'
    <3>1. /\ moves' = moves + 1 /\ opMode' = m /\ unannounced' = TRUE
          /\ UNCHANGED <<toldMode, live, armed, member, notes, place, typed, loopSide, posted,
                         shown, lostReplies, inboxKills>>
      BY <2>6 DEF ModeAtDashboard
    <3>2. FleetKnowsMode'
      BY <3>1 DEF FleetKnowsMode
    <3> QED
      BY <2>1, <3>1, <3>2, StandingStill
  <2>7. CASE Fetch
    BY <2>7, FetchKeeps
  <2>8. CASE KillInbox
    <3>1. /\ Forgets
          /\ UNCHANGED <<opMode, toldMode, fleetSide, place, typed, confirmed, posted, shown,
                         unannounced, lostReplies>>
      BY <2>8 DEF KillInbox
    <3>2. FleetKnowsMode'
      BY <2>1, <3>1 DEF FleetKnowsMode
    <3>3. 0 \in Nat /\ 0 <= Len(typed)
      BY <2>1
    <3> QED
      BY <2>1, <3>1, <3>2, <3>3, KillKeeps
  <2>9. ASSUME NEW u \in DOMAIN typed, KillBeforeBanner(u) PROVE InboxInv'
    <3>1. /\ Forgets /\ opMode' = typed[u].arg /\ unannounced' = TRUE /\ typed[u].do = "mode"
          /\ UNCHANGED <<toldMode, fleetSide, place, typed, confirmed, posted, shown, lostReplies>>
      BY <2>9 DEF KillBeforeBanner
    <3>2. opMode' \in InboxModes
      BY <2>1, <3>1 DEF InboxTyped, TypedWell
    <3>3. FleetKnowsMode'
      BY <3>1 DEF FleetKnowsMode
    <3>4. u \in Nat /\ u <= Len(typed)
      BY <2>1
    <3> QED
      BY <2>1, <3>1, <3>2, <3>3, <3>4, KillKeeps
  <2>10. ASSUME NEW u \in DOMAIN typed, KillBeforeWarning(u) PROVE InboxInv'
    <3>1. /\ Forgets /\ fetched # <<>> /\ u = Head(fetched)
          /\ UNCHANGED <<opMode, toldMode, fleetSide, place, typed, confirmed, shown, unannounced,
                         lostReplies>>
      BY <2>10 DEF KillBeforeWarning
    <3>2. PICK r \in room_for_thread(typed[u].in) : post_as_operator(u, r, "@all")
      BY <2>10 DEF KillBeforeWarning
    <3>3. r \in AnyRoom
      BY <3>2 DEF room_for_thread, AnyRoom
    <3>4. u \in Nat /\ u <= Len(typed)
      BY <2>1
    <3>5. Says(u)
      BY <2>1, <3>2, <3>3, <3>4, PostIsOne DEF post_as_operator
    <3>6. FleetKnowsMode'
      BY <2>1, <3>1 DEF FleetKnowsMode
    <3> QED
      BY <2>1, <3>1, <3>4, <3>5, <3>6, KillKeeps
  <2>11. ASSUME NEW u \in DOMAIN typed, Handle_(u) PROVE InboxInv'
    BY <2>1, <2>11, EachWayHandles, HandlingKeeps
  <2>12. CASE UNCHANGED inboxVars
    <3>1. UNCHANGED <<opMode, toldMode, live, armed, member, notes, moves, place, typed, loopSide,
                      posted, shown, unannounced, lostReplies, inboxKills>>
      BY <2>12 DEF inboxVars, fleetSide
    <3>2. FleetKnowsMode'
      BY <2>1, <3>1 DEF FleetKnowsMode
    <3> QED
      BY <2>1, <3>1, <3>2, StandingStill
  <2> QED
    BY <2>2, <2>3, <2>4, <2>5, <2>6, <2>7, <2>8, <2>9, <2>10, <2>11, <2>12 DEF InboxNext
<1> QED
  BY <1>1, <1>2, PTL DEF InboxSpec

\* What the operator typed is neither lost nor misordered, no room is silently deaf to it, and
\* the fleet knows the mode, for any number of sessions, texts, lost replies and kills
\* (bridge.rs, handle_message; handlers.rs, set_mode).
THEOREM InboxIsSafe == InboxSpec => []InboxSafety
<1>1. InboxInv => InboxSafety
  <2> SUFFICES ASSUME InboxInv PROVE InboxSafety
    OBVIOUS
  <2>1. /\ InboxTyped /\ InOrder /\ PostedInTurn /\ InboxTypeOK /\ FleetKnowsMode
        /\ posted \in Seq(Posts) /\ typed \in Seq(Texts) /\ inboxKills \in Nat /\ lostReplies \in Nat
        /\ Len(typed) \in Nat /\ DOMAIN typed = 1..Len(typed)
        /\ Cardinality(Silent) <= lostReplies /\ Cardinality(Unheard) <= lostReplies + inboxKills
    BY LenProperties DEF InboxInv, InboxTyped, InboxTypeOK
  <2>2. TypedInOrder
    <3>1. \A u \in DOMAIN typed : Cardinality(PostsOf(u)) <= 1 + inboxKills
      <4>1. ASSUME NEW u \in DOMAIN typed PROVE Cardinality(PostsOf(u)) <= 1 + inboxKills
        <5>1. Cardinality(PostsOf(u)) \in Nat
          BY <2>1, PostsAreFew
        <5>2. Cardinality(PostsOf(u)) <= inboxKills + IF u <= HandledUpTo THEN 1 ELSE 0
          BY <2>1 DEF PostedInTurn
        <5> QED
          BY <2>1, <5>1, <5>2
      <4> QED
        BY <4>1
    <3>2. ASSUME NEW u \in DOMAIN typed, NEW v \in DOMAIN typed, IsChat(u), IsChat(v),
                 PostsOf(u) # {}, PostsOf(v) # {}, u < v
          PROVE  Min(PostsOf(u)) < Min(PostsOf(v))
      <4>1. PostsOf(u) \in SUBSET Nat /\ PostsOf(v) \in SUBSET Nat
        <5>1. PostsOf(u) \subseteq 1..Len(posted) /\ PostsOf(v) \subseteq 1..Len(posted)
          BY <2>1, PostsAreFew
        <5>2. 1..Len(posted) \subseteq Nat
          BY <2>1, LenProperties
        <5> QED
          BY <5>1, <5>2
      <4>2. Min(PostsOf(v)) \in PostsOf(v)
        BY <3>2, <4>1, MinIsLeast
      <4>3. PICK i \in PostsOf(u) : i < Min(PostsOf(v))
        BY <2>1, <3>2, <4>2 DEF PostedInTurn
      <4>4. Min(PostsOf(u)) \in PostsOf(u) /\ Min(PostsOf(u)) <= i
        BY <3>2, <4>1, <4>3, MinIsLeast
      <4> QED
        BY <4>1, <4>2, <4>3, <4>4
    <3> QED
      BY <3>1, <3>2 DEF TypedInOrder, IsChat
  <2>3. HeardOrTold
    BY <2>1 DEF HeardOrTold, Unheard, IsChat
  <2>4. NothingSwallowed
    <3> DEFINE gone == {u \in 1..confirmed : PostsOf(u) = {} /\ \A w \in shown : w[1] # u}
    <3>1. gone \subseteq Silent
      <4>1. confirmed \in 0..Len(typed) /\ confirmed <= HandledUpTo /\ HandledUpTo \in 0..Len(typed)
        BY <2>1, Standing DEF InboxTypeOK
      <4>2. \A u \in 1..confirmed : u \in DOMAIN typed /\ u <= HandledUpTo
        BY <2>1, <4>1
      <4> QED
        BY <4>2 DEF Silent
    <3> HIDE DEF gone
    <3>2. IsFiniteSet(Silent)
      BY <2>1, AstrayAreFew
    <3>3. Cardinality(gone) <= lostReplies
      BY <2>1, <3>1, <3>2, StillPaid
    <3> QED
      BY <3>3 DEF gone, NothingSwallowed
  <2> QED
    BY <2>1, <2>2, <2>3, <2>4 DEF InboxSafety
<1> QED
  BY <1>1, InboxInvHolds, PTL

(***************************************************************************)
(* The topics.                                                             *)
(***************************************************************************)

TopicThreads == {row[r].thread : r \in DOMAIN row}
Orphans == DOMAIN thread \ TopicThreads
TopicMishaps == callFaults + topicKills + adoptions

\* Besides TopicSafety: rows point to topics there are, and what is to be closed has a row.
TopicInv ==
    /\ TopicTypeOK /\ NoOrphans
    /\ callFaults \in Nat /\ topicKills \in Nat /\ adoptions \in Nat
    /\ TopicThreads \subseteq DOMAIN thread
    /\ sweep.stage = "close" => sweep.todo \subseteq DOMAIN row

RowTyped == DOMAIN row \subseteq TopicRooms /\ row \in [DOMAIN row -> Rows]
ThreadTyped == thread \in Seq([room : TopicRooms, open : BOOLEAN]) /\ Len(thread) <= MaxThreads

\* Opening or closing a topic changes which there are in nothing.
LEMMA TopicRewritten ==
    ASSUME ThreadTyped, NEW t, NEW b \in BOOLEAN, thread' = SetOpen(t, b)
    PROVE  ThreadTyped' /\ DOMAIN thread' = DOMAIN thread
<1> DEFINE T == [room : TopicRooms, open : BOOLEAN]
<1>1. /\ thread \in Seq(T) /\ Len(thread) \in Nat /\ DOMAIN thread = 1..Len(thread)
      /\ thread \in [1..Len(thread) -> T] /\ Len(thread) <= MaxThreads
  <2>1. thread \in Seq(T) /\ Len(thread) <= MaxThreads
    BY DEF ThreadTyped
  <2> HIDE DEF T
  <2> QED
    BY <2>1, LenProperties
<1>2. thread' = [i \in 1..Len(thread) |-> IF i = t THEN [thread[t] EXCEPT !.open = b] ELSE thread[i]]
  BY <1>1 DEF SetOpen
<1>3. ASSUME NEW i \in 1..Len(thread) PROVE thread'[i] \in T
  <2>1. thread[i] \in T
    BY <1>1
  <2>2. [thread[i] EXCEPT !.open = b] \in T
    BY <2>1
  <2> QED
    BY <1>2, <2>1, <2>2
<1>4. thread' \in [1..Len(thread) -> T]
  BY <1>2, <1>3
<1>5. thread' \in Seq(T) /\ Len(thread') = Len(thread) /\ DOMAIN thread' = 1..Len(thread)
  <2> HIDE DEF T
  <2> QED
    BY <1>1, <1>4, SeqDef
<1> QED
  BY <1>1, <1>5 DEF ThreadTyped

\* A new topic is the next one.
LEMMA TopicMade ==
    ASSUME ThreadTyped, NEW r \in TopicRooms, Len(thread) < MaxThreads, NewThread(r),
           TopicConstants
    PROVE  /\ ThreadTyped' /\ DOMAIN thread' = DOMAIN thread \cup {Len(thread')}
           /\ Len(thread') \in 1..MaxThreads /\ Len(thread') \notin DOMAIN thread
<1> DEFINE T == [room : TopicRooms, open : BOOLEAN]
           new == [room |-> r, open |-> TRUE]
<1>1. new \in T
  OBVIOUS
<1>2. thread \in Seq(T) /\ Len(thread) \in Nat /\ thread' = Append(thread, new)
  BY DEF ThreadTyped, NewThread
<1> HIDE DEF T, new
<1>3. /\ thread' \in Seq(T) /\ Len(thread') = Len(thread) + 1
      /\ DOMAIN thread = 1..Len(thread) /\ DOMAIN thread' = 1..(Len(thread) + 1)
  BY <1>1, <1>2, AppendProperties
<1> QED
  BY <1>2, <1>3 DEF ThreadTyped, T

\* One orphan more at most, for one mishap more.
LEMMA PaidOrphan ==
    ASSUME NoOrphans, IsFiniteSet(DOMAIN thread), TopicMishaps \in Nat, TopicMishaps' \in Nat,
           \/ Orphans' \subseteq Orphans /\ TopicMishaps <= TopicMishaps'
           \/ /\ \E x : Orphans' \subseteq Orphans \cup {x}
              /\ TopicMishaps + 1 <= TopicMishaps'
    PROVE  NoOrphans'
<1>1. IsFiniteSet(Orphans) /\ Cardinality(Orphans) \in Nat /\ Cardinality(Orphans) <= TopicMishaps
  BY FS_Subset, FS_CardinalityType DEF Orphans, NoOrphans, TopicMishaps, TopicThreads
<1>2. Cardinality(Orphans') <= TopicMishaps'
  BY <1>1, StillPaid
<1> QED
  BY <1>2 DEF Orphans, NoOrphans, TopicMishaps, TopicThreads

\* Calls that fail are counted.
LEMMA Spent ==
    ASSUME NEW S, IsFiniteSet(S), callFaults \in Nat, Spend(S)
    PROVE  /\ callFaults' \in Nat /\ callFaults <= callFaults'
           /\ \A c : S = {c} /\ c[2] # Done => callFaults' = callFaults + 1
<1> DEFINE failed == {c \in S : c[2] # Done}
<1>1. IsFiniteSet(failed) /\ Cardinality(failed) \in Nat
  BY FS_Subset, FS_CardinalityType
<1>2. callFaults' = callFaults + Cardinality(failed)
  BY DEF Spend
<1>3. ASSUME NEW c, S = {c}, c[2] # Done PROVE Cardinality(failed) = 1
  <2>1. failed = {c}
    BY <1>3
  <2> QED
    BY <2>1, FS_Singleton
<1> HIDE DEF failed
<1> QED
  BY <1>1, <1>2, <1>3

\* Reopening and retitling moves no row to another topic.
LEMMA RefreshKeeps ==
    ASSUME TopicInv, NEW r \in DOMAIN row, Refresh(r)
    PROVE  /\ RowTyped' /\ ThreadTyped' /\ DOMAIN row' = DOMAIN row
           /\ TopicThreads' = TopicThreads /\ DOMAIN thread' = DOMAIN thread
           /\ callFaults' \in Nat /\ callFaults <= callFaults'
<1> USE DEF TopicInv, TopicTypeOK
<1>1. PICK reopened \in Outcomes, retitled \in Outcomes :
        /\ Spend({<<"reopen", reopened>>, <<"retitle", retitled>>})
        /\ row' = [row EXCEPT ![r].closed = @ /\ ~reopened[1],
                             ![r].title = IF retitled[1] THEN desired_title(r) ELSE @]
        /\ thread' = IF row[r].closed /\ reopened[2]
                     THEN SetOpen(row[r].thread, TRUE) ELSE thread
  BY DEF Refresh
<1>2. reopened[1] \in BOOLEAN /\ retitled[1] \in BOOLEAN
  <2>1. \A a, b \in BOOLEAN : <<a, b>> \in BOOLEAN \X BOOLEAN
    OBVIOUS
  <2>2. Outcomes \subseteq BOOLEAN \X BOOLEAN
    BY <2>1, Zenon DEF Outcomes, Done
  <2>3. \A o \in BOOLEAN \X BOOLEAN : o[1] \in BOOLEAN
    OBVIOUS
  <2> QED
    BY <2>2, <2>3
<1>3. ThreadTyped' /\ DOMAIN thread' = DOMAIN thread
  <2>1. ThreadTyped
    BY DEF ThreadTyped
  <2> QED
    BY <1>1, <2>1, TopicRewritten DEF ThreadTyped
<1>4. IsFiniteSet({<<"reopen", reopened>>, <<"retitle", retitled>>})
  <2> DEFINE a == <<"reopen", reopened>>
             b == <<"retitle", retitled>>
  <2> SUFFICES IsFiniteSet({a, b})
    OBVIOUS
  <2> HIDE DEF a, b
  <2>1. {a, b} = {a} \cup {b}
    OBVIOUS
  <2>2. IsFiniteSet({a} \cup {b})
    BY FS_Singleton, FS_AddElement
  <2> QED
    BY <2>1, <2>2
<1>5. callFaults' \in Nat /\ callFaults <= callFaults'
  BY <1>1, <1>4, Spent
<1>6. DOMAIN row' = DOMAIN row /\ \A q \in DOMAIN row : row'[q] \in Rows /\ row'[q].thread = row[q].thread
  <2>1. \A q \in DOMAIN row : row[q] \in Rows
    OBVIOUS
  <2>2. DOMAIN row' = DOMAIN row /\ \A q \in DOMAIN row : q # r => row'[q] = row[q]
    BY <1>1
  <2>3. row[r] \in Rows
    BY <2>1
  <2>4. row'[r] = [row[r] EXCEPT !.closed = @ /\ ~reopened[1],
                                 !.title = IF retitled[1] THEN desired_title(r) ELSE @]
    BY <1>1
  <2>5. row'[r] \in Rows /\ row'[r].thread = row[r].thread
    BY <1>2, <2>3, <2>4 DEF Rows, desired_title
  <2> QED
    BY <2>1, <2>2, <2>5
<1>7. row' \in [DOMAIN row -> Rows]
  BY <1>1, <1>6
<1>8. TopicThreads' = TopicThreads
  BY <1>6 DEF TopicThreads
<1> QED
  BY <1>3, <1>5, <1>6, <1>7, <1>8 DEF RowTyped

\* What a write to a room's topic keeps: no row is taken away or moved, and a topic is made
\* with its row, or at the price of a failed call.
LEMMA TopicForKeeps ==
    ASSUME TopicInv, TopicConstants, NEW r \in TopicRooms, topic_for(r),
           topicKills' = topicKills, adoptions' = adoptions
    PROVE  /\ RowTyped' /\ ThreadTyped' /\ DOMAIN row \subseteq DOMAIN row'
           /\ TopicThreads' \subseteq DOMAIN thread'
           /\ callFaults' \in Nat /\ NoOrphans'
<1> USE DEF TopicInv, TopicTypeOK
<1>1. /\ RowTyped /\ ThreadTyped /\ TopicMishaps \in Nat /\ IsFiniteSet(DOMAIN thread)
  <2>1. RowTyped /\ ThreadTyped /\ TopicMishaps \in Nat
    BY DEF RowTyped, ThreadTyped, TopicMishaps
  <2>2. DOMAIN thread = 1..Len(thread) /\ Len(thread) \in Nat
    BY LenProperties
  <2> QED
    BY <2>1, <2>2, UpTo
<1>2. CASE r \in DOMAIN row /\ Refresh(r)
  <2>1. /\ RowTyped' /\ ThreadTyped' /\ DOMAIN row' = DOMAIN row
        /\ TopicThreads' = TopicThreads /\ DOMAIN thread' = DOMAIN thread
        /\ callFaults' \in Nat /\ callFaults <= callFaults'
    BY <1>2, RefreshKeeps
  <2>2. Orphans' \subseteq Orphans /\ TopicMishaps <= TopicMishaps' /\ TopicMishaps' \in Nat
    BY <2>1 DEF Orphans, TopicMishaps
  <2> QED
    BY <1>1, <2>1, <2>2, PaidOrphan
<1>3. CASE r \notin DOMAIN row /\ CreateTopic(r)
  <2>1. Len(thread) < MaxThreads
    BY <1>3 DEF CreateTopic
  <2>2. CASE /\ NewThread(r)
             /\ row' = [q \in DOMAIN row \cup {r} |->
                          IF q = r THEN [thread |-> Len(thread'), closed |-> FALSE,
                                         title |-> desired_title(r)] ELSE row[q]]
             /\ UNCHANGED callFaults
    <3>1. /\ ThreadTyped' /\ DOMAIN thread' = DOMAIN thread \cup {Len(thread')}
          /\ Len(thread') \in 1..MaxThreads /\ Len(thread') \notin DOMAIN thread
      BY <1>1, <2>1, <2>2, TopicMade
    <3>2. [thread |-> Len(thread'), closed |-> FALSE, title |-> desired_title(r)] \in Rows
      BY <3>1 DEF Rows, desired_title
    <3>3. RowTyped' /\ DOMAIN row' = DOMAIN row \cup {r}
      BY <2>2, <3>2, <1>1 DEF RowTyped
    <3>4. /\ \A q \in DOMAIN row : row'[q].thread = row[q].thread
          /\ row'[r].thread = Len(thread')
      BY <1>3, <2>2
    <3>5. TopicThreads' = TopicThreads \cup {Len(thread')}
      BY <1>3, <3>3, <3>4 DEF TopicThreads
    <3>6. TopicThreads' \subseteq DOMAIN thread'
      BY <3>1, <3>5
    <3>7. Orphans' \subseteq Orphans /\ TopicMishaps <= TopicMishaps' /\ TopicMishaps' \in Nat
      <4>1. TopicMishaps' = TopicMishaps
        BY <2>2 DEF TopicMishaps
      <4>2. Orphans' \subseteq Orphans
        BY <3>1, <3>5 DEF Orphans
      <4> QED
        BY <1>1, <4>1, <4>2
    <3> QED
      BY <1>1, <2>2, <3>1, <3>3, <3>6, <3>7, PaidOrphan
  <2>3. CASE /\ Spend({<<"create", <<FALSE, FALSE>>>>}) /\ UNCHANGED row
             /\ UNCHANGED thread \/ NewThread(r)
    <3>1. callFaults' \in Nat /\ callFaults' = callFaults + 1
      <4> DEFINE c == <<"create", <<FALSE, FALSE>>>>
      <4>1. c[2] # Done
        BY DEF Done
      <4>2. IsFiniteSet({c})
        BY FS_Singleton
      <4> HIDE DEF c
      <4> QED
        BY <2>3, <4>1, <4>2, Spent DEF c
    <3>2. TopicThreads' = TopicThreads
      BY <2>3 DEF TopicThreads
    <3>3. ThreadTyped' /\ \E x : DOMAIN thread' \subseteq DOMAIN thread \cup {x}
          /\ DOMAIN thread \subseteq DOMAIN thread'
      <4>1. CASE UNCHANGED thread
        BY <1>1, <4>1 DEF ThreadTyped
      <4>2. CASE NewThread(r)
        BY <1>1, <2>1, <4>2, TopicMade
      <4> QED
        BY <2>3, <4>1, <4>2
    <3>4. (\E x : Orphans' \subseteq Orphans \cup {x}) /\ TopicMishaps + 1 <= TopicMishaps' /\ TopicMishaps' \in Nat
      <4>1. TopicMishaps' = TopicMishaps + 1
        BY <3>1 DEF TopicMishaps
      <4>2. \E x : Orphans' \subseteq Orphans \cup {x}
        BY <3>2, <3>3 DEF Orphans
      <4>3. TopicMishaps + 1 <= TopicMishaps' /\ TopicMishaps' \in Nat
        BY <1>1, <4>1
      <4> QED
        BY <4>2, <4>3
    <3>5. NoOrphans'
      BY <1>1, <3>4, PaidOrphan
    <3>6. RowTyped' /\ TopicThreads' \subseteq DOMAIN thread'
      BY <1>1, <2>3, <3>2, <3>3 DEF RowTyped
    <3> QED
      BY <2>3, <3>1, <3>3, <3>5, <3>6
  <2> QED
    BY <1>3, <2>2, <2>3 DEF CreateTopic
<1> QED
  BY <1>2, <1>3 DEF topic_for

\* Every write, every step of the reconciliation, an adoption and a kill keep it.
LEMMA TopicInvHolds == TopicSpec => []TopicInv
<1>1. TopicInit => TopicInv
  <2> SUFFICES ASSUME TopicInit PROVE TopicInv
    OBVIOUS
  <2>1. DOMAIN row = {} /\ DOMAIN thread = {} /\ row \in [{} -> Rows]
    BY DEF TopicInit
  <2>2. thread \in Seq([room : TopicRooms, open : BOOLEAN]) /\ Len(thread) <= MaxThreads
    BY TopicConstants DEF TopicInit
  <2>3. TopicTypeOK
    BY <2>1, <2>2 DEF TopicInit, TopicTypeOK
  <2>4. NoOrphans
    <3>1. DOMAIN thread \ {row[r].thread : r \in DOMAIN row} = {}
      BY <2>1
    <3> QED
      BY <3>1, FS_EmptySet DEF TopicInit, NoOrphans
  <2> QED
    BY <2>1, <2>3, <2>4 DEF TopicInit, TopicInv, TopicThreads
<1>2. TopicInv /\ [TopicNext]_topicVars => TopicInv'
  <2> SUFFICES ASSUME TopicInv, [TopicNext]_topicVars PROVE TopicInv'
    OBVIOUS
  <2> USE TopicConstants DEF rooms_
  <2>0. /\ RowTyped /\ ThreadTyped /\ TopicMishaps \in Nat /\ IsFiniteSet(DOMAIN thread)
        /\ \A q \in DOMAIN row : row[q] \in Rows
        /\ {read, shut, named} \subseteq SUBSET TopicRooms
        /\ sweep \in [stage : {"rest", "give", "close"}, todo : SUBSET TopicRooms]
        /\ callFaults \in Nat /\ topicKills \in Nat /\ adoptions \in Nat
        /\ TopicThreads \subseteq DOMAIN thread
        /\ sweep.stage = "close" => sweep.todo \subseteq DOMAIN row
        /\ NoOrphans
    <3>1. RowTyped /\ ThreadTyped /\ TopicMishaps \in Nat
      BY DEF TopicInv, TopicTypeOK, RowTyped, ThreadTyped, TopicMishaps
    <3>2. DOMAIN thread = 1..Len(thread) /\ Len(thread) \in Nat
      BY <3>1, LenProperties DEF ThreadTyped
    <3> QED
      BY <3>1, <3>2, UpTo DEF TopicInv, TopicTypeOK
  \* A step that leaves rows, topics and counts alone.
  <2>1. ASSUME UNCHANGED <<row, thread, callFaults, topicKills, adoptions>>,
               {read', shut', named'} \subseteq SUBSET TopicRooms,
               sweep' \in [stage : {"rest", "give", "close"}, todo : SUBSET TopicRooms],
               sweep'.stage = "close" => sweep'.todo \subseteq DOMAIN row
        PROVE  TopicInv'
    BY <2>0, <2>1 DEF TopicInv, TopicTypeOK, NoOrphans, TopicThreads, RowTyped, ThreadTyped
  <2>2. ASSUME NEW r \in TopicRooms, RoomChange(r) PROVE TopicInv'
    BY <2>0, <2>1, <2>2 DEF RoomChange
  \* A step that writes to a topic.
  <2>3. ASSUME NEW r \in TopicRooms, topic_for(r), UNCHANGED <<rooms_, topicKills, adoptions>>,
               sweep' \in [stage : {"rest", "give", "close"}, todo : SUBSET TopicRooms],
               sweep'.stage # "close"
        PROVE  TopicInv'
    <3>1. /\ RowTyped' /\ ThreadTyped' /\ DOMAIN row \subseteq DOMAIN row'
          /\ TopicThreads' \subseteq DOMAIN thread'
          /\ callFaults' \in Nat /\ NoOrphans'
      BY <2>3, TopicForKeeps
    <3>2. TopicTypeOK'
      BY <2>0, <2>3, <3>1 DEF TopicTypeOK, RowTyped, ThreadTyped
    <3> QED
      BY <2>0, <2>3, <3>1, <3>2 DEF TopicInv
  <2>4. ASSUME NEW r \in TopicRooms, WriteTo(r) PROVE TopicInv'
    BY <2>0, <2>3, <2>4 DEF WriteTo
  <2>5. ASSUME NEW r \in TopicRooms, Give(r) PROVE TopicInv'
    <3>1. sweep' \in [stage : {"rest", "give", "close"}, todo : SUBSET TopicRooms]
      BY <2>0, <2>5 DEF Give
    <3>2. sweep'.stage = "give"
      BY <2>0, <2>5 DEF Give
    <3> QED
      BY <2>3, <2>5, <3>1, <3>2 DEF Give
  <2>6. CASE Reconcile
    BY <2>0, <2>1, <2>6 DEF Reconcile, rooms_needing_topics
  <2>7. CASE ListStale
    BY <2>0, <2>1, <2>7 DEF ListStale, stale_topics, RowTyped
  <2>8. CASE EndSweep
    BY <2>0, <2>1, <2>8 DEF EndSweep
  <2>9. ASSUME NEW r \in TopicRooms, Close(r) PROVE TopicInv'
    <3>1. r \in DOMAIN row /\ row[r] \in Rows
      BY <2>0, <2>9 DEF Close
    <3>2. PICK o \in Outcomes :
            /\ Spend({<<"close", o>>})
            /\ thread' = IF o[2] THEN SetOpen(row[r].thread, FALSE) ELSE thread
            /\ row' = IF o[1] THEN [row EXCEPT ![r].closed = TRUE] ELSE row
      BY <2>9 DEF Close
    <3>3. callFaults' \in Nat /\ callFaults <= callFaults'
      <4>1. IsFiniteSet({<<"close", o>>})
        BY FS_Singleton
      <4> QED
        BY <2>0, <3>2, <4>1, Spent
    <3>4. ThreadTyped' /\ DOMAIN thread' = DOMAIN thread
      BY <2>0, <3>2, TopicRewritten DEF ThreadTyped
    <3>5. /\ DOMAIN row' = DOMAIN row
          /\ \A q \in DOMAIN row : row'[q] \in Rows /\ row'[q].thread = row[q].thread
      <4>1. [row[r] EXCEPT !.closed = TRUE] \in Rows
            /\ [row[r] EXCEPT !.closed = TRUE].thread = row[r].thread
        BY <3>1 DEF Rows
      <4> QED
        BY <2>0, <3>2, <4>1
    <3>6. RowTyped'
      BY <2>0, <3>2, <3>5 DEF RowTyped
    <3>7. TopicThreads' = TopicThreads
      BY <3>5 DEF TopicThreads
    <3>8. UNCHANGED <<read, shut, named, topicKills, adoptions>>
          /\ sweep' = [sweep EXCEPT !.todo = @ \ {r}]
      BY <2>9 DEF Close
    <3>9. Orphans' \subseteq Orphans /\ TopicMishaps <= TopicMishaps' /\ TopicMishaps' \in Nat
      BY <2>0, <3>3, <3>4, <3>7, <3>8 DEF Orphans, TopicMishaps
    <3>10. NoOrphans'
      BY <2>0, <3>9, PaidOrphan
    <3>11. sweep' \in [stage : {"rest", "give", "close"}, todo : SUBSET TopicRooms]
           /\ sweep'.todo \subseteq sweep.todo /\ sweep'.stage = sweep.stage
      BY <2>0, <3>8
    <3> QED
      BY <2>0, <3>3, <3>4, <3>5, <3>6, <3>7, <3>8, <3>10, <3>11
      DEF TopicInv, TopicTypeOK, RowTyped, ThreadTyped
  <2>10. ASSUME NEW r \in TopicRooms, NEW t \in 1..MaxThreads, adopt(r, t) PROVE TopicInv'
    <3>1. /\ t \in DOMAIN thread
          /\ row' = [q \in DOMAIN row \cup {r} |->
                      IF q = r THEN [thread |-> t, closed |-> FALSE, title |-> "adopted"] ELSE row[q]]
          /\ adoptions' = adoptions + 1
          /\ UNCHANGED <<read, shut, named, thread, sweep, callFaults, topicKills>>
      BY <2>10 DEF adopt
    <3>2. [thread |-> t, closed |-> FALSE, title |-> "adopted"] \in Rows
      BY DEF Rows
    <3>3. RowTyped' /\ DOMAIN row' = DOMAIN row \cup {r}
      BY <2>0, <3>1, <3>2 DEF RowTyped
    <3>4. /\ \A q \in DOMAIN row : q # r => row'[q].thread = row[q].thread
          /\ row'[r].thread = t
      BY <3>1
    <3>5. TopicThreads' \subseteq TopicThreads \cup {t}
      BY <3>3, <3>4 DEF TopicThreads
    <3>6. TopicThreads \subseteq TopicThreads' \cup {row[r].thread}
      BY <3>3, <3>4 DEF TopicThreads
    <3>7. (\E x : Orphans' \subseteq Orphans \cup {x}) /\ TopicMishaps + 1 <= TopicMishaps' /\ TopicMishaps' \in Nat
      <4>1. Orphans' \subseteq Orphans \cup {row[r].thread}
        BY <3>1, <3>6 DEF Orphans
      <4> QED
        BY <2>0, <3>1, <4>1 DEF TopicMishaps
    <3>8. NoOrphans'
      BY <2>0, <3>7, PaidOrphan
    <3> QED
      <4>1. TopicTypeOK'
        BY <2>0, <3>1, <3>3 DEF TopicTypeOK, RowTyped, ThreadTyped
      <4>2. TopicThreads' \subseteq DOMAIN thread' /\ DOMAIN row \subseteq DOMAIN row'
        BY <2>0, <3>1, <3>3, <3>5
      <4> QED
        BY <2>0, <3>1, <3>8, <4>1, <4>2 DEF TopicInv
  <2>11. CASE TopicKill
    <3>1. /\ topicKills' = topicKills + 1 /\ sweep' = [stage |-> "rest", todo |-> {}]
          /\ UNCHANGED <<read, shut, named, row, callFaults, adoptions>>
      BY <2>11 DEF TopicKill
    <3>2. /\ ThreadTyped' /\ DOMAIN thread \subseteq DOMAIN thread'
          /\ \E x : DOMAIN thread' \subseteq DOMAIN thread \cup {x}
      <4>1. CASE UNCHANGED thread
        BY <2>0, <4>1 DEF ThreadTyped
      <4>2. ASSUME Len(thread) < MaxThreads, NEW r \in TopicRooms, NewThread(r)
            PROVE  /\ ThreadTyped' /\ DOMAIN thread \subseteq DOMAIN thread'
                   /\ \E x : DOMAIN thread' \subseteq DOMAIN thread \cup {x}
        BY <2>0, <4>2, TopicMade
      <4> QED
        BY <2>11, <4>1, <4>2 DEF TopicKill
    <3>3. TopicThreads' = TopicThreads
      BY <3>1 DEF TopicThreads
    <3>4. (\E x : Orphans' \subseteq Orphans \cup {x}) /\ TopicMishaps + 1 <= TopicMishaps' /\ TopicMishaps' \in Nat
      BY <2>0, <3>1, <3>2, <3>3 DEF Orphans, TopicMishaps
    <3>5. NoOrphans'
      BY <2>0, <3>4, PaidOrphan
    <3> QED
      BY <2>0, <3>1, <3>2, <3>3, <3>5 DEF TopicInv, TopicTypeOK, RowTyped, ThreadTyped
  <2>12. CASE UNCHANGED topicVars
    BY <2>0, <2>1, <2>12 DEF topicVars
  <2> QED
    BY <2>2, <2>4, <2>5, <2>6, <2>7, <2>8, <2>9, <2>10, <2>11, <2>12 DEF TopicNext, Reconciliation
<1> QED
  BY <1>1, <1>2, PTL DEF TopicSpec

\* A topic without a row is owed to a call that failed, a kill or an adoption, however many
\* rooms come and go (bridge.rs: topic_for reopens the topic a row has, closed or not).
THEOREM TopicsAreKept == TopicSpec => []TopicSafety
<1>1. TopicInv => TopicSafety
  BY DEF TopicInv, TopicSafety
<1> QED
  BY <1>1, TopicInvHolds, PTL
=============================================================================
