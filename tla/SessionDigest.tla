---------------------------- MODULE SessionDigest ----------------------------
(***************************************************************************)
(* What a session is told from memory when it starts: three recalls over   *)
(* the same scopes, each with a deadline, whose facts are put under three  *)
(* headers and then evicted one by one until the digest fits its cap.      *)
(***************************************************************************)
EXTENDS Naturals, Sequences, SequencesExt, FiniteSets, FiniteSetsExt

CONSTANTS
    Known,          \* texts stored in the scopes of the session
    Sizes,          \* what a fact may take
    TopK, LessonTopK, Cap

ASSUME DigestConstants ==
    /\ IsFiniteSet(Known) /\ Sizes \subseteq Nat \ {0}
    /\ {TopK, LessonTopK} \subseteq Nat \ {0} /\ Cap \in Nat \ {0}

\* The sections, in the order of the digest.
Prefs   == 1
Lessons == 2
Project == 3
Tiers == Prefs..Project
Depth(q) == IF q = Lessons THEN LessonTopK ELSE TopK
Asking == <<Prefs, Project, Lessons>>

VARIABLES
    sizeOf,       \* of each fact
    ranking,    \* each query's order of the facts, best first
    alike,      \* facts that every query gives the score it prints
    asked,      \* recalls made
    given,      \* what each recall printed
    digest,      \* the digest, and
    phase       \* whether it is being put together, cut down or printed

digestVars == <<sizeOf, ranking, alike, asked, given, digest, phase>>

\* A fact as `recall` prints it, date and score in front.
RecallLine == [fact : Known, score : Tiers \cup {0}]
Title == [tier |-> 0, bullet |-> FALSE]
Header(t) == [tier |-> t, bullet |-> FALSE]
Bullet(t, s) == [tier |-> t, bullet |-> TRUE, shown |-> s]

DigestTypeOK ==
    /\ sizeOf \in [Known -> Sizes] /\ alike \subseteq Known
    /\ \A t \in Tiers : given[t] \in Seq(RecallLine)
    /\ asked \in 0..3 /\ phase \in {"recall", "build", "cut", "printed"}
    /\ \A i \in DOMAIN digest : digest[i].bullet => digest[i].shown \in RecallLine

DigestInit ==
    /\ sizeOf \in [Known -> Sizes] /\ alike \in SUBSET Known
    /\ ranking \in [Tiers -> SetToSeqs(Known)]
    /\ asked = 0 /\ given = [t \in Tiers |-> <<>>] /\ digest = <<>> /\ phase = "recall"

-----------------------------------------------------------------------------
(* The recalls. *)

\* The best of those in scope, as many as were asked for.
recall(q) ==
    LET k == IF Depth(q) < Cardinality(Known) THEN Depth(q) ELSE Cardinality(Known) IN
    [i \in 1..k |-> [fact |-> ranking[q][i],
                     score |-> IF ranking[q][i] \in alike THEN 0 ELSE q]]

Recalled ==
    /\ phase = "recall" /\ asked' = asked + 1
    /\ given' = [given EXCEPT ![Asking[asked']] = recall(Asking[asked'])]
    /\ phase' = IF asked' = 3 THEN "build" ELSE "recall"
    /\ UNCHANGED <<sizeOf, ranking, alike, digest>>

\* The daemon is away, or slower than the deadline, or the directory has no project name:
\* after the first recall nothing more is asked and there is no digest.
RecallFails ==
    /\ phase = "recall" /\ asked' = asked + 1
    /\ phase' = IF asked = 0 THEN "printed" ELSE IF asked' = 3 THEN "build" ELSE "recall"
    /\ UNCHANGED <<sizeOf, ranking, alike, given, digest>>

-----------------------------------------------------------------------------
(* build_digest. *)

\* The lines of ls at the places ps, in their order.
Kept(ls, ps) ==
    [i \in 1..Cardinality(ps) |-> ls[CHOOSE p \in ps : Cardinality({j \in ps : j <= p}) = i]]

\* What no earlier section shows, date and score included.
fresh(t) ==
    LET before == UNION {ToSet(given[u]) : u \in 1..(t - 1)}
    IN  Kept(given[t], {i \in DOMAIN given[t] : given[t][i] \notin before})

Section(t) ==
    IF fresh(t) = <<>> THEN <<>>
    ELSE <<Header(t)>> \o [i \in DOMAIN fresh(t) |-> Bullet(t, fresh(t)[i])]

Build ==
    /\ phase = "build" /\ phase' = "cut"
    /\ digest' = IF \A t \in Tiers : fresh(t) = <<>> THEN <<>>
                ELSE <<Title>> \o Section(Prefs) \o Section(Lessons) \o Section(Project)
    /\ UNCHANGED <<sizeOf, ranking, alike, asked, given>>

LineSize(l, sizes) == IF l.bullet THEN sizes[l.shown.fact] ELSE 1
AllLines(ls, sizes) == FoldSeq(LAMBDA l, n : n + LineSize(l, sizes), 0, ls)
TotalSize == AllLines(digest, sizeOf)

BulletsOf(t) == {i \in DOMAIN digest : digest[i].bullet /\ digest[i].tier = t}
Count(t) == Cardinality(BulletsOf(t))

\* Mutant: the tail is popped.
LastLine == Len(digest)

\* The lowest-ranked fact of the fullest section, the last of several; once every section
\* is down to one, of the last section there is.
Victim ==
    LET left    == {t \in Tiers : Count(t) > 0}
        fullest == {t \in left : \A u \in left : Count(u) <= Count(t)}
    IN  IF left = {} THEN Len(digest)
        ELSE IF \E t \in left : Count(t) > 1 THEN Max(BulletsOf(Max(fullest)))
        ELSE Max(BulletsOf(Max(left)))

\* Headers with no bullet under them go too.
DropBareHeaders(ls) ==
    Kept(ls, {i \in DOMAIN ls :
                ls[i].bullet \/ ls[i].tier = 0 \/ (i < Len(ls) /\ ls[i + 1].bullet)})

Evict ==
    /\ phase = "cut" /\ Len(digest) > 1 /\ TotalSize > Cap
    /\ digest' = DropBareHeaders(RemoveAt(digest, Victim))
    /\ UNCHANGED <<sizeOf, ranking, alike, asked, given, phase>>

PrintDigest ==
    /\ phase = "cut" /\ (Len(digest) <= 1 \/ TotalSize <= Cap)
    /\ phase' = "printed"
    /\ UNCHANGED <<sizeOf, ranking, alike, asked, given, digest>>

DigestNext == Recalled \/ RecallFails \/ Build \/ Evict \/ PrintDigest
DigestSpec == DigestInit /\ [][DigestNext]_digestVars

-----------------------------------------------------------------------------
(* Properties. *)

ShownOf(t) == {digest[i].shown : i \in BulletsOf(t)}
Cutting == phase \in {"cut", "printed"}

\* hook.rs: the lowest-ranked fact goes first, so what a section shows is always the
\* best of what it was given.
BestStay ==
    Cutting => \A t \in Tiers : \A i, j \in DOMAIN fresh(t) :
                   i < j /\ fresh(t)[j] \in ShownOf(t) => fresh(t)[i] \in ShownOf(t)

\* hook.rs: no section "reached nobody" while another is spared: one that had facts and
\* shows none leaves no other with two, and none with a smaller claim before it.
TiersShare ==
    Cutting /\ digest # <<>> =>
        \A t, u \in Tiers :
            fresh(t) # <<>> /\ ShownOf(t) = {} => Count(u) <= 1 /\ (u > t => Count(u) = 0)

\* A header is followed by a fact, and nothing over the cap is printed.
NoEmptyHeader ==
    \A i \in DOMAIN digest : digest[i].tier # 0 /\ ~digest[i].bullet => i < Len(digest) /\ digest[i + 1].bullet
FitsCap == phase = "printed" /\ Len(digest) > 1 => TotalSize <= Cap

\* The state is well formed; the digest fits, shows the best of every tier, starves none
\* for another, and never a header alone.
DigestSafety == DigestTypeOK /\ BestStay /\ TiersShare /\ NoEmptyHeader /\ FitsCap

\* The test of build_digest: "a fact is not repeated across two sections".  (Not so for
\* what recall prints: the score in front differs from query to query.)
ShownOnce ==
    \A i, j \in DOMAIN digest : digest[i].bullet /\ digest[j].bullet /\ i # j =>
        digest[i].shown.fact # digest[j].shown.fact

\* A fact that fits is shown.  (Not so beside one that does not fit: everything is evicted
\* before it, and the title is printed alone.)
SomethingShown ==
    phase = "printed" /\ digest # <<>> => \E t \in Tiers : Count(t) > 0
=============================================================================
