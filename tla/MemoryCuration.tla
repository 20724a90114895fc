--------------------------- MODULE MemoryCuration ---------------------------
(***************************************************************************)
(* The memory store and the queue of proposals a person decides on: facts  *)
(* named by their normalised text (paos-memory: stable_id), the proposals  *)
(* the librarian's passes queue, the terminal that plans an approval from  *)
(* a read of the database and then sends its steps one by one, the phone   *)
(* whose tap does the same in one hold of the daemon's lock, and the spool *)
(* both kinds of write wait in when the socket cannot be reached, drained  *)
(* in the order read_dir happens to return.                                *)
(***************************************************************************)
EXTENDS Integers, Sequences, SequencesExt, FiniteSets

CONSTANTS Facts,         \* the texts that can be remembered, of one dataset
          Deciders,      \* terminals running `paos memory`
          Sandboxed,     \* those that cannot open the daemon's socket
          ProposalKinds,         \* the kinds of proposal the passes queue
          MaxProposals,  \* proposals ever queued
          MaxWrites,     \* facts remembered or forgotten by hand
          MaxQueued,     \* files ever spooled
          MaxSetbacks     \* database errors, killed terminals and daemon restarts

ASSUME CurationAssumption ==
  /\ Sandboxed \subseteq Deciders
  /\ Facts \cap {"absent", "live", "retired"} = {}   \* an id is none of the marks
  /\ ProposalKinds \subseteq {"capture", "split", "tidy", "retire"}
  /\ {MaxProposals, MaxWrites, MaxQueued, MaxSetbacks} \subseteq Nat

VARIABLES memories,      \* fact -> "absent", "live", "retired" or the fact that superseded it
          proposals,     \* memory_proposals, in the order of their ids
          memoryFiles,         \* spool/*.json: <<number, operation>>
          drained,       \* the file drain_spool_at has applied and not yet removed
          deciding,      \* decider -> the proposal and the operations it still sends
          queued, writes, setbacks,
          written, forgotten,  \* history: facts ever stored, facts ever deleted
          quarantined          \* history: texts of the files the drain set aside

curationVars ==
  <<memories, proposals, memoryFiles, drained, deciding, queued, writes, setbacks, written, forgotten, quarantined>>
NoMemoryFile == <<0, [op |-> "none"]>>
AtRest == [id |-> 0, ops |-> <<>>]

RememberOp(f) == [op |-> "remember", text |-> f]
SupersedeOp(f, olds) == [op |-> "supersede", text |-> f, old_ids |-> olds]
RetireOp(olds) == [op |-> "retire", old_ids |-> olds]
ForgetOp(f) == [op |-> "forget", id |-> f]
SetStatusOp(id, status) == [op |-> "proposal_set_status", id |-> id, status |-> status]

Proposal == [kind: ProposalKinds, targets: SUBSET Facts, texts: Seq(Facts), status: {"pending", "approved", "rejected"}]

CurationTypeOK ==
  /\ memories \in [Facts -> Facts \union {"absent", "live", "retired"}]
  /\ proposals \in Seq(Proposal) /\ Len(proposals) <= MaxProposals
  /\ \A f \in memoryFiles \union {drained}: f[1] \in 0..MaxQueued
  /\ drained = NoMemoryFile \/ drained \in memoryFiles
  /\ \A d \in Deciders: deciding[d].id \in 0..Len(proposals)
  /\ queued \in 0..MaxQueued /\ writes \in 0..MaxWrites /\ setbacks \in 0..MaxSetbacks
  /\ written \subseteq Facts /\ forgotten \subseteq written /\ quarantined \subseteq Facts

-----------------------------------------------------------------------------
(* What one operation does to the store, whichever way it arrived.          *)

\* remember: the row is created live; one that exists keeps its `superseded`
remember(m, f) == IF m[f] = "absent" THEN [m EXCEPT ![f] = "live"] ELSE m

\* supersede, for every id of the list: only a live row is retired
supersede(m, olds, by) == [f \in Facts |-> IF f \in olds /\ m[f] = "live" THEN by ELSE m[f]]

StoreThenRetire(m, f, olds) == supersede(remember(m, f), olds, f)

ApplyMemory(o) ==
  CASE o.op = "remember" -> remember(memories, o.text)
    [] o.op = "supersede" -> StoreThenRetire(memories, o.text, o.old_ids)
    [] o.op = "retire" -> supersede(memories, o.old_ids, "retired")
    [] o.op = "forget" -> [memories EXCEPT ![o.id] = "absent"]
    [] OTHER -> memories

\* mutant: the second decision overwrites the first
set_status_anyway(ps, id, status) == [ps EXCEPT ![id].status = status]

\* set_status: guarded on 'pending', so a second resolution is a no-op
set_status(ps, id, status) ==
  IF ps[id].status = "pending" THEN [ps EXCEPT ![id].status = status] ELSE ps

ApplyMemoryOp(o) ==
  /\ memories' = ApplyMemory(o)
  /\ proposals' = IF o.op = "proposal_set_status" THEN set_status(proposals, o.id, o.status) ELSE proposals
  /\ written' = IF o.op \in {"remember", "supersede"} THEN written \union {o.text} ELSE written
  /\ forgotten' = IF o.op = "forget" /\ memories[o.id] # "absent" THEN forgotten \union {o.id} ELSE forgotten
  /\ UNCHANGED quarantined

\* The CLI's send: the socket, or the spool when it cannot be reached.
\* degraded() has no spooled form of a retirement.
Send(d, o) ==
  \/ d \notin Sandboxed /\ ApplyMemoryOp(o) /\ UNCHANGED <<memoryFiles, queued>>
  \/ /\ o.op # "retire" /\ queued < MaxQueued
     /\ queued' = queued + 1
     /\ memoryFiles' = memoryFiles \union {<<queued + 1, o>>}
     /\ UNCHANGED <<memories, proposals, written, forgotten, quarantined>>

-----------------------------------------------------------------------------
(* A person at a terminal.                                                  *)

Remember(d, f) ==
  /\ deciding[d] = AtRest /\ writes < MaxWrites
  /\ writes' = writes + 1
  /\ Send(d, RememberOp(f))
  /\ UNCHANGED <<drained, deciding, setbacks>>

\* cmd_forget refuses an id it does not find
ForgetFact(d, f) ==
  /\ deciding[d] = AtRest /\ writes < MaxWrites
  /\ memories[f] # "absent"
  /\ writes' = writes + 1
  /\ Send(d, ForgetOp(f))
  /\ UNCHANGED <<drained, deciding, setbacks>>

\* queue::add: a pending proposal of the same kind and target is not queued twice
queue_add(p) ==
  /\ Len(proposals) < MaxProposals
  /\ p.targets = {} \/ \A i \in 1..Len(proposals):
       ~(proposals[i].status = "pending" /\ proposals[i].kind = p.kind /\ proposals[i].targets = p.targets)
  /\ proposals' = Append(proposals, p)

\* What the passes propose about the facts they have read
Drafts ==
  LET known == {f \in Facts: memories[f] # "absent"}
      draft(k, ts, xs) == [kind |-> k, targets |-> ts, texts |-> xs, status |-> "pending"]
  IN  {draft("capture", {}, <<f>>): f \in Facts}
      \union {draft("split", {o}, <<f, g>>): o \in known, f \in Facts, g \in Facts}
      \union {draft("tidy", ts, <<f>>): ts \in SUBSET known, f \in Facts}
      \union {draft("retire", {o}, <<>>): o \in known}

Propose ==
  /\ \E p \in Drafts:
       /\ p.kind \in ProposalKinds
       /\ p.kind = "split" => p.texts[1] # p.texts[2]
       /\ queue_add(p)
  /\ UNCHANGED <<memories, memoryFiles, drained, deciding, queued, writes, setbacks, written, forgotten, quarantined>>

\* plan_apply: the sources that are gone are left out; every part of a split
\* but the last is stored plainly and the last carries the retirement
PlanSteps(p) ==
  LET alive == {f \in p.targets: memories[f] # "absent"}
  IN  CASE p.kind = "capture" -> <<RememberOp(p.texts[1])>>
        [] p.kind = "split" -> <<RememberOp(p.texts[1]), SupersedeOp(p.texts[2], alive)>>
        [] p.kind = "tidy" -> <<SupersedeOp(p.texts[1], alive)>>
        [] p.kind = "retire" -> <<RetireOp(alive)>>

AllSourcesGone(p) == p.targets # {} /\ \A f \in p.targets: memories[f] = "absent"

\* mutant: marked approved before the steps are sent
ApprovedFirst(id) ==
  LET p == proposals[id]
  IN  IF AllSourcesGone(p) THEN <<SetStatusOp(id, "rejected")>>
      ELSE <<SetStatusOp(id, "approved")>> \o PlanSteps(p)

Decision(id) ==
  LET p == proposals[id]
  IN  IF AllSourcesGone(p) THEN <<SetStatusOp(id, "rejected")>>
      ELSE Append(PlanSteps(p), SetStatusOp(id, "approved"))

\* cmd_decide: the plan is made from one read ...
Approve(d, id) ==
  /\ deciding[d] = AtRest /\ proposals[id].status = "pending"
  /\ deciding' = [deciding EXCEPT ![d] = [id |-> id, ops |-> Decision(id)]]
  /\ UNCHANGED <<memories, proposals, memoryFiles, drained, queued, writes, setbacks, written, forgotten, quarantined>>

Reject(d, id) ==
  /\ deciding[d] = AtRest
  /\ deciding' = [deciding EXCEPT ![d] = [id |-> id, ops |-> <<SetStatusOp(id, "rejected")>>]]
  /\ UNCHANGED <<memories, proposals, memoryFiles, drained, queued, writes, setbacks, written, forgotten, quarantined>>

\* ... and its steps are sent one at a time
SendStep(d) ==
  LET rest == Tail(deciding[d].ops)
  IN  /\ deciding[d].ops # <<>>
      /\ Send(d, Head(deciding[d].ops))
      /\ deciding' = [deciding EXCEPT ![d] = IF rest = <<>> THEN AtRest ELSE [@ EXCEPT !.ops = rest]]
      /\ UNCHANGED <<drained, writes, setbacks>>

\* a step that is refused, or a retirement that cannot be spooled, or a terminal
\* that is closed: the proposal stays pending
StopDeciding(d) ==
  /\ deciding[d].ops # <<>>
  /\ \/ Head(deciding[d].ops).op = "retire" /\ d \in Sandboxed /\ UNCHANGED setbacks
     \/ setbacks < MaxSetbacks /\ setbacks' = setbacks + 1
  /\ deciding' = [deciding EXCEPT ![d] = AtRest]
  /\ UNCHANGED <<memories, proposals, memoryFiles, drained, queued, writes, written, forgotten, quarantined>>

-----------------------------------------------------------------------------
(* The phone: tg_digest::approve and reject, under the daemon's lock.       *)

\* the store after one step of a plan, and after the first n: a plan has two at most
AfterStep(m, o) ==
  CASE o.op = "remember" -> remember(m, o.text)
    [] o.op = "supersede" -> StoreThenRetire(m, o.text, o.old_ids)
    [] OTHER -> supersede(m, o.old_ids, "retired")
AfterSteps(steps, n) ==
  CASE n = 0 -> memories
    [] n = 1 -> AfterStep(memories, steps[1])
    [] OTHER -> AfterStep(AfterStep(memories, steps[1]), steps[2])

StoredBy(steps, n) == {steps[i].text: i \in {j \in 1..n: steps[j].op # "retire"}}

\* a database error after n steps leaves the proposal pending
PhoneApprove(id) ==
  LET p == proposals[id]
      steps == IF AllSourcesGone(p) THEN <<>> ELSE PlanSteps(p)
  IN  /\ p.status = "pending"
      /\ \E n \in 0..Len(steps):
           /\ n < Len(steps) => setbacks < MaxSetbacks
           /\ setbacks' = IF n < Len(steps) THEN setbacks + 1 ELSE setbacks
           /\ memories' = AfterSteps(steps, n)
           /\ written' = written \union StoredBy(steps, n)
           /\ proposals' = IF n < Len(steps) THEN proposals
                           ELSE set_status(proposals, id, IF AllSourcesGone(p) THEN "rejected" ELSE "approved")
      /\ UNCHANGED <<memoryFiles, drained, deciding, queued, writes, forgotten, quarantined>>

PhoneReject(id) ==
  /\ proposals' = set_status(proposals, id, "rejected")
  /\ UNCHANGED <<memories, memoryFiles, drained, deciding, queued, writes, setbacks, written, forgotten, quarantined>>

-----------------------------------------------------------------------------
(* drain_spool_at, the memory and proposal operations.                      *)

\* A supersede that names nothing to retire is quarantined, never stored.
Quarantined(o) == o.op = "supersede" /\ o.old_ids = {}

\* Whichever file read_dir returns next is applied, then removed
DrainMemory ==
  /\ drained = NoMemoryFile
  /\ \E f \in memoryFiles:
       IF Quarantined(f[2])
       THEN /\ memoryFiles' = memoryFiles \ {f}
            /\ quarantined' = quarantined \union {f[2].text}
            /\ UNCHANGED <<memories, proposals, drained, written, forgotten>>
       ELSE /\ ApplyMemoryOp(f[2])
            /\ drained' = f
            /\ UNCHANGED memoryFiles
  /\ UNCHANGED <<deciding, queued, writes, setbacks>>

DrainRemoved ==
  /\ drained # NoMemoryFile
  /\ memoryFiles' = memoryFiles \ {drained}
  /\ drained' = NoMemoryFile
  /\ UNCHANGED <<memories, proposals, deciding, queued, writes, setbacks, written, forgotten, quarantined>>

\* the daemon restarts before it removed what it had applied
DrainRestarts ==
  /\ drained # NoMemoryFile /\ setbacks < MaxSetbacks
  /\ drained' = NoMemoryFile
  /\ setbacks' = setbacks + 1
  /\ UNCHANGED <<memories, proposals, memoryFiles, deciding, queued, writes, written, forgotten, quarantined>>

CurationInit ==
  /\ memories = [f \in Facts |-> "absent"]
  /\ proposals = <<>>
  /\ memoryFiles = {} /\ drained = NoMemoryFile
  /\ deciding = [d \in Deciders |-> AtRest]
  /\ queued = 0 /\ writes = 0 /\ setbacks = 0
  /\ written = {} /\ forgotten = {} /\ quarantined = {}

CurationNext ==
  \/ \E d \in Deciders, f \in Facts: Remember(d, f) \/ ForgetFact(d, f)
  \/ Propose
  \/ \E d \in Deciders: SendStep(d) \/ StopDeciding(d)
  \/ \E id \in 1..Len(proposals):
       \/ PhoneApprove(id) \/ PhoneReject(id)
       \/ \E d \in Deciders: Approve(d, id) \/ Reject(d, id)
  \/ DrainMemory \/ DrainRemoved \/ DrainRestarts

CurationSpec == CurationInit /\ [][CurationNext]_curationVars

-----------------------------------------------------------------------------
\* One decision per proposal: a resolved proposal never changes again, though a
\* terminal, the phone and files queued an hour ago may all still decide it.
DecidedOnce ==
  [][\A id \in 1..Len(proposals):
       proposals[id].status # "pending" => proposals'[id].status = proposals[id].status]_curationVars

\* An approved proposal reached the store: once no file of it waits and no
\* terminal is still sending, every text it carries has been stored.  The one exception
\* is a merge queued without sources and approved where only the spool is in reach: its
\* file is set aside, and the proposal is approved all the same.
InFlight(f) ==
  \/ \E g \in memoryFiles: g[2].op \in {"remember", "supersede"} /\ g[2].text = f
  \/ \E d \in Deciders, i \in 1..2: i <= Len(deciding[d].ops)
       /\ deciding[d].ops[i].op \in {"remember", "supersede"} /\ deciding[d].ops[i].text = f
SetAside(p, f) == p.kind = "tidy" /\ p.targets = {} /\ f \in quarantined
ApprovedReaches ==
  \A id \in 1..Len(proposals): LET p == proposals[id] IN
    p.status = "approved" => \A f \in ToSet(p.texts): f \in written \/ InFlight(f) \/ SetAside(p, f)

\* A split never costs its original: once the original is retired in favour of
\* the last part, the other part is stored too or still on its way, whoever
\* stopped half-way through the steps.
SplitKeepsAll ==
  \A i \in 1..Len(proposals): LET p == proposals[i] IN
    p.kind = "split" /\ (\A j \in 1..Len(proposals): j # i => p.targets \intersect proposals[j].targets = {})
      => \A o \in p.targets: memories[o] = p.texts[2] => p.texts[1] \in written \/ InFlight(p.texts[1])

\* No reader sees neither: a fact is retired in favour of another only when
\* somebody following the replacements ends at a fact that recall returns, or
\* at one that was deliberately retired or deleted.
NeverNeither ==
  \A f \in Facts: memories[f] \in Facts =>
    \E g \in Facts: /\ memories[g] \notin Facts
                    /\ \E n \in 1..Cardinality(Facts):
                         LET at[i \in 0..n] == IF i = 0 THEN f
                                               ELSE IF memories[at[i - 1]] \in Facts THEN memories[at[i - 1]] ELSE at[i - 1]
                         IN at[n] = g

\* The state is well formed, and what was approved is stored and nothing else lost.
CurationSafety == CurationTypeOK /\ SplitKeepsAll /\ ApprovedReaches
=============================================================================
