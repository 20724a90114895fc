---------------------------- MODULE PresenceProofs ----------------------------
(***************************************************************************)
(* That a running session is never archived under its feet, and that an    *)
(* archived one holds nothing, for any sessions, handles and bounds; and   *)
(* that what a session is told at its start is laid out fairly.            *)
(***************************************************************************)
EXTENDS Presence, SessionDigest, FiniteSetTheorems, SequenceTheorems, TLAPS

\* A session id is bound to at most one handle.
OneHandle ==
    \A g, h \in Handles : sidOf[g] = sidOf[h] /\ sidOf[h] # None => g = h

\* The part of the type invariant the store's operations touch.
RowsOK ==
    /\ sidOf \in [Handles -> Sids \cup {None}]
    /\ pidOf \in [Handles -> Nat]
    /\ ended \subseteq {h \in Handles : sidOf[h] # None}
    /\ silent \subseteq Handles /\ members \subseteq Handles /\ held \subseteq Handles
    /\ restless \subseteq ended /\ halfReaped \subseteq ended
    /\ OneHandle

ProcsOK ==
    /\ running \in [Sids -> 0..npids] /\ npids \in Nat
    /\ bound \subseteq Sids

FilesOK ==
    /\ spool \subseteq LifeCall \cup NameCall
    /\ nfiles \in Nat /\ crashes \in Nat

\* A file's pid is that of the life it comes from.
FilesHonest ==
    \A f \in spool : f \in LifeCall =>
        /\ f.life # NoPid
        /\ f.op = "start" => f.pid = f.life
        /\ f.op = "heartbeat" => f.pid \in {NoPid, f.life}

Honest(f) == /\ f \in LifeCall
             /\ f.life # NoPid
             /\ f.op = "start" => f.pid = f.life
             /\ f.op = "heartbeat" => f.pid \in {NoPid, f.life}

Typed == RowsOK /\ ProcsOK /\ FilesOK /\ FilesHonest

table == <<rows, restless, halfReaped>>

(***************************************************************************)
(* The store's operations. *)
(***************************************************************************)

LEMMA CallsApart ==
    /\ \A f \in LifeCall : f.op \in {"start", "heartbeat", "end"} /\ f.sid \in Sids
                           /\ f.life \in Nat /\ f.pid \in Nat
    /\ \A f \in NameCall : f.op \in {"join", "claim", "touch"} /\ f.name \in Handles
  BY DEF LifeCall, NameCall

LEMMA StartRows ==
    ASSUME RowsOK, NEW s \in Sids, NEW p \in Nat, SessionStart(s, p)
    PROVE  RowsOK'
<1>1. PICK h \in Handles :
        /\ sidOf[h] = s \/ (sidOf[h] = None /\ Named(s) = {})
        /\ sidOf' = [sidOf EXCEPT ![h] = s]
        /\ pidOf' = [pidOf EXCEPT ![h] = Coalesce(p, @)]
        /\ ended' = ended \ {h} /\ silent' = silent \ {h}
        /\ restless' = restless \ {h} /\ halfReaped' = halfReaped \ {h}
        /\ members' = members /\ held' = held
  BY DEF SessionStart
<1>2. s # None
  BY PresenceConstants
<1>3. \A g \in Handles : g # h => sidOf[g] # s
  BY <1>1, <1>2 DEF RowsOK, OneHandle, Named
<1>4. pidOf' \in [Handles -> Nat]
  BY <1>1 DEF RowsOK, Coalesce
<1>5. OneHandle'
  BY <1>1, <1>2, <1>3 DEF RowsOK, OneHandle
<1> QED
  BY <1>1, <1>2, <1>4, <1>5 DEF RowsOK

LEMMA OtherRows ==
    ASSUME RowsOK
    PROVE  /\ \A s \in Sids, p \in Nat : Heartbeat(s, p) => RowsOK'
           /\ \A H \in SUBSET {h \in Handles : sidOf[h] # None} : Retire(H) => RowsOK'
           /\ \A h \in Handles : Join(h) \/ Claim(h) \/ Touch(h) => RowsOK'
<1> USE DEF RowsOK, OneHandle
<1>1. ASSUME NEW s \in Sids, NEW p \in Nat, Heartbeat(s, p) PROVE RowsOK'
  BY <1>1 DEF Heartbeat, Coalesce
<1>2. ASSUME NEW H \in SUBSET {h \in Handles : sidOf[h] # None}, Retire(H) PROVE RowsOK'
  BY <1>2 DEF Retire
<1>3. ASSUME NEW h \in Handles, Join(h) \/ Claim(h) \/ Touch(h) PROVE RowsOK'
  BY <1>3 DEF Join, Claim, Touch
<1> QED
  BY <1>1, <1>2, <1>3

LEMMA CutRows ==
    ASSUME RowsOK, NEW h \in Handles, sidOf[h] # None,
           NEW done \in SUBSET {g \in Handles : sidOf[g] # None},
           RetireCut(done, h), halfReaped' \subseteq halfReaped \cup {h}
    PROVE  RowsOK'
  BY DEF RowsOK, OneHandle, RetireCut

LEMMA NamedHandles ==
    ASSUME NEW s \in Sids
    PROVE  Named(s) \in SUBSET {h \in Handles : sidOf[h] # None}
  BY PresenceConstants DEF Named

LEMMA ApplyRows ==
    ASSUME RowsOK, NEW f \in LifeCall \cup NameCall, Apply(f) \/ ApplyCut(f)
    PROVE  RowsOK'
<1>1. CASE f.op = "start" /\ SessionStart(f.sid, f.pid)
  BY <1>1, CallsApart, StartRows
<1>2. CASE f.op = "heartbeat" /\ Heartbeat(f.sid, f.pid)
  BY <1>2, CallsApart, OtherRows
<1>3. CASE f.op = "end" /\ SessionEnd(f.sid)
  BY <1>3, CallsApart, OtherRows, NamedHandles DEF SessionEnd
<1>4. CASE f.op \in {"join", "claim", "touch"} /\ (Join(f.name) \/ Claim(f.name) \/ Touch(f.name))
  BY <1>4, CallsApart, OtherRows
<1>5. CASE ApplyCut(f)
  <2>1. f.op = "end" /\ f.sid \in Sids
    BY <1>5, CallsApart DEF ApplyCut
  <2>2. PICK h \in Named(f.sid) : RetireCut({}, h)
    BY <1>5 DEF ApplyCut
  <2> QED
    BY <1>5, <2>1, <2>2, CutRows, NamedHandles DEF ApplyCut
<1> QED
  BY <1>1, <1>2, <1>3, <1>4, <1>5 DEF Apply

(***************************************************************************)
(* Typing. *)
(***************************************************************************)

LEMMA QueueFiles ==
    ASSUME FilesOK, FilesHonest, NEW f \in LifeCall \cup NameCall,
           f \in LifeCall => Honest(f), Queue(f), crashes' \in Nat
    PROVE  FilesOK' /\ FilesHonest'
  BY DEF FilesOK, FilesHonest, Honest, Queue

\* A call, answered or not, leaves the rows and the files in order.
LEMMA CallTyped ==
    ASSUME Typed, NEW f \in LifeCall \cup NameCall, f \in LifeCall => Honest(f),
           Answered(f) \/ Spooled(f)
    PROVE  RowsOK' /\ FilesOK' /\ FilesHonest'
<1>1. CASE Answered(f)
  BY <1>1, ApplyRows DEF Typed, Answered, files, FilesOK, FilesHonest
<1>2. CASE Spooled(f)
  <2>1. crashes' \in Nat
    BY <1>2 DEF Spooled, Crash, Typed, FilesOK
  <2>2. FilesOK' /\ FilesHonest'
    BY <1>2, <2>1, QueueFiles DEF Spooled, Typed
  <2>3. CASE UNCHANGED table
    BY <2>2, <2>3 DEF Typed, RowsOK, OneHandle, table, rows
  <2> QED
    BY <1>2, <2>2, <2>3, ApplyRows DEF Spooled, Typed, table
<1> QED
  BY <1>1, <1>2

LEMMA LifeOpHonest ==
    ASSUME Typed, NEW s \in Sids, running[s] # NoPid,
           NEW op \in {"start", "heartbeat", "end"}, NEW p \in {NoPid, running[s]},
           op = "start" => p = running[s]
    PROVE  Honest(LifeOp(op, s, p))
<1>1. running[s] \in Nat /\ nfiles \in Nat
  BY DEF Typed, ProcsOK, FilesOK
<1> QED
  BY <1>1 DEF Honest, LifeOp, LifeCall, NoPid

LEMMA NameOpTyped ==
    ASSUME Typed, NEW op \in {"join", "claim", "touch"}, NEW h \in Handles
    PROVE  NameOp(op, h) \in NameCall /\ NameOp(op, h) \notin LifeCall
  BY CallsApart DEF NameOp, NameCall, Typed, FilesOK

LEMMA ReapRows ==
    ASSUME Typed, NEW v \in Probes
    PROVE  Due(v) \in SUBSET {h \in Handles : sidOf[h] # None}
  BY DEF Due

LEMMA TypedInductive == Typed /\ [Next]_vars => Typed'
<1> SUFFICES ASSUME Typed, [Next]_vars PROVE Typed'
  OBVIOUS
<1>1. ASSUME NEW s \in Sids, SessionStep(s) PROVE Typed'
  <2>1. CASE Launch(s)
    BY <2>1 DEF Launch, Typed, RowsOK, OneHandle, ProcsOK, FilesOK, FilesHonest, rows, files, NoPid
  <2>2. CASE StartHook(s)
    <3>1. Honest(LifeOp("start", s, running[s]))
      BY <2>2, LifeOpHonest DEF StartHook
    <3>2. ProcsOK'
      BY <2>2 DEF StartHook, procs, Typed, ProcsOK
    <3> QED
      BY <2>2, <3>1, <3>2, CallTyped DEF StartHook, Typed, Honest
  <2>3. CASE Turn(s)
    <3>1. PICK p \in {NoPid, running[s]} :
            LET f == LifeOp("heartbeat", s, p) IN Answered(f) \/ Spooled(f)
      BY <2>3 DEF Turn
    <3>2. Honest(LifeOp("heartbeat", s, p))
      BY <2>3, LifeOpHonest DEF Turn
    <3>3. ProcsOK'
      BY <2>3 DEF Turn, procs, Typed, ProcsOK
    <3> QED
      BY <3>1, <3>2, <3>3, CallTyped DEF Typed, Honest
  <2>4. CASE EndHook(s)
    <3>1. Honest(LifeOp("end", s, NoPid))
      BY <2>4, LifeOpHonest DEF EndHook
    <3>2. ProcsOK'
      BY <2>4 DEF EndHook, Gone, Typed, ProcsOK, NoPid
    <3> QED
      BY <2>4, <3>1, <3>2, CallTyped DEF EndHook, Typed, Honest
  <2>5. CASE SessionCrash(s)
    BY <2>5 DEF SessionCrash, Gone, Typed, RowsOK, OneHandle, ProcsOK, FilesOK, FilesHonest,
                rows, files, NoPid
  <2>6. CASE Verb(s)
    <3>1. ProcsOK'
      BY <2>6 DEF Verb, procs, Typed, ProcsOK
    <3>2. PICK h \in Named(s) \ ended :
            \/ Answered(NameOp("claim", h))
            \/ \E op \in {"join", "claim", "touch"} :
                 /\ Queue(NameOp(op, h))
                 /\ UNCHANGED <<rows, crashes, restless, halfReaped>>
            \/ /\ held' = held \ {h}
               /\ UNCHANGED <<sidOf, ended, pidOf, silent, members>>
               /\ UNCHANGED <<files, crashes, restless, halfReaped>>
      BY <2>6 DEF Verb
    <3>3. h \in Handles
      BY DEF Named
    <3>4. CASE Answered(NameOp("claim", h))
      BY <3>1, <3>3, <3>4, NameOpTyped, CallTyped DEF Typed
    <3>5. ASSUME NEW op \in {"join", "claim", "touch"}, Queue(NameOp(op, h)),
                 UNCHANGED <<rows, crashes, restless, halfReaped>>
          PROVE  Typed'
      <4>1. FilesOK' /\ FilesHonest'
        BY <3>3, <3>5, NameOpTyped, QueueFiles DEF Typed, FilesOK
      <4> QED
        BY <3>1, <3>5, <4>1 DEF Typed, RowsOK, OneHandle, rows
    <3>6. CASE /\ held' = held \ {h}
               /\ UNCHANGED <<sidOf, ended, pidOf, silent, members>>
               /\ UNCHANGED <<files, crashes, restless, halfReaped>>
      BY <3>1, <3>6 DEF Typed, RowsOK, OneHandle, FilesOK, FilesHonest, files
    <3> QED
      BY <3>2, <3>4, <3>5, <3>6
  <2> QED
    BY <1>1, <2>1, <2>2, <2>3, <2>4, <2>5, <2>6 DEF SessionStep
<1>2. ASSUME NEW f \in spool, DrainApply(f) \/ DrainKilled(f) PROVE Typed'
  <2>1. f \in LifeCall \cup NameCall
    BY DEF Typed, FilesOK
  <2>2. RowsOK'
    BY <1>2, <2>1, ApplyRows DEF DrainApply, DrainKilled, Typed
  <2>3. bound' \subseteq Sids
    BY <1>2, <2>1, CallsApart DEF DrainApply, DrainKilled, BoundAfter, Typed, ProcsOK
  <2>4. ProcsOK'
    BY <1>2, <2>3 DEF DrainApply, DrainKilled, procs, Typed, ProcsOK
  <2>5. spool' \subseteq spool /\ nfiles' = nfiles /\ crashes' \in Nat
    BY <1>2 DEF DrainApply, DrainKilled, files, Crash, Typed, FilesOK
  <2> QED
    BY <2>2, <2>4, <2>5 DEF Typed, FilesOK, FilesHonest
<1>3. CASE Reap
  <2>1. RowsOK'
    BY <1>3, ReapRows, OtherRows DEF Reap, Typed
  <2> QED
    BY <1>3, <2>1 DEF Reap, Typed, ProcsOK, FilesOK, FilesHonest, procs, files
<1>4. CASE ReapKilled
  <2>1. PICK v \in Probes : \E h \in Due(v) : \E done \in SUBSET (Due(v) \ {h}) :
          RetireCut(done, h) /\ halfReaped' = (halfReaped \ done) \cup {h}
    BY <1>4 DEF ReapKilled
  <2>2. RowsOK'
    BY <2>1, ReapRows, CutRows DEF Typed
  <2> QED
    BY <1>4, <2>2 DEF ReapKilled, Typed, ProcsOK, FilesOK, FilesHonest, procs, files, Crash
<1>5. ASSUME NEW h \in Handles, Prune(h) \/ Forget(h) \/ FallSilent(h) PROVE Typed'
  <2>1. CASE Prune(h)
    BY <2>1 DEF Prune, Typed, RowsOK, OneHandle, ProcsOK, FilesOK, FilesHonest, procs, files
  <2>2. CASE Forget(h)
    BY <2>2 DEF Forget, Typed, RowsOK, OneHandle, ProcsOK, FilesOK, FilesHonest, procs, files, NoPid
  <2>3. CASE FallSilent(h)
    BY <2>3 DEF FallSilent, Typed, RowsOK, OneHandle, ProcsOK, FilesOK, FilesHonest, procs, files
  <2> QED
    BY <1>5, <2>1, <2>2, <2>3
<1>6. CASE UNCHANGED vars
  BY <1>6 DEF vars, rows, procs, files, Typed, RowsOK, OneHandle, ProcsOK, FilesOK, FilesHonest
<1> QED
  BY <1>1, <1>2, <1>3, <1>4, <1>5, <1>6 DEF Next

LEMMA AlwaysTyped == Spec => []Typed
<1>1. Init => Typed
  BY DEF Init, Typed, RowsOK, OneHandle, ProcsOK, FilesOK, FilesHonest, NoPid
<1> QED
  BY <1>1, TypedInductive, PTL DEF Spec

\* Every variable of the session registry keeps its type, whatever is queued,
\* repeated, swept and forgotten.
THEOREM PresenceTyped == Spec => []PresenceTypeOK
<1>1. Typed => PresenceTypeOK
  BY DEF Typed, RowsOK, ProcsOK, FilesOK, PresenceTypeOK
<1> QED
  BY <1>1, AlwaysTyped, PTL

(***************************************************************************)
(* Running sessions stay live.                                             *)
(***************************************************************************)

\* The session is live under the pid of its process.
Up(s) == \E h \in Handles \ ended : sidOf[h] = s /\ pidOf[h] = running[s]

LEMMA RowsKeepUp ==
    ASSUME NEW s \in Sids, Up(s), running'[s] = running[s],
           \A h \in Handles : sidOf[h] = s =>
               /\ sidOf'[h] = s
               /\ pidOf[h] = running[s] => pidOf'[h] = pidOf[h]
               /\ h \notin ended => h \notin ended'
    PROVE  Up(s)'
  BY DEF Up

\* The start of a running session's present life puts it up.
LEMMA StartPutsUp ==
    ASSUME Typed, NEW s \in Sids, running[s] # NoPid, running'[s] = running[s],
           SessionStart(s, running[s])
    PROVE  Up(s)'
<1>1. PICK h \in Handles : /\ sidOf' = [sidOf EXCEPT ![h] = s]
                           /\ pidOf' = [pidOf EXCEPT ![h] = Coalesce(running[s], @)]
                           /\ ended' = ended \ {h}
  BY DEF SessionStart
<1>2. sidOf'[h] = s /\ pidOf'[h] = running[s] /\ h \in Handles \ ended'
  BY <1>1 DEF Coalesce, Typed, RowsOK
<1> QED
  BY <1>1, <1>2 DEF Up

\* No call, cut short or not, takes a session down but a late one of its own.
LEMMA CallsKeepUp ==
    ASSUME Typed, NEW s \in Sids, running[s] # NoPid, running'[s] = running[s], Up(s),
           NEW f \in LifeCall \cup NameCall, f \in LifeCall => Honest(f),
           Apply(f) \/ ApplyCut(f),
           f \in LifeCall /\ f.sid = s => f.op # "end" /\ f.life = running[s]
    PROVE  Up(s)'
<1>1. CASE f.op = "start" /\ SessionStart(f.sid, f.pid)
  <2>1. f \in LifeCall
    BY <1>1, CallsApart
  <2>2. CASE f.sid = s
    BY <1>1, <2>1, <2>2, StartPutsUp DEF Honest
  <2>3. CASE f.sid # s
    BY <1>1, <2>3, RowsKeepUp, PresenceConstants DEF SessionStart, Typed, RowsOK
  <2> QED
    BY <2>2, <2>3
<1>2. CASE f.op = "heartbeat" /\ Heartbeat(f.sid, f.pid)
  <2>1. f \in LifeCall
    BY <1>2, CallsApart
  <2>2. f.sid = s => f.pid \in {NoPid, running[s]}
    BY <1>2, <2>1 DEF Honest
  <2>3. \A h \in Handles : sidOf[h] = s =>
          /\ sidOf'[h] = s
          /\ pidOf[h] = running[s] => pidOf'[h] = pidOf[h]
          /\ h \notin ended => h \notin ended'
    BY <1>2, <2>2 DEF Heartbeat, Coalesce, Named
  <2> QED
    BY <2>3, RowsKeepUp
<1>3. CASE f.op = "end" /\ (SessionEnd(f.sid) \/ ApplyCut(f))
  <2>1. f.sid # s
    BY <1>3, CallsApart
  <2> QED
    BY <1>3, <2>1, RowsKeepUp DEF SessionEnd, ApplyCut, Retire, RetireCut, Named
<1>4. CASE f.op \in {"join", "claim", "touch"} /\ (Join(f.name) \/ Claim(f.name) \/ Touch(f.name))
  BY <1>4, RowsKeepUp DEF Join, Claim, Touch
<1> QED
  BY <1>1, <1>2, <1>3, <1>4 DEF Apply, ApplyCut

\* Up, after a step that leaves the rows alone.
LEMMA SameRowsKeepUp ==
    ASSUME NEW s \in Sids, Up(s), running'[s] = running[s], UNCHANGED <<sidOf, ended, pidOf>>
    PROVE  Up(s)'
  BY RowsKeepUp

\* A call of a session sent or queued, from its own side and from the others'.
LEMMA HooksKeepUp ==
    ASSUME Typed, NEW s \in Sids, running[s] # NoPid, running'[s] = running[s], Up(s),
           NEW f \in LifeCall \cup NameCall, f \in LifeCall => Honest(f),
           Answered(f) \/ Spooled(f),
           f \in LifeCall /\ f.sid = s => f.op # "end" /\ f.life = running[s]
    PROVE  Up(s)'
  BY CallsKeepUp, SameRowsKeepUp DEF Answered, Spooled, rows

\* The sweep passes over whoever has a running process.
LEMMA SweepsKeepUp ==
    ASSUME Typed, NEW s \in Sids, running[s] # NoPid, running' = running, Up(s),
           Reap \/ ReapKilled
    PROVE  Up(s)'
<1>1. \A v \in Probes, h \in Handles :
        sidOf[h] = s /\ pidOf[h] = running[s] => h \notin Due(v)
  BY DEF Probes, Due, PidAlive
<1>2. PICK g \in Handles \ ended : sidOf[g] = s /\ pidOf[g] = running[s]
  BY DEF Up
<1>3. g \notin ended' /\ UNCHANGED <<sidOf, pidOf>>
  <2>1. CASE Reap
    BY <1>1, <1>2, <2>1 DEF Reap, Retire
  <2>2. CASE ReapKilled
    BY <1>1, <1>2, <2>2 DEF ReapKilled, RetireCut
  <2> QED
    BY <2>1, <2>2
<1> QED
  BY <1>2, <1>3 DEF Up

LEMMA RunningInductive ==
    Typed /\ RunningStaysLive /\ [Next]_vars => RunningStaysLive'
<1> SUFFICES ASSUME Typed, RunningStaysLive, [Next]_vars,
                    NEW s \in Sids, s \in bound'
             PROVE  running'[s] # NoPid /\ Up(s)'
  BY TypedInductive DEF RunningStaysLive, Up, Typed, ProcsOK
<1>0. s \in bound => running[s] # NoPid /\ Up(s)
  BY DEF RunningStaysLive, Up
<1>1. ASSUME NEW t \in Sids, SessionStep(t) PROVE running'[s] # NoPid /\ Up(s)'
  <2>1. CASE Launch(t)
    <3>1. s \in bound /\ running'[s] = running[s]
      BY <1>0, <2>1 DEF Launch, Typed, ProcsOK
    <3> QED
      BY <1>0, <2>1, <3>1, SameRowsKeepUp DEF Launch, rows
  <2>2. CASE StartHook(t)
    <3> DEFINE f == LifeOp("start", t, running[t])
    <3>1. Honest(f) /\ f.op = "start" /\ f.sid = t /\ f.life = running[t] /\ f.pid = running[t]
      BY <2>2, LifeOpHonest DEF StartHook, LifeOp
    <3>2. running' = running
      BY <2>2 DEF StartHook, procs
    <3>3. CASE s \in bound
      <4>1. f \in LifeCall
        BY <3>1 DEF Honest
      <4> QED
        BY <1>0, <2>2, <3>1, <3>2, <3>3, <4>1, HooksKeepUp DEF StartHook
    <3>4. CASE s \notin bound
      <4>1. s = t /\ Answered(f) /\ running[s] # NoPid
        BY <2>2, <3>4 DEF StartHook
      <4>2. SessionStart(s, running[s])
        BY <3>1, <4>1 DEF Answered, Apply
      <4> QED
        BY <3>2, <4>1, <4>2, StartPutsUp
    <3> QED
      BY <3>3, <3>4
  <2>3. CASE Turn(t)
    <3>1. PICK p \in {NoPid, running[t]} :
            Answered(LifeOp("heartbeat", t, p)) \/ Spooled(LifeOp("heartbeat", t, p))
      BY <2>3 DEF Turn
    <3> DEFINE f == LifeOp("heartbeat", t, p)
    <3>2. Honest(f) /\ f.op = "heartbeat" /\ f.sid = t /\ f.life = running[t]
      BY <2>3, LifeOpHonest DEF Turn, LifeOp
    <3>3. f \in LifeCall
      BY <3>2 DEF Honest
    <3>4. running' = running /\ s \in bound
      BY <2>3 DEF Turn, procs
    <3> QED
      BY <1>0, <3>1, <3>2, <3>3, <3>4, HooksKeepUp
  <2>4. CASE EndHook(t)
    <3> DEFINE f == LifeOp("end", t, NoPid)
    <3>1. Honest(f) /\ f.sid = t
      BY <2>4, LifeOpHonest DEF EndHook, LifeOp
    <3>2. f \in LifeCall
      BY <3>1 DEF Honest
    <3>3. s # t /\ s \in bound /\ running'[s] = running[s]
      BY <2>4 DEF EndHook, Gone, Typed, ProcsOK
    <3> QED
      BY <1>0, <2>4, <3>1, <3>2, <3>3, HooksKeepUp DEF EndHook
  <2>5. CASE SessionCrash(t)
    <3>1. s \in bound /\ running'[s] = running[s]
      BY <2>5 DEF SessionCrash, Gone, Typed, ProcsOK
    <3> QED
      BY <1>0, <2>5, <3>1, SameRowsKeepUp DEF SessionCrash, rows
  <2>6. CASE Verb(t)
    <3>1. running' = running /\ s \in bound
      BY <2>6 DEF Verb, procs
    <3>2. PICK h \in Handles :
            \/ Answered(NameOp("claim", h))
            \/ UNCHANGED <<sidOf, ended, pidOf>>
      BY <2>6 DEF Verb, Named, rows
    <3>3. NameOp("claim", h) \in NameCall /\ NameOp("claim", h) \notin LifeCall
      BY NameOpTyped
    <3> QED
      BY <1>0, <3>1, <3>2, <3>3, HooksKeepUp, SameRowsKeepUp
  <2> QED
    BY <1>1, <2>1, <2>2, <2>3, <2>4, <2>5, <2>6 DEF SessionStep
<1>2. ASSUME NEW f \in spool, DrainApply(f) \/ DrainKilled(f)
      PROVE  running'[s] # NoPid /\ Up(s)'
  <2>1. f \in LifeCall \cup NameCall /\ (f \in LifeCall => Honest(f))
    BY DEF Typed, FilesOK, FilesHonest, Honest
  <2>2. Apply(f) \/ ApplyCut(f)
    BY <1>2 DEF DrainApply, DrainKilled
  <2>3. running' = running /\ bound' = BoundAfter(f)
    BY <1>2 DEF DrainApply, DrainKilled, procs
  <2>4. CASE s \in bound
    <3>1. f \in LifeCall /\ f.sid = s => f.op # "end" /\ f.life = running[s]
      BY <2>1, <2>3, CallsApart DEF BoundAfter, Late
    <3> QED
      BY <1>0, <2>1, <2>2, <2>3, <2>4, <3>1, CallsKeepUp
  <2>5. CASE s \notin bound
    <3>1. f.op = "start" /\ f.sid = s /\ f.life = running[s]
      BY <2>3, <2>5 DEF BoundAfter, Late
    <3>2. f \in LifeCall
      BY <2>1, <3>1, CallsApart
    <3>3. f.pid = running[s] /\ running[s] # NoPid
      BY <2>1, <3>1, <3>2 DEF Honest
    <3>4. SessionStart(s, running[s])
      BY <2>2, <3>1, <3>3 DEF Apply, ApplyCut
    <3> QED
      BY <2>3, <3>3, <3>4, StartPutsUp
  <2> QED
    BY <2>4, <2>5
<1>3. CASE Reap \/ ReapKilled
  <2>1. running' = running /\ s \in bound
    BY <1>3 DEF Reap, ReapKilled, procs
  <2> QED
    BY <1>0, <1>3, <2>1, SweepsKeepUp
<1>4. ASSUME NEW h \in Handles, Prune(h) \/ FallSilent(h) PROVE running'[s] # NoPid /\ Up(s)'
  BY <1>0, <1>4, SameRowsKeepUp DEF Prune, FallSilent, procs
<1>5. ASSUME NEW h \in Handles, Forget(h) PROVE running'[s] # NoPid /\ Up(s)'
  <2>1. s \in bound /\ sidOf[h] # s /\ running' = running
    BY <1>5 DEF Forget, procs
  <2>2. \A g \in Handles : sidOf[g] = s =>
          /\ sidOf'[g] = s
          /\ pidOf[g] = running[s] => pidOf'[g] = pidOf[g]
          /\ g \notin ended => g \notin ended'
    BY <1>5, <2>1 DEF Forget, Typed, RowsOK
  <2> QED
    BY <1>0, <2>1, <2>2, RowsKeepUp
<1>6. CASE UNCHANGED vars
  BY <1>0, <1>6, SameRowsKeepUp DEF vars, rows, procs
<1> QED
  BY <1>1, <1>2, <1>3, <1>4, <1>5, <1>6 DEF Next

\* However silent it is, whatever its calls' fate and however often it is
\* swept, a session whose start took effect is live under its own pid until its
\* process ends, a call of an earlier life comes in late, or it is forgotten.
THEOREM RunningStayLive == Spec => []RunningStaysLive
<1>1. Init => RunningStaysLive
  BY DEF Init, RunningStaysLive
<1> QED
  BY <1>1, AlwaysTyped, RunningInductive, PTL DEF Spec

(***************************************************************************)
(* Archived sessions hold nothing.                                         *)
(***************************************************************************)

EndQueued(h) == \E f \in spool : f.op = "end" /\ f.sid = sidOf[h]

\* What is archived and holds something has an excuse.
Excused(h) ==
    h \in ended /\ h \in members \cup held =>
        h \in restless \/ h \in halfReaped \/ EndQueued(h)

LEMMA ExcusedIsEnough ==
    RowsOK => (ArchivedHoldsNothing <=> \A h \in Handles : h \in ended => Excused(h))
  BY DEF RowsOK, ArchivedHoldsNothing, Excused, EndQueued

\* A handle that gains nothing and keeps its excuses stays excused.
LEMMA StaysExcused ==
    ASSUME NEW h, Excused(h),
           h \in ended' => h \in ended,
           h \in members' \cup held' => h \in members \cup held,
           h \in ended' /\ h \in restless => h \in restless',
           h \in ended' /\ h \in halfReaped => h \in halfReaped',
           EndQueued(h) => EndQueued(h)' \/ h \notin ended' \/ h \notin members' \cup held'
    PROVE  Excused(h)'
  BY DEF Excused

\* Every operation keeps the archived excused, if the files of ends stay but the
\* one at hand, and that one too when it was cut short.
LEMMA CallsKeepExcuses ==
    ASSUME Typed, \A h \in Handles : h \in ended => Excused(h),
           NEW f \in LifeCall \cup NameCall, Apply(f) \/ (ApplyCut(f) /\ f \in spool'),
           \A g \in spool : g \in spool' \/ g = f,
           NEW h \in Handles, h \in ended'
    PROVE  Excused(h)'
<1>1. CASE f.op = "start" /\ SessionStart(f.sid, f.pid)
  <2>1. h \in ended /\ sidOf'[h] = sidOf[h] /\ EndQueued(h) => EndQueued(h)'
    BY <1>1 DEF EndQueued
  <2>2. PICK g \in Handles :
          /\ sidOf' = [sidOf EXCEPT ![g] = f.sid]
          /\ ended' = ended \ {g}
          /\ restless' = restless \ {g} /\ halfReaped' = halfReaped \ {g}
          /\ UNCHANGED <<members, held>>
    BY <1>1 DEF SessionStart
  <2>3. h # g /\ h \in ended /\ sidOf'[h] = sidOf[h]
    BY <2>2 DEF Typed, RowsOK
  <2> QED
    BY <2>1, <2>2, <2>3, StaysExcused
<1>2. CASE f.op \in {"heartbeat", "join", "claim", "touch"} /\ Apply(f)
  <2>1. EndQueued(h) => EndQueued(h)'
    BY <1>2 DEF EndQueued, Apply, Heartbeat, Join, Claim, Touch
  <2>2. CASE f.op = "heartbeat" /\ Heartbeat(f.sid, f.pid)
    BY <2>1, <2>2, StaysExcused DEF Heartbeat
  <2>3. CASE f.op = "join" /\ Join(f.name)
    BY <2>1, <2>3, StaysExcused DEF Join, Excused
  <2>4. CASE f.op = "claim" /\ Claim(f.name)
    BY <2>1, <2>4, StaysExcused DEF Claim, Excused
  <2>5. CASE f.op = "touch" /\ Touch(f.name)
    BY <2>1, <2>5, StaysExcused DEF Touch
  <2> QED
    BY <1>2, <2>2, <2>3, <2>4, <2>5 DEF Apply
<1>3. CASE f.op = "end" /\ SessionEnd(f.sid)
  <2>1. CASE sidOf[h] = f.sid
    BY <1>3, <2>1 DEF SessionEnd, Retire, Named, Excused
  <2>2. CASE sidOf[h] # f.sid
    <3>1. EndQueued(h) => EndQueued(h)'
      BY <1>3, <2>2 DEF EndQueued, SessionEnd, Retire
    <3> QED
      BY <1>3, <2>2, <3>1, StaysExcused DEF SessionEnd, Retire, Named
  <2> QED
    BY <2>1, <2>2
<1>4. CASE ApplyCut(f) /\ f \in spool'
  <2>1. CASE sidOf[h] = f.sid
    BY <1>4, <2>1 DEF ApplyCut, RetireCut, Excused, EndQueued
  <2>2. CASE sidOf[h] # f.sid
    <3>1. EndQueued(h) => EndQueued(h)'
      BY <1>4, <2>2 DEF EndQueued, ApplyCut, RetireCut
    <3> QED
      BY <1>4, <2>2, <3>1, StaysExcused DEF ApplyCut, RetireCut, Named
  <2> QED
    BY <2>1, <2>2
<1> QED
  BY <1>1, <1>2, <1>3, <1>4, CallsApart DEF Apply

\* A sent or queued call of a session: no file goes, and one that was begun and
\* cut short is queued.
LEMMA HooksKeepExcuses ==
    ASSUME Typed, \A h \in Handles : h \in ended => Excused(h),
           NEW f \in LifeCall \cup NameCall, Answered(f) \/ Spooled(f),
           NEW h \in Handles, h \in ended'
    PROVE  Excused(h)'
<1>1. \A g \in spool : g \in spool'
  BY DEF Answered, Spooled, Queue, files
<1>2. CASE Apply(f) \/ ApplyCut(f)
  <2>1. Apply(f) \/ f \in spool'
    BY <1>2 DEF Answered, Spooled, Queue
  <2> QED
    BY <1>1, <1>2, <2>1, CallsKeepExcuses
<1>3. CASE UNCHANGED table
  <2>1. h \in ended /\ (EndQueued(h) => EndQueued(h)')
    BY <1>1, <1>3 DEF table, rows, EndQueued
  <2> QED
    BY <1>3, <2>1, StaysExcused DEF table, rows
<1> QED
  BY <1>2, <1>3 DEF Answered, Spooled, table

LEMMA ArchivedInductive ==
    Typed /\ ArchivedHoldsNothing /\ [Next]_vars => ArchivedHoldsNothing'
<1> SUFFICES ASSUME Typed, ArchivedHoldsNothing, [Next]_vars, NEW h \in Handles, h \in ended'
             PROVE  Excused(h)'
  <2>1. Typed /\ [Next]_vars => RowsOK'
    BY TypedInductive DEF Typed
  <2>2. RowsOK' => (ArchivedHoldsNothing' <=> \A h \in Handles : h \in ended' => Excused(h)')
    BY DEF RowsOK, ArchivedHoldsNothing, Excused, EndQueued
  <2> QED
    BY <2>1, <2>2
<1>0. \A g \in Handles : g \in ended => Excused(g)
  BY ExcusedIsEnough DEF Typed
<1>1. ASSUME spool' = spool, sidOf'[h] = sidOf[h], h \in ended,
             h \in members' \cup held' => h \in members \cup held,
             h \in restless => h \in restless', h \in halfReaped => h \in halfReaped'
      PROVE  Excused(h)'
  BY <1>0, <1>1, StaysExcused DEF EndQueued
<1>2. ASSUME NEW s \in Sids, SessionStep(s) PROVE Excused(h)'
  <2>1. CASE Launch(s) \/ SessionCrash(s)
    BY <1>1, <2>1 DEF Launch, SessionCrash, rows, files
  <2>2. CASE StartHook(s)
    <3>1. Honest(LifeOp("start", s, running[s]))
      BY <2>2, LifeOpHonest DEF StartHook
    <3> QED
      BY <1>0, <2>2, <3>1, HooksKeepExcuses DEF StartHook, Honest
  <2>3. CASE Turn(s)
    <3>1. PICK p \in {NoPid, running[s]} :
            Answered(LifeOp("heartbeat", s, p)) \/ Spooled(LifeOp("heartbeat", s, p))
      BY <2>3 DEF Turn
    <3>2. Honest(LifeOp("heartbeat", s, p))
      BY <2>3, LifeOpHonest DEF Turn
    <3> QED
      BY <1>0, <3>1, <3>2, HooksKeepExcuses DEF Honest
  <2>4. CASE EndHook(s)
    <3>1. Honest(LifeOp("end", s, NoPid))
      BY <2>4, LifeOpHonest DEF EndHook
    <3> QED
      BY <1>0, <2>4, <3>1, HooksKeepExcuses DEF EndHook, Honest
  <2>5. CASE Verb(s)
    <3>1. PICK g \in Handles :
            \/ Answered(NameOp("claim", g))
            \/ \E op \in {"join", "claim", "touch"} :
                 Queue(NameOp(op, g)) /\ UNCHANGED table
            \/ /\ held' \subseteq held
               /\ UNCHANGED <<sidOf, ended, members, spool, restless, halfReaped>>
      BY <2>5 DEF Verb, Named, table, files
    <3>2. CASE Answered(NameOp("claim", g))
      BY <1>0, <3>2, NameOpTyped, HooksKeepExcuses
    <3>3. ASSUME NEW op \in {"join", "claim", "touch"},
                 Queue(NameOp(op, g)), UNCHANGED table
          PROVE  Excused(h)'
      <4>1. h \in ended /\ (EndQueued(h) => EndQueued(h)')
        BY <3>3 DEF Queue, table, rows, EndQueued
      <4> QED
        BY <1>0, <3>3, <4>1, StaysExcused DEF table, rows
    <3>4. CASE /\ held' \subseteq held
               /\ UNCHANGED <<sidOf, ended, members, spool, restless, halfReaped>>
      BY <1>1, <3>4
    <3> QED
      BY <3>1, <3>2, <3>3, <3>4
  <2> QED
    BY <1>2, <2>1, <2>2, <2>3, <2>4, <2>5 DEF SessionStep
<1>3. ASSUME NEW f \in spool, DrainApply(f) \/ DrainKilled(f) PROVE Excused(h)'
  <2>1. f \in LifeCall \cup NameCall
    BY DEF Typed, FilesOK
  <2>2. Apply(f) \/ (ApplyCut(f) /\ f \in spool')
    BY <1>3 DEF DrainApply, DrainKilled, files
  <2>3. \A g \in spool : g \in spool' \/ g = f
    BY <1>3 DEF DrainApply, DrainKilled, files
  <2> QED
    BY <1>0, <2>1, <2>2, <2>3, CallsKeepExcuses
<1>4. CASE Reap
  <2>1. PICK v \in Probes : Retire(Due(v))
    BY <1>4 DEF Reap
  <2>2. CASE h \in Due(v)
    BY <2>1, <2>2 DEF Retire, Excused
  <2>3. CASE h \notin Due(v)
    BY <1>1, <1>4, <2>1, <2>3 DEF Retire, Reap, files
  <2> QED
    BY <2>2, <2>3
<1>5. CASE ReapKilled
  <2>1. PICK v \in Probes : \E g \in Due(v) : \E done \in SUBSET (Due(v) \ {g}) :
          RetireCut(done, g) /\ halfReaped' = (halfReaped \ done) \cup {g}
    BY <1>5 DEF ReapKilled
  <2>2. PICK g \in Due(v) : \E done \in SUBSET (Due(v) \ {g}) :
          RetireCut(done, g) /\ halfReaped' = (halfReaped \ done) \cup {g}
    BY <2>1
  <2>3. PICK done \in SUBSET (Due(v) \ {g}) :
          RetireCut(done, g) /\ halfReaped' = (halfReaped \ done) \cup {g}
    BY <2>2
  <2>4. CASE h = g
    BY <2>3, <2>4 DEF Excused
  <2>5. CASE h \in done
    BY <2>3, <2>5 DEF RetireCut, Excused
  <2>6. CASE h # g /\ h \notin done
    BY <1>1, <1>5, <2>3, <2>6 DEF RetireCut, ReapKilled, files
  <2> QED
    BY <2>4, <2>5, <2>6
<1>6. ASSUME NEW g \in Handles, Prune(g) \/ FallSilent(g) PROVE Excused(h)'
  BY <1>1, <1>6 DEF Prune, FallSilent, files
<1>7. ASSUME NEW g \in Handles, Forget(g) PROVE Excused(h)'
  BY <1>1, <1>7 DEF Forget, files, Typed, RowsOK
<1>8. CASE UNCHANGED vars
  BY <1>1, <1>8 DEF vars, rows, files
<1> QED
  BY <1>2, <1>3, <1>4, <1>5, <1>6, <1>7, <1>8 DEF Next

\* Ends and sweeps, repeated, late or cut short, leave an archived session
\* without rooms and tasks, but for what was given to it afterwards, what a
\* killed sweep left, and an end still to be repeated.
THEOREM ArchivedHoldNothing == Spec => []ArchivedHoldsNothing
<1>1. Init => ArchivedHoldsNothing
  BY DEF Init, ArchivedHoldsNothing
<1> QED
  BY <1>1, AlwaysTyped, ArchivedInductive, PTL DEF Spec

(***************************************************************************)
(* Places in a list.                                                       *)
(***************************************************************************)

\* How many places of ps come up to p.
PlaceIn(ps, p) == Cardinality({j \in ps : j <= p})

\* A later place counts more, and none more than there are.
LEMMA PlacesAscend ==
    ASSUME NEW n \in Nat, NEW ps \in SUBSET (1..n)
    PROVE  /\ IsFiniteSet(ps) /\ Cardinality(ps) \in Nat
           /\ \A p \in ps : PlaceIn(ps, p) \in 1..Cardinality(ps)
           /\ \A p, q \in ps : p < q => PlaceIn(ps, p) < PlaceIn(ps, q)
<1> DEFINE upTo(p) == {j \in ps : j <= p}
<1>0. ps \subseteq Nat
  OBVIOUS
<1>1. IsFiniteSet(ps) /\ Cardinality(ps) \in Nat
  <2>1. IsFiniteSet(1..n)
    BY FS_Interval
  <2> QED
    BY <2>1, FS_Subset, FS_CardinalityType
<1>2. ASSUME NEW p \in ps
      PROVE  /\ upTo(p) \in SUBSET ps /\ IsFiniteSet(upTo(p)) /\ p \in upTo(p)
             /\ Cardinality(upTo(p)) \in 1..Cardinality(ps)
  <2>1. upTo(p) \in SUBSET ps /\ p \in upTo(p)
    BY <1>0
  <2>2. IsFiniteSet(upTo(p)) /\ Cardinality(upTo(p)) <= Cardinality(ps)
    BY <1>1, <2>1, FS_Subset
  <2>3. Cardinality(upTo(p)) \in Nat /\ Cardinality(upTo(p)) # 0
    BY <2>1, <2>2, FS_CardinalityType, FS_EmptySet
  <2> QED
    BY <1>1, <2>1, <2>2, <2>3
<1>3. ASSUME NEW p \in ps, NEW q \in ps, p < q
      PROVE  Cardinality(upTo(p)) < Cardinality(upTo(q))
  <2>0. p \in Nat /\ q \in Nat /\ \A j \in ps : j \in Nat
    BY <1>0
  <2>1. upTo(p) \in SUBSET upTo(q) /\ q \notin upTo(p) /\ q \in upTo(q)
    <3>1. \A j \in ps : j <= p => j <= q
      BY <1>3, <2>0
    <3>2. ~ (q <= p) /\ q <= q
      BY <1>3, <2>0
    <3> QED
      BY <3>1, <3>2
  <2>2. /\ Cardinality(upTo(p)) <= Cardinality(upTo(q))
        /\ Cardinality(upTo(p)) # Cardinality(upTo(q))
    BY <1>2, <2>1, FS_Subset
  <2> QED
    BY <1>2, <2>2
<1> QED
  BY <1>1, <1>2, <1>3 DEF PlaceIn

\* Counting along ps visits each of its places once, in order.
Along(ps) == [i \in 1..Cardinality(ps) |-> CHOOSE p \in ps : PlaceIn(ps, p) = i]

LEMMA AlongVisits ==
    ASSUME NEW n \in Nat, NEW ps \in SUBSET (1..n)
    PROVE  /\ IsFiniteSet(ps) /\ Cardinality(ps) \in Nat
           /\ Along(ps) \in [1..Cardinality(ps) -> ps]
           /\ \A i, j \in 1..Cardinality(ps) : i < j => Along(ps)[i] < Along(ps)[j]
           /\ \A p \in ps : \E i \in 1..Cardinality(ps) : Along(ps)[i] = p
<1> DEFINE c == Cardinality(ps)
           R == [p \in ps |-> PlaceIn(ps, p)]
<1>0. ps \subseteq Nat
  OBVIOUS
<1>1. /\ IsFiniteSet(ps) /\ c \in Nat
      /\ \A p \in ps : PlaceIn(ps, p) \in 1..c
      /\ \A p, q \in ps : p < q => PlaceIn(ps, p) < PlaceIn(ps, q)
  BY PlacesAscend
<1>2. R \in Injection(ps, 1..c)
  <2>1. R \in [ps -> 1..c]
    BY <1>1
  <2>2. \A p, q \in ps : R[p] = R[q] => p = q
    <3> SUFFICES ASSUME NEW p \in ps, NEW q \in ps, R[p] = R[q], p # q PROVE FALSE
      OBVIOUS
    <3>1. p \in Nat /\ q \in Nat /\ PlaceIn(ps, p) = PlaceIn(ps, q) /\ PlaceIn(ps, p) \in Nat
      BY <1>0, <1>1
    <3>2. p < q \/ q < p
      BY <3>1
    <3> QED
      BY <1>1, <3>1, <3>2
  <2> QED
    BY <2>1, <2>2 DEF Injection, IsInjective
<1>3. R \in Surjection(ps, 1..c)
  <2>1. IsFiniteSet(1..c) /\ Cardinality(1..c) = c
    BY <1>1, FS_Interval
  <2> QED
    BY <1>2, <2>1, FS_Injection
<1>4. \A i \in 1..c : Along(ps)[i] \in ps /\ PlaceIn(ps, Along(ps)[i]) = i
  <2> SUFFICES ASSUME NEW i \in 1..c PROVE Along(ps)[i] \in ps /\ PlaceIn(ps, Along(ps)[i]) = i
    OBVIOUS
  <2>1. \E p \in ps : PlaceIn(ps, p) = i
    BY <1>3 DEF Surjection
  <2> QED
    BY <2>1 DEF Along
<1>5. Along(ps) \in [1..c -> ps]
  BY <1>4 DEF Along
<1>6. ASSUME NEW i \in 1..c, NEW j \in 1..c, i < j PROVE Along(ps)[i] < Along(ps)[j]
  <2>1. /\ Along(ps)[i] \in ps /\ Along(ps)[i] \in Nat /\ PlaceIn(ps, Along(ps)[i]) = i
        /\ Along(ps)[j] \in ps /\ Along(ps)[j] \in Nat /\ PlaceIn(ps, Along(ps)[j]) = j
    BY <1>0, <1>4
  <2>2. CASE Along(ps)[j] < Along(ps)[i]
    BY <1>1, <1>6, <2>1, <2>2
  <2>3. CASE Along(ps)[j] = Along(ps)[i]
    BY <1>6, <2>1, <2>3
  <2> QED
    BY <2>1, <2>2, <2>3
<1>7. ASSUME NEW p \in ps PROVE \E i \in 1..c : Along(ps)[i] = p
  <2> DEFINE i == PlaceIn(ps, p)
  <2>1. i \in 1..c
    BY <1>1
  <2>2. Along(ps)[i] \in ps /\ Along(ps)[i] \in Nat /\ p \in Nat /\ PlaceIn(ps, Along(ps)[i]) = i
    BY <1>0, <1>4, <2>1
  <2>3. ~ (Along(ps)[i] < p) /\ ~ (p < Along(ps)[i])
    BY <1>1, <2>1, <2>2
  <2>4. Along(ps)[i] = p
    BY <2>2, <2>3
  <2> QED
    BY <2>1, <2>4
<1> QED
  BY <1>1, <1>5, <1>6, <1>7

\* The greatest of some places is one of them.
LEMMA LastPlace ==
    ASSUME NEW n \in Nat, NEW ps \in SUBSET (1..n), ps # {}
    PROVE  Max(ps) \in ps /\ \A p \in ps : p <= Max(ps)
<1> DEFINE c == Cardinality(ps)
<1>0. ps \subseteq Nat
  OBVIOUS
<1>1. /\ c \in Nat /\ Along(ps) \in [1..c -> ps]
      /\ \A i, j \in 1..c : i < j => Along(ps)[i] < Along(ps)[j]
      /\ \A p \in ps : \E i \in 1..c : Along(ps)[i] = p
  BY AlongVisits
<1>2. c \in 1..c
  <2>1. PICK p \in ps : TRUE
    OBVIOUS
  <2>2. PICK i \in 1..c : Along(ps)[i] = p
    BY <1>1, <2>1
  <2> QED
    BY <1>1, <2>2
<1>3. \A p \in ps : p <= Along(ps)[c]
  <2> SUFFICES ASSUME NEW p \in ps PROVE p <= Along(ps)[c]
    OBVIOUS
  <2>1. PICK i \in 1..c : Along(ps)[i] = p
    BY <1>1
  <2>2. i < c \/ i = c
    BY <1>1
  <2>3. p \in Nat /\ Along(ps)[c] \in Nat
    BY <1>0, <1>1, <1>2
  <2> QED
    BY <1>1, <1>2, <2>1, <2>2, <2>3
<1>4. Along(ps)[c] \in ps
  BY <1>1, <1>2
<1>5. \E x \in ps : \A y \in ps : x >= y
  <2>1. \A y \in ps : Along(ps)[c] >= y
    BY <1>3, <1>4
  <2> QED
    BY <1>4, <2>1
<1> QED
  BY <1>5 DEF Max

(***************************************************************************)
(* Lines, and lists of lines thinned out.                                  *)
(***************************************************************************)

Line == {Title} \cup {Header(t) : t \in Tiers} \cup {Bullet(t, s) : t \in Tiers, s \in RecallLine}

LEMMA LinesApart ==
    /\ Tiers = {1, 2, 3} /\ Title \in Line
    /\ \A t \in Tiers : Header(t) \in Line
    /\ \A t \in Tiers, s \in RecallLine : Bullet(t, s) \in Line
    /\ \A l \in Line : /\ l.bullet \in BOOLEAN /\ l.tier \in 0..3
                       /\ l.bullet => l.tier \in Tiers /\ l.shown \in RecallLine
<1>1. Tiers = {1, 2, 3}
  BY DEF Tiers, Prefs, Lessons, Project
<1>2. ASSUME NEW l \in Line
      PROVE  /\ l.bullet \in BOOLEAN /\ l.tier \in 0..3
             /\ l.bullet => l.tier \in Tiers /\ l.shown \in RecallLine
  <2>1. ASSUME l = Title PROVE l.bullet \in BOOLEAN /\ ~ l.bullet /\ l.tier = 0
    BY <2>1 DEF Title
  <2>2. ASSUME NEW t \in Tiers, l = Header(t)
        PROVE  l.bullet \in BOOLEAN /\ ~ l.bullet /\ l.tier = t
    BY <2>2 DEF Header
  <2>3. ASSUME NEW t \in Tiers, NEW s \in RecallLine, l = Bullet(t, s)
        PROVE  l.bullet \in BOOLEAN /\ l.tier = t /\ l.shown = s
    BY <2>3 DEF Bullet
  <2>4. \/ l = Title \/ \E t \in Tiers : l = Header(t)
        \/ \E t \in Tiers, s \in RecallLine : l = Bullet(t, s)
    BY DEF Line
  <2>5. CASE \E t \in Tiers : l = Header(t)
    BY <1>1, <2>2, <2>5
  <2>6. CASE \E t \in Tiers, s \in RecallLine : l = Bullet(t, s)
    BY <1>1, <2>3, <2>6
  <2>7. CASE l = Title
    BY <2>1, <2>7
  <2> QED
    BY <2>4, <2>5, <2>6, <2>7
<1> QED
  BY <1>1, <1>2 DEF Line

\* The places of a list's bullets of one section.
In(ls, t) == {i \in DOMAIN ls : ls[i].bullet /\ ls[i].tier = t}

\* f is where the lines of ms, fewer but in the same order, stand in ls.
Thins(ls, ms, f) ==
    /\ f \in [DOMAIN ms -> DOMAIN ls]
    /\ \A i, j \in DOMAIN ms : i < j => f[i] < f[j]
    /\ \A i \in DOMAIN ms : ms[i] = ls[f[i]]

\* ... and those at ps all stand in ms.
Keeps(ls, ms, ps, f) ==
    Thins(ls, ms, f) /\ \A p \in ps : \E i \in DOMAIN ms : f[i] = p

LEMMA KeptThins ==
    ASSUME NEW S, NEW ls \in Seq(S), NEW ps \in SUBSET DOMAIN ls
    PROVE  /\ IsFiniteSet(ps) /\ Cardinality(ps) \in Nat
           /\ Kept(ls, ps) \in Seq(S) /\ Len(Kept(ls, ps)) = Cardinality(ps)
           /\ DOMAIN Kept(ls, ps) = 1..Cardinality(ps)
           /\ Keeps(ls, Kept(ls, ps), ps, Along(ps))
<1> DEFINE c == Cardinality(ps)
<1>1. Len(ls) \in Nat /\ DOMAIN ls = 1..Len(ls) /\ ls \in [1..Len(ls) -> S]
  BY LenProperties
<1>2. /\ IsFiniteSet(ps) /\ c \in Nat /\ Along(ps) \in [1..c -> ps]
      /\ \A i, j \in 1..c : i < j => Along(ps)[i] < Along(ps)[j]
      /\ \A p \in ps : \E i \in 1..c : Along(ps)[i] = p
  BY <1>1, AlongVisits
<1>3. Kept(ls, ps) = [i \in 1..c |-> ls[Along(ps)[i]]]
  BY DEF Kept, Along, PlaceIn
<1>4. \A i \in 1..c : ls[Along(ps)[i]] \in S
  BY <1>1, <1>2
<1>5. Kept(ls, ps) \in [1..c -> S]
  BY <1>3, <1>4
<1>6. Kept(ls, ps) \in Seq(S) /\ Len(Kept(ls, ps)) = c /\ DOMAIN Kept(ls, ps) = 1..c
  BY <1>2, <1>5
<1>7. Thins(ls, Kept(ls, ps), Along(ps))
  BY <1>1, <1>2, <1>3, <1>6 DEF Thins
<1> QED
  BY <1>2, <1>6, <1>7 DEF Keeps

LEMMA RemoveThins ==
    ASSUME NEW S, NEW ls \in Seq(S), NEW v \in DOMAIN ls
    PROVE  /\ RemoveAt(ls, v) \in Seq(S) /\ Len(RemoveAt(ls, v)) = Len(ls) - 1
           /\ \E f : /\ Keeps(ls, RemoveAt(ls, v), DOMAIN ls \ {v}, f)
                     /\ \A i \in DOMAIN RemoveAt(ls, v) : f[i] # v
<1> DEFINE n == Len(ls)
           a == SubSeq(ls, 1, v - 1)
           b == SubSeq(ls, v + 1, n)
           ms == RemoveAt(ls, v)
           f == [i \in DOMAIN ms |-> IF i < v THEN i ELSE i + 1]
<1>1. n \in Nat /\ DOMAIN ls = 1..n /\ v \in 1..n /\ ls \in [1..n -> S]
  BY LenProperties
<1>2. a \in Seq(S) /\ Len(a) = v - 1 /\ \A i \in 1..(v - 1) : a[i] = ls[i]
  <2>1. \A i \in 1..(v - 1) : ls[i] \in S
    BY <1>1
  <2>2. /\ a \in Seq(S) /\ Len(a) = IF 1 <= v - 1 THEN v - 1 - 1 + 1 ELSE 0
        /\ \A i \in 1..(v - 1 - 1 + 1) : a[i] = ls[1 + i - 1]
    <3>1. 1 \in Int /\ v - 1 \in Int
      BY <1>1
    <3> QED
      BY <2>1, <3>1, SubSeqProperties
  <2> QED
    BY <1>1, <2>2
<1>3. b \in Seq(S) /\ Len(b) = n - v /\ \A i \in 1..(n - v) : b[i] = ls[v + i]
  <2>1. \A i \in (v + 1)..n : ls[i] \in S
    BY <1>1
  <2>2. /\ b \in Seq(S) /\ Len(b) = IF v + 1 <= n THEN n - (v + 1) + 1 ELSE 0
        /\ \A i \in 1..(n - (v + 1) + 1) : b[i] = ls[v + 1 + i - 1]
    <3>1. n \in Int /\ v + 1 \in Int
      BY <1>1
    <3> QED
      BY <2>1, <3>1, SubSeqProperties
  <2> QED
    BY <1>1, <2>2
<1>4. ms = a \o b
  BY DEF RemoveAt
<1>5. /\ ms \in Seq(S) /\ Len(ms) = n - 1
      /\ \A i \in 1..(n - 1) : ms[i] = IF i <= v - 1 THEN a[i] ELSE b[i - (v - 1)]
  <2> HIDE DEF a, b, ms
  <2>1. Len(a) + Len(b) = n - 1 /\ Len(a) = v - 1
    BY <1>1, <1>2, <1>3
  <2>2. /\ a \o b \in Seq(S) /\ Len(a \o b) = Len(a) + Len(b)
        /\ \A i \in 1..Len(a) + Len(b) : (a \o b)[i] = IF i <= Len(a) THEN a[i] ELSE b[i - Len(a)]
    BY <1>2, <1>3, ConcatProperties
  <2> QED
    BY <1>4, <2>1, <2>2
<1>6. DOMAIN ms = 1..(n - 1)
  BY <1>5
<1> HIDE DEF a, b, ms
<1>7. \A i \in 1..(n - 1) : f[i] = (IF i < v THEN i ELSE i + 1) /\ f[i] \in 1..n /\ ms[i] = ls[f[i]]
  <2> SUFFICES ASSUME NEW i \in 1..(n - 1)
               PROVE  f[i] = (IF i < v THEN i ELSE i + 1) /\ f[i] \in 1..n /\ ms[i] = ls[f[i]]
    OBVIOUS
  <2>1. f[i] = IF i < v THEN i ELSE i + 1
    BY <1>6
  <2>2. CASE i < v
    <3>1. i \in 1..(v - 1)
      BY <1>1, <2>2
    <3> QED
      BY <1>1, <1>2, <1>5, <2>1, <2>2, <3>1
  <2>3. CASE ~ (i < v)
    <3>1. i - (v - 1) \in 1..(n - v) /\ v + (i - (v - 1)) = i + 1 /\ ~ (i <= v - 1)
      BY <1>1, <2>3
    <3>2. f[i] = i + 1 /\ i + 1 \in 1..n
      BY <1>1, <2>1, <2>3
    <3>3. ms[i] = b[i - (v - 1)]
      BY <1>5, <2>3, <3>1
    <3>4. b[i - (v - 1)] = ls[v + (i - (v - 1))]
      BY <1>3, <3>1
    <3> QED
      BY <2>3, <3>1, <3>2, <3>3, <3>4
  <2> QED
    BY <2>2, <2>3
<1>8. Thins(ls, ms, f)
  <2>1. f \in [DOMAIN ms -> DOMAIN ls]
    BY <1>1, <1>6, <1>7
  <2>2. \A i, j \in DOMAIN ms : i < j => f[i] < f[j]
    BY <1>1, <1>6, <1>7
  <2> QED
    BY <1>6, <1>7, <2>1, <2>2 DEF Thins
<1>9. \A i \in DOMAIN ms : f[i] # v
  BY <1>1, <1>6, <1>7
<1>10. ASSUME NEW p \in DOMAIN ls \ {v} PROVE \E i \in DOMAIN ms : f[i] = p
  <2>1. CASE p < v
    <3>1. p \in 1..(n - 1)
      BY <1>1, <2>1
    <3> QED
      BY <1>6, <1>7, <2>1, <3>1
  <2>2. CASE p > v
    <3>1. p - 1 \in 1..(n - 1) /\ ~ (p - 1 < v) /\ p - 1 + 1 = p
      BY <1>1, <2>2
    <3> QED
      BY <1>6, <1>7, <3>1
  <2> QED
    BY <1>1, <2>1, <2>2
<1> QED
  <2> HIDE DEF f
  <2> QED
    BY <1>5, <1>8, <1>9, <1>10 DEF ms, Keeps

(***************************************************************************)
(* What each section was given.                                            *)
(***************************************************************************)

NoRepeats(s) == \A i, j \in DOMAIN s : s[i] = s[j] => i = j

GivenOK == \A t \in Tiers : given[t] \in Seq(RecallLine) /\ NoRepeats(given[t])

LEMMA FreshIsGood ==
    ASSUME GivenOK, NEW t \in Tiers
    PROVE  fresh(t) \in Seq(RecallLine) /\ NoRepeats(fresh(t))
<1> DEFINE before == UNION {ToSet(given[u]) : u \in 1..(t - 1)}
           ps == {i \in DOMAIN given[t] : given[t][i] \notin before}
           f == Along(ps)
<1>1. given[t] \in Seq(RecallLine) /\ NoRepeats(given[t])
  BY DEF GivenOK
<1>2. fresh(t) = Kept(given[t], ps)
  BY DEF fresh
<1>3. ps \in SUBSET DOMAIN given[t]
  OBVIOUS
<1> HIDE DEF ps
<1>4. /\ Kept(given[t], ps) \in Seq(RecallLine) /\ Thins(given[t], Kept(given[t], ps), f)
      /\ DOMAIN Kept(given[t], ps) = 1..Cardinality(ps)
  BY <1>1, <1>3, KeptThins DEF Keeps
<1>5. ASSUME NEW i \in DOMAIN fresh(t), NEW j \in DOMAIN fresh(t), fresh(t)[i] = fresh(t)[j]
      PROVE  i = j
  <2>1. f[i] = f[j]
    BY <1>1, <1>2, <1>4, <1>5 DEF Thins, NoRepeats
  <2>2. i \in Nat /\ j \in Nat /\ f[i] \in DOMAIN given[t] /\ f[j] \in DOMAIN given[t]
    BY <1>2, <1>4 DEF Thins
  <2>3. f[i] \in Nat
    BY <1>1, <2>2, LenProperties
  <2>4. ~ (i < j) /\ ~ (j < i)
    BY <1>2, <1>4, <2>1, <2>3 DEF Thins
  <2> QED
    BY <2>2, <2>4
<1> QED
  BY <1>2, <1>4, <1>5 DEF NoRepeats

LEMMA RecallIsGood ==
    ASSUME ranking \in [Tiers -> SetToSeqs(Known)], NEW q \in Tiers
    PROVE  recall(q) \in Seq(RecallLine) /\ NoRepeats(recall(q))
<1> DEFINE k == IF Depth(q) < Cardinality(Known) THEN Depth(q) ELSE Cardinality(Known)
<1>1. Cardinality(Known) \in Nat /\ Depth(q) \in Nat
  BY DigestConstants, FS_CardinalityType DEF Depth
<1>2. k \in Nat /\ k <= Cardinality(Known)
  BY <1>1
<1>3. /\ ranking[q] \in [1..Cardinality(Known) -> Known]
      /\ \A i, j \in 1..Cardinality(Known) : i # j => ranking[q][i] # ranking[q][j]
  BY DEF SetToSeqs
<1>4. recall(q) = [i \in 1..k |-> [fact |-> ranking[q][i],
                                   score |-> IF ranking[q][i] \in alike THEN 0 ELSE q]]
  BY DEF recall
<1> HIDE DEF k
<1>5. 1..k \subseteq 1..Cardinality(Known)
  BY <1>1, <1>2
<1>6. \A i \in 1..k : recall(q)[i] \in RecallLine /\ recall(q)[i].fact = ranking[q][i]
  BY <1>3, <1>4, <1>5 DEF RecallLine
<1>7. recall(q) \in Seq(RecallLine) /\ DOMAIN recall(q) = 1..k
  <2>1. DOMAIN recall(q) = 1..k
    BY <1>4
  <2>2. recall(q) \in [1..k -> RecallLine]
    BY <1>4, <1>6
  <2> QED
    BY <1>2, <2>1, <2>2
<1>8. NoRepeats(recall(q))
  BY <1>3, <1>5, <1>6, <1>7 DEF NoRepeats
<1> QED
  BY <1>7, <1>8

(***************************************************************************)
(* Evicting a line.                                                        *)
(***************************************************************************)

\* No header without a fact under it.
NoBare(ls) == \A i \in DOMAIN ls : ls[i].tier # 0 /\ ~ ls[i].bullet => i < Len(ls) /\ ls[i + 1].bullet

\* ms is ls without the line v and some headers, f says where its lines stood.
Evicts(ls, ms, v, f) ==
    /\ Thins(ls, ms, f)
    /\ \A i \in DOMAIN ms : f[i] # v
    /\ \A p \in DOMAIN ls : ls[p].bullet /\ p # v => \E i \in DOMAIN ms : f[i] = p

LEMMA EvictionThins ==
    ASSUME NEW ls \in Seq(Line), NEW v \in DOMAIN ls
    PROVE  LET ms == DropBareHeaders(RemoveAt(ls, v))
           IN  /\ ms \in Seq(Line) /\ NoBare(ms)
               /\ \E f : Evicts(ls, ms, v, f)
<1> DEFINE rs == RemoveAt(ls, v)
           ps == {i \in DOMAIN rs : rs[i].bullet \/ rs[i].tier = 0 \/ (i < Len(rs) /\ rs[i + 1].bullet)}
           h  == Along(ps)
           ms == DropBareHeaders(rs)
<1>1. rs \in Seq(Line) /\ Len(rs) = Len(ls) - 1
  BY RemoveThins
<1>0. PICK g :
      Keeps(ls, rs, DOMAIN ls \ {v}, g) /\ \A i \in DOMAIN rs : g[i] # v
  BY RemoveThins
<1>2. ms = Kept(rs, ps)
  BY DEF DropBareHeaders
<1> DEFINE f == [i \in DOMAIN ms |-> g[h[i]]]
<1> HIDE DEF rs, ms
<1>3. ps \in SUBSET DOMAIN rs
  OBVIOUS
<1>4. /\ ms \in Seq(Line) /\ Len(ms) = Cardinality(ps) /\ DOMAIN ms = 1..Cardinality(ps)
      /\ Cardinality(ps) \in Nat /\ Thins(rs, ms, h)
      /\ \A p \in ps : \E i \in DOMAIN ms : h[i] = p
      /\ h \in [1..Cardinality(ps) -> ps]
  <2> HIDE DEF ps
  <2>1. DOMAIN rs = 1..Len(rs) /\ Len(rs) \in Nat
    BY <1>1, LenProperties
  <2>2. /\ Kept(rs, ps) \in Seq(Line) /\ Len(Kept(rs, ps)) = Cardinality(ps)
        /\ DOMAIN Kept(rs, ps) = 1..Cardinality(ps) /\ Cardinality(ps) \in Nat
        /\ Keeps(rs, Kept(rs, ps), ps, Along(ps))
    BY <1>1, <1>3, KeptThins
  <2>3. Along(ps) \in [1..Cardinality(ps) -> ps]
    BY <1>3, <2>1, AlongVisits
  <2> QED
    BY <1>2, <2>2, <2>3 DEF Keeps
<1>5. \A i \in DOMAIN rs : i \in Nat
  BY <1>1, LenProperties
<1>6. NoBare(ms)
  <2> SUFFICES ASSUME NEW i \in DOMAIN ms, ms[i].tier # 0, ~ ms[i].bullet
               PROVE  i < Len(ms) /\ ms[i + 1].bullet
    BY DEF NoBare
  <2>1. h[i] \in ps /\ ms[i] = rs[h[i]] /\ h[i] \in Nat
    BY <1>3, <1>4, <1>5 DEF Thins
  <2>2. h[i] < Len(rs) /\ rs[h[i] + 1].bullet
    BY <2>1
  <2>3. h[i] + 1 \in ps
    <3>1. h[i] + 1 \in DOMAIN rs
      <4>1. DOMAIN rs = 1..Len(rs) /\ Len(rs) \in Nat
        BY <1>1, LenProperties
      <4>2. h[i] \in Nat /\ h[i] < Len(rs)
        BY <2>1, <2>2
      <4> QED
        BY <4>1, <4>2
    <3> QED
      BY <2>2, <3>1
  <2>4. PICK k \in DOMAIN ms : h[k] = h[i] + 1
    BY <1>4, <2>3
  <2> HIDE DEF ps, h
  <2>5. i \in Nat /\ k \in Nat /\ i >= 1
    BY <1>4
  <2>6. i < k
    <3>1. k < i => h[k] < h[i]
      BY <1>4 DEF Thins
    <3> QED
      BY <2>1, <2>4, <2>5, <3>1
  <2>7. ~ (i + 1 < k)
    <3> SUFFICES ASSUME i + 1 < k PROVE FALSE
      OBVIOUS
    <3>1. i + 1 \in DOMAIN ms
      BY <1>4, <2>5
    <3>2. h[i] < h[i + 1] /\ h[i + 1] < h[k] /\ h[i + 1] \in Nat
      BY <1>3, <1>4, <1>5, <2>5, <3>1 DEF Thins
    <3> QED
      BY <2>1, <2>4, <3>2
  <2>8. k = i + 1
    BY <2>5, <2>6, <2>7
  <2> QED
    BY <1>4, <2>2, <2>4, <2>5, <2>8 DEF Thins
<1>7. Thins(ls, ms, f)
  <2> HIDE DEF ps, h
  <2>1. \A i \in DOMAIN ms : f[i] = g[h[i]] /\ h[i] \in DOMAIN rs /\ g[h[i]] \in DOMAIN ls
    BY <1>0, <1>1, <1>4 DEF Thins, Keeps
  <2>2. f \in [DOMAIN ms -> DOMAIN ls]
    BY <2>1
  <2>3. \A i, j \in DOMAIN ms : i < j => f[i] < f[j]
    BY <1>0, <1>1, <1>4, <2>1 DEF Thins, Keeps
  <2>4. \A i \in DOMAIN ms : ms[i] = ls[f[i]]
    BY <1>0, <1>1, <1>4, <2>1 DEF Thins, Keeps
  <2> HIDE DEF f
  <2> QED
    BY <2>2, <2>3, <2>4 DEF Thins, Keeps
<1>8. \A i \in DOMAIN ms : f[i] # v
  BY <1>0, <1>1, <1>4 DEF Thins, Keeps
<1>9. ASSUME NEW p \in DOMAIN ls, ls[p].bullet, p # v PROVE \E i \in DOMAIN ms : f[i] = p
  <2>1. PICK j \in DOMAIN rs : g[j] = p
    BY <1>0, <1>1, <1>9 DEF Keeps
  <2>2. rs[j].bullet
    BY <1>0, <1>1, <1>9, <2>1 DEF Thins, Keeps
  <2>3. j \in ps
    BY <2>2
  <2>4. PICK i \in DOMAIN ms : h[i] = j
    BY <1>4, <2>3
  <2> QED
    BY <2>1, <2>4
<1>10. Evicts(ls, ms, v, f)
  <2> HIDE DEF f
  <2> QED
    BY <1>7, <1>8, <1>9 DEF Evicts
<1> QED
  BY <1>4, <1>6, <1>10 DEF rs, ms

\* The bullets of a section stand in the order of what it was given.
Ranked(ls) ==
    \A t \in Tiers : \A p, q \in In(ls, t) : p < q =>
        \E a, b \in DOMAIN fresh(t) : /\ a < b /\ ls[p].shown = fresh(t)[a]
                                      /\ ls[q].shown = fresh(t)[b]

\* With a fact, a section shows the better ones.
Shows(ls, t, i) == \E p \in In(ls, t) : ls[p].shown = fresh(t)[i]
BestIn(ls) ==
    \A t \in Tiers : \A i, j \in DOMAIN fresh(t) : i < j /\ Shows(ls, t, j) => Shows(ls, t, i)

\* While a section that had facts shows none, no other shows two nor a later one any.
FairTo(ls) ==
    \A t, u \in Tiers : fresh(t) # <<>> /\ In(ls, t) = {} =>
        Cardinality(In(ls, u)) <= 1 /\ (u > t => In(ls, u) = {})

Laid(ls) == /\ ls \in Seq(Line) /\ NoBare(ls) /\ Ranked(ls) /\ BestIn(ls)
            /\ ls # <<>> => FairTo(ls)

LEMMA BulletPlaces ==
    ASSUME NEW ls \in Seq(Line), NEW t \in Tiers
    PROVE  /\ Len(ls) \in Nat /\ DOMAIN ls = 1..Len(ls) /\ In(ls, t) \in SUBSET (1..Len(ls))
           /\ IsFiniteSet(In(ls, t)) /\ Cardinality(In(ls, t)) \in Nat
           /\ Cardinality(In(ls, t)) = 0 <=> In(ls, t) = {}
<1>1. Len(ls) \in Nat /\ DOMAIN ls = 1..Len(ls) /\ In(ls, t) \in SUBSET (1..Len(ls))
  BY LenProperties DEF In
<1>2. IsFiniteSet(In(ls, t))
  <2>1. IsFiniteSet(1..Len(ls))
    BY <1>1, FS_Interval
  <2> QED
    BY <1>1, <2>1, FS_Subset
<1> QED
  BY <1>1, <1>2, FS_CardinalityType, FS_EmptySet

\* An eviction takes one bullet at most, and keeps the order of the rest.
LEMMA EvictionTakesOne ==
    ASSUME NEW ls \in Seq(Line), NEW ms \in Seq(Line), NEW v, NEW f, Evicts(ls, ms, v, f),
           NEW t \in Tiers
    PROVE  /\ \A i \in In(ms, t) : f[i] \in In(ls, t) \ {v} /\ ms[i] = ls[f[i]]
           /\ \A p \in In(ls, t) \ {v} : \E i \in In(ms, t) : f[i] = p /\ ms[i] = ls[p]
           /\ \A i, j \in In(ms, t) : i < j => f[i] < f[j]
           /\ Cardinality(In(ms, t)) =
                IF v \in In(ls, t) THEN Cardinality(In(ls, t)) - 1 ELSE Cardinality(In(ls, t))
<1>1. \A i \in In(ms, t) : f[i] \in In(ls, t) \ {v} /\ ms[i] = ls[f[i]]
  BY DEF Evicts, Thins, In
<1>2. ASSUME NEW p \in In(ls, t) \ {v}
      PROVE  \E i \in In(ms, t) : f[i] = p /\ ms[i] = ls[p]
  <2>1. PICK i \in DOMAIN ms : f[i] = p
    BY <1>2 DEF Evicts, In
  <2>2. ms[i] = ls[p]
    BY <2>1 DEF Evicts, Thins
  <2>3. i \in In(ms, t)
    BY <2>2 DEF In
  <2> QED
    BY <2>1, <2>2, <2>3
<1>3. \A i, j \in In(ms, t) : i < j => f[i] < f[j]
  BY DEF Evicts, Thins, In
<1>4. Cardinality(In(ms, t)) = Cardinality(In(ls, t) \ {v})
  <2> DEFINE b == [i \in In(ms, t) |-> f[i]]
  <2>1. b \in [In(ms, t) -> In(ls, t) \ {v}]
    BY <1>1
  <2>2. ASSUME NEW i \in In(ms, t), NEW j \in In(ms, t), b[i] = b[j] PROVE i = j
    <3>1. i \in Nat /\ j \in Nat
      BY BulletPlaces
    <3>2. f[i] = f[j] /\ f[i] \in Nat
      BY <1>1, <2>2, BulletPlaces
    <3>3. ~ (i < j) /\ ~ (j < i)
      BY <1>3, <3>2
    <3> QED
      BY <3>1, <3>3
  <2>3. \A p \in In(ls, t) \ {v} : \E i \in In(ms, t) : b[i] = p
    BY <1>2
  <2>4. b \in Bijection(In(ms, t), In(ls, t) \ {v})
    BY <2>1, <2>2, <2>3 DEF Bijection, Injection, Surjection, IsInjective
  <2>5. ExistsBijection(In(ms, t), In(ls, t) \ {v})
    BY <2>4 DEF ExistsBijection
  <2>6. IsFiniteSet(In(ms, t))
    BY BulletPlaces
  <2> QED
    BY <2>5, <2>6, FS_Bijection
<1>5. Cardinality(In(ls, t) \ {v}) =
        IF v \in In(ls, t) THEN Cardinality(In(ls, t)) - 1 ELSE Cardinality(In(ls, t))
  <2>1. IsFiniteSet(In(ls, t))
    BY BulletPlaces
  <2> QED
    BY <2>1, FS_RemoveElement
<1> QED
  BY <1>1, <1>2, <1>3, <1>4, <1>5

LEMMA EvictionKeepsRanks ==
    ASSUME NEW ls \in Seq(Line), NEW ms \in Seq(Line), NEW v, NEW f, Evicts(ls, ms, v, f),
           Ranked(ls)
    PROVE  Ranked(ms)
<1> SUFFICES ASSUME NEW t \in Tiers, NEW p \in In(ms, t), NEW q \in In(ms, t), p < q
             PROVE  \E a, b \in DOMAIN fresh(t) : /\ a < b /\ ms[p].shown = fresh(t)[a]
                                                  /\ ms[q].shown = fresh(t)[b]
  BY DEF Ranked
<1>1. /\ f[p] \in In(ls, t) /\ ms[p] = ls[f[p]]
      /\ f[q] \in In(ls, t) /\ ms[q] = ls[f[q]] /\ f[p] < f[q]
  BY EvictionTakesOne
<1> QED
  BY <1>1 DEF Ranked

\* v is the last bullet of the list's section, or there is no bullet at all.
LastOf(ls, v) ==
    \/ \A t \in Tiers : In(ls, t) = {}
    \/ \E t \in Tiers : v \in In(ls, t) /\ \A p \in In(ls, t) : p <= v

LEMMA EvictionKeepsBest ==
    ASSUME NEW ls \in Seq(Line), NEW ms \in Seq(Line), NEW v, NEW f, Evicts(ls, ms, v, f),
           Ranked(ls), BestIn(ls), LastOf(ls, v), GivenOK
    PROVE  BestIn(ms)
<1> SUFFICES ASSUME NEW t \in Tiers, NEW i \in DOMAIN fresh(t), NEW j \in DOMAIN fresh(t),
                    i < j, Shows(ms, t, j)
             PROVE  Shows(ms, t, i)
  BY DEF BestIn
<1>1. PICK p \in In(ls, t) \ {v} : ls[p].shown = fresh(t)[j]
  BY EvictionTakesOne DEF Shows
<1>2. Shows(ls, t, i)
  BY <1>1 DEF BestIn, Shows
<1>3. PICK q \in In(ls, t) : ls[q].shown = fresh(t)[i]
  BY <1>2 DEF Shows
<1>4. q # v
  <2> SUFFICES ASSUME q = v PROVE FALSE
    OBVIOUS
  <2>1. \A u \in Tiers : v \in In(ls, u) => u = t
    BY <1>3 DEF In
  <2>2. p \in Nat /\ v \in Nat /\ p <= v
    BY <1>3, <2>1, BulletPlaces DEF LastOf
  <2>3. p < v
    BY <1>1, <2>2
  <2>4. PICK a, b \in DOMAIN fresh(t) : a < b /\ ls[p].shown = fresh(t)[a] /\ ls[v].shown = fresh(t)[b]
    BY <1>1, <1>3, <2>3 DEF Ranked
  <2>5. a = j /\ b = i
    BY <1>1, <1>3, <2>4, FreshIsGood DEF NoRepeats
  <2>6. i \in Nat /\ j \in Nat
    BY FreshIsGood, LenProperties
  <2> QED
    BY <2>4, <2>5, <2>6
<1> QED
  BY <1>3, <1>4, EvictionTakesOne DEF Shows

\* The victim is of a section with the most and more than one, or else of the last with any.
Chosen(ls, v) ==
    \/ \A t \in Tiers : In(ls, t) = {}
    \/ \E t \in Tiers :
         /\ v \in In(ls, t) /\ \A p \in In(ls, t) : p <= v
         /\ \/ /\ Cardinality(In(ls, t)) > 1
               /\ \A u \in Tiers : Cardinality(In(ls, u)) <= Cardinality(In(ls, t))
            \/ \A u \in Tiers : Cardinality(In(ls, u)) <= 1 /\ (u > t => In(ls, u) = {})

LEMMA EvictionIsFair ==
    ASSUME NEW ls \in Seq(Line), NEW ms \in Seq(Line), NEW v, NEW f, Evicts(ls, ms, v, f),
           FairTo(ls), Chosen(ls, v)
    PROVE  FairTo(ms)
<1> SUFFICES ASSUME NEW t \in Tiers, NEW u \in Tiers, fresh(t) # <<>>, In(ms, t) = {}
             PROVE  Cardinality(In(ms, u)) <= 1 /\ (u > t => In(ms, u) = {})
  BY DEF FairTo
<1>1. \A w \in Tiers :
        /\ Cardinality(In(ms, w)) \in Nat /\ Cardinality(In(ls, w)) \in Nat
        /\ Cardinality(In(ms, w)) = 0 <=> In(ms, w) = {}
        /\ Cardinality(In(ls, w)) = 0 <=> In(ls, w) = {}
        /\ Cardinality(In(ms, w)) =
             IF v \in In(ls, w) THEN Cardinality(In(ls, w)) - 1 ELSE Cardinality(In(ls, w))
  <2> SUFFICES ASSUME NEW w \in Tiers
      PROVE  /\ Cardinality(In(ms, w)) \in Nat /\ Cardinality(In(ls, w)) \in Nat
             /\ Cardinality(In(ms, w)) = 0 <=> In(ms, w) = {}
             /\ Cardinality(In(ls, w)) = 0 <=> In(ls, w) = {}
             /\ Cardinality(In(ms, w)) =
                  IF v \in In(ls, w) THEN Cardinality(In(ls, w)) - 1 ELSE Cardinality(In(ls, w))
    OBVIOUS
  <2>1. Cardinality(In(ms, w)) \in Nat /\ (Cardinality(In(ms, w)) = 0 <=> In(ms, w) = {})
    BY BulletPlaces
  <2>2. Cardinality(In(ls, w)) \in Nat /\ (Cardinality(In(ls, w)) = 0 <=> In(ls, w) = {})
    BY BulletPlaces
  <2>3. Cardinality(In(ms, w)) =
          IF v \in In(ls, w) THEN Cardinality(In(ls, w)) - 1 ELSE Cardinality(In(ls, w))
    BY EvictionTakesOne
  <2> QED
    BY <2>1, <2>2, <2>3
<1>2. \A w \in Tiers : /\ Cardinality(In(ms, w)) <= Cardinality(In(ls, w))
                       /\ In(ls, w) = {} => In(ms, w) = {}
  BY <1>1
<1>3. CASE In(ls, t) = {}
  <2>1. Cardinality(In(ls, u)) <= 1 /\ (u > t => In(ls, u) = {})
    BY <1>3 DEF FairTo
  <2> QED
    BY <1>1, <1>2, <2>1
<1>4. CASE In(ls, t) # {}
  <2>1. v \in In(ls, t) /\ Cardinality(In(ls, t)) = 1
    BY <1>1, <1>4
  <2>2. \A w \in Tiers : v \in In(ls, w) => w = t
    BY <2>1 DEF In
  <2>3. Cardinality(In(ls, u)) <= 1 /\ (u > t => In(ls, u) = {})
    BY <1>4, <2>1, <2>2 DEF Chosen
  <2> QED
    BY <1>1, <1>2, <2>3
<1> QED
  BY <1>3, <1>4

\* The victim is a line of the digest, and so chosen.
LEMMA VictimIsChosen ==
    ASSUME digest \in Seq(Line), Len(digest) > 1
    PROVE  Victim \in DOMAIN digest /\ LastOf(digest, Victim) /\ Chosen(digest, Victim)
<1> DEFINE left    == {t \in Tiers : Count(t) > 0}
           fullest == {t \in left : \A u \in left : Count(u) <= Count(t)}
<1>1. \A t \in Tiers :
        /\ BulletsOf(t) = In(digest, t) /\ Count(t) = Cardinality(In(digest, t))
        /\ Count(t) \in Nat /\ (Count(t) = 0 <=> In(digest, t) = {})
        /\ Count(t) > 0 => Max(BulletsOf(t)) \in In(digest, t)
                           /\ \A p \in In(digest, t) : p <= Max(BulletsOf(t))
  <2> SUFFICES ASSUME NEW t \in Tiers
      PROVE  /\ BulletsOf(t) = In(digest, t) /\ Count(t) = Cardinality(In(digest, t))
             /\ Count(t) \in Nat /\ (Count(t) = 0 <=> In(digest, t) = {})
             /\ Count(t) > 0 => Max(BulletsOf(t)) \in In(digest, t)
                                /\ \A p \in In(digest, t) : p <= Max(BulletsOf(t))
    OBVIOUS
  <2>1. BulletsOf(t) = In(digest, t)
    BY DEF BulletsOf, In
  <2>2. Count(t) = Cardinality(In(digest, t))
    BY <2>1 DEF Count
  <2>3. /\ Len(digest) \in Nat /\ In(digest, t) \in SUBSET (1..Len(digest))
        /\ Count(t) \in Nat /\ (Count(t) = 0 <=> In(digest, t) = {})
    BY <2>2, BulletPlaces
  <2>4. ASSUME Count(t) > 0
        PROVE  Max(BulletsOf(t)) \in In(digest, t) /\ \A p \in In(digest, t) : p <= Max(BulletsOf(t))
    <3>1. In(digest, t) # {}
      BY <2>3, <2>4
    <3> QED
      BY <2>1, <2>3, <3>1, LastPlace
  <2> QED
    BY <2>1, <2>2, <2>3, <2>4
<1>2. left \subseteq Tiers /\ left \in SUBSET (1..3) /\ fullest \in SUBSET (1..3) /\ 3 \in Nat
  <2>1. Tiers = 1..3
    BY LinesApart
  <2> QED
    BY <2>1
<1>3. Victim = IF left = {} THEN Len(digest)
               ELSE IF \E t \in left : Count(t) > 1 THEN Max(BulletsOf(Max(fullest)))
               ELSE Max(BulletsOf(Max(left)))
  BY DEF Victim
<1>4. CASE left = {}
  <2>1. \A t \in Tiers : In(digest, t) = {}
    BY <1>1, <1>4
  <2>2. Victim = Len(digest) /\ Len(digest) \in DOMAIN digest
    BY <1>3, <1>4, LenProperties
  <2> QED
    BY <2>1, <2>2 DEF LastOf, Chosen
<1>5. ASSUME NEW t \in left, Victim = Max(BulletsOf(t)),
             \/ Count(t) > 1 /\ \A u \in Tiers : Count(u) <= Count(t)
             \/ \A u \in Tiers : Count(u) <= 1 /\ (u > t => Count(u) = 0)
      PROVE  Victim \in DOMAIN digest /\ LastOf(digest, Victim) /\ Chosen(digest, Victim)
  <2>1. t \in Tiers /\ Victim \in In(digest, t) /\ \A p \in In(digest, t) : p <= Victim
    BY <1>1, <1>5
  <2>2. Victim \in DOMAIN digest
    BY <2>1 DEF In
  <2>3. \/ /\ Cardinality(In(digest, t)) > 1
           /\ \A u \in Tiers : Cardinality(In(digest, u)) <= Cardinality(In(digest, t))
        \/ \A u \in Tiers : Cardinality(In(digest, u)) <= 1 /\ (u > t => In(digest, u) = {})
    BY <1>1, <1>5, <2>1
  <2> QED
    BY <2>1, <2>2, <2>3 DEF LastOf, Chosen
<1>6. CASE left # {} /\ \E t \in left : Count(t) > 1
  <2>1. fullest # {}
    <3>1. \A t \in left : Count(t) \in Nat
      BY <1>1, <1>2
    <3>2. \E t \in left : \A u \in left : Count(u) <= Count(t)
      <4> HIDE DEF left
      <4> SUFFICES ASSUME \A t \in left : \E u \in left : Count(u) > Count(t) PROVE FALSE
        BY <3>1
      <4>1. PICK t1 \in left : TRUE
        BY <1>6
      <4>2. PICK t2 \in left : Count(t2) > Count(t1)
        OBVIOUS
      <4>3. PICK t3 \in left : Count(t3) > Count(t2)
        OBVIOUS
      <4>4. PICK t4 \in left : Count(t4) > Count(t3)
        OBVIOUS
      <4>5. Count(t1) \in Nat /\ Count(t2) \in Nat /\ Count(t3) \in Nat /\ Count(t4) \in Nat
        BY <3>1
      <4>6. t1 # t2 /\ t1 # t3 /\ t1 # t4 /\ t2 # t3 /\ t2 # t4 /\ t3 # t4
        BY <4>2, <4>3, <4>4, <4>5
      <4>7. \A t \in left : t = 1 \/ t = 2 \/ t = 3
        BY <1>2
      <4> QED
        BY <4>6, <4>7
    <3> QED
      BY <3>2
  <2>2. Max(fullest) \in fullest
    BY <1>2, <2>1, LastPlace
  <2>3. \A u \in Tiers : Count(u) <= Count(Max(fullest))
    BY <1>1, <2>2
  <2>4. Count(Max(fullest)) > 1
    BY <1>1, <1>2, <1>6, <2>2, <2>3
  <2> QED
    BY <1>3, <1>5, <1>6, <2>2, <2>3, <2>4
<1>7. CASE left # {} /\ ~ \E t \in left : Count(t) > 1
  <2>1. Max(left) \in left /\ \A u \in left : u <= Max(left)
    BY <1>2, <1>7, LastPlace
  <2>2. ASSUME NEW u \in Tiers PROVE Count(u) <= 1 /\ (u > Max(left) => Count(u) = 0)
    <3>1. Count(u) \in Nat /\ u \in Nat /\ Max(left) \in Nat
      BY <1>1, <1>2, <2>1, LinesApart
    <3> QED
      BY <1>7, <2>1, <3>1
  <2>3. Victim = Max(BulletsOf(Max(left)))
    BY <1>3, <1>7
  <2> QED
    BY <1>5, <2>1, <2>2, <2>3
<1> QED
  BY <1>4, <1>6, <1>7

(***************************************************************************)
(* Putting the sections together.                                          *)
(***************************************************************************)

\* The sections up to k stand in ls, each with all it was given.
Whole(ls, k) ==
    /\ ls \in Seq(Line) /\ NoBare(ls) /\ Ranked(ls)
    /\ \A i \in DOMAIN ls : ls[i].tier <= k
    /\ \A t \in Tiers : t <= k => \A a \in DOMAIN fresh(t) : Shows(ls, t, a)

LEMMA SectionLines ==
    ASSUME GivenOK, NEW t \in Tiers, fresh(t) # <<>>
    PROVE  LET n == Len(fresh(t)) IN
           /\ n \in Nat \ {0} /\ DOMAIN fresh(t) = 1..n
           /\ Section(t) \in Seq(Line) /\ Len(Section(t)) = n + 1
           /\ Section(t)[1] = Header(t)
           /\ \A a \in 1..n : Section(t)[a + 1] = Bullet(t, fresh(t)[a])
<1> DEFINE n == Len(fresh(t))
           bs == [i \in DOMAIN fresh(t) |-> Bullet(t, fresh(t)[i])]
           hs == <<Header(t)>>
<1>1. fresh(t) \in Seq(RecallLine) /\ n \in Nat /\ DOMAIN fresh(t) = 1..n
  BY FreshIsGood, LenProperties
<1>2. n # 0
  BY <1>1, EmptySeq
<1>3. \A i \in 1..n : bs[i] = Bullet(t, fresh(t)[i]) /\ bs[i] \in Line
  BY <1>1, LinesApart
<1>4. bs \in Seq(Line) /\ Len(bs) = n
  <2>1. bs \in [1..n -> Line]
    BY <1>1, <1>3
  <2>2. DOMAIN bs = 1..n
    BY <1>1
  <2> HIDE DEF bs
  <2> QED
    BY <1>1, <2>1, <2>2
<1>5. hs \in Seq(Line) /\ Len(hs) = 1 /\ hs[1] = Header(t)
  BY LinesApart
<1>6. Section(t) = hs \o bs
  BY DEF Section
<1> HIDE DEF bs, hs
<1>7. /\ hs \o bs \in Seq(Line) /\ Len(hs \o bs) = 1 + n
      /\ \A i \in 1..(1 + n) : (hs \o bs)[i] = IF i <= 1 THEN hs[i] ELSE bs[i - 1]
  <2>1. /\ hs \o bs \in Seq(Line) /\ Len(hs \o bs) = Len(hs) + Len(bs)
        /\ \A i \in 1..Len(hs) + Len(bs) : (hs \o bs)[i] = IF i <= Len(hs) THEN hs[i] ELSE bs[i - Len(hs)]
    BY <1>4, <1>5, ConcatProperties
  <2> QED
    BY <1>4, <1>5, <2>1
<1>8. ASSUME NEW a \in 1..n PROVE Section(t)[a + 1] = Bullet(t, fresh(t)[a])
  <2>1. a + 1 \in 1..(1 + n) /\ ~ (a + 1 <= 1) /\ a + 1 - 1 = a
    BY <1>1
  <2> QED
    BY <1>3, <1>6, <1>7, <2>1
<1> QED
  BY <1>1, <1>2, <1>5, <1>6, <1>7, <1>8

LEMMA SectionAppends ==
    ASSUME GivenOK, NEW t \in Tiers, NEW ls, Whole(ls, t - 1)
    PROVE  Whole(ls \o Section(t), t)
<1>1. t \in Nat /\ \A u \in Tiers : u \in Nat
  BY LinesApart
<1>2. ls \in Seq(Line) /\ Len(ls) \in Nat /\ DOMAIN ls = 1..Len(ls)
  BY LenProperties DEF Whole
<1>3. \A i \in DOMAIN ls : ls[i] \in Line /\ ls[i].tier \in Nat /\ ls[i].tier < t
  <2> SUFFICES ASSUME NEW i \in DOMAIN ls PROVE ls[i] \in Line /\ ls[i].tier \in Nat /\ ls[i].tier < t
    OBVIOUS
  <2>1. ls[i] \in Line /\ ls[i].tier <= t - 1
    BY <1>2, ElementOfSeq DEF Whole
  <2> QED
    BY <1>1, <2>1, LinesApart
<1>4. CASE fresh(t) = <<>>
  <2>1. ls \o Section(t) = ls
    BY <1>2, <1>4, ConcatEmptySeq DEF Section
  <2>2. \A i \in DOMAIN ls : ls[i].tier <= t
    BY <1>1, <1>3
  <2>3. ASSUME NEW u \in Tiers, u <= t, NEW a \in DOMAIN fresh(u) PROVE Shows(ls, u, a)
    <3>1. u # t
      BY <1>4, <2>3
    <3>2. u <= t - 1
      BY <1>1, <2>3, <3>1
    <3> QED
      BY <2>3, <3>2 DEF Whole
  <2> QED
    BY <2>1, <2>2, <2>3 DEF Whole
<1>5. CASE fresh(t) # <<>>
  <2> DEFINE m == Len(ls)
             n == Len(fresh(t))
             ms == ls \o Section(t)
  <2>1. /\ n \in Nat \ {0} /\ DOMAIN fresh(t) = 1..n
        /\ Section(t) \in Seq(Line) /\ Len(Section(t)) = n + 1
        /\ Section(t)[1] = Header(t)
        /\ \A a \in 1..n : Section(t)[a + 1] = Bullet(t, fresh(t)[a])
    BY <1>5, SectionLines
  <2>2. /\ ms \in Seq(Line) /\ Len(ms) = m + (n + 1)
        /\ \A i \in 1..(m + (n + 1)) : ms[i] = IF i <= m THEN ls[i] ELSE Section(t)[i - m]
    <3>1. /\ ms \in Seq(Line) /\ Len(ms) = m + Len(Section(t))
          /\ \A i \in 1..(m + Len(Section(t))) : ms[i] = IF i <= m THEN ls[i] ELSE Section(t)[i - m]
      BY <1>2, <2>1, ConcatProperties
    <3> QED
      BY <2>1, <3>1
  <2>3. DOMAIN ms = 1..(m + n + 1)
    <3>1. DOMAIN ms = 1..Len(ms)
      BY <2>2, LenProperties
    <3> QED
      BY <1>2, <2>1, <2>2, <3>1
  <2> HIDE DEF ms, m, n
  <2>4. m \in Nat
    BY <1>2 DEF m
  <2>5. \A i \in 1..m : ms[i] = ls[i] /\ i \in DOMAIN ls
    BY <1>2, <2>1, <2>2, <2>4 DEF m
  <2>6. ms[m + 1] = Header(t) /\ ms[m + 1].tier = t /\ ~ ms[m + 1].bullet
    <3>1. ms[m + 1] = Header(t)
      <4>1. m + 1 \in 1..(m + (n + 1)) /\ ~ (m + 1 <= m) /\ m + 1 - m = 1
        BY <2>1, <2>4
      <4>2. ms[m + 1] = Section(t)[m + 1 - m]
        BY <2>1, <2>2, <2>4, <4>1
      <4> QED
        BY <2>1, <4>1, <4>2
    <3> QED
      BY <3>1 DEF Header
  <2>7. ASSUME NEW a \in 1..n
        PROVE  /\ m + 1 + a \in DOMAIN ms /\ ms[m + 1 + a].bullet
               /\ ms[m + 1 + a].tier = t /\ ms[m + 1 + a].shown = fresh(t)[a]
    <3>1. ms[m + 1 + a] = Bullet(t, fresh(t)[a])
      <4>1. m + 1 + a \in 1..(m + (n + 1)) /\ ~ (m + 1 + a <= m) /\ m + 1 + a - m = a + 1
        BY <2>1, <2>4
      <4>2. ms[m + 1 + a] = Section(t)[m + 1 + a - m]
        BY <2>1, <2>2, <2>4, <4>1
      <4> QED
        BY <2>1, <4>1, <4>2
    <3>2. m + 1 + a \in DOMAIN ms
      BY <2>1, <2>3, <2>4
    <3> QED
      BY <3>1, <3>2 DEF Bullet
  <2>8. ASSUME NEW i \in DOMAIN ms
        PROVE  i \in 1..m \/ i = m + 1 \/ \E a \in 1..n : i = m + 1 + a
    <3>1. i \in Nat /\ 1 <= i /\ i <= m + n + 1
      BY <2>1, <2>3, <2>4
    <3>2. CASE i > m + 1
      <4>1. i - m - 1 \in 1..n /\ i = m + 1 + (i - m - 1)
        BY <2>1, <2>4, <3>1, <3>2
      <4> QED
        BY <4>1
    <3> QED
      BY <2>4, <3>1, <3>2
  <2>9. In(ms, t) = {m + 1 + a : a \in 1..n}
    <3>1. ASSUME NEW i \in In(ms, t) PROVE \E a \in 1..n : i = m + 1 + a
      <4>1. i \in DOMAIN ms /\ ms[i].bullet /\ ms[i].tier = t
        BY <3>1 DEF In
      <4>2. i \notin 1..m
        BY <1>3, <2>5, <4>1
      <4> QED
        BY <2>6, <2>8, <4>1, <4>2
    <3>2. ASSUME NEW a \in 1..n PROVE m + 1 + a \in In(ms, t)
      BY <2>7 DEF In
    <3> QED
      BY <3>1, <3>2
  <2>10. ASSUME NEW u \in Tiers, u # t PROVE In(ms, u) = In(ls, u)
    <3>1. ASSUME NEW i \in In(ms, u) PROVE i \in In(ls, u)
      <4>1. i \in DOMAIN ms /\ ms[i].bullet /\ ms[i].tier = u
        BY <3>1 DEF In
      <4>2. i \in 1..m
        BY <2>6, <2>7, <2>8, <2>10, <4>1
      <4> QED
        BY <2>5, <4>1, <4>2 DEF In
    <3>2. ASSUME NEW i \in In(ls, u) PROVE i \in In(ms, u)
      <4>1. i \in DOMAIN ls /\ ls[i].bullet /\ ls[i].tier = u
        BY <3>2 DEF In
      <4>2. i \in 1..m /\ i \in DOMAIN ms
        BY <1>2, <2>1, <2>3, <2>4, <4>1 DEF m
      <4> QED
        BY <2>5, <4>1, <4>2 DEF In
    <3> QED
      BY <3>1, <3>2
  <2>11. NoBare(ms)
    <3> SUFFICES ASSUME NEW i \in DOMAIN ms, ms[i].tier # 0, ~ ms[i].bullet
                 PROVE  i < Len(ms) /\ ms[i + 1].bullet
      BY DEF NoBare
    <3>1. CASE i \in 1..m
      <4>1. i \in DOMAIN ls /\ ls[i].tier # 0 /\ ~ ls[i].bullet
        BY <2>5, <3>1
      <4>2. i < m /\ ls[i + 1].bullet
        BY <4>1 DEF Whole, NoBare, m
      <4>3. i + 1 \in 1..m
        BY <2>4, <3>1, <4>2
      <4> QED
        BY <2>1, <2>2, <2>4, <2>5, <3>1, <4>2, <4>3
    <3>2. CASE i = m + 1
      <4>1. 1 \in 1..n /\ m + 1 + 1 = i + 1 /\ i < m + (n + 1)
        BY <2>1, <2>4, <3>2
      <4> QED
        BY <2>2, <2>7, <4>1
    <3> QED
      BY <2>7, <2>8, <3>1, <3>2
  <2>12. Ranked(ms)
    <3> SUFFICES ASSUME NEW u \in Tiers, NEW p \in In(ms, u), NEW q \in In(ms, u), p < q
                 PROVE  \E a, b \in DOMAIN fresh(u) : /\ a < b /\ ms[p].shown = fresh(u)[a]
                                                      /\ ms[q].shown = fresh(u)[b]
      BY DEF Ranked
    <3>1. CASE u = t
      <4>1. PICK a \in 1..n : p = m + 1 + a
        BY <2>9, <3>1
      <4>2. PICK b \in 1..n : q = m + 1 + b
        BY <2>9, <3>1
      <4>3. a < b
        BY <2>1, <2>4, <4>1, <4>2
      <4>4. a \in DOMAIN fresh(t) /\ b \in DOMAIN fresh(t)
        BY <2>1
      <4>5. ms[p].shown = fresh(t)[a] /\ ms[q].shown = fresh(t)[b]
        BY <2>7, <4>1, <4>2
      <4> QED
        BY <3>1, <4>3, <4>4, <4>5
    <3>2. CASE u # t
      <4>1. p \in In(ls, u) /\ q \in In(ls, u) /\ p \in 1..m /\ q \in 1..m
        BY <1>2, <2>10, <3>2 DEF In, m
      <4>2. ms[p] = ls[p] /\ ms[q] = ls[q]
        BY <2>5, <4>1
      <4> QED
        BY <4>1, <4>2 DEF Whole, Ranked
    <3> QED
      BY <3>1, <3>2
  <2>13. ASSUME NEW i \in DOMAIN ms PROVE ms[i].tier <= t
    <3>1. CASE i \in 1..m
      BY <1>1, <1>3, <2>5, <3>1
    <3>2. CASE i = m + 1
      BY <1>1, <2>6, <3>2
    <3>3. CASE \E a \in 1..n : i = m + 1 + a
      BY <1>1, <2>7, <3>3
    <3> QED
      BY <2>8, <3>1, <3>2, <3>3
  <2>14. ASSUME NEW u \in Tiers, u <= t, NEW a \in DOMAIN fresh(u) PROVE Shows(ms, u, a)
    <3>1. CASE u = t
      <4>1. a \in 1..n /\ m + 1 + a \in In(ms, t)
        BY <2>1, <2>9, <2>14, <3>1
      <4>2. ms[m + 1 + a].shown = fresh(t)[a]
        BY <2>7, <4>1
      <4> QED
        BY <3>1, <4>1, <4>2 DEF Shows
    <3>2. CASE u # t
      <4>1. u <= t - 1
        BY <1>1, <2>14, <3>2
      <4>2. PICK p \in In(ls, u) : ls[p].shown = fresh(u)[a]
        BY <2>14, <4>1 DEF Whole, Shows
      <4>3. p \in In(ms, u) /\ p \in 1..m
        BY <1>2, <2>10, <3>2 DEF In, m
      <4> QED
        BY <2>5, <4>2, <4>3 DEF Shows
    <3> QED
      BY <3>1, <3>2
  <2>15. Whole(ms, t)
    BY <2>2, <2>11, <2>12, <2>13, <2>14 DEF Whole
  <2> QED
    BY <2>15 DEF ms
<1> QED
  BY <1>4, <1>5

(***************************************************************************)
(* The digest.                                                             *)
(***************************************************************************)

DigestInv ==
    /\ sizeOf \in [Known -> Sizes] /\ alike \subseteq Known
    /\ ranking \in [Tiers -> SetToSeqs(Known)]
    /\ asked \in 0..3 /\ phase \in {"recall", "build", "cut", "printed"}
    /\ phase = "recall" => asked < 3
    /\ given \in [Tiers -> Seq(RecallLine)] /\ GivenOK
    /\ phase \in {"recall", "build"} => digest = <<>>
    /\ Laid(digest) /\ FitsCap

LEMMA NothingIsLaid == Laid(<<>>) /\ Whole(<<Title>>, 0)
<1>1. <<>> \in Seq(Line) /\ \A t \in Tiers : In(<<>>, t) = {}
  BY EmptySeq DEF In
<1>2. Laid(<<>>)
  BY <1>1 DEF Laid, NoBare, Ranked, BestIn, Shows
<1>3. /\ <<Title>> \in Seq(Line) /\ Len(<<Title>>) = 1 /\ DOMAIN <<Title>> = {1}
      /\ <<Title>>[1] = Title /\ Title.tier = 0 /\ ~ Title.bullet
  BY LinesApart DEF Title
<1>4. \A t \in Tiers : In(<<Title>>, t) = {} /\ ~ (t <= 0)
  BY <1>3, LinesApart DEF In
<1>5. Whole(<<Title>>, 0)
  BY <1>3, <1>4 DEF Whole, NoBare, Ranked
<1> QED
  BY <1>2, <1>5

\* As long as no recall comes in, a digest laid out well stays so.
LEMMA LaidStays ==
    ASSUME given' = given, Laid(digest')
    PROVE  Laid(digest)'
<1>1. NoBare(digest)' = NoBare(digest')
  BY DEF NoBare
<1>2. Ranked(digest)' = Ranked(digest')
  BY DEF Ranked, In, fresh
<1>3. BestIn(digest)' = BestIn(digest')
  BY DEF BestIn, Shows, In, fresh
<1>4. FairTo(digest)' = FairTo(digest')
  BY DEF FairTo, In, fresh
<1> QED
  BY <1>1, <1>2, <1>3, <1>4 DEF Laid

LEMMA BuildLays ==
    ASSUME GivenOK, Build
    PROVE  Laid(digest')
<1>1. CASE \A t \in Tiers : fresh(t) = <<>>
  BY <1>1, NothingIsLaid DEF Build
<1>2. CASE ~ \A t \in Tiers : fresh(t) = <<>>
  <2>1. /\ Tiers = {1, 2, 3} /\ Prefs = 1 /\ Lessons = 2 /\ Project = 3
    BY LinesApart DEF Prefs, Lessons, Project
  <2>2. Whole(<<Title>> \o Section(1), 1)
    BY <2>1, NothingIsLaid, SectionAppends
  <2>3. Whole((<<Title>> \o Section(1)) \o Section(2), 2)
    BY <2>1, <2>2, SectionAppends
  <2>4. Whole(((<<Title>> \o Section(1)) \o Section(2)) \o Section(3), 3)
    BY <2>1, <2>3, SectionAppends
  <2>5. digest' = ((<<Title>> \o Section(1)) \o Section(2)) \o Section(3)
    BY <1>2, <2>1 DEF Build
  <2>6. Whole(digest', 3)
    BY <2>4, <2>5
  <2>7. \A t \in Tiers : \A a \in DOMAIN fresh(t) : Shows(digest', t, a)
    BY <2>1, <2>6 DEF Whole
  <2>8. BestIn(digest')
    BY <2>7 DEF BestIn
  <2>9. FairTo(digest')
    <3>1. ASSUME NEW t \in Tiers, fresh(t) # <<>> PROVE In(digest', t) # {}
      <4>1. 1 \in DOMAIN fresh(t)
        BY <3>1, SectionLines
      <4> QED
        BY <2>7, <4>1 DEF Shows
    <3> QED
      BY <3>1 DEF FairTo
  <2> QED
    BY <2>6, <2>8, <2>9 DEF Whole, Laid
<1> QED
  BY <1>1, <1>2

LEMMA EvictLays ==
    ASSUME GivenOK, Laid(digest), Evict
    PROVE  Laid(digest')
<1>1. digest \in Seq(Line) /\ Len(digest) > 1 /\ digest' = DropBareHeaders(RemoveAt(digest, Victim))
  BY DEF Laid, Evict
<1>2. Victim \in DOMAIN digest /\ LastOf(digest, Victim) /\ Chosen(digest, Victim)
  BY <1>1, VictimIsChosen
<1>3. digest' \in Seq(Line) /\ NoBare(digest') /\ \E f : Evicts(digest, digest', Victim, f)
  BY <1>1, <1>2, EvictionThins
<1>4. PICK f : Evicts(digest, digest', Victim, f)
  BY <1>3
<1>5. Ranked(digest')
  BY <1>1, <1>3, <1>4, EvictionKeepsRanks DEF Laid
<1>6. BestIn(digest')
  BY <1>1, <1>2, <1>3, <1>4, EvictionKeepsBest DEF Laid
<1>7. digest # <<>>
  BY <1>1
<1>8. FairTo(digest')
  BY <1>1, <1>2, <1>3, <1>4, <1>7, EvictionIsFair DEF Laid
<1> QED
  BY <1>3, <1>5, <1>6, <1>8 DEF Laid

LEMMA DigestInductive == DigestInv /\ [DigestNext]_digestVars => DigestInv'
<1> SUFFICES ASSUME DigestInv, [DigestNext]_digestVars PROVE DigestInv'
  OBVIOUS
<1>1. CASE Recalled
  <2> DEFINE q == Asking[asked']
  <2>1. asked < 3 /\ asked' = asked + 1 /\ asked' \in 1..3 /\ phase = "recall" /\ digest = <<>>
    BY <1>1 DEF DigestInv, Recalled
  <2>2. q \in Tiers
    BY <2>1, LinesApart DEF Asking, Prefs, Lessons, Project
  <2>3. given' = [given EXCEPT ![q] = recall(q)]
    BY <1>1 DEF Recalled
  <2>4. recall(q) \in Seq(RecallLine) /\ NoRepeats(recall(q))
    BY <2>2, RecallIsGood DEF DigestInv
  <2> HIDE DEF q
  <2>5. given' \in [Tiers -> Seq(RecallLine)]
    BY <2>2, <2>3, <2>4 DEF DigestInv
  <2>6. ASSUME NEW t \in Tiers PROVE given'[t] \in Seq(RecallLine) /\ NoRepeats(given'[t])
    BY <2>2, <2>3, <2>4 DEF DigestInv, GivenOK
  <2>7. GivenOK'
    BY <2>6 DEF GivenOK, NoRepeats
  <2>8. digest' = <<>> /\ Len(digest') = 0
    BY <1>1, <2>1 DEF Recalled
  <2>9. Laid(digest)'
    <3>1. Laid(<<>>)'
      BY NothingIsLaid, PTL
    <3> QED
      BY <2>8, <3>1
  <2>10. FitsCap'
    BY <2>8 DEF FitsCap
  <2>11. /\ phase' \in {"recall", "build"}
         /\ phase' = "recall" => asked' < 3
         /\ UNCHANGED <<sizeOf, ranking, alike>>
    BY <1>1, <2>1 DEF Recalled
  <2> QED
    BY <2>1, <2>5, <2>7, <2>8, <2>9, <2>10, <2>11 DEF DigestInv
<1>2. CASE RecallFails
  <2>1. asked < 3 /\ asked' = asked + 1 /\ asked' \in 1..3 /\ digest = <<>>
    BY <1>2 DEF DigestInv, RecallFails
  <2>2. given' = given /\ digest' = <<>> /\ Len(digest') = 0
    BY <1>2, <2>1 DEF RecallFails
  <2>3. Laid(digest)'
    BY <2>2, NothingIsLaid, LaidStays
  <2>4. GivenOK' /\ given' \in [Tiers -> Seq(RecallLine)]
    BY <2>2 DEF DigestInv, GivenOK
  <2>5. FitsCap'
    BY <2>2 DEF FitsCap
  <2>6. /\ phase' \in {"recall", "build", "printed"}
        /\ phase' = "recall" => asked' < 3
        /\ UNCHANGED <<sizeOf, ranking, alike>>
    BY <1>2, <2>1 DEF RecallFails
  <2> QED
    BY <2>1, <2>2, <2>3, <2>4, <2>5, <2>6 DEF DigestInv
<1>3. CASE Build \/ Evict
  <2>1. UNCHANGED <<sizeOf, ranking, alike, asked, given>> /\ phase' = "cut"
    BY <1>3 DEF Build, Evict
  <2>2. Laid(digest')
    BY <1>3, BuildLays, EvictLays DEF DigestInv
  <2>3. Laid(digest)'
    BY <2>1, <2>2, LaidStays
  <2>4. GivenOK' /\ given' \in [Tiers -> Seq(RecallLine)]
    BY <2>1 DEF DigestInv, GivenOK
  <2>5. FitsCap'
    BY <2>1 DEF FitsCap
  <2> QED
    BY <2>1, <2>3, <2>4, <2>5 DEF DigestInv
<1>4. CASE PrintDigest \/ UNCHANGED digestVars
  <2>1. UNCHANGED <<sizeOf, ranking, alike, asked, given, digest>>
    BY <1>4 DEF PrintDigest, digestVars
  <2>2. \/ phase' = "printed" /\ (Len(digest) <= 1 \/ TotalSize <= Cap)
        \/ phase' = phase
    BY <1>4 DEF PrintDigest, digestVars
  <2>3. Laid(digest)'
    BY <2>1, LaidStays DEF DigestInv
  <2>4. GivenOK' /\ given' \in [Tiers -> Seq(RecallLine)]
    BY <2>1 DEF DigestInv, GivenOK
  <2>5. TotalSize' = TotalSize
    BY <2>1 DEF TotalSize
  <2>6. Len(digest) \in Nat
    BY LenProperties DEF DigestInv, Laid
  <2>7. FitsCap'
    BY <2>1, <2>2, <2>5, <2>6 DEF DigestInv, FitsCap
  <2> QED
    BY <2>1, <2>2, <2>3, <2>4, <2>7 DEF DigestInv
<1> QED
  BY <1>1, <1>2, <1>3, <1>4 DEF DigestNext

LEMMA DigestAtFirst == DigestInit => DigestInv
<1> SUFFICES ASSUME DigestInit PROVE DigestInv
  OBVIOUS
<1>1. <<>> \in Seq(RecallLine) /\ NoRepeats(<<>>)
  BY EmptySeq DEF NoRepeats
<1>2. GivenOK
  BY <1>1 DEF DigestInit, GivenOK
<1> QED
  BY <1>1, <1>2, NothingIsLaid DEF DigestInit, DigestInv, FitsCap

\* The digest shows the best facts of every tier it was given, starves none for another,
\* heads no section with nothing under it, and is printed within the cap, for any facts,
\* sizes and rankings and whatever recall fails (hook.rs, build_digest).
THEOREM DigestIsFair == DigestSpec => []DigestSafety
<1>1. DigestInv => DigestSafety
  <2> SUFFICES ASSUME DigestInv PROVE DigestSafety
    OBVIOUS
  <2>1. digest \in Seq(Line) /\ Laid(digest)
    BY DEF DigestInv, Laid
  <2>2. \A t \in Tiers : BulletsOf(t) = In(digest, t) /\ Count(t) = Cardinality(In(digest, t))
    BY DEF BulletsOf, Count, In
  <2>3. DigestTypeOK
    <3>1. \A i \in DOMAIN digest : digest[i].bullet => digest[i].shown \in RecallLine
      <4>1. \A i \in DOMAIN digest : digest[i] \in Line
        BY <2>1, LenProperties, ElementOfSeq
      <4> QED
        BY <4>1, LinesApart
    <3> QED
      BY <3>1 DEF DigestInv, DigestTypeOK
  <2>4. BestStay
    <3> SUFFICES ASSUME NEW t \in Tiers, NEW i \in DOMAIN fresh(t), NEW j \in DOMAIN fresh(t),
                        i < j, fresh(t)[j] \in ShownOf(t)
                 PROVE  fresh(t)[i] \in ShownOf(t)
      BY DEF BestStay
    <3>1. ShownOf(t) = {digest[p].shown : p \in In(digest, t)}
      BY <2>2 DEF ShownOf
    <3>2. Shows(digest, t, j)
      BY <3>1 DEF Shows
    <3>3. Shows(digest, t, i)
      BY <2>1, <3>2 DEF Laid, BestIn
    <3> QED
      BY <3>1, <3>3 DEF Shows
  <2>5. TiersShare
    <3> SUFFICES ASSUME digest # <<>>, NEW t \in Tiers, NEW u \in Tiers,
                        fresh(t) # <<>>, ShownOf(t) = {}
                 PROVE  Count(u) <= 1 /\ (u > t => Count(u) = 0)
      BY DEF TiersShare
    <3>1. In(digest, t) = {}
      BY <2>2 DEF ShownOf
    <3>2. Cardinality(In(digest, u)) <= 1 /\ (u > t => In(digest, u) = {})
      BY <2>1, <3>1 DEF Laid, FairTo
    <3> QED
      BY <2>2, <3>2, FS_EmptySet
  <2>6. NoEmptyHeader
    BY <2>1 DEF Laid, NoBare, NoEmptyHeader
  <2> QED
    BY <2>3, <2>4, <2>5, <2>6 DEF DigestInv, DigestSafety
<1> QED
  BY <1>1, DigestAtFirst, DigestInductive, PTL DEF DigestSpec
=============================================================================
