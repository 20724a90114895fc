------------------------------ MODULE DaemonProofs ------------------------------
(***************************************************************************)
(* What holds of the daemon's smaller state machines, for every value of   *)
(* their constants: its start, the picking and the switching of accounts,  *)
(* the decision of a proposal and what an approval stores, the telling of  *)
(* deaf sessions, and the nights.                                          *)
(***************************************************************************)
EXTENDS StartUp, AccountPicker, Accounts, MemoryCuration, Supervision, Nightly, EscalationsProofs,
        Integers

(***************************************************************************)
(* The start of a daemon.                                                  *)
(***************************************************************************)

\* Whoever climbs has everything below its rung applied; while no two climbed at once, the
\* one on the ladder stands right above the version.
LadderInv ==
    /\ 1..user_version \subseteq applied_rungs
    /\ \A d \in Daemons : startStage[d] = "migrate" => 1..(rung[d] - 1) \subseteq applied_rungs
    /\ "ladder" \notin raced =>
         /\ applied_rungs = 1..user_version
         /\ \A d, e \in Climbing : d = e
         /\ \A d \in Climbing : rung[d] = user_version + 1

\* While no two were past the probe at once, a daemon that serves owns the socket file, and
\* none does when another is past the probe.
SocketInv ==
    "socket" \notin raced =>
         /\ \A d, e \in Unbound : d = e
         /\ \A d \in Daemons : startStage[d] = "serving" => sock = d /\ Unbound = {}

StartInv == StartTypeOK /\ LadderInv /\ SocketInv

\* A step that touches neither the ladder nor who climbs it, and one that touches neither
\* the socket nor who is past the probe.
OffLadder == /\ UNCHANGED <<rung, user_version, applied_rungs>> /\ raced \subseteq raced'
             /\ \A d \in Daemons : startStage'[d] = "migrate" => startStage[d] = "migrate"
OffSocket == /\ UNCHANGED sock /\ raced \subseteq raced'
             /\ \A d \in Daemons : startStage'[d] \in {"clear", "bind", "serving"}
                                     => startStage'[d] = startStage[d]

LEMMA OffLadderKeeps == LadderInv /\ OffLadder => LadderInv'
  BY DEF LadderInv, OffLadder, Climbing

LEMMA OffSocketKeeps == SocketInv /\ OffSocket => SocketInv'
  BY DEF SocketInv, OffSocket, Unbound

\* A daemon's main goes to another place.
LEMMA StageEntered ==
    ASSUME StartTypeOK, NEW d \in Daemons, NEW to, EnterStage(d, to)
    PROVE  startStage'[d] = to /\ \A e \in Daemons \ {d} : startStage'[e] = startStage[e]
  BY DEF StartTypeOK, EnterStage

\* Each step of a daemon's main, and a kill anywhere in it, keeps the invariant: a rung and
\* its version are one transaction, and whoever answers is found by the probe.
LEMMA StartInvHolds == ASSUME "none" \notin Daemons PROVE StartSpec => []StartInv
<1>1. StartInit => StartInv
  BY StartUpAssumption
  DEF StartInit, StartInv, StartTypeOK, LadderInv, SocketInv, Climbing, Unbound
<1>2. StartInv /\ [StartNext]_startVars => StartInv'
  <2> SUFFICES ASSUME StartInv, [StartNext]_startVars PROVE StartInv'
    OBVIOUS
  <2> USE StartUpAssumption DEF StartInv
  <2>1. ASSUME NEW d \in Daemons, LaunchDaemon(d) PROVE StartInv'
    <3>1. StartTypeOK'
      BY <2>1 DEF LaunchDaemon, EnterStage, StartTypeOK
    <3>2. OffLadder /\ OffSocket
      BY <2>1, StageEntered DEF LaunchDaemon, OffLadder, OffSocket
    <3> QED
      BY <3>1, <3>2, OffLadderKeeps, OffSocketKeeps
  <2>2. ASSUME NEW d \in Daemons, ReadVersion(d) PROVE StartInv'
    <3>0. /\ rung' = [rung EXCEPT ![d] = user_version + 1] /\ EnterStage(d, "migrate")
          /\ UNCHANGED <<user_version, applied_rungs, sock, openSockets>>
          /\ raced' = IF Climbing = {} THEN raced ELSE raced \union {"ladder"}
      BY <2>2 DEF ReadVersion
    <3>1. StartTypeOK'
      BY <2>2 DEF ReadVersion, EnterStage, StartTypeOK
    <3>2. OffSocket
      BY <3>0, StageEntered DEF OffSocket
    <3>3. rung'[d] = user_version + 1 /\ \A e \in Daemons \ {d} : rung'[e] = rung[e]
      BY <3>0 DEF StartTypeOK
    <3>4. "ladder" \notin raced' => "ladder" \notin raced /\ Climbing = {} /\ Climbing' \subseteq {d}
      BY <3>0, <3>3, StageEntered DEF Climbing
    <3>5. user_version \in Nat /\ user_version + 1 - 1 = user_version
      BY DEF StartTypeOK
    <3>6. LadderInv'
      BY <3>0, <3>3, <3>4, <3>5, StageEntered DEF LadderInv
    <3> QED
      BY <3>1, <3>2, <3>6, OffSocketKeeps
  <2>3. ASSUME NEW d \in Daemons, Migrate(d) PROVE StartInv'
    <3>1. CASE rung[d] \in applied_rungs \cap OnlyOnce
      <4>1. EnterStage(d, "off") /\ UNCHANGED <<current, rung, user_version, applied_rungs, sock,
                                                openSockets, raced, launches, daemonDeaths>>
            /\ startStage[d] = "migrate"
        BY <2>3, <3>1 DEF Migrate
      <4>2. StartTypeOK'
        BY <4>1 DEF EnterStage, StartTypeOK
      <4>3. OffLadder /\ OffSocket
        BY <4>1, StageEntered DEF OffLadder, OffSocket
      <4> QED
        BY <4>2, <4>3, OffLadderKeeps, OffSocketKeeps
    <3>2. CASE rung[d] \notin applied_rungs \cap OnlyOnce
      <4>1. /\ user_version' = rung[d] /\ applied_rungs' = applied_rungs \cup {rung[d]}
            /\ rung' = [rung EXCEPT ![d] = @ + 1] /\ rung[d] <= Ladder /\ startStage[d] = "migrate"
            /\ UNCHANGED <<startStage, current, sock, openSockets, raced, launches, daemonDeaths>>
        BY <2>3, <3>2 DEF Migrate, ApplyRung
      <4>2. rung[d] \in 1..Ladder /\ rung[d] \in Nat /\ rung[d] + 1 \in 1..Ladder + 1
        BY <4>1 DEF StartTypeOK
      <4>3. StartTypeOK'
        <5>1. rung' \in [Daemons -> 1..Ladder + 1]
          BY <4>1, <4>2 DEF StartTypeOK
        <5>2. user_version' \in 0..Ladder
          BY <4>1, <4>2
        <5>3. applied_rungs' \subseteq 1..Ladder
          <6>1. applied_rungs \subseteq 1..Ladder
            BY DEF StartTypeOK
          <6> QED
            BY <4>1, <4>2, <6>1
        <5> QED
          BY <4>1, <5>1, <5>2, <5>3 DEF StartTypeOK
      <4>4. rung'[d] = rung[d] + 1 /\ \A e \in Daemons \ {d} : rung'[e] = rung[e]
        BY <4>1 DEF StartTypeOK
      <4>5. 1..rung[d] \subseteq applied_rungs'
        <5>1. 1..(rung[d] - 1) \subseteq applied_rungs
          BY <4>1 DEF LadderInv
        <5> QED
          BY <4>1, <4>2, <5>1
      <4>6. ASSUME NEW e \in Daemons, startStage'[e] = "migrate"
            PROVE  1..(rung'[e] - 1) \subseteq applied_rungs'
        <5>1. CASE e = d
          BY <4>2, <4>4, <4>5, <5>1
        <5>2. CASE e # d
          BY <4>1, <4>4, <4>6, <5>2 DEF LadderInv
        <5> QED
          BY <5>1, <5>2
      <4>7. ASSUME "ladder" \notin raced'
            PROVE  /\ applied_rungs' = 1..user_version'
                   /\ \A e, f \in Climbing' : e = f
                   /\ \A e \in Climbing' : rung'[e] = user_version' + 1
        <5>1. d \in Climbing /\ "ladder" \notin raced
          BY <4>1, <4>7 DEF Climbing
        <5>2. /\ applied_rungs = 1..user_version /\ rung[d] = user_version + 1
              /\ \A e \in Climbing : e = d
          BY <5>1 DEF LadderInv
        <5>3. Climbing' \subseteq {d}
          BY <4>1, <4>4, <5>2 DEF Climbing
        <5>4. user_version \in Nat
          BY DEF StartTypeOK
        <5>5. applied_rungs' = 1..user_version'
          BY <4>1, <5>2, <5>4
        <5> QED
          BY <4>1, <4>4, <5>3, <5>5
      <4>8. LadderInv'
        BY <4>1, <4>5, <4>6, <4>7 DEF LadderInv
      <4>9. OffSocket
        BY <4>1 DEF OffSocket
      <4> QED
        BY <4>3, <4>8, <4>9, OffSocketKeeps
    <3> QED
      BY <3>1, <3>2
  <2>4. ASSUME NEW d \in Daemons, Migrated(d) PROVE StartInv'
    <3>1. StartTypeOK'
      BY <2>4 DEF Migrated, EnterStage, StartTypeOK
    <3>2. OffLadder /\ OffSocket
      BY <2>4, StageEntered DEF Migrated, OffLadder, OffSocket
    <3> QED
      BY <3>1, <3>2, OffLadderKeeps, OffSocketKeeps
  <2>5. ASSUME NEW d \in Daemons, Probe(d) PROVE StartInv'
    <3>0. /\ startStage[d] = "probe"
          /\ UNCHANGED <<current, rung, user_version, applied_rungs, sock, openSockets, launches,
                         daemonDeaths>>
          /\ raced' = IF Answers \/ Unbound = {} THEN raced ELSE raced \union {"socket"}
      BY <2>5 DEF Probe
    <3>1. PICK to \in {"off", "clear", "bind"} :
            EnterStage(d, to) /\ (Answers => to = "off")
      BY <2>5 DEF Probe, NobodyAnswers
    <3>2. StartTypeOK'
      BY <3>0, <3>1 DEF EnterStage, StartTypeOK
    <3>3. OffLadder
      BY <3>0, <3>1, StageEntered DEF OffLadder
    <3>4. SocketInv'
      <4>1. CASE to = "off"
        <5>1. OffSocket
          BY <3>0, <3>1, <4>1, StageEntered DEF OffSocket
        <5> QED
          BY <5>1, OffSocketKeeps
      <4>2. CASE to # "off" /\ "socket" \notin raced'
        <5>1. ~Answers /\ Unbound = {} /\ "socket" \notin raced
          BY <3>0, <3>1, <4>2
        <5>2. \A e \in Daemons : startStage[e] # "serving"
          BY <5>1 DEF Answers, SocketInv, StartTypeOK
        <5>3. Unbound' \subseteq {d} /\ \A e \in Daemons : startStage'[e] # "serving"
          BY <3>1, <5>1, <5>2, StageEntered DEF Unbound
        <5> QED
          BY <5>3 DEF SocketInv
      <4> QED
        BY <4>1, <4>2 DEF SocketInv
    <3> QED
      BY <3>2, <3>3, <3>4, OffLadderKeeps
  <2>6. ASSUME NEW d \in Daemons, Clear(d) PROVE StartInv'
    <3>0. /\ startStage[d] = "clear" /\ EnterStage(d, "bind") /\ sock' = "none"
          /\ UNCHANGED <<current, rung, user_version, applied_rungs, openSockets, raced, launches,
                         daemonDeaths>>
      BY <2>6 DEF Clear
    <3>1. StartTypeOK'
      BY <3>0 DEF EnterStage, StartTypeOK
    <3>2. OffLadder
      BY <3>0, StageEntered DEF OffLadder
    <3>3. Unbound' = Unbound /\ d \in Unbound
          /\ \A e \in Daemons : startStage'[e] = "serving" <=> startStage[e] = "serving"
      BY <3>0, StageEntered DEF Unbound
    <3>4. SocketInv'
      BY <3>0, <3>3 DEF SocketInv
    <3> QED
      BY <3>1, <3>2, <3>4, OffLadderKeeps
  <2>7. ASSUME NEW d \in Daemons, Bind(d) PROVE StartInv'
    <3>0. /\ startStage[d] = "bind"
          /\ UNCHANGED <<current, rung, user_version, applied_rungs, raced, launches, daemonDeaths>>
      BY <2>7 DEF Bind
    <3>1. CASE sock = "none"
      <4>1. EnterStage(d, "serving") /\ sock' = d /\ openSockets' = openSockets \cup {d}
        BY <2>7, <3>1 DEF Bind
      <4>2. StartTypeOK'
        BY <3>0, <4>1 DEF EnterStage, StartTypeOK
      <4>3. OffLadder
        BY <3>0, <4>1, StageEntered DEF OffLadder
      <4>4. d \in Unbound /\ Unbound' = Unbound \ {d}
        BY <3>0, <4>1, StageEntered DEF Unbound
      <4>5. "socket" \notin raced => Unbound = {d} /\ \A e \in Daemons : startStage[e] # "serving"
        BY <4>4 DEF SocketInv
      <4>6. SocketInv'
        BY <3>0, <4>1, <4>4, <4>5, StageEntered DEF SocketInv
      <4> QED
        BY <4>2, <4>3, <4>6, OffLadderKeeps
    <3>2. CASE sock # "none"
      <4>1. EnterStage(d, "off") /\ UNCHANGED <<sock, openSockets>>
        BY <2>7, <3>2 DEF Bind
      <4>2. StartTypeOK'
        BY <3>0, <4>1 DEF EnterStage, StartTypeOK
      <4>3. OffLadder /\ OffSocket
        BY <3>0, <4>1, StageEntered DEF OffLadder, OffSocket
      <4> QED
        BY <4>2, <4>3, OffLadderKeeps, OffSocketKeeps
    <3> QED
      BY <3>1, <3>2
  <2>8. ASSUME NEW d \in Daemons, Killed(d) PROVE StartInv'
    <3>1. StartTypeOK'
      BY <2>8 DEF Killed, EnterStage, StartTypeOK
    <3>2. OffLadder /\ OffSocket
      BY <2>8, StageEntered DEF Killed, OffLadder, OffSocket
    <3> QED
      BY <3>1, <3>2, OffLadderKeeps, OffSocketKeeps
  <2>9. CASE UNCHANGED startVars
    BY <2>9 DEF startVars, StartTypeOK, LadderInv, SocketInv, Climbing, Unbound
  <2> QED
    BY <2>1, <2>2, <2>3, <2>4, <2>5, <2>6, <2>7, <2>8, <2>9 DEF StartNext, RunDaemon
<1> QED
  BY <1>1, <1>2, PTL DEF StartSpec

\* However often daemons are started and killed, and however many start at the same moment,
\* the recorded version claims no table that is not there, and is the schema unless two
\* climbed at once; and one daemon at most works on the database, unless two were past the
\* probe before either had bound (paosd/src/main.rs probes before it binds;
\* paos-store/src/lib.rs, migrate).
THEOREM StartsSafely == ASSUME "none" \notin Daemons PROVE StartSpec => []StartSafety
<1>1. StartInv => StartSafety
  <2> SUFFICES ASSUME StartInv, "socket" \notin raced PROVE Cardinality(Working) <= 1
    BY DEF StartInv, StartSafety, LadderInv, VersionIsSchema, OneWorks
  <2>1. \A d, e \in Working : d = e
    BY DEF StartInv, SocketInv, Working, Unbound
  <2>2. CASE Working = {}
    BY <2>2, FS_EmptySet
  <2>3. CASE Working # {}
    <3>1. PICK d : Working = {d}
      BY <2>1, <2>3
    <3>2. Cardinality({d}) = 1
      BY FS_Singleton
    <3> QED
      BY <3>1, <3>2
  <2> QED
    BY <2>2, <2>3
<1> QED
  BY <1>1, StartInvHolds, PTL

(***************************************************************************)
(* The picking of an account.                                              *)
(***************************************************************************)

\* The picker's choice is a candidate: a least rank is taken by somebody.
LEMMA BestIsCandidate ==
    ASSUME PickerTypeOK, NEW cfg, Candidates(cfg) # {}
    PROVE  Best(cfg) \in Candidates(cfg)
<1> USE PickerConstants DEF PickerTypeOK
<1> DEFINE ranks == {Rank(cfg, a) : a \in Candidates(cfg)}
           best == {a \in Candidates(cfg) : \A b \in Candidates(cfg) : Rank(cfg, a) <= Rank(cfg, b)}
<1>1. Candidates(cfg) \in SUBSET Nat /\ ranks \in SUBSET Nat /\ ranks # {}
  <2>1. Candidates(cfg) \in SUBSET Nat
    BY DEF Candidates
  <2>2. \A a \in Candidates(cfg) : five[a] \in Nat \cup {Unknown} /\ seven[a] \in Nat \cup {Unknown}
    BY <2>1 DEF Candidates, Unknown
  <2>3. \A a \in Candidates(cfg) : Rank(cfg, a) \in Nat
    BY <2>2 DEF Rank, Shown, Unknown
  <2> QED
    BY <2>1, <2>3
<1>2. PICK a \in Candidates(cfg) : Rank(cfg, a) = Min(ranks)
  <2>1. Min(ranks) \in ranks
    BY <1>1, MinIsLeast
  <2> QED
    BY <2>1
<1>3. a \in best
  BY <1>1, <1>2, MinIsLeast
<1>4. Min(best) \in best
  BY <1>1, <1>3, MinIsLeast
<1> QED
  BY <1>4 DEF Best

\* Whatever is decided, with whatever thresholds, is one of its candidates.
LEMMA DecidedIsCandidate ==
    ASSUME PickerTypeOK, NEW cfg, NEW ago, NEW t \in decide_switch(cfg, ago)
    PROVE  t \in Candidates(cfg) /\ t \in Accts
  BY BestIsCandidate DEF decide_switch, Candidates

\* What was polled, the account in use and the cooldown keep their types.
LEMMA PickerTyped == PickerSpec => []PickerTypeOK
<1>1. PickerInit => PickerTypeOK
  BY PickerConstants DEF PickerInit, PickerTypeOK, Unknown
<1>2. PickerTypeOK /\ [PickerNext]_pickerVars => PickerTypeOK'
  <2> SUFFICES ASSUME PickerTypeOK, [PickerNext]_pickerVars PROVE PickerTypeOK'
    OBVIOUS
  <2> USE PickerConstants DEF PickerTypeOK
  <2>1. ASSUME NEW a \in Accts, Usage(a) PROVE PickerTypeOK'
    BY <2>1 DEF Usage
  <2>2. CASE Configure
    BY <2>2 DEF Configure
  <2>3. CASE Elapse
    BY <2>3 DEF Elapse
  <2>4. CASE PollSwitch
    <3>1. active' \in Accts
      BY <2>4, DecidedIsCandidate DEF PollSwitch
    <3> QED
      BY <2>4, <3>1 DEF PollSwitch
  <2>5. CASE AskedSwitch
    <3>1. active' \in Accts
      BY <2>5, DecidedIsCandidate DEF AskedSwitch
    <3> QED
      BY <2>5, <3>1 DEF AskedSwitch
  <2>6. CASE UNCHANGED pickerVars
    BY <2>6 DEF pickerVars
  <2> QED
    BY <2>1, <2>2, <2>3, <2>4, <2>5, <2>6 DEF PickerNext
<1> QED
  BY <1>1, <1>2, PTL DEF PickerSpec

\* A candidate of some thresholds, once it is the account in use on the same numbers, has
\* room by them and does not trip them.
LEMMA CandidateLasts ==
    ASSUME PickerTypeOK, NEW cfg \in SwitchConfig, active' \in Candidates(cfg), UNCHANGED <<five, seven>>
    PROVE  Lasts(cfg)
<1>1. /\ active' \in Accts /\ five[active'] # Unknown
      /\ five[active'] <= cfg.target_max /\ seven[active'] < cfg.weekly_switch_at
  BY DEF Candidates
<1>2. /\ five[active'] \in Int /\ five[active'] >= 0 /\ seven[active'] \in Int
      /\ cfg.target_max \in Nat /\ cfg.weekly_switch_at \in Nat /\ cfg.switch_at \in Nat
  BY <1>1, PickerConstants DEF PickerTypeOK, Unknown, SwitchConfig
<1>3. five[active'] \in 0..cfg.target_max
  BY <1>1, <1>2
<1>4. ~WeeklyTrip(cfg)'
  BY <1>1, <1>2 DEF WeeklyTrip
<1>5. cfg.target_max < cfg.switch_at => ~BurstTrip(cfg)'
  BY <1>1, <1>2 DEF BurstTrip
<1> QED
  BY <1>3, <1>4, <1>5 DEF Lasts

\* A switch is never burnt by the thresholds it was decided with, whatever they are: the
\* account moved to has room by them, its week does not trip, and unless they let a target
\* be one that trips already, nor does its burst window (paos-operator/src/accounts.rs,
\* decide_switch, as the poll, `paos accounts switch` and `/switch` each call it).
THEOREM SwitchesLast == PickerSpec => NoThrash
<1>1. PickerTypeOK /\ [PickerNext]_pickerVars =>
          [(PollSwitch => Lasts(config)) /\ (AskedSwitch => Lasts(Default))]_pickerVars
  <2> SUFFICES ASSUME PickerTypeOK
               PROVE  (PollSwitch => Lasts(config)) /\ (AskedSwitch => Lasts(Default))
    OBVIOUS
  <2>1. config \in SwitchConfig /\ Default \in SwitchConfig
    BY PickerConstants DEF PickerTypeOK
  <2>2. ASSUME PollSwitch PROVE Lasts(config)
    <3>1. active' \in Candidates(config)
      BY <2>2, DecidedIsCandidate DEF PollSwitch
    <3> QED
      BY <2>1, <2>2, <3>1, CandidateLasts DEF PollSwitch
  <2>3. ASSUME AskedSwitch PROVE Lasts(Default)
    <3>1. active' \in Candidates(AskedConfig)
      BY <2>3, DecidedIsCandidate DEF AskedSwitch
    <3>2. /\ AskedConfig.target_max = Default.target_max
          /\ AskedConfig.weekly_switch_at = Default.weekly_switch_at
      BY <2>1 DEF AskedConfig, SwitchConfig
    <3>3. active' \in Candidates(Default)
      BY <3>1, <3>2 DEF Candidates
    <3> QED
      BY <2>1, <2>3, <3>3, CandidateLasts DEF AskedSwitch
  <2> QED
    BY <2>2, <2>3
<1> QED
  BY <1>1, PickerTyped, PTL DEF PickerSpec, NoThrash

(***************************************************************************)
(* The accounts.                                                           *)
(***************************************************************************)
PollSteps == {"poll", "ask", "keep"}
SwitchSteps == {"refresh", "store", "restash", "live", "identity"}
Alone == deaths_ = 0 /\ overlaps = 0
Switching == \E p \in Procs : doing[p].step = "identity"

\* The step a process is at tells whose credential it holds, and whose the live one is.
HoldsItsOwn(p) ==
    /\ doing[p].step \in PollSteps => p = "poller" /\ poll.active = {signedIn}
    /\ doing[p].step \in {"ask", "keep"} => doing[p].slot # signedIn
    /\ doing[p].step \in {"ask", "keep", "refresh", "store", "restash", "live"} => doing[p].cred.acct = doing[p].slot
    /\ doing[p].step = "identity" => liveCred.acct = doing[p].slot /\ doing[p].cred.acct = signedIn

OneAccountInv ==
    /\ \A p, q \in Procs : doing[p] # Rest /\ doing[q] # Rest => p = q
    /\ \A a \in Slots : stash[a].acct = a
    /\ ~Switching => liveCred.acct = signedIn
    /\ \A p \in Procs : HoldsItsOwn(p)

\* ... and that it is good.
HoldsGood(p) ==
    /\ doing[p].step \in SwitchSteps => doing[p].slot # signedIn
    /\ doing[p].step \in {"ask", "refresh"} => doing[p].cred = stash[doing[p].slot]
    /\ doing[p].step \in {"keep", "store", "restash", "live"} => doing[p].cred.gen = server[doing[p].slot]
    /\ doing[p].step \in {"live", "identity"} => stash[signedIn].gen = server[signedIn]
    /\ doing[p].step = "identity" => liveCred.gen = server[liveCred.acct]

Fetched(a) == \E p \in Procs : doing[p].step \in {"keep", "store"} /\ doing[p].slot = a
GoodCredInv ==
    /\ ~Switching => liveCred.gen = server[liveCred.acct]
    /\ \A a \in Slots : a = signedIn \/ stash[a].gen = server[a] \/ Fetched(a)
    /\ \A p \in Procs : HoldsGood(p)

\* A slot in its window is in the backoff of the poll in progress, or of the state file.
BackoffInv ==
    IF At("poller", "poll") \/ At("poller", "ask") \/ At("poller", "keep")
    THEN limited \subseteq poll.barred /\ (doing["poller"].step # "poll" => doing["poller"].slot \notin limited)
    ELSE limited \subseteq barred

AccountInv ==
    /\ AccountTypeOK
    /\ Alone /\ failures <= 1 => OneAccountInv
    /\ ~selfAsked /\ Mishaps = 0 => GoodCredInv
    /\ failures + deaths_ = 0 => BackoffInv /\ ~hammered

Held == [step : Steps, slot : Slots, cred : Creds]

LEMMA JobStep ==
    ASSUME NEW j \in Held \cup {Rest}
    PROVE  /\ j.step \in Steps \cup {"rest"} /\ (j = Rest <=> j.step = "rest")
           /\ j # Rest => j \in Held /\ j.slot \in Slots /\ j.cred \in Creds /\ j.cred.acct \in Slots
                          /\ j.cred.gen \in 0..MaxGen
  BY DEF Held, Rest, Steps, Creds

\* One process does a job.
LEMMA JobDone ==
    ASSUME AccountTypeOK, NEW p \in Procs, NEW job \in Held \cup {Rest}, Do(p, job)
    PROVE  /\ doing' \in [Procs -> Held \cup {Rest}] /\ doing'[p] = job
           /\ \A q \in Procs \ {p} : doing'[q] = doing[q]
  BY DEF AccountTypeOK, Do, Held

\* A process that is at a step is not at rest, and while one account is all there is to
\* care for it is the only one.
LEMMA AtIsHeld ==
    ASSUME AccountTypeOK, NEW p, NEW s \in Steps, At(p, s)
    PROVE  /\ p \in Procs /\ doing[p] \in Held /\ doing[p] # Rest /\ doing[p].step = s
           /\ OneAccountInv => \A q \in Procs \ {p} : doing[q] = Rest
<1>1. p \in Procs /\ doing[p] \in Held \cup {Rest} /\ doing[p].step = s
  BY DEF At, AccountTypeOK, Held
<1>2. doing[p] # Rest
  BY <1>1 DEF Rest, Steps
<1> QED
  BY <1>1, <1>2 DEF OneAccountInv

\* What one process alone must see to.
LEMMA OneAccountKept ==
    ASSUME NEW p \in Procs, doing' \in [Procs -> Held \cup {Rest}],
           \A q \in Procs \ {p} : doing'[q] = Rest,
           \A a \in Slots : stash'[a].acct = a,
           doing'[p].step # "identity" => liveCred'.acct = signedIn',
           HoldsItsOwn(p)'
    PROVE  OneAccountInv'
<1>1. \A q \in Procs \ {p} : doing'[q].step = "rest"
  BY DEF Rest
<1>2. \A q \in Procs : HoldsItsOwn(q)'
  BY <1>1 DEF HoldsItsOwn, PollSteps
<1>3. ~Switching' => liveCred'.acct = signedIn'
  BY DEF Switching
<1> QED
  BY <1>2, <1>3 DEF OneAccountInv

LEMMA GoodCredKept ==
    ASSUME NEW p \in Procs, doing' \in [Procs -> Held \cup {Rest}],
           \A q \in Procs \ {p} : doing'[q] = Rest,
           doing'[p].step # "identity" => liveCred'.gen = server'[liveCred'.acct],
           \A a \in Slots : \/ a = signedIn' \/ stash'[a].gen = server'[a]
                            \/ doing'[p].step \in {"keep", "store"} /\ doing'[p].slot = a,
           HoldsGood(p)'
    PROVE  GoodCredInv'
<1>1. \A q \in Procs \ {p} : doing'[q].step = "rest"
  BY DEF Rest
<1>2. \A q \in Procs : HoldsGood(q)'
  BY <1>1 DEF HoldsGood, SwitchSteps
<1>3. ~Switching' => liveCred'.gen = server'[liveCred'.acct]
  BY DEF Switching
<1>4. \A a \in Slots : a = signedIn' \/ stash'[a].gen = server'[a] \/ Fetched(a)'
  BY DEF Fetched
<1> QED
  BY <1>2, <1>3, <1>4 DEF GoodCredInv

\* The backoff is the poller's business while it polls.
LEMMA BackoffKept ==
    ASSUME AccountTypeOK, BackoffInv, NEW p \in Procs, doing' \in [Procs -> Held \cup {Rest}],
           UNCHANGED <<poll, limited, barred>>, \A q \in Procs \ {p} : doing'[q] = doing[q],
           p = "poller" => doing[p].step \notin PollSteps /\ doing'[p].step \notin PollSteps
    PROVE  BackoffInv'
<1>1. \A s \in PollSteps : At("poller", s)' <=> At("poller", s)
  BY DEF At, PollSteps
<1>2. doing'["poller"] = doing["poller"] \/ ~(\E s \in PollSteps : At("poller", s))
  BY DEF At, PollSteps
<1> QED
  BY <1>1, <1>2 DEF BackoffInv, PollSteps

\* Failures, kills and races are only counted up, and what a person asked for is not
\* forgotten.
LEMMA MishapsCounted ==
    ASSUME AccountTypeOK, [AccountNext]_accountVars
    PROVE  /\ {failures', deaths_', overlaps'} \subseteq Nat
           /\ failures <= failures' /\ deaths_ <= deaths_' /\ overlaps <= overlaps'
           /\ selfAsked' \in BOOLEAN /\ (~selfAsked' => ~selfAsked)
<1> selfAsked \in BOOLEAN /\ {failures, deaths_, overlaps} \subseteq Nat
  BY DEF AccountTypeOK
<1> USE DEF mishaps, Fail, Alongside, Unanswered, save_state
<1>1. CASE RotateLive \/ capture_current \/ StartPoll
  BY <1>1 DEF RotateLive, capture_current, StartPoll
<1>s. ASSUME NEW t \in Slots, switch_now(t)
      PROVE  /\ {failures', deaths_', overlaps'} \subseteq Nat
             /\ failures <= failures' /\ deaths_ <= deaths_' /\ overlaps <= overlaps'
             /\ selfAsked' \in BOOLEAN /\ (~selfAsked' => ~selfAsked)
  <2>1. /\ {failures', deaths_', overlaps'} \subseteq Nat
        /\ failures <= failures' /\ deaths_ <= deaths_' /\ overlaps <= overlaps'
    BY <1>s DEF switch_now
  <2>2. selfAsked' = (selfAsked \/ t = signedIn)
    BY <1>s DEF switch_now
  <2> QED
    BY <2>1, <2>2
<1>2. CASE refresh_with_backoff \/ StoreForPoll \/ EndPoll
  BY <1>2 DEF refresh_with_backoff, StoreForPoll, EndPoll
<1>3. CASE \E s \in Slots : PollSlot(s) \/ Cool(s)
  BY <1>3 DEF PollSlot, Cool
<1>4. CASE \E p \in Procs : refresh_for_switch(p) \/ StoreForSwitch(p) \/ restash_outgoing(p)
  BY <1>4 DEF refresh_for_switch, StoreForSwitch, restash_outgoing
<1>5. CASE \E p \in Procs : write_live(p) \/ write_claude_json(p) \/ DieHalfway(p)
  BY <1>5 DEF write_live, write_claude_json, DieHalfway
<1>6. CASE UNCHANGED accountVars
  BY <1>6 DEF accountVars
<1> QED
  BY <1>1, <1>s, <1>2, <1>3, <1>4, <1>5, <1>6 DEF AccountNext
\* A token spent is a newer one in hand.
LEMMA TokenSpent ==
    ASSUME AccountTypeOK, NEW c \in Creds, Valid(c), Rotates(c)
    PROVE  /\ server' \in [Slots -> 0..MaxGen] /\ merge_refreshed(c) \in Creds
           /\ merge_refreshed(c).acct = c.acct /\ merge_refreshed(c).gen = server'[c.acct]
           /\ \A a \in Slots : a # c.acct => server'[a] = server[a]
<1>1. c.acct \in Slots /\ c.gen \in 0..MaxGen /\ c.gen = server[c.acct] /\ c.gen < MaxGen
      /\ server \in [Slots -> 0..MaxGen] /\ MaxGen \in Nat
  BY AccountConstants DEF Creds, Valid, AccountTypeOK
<1>2. c.gen + 1 \in 0..MaxGen
  BY <1>1
<1>3. merge_refreshed(c) \in Creds /\ merge_refreshed(c).acct = c.acct /\ merge_refreshed(c).gen = c.gen + 1
  BY <1>1, <1>2 DEF Creds, merge_refreshed
<1>4. server' = [server EXCEPT ![c.acct] = @ + 1]
  BY DEF Rotates
<1> QED
  BY <1>1, <1>2, <1>3, <1>4

\* What the invariants say when one process alone is at work, or none is.
LEMMA OneAtWork ==
    ASSUME NEW p \in Procs, \A q \in Procs \ {p} : doing[q] = Rest
    PROVE  /\ Switching <=> doing[p].step = "identity"
           /\ \A a \in Slots : Fetched(a) <=> doing[p].step \in {"keep", "store"} /\ doing[p].slot = a
<1>1. \A q \in Procs \ {p} : doing[q].step = "rest"
  BY DEF Rest
<1> QED
  BY <1>1 DEF Switching, Fetched

\* A step taken alongside nobody.
LEMMA NobodyElse ==
    ASSUME AccountTypeOK, NEW Q, Alongside(Q), overlaps' = 0
    PROVE  \A q \in Q : doing[q] = Rest
<1>1. overlaps \in Nat
  BY DEF AccountTypeOK
<1> QED
  BY <1>1 DEF Alongside, Busy

LEMMA AccountInvHolds == AccountSpec => []AccountInv
<1> USE DEF keychain, backoff, mishaps
<1>s. /\ "poll" \in Steps /\ "ask" \in Steps /\ "keep" \in Steps /\ "refresh" \in Steps /\ "store" \in Steps
      /\ "restash" \in Steps /\ "live" \in Steps /\ "identity" \in Steps
  BY DEF Steps
<1>1. AccountInit => AccountInv
  <2> SUFFICES ASSUME AccountInit PROVE AccountInv
    OBVIOUS
  <2>1. 0 \in 0..MaxGen /\ 0 \in Nat
    BY AccountConstants
  <2>2. AccountTypeOK
    BY <2>1 DEF AccountInit, AccountTypeOK, Creds, NoPoll
  <2>3. \A p \in Procs : doing[p] = Rest /\ doing[p].step = "rest"
    BY DEF AccountInit, Rest
  <2>4. /\ liveCred.acct = signedIn /\ liveCred.gen = 0 /\ \A a \in Slots : server[a] = 0 /\ stash[a].acct = a /\ stash[a].gen = 0
        /\ limited = {} /\ barred = {} /\ hammered = FALSE /\ signedIn \in Slots
    BY DEF AccountInit
  <2>5. OneAccountInv
    BY <2>3, <2>4 DEF OneAccountInv, HoldsItsOwn, PollSteps
  <2>6. GoodCredInv
    BY <2>3, <2>4 DEF GoodCredInv, HoldsGood, SwitchSteps
  <2>7. BackoffInv /\ ~hammered
    BY <2>3, <2>4 DEF BackoffInv, At
  <2> QED
    BY <2>2, <2>5, <2>6, <2>7 DEF AccountInv
<1>2. AccountInv /\ [AccountNext]_accountVars => AccountInv'
  <2> SUFFICES ASSUME AccountInv, [AccountNext]_accountVars PROVE AccountInv'
    OBVIOUS
  <2>0. AccountTypeOK
    BY DEF AccountInv
  <2>t. /\ server \in [Slots -> 0..MaxGen] /\ liveCred \in Creds /\ signedIn \in Slots
        /\ stash \in [Slots -> Creds] /\ doing \in [Procs -> Held \cup {Rest}]
        /\ poll \in [todo : SUBSET Slots, active : SUBSET Slots, barred : SUBSET Slots]
        /\ {barred, limited} \subseteq SUBSET Slots /\ hammered \in BOOLEAN
    BY <2>0 DEF AccountTypeOK, Held
  <2>m. /\ {failures', deaths_', overlaps'} \subseteq Nat
        /\ Alone' /\ failures' <= 1 => OneAccountInv
        /\ selfAsked' \in BOOLEAN
        /\ ~selfAsked' /\ Mishaps' = 0 => OneAccountInv /\ GoodCredInv /\ failures' = 0 /\ deaths_' = 0 /\ overlaps' = 0
        /\ failures' + deaths_' = 0 => BackoffInv /\ ~hammered /\ failures' = 0 /\ deaths_' = 0
    <3>1. /\ {failures', deaths_', overlaps'} \subseteq Nat /\ {failures, deaths_, overlaps} \subseteq Nat
          /\ failures <= failures' /\ deaths_ <= deaths_' /\ overlaps <= overlaps'
          /\ selfAsked' \in BOOLEAN /\ (~selfAsked' => ~selfAsked)
      BY <2>0, MishapsCounted DEF AccountTypeOK
    <3>2. Alone' /\ failures' <= 1 => OneAccountInv
      BY <3>1 DEF AccountInv, Alone
    <3>3. Mishaps' = 0 => failures' = 0 /\ deaths_' = 0 /\ overlaps' = 0 /\ Mishaps = 0 /\ Alone /\ failures <= 1
      BY <3>1 DEF Alone, Mishaps
    <3>4. ~selfAsked' /\ Mishaps' = 0 => OneAccountInv /\ GoodCredInv
      BY <3>1, <3>3 DEF AccountInv
    <3>5. failures' + deaths_' = 0 => failures' = 0 /\ deaths_' = 0 /\ failures + deaths_ = 0
      BY <3>1
    <3> QED
      BY <3>1, <3>2, <3>3, <3>4, <3>5 DEF AccountInv
  <2>a. ASSUME AccountTypeOK',
               Alone' /\ failures' <= 1 /\ OneAccountInv => OneAccountInv',
               ~selfAsked' /\ overlaps' = 0 /\ failures' = 0 /\ deaths_' = 0 /\ OneAccountInv /\ GoodCredInv => GoodCredInv',
               failures' = 0 /\ deaths_' = 0 /\ BackoffInv /\ ~hammered => BackoffInv' /\ ~hammered'
        PROVE  AccountInv'
    BY <2>m, <2>a DEF AccountInv
  <2>1. CASE RotateLive
    <3>1. /\ Valid(liveCred) /\ Rotates(liveCred) /\ liveCred' = merge_refreshed(liveCred)
          /\ Alongside({p \in Procs : doing[p].step \in {"restash", "live", "identity"}})
          /\ UNCHANGED <<signedIn, stash, doing, poll, barred, limited, hammered>>
      BY <2>1 DEF RotateLive
    <3>2. /\ server' \in [Slots -> 0..MaxGen] /\ liveCred' \in Creds /\ liveCred'.acct = liveCred.acct
          /\ liveCred'.gen = server'[liveCred.acct] /\ \A a \in Slots : a # liveCred.acct => server'[a] = server[a]
      BY <2>0, <2>t, <3>1, TokenSpent
    <3>3. AccountTypeOK'
      BY <2>0, <2>m, <3>1, <3>2 DEF AccountTypeOK
    <3>4. OneAccountInv => OneAccountInv'
      BY <3>1, <3>2 DEF OneAccountInv, HoldsItsOwn, Switching
    <3>5. overlaps' = 0 /\ OneAccountInv /\ GoodCredInv => GoodCredInv'
      <4> SUFFICES ASSUME overlaps' = 0, OneAccountInv, GoodCredInv PROVE GoodCredInv'
        OBVIOUS
      <4>1. \A p \in Procs : doing[p].step \notin {"restash", "live", "identity"}
        BY <2>0, <3>1, NobodyElse DEF Rest
      <4>2. ~Switching /\ liveCred.acct = signedIn
        BY <4>1 DEF Switching, OneAccountInv
      <4>3. \A p \in Procs : HoldsGood(p)'
        <5> SUFFICES ASSUME NEW p \in Procs PROVE HoldsGood(p)'
          OBVIOUS
        <5>1. doing'[p] = doing[p] /\ doing[p] \in Held \cup {Rest} /\ HoldsGood(p) /\ HoldsItsOwn(p)
          BY <2>t, <3>1 DEF GoodCredInv, OneAccountInv
        <5>2. doing[p].step \in {"keep", "store"} => doing[p].slot \in Slots /\ doing[p].slot # signedIn
          BY <5>1, JobStep DEF HoldsGood, HoldsItsOwn, SwitchSteps, Rest
        <5> QED
          BY <3>1, <3>2, <4>1, <4>2, <5>1, <5>2 DEF HoldsGood, SwitchSteps
      <4>4. \A a \in Slots : a = signedIn' \/ stash'[a].gen = server'[a] \/ Fetched(a)'
        BY <3>1, <3>2, <4>2 DEF GoodCredInv, Fetched
      <4> QED
        BY <3>1, <3>2, <4>3, <4>4 DEF GoodCredInv
    <3>6. BackoffInv /\ ~hammered => BackoffInv' /\ ~hammered'
      BY <3>1 DEF BackoffInv, At
    <3> QED
      BY <2>a, <3>3, <3>4, <3>5, <3>6
  <2>2. ASSUME NEW t \in Slots, switch_now(t) PROVE AccountInv'
    <3> DEFINE job == [step |-> "refresh", slot |-> t, cred |-> stash[t]]
    <3>1. /\ "person" \in Procs /\ doing["person"] = Rest /\ (~selfAsked' => t # signedIn) /\ Do("person", job)
          /\ Alongside(Procs \ {"person"})
          /\ UNCHANGED <<server, signedIn, liveCred, stash, poll, barred, limited, hammered>>
      BY <2>2, <2>t, JobStep DEF switch_now, At, Begin
    <3>2. job \in Held /\ job.step = "refresh" /\ job.slot = t /\ job.cred = stash[t]
      BY <2>t DEF Held, Steps
    <3> HIDE DEF job
    <3>3. /\ doing' \in [Procs -> Held \cup {Rest}] /\ doing'["person"] = job
          /\ \A q \in Procs \ {"person"} : doing'[q] = doing[q]
      BY <2>0, <3>1, <3>2, JobDone
    <3>4. AccountTypeOK'
      BY <2>0, <2>m, <3>1, <3>3 DEF AccountTypeOK, Held
    <3>5. overlaps' = 0 => \A q \in Procs : doing[q] = Rest
      BY <2>0, <3>1, NobodyElse
    <3>6. (\A q \in Procs : doing[q] = Rest) => ~Switching /\ \A a \in Slots : ~Fetched(a)
      BY DEF Switching, Fetched, Rest
    <3>7. overlaps' = 0 /\ OneAccountInv => OneAccountInv'
      <4> SUFFICES ASSUME overlaps' = 0, OneAccountInv PROVE OneAccountInv'
        OBVIOUS
      <4>1. HoldsItsOwn("person")'
        BY <3>1, <3>2, <3>3 DEF OneAccountInv, HoldsItsOwn, PollSteps
      <4>2. liveCred'.acct = signedIn' /\ \A a \in Slots : stash'[a].acct = a
        BY <3>1, <3>5, <3>6 DEF OneAccountInv
      <4> QED
        BY <3>1, <3>3, <3>5, <4>1, <4>2, OneAccountKept
    <3>8. ~selfAsked' /\ overlaps' = 0 /\ OneAccountInv /\ GoodCredInv => GoodCredInv'
      <4> SUFFICES ASSUME ~selfAsked', overlaps' = 0, OneAccountInv, GoodCredInv PROVE GoodCredInv'
        OBVIOUS
      <4>1. HoldsGood("person")'
        BY <3>1, <3>2, <3>3 DEF HoldsGood, SwitchSteps
      <4>2. liveCred'.gen = server'[liveCred'.acct] /\ \A a \in Slots : a = signedIn' \/ stash'[a].gen = server'[a]
        BY <3>1, <3>5, <3>6 DEF GoodCredInv
      <4> QED
        BY <3>1, <3>3, <3>5, <4>1, <4>2, GoodCredKept
    <3>9. BackoffInv /\ ~hammered => BackoffInv' /\ ~hammered'
      BY <2>0, <3>1, <3>3, BackoffKept
    <3> QED
      BY <2>a, <3>4, <3>7, <3>8, <3>9 DEF Alone
  <2>3. ASSUME NEW p \in Procs, refresh_for_switch(p) PROVE AccountInv'
    <3> DEFINE c == doing[p].cred
    <3>1. /\ At(p, "refresh") /\ UNCHANGED <<signedIn, liveCred, stash, poll, barred, limited, hammered>>
      BY <2>3 DEF refresh_for_switch
    <3>2. /\ doing[p] \in Held /\ doing[p] # Rest /\ doing[p].step = "refresh" /\ c \in Creds /\ doing[p].slot \in Slots
          /\ OneAccountInv => \A q \in Procs \ {p} : doing[q] = Rest
      BY <2>0, <3>1, AtIsHeld, JobStep, <1>s
    <3>3. PICK job \in Held \cup {Rest} :
            /\ Do(p, job) /\ job.step \in {"restash", "store", "rest"}
            /\ \/ job.step = "restash" /\ job.slot = doing[p].slot /\ job.cred = c /\ UNCHANGED server
               \/ /\ job.step = "store" /\ job.slot = doing[p].slot /\ job.cred = merge_refreshed(c)
                  /\ Valid(c) /\ Rotates(c)
               \/ job = Rest /\ UNCHANGED server
               \/ job = Rest /\ failures' = failures + 1 /\ Valid(c) /\ Rotates(c)
      <4>1. CASE Go(p, "restash") /\ UNCHANGED server
        <5> DEFINE j == [doing[p] EXCEPT !.step = "restash"]
        <5>1. j \in Held /\ j.step = "restash" /\ j.slot = doing[p].slot /\ j.cred = c
          BY <1>s, <3>2 DEF Held
        <5>2. Do(p, j)
          BY <4>1 DEF Go
        <5> HIDE DEF j
        <5> QED
          BY <4>1, <5>1, <5>2
      <4>2. CASE UsageAnswered(p, "store")
        <5>1. merge_refreshed(c) \in Creds
          BY <2>0, <3>2, <4>2, TokenSpent DEF UsageAnswered
        <5> DEFINE j == [doing[p] EXCEPT !.step = "store", !.cred = merge_refreshed(c)]
        <5>2. j \in Held /\ j.step = "store" /\ j.slot = doing[p].slot /\ j.cred = merge_refreshed(c)
          BY <1>s, <3>2, <5>1 DEF Held
        <5>3. Do(p, j) /\ Valid(c) /\ Rotates(c)
          BY <4>2 DEF UsageAnswered
        <5> HIDE DEF j
        <5> QED
          BY <5>2, <5>3
      <4>3. CASE Stop(p) /\ UNCHANGED server
        BY <4>3 DEF Stop, Rest
      <4>4. CASE Unanswered(c) /\ Stop(p)
        BY <4>4 DEF Stop, Rest, Unanswered, Fail
      <4> QED
        BY <2>3, <4>1, <4>2, <4>3, <4>4 DEF refresh_for_switch
    <3>4. /\ doing' \in [Procs -> Held \cup {Rest}] /\ doing'[p] = job
          /\ \A q \in Procs \ {p} : doing'[q] = doing[q]
      BY <2>0, <3>3, JobDone
    <3>5. server' \in [Slots -> 0..MaxGen]
      BY <2>0, <2>t, <3>2, <3>3, TokenSpent
    <3>6. AccountTypeOK'
      BY <2>0, <2>m, <3>1, <3>4, <3>5 DEF AccountTypeOK, Held
    <3>7. OneAccountInv => OneAccountInv'
      <4> SUFFICES ASSUME OneAccountInv PROVE OneAccountInv'
        OBVIOUS
      <4>1. HoldsItsOwn(p) /\ c.acct = doing[p].slot
        BY <3>2 DEF OneAccountInv, HoldsItsOwn
      <4>2. merge_refreshed(c).acct = c.acct
        BY <3>2 DEF merge_refreshed, Creds
      <4>3. HoldsItsOwn(p)'
        <5>1. CASE job = Rest
          BY <3>4, <5>1 DEF HoldsItsOwn, PollSteps, Rest
        <5>2. CASE job.step \in {"restash", "store"} /\ job.slot = doing[p].slot /\ job.cred.acct = doing[p].slot
          BY <3>4, <5>2 DEF HoldsItsOwn, PollSteps
        <5> QED
          BY <3>3, <4>1, <4>2, <5>1, <5>2
      <4>4. liveCred'.acct = signedIn' /\ \A a \in Slots : stash'[a].acct = a
        BY <3>1, <3>2, OneAtWork DEF OneAccountInv
      <4> QED
        BY <3>2, <3>4, <4>3, <4>4, OneAccountKept
    <3>8. failures' = 0 /\ OneAccountInv /\ GoodCredInv => GoodCredInv'
      <4> SUFFICES ASSUME failures' = 0, OneAccountInv, GoodCredInv PROVE GoodCredInv'
        OBVIOUS
      <4>1. HoldsItsOwn(p) /\ HoldsGood(p) /\ c.acct = doing[p].slot /\ doing[p].slot # signedIn /\ c = stash[doing[p].slot]
        BY <3>2 DEF OneAccountInv, HoldsItsOwn, GoodCredInv, HoldsGood, SwitchSteps
      <4>2. /\ ~Switching /\ \A a \in Slots : ~Fetched(a)
        BY <3>2, OneAtWork
      <4>3. liveCred.acct = signedIn /\ liveCred.gen = server[signedIn] /\ \A a \in Slots : a = signedIn \/ stash[a].gen = server[a]
        BY <4>2 DEF OneAccountInv, GoodCredInv
      <4>4. CASE /\ job.step = "store" /\ job.slot = doing[p].slot /\ job.cred = merge_refreshed(c)
                 /\ Valid(c) /\ Rotates(c)
        <5>1. /\ merge_refreshed(c).gen = server'[doing[p].slot]
              /\ \A a \in Slots : a # doing[p].slot => server'[a] = server[a]
          BY <2>0, <3>2, <4>1, <4>4, TokenSpent
        <5>2. HoldsGood(p)'
          BY <3>1, <3>4, <4>1, <4>4, <5>1 DEF HoldsGood, SwitchSteps
        <5>3. liveCred'.gen = server'[liveCred'.acct]
          BY <2>t, <3>1, <4>1, <4>3, <5>1
        <5>4. \A a \in Slots : a = signedIn' \/ stash'[a].gen = server'[a] \/ doing'[p].slot = a
          BY <3>1, <3>4, <4>3, <4>4, <5>1
        <5> QED
          BY <3>2, <3>4, <4>4, <5>2, <5>3, <5>4, GoodCredKept
      <4>5. CASE /\ UNCHANGED server
                 /\ job = Rest \/ (job.step = "restash" /\ job.slot = doing[p].slot /\ job.cred = c)
        <5>1. HoldsGood(p)'
          BY <3>1, <3>2, <3>4, <4>1, <4>3, <4>5 DEF HoldsGood, SwitchSteps, Rest
        <5> QED
          BY <3>1, <3>2, <3>4, <4>3, <4>5, <5>1, GoodCredKept
      <4>6. failures' # failures + 1
        BY <2>0 DEF AccountTypeOK
      <4> QED
        BY <3>3, <4>4, <4>5, <4>6
    <3>9. BackoffInv /\ ~hammered => BackoffInv' /\ ~hammered'
      BY <2>0, <3>1, <3>2, <3>3, <3>4, BackoffKept DEF PollSteps
    <3> QED
      BY <2>a, <3>6, <3>7, <3>8, <3>9
  <2>4. ASSUME NEW p \in Procs, StoreForSwitch(p) PROVE AccountInv'
    <3>1. /\ At(p, "store") /\ UNCHANGED <<server, signedIn, liveCred, poll, barred, limited, hammered>>
      BY <2>4 DEF StoreForSwitch
    <3>2. /\ doing[p] \in Held /\ doing[p] # Rest /\ doing[p].step = "store" /\ doing[p].cred \in Creds /\ doing[p].slot \in Slots
          /\ OneAccountInv => \A q \in Procs \ {p} : doing[q] = Rest
      BY <1>s, <2>0, <3>1, AtIsHeld, JobStep
    <3>3. PICK job \in Held \cup {Rest} :
            /\ Do(p, job)
            /\ \/ /\ job.step = "restash" /\ job.slot = doing[p].slot /\ job.cred = doing[p].cred
                  /\ stash' = [stash EXCEPT ![doing[p].slot] = doing[p].cred]
               \/ job = Rest /\ failures' = failures + 1 /\ UNCHANGED stash
      <4>1. CASE Go(p, "restash") /\ stash' = [stash EXCEPT ![doing[p].slot] = doing[p].cred]
        <5> DEFINE j == [doing[p] EXCEPT !.step = "restash"]
        <5>1. j \in Held /\ j.step = "restash" /\ j.slot = doing[p].slot /\ j.cred = doing[p].cred
          BY <1>s, <3>2 DEF Held
        <5>2. Do(p, j)
          BY <4>1 DEF Go
        <5> HIDE DEF j
        <5> QED
          BY <4>1, <5>1, <5>2
      <4>2. CASE Fail /\ Stop(p) /\ UNCHANGED stash
        BY <4>2 DEF Stop, Fail
      <4> QED
        BY <2>4, <4>1, <4>2 DEF StoreForSwitch
    <3>4. /\ doing' \in [Procs -> Held \cup {Rest}] /\ doing'[p] = job
          /\ \A q \in Procs \ {p} : doing'[q] = doing[q]
      BY <2>0, <3>3, JobDone
    <3>5. stash' \in [Slots -> Creds]
      BY <2>t, <3>2, <3>3
    <3>6. AccountTypeOK'
      BY <2>0, <2>m, <3>1, <3>4, <3>5 DEF AccountTypeOK, Held
    <3>7. OneAccountInv => OneAccountInv'
      <4> SUFFICES ASSUME OneAccountInv PROVE OneAccountInv'
        OBVIOUS
      <4>1. doing[p].cred.acct = doing[p].slot
        BY <3>2 DEF OneAccountInv, HoldsItsOwn
      <4>2. \A a \in Slots : stash'[a].acct = a
        BY <2>t, <3>2, <3>3, <4>1 DEF OneAccountInv
      <4>3. HoldsItsOwn(p)' /\ doing'[p].step # "identity"
        BY <3>3, <3>4, <4>1 DEF HoldsItsOwn, PollSteps, Rest
      <4>4. liveCred'.acct = signedIn'
        BY <3>1, <3>2, OneAtWork DEF OneAccountInv
      <4> QED
        BY <3>2, <3>4, <4>2, <4>3, <4>4, OneAccountKept
    <3>8. failures' = 0 /\ OneAccountInv /\ GoodCredInv => GoodCredInv'
      <4> SUFFICES ASSUME failures' = 0, OneAccountInv, GoodCredInv PROVE GoodCredInv'
        OBVIOUS
      <4>1. doing[p].slot # signedIn /\ doing[p].cred.gen = server[doing[p].slot]
        BY <3>2 DEF GoodCredInv, HoldsGood, SwitchSteps
      <4>2. /\ liveCred.gen = server[liveCred.acct]
            /\ \A a \in Slots : a = signedIn \/ stash[a].gen = server[a] \/ a = doing[p].slot
        BY <3>2, OneAtWork DEF GoodCredInv
      <4>3. failures' # failures + 1
        BY <2>0 DEF AccountTypeOK
      <4>4. /\ job.step = "restash" /\ job.slot = doing[p].slot /\ job.cred = doing[p].cred
            /\ stash' = [stash EXCEPT ![doing[p].slot] = doing[p].cred]
        BY <3>3, <4>3
      <4>5. \A a \in Slots : a = signedIn' \/ stash'[a].gen = server'[a]
        BY <2>t, <3>1, <4>1, <4>2, <4>4
      <4>6. HoldsGood(p)'
        BY <3>1, <3>4, <4>1, <4>4 DEF HoldsGood, SwitchSteps
      <4> QED
        BY <3>1, <3>2, <3>4, <4>2, <4>5, <4>6, GoodCredKept
    <3>9. BackoffInv /\ ~hammered => BackoffInv' /\ ~hammered'
      BY <2>0, <3>1, <3>2, <3>3, <3>4, BackoffKept DEF PollSteps, Rest
    <3> QED
      BY <2>a, <3>6, <3>7, <3>8, <3>9
  <2>5. ASSUME NEW p \in Procs, restash_outgoing(p) PROVE AccountInv'
    <3> DEFINE job == [doing[p] EXCEPT !.step = "live"]
    <3>1. /\ At(p, "restash") /\ UNCHANGED <<server, signedIn, liveCred, poll, barred, limited, hammered>> /\ Do(p, job)
          /\ \/ stash' = IF signedIn = doing[p].slot THEN stash ELSE [stash EXCEPT ![signedIn] = liveCred]
             \/ failures' = failures + 1 /\ stash' = stash
      BY <2>5 DEF restash_outgoing, Go, Fail
    <3>2. /\ doing[p] \in Held /\ doing[p] # Rest /\ doing[p].step = "restash" /\ doing[p].cred \in Creds /\ doing[p].slot \in Slots
          /\ OneAccountInv => \A q \in Procs \ {p} : doing[q] = Rest
      BY <1>s, <2>0, <3>1, AtIsHeld, JobStep
    <3>3. job \in Held /\ job.step = "live" /\ job.slot = doing[p].slot /\ job.cred = doing[p].cred
      BY <1>s, <3>2 DEF Held
    <3> HIDE DEF job
    <3>4. /\ doing' \in [Procs -> Held \cup {Rest}] /\ doing'[p] = job
          /\ \A q \in Procs \ {p} : doing'[q] = doing[q]
      BY <2>0, <3>1, <3>3, JobDone
    <3>5. stash' \in [Slots -> Creds]
      BY <2>t, <3>1
    <3>6. AccountTypeOK'
      BY <2>0, <2>m, <3>1, <3>4, <3>5 DEF AccountTypeOK, Held
    <3>7. OneAccountInv => OneAccountInv'
      <4> SUFFICES ASSUME OneAccountInv PROVE OneAccountInv'
        OBVIOUS
      <4>1. doing[p].cred.acct = doing[p].slot
        BY <3>2 DEF OneAccountInv, HoldsItsOwn
      <4>2. liveCred.acct = signedIn
        BY <3>1, <3>2, OneAtWork DEF OneAccountInv
      <4>3. \A a \in Slots : stash'[a].acct = a
        BY <2>t, <3>1, <4>2 DEF OneAccountInv
      <4>4. HoldsItsOwn(p)'
        BY <3>3, <3>4, <4>1 DEF HoldsItsOwn, PollSteps
      <4> QED
        BY <3>1, <3>2, <3>4, <4>2, <4>3, <4>4, OneAccountKept
    <3>8. failures' = 0 /\ OneAccountInv /\ GoodCredInv => GoodCredInv'
      <4> SUFFICES ASSUME failures' = 0, OneAccountInv, GoodCredInv PROVE GoodCredInv'
        OBVIOUS
      <4>1. doing[p].slot # signedIn /\ doing[p].cred.gen = server[doing[p].slot]
        BY <3>2 DEF GoodCredInv, HoldsGood, SwitchSteps
      <4>2. /\ liveCred.gen = server[liveCred.acct] /\ liveCred.acct = signedIn
            /\ \A a \in Slots : a = signedIn \/ stash[a].gen = server[a]
        BY <3>2, OneAtWork DEF GoodCredInv, OneAccountInv
      <4>3. failures' # failures + 1
        BY <2>0 DEF AccountTypeOK
      <4>4. stash' = [stash EXCEPT ![signedIn] = liveCred]
        BY <3>1, <4>1, <4>3
      <4>5. \A a \in Slots : stash'[a].gen = server'[a]
        BY <2>t, <3>1, <4>2, <4>4
      <4>6. HoldsGood(p)'
        BY <2>t, <3>1, <3>3, <3>4, <4>1, <4>5 DEF HoldsGood, SwitchSteps
      <4> QED
        BY <3>1, <3>2, <3>4, <4>2, <4>5, <4>6, GoodCredKept
    <3>9. BackoffInv /\ ~hammered => BackoffInv' /\ ~hammered'
      BY <2>0, <3>1, <3>2, <3>3, <3>4, BackoffKept DEF PollSteps
    <3> QED
      BY <2>a, <3>6, <3>7, <3>8, <3>9
  <2>6. ASSUME NEW p \in Procs, write_live(p) PROVE AccountInv'
    <3>1. /\ At(p, "live") /\ UNCHANGED <<server, signedIn, stash, poll, barred, limited, hammered>>
      BY <2>6 DEF write_live
    <3>2. /\ doing[p] \in Held /\ doing[p] # Rest /\ doing[p].step = "live" /\ doing[p].cred \in Creds /\ doing[p].slot \in Slots
          /\ OneAccountInv => \A q \in Procs \ {p} : doing[q] = Rest
      BY <1>s, <2>0, <3>1, AtIsHeld, JobStep
    <3>3. PICK job \in Held \cup {Rest} :
            /\ Do(p, job)
            /\ \/ /\ job.step = "identity" /\ job.slot = doing[p].slot /\ job.cred = liveCred
                  /\ liveCred' = doing[p].cred
               \/ job = Rest /\ failures' = failures + 1 /\ UNCHANGED liveCred
      <4>1. CASE /\ Do(p, [doing[p] EXCEPT !.step = "identity", !.cred = liveCred])
                 /\ liveCred' = doing[p].cred
        <5> DEFINE j == [doing[p] EXCEPT !.step = "identity", !.cred = liveCred]
        <5>1. j \in Held /\ j.step = "identity" /\ j.slot = doing[p].slot /\ j.cred = liveCred
          BY <1>s, <2>t, <3>2 DEF Held
        <5>2. Do(p, j)
          BY <4>1
        <5> HIDE DEF j
        <5> QED
          BY <4>1, <5>1, <5>2
      <4>2. CASE Fail /\ Stop(p) /\ UNCHANGED liveCred
        BY <4>2 DEF Stop, Fail
      <4> QED
        BY <2>6, <4>1, <4>2 DEF write_live
    <3>4. /\ doing' \in [Procs -> Held \cup {Rest}] /\ doing'[p] = job
          /\ \A q \in Procs \ {p} : doing'[q] = doing[q]
      BY <2>0, <3>3, JobDone
    <3>5. liveCred' \in Creds
      BY <2>t, <3>2, <3>3
    <3>6. AccountTypeOK'
      BY <2>0, <2>m, <3>1, <3>4, <3>5 DEF AccountTypeOK, Held
    <3>7. OneAccountInv => OneAccountInv'
      <4> SUFFICES ASSUME OneAccountInv PROVE OneAccountInv'
        OBVIOUS
      <4>1. doing[p].cred.acct = doing[p].slot
        BY <3>2 DEF OneAccountInv, HoldsItsOwn
      <4>2. liveCred.acct = signedIn /\ \A a \in Slots : stash'[a].acct = a
        BY <3>1, <3>2, OneAtWork DEF OneAccountInv
      <4>3. HoldsItsOwn(p)'
        BY <3>1, <3>3, <3>4, <4>1, <4>2 DEF HoldsItsOwn, PollSteps, Rest
      <4>4. doing'[p].step # "identity" => liveCred'.acct = signedIn'
        BY <3>1, <3>3, <3>4, <4>2
      <4> QED
        BY <3>2, <3>4, <4>2, <4>3, <4>4, OneAccountKept
    <3>8. failures' = 0 /\ OneAccountInv /\ GoodCredInv => GoodCredInv'
      <4> SUFFICES ASSUME failures' = 0, OneAccountInv, GoodCredInv PROVE GoodCredInv'
        OBVIOUS
      <4>1. /\ doing[p].slot # signedIn /\ doing[p].cred.gen = server[doing[p].slot]
            /\ doing[p].cred.acct = doing[p].slot /\ stash[signedIn].gen = server[signedIn]
        BY <3>2 DEF GoodCredInv, HoldsGood, SwitchSteps, OneAccountInv, HoldsItsOwn
      <4>2. \A a \in Slots : a = signedIn \/ stash[a].gen = server[a]
        BY <3>2, OneAtWork DEF GoodCredInv
      <4>3. failures' # failures + 1
        BY <2>0 DEF AccountTypeOK
      <4>4. job.step = "identity" /\ job.slot = doing[p].slot /\ liveCred' = doing[p].cred
        BY <3>3, <4>3
      <4>5. HoldsGood(p)'
        BY <3>1, <3>4, <4>1, <4>4 DEF HoldsGood, SwitchSteps
      <4> QED
        BY <3>1, <3>2, <3>4, <4>2, <4>4, <4>5, GoodCredKept
    <3>9. BackoffInv /\ ~hammered => BackoffInv' /\ ~hammered'
      BY <2>0, <3>1, <3>2, <3>3, <3>4, BackoffKept DEF PollSteps, Rest
    <3> QED
      BY <2>a, <3>6, <3>7, <3>8, <3>9
  <2>7. ASSUME NEW p \in Procs, write_claude_json(p) PROVE AccountInv'
    <3>1. /\ At(p, "identity") /\ Do(p, Rest) /\ UNCHANGED <<server, stash, poll, barred, limited, hammered>>
          /\ \/ signedIn' = doing[p].slot /\ UNCHANGED liveCred
             \/ failures' = failures + 1 /\ liveCred' = doing[p].cred /\ UNCHANGED signedIn
             \/ failures' = failures + 2 /\ UNCHANGED <<signedIn, liveCred>>
      BY <2>7 DEF write_claude_json, Stop, Fail
    <3>2. /\ doing[p] \in Held /\ doing[p] # Rest /\ doing[p].step = "identity" /\ doing[p].cred \in Creds /\ doing[p].slot \in Slots
          /\ OneAccountInv => \A q \in Procs \ {p} : doing[q] = Rest
      BY <1>s, <2>0, <3>1, AtIsHeld, JobStep
    <3>3. /\ doing' \in [Procs -> Held \cup {Rest}] /\ doing'[p] = Rest /\ doing'[p].step = "rest"
          /\ \A q \in Procs \ {p} : doing'[q] = doing[q]
      BY <2>0, <3>1, JobDone DEF Rest
    <3>4. AccountTypeOK'
      BY <2>0, <2>m, <3>1, <3>2, <3>3 DEF AccountTypeOK, Held
    <3>5. failures \in Nat
      BY <2>0 DEF AccountTypeOK
    <3>6. failures' <= 1 /\ OneAccountInv => OneAccountInv'
      <4> SUFFICES ASSUME failures' <= 1, OneAccountInv PROVE OneAccountInv'
        OBVIOUS
      <4>1. liveCred.acct = doing[p].slot /\ doing[p].cred.acct = signedIn /\ \A a \in Slots : stash'[a].acct = a
        BY <3>1, <3>2 DEF OneAccountInv, HoldsItsOwn
      <4>2. failures' # failures + 2
        BY <3>5
      <4>3. liveCred'.acct = signedIn'
        BY <3>1, <4>1, <4>2
      <4>4. HoldsItsOwn(p)'
        BY <3>3 DEF HoldsItsOwn, PollSteps
      <4> QED
        BY <3>2, <3>3, <4>1, <4>3, <4>4, OneAccountKept
    <3>7. failures' = 0 /\ OneAccountInv /\ GoodCredInv => GoodCredInv'
      <4> SUFFICES ASSUME failures' = 0, OneAccountInv, GoodCredInv PROVE GoodCredInv'
        OBVIOUS
      <4>1. stash[signedIn].gen = server[signedIn] /\ liveCred.gen = server[liveCred.acct]
        BY <3>2 DEF GoodCredInv, HoldsGood
      <4>2. \A a \in Slots : stash[a].gen = server[a]
        BY <3>2, <4>1, OneAtWork DEF GoodCredInv
      <4>3. failures' # failures + 1 /\ failures' # failures + 2
        BY <3>5
      <4>4. HoldsGood(p)'
        BY <3>3 DEF HoldsGood, SwitchSteps
      <4> QED
        BY <3>1, <3>2, <3>3, <4>1, <4>2, <4>3, <4>4, GoodCredKept
    <3>8. BackoffInv /\ ~hammered => BackoffInv' /\ ~hammered'
      BY <2>0, <3>1, <3>2, <3>3, BackoffKept DEF PollSteps
    <3> QED
      BY <2>a, <3>4, <3>6, <3>7, <3>8
  <2>8. ASSUME NEW p \in Procs, DieHalfway(p) PROVE AccountInv'
    <3>1. /\ Do(p, Rest) /\ poll' \in {poll, NoPoll} /\ deaths_' = deaths_ + 1
          /\ UNCHANGED <<server, signedIn, liveCred, stash, barred, limited, hammered>>
      BY <2>8 DEF DieHalfway, Stop
    <3>2. doing' \in [Procs -> Held \cup {Rest}]
      BY <2>0, <3>1, JobDone
    <3>3. poll' \in [todo : SUBSET Slots, active : SUBSET Slots, barred : SUBSET Slots]
      BY <2>t, <3>1 DEF NoPoll
    <3>4. AccountTypeOK'
      BY <2>0, <2>m, <3>1, <3>2, <3>3 DEF AccountTypeOK, Held
    <3>5. deaths_' # 0
      BY <2>0, <3>1 DEF AccountTypeOK
    <3> QED
      BY <2>a, <3>4, <3>5 DEF Alone
  <2>9. CASE capture_current
    <3>1. /\ "person" \in Procs /\ doing["person"] = Rest /\ stash' = [stash EXCEPT ![signedIn] = liveCred]
          /\ Alongside(Procs \ {"person"})
          /\ UNCHANGED <<server, signedIn, liveCred, doing, poll, barred, limited, hammered>>
      BY <2>9, <2>t, JobStep DEF capture_current, At
    <3>2. AccountTypeOK'
      BY <2>0, <2>m, <2>t, <3>1 DEF AccountTypeOK
    <3>3. overlaps' = 0 => ~Switching /\ \A q \in Procs : doing[q] = Rest /\ doing[q].step = "rest"
      BY <2>0, <3>1, NobodyElse DEF Switching, Rest
    <3>4. overlaps' = 0 /\ OneAccountInv => OneAccountInv'
      <4> SUFFICES ASSUME overlaps' = 0, OneAccountInv PROVE OneAccountInv'
        OBVIOUS
      <4>1. liveCred.acct = signedIn
        BY <3>3 DEF OneAccountInv
      <4>2. \A a \in Slots : stash'[a].acct = a
        BY <2>t, <3>1, <4>1 DEF OneAccountInv
      <4>3. \A q \in Procs : HoldsItsOwn(q)'
        BY <3>1, <3>3 DEF HoldsItsOwn, PollSteps
      <4> QED
        BY <3>1, <3>3, <4>1, <4>2, <4>3 DEF OneAccountInv
    <3>5. overlaps' = 0 /\ GoodCredInv => GoodCredInv'
      <4> SUFFICES ASSUME overlaps' = 0, GoodCredInv PROVE GoodCredInv'
        OBVIOUS
      <4>1. \A q \in Procs : HoldsGood(q)'
        BY <3>1, <3>3 DEF HoldsGood, SwitchSteps
      <4>2. \A a \in Slots : a = signedIn \/ stash'[a].gen = server[a]
        BY <2>t, <3>1, <3>3 DEF GoodCredInv, Fetched
      <4> QED
        BY <3>1, <3>3, <4>1, <4>2 DEF GoodCredInv
    <3>6. BackoffInv /\ ~hammered => BackoffInv' /\ ~hammered'
      BY <3>1 DEF BackoffInv, At
    <3> QED
      BY <2>a, <3>2, <3>4, <3>5, <3>6 DEF Alone
  <2>10. CASE StartPoll
    <3> DEFINE job == [step |-> "poll", slot |-> signedIn, cred |-> liveCred]
    <3>1. /\ "poller" \in Procs /\ doing["poller"] = Rest /\ doing["poller"].step = "rest" /\ Do("poller", job)
          /\ poll' = [todo |-> Slots, active |-> {signedIn}, barred |-> barred]
          /\ Alongside(Procs \ {"poller"})
          /\ UNCHANGED <<server, signedIn, liveCred, stash, barred, limited, hammered>>
      BY <2>10, <2>t, JobStep DEF StartPoll, At, Polling
    <3>2. job \in Held /\ job.step = "poll"
      BY <1>s, <2>t DEF Held
    <3> HIDE DEF job
    <3>3. /\ doing' \in [Procs -> Held \cup {Rest}] /\ doing'["poller"] = job
          /\ \A q \in Procs \ {"poller"} : doing'[q] = doing[q]
      BY <2>0, <3>1, <3>2, JobDone
    <3>4. AccountTypeOK'
      <4>1. poll' \in [todo : SUBSET Slots, active : SUBSET Slots, barred : SUBSET Slots]
        BY <2>t, <3>1
      <4> QED
        BY <2>0, <2>m, <3>1, <3>3, <4>1 DEF AccountTypeOK, Held
    <3>5. overlaps' = 0 => ~Switching /\ (\A a \in Slots : ~Fetched(a)) /\ \A q \in Procs : doing[q] = Rest
      BY <2>0, <3>1, NobodyElse DEF Switching, Fetched, Rest
    <3>6. overlaps' = 0 /\ OneAccountInv => OneAccountInv'
      <4> SUFFICES ASSUME overlaps' = 0, OneAccountInv PROVE OneAccountInv'
        OBVIOUS
      <4>1. HoldsItsOwn("poller")'
        BY <3>1, <3>2, <3>3 DEF HoldsItsOwn, PollSteps
      <4>2. liveCred'.acct = signedIn' /\ \A a \in Slots : stash'[a].acct = a
        BY <3>1, <3>5 DEF OneAccountInv
      <4> QED
        BY <3>1, <3>3, <3>5, <4>1, <4>2, OneAccountKept
    <3>7. overlaps' = 0 /\ GoodCredInv => GoodCredInv'
      <4> SUFFICES ASSUME overlaps' = 0, GoodCredInv PROVE GoodCredInv'
        OBVIOUS
      <4>1. HoldsGood("poller")'
        BY <3>1, <3>2, <3>3 DEF HoldsGood, SwitchSteps
      <4>2. liveCred'.gen = server'[liveCred'.acct] /\ \A a \in Slots : a = signedIn' \/ stash'[a].gen = server'[a]
        BY <3>1, <3>5 DEF GoodCredInv
      <4> QED
        BY <3>1, <3>3, <3>5, <4>1, <4>2, GoodCredKept
    <3>8. BackoffInv /\ ~hammered => BackoffInv' /\ ~hammered'
      <4> SUFFICES ASSUME BackoffInv, ~hammered PROVE BackoffInv'
        BY <3>1
      <4>1. limited \subseteq barred
        BY <3>1 DEF BackoffInv, At
      <4>2. limited' \subseteq poll'.barred /\ doing'["poller"].step = "poll"
        BY <3>1, <3>2, <3>3, <4>1
      <4> QED
        BY <3>1, <4>2 DEF BackoffInv, At
    <3> QED
      BY <2>a, <3>4, <3>6, <3>7, <3>8 DEF Alone
  <2>11. ASSUME NEW s \in Slots, PollSlot(s) PROVE AccountInv'
    <3> DEFINE job == [step |-> "ask", slot |-> s, cred |-> stash[s]]
    <3>1. /\ At("poller", "poll") /\ UNCHANGED <<server, signedIn, liveCred, stash, barred, hammered>>
          /\ \/ UNCHANGED <<doing, limited>> /\ poll' = [poll EXCEPT !.todo = @ \ {s}]
             \/ /\ limited' = limited \ {s} /\ UNCHANGED doing
                /\ poll' = [poll EXCEPT !.todo = @ \ {s}, !.barred = @ \ {s}]
             \/ /\ s \notin poll.active \cup poll.barred /\ Do("poller", job)
                /\ poll' = [poll EXCEPT !.todo = @ \ {s}] /\ UNCHANGED limited
      BY <2>11 DEF PollSlot, AskFor
    <3>2. /\ "poller" \in Procs /\ doing["poller"] # Rest /\ doing["poller"].step = "poll"
          /\ OneAccountInv => \A q \in Procs \ {"poller"} : doing[q] = Rest
      BY <1>s, <2>0, <3>1, AtIsHeld
    <3>3. /\ poll' \in [todo : SUBSET Slots, active : SUBSET Slots, barred : SUBSET Slots]
          /\ poll'.active = poll.active /\ limited' \subseteq limited
          /\ poll'.barred = poll.barred \/ (poll'.barred = poll.barred \ {s} /\ limited' = limited \ {s} /\ doing' = doing)
      BY <2>t, <3>1
    <3>4. job \in Held /\ job.step = "ask" /\ job.slot = s /\ job.cred = stash[s]
      BY <1>s, <2>t DEF Held
    <3> HIDE DEF job
    <3>5. /\ doing' \in [Procs -> Held \cup {Rest}] /\ \A q \in Procs \ {"poller"} : doing'[q] = doing[q]
          /\ \/ doing'["poller"] = doing["poller"]
             \/ doing'["poller"] = job /\ s \notin poll.active \cup poll.barred
      <4>1. CASE UNCHANGED doing
        BY <2>t, <4>1
      <4>2. CASE Do("poller", job) /\ s \notin poll.active \cup poll.barred
        <5>1. /\ doing' \in [Procs -> Held \cup {Rest}] /\ doing'["poller"] = job
              /\ \A q \in Procs \ {"poller"} : doing'[q] = doing[q]
          BY <2>0, <3>2, <3>4, <4>2, JobDone
        <5> QED
          BY <4>2, <5>1
      <4> QED
        BY <3>1, <4>1, <4>2
    <3>6. AccountTypeOK'
      BY <2>0, <2>t, <2>m, <3>1, <3>3, <3>5 DEF AccountTypeOK, Held
    <3>7. OneAccountInv => OneAccountInv'
      <4> SUFFICES ASSUME OneAccountInv PROVE OneAccountInv'
        OBVIOUS
      <4>1. /\ poll.active = {signedIn} /\ \A a \in Slots : stash[a].acct = a
        BY <3>2 DEF OneAccountInv, HoldsItsOwn, PollSteps
      <4>2. liveCred.acct = signedIn
        BY <3>2, OneAtWork DEF OneAccountInv
      <4>3. doing'["poller"].step \in {"poll", "ask"}
        BY <3>2, <3>4, <3>5
      <4>4. HoldsItsOwn("poller")'
        BY <3>1, <3>2, <3>3, <3>4, <3>5, <4>1 DEF HoldsItsOwn, PollSteps
      <4> QED
        BY <3>1, <3>2, <3>5, <4>1, <4>2, <4>4, OneAccountKept
    <3>8. OneAccountInv /\ GoodCredInv => GoodCredInv'
      <4> SUFFICES ASSUME OneAccountInv, GoodCredInv PROVE GoodCredInv'
        OBVIOUS
      <4>1. /\ liveCred.gen = server[liveCred.acct]
            /\ \A a \in Slots : a = signedIn \/ stash[a].gen = server[a]
        BY <3>2, OneAtWork DEF GoodCredInv
      <4>2. HoldsGood("poller")'
        BY <3>1, <3>2, <3>4, <3>5 DEF HoldsGood, SwitchSteps
      <4> QED
        BY <3>1, <3>2, <3>5, <4>1, <4>2, GoodCredKept
    <3>9. BackoffInv /\ ~hammered => BackoffInv' /\ ~hammered'
      <4> SUFFICES ASSUME BackoffInv, ~hammered PROVE BackoffInv'
        BY <3>1
      <4>1. limited \subseteq poll.barred
        BY <3>1 DEF BackoffInv
      <4>2. limited' \subseteq poll'.barred
        BY <3>3, <4>1
      <4>3. \/ doing'["poller"].step = "poll"
            \/ doing'["poller"].step = "ask" /\ doing'["poller"].slot \notin limited'
        BY <3>2, <3>3, <3>4, <3>5, <4>1
      <4> QED
        BY <3>2, <4>2, <4>3 DEF BackoffInv, At
    <3> QED
      BY <2>a, <3>6, <3>7, <3>8, <3>9
  <2>12. CASE refresh_with_backoff
    <3> DEFINE p == "poller"
               c == doing[p].cred
               s == doing[p].slot
    <3>1. /\ At(p, "ask") /\ UNCHANGED <<signedIn, liveCred, stash, barred>> /\ hammered' = (hammered \/ s \in limited)
      BY <2>12 DEF refresh_with_backoff
    <3>2. /\ p \in Procs /\ doing[p] \in Held /\ doing[p] # Rest /\ doing[p].step = "ask" /\ c \in Creds /\ s \in Slots
          /\ OneAccountInv => \A q \in Procs \ {p} : doing[q] = Rest
      BY <1>s, <2>0, <3>1, AtIsHeld, JobStep
    <3>3. PICK job \in Held :
            /\ Do(p, job) /\ job.slot = s
            /\ \/ /\ job.step = "keep" /\ job.cred = merge_refreshed(c) /\ Valid(c) /\ Rotates(c)
                  /\ limited' = limited \ {s} /\ UNCHANGED poll
               \/ job.step = "poll" /\ UNCHANGED <<server, limited, poll>>
               \/ /\ job.step = "poll" /\ limited' = limited \cup {s} /\ UNCHANGED server
                  /\ poll' = [poll EXCEPT !.barred = @ \cup {s}]
               \/ /\ job.step = "poll" /\ failures' = failures + 1 /\ Valid(c) /\ Rotates(c)
                  /\ UNCHANGED <<limited, poll>>
      <4> DEFINE back == [doing[p] EXCEPT !.step = "poll"]
      <4>0. back \in Held /\ back.step = "poll" /\ back.slot = s
        BY <1>s, <3>2 DEF Held
      <4>1. CASE UsageAnswered(p, "keep") /\ limited' = limited \ {s} /\ UNCHANGED poll
        <5> DEFINE j == [doing[p] EXCEPT !.step = "keep", !.cred = merge_refreshed(c)]
        <5>1. merge_refreshed(c) \in Creds
          BY <2>0, <3>2, <4>1, TokenSpent DEF UsageAnswered
        <5>2. j \in Held /\ j.step = "keep" /\ j.slot = s /\ j.cred = merge_refreshed(c)
          BY <1>s, <3>2, <5>1 DEF Held
        <5>3. Do(p, j) /\ Valid(c) /\ Rotates(c)
          BY <4>1 DEF UsageAnswered
        <5> HIDE DEF j
        <5> QED
          BY <4>1, <5>2, <5>3
      <4>2. CASE Go(p, "poll") /\ UNCHANGED <<server, limited, poll>>
        <5>1. Do(p, back)
          BY <4>2 DEF Go
        <5> HIDE DEF back
        <5> QED
          BY <4>0, <4>2, <5>1
      <4>3. CASE /\ poll' = [poll EXCEPT !.barred = @ \cup {s}] /\ limited' = limited \cup {s}
                 /\ Go(p, "poll") /\ UNCHANGED server
        <5>1. Do(p, back)
          BY <4>3 DEF Go
        <5> HIDE DEF back
        <5> QED
          BY <4>0, <4>3, <5>1
      <4>4. CASE Unanswered(c) /\ Go(p, "poll") /\ UNCHANGED <<poll, limited>>
        <5>1. Do(p, back) /\ failures' = failures + 1 /\ (UNCHANGED server \/ (Valid(c) /\ Rotates(c)))
          BY <4>4 DEF Go, Unanswered, Fail
        <5> HIDE DEF back
        <5> QED
          BY <4>0, <4>4, <5>1
      <4> QED
        BY <2>12, <4>1, <4>2, <4>3, <4>4 DEF refresh_with_backoff
    <3>4. /\ doing' \in [Procs -> Held \cup {Rest}] /\ doing'[p] = job
          /\ \A q \in Procs \ {p} : doing'[q] = doing[q]
      BY <2>0, <3>2, <3>3, JobDone
    <3>5. server' \in [Slots -> 0..MaxGen]
      BY <2>0, <2>t, <3>2, <3>3, TokenSpent
    <3>6. /\ poll' \in [todo : SUBSET Slots, active : SUBSET Slots, barred : SUBSET Slots]
          /\ poll'.active = poll.active /\ limited' \subseteq Slots
      BY <2>t, <3>2, <3>3
    <3>7. AccountTypeOK'
      BY <2>0, <2>t, <2>m, <3>1, <3>4, <3>5, <3>6 DEF AccountTypeOK, Held
    <3>8. OneAccountInv => OneAccountInv'
      <4> SUFFICES ASSUME OneAccountInv PROVE OneAccountInv'
        OBVIOUS
      <4>1. poll.active = {signedIn} /\ s # signedIn /\ c.acct = s
        BY <3>2 DEF OneAccountInv, HoldsItsOwn, PollSteps
      <4>2. liveCred'.acct = signedIn' /\ \A a \in Slots : stash'[a].acct = a
        BY <3>1, <3>2, OneAtWork DEF OneAccountInv
      <4>3. merge_refreshed(c).acct = c.acct
        BY <3>2 DEF merge_refreshed, Creds
      <4>4. HoldsItsOwn(p)'
        BY <3>1, <3>3, <3>4, <3>6, <4>1, <4>3 DEF HoldsItsOwn, PollSteps
      <4> QED
        BY <3>2, <3>4, <4>2, <4>4, OneAccountKept
    <3>9. failures' = 0 /\ OneAccountInv /\ GoodCredInv => GoodCredInv'
      <4> SUFFICES ASSUME failures' = 0, OneAccountInv, GoodCredInv PROVE GoodCredInv'
        OBVIOUS
      <4>1. s # signedIn /\ c.acct = s
        BY <3>2 DEF OneAccountInv, HoldsItsOwn
      <4>2. /\ liveCred.gen = server[liveCred.acct] /\ liveCred.acct = signedIn
            /\ \A a \in Slots : a = signedIn \/ stash[a].gen = server[a]
        BY <3>2, OneAtWork DEF GoodCredInv, OneAccountInv
      <4>3. failures' # failures + 1
        BY <2>0 DEF AccountTypeOK
      <4>4. CASE job.step = "keep" /\ job.cred = merge_refreshed(c) /\ Valid(c) /\ Rotates(c)
        <5>1. /\ merge_refreshed(c).gen = server'[s]
              /\ \A a \in Slots : a # s => server'[a] = server[a]
          BY <2>0, <3>2, <4>1, <4>4, TokenSpent
        <5>2. HoldsGood(p)'
          BY <3>1, <3>3, <3>4, <4>1, <4>4, <5>1 DEF HoldsGood, SwitchSteps
        <5>3. liveCred'.gen = server'[liveCred'.acct]
          BY <2>t, <3>1, <4>1, <4>2, <5>1
        <5>4. \A a \in Slots : a = signedIn' \/ stash'[a].gen = server'[a] \/ doing'[p].slot = a
          BY <3>1, <3>3, <3>4, <4>2, <5>1
        <5> QED
          BY <3>2, <3>4, <4>4, <5>2, <5>3, <5>4, GoodCredKept
      <4>5. CASE job.step = "poll" /\ UNCHANGED server
        <5>1. HoldsGood(p)'
          BY <3>4, <4>5 DEF HoldsGood, SwitchSteps
        <5> QED
          BY <3>1, <3>2, <3>4, <4>2, <4>5, <5>1, GoodCredKept
      <4> QED
        BY <3>3, <4>3, <4>4, <4>5
    <3>10. BackoffInv /\ ~hammered => BackoffInv' /\ ~hammered'
      <4> SUFFICES ASSUME BackoffInv, ~hammered PROVE BackoffInv' /\ ~hammered'
        OBVIOUS
      <4>1. limited \subseteq poll.barred /\ s \notin limited
        BY <3>1, <3>2 DEF BackoffInv
      <4>2. limited' \subseteq poll'.barred /\ (job.step = "keep" => s \notin limited')
        BY <2>t, <3>3, <4>1
      <4>3. job.step \in {"poll", "keep"} /\ job.slot = s
        BY <3>3
      <4> QED
        BY <3>1, <3>2, <3>4, <4>1, <4>2, <4>3 DEF BackoffInv, At
    <3> QED
      BY <2>a, <3>7, <3>8, <3>9, <3>10
  <2>13. CASE StoreForPoll
    <3> DEFINE p == "poller"
               s == doing[p].slot
               job == [doing[p] EXCEPT !.step = "poll"]
    <3>1. /\ At(p, "keep") /\ Do(p, job) /\ UNCHANGED <<server, signedIn, liveCred, barred, limited, hammered>>
          /\ \/ stash' = [stash EXCEPT ![s] = doing[p].cred] /\ poll' = [poll EXCEPT !.barred = @ \ {s}]
             \/ failures' = failures + 1 /\ UNCHANGED <<stash, poll>>
      BY <2>13 DEF StoreForPoll, Go, Fail
    <3>2. /\ p \in Procs /\ doing[p] \in Held /\ doing[p] # Rest /\ doing[p].step = "keep" /\ doing[p].cred \in Creds /\ s \in Slots
          /\ OneAccountInv => \A q \in Procs \ {p} : doing[q] = Rest
      BY <1>s, <2>0, <3>1, AtIsHeld, JobStep
    <3>3. job \in Held /\ job.step = "poll"
      BY <1>s, <3>2 DEF Held
    <3> HIDE DEF job
    <3>4. /\ doing' \in [Procs -> Held \cup {Rest}] /\ doing'[p] = job
          /\ \A q \in Procs \ {p} : doing'[q] = doing[q]
      BY <2>0, <3>1, <3>2, <3>3, JobDone
    <3>5. /\ stash' \in [Slots -> Creds]
          /\ poll' \in [todo : SUBSET Slots, active : SUBSET Slots, barred : SUBSET Slots] /\ poll'.active = poll.active
          /\ poll.barred \ {s} \subseteq poll'.barred
      BY <2>t, <3>1, <3>2
    <3>6. AccountTypeOK'
      BY <2>0, <2>t, <2>m, <3>1, <3>4, <3>5 DEF AccountTypeOK, Held
    <3>7. OneAccountInv => OneAccountInv'
      <4> SUFFICES ASSUME OneAccountInv PROVE OneAccountInv'
        OBVIOUS
      <4>1. poll.active = {signedIn} /\ doing[p].cred.acct = s
        BY <3>2 DEF OneAccountInv, HoldsItsOwn, PollSteps
      <4>2. \A a \in Slots : stash'[a].acct = a
        BY <2>t, <3>1, <3>2, <4>1 DEF OneAccountInv
      <4>3. liveCred'.acct = signedIn'
        BY <3>1, <3>2, OneAtWork DEF OneAccountInv
      <4>4. HoldsItsOwn(p)'
        BY <3>1, <3>3, <3>4, <3>5, <4>1 DEF HoldsItsOwn, PollSteps
      <4> QED
        BY <3>2, <3>4, <4>2, <4>3, <4>4, OneAccountKept
    <3>8. failures' = 0 /\ OneAccountInv /\ GoodCredInv => GoodCredInv'
      <4> SUFFICES ASSUME failures' = 0, OneAccountInv, GoodCredInv PROVE GoodCredInv'
        OBVIOUS
      <4>1. doing[p].cred.gen = server[s]
        BY <3>2 DEF GoodCredInv, HoldsGood
      <4>2. /\ liveCred.gen = server[liveCred.acct]
            /\ \A a \in Slots : a = signedIn \/ stash[a].gen = server[a] \/ a = s
        BY <3>2, OneAtWork DEF GoodCredInv
      <4>3. failures' # failures + 1
        BY <2>0 DEF AccountTypeOK
      <4>4. stash' = [stash EXCEPT ![s] = doing[p].cred]
        BY <3>1, <4>3
      <4>5. \A a \in Slots : a = signedIn' \/ stash'[a].gen = server'[a]
        BY <2>t, <3>1, <3>2, <4>1, <4>2, <4>4
      <4>6. HoldsGood(p)'
        BY <3>3, <3>4 DEF HoldsGood, SwitchSteps
      <4> QED
        BY <3>1, <3>2, <3>4, <4>2, <4>5, <4>6, GoodCredKept
    <3>9. BackoffInv /\ ~hammered => BackoffInv' /\ ~hammered'
      <4> SUFFICES ASSUME BackoffInv, ~hammered PROVE BackoffInv'
        BY <3>1
      <4>1. limited \subseteq poll.barred /\ s \notin limited
        BY <3>1, <3>2 DEF BackoffInv
      <4>2. limited' \subseteq poll'.barred
        BY <3>1, <3>5, <4>1
      <4> QED
        BY <3>2, <3>3, <3>4, <4>2 DEF BackoffInv, At
    <3> QED
      BY <2>a, <3>6, <3>7, <3>8, <3>9
  <2>14. CASE EndPoll
    <3> DEFINE p == "poller"
    <3>1. /\ At(p, "poll") /\ poll' = NoPoll /\ (barred' = poll.barred \/ (failures' = failures + 1 /\ UNCHANGED barred))
          /\ UNCHANGED <<server, signedIn, liveCred, stash, limited, hammered>>
      BY <2>14 DEF EndPoll, save_state, Fail
    <3>2. /\ p \in Procs /\ doing[p] # Rest /\ doing[p].step = "poll"
          /\ OneAccountInv => \A q \in Procs \ {p} : doing[q] = Rest
      BY <1>s, <2>0, <3>1, AtIsHeld
    <3>3. PICK job \in Held \cup {Rest} :
            /\ Do(p, job)
            /\ \/ job = Rest
               \/ /\ job.step = "refresh" /\ job.slot \in Slots /\ job.slot \notin poll.active
                  /\ job.cred = stash[job.slot]
      <4>1. CASE Stop(p)
        BY <4>1 DEF Stop
      <4>2. ASSUME NEW t \in Slots \ poll.active, Begin(p, t)
            PROVE  \E job \in Held \cup {Rest} :
                     /\ Do(p, job) /\ job.step = "refresh" /\ job.slot \in Slots /\ job.slot \notin poll.active
                     /\ job.cred = stash[job.slot]
        <5> DEFINE j == [step |-> "refresh", slot |-> t, cred |-> stash[t]]
        <5>1. j \in Held /\ j.step = "refresh" /\ j.slot = t /\ j.cred = stash[t]
          BY <1>s, <2>t DEF Held
        <5>2. Do(p, j)
          BY <4>2 DEF Begin
        <5> HIDE DEF j
        <5> QED
          BY <5>1, <5>2
      <4> QED
        BY <2>14, <4>1, <4>2 DEF EndPoll
    <3>4. /\ doing' \in [Procs -> Held \cup {Rest}] /\ doing'[p] = job
          /\ \A q \in Procs \ {p} : doing'[q] = doing[q]
      BY <2>0, <3>2, <3>3, JobDone
    <3>5. job.step \in {"rest", "refresh"}
      BY <3>3 DEF Rest
    <3>6. AccountTypeOK'
      <4>1. /\ poll' \in [todo : SUBSET Slots, active : SUBSET Slots, barred : SUBSET Slots]
            /\ barred' \subseteq Slots
        BY <2>t, <3>1 DEF NoPoll
      <4> QED
        BY <2>0, <2>t, <2>m, <3>1, <3>4, <4>1 DEF AccountTypeOK, Held
    <3>7. OneAccountInv => OneAccountInv'
      <4> SUFFICES ASSUME OneAccountInv PROVE OneAccountInv'
        OBVIOUS
      <4>1. liveCred'.acct = signedIn' /\ \A a \in Slots : stash'[a].acct = a
        BY <3>1, <3>2, OneAtWork DEF OneAccountInv
      <4>2. HoldsItsOwn(p)'
        <5>1. CASE job = Rest
          BY <3>4, <5>1 DEF HoldsItsOwn, PollSteps, Rest
        <5>2. CASE job.step = "refresh" /\ job.slot \in Slots /\ job.cred = stash[job.slot]
          BY <3>1, <3>4, <4>1, <5>2 DEF HoldsItsOwn, PollSteps
        <5> QED
          BY <3>3, <5>1, <5>2
      <4> QED
        BY <3>2, <3>4, <4>1, <4>2, OneAccountKept
    <3>8. OneAccountInv /\ GoodCredInv => GoodCredInv'
      <4> SUFFICES ASSUME OneAccountInv, GoodCredInv PROVE GoodCredInv'
        OBVIOUS
      <4>1. poll.active = {signedIn}
        BY <3>2 DEF OneAccountInv, HoldsItsOwn, PollSteps
      <4>2. /\ liveCred.gen = server[liveCred.acct]
            /\ \A a \in Slots : a = signedIn \/ stash[a].gen = server[a]
        BY <3>2, OneAtWork DEF GoodCredInv
      <4>3. HoldsGood(p)'
        BY <3>1, <3>3, <3>4, <3>5, <4>1 DEF HoldsGood, SwitchSteps, Rest
      <4> QED
        BY <3>1, <3>2, <3>4, <4>2, <4>3, GoodCredKept
    <3>9. failures' = 0 /\ BackoffInv /\ ~hammered => BackoffInv' /\ ~hammered'
      <4> SUFFICES ASSUME failures' = 0, BackoffInv, ~hammered PROVE BackoffInv'
        BY <3>1
      <4>1. limited \subseteq poll.barred
        BY <3>1 DEF BackoffInv
      <4>2. failures' # failures + 1
        BY <2>0 DEF AccountTypeOK
      <4>3. limited' \subseteq barred'
        BY <3>1, <4>1, <4>2
      <4> QED
        BY <3>4, <3>5, <4>3 DEF BackoffInv, At
    <3> QED
      BY <2>a, <3>6, <3>7, <3>8, <3>9
  <2>15. ASSUME NEW s \in Slots, Cool(s) PROVE AccountInv'
    <3>1. /\ limited' = limited \ {s} /\ barred' = barred \ {s} /\ poll' = [poll EXCEPT !.barred = @ \ {s}]
          /\ UNCHANGED <<server, signedIn, liveCred, stash, doing, hammered>>
      BY <2>15 DEF Cool
    <3>2. /\ poll' \in [todo : SUBSET Slots, active : SUBSET Slots, barred : SUBSET Slots]
          /\ poll'.active = poll.active /\ poll'.barred = poll.barred \ {s}
      BY <2>t, <3>1
    <3>3. AccountTypeOK'
      BY <2>0, <2>t, <2>m, <3>1, <3>2 DEF AccountTypeOK
    <3>4. OneAccountInv => OneAccountInv'
      BY <3>1, <3>2 DEF OneAccountInv, HoldsItsOwn, Switching
    <3>5. GoodCredInv => GoodCredInv'
      BY <3>1 DEF GoodCredInv, HoldsGood, Switching, Fetched
    <3>6. BackoffInv /\ ~hammered => BackoffInv' /\ ~hammered'
      BY <3>1, <3>2 DEF BackoffInv, At
    <3> QED
      BY <2>a, <3>3, <3>4, <3>5, <3>6
  <2>16. CASE UNCHANGED accountVars
    <3>1. UNCHANGED <<server, signedIn, liveCred, stash, doing, poll, barred, limited, hammered>>
      BY <2>16 DEF accountVars
    <3>2. AccountTypeOK'
      BY <2>0, <2>m, <3>1 DEF AccountTypeOK
    <3>3. (OneAccountInv => OneAccountInv') /\ (GoodCredInv => GoodCredInv')
      BY <3>1 DEF OneAccountInv, HoldsItsOwn, Switching, GoodCredInv, HoldsGood, Fetched
    <3>4. BackoffInv /\ ~hammered => BackoffInv' /\ ~hammered'
      BY <3>1 DEF BackoffInv, At
    <3> QED
      BY <2>a, <3>2, <3>3, <3>4
  <2> QED
    BY <2>1, <2>2, <2>3, <2>4, <2>5, <2>6, <2>7, <2>8, <2>9, <2>10, <2>11, <2>12, <2>13, <2>14, <2>15, <2>16
    DEF AccountNext
<1> QED
  BY <1>1, <1>2, PTL DEF AccountSpec

\* No account is lost, the credential and the identity agree, the poll spares the live
\* account and no slot told 429 is tried again in its window, as long as nothing failed and
\* nothing was asked for that the property names (paos-operator: switch.rs, usage.rs).
THEOREM AccountsAreSafe == AccountSpec => []AccountSafety
<1>1. AccountInv => AccountSafety
  <2> SUFFICES ASSUME AccountInv PROVE AccountSafety
    OBVIOUS
  <2>0. /\ AccountTypeOK /\ liveCred \in Creds /\ signedIn \in Slots /\ stash \in [Slots -> Creds]
        /\ doing \in [Procs -> Held \cup {Rest}] /\ {failures, deaths_, overlaps} \subseteq Nat
    BY DEF AccountInv, AccountTypeOK, Held
  <2>1. NothingLost
    <3> SUFFICES ASSUME Mishaps = 0, ~selfAsked, NEW a \in Slots
                 PROVE  Copy(liveCred, a) \/ Copy(stash[a], a) \/ InHand(a)
      BY DEF NothingLost
    <3>1. OneAccountInv /\ GoodCredInv
      <4>1. failures = 0 /\ deaths_ = 0 /\ overlaps = 0
        BY <2>0 DEF Mishaps
      <4>2. failures <= 1
        BY <4>1
      <4> QED
        BY <4>1, <4>2 DEF AccountInv, Alone
    <3>2. CASE a = signedIn /\ ~Switching
      BY <3>1, <3>2 DEF OneAccountInv, GoodCredInv, Copy
    <3>3. CASE a = signedIn /\ Switching
      <4>1. stash[signedIn].gen = server[signedIn]
        BY <3>1, <3>3 DEF Switching, GoodCredInv, HoldsGood
      <4> QED
        BY <3>1, <3>3, <4>1 DEF OneAccountInv, Copy
    <3>4. CASE stash[a].gen = server[a]
      BY <3>1, <3>4 DEF OneAccountInv, Copy
    <3>5. CASE Fetched(a)
      <4>1. PICK p \in Procs : doing[p].step \in {"keep", "store"} /\ doing[p].slot = a
        BY <3>5 DEF Fetched
      <4>2. doing[p] # Rest /\ doing[p].cred.acct = a /\ doing[p].cred.gen = server[a]
        BY <3>1, <4>1 DEF OneAccountInv, HoldsItsOwn, GoodCredInv, HoldsGood, Rest
      <4> QED
        BY <4>2 DEF InHand, Copy
    <3> QED
      BY <3>1, <3>2, <3>3, <3>4, <3>5 DEF GoodCredInv
  <2>2. SignedInAsOne
    <3> SUFFICES ASSUME ~Busy(Procs), deaths_ = 0, overlaps = 0, failures <= 1 PROVE liveCred.acct = signedIn
      BY DEF SignedInAsOne
    <3>1. ~Switching
      BY DEF Busy, Switching, Rest
    <3> QED
      BY <3>1 DEF AccountInv, Alone, OneAccountInv
  <2>3. LiveIsSpared
    <3> SUFFICES ASSUME At("poller", "ask"), deaths_ = 0, overlaps = 0, failures <= 1
                 PROVE  doing["poller"].slot # liveCred.acct
      BY DEF LiveIsSpared
    <3>1. OneAccountInv
      BY DEF AccountInv, Alone
    <3>2. /\ "poller" \in Procs /\ doing["poller"].step = "ask"
          /\ \A q \in Procs \ {"poller"} : doing[q] = Rest
      BY <2>0, <3>1, AtIsHeld DEF Steps
    <3>3. liveCred.acct = signedIn /\ doing["poller"].slot # signedIn
      BY <3>1, <3>2, OneAtWork DEF OneAccountInv, HoldsItsOwn
    <3> QED
      BY <3>3
  <2>4. NotHammered
    BY <2>0 DEF AccountInv, NotHammered
  <2> QED
    BY <2>0, <2>1, <2>2, <2>3, <2>4 DEF AccountSafety
<1> QED
  BY <1>1, AccountInvHolds, PTL

(***************************************************************************)
(* The decision of a proposal.                                             *)
(***************************************************************************)

\* A list with one entry rewritten is a list of the same length, whichever entry was meant.
LEMMA RewrittenIsAList ==
    ASSUME NEW S, NEW q \in Seq(S), NEW i, NEW e
    PROVE  [q EXCEPT ![i] = e] \in Seq(S \cup {e}) /\ Len([q EXCEPT ![i] = e]) = Len(q)
<1>1. q \in Seq(S \cup {e})
  BY SeqMonotonic
<1>2. CASE i \in 1..Len(q)
  BY <1>1, <1>2, ExceptSeq
<1>3. CASE i \notin 1..Len(q)
  <2>1. [q EXCEPT ![i] = e] = [j \in 1..Len(q) |-> q[j]] /\ q = [j \in 1..Len(q) |-> q[j]]
    BY <1>3
  <2> QED
    BY <1>1, <2>1
<1> QED
  BY <1>2, <1>3

\* What a decision does to a list of proposals, whatever proposal it names and however
\* often it comes.
LEMMA FirstDecisionStands ==
    ASSUME NEW S, proposals \in Seq(S), NEW id, NEW status
    PROVE  /\ \E T : set_status(proposals, id, status) \in Seq(T)
           /\ Len(set_status(proposals, id, status)) = Len(proposals)
           /\ \A i \in 1..Len(proposals) : proposals[i].status # "pending" =>
                set_status(proposals, id, status)[i].status = proposals[i].status
<1> DEFINE decided == [proposals[id] EXCEPT !.status = status]
<1>1. set_status(proposals, id, status) =
          IF proposals[id].status = "pending" THEN [proposals EXCEPT ![id] = decided] ELSE proposals
  BY DEF set_status
<1> HIDE DEF decided
<1>2. /\ [proposals EXCEPT ![id] = decided] \in Seq(S \cup {decided})
      /\ Len([proposals EXCEPT ![id] = decided]) = Len(proposals)
  BY RewrittenIsAList
<1>3. \A i \in 1..Len(proposals) : i # id => [proposals EXCEPT ![id] = decided][i] = proposals[i]
  OBVIOUS
<1> QED
  BY <1>1, <1>2, <1>3

\* One decision per proposal, whoever sends how many: a terminal over the socket, a
\* sandboxed session through the spool, a tap redelivered (queue.rs, set_status).
THEOREM OneDecision == CurationSpec => DecidedOnce
<1> DEFINE Listed == \E S : proposals \in Seq(S)
           Stands == \A id \in 1..Len(proposals) :
                       proposals[id].status # "pending" => proposals'[id].status = proposals[id].status
           Kept == Listed' /\ Stands
<1>1. CurationInit => Listed
  BY EmptySeq DEF CurationInit
<1>2. Listed /\ [CurationNext]_curationVars => Kept
  <2> SUFFICES ASSUME NEW S, proposals \in Seq(S), [CurationNext]_curationVars PROVE Kept
    OBVIOUS
  <2>1. CASE UNCHANGED proposals
    BY <2>1
  <2>2. CASE \E id, status : proposals' = set_status(proposals, id, status)
    <3>1. PICK id, status : proposals' = set_status(proposals, id, status)
      BY <2>2
    <3> QED
      BY <3>1, FirstDecisionStands
  <2>3. CASE Propose
    <3>1. PICK p \in Drafts : proposals' = Append(proposals, p)
      BY <2>3 DEF Propose, queue_add
    <3>2. proposals \in Seq(S \cup {p})
      BY SeqMonotonic
    <3> QED
      BY <3>1, <3>2, AppendProperties
  <2>4. ASSUME NEW o, ApplyMemoryOp(o) PROVE Kept
    BY <2>1, <2>2, <2>4 DEF ApplyMemoryOp
  <2>5. ASSUME NEW d, NEW o, Send(d, o) PROVE Kept
    BY <2>1, <2>4, <2>5 DEF Send
  <2>6. ASSUME NEW d \in Deciders, NEW f \in Facts, Remember(d, f) \/ ForgetFact(d, f) PROVE Kept
    BY <2>5, <2>6 DEF Remember, ForgetFact
  <2>7. ASSUME NEW d \in Deciders, SendStep(d) \/ StopDeciding(d) PROVE Kept
    BY <2>1, <2>5, <2>7 DEF SendStep, StopDeciding
  <2>8. ASSUME NEW id, PhoneApprove(id) \/ PhoneReject(id) PROVE Kept
    BY <2>1, <2>2, <2>8 DEF PhoneApprove, PhoneReject
  <2>9. ASSUME NEW d \in Deciders, NEW id, Approve(d, id) \/ Reject(d, id) PROVE Kept
    BY <2>1, <2>9 DEF Approve, Reject
  <2>10. CASE DrainMemory
    BY <2>1, <2>4, <2>10 DEF DrainMemory
  <2>11. CASE DrainRemoved \/ DrainRestarts
    BY <2>1, <2>11 DEF DrainRemoved, DrainRestarts
  <2>12. CASE UNCHANGED curationVars
    BY <2>1, <2>12 DEF curationVars
  <2> QED
    BY <2>3, <2>6, <2>7, <2>8, <2>9, <2>10, <2>11, <2>12 DEF CurationNext
<1>3. Listed /\ [CurationNext]_curationVars => Listed'
  BY <1>2
<1>4. Listed /\ [CurationNext]_curationVars =>
          [Stands]_curationVars
  <2> HIDE DEF Stands, Listed
  <2> QED
    BY <1>2
<1> QED
  BY <1>1, <1>3, <1>4, PTL DEF CurationSpec, DecidedOnce

(***************************************************************************)
(* What an approval stores.                                                *)
(***************************************************************************)

MemoryOps ==
    [op : {"remember"}, text : Facts]
      \cup [op : {"supersede"}, text : Facts, old_ids : SUBSET Facts]
      \cup [op : {"retire"}, old_ids : SUBSET Facts]
      \cup [op : {"forget"}, id : Facts]
      \cup [op : {"proposal_set_status"}, id : Nat, status : {"approved", "rejected"}]
Marks == Facts \cup {"absent", "live", "retired"}

\* The text an operation stores.
Carries(o, f) == o.op \in {"remember", "supersede"} /\ o.text = f

\* A text, and whether it is on its way for sure: stored, or carried by an operation the
\* drain does not set aside.  Those sent so far, and those the operations before the k-th
\* of a plan bear.
Texts == Facts \X BOOLEAN
Bears(o, t) == Carries(o, t[1]) /\ (t[2] => ~Quarantined(o))
Sent == {t \in Texts : \/ t[1] \in written
                       \/ \E g \in memoryFiles : Bears(g[2], t)
                       \/ ~t[2] /\ t[1] \in quarantined}
Before(ops, k) == {t \in Texts : \E j \in 1..(k - 1) : Bears(ops[j], t)}

\* A proposal that justifies retiring a fact in favour of another when the texts of S are
\* on their way, one whose texts are all in S, where only a merge without sources may rely
\* on a file that can be set aside, and an operation that asks for nothing the proposals
\* and S do not back.
Sourceless(p) == p.kind = "tidy" /\ p.targets = {}
Justifies(p, x, S) == x \in p.targets /\ (p.kind = "split" => <<p.texts[1], TRUE>> \in S)
AllIn(p, S) == \A n \in 1..Len(p.texts) : <<p.texts[n], ~Sourceless(p)>> \in S
BackedOp(o, ps, S) ==
    /\ o \in MemoryOps
    /\ o.op = "supersede" => \A x \in o.old_ids : \E i \in 1..Len(ps) : Justifies(ps[i], x, S)
    /\ o.op = "proposal_set_status" =>
         o.id \in 1..Len(ps) /\ (o.status = "approved" => AllIn(ps[o.id], S))

WellShaped(p) ==
    /\ p.kind = "split" => Len(p.texts) = 2 /\ p.targets # {}
    /\ p.kind = "tidy" => Len(p.texts) = 1
    /\ p.kind = "capture" => Len(p.texts) = 1
    /\ p.kind = "retire" => Len(p.texts) = 0
ShapeInv == \A i \in 1..Len(proposals) : WellShaped(proposals[i])

StoreInv ==
    /\ \A f \in Facts : memories[f] # "absent" => f \in written
    /\ \A f \in Facts : memories[f] \in Facts => \E i \in 1..Len(proposals) : Justifies(proposals[i], f, Sent)
    /\ \A i \in 1..Len(proposals) : proposals[i].status = "approved" => AllIn(proposals[i], Sent)

FilesInv ==
    /\ \A g \in memoryFiles : BackedOp(g[2], proposals, Sent)
    /\ drained # NoMemoryFile => \A f \in Facts : Carries(drained[2], f) => f \in written

PlanBacked(job, ps, S) ==
    /\ job \in [id : Nat, ops : Seq(MemoryOps)]
    /\ job.id \in 0..Len(ps)
    /\ \A k \in 1..Len(job.ops) : BackedOp(job.ops[k], ps, S \cup Before(job.ops, k))
PlansInv ==
    /\ deciding = [d \in Deciders |-> deciding[d]]
    /\ \A d \in Deciders : PlanBacked(deciding[d], proposals, Sent)

CurationInv == CurationTypeOK /\ ShapeInv /\ StoreInv /\ FilesInv /\ PlansInv

\* What an operation of a plan bears, those after it rely on.
LEMMA BorneBefore ==
    ASSUME NEW ops, NEW k, NEW j \in 1..(k - 1), NEW f \in Facts, NEW sure \in BOOLEAN,
           Carries(ops[j], f), sure => ~Quarantined(ops[j])
    PROVE  <<f, sure>> \in Before(ops, k)
<1> DEFINE t == <<f, sure>>
<1>1. t \in Texts /\ t[1] = f /\ t[2] = sure
  BY DEF Texts
<1> HIDE DEF t
<1>2. Bears(ops[j], t)
  BY <1>1 DEF Bears
<1>3. t \in Before(ops, k)
  BY <1>1, <1>2 DEF Before
<1> QED
  BY <1>3 DEF t

LEMMA OpFields ==
    ASSUME NEW o \in MemoryOps
    PROVE  /\ o.op \in {"remember", "supersede", "retire", "forget", "proposal_set_status"}
           /\ o.op = "remember" => o.text \in Facts
           /\ o.op = "supersede" => o.text \in Facts /\ o.old_ids \subseteq Facts
           /\ o.op = "retire" => o.old_ids \subseteq Facts
           /\ o.op = "forget" => o.id \in Facts
           /\ o.op = "proposal_set_status" => o.id \in Nat /\ o.status \in {"approved", "rejected"}
  BY DEF MemoryOps

\* A list of proposals that was added to or decided on still says what it said.
Grown(ps, qs) ==
    /\ Len(ps) <= Len(qs)
    /\ \A i \in 1..Len(ps) : qs[i].targets = ps[i].targets /\ qs[i].kind = ps[i].kind /\ qs[i].texts = ps[i].texts

LEMMA BackedMore ==
    ASSUME NEW ps, NEW qs, Len(ps) \in Nat, Len(qs) \in Nat, Grown(ps, qs), NEW S, NEW T, S \subseteq T,
           NEW o, BackedOp(o, ps, S)
    PROVE  BackedOp(o, qs, T)
<1>1. 1..Len(ps) \subseteq 1..Len(qs)
  BY DEF Grown
<1>2. \A x : \A i \in 1..Len(ps) : Justifies(ps[i], x, S) => Justifies(qs[i], x, T)
  BY DEF Grown, Justifies
<1>3. \A i \in 1..Len(ps) : AllIn(ps[i], S) => AllIn(qs[i], T)
  BY DEF Grown, AllIn, Sourceless
<1>4. o.op = "supersede" => \A x \in o.old_ids : \E i \in 1..Len(qs) : Justifies(qs[i], x, T)
  BY <1>1, <1>2 DEF BackedOp
<1>5. o.op = "proposal_set_status" => o.id \in 1..Len(qs) /\ (o.status = "approved" => AllIn(qs[o.id], T))
  BY <1>1, <1>3 DEF BackedOp
<1> QED
  BY <1>4, <1>5 DEF BackedOp

\* A decision.
LEMMA StatusSet ==
    ASSUME NEW ps \in Seq(Proposal), NEW id \in 1..Len(ps), NEW status \in {"approved", "rejected"}
    PROVE  LET qs == set_status(ps, id, status) IN
           /\ qs \in Seq(Proposal) /\ Len(qs) = Len(ps) /\ Grown(ps, qs)
           /\ \A i \in 1..Len(ps) : qs[i].status = ps[i].status \/ (i = id /\ qs[i].status = status)
<1> DEFINE decided == [ps[id] EXCEPT !.status = status]
           qs == set_status(ps, id, status)
<1>1. ps[id] \in Proposal
  BY ElementOfSeq
<1>2. /\ decided \in Proposal /\ decided.kind = ps[id].kind /\ decided.targets = ps[id].targets
      /\ decided.texts = ps[id].texts /\ decided.status = status
  BY <1>1 DEF Proposal
<1>3. qs = IF ps[id].status = "pending" THEN [ps EXCEPT ![id] = decided] ELSE ps
  BY DEF set_status
<1> HIDE DEF decided, qs
<1>4. qs \in Seq(Proposal) /\ Len(qs) = Len(ps)
  BY <1>2, <1>3, ExceptSeq
<1>5. \A i \in 1..Len(ps) : qs[i] = ps[i] \/ (i = id /\ qs[i] = decided)
  BY <1>3
<1>6. Len(ps) \in Nat
  BY LenProperties
<1>7. Grown(ps, qs)
  BY <1>2, <1>4, <1>5, <1>6 DEF Grown
<1>8. \A i \in 1..Len(ps) : qs[i].status = ps[i].status \/ (i = id /\ qs[i].status = status)
  BY <1>2, <1>5
<1> QED
  BY <1>4, <1>7, <1>8 DEF qs

\* A step of a plan makes nothing known that it does not carry, and lets a fact replace only
\* those it names.
LEMMA StepTaken ==
    ASSUME NEW m \in [Facts -> Marks], NEW o \in MemoryOps, o.op \in {"remember", "supersede", "retire"}
    PROVE  /\ AfterStep(m, o) \in [Facts -> Marks]
           /\ \A x \in Facts : AfterStep(m, o)[x] # "absent" => m[x] # "absent" \/ Carries(o, x)
           /\ \A x \in Facts : AfterStep(m, o)[x] \in Facts =>
                AfterStep(m, o)[x] = m[x] \/ (o.op = "supersede" /\ x \in o.old_ids)
<1>0. /\ "absent" \in Marks /\ "live" \in Marks /\ "retired" \in Marks /\ "live" \notin Facts /\ "retired" \notin Facts
      /\ Facts \subseteq Marks
  BY CurationAssumption DEF Marks
<1>1. ASSUME NEW f \in Facts
      PROVE  /\ remember(m, f) \in [Facts -> Marks]
             /\ \A x \in Facts : remember(m, f)[x] = m[x] \/ (x = f /\ remember(m, f)[x] = "live")
  BY <1>0 DEF remember
<1>2. ASSUME NEW k \in [Facts -> Marks], NEW olds, NEW by \in Marks
      PROVE  /\ supersede(k, olds, by) \in [Facts -> Marks]
             /\ \A x \in Facts : supersede(k, olds, by)[x] = k[x]
                                 \/ (x \in olds /\ k[x] = "live" /\ supersede(k, olds, by)[x] = by)
  BY DEF supersede
<1>3. CASE o.op = "remember"
  <2>1. AfterStep(m, o) = remember(m, o.text) /\ o.text \in Facts
    BY <1>3, OpFields DEF AfterStep
  <2>2. \A x \in Facts : Carries(o, x) <=> x = o.text
    BY <1>3 DEF Carries
  <2> QED
    BY <1>0, <1>1, <2>1, <2>2
<1>4. CASE o.op = "supersede"
  <2> DEFINE k == remember(m, o.text)
  <2>1. AfterStep(m, o) = supersede(k, o.old_ids, o.text) /\ o.text \in Facts /\ o.text \in Marks
    BY <1>0, <1>4, OpFields DEF AfterStep, StoreThenRetire
  <2>2. /\ k \in [Facts -> Marks]
        /\ \A x \in Facts : k[x] = m[x] \/ (x = o.text /\ k[x] = "live")
    BY <1>1, <2>1
  <2>3. \A x \in Facts : Carries(o, x) <=> x = o.text
    BY <1>4 DEF Carries
  <2> HIDE DEF k
  <2>4. /\ AfterStep(m, o) \in [Facts -> Marks]
        /\ \A x \in Facts : AfterStep(m, o)[x] = k[x]
                            \/ (x \in o.old_ids /\ k[x] = "live" /\ AfterStep(m, o)[x] = o.text)
    BY <1>2, <2>1, <2>2
  <2> QED
    BY <1>0, <1>4, <2>2, <2>3, <2>4
<1>5. CASE o.op = "retire"
  <2>1. AfterStep(m, o) = supersede(m, o.old_ids, "retired")
    BY <1>5 DEF AfterStep
  <2> QED
    BY <1>0, <1>2, <2>1
<1> QED
  BY <1>3, <1>4, <1>5

LEMMA OpTaken ==
    ASSUME memories \in [Facts -> Marks], NEW o \in MemoryOps
    PROVE  /\ ApplyMemory(o) \in [Facts -> Marks]
           /\ \A x \in Facts : ApplyMemory(o)[x] # "absent" => memories[x] # "absent" \/ Carries(o, x)
           /\ \A x \in Facts : ApplyMemory(o)[x] \in Facts =>
                ApplyMemory(o)[x] = memories[x] \/ (o.op = "supersede" /\ x \in o.old_ids)
<1>1. CASE o.op \in {"remember", "supersede", "retire"}
  <2>1. ApplyMemory(o) = AfterStep(memories, o)
    BY <1>1 DEF ApplyMemory, AfterStep
  <2> QED
    BY <1>1, <2>1, StepTaken
<1>2. CASE o.op = "forget"
  <2>1. ApplyMemory(o) = [memories EXCEPT ![o.id] = "absent"]
    BY <1>2 DEF ApplyMemory
  <2>2. "absent" \in Marks /\ "absent" \notin Facts
    BY CurationAssumption DEF Marks
  <2> QED
    BY <2>1, <2>2
<1>3. CASE o.op = "proposal_set_status"
  BY <1>3 DEF ApplyMemory
<1> QED
  BY <1>1, <1>2, <1>3, OpFields

\* What a step leaves behind when it takes back nothing that was said or sent.
Carried == Len(proposals) \in Nat /\ Len(proposals') \in Nat /\ Grown(proposals, proposals') /\ Sent \subseteq Sent'
StoreTyped ==
    /\ memories \in [Facts -> Marks] /\ proposals \in Seq(Proposal) /\ Len(proposals) <= MaxProposals
    /\ written \subseteq Facts /\ forgotten \subseteq written /\ quarantined \subseteq Facts

LEMMA SentGrows ==
    ASSUME written \subseteq written', quarantined \subseteq quarantined',
           \A g \in memoryFiles : \/ g \in memoryFiles'
                                 \/ \A t \in Texts : Bears(g[2], t) =>
                                      t[1] \in written' \/ (~t[2] /\ t[1] \in quarantined')
    PROVE  Sent \subseteq Sent'
<1> SUFFICES ASSUME NEW t \in Sent PROVE t \in Sent'
  OBVIOUS
<1>1. t \in Texts
  BY DEF Sent
<1>2. CASE t[1] \in written \/ (~t[2] /\ t[1] \in quarantined)
  BY <1>1, <1>2 DEF Sent
<1>3. ASSUME NEW g \in memoryFiles, Bears(g[2], t) PROVE t \in Sent'
  BY <1>1, <1>3 DEF Sent
<1> QED
  BY <1>2, <1>3 DEF Sent

\* One operation applied.
LEMMA Applied ==
    ASSUME StoreTyped, ShapeInv, StoreInv, NEW o, BackedOp(o, proposals, Sent), ApplyMemoryOp(o),
           UNCHANGED memoryFiles
    PROVE  /\ StoreTyped' /\ ShapeInv' /\ StoreInv' /\ Carried /\ written \subseteq written'
           /\ Len(proposals') = Len(proposals)
           /\ \A f \in Facts : Carries(o, f) => f \in written'
<1>1. /\ memories' = ApplyMemory(o)
      /\ proposals' = IF o.op = "proposal_set_status" THEN set_status(proposals, o.id, o.status) ELSE proposals
      /\ written' = IF o.op \in {"remember", "supersede"} THEN written \union {o.text} ELSE written
      /\ forgotten' = IF o.op = "forget" /\ memories[o.id] # "absent" THEN forgotten \union {o.id} ELSE forgotten
      /\ UNCHANGED quarantined
  BY DEF ApplyMemoryOp
<1>2. o \in MemoryOps /\ memories \in [Facts -> Marks] /\ proposals \in Seq(Proposal) /\ Len(proposals) \in Nat
  BY LenProperties DEF BackedOp, StoreTyped
<1>3. /\ written \subseteq written' /\ written' \subseteq Facts /\ \A f \in Facts : Carries(o, f) => f \in written'
  BY <1>1, <1>2, OpFields DEF StoreTyped, Carries
<1>4. Sent \subseteq Sent'
  BY <1>1, <1>3, SentGrows
<1>5. /\ proposals' \in Seq(Proposal) /\ Len(proposals') = Len(proposals) /\ Grown(proposals, proposals')
      /\ \A i \in 1..Len(proposals) :
           \/ proposals'[i].status = proposals[i].status
           \/ o.op = "proposal_set_status" /\ i = o.id /\ proposals'[i].status = o.status
  <2>1. CASE o.op = "proposal_set_status"
    <3>1. o.id \in 1..Len(proposals) /\ o.status \in {"approved", "rejected"}
      BY <1>2, <2>1, OpFields DEF BackedOp
    <3> QED
      BY <1>1, <1>2, <2>1, <3>1, StatusSet
  <2>2. CASE o.op # "proposal_set_status"
    BY <1>1, <1>2, <2>2 DEF Grown
  <2> QED
    BY <2>1, <2>2
<1>6. ShapeInv'
  BY <1>5 DEF ShapeInv, WellShaped, Grown
<1>7. \A x : \A i \in 1..Len(proposals) : Justifies(proposals[i], x, Sent) => Justifies(proposals'[i], x, Sent')
  BY <1>4, <1>5 DEF Justifies, Grown
<1>8. \A i \in 1..Len(proposals) : AllIn(proposals[i], Sent) => AllIn(proposals'[i], Sent')
  BY <1>4, <1>5 DEF AllIn, Grown, Sourceless
<1>9. StoreInv'
  <2>1. \A f \in Facts : memories'[f] # "absent" => f \in written'
    BY <1>1, <1>2, <1>3, OpTaken DEF StoreInv
  <2>2. \A f \in Facts : memories'[f] \in Facts => \E i \in 1..Len(proposals') : Justifies(proposals'[i], f, Sent')
    <3> SUFFICES ASSUME NEW f \in Facts, memories'[f] \in Facts
                 PROVE  \E i \in 1..Len(proposals) : Justifies(proposals[i], f, Sent)
      BY <1>5, <1>7
    <3>1. memories'[f] = memories[f] \/ (o.op = "supersede" /\ f \in o.old_ids)
      BY <1>1, <1>2, OpTaken
    <3> QED
      BY <3>1 DEF StoreInv, BackedOp
  <2>3. \A i \in 1..Len(proposals') : proposals'[i].status = "approved" => AllIn(proposals'[i], Sent')
    <3> SUFFICES ASSUME NEW i \in 1..Len(proposals), proposals'[i].status = "approved" PROVE AllIn(proposals[i], Sent)
      BY <1>5, <1>8
    <3> QED
      BY <1>5 DEF StoreInv, BackedOp
  <2> QED
    BY <2>1, <2>2, <2>3 DEF StoreInv
<1>10. StoreTyped'
  <2>1. memories' \in [Facts -> Marks]
    BY <1>1, <1>2, OpTaken
  <2>2. forgotten' \subseteq written'
    BY <1>1, <1>2, <1>3, OpFields DEF StoreTyped, StoreInv
  <2> QED
    BY <1>1, <1>3, <1>5, <2>1, <2>2 DEF StoreTyped
<1> QED
  BY <1>2, <1>3, <1>4, <1>5, <1>6, <1>9, <1>10 DEF Carried

\* What stays backed.
LEMMA PlansKept ==
    ASSUME PlansInv, Carried, NEW c \in Deciders,
           deciding'[c] = deciding[c]
    PROVE  PlanBacked(deciding'[c], proposals', Sent')
<1> DEFINE job == deciding[c]
<1>1. PlanBacked(job, proposals, Sent) /\ deciding'[c] = job
  BY DEF PlansInv
<1> HIDE DEF job
<1>2. \A k \in 1..Len(job.ops) : BackedOp(job.ops[k], proposals', Sent' \cup Before(job.ops, k))
  <2> SUFFICES ASSUME NEW k \in 1..Len(job.ops) PROVE BackedOp(job.ops[k], proposals', Sent' \cup Before(job.ops, k))
    OBVIOUS
  <2>1. BackedOp(job.ops[k], proposals, Sent \cup Before(job.ops, k))
    BY <1>1 DEF PlanBacked
  <2>2. Sent \cup Before(job.ops, k) \subseteq Sent' \cup Before(job.ops, k)
    BY DEF Carried
  <2> QED
    BY <2>1, <2>2, BackedMore DEF Carried
<1>3. job.id \in 0..Len(proposals')
  BY <1>1 DEF PlanBacked, Carried, Grown
<1> QED
  BY <1>1, <1>2, <1>3 DEF PlanBacked

FilesTyped ==
    /\ \A f \in memoryFiles \union {drained} : f[1] \in 0..MaxQueued
    /\ drained = NoMemoryFile \/ drained \in memoryFiles
    /\ queued \in 0..MaxQueued

\* Files stay backed when none was added but a backed one.
LEMMA FilesKept ==
    ASSUME FilesInv, Carried, written \subseteq written', NEW o, BackedOp(o, proposals, Sent), NEW n,
           memoryFiles' \subseteq memoryFiles \cup {<<n, o>>},
           drained' = drained \/ drained' = NoMemoryFile \/ \A f \in Facts : Carries(drained'[2], f) => f \in written'
    PROVE  FilesInv'
<1>1. \A g \in memoryFiles' : BackedOp(g[2], proposals', Sent')
  <2> SUFFICES ASSUME NEW g \in memoryFiles' PROVE BackedOp(g[2], proposals', Sent')
    OBVIOUS
  <2>1. BackedOp(g[2], proposals, Sent)
    BY DEF FilesInv
  <2> QED
    BY <2>1, BackedMore DEF Carried
<1> QED
  BY <1>1 DEF FilesInv

\* An operation sent from a terminal, by the socket or by the spool.
LEMMA OpSent ==
    ASSUME StoreTyped, ShapeInv, StoreInv, FilesInv, FilesTyped, NEW d, NEW o, BackedOp(o, proposals, Sent),
           Send(d, o), UNCHANGED drained
    PROVE  /\ StoreTyped' /\ ShapeInv' /\ StoreInv' /\ Carried /\ FilesInv' /\ FilesTyped'
           /\ \A t \in Texts : Bears(o, t) => t \in Sent'
<1>1. CASE ApplyMemoryOp(o) /\ UNCHANGED <<memoryFiles, queued>>
  <2>1. /\ StoreTyped' /\ ShapeInv' /\ StoreInv' /\ Carried /\ written \subseteq written'
        /\ \A f \in Facts : Carries(o, f) => f \in written'
    BY <1>1, Applied
  <2>2. FilesInv'
    BY <1>1, <2>1, FilesKept
  <2>3. \A t \in Texts : Bears(o, t) => t \in Sent'
    <3>1. \A t \in Texts : t[1] \in Facts
      BY DEF Texts
    <3> QED
      BY <2>1, <3>1 DEF Sent, Bears
  <2> QED
    BY <1>1, <2>1, <2>2, <2>3 DEF FilesTyped
<1>2. CASE /\ queued < MaxQueued /\ queued' = queued + 1
           /\ memoryFiles' = memoryFiles \union {<<queued + 1, o>>}
           /\ UNCHANGED <<memories, proposals, written, forgotten, quarantined>>
  <2>1. Sent \subseteq Sent'
    BY <1>2, SentGrows
  <2>2. \A t \in Texts : Bears(o, t) => t \in Sent'
    <3>1. <<queued + 1, o>> \in memoryFiles' /\ <<queued + 1, o>>[2] = o
      BY <1>2
    <3> QED
      BY <3>1 DEF Sent
  <2>3. Len(proposals) \in Nat
    BY LenProperties DEF StoreTyped
  <2>4. Carried
    BY <1>2, <2>1, <2>3 DEF Carried, Grown
  <2>5. FilesInv'
    BY <1>2, <2>4, FilesKept
  <2>6. FilesTyped'
    <3>1. MaxQueued \in Nat /\ queued + 1 \in 0..MaxQueued
      BY <1>2, CurationAssumption DEF FilesTyped
    <3> QED
      BY <1>2, <3>1 DEF FilesTyped
  <2>7. StoreTyped' /\ ShapeInv'
    BY <1>2 DEF StoreTyped, ShapeInv
  <2>8. StoreInv'
    BY <1>2, <2>1 DEF StoreInv, Justifies, AllIn, Sourceless
  <2> QED
    BY <2>2, <2>4, <2>5, <2>6, <2>7, <2>8
<1> QED
  BY <1>1, <1>2 DEF Send

\* A step that leaves the store alone.
LEMMA StoreKept ==
    ASSUME StoreTyped, ShapeInv, StoreInv, UNCHANGED <<memories, proposals, written, forgotten, quarantined>>, Sent \subseteq Sent'
    PROVE  StoreTyped' /\ ShapeInv' /\ StoreInv' /\ Carried
<1>1. Len(proposals) \in Nat
  BY LenProperties DEF StoreTyped
<1> QED
  <2>1. StoreTyped' /\ ShapeInv' /\ Carried
    BY <1>1 DEF StoreTyped, ShapeInv, Carried, Grown
  <2>2. \A i \in 1..Len(proposals) : \A x : Justifies(proposals[i], x, Sent) => Justifies(proposals[i], x, Sent')
    BY DEF Justifies
  <2>3. \A i \in 1..Len(proposals) : AllIn(proposals[i], Sent) => AllIn(proposals[i], Sent')
    BY DEF AllIn
  <2>4. StoreInv'
    BY <2>2, <2>3 DEF StoreInv
  <2> QED
    BY <2>1, <2>4

\* Plans of one, two and three operations.
LEMMA ShortLists ==
    ASSUME NEW a, NEW b, NEW c
    PROVE  Append(<<a>>, b) = <<a, b>> /\ Append(<<a, b>>, c) = <<a, b, c>>
<1> DEFINE S == {a, b, c}
<1>0. a \in S /\ b \in S /\ c \in S
  OBVIOUS
<1> HIDE DEF S
<1>1. /\ <<a>> \in Seq(S) /\ Len(<<a>>) = 1 /\ <<a>>[1] = a
      /\ <<a, b>> \in Seq(S) /\ Len(<<a, b>>) = 2 /\ <<a, b>>[1] = a /\ <<a, b>>[2] = b
      /\ <<a, b, c>> \in Seq(S) /\ Len(<<a, b, c>>) = 3
      /\ <<a, b, c>>[1] = a /\ <<a, b, c>>[2] = b /\ <<a, b, c>>[3] = c
  BY <1>0
<1>2. Append(<<a>>, b) = <<a, b>>
  <2> DEFINE x == Append(<<a>>, b)
  <2>1. x \in Seq(S) /\ Len(x) = 2 /\ x[1] = a /\ x[2] = b
    BY <1>0, <1>1, AppendProperties
  <2>2. \A i \in 1..2 : i = 1 \/ i = 2
    OBVIOUS
  <2> HIDE DEF x
  <2> QED
    BY <1>1, <2>1, <2>2, SeqEqual DEF x
<1>3. Append(<<a, b>>, c) = <<a, b, c>>
  <2> DEFINE x == Append(<<a, b>>, c)
  <2>1. x \in Seq(S) /\ Len(x) = 3 /\ x[1] = a /\ x[2] = b /\ x[3] = c
    BY <1>0, <1>1, AppendProperties
  <2>2. \A i \in 1..3 : i = 1 \/ i = 2 \/ i = 3
    OBVIOUS
  <2> HIDE DEF x
  <2> QED
    BY <1>1, <2>1, <2>2, SeqEqual DEF x
<1> QED
  BY <1>2, <1>3

LEMMA PlanIsBacked ==
    ASSUME NEW ps, Len(ps) \in Nat, NEW id \in 1..Len(ps), NEW S, NEW ops, ops \in Seq(MemoryOps),
           \A k \in 1..Len(ops) : BackedOp(ops[k], ps, S \cup Before(ops, k))
    PROVE  PlanBacked([id |-> id, ops |-> ops], ps, S)
<1> DEFINE job == [id |-> id, ops |-> ops]
<1>1. job.id = id /\ job.ops = ops /\ job \in [id : Nat, ops : Seq(MemoryOps)]
  OBVIOUS
<1> HIDE DEF job
<1>2. id \in 0..Len(ps)
  OBVIOUS
<1>3. PlanBacked(job, ps, S)
  BY <1>1, <1>2 DEF PlanBacked
<1> QED
  BY <1>3 DEF job

LEMMA ShortPlanIsBacked ==
    ASSUME NEW ps, Len(ps) \in Nat, NEW id \in 1..Len(ps), NEW S, NEW a \in MemoryOps, NEW b \in MemoryOps,
           NEW c \in MemoryOps
    PROVE  /\ BackedOp(a, ps, S \cup Before(<<a>>, 1)) => PlanBacked([id |-> id, ops |-> <<a>>], ps, S)
           /\ BackedOp(a, ps, S \cup Before(<<a, b>>, 1)) /\ BackedOp(b, ps, S \cup Before(<<a, b>>, 2))
              => PlanBacked([id |-> id, ops |-> <<a, b>>], ps, S)
           /\ /\ BackedOp(a, ps, S \cup Before(<<a, b, c>>, 1)) /\ BackedOp(b, ps, S \cup Before(<<a, b, c>>, 2))
              /\ BackedOp(c, ps, S \cup Before(<<a, b, c>>, 3))
              => PlanBacked([id |-> id, ops |-> <<a, b, c>>], ps, S)
<1>1. /\ <<a>> \in Seq(MemoryOps) /\ Len(<<a>>) = 1 /\ <<a>>[1] = a
      /\ <<a, b>> \in Seq(MemoryOps) /\ Len(<<a, b>>) = 2 /\ <<a, b>>[1] = a /\ <<a, b>>[2] = b
  OBVIOUS
<1>2. /\ <<a, b, c>> \in Seq(MemoryOps) /\ Len(<<a, b, c>>) = 3
      /\ <<a, b, c>>[1] = a /\ <<a, b, c>>[2] = b /\ <<a, b, c>>[3] = c
  OBVIOUS
<1> DEFINE P(ops) == \A k \in 1..Len(ops) : BackedOp(ops[k], ps, S \cup Before(ops, k))
<1>3. BackedOp(a, ps, S \cup Before(<<a>>, 1)) => P(<<a>>)
  <2>1. \A k \in 1..1 : k = 1
    OBVIOUS
  <2> QED
    BY <1>1, <2>1
<1>4. BackedOp(a, ps, S \cup Before(<<a, b>>, 1)) /\ BackedOp(b, ps, S \cup Before(<<a, b>>, 2)) => P(<<a, b>>)
  <2>1. \A k \in 1..2 : k = 1 \/ k = 2
    OBVIOUS
  <2> QED
    BY <1>1, <2>1
<1>5. /\ BackedOp(a, ps, S \cup Before(<<a, b, c>>, 1)) /\ BackedOp(b, ps, S \cup Before(<<a, b, c>>, 2))
      /\ BackedOp(c, ps, S \cup Before(<<a, b, c>>, 3))
      => P(<<a, b, c>>)
  <2>1. \A k \in 1..3 : k = 1 \/ k = 2 \/ k = 3
    OBVIOUS
  <2> QED
    BY <1>2, <2>1
<1>6. /\ P(<<a>>) => PlanBacked([id |-> id, ops |-> <<a>>], ps, S)
      /\ P(<<a, b>>) => PlanBacked([id |-> id, ops |-> <<a, b>>], ps, S)
      /\ P(<<a, b, c>>) => PlanBacked([id |-> id, ops |-> <<a, b, c>>], ps, S)
  BY <1>1, <1>2, PlanIsBacked
<1> QED
  BY <1>3, <1>4, <1>5, <1>6

\* The plan of a decision asks for nothing the proposal does not justify.
LEMMA DecisionBacked ==
    ASSUME StoreTyped, ShapeInv, NEW id \in 1..Len(proposals)
    PROVE  PlanBacked([id |-> id, ops |-> Decision(id)], proposals, Sent)
<1> DEFINE p == proposals[id]
           alive == {f \in p.targets : memories[f] # "absent"}
           job == [id |-> id, ops |-> Decision(id)]
<1>1. /\ p \in Proposal /\ WellShaped(p) /\ Len(proposals) \in Nat
      /\ p.kind \in {"capture", "split", "tidy", "retire"} /\ p.targets \subseteq Facts /\ p.texts \in Seq(Facts)
  <2>1. p \in Proposal
    BY ElementOfSeq DEF StoreTyped
  <2>2. WellShaped(p)
    BY DEF ShapeInv
  <2>3. Len(proposals) \in Nat
    BY LenProperties DEF StoreTyped
  <2> QED
    BY <2>1, <2>2, <2>3, CurationAssumption DEF Proposal
<1> HIDE DEF p, alive
<1>2. CASE AllSourcesGone(p)
  <2> DEFINE o == SetStatusOp(id, "rejected")
  <2>1. Decision(id) = <<o>>
    BY <1>2 DEF Decision, p
  <2>2. o \in MemoryOps /\ o.op = "proposal_set_status" /\ o.id = id /\ o.status = "rejected"
    BY <1>1 DEF SetStatusOp, MemoryOps
  <2> HIDE DEF o
  <2>3. BackedOp(o, proposals, Sent \cup Before(<<o>>, 1))
    BY <2>2 DEF BackedOp
  <2> QED
    BY <1>1, <2>1, <2>2, <2>3, ShortPlanIsBacked
<1>3. CASE ~AllSourcesGone(p)
  <2> DEFINE last == SetStatusOp(id, "approved")
  <2>1. Decision(id) = Append(PlanSteps(p), last)
    BY <1>3 DEF Decision, p
  <2>2. last \in MemoryOps /\ last.op = "proposal_set_status" /\ last.id = id
    BY <1>1 DEF SetStatusOp, MemoryOps
  <2> HIDE DEF last
  <2>a. /\ alive \subseteq Facts /\ alive \subseteq p.targets /\ (p.targets # {} => alive # {})
    BY <1>1, <1>3 DEF AllSourcesGone, alive
  <2>b. \A n \in 1..Len(p.texts) : p.texts[n] \in Facts
    BY <1>1, ElementOfSeq
  <2>3. CASE p.kind = "capture"
    <3> DEFINE o == RememberOp(p.texts[1])
    <3>1. /\ Len(p.texts) = 1 /\ p.texts[1] \in Facts
      BY <1>1, <2>3, <2>b DEF WellShaped
    <3>2. o \in MemoryOps /\ o.op = "remember" /\ o.text = p.texts[1]
      BY <3>1 DEF RememberOp, MemoryOps
    <3>3. Decision(id) = <<o, last>>
      <4>1. PlanSteps(p) = <<o>>
        BY <2>3 DEF PlanSteps
      <4> HIDE DEF o
      <4> QED
        BY <2>1, <4>1, ShortLists
    <3> HIDE DEF o
    <3>4. <<p.texts[1], TRUE>> \in Before(<<o, last>>, 2)
      <4>1. 1 \in 1..(2 - 1) /\ <<o, last>>[1] = o
        OBVIOUS
      <4> QED
        BY <3>1, <3>2, <4>1, BorneBefore DEF Carries, Quarantined
    <3>5. BackedOp(o, proposals, Sent \cup Before(<<o, last>>, 1))
      BY <3>2 DEF BackedOp
    <3>6. BackedOp(last, proposals, Sent \cup Before(<<o, last>>, 2))
      <4>1. AllIn(p, Before(<<o, last>>, 2))
        <5>1. ~Sourceless(p) /\ \A n \in 1..1 : n = 1
          BY <2>3 DEF Sourceless
        <5> QED
          BY <3>1, <3>4, <5>1 DEF AllIn
      <4> QED
        BY <2>2, <4>1 DEF BackedOp, AllIn, p
    <3> QED
      BY <1>1, <2>2, <3>2, <3>3, <3>5, <3>6, ShortPlanIsBacked
  <2>4. CASE p.kind = "split"
    <3> DEFINE o == RememberOp(p.texts[1])
               s == SupersedeOp(p.texts[2], alive)
    <3>1. /\ Len(p.texts) = 2 /\ p.texts[1] \in Facts /\ p.texts[2] \in Facts /\ p.targets # {}
      BY <1>1, <2>4, <2>b DEF WellShaped
    <3>2. /\ o \in MemoryOps /\ o.op = "remember" /\ o.text = p.texts[1]
      BY <3>1 DEF RememberOp, MemoryOps
    <3>3. /\ s \in MemoryOps /\ s.op = "supersede" /\ s.text = p.texts[2] /\ s.old_ids = alive
      BY <2>a, <3>1 DEF SupersedeOp, MemoryOps
    <3>4. Decision(id) = <<o, s, last>>
      <4>1. PlanSteps(p) = <<o, s>>
        BY <2>4 DEF PlanSteps, alive
      <4> HIDE DEF o, s
      <4> QED
        BY <2>1, <4>1, ShortLists
    <3> HIDE DEF o, s
    <3>5. <<p.texts[1], TRUE>> \in Before(<<o, s, last>>, 2)
      <4>1. 1 \in 1..(2 - 1) /\ <<o, s, last>>[1] = o
        OBVIOUS
      <4> QED
        BY <3>1, <3>2, <4>1, BorneBefore DEF Carries, Quarantined
    <3>6. <<p.texts[1], TRUE>> \in Before(<<o, s, last>>, 3) /\ <<p.texts[2], TRUE>> \in Before(<<o, s, last>>, 3)
      <4>1. 1 \in 1..(3 - 1) /\ 2 \in 1..(3 - 1) /\ <<o, s, last>>[1] = o /\ <<o, s, last>>[2] = s
        OBVIOUS
      <4>2. <<p.texts[1], TRUE>> \in Before(<<o, s, last>>, 3)
        BY <3>1, <3>2, <4>1, BorneBefore DEF Carries, Quarantined
      <4>3. <<p.texts[2], TRUE>> \in Before(<<o, s, last>>, 3)
        BY <2>a, <3>1, <3>3, <4>1, BorneBefore DEF Carries, Quarantined
      <4> QED
        BY <4>2, <4>3
    <3>7. BackedOp(o, proposals, Sent \cup Before(<<o, s, last>>, 1))
      BY <3>2 DEF BackedOp
    <3>8. BackedOp(s, proposals, Sent \cup Before(<<o, s, last>>, 2))
      BY <2>a, <3>1, <3>3, <3>5 DEF BackedOp, Justifies, p
    <3>9. BackedOp(last, proposals, Sent \cup Before(<<o, s, last>>, 3))
      <4>1. AllIn(p, Before(<<o, s, last>>, 3))
        <5>1. ~Sourceless(p) /\ \A n \in 1..2 : n = 1 \/ n = 2
          BY <2>4 DEF Sourceless
        <5> QED
          BY <3>1, <3>6, <5>1 DEF AllIn
      <4> QED
        BY <2>2, <4>1 DEF BackedOp, AllIn, p
    <3> QED
      BY <1>1, <2>2, <3>2, <3>3, <3>4, <3>7, <3>8, <3>9, ShortPlanIsBacked
  <2>5. CASE p.kind = "tidy"
    <3> DEFINE s == SupersedeOp(p.texts[1], alive)
    <3>1. Len(p.texts) = 1 /\ p.texts[1] \in Facts
      BY <1>1, <2>5, <2>b DEF WellShaped
    <3>2. /\ s \in MemoryOps /\ s.op = "supersede" /\ s.text = p.texts[1] /\ s.old_ids = alive
      BY <2>a, <3>1 DEF SupersedeOp, MemoryOps
    <3>3. Decision(id) = <<s, last>>
      <4>1. PlanSteps(p) = <<s>>
        BY <2>5 DEF PlanSteps, alive
      <4> HIDE DEF s
      <4> QED
        BY <2>1, <4>1, ShortLists
    <3> HIDE DEF s
    <3>4. <<p.texts[1], ~Sourceless(p)>> \in Before(<<s, last>>, 2)
      <4>1. ~Sourceless(p) => ~Quarantined(s)
        BY <2>5, <2>a, <3>2 DEF Sourceless, Quarantined
      <4>2. 1 \in 1..(2 - 1) /\ <<s, last>>[1] = s /\ (~Sourceless(p)) \in BOOLEAN
        OBVIOUS
      <4> QED
        BY <3>1, <3>2, <4>1, <4>2, BorneBefore DEF Carries
    <3>5. BackedOp(s, proposals, Sent \cup Before(<<s, last>>, 1))
      BY <2>5, <2>a, <3>1, <3>2 DEF BackedOp, Justifies, p
    <3>6. BackedOp(last, proposals, Sent \cup Before(<<s, last>>, 2))
      BY <2>2, <3>1, <3>4 DEF BackedOp, AllIn, p
    <3> QED
      BY <1>1, <2>2, <3>2, <3>3, <3>5, <3>6, ShortPlanIsBacked
  <2>6. CASE p.kind = "retire"
    <3> DEFINE r == RetireOp(alive)
    <3>1. Len(p.texts) = 0
      BY <1>1, <2>6 DEF WellShaped
    <3>2. r \in MemoryOps /\ r.op = "retire"
      BY <2>a DEF RetireOp, MemoryOps
    <3>3. Decision(id) = <<r, last>>
      <4>1. PlanSteps(p) = <<r>>
        BY <2>6 DEF PlanSteps, alive
      <4> HIDE DEF r
      <4> QED
        BY <2>1, <4>1, ShortLists
    <3> HIDE DEF r
    <3>4. BackedOp(r, proposals, Sent \cup Before(<<r, last>>, 1))
      BY <3>2 DEF BackedOp
    <3>5. BackedOp(last, proposals, Sent \cup Before(<<r, last>>, 2))
      BY <2>2, <3>1 DEF BackedOp, AllIn, p
    <3> QED
      BY <1>1, <2>2, <3>2, <3>3, <3>4, <3>5, ShortPlanIsBacked
  <2> QED
    BY <1>1, <2>3, <2>4, <2>5, <2>6
<1> QED
  BY <1>2, <1>3

\* The plan the phone carries out.
LEMMA StepsOfPlan ==
    ASSUME StoreTyped, ShapeInv, NEW id \in 1..Len(proposals)
    PROVE  LET steps == PlanSteps(proposals[id]) IN
           /\ steps \in Seq(MemoryOps) /\ Len(steps) \in 1..2
           /\ \A i \in 1..Len(steps) : steps[i].op \in {"remember", "supersede", "retire"}
<1> DEFINE p == proposals[id]
           alive == {f \in p.targets : memories[f] # "absent"}
           steps == PlanSteps(p)
<1>1. /\ WellShaped(p) /\ p.kind \in {"capture", "split", "tidy", "retire"} /\ p.targets \subseteq Facts
      /\ \A n \in 1..Len(p.texts) : p.texts[n] \in Facts
  <2>1. p \in Proposal
    BY ElementOfSeq DEF StoreTyped
  <2>2. p.targets \subseteq Facts /\ p.kind \in {"capture", "split", "tidy", "retire"} /\ p.texts \in Seq(Facts)
    BY <2>1, CurationAssumption DEF Proposal
  <2>3. WellShaped(p)
    BY DEF ShapeInv
  <2> HIDE DEF p
  <2> QED
    BY <2>2, <2>3, ElementOfSeq
<1>2. alive \subseteq Facts
  BY <1>1
<1> HIDE DEF p, alive
<1>3. \A f \in Facts : RememberOp(f) \in MemoryOps /\ RememberOp(f).op = "remember"
  BY DEF RememberOp, MemoryOps
<1>4. /\ \A f \in Facts : SupersedeOp(f, alive) \in MemoryOps /\ SupersedeOp(f, alive).op = "supersede"
      /\ RetireOp(alive) \in MemoryOps /\ RetireOp(alive).op = "retire"
  BY <1>2 DEF SupersedeOp, RetireOp, MemoryOps
<1>5. ASSUME NEW a \in MemoryOps, NEW b \in MemoryOps, a.op \in {"remember", "supersede", "retire"},
             b.op \in {"remember", "supersede", "retire"}, steps \in {<<a>>, <<a, b>>}
      PROVE  /\ steps \in Seq(MemoryOps) /\ Len(steps) \in 1..2
             /\ \A i \in 1..Len(steps) : steps[i].op \in {"remember", "supersede", "retire"}
  <2> HIDE DEF steps
  <2>1. /\ <<a>> \in Seq(MemoryOps) /\ Len(<<a>>) = 1 /\ <<a>>[1] = a
        /\ <<a, b>> \in Seq(MemoryOps) /\ Len(<<a, b>>) = 2 /\ <<a, b>>[1] = a /\ <<a, b>>[2] = b
    OBVIOUS
  <2>2. (\A i \in 1..1 : i = 1) /\ (\A i \in 1..2 : i = 1 \/ i = 2) /\ 1 \in 1..2 /\ 2 \in 1..2
    OBVIOUS
  <2> QED
    BY <1>5, <2>1, <2>2
<1>6. CASE p.kind = "capture"
  <2>1. p.texts[1] \in Facts /\ steps = <<RememberOp(p.texts[1])>>
    BY <1>1, <1>6 DEF WellShaped, PlanSteps
  <2> HIDE DEF steps
  <2> QED
    BY <1>3, <1>5, <2>1 DEF p, steps
<1>7. CASE p.kind = "split"
  <2>1. p.texts[1] \in Facts /\ p.texts[2] \in Facts
    BY <1>1, <1>7 DEF WellShaped
  <2>2. steps = <<RememberOp(p.texts[1]), SupersedeOp(p.texts[2], alive)>>
    BY <1>7 DEF PlanSteps, alive
  <2> HIDE DEF steps
  <2> QED
    BY <1>3, <1>4, <1>5, <2>1, <2>2 DEF p, steps
<1>8. CASE p.kind = "tidy"
  <2>1. p.texts[1] \in Facts
    BY <1>1, <1>8 DEF WellShaped
  <2>2. steps = <<SupersedeOp(p.texts[1], alive)>>
    BY <1>8 DEF PlanSteps, alive
  <2> HIDE DEF steps
  <2> QED
    BY <1>4, <1>5, <2>1, <2>2 DEF p, steps
<1>9. CASE p.kind = "retire"
  <2>1. steps = <<RetireOp(alive)>>
    BY <1>9 DEF PlanSteps, alive
  <2> HIDE DEF steps
  <2> QED
    BY <1>4, <1>5, <2>1 DEF p, steps
<1> QED
  BY <1>1, <1>6, <1>7, <1>8, <1>9

LEMMA StepsTaken ==
    ASSUME memories \in [Facts -> Marks], NEW steps \in Seq(MemoryOps), Len(steps) \in 0..2,
           \A i \in 1..Len(steps) : steps[i].op \in {"remember", "supersede", "retire"}, NEW n \in 0..Len(steps)
    PROVE  /\ AfterSteps(steps, n) \in [Facts -> Marks]
           /\ \A x \in Facts : AfterSteps(steps, n)[x] # "absent" =>
                memories[x] # "absent" \/ \E i \in 1..n : Carries(steps[i], x)
           /\ \A x \in Facts : AfterSteps(steps, n)[x] \in Facts =>
                \/ AfterSteps(steps, n)[x] = memories[x]
                \/ \E i \in 1..n : steps[i].op = "supersede" /\ x \in steps[i].old_ids
<1>1. n \in 0..2 /\ \A i \in 1..n : steps[i] \in MemoryOps /\ steps[i].op \in {"remember", "supersede", "retire"}
  <2>1. \A i \in 1..n : i \in 1..Len(steps)
    OBVIOUS
  <2> QED
    BY <2>1, ElementOfSeq
<1> DEFINE m1 == AfterStep(memories, steps[1])
<1>2. CASE n = 0
  BY <1>2 DEF AfterSteps
<1>3. n >= 1 => /\ m1 \in [Facts -> Marks]
                /\ \A x \in Facts : m1[x] # "absent" => memories[x] # "absent" \/ Carries(steps[1], x)
                /\ \A x \in Facts : m1[x] \in Facts =>
                     m1[x] = memories[x] \/ (steps[1].op = "supersede" /\ x \in steps[1].old_ids)
  <2>1. n >= 1 => 1 \in 1..n
    OBVIOUS
  <2> QED
    BY <1>1, <2>1, StepTaken
<1>4. CASE n = 1
  <2>1. AfterSteps(steps, n) = m1 /\ 1 \in 1..n
    BY <1>4 DEF AfterSteps
  <2> HIDE DEF m1
  <2> QED
    BY <1>3, <1>4, <2>1
<1>5. CASE n = 2
  <2>1. AfterSteps(steps, n) = AfterStep(m1, steps[2]) /\ 1 \in 1..n /\ 2 \in 1..n
    BY <1>5 DEF AfterSteps
  <2> HIDE DEF m1
  <2> DEFINE m2 == AfterStep(m1, steps[2])
  <2>2. /\ m2 \in [Facts -> Marks]
        /\ \A x \in Facts : m2[x] # "absent" => m1[x] # "absent" \/ Carries(steps[2], x)
        /\ \A x \in Facts : m2[x] \in Facts =>
             m2[x] = m1[x] \/ (steps[2].op = "supersede" /\ x \in steps[2].old_ids)
    BY <1>1, <1>3, <1>5, <2>1, StepTaken
  <2> HIDE DEF m2
  <2> QED
    BY <1>3, <1>5, <2>1, <2>2 DEF m2
<1> QED
  BY <1>1, <1>2, <1>4, <1>5

\* A tap on approve, carried out as far as the database lets it.
LEMMA PhoneApproved ==
    ASSUME StoreTyped, ShapeInv, StoreInv, NEW id \in 1..Len(proposals), PhoneApprove(id)
    PROVE  /\ StoreTyped' /\ ShapeInv' /\ StoreInv' /\ Carried /\ written \subseteq written'
           /\ Len(proposals') = Len(proposals)
<1> DEFINE p == proposals[id]
           gone == AllSourcesGone(p)
           steps == IF gone THEN <<>> ELSE PlanSteps(p)
           verdict == IF gone THEN "rejected" ELSE "approved"
           ops == Append(steps, SetStatusOp(id, verdict))
<1>1. PICK n \in 0..Len(steps) :
        /\ memories' = AfterSteps(steps, n) /\ written' = written \union StoredBy(steps, n)
        /\ proposals' = IF n < Len(steps) THEN proposals ELSE set_status(proposals, id, verdict)
  BY DEF PhoneApprove
<1>2. UNCHANGED <<memoryFiles, forgotten>> /\ memories \in [Facts -> Marks] /\ proposals \in Seq(Proposal)
      /\ Len(proposals) \in Nat
  BY LenProperties DEF PhoneApprove, StoreTyped
<1>3. /\ steps \in Seq(MemoryOps) /\ Len(steps) \in 0..2
      /\ \A i \in 1..Len(steps) : steps[i].op \in {"remember", "supersede", "retire"}
  <2>1. CASE gone
    BY <2>1, EmptySeq
  <2>2. CASE ~gone
    BY <2>2, StepsOfPlan
  <2> QED
    BY <2>1, <2>2
<1>4. Decision(id) = ops
  <2>1. CASE gone
    BY <2>1 DEF Decision
  <2>2. CASE ~gone
    BY <2>2 DEF Decision
  <2> QED
    BY <2>1, <2>2
<1>5. \A k \in 1..Len(ops) : BackedOp(ops[k], proposals, Sent \cup Before(ops, k))
  <2>1. PlanBacked([id |-> id, ops |-> ops], proposals, Sent)
    BY <1>4, DecisionBacked
  <2> HIDE DEF ops
  <2> QED
    BY <2>1 DEF PlanBacked
<1> DEFINE last == SetStatusOp(id, verdict)
<1>6. /\ Len(ops) = Len(steps) + 1 /\ ops[Len(steps) + 1] = last
      /\ \A i \in 1..Len(steps) : ops[i] = steps[i]
      /\ last.op = "proposal_set_status" /\ last.id = id /\ last.status = verdict
  <2>1. last \in MemoryOps
    BY DEF SetStatusOp, MemoryOps
  <2>2. last.op = "proposal_set_status" /\ last.id = id /\ last.status = verdict
    BY DEF SetStatusOp
  <2> HIDE DEF last, steps
  <2> QED
    BY <1>3, <2>1, <2>2, AppendProperties DEF last
<1> HIDE DEF ops, last, steps, verdict, gone, p
<1>7. \A i \in 1..n : i \in 1..Len(steps) /\ ops[i] = steps[i] /\ steps[i] \in MemoryOps
                      /\ steps[i].op \in {"remember", "supersede", "retire"}
  <2>1. \A i \in 1..n : i \in 1..Len(steps)
    BY <1>3
  <2> QED
    BY <1>3, <1>6, <2>1, ElementOfSeq
<1>8. /\ written \subseteq written' /\ written' \subseteq Facts
      /\ \A i \in 1..n, f \in Facts : Carries(steps[i], f) => f \in written'
  <2>1. StoredBy(steps, n) \subseteq Facts
    <3> SUFFICES ASSUME NEW i \in 1..n, steps[i].op # "retire" PROVE steps[i].text \in Facts
      BY DEF StoredBy
    <3> QED
      BY <1>7, OpFields
  <2>2. ASSUME NEW i \in 1..n, NEW f \in Facts, Carries(steps[i], f) PROVE f \in StoredBy(steps, n)
    BY <2>2 DEF StoredBy, Carries
  <2> QED
    BY <1>1, <2>1, <2>2 DEF StoreTyped
<1>9. Sent \subseteq Sent' /\ \A t \in Texts : t[1] \in written' => t \in Sent'
  <2>1. UNCHANGED quarantined
    BY DEF PhoneApprove
  <2> QED
    BY <1>2, <1>8, <2>1, SentGrows DEF Sent, Texts
<1>10. \A k \in 1..(n + 1) : k \in 1..Len(ops) /\ Sent \cup Before(ops, k) \subseteq Sent'
  <2> SUFFICES ASSUME NEW k \in 1..(n + 1) PROVE k \in 1..Len(ops) /\ Before(ops, k) \subseteq Sent'
    BY <1>9
  <2>1. k \in 1..Len(ops) /\ \A j \in 1..(k - 1) : j \in 1..n
    BY <1>3, <1>6
  <2>2. ASSUME NEW t \in Texts, NEW j \in 1..(k - 1), Bears(ops[j], t) PROVE t \in Sent'
    <3>1. t[1] \in Facts /\ Carries(steps[j], t[1]) /\ j \in 1..n
      BY <1>7, <2>1, <2>2 DEF Bears, Texts
    <3> QED
      BY <1>8, <1>9, <3>1
  <2> QED
    BY <2>1, <2>2 DEF Before
<1>11. /\ proposals' \in Seq(Proposal) /\ Len(proposals') = Len(proposals) /\ Grown(proposals, proposals')
       /\ \A i \in 1..Len(proposals) :
            \/ proposals'[i].status = proposals[i].status
            \/ n = Len(steps) /\ i = id /\ proposals'[i].status = verdict
  <2>1. verdict \in {"approved", "rejected"}
    BY DEF verdict
  <2>2. CASE n < Len(steps)
    BY <1>1, <1>2, <2>2 DEF Grown
  <2>3. CASE n = Len(steps)
    BY <1>1, <1>2, <2>1, <2>3, StatusSet
  <2> QED
    BY <1>3, <2>2, <2>3
<1>12. Carried
  BY <1>2, <1>9, <1>11 DEF Carried
<1>13. ShapeInv'
  BY <1>11 DEF ShapeInv, WellShaped, Grown
<1>14. \A k \in 1..(n + 1) : BackedOp(ops[k], proposals', Sent')
  BY <1>2, <1>5, <1>10, <1>11, BackedMore
<1>15. StoreInv'
  <2>1. \A f \in Facts : memories'[f] # "absent" => f \in written'
    BY <1>1, <1>2, <1>3, <1>8, StepsTaken DEF StoreInv
  <2>2. \A f \in Facts : memories'[f] \in Facts => \E i \in 1..Len(proposals') : Justifies(proposals'[i], f, Sent')
    <3> SUFFICES ASSUME NEW f \in Facts, memories'[f] \in Facts
                 PROVE  \E i \in 1..Len(proposals') : Justifies(proposals'[i], f, Sent')
      OBVIOUS
    <3>1. CASE memories'[f] = memories[f]
      <4>1. PICK i \in 1..Len(proposals) : Justifies(proposals[i], f, Sent)
        BY <3>1 DEF StoreInv
      <4> QED
        BY <1>9, <1>11, <4>1 DEF Justifies, Grown
    <3>2. ASSUME NEW i \in 1..n, steps[i].op = "supersede", f \in steps[i].old_ids
          PROVE  \E j \in 1..Len(proposals') : Justifies(proposals'[j], f, Sent')
      <4>1. i \in 1..(n + 1) /\ ops[i] = steps[i]
        BY <1>3, <1>7
      <4> QED
        BY <1>14, <3>2, <4>1 DEF BackedOp
    <3> QED
      BY <1>1, <1>2, <1>3, <3>1, <3>2, StepsTaken
  <2>3. \A i \in 1..Len(proposals') : proposals'[i].status = "approved" => AllIn(proposals'[i], Sent')
    <3> SUFFICES ASSUME NEW i \in 1..Len(proposals), proposals'[i].status = "approved"
                 PROVE  AllIn(proposals'[i], Sent')
      BY <1>11
    <3>1. CASE proposals'[i].status = proposals[i].status
      BY <1>9, <1>11, <3>1 DEF StoreInv, AllIn, Grown, Sourceless
    <3>2. CASE n = Len(steps) /\ i = id /\ proposals'[i].status = verdict
      <4>1. n + 1 \in 1..(n + 1) /\ ops[n + 1] = last
        BY <1>3, <1>6, <3>2
      <4> QED
        BY <1>6, <1>14, <3>2, <4>1 DEF BackedOp
    <3> QED
      BY <1>11, <3>1, <3>2
  <2> QED
    BY <2>1, <2>2, <2>3 DEF StoreInv
<1>16. StoreTyped'
  <2>1. memories' \in [Facts -> Marks]
    BY <1>1, <1>2, <1>3, StepsTaken
  <2> QED
    BY <1>2, <1>8, <1>11, <2>1 DEF StoreTyped, PhoneApprove
<1> QED
  BY <1>8, <1>11, <1>12, <1>13, <1>15, <1>16

LEMMA CurationInvHolds == CurationSpec => []CurationInv
<1> DEFINE Counted == /\ writes \in 0..MaxWrites /\ setbacks \in 0..MaxSetbacks
           Inv == StoreTyped /\ ShapeInv /\ StoreInv /\ FilesTyped /\ FilesInv /\ PlansInv /\ Counted
<1>c. {MaxProposals, MaxWrites, MaxQueued, MaxSetbacks} \subseteq Nat
  BY CurationAssumption
<1>1. CurationInit => Inv
  <2> SUFFICES ASSUME CurationInit PROVE Inv
    OBVIOUS
  <2>1. /\ proposals = <<>> /\ proposals \in Seq(Proposal) /\ Len(proposals) = 0 /\ memoryFiles = {} /\ drained = NoMemoryFile
        /\ written = {} /\ forgotten = {} /\ quarantined = {} /\ queued = 0 /\ writes = 0 /\ setbacks = 0
    BY EmptySeq DEF CurationInit
  <2>2. memories \in [Facts -> Marks] /\ \A f \in Facts : memories[f] = "absent" /\ memories[f] \notin Facts
    BY CurationAssumption DEF CurationInit, Marks
  <2>3. StoreTyped
    BY <1>c, <2>1, <2>2 DEF StoreTyped
  <2>4. ShapeInv /\ StoreInv
    BY <2>1, <2>2 DEF ShapeInv, StoreInv
  <2>5. FilesTyped /\ FilesInv
    <3>1. NoMemoryFile[1] = 0
      BY DEF NoMemoryFile
    <3> QED
      BY <1>c, <2>1, <3>1 DEF FilesTyped, FilesInv
  <2>6. PlansInv
    <3>1. AtRest.id = 0 /\ AtRest.ops = <<>> /\ AtRest \in [id : Nat, ops : Seq(MemoryOps)]
      BY EmptySeq DEF AtRest
    <3>2. deciding = [d \in Deciders |-> AtRest]
      BY DEF CurationInit
    <3>3. PlanBacked(AtRest, proposals, Sent)
      BY <2>1, <3>1 DEF PlanBacked
    <3> QED
      BY <3>2, <3>3 DEF PlansInv
  <2>7. Counted
    BY <1>c, <2>1
  <2> QED
    BY <2>3, <2>4, <2>5, <2>6, <2>7
<1>2. Inv /\ [CurationNext]_curationVars => Inv'
  <2> SUFFICES ASSUME Inv, [CurationNext]_curationVars PROVE Inv'
    OBVIOUS
  <2>0. StoreTyped /\ ShapeInv /\ StoreInv /\ FilesTyped /\ FilesInv /\ PlansInv /\ Counted
    OBVIOUS
  <2>r. Len(proposals) \in Nat
    BY <2>0, LenProperties DEF StoreTyped
  \* the plans, when one terminal's may have changed
  <2>p. ASSUME Carried, NEW d, NEW job, deciding' = [deciding EXCEPT ![d] = job], PlanBacked(job, proposals', Sent')
        PROVE  PlansInv'
    <3>1. \A c \in Deciders : deciding'[c] = IF c = d THEN job ELSE deciding[c]
      BY <2>0, <2>p DEF PlansInv
    <3>2. deciding' = [c \in Deciders |-> deciding'[c]]
      BY <2>0, <2>p DEF PlansInv
    <3>3. \A c \in Deciders : PlanBacked(deciding'[c], proposals', Sent')
      <4> SUFFICES ASSUME NEW c \in Deciders PROVE PlanBacked(deciding'[c], proposals', Sent')
        OBVIOUS
      <4>1. CASE c = d
        BY <2>p, <3>1, <4>1
      <4>2. CASE c # d
        BY <2>0, <2>p, <3>1, <4>2, PlansKept
      <4> QED
        BY <4>1, <4>2
    <3> QED
      BY <3>2, <3>3 DEF PlansInv
  <2>q. ASSUME Carried, UNCHANGED deciding PROVE PlansInv'
    <3>1. \A c \in Deciders : PlanBacked(deciding'[c], proposals', Sent')
      BY <2>0, <2>q, PlansKept
    <3> QED
      BY <2>0, <2>q, <3>1 DEF PlansInv
  <2>a. ASSUME Carried PROVE PlanBacked(AtRest, proposals', Sent')
    <3>1. AtRest.id = 0 /\ AtRest.ops = <<>> /\ Len(AtRest.ops) = 0 /\ AtRest \in [id : Nat, ops : Seq(MemoryOps)]
      BY EmptySeq DEF AtRest
    <3> QED
      BY <2>a, <3>1 DEF PlanBacked, Carried
  <2>1. ASSUME NEW d \in Deciders, NEW f \in Facts, Remember(d, f) \/ ForgetFact(d, f) PROVE Inv'
    <3>1. PICK o : /\ o = RememberOp(f) \/ o = ForgetOp(f)
                   /\ writes < MaxWrites /\ writes' = writes + 1 /\ Send(d, o)
                   /\ UNCHANGED <<drained, deciding, setbacks>>
      BY <2>1 DEF Remember, ForgetFact
    <3>2. o \in MemoryOps /\ o.op \in {"remember", "forget"}
      BY <3>1 DEF RememberOp, ForgetOp, MemoryOps
    <3>3. BackedOp(o, proposals, Sent)
      BY <3>2 DEF BackedOp
    <3>4. StoreTyped' /\ ShapeInv' /\ StoreInv' /\ Carried /\ FilesInv' /\ FilesTyped'
      BY <2>0, <3>1, <3>3, OpSent
    <3>5. Counted'
      BY <1>c, <2>0, <3>1
    <3> QED
      BY <2>q, <3>1, <3>4, <3>5
  <2>2. CASE Propose
    <3>1. PICK p \in Drafts :
            /\ p.kind \in ProposalKinds
            /\ Len(proposals) < MaxProposals /\ proposals' = Append(proposals, p)
      BY <2>2 DEF Propose, queue_add
    <3>2. UNCHANGED <<memories, memoryFiles, drained, deciding, queued, writes, setbacks, written, forgotten, quarantined>>
      BY <2>2 DEF Propose
    <3>3. p \in Proposal /\ WellShaped(p) /\ p.status = "pending"
      <4> DEFINE known == {f \in Facts : memories[f] # "absent"}
                 Draft(k, ts, xs) == [kind |-> k, targets |-> ts, texts |-> xs, status |-> "pending"]
      <4>1. \/ \E f \in Facts : p = Draft("capture", {}, <<f>>)
            \/ \E o \in known, f \in Facts, g \in Facts : p = Draft("split", {o}, <<f, g>>)
            \/ \E ts \in SUBSET known, f \in Facts : p = Draft("tidy", ts, <<f>>)
            \/ \E o \in known : p = Draft("retire", {o}, <<>>)
        BY DEF Drafts
      <4>2. known \subseteq Facts
        OBVIOUS
      <4> HIDE DEF known
      <4>3. ASSUME NEW f \in Facts, p = Draft("capture", {}, <<f>>) PROVE p \in Proposal /\ WellShaped(p) /\ p.status = "pending"
        <5>1. <<f>> \in Seq(Facts) /\ Len(<<f>>) = 1
          OBVIOUS
        <5> QED
          BY <3>1, <4>3, <5>1 DEF Proposal, WellShaped
      <4>4. ASSUME NEW o \in known, NEW f \in Facts, NEW g \in Facts, p = Draft("split", {o}, <<f, g>>)
            PROVE  p \in Proposal /\ WellShaped(p) /\ p.status = "pending"
        <5>1. <<f, g>> \in Seq(Facts) /\ Len(<<f, g>>) = 2 /\ {o} \subseteq Facts /\ {o} # {}
          BY <4>2
        <5> QED
          BY <3>1, <4>4, <5>1 DEF Proposal, WellShaped
      <4>5. ASSUME NEW ts \in SUBSET known, NEW f \in Facts, p = Draft("tidy", ts, <<f>>)
            PROVE  p \in Proposal /\ WellShaped(p) /\ p.status = "pending"
        <5>1. <<f>> \in Seq(Facts) /\ Len(<<f>>) = 1 /\ ts \subseteq Facts
          BY <4>2
        <5> QED
          BY <3>1, <4>5, <5>1 DEF Proposal, WellShaped
      <4>6. ASSUME NEW o \in known, p = Draft("retire", {o}, <<>>) PROVE p \in Proposal /\ WellShaped(p) /\ p.status = "pending"
        <5>1. <<>> \in Seq(Facts) /\ Len(<<>>) = 0 /\ {o} \subseteq Facts
          BY <4>2, EmptySeq
        <5> QED
          BY <3>1, <4>6, <5>1 DEF Proposal, WellShaped
      <4> QED
        BY <4>1, <4>3, <4>4, <4>5, <4>6
    <3>4. /\ proposals' \in Seq(Proposal) /\ Len(proposals') = Len(proposals) + 1
          /\ \A i \in 1..Len(proposals) : proposals'[i] = proposals[i]
          /\ proposals'[Len(proposals) + 1] = p
      BY <2>0, <3>1, <3>3, AppendProperties DEF StoreTyped
    <3>5. \A i \in 1..Len(proposals') : i \in 1..Len(proposals) \/ (i = Len(proposals) + 1 /\ proposals'[i] = p)
      BY <2>r, <3>4
    <3>6. Sent' = Sent
      BY <3>2 DEF Sent
    <3>7. Carried
      BY <2>r, <3>4, <3>6 DEF Carried, Grown
    <3>8. StoreTyped'
      <4>1. Len(proposals') <= MaxProposals
        BY <1>c, <2>r, <3>1, <3>4
      <4> QED
        BY <2>0, <3>2, <3>4, <4>1 DEF StoreTyped
    <3>9. ShapeInv'
      BY <2>0, <3>3, <3>4, <3>5 DEF ShapeInv
    <3>10. StoreInv'
      <4>1. \A f \in Facts : memories[f] \in Facts => \E i \in 1..Len(proposals') : Justifies(proposals'[i], f, Sent)
        <5> SUFFICES ASSUME NEW f \in Facts, memories[f] \in Facts
                     PROVE  \E i \in 1..Len(proposals') : Justifies(proposals'[i], f, Sent)
          OBVIOUS
        <5>1. PICK i \in 1..Len(proposals) : Justifies(proposals[i], f, Sent)
          BY <2>0 DEF StoreInv
        <5>2. i \in 1..Len(proposals') /\ proposals'[i] = proposals[i]
          BY <2>r, <3>4
        <5> QED
          BY <5>1, <5>2
      <4>2. \A i \in 1..Len(proposals') : proposals'[i].status = "approved" => AllIn(proposals'[i], Sent)
        BY <2>0, <3>3, <3>4, <3>5 DEF StoreInv
      <4> QED
        BY <2>0, <3>2, <3>6, <4>1, <4>2 DEF StoreInv
    <3>11. FilesTyped' /\ Counted'
      BY <2>0, <3>2 DEF FilesTyped
    <3>12. FilesInv'
      <4>1. \A g \in memoryFiles' : BackedOp(g[2], proposals', Sent')
        BY <2>0, <3>2, <3>7, BackedMore DEF FilesInv, Carried
      <4> QED
        BY <2>0, <3>2, <4>1 DEF FilesInv
    <3> QED
      BY <2>q, <3>2, <3>7, <3>8, <3>9, <3>10, <3>11, <3>12
  <2>3. ASSUME NEW d \in Deciders, SendStep(d) PROVE Inv'
    <3> DEFINE ops == deciding[d].ops
               rest == Tail(ops)
    <3>1. /\ ops # <<>> /\ Send(d, Head(ops)) /\ UNCHANGED <<drained, writes, setbacks>>
          /\ deciding' = [deciding EXCEPT ![d] = IF rest = <<>> THEN AtRest ELSE [@ EXCEPT !.ops = rest]]
      BY <2>3 DEF SendStep
    <3>2. /\ deciding[d] \in [id : Nat, ops : Seq(MemoryOps)] /\ deciding[d].id \in 0..Len(proposals) /\ ops \in Seq(MemoryOps)
          /\ \A k \in 1..Len(ops) : BackedOp(ops[k], proposals, Sent \cup Before(ops, k))
      BY <2>0 DEF PlansInv, PlanBacked
    <3>3. /\ Len(ops) \in Nat /\ Len(ops) >= 1 /\ Head(ops) = ops[1] /\ rest \in Seq(MemoryOps) /\ Len(rest) = Len(ops) - 1
          /\ \A k \in 1..Len(rest) : rest[k] = ops[k + 1]
      BY <3>1, <3>2, HeadTailProperties, LenProperties, EmptySeq
    <3> HIDE DEF ops, rest
    <3>4. BackedOp(Head(ops), proposals, Sent)
      <4>1. Before(ops, 1) = {}
        BY DEF Before
      <4>2. 1 \in 1..Len(ops)
        BY <3>3
      <4> QED
        BY <3>2, <3>3, <4>1, <4>2
    <3>5. /\ StoreTyped' /\ ShapeInv' /\ StoreInv' /\ Carried /\ FilesInv' /\ FilesTyped'
          /\ \A t \in Texts : Bears(ops[1], t) => t \in Sent'
      BY <2>0, <3>1, <3>3, <3>4, OpSent
    <3>6. \A k \in 1..Len(rest) : BackedOp(rest[k], proposals', Sent' \cup Before(rest, k))
      <4> SUFFICES ASSUME NEW k \in 1..Len(rest) PROVE BackedOp(rest[k], proposals', Sent' \cup Before(rest, k))
        OBVIOUS
      <4>1. k + 1 \in 1..Len(ops) /\ rest[k] = ops[k + 1] /\ k \in Nat
        BY <3>3
      <4>2. BackedOp(rest[k], proposals, Sent \cup Before(ops, k + 1))
        BY <3>2, <4>1
      <4>3. Before(ops, k + 1) \subseteq Sent' \cup Before(rest, k)
        <5> SUFFICES ASSUME NEW t \in Texts, NEW j \in 1..((k + 1) - 1), Bears(ops[j], t)
                     PROVE  t \in Sent' \cup Before(rest, k)
          BY DEF Before
        <5>1. CASE j = 1
          BY <3>5, <5>1
        <5>2. CASE j # 1
          <6>1. j - 1 \in 1..(k - 1) /\ j - 1 \in 1..Len(rest) /\ (j - 1) + 1 = j
            BY <3>3, <4>1, <5>2
          <6>2. rest[j - 1] = ops[j]
            BY <3>3, <6>1
          <6> QED
            BY <6>1, <6>2 DEF Before
        <5> QED
          BY <5>1, <5>2
      <4>4. Sent \cup Before(ops, k + 1) \subseteq Sent' \cup Before(rest, k)
        BY <3>5, <4>3 DEF Carried
      <4> QED
        BY <3>5, <4>2, <4>4, BackedMore DEF Carried
    <3> DEFINE job == [deciding[d] EXCEPT !.ops = rest]
    <3>7. job \in [id : Nat, ops : Seq(MemoryOps)] /\ job.id = deciding[d].id /\ job.ops = rest
      BY <3>2, <3>3
    <3>8. deciding' = [deciding EXCEPT ![d] = IF rest = <<>> THEN AtRest ELSE job]
      BY <3>1 DEF ops
    <3> HIDE DEF job
    <3>9. PlanBacked(job, proposals', Sent')
      <4>1. job.id \in 0..Len(proposals')
        BY <3>2, <3>5, <3>7 DEF Carried, Grown
      <4> QED
        BY <3>6, <3>7, <4>1 DEF PlanBacked
    <3>10. PlanBacked(IF rest = <<>> THEN AtRest ELSE job, proposals', Sent')
      BY <2>a, <3>5, <3>9
    <3>11. PlansInv'
      BY <2>p, <3>5, <3>8, <3>10
    <3> QED
      BY <2>0, <3>1, <3>5, <3>11
  <2>4. ASSUME NEW d \in Deciders, StopDeciding(d) PROVE Inv'
    <3>1. /\ deciding' = [deciding EXCEPT ![d] = AtRest]
          /\ UNCHANGED <<memories, proposals, memoryFiles, drained, queued, writes, written, forgotten, quarantined>>
          /\ setbacks' = setbacks \/ (setbacks < MaxSetbacks /\ setbacks' = setbacks + 1)
      BY <2>4 DEF StopDeciding
    <3>2. Sent' = Sent
      BY <3>1 DEF Sent
    <3>3. StoreTyped' /\ ShapeInv' /\ StoreInv' /\ Carried
      BY <2>0, <3>1, <3>2, StoreKept
    <3>4. FilesTyped' /\ FilesInv'
      BY <2>0, <3>1, <3>2 DEF FilesTyped, FilesInv
    <3>5. Counted'
      BY <1>c, <2>0, <3>1
    <3> QED
      BY <2>a, <2>p, <3>1, <3>3, <3>4, <3>5
  <2>5. ASSUME NEW id \in 1..Len(proposals), PhoneApprove(id) PROVE Inv'
    <3>1. /\ UNCHANGED <<memoryFiles, drained, deciding, queued, writes, forgotten, quarantined>>
          /\ setbacks' = setbacks \/ (setbacks < MaxSetbacks /\ setbacks' = setbacks + 1)
      BY <2>5 DEF PhoneApprove
    <3>2. StoreTyped' /\ ShapeInv' /\ StoreInv' /\ Carried /\ written \subseteq written'
      BY <2>0, <2>5, PhoneApproved
    <3>3. FilesTyped'
      BY <2>0, <3>1 DEF FilesTyped
    <3>4. FilesInv'
      <4>1. \A g \in memoryFiles' : BackedOp(g[2], proposals', Sent')
        BY <2>0, <3>1, <3>2, BackedMore DEF FilesInv, Carried
      <4> QED
        BY <2>0, <3>1, <3>2, <4>1 DEF FilesInv
    <3>5. Counted'
      BY <1>c, <2>0, <3>1
    <3> QED
      BY <2>q, <3>1, <3>2, <3>3, <3>4, <3>5
  <2>6. ASSUME NEW id \in 1..Len(proposals), PhoneReject(id) PROVE Inv'
    <3> DEFINE o == SetStatusOp(id, "rejected")
    <3>1. /\ proposals' = set_status(proposals, id, "rejected")
          /\ UNCHANGED <<memories, memoryFiles, drained, deciding, queued, writes, setbacks, written, forgotten, quarantined>>
      BY <2>6 DEF PhoneReject
    <3>2. o \in MemoryOps /\ o.op = "proposal_set_status" /\ o.id = id /\ o.status = "rejected"
      BY DEF SetStatusOp, MemoryOps
    <3> HIDE DEF o
    <3>3. BackedOp(o, proposals, Sent)
      BY <3>2 DEF BackedOp
    <3>4. ApplyMemoryOp(o)
      BY <3>1, <3>2 DEF ApplyMemoryOp, ApplyMemory
    <3>5. StoreTyped' /\ ShapeInv' /\ StoreInv' /\ Carried /\ written \subseteq written'
      BY <2>0, <3>1, <3>3, <3>4, Applied
    <3>6. FilesInv'
      BY <2>0, <3>1, <3>3, <3>5, FilesKept
    <3>7. FilesTyped' /\ Counted'
      BY <2>0, <3>1 DEF FilesTyped
    <3> QED
      BY <2>q, <3>1, <3>5, <3>6, <3>7
  <2>7. ASSUME NEW d \in Deciders, NEW id \in 1..Len(proposals), Approve(d, id) \/ Reject(d, id) PROVE Inv'
    <3>1. UNCHANGED <<memories, proposals, memoryFiles, drained, queued, writes, setbacks, written, forgotten, quarantined>>
      BY <2>7 DEF Approve, Reject
    <3>2. Sent' = Sent
      BY <3>1 DEF Sent
    <3>3. StoreTyped' /\ ShapeInv' /\ StoreInv' /\ Carried
      BY <2>0, <3>1, <3>2, StoreKept
    <3>4. FilesTyped' /\ FilesInv' /\ Counted'
      BY <2>0, <3>1, <3>2 DEF FilesTyped, FilesInv
    <3>5. PICK job : deciding' = [deciding EXCEPT ![d] = job] /\ PlanBacked(job, proposals, Sent)
      <4>1. CASE Approve(d, id)
        BY <2>0, <4>1, DecisionBacked DEF Approve
      <4>2. CASE Reject(d, id)
        <5> DEFINE o == SetStatusOp(id, "rejected")
        <5>1. o \in MemoryOps /\ o.op = "proposal_set_status" /\ o.id = id /\ o.status = "rejected"
          BY DEF SetStatusOp, MemoryOps
        <5>2. deciding' = [deciding EXCEPT ![d] = [id |-> id, ops |-> <<o>>]]
          BY <4>2 DEF Reject
        <5> HIDE DEF o
        <5>3. BackedOp(o, proposals, Sent \cup Before(<<o>>, 1))
          BY <5>1 DEF BackedOp
        <5>4. PlanBacked([id |-> id, ops |-> <<o>>], proposals, Sent)
          BY <2>r, <5>1, <5>3, ShortPlanIsBacked
        <5> QED
          BY <5>2, <5>4
      <4> QED
        BY <2>7, <4>1, <4>2
    <3>6. PlansInv'
      BY <2>p, <3>1, <3>2, <3>3, <3>5
    <3> QED
      BY <3>3, <3>4, <3>6
  <2>8. CASE DrainMemory
    <3>1. PICK f \in memoryFiles :
            IF Quarantined(f[2])
            THEN /\ memoryFiles' = memoryFiles \ {f}
                 /\ quarantined' = quarantined \union {f[2].text}
                 /\ UNCHANGED <<memories, proposals, drained, written, forgotten>>
            ELSE ApplyMemoryOp(f[2]) /\ drained' = f /\ UNCHANGED memoryFiles
      BY <2>8 DEF DrainMemory
    <3>2. UNCHANGED <<deciding, queued, writes, setbacks>> /\ drained = NoMemoryFile
      BY <2>8 DEF DrainMemory
    <3>3. BackedOp(f[2], proposals, Sent)
      BY <2>0 DEF FilesInv
    <3>4. CASE Quarantined(f[2])
      <4>1. /\ memoryFiles' = memoryFiles \ {f} /\ quarantined' = quarantined \union {f[2].text}
            /\ UNCHANGED <<memories, proposals, drained, written, forgotten>>
        BY <3>1, <3>4
      <4>2. f[2].text \in Facts
        BY <3>3, <3>4, OpFields DEF Quarantined, BackedOp
      <4>3. \A t \in Texts : Bears(f[2], t) => ~t[2] /\ t[1] \in quarantined'
        BY <3>4, <4>1 DEF Bears, Carries
      <4>4. Sent \subseteq Sent'
        BY <4>1, <4>3, SentGrows
      <4>5. StoreTyped' /\ ShapeInv' /\ StoreInv' /\ Carried
        <5>1. Carried
          BY <2>r, <4>1, <4>4 DEF Carried, Grown
        <5>2. StoreTyped' /\ ShapeInv'
          BY <2>0, <4>1, <4>2 DEF StoreTyped, ShapeInv
        <5>3. StoreInv'
          BY <2>0, <4>1, <4>4 DEF StoreInv, Justifies, AllIn, Sourceless
        <5> QED
          BY <5>1, <5>2, <5>3
      <4>6. FilesInv'
        <5>1. \A g \in memoryFiles' : BackedOp(g[2], proposals', Sent')
          BY <2>0, <4>1, <4>5, BackedMore DEF FilesInv, Carried
        <5> QED
          BY <3>2, <4>1, <5>1 DEF FilesInv
      <4>7. FilesTyped' /\ Counted'
        BY <2>0, <3>2, <4>1 DEF FilesTyped
      <4> QED
        BY <2>q, <3>2, <4>5, <4>6, <4>7
    <3>5. CASE ~Quarantined(f[2])
      <4>1. ApplyMemoryOp(f[2]) /\ drained' = f /\ UNCHANGED memoryFiles
        BY <3>1, <3>5
      <4>2. /\ StoreTyped' /\ ShapeInv' /\ StoreInv' /\ Carried /\ written \subseteq written'
            /\ \A x \in Facts : Carries(f[2], x) => x \in written'
        BY <2>0, <3>3, <4>1, Applied
      <4>3. FilesInv'
        BY <2>0, <3>3, <4>1, <4>2, FilesKept
      <4>4. FilesTyped' /\ Counted'
        BY <2>0, <3>2, <4>1 DEF FilesTyped
      <4> QED
        BY <2>q, <3>2, <4>2, <4>3, <4>4
    <3> QED
      BY <3>4, <3>5
  <2>9. CASE DrainRemoved
    <3>1. /\ drained # NoMemoryFile /\ memoryFiles' = memoryFiles \ {drained} /\ drained' = NoMemoryFile
          /\ UNCHANGED <<memories, proposals, deciding, queued, writes, setbacks, written, forgotten, quarantined>>
      BY <2>9 DEF DrainRemoved
    <3>2. Sent \subseteq Sent'
      <4>1. \A t \in Texts : Bears(drained[2], t) => t[1] \in written'
        BY <2>0, <3>1 DEF FilesInv, Bears, Texts
      <4> QED
        BY <3>1, <4>1, SentGrows
    <3>3. StoreTyped' /\ ShapeInv' /\ StoreInv' /\ Carried
      BY <2>0, <3>1, <3>2, StoreKept
    <3>4. FilesInv'
      <4>1. \A g \in memoryFiles' : BackedOp(g[2], proposals', Sent')
        BY <2>0, <3>1, <3>3, BackedMore DEF FilesInv, Carried
      <4> QED
        BY <3>1, <4>1 DEF FilesInv
    <3>5. FilesTyped' /\ Counted'
      BY <1>c, <2>0, <3>1 DEF FilesTyped, NoMemoryFile
    <3> QED
      BY <2>q, <3>1, <3>3, <3>4, <3>5
  <2>10. CASE DrainRestarts
    <3>1. /\ drained' = NoMemoryFile /\ setbacks < MaxSetbacks /\ setbacks' = setbacks + 1
          /\ UNCHANGED <<memories, proposals, memoryFiles, deciding, queued, writes, written, forgotten, quarantined>>
      BY <2>10 DEF DrainRestarts
    <3>2. Sent' = Sent
      BY <3>1 DEF Sent
    <3>3. StoreTyped' /\ ShapeInv' /\ StoreInv' /\ Carried
      BY <2>0, <3>1, <3>2, StoreKept
    <3>4. FilesTyped' /\ FilesInv'
      BY <1>c, <2>0, <3>1, <3>2 DEF FilesTyped, FilesInv, NoMemoryFile
    <3>5. Counted'
      BY <1>c, <2>0, <3>1
    <3> QED
      BY <2>q, <3>1, <3>3, <3>4, <3>5
  <2>11. CASE UNCHANGED curationVars
    <3>1. UNCHANGED <<memories, proposals, memoryFiles, drained, deciding, queued, writes, setbacks, written, forgotten, quarantined>>
      BY <2>11 DEF curationVars
    <3>2. Sent' = Sent
      BY <3>1 DEF Sent
    <3>3. StoreTyped' /\ ShapeInv' /\ StoreInv' /\ Carried
      BY <2>0, <3>1, <3>2, StoreKept
    <3>4. FilesTyped' /\ FilesInv' /\ Counted'
      BY <2>0, <3>1, <3>2 DEF FilesTyped, FilesInv
    <3> QED
      BY <2>q, <3>1, <3>3, <3>4
  <2> QED
    BY <2>1, <2>2, <2>3, <2>4, <2>5, <2>6, <2>7, <2>8, <2>9, <2>10, <2>11 DEF CurationNext
<1>3. Inv => CurationInv
  <2> SUFFICES ASSUME Inv PROVE CurationInv
    OBVIOUS
  <2>1. \A d \in Deciders : deciding[d].id \in 0..Len(proposals)
    BY DEF PlansInv, PlanBacked
  <2>2. CurationTypeOK
    BY <2>1 DEF CurationTypeOK, StoreTyped, FilesTyped, Marks
  <2> QED
    BY <2>2 DEF CurationInv
<1> QED
  BY <1>1, <1>2, <1>3, PTL DEF CurationSpec

\* Once approved, every text of a proposal is stored or on its way, but for a merge without
\* sources whose file the drain set aside, and the original of a split is not retired before
\* its other part is stored or on its way (queue.rs: plan_apply; paos-cli: cmd_decide;
\* tg_digest.rs; handlers.rs: drain_spool_at).
THEOREM ApprovedIsStored == CurationSpec => []CurationSafety
<1>1. CurationInv => CurationSafety
  <2> SUFFICES ASSUME CurationInv PROVE CurationSafety
    OBVIOUS
  <2>0. StoreInv /\ ShapeInv /\ CurationTypeOK
    BY DEF CurationInv
  <2>1. \A f \in Facts, sure \in BOOLEAN : <<f, sure>> \in Sent =>
          f \in written \/ InFlight(f) \/ (~sure /\ f \in quarantined)
    BY DEF Sent, InFlight, Bears, Carries
  <2>2. ASSUME NEW i \in 1..Len(proposals)
        PROVE  /\ proposals[i] \in Proposal /\ proposals[i].texts \in Seq(Facts)
               /\ proposals[i].targets \subseteq Facts
    <3>1. proposals[i] \in Proposal
      BY <2>0, ElementOfSeq DEF CurationTypeOK
    <3> QED
      BY <3>1 DEF Proposal
  <2>3. ApprovedReaches
    <3> SUFFICES ASSUME NEW i \in 1..Len(proposals), proposals[i].status = "approved", NEW f \in ToSet(proposals[i].texts)
                 PROVE  f \in written \/ InFlight(f) \/ SetAside(proposals[i], f)
      BY DEF ApprovedReaches
    <3>1. AllIn(proposals[i], Sent)
      BY <2>0 DEF StoreInv
    <3>2. PICK n \in 1..Len(proposals[i].texts) : f = proposals[i].texts[n]
      BY <2>2 DEF ToSet
    <3>3. f \in Facts
      BY <2>2, <3>2, ElementOfSeq
    <3> QED
      BY <2>1, <3>1, <3>2, <3>3 DEF AllIn, Sourceless, SetAside
  <2>4. SplitKeepsAll
    <3> SUFFICES ASSUME NEW i \in 1..Len(proposals), proposals[i].kind = "split",
                        \A j \in 1..Len(proposals) : j # i => proposals[i].targets \intersect proposals[j].targets = {},
                        NEW o \in proposals[i].targets, memories[o] = proposals[i].texts[2]
                 PROVE  proposals[i].texts[1] \in written \/ InFlight(proposals[i].texts[1])
      BY DEF SplitKeepsAll
    <3>1. o \in Facts /\ memories[o] \in Facts
      <4>1. 2 \in 1..Len(proposals[i].texts)
        BY <2>0 DEF ShapeInv, WellShaped
      <4> QED
        BY <2>2, <4>1, ElementOfSeq
    <3>2. PICK j \in 1..Len(proposals) : Justifies(proposals[j], o, Sent)
      BY <2>0, <3>1 DEF StoreInv
    <3>3. j = i
      BY <3>2 DEF Justifies
    <3>4. <<proposals[i].texts[1], TRUE>> \in Sent
      BY <3>2, <3>3 DEF Justifies
    <3>5. proposals[i].texts[1] \in Facts
      <4>1. 1 \in 1..Len(proposals[i].texts)
        BY <2>0 DEF ShapeInv, WellShaped
      <4> QED
        BY <2>2, <4>1, ElementOfSeq
    <3> QED
      BY <2>1, <3>4, <3>5
  <2> QED
    BY <2>0, <2>3, <2>4 DEF CurationSafety
<1> QED
  BY <1>1, CurationInvHolds, PTL

(***************************************************************************)
(* Supervision.                                                            *)
(***************************************************************************)

\* The row, or the page, still owed for the time a session is deaf now.
Owed(kind, s) == IF s \in deaf /\ <<kind, s>> \notin alerted THEN 1 ELSE 0

\* Every row and every page is paid for by a time the session went deaf or by a kill; and
\* while nobody was killed the rows are exactly the times, but for those owed.
SupInv ==
    /\ SupTypeOK /\ supKills \in Nat
    /\ \A s \in Watched : /\ pages[s] + Owed("deaf", s) <= episode[s] + supKills
                          /\ journal[s] + Owed("journal", s) <= episode[s] + supKills
    /\ supKills = 0 =>
         /\ \A s \in Watched : journal[s] + Owed("journal", s) = episode[s]
         /\ stage # "journal" => \A s \in Watched : s \in deaf <=> <<"journal", s>> \in alerted

\* Only supervise begins a time of being deaf, and only a kill forgets that it was told.
LEMMA SupInvHolds == SupSpec => []SupInv
<1> USE SupervisionConstants
<1>1. SupInit => SupInv
  <2> SUFFICES ASSUME SupInit PROVE SupInv
    OBVIOUS
  <2>1. SupTypeOK /\ supKills = 0 /\ deaf = {} /\ alerted = {}
    <3>0. age \in [Watched -> Ages]
      <4>1. 0 \in Ages
        BY DEF Ages
      <4> QED
        BY <4>1 DEF SupInit
    <3>1. /\ {inRooms, listening, claimed, stale, deaf} \subseteq SUBSET Watched
          /\ channel \in BOOLEAN /\ exhausted \in BOOLEAN
          /\ stage \in {"rest", "journal", "capacity", "page"} /\ alerted \subseteq Keys
      BY DEF SupInit
    <3>2. {episode, journal, woken, pages} \subseteq [Watched -> Nat] /\ {outages, announced} \subseteq Nat
      BY DEF SupInit
    <3> QED
      BY <3>0, <3>1, <3>2 DEF SupTypeOK, SupInit
  <2>2. \A s \in Watched : pages[s] = 0 /\ journal[s] = 0 /\ episode[s] = 0
    BY DEF SupInit
  <2> QED
    BY <2>1, <2>2 DEF SupInv, Owed
<1>2. SupInv /\ [SupNext]_supVars => SupInv'
  <2> SUFFICES ASSUME SupInv, [SupNext]_supVars PROVE SupInv'
    OBVIOUS
  <2>1. CASE UNCHANGED <<episode, journal, pages, deaf, alerted, supKills, stage>> /\ SupTypeOK'
    BY <2>1 DEF SupInv, Owed
  <2>2. ASSUME NEW s \in Watched, heartbeat(s) PROVE SupInv'
    <3>1. SupTypeOK'
      BY <2>2 DEF heartbeat, world, told_, SupInv, SupTypeOK, Ages
    <3> QED
      BY <2>1, <2>2, <3>1 DEF heartbeat, world, told_
  <2>3. ASSUME NEW s \in Watched, Prompted(s) PROVE SupInv'
    <3>1. SupTypeOK'
      BY <2>3 DEF Prompted, Toggle, world, told_, marks, SupInv, SupTypeOK, Ages
    <3> QED
      BY <2>1, <2>3, <3>1 DEF Prompted, world, told_, marks
  <2>4. CASE Tick
    <3>1. \A s \in Watched : Min({age[s] + 1, DeafAfter + 1}) \in Ages
      <4> SUFFICES ASSUME NEW s \in Watched PROVE Min({age[s] + 1, DeafAfter + 1}) \in Ages
        OBVIOUS
      <4>1. age[s] + 1 \in Nat /\ DeafAfter + 1 \in Nat
        BY DEF SupInv, SupTypeOK, Ages
      <4>2. Min({age[s] + 1, DeafAfter + 1}) \in Nat /\ Min({age[s] + 1, DeafAfter + 1}) <= DeafAfter + 1
        BY <4>1, MinOfTwo
      <4> QED
        BY <4>1, <4>2 DEF Ages
    <3>2. SupTypeOK'
      BY <2>4, <3>1 DEF Tick, world, told_, marks, SupInv, SupTypeOK
    <3> QED
      BY <2>1, <2>4, <3>2 DEF Tick, world, told_, marks
  <2>5. CASE World
    <3>1. SupTypeOK'
      BY <2>5 DEF World, sessionState, told_, marks, SupInv, SupTypeOK
    <3> QED
      BY <2>1, <2>5, <3>1 DEF World, sessionState, told_, marks
  <2>6. CASE supervise
    <3>1. SupTypeOK'
      BY <2>6 DEF supervise, sessionState, world, told_, SupInv, SupTypeOK
    <3>2. /\ stage = "rest" /\ stage' = "journal" /\ UNCHANGED <<journal, pages, alerted, supKills>>
          /\ \A s \in Watched : episode'[s] = episode[s] + IF s \in deaf' /\ s \notin deaf THEN 1 ELSE 0
      BY <2>6 DEF supervise, told_
    <3>3. ASSUME NEW s \in Watched
          PROVE  /\ pages'[s] + Owed("deaf", s)' <= episode'[s] + supKills'
                 /\ journal'[s] + Owed("journal", s)' <= episode'[s] + supKills'
                 /\ supKills' = 0 => journal'[s] + Owed("journal", s)' = episode'[s]
      BY <3>2 DEF SupInv, SupTypeOK, Owed
    <3> QED
      BY <3>1, <3>2, <3>3 DEF SupInv
  <2>7. CASE Journal
    <3>1. SupTypeOK'
      BY <2>7 DEF Journal, sessionState, world, marks, SupInv, SupTypeOK, Rearm, Keys, PerSession
    <3>2. /\ stage = "journal" /\ stage' # "journal" /\ UNCHANGED <<pages, deaf, episode, supKills>>
          /\ \A s \in Watched : /\ journal'[s] = journal[s] + Owed("journal", s)
                                /\ <<"journal", s>> \in alerted' <=> s \in deaf
                                /\ s \in deaf => (<<"deaf", s>> \in alerted' <=> <<"deaf", s>> \in alerted)
      BY <2>7 DEF Journal, marks, Rearm, Owed
    <3>3. ASSUME NEW s \in Watched
          PROVE  /\ pages'[s] + Owed("deaf", s)' <= episode'[s] + supKills'
                 /\ journal'[s] + Owed("journal", s)' <= episode'[s] + supKills'
                 /\ supKills' = 0 => journal'[s] + Owed("journal", s)' = episode'[s]
      BY <3>2 DEF SupInv, SupTypeOK, Owed
    <3> QED
      BY <3>1, <3>2, <3>3 DEF SupInv
  <2>8. CASE Capacity
    <3>1. SupTypeOK'
      BY <2>8 DEF Capacity, sessionState, world, marks, SupInv, SupTypeOK, Keys, PerSession
    <3>2. /\ stage # "journal" /\ stage' # "journal"
          /\ UNCHANGED <<journal, pages, deaf, episode, supKills>>
          /\ \A k \in PerSession : k \in alerted' <=> k \in alerted
      BY <2>8 DEF Capacity, marks, PerSession
    <3>3. \A s \in Watched : Owed("deaf", s)' = Owed("deaf", s) /\ Owed("journal", s)' = Owed("journal", s)
      BY <3>2 DEF Owed, PerSession
    <3> QED
      BY <3>1, <3>2, <3>3 DEF SupInv, PerSession
  <2>9. CASE Page
    <3> DEFINE toWake == {s \in deaf : <<"woke", s>> \notin alerted}
               toPage == {s \in deaf \ toWake : <<"deaf", s>> \notin alerted}
    <3>1. /\ stage = "page" /\ stage' = "rest"
          /\ woken' = [s \in Watched |-> IF s \in toWake THEN episode[s] ELSE woken[s]]
          /\ pages' = [s \in Watched |-> pages[s] + IF s \in toPage THEN 1 ELSE 0]
          /\ alerted' = Rearm({"woke", "deaf"}) \cup {<<"woke", s>> : s \in toWake}
                                                \cup {<<"deaf", s>> : s \in toPage}
          /\ UNCHANGED <<sessionState, marks, world, journal, outages, announced, supKills>>
      BY <2>9 DEF Page
    <3>2. SupTypeOK'
      <4>1. toWake \subseteq Watched /\ toPage \subseteq Watched
        BY DEF SupInv, SupTypeOK
      <4>2. woken' \in [Watched -> Nat] /\ pages' \in [Watched -> Nat]
        BY <3>1, <4>1 DEF SupInv, SupTypeOK
      <4>3. alerted' \subseteq Keys
        <5>1. Rearm({"woke", "deaf"}) \subseteq Keys
          BY DEF SupInv, SupTypeOK, Rearm
        <5>2. \A s \in Watched : <<"woke", s>> \in Keys /\ <<"deaf", s>> \in Keys
          BY DEF Keys, PerSession
        <5> HIDE DEF toWake, toPage
        <5>3. {<<"woke", s>> : s \in toWake} \subseteq Keys
          BY <4>1, <5>2
        <5>4. {<<"deaf", s>> : s \in toPage} \subseteq Keys
          BY <4>1, <5>2
        <5> QED
          BY <3>1, <5>1, <5>3, <5>4
      <4> QED
        BY <3>1, <4>2, <4>3 DEF SupInv, SupTypeOK, sessionState, marks, world
    <3>3. \A s \in Watched : <<"journal", s>> \in alerted' <=> <<"journal", s>> \in alerted
      BY <3>1 DEF Rearm
    <3>4. ASSUME NEW s \in Watched
          PROVE  /\ pages'[s] + Owed("deaf", s)' <= episode'[s] + supKills'
                 /\ Owed("journal", s)' = Owed("journal", s)
      <4>1. deaf' = deaf /\ episode' = episode /\ supKills' = supKills
        BY <3>1 DEF marks
      <4>2. Owed("journal", s)' = Owed("journal", s)
        BY <3>3, <4>1 DEF Owed
      <4>3. CASE s \in toPage
        <5>1. <<"deaf", s>> \in alerted' /\ pages'[s] = pages[s] + 1 /\ Owed("deaf", s) = 1
          BY <3>1, <4>3 DEF Owed
        <5> QED
          BY <4>1, <4>2, <5>1 DEF SupInv, SupTypeOK, Owed
      <4>4. CASE s \notin toPage
        <5>1. pages'[s] = pages[s]
          BY <3>1, <4>4 DEF SupInv, SupTypeOK
        <5>2. s \in deaf /\ <<"deaf", s>> \in alerted => <<"deaf", s>> \in alerted'
          <6>1. s \in deaf /\ <<"deaf", s>> \in alerted => <<"deaf", s>> \in Rearm({"woke", "deaf"})
            BY DEF Rearm
          <6> HIDE DEF toWake, toPage
          <6> QED
            BY <3>1, <6>1
        <5>3. Owed("deaf", s)' <= Owed("deaf", s) /\ {Owed("deaf", s), Owed("deaf", s)'} \subseteq {0, 1}
          BY <4>1, <5>2 DEF Owed
        <5>4. pages[s] + Owed("deaf", s) <= episode[s] + supKills
              /\ pages[s] \in Nat /\ episode[s] \in Nat /\ supKills \in Nat
          BY DEF SupInv, SupTypeOK
        <5> QED
          BY <4>1, <4>2, <5>1, <5>3, <5>4
      <4> QED
        BY <4>3, <4>4
    <3>5. UNCHANGED <<journal, deaf, episode, supKills>> /\ stage # "journal"
      BY <3>1 DEF marks
    <3> QED
      BY <3>2, <3>3, <3>4, <3>5 DEF SupInv
  <2>10. CASE SupKill
    <3>1. SupTypeOK'
      BY <2>10 DEF SupKill, sessionState, world, marks, told_, SupInv, SupTypeOK
    <3>2. supKills' = supKills + 1 /\ UNCHANGED <<journal, pages, deaf, episode>>
      BY <2>10 DEF SupKill, marks, told_
    <3>3. ASSUME NEW s \in Watched
          PROVE  /\ pages'[s] + Owed("deaf", s)' <= episode'[s] + supKills'
                 /\ journal'[s] + Owed("journal", s)' <= episode'[s] + supKills'
      BY <3>2 DEF SupInv, SupTypeOK, Owed
    <3> QED
      BY <3>1, <3>2, <3>3 DEF SupInv
  <2>11. CASE UNCHANGED supVars
    <3>1. SupTypeOK'
      BY <2>11 DEF supVars, sessionState, world, marks, told_, SupInv, SupTypeOK
    <3> QED
      BY <2>1, <2>11, <3>1 DEF supVars, marks, told_
  <2> QED
    BY <2>2, <2>3, <2>4, <2>5, <2>6, <2>7, <2>8, <2>9, <2>10, <2>11 DEF SupNext, SupLoop
<1> QED
  BY <1>1, <1>2, PTL DEF SupSpec

\* Each time a session goes deaf is journalled once and paged at most once, but for what
\* a kill of the daemon repeats (bridge.rs, supervise_and_alert).
THEOREM ToldOfDeafOnce == SupSpec => []SupSafety
<1>1. SupInv => SupSafety
  <2> SUFFICES ASSUME SupInv PROVE SupSafety
    OBVIOUS
  <2>1. ASSUME NEW s \in Watched
        PROVE  /\ pages[s] <= episode[s] + supKills /\ journal[s] <= episode[s] + supKills
               /\ supKills = 0 /\ stage # "journal" => journal[s] = episode[s]
    <3>1. /\ pages[s] \in Nat /\ journal[s] \in Nat /\ episode[s] \in Nat /\ supKills \in Nat
          /\ Owed("deaf", s) \in {0, 1} /\ Owed("journal", s) \in {0, 1}
      BY DEF SupInv, SupTypeOK, Owed
    <3>2. /\ pages[s] + Owed("deaf", s) <= episode[s] + supKills
          /\ journal[s] + Owed("journal", s) <= episode[s] + supKills
          /\ supKills = 0 => journal[s] + Owed("journal", s) = episode[s]
      BY DEF SupInv
    <3>3. supKills = 0 /\ stage # "journal" => Owed("journal", s) = 0
      BY DEF SupInv, Owed
    <3> QED
      BY <3>1, <3>2, <3>3
  <2> QED
    BY <2>1 DEF SupInv, SupSafety, JournalledOnce, PagedOnce
<1> QED
  BY <1>1, SupInvHolds, PTL

(***************************************************************************)
(* The nights.                                                             *)
(***************************************************************************)

\* A number is so many days and an hour, in one way.
LEMMA DayAndHour ==
    ASSUME NEW n \in Nat, NEW k \in Nat, k > 0
    PROVE  /\ n \div k \in Nat /\ n % k \in 0..(k - 1) /\ n = k * (n \div k) + (n % k)
           /\ \A q \in Nat, r \in 0..(k - 1) : n = k * q + r => q = n \div k /\ r = n % k
<1>1. n \div k \in Nat /\ n % k \in 0..(k - 1) /\ n = k * (n \div k) + (n % k)
  OBVIOUS
<1>2. ASSUME NEW a \in Nat, NEW b \in Nat, a > b PROVE k * a >= k * b + k
  <2>1. PICK c \in Nat : a = b + 1 + c
    <3>1. a - b - 1 \in Nat /\ a = b + 1 + (a - b - 1)
      BY <1>2
    <3> QED
      BY <3>1
  <2>2. k * (b + 1 + c) = k * b + k + k * c /\ k * c \in Nat /\ k * b \in Nat
    OBVIOUS
  <2> QED
    BY <2>1, <2>2
<1>3. ASSUME NEW q \in Nat, NEW r \in 0..(k - 1), NEW p \in Nat, NEW s \in 0..(k - 1),
             k * p + s = k * q + r
      PROVE  q = p /\ r = s
  <2>1. k * q \in Nat /\ k * p \in Nat
    OBVIOUS
  <2>2. CASE q > p
    <3>1. k * q >= k * p + k
      BY <1>2, <2>2
    <3> QED
      BY <1>3, <2>1, <3>1
  <2>3. CASE p > q
    <3>1. k * p >= k * q + k
      BY <1>2, <2>3
    <3> QED
      BY <1>3, <2>1, <3>1
  <2>4. CASE q = p
    BY <1>3, <2>1, <2>4
  <2> QED
    BY <2>2, <2>3, <2>4
<1>4. PICK p \in Nat, s \in 0..(k - 1) : p = n \div k /\ s = n % k /\ n = k * p + s
  BY <1>1
<1> QED
  BY <1>1, <1>3, <1>4

\* A check later it is the hour after, or the day after at hour 0.
LEMMA NextCheck ==
    ASSUME NEW n \in Nat, NEW k \in Nat, k > 0
    PROVE  /\ n % k # k - 1 => (n + 1) \div k = n \div k /\ (n + 1) % k = (n % k) + 1
           /\ n % k = k - 1 => (n + 1) \div k = (n \div k) + 1 /\ (n + 1) % k = 0
<1>1. PICK p \in Nat, s \in 0..(k - 1) : p = n \div k /\ s = n % k /\ n = k * p + s
  BY DayAndHour
<1>2. k * (p + 1) = k * p + k /\ k * p \in Nat
  OBVIOUS
<1>3. CASE s # k - 1
  <2>1. s + 1 \in 0..(k - 1) /\ n + 1 = k * p + (s + 1)
    BY <1>1, <1>2, <1>3
  <2>2. p = (n + 1) \div k /\ s + 1 = (n + 1) % k
    BY <2>1, DayAndHour
  <2> QED
    BY <1>1, <1>3, <2>2
<1>4. CASE s = k - 1
  <2>1. 0 \in 0..(k - 1) /\ n + 1 = k * (p + 1) + 0 /\ p + 1 \in Nat
    BY <1>1, <1>2, <1>4
  <2>2. p + 1 = (n + 1) \div k /\ 0 = (n + 1) % k
    BY <2>1, DayAndHour
  <2> QED
    BY <1>1, <1>4, <2>2
<1> QED
  BY <1>3, <1>4

Today == starts[day_now]

\* Whether today's dream was started tells how long ago the last one was, and a window no
\* longer than the interval leaves no room for another; on a day without trouble the last hour of the window is reached with the dream started or about to.
NightInv ==
    /\ day_now \in 1..Days + 1 /\ hour_now \in 0..(Day - 1)
    /\ \A d \in 1..Days + 1 : /\ starts[d] \in Nat /\ (WindowFits => starts[d] <= 1)
                              /\ d > day_now => starts[d] = 0
    /\ Today >= 1 => /\ hour_now - (HourEnd - 1) <= clock - last_run
                     /\ clock - last_run <= hour_now - HourStart
    /\ Today = 0 => clock - last_run >= Day + hour_now - (HourEnd - 1)
    /\ day_now <= Days /\ day_now \notin hurt =>
         /\ enabled /\ scheduler # "down"
         /\ Today = 0 /\ hour_now >= HourEnd - 1 => hour_now = HourEnd - 1 /\ scheduler = "tick"

\* While every dream has left room before the next, it finished less than the interval,
\* but for the slack, after it started; one that died has a start later than any finish,
\* by more than the slack.
Roomy == MinInterval - Slack
DreamInv ==
    /\ ~overran => last_ok < last_run + Roomy
    /\ scheduler = "dreaming" /\ ~overran => clock - last_run < Roomy
    /\ dreamDied \/ scheduler = "dreaming" =>
         last_run # never /\ (~overran => last_ok < last_run - Slack)

\* The stamp names its snapshot, and the file being written is newer than it and than
\* every other.
BackupInv ==
    /\ last_backup # never => <<last_backup, TRUE, TRUE>> \in snaps
    /\ \A s \in snaps : s[2] => s[1] <= last_backup
    /\ scheduler = "zipping" =>
         \E z \in Day..clock : /\ <<z, FALSE, TRUE>> \in snaps /\ z > last_backup
                               /\ \A t \in snaps \ {<<z, FALSE, TRUE>>} : t[1] < z

NightlyInv == NightlyTypeOK /\ NightInv /\ NightIsKept /\ DreamInv /\ BackupInv

LEMMA NightlyInvHolds == NightlySpec => []NightlyInv
<1> USE NightlyAssumption
<1>0. Day \in Nat /\ Day > 0 /\ Days \in Nat
  OBVIOUS
<1>1. NightlyInit => NightlyInv
  <2> SUFFICES ASSUME NightlyInit PROVE NightlyInv
    OBVIOUS
  <2> USE DEF NightlyInit
  <2>1. Day = Day * 1 + 0 /\ 0 \in 0..(Day - 1) /\ 1 \in Nat
    BY <1>0
  <2>2. day_now = 1 /\ hour_now = 0
    BY <1>0, <2>1, DayAndHour DEF day_now, hour_now
  <2>3. (Days + 1) * Day >= Day /\ (Days + 1) * Day \in Nat
    <3>1. (Days + 1) * Day = Days * Day + Day /\ Days * Day \in Nat
      BY <1>0
    <3> QED
      BY <1>0, <3>1
  <2>4. NightlyTypeOK
    <3>1. clock \in Day..((Days + 1) * Day) /\ {last_run, last_ok, last_backup} \subseteq 0..clock
      BY <1>0, <2>3 DEF never
    <3>2. starts \in [1..Days + 1 -> Nat] /\ snaps = {} /\ hurt = {}
      OBVIOUS
    <3>3. nightKills \in 0..MaxNightKills /\ nightFailures \in 0..MaxNightFailures
      OBVIOUS
    <3>4. /\ scheduler \in {"tick", "dreaming", "backup", "zipping", "asleep", "down"}
          /\ enabled \in BOOLEAN /\ facts \in BOOLEAN /\ dreamDied \in BOOLEAN /\ overran \in BOOLEAN
      OBVIOUS
    <3>5. /\ snaps \subseteq (Day..clock) \X BOOLEAN \X BOOLEAN /\ hurt \subseteq 1..Days + 1
      BY <3>2
    <3> HIDE DEF NightlyInit
    <3> QED
      BY <3>1, <3>2, <3>3, <3>4, <3>5 DEF NightlyTypeOK
  <2>5. NightInv
    BY <1>0, <2>2 DEF NightInv, Today, never
  <2>6. NightIsKept
    BY <1>0, <2>2 DEF NightIsKept
  <2>7. DreamInv /\ BackupInv
    BY <1>0 DEF DreamInv, Roomy, BackupInv, never
  <2> QED
    BY <2>4, <2>5, <2>6, <2>7 DEF NightlyInv
<1>2. NightlyInv /\ [NightlyNext]_nightVars => NightlyInv'
  <2> SUFFICES ASSUME NightlyInv, [NightlyNext]_nightVars PROVE NightlyInv'
    OBVIOUS
  <2>0. /\ clock \in Nat /\ {last_run, last_ok, last_backup} \subseteq Nat
        /\ last_run <= clock /\ last_ok <= clock /\ last_backup <= clock /\ Day <= clock
        /\ day_now \in 1..Days + 1 /\ hour_now \in 0..(Day - 1)
    BY <1>0 DEF NightlyInv, NightlyTypeOK, NightInv
  <2>a. ASSUME UNCHANGED <<clock, starts, last_run>>, hurt \subseteq hurt',
               \/ day_now \in hurt'
               \/ UNCHANGED <<hurt, enabled>> /\ scheduler' # "down" /\ scheduler # "tick"
        PROVE  NightInv' /\ NightIsKept'
    <3>1. day_now' = day_now /\ hour_now' = hour_now /\ Today' = Today
      BY <2>a DEF day_now, hour_now, Today
    <3>2. NightInv'
      BY <2>a, <3>1 DEF NightlyInv, NightInv
    <3>3. NightIsKept'
      BY <2>a, <3>1 DEF NightlyInv, NightIsKept
    <3> QED
      BY <3>2, <3>3
  <2>b. ASSUME UNCHANGED <<clock, last_ok, last_run, dreamDied, overran>>,
               scheduler' = "dreaming" => scheduler = "dreaming"
        PROVE  DreamInv'
    BY <2>b DEF NightlyInv, DreamInv
  <2>c. ASSUME UNCHANGED <<clock, snaps, last_backup>>, scheduler' = "zipping" => scheduler = "zipping"
        PROVE  BackupInv'
    BY <2>c DEF NightlyInv, BackupInv
  <2>1. CASE StartDream
    <3>1. /\ scheduler = "tick" /\ DreamDue /\ scheduler' = "dreaming" /\ last_run' = clock
          /\ starts' = [starts EXCEPT ![day_now] = @ + 1] /\ dreamDied' = FALSE
          /\ UNCHANGED <<clock, last_ok, last_backup, enabled, facts, snaps, hurt, overran, nightKills, nightFailures>>
      BY <2>1 DEF StartDream, RecordStart
    <3>2. /\ day_now' = day_now /\ hour_now' = hour_now
      BY <3>1 DEF day_now, hour_now
    <3>3. clock - last_run >= MinInterval /\ HourStart <= hour_now /\ hour_now < HourEnd
      BY <3>1 DEF DreamDue
    <3>4. starts \in [1..Days + 1 -> Nat] /\ Today \in Nat
      BY <2>0 DEF NightlyInv, NightInv, NightlyTypeOK, Today
    <3>5. WindowFits => Today = 0
      <4> SUFFICES ASSUME WindowFits, Today >= 1 PROVE FALSE
        BY <3>4
      <4>1. clock - last_run <= hour_now - HourStart
        BY DEF NightlyInv, NightInv
      <4>2. hour_now < HourEnd /\ HourEnd - HourStart <= MinInterval /\ clock - last_run >= MinInterval
        BY <3>3 DEF WindowFits
      <4>3. {hour_now, clock, last_run, HourStart, HourEnd, MinInterval} \subseteq Nat
        BY <1>0, <2>0
      <4> QED
        BY <4>1, <4>2, <4>3
    <3>6. /\ Today' = Today + 1 /\ \A d \in 1..Days + 1 : d # day_now => starts'[d] = starts[d]
          /\ starts' \in [1..Days + 1 -> Nat] /\ starts'[day_now] = Today + 1
      <4>1. day_now \in 1..Days + 1 /\ starts \in [1..Days + 1 -> Nat] /\ starts[day_now] \in Nat
        BY <2>0, <3>4
      <4>2. starts' = [starts EXCEPT ![day_now] = starts[day_now] + 1]
        BY <3>1
      <4>3. starts'[day_now] = starts[day_now] + 1
        BY <4>1, <4>2
      <4>4. \A d \in 1..Days + 1 : d # day_now => starts'[d] = starts[d]
        BY <4>1, <4>2
      <4>5. starts' \in [1..Days + 1 -> Nat]
        BY <4>1, <4>2
      <4> QED
        BY <3>2, <4>3, <4>4, <4>5 DEF Today
    <3>7. NightlyTypeOK'
      <4>1. {last_run', last_ok', last_backup'} \subseteq 0..clock
        BY <2>0, <3>1
      <4> QED
        BY <3>1, <3>6, <4>1 DEF NightlyInv, NightlyTypeOK
    <3>8. NightInv'
      <4>1. ASSUME NEW d \in 1..Days + 1
            PROVE  /\ starts'[d] \in Nat /\ (WindowFits => starts'[d] <= 1)
                   /\ d > day_now => starts'[d] = 0
        <5>1. CASE d = day_now
          <6>1. starts'[d] = Today + 1
            BY <3>6, <5>1
          <6>2. ~(d > day_now)
            BY <2>0, <5>1
          <6> QED
            BY <3>4, <3>5, <6>1, <6>2
        <5>2. CASE d # day_now
          BY <3>6, <5>2 DEF NightlyInv, NightInv
        <5> QED
          BY <5>1, <5>2
      <4>2. hour_now - (HourEnd - 1) <= clock - last_run' /\ clock - last_run' <= hour_now - HourStart
        BY <2>0, <3>1, <3>3
      <4>3. day_now <= Days /\ day_now \notin hurt => enabled
        BY DEF NightlyInv, NightInv
      <4> QED
        <5>1. Today' # 0 /\ day_now' \in 1..Days + 1 /\ hour_now' \in 0..(Day - 1)
          BY <2>0, <3>2, <3>4, <3>6
        <5>2. \A d \in 1..Days + 1 : /\ starts'[d] \in Nat /\ (WindowFits => starts'[d] <= 1)
                                     /\ d > day_now' => starts'[d] = 0
          BY <3>2, <4>1
        <5>3. hour_now' - (HourEnd - 1) <= clock' - last_run' /\ clock' - last_run' <= hour_now' - HourStart
          BY <3>1, <3>2, <4>2
        <5>4. day_now' <= Days /\ day_now' \notin hurt' => enabled' /\ scheduler' # "down"
          BY <3>1, <3>2, <4>3
        <5> QED
          BY <5>1, <5>2, <5>3, <5>4 DEF NightInv, WindowFits
    <3>9. NightIsKept'
      BY <2>0, <3>1, <3>2, <3>6, SMTT(20) DEF NightlyInv, NightIsKept
    <3>10. DreamInv'
      <4>1. ~overran => last_ok < clock - Slack
        BY <2>0, <3>3 DEF NightlyInv, DreamInv, Roomy
      <4>2. ~overran => last_ok < clock + Roomy
        BY <2>0, <4>1 DEF Roomy
      <4>3. clock # never /\ clock - clock < Roomy
        BY <1>0, <2>0 DEF Roomy, never
      <4> QED
        BY <3>1, <4>1, <4>2, <4>3 DEF DreamInv
    <3>11. BackupInv'
      BY <3>1, <2>c
    <3> QED
      BY <3>7, <3>8, <3>9, <3>10, <3>11 DEF NightlyInv
  <2>2. CASE NoDream
    <3>1. /\ scheduler = "tick" /\ ~DreamDue /\ scheduler' = "backup"
          /\ UNCHANGED <<clock, last_run, last_ok, last_backup, enabled, facts, snaps, starts, hurt,
                         dreamDied, overran, nightKills, nightFailures>>
      BY <2>2 DEF NoDream
    <3>2. /\ day_now' = day_now /\ hour_now' = hour_now /\ Today' = Today
      BY <3>1 DEF day_now, hour_now, Today
    <3>3. ~(day_now <= Days /\ day_now \notin hurt /\ Today = 0 /\ hour_now >= HourEnd - 1)
      <4> SUFFICES ASSUME day_now <= Days, day_now \notin hurt, Today = 0, hour_now >= HourEnd - 1
                   PROVE  FALSE
        OBVIOUS
      <4>1. enabled /\ hour_now = HourEnd - 1 /\ clock - last_run >= Day + hour_now - (HourEnd - 1)
        BY DEF NightlyInv, NightInv
      <4>2. HourStart <= hour_now /\ hour_now < HourEnd /\ clock - last_run >= MinInterval
        BY <2>0, <4>1
      <4> QED
        BY <3>1, <4>1, <4>2 DEF DreamDue
    <3>4. NightlyTypeOK'
      BY <3>1 DEF NightlyInv, NightlyTypeOK
    <3>5. NightInv'
      BY <3>1, <3>2, <3>3 DEF NightlyInv, NightInv
    <3>6. NightIsKept'
      BY <3>1, <3>2 DEF NightlyInv, NightIsKept
    <3> QED
      BY <2>b, <2>c, <3>1, <3>4, <3>5, <3>6 DEF NightlyInv
  <2>3. CASE EndDream
    <3>1. /\ scheduler = "dreaming" /\ scheduler' = "backup"
          /\ UNCHANGED <<clock, last_run, last_backup, enabled, facts, snaps, starts, hurt, overran, nightKills>>
          /\ dreamDied' \in BOOLEAN /\ last_ok' = IF dreamDied' THEN last_ok ELSE clock
          /\ nightFailures' \in 0..MaxNightFailures
      <4>1. nightFailures \in 0..MaxNightFailures /\ MaxNightFailures \in Nat
        BY DEF NightlyInv, NightlyTypeOK
      <4>2. PICK success \in BOOLEAN :
              /\ success \/ nightFailures < MaxNightFailures
              /\ nightFailures' = IF success THEN nightFailures ELSE nightFailures + 1
              /\ dreamDied' = ~success
              /\ last_ok' = IF success THEN clock ELSE last_ok
        BY <2>3 DEF EndDream, RecordEnd
      <4>3. nightFailures' \in 0..MaxNightFailures
        BY <4>1, <4>2
      <4>4. dreamDied' \in BOOLEAN /\ last_ok' = IF dreamDied' THEN last_ok ELSE clock
        BY <4>2
      <4> QED
        BY <2>3, <4>3, <4>4 DEF EndDream
    <3>2. NightlyTypeOK'
      <4>1. {last_run', last_ok', last_backup'} \subseteq 0..clock
        BY <2>0, <3>1
      <4> QED
        BY <3>1, <4>1 DEF NightlyInv, NightlyTypeOK
    <3>3. DreamInv'
      BY <2>0, <3>1 DEF NightlyInv, DreamInv, Roomy
    <3> QED
      BY <2>a, <2>c, <3>1, <3>2, <3>3 DEF NightlyInv
  <2>4. CASE StartBackup
    <3>1. /\ scheduler = "backup" /\ clock - last_backup >= Day
          /\ UNCHANGED <<clock, last_run, last_ok, last_backup, enabled, facts, starts, hurt,
                         dreamDied, overran, nightKills, nightFailures>>
          /\ \/ /\ facts /\ scheduler' = "zipping"
                /\ snaps' = {s \in snaps : s[1] # clock} \cup {<<clock, FALSE, TRUE>>}
             \/ scheduler' = "asleep" /\ snaps' = snaps
      BY <2>4 DEF StartBackup, WorthKeeping, NightlyInv, NightlyTypeOK
    <3>2. NightlyTypeOK'
      <4>1. snaps' \subseteq (Day..clock) \X BOOLEAN \X BOOLEAN
        <5>1. snaps \subseteq (Day..clock) \X BOOLEAN \X BOOLEAN
          BY DEF NightlyInv, NightlyTypeOK
        <5>2. clock \in Day..clock
          BY <1>0, <2>0
        <5>3. <<clock, FALSE, TRUE>> \in (Day..clock) \X BOOLEAN \X BOOLEAN
          BY <5>2
        <5> QED
          BY <3>1, <5>1, <5>3
      <4> QED
        BY <3>1, <4>1 DEF NightlyInv, NightlyTypeOK
    <3>3. BackupInv'
      <4>1. CASE scheduler' = "asleep" /\ snaps' = snaps
        BY <3>1, <4>1, <2>c
      <4>2. CASE /\ scheduler' = "zipping"
                 /\ snaps' = {s \in snaps : s[1] # clock} \cup {<<clock, FALSE, TRUE>>}
        <5>1. clock > last_backup
          BY <1>0, <2>0, <3>1
        <5>2. last_backup # never => <<last_backup, TRUE, TRUE>> \in snaps'
          BY <2>0, <4>2, <5>1 DEF NightlyInv, BackupInv
        <5>3. \A s \in snaps' : s[2] => s[1] <= last_backup
          <6>1. \A s \in snaps : s[2] => s[1] <= last_backup
            BY DEF NightlyInv, BackupInv
          <6>2. ~(<<clock, FALSE, TRUE>>[2])
            OBVIOUS
          <6> QED
            BY <4>2, <6>1, <6>2
        <5>4. \A t \in snaps' \ {<<clock, FALSE, TRUE>>} : t[1] < clock
          <6> SUFFICES ASSUME NEW t \in snaps, t[1] # clock PROVE t[1] < clock
            BY <4>2
          <6>1. t[1] \in Day..clock
            BY DEF NightlyInv, NightlyTypeOK
          <6> QED
            BY <1>0, <2>0, <6>1
        <5>5. clock \in Day..clock
          BY <1>0, <2>0
        <5> QED
          BY <3>1, <4>2, <5>1, <5>2, <5>3, <5>4, <5>5 DEF BackupInv
      <4> QED
        BY <3>1, <4>1, <4>2
    <3>4. NightInv' /\ NightIsKept' /\ DreamInv'
      BY <2>a, <2>b, <3>1
    <3> QED
      BY <3>2, <3>3, <3>4 DEF NightlyInv
  <2>5. CASE NoBackup
    <3>1. /\ scheduler = "backup" /\ scheduler' = "asleep"
          /\ UNCHANGED <<clock, last_run, last_ok, last_backup, enabled, facts, snaps, starts, hurt,
                         dreamDied, overran, nightKills, nightFailures>>
      BY <2>5 DEF NoBackup
    <3>2. NightlyTypeOK'
      BY <3>1 DEF NightlyInv, NightlyTypeOK
    <3> QED
      BY <2>a, <2>b, <2>c, <3>1, <3>2 DEF NightlyInv
  <2>6. CASE EndBackup
    <3>1. PICK z \in Day..clock :
            /\ <<z, FALSE, TRUE>> \in snaps /\ z > last_backup
            /\ \A t \in snaps \ {<<z, FALSE, TRUE>>} : t[1] < z
      BY <2>6 DEF EndBackup, NightlyInv, BackupInv
    <3> DEFINE file == <<z, FALSE, TRUE>>
               whole_file == <<z, TRUE, TRUE>>
               rest == snaps \ {file}
               kept == rest \cup {whole_file}
    <3>0. z \in Nat /\ snaps \subseteq (Day..clock) \X BOOLEAN \X BOOLEAN
      BY <1>0, <2>0 DEF NightlyInv, NightlyTypeOK
    <3>a. z \in Int /\ z \in 0..clock /\ \A t \in snaps : t[1] \in Int
      <4>1. ASSUME NEW t \in snaps PROVE t[1] \in Int
        <5>1. t[1] \in Day..clock
          BY <3>0
        <5> QED
          BY <5>1
      <4>2. z \in 0..clock
        BY <1>0, <2>0
      <4> QED
        BY <4>1, <4>2
    <3>b. \A t \in rest : t[1] \in Int /\ t[1] < z
      BY <3>1, <3>a
    <3>2. newest_snap = file
      <4>1. file \in snaps /\ file[1] = z
        BY <3>1
      <4>2. \A t \in snaps : t[1] <= file[1]
        <5> SUFFICES ASSUME NEW t \in snaps PROVE t[1] <= z
          BY <4>1
        <5>1. t = file \/ t \in rest
          OBVIOUS
        <5> HIDE DEF file, rest
        <5>2. z <= z
          BY <3>a
        <5>3. t \in rest => t[1] <= z
          BY <3>a, <3>b
        <5> QED
          BY <4>1, <5>1, <5>2, <5>3
      <4>3. \A s \in snaps : (\A t \in snaps : t[1] <= s[1]) => s = file
        <5> SUFFICES ASSUME NEW s \in snaps, \A t \in snaps : t[1] <= s[1], s # file PROVE FALSE
          OBVIOUS
        <5>1. s[1] < z /\ file[1] <= s[1] /\ file[1] = z
          BY <3>1
        <5> QED
          BY <3>a, <5>1
      <4> HIDE DEF file
      <4> QED
        BY <4>1, <4>2, <4>3 DEF newest_snap
    <3>3. newest_snap[1] = z /\ newest_snap[3] = TRUE
      BY <3>2
    <3>4. /\ scheduler = "zipping" /\ scheduler' = "asleep"
          /\ UNCHANGED <<clock, last_run, last_ok, enabled, facts, starts, hurt, dreamDied, overran, nightKills>>
          /\ nightFailures' \in 0..MaxNightFailures
          /\ \/ snaps' = Pruned(kept) /\ last_backup' = z
             \/ snaps' = rest /\ last_backup' = last_backup
      <4>1. nightFailures \in 0..MaxNightFailures /\ MaxNightFailures \in Nat
        BY DEF NightlyInv, NightlyTypeOK
      <4>2. PICK whole \in BOOLEAN :
              /\ whole \/ nightFailures < MaxNightFailures
              /\ nightFailures' = IF whole THEN nightFailures ELSE nightFailures + 1
              /\ snaps' = IF whole THEN Pruned((snaps \ {newest_snap}) \union {<<newest_snap[1], TRUE, newest_snap[3]>>})
                                   ELSE snaps \ {newest_snap}
              /\ last_backup' = IF whole THEN newest_snap[1] ELSE last_backup
        BY <2>6 DEF EndBackup, Stamp
      <4>3. nightFailures' \in 0..MaxNightFailures
        BY <4>1, <4>2
      <4>4. \/ snaps' = Pruned(kept) /\ last_backup' = z
            \/ snaps' = rest /\ last_backup' = last_backup
        BY <3>2, <3>3, <4>2
      <4> QED
        BY <2>6, <4>3, <4>4 DEF EndBackup
    <3>5. whole_file \in Pruned(kept) /\ Pruned(kept) \subseteq kept
      <4>1. Pruned(kept) \subseteq kept
        BY DEF Pruned
      <4>2. {t \in kept : t[1] > whole_file[1]} = {}
        <5> SUFFICES ASSUME NEW t \in kept, t[1] > whole_file[1] PROVE FALSE
          OBVIOUS
        <5>1. whole_file[1] = z
          OBVIOUS
        <5>2. CASE t = whole_file
          BY <3>a, <5>1, <5>2
        <5>3. CASE t \in rest
          <6> HIDE DEF rest, whole_file
          <6>1. t[1] \in Int /\ t[1] < z
            BY <3>b, <5>3
          <6> QED
            BY <3>a, <5>1, <6>1
        <5> QED
          BY <5>2, <5>3
      <4>3. Cardinality({t \in kept : t[1] > whole_file[1]}) < KeepDaily
        <5>1. 0 < KeepDaily
          OBVIOUS
        <5> QED
          BY <4>2, <5>1, FS_EmptySet
      <4>4. whole_file \in kept
        OBVIOUS
      <4> HIDE DEF kept, whole_file
      <4> QED
        BY <4>1, <4>3, <4>4 DEF Pruned
    <3>6. snaps' \subseteq kept
      BY <3>4, <3>5
    <3>7. NightlyTypeOK'
      <4>1. whole_file \in (Day..clock) \X BOOLEAN \X BOOLEAN
        OBVIOUS
      <4>2. snaps' \subseteq (Day..clock) \X BOOLEAN \X BOOLEAN
        BY <3>0, <3>6, <4>1
      <4>3. last_backup' \in 0..clock
        <5>1. last_backup \in 0..clock
          BY DEF NightlyInv, NightlyTypeOK
        <5> HIDE DEF kept, rest, whole_file, file
        <5> QED
          BY <3>4, <3>a, <5>1
      <4> HIDE DEF kept, rest, whole_file, file
      <4> QED
        BY <3>4, <4>2, <4>3 DEF NightlyInv, NightlyTypeOK
    <3>8. BackupInv'
      <4>1. CASE snaps' = Pruned(kept) /\ last_backup' = z
        <5>1. \A s \in kept : s[2] => s[1] <= z
          <6> SUFFICES ASSUME NEW s \in kept PROVE s[1] <= z
            OBVIOUS
          <6>1. CASE s = whole_file
            BY <3>a, <6>1
          <6>2. CASE s \in rest
            <7> HIDE DEF rest
            <7>1. s[1] \in Int /\ s[1] < z
              BY <3>b, <6>2
            <7> QED
              BY <3>a, <7>1
          <6> QED
            BY <6>1, <6>2
        <5>2. <<last_backup', TRUE, TRUE>> \in snaps'
          BY <3>5, <4>1
        <5>3. \A s \in snaps' : s[2] => s[1] <= last_backup'
          BY <3>5, <4>1, <5>1
        <5> HIDE DEF kept, rest, whole_file, file
        <5> QED
          BY <3>4, <5>2, <5>3 DEF BackupInv
      <4>2. CASE snaps' = rest /\ last_backup' = last_backup
        BY <3>4, <4>2 DEF NightlyInv, BackupInv
      <4> QED
        BY <3>4, <4>1, <4>2
    <3>9. NightInv' /\ NightIsKept' /\ DreamInv'
      BY <2>a, <2>b, <3>4
    <3> QED
      BY <3>7, <3>8, <3>9 DEF NightlyInv
  <2>7. CASE SchedulerDies
    <3>1. /\ scheduler' = "down" /\ hurt' = hurt \union {day_now}
          /\ nightKills' \in 0..MaxNightKills
          /\ dreamDied' = (dreamDied \/ scheduler = "dreaming")
          /\ UNCHANGED <<clock, last_run, last_ok, last_backup, enabled, facts, snaps, starts, overran, nightFailures>>
      BY <2>7 DEF SchedulerDies, NightlyInv, NightlyTypeOK
    <3>2. NightlyTypeOK'
      BY <2>0, <3>1 DEF NightlyInv, NightlyTypeOK
    <3>3. DreamInv'
      BY <3>1 DEF NightlyInv, DreamInv
    <3> QED
      BY <2>a, <2>c, <3>1, <3>2, <3>3 DEF NightlyInv
  <2>8. CASE SchedulerStarts
    <3>1. /\ scheduler' = "tick" /\ hurt' = hurt \union {day_now}
          /\ UNCHANGED <<clock, last_run, last_ok, last_backup, enabled, facts, snaps, starts,
                         dreamDied, overran, nightKills, nightFailures>>
      BY <2>8 DEF SchedulerStarts
    <3>2. NightlyTypeOK'
      BY <2>0, <3>1 DEF NightlyInv, NightlyTypeOK
    <3> QED
      BY <2>a, <2>b, <2>c, <3>1, <3>2 DEF NightlyInv
  <2>9. CASE Meddle
    <3>1. /\ hurt' = hurt \union {day_now} /\ nightFailures' \in 0..MaxNightFailures
          /\ enabled' \in BOOLEAN /\ facts' \in BOOLEAN
          /\ UNCHANGED <<clock, scheduler, last_run, last_ok, last_backup, snaps, starts, dreamDied, overran, nightKills>>
      <4>1. /\ nightFailures \in 0..MaxNightFailures /\ MaxNightFailures \in Nat
            /\ enabled \in BOOLEAN /\ facts \in BOOLEAN
        BY DEF NightlyInv, NightlyTypeOK
      <4>2. nightFailures < MaxNightFailures /\ nightFailures' = nightFailures + 1
        BY <2>9 DEF Meddle
      <4>3. nightFailures' \in 0..MaxNightFailures
        BY <4>1, <4>2
      <4>4. enabled' \in BOOLEAN /\ facts' \in BOOLEAN
        BY <2>9, <4>1 DEF Meddle
      <4> QED
        BY <2>9, <4>3, <4>4 DEF Meddle
    <3>2. NightlyTypeOK'
      BY <2>0, <3>1 DEF NightlyInv, NightlyTypeOK
    <3> QED
      BY <2>a, <2>b, <2>c, <3>1, <3>2 DEF NightlyInv
  <2>10. CASE CheckPasses
    <3>1. /\ clock < (Days + 1) * Day /\ clock' = clock + 1
          /\ scheduler \in {"asleep", "dreaming", "zipping", "down"}
          /\ overran' = (overran \/ Overruns)
          /\ scheduler' = IF scheduler = "asleep" THEN "tick" ELSE scheduler
          /\ UNCHANGED <<last_run, last_ok, last_backup, enabled, facts, snaps, starts, dreamDied,
                         nightKills, nightFailures>>
          /\ Overruns <=> scheduler = "dreaming" /\ clock' - last_run >= Roomy
      BY <2>10 DEF CheckPasses, Overruns, Roomy
    <3>2. /\ hurt' = IF scheduler \in {"down", "zipping"} \/ ~enabled \/ Overruns
                     THEN hurt \cup ({day_now, day_now'} \cap 1..Days) ELSE hurt
          /\ hurt \subseteq hurt' /\ hurt' \subseteq 1..Days + 1
      <4>1. hurt' = IF scheduler \in {"down", "zipping"} \/ ~enabled \/ Overruns
                     THEN hurt \cup ({day_now, day_now'} \cap 1..Days) ELSE hurt
        BY <2>10 DEF CheckPasses, day_now
      <4>2. hurt \subseteq 1..Days + 1 /\ 1..Days \subseteq 1..Days + 1
        BY <1>0 DEF NightlyInv, NightlyTypeOK
      <4> QED
        BY <4>1, <4>2
    <3>3. /\ hour_now # Day - 1 => day_now' = day_now /\ hour_now' = hour_now + 1
          /\ hour_now = Day - 1 => day_now' = day_now + 1 /\ hour_now' = 0
      BY <1>0, <2>0, <3>1, NextCheck DEF day_now, hour_now
    <3>4. day_now' \in 1..Days + 1 /\ hour_now' \in 0..(Day - 1)
      <4>1. CASE hour_now # Day - 1
        BY <1>0, <2>0, <3>3, <4>1
      <4>2. CASE hour_now = Day - 1
        <5>1. clock = Day * day_now + (Day - 1)
          BY <1>0, <2>0, <4>2, DayAndHour DEF day_now, hour_now
        <5>2. Day * (Days + 1) = (Days + 1) * Day /\ Day * (Days + 1) \in Nat
          BY <1>0
        <5>3. day_now # Days + 1
          BY <1>0, <2>0, <3>1, <5>1, <5>2
        <5> QED
          BY <1>0, <2>0, <3>3, <4>2, <5>3
      <4> QED
        BY <4>1, <4>2
    <3>5. NightlyTypeOK'
      <4>1. clock' \in Day..((Days + 1) * Day) /\ clock' \in Nat
        <5>1. (Days + 1) * Day \in Nat
          BY <1>0
        <5> QED
          BY <1>0, <2>0, <3>1, <5>1
      <4>2. {last_run', last_ok', last_backup'} \subseteq 0..clock'
        BY <2>0, <3>1
      <4>3. snaps' \subseteq (Day..clock') \X BOOLEAN \X BOOLEAN
        <5>1. Day..clock \subseteq Day..clock'
          BY <1>0, <2>0, <3>1
        <5> QED
          BY <3>1, <5>1 DEF NightlyInv, NightlyTypeOK
      <4>4. overran' \in BOOLEAN
        BY <3>1
      <4> QED
        BY <3>1, <3>2, <4>1, <4>2, <4>3, <4>4 DEF NightlyInv, NightlyTypeOK
    <3>6. DreamInv'
      <4>1. ~overran' => ~overran /\ (scheduler = "dreaming" => clock' - last_run' < Roomy)
        <5>1. ~Overruns /\ scheduler = "dreaming" => clock' - last_run' < Roomy
          BY <2>0, <3>1 DEF Roomy
        <5>2. ~overran' => ~overran /\ ~Overruns
          BY <3>1
        <5> QED
          BY <5>1, <5>2
      <4>2. scheduler' = "dreaming" <=> scheduler = "dreaming"
        BY <3>1
      <4> QED
        BY <3>1, <4>1, <4>2 DEF NightlyInv, DreamInv, Roomy
    <3>7. BackupInv'
      <4>1. Day..clock \subseteq Day..clock'
        BY <1>0, <2>0, <3>1
      <4> QED
        BY <3>1, <4>1 DEF NightlyInv, BackupInv
    <3>8. Today \in Nat /\ Today' = starts[day_now']
      BY <2>0, <3>1 DEF NightlyInv, NightInv, Today
    <3>9. /\ Today >= 1 => /\ hour_now - (HourEnd - 1) <= clock - last_run
                           /\ clock - last_run <= hour_now - HourStart
          /\ Today = 0 => clock - last_run >= Day + hour_now - (HourEnd - 1)
          /\ last_run \in Nat /\ clock \in Nat /\ hour_now \in 0..(Day - 1)
      BY <2>0 DEF NightlyInv, NightInv
    <3>10. {Day, HourStart, HourEnd, MinInterval, Slack} \subseteq Nat /\ HourStart < HourEnd /\ HourEnd <= Day
           /\ MinInterval <= Day /\ Slack < MinInterval /\ Roomy \in Nat /\ Roomy <= Day
      BY DEF Roomy
    <3>11. ASSUME day_now' <= Days, day_now' \notin hurt', day_now \notin hurt'
           PROVE  enabled /\ scheduler \in {"asleep", "dreaming"} /\ ~Overruns
      BY <2>0, <3>1, <3>2, <3>3, <3>4, <3>11
    <3>12. \A d \in 1..Days + 1 : /\ starts[d] \in Nat /\ (WindowFits => starts[d] <= 1)
                                  /\ d > day_now => starts[d] = 0
      BY DEF NightlyInv, NightInv
    <3>13. CASE hour_now # Day - 1
      <4>1. day_now' = day_now /\ hour_now' = hour_now + 1 /\ Today' = Today
        BY <3>1, <3>3, <3>13 DEF Today
      <4>2. /\ Today' >= 1 => /\ hour_now' - (HourEnd - 1) <= clock' - last_run'
                              /\ clock' - last_run' <= hour_now' - HourStart
            /\ Today' = 0 => clock' - last_run' >= Day + hour_now' - (HourEnd - 1)
        BY <3>1, <3>9, <3>10, <4>1
      <4>3. ASSUME day_now' <= Days, day_now' \notin hurt'
            PROVE  /\ enabled' /\ scheduler' # "down"
                   /\ Today' = 0 /\ hour_now' >= HourEnd - 1 => hour_now' = HourEnd - 1 /\ scheduler' = "tick"
        <5>1. enabled /\ scheduler \in {"asleep", "dreaming"} /\ ~Overruns
          BY <3>11, <4>1, <4>3
        <5>2. ASSUME Today' = 0, hour_now' >= HourEnd - 1
              PROVE  hour_now' = HourEnd - 1 /\ scheduler' = "tick"
          <6>1. day_now <= Days /\ day_now \notin hurt /\ Today = 0
            BY <3>2, <4>1, <4>3, <5>2
          <6>2. ~(hour_now >= HourEnd - 1)
            BY <5>1, <6>1 DEF NightlyInv, NightInv
          <6>3. hour_now' = HourEnd - 1
            BY <3>9, <3>10, <4>1, <5>2, <6>2
          <6>4. clock - last_run >= Day - 1
            BY <3>9, <3>10, <4>1, <6>1, <6>3
          <6>5. scheduler # "dreaming"
            BY <3>1, <3>9, <3>10, <5>1, <6>4
          <6> QED
            BY <3>1, <5>1, <6>3, <6>5
        <5> QED
          BY <3>1, <5>1, <5>2
      <4>4. NightInv'
        BY <3>1, <3>4, <3>12, <4>1, <4>2, <4>3 DEF NightInv, WindowFits
      <4>5. NightIsKept'
        BY <3>1, <3>2, <4>1 DEF NightlyInv, NightIsKept
      <4> QED
        BY <3>5, <3>6, <3>7, <4>4, <4>5 DEF NightlyInv
    <3>14. CASE hour_now = Day - 1
      <4>1. day_now' = day_now + 1 /\ hour_now' = 0 /\ Today' = 0
        BY <2>0, <3>3, <3>4, <3>8, <3>12, <3>14
      <4>2. clock' - last_run' >= Day + hour_now' - (HourEnd - 1)
        BY <3>1, <3>8, <3>9, <3>10, <3>14, <4>1
      <4>3. day_now <= Days /\ day_now \notin hurt => Today >= 1
        <5> SUFFICES ASSUME day_now <= Days, day_now \notin hurt, ~(Today >= 1) PROVE FALSE
          OBVIOUS
        <5>1. Today = 0 /\ hour_now >= HourEnd - 1
          BY <3>8, <3>9, <3>10, <3>14
        <5>2. scheduler = "tick"
          BY <5>1 DEF NightlyInv, NightInv
        <5> QED
          BY <3>1, <5>2
      <4>4. ASSUME day_now' <= Days, day_now' \notin hurt'
            PROVE  /\ enabled' /\ scheduler' # "down"
                   /\ hour_now' >= HourEnd - 1 => hour_now' = HourEnd - 1 /\ scheduler' = "tick"
        <5>1. enabled /\ scheduler \in {"asleep", "dreaming"} /\ ~Overruns
          <6>1. day_now' \in {day_now, day_now'} \cap 1..Days
            BY <3>4, <4>4
          <6> QED
            BY <3>1, <3>2, <4>4, <6>1
        <5>2. ASSUME hour_now' >= HourEnd - 1 PROVE hour_now' = HourEnd - 1 /\ scheduler' = "tick"
          <6>1. HourEnd - 1 = 0
            BY <3>10, <4>1, <5>2
          <6>2. clock - last_run >= Day - 1
            BY <3>1, <3>9, <3>10, <4>1, <4>2, <6>1
          <6>3. scheduler # "dreaming"
            BY <3>1, <3>9, <3>10, <5>1, <6>2
          <6> QED
            BY <3>1, <4>1, <5>1, <6>1, <6>3
        <5> QED
          BY <3>1, <5>1, <5>2
      <4>5. \A d \in 1..Days + 1 : /\ starts'[d] \in Nat /\ (WindowFits => starts'[d] <= 1)
                                   /\ d > day_now' => starts'[d] = 0
        BY <2>0, <3>1, <3>12, <4>1
      <4>6. NightInv'
        BY <3>1, <3>4, <4>1, <4>2, <4>4, <4>5 DEF NightInv, WindowFits
      <4>7. NightIsKept'
        <5> SUFFICES ASSUME NEW d \in 1..Days, d < day_now', d \notin hurt' PROVE starts'[d] >= 1
          BY DEF NightIsKept
        <5>1. d \notin hurt
          BY <3>2
        <5>2. CASE d = day_now
          BY <3>1, <4>3, <5>1, <5>2 DEF Today
        <5>3. CASE d # day_now
          <6>1. d < day_now
            BY <2>0, <4>1, <5>3
          <6> QED
            BY <3>1, <5>1, <6>1 DEF NightlyInv, NightIsKept
        <5> QED
          BY <5>2, <5>3
      <4> QED
        BY <3>5, <3>6, <3>7, <4>6, <4>7 DEF NightlyInv
    <3> QED
      BY <3>13, <3>14
  <2>11. CASE UNCHANGED nightVars
    <3>1. UNCHANGED <<clock, scheduler, last_run, last_ok, last_backup, enabled, facts, snaps, starts,
                      hurt, dreamDied, overran, nightKills, nightFailures>>
      BY <2>11 DEF nightVars
    <3>2. day_now' = day_now /\ hour_now' = hour_now /\ Today' = Today
      BY <3>1 DEF day_now, hour_now, Today
    <3>3. NightlyTypeOK' /\ DreamInv' /\ BackupInv'
      BY <3>1 DEF NightlyInv, NightlyTypeOK, DreamInv, BackupInv
    <3>4. NightInv' /\ NightIsKept'
      BY <3>1, <3>2 DEF NightlyInv, NightInv, NightIsKept
    <3> QED
      BY <3>3, <3>4 DEF NightlyInv
  <2> QED
    BY <2>1, <2>2, <2>3, <2>4, <2>5, <2>6, <2>7, <2>8, <2>9, <2>10, <2>11 DEF NightlyNext
<1> QED
  BY <1>1, <1>2, PTL DEF NightlySpec

\* At most one dream a night where the window is no longer than the interval, as the code's
\* is; a night is missed only when something outside went wrong that very day; the recorded
\* backup exists whole; a dream that died shows while the dream is switched on and none
\* overran (dream.rs: should_run, tick, maybe_backup; doctor.rs: check_dream).
THEOREM NightsAreRight == NightlySpec => []NightlySafety
<1>1. NightlyInv => NightlySafety
  <2> SUFFICES ASSUME NightlyInv PROVE NightlySafety
    OBVIOUS
  <2>1. OncePerNight
    BY DEF NightlyInv, NightInv, OncePerNight
  <2>2. StampIsBacked
    <3> SUFFICES ASSUME last_backup # never PROVE \E s \in snaps : s[2] /\ s[3] /\ s[1] >= last_backup
      BY DEF StampIsBacked
    <3>1. <<last_backup, TRUE, TRUE>> \in snaps /\ last_backup \in 0..clock
      BY DEF NightlyInv, NightlyTypeOK, BackupInv
    <3>2. last_backup >= last_backup
      BY <3>1
    <3>3. \A b : <<b, TRUE, TRUE>>[1] = b /\ <<b, TRUE, TRUE>>[2] /\ <<b, TRUE, TRUE>>[3]
      OBVIOUS
    <3> QED
      BY <3>1, <3>2, <3>3
  <2>3. DeadDreamShows
    BY DEF NightlyInv, DreamInv, DeadDreamShows, NeverFinished
  <2> QED
    BY <2>1, <2>2, <2>3 DEF NightlyInv, NightlySafety
<1> QED
  BY <1>1, NightlyInvHolds, PTL
=============================================================================
