------------------------------ MODULE StartUp ------------------------------
(***************************************************************************)
(* How a paosd comes up (paosd main.rs, paos-store lib.rs): it opens the   *)
(* database and climbs the migration ladder one transaction a rung, probes *)
(* the socket another one may have left, clears it when nobody answers,    *)
(* starts the threads that share the database, and binds.  Any of it may   *)
(* be killed, and nothing keeps launchd and a person from starting two at  *)
(* the same moment.                                                        *)
(***************************************************************************)
EXTENDS Integers, FiniteSets

CONSTANTS Daemons,       \* processes that may be started
          Ladder,        \* rungs of the migration ladder
          OnlyOnce,      \* the rungs that fail when applied again (ALTER TABLE)
          MaxStarts,     \* processes ever started
          MaxDaemonDeaths      \* processes killed

ASSUME StartUpAssumption ==
  /\ Ladder \in Nat \ {0} /\ OnlyOnce \subseteq 1..Ladder
  /\ MaxStarts \in Nat /\ MaxDaemonDeaths \in Nat

VARIABLES startStage,            \* daemon -> where its main stands
          current,       \* daemon -> the version its migrate read
          rung,          \* daemon -> the rung it applies next
          user_version,  \* PRAGMA user_version
          applied_rungs, \* the rungs whose tables are there
          sock,          \* the socket file: "none" or the daemon that bound it
          openSockets,     \* daemons whose listening socket is open
          raced,         \* history: where two starts met, "ladder" or "socket"
          launches, daemonDeaths

startVars == <<startStage, current, rung, user_version, applied_rungs, sock, openSockets, raced, launches, daemonDeaths>>

\* the threads that write the database run from before the bind
Working == {d \in Daemons: startStage[d] \in {"bind", "serving"}}

\* with rungs to apply; and past the probe that found nobody, without a socket yet
Climbing == {d \in Daemons: startStage[d] = "migrate" /\ rung[d] <= Ladder}
Unbound == {d \in Daemons: startStage[d] \in {"clear", "bind"}}

StartTypeOK ==
  /\ startStage \in [Daemons -> {"off", "open", "migrate", "probe", "clear", "bind", "serving"}]
  /\ current \in [Daemons -> 0..Ladder] /\ rung \in [Daemons -> 1..Ladder + 1]
  /\ user_version \in 0..Ladder /\ applied_rungs \subseteq 1..Ladder
  /\ sock \in Daemons \union {"none"}
  /\ openSockets = {d \in Daemons: startStage[d] = "serving"}
  /\ raced \subseteq {"ladder", "socket"}
  /\ launches \in 0..MaxStarts /\ daemonDeaths \in 0..MaxDaemonDeaths

EnterStage(d, place) == startStage' = [startStage EXCEPT ![d] = place]

LaunchDaemon(d) ==
  /\ startStage[d] = "off" /\ launches < MaxStarts
  /\ EnterStage(d, "open")
  /\ launches' = launches + 1
  /\ UNCHANGED <<current, rung, user_version, applied_rungs, sock, openSockets, raced, daemonDeaths>>

\* migrate reads the version once, outside any transaction
ReadVersion(d) ==
  /\ startStage[d] = "open"
  /\ EnterStage(d, "migrate")
  /\ current' = [current EXCEPT ![d] = user_version]
  /\ rung' = [rung EXCEPT ![d] = user_version + 1]
  /\ raced' = IF Climbing = {} THEN raced ELSE raced \union {"ladder"}
  /\ UNCHANGED <<user_version, applied_rungs, sock, openSockets, launches, daemonDeaths>>

\* mutant: the version is set for the whole ladder as soon as a rung is applied
WholeLadder(d) ==
  /\ user_version' = Ladder
  /\ applied_rungs' = applied_rungs \union {rung[d]}

\* The rung and the new version in one transaction
ApplyRung(d) ==
  /\ user_version' = rung[d]
  /\ applied_rungs' = applied_rungs \union {rung[d]}

Migrate(d) ==
  /\ startStage[d] = "migrate" /\ rung[d] <= Ladder
  /\ IF rung[d] \in applied_rungs \intersect OnlyOnce
     THEN EnterStage(d, "off") /\ UNCHANGED <<rung, user_version, applied_rungs>>   \* rolled back, run() fails
     ELSE ApplyRung(d) /\ rung' = [rung EXCEPT ![d] = @ + 1] /\ UNCHANGED startStage
  /\ UNCHANGED <<current, sock, openSockets, raced, launches, daemonDeaths>>

Migrated(d) ==
  /\ startStage[d] = "migrate" /\ rung[d] > Ladder
  /\ EnterStage(d, "probe")
  /\ UNCHANGED <<current, rung, user_version, applied_rungs, sock, openSockets, raced, launches, daemonDeaths>>

\* connect() succeeds when the process that bound the file still listens
Answers == sock \in openSockets

\* mutant: a file that nobody answers is left where it is
NeverStale(d) == EnterStage(d, "bind")

NobodyAnswers(d) == EnterStage(d, IF sock = "none" THEN "bind" ELSE "clear")

Probe(d) ==
  /\ startStage[d] = "probe"
  /\ IF Answers THEN EnterStage(d, "off") ELSE NobodyAnswers(d)
  /\ raced' = IF Answers \/ Unbound = {} THEN raced ELSE raced \union {"socket"}
  /\ UNCHANGED <<current, rung, user_version, applied_rungs, sock, openSockets, launches, daemonDeaths>>

\* remove_file takes whatever is at the path by now
Clear(d) ==
  /\ startStage[d] = "clear"
  /\ EnterStage(d, "bind")
  /\ sock' = "none"
  /\ UNCHANGED <<current, rung, user_version, applied_rungs, openSockets, raced, launches, daemonDeaths>>

\* "Address already in use" ends the process
Bind(d) ==
  /\ startStage[d] = "bind"
  /\ IF sock = "none"
     THEN EnterStage(d, "serving") /\ sock' = d /\ openSockets' = openSockets \union {d}
     ELSE EnterStage(d, "off") /\ UNCHANGED <<sock, openSockets>>
  /\ UNCHANGED <<current, rung, user_version, applied_rungs, raced, launches, daemonDeaths>>

Killed(d) ==
  /\ startStage[d] # "off" /\ daemonDeaths < MaxDaemonDeaths
  /\ daemonDeaths' = daemonDeaths + 1
  /\ EnterStage(d, "off")
  /\ openSockets' = openSockets \ {d}
  /\ UNCHANGED <<current, rung, user_version, applied_rungs, sock, raced, launches>>

StartInit ==
  /\ startStage = [d \in Daemons |-> "off"]
  /\ current = [d \in Daemons |-> 0] /\ rung = [d \in Daemons |-> 1]
  /\ user_version = 0 /\ applied_rungs = {}
  /\ sock = "none" /\ openSockets = {}
  /\ raced = {} /\ launches = 0 /\ daemonDeaths = 0

RunDaemon(d) ==
  ReadVersion(d) \/ Migrate(d) \/ Migrated(d) \/ Probe(d) \/ Clear(d) \/ Bind(d)

StartNext == \E d \in Daemons: LaunchDaemon(d) \/ RunDaemon(d) \/ Killed(d)

StartSpec == StartInit /\ [][StartNext]_startVars

-----------------------------------------------------------------------------
\* The version never claims a table that is not there, however many climb at once.  It
\* says exactly which are there, so that the next start never trips over a column that is
\* there already, unless two climbed the ladder at once: the slower sets it back.
VersionIsSchema ==
  /\ 1..user_version \subseteq applied_rungs
  /\ "ladder" \notin raced => applied_rungs = 1..user_version

\* Two daemons never work on one database, unless both asked whether somebody answers
\* before either could: to have started at the same moment is not enough.
OneWorks == Cardinality(Working) <= 1 \/ "socket" \in raced

\* A daemon that is killed never keeps the next from coming up: one that runs
\* to the end of its start serves, unless somebody serves already, or the version was
\* set back by two that climbed at once.
ComesUp ==
  \A n \in 0..MaxDaemonDeaths:
    (\E d \in Daemons: startStage[d] = "open" /\ daemonDeaths = n)
      ~> openSockets # {} \/ daemonDeaths > n \/ "ladder" \in raced

\* The state is well formed, the version tells the schema, and one daemon works.
StartSafety == StartTypeOK /\ VersionIsSchema /\ OneWorks
=============================================================================
