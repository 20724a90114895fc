------------------------------ MODULE Nightly ------------------------------
(***************************************************************************)
(* The one timer of the daemon that works while everybody sleeps (paosd,   *)
(* dream.rs): every check it may start the nightly dream and may take a    *)
(* snapshot of the database, one after the other on one thread, with what  *)
(* it must remember kept in the `meta` table because the daemon may be     *)
(* killed at any moment.  Time is counted in checks.                       *)
(***************************************************************************)
EXTENDS Integers, FiniteSets

CONSTANTS Day,           \* checks in a day
          HourStart, HourEnd,   \* the window, in checks of the day
          MinInterval,   \* checks that must lie between two dreams
          Slack,         \* how far a finish may lie before the next start and still pass for its own
          KeepDaily,     \* snapshots retained
          Days,          \* days observed
          MaxNightKills,      \* times the daemon dies
          MaxNightFailures    \* dreams or snapshots that fail, stores wiped, switches flipped

ASSUME NightlyAssumption ==
  /\ {Day, HourStart, HourEnd, MinInterval, Slack} \subseteq Nat
  /\ HourStart < HourEnd /\ HourEnd <= Day /\ MinInterval <= Day /\ Slack < MinInterval
  /\ KeepDaily \in Nat \ {0} /\ {Days, MaxNightKills, MaxNightFailures} \subseteq Nat

VARIABLES clock,         \* now, in checks
          scheduler,        \* where the scheduler's thread stands, or "down"
          last_run, last_ok, last_backup,     \* the stamps of the meta table, 0 = never
          enabled,       \* dream_enabled
          facts,         \* whether the store holds any fact
          snaps,         \* files in the destination: <<stamp, whole, holds facts>>
          starts,        \* history: day -> dreams started
          hurt,          \* history: days on which something outside went wrong
          dreamDied,          \* history: the last dream started was killed or failed
          overran,       \* history: some dream took the whole interval but for the slack
          nightKills, nightFailures

nightVars == <<clock, scheduler, last_run, last_ok, last_backup, enabled, facts, snaps, starts, hurt, dreamDied, overran, nightKills, nightFailures>>
never == 0
day_now == clock \div Day
hour_now == clock % Day

NightlyTypeOK ==
  /\ clock \in Day..(Days + 1) * Day
  /\ scheduler \in {"tick", "dreaming", "backup", "zipping", "asleep", "down"}
  /\ {last_run, last_ok, last_backup} \subseteq 0..clock
  /\ enabled \in BOOLEAN /\ facts \in BOOLEAN /\ dreamDied \in BOOLEAN /\ overran \in BOOLEAN
  /\ snaps \subseteq (Day..clock) \X BOOLEAN \X BOOLEAN
  /\ starts \in [1..Days + 1 -> Nat] /\ hurt \subseteq 1..Days + 1
  /\ nightKills \in 0..MaxNightKills /\ nightFailures \in 0..MaxNightFailures

-----------------------------------------------------------------------------
\* mutant: the interval is counted from the end of the last dream
DueSinceEnd == enabled /\ clock - last_ok >= MinInterval /\ HourStart <= hour_now /\ hour_now < HourEnd

\* tick: switched on, not dreamed lately, and inside the window
DreamDue == enabled /\ clock - last_run >= MinInterval /\ HourStart <= hour_now /\ hour_now < HourEnd

\* The start is recorded BEFORE the run
RecordStart == last_run' = clock

StartDream ==
  /\ scheduler = "tick" /\ DreamDue
  /\ scheduler' = "dreaming"
  /\ RecordStart
  /\ starts' = [starts EXCEPT ![day_now] = @ + 1]
  /\ dreamDied' = FALSE
  /\ UNCHANGED <<clock, last_ok, last_backup, enabled, facts, snaps, hurt, overran, nightKills, nightFailures>>

NoDream ==
  /\ scheduler = "tick" /\ ~DreamDue
  /\ scheduler' = "backup"
  /\ UNCHANGED <<clock, last_run, last_ok, last_backup, enabled, facts, snaps, starts, hurt, dreamDied, overran, nightKills, nightFailures>>

\* only a run that exited with success is a finish
RecordEnd(success) == last_ok' = IF success THEN clock ELSE last_ok

EndDream ==
  /\ scheduler = "dreaming"
  /\ scheduler' = "backup"
  /\ \E success \in BOOLEAN:
       /\ success \/ nightFailures < MaxNightFailures
       /\ nightFailures' = IF success THEN nightFailures ELSE nightFailures + 1
       /\ dreamDied' = ~success
       /\ RecordEnd(success)
  /\ UNCHANGED <<clock, last_run, last_backup, enabled, facts, snaps, starts, hurt, overran, nightKills>>

\* snapshot refuses a copy that holds no memories
WorthKeeping == facts

\* maybe_backup: due, the copy verified, and gzip started into the final name
StartBackup ==
  /\ scheduler = "backup" /\ clock - last_backup >= Day
  /\ IF WorthKeeping
     THEN scheduler' = "zipping" /\ snaps' = {s \in snaps: s[1] # clock} \union {<<clock, FALSE, facts>>}
     ELSE scheduler' = "asleep" /\ UNCHANGED snaps
  /\ UNCHANGED <<clock, last_run, last_ok, last_backup, enabled, facts, starts, hurt, dreamDied, overran, nightKills, nightFailures>>

NoBackup ==
  /\ scheduler = "backup" /\ clock - last_backup < Day
  /\ scheduler' = "asleep"
  /\ UNCHANGED <<clock, last_run, last_ok, last_backup, enabled, facts, snaps, starts, hurt, dreamDied, overran, nightKills, nightFailures>>

newest_snap == CHOOSE s \in snaps: \A t \in snaps: t[1] <= s[1]

\* prune: the newest KeepDaily, by name
Pruned(ss) == {s \in ss: Cardinality({t \in ss: t[1] > s[1]}) < KeepDaily}

\* the stamp is the moment the backup was started, and only on success
Stamp(whole) == last_backup' = IF whole THEN newest_snap[1] ELSE last_backup

\* gzip ends: the file is whole, the rest pruned and the success stamped, or
\* the partial file is removed
EndBackup ==
  /\ scheduler = "zipping"
  /\ scheduler' = "asleep"
  /\ \E whole \in BOOLEAN:
       /\ whole \/ nightFailures < MaxNightFailures
       /\ nightFailures' = IF whole THEN nightFailures ELSE nightFailures + 1
       /\ snaps' = IF whole THEN Pruned((snaps \ {newest_snap}) \union {<<newest_snap[1], TRUE, newest_snap[3]>>}) ELSE snaps \ {newest_snap}
       /\ Stamp(whole)
  /\ UNCHANGED <<clock, last_run, last_ok, enabled, facts, starts, hurt, dreamDied, overran, nightKills>>

\* The daemon dies, with whatever child it was waiting for
SchedulerDies ==
  /\ scheduler # "down" /\ nightKills < MaxNightKills
  /\ nightKills' = nightKills + 1
  /\ dreamDied' = (dreamDied \/ scheduler = "dreaming")
  /\ scheduler' = "down"
  /\ hurt' = hurt \union {day_now}
  /\ UNCHANGED <<clock, last_run, last_ok, last_backup, enabled, facts, snaps, starts, overran, nightFailures>>

SchedulerStarts ==
  /\ scheduler = "down"
  /\ scheduler' = "tick"
  /\ hurt' = hurt \union {day_now}
  /\ UNCHANGED <<clock, last_run, last_ok, last_backup, enabled, facts, snaps, starts, dreamDied, overran, nightKills, nightFailures>>

\* external: the operator flips the switch, or the store loses its facts
Meddle ==
  /\ nightFailures < MaxNightFailures
  /\ nightFailures' = nightFailures + 1
  /\ \/ enabled' = ~enabled /\ UNCHANGED facts
     \/ facts' = ~facts /\ UNCHANGED enabled
  /\ hurt' = hurt \union {day_now}
  /\ UNCHANGED <<clock, scheduler, last_run, last_ok, last_backup, snaps, starts, dreamDied, overran, nightKills>>

\* the thread waits for the child without limit
Overruns == scheduler = "dreaming" /\ clock' - last_run >= MinInterval - Slack

\* time passes while the thread sleeps, waits for a child, or is not there; a snapshot
\* that outlasts a check and a dream that overruns are counted against the day
CheckPasses ==
  /\ clock < (Days + 1) * Day
  /\ scheduler \in {"asleep", "dreaming", "zipping", "down"}
  /\ clock' = clock + 1
  /\ scheduler' = IF scheduler = "asleep" THEN "tick" ELSE scheduler
  /\ overran' = (overran \/ Overruns)
  /\ hurt' = IF scheduler \in {"down", "zipping"} \/ ~enabled \/ Overruns THEN hurt \union ({day_now, clock' \div Day} \intersect 1..Days) ELSE hurt
  /\ UNCHANGED <<last_run, last_ok, last_backup, enabled, facts, snaps, starts, dreamDied, nightKills, nightFailures>>

NightlyInit ==
  /\ clock = Day
  /\ scheduler = "tick"
  /\ last_run = never /\ last_ok = never /\ last_backup = never
  /\ enabled = TRUE /\ facts = TRUE
  /\ snaps = {}
  /\ starts = [d \in 1..Days + 1 |-> 0]
  /\ hurt = {} /\ dreamDied = FALSE /\ overran = FALSE
  /\ nightKills = 0 /\ nightFailures = 0

NightlyNext ==
  \/ StartDream \/ NoDream \/ EndDream
  \/ StartBackup \/ NoBackup \/ EndBackup
  \/ SchedulerDies \/ SchedulerStarts \/ Meddle \/ CheckPasses

NightlySpec == NightlyInit /\ [][NightlyNext]_nightVars

-----------------------------------------------------------------------------
\* At most one dream a night, however often the daemon is restarted inside the
\* window, if that is no longer than the interval (hours 3 to 6 and 22 hours).
WindowFits == HourEnd - HourStart <= MinInterval
OncePerNight == WindowFits => \A d \in 1..Days + 1: starts[d] <= 1

\* A night is missed only when something outside went wrong that very day: a dream
\* that is late, or fails, or lasts into the evening never costs the next.
NightIsKept == \A d \in 1..Days: d < day_now /\ d \notin hurt => starts[d] >= 1

\* The recorded backup exists: a whole snapshot at least as new as the stamp is
\* in the destination, whatever was killed, failed or pruned since.
StampIsBacked == last_backup # never => \E s \in snaps: s[2] /\ s[3] /\ s[1] >= last_backup

\* The doctor's "last run started but never finished" is shown, whenever the dream
\* is switched on, from the moment one dies until another is started; the slack the
\* doctor allows hides it only behind a dream that ran on almost to the next.
NeverFinished == enabled /\ last_run # never /\ last_ok < last_run - Slack
DeadDreamShows == dreamDied /\ enabled /\ ~overran => NeverFinished

\* The snapshot that sorts newest can be restored.
NewestIsWhole == scheduler # "zipping" /\ snaps # {} => newest_snap[2]

\* The state is well formed, and the nights, the stamps and the doctor's line are right.
NightlySafety == NightlyTypeOK /\ OncePerNight /\ NightIsKept /\ StampIsBacked /\ DeadDreamShows
=============================================================================
