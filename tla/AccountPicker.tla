----------------------------- MODULE AccountPicker -----------------------------
(***************************************************************************)
(* The one picker: whether the fleet should move to another account, and   *)
(* to which.  A poll asks it with the thresholds of config.json and the    *)
(* time of the last automatic switch; `paos accounts switch` and `/switch` *)
(* with the built-in thresholds, except that any usage trips and nothing   *)
(* is too soon.  The two need not agree.  Usage is a percentage in each of *)
(* two windows, or unknown.                                                *)
(***************************************************************************)
EXTENDS Integers, FiniteSetsExt

CONSTANTS
    Accts,               \* accounts, ordered as their slot names are
    Default,             \* SwitchConfig::default(): 95, 90, 80 and 120 s
    Configs,             \* what config.json may make of it
    MaxSince,            \* polls counted since the last automatic switch
    MaxFive, MaxSeven    \* bounds of the instance

SwitchConfig == [switch_at : Nat, weekly_switch_at : Nat, target_max : Nat, cooldown : 0..MaxSince]

ASSUME PickerConstants ==
    /\ Accts \subseteq Nat /\ {MaxSince, MaxFive, MaxSeven} \subseteq Nat
    /\ Default \in Configs /\ Configs \subseteq SwitchConfig

VARIABLES config, five, seven, active, since

pickerVars == <<config, five, seven, active, since>>

Unknown == -1

PickerTypeOK ==
    /\ config \in Configs
    /\ five \in [Accts -> Unknown..MaxFive] /\ seven \in [Accts -> Unknown..MaxSeven]
    /\ active \in Accts /\ since \in 0..MaxSince

PickerInit ==
    /\ config \in Configs
    /\ five = [a \in Accts |-> 0] /\ seven = [a \in Accts |-> 0]
    /\ active \in Accts /\ since = MaxSince

\* A window that is unknown cannot trip.
WeeklyTrip(cfg) == seven[active] >= cfg.weekly_switch_at
BurstTrip(cfg) == five[active] # Unknown /\ five[active] >= cfg.switch_at
Tripped(cfg) == WeeklyTrip(cfg) \/ BurstTrip(cfg)

\* Mutant: the week is not looked at.
CandidatesByBurst(cfg) == {a \in Accts \ {active} : five[a] # Unknown /\ five[a] <= cfg.target_max}

Candidates(cfg) ==
    {a \in Accts \ {active} :
        five[a] # Unknown /\ five[a] <= cfg.target_max /\ seven[a] < cfg.weekly_switch_at}

\* Ranked by the window that tripped, unknown shown as 0; the first in order of the rest.
Shown(v) == IF v = Unknown THEN 0 ELSE v
Rank(cfg, a) == Shown(IF WeeklyTrip(cfg) THEN seven[a] ELSE five[a])
Best(cfg) == Min({a \in Candidates(cfg) : \A b \in Candidates(cfg) : Rank(cfg, a) <= Rank(cfg, b)})

\* Mutant: only the burst window trips.
decide_by_burst(cfg, ago) ==
    IF BurstTrip(cfg) /\ Candidates(cfg) # {} /\ ago >= cfg.cooldown THEN {Best(cfg)} ELSE {}

\* The account to move to, as a set.
decide_switch(cfg, ago) ==
    IF Tripped(cfg) /\ Candidates(cfg) # {} /\ ago >= cfg.cooldown THEN {Best(cfg)} ELSE {}

\* Tripped with nowhere to go, which the cooldown has no part in.
exhaustion(cfg) == Tripped(cfg) /\ Candidates(cfg) = {}

\* What the operator's own request is decided with.
AskedConfig == [Default EXCEPT !.switch_at = 0, !.cooldown = 0]

-----------------------------------------------------------------------------

Usage(a) ==
    /\ five' \in {[five EXCEPT ![a] = v] : v \in Unknown..MaxFive}
    /\ seven' \in {[seven EXCEPT ![a] = v] : v \in Unknown..MaxSeven}
    /\ (five'[a] = Unknown => seven'[a] = Unknown)
    /\ UNCHANGED <<config, active, since>>

\* external: somebody edits config.json, which every poll loads anew.
Configure == config' \in Configs /\ UNCHANGED <<five, seven, active, since>>

Elapse == since < MaxSince /\ since' = since + 1 /\ UNCHANGED <<config, five, seven, active>>

\* The automatic switch, when it succeeds.
PollSwitch ==
    /\ \E t \in decide_switch(config, since) : active' = t
    /\ since' = 0 /\ UNCHANGED <<config, five, seven>>

\* Asked for: none is recorded.
AskedSwitch ==
    /\ \E t \in decide_switch(AskedConfig, 0) : active' = t
    /\ UNCHANGED <<config, five, seven, since>>

PickerNext == (\E a \in Accts : Usage(a)) \/ Configure \/ Elapse \/ PollSwitch \/ AskedSwitch

PickerSpec == PickerInit /\ [][PickerNext]_pickerVars

\* The LaunchAgent polls every three minutes.
PickerFairness == WF_pickerVars(PollSwitch) /\ WF_pickerVars(Elapse)

-----------------------------------------------------------------------------
(* Properties. *)

\* The account switched to is known to have room by cfg, and cfg does not send the fleet on
\* from it: never for the week, nor for the burst window if a target has to be below the
\* mark that trips, which nothing in config.json enforces.
Lasts(cfg) ==
    /\ five[active'] \in 0..cfg.target_max
    /\ ~WeeklyTrip(cfg)'
    /\ cfg.target_max < cfg.switch_at => ~BurstTrip(cfg)'

\* Whoever asks, a switch is not burnt by the thresholds it was decided with: those of
\* config.json for a poll, the built-in ones for the operator.
NoThrash == [][(PollSwitch => Lasts(config)) /\ (AskedSwitch => Lasts(Default))]_pickerVars

\* A spent account is left, unless there is nowhere to go by the thresholds it is spent by.
\* (The page to the operator asks by the built-in ones: bridge.rs, accounts_exhaustion.)
SpentIsLeft ==
    \A a \in Accts :
        (active = a /\ WeeklyTrip(config))
            ~> (active # a \/ ~WeeklyTrip(config) \/ exhaustion(config))
=============================================================================
