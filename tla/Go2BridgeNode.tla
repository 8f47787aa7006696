---------------------------- MODULE Go2BridgeNode ----------------------------
(***************************************************************************)
(* The start of the bridge node: its constructor asks the robot's motion   *)
(* switcher to release Sport, opens the DDS channels, and only then does   *)
(* the executor spin.  From there on the node is the Go2DdsBridge.         *)
(*                                                                         *)
(* The motion switcher is a service of the robot: a call may fail, time    *)
(* out or throw, ReleaseMode may return before, or without, Sport having   *)
(* stopped, and Sport may come up while the node still asks about it.      *)
(***************************************************************************)
EXTENDS Go2DdsBridge

CONSTANTS
    ReleaseSport,  \* the parameter release_sport
    MaxAttempts    \* 6 in the code

ASSUME NodeAssumption ==
    /\ ReleaseSport \in BOOLEAN
    /\ MaxAttempts \in Nat \ {0}

VARIABLES
    stage,         \* where the constructor is
    attempt,       \* the loop counter of releaseSport
    told_off,      \* has it logged "Motion control services are off"?
    warned,        \* has it warned that Sport may be active?
    sport_active   \* the robot: Sport drives the motors

reports == <<told_off, warned>>
nodeVars == <<stage, attempt, reports>>
allVars == <<vars, nodeVars, sport_active>>

Stages == {"check", "release", "sleep", "open", "construct", "spin"}

-----------------------------------------------------------------------------
\* releaseSport is called when the parameter asks for it.
FirstStage == IF ReleaseSport THEN "check" ELSE "open"

NInit ==
    /\ Init
    /\ stage = FirstStage
    /\ attempt = 0
    /\ told_off = FALSE
    /\ warned = FALSE
    /\ sport_active \in BOOLEAN

\* The name of the active mode, a fresh string for each attempt: CheckMode
\* fills it in when it succeeds and a mode is active.
NameEmpty(ok) == ~(ok /\ sport_active)

OffIgnoringErrors(ok) == NameEmpty(ok)

\* check == 0 && name.empty()
Off(ok) == ok /\ NameEmpty(ok)

CheckMode(ok) ==
    /\ stage = "check"
    /\ stage' = IF Off(ok) THEN "open" ELSE "release"
    /\ told_off' = (told_off \/ Off(ok))
    /\ UNCHANGED <<vars, attempt, warned, sport_active>>

\* Whatever ReleaseMode returns, it is only logged; the robot may take any
\* time to stop Sport (SportStops), or not do it.
ReleaseMode ==
    /\ stage = "release"
    /\ stage' = "sleep"
    /\ UNCHANGED <<vars, attempt, reports, sport_active>>

NextAttemptForever == attempt

NextAttempt == attempt + 1

\* The second between two attempts, and behind the last one the warning
\* "Sport may still be active": nobody asks what that last attempt did.
Sleep ==
    /\ stage = "sleep"
    /\ attempt' = NextAttempt
    /\ stage' = IF attempt' < MaxAttempts THEN "check" ELSE "open"
    /\ warned' = (warned \/ attempt' >= MaxAttempts)
    /\ UNCHANGED <<vars, told_off, sport_active>>

\* Either call may throw; the exception is caught and "Stop Sport manually
\* before sending LowCmd" logged.
Throw ==
    /\ stage \in {"check", "release"}
    /\ stage' = "open"
    /\ warned' = TRUE
    /\ UNCHANGED <<vars, attempt, told_off, sport_active>>

\* initLowCmd and the channels: from here on the DDS thread delivers.
OpenChannels ==
    /\ stage = "open"
    /\ stage' = "construct"
    /\ UNCHANGED <<vars, attempt, reports, sport_active>>

\* The subscription, the publishers and the timer; main then spins the node.
Construct ==
    /\ stage = "construct"
    /\ stage' = "spin"
    /\ UNCHANGED <<vars, attempt, reports, sport_active>>

\* The robot stops Sport, because it was asked to or by its operator.
SportStops ==
    /\ sport_active
    /\ sport_active' = FALSE
    /\ UNCHANGED <<vars, nodeVars>>

\* It may still be booting, or be told to start Sport by another remote; that
\* nobody does so once Sport has been reported off is what the documents ask
\* of the operator.
SportStarts ==
    /\ ~told_off
    /\ ~sport_active
    /\ sport_active' = TRUE
    /\ UNCHANGED <<vars, nodeVars>>

Constructing ==
    \/ \E ok \in BOOLEAN : CheckMode(ok)
    \/ ReleaseMode
    \/ Sleep
    \/ Throw
    \/ OpenChannels
    \/ Construct

\* The DDS thread runs once its channel is open, the executor once it spins.
BridgeStep ==
    /\ \/ stage \in {"construct", "spin"} /\ \E state \in LowStates : OnLowState(state)
       \/ stage = "spin" /\ \E msg \in JointCommands : OnJointCommand(msg)
       \/ stage = "spin" /\ OnTimerLocked
       \/ stage = "spin" /\ OnTimerWrite
       \/ Tick
    /\ UNCHANGED <<nodeVars, sport_active>>

NNext == Constructing \/ SportStops \/ SportStarts \/ BridgeStep

NSpec == NInit /\ [][NNext]_allVars

\* Calls to the motion switcher return within SetTimeout(5.0), or throw; a
\* sleep ends.  Nothing makes the robot stop Sport.
NFairSpec == NSpec /\ WF_allVars(Constructing)

-----------------------------------------------------------------------------
NTypeOK ==
    /\ TypeOK
    /\ stage \in Stages
    /\ attempt \in 0 .. MaxAttempts
    /\ told_off \in BOOLEAN
    /\ warned \in BOOLEAN
    /\ sport_active \in BOOLEAN

\* A node asked to release Sport never sends a LowCmd beside it in silence:
\* when it does drive motors that Sport drives too, it has warned of just that
\* (go2_dds_bridge.cpp:127-135), on whatever way the six attempts, each with
\* two calls that fail, lie empty or throw, have brought it there.
NeverBesideSportUnwarned ==
    (ReleaseSport /\ sent.phase # "silent" /\ sport_active) => warned

\* The node always comes up, and with it the timer that drives and damps,
\* however the motion switcher answers, and does not retry for ever.
ComesUp == <>(stage = "spin")

-----------------------------------------------------------------------------
(* The parts of the inductive invariant behind NeverBesideSportUnwarned. *)

\* What was reported off was off, and has stayed so.
ReportStands == told_off => ~sport_active

\* No way leads out of releaseSport without a report or a warning.
LeftWithReport ==
    (ReleaseSport /\ stage \in {"open", "construct", "spin"}) => told_off \/ warned

\* Nobody writes a LowCmd before the executor spins.
SilentUntilSpin == stage # "spin" => sent.phase = "silent" /\ ~InTimer

NodeInv == ReportStands /\ LeftWithReport /\ SilentUntilSpin
=============================================================================
