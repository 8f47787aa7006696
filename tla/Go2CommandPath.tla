---------------------------- MODULE Go2CommandPath ----------------------------
(***************************************************************************)
(* The way of a plan from the controller node to rt/lowcmd: the wall timer *)
(* of the controller, joint_commands with its queue, the executor and the  *)
(* watchdog of the bridge.  The controller may crash at any moment and be  *)
(* started again.                                                          *)
(*                                                                         *)
(* The watchdog measures the time since a command was received, not since  *)
(* it was sent, so that a queue may keep it quiet; and a command that      *)
(* waits is as good as none.  How long either takes depends on how late    *)
(* timers fire and messages are taken: these are the constants, and time   *)
(* does not pass a deadline (Tick).                                        *)
(***************************************************************************)
EXTENDS Go2DdsBridge

CONSTANTS
    Depth,        \* of the subscription to joint_commands: 10 in the code
    PlanPeriod,   \* the longest time between two plans of a running controller
    TakeDelay,    \* the longest time the executor leaves a message waiting
    TimerPeriod   \* the longest time between two runs of onTimer

ASSUME CommandPathAssumption ==
    /\ Depth \in Nat \ {0}
    /\ PlanPeriod \in Nat
    /\ TakeDelay \in Nat
    /\ TimerPeriod \in Nat

\* What publishJoints_ sends: finite positions for the names of joints_map.
ASSUME PlansAssumption == \A msg \in JointCommands : Accepts(msg)

VARIABLES
    running,      \* the controller process
    topic,        \* messages of joint_commands not yet taken, oldest first
    since_plan,   \* time since the controller last published
    waiting,      \* time the executor has left the first message waiting
    since_timer,  \* time since the last onTimer took the mutex
    up_for,       \* history: how long the controller has been running
    down_for      \* history: how long it has been down

controllerVars == <<running, since_plan, up_for, down_for>>
queueVars == <<topic, waiting>>
cmdVars == <<vars, controllerVars, queueVars, since_timer>>

\* From a start or a death of the controller to what is written.
QuietAfter == PlanPeriod + TakeDelay + 2 * TimerPeriod
DampedAfter == Depth * TakeDelay + CommandTimeout + 2 * TimerPeriod

\* The two histories saturate beyond that, and without a watchdog sooner.
MaxUp == QuietAfter + 1
MaxDown == Depth * TakeDelay + MaxCommandAge + 2 * TimerPeriod

-----------------------------------------------------------------------------
CmdInit ==
    /\ Init
    /\ running \in BOOLEAN
    /\ topic = <<>>
    /\ since_plan = 0
    /\ waiting = 0
    /\ since_timer = 0
    /\ up_for = 0
    /\ down_for = 0

QueuedUnbounded(msg) == Append(topic, msg)

\* The queue of the subscription keeps the last Depth messages.
Queued(msg) ==
    Append(IF Len(topic) >= Depth THEN Tail(topic) ELSE topic, msg)

\* loop_timer_: controlLoop_ ends with publishJoints_, whatever the plan.
PublishPlan(msg) ==
    /\ running
    /\ topic' = Queued(msg)
    /\ waiting' = IF topic = <<>> THEN 0 ELSE waiting
    /\ since_plan' = 0
    /\ UNCHANGED <<vars, running, up_for, down_for, since_timer>>

\* What has not been delivered yet is lost with the process.
Crash ==
    /\ running
    /\ running' = FALSE
    /\ \E n \in 0 .. Len(topic) : topic' = SubSeq(topic, 1, n)
    /\ since_plan' = 0
    /\ up_for' = 0
    /\ UNCHANGED <<vars, waiting, since_timer, down_for>>

\* The constructor makes the timer, which fires a period later.
Restart ==
    /\ ~running
    /\ running' = TRUE
    /\ down_for' = 0
    /\ UNCHANGED <<vars, queueVars, since_plan, up_for, since_timer>>


\* The executor gives onJointCommand the oldest message.  It accepts a plan.
TakeCommand ==
    /\ topic # <<>>
    /\ OnJointCommand(Head(topic))
    /\ topic' = Tail(topic)
    /\ waiting' = 0
    /\ UNCHANGED <<controllerVars, since_timer>>

LockTimer ==
    /\ OnTimerLocked
    /\ since_timer' = 0
    /\ UNCHANGED <<controllerVars, queueVars>>

WriteTimer == OnTimerWrite /\ UNCHANGED <<controllerVars, queueVars, since_timer>>

Measure ==
    /\ \E state \in LowStates : OnLowState(state)
    /\ UNCHANGED <<controllerVars, queueVars, since_timer>>

\* Nobody is late.
Deadlines ==
    /\ running => since_plan < PlanPeriod
    /\ topic # <<>> => waiting < TakeDelay
    /\ since_timer < TimerPeriod

TickAll ==
    /\ Deadlines
    /\ Tick
    /\ since_plan' = IF running THEN since_plan + 1 ELSE 0
    /\ waiting' = IF topic # <<>> THEN waiting + 1 ELSE 0
    /\ since_timer' = since_timer + 1
    /\ up_for' = IF running THEN Older(up_for, MaxUp) ELSE 0
    /\ down_for' = IF running THEN 0 ELSE Older(down_for, MaxDown)
    /\ UNCHANGED <<running, topic>>

CmdNext ==
    \/ \E msg \in JointCommands : PublishPlan(msg)
    \/ Crash
    \/ Restart
    \/ TakeCommand
    \/ LockTimer
    \/ WriteTimer
    \/ Measure
    \/ TickAll

CmdSpec == CmdInit /\ [][CmdNext]_cmdVars

-----------------------------------------------------------------------------
CmdTypeOK ==
    /\ TypeOK
    /\ running \in BOOLEAN
    /\ topic \in Seq(JointCommands)
    /\ Len(topic) <= Depth
    /\ since_plan \in 0 .. PlanPeriod
    /\ waiting \in 0 .. TakeDelay
    /\ since_timer \in 0 .. TimerPeriod
    /\ up_for \in 0 .. MaxUp
    /\ down_for \in 0 .. MaxDown

\* The timeout leaves room for a late plan that waits to be taken.
RoomForOnePlan == PlanPeriod + TakeDelay <= CommandTimeout

\* No false alarm: soon after the controller has come up, and for as long as
\* it runs, its plans reach the motors with the damping asked for, though
\* every plan be late, wait in the queue, and be written a timer later.
NoFalseAlarm ==
    (RoomForOnePlan /\ up_for > QuietAfter /\ sent.phase = "drive")
        => low_cmd.kd = Kd

\* And no controller's death goes unnoticed: commands it has left behind may
\* each start the watchdog anew, but only so often.
DeathIsNoticed ==
    (CommandTimeout > 0 /\ down_for > DampedAfter /\ sent.phase # "silent")
        => low_cmd.kd = DampedKd

-----------------------------------------------------------------------------
(* The parts of the inductive invariant behind the two. *)

\* The longest the newest plan can have been on its way.
UnderWay == IF topic = <<>> THEN since_plan ELSE PlanPeriod + waiting

\* While the controller runs, no command of its is older.
CommandFresh == running => command_age <= UnderWay \/ up_for <= UnderWay

\* While it is down, the commands that are left are taken one by one.
QueueRunsDry ==
    ~running =>
        /\ topic # <<>> => down_for <= (Depth - Len(topic)) * TakeDelay + waiting
        /\ (topic = <<>> /\ CommandTimeout > 0 /\ has_command /\ command_age <= CommandTimeout)
              => down_for <= Depth * TakeDelay + command_age

\* Since the mutex was taken for the LowCmd last written.
LastWriteAge == IF InTimer THEN TimerPeriod + since_timer ELSE since_timer

WatchdogTimely ==
    /\ RoomForOnePlan =>
        /\ InTimer /\ snap.have_command /\ snap.command_stale
            => up_for <= PlanPeriod + TakeDelay + since_timer
        /\ sent.phase = "drive" /\ low_cmd.kd # Kd
            => up_for <= PlanPeriod + TakeDelay + LastWriteAge
    /\ CommandTimeout > 0 =>
        /\ InTimer /\ ~snap.command_stale
            => down_for <= Depth * TakeDelay + CommandTimeout + since_timer
        /\ sent.phase # "silent" /\ low_cmd.kd # DampedKd
            => down_for <= Depth * TakeDelay + CommandTimeout + LastWriteAge

\* One controller is up or down.
HistoriesMatch ==
    /\ running => down_for = 0
    /\ ~running => up_for = 0 /\ since_plan = 0

\* Once it has written, the timer writes every time.
WritesGoOn == sent.phase # "silent" => has_lowstate

CommandPathInv ==
    /\ CmdTypeOK
    /\ CommandFresh
    /\ QueueRunsDry
    /\ WatchdogTimely
    /\ HistoriesMatch
    /\ WritesGoOn
=============================================================================
