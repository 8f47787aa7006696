------------------------ MODULE Go2CompositionProofs ------------------------
(***************************************************************************)
(* Theorems about the bridge among its neighbours: the node with its       *)
(* constructor and the motion switcher (Go2BridgeNode), the path of        *)
(* commands from a controller that crashes and restarts (Go2CommandPath),  *)
(* and the path of a LowState through the subscriber (Go2LowStatePath).    *)
(* Each is shown to be the bridge first, so that what is proved of the     *)
(* bridge holds of it.                                                     *)
(***************************************************************************)
EXTENDS Go2BridgeNode, Go2CommandPath, Go2LowStatePath, Go2DdsBridgeProofs

-----------------------------------------------------------------------------
(* The node *)

\* The node does to the bridge's state what the bridge does or nothing, so
\* that every theorem of Spec holds of the node from its construction on.
THEOREM NodeIsBridge == NSpec => Spec
<1>1. NInit => Init
    BY DEF NInit
<1>2. [NNext]_allVars => [Next]_vars
    <2> SUFFICES ASSUME [NNext]_allVars PROVE [Next]_vars
        OBVIOUS
    <2>1. CASE Constructing
        BY <2>1 DEF Constructing, CheckMode, ReleaseMode, Sleep, Throw, OpenChannels,
                    Construct
    <2>2. CASE SportStops
        BY <2>2 DEF SportStops
    <2>3. CASE SportStarts
        BY <2>3 DEF SportStarts
    <2>4. CASE BridgeStep
        BY <2>4 DEF BridgeStep, Next
    <2>5. CASE UNCHANGED allVars
        BY <2>5 DEF allVars
    <2> QED BY <2>1, <2>2, <2>3, <2>4, <2>5 DEF NNext
<1> QED BY <1>1, <1>2, PTL DEF NSpec, Spec

\* From the constructor on, with Sport on or off, a motor is sent an angle
\* within its limits, or NaN when there is no number to hold or to blend.
COROLLARY NodeRespectsLimits == NSpec => []OnlyNaNLeavesLimits
BY NodeIsBridge, OnlyNaNEscapes, PTL

\* The constructor's counters and the bridge's variables keep their types.
THEOREM NodeTypeCorrect == NSpec => []NTypeOK
<1> DEFINE ConstructorOfType ==
        /\ stage \in Stages
        /\ attempt \in 0 .. MaxAttempts
        /\ stage \in {"check", "release", "sleep"} => attempt < MaxAttempts
        /\ told_off \in BOOLEAN
        /\ warned \in BOOLEAN
        /\ sport_active \in BOOLEAN
<1>1. NInit => ConstructorOfType
    <2> SUFFICES ASSUME NInit PROVE ConstructorOfType
        OBVIOUS
    <2>1. /\ attempt = 0 /\ told_off = FALSE /\ warned = FALSE
          /\ sport_active \in BOOLEAN /\ stage = FirstStage
        BY DEF NInit
    <2>2. 0 \in 0 .. MaxAttempts
        BY NodeAssumption
    <2>3. stage = "open" \/ (stage = "check" /\ 0 < MaxAttempts)
        BY <2>1, NodeAssumption DEF FirstStage
    <2>4. told_off \in BOOLEAN /\ warned \in BOOLEAN /\ sport_active \in BOOLEAN
        BY <2>1
    <2> QED BY <2>1, <2>2, <2>3, <2>4 DEF Stages
<1>2. ConstructorOfType /\ [NNext]_allVars => ConstructorOfType'
    <2> SUFFICES ASSUME ConstructorOfType, [NNext]_allVars PROVE ConstructorOfType'
        OBVIOUS
    <2>1. ASSUME NEW ok \in BOOLEAN, CheckMode(ok) PROVE ConstructorOfType'
        <3>1. /\ stage = "check" /\ stage' \in {"open", "release"}
              /\ UNCHANGED <<attempt, warned, sport_active>>
            BY <2>1 DEF CheckMode
        <3>3. told_off' \in BOOLEAN
            BY <2>1 DEF CheckMode
        <3> QED BY <3>1, <3>3 DEF Stages
    <2>2. CASE ReleaseMode
        BY <2>2 DEF ReleaseMode, Stages, reports
    <2>3. CASE Sleep
        <3>1. attempt' = attempt + 1 /\ attempt < MaxAttempts /\ attempt \in 0 .. MaxAttempts
            BY <2>3 DEF Sleep, NextAttempt
        <3>2. attempt + 1 \in 0 .. MaxAttempts
            BY <3>1, NodeAssumption
        <3>3. stage' \in Stages /\ (stage' = "open" \/ attempt' < MaxAttempts)
            BY <2>3 DEF Sleep, Stages
        <3>4. told_off' \in BOOLEAN /\ warned' \in BOOLEAN /\ sport_active' \in BOOLEAN
            BY <2>3 DEF Sleep
        <3> QED BY <3>1, <3>2, <3>3, <3>4 DEF Stages
    <2>4. CASE Throw \/ OpenChannels \/ Construct
        BY <2>4 DEF Throw, OpenChannels, Construct, Stages, reports
    <2>5. CASE SportStops \/ SportStarts
        BY <2>5 DEF SportStops, SportStarts, nodeVars, reports
    <2>6. CASE BridgeStep \/ UNCHANGED allVars
        BY <2>6 DEF BridgeStep, allVars, nodeVars, reports
    <2> QED BY <2>1, <2>2, <2>3, <2>4, <2>5, <2>6 DEF NNext, Constructing
<1>3. TypeOK /\ ConstructorOfType => NTypeOK
    BY DEF NTypeOK
<1> QED BY <1>1, <1>2, <1>3, NodeIsBridge, TypeCorrect, PTL DEF NSpec

\* The invariant is that of the three parts of NodeInv: a report that stands
\* for as long as nobody starts Sport again, no way out of releaseSport
\* without report or warning, and no LowCmd before the executor spins.
LEMMA NodeInvInit == NInit => NodeInv
<1> SUFFICES ASSUME NInit PROVE NodeInv
    OBVIOUS
<1>1. ~told_off /\ (ReleaseSport => stage = "check")
    BY DEF NInit, FirstStage
<1>2. sent.phase = "silent" /\ ~InTimer
    BY DEF NInit, Init, InTimer, NullSnap
<1> QED BY <1>1, <1>2 DEF NodeInv, ReportStands, LeftWithReport, SilentUntilSpin

LEMMA NodeInvNext == NTypeOK /\ NodeInv /\ [NNext]_allVars => NodeInv'
<1> SUFFICES ASSUME NTypeOK, NodeInv, [NNext]_allVars PROVE NodeInv'
    OBVIOUS
<1> USE DEF NodeInv, ReportStands, LeftWithReport, SilentUntilSpin
<1>1. CASE Constructing
    <2>1. sent' = sent /\ InTimer' = InTimer /\ stage # "spin"
        BY <1>1 DEF Constructing, CheckMode, ReleaseMode, Sleep, Throw, OpenChannels,
                    Construct, vars, outVars, InTimer
    <2>2. SilentUntilSpin'
        BY <2>1
    <2>3. ASSUME NEW ok \in BOOLEAN, CheckMode(ok) PROVE NodeInv'
        <3>1. Off(ok) => ~sport_active
            BY DEF Off, NameEmpty
        <3>2. ReportStands' /\ LeftWithReport'
            BY <2>3, <3>1 DEF CheckMode
        <3> QED BY <2>2, <3>2
    <2>4. CASE Sleep
        <3>1. attempt' \in Int /\ MaxAttempts \in Int
            BY <2>4, NodeAssumption DEF Sleep, NextAttempt, NTypeOK
        <3>2. stage' = "open" => warned'
            <4>1. stage' = "open" => ~(attempt' < MaxAttempts)
                BY <2>4 DEF Sleep
            <4>2. ~(attempt' < MaxAttempts) => attempt' >= MaxAttempts
                BY <3>1
            <4>3. warned' = (warned \/ attempt' >= MaxAttempts)
                BY <2>4 DEF Sleep
            <4> QED BY <4>1, <4>2, <4>3, Zenon
        <3>3. ReportStands' /\ LeftWithReport'
            BY <2>4, <3>2 DEF Sleep
        <3> QED BY <2>2, <3>3
    <2>5. CASE ReleaseMode \/ Throw \/ OpenChannels \/ Construct
        <3>1. ReportStands' /\ LeftWithReport'
            BY <2>5 DEF ReleaseMode, Throw, OpenChannels, Construct, reports
        <3> QED BY <2>2, <3>1
    <2> QED BY <1>1, <2>3, <2>4, <2>5 DEF Constructing
<1>2. CASE SportStops \/ SportStarts
    BY <1>2 DEF SportStops, SportStarts, vars, outVars, InTimer, nodeVars, reports
<1>3. CASE BridgeStep
    <2>1. ReportStands' /\ LeftWithReport' /\ stage' = stage
        BY <1>3 DEF BridgeStep, nodeVars, reports
    <2>2. stage # "spin" => sent' = sent /\ InTimer' = InTimer
        BY <1>3 DEF BridgeStep, OnLowState, Tick, outVars, InTimer
    <2> QED BY <2>1, <2>2
<1>4. CASE UNCHANGED allVars
    BY <1>4 DEF allVars, nodeVars, reports, vars, outVars, InTimer
<1> QED BY <1>1, <1>2, <1>3, <1>4 DEF NNext

\* Nobody is left unaware that the node drives beside Sport, for any number
\* of attempts and any failures of the motion switcher.
THEOREM SportIsWarnedOf == NSpec => []NeverBesideSportUnwarned
<1>1. NodeInv => NeverBesideSportUnwarned
    <2> SUFFICES ASSUME NodeInv, ReleaseSport, sent.phase # "silent", sport_active
                 PROVE  warned
        BY DEF NeverBesideSportUnwarned
    <2>1. stage = "spin" /\ ~told_off
        BY DEF NodeInv, SilentUntilSpin, ReportStands
    <2> QED BY <2>1 DEF NodeInv, LeftWithReport
<1> QED BY <1>1, NodeInvInit, NodeInvNext, NodeTypeCorrect, PTL DEF NSpec

-----------------------------------------------------------------------------
(* The path of commands *)

\* The path does to the bridge what the bridge does: all its messages are plans.
LEMMA StepIsBridgeStep ==
    ASSUME CmdTypeOK, [CmdNext]_cmdVars
    PROVE  [Next]_vars
<1>1. ASSUME NEW msg \in JointCommands, PublishPlan(msg) PROVE UNCHANGED vars
    BY <1>1 DEF PublishPlan
<1>2. CASE Crash \/ Restart
    BY <1>2 DEF Crash, Restart
<1>3. CASE TakeCommand
    <2>1. Head(topic) \in JointCommands
        BY <1>3 DEF TakeCommand, CmdTypeOK
    <2> QED BY <1>3, <2>1 DEF TakeCommand, Next
<1>4. CASE LockTimer \/ WriteTimer \/ Measure \/ TickAll
    BY <1>4 DEF LockTimer, WriteTimer, Measure, TickAll, Next
<1>5. CASE UNCHANGED cmdVars
    BY <1>5 DEF cmdVars
<1> QED BY <1>1, <1>2, <1>3, <1>4, <1>5 DEF CmdNext

\* What the steps below compare: times are numbers, and none is late.
LEMMA PathTimes ==
    ASSUME CmdTypeOK
    PROVE  /\ Depth \in Nat \ {0} /\ PlanPeriod \in Nat /\ TakeDelay \in Nat
           /\ TimerPeriod \in Nat /\ CommandTimeout \in Int
           /\ since_plan \in Nat /\ since_plan <= PlanPeriod
           /\ waiting \in Nat /\ waiting <= TakeDelay
           /\ since_timer \in Nat /\ since_timer <= TimerPeriod
           /\ up_for \in Nat /\ down_for \in Nat /\ command_age \in Nat
           /\ Len(topic) \in 0 .. Depth
           /\ Depth * TakeDelay \in Nat
           /\ UnderWay \in Nat /\ UnderWay <= PlanPeriod + TakeDelay
<1>1. /\ Depth \in Nat \ {0} /\ PlanPeriod \in Nat /\ TakeDelay \in Nat
      /\ TimerPeriod \in Nat /\ CommandTimeout \in Int /\ MaxCommandAge \in Nat
    BY CommandPathAssumption, BridgeAssumption, MaxCommandAgeType
<1>2. Depth * TakeDelay \in Nat
    BY <1>1
<1>3. command_age \in Nat /\ topic \in Seq(JointCommands)
    BY <1>1 DEF CmdTypeOK, TypeOK
<1>4. up_for \in Nat /\ down_for \in Nat
    BY DEF CmdTypeOK
<1>5. /\ since_plan \in 0 .. PlanPeriod /\ waiting \in 0 .. TakeDelay
      /\ since_timer \in 0 .. TimerPeriod
    BY DEF CmdTypeOK
<1>6. Len(topic) \in 0 .. Depth
    BY <1>1, <1>3 DEF CmdTypeOK
<1>7. UnderWay \in Nat /\ UnderWay <= PlanPeriod + TakeDelay
    BY <1>1, <1>5 DEF UnderWay
<1> QED BY <1>1, <1>2, <1>3, <1>4, <1>5, <1>6, <1>7

\* The time that the places of the queue stand for.
LEMMA Places ==
    ASSUME NEW n \in 0 .. Depth, NEW t \in Nat
    PROVE  /\ (Depth - n) * t \in Nat
           /\ n > 0 => (Depth - n) * t + t = (Depth - (n - 1)) * t
           /\ n > 0 => (Depth - n) * t + t <= Depth * t
           /\ (Depth - 0) * t = Depth * t
<1>1. Depth \in Nat /\ Depth - n \in Nat
    BY CommandPathAssumption
<1>2. (Depth - n) * t \in Nat
    BY <1>1
<1>3. ASSUME n > 0 PROVE (Depth - n) * t + t = (Depth - (n - 1)) * t
    <2> DEFINE d == Depth - n
    <2>1. d \in Nat /\ Depth - (n - 1) = d + 1
        BY <1>1
    <2>2. (d + 1) * t = d * t + t
        <3> HIDE DEF d
        <3> QED BY <2>1
    <2> QED BY <2>1, <2>2
<1>4. ASSUME n > 0 PROVE (Depth - n) * t + t <= Depth * t
    <2> DEFINE d == Depth - (n - 1)
                k == n - 1
    <2>1. d \in Nat /\ k \in Nat /\ Depth = d + k
        BY <1>1, <1>4
    <2>2. k * t \in Nat /\ (d + k) * t = d * t + k * t /\ d * t \in Nat
        <3> HIDE DEF d, k
        <3> QED BY <2>1
    <2>3. (Depth - n) * t + t = d * t
        BY <1>3, <1>4
    <2> QED BY <2>1, <2>2, <2>3
<1>5. (Depth - 0) * t = Depth * t
    BY <1>1
<1> QED BY <1>2, <1>3, <1>4, <1>5

LEMMA HistoryBounds ==
    /\ MaxUp \in Nat
    /\ MaxDown \in Nat
    /\ CommandTimeout > 0 => MaxDown = DampedAfter + 1 /\ MaxCommandAge = CommandTimeout + 1
<1>1. Depth * TakeDelay \in Nat /\ MaxCommandAge \in Nat /\ CommandTimeout \in Int
    BY CommandPathAssumption, BridgeAssumption, MaxCommandAgeType
<1>2. MaxUp \in Nat /\ MaxDown \in Nat
    BY <1>1, CommandPathAssumption DEF MaxUp, MaxDown, QuietAfter
<1>3. CommandTimeout > 0 => MaxCommandAge = CommandTimeout + 1
    BY DEF MaxCommandAge
<1> QED BY <1>1, <1>2, <1>3, CommandPathAssumption DEF MaxDown, DampedAfter

LEMMA CommandPathInit == CmdInit => CommandPathInv
<1> SUFFICES ASSUME CmdInit PROVE CommandPathInv
    OBVIOUS
<1>1. TypeOK
    BY TypeInit DEF CmdInit
<1>2. CmdTypeOK
    <2>1. Len(topic) <= Depth /\ topic \in Seq(JointCommands)
        BY CommandPathAssumption DEF CmdInit
    <2>2. /\ since_plan \in 0 .. PlanPeriod /\ waiting \in 0 .. TakeDelay
          /\ since_timer \in 0 .. TimerPeriod
        BY CommandPathAssumption DEF CmdInit
    <2>3. up_for \in 0 .. MaxUp /\ down_for \in 0 .. MaxDown
        BY HistoryBounds DEF CmdInit
    <2>4. running \in BOOLEAN
        BY DEF CmdInit
    <2> QED BY <1>1, <2>1, <2>2, <2>3, <2>4 DEF CmdTypeOK
<1>3. CommandFresh
    BY <1>2, PathTimes DEF CmdInit, CommandFresh
<1>4. ~has_command /\ ~InTimer /\ sent.phase = "silent" /\ topic = <<>>
    BY DEF CmdInit, Init, InTimer, NullSnap
<1>5. QueueRunsDry /\ WatchdogTimely /\ WritesGoOn
    BY <1>4 DEF QueueRunsDry, WatchdogTimely, WritesGoOn
<1> QED BY <1>2, <1>3, <1>5 DEF CmdInit, CommandPathInv, HistoriesMatch

-----------------------------------------------------------------------------
(* One lemma for each part of the invariant. *)

LEMMA StepTypes ==
    ASSUME CommandPathInv, TypeOK', [CmdNext]_cmdVars
    PROVE  CmdTypeOK'
<1>1. /\ running \in BOOLEAN /\ topic \in Seq(JointCommands) /\ Len(topic) <= Depth
      /\ since_plan \in 0 .. PlanPeriod /\ waiting \in 0 .. TakeDelay
      /\ since_timer \in 0 .. TimerPeriod /\ up_for \in 0 .. MaxUp /\ down_for \in 0 .. MaxDown
    BY DEF CommandPathInv, CmdTypeOK
<1>2. Len(topic) \in Nat
    BY <1>1
<1>3. running' \in BOOLEAN
    BY <1>1 DEF CmdNext, PublishPlan, Crash, Restart, TakeCommand, LockTimer, WriteTimer,
                Measure, TickAll, controllerVars, cmdVars
<1>4. topic' \in Seq(JointCommands) /\ Len(topic') <= Depth
    <2>1. ASSUME NEW msg \in JointCommands, PublishPlan(msg)
          PROVE  topic' \in Seq(JointCommands) /\ Len(topic') <= Depth
        <3>1. CASE Len(topic) >= Depth
            <4>1. topic # <<>> /\ Tail(topic) \in Seq(JointCommands)
                  /\ Len(Tail(topic)) = Len(topic) - 1
                BY <1>1, <1>2, <3>1, CommandPathAssumption
            <4>2. topic' = Append(Tail(topic), msg)
                BY <2>1, <3>1 DEF PublishPlan, Queued
            <4> QED BY <1>1, <1>2, <4>1, <4>2, CommandPathAssumption
        <3>2. CASE ~(Len(topic) >= Depth)
            <4>1. topic' = Append(topic, msg)
                BY <2>1, <3>2 DEF PublishPlan, Queued
            <4> QED BY <1>1, <1>2, <3>2, <4>1, CommandPathAssumption
        <3> QED BY <3>1, <3>2
    <2>2. CASE Crash
        <3>1. PICK n \in 0 .. Len(topic) : topic' = SubSeq(topic, 1, n)
            BY <2>2 DEF Crash
        <3> QED BY <1>1, <1>2, <3>1, CommandPathAssumption
    <2>3. CASE TakeCommand
        <3>1. topic # <<>> /\ topic' = Tail(topic)
            BY <2>3 DEF TakeCommand
        <3> QED BY <1>1, <1>2, <3>1, CommandPathAssumption
    <2>4. CASE Restart \/ LockTimer \/ WriteTimer \/ Measure \/ TickAll \/ UNCHANGED cmdVars
        <3>1. topic' = topic
            BY <2>4 DEF Restart, LockTimer, WriteTimer, Measure, TickAll, cmdVars, queueVars
        <3> QED BY <1>1, <3>1
    <2> QED BY <2>1, <2>2, <2>3, <2>4 DEF CmdNext
<1>5. /\ since_plan' \in 0 .. PlanPeriod /\ waiting' \in 0 .. TakeDelay
      /\ since_timer' \in 0 .. TimerPeriod /\ up_for' \in 0 .. MaxUp /\ down_for' \in 0 .. MaxDown
    <2>1. 0 \in 0 .. PlanPeriod /\ 0 \in 0 .. TakeDelay /\ 0 \in 0 .. TimerPeriod
          /\ 0 \in 0 .. MaxUp /\ 0 \in 0 .. MaxDown
        BY CommandPathAssumption, HistoryBounds
    <2>2. CASE TickAll
        <3>1. since_plan' \in 0 .. PlanPeriod
            BY <1>1, <2>1, <2>2, CommandPathAssumption DEF TickAll, Deadlines
        <3>2. waiting' \in 0 .. TakeDelay
            BY <1>1, <2>1, <2>2, CommandPathAssumption DEF TickAll, Deadlines
        <3>3. since_timer' \in 0 .. TimerPeriod
            BY <1>1, <2>2, CommandPathAssumption DEF TickAll, Deadlines
        <3>4. up_for' \in 0 .. MaxUp /\ down_for' \in 0 .. MaxDown
            BY <1>1, <2>1, <2>2, HistoryBounds, OlderType DEF TickAll
        <3> QED BY <3>1, <3>2, <3>3, <3>4
    <2>3. CASE ~TickAll
        <3>1. /\ since_plan' = since_plan \/ since_plan' = 0
              /\ waiting' = waiting \/ waiting' = 0
              /\ since_timer' = since_timer \/ since_timer' = 0
              /\ up_for' = up_for \/ up_for' = 0
              /\ down_for' = down_for \/ down_for' = 0
            BY <2>3 DEF CmdNext, PublishPlan, Crash, Restart, TakeCommand, LockTimer,
                        WriteTimer, Measure, controllerVars, queueVars, cmdVars
        <3> QED BY <1>1, <2>1, <3>1
    <2> QED BY <2>2, <2>3
<1> QED BY <1>3, <1>4, <1>5 DEF CmdTypeOK

\* How a step moves the histories: with the controller, and with the clock.
LEMMA StepHistories ==
    ASSUME CommandPathInv, [CmdNext]_cmdVars
    PROVE  HistoriesMatch'
<1>1. HistoriesMatch
    BY DEF CommandPathInv
<1> QED BY <1>1 DEF HistoriesMatch, CmdNext, PublishPlan, Crash, Restart, TakeCommand, LockTimer,
                   WriteTimer, Measure, TickAll, controllerVars, cmdVars

\* The watchdog's clock: a command sets it to 0, a tick moves it by one.
LEMMA AgeOfCommand ==
    ASSUME CommandPathInv, TickAll
    PROVE  /\ command_age' \in Nat /\ command_age <= command_age'
           /\ command_age' <= command_age + 1
           /\ (CommandTimeout > 0 /\ has_command /\ command_age' <= CommandTimeout)
                => command_age' = command_age + 1
<1>1. command_age \in 0 .. MaxCommandAge /\ MaxCommandAge \in Nat
    BY MaxCommandAgeType DEF CommandPathInv, CmdTypeOK, TypeOK
<1>2. command_age' = IF has_command THEN Older(command_age, MaxCommandAge) ELSE command_age
    BY DEF TickAll, Tick
<1>3. CommandTimeout > 0 => MaxCommandAge = CommandTimeout + 1
    BY DEF MaxCommandAge
<1>4. CommandTimeout \in Int
    BY BridgeAssumption
<1> QED BY <1>1, <1>2, <1>3, <1>4 DEF Older

LEMMA AgeOfHistories ==
    ASSUME CommandPathInv, TickAll
    PROVE  up_for' <= up_for + 1 /\ down_for' <= down_for + 1
<1>1. up_for \in 0 .. MaxUp /\ down_for \in 0 .. MaxDown /\ MaxUp \in Nat /\ MaxDown \in Nat
    BY HistoryBounds DEF CommandPathInv, CmdTypeOK
<1> QED BY <1>1 DEF TickAll, Older

LEMMA StepFresh ==
    ASSUME CommandPathInv, CmdTypeOK', [CmdNext]_cmdVars
    PROVE  CommandFresh'
<1> USE DEF CommandFresh
<1>1. CmdTypeOK /\ CommandFresh /\ HistoriesMatch
    BY DEF CommandPathInv
<1>2. /\ since_plan \in Nat /\ since_plan <= PlanPeriod /\ PlanPeriod \in Nat
      /\ waiting \in Nat /\ up_for \in Nat /\ command_age \in Nat
      /\ UnderWay \in Nat
    BY <1>1, PathTimes
<1>next. UnderWay' \in Nat
    <2>1. since_plan' \in 0 .. PlanPeriod /\ waiting' \in 0 .. TakeDelay
        BY DEF CmdTypeOK
    <2>2. since_plan' \in Nat /\ waiting' \in Nat
        BY <2>1, CommandPathAssumption
    <2>3. \A a, b \in Nat : a + b \in Nat
        OBVIOUS
    <2> QED BY <1>2, <2>2, <2>3 DEF UnderWay
<1>3. ASSUME NEW msg \in JointCommands, PublishPlan(msg) PROVE CommandFresh'
    <2>1. topic' # <<>> /\ waiting' = IF topic = <<>> THEN 0 ELSE waiting
        <3>1. topic \in Seq(JointCommands)
            BY <1>1 DEF CmdTypeOK
        <3>2. PICK queue \in Seq(JointCommands) : topic' = Append(queue, msg)
            <4>1. CASE Len(topic) >= Depth
                <5>1. topic # <<>>
                    BY <3>1, <4>1, CommandPathAssumption
                <5>2. Tail(topic) \in Seq(JointCommands)
                    BY <3>1, <5>1
                <5> QED BY <1>3, <4>1, <5>2 DEF PublishPlan, Queued
            <4>2. CASE ~(Len(topic) >= Depth)
                BY <1>3, <3>1, <4>2 DEF PublishPlan, Queued
            <4> QED BY <4>1, <4>2
        <3> QED BY <1>3, <3>2 DEF PublishPlan
    <2>2. UnderWay' = PlanPeriod + (IF topic = <<>> THEN 0 ELSE waiting)
        BY <2>1 DEF UnderWay
    <2>4. UnderWay <= PlanPeriod + (IF topic = <<>> THEN 0 ELSE waiting)
        BY <1>2 DEF UnderWay
    <2>3. command_age' = command_age /\ up_for' = up_for /\ running' = running
        BY <1>3 DEF PublishPlan, vars
    <2> QED BY <1>1, <1>2, <2>2, <2>3, <2>4
<1>4. CASE Crash
    BY <1>4 DEF Crash
<1>5. CASE Restart
    BY <1>1, <1>2, <1>5, <1>next DEF Restart, HistoriesMatch
<1>6. CASE TakeCommand
    BY <1>next, <1>6 DEF TakeCommand, OnJointCommand
<1>7. CASE LockTimer \/ WriteTimer \/ Measure \/ UNCHANGED cmdVars
    <2>1. /\ command_age' = command_age /\ UNCHANGED <<running, up_for, topic, since_plan, waiting>>
        BY <1>7 DEF LockTimer, OnTimerLocked, WriteTimer, OnTimerWrite, Measure, OnLowState,
                    controllerVars, queueVars, cmdVars, vars
    <2> QED BY <1>1, <2>1 DEF UnderWay
<1>8. CASE TickAll
    <2>1. running' = running /\ topic' = topic
        BY <1>8 DEF TickAll
    <2>2. running => UnderWay' = UnderWay + 1
        BY <1>2, <1>8 DEF TickAll, UnderWay
    <2>3. /\ command_age' \in Nat /\ command_age' <= command_age + 1
          /\ up_for' \in Nat /\ up_for' <= up_for + 1
        BY <1>8, AgeOfCommand, AgeOfHistories DEF CmdTypeOK
    <2> QED BY <1>1, <1>2, <2>1, <2>2, <2>3
<1> QED BY <1>3, <1>4, <1>5, <1>6, <1>7, <1>8 DEF CmdNext

LEMMA StepRunsDry ==
    ASSUME CommandPathInv, CmdTypeOK', [CmdNext]_cmdVars
    PROVE  QueueRunsDry'
<1>1. CmdTypeOK /\ QueueRunsDry /\ HistoriesMatch /\ HistoriesMatch'
    BY StepHistories DEF CommandPathInv
<1> DEFINE AllRoom == Depth * TakeDelay
<1>2. /\ TakeDelay \in Nat /\ Depth \in Nat /\ AllRoom \in Nat
      /\ waiting \in Nat /\ waiting <= TakeDelay
      /\ down_for \in Nat /\ command_age \in Nat
      /\ Len(topic) \in 0 .. Depth
      /\ topic \in Seq(JointCommands)
    <2>1. topic \in Seq(JointCommands)
        BY <1>1 DEF CmdTypeOK
    <2> QED BY <1>1, <2>1, PathTimes
<1>next. /\ waiting' \in Nat /\ down_for' \in Nat /\ command_age' \in Nat
         /\ Len(topic') \in 0 .. Depth
    <2>1. waiting' \in Nat /\ down_for' \in Nat
        BY DEF CmdTypeOK
    <2>2. command_age' \in 0 .. MaxCommandAge
        BY DEF CmdTypeOK, TypeOK
    <2>3. topic' \in Seq(JointCommands) /\ Len(topic') <= Depth
        BY DEF CmdTypeOK
    <2>4. Len(topic') \in Nat
        BY <2>3
    <2> QED BY <1>2, <2>1, <2>2, <2>3, <2>4, MaxCommandAgeType
<1> DEFINE Room(n) == (Depth - n) * TakeDelay
<1>3. \A n \in 0 .. Depth :
        /\ Room(n) \in Nat
        /\ n > 0 => Room(n) + TakeDelay = Room(n - 1)
        /\ n > 0 => Room(n) + TakeDelay <= AllRoom
    BY <1>2, Places
\* The values after the step, as numbers of their own.
<1> DEFINE down == down_for'
           wait == waiting'
           age  == command_age'
           left == Len(topic')
<1>4. SUFFICES ASSUME ~running'
               PROVE  /\ topic' # <<>> => down <= Room(left) + wait
                      /\ (topic' = <<>> /\ CommandTimeout > 0 /\ has_command'
                            /\ age <= CommandTimeout)
                         => down <= AllRoom + age
    BY DEF QueueRunsDry
<1>5. ~running =>
        /\ topic # <<>> => down_for <= Room(Len(topic)) + waiting
        /\ (topic = <<>> /\ CommandTimeout > 0 /\ has_command /\ command_age <= CommandTimeout)
              => down_for <= AllRoom + command_age
    BY <1>1 DEF QueueRunsDry
<1>6. wait \in Nat /\ down \in Nat /\ age \in Nat /\ left \in 0 .. Depth
    BY <1>next
<1> HIDE DEF Room, AllRoom, down, wait, age, left
<1>7. CASE Crash
    <2>1. down = 0
        BY <1>1, <1>7 DEF Crash, HistoriesMatch, down
    <2> QED BY <1>2, <1>3, <1>6, <2>1
<1>8. CASE TakeCommand
    <2>1. ~running /\ down = down_for /\ topic # <<>> /\ topic' = Tail(topic) /\ wait = 0
        BY <1>4, <1>8 DEF TakeCommand, controllerVars, down, wait
    <2>2. Len(topic) > 0 /\ left = Len(topic) - 1
        BY <1>2, <2>1 DEF left
    <2>3. down_for <= Room(Len(topic)) + TakeDelay
        BY <1>2, <1>3, <1>5, <2>1
    <2>4. down <= Room(left) /\ down <= AllRoom
        BY <1>2, <1>3, <2>1, <2>2, <2>3
    <2> QED BY <1>2, <1>3, <1>6, <2>1, <2>4
<1>9. CASE TickAll
    <2>1. ~running /\ topic' = topic /\ left = Len(topic) /\ has_command' = has_command
        BY <1>4, <1>9 DEF TickAll, Tick, commandVars, left
    <2>2. down <= down_for + 1
        BY <1>9, AgeOfHistories DEF down
    <2>3. topic # <<>> => wait = waiting + 1
        BY <1>9 DEF TickAll, wait
    <2>4. /\ (CommandTimeout > 0 /\ has_command /\ age <= CommandTimeout)
               => age = command_age + 1
          /\ CommandTimeout \in Int
        BY <1>9, AgeOfCommand, BridgeAssumption DEF age
    <2>5. CASE topic # <<>>
        BY <1>2, <1>3, <1>5, <1>6, <2>1, <2>2, <2>3, <2>5
    <2>6. CASE topic = <<>>
        BY <1>2, <1>5, <1>6, <2>1, <2>2, <2>4, <2>6
    <2> QED BY <2>5, <2>6
<1>10. CASE LockTimer \/ WriteTimer \/ Measure \/ UNCHANGED cmdVars
    <2>1. UNCHANGED <<running, topic, waiting, down_for, has_command, command_age>>
        BY <1>10 DEF LockTimer, OnTimerLocked, WriteTimer, OnTimerWrite, Measure, OnLowState,
                     controllerVars, queueVars, cmdVars, vars, commandVars
    <2> QED BY <1>4, <1>5, <2>1 DEF down, wait, age, left
<1>11. CASE Restart \/ \E msg \in JointCommands : PublishPlan(msg)
    BY <1>4, <1>11 DEF Restart, PublishPlan
<1> QED BY <1>7, <1>8, <1>9, <1>10, <1>11 DEF CmdNext

\* What the watchdog reads when the mutex is taken.
LEMMA WatchdogReading ==
    ASSUME CommandPathInv, has_command
    PROVE  /\ RoomForOnePlan /\ CommandStale => up_for <= PlanPeriod + TakeDelay
           /\ CommandTimeout > 0 /\ ~CommandStale
                => down_for <= Depth * TakeDelay + CommandTimeout
<1>1. CmdTypeOK /\ CommandFresh /\ QueueRunsDry /\ HistoriesMatch
    BY DEF CommandPathInv
<1>2. RoomForOnePlan /\ CommandStale => up_for <= PlanPeriod + TakeDelay
    <2>1. CASE running
        BY <1>1, <2>1, PathTimes DEF CommandFresh, CommandStale, RoomForOnePlan
    <2>2. CASE ~running
        BY <1>1, <2>2, PathTimes DEF HistoriesMatch
    <2> QED BY <2>1, <2>2
<1>3. ASSUME CommandTimeout > 0, ~CommandStale
      PROVE  down_for <= Depth * TakeDelay + CommandTimeout
    <2> DEFINE AllRoom == Depth * TakeDelay
               room    == (Depth - Len(topic)) * TakeDelay
    <2>1. /\ AllRoom \in Nat /\ CommandTimeout \in Int /\ TakeDelay \in Nat
          /\ down_for \in Nat /\ command_age \in Nat /\ waiting \in Nat /\ waiting <= TakeDelay
          /\ Len(topic) \in 0 .. Depth
        BY <1>1, PathTimes
    <2>2. command_age <= CommandTimeout
        BY <1>3, <2>1 DEF CommandStale
    <2>3. CASE running
        <3>1. down_for = 0
            BY <1>1, <2>3 DEF HistoriesMatch
        <3> HIDE DEF AllRoom
        <3> QED BY <1>3, <2>1, <3>1 DEF AllRoom
    <2>4. CASE ~running /\ topic = <<>>
        <3>1. down_for <= AllRoom + command_age
            BY <1>1, <1>3, <2>2, <2>4 DEF QueueRunsDry
        <3>2. down_for <= AllRoom + CommandTimeout
            <4> HIDE DEF AllRoom
            <4> QED BY <2>1, <2>2, <3>1
        <3> QED BY <3>2
    <2>5. CASE ~running /\ topic # <<>>
        <3>1. Len(topic) > 0
            <4>1. topic \in Seq(JointCommands)
                BY <1>1 DEF CmdTypeOK
            <4> QED BY <2>5, <4>1
        <3>2. room \in Nat /\ room + TakeDelay <= AllRoom
            BY <2>1, <3>1, Places
        <3>3. down_for <= room + waiting
            BY <1>1, <2>5 DEF QueueRunsDry
        <3>4. down_for <= AllRoom + CommandTimeout
            <4> HIDE DEF AllRoom, room
            <4> QED BY <1>3, <2>1, <3>2, <3>3
        <3> QED BY <3>4
    <2> QED BY <2>3, <2>4, <2>5
<1> QED BY <1>2, <1>3

LEMMA StepWrites ==
    ASSUME CommandPathInv, BridgeInv, [CmdNext]_cmdVars
    PROVE  WritesGoOn'
<1>1. WritesGoOn /\ (InTimer => has_lowstate) /\ [Next]_vars
    BY StepIsBridgeStep DEF CommandPathInv, BridgeInv, SnapCurrent
<1> USE DEF WritesGoOn
<1>2. ASSUME NEW state \in LowStates, OnLowState(state) PROVE WritesGoOn'
    BY <1>2 DEF OnLowState
<1>3. ASSUME NEW msg \in JointCommands, OnJointCommand(msg) PROVE WritesGoOn'
    BY <1>1, <1>3 DEF OnJointCommand, lowstateVars, outVars
<1>4. CASE OnTimerLocked
    BY <1>1, <1>4 DEF OnTimerLocked, lowstateVars, outVars
<1>5. CASE OnTimerWrite
    BY <1>1, <1>5 DEF OnTimerWrite, lowstateVars
<1>6. CASE Tick
    BY <1>1, <1>6 DEF Tick, lowstateVars, outVars
<1>7. CASE UNCHANGED vars
    BY <1>1, <1>7 DEF vars, lowstateVars, outVars
<1> QED BY <1>1, <1>2, <1>3, <1>4, <1>5, <1>6, <1>7 DEF Next

LEMMA StepTimely ==
    ASSUME CommandPathInv, BridgeInv, CmdTypeOK', [CmdNext]_cmdVars
    PROVE  WatchdogTimely'
<1> DEFINE Reach   == PlanPeriod + TakeDelay
           Reach2  == Depth * TakeDelay + CommandTimeout
           up      == up_for'
           down    == down_for'
           since   == since_timer'
           written == LastWriteAge'
<1>1. WatchdogTimely /\ CmdTypeOK /\ HistoriesMatch /\ WritesGoOn
    BY DEF CommandPathInv
<1>2. /\ Reach \in Nat /\ Reach2 \in Int /\ (CommandTimeout > 0 => Reach2 \in Nat)
      /\ TimerPeriod \in Nat /\ since_timer \in Nat /\ since_timer <= TimerPeriod
      /\ up_for \in Nat /\ down_for \in Nat
    BY <1>1, PathTimes
<1>3. LastWriteAge \in Nat
    BY <1>2 DEF LastWriteAge
<1>4. up \in Nat /\ down \in Nat /\ since \in Nat
    BY CommandPathAssumption DEF CmdTypeOK
<1>5. written \in Nat
    <2>1. \A a, b \in Nat : a + b \in Nat
        OBVIOUS
    <2> QED BY <1>2, <1>4, <2>1 DEF LastWriteAge
<1>6. SUFFICES
        /\ RoomForOnePlan =>
            /\ InTimer' /\ snap'.have_command /\ snap'.command_stale => up <= Reach + since
            /\ sent'.phase = "drive" /\ low_cmd'.kd # Kd => up <= Reach + written
        /\ CommandTimeout > 0 =>
            /\ InTimer' /\ ~snap'.command_stale => down <= Reach2 + since
            /\ sent'.phase # "silent" /\ low_cmd'.kd # DampedKd => down <= Reach2 + written
    BY DEF WatchdogTimely
<1>7. /\ RoomForOnePlan =>
          /\ InTimer /\ snap.have_command /\ snap.command_stale => up_for <= Reach + since_timer
          /\ sent.phase = "drive" /\ low_cmd.kd # Kd => up_for <= Reach + LastWriteAge
      /\ CommandTimeout > 0 =>
          /\ InTimer /\ ~snap.command_stale => down_for <= Reach2 + since_timer
          /\ sent.phase # "silent" /\ low_cmd.kd # DampedKd => down_for <= Reach2 + LastWriteAge
    BY <1>1 DEF WatchdogTimely
<1>8. CASE LockTimer
    <2>1. /\ ~InTimer /\ up = up_for /\ down = down_for /\ since = 0
          /\ UNCHANGED <<sent, low_cmd, has_lowstate>>
        BY <1>8 DEF LockTimer, OnTimerLocked, controllerVars, outVars, lowstateVars
    <2>2. LastWriteAge = since_timer
        BY <2>1 DEF LastWriteAge
    <2>3. CASE has_lowstate
        <3>1. /\ InTimer' /\ snap'.have_command = has_command
              /\ snap'.command_stale = CommandStale
            BY <1>8, <2>3 DEF LockTimer, OnTimerLocked, InTimer
        <3>2. written = TimerPeriod
            BY <1>2, <2>1, <3>1 DEF LastWriteAge
        <3>3. has_command => /\ RoomForOnePlan /\ CommandStale => up_for <= Reach
                             /\ CommandTimeout > 0 /\ ~CommandStale => down_for <= Reach2
            BY WatchdogReading
        <3>4. ~has_command => CommandStale
            BY DEF CommandStale
        <3> HIDE DEF Reach, Reach2, up, down, since, written
        <3> QED BY <1>2, <1>4, <1>5, <1>7, <2>1, <2>2, <3>1, <3>2, <3>3, <3>4
    <2>4. CASE ~has_lowstate
        <3>1. ~InTimer' /\ sent.phase = "silent"
            BY <1>1, <1>8, <2>4 DEF LockTimer, OnTimerLocked, InTimer, NullSnap, WritesGoOn
        <3> QED BY <2>1, <3>1
    <2> QED BY <2>3, <2>4
<1>9. CASE WriteTimer
    <2>1. /\ InTimer /\ ~InTimer' /\ up = up_for /\ down = down_for /\ since = since_timer
        BY <1>9 DEF WriteTimer, OnTimerWrite, controllerVars, InTimer, NullSnap
    <2>2. written = since
        BY <2>1 DEF LastWriteAge
    <2>3. /\ low_cmd'.kd = IF snap.command_stale THEN DampedKd ELSE Kd
          /\ snap.have_command \/ sent'.phase = "hold"
        BY <1>9 DEF WriteTimer, OnTimerWrite
    <2> HIDE DEF Reach, Reach2, up, down, since, written
    <2> QED BY <1>2, <1>7, <2>1, <2>2, <2>3
<1>10. CASE TickAll
    <2>1. UNCHANGED <<snap, sent, low_cmd>> /\ since = since_timer + 1
        BY <1>10 DEF TickAll, Tick, outVars
    <2>2. up <= up_for + 1 /\ down <= down_for + 1
        BY <1>10, AgeOfHistories
    <2>3. written = LastWriteAge + 1 /\ InTimer' = InTimer
        BY <1>2, <2>1 DEF LastWriteAge, InTimer
    <2> HIDE DEF Reach, Reach2, up, down, since, written
    <2> QED BY <1>2, <1>3, <1>4, <1>7, <2>1, <2>2, <2>3
<1>11. CASE Crash \/ Restart \/ TakeCommand \/ Measure \/ UNCHANGED cmdVars
            \/ \E msg \in JointCommands : PublishPlan(msg)
    <2>1. UNCHANGED <<snap, sent, low_cmd>> /\ since = since_timer
        BY <1>11 DEF Crash, Restart, TakeCommand, OnJointCommand, Measure, OnLowState,
                     PublishPlan, cmdVars, vars, outVars
    <2>2. (up = up_for \/ up = 0) /\ (down = down_for \/ down = 0)
        BY <1>11 DEF Crash, Restart, TakeCommand, Measure, PublishPlan, cmdVars, controllerVars
    <2>3. written = LastWriteAge /\ InTimer' = InTimer
        BY <2>1 DEF LastWriteAge, InTimer
    <2> HIDE DEF Reach, Reach2, up, down, since, written
    <2> QED BY <1>2, <1>3, <1>4, <1>7, <2>1, <2>2, <2>3
<1> QED BY <1>8, <1>9, <1>10, <1>11 DEF CmdNext

-----------------------------------------------------------------------------
\* The controller's crashes and the queue leave the bridge a bridge: every
\* theorem about Spec holds on the path, whatever the deadlines.
THEOREM PathIsBridge == CmdSpec => Spec /\ []CommandPathInv
<1>1. CmdInit => Init /\ TypeOK /\ BridgeInv /\ CommandPathInv
    BY TypeInit, BridgeInvInit, CommandPathInit DEF CmdInit
<1>2. TypeOK /\ BridgeInv /\ CommandPathInv /\ [CmdNext]_cmdVars
        => [Next]_vars /\ TypeOK' /\ BridgeInv' /\ CommandPathInv'
    <2> SUFFICES ASSUME TypeOK, BridgeInv, CommandPathInv, [CmdNext]_cmdVars
                 PROVE  [Next]_vars /\ TypeOK' /\ BridgeInv' /\ CommandPathInv'
        OBVIOUS
    <2>1. [Next]_vars
        BY StepIsBridgeStep DEF CommandPathInv
    <2>2. TypeOK' /\ BridgeInv'
        BY <2>1, TypeNext, BridgeInvNext
    <2>3. CmdTypeOK'
        BY <2>2, StepTypes
    <2> QED BY <2>1, <2>2, <2>3, StepFresh, StepRunsDry, StepTimely, StepHistories, StepWrites
            DEF CommandPathInv
<1> QED BY <1>1, <1>2, PTL DEF CmdSpec, Spec

\* Every variable of the path keeps its type, and the queue its depth.
COROLLARY PathTypeCorrect == CmdSpec => []CmdTypeOK
<1>1. CommandPathInv => CmdTypeOK
    BY DEF CommandPathInv
<1> QED BY <1>1, PathIsBridge, PTL

\* For any periods and delays that leave room for one plan, and for crashes at
\* any time, a running controller never trips the watchdog.
THEOREM NoAlarmIsFalse == CmdSpec => []NoFalseAlarm
<1>1. CommandPathInv => NoFalseAlarm
    <2> SUFFICES ASSUME CommandPathInv, RoomForOnePlan, up_for > QuietAfter,
                        sent.phase = "drive", low_cmd.kd # Kd
                 PROVE  FALSE
        BY DEF NoFalseAlarm
    <2>1. up_for <= PlanPeriod + TakeDelay + LastWriteAge
        BY DEF CommandPathInv, WatchdogTimely
    <2> QED BY <2>1, PathTimes DEF CommandPathInv, QuietAfter, LastWriteAge
<1> QED BY <1>1, PathIsBridge, PTL

\* For any queue, periods and delays, the motors of a controller that has died
\* are damped when its last commands and the timeout are used up.
THEOREM DeathsAreNoticed == CmdSpec => []DeathIsNoticed
<1>1. CommandPathInv => DeathIsNoticed
    <2> SUFFICES ASSUME CommandPathInv, CommandTimeout > 0, down_for > DampedAfter,
                        sent.phase # "silent", low_cmd.kd # DampedKd
                 PROVE  FALSE
        BY DEF DeathIsNoticed
    <2> DEFINE AllRoom == Depth * TakeDelay
    <2>1. down_for <= AllRoom + CommandTimeout + LastWriteAge
        BY DEF CommandPathInv, WatchdogTimely
    <2>2. down_for > AllRoom + CommandTimeout + 2 * TimerPeriod
        BY DEF DampedAfter
    <2>3. /\ AllRoom \in Nat /\ TimerPeriod \in Nat /\ since_timer \in Nat
          /\ since_timer <= TimerPeriod /\ CommandTimeout \in Int /\ down_for \in Nat
        BY PathTimes DEF CommandPathInv
    <2> HIDE DEF AllRoom
    <2> QED BY <2>1, <2>2, <2>3 DEF LastWriteAge
<1> QED BY <1>1, PathIsBridge, PTL

-----------------------------------------------------------------------------
(* The path of measurements *)

\* The subscriber, with what is proved of it.
Sdk == INSTANCE DdsReaderListenerProofs WITH MaxSamples <- Len(LowStateTopic)

\* What was measured last is the sample handled last; what is published, and
\* what a timer is about to publish, are no newer than that, in this order.
MeasurementsNested ==
    /\ Measurement(measured_q, foot_force) = MeasurementOf(handled)
    /\ \E p \in 0 .. handled :
        /\ published = MeasurementOf(p)
        /\ InTimer => \E s \in p .. handled : SnapMeasurement = MeasurementOf(s)

LowStatePathInv ==
    /\ Sdk!ListenerInv
    /\ rlsnr = "call" => dataPtr # 0
    /\ MeasurementsNested

LEMMA SubscriberAssumption == Sdk!ListenerAssumption
BY PathAssumption DEF Sdk!ListenerAssumption

\* The types and the order that the subscriber's invariant gives.
LEMMA SubscriberFacts ==
    ASSUME Sdk!ListenerInv
    PROVE  /\ Len(LowStateTopic) \in Nat
           /\ mQueue \in Seq(1 .. Len(LowStateTopic))
           /\ handled \in Nat /\ dataPtr \in Nat /\ arrived \in Nat
           /\ handled <= dataPtr /\ dataPtr <= arrived /\ arrived <= Len(LowStateTopic)
<1>1. /\ Len(LowStateTopic) \in Nat
      /\ mQueue \in Seq(1 .. Len(LowStateTopic))
      /\ arrived \in 0 .. Len(LowStateTopic)
      /\ dataPtr \in 0 .. Len(LowStateTopic)
      /\ handled \in 0 .. Len(LowStateTopic)
      /\ handled <= dataPtr
      /\ dataPtr <= arrived - Len(mQueue)
  BY PathAssumption DEF Sdk!ListenerInv, Sdk!TypeOK, Sdk!NewestInOrder
<1>2. Len(mQueue) \in Nat
  BY <1>1
<1> QED
  BY <1>1, <1>2

\* Every step of the path is one of the subscriber.
LEMMA StepIsSdkStep ==
    ASSUME [PNext]_pathVars
    PROVE  [Sdk!Next]_(Sdk!listenerVars)
<1>1. CASE Handler
  BY <1>1 DEF Handler, Listener!CallHandler, Sdk!CallHandler, Sdk!Next, Sdk!QueueThread
<1>2. CASE SdkThread
  BY <1>2 DEF SdkThread, Sdk!Next, Sdk!QueueThread,
     Listener!TestQuit, Listener!Get, Listener!GetAfterWait, Listener!Take, Listener!Front,
     Listener!StaysAt, Listener!historyVars,
     Sdk!TestQuit, Sdk!Get, Sdk!GetAfterWait, Sdk!Take, Sdk!Front, Sdk!StaysAt, Sdk!historyVars
<1>3. CASE SdkEnvironment
  <2>1. CASE Listener!Put
    BY <2>1 DEF Sdk!Next, Listener!Put, Listener!Enqueue, Listener!PushOut, Listener!Notify,
       Sdk!Put, Sdk!Enqueue, Sdk!PushOut, Sdk!Notify
  <2>2. CASE Listener!WakeForNoReason
    BY <2>2 DEF Sdk!Next, Listener!WakeForNoReason, Listener!StaysAt, Listener!historyVars,
       Sdk!WakeForNoReason, Sdk!StaysAt, Sdk!historyVars
  <2>3. CASE Listener!DropNative
    BY <2>3 DEF Sdk!Next, Listener!DropNative, Listener!threadVars, Listener!historyVars,
       Sdk!DropNative, Sdk!threadVars, Sdk!historyVars
  <2>4. CASE Listener!Destructor
    BY <2>4 DEF Sdk!Next, Sdk!Destructor, Listener!Destructor,
       Listener!SetQuit, Listener!Interrupt, Listener!Join, Listener!Joined, Listener!Notify,
       Listener!threadVars, Listener!historyVars,
       Sdk!SetQuit, Sdk!Interrupt, Sdk!Join, Sdk!Joined, Sdk!Notify,
       Sdk!threadVars, Sdk!historyVars
  <2> QED
    BY <1>3, <2>1, <2>2, <2>3, <2>4 DEF SdkEnvironment
<1>4. CASE UNCHANGED listenerVars
  BY <1>4 DEF listenerVars, Sdk!listenerVars, Sdk!threadVars, Sdk!historyVars
<1> QED
  BY <1>1, <1>2, <1>3, <1>4 DEF PNext, Executor, Clock, pathVars

LEMMA InitLowStatePath == PInit => LowStatePathInv
<1> SUFFICES ASSUME PInit PROVE LowStatePathInv
  OBVIOUS
<1>1. Sdk!Init
  BY DEF PInit, Listener!Init, Sdk!Init
<1>2. Sdk!ListenerInv
  BY <1>1, SubscriberAssumption, Sdk!InitListenerInv
<1>3. handled = 0 /\ rlsnr = "test"
  BY DEF PInit, Listener!Init
<1>4. MeasurementsNested
  BY <1>3 DEF PInit, Init, InTimer, NullSnap, MeasurementsNested, MeasurementOf
<1> QED
  BY <1>2, <1>3, <1>4 DEF LowStatePathInv

\* No step but the handler's call touches what it was called with.
LEMMA SampleOfCall ==
    ASSUME LowStatePathInv, [PNext]_pathVars
    PROVE  rlsnr' = "call" => dataPtr' # 0
<1> SUFFICES ASSUME rlsnr' = "call" PROVE dataPtr' # 0
  OBVIOUS
<1>1. CASE Handler
  BY <1>1 DEF Handler, Listener!CallHandler
<1>2. CASE Listener!Take
  <2>1. mQueue \in Seq(1 .. Len(LowStateTopic)) /\ mQueue # <<>>
    BY <1>2, SubscriberFacts DEF LowStatePathInv, Listener!Take
  <2>2. Head(mQueue) \in 1 .. Len(LowStateTopic) /\ dataPtr' = Head(mQueue)
    BY <1>2, <2>1 DEF Listener!Take, Listener!Front
  <2> QED
    BY <2>2
<1>3. CASE dataPtr' = dataPtr /\ rlsnr = "call"
  BY <1>3 DEF LowStatePathInv
<1>4. CASE SdkThread
  BY <1>2, <1>4 DEF SdkThread, Listener!TestQuit, Listener!Get, Listener!GetAfterWait,
     Listener!StaysAt
<1>5. CASE SdkEnvironment
  BY <1>3, <1>5 DEF SdkEnvironment, Listener!Put, Listener!Notify, Listener!WakeForNoReason,
     Listener!StaysAt, Listener!DropNative, Listener!threadVars, Listener!Destructor,
     Listener!SetQuit, Listener!Interrupt, Listener!Join
<1>6. CASE UNCHANGED listenerVars
  BY <1>3, <1>6 DEF listenerVars
<1> QED
  BY <1>1, <1>4, <1>5, <1>6 DEF PNext, Executor, Clock, pathVars

LEMMA StepNested ==
    ASSUME LowStatePathInv, [PNext]_pathVars
    PROVE  MeasurementsNested'
<1> USE SubscriberFacts
<1>1. PICK p \in 0 .. handled :
        /\ published = MeasurementOf(p)
        /\ InTimer => \E s \in p .. handled : SnapMeasurement = MeasurementOf(s)
  BY DEF LowStatePathInv, MeasurementsNested
<1>2. Measurement(measured_q, foot_force) = MeasurementOf(handled)
  BY DEF LowStatePathInv, MeasurementsNested
<1>3. handled \in Nat /\ dataPtr \in Nat /\ handled <= dataPtr
  BY DEF LowStatePathInv
<1>4. CASE Handler
  <2>1. handled' = dataPtr /\ dataPtr # 0
    BY <1>4 DEF Handler, Listener!CallHandler, LowStatePathInv
  <2>2. measured_q' = LowStateTopic[dataPtr].q /\ foot_force' = LowStateTopic[dataPtr].force
    BY <1>4 DEF Handler, OnLowState
  <2>3. UNCHANGED <<snap, published>>
    BY <1>4 DEF Handler, OnLowState, outVars
  <2>4. Measurement(measured_q, foot_force)' = MeasurementOf(dataPtr)
    BY <2>1, <2>2 DEF Measurement, MeasurementOf
  <2>5. p \in 0 .. dataPtr /\ \A s \in p .. handled : s \in p .. dataPtr
    BY <1>1, <1>3
  <2>6. InTimer' => \E s \in p .. dataPtr : SnapMeasurement' = MeasurementOf(s)
    BY <1>1, <2>3, <2>5 DEF InTimer, SnapMeasurement
  <2> QED
    BY <1>1, <2>1, <2>3, <2>4, <2>5, <2>6 DEF MeasurementsNested
<1>5. CASE UNCHANGED <<handled, measured_q, foot_force, snap, published>>
  BY <1>1, <1>2, <1>5 DEF MeasurementsNested, InTimer, SnapMeasurement, Measurement, Contacts
<1>6. CASE SdkThread \/ SdkEnvironment
  <2>1. UNCHANGED vars
    BY <1>6 DEF SdkThread, SdkEnvironment
  <2>2. handled' = handled
    BY <1>6 DEF SdkThread, SdkEnvironment, Listener!TestQuit, Listener!Get, Listener!GetAfterWait,
       Listener!Take, Listener!StaysAt, Listener!historyVars, Listener!Put,
       Listener!WakeForNoReason, Listener!DropNative, Listener!Destructor, Listener!SetQuit,
       Listener!Interrupt, Listener!Join
  <2> QED
    BY <1>5, <2>1, <2>2 DEF vars, lowstateVars, outVars
<1>7. CASE Executor
  <2>1. handled' = handled
    BY <1>7 DEF Executor, listenerVars
  <2>2. CASE \E msg \in JointCommands : OnJointCommand(msg)
    BY <1>5, <2>1, <2>2 DEF OnJointCommand, lowstateVars, outVars
  <2>3. CASE OnTimerLocked
    <3>1. UNCHANGED <<measured_q, foot_force, published>>
      BY <2>3 DEF OnTimerLocked, lowstateVars, outVars
    <3>2. InTimer' => snap'.measured = measured_q /\ snap'.force = foot_force
      BY <2>3 DEF OnTimerLocked, InTimer, NullSnap
    <3>3. InTimer' => SnapMeasurement' = MeasurementOf(handled)
      BY <1>2, <3>2 DEF SnapMeasurement, Measurement
    <3>4. handled \in p .. handled
      BY <1>1, <1>3
    <3> QED
      BY <1>1, <1>2, <2>1, <3>1, <3>3, <3>4 DEF MeasurementsNested, Measurement, Contacts
  <2>4. CASE OnTimerWrite
    <3>1. UNCHANGED <<measured_q, foot_force>> /\ published' = SnapMeasurement /\ ~InTimer'
      BY <2>4 DEF OnTimerWrite, lowstateVars, InTimer, NullSnap
    <3>2. PICK s \in p .. handled : SnapMeasurement = MeasurementOf(s)
      BY <1>1, <2>4 DEF OnTimerWrite
    <3>3. s \in 0 .. handled
      BY <1>1, <1>3
    <3> QED
      BY <1>2, <2>1, <3>1, <3>2, <3>3 DEF MeasurementsNested, Measurement, Contacts
  <2> QED
    BY <1>7, <2>2, <2>3, <2>4 DEF Executor
<1>8. CASE Clock
  BY <1>5, <1>8 DEF Clock, Tick, listenerVars, lowstateVars, outVars
<1>9. CASE UNCHANGED pathVars
  BY <1>5, <1>9 DEF pathVars, listenerVars, vars, lowstateVars, outVars
<1> QED
  BY <1>4, <1>6, <1>7, <1>8, <1>9 DEF PNext

\* The subscriber and the bridge keep the order together.
THEOREM LowStatePathInvariant == PSpec => []LowStatePathInv
<1>1. LowStatePathInv /\ [PNext]_pathVars => LowStatePathInv'
  <2> SUFFICES ASSUME LowStatePathInv, [PNext]_pathVars PROVE LowStatePathInv'
    OBVIOUS
  <2>1. Sdk!ListenerInv'
    BY StepIsSdkStep, SubscriberAssumption, Sdk!NextListenerInv DEF LowStatePathInv
  <2> QED
    BY <2>1, SampleOfCall, StepNested DEF LowStatePathInv
<1> QED
  BY <1>1, InitLowStatePath, PTL DEF PSpec

\* While the bridge handles them and the node comes to its end, the samples
\* of the subscriber stay in order, for a queue of any length.
COROLLARY PathSamplesInOrder == PSpec => []NewestInOrder
<1>1. LowStatePathInv => NewestInOrder
  BY DEF LowStatePathInv, NewestInOrder, Sdk!ListenerInv, Sdk!NewestInOrder, Listener!NewestInOrder
<1> QED
  BY <1>1, LowStatePathInvariant, PTL

\* The subscriber is still the channel of LatestChannel when its handler is the
\* bridge and its destructor the end of the node: no sample twice, out of order
\* or from behind the newest, and none once the thread is joined (safety).
THEOREM PathImplementsChannel == PSpec => Sdk!Channel!Spec
<1>1. PInit => Sdk!Channel!Init
  BY DEF PInit, Listener!Init, Sdk!Channel!Init
<1>2. LowStatePathInv /\ [PNext]_pathVars => [Sdk!Channel!Next]_(Sdk!Channel!channelVars)
  BY StepIsSdkStep, SubscriberAssumption, Sdk!StepImplements DEF LowStatePathInv
<1> QED
  BY <1>1, <1>2, LowStatePathInvariant, PTL DEF PSpec, Sdk!Channel!Spec

\* The handler is called with LowStates of the topic only, so that the path
\* is the bridge and what is proved of the bridge holds of it.
THEOREM LowStatePathIsBridge == PSpec => Spec
<1>1. PInit => Init
  BY DEF PInit
<1>2. LowStatePathInv /\ [PNext]_pathVars => [Next]_vars
  <2> SUFFICES ASSUME LowStatePathInv, [PNext]_pathVars PROVE [Next]_vars
    OBVIOUS
  <2>1. CASE Handler
    <3>1. dataPtr \in 1 .. Len(LowStateTopic)
      BY <2>1, SubscriberFacts DEF Handler, Listener!CallHandler, LowStatePathInv
    <3>2. LowStateTopic[dataPtr] \in LowStates
      BY <3>1, PathAssumption
    <3> QED
      BY <2>1, <3>2 DEF Handler, Next
  <2>2. CASE SdkThread \/ SdkEnvironment \/ UNCHANGED pathVars
    BY <2>2 DEF SdkThread, SdkEnvironment, pathVars
  <2>3. CASE Executor \/ Clock
    BY <2>3 DEF Executor, Clock, Next
  <2> QED
    BY <2>1, <2>2, <2>3 DEF PNext
<1> QED
  BY <1>1, <1>2, LowStatePathInvariant, PTL DEF PSpec, Spec

LEMMA SamplesAccumulate ==
    ASSUME PNext, arrived \in Nat
    PROVE  arrived' \in Nat /\ arrived <= arrived'
<1>1. arrived' = arrived \/ arrived' = arrived + 1
  BY DEF PNext, Handler, Listener!CallHandler, SdkThread, SdkEnvironment, Executor, Clock,
     listenerVars, Listener!TestQuit, Listener!Get, Listener!GetAfterWait, Listener!Take,
     Listener!StaysAt, Listener!historyVars, Listener!Put, Listener!WakeForNoReason,
     Listener!DropNative, Listener!Destructor, Listener!SetQuit, Listener!Interrupt, Listener!Join
<1> QED
  BY <1>1

\* joint_states never goes back in time, for any topic and any queue.
THEOREM JointStatesInOrder == PSpec => MeasurementsInOrder
<1> DEFINE InOrder == \A n \in SamplesPublished : \E k \in SamplesPublished' : k >= n
<1>1. LowStatePathInv /\ LowStatePathInv' /\ [PNext]_pathVars => [InOrder]_pathVars
  <2> SUFFICES ASSUME LowStatePathInv, LowStatePathInv', PNext, NEW n \in SamplesPublished
               PROVE  \E k \in SamplesPublished' : k >= n
    OBVIOUS
  <2>1. PICK p \in 0 .. handled :
          /\ published = MeasurementOf(p)
          /\ InTimer => \E s \in p .. handled : SnapMeasurement = MeasurementOf(s)
    BY DEF LowStatePathInv, MeasurementsNested
  <2>2. n = p
    BY <2>1, SubscriberFacts, DistinctAssumption DEF SamplesPublished, LowStatePathInv
  <2>3. handled \in Nat /\ arrived \in Nat /\ handled <= arrived
    BY SubscriberFacts DEF LowStatePathInv
  <2>4. arrived' \in Nat /\ arrived <= arrived'
    BY <2>3, SamplesAccumulate
  <2>5. CASE published' = published
    <3>1. n \in SamplesPublished'
      BY <2>1, <2>2, <2>3, <2>4, <2>5 DEF SamplesPublished
    <3> QED
      BY <2>1, <2>2, <3>1
  <2>6. CASE Executor /\ OnTimerWrite
    <3>1. PICK s \in p .. handled : SnapMeasurement = MeasurementOf(s)
      BY <2>1, <2>6 DEF OnTimerWrite
    <3>2. published' = MeasurementOf(s)
      BY <2>6, <3>1 DEF OnTimerWrite
    <3>3. s \in 0 .. arrived' /\ s >= p
      BY <2>1, <2>3, <2>4, <3>1
    <3>4. s \in SamplesPublished'
      BY <3>2, <3>3 DEF SamplesPublished
    <3> QED
      BY <2>2, <3>3, <3>4
  <2>7. published' = published \/ (Executor /\ OnTimerWrite)
    BY DEF PNext, Handler, OnLowState, SdkThread, SdkEnvironment, Executor, Clock, Tick,
       OnJointCommand, OnTimerLocked, vars, outVars
  <2> QED
    BY <2>5, <2>6, <2>7
<1> QED
  BY <1>1, LowStatePathInvariant, PTL DEF PSpec, MeasurementsInOrder
=============================================================================
