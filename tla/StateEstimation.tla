--------------------------- MODULE StateEstimation ---------------------------
(***************************************************************************)
(* The node of src/state_estimation.cpp with champ/odometry: the velocity  *)
(* of the base from how the feet in contact moved between two timers, the  *)
(* pose integrated from it, and the footprint below the feet in contact.   *)
(* One executor thread runs both callbacks and both timers.                *)
(*                                                                         *)
(* A foot is a number, one of its coordinates: x, y and the heading are    *)
(* computed alike.  A foot with a joint that is NaN or infinite is NaN: so *)
(* is the heading it gives, with which x and y are lost as well.           *)
(* Velocities are whole numbers of 1/Scale of a place per *)
(* tick.  Both saved times are those of the last timer, so that a timer is *)
(* given the intervals since then, each from its own reading of the clock: *)
(* negative when the clock was set back.                                   *)
(***************************************************************************)
EXTENDS FloatNumbers, FiniteSets

CONSTANTS
    Samples,       \* what the synchroniser may deliver: [foot, contact]
    PreUrdfFeet,   \* foot_from_base before the URDF is loaded
    ZeroJointFeet, \* foot_from_base with every joint at zero, the URDF loaded
    Intervals,     \* what the clock may show since the last timer
    TimeModulus,   \* 2^64 microseconds
    DefaultDt,     \* 0.02 s
    Scale,
    OrientationFromImu,  \* orientation_from_imu_
    \* What is known of the above, for the bounds on the velocity.
    StrideSpan,    \* how far apart two samples may have a foot
    KnownSpan,     \* the same with the feet from before the first sample
    ShortestDt     \* the shortest interval that is divided by

\* Legs in the order of base_.legs: LF, RF, LH, RH.
Legs == 0 .. 3
\* Legs are not endless: no foot is infinitely far away.
Places == [Legs -> Int \cup {NaN}]

\* time_now - prev_time_ is unsigned, and 0 is replaced.
Dt(interval) ==
    IF interval = 0 THEN DefaultDt
    ELSE IF interval > 0 THEN interval ELSE interval + TimeModulus

ASSUME EstimationAssumption ==
    /\ Samples \subseteq [foot : Places, contact : SUBSET Legs]
    /\ PreUrdfFeet \in [Legs -> Int]
    /\ ZeroJointFeet \in [Legs -> Int]
    /\ TimeModulus \in Nat
    /\ Intervals \subseteq Int
    /\ \A i \in Intervals : -TimeModulus < i /\ i < TimeModulus
    /\ DefaultDt \in Nat \ {0}
    /\ Scale \in Nat \ {0}
    /\ OrientationFromImu \in BOOLEAN

Abs(n) == IF n < 0 THEN -n ELSE n

MeasuredFeet == {s.foot : s \in Samples}
KnownFeet == {PreUrdfFeet, ZeroJointFeet} \cup MeasuredFeet

Within(span, feet) ==
    \A f, g \in feet, l \in Legs : {f[l], g[l]} \subseteq Int => Abs(f[l] - g[l]) <= span

ASSUME BoundsAssumption ==
    /\ StrideSpan \in Nat
    /\ Within(StrideSpan, MeasuredFeet)
    /\ KnownSpan \in Nat
    /\ Within(KnownSpan, KnownFeet)
    /\ ShortestDt \in Nat \ {0}
    /\ \A i \in Intervals : Dt(i) >= ShortestDt

VARIABLES
    foot,       \* foot_from_base of the four legs
    contact,    \* the legs with in_contact_
    prev_foot,  \* prev_foot_position_
    vel,        \* current_velocities_, which is also prev_vel_
    pose_step,  \* what the last timer added to x_pos_
    has_imu,    \* last_imu_ != nullptr
    footprint,  \* how the last base_to_footprint_pose was computed
    stood       \* history: a timer saw a measured robot stand on all feet,
                \* and neither that one nor one since saw a foot that was NaN

estimationVars == <<foot, contact, prev_foot, vel, pose_step, has_imu, footprint, stood>>

-----------------------------------------------------------------------------
AllFeetInContact == contact = Legs
NoFootInContact == contact = {}

\* The two feet of a side, of an axle, and of a diagonal.
Sides == {{0, 2}, {1, 3}}
Axles == {{0, 1}, {2, 3}}

NoFootprint == [kind |-> "none", feet |-> {}, up |-> "level"]

\* The constructor makes the odometry before it loads the URDF.
Init ==
    /\ foot = ZeroJointFeet
    /\ contact = Legs
    /\ prev_foot = PreUrdfFeet
    /\ vel = 0
    /\ pose_step = 0
    /\ has_imu = FALSE
    /\ footprint = NoFootprint
    /\ stood = FALSE

\* Joint states and contacts, paired by approximate time.
SynchronizedCallback(sample) ==
    /\ foot' = sample.foot
    /\ contact' = sample.contact
    /\ UNCHANGED <<prev_foot, vel, pose_step, has_imu, footprint, stood>>

\* Subscribed to only with orientation_from_imu.
ImuCallback ==
    /\ OrientationFromImu
    /\ has_imu' = TRUE
    /\ UNCHANGED <<foot, contact, prev_foot, vel, pose_step, footprint, stood>>

-----------------------------------------------------------------------------
(* Odometry::getVelocities *)

\* C++ division rounds towards zero.
Quotient(a, b) == IF a >= 0 THEN a \div b ELSE -((-a) \div b)

\* NaN in a foot in contact, or left in prev_vel_, makes every sum NaN.
Compared == vel # NaN /\ \A l \in contact : {prev_foot[l], foot[l]} \subseteq Int

Moved(l) == IF l \in contact THEN prev_foot[l] - foot[l] ELSE 0

\* Each foot in contact counts half: two stand during a trot.
FeetMoved == Moved(0) + Moved(1) + Moved(2) + Moved(3)

RawVelocity(interval) == Quotient(Scale * FeetMoved, 2 * Dt(interval))

Unfiltered(interval) == vel + RawVelocity(interval)

FilteredOnMotion(interval) ==
    IF FeetMoved = 0 THEN vel ELSE Quotient(9 * RawVelocity(interval) + vel, 10)

\* beta_ is 0.1.
Filtered(interval) == Quotient(9 * RawVelocity(interval) + vel, 10)

SnapshotSkipped == IF AllFeetInContact \/ NoFootInContact THEN prev_foot ELSE foot

\* The feet are remembered on every branch.
Snapshot == foot

Reset == AllFeetInContact \/ NoFootInContact

GetVelocities(interval) ==
    /\ prev_foot' = Snapshot
    /\ \/ Reset /\ vel' = 0
       \/ ~Reset /\ Compared /\ vel' = Filtered(interval)
       \/ ~Reset /\ ~Compared /\ vel' = NaN

\* The velocity is over the first reading of the clock, the pose over the second.
\* A heading_ that is NaN stays so, and makes every later step NaN.
PublishFootprintToOdom(interval, vel_interval) ==
    /\ GetVelocities(interval)
    /\ pose_step' = IF NaN \in {pose_step, vel'} THEN NaN ELSE vel' * vel_interval
    /\ stood' = /\ foot \in [Legs -> Int]
                /\ stood \/ (AllFeetInContact /\ foot \in MeasuredFeet)
    /\ UNCHANGED <<foot, contact, has_imu, footprint>>

OdomTimer == \E i, j \in Intervals : PublishFootprintToOdom(i, j)

-----------------------------------------------------------------------------
(* publishBaseToFootprint_ *)

\* With no foot in contact all four are taken, as if the robot stood.
TouchingFeetNone == contact

TouchingFeet == IF NoFootInContact THEN Legs ELSE contact

Kind ==
    IF Cardinality(TouchingFeet) >= 3 /\ ~NoFootInContact THEN "plane"
    ELSE IF Cardinality(TouchingFeet) = 2
         THEN IF TouchingFeet \in Sides THEN "side"
              ELSE IF TouchingFeet \in Axles THEN "axle"
              ELSE "diagonal"
    ELSE "imu"

\* Three feet tell which way is up; fewer need the IMU, or a level robot.
Up ==
    IF Kind = "plane" THEN "feet"
    ELSE IF OrientationFromImu /\ has_imu THEN "imu"
    ELSE "level"

PublishBaseToFootprint ==
    /\ footprint' = [kind |-> Kind, feet |-> TouchingFeet, up |-> Up]
    /\ UNCHANGED <<foot, contact, prev_foot, vel, pose_step, has_imu, stood>>

Next ==
    \/ \E sample \in Samples : SynchronizedCallback(sample)
    \/ ImuCallback
    \/ OdomTimer
    \/ PublishBaseToFootprint

Spec == Init /\ [][Next]_estimationVars

\* Both wall timers keep firing; nothing makes a sample arrive.
FairSpec ==
    /\ Spec
    /\ WF_estimationVars(OdomTimer)
    /\ WF_estimationVars(PublishBaseToFootprint)

-----------------------------------------------------------------------------
\* Three feet that all move by the span within the shortest interval.
FastestOver(span) == Quotient(Scale * (3 * span), 2 * ShortestDt)

PoseSteps == {0} \cup {v * i : v \in -Abs(vel) .. Abs(vel), i \in Intervals}

\* The types, with the bounds that the filter must keep the velocity in.
TypeOK ==
    /\ foot \in KnownFeet
    /\ contact \subseteq Legs
    /\ prev_foot \in KnownFeet
    /\ vel = NaN \/ (vel \in Int /\ Abs(vel) <= FastestOver(KnownSpan))
    /\ pose_step = NaN \/ (vel # NaN /\ pose_step \in PoseSteps)
    /\ has_imu \in BOOLEAN
    /\ footprint \in [kind : {"none", "plane", "side", "axle", "diagonal", "imu"},
                     feet : SUBSET Legs, up : {"feet", "imu", "level"}]
    /\ stood \in BOOLEAN

\* Once the robot was seen standing, no velocity exceeds what measured feet
\* can do: the feet from before the URDF was loaded, and from before the first
\* joint_states, have left no trace in odom/raw (odometry.h:105-109), and nor
\* has a NaN that was measured before.
NoSpikeAfterStanding ==
    stood => vel # NaN /\ Abs(vel) <= FastestOver(StrideSpan)

\* The height of a footprint is an average over at least one foot; its attitude
\* is taken from two vectors between feet only where three feet span them, and
\* from one only where there are two.
FootprintHasFeet ==
    footprint.kind # "none" =>
        /\ footprint.feet # {}
        /\ footprint.up = "feet" => Cardinality(footprint.feet) >= 3
        /\ footprint.kind \in {"side", "axle", "diagonal"} => Cardinality(footprint.feet) = 2

\* When the samples stop changing, in the air of a stride as well, the
\* velocity decays to zero and the pose comes to rest.  A NaN that was measured
\* on the way costs the pose, for good, and the velocity only when the samples
\* stop on a stride, with neither all feet down nor none.
EstimateSettles ==
    \A s \in Samples :
        <>[](foot = s.foot /\ contact = s.contact) =>
            \/ <>[](vel = 0 /\ pose_step = 0)
            \/ <>(vel = NaN) /\ <>[](vel = 0 /\ pose_step = NaN)
            \/ s.contact \notin {Legs, {}} /\ <>[](vel = NaN /\ pose_step = NaN)
=============================================================================
