------------------------ MODULE StateEstimationProofs ------------------------
(***************************************************************************)
(* Proofs about StateEstimation, for any feet, any samples and any clock.  *)
(* A filtered velocity lies between the last one and the raw one; the raw  *)
(* one is bounded by the feet it was measured from; and once a standing    *)
(* timer has remembered measured feet, only measured feet are compared.    *)
(* A foot that is NaN is kept out of every sum that is a number.           *)
(***************************************************************************)
EXTENDS StateEstimation, TLAPS

-----------------------------------------------------------------------------
(* Arithmetic *)

\* Rounding towards zero never makes a quotient larger.
LEMMA QuotientMonotone ==
    ASSUME NEW a \in Nat, NEW b \in Nat \ {0}, NEW c \in Nat, NEW d \in Nat \ {0},
           a <= c, d <= b
    PROVE  a \div b <= c \div d
<1> DEFINE q == a \div b
           r == c \div d
<1>1. q \in Nat /\ r \in Nat
  BY Z3
<1>2. b * q <= a
  BY Z3
<1>3. c < d * (r + 1)
  BY Z3
<1> HIDE DEF q, r
<1>4. d * q <= b * q
  BY <1>1, Z3
<1>5. d * q < d * (r + 1)
  BY <1>1, <1>2, <1>3, <1>4, Z3
<1>6. q < r + 1
  BY <1>1, <1>5, Z3
<1> QED
  BY <1>1, <1>6 DEF q, r

\* A quotient is bounded by that of a larger number by a smaller one.
LEMMA QuotientBound ==
    ASSUME NEW n \in Int, NEW m \in Nat \ {0}, NEW top \in Nat, NEW d \in Nat \ {0},
           Abs(n) <= top, d <= m
    PROVE  /\ Quotient(n, m) \in Int
           /\ Quotient(top, d) \in Nat
           /\ Abs(Quotient(n, m)) <= Quotient(top, d)
<1> DEFINE q == Abs(n) \div m
           r == top \div d
<1>1. Abs(n) \in Nat
  BY DEF Abs
<1>2. q \in Nat /\ r \in Nat
  BY <1>1, Z3
<1>3. q <= r
  BY <1>1, QuotientMonotone
<1>4. Quotient(top, d) = r
  BY DEF Quotient
<1>5. Quotient(n, m) = q \/ Quotient(n, m) = -q
  BY DEF Quotient, Abs
<1> HIDE DEF q, r
<1> QED
  BY <1>2, <1>3, <1>4, <1>5 DEF Abs

LEMMA DtAtLeastShortest ==
    ASSUME NEW interval \in Intervals
    PROVE  Dt(interval) \in Nat \ {0} /\ ShortestDt <= Dt(interval)
<1>1. interval \in Int /\ -TimeModulus < interval
  BY EstimationAssumption
<1>2. Dt(interval) \in Nat
  BY <1>1, EstimationAssumption DEF Dt
<1> QED
  BY <1>2, BoundsAssumption

LEMMA FastestIsNat ==
    ASSUME NEW span \in Nat
    PROVE  FastestOver(span) \in Nat
<1>1. Scale * (3 * span) \in Nat /\ 2 * ShortestDt \in Nat \ {0}
  BY EstimationAssumption, BoundsAssumption
<1>2. Abs(0) <= Scale * (3 * span)
  BY <1>1 DEF Abs
<1> QED
  BY <1>1, <1>2, QuotientBound DEF FastestOver

-----------------------------------------------------------------------------
(* The filter *)

\* Feet that moved by no more than three times the span.
LEMMA RawVelocityBound ==
    ASSUME NEW span \in Nat, NEW interval \in Intervals,
           FeetMoved \in Int, Abs(FeetMoved) <= 3 * span
    PROVE  RawVelocity(interval) \in Int /\ Abs(RawVelocity(interval)) <= FastestOver(span)
<1> DEFINE n == Scale * FeetMoved
           top == Scale * (3 * span)
           m == 2 * Dt(interval)
           d == 2 * ShortestDt
<1>1. m \in Nat \ {0} /\ d \in Nat \ {0} /\ d <= m
  BY DtAtLeastShortest, BoundsAssumption
<1>2. n \in Int /\ top \in Nat
  BY EstimationAssumption
<1>3. Abs(n) <= top
  <2>1. \A a \in Nat, b \in Nat, s \in Nat : a <= b => s * a <= s * b
    BY Z3
  <2>2. Abs(FeetMoved) \in Nat /\ 3 * span \in Nat /\ Scale \in Nat
    BY EstimationAssumption DEF Abs
  <2>3. Scale * Abs(FeetMoved) <= top
    BY <2>1, <2>2
  <2>4. \A f \in Int, s \in Nat : Abs(s * f) = s * Abs(f)
    BY Z3 DEF Abs
  <2>5. Abs(n) = Scale * Abs(FeetMoved)
    BY <2>2, <2>4
  <2> QED
    BY <2>3, <2>5
<1>4. RawVelocity(interval) = Quotient(n, m) /\ FastestOver(span) = Quotient(top, d)
  BY DEF RawVelocity, FastestOver
<1> HIDE DEF n, top, m, d
<1> QED
  BY <1>1, <1>2, <1>3, <1>4, QuotientBound

\* Nine parts of the raw velocity and one of the last: no more than the larger.
LEMMA FilteredBound ==
    ASSUME NEW span \in Nat, NEW interval \in Intervals,
           FeetMoved \in Int, Abs(FeetMoved) <= 3 * span,
           vel \in Int, Abs(vel) <= FastestOver(span)
    PROVE  Filtered(interval) \in Int /\ Abs(Filtered(interval)) <= FastestOver(span)
<1> DEFINE raw == RawVelocity(interval)
           most == FastestOver(span)
           n == 9 * raw + vel
<1>1. raw \in Int /\ Abs(raw) <= most
  BY RawVelocityBound
<1>2. most \in Nat
  BY FastestIsNat
<1> HIDE DEF raw, most
<1>3. n \in Int /\ Abs(n) <= 10 * most
  BY <1>1, <1>2 DEF Abs, most
<1>4. Filtered(interval) = Quotient(n, 10)
  BY DEF Filtered, raw
<1>5. Quotient(10 * most, 10) = most
  <2>1. (10 * most) \div 10 = most
    BY <1>2, Z3
  <2> QED
    BY <1>2, <2>1 DEF Quotient
<1> HIDE DEF n
<1>6. 10 * most \in Nat
  BY <1>2
<1>7. Quotient(n, 10) \in Int /\ Abs(Quotient(n, 10)) <= Quotient(10 * most, 10)
  BY <1>3, <1>6, QuotientBound
<1> QED
  BY <1>4, <1>5, <1>7 DEF most

\* A leg in the air adds nothing, so that three feet move at most.
LEMMA FeetMovedBound ==
    ASSUME NEW span \in Nat, NEW feet \in SUBSET Places, Within(span, feet),
           foot \in feet, prev_foot \in feet, ~AllFeetInContact, contact \subseteq Legs,
           Compared
    PROVE  FeetMoved \in Int /\ Abs(FeetMoved) <= 3 * span
<1>1. \A l \in Legs : Moved(l) \in Int /\ Abs(Moved(l)) <= span
  <2> SUFFICES ASSUME NEW l \in Legs PROVE Moved(l) \in Int /\ Abs(Moved(l)) <= span
    OBVIOUS
  <2>1. CASE l \notin contact
    BY <2>1 DEF Moved, Abs
  <2>2. CASE l \in contact
    <3>1. prev_foot[l] \in Int /\ foot[l] \in Int
      BY <2>2 DEF Compared
    <3>2. Abs(prev_foot[l] - foot[l]) <= span
      BY <3>1 DEF Within
    <3> QED
      BY <2>2, <3>1, <3>2 DEF Moved, Abs
  <2> QED
    BY <2>1, <2>2
<1>2. PICK l \in Legs : l \notin contact
  BY DEF AllFeetInContact
<1>3. Moved(l) = 0
  BY <1>2 DEF Moved
<1>4. Legs = {0, 1, 2, 3}
  BY DEF Legs
<1> DEFINE a == Moved(0)
           b == Moved(1)
           c == Moved(2)
           d == Moved(3)
<1>5. /\ a \in Int /\ b \in Int /\ c \in Int /\ d \in Int
      /\ Abs(a) <= span /\ Abs(b) <= span /\ Abs(c) <= span /\ Abs(d) <= span
      /\ a = 0 \/ b = 0 \/ c = 0 \/ d = 0
  BY <1>1, <1>2, <1>3, <1>4
<1>6. FeetMoved = a + b + c + d
  BY DEF FeetMoved
<1> HIDE DEF a, b, c, d
<1> QED
  BY <1>5, <1>6 DEF Abs

-----------------------------------------------------------------------------
(* The invariant *)

\* Once it was seen standing, the robot's feet are measured ones on both sides
\* of every difference.
MeasuredOnceStood ==
    stood => /\ foot \in MeasuredFeet
             /\ prev_foot \in MeasuredFeet \cap [Legs -> Int]
             /\ vel # NaN
             /\ Abs(vel) <= FastestOver(StrideSpan)

EstimationInv == TypeOK /\ MeasuredOnceStood /\ FootprintHasFeet

LEMMA FeetArePlaces == MeasuredFeet \subseteq KnownFeet /\ KnownFeet \subseteq Places
<1>1. \A s \in Samples : s.foot \in Places
  BY EstimationAssumption
<1>2. [Legs -> Int] \subseteq Places
  BY DEF Places
<1> QED
  BY <1>1, <1>2, EstimationAssumption DEF MeasuredFeet, KnownFeet

\* A number is not NaN.
LEMMA NumberIsNotNaN == ASSUME NEW n \in Int PROVE n # NaN
BY SpecialsAssumption

LEMMA InitEstimation == Init => EstimationInv
<1> SUFFICES ASSUME Init PROVE EstimationInv
  OBVIOUS
<1>1. Abs(vel) <= FastestOver(KnownSpan) /\ vel \in Int
  BY BoundsAssumption, FastestIsNat DEF Init, Abs
<1>2. foot \in KnownFeet /\ prev_foot \in KnownFeet
  BY DEF Init, KnownFeet
<1>3. footprint \in [kind : {"none", "plane", "side", "axle", "diagonal", "imu"},
                     feet : SUBSET Legs, up : {"feet", "imu", "level"}]
  BY DEF Init, NoFootprint
<1>4. TypeOK
  <2>1. pose_step \in PoseSteps
    BY DEF Init, PoseSteps
  <2>2. vel # NaN
    BY NumberIsNotNaN DEF Init
  <2> QED
    BY <1>1, <1>2, <1>3, <2>1, <2>2 DEF Init, TypeOK
<1>5. MeasuredOnceStood /\ FootprintHasFeet
  BY DEF Init, MeasuredOnceStood, FootprintHasFeet, NoFootprint
<1> QED
  BY <1>4, <1>5 DEF EstimationInv

LEMMA SampleStep ==
    ASSUME EstimationInv, NEW sample \in Samples, SynchronizedCallback(sample)
    PROVE  EstimationInv'
<1>1. foot' \in MeasuredFeet /\ foot' \in KnownFeet
  BY FeetArePlaces DEF SynchronizedCallback, MeasuredFeet
<1>2. contact' \subseteq Legs
  BY EstimationAssumption DEF SynchronizedCallback
<1>3. UNCHANGED <<prev_foot, vel, pose_step, has_imu, footprint, stood>>
  BY DEF SynchronizedCallback
<1>4. TypeOK'
  BY <1>1, <1>2, <1>3 DEF EstimationInv, TypeOK, PoseSteps, Abs
<1>5. MeasuredOnceStood'
  BY <1>1, <1>3 DEF EstimationInv, MeasuredOnceStood
<1>6. FootprintHasFeet'
  BY <1>3 DEF EstimationInv, FootprintHasFeet
<1> QED
  BY <1>4, <1>5, <1>6 DEF EstimationInv

\* The velocity of a timer is bounded by the feet it compares, or NaN: that
\* only if NaN was among what it compares.
LEMMA VelocityStep ==
    ASSUME NEW span \in Nat, NEW feet \in SUBSET Places, Within(span, feet),
           foot \in feet, prev_foot \in feet, contact \subseteq Legs,
           vel = NaN \/ (vel \in Int /\ Abs(vel) <= FastestOver(span)),
           NEW interval \in Intervals, GetVelocities(interval)
    PROVE  /\ vel' = NaN \/ (vel' \in Int /\ Abs(vel') <= FastestOver(span))
           /\ vel' = NaN => ~Compared
<1>1. CASE Reset /\ vel' = 0
  BY <1>1, FastestIsNat, NumberIsNotNaN DEF Abs
<1>2. CASE ~Reset /\ Compared /\ vel' = Filtered(interval)
  <2>1. FeetMoved \in Int /\ Abs(FeetMoved) <= 3 * span
    BY <1>2, FeetMovedBound DEF Reset
  <2>2. vel \in Int /\ Abs(vel) <= FastestOver(span)
    BY <1>2 DEF Compared
  <2>3. Filtered(interval) \in Int /\ Abs(Filtered(interval)) <= FastestOver(span)
    BY <2>1, <2>2, FilteredBound
  <2> QED
    BY <1>2, <2>3, NumberIsNotNaN
<1>3. CASE ~Reset /\ ~Compared /\ vel' = NaN
  BY <1>3
<1> QED
  BY <1>1, <1>2, <1>3 DEF GetVelocities

LEMMA OdomStep ==
    ASSUME EstimationInv, NEW interval \in Intervals, NEW vel_interval \in Intervals,
           PublishFootprintToOdom(interval, vel_interval)
    PROVE  EstimationInv'
<1>1. GetVelocities(interval) /\ prev_foot' = foot
  BY DEF PublishFootprintToOdom, GetVelocities, Snapshot
<1>2. UNCHANGED <<foot, contact, has_imu, footprint>>
  BY DEF PublishFootprintToOdom
<1>3. vel' = NaN \/ (vel' \in Int /\ Abs(vel') <= FastestOver(KnownSpan))
  BY <1>1, FeetArePlaces, BoundsAssumption, VelocityStep DEF EstimationInv, TypeOK
<1>4. pose_step' = IF NaN \in {pose_step, vel'} THEN NaN ELSE vel' * vel_interval
  BY DEF PublishFootprintToOdom
<1>5. pose_step' = NaN \/ (vel' # NaN /\ pose_step' = vel' * vel_interval)
  BY <1>4
<1>6. pose_step' = NaN \/ (vel' # NaN /\ pose_step' \in PoseSteps')
  <2> SUFFICES ASSUME vel' # NaN, pose_step' = vel' * vel_interval PROVE pose_step' \in PoseSteps'
    BY <1>5
  <2>1. \A v \in Int : v \in -Abs(v) .. Abs(v)
    BY DEF Abs
  <2>2. vel' \in -Abs(vel') .. Abs(vel')
    BY <1>3, <2>1
  <2>3. pose_step' \in {v * i : v \in -Abs(vel') .. Abs(vel'), i \in Intervals}
    BY <2>2
  <2> QED
    BY <2>3 DEF PoseSteps, Abs
<1>7. stood' \in BOOLEAN
  BY DEF PublishFootprintToOdom, EstimationInv, TypeOK
<1>8. TypeOK'
  BY <1>1, <1>2, <1>3, <1>6, <1>7 DEF EstimationInv, TypeOK, Abs
<1>9. MeasuredOnceStood'
  <2> SUFFICES ASSUME stood'
               PROVE  /\ foot \in MeasuredFeet \cap [Legs -> Int]
                      /\ vel' # NaN /\ Abs(vel') <= FastestOver(StrideSpan)
    BY <1>1, <1>2 DEF MeasuredOnceStood, Abs
  <2>1. foot \in [Legs -> Int] /\ (stood \/ (AllFeetInContact /\ foot \in MeasuredFeet))
    BY DEF PublishFootprintToOdom
  <2>2. CASE stood
    <3>1. /\ foot \in MeasuredFeet /\ prev_foot \in MeasuredFeet
          /\ prev_foot \in [Legs -> Int] /\ contact \subseteq Legs
          /\ vel \in Int /\ vel # NaN /\ Abs(vel) <= FastestOver(StrideSpan)
      BY <2>2 DEF EstimationInv, TypeOK, MeasuredOnceStood
    <3>2. Compared
      BY <2>1, <3>1 DEF Compared
    <3>3. MeasuredFeet \in SUBSET Places /\ Within(StrideSpan, MeasuredFeet) /\ StrideSpan \in Nat
      BY FeetArePlaces, BoundsAssumption
    <3>4. /\ vel' = NaN \/ (vel' \in Int /\ Abs(vel') <= FastestOver(StrideSpan))
          /\ vel' = NaN => ~Compared
      BY <1>1, <3>1, <3>3, VelocityStep
    <3> QED
      BY <2>1, <3>1, <3>2, <3>4
  <2>3. CASE AllFeetInContact /\ foot \in MeasuredFeet
    <3>1. vel' = 0
      BY <1>1, <2>3 DEF GetVelocities, Reset
    <3> QED
      BY <2>1, <2>3, <3>1, FastestIsNat, BoundsAssumption, NumberIsNotNaN DEF Abs
  <2> QED
    BY <2>1, <2>2, <2>3
<1>10. FootprintHasFeet'
  BY <1>2 DEF EstimationInv, FootprintHasFeet
<1> QED
  BY <1>8, <1>9, <1>10 DEF EstimationInv

LEMMA FootprintStep ==
    ASSUME EstimationInv, PublishBaseToFootprint
    PROVE  EstimationInv'
<1>1. UNCHANGED <<foot, contact, prev_foot, vel, pose_step, has_imu, stood>>
  BY DEF PublishBaseToFootprint
<1>2. TouchingFeet \subseteq Legs /\ TouchingFeet # {}
  BY DEF EstimationInv, TypeOK, TouchingFeet, NoFootInContact, Legs
<1>3. footprint' = [kind |-> Kind, feet |-> TouchingFeet, up |-> Up]
  BY DEF PublishBaseToFootprint
<1>4. Kind \in {"plane", "side", "axle", "diagonal", "imu"} /\ Up \in {"feet", "imu", "level"}
  BY DEF Kind, Up
<1>5. TypeOK'
  BY <1>1, <1>2, <1>3, <1>4 DEF EstimationInv, TypeOK, PoseSteps, Abs
<1>6. MeasuredOnceStood'
  BY <1>1 DEF EstimationInv, MeasuredOnceStood, Abs
<1>7. Up = "feet" => Cardinality(TouchingFeet) >= 3
  BY DEF Up, Kind
<1>8. Kind \in {"side", "axle", "diagonal"} => Cardinality(TouchingFeet) = 2
  BY DEF Kind
<1>9. FootprintHasFeet'
  BY <1>2, <1>3, <1>7, <1>8 DEF FootprintHasFeet
<1> QED
  BY <1>5, <1>6, <1>9 DEF EstimationInv

LEMMA ImuStep ==
    ASSUME EstimationInv, ImuCallback
    PROVE  EstimationInv'
BY DEF EstimationInv, ImuCallback, TypeOK, PoseSteps, MeasuredOnceStood, FootprintHasFeet, Abs

-----------------------------------------------------------------------------
THEOREM EstimationInvariant == Spec => []EstimationInv
<1>1. Init => EstimationInv
  BY InitEstimation
<1>2. EstimationInv /\ [Next]_estimationVars => EstimationInv'
  <2> SUFFICES ASSUME EstimationInv, [Next]_estimationVars PROVE EstimationInv'
    OBVIOUS
  <2>1. CASE \E sample \in Samples : SynchronizedCallback(sample)
    BY <2>1, SampleStep
  <2>2. CASE ImuCallback
    BY <2>2, ImuStep
  <2>3. CASE OdomTimer
    BY <2>3, OdomStep DEF OdomTimer
  <2>4. CASE PublishBaseToFootprint
    BY <2>4, FootprintStep
  <2>5. CASE UNCHANGED estimationVars
    BY <2>5 DEF estimationVars, EstimationInv, TypeOK, PoseSteps, MeasuredOnceStood, FootprintHasFeet, Abs
  <2> QED
    BY <2>1, <2>2, <2>3, <2>4, <2>5 DEF Next
<1> QED
  BY <1>1, <1>2, PTL DEF Spec

\* For any gait and any clock, set back or standing still, the filter keeps
\* a velocity that is a number within what three feet can do in the shortest
\* interval.
THEOREM TypeCorrect == Spec => []TypeOK
<1>1. EstimationInv => TypeOK
  BY DEF EstimationInv
<1> QED
  BY <1>1, EstimationInvariant, PTL

\* After a standing timer no velocity holds a trace of feet that were never
\* measured, or of a joint that was NaN, whatever the feet were before and
\* however often it trots.
THEOREM NoSpikes == Spec => []NoSpikeAfterStanding
<1>1. EstimationInv => NoSpikeAfterStanding
  BY DEF EstimationInv, MeasuredOnceStood, NoSpikeAfterStanding
<1> QED
  BY <1>1, EstimationInvariant, PTL

\* No footprint divides by zero feet, or takes its attitude from feet that do
\* not span it, for any sequence of contacts.
THEOREM FootprintsHaveFeet == Spec => []FootprintHasFeet
<1>1. EstimationInv => FootprintHasFeet
  BY DEF EstimationInv
<1> QED
  BY <1>1, EstimationInvariant, PTL
=============================================================================
