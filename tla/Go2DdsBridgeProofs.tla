------------------------- MODULE Go2DdsBridgeProofs -------------------------
(***************************************************************************)
(* Proofs about Go2DdsBridge, for any motors, limits, messages, timeout    *)
(* and ramp; at the end, that the two threads implement JointDriver.       *)
(***************************************************************************)
EXTENDS Go2DdsBridge, WellFoundedInduction, TLAPS

-----------------------------------------------------------------------------
(* The pure helpers *)

\* A non-empty set of indices of a message has a last one: both receivers of
\* joint commands take the last place that names a joint.
LEMMA LastIndexExists ==
    ASSUME NEW n \in Nat, NEW S, S \subseteq 1 .. n, S # {}
    PROVE  \E i \in S : \A j \in S : j <= i
<1> DEFINE T == {k \in 0 .. n : n - k \in S}
<1>1. \A j \in S : n - j \in T
  <2>1. \A j \in S : n - j \in 0 .. n /\ n - (n - j) = j
    OBVIOUS
  <2> QED
    BY <2>1
<1>2. T \subseteq Nat /\ T # {}
  <2>1. T \subseteq Nat
    OBVIOUS
  <2> HIDE DEF T
  <2> QED
    BY <1>1, <2>1
<1>3. PICK k \in T : \A y \in T : ~(<<y, k>> \in OpToRel(<, Nat))
  BY <1>2, NatLessThanWellFounded, WFMin
<1>4. \A j \in S : j <= n - k
  <2>1. \A j \in S : ~(n - j < k)
    BY <1>1, <1>2, <1>3 DEF OpToRel
  <2> QED
    BY <2>1
<1> QED
  BY <1>4

\* The joint targets of an accepted message are numbers for every motor.
LEMMA CommandOfType ==
    ASSUME NEW msg \in JointCommands, Accepts(msg)
    PROVE  CommandOf(msg) \in Poses
<1>1. /\ Len(msg.name) \in Nat
      /\ Len(msg.position) \in Nat
      /\ msg.position \in Seq(Numbers)
  BY BridgeAssumption
<1>2. PairCount(msg) \in Nat /\ PairCount(msg) <= Len(msg.position)
  BY <1>1 DEF PairCount
<1>3. ASSUME NEW m \in Motors
      PROVE  /\ PairsOf(msg, m) # {}
             /\ msg.position[CHOOSE i \in PairsOf(msg, m) :
                                \A j \in PairsOf(msg, m) : j <= i] \in Int
  <2> DEFINE S == PairsOf(msg, m)
  <2>1. S # {} /\ S \subseteq 1 .. PairCount(msg)
    BY DEF Accepts, AllSeen, PairsOf, KnownPairs
  <2>2. \E i \in S : \A j \in S : j <= i
    BY ONLY <2>1, <1>2, LastIndexExists
  <2>3. PICK i \in S : i = CHOOSE k \in S : \A j \in S : j <= k
    BY <2>2
  <2>4. i \in KnownPairs(msg) /\ i \in 1 .. Len(msg.position)
    BY <1>1, <1>2, <2>3 DEF PairsOf, KnownPairs
  <2>5. msg.position[i] \in Int
    BY <2>4 DEF Accepts, AllFinite
  <2> QED
    BY <2>1, <2>3, <2>5
<1> QED
  BY <1>3 DEF CommandOf, Poses

LEMMA RampStepsType == RampSteps \in Nat \ {0}
BY BridgeAssumption DEF RampSteps

-----------------------------------------------------------------------------
(* Arithmetic of numbers that may be NaN or infinite *)

LEMMA TimesType ==
    ASSUME NEW k \in Nat, NEW x \in Numbers
    PROVE  /\ Times(k, x) \in Numbers
           /\ x \in Int => Times(k, x) = k * x /\ k * x \in Int
           /\ x \notin Int /\ k # 0 => Times(k, x) = x
           /\ x \notin Int /\ k = 0 => Times(k, x) = NaN
<1>1. CASE x \in Int
  <2>1. Times(k, x) = k * x
    BY <1>1 DEF Times
  <2>2. k * x \in Int
    BY <1>1
  <2> QED
    BY <1>1, <2>1, <2>2 DEF Numbers
<1>2. CASE x \notin Int
  BY <1>2, Zenon DEF Times, Numbers
<1> QED
  BY <1>1, <1>2

LEMMA PlusType ==
    ASSUME NEW x \in Numbers, NEW y \in Numbers
    PROVE  /\ Plus(x, y) \in Numbers
           /\ x \in Int /\ y \in Int => Plus(x, y) = x + y /\ x + y \in Int
           /\ x \in Int /\ y \notin Int => Plus(x, y) = y
           /\ x \notin Int /\ y \in Int => Plus(x, y) = x
           /\ x \notin Int /\ y \notin Int =>
                Plus(x, y) = IF x = y THEN x ELSE NaN
<1>1. CASE x \in Int /\ y \in Int
  <2>1. Plus(x, y) = x + y
    BY <1>1 DEF Plus
  <2>2. x + y \in Int
    BY <1>1
  <2> QED
    BY <1>1, <2>1, <2>2 DEF Numbers
<1>2. CASE ~(x \in Int /\ y \in Int)
  BY <1>2, Zenon DEF Plus, Numbers
<1> QED
  BY <1>1, <1>2

LEMMA OverType ==
    ASSUME NEW x \in Numbers, NEW n \in Nat \ {0}
    PROVE  /\ Over(x, n) \in Numbers
           /\ x \in Int => Over(x, n) = x \div n /\ x \div n \in Int
           /\ x \notin Int => Over(x, n) = x
<1>1. CASE x \in Int
  <2>1. Over(x, n) = x \div n
    BY <1>1 DEF Over
  <2>2. x \div n \in Int
    BY <1>1
  <2> QED
    BY <1>1, <2>1, <2>2 DEF Numbers
<1>2. CASE x \notin Int
  BY <1>2, Zenon DEF Over
<1> QED
  BY <1>1, <1>2

LEMMA LessInt ==
    ASSUME NEW x \in Int, NEW y \in Int
    PROVE  Less(x, y) <=> x < y
<1>1. x # NegInf /\ y # PosInf
  BY SpecialsAssumption, Zenon DEF Infinities
<1> QED
  BY <1>1 DEF Less

\* What is commanded is a number or overflows, but is never NaN.
LEMMA ToFloatType ==
    ASSUME NEW x \in Int
    PROVE  /\ FitsFloat(x) => ToFloat(x) = x
           /\ ~FitsFloat(x) => ToFloat(x) \in Infinities /\ ToFloat(x) \notin Int
           /\ ToFloat(x) \in Numbers
           /\ ToFloat(x) # NaN
<1>1. MaxFloat \in Nat
  BY BridgeAssumption
<1>2. FitsFloat(x) <=> ~(x > MaxFloat) /\ ~(x < -MaxFloat)
  BY <1>1 DEF FitsFloat
<1>3. CASE FitsFloat(x)
  <2>1. ToFloat(x) = x
    BY <1>2, <1>3, Zenon DEF ToFloat
  <2> QED
    BY <1>3, <2>1, SpecialsAssumption, Zenon DEF Numbers
<1>4. CASE ~FitsFloat(x)
  <2>1. ToFloat(x) \in Infinities
    BY <1>2, <1>4, Zenon DEF ToFloat, Infinities
  <2> QED
    BY <1>4, <2>1, SpecialsAssumption, Zenon DEF Numbers
<1> QED
  BY <1>3, <1>4

\* The clamp lets nothing out of the limits but NaN.
LEMMA ClampType ==
    ASSUME NEW m \in Motors, NEW q \in Numbers
    PROVE  /\ Limits(m) \subseteq Int
           /\ q # NaN => go2ClampJoint(m, q) \in Limits(m)
           /\ q = NaN => go2ClampJoint(m, q) = NaN
           /\ go2ClampJoint(m, q) \in Numbers
<1> DEFINE lo == kGo2JointLower[m]
           up == kGo2JointUpper[m]
<1>1. lo \in Int /\ up \in Int /\ lo <= up
  BY LimitsAssumption DEF Poses
<1>2. lo \in Limits(m) /\ up \in Limits(m) /\ Limits(m) \subseteq Int
  BY <1>1 DEF Limits
<1>3. go2ClampJoint(m, q) = IF Less(q, lo) THEN lo ELSE IF Less(up, q) THEN up ELSE q
  BY DEF go2ClampJoint
<1>4. ASSUME q \in Int PROVE go2ClampJoint(m, q) \in Limits(m)
  <2>1. (Less(q, lo) <=> q < lo) /\ (Less(up, q) <=> up < q)
    BY <1>1, <1>4, LessInt
  <2>2. CASE q < lo \/ up < q
    BY <1>2, <1>3, <2>1, <2>2
  <2>3. CASE ~(q < lo) /\ ~(up < q)
    <3>1. q \in Limits(m)
      BY <1>1, <1>4, <2>3 DEF Limits
    <3> QED
      BY <1>3, <2>1, <2>3, <3>1
  <2> QED
    BY <2>2, <2>3
<1> HIDE DEF lo, up
<1>5. ASSUME q = NegInf PROVE go2ClampJoint(m, q) = lo
  BY <1>1, <1>3, <1>5, Zenon DEF Less
<1>6. ASSUME q = PosInf PROVE go2ClampJoint(m, q) = up
  <2>1. ~Less(q, lo) /\ Less(up, q)
    BY <1>1, <1>6, SpecialsAssumption, Zenon DEF Less, Infinities
  <2> QED
    BY <1>3, <2>1, Zenon
<1>7. ASSUME q = NaN PROVE go2ClampJoint(m, q) = NaN
  <2>1. ~Less(q, lo) /\ ~Less(up, q)
    BY <1>1, <1>7, SpecialsAssumption, Zenon DEF Less, Infinities
  <2> QED
    BY <1>3, <1>7, <2>1, Zenon
<1>8. NaN \notin Int
  BY SpecialsAssumption
<1> QED
  BY <1>2, <1>4, <1>5, <1>6, <1>7, <1>8, Zenon DEF Numbers, Infinities

LEMMA ClampPoseType ==
    ASSUME NEW pose \in FloatPoses
    PROVE  ClampPose(pose) \in FloatPoses
BY ClampType DEF ClampPose, FloatPoses

-----------------------------------------------------------------------------
(* Division, which rounds down *)

\* Rounding down keeps the order.
LEMMA DivMonotone ==
    ASSUME NEW R \in Nat \ {0}, NEW a \in Int, NEW b \in Int, a <= b
    PROVE  a \div R <= b \div R
<1> DEFINE qa == a \div R
           qb == b \div R
<1>1. /\ qa \in Int /\ qb \in Int
      /\ R * qa <= a /\ a < R * qa + R
      /\ R * qb <= b /\ b < R * qb + R
  OBVIOUS
<1>2. SUFFICES ASSUME qb + 1 <= qa PROVE FALSE
  BY <1>1
<1> HIDE DEF qa, qb
<1>3. R * (qb + 1) <= R * qa
  BY <1>1, <1>2
<1>4. R * (qb + 1) = R * qb + R
  BY <1>1
<1> QED
  BY <1>1, <1>3, <1>4

\* A multiple is divided without rounding.
LEMMA DivExact ==
    ASSUME NEW R \in Nat \ {0}, NEW d \in Int
    PROVE  (R * d) \div R = d
<1> DEFINE q == (R * d) \div R
<1>1. /\ q \in Int
      /\ R * q <= R * d /\ R * d < R * q + R
  OBVIOUS
<1> HIDE DEF q
<1>2. ~(d < q)
  <2> SUFFICES ASSUME d + 1 <= q PROVE FALSE
    BY <1>1
  <2>1. R * (d + 1) <= R * q
    BY <1>1
  <2>2. R * (d + 1) = R * d + R
    OBVIOUS
  <2> QED
    BY <1>1, <2>1, <2>2
<1>3. ~(q < d)
  <2> SUFFICES ASSUME q + 1 <= d PROVE FALSE
    BY <1>1
  <2>1. R * (q + 1) <= R * d
    BY <1>1
  <2>2. R * (q + 1) = R * q + R
    BY <1>1
  <2> QED
    BY <1>1, <2>1, <2>2
<1> QED
  BY <1>1, <1>2, <1>3 DEF q

\* A longer way in the same direction is further along.
LEMMA MulMonotone ==
    ASSUME NEW p \in Nat, NEW r \in Nat, p <= r, NEW d \in Int
    PROVE  /\ d >= 0 => p * d <= r * d
           /\ d <= 0 => r * d <= p * d
<1>1. r * d - p * d = (r - p) * d
  OBVIOUS
<1>2. d >= 0 => (r - p) * d >= 0
  OBVIOUS
<1>3. d <= 0 => (r - p) * d <= 0
  OBVIOUS
<1> QED
  BY <1>1, <1>2, <1>3

\* A multiple passes through the division.
LEMMA DivSum ==
    ASSUME NEW R \in Nat \ {0}, NEW s \in Int, NEW x \in Int
    PROVE  (R * s + x) \div R = s + x \div R
<1> DEFINE q == x \div R
           z == (R * s + x) \div R
<1>1. R * s \in Int /\ R * s + x \in Int
  OBVIOUS
<1>2. q \in Int /\ R * q <= x /\ x < R * q + R
  OBVIOUS
<1>3. z \in Int /\ R * z <= R * s + x /\ R * s + x < R * z + R
  BY <1>1
<1> HIDE DEF q, z
<1>4. R * (s + q) = R * s + R * q
  BY <1>2
<1>5. ~(z < s + q)
  <2> SUFFICES ASSUME z + 1 <= s + q PROVE FALSE
    BY <1>2, <1>3
  <2>1. R * (z + 1) <= R * (s + q)
    BY <1>2, <1>3
  <2>2. R * (z + 1) = R * z + R
    BY <1>3
  <2> QED
    BY <1>1, <1>2, <1>3, <1>4, <2>1, <2>2
<1>6. ~(s + q < z)
  <2> SUFFICES ASSUME (s + q) + 1 <= z PROVE FALSE
    BY <1>2, <1>3
  <2>1. R * ((s + q) + 1) <= R * z
    BY <1>2, <1>3
  <2>2. R * ((s + q) + 1) = R * (s + q) + R
    BY <1>2
  <2> QED
    BY <1>1, <1>2, <1>3, <1>4, <2>1, <2>2
<1> QED
  BY <1>2, <1>3, <1>5, <1>6 DEF q, z

-----------------------------------------------------------------------------
(* The blend of one motor *)

BlendOf(s, c, k) == Over(Plus(Times(RampSteps - k, s), Times(k, c)), RampSteps)

LEMMA BlendOfMotor ==
    ASSUME NEW start, NEW cmd, NEW k, NEW m \in Motors
    PROVE  Blend(start, cmd, k)[m] = BlendOf(start[m], ToFloat(cmd[m]), k)
BY DEF Blend, BlendOf

LEMMA BlendOfType ==
    ASSUME NEW s \in Numbers, NEW c \in Numbers, NEW k \in 0 .. RampSteps
    PROVE  BlendOf(s, c, k) \in Numbers
<1>1. RampSteps - k \in Nat /\ k \in Nat
  BY RampStepsType
<1>2. Times(RampSteps - k, s) \in Numbers /\ Times(k, c) \in Numbers
  BY <1>1, TimesType
<1>3. Plus(Times(RampSteps - k, s), Times(k, c)) \in Numbers
  BY <1>2, PlusType
<1> QED
  BY <1>3, OverType, RampStepsType DEF BlendOf

LEMMA BlendType ==
    ASSUME NEW start \in FloatPoses, NEW cmd \in Poses, NEW p \in 0 .. RampSteps
    PROVE  Blend(start, cmd, p) \in FloatPoses
<1>1. ASSUME NEW m \in Motors PROVE Blend(start, cmd, p)[m] \in Numbers
  <2>1. start[m] \in Numbers /\ ToFloat(cmd[m]) \in Numbers
    BY ToFloatType DEF FloatPoses, Poses
  <2>2. BlendOf(start[m], ToFloat(cmd[m]), p) \in Numbers
    BY <2>1, BlendOfType
  <2> QED
    BY <2>2, BlendOfMotor
<1> QED
  BY <1>1 DEF Blend, FloatPoses

\* Between numbers it is the point of the ramp.
LEMMA BlendOfInts ==
    ASSUME NEW s \in Int, NEW c \in Int, NEW k \in 0 .. RampSteps
    PROVE  /\ BlendOf(s, c, k) = s + (k * (c - s)) \div RampSteps
           /\ BlendOf(s, c, k) \in Int
<1> DEFINE R == RampSteps
           x == (R - k) * s
           y == k * c
<1>1. R \in Nat \ {0} /\ k \in Nat /\ R - k \in Nat
  BY RampStepsType
<1>2. s \in Numbers /\ c \in Numbers
  BY DEF Numbers
<1>3. Times(R - k, s) = x /\ x \in Int
  BY <1>1, <1>2, TimesType
<1>4. Times(k, c) = y /\ y \in Int
  BY <1>1, <1>2, TimesType
<1>5. x + y \in Int /\ x \in Numbers /\ y \in Numbers /\ x + y \in Numbers
  BY <1>3, <1>4 DEF Numbers
<1>6. Plus(x, y) = x + y
  BY <1>3, <1>4, <1>5, PlusType
<1>7. Over(x + y, R) = (x + y) \div R
  BY <1>1, <1>5, OverType
<1>8. BlendOf(s, c, k) = (x + y) \div R
  BY <1>3, <1>4, <1>6, <1>7 DEF BlendOf
<1>9. x + y = R * s + k * (c - s)
  BY <1>1
<1>10. k * (c - s) \in Int
  BY <1>1
<1>11. (R * s + k * (c - s)) \div R = s + (k * (c - s)) \div R
  BY ONLY <1>1, <1>10, s \in Int, DivSum
<1>12. (k * (c - s)) \div R \in Int
  BY <1>1, <1>10
<1> HIDE DEF x, y
<1> QED
  BY <1>8, <1>9, <1>11, <1>12

\* Otherwise it is the end that is no number, unless it is NaN.
LEMMA BlendOfSpecials ==
    ASSUME NEW s \in Numbers, NEW c \in Numbers, NEW k \in 0 .. RampSteps,
           ~(s \in Int /\ c \in Int), BlendOf(s, c, k) # NaN
    PROVE  BlendOf(s, c, k) = IF s \in Int THEN c ELSE s
<1> DEFINE R == RampSteps
           x == Times(R - k, s)
           y == Times(k, c)
<1>1. R \in Nat \ {0} /\ k \in Nat /\ R - k \in Nat
  BY RampStepsType
<1>2. x \in Numbers /\ y \in Numbers
  BY <1>1, TimesType
<1>3. NaN \notin Int /\ NaN \in Numbers
  BY SpecialsAssumption, Zenon DEF Numbers
<1>4. /\ s \in Int => x \in Int
      /\ s \notin Int => x = s \/ x = NaN
      /\ c \in Int => y \in Int
      /\ c \notin Int => y = c \/ y = NaN
  BY <1>1, TimesType
<1> HIDE DEF x, y
<1>5. Plus(x, y) \notin Int => BlendOf(s, c, k) = Plus(x, y)
  <2>1. Plus(x, y) \in Numbers
    BY <1>2, PlusType
  <2> QED
    BY <1>1, <2>1, OverType DEF BlendOf, x, y
<1>6. CASE s \in Int
  <2>1. c \notin Int /\ x \in Int /\ y \notin Int
    BY <1>3, <1>4, <1>6, Zenon
  <2>2. Plus(x, y) = y
    BY <1>2, <2>1, PlusType
  <2> QED
    BY <1>4, <1>5, <1>6, <2>1, <2>2, Zenon
<1>7. CASE s \notin Int
  <2>1. x \notin Int
    BY <1>3, <1>4, <1>7, Zenon
  <2>2. CASE y \in Int
    <3>1. Plus(x, y) = x
      BY <1>2, <2>1, <2>2, PlusType
    <3> QED
      BY <1>4, <1>5, <1>7, <2>1, <3>1, Zenon
  <2>3. CASE y \notin Int
    <3>1. Plus(x, y) = IF x = y THEN x ELSE NaN
      BY <1>2, <2>1, <2>3, PlusType
    <3> QED
      BY <1>3, <1>4, <1>5, <1>7, <2>1, <3>1, Zenon
  <2> QED
    BY <2>2, <2>3
<1> QED
  BY <1>6, <1>7

\* It is NaN only where the start is no number, or the end is none and
\* nothing of it is blended in yet.
LEMMA BlendOfNaN ==
    ASSUME NEW s \in Numbers, NEW c \in Numbers, c # NaN, NEW k \in 0 .. RampSteps,
           BlendOf(s, c, k) = NaN
    PROVE  s \notin Int \/ (k = 0 /\ c \notin Int)
<1> SUFFICES ASSUME s \in Int, k # 0 \/ c \in Int PROVE FALSE
  OBVIOUS
<1>1. NaN \notin Int
  BY SpecialsAssumption
<1>2. c \notin Int /\ k # 0
  BY <1>1, BlendOfInts
<1>3. RampSteps \in Nat \ {0} /\ k \in Nat /\ RampSteps - k \in Nat
  BY RampStepsType
<1>4. Times(k, c) = c
  BY <1>2, <1>3, TimesType
<1>5. Times(RampSteps - k, s) \in Int
  BY <1>3, TimesType DEF Numbers
<1>6. Plus(Times(RampSteps - k, s), c) = c
  BY <1>2, <1>5, PlusType DEF Numbers
<1>7. Over(c, RampSteps) = c
  BY <1>2, <1>3, OverType
<1> QED
  BY <1>4, <1>6, <1>7 DEF BlendOf

\* Nothing is blended at the start of the ramp, but for a command that
\* overflows.
LEMMA BlendAtStart ==
    ASSUME NEW s \in Numbers, NEW c \in Int
    PROVE  BlendOf(s, c, 0) = s
<1>1. RampSteps \in Nat \ {0} /\ 0 \in 0 .. RampSteps /\ RampSteps - 0 = RampSteps
  BY RampStepsType
<1>2. CASE s \in Int
  <2>1. BlendOf(s, c, 0) = s + (0 * (c - s)) \div RampSteps
    BY <1>1, <1>2, BlendOfInts
  <2>2. 0 * (c - s) = 0
    BY <1>2
  <2>3. 0 \div RampSteps = 0
    BY <1>1
  <2> QED
    BY <1>2, <2>1, <2>2, <2>3
<1>3. CASE s \notin Int
  <2>1. Times(RampSteps - 0, s) = s
    BY <1>1, <1>3, TimesType
  <2>2. Times(0, c) \in Int
    BY TimesType DEF Numbers
  <2>3. Plus(s, Times(0, c)) = s
    BY <1>3, <2>2, PlusType DEF Numbers
  <2>4. Over(s, RampSteps) = s
    BY <1>1, <1>3, OverType
  <2> QED
    BY <2>1, <2>3, <2>4 DEF BlendOf
<1> QED
  BY <1>2, <1>3

LEMMA ContactsType ==
    ASSUME NEW force
    PROVE  Contacts(force) \in [Feet -> BOOLEAN]
BY DEF Contacts

LEMMA RampProgressType ==
    ASSUME NEW started \in BOOLEAN, NEW age \in 0 .. RampTicks
    PROVE  RampProgress(started, age) \in 0 .. RampSteps
BY BridgeAssumption DEF RampProgress, RampSteps

LEMMA OlderType ==
    ASSUME NEW max \in Nat, NEW age \in 0 .. max
    PROVE  Older(age, max) \in 0 .. max /\ age <= Older(age, max)
BY DEF Older

LEMMA MaxCommandAgeType == MaxCommandAge \in Nat
BY BridgeAssumption DEF MaxCommandAge

LEMMA ZeroTypes ==
    /\ ZeroPose \in Poses
    /\ ZeroPose \in FloatPoses
    /\ ZeroForce \in Forces
    /\ NullSnap \in Snapshots
<1>1. ZeroPose \in Poses /\ ZeroPose \in FloatPoses /\ ZeroForce \in Forces
  BY DEF ZeroPose, ZeroForce, Poses, FloatPoses, Numbers, Forces
<1>2. 0 \in 0 .. RampSteps
  BY RampStepsType
<1> QED
  BY <1>1, <1>2 DEF NullSnap, Snapshots

-----------------------------------------------------------------------------
(* Type correctness *)

LEMMA TypeInit == Init => TypeOK
<1> SUFFICES ASSUME Init PROVE TypeOK
  OBVIOUS
<1>1. published \in [q : FloatPoses, contacts : [Feet -> BOOLEAN]]
  BY ZeroTypes, ContactsType DEF Init, Measurement
<1>2. command_age \in 0 .. MaxCommandAge /\ ramp_age \in 0 .. RampTicks
  BY MaxCommandAgeType, BridgeAssumption DEF Init
<1>3. 0 \in 0 .. RampSteps
  BY BridgeAssumption DEF RampSteps
<1>4. /\ low_cmd \in [q : FloatPoses, kd : Nat]
      /\ sent \in [phase : {"silent", "hold", "drive"}, progress : 0 .. RampSteps,
                   command : Poses]
  BY <1>3, ZeroTypes DEF Init
<1> QED
  BY <1>1, <1>2, <1>4, ZeroTypes DEF Init, TypeOK

LEMMA TypeNext == TypeOK /\ [Next]_vars => TypeOK'
<1> SUFFICES ASSUME TypeOK, [Next]_vars PROVE TypeOK'
  OBVIOUS
<1>1. ASSUME NEW state \in LowStates, OnLowState(state) PROVE TypeOK'
  BY <1>1, BridgeAssumption
     DEF TypeOK, OnLowState, commandVars, rampVars, outVars
<1>2. ASSUME NEW msg \in JointCommands, OnJointCommand(msg) PROVE TypeOK'
  BY <1>2, CommandOfType, MaxCommandAgeType
     DEF TypeOK, OnJointCommand, lowstateVars, rampVars, outVars
<1>3. CASE OnTimerLocked
  <2>1. ramp_started' \in BOOLEAN /\ ramp_age' \in 0 .. RampTicks /\ start_q' \in FloatPoses
    BY <1>3, BridgeAssumption DEF OnTimerLocked, TypeOK, StartsRamp
  <2>2. RampProgress(ramp_started', ramp_age') \in 0 .. RampSteps
    BY <2>1, RampProgressType
  <2>3. CommandStale \in BOOLEAN
    BY DEF CommandStale, TypeOK
  <2>4. snap' \in Snapshots
    BY <1>3, <2>1, <2>2, <2>3, ZeroTypes DEF OnTimerLocked, TypeOK, Snapshots
  <2> QED
    BY <1>3, <2>1, <2>4 DEF OnTimerLocked, TypeOK, lowstateVars, commandVars, outVars
<1>4. CASE OnTimerWrite
  <2>1. snap \in Snapshots
    BY DEF TypeOK
  <2>2. Target \in FloatPoses
    BY <2>1, BlendType DEF Target, Snapshots
  <2>3. low_cmd' \in [q : FloatPoses, kd : Nat]
    BY <1>4, <2>2, ClampPoseType, BridgeAssumption DEF OnTimerWrite, DampedKd
  <2>4. published' \in [q : FloatPoses, contacts : [Feet -> BOOLEAN]]
    BY <1>4, <2>1, ContactsType DEF OnTimerWrite, SnapMeasurement, Measurement, Snapshots
  <2>5. sent' \in [phase : {"silent", "hold", "drive"}, progress : 0 .. RampSteps,
                   command : Poses]
    BY <1>4, <2>1 DEF OnTimerWrite, TypeOK, Snapshots
  <2> QED
    BY <1>4, <2>3, <2>4, <2>5, ZeroTypes
       DEF OnTimerWrite, TypeOK, lowstateVars, commandVars, rampVars
<1>5. CASE Tick
  <2>1. command_age' \in 0 .. MaxCommandAge
    BY <1>5, OlderType, MaxCommandAgeType DEF Tick, TypeOK
  <2>2. ramp_age' \in 0 .. RampTicks
    BY <1>5, OlderType, BridgeAssumption DEF Tick, TypeOK
  <2> QED
    BY <1>5, <2>1, <2>2 DEF Tick, TypeOK, lowstateVars, commandVars, rampVars, outVars
<1>6. CASE UNCHANGED vars
  BY <1>6 DEF TypeOK, vars, lowstateVars, commandVars, rampVars, outVars
<1> QED
  BY <1>1, <1>2, <1>3, <1>4, <1>5, <1>6 DEF Next

\* Every variable keeps its type, in particular the ages stay within their
\* bounds and an accepted command is a number for every motor.
THEOREM TypeCorrect == Spec => []TypeOK
BY TypeInit, TypeNext, PTL DEF Spec

-----------------------------------------------------------------------------
(* The inductive invariant *)

LEMMA BridgeInvInit == Init => BridgeInv
<1> SUFFICES ASSUME Init PROVE BridgeInv
  OBVIOUS
<1>1. ~InTimer /\ ~has_lowstate /\ ~ramp_started
  BY DEF Init, InTimer, NullSnap
<1>2. sent.phase = "silent" /\ sent.progress = 0
  BY DEF Init
<1> QED
  BY <1>1, <1>2 DEF BridgeInv, MeasuredWhole, SnapCurrent, RampFounded,
                    SentBehind, RampStartsInTimer

LEMMA RampProgressMonotone ==
    ASSUME NEW age \in 0 .. RampTicks
    PROVE  /\ Older(age, RampTicks) \in 0 .. RampTicks
           /\ RampProgress(TRUE, age) <= RampProgress(TRUE, Older(age, RampTicks))
BY BridgeAssumption DEF Older, RampProgress, RampSteps

LEMMA BridgeInvNext == TypeOK /\ BridgeInv /\ [Next]_vars => BridgeInv'
<1> SUFFICES ASSUME TypeOK, BridgeInv, [Next]_vars PROVE BridgeInv'
  OBVIOUS
<1> USE DEF InTimer
<1>1. ASSUME NEW state \in LowStates, OnLowState(state) PROVE BridgeInv'
  <2>1. MeasuredWhole'
    BY <1>1 DEF OnLowState, MeasuredWhole
  <2>2. SnapCurrent'
    BY <1>1 DEF OnLowState, BridgeInv, SnapCurrent, commandVars, rampVars
  <2>3. RampFounded' /\ SentBehind' /\ RampStartsInTimer'
    BY <1>1 DEF OnLowState, BridgeInv, RampFounded, SentBehind, RampStartsInTimer,
                commandVars, rampVars, outVars
  <2> QED
    BY <2>1, <2>2, <2>3 DEF BridgeInv
<1>2. ASSUME NEW msg \in JointCommands, OnJointCommand(msg) PROVE BridgeInv'
  <2>1. MeasuredWhole' /\ SnapCurrent'
    BY <1>2 DEF OnJointCommand, BridgeInv, MeasuredWhole, SnapCurrent, lowstateVars
  <2>2. RampFounded' /\ SentBehind' /\ RampStartsInTimer'
    BY <1>2 DEF OnJointCommand, BridgeInv, RampFounded, SentBehind, RampStartsInTimer,
                rampVars, outVars
  <2> QED
    BY <2>1, <2>2 DEF BridgeInv
<1>3. CASE OnTimerLocked
  <2>1. MeasuredWhole'
    BY <1>3 DEF OnTimerLocked, BridgeInv, MeasuredWhole, lowstateVars
  <2>2. RampFounded'
    BY <1>3 DEF OnTimerLocked, BridgeInv, RampFounded, MeasuredWhole, StartsRamp,
                MeasuredPoses, commandVars
  <2>3. RampProgress(ramp_started', ramp_age') \in 0 .. RampSteps
    BY <1>3, RampProgressType, BridgeAssumption DEF OnTimerLocked, TypeOK, StartsRamp
  <2>4. SnapCurrent'
    <3>1. CASE has_lowstate
      <4>1. /\ snap'.have_state
            /\ snap'.have_command = has_command
            /\ snap'.measured = measured_q
            /\ snap'.force = foot_force
            /\ snap'.command = command_q
            /\ snap'.start_q = start_q'
            /\ snap'.progress = RampProgress(ramp_started', ramp_age')
            /\ snap'.command_stale = CommandStale
        BY <1>3, <3>1 DEF OnTimerLocked
      <4>2. \E state \in LowStates : snap'.measured = state.q /\ snap'.force = state.force
        BY <3>1, <4>1 DEF BridgeInv, MeasuredWhole
      <4>3. has_command => ramp_started'
        BY <1>3, <3>1 DEF OnTimerLocked, StartsRamp
      <4>4. ~has_command => CommandStale
        BY DEF CommandStale
      <4>5. has_lowstate' = has_lowstate /\ has_command' = has_command
            /\ command_q' = command_q
        BY <1>3 DEF OnTimerLocked, lowstateVars, commandVars
      <4> QED
        BY <3>1, <4>1, <4>2, <4>3, <4>4, <4>5, <2>3 DEF SnapCurrent
    <3>2. CASE ~has_lowstate
      BY <1>3, <3>2 DEF OnTimerLocked, SnapCurrent, NullSnap
    <3> QED
      BY <3>1, <3>2
  <2>5. SentBehind'
    <3>1. CASE sent.phase = "drive"
      <4>1. has_command /\ ramp_started /\ ~StartsRamp
            /\ sent.progress <= RampProgress(ramp_started, ramp_age)
        BY <3>1 DEF BridgeInv, SentBehind, StartsRamp
      <4>2. /\ ramp_started' = ramp_started /\ ramp_age' = ramp_age
            /\ has_command' = has_command /\ sent' = sent
        BY <1>3, <4>1 DEF OnTimerLocked, commandVars, outVars, TypeOK
      <4>3. snap'.have_state => snap'.progress = RampProgress(ramp_started, ramp_age)
        BY <1>3, <4>2 DEF OnTimerLocked, NullSnap
      <4> QED
        BY <3>1, <4>1, <4>2, <4>3 DEF SentBehind
    <3>2. CASE sent.phase # "drive"
      BY <1>3, <3>2 DEF OnTimerLocked, BridgeInv, SentBehind, outVars
    <3> QED
      BY <3>1, <3>2
  <2>6. RampStartsInTimer'
    <3> SUFFICES ASSUME ramp_started', sent.phase # "drive"
                 PROVE  /\ snap'.have_state
                        /\ snap'.start_q = snap'.measured
                        /\ RampTicks > 0 => snap'.progress = 0
      BY <1>3 DEF OnTimerLocked, RampStartsInTimer, outVars
    <3>1. ~ramp_started
      BY <1>3 DEF OnTimerLocked, BridgeInv, RampStartsInTimer
    <3>2. StartsRamp
      BY <1>3, <3>1 DEF OnTimerLocked
    <3> QED
      BY <1>3, <3>2 DEF OnTimerLocked, StartsRamp, RampProgress
  <2> QED
    BY <2>1, <2>2, <2>4, <2>5, <2>6 DEF BridgeInv
<1>4. CASE OnTimerWrite
  <2>1. MeasuredWhole' /\ SnapCurrent' /\ RampFounded'
    BY <1>4 DEF OnTimerWrite, BridgeInv, MeasuredWhole, SnapCurrent, RampFounded,
                NullSnap, lowstateVars, commandVars, rampVars
  <2>2. CASE snap.have_command
    <3>1. /\ has_command /\ ramp_started
          /\ snap.progress <= RampProgress(ramp_started, ramp_age)
      BY <1>4, <2>2 DEF OnTimerWrite, BridgeInv, SnapCurrent
    <3>2. sent'.phase = "drive" /\ sent'.progress = snap.progress
      BY <1>4, <2>2 DEF OnTimerWrite
    <3>3. SentBehind' /\ RampStartsInTimer'
      BY <1>4, <3>1, <3>2 DEF OnTimerWrite, SentBehind, RampStartsInTimer,
                              NullSnap, commandVars, rampVars
    <3> QED
      BY <2>1, <3>3 DEF BridgeInv
  <2>3. CASE ~snap.have_command
    <3>1. ~has_command /\ ~ramp_started
      BY <1>4, <2>3 DEF OnTimerWrite, BridgeInv, SnapCurrent, RampFounded
    <3>2. sent.phase # "drive" /\ sent.progress = 0
      BY <3>1 DEF BridgeInv, SentBehind
    <3>3. sent'.phase = "hold" /\ sent'.progress = 0
      BY <1>4, <2>3, <3>2 DEF OnTimerWrite, TypeOK
    <3>4. SentBehind' /\ RampStartsInTimer'
      BY <1>4, <3>1, <3>3 DEF OnTimerWrite, SentBehind, RampStartsInTimer, rampVars
    <3> QED
      BY <2>1, <3>4 DEF BridgeInv
  <2> QED
    BY <2>2, <2>3
<1>5. CASE Tick
  <2>1. MeasuredWhole' /\ RampFounded' /\ RampStartsInTimer'
    BY <1>5 DEF Tick, BridgeInv, MeasuredWhole, RampFounded, RampStartsInTimer,
                lowstateVars, commandVars, rampVars, outVars
  <2>2. ramp_started => /\ ramp_age' \in 0 .. RampTicks
                        /\ RampProgress(ramp_started, ramp_age)
                             <= RampProgress(ramp_started, ramp_age')
    BY <1>5, RampProgressMonotone DEF Tick, TypeOK
  <2>3. /\ RampProgress(ramp_started, ramp_age) \in Int
        /\ ramp_started => RampProgress(ramp_started, ramp_age') \in Int
    BY <2>2, RampProgressType, BridgeAssumption DEF TypeOK, RampSteps
  <2>4. snap.progress \in Int /\ sent.progress \in Int
    BY BridgeAssumption DEF TypeOK, Snapshots, RampSteps
  <2>5. SnapCurrent'
    BY <1>5, <2>2, <2>3, <2>4
       DEF Tick, BridgeInv, SnapCurrent, lowstateVars, commandVars, rampVars
  <2>6. SentBehind'
    BY <1>5, <2>2, <2>3, <2>4
       DEF Tick, BridgeInv, SentBehind, commandVars, rampVars, outVars
  <2> QED
    BY <2>1, <2>5, <2>6 DEF BridgeInv
<1>6. CASE UNCHANGED vars
  BY <1>6 DEF BridgeInv, MeasuredWhole, SnapCurrent, RampFounded, SentBehind,
              RampStartsInTimer, vars, lowstateVars, commandVars, rampVars, outVars
<1> QED
  BY <1>1, <1>2, <1>3, <1>4, <1>5, <1>6 DEF Next

\* The copy onTimer works on unlocked never disagrees with what the executor
\* holds, and no LowCmd is ahead of the ramp.
THEOREM BridgeInvariant == Spec => []BridgeInv
BY TypeInit, TypeNext, BridgeInvInit, BridgeInvNext, PTL DEF Spec

-----------------------------------------------------------------------------
(* Safety *)

\* Every LowCmd keeps every motor within its limits, whatever was measured or
\* commanded and however far the ramp has come, or sends it NaN because there
\* was no number to hold or to blend for that very motor.
THEOREM OnlyNaNEscapes == Spec => []OnlyNaNLeavesLimits
<1>1. Init => OnlyNaNLeavesLimits
  BY DEF Init, OnlyNaNLeavesLimits
<1>2. TypeOK /\ BridgeInv /\ OnlyNaNLeavesLimits /\ [Next]_vars => OnlyNaNLeavesLimits'
  <2> SUFFICES ASSUME TypeOK, BridgeInv, OnlyNaNLeavesLimits, [Next]_vars
               PROVE  OnlyNaNLeavesLimits'
    OBVIOUS
  <2>1. CASE OnTimerWrite
    <3> SUFFICES ASSUME NEW m \in Motors
                 PROVE  \/ low_cmd'.q[m] \in Limits(m)
                        \/ /\ low_cmd'.q[m] = NaN
                           /\ NoNumberToHold(m)' \/ NoNumberToBlend(m)'
      BY DEF OnlyNaNLeavesLimits
    <3>1. Target \in FloatPoses
      BY BlendType DEF TypeOK, Target, Snapshots
    <3>2. low_cmd'.q[m] = go2ClampJoint(m, Target[m]) /\ Target[m] \in Numbers
      BY <2>1, <3>1 DEF OnTimerWrite, ClampPose, FloatPoses
    <3>3. CASE Target[m] # NaN
      BY <3>2, <3>3, ClampType
    <3>4. CASE Target[m] = NaN
      <4>1. low_cmd'.q[m] = NaN
        BY <3>2, <3>4, ClampType
      <4>2. CASE ~snap.have_command
        <5>1. Target = snap.measured
          BY <4>2 DEF Target
        <5>2. published'.q = Target /\ sent'.phase = "hold"
          BY <2>1, <4>2, <5>1 DEF OnTimerWrite, SnapMeasurement, Measurement, TypeOK
        <5> QED
          BY <3>4, <4>1, <5>2 DEF NoNumberToHold
      <4>3. CASE snap.have_command
        <5>1. /\ snap.start_q = start_q
              /\ start_q' = start_q
              /\ start_q[m] \in Numbers
              /\ snap.command[m] \in Int
              /\ snap.progress \in 0 .. RampSteps
          BY <2>1 DEF OnTimerWrite, BridgeInv, SnapCurrent, rampVars, TypeOK, Snapshots,
                      FloatPoses, Poses
        <5>2. BlendOf(start_q[m], ToFloat(snap.command[m]), snap.progress) = NaN
          BY <3>4, <4>3, <5>1, BlendOfMotor DEF Target
        <5>3. start_q[m] \notin Int \/
                (snap.progress = 0 /\ ToFloat(snap.command[m]) \notin Int)
          BY <5>1, <5>2, BlendOfNaN, ToFloatType
        <5>4. ToFloat(snap.command[m]) \notin Int => ~FitsFloat(snap.command[m])
          BY <5>1, ToFloatType
        <5>5. /\ sent'.phase = "drive"
              /\ sent'.progress = snap.progress
              /\ sent'.command = snap.command
          BY <2>1, <4>3 DEF OnTimerWrite
        <5> QED
          BY <4>1, <5>1, <5>3, <5>4, <5>5 DEF NoNumberToBlend
      <4> QED
        BY <4>2, <4>3
    <3> QED
      BY <3>3, <3>4
  <2>2. CASE OnTimerLocked
    <3>1. UNCHANGED outVars
      BY <2>2 DEF OnTimerLocked
    <3>2. sent.phase = "drive" => start_q' = start_q
      BY <2>2 DEF OnTimerLocked, BridgeInv, SentBehind, StartsRamp
    <3> QED
      BY <3>1, <3>2 DEF OnlyNaNLeavesLimits, NoNumberToHold, NoNumberToBlend, outVars
  <2>3. CASE UNCHANGED <<rampVars, outVars>>
    BY <2>3 DEF OnlyNaNLeavesLimits, NoNumberToHold, NoNumberToBlend, rampVars, outVars
  <2> QED
    BY <2>1, <2>2, <2>3 DEF Next, OnLowState, OnJointCommand, Tick, vars
<1> QED
  BY <1>1, <1>2, TypeCorrect, BridgeInvariant, PTL DEF Spec

\* The joints and contacts published together were measured together, though
\* the DDS thread may store a new LowState while they are being published.
THEOREM NeverTorn == Spec => []NoTornMeasurement
<1>1. Init => NoTornMeasurement
  BY DEF Init, NoTornMeasurement
<1>2. BridgeInv /\ NoTornMeasurement /\ [Next]_vars => NoTornMeasurement'
  <2> SUFFICES ASSUME BridgeInv, NoTornMeasurement, [Next]_vars
               PROVE  NoTornMeasurement'
    OBVIOUS
  <2>1. CASE OnTimerWrite
    <3>1. PICK state \in LowStates : snap.measured = state.q /\ snap.force = state.force
      BY <2>1 DEF OnTimerWrite, BridgeInv, SnapCurrent
    <3>2. published' = Measurement(state.q, state.force)
      BY <2>1, <3>1 DEF OnTimerWrite, SnapMeasurement
    <3> QED
      BY <3>2 DEF NoTornMeasurement
  <2>2. CASE UNCHANGED outVars
    BY <2>2 DEF NoTornMeasurement, outVars
  <2> QED
    BY <2>1, <2>2 DEF Next, OnLowState, OnJointCommand, OnTimerLocked, Tick, vars
<1> QED
  BY <1>1, <1>2, BridgeInvariant, PTL DEF Spec

\* The index of a name is that of the motor that bears it.
LEMMA MotorIndexSound ==
    ASSUME NEW name, NEW m \in Motors, go2MotorIndex(name) = m
    PROVE  kGo2MotorJointNames[m] = name
<1>1. m # NoMotor
  BY MotorCountAssumption DEF Motors, NoMotor
<1>2. name \in JointNames
  BY <1>1 DEF go2MotorIndex
<1> QED
  BY <1>2 DEF go2MotorIndex, JointNames

\* What a command drives to was carried whole by one message.
THEOREM CommandsAreWhole == Spec => []CommandFromOneMessage
<1>1. Init => CommandFromOneMessage
  BY DEF Init, CommandFromOneMessage
<1>2. CommandFromOneMessage /\ [Next]_vars => CommandFromOneMessage'
  <2> SUFFICES ASSUME CommandFromOneMessage, [Next]_vars
               PROVE  CommandFromOneMessage'
    OBVIOUS
  <2>1. ASSUME NEW msg \in JointCommands, OnJointCommand(msg)
        PROVE  CommandFromOneMessage'
    <3>1. ASSUME NEW m \in Motors
          PROVE  \E i \in KnownPairs(msg) : /\ msg.name[i] = kGo2MotorJointNames[m]
                                            /\ msg.position[i] = command_q'[m]
      <4> DEFINE S == PairsOf(msg, m)
      <4>1. S # {} /\ S \subseteq 1 .. PairCount(msg)
        BY <2>1 DEF OnJointCommand, Accepts, AllSeen, PairsOf, KnownPairs
      <4>2. PairCount(msg) \in Nat
        BY BridgeAssumption DEF PairCount
      <4>3. \E i \in S : \A j \in S : j <= i
        BY ONLY <4>1, <4>2, LastIndexExists
      <4>4. PICK i \in S : i = CHOOSE k \in S : \A j \in S : j <= k
        BY <4>3
      <4>5. command_q'[m] = msg.position[i]
        BY <2>1, <4>1, <4>4 DEF OnJointCommand, CommandOf
      <4>6. i \in KnownPairs(msg) /\ go2MotorIndex(msg.name[i]) = m
        BY <4>4 DEF PairsOf
      <4> QED
        BY <4>5, <4>6, MotorIndexSound
    <3> QED
      BY <3>1 DEF CommandFromOneMessage
  <2>2. CASE UNCHANGED commandVars
    BY <2>2 DEF CommandFromOneMessage, commandVars
  <2> QED
    BY <2>1, <2>2 DEF Next, OnLowState, OnTimerLocked, OnTimerWrite, Tick, vars
<1> QED
  BY <1>1, <1>2, PTL DEF Spec

\* CHAMP takes over exactly where the robot was measured to be.
THEOREM HandoverIsBumpless == Spec => BumplessHandover
<1>1. TypeOK /\ BridgeInv /\ [Next]_vars
        => [(sent.phase # "drive" /\ sent'.phase = "drive" /\ RampTicks > 0)
              => \A m \in Motors :
                    FitsFloat(sent'.command[m])
                      => low_cmd'.q[m] = go2ClampJoint(m, published'.q[m])]_vars
  <2> SUFFICES ASSUME TypeOK, BridgeInv, Next,
                      sent.phase # "drive", sent'.phase = "drive", RampTicks > 0,
                      NEW m \in Motors, FitsFloat(sent'.command[m])
               PROVE  low_cmd'.q[m] = go2ClampJoint(m, published'.q[m])
    OBVIOUS
  <2>1. OnTimerWrite
    BY DEF Next, OnLowState, OnJointCommand, OnTimerLocked, Tick, outVars
  <2>2. snap.have_command
    BY <2>1 DEF OnTimerWrite, TypeOK
  <2>3. ramp_started
    BY <2>1, <2>2 DEF OnTimerWrite, BridgeInv, SnapCurrent
  <2>4. snap.progress = 0 /\ snap.start_q = snap.measured
    BY <2>3 DEF BridgeInv, RampStartsInTimer
  <2>5. /\ snap.measured[m] \in Numbers
        /\ snap.command[m] \in Int
        /\ FitsFloat(snap.command[m])
    BY <2>1, <2>2 DEF OnTimerWrite, TypeOK, Snapshots, FloatPoses, Poses
  <2>6. Target[m] = BlendOf(snap.measured[m], snap.command[m], 0)
    BY <2>2, <2>4, <2>5, BlendOfMotor, ToFloatType DEF Target
  <2>7. Target[m] = snap.measured[m]
    BY <2>5, <2>6, BlendAtStart
  <2>8. low_cmd'.q[m] = go2ClampJoint(m, Target[m]) /\ published'.q = snap.measured
    BY <2>1 DEF OnTimerWrite, SnapMeasurement, Measurement, ClampPose
  <2> QED
    BY <2>7, <2>8
<1> QED
  BY <1>1, TypeCorrect, BridgeInvariant, PTL DEF Spec, BumplessHandover

-----------------------------------------------------------------------------
(* The ramp *)

\* Along one ramp of one motor, a later point lies between an earlier one and
\* the end.
LEMMA RampPoint ==
    ASSUME NEW R \in Nat \ {0}, NEW p \in 0 .. R, NEW r \in 0 .. R, p <= r,
           NEW s \in Int, NEW c \in Int
    PROVE  LET at(k) == s + (k * (c - s)) \div R
           IN  /\ at(p) \in Int /\ at(r) \in Int
               /\ Between(at(p), at(r), c)
<1> DEFINE d == c - s
           at(k) == s + (k * d) \div R
<1>1. d \in Int /\ p * d \in Int /\ r * d \in Int /\ R * d \in Int
  OBVIOUS
<1>2. at(p) \in Int /\ at(r) \in Int
  BY <1>1
<1>3. s + (R * d) \div R = c
  BY <1>1, DivExact
<1>4. CASE d >= 0
  <2>1. p * d <= r * d /\ r * d <= R * d
    BY <1>1, <1>4, MulMonotone
  <2>2. (p * d) \div R <= (r * d) \div R /\ (r * d) \div R <= (R * d) \div R
    BY <1>1, <2>1, DivMonotone
  <2>3. at(p) <= at(r) /\ at(r) <= c
    BY <1>1, <1>3, <2>2
  <2> QED
    BY <1>2, <2>3 DEF Between
<1>5. CASE d < 0
  <2>1. r * d <= p * d /\ R * d <= r * d
    BY <1>1, <1>5, MulMonotone
  <2>2. (r * d) \div R <= (p * d) \div R /\ (R * d) \div R <= (r * d) \div R
    BY <1>1, <2>1, DivMonotone
  <2>3. at(r) <= at(p) /\ c <= at(r)
    BY <1>1, <1>3, <2>2
  <2> QED
    BY <1>2, <2>3 DEF Between
<1> QED
  BY <1>1, <1>4, <1>5

\* Clamping keeps what lies between two angles between them.
LEMMA ClampBetween ==
    ASSUME NEW m \in Motors, NEW a \in Int, NEW x \in Int, NEW b \in Int,
           Between(a, x, b)
    PROVE  Between(go2ClampJoint(m, a), go2ClampJoint(m, x), go2ClampJoint(m, b))
<1> DEFINE lo == kGo2JointLower[m]
           up == kGo2JointUpper[m]
           clamp(q) == IF q < lo THEN lo ELSE IF up < q THEN up ELSE q
<1>1. lo \in Int /\ up \in Int /\ lo <= up
  BY LimitsAssumption DEF Poses
<1>2. ASSUME NEW q \in Int PROVE go2ClampJoint(m, q) = clamp(q)
  BY <1>1, LessInt DEF go2ClampJoint
<1>3. Between(clamp(a), clamp(x), clamp(b))
  BY <1>1 DEF Between
<1> QED
  BY <1>2, <1>3

\* A LowCmd that drives is the clamped point of the ramp it was sent for.
SentOnRamp ==
    sent.phase = "drive" =>
        low_cmd.q = ClampPose(Blend(start_q, sent.command, sent.progress))

LEMMA SentOnRampInvariant == Spec => []SentOnRamp
<1>1. Init => SentOnRamp
  BY DEF Init, SentOnRamp
<1>2. TypeOK /\ BridgeInv /\ SentOnRamp /\ [Next]_vars => SentOnRamp'
  <2> SUFFICES ASSUME TypeOK, BridgeInv, SentOnRamp, [Next]_vars PROVE SentOnRamp'
    OBVIOUS
  <2>1. CASE OnTimerWrite
    <3>1. CASE snap.have_command
      <4>1. snap.start_q = start_q /\ start_q' = start_q
        BY <2>1 DEF OnTimerWrite, BridgeInv, SnapCurrent, rampVars
      <4> QED
        BY <2>1, <3>1, <4>1 DEF OnTimerWrite, Target, SentOnRamp
    <3>2. CASE ~snap.have_command
      BY <2>1, <3>2 DEF OnTimerWrite, SentOnRamp, TypeOK
    <3> QED
      BY <3>1, <3>2
  <2>2. CASE OnTimerLocked
    <3>1. sent.phase = "drive" => start_q' = start_q
      BY <2>2 DEF OnTimerLocked, BridgeInv, SentBehind, StartsRamp
    <3> QED
      BY <2>2, <3>1 DEF OnTimerLocked, SentOnRamp, outVars
  <2>3. CASE UNCHANGED <<rampVars, outVars>>
    BY <2>3 DEF SentOnRamp, rampVars, outVars
  <2> QED
    BY <2>1, <2>2, <2>3 DEF Next, OnLowState, OnJointCommand, Tick, vars
<1> QED
  BY <1>1, <1>2, TypeCorrect, BridgeInvariant, PTL DEF Spec

\* With one and the same command, the legs are never sent back, whatever the
\* timer's lateness, the staleness of the command and the limits.
THEOREM RampIsMonotone == Spec => RampNeverGoesBack
<1>1. TypeOK /\ BridgeInv /\ SentOnRamp /\ SentOnRamp' /\ [Next]_vars
        => [(sent.phase = "drive" /\ sent'.phase = "drive" /\ sent'.command = sent.command)
              => \A m \in Motors :
                    (low_cmd.q[m] # NaN /\ low_cmd'.q[m] # NaN)
                      => Between(low_cmd.q[m], low_cmd'.q[m],
                                 go2ClampJoint(m, ToFloat(sent.command[m])))]_vars
  <2> SUFFICES ASSUME TypeOK, BridgeInv, SentOnRamp, SentOnRamp', Next,
                      sent.phase = "drive", sent'.phase = "drive",
                      sent'.command = sent.command,
                      NEW m \in Motors, low_cmd.q[m] # NaN, low_cmd'.q[m] # NaN
               PROVE  Between(low_cmd.q[m], low_cmd'.q[m],
                              go2ClampJoint(m, ToFloat(sent.command[m])))
    OBVIOUS
  <2> DEFINE c == ToFloat(sent.command[m])
             s == start_q[m]
             p == sent.progress
             r == sent'.progress
             at(k) == s + (k * (c - s)) \div RampSteps
  <2>1. RampSteps \in Nat \ {0}
    BY RampStepsType
  <2>2. s \in Numbers /\ c \in Numbers /\ c # NaN /\ p \in 0 .. RampSteps
    BY ToFloatType DEF TypeOK, Poses, FloatPoses
  <2>3. start_q' = start_q
    BY DEF Next, OnLowState, OnJointCommand, OnTimerLocked, OnTimerWrite, Tick, rampVars,
           BridgeInv, SentBehind, StartsRamp
  <2>4. r \in 0 .. RampSteps /\ p <= r
    <3>1. CASE OnTimerWrite
      <4>1. snap.have_command
        BY <3>1 DEF OnTimerWrite, BridgeInv, SentBehind, SnapCurrent
      <4> QED
        BY <3>1, <4>1 DEF OnTimerWrite, TypeOK, Snapshots, BridgeInv, SentBehind
    <3>2. CASE UNCHANGED outVars
      BY <2>1, <2>2, <3>2 DEF outVars
    <3> QED
      BY <3>1, <3>2 DEF Next, OnLowState, OnJointCommand, OnTimerLocked, Tick
  <2>5. /\ low_cmd.q[m] = go2ClampJoint(m, BlendOf(s, c, p))
        /\ low_cmd'.q[m] = go2ClampJoint(m, BlendOf(s, c, r))
    BY <2>3, BlendOfMotor DEF SentOnRamp, ClampPose
  <2>6. BlendOf(s, c, p) \in Numbers /\ BlendOf(s, c, r) \in Numbers
    BY <2>2, <2>4, BlendOfType
  <2>7. BlendOf(s, c, p) # NaN /\ BlendOf(s, c, r) # NaN
    BY <2>5, <2>6, ClampType
  <2> HIDE DEF c, s, p, r
  <2>8. CASE s \in Int /\ c \in Int
    <3>1. at(p) \in Int /\ at(r) \in Int /\ Between(at(p), at(r), c)
      BY <2>1, <2>2, <2>4, <2>8, RampPoint
    <3>2. BlendOf(s, c, p) = at(p) /\ BlendOf(s, c, r) = at(r)
      BY <2>2, <2>4, <2>8, BlendOfInts
    <3> HIDE DEF at
    <3>3. Between(go2ClampJoint(m, at(p)), go2ClampJoint(m, at(r)), go2ClampJoint(m, c))
      BY <2>8, <3>1, ClampBetween
    <3> QED
      BY <2>5, <3>2, <3>3 DEF c
  <2>9. CASE ~(s \in Int /\ c \in Int)
    <3>1. BlendOf(s, c, p) = BlendOf(s, c, r)
      BY <2>2, <2>4, <2>7, <2>9, BlendOfSpecials
    <3>2. /\ go2ClampJoint(m, BlendOf(s, c, p)) \in Int
          /\ go2ClampJoint(m, c) \in Int
      BY <2>2, <2>6, <2>7, ClampType
    <3>3. ASSUME NEW a \in Int, NEW b \in Int PROVE Between(a, a, b)
      BY DEF Between
    <3> QED
      BY <2>5, <3>1, <3>2, <3>3 DEF c
  <2> QED
    BY <2>8, <2>9
<1> QED
  BY <1>1, TypeCorrect, BridgeInvariant, SentOnRampInvariant, PTL
     DEF Spec, RampNeverGoesBack

-----------------------------------------------------------------------------
(* Every behaviour of the two threads is, through the mapping of the       *)
(* instance Driver, one of the driver that has no threads, no mutex and    *)
(* no clock.                                                               *)

LEMMA SameMotors == Driver!Motors = Motors
BY DEF Driver!Motors, Motors

LEMMA SameJointClamp ==
    ASSUME NEW m, NEW q
    PROVE  Driver!go2ClampJoint(m, q) = go2ClampJoint(m, q)
BY Zenon DEF Driver!go2ClampJoint, go2ClampJoint, Driver!Less, Less

LEMMA SameClamp == ASSUME NEW pose PROVE Driver!ClampPose(pose) = ClampPose(pose)
BY SameMotors, SameJointClamp DEF Driver!ClampPose, ClampPose

\* Where a motor's numbers are whole, the clamped blend is the driver's point;
\* where they are not, it is within the limits or NaN.
LEMMA BlendIsOnRamp ==
    ASSUME NEW start \in FloatPoses, NEW cmd \in Poses, NEW p \in 0 .. RampSteps
    PROVE  Driver!OnRamp(ClampPose(Blend(start, cmd, p)), start, FloatPose(cmd), p)
<1> DEFINE t == ClampPose(Blend(start, cmd, p))
           f == FloatPose(cmd)
<1>1. ASSUME NEW m \in Motors
      PROVE  IF start[m] \in Int /\ f[m] \in Int
             THEN t[m] = Driver!go2ClampJoint(m, Driver!Along(start[m], f[m], p))
             ELSE t[m] \in Driver!Limits(m) \cup {NaN}
  <2> DEFINE s == start[m]
             c == ToFloat(cmd[m])
  <2>1. f[m] = c
    BY DEF FloatPose
  <2>2. t[m] = go2ClampJoint(m, BlendOf(s, c, p))
    BY BlendOfMotor DEF ClampPose
  <2>3. s \in Numbers /\ c \in Numbers
    BY ToFloatType DEF FloatPoses, Poses
  <2> HIDE DEF s, c
  <2>4. CASE s \in Int /\ c \in Int
    <3>1. BlendOf(s, c, p) = Driver!Along(s, c, p)
      BY <2>4, BlendOfInts DEF Driver!Along
    <3>2. t[m] = Driver!go2ClampJoint(m, Driver!Along(s, c, p))
      BY <2>2, <3>1, SameJointClamp
    <3> HIDE DEF t, f
    <3> QED
      BY <2>1, <2>4, <3>2, Zenon DEF s
  <2>5. CASE ~(s \in Int /\ c \in Int)
    <3>1. t[m] \in Limits(m) \cup {NaN}
      BY <2>2, <2>3, BlendOfType, ClampType
    <3>2. t[m] \in Driver!Limits(m) \cup {NaN}
      BY <3>1, Zenon DEF Limits, Driver!Limits
    <3> HIDE DEF t, f
    <3> QED
      BY <2>1, <2>5, <3>2, Zenon DEF s
  <2> QED
    BY <2>4, <2>5
<1> HIDE DEF t, f
<1>2. Driver!OnRamp(t, start, f, p)
  BY <1>1, SameMotors, Zenon DEF Driver!OnRamp
<1> QED
  BY <1>2 DEF t, f

LEMMA RefinesInit == Init => Driver!Init
<1> SUFFICES ASSUME Init PROVE Driver!Init
  OBVIOUS
<1>1. Driver!Zero = ZeroPose
  BY DEF Driver!Zero, ZeroPose, Driver!Motors, Motors
<1>2. low_cmd.kd # DampedKd
  BY BridgeAssumption DEF Init, DampedKd
<1>3. FloatPose(ZeroPose) = ZeroPose
  <2>1. ToFloat(0) = 0
    BY BridgeAssumption, ToFloatType DEF FitsFloat
  <2> QED
    BY <2>1 DEF FloatPose, ZeroPose
<1> QED
  BY <1>1, <1>2, <1>3 DEF Init, Driver!Init

LEMMA RefinesNext ==
    TypeOK /\ BridgeInv /\ [Next]_vars => [Driver!Next]_(Driver!vars)
<1> SUFFICES ASSUME TypeOK, BridgeInv, [Next]_vars
             PROVE  Driver!Next \/ UNCHANGED Driver!vars
  OBVIOUS
<1>1. ASSUME NEW state \in LowStates, OnLowState(state) PROVE UNCHANGED Driver!vars
  BY <1>1 DEF OnLowState, Driver!vars, commandVars, rampVars, outVars
<1>2. ASSUME NEW msg \in JointCommands, OnJointCommand(msg) PROVE Driver!Next
  <2>1. Accepts(msg)
    BY <1>2 DEF OnJointCommand
  <2>2. FloatPose(CommandOf(msg)) \in
          {FloatPose(CommandOf(n)) : n \in {k \in JointCommands : Accepts(k)}}
    BY <2>1
  <2>3. Driver!Command(FloatPose(CommandOf(msg)))
    BY <1>2 DEF OnJointCommand, Driver!Command, rampVars, outVars
  <2> QED
    BY <2>2, <2>3 DEF Driver!Next
<1>3. CASE OnTimerLocked
  <2>1. UNCHANGED <<command_q, has_command, sent, low_cmd>>
    BY <1>3 DEF OnTimerLocked, commandVars, outVars
  <2>2. sent.phase = "drive" => start_q' = start_q
    BY <1>3 DEF OnTimerLocked, BridgeInv, SentBehind, StartsRamp
  <2> QED
    BY <2>1, <2>2 DEF Driver!vars
<1>4. CASE OnTimerWrite
  <2>1. /\ snap.have_command = has_command
        /\ snap.command = command_q
        /\ snap.start_q = start_q
        /\ ~has_command => snap.command_stale
        /\ snap.progress \in 0 .. RampSteps
        /\ snap.measured \in MeasuredPoses
        /\ start_q \in FloatPoses /\ command_q \in Poses
    BY <1>4 DEF OnTimerWrite, BridgeInv, SnapCurrent, TypeOK, Snapshots, MeasuredPoses
  <2>2. low_cmd'.q = Driver!ClampPose(Target)
    BY <1>4, SameClamp DEF OnTimerWrite
  <2>3. UNCHANGED <<command_q, has_command, start_q>>
    BY <1>4 DEF OnTimerWrite, commandVars, rampVars
  <2>4. CASE ~has_command
    <3>1. sent.phase # "drive" /\ sent.progress = 0
      BY <2>4 DEF BridgeInv, SentBehind
    <3>2. sent'.phase = "hold" /\ sent'.progress = sent.progress
      BY <1>4, <2>1, <2>4 DEF OnTimerWrite, TypeOK
    <3>3. low_cmd'.kd = DampedKd
      BY <1>4, <2>1, <2>4 DEF OnTimerWrite
    <3>4. Target = snap.measured
      BY <2>1, <2>4 DEF Target
    <3>5. Driver!Hold(snap.measured)
      BY <2>2, <2>3, <2>4, <3>1, <3>2, <3>3, <3>4 DEF Driver!Hold
    <3> QED
      BY <2>1, <3>5 DEF Driver!Next
  <2>5. CASE has_command
    <3>1. sent'.phase = "drive" /\ sent'.progress = snap.progress
      BY <1>4, <2>1, <2>5 DEF OnTimerWrite
    <3>2. Driver!OnRamp(low_cmd'.q, start_q, FloatPose(command_q), snap.progress)
      <4>1. Target = Blend(start_q, command_q, snap.progress)
        BY <2>1, <2>5 DEF Target
      <4>2. low_cmd'.q = ClampPose(Blend(start_q, command_q, snap.progress))
        BY <1>4, <4>1 DEF OnTimerWrite
      <4> QED
        BY <2>1, <4>2, BlendIsOnRamp
    <3>3. CASE sent.phase = "drive"
      <4>1. snap.progress >= sent.progress
        BY <1>4, <3>3 DEF OnTimerWrite, BridgeInv, SentBehind
      <4>2. Driver!Advance(snap.progress)
        BY <2>2, <2>3, <3>1, <3>2, <3>3, <4>1 DEF Driver!Advance
      <4> QED
        BY <2>1, <4>2 DEF Driver!Next
    <3>4. CASE sent.phase # "drive"
      <4>1. start_q \in MeasuredPoses
        BY <1>4, <2>5 DEF OnTimerWrite, BridgeInv, SnapCurrent, RampFounded
      <4>2. Driver!Engage(start_q, snap.progress)
        BY <2>2, <2>3, <2>5, <3>1, <3>2, <3>4 DEF Driver!Engage
      <4> QED
        BY <2>1, <4>1, <4>2 DEF Driver!Next
    <3> QED
      BY <3>3, <3>4
  <2> QED
    BY <2>4, <2>5
<1>5. CASE Tick
  BY <1>5 DEF Tick, Driver!vars, commandVars, rampVars, outVars
<1>6. CASE UNCHANGED vars
  BY <1>6 DEF vars, Driver!vars, commandVars, rampVars, outVars
<1> QED
  BY <1>1, <1>2, <1>3, <1>4, <1>5, <1>6 DEF Next

\* The bridge implements the driver the package README promises.
THEOREM BridgeImplementsDriver == Spec => ImplementsDriver
BY RefinesInit, RefinesNext, TypeCorrect, BridgeInvariant, PTL
   DEF Spec, ImplementsDriver, Driver!Spec
=============================================================================
