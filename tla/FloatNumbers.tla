---------------------------- MODULE FloatNumbers ----------------------------
(***************************************************************************)
(* Floating point as far as the properties tell its values apart: whole    *)
(* numbers of some unit, exact, and beside them the infinities and NaN     *)
(* with the rules of IEEE 754.  NaN is below and above nothing, and no sum *)
(* or product gets rid of it.                                              *)
(***************************************************************************)
EXTENDS Integers

CONSTANTS NaN, PosInf, NegInf

Infinities == {PosInf, NegInf}

Numbers == Int \cup Infinities \cup {NaN}

ASSUME SpecialsAssumption ==
    /\ NaN \notin Int \cup Infinities
    /\ Infinities \cap Int = {}
    /\ PosInf # NegInf

\* x < y
Less(x, y) ==
    \/ x \in Int /\ y \in Int /\ x < y
    \/ x = NegInf /\ y \in Int \cup {PosInf}
    \/ x \in Int /\ y = PosInf

\* k * x for a k that is zero or positive: 0 * inf is NaN.
Times(k, x) ==
    IF x \in Int THEN k * x
    ELSE IF k = 0 THEN NaN
    ELSE x

\* x + y: inf - inf is NaN.
Plus(x, y) ==
    IF x \in Int /\ y \in Int THEN x + y
    ELSE IF x \in Int THEN y
    ELSE IF y \in Int \/ x = y THEN x
    ELSE NaN

\* x / n for a positive n, rounded down.
Over(x, n) == IF x \in Int THEN x \div n ELSE x
=============================================================================
