----------------------------- MODULE Placement -----------------------------
(***************************************************************************)
(* The pure helpers of decorators/GateDecorator_Billboards.cpp: squared    *)
(* distance, point + direction * scale, the seeded generator UnitRng with  *)
(* its unit-direction and range draws, and the snapshot query              *)
(* anyOfTypeNear.                                                          *)
(*                                                                         *)
(* Distances are in km.  A generator is identified by its seed and the     *)
(* number of draws already taken from it: the k-th draw of seed s is       *)
(* RngDraw(s, k), one of Buckets equally likely values standing for the    *)
(* uniform double in [0,1) that std::uniform_real_distribution returns.    *)
(* The generator is deterministic: the same seed gives the same draws in   *)
(* every pass, which is what std::mt19937_64 guarantees.                   *)
(***************************************************************************)
EXTENDS Integers

CONSTANTS
    Buckets,        \* number of distinct values a u01() draw is quantised to
    RngDraw(_, _)   \* RngDraw(seed, k): the k-th u01() draw of UnitRng(seed)

ASSUME Buckets \in Nat /\ Buckets >= 4

Point == Int \X Int \X Int

\* static inline double dist2(const V3& a, const V3& b)
dist2(a, b) ==
    (a[1] - b[1]) * (a[1] - b[1]) + (a[2] - b[2]) * (a[2] - b[2])
        + (a[3] - b[3]) * (a[3] - b[3])

\* static V3 add(const V3& a, const V3& b, double s): a + b * s
add(a, b, s) == << a[1] + b[1] * s, a[2] + b[2] * s, a[3] + b[3] * s >>

(***************************************************************************)
(* rand_unit draws u then t and returns (sqrt(1-z^2) cos 2 pi t,           *)
(* sqrt(1-z^2) sin 2 pi t, z) with z = 2u - 1.  Quantised to the six axis  *)
(* directions: the lower and upper thirds of z are the poles, the middle   *)
(* band is split by the quadrant of the angle 2 pi t.  The operator takes  *)
(* the generator position k and consumes draws k and k+1.                  *)
(***************************************************************************)
rand_unit(seed, k) ==
    LET u == RngDraw(seed, k)
        t == RngDraw(seed, k + 1)
    IN  CASE 3 * u < Buckets      -> << 0, 0, -1 >>
          [] 3 * u >= 2 * Buckets -> << 0, 0, 1 >>
          [] OTHER ->
               CASE 4 * t < Buckets     -> << 1, 0, 0 >>
                 [] 4 * t < 2 * Buckets -> << 0, 1, 0 >>
                 [] 4 * t < 3 * Buckets -> << -1, 0, 0 >>
                 [] OTHER               -> << 0, -1, 0 >>

\* UnitRng::range(a, b): a uniform double in [a, b), consuming draw k.
range(seed, k, a, b) == a + ((b - a) * RngDraw(seed, k)) \div Buckets

(***************************************************************************)
(* static bool anyOfTypeNear(all, p, typeID, withinM): some snapshot entry *)
(* of the given type (any type when typeID <= 0) lies strictly closer      *)
(* than withinM to p.                                                      *)
(***************************************************************************)
\* Seeded bug: the distance compared with the radius, not its square.
anyOfTypeNearUnsquared(all, p, typeID, withinM) ==
    \E t \in all :
        /\ typeID <= 0 \/ t.typeID = typeID
        /\ dist2(t.pos, p) < withinM

anyOfTypeNear(all, p, typeID, withinM) ==
    \E t \in all :
        /\ typeID <= 0 \/ t.typeID = typeID
        /\ dist2(t.pos, p) < withinM * withinM

=============================================================================
