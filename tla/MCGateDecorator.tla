-------------------------- MODULE MCGateDecorator --------------------------
(***************************************************************************)
(* A system with two gates 60 km apart and three belts, the first of       *)
(* them 40 km from gate 1 and 18 km from where gate 1's patrol lands when  *)
(* its billboard is spawned, so that a gate patrol can make DecorateBelts  *)
(* skip it; the GateDecorators::Config defaults in km, except the belt     *)
(* counts: two patrols per belt and a cap of three, so the cap cuts a      *)
(* belt's patrols short when two belts qualify.                            *)
(***************************************************************************)
EXTENDS GateDecorator

MCBuckets == 12

\* A fixed stand-in for the mt19937_64 stream: any deterministic function of
\* (seed, k) is a generator the code could have.
MCRngDraw(s, k) == (7 * s[1] + 5 * s[2] + 3 * k + s[1] * k * k) % 12

MCGates == {1, 2}
MCBelts == {3, 4, 5}
MCAnchorPos ==
    (1 :> << 0, 0, 0 >>) @@ (2 :> << 60, 0, 0 >>) @@ (3 :> << 0, 0, -40 >>)
      @@ (4 :> << 200, 0, 0 >>) @@ (5 :> << 0, -200, 0 >>)

\* The Config of the cfg is the default one but for the two belt counts.
ASSUME \A f \in DOMAIN Cfg \ {"patrolsPerBelt", "maxBeltPatrolsPerSystem"} :
           Cfg[f] = DefaultConfig[f]

\* A billboard 20 km from gate 1 and a patrol 10 km from belt 4.
MCPreProps ==
    { [typeID |-> 11136, pos |-> << 20, 0, 0 >>],
      [typeID |-> 11125, pos |-> << 200, 10, 0 >>] }

=============================================================================
