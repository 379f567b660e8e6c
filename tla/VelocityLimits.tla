----------------------------- MODULE VelocityLimits -----------------------------
(***************************************************************************)
(* RobotDriver::enforceLimits: how much of a velocity command the robot    *)
(* gets.  A scale is a fraction <<p, q>>; the linear and the angular part  *)
(* of a Cartesian velocity are one number each.                            *)
(***************************************************************************)
EXTENDS Integers, Sequences, FiniteSetsExt

abs(x) == IF x < 0 THEN -x ELSE x

one == <<1, 1>>
less(a, b)  == a[1] * b[2] < b[1] * a[2]
times(a, b) == <<a[1] * b[1], a[2] * b[2]>>

\* Mutant: the scale of the joint that is the least too fast.
largest(scales) == CHOOSE s \in scales : \A r \in scales : ~less(s, r)

smallest(scales) == CHOOSE s \in scales : \A r \in scales : ~less(r, s)

\* What reduces the velocity v * s to max.
reduce(v, s, max) == IF abs(v) * s[1] > max * s[2] THEN <<max * s[2], abs(v) * s[1]>> ELSE one

computeCartesianLimitsScale(cart_vel, s, limits) ==
  [linear  |-> reduce(cart_vel.linear, s, limits.max_linear_velocity),
   angular |-> reduce(cart_vel.angular, s, limits.max_angular_velocity)]

\* initSetup: only revolute joints with one variable have limits.
isSupported(joint_model) == joint_model.type = "REVOLUTE" /\ joint_model.variables = 1

\* The loop that collects their limits.
joint_limits_(joint_models) ==
  LET pushed[i \in 0 .. Len(joint_models)] ==
        IF i = 0 THEN <<>>
        ELSE IF isSupported(joint_models[i]) THEN Append(pushed[i - 1], joint_models[i])
        ELSE pushed[i - 1]
  IN  pushed[Len(joint_models)]

\* A joint that is at a limit of its position and would move on.
stopsAt(joint, pos, vel, tolerance) ==
  /\ joint.position_bounded_
  /\ \/ pos <= joint.min_position_ + tolerance /\ vel < 0
     \/ pos >= joint.max_position_ - tolerance /\ vel > 0

isLimited(joint, settings) == joint.velocity_bounded_ \/ settings.has_velocity_limit

\* A joint without a limit of its own has 0 as its max_velocity_, which is taken if
\* the settings have one.
max_velocity(joint, settings) ==
  IF settings.has_velocity_limit THEN Min({settings.max_velocity, joint.max_velocity_})
  ELSE joint.max_velocity_

computeJointLimitsScale(joints, pos, vel, settings) ==
  IF \E i \in DOMAIN joints : stopsAt(joints[i], pos[i], vel[i], settings.stop_tolerance)
  THEN <<0, 1>>
  ELSE smallest({one} \union {reduce(vel[i], one, max_velocity(joints[i], settings)) :
                   i \in {j \in DOMAIN joints : isLimited(joints[j], settings)}})

\* The Cartesian velocity of two joints.
product(jacobian, vel) ==
  [linear  |-> jacobian.linear[1] * vel[1] + jacobian.linear[2] * vel[2],
   angular |-> jacobian.angular[1] * vel[1] + jacobian.angular[2] * vel[2]]

\* The scale of a command for the joints; a Cartesian command is only given
\* computeCartesianLimitsScale, whatever its joints will do.
enforceLimits(joints, pos, vel, jacobian, settings) ==
  LET s == computeJointLimitsScale(joints, pos, vel, settings)
      c == computeCartesianLimitsScale(product(jacobian, vel), s, settings)
  IN IF s[1] = 0 THEN s ELSE times(s, smallest({c.linear, c.angular}))

\* sendVelocityConfig: the share of its nominal velocity that the controller allows
\* every joint, whatever the commands are.  The fastest joint decides.
configVelocity(joints, settings) ==
  LET nominal == Max({joints[i].max_velocity_ : i \in DOMAIN joints})
  IN  <<IF settings.has_velocity_limit THEN Min({settings.max_velocity, nominal}) ELSE nominal,
        nominal>>

-----------------------------------------------------------------------------
(* The settings.  A radian is taken for 60 degrees, so that all is whole.  *)

DEGREES == 60
toRadians(angle_degrees) == angle_degrees \div DEGREES

\* The parameters of the user are in degrees, the robot model has radians.
initParam(param) ==
  [param EXCEPT !.max_angular_velocity = toRadians(@), !.max_velocity = toRadians(@),
                !.stop_tolerance = toRadians(@)]

-----------------------------------------------------------------------------
(* Inputs: a joint with limits and one without, at and between its limits. *)

JointModels == <<
  [type |-> "REVOLUTE", variables |-> 1,
   position_bounded_ |-> TRUE, min_position_ |-> 0, max_position_ |-> 10,
   velocity_bounded_ |-> TRUE, max_velocity_ |-> 2],
  [type |-> "REVOLUTE", variables |-> 1,
   position_bounded_ |-> FALSE, min_position_ |-> 0, max_position_ |-> 0,
   velocity_bounded_ |-> FALSE, max_velocity_ |-> 0]>>
Joints == joint_limits_(JointModels)

Parameters == [has_velocity_limit : BOOLEAN, max_velocity : {DEGREES},
               stop_tolerance : {DEGREES}, max_linear_velocity : {3},
               max_angular_velocity : {2 * DEGREES}]

\* What is left of a command for the joints keeps every limit, of joints and of the
\* tool, in the units of whoever gave them; no joint moves on where its position ends;
\* and no command is reduced that keeps the limits.  The share of its velocity that the controller allows a joint keeps
\* the limits as well, which matters to Cartesian commands.
KeepsLimits == \A p \in {1, 5, 9}, v \in {-3, 0, 1}, w \in {-2, 4}, l, a \in {-1, 0, 2}, param \in Parameters :
  LET set == initParam(param)
      vel == <<v, w>>
      jacobian == [linear |-> <<l, 1>>, angular |-> <<a, 0>>]
      s == enforceLimits(Joints, <<p, 0>>, vel, jacobian, set)
      cart == product(jacobian, vel)
      keeps(r) ==
        /\ \A i \in DOMAIN Joints : isLimited(Joints[i], set) =>
             abs(vel[i]) * r[1] <= max_velocity(Joints[i], set) * r[2]
        /\ abs(cart.linear) * r[1] <= set.max_linear_velocity * r[2]
        /\ DEGREES * abs(cart.angular) * r[1] <= param.max_angular_velocity * r[2]
        /\ param.has_velocity_limit => \A i \in DOMAIN Joints :
             DEGREES * abs(vel[i]) * r[1] <= param.max_velocity * r[2]
        /\ (v < 0 /\ p <= 1) \/ (v > 0 /\ p >= 9) => r[1] = 0
      share == configVelocity(Joints, set)
  IN /\ keeps(s) /\ ~less(one, s) /\ (keeps(one) => s[1] = s[2])
     /\ ~less(one, share)
     /\ \A i \in DOMAIN Joints : set.has_velocity_limit =>
          DEGREES * Joints[i].max_velocity_ * share[1] <= param.max_velocity * share[2]
=============================================================================
