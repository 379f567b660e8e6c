------------------------------- MODULE JointUtils -------------------------------
(***************************************************************************)
(* Comparisons of joint names and positions that come as two lists, in the *)
(* order each sender likes (industrial_utils, industrial_robot_client).    *)
(***************************************************************************)
EXTENDS Integers, Sequences, FiniteSets, Functions

isSame(lhs, rhs) == lhs = rhs

\* The same names in any order.  The code sorts both.
isSimilar(lhs, rhs) ==
  /\ Len(lhs) = Len(rhs)
  /\ \E order \in Bijection(DOMAIN lhs, DOMAIN lhs) :
       isSame(lhs, [i \in DOMAIN lhs |-> rhs[order[i]]])

\* toMap fails for lists of different lengths and for a key that is there already
\* (mapInsert).
canMap(keys, values) == Len(keys) = Len(values) /\ IsInjective(keys)
toMap(keys, values) ==
  [k \in Range(keys) |-> values[CHOOSE i \in DOMAIN keys : keys[i] = k]]

Distance(a, b) == IF a < b THEN b - a ELSE a - b

within(a, b, full_range) == 2 * Distance(a, b) <= full_range

\* isWithinRange for maps ...
mapsWithinRange(keys, lhs, rhs, full_range) ==
  /\ Cardinality(DOMAIN lhs) = Len(keys) /\ Cardinality(DOMAIN rhs) = Len(keys)
  /\ \A i \in DOMAIN keys : within(lhs[keys[i]], rhs[keys[i]], full_range)

\* ... and for lists of keys and values.
isWithinRange(lhs_keys, lhs_values, rhs_keys, rhs_values, full_range) ==
  /\ isSimilar(lhs_keys, rhs_keys)
  /\ canMap(lhs_keys, lhs_values) /\ canMap(rhs_keys, rhs_values)
  /\ mapsWithinRange(lhs_keys, toMap(lhs_keys, lhs_values), toMap(rhs_keys, rhs_values), full_range)
=============================================================================
