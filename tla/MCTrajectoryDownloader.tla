------------------------- MODULE MCTrajectoryDownloader -------------------------
(***************************************************************************)
(* A robot with three joints, of which ROS does not know one and one has   *)
(* no limit.                                                               *)
(***************************************************************************)
EXTENDS TrajectoryDownloader

McJoints == <<"a", "", "b">>
McLimits == [a |-> 20]

Pt(positions, velocities, sec, nanosec) ==
  [positions |-> positions, velocities |-> velocities, sec |-> sec, nanosec |-> nanosec]

McNames == {<<"b", "a">>, <<"b", "c", "a">>, <<"a">>}

Times == {<<0, 0>>, <<0, 5>>, <<1, 0>>, <<3, 5>>}

\* Slow, fast and too fast, without velocities, and with a position too few.
Points(names, t) ==
  LET ps == [j \in DOMAIN names |-> j] IN
  {Pt(ps, <<>>, t[1], t[2]), Pt(Tail(ps), <<>>, t[1], t[2])}
    \union {Pt(ps, [j \in DOMAIN names |-> IF names[j] = "a" THEN v ELSE 30], t[1], t[2]) :
              v \in {1, -10, 21}}

McTrajectories == UNION {
  {[joint_names |-> n, points |-> ps] : ps \in
     {<<p>> : p \in Points(n, <<3, 5>>)}
     \union {<<p, q>> : p \in Points(n, <<0, 0>>), q \in UNION {Points(n, t) : t \in Times}}
     \union {<<p, q, q>> : p \in Points(n, <<1, 0>>), q \in Points(n, <<3, 5>>)}} :
  n \in McNames}
=============================================================================
