--------------------------- MODULE MCTrajectoryAction ---------------------------
(***************************************************************************)
(* Two goals whose last points have the same values for different joints,  *)
(* a goal without points and one for the joints of another robot.          *)
(***************************************************************************)
EXTENDS TrajectoryAction

MCGoals == {"g1", "g2", "empty", "foreign"}

MCTrajectory(names, last) == [joint_names |-> names, points |-> last]

MCTrajectories ==
  [g1      |-> MCTrajectory(<<"j1", "j2">>, << <<9, 9>>, <<0, 4>> >>),
   g2      |-> MCTrajectory(<<"j2", "j1">>, << <<0, 4>> >>),
   empty   |-> MCTrajectory(<<"j1", "j2">>, << >>),
   foreign |-> MCTrajectory(<<"j1", "j9">>, << <<0, 4>> >>)]

MCJoints == <<"j1", "j2">>

\* At the end of g1, within reach of it, out of reach, at the end of g2 in either order;
\* and feedback that says nothing of the joints.  The threshold of the run is odd: no
\* joint is exactly half of it away, where the documentation and the code disagree.
MCFeedback ==
  [joint_names : {<<"j1", "j2">>}, positions : {<<0, 4>>, <<1, 3>>, <<2, 4>>, <<4, 0>>}]
    \union [joint_names : {<<"j2", "j1">>}, positions : {<<0, 4>>, <<0>>}]
    \union [joint_names : {<<"j1", "j9">>}, positions : {<<0, 4>>}]
=============================================================================
