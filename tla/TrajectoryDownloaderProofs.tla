----------------------- MODULE TrajectoryDownloaderProofs -----------------------
(***************************************************************************)
(* What JointTrajectoryInterface makes of any trajectory that it takes,    *)
(* for any robot, and how much of it the controller gets.                  *)
(***************************************************************************)
EXTENDS TrajectoryDownloader, WellFoundedInduction, SequenceTheorems, TLAPS

-----------------------------------------------------------------------------
(* The smallest and the largest of a set of numbers.                       *)

\* A set of naturals has a least element, which Min chooses.
LEMMA MinIsIn ==
  ASSUME NEW S \in SUBSET Nat, S # {}
  PROVE  Min(S) \in S /\ \A y \in S : Min(S) <= y
<1> DEFINE less == {ss \in Nat \X Nat : ss[1] < ss[2]}
<1>1. IsWellFoundedOn(less, Nat)
  BY NatLessThanWellFounded, Zenon DEF OpToRel
<1>2. PICK x \in S : \A y \in S : <<y, x>> \notin less
  <2> HIDE DEF less
  <2> QED BY <1>1, WFMin
<1>3. \A y \in S : x <= y
  <2>1. \A y \in S : y < x => <<y, x>> \in less
    OBVIOUS
  <2>2. \A y \in S : ~(y < x)
    BY <1>2, <2>1
  <2> QED BY <2>2
<1> QED BY <1>3 DEF Min

\* A set of integers with a bound has a greatest element, which Max chooses.
LEMMA MaxIsIn ==
  ASSUME NEW S \in SUBSET Int, S # {}, NEW b \in Int, \A x \in S : x <= b
  PROVE  Max(S) \in S /\ \A y \in S : y <= Max(S)
<1> DEFINE T == {b - x : x \in S}
<1>1. T \in SUBSET Nat /\ T # {}
  <2>1. \A x \in S : b - x \in Nat
    OBVIOUS
  <2> QED BY <2>1
<1>2. PICK m \in T : \A y \in T : m <= y
  BY <1>1, MinIsIn
<1>3. PICK x \in S : m = b - x
  BY <1>2
<1>4. \A y \in S : y <= x
  <2> SUFFICES ASSUME NEW y \in S PROVE y <= x
    OBVIOUS
  <2>1. m <= b - y
    BY <1>2
  <2> QED BY <1>3, <2>1
<1> QED BY <1>3, <1>4 DEF Max

\* A percentage is not clipped.
LEMMA ClipKeeps ==
  ASSUME NEW v \in 0 .. 100
  PROVE  clip(v) = v
<1>1. Max({0, v}) = v
  BY MaxIsIn, \A x \in {0, v} : x <= 100
<1>2. Min({100, v}) = v
  BY MinIsIn
<1> QED BY <1>1, <1>2 DEF clip

\* The percentage of a limit that is kept.
LEMMA Percent ==
  ASSUME NEW a \in Nat, NEW limit \in Nat \ {0}, a <= limit
  PROVE  (a * 100) \div limit \in 0 .. 100
OBVIOUS

\* Percentages are numbers up to 100.
LEMMA PercentIsInt == \A x \in 0 .. 100 : x \in Int /\ x <= 100
OBVIOUS

\* Absolute values are not negative.
LEMMA AbsIsNat == \A x \in Int : abs(x) \in Nat
BY DEF abs
-----------------------------------------------------------------------------
(* find and select.                                                        *)

\* find returns the place of the name, or none.
LEMMA FindsName ==
  ASSUME NEW names \in Seq(STRING), NEW name
  PROVE  /\ find(names, name) \in 0 .. Len(names)
         /\ find(names, name) # 0 => names[find(names, name)] = name
<1> DEFINE I == {n \in 1 .. Len(names) : names[n] = name}
<1>1. find(names, name) = IF I # {} THEN Min(I) ELSE 0
  BY DEF find, SelectInSeq
<1>2. I # {} => Min(I) \in I
  <2>1. I \in SUBSET Nat
    OBVIOUS
  <2> HIDE DEF I
  <2> QED BY <2>1, MinIsIn
<1> QED BY <1>1, <1>2

\* The robot has joints.
LEMMA JointsType ==
  /\ Len(all_joint_names_) \in Nat \ {0} /\ DOMAIN all_joint_names_ = 1 .. Len(all_joint_names_)
  /\ DOMAIN all_joint_names_ # {}
<1>1. Len(all_joint_names_) \in Nat \ {0} /\ DOMAIN all_joint_names_ = 1 .. Len(all_joint_names_)
  BY ConversionAssumption, EmptySeq, LenProperties
<1>2. 1 \in DOMAIN all_joint_names_
  BY <1>1
<1> QED BY <1>1, <1>2

\* select finds for every robot's joint that has a name the value that ROS has for it.
LEMMA Ordered ==
  ASSUME NEW names \in Seq(STRING), knowsJoints(names), NEW dummy \in Int,
         NEW values \in Seq(Int), values = <<>> \/ Len(values) = Len(names)
  PROVE  /\ ordered(values, names, dummy) \in Seq(Int)
         /\ ordered(values, names, dummy) = <<>> <=> values = <<>>
         /\ values # <<>> =>
              /\ DOMAIN ordered(values, names, dummy) = DOMAIN all_joint_names_
              /\ \A r \in DOMAIN all_joint_names_ : all_joint_names_[r] # NoName =>
                   \E j \in DOMAIN values : /\ names[j] = all_joint_names_[r]
                                            /\ ordered(values, names, dummy)[r] = values[j]
<1>1. CASE values = <<>>
  BY <1>1 DEF ordered
<1>2. CASE values # <<>>
  <2> DEFINE n == Len(all_joint_names_)
             out == [r \in 1 .. n |-> IF all_joint_names_[r] = NoName THEN dummy
                                      ELSE values[find(names, all_joint_names_[r])]]
  <2>1. n \in Nat \ {0} /\ DOMAIN all_joint_names_ = 1 .. n
    BY JointsType
  <2>2. ordered(values, names, dummy) = out
    BY <1>2, <2>1 DEF ordered
  <2>3. \A r \in 1 .. n : all_joint_names_[r] # NoName =>
          /\ find(names, all_joint_names_[r]) \in DOMAIN values
          /\ names[find(names, all_joint_names_[r])] = all_joint_names_[r]
    <3> SUFFICES ASSUME NEW r \in 1 .. n, all_joint_names_[r] # NoName
                 PROVE  /\ find(names, all_joint_names_[r]) \in DOMAIN values
                        /\ names[find(names, all_joint_names_[r])] = all_joint_names_[r]
      OBVIOUS
    <3>1. find(names, all_joint_names_[r]) # 0
      BY <2>1 DEF knowsJoints
    <3>2. DOMAIN values = 1 .. Len(names)
      BY <1>2, LenProperties
    <3> QED BY <3>1, <3>2, FindsName
  <2>4. out \in [1 .. n -> Int]
    BY <2>3, ElementOfSeq
  <2>5. out \in Seq(Int) /\ out # <<>>
    BY <2>1, <2>4
  <2> QED BY <1>2, <2>1, <2>2, <2>3, <2>5
<1> QED BY <1>1, <1>2
-----------------------------------------------------------------------------
(* The messages of a trajectory.                                           *)

\* What becomes a plan.
Takes(traj) ==
  /\ traj \in Trajectories /\ traj.points # <<>>
  /\ is_valid(traj) /\ ~selectThrows(traj) /\ knowsJoints(traj.joint_names)

\* A robot's joint has the value that traj has for it.
Placed(values, out, traj) == \A r \in DOMAIN all_joint_names_ : all_joint_names_[r] # NoName =>
  \E j \in DOMAIN values : traj.joint_names[j] = all_joint_names_[r] /\ out[r] = values[j]

\* A point of a trajectory has positions and, if any, a velocity for every joint.
LEMMA PointType ==
  ASSUME NEW traj \in Trajectories, NEW k \in DOMAIN traj.points
  PROVE  /\ traj.joint_names \in Seq(STRING)
         /\ traj.points[k] \in [positions : Seq(Int), velocities : Seq(Int), sec : Int, nanosec : Int]
         /\ traj.points[k].velocities = <<>>
              \/ Len(traj.points[k].velocities) = Len(traj.joint_names)
BY TrajectoryAssumption, ElementOfSeq, LenProperties

\* A trajectory that is not empty has a first point.
LEMMA PointsType ==
  ASSUME NEW traj \in Trajectories, traj.points # <<>>
  PROVE  Len(traj.points) \in Nat \ {0} /\ DOMAIN traj.points = 1 .. Len(traj.points)
BY TrajectoryAssumption, EmptySeq, LenProperties

\* select puts positions in the order of the joints of the robot and keeps time and
\* velocities.
LEMMA SelectsPoint ==
  ASSUME NEW traj, Takes(traj), NEW k \in DOMAIN traj.points, NEW p, p = traj.points[k],
         NEW pt, pt = select(traj.joint_names, p)
  PROVE  /\ pt.sec = p.sec /\ p.sec \in Int
         /\ pt.positions \in Seq(Int) /\ Placed(p.positions, pt.positions, traj)
         /\ pt.velocities \in Seq(Int) /\ (pt.velocities = <<>> <=> p.velocities = <<>>)
         /\ p.velocities # <<>> => /\ DOMAIN pt.velocities = DOMAIN all_joint_names_
                                   /\ Placed(p.velocities, pt.velocities, traj)
<1>1. /\ traj.joint_names \in Seq(STRING) /\ knowsJoints(traj.joint_names)
      /\ p \in [positions : Seq(Int), velocities : Seq(Int), sec : Int, nanosec : Int]
      /\ p.velocities = <<>> \/ Len(p.velocities) = Len(traj.joint_names)
  BY PointType DEF Takes
<1>2. p.positions # <<>> /\ Len(p.positions) = Len(traj.joint_names)
  BY DEF Takes, is_valid, selectThrows
<1>3. /\ pt.positions = ordered(p.positions, traj.joint_names, default_joint_pos_)
      /\ pt.velocities = ordered(p.velocities, traj.joint_names, -1)
      /\ pt.sec = p.sec
  BY <1>1 DEF select
<1>4. default_joint_pos_ \in Int /\ -1 \in Int
  BY ConversionAssumption
<1>5. pt.positions \in Seq(Int) /\ Placed(p.positions, pt.positions, traj)
  <2>1. /\ traj.joint_names \in Seq(STRING) /\ knowsJoints(traj.joint_names)
        /\ p.positions \in Seq(Int) /\ Len(p.positions) = Len(traj.joint_names)
    BY <1>1, <1>2
  <2>2. PICK names, out : names = traj.joint_names /\ out = ordered(p.positions, names, default_joint_pos_)
    OBVIOUS
  <2>3. /\ ordered(p.positions, names, default_joint_pos_) \in Seq(Int)
        /\ \A r \in DOMAIN all_joint_names_ : all_joint_names_[r] # NoName =>
             \E j \in DOMAIN p.positions : /\ names[j] = all_joint_names_[r]
                                         /\ ordered(p.positions, names, default_joint_pos_)[r] = p.positions[j]
    BY <1>2, <1>4, <2>1, <2>2, Ordered, ZenonT(30)
  <2>4. out \in Seq(Int) /\ Placed(p.positions, out, traj)
    BY <2>2, <2>3 DEF Placed
  <2> QED BY <1>3, <2>2, <2>4, Zenon
<1>6. /\ pt.velocities \in Seq(Int) /\ (pt.velocities = <<>> <=> p.velocities = <<>>)
      /\ p.velocities # <<>> => /\ DOMAIN pt.velocities = DOMAIN all_joint_names_
                                /\ Placed(p.velocities, pt.velocities, traj)
  <2>1. /\ traj.joint_names \in Seq(STRING) /\ knowsJoints(traj.joint_names)
        /\ p.velocities \in Seq(Int)
        /\ p.velocities = <<>> \/ Len(p.velocities) = Len(traj.joint_names)
    BY <1>1
  <2> QED BY <1>3, <1>4, <2>1, Ordered DEF Placed
<1> QED BY <1>1, <1>3, <1>5, <1>6

\* The percentages are those of limits that are kept.
LEMMA Ratios ==
  ASSUME NEW traj, Takes(traj), NEW k \in DOMAIN traj.points, NEW p, p = traj.points[k],
         NEW pt, pt = select(traj.joint_names, p), p.velocities # <<>>
  PROVE  /\ vel_ratios(pt) \in SUBSET Int /\ vel_ratios(pt) # {}
         /\ \A x \in vel_ratios(pt) : x <= 100
<1>1. /\ pt.velocities \in Seq(Int) /\ DOMAIN pt.velocities = DOMAIN all_joint_names_
      /\ Placed(p.velocities, pt.velocities, traj)
  BY SelectsPoint
<1>3. ASSUME NEW r \in DOMAIN all_joint_names_, all_joint_names_[r] \in DOMAIN joint_vel_limits_ \ {NoName}
      PROVE  (abs(pt.velocities[r]) * 100) \div joint_vel_limits_[all_joint_names_[r]] \in 0 .. 100
  <2>1. PICK j \in DOMAIN p.velocities :
          traj.joint_names[j] = all_joint_names_[r] /\ pt.velocities[r] = p.velocities[j]
    BY <1>1, <1>3 DEF Placed
  <2>2. abs(pt.velocities[r]) <= joint_vel_limits_[all_joint_names_[r]]
    BY <1>3, <2>1 DEF Takes, is_valid
  <2>3. joint_vel_limits_[all_joint_names_[r]] \in Nat \ {0}
    BY <1>3, ConversionAssumption
  <2>4. abs(pt.velocities[r]) \in Nat
    BY <1>1, AbsIsNat, ElementOfSeq, LenProperties
  <2> QED BY <2>2, <2>3, <2>4, Percent
<1>4. \A x \in vel_ratios(pt) : x \in Int /\ x <= 100
  <2> SUFFICES ASSUME NEW x \in vel_ratios(pt) PROVE x \in Int /\ x <= 100
    OBVIOUS
  <2>1. PICK r \in DOMAIN all_joint_names_ :
          x = IF all_joint_names_[r] \in DOMAIN joint_vel_limits_ \ {NoName}
              THEN (abs(pt.velocities[r]) * 100) \div joint_vel_limits_[all_joint_names_[r]] ELSE -1
    BY DEF vel_ratios
  <2>2. CASE all_joint_names_[r] \in DOMAIN joint_vel_limits_ \ {NoName}
    <3>1. x = (abs(pt.velocities[r]) * 100) \div joint_vel_limits_[all_joint_names_[r]]
      BY <2>1, <2>2, Zenon
    <3>2. x \in 0 .. 100
      BY <1>3, <2>2, <3>1, Zenon
    <3> QED BY <3>2, PercentIsInt, Zenon
  <2>3. CASE all_joint_names_[r] \notin DOMAIN joint_vel_limits_ \ {NoName}
    BY <2>1, <2>3
  <2> QED BY <2>2, <2>3
<1>5. vel_ratios(pt) # {}
  BY JointsType, ZenonT(30) DEF vel_ratios
<1> QED BY <1>4, <1>5

\* The velocity is a percentage that is enough for every joint that has a limit, and marked
\* if it is the last point's.
EnoughFor(speed, p, traj) ==
  \A j \in DOMAIN p.velocities : traj.joint_names[j] \in DOMAIN joint_vel_limits_ =>
    \/ speed >= (abs(p.velocities[j]) * 100) \div joint_vel_limits_[traj.joint_names[j]]
    \/ traj.joint_names[j] \notin Range(all_joint_names_)

FastFor(v, p, traj, k, n) == \E speed \in 0 .. 100 :
  /\ v = IF k = n /\ p.velocities # <<>> THEN speed + 200 ELSE speed
  /\ EnoughFor(speed, p, traj)

\* calc_velocity asks for enough velocity for every joint, within the percentage.
LEMMA Velocity ==
  ASSUME NEW traj, Takes(traj), NEW k \in DOMAIN traj.points, NEW p, p = traj.points[k],
         NEW pt, pt = select(traj.joint_names, p), NEW n
  PROVE  FastFor(calc_velocity(pt, k, n), p, traj, k, n)
<1>1. CASE p.velocities = <<>>
  <2>1. pt.velocities = <<>>
    BY <1>1, SelectsPoint
  <2>2. calc_velocity(pt, k, n) = default_vel_ratio_
    BY <2>1 DEF calc_velocity
  <2>3. EnoughFor(default_vel_ratio_, p, traj)
    BY <1>1 DEF EnoughFor
  <2> QED BY <1>1, <2>2, <2>3, ConversionAssumption DEF FastFor
<1>2. CASE p.velocities # <<>>
  <2> DEFINE largest == Max(vel_ratios(pt))
             speed == IF largest > default_vel_ratio_ THEN largest ELSE default_vel_ratio_
  <2>1. largest \in vel_ratios(pt) /\ \A x \in vel_ratios(pt) : x <= largest
    <3>1. /\ vel_ratios(pt) \in SUBSET Int /\ vel_ratios(pt) # {}
          /\ \A x \in vel_ratios(pt) : x <= 100
      BY <1>2, Ratios
    <3> QED BY <3>1, MaxIsIn, SMTT(30)
  <2>2. largest \in Int /\ largest <= 100 /\ default_vel_ratio_ \in 0 .. 100
    BY <1>2, <2>1, Ratios, ConversionAssumption
  <2>3. speed \in 0 .. 100 /\ speed >= largest
    BY <2>2
  <2>4. calc_velocity(pt, k, n) = IF k = n THEN speed + 200 ELSE speed
    <3>1. pt.velocities # <<>>
      BY <1>2, SelectsPoint
    <3>2. clip(speed) = speed
      BY <2>3, ClipKeeps
    <3>3. calc_velocity(pt, k, n) = clip(speed) + (IF final(k, n) THEN 200 ELSE 0)
      BY <3>1 DEF calc_velocity
    <3> HIDE DEF speed
    <3> QED BY <2>3, <3>2, <3>3 DEF final
  <2>5. ASSUME NEW j \in DOMAIN p.velocities, traj.joint_names[j] \in DOMAIN joint_vel_limits_,
               traj.joint_names[j] \in Range(all_joint_names_)
        PROVE  speed >= (abs(p.velocities[j]) * 100) \div joint_vel_limits_[traj.joint_names[j]]
    <3>1. PICK r \in DOMAIN all_joint_names_ : all_joint_names_[r] = traj.joint_names[j]
      BY <2>5 DEF Range
    <3>2. p.velocities \in Seq(Int) /\ DOMAIN p.velocities = DOMAIN traj.joint_names
      BY <1>2, PointType, LenProperties DEF Takes
    <3>3. all_joint_names_[r] # NoName
      BY <3>1, <3>2, TrajectoryAssumption DEF Takes, Range
    <3>4. PICK i2 \in DOMAIN p.velocities :
            traj.joint_names[i2] = all_joint_names_[r] /\ pt.velocities[r] = p.velocities[i2]
      BY <1>2, <3>3, SelectsPoint DEF Placed
    <3>5. i2 = j
      BY <3>1, <3>2, <3>4, TrajectoryAssumption DEF Takes, IsInjective
    <3>6. (abs(p.velocities[j]) * 100) \div joint_vel_limits_[traj.joint_names[j]] \in vel_ratios(pt)
      BY <2>5, <3>1, <3>3, <3>4, <3>5 DEF vel_ratios
    <3>7. PICK q \in vel_ratios(pt) :
            q = (abs(p.velocities[j]) * 100) \div joint_vel_limits_[traj.joint_names[j]]
      BY <3>6
    <3>8. q <= largest /\ q \in Int
      BY <1>2, <2>1, Ratios
    <3>9. speed >= q
      BY <2>2, <2>3, <3>8
    <3> QED BY <3>7, <3>9
  <2>6. EnoughFor(speed, p, traj)
    BY <2>5, Zenon DEF EnoughFor
  <2> HIDE DEF speed
  <2> QED BY <1>2, <2>3, <2>4, <2>6 DEF FastFor
<1> QED BY <1>1, <1>2

Message == [sequence : Int, joint_position : Seq(Int), velocity : Int, duration : Int]

\* A message is appended behind those that are there.
LEMMA AppendsMessage ==
  ASSUME NEW s \in Seq(Message), NEW m \in Message
  PROVE  /\ Append(s, m) \in Seq(Message) /\ Append(s, m) # <<>>
         /\ Len(Append(s, m)) = Len(s) + 1 /\ Append(s, m)[Len(s) + 1] = m
         /\ \A k \in 1 .. Len(s) : Append(s, m)[k] = s[k]
<1>1. PICK S : S = Message
  OBVIOUS
<1>2. s \in Seq(S) /\ m \in S
  BY <1>1
<1> QED BY <1>1, <1>2, AppendProperties

\* What is asked of the message of point k.
PlacedAt(m, traj, k) == Placed(traj.points[k].positions, m.joint_position, traj)

FastAt(m, traj, k) == FastFor(m.velocity, traj.points[k], traj, k, Len(traj.points))

LastsAt(m, traj, k) ==
  /\ m.duration > 0
  /\ k > 1 /\ traj.points[k].sec > traj.points[k - 1].sec =>
       m.duration = traj.points[k].sec - traj.points[k - 1].sec

\* Message k says what point k asks for.
LEMMA MessageOfPoint ==
  ASSUME NEW traj, Takes(traj), NEW before \in Int, NEW k \in DOMAIN traj.points,
         NEW m, m = trajectory_to_msgs(traj, before)[k]
  PROVE  /\ m \in Message /\ m.sequence = k - 1
         /\ PlacedAt(m, traj, k) /\ FastAt(m, traj, k) /\ LastsAt(m, traj, k)
<1>1. PICK p : p = traj.points[k]
  OBVIOUS
<1>2. PICK pt : pt = select(traj.joint_names, p)
  OBVIOUS
<1>3. PICK since : since = timeBefore(traj, k, before)
  OBVIOUS
<1>4. m = [sequence |-> k - 1, joint_position |-> pt.positions,
           velocity |-> calc_velocity(pt, k, Len(traj.points)), duration |-> calc_duration(pt, since)]
  BY <1>1, <1>2, <1>3 DEF trajectory_to_msgs, create_message
<1>5. /\ pt.sec = p.sec /\ p.sec \in Int /\ pt.positions \in Seq(Int)
      /\ Placed(p.positions, pt.positions, traj)
  BY <1>1, <1>2, SelectsPoint
<1>6. PlacedAt(m, traj, k)
  BY <1>1, <1>4, <1>5 DEF PlacedAt
<1>7. FastAt(m, traj, k)
  <2>1. FastFor(calc_velocity(pt, k, Len(traj.points)), p, traj, k, Len(traj.points))
    BY <1>1, <1>2, Velocity
  <2> QED BY <1>1, <1>4, <2>1 DEF FastAt
<1>8. Len(traj.points) \in Nat \ {0} /\ DOMAIN traj.points = 1 .. Len(traj.points)
  BY PointsType DEF Takes
<1>9. k \in Nat \ {0} /\ k \in 1 .. Len(traj.points)
  BY <1>8
<1>10. since \in Int /\ (k > 1 => since = traj.points[k - 1].sec)
  <2>1. k # 1 => traj.points[k - 1].sec \in Int
    BY <1>8, <1>9, PointType DEF Takes
  <2> QED BY <1>3, <1>9, <2>1 DEF timeBefore
<1>11. m.duration = IF p.sec <= since THEN default_duration_ ELSE p.sec - since
  BY <1>4, <1>5 DEF calc_duration
<1>12. m.duration \in Int /\ LastsAt(m, traj, k)
  <2>1. default_duration_ \in Nat \ {0}
    BY ConversionAssumption
  <2> QED BY <1>1, <1>5, <1>10, <1>11, <2>1 DEF LastsAt
<1>13. m.velocity \in Int
  <2>1. PICK speed \in 0 .. 100 : m.velocity \in {speed + 200, speed}
    BY <1>7, Zenon DEF FastAt, FastFor
  <2> QED BY <2>1
<1> QED BY <1>4, <1>5, <1>6, <1>7, <1>9, <1>12, <1>13 DEF Message

\* The greater of two numbers.
LEMMA MaxOfTwo ==
  ASSUME NEW a \in Int, NEW b \in Int
  PROVE  Max({a, b}) = IF a >= b THEN a ELSE b
<1>1. PICK c \in Int : \A x \in {a, b} : x <= c
  <2>1. CASE a >= b
    BY <2>1
  <2>2. CASE a < b
    BY <2>2
  <2> QED BY <2>1, <2>2
<1>2. Max({a, b}) \in {a, b} /\ \A y \in {a, b} : y <= Max({a, b})
  BY <1>1, MaxIsIn
<1> QED BY <1>2

\* The messages that the downloader sends for a trajectory.
Planned(traj, before) == marked(atLeastTwo(trajectory_to_msgs(traj, before)))

\* The message of a point, whatever its sequence number.
MessageAt(m, traj, k) == PlacedAt(m, traj, k) /\ FastAt(m, traj, k) /\ LastsAt(m, traj, k)

\* What is sent for a trajectory begins with the start of a download, ends with its
\* end, and has them nowhere else.
LEMMA PlanOfTrajectory ==
  ASSUME NEW traj, Takes(traj), NEW before \in Int, NEW plan, plan = Planned(traj, before)
  PROVE  /\ plan \in Seq(Message) /\ Len(plan) = Max({2, Len(traj.points)})
         /\ Len(plan) >= 2 /\ Len(traj.points) \in Nat /\ DOMAIN traj.points \subseteq DOMAIN plan
         /\ plan[1].sequence = START_TRAJECTORY_DOWNLOAD
         /\ \A k \in DOMAIN plan : plan[k].sequence = END_TRAJECTORY <=> k = Len(plan)
         /\ \A k \in DOMAIN traj.points : MessageAt(plan[k], traj, k)
         /\ \A k \in DOMAIN plan : plan[k].duration > 0
<1>1. PICK msgs : msgs = trajectory_to_msgs(traj, before)
  OBVIOUS
<1>2. PICK n : n = Len(traj.points)
  OBVIOUS
<1>3. n \in Nat \ {0} /\ DOMAIN traj.points = 1 .. n
  BY <1>2, PointsType DEF Takes
<1>4. \A k \in 1 .. n : /\ msgs[k] \in Message /\ msgs[k].sequence = k - 1
                        /\ MessageAt(msgs[k], traj, k)
  BY <1>1, <1>3, MessageOfPoint DEF MessageAt
<1>5. msgs \in Seq(Message) /\ Len(msgs) = n
  <2>1. msgs \in [1 .. n -> Message]
    BY <1>1, <1>3, <1>4 DEF trajectory_to_msgs
  <2> QED BY <1>3, <2>1
<1>6. PICK two : two = atLeastTwo(msgs)
  OBVIOUS
<1>7. PICK l : l = IF n < 2 THEN 2 ELSE n
  OBVIOUS
<1>8. /\ two \in Seq(Message) /\ Len(two) = l /\ l \in Nat /\ l >= 2 /\ n <= l
      /\ \A k \in 1 .. n : two[k] = msgs[k]
      /\ \A k \in 1 .. l : k \notin 1 .. n => two[k] = msgs[1]
  <2>1. CASE n < 2
    <3>1. two = Append(msgs, msgs[1]) /\ msgs[1] \in Message /\ n = 1
      BY <1>3, <1>4, <1>5, <1>6, <2>1 DEF atLeastTwo
    <3>2. /\ two \in Seq(Message) /\ Len(two) = 2 /\ two[2] = msgs[1]
          /\ \A k \in 1 .. 1 : two[k] = msgs[k]
      <4>1. PICK first \in Message : first = msgs[1]
        BY <3>1
      <4>2. msgs \in Seq(Message) /\ Len(msgs) = 1 /\ two = Append(msgs, first)
        BY <1>5, <3>1, <4>1
      <4>3. /\ two \in Seq(Message) /\ Len(two) = Len(msgs) + 1 /\ two[Len(msgs) + 1] = first
            /\ \A k \in 1 .. Len(msgs) : two[k] = msgs[k]
        BY <4>2, AppendsMessage
      <4> QED BY <4>1, <4>2, <4>3
    <3> QED BY <1>7, <3>1, <3>2
  <2>2. CASE n >= 2
    <3>1. two = msgs
      BY <1>3, <1>5, <1>6, <2>2 DEF atLeastTwo
    <3> QED BY <1>3, <1>5, <1>7, <2>2, <3>1
  <2> QED BY <1>3, <2>1, <2>2
<1>9. plan = [k \in 1 .. l |-> [two[k] EXCEPT !.sequence = IF k = l THEN END_TRAJECTORY
                                ELSE IF k = 1 THEN START_TRAJECTORY_DOWNLOAD ELSE two[k].sequence]]
  BY <1>1, <1>6, <1>8, LenProperties DEF Planned, marked
<1>10. \A k \in 1 .. l : two[k] \in Message
  BY <1>8, ElementOfSeq
<1>11. \A k \in 1 .. l :
         /\ plan[k] \in Message /\ plan[k].joint_position = two[k].joint_position
         /\ plan[k].velocity = two[k].velocity /\ plan[k].duration = two[k].duration
         /\ plan[k].sequence = IF k = l THEN END_TRAJECTORY
                               ELSE IF k = 1 THEN START_TRAJECTORY_DOWNLOAD ELSE two[k].sequence
  BY <1>9, <1>10 DEF Message, END_TRAJECTORY, START_TRAJECTORY_DOWNLOAD
<1>12. plan \in Seq(Message) /\ Len(plan) = l /\ DOMAIN plan = 1 .. l
  <2>1. plan \in [1 .. l -> Message]
    BY <1>9, <1>11
  <2> QED BY <1>8, <2>1
<1>13. Len(plan) = Max({2, Len(traj.points)})
  BY <1>2, <1>3, <1>7, <1>12, MaxOfTwo
<1>14. plan[1].sequence = START_TRAJECTORY_DOWNLOAD
  BY <1>8, <1>11
<1>15. \A k \in 1 .. l : plan[k].sequence = END_TRAJECTORY <=> k = l
  <2> SUFFICES ASSUME NEW k \in 1 .. l, k # l PROVE plan[k].sequence # END_TRAJECTORY
    BY <1>11
  <2>1. k \in 1 .. n
    BY <1>3, <1>7
  <2>2. two[k].sequence = k - 1
    BY <1>4, <1>8, <2>1
  <2> QED BY <1>8, <1>11, <2>2 DEF END_TRAJECTORY, START_TRAJECTORY_DOWNLOAD
<1>16. \A k \in 1 .. n : MessageAt(plan[k], traj, k)
  <2> SUFFICES ASSUME NEW k \in 1 .. n PROVE MessageAt(plan[k], traj, k)
    OBVIOUS
  <2>1. MessageAt(msgs[k], traj, k) /\ two[k] = msgs[k] /\ k \in 1 .. l
    BY <1>3, <1>4, <1>8
  <2>2. /\ plan[k].joint_position = msgs[k].joint_position
        /\ plan[k].velocity = msgs[k].velocity /\ plan[k].duration = msgs[k].duration
    BY <1>11, <2>1
  <2>3. PlacedAt(plan[k], traj, k)
    BY <2>1, <2>2 DEF MessageAt, PlacedAt
  <2>4. FastAt(plan[k], traj, k)
    BY <2>1, <2>2 DEF MessageAt, FastAt
  <2>5. LastsAt(plan[k], traj, k)
    BY <2>1, <2>2 DEF MessageAt, LastsAt
  <2> QED BY <2>3, <2>4, <2>5 DEF MessageAt
<1>17. \A k \in 1 .. l : plan[k].duration > 0
  <2>1. \A k \in 1 .. n : msgs[k].duration > 0
    BY <1>4 DEF MessageAt, LastsAt
  <2>2. \A k \in 1 .. l : two[k].duration > 0
    BY <1>3, <1>8, <2>1
  <2> QED BY <1>11, <2>2
<1>18. Len(plan) >= 2 /\ Len(traj.points) \in Nat /\ DOMAIN traj.points \subseteq DOMAIN plan
  BY <1>2, <1>3, <1>8, <1>12
<1> QED BY <1>3, <1>12, <1>13, <1>14, <1>15, <1>16, <1>17, <1>18, Zenon

\* What is sent for a trajectory says what the trajectory asks for.
LEMMA PlanIsFaithful ==
  ASSUME NEW traj, Takes(traj), NEW before \in Int, NEW plan, plan = Planned(traj, before)
  PROVE  PositionsByName(plan, traj) /\ EndMarked(plan, traj) /\ TimeKept(plan, traj)
<1>1. /\ \A k \in DOMAIN traj.points : MessageAt(plan[k], traj, k)
      /\ \A k \in DOMAIN plan : plan[k].duration > 0
  BY PlanOfTrajectory
<1>2. ASSUME NEW k \in DOMAIN traj.points, NEW j \in DOMAIN traj.joint_names,
             NEW r \in DOMAIN all_joint_names_, all_joint_names_[r] = traj.joint_names[j]
      PROVE  plan[k].joint_position[r] = traj.points[k].positions[j]
  <2>1. all_joint_names_[r] # NoName
    BY <1>2, TrajectoryAssumption DEF Takes, Range
  <2>2. Placed(traj.points[k].positions, plan[k].joint_position, traj)
    BY <1>1 DEF MessageAt, PlacedAt
  <2>3. PICK j2 \in DOMAIN traj.points[k].positions :
          /\ traj.joint_names[j2] = all_joint_names_[r]
          /\ plan[k].joint_position[r] = traj.points[k].positions[j2]
    BY <2>1, <2>2 DEF Placed
  <2>4. DOMAIN traj.points[k].positions = DOMAIN traj.joint_names
    <3>1. Len(traj.points[k].positions) = Len(traj.joint_names)
      BY DEF Takes, selectThrows
    <3>2. traj.points[k].positions \in Seq(Int) /\ traj.joint_names \in Seq(STRING)
      BY PointType DEF Takes
    <3> QED BY <3>1, <3>2, LenProperties
  <2>5. j2 = j
    BY <1>2, <2>3, <2>4, TrajectoryAssumption DEF Takes, IsInjective
  <2> QED BY <2>3, <2>5
<1>3. PositionsByName(plan, traj)
  BY <1>2 DEF PositionsByName
<1>4. ASSUME NEW k \in DOMAIN traj.points, NEW p, p = traj.points[k], NEW v, v = plan[k].velocity
      PROVE  LET speed == IF v >= 200 THEN v - 200 ELSE v
             IN /\ v >= 200 <=> k = Len(traj.points) /\ p.velocities # <<>>
                /\ speed \in 0 .. 100 /\ EnoughFor(speed, p, traj)
  <2>1. FastFor(v, p, traj, k, Len(traj.points))
    BY <1>1, <1>4 DEF MessageAt, FastAt
  <2>2. PICK s \in 0 .. 100 :
          /\ v = IF k = Len(traj.points) /\ p.velocities # <<>> THEN s + 200 ELSE s
          /\ EnoughFor(s, p, traj)
    BY <2>1 DEF FastFor
  <2>3. CASE k = Len(traj.points) /\ p.velocities # <<>>
    BY <2>2, <2>3
  <2>4. CASE ~(k = Len(traj.points) /\ p.velocities # <<>>)
    BY <2>2, <2>4
  <2> QED BY <2>3, <2>4
<1>5. EndMarked(plan, traj)
  BY <1>4, Zenon DEF EndMarked, EnoughFor
<1>6. TimeKept(plan, traj)
  <2>1. 2 .. Len(traj.points) \subseteq DOMAIN traj.points
    BY PointsType DEF Takes
  <2> QED BY <1>1, <2>1 DEF TimeKept, MessageAt, LastsAt
<1> QED BY <1>3, <1>5, <1>6
-----------------------------------------------------------------------------
(* The downloader.                                                         *)

Asked == [traj : Trajectories, last_time : Int]

TypeInv ==
  /\ running \in BOOLEAN /\ connected_ \in BOOLEAN /\ link \in BOOLEAN /\ last_time \in Int
  /\ points \in Seq(Message) /\ i \in 0 .. Len(points)
  /\ asked \in Seq(Asked) /\ got \in Seq(Seq(Message)) /\ Len(got) = Len(asked)

\* A connection that exists is known, so only what follows a loss is not sent.
LinkKnown == link => connected_

\* The loop sends the plan of the newest trajectory; what arrived is its beginning, and all
\* that was sent while the connection lasts.
Sending == i > 0 =>
  /\ asked # <<>> /\ Takes(Last(asked).traj)
  /\ points = Planned(Last(asked).traj, Last(asked).last_time)
  /\ Len(Last(got)) < i /\ (link => Len(Last(got)) = i - 1)
  /\ \A k \in 1 .. Len(Last(got)) : Last(got)[k] = points[k]

\* What DownloadPrefix says of one trajectory.
Whole(messages, traj) == messages # <<>> =>
  /\ messages[1].sequence = START_TRAJECTORY_DOWNLOAD
  /\ Last(messages).sequence = END_TRAJECTORY => Len(messages) = Max({2, Len(traj.points)})

AllWhole == \A n \in DOMAIN got : Whole(got[n], asked[n].traj)

Inv == TypeInv /\ LinkKnown /\ Sending /\ AllWhole

LEMMA InvInit == Init => Inv
BY DEF Init, Inv, TypeInv, LinkKnown, Sending, AllWhole

\* A step between two trajectories.
LEMMA InvBetween ==
  ASSUME Inv, i = 0, UNCHANGED <<last_time, points, i, asked, got>>,
         running' \in BOOLEAN, connected_' \in BOOLEAN, link' \in BOOLEAN, link' => connected_'
  PROVE  Inv'
BY DEF Inv, TypeInv, LinkKnown, Sending, AllWhole

\* A trajectory that is accepted is planned as a whole and nothing of it has arrived; another
\* changes nothing.
LEMMA InvTrajectory ==
  ASSUME Inv, NEW traj \in Trajectories, jointTrajectorySubCB(traj)
  PROVE  Inv'
<1>1. CASE UNCHANGED <<last_time, connected_, link, points, i, asked, got>> /\ running' \in BOOLEAN
  BY <1>1, InvBetween DEF jointTrajectorySubCB, Inv, TypeInv, LinkKnown
<1>2. CASE /\ Takes(traj) /\ points' = Planned(traj, last_time)
           /\ last_time' = Last(traj.points).sec
           /\ i' = 1 /\ makeConnect(1)
           /\ asked' = Append(asked, [traj |-> traj, last_time |-> last_time])
           /\ got' = Append(got, <<>>) /\ UNCHANGED running
  <2> USE DEF Inv
  <2>1. points' \in Seq(Message) /\ Len(points') >= 2
    BY <1>2, PlanOfTrajectory DEF TypeInv
  <2>2. last_time' \in Int
    <3>1. Len(traj.points) \in DOMAIN traj.points
      BY <1>2, PointsType DEF Takes
    <3> QED BY <1>2, <3>1, PointType DEF Last
  <2>3. /\ link' \in BOOLEAN /\ connected_' \in BOOLEAN /\ running' \in BOOLEAN
        /\ link' => connected_'
    BY <1>2 DEF makeConnect, TypeInv, LinkKnown
  <2>4. PICK S, T : S = Asked /\ T = Seq(Message)
    OBVIOUS
  <2>5. PICK a : a = [traj |-> traj, last_time |-> last_time]
    OBVIOUS
  <2>6. a \in S /\ asked \in Seq(S) /\ got \in Seq(T) /\ <<>> \in T /\ Len(got) = Len(asked)
    BY <2>4, <2>5 DEF TypeInv, Asked
  <2>7. /\ asked' \in Seq(S) /\ Len(asked') = Len(asked) + 1 /\ asked'[Len(asked) + 1] = a
        /\ \A n \in 1 .. Len(asked) : asked'[n] = asked[n]
    BY <1>2, <2>5, <2>6, AppendProperties
  <2>8. /\ got' \in Seq(T) /\ Len(got') = Len(got) + 1 /\ got'[Len(got) + 1] = <<>>
        /\ \A n \in 1 .. Len(got) : got'[n] = got[n]
    BY <1>2, <2>6, AppendProperties
  <2>9. Len(got) \in Nat /\ DOMAIN got = 1 .. Len(got) /\ DOMAIN got' = 1 .. (Len(got) + 1)
    BY <2>6, <2>8, LenProperties
  <2>10. TypeInv'
    BY <1>2, <2>1, <2>2, <2>3, <2>4, <2>6, <2>7, <2>8 DEF TypeInv
  <2>11. Sending'
    BY <1>2, <2>5, <2>6, <2>7, <2>8, <2>9 DEF Sending, Last
  <2>12. AllWhole'
    <3>1. \A n \in 1 .. Len(got) : Whole(got[n], asked[n].traj)
      BY <2>9 DEF AllWhole
    <3>2. \A n \in 1 .. Len(got) : got'[n] = got[n] /\ asked'[n] = asked[n]
      BY <2>6, <2>7, <2>8
    <3>3. Whole(got'[Len(got) + 1], asked'[Len(got) + 1].traj)
      BY <2>8 DEF Whole
    <3>4. \A n \in 1 .. (Len(got) + 1) : n \in 1 .. Len(got) \/ n = Len(got) + 1
      BY <2>9
    <3>5. \A n \in DOMAIN got' : Whole(got'[n], asked'[n].traj)
      BY <2>9, <3>1, <3>2, <3>3, <3>4
    <3> QED BY <3>5 DEF AllWhole
  <2> QED BY <2>3, <2>10, <2>11, <2>12 DEF LinkKnown
<1> QED BY <1>1, <1>2 DEF jointTrajectorySubCB, Takes, Planned, TypeInv, Inv

\* An iteration that sends its point.
LEMMA InvSends ==
  ASSUME Inv, SendPoint, connected_, link
  PROVE  Inv'
<1> USE DEF Inv
<1>1. /\ got' = [got EXCEPT ![Len(got)] = Append(got[Len(got)], points[i])]
      /\ i \in 1 .. Len(points) /\ i' = IF i < Len(points) THEN i + 1 ELSE 0
      /\ UNCHANGED <<connected_, link, running, last_time, points, asked>>
  BY DEF SendPoint, TypeInv
<1>2. PICK g : g = Last(got)
  OBVIOUS
<1>3. PICK n : n = Len(got)
  OBVIOUS
<1>4. n \in Nat \ {0} /\ n = Len(asked) /\ DOMAIN got = 1 .. n /\ DOMAIN asked = 1 .. n
  <2>1. asked # <<>>
    BY <1>1 DEF Sending
  <2> QED BY <1>3, <2>1, EmptySeq, LenProperties DEF TypeInv
<1>5. PICK traj : traj = asked[n].traj
  OBVIOUS
<1>6. Takes(traj) /\ points = Planned(traj, asked[n].last_time) /\ asked[n].last_time \in Int
  <2>1. asked[n] \in Asked
    BY <1>4, ElementOfSeq DEF TypeInv
  <2> QED BY <1>1, <1>4, <1>5, <2>1 DEF Sending, Last, Asked
<1>7. g = got[n] /\ g \in Seq(Message) /\ Len(g) = i - 1 /\ \A k \in 1 .. Len(g) : g[k] = points[k]
  BY <1>1, <1>2, <1>3, <1>4, ElementOfSeq DEF TypeInv, Sending, Last
<1>8. PICK new : new = Append(g, points[i])
  OBVIOUS
<1>9. /\ new \in Seq(Message) /\ Len(new) = i /\ new # <<>>
      /\ \A k \in 1 .. i : new[k] = points[k]
  <2>1. points[i] \in Message
    BY <1>1, ElementOfSeq DEF TypeInv
  <2>2. /\ new \in Seq(Message) /\ new # <<>> /\ Len(new) = Len(g) + 1 /\ new[Len(g) + 1] = points[i]
        /\ \A k \in 1 .. Len(g) : new[k] = g[k]
    BY <1>7, <1>8, <2>1, AppendsMessage
  <2>3. \A k \in 1 .. i : k \in 1 .. Len(g) \/ k = Len(g) + 1
    BY <1>1, <1>7
  <2> QED BY <1>1, <1>7, <2>2, <2>3
<1>10. /\ got' \in Seq(Seq(Message)) /\ Len(got') = n /\ DOMAIN got' = 1 .. n /\ got'[n] = new
       /\ \A m \in 1 .. n : m # n => got'[m] = got[m]
  <2>1. got' = [got EXCEPT ![n] = new] /\ got \in Seq(Seq(Message))
    BY <1>1, <1>3, <1>7, <1>8 DEF TypeInv
  <2>2. PICK T : T = Seq(Message)
    OBVIOUS
  <2>3. /\ got' \in Seq(T) /\ Len(got') = n
        /\ \A m \in 1 .. n : got'[m] = IF m = n THEN new ELSE got[m]
    BY <1>3, <1>4, <1>9, <2>1, <2>2, ExceptSeq
  <2> QED BY <1>4, <2>2, <2>3, LenProperties
<1>11. TypeInv'
  <2>1. i' \in 0 .. Len(points)
    BY <1>1 DEF TypeInv
  <2>2. Len(got') = Len(asked)
    BY <1>4, <1>10
  <2> QED BY <1>1, <1>10, <2>1, <2>2 DEF TypeInv
<1>12. Sending'
  BY <1>1, <1>4, <1>5, <1>6, <1>9, <1>10 DEF Sending, Last
<1>13. Whole(new, traj)
  <2>1. /\ Len(points) = Max({2, Len(traj.points)}) /\ points[1].sequence = START_TRAJECTORY_DOWNLOAD
        /\ \A k \in DOMAIN points : points[k].sequence = END_TRAJECTORY <=> k = Len(points)
    BY <1>6, PlanOfTrajectory, ZenonT(30)
  <2>2. i \in DOMAIN points
    BY <1>1, LenProperties DEF TypeInv
  <2>3. new[1].sequence = START_TRAJECTORY_DOWNLOAD
    <3>1. 1 \in 1 .. i
      BY <1>1
    <3> QED BY <1>9, <2>1, <3>1
  <2>4. Last(new) = points[i]
    <3>1. i \in 1 .. i
      BY <1>1
    <3> QED BY <1>9, <3>1 DEF Last
  <2> QED BY <1>9, <2>1, <2>2, <2>3, <2>4 DEF Whole
<1>14. AllWhole'
  BY <1>1, <1>4, <1>5, <1>10, <1>13 DEF AllWhole
<1> QED BY <1>1, <1>11, <1>12, <1>14 DEF LinkKnown

\* One that does not: it makes no connection.
LEMMA InvLoses ==
  ASSUME Inv, SendPoint, ~(connected_ /\ link)
  PROVE  Inv'
<1> USE DEF Inv
<1>1. /\ i \in 1 .. Len(points) /\ i' = IF i < Len(points) THEN i + 1 ELSE 0
      /\ ~link /\ connected_' \in BOOLEAN /\ UNCHANGED link
      /\ UNCHANGED <<got, running, last_time, points, asked>>
  BY DEF SendPoint, TypeInv, LinkKnown, makeConnect, onlyFirst
<1>2. TypeInv' /\ LinkKnown' /\ AllWhole'
  <2>1. i' \in 0 .. Len(points')
    BY <1>1 DEF TypeInv
  <2> QED BY <1>1, <2>1 DEF TypeInv, LinkKnown, AllWhole
<1>3. asked # <<>> => Len(Last(got)) \in Nat
  <2>1. asked # <<>> => Len(got) \in 1 .. Len(got)
    BY EmptySeq DEF TypeInv
  <2> QED BY <2>1, ElementOfSeq, LenProperties DEF TypeInv, Last
<1>4. Sending'
  BY <1>1, <1>3 DEF Sending
<1> QED BY <1>2, <1>4

\* Every step keeps the invariant.
LEMMA InvNext == Inv /\ [Next]_vars => Inv'
<1> SUFFICES ASSUME Inv, [Next]_vars PROVE Inv'
  OBVIOUS
<1>1. CASE trajectoryStop
  BY <1>1, InvBetween DEF trajectoryStop, Inv, TypeInv, LinkKnown
<1>2. CASE jointTrajectoryCB
  BY <1>2, InvBetween DEF jointTrajectoryCB, Inv, TypeInv, LinkKnown
<1>3. CASE LoseConnection
  BY <1>3 DEF LoseConnection, Inv, TypeInv, LinkKnown, Sending, AllWhole
<1>4. CASE UNCHANGED vars
  BY <1>4 DEF vars, Inv, TypeInv, LinkKnown, Sending, AllWhole
<1> QED BY <1>1, <1>2, <1>3, <1>4, InvTrajectory, InvSends, InvLoses DEF Next

\* The invariant holds throughout.
LEMMA DownloaderInvariant == Spec => []Inv
BY InvInit, InvNext, PTL DEF Spec
-----------------------------------------------------------------------------
\* Whatever is lost of a download, what the controller got of it has no gap: it begins
\* with the point marked as the first, and a last point is there only behind all others.
THEOREM DownloadIsPrefix == Spec => []DownloadPrefix
<1>1. Inv => DownloadPrefix
  <2> SUFFICES ASSUME Inv PROVE DownloadPrefix
    OBVIOUS
  <2>1. ASSUME i > 0 PROVE IsPrefix(Last(got), points)
    <3>1. /\ asked # <<>> /\ Len(Last(got)) < i /\ i <= Len(points)
          /\ \A k \in 1 .. Len(Last(got)) : Last(got)[k] = points[k]
      BY <2>1 DEF Inv, TypeInv, Sending
    <3>2. Last(got) \in Seq(Message) /\ points \in Seq(Message)
      <4>1. Len(got) \in 1 .. Len(got)
        BY <3>1, EmptySeq DEF Inv, TypeInv
      <4> QED BY <4>1, ElementOfSeq DEF Inv, TypeInv, Last
    <3>3. PICK g : g = Last(got)
      OBVIOUS
    <3>4. Len(g) \in Nat /\ Len(points) \in Nat /\ i \in Nat
      BY <3>2, <3>3, LenProperties DEF Inv, TypeInv
    <3>5. SubSeq(g, 1, Len(g)) = SubSeq(points, 1, Len(g))
      BY <3>1, <3>3, <3>4
    <3> QED BY <3>1, <3>3, <3>4, <3>5 DEF IsPrefix
  <2> QED BY <2>1 DEF Inv, AllWhole, Whole, DownloadPrefix
<1> QED BY DownloaderInvariant, <1>1, PTL

\* What send_to_robot sends is what ROS asked for, whatever the order of the joints in the
\* robot and in the trajectory, which of them have a limit, and how its points lie in
\* time: positions by name, a velocity that is enough, a last point that is marked (if it
\* has velocities), and no other one.
THEOREM PlanIsWhatWasAsked == Spec => []PlanFaithful
<1>1. Inv => PlanFaithful
  <2> SUFFICES ASSUME Inv, i > 0
               PROVE  LET traj == Last(asked).traj
                      IN  /\ PositionsByName(points, traj) /\ EndMarked(points, traj)
                          /\ TimeKept(points, traj)
    BY DEF PlanFaithful
  <2>1. asked # <<>> /\ Takes(Last(asked).traj)
        /\ points = Planned(Last(asked).traj, Last(asked).last_time)
    BY DEF Inv, Sending
  <2>2. Last(asked) \in Asked
    <3>1. Len(asked) \in 1 .. Len(asked)
      BY <2>1, EmptySeq DEF Inv, TypeInv
    <3> QED BY <3>1, ElementOfSeq DEF Inv, TypeInv, Last
  <2> QED BY <2>1, <2>2, PlanIsFaithful DEF Asked
<1> QED BY DownloaderInvariant, <1>1, PTL
=============================================================================
