# Formal models of the Stäubli VAL3 driver

TLA+ specifications of the ROS 2 driver for Stäubli robots in this repository, the TLC
configurations that check them on small instances, and theorems checked by TLAPS. Paths below
are relative to the repository; `val3/` stands for `staubli_val3_driver/val3/`.

## The system

A Stäubli CS8/CS9 controller runs the VAL3 program `ros_server`. It serves four TCP sockets:
motion commands, robot state, system requests and IO requests. On the other side ROS nodes
speak the `simple_message` protocol with it: `industrial_robot_client` streams joint
trajectories and turns robot state into topics, `robot_middleware` sits between client and
controller as a relay and adds jogging and pose tracking with velocity commands, and
`staubli_val3_driver` offers services for drive power and digital outputs.

    joint_trajectory_action --topic--> joint_trajectory_streamer --TCP--> robot_middleware --TCP--> ros_server --> arm
             ^---- feedback, robot status ---- robot_state nodes <---TCP--- robot_middleware <--TCP----'
             jog commands, goal poses ------------------------------------------^

### Inventory

| Component | State it keeps | Operations | What makes it hard | What makes it correct |
|---|---|---|---|---|
| Motion queues (`ros_libs/QueueFuncs`) | ring of 10 commands, three counters | push, pop, clear | counters maintained separately | counters agree; FIFO; refuses only when full |
| Receiver (`dataReceiver` and what it calls), three tasks | connection flag per socket, motion buffer, stop flag, newest message type | receive, decode, store, handle, acknowledge | one program in three tasks; shares flags with the motion task and the state machine without locks | a point is stored at most once and in order; STOP is obeyed |
| Motion task (`motionControl`, `motionCtrlVel`) | two motion buffers, velocity command, `l_bVelReady` | one iteration every 4 ms | two programs for one task; blocks in `waitEndMove()`; serves the stop flag of two other tasks | never moves while disconnected or stopped; executes each point and command once |
| State machine (`stateMachine`) | `nMotionMode`, `l_nNextState`, event flag | wait for event, kill, reset and create the motion task | asynchronous: every synchronous task runs between two of its lines | the task's program is that of the mode; a change of mode ends; nothing leaks from one program to the other |
| Streamer and heartbeat | `nConnFlagState`, robot status | send feedback, fetch status, poll the state socket | status refreshed every 20th iteration only; announces a connection after a delay | a lost connection is noticed |
| Trajectory interface and streamer (`industrial_robot_client`) | state, current trajectory, current point | convert and check a trajectory, stream, stop, reconnect | callback and thread share state partly without the mutex; the reply code is ignored | points in order; nothing sent after a stop; the last point marked |
| Trajectory action (`joint_trajectory_action.cpp`) | active goal, handle, success flags | goal, cancel, execute, watchdog, feedback | one thread per goal, flags without a lock | each goal ends once, with its own result |
| Sockets and connections (`simple_message`) | connected flag, sequence counter | connect, send, receive, send-and-receive | partial reads, timeouts, closed peers | a reply belongs to its request |
| Message manager (`simple_message`) | list of handlers | add, spin | inverted result of the callback | every message is handled or answered |
| Driver of the middleware (`robot_driver.cpp`) | motion control mode and owner, state and status with their locks | take and release the mode, velocity control, wait for state | a lock owned by a thread id; test and use of the status | who begins to move the robot holds the mode, and nobody else can take it |
| Relay handlers | `is_relaying_`, `ignore_trajectory_` | relay, timeout, failure | only the first point takes the mode | no motion is relayed without the mode |
| Connection managers | connection, friend, condition variable | connect task, disconnect | wait without a predicate | a lost connection is established again |
| Jogging, pose tracking | state, command, error flag | command callbacks, control loop | unlocked writes, wait without a predicate | jogging ends with a zero command; errors are reported |
| ROS nodes for IO and power, state relays, utilities | none or a cached message | one request, one reply | a request that fails looks like any other | the caller is told what the controller said |

`PROJECT.json` lists every component with its sources and status, and under `hazards` the places
in the code that are hard to test, each with the properties that cover it or the reason why none
does yet.

## Plan

Done:

1. **The controller side.** Motion queues; the tasks of `ros_server` and their composition; the
   abstract arm; type correctness, the main invariants and the refinement proved.
2. **Sending a trajectory.** The streamer, its threads and its connection; the downloader; the
   conversion of a trajectory (validation, order of the joints, velocities and durations).
3. **The action.** Goals, their threads, the callbacks and the watchdog.
4. **The middleware.** The motion mode and its abstract lock; motion and state relay, jogging and
   pose tracking in one composition; limits of velocity commands; the connection managers.
5. **Messages.** Serialisation and fields of every message class; the message manager with its
   handlers over a connection that delivers messages in pieces.
6. **Proofs.** Every invariant, action property and refinement that a passing run checks is a theorem; what
   holds only under fairness is model-checked (see *Proofs*).

Left:

7. **The streamer against `ros_server`**, to see duplicates end to end: the streamer ignores the code of a
   reply, and `pushMotion` refuses a point when its buffer is full.

## Modules

| Module | Models |
|---|---|
| `BoundedFifo` | abstract specification of a bounded first-in first-out store |
| `MotionQueue` | the ring buffer of `libQueueFuncs` |
| `MotionQueueProofs` | its invariants and refinement, proved |
| `RosServerGlobals` | globals and task locals of `ros_server`, message and point records, initial state (`start.pgx`) |
| `DataReceiver` | `dataReceiver.pgx` and the programs it calls, in particular `pushMotion.pgx` |
| `MotionTask` | `motionControl.pgx`, `motionCtrlVel.pgx` |
| `StateMachineTask` | `stateMachine.pgx` |
| `ConnectionTasks` | `recvHeartbeat.pgx`, `dataStreamer.pgx`, and the world: connections, power, the arm |
| `RosServer` | the composition, all properties |
| `ArmMotion` | abstract specification: what the tasks together may do with the arm |
| `RosServerProofs` | type correctness, invariants and refinement, proved |
| `MCRosServer` | message sets for TLC |
| `TcpConnection` | `SmplMsgConnection` over `SimpleSocket` over `TcpClient`, as `sendAndReceiveMsg` uses them, and the other end |
| `TrajectoryStreamer` | `JointTrajectoryInterface` and `JointTrajectoryStreamer`: the callbacks, the streaming thread, all properties |
| `TrajectoryStreamerProofs` | type correctness, order, what counts as sent, no gap, proved |
| `TrajectoryConversion` | `is_valid`, `select`, `calc_velocity`, `calc_duration`, `trajectory_to_msgs` as operators |
| `TrajectoryDownloader` | `JointTrajectoryDownloader`: conversion, then every message without a reply |
| `MCTrajectoryDownloader` | trajectories for TLC |
| `TrajectoryDownloaderProofs` | what any trajectory becomes, and what arrives of it, proved |
| `JointUtils` | comparisons of joint names and values of `industrial_utils` and `industrial_robot_client` |
| `TrajectoryAction` | `JointTrajectoryAction`: callbacks, the thread of each goal, watchdog |
| `MCTrajectoryAction` | goals and feedback for TLC |
| `TrajectoryActionProofs` | the invariants of the action, proved for any goals and feedback |
| `MotionLock` | abstract specification of the motion mode: a lock with a holder |
| `VelocityLimits` | `initSetup` and `initParam` (joint limits, settings in radians), `enforceLimits` and what it calls, `sendVelocityConfig_internal`: limits of a command and of a configuration |
| `RobotDriver` | motion mode and owner of `RobotDriver`; what it knows of connections, status and frames; its requests |
| `MotionRelay` | `MotionRelayHandler`, and `TcpServer` as its client meets it |
| `VelocityControl` | `startVelocityControl`, `sendVelocityCommand`, `stopMotionControl`, `waitForStateUpdate`, as a controller uses them |
| `StateRelay` | `StateRelayHandler`, and what it wakes up |
| `JogInterface` | `JogInterface`: callbacks and thread |
| `PoseTracking` | `PoseTrackingController`: callback and thread |
| `RobotMiddleware` | composition of the relay, the controllers and the state relay; all properties |
| `RobotMiddlewareProofs` | who holds the mode, the lock, errors that are kept; limits for any robot model, the selection of its joints included, proved |
| `ConnectionManager` | `SimpleSocketManager`, `TcpClientManager`, `TcpServerManager`, the users of their connections |
| `MCConnectionManager` | friends for TLC |
| `ConnectionManagerProofs` | a lost friend is made anew, proved for any connections and friends |
| `SimpleMessage` | `ByteArray`, `SimpleMessage`: what is written, and what a reader finds |
| `MessageTypes` | the message classes: fields, order, optional fields, validity |
| `ServiceNodes` | `IOInterface` and `SystemInterface`: start, request, answer, as operators |
| `MessageManager` | `MessageManager` and `RobotStateInterface` with its handlers, over a connection |
| `MCMessageManager` | messages for TLC |
| `MessageManagerProofs` | whole messages are read, each once and in order; every class reads what it wrote; what is published is what was sent, and what is answered; proved for any messages and pieces |

### How the model corresponds to the code

*Variables* have the names of the VAL3 globals (`bStopNow`, `nMotionMode`, ...) and of the task
locals that live between iterations (`l_bVelReady`, `l_nNextState`, ...). `motionProg` is the
program the task `sMotionTask` runs, `"NONE"` when it was killed; `motionPc` is `"waitEndMove"`
while that instruction blocks; `smPc` is the next line of the state machine. `moves`, `velMode`,
`velCmd` and `powered` belong to the controller.

*Scheduling.* VAL3 runs synchronous tasks with a period and lets asynchronous ones share the
remaining time, switching after each line. One iteration of a synchronous task (`dataReceiver`
on the motion socket, the motion task, `dataStreamer`) is one action; of the asynchronous ones
(`stateMachine`, `recvHeartbeat`, `dataReceiver` on the other sockets) each line that touches shared
data is an action. No order and no relative speed is assumed, so a task that overruns its period
is covered. `motionControl` blocks in `waitEndMove()`, its second action `EndMove`.

*Messages.* A client is arbitrary: `ReceiveMotion(m)` receives any `m` of `ClientMsgs` when
connected. Sending, TCP and receiving are one step, because TCP keeps the order and nothing else
in the program sees a message before `recvData` returns it. Messages are received whole; an
incomplete or unknown one changes nothing but the connection flag (`PollMotion`). A record keeps
what the tasks look at: type, whether the sequence number is STOP (-4), whether an acknowledgement
is requested, whether the joints are in range, the velocity in hundredths (a ratio of 0.2 is 20; the
mark of the last point adds 200), and the type of a velocity configuration or command. The number
of a message is the position in the order of arrival; points and velocity commands are identified
by it.

*Queues* are sequences bounded by `QSize` in `RosServer`. That the ring buffers behave like this
is what `MotionQueue` and its refinement theorem show.

*Left out:* bytes, frames, tools and accelerations; `bOverwriteVel`, the velocity override set on
the pendant; acknowledgement contents; motion messages on the system and IO sockets and requests on
the motion socket; status fields other than `nMotionPossible` and `nTrajectoryComplete`; the screen
task; `stop()`. `powered` is true when the drives have power and no emergency stop is active. The
counter that makes `dataStreamer` fetch the status every 20th time is a free choice. A velocity
command of a frame type may be executed under a configuration of another type (TODO at
`pushMotion.pgx:199`): the model has no view on what its numbers mean then.

*History variables:* `nRecv`, `lastMoved`, `lastVelCmd`, `lastStop`, `configured` (a velocity configuration was received).

### The sending side

`ros_server` and the streamer are checked apart; the receiver of `TrajectoryStreamer` is external.

*Threads.* `threadPc` is where the streaming thread is: at the `top` of its loop, `connecting` (the
wait of a quarter of a second after `makeConnect`), about to `send`, or waiting for the `length` or
the `body` of a reply. It holds `mutex_` from `ThreadSwitch` until it is at the `top` again.
`cbPc` says the same of the callback. Callbacks run one at a time in the executor's thread.
`send_to_robot` locks `mutex_` and is one action that waits for it; `trajectoryStop` does not lock
it, so its steps interleave with the thread's. The `raced` history variable is set when that happens.

*Connection.* `connected_` is what `SimpleSocket` believes and `link` what is true. A request may be
sent on a connection that broke a moment ago; then it is lost and the receive that follows fails. A
reply comes in two halves, because `receiveMsg` reads the length and the body with two calls, and
whichever thread reads first gets what is there. When a thread reads the wrong half, the position
in the stream is lost (`garbled`): from then on a call may succeed, fail or block. When the
connection breaks, any part of what is on its way is lost; a new connection starts empty.

*Left out here:* what `TrajectoryConversion` says of trajectories that are not valid (they have no effect) and of the
values of points; padding to `min_buffer_size`, which is 1
by default; `jointTrajectoryCB` of the streamer and of the interface as a service (the former is
registered nowhere). `connectRetryCount` goes on
counting below zero in the code; the model stops at zero, since only its sign matters.

*History variables:* `lastGot`, `stopGot`, `raced`.

`TrajectoryConversion` gives positions and velocities as small integers and velocities as
ratios in hundredths; the branches of the code (no velocities, velocity above the limit, ratio
above one or too small, missing joint, first point) are all there. `TrajectoryDownloader` sends what it
returns. The exceptions of the C++ vectors and of the conversion of a negative duration end the
process (`running`), after which nothing happens.

### The action

Every accepted goal has a thread (`execute`), which polls the flags of the node and ends when its
goal is cancelled or a success is noted. Callbacks run one at a time in the executor's
thread; each is one action, because only goal threads run beside it and each line of these
that reads or writes a member is a step of its own. A feedback is any of the messages of `Feedback`, compared with the trajectory of the goal
accepted last by the operators of `JointUtils` (`isWithinRange`, with joints in another order, missing or foreign
joints). Time stamps are left out: `halfway` says that half of the trajectory's time has passed. `goal` is
the state of a goal's handle in `rclcpp_action`, whose calls throw for a goal that has ended (`terminated`).
*History:* `arrived`.

### The middleware

One composition, because all parts share `motion_control_mode_` and its owner. Each thread (`relayPc`,
`pc["jog"]`, `pc["pose"]`) is at one line at a time; a step ends where the thread locks, waits or calls the
controller, since those are the places where another one can run between what it read and what it does with
it. A callback of the jog interface is one step under `state_mtx_`. `fresh` and `newer` stand for
comparisons of time stamps: `fresh[t]` says that the newest command is younger than the time-out, `newer[t]` that a
state arrived which the loop has not seen. The connections are up or down, and the status says anything and is young or
old, whenever they are read: `mayStart` is what `isConnected` and `isMotionPossible` make of that, and `granted` what
`sendRequest` makes of any reply. Frames are the base, the tool and another one: a goal may name one the robot
model lacks, and the tool frame of pose tracking may be one it lacks, while `initSetup` ends the process without the first two. Every
call that sends a velocity command fails for a type that has no equivalent, for limits that cannot be computed, or
with the connection. The state connection may be silent for any time.

`VelocityLimits` takes its settings from the user's parameters (`initParam`, with 60 degrees for a radian so that
all is whole) and its joints from the robot model (`joint_limits_`, of which only revolute joints are part);
`KeepsLimits` compares the result with what the user asked for, in degrees.

`ConnectionManager` has for each connection the task (`taskPc`), which connects, sleeps on the condition variable and
starts again when notified, and a user of the connection, which finds a loss when a call fails. The user may hold
a socket that the task has replaced (`orphan`). The friend of a connection is disconnected with it.
The run has the two connections of `RobotDriver::init` (`RobotClients`, `RobotFriend`). A run with a server of
`RobotServerProxy::init` (`RobotServers`) as a third one has 1.2 million states and passes as well; it is left out because
a server is nobody's friend and has none.

### Messages

In `SimpleMessage` a byte names the value it belongs to and its place in it; `load` writes to the end of a
buffer and `unload` takes from the end, as the code does, so bytes taken apart at the wrong place give
`Garbled`. Byte order is left out (`ByteArray` swaps at both ends or at none). `MessageManager` delivers the length and the
body in two pieces each, any of which may be the last before the connection breaks. The handlers publish what
they read; a request gets the answer that the handler writes. `rawPoll`, `rawReceiveBytes` and `rawSendBytes` say what
the system calls may return in each state of the connection; the peer sends nothing out of band.

`Frames` are the messages a controller may send: any type, communication type, reply code and valid fields, in any
number of pieces. A frame that is `short` lacks a byte of its data, so it is one of a class that has data
(`ManagerAssumption`).

`ServiceNodes` has the requests of the two services and what their callers are told. A node connects once, when it
starts, so it has no state that changes, and its operators are checked in `RoundTrip`. `htons` keeps 16 bits of a port
(`sin_port`); `ConnectsToPort` is about the ports around the last that has 16 bits, and the first that has not.

## Runs

Constants: `QSize` is the capacity of the motion buffers (2 instead of 10 is enough to have an empty, a
partly filled and a full buffer, 1 where points play no part), `MaxMsgs` bounds messages, `MaxLinks`
the losses of a connection, `MaxRequests` the system and IO requests, `MaxPower` changes of drive power.
The properties need two or three messages to fail (the mutants below and the counterexamples show
that): a change of mode is one of them. Deadlock is not checked for `RosServer`: when
the bounds are used up and the tasks have nothing to do, the system stands still.

| Run | Constants | Shows |
|---|---|---|
| `MotionQueue` | 3 commands, size 3 | counters agree, FIFO (deadlock checked) |
| `RosServerMixed` | points, one out of range, the last of a trajectory, STOP, configuration and command for a frame, 3 messages, size 2; connections and requests | types, mode and task agree, order, no repetition, no point survives a STOP as long as no velocity mode was configured, refinement of `ArmMotion` |
| `RosServerLive` | a point, a full point, two configurations, a command, a command that stops, 2 messages, size 2; power and connections change | no stored point waits for ever in trajectory mode, stops are served, changes of mode end, a client that is gone stops the arm, a command is not followed for ever, a configuration that is the last message is in force in the end |
| `TrajectoryStreamer` | two trajectories of up to three points, two stops, two losses of the connection, one misread reply | types; points arrive in order, none is left out, what counts as sent was received; streaming ends, with a dead connection too |
| `TrajectoryDownloader` | trajectories of one to three points for three joints (one of them without a name), 2 of them asked for, 1 loss | every message says what the trajectory asks for, in the robot's order of the joints; a lost connection leaves no gap |
| `TrajectoryAction` | two goals with the same numbers for swapped joints, one without points, one for other joints; 7 feedback messages; threshold 3 | a success belongs to a goal whose end was reached; the active goal is one that runs; only a goal the watchdog aborted is reported twice; a cancelled goal ends |
| `RobotMiddleware` | none | a controller that moves the robot, and a trajectory whose first point was relayed, hold the mode (later points may be relayed without it: see below); refinement of `MotionLock`; an error is kept until the commands pause; control ends when commands or states stop coming; the relay gives the mode back; limits hold |
| `ConnectionManager` | the motion and the state connection, the first the friend of the second | a lost friend is made anew; every connection is repaired |
| `MessageManager` | 2 joints, 2 points, 2 messages, 1 loss | lengths and bodies stay aligned; what is published is what was sent; no request is answered twice or out of order, and those that are not for joints are answered; every class reads what it wrote, from either end; the services ask for what their caller wants and say what was answered; what arrived is read |

`TrajectoryStreamer` is bounded by `MaxTrajs`, `MaxPoints`, `MaxStops`, `MaxLosses` and `MaxMisreads`. Two
trajectories are needed for points of one among those of another, three points for a gap after
a first point that was sent, two losses for one during a retry of what the first one lost.
`SentMeansReceived` and `NoGap` hold as long as no STOP was sent while the thread was at work (`~raced`):
after that the replies may belong to the wrong request, and `FindPointAfterStop` shows what comes of it.

`RobotMiddleware` and `ConnectionManager` have no bounds: their state is finite. The middleware has the
threads the code has; two connections suffice because a connection has at most one friend. In
`TrajectoryAction` each goal is accepted once; two valid goals are enough, because
the node has room for one active goal and an earlier one is in question only through its thread. Feedback
includes the ends of both, points within and outside the threshold, joints in another order, and
messages without a joint or with another one. The threshold is odd, so that no joint lies on its edge: there the
code and its documentation disagree, and `SuccessAtGoal` takes no side.
`MessageManager` needs two messages for one to be read in place of another, and two joints for one to be
skipped.

Deadlock is checked where the system never stands still: `MotionQueue`, `RobotMiddleware`,
`ConnectionManager`. Elsewhere it may stop when the bounds are used up, when all goals have ended, or when
an exception ends the process.

`Repaired` holds except for a notification that nobody waits for: `connectionTask` waits without a
predicate, so a loss between `isConnected()` and `wait()` is noticed only at the next
one, and the property says so.

Every property of a passing run has a mutant in `PROJECT.json`: a plausible error in the modelled code
that makes TLC report the property violated. The operators named `Mutant: ...` in the modules serve this
purpose only.

### Fairness

Weak fairness of every task: the controller schedules a synchronous task each period, and an
asynchronous one gets its share of the remaining time. Weak fairness of `ArmMoves`: with power the arm
ends its movements. Clients, connections and power have no obligation, so the liveness properties name
what they need: `PowerStays` (without power `waitEndMove()` blocks for ever), and for
`LatestConfigInForce` that both connections stay up and that a configuration for `JOINT` is the last
motion message stored. It is about `JOINT` because `$velFrame` and `$velTool` may fail.

`TrajectoryStreamer` assumes weak fairness of the streaming thread (a loop with a sleep), of a
callback that has begun, and of the robot's answers. New trajectories, stops and losses have no obligation.
`StreamingEnds` is claimed only while no STOP is sent, because a misread length may block the thread
for ever in `receiveBytes` (the timeout is -1).

The others, for threads that run in a loop and are never starved by the operating system:

* `RobotMiddleware`: weak fairness of the relay thread once it has a message, of its time-out, and of the threads of
  jogging and pose tracking. Clients, callbacks, the arrival of states and the ageing of commands have
  no obligation; `ControlEnds` and `StateLossEndsControl` have the ones they need as hypotheses.
* `ConnectionManager`: weak fairness of each task, and of the call that notifies it of a loss. The peer
  need not accept; `Repaired` asks for one that does.
* `TrajectoryAction`: weak fairness of the thread of each goal. Callbacks have no obligation.
* `MessageManager`: weak fairness of `spinOnce`. The controller has no obligation.

### Disagreements between code and comments

Each is a run expected to end in a violation; `findings` in `PROJECT.json` quotes the comment.

| Run | What happens |
|---|---|
| `FindStalePoint` | a STOP served by `motionCtrlVel` leaves points that are moved later |
| `FindPointAfterStop` | the streamer goes on sending points of a trajectory after the robot has received the STOP for it |
| `FindUnansweredRequest` | a request with joints or with joint feedback gets no answer |

`FindStalePoint` checks `StopDiscardsAlways`, which is `StopDiscards` without its condition that no velocity mode was
configured before. `EveryRequestAnswered` of `FindUnansweredRequest` is about every request; `AnswersRequests` leaves open
whether those with joints are answered, so it holds with the error and without.

### Other things a reader of the code may not expect

They were met while modelling and have no run of their own.

On the controller:

* A completion that was reported is taken back by an IO or system request (`dataReceiver.pgx:90`).
* A velocity command on the heels of a configuration makes the state machine miss the configuration
  (`pushMotion.pgx:227`). `LatestConfigInForce` is about a configuration that is the last message.
* Every full point faster than 2 % counts as the end of a trajectory (`pushMotion.pgx:84`).
* `nTrajectoryComplete` is set when the last movement is queued (`MoveJoint`), not when it has ended:
  `motionControl.pgx:76` comes before `waitEndMove()` at line 77.
* A STOP during the last movement of a trajectory has no effect until that movement has ended (`EndMove`
  is the only action of a motion task that waits in `waitEndMove()`).
* The motion task may fill up again between its clean-up and `taskKill` (`SmWaitStop`, `SmKill`). This is
  contained: `resetMotion()` after `taskKill` empties the controller, which is why `ImplementsArm` holds (its
  mutant drops that line).

When sending (paths under `industrial_robot_client/src`):

* A new trajectory replaces the one that is being streamed; the check against it is in a
  callback nobody registers (`joint_trajectory_interface.cpp:125`, `joint_trajectory_streamer.cpp:105`).
* A ratio below the default is raised to the default (`joint_trajectory_interface.cpp:293`); the last
  time stamp is a static variable that outlives a trajectory (`:321`); a trajectory of a single
  point is downloaded as two messages.
* The service form of the interface dereferences a null pointer (`joint_trajectory_interface.cpp:139`).
* Any request for a goal forgets a success nobody has reported yet (`joint_trajectory_action.cpp:283`),
  and the thread of an earlier goal may take the success of a later one (`:396`); if the earlier goal was
  aborted its thread ends in an exception. `SuccessAtGoal` is therefore about the goal accepted last,
  and `OnlyAbortedTwice` excepts the aborted.
* A cancel frees the node before its STOP is published (`joint_trajectory_action.cpp:355`): the STOP of an old goal may
  cancel the trajectory of a new one. Until its thread has run, the watchdog looks at the goal before (`:375`).
* The last point of a trajectory without velocities is not marked as the last, because of the early return at
  `joint_trajectory_interface.cpp:274`. `PlanFaithful` leaves open whether it is.
* `isWithinRange` documents `<` (`utils.hpp:50`) and compares with `<=` (`utils.cpp:154`); `SuccessAtGoal` leaves the edge
  open. `mapInsert` documents the opposite of the value it
  returns. `isMotionPossible` compares times of two clocks until the first status arrives.

In the middleware (`adaptive_motion_control/robot_middleware/src`):

* The motion relay keeps the mode when it stops relaying because of a message it cannot decode or
  ignores; it relays later points of a trajectory without the mode once it was released, also
  when jogging or pose tracking has taken it since, so that two of them may move the robot; and the rest of a trajectory
  it decided to ignore is relayed (`motion_relay_handler.cpp:118`). Its `receiveMsg` from the controller
  has no time-out. `ModeHeldInMotion` leaves these later points out, and `RelayEnds` is about `is_relaying_`.
* The zero command at the end of jogging is not always the last command (`jog_interface.cpp:300`), an
  error of jogging is not kept (`:137`, `:302`), and a message with fewer velocities leaves the other axes of
  the previous one in force (`:250`). Errors of pose tracking are kept (`PoseErrorKept`).
* A notification for a new goal or command may be lost; the next one wakes the thread up.
* Cartesian commands are not checked against the limits of joints.
* `hasReachedGoal` keeps its `goal_entered` from one goal to the next (it is static), and overwrites the time of
  entry with the time of the goal (`pose_tracking_controller.cpp:241`): the settle time counts from the newest goal.
* `initSetup` logs a joint that is not revolute and leaves it out of `joint_limits_`, while `num_joints_` counts it
  (`robot_driver.cpp:84`, `:101`): behind such a joint the indices of limits and positions differ. The joints of the
  run are revolute.
* A time-out of the state relay is only logged, so a half-open connection is not made again;
  `StateLossEndsControl` shows that jogging and pose tracking end all the same.

In the messages:

* The handlers for joints and feedback compare the communication type with the message type, so they never
  answer a request (`FindUnansweredRequest`); a status request that is too short is never answered either. A message that is
  longer than its class is read from its end.
* The two services look at the reply code only, not at whether the request was sent and answered
  (`io_interface.cpp:141`, `system_interface.cpp:114`): without an answer they return what an uninitialised reply holds,
  success included, and they never connect again. `TellsTheAnswer` is about requests that are answered.
* Only these two check that a port has 16 bits; trajectory and state interface accept any that is positive
  (`joint_trajectory_interface.cpp:78`, `robot_state_interface.cpp:72`).
* An empty `JointTraj` is not written but read; `byteLength` of `JointTraj` and `JointTrajPt` is wrong but
  unused; `SimpleMessage::init` keeps what an earlier one left; `MessageManager::add` returns
  `false` when it replaces a handler.

## Proofs

A theorem holds for every value of the constants that satisfies the assumptions of its module. The bounds are
arbitrary naturals, so it covers runs of any length. The other assumptions are what the code's own types say
(names are strings, positions and lengths are numbers, at least one joint) and:

* `ConversionAssumption`: limits of velocities are positive and the default ratio is a percentage.
* `TrajectoryAssumption`: a trajectory names every joint once, and a point has a velocity for all of its joints or for none. The
  code does not look whether that is so: it reads past the end of a shorter vector.
* `GoalAssumption`: goals have trajectories and are not called like the strings that stand for no goal.
* `ManagerAssumption` of `ConnectionManager`: a connection is made by a client or a server, and its friend is one of them.
* `ManagerAssumption` of `MessageManager`: what a controller sends has a type, communication type and reply code that
  the protocol knows, and lacks a byte of its data only where there are data.

`MotionQueueProofs`: `Inv == TypeOK /\ RingInv` is inductive. The refinement follows from one lemma for
each operation, saying what it does to the sequence `Contents`.

`RosServerProofs`:

* `TypeCorrect`. `TypeOK` is inductive by itself. It is split into one formula per group of variables;
  `Frame` deals with the groups an action leaves alone, one step per action with the others.
* `TaskMatchesMode`. `ModeMatchesTask` is silent about the states in which the state machine replaces the
  motion task; `Transition` describes program and next mode in each of them and is inductive.
* `PointsInOrder`, `CommandsOnce`. `Fresh` adds that `qMoveBuffer` is empty between iterations (the
  interpolation it is meant for is a TODO in the code), and that nothing stored or used is newer than the newest
  message.
* `RefinesArm`. `OneMotion` says that the program that runs finds the arm in no other program's hands, and
  that both are clean before the new task is created. With it every step maps to a step of `ArmMotion` or to
  a stutter.
* `StopDiscardsPoints`. As long as no velocity mode was configured, `motionControl` runs and a point older than
  the newest STOP is stored only while `bStopNow` is set (`StopPending`). After a configuration the
  property fails (`FindStalePoint`).

`TrajectoryStreamerProofs`, under `ConnectionAssumption` and `StreamerAssumption`:

* `TypeCorrect`. `TypeOK` needs `Busy`: the thread sends or waits for a reply only with a point that
  exists, so that counting it keeps `current_point_` within the trajectory. `mutex_` gives this: no
  trajectory is replaced meanwhile.
* `InOrder`. `OrderInv` says that the points on their way are ordered among themselves, none is older than
  `lastGot`, and none is newer than the point the thread is at. This holds through losses, retries,
  races with a STOP and misread replies.

* `SentWasReceived`, `NoPointLeftOut`. `Lone` describes the conversation as long as `~raced`: at most one request
  or one reply is under way, in whole or in halves, whose turn it is agrees with `threadPc` and `cbPc`, and what is
  under way is the point the thread is at. After a loss the same point is what the robot has or lacks, which is why a retry leaves no gap.

`TrajectoryDownloaderProofs`: `Planned` (the messages of a trajectory) is described for every trajectory by lemmas about
each operator: `Ordered` (positions by name), `Ratios` and `Velocity` (the largest ratio, raised to the default or
clipped), `PlanOfTrajectory`. The invariant `Sending` says that what the controller got is the beginning of these messages, and
that the connection is the only thing that can end it early.

`TrajectoryActionProofs`: `ThreadInv` says how far a goal can be for each line of its thread (only the watchdog
interferes), `ActiveInv` that the active goal is the one accepted last and its thread is in the loop, and
`ArrivedInv` that `has_succeeded_` always follows a message that was at the goal. The lemma `WithinIsAtEnd` says what
`withinGoalConstraints` computes for any two orders of the joints; its model uses a bijection between them, as a
sorted comparison does.

`RobotMiddlewareProofs`:

* `ModeIsHeldInMotion`, `ModeImplementsLock`. `ModeHeldInMotion` needs `OwnerKnown` (a mode that is taken has an
  owner) and the types of mode and lines. Each line of the two controllers keeps the
  claim of the others; every step changes the mode only as `setMotionControlMode` allows.
* `PoseErrorStays`. `ErrorStops`: in error the thread has stopped, is about to, or waits.
* `EveryCommandKeepsLimits`, `AllowedVelocityKeepsLimits`. For any robot, position, command, Jacobian and settings, the
  share that is left of a command keeps every limit, is nothing when a joint would leave its range, and is not
  smaller than needed when the command keeps the limits. Fractions are pairs of naturals; `LessIsTransitive` and
  `SmallestIsIn` make a minimum of them.
* `KeepsItsLimits`, `CommandsOfAnyModelKeepLimits`. The joints these limits are about are the ones `initSetup` collects
  from the robot model. `CollectsLimits` says what this loop collects from any model: every revolute joint and
  no other. With it `LimitsHold` follows as the run states it, and the same for any model.

`ConnectionManagerProofs`: `outlived` holds the connections whose friend is older than their newest loss.
`FriendToClose` says that such a connection is down, its friend up, and that its task has yet to pass the line that
closes the friend. Friends may be shared, and may have friends.

`MessageManagerProofs`:

* `ReadsWholeMessages`. The pieces on the wire have a place (`off`) in their messages, pieces of one message follow
  each other, and the reader waits for the piece that comes next (`Awaits`). `Reads` says so for each of its
  states, and every step keeps it for some `off`.
* `ReadsEachOnce`. `EachOnce`, the first half of `PublishesWhatWasSent`: a first piece is one of a newer message than all
  before it (`Rising`), and what arrived is older than all that is on the wire (`Arrived`).
* `ReadsWhatWasWritten`. `RoundTrip` does not depend on the state; `EverythingIsRead` proves it from the classes alone.
  `Serialized` and `ReadsBack` say that any members are read from where they were written, if none has the name of
  another and they are read from the last to the first. `Block` says that a list of members is such; it holds for arrays
  of any length and is kept when one is put behind another, so `LayoutBlock` has it for every class. Trajectories are a
  loop of such blocks (`ReadsThePoints`). That a message without its last byte is refused, that copies equal their
  originals and nothing else does, and what the service nodes ask and tell, follow from the members.
* `PublishesIt`, `AnswersThem`. `SentData` says what a handler finds in a message that arrived whole, and the
  lemmas about the handlers what they make of it. `Served` then says that `published` is what the handlers publish of the
  messages that were handled (`Handled`: all that arrived, but for the one in the buffer), that the requests
  among them which are not for joints are the ones `replies` answers, and (`Ordered`) that answers are in the order of
  the messages, none twice. Nothing is said of requests for joints. It is inductive together with `Inv` and
  `Arrived` (`ServedInvariant`), which tell that the buffer holds the message that arrived last.

**Recursive functions.** `serialize`, `deserialize`, `size`, the loops over joints and points and the folds behind
`FlattenSeq` are recursive functions, and a recursive function is a `CHOOSE` of one that satisfies its equation:
to use the equation, one has to show that such a function exists. For a loop this is `LoopTurns` (or `LoopPushes`): the
turns can be taken one after the other from any beginning. The library states induction for an operator that is a
parameter, which the provers cannot instantiate, so `Loop` states it for a set: `n` is in it if `0` is, and each number
after one that is. It follows from the least number that is not in the set (`WFMin`). With these two,
what a recursive function computes is proved for inputs of any length.

Model-checked only is everything that is temporal under fairness (`StopServed`, `TransitionEnds`,
`DeadClientStopsArm`, `JogStops`, `LatestConfigInForce`, `PointsServed`, `StreamingEnds`, `ControlEnds`,
`StateLossEndsControl`, `RelayEnds`, `Repaired`, `CancelEnds`, `Drained`), because liveness is out of the prover's reach.
So are the three disagreements, which are counterexamples.

## Not modelled

* `moveit_interface`: it forwards requests to MoveIt, whose behaviour is that of the library.
* UDP sockets: nothing in the repository uses them.
* `val3/ros_libs` decoding of bytes and the IO interface: sequential programs without state of their own; the messages of
  `DataReceiver` are what they return.
* Bytes and byte order, numbers as floating point, PID controllers, kinematics and transforms: the
  properties do not depend on them. The values of joints and status that the state relay stores are free.
* Reading parameters (but for the limits) and robot descriptions, opening the ports of the servers, start-up and shutdown of nodes, `stop()` on the controller.
* `findChainJointNames`: nothing that runs calls it.
* Message and service definitions, launch files, URDF and configuration packages: data.
