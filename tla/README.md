# A TLA+ verification of DroidOS

DroidOS is the operating layer of a humanoid robot: a Python "brain" that turns
an operator's words into validated actions, an A/B update service, and the C
firmware of the microcontroller that switches the motor contactor, a ROS 2
bridge around the brain, and Rocky, which runs a model's proposals on a desktop.
This directory holds TLA+ models of the parts that decide whether motors may move and
what survives a crash, the TLC configurations that check them on small
instances, and TLAPS proofs for all instances.

## 1. The system

### 1.1 Components

| Component | State it keeps | Operations | Talks to |
|---|---|---|---|
| State machine (`core/states.py`) | the `DroidState` of the runtime | `transition`, `force` | supervisor, gateway, executive |
| Safety gateway (`services/safety_gateway.py`) | the latch file `safety_latch.json` | establish contact, heartbeat, request/release motor power, engage and reset the e-stop, report and clear faults | controller, backend, file |
| Simulated safety controller (`backends/safety_controller.py`) | e-stop, contactor, faults, link, last contact | the gateway's requests, `check_watchdog` inside `status()` | gateway |
| Safety firmware (`firmware/safety-controller`) | latched e-stop, requested and actual power, fault bits, two deadlines | one control loop: receive, poll, switch, report | host over CAN-FD |
| Body backends (`backends/simulation.py`, `canfd_hardware.py`) | power flag, bus, readings | connect, `set_power`, send, drain | motion, gateway |
| Supervisor (`services/supervisor.py`) and managed services (`lifecycle.py`) | lifecycle state of twelve services, the list of failed ones | boot, activate with dependencies, readiness, `restart_failed`, shutdown | every service |
| Executive (`executive/`) | the running task | one handler per tool; the drive task is a behaviour tree | gateway, motion, supervisor, state machine |
| Command broker (`language/broker.py`) | none | `validate` | supervisor, world model, security |
| Language service, providers, parser (`language/`) | the provider chain | `process` | broker, executive, an HTTP model |
| Sessions (`cli/droid.py`, `voice/`) | the question that waits for an answer | one line, one utterance | language service |
| Update service (`services/update.py`) | a copy of `update.json` in each process | install, confirm, roll back, load, save | file, boot loader |
| Memory, world model (`services/memory.py`, `world_model.py`) | a copy of one JSON file each, in each process | remember, forget, add and remove a place, note an obstacle | broker, executive, files |
| ROS 2 bridge (`ros2/`) | three nodes, each with a brain of its own; the queue of goals | e-stop and reset services, state and safety topics, `ExecuteTask` | brain, latch file |
| Configuration and bodies (`core/config.py`, `body/`, `util/miniyaml.py`, `gait/policy.py`) | `droidos.yaml`, the body packages, the selection `body.yaml` | load and merge, select, load and check a body, load its gait | boot, backends, readiness |
| Rocky (`rocky/`) | audit and memory tables | propose, decide, run, record | a model, the desktop |
| Diagnostics, logging, `droidctl`, image recipes | readings and log files | reading, writing, printing | all |

`PROJECT.json` says for each of them what is modelled.

A line of text goes session → language service → provider → broker →
executive; the executive asks the gateway for motor power, the gateway asks the
controller and, when that agrees, tells the backend. The controller is a Python
object in simulation and the firmware on the robot. Only files connect one
process with the next, and one ROS node with another: the e-stop latch,
`update.json`, `memory.json`, `world_model.json` and `body.yaml`. All of them are
rewritten in place and none is locked.

### 1.2 What is hard about it

* **Crash between two file operations.** `write_text` truncates and then
  writes; a latch file cut short is read as "no latch".
* **Exceptions through a task.** The release of motor power is a statement
  after the behaviour tree, not a `finally`.
* **A synchronous drive loop.** While it runs nobody reads input, and nobody
  evaluates the software watchdog.
* **Two views of one thing.** Droid state and readiness; contactor and backend
  flag; the copy in a process and the file.
* **Wrapping time** in the firmware's millisecond counter.
* **Several processes on one state directory**, each with the copy it loaded
  when it started. `ros2 launch` starts three of them; `droid` and `droidctl`
  come on top.
* **One operation on two files**: storing and forgetting a place change the world
  model and the memory one after the other.
* **Text that is written and parsed again**, in whole or after it was cut.
* **An outside model** that is up or down from one call to the next and may
  propose anything, between a question and its answer.
* **Services that fail, then work**, tried several times by one recursion.

The hazards in `PROJECT.json` name the line of each and the properties that
would notice it going wrong.

## 2. The modules

| Module | Models | Proofs |
|---|---|---|
| `DroidStates` | `core/states.py`: states, where motion may begin, transition table | |
| `MotorPower` | the abstract promise about motor power | |
| `DroidBrain` | one brain process: gateway, controller, supervisor readiness, broker gate, executive, backend, latch file | `DroidBrain_proofs` |
| `SafetyFirmware` | `firmware/safety-controller/src/main.c` | `SafetyFirmware_proofs` |
| `UpdateSlots` | `services/update.py`, several processes on one file | `UpdateSlots_proofs` |
| `StateStores` | `services/memory.py`, `world_model.py` and the handlers that change them | `StateStores_proofs` |
| `RosNodes` | `ros2/`: three nodes, three brains, one latch file | `RosNodes_proofs` |
| `YamlValues`, `MiniYaml` | `util/miniyaml.py` as operators: values, tokens and lines; reader, and writer of flat mappings | |
| `BootConfig` | body selection, body checks and backend choice before a boot | `Boot_proofs` |
| `DroidConfig` | `Config` of `core/config.py`, and `BootConfig` with the real reader and writer | |
| `ServiceStartup` | `lifecycle.py`, activation and shutdown in `supervisor.py` | `Boot_proofs` |
| `CommandGate` | session, provider chain, parser, broker | `CommandGate_proofs` |
| `RockyPipeline` | `rocky/`: calls of `rockyctl` on one database | `RockyPipeline_proofs` |
| `MC...` | instances for TLC | |

`DroidBrain` and `RosNodes` extend `DroidStates`. `BootConfig` and `MiniYaml`
extend `YamlValues`, and `DroidConfig` extends both. `DroidBrain`, `SafetyFirmware` and `RosNodes` each instantiate
`MotorPower` with a refinement mapping. `CommandGate` ends where
`DroidBrain` begins: it decides that a motion is approved, `DroidBrain` says
what the approved motion does.

A definition with the comment *Faulty* is never part of a specification. It is
a plausible mistake in the definition below it, used to show that a property
can tell the difference.

### 2.1 `MotorPower`

Two variables, `powered` and `stopped`. Power is given only while no stop is in
force, a stop removes power in the same step, and only a reset ends a stop and
gives no power by itself.

### 2.2 `DroidBrain`

`pc` is the place of the process's only thread: `off`, the three stages of boot,
`idle` at the prompt, the four stages of a drive task, and the stages of writing
the latch file. A handler that calls nothing which can fail or be interrupted
in between is one action; the drive loop is one action per tick, so that time,
hardware readings, bus frames, the operator and the end of the process come
between ticks. Writing the latch is *open* (which truncates) and *write*;
`SaveFaults` says what may go wrong there: the open fails, the write fails, the
process dies in between.

Data that is abstracted: the hardware readings are `ok`, `degraded` or `faulty`
as the readiness checks tell them apart; the watchdog's clock is the flag
`fresh`; the motion-critical services are one variable, since readiness asks
only whether all of them are active; poses and velocities are left out, so a
drive tick may arrive, be blocked or go on. On CAN-FD every drain may deliver
any queued safety state, and a send may raise.

`demanded` is a history variable: an e-stop was completed and no reset has been
asked for since.

### 2.3 `SafetyFirmware`

One pass of the loop is a sequence of actions: receive any number of frames
(every command, with an invalid one among them), poll the inputs, switch the
contactor, report when due, wait. Every time value is modulo `Wrap`. Lost, late
and repeated frames are all choices of which frame comes next. `silence` is a
history variable that counts true milliseconds without a host frame and
saturates. `Reset` is the microcontroller's reset, at any point. `MaxPass` bounds the
length of a pass.

### 2.4 `UpdateSlots`

Each process loads the file once and saves the whole copy later, opening and
writing in two steps that may fail; when two of them write at once, the longer
text may show behind the shorter, and the file is unreadable. The boot loader
only reads the file. Checking a bundle's manifest and checksum is a choice
between accepted and refused, as no property depends on why.
`confirm_boot_health` may be called at any time, as often as anybody likes,
since the code asks neither whether the slot was started nor whether it has
been judged before.

`astray` and `fileAstray` are history variables. A failed boot check that is
reported while no new slot is on trial, a repeated one for instance, makes the
other slot active whatever it holds; a copy with such a report in its past
promises nothing, and the history variables follow those copies through saves
and loads. `FileIsSound` is about all others, however old they are.

### 2.5 `ServiceStartup`

All twelve registered services with their real requirements and orders. The
recursion of `_activate_with_deps` is an explicit stack. The hooks of
`MayFail` fail or succeed at every call anew: those services read a file or
load a gait policy.

### 2.6 `CommandGate`

`session` says whether the lines are typed or spoken; `Sessions` is the set to
choose from, and one run has both. `process()` is unfolded into the loop over providers, the call of one, and the
dispatch through the broker. Between a provider's `available()` and the request
the model may go down. The model's answer is any proposal, no usable answer, or
one with a malformed field. Nine lines stand for the outcomes of the parser
that the gate tells apart, and ten tools for the combinations of flags in the
tool table. Between any two steps the readiness and the known places may
change.

### 2.7 `RockyPipeline`

Every call of `rockyctl` is a process of its own with its own `pc`, and all of
them share one SQLite database. Every access to it is one action, since it is
one transaction; it needs its table, and when the table is missing, the
database is locked or the disk is full the exception ends the call. `Dies`
stands for that and for a kill, at every point. `init` creates the tables one
after the other. `RequiredCapability` and `Decide` are `policy.py` over one
command for each combination of lists it looks at; the owner may edit
`capabilities.yaml` at any time. Running an action is two steps, so that the
call can die while the handler runs. `ran` is a history variable: what really
became of the action, to compare the tables with. The risk of an action is the
label that came with it, right or wrong. Commands that only print are left out.

### 2.8 `StateStores`

A store is a set: the texts of the memory, each known by its subject and its
category, and the names of the places. A handler is a sequence of edits, each of
one store, and each edit that is one is saved by truncating and writing, with
every other process's steps in between. `Hits` says which texts a query occurs
in, the empty query in all of them (`q not in text`). Positions, stamps and the
list of obstacles are left out, but `set_obstacle` saves the places with them.

`known` is what the completed changes add up to. A save that fails, is cut short
or is made from a copy older than the file spoils the file; what is known of it
is not followed further. The properties say what holds without such a save, and
the history variables make that condition exact.

### 2.9 `RosNodes`

Three nodes with their brains reduced to what their callbacks reach: e-stop,
power, state. A callback is a sequence of steps of its node; callbacks of one node
never interleave (`rclpy.spin` has one thread), those of different nodes do.
The latch file is written as in `DroidBrain`. `goals` is the action server's
queue. The watchdog is left out: while power is on nobody in that process reads
the status. The body is the simulated one (the exception out of a drive on
CAN-FD is in `DroidBrain`), and of the intents only motion and the emergency
stop are there; the others neither give power nor touch the latch.

`latched` and `late` are history variables: an e-stop was saved with no other
save under way, and which nodes have booted from it since.

### 2.10 `MiniYaml`, `BootConfig` and `DroidConfig`

`MiniYaml` is the parser over lines instead of characters: a line is its
indentation, its dash, its key and a token, perhaps with a comment behind it. A
scalar is known by its type and a text; the texts of `QuotedTexts`, `NullTexts`,
`BoolTexts` and `NumberTexts` stand for the classes that `_scalar` and
`_dump_scalar` tell apart, a block scalar is known by its lines. Lines that are
cut or deeper than expected are errors, dropped or taken as the code does. The
program dumps nothing but body selections, so `Dump` is the dumper for a flat
mapping.

`BootConfig` takes the YAML reader, the writer and `Config.load` as constant
operators (`YamlLoad`, `YamlDump`, `ConfigOf`), with `ReaderAssumption` for what
the selection needs of them. `DroidConfig` defines the real ones, and the run
uses these. `droidos.yaml` is written by hand: `conf` is the document its author
means and the lines he wrote, `ConfigLoad` parses the lines and merges what it
finds over the defaults, and `ConfigIsAsWritten` compares with the document.
`MCBootConfig` does the author's part (`Written`): two or four blanks of
indentation, quotes everywhere or where they are needed, comments and blank
lines between and behind all lines or none, lists of scalars in one line or not,
null written out or left away.

Packages are known by the outcome of each check; the revision that the manifest
names for its gait policy and the one in the policy file are this one, another
one or none. `SetActive` checks, then truncates, then writes; a cut write leaves
any prefix of the lines and part of one.

## 3. The runs

### 3.1 Passing

| Run | Shows | Bounds, distinct states |
|---|---|---|
| `brain_task` | in simulation, with all latch faults: power only inside a task and only with the critical services active; backend and contactor agree; an engaged stop is reported as such; ACTIVE only in a task; power is removed and an emergency call is heard eventually, and every step of the thread brings that nearer | 2 ticks; 35,160 |
| `brain_stop` | on CAN-FD, with intact latch writes: a completed stop keeps power away across process ends; the brain implements `MotorPower` | 2 ticks; 31,584 |
| `firmware_loop` | the contactor is closed only when permitted; a host silent for longer than the timeout and two passes has no power; a sensed input keeps it off; the firmware implements `MotorPower` | clock modulo 7, passes of 1 and 2 ms; 1.28 million |
| `update_shared` | with two processes and every write fault copies of any age, a readable file never names an empty slot, a wrong version or a healthy slot that is still to be tried, unless a failure was reported of a slot that is not on trial | 2 processes, symmetric; 506,831 |
| `startup_boot` | every step brings the end of boot nearer, and it ends; what is not active is listed for a retry; dependents are stopped first | 5 services may fail; 17,400 |
| `gate_sessions` | a confirmation belongs to the question just asked; nothing runs without the broker's permission at that moment; a spoken stop does not reach the model; every line is answered, and every step brings the answer nearer | typed and spoken sessions; 568,048 |
| `rocky_calls` | nothing runs unrecorded or unapproved; the tables never tell something that did not happen | 3 calls, symmetric, 7 actions, one of them mislabelled, 2 capability sets; 841,250 |
| `stores` | processes that take turns lose nothing and what is forgotten stays forgotten; a remembered place is a known one, also after a kill between the two stores | 2 processes, symmetric, a shipped place, 2 queries; 459,086 |
| `ros_nodes` | power belongs to a drive; a node that boots after a saved stop is stopped and publishes it; an e-stop goal is served after what is before it, and nothing that comes later puts it off; the driving node implements `MotorPower` | 1 tick, 2 goals; 310,266 |
| `body_boot` | a value in `droidos.yaml` is the one used; the next boot takes the selected body and can load it; hardware only when asked for; walking on hardware only with an approved gait that is not declared for another revision | 2 processes, symmetric, 2 selections, 925 setups; 39,567 |

Why the bounds are enough. Two ticks tell the first, the last and the
time-out of a drive apart, and the tick count occurs nowhere else. The clock of
the firmware has to be longer than the timeout and two passes
(`TimesAssumption`); seven values are the smallest such clock with a timeout of
two and passes of up to two, so it comes round often. Two processes are what a
stale copy needs, and two versions what a wrong one needs. One tool for each
combination of flags is all that `validate` reads. Of three calls of
`rockyctl`, one can create the tables, or some of them, while two others
interleave. Two goals are what it takes for one to wait behind another, and a
drive in which no tick, or the only one, is made is first and last at once. Edits
act on each name alone, so one name with two kinds of text shows every loss;
`ChangesAreKept` is for all of them. Two
selections give one to fall back to and one that is cut, or two that overlap. The
setups of `body_boot` are every package with one defect, and documents of up to
three levels with each class of scalar, block scalars whose lines look like
items and entries, empty and filled lists and mappings over and under the
defaults, each in sixteen styles. Two of its files count as one state when both
can be read and both are read right (`VIEW`): no step looks at more of them. Of a
copy of `update.json` that is astray only that counts (`FollowedCopies`): no
step depends on what it holds but a rollback, and a refused install saves an
astray copy just the same. The proofs below remove these bounds for the safety properties they
cover.

Deadlock is checked everywhere but in `ServiceStartup`, which ends when
everything is shut down, and in `BootConfig`, where a selection file that cannot
be parsed keeps every process from booting.

### 3.2 Violations

Each of these runs checks one statement of the repository that the code does
not keep; the finding in `PROJECT.json` quotes it.

| Run | What happens |
|---|---|
| `brain_abort` | a CAN-FD send raises in a drive: the contactor stays closed after the task and the state stays ACTIVE |
| `ros_estop` | `~/estop` answers "motor power removed" while the language node, which has a brain of its own, drives on |

Other disagreements that the models show but no run states:

* The latch. A process that ends between truncating and writing the latch file
  loses the stop at the next boot (`SaveFaults` with `crash`), although
  `safety_gateway.py:9-11` promises that it survives. Pressing the e-stop again
  while another node boots opens the same window, and a reset that races another
  node's e-stop can leave the file clear.
* The firmware. An invalid command opens the contactor, but sets no fault, and
  `update_contactor` closes it again in the same pass, against its README. When the
  counter wraps, the next status report waits for nearly a whole turn.
* Updates. A process that loaded the file before a failed boot check saves its
  old copy, and the failed slot is started again, against `RECOVERY.md:24`.
  `confirm_boot_health(False)` does not ask whether a slot is on trial: a second
  report, or one with no install pending, makes the other slot active and the
  next to boot, which may be the failed one or an empty one. An
  install after the reboot into the new slot, before it is confirmed, overwrites
  the slot that runs, against `update.py:4-5`, and an image can be marked healthy
  that never ran.
* The brain. A drive may run in SAFE_IDLE, because the gate asks for readiness
  and not for the state; the software watchdog is evaluated only inside
  `status()`; the drive loop hears an emergency call only when it has ended; a
  service becomes active although a required one failed.
* The session. Typed emergency words go to the model when one is available;
  "stop" with a question pending cancels the question only; a confidence that is
  no number ends the session.
* The stores. `forget` with an empty query forgets all texts and no place; a
  name with two blanks in it is found in the world model and not in the memory;
  handlers of two processes that overlap may leave a place memory without a
  place.
* ROS. The launch file never configures the lifecycle node of the supervisor,
  and nothing in it makes the other nodes wait for the gateway, as its comment
  says; the gateway node does not send heartbeats, so what it publishes says
  that the watchdog has expired after a second; `ExecuteTask` passes
  `confirmed=True`; a `ValidateIntent` whose arguments are not JSON ends the
  node.
* Bodies and files. `body/loader.py` says that an invalid gait policy prevents
  activation; what `load_for_body` finds only goes to `gait_issues`, which
  inhibits nothing, and a policy that names no revision passes. In the YAML
  reader a line that is indented one blank deeper than a list's mapping is
  dropped silently, an item with a colon in it that is not quoted, such as an
  address, is read as a mapping, and a top-level `{}` is an error. Block scalars,
  which its docstring does not list, lose blank lines, what looks like a comment
  and the indentation of their lines. The dumper does not put `true` and `12` in
  quotes, so a body directory of such a name is selected and not found again.
* Rocky. `policy.py:158-159` takes the risk label of everything but commands from
  the model: a `memory.write`, `file.write` or `file.delete` labelled `read_only`
  runs unasked, if its capability is enabled. `policy_rules.md` has "read_only ->
  allow if allowlisted" and for deleting and overwriting "Requires confirmation
  every time", and `rocky/README.md:88` "Only allowlisted read-only commands run
  without confirmation"; of these, `memory_write` is enabled as shipped. A file
  action labelled `network` needs the capability `network` instead of its own,
  against `policy.py:15-16`. `--yes` is given before the proposal is seen, where
  `policy_rules.md:30` has "Show the proposed action and wait for confirmation".

### 3.3 Fairness

Liveness is claimed only for what the code's own thread does once called.

* `DroidBrain`: weak fairness of the thread's steps. Nothing blocks: the drive
  loop is bounded by `MAX_DRIVE_TICKS` and the file calls return. The end of
  the process is possible at any time and no liveness property denies it.
* `ServiceStartup`: weak fairness of the boot loop.
* `CommandGate`: weak fairness of `process()`. The HTTP request has a timeout.
  The operator is not fair: nobody has to type.
* `RosNodes`: weak fairness of the language node's thread, inside a callback and
  in starting the callback of a goal that waits: `rclpy.spin` takes whatever is
  ready, and a drive is bounded. Its end is possible at any time, and
  `EstopGoalIsServed` allows for it. The other nodes are not fair.
* `SafetyFirmware`: none. Its deadline is stated as safety with the history
  variable.
* `UpdateSlots`, `StateStores`, `BootConfig`: none. Nothing in that code has to
  happen.
* `RockyPipeline`: none. A call may die at any point, and nothing is promised
  about it afterwards but that the tables are truthful.

## 4. The proofs

| Theorem | Statement | Assumes |
|---|---|---|
| `DroidBrain_proofs!TypeCorrect` | `Spec => []TypeOK` | |
| `DroidBrain_proofs!StopOutlivesProcess` | `Spec => []NoPowerWhileStopped` | latch writes succeed |
| `DroidBrain_proofs!BrainImplementsMotorPower` | `Spec => ImplementsMotorPower` | latch writes succeed |
| `DroidBrain_proofs!PowerBelongsToTask` | `Spec => []PowerHeldByTask` | simulation |
| `DroidBrain_proofs!NoPowerWithoutServices` | `Spec => []ServicesGatePower` | simulation |
| `DroidBrain_proofs!BackendFollowsContactor` | `Spec => []DrivesFollowContactor` | simulation |
| `DroidBrain_proofs!StopIsReported` | `Spec => []EstopIsReported` | |
| `DroidBrain_proofs!ActiveIsATask` | `Spec => []ActiveOnlyInTask` | simulation |
| `DroidBrain_proofs!CallsAreBounded` | `Spec => ThreadAdvances` | |
| `SafetyFirmware_proofs!TypeCorrect` | `Spec => []TypeOK` | |
| `SafetyFirmware_proofs!ContactorIsSafe` | `Spec => []PowerIsPermitted` | |
| `SafetyFirmware_proofs!SilenceRemovesPower` | `Spec => []SilentHostHasNoPower` | |
| `SafetyFirmware_proofs!InputKeepsContactorOpen` | `Spec => []SensedInputKeepsPowerOff` | |
| `SafetyFirmware_proofs!FirmwareImplementsMotorPower` | `Spec => ImplementsMotorPower` | |
| `UpdateSlots_proofs!TypeCorrect` | `Spec => []TypeOK` | |
| `UpdateSlots_proofs!FileStaysSound` | `Spec => []FileIsSound` | |
| `CommandGate_proofs!GateHolds` | `Spec => ConfirmedWasAsked` | |
| `CommandGate_proofs!BrokerDecides` | `Spec => RunsArePermitted` | |
| `CommandGate_proofs!TypeCorrect` | `Spec => []TypeOK` | |
| `CommandGate_proofs!SpokenStopIsServed` | `Spec => SpokenStopNeedsNoModel` | |
| `CommandGate_proofs!LineIsBounded` | `Spec => LineAdvances` | |
| `RockyPipeline_proofs!TypeCorrect` | `Spec => []TypeOK` | |
| `RockyPipeline_proofs!RunsAreRecorded` | `Spec => []NothingRunsUnrecorded` | |
| `RockyPipeline_proofs!TrailHolds` | `Spec => []TrailIsTruthful` | |
| `StateStores_proofs!TypeCorrect` | `Spec => []TypeOK` | |
| `StateStores_proofs!ChangesAreKept` | `Spec => []StoresAreDurable` | |
| `StateStores_proofs!FilesAgree` | `Spec => []PlaceMemoriesArePlaces` | |
| `RosNodes_proofs!TypeCorrect` | `Spec => []TypeOK` | |
| `RosNodes_proofs!PowerOnlyInDrive` | `Spec => []PowerBelongsToDrive` | |
| `RosNodes_proofs!LatchReachesLaterNodes` | `Spec => []LaterNodesAreStopped` | |
| `RosNodes_proofs!TopicsAreTruthful` | `Spec => []TopicsTellOfStop` | |
| `RosNodes_proofs!NodeImplementsMotorPower` | `Spec => ImplementsMotorPower` | |
| `RosNodes_proofs!EstopGoalIsBounded` | `Spec => EstopGoalNears` | |
| `Boot_proofs!TypeCorrect` | `Spec => []TypeOK` | `ReaderAssumption` |
| `Boot_proofs!SelectionIsKept` | `Spec => []BootsAsSelected` | `ReaderAssumption` |
| `Boot_proofs!HardwareIsNeverGuessed` | `Spec => []HardwareIsAskedFor` | `ReaderAssumption` |
| `Boot_proofs!WalksAreApproved` | `Spec => []WalkOnHardwareIsApproved` | `ReaderAssumption` |
| `Boot_proofs!ServicesTypeCorrect` | `ServicesSpec => []ServicesTypeOK` | |
| `Boot_proofs!FailedServicesAreListed` | `ServicesSpec => []FailuresAreListed` | |
| `Boot_proofs!ShutdownRespectsRequirements` | `ServicesSpec => []DependentsStopFirst` | |
| `Boot_proofs!BootIsBounded` | `ServicesSpec => BootAdvances` | |

They hold for every tick budget, fault set, counter width and period within
`TimesAssumption`, any number of processes, versions, names and queries, every
role, body and chain, any queue of goals, any number of Rocky's calls, actions
and capability sets, every set of body packages and every set of services whose
hooks may fail. *Simulation* and *latch writes succeed* in the last column are
necessary: `brain_abort` is the counterexample on the other backend, and a
process that ends in the middle of a latch write loses the stop.

`ReaderAssumption` says that an empty file reads as nothing, that a selection is
read back as it was written, and that what is left of a selection whose write
was cut short or overwritten never reads as the physical backend unless it was
one. What the recursive parser computes for every text is out of the prover's
reach, so this is assumed of the constants; TLC evaluates it in `body_boot` for
`miniyaml`'s own reader and writer, every body, every backend text and every
way to cut the text.

`Boot_proofs` extends both modules of a boot, `BootConfig` and `ServiceStartup`;
the latter's specification is `ServicesSpec`, so that the names do not clash.

Each safety theorem rests on an inductive invariant.

* `StopInv`. "A stop keeps power away" is not inductive by itself: a boot turns the
  file into the controller's state. The invariant says in which stage the file
  and the controller agree: while a stop is in force, the controller has it, or
  the process has not read the file yet and the file says *engaged*.
* `TaskInv`. Contactor and backend flag agree; power implies that the thread is
  in a task and that the task holds it; and in a task the critical services
  are active. That power belongs to a task follows only from all three.
* `ReportInv` (in the proof module). A stop that is engaged is reported unless its
  own save is under way; for that to survive a task, whose steps change the
  state, no stop may be engaged inside one.
* `LoopInv`. `SilentHostHasNoPower` is about true time, the code about wrapped
  time. The invariant ties them: as long as `silence` has not saturated, it is
  the wrapped distance from the last host frame to now; and the host-silent
  fault is latched or `silence` is below the timeout plus what may have passed
  unnoticed, which depends on the stage of the loop. `TimesAssumption` is what
  makes the distance unambiguous.
* `CopiesAreSound`. The file is sound because every copy that may be saved is, or
  is astray, the ones in the middle of an operation too. A failure report of a
  slot on trial leads back to the active slot, of which the invariant says that
  it holds an image and the version that is reported.
* `AskInv`. A pending question is one the last response asked, and a
  confirmed call carries that intent.
* `PipelineInv`. How far a call has come tells what is in its rows: the tables of
  one call depend on nobody else's steps, and a call that dies leaves them as
  they are at one of its stages.
* `StoreInv`. A copy that has followed its file equals what is known of it, with
  the edit being saved on top, and a file can be torn only while somebody who
  has it open is writing. The hard case is two processes that write at once: the
  one that finds the file intact under its hands is not one that followed it.
* `SearchInv` and `VoiceInv` (in the proof module). The provider loop has not
  passed the offline parser, and a request is under way only of the HTTP
  provider; every chain ends with the offline parser, so what fails leads to
  another place of the chain. A spoken line that is being processed is not an
  emergency phrase: those were answered before the first provider.
* `PlaceInv`. That two files agree does not follow from what either holds. As
  long as no handlers overlap, whoever is about to remember a place is the only
  one whose copy of the world model is up to date, so nobody else can take the
  place out without spoiling the file; and whoever is about to take one out has
  a copy with every place memory there is, and has forgotten it there.
* `SelectInv`. `WriteInv`, `FileInv` and `BodyInv` follow the backend from the
  call of `set_active` through the file, whatever is left of it, into the body
  of a process: at each place it is a backend that somebody asked for.
  `TurnsInv` is what makes the file be the last selection: without overlap one
  process writes, into a file that it has emptied.
* `StartupInv`. While boot runs, the outermost call in progress is for the
  service whose turn it is, and every service that had its turn is active or
  listed. The invariant survives the calls for dependencies because activating
  an active service leaves it active. In shutdown exactly the services before
  the current one in the reversed order are finalized, and a lemma about the two
  tables says that this order visits a service before what it requires.
* `LatchInv`. The latch is in the file or a node is writing it, a node that
  loaded it has it, and settles in the stopped state.

Four theorems bound how long something takes. Each has a measure, the number of
steps that are left at most (`StepsLeft` of its module), and says that every step
of the code's own thread lowers it and that nobody else's step raises it.

* `ThreadAdvances`. The measure is read off the place of the thread and the ticks
  of a drive, at most `MaxTicks + 4` for a call. A waiting emergency call adds
  the four steps of the stop. `CryInv` (in the proof module) says that
  the call ends with the process that would hear it.
* `LineAdvances`. Two steps for each provider that is still to come, and the
  dispatch: at most `2 * Len(Providers) + 1`. It needs `SearchInv`: whatever
  fails leads to a later place of the chain.
* `BootAdvances`. A call for a service costs what the calls for its requirements
  cost (`CallSteps`, a table), so the measure adds up the calls in progress and
  the turns to come, from 244 down. The sum is over four calls at most, which is
  what `NestingInv` shows: what a call has still to visit, at most four
  services, has a smaller `Depth` than its own service, and a call lies as far
  below the outermost one as it is nested.
* `EstopGoalNears`. The k-th goal waits for k drives at most and for what the
  node is doing. `GoalsInv` says that goals are lost with their node.

Model-checked only: the liveness properties (`PowerIsRemoved`,
`EmergencyIsHeard`, `LineIsAnswered`, `BootEnds`, `EstopGoalIsServed`), since
fairness and `ENABLED` are out of the prover's reach. The measures above are
proved, so what TLC alone shows is that the thread can always take its next
step, and does under the fairness of section 3.3. Also `ConfigIsAsWritten`, which is about
what the recursive reader and merge compute. The type invariants are
proved in all modules that have proofs, and no run checks them again.

## 5. What is not modelled

* Numbers that are real-valued (poses, velocities, temperatures, limits, gait):
  out of TLC's reach. Their comparisons are nondeterministic outcomes.
* Texts: wording, personality, the report templates. Logging and the event bus:
  nothing in the brain reads them back.
* The image recipes: configuration without state.
* Speech engines, the HTTP model, the CAN driver, the ROS executor and its
  transport: outside; modelled by every outcome the code provides for.
* PyYAML, which takes the place of `miniyaml` where it is installed, and the
  characters of a YAML text: quotes inside quotes, tabs, anchors.
* `crc8` and the framing of the firmware's messages: a checksum of bytes, and
  the model already loses and repeats frames freely.

## 6. Plan

Done: all modules of section 2 with the runs and theorems above. What is left, in
the order of its worth:

1. The simulated body (`backends/simulation.py`) and `diagnostics.py`: battery and
   temperature as small ranges against the thresholds of readiness.
2. Pure algorithms against reference definitions: `crc8` and framing, the
   behaviour tree's sequence and selector.
