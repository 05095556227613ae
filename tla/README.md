# Z_Wave_Console in TLA+

A specification of the Z-Wave host program under `src/Z_Wave_Console`: the serial
transport, the initialization of the controller, the interviews of the nodes, the
jobs of a node and the bytes of what it reports. TLC checks small instances of it;
TLAPS proves the type invariant and the safety properties of every module for every
value of the constants, apart from the few listed at the end of section 4.

Line numbers refer to `src/Z_Wave_Console`. `PROJECT.json` maps each definition to
the lines it stands for.

## 1. The system

The program talks to a Z-Wave controller chip over a serial port. Its threads are:

| thread | runs | writes |
|---|---|---|
| interface | `ZW_Interface::Run`, and in it `OnFrameReceived` and all report handlers | transport state, `ZW_Module`, every node's tables and interview state |
| job worker | `Z_Wave.h` `JobWorkerLoop` | `jobQueue`, initialization state, interview states |
| one worker per node | `ZW_Node::WorkerTask` | the node's interview state, job queue and `nodeState` |
| user | `main` of the console | all the queues, interview states |

They meet in queues (guarded by mutexes), in the `interviewState` and `nodeState` of the
nodes, and in tables that are mostly reached without a lock.

### Inventory

| component | state | operations | hard behaviour | what makes it correct |
|---|---|---|---|---|
| `ZW_Interface` | `cmdQueue`, `state`, `LastCmd` with `attempts`, `stateDeadline`, `nextSendTime` | `Enqueue`, `Run`, `HandleTimeouts`, `HandleAck`, `HandleNakOrCan`, `ProcessValidFrame`, `Stop` | lost, damaged, late, repeated and uninvited answers, retransmission, three kinds of waits | one command at a time, in order; bounded retransmission, none after the ACK; every command ends; completed by its own answers |
| `ZW_APIFrame` | none | encode, decode | lengths, checksum | a frame arrives as meant or is found invalid |
| `ZW_InitializeManager`, `ZW_Module` | `currentStep`, `InitializationState`, `ApiCommands`, `NodeIds` | `StartSequence`, `Continue`, `HandleFrame`, `HandleFrameTimeout` | answers late, twice, out of order; a timeout racing the late answer | no step skipped or asked twice; it completes; Initialized is final |
| job worker (`Z_Wave.h`) | `jobQueue`, `jobAttempts`, `jobStartTime` | `EnqueueJob`, `DispatchJob`, `HandleJobError`, `StartInitialization`, `StartInterview` | job timeouts, putting jobs back | a job looks after an initialization under way; the interviews start; no job blocks the queue |
| `ZW_InterviewManager` | `activeNode` | `Start`, `Done`, `HandleFrame` | answers that do not name their node; NIFs at any time; four writers of one state | data stored for the right node; one completion per NIF; an interview completes |
| `ZW_Node`, interview | `interviewState`, `ccs`, `nodeState` | `ProcessInterviewState`, `SetNIF` | phases interrupted by NIFs and restarts; per class retries | retry budget; versions learnt |
| `ZW_Node`, jobs | `jobQueue`, `nodeState` | `EnqueueJob`, `ExecuteJob`, `WaitUntil`, `WakeUp`, `Sleeping` | interviews that time out and start over, wake-up racing going to sleep | jobs done once, in order, all of them; complete interviews |
| class handlers (`Device.cpp`) | versions, manufacturer data, association groups, parameters, last values | `MakeFrame`, `HandleReport` | late reports, lists in several reports, signs, markers, sizes | tables hold what the node reported and the user wants |
| `ZW_CCDispatcher`, `ZW_Nodes` | map of nodes | dispatch by class and command, unwrapping of encapsulated frames | reports nobody handles, endpoints | each report reaches its handler, each answer its endpoint |
| serial port, console, logging, `ToString`, command table | handles, text, static data | I/O | none of their own | not modelled |

Calls go down (user → job worker and nodes → `ZW_Interface::Enqueue`), answers come up
by callback on the interface thread (`OnFrameReceived` → initialize manager, interview
manager, dispatcher → node → class handler). Nothing connects an answer to the command
that asked, other than its type and the order of things. Nothing is persisted, so
there is no recovery from a crash to model.

## 2. The modules

| module | models | abstraction |
|---|---|---|
| `CommandChannel` | the promise of the transport: FIFO, one command in progress, each ended once | how a command ends |
| `SerialLink` | `Interface.cpp` whole, the chip and the line | bytes; time |
| `Initialization` | `InitializeManager.h`, the job worker, job timeouts | transport as the channel; payloads |
| `NodeInterview` | `InterviewManager.*`, the phases of `Node.cpp`, the INTERVIEW job, reports they wait for | classes the interview does not look at |
| `NodeJobs` | job queue and worker of an interviewed node, association and configuration interviews | values of parameters; bytes |
| `Reports` | `APIFrame.h`, `CCDispatcher.cpp`, `HandleCCDeviceReport`, the frames the jobs send and the handlers of `Device.cpp`, byte by byte | order of jobs; the wait of an interview is one step |
| `MC…` | values of the constants | |
| `SerialLinkProofs`, `InitializationProofs`, `NodeInterviewProofs`, `NodeJobsProofs`, `ReportsProofs` | theorems and proofs | |
| `DataFacts` | induction over numbers and sequences, for the proofs | |
| `FrameProofs`, `ReportSteps` | what the operators of `Reports` compute, and what its steps do to the line, for `ReportsProofs` | |

`SerialLink` implements `CommandChannel`
(`pending <- cmdQueue`, `current <- LastCmd unless Idle`, `open <- running`). The layers
above are modelled against what the channel promises and not against `SerialLink`
itself: one command at a time, and an answer that may come late, twice or never.

### SerialLink

A pass through `Run` is three steps: `HandleTimeouts`, dequeue and send, read. A pass
that dequeues a command with acknowledgement ends there, as in the code. The line holds
items (ACK, NAK, CAN, response, callback, unsolicited frame), each good, damaged or cut
short. A cut frame makes `ReadFrameWithTimeout` give up or swallow what follows.

Time is two flags. `deadlinePassed` is `now > stateDeadline`; every assignment of a
deadline clears it and the clock sets it later. `coolingDown` is `now < nextSendTime`.
So every relative order of a deadline and the arrival of an answer occurs. With
`Timely` the chip meets the deadline: it does not pass while something is on the line.

Histories `status`, `sent`, `answers` and `finished` are read by the properties only.

No caller of `Enqueue` sends an unacknowledged command; the command table has two (starting
and stopping the watchdog), and the transport handles them, so the model has them as well.

The branch of `HandleTimeouts` for unacknowledged commands waiting for an ACK cannot be
reached (`LastCmdConsistent` says so) and has no action.

### Initialization

`currentStep` is the code's plus 1. `chip` is the set of commands the attached chip
lists, any subset. `HandleFrame` accepts an answer by its command id while the sequence
is pending or paused alike; an answer too short to decode counts nevertheless.
The job worker raises `jobAttempts` when it peeks and again for a pending
job; both are in `CountTwice`. `jobAttempts` stops at `MaxJobAttempts`, which loses
nothing: it is only compared with that value. `Interviewees` is the loop of
`StartInterview` over the node list, as a recursive function.

### NodeInterview

Each read of an `interviewState` and the write that follows from it are two steps, so
a worker can write the end of a phase over what a NIF or the user has set since. The
worker's position is `pc`: the state its switch has read, or the phase it is in. The
interface thread's is `rx` and the job worker's `jobStep`. Reports are on their way in
any order; an answer or a NIF may be lost or be truncated, which `DecodeNodeInfo` notices
before or after it has written the state. In the place of a NIF the chip may send an
`UPDATE_STATE_NODE_INFO_REQ_FAILED`, for which `HandleApplicationUpdate` writes back the state it has
just read (`HandleNIFFailed`, `RestoreNodeInfoPending`), over what others wrote in between.
The wait of a phase may end by timeout at any moment.

A `DEVICE_SPECIFIC_REPORT_V2` changes nothing and is not modelled as a frame; nor is the
endpoint report, which the dispatcher does not know.

### NodeJobs

One node past its interview. A command job sends its frame and is popped. An interview
clears a flag, sends a GET and waits, group by group or parameter by parameter; a wait
that times out leaves the job at the front. The node executes the frames that reach it
and reports its own association lists. Battery stands for every job that sends one frame and
changes nothing here, `CONFIGURATION_COMMAND` among them. The two association
classes have the same code up to the report type, and `Classes` chooses among them.

A node that sleeps announces itself when it wakes, by a NIF, by a
`WAKE_UP_NOTIFICATION`, or by either (`Announcements`). `HandleNodeInfo` is what
`DecodeNodeInfo` does to an interviewed node; of the notification, which no case of the
dispatcher names, there is `DropReport`.

### Reports

The user's operations make the frames of the jobs (`Configure`, `Bind`, `Unbind`,
`RequestBattery`, the GETs of the interviews), the node answers them, reports values on
its own, asks for the basic value, plainly or from an endpoint, and the interface thread
takes a frame through checksum, `Decode_Frame`, the dispatcher, the unwrapping of
`MULTI_CHANNEL_CMD_ENCAP` and the handler. Frames are sequences of bytes; a byte of a
frame may have a bit turned over on the line.

What the node means is kept beside its bytes (`payload` of a frame on the air, `reported`,
`wanted`), so that a property can compare the two. `fresh` says which tables the program
has read since the user last changed them. An interview's GET and the report that ends its
wait are the two steps `…Get` and `Handle…Report`; the phases around them are `NodeJobs`.
A job is enqueued only for a node that has its class (`SupportsJob`, the guard of `Job`).
An encapsulated command has one endpoint byte, as `HandleCCDeviceReport` reads it
(`Node.h:291`) and as the frames of `zwave_log.txt` have it (`60 06 01 20 01 00`). The
diagram at `Device.h:249-280` shows two (SE and DE), though its own examples have one.

Nodes report parameters as they are, but for the ones in `Forgetful`: `src/README.md:122-136` says
of a transmitter that the first `CONFIGURATION_GET` after a `CONFIGURATION_SET` returns the right value and
every later one 0x04, while the device goes on using what was set (`Shown`).
The exclusive or of the checksum is spelled out bit by bit, so that it can be reasoned about.

## 3. What is checked

| run | instance | shows |
|---|---|---|
| `SerialLink_safety` | one unacknowledged command and one with a callback, 2 tries, 2 faults, 1 stray frame | `TypeOK`, `LinkInv`, `SendsBounded`, `NoResendAfterAck`, implements `CommandChannel` |
| `SerialLink_live` | 2 commands that wait for answers, 2 tries, 1 fault | every command ends; implements the fair channel; with a timely chip, completed by its own answers |
| `SerialLink_stray` | 2 commands, 1 stray frame | **violated**: see findings |
| `Initialization` | 4 steps, 3 node ids, 1 loss, 1 repeat, 2 user calls | nothing skipped, nothing asked twice, job kept, Initialized final; unless an answer is lost it completes and the interviews start |
| `Initialization_stuck` | 3 steps, 1 loss | **violated**: see findings |
| `NodeInterview_phases` | 2 nodes, one with all phases, 2 tries, 1 lost request, 1 lost report | version GETs, versions; an interview completes unless its node came to a halt; jobs leave the queue |
| `NodeInterview_nifs` | 2 nodes, 1 try, 1 lost request, 1 NIF of a node's own | completions, protocol data, classes in place for the jobs; an interview completes unless its node came to a halt |
| `NodeInterview_stuck` | 1 node, version 2 of MANUFACTURER_SPECIFIC | **violated**: see findings |
| `NodeJobs_jobs` | 2 groups, 2 parameters, 3 jobs of 4 kinds, both announcements, 1 loss, 1 late wait | order, completeness, tables, every job done |
| `NodeJobs_parts` | lists in up to 2 reports | **violated**: see findings |
| `NodeJobs_notified` | 1 job, a node that announces itself by `WAKE_UP_NOTIFICATION` only | **violated**: see findings |
| `Reports` | parameters of 1, 2 and 4 bytes, a group with a node and an endpoint, 3 operations, 1 damaged frame | frames, values, parameters, groups and answers are what was meant; a parameter of a forgetful node, as far as it can be |

Deadlock is not checked in any of them: the transport stops at `Stop`, the layers above
come to rest when every job is done, and in `Reports` the user and the node may stop.

### Bounds

* `MaxRetries` is 3 in the code and 2 in the first two runs. Two are enough to have a
  first try, a retransmission and the giving up; the theorems cover every value.
* Two commands are enough for an answer of one to meet the wait of the other.
* `MaxLosses`, `MaxStrays`, `MaxRepeats`, `MaxLostRequests`, `MaxLostReports`, `MaxNIFs`,
  `MaxLate`, `MaxFaults` bound what goes wrong. One of each, at any place, already gives
  the races listed as hazards; where a property depends on several faults (the attempts of
  a command) two are allowed or the theorem covers it.
* `StepCount` is 7 in the code. Steps 1 and 2 are special, the rest alike: with 4 there
  are supported and unsupported steps before and after each other. The theorems cover
  every number.
* `MaxTries` is 4 in the code; 2 has a first GET, a retry and the giving up
  (`NodeInterview_phases`, where no node speaks up of its own). `NodeInterview_nifs` has 1, its
  question being who writes over whom. Retries that NIFs interrupt are covered by the theorems,
  for every number of both.
* `MaxUICalls`, `MaxStarts`, `MaxJobs`, `MaxOps` bound the calls of the user. In
  `NodeInterview` one start of the interviews is what the size allows; it still meets
  workers in the middle of a phase, since a NIF may come before it and creates its node.
* `MaxJobAttempts` (5) and the two nodes besides the controller are as in the code and the
  smallest network in which nodes can be mixed up.
* In `Reports` three operations are a change, the reading of it and something in between,
  or a question between two reports. The parameters have each size the code
  distinguishes, two of them with the sign bit set; the byte that is damaged lies in the
  payload and the mask turns its highest bit over, the sign of a value. A parameter that is set,
  read and read again fits in; one of them is forgetful.

### Fairness

`SerialLink`: the worker thread keeps running and the clock keeps ticking
(`Run`, `DeadlinePasses`, `CoolDownEnds`). Nothing is assumed of chip, line or user, except that
the number of damaged and uninvited frames is finite (`MaxLosses`, `MaxStrays`): a bad
checksum sets `stateDeadline` anew (`Interface.cpp:465`), so a line that damages frames for ever
keeps a command waiting for ever, and `EveryCommandEnds` does not say otherwise.
`Initialization`: the job worker and the interface thread run, the transport ends its
commands, which is what `EveryCommandEnds` shows, and delivers what is not lost.
`NodeInterview`: the threads run and the frames that are not lost arrive; no job has to time out.
`JobsLeaveQueue` adds, inside the property, the clock of the job worker.
`NodeJobs`: worker, interface thread and transport run (weak), and a sleeping node announces
itself again and again in each way it has (`SF_vars(Announce(kind))`): a node that is
asleep now and awake then keeps having occasions, each of which ends when it wakes. That is a fact about
nodes and not about the code: a battery node wakes at its wake-up interval, and sends a
NIF when its button is pressed. `NodeJobs_notified` shows that the first alone
does not help. `Reports` has no liveness property.

### Findings

Each is a run whose property TLC finds violated.

1. `SerialLink_stray`: `ProcessValidFrame` (`Interface.cpp:351`) ends a wait on any valid
   frame, so a report of a node completes the command of another. `APICommands.h:12`
   documents the flow as the "Expected frame flow for a command (ack, response, callback)".
2. `Initialization_stuck`: after a lost answer the sequence is paused for good. The retry of
   the job does nothing, since `initializeManager.Reset()` is commented out
   (`Z_Wave.h:384`) below the comment "Reset state so it can restart."
3. `NodeInterview_stuck`: `ZW_CC_ManufacturerSpecific::HandleReport` (`Device.cpp:65`) returns
   before its V2 branch, so a node with version 2 of the class is never interviewed to the end.
4. `NodeJobs_parts`: a group list in several reports keeps its last part only
   (`Device.cpp:764`, `Device.cpp:951`), against the comment above the line.
5. `NodeJobs_notified`: `WAKE_UP_NOTIFICATION` is in no case of `HandleCCFrame`
   (`CCDispatcher.cpp:98`), so `ZW_CC_WakeUp::HandleReport`, which would wake the node, never
   runs, and the jobs of a battery node wait for its next NIF.

Met on the way, without a line in the repository that says otherwise:

* An INTERVIEW job that takes longer than `kJobTimeout` is dropped and its node stays at
  `CCMultiChannelDone` until a NIF enqueues a new job (hence `dropped` in `InterviewCompletes`).
* The INTERVIEW job of a node that does not listen but has announced itself by a NIF ends by
  timeout even when nothing is lost: the node is interviewed, but `Done` accepts such a node
  in `ProtocolInfoDone` only (`InterviewManager.h:57-61`), and each further NIF enqueues
  another job that times out. `zwave_log.txt:440-452` shows it: "already interviewed", then "Job timeout".
* There are other halts that only the timeout of the job ends: the answer with protocol data or the
  NIF of a node got lost, or the answer was stored for another node, which can leave even a
  listening node in `ProtocolInfoDone` or `InterviewDone` with nobody to go on. `Stuck` lists
  them, and `InterviewCompletes` says that there are no others; `JobsLeaveQueue` that the
  other nodes do not have to wait for ever.
* A node that reports a parameter rightly only once (`src/README.md:122-136`) makes
  the program forget the right value: `HandleReport` overwrites it with the second
  report (`Device.cpp:613-618`), after `Node.cpp:765` has cleared it before asking. The README's advice ("Do not trust
  repeated `CONFIGURATION_GET` responses; cache the configuration in the controller") is to users of the device and the program
  does not follow it. `ConfiguredIsRead` says exactly what is read of such a parameter.
* The protocol data of one node can be stored for another after a timeout, a NIF or a
  second start (hence the premises of `ProtocolInfoOfItsNode`).
* A groupings report that comes late clears groups that were already reported (hence
  those of `RecordedAsReported`).
* A NAK for a damaged unacknowledged command may come in the wait of the next command,
  which is then written twice; the second set of its answers completes later commands.
  `TimelyAnswersAreOwn` is therefore stated of flows that are acknowledged, the
  ones the program's own commands have.
* `Configure` takes a 32 bit value and sends its low byte with size 1, so values above 255
  are cut and parameters of two or four bytes cannot be set (`Z_Wave.h:193`).
* `ExecuteConfigurationCommandJob` returns false when the class is missing (`Node.cpp:586`),
  where the other jobs return true: the job stays at the front for good.
* The groups of MULTI_CHANNEL_ASSOCIATION have one entry per node id, so of two
  endpoints of a node one is kept (`Device.cpp:978`; hence the premise of `BoundIsRead`).
* Parameters 0 to 9 are interviewed (`Node.cpp:757`) although `Node.h` counts from 1.
* `EnqueueJob` asks `SupportsJob`, which reads the classes that `SetNIF` has
  cleared and not refilled yet. `JobCompletes` can do so, since it acts upon a state it read
  before the NIF: the three jobs of the node are then dropped without notice (hence the
  premise of `JobsFindTheirClasses`).

## 4. What is proved

`SerialLinkProofs`, from `SerialLinkAssumption` only:

* `LinkInvariant`: `Spec => []LinkInv`. `SendsBounded` is not inductive: a retransmission is
  guarded by `attempts`, not by the number of writes, and `HandleAck` resets `attempts`. The
  invariant adds that while LastCmd may be written again (it waits for its ACK, or is
  unacknowledged) `attempts` is that number, that a wait has the status that goes with
  it, and that a queued command was never written. The queue has no duplicates, so that
  a command taken from it is no longer queued. One lemma per handler, over lemmas
  for what handlers share (`EndCommandKeeps`, `RetransmitKeeps`, `GiveUpKeeps`).
* `TypeCorrect`, `SendsAreBounded`, `NoResend` follow from it; for the last, `WhoIsSent`
  says which steps write to the port.
* `ImplementsChannel`: `Spec => ChannelSpec`, each step mapping to a step of the channel
  or a stutter, under the invariant.
* `TimelyAnswers`: `Spec => TimelyAnswersAreOwn`, for `MaxStrays = 0` and flows without
  `"Unacknowledged"`. That answers come back in order is not enough for an induction, so `OwnLine`
  says what each wait still finds on the line: nothing when idle, and otherwise only items of
  LastCmd, each kind once and in the order of its flow, none that comes before the wait,
  and a refusal only alone. A callback on the line then proves that the response was read. The premise
  (no wait ends while an answer is on the line) is used at each timeout.
* `OwnAnswers`: `Spec => []CompletedByOwnAnswers` when also `Timely`, where that premise is
  an invariant itself. So `SerialLink_stray` needs its stray frame, and both assumptions on
  the constants are needed: without the one there is that run, without the other TLC finds the
  NAK of section 3.

`InitializationProofs`, from `InitializationAssumption` only:

* `TypeCorrect`: `Spec => []TypeOK`; the types are inductive by themselves. That the queue
  holds jobs after the interviews were started rests on `IntervieweesType`, an induction
  along the node list.
* `SequenceInvariant`: `Spec => []SequenceInv`, over the types. It adds to
  the three properties that nothing is under way before the start, and that no
  step beyond `currentStep` was asked for.
* `NothingSkipped`, `NothingAskedTwice`, `JobKept`, `StaysInitialized` follow.

`NodeInterviewProofs`, from `NodeInterviewAssumption` only (any number of nodes, any
classes, any number of tries, starts, NIFs and losses). The inductive invariant has five parts,
each with a lemma per disjunct of `Next` or group of them:

* `Typed`: the types, and where a thread has an object in hand (`activeNode` is a node once
  a request is out, the version loop waits for a class it has yet to see).
  `TypeCorrect` follows.
* `NIFsAccount`: `completed <= decoded` is not inductive, for nothing in it keeps a worker that
  is several writes behind from handing the job worker a second completion. Each decoded NIF of a
  node is a coin: it is with the interface thread (`Decoding`), with the worker or the
  interview state (`Working`), with the job worker (`Completing`), or spent
  (`completed`). The sum never exceeds the NIFs decoded, since every write of a state that keeps an
  interview going is paid for by one of these. `CompletesOncePerNIF` follows.
* `VersionBudget`: what was asked, what the running version loop may still ask, and a full
  share for a NIF under decoding and for a loop that is about to begin, never exceed
  `MaxTries` for each NIF. `KeepsRetryBudget` follows.
* `Lesson`: of a node with one NIF the classes the loop has passed are known or were
  asked for `MaxTries` times, and so are all of them once the loop lies behind. It rests on the two
  accounts: with one NIF there is one loop, and no class is asked for more
  often than that. `LearnsVersions` follows, and `JobsFindClasses`: with one NIF nothing is being
  decoded when the interview completes.
* `Asking`: as long as nothing disturbs the interviews (`Undisturbed`), only the node at the
  front of the job queue is being asked, and everything that is on its way about an
  interview (a request, its answer, a NIF) is about that node and has the interview state that goes with it, so that no two of
  them are out at once. `StoresForItsNode` follows. It needs that `NodeIds` lists no node twice,
  which the bit mask it is decoded from ensures.

`NodeJobsProofs`, from `NodeJobsAssumption` only:

* `TypeCorrect`: `Spec => []TypeOK`, by `Typed`, which adds what a wait is about: the
  job at the front of the queue, and a group of a table that has its size.
* `DoneInOrder`: `Spec => []JobsDoneInOrder`. The jobs executed and those queued are the jobs
  submitted; it is a part of `Typed`, since the pop must hit the job that was executed.
* `RecordsWhatIsReported` and `EndsWithEveryGroup`, for a node that reports a group in one frame
  (`ASSUME MaxParts = 1`; with two the first one is false, see findings). Neither is
  inductive: a report on its way could be of any group. The invariant adds, as long
  as no answer was late, that in the outbox and on the air together there is at most one
  question or answer of an interview and that it belongs to the wait of the worker
  (`OneQuestion`), that the groups before the one under way have had their last report
  (`GroupsBefore`), and the table itself (`Recorded`).

`DataFacts`: induction. The theorems of the library that state it take an operator as a
parameter, which no prover here instantiates. `NatSetInduction` takes a set instead (a set with 0 and
with each number the next has all numbers) and follows from a fact about finite sets, that
strict inclusion is well-founded, applied to the intervals `1 .. n`. From it come
runs along a sequence (`IsRun`): the states a list of steps leads through, which exist,
are unique, grow by `Append` and lose their first step by `Tail`. Recursive functions,
the checksum and what is on the line are such runs.

`FrameProofs`, about the operators of `Reports` for any bytes:

* `DecodeOfEncode`: `Decode_Frame` returns what `Encode_Frame` was given, up to the largest
  payload a frame can hold. `DecodeOfDamaged`: with one byte behind the length changed in any
  way it returns nothing. A changed byte changes the checksum because exclusive or can be
  undone, and every byte behind it is combined with both sides alike.
* `ReadValueIsSigned`: shifting the bytes of a parameter in and the number up and down again
  (`Device.cpp:598-609`, in 32 bits) is the two's complement number for sizes 1, 2 and 4.
* `EntriesOfList`: the loop over the pairs (`Device.cpp:955-981`) reads from a list, whether it has
  plain members, endpoints, both or none, the destinations written to it, once each.

`ReportsProofs`, from `ReportsAssumption` only (any classes, nodes and endpoints, parameters
of the three sizes with any bytes, any number of operations up to 255 and of damaged frames):

* `TypesHold`, `TypeCorrect`, `FramesArrive`: every frame on the line is one the other side
  builds, whole or with one byte damaged. That is what the handlers rest on, and
  `FramesRoundTrip` and `TypeOK` follow with the lemmas on frames and lists. The lemmas of `ReportSteps`,
  one for each action, translate it into what is said (`said`) and what is ordered
  (`orders`), so that the proofs below do not see bytes.
* `ValuesPass`: `ValuesAsReported` speaks of a quiet line only and is not inductive. The invariant says that
  the values the program has, run through all that is on its way to it, are those the
  node has reported. A handler takes the first step of that run and the node adds one at its end.
  For the answers to a node that asks (`BasicAnswered`) it adds that the question
  meets, at its place in the run, the value the node expects, and that a question or its answer
  is alone on the line. `ValuesAreReported` and `BasicIsAnswered` follow.
* `TablesPass`: the same in the other direction: the parameters and groups the node has, run
  through all orders on their way, are what the user wants (`NodeInv`). So when a question for a
  table reaches the node nothing is ahead of it any more, and what it reports is what is
  wanted, as long as nothing is ordered behind the question (`QuestionInv`: the worker waits, and only
  answers may follow). What is read then is what is wanted until the user changes it; the invariant counts
  the questions for each parameter along with the reports of the node, and of a forgetful parameter asked
  twice what is read is the default.
  `ConfiguredValuesAreRead` and `BoundGroupsAreRead` follow.

Only model-checked: all liveness and the fair channel, since temporal reasoning over fairness
and `ENABLED` is beyond the prover.

## 5. What is not modelled

* Serial port, console, log, text output and the tables of names: no behaviour of their own.
* Answers that are only displayed: `IsDead`, failed nodes, the decoders of
  `InitializeManager.cpp` for version, capabilities and the like, the bits of the protocol data beside
  `isListening`.
* Code that nothing runs: the report handlers of WAKE_UP and the wake-up interval (the
  dispatcher names none of their commands), the END_POINT and CAPABILITY reports of MULTI_CHANNEL
  (likewise, so that `endpointCount` stays 0), `GetFrame` and the GETs of switches,
  sensor, meter and protection, the branch of `MakeFrame` of MANUFACTURER_SPECIFIC for
  version 2 that reads `params[1]` beyond what its caller passes (`NodeInterview` has the GET as a frame without effect).
* In `NodeJobs` the check of `SupportsJob`, which is in `Reports`: it enqueues supported jobs of a
  node whose classes do not change.
* The lifetime of objects that one thread replaces while another uses them (`SetNIF`,
  the vectors of groups, the map of nodes): undefined behaviour with no result to describe;
  what those calls do to the values is modelled.

## 6. What could follow

`NodeJobs` joined to `NodeInterview`, for the jobs enqueued at `InterviewDone` while the classes are being
replaced; an abstract specification of an interview (unknown, announced, interviewed)
implemented by `NodeInterview`; the operations that only mark a node for the display.
