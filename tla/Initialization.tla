--------------------------- MODULE Initialization ---------------------------
(***************************************************************************)
(* How the controller module is initialized: the table-driven sequence of  *)
(* ZW_InitializeManager, run by the interface thread as answers arrive,    *)
(* and the INITIALIZE and INTERVIEW jobs of Z_Wave.h, run by the job       *)
(* worker thread, with its attempt counter and its five second timeout.    *)
(*                                                                         *)
(* The transport appears as the layers above see it (CommandChannel): one  *)
(* command at a time, whose answer may come late, twice or not at all.     *)
(* The steps are numbered from 1, so currentStep here is the code's plus   *)
(* 1; the Done states, overwritten by the handler that sets them, are not  *)
(* told apart from the Pending ones.                                       *)
(***************************************************************************)
EXTENDS Integers, Sequences, SequencesExt

CONSTANTS
  StepCount,       \* std::size(InitSequence), 7 in the code
  NodeIds,         \* the node list in the answer to GET_INIT_DATA
  MaxJobAttempts,  \* kMaxJobAttempts, 5 in the code
  MaxLosses,       \* bound: answers that never come
  MaxRepeats,      \* bound: answers that come twice
  MaxUICalls       \* bound: commands of the user that start something

Steps == 1 .. StepCount

\* The two steps HasAPICommand is always true of.
InitDataStep     == 1
CapabilitiesStep == 2

ASSUME InitializationAssumption ==
  /\ StepCount \in Nat /\ StepCount >= CapabilitiesStep
  /\ NodeIds \in Seq(Nat)
  /\ MaxJobAttempts \in Nat \ {0}
  /\ MaxLosses \in Nat /\ MaxRepeats \in Nat /\ MaxUICalls \in Nat

Job  == [job : {"INITIALIZE", "INTERVIEW"}, nodeid : Nat]

INITIALIZE   == [job |-> "INITIALIZE", nodeid |-> 0]
INTERVIEW(n) == [job |-> "INTERVIEW", nodeid |-> n]
None == 0

VARIABLES
  initState,    \* module.InitializationState
  currentStep,  \* the next step to be answered; StepCount + 1 at the end
  apiCommands,  \* module.ApiCommands, as the steps it holds
  nodeIds,      \* module.NodeIds
  jobQueue,     \* jobQueue
  jobAttempts,  \* jobAttempts, saturated at MaxJobAttempts
  jobExpired,   \* now - jobStartTime > kJobTimeout
  chip,         \* the steps the attached chip supports
  outbox,       \* commands handed to the transport
  inFlight,     \* the command the transport is working on, or None
  wire,         \* answers on their way to the interface thread
  losses, repeats, uiCalls,   \* what is left of the bounds
  asked,        \* history: how often each step's command was enqueued
  answered,     \* history: the steps whose answer was accepted
  interviewed   \* history: the nodes an INTERVIEW job was enqueued for

module  == <<initState, currentStep, apiCommands, nodeIds>>
jobs    == <<jobQueue, jobAttempts, jobExpired>>
channel == <<outbox, inFlight, wire, losses, repeats>>
vars    == <<module, jobs, channel, chip, uiCalls, asked, answered, interviewed>>

-----------------------------------------------------------------------------
(* ZW_InitializeManager.                                                   *)

HasAPICommand(k, api) == k \in {InitDataStep, CapabilitiesStep} \/ k \in api

\* Continue: ask for the first supported step from k on, or be done.
Continue(k, api) ==
  \E j \in k .. StepCount + 1 :
    /\ \A i \in k .. j - 1 : ~HasAPICommand(i, api)
    /\ currentStep' = j
    /\ \/ /\ j <= StepCount
          /\ HasAPICommand(j, api)
          /\ initState' = "Pending"
          /\ outbox' = Append(outbox, j)
          /\ asked' = [asked EXCEPT ![j] = @ + 1]
       \/ /\ j = StepCount + 1
          /\ initState' = "Initialized"
          /\ UNCHANGED <<outbox, asked>>

\* The decoders return early on a short payload; the step counts as done.
DecodeInitData(f) ==
  nodeIds' = IF f.step = InitDataStep /\ f.whole THEN NodeIds ELSE nodeIds

DecodeCapabilities(f) ==
  apiCommands' = IF f.step = CapabilitiesStep /\ f.whole THEN chip ELSE apiCommands

Decode(f) == DecodeInitData(f) /\ DecodeCapabilities(f)

\* Mutant of AcceptAnswer: the command id is not compared.
AcceptAnyAnswer(f) ==
  /\ currentStep <= StepCount
  /\ Decode(f)
  /\ answered' = answered \cup {f.step}
  /\ Continue(currentStep + 1, apiCommands')

\* Mutant of AcceptAnswer: an answer that comes after its timeout is lost.
AcceptAnswerInTime(f) ==
  /\ currentStep <= StepCount
  /\ f.step = currentStep
  /\ \/ /\ initState = "Pending"
        /\ Decode(f)
        /\ answered' = answered \cup {currentStep}
        /\ Continue(currentStep + 1, apiCommands')
     \/ /\ initState # "Pending"
        /\ UNCHANGED <<module, outbox, asked, answered>>

\* HandleFrame for the step that is awaited.
AcceptAnswer(f) ==
  /\ currentStep <= StepCount
  /\ f.step = currentStep
  /\ Decode(f)
  /\ answered' = answered \cup {currentStep}
  /\ Continue(currentStep + 1, apiCommands')

\* HandleFrame for any other: late, repeated or out of order.
IgnoreAnswer(f) ==
  /\ f.step # currentStep
  /\ UNCHANGED <<module, outbox, asked, answered>>

\* Mutant of HandleFrameTimeout: any timeout pauses the sequence.
HandleAnyTimeout(k) ==
  /\ initState' = "Paused"
  /\ UNCHANGED <<currentStep, apiCommands, nodeIds>>

\* HandleFrameTimeout: a timeout of the awaited step pauses the sequence.
HandleFrameTimeout(k) ==
  /\ initState' = IF k = currentStep THEN "Paused" ELSE initState
  /\ UNCHANGED <<currentStep, apiCommands, nodeIds>>

-----------------------------------------------------------------------------
(* The job worker of Z_Wave.h.                                             *)

\* The node list without 0 and the controller, as the loop picks it.
Interviewees ==
  LET picked[i \in 0 .. Len(nodeIds)] ==
        IF i = 0 THEN <<>>
        ELSE IF nodeIds[i] \in {0, 1} THEN picked[i - 1]
        ELSE Append(picked[i - 1], nodeIds[i])
  IN picked[Len(nodeIds)]

\* StartInterview, with q the job queue it appends to.
StartInterview(q) ==
  /\ jobQueue' = q \o [i \in DOMAIN Interviewees |-> INTERVIEW(Interviewees[i])]
  /\ interviewed' = interviewed \cup Range(Interviewees)

\* DispatchJob says Done: the job is popped.
InitializeDone ==
  /\ Head(jobQueue) = INITIALIZE
  /\ initState = "Initialized"
  /\ StartInterview(Tail(jobQueue))
  /\ jobAttempts' = 0
  /\ UNCHANGED <<module, outbox, asked>>

\* What an INTERVIEW job does is the interview manager's; here it may be Done.
InterviewDone ==
  /\ Head(jobQueue) # INITIALIZE
  /\ jobQueue' = Tail(jobQueue)
  /\ jobAttempts' = 0
  /\ UNCHANGED <<module, outbox, asked, interviewed>>

\* Mutant of CountTwice: the counter is not compared before it is raised.
CountTwiceUnchecked == jobAttempts' = jobAttempts + 2

\* The counter goes up at the peek and once more for a pending job.
CountTwice ==
  jobAttempts' = IF jobAttempts + 2 < MaxJobAttempts THEN jobAttempts + 2 ELSE MaxJobAttempts

\* Mutant of InitializeStart: a paused sequence is started again.
InitializeStartAgain ==
  /\ Head(jobQueue) = INITIALIZE
  /\ initState \in {"NotInitialized", "Paused"}
  /\ CountTwice
  /\ Continue(1, apiCommands)
  /\ UNCHANGED <<apiCommands, nodeIds, jobQueue, interviewed>>

\* DispatchJob starts the sequence: StartSequence on the job worker's thread.
InitializeStart ==
  /\ Head(jobQueue) = INITIALIZE
  /\ initState = "NotInitialized"
  /\ CountTwice
  /\ Continue(1, apiCommands)
  /\ UNCHANGED <<apiCommands, nodeIds, jobQueue, interviewed>>

JobPending ==
  /\ Head(jobQueue) = INITIALIZE => initState \in {"Pending", "Paused"}
  /\ CountTwice
  /\ UNCHANGED <<module, jobQueue, outbox, asked, interviewed>>

\* A pass of JobWorkerLoop within the time of the job at the front.
DispatchJob ==
  /\ jobQueue # <<>>
  /\ jobAttempts = 0 \/ ~jobExpired
  /\ InitializeDone \/ InterviewDone \/ InitializeStart \/ JobPending
  /\ jobExpired' = FALSE
  /\ UNCHANGED <<chip, inFlight, wire, losses, repeats, uiCalls, answered>>

\* Mutant of FailJob: HandleJobError does not put INITIALIZE back.
FailJobForGood == jobQueue' = Tail(jobQueue)

\* HandleJobError and PopJob: INITIALIZE goes to the back of the queue.
FailJob ==
  jobQueue' = IF Head(jobQueue) = INITIALIZE
              THEN Append(Tail(jobQueue), INITIALIZE)
              ELSE Tail(jobQueue)

\* A pass of JobWorkerLoop after kJobTimeout.
JobTimeout ==
  /\ jobQueue # <<>>
  /\ jobAttempts > 0
  /\ jobExpired
  /\ \/ /\ jobAttempts + 1 >= MaxJobAttempts
        /\ FailJob
        /\ jobAttempts' = 0
     \/ /\ jobAttempts + 1 < MaxJobAttempts
        /\ jobAttempts' = jobAttempts + 1
        /\ UNCHANGED jobQueue
  /\ jobExpired' = FALSE
  /\ UNCHANGED <<module, channel, chip, uiCalls, asked, answered, interviewed>>

JobWorkerLoop == DispatchJob \/ JobTimeout

JobTimePasses ==
  /\ jobAttempts > 0
  /\ ~jobExpired
  /\ jobExpired' = TRUE
  /\ UNCHANGED <<module, jobQueue, jobAttempts, channel, chip, uiCalls, asked,
                 answered, interviewed>>

-----------------------------------------------------------------------------
(* The user's thread.                                                      *)

\* StartInitialization, by main and by Remove.
UIStartInitialization ==
  /\ uiCalls > 0
  /\ uiCalls' = uiCalls - 1
  /\ initState = "NotInitialized"
  /\ jobQueue' = Append(jobQueue, INITIALIZE)
  /\ UNCHANGED <<module, jobAttempts, jobExpired, channel, chip, asked, answered,
                 interviewed>>

UIStartInterview ==
  /\ uiCalls > 0
  /\ uiCalls' = uiCalls - 1
  /\ initState = "Initialized"
  /\ StartInterview(jobQueue)
  /\ UNCHANGED <<module, jobAttempts, jobExpired, channel, chip, asked, answered>>

-----------------------------------------------------------------------------
(* The transport and the interface thread.                                 *)

\* The transport takes the next command; the chip's answer starts its way.
Transport ==
  /\ inFlight = None
  /\ outbox # <<>>
  /\ inFlight' = Head(outbox)
  /\ outbox' = Tail(outbox)
  /\ \/ /\ \E whole \in BOOLEAN :
             wire' = Append(wire, [step |-> Head(outbox), whole |-> whole])
        /\ UNCHANGED losses
     \/ /\ losses > 0
        /\ losses' = losses - 1
        /\ UNCHANGED wire
  /\ UNCHANGED <<module, jobs, repeats, chip, uiCalls, asked, answered, interviewed>>

\* A retransmission makes the chip answer once more.
RepeatAnswer ==
  /\ repeats > 0
  /\ repeats' = repeats - 1
  /\ wire # <<>>
  /\ wire' = Append(wire, Last(wire))
  /\ UNCHANGED <<module, jobs, outbox, inFlight, losses, chip, uiCalls, asked,
                 answered, interviewed>>

\* OnFrameReceived.  The frame ends the wait for a response, if there is one.
OnFrameReceived ==
  /\ wire # <<>>
  /\ wire' = Tail(wire)
  /\ inFlight' \in {inFlight, None}
  /\ AcceptAnswer(Head(wire)) \/ IgnoreAnswer(Head(wire))
  /\ UNCHANGED <<jobs, losses, repeats, chip, uiCalls, interviewed>>

\* OnFrameReceivedTimeout: the ACK came, the response has not, yet.
OnFrameReceivedTimeout ==
  /\ inFlight # None
  /\ HandleFrameTimeout(inFlight)
  /\ inFlight' = None
  /\ UNCHANGED <<jobs, outbox, wire, losses, repeats, chip, uiCalls, asked, answered,
                 interviewed>>

\* The ACK never came: the transport gives up and tells nobody.
TransportGivesUp ==
  /\ inFlight # None
  /\ losses > 0
  /\ losses' = losses - 1
  /\ inFlight' = None
  /\ UNCHANGED <<module, jobs, outbox, wire, repeats, chip, uiCalls, asked, answered,
                 interviewed>>

-----------------------------------------------------------------------------
Init ==
  /\ initState = "NotInitialized"
  /\ currentStep = 1
  /\ apiCommands = {}
  /\ nodeIds = <<>>
  /\ jobQueue = <<>>
  /\ jobAttempts = 0
  /\ jobExpired = FALSE
  /\ chip \in SUBSET Steps
  /\ outbox = <<>>
  /\ inFlight = None
  /\ wire = <<>>
  /\ losses = MaxLosses
  /\ repeats = MaxRepeats
  /\ uiCalls = MaxUICalls
  /\ asked = [k \in Steps |-> 0]
  /\ answered = {}
  /\ interviewed = {}

Next ==
  \/ JobWorkerLoop \/ JobTimePasses
  \/ UIStartInitialization \/ UIStartInterview
  \/ Transport \/ RepeatAnswer
  \/ OnFrameReceived \/ OnFrameReceivedTimeout \/ TransportGivesUp

Spec == Init /\ [][Next]_vars

\* The two threads run, the clock ticks, and the transport ends its commands
\* (SerialLink) and delivers what is not lost.
FairSpec ==
  /\ Spec
  /\ WF_vars(JobWorkerLoop)
  /\ WF_vars(Transport)
  /\ WF_vars(OnFrameReceived)
  /\ WF_vars(OnFrameReceivedTimeout)

-----------------------------------------------------------------------------
(* Correctness.                                                            *)

\* The variables have their types.
TypeOK ==
  /\ initState \in {"NotInitialized", "Pending", "Paused", "Initialized"}
  /\ currentStep \in 1 .. StepCount + 1
  /\ apiCommands \in SUBSET Steps
  /\ nodeIds \in Seq(Nat)
  /\ jobQueue \in Seq(Job)
  /\ jobAttempts \in 0 .. MaxJobAttempts
  /\ jobExpired \in BOOLEAN
  /\ chip \in SUBSET Steps
  /\ outbox \in Seq(Steps)
  /\ inFlight \in Steps \cup {None}
  /\ wire \in Seq([step : Steps, whole : BOOLEAN])
  /\ losses \in 0 .. MaxLosses
  /\ repeats \in 0 .. MaxRepeats
  /\ uiCalls \in 0 .. MaxUICalls
  /\ asked \in [Steps -> Nat]
  /\ answered \in SUBSET Steps
  /\ interviewed \in SUBSET Nat

\* The sequence leaves no step behind: each one it has passed was answered, or
\* is one the chip did not list, whatever late, repeated and unordered answers
\* and whatever retries of the job came in between.
NoStepSkipped ==
  \A k \in 1 .. currentStep - 1 : k \in answered \/ ~HasAPICommand(k, apiCommands)

\* Late, repeated and out of order answers do not rewind the sequence, nor does
\* the job worker, which comes back to its INITIALIZE job again and again: no
\* step is asked for twice.
AskedOnce == \A k \in Steps : asked[k] <= 1

\* As long as initialization is under way a job looks after it, through any
\* number of job timeouts: without one the interviews would never start.
JobLooksAfter ==
  initState \in {"Pending", "Paused"} => INITIALIZE \in Range(jobQueue)

\* What the properties above rest on: before the start nothing is under way,
\* nothing ahead of currentStep was asked for, and Initialized is the end.
SequenceInv ==
  /\ initState = "NotInitialized" =>
       currentStep = 1 /\ asked[1] = 0 /\ outbox = <<>> /\ inFlight = None /\ wire = <<>>
  /\ initState = "Initialized" => currentStep = StepCount + 1
  /\ \A k \in Steps : k > currentStep => asked[k] = 0
  /\ NoStepSkipped /\ AskedOnce /\ JobLooksAfter

\* Neither a late timeout nor a late frame undoes Initialized.
InitializedStays == [][initState = "Initialized" => initState' = "Initialized"]_vars

\* DispatchJob: "Start or continue initialization until it reports Done."
InitializationCompletes == INITIALIZE \in Range(jobQueue) ~> initState = "Initialized"

\* As long as no answer is lost it does, late and repeated answers and job
\* timeouts notwithstanding: an answer that comes after its timeout continues
\* the sequence that the timeout has paused.
CompletesUnlessLost ==
  INITIALIZE \in Range(jobQueue) ~> (initState = "Initialized" \/ losses < MaxLosses)

\* And every listed node but 0 and the controller gets its INTERVIEW job.
NodesGetInterviewed ==
  INITIALIZE \in Range(jobQueue) ~>
    (Range(Interviewees) \subseteq interviewed \/ losses < MaxLosses)
=============================================================================
