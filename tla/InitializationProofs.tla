------------------------ MODULE InitializationProofs ------------------------
(***************************************************************************)
(* Proofs about Initialization: whatever late, repeated or missing answers *)
(* and job retries come in between, the sequence skips no step, asks for   *)
(* none twice, keeps its job, and never leaves Initialized.  They hold for *)
(* every number of steps, node list, set of supported commands and bound.  *)
(*                                                                         *)
(* The types are an invariant by themselves and are proved first; that the *)
(* queue keeps its type needs induction along the node list, for the loop  *)
(* that picks the nodes to interview.                                      *)
(***************************************************************************)
EXTENDS Initialization, DataFacts

Answers == [step : Steps, whole : BOOLEAN]

-----------------------------------------------------------------------------
(* The nodes to interview.                                                 *)

\* A node is added to the list of those to interview, or is not.
Pick == [n \in Nat |-> [q \in Seq(Nat) |-> IF n \in {0, 1} THEN q ELSE Append(q, n)]]

\* The nodes to interview are a list of node ids (the loop of StartInterview).
LEMMA IntervieweesType ==
  ASSUME nodeIds \in Seq(Nat)
  PROVE  Interviewees \in Seq(Nat)
  <1> DEFINE n == Len(nodeIds)
             Picks(f) == f = [i \in 0 .. n |->
                                IF i = 0 THEN <<>>
                                ELSE IF nodeIds[i] \in {0, 1} THEN f[i - 1]
                                ELSE Append(f[i - 1], nodeIds[i])]
             picked == CHOOSE f : Picks(f)
  <1>1. n \in Nat /\ \A i \in 1 .. n : nodeIds[i] \in Nat
    OBVIOUS
  <1>2. \A k \in Nat, q \in Seq(Nat) :
          Pick[k][q] = (IF k \in {0, 1} THEN q ELSE Append(q, k)) /\ Pick[k][q] \in Seq(Nat)
    BY DEF Pick
  <1>3. Pick \in StepFunctions(Nat, Seq(Nat))
    BY DEF Pick, StepFunctions
  <1>4. PICK h : IsRun(h, nodeIds, Pick, Seq(Nat)) /\ h[0] = <<>>
    <2> DEFINE S == Seq(Nat)
               none == <<>>
    <2>1. none \in S /\ nodeIds \in Seq(Nat) /\ Pick \in StepFunctions(Nat, S)
      BY <1>3
    <2> HIDE DEF S, none
    <2>2. \E h : IsRun(h, nodeIds, Pick, S) /\ h[0] = none
      BY <2>1, RunExists
    <2> QED
      BY <2>2 DEF S, none
  <1>5. h \in [0 .. n -> Seq(Nat)] /\ \A i \in 1 .. n : h[i] = Pick[nodeIds[i]][h[i - 1]]
    BY <1>4 DEF IsRun
  <1>6. Picks(h)
    <2>1. ASSUME NEW i \in 0 .. n, i # 0
          PROVE  h[i] = IF nodeIds[i] \in {0, 1} THEN h[i - 1] ELSE Append(h[i - 1], nodeIds[i])
      <3>1. i \in 1 .. n /\ i - 1 \in 0 .. n
        BY <1>1, <2>1
      <3>2. nodeIds[i] \in Nat /\ h[i - 1] \in Seq(Nat) /\ h[i] = Pick[nodeIds[i]][h[i - 1]]
        BY <1>1, <1>5, <3>1
      <3> QED
        BY <1>2, <3>2
    <2> QED
      BY <1>4, <1>5, <2>1
  <1>7. Picks(picked)
    <2> HIDE DEF Picks
    <2> QED
      BY <1>6
  <1>8. Interviewees = picked[n]
    BY DEF Interviewees
  <1>9. \A i \in 0 .. n : picked[i] \in Seq(Nat)
    <2> DEFINE A == {k \in Nat : k <= n => picked[k] \in Seq(Nat)}
    <2> HIDE DEF picked
    <2>1. 0 \in A
      BY <1>1, <1>7
    <2>2. ASSUME NEW k \in Nat, k \in A PROVE k + 1 \in A
      <3>1. ASSUME k + 1 <= n PROVE picked[k + 1] \in Seq(Nat)
        <4>1. k + 1 \in 1 .. n /\ k + 1 # 0 /\ k + 1 - 1 = k /\ k + 1 \in 0 .. n
          BY <1>1, <3>1
        <4>2. picked[k] \in Seq(Nat) /\ nodeIds[k + 1] \in Nat
          BY <1>1, <2>2, <3>1
        <4>3. picked[k + 1] = IF nodeIds[k + 1] \in {0, 1} THEN picked[k]
                              ELSE Append(picked[k], nodeIds[k + 1])
          <5> DEFINE i == k + 1
          <5>1. i \in 0 .. n /\ i # 0 /\ i - 1 = k
            BY <4>1
          <5> HIDE DEF i
          <5>2. picked[i] = IF nodeIds[i] \in {0, 1} THEN picked[i - 1]
                            ELSE Append(picked[i - 1], nodeIds[i])
            BY <1>7, <5>1
          <5> QED
            BY <5>1, <5>2 DEF i
        <4> QED
          BY <4>2, <4>3
      <3> QED
        BY <3>1
    <2>3. \A k \in Nat : k \in A
      <3> HIDE DEF A
      <3> QED
        BY <2>1, <2>2, NatSetInduction
    <2> QED
      BY <1>1, <2>3
  <1> QED
    BY <1>1, <1>8, <1>9, SMTT(60)

-----------------------------------------------------------------------------
(* The types.                                                              *)

\* A job that StartInterview appends is one of the queue's (EnqueueJob).
LEMMA StartInterviewTypes ==
  ASSUME TypeOK, NEW q \in Seq(Job), StartInterview(q)
  PROVE  jobQueue' \in Seq(Job) /\ interviewed' \in SUBSET Nat
  <1> DEFINE p == Interviewees
             r == [i \in DOMAIN p |-> INTERVIEW(p[i])]
  <1>1. p \in Seq(Nat)
    BY IntervieweesType DEF TypeOK
  <1>2. jobQueue' = q \o r /\ interviewed' = interviewed \cup Range(p)
    BY DEF StartInterview
  <1>3. \A n \in Nat : INTERVIEW(n) \in Job
    BY DEF INTERVIEW, Job
  <1> HIDE DEF p
  <1>4. Len(p) \in Nat /\ DOMAIN p = 1 .. Len(p) /\ \A i \in 1 .. Len(p) : p[i] \in Nat
    BY <1>1
  <1>5. r \in Seq(Job)
    <2>1. \A i \in 1 .. Len(p) : INTERVIEW(p[i]) \in Job
      BY <1>3, <1>4
    <2> QED
      BY <1>4, <2>1
  <1> HIDE DEF r
  <1>6. q \o r \in Seq(Job)
    BY <1>5
  <1>7. Range(p) \in SUBSET Nat
    BY <1>4 DEF Range
  <1> QED
    BY <1>2, <1>6, <1>7 DEF TypeOK

\* The sequence moves on to a step of the table, or past its end.
LEMMA ContinueTypes ==
  ASSUME TypeOK, NEW k \in 1 .. StepCount + 1, NEW api, Continue(k, api)
  PROVE  /\ initState' \in {"NotInitialized", "Pending", "Paused", "Initialized"}
         /\ currentStep' \in 1 .. StepCount + 1
         /\ outbox' \in Seq(Steps) /\ asked' \in [Steps -> Nat]
  <1> USE InitializationAssumption DEF Steps
  <1>1. PICK j \in k .. StepCount + 1 :
          /\ currentStep' = j
          /\ \/ /\ j <= StepCount
                /\ initState' = "Pending"
                /\ outbox' = Append(outbox, j)
                /\ asked' = [asked EXCEPT ![j] = @ + 1]
             \/ /\ j = StepCount + 1
                /\ initState' = "Initialized"
                /\ UNCHANGED <<outbox, asked>>
    BY Zenon DEF Continue
  <1>2. asked \in [Steps -> Nat] /\ outbox \in Seq(Steps)
    BY DEF TypeOK
  <1>3. CASE j <= StepCount
    <2>1. j \in Steps
      BY <1>1, <1>3
    <2>2. /\ initState' = "Pending" /\ outbox' = Append(outbox, j)
          /\ asked' = [asked EXCEPT ![j] = asked[j] + 1]
      BY <1>1, <1>3
    <2>3. asked' \in [Steps -> Nat]
      BY <1>2, <2>1, <2>2
    <2>4. outbox' \in Seq(Steps)
      BY <1>2, <2>1, <2>2, AppendProperties
    <2> QED
      BY <1>1, <2>2, <2>3, <2>4
  <1>4. CASE j = StepCount + 1
    BY <1>1, <1>2, <1>4
  <1> QED
    BY <1>1, <1>3, <1>4

\* The job worker's counter saturates at its limit, and what it takes from the
\* queue or puts back is a job.
LEMMA JobWorkerTypes ==
  ASSUME TypeOK, JobWorkerLoop
  PROVE  TypeOK'
  <1> USE InitializationAssumption
  <1>1. CASE DispatchJob
    <2>1. /\ jobQueue # <<>> /\ jobExpired' = FALSE
          /\ UNCHANGED <<chip, inFlight, wire, losses, repeats, uiCalls, answered>>
          /\ InitializeDone \/ InterviewDone \/ InitializeStart \/ JobPending
      BY <1>1 DEF DispatchJob
    <2>2. /\ jobQueue \in Seq(Job) /\ Tail(jobQueue) \in Seq(Job)
      BY <2>1, HeadTailProperties DEF TypeOK
    <2>3. CountTwice => jobAttempts' \in 0 .. MaxJobAttempts
      BY DEF TypeOK, CountTwice
    <2>4. CASE InitializeDone
      <3>1. StartInterview(Tail(jobQueue)) /\ jobAttempts' = 0
            /\ UNCHANGED <<module, outbox, asked>>
        BY <2>4 DEF InitializeDone
      <3>2. jobQueue' \in Seq(Job) /\ interviewed' \in SUBSET Nat
        BY <2>2, <3>1, StartInterviewTypes
      <3>3. jobAttempts' \in 0 .. MaxJobAttempts
        BY <3>1
      <3> QED
        BY <2>1, <3>1, <3>2, <3>3 DEF TypeOK, module
    <2>5. CASE InterviewDone
      <3>1. jobQueue' = Tail(jobQueue) /\ jobAttempts' = 0
            /\ UNCHANGED <<module, outbox, asked, interviewed>>
        BY <2>5 DEF InterviewDone
      <3>2. jobAttempts' \in 0 .. MaxJobAttempts
        BY <3>1
      <3> QED
        BY <2>1, <2>2, <3>1, <3>2 DEF TypeOK, module
    <2>6. CASE InitializeStart
      <3>1. /\ CountTwice /\ Continue(1, apiCommands)
            /\ UNCHANGED <<apiCommands, nodeIds, jobQueue, interviewed>>
        BY <2>6 DEF InitializeStart
      <3>3. 1 \in 1 .. StepCount + 1
        OBVIOUS
      <3>2. /\ initState' \in {"NotInitialized", "Pending", "Paused", "Initialized"}
            /\ currentStep' \in 1 .. StepCount + 1
            /\ outbox' \in Seq(Steps) /\ asked' \in [Steps -> Nat]
        BY <3>1, <3>3, ContinueTypes
      <3> QED
        BY <2>1, <2>3, <3>1, <3>2 DEF TypeOK
    <2>7. CASE JobPending
      <3>1. CountTwice /\ UNCHANGED <<module, jobQueue, outbox, asked, interviewed>>
        BY <2>7 DEF JobPending
      <3> QED
        BY <2>1, <2>3, <3>1 DEF TypeOK, module
    <2> QED
      BY <2>1, <2>4, <2>5, <2>6, <2>7
  <1>2. CASE JobTimeout
    <2>1. /\ jobQueue # <<>> /\ jobExpired' = FALSE
          /\ UNCHANGED <<module, channel, chip, uiCalls, asked, answered, interviewed>>
          /\ \/ FailJob /\ jobAttempts' = 0
             \/ jobAttempts + 1 < MaxJobAttempts /\ jobAttempts' = jobAttempts + 1
                /\ UNCHANGED jobQueue
      BY <1>2 DEF JobTimeout
    <2>2. jobQueue \in Seq(Job) /\ Tail(jobQueue) \in Seq(Job) /\ INITIALIZE \in Job
      BY <2>1, HeadTailProperties DEF TypeOK, Job, INITIALIZE
    <2>3. jobQueue' \in Seq(Job)
      <3>1. Append(Tail(jobQueue), INITIALIZE) \in Seq(Job)
        BY <2>2, AppendProperties
      <3> QED
        BY <2>1, <2>2, <3>1 DEF FailJob
    <2>4. jobAttempts' \in 0 .. MaxJobAttempts
      BY <2>1 DEF TypeOK
    <2> QED
      BY <2>1, <2>3, <2>4 DEF TypeOK, module, channel
  <1> QED
    BY <1>1, <1>2 DEF JobWorkerLoop

\* The user adds jobs to the queue.
LEMMA UserTypes ==
  ASSUME TypeOK, JobTimePasses \/ UIStartInitialization \/ UIStartInterview
  PROVE  TypeOK'
  <1> USE InitializationAssumption
  <1>1. CASE JobTimePasses
    BY <1>1 DEF JobTimePasses, TypeOK, module, channel
  <1>2. CASE UIStartInitialization
    <2>1. /\ jobQueue' = Append(jobQueue, INITIALIZE) /\ uiCalls' \in 0 .. MaxUICalls
          /\ UNCHANGED <<module, jobAttempts, jobExpired, channel, chip, asked, answered,
                         interviewed>>
      BY <1>2 DEF UIStartInitialization, TypeOK
    <2>2. jobQueue' \in Seq(Job)
      BY <2>1, AppendProperties DEF TypeOK, Job, INITIALIZE
    <2> QED
      BY <2>1, <2>2 DEF TypeOK, module, channel
  <1>3. CASE UIStartInterview
    <2>1. /\ StartInterview(jobQueue) /\ uiCalls' \in 0 .. MaxUICalls
          /\ UNCHANGED <<module, jobAttempts, jobExpired, channel, chip, asked, answered>>
      BY <1>3 DEF UIStartInterview, TypeOK
    <2>2. jobQueue' \in Seq(Job) /\ interviewed' \in SUBSET Nat
      BY <2>1, StartInterviewTypes DEF TypeOK
    <2> QED
      BY <2>1, <2>2 DEF TypeOK, module, channel
  <1> QED
    BY <1>1, <1>2, <1>3

\* What is on the line is an answer to a step of the table.
LEMMA TransportTypes ==
  ASSUME TypeOK, Transport \/ RepeatAnswer \/ OnFrameReceivedTimeout \/ TransportGivesUp
  PROVE  TypeOK'
  <1> USE InitializationAssumption
  <1>1. CASE Transport
    <2>1. /\ inFlight' = Head(outbox) /\ outbox # <<>> /\ outbox' = Tail(outbox)
          /\ UNCHANGED <<module, jobs, repeats, chip, uiCalls, asked, answered, interviewed>>
          /\ \/ /\ \E whole \in BOOLEAN :
                     wire' = Append(wire, [step |-> Head(outbox), whole |-> whole])
                /\ UNCHANGED losses
             \/ /\ losses > 0 /\ losses' = losses - 1 /\ UNCHANGED wire
      BY <1>1 DEF Transport
    <2>2. Head(outbox) \in Steps /\ Tail(outbox) \in Seq(Steps)
      BY <2>1, HeadTailProperties DEF TypeOK
    <2>3. \A whole \in BOOLEAN : [step |-> Head(outbox), whole |-> whole] \in Answers
      BY <2>2 DEF Answers
    <2>4. wire' \in Seq(Answers)
      <3>1. wire \in Seq(Answers)
        BY DEF TypeOK, Answers
      <3>2. \A e \in Answers : Append(wire, e) \in Seq(Answers)
        BY <3>1, AppendProperties
      <3> QED
        BY <2>1, <2>3, <3>1, <3>2
    <2>5. losses' \in 0 .. MaxLosses
      BY <2>1, SMTT(60) DEF TypeOK
    <2> QED
      BY <2>1, <2>2, <2>4, <2>5 DEF TypeOK, module, jobs, Answers
  <1>2. CASE RepeatAnswer
    <2>1. /\ wire # <<>> /\ wire' = Append(wire, Last(wire)) /\ repeats' \in 0 .. MaxRepeats
          /\ UNCHANGED <<module, jobs, outbox, inFlight, losses, chip, uiCalls, asked,
                         answered, interviewed>>
      BY <1>2 DEF RepeatAnswer, TypeOK
    <2>2. wire \in Seq(Answers)
      BY DEF TypeOK, Answers
    <2>3. Last(wire) \in Answers
      <3>1. Len(wire) \in 1 .. Len(wire)
        BY <2>1, <2>2, EmptySeq
      <3> QED
        BY <2>2, <3>1, ElementOfSeq DEF Last
    <2>4. wire' \in Seq(Answers)
      BY <2>1, <2>2, <2>3, AppendProperties
    <2> QED
      BY <2>1, <2>4 DEF TypeOK, module, jobs, Answers
  <1>3. CASE OnFrameReceivedTimeout
    <2>1. /\ initState' \in {initState, "Paused"} /\ inFlight' = None
          /\ UNCHANGED <<currentStep, apiCommands, nodeIds>>
          /\ UNCHANGED <<jobs, outbox, wire, losses, repeats, chip, uiCalls, asked, answered,
                         interviewed>>
      BY <1>3 DEF OnFrameReceivedTimeout, HandleFrameTimeout
    <2> QED
      BY <2>1 DEF TypeOK, jobs
  <1>4. CASE TransportGivesUp
    BY <1>4 DEF TransportGivesUp, TypeOK, module, jobs
  <1> QED
    BY <1>1, <1>2, <1>3, <1>4

\* What the decoders store comes from the chip.
LEMMA OnFrameReceivedTypes ==
  ASSUME TypeOK, OnFrameReceived
  PROVE  TypeOK'
  <1> USE InitializationAssumption
  <1>1. /\ wire # <<>> /\ wire' = Tail(wire) /\ inFlight' \in {inFlight, None}
        /\ AcceptAnswer(Head(wire)) \/ IgnoreAnswer(Head(wire))
        /\ UNCHANGED <<jobs, losses, repeats, chip, uiCalls, interviewed>>
    BY DEF OnFrameReceived
  <1>2. wire' \in Seq(Answers) /\ inFlight' \in Steps \cup {None}
    <2>1. wire \in Seq(Answers)
      BY DEF TypeOK, Answers
    <2> QED
      BY <1>1, <2>1, HeadTailProperties DEF TypeOK
  <1>3. CASE AcceptAnswer(Head(wire))
    <2>1. /\ currentStep <= StepCount
          /\ answered' = answered \cup {currentStep}
          /\ Continue(currentStep + 1, apiCommands')
          /\ apiCommands' \in {apiCommands, chip} /\ nodeIds' \in {nodeIds, NodeIds}
      BY <1>3 DEF AcceptAnswer, Decode, DecodeInitData, DecodeCapabilities
    <2>2. currentStep \in Steps /\ currentStep + 1 \in 1 .. StepCount + 1
      BY <2>1 DEF TypeOK, Steps
    <2>3. /\ initState' \in {"NotInitialized", "Pending", "Paused", "Initialized"}
          /\ currentStep' \in 1 .. StepCount + 1
          /\ outbox' \in Seq(Steps) /\ asked' \in [Steps -> Nat]
      BY <2>1, <2>2, ContinueTypes
    <2>4. apiCommands' \in SUBSET Steps /\ nodeIds' \in Seq(Nat) /\ answered' \in SUBSET Steps
      BY <2>1, <2>2 DEF TypeOK
    <2> QED
      BY <1>1, <1>2, <2>3, <2>4 DEF TypeOK, jobs, Answers
  <1>4. CASE IgnoreAnswer(Head(wire))
    BY <1>1, <1>2, <1>4 DEF IgnoreAnswer, TypeOK, module, jobs, Answers
  <1> QED
    BY <1>1, <1>3, <1>4

\* No step breaks the types.
LEMMA NextKeepsTypes ==
  ASSUME TypeOK, [Next]_vars
  PROVE  TypeOK'
  <1>1. CASE UNCHANGED vars
    BY <1>1 DEF TypeOK, vars, module, jobs, channel
  <1> QED
    BY <1>1, JobWorkerTypes, UserTypes, TransportTypes, OnFrameReceivedTypes DEF Next

\* They hold at the start.
LEMMA InitTypes ==
  ASSUME Init
  PROVE  TypeOK
  <1> USE InitializationAssumption DEF Init
  <1>1. asked \in [Steps -> Nat]
    OBVIOUS
  <1>2. currentStep \in 1 .. StepCount + 1 /\ jobAttempts \in 0 .. MaxJobAttempts
        /\ losses \in 0 .. MaxLosses /\ repeats \in 0 .. MaxRepeats /\ uiCalls \in 0 .. MaxUICalls
    BY DEF CapabilitiesStep
  <1> QED
    BY <1>1, <1>2, EmptySeq DEF TypeOK

\* The variables keep their types: the job worker's counter stays within its
\* limit, and what StartInterview enqueues from the node list is a job.
THEOREM TypeCorrect == Spec => []TypeOK
  BY InitTypes, NextKeepsTypes, PTL DEF Spec

\* The inductive invariant.
IInv == TypeOK /\ SequenceInv

-----------------------------------------------------------------------------
(* The sequence.                                                           *)

\* Continue goes to the first supported step from k on.
LEMMA ContinueKeeps ==
  ASSUME IInv, NEW k \in 1 .. StepCount + 1, NEW api, Continue(k, api),
         \A i \in Steps : i >= k => asked[i] = 0
  PROVE  /\ initState' \in {"Pending", "Initialized"}
         /\ initState' = "Initialized" => currentStep' = StepCount + 1
         /\ currentStep' \in k .. StepCount + 1
         /\ \A i \in k .. currentStep' - 1 : ~HasAPICommand(i, api)
         /\ AskedOnce'
         /\ \A i \in Steps : i > currentStep' => asked'[i] = 0
  <1> USE InitializationAssumption DEF Steps
  <1>1. PICK j \in k .. StepCount + 1 :
          /\ \A i \in k .. j - 1 : ~HasAPICommand(i, api)
          /\ currentStep' = j
          /\ \/ /\ j <= StepCount
                /\ initState' = "Pending"
                /\ outbox' = Append(outbox, j)
                /\ asked' = [asked EXCEPT ![j] = @ + 1]
             \/ /\ j = StepCount + 1
                /\ initState' = "Initialized"
                /\ UNCHANGED <<outbox, asked>>
    BY Zenon DEF Continue
  <1>2. asked \in [Steps -> Nat] /\ AskedOnce
    BY DEF IInv, TypeOK, SequenceInv
  <1>3. CASE j <= StepCount
    <2>1. j \in Steps /\ asked[j] = 0
      BY <1>1, <1>3
    <2>2. /\ initState' = "Pending" /\ outbox' = Append(outbox, j)
          /\ asked' = [asked EXCEPT ![j] = asked[j] + 1]
      BY <1>1, <1>3
    <2>3. AskedOnce'
      BY <1>2, <2>1, <2>2 DEF AskedOnce
    <2>4. \A i \in Steps : i > currentStep' => asked'[i] = 0
      BY <1>1, <1>2, <2>1, <2>2
    <2> QED
      BY <1>1, <2>2, <2>3, <2>4
  <1>4. CASE j = StepCount + 1
    BY <1>1, <1>2, <1>4 DEF AskedOnce
  <1> QED
    BY <1>1, <1>3, <1>4

\* The start of the sequence.
LEMMA InitializeStartKeeps ==
  ASSUME IInv, TypeOK', jobQueue # <<>>, InitializeStart,
         UNCHANGED <<inFlight, wire, answered>>
  PROVE  IInv'
  <1> USE InitializationAssumption
  <1>1. /\ Head(jobQueue) = INITIALIZE /\ initState = "NotInitialized"
        /\ Continue(1, apiCommands) /\ UNCHANGED <<apiCommands, jobQueue>>
    BY DEF InitializeStart
  <1>2. jobQueue \in Seq(Job) /\ currentStep = 1 /\ asked[1] = 0
    BY <1>1 DEF IInv, TypeOK, SequenceInv
  <1>3. \A i \in Steps : i >= 1 => asked[i] = 0
    BY <1>2 DEF IInv, SequenceInv, Steps
  <1>4. /\ initState' \in {"Pending", "Initialized"}
        /\ initState' = "Initialized" => currentStep' = StepCount + 1
        /\ currentStep' \in 1 .. StepCount + 1
        /\ \A i \in 1 .. currentStep' - 1 : ~HasAPICommand(i, apiCommands)
        /\ AskedOnce'
        /\ \A i \in Steps : i > currentStep' => asked'[i] = 0
    BY <1>1, <1>3, ContinueKeeps
  <1>6. NoStepSkipped'
    BY <1>1, <1>4 DEF NoStepSkipped, HasAPICommand
  <1>7. JobLooksAfter'
    <2>1. 1 \in DOMAIN jobQueue /\ jobQueue[1] = INITIALIZE
      BY <1>1, <1>2
    <2> QED
      BY <1>1, <2>1 DEF JobLooksAfter, Range
  <1> QED
    BY <1>4, <1>6, <1>7 DEF IInv, SequenceInv

\* Numbers between two others.
LEMMA IntervalFacts ==
  ASSUME NEW m \in Nat, NEW n \in Nat
  PROVE  /\ \A k \in Nat : k > m /\ k <= n - 1 => k \in m + 1 .. n - 1
         /\ \A k \in 1 .. n - 1 : k \in Nat /\ 1 <= k /\ k <= n - 1
  OBVIOUS

\* The answer that was awaited, as it moves the sequence on.
LEMMA AcceptAnswerKeeps ==
  ASSUME IInv, TypeOK', NEW f \in Answers, wire # <<>>, AcceptAnswer(f),
         wire' = Tail(wire), inFlight' \in {inFlight, None}, UNCHANGED jobQueue
  PROVE  IInv'
  <1> USE InitializationAssumption
  <1>1. /\ currentStep <= StepCount /\ f.step = currentStep
        /\ answered' = answered \cup {currentStep}
        /\ Continue(currentStep + 1, apiCommands')
        /\ f.step # CapabilitiesStep => UNCHANGED apiCommands
    BY DEF AcceptAnswer, Decode, DecodeInitData, DecodeCapabilities
  <1>2. /\ initState \in {"Pending", "Paused"} /\ jobQueue \in Seq(Job)
        /\ currentStep \in Steps
    BY <1>1 DEF IInv, TypeOK, SequenceInv, Steps
  <1>3. currentStep + 1 \in 1 .. StepCount + 1
    BY <1>2 DEF Steps
  <1>4. \A i \in Steps : i >= currentStep + 1 => asked[i] = 0
    BY <1>2 DEF IInv, SequenceInv, Steps
  <1>5. /\ initState' \in {"Pending", "Initialized"}
        /\ initState' = "Initialized" => currentStep' = StepCount + 1
        /\ currentStep' \in currentStep + 1 .. StepCount + 1
        /\ \A i \in currentStep + 1 .. currentStep' - 1 : ~HasAPICommand(i, apiCommands')
        /\ AskedOnce'
        /\ \A i \in Steps : i > currentStep' => asked'[i] = 0
    BY <1>1, <1>3, <1>4, ContinueKeeps
  <1>7. NoStepSkipped'
    <2>1. currentStep \in Nat /\ currentStep' \in Nat
      BY <1>2, <1>5 DEF Steps
    <2>2. SUFFICES ASSUME NEW k \in Nat, 1 <= k, k <= currentStep' - 1
                   PROVE  k \in answered' \/ ~HasAPICommand(k, apiCommands')
      <3>1. \A k \in 1 .. currentStep' - 1 : k \in Nat /\ 1 <= k /\ k <= currentStep' - 1
        BY <2>1, IntervalFacts
      <3> QED
        BY <3>1, Zenon DEF NoStepSkipped
    <2>3. CASE k < currentStep
      <3>1. k \in answered \/ ~HasAPICommand(k, apiCommands)
        BY <2>1, <2>2, <2>3 DEF IInv, SequenceInv, NoStepSkipped
      <3>2. CASE f.step = CapabilitiesStep
        BY <1>1, <2>1, <2>2, <2>3, <3>1, <3>2 DEF HasAPICommand, CapabilitiesStep, InitDataStep
      <3>3. CASE f.step # CapabilitiesStep
        BY <1>1, <3>1, <3>3 DEF HasAPICommand
      <3> QED
        BY <3>2, <3>3
    <2>4. CASE k = currentStep
      BY <1>1, <2>4
    <2>5. CASE k > currentStep
      <3>1. k \in currentStep + 1 .. currentStep' - 1
        BY <2>1, <2>2, <2>5, IntervalFacts
      <3> QED
        BY <1>5, <3>1
    <2> QED
      BY <2>1, <2>3, <2>4, <2>5
  <1>8. JobLooksAfter'
    BY <1>2 DEF IInv, SequenceInv, JobLooksAfter
  <1> QED
    BY <1>5, <1>7, <1>8 DEF IInv, SequenceInv

\* A step that leaves the sequence and the job queue alone.
LEMMA QuietStepKeeps ==
  ASSUME IInv, TypeOK', UNCHANGED <<initState, currentStep, apiCommands, asked, answered, jobQueue>>,
         initState = "NotInitialized" => outbox' = <<>> /\ inFlight' = None /\ wire' = <<>>
  PROVE  IInv'
  BY DEF IInv, SequenceInv, NoStepSkipped, AskedOnce, JobLooksAfter, HasAPICommand

-----------------------------------------------------------------------------
(* The threads that share the sequence.                                    *)

\* INITIALIZE stays in a queue that something else is taken from or added to.
LEMMA QueueKeepsJob ==
  ASSUME NEW q \in Seq(Job), \E i \in DOMAIN q : q[i] = INITIALIZE
  PROVE  /\ INITIALIZE \in Range(Append(q, INITIALIZE))
         /\ q # <<>> /\ Head(q) # INITIALIZE => INITIALIZE \in Range(Tail(q))
  <1>1. PICK i \in 1 .. Len(q) : q[i] = INITIALIZE
    OBVIOUS
  <1>2. INITIALIZE \in Range(Append(q, INITIALIZE))
    BY <1>1, AppendProperties DEF Range
  <1>3. ASSUME q # <<>>, Head(q) # INITIALIZE
        PROVE  INITIALIZE \in Range(Tail(q))
    <2>1. i # 1 /\ Len(q) \in Nat
      BY <1>1, <1>3
    <2>2. i - 1 \in 1 .. Len(Tail(q)) /\ Tail(q)[i - 1] = q[i]
      BY <1>1, <1>3, <2>1, HeadTailProperties
    <2>3. DOMAIN Tail(q) = 1 .. Len(Tail(q))
      BY <1>3, HeadTailProperties
    <2> QED
      BY <1>1, <2>2, <2>3 DEF Range
  <1> QED
    BY <1>2, <1>3

\* A step of the job worker or the user that changes only the queue, and
\* keeps INITIALIZE in it as long as initialization is under way.
LEMMA QueueStepKeeps ==
  ASSUME IInv, TypeOK', UNCHANGED <<module, channel, asked, answered>>,
         initState \in {"Pending", "Paused"} => INITIALIZE \in Range(jobQueue')
  PROVE  IInv'
  <1>1. UNCHANGED <<initState, currentStep, apiCommands, outbox, inFlight, wire, asked, answered>>
    BY DEF module, channel
  <1>3. SequenceInv'
    BY <1>1 DEF IInv, SequenceInv, NoStepSkipped, AskedOnce, JobLooksAfter, HasAPICommand
  <1> QED
    BY <1>3 DEF IInv

\* The job worker, whatever becomes of the job at the front.
LEMMA JobWorkerLoopKeeps ==
  ASSUME IInv, TypeOK', JobWorkerLoop
  PROVE  IInv'
  <1>1. CASE DispatchJob
    <2>1. /\ jobQueue # <<>>
          /\ UNCHANGED <<chip, inFlight, wire, losses, repeats, uiCalls, answered>>
          /\ InitializeDone \/ InterviewDone \/ InitializeStart \/ JobPending
      BY <1>1 DEF DispatchJob
    <2>2. CASE InitializeDone
      <3>1. /\ initState = "Initialized" /\ UNCHANGED <<module, outbox, asked>>
        BY <2>2 DEF InitializeDone
      <3> QED
        BY <2>1, <3>1, QueueStepKeeps DEF channel
    <2>3. CASE InterviewDone
      <3>1. /\ Head(jobQueue) # INITIALIZE /\ jobQueue' = Tail(jobQueue)
            /\ UNCHANGED <<module, outbox, asked>>
        BY <2>3 DEF InterviewDone
      <3>2. jobQueue \in Seq(Job)
        BY DEF IInv, TypeOK
      <3>3. initState \in {"Pending", "Paused"} => INITIALIZE \in Range(jobQueue')
        BY <2>1, <3>1, <3>2, QueueKeepsJob DEF IInv, SequenceInv, JobLooksAfter, Range
      <3> QED
        BY <2>1, <3>1, <3>3, QueueStepKeeps DEF channel
    <2>4. CASE InitializeStart
      BY <2>1, <2>4, InitializeStartKeeps
    <2>5. CASE JobPending
      <3>1. UNCHANGED <<module, jobQueue, outbox, asked>>
        BY <2>5 DEF JobPending
      <3> QED
        BY <2>1, <3>1, QueueStepKeeps DEF channel, IInv, SequenceInv, JobLooksAfter
    <2> QED
      BY <2>1, <2>2, <2>3, <2>4, <2>5
  <1>2. CASE JobTimeout
    <2>1. /\ jobQueue # <<>> /\ UNCHANGED <<module, channel, asked, answered>>
          /\ FailJob \/ UNCHANGED jobQueue
      BY <1>2 DEF JobTimeout
    <2>2. CASE FailJob
      <3>1. /\ jobQueue \in Seq(Job) /\ Tail(jobQueue) \in Seq(Job) /\ INITIALIZE \in Job
        BY <2>1, HeadTailProperties DEF IInv, TypeOK, Job, INITIALIZE
      <3>3. initState \in {"Pending", "Paused"} => INITIALIZE \in Range(jobQueue')
        <4>1. CASE Head(jobQueue) = INITIALIZE
          <5>1. jobQueue' = Append(Tail(jobQueue), INITIALIZE)
            BY <2>2, <4>1 DEF FailJob
          <5> QED
            BY <3>1, <5>1, AppendProperties DEF Range
        <4>2. CASE Head(jobQueue) # INITIALIZE
          <5>1. jobQueue' = Tail(jobQueue)
            BY <2>2, <4>2 DEF FailJob
          <5> QED
            BY <2>1, <3>1, <4>2, <5>1, QueueKeepsJob DEF IInv, SequenceInv, JobLooksAfter, Range
        <4> QED
          BY <4>1, <4>2
      <3> QED
        BY <2>1, <3>3, QueueStepKeeps
    <2>3. CASE UNCHANGED jobQueue
      BY <2>1, <2>3, QueueStepKeeps DEF IInv, SequenceInv, JobLooksAfter
    <2> QED
      BY <2>1, <2>2, <2>3
  <1> QED
    BY <1>1, <1>2 DEF JobWorkerLoop

\* The clock and the user.
LEMMA UserKeeps ==
  ASSUME IInv, TypeOK', JobTimePasses \/ UIStartInitialization \/ UIStartInterview
  PROVE  IInv'
  <1>1. CASE JobTimePasses
    BY <1>1, QueueStepKeeps DEF JobTimePasses, IInv, SequenceInv, JobLooksAfter
  <1>2. CASE UIStartInitialization
    <2>1. initState = "NotInitialized" /\ jobQueue' = Append(jobQueue, INITIALIZE)
          /\ UNCHANGED <<module, channel, asked, answered>>
      BY <1>2 DEF UIStartInitialization
    <2> QED
      BY <2>1, QueueStepKeeps
  <1>3. CASE UIStartInterview
    BY <1>3, QueueStepKeeps DEF UIStartInterview
  <1> QED
    BY <1>1, <1>2, <1>3

\* The transport, with its timeouts and losses.
LEMMA TransportKeeps ==
  ASSUME IInv, TypeOK', Transport \/ RepeatAnswer \/ OnFrameReceivedTimeout \/ TransportGivesUp
  PROVE  IInv'
  <1> USE DEF IInv
  <1>1. CASE Transport
    <2>1. outbox # <<>> /\ UNCHANGED <<module, jobQueue, asked, answered>>
      BY <1>1 DEF Transport, jobs
    <2>2. initState # "NotInitialized"
      BY <2>1 DEF SequenceInv
    <2> QED
      BY <2>1, <2>2, QuietStepKeeps DEF module
  <1>2. CASE RepeatAnswer
    <2>1. wire # <<>> /\ UNCHANGED <<module, jobQueue, outbox, inFlight, asked, answered>>
      BY <1>2 DEF RepeatAnswer, jobs
    <2>2. initState # "NotInitialized"
      BY <2>1 DEF SequenceInv
    <2> QED
      BY <2>1, <2>2, QuietStepKeeps DEF module
  <1>3. CASE OnFrameReceivedTimeout
    <2>1. /\ inFlight # None /\ HandleFrameTimeout(inFlight) /\ inFlight' = None
          /\ UNCHANGED <<jobQueue, outbox, wire, asked, answered>>
      BY <1>3 DEF OnFrameReceivedTimeout, jobs
    <2>2. UNCHANGED <<currentStep, apiCommands>>
          /\ initState' = IF inFlight = currentStep THEN "Paused" ELSE initState
      BY <2>1 DEF HandleFrameTimeout
    <2>3. inFlight \in Steps /\ initState # "NotInitialized"
      BY <2>1 DEF TypeOK, SequenceInv
    <2>4. inFlight = currentStep => initState # "Initialized"
      BY <2>3, InitializationAssumption DEF SequenceInv, Steps
    <2>6. SequenceInv'
      BY <2>1, <2>2, <2>3, <2>4
      DEF TypeOK, SequenceInv, NoStepSkipped, AskedOnce, JobLooksAfter, HasAPICommand
    <2> QED
      BY <2>6
  <1>4. CASE TransportGivesUp
    <2>1. /\ inFlight' = None
          /\ UNCHANGED <<module, jobQueue, outbox, wire, asked, answered>>
      BY <1>4 DEF TransportGivesUp, jobs
    <2> QED
      BY <2>1, QuietStepKeeps DEF module, SequenceInv
  <1> QED
    BY <1>1, <1>2, <1>3, <1>4

\* A frame of any kind.
LEMMA OnFrameReceivedKeeps ==
  ASSUME IInv, TypeOK', OnFrameReceived
  PROVE  IInv'
  <1>1. /\ wire # <<>> /\ wire' = Tail(wire) /\ inFlight' \in {inFlight, None}
        /\ AcceptAnswer(Head(wire)) \/ IgnoreAnswer(Head(wire))
        /\ UNCHANGED jobQueue
    BY DEF OnFrameReceived, jobs
  <1>2. Head(wire) \in Answers
    BY <1>1, HeadTailProperties DEF IInv, TypeOK, Answers
  <1>3. CASE AcceptAnswer(Head(wire))
    BY <1>1, <1>2, <1>3, AcceptAnswerKeeps
  <1>4. CASE IgnoreAnswer(Head(wire))
    <2>1. UNCHANGED <<module, outbox, asked, answered>>
      BY <1>4 DEF IgnoreAnswer
    <2>3. initState # "NotInitialized"
      BY <1>1 DEF IInv, SequenceInv
    <2> QED
      BY <1>1, <2>1, <2>3, QuietStepKeeps DEF module
  <1> QED
    BY <1>1, <1>3, <1>4

-----------------------------------------------------------------------------
(* The invariant and what follows from it.                                 *)

\* It holds at the start.
LEMMA InitEstablishes == Init => IInv
  <1> SUFFICES ASSUME Init PROVE IInv
    OBVIOUS
  <1> USE InitializationAssumption DEF Init
  <1>1. TypeOK
    BY InitTypes
  <1>2. SequenceInv
    BY DEF SequenceInv, NoStepSkipped, AskedOnce, JobLooksAfter, Steps, CapabilitiesStep
  <1> QED
    BY <1>1, <1>2 DEF IInv

\* No step breaks it.
LEMMA NextKeeps == IInv /\ [Next]_vars => IInv'
  <1> SUFFICES ASSUME IInv, [Next]_vars PROVE IInv'
    OBVIOUS
  <1>1. TypeOK'
    BY NextKeepsTypes DEF IInv
  <1>2. CASE UNCHANGED vars
    BY <1>1, <1>2, QueueStepKeeps DEF vars, jobs, IInv, SequenceInv, JobLooksAfter
  <1> QED
    BY <1>1, <1>2, JobWorkerLoopKeeps, UserKeeps, TransportKeeps, OnFrameReceivedKeeps DEF Next

\* The sequence, its job and what is under way agree in every reachable state
\* (InitializeManager.h and the job worker of Z_Wave.h).
THEOREM SequenceInvariant == Spec => []SequenceInv
  <1>1. IInv => SequenceInv
    BY DEF IInv
  <1> QED
    BY <1>1, InitEstablishes, NextKeeps, PTL DEF Spec

\* Every step before currentStep was answered or is not supported, whatever
\* order the answers come in (HandleFrame and Continue).
THEOREM NothingSkipped == Spec => []NoStepSkipped
  <1>1. SequenceInv => NoStepSkipped
    BY DEF SequenceInv
  <1> QED
    BY <1>1, SequenceInvariant, PTL

\* No command of the sequence is sent twice by the sequence itself, however
\* often its job is retried (DispatchJob, StartSequence).
THEOREM NothingAskedTwice == Spec => []AskedOnce
  <1>1. SequenceInv => AskedOnce
    BY DEF SequenceInv
  <1> QED
    BY <1>1, SequenceInvariant, PTL

\* A job that has failed or timed out goes back to the queue as long as
\* initialization is under way (HandleJobError, PopJob).
THEOREM JobKept == Spec => []JobLooksAfter
  <1>1. SequenceInv => JobLooksAfter
    BY DEF SequenceInv
  <1> QED
    BY <1>1, SequenceInvariant, PTL

\* Once initialized, the module stays so: late frames and timeouts of the
\* sequence no longer find a step of theirs (HandleFrame, HandleFrameTimeout).
THEOREM StaysInitialized == Spec => InitializedStays
  <1> DEFINE Stays == initState = "Initialized" => initState' = "Initialized"
  <1>1. IInv /\ [Next]_vars => [Stays]_vars
    <2> SUFFICES ASSUME IInv, Next, initState = "Initialized" PROVE initState' = "Initialized"
      OBVIOUS
    <2>1. currentStep = StepCount + 1 /\ inFlight \in Steps \cup {None}
      BY DEF IInv, TypeOK, SequenceInv
    <2>2. inFlight # None => inFlight # currentStep
      BY <2>1, InitializationAssumption DEF Steps
    <2>3. ~(currentStep <= StepCount)
      BY <2>1, InitializationAssumption
    <2> QED
      BY <2>2, <2>3
      DEF Next, JobWorkerLoop, DispatchJob, InitializeDone, InterviewDone, InitializeStart,
          JobPending, JobTimeout, JobTimePasses, UIStartInitialization, UIStartInterview,
          Transport, RepeatAnswer, OnFrameReceived, AcceptAnswer, IgnoreAnswer,
          OnFrameReceivedTimeout, HandleFrameTimeout, TransportGivesUp, module
  <1> QED
    BY <1>1, InitEstablishes, NextKeeps, PTL DEF Spec, InitializedStays

=============================================================================
