------------------------- MODULE NodeInterviewProofs -------------------------
(***************************************************************************)
(* Proofs about NodeInterview, for any nodes, classes and bounds.  The     *)
(* invariant has five parts: the types; an account of the NIFs of each     *)
(* node, which pays for its completed interviews; a budget of version      *)
(* GETs, which the NIFs pay for as well; what an interview has learnt from *)
(* a single NIF; and, as long as nothing disturbs the interviews, that     *)
(* only the node at the front of the job queue is being asked.             *)
(***************************************************************************)
EXTENDS NodeInterview, SequenceTheorems, TLAPS

NodeTyped ==
  /\ interviewState \in [Nodes -> InterviewState]
  /\ awake \in [Nodes -> BOOLEAN]
  /\ isListening \in [Nodes -> BOOLEAN]
  /\ ccs \in [Nodes -> SUBSET Classes]
  /\ versionOk \in [Nodes -> SUBSET Classes]
  /\ mfgData \in [Nodes -> BOOLEAN]

\* The version loop waits for a class it has yet to see, and only while it runs.
WorkerTyped ==
  /\ pc \in [Nodes -> WorkedOn \cup {"loop", "versions", "manufacturer", "multiChannel"}]
  /\ todo \in [Nodes -> SUBSET Classes]
  /\ target \in [Nodes -> Classes \cup {NoClass}]
  /\ tries \in [Nodes -> 0 .. MaxTries]
  /\ \A n \in Nodes : target[n] # NoClass => pc[n] = "versions" /\ target[n] \in todo[n]

\* activeNode is set before the first request, and stays a node.
ThreadsTyped ==
  /\ activeNode \in Nodes \cup {NoNode}
  /\ decoding \in Nodes \cup {NoNode}
  /\ jobQueue \in Seq(Nodes)
  /\ dispatched \in BOOLEAN
  /\ jobStep \in {"dispatch", "request", "complete"}
  /\ startAt \in 0 .. Len(NodeIds)
  /\ rx \in {"idle", "protocolInfo", "request", "nif", "decode", "setNIF", "failed"}
  /\ requests \in Seq(Nodes)
  /\ jobStep = "request" \/ requests # <<>> \/ rx = "protocolInfo" => activeNode \in Nodes
  /\ rx \in {"request", "nif", "decode", "setNIF", "failed"} => decoding \in Nodes
  /\ jobStep # "dispatch" => jobQueue # <<>>

NetworkTyped ==
  /\ wire \subseteq Frame
  /\ lostRequests \in 0 .. MaxLostRequests
  /\ lostReports \in 0 .. MaxLostReports
  /\ nifs \in 0 .. MaxNIFs
  /\ starts \in 0 .. MaxStarts

HistoryTyped ==
  /\ decoded \in [Nodes -> Nat]
  /\ asked \in [Nodes -> [Classes -> Nat]]
  /\ completed \in [Nodes -> Nat]
  /\ dropped \subseteq Nodes

Typed == NodeTyped /\ WorkerTyped /\ ThreadsTyped /\ NetworkTyped /\ HistoryTyped

-----------------------------------------------------------------------------
(* Types.                                                                  *)

LEMMA QueueFacts ==
  ASSUME NEW S, NEW q \in Seq(S)
  PROVE  /\ \A e \in S : Append(q, e) \in Seq(S) /\ Append(q, e) # <<>>
         /\ \A e \in S : q # <<>> => Head(Append(q, e)) = Head(q)
         /\ q # <<>> => Tail(q) \in Seq(S) /\ Head(q) \in S
  BY Z3

LEMMA NodeIdsFacts ==
  /\ Len(NodeIds) \in Nat /\ Len(NodeIds) >= 1
  /\ \A i \in 1 .. Len(NodeIds) : NodeIds[i] \in Nodes
  BY NodeInterviewAssumption DEF Nodes

LEMMA OneMore ==
  ASSUME NEW S, NEW f \in [S -> Nat], NEW x \in S
  PROVE  [f EXCEPT ![x] = @ + 1] \in [S -> Nat]
  OBVIOUS

LEMMA FrameFacts ==
  ASSUME NEW n \in Nodes
  PROVE  /\ NIF(n) \in Frame /\ DeviceReport(n) \in Frame
         /\ \A c \in Classes : VersionReport(n, c) \in Frame
  BY DEF NIF, DeviceReport, VersionReport, Frame

LEMMA OneLess ==
  ASSUME NEW max \in Nat, NEW k \in 0 .. max, k > 0
  PROVE  k - 1 \in 0 .. max
  OBVIOUS

LEMMA StateType ==
  ASSUME NodeTyped, NEW n \in Nodes, NEW s \in InterviewState,
         SetInterviewState(n, s) \/ Enter(n, s) \/ UNCHANGED interviewState
  PROVE  interviewState' \in [Nodes -> InterviewState]
  BY Z3 DEF NodeTyped, SetInterviewState, Enter

\* The steps of the version loop.
LEMMA ClassTaken ==
  ASSUME WorkerTyped, NEW n \in Nodes, NEW c \in todo[n], pc[n] = "versions",
         target' = [target EXCEPT ![n] = c], tries' = [tries EXCEPT ![n] = 1],
         UNCHANGED <<pc, todo>>
  PROVE  WorkerTyped'
  <1>1. MaxTries \in Nat /\ 1 \in 0 .. MaxTries
    BY NodeInterviewAssumption
  <1>2. c \in Classes /\ c # NoClass
    BY DEF WorkerTyped, Classes, NoClass
  <1>3. tries' \in [Nodes -> 0 .. MaxTries] /\ target' \in [Nodes -> Classes \cup {NoClass}]
    BY <1>1, <1>2 DEF WorkerTyped
  <1>4. \A m \in Nodes : target'[m] = IF m = n THEN c ELSE target[m]
    BY DEF WorkerTyped
  <1> QED
    BY <1>3, <1>4 DEF WorkerTyped

LEMMA ClassPassed ==
  ASSUME WorkerTyped, NEW n \in Nodes, NEW c, target[n] = NoClass,
         todo' = [todo EXCEPT ![n] = @ \ {c}], UNCHANGED <<pc, target, tries>>
  PROVE  WorkerTyped'
  <1>1. todo' \in [Nodes -> SUBSET Classes]
    BY DEF WorkerTyped
  <1>2. \A m \in Nodes : target[m] # NoClass => todo'[m] = todo[m]
    BY DEF WorkerTyped
  <1> QED
    BY <1>1, <1>2 DEF WorkerTyped

LEMMA ClassLeft ==
  ASSUME WorkerTyped, NEW n \in Nodes, NextClass(n), UNCHANGED pc
  PROVE  WorkerTyped'
  <1>1. 0 \in 0 .. MaxTries
    BY NodeInterviewAssumption
  <1>2. /\ todo' \in [Nodes -> SUBSET Classes] /\ tries' \in [Nodes -> 0 .. MaxTries]
        /\ target' \in [Nodes -> Classes \cup {NoClass}]
    BY <1>1 DEF WorkerTyped, NextClass
  <1>3. \A m \in Nodes : target'[m] # NoClass => target'[m] = target[m] /\ todo'[m] = todo[m]
    BY DEF WorkerTyped, NextClass
  <1> QED
    BY <1>2, <1>3 DEF WorkerTyped

LEMMA AskedAgain ==
  ASSUME WorkerTyped, NEW n \in Nodes, tries[n] < MaxTries,
         tries' = [tries EXCEPT ![n] = @ + 1], UNCHANGED <<pc, todo, target>>
  PROVE  WorkerTyped'
  <1>1. tries' \in [Nodes -> 0 .. MaxTries]
    BY NodeInterviewAssumption DEF WorkerTyped
  <1> QED
    BY <1>1 DEF WorkerTyped

LEMMA AskVersionWorker ==
  ASSUME WorkerTyped, NEW n \in Nodes, NEW c, AskVersion(n, c)
  PROVE  WorkerTyped'
  <1>1. /\ pc[n] = "versions" /\ target[n] = NoClass /\ c \in todo[n] /\ UNCHANGED pc
        /\ \/ /\ target' = [target EXCEPT ![n] = c] /\ tries' = [tries EXCEPT ![n] = 1]
              /\ UNCHANGED todo
           \/ /\ todo' = [todo EXCEPT ![n] = @ \ {c}]
              /\ UNCHANGED <<target, tries>>
    BY DEF AskVersion, VersionLoop
  <1> QED
    BY <1>1, ClassTaken, ClassPassed, Zenon

LEMMA AwaitVersionWorker ==
  ASSUME WorkerTyped, NEW n \in Nodes, AwaitVersion(n)
  PROVE  WorkerTyped'
  <1>1. /\ UNCHANGED pc
        /\ \/ NextClass(n)
           \/ tries[n] < MaxTries /\ tries' = [tries EXCEPT ![n] = @ + 1] /\ UNCHANGED <<todo, target>>
    BY DEF AwaitVersion
  <1> QED
    BY <1>1, ClassLeft, AskedAgain, Zenon

LEMMA AskedOnceMore ==
  ASSUME HistoryTyped, NEW n \in Nodes, NEW c \in Classes, GetVersion(n, c) \/ UNCHANGED asked
  PROVE  asked' \in [Nodes -> [Classes -> Nat]]
  BY SMTT(60) DEF HistoryTyped, GetVersion

LEMMA AskVersionHistory ==
  ASSUME HistoryTyped, NEW n \in Nodes, NEW c \in Classes, AskVersion(n, c)
  PROVE  HistoryTyped'
  <1>1. (GetVersion(n, c) \/ UNCHANGED asked) /\ UNCHANGED <<decoded, completed, dropped>>
    BY DEF AskVersion, VersionLoop
  <1> QED
    BY <1>1, AskedOnceMore DEF HistoryTyped

LEMMA AwaitVersionHistory ==
  ASSUME HistoryTyped, NEW n \in Nodes, target[n] \in Classes, AwaitVersion(n)
  PROVE  HistoryTyped'
  <1>1. (GetVersion(n, target[n]) \/ UNCHANGED asked) /\ UNCHANGED <<decoded, completed, dropped>>
    BY DEF AwaitVersion, NextClass
  <1> QED
    BY <1>1, AskedOnceMore DEF HistoryTyped

LEMMA JobDoneTyped ==
  ASSUME Typed, NEW n \in Nodes, JobDone(n)
  PROVE  Typed'
  <1> USE DEF Typed, JobDone, Dispatches, node, worker, bounds, history
  <1>1. ThreadsTyped'
    BY QueueFacts, NodeIdsFacts DEF ThreadsTyped
  <1> QED
    BY <1>1 DEF NodeTyped, WorkerTyped, NetworkTyped, HistoryTyped

LEMMA JobStartsTyped ==
  ASSUME Typed, NEW n \in Nodes, JobStarts(n)
  PROVE  Typed'
  <1> USE DEF Typed, JobStarts, Dispatches, node, worker, bounds, history
  <1>1. ThreadsTyped'
    BY QueueFacts, NodeIdsFacts DEF ThreadsTyped
  <1> QED
    BY <1>1 DEF NodeTyped, WorkerTyped, NetworkTyped, HistoryTyped

LEMMA JobCollectedTyped ==
  ASSUME Typed, NEW n \in Nodes, JobCollected(n)
  PROVE  Typed'
  <1> USE DEF Typed, JobCollected, Dispatches, node, worker, bounds, history
  <1>1. ThreadsTyped'
    BY QueueFacts, NodeIdsFacts DEF ThreadsTyped
  <1> QED
    BY <1>1 DEF NodeTyped, WorkerTyped, NetworkTyped, HistoryTyped

LEMMA JobPendingTyped ==
  ASSUME Typed, NEW n \in Nodes, JobPending(n)
  PROVE  Typed'
  <1> USE DEF Typed, JobPending, Dispatches, node, worker, bounds, history
  <1>1. ThreadsTyped'
    BY QueueFacts, NodeIdsFacts DEF ThreadsTyped
  <1> QED
    BY <1>1 DEF NodeTyped, WorkerTyped, NetworkTyped, HistoryTyped

LEMMA RequestNodeProtocolInfoTyped ==
  ASSUME Typed, RequestNodeProtocolInfo
  PROVE  Typed'
  <1> USE DEF Typed, RequestNodeProtocolInfo, SetInterviewState, worker, iface, bounds, history
  <1>1. NodeTyped'
    BY QueueFacts, NodeIdsFacts DEF NodeTyped, ThreadsTyped, InterviewState
  <1>2. ThreadsTyped'
    BY QueueFacts, NodeIdsFacts DEF ThreadsTyped
  <1> QED
    BY <1>1, <1>2 DEF WorkerTyped, NetworkTyped, HistoryTyped

LEMMA JobCompletesTyped ==
  ASSUME Typed, JobCompletes
  PROVE  Typed'
  <1> USE DEF Typed, JobCompletes, SetInterviewState, worker, iface, bounds
  <1>1. NodeTyped'
    BY QueueFacts, NodeIdsFacts DEF NodeTyped, ThreadsTyped, InterviewState
  <1>2. ThreadsTyped'
    BY QueueFacts, NodeIdsFacts DEF ThreadsTyped
  <1>3. HistoryTyped'
    <2>1. Head(jobQueue) \in Nodes
      BY QueueFacts DEF ThreadsTyped
    <2>2. completed' \in [Nodes -> Nat]
      BY <2>1, OneMore DEF HistoryTyped
    <2> QED
      BY <2>2 DEF HistoryTyped
  <1> QED
    BY <1>1, <1>2, <1>3 DEF WorkerTyped, NetworkTyped

LEMMA JobTimeoutTyped ==
  ASSUME Typed, JobTimeout
  PROVE  Typed'
  <1> USE DEF Typed, JobTimeout, JobExpires, node, worker, iface, bounds
  <1>1. ThreadsTyped'
    BY QueueFacts, NodeIdsFacts DEF ThreadsTyped
  <1>2. HistoryTyped'
    <2>1. Head(jobQueue) \in Nodes
      BY QueueFacts DEF ThreadsTyped
    <2> QED
      BY <2>1 DEF HistoryTyped
  <1> QED
    BY <1>1, <1>2 DEF NodeTyped, WorkerTyped, NetworkTyped

LEMMA CallStartInterviewTyped ==
  ASSUME Typed, CallStartInterview
  PROVE  Typed'
  <1> USE NodeInterviewAssumption DEF Typed, CallStartInterview, node, worker, iface, history
  <1>1. ThreadsTyped'
    BY QueueFacts, NodeIdsFacts DEF ThreadsTyped
  <1>2. NetworkTyped'
    BY FrameFacts, OneLess DEF NetworkTyped, ThreadsTyped, WorkerTyped
  <1> QED
    BY <1>1, <1>2 DEF NodeTyped, WorkerTyped, HistoryTyped

LEMMA StartInterviewTyped ==
  ASSUME Typed, StartInterview
  PROVE  Typed'
  <1> USE DEF Typed, StartInterview, SetInterviewState, worker, iface, bounds, history
  <1>1. NodeTyped'
    BY QueueFacts, NodeIdsFacts DEF NodeTyped, ThreadsTyped, InterviewState
  <1>2. ThreadsTyped'
    BY QueueFacts, NodeIdsFacts DEF ThreadsTyped
  <1> QED
    BY <1>1, <1>2 DEF WorkerTyped, NetworkTyped, HistoryTyped

LEMMA HandleProtocolInfoTyped ==
  ASSUME Typed, HandleProtocolInfo
  PROVE  Typed'
  <1> USE DEF Typed, HandleProtocolInfo, SetInterviewState, worker, jobs, bounds, history
  <1>1. NodeTyped'
    <2>1. activeNode \in Nodes
      BY DEF ThreadsTyped
    <2>2. (IF Head(requests) \in Listening THEN TRUE ELSE awake[activeNode] /\ isListening[activeNode])
            \in BOOLEAN
      BY Zenon
    <2>3. awake' \in [Nodes -> BOOLEAN]
      BY <2>1, <2>2 DEF NodeTyped
    <2>4. isListening' \in [Nodes -> BOOLEAN]
      BY <2>1 DEF NodeTyped
    <2> QED
      BY <2>1, <2>3, <2>4 DEF NodeTyped, InterviewState
  <1>2. ThreadsTyped'
    BY QueueFacts, NodeIdsFacts DEF ThreadsTyped
  <1> QED
    BY <1>1, <1>2 DEF WorkerTyped, NetworkTyped, HistoryTyped

LEMMA LookAtActiveNodeTyped ==
  ASSUME Typed, LookAtActiveNode
  PROVE  Typed'
  <1> USE DEF Typed, LookAtActiveNode, node, worker, jobs, bounds, history
  <1>1. ThreadsTyped'
    BY QueueFacts, NodeIdsFacts DEF ThreadsTyped
  <1> QED
    BY <1>1 DEF NodeTyped, WorkerTyped, NetworkTyped, HistoryTyped

LEMMA RequestNodeInformationTyped ==
  ASSUME Typed, RequestNodeInformation
  PROVE  Typed'
  <1> USE DEF Typed, RequestNodeInformation, SetInterviewState, worker, jobs, bounds, history
  <1>1. NodeTyped'
    BY QueueFacts, NodeIdsFacts DEF NodeTyped, ThreadsTyped, InterviewState
  <1>2. ThreadsTyped'
    BY QueueFacts, NodeIdsFacts DEF ThreadsTyped
  <1>3. NetworkTyped'
    BY FrameFacts, OneLess DEF NetworkTyped, ThreadsTyped, WorkerTyped
  <1> QED
    BY <1>1, <1>2, <1>3 DEF WorkerTyped, HistoryTyped

LEMMA DecodeNodeInfoTyped ==
  ASSUME Typed, DecodeNodeInfo
  PROVE  Typed'
  <1> USE DEF Typed, DecodeNodeInfo, worker, jobs, bounds, history
  <1>1. NodeTyped'
    BY QueueFacts, NodeIdsFacts DEF NodeTyped, ThreadsTyped, InterviewState
  <1>2. ThreadsTyped'
    BY QueueFacts, NodeIdsFacts DEF ThreadsTyped
  <1> QED
    BY <1>1, <1>2 DEF WorkerTyped, NetworkTyped, HistoryTyped

LEMMA BeginSetNIFTyped ==
  ASSUME Typed, BeginSetNIF
  PROVE  Typed'
  <1> USE DEF Typed, BeginSetNIF, SetInterviewState, worker, jobs, bounds
  <1>1. NodeTyped'
    BY QueueFacts, NodeIdsFacts DEF NodeTyped, ThreadsTyped, InterviewState
  <1>2. ThreadsTyped'
    BY QueueFacts, NodeIdsFacts DEF ThreadsTyped
  <1>3. HistoryTyped'
    <2>1. decoding \in Nodes
      BY DEF ThreadsTyped
    <2>2. decoded' \in [Nodes -> Nat]
      BY <2>1, OneMore DEF HistoryTyped
    <2> QED
      BY <2>2 DEF HistoryTyped
  <1> QED
    BY <1>1, <1>2, <1>3 DEF WorkerTyped, NetworkTyped

LEMMA EndSetNIFTyped ==
  ASSUME Typed, EndSetNIF
  PROVE  Typed'
  <1> USE NodeInterviewAssumption
      DEF Typed, EndSetNIF, SetInterviewState, worker, jobs, bounds, history
  <1>1. NodeTyped'
    BY QueueFacts, NodeIdsFacts DEF NodeTyped, ThreadsTyped, InterviewState
  <1>2. ThreadsTyped'
    BY QueueFacts, NodeIdsFacts DEF ThreadsTyped
  <1> QED
    BY <1>1, <1>2 DEF WorkerTyped, NetworkTyped, HistoryTyped

LEMMA HandleNIFFailedTyped ==
  ASSUME Typed, NEW n \in Nodes, HandleNIFFailed(n)
  PROVE  Typed'
  <1> USE NodeInterviewAssumption
      DEF Typed, HandleNIFFailed, Receives, AwaitsNIF, node, worker, jobs, history
  <1>1. ThreadsTyped'
    BY DEF ThreadsTyped
  <1>2. NetworkTyped'
    BY OneLess DEF NetworkTyped
  <1> QED
    BY <1>1, <1>2 DEF NodeTyped, WorkerTyped, HistoryTyped

LEMMA RestoreNodeInfoPendingTyped ==
  ASSUME Typed, RestoreNodeInfoPending
  PROVE  Typed'
  <1> USE DEF Typed, RestoreNodeInfoPending, SetInterviewState, worker, jobs, bounds, history
  <1>1. NodeTyped'
    BY DEF NodeTyped, ThreadsTyped, InterviewState
  <1>2. ThreadsTyped'
    BY DEF ThreadsTyped
  <1> QED
    BY <1>1, <1>2 DEF WorkerTyped, NetworkTyped, HistoryTyped

LEMMA HandleNIFTyped ==
  ASSUME Typed, NEW n \in Nodes, HandleNIF(n)
  PROVE  Typed'
  <1> USE DEF Typed, HandleNIF, Receives, node, worker, bounds, history
  <1>1. ThreadsTyped'
    BY QueueFacts, NodeIdsFacts DEF ThreadsTyped
  <1>2. NetworkTyped'
    BY FrameFacts, OneLess DEF NetworkTyped, ThreadsTyped, WorkerTyped
  <1> QED
    BY <1>1, <1>2 DEF NodeTyped, WorkerTyped, HistoryTyped

LEMMA HandleDeviceReportTyped ==
  ASSUME Typed, NEW n \in Nodes, HandleDeviceReport(n)
  PROVE  Typed'
  <1> USE DEF Typed, HandleDeviceReport, Receives, worker, iface, jobs, bounds, history
  <1>1. NodeTyped'
    BY QueueFacts, NodeIdsFacts DEF NodeTyped, ThreadsTyped, InterviewState
  <1>2. NetworkTyped'
    BY FrameFacts, OneLess DEF NetworkTyped, ThreadsTyped, WorkerTyped
  <1> QED
    BY <1>1, <1>2 DEF WorkerTyped, ThreadsTyped, HistoryTyped

LEMMA HandleVersionReportTyped ==
  ASSUME Typed, NEW n \in Nodes, NEW c \in Classes, HandleVersionReport(n, c)
  PROVE  Typed'
  <1> USE DEF Typed, HandleVersionReport, Receives, worker, iface, jobs, bounds, history
  <1>1. NodeTyped'
    BY QueueFacts, NodeIdsFacts DEF NodeTyped, ThreadsTyped, InterviewState
  <1>2. NetworkTyped'
    BY FrameFacts, OneLess DEF NetworkTyped, ThreadsTyped, WorkerTyped
  <1> QED
    BY <1>1, <1>2 DEF WorkerTyped, ThreadsTyped, HistoryTyped

LEMMA ReadInterviewStateTyped ==
  ASSUME Typed, NEW n \in Nodes, ReadInterviewState(n)
  PROVE  Typed'
  <1> USE DEF Typed, ReadInterviewState, Goto, node, iface, jobs, bounds, history
  <1>1. WorkerTyped'
    BY DEF WorkerTyped, NodeTyped, WorkedOn, Classes, NoClass
  <1> QED
    BY <1>1 DEF NodeTyped, ThreadsTyped, NetworkTyped, HistoryTyped

LEMMA BeginVersionsTyped ==
  ASSUME Typed, NEW n \in Nodes, BeginVersions(n)
  PROVE  Typed'
  <1> USE DEF Typed, BeginVersions, Goto, iface, jobs, bounds, history
  <1>1. NodeTyped'
    <2>1. Enter(n, "CCVersionPending") \/ SetInterviewState(n, "CCVersionDone")
      OBVIOUS
    <2> QED
      BY <2>1, StateType DEF NodeTyped, InterviewState
  <1>2. WorkerTyped'
    BY DEF WorkerTyped, NodeTyped, WorkedOn, Classes, NoClass
  <1> QED
    BY <1>1, <1>2 DEF ThreadsTyped, NetworkTyped, HistoryTyped

LEMMA AskVersionTyped ==
  ASSUME Typed, NEW n \in Nodes, NEW c \in Classes, AskVersion(n, c)
  PROVE  Typed'
  <1> USE DEF Typed, AskVersion, VersionLoop, GetVersion, iface, jobs, bounds
  <1>1. WorkerTyped'
    BY AskVersionWorker
  <1>2. NetworkTyped'
    BY FrameFacts, OneLess DEF NetworkTyped, ThreadsTyped, WorkerTyped
  <1>3. HistoryTyped'
    BY AskVersionHistory
  <1> QED
    BY <1>1, <1>2, <1>3 DEF NodeTyped, ThreadsTyped

LEMMA EndVersionsTyped ==
  ASSUME Typed, NEW n \in Nodes, EndVersions(n)
  PROVE  Typed'
  <1> USE DEF Typed, EndVersions, VersionLoop, Goto, SetInterviewState, iface, jobs, bounds
  <1>1. NodeTyped'
    BY QueueFacts, NodeIdsFacts DEF NodeTyped, ThreadsTyped, InterviewState
  <1>2. WorkerTyped'
    BY DEF WorkerTyped, NodeTyped, WorkedOn, Classes, NoClass
  <1> QED
    BY <1>1, <1>2 DEF ThreadsTyped, NetworkTyped, HistoryTyped

LEMMA AwaitVersionTyped ==
  ASSUME Typed, NEW n \in Nodes, AwaitVersion(n)
  PROVE  Typed'
  <1> USE DEF Typed, AwaitVersion, NextClass, GetVersion, node, iface, jobs, bounds
  <1>1. WorkerTyped'
    BY AwaitVersionWorker
  <1>2. NetworkTyped'
    BY FrameFacts, OneLess DEF NetworkTyped, ThreadsTyped, WorkerTyped
  <1>3. HistoryTyped'
    BY AwaitVersionHistory DEF WorkerTyped
  <1> QED
    BY <1>1, <1>2, <1>3 DEF NodeTyped, ThreadsTyped

LEMMA BeginManufacturerTyped ==
  ASSUME Typed, NEW n \in Nodes, BeginManufacturer(n)
  PROVE  Typed'
  <1> USE NodeInterviewAssumption
      DEF Typed, BeginManufacturer, Goto, node, worker, iface, jobs, bounds, history
  <1>1. NodeTyped'
    <2>1. Enter(n, "CCMnfcSpecPending") \/ SetInterviewState(n, "CCMnfcSpecDone")
      OBVIOUS
    <2> QED
      BY <2>1, StateType DEF NodeTyped, InterviewState
  <1>2. WorkerTyped'
    BY ZenonT(60) DEF WorkerTyped, NodeTyped, WorkedOn, Classes, NoClass
  <1>3. NetworkTyped'
    BY FrameFacts, OneLess DEF NetworkTyped, ThreadsTyped, WorkerTyped
  <1> QED
    BY <1>1, <1>2, <1>3 DEF ThreadsTyped, HistoryTyped

LEMMA EndManufacturerTyped ==
  ASSUME Typed, NEW n \in Nodes, EndManufacturer(n)
  PROVE  Typed'
  <1> USE DEF Typed, EndManufacturer, Goto, SetInterviewState, iface, jobs, bounds, history
  <1>1. NodeTyped'
    <2>1. interviewState' = [interviewState EXCEPT ![n] = "CCMnfcSpecDone"]
          \/ UNCHANGED interviewState
      BY Zenon
    <2> QED
      BY <2>1 DEF NodeTyped, InterviewState
  <1>2. WorkerTyped'
    BY DEF WorkerTyped, NodeTyped, WorkedOn, Classes, NoClass
  <1> QED
    BY <1>1, <1>2 DEF ThreadsTyped, NetworkTyped, HistoryTyped

LEMMA BeginMultiChannelTyped ==
  ASSUME Typed, NEW n \in Nodes, BeginMultiChannel(n)
  PROVE  Typed'
  <1> USE DEF Typed, BeginMultiChannel, Goto, iface, jobs, bounds, history
  <1>1. NodeTyped'
    <2>1. Enter(n, "CCMultiChannelPending") \/ SetInterviewState(n, "CCMultiChannelDone")
      OBVIOUS
    <2> QED
      BY <2>1, StateType DEF NodeTyped, InterviewState
  <1>2. WorkerTyped'
    BY DEF WorkerTyped, NodeTyped, WorkedOn, Classes, NoClass
  <1> QED
    BY <1>1, <1>2 DEF ThreadsTyped, NetworkTyped, HistoryTyped

LEMMA EndMultiChannelTyped ==
  ASSUME Typed, NEW n \in Nodes, EndMultiChannel(n)
  PROVE  Typed'
  <1> USE DEF Typed, EndMultiChannel, Goto, SetInterviewState, iface, jobs, bounds, history
  <1>1. NodeTyped'
    BY QueueFacts, NodeIdsFacts DEF NodeTyped, ThreadsTyped, InterviewState
  <1>2. WorkerTyped'
    BY DEF WorkerTyped, NodeTyped, WorkedOn, Classes, NoClass
  <1> QED
    BY <1>1, <1>2 DEF ThreadsTyped, NetworkTyped, HistoryTyped

LEMMA GoToSleepTyped ==
  ASSUME Typed, NEW n \in Nodes, GoToSleep(n)
  PROVE  Typed'
  <1> USE DEF Typed, GoToSleep, Goto, iface, jobs, bounds, history
  <1>1. NodeTyped'
    BY QueueFacts, NodeIdsFacts DEF NodeTyped, ThreadsTyped, InterviewState
  <1>2. WorkerTyped'
    BY DEF WorkerTyped, NodeTyped, WorkedOn, Classes, NoClass
  <1> QED
    BY <1>1, <1>2 DEF ThreadsTyped, NetworkTyped, HistoryTyped

LEMMA SendNIFTyped ==
  ASSUME Typed, NEW n \in Nodes, SendNIF(n)
  PROVE  Typed'
  <1> USE NodeInterviewAssumption DEF Typed, SendNIF, node, worker, iface, jobs, bounds, history
  <1>1. NetworkTyped'
    BY FrameFacts, OneLess DEF NetworkTyped, ThreadsTyped, WorkerTyped
  <1> QED
    BY <1>1 DEF NodeTyped, WorkerTyped, ThreadsTyped, HistoryTyped

LEMMA LoseNIFTyped ==
  ASSUME Typed, NEW n \in Nodes, LoseNIF(n)
  PROVE  Typed'
  <1> USE NodeInterviewAssumption DEF Typed, LoseNIF, node, worker, iface, jobs, bounds, history
  <1>1. NetworkTyped'
    BY FrameFacts, OneLess DEF NetworkTyped, ThreadsTyped, WorkerTyped
  <1> QED
    BY <1>1 DEF NodeTyped, WorkerTyped, ThreadsTyped, HistoryTyped

LEMMA LoseReportTyped ==
  ASSUME Typed, NEW f \in wire, LoseReport(f)
  PROVE  Typed'
  <1> USE NodeInterviewAssumption
      DEF Typed, LoseReport, node, worker, iface, jobs, bounds, history
  <1>1. NetworkTyped'
    BY FrameFacts, OneLess DEF NetworkTyped, ThreadsTyped, WorkerTyped
  <1> QED
    BY <1>1 DEF NodeTyped, WorkerTyped, ThreadsTyped, HistoryTyped

LEMMA LoseProtocolInfoTyped ==
  ASSUME Typed, LoseProtocolInfo
  PROVE  Typed'
  <1> USE NodeInterviewAssumption
      DEF Typed, LoseProtocolInfo, node, worker, iface, jobs, history
  <1>1. ThreadsTyped'
    BY QueueFacts, NodeIdsFacts DEF ThreadsTyped
  <1>2. NetworkTyped'
    BY FrameFacts, OneLess DEF NetworkTyped, ThreadsTyped, WorkerTyped
  <1> QED
    BY <1>1, <1>2 DEF NodeTyped, WorkerTyped, HistoryTyped

LEMMA RejectNIFTyped ==
  ASSUME Typed, RejectNIF
  PROVE  Typed'
  <1> USE NodeInterviewAssumption
      DEF Typed, RejectNIF, node, worker, iface, jobs, bounds, history
  <1>1. NodeTyped'
    BY QueueFacts, NodeIdsFacts DEF NodeTyped, ThreadsTyped, InterviewState
  <1>2. ThreadsTyped'
    BY QueueFacts, NodeIdsFacts DEF ThreadsTyped
  <1>3. NetworkTyped'
    BY FrameFacts, OneLess DEF NetworkTyped, ThreadsTyped, WorkerTyped
  <1> QED
    BY <1>1, <1>2, <1>3 DEF WorkerTyped, HistoryTyped

-----------------------------------------------------------------------------
\* The phases of an interview, in the node's worker and in its interview state.
Phases == {"NodeInfoDone", "CCVersionPending", "CCVersionDone", "CCMnfcSpecPending",
           "CCMnfcSpecDone", "CCMultiChannelPending"}

InPhase(n) == pc[n] \in Phases \cup {"versions", "manufacturer", "multiChannel"}

Decoding(n)   == rx = "setNIF" /\ decoding = n
Completing(n) == jobStep = "complete" /\ Head(jobQueue) = n

\* The worker has phases of an interview before it, or has just seen the last.
Working(n) ==
  \/ InPhase(n)
  \/ interviewState[n] \in Phases
  \/ interviewState[n] = "CCMultiChannelDone" /\ ~Completing(n)

One(b) == IF b THEN 1 ELSE 0

\* Each NIF that was decoded is still being decoded, or moves the worker, or the
\* job worker is about to complete the interview with it, or did so, or was
\* overwritten.
NIFsAccount ==
  \A n \in Nodes :
    /\ completed[n] + One(Decoding(n)) + One(Working(n)) + One(Completing(n)) <= decoded[n]
    /\ interviewState[n] = "CCMultiChannelDone" => pc[n] = "loop"


\* A step that moves no NIF on keeps the account.
LEMMA AccountKept ==
  ASSUME Typed, NIFsAccount, UNCHANGED <<completed, decoded>>,
         \A n \in Nodes :
           /\ Decoding(n)' => Decoding(n)
           /\ Completing(n)' <=> Completing(n)
           /\ Working(n)' => Working(n)
           /\ interviewState'[n] = "CCMultiChannelDone" => pc'[n] = "loop"
  PROVE  NIFsAccount'
  <1> SUFFICES ASSUME NEW n \in Nodes
               PROVE  completed[n] + One(Decoding(n)') + One(Working(n)') + One(Completing(n)')
                        <= decoded[n]
    BY DEF NIFsAccount, One
  <1>1. /\ completed[n] \in Nat /\ decoded[n] \in Nat
        /\ completed[n] + One(Decoding(n)) + One(Working(n)) + One(Completing(n)) <= decoded[n]
    BY DEF Typed, HistoryTyped, NIFsAccount
  <1> HIDE DEF NIFsAccount, Decoding, Completing, Working
  <1>2. One(Decoding(n)') <= One(Decoding(n)) /\ One(Decoding(n)') \in Nat /\ One(Decoding(n)) \in Nat
    BY DEF One
  <1>3. One(Completing(n)') = One(Completing(n)) /\ One(Completing(n)) \in Nat
    BY DEF One
  <1>4. One(Working(n)') <= One(Working(n)) /\ One(Working(n)') \in Nat /\ One(Working(n)) \in Nat
    BY DEF One
  <1> QED
    BY <1>1, <1>2, <1>3, <1>4

\* In it, one node at most gets another state or phase.
LEMMA NodeMoves ==
  ASSUME Typed, NIFsAccount, NEW n \in Nodes, NEW s \in InterviewState, NEW l,
         \/ interviewState' = [interviewState EXCEPT ![n] = s]
         \/ UNCHANGED interviewState /\ s = interviewState[n],
         \/ pc' = [pc EXCEPT ![n] = l]
         \/ UNCHANGED pc /\ l = pc[n],
         UNCHANGED <<completed, decoded>>,
         \A m \in Nodes : (Decoding(m)' => Decoding(m)) /\ (Completing(m)' <=> Completing(m)),
         (\/ l \in Phases \cup {"versions", "manufacturer", "multiChannel"}
          \/ s \in Phases
          \/ s = "CCMultiChannelDone") => Working(n),
         s = "CCMultiChannelDone" => l = "loop"
  PROVE  NIFsAccount'
  <1>1. /\ \A m \in Nodes \ {n} : interviewState'[m] = interviewState[m] /\ pc'[m] = pc[m]
        /\ interviewState'[n] = s /\ pc'[n] = l
    BY DEF Typed, NodeTyped, WorkerTyped
  <1>2. \A m \in Nodes : Working(m)' => Working(m)
    <2> SUFFICES ASSUME NEW m \in Nodes, Working(m)' PROVE Working(m)
      OBVIOUS
    <2>1. Completing(m)' <=> Completing(m)
      OBVIOUS
    <2> HIDE DEF Completing
    <2>2. CASE m = n
      BY <1>1, <2>1, <2>2 DEF Working, InPhase
    <2>3. CASE m # n
      BY <1>1, <2>1, <2>3 DEF Working, InPhase
    <2> QED
      BY <2>2, <2>3
  <1>3. \A m \in Nodes : interviewState'[m] = "CCMultiChannelDone" => pc'[m] = "loop"
    BY <1>1 DEF NIFsAccount
  <1> QED
    BY <1>2, <1>3, AccountKept

LEMMA JobDoneAccounts ==
  ASSUME Typed, NIFsAccount, NEW n \in Nodes, JobDone(n)
  PROVE  NIFsAccount'
  BY DEF NIFsAccount, Decoding, Completing, Working, InPhase, JobDone, Dispatches, node,
         worker, history

LEMMA JobStartsAccounts ==
  ASSUME Typed, NIFsAccount, NEW n \in Nodes, JobStarts(n)
  PROVE  NIFsAccount'
  BY DEF NIFsAccount, Decoding, Completing, Working, InPhase, JobStarts, Dispatches, node,
         worker, history

LEMMA JobCollectedAccounts ==
  ASSUME Typed, NIFsAccount, NEW n \in Nodes, JobCollected(n)
  PROVE  NIFsAccount'
  <1>1. /\ jobQueue # <<>> /\ n = Head(jobQueue) /\ jobStep = "dispatch" /\ jobStep' = "complete"
        /\ interviewState[n] = "CCMultiChannelDone" /\ pc[n] = "loop"
        /\ UNCHANGED <<jobQueue, rx, decoding, completed, decoded, interviewState, pc>>
    BY DEF JobCollected, Dispatches, node, worker, history, NIFsAccount
  <1>2. \A m \in Nodes : /\ Decoding(m)' = Decoding(m)
                         /\ Completing(m)' <=> m = n
                         /\ ~Completing(m)
    BY <1>1 DEF Decoding, Completing
  <1>3. Working(n) /\ ~Working(n)'
    BY <1>1, <1>2 DEF Working, InPhase, Phases
  <1>4. \A m \in Nodes \ {n} : Working(m)' <=> Working(m)
    BY <1>1, <1>2 DEF Working, InPhase
  <1> QED
    BY <1>1, <1>2, <1>3, <1>4 DEF NIFsAccount, One, Typed, HistoryTyped

LEMMA JobPendingAccounts ==
  ASSUME Typed, NIFsAccount, NEW n \in Nodes, JobPending(n)
  PROVE  NIFsAccount'
  BY DEF NIFsAccount, Decoding, Completing, Working, InPhase, JobPending, Dispatches, node,
         worker, history

LEMMA RequestNodeProtocolInfoAccounts ==
  ASSUME Typed, NIFsAccount, RequestNodeProtocolInfo
  PROVE  NIFsAccount'
  <1>1. UNCHANGED <<completed, decoded>>
    BY DEF RequestNodeProtocolInfo, SetInterviewState, node, worker, iface, jobs, bounds,
           history
  <1>2. \A m \in Nodes : (Decoding(m)' => Decoding(m)) /\ (Completing(m)' <=> Completing(m))
    BY DEF RequestNodeProtocolInfo, iface, Decoding, Completing
  <1>3. Head(jobQueue) \in Nodes /\ interviewState' = [interviewState EXCEPT ![Head(jobQueue)] = "ProtocolInfoPending"] /\ UNCHANGED pc
    BY DEF RequestNodeProtocolInfo, SetInterviewState, worker, Typed, ThreadsTyped
  <1>4. "ProtocolInfoPending" \in InterviewState /\ "ProtocolInfoPending" \notin Phases
    BY DEF InterviewState, Phases
  <1>5. pc[Head(jobQueue)] \in Phases \cup {"versions", "manufacturer", "multiChannel"} => Working(Head(jobQueue))
    BY DEF Working, InPhase
  <1> QED
    BY <1>1, <1>2, <1>3, <1>4, <1>5, NodeMoves

LEMMA JobCompletesAccounts ==
  ASSUME Typed, NIFsAccount, JobCompletes
  PROVE  NIFsAccount'
  <1> DEFINE n == Head(jobQueue)
  <1>1. /\ jobStep = "complete" /\ jobStep' = "dispatch" /\ n \in Nodes
        /\ interviewState' = [interviewState EXCEPT ![n] = "InterviewDone"]
        /\ completed' = [completed EXCEPT ![n] = @ + 1]
        /\ UNCHANGED <<jobQueue, rx, decoding, decoded, pc>>
    BY QueueFacts DEF JobCompletes, SetInterviewState, worker, iface, Typed, ThreadsTyped
  <1>2. \A m \in Nodes : /\ Decoding(m)' = Decoding(m)
                         /\ Completing(m) <=> m = n
                         /\ ~Completing(m)'
    BY <1>1 DEF Decoding, Completing
  <1> HIDE DEF n
  <1>3. /\ \A m \in Nodes \ {n} : interviewState'[m] = interviewState[m] /\ completed'[m] = completed[m]
        /\ interviewState'[n] = "InterviewDone" /\ completed'[n] = completed[n] + 1
    BY <1>1 DEF Typed, NodeTyped, HistoryTyped
  <1>4. \A m \in Nodes : Working(m)' => Working(m)
    BY <1>1, <1>2, <1>3 DEF Working, InPhase, Phases
  <1>5. \A m \in Nodes : interviewState'[m] = "CCMultiChannelDone" => pc'[m] = "loop"
    BY <1>1, <1>3 DEF NIFsAccount
  <1> QED
    BY <1>1, <1>2, <1>3, <1>4, <1>5 DEF NIFsAccount, One, Typed, HistoryTyped

LEMMA JobTimeoutAccounts ==
  ASSUME Typed, NIFsAccount, JobTimeout
  PROVE  NIFsAccount'
  BY DEF NIFsAccount, Decoding, Completing, Working, InPhase, JobTimeout, JobExpires, node,
         worker, iface

LEMMA CallStartInterviewAccounts ==
  ASSUME Typed, NIFsAccount, CallStartInterview
  PROVE  NIFsAccount'
  BY DEF NIFsAccount, Decoding, Completing, Working, InPhase, CallStartInterview, node, worker,
         iface, history

LEMMA StartInterviewAccounts ==
  ASSUME Typed, NIFsAccount, StartInterview
  PROVE  NIFsAccount'
  <1>1. UNCHANGED <<completed, decoded>>
    BY DEF StartInterview, SetInterviewState, node, worker, iface, jobs, bounds, history
  <1>2. \A m \in Nodes : (Decoding(m)' => Decoding(m)) /\ (Completing(m)' <=> Completing(m))
    BY DEF StartInterview, iface, Decoding, Completing, Typed, ThreadsTyped
  <1>3. NodeIds[startAt] \in Nodes /\ interviewState' = [interviewState EXCEPT ![NodeIds[startAt]] = "NotInterviewed"] /\ UNCHANGED pc
    BY NodeIdsFacts DEF StartInterview, SetInterviewState, worker, Typed, ThreadsTyped
  <1>4. "NotInterviewed" \in InterviewState /\ "NotInterviewed" \notin Phases
    BY DEF InterviewState, Phases
  <1>5. pc[NodeIds[startAt]] \in Phases \cup {"versions", "manufacturer", "multiChannel"} => Working(NodeIds[startAt])
    BY DEF Working, InPhase
  <1> QED
    BY <1>1, <1>2, <1>3, <1>4, <1>5, NodeMoves

LEMMA HandleProtocolInfoAccounts ==
  ASSUME Typed, NIFsAccount, HandleProtocolInfo
  PROVE  NIFsAccount'
  <1>1. UNCHANGED <<completed, decoded>>
    BY DEF HandleProtocolInfo, SetInterviewState, node, worker, iface, jobs, bounds, history
  <1>2. \A m \in Nodes : (Decoding(m)' => Decoding(m)) /\ (Completing(m)' <=> Completing(m))
    BY DEF HandleProtocolInfo, jobs, Decoding, Completing
  <1>3. activeNode \in Nodes /\ interviewState' = [interviewState EXCEPT ![activeNode] = "ProtocolInfoDone"] /\ UNCHANGED pc
    BY DEF HandleProtocolInfo, SetInterviewState, worker, Typed, ThreadsTyped
  <1>4. "ProtocolInfoDone" \in InterviewState /\ "ProtocolInfoDone" \notin Phases
    BY DEF InterviewState, Phases
  <1>5. pc[activeNode] \in Phases \cup {"versions", "manufacturer", "multiChannel"} => Working(activeNode)
    BY DEF Working, InPhase
  <1> QED
    BY <1>1, <1>2, <1>3, <1>4, <1>5, NodeMoves

LEMMA LookAtActiveNodeAccounts ==
  ASSUME Typed, NIFsAccount, LookAtActiveNode
  PROVE  NIFsAccount'
  BY DEF NIFsAccount, Decoding, Completing, Working, InPhase, LookAtActiveNode, node, worker,
         jobs, history

LEMMA RequestNodeInformationAccounts ==
  ASSUME Typed, NIFsAccount, RequestNodeInformation
  PROVE  NIFsAccount'
  <1>1. UNCHANGED <<completed, decoded>>
    BY DEF RequestNodeInformation, SetInterviewState, node, worker, iface, jobs, bounds, history
  <1>2. \A m \in Nodes : (Decoding(m)' => Decoding(m)) /\ (Completing(m)' <=> Completing(m))
    BY DEF RequestNodeInformation, jobs, Decoding, Completing
  <1>3. decoding \in Nodes /\ interviewState' = [interviewState EXCEPT ![decoding] = "NodeInfoPending"] /\ UNCHANGED pc
    BY DEF RequestNodeInformation, SetInterviewState, worker, Typed, ThreadsTyped
  <1>4. "NodeInfoPending" \in InterviewState /\ "NodeInfoPending" \notin Phases
    BY DEF InterviewState, Phases
  <1>5. pc[decoding] \in Phases \cup {"versions", "manufacturer", "multiChannel"} => Working(decoding)
    BY DEF Working, InPhase
  <1> QED
    BY <1>1, <1>2, <1>3, <1>4, <1>5, NodeMoves

LEMMA DecodeNodeInfoAccounts ==
  ASSUME Typed, NIFsAccount, DecodeNodeInfo
  PROVE  NIFsAccount'
  BY DEF NIFsAccount, Decoding, Completing, Working, InPhase, DecodeNodeInfo, worker, jobs,
         history

LEMMA BeginSetNIFAccounts ==
  ASSUME Typed, NIFsAccount, BeginSetNIF
  PROVE  NIFsAccount'
  <1> DEFINE n == decoding
  <1>1. /\ rx = "decode" /\ rx' = "setNIF" /\ n \in Nodes /\ decoding' = n
        /\ interviewState' = [interviewState EXCEPT ![n] = "NodeInfoPending"]
        /\ decoded' = [decoded EXCEPT ![n] = @ + 1]
        /\ UNCHANGED <<jobs, completed, pc>>
    BY DEF BeginSetNIF, SetInterviewState, worker, Typed, ThreadsTyped
  <1>2. \A m \in Nodes : /\ Decoding(m)' <=> m = n
                         /\ ~Decoding(m)
                         /\ Completing(m)' <=> Completing(m)
    BY <1>1 DEF Decoding, Completing, jobs
  <1> HIDE DEF n
  <1>3. /\ \A m \in Nodes \ {n} : interviewState'[m] = interviewState[m] /\ decoded'[m] = decoded[m]
        /\ interviewState'[n] = "NodeInfoPending" /\ decoded'[n] = decoded[n] + 1
    BY <1>1 DEF Typed, NodeTyped, HistoryTyped
  <1>4. \A m \in Nodes : Working(m)' => Working(m)
    BY <1>1, <1>2, <1>3 DEF Working, InPhase, Phases
  <1>5. \A m \in Nodes : interviewState'[m] = "CCMultiChannelDone" => pc'[m] = "loop"
    BY <1>1, <1>3 DEF NIFsAccount
  <1> QED
    BY <1>1, <1>2, <1>3, <1>4, <1>5 DEF NIFsAccount, One, Typed, HistoryTyped

LEMMA EndSetNIFAccounts ==
  ASSUME Typed, NIFsAccount, EndSetNIF
  PROVE  NIFsAccount'
  <1> DEFINE n == decoding
  <1>1. /\ rx = "setNIF" /\ rx' = "idle" /\ n \in Nodes
        /\ interviewState' = [interviewState EXCEPT ![n] = "NodeInfoDone"]
        /\ UNCHANGED <<jobs, completed, decoded, pc>>
    BY DEF EndSetNIF, SetInterviewState, worker, history, Typed, ThreadsTyped
  <1>2. \A m \in Nodes : /\ Decoding(m) <=> m = n
                         /\ ~Decoding(m)'
                         /\ Completing(m)' <=> Completing(m)
    BY <1>1 DEF Decoding, Completing, jobs
  <1> HIDE DEF n
  <1>3. /\ \A m \in Nodes \ {n} : interviewState'[m] = interviewState[m]
        /\ interviewState'[n] = "NodeInfoDone"
    BY <1>1 DEF Typed, NodeTyped
  <1>4. \A m \in Nodes \ {n} : Working(m)' => Working(m)
    BY <1>1, <1>2, <1>3 DEF Working, InPhase, Phases
  <1>5. \A m \in Nodes : interviewState'[m] = "CCMultiChannelDone" => pc'[m] = "loop"
    BY <1>1, <1>3 DEF NIFsAccount
  <1> QED
    BY <1>1, <1>2, <1>4, <1>5 DEF NIFsAccount, One, Typed, HistoryTyped

LEMMA HandleNIFFailedAccounts ==
  ASSUME Typed, NIFsAccount, NEW n \in Nodes, HandleNIFFailed(n)
  PROVE  NIFsAccount'
  BY DEF NIFsAccount, Decoding, Completing, Working, InPhase, HandleNIFFailed, Receives, node,
         worker, jobs, history

LEMMA RestoreNodeInfoPendingAccounts ==
  ASSUME Typed, NIFsAccount, RestoreNodeInfoPending
  PROVE  NIFsAccount'
  <1>1. UNCHANGED <<completed, decoded>>
    BY DEF RestoreNodeInfoPending, history
  <1>2. \A m \in Nodes : (Decoding(m)' => Decoding(m)) /\ (Completing(m)' <=> Completing(m))
    BY DEF RestoreNodeInfoPending, jobs, Decoding, Completing
  <1>3. /\ decoding \in Nodes /\ UNCHANGED pc
        /\ interviewState' = [interviewState EXCEPT ![decoding] = "NodeInfoPending"]
    BY DEF RestoreNodeInfoPending, SetInterviewState, worker, Typed, ThreadsTyped
  <1>4. "NodeInfoPending" \in InterviewState /\ "NodeInfoPending" \notin Phases
    BY DEF InterviewState, Phases
  <1>5. pc[decoding] \in Phases \cup {"versions", "manufacturer", "multiChannel"}
          => Working(decoding)
    BY DEF Working, InPhase
  <1> QED
    BY <1>1, <1>2, <1>3, <1>4, <1>5, NodeMoves

LEMMA HandleNIFAccounts ==
  ASSUME Typed, NIFsAccount, NEW n \in Nodes, HandleNIF(n)
  PROVE  NIFsAccount'
  <1>1. /\ UNCHANGED <<interviewState, pc, completed, decoded, jobStep>> /\ rx' = "nif"
        /\ jobQueue' = Append(jobQueue, n)
    BY DEF HandleNIF, Receives, node, worker, history
  <1>2. jobStep = "complete" => Head(jobQueue') = Head(jobQueue)
    BY <1>1, QueueFacts DEF Typed, ThreadsTyped
  <1>3. \A m \in Nodes : ~Decoding(m)' /\ (Completing(m)' <=> Completing(m))
    BY <1>1, <1>2 DEF Decoding, Completing
  <1> QED
    BY <1>1, <1>3, AccountKept DEF Working, InPhase, NIFsAccount

LEMMA HandleDeviceReportAccounts ==
  ASSUME Typed, NIFsAccount, NEW n \in Nodes, HandleDeviceReport(n)
  PROVE  NIFsAccount'
  BY DEF NIFsAccount, Decoding, Completing, Working, InPhase, HandleDeviceReport, worker,
         iface, jobs, history

LEMMA HandleVersionReportAccounts ==
  ASSUME Typed, NIFsAccount, NEW n \in Nodes, NEW c \in Classes, HandleVersionReport(n, c)
  PROVE  NIFsAccount'
  BY DEF NIFsAccount, Decoding, Completing, Working, InPhase, HandleVersionReport, worker,
         iface, jobs, history

LEMMA ReadInterviewStateAccounts ==
  ASSUME Typed, NIFsAccount, NEW n \in Nodes, ReadInterviewState(n)
  PROVE  NIFsAccount'
  <1>1. UNCHANGED <<completed, decoded>>
    BY DEF ReadInterviewState, Goto, node, worker, iface, jobs, bounds, history
  <1>2. \A m \in Nodes : (Decoding(m)' => Decoding(m)) /\ (Completing(m)' <=> Completing(m))
    BY DEF ReadInterviewState, iface, jobs, Decoding, Completing
  <1> QED
    BY <1>1, <1>2, NodeMoves
    DEF ReadInterviewState, Goto, node, Working, Phases, InterviewState, WorkedOn

LEMMA BeginVersionsAccounts ==
  ASSUME Typed, NIFsAccount, NEW n \in Nodes, BeginVersions(n)
  PROVE  NIFsAccount'
  <1>1. UNCHANGED <<completed, decoded>>
    BY DEF BeginVersions, history
  <1>2. \A m \in Nodes : (Decoding(m)' => Decoding(m)) /\ (Completing(m)' <=> Completing(m))
    BY DEF BeginVersions, iface, jobs, Decoding, Completing
  <1>3. pc[n] \in {"NodeInfoDone", "CCVersionPending"} /\ InPhase(n) /\ Working(n) /\ interviewState[n] # "CCMultiChannelDone"
    BY DEF BeginVersions, InPhase, Working, Phases, NIFsAccount
  <1>4. CASE Enter(n, "CCVersionPending") /\ Goto(n, "versions")
    <2>1. \/ interviewState' = [interviewState EXCEPT ![n] = "CCVersionPending"]
          \/ UNCHANGED interviewState
      BY <1>4 DEF Enter
    <2>2. interviewState[n] \in InterviewState /\ "CCVersionPending" \in InterviewState
      BY DEF Typed, NodeTyped, InterviewState
    <2> QED
      BY <1>1, <1>2, <1>3, <1>4, <2>1, <2>2, NodeMoves DEF Goto
  <1>5. CASE SetInterviewState(n, "CCVersionDone") /\ Goto(n, "loop")
    <2>1. "CCVersionDone" \in InterviewState
      BY DEF InterviewState
    <2> QED
      BY <1>1, <1>2, <1>3, <1>5, <2>1, NodeMoves DEF SetInterviewState, Goto
  <1> QED
    BY <1>4, <1>5 DEF BeginVersions

LEMMA AskVersionAccounts ==
  ASSUME Typed, NIFsAccount, NEW n \in Nodes, NEW c \in Classes, AskVersion(n, c)
  PROVE  NIFsAccount'
  BY DEF NIFsAccount, Decoding, Completing, Working, InPhase, AskVersion, VersionLoop, iface,
         jobs

LEMMA EndVersionsAccounts ==
  ASSUME Typed, NIFsAccount, NEW n \in Nodes, EndVersions(n)
  PROVE  NIFsAccount'
  <1>1. UNCHANGED <<completed, decoded>>
    BY DEF EndVersions, VersionLoop
  <1>2. \A m \in Nodes : (Decoding(m)' => Decoding(m)) /\ (Completing(m)' <=> Completing(m))
    BY DEF EndVersions, VersionLoop, iface, jobs, Decoding, Completing
  <1> QED
    BY <1>2, NodeMoves
    DEF EndVersions, VersionLoop, Goto, SetInterviewState, Working, InPhase, InterviewState

LEMMA AwaitVersionAccounts ==
  ASSUME Typed, NIFsAccount, NEW n \in Nodes, AwaitVersion(n)
  PROVE  NIFsAccount'
  BY DEF NIFsAccount, Decoding, Completing, Working, InPhase, AwaitVersion, node, iface, jobs

LEMMA BeginManufacturerAccounts ==
  ASSUME Typed, NIFsAccount, NEW n \in Nodes, BeginManufacturer(n)
  PROVE  NIFsAccount'
  <1>1. UNCHANGED <<completed, decoded>>
    BY DEF BeginManufacturer, history
  <1>2. \A m \in Nodes : (Decoding(m)' => Decoding(m)) /\ (Completing(m)' <=> Completing(m))
    BY DEF BeginManufacturer, iface, jobs, Decoding, Completing
  <1>3. pc[n] \in {"CCVersionDone", "CCMnfcSpecPending"} /\ InPhase(n) /\ Working(n) /\ interviewState[n] # "CCMultiChannelDone"
    BY DEF BeginManufacturer, InPhase, Working, Phases, NIFsAccount
  <1>4. CASE Enter(n, "CCMnfcSpecPending") /\ Goto(n, "manufacturer")
    <2>1. \/ interviewState' = [interviewState EXCEPT ![n] = "CCMnfcSpecPending"]
          \/ UNCHANGED interviewState
      BY <1>4 DEF Enter
    <2>2. interviewState[n] \in InterviewState /\ "CCMnfcSpecPending" \in InterviewState
      BY DEF Typed, NodeTyped, InterviewState
    <2> QED
      BY <1>1, <1>2, <1>3, <1>4, <2>1, <2>2, NodeMoves DEF Goto
  <1>5. CASE SetInterviewState(n, "CCMnfcSpecDone") /\ Goto(n, "loop")
    <2>1. "CCMnfcSpecDone" \in InterviewState
      BY DEF InterviewState
    <2> QED
      BY <1>1, <1>2, <1>3, <1>5, <2>1, NodeMoves DEF SetInterviewState, Goto
  <1> QED
    BY <1>4, <1>5 DEF BeginManufacturer

LEMMA EndManufacturerAccounts ==
  ASSUME Typed, NIFsAccount, NEW n \in Nodes, EndManufacturer(n)
  PROVE  NIFsAccount'
  <1>1. UNCHANGED <<completed, decoded>>
    BY DEF EndManufacturer, Goto, SetInterviewState, node, worker, iface, jobs, bounds, history
  <1>2. \A m \in Nodes : (Decoding(m)' => Decoding(m)) /\ (Completing(m)' <=> Completing(m))
    BY DEF EndManufacturer, iface, jobs, Decoding, Completing
  <1> QED
    BY <1>1, <1>2, NodeMoves
    DEF EndManufacturer, Goto, SetInterviewState, Typed, NodeTyped, Working, InPhase,
        InterviewState

LEMMA BeginMultiChannelAccounts ==
  ASSUME Typed, NIFsAccount, NEW n \in Nodes, BeginMultiChannel(n)
  PROVE  NIFsAccount'
  <1>1. UNCHANGED <<completed, decoded>>
    BY DEF BeginMultiChannel, history
  <1>2. \A m \in Nodes : (Decoding(m)' => Decoding(m)) /\ (Completing(m)' <=> Completing(m))
    BY DEF BeginMultiChannel, iface, jobs, Decoding, Completing
  <1>3. pc[n] \in {"CCMnfcSpecDone", "CCMultiChannelPending"} /\ InPhase(n) /\ Working(n) /\ interviewState[n] # "CCMultiChannelDone"
    BY DEF BeginMultiChannel, InPhase, Working, Phases, NIFsAccount
  <1>4. CASE Enter(n, "CCMultiChannelPending") /\ Goto(n, "multiChannel")
    <2>1. \/ interviewState' = [interviewState EXCEPT ![n] = "CCMultiChannelPending"]
          \/ UNCHANGED interviewState
      BY <1>4 DEF Enter
    <2>2. interviewState[n] \in InterviewState /\ "CCMultiChannelPending" \in InterviewState
      BY DEF Typed, NodeTyped, InterviewState
    <2> QED
      BY <1>1, <1>2, <1>3, <1>4, <2>1, <2>2, NodeMoves DEF Goto
  <1>5. CASE SetInterviewState(n, "CCMultiChannelDone") /\ Goto(n, "loop")
    <2>1. "CCMultiChannelDone" \in InterviewState
      BY DEF InterviewState
    <2> QED
      BY <1>1, <1>2, <1>3, <1>5, <2>1, NodeMoves DEF SetInterviewState, Goto
  <1> QED
    BY <1>4, <1>5 DEF BeginMultiChannel

LEMMA EndMultiChannelAccounts ==
  ASSUME Typed, NIFsAccount, NEW n \in Nodes, EndMultiChannel(n)
  PROVE  NIFsAccount'
  <1>1. UNCHANGED <<completed, decoded>>
    BY DEF EndMultiChannel, Goto, SetInterviewState, node, worker, iface, jobs, bounds, history
  <1>2. \A m \in Nodes : (Decoding(m)' => Decoding(m)) /\ (Completing(m)' <=> Completing(m))
    BY DEF EndMultiChannel, iface, jobs, Decoding, Completing
  <1> QED
    BY <1>1, <1>2, NodeMoves
    DEF EndMultiChannel, Goto, SetInterviewState, Working, InPhase, InterviewState

LEMMA GoToSleepAccounts ==
  ASSUME Typed, NIFsAccount, NEW n \in Nodes, GoToSleep(n)
  PROVE  NIFsAccount'
  <1>1. /\ UNCHANGED <<completed, decoded, interviewState>> /\ pc' = [pc EXCEPT ![n] = "loop"]
        /\ interviewState[n] \in InterviewState
    BY DEF GoToSleep, Goto, history, Typed, NodeTyped
  <1>2. \A m \in Nodes : (Decoding(m)' => Decoding(m)) /\ (Completing(m)' <=> Completing(m))
    BY DEF GoToSleep, iface, jobs, Decoding, Completing
  <1>3. pc[n] = "InterviewDone" /\ interviewState[n] # "CCMultiChannelDone"
    BY DEF GoToSleep, NIFsAccount
  <1>4. interviewState[n] \in Phases => Working(n)
    BY DEF Working
  <1>5. "loop" \notin Phases \cup {"versions", "manufacturer", "multiChannel"}
    BY DEF Phases
  <1> QED
    BY <1>1, <1>2, <1>3, <1>4, <1>5, NodeMoves

LEMMA SendNIFAccounts ==
  ASSUME Typed, NIFsAccount, NEW n \in Nodes, SendNIF(n)
  PROVE  NIFsAccount'
  BY DEF NIFsAccount, Decoding, Completing, Working, InPhase, SendNIF, node, worker, iface,
         jobs, history

LEMMA LoseNIFAccounts ==
  ASSUME Typed, NIFsAccount, NEW n \in Nodes, LoseNIF(n)
  PROVE  NIFsAccount'
  BY DEF NIFsAccount, Decoding, Completing, Working, InPhase, LoseNIF, node, worker, iface,
         jobs, history

LEMMA LoseReportAccounts ==
  ASSUME Typed, NIFsAccount, NEW f \in wire, LoseReport(f)
  PROVE  NIFsAccount'
  BY DEF NIFsAccount, Decoding, Completing, Working, InPhase, LoseReport, node, worker, iface,
         jobs, history

LEMMA LoseProtocolInfoAccounts ==
  ASSUME Typed, NIFsAccount, LoseProtocolInfo
  PROVE  NIFsAccount'
  BY DEF NIFsAccount, Decoding, Completing, Working, InPhase, LoseProtocolInfo, node, worker,
         iface, jobs, history

LEMMA RejectNIFAccounts ==
  ASSUME Typed, NIFsAccount, RejectNIF
  PROVE  NIFsAccount'
  <1>1. UNCHANGED <<completed, decoded, pc, jobs>> /\ decoding \in Nodes /\ rx' = "idle"
    BY DEF RejectNIF, worker, history, Typed, ThreadsTyped
  <1>2. \A m \in Nodes : (Decoding(m)' => Decoding(m)) /\ (Completing(m)' <=> Completing(m))
    BY <1>1 DEF jobs, Decoding, Completing
  <1>3. CASE interviewState' = [interviewState EXCEPT ![decoding] = "NodeInfoPending"]
    <2>1. "NodeInfoPending" \in InterviewState /\ "NodeInfoPending" \notin Phases
      BY DEF InterviewState, Phases
    <2>2. pc[decoding] \in Phases \cup {"versions", "manufacturer", "multiChannel"} => Working(decoding)
      BY DEF Working, InPhase
    <2> QED
      BY <1>1, <1>2, <1>3, <2>1, <2>2, NodeMoves
  <1>4. CASE UNCHANGED interviewState
    BY <1>1, <1>2, <1>4, AccountKept DEF Working, InPhase, NIFsAccount
  <1> QED
    BY <1>3, <1>4 DEF RejectNIF

-----------------------------------------------------------------------------
(* The retry budget.                                                       *)

\* A version loop is ahead of the worker, or will be once it reads the state.
LoopAhead(n) ==
  \/ pc[n] \in {"NodeInfoDone", "CCVersionPending"}
  \/ pc[n] # "versions" /\ interviewState[n] \in {"NodeInfoDone", "CCVersionPending"}

\* What the loop may still ask for.
Left(n, c) ==
  IF pc[n] = "versions" /\ c \in todo[n]
  THEN IF target[n] = c THEN MaxTries - tries[n] ELSE MaxTries
  ELSE 0

Share(b) == IF b THEN MaxTries ELSE 0

\* Each NIF pays for one loop.
VersionBudget ==
  \A n \in Nodes : \A c \in Classes :
    asked[n][c] + Left(n, c) + Share(Decoding(n)) + Share(LoopAhead(n)) <= MaxTries * decoded[n]

LEMMA BudgetTypes ==
  ASSUME Typed, NEW n \in Nodes, NEW c \in Classes
  PROVE  /\ asked[n][c] \in Nat /\ decoded[n] \in Nat /\ MaxTries * decoded[n] \in Nat
         /\ tries[n] \in 0 .. MaxTries /\ Left(n, c) \in 0 .. MaxTries
         /\ MaxTries \in Nat /\ MaxTries >= 1
         /\ MaxTries * (decoded[n] + 1) = MaxTries * decoded[n] + MaxTries
  <1>1. MaxTries \in Nat /\ MaxTries >= 1
    BY NodeInterviewAssumption
  <1>2. asked[n][c] \in Nat /\ decoded[n] \in Nat /\ tries[n] \in 0 .. MaxTries
    BY DEF Typed, WorkerTyped, HistoryTyped
  <1>3. Left(n, c) \in 0 .. MaxTries
    BY <1>1, <1>2 DEF Left
  <1>4. \A d \in Nat : MaxTries * d \in Nat /\ MaxTries * (d + 1) = MaxTries * d + MaxTries
    BY <1>1
  <1> QED
    BY <1>1, <1>2, <1>3, <1>4

LEMMA BudgetKept ==
  ASSUME Typed, Typed', VersionBudget, UNCHANGED decoded,
         \A n \in Nodes : (Decoding(n)' => Decoding(n)) /\ (LoopAhead(n)' => LoopAhead(n)),
         \A n \in Nodes : \A c \in Classes :
           asked'[n][c] + Left(n, c)' <= asked[n][c] + Left(n, c)
  PROVE  VersionBudget'
  <1> SUFFICES ASSUME NEW n \in Nodes, NEW c \in Classes
               PROVE  asked'[n][c] + Left(n, c)' + Share(Decoding(n)') + Share(LoopAhead(n)')
                        <= MaxTries * decoded[n]
    BY DEF VersionBudget, Share
  <1>1. /\ asked[n][c] \in Nat /\ Left(n, c) \in 0 .. MaxTries /\ MaxTries \in Nat
        /\ MaxTries * decoded[n] \in Nat
    BY BudgetTypes
  <1>2. asked'[n][c] \in Nat /\ Left(n, c)' \in 0 .. MaxTries
    <2>1. asked'[n][c] \in Nat /\ tries'[n] \in 0 .. MaxTries
      BY DEF Typed, WorkerTyped, HistoryTyped
    <2> QED
      BY <1>1, <2>1 DEF Left
  <1>3. asked[n][c] + Left(n, c) + Share(Decoding(n)) + Share(LoopAhead(n)) <= MaxTries * decoded[n]
    BY DEF VersionBudget
  <1>4. asked'[n][c] + Left(n, c)' <= asked[n][c] + Left(n, c)
    OBVIOUS
  <1> HIDE DEF VersionBudget, Decoding, LoopAhead, Left
  <1>5. Share(Decoding(n)') <= Share(Decoding(n)) /\ Share(Decoding(n)) \in Nat /\ Share(Decoding(n)') \in Nat
    BY <1>1 DEF Share
  <1>6. Share(LoopAhead(n)') <= Share(LoopAhead(n)) /\ Share(LoopAhead(n)) \in Nat /\ Share(LoopAhead(n)') \in Nat
    BY <1>1 DEF Share
  <1> QED
    BY <1>1, <1>2, <1>3, <1>4, <1>5, <1>6

\* The other threads, but for the NIF, start no loop.
LEMMA ThreadsKeepBudget ==
  ASSUME Typed, Typed', VersionBudget, UNCHANGED <<worker, asked, decoded>>,
         \A n \in Nodes : Decoding(n)' => Decoding(n),
         UNCHANGED interviewState \/
           \E n \in Nodes : \E s \in InterviewState \ {"NodeInfoDone", "CCVersionPending"} :
             interviewState' = [interviewState EXCEPT ![n] = s]
  PROVE  VersionBudget'
  <1>1. \A n \in Nodes : \A c \in Classes : Left(n, c)' = Left(n, c) /\ asked'[n][c] = asked[n][c]
    BY DEF worker, Left
  <1>2. \A n \in Nodes :
          interviewState'[n] = interviewState[n] \/ interviewState'[n] \notin {"NodeInfoDone", "CCVersionPending"}
    BY DEF Typed, NodeTyped
  <1>3. \A n \in Nodes : LoopAhead(n)' => LoopAhead(n)
    BY <1>2 DEF LoopAhead, worker
  <1>4. \A n \in Nodes : \A c \in Classes :
          asked'[n][c] + Left(n, c)' <= asked[n][c] + Left(n, c)
    BY <1>1, BudgetTypes
  <1> QED
    BY <1>3, <1>4, BudgetKept

\* Nor do the later phases.
LEMMA PhasesKeepBudget ==
  ASSUME Typed, Typed', VersionBudget, UNCHANGED <<todo, target, tries, asked, decoded, iface>>,
         NEW n \in Nodes, NEW l, pc' = [pc EXCEPT ![n] = l], pc[n] # "versions", l # "versions",
         l \in {"NodeInfoDone", "CCVersionPending"} => LoopAhead(n),
         UNCHANGED interviewState \/
           \E s \in InterviewState \ {"NodeInfoDone", "CCVersionPending"} :
             interviewState' = [interviewState EXCEPT ![n] = s]
  PROVE  VersionBudget'
  <1>1. pc'[n] = l /\ \A m \in Nodes \ {n} : pc'[m] = pc[m]
    BY DEF Typed, WorkerTyped
  <1>2. \A m \in Nodes : \A c \in Classes : Left(m, c)' = Left(m, c) /\ asked'[m][c] = asked[m][c]
    BY <1>1 DEF Left
  <1>3. \A m \in Nodes :
          interviewState'[m] = interviewState[m] \/ interviewState'[m] \notin {"NodeInfoDone", "CCVersionPending"}
    BY DEF Typed, NodeTyped
  <1>4. \A m \in Nodes : LoopAhead(m)' => LoopAhead(m)
    BY <1>1, <1>3 DEF LoopAhead
  <1>5. \A m \in Nodes : Decoding(m)' => Decoding(m)
    BY DEF Decoding, iface
  <1>6. \A m \in Nodes : \A c \in Classes :
          asked'[m][c] + Left(m, c)' <= asked[m][c] + Left(m, c)
    BY <1>2, BudgetTypes
  <1> QED
    BY <1>4, <1>5, <1>6, BudgetKept

\* One node's account changes.
LEMMA BudgetOfOne ==
  ASSUME Typed, VersionBudget, NEW n \in Nodes,
         \A m \in Nodes \ {n} :
           /\ pc'[m] = pc[m] /\ todo'[m] = todo[m] /\ target'[m] = target[m]
           /\ tries'[m] = tries[m] /\ interviewState'[m] = interviewState[m]
           /\ asked'[m] = asked[m] /\ decoded'[m] = decoded[m]
           /\ Decoding(m)' => Decoding(m),
         \A c \in Classes :
           asked'[n][c] + Left(n, c)' + Share(Decoding(n)') + Share(LoopAhead(n)')
             <= MaxTries * decoded'[n]
  PROVE  VersionBudget'
  <1> SUFFICES ASSUME NEW m \in Nodes \ {n}, NEW c \in Classes
               PROVE  asked'[m][c] + Left(m, c)' + Share(Decoding(m)') + Share(LoopAhead(m)')
                        <= MaxTries * decoded'[m]
    BY DEF VersionBudget, Share
  <1>1. Left(m, c)' = Left(m, c) /\ (LoopAhead(m)' <=> LoopAhead(m))
    BY DEF Left, LoopAhead
  <1>2. asked[m][c] + Left(m, c) + Share(Decoding(m)) + Share(LoopAhead(m)) <= MaxTries * decoded[m]
    BY DEF VersionBudget
  <1>3. /\ asked[m][c] \in Nat /\ Left(m, c) \in 0 .. MaxTries /\ MaxTries \in Nat
        /\ MaxTries * decoded[m] \in Nat /\ asked'[m] = asked[m] /\ decoded'[m] = decoded[m]
        /\ Decoding(m)' => Decoding(m)
    BY BudgetTypes
  <1> HIDE DEF VersionBudget, Decoding, LoopAhead, Left
  <1>4. Share(Decoding(m)') <= Share(Decoding(m)) /\ Share(Decoding(m)) \in Nat /\ Share(Decoding(m)') \in Nat
    BY <1>3 DEF Share
  <1>5. Share(LoopAhead(m)') = Share(LoopAhead(m)) /\ Share(LoopAhead(m)) \in Nat
    BY <1>1, <1>3 DEF Share
  <1> QED
    BY <1>1, <1>2, <1>3, <1>4, <1>5

LEMMA JobDoneBudget ==
  ASSUME Typed, VersionBudget, NEW n \in Nodes, JobDone(n)
  PROVE  VersionBudget'
  BY JobDoneTyped, ThreadsKeepBudget DEF JobDone, Dispatches, node, history, Decoding

LEMMA JobStartsBudget ==
  ASSUME Typed, VersionBudget, NEW n \in Nodes, JobStarts(n)
  PROVE  VersionBudget'
  BY JobStartsTyped, ThreadsKeepBudget DEF JobStarts, Dispatches, node, history, Decoding

LEMMA JobCollectedBudget ==
  ASSUME Typed, VersionBudget, NEW n \in Nodes, JobCollected(n)
  PROVE  VersionBudget'
  BY JobCollectedTyped, ThreadsKeepBudget DEF JobCollected, Dispatches, node, history, Decoding

LEMMA JobPendingBudget ==
  ASSUME Typed, VersionBudget, NEW n \in Nodes, JobPending(n)
  PROVE  VersionBudget'
  BY JobPendingTyped, ThreadsKeepBudget DEF JobPending, Dispatches, node, history, Decoding

LEMMA RequestNodeProtocolInfoBudget ==
  ASSUME Typed, VersionBudget, RequestNodeProtocolInfo
  PROVE  VersionBudget'
  <1>1. Typed' /\ UNCHANGED <<worker, asked, decoded>>
    BY RequestNodeProtocolInfoTyped DEF RequestNodeProtocolInfo, history
  <1>2. \A m \in Nodes : Decoding(m)' => Decoding(m)
    BY DEF RequestNodeProtocolInfo, iface, Decoding
  <1>3. UNCHANGED interviewState \/
          \E m \in Nodes : \E s \in InterviewState \ {"NodeInfoDone", "CCVersionPending"} :
             interviewState' = [interviewState EXCEPT ![m] = s]
    BY QueueFacts
    DEF RequestNodeProtocolInfo, SetInterviewState, Typed, ThreadsTyped, InterviewState
  <1> QED
    BY <1>1, <1>2, <1>3, ThreadsKeepBudget

LEMMA JobCompletesBudget ==
  ASSUME Typed, VersionBudget, JobCompletes
  PROVE  VersionBudget'
  <1>1. Typed' /\ UNCHANGED <<worker, asked, decoded>>
    BY JobCompletesTyped DEF JobCompletes
  <1>2. \A m \in Nodes : Decoding(m)' => Decoding(m)
    BY DEF JobCompletes, SetInterviewState, node, worker, iface, jobs, bounds, history, Decoding
  <1>3. UNCHANGED interviewState \/
          \E m \in Nodes : \E s \in InterviewState \ {"NodeInfoDone", "CCVersionPending"} :
             interviewState' = [interviewState EXCEPT ![m] = s]
    BY QueueFacts DEF JobCompletes, SetInterviewState, Typed, ThreadsTyped, InterviewState
  <1> QED
    BY <1>1, <1>2, <1>3, ThreadsKeepBudget

LEMMA JobTimeoutBudget ==
  ASSUME Typed, VersionBudget, JobTimeout
  PROVE  VersionBudget'
  BY JobTimeoutTyped, ThreadsKeepBudget DEF JobTimeout, JobExpires, node, iface, Decoding

LEMMA CallStartInterviewBudget ==
  ASSUME Typed, VersionBudget, CallStartInterview
  PROVE  VersionBudget'
  BY CallStartInterviewTyped, ThreadsKeepBudget
  DEF CallStartInterview, node, iface, history, Decoding

LEMMA StartInterviewBudget ==
  ASSUME Typed, VersionBudget, StartInterview
  PROVE  VersionBudget'
  <1>1. Typed' /\ UNCHANGED <<worker, asked, decoded>>
    BY StartInterviewTyped DEF StartInterview, history
  <1>2. \A m \in Nodes : Decoding(m)' => Decoding(m)
    BY DEF StartInterview, iface, Decoding
  <1>3. NodeIds[startAt] \in Nodes
    BY NodeIdsFacts DEF StartInterview, Typed, ThreadsTyped
  <1>4. interviewState' = [interviewState EXCEPT ![NodeIds[startAt]] = "NotInterviewed"]
    BY DEF StartInterview, SetInterviewState
  <1>5. "NotInterviewed" \in InterviewState \ {"NodeInfoDone", "CCVersionPending"}
    BY DEF InterviewState
  <1> QED
    BY <1>1, <1>2, <1>3, <1>4, <1>5, ThreadsKeepBudget

LEMMA HandleProtocolInfoBudget ==
  ASSUME Typed, VersionBudget, HandleProtocolInfo
  PROVE  VersionBudget'
  <1>1. Typed' /\ UNCHANGED <<worker, asked, decoded>>
    BY HandleProtocolInfoTyped DEF HandleProtocolInfo, history
  <1>2. \A m \in Nodes : Decoding(m)' => Decoding(m)
    BY DEF HandleProtocolInfo, Decoding
  <1>3. UNCHANGED interviewState \/
          \E m \in Nodes : \E s \in InterviewState \ {"NodeInfoDone", "CCVersionPending"} :
             interviewState' = [interviewState EXCEPT ![m] = s]
    BY DEF HandleProtocolInfo, SetInterviewState, Typed, ThreadsTyped, InterviewState
  <1> QED
    BY <1>1, <1>2, <1>3, ThreadsKeepBudget

LEMMA LookAtActiveNodeBudget ==
  ASSUME Typed, VersionBudget, LookAtActiveNode
  PROVE  VersionBudget'
  BY LookAtActiveNodeTyped, ThreadsKeepBudget DEF LookAtActiveNode, node, history, Decoding

LEMMA RequestNodeInformationBudget ==
  ASSUME Typed, VersionBudget, RequestNodeInformation
  PROVE  VersionBudget'
  <1>1. Typed' /\ UNCHANGED <<worker, asked, decoded>>
    BY RequestNodeInformationTyped DEF RequestNodeInformation, history
  <1>2. \A m \in Nodes : Decoding(m)' => Decoding(m)
    BY DEF RequestNodeInformation, Decoding
  <1>3. UNCHANGED interviewState \/
          \E m \in Nodes : \E s \in InterviewState \ {"NodeInfoDone", "CCVersionPending"} :
             interviewState' = [interviewState EXCEPT ![m] = s]
    BY DEF RequestNodeInformation, SetInterviewState, Typed, ThreadsTyped, InterviewState
  <1> QED
    BY <1>1, <1>2, <1>3, ThreadsKeepBudget

LEMMA DecodeNodeInfoBudget ==
  ASSUME Typed, VersionBudget, DecodeNodeInfo
  PROVE  VersionBudget'
  <1>1. Typed' /\ UNCHANGED <<worker, asked, decoded>>
    BY DecodeNodeInfoTyped DEF DecodeNodeInfo, node, worker, iface, jobs, bounds, history
  <1>2. \A m \in Nodes : Decoding(m)' => Decoding(m)
    BY DEF DecodeNodeInfo, node, worker, iface, jobs, bounds, history, Decoding
  <1>3. UNCHANGED interviewState \/
          \E m \in Nodes : \E s \in InterviewState \ {"NodeInfoDone", "CCVersionPending"} :
             interviewState' = [interviewState EXCEPT ![m] = s]
    BY DEF DecodeNodeInfo
  <1> QED
    BY <1>1, <1>2, <1>3, ThreadsKeepBudget

LEMMA BeginSetNIFBudget ==
  ASSUME Typed, VersionBudget, BeginSetNIF
  PROVE  VersionBudget'
  <1>0. PICK n \in Nodes : n = decoding
    BY DEF BeginSetNIF, Typed, ThreadsTyped
  <1>1. /\ rx = "decode" /\ rx' = "setNIF" /\ decoding' = n
        /\ interviewState' = [interviewState EXCEPT ![n] = "NodeInfoPending"]
        /\ decoded' = [decoded EXCEPT ![n] = @ + 1]
        /\ UNCHANGED <<pc, todo, target, tries, asked>>
    BY <1>0 DEF BeginSetNIF, SetInterviewState, worker, Typed, ThreadsTyped
  <1>2. /\ \A m \in Nodes \ {n} : interviewState'[m] = interviewState[m] /\ decoded'[m] = decoded[m]
        /\ interviewState'[n] = "NodeInfoPending" /\ decoded'[n] = decoded[n] + 1
    BY <1>1 DEF Typed, NodeTyped, HistoryTyped
  <1>3. \A m \in Nodes \ {n} : ~Decoding(m)'
    BY <1>1 DEF Decoding
  <1>4. ~Decoding(n) /\ (LoopAhead(n)' => LoopAhead(n))
    BY <1>1, <1>2 DEF Decoding, LoopAhead
  <1>5. \A c \in Classes :
          asked'[n][c] + Left(n, c)' + Share(Decoding(n)') + Share(LoopAhead(n)') <= MaxTries * decoded'[n]
    <2> TAKE c \in Classes
    <2>1. Left(n, c)' = Left(n, c) /\ asked'[n][c] = asked[n][c]
      BY <1>1 DEF Left
    <2>2. asked[n][c] + Left(n, c) + Share(Decoding(n)) + Share(LoopAhead(n)) <= MaxTries * decoded[n]
      BY <1>1 DEF VersionBudget
    <2>3. /\ asked[n][c] \in Nat /\ Left(n, c) \in 0 .. MaxTries /\ MaxTries \in Nat
          /\ MaxTries * decoded[n] \in Nat
          /\ MaxTries * decoded'[n] = MaxTries * decoded[n] + MaxTries
      BY <1>1, <1>2, BudgetTypes
    <2> HIDE DEF Decoding, LoopAhead, Left, VersionBudget
    <2>4. Share(LoopAhead(n)') <= Share(LoopAhead(n)) /\ Share(LoopAhead(n)) \in Nat
          /\ Share(LoopAhead(n)') \in Nat
      BY <1>4, <2>3 DEF Share
    <2>5. Share(Decoding(n)) = 0 /\ Share(Decoding(n)') \in Nat /\ Share(Decoding(n)') <= MaxTries
      BY <1>4, <2>3 DEF Share
    <2> QED
      BY <2>1, <2>2, <2>3, <2>4, <2>5
  <1> QED
    BY <1>1, <1>2, <1>3, <1>5, BudgetOfOne

LEMMA EndSetNIFBudget ==
  ASSUME Typed, VersionBudget, EndSetNIF
  PROVE  VersionBudget'
  <1>0. PICK n \in Nodes : n = decoding
    BY DEF EndSetNIF, Typed, ThreadsTyped
  <1>1. /\ rx = "setNIF" /\ rx' = "idle"
        /\ interviewState' = [interviewState EXCEPT ![n] = "NodeInfoDone"]
        /\ UNCHANGED <<pc, todo, target, tries, asked, decoded>>
    BY <1>0 DEF EndSetNIF, SetInterviewState, worker, history, Typed, ThreadsTyped
  <1>2. Decoding(n)
    BY <1>0, <1>1 DEF Decoding
  <1>3. \A m \in Nodes \ {n} : interviewState'[m] = interviewState[m]
    BY <1>1 DEF Typed, NodeTyped
  <1>4. \A m \in Nodes : ~Decoding(m)'
    BY <1>1 DEF Decoding
  <1>5. \A c \in Classes :
          asked'[n][c] + Left(n, c)' + Share(Decoding(n)') + Share(LoopAhead(n)') <= MaxTries * decoded'[n]
    <2> TAKE c \in Classes
    <2>1. Left(n, c)' = Left(n, c) /\ asked'[n][c] = asked[n][c]
      BY <1>1 DEF Left
    <2>2. asked[n][c] + Left(n, c) + Share(Decoding(n)) + Share(LoopAhead(n)) <= MaxTries * decoded[n]
      BY <1>1 DEF VersionBudget
    <2>3. /\ asked[n][c] \in Nat /\ Left(n, c) \in 0 .. MaxTries /\ MaxTries \in Nat
          /\ MaxTries * decoded[n] \in Nat
      BY <1>1, BudgetTypes
    <2> HIDE DEF Decoding, LoopAhead, Left, VersionBudget
    <2>4. /\ Share(LoopAhead(n)) \in Nat /\ Share(Decoding(n)) = MaxTries
          /\ Share(Decoding(n)') = 0 /\ Share(LoopAhead(n)') \in 0 .. MaxTries
      BY <1>1, <1>2, <1>4, <2>3 DEF Share
    <2> QED
      BY <1>1, <2>1, <2>2, <2>3, <2>4
  <1> QED
    BY <1>1, <1>3, <1>4, <1>5, BudgetOfOne

LEMMA HandleNIFFailedBudget ==
  ASSUME Typed, VersionBudget, NEW n \in Nodes, HandleNIFFailed(n)
  PROVE  VersionBudget'
  BY HandleNIFFailedTyped, ThreadsKeepBudget
  DEF HandleNIFFailed, Receives, node, history, Decoding

LEMMA RestoreNodeInfoPendingBudget ==
  ASSUME Typed, VersionBudget, RestoreNodeInfoPending
  PROVE  VersionBudget'
  <1>1. Typed' /\ UNCHANGED <<worker, asked, decoded>>
    BY RestoreNodeInfoPendingTyped DEF RestoreNodeInfoPending, history
  <1>2. \A m \in Nodes : Decoding(m)' => Decoding(m)
    BY DEF RestoreNodeInfoPending, Decoding
  <1>3. \E m \in Nodes : \E s \in InterviewState \ {"NodeInfoDone", "CCVersionPending"} :
          interviewState' = [interviewState EXCEPT ![m] = s]
    BY DEF RestoreNodeInfoPending, SetInterviewState, Typed, ThreadsTyped, InterviewState
  <1> QED
    BY <1>1, <1>2, <1>3, ThreadsKeepBudget

LEMMA HandleNIFBudget ==
  ASSUME Typed, VersionBudget, NEW n \in Nodes, HandleNIF(n)
  PROVE  VersionBudget'
  BY HandleNIFTyped, ThreadsKeepBudget DEF HandleNIF, node, history, Decoding

LEMMA HandleDeviceReportBudget ==
  ASSUME Typed, VersionBudget, NEW n \in Nodes, HandleDeviceReport(n)
  PROVE  VersionBudget'
  <1>1. Typed' /\ UNCHANGED <<worker, asked, decoded>>
    BY HandleDeviceReportTyped DEF HandleDeviceReport, history
  <1>2. \A m \in Nodes : Decoding(m)' => Decoding(m)
    BY DEF HandleDeviceReport, Receives, node, worker, iface, jobs, bounds, history, Decoding
  <1>3. UNCHANGED interviewState \/
          \E m \in Nodes : \E s \in InterviewState \ {"NodeInfoDone", "CCVersionPending"} :
             interviewState' = [interviewState EXCEPT ![m] = s]
    BY DEF HandleDeviceReport
  <1> QED
    BY <1>1, <1>2, <1>3, ThreadsKeepBudget

LEMMA HandleVersionReportBudget ==
  ASSUME Typed, VersionBudget, NEW n \in Nodes, NEW c \in Classes, HandleVersionReport(n, c)
  PROVE  VersionBudget'
  <1>1. Typed' /\ UNCHANGED <<worker, asked, decoded>>
    BY HandleVersionReportTyped DEF HandleVersionReport, history
  <1>2. \A m \in Nodes : Decoding(m)' => Decoding(m)
    BY DEF HandleVersionReport, Receives, node, worker, iface, jobs, bounds, history, Decoding
  <1>3. UNCHANGED interviewState \/
          \E m \in Nodes : \E s \in InterviewState \ {"NodeInfoDone", "CCVersionPending"} :
             interviewState' = [interviewState EXCEPT ![m] = s]
    BY DEF HandleVersionReport
  <1> QED
    BY <1>1, <1>2, <1>3, ThreadsKeepBudget

LEMMA ReadInterviewStateBudget ==
  ASSUME Typed, VersionBudget, NEW n \in Nodes, ReadInterviewState(n)
  PROVE  VersionBudget'
  <1>1. Typed'
    BY ReadInterviewStateTyped
  <1> QED
    BY <1>1, PhasesKeepBudget DEF ReadInterviewState, Goto, node, history, LoopAhead, WorkedOn

LEMMA BeginVersionsBudget ==
  ASSUME Typed, VersionBudget, NEW n \in Nodes, BeginVersions(n)
  PROVE  VersionBudget'
  <1>1. /\ pc[n] \in {"NodeInfoDone", "CCVersionPending"} /\ LoopAhead(n)
        /\ UNCHANGED <<target, tries, asked, decoded, iface>>
    BY DEF BeginVersions, LoopAhead, history
  <1>2. \A m \in Nodes \ {n} :
          interviewState'[m] = interviewState[m] /\ pc'[m] = pc[m] /\ todo'[m] = todo[m]
    BY DEF BeginVersions, Enter, Goto, SetInterviewState, Typed, NodeTyped, WorkerTyped
  <1>3. ~LoopAhead(n)'
    <2>1. \/ pc'[n] = "versions"
          \/ pc'[n] = "loop" /\ interviewState'[n] = "CCVersionDone"
      BY DEF BeginVersions, Goto, SetInterviewState, Typed, NodeTyped, WorkerTyped
    <2> QED
      BY <2>1 DEF LoopAhead
  <1>4. \A c \in Classes :
          asked'[n][c] + Left(n, c)' + Share(Decoding(n)') + Share(LoopAhead(n)') <= MaxTries * decoded'[n]
    <2> TAKE c \in Classes
    <2>0. Decoding(n)' <=> Decoding(n)
      BY <1>1 DEF Decoding, iface
    <2>1. Left(n, c) = 0 /\ asked'[n][c] = asked[n][c]
      BY <1>1 DEF Left
    <2>2. asked[n][c] + Left(n, c) + Share(Decoding(n)) + Share(LoopAhead(n)) <= MaxTries * decoded[n]
      BY DEF VersionBudget
    <2>3. /\ asked[n][c] \in Nat /\ MaxTries \in Nat /\ tries[n] \in 0 .. MaxTries
          /\ MaxTries * decoded[n] \in Nat /\ MaxTries * decoded'[n] = MaxTries * decoded[n]
      BY <1>1, BudgetTypes
    <2>4. Left(n, c)' \in 0 .. MaxTries
      BY <1>1, <2>3 DEF Left
    <2> HIDE DEF Decoding, LoopAhead, Left, VersionBudget
    <2>5. /\ Share(LoopAhead(n)) = MaxTries /\ Share(Decoding(n)) \in Nat
          /\ Share(Decoding(n)') = Share(Decoding(n)) /\ Share(LoopAhead(n)') = 0
      BY <1>1, <1>3, <2>0, <2>3 DEF Share
    <2> QED
      BY <2>1, <2>2, <2>3, <2>4, <2>5
  <1>5. \A m \in Nodes : Decoding(m)' => Decoding(m)
    BY <1>1 DEF Decoding, iface
  <1> QED
    BY <1>1, <1>2, <1>4, <1>5, BudgetOfOne

LEMMA AskVersionBudget ==
  ASSUME Typed, VersionBudget, NEW n \in Nodes, NEW c \in Classes, AskVersion(n, c)
  PROVE  VersionBudget'
  <1>1. /\ pc[n] = "versions" /\ target[n] = NoClass /\ c \in todo[n] /\ c # NoClass
        /\ UNCHANGED <<interviewState, pc, decoded, iface>>
    BY DEF AskVersion, VersionLoop, Classes, NoClass
  <1>2. \A m \in Nodes : (LoopAhead(m)' => LoopAhead(m)) /\ (Decoding(m)' => Decoding(m))
    BY <1>1 DEF LoopAhead, Decoding, iface
  <1>3. CASE /\ asked' = [asked EXCEPT ![n][c] = @ + 1] /\ UNCHANGED todo
             /\ target' = [target EXCEPT ![n] = c] /\ tries' = [tries EXCEPT ![n] = 1]
    <2>1. /\ \A m \in Nodes : \A d \in Classes :
               asked'[m][d] = IF m = n /\ d = c THEN asked[m][d] + 1 ELSE asked[m][d]
          /\ \A m \in Nodes : target'[m] = IF m = n THEN c ELSE target[m]
          /\ \A m \in Nodes : tries'[m] = IF m = n THEN 1 ELSE tries[m]
      BY <1>3 DEF Typed, WorkerTyped, HistoryTyped
    <2>2. Left(n, c) = MaxTries /\ Left(n, c)' = MaxTries - 1
      BY <1>1, <1>3, <2>1 DEF Left
    <2>3. \A m \in Nodes : \A d \in Classes : <<m, d>> # <<n, c>> => Left(m, d)' = Left(m, d)
      BY <1>1, <1>3, <2>1 DEF Left, Classes, NoClass
    <2>4. \A m \in Nodes : \A d \in Classes : asked'[m][d] + Left(m, d)' <= asked[m][d] + Left(m, d)
      BY <2>1, <2>2, <2>3, BudgetTypes
    <2> QED
      BY <1>1, <1>2, <2>4, AskVersionTyped, BudgetKept
  <1>4. CASE todo' = [todo EXCEPT ![n] = @ \ {c}] /\ UNCHANGED <<target, tries, asked>>
    <2>1. \A m \in Nodes : todo'[m] \subseteq todo[m]
      BY <1>4 DEF Typed, WorkerTyped
    <2>2. \A m \in Nodes : \A d \in Classes :
            asked'[m][d] = asked[m][d] /\ (Left(m, d)' = Left(m, d) \/ Left(m, d)' = 0)
      BY <1>1, <1>4, <2>1 DEF Left
    <2>3. \A m \in Nodes : \A d \in Classes : asked'[m][d] + Left(m, d)' <= asked[m][d] + Left(m, d)
      BY <2>2, BudgetTypes
    <2> QED
      BY <1>1, <1>2, <2>3, AskVersionTyped, BudgetKept
  <1>5. \/ /\ asked' = [asked EXCEPT ![n][c] = @ + 1] /\ UNCHANGED todo
           /\ target' = [target EXCEPT ![n] = c] /\ tries' = [tries EXCEPT ![n] = 1]
        \/ todo' = [todo EXCEPT ![n] = @ \ {c}] /\ UNCHANGED <<target, tries, asked>>
    BY DEF AskVersion, GetVersion
  <1> QED
    BY <1>3, <1>4, <1>5, Zenon

LEMMA EndVersionsBudget ==
  ASSUME Typed, VersionBudget, NEW n \in Nodes, EndVersions(n)
  PROVE  VersionBudget'
  <1>1. /\ UNCHANGED <<todo, target, tries, asked, decoded, iface>> /\ todo[n] = {}
        /\ pc' = [pc EXCEPT ![n] = "loop"]
        /\ interviewState' = [interviewState EXCEPT ![n] = "CCVersionDone"]
    BY DEF EndVersions, VersionLoop, Goto, SetInterviewState
  <1>2. /\ \A m \in Nodes \ {n} : interviewState'[m] = interviewState[m] /\ pc'[m] = pc[m]
        /\ interviewState'[n] = "CCVersionDone" /\ pc'[n] = "loop"
    BY <1>1 DEF Typed, NodeTyped, WorkerTyped
  <1>3. \A m \in Nodes : (LoopAhead(m)' => LoopAhead(m)) /\ (Decoding(m)' => Decoding(m))
    BY <1>1, <1>2 DEF LoopAhead, Decoding, iface
  <1>4. \A m \in Nodes : \A c \in Classes : Left(m, c)' = Left(m, c)
    BY <1>1, <1>2 DEF Left
  <1>5. \A m \in Nodes : \A c \in Classes : asked'[m][c] + Left(m, c)' <= asked[m][c] + Left(m, c)
    BY <1>1, <1>4, BudgetTypes
  <1> QED
    BY <1>1, <1>3, <1>5, EndVersionsTyped, BudgetKept

LEMMA AwaitVersionBudget ==
  ASSUME Typed, VersionBudget, NEW n \in Nodes, AwaitVersion(n)
  PROVE  VersionBudget'
  <1>0. PICK c \in Classes : c = target[n]
    BY DEF AwaitVersion, Typed, WorkerTyped
  <1>1. /\ c # NoClass /\ pc[n] = "versions" /\ c \in todo[n]
        /\ UNCHANGED <<interviewState, pc, decoded, iface>>
    BY <1>0 DEF AwaitVersion, node, Typed, WorkerTyped
  <1>2. \A m \in Nodes : (LoopAhead(m)' => LoopAhead(m)) /\ (Decoding(m)' => Decoding(m))
    BY <1>1 DEF LoopAhead, Decoding, iface
  <1>3. CASE NextClass(n)
    <2>1. /\ UNCHANGED asked /\ c \notin todo'[n] /\ target'[n] = NoClass
          /\ \A d \in Classes : d # c => (d \in todo'[n] <=> d \in todo[n])
          /\ \A m \in Nodes \ {n} : todo'[m] = todo[m] /\ target'[m] = target[m] /\ tries'[m] = tries[m]
      BY <1>0, <1>3 DEF NextClass, Typed, WorkerTyped
    <2>2. \A d \in Classes : d # NoClass
      BY DEF Classes, NoClass
    <2>3. Left(n, c)' = 0 /\ \A d \in Classes \ {c} : Left(n, d)' = Left(n, d)
      BY <1>0, <1>1, <2>1, <2>2 DEF Left
    <2>4. \A m \in Nodes \ {n} : \A d \in Classes : Left(m, d)' = Left(m, d)
      BY <1>1, <2>1 DEF Left
    <2>5. \A m \in Nodes : \A d \in Classes : asked'[m][d] + Left(m, d)' <= asked[m][d] + Left(m, d)
      BY <2>1, <2>3, <2>4, BudgetTypes
    <2> QED
      BY <1>1, <1>2, <2>5, AwaitVersionTyped, BudgetKept
  <1>4. CASE /\ asked' = [asked EXCEPT ![n][c] = @ + 1] /\ tries[n] < MaxTries
             /\ tries' = [tries EXCEPT ![n] = @ + 1] /\ UNCHANGED <<todo, target>>
    <2>1. /\ \A m \in Nodes : \A d \in Classes :
               asked'[m][d] = IF m = n /\ d = c THEN asked[m][d] + 1 ELSE asked[m][d]
          /\ \A m \in Nodes : tries'[m] = IF m = n THEN tries[m] + 1 ELSE tries[m]
      BY <1>4 DEF Typed, WorkerTyped, HistoryTyped
    <2>2. Left(n, c) = MaxTries - tries[n] /\ Left(n, c)' = MaxTries - (tries[n] + 1)
      BY <1>1, <1>4, <1>0, <2>1 DEF Left
    <2>3. \A m \in Nodes : \A d \in Classes : <<m, d>> # <<n, c>> => Left(m, d)' = Left(m, d)
      BY <1>1, <1>4, <1>0, <2>1 DEF Left
    <2>4. \A m \in Nodes : \A d \in Classes : asked'[m][d] + Left(m, d)' <= asked[m][d] + Left(m, d)
      <3> SUFFICES ASSUME NEW m \in Nodes, NEW d \in Classes
                   PROVE  asked'[m][d] + Left(m, d)' <= asked[m][d] + Left(m, d)
        OBVIOUS
      <3>1. /\ asked[m][d] \in Nat /\ tries[n] \in 0 .. MaxTries /\ MaxTries \in Nat
            /\ Left(m, d) \in 0 .. MaxTries
        BY BudgetTypes
      <3>2. CASE m = n /\ d = c
        BY <2>1, <2>2, <3>1, <3>2
      <3>3. CASE ~(m = n /\ d = c)
        BY <2>1, <2>3, <3>1, <3>3
      <3> QED
        BY <3>2, <3>3
    <2> QED
      BY <1>1, <1>2, <2>4, AwaitVersionTyped, BudgetKept
  <1>5. \/ NextClass(n)
        \/ /\ asked' = [asked EXCEPT ![n][c] = @ + 1] /\ tries[n] < MaxTries
           /\ tries' = [tries EXCEPT ![n] = @ + 1] /\ UNCHANGED <<todo, target>>
    BY <1>0 DEF AwaitVersion, GetVersion
  <1> QED
    BY <1>3, <1>4, <1>5, Zenon

LEMMA BeginManufacturerBudget ==
  ASSUME Typed, VersionBudget, NEW n \in Nodes, BeginManufacturer(n)
  PROVE  VersionBudget'
  <1>1. Typed'
    BY BeginManufacturerTyped
  <1> QED
    BY <1>1, PhasesKeepBudget
    DEF BeginManufacturer, Goto, history, Enter, SetInterviewState, InterviewState

LEMMA EndManufacturerBudget ==
  ASSUME Typed, VersionBudget, NEW n \in Nodes, EndManufacturer(n)
  PROVE  VersionBudget'
  <1>1. Typed'
    BY EndManufacturerTyped
  <1> QED
    BY <1>1, PhasesKeepBudget
    DEF EndManufacturer, Goto, SetInterviewState, history, InterviewState

LEMMA BeginMultiChannelBudget ==
  ASSUME Typed, VersionBudget, NEW n \in Nodes, BeginMultiChannel(n)
  PROVE  VersionBudget'
  <1>1. Typed'
    BY BeginMultiChannelTyped
  <1> QED
    BY <1>1, PhasesKeepBudget
    DEF BeginMultiChannel, Goto, history, Enter, SetInterviewState, InterviewState

LEMMA EndMultiChannelBudget ==
  ASSUME Typed, VersionBudget, NEW n \in Nodes, EndMultiChannel(n)
  PROVE  VersionBudget'
  <1>1. Typed'
    BY EndMultiChannelTyped
  <1> QED
    BY <1>1, PhasesKeepBudget
    DEF EndMultiChannel, Goto, SetInterviewState, history, InterviewState

LEMMA GoToSleepBudget ==
  ASSUME Typed, VersionBudget, NEW n \in Nodes, GoToSleep(n)
  PROVE  VersionBudget'
  <1>1. Typed'
    BY GoToSleepTyped
  <1> QED
    BY <1>1, PhasesKeepBudget DEF GoToSleep, Goto, history

LEMMA SendNIFBudget ==
  ASSUME Typed, VersionBudget, NEW n \in Nodes, SendNIF(n)
  PROVE  VersionBudget'
  BY SendNIFTyped, ThreadsKeepBudget DEF SendNIF, node, iface, history, Decoding

LEMMA LoseNIFBudget ==
  ASSUME Typed, VersionBudget, NEW n \in Nodes, LoseNIF(n)
  PROVE  VersionBudget'
  BY LoseNIFTyped, ThreadsKeepBudget DEF LoseNIF, node, iface, history, Decoding

LEMMA LoseReportBudget ==
  ASSUME Typed, VersionBudget, NEW f \in wire, LoseReport(f)
  PROVE  VersionBudget'
  BY LoseReportTyped, ThreadsKeepBudget DEF LoseReport, node, iface, history, Decoding

LEMMA LoseProtocolInfoBudget ==
  ASSUME Typed, VersionBudget, LoseProtocolInfo
  PROVE  VersionBudget'
  BY LoseProtocolInfoTyped, ThreadsKeepBudget
  DEF LoseProtocolInfo, node, iface, history, Decoding

LEMMA RejectNIFBudget ==
  ASSUME Typed, VersionBudget, RejectNIF
  PROVE  VersionBudget'
  <1>1. Typed' /\ UNCHANGED <<worker, asked, decoded>>
    BY RejectNIFTyped DEF RejectNIF, node, worker, iface, jobs, bounds, history
  <1>2. \A m \in Nodes : Decoding(m)' => Decoding(m)
    BY DEF RejectNIF, node, worker, iface, jobs, bounds, history, Decoding
  <1>3. UNCHANGED interviewState \/
          \E m \in Nodes : \E s \in InterviewState \ {"NodeInfoDone", "CCVersionPending"} :
             interviewState' = [interviewState EXCEPT ![m] = s]
    BY DEF RejectNIF, Typed, ThreadsTyped, InterviewState
  <1> QED
    BY <1>1, <1>2, <1>3, ThreadsKeepBudget

-----------------------------------------------------------------------------
(* What an interview learns from the only NIF of a node.                   *)

Learnt(n, c) == c \in versionOk[n] \/ asked[n][c] = MaxTries

LaterPhases == {"CCVersionDone", "CCMnfcSpecPending", "CCMnfcSpecDone", "CCMultiChannelPending",
                "manufacturer", "multiChannel"}

\* A version loop lies behind.
Past(n) ==
  \/ pc[n] \in LaterPhases
  \/ interviewState[n] \in LaterPhases \cup {"CCMultiChannelDone", "InterviewDone"}
  \/ Completing(n)

LessonOf(n) ==
  /\ target[n] # NoClass => asked[n][target[n]] >= tries[n]
  /\ decoded[n] = 1 =>
       /\ ~Decoding(n) => ccs[n] = Supports[n]
       /\ "VERSION" \in Supports[n] =>
            /\ pc[n] = "versions" => \A c \in Supports[n] \ todo[n] : Learnt(n, c)
            /\ Past(n) => \A c \in Supports[n] : Learnt(n, c)

Lesson == \A n \in Nodes : LessonOf(n)

LEMMA LessonKept ==
  ASSUME NEW m \in Nodes, LessonOf(m),
         todo'[m] = todo[m], target'[m] = target[m], tries'[m] = tries[m],
         asked'[m] = asked[m], decoded'[m] = decoded[m], ccs'[m] = ccs[m],
         versionOk[m] \subseteq versionOk'[m],
         Decoding(m) => Decoding(m)',
         pc'[m] = "versions" => pc[m] = "versions",
         Past(m)' => Past(m)
  PROVE  LessonOf(m)'
  <1>1. \A c : Learnt(m, c) => Learnt(m, c)'
    BY DEF Learnt
  <1>2. (target[m] # NoClass => asked[m][target[m]] >= tries[m])'
    BY DEF LessonOf
  <1> HIDE DEF Learnt, Past, Decoding
  <1> QED
    BY <1>1, <1>2 DEF LessonOf

\* One node moves on, to no version loop.
LEMMA LessonMoves ==
  ASSUME Typed, Lesson, NEW n \in Nodes,
         UNCHANGED <<todo, target, tries, asked, decoded, ccs, versionOk, iface, jobs>>,
         \A m \in Nodes \ {n} : pc'[m] = pc[m] /\ interviewState'[m] = interviewState[m],
         pc'[n] # "versions", Past(n)' => Past(n)
  PROVE  Lesson'
  <1>1. \A m \in Nodes : Decoding(m) => Decoding(m)'
    BY DEF Decoding, iface
  <1>2. \A m \in Nodes \ {n} : Past(m)' => Past(m)
    BY DEF Past, Completing, jobs
  <1>3. \A m \in Nodes : versionOk[m] \subseteq versionOk'[m]
    OBVIOUS
  <1> QED
    BY <1>1, <1>2, <1>3, LessonKept DEF Lesson

\* A node with one NIF is past its decoding as soon as the worker works on it.
LEMMA NotDecodingAnyMore ==
  ASSUME Typed, NIFsAccount, NEW n \in Nodes, decoded[n] = 1, Working(n)
  PROVE  ~Decoding(n)
  <1>1. completed[n] + One(Decoding(n)) + One(Working(n)) + One(Completing(n)) <= 1
        /\ completed[n] \in Nat
    BY DEF NIFsAccount, Typed, HistoryTyped
  <1> HIDE DEF NIFsAccount, Decoding, Completing, Working
  <1>2. One(Working(n)) = 1 /\ One(Completing(n)) \in Nat
    BY DEF One
  <1> QED
    BY <1>1, <1>2 DEF One

\* No interview is under way before the first NIF, nor while it is decoded.
LEMMA NothingBeforeNIF ==
  ASSUME Typed, NIFsAccount, NEW n \in Nodes,
         decoded[n] = 0 \/ (decoded[n] = 1 /\ Decoding(n))
  PROVE  ~Working(n) /\ ~Completing(n)
  <1>1. completed[n] + One(Decoding(n)) + One(Working(n)) + One(Completing(n)) <= decoded[n]
        /\ completed[n] \in Nat
    BY DEF NIFsAccount, Typed, HistoryTyped
  <1> HIDE DEF NIFsAccount, Decoding, Completing, Working
  <1>2. One(Working(n)) \in {0, 1} /\ One(Completing(n)) \in {0, 1} /\ One(Decoding(n)) \in {0, 1}
    BY DEF One
  <1>3. One(Working(n)) = 0 /\ One(Completing(n)) = 0
    <2>1. CASE decoded[n] = 0
      BY <1>1, <1>2, <2>1
    <2>2. CASE decoded[n] = 1 /\ Decoding(n)
      <3>1. One(Decoding(n)) = 1 /\ decoded[n] = 1
        BY <2>2 DEF One
      <3> QED
        BY <1>1, <1>2, <3>1
    <2> QED
      BY <2>1, <2>2
  <1> QED
    BY <1>3 DEF One

\* A node with one NIF has asked for no class more often than it may.
LEMMA OneBudget ==
  ASSUME Typed, VersionBudget, NEW n \in Nodes, NEW c \in Classes, decoded[n] = 1
  PROVE  asked[n][c] <= MaxTries
  <1>1. asked[n][c] + Left(n, c) + Share(Decoding(n)) + Share(LoopAhead(n)) <= MaxTries * decoded[n]
    BY DEF VersionBudget
  <1>2. /\ asked[n][c] \in Nat /\ Left(n, c) \in 0 .. MaxTries /\ MaxTries \in Nat
    BY BudgetTypes
  <1> HIDE DEF Decoding, LoopAhead, Left
  <1>3. Share(Decoding(n)) \in Nat /\ Share(LoopAhead(n)) \in Nat
    BY <1>2 DEF Share
  <1> QED
    BY <1>1, <1>2, <1>3

\* The same of the next state.
LEMMA OneBudgetNext ==
  ASSUME Typed', VersionBudget', NEW n \in Nodes, NEW c \in Classes, decoded'[n] = 1
  PROVE  asked'[n][c] <= MaxTries
  <1>1. asked'[n][c] + Left(n, c)' + Share(Decoding(n))' + Share(LoopAhead(n))' <= MaxTries * decoded'[n]
    BY DEF VersionBudget
  <1>2. /\ asked'[n][c] \in Nat /\ tries'[n] \in 0 .. MaxTries /\ MaxTries \in Nat
    BY NodeInterviewAssumption DEF Typed, WorkerTyped, HistoryTyped
  <1>3. Left(n, c)' \in 0 .. MaxTries
    BY <1>2 DEF Left
  <1>4. Share(Decoding(n))' \in Nat /\ Share(LoopAhead(n))' \in Nat
    BY <1>2 DEF Share
  <1> QED
    BY <1>1, <1>2, <1>3, <1>4

LEMMA JobDoneLesson ==
  ASSUME Typed, Typed', NIFsAccount, VersionBudget, VersionBudget', Lesson,
         NEW n \in Nodes, JobDone(n)
  PROVE  Lesson'
  BY LessonKept
  DEF Lesson, JobDone, Dispatches, node, worker, history, Past, Decoding, Completing

LEMMA JobStartsLesson ==
  ASSUME Typed, Typed', NIFsAccount, VersionBudget, VersionBudget', Lesson,
         NEW n \in Nodes, JobStarts(n)
  PROVE  Lesson'
  BY LessonKept
  DEF Lesson, JobStarts, Dispatches, node, worker, history, Past, Decoding, Completing

LEMMA JobCollectedLesson ==
  ASSUME Typed, Typed', NIFsAccount, VersionBudget, VersionBudget', Lesson,
         NEW n \in Nodes, JobCollected(n)
  PROVE  Lesson'
  BY LessonKept
  DEF Lesson, JobCollected, Dispatches, node, worker, history, Past, Decoding, Completing

LEMMA JobPendingLesson ==
  ASSUME Typed, Typed', NIFsAccount, VersionBudget, VersionBudget', Lesson,
         NEW n \in Nodes, JobPending(n)
  PROVE  Lesson'
  BY LessonKept
  DEF Lesson, JobPending, Dispatches, node, worker, history, Past, Decoding, Completing

LEMMA RequestNodeProtocolInfoLesson ==
  ASSUME Typed, Typed', NIFsAccount, VersionBudget, VersionBudget', Lesson, RequestNodeProtocolInfo
  PROVE  Lesson'
  BY LessonKept
  DEF Lesson, RequestNodeProtocolInfo, SetInterviewState, worker, iface, history, Past,
      LaterPhases, Decoding, Completing

LEMMA JobCompletesLesson ==
  ASSUME Typed, Typed', NIFsAccount, VersionBudget, VersionBudget', Lesson, JobCompletes
  PROVE  Lesson'
  BY LessonKept
  DEF Lesson, JobCompletes, SetInterviewState, worker, iface, Past, Decoding, Completing

LEMMA JobTimeoutLesson ==
  ASSUME Typed, Typed', NIFsAccount, VersionBudget, VersionBudget', Lesson, JobTimeout
  PROVE  Lesson'
  BY LessonKept
  DEF Lesson, JobTimeout, JobExpires, node, worker, iface, Past, Decoding, Completing

LEMMA CallStartInterviewLesson ==
  ASSUME Typed, Typed', NIFsAccount, VersionBudget, VersionBudget', Lesson, CallStartInterview
  PROVE  Lesson'
  BY LessonKept
  DEF Lesson, CallStartInterview, node, worker, iface, history, Past, Decoding, Completing

LEMMA StartInterviewLesson ==
  ASSUME Typed, Typed', NIFsAccount, VersionBudget, VersionBudget', Lesson, StartInterview
  PROVE  Lesson'
  BY LessonKept
  DEF Lesson, StartInterview, SetInterviewState, worker, iface, history, Past, LaterPhases,
      Decoding, Completing, Typed, NodeTyped, ThreadsTyped

LEMMA HandleProtocolInfoLesson ==
  ASSUME Typed, Typed', NIFsAccount, VersionBudget, VersionBudget', Lesson, HandleProtocolInfo
  PROVE  Lesson'
  BY LessonKept
  DEF Lesson, HandleProtocolInfo, SetInterviewState, worker, jobs, history, Past, LaterPhases,
      Decoding, Completing

LEMMA LookAtActiveNodeLesson ==
  ASSUME Typed, Typed', NIFsAccount, VersionBudget, VersionBudget', Lesson, LookAtActiveNode
  PROVE  Lesson'
  BY LessonKept
  DEF Lesson, LookAtActiveNode, node, worker, jobs, history, Past, Decoding, Completing

LEMMA RequestNodeInformationLesson ==
  ASSUME Typed, Typed', NIFsAccount, VersionBudget, VersionBudget', Lesson, RequestNodeInformation
  PROVE  Lesson'
  BY LessonKept
  DEF Lesson, RequestNodeInformation, SetInterviewState, worker, jobs, history, Past,
      LaterPhases, Decoding, Completing

LEMMA DecodeNodeInfoLesson ==
  ASSUME Typed, Typed', NIFsAccount, VersionBudget, VersionBudget', Lesson, DecodeNodeInfo
  PROVE  Lesson'
  BY LessonKept DEF Lesson, DecodeNodeInfo, worker, jobs, history, Past, Decoding, Completing

LEMMA BeginSetNIFLesson ==
  ASSUME Typed, Typed', NIFsAccount, VersionBudget, VersionBudget', Lesson, BeginSetNIF
  PROVE  Lesson'
  <1>0. PICK n \in Nodes : n = decoding
    BY DEF BeginSetNIF, Typed, ThreadsTyped
  <1>1. /\ rx = "decode" /\ rx' = "setNIF" /\ decoding' = n
        /\ interviewState' = [interviewState EXCEPT ![n] = "NodeInfoPending"]
        /\ decoded' = [decoded EXCEPT ![n] = @ + 1]
        /\ ccs' = [ccs EXCEPT ![n] = {}] /\ versionOk' = [versionOk EXCEPT ![n] = {}]
        /\ UNCHANGED <<pc, todo, target, tries, asked, jobs>>
    BY <1>0 DEF BeginSetNIF, SetInterviewState, worker
  <1>2. /\ \A m \in Nodes \ {n} :
             /\ interviewState'[m] = interviewState[m] /\ decoded'[m] = decoded[m]
             /\ ccs'[m] = ccs[m] /\ versionOk'[m] = versionOk[m]
        /\ interviewState'[n] = "NodeInfoPending" /\ decoded'[n] = decoded[n] + 1
        /\ decoded[n] \in Nat
    BY <1>1 DEF Typed, NodeTyped, HistoryTyped
  <1>3. ASSUME NEW m \in Nodes \ {n} PROVE LessonOf(m)'
    <2>1. (Decoding(m) => Decoding(m)') /\ (Past(m)' => Past(m))
      BY <1>1, <1>2 DEF Decoding, Past, Completing, jobs
    <2> QED
      BY <1>1, <1>2, <2>1, LessonKept DEF Lesson
  <1>4. LessonOf(n)'
    <2>1. (target[n] # NoClass => asked[n][target[n]] >= tries[n])'
      BY <1>1 DEF Lesson, LessonOf
    <2>2. CASE decoded[n] # 0
      <3>1. decoded'[n] # 1
        BY <1>2, <2>2
      <3> QED
        BY <2>1, <3>1 DEF LessonOf
    <2>3. CASE decoded[n] = 0
      <3>1. ~Working(n) /\ ~Completing(n)
        BY <2>3, NothingBeforeNIF
      <3>2. pc'[n] # "versions" /\ ~Past(n)'
        BY <1>1, <1>2, <3>1 DEF Working, InPhase, Past, Completing, Phases, LaterPhases, jobs
      <3>3. Decoding(n)'
        BY <1>1 DEF Decoding
      <3> QED
        BY <2>1, <3>2, <3>3 DEF LessonOf
    <2> QED
      BY <2>2, <2>3
  <1> QED
    BY <1>3, <1>4 DEF Lesson

LEMMA EndSetNIFLesson ==
  ASSUME Typed, Typed', NIFsAccount, VersionBudget, VersionBudget', Lesson, EndSetNIF
  PROVE  Lesson'
  <1>0. PICK n \in Nodes : n = decoding
    BY DEF EndSetNIF, Typed, ThreadsTyped
  <1>1. /\ rx = "setNIF"
        /\ interviewState' = [interviewState EXCEPT ![n] = "NodeInfoDone"]
        /\ ccs' = [ccs EXCEPT ![n] = Supports[n]]
        /\ UNCHANGED <<pc, todo, target, tries, asked, decoded, versionOk, jobs>>
    BY <1>0 DEF EndSetNIF, SetInterviewState, worker, history
  <1>2. /\ \A m \in Nodes \ {n} : interviewState'[m] = interviewState[m] /\ ccs'[m] = ccs[m]
        /\ interviewState'[n] = "NodeInfoDone" /\ ccs'[n] = Supports[n]
    BY <1>1 DEF Typed, NodeTyped
  <1>3. ASSUME NEW m \in Nodes \ {n} PROVE LessonOf(m)'
    <2>1. (Decoding(m) => Decoding(m)') /\ (Past(m)' => Past(m))
      BY <1>0, <1>1, <1>2 DEF Decoding, Past, Completing, jobs
    <2> QED
      BY <1>1, <1>2, <2>1, LessonKept DEF Lesson
  <1>4. LessonOf(n)'
    <2>1. (target[n] # NoClass => asked[n][target[n]] >= tries[n])'
      BY <1>1 DEF Lesson, LessonOf
    <2>2. CASE decoded[n] # 1
      BY <1>1, <2>1, <2>2 DEF LessonOf
    <2>3. CASE decoded[n] = 1
      <3>1. Decoding(n)
        BY <1>0, <1>1 DEF Decoding
      <3>2. ~Working(n) /\ ~Completing(n)
        BY <2>3, <3>1, NothingBeforeNIF
      <3>3. pc'[n] # "versions" /\ ~Past(n)'
        BY <1>1, <1>2, <3>2 DEF Working, InPhase, Past, Completing, Phases, LaterPhases, jobs
      <3> QED
        BY <1>2, <2>1, <3>3 DEF LessonOf
    <2> QED
      BY <2>2, <2>3
  <1> QED
    BY <1>3, <1>4 DEF Lesson

LEMMA HandleNIFFailedLesson ==
  ASSUME Typed, Typed', NIFsAccount, VersionBudget, VersionBudget', Lesson,
         NEW n \in Nodes, HandleNIFFailed(n)
  PROVE  Lesson'
  BY LessonKept
  DEF Lesson, HandleNIFFailed, Receives, node, worker, jobs, history, Past, Decoding, Completing

LEMMA RestoreNodeInfoPendingLesson ==
  ASSUME Typed, Typed', NIFsAccount, VersionBudget, VersionBudget', Lesson, RestoreNodeInfoPending
  PROVE  Lesson'
  BY LessonKept
  DEF Lesson, RestoreNodeInfoPending, SetInterviewState, worker, jobs, history, Past,
      LaterPhases, Decoding, Completing

LEMMA HandleNIFLesson ==
  ASSUME Typed, Typed', NIFsAccount, VersionBudget, VersionBudget', Lesson,
         NEW n \in Nodes, HandleNIF(n)
  PROVE  Lesson'
  BY LessonKept
  DEF Lesson, HandleNIF, Receives, node, worker, history, Past, Decoding, Completing, Typed,
      ThreadsTyped

LEMMA HandleDeviceReportLesson ==
  ASSUME Typed, Typed', NIFsAccount, VersionBudget, VersionBudget', Lesson,
         NEW n \in Nodes, HandleDeviceReport(n)
  PROVE  Lesson'
  BY LessonKept
  DEF Lesson, HandleDeviceReport, worker, iface, jobs, history, Past, Decoding, Completing

LEMMA HandleVersionReportLesson ==
  ASSUME Typed, Typed', NIFsAccount, VersionBudget, VersionBudget', Lesson,
         NEW n \in Nodes, NEW c \in Classes, HandleVersionReport(n, c)
  PROVE  Lesson'
  BY LessonKept
  DEF Lesson, HandleVersionReport, worker, iface, jobs, history, Past, Decoding, Completing

LEMMA ReadInterviewStateLesson ==
  ASSUME Typed, Typed', NIFsAccount, VersionBudget, VersionBudget', Lesson,
         NEW n \in Nodes, ReadInterviewState(n)
  PROVE  Lesson'
  <1>1. pc'[n] = interviewState[n] /\ UNCHANGED interviewState
        /\ \A m \in Nodes \ {n} : pc'[m] = pc[m]
    BY DEF ReadInterviewState, Goto, node, Typed, WorkerTyped
  <1>2. pc'[n] # "versions"
    BY <1>1 DEF ReadInterviewState, WorkedOn
  <1>3. UNCHANGED <<todo, target, tries, asked, decoded, ccs, versionOk, iface, jobs>>
    BY DEF ReadInterviewState, node, history
  <1>4. Past(n)' => Past(n)
    BY <1>1, <1>3 DEF Past, Completing, jobs
  <1> QED
    BY <1>1, <1>2, <1>3, <1>4, LessonMoves

LEMMA BeginVersionsLesson ==
  ASSUME Typed, Typed', NIFsAccount, VersionBudget, VersionBudget', Lesson,
         NEW n \in Nodes, BeginVersions(n)
  PROVE  Lesson'
  <1>1. /\ InPhase(n) /\ Working(n) /\ target[n] = NoClass
        /\ UNCHANGED <<target, tries, asked, decoded, ccs, versionOk, iface, jobs>>
    BY DEF BeginVersions, InPhase, Working, Phases, history, Typed, WorkerTyped
  <1>2. \A m \in Nodes \ {n} :
          interviewState'[m] = interviewState[m] /\ pc'[m] = pc[m] /\ todo'[m] = todo[m]
    BY DEF BeginVersions, Enter, Goto, SetInterviewState, Typed, NodeTyped, WorkerTyped
  <1>3. ASSUME NEW m \in Nodes \ {n} PROVE LessonOf(m)'
    <2>1. (Decoding(m) => Decoding(m)') /\ (Past(m)' => Past(m))
      BY <1>1, <1>2 DEF Decoding, Past, Completing, iface, jobs
    <2> QED
      BY <1>1, <1>2, <2>1, LessonKept DEF Lesson
  <1>4. ASSUME decoded[n] = 1 PROVE LessonOf(n)'
    <2>1. ccs[n] = Supports[n]
      BY <1>1, <1>4, NotDecodingAnyMore DEF Lesson, LessonOf
    <2>2. CASE "VERSION" \in Supports[n]
      <3>1. /\ todo'[n] = Supports[n] /\ pc'[n] = "versions"
            /\ interviewState'[n] \in {interviewState[n], "CCVersionPending"}
        BY <2>1, <2>2 DEF BeginVersions, Enter, Goto, Typed, NodeTyped, WorkerTyped
      <3>2. Past(n)' => Past(n)
        BY <1>1, <3>1 DEF Past, LaterPhases, Completing, jobs
      <3>3. Past(n)' => \A c \in Supports[n] : Learnt(n, c)
        BY <1>4, <2>2, <3>2 DEF Lesson, LessonOf
      <3>4. \A c : Learnt(n, c) => Learnt(n, c)'
        BY <1>1 DEF Learnt
      <3> HIDE DEF Past, Learnt
      <3> QED
        BY <1>1, <2>1, <3>1, <3>3, <3>4 DEF LessonOf
    <2>3. CASE "VERSION" \notin Supports[n]
      BY <1>1, <2>1, <2>3 DEF LessonOf
    <2> QED
      BY <2>2, <2>3
  <1>5. ASSUME decoded[n] # 1 PROVE LessonOf(n)'
    BY <1>1, <1>5 DEF LessonOf
  <1> QED
    BY <1>3, <1>4, <1>5 DEF Lesson

LEMMA AskVersionLesson ==
  ASSUME Typed, Typed', NIFsAccount, VersionBudget, VersionBudget', Lesson,
         NEW n \in Nodes, NEW c \in Classes, AskVersion(n, c)
  PROVE  Lesson'
  <1>1. /\ pc[n] = "versions" /\ target[n] = NoClass /\ c \in todo[n] /\ c # NoClass
        /\ UNCHANGED <<interviewState, pc, decoded, ccs, versionOk, iface, jobs>>
    BY DEF AskVersion, VersionLoop, Classes, NoClass
  <1>2. /\ \A m \in Nodes : (Decoding(m)' <=> Decoding(m)) /\ (Past(m)' <=> Past(m))
        /\ Working(n)
    BY <1>1 DEF Decoding, Past, Completing, iface, jobs, Working, InPhase
  <1>3. CASE /\ asked' = [asked EXCEPT ![n][c] = @ + 1] /\ UNCHANGED todo
             /\ target' = [target EXCEPT ![n] = c] /\ tries' = [tries EXCEPT ![n] = 1]
    <2>1. /\ \A m \in Nodes \ {n} : asked'[m] = asked[m] /\ target'[m] = target[m] /\ tries'[m] = tries[m]
          /\ \A d \in Classes \ {c} : asked'[n][d] = asked[n][d]
          /\ asked'[n][c] = asked[n][c] + 1 /\ target'[n] = c /\ tries'[n] = 1
          /\ asked[n][c] \in Nat /\ MaxTries \in Nat
      BY <1>3, NodeInterviewAssumption DEF Typed, WorkerTyped, HistoryTyped
    <2>2. ASSUME NEW m \in Nodes \ {n} PROVE LessonOf(m)'
      BY <1>1, <1>2, <1>3, <2>1, LessonKept DEF Lesson
    <2>3. ASSUME decoded[n] = 1, NEW d \in Classes, Learnt(n, d) PROVE Learnt(n, d)'
      <3>1. asked'[n][c] <= MaxTries
        <4>1. Typed' /\ VersionBudget' /\ decoded'[n] = 1
          BY <1>1, <2>3
        <4> QED
          BY <4>1, OneBudgetNext
      <3>2. CASE d = c
        BY <1>1, <2>1, <2>3, <3>1, <3>2 DEF Learnt
      <3>3. CASE d # c
        BY <1>1, <2>1, <2>3, <3>3 DEF Learnt
      <3> QED
        BY <3>2, <3>3
    <2>4. LessonOf(n)'
      <3>1. Supports[n] \subseteq Classes
        BY NodeInterviewAssumption
      <3>2. LessonOf(n)
        BY DEF Lesson
      <3>3. asked'[n][target'[n]] >= tries'[n]
        BY <2>1
      <3> HIDE DEF Past, Learnt, Decoding
      <3> QED
        BY <1>1, <1>2, <1>3, <2>3, <3>1, <3>2, <3>3 DEF LessonOf
    <2> QED
      BY <2>2, <2>4 DEF Lesson
  <1>4. CASE /\ c \notin ccs[n] \ versionOk[n] /\ todo' = [todo EXCEPT ![n] = @ \ {c}]
             /\ UNCHANGED <<target, tries, asked>>
    <2>1. todo'[n] = todo[n] \ {c} /\ \A m \in Nodes \ {n} : todo'[m] = todo[m]
      BY <1>4 DEF Typed, WorkerTyped
    <2>2. ASSUME NEW m \in Nodes \ {n} PROVE LessonOf(m)'
      BY <1>1, <1>2, <1>4, <2>1, LessonKept DEF Lesson
    <2>3. LessonOf(n)'
      <3>1. LessonOf(n)
        BY DEF Lesson
      <3>2. decoded[n] = 1 => ccs[n] = Supports[n]
        BY <1>2, <3>1, NotDecodingAnyMore DEF LessonOf
      <3>3. \A d : Learnt(n, d)' <=> Learnt(n, d)
        BY <1>1, <1>4 DEF Learnt
      <3>4. decoded[n] = 1 /\ c \in Supports[n] => Learnt(n, c)
        BY <1>4, <3>2 DEF Learnt
      <3>5. (target[n] # NoClass => asked[n][target[n]] >= tries[n])'
        BY <1>1, <1>4
      <3> HIDE DEF Past, Learnt, Decoding
      <3> QED
        BY <1>1, <1>2, <2>1, <3>1, <3>2, <3>3, <3>4, <3>5 DEF LessonOf
    <2> QED
      BY <2>2, <2>3 DEF Lesson
  <1>5. \/ /\ asked' = [asked EXCEPT ![n][c] = @ + 1] /\ UNCHANGED todo
           /\ target' = [target EXCEPT ![n] = c] /\ tries' = [tries EXCEPT ![n] = 1]
        \/ /\ c \notin ccs[n] \ versionOk[n] /\ todo' = [todo EXCEPT ![n] = @ \ {c}]
           /\ UNCHANGED <<target, tries, asked>>
    BY DEF AskVersion, GetVersion
  <1> QED
    BY <1>3, <1>4, <1>5, Zenon

LEMMA EndVersionsLesson ==
  ASSUME Typed, Typed', NIFsAccount, VersionBudget, VersionBudget', Lesson,
         NEW n \in Nodes, EndVersions(n)
  PROVE  Lesson'
  <1>1. /\ UNCHANGED <<todo, target, tries, asked, decoded, ccs, versionOk, iface, jobs>>
        /\ todo[n] = {} /\ pc[n] = "versions" /\ target[n] = NoClass
    BY DEF EndVersions, VersionLoop
  <1>2. /\ \A m \in Nodes \ {n} : interviewState'[m] = interviewState[m] /\ pc'[m] = pc[m]
        /\ pc'[n] = "loop"
    BY DEF EndVersions, Goto, SetInterviewState, Typed, NodeTyped, WorkerTyped
  <1>3. ASSUME NEW m \in Nodes \ {n} PROVE LessonOf(m)'
    <2>1. (Decoding(m) => Decoding(m)') /\ (Past(m)' => Past(m))
      BY <1>1, <1>2 DEF Decoding, Past, Completing, iface, jobs
    <2> QED
      BY <1>1, <1>2, <2>1, LessonKept DEF Lesson
  <1>4. LessonOf(n)'
    <2>1. "VERSION" \in Supports[n] /\ decoded[n] = 1 => \A c \in Supports[n] : Learnt(n, c)
      BY <1>1 DEF Lesson, LessonOf
    <2>2. \A c : Learnt(n, c) => Learnt(n, c)'
      BY <1>1 DEF Learnt
    <2>3. (~Decoding(n))' => ~Decoding(n)
      BY <1>1 DEF Decoding, iface
    <2>4. decoded[n] = 1 /\ ~Decoding(n) => ccs[n] = Supports[n]
      BY DEF Lesson, LessonOf
    <2> HIDE DEF Past, Learnt, Decoding
    <2> QED
      BY <1>1, <1>2, <2>1, <2>2, <2>3, <2>4 DEF LessonOf
  <1> QED
    BY <1>3, <1>4 DEF Lesson

LEMMA AwaitVersionLesson ==
  ASSUME Typed, Typed', NIFsAccount, VersionBudget, VersionBudget', Lesson,
         NEW n \in Nodes, AwaitVersion(n)
  PROVE  Lesson'
  <1>0. PICK c \in Classes : c = target[n]
    BY DEF AwaitVersion, Typed, WorkerTyped
  <1>1. /\ c # NoClass /\ pc[n] = "versions" /\ c \in todo[n]
        /\ UNCHANGED <<interviewState, pc, decoded, ccs, versionOk, iface, jobs>>
    BY <1>0 DEF AwaitVersion, node, Typed, WorkerTyped
  <1>2. /\ \A m \in Nodes : (Decoding(m)' <=> Decoding(m)) /\ (Past(m)' <=> Past(m))
        /\ Working(n)
    BY <1>1 DEF Decoding, Past, Completing, iface, jobs, Working, InPhase
  <1>3. CASE NextClass(n) /\ (c \in versionOk[n] \/ tries[n] = MaxTries)
    <2>1. /\ UNCHANGED asked /\ target'[n] = NoClass /\ todo'[n] = todo[n] \ {c}
          /\ \A m \in Nodes \ {n} : todo'[m] = todo[m] /\ target'[m] = target[m] /\ tries'[m] = tries[m]
      BY <1>0, <1>3 DEF NextClass, Typed, WorkerTyped
    <2>2. ASSUME NEW m \in Nodes \ {n} PROVE LessonOf(m)'
      BY <1>1, <1>2, <2>1, LessonKept DEF Lesson
    <2>3. LessonOf(n)'
      <3>1. LessonOf(n)
        BY DEF Lesson
      <3>2. decoded[n] = 1 => ccs[n] = Supports[n]
        BY <1>2, <3>1, NotDecodingAnyMore DEF LessonOf
      <3>3. \A d : Learnt(n, d)' <=> Learnt(n, d)
        BY <1>1, <2>1 DEF Learnt
      <3>4. decoded[n] = 1 => Learnt(n, c)
        <4> SUFFICES ASSUME decoded[n] = 1, tries[n] = MaxTries PROVE asked[n][c] = MaxTries
          BY <1>3 DEF Learnt
        <4>1. asked[n][c] >= MaxTries /\ asked[n][c] <= MaxTries
          BY <1>0, <1>1, <3>1, OneBudget DEF LessonOf
        <4> QED
          BY <4>1, BudgetTypes
      <3> HIDE DEF Past, Learnt, Decoding
      <3> QED
        BY <1>1, <1>2, <2>1, <3>1, <3>2, <3>3, <3>4 DEF LessonOf
    <2> QED
      BY <2>2, <2>3 DEF Lesson
  <1>4. CASE /\ asked' = [asked EXCEPT ![n][c] = @ + 1]
             /\ tries' = [tries EXCEPT ![n] = @ + 1] /\ UNCHANGED <<todo, target>>
    <2>1. /\ \A m \in Nodes \ {n} : asked'[m] = asked[m] /\ tries'[m] = tries[m]
          /\ \A d \in Classes \ {c} : asked'[n][d] = asked[n][d]
          /\ asked'[n][c] = asked[n][c] + 1 /\ tries'[n] = tries[n] + 1
          /\ asked[n][c] \in Nat /\ MaxTries \in Nat /\ tries[n] \in Nat
      BY <1>4, NodeInterviewAssumption DEF Typed, WorkerTyped, HistoryTyped
    <2>2. ASSUME NEW m \in Nodes \ {n} PROVE LessonOf(m)'
      BY <1>1, <1>2, <1>4, <2>1, LessonKept DEF Lesson
    <2>3. ASSUME decoded[n] = 1, NEW d \in Classes, Learnt(n, d) PROVE Learnt(n, d)'
      <3>1. asked'[n][c] <= MaxTries
        <4>1. Typed' /\ VersionBudget' /\ decoded'[n] = 1
          BY <1>1, <2>3
        <4> QED
          BY <4>1, OneBudgetNext
      <3>2. CASE d = c
        BY <1>1, <2>1, <2>3, <3>1, <3>2 DEF Learnt
      <3>3. CASE d # c
        BY <1>1, <2>1, <2>3, <3>3 DEF Learnt
      <3> QED
        BY <3>2, <3>3
    <2>4. LessonOf(n)'
      <3>1. Supports[n] \subseteq Classes
        BY NodeInterviewAssumption
      <3>2. LessonOf(n)
        BY DEF Lesson
      <3>3. asked'[n][target'[n]] >= tries'[n]
        BY <1>0, <1>1, <1>4, <2>1, <3>2 DEF LessonOf
      <3> HIDE DEF Past, Learnt, Decoding
      <3> QED
        BY <1>1, <1>2, <1>4, <2>3, <3>1, <3>2, <3>3 DEF LessonOf
    <2> QED
      BY <2>2, <2>4 DEF Lesson
  <1>5. \/ NextClass(n) /\ (c \in versionOk[n] \/ tries[n] = MaxTries)
        \/ /\ asked' = [asked EXCEPT ![n][c] = @ + 1]
           /\ tries' = [tries EXCEPT ![n] = @ + 1] /\ UNCHANGED <<todo, target>>
    BY <1>0 DEF AwaitVersion, GetVersion
  <1> QED
    BY <1>3, <1>4, <1>5, Zenon

LEMMA BeginManufacturerLesson ==
  ASSUME Typed, Typed', NIFsAccount, VersionBudget, VersionBudget', Lesson,
         NEW n \in Nodes, BeginManufacturer(n)
  PROVE  Lesson'
  <1>1. Past(n) /\ pc'[n] # "versions"
    BY DEF BeginManufacturer, Goto, Past, LaterPhases, Typed, WorkerTyped
  <1>2. \A m \in Nodes \ {n} : pc'[m] = pc[m] /\ interviewState'[m] = interviewState[m]
    BY DEF BeginManufacturer, Goto, Enter, SetInterviewState, Typed, NodeTyped, WorkerTyped
  <1>3. UNCHANGED <<todo, target, tries, asked, decoded, ccs, versionOk, iface, jobs>>
    BY DEF BeginManufacturer, history
  <1> QED
    BY <1>1, <1>2, <1>3, LessonMoves

LEMMA EndManufacturerLesson ==
  ASSUME Typed, Typed', NIFsAccount, VersionBudget, VersionBudget', Lesson,
         NEW n \in Nodes, EndManufacturer(n)
  PROVE  Lesson'
  BY LessonKept
  DEF Lesson, EndManufacturer, Goto, SetInterviewState, iface, jobs, history, Past,
      LaterPhases, Decoding, Completing, Typed, NodeTyped

LEMMA BeginMultiChannelLesson ==
  ASSUME Typed, Typed', NIFsAccount, VersionBudget, VersionBudget', Lesson,
         NEW n \in Nodes, BeginMultiChannel(n)
  PROVE  Lesson'
  <1>1. Past(n) /\ pc'[n] # "versions"
    BY DEF BeginMultiChannel, Goto, Past, LaterPhases, Typed, WorkerTyped
  <1>2. \A m \in Nodes \ {n} : pc'[m] = pc[m] /\ interviewState'[m] = interviewState[m]
    BY DEF BeginMultiChannel, Goto, Enter, SetInterviewState, Typed, NodeTyped, WorkerTyped
  <1>3. UNCHANGED <<todo, target, tries, asked, decoded, ccs, versionOk, iface, jobs>>
    BY DEF BeginMultiChannel, history
  <1> QED
    BY <1>1, <1>2, <1>3, LessonMoves

LEMMA EndMultiChannelLesson ==
  ASSUME Typed, Typed', NIFsAccount, VersionBudget, VersionBudget', Lesson,
         NEW n \in Nodes, EndMultiChannel(n)
  PROVE  Lesson'
  BY LessonKept
  DEF Lesson, EndMultiChannel, Goto, SetInterviewState, iface, jobs, history, Past,
      LaterPhases, Decoding, Completing

LEMMA GoToSleepLesson ==
  ASSUME Typed, Typed', NIFsAccount, VersionBudget, VersionBudget', Lesson,
         NEW n \in Nodes, GoToSleep(n)
  PROVE  Lesson'
  BY LessonKept
  DEF Lesson, GoToSleep, Goto, iface, jobs, history, Past, LaterPhases, Decoding, Completing

LEMMA SendNIFLesson ==
  ASSUME Typed, Typed', NIFsAccount, VersionBudget, VersionBudget', Lesson,
         NEW n \in Nodes, SendNIF(n)
  PROVE  Lesson'
  BY LessonKept
  DEF Lesson, SendNIF, node, worker, iface, jobs, history, Past, Decoding, Completing

LEMMA LoseNIFLesson ==
  ASSUME Typed, Typed', NIFsAccount, VersionBudget, VersionBudget', Lesson,
         NEW n \in Nodes, LoseNIF(n)
  PROVE  Lesson'
  BY LessonKept
  DEF Lesson, LoseNIF, node, worker, iface, jobs, history, Past, Decoding, Completing

LEMMA LoseReportLesson ==
  ASSUME Typed, Typed', NIFsAccount, VersionBudget, VersionBudget', Lesson,
         NEW f \in wire, LoseReport(f)
  PROVE  Lesson'
  BY LessonKept
  DEF Lesson, LoseReport, node, worker, iface, jobs, history, Past, Decoding, Completing

LEMMA LoseProtocolInfoLesson ==
  ASSUME Typed, Typed', NIFsAccount, VersionBudget, VersionBudget', Lesson, LoseProtocolInfo
  PROVE  Lesson'
  BY LessonKept
  DEF Lesson, LoseProtocolInfo, node, worker, iface, jobs, history, Past, Decoding, Completing

LEMMA RejectNIFLesson ==
  ASSUME Typed, Typed', NIFsAccount, VersionBudget, VersionBudget', Lesson, RejectNIF
  PROVE  Lesson'
  BY LessonKept
  DEF Lesson, RejectNIF, worker, jobs, history, Past, LaterPhases, Decoding, Completing

-----------------------------------------------------------------------------
(* Whose protocol data it is.                                              *)

\* No INTERVIEW job has timed out, no node has spoken up of its own, and the
\* user has not started the interviews again.
Undisturbed == dropped = {} /\ nifs = MaxNIFs /\ starts >= MaxStarts - 1

\* The states before a node's own worker comes in.
Early == {"NotInterviewed", "ProtocolInfoPending", "ProtocolInfoDone", "NodeInfoPending"}

InHand(n, s) ==
  jobQueue # <<>> /\ n = Head(jobQueue) /\ jobStep = "dispatch" /\ interviewState[n] = s

\* The node at the front of the queue is the only one that is asked anything.
RequestInHand ==
  /\ requests # <<>> => requests = <<activeNode>> /\ InHand(activeNode, "ProtocolInfoPending")
  /\ jobStep = "request" =>
       activeNode = Head(jobQueue) /\ interviewState[activeNode] = "NotInterviewed"
  /\ jobStep = "complete" => interviewState[Head(jobQueue)] \notin Early

AnswerInHand ==
  /\ (/\ rx = "protocolInfo"
      /\ interviewState[activeNode] = "ProtocolInfoDone"
      /\ isListening[activeNode]) => InHand(activeNode, "ProtocolInfoDone")
  /\ rx = "request" => InHand(decoding, "ProtocolInfoDone") /\ isListening[decoding]

NIFInHand ==
  /\ rx \in {"nif", "decode", "setNIF"} =>
       /\ InHand(decoding, "NodeInfoPending") /\ isListening[decoding]
       /\ \A n \in Nodes : NIF(n) \notin wire
  /\ \A n \in Nodes : NIF(n) \in wire => InHand(n, "NodeInfoPending") /\ isListening[n]
  /\ rx = "failed" => interviewState[decoding] = "NodeInfoPending"

WorkersIdle == \A n \in Nodes : interviewState[n] \in Early => pc[n] = "loop"

\* The nodes that StartInterview's loop has yet to reach.
Ahead ==
  IF startAt > 0 THEN {NodeIds[i] : i \in startAt .. Len(NodeIds)}
  ELSE IF starts = MaxStarts THEN Nodes ELSE {}

StartsOnce ==
  /\ startAt > 0 => starts < MaxStarts
  /\ \A n \in Ahead : interviewState[n] = "NotInterviewed" /\ n \notin Range(jobQueue)

DataOfItsNode == \A n \in Nodes : isListening[n] => n \in Listening

OneAtATime ==
  /\ RequestInHand /\ AnswerInHand /\ NIFInHand
  /\ WorkersIdle /\ StartsOnce /\ DataOfItsNode

Asking == Undisturbed => OneAtATime

LEMMA RangeFacts ==
  ASSUME NEW S, NEW q \in Seq(S)
  PROVE  /\ \A e \in S : Range(Append(q, e)) = Range(q) \cup {e}
         /\ q # <<>> => Head(q) \in Range(q) /\ Range(Tail(q)) \subseteq Range(q)
  <1>1. ASSUME NEW e \in S PROVE Range(Append(q, e)) = Range(q) \cup {e}
    BY AppendProperties DEF Range
  <1>2. ASSUME q # <<>> PROVE Head(q) \in Range(q) /\ Range(Tail(q)) \subseteq Range(q)
    <2>1. Len(q) \in Nat /\ Len(q) >= 1 /\ DOMAIN q = 1 .. Len(q) /\ Head(q) = q[1]
      BY <1>2, EmptySeq, LenProperties
    <2>2. DOMAIN Tail(q) = 1 .. Len(q) - 1 /\ \A i \in 1 .. Len(q) - 1 : Tail(q)[i] = q[i + 1]
      BY <1>2, <2>1, HeadTailProperties
    <2> QED
      BY <2>1, <2>2 DEF Range
  <1> QED
    BY <1>1, <1>2

\* A step that asks nothing, answers nothing and leaves the queue alone.
LEMMA AskingKept ==
  ASSUME Typed, Asking,
         UNCHANGED <<jobQueue, jobStep, requests, activeNode, rx, decoding, isListening,
                     startAt, starts, nifs, dropped>>,
         \A n \in Nodes : NIF(n) \in wire' => NIF(n) \in wire,
         \A n \in Nodes :
           interviewState'[n] = interviewState[n]
             \/ (interviewState[n] \notin Early /\ interviewState'[n] \notin Early),
         \A n \in Nodes : interviewState'[n] \in Early => pc'[n] = "loop"
  PROVE  Asking'
  <1> SUFFICES ASSUME Undisturbed' PROVE OneAtATime'
    BY DEF Asking
  <1>1. OneAtATime
    BY DEF Asking, Undisturbed
  <1>2. \A n \in Nodes : \A s \in Early : InHand(n, s) => InHand(n, s)'
    BY DEF InHand
  <1>3. RequestInHand'
    BY <1>1, <1>2 DEF OneAtATime, RequestInHand, Early, Typed, ThreadsTyped
  <1>4. AnswerInHand'
    <2>1. rx = "request" => decoding \in Nodes
      BY DEF Typed, ThreadsTyped
    <2>2. rx = "protocolInfo" => activeNode \in Nodes
      BY DEF Typed, ThreadsTyped
    <2> QED
      BY <1>1, <1>2, <2>1, <2>2 DEF OneAtATime, AnswerInHand, Early
  <1>5. NIFInHand'
    BY <1>1, <1>2 DEF OneAtATime, NIFInHand, Early, Typed, ThreadsTyped, NIF
  <1>6. WorkersIdle'
    BY DEF WorkersIdle
  <1>7. StartsOnce'
    <2>1. Ahead \subseteq Nodes /\ Ahead' = Ahead
      BY NodeIdsFacts DEF Ahead, Typed, ThreadsTyped
    <2> QED
      BY <1>1, <2>1 DEF OneAtATime, StartsOnce, Early
  <1>8. DataOfItsNode'
    BY <1>1 DEF OneAtATime, DataOfItsNode
  <1> QED
    BY <1>3, <1>4, <1>5, <1>6, <1>7, <1>8 DEF OneAtATime

\* A step of a node's worker is one of them.
LEMMA WorkerKeepsAsking ==
  ASSUME Typed, Asking, NEW n \in Nodes,
         UNCHANGED <<iface, jobs, requests, isListening, bounds, dropped>>,
         \A m \in Nodes : NIF(m) \in wire' => NIF(m) \in wire,
         \A m \in Nodes \ {n} : interviewState'[m] = interviewState[m] /\ pc'[m] = pc[m],
         \/ interviewState'[n] = interviewState[n] /\ (pc'[n] = pc[n] \/ pc'[n] = "loop")
         \/ pc[n] # "loop" /\ interviewState'[n] \in {interviewState[n]} \cup (InterviewState \ Early)
         \/ interviewState[n] \notin Early /\ interviewState'[n] = interviewState[n]
  PROVE  Asking'
  <1> SUFFICES ASSUME Undisturbed PROVE Asking'
    BY DEF Asking, Undisturbed, bounds
  <1>1. WorkersIdle
    BY DEF Asking, OneAtATime
  <1>2. \A m \in Nodes :
          interviewState'[m] = interviewState[m]
            \/ (interviewState[m] \notin Early /\ interviewState'[m] \notin Early)
    <2>1. ASSUME NEW m \in Nodes, m # n PROVE interviewState'[m] = interviewState[m]
      BY <2>1
    <2>2. pc[n] # "loop" => interviewState[n] \notin Early
      BY <1>1 DEF WorkersIdle
    <2>3. interviewState'[n] = interviewState[n]
            \/ (interviewState[n] \notin Early /\ interviewState'[n] \notin Early)
      BY <2>2
    <2> QED
      BY <2>1, <2>3
  <1>3. \A m \in Nodes : interviewState'[m] \in Early => pc'[m] = "loop"
    BY <1>1 DEF WorkersIdle
  <1> QED
    BY <1>2, <1>3, AskingKept DEF iface, jobs, bounds

LEMMA WorkerTaskAsks ==
  ASSUME Typed, Asking, NEW n \in Nodes, WorkerTask(n)
  PROVE  Asking'
  <1> USE DEF node, worker, iface, jobs, bounds, history
  <1>0. pc \in [Nodes -> WorkedOn \cup {"loop", "versions", "manufacturer", "multiChannel"}]
        /\ interviewState \in [Nodes -> InterviewState]
    BY DEF Typed, NodeTyped, WorkerTyped
  <1>1. CASE ReadInterviewState(n)
    BY <1>0, <1>1, WorkerKeepsAsking
    DEF ReadInterviewState, WorkedOn, Goto, Early, InterviewState
  <1>2. CASE BeginVersions(n)
    BY <1>0, <1>2, WorkerKeepsAsking
    DEF BeginVersions, Enter, SetInterviewState, Goto, Early, InterviewState
  <1>3. CASE \E c \in Classes : AskVersion(n, c)
    BY <1>0, <1>3, WorkerKeepsAsking
    DEF AskVersion, VersionLoop, GetVersion, VersionReport, NIF, Early, InterviewState
  <1>4. CASE EndVersions(n)
    BY <1>0, <1>4, WorkerKeepsAsking
    DEF EndVersions, VersionLoop, SetInterviewState, Goto, Early, InterviewState
  <1>5. CASE AwaitVersion(n)
    BY <1>0, <1>5, WorkerKeepsAsking
    DEF AwaitVersion, NextClass, GetVersion, VersionReport, NIF, Early, InterviewState
  <1>6. CASE BeginManufacturer(n)
    BY <1>0, <1>6, WorkerKeepsAsking
    DEF BeginManufacturer, Enter, SetInterviewState, Goto, DeviceReport, NIF, Early,
        InterviewState
  <1>7. CASE EndManufacturer(n)
    BY <1>0, <1>7, WorkerKeepsAsking
    DEF EndManufacturer, SetInterviewState, Goto, Early, InterviewState
  <1>8. CASE BeginMultiChannel(n)
    BY <1>0, <1>8, WorkerKeepsAsking
    DEF BeginMultiChannel, Enter, SetInterviewState, Goto, Early, InterviewState
  <1>9. CASE EndMultiChannel(n)
    BY <1>0, <1>9, WorkerKeepsAsking
    DEF EndMultiChannel, SetInterviewState, Goto, Early, InterviewState
  <1>10. CASE GoToSleep(n)
    BY <1>0, <1>10, WorkerKeepsAsking DEF GoToSleep, Goto, Early, InterviewState
  <1> QED
    BY <1>1, <1>2, <1>3, <1>4, <1>5, <1>6, <1>7, <1>8, <1>9, <1>10 DEF WorkerTask

LEMMA JobWorkerAsks ==
  ASSUME Typed, Asking, JobWorkerLoop
  PROVE  Asking'
  <1> SUFFICES ASSUME Undisturbed PROVE OneAtATime'
    BY DEF Asking, Undisturbed, JobWorkerLoop, JobDone, JobStarts, JobCollected, JobPending,
           Dispatches, RequestNodeProtocolInfo, JobCompletes, bounds, history
  <1>1. /\ RequestInHand /\ AnswerInHand /\ NIFInHand
        /\ WorkersIdle /\ StartsOnce /\ DataOfItsNode
    BY DEF Asking, OneAtATime
  <1>2. jobQueue \in Seq(Nodes) /\ interviewState \in [Nodes -> InterviewState]
    BY DEF Typed, ThreadsTyped, NodeTyped
  <1>3. ASSUME NEW n \in Nodes, JobDone(n) PROVE OneAtATime'
    <2>1. /\ jobQueue # <<>> /\ n = Head(jobQueue) /\ jobQueue' = Tail(jobQueue)
          /\ jobStep = "dispatch" /\ Done(n)
          /\ UNCHANGED <<interviewState, isListening, pc, activeNode, rx, decoding, jobStep,
                         startAt, requests, wire, starts>>
      BY <1>3 DEF JobDone, Dispatches, node, worker, bounds
    <2>2. /\ ~InHand(n, "ProtocolInfoPending") /\ ~InHand(n, "NodeInfoPending")
          /\ isListening[n] => ~InHand(n, "ProtocolInfoDone")
      BY <2>1 DEF InHand, Done
    <2>3. requests = <<>> /\ rx \notin {"request", "nif", "decode", "setNIF"}
          /\ \A m \in Nodes : NIF(m) \notin wire
      BY <1>1, <2>1, <2>2 DEF RequestInHand, AnswerInHand, NIFInHand, InHand
    <2>4. RequestInHand' /\ NIFInHand'
      BY <1>1, <2>1, <2>3 DEF RequestInHand, NIFInHand, NIF
    <2>5. AnswerInHand'
      BY <1>1, <2>1, <2>2, <2>3 DEF AnswerInHand, InHand
    <2>6. StartsOnce'
      BY <1>1, <1>2, <2>1, RangeFacts DEF StartsOnce, Ahead
    <2> QED
      BY <1>1, <2>1, <2>4, <2>5, <2>6 DEF OneAtATime, WorkersIdle, DataOfItsNode
  <1>4. ASSUME NEW n \in Nodes, JobStarts(n) PROVE OneAtATime'
    <2>1. /\ jobQueue # <<>> /\ n = Head(jobQueue) /\ jobStep' = "request" /\ activeNode' = n
          /\ jobStep = "dispatch" /\ interviewState[n] = "NotInterviewed"
          /\ UNCHANGED <<interviewState, isListening, pc, rx, decoding, jobQueue,
                         startAt, requests, wire, starts>>
      BY <1>4 DEF JobStarts, Dispatches, node, worker, bounds
    <2>2. requests = <<>> /\ rx \notin {"request", "nif", "decode", "setNIF"}
          /\ \A m \in Nodes : NIF(m) \notin wire
      BY <1>1, <2>1 DEF RequestInHand, AnswerInHand, NIFInHand, InHand
    <2>3. RequestInHand' /\ NIFInHand' /\ AnswerInHand'
      BY <1>1, <2>1, <2>2 DEF RequestInHand, NIFInHand, AnswerInHand, NIF
    <2>4. StartsOnce'
      BY <1>1, <2>1 DEF StartsOnce, Ahead
    <2> QED
      BY <1>1, <2>1, <2>3, <2>4 DEF OneAtATime, WorkersIdle, DataOfItsNode
  <1>5. ASSUME NEW n \in Nodes, JobCollected(n) PROVE OneAtATime'
    <2>1. /\ n = Head(jobQueue) /\ jobStep' = "complete"
          /\ jobStep = "dispatch" /\ interviewState[n] = "CCMultiChannelDone"
          /\ UNCHANGED <<interviewState, isListening, pc, rx, decoding, jobQueue, activeNode,
                         startAt, requests, wire, starts>>
      BY <1>5 DEF JobCollected, Dispatches, node, worker, bounds
    <2>2. requests = <<>> /\ rx \notin {"request", "nif", "decode", "setNIF"}
          /\ \A m \in Nodes : NIF(m) \notin wire
      BY <1>1, <2>1 DEF RequestInHand, AnswerInHand, NIFInHand, InHand
    <2>3. RequestInHand' /\ NIFInHand' /\ AnswerInHand'
      BY <1>1, <2>1, <2>2 DEF RequestInHand, NIFInHand, AnswerInHand, NIF, InHand, Early
    <2>4. StartsOnce'
      BY <1>1, <2>1 DEF StartsOnce, Ahead
    <2> QED
      BY <1>1, <2>1, <2>3, <2>4 DEF OneAtATime, WorkersIdle, DataOfItsNode
  <1>6. ASSUME NEW n \in Nodes, JobPending(n) PROVE OneAtATime'
    <2>1. UNCHANGED <<interviewState, pc, jobQueue, jobStep, requests, activeNode, rx, decoding,
                      isListening, startAt, starts, nifs, dropped, wire>>
      BY <1>6 DEF JobPending, Dispatches, node, worker, bounds, history
    <2>2. \A m \in Nodes : interviewState'[m] \in Early => pc'[m] = "loop"
      BY <1>1, <2>1 DEF WorkersIdle
    <2>3. Asking'
      BY <2>1, <2>2, AskingKept
    <2> QED
      BY <2>1, <2>3 DEF Asking, Undisturbed
  <1>7. CASE RequestNodeProtocolInfo
    <2>0. PICK n \in Nodes : n = Head(jobQueue) /\ jobQueue # <<>>
      BY <1>7 DEF RequestNodeProtocolInfo, Typed, ThreadsTyped
    <2>1. /\ jobStep = "request" /\ jobStep' = "dispatch"
          /\ interviewState' = [interviewState EXCEPT ![n] = "ProtocolInfoPending"]
          /\ requests' = Append(requests, n)
          /\ UNCHANGED <<isListening, pc, rx, decoding, jobQueue, activeNode, startAt, wire, starts>>
      BY <1>7, <2>0 DEF RequestNodeProtocolInfo, SetInterviewState, worker, iface, bounds
    <2>2. /\ requests = <<>> /\ rx \notin {"request", "nif", "decode", "setNIF"}
          /\ \A m \in Nodes : NIF(m) \notin wire
          /\ activeNode = n /\ interviewState[n] = "NotInterviewed"
      BY <1>1, <2>0, <2>1 DEF RequestInHand, AnswerInHand, NIFInHand, InHand
    <2>3. /\ interviewState'[n] = "ProtocolInfoPending"
          /\ \A m \in Nodes \ {n} : interviewState'[m] = interviewState[m]
      BY <1>2, <2>1
    <2>4. requests' = <<n>>
      BY <2>1, <2>2
    <2>5. RequestInHand' /\ NIFInHand' /\ AnswerInHand'
      <3>1. rx = "failed" => interviewState'[decoding] = "NodeInfoPending"
        BY <1>1, <2>2, <2>3 DEF NIFInHand, Typed, ThreadsTyped
      <3> QED
        BY <2>0, <2>1, <2>2, <2>3, <2>4, <3>1
        DEF RequestInHand, NIFInHand, AnswerInHand, NIF, InHand
    <2>6. StartsOnce'
      <3>1. n \in Range(jobQueue)
        BY <1>2, <2>0, RangeFacts
      <3>2. Ahead \subseteq Nodes /\ Ahead' = Ahead
        BY <2>1, NodeIdsFacts DEF Ahead, Typed, ThreadsTyped
      <3> QED
        BY <1>1, <2>1, <2>3, <3>1, <3>2 DEF StartsOnce
    <2>7. WorkersIdle'
      BY <1>1, <2>1, <2>2, <2>3 DEF WorkersIdle, Early
    <2> QED
      BY <1>1, <2>1, <2>5, <2>6, <2>7 DEF OneAtATime, DataOfItsNode
  <1>8. CASE JobCompletes
    <2>0. PICK n \in Nodes : n = Head(jobQueue) /\ jobQueue # <<>>
      BY <1>8 DEF JobCompletes, Typed, ThreadsTyped
    <2>1. /\ jobStep = "complete" /\ jobStep' = "dispatch"
          /\ interviewState' = [interviewState EXCEPT ![n] = "InterviewDone"]
          /\ UNCHANGED <<requests, isListening, pc, rx, decoding, jobQueue, activeNode, startAt,
                         wire, starts>>
      BY <1>8, <2>0 DEF JobCompletes, SetInterviewState, worker, iface, bounds
    <2>2. /\ requests = <<>> /\ rx \notin {"request", "nif", "decode", "setNIF"}
          /\ \A m \in Nodes : NIF(m) \notin wire
      BY <1>1, <2>1 DEF RequestInHand, AnswerInHand, NIFInHand, InHand
    <2>3. /\ interviewState'[n] = "InterviewDone"
          /\ \A m \in Nodes \ {n} : interviewState'[m] = interviewState[m]
      BY <1>2, <2>1
    <2>4. rx = "protocolInfo" => activeNode \in Nodes
      BY DEF Typed, ThreadsTyped
    <2>5. RequestInHand' /\ NIFInHand' /\ AnswerInHand'
      <3>1. rx = "failed" => interviewState'[decoding] = "NodeInfoPending"
        BY <1>1, <2>0, <2>1, <2>3 DEF RequestInHand, NIFInHand, Early, Typed, ThreadsTyped
      <3> QED
        BY <1>1, <2>1, <2>2, <2>3, <2>4, <3>1
        DEF RequestInHand, NIFInHand, AnswerInHand, NIF, InHand
    <2>6. StartsOnce'
      <3>1. n \in Range(jobQueue)
        BY <1>2, <2>0, RangeFacts
      <3>2. Ahead \subseteq Nodes /\ Ahead' = Ahead
        BY <2>1, NodeIdsFacts DEF Ahead, Typed, ThreadsTyped
      <3> QED
        BY <1>1, <2>1, <2>3, <3>1, <3>2 DEF StartsOnce
    <2>7. WorkersIdle'
      BY <1>1, <2>1, <2>3 DEF WorkersIdle, Early
    <2> QED
      BY <1>1, <2>1, <2>5, <2>6, <2>7 DEF OneAtATime, DataOfItsNode
  <1> QED
    BY <1>3, <1>4, <1>5, <1>6, <1>7, <1>8 DEF JobWorkerLoop

LEMMA StartInterviewAsks ==
  ASSUME Typed, Asking, CallStartInterview \/ StartInterview
  PROVE  Asking'
  <1> SUFFICES ASSUME Undisturbed' PROVE OneAtATime'
    BY DEF Asking
  <1>1. starts \in 0 .. MaxStarts /\ MaxStarts \in Nat
    BY NodeInterviewAssumption DEF Typed, NetworkTyped
  <1>2. Undisturbed
    BY <1>1 DEF Undisturbed, CallStartInterview, StartInterview, bounds, history
  <1>3. /\ RequestInHand /\ AnswerInHand /\ NIFInHand
        /\ WorkersIdle /\ StartsOnce /\ DataOfItsNode
    BY <1>2 DEF Asking, OneAtATime
  <1>4. jobQueue \in Seq(Nodes) /\ interviewState \in [Nodes -> InterviewState]
    BY DEF Typed, ThreadsTyped, NodeTyped
  <1>5. CASE CallStartInterview
    <2>1. /\ starts' = starts - 1 /\ startAt = 0 /\ startAt' = 1
          /\ UNCHANGED <<interviewState, isListening, pc, activeNode, rx, decoding, jobStep,
                         jobQueue, requests, wire>>
      BY <1>5 DEF CallStartInterview, node, worker, iface
    <2>2. starts = MaxStarts
      BY <1>1, <2>1 DEF Undisturbed
    <2>3. StartsOnce'
      <3>1. Ahead = Nodes /\ Ahead' \subseteq Nodes
        BY <2>1, <2>2, NodeIdsFacts DEF Ahead
      <3> QED
        BY <1>1, <1>3, <2>1, <2>2, <3>1 DEF StartsOnce
    <2> QED
      BY <1>3, <2>1, <2>3 DEF OneAtATime, RequestInHand, AnswerInHand, NIFInHand, InHand,
                              WorkersIdle, DataOfItsNode
  <1>6. CASE StartInterview
    <2>1. startAt \in 1 .. Len(NodeIds) /\ Len(NodeIds) \in Nat
      BY <1>6, NodeIdsFacts DEF StartInterview, Typed, ThreadsTyped
    <2>2. PICK n \in Nodes : n = NodeIds[startAt]
      BY <2>1, NodeIdsFacts
    <2>3. /\ startAt' = IF startAt < Len(NodeIds) THEN startAt + 1 ELSE 0
          /\ interviewState' = [interviewState EXCEPT ![n] = "NotInterviewed"]
          /\ jobQueue' = Append(jobQueue, n)
          /\ UNCHANGED <<isListening, pc, activeNode, rx, decoding, jobStep, requests, wire, starts>>
      BY <1>6, <2>2 DEF StartInterview, SetInterviewState, worker, iface, bounds
    <2>4. n \in Ahead
      BY <2>1, <2>2 DEF Ahead
    <2>5. interviewState[n] = "NotInterviewed" /\ starts < MaxStarts
      BY <1>3, <2>1, <2>4 DEF StartsOnce
    <2>6. interviewState' = interviewState
      BY <1>4, <2>3, <2>5
    <2>7. jobQueue # <<>> => Head(jobQueue') = Head(jobQueue) /\ jobQueue' # <<>>
      BY <1>4, <2>3, QueueFacts
    <2>8. jobStep \in {"request", "complete"} => jobQueue # <<>>
      BY DEF Typed, ThreadsTyped
    <2>9. RequestInHand' /\ AnswerInHand' /\ NIFInHand'
      BY <1>3, <2>3, <2>6, <2>7, <2>8
      DEF RequestInHand, AnswerInHand, NIFInHand, InHand, NIF
    <2>10. Ahead' \subseteq Ahead \ {n}
      <3>1. \A i, j \in 1 .. Len(NodeIds) : NodeIds[i] = NodeIds[j] => i = j
        BY NodeInterviewAssumption DEF IsInjective
      <3> QED
        BY <1>1, <2>1, <2>2, <2>3, <2>5, <3>1 DEF Ahead
    <2>11. StartsOnce'
      <3>1. Range(jobQueue') = Range(jobQueue) \cup {n}
        BY <1>4, <2>3, RangeFacts
      <3> QED
        BY <1>3, <2>3, <2>5, <2>6, <2>10, <3>1 DEF StartsOnce
    <2> QED
      BY <1>3, <2>3, <2>6, <2>9, <2>11 DEF OneAtATime, WorkersIdle, DataOfItsNode
  <1> QED
    BY <1>5, <1>6

LEMMA AnswersAsk ==
  ASSUME Typed, Asking, HandleProtocolInfo \/ LookAtActiveNode \/ RequestNodeInformation
  PROVE  Asking'
  <1> SUFFICES ASSUME Undisturbed PROVE OneAtATime'
    BY DEF Asking, Undisturbed, HandleProtocolInfo, LookAtActiveNode, RequestNodeInformation,
           bounds, history
  <1>1. /\ RequestInHand /\ AnswerInHand /\ NIFInHand
        /\ WorkersIdle /\ StartsOnce /\ DataOfItsNode
    BY DEF Asking, OneAtATime
  <1>2. /\ jobQueue \in Seq(Nodes) /\ requests \in Seq(Nodes)
        /\ interviewState \in [Nodes -> InterviewState] /\ isListening \in [Nodes -> BOOLEAN]
    BY DEF Typed, ThreadsTyped, NodeTyped
  <1>3. Ahead \subseteq Nodes
    BY NodeIdsFacts DEF Ahead, Typed, ThreadsTyped
  <1>4. CASE HandleProtocolInfo
    <2>0. PICK n \in Nodes : n = activeNode
      BY <1>4 DEF HandleProtocolInfo, Typed, ThreadsTyped
    <2>1. /\ requests = <<n>> /\ InHand(n, "ProtocolInfoPending") /\ rx = "idle"
      BY <1>1, <1>4, <2>0 DEF HandleProtocolInfo, RequestInHand
    <2>2. /\ requests' = <<>> /\ rx' = "protocolInfo"
          /\ isListening' = [isListening EXCEPT ![n] = n \in Listening]
          /\ interviewState' = [interviewState EXCEPT ![n] = "ProtocolInfoDone"]
          /\ UNCHANGED <<pc, activeNode, decoding, jobQueue, jobStep, startAt, wire, starts>>
      BY <1>4, <2>0, <2>1 DEF HandleProtocolInfo, SetInterviewState, worker, jobs, bounds
    <2>3. /\ interviewState'[n] = "ProtocolInfoDone"
          /\ \A m \in Nodes \ {n} :
               interviewState'[m] = interviewState[m] /\ isListening'[m] = isListening[m]
      BY <1>2, <2>2
    <2>4. isListening'[n] => n \in Listening
      BY <1>2, <2>2, Zenon
    <2>5. \A m \in Nodes : NIF(m) \notin wire
      BY <1>1, <2>1 DEF NIFInHand, InHand
    <2>6. RequestInHand' /\ AnswerInHand' /\ NIFInHand'
      BY <2>0, <2>1, <2>2, <2>3, <2>5 DEF RequestInHand, AnswerInHand, NIFInHand, InHand, NIF
    <2>7. WorkersIdle' /\ DataOfItsNode'
      BY <1>1, <2>1, <2>2, <2>3, <2>4 DEF WorkersIdle, DataOfItsNode, InHand, Early
    <2>8. StartsOnce'
      <3>1. n \in Range(jobQueue) /\ Ahead' = Ahead
        BY <1>2, <2>1, <2>2, RangeFacts DEF InHand, Ahead
      <3> QED
        BY <1>1, <1>3, <2>2, <2>3, <3>1 DEF StartsOnce
    <2> QED
      BY <2>6, <2>7, <2>8 DEF OneAtATime
  <1>5. CASE LookAtActiveNode
    <2>1. /\ rx = "protocolInfo"
          /\ \/ /\ interviewState[activeNode] = "ProtocolInfoDone" /\ isListening[activeNode]
                /\ rx' = "request" /\ decoding' = activeNode
             \/ rx' = "idle" /\ decoding' = decoding
          /\ UNCHANGED <<interviewState, isListening, pc, activeNode, jobQueue, jobStep, startAt,
                         requests, wire, starts>>
      BY <1>5 DEF LookAtActiveNode, node, worker, jobs, bounds
    <2>2. AnswerInHand'
      BY <1>1, <2>1 DEF AnswerInHand, InHand
    <2>3. RequestInHand' /\ NIFInHand'
      BY <1>1, <2>1 DEF RequestInHand, NIFInHand, InHand, NIF
    <2> QED
      BY <1>1, <2>1, <2>2, <2>3 DEF OneAtATime, WorkersIdle, StartsOnce, Ahead, DataOfItsNode
  <1>6. CASE RequestNodeInformation
    <2>0. PICK n \in Nodes : n = decoding
      BY <1>6 DEF RequestNodeInformation, Typed, ThreadsTyped
    <2>1. InHand(n, "ProtocolInfoDone") /\ isListening[n] /\ rx = "request"
      BY <1>1, <1>6, <2>0 DEF RequestNodeInformation, AnswerInHand
    <2>2. /\ rx' = "idle" /\ wire' = wire \cup {NIF(n)}
          /\ interviewState' = [interviewState EXCEPT ![n] = "NodeInfoPending"]
          /\ UNCHANGED <<pc, activeNode, isListening, requests, jobQueue, jobStep, startAt, starts>>
      BY <1>6, <2>0 DEF RequestNodeInformation, SetInterviewState, worker, jobs, bounds
    <2>3. /\ interviewState'[n] = "NodeInfoPending"
          /\ \A m \in Nodes \ {n} : interviewState'[m] = interviewState[m]
      BY <1>2, <2>2
    <2>4. requests = <<>> /\ jobStep = "dispatch" /\ \A m \in Nodes : NIF(m) \notin wire
      BY <1>1, <2>1 DEF RequestInHand, NIFInHand, InHand
    <2>5. \A m \in Nodes : NIF(m) \in wire' => m = n
      BY <2>2, <2>4 DEF NIF
    <2>6. RequestInHand' /\ AnswerInHand' /\ NIFInHand'
      BY <2>1, <2>2, <2>3, <2>4, <2>5 DEF RequestInHand, AnswerInHand, NIFInHand, InHand, NIF
    <2>7. WorkersIdle' /\ DataOfItsNode'
      BY <1>1, <2>1, <2>2, <2>3 DEF WorkersIdle, DataOfItsNode, InHand, Early
    <2>8. StartsOnce'
      <3>1. n \in Range(jobQueue) /\ Ahead' = Ahead
        BY <1>2, <2>1, <2>2, RangeFacts DEF InHand, Ahead
      <3> QED
        BY <1>1, <1>3, <2>2, <2>3, <3>1 DEF StartsOnce
    <2> QED
      BY <2>6, <2>7, <2>8 DEF OneAtATime
  <1> QED
    BY <1>4, <1>5, <1>6

LEMMA NIFsAsk ==
  ASSUME Typed, Asking,
         \/ \E n \in Nodes : HandleNIF(n)
         \/ DecodeNodeInfo \/ BeginSetNIF \/ EndSetNIF \/ RejectNIF
  PROVE  Asking'
  <1> SUFFICES ASSUME Undisturbed PROVE OneAtATime'
    BY DEF Asking, Undisturbed, HandleNIF, Receives, DecodeNodeInfo, BeginSetNIF, EndSetNIF,
           RejectNIF, bounds, history
  <1>1. /\ RequestInHand /\ AnswerInHand /\ NIFInHand
        /\ WorkersIdle /\ StartsOnce /\ DataOfItsNode
    BY DEF Asking, OneAtATime
  <1>2. jobQueue \in Seq(Nodes) /\ interviewState \in [Nodes -> InterviewState]
    BY DEF Typed, ThreadsTyped, NodeTyped
  <1>3. Ahead \subseteq Nodes
    BY NodeIdsFacts DEF Ahead, Typed, ThreadsTyped
  <1>4. ASSUME NEW n \in Nodes, HandleNIF(n) PROVE OneAtATime'
    <2>1. /\ rx = "idle" /\ rx' = "nif" /\ decoding' = n /\ jobQueue' = Append(jobQueue, n)
          /\ NIF(n) \in wire /\ wire' = wire \ {NIF(n)}
          /\ UNCHANGED <<interviewState, isListening, pc, activeNode, jobStep, startAt, requests,
                         starts>>
      BY <1>4 DEF HandleNIF, Receives, node, worker, bounds
    <2>2. InHand(n, "NodeInfoPending") /\ isListening[n]
      BY <1>1, <2>1 DEF NIFInHand
    <2>3. \A m \in Nodes : NIF(m) \notin wire'
      BY <1>1, <2>1, <2>2 DEF NIFInHand, InHand
    <2>4. jobQueue' # <<>> /\ Head(jobQueue') = n /\ Range(jobQueue') = Range(jobQueue)
      <3>1. jobQueue # <<>> /\ n = Head(jobQueue)
        BY <2>2 DEF InHand
      <3>2. n \in Range(jobQueue) /\ Range(jobQueue') = Range(jobQueue) \cup {n}
        BY <1>2, <2>1, <3>1, RangeFacts
      <3> QED
        BY <1>2, <2>1, <3>1, <3>2, QueueFacts
    <2>5. requests = <<>> /\ jobStep = "dispatch"
      BY <1>1, <2>2 DEF RequestInHand, InHand
    <2>6. RequestInHand' /\ AnswerInHand' /\ NIFInHand'
      BY <2>1, <2>2, <2>3, <2>4, <2>5 DEF RequestInHand, AnswerInHand, NIFInHand, InHand, NIF
    <2> QED
      BY <1>1, <2>1, <2>4, <2>6 DEF OneAtATime, WorkersIdle, StartsOnce, Ahead, DataOfItsNode
  <1>5. CASE DecodeNodeInfo \/ BeginSetNIF \/ EndSetNIF \/ RejectNIF
    <2>0. PICK n \in Nodes : n = decoding
      BY <1>5 DEF DecodeNodeInfo, BeginSetNIF, EndSetNIF, RejectNIF, Typed, ThreadsTyped
    <2>1. /\ InHand(n, "NodeInfoPending") /\ isListening[n] /\ rx \in {"nif", "decode", "setNIF"}
          /\ \A m \in Nodes : NIF(m) \notin wire
      BY <1>1, <1>5, <2>0 DEF DecodeNodeInfo, BeginSetNIF, EndSetNIF, RejectNIF, NIFInHand
    <2>2. requests = <<>> /\ jobStep = "dispatch" /\ interviewState[n] = "NodeInfoPending"
      BY <1>1, <2>1 DEF RequestInHand, InHand
    <2>3. /\ UNCHANGED <<isListening, pc, jobQueue, jobStep, startAt, starts, requests, wire>>
          /\ \/ /\ UNCHANGED interviewState
                /\ rx' = "idle" \/ (rx' \in {"decode", "setNIF"} /\ decoding' = decoding)
             \/ /\ interviewState' = [interviewState EXCEPT ![n] = "NodeInfoDone"]
                /\ rx' = "idle"
      <3>1. [interviewState EXCEPT ![n] = "NodeInfoPending"] = interviewState
        BY <1>2, <2>2
      <3>2. CASE DecodeNodeInfo
        BY <2>0, <2>2, <3>2 DEF DecodeNodeInfo, worker, jobs, bounds
      <3>3. CASE BeginSetNIF
        BY <2>0, <2>2, <3>1, <3>3 DEF BeginSetNIF, SetInterviewState, worker, jobs, bounds
      <3>4. CASE EndSetNIF
        BY <2>0, <3>4 DEF EndSetNIF, SetInterviewState, worker, jobs, bounds
      <3>5. CASE RejectNIF
        BY <2>0, <3>1, <3>5 DEF RejectNIF, worker, jobs
      <3> QED
        BY <1>5, <3>2, <3>3, <3>4, <3>5
    <2>4. \A m \in Nodes \ {n} : interviewState'[m] = interviewState[m]
      BY <1>2, <2>3
    <2>5. interviewState'[n] = "NodeInfoDone" \/ UNCHANGED interviewState
      BY <1>2, <2>3
    <2>6. RequestInHand' /\ AnswerInHand' /\ NIFInHand'
      BY <2>0, <2>1, <2>2, <2>3 DEF RequestInHand, AnswerInHand, NIFInHand, InHand, NIF
    <2>7. WorkersIdle' /\ DataOfItsNode'
      BY <1>1, <2>3, <2>4, <2>5 DEF WorkersIdle, DataOfItsNode, Early
    <2>8. StartsOnce'
      <3>1. n \in Range(jobQueue) /\ Ahead' = Ahead
        BY <1>2, <2>1, <2>3, RangeFacts DEF InHand, Ahead
      <3> QED
        BY <1>1, <1>3, <2>3, <2>4, <3>1 DEF StartsOnce
    <2> QED
      BY <2>6, <2>7, <2>8 DEF OneAtATime
  <1> QED
    BY <1>4, <1>5

LEMMA FailedNIFsAsk ==
  ASSUME Typed, Asking, (\E n \in Nodes : HandleNIFFailed(n)) \/ RestoreNodeInfoPending
  PROVE  Asking'
  <1> SUFFICES ASSUME Undisturbed PROVE OneAtATime'
    BY DEF Asking, Undisturbed, HandleNIFFailed, RestoreNodeInfoPending, bounds, history
  <1>1. /\ RequestInHand /\ AnswerInHand /\ NIFInHand
        /\ WorkersIdle /\ StartsOnce /\ DataOfItsNode
    BY DEF Asking, OneAtATime
  <1>2. /\ wire' \subseteq wire
        /\ rx' = "idle" \/ (rx' = "failed" /\ interviewState[decoding'] = "NodeInfoPending")
        /\ UNCHANGED <<interviewState, isListening, pc, activeNode, jobQueue, jobStep, startAt,
                       requests, starts>>
    <2>1. CASE \E n \in Nodes : HandleNIFFailed(n)
      BY <2>1 DEF HandleNIFFailed, Receives, AwaitsNIF, node, worker, jobs
    <2>2. CASE RestoreNodeInfoPending
      <3>1. interviewState[decoding] = "NodeInfoPending" /\ decoding \in Nodes
        BY <1>1, <2>2 DEF RestoreNodeInfoPending, NIFInHand, Typed, ThreadsTyped
      <3>2. [interviewState EXCEPT ![decoding] = "NodeInfoPending"] = interviewState
        BY <3>1 DEF Typed, NodeTyped
      <3> QED
        BY <2>2, <3>2 DEF RestoreNodeInfoPending, SetInterviewState, worker, jobs, bounds
    <2> QED
      BY <2>1, <2>2
  <1>3. RequestInHand' /\ AnswerInHand' /\ NIFInHand'
    BY <1>1, <1>2 DEF RequestInHand, AnswerInHand, NIFInHand, InHand, NIF
  <1> QED
    BY <1>1, <1>2, <1>3 DEF OneAtATime, WorkersIdle, StartsOnce, Ahead, DataOfItsNode

LEMMA FramesAsk ==
  ASSUME Typed, Asking,
         \/ \E n \in Nodes :
              \/ HandleDeviceReport(n) \/ SendNIF(n) \/ LoseNIF(n)
              \/ \E c \in Classes : HandleVersionReport(n, c)
         \/ \E f \in wire : LoseReport(f)
         \/ LoseProtocolInfo \/ JobTimeout \/ UNCHANGED vars
  PROVE  Asking'
  <1> SUFFICES ASSUME Undisturbed' PROVE OneAtATime'
    BY DEF Asking
  <1>1. Undisturbed
    BY DEF Undisturbed, HandleDeviceReport, HandleVersionReport, SendNIF, LoseNIF, LoseReport,
           LoseProtocolInfo, JobTimeout, JobExpires, Typed, NetworkTyped, bounds, history, vars
  <1>2. OneAtATime
    BY <1>1 DEF Asking
  <1>3. CASE LoseProtocolInfo
    <2>1. /\ UNCHANGED <<interviewState, isListening, pc, activeNode, rx, decoding, jobQueue,
                         jobStep, startAt, wire, starts>>
          /\ requests # <<>> /\ requests' = Tail(requests)
      BY <1>3 DEF LoseProtocolInfo, node, worker, iface, jobs
    <2>2. requests' = <<>>
      BY <1>2, <2>1 DEF OneAtATime, RequestInHand
    <2>3. RequestInHand' /\ AnswerInHand' /\ NIFInHand'
      BY <1>2, <2>1, <2>2 DEF OneAtATime, RequestInHand, AnswerInHand, NIFInHand, InHand, NIF
    <2> QED
      BY <1>2, <2>1, <2>3 DEF OneAtATime, WorkersIdle, StartsOnce, Ahead, DataOfItsNode
  <1>4. CASE ~LoseProtocolInfo
    <2>1. ~JobTimeout /\ \A n \in Nodes : ~SendNIF(n)
      BY NodeInterviewAssumption
      DEF JobTimeout, JobExpires, SendNIF, Undisturbed, Typed, NetworkTyped
    <2>2. /\ UNCHANGED <<interviewState, pc, jobQueue, jobStep, requests, activeNode, rx, decoding,
                         isListening, startAt, starts, nifs, dropped>>
          /\ wire' \subseteq wire
      BY <1>4, <2>1 DEF HandleDeviceReport, HandleVersionReport, Receives, LoseNIF, LoseReport,
                        node, worker, iface, jobs, bounds, history, vars
    <2>3. \A n \in Nodes : interviewState'[n] \in Early => pc'[n] = "loop"
      BY <1>2, <2>2 DEF OneAtATime, WorkersIdle
    <2>4. \A n \in Nodes : NIF(n) \in wire' => NIF(n) \in wire
      BY <2>2
    <2>5. Asking'
      BY <2>2, <2>3, <2>4, AskingKept
    <2> QED
      BY <2>5 DEF Asking
  <1> QED
    BY <1>3, <1>4

-----------------------------------------------------------------------------
\* The inductive invariant.
IInv == Typed /\ NIFsAccount /\ VersionBudget /\ Lesson /\ Asking

LEMMA InitEstablishes == Init => IInv
  <1> SUFFICES ASSUME Init PROVE IInv
    OBVIOUS
  <1>1. Typed
    <2>1. NodeTyped
      BY DEF Init, NodeTyped, InterviewState
    <2>2. WorkerTyped
      <3>1. 0 \in 0 .. MaxTries
        BY NodeInterviewAssumption
      <3> QED
        BY <3>1 DEF Init, WorkerTyped
    <2>3. ThreadsTyped
      <3>1. <<>> \in Seq(Nodes) /\ 0 \in 0 .. Len(NodeIds)
        BY EmptySeq, NodeIdsFacts
      <3> QED
        BY <3>1 DEF Init, ThreadsTyped
    <2>4. NetworkTyped
      BY NodeInterviewAssumption DEF Init, NetworkTyped
    <2>5. HistoryTyped
      BY DEF Init, HistoryTyped
    <2> QED
      BY <2>1, <2>2, <2>3, <2>4, <2>5 DEF Typed
  <1>2. \A n \in Nodes : ~Decoding(n) /\ ~Working(n) /\ ~Completing(n) /\ ~LoopAhead(n) /\ ~Past(n)
    BY DEF Init, Decoding, Working, InPhase, Completing, LoopAhead, Past, LaterPhases, Phases
  <1>3. NIFsAccount
    <2> SUFFICES ASSUME NEW n \in Nodes
                 PROVE  completed[n] + One(Decoding(n)) + One(Working(n)) + One(Completing(n))
                          <= decoded[n]
      BY DEF Init, NIFsAccount
    <2>1. completed[n] = 0 /\ decoded[n] = 0
      BY DEF Init
    <2> HIDE DEF Decoding, Working, Completing
    <2> QED
      BY <1>2, <2>1 DEF One
  <1>4. VersionBudget
    <2> SUFFICES ASSUME NEW n \in Nodes, NEW c \in Classes
                 PROVE  asked[n][c] + Left(n, c) + Share(Decoding(n)) + Share(LoopAhead(n))
                          <= MaxTries * decoded[n]
      BY DEF VersionBudget
    <2>1. asked[n][c] = 0 /\ Left(n, c) = 0 /\ decoded[n] = 0
      BY DEF Init, Left
    <2>2. MaxTries * 0 = 0
      BY NodeInterviewAssumption
    <2> HIDE DEF Decoding, LoopAhead
    <2> QED
      BY <1>2, <2>1, <2>2 DEF Share
  <1>5. Lesson
    BY <1>2 DEF Init, Lesson, LessonOf
  <1>6. Asking
    <2>1. Range(jobQueue) = {}
      BY DEF Init, Range
    <2>2. Ahead \subseteq Nodes
      BY NodeIdsFacts DEF Init, Ahead
    <2> QED
      BY <2>1, <2>2
      DEF Init, Asking, OneAtATime, RequestInHand, AnswerInHand, NIFInHand, WorkersIdle,
                        StartsOnce, DataOfItsNode
  <1> QED
    BY <1>1, <1>3, <1>4, <1>5, <1>6 DEF IInv

LEMMA NextKeepsTyped == Typed /\ [Next]_vars => Typed'
  <1> SUFFICES ASSUME Typed, [Next]_vars PROVE Typed'
    OBVIOUS
  <1>1. CASE JobWorkerLoop \/ JobTimeout \/ CallStartInterview \/ StartInterview
    BY <1>1, JobDoneTyped, JobStartsTyped, JobCollectedTyped, JobPendingTyped,
       RequestNodeProtocolInfoTyped, JobCompletesTyped, JobTimeoutTyped,
       CallStartInterviewTyped, StartInterviewTyped
    DEF JobWorkerLoop
  <1>2. CASE OnFrameReceived
    BY <1>2, HandleProtocolInfoTyped, LookAtActiveNodeTyped, RequestNodeInformationTyped,
       DecodeNodeInfoTyped, BeginSetNIFTyped, EndSetNIFTyped, RestoreNodeInfoPendingTyped,
       HandleNIFTyped,
       HandleDeviceReportTyped, HandleVersionReportTyped
    DEF OnFrameReceived
  <1>3. ASSUME NEW n \in Nodes, WorkerTask(n) PROVE Typed'
    BY <1>3, ReadInterviewStateTyped, BeginVersionsTyped, AskVersionTyped, EndVersionsTyped,
       AwaitVersionTyped, BeginManufacturerTyped, EndManufacturerTyped, BeginMultiChannelTyped,
       EndMultiChannelTyped, GoToSleepTyped
    DEF WorkerTask
  <1>4. CASE Network
    BY <1>4, SendNIFTyped, LoseNIFTyped, HandleNIFFailedTyped,
       LoseReportTyped, LoseProtocolInfoTyped, RejectNIFTyped
    DEF Network
  <1>5. CASE UNCHANGED vars
    BY <1>5 DEF vars, node, worker, iface, jobs, bounds, history, Typed, NodeTyped, WorkerTyped,
                ThreadsTyped, NetworkTyped, HistoryTyped
  <1> QED
    BY <1>1, <1>2, <1>3, <1>4, <1>5 DEF Next

LEMMA NextKeepsAccount == Typed /\ NIFsAccount /\ [Next]_vars => NIFsAccount'
  <1> SUFFICES ASSUME Typed, NIFsAccount, [Next]_vars PROVE NIFsAccount'
    OBVIOUS
  <1>1. CASE JobWorkerLoop \/ JobTimeout \/ CallStartInterview \/ StartInterview
    BY <1>1, JobDoneAccounts, JobStartsAccounts, JobCollectedAccounts, JobPendingAccounts,
       RequestNodeProtocolInfoAccounts, JobCompletesAccounts, JobTimeoutAccounts,
       CallStartInterviewAccounts, StartInterviewAccounts
    DEF JobWorkerLoop
  <1>2. CASE OnFrameReceived
    BY <1>2, HandleProtocolInfoAccounts, LookAtActiveNodeAccounts,
       RequestNodeInformationAccounts, DecodeNodeInfoAccounts, BeginSetNIFAccounts,
       EndSetNIFAccounts, RestoreNodeInfoPendingAccounts,
       HandleNIFAccounts, HandleDeviceReportAccounts,
       HandleVersionReportAccounts
    DEF OnFrameReceived
  <1>3. ASSUME NEW n \in Nodes, WorkerTask(n) PROVE NIFsAccount'
    BY <1>3, ReadInterviewStateAccounts, BeginVersionsAccounts, AskVersionAccounts,
       EndVersionsAccounts, AwaitVersionAccounts, BeginManufacturerAccounts,
       EndManufacturerAccounts, BeginMultiChannelAccounts, EndMultiChannelAccounts,
       GoToSleepAccounts
    DEF WorkerTask
  <1>4. CASE Network
    BY <1>4, SendNIFAccounts, LoseNIFAccounts, HandleNIFFailedAccounts,
       LoseReportAccounts, LoseProtocolInfoAccounts,
       RejectNIFAccounts
    DEF Network
  <1>5. CASE UNCHANGED vars
    <2>1. /\ UNCHANGED <<completed, decoded>>
          /\ \A n \in Nodes : (Decoding(n)' <=> Decoding(n)) /\ (Completing(n)' <=> Completing(n))
      BY <1>5 DEF vars, iface, jobs, history, Decoding, Completing
    <2>2. \A n \in Nodes : Working(n)' => Working(n)
      BY <1>5 DEF vars, node, worker, jobs, Working, InPhase, Completing
    <2>3. \A n \in Nodes : interviewState'[n] = "CCMultiChannelDone" => pc'[n] = "loop"
      BY <1>5 DEF vars, node, worker, NIFsAccount
    <2> QED
      BY <2>1, <2>2, <2>3, AccountKept
  <1> QED
    BY <1>1, <1>2, <1>3, <1>4, <1>5 DEF Next

LEMMA NextKeepsBudget == Typed /\ Typed' /\ VersionBudget /\ [Next]_vars => VersionBudget'
  <1> SUFFICES ASSUME Typed, Typed', VersionBudget, [Next]_vars PROVE VersionBudget'
    OBVIOUS
  <1>1. CASE JobWorkerLoop \/ JobTimeout \/ CallStartInterview \/ StartInterview
    BY <1>1, JobDoneBudget, JobStartsBudget, JobCollectedBudget, JobPendingBudget,
       RequestNodeProtocolInfoBudget, JobCompletesBudget, JobTimeoutBudget,
       CallStartInterviewBudget, StartInterviewBudget
    DEF JobWorkerLoop
  <1>2. CASE OnFrameReceived
    BY <1>2, HandleProtocolInfoBudget, LookAtActiveNodeBudget, RequestNodeInformationBudget,
       DecodeNodeInfoBudget, BeginSetNIFBudget, EndSetNIFBudget, RestoreNodeInfoPendingBudget,
       HandleNIFBudget,
       HandleDeviceReportBudget, HandleVersionReportBudget
    DEF OnFrameReceived
  <1>3. ASSUME NEW n \in Nodes, WorkerTask(n) PROVE VersionBudget'
    BY <1>3, ReadInterviewStateBudget, BeginVersionsBudget, AskVersionBudget,
       EndVersionsBudget, AwaitVersionBudget, BeginManufacturerBudget, EndManufacturerBudget,
       BeginMultiChannelBudget, EndMultiChannelBudget, GoToSleepBudget
    DEF WorkerTask
  <1>4. CASE Network
    BY <1>4, SendNIFBudget, LoseNIFBudget, HandleNIFFailedBudget,
       LoseReportBudget, LoseProtocolInfoBudget,
       RejectNIFBudget
    DEF Network
  <1>5. CASE UNCHANGED vars
    <2>1. UNCHANGED decoded
      BY <1>5 DEF vars, history
    <2>2. \A n \in Nodes : (Decoding(n)' => Decoding(n)) /\ (LoopAhead(n)' => LoopAhead(n))
      BY <1>5 DEF vars, node, worker, iface, Decoding, LoopAhead
    <2>3. \A n \in Nodes : \A c \in Classes :
            asked'[n][c] = asked[n][c] /\ Left(n, c)' = Left(n, c)
      BY <1>5 DEF vars, worker, history, Left
    <2>4. \A n \in Nodes : \A c \in Classes : asked[n][c] \in Nat /\ Left(n, c) \in 0 .. MaxTries
      BY BudgetTypes
    <2>5. \A n \in Nodes : \A c \in Classes :
            asked'[n][c] + Left(n, c)' <= asked[n][c] + Left(n, c)
      <3> HIDE DEF Left
      <3> QED
        BY <2>3, <2>4, NodeInterviewAssumption
    <2> QED
      BY <2>1, <2>2, <2>5, BudgetKept
  <1> QED
    BY <1>1, <1>2, <1>3, <1>4, <1>5 DEF Next

LEMMA NextKeepsLesson == IInv /\ Typed' /\ VersionBudget' /\ [Next]_vars => Lesson'
  <1> SUFFICES ASSUME Typed, NIFsAccount, VersionBudget, Lesson, Typed', VersionBudget', [Next]_vars
               PROVE  Lesson'
    BY DEF IInv
  <1>1. CASE JobWorkerLoop \/ JobTimeout \/ CallStartInterview \/ StartInterview
    BY <1>1, JobDoneLesson, JobStartsLesson, JobCollectedLesson, JobPendingLesson,
       RequestNodeProtocolInfoLesson, JobCompletesLesson, JobTimeoutLesson,
       CallStartInterviewLesson, StartInterviewLesson
    DEF JobWorkerLoop
  <1>2. CASE OnFrameReceived
    BY <1>2, HandleProtocolInfoLesson, LookAtActiveNodeLesson, RequestNodeInformationLesson,
       DecodeNodeInfoLesson, BeginSetNIFLesson, EndSetNIFLesson, RestoreNodeInfoPendingLesson,
       HandleNIFLesson,
       HandleDeviceReportLesson, HandleVersionReportLesson
    DEF OnFrameReceived
  <1>3. ASSUME NEW n \in Nodes, WorkerTask(n) PROVE Lesson'
    BY <1>3, ReadInterviewStateLesson, BeginVersionsLesson, AskVersionLesson,
       EndVersionsLesson, AwaitVersionLesson, BeginManufacturerLesson, EndManufacturerLesson,
       BeginMultiChannelLesson, EndMultiChannelLesson, GoToSleepLesson
    DEF WorkerTask
  <1>4. CASE Network
    BY <1>4, SendNIFLesson, LoseNIFLesson, HandleNIFFailedLesson,
       LoseReportLesson, LoseProtocolInfoLesson,
       RejectNIFLesson
    DEF Network
  <1>5. CASE UNCHANGED vars
    BY <1>5, LessonKept
    DEF vars, node, worker, iface, jobs, history, Lesson, Decoding, Past, Completing
  <1> QED
    BY <1>1, <1>2, <1>3, <1>4, <1>5 DEF Next

LEMMA NextKeepsAsking == Typed /\ Asking /\ [Next]_vars => Asking'
  <1> SUFFICES ASSUME Typed, Asking, [Next]_vars PROVE Asking'
    OBVIOUS
  <1>1. CASE JobWorkerLoop \/ CallStartInterview \/ StartInterview
    BY <1>1, JobWorkerAsks, StartInterviewAsks
  <1>2. ASSUME NEW n \in Nodes, WorkerTask(n) PROVE Asking'
    BY <1>2, WorkerTaskAsks
  <1>3. CASE OnFrameReceived \/ Network \/ JobTimeout \/ UNCHANGED vars
    BY <1>3, AnswersAsk, NIFsAsk, FailedNIFsAsk, FramesAsk DEF OnFrameReceived, Network
  <1> QED
    BY <1>1, <1>2, <1>3 DEF Next

LEMMA NextKeeps == IInv /\ [Next]_vars => IInv'
  <1> SUFFICES ASSUME IInv, [Next]_vars PROVE IInv'
    OBVIOUS
  <1>1. Typed /\ NIFsAccount /\ VersionBudget /\ Lesson /\ Asking
    BY DEF IInv
  <1>2. Typed'
    BY <1>1, NextKeepsTyped
  <1>3. NIFsAccount'
    BY <1>1, NextKeepsAccount
  <1>4. VersionBudget'
    BY <1>1, <1>2, NextKeepsBudget
  <1>5. Lesson'
    BY <1>2, <1>4, NextKeepsLesson
  <1>6. Asking'
    BY <1>1, NextKeepsAsking
  <1> QED
    BY <1>2, <1>3, <1>4, <1>5, <1>6 DEF IInv

\* The variables keep their types.
THEOREM TypeCorrect == Spec => []TypeOK
  <1>1. IInv => TypeOK
    BY DEF IInv, Typed, NodeTyped, WorkerTyped, ThreadsTyped, NetworkTyped, HistoryTyped, TypeOK
  <1> QED
    BY <1>1, InitEstablishes, NextKeeps, PTL DEF Spec

\* A node is declared interviewed at most once for each NIF it sent, whatever
\* order the job worker, the interface thread, its own worker and the user
\* write its state in (ZW_InterviewManager.h Start, DecodeNodeInfo, Node.cpp
\* ProcessInterviewState).
THEOREM CompletesOncePerNIF == Spec => []CompletedOncePerNIF
  <1>1. IInv => CompletedOncePerNIF
    <2> SUFFICES ASSUME IInv, NEW n \in Nodes PROVE completed[n] <= decoded[n]
      BY DEF CompletedOncePerNIF
    <2>1. /\ completed[n] + One(Decoding(n)) + One(Working(n)) + One(Completing(n)) <= decoded[n]
          /\ completed[n] \in Nat /\ decoded[n] \in Nat
      BY DEF IInv, NIFsAccount, Typed, HistoryTyped
    <2> HIDE DEF Decoding, Working, Completing
    <2>2. One(Decoding(n)) \in Nat /\ One(Working(n)) \in Nat /\ One(Completing(n)) \in Nat
      BY DEF One
    <2> QED
      BY <2>1, <2>2
  <1> QED
    BY <1>1, InitEstablishes, NextKeeps, PTL DEF Spec

\* No class of a node is asked for its version more often than the retry budget
\* allows for each NIF (Node.cpp, the version phase of ProcessInterviewState).
THEOREM KeepsRetryBudget == Spec => []VersionGetsBounded
  <1>1. IInv => VersionGetsBounded
    <2> SUFFICES ASSUME IInv, NEW n \in Nodes, NEW c \in Classes
                 PROVE  asked[n][c] <= MaxTries * decoded[n]
      BY DEF VersionGetsBounded
    <2>1. asked[n][c] + Left(n, c) + Share(Decoding(n)) + Share(LoopAhead(n)) <= MaxTries * decoded[n]
      BY DEF IInv, VersionBudget
    <2>2. /\ asked[n][c] \in Nat /\ Left(n, c) \in 0 .. MaxTries
          /\ MaxTries \in Nat /\ MaxTries * decoded[n] \in Nat
      BY BudgetTypes DEF IInv
    <2> HIDE DEF Decoding, LoopAhead, Left
    <2>3. Share(Decoding(n)) \in Nat /\ Share(LoopAhead(n)) \in Nat
      BY <2>2 DEF Share
    <2> QED
      BY <2>1, <2>2, <2>3
  <1> QED
    BY <1>1, InitEstablishes, NextKeeps, PTL DEF Spec

\* An interviewed node that sent a single NIF has told the version of each of
\* its classes, or was asked for it as often as the code may.
THEOREM LearnsVersions == Spec => []VersionsLearnt
  <1>1. IInv => VersionsLearnt
    BY DEF IInv, Lesson, LessonOf, Learnt, Past, VersionsLearnt
  <1> QED
    BY <1>1, InitEstablishes, NextKeeps, PTL DEF Spec

\* An interview that completes after a single NIF finds the classes SetNIF has
\* put in place, so that SupportsJob lets the jobs of the node through (Node.h
\* SetNIF, EnqueueJob; InterviewManager.h Start).
THEOREM JobsFindClasses == Spec => JobsFindTheirClasses
  <1> DEFINE Found ==
        \A n \in Nodes : completed'[n] # completed[n] /\ decoded[n] = 1 => ccs[n] = Supports[n]
  <1>1. IInv /\ [Next]_vars => [Found]_vars
    <2> SUFFICES ASSUME IInv, Next, NEW n \in Nodes, completed'[n] # completed[n], decoded[n] = 1
                 PROVE  ccs[n] = Supports[n]
      OBVIOUS
    <2>1. JobCompletes
      BY ZenonT(60) DEF Next, JobWorkerLoop, JobDone, JobStarts, JobCollected, JobPending, Dispatches,
             RequestNodeProtocolInfo, JobTimeout, JobExpires, CallStartInterview, StartInterview,
             OnFrameReceived, HandleProtocolInfo, LookAtActiveNode, RequestNodeInformation,
             HandleNIF, DecodeNodeInfo, BeginSetNIF, EndSetNIF, HandleNIFFailed,
             RestoreNodeInfoPending, HandleDeviceReport,
             HandleVersionReport, WorkerTask, ReadInterviewState, BeginVersions, AskVersion,
             VersionLoop, EndVersions, AwaitVersion, BeginManufacturer, EndManufacturer,
             BeginMultiChannel, EndMultiChannel, GoToSleep, Network, SendNIF, LoseNIF, LoseReport,
             LoseProtocolInfo, RejectNIF, history
    <2>2. Completing(n)
      BY <2>1 DEF JobCompletes, Completing, IInv, Typed, HistoryTyped
    <2>3. ~Decoding(n)
      BY <2>2, NothingBeforeNIF DEF IInv
    <2> QED
      BY <2>3 DEF IInv, Lesson, LessonOf
  <1>2. IInv /\ [Next]_vars => IInv'
    BY NextKeeps
  <1> QED
    BY <1>1, <1>2, InitEstablishes, PTL DEF Spec, JobsFindTheirClasses

\* The answer with protocol data, which does not say whose it is, is stored for
\* the node it is about, as long as no job times out, no node speaks up of its own
\* and the interviews are started once (InterviewManager.h HandleFrame,
\* DecodeNodeProtocolInfo).
THEOREM StoresForItsNode == Spec => []ProtocolInfoOfItsNode
  <1>1. IInv => ProtocolInfoOfItsNode
    BY DEF IInv, Asking, Undisturbed, OneAtATime, DataOfItsNode, ProtocolInfoOfItsNode
  <1> QED
    BY <1>1, InitEstablishes, NextKeeps, PTL DEF Spec
=============================================================================
