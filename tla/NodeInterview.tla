---------------------------- MODULE NodeInterview ----------------------------
(***************************************************************************)
(* How the nodes of the network are interviewed.  Three kinds of threads   *)
(* write a node's interviewState: the job worker of Z_Wave.h (INTERVIEW    *)
(* jobs, ZW_InterviewManager::Start), the interface thread (answers and    *)
(* node information frames, ZW_InterviewManager::HandleFrame) and the      *)
(* node's own worker (ZW_Node::ProcessInterviewState); so does the user,   *)
(* who may start all interviews anew.  No lock is held from a read to the  *)
(* write that follows from it, so each thread writes what it believed to   *)
(* come next when it read: a read and its write are two steps here.        *)
(*                                                                         *)
(* A wait with a timeout may end by it at any moment.  Of the command      *)
(* classes there are the three the interview itself looks at.              *)
(***************************************************************************)
EXTENDS Integers, Sequences, SequencesExt

CONSTANTS
  NodeIds,          \* module.NodeIds without 0 and the controller, from a bit mask
  NoNode,           \* nullptr
  Listening,        \* the nodes whose protocol data says that they listen
  Supports,         \* the classes each node announces in its NIF and that have
                    \* a handler (supportsCC)
  MnfcVersion,      \* the version of its MANUFACTURER_SPECIFIC class
  MaxTries,         \* GETs for the version of a class, 4 in the code
  MaxLostRequests,  \* bound: lost or truncated answers and NIFs
  MaxLostReports,   \* bound: lost reports of a node
  MaxNIFs,          \* bound: NIFs that nobody asked for
  MaxStarts         \* bound: calls of StartInterview

Nodes   == Range(NodeIds)
Classes == {"VERSION", "MANUFACTURER_SPECIFIC", "MULTI_CHANNEL"}
NoClass == "none"

ASSUME NodeInterviewAssumption ==
  /\ NodeIds \in Seq(Nodes) \ {<<>>} /\ IsInjective(NodeIds)
  /\ NoNode \notin Nodes
  /\ Listening \subseteq Nodes
  /\ Supports \in [Nodes -> SUBSET Classes]
  /\ MnfcVersion \in [Nodes -> {1, 2}]
  /\ MaxTries \in Nat \ {0}
  /\ MaxLostRequests \in Nat /\ MaxLostReports \in Nat
  /\ MaxNIFs \in Nat /\ MaxStarts \in Nat

VARIABLES
  interviewState, \* of every node
  awake,          \* nodeState = Awake
  isListening,    \* protocolInfo.isListening
  ccs,            \* the classes marked as supported
  versionOk,      \* those whose version is known
  mfgData,        \* manufacturerInfo.hasManufacturerData
  pc,             \* of the node's worker: "loop", the state its switch has
                  \* read, or the phase it is in
  todo,           \* the classes its version loop has yet to see
  target,         \* the class whose version it waits for
  tries,          \* how often it has asked for it
  activeNode,     \* of the interview manager
  rx,             \* where the interface thread is in the frame it handles
  decoding,       \* the node that frame is about, for it
  jobQueue,       \* the INTERVIEW jobs, as nodes
  dispatched,     \* jobAttempts > 0
  jobStep,        \* where the job worker is with the job at the front
  startAt,        \* the next node of StartInterview's loop, or 0
  requests,       \* protocol data requests the transport has yet to answer
  wire,           \* frames of the nodes on their way, in any order
  lostRequests, lostReports, nifs, starts,   \* what is left of the bounds
  decoded,        \* history: NIFs of each node that were decoded
  asked,          \* history: version GETs for each class
  completed,      \* history: interviews declared done
  dropped         \* history: the nodes a job of which timed out

node    == <<interviewState, awake, isListening, ccs, versionOk, mfgData>>
worker  == <<pc, todo, target, tries>>
iface   == <<activeNode, rx, decoding>>
jobs    == <<jobQueue, dispatched, jobStep, startAt>>
bounds  == <<lostRequests, lostReports, nifs, starts>>
history == <<decoded, asked, completed, dropped>>
vars    == <<node, worker, iface, jobs, requests, wire, bounds, history>>

InterviewState ==
  {"NotInterviewed", "ProtocolInfoPending", "ProtocolInfoDone", "NodeInfoPending",
   "NodeInfoDone", "CCVersionPending", "CCVersionDone", "CCMnfcSpecPending",
   "CCMnfcSpecDone", "CCMultiChannelPending", "CCMultiChannelDone", "InterviewDone"}

Frame == [kind : {"NIF", "VERSION_REPORT", "DEVICE_SPECIFIC_REPORT"},
          node : Nodes, cc : Classes \cup {NoClass}]

NIF(n) == [kind |-> "NIF", node |-> n, cc |-> NoClass]
VersionReport(n, c) == [kind |-> "VERSION_REPORT", node |-> n, cc |-> c]
DeviceReport(n) == [kind |-> "DEVICE_SPECIFIC_REPORT", node |-> n, cc |-> NoClass]

SetInterviewState(n, s) == interviewState' = [interviewState EXCEPT ![n] = s]

-----------------------------------------------------------------------------
(* The job worker: INTERVIEW jobs.                                         *)

\* Mutant of Done: a node that was asked for its protocol data counts.
DoneWhenAsked(n) == interviewState[n] # "NotInterviewed"

\* InterviewManager::Done.
Done(n) ==
  \/ ~isListening[n] /\ interviewState[n] = "ProtocolInfoDone"
  \/ isListening[n] /\ interviewState[n] = "InterviewDone"

\* A pass of JobWorkerLoop that has job n at the front.
Dispatches(n) ==
  /\ jobQueue # <<>>
  /\ n = Head(jobQueue)
  /\ jobStep = "dispatch"
  /\ UNCHANGED <<node, worker, rx, decoding, startAt, requests, wire, bounds, history>>

JobDone(n) ==
  /\ Dispatches(n)
  /\ Done(n)
  /\ jobQueue' = Tail(jobQueue)
  /\ dispatched' = FALSE
  /\ UNCHANGED <<activeNode, jobStep>>

\* Start finds the node not interviewed; RequestNodeProtocolInfo begins.
JobStarts(n) ==
  /\ Dispatches(n)
  /\ ~Done(n)
  /\ interviewState[n] = "NotInterviewed"
  /\ dispatched' = TRUE
  /\ jobStep' = "request"
  /\ activeNode' = n
  /\ UNCHANGED jobQueue

\* Start finds everything collected.
JobCollected(n) ==
  /\ Dispatches(n)
  /\ interviewState[n] = "CCMultiChannelDone"
  /\ dispatched' = TRUE
  /\ jobStep' = "complete"
  /\ UNCHANGED <<activeNode, jobQueue>>

JobPending(n) ==
  /\ Dispatches(n)
  /\ ~Done(n)
  /\ interviewState[n] \notin {"NotInterviewed", "CCMultiChannelDone"}
  /\ dispatched' = TRUE
  /\ UNCHANGED <<activeNode, jobQueue, jobStep>>

RequestNodeProtocolInfo ==
  /\ jobStep = "request"
  /\ SetInterviewState(Head(jobQueue), "ProtocolInfoPending")
  /\ requests' = Append(requests, Head(jobQueue))
  /\ jobStep' = "dispatch"
  /\ UNCHANGED <<awake, isListening, ccs, versionOk, mfgData, worker, iface, jobQueue,
                 dispatched, startAt, wire, bounds, history>>

\* Mutant of JobCompletes: InterviewDone is not recorded.
JobCompletesAgain ==
  /\ jobStep = "complete"
  /\ completed' = [completed EXCEPT ![Head(jobQueue)] = @ + 1]
  /\ jobStep' = "dispatch"
  /\ UNCHANGED <<node, worker, iface, jobQueue, dispatched, startAt, requests, wire,
                 bounds, decoded, asked, dropped>>

\* Start's other branch goes on: the node gets its three jobs (NodeJobs).
JobCompletes ==
  /\ jobStep = "complete"
  /\ SetInterviewState(Head(jobQueue), "InterviewDone")
  /\ completed' = [completed EXCEPT ![Head(jobQueue)] = @ + 1]
  /\ jobStep' = "dispatch"
  /\ UNCHANGED <<awake, isListening, ccs, versionOk, mfgData, worker, iface, jobQueue,
                 dispatched, startAt, requests, wire, bounds, decoded, asked, dropped>>

\* kJobTimeout is over for the job at the front.
JobExpires ==
  /\ jobQueue # <<>>
  /\ dispatched
  /\ jobStep = "dispatch"
  /\ dispatched' = FALSE
  /\ dropped' = dropped \cup {Head(jobQueue)}
  /\ UNCHANGED <<node, worker, iface, jobStep, startAt, requests, wire, bounds, decoded,
                 asked, completed>>

\* Mutant of JobTimeout: the job is put back as an INITIALIZE job is.
JobTimeoutKeepsJob == JobExpires /\ jobQueue' = Append(Tail(jobQueue), Head(jobQueue))

\* HandleJobError does nothing for an INTERVIEW job, and it is popped.  (The
\* attempt counter is Initialization's.)
JobTimeout == JobExpires /\ jobQueue' = Tail(jobQueue)

JobWorkerLoop ==
  \/ \E n \in Nodes : JobDone(n) \/ JobStarts(n) \/ JobCollected(n) \/ JobPending(n)
  \/ RequestNodeProtocolInfo
  \/ JobCompletes

\* StartInterview, by the INITIALIZE job or by the user; one call at a time.
CallStartInterview ==
  /\ starts > 0
  /\ startAt = 0
  /\ starts' = starts - 1
  /\ startAt' = 1
  /\ UNCHANGED <<node, worker, iface, jobQueue, dispatched, jobStep, requests, wire,
                 lostRequests, lostReports, nifs, history>>

\* Its loop resets a node and enqueues the job.
StartInterview ==
  /\ startAt > 0
  /\ SetInterviewState(NodeIds[startAt], "NotInterviewed")
  /\ jobQueue' = Append(jobQueue, NodeIds[startAt])
  /\ startAt' = IF startAt < Len(NodeIds) THEN startAt + 1 ELSE 0
  /\ UNCHANGED <<awake, isListening, ccs, versionOk, mfgData, worker, iface, dispatched,
                 jobStep, requests, wire, bounds, history>>

-----------------------------------------------------------------------------
(* The interface thread.                                                   *)

\* The answer to the oldest request comes.  It is taken for activeNode's by
\* DecodeNodeProtocolInfo.
HandleProtocolInfo ==
  /\ rx = "idle"
  /\ requests # <<>>
  /\ requests' = Tail(requests)
  /\ isListening' = [isListening EXCEPT ![activeNode] = Head(requests) \in Listening]
  /\ awake' = [awake EXCEPT ![activeNode] =
                 IF Head(requests) \in Listening THEN TRUE ELSE @ /\ isListening[activeNode]]
  /\ SetInterviewState(activeNode, "ProtocolInfoDone")
  /\ rx' = "protocolInfo"
  /\ UNCHANGED <<ccs, versionOk, mfgData, worker, activeNode, decoding, jobs, wire, bounds,
                 history>>

\* HandleFrame then looks at the node that is the active one by now.
LookAtActiveNode ==
  /\ rx = "protocolInfo"
  /\ \/ /\ interviewState[activeNode] = "ProtocolInfoDone"
        /\ isListening[activeNode]
        /\ rx' = "request"
        /\ decoding' = activeNode
     \/ /\ ~(interviewState[activeNode] = "ProtocolInfoDone" /\ isListening[activeNode])
        /\ rx' = "idle"
        /\ UNCHANGED decoding
  /\ UNCHANGED <<node, worker, activeNode, jobs, requests, wire, bounds, history>>

RequestNodeInformation ==
  /\ rx = "request"
  /\ SetInterviewState(decoding, "NodeInfoPending")
  /\ wire' = wire \cup {NIF(decoding)}
  /\ rx' = "idle"
  /\ decoding' = NoNode
  /\ UNCHANGED <<awake, isListening, ccs, versionOk, mfgData, worker, activeNode, jobs,
                 requests, bounds, history>>

\* It never comes, or is too short: nothing but a log line.
LoseProtocolInfo ==
  /\ requests # <<>>
  /\ lostRequests > 0
  /\ lostRequests' = lostRequests - 1
  /\ requests' = Tail(requests)
  /\ UNCHANGED <<node, worker, iface, jobs, wire, lostReports, nifs, starts, history>>

Receives(f) ==
  /\ rx = "idle"
  /\ f \in wire
  /\ wire' = wire \ {f}

\* A listening node whose NIF was asked for.
AwaitsNIF(n) ==
  /\ n # NoNode
  /\ interviewState[n] = "NodeInfoPending"
  /\ isListening[n]

\* OnFrameReceived enqueues an INTERVIEW job, ...
HandleNIF(n) ==
  /\ Receives(NIF(n))
  /\ jobQueue' = Append(jobQueue, n)
  /\ rx' = "nif"
  /\ decoding' = n
  /\ UNCHANGED <<node, worker, activeNode, dispatched, jobStep, startAt, requests, bounds,
                 history>>

\* ... DecodeNodeInfo makes the node the active one and reads its state.
DecodeNodeInfo ==
  /\ rx = "nif"
  /\ activeNode' = decoding
  /\ \/ /\ interviewState[decoding] = "InterviewDone"
        /\ awake' = [awake EXCEPT ![decoding] = TRUE]
        /\ rx' = "idle"
        /\ decoding' = NoNode
     \/ /\ interviewState[decoding] # "InterviewDone"
        /\ rx' = "decode"
        /\ UNCHANGED <<awake, decoding>>
  /\ UNCHANGED <<interviewState, isListening, ccs, versionOk, mfgData, worker, jobs,
                 requests, wire, bounds, history>>

\* Mutant of BeginSetNIF: the state is written before the classes.
BeginSetNIFDone ==
  /\ rx = "decode"
  /\ SetInterviewState(decoding, "NodeInfoDone")
  /\ ccs' = [ccs EXCEPT ![decoding] = {}]
  /\ versionOk' = [versionOk EXCEPT ![decoding] = {}]
  /\ rx' = "setNIF"
  /\ decoded' = [decoded EXCEPT ![decoding] = @ + 1]
  /\ UNCHANGED <<awake, isListening, mfgData, worker, activeNode, decoding, jobs, requests,
                 wire, bounds, asked, completed, dropped>>

\* It goes on; SetNIF first clears what is known of the classes.
BeginSetNIF ==
  /\ rx = "decode"
  /\ SetInterviewState(decoding, "NodeInfoPending")
  /\ ccs' = [ccs EXCEPT ![decoding] = {}]
  /\ versionOk' = [versionOk EXCEPT ![decoding] = {}]
  /\ rx' = "setNIF"
  /\ decoded' = [decoded EXCEPT ![decoding] = @ + 1]
  /\ UNCHANGED <<awake, isListening, mfgData, worker, activeNode, decoding, jobs, requests,
                 wire, bounds, asked, completed, dropped>>

\* Truncated, it is given up before or after the state was written.
RejectNIF ==
  /\ rx \in {"nif", "decode"}
  /\ lostRequests > 0
  /\ lostRequests' = lostRequests - 1
  /\ interviewState' =
       IF rx = "nif" THEN interviewState
       ELSE [interviewState EXCEPT ![decoding] = "NodeInfoPending"]
  /\ rx' = "idle"
  /\ decoding' = NoNode
  /\ UNCHANGED <<awake, isListening, ccs, versionOk, mfgData, worker, activeNode, jobs,
                 requests, wire, lostReports, nifs, starts, history>>

\* SetNIF and DecodeNodeInfo come to their end.
EndSetNIF ==
  /\ rx = "setNIF"
  /\ ccs' = [ccs EXCEPT ![decoding] = Supports[decoding]]
  /\ SetInterviewState(decoding, "NodeInfoDone")
  /\ awake' = [awake EXCEPT ![decoding] = TRUE]
  /\ rx' = "idle"
  /\ decoding' = NoNode
  /\ UNCHANGED <<isListening, versionOk, mfgData, worker, activeNode, jobs, requests, wire,
                 bounds, history>>

\* In the place of a NIF comes an UPDATE_STATE_NODE_INFO_REQ_FAILED.
\* HandleApplicationUpdate reads the state of the active node, ...
HandleNIFFailed(n) ==
  /\ Receives(NIF(n))
  /\ lostRequests > 0
  /\ lostRequests' = lostRequests - 1
  /\ \/ /\ AwaitsNIF(activeNode)
        /\ rx' = "failed"
        /\ decoding' = activeNode
     \/ /\ ~AwaitsNIF(activeNode)
        /\ UNCHANGED <<rx, decoding>>
  /\ UNCHANGED <<node, worker, activeNode, jobs, requests, lostReports, nifs, starts, history>>

\* ... and writes the same state back, whatever the others have made of it.
RestoreNodeInfoPending ==
  /\ rx = "failed"
  /\ SetInterviewState(decoding, "NodeInfoPending")
  /\ rx' = "idle"
  /\ decoding' = NoNode
  /\ UNCHANGED <<awake, isListening, ccs, versionOk, mfgData, worker, activeNode, jobs,
                 requests, wire, bounds, history>>

\* ZW_CC_Version::HandleReport.
HandleVersionReport(n, c) ==
  /\ Receives(VersionReport(n, c))
  /\ versionOk' = [versionOk EXCEPT ![n] = @ \cup ({c} \cap ccs[n])]
  /\ UNCHANGED <<interviewState, awake, isListening, ccs, mfgData, worker, iface, jobs, requests, bounds, history>>

\* ZW_CC_ManufacturerSpecific::HandleReport.
HandleDeviceReport(n) ==
  /\ Receives(DeviceReport(n))
  /\ mfgData' = [mfgData EXCEPT ![n] = TRUE]
  /\ UNCHANGED <<interviewState, awake, isListening, ccs, versionOk, worker,
                 iface, jobs, requests, bounds, history>>

OnFrameReceived ==
  \/ HandleProtocolInfo \/ LookAtActiveNode \/ RequestNodeInformation
  \/ DecodeNodeInfo \/ BeginSetNIF \/ EndSetNIF
  \/ RestoreNodeInfoPending
  \/ \E n \in Nodes :
       \/ HandleNIF(n) \/ HandleDeviceReport(n)
       \/ \E c \in Classes : HandleVersionReport(n, c)

-----------------------------------------------------------------------------
(* The worker of node n: WorkerTask and ProcessInterviewState.             *)

Goto(n, l) == pc' = [pc EXCEPT ![n] = l]

\* The states the worker acts upon: ProcessInterviewState's switch has nothing
\* to do in the others, and an InterviewDone node may fall asleep.
WorkedOn ==
  {"NodeInfoDone", "CCVersionPending", "CCVersionDone", "CCMnfcSpecPending",
   "CCMnfcSpecDone", "CCMultiChannelPending", "InterviewDone"}

ReadInterviewState(n) ==
  /\ pc[n] = "loop"
  /\ awake[n]
  /\ interviewState[n] \in WorkedOn
  /\ Goto(n, interviewState[n])
  /\ UNCHANGED <<node, todo, target, tries, iface, jobs, requests, wire, bounds, history>>

\* A phase whose Done state was found is entered by its Pending state.
Enter(n, pending) ==
  interviewState' =
    IF pc[n] = pending THEN interviewState ELSE [interviewState EXCEPT ![n] = pending]

\* The VERSION handler is there since the first NIF.
BeginVersions(n) ==
  /\ pc[n] \in {"NodeInfoDone", "CCVersionPending"}
  /\ \/ /\ "VERSION" \in Supports[n]
        /\ Enter(n, "CCVersionPending")
        /\ Goto(n, "versions")
        /\ todo' = [todo EXCEPT ![n] = ccs[n]]
     \/ /\ "VERSION" \notin Supports[n]
        /\ SetInterviewState(n, "CCVersionDone")
        /\ Goto(n, "loop")
        /\ UNCHANGED todo
  /\ UNCHANGED <<awake, isListening, ccs, versionOk, mfgData, target, tries, iface, jobs,
                 requests, wire, bounds, history>>

\* A GET for the version of class c goes out, and is answered in time.
GetVersion(n, c) ==
  /\ wire' = wire \cup {VersionReport(n, c)}
  /\ asked' = [asked EXCEPT ![n][c] = @ + 1]

VersionLoop(n) ==
  /\ pc[n] = "versions"
  /\ target[n] = NoClass
  /\ UNCHANGED <<awake, isListening, ccs, versionOk, mfgData, iface, jobs, requests, bounds, decoded, completed, dropped>>

\* The next class; one that is no longer there or already known is passed over.
AskVersion(n, c) ==
  /\ VersionLoop(n)
  /\ c \in todo[n]
  /\ \/ /\ c \in ccs[n] \ versionOk[n]
        /\ GetVersion(n, c)
        /\ target' = [target EXCEPT ![n] = c]
        /\ tries' = [tries EXCEPT ![n] = 1]
        /\ UNCHANGED todo
     \/ /\ c \notin ccs[n] \ versionOk[n]
        /\ todo' = [todo EXCEPT ![n] = @ \ {c}]
        /\ UNCHANGED <<target, tries, wire, asked>>
  /\ UNCHANGED <<interviewState, pc>>

EndVersions(n) ==
  /\ VersionLoop(n)
  /\ todo[n] = {}
  /\ SetInterviewState(n, "CCVersionDone")
  /\ Goto(n, "loop")
  /\ UNCHANGED <<todo, target, tries, wire, asked>>

NextClass(n) ==
  /\ todo' = [todo EXCEPT ![n] = @ \ {target[n]}]
  /\ target' = [target EXCEPT ![n] = NoClass]
  /\ tries' = [tries EXCEPT ![n] = 0]
  /\ UNCHANGED <<wire, asked>>

\* Mutant of AwaitVersion: one more retry.
AwaitVersionLonger(n) ==
  /\ target[n] # NoClass
  /\ \/ /\ target[n] \in versionOk[n] \/ tries[n] > MaxTries
        /\ NextClass(n)
     \/ /\ target[n] \notin versionOk[n]
        /\ tries[n] <= MaxTries
        /\ GetVersion(n, target[n])
        /\ tries' = [tries EXCEPT ![n] = @ + 1]
        /\ UNCHANGED <<todo, target>>
  /\ UNCHANGED <<node, pc, iface, jobs, requests, bounds, decoded,
                 completed, dropped>>

\* Mutant of AwaitVersion: a timeout is the end of it.
AwaitVersionOnce(n) ==
  /\ target[n] # NoClass
  /\ NextClass(n)
  /\ UNCHANGED <<node, pc, iface, jobs, requests, bounds, decoded,
                 completed, dropped>>

\* WaitUntil ends: answered, given up, or asked once more.
AwaitVersion(n) ==
  /\ target[n] # NoClass
  /\ \/ /\ target[n] \in versionOk[n] \/ tries[n] = MaxTries
        /\ NextClass(n)
     \/ /\ target[n] \notin versionOk[n]
        /\ tries[n] < MaxTries
        /\ GetVersion(n, target[n])
        /\ tries' = [tries EXCEPT ![n] = @ + 1]
        /\ UNCHANGED <<todo, target>>
  /\ UNCHANGED <<node, pc, iface, jobs, requests, bounds, decoded,
                 completed, dropped>>

\* Of cc->version it matters whether it is 0, as it is until its report comes.
AsksManufacturer(n) ==
  /\ "MANUFACTURER_SPECIFIC" \in ccs[n]
  /\ "MANUFACTURER_SPECIFIC" \in versionOk[n]

\* From version 2 on MakeFrame puts a DEVICE_SPECIFIC_GET_V2 in the place of
\* the GET, and HandleReport ignores the report that answers it.
BeginManufacturer(n) ==
  /\ pc[n] \in {"CCVersionDone", "CCMnfcSpecPending"}
  /\ \/ /\ AsksManufacturer(n)
        /\ Enter(n, "CCMnfcSpecPending")
        /\ Goto(n, "manufacturer")
        /\ wire' = IF MnfcVersion[n] = 1 THEN wire \cup {DeviceReport(n)} ELSE wire
     \/ /\ ~AsksManufacturer(n)
        /\ SetInterviewState(n, "CCMnfcSpecDone")
        /\ Goto(n, "loop")
        /\ UNCHANGED wire
  /\ UNCHANGED <<awake, isListening, ccs, versionOk, mfgData, todo, target, tries,
                 iface, jobs, requests, bounds, history>>

\* hasManufacturerData ends the wait; without it, and in version 2 without
\* hasDeviceId, which nothing ever sets, the timeout leaves the state as it is.
EndManufacturer(n) ==
  /\ pc[n] = "manufacturer"
  /\ Goto(n, "loop")
  /\ \/ /\ mfgData[n] /\ MnfcVersion[n] = 1
        /\ SetInterviewState(n, "CCMnfcSpecDone")
     \/ /\ ~(mfgData[n] /\ MnfcVersion[n] = 1)
        /\ UNCHANGED interviewState
  /\ UNCHANGED <<awake, isListening, ccs, versionOk, mfgData, todo, target, tries,
                 iface, jobs, requests, wire, bounds, history>>

BeginMultiChannel(n) ==
  /\ pc[n] \in {"CCMnfcSpecDone", "CCMultiChannelPending"}
  /\ \/ /\ "MULTI_CHANNEL" \in ccs[n]
        /\ Enter(n, "CCMultiChannelPending")
        /\ Goto(n, "multiChannel")
     \/ /\ "MULTI_CHANNEL" \notin ccs[n]
        /\ SetInterviewState(n, "CCMultiChannelDone")
        /\ Goto(n, "loop")
  /\ UNCHANGED <<awake, isListening, ccs, versionOk, mfgData, todo, target, tries,
                 iface, jobs, requests, wire, bounds, history>>

\* Mutant of EndMultiChannel: the timeout leaves the state as it is.
EndMultiChannelPending(n) ==
  /\ pc[n] = "multiChannel"
  /\ Goto(n, "loop")
  /\ UNCHANGED <<node, todo, target, tries, iface, jobs, requests,
                 wire, bounds, history>>

\* The dispatcher knows no MULTI_CHANNEL_END_POINT_REPORT: the wait times out.
EndMultiChannel(n) ==
  /\ pc[n] = "multiChannel"
  /\ Goto(n, "loop")
  /\ SetInterviewState(n, "CCMultiChannelDone")
  /\ UNCHANGED <<awake, isListening, ccs, versionOk, mfgData, todo, target, tries,
                 iface, jobs, requests, wire, bounds, history>>

\* An interviewed node that has been without jobs is put to sleep.
GoToSleep(n) ==
  /\ pc[n] = "InterviewDone"
  /\ Goto(n, "loop")
  /\ awake' = [awake EXCEPT ![n] = isListening[n]]
  /\ UNCHANGED <<interviewState, isListening, ccs, versionOk, mfgData, todo, target, tries,
                 iface, jobs, requests, wire, bounds, history>>

WorkerTask(n) ==
  \/ ReadInterviewState(n)
  \/ BeginVersions(n) \/ (\E c \in Classes : AskVersion(n, c)) \/ EndVersions(n)
  \/ AwaitVersion(n)
  \/ BeginManufacturer(n) \/ EndManufacturer(n)
  \/ BeginMultiChannel(n) \/ EndMultiChannel(n)
  \/ GoToSleep(n)

-----------------------------------------------------------------------------
(* The network.                                                            *)

\* A node speaks up: it wakes, or someone presses its button.
SendNIF(n) ==
  /\ nifs > 0
  /\ nifs' = nifs - 1
  /\ wire' = wire \cup {NIF(n)}
  /\ UNCHANGED <<node, worker, iface, jobs, requests, lostRequests,
                 lostReports, starts, history>>

\* A NIF that was asked for may be lost.
LoseNIF(n) ==
  /\ lostRequests > 0
  /\ lostRequests' = lostRequests - 1
  /\ NIF(n) \in wire
  /\ wire' = wire \ {NIF(n)}
  /\ UNCHANGED <<node, worker, iface, jobs, requests, lostReports, nifs,
                 starts, history>>

LoseReport(f) ==
  /\ lostReports > 0
  /\ lostReports' = lostReports - 1
  /\ f.kind # "NIF"
  /\ wire' = wire \ {f}
  /\ UNCHANGED <<node, worker, iface, jobs, requests, lostRequests, nifs,
                 starts, history>>

Network ==
  \/ \E n \in Nodes : SendNIF(n) \/ LoseNIF(n) \/ HandleNIFFailed(n)
  \/ \E f \in wire : LoseReport(f)
  \/ LoseProtocolInfo
  \/ RejectNIF

-----------------------------------------------------------------------------
Init ==
  /\ interviewState = [n \in Nodes |-> "NotInterviewed"]
  /\ awake = [n \in Nodes |-> FALSE]
  /\ isListening = [n \in Nodes |-> FALSE]
  /\ ccs = [n \in Nodes |-> {}]
  /\ versionOk = [n \in Nodes |-> {}]
  /\ mfgData = [n \in Nodes |-> FALSE]
  /\ pc = [n \in Nodes |-> "loop"]
  /\ todo = [n \in Nodes |-> {}]
  /\ target = [n \in Nodes |-> NoClass]
  /\ tries = [n \in Nodes |-> 0]
  /\ activeNode = NoNode
  /\ decoding = NoNode
  /\ jobQueue = <<>>
  /\ dispatched = FALSE
  /\ rx = "idle"
  /\ jobStep = "dispatch"
  /\ startAt = 0
  /\ requests = <<>>
  /\ wire = {}
  /\ lostRequests = MaxLostRequests
  /\ lostReports = MaxLostReports
  /\ nifs = MaxNIFs
  /\ starts = MaxStarts
  /\ decoded = [n \in Nodes |-> 0]
  /\ asked = [n \in Nodes |-> [c \in Classes |-> 0]]
  /\ completed = [n \in Nodes |-> 0]
  /\ dropped = {}

Next ==
  \/ JobWorkerLoop \/ JobTimeout \/ CallStartInterview \/ StartInterview
  \/ OnFrameReceived
  \/ \E n \in Nodes : WorkerTask(n)
  \/ Network

Spec == Init /\ [][Next]_vars

\* The threads run, and what is not lost arrives.  No job has to time out.
FairSpec ==
  /\ Spec
  /\ WF_vars(JobWorkerLoop)
  /\ WF_vars(StartInterview)
  /\ WF_vars(OnFrameReceived)
  /\ \A n \in Nodes : WF_vars(WorkerTask(n))

-----------------------------------------------------------------------------
(* Correctness.                                                            *)

\* The variables have their types.
TypeOK ==
  /\ interviewState \in [Nodes -> InterviewState]
  /\ awake \in [Nodes -> BOOLEAN]
  /\ isListening \in [Nodes -> BOOLEAN]
  /\ ccs \in [Nodes -> SUBSET Classes]
  /\ versionOk \in [Nodes -> SUBSET Classes]
  /\ mfgData \in [Nodes -> BOOLEAN]
  /\ pc \in [Nodes -> WorkedOn \cup {"loop", "versions", "manufacturer", "multiChannel"}]
  /\ todo \in [Nodes -> SUBSET Classes]
  /\ target \in [Nodes -> Classes \cup {NoClass}]
  /\ tries \in [Nodes -> 0 .. MaxTries]
  /\ activeNode \in Nodes \cup {NoNode}
  /\ decoding \in Nodes \cup {NoNode}
  /\ jobQueue \in Seq(Nodes)
  /\ dispatched \in BOOLEAN
  /\ jobStep \in {"dispatch", "request", "complete"}
  /\ startAt \in 0 .. Len(NodeIds)
  /\ rx \in {"idle", "protocolInfo", "request", "nif", "decode", "setNIF", "failed"}
  /\ requests \in Seq(Nodes)
  /\ wire \subseteq Frame
  /\ lostRequests \in 0 .. MaxLostRequests
  /\ lostReports \in 0 .. MaxLostReports
  /\ nifs \in 0 .. MaxNIFs
  /\ starts \in 0 .. MaxStarts
  /\ decoded \in [Nodes -> Nat]
  /\ asked \in [Nodes -> [Classes -> Nat]]
  /\ completed \in [Nodes -> Nat]
  /\ dropped \subseteq Nodes

\* A node is declared interviewed, and is given its three jobs, at most once
\* for each NIF it sent, although four threads write its interview state and
\* the INTERVIEW jobs of a node pile up in the queue.
CompletedOncePerNIF == \A n \in Nodes : completed[n] <= decoded[n]

\* The version phase keeps its retry budget: for each NIF of a node, no class
\* is asked for more than four times, wherever the phases are interrupted.
VersionGetsBounded ==
  \A n \in Nodes : \A c \in Classes : asked[n][c] <= MaxTries * decoded[n]

\* An interviewed node that sent a single NIF has told the version of each of
\* its classes, or was asked for it as often as the code may.
VersionsLearnt ==
  \A n \in Nodes :
    interviewState[n] = "InterviewDone" /\ decoded[n] = 1 /\ "VERSION" \in Supports[n] =>
      \A c \in Supports[n] : c \in versionOk[n] \/ asked[n][c] = MaxTries

\* An interview that completes after a single NIF finds all the classes of the
\* node in place: EnqueueJob drops the jobs of a class that is not there, and
\* SetNIF takes them away for a while.
JobsFindTheirClasses ==
  [][\A n \in Nodes :
       completed'[n] # completed[n] /\ decoded[n] = 1 => ccs[n] = Supports[n]]_vars

\* Protocol data is stored for the node it is about, as long as no INTERVIEW
\* job has timed out, no node has sent a NIF of its own and the user has not
\* started the interviews again: activeNode, not the request, says whose it is.
ProtocolInfoOfItsNode ==
  dropped = {} /\ nifs = MaxNIFs /\ starts >= MaxStarts - 1 =>
    \A n \in Nodes : isListening[n] => n \in Listening

\* Where the interview of a node comes to a halt before Done: nothing is under
\* way for the node any more, and its state calls for nobody to act.
Stuck(n) ==
  /\ n \notin Range(requests) /\ NIF(n) \notin wire /\ decoding # n
  /\ \/ interviewState[n] \in {"ProtocolInfoPending", "NodeInfoPending"}
     \/ interviewState[n] = "ProtocolInfoDone" /\ isListening[n] /\ rx = "idle"
     \/ interviewState[n] = "InterviewDone" /\ ~isListening[n]
     \/ interviewState[n] \in WorkedOn \ {"InterviewDone"} /\ ~awake[n] /\ pc[n] = "loop"

\* An INTERVIEW job ends because its node is done, whatever reports get lost and
\* whichever nodes speak up of their own, unless a job times out or the node at
\* the front has come to a halt: its NIF or the answer about it got lost, or
\* went to another node, or the node is one that does not listen and has sent a
\* NIF, for which Done never holds again.
InterviewCompletes ==
  \A n \in Nodes :
    n \in Range(jobQueue) ~>
      \/ Done(n) \/ n \in dropped
      \/ jobQueue # <<>> /\ Stuck(Head(jobQueue))

\* The node's worker gets past the manufacturer phase, whatever version of the
\* class the node has: a report of every kind the dispatcher lets through is
\* handled by the device.
ManufacturerPhaseEnds ==
  \A n \in Nodes :
    interviewState[n] = "CCMnfcSpecPending" ~> interviewState[n] # "CCMnfcSpecPending"

\* No INTERVIEW job stays in the queue for good, if the clock of the job worker
\* ticks; a job that gets nowhere does not hold up the other nodes.
JobsLeaveQueue == WF_vars(JobTimeout) => [](jobQueue # <<>> => <>(jobQueue = <<>>))
=============================================================================
