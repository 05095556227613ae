--------------------------- MODULE NodeJobsProofs ---------------------------
(***************************************************************************)
(* Proofs about NodeJobs, for any node, jobs and bounds: the variables     *)
(* keep their types and the jobs are done once and in order; and, for a    *)
(* node that reports a group in one frame, as long as no answer is late,   *)
(* the tables hold what the node reported and an interview ends with the   *)
(* last report of every group.  The second part rests on the worker having *)
(* one question open at a time, the one it waits for (OneQuestion).        *)
(***************************************************************************)
EXTENDS NodeJobs, SequenceTheorems, TLAPS

\* What an interview sends, and what comes back from the node.
Requests ==
  {GroupingsGet(c) : c \in Classes}
    \cup {AssociationGet(c, g) : c \in Classes, g \in Groups}
    \cup {ConfigurationGet(p) : p \in Params}

Groupings      == [report : {"GROUPINGS"}, cc : Classes]
Associations   == [report : {"ASSOCIATION"}, cc : Classes, group : Groups, nodes : SUBSET Targets,
                   toFollow : {0, 1}, whole : SUBSET Targets]
Configurations == [report : {"CONFIGURATION"}, param : Params]
OfTheNode      == [report : Announcements]
Reports        == Groupings \cup Associations \cup Configurations \cup OfTheNode

\* The worker waits for the job at the front of the queue, and for a group of
\* the table only when the table has its size.
WaitTyped ==
  /\ pc \in {"loop", "groupings", "group", "param"}
  /\ index \in Groups \cup Params
  /\ pc = "group" => index \in Groups
  /\ pc = "param" => index \in Params
  /\ pc # "loop" => jobQueue # <<>>
  /\ pc \in {"groupings", "group"} =>
       \E c \in Classes : Head(jobQueue) = AssociationInterview(c)
  /\ \A c \in Classes :
       pc = "group" /\ Head(jobQueue) = AssociationInterview(c) => size[c] = GroupCount

JobsTyped ==
  /\ jobQueue \in Seq(UserJobs)
  /\ submitted \in Seq(UserJobs)
  /\ executed \in Seq(UserJobs)
  /\ JobsDoneInOrder

TablesTyped ==
  /\ size \in [Classes -> {0, GroupCount}]
  /\ members \in GroupTable(SUBSET Targets)
  /\ hasLastReport \in GroupTable(BOOLEAN)
  /\ valid \in [Params -> BOOLEAN]
  /\ answer \in GroupTable(SUBSET Targets)

NetworkTyped ==
  /\ outbox \in Seq(Commands \cup Requests)
  /\ air \in Seq(Reports)
  /\ bound \in GroupTable(SUBSET Targets)
  /\ losses \in 0 .. MaxLosses
  /\ late \in 0 .. MaxLate

Typed == awake \in BOOLEAN /\ WaitTyped /\ JobsTyped /\ TablesTyped /\ NetworkTyped

-----------------------------------------------------------------------------
(* Tables and queues.                                                      *)

LEMMA GroupsAndParams == 1 \in Groups /\ 0 \in Params /\ Groups \subseteq Nat /\ Params \subseteq Nat
  BY NodeJobsAssumption DEF Groups, Params

LEMMA TableUpdate ==
  ASSUME NEW S, NEW t \in GroupTable(S), NEW c \in Classes, NEW g \in Groups, NEW v \in S
  PROVE  [t EXCEPT ![c][g] = v] \in GroupTable(S)
  BY DEF GroupTable

\* The first job moves from the queue to the jobs that are done.
LEMMA PopMoves ==
  ASSUME NEW S, NEW done \in Seq(S), NEW queue \in Seq(S), queue # <<>>
  PROVE  /\ Tail(queue) \in Seq(S) /\ Head(queue) \in S
         /\ Append(done, Head(queue)) \in Seq(S)
         /\ Append(done, Head(queue)) \o Tail(queue) = done \o queue
  <1>1. Tail(queue) \in Seq(S) /\ Head(queue) \in S /\ queue = <<Head(queue)>> \o Tail(queue)
    BY HeadTailProperties
  <1>2. Append(done, Head(queue)) = done \o <<Head(queue)>>
    BY <1>1, AppendIsConcat
  <1>3. (done \o <<Head(queue)>>) \o Tail(queue) = done \o (<<Head(queue)>> \o Tail(queue))
    BY <1>1, ConcatAssociative
  <1> QED
    BY <1>1, <1>2, <1>3, AppendProperties

\* The same when a job is enqueued.
LEMMA EnqueueMoves ==
  ASSUME NEW S, NEW done \in Seq(S), NEW queue \in Seq(S), NEW j \in S
  PROVE  done \o Append(queue, j) = Append(done \o queue, j)
  BY ConcatProperties, AppendProperties

LEMMA PopKeeps ==
  ASSUME JobsTyped, jobQueue # <<>>, PopJob, UNCHANGED submitted
  PROVE  JobsTyped'
  <1>1. jobQueue \in Seq(UserJobs) /\ executed \in Seq(UserJobs)
    BY DEF JobsTyped
  <1>2. /\ Tail(jobQueue) \in Seq(UserJobs)
        /\ Append(executed, Head(jobQueue)) \in Seq(UserJobs)
        /\ Append(executed, Head(jobQueue)) \o Tail(jobQueue) = executed \o jobQueue
    BY <1>1, PopMoves
  <1> QED
    BY <1>2 DEF JobsTyped, PopJob, JobsDoneInOrder

LEMMA SendKeeps ==
  ASSUME NetworkTyped, NEW f \in Commands \cup Requests, Send(f),
         UNCHANGED <<air, bound, losses, late>>
  PROVE  NetworkTyped'
  BY AppendProperties DEF NetworkTyped, Send

\* A message taken from the front.
LEMMA TakeKeeps ==
  ASSUME NEW S, NEW queue \in Seq(S), queue # <<>>
  PROVE  Tail(queue) \in Seq(S) /\ Head(queue) \in S
  BY HeadTailProperties

-----------------------------------------------------------------------------
(* The worker.                                                             *)

LEMMA ExecuteCommandKeeps ==
  ASSUME Typed, ExecuteCommandJob
  PROVE  Typed'
  <1>1. pc = "loop" /\ jobQueue # <<>> /\ Head(jobQueue) \in Commands
    BY DEF ExecuteCommandJob, Peeks
  <1>2. JobsTyped'
    BY <1>1, PopKeeps DEF Typed, ExecuteCommandJob
  <1>3. NetworkTyped'
    BY <1>1, SendKeeps DEF Typed, ExecuteCommandJob
  <1>4. WaitTyped'
    BY <1>1 DEF Typed, ExecuteCommandJob, WaitTyped
  <1> QED
    BY <1>2, <1>3, <1>4 DEF Typed, ExecuteCommandJob, TablesTyped, tables

\* What the turn of the group loop leaves: the worker waits for group g.
LEMMA AskGroupKeeps ==
  ASSUME Typed, NEW c \in Classes, NEW g \in Groups, AskGroup(c, g),
         jobQueue # <<>>, Head(jobQueue) = AssociationInterview(c), size[c] = GroupCount,
         UNCHANGED <<jobQueue, awake, size, members, valid, air, bound, losses, late,
                     submitted, executed, answer>>
  PROVE  Typed'
  <1>1. \A d \in Classes : AssociationInterview(d) = AssociationInterview(c) => d = c
    BY DEF AssociationInterview
  <1>2. WaitTyped'
    BY <1>1 DEF WaitTyped, AskGroup
  <1>3. NetworkTyped'
    <2>1. AssociationGet(c, g) \in Requests
      BY DEF Requests
    <2> QED
      BY <2>1, SendKeeps DEF Typed, AskGroup
  <1>4. TablesTyped'
    BY TableUpdate DEF Typed, TablesTyped, AskGroup
  <1>5. JobsTyped'
    BY DEF Typed, JobsTyped, JobsDoneInOrder
  <1> QED
    BY <1>2, <1>3, <1>4, <1>5 DEF Typed

LEMMA BeginAssociationKeeps ==
  ASSUME Typed, NEW c \in Classes, BeginAssociationInterview(c)
  PROVE  Typed'
  <1>1. pc = "loop" /\ jobQueue # <<>> /\ Head(jobQueue) = AssociationInterview(c)
    BY DEF BeginAssociationInterview, Peeks
  <1>2. CASE size[c] > 0 /\ AskGroup(c, 1)
    <2>1. size[c] = GroupCount
      BY <1>2 DEF Typed, TablesTyped
    <2>2. UNCHANGED <<jobQueue, awake, size, members, valid, air, bound, losses, late,
                      submitted, executed, answer>>
      BY DEF BeginAssociationInterview
    <2> QED
      BY <1>1, <1>2, <2>1, <2>2, GroupsAndParams, AskGroupKeeps
  <1>3. CASE pc' = "groupings" /\ Send(GroupingsGet(c)) /\ UNCHANGED <<index, hasLastReport>>
    <2>1. UNCHANGED <<jobQueue, awake, size, members, valid, air, bound, losses, late,
                      submitted, executed, answer>>
      BY DEF BeginAssociationInterview
    <2>2. WaitTyped'
      BY <1>1, <1>3, <2>1 DEF Typed, WaitTyped
    <2>3. NetworkTyped'
      <3>1. GroupingsGet(c) \in Requests
        BY DEF Requests
      <3> QED
        BY <1>3, <2>1, <3>1, SendKeeps DEF Typed
    <2> QED
      BY <1>3, <2>1, <2>2, <2>3 DEF Typed, TablesTyped, JobsTyped, JobsDoneInOrder
  <1> QED
    BY <1>2, <1>3 DEF BeginAssociationInterview

LEMMA GroupingsKnownKeeps ==
  ASSUME Typed, NEW c \in Classes, GroupingsKnown(c)
  PROVE  Typed'
  <1>1. /\ pc = "groupings" /\ Head(jobQueue) = AssociationInterview(c) /\ size[c] > 0
        /\ AskGroup(c, 1)
        /\ UNCHANGED <<jobQueue, awake, size, members, valid, air, bound, losses, late,
                       submitted, executed, answer>>
    BY DEF GroupingsKnown
  <1>2. jobQueue # <<>> /\ size[c] = GroupCount
    BY <1>1 DEF Typed, WaitTyped, TablesTyped
  <1> QED
    BY <1>1, <1>2, GroupsAndParams, AskGroupKeeps

LEMMA GroupReportedKeeps ==
  ASSUME Typed, NEW c \in Classes, GroupReported(c)
  PROVE  Typed'
  <1>1. /\ pc = "group" /\ Head(jobQueue) = AssociationInterview(c)
        /\ UNCHANGED <<awake, size, members, valid, air, bound, losses, late, submitted, answer>>
    BY DEF GroupReported
  <1>2. jobQueue # <<>> /\ size[c] = GroupCount /\ index \in Groups
    BY <1>1 DEF Typed, WaitTyped
  <1>3. CASE index < size[c] /\ AskGroup(c, index + 1) /\ UNCHANGED <<jobQueue, executed>>
    <2>1. index + 1 \in Groups
      BY <1>2, <1>3, NodeJobsAssumption DEF Groups
    <2> QED
      BY <1>1, <1>2, <1>3, <2>1, AskGroupKeeps
  <1>4. CASE pc' = "loop" /\ PopJob /\ UNCHANGED <<index, hasLastReport, outbox>>
    <2>1. JobsTyped'
      BY <1>1, <1>2, <1>4, PopKeeps DEF Typed
    <2>2. WaitTyped'
      BY <1>4 DEF Typed, WaitTyped
    <2> QED
      BY <1>1, <1>4, <2>1, <2>2 DEF Typed, TablesTyped, NetworkTyped
  <1> QED
    BY <1>3, <1>4 DEF GroupReported

LEMMA AskParamKeeps ==
  ASSUME Typed, NEW p \in Params, AskParam(p), jobQueue # <<>>,
         UNCHANGED <<jobQueue, awake, size, members, hasLastReport, air, bound, losses, late,
                     submitted, executed, answer>>
  PROVE  Typed'
  <1>1. WaitTyped'
    BY DEF WaitTyped, AskParam
  <1>2. NetworkTyped'
    <2>1. ConfigurationGet(p) \in Requests
      BY DEF Requests
    <2> QED
      BY <2>1, SendKeeps DEF Typed, AskParam
  <1>3. TablesTyped'
    BY DEF Typed, TablesTyped, AskParam
  <1> QED
    BY <1>1, <1>2, <1>3 DEF Typed, JobsTyped, JobsDoneInOrder

LEMMA BeginConfigurationKeeps ==
  ASSUME Typed, BeginConfigurationInterview
  PROVE  Typed'
  BY GroupsAndParams, AskParamKeeps DEF BeginConfigurationInterview, Peeks

LEMMA ParamReportedKeeps ==
  ASSUME Typed, ParamReported
  PROVE  Typed'
  <1>1. /\ pc = "param"
        /\ UNCHANGED <<awake, size, members, hasLastReport, air, bound, losses, late,
                       submitted, answer>>
    BY DEF ParamReported
  <1>2. jobQueue # <<>> /\ index \in Params
    BY <1>1 DEF Typed, WaitTyped
  <1>3. CASE index + 1 < ParamCount /\ AskParam(index + 1) /\ UNCHANGED <<jobQueue, executed>>
    <2>1. index + 1 \in Params
      BY <1>2, <1>3, NodeJobsAssumption DEF Params
    <2> QED
      BY <1>1, <1>2, <1>3, <2>1, AskParamKeeps
  <1>4. CASE pc' = "loop" /\ PopJob /\ UNCHANGED <<index, valid, outbox>>
    <2>1. JobsTyped'
      BY <1>1, <1>2, <1>4, PopKeeps DEF Typed
    <2>2. WaitTyped'
      BY <1>4 DEF Typed, WaitTyped
    <2> QED
      BY <1>1, <1>4, <2>1, <2>2 DEF Typed, TablesTyped, NetworkTyped
  <1> QED
    BY <1>3, <1>4 DEF ParamReported

\* A wait that times out, and a queue that stays empty, change only who waits.
LEMMA WaitTimeoutKeeps ==
  ASSUME Typed, WaitTimeout
  PROVE  Typed'
  <1> USE DEF Typed, WaitTimeout, TimesOut
  <1>1. awake' \in BOOLEAN
    BY NodeJobsAssumption DEF Sleeping
  <1>2. late' \in 0 .. MaxLate
    BY NodeJobsAssumption DEF NetworkTyped
  <1>3. WaitTyped'
    BY DEF WaitTyped
  <1> QED
    BY <1>1, <1>2, <1>3 DEF JobsTyped, JobsDoneInOrder, TablesTyped, NetworkTyped, tables, network

LEMMA IdleTimeoutKeeps ==
  ASSUME Typed, IdleTimeout
  PROVE  Typed'
  <1>1. awake' \in BOOLEAN
    BY NodeJobsAssumption DEF IdleTimeout, Sleeping
  <1> QED
    BY <1>1 DEF Typed, IdleTimeout, WaitTyped, JobsTyped, JobsDoneInOrder, TablesTyped, NetworkTyped,
                tables, network

-----------------------------------------------------------------------------
(* The interface thread.                                                   *)

LEMMA TakesKeeps ==
  ASSUME Typed, TakesFromAir, awake' \in BOOLEAN, size' \in [Classes -> {0, GroupCount}],
         \A c \in Classes : size[c] = GroupCount => size'[c] = GroupCount,
         members' \in GroupTable(SUBSET Targets), hasLastReport' \in GroupTable(BOOLEAN),
         valid' \in [Params -> BOOLEAN], answer' \in GroupTable(SUBSET Targets)
  PROVE  Typed'
  <1> USE DEF Typed, TakesFromAir
  <1>1. air' \in Seq(Reports)
    BY TakeKeeps DEF NetworkTyped
  <1>2. NetworkTyped'
    BY <1>1 DEF NetworkTyped
  <1>3. WaitTyped'
    BY DEF WaitTyped
  <1>4. JobsTyped'
    BY DEF JobsTyped, JobsDoneInOrder
  <1> QED
    BY <1>2, <1>3, <1>4 DEF TablesTyped

\* The report that is taken, by its kind.
LEMMA ReportsByKind ==
  ASSUME NEW r \in Reports
  PROVE  /\ r.report = "GROUPINGS" => r \in Groupings
         /\ r.report = "ASSOCIATION" => r \in Associations
         /\ r.report = "CONFIGURATION" => r \in Configurations
         /\ r.report \in Announcements => r \in OfTheNode
  BY NodeJobsAssumption DEF Reports, Groupings, Associations, Configurations, OfTheNode

LEMMA FirstReport ==
  ASSUME Typed, air # <<>>
  PROVE  Head(air) \in Reports
  BY TakeKeeps DEF Typed, NetworkTyped

LEMMA GroupingsReportKeeps ==
  ASSUME Typed, HandleGroupingsReport
  PROVE  Typed'
  <1>1. TakesFromAir /\ air # <<>> /\ Head(air).report = "GROUPINGS" /\ UNCHANGED awake
    BY DEF HandleGroupingsReport, Receives, TakesFromAir
  <1> DEFINE c == Head(air).cc
  <1>2. c \in Classes
    BY <1>1, FirstReport, ReportsByKind DEF Groupings
  <1>3. /\ size' = [size EXCEPT ![c] = GroupCount]
        /\ members' = [members EXCEPT ![c] = [g \in Groups |-> {}]]
        /\ hasLastReport' = [hasLastReport EXCEPT ![c] = [g \in Groups |-> FALSE]]
        /\ UNCHANGED <<valid, answer>>
    BY DEF HandleGroupingsReport
  <1>4. size' \in [Classes -> {0, GroupCount}]
    BY <1>3 DEF Typed, TablesTyped
  <1>5. \A d \in Classes : size[d] = GroupCount => size'[d] = GroupCount
    BY <1>3 DEF Typed, TablesTyped
  <1>6. members' \in GroupTable(SUBSET Targets)
    BY <1>3 DEF Typed, TablesTyped, GroupTable
  <1>7. hasLastReport' \in GroupTable(BOOLEAN)
    BY <1>3 DEF Typed, TablesTyped, GroupTable
  <1> QED
    BY <1>1, <1>3, <1>4, <1>5, <1>6, <1>7, TakesKeeps DEF Typed, TablesTyped

LEMMA AssociationReportKeeps ==
  ASSUME Typed, HandleAssociationReport
  PROVE  Typed'
  <1>1. TakesFromAir /\ air # <<>> /\ Head(air).report = "ASSOCIATION" /\ UNCHANGED awake
    BY DEF HandleAssociationReport, Receives, TakesFromAir
  <1> DEFINE r == Head(air)
             kept == IF hasLastReport[r.cc][r.group] THEN members[r.cc][r.group] ELSE {}
  <1>2. r \in Associations
    BY <1>1, FirstReport, ReportsByKind
  <1>3. /\ r.cc \in Classes /\ r.group \in Groups /\ r.nodes \in SUBSET Targets
        /\ r.whole \in SUBSET Targets
    BY <1>2 DEF Associations
  <1>4. /\ members' = [members EXCEPT ![r.cc][r.group] = kept \cup r.nodes]
        /\ hasLastReport' = [hasLastReport EXCEPT ![r.cc][r.group] = r.toFollow = 0]
        /\ answer' = IF r.toFollow = 0
                     THEN [answer EXCEPT ![r.cc][r.group] = r.whole] ELSE answer
        /\ UNCHANGED <<size, valid>>
    BY DEF HandleAssociationReport
  <1>5. kept \cup r.nodes \in SUBSET Targets
    BY <1>3, SMTT(60) DEF Typed, TablesTyped, GroupTable
  <1>6. members' \in GroupTable(SUBSET Targets)
    BY <1>3, <1>4, <1>5, TableUpdate DEF Typed, TablesTyped
  <1>7. hasLastReport' \in GroupTable(BOOLEAN)
    BY <1>3, <1>4, TableUpdate DEF Typed, TablesTyped
  <1>8. answer' \in GroupTable(SUBSET Targets)
    BY <1>3, <1>4, TableUpdate DEF Typed, TablesTyped
  <1> QED
    BY <1>1, <1>4, <1>6, <1>7, <1>8, TakesKeeps DEF Typed, TablesTyped

LEMMA ConfigurationReportKeeps ==
  ASSUME Typed, HandleConfigurationReport
  PROVE  Typed'
  <1>1. /\ TakesFromAir /\ UNCHANGED awake /\ UNCHANGED <<size, members, hasLastReport, answer>>
        /\ valid' = [valid EXCEPT ![Head(air).param] = TRUE]
    BY DEF HandleConfigurationReport, Receives
  <1> QED
    BY <1>1, TakesKeeps DEF Typed, TablesTyped

LEMMA OtherReportsKeep ==
  ASSUME Typed, HandleNodeInfo \/ DropReport
  PROVE  Typed'
  <1>1. TakesFromAir /\ awake' \in BOOLEAN /\ UNCHANGED <<tables, answer>>
    BY DEF HandleNodeInfo, DropReport, Typed
  <1> QED
    BY <1>1, TakesKeeps DEF Typed, TablesTyped, tables

-----------------------------------------------------------------------------
(* The rest of the system.                                                 *)

LEMMA EnqueueJobKeeps ==
  ASSUME Typed, NEW j \in UserJobs, EnqueueJob(j)
  PROVE  Typed'
  <1>1. /\ jobQueue' = Append(jobQueue, j) /\ submitted' = Append(submitted, j)
        /\ UNCHANGED <<awake, pc, index, tables, network, late, executed, answer>>
    BY DEF EnqueueJob
  <1>2. JobsTyped'
    <2>1. jobQueue \in Seq(UserJobs) /\ executed \in Seq(UserJobs) /\ submitted \in Seq(UserJobs)
      BY DEF Typed, JobsTyped
    <2>2. executed \o Append(jobQueue, j) = Append(executed \o jobQueue, j)
      BY <2>1, EnqueueMoves
    <2>3. Append(jobQueue, j) \in Seq(UserJobs) /\ Append(submitted, j) \in Seq(UserJobs)
      BY <2>1, AppendProperties
    <2> QED
      BY <1>1, <2>2, <2>3 DEF Typed, JobsTyped, JobsDoneInOrder
  <1>3. WaitTyped'
    <2>1. jobQueue \in Seq(UserJobs)
      BY DEF Typed, JobsTyped
    <2>2. jobQueue' # <<>> /\ (jobQueue # <<>> => Head(jobQueue') = Head(jobQueue))
      BY <1>1, <2>1, AppendProperties, Z3
    <2> QED
      BY <1>1, <2>2 DEF Typed, WaitTyped, tables
  <1> QED
    BY <1>1, <1>2, <1>3 DEF Typed, TablesTyped, NetworkTyped, tables, network

\* A step of the network is none of the worker's variables.
LEMMA NetworkKeeps ==
  ASSUME Typed, UNCHANGED <<jobQueue, awake, pc, index, tables, late, submitted, executed, answer>>,
         outbox' \in Seq(Commands \cup Requests), air' \in Seq(Reports),
         bound' \in GroupTable(SUBSET Targets), losses' \in 0 .. MaxLosses
  PROVE  Typed'
  <1>1. WaitTyped'
    BY DEF Typed, WaitTyped, tables
  <1>2. JobsTyped'
    BY DEF Typed, JobsTyped, JobsDoneInOrder
  <1> QED
    BY <1>1, <1>2 DEF Typed, TablesTyped, NetworkTyped, tables

LEMMA GetsByKind ==
  ASSUME NEW f \in Commands \cup Requests
  PROVE  /\ IsGet(f, "GROUPINGS") => f.cc \in Classes
         /\ IsGet(f, "ASSOCIATION") => f.cc \in Classes /\ f.group \in Groups
         /\ IsGet(f, "CONFIGURATION") => f.param \in Params
  BY DEF IsGet, Requests, GroupingsGet, AssociationGet, ConfigurationGet

LEMMA BindsAndUnbinds ==
  ASSUME NEW f \in Commands \ {Battery}
  PROVE  f.cc \in Classes /\ f.group \in Groups /\ f.target \in Targets
  BY DEF Commands, Bind, Unbind

LEMMA PartsType ==
  ASSUME NEW c \in Classes, NEW g \in Groups, NEW list \in SUBSET Targets,
         NEW parts \in Parts(c, g, list)
  PROVE  parts \in Seq(Associations)
  <1> DEFINE r(nodes, toFollow) ==
               [report |-> "ASSOCIATION", cc |-> c, group |-> g, nodes |-> nodes,
                toFollow |-> toFollow, whole |-> list]
  <1>1. \A nodes \in SUBSET Targets : \A n \in {0, 1} : r(nodes, n) \in Associations
    BY DEF Associations
  <1>2. parts = <<r(list, 0)>> \/ \E part \in SUBSET list : parts = <<r(part, 1), r(list \ part, 0)>>
    BY DEF Parts
  <1>3. CASE parts = <<r(list, 0)>>
    <2>1. r(list, 0) \in Associations
      BY <1>1
    <2> HIDE DEF r
    <2> QED
      BY <1>3, <2>1
  <1>4. CASE \E part \in SUBSET list : parts = <<r(part, 1), r(list \ part, 0)>>
    <2>1. PICK part \in SUBSET list : parts = <<r(part, 1), r(list \ part, 0)>>
      BY <1>4
    <2>2. part \in SUBSET Targets /\ list \ part \in SUBSET Targets
      OBVIOUS
    <2>3. r(part, 1) \in Associations /\ r(list \ part, 0) \in Associations
      BY <1>1, <2>2
    <2> HIDE DEF r
    <2> QED
      BY <2>1, <2>3
  <1> QED
    BY <1>2, <1>3, <1>4

LEMMA NodeReactsType ==
  ASSUME Typed, NEW f \in Commands \cup Requests, NodeReacts(f)
  PROVE  air' \in Seq(Reports) /\ bound' \in GroupTable(SUBSET Targets)
  <1>1. air \in Seq(Reports) /\ bound \in GroupTable(SUBSET Targets)
    BY DEF Typed, NetworkTyped
  <1>2. CASE f = Battery /\ UNCHANGED <<air, bound>>
    BY <1>1, <1>2
  <1>3. CASE /\ f \in Commands \ {Battery}
             /\ bound' = [bound EXCEPT ![f.cc][f.group] =
                            IF f.job = "BIND_COMMAND" THEN @ \cup {f.target} ELSE @ \ {f.target}]
             /\ UNCHANGED air
    <2>1. f.cc \in Classes /\ f.group \in Groups /\ f.target \in Targets
      BY <1>3, BindsAndUnbinds
    <2> DEFINE list == IF f.job = "BIND_COMMAND" THEN bound[f.cc][f.group] \cup {f.target}
                       ELSE bound[f.cc][f.group] \ {f.target}
    <2>2. list \in SUBSET Targets
      BY <1>1, <2>1 DEF GroupTable
    <2>3. bound' = [bound EXCEPT ![f.cc][f.group] = list]
      BY <1>1, <1>3, <2>1 DEF GroupTable
    <2> HIDE DEF list
    <2>4. [bound EXCEPT ![f.cc][f.group] = list] \in GroupTable(SUBSET Targets)
      BY <1>1, <2>1, <2>2, TableUpdate
    <2> QED
      BY <1>1, <1>3, <2>3, <2>4
  <1>4. CASE /\ IsGet(f, "GROUPINGS")
             /\ air' = Append(air, [report |-> "GROUPINGS", cc |-> f.cc])
             /\ UNCHANGED bound
    <2>1. [report |-> "GROUPINGS", cc |-> f.cc] \in Reports
      BY <1>4, GetsByKind DEF Reports, Groupings
    <2> QED
      BY <1>1, <1>4, <2>1, AppendProperties
  <1>5. CASE /\ IsGet(f, "ASSOCIATION")
             /\ \E parts \in Parts(f.cc, f.group, bound[f.cc][f.group]) : air' = air \o parts
             /\ UNCHANGED bound
    <2>1. f.cc \in Classes /\ f.group \in Groups
      BY <1>5, GetsByKind
    <2>2. bound[f.cc][f.group] \in SUBSET Targets
      BY <1>1, <2>1 DEF GroupTable
    <2>3. PICK parts \in Parts(f.cc, f.group, bound[f.cc][f.group]) : air' = air \o parts
      BY <1>5
    <2>4. parts \in Seq(Associations) /\ Associations \subseteq Reports
      BY <2>1, <2>2, PartsType DEF Reports
    <2>5. parts \in Seq(Reports)
      BY <2>4
    <2> QED
      BY <1>1, <1>5, <2>3, <2>5, ConcatProperties
  <1>6. CASE /\ IsGet(f, "CONFIGURATION")
             /\ air' = Append(air, [report |-> "CONFIGURATION", param |-> f.param])
             /\ UNCHANGED bound
    <2>1. [report |-> "CONFIGURATION", param |-> f.param] \in Reports
      BY <1>6, GetsByKind DEF Reports, Configurations
    <2> QED
      BY <1>1, <1>6, <2>1, AppendProperties
  <1> QED
    BY <1>2, <1>3, <1>4, <1>5, <1>6 DEF NodeReacts

LEMMA TransportKeeps ==
  ASSUME Typed, Transport
  PROVE  Typed'
  <1>1. /\ outbox # <<>> /\ outbox' = Tail(outbox) /\ NodeReacts(Head(outbox))
        /\ UNCHANGED <<jobQueue, awake, pc, index, tables, losses, late, submitted, executed, answer>>
    BY DEF Transport
  <1>2. Tail(outbox) \in Seq(Commands \cup Requests) /\ Head(outbox) \in Commands \cup Requests
    BY <1>1, TakeKeeps DEF Typed, NetworkTyped
  <1>3. air' \in Seq(Reports) /\ bound' \in GroupTable(SUBSET Targets)
    BY <1>1, <1>2, NodeReactsType
  <1> QED
    BY <1>1, <1>2, <1>3, NetworkKeeps DEF Typed, NetworkTyped

LEMMA AnnounceKeeps ==
  ASSUME Typed, NEW kind \in Announcements, Announce(kind)
  PROVE  Typed'
  <1>1. /\ air' = Append(air, [report |-> kind])
        /\ UNCHANGED <<jobQueue, awake, pc, index, tables, outbox, bound, losses, late, submitted,
                       executed, answer>>
    BY DEF Announce
  <1>2. [report |-> kind] \in Reports
    BY DEF Reports, OfTheNode
  <1>3. air' \in Seq(Reports)
    BY <1>1, <1>2, AppendProperties DEF Typed, NetworkTyped
  <1> QED
    BY <1>1, <1>3, NetworkKeeps DEF Typed, NetworkTyped

LEMMA LoseFrameKeeps ==
  ASSUME Typed, LoseFrame
  PROVE  Typed'
  <1>1. UNCHANGED <<jobQueue, awake, pc, index, tables, bound, late, submitted, executed, answer>>
    BY DEF LoseFrame
  <1>2. losses' \in 0 .. MaxLosses
    BY NodeJobsAssumption DEF Typed, NetworkTyped, LoseFrame
  <1>3. outbox' \in Seq(Commands \cup Requests) /\ air' \in Seq(Reports)
    BY TakeKeeps DEF Typed, NetworkTyped, LoseFrame
  <1> QED
    BY <1>1, <1>2, <1>3, NetworkKeeps DEF Typed, NetworkTyped

LEMMA InitTyped == Init => Typed
  <1> SUFFICES ASSUME Init PROVE Typed
    OBVIOUS
  <1>1. JobsTyped
    BY DEF Init, JobsTyped, JobsDoneInOrder
  <1>2. WaitTyped
    BY GroupsAndParams DEF Init, WaitTyped
  <1>3. TablesTyped
    BY DEF Init, TablesTyped, GroupTable
  <1>4. NetworkTyped
    BY NodeJobsAssumption DEF Init, NetworkTyped
  <1> QED
    BY <1>1, <1>2, <1>3, <1>4 DEF Init, Typed

LEMMA NextKeepsTyped == Typed /\ [Next]_vars => Typed'
  <1> SUFFICES ASSUME Typed, [Next]_vars PROVE Typed'
    OBVIOUS
  <1>1. CASE WorkerTask
    BY <1>1, ExecuteCommandKeeps, BeginConfigurationKeeps, ParamReportedKeeps,
       BeginAssociationKeeps, GroupingsKnownKeeps, GroupReportedKeeps, WaitTimeoutKeeps,
       IdleTimeoutKeeps DEF WorkerTask
  <1>2. CASE OnFrameReceived
    BY <1>2, GroupingsReportKeeps, AssociationReportKeeps, ConfigurationReportKeeps,
       OtherReportsKeep DEF OnFrameReceived
  <1>3. CASE \E j \in UserJobs : EnqueueJob(j)
    BY <1>3, EnqueueJobKeeps
  <1>4. CASE Transport \/ LoseFrame \/ \E kind \in Announcements : Announce(kind)
    BY <1>4, TransportKeeps, LoseFrameKeeps, AnnounceKeeps
  <1>5. CASE UNCHANGED vars
    BY <1>5 DEF vars, tables, network, Typed, WaitTyped, JobsTyped, JobsDoneInOrder, TablesTyped,
                NetworkTyped
  <1> QED
    BY <1>1, <1>2, <1>3, <1>4, <1>5 DEF Next

LEMMA AlwaysTyped == Spec => []Typed
  BY InitTyped, NextKeepsTyped, PTL DEF Spec

\* The variables keep their types, whatever the threads, the network and the
\* node do (Node.h, Device.cpp).
THEOREM TypeCorrect == Spec => []TypeOK
  <1>1. Typed => TypeOK
    BY DEF Typed, WaitTyped, JobsTyped, TablesTyped, NetworkTyped, TypeOK
  <1> QED
    BY <1>1, AlwaysTyped, PTL

\* Each job is done once, in the order of EnqueueJob (Node.h:413), for any
\* number of jobs and any answers that are lost or late.
THEOREM DoneInOrder == Spec => []JobsDoneInOrder
  <1>1. Typed => JobsDoneInOrder
    BY DEF Typed, JobsTyped
  <1> QED
    BY <1>1, AlwaysTyped, PTL

-----------------------------------------------------------------------------
(* What the tables hold, for a node that reports a group in one frame and  *)
(* as long as no answer is late.                                           *)

\* The elements of q, but for one, are in S; all of them are.
Single(q, S) == \A i, j \in DOMAIN q : q[i] \notin S /\ q[j] \notin S => i = j
None(q, S)   == \A i \in DOMAIN q : q[i] \in S

\* f is the GET whose answer the worker waits for and has not had.
AsksFor(f) ==
  \/ /\ pc = "groupings" /\ IsGet(f, "GROUPINGS")
     /\ f.cc = Head(jobQueue).cc /\ size[f.cc] = 0
  \/ /\ pc = "group" /\ IsGet(f, "ASSOCIATION")
     /\ f.cc = Head(jobQueue).cc /\ f.group = index /\ ~hasLastReport[f.cc][f.group]
  \/ /\ pc = "param" /\ IsGet(f, "CONFIGURATION")
     /\ f.param = index /\ ~valid[f.param]

\* r is that answer.
Answers(r) ==
  \/ /\ pc = "groupings" /\ r.report = "GROUPINGS"
     /\ r.cc = Head(jobQueue).cc /\ size[r.cc] = 0
  \/ /\ pc = "group" /\ r.report = "ASSOCIATION"
     /\ r.cc = Head(jobQueue).cc /\ r.group = index /\ ~hasLastReport[r.cc][r.group]
     /\ r.toFollow = 0 /\ r.whole = r.nodes
  \/ /\ pc = "param" /\ r.report = "CONFIGURATION"
     /\ r.param = index /\ ~valid[r.param]

\* One question is open at a time, and it is the one the worker waits for.
OneQuestion ==
  /\ Single(outbox, Commands) /\ Single(air, OfTheNode)
  /\ None(outbox, Commands) \/ None(air, OfTheNode)
  /\ \A i \in DOMAIN outbox : outbox[i] \in Commands \/ AsksFor(outbox[i])
  /\ \A i \in DOMAIN air : air[i] \in OfTheNode \/ Answers(air[i])

\* The groups the interview went through have their last report.
GroupsBefore ==
  \A c \in Classes :
    pc = "group" /\ Head(jobQueue) = AssociationInterview(c) =>
      \A g \in Groups : g < index => hasLastReport[c][g]

Recorded ==
  \A c \in Classes : \A g \in Groups : hasLastReport[c][g] => members[c][g] = answer[c][g]

InTime == OneQuestion /\ GroupsBefore /\ Recorded

\* Queues that grow and shrink by one element.
LEMMA AppendInside ==
  ASSUME NEW T, NEW S, NEW q \in Seq(T), NEW f \in S
  PROVE  /\ Single(q, S) => Single(Append(q, f), S)
         /\ None(q, S) => None(Append(q, f), S)
         /\ \A i \in DOMAIN Append(q, f) :
              Append(q, f)[i] \in S \/ (i \in DOMAIN q /\ Append(q, f)[i] = q[i])
  <1>1. DOMAIN q = 1 .. Len(q) /\ Len(q) \in Nat /\ DOMAIN Append(q, f) = 1 .. Len(q) + 1
    BY AppendProperties, Z3
  <1>2. /\ \A i \in 1 .. Len(q) : Append(q, f)[i] = q[i]
        /\ Append(q, f)[Len(q) + 1] = f
    BY AppendProperties, Z3
  <1>3. \A i \in 1 .. Len(q) + 1 : i \in 1 .. Len(q) \/ i = Len(q) + 1
    BY <1>1
  <1> HIDE DEF None
  <1> QED
    BY <1>1, <1>2, <1>3 DEF Single, None

LEMMA AppendOutside ==
  ASSUME NEW T, NEW S, NEW q \in Seq(T), NEW f, f \notin S, None(q, S)
  PROVE  /\ Single(Append(q, f), S)
         /\ \A i \in DOMAIN Append(q, f) : Append(q, f)[i] \in S \/ Append(q, f)[i] = f
  <1>1. DOMAIN q = 1 .. Len(q) /\ Len(q) \in Nat /\ DOMAIN Append(q, f) = 1 .. Len(q) + 1
    BY Z3
  <1>2. /\ \A i \in 1 .. Len(q) : Append(q, f)[i] = q[i]
        /\ Append(q, f)[Len(q) + 1] = f
    BY Z3
  <1>3. \A i \in 1 .. Len(q) + 1 : i \in 1 .. Len(q) \/ i = Len(q) + 1
    BY <1>1
  <1>4. \A i \in 1 .. Len(q) + 1 : Append(q, f)[i] \in S \/ i = Len(q) + 1
    BY <1>1, <1>2, <1>3 DEF None
  <1>5. Single(Append(q, f), S)
    BY <1>1, <1>4 DEF Single
  <1> QED
    BY <1>1, <1>2, <1>4, <1>5

LEMMA TailOf ==
  ASSUME NEW T, NEW S, NEW q \in Seq(T), q # <<>>
  PROVE  /\ Single(q, S) => Single(Tail(q), S)
         /\ None(q, S) => None(Tail(q), S)
         /\ Single(q, S) /\ Head(q) \notin S => None(Tail(q), S)
         /\ \A i \in DOMAIN Tail(q) : \E j \in DOMAIN q : Tail(q)[i] = q[j]
         /\ \E j \in DOMAIN q : Head(q) = q[j]
  <1>1. /\ DOMAIN q = 1 .. Len(q) /\ Len(q) \in Nat /\ Len(q) >= 1
        /\ DOMAIN Tail(q) = 1 .. Len(q) - 1
        /\ Head(q) = q[1]
        /\ \A i \in 1 .. Len(q) - 1 : Tail(q)[i] = q[i + 1]
    BY HeadTailProperties, EmptySeq, LenProperties
  <1>2. \A i \in 1 .. Len(q) - 1 : i + 1 \in 1 .. Len(q) /\ i + 1 # 1
    BY <1>1
  <1>3. \A i, j \in 1 .. Len(q) - 1 : i + 1 = j + 1 => i = j
    BY <1>1
  <1>4. 1 \in DOMAIN q
    BY <1>1
  <1> QED
    BY <1>1, <1>2, <1>3, <1>4 DEF Single, None

-----------------------------------------------------------------------------
(* One question at a time.                                                 *)

\* GETs are no commands, and reports are no announcements.
LEMMA GetsAreNoCommands ==
  /\ \A c : GroupingsGet(c) \notin Commands
  /\ \A c, g : AssociationGet(c, g) \notin Commands
  /\ \A p : ConfigurationGet(p) \notin Commands
  <1>1. \A f \in Commands : "job" \in DOMAIN f
    <2>1. "job" \in DOMAIN Battery
      BY DEF Battery
    <2>2. \A c, g, t : "job" \in DOMAIN Bind(c, g, t) /\ "job" \in DOMAIN Unbind(c, g, t)
      BY DEF Bind, Unbind
    <2> QED
      BY <2>1, <2>2 DEF Commands
  <1>2. \A c : "job" \notin DOMAIN GroupingsGet(c)
    BY DEF GroupingsGet
  <1>3. \A c, g : "job" \notin DOMAIN AssociationGet(c, g)
    BY DEF AssociationGet
  <1>4. \A p : "job" \notin DOMAIN ConfigurationGet(p)
    BY DEF ConfigurationGet
  <1> QED
    BY <1>1, <1>2, <1>3, <1>4

\* Nothing is open.
Quiet == None(outbox, Commands) /\ None(air, OfTheNode)

LEMMA QuietAsksNothing == Quiet => OneQuestion
  BY DEF Quiet, OneQuestion, None, Single

LEMMA DoneIsQuiet ==
  ASSUME OneQuestion, pc = "loop" \/ WaitSatisfied, Typed
  PROVE  Quiet
  <1>1. CASE pc = "loop"
    BY <1>1 DEF OneQuestion, AsksFor, Answers, Quiet, None
  <1>2. CASE pc = "groupings" /\ size[Head(jobQueue).cc] > 0
    BY <1>2 DEF OneQuestion, AsksFor, Answers, Quiet, None
  <1>3. CASE pc = "group" /\ hasLastReport[Head(jobQueue).cc][index]
    BY <1>3 DEF OneQuestion, AsksFor, Answers, Quiet, None
  <1>4. CASE pc = "param" /\ valid[index]
    BY <1>4 DEF OneQuestion, AsksFor, Answers, Quiet, None
  <1> QED
    BY <1>1, <1>2, <1>3, <1>4 DEF WaitSatisfied

\* The next question after the last answer.
LEMMA AsksOneQuestion ==
  ASSUME Typed, Quiet, NEW f, f \notin Commands, Send(f), UNCHANGED air, AsksFor(f)'
  PROVE  OneQuestion'
  <1>1. outbox \in Seq(Commands \cup Requests) /\ outbox' = Append(outbox, f)
    BY DEF Typed, NetworkTyped, Send
  <1>2. /\ Single(outbox', Commands)
        /\ \A i \in DOMAIN outbox' : outbox'[i] \in Commands \/ outbox'[i] = f
    BY <1>1, AppendOutside DEF Quiet
  <1>3. Single(air, OfTheNode) /\ None(air, OfTheNode)
    BY DEF Quiet, None, Single
  <1>4. (\A i \in DOMAIN outbox : outbox[i] \in Commands \/ AsksFor(outbox[i]))'
    BY <1>2
  <1>5. (\A i \in DOMAIN air : air[i] \in OfTheNode \/ Answers(air[i]))'
    BY <1>3 DEF None
  <1> QED
    BY <1>2, <1>3, <1>4, <1>5 DEF OneQuestion, None, Single

\* A command leaves the open question as it is.
LEMMA SameQuestion ==
  ASSUME Typed, OneQuestion,
         \A f : AsksFor(f) => AsksFor(f)', \A r : Answers(r) => Answers(r)',
         \/ outbox' = outbox
         \/ outbox # <<>> /\ outbox' = Tail(outbox)
         \/ \E f \in Commands : outbox' = Append(outbox, f),
         \/ air' = air
         \/ air # <<>> /\ air' = Tail(air)
         \/ \E r \in OfTheNode : air' = Append(air, r)
  PROVE  OneQuestion'
  <1>1. outbox \in Seq(Commands \cup Requests) /\ air \in Seq(Reports)
    BY DEF Typed, NetworkTyped
  <1>2. /\ Single(outbox', Commands) /\ (None(outbox, Commands) => None(outbox', Commands))
        /\ \A i \in DOMAIN outbox' :
             outbox'[i] \in Commands \/ \E j \in DOMAIN outbox : outbox'[i] = outbox[j]
    <2>1. CASE outbox' = outbox
      BY <2>1 DEF OneQuestion
    <2>2. CASE outbox # <<>> /\ outbox' = Tail(outbox)
      BY <1>1, <2>2, TailOf DEF OneQuestion
    <2>3. CASE \E f \in Commands : outbox' = Append(outbox, f)
      BY <1>1, <2>3, AppendInside DEF OneQuestion
    <2> QED
      BY <2>1, <2>2, <2>3
  <1>3. /\ Single(air', OfTheNode) /\ (None(air, OfTheNode) => None(air', OfTheNode))
        /\ \A i \in DOMAIN air' :
             air'[i] \in OfTheNode \/ \E j \in DOMAIN air : air'[i] = air[j]
    <2>1. CASE air' = air
      BY <2>1 DEF OneQuestion
    <2>2. CASE air # <<>> /\ air' = Tail(air)
      BY <1>1, <2>2, TailOf DEF OneQuestion
    <2>3. CASE \E r \in OfTheNode : air' = Append(air, r)
      BY <1>1, <2>3, AppendInside DEF OneQuestion
    <2> QED
      BY <2>1, <2>2, <2>3
  <1>4. \A i \in DOMAIN outbox' : outbox'[i] \in Commands \/ AsksFor(outbox'[i])
    BY <1>2 DEF OneQuestion
  <1>5. \A i \in DOMAIN air' : air'[i] \in OfTheNode \/ Answers(air'[i])
    BY <1>3 DEF OneQuestion
  <1> QED
    BY <1>2, <1>3, <1>4, <1>5 DEF OneQuestion

\* The answer is taken and nothing is open.
LEMMA AnswerIsTaken ==
  ASSUME Typed, OneQuestion, TakesFromAir, Head(air) \notin OfTheNode
  PROVE  Answers(Head(air)) /\ Quiet'
  <1>1. air \in Seq(Reports) /\ air # <<>> /\ air' = Tail(air) /\ outbox' = outbox
    BY DEF Typed, NetworkTyped, TakesFromAir
  <1>2. None(Tail(air), OfTheNode) /\ \E j \in DOMAIN air : Head(air) = air[j]
    BY <1>1, TailOf DEF OneQuestion
  <1>3. Answers(Head(air)) /\ None(outbox, Commands)
    BY <1>2 DEF OneQuestion, None
  <1> QED
    BY <1>1, <1>2, <1>3 DEF Quiet

\* The question reaches the node.
LEMMA QuestionIsAnswered ==
  ASSUME Typed, OneQuestion, MaxParts = 1, Transport, Head(outbox) \notin Commands
  PROVE  OneQuestion'
  <1> DEFINE f == Head(outbox)
  <1>1. /\ outbox \in Seq(Commands \cup Requests) /\ outbox # <<>> /\ outbox' = Tail(outbox)
        /\ air \in Seq(Reports) /\ NodeReacts(f)
        /\ UNCHANGED <<jobQueue, pc, index, tables>>
    BY DEF Typed, NetworkTyped, Transport
  <1>2. None(outbox', Commands) /\ \E j \in DOMAIN outbox : f = outbox[j]
    BY <1>1, TailOf DEF OneQuestion
  <1>3. AsksFor(f) /\ None(air, OfTheNode)
    BY <1>2 DEF OneQuestion, None
  <1>4. \A r : Answers(r) => Answers(r)'
    BY <1>1 DEF Answers, tables
  <1>5. PICK r : air' = Append(air, r) /\ Answers(r)
    <2>0. f \notin Commands /\ f # Battery
      BY DEF Commands
    <2>1. CASE pc = "groupings" /\ IsGet(f, "GROUPINGS") /\ f.cc = Head(jobQueue).cc /\ size[f.cc] = 0
      <3>1. air' = Append(air, [report |-> "GROUPINGS", cc |-> f.cc])
        BY <1>1, <2>0, <2>1 DEF NodeReacts, IsGet
      <3> QED
        BY <2>1, <3>1 DEF Answers
    <2>2. CASE /\ pc = "group" /\ IsGet(f, "ASSOCIATION")
               /\ f.cc = Head(jobQueue).cc /\ f.group = index /\ ~hasLastReport[f.cc][f.group]
      <3> DEFINE list == bound[f.cc][f.group]
      <3>1. PICK parts \in Parts(f.cc, f.group, list) : air' = air \o parts
        BY <1>1, <2>0, <2>2 DEF NodeReacts, IsGet
      <3> DEFINE a == [report |-> "ASSOCIATION", cc |-> f.cc, group |-> f.group, nodes |-> list,
                       toFollow |-> 0, whole |-> list]
      <3>2. parts = <<a>>
        BY <3>1 DEF Parts
      <3>3. a.report = "ASSOCIATION" /\ a.cc = f.cc /\ a.group = f.group /\ a.toFollow = 0 /\ a.whole = a.nodes
        OBVIOUS
      <3> HIDE DEF a
      <3>4. air' = Append(air, a)
        BY <1>1, <3>1, <3>2, AppendIsConcat
      <3>5. Answers(a)
        BY <2>2, <3>3 DEF Answers
      <3> QED
        BY <3>4, <3>5, SMTT(60)
    <2>3. CASE /\ pc = "param" /\ IsGet(f, "CONFIGURATION") /\ f.param = index /\ ~valid[f.param]
      <3>1. air' = Append(air, [report |-> "CONFIGURATION", param |-> f.param])
        BY <1>1, <2>0, <2>3 DEF NodeReacts, IsGet
      <3> QED
        BY <2>3, <3>1 DEF Answers
    <2> QED
      BY <1>3, <2>1, <2>2, <2>3 DEF AsksFor
  <1>6. r \notin OfTheNode
    BY <1>5, NodeJobsAssumption DEF Answers, OfTheNode
  <1>7. /\ Single(air', OfTheNode)
        /\ \A i \in DOMAIN air' : air'[i] \in OfTheNode \/ air'[i] = r
    BY <1>1, <1>3, <1>5, <1>6, AppendOutside
  <1>8. \A i \in DOMAIN air' : air'[i] \in OfTheNode \/ Answers(air'[i])
    BY <1>5, <1>7
  <1>9. Single(outbox', Commands) /\ \A i \in DOMAIN outbox' : outbox'[i] \in Commands
    BY <1>2 DEF None, Single
  <1> QED
    BY <1>2, <1>4, <1>7, <1>8, <1>9 DEF OneQuestion

-----------------------------------------------------------------------------
(* The steps that are in time.                                             *)

\* The tables and the front of the queue stay while the worker waits.
LEMMA TablesStay ==
  ASSUME InTime, UNCHANGED <<tables, answer, pc, index>>,
         pc # "loop" => Head(jobQueue') = Head(jobQueue)
  PROVE  /\ GroupsBefore' /\ Recorded'
         /\ \A f : AsksFor(f) => AsksFor(f)'
         /\ \A r : Answers(r) => Answers(r)'
  <1> USE DEF InTime, tables
  <1>1. GroupsBefore'
    BY DEF GroupsBefore
  <1>2. Recorded'
    BY DEF Recorded
  <1>3. \A f : AsksFor(f) => AsksFor(f)'
    BY DEF AsksFor
  <1>4. \A r : Answers(r) => Answers(r)'
    BY DEF Answers
  <1> QED
    BY <1>1, <1>2, <1>3, <1>4

\* The worker turns back to its loop with nothing open.
LEMMA BackInTime ==
  ASSUME InTime, Quiet', pc' = "loop", UNCHANGED <<tables, answer>>
  PROVE  InTime'
  <1>1. OneQuestion'
    BY QuietAsksNothing DEF Quiet, OneQuestion, None, Single
  <1>2. GroupsBefore' /\ Recorded'
    BY DEF InTime, GroupsBefore, Recorded, tables
  <1> QED
    BY <1>1, <1>2 DEF InTime

LEMMA AskGroupInTime ==
  ASSUME Typed, InTime, Quiet, NEW c \in Classes, NEW g \in Groups, AskGroup(c, g),
         Head(jobQueue) = AssociationInterview(c),
         \A h \in Groups : h < g => hasLastReport[c][h],
         UNCHANGED <<jobQueue, size, members, valid, air, answer>>
  PROVE  InTime'
  <1>1. /\ pc' = "group" /\ index' = g /\ Send(AssociationGet(c, g))
        /\ hasLastReport' = [hasLastReport EXCEPT ![c][g] = FALSE]
    BY DEF AskGroup
  <1>2. hasLastReport \in GroupTable(BOOLEAN)
    BY DEF Typed, TablesTyped
  <1>3. /\ hasLastReport'[c][g] = FALSE
        /\ \A d \in Classes : \A h \in Groups :
             <<d, h>> # <<c, g>> => hasLastReport'[d][h] = hasLastReport[d][h]
    BY <1>1, <1>2 DEF GroupTable
  <1>4. OneQuestion'
    <2> DEFINE f == AssociationGet(c, g)
    <2>1. f.get = "ASSOCIATION" /\ f.cc = c /\ f.group = g /\ f \notin Commands
      BY GetsAreNoCommands DEF AssociationGet
    <2>2. Head(jobQueue').cc = c
      BY DEF AssociationInterview
    <2> HIDE DEF f
    <2>3. AsksFor(f)'
      BY <1>1, <1>3, <2>1, <2>2 DEF AsksFor, IsGet
    <2> QED
      BY <1>1, <2>1, <2>3, AsksOneQuestion DEF f
  <1>5. GroupsBefore'
    <2>1. \A d \in Classes : AssociationInterview(d) = AssociationInterview(c) => d = c
      BY DEF AssociationInterview
    <2>2. \A h \in Groups : h < g => h # g
      BY GroupsAndParams
    <2> QED
      BY <1>1, <1>3, <2>1, <2>2 DEF GroupsBefore
  <1>6. Recorded'
    BY <1>3 DEF InTime, Recorded
  <1> QED
    BY <1>4, <1>5, <1>6 DEF InTime

LEMMA AskParamInTime ==
  ASSUME Typed, InTime, Quiet, NEW p \in Params, AskParam(p),
         UNCHANGED <<jobQueue, size, members, hasLastReport, air, answer>>
  PROVE  InTime'
  <1>1. pc' = "param" /\ index' = p /\ Send(ConfigurationGet(p)) /\ valid'[p] = FALSE
    BY DEF AskParam, Typed, TablesTyped
  <1>2. OneQuestion'
    <2> DEFINE f == ConfigurationGet(p)
    <2>1. f.get = "CONFIGURATION" /\ f.param = p /\ f \notin Commands
      BY GetsAreNoCommands DEF ConfigurationGet
    <2> HIDE DEF f
    <2>2. AsksFor(f)'
      BY <1>1, <2>1 DEF AsksFor, IsGet
    <2> QED
      BY <1>1, <2>1, <2>2, AsksOneQuestion DEF f
  <1>3. GroupsBefore' /\ Recorded'
    BY <1>1 DEF InTime, GroupsBefore, Recorded
  <1> QED
    BY <1>2, <1>3 DEF InTime

LEMMA BeginAssociationInTime ==
  ASSUME Typed, InTime, NEW c \in Classes, BeginAssociationInterview(c)
  PROVE  InTime'
  <1>1. /\ pc = "loop" /\ jobQueue # <<>> /\ Head(jobQueue) = AssociationInterview(c)
        /\ UNCHANGED <<jobQueue, awake, size, members, valid, air, bound, losses, late,
                       submitted, executed, answer>>
    BY DEF BeginAssociationInterview, Peeks
  <1>2. Quiet
    BY <1>1, DoneIsQuiet DEF InTime
  <1>3. CASE size[c] > 0 /\ AskGroup(c, 1)
    <2>1. \A h \in Groups : ~(h < 1)
      BY DEF Groups
    <2> QED
      BY <1>1, <1>2, <1>3, <2>1, GroupsAndParams, AskGroupInTime
  <1>4. CASE /\ size[c] = 0 /\ pc' = "groupings" /\ Send(GroupingsGet(c))
             /\ UNCHANGED <<index, hasLastReport>>
    <2> DEFINE f == GroupingsGet(c)
    <2>1. f.get = "GROUPINGS" /\ f.cc = c /\ f \notin Commands
      BY GetsAreNoCommands DEF GroupingsGet
    <2>2. Head(jobQueue').cc = c
      BY <1>1 DEF AssociationInterview
    <2> HIDE DEF f
    <2>3. AsksFor(f)'
      BY <1>1, <1>4, <2>1, <2>2 DEF AsksFor, IsGet
    <2>4. OneQuestion'
      BY <1>1, <1>2, <1>4, <2>1, <2>3, AsksOneQuestion DEF f
    <2>5. GroupsBefore' /\ Recorded'
      BY <1>1, <1>4 DEF InTime, GroupsBefore, Recorded
    <2> QED
      BY <2>4, <2>5 DEF InTime
  <1> QED
    BY <1>3, <1>4 DEF BeginAssociationInterview

LEMMA GroupingsKnownInTime ==
  ASSUME Typed, InTime, NEW c \in Classes, GroupingsKnown(c)
  PROVE  InTime'
  <1>1. /\ pc = "groupings" /\ Head(jobQueue) = AssociationInterview(c) /\ size[c] > 0
        /\ AskGroup(c, 1)
        /\ UNCHANGED <<jobQueue, awake, size, members, valid, air, bound, losses, late,
                       submitted, executed, answer>>
    BY DEF GroupingsKnown
  <1>2. Quiet
    BY <1>1, DoneIsQuiet DEF InTime, WaitSatisfied, AssociationInterview
  <1>3. \A h \in Groups : ~(h < 1)
    BY DEF Groups
  <1> QED
    BY <1>1, <1>2, <1>3, GroupsAndParams, AskGroupInTime

LEMMA GroupReportedInTime ==
  ASSUME Typed, InTime, NEW c \in Classes, GroupReported(c)
  PROVE  InTime'
  <1>1. /\ pc = "group" /\ Head(jobQueue) = AssociationInterview(c) /\ hasLastReport[c][index]
        /\ UNCHANGED <<awake, size, members, valid, air, bound, losses, late, submitted, answer>>
    BY DEF GroupReported
  <1>2. Quiet
    BY <1>1, DoneIsQuiet DEF InTime, WaitSatisfied, AssociationInterview
  <1>3. size[c] = GroupCount /\ index \in Groups
    BY <1>1 DEF Typed, WaitTyped
  <1>4. CASE index < size[c] /\ AskGroup(c, index + 1) /\ UNCHANGED <<jobQueue, executed>>
    <2>1. index + 1 \in Groups
      BY <1>3, <1>4, NodeJobsAssumption DEF Groups
    <2>2. \A h \in Groups : h < index + 1 => h = index \/ h < index
      BY <1>3, GroupsAndParams
    <2>3. \A h \in Groups : h < index + 1 => hasLastReport[c][h]
      BY <1>1, <2>2 DEF InTime, GroupsBefore
    <2> QED
      BY <1>1, <1>2, <1>4, <2>1, <2>3, AskGroupInTime
  <1>5. CASE pc' = "loop" /\ PopJob /\ UNCHANGED <<index, hasLastReport, outbox>>
    BY <1>1, <1>2, <1>5, BackInTime DEF Quiet, None, tables
  <1> QED
    BY <1>4, <1>5 DEF GroupReported

LEMMA ParamReportedInTime ==
  ASSUME Typed, InTime, ParamReported
  PROVE  InTime'
  <1>1. /\ pc = "param" /\ valid[index]
        /\ UNCHANGED <<awake, size, members, hasLastReport, air, bound, losses, late,
                       submitted, answer>>
    BY DEF ParamReported
  <1>2. Quiet
    BY <1>1, DoneIsQuiet DEF InTime, WaitSatisfied
  <1>3. CASE index + 1 < ParamCount /\ AskParam(index + 1) /\ UNCHANGED <<jobQueue, executed>>
    <2>1. index + 1 \in Params
      BY <1>1, <1>3, NodeJobsAssumption DEF Params, Typed, WaitTyped
    <2> QED
      BY <1>1, <1>2, <1>3, <2>1, AskParamInTime
  <1>4. CASE pc' = "loop" /\ PopJob /\ UNCHANGED <<index, valid, outbox>>
    BY <1>1, <1>2, <1>4, BackInTime DEF Quiet, None, tables
  <1> QED
    BY <1>3, <1>4 DEF ParamReported

LEMMA LoopInTime ==
  ASSUME Typed, InTime, ExecuteCommandJob \/ IdleTimeout \/ BeginConfigurationInterview
  PROVE  InTime'
  <1>1. pc = "loop" /\ Quiet
    BY DoneIsQuiet DEF ExecuteCommandJob, IdleTimeout, BeginConfigurationInterview, Peeks, InTime
  <1>2. CASE ExecuteCommandJob
    <2>1. /\ Head(jobQueue) \in Commands /\ outbox' = Append(outbox, Head(jobQueue))
          /\ UNCHANGED <<pc, tables, air, answer>>
      BY <1>2 DEF ExecuteCommandJob, Peeks, Send
    <2>2. None(outbox', Commands)
      BY <1>1, <2>1, AppendInside DEF Typed, NetworkTyped, Quiet
    <2> QED
      BY <1>1, <2>1, <2>2, BackInTime DEF Quiet, None
  <1>3. CASE IdleTimeout
    BY <1>1, <1>3, BackInTime DEF IdleTimeout, Quiet, None, network
  <1>4. CASE BeginConfigurationInterview
    BY <1>1, <1>4, GroupsAndParams, AskParamInTime DEF BeginConfigurationInterview
  <1> QED
    BY <1>2, <1>3, <1>4

\* A wait that times out with nothing on its way.
LEMMA WaitTimeoutInTime ==
  ASSUME Typed, InTime, WaitTimeout, late' = late
  PROVE  InTime'
  <1>1. pc' = "loop" /\ ~AnswersPending /\ UNCHANGED <<tables, network, answer>>
    BY DEF WaitTimeout, TimesOut, Typed, NetworkTyped
  <1>2. None(outbox, Commands)
    BY <1>1 DEF AnswersPending, None
  <1>3. None(air, OfTheNode)
    <2>1. air \in Seq(Reports) /\ \A i \in DOMAIN air : air[i].report \in Announcements
      BY <1>1 DEF AnswersPending, Typed, NetworkTyped
    <2>2. \A i \in DOMAIN air : air[i] \in Reports
      BY <2>1, ElementOfSeq
    <2> QED
      BY <2>1, <2>2, ReportsByKind DEF None
  <1> QED
    BY <1>1, <1>2, <1>3, BackInTime DEF Quiet, None, network

\* A report that is no announcement is the awaited one, and the last.
LEMMA GroupingsReportInTime ==
  ASSUME Typed, InTime, HandleGroupingsReport
  PROVE  InTime'
  <1>1. /\ TakesFromAir /\ air # <<>> /\ Head(air).report = "GROUPINGS"
        /\ UNCHANGED <<jobQueue, pc, index>>
    BY DEF HandleGroupingsReport, Receives, TakesFromAir
  <1>2. Head(air) \notin OfTheNode
    BY <1>1, NodeJobsAssumption DEF OfTheNode
  <1>3. pc = "groupings" /\ Quiet'
    BY <1>1, <1>2, AnswerIsTaken DEF Answers, InTime
  <1>4. OneQuestion'
    BY <1>3, QuietAsksNothing DEF Quiet, OneQuestion, None, Single
  <1>5. Recorded'
    <2> DEFINE c == Head(air).cc
    <2>1. hasLastReport' = [hasLastReport EXCEPT ![c] = [g \in Groups |-> FALSE]]
          /\ members' = [members EXCEPT ![c] = [g \in Groups |-> {}]] /\ UNCHANGED answer
      BY DEF HandleGroupingsReport
    <2> HIDE DEF c
    <2>2. \A d \in Classes : d # c =>
            hasLastReport'[d] = hasLastReport[d] /\ members'[d] = members[d]
      BY <2>1 DEF Typed, TablesTyped, GroupTable
    <2>3. \A g \in Groups : c \in Classes => ~hasLastReport'[c][g]
      BY <2>1 DEF Typed, TablesTyped, GroupTable
    <2> QED
      BY <2>1, <2>2, <2>3 DEF InTime, Recorded
  <1> QED
    BY <1>1, <1>3, <1>4, <1>5 DEF InTime, GroupsBefore

LEMMA AssociationReportInTime ==
  ASSUME Typed, InTime, HandleAssociationReport
  PROVE  InTime'
  <1>1. /\ TakesFromAir /\ air # <<>> /\ Head(air).report = "ASSOCIATION"
        /\ UNCHANGED <<jobQueue, pc, index>>
    BY DEF HandleAssociationReport, Receives, TakesFromAir
  <1> DEFINE r == Head(air)
  <1>2. r \notin OfTheNode /\ r \in Associations
    BY <1>1, FirstReport, ReportsByKind, NodeJobsAssumption DEF OfTheNode
  <1>3. Answers(r) /\ Quiet'
    BY <1>1, <1>2, AnswerIsTaken DEF InTime
  <1>4. /\ pc = "group" /\ r.cc = Head(jobQueue).cc /\ r.group = index
        /\ ~hasLastReport[r.cc][r.group] /\ r.toFollow = 0 /\ r.whole = r.nodes
    BY <1>1, <1>3 DEF Answers
  <1>5. r.cc \in Classes /\ r.group \in Groups /\ r.nodes \in SUBSET Targets
    BY <1>2 DEF Associations
  <1>6. /\ members' = [members EXCEPT ![r.cc][r.group] = r.nodes]
        /\ hasLastReport' = [hasLastReport EXCEPT ![r.cc][r.group] = TRUE]
        /\ answer' = [answer EXCEPT ![r.cc][r.group] = r.nodes]
    BY <1>4 DEF HandleAssociationReport
  <1> DEFINE c == r.cc
             g == r.group
             n == r.nodes
  <1>7. /\ members' = [members EXCEPT ![c][g] = n] /\ answer' = [answer EXCEPT ![c][g] = n]
        /\ hasLastReport' = [hasLastReport EXCEPT ![c][g] = TRUE]
        /\ c \in Classes /\ g \in Groups /\ index = g /\ n \in SUBSET Targets
    BY <1>4, <1>5, <1>6
  <1> HIDE DEF c, g, n
  <1>8. /\ hasLastReport'[c][g] = TRUE /\ members'[c][g] = n /\ answer'[c][g] = n
        /\ \A d \in Classes : \A h \in Groups : <<d, h>> # <<c, g>> =>
             /\ hasLastReport'[d][h] = hasLastReport[d][h]
             /\ members'[d][h] = members[d][h] /\ answer'[d][h] = answer[d][h]
    BY <1>7 DEF Typed, TablesTyped, GroupTable
  <1>9. OneQuestion'
    BY <1>3, QuietAsksNothing DEF Quiet, OneQuestion, None, Single
  <1>10. Recorded'
    BY <1>8 DEF InTime, Recorded
  <1>11. GroupsBefore'
    BY <1>1, <1>8 DEF InTime, GroupsBefore
  <1> QED
    BY <1>9, <1>10, <1>11 DEF InTime

LEMMA ConfigurationReportInTime ==
  ASSUME Typed, InTime, HandleConfigurationReport
  PROVE  InTime'
  <1>1. /\ TakesFromAir /\ air # <<>> /\ Head(air).report = "CONFIGURATION"
        /\ UNCHANGED <<jobQueue, pc, index, size, members, hasLastReport, answer>>
    BY DEF HandleConfigurationReport, Receives, TakesFromAir
  <1>2. Head(air) \notin OfTheNode
    BY <1>1, NodeJobsAssumption DEF OfTheNode
  <1>3. pc = "param" /\ Quiet'
    BY <1>1, <1>2, AnswerIsTaken DEF Answers, InTime
  <1>4. OneQuestion'
    BY <1>3, QuietAsksNothing DEF Quiet, OneQuestion, None, Single
  <1> QED
    BY <1>1, <1>4 DEF InTime, GroupsBefore, Recorded

\* Announcements, lost frames and new jobs leave the tables alone.
LEMMA TakenAside ==
  ASSUME Typed, InTime, HandleNodeInfo \/ DropReport
  PROVE  InTime'
  <1>1. /\ air # <<>> /\ air' = Tail(air) /\ UNCHANGED <<tables, answer>>
        /\ UNCHANGED <<jobQueue, pc, index, outbox>>
    BY DEF HandleNodeInfo, DropReport, TakesFromAir
  <1> QED
    BY <1>1, TablesStay, SameQuestion DEF InTime

LEMMA AroundInTime ==
  ASSUME Typed, InTime,
         LoseFrame \/ (\E kind \in Announcements : Announce(kind))
           \/ (\E j \in UserJobs : EnqueueJob(j))
  PROVE  InTime'
  <1>1. CASE LoseFrame
    <2>1. /\ UNCHANGED <<tables, answer, pc, index, jobQueue>>
          /\ \/ outbox' = outbox
             \/ outbox # <<>> /\ outbox' = Tail(outbox)
          /\ \/ air' = air
             \/ air # <<>> /\ air' = Tail(air)
      BY <1>1 DEF LoseFrame
    <2> QED
      BY <2>1, TablesStay, SameQuestion DEF InTime
  <1>2. CASE \E kind \in Announcements : Announce(kind)
    <2>1. PICK kind \in Announcements : Announce(kind)
      BY <1>2
    <2>2. /\ [report |-> kind] \in OfTheNode /\ air' = Append(air, [report |-> kind])
          /\ UNCHANGED <<tables, answer, pc, index, jobQueue, outbox>>
      BY <2>1 DEF Announce, OfTheNode
    <2> QED
      BY <2>2, TablesStay, SameQuestion DEF InTime
  <1>3. CASE \E j \in UserJobs : EnqueueJob(j)
    <2>1. PICK j \in UserJobs : EnqueueJob(j)
      BY <1>3
    <2>2. /\ jobQueue' = Append(jobQueue, j) /\ UNCHANGED <<outbox, air>>
          /\ UNCHANGED <<tables, answer, pc, index>>
      BY <2>1 DEF EnqueueJob, network
    <2>3. pc # "loop" => Head(jobQueue') = Head(jobQueue)
      <3>1. jobQueue \in Seq(UserJobs) /\ (pc # "loop" => jobQueue # <<>>)
        BY DEF Typed, JobsTyped, WaitTyped
      <3> QED
        BY <2>2, <3>1, AppendProperties, Z3
    <2> QED
      BY <2>2, <2>3, TablesStay, SameQuestion DEF InTime
  <1> QED
    BY <1>1, <1>2, <1>3

LEMMA TransportInTime ==
  ASSUME Typed, InTime, MaxParts = 1, Transport
  PROVE  InTime'
  <1>1. /\ outbox # <<>> /\ outbox' = Tail(outbox) /\ NodeReacts(Head(outbox))
        /\ UNCHANGED <<tables, answer, pc, index, jobQueue>>
    BY DEF Transport
  <1>2. GroupsBefore' /\ Recorded'
    BY <1>1, TablesStay
  <1>3. CASE Head(outbox) \in Commands
    <2>1. UNCHANGED air
      BY <1>1, <1>3 DEF NodeReacts, IsGet
    <2> QED
      BY <1>1, <1>2, <2>1, TablesStay, SameQuestion DEF InTime
  <1>4. CASE Head(outbox) \notin Commands
    BY <1>2, <1>4, QuestionIsAnswered DEF InTime
  <1> QED
    BY <1>3, <1>4

-----------------------------------------------------------------------------
\* Until an answer is late, every step is in time.
IInv == Typed /\ (late = MaxLate => InTime)

LEMMA InitInTime == Init => IInv
  <1> SUFFICES ASSUME Init PROVE InTime
    BY InitTyped DEF IInv
  <1>1. OneQuestion
    BY DEF Init, OneQuestion, Single, None
  <1> QED
    BY <1>1 DEF Init, InTime, GroupsBefore, Recorded

LEMMA NextInTime ==
  ASSUME MaxParts = 1, IInv, [Next]_vars
  PROVE  IInv'
  <1>1. Typed /\ Typed'
    BY NextKeepsTyped DEF IInv
  <1> SUFFICES ASSUME late' = MaxLate PROVE InTime'
    BY <1>1 DEF IInv
  <1>2. late = MaxLate
    <2>1. late \in 0 .. MaxLate /\ MaxLate \in Nat
      BY <1>1, NodeJobsAssumption, SMTT(60) DEF Typed, NetworkTyped
    <2>2. late' = late \/ late' = late - 1
      BY DEF Next, WorkerTask, ExecuteCommandJob, BeginConfigurationInterview, ParamReported,
             BeginAssociationInterview, GroupingsKnown, GroupReported, WaitTimeout, TimesOut,
             IdleTimeout, OnFrameReceived, HandleGroupingsReport, HandleAssociationReport,
             HandleConfigurationReport, HandleNodeInfo, DropReport, Receives, TakesFromAir,
             EnqueueJob, Transport, LoseFrame, Announce, vars
    <2> QED
      BY <2>1, <2>2
  <1>3. InTime
    BY <1>2 DEF IInv
  <1>4. CASE WorkerTask
    BY <1>1, <1>2, <1>3, <1>4, LoopInTime, ParamReportedInTime, BeginAssociationInTime,
       GroupingsKnownInTime, GroupReportedInTime, WaitTimeoutInTime DEF WorkerTask
  <1>5. CASE OnFrameReceived
    BY <1>1, <1>3, <1>5, GroupingsReportInTime, AssociationReportInTime,
       ConfigurationReportInTime, TakenAside DEF OnFrameReceived
  <1>6. CASE (\E j \in UserJobs : EnqueueJob(j)) \/ Transport \/ LoseFrame
             \/ \E kind \in Announcements : Announce(kind)
    BY <1>1, <1>3, <1>6, AroundInTime, TransportInTime
  <1>7. CASE UNCHANGED vars
    BY <1>3, <1>7 DEF vars, tables, network, InTime, OneQuestion, AsksFor, Answers, Single, None,
                      GroupsBefore, Recorded
  <1> QED
    BY <1>4, <1>5, <1>6, <1>7 DEF Next

\* As long as no answer comes after its wait, the table of a group holds what
\* the node last reported of it, for a node that reports a group in one frame
\* (Device.cpp HandleReport of both association classes).
THEOREM RecordsWhatIsReported ==
  ASSUME MaxParts = 1
  PROVE  Spec => []RecordedAsReported
  <1>1. IInv => RecordedAsReported
    BY DEF IInv, InTime, Recorded, RecordedAsReported
  <1>2. IInv /\ [Next]_vars => IInv'
    BY NextInTime
  <1> QED
    BY <1>1, <1>2, InitInTime, PTL DEF Spec

\* Under the same conditions an association interview ends with the last report
\* of every group (Node.cpp ExecuteAssociationInterviewJob).
THEOREM EndsWithEveryGroup ==
  ASSUME MaxParts = 1
  PROVE  Spec => InterviewComplete
  <1> DEFINE Complete ==
        late = MaxLate /\ pc = "group" /\ executed' # executed =>
          \A g \in Groups : hasLastReport'[Head(jobQueue).cc][g]
  <1>1. IInv /\ [Next]_vars => [Complete]_vars
    <2> SUFFICES ASSUME IInv, Next, late = MaxLate, pc = "group", executed' # executed
                 PROVE  \A g \in Groups : hasLastReport'[Head(jobQueue).cc][g]
      BY SMTT(60)
    <2>1. PICK c \in Classes : GroupReported(c)
      BY DEF Next, WorkerTask, ExecuteCommandJob, BeginConfigurationInterview, Peeks, ParamReported,
             BeginAssociationInterview, GroupingsKnown, WaitTimeout, TimesOut,
             IdleTimeout, OnFrameReceived, HandleGroupingsReport, HandleAssociationReport,
             HandleConfigurationReport, HandleNodeInfo, DropReport, Receives, TakesFromAir,
             EnqueueJob, Transport, LoseFrame, Announce
    <2>2. /\ Head(jobQueue) = AssociationInterview(c) /\ hasLastReport[c][index]
          /\ index >= size[c] /\ hasLastReport' = hasLastReport
      BY <2>1 DEF GroupReported
    <2>3. size[c] = GroupCount /\ index \in Groups /\ \A g \in Groups : g < index => hasLastReport[c][g]
      BY <2>2 DEF IInv, Typed, WaitTyped, InTime, GroupsBefore
    <2>4. \A g \in Groups : g = index \/ g < index
      BY <2>2, <2>3, NodeJobsAssumption DEF Groups
    <2>5. Head(jobQueue).cc = c
      BY <2>2 DEF AssociationInterview
    <2> QED
      BY <2>2, <2>3, <2>4, <2>5
  <1>2. IInv /\ [Next]_vars => IInv'
    BY NextInTime
  <1> QED
    BY <1>1, <1>2, InitInTime, PTL DEF Spec, InterviewComplete
=============================================================================
