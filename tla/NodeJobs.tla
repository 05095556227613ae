------------------------------ MODULE NodeJobs ------------------------------
(***************************************************************************)
(* The job queue of an interviewed node and the worker that executes it    *)
(* (Node.h WorkerTask, ExecuteJob; Node.cpp Execute...Job), the tables the *)
(* jobs fill (Device.cpp HandleReport, run by the interface thread) and    *)
(* the node itself, behind a transport that may lose frames or delay them  *)
(* beyond the wait of the job that asked.  A node that sleeps comes back   *)
(* when it announces itself in a frame the program takes notice of.        *)
(*                                                                         *)
(* A job that sends one frame is done when it is sent; an interview waits  *)
(* after each GET and, when the wait times out, stays at the front and     *)
(* starts over at the worker's next turn.                                  *)
(***************************************************************************)
EXTENDS Integers, Sequences, SequencesExt

CONSTANTS
  Listening,    \* protocolInfo.isListening
  Classes,      \* of ASSOCIATION and MULTI_CHANNEL_ASSOCIATION, the supported
  GroupCount,   \* association groups of the node, the same for each class
  Announcements, \* what the node sends when it wakes up
  Targets,      \* what can be bound to a group
  ParamCount,   \* maxParams, 10 in the code
  UserJobs,     \* the jobs that are enqueued, all of them supported
  MaxJobs,      \* bound: calls of EnqueueJob
  MaxParts,     \* bound: reports the node splits a group's list into
  MaxLosses,    \* bound: frames that get lost
  MaxLate       \* bound: waits that time out with their answer on its way

Groups == 1 .. GroupCount
Params == 0 .. ParamCount - 1

Bind(c, g, t)             == [job |-> "BIND_COMMAND", cc |-> c, group |-> g, target |-> t]
Unbind(c, g, t)           == [job |-> "UNBIND_COMMAND", cc |-> c, group |-> g, target |-> t]
Battery                   == [job |-> "BATTERY_GET"]
AssociationInterview(c)   == [job |-> "ASSOCIATION_INTERVIEW", cc |-> c]
ConfigurationInterview    == [job |-> "CONFIGURATION_INTERVIEW"]

Commands   == {Battery} \cup {Bind(c, g, t) : c \in Classes, g \in Groups, t \in Targets}
                        \cup {Unbind(c, g, t) : c \in Classes, g \in Groups, t \in Targets}
Interviews == {ConfigurationInterview} \cup {AssociationInterview(c) : c \in Classes}

\* The frames an interview sends; a command's frame is named by its job.
GroupingsGet(c)        == [get |-> "GROUPINGS", cc |-> c]
AssociationGet(c, g)   == [get |-> "ASSOCIATION", cc |-> c, group |-> g]
ConfigurationGet(p)    == [get |-> "CONFIGURATION", param |-> p]

ASSUME NodeJobsAssumption ==
  /\ Listening \in BOOLEAN
  /\ Announcements \subseteq {"NIF", "WAKE_UP_NOTIFICATION"}
  /\ Classes \subseteq {"ASSOCIATION", "MULTI_CHANNEL_ASSOCIATION"}
  /\ GroupCount \in Nat \ {0} /\ ParamCount \in Nat \ {0}
  /\ UserJobs \subseteq Commands \cup Interviews
  /\ MaxJobs \in Nat /\ MaxLosses \in Nat /\ MaxLate \in Nat
  /\ MaxParts \in {1, 2}

VARIABLES
  jobQueue,       \* jobQueue
  awake,          \* nodeState = Awake
  pc,             \* what the worker waits for, or "loop"
  index,          \* the group or the parameter it waits for
  size,           \* associationGroups.size() of each class
  members,        \* the valid entries of each group's nodeList
  hasLastReport,  \* of each group
  valid,          \* configurationInfo[p].valid
  outbox,         \* frames handed to the transport
  air,            \* reports on their way, in the order the node sent them
  bound,          \* the node's own association lists
  losses, late,   \* what is left of the bounds
  submitted,      \* history: jobs enqueued
  executed,       \* history: jobs done
  answer          \* history: what the node last reported of each group in full

tables  == <<size, members, hasLastReport, valid>>
network == <<outbox, air, bound, losses>>
vars    == <<jobQueue, awake, pc, index, tables, network, late, submitted, executed, answer>>

GroupTable(S) == [Classes -> [Groups -> S]]

-----------------------------------------------------------------------------
(* The node's worker.                                                      *)

Send(f) == outbox' = Append(outbox, f)

\* Sleeping.
Sleeping == awake' = Listening

PopJob ==
  /\ jobQueue' = Tail(jobQueue)
  /\ executed' = Append(executed, Head(jobQueue))

\* The worker peeks a job, interviewState being InterviewDone.
Peeks(jobs) ==
  /\ pc = "loop"
  /\ awake
  /\ jobQueue # <<>>
  /\ Head(jobQueue) \in jobs

\* Any of the Execute...CommandJobs.
ExecuteCommandJob ==
  /\ Peeks(Commands)
  /\ Send(Head(jobQueue))
  /\ PopJob
  /\ UNCHANGED <<awake, pc, index, tables, air, bound, losses, late, submitted, answer>>

\* Mutant of AskGroup: hasLastReport is left as the last interview set it.
AskGroupWithoutReset(c, g) ==
  /\ pc' = "group"
  /\ index' = g
  /\ Send(AssociationGet(c, g))
  /\ UNCHANGED hasLastReport

\* The group loop of an association interview turns to group g.
AskGroup(c, g) ==
  /\ pc' = "group"
  /\ index' = g
  /\ hasLastReport' = [hasLastReport EXCEPT ![c][g] = FALSE]
  /\ Send(AssociationGet(c, g))

\* The groupings are asked for until they are known.
BeginAssociationInterview(c) ==
  /\ Peeks({AssociationInterview(c)})
  /\ \/ /\ size[c] = 0
        /\ pc' = "groupings"
        /\ Send(GroupingsGet(c))
        /\ UNCHANGED <<index, hasLastReport>>
     \/ /\ size[c] > 0
        /\ AskGroup(c, 1)
  /\ UNCHANGED <<jobQueue, awake, size, members, valid, air, bound, losses, late,
                 submitted, executed, answer>>

GroupingsKnown(c) ==
  /\ pc = "groupings"
  /\ Head(jobQueue) = AssociationInterview(c)
  /\ size[c] > 0
  /\ AskGroup(c, 1)
  /\ UNCHANGED <<jobQueue, awake, size, members, valid, air, bound, losses, late,
                 submitted, executed, answer>>

\* The wait for group index is over: the next group, or the end of the job.
GroupReported(c) ==
  /\ pc = "group"
  /\ Head(jobQueue) = AssociationInterview(c)
  /\ hasLastReport[c][index]
  /\ \/ /\ index < size[c]
        /\ AskGroup(c, index + 1)
        /\ UNCHANGED <<jobQueue, executed>>
     \/ /\ index >= size[c]
        /\ pc' = "loop"
        /\ PopJob
        /\ UNCHANGED <<index, hasLastReport, outbox>>
  /\ UNCHANGED <<awake, size, members, valid, air, bound, losses, late, submitted, answer>>

AskParam(p) ==
  /\ pc' = "param"
  /\ index' = p
  /\ valid' = [valid EXCEPT ![p] = FALSE]
  /\ Send(ConfigurationGet(p))

BeginConfigurationInterview ==
  /\ Peeks({ConfigurationInterview})
  /\ AskParam(0)
  /\ UNCHANGED <<jobQueue, awake, size, members, hasLastReport, air, bound, losses,
                 late, submitted, executed, answer>>

\* Mutant of ParamReported: one parameter too many.
ParamReportedOffByOne ==
  /\ pc = "param"
  /\ valid[index]
  /\ \/ /\ index < ParamCount
        /\ AskParam(index + 1)
        /\ UNCHANGED <<jobQueue, executed>>
     \/ /\ index = ParamCount
        /\ pc' = "loop"
        /\ PopJob
        /\ UNCHANGED <<index, valid, outbox>>
  /\ UNCHANGED <<awake, size, members, hasLastReport, air, bound, losses, late,
                 submitted, answer>>

ParamReported ==
  /\ pc = "param"
  /\ valid[index]
  /\ \/ /\ index + 1 < ParamCount
        /\ AskParam(index + 1)
        /\ UNCHANGED <<jobQueue, executed>>
     \/ /\ index + 1 = ParamCount
        /\ pc' = "loop"
        /\ PopJob
        /\ UNCHANGED <<index, valid, outbox>>
  /\ UNCHANGED <<awake, size, members, hasLastReport, air, bound, losses, late,
                 submitted, answer>>

\* What WaitUntil waits for is there.
WaitSatisfied ==
  \/ pc = "groupings" /\ size[Head(jobQueue).cc] > 0
  \/ pc = "group" /\ hasLastReport[Head(jobQueue).cc][index]
  \/ pc = "param" /\ valid[index]

\* Requests that the node has not seen yet, or answers to them on their way.
AnswersPending == outbox # <<>> \/ \E i \in DOMAIN air : air[i].report \notin Announcements

\* A wait times out, with nothing on its way any more or too early for it.
TimesOut ==
  /\ pc # "loop"
  /\ ~WaitSatisfied
  /\ \/ /\ ~AnswersPending
        /\ UNCHANGED late
     \/ /\ AnswersPending
        /\ late > 0
        /\ late' = late - 1
  /\ pc' = "loop"
  /\ UNCHANGED <<index, tables, network, submitted, answer>>

\* Mutant of WaitTimeout: the interview goes to the back of the queue.
WaitTimeoutRequeues ==
  /\ TimesOut
  /\ jobQueue' = Append(Tail(jobQueue), Head(jobQueue))
  /\ Sleeping
  /\ UNCHANGED executed

\* Mutant of WaitTimeout: the interview counts as done.
WaitTimeoutPops ==
  /\ TimesOut
  /\ PopJob
  /\ Sleeping

\* ExecuteJob's other branch: the job stays where it is.
WaitTimeout ==
  /\ TimesOut
  /\ Sleeping
  /\ UNCHANGED <<jobQueue, executed>>

\* Awake without a job for five seconds.
IdleTimeout ==
  /\ pc = "loop"
  /\ awake
  /\ jobQueue = <<>>
  /\ Sleeping
  /\ UNCHANGED <<jobQueue, pc, index, tables, network, late, submitted, executed, answer>>

WorkerTask ==
  \/ ExecuteCommandJob
  \/ BeginConfigurationInterview \/ ParamReported
  \/ \E c \in Classes :
       BeginAssociationInterview(c) \/ GroupingsKnown(c) \/ GroupReported(c)
  \/ WaitTimeout \/ IdleTimeout

-----------------------------------------------------------------------------
(* The interface thread.                                                   *)

\* The commands that HandleCCFrame gives to the node, the reports among them.
Dispatched == {"GROUPINGS", "ASSOCIATION", "CONFIGURATION"}

TakesFromAir ==
  /\ air # <<>>
  /\ air' = Tail(air)
  /\ UNCHANGED <<jobQueue, pc, index, outbox, bound, losses, late, submitted, executed>>

Receives(kind) ==
  /\ TakesFromAir
  /\ kind \in Dispatched
  /\ Head(air).report = kind
  /\ UNCHANGED awake

\* The table of the class is cleared and sized anew.
HandleGroupingsReport ==
  /\ Receives("GROUPINGS")
  /\ LET c == Head(air).cc IN
       /\ size' = [size EXCEPT ![c] = GroupCount]
       /\ members' = [members EXCEPT ![c] = [g \in Groups |-> {}]]
       /\ hasLastReport' = [hasLastReport EXCEPT ![c] = [g \in Groups |-> FALSE]]
  /\ UNCHANGED <<valid, answer>>

\* HandleReport of both classes.  The list is cleared whenever no last report
\* was seen since the flag was reset, then the report's nodes are added.
HandleAssociationReport ==
  /\ Receives("ASSOCIATION")
  /\ LET r == Head(air)
         kept == IF hasLastReport[r.cc][r.group] THEN members[r.cc][r.group] ELSE {}
     IN /\ members' = [members EXCEPT ![r.cc][r.group] = kept \cup r.nodes]
        /\ hasLastReport' = [hasLastReport EXCEPT ![r.cc][r.group] = r.toFollow = 0]
        /\ answer' = IF r.toFollow = 0
                     THEN [answer EXCEPT ![r.cc][r.group] = r.whole]
                     ELSE answer
  /\ UNCHANGED <<size, valid>>

HandleConfigurationReport ==
  /\ Receives("CONFIGURATION")
  /\ valid' = [valid EXCEPT ![Head(air).param] = TRUE]
  /\ UNCHANGED <<size, members, hasLastReport, answer>>

\* Mutant of HandleNodeInfo: only a node that is being waited for is woken.
HandleNodeInfoInLoop ==
  /\ TakesFromAir
  /\ Head(air).report = "NIF"
  /\ awake' = (awake \/ pc # "loop")
  /\ UNCHANGED <<tables, answer>>

\* DecodeNodeInfo for an interviewed node: WakeUp and nothing else.
HandleNodeInfo ==
  /\ TakesFromAir
  /\ Head(air).report = "NIF"
  /\ awake' = TRUE
  /\ UNCHANGED <<tables, answer>>

\* The default of HandleCCFrame.  A WAKE_UP_NOTIFICATION ends here: its handler,
\* ZW_CC_WakeUp::HandleReport, would wake the node.
DropReport ==
  /\ TakesFromAir
  /\ Head(air).report \notin Dispatched \cup {"NIF"}
  /\ UNCHANGED <<awake, tables, answer>>

OnFrameReceived ==
  \/ HandleGroupingsReport \/ HandleAssociationReport \/ HandleConfigurationReport
  \/ HandleNodeInfo \/ DropReport

-----------------------------------------------------------------------------
(* The user and the other threads that give the node jobs.                 *)

EnqueueJob(j) ==
  /\ Len(submitted) < MaxJobs
  /\ jobQueue' = Append(jobQueue, j)
  /\ submitted' = Append(submitted, j)
  /\ UNCHANGED <<awake, pc, index, tables, network, late, executed, answer>>

-----------------------------------------------------------------------------
(* The transport and the node (external).                                  *)

\* The node reports its list of a group in one frame or in two.
Parts(c, g, list) ==
  {<<[report |-> "ASSOCIATION", cc |-> c, group |-> g, nodes |-> list,
      toFollow |-> 0, whole |-> list]>>}
  \cup
  IF MaxParts = 1 THEN {} ELSE
    {<<[report |-> "ASSOCIATION", cc |-> c, group |-> g, nodes |-> part,
        toFollow |-> 1, whole |-> list],
       [report |-> "ASSOCIATION", cc |-> c, group |-> g, nodes |-> list \ part,
        toFollow |-> 0, whole |-> list]>> : part \in SUBSET list \ {{}, list}}

IsGet(f, kind) == f \notin Commands /\ f.get = kind

\* The node executes what reaches it; only a GET is answered.
NodeReacts(f) ==
  \/ /\ f = Battery
     /\ UNCHANGED <<air, bound>>
  \/ /\ f \in Commands \ {Battery}
     /\ bound' = [bound EXCEPT ![f.cc][f.group] =
                    IF f.job = "BIND_COMMAND" THEN @ \cup {f.target} ELSE @ \ {f.target}]
     /\ UNCHANGED air
  \/ /\ IsGet(f, "GROUPINGS")
     /\ air' = Append(air, [report |-> "GROUPINGS", cc |-> f.cc])
     /\ UNCHANGED bound
  \/ /\ IsGet(f, "ASSOCIATION")
     /\ \E parts \in Parts(f.cc, f.group, bound[f.cc][f.group]) : air' = air \o parts
     /\ UNCHANGED bound
  \/ /\ IsGet(f, "CONFIGURATION")
     /\ air' = Append(air, [report |-> "CONFIGURATION", param |-> f.param])
     /\ UNCHANGED bound

Transport ==
  /\ outbox # <<>>
  /\ outbox' = Tail(outbox)
  /\ NodeReacts(Head(outbox))
  /\ UNCHANGED <<jobQueue, awake, pc, index, tables, losses, late, submitted, executed, answer>>

\* The node wakes up and says so.  Bound: one announcement at a time.
Announce(kind) ==
  /\ \A i \in DOMAIN air : air[i].report \notin Announcements
  /\ air' = Append(air, [report |-> kind])
  /\ UNCHANGED <<jobQueue, awake, pc, index, tables, outbox, bound, losses, late, submitted,
                 executed, answer>>

LoseFrame ==
  /\ losses > 0
  /\ losses' = losses - 1
  /\ \/ outbox # <<>> /\ outbox' = Tail(outbox) /\ UNCHANGED air
     \/ air # <<>> /\ air' = Tail(air) /\ UNCHANGED outbox
  /\ UNCHANGED <<jobQueue, awake, pc, index, tables, bound, late, submitted, executed, answer>>

-----------------------------------------------------------------------------
Init ==
  /\ jobQueue = <<>>
  /\ awake = TRUE
  /\ pc = "loop"
  /\ index = 0
  /\ size = [c \in Classes |-> 0]
  /\ members = [c \in Classes |-> [g \in Groups |-> {}]]
  /\ hasLastReport = [c \in Classes |-> [g \in Groups |-> FALSE]]
  /\ valid = [p \in Params |-> FALSE]
  /\ outbox = <<>>
  /\ air = <<>>
  /\ bound \in GroupTable(SUBSET Targets)
  /\ losses = MaxLosses
  /\ late = MaxLate
  /\ submitted = <<>>
  /\ executed = <<>>
  /\ answer = [c \in Classes |-> [g \in Groups |-> {}]]

Next ==
  \/ WorkerTask
  \/ OnFrameReceived
  \/ \E j \in UserJobs : EnqueueJob(j)
  \/ Transport \/ LoseFrame
  \/ \E kind \in Announcements : Announce(kind)

Spec == Init /\ [][Next]_vars

\* The threads run, the transport works, and the node announces itself again
\* and again, in each of its ways.
FairSpec ==
  /\ Spec
  /\ WF_vars(WorkerTask)
  /\ WF_vars(OnFrameReceived)
  /\ WF_vars(Transport)
  /\ \A kind \in Announcements : SF_vars(Announce(kind))

-----------------------------------------------------------------------------
(* Correctness.                                                            *)

\* The variables have their types.
TypeOK ==
  /\ jobQueue \in Seq(UserJobs)
  /\ awake \in BOOLEAN
  /\ pc \in {"loop", "groupings", "group", "param"}
  /\ index \in Groups \cup Params
  /\ pc = "group" => index \in Groups
  /\ pc = "param" => index \in Params
  /\ size \in [Classes -> {0, GroupCount}]
  /\ members \in GroupTable(SUBSET Targets)
  /\ hasLastReport \in GroupTable(BOOLEAN)
  /\ valid \in [Params -> BOOLEAN]
  /\ bound \in GroupTable(SUBSET Targets)
  /\ losses \in 0 .. MaxLosses
  /\ late \in 0 .. MaxLate
  /\ submitted \in Seq(UserJobs)
  /\ executed \in Seq(UserJobs)
  /\ answer \in GroupTable(SUBSET Targets)

\* The worker pops the job it executed and no other: each job is done once, in
\* the order of EnqueueJob, however often an interview has to start over and
\* whatever is enqueued meanwhile.
JobsDoneInOrder == executed \o jobQueue = submitted

\* As long as no answer came after its wait, a group with a last report holds
\* exactly what the node reported: no part of the list is missing, and nothing
\* is left of an earlier interview.  (A late answer can add to the list of the
\* answer that follows it.)
RecordedAsReported ==
  late = MaxLate =>
    \A c \in Classes : \A g \in Groups :
      hasLastReport[c][g] => members[c][g] = answer[c][g]

\* As long as no answer came after its wait, an association interview ends with
\* the last report of every group.  (A late groupings report clears the groups
\* that were reported before it.)
InterviewComplete ==
  [][late = MaxLate /\ pc = "group" /\ executed' # executed =>
       \A g \in Groups : hasLastReport'[Head(jobQueue).cc][g]]_vars

\* Every job is done in the end: a job that times out is taken up again when the
\* node announces itself, and no announcement is lost for good, even if it comes
\* while the worker is about to put the node to sleep.  It holds for a node that
\* sends a node information frame.  After "<< WAKE_UP_NOTIFICATION (v{}): node {}
\* is awake" the node's handler calls WakeUp, but HandleCCFrame keeps the
\* notification from it.
JobsGetDone == jobQueue # <<>> ~> jobQueue = <<>>
=============================================================================
