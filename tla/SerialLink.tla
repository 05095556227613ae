----------------------------- MODULE SerialLink -----------------------------
(***************************************************************************)
(* The serial transport of Interface.h / Interface.cpp: the command queue  *)
(* and the send/receive state machine that its worker thread runs, against *)
(* a Z-Wave chip behind a line that loses, damages and repeats what it     *)
(* carries.  The worker's loop is cut where the code can be preempted      *)
(* with an effect: HandleTimeouts, the dequeue-and-send, the read.         *)
(*                                                                         *)
(* Time is abstract: deadlinePassed stands for now > stateDeadline and     *)
(* coolingDown for now < nextSendTime; setting a deadline clears the one   *)
(* and raises the other, and the clock may flip them at any later moment.  *)
(***************************************************************************)
EXTENDS Integers, Sequences, SequencesExt

CONSTANTS
  Commands,     \* submissions to Enqueue; each of them happens at most once
  NoCmd,        \* the default constructed LastCmd, and "no command" of an item
  Flow,         \* ZW_APICommand::Flow of every command
  MaxRetries,   \* maxRetries, 3 in the code
  MaxLosses,    \* bound: line faults that lose or damage something
  MaxStrays,    \* bound: frames nobody asked for, and repeated frames
  Timely        \* the chip never answers after the deadline it had to meet

FlowTypes ==
  {"Unknown", "Unacknowledged", "AckOnly", "AckWithResponse",
   "AckWithCallback", "AckWithResponseCallback", "Unsolicited"}

ASSUME SerialLinkAssumption ==
  /\ NoCmd \notin Commands
  /\ Flow \in [Commands -> FlowTypes]
  /\ MaxRetries \in Nat \ {0}
  /\ MaxLosses \in Nat
  /\ MaxStrays \in Nat
  /\ Timely \in BOOLEAN

VARIABLES
  running,        \* the atomic flag that Stop clears
  pc,             \* where the worker is in its loop
  cmdQueue,       \* guarded by queueMutex
  state,          \* SendState
  lastCmd,        \* LastCmd.cmd
  attempts,       \* LastCmd.attempts
  deadlinePassed, \* now > stateDeadline
  coolingDown,    \* now < nextSendTime
  line,           \* on its way from the chip to the host, oldest first
  losses,         \* line faults still to come
  strays,         \* stray frames still to come
  \* history, read by the properties only
  status,         \* how far each command has come
  sent,           \* how often each command was written to the port
  answers,        \* which of its own answers the host has read intact
  finished        \* the commands whose processing has ended, in order

worker  == <<state, lastCmd, attempts, deadlinePassed, coolingDown>>
env     == <<line, losses, strays>>
history == <<status, sent, answers, finished>>
vars    == <<running, pc, cmdQueue, worker, env, history>>

SendState == {"Idle", "WaitingForAck", "WaitingForResponse", "WaitingForCallback"}
Ended     == {"completed", "timedOut", "gaveUp", "fired"}
Status    == {"new", "queued", "sent", "acked"} \cup Ended

FrameKinds == {"RES", "CBK", "UNS"}
Item == [kind : {"ACK", "NAK", "CAN"} \cup FrameKinds,
         cmd  : Commands \cup {NoCmd},
         form : {"good", "bad", "cut"}]

-----------------------------------------------------------------------------
(* What the chip sends (external: the module behind the serial port).      *)

Good(k, c) == [kind |-> k, cmd |-> c, form |-> "good"]

\* The answers a command asks for, by its flow.
Expected(c) ==
  CASE Flow[c] = "Unacknowledged"          -> <<>>
    [] Flow[c] = "AckWithResponse"         -> <<"ACK", "RES">>
    [] Flow[c] = "AckWithCallback"         -> <<"ACK", "CBK">>
    [] Flow[c] = "AckWithResponseCallback" -> <<"ACK", "RES", "CBK">>
    [] OTHER                               -> <<"ACK">>

Answer(c) == [i \in DOMAIN Expected(c) |-> Good(Expected(c)[i], c)]

\* A command written while l is on its way back is answered, refused or lost.
ChipReacts(c, l) ==
  \/ /\ line' = l \o Answer(c)
     /\ UNCHANGED losses
  \/ /\ losses > 0
     /\ losses' = losses - 1
     /\ \/ line' = l
        \/ line' = Append(l, Good("NAK", c))
        \/ line' = Append(l, Good("CAN", c))

-----------------------------------------------------------------------------
(* The host: what several handlers share.                                  *)

Unacknowledged(c) == c # NoCmd /\ Flow[c] = "Unacknowledged"

SetStatus(c, s) == status' = [status EXCEPT ![c] = s]

\* The wait for the current command is over; the next may go after coolDown.
EndCommand(s) ==
  /\ state' = "Idle"
  /\ coolingDown' = TRUE
  /\ finished' = Append(finished, lastCmd)
  /\ SetStatus(lastCmd, s)

\* The wait moves on to s with a fresh deadline.
Await(s) ==
  /\ state' = s
  /\ deadlinePassed' = FALSE
  /\ UNCHANGED coolingDown

\* SendCommand.  l is the line without what has just been read from it.
SendCommand(c, tries, l) ==
  /\ lastCmd' = c
  /\ attempts' = tries + 1
  /\ sent' = [sent EXCEPT ![c] = @ + 1]
  /\ ChipReacts(c, l)
  /\ \/ /\ Unacknowledged(c)
        /\ state' = "Idle"
        /\ coolingDown' = TRUE
        /\ UNCHANGED deadlinePassed
     \/ /\ ~Unacknowledged(c)
        /\ Await("WaitingForAck")

\* Mutant of Retransmit: one attempt too many.
RetransmitOnceMore(l) ==
  /\ attempts <= MaxRetries
  /\ SendCommand(lastCmd, attempts, l)
  /\ UNCHANGED <<status, finished>>

Retransmit(l) ==
  /\ attempts < MaxRetries
  /\ SendCommand(lastCmd, attempts, l)
  /\ UNCHANGED <<status, finished>>

GiveUp(l) ==
  /\ attempts >= MaxRetries
  /\ EndCommand("gaveUp")
  /\ line' = l
  /\ UNCHANGED <<lastCmd, attempts, deadlinePassed, losses, sent>>

-----------------------------------------------------------------------------
(* The host: the steps of a pass through Run.                              *)

\* HandleTimeouts finds nothing to do.
NoTimeout ==
  /\ state = "Idle" \/ ~deadlinePassed
  /\ UNCHANGED <<worker, env, history>>

\* Mutant of AckTimeout: the other waits retransmit, too.
AckTimeoutInEveryWait ==
  /\ state # "Idle"
  /\ deadlinePassed
  /\ Retransmit(line) \/ GiveUp(line)
  /\ UNCHANGED <<strays, answers>>

\* Mutant of AckTimeout: the last attempt is waited for without end.
AckTimeoutWithoutGiveUp ==
  /\ state = "WaitingForAck"
  /\ deadlinePassed
  /\ \/ Retransmit(line)
     \/ /\ attempts >= MaxRetries
        /\ UNCHANGED <<worker, line, losses, status, sent, finished>>
  /\ UNCHANGED <<strays, answers>>

\* HandleTimeouts in WaitingForAck, where no unacknowledged command can be.
AckTimeout ==
  /\ state = "WaitingForAck"
  /\ deadlinePassed
  /\ Retransmit(line) \/ GiveUp(line)
  /\ UNCHANGED <<strays, answers>>

\* Mutant of AnswerTimeout: a missing callback is waited for without end.
AnswerTimeoutOfResponse ==
  /\ deadlinePassed
  /\ \/ /\ state = "WaitingForResponse"
        /\ EndCommand("timedOut")
        /\ UNCHANGED <<lastCmd, attempts, deadlinePassed, env, sent, answers>>
     \/ /\ state = "WaitingForCallback"
        /\ UNCHANGED <<worker, env, history>>

\* HandleTimeouts in the other two waits, after OnFrameReceivedTimeout.
AnswerTimeout ==
  /\ state \in {"WaitingForResponse", "WaitingForCallback"}
  /\ deadlinePassed
  /\ EndCommand("timedOut")
  /\ UNCHANGED <<lastCmd, attempts, deadlinePassed, env, sent, answers>>

HandleTimeouts ==
  /\ pc = "timeouts"
  /\ running
  /\ pc' = "send"
  /\ NoTimeout \/ AckTimeout \/ AnswerTimeout
  /\ UNCHANGED <<running, cmdQueue>>

\* Mutant of MaySend: the command in progress is overwritten by the next.
MaySendAnytime == ~coolingDown /\ cmdQueue # <<>>

MaySend == state = "Idle" /\ ~coolingDown /\ cmdQueue # <<>>

\* TryDequeueNext and SendCommand.  Only an unacknowledged command lets the
\* pass go on to the read; it is over as soon as it is written.
SendNext ==
  /\ pc = "send"
  /\ MaySend
  /\ cmdQueue' = Tail(cmdQueue)
  /\ SendCommand(Head(cmdQueue), 0, line)
  /\ \/ /\ Unacknowledged(Head(cmdQueue))
        /\ SetStatus(Head(cmdQueue), "fired")
        /\ finished' = Append(finished, Head(cmdQueue))
        /\ pc' = "read"
     \/ /\ ~Unacknowledged(Head(cmdQueue))
        /\ SetStatus(Head(cmdQueue), "sent")
        /\ pc' = "timeouts"
        /\ UNCHANGED finished
  /\ UNCHANGED <<running, strays, answers>>

SkipSend ==
  /\ pc = "send"
  /\ ~MaySend
  /\ pc' = "read"
  /\ UNCHANGED <<running, cmdQueue, worker, env, history>>

\* SerialRead returns nothing: whatever is under way has not arrived yet.
ReadNothing ==
  /\ pc = "read"
  /\ pc' = "timeouts"
  /\ UNCHANGED <<running, cmdQueue, worker, env, history>>

\* Reading the oldest item, of one of these kinds, ends the pass.
Reads(kinds, form) ==
  /\ pc = "read"
  /\ line # <<>>
  /\ Head(line).kind \in kinds
  /\ Head(line).form = form
  /\ pc' = "timeouts"
  /\ UNCHANGED <<running, cmdQueue, strays>>

\* An ACK or a frame that arrives intact is remembered for its command.
NoteAnswer ==
  answers' = [c \in Commands |->
    IF c = Head(line).cmd THEN answers[c] \cup {Head(line).kind} ELSE answers[c]]

\* HandleAck.  The ACK carries no command: it is LastCmd's.
HandleAck ==
  /\ Reads({"ACK"}, "good")
  /\ state = "WaitingForAck"
  /\ attempts' = 0
  /\ \/ /\ Flow[lastCmd] = "AckOnly"
        /\ EndCommand("completed")
        /\ UNCHANGED deadlinePassed
     \/ /\ Flow[lastCmd] \in {"AckWithResponse", "AckWithResponseCallback"}
        /\ Await("WaitingForResponse")
        /\ SetStatus(lastCmd, "acked")
        /\ UNCHANGED finished
     \/ /\ Flow[lastCmd] = "AckWithCallback"
        /\ Await("WaitingForCallback")
        /\ SetStatus(lastCmd, "acked")
        /\ UNCHANGED finished
     \/ /\ Flow[lastCmd] \in {"Unknown", "Unsolicited"}
        /\ state' = "Idle"
        /\ finished' = Append(finished, lastCmd)
        /\ SetStatus(lastCmd, "completed")
        /\ UNCHANGED <<coolingDown, deadlinePassed>>
  /\ NoteAnswer
  /\ line' = Tail(line)
  /\ UNCHANGED <<lastCmd, losses, sent>>

UnexpectedAck ==
  /\ Reads({"ACK"}, "good")
  /\ state # "WaitingForAck"
  /\ NoteAnswer
  /\ line' = Tail(line)
  /\ UNCHANGED <<worker, losses, status, sent, finished>>

\* Mutant of HandleNakOrCan: Run does not look at the state first.
HandleNakOrCanAnytime ==
  /\ Reads({"NAK", "CAN"}, "good")
  /\ lastCmd # NoCmd
  /\ Retransmit(Tail(line)) \/ GiveUp(Tail(line))
  /\ UNCHANGED answers

\* HandleNakOrCan for a command that waits for its ACK.
HandleNakOrCan ==
  /\ Reads({"NAK", "CAN"}, "good")
  /\ state = "WaitingForAck"
  /\ Retransmit(Tail(line)) \/ GiveUp(Tail(line))
  /\ UNCHANGED answers

\* Mutant of HandleNakOrCanUnacknowledged: the attempts are not counted.
HandleNakOrCanUncounted ==
  /\ Reads({"NAK", "CAN"}, "good")
  /\ Unacknowledged(lastCmd)
  /\ SendCommand(lastCmd, 0, Tail(line))
  /\ UNCHANGED <<status, finished, answers>>

\* HandleNakOrCan for an unacknowledged command, which is over already.
HandleNakOrCanUnacknowledged ==
  /\ Reads({"NAK", "CAN"}, "good")
  /\ Unacknowledged(lastCmd)
  /\ \/ Retransmit(Tail(line))
     \/ /\ attempts >= MaxRetries
        /\ state' = "Idle"
        /\ coolingDown' = TRUE
        /\ line' = Tail(line)
        /\ UNCHANGED <<lastCmd, attempts, deadlinePassed, losses, status, sent, finished>>
  /\ UNCHANGED answers

UnexpectedNakOrCan ==
  /\ Reads({"NAK", "CAN"}, "good")
  /\ state # "WaitingForAck"
  /\ ~Unacknowledged(lastCmd)
  /\ line' = Tail(line)
  /\ UNCHANGED <<worker, losses, history>>

\* A byte that is no control character.
UnexpectedByte ==
  /\ Reads({"ACK", "NAK", "CAN"}, "bad")
  /\ line' = Tail(line)
  /\ UNCHANGED <<worker, losses, history>>

\* Mutant of ProcessValidFrame: no callback is waited for after a response.
ProcessValidFrameAsLast ==
  /\ Reads(FrameKinds, "good")
  /\ NoteAnswer
  /\ line' = Tail(line)
  /\ \/ /\ state \in {"WaitingForResponse", "WaitingForCallback"}
        /\ EndCommand("completed")
        /\ UNCHANGED deadlinePassed
     \/ /\ state \in {"Idle", "WaitingForAck"}
        /\ UNCHANGED <<state, deadlinePassed, coolingDown, status, finished>>
  /\ UNCHANGED <<lastCmd, attempts, losses, sent>>

\* ProcessValidFrame.  Nothing relates the frame to the command that waits.
ProcessValidFrame ==
  /\ Reads(FrameKinds, "good")
  /\ NoteAnswer
  /\ line' = Tail(line)
  /\ \/ /\ \/ state = "WaitingForCallback"
           \/ state = "WaitingForResponse" /\ Flow[lastCmd] = "AckWithResponse"
        /\ EndCommand("completed")
        /\ UNCHANGED deadlinePassed
     \/ /\ state = "WaitingForResponse"
        /\ Flow[lastCmd] = "AckWithResponseCallback"
        /\ Await("WaitingForCallback")
        /\ UNCHANGED <<status, finished>>
     \/ /\ state \in {"Idle", "WaitingForAck"}
        /\ UNCHANGED <<state, deadlinePassed, coolingDown, status, finished>>
  /\ UNCHANGED <<lastCmd, attempts, losses, sent>>

\* A frame whose checksum is wrong: a NAK goes out and, whatever the state,
\* the deadline is set anew.
BadChecksum(l) ==
  /\ deadlinePassed' = FALSE
  /\ line' = l
  /\ UNCHANGED <<state, lastCmd, attempts, coolingDown, losses, history>>

ReadBadFrame ==
  /\ Reads(FrameKinds, "bad")
  /\ BadChecksum(Tail(line))

\* A frame cut short: ReadFrameWithTimeout gives up on it, or takes what
\* follows for its payload.
ReadCutFrame ==
  /\ Reads(FrameKinds, "cut")
  /\ \/ /\ line' = Tail(line)
        /\ UNCHANGED <<worker, losses, history>>
     \/ /\ Len(line) > 1
        /\ BadChecksum(Tail(Tail(line)))

\* Start's loop sees that Stop has cleared the flag.
Exit ==
  /\ pc = "timeouts"
  /\ ~running
  /\ pc' = "stopped"
  /\ UNCHANGED <<running, cmdQueue, worker, env, history>>

ReadByte ==
  \/ ReadNothing
  \/ HandleAck \/ UnexpectedAck
  \/ HandleNakOrCan \/ HandleNakOrCanUnacknowledged \/ UnexpectedNakOrCan
  \/ UnexpectedByte
  \/ ProcessValidFrame \/ ReadBadFrame \/ ReadCutFrame

Run == HandleTimeouts \/ SendNext \/ SkipSend \/ ReadByte \/ Exit

-----------------------------------------------------------------------------
(* The other threads, the clock and the line.                              *)

\* Enqueue, by any thread at any time.
Enqueue(c) ==
  /\ status[c] = "new"
  /\ cmdQueue' = Append(cmdQueue, c)
  /\ SetStatus(c, "queued")
  /\ UNCHANGED <<running, pc, worker, env, sent, answers, finished>>

\* ClosePort's Stop, by the main thread; it then joins the worker.
Stop ==
  /\ running
  /\ running' = FALSE
  /\ UNCHANGED <<pc, cmdQueue, worker, env, history>>

DeadlinePasses ==
  /\ state # "Idle"
  /\ ~deadlinePassed
  /\ Timely => line = <<>>
  /\ deadlinePassed' = TRUE
  /\ UNCHANGED <<running, pc, cmdQueue, state, lastCmd, attempts, coolingDown,
                 env, history>>

CoolDownEnds ==
  /\ coolingDown
  /\ coolingDown' = FALSE
  /\ UNCHANGED <<running, pc, cmdQueue, state, lastCmd, attempts, deadlinePassed,
                 env, history>>

LoseItem(i) ==
  /\ losses > 0
  /\ losses' = losses - 1
  /\ line' = RemoveAt(line, i)
  /\ UNCHANGED <<running, pc, cmdQueue, worker, strays, history>>

DamageItem(i) ==
  /\ losses > 0
  /\ losses' = losses - 1
  /\ line[i].form = "good"
  /\ \E f \in {"bad", "cut"} :
       /\ f = "cut" => line[i].kind \in FrameKinds
       /\ line' = [line EXCEPT ![i].form = f]
  /\ UNCHANGED <<running, pc, cmdQueue, worker, strays, history>>

\* The chip sends a frame twice, as it does when its own ACK wait runs out.
RepeatFrame(i) ==
  /\ strays > 0
  /\ strays' = strays - 1
  /\ line[i].kind \in FrameKinds
  /\ line[i].form = "good"
  /\ line' = InsertAt(line, i, line[i])
  /\ UNCHANGED <<running, pc, cmdQueue, worker, losses, history>>

\* A node reports something: a frame that answers no command.
UnsolicitedFrame(i) ==
  /\ strays > 0
  /\ strays' = strays - 1
  /\ line' = InsertAt(line, i, Good("UNS", NoCmd))
  /\ UNCHANGED <<running, pc, cmdQueue, worker, losses, history>>

Line ==
  \/ \E i \in DOMAIN line : LoseItem(i) \/ DamageItem(i) \/ RepeatFrame(i)
  \/ \E i \in 1 .. Len(line) + 1 : UnsolicitedFrame(i)

-----------------------------------------------------------------------------
Init ==
  /\ running = TRUE
  /\ pc = "timeouts"
  /\ cmdQueue = <<>>
  /\ state = "Idle"
  /\ lastCmd = NoCmd
  /\ attempts = 0
  /\ deadlinePassed = FALSE
  /\ coolingDown = FALSE
  /\ line = <<>>
  /\ losses = MaxLosses
  /\ strays = MaxStrays
  /\ status = [c \in Commands |-> "new"]
  /\ sent = [c \in Commands |-> 0]
  /\ answers = [c \in Commands |-> {}]
  /\ finished = <<>>

Next ==
  \/ Run
  \/ \E c \in Commands : Enqueue(c)
  \/ Stop
  \/ DeadlinePasses
  \/ CoolDownEnds
  \/ Line

Spec == Init /\ [][Next]_vars

\* The worker thread keeps running and the clock keeps ticking.  Nothing is
\* assumed of the chip, the line, the user or the other threads.
FairSpec ==
  /\ Spec
  /\ WF_vars(Run)
  /\ WF_vars(DeadlinePasses)
  /\ WF_vars(CoolDownEnds)

-----------------------------------------------------------------------------
(* Correctness.                                                            *)

\* The variables have their types.
TypeOK ==
  /\ running \in BOOLEAN
  /\ pc \in {"timeouts", "send", "read", "stopped"}
  /\ cmdQueue \in Seq(Commands)
  /\ state \in SendState
  /\ lastCmd \in Commands \cup {NoCmd}
  /\ attempts \in 0 .. MaxRetries
  /\ deadlinePassed \in BOOLEAN
  /\ coolingDown \in BOOLEAN
  /\ line \in Seq(Item)
  /\ losses \in 0 .. MaxLosses
  /\ strays \in 0 .. MaxStrays
  /\ status \in [Commands -> Status]
  /\ sent \in [Commands -> Nat]
  /\ answers \in [Commands -> SUBSET ({"ACK"} \cup FrameKinds)]
  /\ finished \in Seq(Commands)

\* The waiting commands are distinct and not yet written; the ended ones, and
\* only they, are in finished.
QueueConsistent ==
  /\ IsInjective(cmdQueue)
  /\ \A i \in DOMAIN cmdQueue : status[cmdQueue[i]] = "queued"
  /\ \A i \in DOMAIN finished : status[finished[i]] \in Ended
  /\ \A c \in Commands : status[c] \in {"new", "queued"} => sent[c] = 0

\* The state machine knows how far LastCmd has come and, as long as it may
\* have to be written again, how often it was written.
LastCmdConsistent ==
  /\ state # "Idle" => lastCmd \in Commands /\ ~Unacknowledged(lastCmd)
  /\ state = "WaitingForAck" => status[lastCmd] = "sent"
  /\ state \in {"WaitingForResponse", "WaitingForCallback"} => status[lastCmd] = "acked"
  /\ Unacknowledged(lastCmd) => status[lastCmd] = "fired"
  /\ state = "WaitingForAck" \/ Unacknowledged(lastCmd) => attempts = sent[lastCmd]

\* No command is written to the port more than maxRetries times, however
\* ACK timeouts, NAKs and CANs, late or repeated ones included, interleave:
\* HandleAck sets the attempt counter back to 0, so this rests on no NAK
\* being acted upon after the ACK.
SendsBounded == \A c \in Commands : sent[c] <= MaxRetries

\* The bookkeeping the other properties rest on: the queue, the command under
\* way, its attempt counter and what was really written always agree.
LinkInv == TypeOK /\ QueueConsistent /\ LastCmdConsistent /\ SendsBounded

\* Once the host has taken an ACK for a command, and once the command has
\* ended, HandleTimeouts and HandleNakOrCan write it no more.  The commands
\* without acknowledgement are the exception: a NAK repeats them.
NoResendAfterAck ==
  [][\A c \in Commands :
       status[c] \in {"acked"} \cup (Ended \ {"fired"}) => sent'[c] = sent[c]]_vars

\* A command that ends well has had each answer its flow prescribes: no
\* frame of something else was taken for its response or its callback.
CompletedByOwnAnswers ==
  \A c \in Commands : status[c] = "completed" => Range(Expected(c)) \subseteq answers[c]

\* On a line without stray frames it is so, whatever gets lost or damaged, as
\* long as the chip is timely, no wait running out while an answer is on the
\* line, and every command is acknowledged: the NAK of one that is not would
\* write the command that waits once more, and its answers come twice.
TimelyAnswersAreOwn ==
  [](deadlinePassed => line = <<>>) => []CompletedByOwnAnswers

\* The transport as the layers above see it: the queue, and the command whose
\* answers the state machine waits for.
Channel == INSTANCE CommandChannel WITH
  pending <- cmdQueue,
  current <- IF state = "Idle" THEN NoCmd ELSE lastCmd,
  open <- running

\* The promise to the layers above: one command at a time, in the order of
\* Enqueue, and each ended exactly once, whatever the line loses or repeats.
ChannelSpec == Channel!Spec

\* The same with its liveness: while the port is open, the command under way
\* ends and the next one is taken.
ChannelFairSpec == Channel!FairSpec

\* Every command handed to Enqueue ends, unless the port is closed, in spite of
\* a number of lost, damaged and uninvited frames.  That the number is bounded
\* matters: each bad checksum sets stateDeadline anew (Interface.cpp:465).
EveryCommandEnds ==
  \A c \in Commands : status[c] = "queued" ~> (status[c] \in Ended \/ ~running)

=============================================================================
