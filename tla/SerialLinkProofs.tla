-------------------------- MODULE SerialLinkProofs --------------------------
(***************************************************************************)
(* Proofs about SerialLink: its invariant LinkInv is inductive, so that    *)
(* TypeOK, SendsBounded and NoResendAfterAck hold for all commands, flows, *)
(* retry counts and fault counts, and SerialLink implements CommandChannel.*)
(* With OwnLine on top of it, the answers of a timely chip are never taken *)
(* for those of another command.                                           *)
(***************************************************************************)
EXTENDS SerialLink, SequenceTheorems, TLAPS

-----------------------------------------------------------------------------
(* The line carries items, whatever happens to it.                         *)

LEMMA GoodType ==
  ASSUME NEW c \in Commands, NEW k \in {"ACK", "NAK", "CAN"} \cup FrameKinds
  PROVE  Good(k, c) \in Item
  BY DEF Good, Item

LEMMA AnswerType ==
  ASSUME NEW c \in Commands
  PROVE  Answer(c) \in Seq(Item)
  <1>1. Expected(c) \in Seq({"ACK", "RES", "CBK"})
    <2> DEFINE S == {"ACK", "RES", "CBK"}
    <2>1. /\ <<>> \in Seq(S)
          /\ <<"ACK">> \in Seq(S)
          /\ <<"ACK", "RES">> \in Seq(S)
          /\ <<"ACK", "CBK">> \in Seq(S)
          /\ <<"ACK", "RES", "CBK">> \in Seq(S)
      OBVIOUS
    <2>2. Expected(c) \in {<<>>, <<"ACK">>, <<"ACK", "RES">>, <<"ACK", "CBK">>,
                           <<"ACK", "RES", "CBK">>}
      BY Zenon DEF Expected
    <2> HIDE DEF S
    <2>3. Expected(c) \in Seq(S)
      BY <2>1, <2>2
    <2> QED
      BY <2>3 DEF S
  <1>2. \A i \in DOMAIN Expected(c) : Good(Expected(c)[i], c) \in Item
    <2>1. TAKE i \in DOMAIN Expected(c)
    <2>2. Expected(c)[i] \in {"ACK", "RES", "CBK"}
      BY <1>1, <2>1
    <2> QED
      BY <2>2, GoodType DEF FrameKinds
  <1>3. DOMAIN Expected(c) = 1 .. Len(Expected(c)) /\ Len(Expected(c)) \in Nat
    BY <1>1
  <1> QED
    BY <1>2, <1>3 DEF Answer

LEMMA ChipReactsType ==
  ASSUME TypeOK, NEW c \in Commands, NEW l \in Seq(Item), ChipReacts(c, l)
  PROVE  line' \in Seq(Item) /\ losses' \in 0 .. MaxLosses
  <1>1. Good("NAK", c) \in Item /\ Good("CAN", c) \in Item
    BY GoodType
  <1>2. l \o Answer(c) \in Seq(Item)
    BY AnswerType, ConcatProperties
  <1>3. losses > 0 => losses - 1 \in 0 .. MaxLosses
    BY SerialLinkAssumption DEF TypeOK
  <1>4. losses \in 0 .. MaxLosses
    BY DEF TypeOK
  <1>5. Append(l, Good("NAK", c)) \in Seq(Item) /\ Append(l, Good("CAN", c)) \in Seq(Item)
    BY <1>1, AppendProperties
  <1> QED
    BY <1>2, <1>3, <1>4, <1>5, Zenon DEF ChipReacts

LEMMA TailOfTail ==
  ASSUME NEW S, NEW s \in Seq(S), Len(s) > 1
  PROVE  Tail(Tail(s)) \in Seq(S)
  <1> DEFINE n == Len(s)
             t == Tail(s)
             m == Len(t)
  <1>1. n \in Nat /\ n > 1
    OBVIOUS
  <1>2. s # <<>>
    BY <1>1, EmptySeq
  <1>3. t \in Seq(S) /\ m = n - 1
    BY <1>2, HeadTailProperties
  <1>4. t = <<>> => m = 0
    BY EmptySeq
  <1>5. t # <<>>
    <2> HIDE DEF m, n
    <2> QED
      BY <1>1, <1>3, <1>4
  <1> HIDE DEF t
  <1>6. Tail(t) \in Seq(S)
    BY <1>3, <1>5, HeadTailProperties
  <1> QED
    BY <1>6 DEF t

LEMMA HeadTailType ==
  ASSUME TypeOK, line # <<>>
  PROVE  /\ Head(line) \in Item
         /\ Tail(line) \in Seq(Item)
  BY HeadTailProperties DEF TypeOK

-----------------------------------------------------------------------------
(* What the shared parts of the handlers keep.                             *)

\* Ending the command under way, in any of the three waits.
LEMMA EndCommandKeeps ==
  ASSUME LinkInv, state # "Idle", NEW s \in Ended, EndCommand(s),
         UNCHANGED <<cmdQueue, lastCmd, sent>>
  PROVE  /\ state' \in SendState /\ coolingDown' \in BOOLEAN
         /\ finished' \in Seq(Commands) /\ status' \in [Commands -> Status]
         /\ QueueConsistent' /\ LastCmdConsistent' /\ SendsBounded'
  <1> USE DEF LinkInv
  <1>1. lastCmd \in Commands /\ ~Unacknowledged(lastCmd) /\ status[lastCmd] \in {"sent", "acked"}
    BY DEF LastCmdConsistent, TypeOK, SendState
  <1>2. /\ status' = [status EXCEPT ![lastCmd] = s]
        /\ finished' = Append(finished, lastCmd)
        /\ state' = "Idle" /\ coolingDown' = TRUE
    BY DEF EndCommand, SetStatus
  <1>3. finished' \in Seq(Commands) /\ status' \in [Commands -> Status]
    BY <1>1, <1>2, AppendProperties DEF TypeOK, Status
  <1>4. QueueConsistent'
    <2>1. IsInjective(cmdQueue)'
      BY DEF QueueConsistent
    <2>2. \A i \in DOMAIN cmdQueue' : status'[cmdQueue'[i]] = "queued"
      BY <1>1, <1>2 DEF QueueConsistent, TypeOK, Ended
    <2>3. \A i \in DOMAIN finished' : status'[finished'[i]] \in Ended
      BY <1>1, <1>2 DEF QueueConsistent, TypeOK
    <2>4. \A c \in Commands : status'[c] \in {"new", "queued"} => sent'[c] = 0
      BY <1>1, <1>2 DEF QueueConsistent, TypeOK, Ended
    <2> QED
      BY <2>1, <2>2, <2>3, <2>4 DEF QueueConsistent
  <1>5. LastCmdConsistent'
    BY <1>1, <1>2 DEF LastCmdConsistent, Unacknowledged
  <1>6. SendsBounded'
    BY DEF SendsBounded
  <1> QED
    BY <1>2, <1>3, <1>4, <1>5, <1>6 DEF SendState

\* Writing the command under way once more.
LEMMA RetransmitKeeps ==
  ASSUME LinkInv, state = "WaitingForAck" \/ Unacknowledged(lastCmd),
         NEW l \in Seq(Item), Retransmit(l),
         UNCHANGED <<running, cmdQueue, strays, answers>>,
         pc' \in {"timeouts", "send", "read", "stopped"}
  PROVE  LinkInv'
  <1> USE DEF LinkInv
  <1>1. lastCmd \in Commands /\ attempts = sent[lastCmd] /\ status[lastCmd] \in {"sent", "fired"}
    BY DEF LastCmdConsistent, TypeOK, Unacknowledged
  <1>2. /\ attempts < MaxRetries /\ SendCommand(lastCmd, attempts, l)
        /\ UNCHANGED <<status, finished>>
    BY DEF Retransmit
  <1>3. /\ lastCmd' = lastCmd /\ attempts' = attempts + 1
        /\ sent' = [sent EXCEPT ![lastCmd] = @ + 1]
        /\ state' = IF Unacknowledged(lastCmd) THEN "Idle" ELSE "WaitingForAck"
        /\ coolingDown' \in BOOLEAN /\ deadlinePassed' \in BOOLEAN
    BY <1>2 DEF SendCommand, Await, TypeOK
  <1>4. line' \in Seq(Item) /\ losses' \in 0 .. MaxLosses
    BY <1>1, <1>2, ChipReactsType DEF SendCommand
  <1>5. TypeOK'
    <2>1. attempts' \in 0 .. MaxRetries
      BY <1>2, <1>3, SerialLinkAssumption DEF TypeOK
    <2>2. sent' \in [Commands -> Nat]
      BY <1>1, <1>3 DEF TypeOK
    <2> QED
      BY <1>1, <1>2, <1>3, <1>4, <2>1, <2>2 DEF TypeOK, SendState
  <1>6. QueueConsistent'
    <2>1. \A c \in Commands : status'[c] \in {"new", "queued"} => sent'[c] = 0
      BY <1>1, <1>2, <1>3 DEF QueueConsistent, TypeOK
    <2> QED
      BY <1>2, <2>1 DEF QueueConsistent
  <1>7. LastCmdConsistent'
    <2>1. attempts' = sent'[lastCmd']
      BY <1>1, <1>3 DEF TypeOK
    <2>2. status[lastCmd] = IF Unacknowledged(lastCmd) THEN "fired" ELSE "sent"
      BY DEF LastCmdConsistent
    <2> QED
      BY <1>1, <1>2, <1>3, <2>1, <2>2 DEF LastCmdConsistent, Unacknowledged
  <1>8. SendsBounded'
    BY <1>1, <1>2, <1>3, SerialLinkAssumption DEF SendsBounded, TypeOK
  <1> QED
    BY <1>5, <1>6, <1>7, <1>8

\* Giving the command under way up.
LEMMA GiveUpKeeps ==
  ASSUME LinkInv, state = "WaitingForAck", NEW l \in Seq(Item), GiveUp(l),
         UNCHANGED <<running, cmdQueue, strays, answers>>,
         pc' \in {"timeouts", "send", "read", "stopped"}
  PROVE  LinkInv'
  <1>1. /\ EndCommand("gaveUp") /\ line' = l
        /\ UNCHANGED <<lastCmd, attempts, deadlinePassed, losses, sent>>
    BY DEF GiveUp
  <1>2. "gaveUp" \in Ended
    BY DEF Ended
  <1>3. /\ state' \in SendState /\ coolingDown' \in BOOLEAN
        /\ finished' \in Seq(Commands) /\ status' \in [Commands -> Status]
        /\ QueueConsistent' /\ LastCmdConsistent' /\ SendsBounded'
    BY <1>1, <1>2, EndCommandKeeps
  <1>4. TypeOK'
    BY <1>1, <1>3 DEF LinkInv, TypeOK
  <1> QED
    BY <1>3, <1>4 DEF LinkInv

\* A step that leaves the queue, the state machine and the history alone.
LEMMA QuietStepKeeps ==
  ASSUME LinkInv, TypeOK',
         UNCHANGED <<cmdQueue, state, lastCmd, attempts, status, sent, finished>>
  PROVE  LinkInv'
  BY DEF LinkInv, QueueConsistent, LastCmdConsistent, SendsBounded, Unacknowledged

-----------------------------------------------------------------------------
(* The steps of a pass through Run.                                        *)

LEMMA HandleTimeoutsKeeps ==
  ASSUME LinkInv, HandleTimeouts
  PROVE  LinkInv'
  <1>1. /\ pc' = "send" /\ UNCHANGED <<running, cmdQueue>>
        /\ NoTimeout \/ AckTimeout \/ AnswerTimeout
    BY DEF HandleTimeouts
  <1>2. CASE NoTimeout
    <2>1. TypeOK'
      BY <1>1, <1>2 DEF LinkInv, TypeOK, NoTimeout, worker, env, history
    <2> QED
      BY <1>1, <1>2, <2>1, QuietStepKeeps DEF NoTimeout, worker, history
  <1>3. CASE AckTimeout
    <2>1. line \in Seq(Item)
      BY DEF LinkInv, TypeOK
    <2> QED
      BY <1>1, <1>3, <2>1, RetransmitKeeps, GiveUpKeeps DEF AckTimeout
  <1>4. CASE AnswerTimeout
    <2>1. /\ state # "Idle" /\ EndCommand("timedOut") /\ "timedOut" \in Ended
          /\ UNCHANGED <<lastCmd, attempts, deadlinePassed, line, losses, strays, sent, answers>>
      BY <1>4 DEF AnswerTimeout, Ended, env
    <2>2. /\ state' \in SendState /\ coolingDown' \in BOOLEAN
          /\ finished' \in Seq(Commands) /\ status' \in [Commands -> Status]
          /\ QueueConsistent' /\ LastCmdConsistent' /\ SendsBounded'
      BY <1>1, <2>1, EndCommandKeeps
    <2> QED
      BY <1>1, <2>1, <2>2 DEF LinkInv, TypeOK
  <1> QED
    BY <1>1, <1>2, <1>3, <1>4

LEMMA SendNextKeeps ==
  ASSUME LinkInv, SendNext
  PROVE  LinkInv'
  <1> DEFINE c == Head(cmdQueue)
             fire == Unacknowledged(c)
  <1> USE DEF LinkInv
  <1>1. /\ cmdQueue # <<>> /\ state = "Idle" /\ cmdQueue' = Tail(cmdQueue)
        /\ SendCommand(c, 0, line)
        /\ UNCHANGED <<running, strays, answers>>
        /\ status' = [status EXCEPT ![c] = IF fire THEN "fired" ELSE "sent"]
        /\ finished' = IF fire THEN Append(finished, c) ELSE finished
        /\ pc' \in {"read", "timeouts"}
    BY DEF SendNext, MaySend, SetStatus
  <1>2. /\ c \in Commands /\ c = cmdQueue[1] /\ 1 \in DOMAIN cmdQueue
        /\ cmdQueue' \in Seq(Commands)
        /\ \A i \in DOMAIN cmdQueue' : i + 1 \in DOMAIN cmdQueue /\ cmdQueue'[i] = cmdQueue[i + 1]
    BY <1>1, HeadTailProperties DEF TypeOK
  <1>3. /\ status[c] = "queued" /\ sent[c] = 0
        /\ \A i \in DOMAIN cmdQueue' : cmdQueue'[i] # c
    <2>1. \A i \in DOMAIN cmdQueue' : i + 1 # 1
      BY <1>2 DEF TypeOK
    <2> QED
      BY <1>2, <2>1 DEF QueueConsistent, IsInjective
  <1>4. /\ lastCmd' = c /\ attempts' = 1 /\ sent' = [sent EXCEPT ![c] = 1]
        /\ state' = IF fire THEN "Idle" ELSE "WaitingForAck"
        /\ coolingDown' \in BOOLEAN /\ deadlinePassed' \in BOOLEAN
    <2>1. /\ lastCmd' = c /\ attempts' = 1 /\ sent' = [sent EXCEPT ![c] = sent[c] + 1]
      BY <1>1 DEF SendCommand
    <2>2. /\ state' = IF fire THEN "Idle" ELSE "WaitingForAck"
          /\ coolingDown' \in BOOLEAN /\ deadlinePassed' \in BOOLEAN
      BY <1>1 DEF SendCommand, Await, TypeOK
    <2>3. sent[c] + 1 = 1
      BY <1>3
    <2>4. sent' = [sent EXCEPT ![c] = 1]
      BY <2>1, <2>3, Zenon
    <2> QED
      BY <2>1, <2>2, <2>4, Zenon
  <1>5. line' \in Seq(Item) /\ losses' \in 0 .. MaxLosses
    BY <1>1, <1>2, ChipReactsType DEF SendCommand, TypeOK
  <1>6. TypeOK'
    <2>1. attempts' \in 0 .. MaxRetries
      BY <1>4, SerialLinkAssumption
    <2>2. sent' \in [Commands -> Nat] /\ status' \in [Commands -> Status]
      BY <1>1, <1>2, <1>4 DEF TypeOK, Status, Ended
    <2>3. finished' \in Seq(Commands)
      BY <1>1, <1>2, AppendProperties DEF TypeOK
    <2> QED
      BY <1>1, <1>2, <1>4, <1>5, <2>1, <2>2, <2>3 DEF TypeOK, SendState
  <1>7. QueueConsistent'
    <2>1. IsInjective(cmdQueue)'
      <3>1. \A i, j \in DOMAIN cmdQueue' : i + 1 = j + 1 => i = j
        BY <1>2
      <3> QED
        BY <1>2, <3>1 DEF QueueConsistent, IsInjective
    <2>2. \A i \in DOMAIN cmdQueue' : status'[cmdQueue'[i]] = "queued"
      BY <1>1, <1>2, <1>3 DEF QueueConsistent, TypeOK
    <2>3. \A i \in DOMAIN finished' : status'[finished'[i]] \in Ended
      BY <1>1, <1>2, <1>3, SMTT(60) DEF QueueConsistent, TypeOK, Ended
    <2>4. \A d \in Commands : status'[d] \in {"new", "queued"} => sent'[d] = 0
      BY <1>1, <1>2, <1>4 DEF QueueConsistent, TypeOK
    <2> QED
      BY <2>1, <2>2, <2>3, <2>4 DEF QueueConsistent
  <1>8. LastCmdConsistent'
    <2>1. status'[c] = (IF fire THEN "fired" ELSE "sent") /\ sent'[c] = 1
      BY <1>1, <1>2, <1>4 DEF TypeOK
    <2> QED
      BY <1>2, <1>4, <2>1 DEF LastCmdConsistent, Unacknowledged
  <1>9. SendsBounded'
    BY <1>2, <1>4, SerialLinkAssumption DEF SendsBounded, TypeOK
  <1> QED
    BY <1>6, <1>7, <1>8, <1>9

\* Taking the oldest item off the line and remembering it for its command.
LEMMA NoteAnswerType ==
  ASSUME TypeOK, line # <<>>, Head(line).kind \in {"ACK"} \cup FrameKinds, NoteAnswer
  PROVE  answers' \in [Commands -> SUBSET ({"ACK"} \cup FrameKinds)]
  BY DEF TypeOK, NoteAnswer

\* What every step that reads an item leaves alone.
LEMMA ReadsType ==
  ASSUME TypeOK, NEW kinds, NEW form, Reads(kinds, form)
  PROVE  /\ line # <<>> /\ Head(line) \in Item /\ Tail(line) \in Seq(Item)
         /\ Head(line).kind \in kinds
         /\ pc' = "timeouts" /\ UNCHANGED <<running, cmdQueue, strays>>
  BY HeadTailType DEF Reads

LEMMA HandleAckKeeps ==
  ASSUME LinkInv, HandleAck
  PROVE  LinkInv'
  <1> USE DEF LinkInv
  <1>1. /\ line # <<>> /\ Tail(line) \in Seq(Item) /\ Head(line).kind \in {"ACK"}
        /\ pc' = "timeouts" /\ UNCHANGED <<running, cmdQueue, strays>>
    <2>1. Reads({"ACK"}, "good")
      BY DEF HandleAck
    <2> QED
      BY <2>1, ReadsType
  <1>2. /\ state = "WaitingForAck" /\ attempts' = 0 /\ NoteAnswer /\ line' = Tail(line)
        /\ UNCHANGED <<lastCmd, losses, sent>>
    BY DEF HandleAck
  <1>3. lastCmd \in Commands /\ ~Unacknowledged(lastCmd) /\ status[lastCmd] = "sent"
    BY <1>2 DEF LastCmdConsistent, TypeOK
  <1>4. answers' \in [Commands -> SUBSET ({"ACK"} \cup FrameKinds)]
    BY <1>1, <1>2, NoteAnswerType
  <1>5. 0 \in 0 .. MaxRetries
    BY SerialLinkAssumption
  <1>6. CASE EndCommand("completed") /\ UNCHANGED deadlinePassed
    <2>1. /\ state' \in SendState /\ coolingDown' \in BOOLEAN
          /\ finished' \in Seq(Commands) /\ status' \in [Commands -> Status]
          /\ QueueConsistent' /\ LastCmdConsistent' /\ SendsBounded'
      BY <1>1, <1>2, <1>6, EndCommandKeeps DEF Ended
    <2> QED
      BY <1>1, <1>2, <1>4, <1>5, <1>6, <2>1 DEF TypeOK
  <1>7. CASE /\ \/ Await("WaitingForResponse") \/ Await("WaitingForCallback")
             /\ SetStatus(lastCmd, "acked")
             /\ UNCHANGED finished
    <2>1. /\ state' \in {"WaitingForResponse", "WaitingForCallback"}
          /\ deadlinePassed' \in BOOLEAN /\ UNCHANGED coolingDown
          /\ status' = [status EXCEPT ![lastCmd] = "acked"]
      BY <1>7 DEF Await, SetStatus
    <2>2. TypeOK'
      BY <1>1, <1>2, <1>3, <1>4, <1>5, <1>7, <2>1 DEF TypeOK, SendState, Status
    <2>3. QueueConsistent'
      BY <1>1, <1>2, <1>3, <1>7, <2>1, SMTT(60) DEF QueueConsistent, TypeOK, Ended
    <2>4. LastCmdConsistent' /\ SendsBounded'
      BY <1>2, <1>3, <2>1 DEF LastCmdConsistent, SendsBounded, Unacknowledged, TypeOK
    <2> QED
      BY <2>2, <2>3, <2>4
  <1>8. CASE /\ state' = "Idle" /\ finished' = Append(finished, lastCmd)
             /\ SetStatus(lastCmd, "completed") /\ UNCHANGED <<coolingDown, deadlinePassed>>
    <2>1. status' = [status EXCEPT ![lastCmd] = "completed"]
      BY <1>8 DEF SetStatus
    <2>2. TypeOK'
      BY <1>1, <1>2, <1>3, <1>4, <1>5, <1>8, <2>1, AppendProperties
      DEF TypeOK, SendState, Status, Ended
    <2>3. QueueConsistent'
      BY <1>1, <1>2, <1>3, <1>8, <2>1, SMTT(60) DEF QueueConsistent, TypeOK, Ended
    <2>4. LastCmdConsistent' /\ SendsBounded'
      BY <1>2, <1>3, <1>8 DEF LastCmdConsistent, SendsBounded, Unacknowledged
    <2> QED
      BY <2>2, <2>3, <2>4
  <1> QED
    BY <1>6, <1>7, <1>8 DEF HandleAck

LEMMA HandleNakOrCanKeeps ==
  ASSUME LinkInv,
         HandleNakOrCan \/ HandleNakOrCanUnacknowledged \/ UnexpectedNakOrCan
  PROVE  LinkInv'
  <1>1. TypeOK
    BY DEF LinkInv
  <1>2. /\ Tail(line) \in Seq(Item)
        /\ pc' = "timeouts" /\ UNCHANGED <<running, cmdQueue, strays>>
    <2>1. Reads({"NAK", "CAN"}, "good")
      BY DEF HandleNakOrCan, HandleNakOrCanUnacknowledged, UnexpectedNakOrCan
    <2> QED
      BY <1>1, <2>1, ReadsType
  <1>3. CASE HandleNakOrCan
    BY <1>2, <1>3, RetransmitKeeps, GiveUpKeeps DEF HandleNakOrCan
  <1>4. CASE HandleNakOrCanUnacknowledged
    <2>1. Unacknowledged(lastCmd) /\ UNCHANGED answers
      BY <1>4 DEF HandleNakOrCanUnacknowledged
    <2>2. CASE Retransmit(Tail(line))
      BY <1>2, <2>1, <2>2, RetransmitKeeps
    <2>3. CASE /\ state' = "Idle" /\ coolingDown' = TRUE /\ line' = Tail(line)
               /\ UNCHANGED <<lastCmd, attempts, deadlinePassed, losses, status, sent, finished>>
      <3>1. state = "Idle"
        BY <2>1 DEF LinkInv, LastCmdConsistent
      <3>2. TypeOK'
        BY <1>1, <1>2, <2>1, <2>3 DEF TypeOK, SendState
      <3> QED
        BY <1>2, <2>3, <3>1, <3>2, QuietStepKeeps
    <2> QED
      BY <1>4, <2>2, <2>3 DEF HandleNakOrCanUnacknowledged
  <1>5. CASE UnexpectedNakOrCan
    <2>1. line' = Tail(line) /\ UNCHANGED <<worker, losses, history>>
      BY <1>5 DEF UnexpectedNakOrCan
    <2>2. TypeOK'
      BY <1>1, <1>2, <2>1 DEF TypeOK, worker, history
    <2> QED
      BY <1>2, <2>1, <2>2, QuietStepKeeps DEF worker, history
  <1> QED
    BY <1>3, <1>4, <1>5

LEMMA ProcessValidFrameKeeps ==
  ASSUME LinkInv, ProcessValidFrame
  PROVE  LinkInv'
  <1>1. TypeOK
    BY DEF LinkInv
  <1>2. /\ line # <<>> /\ Tail(line) \in Seq(Item) /\ Head(line).kind \in FrameKinds
        /\ pc' = "timeouts" /\ UNCHANGED <<running, cmdQueue, strays>>
    <2>1. Reads(FrameKinds, "good")
      BY DEF ProcessValidFrame
    <2> QED
      BY <1>1, <2>1, ReadsType
  <1>3. NoteAnswer /\ line' = Tail(line) /\ UNCHANGED <<lastCmd, attempts, losses, sent>>
    BY DEF ProcessValidFrame
  <1>4. answers' \in [Commands -> SUBSET ({"ACK"} \cup FrameKinds)]
    BY <1>1, <1>2, <1>3, NoteAnswerType
  <1>5. CASE /\ state # "Idle" /\ EndCommand("completed") /\ UNCHANGED deadlinePassed
    <2>1. /\ state' \in SendState /\ coolingDown' \in BOOLEAN
          /\ finished' \in Seq(Commands) /\ status' \in [Commands -> Status]
          /\ QueueConsistent' /\ LastCmdConsistent' /\ SendsBounded'
      BY <1>2, <1>3, <1>5, EndCommandKeeps DEF Ended
    <2> QED
      BY <1>2, <1>3, <1>4, <1>5, <2>1 DEF LinkInv, TypeOK
  <1>6. CASE /\ state = "WaitingForResponse" /\ Await("WaitingForCallback")
             /\ UNCHANGED <<status, finished>>
    <2>1. /\ state' = "WaitingForCallback" /\ deadlinePassed' = FALSE
          /\ UNCHANGED <<coolingDown, status, finished>>
      BY <1>6 DEF Await
    <2>2. TypeOK'
      BY <1>1, <1>2, <1>3, <1>4, <2>1 DEF TypeOK, SendState
    <2>3. QueueConsistent' /\ SendsBounded'
      BY <1>2, <1>3, <2>1 DEF LinkInv, QueueConsistent, SendsBounded
    <2>4. LastCmdConsistent'
      BY <1>3, <1>6, <2>1 DEF LinkInv, LastCmdConsistent, Unacknowledged
    <2> QED
      BY <2>2, <2>3, <2>4 DEF LinkInv
  <1>7. CASE UNCHANGED <<state, deadlinePassed, coolingDown, status, finished>>
    <2>1. TypeOK'
      BY <1>1, <1>2, <1>3, <1>4, <1>7 DEF TypeOK
    <2> QED
      BY <1>2, <1>3, <1>7, <2>1, QuietStepKeeps
  <1> QED
    BY <1>5, <1>6, <1>7 DEF ProcessValidFrame

\* The items that are read without an effect on the command under way.
LEMMA DiscardKeeps ==
  ASSUME LinkInv, UnexpectedAck \/ UnexpectedByte \/ ReadBadFrame \/ ReadCutFrame
  PROVE  LinkInv'
  <1>1. TypeOK
    BY DEF LinkInv
  <1>2. PICK kinds, form : Reads(kinds, form)
    BY DEF UnexpectedAck, UnexpectedByte, ReadBadFrame, ReadCutFrame
  <1>3. /\ line # <<>> /\ Tail(line) \in Seq(Item)
        /\ pc' = "timeouts" /\ UNCHANGED <<running, cmdQueue, strays>>
    BY <1>1, <1>2, ReadsType
  <1>4. answers' \in [Commands -> SUBSET ({"ACK"} \cup FrameKinds)]
    <2>1. CASE UnexpectedAck
      <3>1. Reads({"ACK"}, "good") /\ NoteAnswer
        BY <2>1 DEF UnexpectedAck
      <3> QED
        BY <1>1, <3>1, ReadsType, NoteAnswerType
    <2>2. CASE UNCHANGED answers
      BY <1>1, <2>2 DEF TypeOK
    <2> QED
      BY <2>1, <2>2 DEF UnexpectedByte, ReadBadFrame, ReadCutFrame, BadChecksum, history
  <1>5. line' \in Seq(Item)
    <2>1. Len(line) > 1 => Tail(Tail(line)) \in Seq(Item)
      BY <1>1, TailOfTail DEF TypeOK
    <2> QED
      BY <1>3, <2>1 DEF UnexpectedAck, UnexpectedByte, ReadBadFrame, ReadCutFrame, BadChecksum
  <1>6. /\ UNCHANGED <<state, lastCmd, attempts, coolingDown, losses, status, sent, finished>>
        /\ deadlinePassed' \in {deadlinePassed, FALSE}
    BY DEF UnexpectedAck, UnexpectedByte, ReadBadFrame, ReadCutFrame, BadChecksum, worker, history
  <1>7. TypeOK'
    BY <1>1, <1>3, <1>4, <1>5, <1>6 DEF TypeOK
  <1> QED
    BY <1>3, <1>6, <1>7, QuietStepKeeps

LEMMA RunKeeps ==
  ASSUME LinkInv, Run
  PROVE  LinkInv'
  <1>1. CASE SkipSend \/ ReadNothing \/ Exit
    <2>1. /\ pc' \in {"read", "timeouts", "stopped"}
          /\ UNCHANGED <<running, cmdQueue, worker, env, history>>
      BY <1>1 DEF SkipSend, ReadNothing, Exit
    <2>2. TypeOK'
      BY <2>1 DEF LinkInv, TypeOK, worker, env, history
    <2> QED
      BY <2>1, <2>2, QuietStepKeeps DEF worker, history
  <1> QED
    BY <1>1, HandleTimeoutsKeeps, SendNextKeeps, HandleAckKeeps, HandleNakOrCanKeeps,
       ProcessValidFrameKeeps, DiscardKeeps
    DEF Run, ReadByte

-----------------------------------------------------------------------------
(* The other threads, the clock and the line.                              *)

LEMMA EnqueueKeeps ==
  ASSUME LinkInv, NEW c \in Commands, Enqueue(c)
  PROVE  LinkInv'
  <1> USE DEF LinkInv
  <1>1. /\ status[c] = "new" /\ cmdQueue' = Append(cmdQueue, c)
        /\ status' = [status EXCEPT ![c] = "queued"]
        /\ UNCHANGED <<running, pc, state, lastCmd, attempts, deadlinePassed, coolingDown,
                       line, losses, strays, sent, answers, finished>>
    BY DEF Enqueue, SetStatus, worker, env
  <1>2. TypeOK'
    BY <1>1, AppendProperties DEF TypeOK, Status
  <1>3. QueueConsistent'
    <2>1. \A i \in DOMAIN cmdQueue : cmdQueue[i] # c /\ cmdQueue[i] \in Commands
      BY <1>1 DEF QueueConsistent, TypeOK
    <2>2. \A i \in DOMAIN finished : finished[i] # c /\ finished[i] \in Commands
      <3>1. finished \in Seq(Commands) /\ status[c] \notin Ended
        BY <1>1 DEF TypeOK, Ended
      <3>2. \A i \in DOMAIN finished : finished[i] \in Commands
        BY <3>1
      <3> QED
        BY <3>1, <3>2 DEF QueueConsistent
    <2>3. IsInjective(cmdQueue)'
      BY <1>1, <2>1, SMTT(60) DEF QueueConsistent, TypeOK, IsInjective
    <2>4. \A i \in DOMAIN cmdQueue' : status'[cmdQueue'[i]] = "queued"
      BY <1>1, <2>1, SMTT(60) DEF QueueConsistent, TypeOK
    <2>5. \A i \in DOMAIN finished' : status'[finished'[i]] \in Ended
      BY <1>1, <2>2 DEF QueueConsistent, TypeOK
    <2>6. \A d \in Commands : status'[d] \in {"new", "queued"} => sent'[d] = 0
      BY <1>1 DEF QueueConsistent, TypeOK
    <2> QED
      BY <2>3, <2>4, <2>5, <2>6 DEF QueueConsistent
  <1>4. LastCmdConsistent'
    <2>1. state # "Idle" \/ Unacknowledged(lastCmd) =>
            lastCmd # c /\ lastCmd \in Commands
      BY <1>1 DEF LastCmdConsistent, TypeOK, SendState, Unacknowledged
    <2>2. state # "Idle" \/ Unacknowledged(lastCmd) => status'[lastCmd] = status[lastCmd]
      BY <1>1, <2>1 DEF TypeOK
    <2> QED
      BY <1>1, <2>1, <2>2 DEF LastCmdConsistent, Unacknowledged
  <1>5. SendsBounded'
    BY <1>1 DEF SendsBounded
  <1> QED
    BY <1>2, <1>3, <1>4, <1>5

LEMMA ClockKeeps ==
  ASSUME LinkInv, Stop \/ DeadlinePasses \/ CoolDownEnds
  PROVE  LinkInv'
  <1>1. /\ UNCHANGED <<pc, cmdQueue, state, lastCmd, attempts, line, losses, strays,
                       status, sent, answers, finished>>
        /\ running' \in {running, FALSE}
        /\ deadlinePassed' \in {deadlinePassed, TRUE}
        /\ coolingDown' \in {coolingDown, FALSE}
    BY DEF Stop, DeadlinePasses, CoolDownEnds, worker, env, history
  <1>2. TypeOK'
    BY <1>1 DEF LinkInv, TypeOK
  <1> QED
    BY <1>1, <1>2, QuietStepKeeps

LEMMA LineKeeps ==
  ASSUME LinkInv, Line
  PROVE  LinkInv'
  <1>1. TypeOK /\ line \in Seq(Item)
    BY DEF LinkInv, TypeOK
  <1>2. DOMAIN line = 1 .. Len(line) /\ Len(line) \in Nat
    BY <1>1
  <1>3. \A m, n \in Int : 1 <= m /\ n <= Len(line) => SubSeq(line, m, n) \in Seq(Item)
    BY <1>1, <1>2, SubSeqProperties
  <1>4. \A i \in 1 .. Len(line) + 1, e \in Item : InsertAt(line, i, e) \in Seq(Item)
    <2>1. TAKE i \in 1 .. Len(line) + 1, e \in Item
    <2>2. SubSeq(line, 1, i - 1) \in Seq(Item) /\ SubSeq(line, i, Len(line)) \in Seq(Item)
      BY <1>2, <1>3
    <2> QED
      BY <2>2, ConcatProperties DEF InsertAt
  <1>5. \A i \in 1 .. Len(line) : RemoveAt(line, i) \in Seq(Item)
    <2>1. TAKE i \in 1 .. Len(line)
    <2>2. SubSeq(line, 1, i - 1) \in Seq(Item) /\ SubSeq(line, i + 1, Len(line)) \in Seq(Item)
      BY <1>2, <1>3
    <2> QED
      BY <2>2, ConcatProperties DEF RemoveAt
  <1>6. \A n \in Nat : n > 0 => n - 1 \in Nat /\ n - 1 <= n
    OBVIOUS
  <1>7. /\ line' \in Seq(Item) /\ losses' \in 0 .. MaxLosses /\ strays' \in 0 .. MaxStrays
        /\ UNCHANGED <<running, pc, cmdQueue, worker, history>>
    <2>1. CASE \E i \in DOMAIN line : LoseItem(i)
      BY <1>1, <1>2, <1>5, <2>1, SerialLinkAssumption DEF LoseItem, TypeOK
    <2>2. CASE \E i \in DOMAIN line : DamageItem(i)
      <3>1. PICK i \in DOMAIN line : DamageItem(i)
        BY <2>2
      <3>2. PICK f \in {"bad", "cut"} : line' = [line EXCEPT ![i].form = f]
        BY <3>1 DEF DamageItem
      <3>3. line[i] \in Item
        BY <1>1, <3>1
      <3>4. [line[i] EXCEPT !.form = f] \in Item
        BY <3>2, <3>3 DEF Item
      <3>5. line' \in Seq(Item)
        BY <1>1, <1>2, <3>1, <3>2, <3>4, ExceptSeq
      <3> QED
        BY <1>1, <3>1, <3>5, SerialLinkAssumption DEF DamageItem, TypeOK
    <2>3. CASE \E i \in DOMAIN line : RepeatFrame(i)
      <3>1. PICK i \in DOMAIN line : RepeatFrame(i)
        BY <2>3
      <3>2. line[i] \in Item /\ i \in 1 .. Len(line) + 1
        BY <1>1, <1>2, <3>1
      <3>3. line' \in Seq(Item)
        BY <1>4, <3>1, <3>2 DEF RepeatFrame
      <3> QED
        BY <1>1, <3>1, <3>3, SerialLinkAssumption DEF RepeatFrame, TypeOK
    <2>4. CASE \E i \in 1 .. Len(line) + 1 : UnsolicitedFrame(i)
      <3>1. Good("UNS", NoCmd) \in Item
        BY DEF Good, Item, FrameKinds
      <3> QED
        BY <1>1, <1>4, <2>4, <3>1, SerialLinkAssumption DEF UnsolicitedFrame, TypeOK
    <2> QED
      BY <2>1, <2>2, <2>3, <2>4 DEF Line
  <1>8. TypeOK'
    BY <1>1, <1>7 DEF TypeOK, worker, history
  <1> QED
    BY <1>7, <1>8, QuietStepKeeps DEF worker, history

-----------------------------------------------------------------------------
(* The invariant and what follows from it.                                 *)

LEMMA InitEstablishes == Init => LinkInv
  <1> SUFFICES ASSUME Init PROVE LinkInv
    OBVIOUS
  <1>1. TypeOK
    <2>1. /\ cmdQueue \in Seq(Commands) /\ finished \in Seq(Commands) /\ line \in Seq(Item)
      BY EmptySeq DEF Init
    <2>2. attempts \in 0 .. MaxRetries /\ losses \in 0 .. MaxLosses /\ strays \in 0 .. MaxStrays
      BY SerialLinkAssumption DEF Init
    <2>3. /\ status \in [Commands -> Status] /\ sent \in [Commands -> Nat]
          /\ answers \in [Commands -> SUBSET ({"ACK"} \cup FrameKinds)]
      BY DEF Init, Status
    <2> QED
      BY <2>1, <2>2, <2>3 DEF Init, TypeOK, SendState
  <1>2. QueueConsistent /\ SendsBounded
    BY SerialLinkAssumption DEF Init, QueueConsistent, SendsBounded, IsInjective
  <1>3. LastCmdConsistent
    BY DEF Init, LastCmdConsistent, Unacknowledged
  <1> QED
    BY <1>1, <1>2, <1>3 DEF LinkInv

LEMMA NextKeeps == LinkInv /\ [Next]_vars => LinkInv'
  <1> SUFFICES ASSUME LinkInv, [Next]_vars PROVE LinkInv'
    OBVIOUS
  <1>1. CASE Run
    BY <1>1, RunKeeps
  <1>2. CASE \E c \in Commands : Enqueue(c)
    BY <1>2, EnqueueKeeps
  <1>3. CASE Stop \/ DeadlinePasses \/ CoolDownEnds
    BY <1>3, ClockKeeps
  <1>4. CASE Line
    BY <1>4, LineKeeps
  <1>5. CASE UNCHANGED vars
    <2>1. TypeOK'
      BY <1>5 DEF LinkInv, TypeOK, vars, worker, env, history
    <2> QED
      BY <1>5, <2>1, QuietStepKeeps DEF vars, worker, history
  <1> QED
    BY <1>1, <1>2, <1>3, <1>4, <1>5 DEF Next

\* The queue, the command under way, its attempt counter and what was written
\* to the port agree in every reachable state (Interface.cpp, all of Run).
THEOREM LinkInvariant == Spec => []LinkInv
  BY InitEstablishes, NextKeeps, PTL DEF Spec

\* The variables of the transport keep their types.
THEOREM TypeCorrect == Spec => []TypeOK
  <1>1. LinkInv => TypeOK
    BY DEF LinkInv
  <1> QED
    BY <1>1, LinkInvariant, PTL

\* However ACK timeouts, NAKs, CANs and late answers interleave, a command is
\* written at most maxRetries times (SendCommand and its three callers).
THEOREM SendsAreBounded == Spec => []SendsBounded
  <1>1. LinkInv => SendsBounded
    BY DEF LinkInv
  <1> QED
    BY <1>1, LinkInvariant, PTL

\* Which steps write to the port, and what.
LEMMA WhoIsSent ==
  ASSUME LinkInv, [Next]_vars
  PROVE  \/ UNCHANGED sent
         \/ \E c \in Commands : /\ status[c] \in {"queued", "sent", "fired"}
                               /\ sent' = [sent EXCEPT ![c] = @ + 1]
  <1> USE DEF LinkInv
  <1>1. ASSUME NEW l, Retransmit(l), state = "WaitingForAck" \/ Unacknowledged(lastCmd)
        PROVE  /\ lastCmd \in Commands /\ status[lastCmd] \in {"sent", "fired"}
               /\ sent' = [sent EXCEPT ![lastCmd] = @ + 1]
    BY <1>1 DEF Retransmit, SendCommand, LastCmdConsistent, TypeOK, Unacknowledged
  <1>2. CASE HandleTimeouts
    <2>1. CASE AckTimeout
      BY <2>1, <1>1 DEF AckTimeout, GiveUp
    <2> QED
      BY <1>2, <2>1 DEF HandleTimeouts, NoTimeout, AnswerTimeout, history
  <1>3. CASE HandleNakOrCan \/ HandleNakOrCanUnacknowledged
    BY <1>1, <1>3 DEF HandleNakOrCan, HandleNakOrCanUnacknowledged, GiveUp
  <1>4. CASE SendNext
    <2>1. /\ cmdQueue # <<>> /\ sent' = [sent EXCEPT ![Head(cmdQueue)] = @ + 1]
      BY <1>4 DEF SendNext, MaySend, SendCommand
    <2>2. Head(cmdQueue) \in Commands /\ status[Head(cmdQueue)] = "queued"
      BY <2>1, HeadTailProperties DEF QueueConsistent, TypeOK
    <2> QED
      BY <2>1, <2>2
  <1>5. CASE SkipSend \/ ReadNothing \/ Exit \/ UnexpectedByte \/ ReadBadFrame \/ ReadCutFrame
    BY <1>5 DEF SkipSend, ReadNothing, Exit, UnexpectedByte, ReadBadFrame, ReadCutFrame,
                BadChecksum, history
  <1>6. CASE HandleAck \/ UnexpectedAck \/ UnexpectedNakOrCan \/ ProcessValidFrame
    BY <1>6 DEF HandleAck, UnexpectedAck, UnexpectedNakOrCan, ProcessValidFrame, history
  <1>7. CASE \/ \E c \in Commands : Enqueue(c)
             \/ Stop \/ DeadlinePasses \/ CoolDownEnds \/ Line
    BY <1>7 DEF Enqueue, Stop, DeadlinePasses, CoolDownEnds, Line, LoseItem, DamageItem,
                RepeatFrame, UnsolicitedFrame, history
  <1>8. CASE UNCHANGED vars
    BY <1>8 DEF vars, history
  <1> QED
    BY <1>2, <1>3, <1>4, <1>5, <1>6, <1>7, <1>8 DEF Next, Run, ReadByte

\* Neither a timeout nor a NAK or CAN, late ones included, writes a command
\* again that was acknowledged or has ended (HandleTimeouts, HandleNakOrCan).
THEOREM NoResend == Spec => NoResendAfterAck
  <1> DEFINE Settled(c) == status[c] \in {"acked"} \cup (Ended \ {"fired"})
             NoResendStep == \A c \in Commands : Settled(c) => sent'[c] = sent[c]
  <1>1. LinkInv /\ [Next]_vars => [NoResendStep]_vars
    <2> SUFFICES ASSUME LinkInv, [Next]_vars PROVE NoResendStep
      OBVIOUS
    <2>1. CASE UNCHANGED sent
      BY <2>1
    <2>2. CASE \E d \in Commands : /\ status[d] \in {"queued", "sent", "fired"}
                                 /\ sent' = [sent EXCEPT ![d] = @ + 1]
      BY <2>2 DEF LinkInv, TypeOK, Ended
    <2> QED
      BY <2>1, <2>2, WhoIsSent
  <1> QED
    BY <1>1, LinkInvariant, PTL DEF Spec, NoResendAfterAck

-----------------------------------------------------------------------------
(* SerialLink implements CommandChannel.                                   *)

LEMMA InitImplements == Init => Channel!Init
  BY DEF Init, Channel!Init

\* Ending the command under way is Finish.
LEMMA EndCommandImplements ==
  ASSUME LinkInv, state # "Idle", NEW s, EndCommand(s), UNCHANGED <<running, cmdQueue, lastCmd>>
  PROVE  Channel!Next
  <1>1. lastCmd # NoCmd
    BY SerialLinkAssumption DEF LinkInv, LastCmdConsistent
  <1>2. Channel!Finish
    BY <1>1 DEF Channel!Finish, EndCommand
  <1> QED
    BY <1>2 DEF Channel!Next, Channel!Work

\* Writing the command under way again is not visible to the layers above.
LEMMA RetransmitImplements ==
  ASSUME LinkInv, state = "WaitingForAck" \/ Unacknowledged(lastCmd), NEW l, Retransmit(l),
         UNCHANGED <<running, cmdQueue>>
  PROVE  UNCHANGED Channel!vars
  <1>1. UNCHANGED <<lastCmd, finished>> /\ (state = "Idle" <=> state' = "Idle")
    BY DEF LinkInv, LastCmdConsistent, Retransmit, SendCommand, Await
  <1> QED
    BY <1>1 DEF Channel!vars

LEMMA StepImplements == LinkInv /\ [Next]_vars => [Channel!Next]_(Channel!vars)
  <1> SUFFICES ASSUME LinkInv, [Next]_vars PROVE [Channel!Next]_(Channel!vars)
    OBVIOUS
  <1>1. CASE HandleTimeouts
    <2>1. CASE NoTimeout
      BY <1>1, <2>1 DEF HandleTimeouts, NoTimeout, worker, history, Channel!vars
    <2>2. CASE AckTimeout
      BY <1>1, <2>2, RetransmitImplements, EndCommandImplements DEF HandleTimeouts, AckTimeout, GiveUp
    <2>3. CASE AnswerTimeout
      BY <1>1, <2>3, EndCommandImplements DEF HandleTimeouts, AnswerTimeout
    <2> QED
      BY <1>1, <2>1, <2>2, <2>3 DEF HandleTimeouts
  <1>2. CASE SendNext
    <2>1. /\ state = "Idle" /\ cmdQueue # <<>> /\ cmdQueue' = Tail(cmdQueue)
          /\ lastCmd' = Head(cmdQueue) /\ UNCHANGED running
      BY <1>2 DEF SendNext, MaySend, SendCommand
    <2>2. CASE Unacknowledged(Head(cmdQueue))
      <3>1. state' = "Idle" /\ finished' = Append(finished, Head(cmdQueue))
        BY <1>2, <2>2 DEF SendNext, SendCommand
      <3> QED
        BY <2>1, <3>1 DEF Channel!Next, Channel!Work, Channel!FireAndForget
    <2>3. CASE ~Unacknowledged(Head(cmdQueue))
      <3>1. state' = "WaitingForAck" /\ UNCHANGED finished
        BY <1>2, <2>3 DEF SendNext, SendCommand, Await
      <3> QED
        BY <2>1, <3>1 DEF Channel!Next, Channel!Work, Channel!Begin
    <2> QED
      BY <2>2, <2>3
  <1>3. CASE HandleAck
    <2>1. state = "WaitingForAck" /\ UNCHANGED <<running, cmdQueue, lastCmd>>
      BY <1>3 DEF HandleAck, Reads
    <2>2. CASE EndCommand("completed")
      BY <2>1, <2>2, EndCommandImplements
    <2>3. CASE (Await("WaitingForResponse") \/ Await("WaitingForCallback")) /\ UNCHANGED finished
      BY <2>1, <2>3 DEF Await, Channel!vars
    <2>4. CASE state' = "Idle" /\ finished' = Append(finished, lastCmd)
      <3>1. lastCmd # NoCmd
        BY <2>1, SerialLinkAssumption DEF LinkInv, LastCmdConsistent
      <3> QED
        BY <2>1, <2>4, <3>1 DEF Channel!Next, Channel!Work, Channel!Finish
    <2> QED
      BY <1>3, <2>2, <2>3, <2>4 DEF HandleAck
  <1>4. CASE HandleNakOrCan
    BY <1>4, RetransmitImplements, EndCommandImplements DEF HandleNakOrCan, Reads, GiveUp
  <1>5. CASE HandleNakOrCanUnacknowledged
    <2>1. state = "Idle" /\ Unacknowledged(lastCmd) /\ UNCHANGED <<running, cmdQueue>>
      BY <1>5 DEF HandleNakOrCanUnacknowledged, Reads, LinkInv, LastCmdConsistent
    <2>2. CASE Retransmit(Tail(line))
      BY <2>1, <2>2, RetransmitImplements
    <2>3. CASE state' = "Idle" /\ UNCHANGED <<lastCmd, finished>>
      BY <2>1, <2>3 DEF Channel!vars
    <2> QED
      BY <1>5, <2>2, <2>3 DEF HandleNakOrCanUnacknowledged
  <1>6. CASE ProcessValidFrame
    <2>1. UNCHANGED <<running, cmdQueue, lastCmd>>
      BY <1>6 DEF ProcessValidFrame, Reads
    <2>2. CASE state # "Idle" /\ EndCommand("completed")
      BY <2>1, <2>2, EndCommandImplements
    <2>3. CASE state = "WaitingForResponse" /\ Await("WaitingForCallback") /\ UNCHANGED finished
      BY <2>1, <2>3 DEF Await, Channel!vars
    <2>4. CASE UNCHANGED <<state, finished>>
      BY <2>1, <2>4 DEF Channel!vars
    <2> QED
      BY <1>6, <2>2, <2>3, <2>4 DEF ProcessValidFrame
  <1>7. CASE \/ SkipSend \/ ReadNothing \/ Exit
             \/ UnexpectedAck \/ UnexpectedNakOrCan \/ UnexpectedByte
             \/ ReadBadFrame \/ ReadCutFrame
    BY <1>7 DEF SkipSend, ReadNothing, Exit, UnexpectedAck, UnexpectedNakOrCan, UnexpectedByte,
                ReadBadFrame, ReadCutFrame, BadChecksum, Reads, worker, history, Channel!vars
  <1>8. CASE \E c \in Commands : Enqueue(c)
    <2>1. PICK c \in Commands : Enqueue(c)
      BY <1>8
    <2>2. /\ status[c] = "new" /\ cmdQueue' = Append(cmdQueue, c)
          /\ UNCHANGED <<running, state, lastCmd, finished>>
      BY <2>1 DEF Enqueue, worker
    <2>3. ~Channel!Known(c)
      <3>1. \A i \in DOMAIN cmdQueue : cmdQueue[i] # c
        BY <2>2 DEF LinkInv, QueueConsistent
      <3>2. \A i \in DOMAIN finished : finished[i] # c
        BY <2>2 DEF LinkInv, QueueConsistent, Ended
      <3>3. state # "Idle" => lastCmd # c
        BY <2>2 DEF LinkInv, LastCmdConsistent, TypeOK, SendState
      <3> QED
        BY <3>1, <3>2, <3>3, SerialLinkAssumption DEF Channel!Known
    <2>4. Channel!Submit(c)
      BY <2>2, <2>3 DEF Channel!Submit
    <2> QED
      BY <2>4 DEF Channel!Next
  <1>9. CASE Stop
    BY <1>9 DEF Stop, worker, history, Channel!Next, Channel!Close
  <1>10. CASE DeadlinePasses \/ CoolDownEnds \/ Line
    BY <1>10 DEF DeadlinePasses, CoolDownEnds, Line, LoseItem, DamageItem, RepeatFrame,
                 UnsolicitedFrame, worker, history, Channel!vars
  <1>11. CASE UNCHANGED vars
    BY <1>11 DEF vars, worker, history, Channel!vars
  <1> QED
    BY <1>1, <1>2, <1>3, <1>4, <1>5, <1>6, <1>7, <1>8, <1>9, <1>10, <1>11
    DEF Next, Run, ReadByte

\* To the layers above, the transport is a queue that takes commands one at a
\* time, in order, and ends each of them once, whatever happens on the line.
THEOREM ImplementsChannel == Spec => ChannelSpec
  BY InitImplements, StepImplements, LinkInvariant, PTL DEF Spec, ChannelSpec, Channel!Spec

-----------------------------------------------------------------------------
(* Whose answers the line carries.  Without stray frames, without commands *)
(* that nobody acknowledges, and as long as no wait runs out while an      *)
(* answer is on the line, the line carries nothing but what the command    *)
(* under way is still owed: OwnLine, on top of LinkInv.                    *)

Refusals == {"NAK", "CAN"}

Before(k, l) ==
  \/ k = "ACK" /\ l \in {"RES", "CBK"}
  \/ k = "RES" /\ l = "CBK"

\* l is what is left of the answers to c, all of them of the kinds K.
Remaining(l, c, K) ==
  /\ \A i \in DOMAIN l : l[i].cmd = c /\ l[i].kind \in K
  /\ \A i, j \in DOMAIN l : i < j => Before(l[i].kind, l[j].kind)

OwnLine ==
  /\ strays = 0
  /\ state = "Idle" => line = <<>>
  /\ state = "WaitingForAck" =>
       Remaining(line, lastCmd, Refusals \cup Range(Expected(lastCmd)))
  /\ state = "WaitingForResponse" =>
       /\ Flow[lastCmd] \in {"AckWithResponse", "AckWithResponseCallback"}
       /\ "ACK" \in answers[lastCmd]
       /\ Remaining(line, lastCmd, Range(Expected(lastCmd)) \ {"ACK"})
  /\ state = "WaitingForCallback" =>
       /\ Flow[lastCmd] \in {"AckWithCallback", "AckWithResponseCallback"}
       /\ "ACK" \in answers[lastCmd]
       /\ Remaining(line, lastCmd, {"CBK"})
       /\ line # <<>> /\ Flow[lastCmd] = "AckWithResponseCallback"
            => "RES" \in answers[lastCmd]
  /\ CompletedByOwnAnswers

\* The answers that each flow asks for, as a set.
LEMMA ExpectedKinds ==
  ASSUME NEW c \in Commands, Flow[c] # "Unacknowledged"
  PROVE  Range(Expected(c)) =
           IF Flow[c] = "AckWithResponse" THEN {"ACK", "RES"}
           ELSE IF Flow[c] = "AckWithCallback" THEN {"ACK", "CBK"}
           ELSE IF Flow[c] = "AckWithResponseCallback" THEN {"ACK", "RES", "CBK"}
           ELSE {"ACK"}
  <1> DEFINE e == Expected(c)
             R == {e[i] : i \in DOMAIN e}
  <1>1. CASE Flow[c] = "AckWithResponse"
    <2>1. e = <<"ACK", "RES">>
      BY <1>1, Zenon DEF Expected
    <2> HIDE DEF e
    <2> QED
      BY <1>1, <2>1 DEF Range, e
  <1>2. CASE Flow[c] = "AckWithCallback"
    <2>1. e = <<"ACK", "CBK">>
      BY <1>2, Zenon DEF Expected
    <2> QED
      BY <1>2, <2>1 DEF Range
  <1>3. CASE Flow[c] = "AckWithResponseCallback"
    <2>1. e = <<"ACK", "RES", "CBK">>
      BY <1>3, Zenon DEF Expected
    <2> QED
      BY <1>3, <2>1 DEF Range
  <1>4. CASE Flow[c] \notin {"AckWithResponse", "AckWithCallback", "AckWithResponseCallback"}
    <2>1. e = <<"ACK">>
      BY <1>4, Zenon DEF Expected
    <2> QED
      BY <1>4, <2>1 DEF Range
  <1> QED
    BY <1>1, <1>2, <1>3, <1>4

\* The answers come in the order of Expected.
LEMMA AnswerRemains ==
  ASSUME NEW c \in Commands
  PROVE  Remaining(Answer(c), c, Range(Expected(c)))
  <1> DEFINE e == Expected(c)
  <1>1. e \in {<<>>, <<"ACK">>, <<"ACK", "RES">>, <<"ACK", "CBK">>, <<"ACK", "RES", "CBK">>}
    BY Zenon DEF Expected
  <1>2. \A i, j \in DOMAIN e : i < j => Before(e[i], e[j])
    <2> HIDE DEF e
    <2>1. CASE e = <<>> \/ e = <<"ACK">>
      BY <2>1
    <2>2. CASE e = <<"ACK", "RES">> \/ e = <<"ACK", "CBK">>
      BY <2>2 DEF Before
    <2>3. CASE e = <<"ACK", "RES", "CBK">>
      BY <2>3 DEF Before
    <2> QED
      BY <1>1, <2>1, <2>2, <2>3
  <1>3. \A i \in DOMAIN e : e[i] \in Range(e)
    BY DEF Range
  <1> QED
    BY <1>2, <1>3 DEF Remaining, Answer, Good

\* What is left after the oldest answer has been read comes after it.
LEMMA RemainingTail ==
  ASSUME NEW l \in Seq(Item), l # <<>>, NEW c, NEW K, Remaining(l, c, K)
  PROVE  /\ Head(l).cmd = c /\ Head(l).kind \in K
         /\ Remaining(Tail(l), c, K)
         /\ \A i \in DOMAIN Tail(l) : Before(Head(l).kind, Tail(l)[i].kind)
  <1> DEFINE t == Tail(l)
             n == Len(l)
  <1>1. n \in Nat /\ n # 0 /\ DOMAIN l = 1 .. n /\ Head(l) = l[1]
    BY EmptySeq
  <1>2. t \in Seq(Item) /\ Len(t) = n - 1 /\ \A i \in 1 .. Len(t) : t[i] = l[i + 1]
    BY HeadTailProperties
  <1>3. DOMAIN t = 1 .. n - 1
    BY <1>2
  <1>4. \A i \in DOMAIN t : t[i] = l[i + 1] /\ i + 1 \in DOMAIN l /\ i \in Int
    BY <1>1, <1>2, <1>3
  <1>5. 1 \in DOMAIN l /\ \A i \in DOMAIN t : 1 < i + 1
    BY <1>1, <1>3
  <1>6. \A i, j \in DOMAIN t : i < j => i + 1 < j + 1
    BY <1>3
  <1> HIDE DEF t, n
  <1>7. Remaining(t, c, K)
    BY <1>4, <1>6 DEF Remaining
  <1>8. \A i \in DOMAIN t : Before(Head(l).kind, t[i].kind)
    BY <1>1, <1>4, <1>5 DEF Remaining
  <1> QED
    BY <1>1, <1>5, <1>7, <1>8 DEF Remaining, t

\* Nothing remains of no kind.
LEMMA NothingRemains ==
  ASSUME NEW l \in Seq(Item), NEW c, Remaining(l, c, {})
  PROVE  l = <<>>
  BY EmptySeq DEF Remaining

\* What a lost item leaves is in order still.
LEMMA RemainingWithout ==
  ASSUME NEW l \in Seq(Item), NEW i \in DOMAIN l, NEW c, NEW K, Remaining(l, c, K)
  PROVE  Remaining(RemoveAt(l, i), c, K)
  <1> DEFINE n == Len(l)
             p == SubSeq(l, 1, i - 1)
             q == SubSeq(l, i + 1, n)
             r == RemoveAt(l, i)
  <1>1. n \in Nat /\ DOMAIN l = 1 .. n /\ i \in 1 .. n
    OBVIOUS
  <1>2. \A j \in 1 .. n : l[j] \in Item
    OBVIOUS
  <1>3. \A a, b \in Int : 1 <= a /\ b <= n => \A j \in a .. b : l[j] \in Item
    BY <1>1, <1>2
  <1>4. /\ p \in Seq(Item) /\ Len(p) = i - 1
        /\ \A j \in 1 .. i - 1 : p[j] = l[j]
    <2>1. 1 \in Int /\ i - 1 \in Int /\ i - 1 <= n /\ (i - 1) - 1 + 1 = i - 1
      BY <1>1
    <2>2. /\ p \in Seq(Item) /\ Len(p) = IF 1 <= i - 1 THEN (i - 1) - 1 + 1 ELSE 0
          /\ \A j \in 1 .. (i - 1) - 1 + 1 : p[j] = l[1 + j - 1]
      BY <1>3, <2>1, SubSeqProperties
    <2> QED
      BY <1>1, <2>1, <2>2
  <1>5. /\ q \in Seq(Item) /\ Len(q) = n - i
        /\ \A j \in 1 .. n - i : q[j] = l[i + j]
    <2>1. n \in Int /\ i + 1 \in Int /\ 1 <= i + 1 /\ n - (i + 1) + 1 = n - i
      BY <1>1
    <2>2. /\ q \in Seq(Item) /\ Len(q) = IF i + 1 <= n THEN n - (i + 1) + 1 ELSE 0
          /\ \A j \in 1 .. n - (i + 1) + 1 : q[j] = l[i + 1 + j - 1]
      BY <1>3, <2>1, SubSeqProperties
    <2> QED
      BY <1>1, <2>1, <2>2, SMTT(60)
  <1> DEFINE at == [j \in 1 .. n - 1 |-> IF j < i THEN j ELSE j + 1]
  <1>6. /\ r \in Seq(Item) /\ Len(r) = n - 1
        /\ \A j \in 1 .. n - 1 : r[j] = l[at[j]]
    <2>1. r = p \o q
      BY DEF RemoveAt
    <2> HIDE DEF p, q, r, n
    <2>2. /\ r \in Seq(Item) /\ Len(r) = Len(p) + Len(q)
          /\ \A j \in 1 .. Len(p) + Len(q) : r[j] = IF j <= Len(p) THEN p[j] ELSE q[j - Len(p)]
      BY <1>4, <1>5, <2>1, ConcatProperties
    <2>3. Len(p) + Len(q) = n - 1
      BY <1>1, <1>4, <1>5
    <2>4. \A j \in 1 .. n - 1 : r[j] = l[at[j]]
      <3>1. TAKE j \in 1 .. n - 1
      <3>2. CASE j < i
        BY <1>1, <1>4, <2>2, <2>3, <3>1, <3>2
      <3>3. CASE ~(j < i)
        <4>1. j - (i - 1) \in 1 .. n - i /\ i + (j - (i - 1)) = j + 1 /\ ~(j <= i - 1)
          BY <1>1, <3>1, <3>3
        <4> QED
          BY <1>4, <1>5, <2>2, <2>3, <3>1, <3>3, <4>1, SMTT(60)
      <3> QED
        BY <3>2, <3>3
    <2> HIDE DEF at
    <2> QED
      BY <2>2, <2>3, <2>4
  <1>7. DOMAIN r = 1 .. n - 1
    BY <1>6
  <1>8. \A j \in 1 .. n - 1 : at[j] \in DOMAIN l
    BY <1>1
  <1>9. \A j, k \in 1 .. n - 1 : j < k => at[j] < at[k]
    BY <1>1
  <1> HIDE DEF at, r, n
  <1>10. \A j \in DOMAIN r : r[j].cmd = c /\ r[j].kind \in K
    BY <1>6, <1>7, <1>8 DEF Remaining
  <1>11. \A j, k \in DOMAIN r : j < k => Before(r[j].kind, r[k].kind)
    BY <1>6, <1>7, <1>8, <1>9 DEF Remaining
  <1>12. Remaining(r, c, K)
    BY <1>10, <1>11 DEF Remaining
  <1> QED
    BY <1>12 DEF r

\* A damaged item has its place and its kind still.
LEMMA RemainingDamaged ==
  ASSUME NEW l \in Seq(Item), NEW i \in DOMAIN l, NEW f, NEW c, NEW K, Remaining(l, c, K)
  PROVE  Remaining([l EXCEPT ![i].form = f], c, K)
  <1> DEFINE d == [l EXCEPT ![i].form = f]
  <1>1. DOMAIN d = DOMAIN l
    OBVIOUS
  <1>2. l[i] \in Item
    OBVIOUS
  <1>3. \A j \in DOMAIN l : d[j].cmd = l[j].cmd /\ d[j].kind = l[j].kind
    BY <1>2 DEF Item
  <1> HIDE DEF d
  <1> QED
    BY <1>1, <1>3 DEF Remaining, d

\* Each command that is over stays so, with the answers it has had.
LEMMA OwnAnswersStay ==
  ASSUME CompletedByOwnAnswers,
         \A c \in Commands : answers[c] \subseteq answers'[c],
         \A c \in Commands : status'[c] = "completed" =>
           status[c] = "completed" \/ Range(Expected(c)) \subseteq answers'[c]
  PROVE  CompletedByOwnAnswers'
  BY DEF CompletedByOwnAnswers

\* Reading an answer adds to what its command has had.
LEMMA NoteAnswerGrows ==
  ASSUME TypeOK, line # <<>>, NoteAnswer
  PROVE  /\ \A c \in Commands : answers[c] \subseteq answers'[c]
         /\ \A c \in Commands : Head(line).cmd = c => Head(line).kind \in answers'[c]
  BY DEF NoteAnswer, TypeOK

\* A step that takes something off the line, or nothing, and that leaves the
\* wait as it is.
LEMMA ShorterLineIsOwn ==
  ASSUME LinkInv, OwnLine, UNCHANGED <<state, lastCmd, strays, status>>,
         \A c \in Commands : answers[c] \subseteq answers'[c],
         line = <<>> => line' = <<>>,
         \A c, K : Remaining(line, c, K) => Remaining(line', c, K)
  PROVE  OwnLine'
  <1>1. CompletedByOwnAnswers'
    <2>1. CompletedByOwnAnswers
      BY DEF OwnLine
    <2> QED
      BY <2>1, OwnAnswersStay
  <1>2. state # "Idle" => lastCmd \in Commands
    BY DEF LinkInv, LastCmdConsistent
  <1>3. strays' = 0 /\ (state' = "Idle" => line' = <<>>)
    BY DEF OwnLine
  <1>4. state' = "WaitingForAck" =>
          Remaining(line', lastCmd', Refusals \cup Range(Expected(lastCmd')))
    BY DEF OwnLine
  <1>5. state' = "WaitingForResponse" =>
          /\ Flow[lastCmd'] \in {"AckWithResponse", "AckWithResponseCallback"}
          /\ "ACK" \in answers'[lastCmd']
          /\ Remaining(line', lastCmd', Range(Expected(lastCmd')) \ {"ACK"})
    BY <1>2 DEF OwnLine
  <1>6. state' = "WaitingForCallback" =>
          /\ Flow[lastCmd'] \in {"AckWithCallback", "AckWithResponseCallback"}
          /\ "ACK" \in answers'[lastCmd']
          /\ Remaining(line', lastCmd', {"CBK"})
          /\ line' # <<>> /\ Flow[lastCmd'] = "AckWithResponseCallback"
               => "RES" \in answers'[lastCmd']
    BY <1>2 DEF OwnLine
  <1>7. CompletedByOwnAnswers' /\ strays' = 0 /\ (state' = "Idle" => line' = <<>>)
    BY <1>1, <1>3
  <1> QED
    BY <1>4, <1>5, <1>6, <1>7 DEF OwnLine

\* A command that is over with nothing left on the line.
LEMMA EndIsOwn ==
  ASSUME OwnLine, UNCHANGED strays, line' = <<>>, state' = "Idle", CompletedByOwnAnswers'
  PROVE  OwnLine'
  BY DEF OwnLine

\* What comes back for a command written on an empty line.
LEMMA WrittenIsOwn ==
  ASSUME OwnLine, UNCHANGED <<strays, answers>>, NEW c \in Commands, NEW tries,
         Flow[c] # "Unacknowledged", SendCommand(c, tries, <<>>),
         \A d \in Commands : status'[d] = "completed" => status[d] = "completed"
  PROVE  OwnLine'
  <1> DEFINE K == Refusals \cup Range(Expected(c))
  <1>1. state' = "WaitingForAck" /\ lastCmd' = c /\ ChipReacts(c, <<>>)
    BY DEF SendCommand, Unacknowledged, Await
  <1>2. Remaining(line', c, K)
    <2>1. CASE line' = <<>> \o Answer(c)
      <3>1. line' = Answer(c)
        BY <2>1, AnswerType, ConcatEmptySeq
      <3>2. Remaining(line', c, Range(Expected(c)))
        BY <3>1, AnswerRemains
      <3> QED
        BY <3>2 DEF Remaining
    <2>2. CASE line' = <<>>
      BY <2>2 DEF Remaining
    <2>3. ASSUME NEW k \in Refusals, line' = Append(<<>>, Good(k, c))
          PROVE  Remaining(line', c, K)
      <3>1. line' = <<Good(k, c)>>
        BY <2>3
      <3>2. \A i \in DOMAIN line' : line'[i] = Good(k, c) /\ i = 1
        BY <3>1
      <3>3. Good(k, c).cmd = c /\ Good(k, c).kind = k
        BY DEF Good
      <3>4. ~(1 < 1)
        OBVIOUS
      <3> QED
        BY <3>2, <3>3, <3>4 DEF Remaining
    <2> QED
      BY <1>1, <2>1, <2>2, <2>3 DEF ChipReacts, Refusals
  <1>3. CompletedByOwnAnswers'
    <2>1. CompletedByOwnAnswers
      BY DEF OwnLine
    <2> QED
      BY <2>1, OwnAnswersStay
  <1> HIDE DEF K
  <1>4. strays' = 0
    BY DEF OwnLine
  <1>5. Remaining(line', lastCmd', Refusals \cup Range(Expected(lastCmd')))
    BY <1>1, <1>2 DEF K
  <1> QED
    BY <1>1, <1>3, <1>4, <1>5 DEF OwnLine

\* Writing the command under way once more, or giving it up.
LEMMA RewriteIsOwn ==
  ASSUME LinkInv, OwnLine, \A c \in Commands : Flow[c] # "Unacknowledged",
         state = "WaitingForAck", UNCHANGED <<strays, answers>>,
         Retransmit(<<>>) \/ GiveUp(<<>>)
  PROVE  OwnLine'
  <1>1. lastCmd \in Commands
    BY DEF LinkInv, LastCmdConsistent
  <1>2. CASE Retransmit(<<>>)
    BY <1>1, <1>2, WrittenIsOwn DEF Retransmit
  <1>3. CASE GiveUp(<<>>)
    <2>1. state' = "Idle" /\ line' = <<>> /\ status' = [status EXCEPT ![lastCmd] = "gaveUp"]
      BY <1>3 DEF GiveUp, EndCommand, SetStatus
    <2>2. CompletedByOwnAnswers'
      <3>1. CompletedByOwnAnswers
        BY DEF OwnLine
      <3>2. \A c \in Commands : status'[c] = "completed" => status[c] = "completed"
        BY <1>1, <2>1 DEF LinkInv, TypeOK
      <3> QED
        BY <3>1, <3>2, OwnAnswersStay
    <2> QED
      BY <2>1, <2>2, EndIsOwn
  <1> QED
    BY <1>2, <1>3

LEMMA HandleTimeoutsIsOwn ==
  ASSUME LinkInv, OwnLine, \A c \in Commands : Flow[c] # "Unacknowledged",
         deadlinePassed => line = <<>>, HandleTimeouts
  PROVE  OwnLine'
  <1>1. CASE NoTimeout
    BY <1>1, ShorterLineIsOwn DEF NoTimeout, worker, env, history
  <1>2. CASE AckTimeout
    BY <1>2, RewriteIsOwn DEF AckTimeout
  <1>3. CASE AnswerTimeout
    <2>1. lastCmd \in Commands
      BY <1>3 DEF AnswerTimeout, LinkInv, LastCmdConsistent
    <2>2. /\ state' = "Idle" /\ line' = <<>> /\ UNCHANGED <<strays, answers>>
          /\ status' = [status EXCEPT ![lastCmd] = "timedOut"]
      BY <1>3 DEF AnswerTimeout, EndCommand, SetStatus, env
    <2>3. CompletedByOwnAnswers'
      <3>1. CompletedByOwnAnswers
        BY DEF OwnLine
      <3>2. \A c \in Commands : status'[c] = "completed" => status[c] = "completed"
        BY <2>1, <2>2 DEF LinkInv, TypeOK
      <3> QED
        BY <2>2, <3>1, <3>2, OwnAnswersStay
    <2> QED
      BY <2>2, <2>3, EndIsOwn
  <1> QED
    BY <1>1, <1>2, <1>3 DEF HandleTimeouts

LEMMA SendNextIsOwn ==
  ASSUME LinkInv, OwnLine, \A c \in Commands : Flow[c] # "Unacknowledged", SendNext
  PROVE  OwnLine'
  <1>1. state = "Idle" /\ cmdQueue # <<>> /\ UNCHANGED <<strays, answers>>
    BY DEF SendNext, MaySend
  <1>2. line = <<>>
    BY <1>1 DEF OwnLine
  <1> DEFINE c == Head(cmdQueue)
  <1>3. c \in Commands
    BY <1>1, HeadTailProperties DEF LinkInv, TypeOK
  <1>4. SendCommand(c, 0, <<>>)
    BY <1>2 DEF SendNext
  <1>5. status' = [status EXCEPT ![c] = "sent"]
    BY <1>3 DEF SendNext, SetStatus, Unacknowledged
  <1> HIDE DEF c
  <1>6. \A d \in Commands : status'[d] = "completed" => status[d] = "completed"
    BY <1>3, <1>5 DEF LinkInv, TypeOK
  <1> QED
    BY <1>1, <1>3, <1>4, <1>6, WrittenIsOwn

\* The ACK is the oldest of what the command is owed.
LEMMA HandleAckIsOwn ==
  ASSUME LinkInv, OwnLine, \A c \in Commands : Flow[c] # "Unacknowledged", HandleAck
  PROVE  OwnLine'
  <1> DEFINE R == Range(Expected(lastCmd))
             l == Tail(line)
  <1>1. TypeOK /\ state = "WaitingForAck" /\ lastCmd \in Commands /\ strays = 0
    BY DEF HandleAck, LinkInv, LastCmdConsistent, OwnLine
  <1>1a. line \in Seq(Item)
    BY <1>1 DEF TypeOK
  <1>2. Reads({"ACK"}, "good") /\ NoteAnswer /\ line' = l /\ UNCHANGED lastCmd
    BY DEF HandleAck
  <1>3. /\ line # <<>> /\ line \in Seq(Item) /\ l \in Seq(Item) /\ Head(line).kind = "ACK"
        /\ UNCHANGED strays
    BY <1>1, <1>2, <1>1a, ReadsType
  <1>4. Remaining(line, lastCmd, Refusals \cup R)
    BY <1>1 DEF OwnLine
  <1>5. /\ Head(line).cmd = lastCmd /\ Remaining(l, lastCmd, Refusals \cup R)
        /\ \A i \in DOMAIN l : Before("ACK", l[i].kind)
    BY <1>3, <1>4, RemainingTail
  <1>6. Remaining(l, lastCmd, R \ {"ACK"})
    BY <1>5 DEF Remaining, Before, Refusals
  <1>7. /\ \A c \in Commands : answers[c] \subseteq answers'[c]
        /\ "ACK" \in answers'[lastCmd]
    BY <1>1, <1>2, <1>3, <1>5, NoteAnswerGrows
  <1>8. R = IF Flow[lastCmd] = "AckWithResponse" THEN {"ACK", "RES"}
            ELSE IF Flow[lastCmd] = "AckWithCallback" THEN {"ACK", "CBK"}
            ELSE IF Flow[lastCmd] = "AckWithResponseCallback" THEN {"ACK", "RES", "CBK"}
            ELSE {"ACK"}
    BY <1>1, ExpectedKinds
  <1>9. CompletedByOwnAnswers
    BY DEF OwnLine
  <1> HIDE DEF R, l
  <1>10. CASE /\ Flow[lastCmd] \in {"AckOnly", "Unknown", "Unsolicited"}
              /\ state' = "Idle" /\ SetStatus(lastCmd, "completed")
    <2>1. R = {"ACK"}
      BY <1>8, <1>10
    <2>2. l = <<>>
      <3>1. R \ {"ACK"} = {}
        BY <2>1
      <3> QED
        BY <1>3, <1>6, <3>1, NothingRemains
    <2>3. \A c \in Commands : status'[c] = "completed" =>
            status[c] = "completed" \/ Range(Expected(c)) \subseteq answers'[c]
      BY <1>1, <1>7, <1>10, <2>1 DEF SetStatus, TypeOK, R
    <2>4. CompletedByOwnAnswers'
      BY <1>7, <1>9, <2>3, OwnAnswersStay
    <2> QED
      BY <1>2, <1>3, <1>10, <2>2, <2>4, EndIsOwn
  <1>11. CASE /\ \/ Flow[lastCmd] \in {"AckWithResponse", "AckWithResponseCallback"}
                    /\ state' = "WaitingForResponse"
                 \/ Flow[lastCmd] = "AckWithCallback" /\ state' = "WaitingForCallback"
              /\ SetStatus(lastCmd, "acked")
    <2>1. \A c \in Commands : status'[c] = "completed" => status[c] = "completed"
      BY <1>1, <1>11 DEF SetStatus, TypeOK
    <2>2. CompletedByOwnAnswers'
      BY <1>7, <1>9, <2>1, OwnAnswersStay
    <2>3. state' = "WaitingForResponse" =>
            /\ Flow[lastCmd'] \in {"AckWithResponse", "AckWithResponseCallback"}
            /\ "ACK" \in answers'[lastCmd']
            /\ Remaining(line', lastCmd', Range(Expected(lastCmd')) \ {"ACK"})
      BY <1>2, <1>6, <1>7, <1>11 DEF R
    <2>4. state' = "WaitingForCallback" =>
            /\ Flow[lastCmd'] = "AckWithCallback"
            /\ "ACK" \in answers'[lastCmd']
            /\ Remaining(line', lastCmd', {"CBK"})
      <3>1. ASSUME state' = "WaitingForCallback"
            PROVE  Flow[lastCmd] = "AckWithCallback" /\ R \ {"ACK"} = {"CBK"}
        BY <1>8, <1>11, <3>1
      <3> QED
        BY <1>2, <1>6, <1>7, <3>1
    <2> QED
      BY <1>1, <1>3, <1>11, <2>2, <2>3, <2>4 DEF OwnLine
  <1> QED
    BY <1>10, <1>11 DEF HandleAck, EndCommand, Await

\* A refusal is all there is on the line.
LEMMA HandleNakOrCanIsOwn ==
  ASSUME LinkInv, OwnLine, \A c \in Commands : Flow[c] # "Unacknowledged", HandleNakOrCan
  PROVE  OwnLine'
  <1> DEFINE l == Tail(line)
  <1>1. TypeOK /\ state = "WaitingForAck" /\ Reads({"NAK", "CAN"}, "good")
    BY DEF HandleNakOrCan, LinkInv
  <1>1a. line \in Seq(Item)
    BY <1>1 DEF TypeOK
  <1>2. /\ line # <<>> /\ line \in Seq(Item) /\ l \in Seq(Item)
        /\ Head(line).kind \in {"NAK", "CAN"} /\ UNCHANGED strays
    BY <1>1, <1>1a, ReadsType
  <1>3. Remaining(line, lastCmd, Refusals \cup Range(Expected(lastCmd)))
    BY <1>1 DEF OwnLine
  <1>4. /\ Remaining(l, lastCmd, Refusals \cup Range(Expected(lastCmd)))
        /\ \A i \in DOMAIN l : Before(Head(line).kind, l[i].kind)
    BY <1>2, <1>3, RemainingTail
  <1> HIDE DEF l
  <1>5. Remaining(l, lastCmd, {})
    BY <1>2, <1>4 DEF Remaining, Before
  <1>6. l = <<>>
    BY <1>2, <1>5, NothingRemains
  <1>7. UNCHANGED answers /\ (Retransmit(<<>>) \/ GiveUp(<<>>))
    BY <1>6 DEF HandleNakOrCan, l
  <1> QED
    BY <1>1, <1>2, <1>7, RewriteIsOwn

\* The frame that a wait takes for its own is its own.
LEMMA ProcessValidFrameIsOwn ==
  ASSUME LinkInv, OwnLine, \A c \in Commands : Flow[c] # "Unacknowledged", ProcessValidFrame
  PROVE  OwnLine'
  <1> DEFINE R == Range(Expected(lastCmd))
             l == Tail(line)
             k == Head(line).kind
  <1>1. TypeOK /\ strays = 0 /\ CompletedByOwnAnswers
    BY DEF LinkInv, OwnLine
  <1>1a. line \in Seq(Item)
    BY <1>1 DEF TypeOK
  <1>2. Reads(FrameKinds, "good") /\ NoteAnswer /\ line' = l /\ UNCHANGED lastCmd
    BY DEF ProcessValidFrame
  <1>3. /\ line # <<>> /\ line \in Seq(Item) /\ l \in Seq(Item) /\ k \in FrameKinds
        /\ UNCHANGED strays
    BY <1>1, <1>2, <1>1a, ReadsType
  <1>4. /\ \A c \in Commands : answers[c] \subseteq answers'[c]
        /\ \A c \in Commands : Head(line).cmd = c => k \in answers'[c]
    BY <1>1, <1>2, <1>3, NoteAnswerGrows
  <1>5. \A c, K : Remaining(line, c, K) =>
          /\ Head(line).cmd = c /\ k \in K /\ Remaining(l, c, K)
          /\ \A i \in DOMAIN l : Before(k, l[i].kind)
    BY <1>3, RemainingTail
  <1>6. state # "Idle" => lastCmd \in Commands
    BY DEF LinkInv, LastCmdConsistent
  <1> HIDE DEF l, k, R
  <1>7. CASE UNCHANGED <<state, status>>
    BY <1>2, <1>3, <1>4, <1>5, <1>7, ShorterLineIsOwn
  <1>8. CASE /\ \/ state = "WaitingForCallback"
                \/ state = "WaitingForResponse" /\ Flow[lastCmd] = "AckWithResponse"
             /\ state' = "Idle" /\ SetStatus(lastCmd, "completed")
    <2>1. R = IF Flow[lastCmd] = "AckWithResponse" THEN {"ACK", "RES"}
              ELSE IF Flow[lastCmd] = "AckWithCallback" THEN {"ACK", "CBK"}
              ELSE IF Flow[lastCmd] = "AckWithResponseCallback" THEN {"ACK", "RES", "CBK"}
              ELSE {"ACK"}
      BY <1>6, <1>8, ExpectedKinds DEF R
    <2>2. PICK m \in {"RES", "CBK"} :
            /\ Remaining(line, lastCmd, {m})
            /\ R \subseteq answers[lastCmd] \cup {m}
      <3>1. CASE state = "WaitingForCallback"
        <4>1. /\ Remaining(line, lastCmd, {"CBK"}) /\ "ACK" \in answers[lastCmd]
              /\ Flow[lastCmd] \in {"AckWithCallback", "AckWithResponseCallback"}
              /\ Flow[lastCmd] = "AckWithResponseCallback" => "RES" \in answers[lastCmd]
          BY <1>3, <3>1 DEF OwnLine
        <4> QED
          BY <2>1, <4>1
      <3>2. CASE state = "WaitingForResponse" /\ Flow[lastCmd] = "AckWithResponse"
        <4>1. Remaining(line, lastCmd, R \ {"ACK"}) /\ "ACK" \in answers[lastCmd]
          BY <3>2 DEF OwnLine, R
        <4>2. R = {"ACK", "RES"} /\ R \ {"ACK"} = {"RES"}
          BY <2>1, <3>2
        <4> QED
          BY <4>1, <4>2
      <3> QED
        BY <1>8, <3>1, <3>2
    <2>3. k = m /\ m \in answers'[lastCmd]
      BY <1>4, <1>5, <1>6, <1>8, <2>2
    <2>4. l = <<>>
      <3>1. Remaining(l, lastCmd, {m}) /\ \A i \in DOMAIN l : Before(m, l[i].kind)
        BY <1>5, <2>2, <2>3
      <3>2. Remaining(l, lastCmd, {})
        BY <2>2, <3>1 DEF Remaining, Before
      <3> QED
        BY <1>3, <3>2, NothingRemains
    <2>5. \A c \in Commands : status'[c] = "completed" =>
            status[c] = "completed" \/ Range(Expected(c)) \subseteq answers'[c]
      <3>1. R \subseteq answers'[lastCmd]
        BY <1>4, <1>6, <1>8, <2>2, <2>3
      <3> QED
        BY <1>1, <1>6, <1>8, <3>1 DEF SetStatus, TypeOK, R
    <2>6. CompletedByOwnAnswers'
      BY <1>1, <1>4, <2>5, OwnAnswersStay
    <2> QED
      BY <1>2, <1>3, <1>8, <2>4, <2>6, EndIsOwn
  <1>9. CASE /\ state = "WaitingForResponse"
             /\ Flow[lastCmd] = "AckWithResponseCallback"
             /\ state' = "WaitingForCallback" /\ UNCHANGED status
    <2>1. Remaining(line, lastCmd, R \ {"ACK"}) /\ "ACK" \in answers[lastCmd]
      BY <1>9 DEF OwnLine, R
    <2>2. R = {"ACK", "RES", "CBK"}
      BY <1>6, <1>9, ExpectedKinds DEF R
    <2>3. /\ k \in {"RES", "CBK"} /\ k \in answers'[lastCmd]
          /\ Remaining(l, lastCmd, R \ {"ACK"})
          /\ \A i \in DOMAIN l : Before(k, l[i].kind)
      BY <1>4, <1>5, <1>6, <1>9, <2>1, <2>2
    <2>4. Remaining(l, lastCmd, {"CBK"})
      BY <2>2, <2>3 DEF Remaining, Before
    <2>5. l # <<>> => k = "RES"
      <3>1. CASE k = "CBK"
        <4>1. Remaining(l, lastCmd, {})
          BY <2>3, <3>1 DEF Remaining, Before
        <4> QED
          BY <1>3, <4>1, NothingRemains
      <3> QED
        BY <2>3, <3>1
    <2>6. "ACK" \in answers'[lastCmd]
      BY <1>4, <1>6, <1>9, <2>1
    <2>7. CompletedByOwnAnswers'
      BY <1>1, <1>4, <1>9, OwnAnswersStay
    <2>8. /\ strays' = 0 /\ state' = "WaitingForCallback"
          /\ Flow[lastCmd'] \in {"AckWithCallback", "AckWithResponseCallback"}
          /\ "ACK" \in answers'[lastCmd'] /\ Remaining(line', lastCmd', {"CBK"})
          /\ line' # <<>> /\ Flow[lastCmd'] = "AckWithResponseCallback"
               => "RES" \in answers'[lastCmd']
      BY <1>1, <1>2, <1>3, <1>9, <2>3, <2>4, <2>5, <2>6
    <2> QED
      BY <2>7, <2>8 DEF OwnLine
  <1> QED
    BY <1>7, <1>8, <1>9 DEF ProcessValidFrame, EndCommand, Await

\* The items that are read without an effect on the command under way.
LEMMA DiscardIsOwn ==
  ASSUME LinkInv, OwnLine, \A c \in Commands : Flow[c] # "Unacknowledged",
         UnexpectedAck \/ UnexpectedNakOrCan \/ UnexpectedByte \/ ReadBadFrame \/ ReadCutFrame
  PROVE  OwnLine'
  <1>1. TypeOK
    BY DEF LinkInv
  <1>2. line \in Seq(Item)
    BY <1>1 DEF TypeOK
  <1>3. PICK kinds, form : Reads(kinds, form)
    BY DEF UnexpectedAck, UnexpectedNakOrCan, UnexpectedByte, ReadBadFrame, ReadCutFrame
  <1>4. line # <<>> /\ Tail(line) \in Seq(Item) /\ UNCHANGED strays
    BY <1>1, <1>3, ReadsType
  <1>5. UNCHANGED <<state, lastCmd, status>>
    BY DEF UnexpectedAck, UnexpectedNakOrCan, UnexpectedByte, ReadBadFrame, ReadCutFrame,
           BadChecksum, worker, history
  <1>6. \A c \in Commands : answers[c] \subseteq answers'[c]
    <2>1. CASE NoteAnswer
      BY <1>1, <1>4, <2>1, NoteAnswerGrows
    <2>2. CASE UNCHANGED answers
      BY <2>2
    <2> QED
      BY <2>1, <2>2 DEF UnexpectedAck, UnexpectedNakOrCan, UnexpectedByte, ReadBadFrame,
                        ReadCutFrame, BadChecksum, history
  <1>7. \A c, K : Remaining(line, c, K) => Remaining(line', c, K)
    <2>1. SUFFICES ASSUME NEW c, NEW K, Remaining(line, c, K) PROVE Remaining(line', c, K)
      OBVIOUS
    <2>2. Remaining(Tail(line), c, K)
      BY <1>2, <1>4, <2>1, RemainingTail
    <2>3. CASE line' = Tail(line)
      BY <2>2, <2>3
    <2>4. CASE Len(line) > 1 /\ line' = Tail(Tail(line))
      <3>1. Tail(line) # <<>>
        <4> DEFINE t == Tail(line)
                   m == Len(t)
                   n == Len(line)
        <4>1. m = n - 1 /\ n \in Nat /\ n > 1
          BY <1>2, <1>4, <2>4, HeadTailProperties
        <4>2. t = <<>> => m = 0
          BY EmptySeq
        <4>3. m # 0
          <5> HIDE DEF m, n
          <5> QED
            BY <4>1
        <4> QED
          BY <4>2, <4>3
      <3> QED
        BY <1>4, <2>2, <2>4, <3>1, RemainingTail
    <2> QED
      BY <2>3, <2>4 DEF UnexpectedAck, UnexpectedNakOrCan, UnexpectedByte, ReadBadFrame,
                        ReadCutFrame, BadChecksum
  <1> QED
    BY <1>4, <1>5, <1>6, <1>7, ShorterLineIsOwn

\* What the line loses or damages; there is nothing left to be sent astray.
LEMMA LineIsOwn ==
  ASSUME LinkInv, OwnLine, Line
  PROVE  OwnLine'
  <1>1. line \in Seq(Item) /\ strays = 0
    BY DEF LinkInv, TypeOK, OwnLine
  <1>2. PICK i \in DOMAIN line : LoseItem(i) \/ DamageItem(i)
    BY <1>1 DEF Line, RepeatFrame, UnsolicitedFrame
  <1>3. UNCHANGED <<state, lastCmd, strays, status, answers>>
    BY <1>2 DEF LoseItem, DamageItem, worker, history
  <1>4. line # <<>>
    BY <1>2
  <1>5. \A c, K : Remaining(line, c, K) => Remaining(line', c, K)
    <2>1. SUFFICES ASSUME NEW c, NEW K, Remaining(line, c, K) PROVE Remaining(line', c, K)
      OBVIOUS
    <2>2. CASE LoseItem(i)
      BY <1>1, <1>2, <2>1, <2>2, RemainingWithout DEF LoseItem
    <2>3. CASE DamageItem(i)
      <3>1. PICK f : line' = [line EXCEPT ![i].form = f]
        BY <2>3 DEF DamageItem
      <3> QED
        BY <1>1, <1>2, <2>1, <3>1, RemainingDamaged
    <2> QED
      BY <1>2, <2>2, <2>3
  <1> QED
    BY <1>3, <1>4, <1>5, ShorterLineIsOwn

LEMMA StepIsOwn ==
  ASSUME LinkInv, OwnLine, \A c \in Commands : Flow[c] # "Unacknowledged",
         deadlinePassed => line = <<>>, [Next]_vars
  PROVE  OwnLine'
  <1>1. CASE HandleTimeouts
    BY <1>1, HandleTimeoutsIsOwn
  <1>2. CASE SendNext
    BY <1>2, SendNextIsOwn
  <1>3. CASE HandleAck
    BY <1>3, HandleAckIsOwn
  <1>4. CASE HandleNakOrCan
    BY <1>4, HandleNakOrCanIsOwn
  <1>5. CASE HandleNakOrCanUnacknowledged
    BY <1>5 DEF HandleNakOrCanUnacknowledged, Unacknowledged, LinkInv, TypeOK
  <1>6. CASE UnexpectedAck \/ UnexpectedNakOrCan \/ UnexpectedByte \/ ReadBadFrame \/ ReadCutFrame
    BY <1>6, DiscardIsOwn
  <1>7. CASE ProcessValidFrame
    BY <1>7, ProcessValidFrameIsOwn
  <1>8. CASE \E c \in Commands : Enqueue(c)
    <2>1. PICK c \in Commands : Enqueue(c)
      BY <1>8
    <2>2. /\ UNCHANGED <<state, lastCmd, line, strays, answers>>
          /\ status' = [status EXCEPT ![c] = "queued"]
      BY <2>1 DEF Enqueue, SetStatus, worker, env
    <2>3. \A d \in Commands : status'[d] = "completed" => status[d] = "completed"
      BY <2>2 DEF LinkInv, TypeOK
    <2>4. CompletedByOwnAnswers'
      <3>1. CompletedByOwnAnswers
        BY DEF OwnLine
      <3> QED
        BY <2>2, <2>3, <3>1, OwnAnswersStay
    <2> QED
      BY <2>2, <2>4 DEF OwnLine
  <1>9. CASE \/ SkipSend \/ ReadNothing \/ Exit \/ Stop \/ DeadlinePasses \/ CoolDownEnds
             \/ UNCHANGED vars
    <2>1. UNCHANGED <<state, lastCmd, line, strays, answers, status>>
      BY <1>9 DEF SkipSend, ReadNothing, Exit, Stop, DeadlinePasses, CoolDownEnds, vars,
                  worker, env, history
    <2> QED
      BY <2>1, ShorterLineIsOwn
  <1>10. CASE Line
    BY <1>10, LineIsOwn
  <1> QED
    BY <1>1, <1>2, <1>3, <1>4, <1>5, <1>6, <1>7, <1>8, <1>9, <1>10 DEF Next, Run, ReadByte

LEMMA InitIsOwn ==
  ASSUME MaxStrays = 0, Init
  PROVE  OwnLine
  <1>1. CompletedByOwnAnswers
    BY DEF Init, CompletedByOwnAnswers
  <1> QED
    BY <1>1 DEF Init, OwnLine

\* A command that ends well ends by its own response and its own callback, for
\* all commands and flows, retry counts and numbers of losses, as long as the
\* chip repeats and volunteers nothing, is asked for an answer by every command
\* and answers before the wait for it ends (ProcessValidFrame compares nothing).
THEOREM TimelyAnswers ==
  ASSUME MaxStrays = 0, \A c \in Commands : Flow[c] # "Unacknowledged"
  PROVE  Spec => TimelyAnswersAreOwn
  <1>1. Init => OwnLine
    BY InitIsOwn
  <1>2. LinkInv /\ OwnLine /\ (deadlinePassed => line = <<>>) /\ [Next]_vars => OwnLine'
    BY StepIsOwn
  <1>3. OwnLine => CompletedByOwnAnswers
    BY DEF OwnLine
  <1> QED
    BY <1>1, <1>2, <1>3, LinkInvariant, PTL DEF Spec, TimelyAnswersAreOwn

\* A timely chip's answers are read before the wait for them ends.
LEMMA DeadlineAwaitsLine ==
  ASSUME Timely, LinkInv, strays = 0, \A c \in Commands : Flow[c] # "Unacknowledged",
         deadlinePassed => line = <<>>, [Next]_vars
  PROVE  (deadlinePassed => line = <<>>)'
  <1>1. SUFFICES ASSUME deadlinePassed' PROVE line' = <<>>
    OBVIOUS
  <1>2. ASSUME NEW c \in Commands, NEW tries, NEW l, SendCommand(c, tries, l)
        PROVE  FALSE
    BY <1>1, <1>2 DEF SendCommand, Unacknowledged, Await
  <1>3. CASE HandleTimeouts
    <2>1. CASE NoTimeout \/ AnswerTimeout
      BY <1>1, <2>1 DEF NoTimeout, AnswerTimeout, worker, env
    <2>2. CASE AckTimeout
      <3>1. lastCmd \in Commands /\ line = <<>>
        BY <2>2 DEF AckTimeout, LinkInv, LastCmdConsistent
      <3> QED
        BY <1>2, <2>2, <3>1 DEF AckTimeout, Retransmit, GiveUp
    <2> QED
      BY <1>3, <2>1, <2>2 DEF HandleTimeouts
  <1>4. CASE SendNext
    <2>1. Head(cmdQueue) \in Commands
      BY <1>4, HeadTailProperties DEF SendNext, MaySend, LinkInv, TypeOK
    <2> QED
      BY <1>2, <1>4, <2>1 DEF SendNext
  <1>5. CASE ReadByte
    <2>1. CASE ReadNothing
      BY <1>1, <2>1 DEF ReadNothing, worker, env
    <2>2. ASSUME NEW kinds, NEW form, Reads(kinds, form)
          PROVE  ~deadlinePassed
      BY <2>2 DEF Reads
    <2>3. CASE HandleAck \/ UnexpectedAck \/ UnexpectedNakOrCan \/ UnexpectedByte
               \/ ProcessValidFrame \/ ReadBadFrame \/ ReadCutFrame
      <3>1. ~deadlinePassed
        BY <2>2, <2>3 DEF HandleAck, UnexpectedAck, UnexpectedNakOrCan, UnexpectedByte,
                          ProcessValidFrame, ReadBadFrame, ReadCutFrame
      <3>2. deadlinePassed' \in {deadlinePassed, FALSE}
        BY <2>3 DEF HandleAck, UnexpectedAck, UnexpectedNakOrCan, UnexpectedByte,
                    ProcessValidFrame, ReadBadFrame, ReadCutFrame, BadChecksum, Await, worker
      <3> QED
        BY <1>1, <3>1, <3>2
    <2>4. CASE HandleNakOrCan \/ HandleNakOrCanUnacknowledged
      <3>1. ~deadlinePassed
        BY <2>2, <2>4 DEF HandleNakOrCan, HandleNakOrCanUnacknowledged
      <3>2. ~Unacknowledged(lastCmd)
        BY DEF Unacknowledged, LinkInv, TypeOK
      <3>3. HandleNakOrCan /\ lastCmd \in Commands
        BY <2>4, <3>2 DEF HandleNakOrCan, HandleNakOrCanUnacknowledged, LinkInv,
                          LastCmdConsistent
      <3> QED
        BY <1>1, <1>2, <3>1, <3>3 DEF HandleNakOrCan, Retransmit, GiveUp
    <2> QED
      BY <1>5, <2>1, <2>3, <2>4 DEF ReadByte
  <1>6. CASE SkipSend \/ Exit \/ Stop \/ CoolDownEnds \/ UNCHANGED vars
    BY <1>1, <1>6 DEF SkipSend, Exit, Stop, CoolDownEnds, vars, worker, env
  <1>7. CASE \E c \in Commands : Enqueue(c)
    BY <1>1, <1>7 DEF Enqueue, worker, env
  <1>8. CASE DeadlinePasses
    BY <1>8 DEF DeadlinePasses, env
  <1>9. CASE Line
    <2>1. PICK i \in DOMAIN line : LoseItem(i) \/ DamageItem(i)
      BY <1>9 DEF Line, RepeatFrame, UnsolicitedFrame
    <2>2. line # <<>> /\ UNCHANGED deadlinePassed
      BY <2>1 DEF LoseItem, DamageItem, worker
    <2> QED
      BY <1>1, <2>2
  <1> QED
    BY <1>3, <1>4, <1>5, <1>6, <1>7, <1>8, <1>9 DEF Next, Run

\* So with such a chip no command ever ends well by the answer of another,
\* however many answers are lost or damaged on their way.  The run
\* SerialLink_stray shows that a single repeated frame is enough to break it.
THEOREM OwnAnswers ==
  ASSUME Timely, MaxStrays = 0, \A c \in Commands : Flow[c] # "Unacknowledged"
  PROVE  Spec => []CompletedByOwnAnswers
  <1> DEFINE J == OwnLine /\ (deadlinePassed => line = <<>>)
  <1>1. Init => J
    BY InitIsOwn DEF Init
  <1>2. LinkInv /\ J /\ [Next]_vars => J'
    <2>1. SUFFICES ASSUME LinkInv, J, [Next]_vars PROVE J'
      OBVIOUS
    <2>2. strays = 0
      BY <2>1 DEF OwnLine
    <2>3. (deadlinePassed => line = <<>>)'
      BY <2>1, <2>2, DeadlineAwaitsLine
    <2> QED
      BY <2>1, <2>3, StepIsOwn
  <1>3. J => CompletedByOwnAnswers
    BY DEF OwnLine
  <1> QED
    BY <1>1, <1>2, <1>3, LinkInvariant, PTL DEF Spec

=============================================================================
