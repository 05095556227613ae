------------------------------ MODULE Reports ------------------------------
(***************************************************************************)
(* What a node tells the program, and the other way round, byte by byte:   *)
(* the frames the jobs of a node make (Node.cpp, MakeFrame in Device.cpp,  *)
(* APIFrame.h), the frames that come back (APIFrame.h, CCDispatcher.cpp,   *)
(* HandleCCDeviceReport in Node.h) and the handlers that read them         *)
(* (HandleReport in Device.cpp).  The order of the jobs is in NodeJobs;    *)
(* here a job is one frame, and none is sent while an interview waits.     *)
(*                                                                         *)
(* A byte is a number.  A frame may be damaged on the serial line behind   *)
(* its length; a damaged length is a frame cut short, as in SerialLink.    *)
(***************************************************************************)
EXTENDS Integers, Sequences, FiniteSets, SequencesExt

CONSTANTS
  None,          \* a model value: nothing
  NodeId,        \* the node
  Classes,       \* the command classes of its NIF
  ParamBytes,    \* of each configuration parameter the value it has, in bytes
  Forgetful,     \* the parameters that the node reports rightly once
  FirstBound,    \* of each association group the destinations bound to it
  MaxNodes,      \* the destinations a group can hold
  Targets,       \* other nodes
  Endpoints,     \* endpoints, of the targets and of the node itself
  UserValues,    \* what the user configures
  DamagedBytes,  \* the bytes of a frame a fault on the line can change
  Masks,         \* the bits of a byte it turns over
  MaxOps,        \* bound: things the user and the node do
  MaxFaults      \* bound: frames damaged

Params == DOMAIN ParamBytes
Groups == DOMAIN FirstBound
Byte   == 0 .. 255
Tables == {"param"} \X Params \cup {"assoc", "mcAssoc"} \X Groups

\* The node keeps no more destinations than a group can hold, and a list of them
\* fits a frame (lists in several reports are in NodeJobs).  None is none of the
\* values it stands for the absence of.
ASSUME ReportsAssumption ==
  /\ NodeId \in 2 .. 232
  /\ Params \subseteq 0 .. 254
  /\ ParamBytes \in [Params -> Seq(Byte)]
  /\ \A p \in Params : Len(ParamBytes[p]) \in {1, 2, 4}
  /\ Forgetful \subseteq {p \in Params : Len(ParamBytes[p]) = 1}
  /\ Groups \subseteq 1 .. 255 /\ MaxNodes \in 1 .. 121
  /\ Targets \subseteq 1 .. 232 /\ Endpoints \subseteq 1 .. 127
  /\ FirstBound \in [Groups -> SUBSET (Targets \X (Endpoints \cup {0}))]
  /\ \A g \in Groups : Cardinality(FirstBound[g]) <= MaxNodes
  /\ UserValues \subseteq Nat
  /\ DamagedBytes \subseteq 3 .. 256 /\ Masks \subseteq Byte \ {0}
  /\ MaxOps \in Byte /\ MaxFaults \in Nat
  /\ None \notin Tables \cup [ep : Byte, value : Byte] \cup Seq(Byte)
  /\ None \notin [func : Byte, payload : Seq(Byte)]
  /\ None \notin [ep : Byte, cc : Byte, id : Byte, params : Seq(Byte)]

\* eCommandClass.
BASIC             == 32
SWITCH_BINARY     == 37
SWITCH_MULTILEVEL == 38
SENSOR_BINARY     == 48
METER             == 50
MULTI_CHANNEL     == 96
CONFIGURATION     == 112
PROTECTION        == 117
BATTERY           == 128
WAKE_UP           == 132
ASSOCIATION       == 133
MULTI_CHANNEL_ASSOCIATION == 142

\* The classes of whose reports one value is kept.
ValueClasses ==
  {BASIC, SWITCH_BINARY, SWITCH_MULTILEVEL, SENSOR_BINARY, METER, PROTECTION, BATTERY}

VARIABLES
  config,      \* configurationInfo: of each parameter valid and value
  assoc,       \* associationGroups: of each group hasLastReport and members
  mcAssoc,     \* multiChannelAssociationGroups: the same
  values,      \* batteryLevel, basicValue, ..., <<>> as long as there is none
  awaiting,    \* the table an interview waits for, or None
  outbox,      \* frames handed to the transport
  air,         \* frames from the chip: the bytes on the line, the payload meant
  param,       \* the node's parameters, in bytes
  told,        \* how often it has reported each since it was last set
  bound,       \* the destinations bound to its groups; endpoint 0 is the node
  asked,       \* what the node should hear to its last BASIC_GET, or None
  heard,       \* what it heard, or None
  ops, faults, \* what is left of the bounds
  reported,    \* history: what the node last reported of each value class
  wanted,      \* history: param and bound as the user would have them
  gets,        \* history: how often each parameter was asked for since it was configured
  fresh        \* history: tables read since the user last changed what they hold

program == <<config, assoc, mcAssoc, values, awaiting>>
node    == <<param, told, bound, asked, heard>>
history == <<reported, wanted, gets, fresh>>
vars    == <<program, outbox, air, node, ops, faults, history>>

-----------------------------------------------------------------------------
(* Frames (APIFrame.h).                                                    *)

\* Exclusive or: of four bits in a table, of a byte by its halves.
HalfXor == [a \in 0 .. 15 |-> [b \in 0 .. 15 |->
              8 * ((a \div 8 + b \div 8) % 2) + 4 * ((a \div 4 + b \div 4) % 2)
                + 2 * ((a \div 2 + b \div 2) % 2) + ((a + b) % 2)]]

XorByte(a, b) == 16 * HalfXor[a \div 16][b \div 16] + HalfXor[a % 16][b % 16]

Checksum(bytes) ==
  LET sum[i \in 0 .. Len(bytes)] == IF i = 0 THEN 255 ELSE XorByte(sum[i - 1], bytes[i])
  IN sum[Len(bytes)]

\* type is 0, a request; func is the command id.
Encode_Frame(func, payload) ==
  LET body == <<(3 + Len(payload)) % 256, 0, func>> \o payload
  IN <<1>> \o body \o <<Checksum(body)>>

Framed(frame) == Len(frame) >= 5 /\ frame[1] = 1 /\ Len(frame) = frame[2] + 2

\* Mutant of Decode_Frame: the checksum is not looked at.
Decode_FrameUnchecked(frame) ==
  IF Framed(frame)
  THEN [func |-> frame[4], payload |-> SubSeq(frame, 5, Len(frame) - 1)]
  ELSE None

\* The result is None where Run or Decode_Frame finds the frame invalid.
Decode_Frame(frame) ==
  IF Framed(frame) /\ Checksum(Tail(frame)) = 0
  THEN [func |-> frame[4], payload |-> SubSeq(frame, 5, Len(frame) - 1)]
  ELSE None

SEND_DATA == 19
APPLICATION_COMMAND_HANDLER == 4

MakeSendData(cmd, callbackId) ==
  Encode_Frame(SEND_DATA, <<NodeId, Len(cmd)>> \o cmd \o <<callbackId, 5>>)

\* A frame as the chip sends it.
FrameWith(payload) ==
  [bytes |-> Encode_Frame(APPLICATION_COMMAND_HANDLER, payload), payload |-> payload]

\* The command in a frame of the outbox, as the node gets it.
Command(frame) == SubSeq(frame, 7, 6 + frame[6])

\* payload[0] is rxStatus, payload[1] the node; behind the command is the RSSI.
\* The result is None where HandleCCFrame finds the payload too short.
CommandOf(payload) ==
  IF /\ Len(payload) >= 5
     /\ payload[2] = NodeId
     /\ payload[3] >= 2
     /\ Len(payload) >= 3 + payload[3]
  THEN SubSeq(payload, 4, 3 + payload[3])
  ELSE None

\* HandleCCFrame: what is handed to the node, of the classes modelled here.
Dispatched ==
  {<<c, 3>> : c \in ValueClasses \ {METER}} \cup
  {<<METER, 2>>, <<BASIC, 1>>, <<BASIC, 2>>, <<MULTI_CHANNEL, 6>>,
   <<CONFIGURATION, 6>>, <<ASSOCIATION, 3>>, <<MULTI_CHANNEL_ASSOCIATION, 3>>}

Parsed(ep, cmd) ==
  [ep |-> ep, cc |-> cmd[1], id |-> cmd[2], params |-> SubSeq(cmd, 3, Len(cmd))]

Encapsulated(cmd) == cmd[1] = MULTI_CHANNEL /\ cmd[2] = 6 /\ Len(cmd) >= 5

\* Mutant of Unwrap: the endpoint is forgotten.
UnwrapForNode(cmd) ==
  Parsed(0, IF Encapsulated(cmd) THEN SubSeq(cmd, 4, Len(cmd)) ELSE cmd)

\* HandleCCDeviceReport: MULTI_CHANNEL_CMD_ENCAP, endpoint, class, command, ...
Unwrap(cmd) ==
  IF Encapsulated(cmd) THEN Parsed(cmd[3], SubSeq(cmd, 4, Len(cmd))) ELSE Parsed(0, cmd)

\* The report in the bytes of a frame, None if it is not handed to a handler.
ReportIn(bytes) ==
  LET frame == Decode_Frame(bytes)
      cmd   == IF frame = None THEN None ELSE CommandOf(frame.payload)
  IN IF cmd # None /\ <<cmd[1], cmd[2]>> \in Dispatched /\ Unwrap(cmd).cc \in Classes
     THEN Unwrap(cmd)
     ELSE None

-----------------------------------------------------------------------------
(* Numbers and lists of destinations.                                      *)

\* (value << 8) | b of an int32_t.
ShiftIn(v, b) == (((v + 8388608) % 16777216) - 8388608) * 256 + b

\* Mutant of SignExtend: the value stays unsigned.
SignExtendNot(v, size) == v

\* (value << shift) >> shift with shift = (4 - size) * 8, for the sizes 1, 2 and
\* 4 that a parameter can have.
SignExtend(v, size) ==
  CASE size = 1 -> ((v + 128) % 256) - 128
    [] size = 2 -> ((v + 32768) % 65536) - 32768
    [] OTHER    -> v

ReadValue(bytes, size) ==
  LET v[i \in 0 .. Len(bytes)] == IF i = 0 THEN 0 ELSE ShiftIn(v[i - 1], bytes[i])
  IN SignExtend(v[Len(bytes)], size)

\* What bytes, signed and big-endian, mean to the node.
Signed(bytes) ==
  LET top == IF bytes[1] >= 128 THEN bytes[1] - 256 ELSE bytes[1]
      v[i \in 1 .. Len(bytes)] == IF i = 1 THEN top ELSE v[i - 1] * 256 + bytes[i]
  IN v[Len(bytes)]

MinOf(a, b) == IF a < b THEN a ELSE b

\* Mutant of PlainCount: the loop over the node ids goes on behind the marker.
PlainCountPastMarker(max, list) == MinOf(max, Len(list))

\* Node ids stand before the marker, and no more than max of them.
PlainCount(max, list) ==
  Min({MinOf(max, Len(list))} \cup {i - 1 : i \in {k \in 1 .. Len(list) : list[k] = 0}})

\* Mutant of FirstPair: the marker is taken for a node id.
FirstPairAtMarker(max, list) == PlainCount(max, list) + 1

\* The marker is skipped where the loop over the node ids stops at it.
FirstPair(max, list) ==
  PlainCount(max, list)
    + IF PlainCount(max, list) < MinOf(max, Len(list)) THEN 2 ELSE 1

\* The entries of a report: node ids, then pairs of node id and endpoint.
Entries(max, list) ==
  LET pairs == SubSeq(list, FirstPair(max, list), Len(list))
  IN [i \in 1 .. PlainCount(max, list) |-> <<list[i], 0>>]
       \o [i \in 1 .. Len(pairs) \div 2 |-> <<pairs[2 * i - 1], pairs[2 * i]>>]

\* members[nodeId] = ...: there is one place for a node, the last entry stays.
Put(members, entries) ==
  {m \in members : \A e \in ToSet(entries) : e[1] # m[1]}
    \cup {entries[i] : i \in {k \in DOMAIN entries :
                             \A j \in DOMAIN entries : j > k => entries[j][1] # entries[k][1]}}

\* A sequence of pairs, one element after the other.
Flat(pairs) ==
  [i \in 1 .. 2 * Len(pairs) |->
     IF i % 2 = 1 THEN pairs[(i + 1) \div 2][1] ELSE pairs[i \div 2][2]]

\* The list as the node writes it; the marker only before an endpoint.
ListOf(dests) ==
  LET plain == SetToSeq({d[1] : d \in {e \in dests : e[2] = 0}})
      multi == SetToSeq({e \in dests : e[2] # 0})
  IN plain \o IF multi = <<>> THEN <<>> ELSE <<0>> \o Flat(multi)

-----------------------------------------------------------------------------
(* Jobs of the user.  None starts while an interview waits.                *)

\* EnqueueJob: a job of a class the node does not have is dropped (SupportsJob).
Job(cc) ==
  /\ cc \in Classes
  /\ awaiting = None
  /\ ops > 0
  /\ ops' = ops - 1

Send(frame) == outbox' = Append(outbox, frame)

\* Tables are changed, or about to be read again.
Stale(tables) == fresh' = fresh \ tables

\* Z_Wave.h Configure and ExecuteConfigurationCommandJob: whatever the value,
\* eConfigSize::OneByte.  A wider parameter does not take it.
Configure(p, v) ==
  /\ Job(CONFIGURATION)
  /\ Send(MakeSendData(<<CONFIGURATION, 4, p, 1, v % 256>>, 5))
  /\ wanted' = IF Len(ParamBytes[p]) = 1
               THEN [wanted EXCEPT !.param[p] = Signed(<<v % 256>>)]
               ELSE wanted
  /\ gets' = [gets EXCEPT ![p] = 0]
  /\ Stale({<<"param", p>>})
  /\ UNCHANGED <<program, air, node, faults, reported>>

Destinations == Targets \X (Endpoints \cup {0})

Bound(dests, d) == IF Cardinality(dests \cup {d}) <= MaxNodes THEN dests \cup {d} ELSE dests

\* The class a binding goes through.
ClassOf(d) == IF d[2] = 0 THEN ASSOCIATION ELSE MULTI_CHANNEL_ASSOCIATION

\* ASSOCIATION_SET, or MULTI_CHANNEL_ASSOCIATION_SET with the marker.
SetFrame(id, g, d) ==
  IF d[2] = 0
  THEN MakeSendData(<<ASSOCIATION, id, g, d[1]>>, 5)
  ELSE MakeSendData(<<MULTI_CHANNEL_ASSOCIATION, id, g, 0, d[1], d[2]>>, 6)

\* Bind and MCBind, ExecuteBindCommandJob and ExecuteMultiChannelBindCommandJob.
Bind(g, d) ==
  /\ Job(ClassOf(d))
  /\ Send(SetFrame(1, g, d))
  /\ wanted' = [wanted EXCEPT !.bound[g] = Bound(@, d)]
  /\ Stale({<<"assoc", g>>, <<"mcAssoc", g>>})
  /\ UNCHANGED <<program, air, node, faults, reported, gets>>

\* Unbind and MCUnbind.
Unbind(g, d) ==
  /\ Job(ClassOf(d))
  /\ Send(SetFrame(4, g, d))
  /\ wanted' = [wanted EXCEPT !.bound[g] = @ \ {d}]
  /\ Stale({<<"assoc", g>>, <<"mcAssoc", g>>})
  /\ UNCHANGED <<program, air, node, faults, reported, gets>>

RequestBattery ==
  /\ Job(BATTERY)
  /\ Send(MakeSendData(<<BATTERY, 2>>, 3))
  /\ UNCHANGED <<program, air, node, faults, history>>

\* One turn of the loop of ExecuteConfigurationInterviewJob.
ConfigurationGet(p) ==
  /\ Job(CONFIGURATION)
  /\ config' = [config EXCEPT ![p] = [valid |-> FALSE, value |-> 0]]
  /\ awaiting' = <<"param", p>>
  /\ Send(MakeSendData(<<CONFIGURATION, 5, p>>, 3))
  /\ gets' = [gets EXCEPT ![p] = @ + 1]
  /\ Stale({<<"param", p>>})
  /\ UNCHANGED <<assoc, mcAssoc, values, air, node, faults, reported, wanted>>

\* One turn of the loop of ExecuteAssociationInterviewJob.
AssociationGet(g) ==
  /\ Job(ASSOCIATION)
  /\ assoc' = [assoc EXCEPT ![g].hasLastReport = FALSE]
  /\ awaiting' = <<"assoc", g>>
  /\ Send(MakeSendData(<<ASSOCIATION, 2, g>>, 5))
  /\ Stale({<<"assoc", g>>})
  /\ UNCHANGED <<config, mcAssoc, values, air, node, faults, reported, wanted, gets>>

\* One turn of the loop of ExecuteMultiChannelAssociationInterviewJob.
MultiChannelAssociationGet(g) ==
  /\ Job(MULTI_CHANNEL_ASSOCIATION)
  /\ mcAssoc' = [mcAssoc EXCEPT ![g].hasLastReport = FALSE]
  /\ awaiting' = <<"mcAssoc", g>>
  /\ Send(MakeSendData(<<MULTI_CHANNEL_ASSOCIATION, 2, g>>, 6))
  /\ Stale({<<"mcAssoc", g>>})
  /\ UNCHANGED <<config, assoc, values, air, node, faults, reported, wanted, gets>>

-----------------------------------------------------------------------------
(* The interface thread: the frame at the head of air.                     *)

\* What the frame at the head brings to a handler.
Received == IF air = <<>> THEN None ELSE ReportIn(Head(air).bytes)

\* The wait for a table is over.
Reported(table) ==
  /\ fresh' = fresh \cup {table}
  /\ awaiting' = IF awaiting = table THEN None ELSE awaiting

\* Mutant of ValueIds: BASIC_SET is not taken for a report.
ValueIdsOfReports(c) == IF c = METER THEN {2} ELSE {3}

ValueIds(c) == CASE c = BASIC -> {1, 3}
                 [] c = METER -> {2}
                 [] OTHER     -> {3}

\* meterType and value of a METER_REPORT, the value of the others.
ValueSize(c) == IF c = METER THEN 2 ELSE 1

\* The handler of class cc takes the report r, which has the bytes it reads.
Takes(r, cc, ids, size) == r # None /\ r.cc = cc /\ r.id \in ids /\ Len(r.params) >= size

TakenAsValue(r) == \E c \in ValueClasses : Takes(r, c, ValueIds(c), ValueSize(c))

Handled(r) ==
  \/ TakenAsValue(r)
  \/ Takes(r, BASIC, {2}, 0)
  \/ Takes(r, CONFIGURATION, {6}, 3)
  \/ \E c \in {ASSOCIATION, MULTI_CHANNEL_ASSOCIATION} : Takes(r, c, {3}, 3)

\* HandleReport of the classes that keep one value.
HandleValueReport ==
  /\ LET r == Received
     IN /\ TakenAsValue(r)
        /\ values' = [values EXCEPT ![r.cc] = SubSeq(r.params, 1, ValueSize(r.cc))]
  /\ air' = Tail(air)
  /\ UNCHANGED <<config, assoc, mcAssoc, awaiting, outbox, node, ops, faults, history>>

BasicReport(ep, v) ==
  IF ep = 0
  THEN MakeSendData(<<BASIC, 3, v>>, 3)
  ELSE MakeSendData(<<MULTI_CHANNEL, 6, ep, BASIC, 3, v>>, 4)

\* BASIC_GET: the node asks, and is answered at once by this thread.
HandleBasicGet ==
  /\ LET r == Received
     IN /\ Takes(r, BASIC, {2}, 0)
        /\ Send(BasicReport(r.ep, IF values[BASIC] = <<>> THEN 0 ELSE values[BASIC][1]))
  /\ air' = Tail(air)
  /\ UNCHANGED <<program, node, ops, faults, history>>

\* As many bytes are read as the report says it has, and has.
HandleConfigurationReport ==
  /\ LET r     == Received
         p     == r.params[1]
         size  == r.params[2]
         bytes == SubSeq(r.params, 3, MinOf(2 + size, Len(r.params)))
     IN /\ Takes(r, CONFIGURATION, {6}, 3)
        /\ config' = [config EXCEPT ![p] = [valid |-> TRUE, value |-> ReadValue(bytes, size)]]
        /\ Reported(<<"param", p>>)
  /\ air' = Tail(air)
  /\ UNCHANGED <<assoc, mcAssoc, values, outbox, node, ops, faults, reported, wanted, gets>>

\* if (!g.hasLastReport) all entries become invalid.
Cleared(group) == IF group.hasLastReport THEN group.members ELSE {}

\* The report has group, maxNodes and reportsToFollow, then the nodes.
HandleAssociationReport ==
  /\ LET r    == Received
         g    == r.params[1]
         list == SubSeq(r.params, 4, Len(r.params))
     IN /\ Takes(r, ASSOCIATION, {3}, 3)
        /\ assoc' = [assoc EXCEPT ![g] = [hasLastReport |-> r.params[3] = 0,
                                          members |-> Cleared(@) \cup ToSet(list)]]
        /\ Reported(<<"assoc", g>>)
  /\ air' = Tail(air)
  /\ UNCHANGED <<config, mcAssoc, values, outbox, node, ops, faults, reported, wanted, gets>>

HandleMultiChannelAssociationReport ==
  /\ LET r       == Received
         g       == r.params[1]
         entries == Entries(r.params[2], SubSeq(r.params, 4, Len(r.params)))
     IN /\ Takes(r, MULTI_CHANNEL_ASSOCIATION, {3}, 3)
        /\ mcAssoc' = [mcAssoc EXCEPT ![g] = [hasLastReport |-> r.params[3] = 0,
                                              members |-> Put(Cleared(@), entries)]]
        /\ Reported(<<"mcAssoc", g>>)
  /\ air' = Tail(air)
  /\ UNCHANGED <<config, assoc, values, outbox, node, ops, faults, reported, wanted, gets>>

\* HandleCCFrame or HandleCCDeviceReport knows no handler for the report, or the
\* handler does not know the command.
DropReport ==
  /\ air # <<>>
  /\ Decode_Frame(Head(air).bytes) # None
  /\ ~Handled(Received)
  /\ air' = Tail(air)
  /\ UNCHANGED <<program, outbox, node, ops, faults, history>>

\* Run sends NAK, and the chip sends the frame again.
RejectFrame ==
  /\ air # <<>>
  /\ Decode_Frame(Head(air).bytes) = None
  /\ air' = <<FrameWith(Head(air).payload)>> \o Tail(air)
  /\ UNCHANGED <<program, outbox, node, ops, faults, history>>

-----------------------------------------------------------------------------
(* The node, and the line from the chip.                                   *)

\* The RSSI is one byte behind the command.
Air(cmd) == air' = Append(air, FrameWith(<<0, NodeId, Len(cmd)>> \o cmd \o <<127>>))

\* The node gets a command; params is what follows class and command.
Gets(cc, id) ==
  /\ outbox # <<>>
  /\ Command(Head(outbox))[1] = cc
  /\ Command(Head(outbox))[2] = id
  /\ outbox' = Tail(outbox)

params == SubSeq(Command(Head(outbox)), 3, Len(Command(Head(outbox))))

NodeIsConfigured ==
  /\ Gets(CONFIGURATION, 4)
  /\ param' = [param EXCEPT ![params[1]] =
                 IF params[2] = Len(@) THEN SubSeq(params, 3, 2 + params[2]) ELSE @]
  /\ told' = [told EXCEPT ![params[1]] = 0]
  /\ UNCHANGED <<program, air, bound, asked, heard, ops, faults, history>>

\* SET and REMOVE of ASSOCIATION and MULTI_CHANNEL_ASSOCIATION; the list names
\* one destination.
NodeBinds(cc) ==
  /\ Gets(cc, 1)
  /\ \E d \in Destinations :
       /\ ListOf({d}) = Tail(params)
       /\ bound' = [bound EXCEPT ![params[1]] = Bound(@, d)]
  /\ UNCHANGED <<program, air, param, told, asked, heard, ops, faults, history>>

NodeUnbinds(cc) ==
  /\ Gets(cc, 4)
  /\ \E d \in Destinations :
       /\ ListOf({d}) = Tail(params)
       /\ bound' = [bound EXCEPT ![params[1]] = @ \ {d}]
  /\ UNCHANGED <<program, air, param, told, asked, heard, ops, faults, history>>

Default == <<4>>

\* What the node reports of a parameter that it has reported n times: a forgetful
\* one (src/README.md:122-136) is right once and 0x04 then, whatever it is set to.
Shown(p, n) == IF p \in Forgetful /\ n > 0 THEN Default ELSE param[p]

NodeReportsParam ==
  /\ Gets(CONFIGURATION, 5)
  /\ LET p     == params[1]
         value == Shown(p, told[p])
     IN /\ Air(<<CONFIGURATION, 6, p, Len(value)>> \o value)
        /\ told' = [told EXCEPT ![p] = @ + 1]
  /\ UNCHANGED <<program, param, bound, asked, heard, ops, faults, history>>

\* An ASSOCIATION_REPORT leaves the endpoints out.
NodeReportsGroup(cc) ==
  /\ Gets(cc, 2)
  /\ LET dests == IF cc = ASSOCIATION
                  THEN {d \in bound[params[1]] : d[2] = 0}
                  ELSE bound[params[1]]
     IN Air(<<cc, 3, params[1], MaxNodes, 0>> \o ListOf(dests))
  /\ UNCHANGED <<program, node, ops, faults, history>>

ReportOf(c, id, v) == <<c, id>> \o IF c = METER THEN <<1, v>> ELSE <<v>>

Wrapped(ep, cmd) == IF ep = 0 THEN cmd ELSE <<MULTI_CHANNEL, 6, ep>> \o cmd

NodeReportsBattery ==
  /\ Gets(BATTERY, 2)
  /\ Air(ReportOf(BATTERY, 3, 100))
  /\ reported' = [reported EXCEPT ![BATTERY] = <<100>>]
  /\ UNCHANGED <<program, node, ops, faults, wanted, gets, fresh>>

NodeHears ==
  /\ \/ /\ Gets(BASIC, 3)
        /\ heard' = [ep |-> 0, value |-> params[1]]
     \/ /\ Gets(MULTI_CHANNEL, 6)
        /\ SubSeq(params, 2, 3) = <<BASIC, 3>>
        /\ heard' = [ep |-> params[1], value |-> params[4]]
  /\ UNCHANGED <<program, air, param, told, bound, asked, ops, faults, history>>

\* The node does something of its own accord.
Event ==
  /\ ops > 0
  /\ ops' = ops - 1

\* It reports a value, of itself or of an endpoint, another one each time.
NodeReports(c, ep) ==
  /\ Event
  /\ \E id \in IF c = BASIC THEN {1, 3} ELSE IF c = METER THEN {2} ELSE {3} :
       Air(Wrapped(ep, ReportOf(c, id, ops)))
  /\ reported' = [reported EXCEPT ![c] = IF c = METER THEN <<1, ops>> ELSE <<ops>>]
  /\ UNCHANGED <<program, outbox, node, faults, wanted, gets, fresh>>

\* It asks for the basic value, once the question before is answered.
NodeAsks(ep) ==
  /\ Event
  /\ (asked = None) = (heard = None)
  /\ asked' = [ep    |-> ep,
               value |-> IF reported[BASIC] = <<>> THEN 0 ELSE reported[BASIC][1]]
  /\ heard' = None
  /\ Air(Wrapped(ep, <<BASIC, 2>>))
  /\ UNCHANGED <<program, outbox, param, told, bound, faults, history>>

\* It says that it is awake, which is not Dispatched.
NodeWakes ==
  /\ Event
  /\ Air(<<WAKE_UP, 7>>)
  /\ UNCHANGED <<program, outbox, node, faults, history>>

\* A fault on the line turns bits of one byte of the next frame over.
Damage(mask) ==
  /\ faults > 0
  /\ air # <<>>
  /\ Decode_Frame(Head(air).bytes) # None
  /\ \E k \in DamagedBytes \cap DOMAIN Head(air).bytes :
       air' = [air EXCEPT ![1].bytes[k] = XorByte(@, mask)]
  /\ faults' = faults - 1
  /\ UNCHANGED <<program, outbox, node, ops, history>>

-----------------------------------------------------------------------------
Init ==
  /\ config = [p \in Params |-> [valid |-> FALSE, value |-> 0]]
  /\ assoc = [g \in Groups |-> [hasLastReport |-> FALSE, members |-> {}]]
  /\ mcAssoc = assoc
  /\ values = [c \in ValueClasses |-> <<>>]
  /\ awaiting = None
  /\ outbox = <<>> /\ air = <<>>
  /\ param = ParamBytes /\ bound = FirstBound
  /\ \E n \in 0 .. 1 : told = [p \in Params |-> n]
  /\ asked = None /\ heard = None
  /\ ops = MaxOps /\ faults = MaxFaults
  /\ reported = values
  /\ wanted = [param |-> [p \in Params |-> Signed(ParamBytes[p])], bound |-> FirstBound]
  /\ gets = told
  /\ fresh = {}

UserNext ==
  \/ \E p \in Params, v \in UserValues : Configure(p, v)
  \/ \E g \in Groups, d \in Destinations : Bind(g, d) \/ Unbind(g, d)
  \/ RequestBattery
  \/ \E p \in Params : ConfigurationGet(p)
  \/ \E g \in Groups : AssociationGet(g) \/ MultiChannelAssociationGet(g)

InterfaceNext ==
  \/ HandleValueReport
  \/ HandleBasicGet
  \/ HandleConfigurationReport
  \/ HandleAssociationReport
  \/ HandleMultiChannelAssociationReport
  \/ DropReport
  \/ RejectFrame

NodeNext ==
  \/ NodeIsConfigured
  \/ \E cc \in {ASSOCIATION, MULTI_CHANNEL_ASSOCIATION} :
       NodeBinds(cc) \/ NodeUnbinds(cc) \/ NodeReportsGroup(cc)
  \/ NodeReportsParam
  \/ NodeReportsBattery
  \/ NodeHears
  \/ \E c \in ValueClasses \cap Classes, ep \in Endpoints \cup {0} : NodeReports(c, ep)
  \/ \E ep \in Endpoints \cup {0} : NodeAsks(ep)
  \/ NodeWakes

Next == UserNext \/ InterfaceNext \/ NodeNext \/ \E mask \in Masks : Damage(mask)

Spec == Init /\ [][Next]_vars

-----------------------------------------------------------------------------
(* Properties.                                                             *)

Frame == [bytes : Seq(Byte), payload : Seq(Byte)]

\* Every variable has values of its type: bytes are bytes, a parameter is in the
\* range of its size, the members of a group are nodes, never the marker.
TypeOK ==
  /\ \A p \in Params :
       /\ config[p].valid \in BOOLEAN
       /\ Len(param[p]) = Len(ParamBytes[p])
       /\ told[p] \in Nat /\ gets[p] \in Nat
  /\ \A g \in Groups :
       /\ assoc[g].hasLastReport \in BOOLEAN /\ assoc[g].members \subseteq Targets
       /\ mcAssoc[g].hasLastReport \in BOOLEAN /\ mcAssoc[g].members \subseteq Destinations
       /\ bound[g] \subseteq Destinations /\ wanted.bound[g] \subseteq Destinations
  /\ \A c \in ValueClasses : values[c] \in Seq(Byte) /\ Len(values[c]) \in {0, ValueSize(c)}
  /\ awaiting \in Tables \cup {None}
  /\ outbox \in Seq(Seq(Byte)) /\ air \in Seq(Frame)
  /\ ops \in 0 .. MaxOps /\ faults \in 0 .. MaxFaults
  /\ fresh \subseteq Tables

\* A frame either arrives as it was meant or is found invalid: whatever one byte
\* of it is damaged, the checksum of Run and Decode_Frame tells, and what
\* Encode_Frame makes of a command holds the command.
FramesRoundTrip ==
  /\ \A i \in DOMAIN air :
       Decode_Frame(air[i].bytes) =
         IF air[i] = FrameWith(air[i].payload)
         THEN [func |-> APPLICATION_COMMAND_HANDLER, payload |-> air[i].payload]
         ELSE None
  /\ \A i \in DOMAIN outbox :
       LET frame == Decode_Frame(outbox[i])
       IN /\ frame # None
          /\ MakeSendData(Command(outbox[i]), frame.payload[Len(frame.payload) - 1]) = outbox[i]

\* Once nothing is under way, the program has of each class the value the node
\* reported last, be it plain or encapsulated, damaged or not, asked for or not.
ValuesAsReported == air = <<>> => values = reported

\* A parameter that was read since the user last configured it has the value the
\* user gave it, negative ones too, and one the user cannot set (Configure sends
\* one byte) the value the node means.  A forgetful parameter has it as long as it
\* was read once; the handler overwrites it with what the next report says, so
\* read again it is the default, though the node still has what the user set.
ConfiguredIsRead ==
  \A p \in Params : <<"param", p>> \in fresh =>
    config[p] = [valid |-> TRUE,
                 value |-> IF p \in Forgetful /\ gets[p] > 1
                           THEN Signed(Default) ELSE wanted.param[p]]

\* A group that was read since the user last bound or unbound something has the
\* destinations the user left it with.  There is one entry for each node, so it
\* takes that no node is bound both plainly and by an endpoint, or by two.
BoundIsRead ==
  \A g \in Groups :
    /\ <<"assoc", g>> \in fresh =>
         assoc[g].members = {d[1] : d \in {e \in wanted.bound[g] : e[2] = 0}}
    /\ /\ <<"mcAssoc", g>> \in fresh
       /\ \A d, e \in wanted.bound[g] : d[1] = e[1] => d = e
       => mcAssoc[g].members = wanted.bound[g]

\* A node that asks for the basic value hears what it reported last, at the
\* endpoint that asked.
BasicAnswered == heard # None => heard = asked
=============================================================================
