--------------------------- MODULE ReportsProofs ---------------------------
(***************************************************************************)
(* The proofs about Reports, for any classes, nodes, endpoints, parameters *)
(* of any size, groups and bounds, with any number of frames on the line.  *)
(*                                                                         *)
(* Two inductive invariants: the values the program has, run through all   *)
(* that is on its way to it, are those the node has reported; the tables   *)
(* of the node, run through all orders on their way to it, are those the   *)
(* user wants.  The properties are what is left of them when nothing is on *)
(* the line, or when a table was read and not changed since.               *)
(***************************************************************************)
EXTENDS ReportSteps

\* The kinds of steps.
LEMMA NextKinds ==
  ASSUME ReportsAssumption, Next
  PROVE  \/ \E p \in Params, v \in UserValues : Configure(p, v)
         \/ \E g \in Groups, d \in Destinations : Bind(g, d)
         \/ \E g \in Groups, d \in Destinations : Unbind(g, d)
         \/ RequestBattery
         \/ \E t \in Tables : Asks(t)
         \/ HandleValueReport \/ HandleBasicGet \/ HandleTableReport
         \/ DropReport \/ RejectFrame
         \/ \E mask \in Masks : Damage(mask)
         \/ NodeIsConfigured \/ ChangesNode \/ ReportsTable \/ NodeReportsBattery \/ NodeHears
         \/ \E c \in ValueClasses \cap Classes, ep \in Endpoints \cup {0} : NodeReports(c, ep)
         \/ \E ep \in Endpoints \cup {0} : NodeAsks(ep)
         \/ NodeWakes
  <1>1. ASSUME NEW p \in Params, ConfigurationGet(p) PROVE \E t \in Tables : Asks(t)
    <2>1. <<"param", p>> \in Tables
      BY DEF Tables
    <2>2. Asks(<<"param", p>>)
      BY <1>1 DEF Asks
    <2> QED
      BY <2>1, <2>2
  <1>2. ASSUME NEW g \in Groups, AssociationGet(g) PROVE \E t \in Tables : Asks(t)
    <2>1. <<"assoc", g>> \in Tables
      BY DEF Tables
    <2>2. Asks(<<"assoc", g>>)
      BY <1>2 DEF Asks
    <2> QED
      BY <2>1, <2>2
  <1>3. ASSUME NEW g \in Groups, MultiChannelAssociationGet(g) PROVE \E t \in Tables : Asks(t)
    <2>1. <<"mcAssoc", g>> \in Tables
      BY DEF Tables
    <2>2. Asks(<<"mcAssoc", g>>)
      BY <1>3 DEF Asks
    <2> QED
      BY <2>1, <2>2
  <1>4. CASE UserNext
    BY <1>1, <1>2, <1>3, <1>4 DEF UserNext
  <1>5. CASE InterfaceNext
    BY <1>5 DEF InterfaceNext, HandleTableReport
  <1>6. CASE NodeNext
    BY <1>6, ZenonT(60) DEF NodeNext, ChangesNode, ReportsTable
  <1> QED
    BY <1>4, <1>5, <1>6 DEF Next

\* The program starts with what its variables are declared as (Node.h:78-169).
LEMMA TypeInit ==
  ASSUME ReportsAssumption, Init
  PROVE  TypeInv
  <1>1. /\ config \in [Params -> [valid : BOOLEAN, value : Int]]
        /\ assoc \in [Groups -> AssocGroups] /\ mcAssoc \in [Groups -> McGroups]
    BY DEF Init, AssocGroups, McGroups
  <1>2. values \in ValueStates /\ reported \in ValueStates
    <2>1. values = [c \in ValueClasses |-> <<>>] /\ reported = values
      BY DEF Init
    <2>2. values \in [ValueClasses -> Seq(Byte)] /\ \A c \in ValueClasses : Len(values[c]) = 0
      BY <2>1
    <2> QED
      BY <2>1, <2>2 DEF ValueStates
  <1>3. param \in ParamStates
    BY DEF Init, ParamStates, ReportsAssumption
  <1>4. FirstBound \in BoundStates
    BY DEF BoundStates, Small, Destinations, ReportsAssumption
  <1>5. bound \in BoundStates
    BY <1>4 DEF Init
  <1>6. wanted \in [param : [Params -> Int], bound : BoundStates]
    <2>1. ASSUME NEW p \in Params PROVE Signed(ParamBytes[p]) \in Int
      <3>1. ParamBytes[p] \in Seq(Byte) /\ Len(ParamBytes[p]) \in {1, 2, 4}
        BY ZenonT(60) DEF ReportsAssumption
      <3> QED
        BY <3>1, ReadValueIsSigned
    <2>2. [p \in Params |-> Signed(ParamBytes[p])] \in [Params -> Int]
      BY <2>1
    <2> QED
      BY <1>4, <2>2 DEF Init
  <1>7. ops \in 0 .. MaxOps /\ faults \in 0 .. MaxFaults
    <2>1. ops = MaxOps /\ faults = MaxFaults /\ MaxOps \in Nat /\ MaxFaults \in Nat
      BY BoundFacts DEF Init, ReportsAssumption
    <2> QED
      BY <2>1
  <1>8. outbox \in Seq(SentFrames) /\ air \in Seq(AirFrames)
    BY DEF Init
  <1>9. awaiting = None /\ asked = None /\ heard = None /\ fresh = {}
    BY DEF Init
  <1>10. told \in Counts /\ gets \in Counts
    <2>1. PICK n \in 0 .. 1 : told = [p \in Params |-> n]
      BY DEF Init
    <2>2. gets = told
      BY DEF Init
    <2> QED
      BY <2>1, <2>2 DEF Counts
  <1> QED
    BY <1>1, <1>2, <1>3, <1>5, <1>6, <1>7, <1>8, <1>9, <1>10 DEF TypeInv

\* Every step keeps the types: the frames of either direction stay among those
\* the two sides build.
LEMMA TypeNext ==
  ASSUME ReportsAssumption, TypeInv, [Next]_vars
  PROVE  TypeInv'
  <1>1. CASE Next
    BY <1>1, NextKinds, ConfigureStep, BindStep, UnbindStep, RequestBatteryStep, AsksStep,
       ValueStep, GetStep, TableStep, DropStep, RejectStep, DamageStep, ConfiguredStep,
       ChangedStep, TableSaidStep, BatterySaidStep, HearStep, ReportStep, AskStep, WakeStep, ZenonT(60)
  <1>2. CASE UNCHANGED vars
    BY <1>2 DEF vars, program, node, history, TypeInv
  <1> QED
    BY <1>1, <1>2, SMTT(60)

\* In every reachable state the frames on the line are those the two sides
\* build, whole or damaged in a byte, and the tables hold what fits into a
\* report (ZW_Node, ZW_APIFrame).
THEOREM TypesHold == Spec => []TypeInv
  <1>1. Init => TypeInv
    BY ReportsAssumption, TypeInit
  <1>2. TypeInv /\ [Next]_vars => TypeInv'
    BY ReportsAssumption, TypeNext
  <1> QED
    BY <1>1, <1>2, PTL DEF Spec

\* The variables keep their types; among others the members of a group are
\* nodes and endpoints that exist, never a marker or half a pair (the loops of
\* HandleReport, Device.cpp:955-981).
THEOREM TypeCorrect == Spec => []TypeOK
  <1>1. ASSUME TypeInv PROVE TypeOK
    <2>1. ASSUME NEW p \in Params
          PROVE  /\ config[p].valid \in BOOLEAN /\ Len(param[p]) = Len(ParamBytes[p])
                 /\ told[p] \in Nat /\ gets[p] \in Nat
      BY <1>1 DEF TypeInv, ParamStates, Counts
    <2>2. ASSUME NEW g \in Groups
          PROVE  /\ assoc[g].hasLastReport \in BOOLEAN /\ assoc[g].members \subseteq Targets
                 /\ mcAssoc[g].hasLastReport \in BOOLEAN /\ mcAssoc[g].members \subseteq Destinations
      <3>1. assoc[g] \in AssocGroups /\ mcAssoc[g] \in McGroups
        BY <1>1 DEF TypeInv
      <3> QED
        BY <3>1 DEF AssocGroups, McGroups
    <2>3. ASSUME NEW g \in Groups
          PROVE  bound[g] \subseteq Destinations /\ wanted.bound[g] \subseteq Destinations
      BY <1>1 DEF TypeInv, BoundStates, Small
    <2>4. \A c \in ValueClasses : values[c] \in Seq(Byte) /\ Len(values[c]) \in {0, ValueSize(c)}
      BY <1>1 DEF TypeInv, ValueStates
    <2>5. outbox \in Seq(Seq(Byte))
      <3>1. \A f \in SentFrames : f \in Seq(Byte)
        BY ReportsAssumption, SentFrameFacts DEF IsSent
      <3>2. outbox \in Seq(SentFrames)
        BY <1>1 DEF TypeInv
      <3> QED
        BY <3>1, <3>2
    <2>6. air \in Seq(Frame)
      <3>1. air \in Seq(AirFrames)
        BY <1>1 DEF TypeInv
      <3>2. \A f \in AirFrames : f \in Frame
        BY DEF AirFrames
      <3> QED
        BY <3>1, <3>2
    <2>7. /\ awaiting \in Tables \cup {None} /\ fresh \subseteq Tables
          /\ ops \in 0 .. MaxOps /\ faults \in 0 .. MaxFaults
      BY <1>1 DEF TypeInv
    <2> QED
      BY <2>1, <2>2, <2>3, <2>4, <2>5, <2>6, <2>7 DEF TypeOK
  <1> QED
    BY <1>1, TypesHold, PTL

\* What was sent is decoded as it was meant, and a frame damaged in a byte is
\* not decoded at all (Encode_Frame, Decode_Frame and the checksum,
\* APIFrame.h:51-110).
THEOREM FramesArrive == Spec => []FramesRoundTrip
  <1>1. ASSUME TypeInv PROVE FramesRoundTrip
    <2>1. air \in Seq(AirFrames) /\ outbox \in Seq(SentFrames)
      BY <1>1 DEF TypeInv
    <2>2. ASSUME NEW i \in DOMAIN air
          PROVE  Decode_Frame(air[i].bytes) =
                   IF air[i] = FrameWith(air[i].payload)
                   THEN [func |-> APPLICATION_COMMAND_HANDLER, payload |-> air[i].payload]
                   ELSE None
      <3>1. air[i] \in AirFrames
        BY <2>1
      <3> QED
        BY <3>1, ReportsAssumption, AirFrameFacts DEF IsAirborne
    <2>3. ASSUME NEW i \in DOMAIN outbox
          PROVE  LET frame == Decode_Frame(outbox[i])
                 IN /\ frame # None
                    /\ MakeSendData(Command(outbox[i]), frame.payload[Len(frame.payload) - 1]) = outbox[i]
      <3>1. outbox[i] \in SentFrames
        BY <2>1
      <3> QED
        BY <3>1, ReportsAssumption, SentFrameFacts DEF IsSent
    <2> QED
      BY <2>2, <2>3 DEF FramesRoundTrip
  <1> QED
    BY <1>1, TypesHold, PTL

-----------------------------------------------------------------------------
(* The values, and the answers to a node that asks for one.                *)

\* What a saying does to the values: those of the program when it is received,
\* those the node has reported when it is said.
Told(r, v) == IF IsValue(r) THEN [v EXCEPT ![r.cc] = r.params] ELSE v

\* The same as a function, for runs along the line.
Telling == [r \in Sayings |-> [v \in ValueStates |-> Told(r, v)]]

\* It is one.
LEMMA TellingType ==
  /\ Telling \in StepFunctions(Sayings, ValueStates)
  /\ \A r \in Sayings, v \in ValueStates : Telling[r][v] = Told(r, v)
  <1>1. ASSUME NEW r \in Sayings, NEW v \in ValueStates PROVE Told(r, v) \in ValueStates
    <2>1. CASE IsValue(r)
      <3>1. r.params \in Seq(Byte) /\ r.cc \in ValueClasses /\ Len(r.params) = ValueSize(r.cc)
        BY <2>1, SayingKinds DEF IsValue
      <3>2. /\ v \in [ValueClasses -> Seq(Byte)]
            /\ \A c \in ValueClasses : Len(v[c]) \in {0, ValueSize(c)}
        BY DEF ValueStates
      <3>3. Told(r, v) = [v EXCEPT ![r.cc] = r.params]
        BY <2>1 DEF Told
      <3>4. Told(r, v) \in [ValueClasses -> Seq(Byte)]
        BY <3>1, <3>2, <3>3
      <3>5. \A c \in ValueClasses : Len(Told(r, v)[c]) \in {0, ValueSize(c)}
        BY <3>1, <3>2, <3>3
      <3> QED
        BY <3>4, <3>5 DEF ValueStates
    <2>2. CASE ~IsValue(r)
      BY <2>2 DEF Told
    <2> QED
      BY <2>1, <2>2
  <1> QED
    BY <1>1 DEF Telling, StepFunctions

\* The values pass through what is on the line: those the program has, with all
\* that is on the way, are those the node has reported, and a question on the way
\* is asked when the node expects the value it meets there.
Passing(h) ==
  /\ IsRun(h, said, Telling, ValueStates)
  /\ h[0] = values /\ h[Len(said)] = reported
  /\ \A i \in 1 .. Len(said) : IsGet(said[i]) => asked.value = BasicOf(h[i - 1])

\* There is a way for the values to pass.
ValuesInv == \E h : Passing(h)

\* One question at most is on the way, or its answer; then nothing is heard yet.
QuestionOpen == \A i \in 1 .. Len(said) : IsGet(said[i]) =>
                  asked # None /\ heard = None /\ said[i].ep = asked.ep
AnswerOpen   == \A i \in 1 .. Len(orders) : orders[i] \in Answers =>
                  /\ asked # None /\ heard = None
                  /\ orders[i] = AnswerCommand(asked.ep, asked.value)
OneQuestion  == \A i, j \in 1 .. Len(said) : IsGet(said[i]) /\ IsGet(said[j]) => i = j
OneAnswer    == \A i, j \in 1 .. Len(orders) :
                  orders[i] \in Answers /\ orders[j] \in Answers => i = j
NotBoth      == \A i \in 1 .. Len(said), j \in 1 .. Len(orders) :
                  ~(IsGet(said[i]) /\ orders[j] \in Answers)

\* All of it, with the property it gives.
BasicInv ==
  /\ QuestionOpen /\ AnswerOpen /\ OneQuestion /\ OneAnswer /\ NotBoth
  /\ BasicAnswered

\* What a step does to all this.
OrdersKept ==
  \/ orders' = orders
  \/ \E o \in Orders : o \notin Answers /\ orders' = Append(orders, o)
  \/ orders' = Tail(orders) /\ orders # <<>> /\ orders[1] \notin Answers

\* Nothing of it is touched, but for an order that is no answer.
Quiet == said' = said /\ UNCHANGED <<values, reported, asked, heard>> /\ OrdersKept

\* The program takes the report of a value.
Telled ==
  /\ said # <<>> /\ said' = Tail(said) /\ values' = Told(said[1], values)
  /\ orders' = orders /\ UNCHANGED <<reported, asked, heard>>

\* The program takes a question and sends its answer.
Answered ==
  /\ said # <<>> /\ said' = Tail(said) /\ IsGet(said[1]) /\ said[1].ep \in Byte
  /\ orders' = Append(orders, AnswerCommand(said[1].ep, BasicOf(values)))
  /\ BasicOf(values) \in Byte
  /\ UNCHANGED <<values, reported, asked, heard>>

\* The node says something that is no question.
Saying ==
  \E r \in Sayings :
    /\ said' = Append(said, r) /\ ~IsGet(r) /\ reported' = Told(r, reported)
    /\ OrdersKept /\ UNCHANGED <<values, asked, heard>>

\* The node asks, after it has heard the answer to its last question.
Asking ==
  \E r \in Sayings :
    /\ said' = Append(said, r) /\ IsGet(r)
    /\ (asked = None) = (heard = None)
    /\ asked' = [ep |-> r.ep, value |-> BasicOf(reported)] /\ asked' # None /\ heard' = None
    /\ orders' = orders /\ UNCHANGED <<values, reported>>

\* The node hears the answer.
Hearing ==
  /\ orders # <<>> /\ orders' = Tail(orders) /\ orders[1] \in Answers
  /\ \E ep, v \in Byte : orders[1] = AnswerCommand(ep, v) /\ heard' = [ep |-> ep, value |-> v]
  /\ said' = said /\ UNCHANGED <<values, reported, asked>>

\* Only the report of a value changes the values.
LEMMA ToldFacts ==
  ASSUME NEW r \in Sayings, NEW v
  PROVE  /\ IsValue(r) => Told(r, v) = [v EXCEPT ![r.cc] = r.params] /\ ~IsGet(r)
         /\ IsGet(r) \/ IsTable(r) \/ IsWake(r) => Told(r, v) = v
         /\ IsTable(r) \/ IsWake(r) => ~IsGet(r)
         /\ ~IsValue(r) => Told(r, v) = v
  BY SayingKinds DEF Told

\* What the program sends by itself is no answer.
LEMMA NotAnswers ==
  ASSUME ReportsAssumption, NEW o, o \in Configurations \cup Changes \cup Questions \cup BatteryGets
  PROVE  o \in Orders /\ o \notin Answers
  BY OrderKinds DEF Orders

\* Every step is of one of these kinds.
LEMMA AskKinds ==
  ASSUME ReportsAssumption, TypeInv, [Next]_vars
  PROVE  Quiet \/ Telled \/ Answered \/ Saying \/ Asking \/ Hearing
  <1>1. ASSUME NEW p \in Params, NEW v \in UserValues, Configure(p, v) PROVE Quiet
    <2>1. /\ said' = said /\ \E b \in Byte : orders' = Append(orders, ConfigureCommand(p, b))
      BY <1>1, ConfigureStep
    <2>2. \A b \in Byte : ConfigureCommand(p, b) \in Configurations
      BY DEF Configurations
    <2> QED
      BY <1>1, <2>1, <2>2, NotAnswers DEF Quiet, OrdersKept, Configure, program, node
  <1>2. ASSUME NEW g \in Groups, NEW d \in Destinations, Bind(g, d) PROVE Quiet
    <2>1. said' = said /\ orders' = Append(orders, SetCommand(1, g, d))
      BY <1>2, BindStep, ZenonT(60)
    <2>2. SetCommand(1, g, d) \in Changes
      BY DEF Changes, SetIds
    <2> QED
      BY <1>2, <2>1, <2>2, NotAnswers DEF Quiet, OrdersKept, Bind, program, node
  <1>3. ASSUME NEW g \in Groups, NEW d \in Destinations, Unbind(g, d) PROVE Quiet
    <2>1. said' = said /\ orders' = Append(orders, SetCommand(4, g, d))
      BY <1>3, UnbindStep, ZenonT(60)
    <2>2. SetCommand(4, g, d) \in Changes
      BY DEF Changes, SetIds
    <2> QED
      BY <1>3, <2>1, <2>2, NotAnswers DEF Quiet, OrdersKept, Unbind, program, node
  <1>4. ASSUME RequestBattery PROVE Quiet
    <2>1. said' = said /\ orders' = Append(orders, BatteryCommand)
      BY <1>4, RequestBatteryStep
    <2>2. BATTERY \in Classes
      BY <1>4 DEF RequestBattery, Job
    <2>3. BatteryCommand \in BatteryGets
      BY <2>2 DEF BatteryGets
    <2> QED
      BY <1>4, <2>1, <2>3, NotAnswers DEF Quiet, OrdersKept, RequestBattery, program, node, history
  <1>5. ASSUME NEW t \in Tables, Asks(t) PROVE Quiet
    <2>1. /\ said' = said /\ orders' = Append(orders, Question(t))
          /\ UNCHANGED <<values, node, reported>>
      BY <1>5, AsksStep
    <2>2. Question(t) \in Questions
      <3>1. TableClass(t) \in Classes
        BY <1>5, TableFacts, ZenonT(60) DEF Asks, TableClass, ConfigurationGet, AssociationGet,
           MultiChannelAssociationGet, Job
      <3> QED
        BY <3>1 DEF Questions
    <2> QED
      BY <2>1, <2>2, NotAnswers, SMTT(60) DEF Quiet, OrdersKept, node
  <1>6. ASSUME HandleValueReport PROVE Telled
    <2>1. /\ said' = Tail(said) /\ said # <<>> /\ said \in Seq(Sayings)
          /\ orders' = orders /\ IsValue(said[1])
          /\ values' = [values EXCEPT ![said[1].cc] = said[1].params]
          /\ UNCHANGED <<node, history>>
      BY <1>6, ValueStep
    <2> QED
      BY <2>1 DEF Telled, Told, node, history
  <1>7. ASSUME HandleBasicGet PROVE Answered
    BY <1>7, GetStep DEF Answered, program, node, history
  <1>8. ASSUME HandleTableReport PROVE Telled
    <2>1. /\ said' = Tail(said) /\ said # <<>> /\ said \in Seq(Sayings)
          /\ orders' = orders /\ IsTable(said[1])
          /\ UNCHANGED <<values, node, reported>>
      BY <1>8, TableStep
    <2>2. Told(said[1], values) = values
      <3>1. said[1] \in Sayings
        BY <2>1
      <3> QED
        BY <2>1, <3>1, ToldFacts
    <2> QED
      BY <2>1, <2>2 DEF Telled, node
  <1>9. ASSUME DropReport PROVE Telled
    <2>1. /\ said' = Tail(said) /\ said # <<>> /\ said \in Seq(Sayings)
          /\ orders' = orders /\ ~IsValue(said[1])
          /\ UNCHANGED <<program, node, history>>
      BY <1>9, DropStep
    <2>2. Told(said[1], values) = values
      BY <2>1 DEF Told
    <2> QED
      BY <2>1, <2>2 DEF Telled, program, node, history
  <1>10. ASSUME RejectFrame PROVE Quiet
    BY <1>10, RejectStep DEF Quiet, OrdersKept, program, node, history
  <1>11. ASSUME NEW mask \in Masks, Damage(mask) PROVE Quiet
    BY <1>11, DamageStep DEF Quiet, OrdersKept, program, node, history
  <1>12. ASSUME NodeIsConfigured PROVE Quiet
    <2>1. /\ orders' = Tail(orders) /\ orders # <<>> /\ orders[1] \in Configurations /\ said' = said
          /\ UNCHANGED <<program, asked, heard, history>>
      BY <1>12, ConfiguredStep
    <2> QED
      BY <2>1, NotAnswers DEF Quiet, OrdersKept, program, history
  <1>13. ASSUME ChangesNode PROVE Quiet
    <2>1. /\ orders' = Tail(orders) /\ orders # <<>> /\ orders[1] \in Changes /\ said' = said
          /\ UNCHANGED <<program, asked, heard, history>>
      BY <1>13, ChangedStep
    <2> QED
      BY <2>1, NotAnswers DEF Quiet, OrdersKept, program, history
  <1>14. ASSUME ReportsTable PROVE Saying
    <2>1. /\ orders' = Tail(orders) /\ orders # <<>> /\ orders[1] \in Questions
          /\ \E t \in Tables :
               LET report == TableReport(t, Content(t, told[t[2]]))
               IN /\ orders[1] = Question(t) /\ report \in Sayings /\ IsTable(report)
                  /\ said' = Append(said, report)
          /\ UNCHANGED <<program, asked, heard, history>>
      BY <1>14, TableSaidStep
    <2>2. PICK r \in Sayings : IsTable(r) /\ said' = Append(said, r)
      BY <2>1
    <2>3. OrdersKept
      BY <2>1, NotAnswers DEF OrdersKept
    <2>4. Told(r, reported) = reported /\ ~IsGet(r)
      BY <2>2, ToldFacts
    <2> QED
      BY <2>1, <2>2, <2>3, <2>4 DEF Saying, program, history
  <1>15. ASSUME SaysValue, OrdersKept, UNCHANGED <<values, asked, heard>> PROVE Saying
    <2>1. PICK r \in Sayings : /\ IsValue(r) /\ said' = Append(said, r)
                               /\ reported' = [reported EXCEPT ![r.cc] = r.params]
      BY <1>15 DEF SaysValue
    <2>2. Told(r, reported) = [reported EXCEPT ![r.cc] = r.params] /\ ~IsGet(r)
      BY <2>1, ToldFacts
    <2> QED
      BY <1>15, <2>1, <2>2 DEF Saying
  <1>16. ASSUME NodeReportsBattery PROVE Saying
    <2>1. /\ orders' = Tail(orders) /\ orders # <<>> /\ orders[1] \in BatteryGets /\ SaysValue
          /\ UNCHANGED <<program, node>>
      BY <1>16, BatterySaidStep
    <2>2. OrdersKept
      BY <2>1, NotAnswers DEF OrdersKept
    <2> QED
      BY <1>15, <2>1, <2>2 DEF program, node
  <1>17. ASSUME NodeHears PROVE Hearing
    BY <1>17, HearStep DEF Hearing, program, history
  <1>18. ASSUME NEW c \in ValueClasses \cap Classes, NEW ep \in Endpoints \cup {0},
                NodeReports(c, ep)
         PROVE  Saying
    <2>1. orders' = orders /\ SaysValue /\ UNCHANGED <<program, node>>
      BY <1>18, ReportStep
    <2> QED
      BY <1>15, <2>1 DEF OrdersKept, program, node
  <1>19. ASSUME NEW ep \in Endpoints \cup {0}, NodeAsks(ep) PROVE Asking
    <2>1. /\ orders' = orders
          /\ GetReport(ep) \in Sayings /\ IsGet(GetReport(ep)) /\ GetReport(ep).ep = ep
          /\ said' = Append(said, GetReport(ep))
          /\ (asked = None) = (heard = None)
          /\ asked' = [ep |-> ep, value |-> BasicOf(reported)] /\ heard' = None /\ asked' # None
          /\ UNCHANGED <<program, history>>
      BY <1>19, AskStep
    <2> QED
      BY <2>1 DEF Asking, program, history
  <1>20. ASSUME NodeWakes PROVE Saying
    <2>1. /\ orders' = orders /\ WakeReport \in Sayings /\ IsWake(WakeReport)
          /\ said' = Append(said, WakeReport) /\ UNCHANGED <<program, node, history>>
      BY <1>20, WakeStep
    <2>2. Told(WakeReport, reported) = reported /\ ~IsGet(WakeReport)
      BY <2>1, ToldFacts
    <2> QED
      BY <2>1, <2>2 DEF Saying, OrdersKept, program, node, history
  <1>21. ASSUME UNCHANGED vars PROVE Quiet
    BY <1>21 DEF vars, program, node, history, Quiet, OrdersKept, said, orders
  <1> QED
    BY NextKinds, <1>1, <1>2, <1>3, <1>4, <1>5, <1>6, <1>7, <1>8, <1>9, <1>10, <1>11, <1>12,
       <1>13, <1>14, <1>16, <1>17, <1>18, <1>19, <1>20, <1>21

\* A report that is taken becomes the program's: the rest of the way is as it
\* was.
LEMMA PassingTold ==
  ASSUME ReportsAssumption, TypeInv, ValuesInv,
         said # <<>>, said' = Tail(said), values' = Told(said[1], values),
         UNCHANGED <<reported, asked>>
  PROVE  ValuesInv'
  <1>1. PICK h : Passing(h)
    BY DEF ValuesInv
  <1> DEFINE n == Len(said)
             g == Shifted(h, n)
             rest == Tail(said)
  <1>2. /\ said \in Seq(Sayings) /\ n \in Nat \ {0} /\ Head(said) = said[1] /\ said[1] \in Sayings
        /\ rest \in Seq(Sayings) /\ Len(rest) = n - 1 /\ \A i \in 1 .. n - 1 : rest[i] = said[i + 1]
    <2>1. said \in Seq(Sayings)
      BY SequenceTypes
    <2> QED
      BY <2>1
  <1>3. /\ IsRun(h, said, Telling, ValueStates) /\ h[0] = values /\ h[n] = reported
        /\ \A i \in 1 .. n : IsGet(said[i]) => asked.value = BasicOf(h[i - 1])
    BY <1>1 DEF Passing
  <1>4. /\ h[0] \in ValueStates /\ h[1] = Telling[Head(said)][h[0]]
        /\ IsRun(g, rest, Telling, ValueStates)
    BY <1>2, <1>3, RunOfTail
  <1>5. g[0] = values'
    <2>1. g[0] = h[1]
      BY <1>2 DEF Shifted
    <2> QED
      BY <1>2, <1>3, <1>4, <2>1, TellingType
  <1>6. g[n - 1] = reported
    BY <1>2, <1>3 DEF Shifted
  <1>7. ASSUME NEW i \in 1 .. n - 1, IsGet(rest[i]) PROVE asked.value = BasicOf(g[i - 1])
    <2>1. i + 1 \in 1 .. n /\ i - 1 \in 0 .. n - 1 /\ rest[i] = said[i + 1]
      BY <1>2
    <2>2. asked.value = BasicOf(h[i])
      BY <1>3, <1>7, <2>1
    <2>3. g[i - 1] = h[i]
      BY <2>1 DEF Shifted
    <2> QED
      BY <2>2, <2>3
  <1> HIDE DEF g, rest
  <1> QED
    <2>1. said' = rest /\ Len(rest) = n - 1
      BY <1>2 DEF rest
    <2> HIDE DEF n
    <2>2. IsRun(g, said', Telling, ValueStates) /\ g[0] = values' /\ g[Len(said')] = reported'
      BY <1>4, <1>5, <1>6, <2>1, ZenonT(60)
    <2>3. \A i \in 1 .. Len(said') : IsGet(said'[i]) => asked'.value = BasicOf(g[i - 1])
      BY <1>7, <2>1, ZenonT(60)
    <2> QED
      BY <2>2, <2>3 DEF ValuesInv, Passing

\* What is said lengthens the way by a step, which ends at what the node has
\* reported now.
LEMMA PassingSaid ==
  ASSUME ReportsAssumption, TypeInv, ValuesInv, NEW r \in Sayings,
         said' = Append(said, r), reported' = Told(r, reported), values' = values,
         \A i \in 1 .. Len(said) : IsGet(said[i]) => asked' = asked,
         IsGet(r) => asked'.value = BasicOf(reported)
  PROVE  ValuesInv'
  <1>1. PICK h : Passing(h)
    BY DEF ValuesInv
  <1> DEFINE n == Len(said)
             g == Extended(h, n, Telling[r][h[n]])
             more == Append(said, r)
  <1>2. /\ said \in Seq(Sayings) /\ n \in Nat /\ Len(more) = n + 1 /\ more[n + 1] = r
        /\ \A i \in 1 .. n : more[i] = said[i]
    <2>1. said \in Seq(Sayings)
      BY SequenceTypes
    <2> QED
      BY <2>1
  <1>3. /\ IsRun(h, said, Telling, ValueStates) /\ h[0] = values /\ h[n] = reported
        /\ \A i \in 1 .. n : IsGet(said[i]) => asked.value = BasicOf(h[i - 1])
    BY <1>1 DEF Passing
  <1>4. IsRun(g, more, Telling, ValueStates)
    <2>1. Telling \in StepFunctions(Sayings, ValueStates)
      BY TellingType
    <2> QED
      BY <1>2, <1>3, <2>1, RunOfAppend
  <1>5. g[0] = values'
    BY <1>2, <1>3 DEF Extended
  <1>6. g[n + 1] = reported'
    <2>1. g[n + 1] = Telling[r][h[n]]
      BY <1>2 DEF Extended
    <2>2. reported \in ValueStates
      BY DEF TypeInv
    <2> QED
      BY <1>3, <2>1, <2>2, TellingType
  <1>7. ASSUME NEW i \in 1 .. n + 1, IsGet(more[i]) PROVE asked'.value = BasicOf(g[i - 1])
    <2>1. CASE i = n + 1
      <3>1. g[i - 1] = h[n]
        BY <1>2, <2>1 DEF Extended
      <3> QED
        BY <1>2, <1>3, <1>7, <2>1, <3>1
    <2>2. CASE i # n + 1
      <3>1. i \in 1 .. n
        BY <1>2, <2>2
      <3>2. g[i - 1] = h[i - 1]
        BY <1>2, <3>1 DEF Extended
      <3> QED
        BY <1>2, <1>3, <1>7, <3>1, <3>2
    <2> QED
      BY <2>1, <2>2
  <1> HIDE DEF g, more
  <1> QED
    <2>1. said' = more /\ Len(more) = n + 1
      BY <1>2 DEF more
    <2> HIDE DEF n
    <2>2. IsRun(g, said', Telling, ValueStates) /\ g[0] = values' /\ g[Len(said')] = reported'
      BY <1>4, <1>5, <1>6, <2>1
    <2>3. \A i \in 1 .. Len(said') : IsGet(said'[i]) => asked'.value = BasicOf(g[i - 1])
      BY <1>7, <2>1
    <2> QED
      BY <2>2, <2>3 DEF ValuesInv, Passing

\* The values keep passing.
LEMMA ValuesNext ==
  ASSUME ReportsAssumption, TypeInv, ValuesInv, BasicInv, [Next]_vars
  PROVE  ValuesInv'
  <1>1. CASE said' = said /\ UNCHANGED <<values, reported, asked>>
    BY <1>1 DEF ValuesInv, Passing
  <1>2. CASE Telled
    BY <1>2, PassingTold DEF Telled
  <1>3. CASE Answered
    <2>1. said[1] \in Sayings
      <3>1. said \in Seq(Sayings)
        BY SequenceTypes
      <3> QED
        BY <1>3, <3>1 DEF Answered
    <2>2. Told(said[1], values) = values
      BY <1>3, <2>1, ToldFacts DEF Answered
    <2> QED
      BY <1>3, <2>2, PassingTold DEF Answered
  <1>4. CASE Saying
    BY <1>4, PassingSaid DEF Saying
  <1>5. CASE Asking
    <2>1. PICK r \in Sayings : /\ said' = Append(said, r) /\ IsGet(r)
                               /\ (asked = None) = (heard = None)
                               /\ asked' = [ep |-> r.ep, value |-> BasicOf(reported)]
                               /\ UNCHANGED <<values, reported>>
      BY <1>5 DEF Asking
    <2>2. \A i \in 1 .. Len(said) : ~IsGet(said[i])
      BY <2>1 DEF BasicInv, QuestionOpen
    <2>3. Told(r, reported) = reported
      BY <2>1, ToldFacts
    <2>4. asked'.value = BasicOf(reported)
      BY <2>1
    <2> QED
      BY <2>1, <2>2, <2>3, <2>4, PassingSaid
  <1>6. CASE Quiet
    BY <1>1, <1>6 DEF Quiet
  <1>7. CASE Hearing
    BY <1>1, <1>7 DEF Hearing
  <1> QED
    BY <1>2, <1>3, <1>4, <1>5, <1>6, <1>7, AskKinds

\* An answer is known by what it says and to whom.
LEMMA AnswerIs ==
  ASSUME NEW ep \in Byte, NEW v \in Byte, NEW e \in Byte, NEW w \in Byte,
         AnswerCommand(ep, v) = AnswerCommand(e, w)
  PROVE  ep = e /\ v = w
  <1>1. BASIC # MULTI_CHANNEL
    BY DEF BASIC, MULTI_CHANNEL
  <1> DEFINE o == AnswerCommand(ep, v)
  <1>2. IsAnswer(o, ep, v) /\ IsAnswer(o, e, w)
    BY AnswerRead
  <1> HIDE DEF o
  <1> QED
    BY <1>1, <1>2 DEF IsAnswer

\* What leaves the answers alone.
LEMMA AnswersStay ==
  ASSUME ReportsAssumption, TypeInv, AnswerOpen, OneAnswer, OrdersKept,
         UNCHANGED <<asked, heard>>
  PROVE  /\ AnswerOpen' /\ OneAnswer'
         /\ \A i \in 1 .. Len(orders') : orders'[i] \in Answers =>
              \E k \in 1 .. Len(orders) : orders[k] \in Answers
  <1>1. orders \in Seq(Orders)
    BY SequenceTypes
  <1>2. CASE orders' = orders
    BY <1>2 DEF AnswerOpen, OneAnswer
  <1>3. ASSUME NEW o \in Orders, o \notin Answers, orders' = Append(orders, o)
        PROVE  \A i \in 1 .. Len(orders') : orders'[i] \in Answers =>
                 i \in 1 .. Len(orders) /\ orders[i] = orders'[i]
    BY <1>1, <1>3
  <1>4. ASSUME NEW o \in Orders, o \notin Answers, orders' = Append(orders, o)
        PROVE  /\ AnswerOpen' /\ OneAnswer'
               /\ \A i \in 1 .. Len(orders') : orders'[i] \in Answers =>
                    \E k \in 1 .. Len(orders) : orders[k] \in Answers
    <2>1. \A i \in 1 .. Len(orders') : orders'[i] \in Answers =>
            i \in 1 .. Len(orders) /\ orders[i] = orders'[i]
      BY <1>3, <1>4
    <2>2. AnswerOpen'
      BY <2>1 DEF AnswerOpen
    <2>3. OneAnswer'
      BY <2>1 DEF OneAnswer
    <2> QED
      BY <2>1, <2>2, <2>3
  <1>5. ASSUME orders' = Tail(orders), orders # <<>>
        PROVE  \A i \in 1 .. Len(orders') :
                 i + 1 \in 1 .. Len(orders) /\ orders[i + 1] = orders'[i]
    BY <1>1, <1>5
  <1>6. ASSUME orders' = Tail(orders), orders # <<>>
        PROVE  /\ AnswerOpen' /\ OneAnswer'
               /\ \A i \in 1 .. Len(orders') : orders'[i] \in Answers =>
                    \E k \in 1 .. Len(orders) : orders[k] \in Answers
    <2>1. \A i \in 1 .. Len(orders') :
            i + 1 \in 1 .. Len(orders) /\ orders[i + 1] = orders'[i]
      BY <1>5, <1>6
    <2>2. AnswerOpen'
      BY <2>1 DEF AnswerOpen
    <2>3. OneAnswer'
      <3>1. ASSUME NEW i \in 1 .. Len(orders'), NEW j \in 1 .. Len(orders'),
                   orders'[i] \in Answers, orders'[j] \in Answers
            PROVE  i = j
        <4>1. i + 1 = j + 1
          BY <2>1, <3>1 DEF OneAnswer
        <4> QED
          BY <4>1
      <3> QED
        BY <3>1 DEF OneAnswer
    <2> QED
      BY <2>1, <2>2, <2>3
  <1> QED
    BY <1>2, <1>4, <1>6 DEF OrdersKept

\* What leaves the questions alone.
SaidKept ==
  \/ said' = said
  \/ \E r \in Sayings : ~IsGet(r) /\ said' = Append(said, r)
  \/ said' = Tail(said) /\ said # <<>>

\* Where the node asks nothing, no question comes onto the line.
LEMMA QuestionsStay ==
  ASSUME ReportsAssumption, TypeInv, QuestionOpen, OneQuestion, SaidKept,
         UNCHANGED <<asked, heard>>
  PROVE  /\ QuestionOpen' /\ OneQuestion'
         /\ \A i \in 1 .. Len(said') : IsGet(said'[i]) =>
              \E k \in 1 .. Len(said) : IsGet(said[k])
  <1>1. said \in Seq(Sayings)
    BY SequenceTypes
  <1>2. CASE said' = said
    BY <1>2 DEF QuestionOpen, OneQuestion
  <1>3. ASSUME NEW r \in Sayings, ~IsGet(r), said' = Append(said, r)
        PROVE  \A i \in 1 .. Len(said') : IsGet(said'[i]) =>
                 i \in 1 .. Len(said) /\ said[i] = said'[i]
    BY <1>1, <1>3
  <1>4. ASSUME NEW r \in Sayings, ~IsGet(r), said' = Append(said, r)
        PROVE  /\ QuestionOpen' /\ OneQuestion'
               /\ \A i \in 1 .. Len(said') : IsGet(said'[i]) =>
                    \E k \in 1 .. Len(said) : IsGet(said[k])
    <2>1. \A i \in 1 .. Len(said') : IsGet(said'[i]) =>
            i \in 1 .. Len(said) /\ said[i] = said'[i]
      BY <1>3, <1>4
    <2> QED
      BY <2>1 DEF QuestionOpen, OneQuestion
  <1>5. ASSUME said' = Tail(said), said # <<>>
        PROVE  \A i \in 1 .. Len(said') : i + 1 \in 1 .. Len(said) /\ said[i + 1] = said'[i]
    BY <1>1, <1>5
  <1>6. ASSUME said' = Tail(said), said # <<>>
        PROVE  /\ QuestionOpen' /\ OneQuestion'
               /\ \A i \in 1 .. Len(said') : IsGet(said'[i]) =>
                    \E k \in 1 .. Len(said) : IsGet(said[k])
    <2>1. \A i \in 1 .. Len(said') : i + 1 \in 1 .. Len(said) /\ said[i + 1] = said'[i]
      BY <1>5, <1>6
    <2> QED
      BY <2>1 DEF QuestionOpen, OneQuestion
  <1> QED
    BY <1>2, <1>4, <1>6 DEF SaidKept

\* A question and its answer stay alone.
LEMMA BasicNext ==
  ASSUME ReportsAssumption, TypeInv, ValuesInv, BasicInv, [Next]_vars
  PROVE  BasicInv'
  <1>1. ASSUME SaidKept, OrdersKept, UNCHANGED <<asked, heard>> PROVE BasicInv'
    <2>1. /\ AnswerOpen' /\ OneAnswer'
          /\ \A i \in 1 .. Len(orders') : orders'[i] \in Answers =>
               \E k \in 1 .. Len(orders) : orders[k] \in Answers
      BY <1>1, AnswersStay DEF BasicInv
    <2>2. /\ QuestionOpen' /\ OneQuestion'
          /\ \A i \in 1 .. Len(said') : IsGet(said'[i]) =>
               \E k \in 1 .. Len(said) : IsGet(said[k])
      BY <1>1, QuestionsStay DEF BasicInv
    <2>3. NotBoth'
      BY <2>1, <2>2 DEF BasicInv, NotBoth
    <2>4. BasicAnswered'
      BY <1>1 DEF BasicInv, BasicAnswered
    <2> QED
      BY <2>1, <2>2, <2>3, <2>4 DEF BasicInv
  <1>2. said \in Seq(Sayings) /\ orders \in Seq(Orders)
    BY SequenceTypes
  <1>3. CASE Quiet
    BY <1>1, <1>3 DEF Quiet, SaidKept
  <1>4. CASE Telled
    BY <1>1, <1>4 DEF Telled, SaidKept, OrdersKept
  <1>5. CASE Saying
    <2>1. SaidKept /\ OrdersKept /\ UNCHANGED <<asked, heard>>
      BY <1>5 DEF Saying, SaidKept
    <2> QED
      BY <1>1, <2>1
  <1>6. CASE Answered
    <2>1. 1 \in 1 .. Len(said) /\ IsGet(said[1])
      BY <1>2, <1>6 DEF Answered
    <2>2. asked # None /\ heard = None /\ said[1].ep = asked.ep
      BY <2>1 DEF BasicInv, QuestionOpen
    <2>3. asked.value = BasicOf(values)
      <3>1. PICK h : Passing(h)
        BY DEF ValuesInv
      <3>2. asked.value = BasicOf(h[1 - 1]) /\ h[0] = values
        BY <2>1, <3>1 DEF Passing
      <3> QED
        BY <3>2
    <2>4. \A i \in 1 .. Len(said') : ~IsGet(said'[i])
      <3>1. \A i \in 1 .. Len(said') : i + 1 \in 2 .. Len(said) /\ said[i + 1] = said'[i]
        BY <1>2, <1>6 DEF Answered
      <3>2. \A i \in 2 .. Len(said) : ~IsGet(said[i])
        BY <2>1 DEF BasicInv, OneQuestion
      <3> QED
        BY <3>1, <3>2
    <2>5. \A i \in 1 .. Len(orders) : orders[i] \notin Answers
      BY <2>1 DEF BasicInv, NotBoth
    <2> DEFINE o == AnswerCommand(asked.ep, asked.value)
    <2>6. orders' = Append(orders, o)
      BY <1>6, <2>2, <2>3 DEF Answered
    <2> HIDE DEF o
    <2>7. \A i \in 1 .. Len(orders') : orders'[i] \in Answers =>
            i = Len(orders) + 1 /\ orders'[i] = o
      BY <1>2, <2>5, <2>6
    <2>8. asked' = asked /\ heard' = heard
      BY <1>6 DEF Answered
    <2>9. QuestionOpen' /\ OneQuestion' /\ NotBoth'
      BY <2>4 DEF QuestionOpen, OneQuestion, NotBoth
    <2>10. AnswerOpen'
      BY <2>2, <2>7, <2>8 DEF AnswerOpen, o
    <2>11. OneAnswer'
      BY <2>7 DEF OneAnswer
    <2> QED
      BY <2>2, <2>8, <2>9, <2>10, <2>11 DEF BasicInv, BasicAnswered
  <1>7. CASE Asking
    <2>1. PICK r \in Sayings : /\ said' = Append(said, r) /\ IsGet(r)
                               /\ (asked = None) = (heard = None)
                               /\ asked' = [ep |-> r.ep, value |-> BasicOf(reported)]
                               /\ asked' # None /\ heard' = None /\ orders' = orders
      BY <1>7 DEF Asking
    <2>2. \A i \in 1 .. Len(said) : ~IsGet(said[i])
      BY <2>1 DEF BasicInv, QuestionOpen
    <2>3. \A i \in 1 .. Len(orders') : orders'[i] \notin Answers
      BY <2>1 DEF BasicInv, AnswerOpen
    <2>4. \A i \in 1 .. Len(said') : IsGet(said'[i]) => i = Len(said) + 1 /\ said'[i] = r
      BY <1>2, <2>1, <2>2
    <2>5. asked'.ep = r.ep
      BY <2>1
    <2>6. QuestionOpen'
      BY <2>1, <2>4, <2>5 DEF QuestionOpen
    <2>7. OneQuestion'
      BY <2>4 DEF OneQuestion
    <2>8. AnswerOpen' /\ OneAnswer' /\ NotBoth'
      BY <2>3 DEF AnswerOpen, OneAnswer, NotBoth
    <2> QED
      BY <2>1, <2>6, <2>7, <2>8 DEF BasicInv, BasicAnswered
  <1>8. CASE Hearing
    <2>1. PICK ep \in Byte, v \in Byte :
            orders[1] = AnswerCommand(ep, v) /\ heard' = [ep |-> ep, value |-> v]
      BY <1>8 DEF Hearing
    <2>2. 1 \in 1 .. Len(orders) /\ orders[1] \in Answers
      BY <1>2, <1>8 DEF Hearing
    <2>3. asked # None /\ orders[1] = AnswerCommand(asked.ep, asked.value)
      BY <2>2 DEF BasicInv, AnswerOpen
    <2>4. asked \in Basics
      BY <2>3 DEF TypeInv
    <2>5. asked.ep \in Byte /\ asked.value \in Byte /\ asked = [ep |-> asked.ep, value |-> asked.value]
      BY <2>4 DEF Basics
    <2>6. ep = asked.ep /\ v = asked.value
      <3>1. AnswerCommand(ep, v) = AnswerCommand(asked.ep, asked.value)
        BY <2>1, <2>3
      <3> QED
        BY <2>5, <3>1, AnswerIs
    <2>7. heard' = asked'
      BY <1>8, <2>1, <2>5, <2>6 DEF Hearing
    <2>8. \A i \in 1 .. Len(orders') : orders'[i] \notin Answers
      <3>1. \A i \in 1 .. Len(orders') : i + 1 \in 2 .. Len(orders) /\ orders[i + 1] = orders'[i]
        BY <1>2, <1>8 DEF Hearing
      <3>2. \A i \in 2 .. Len(orders) : orders[i] \notin Answers
        BY <2>2 DEF BasicInv, OneAnswer
      <3> QED
        BY <3>1, <3>2, ZenonT(60)
    <2>9. \A i \in 1 .. Len(said') : ~IsGet(said'[i])
      BY <1>8, <2>2 DEF BasicInv, NotBoth, Hearing
    <2>10. QuestionOpen' /\ OneQuestion' /\ AnswerOpen' /\ OneAnswer' /\ NotBoth'
      BY <2>8, <2>9 DEF QuestionOpen, OneQuestion, AnswerOpen, OneAnswer, NotBoth
    <2> QED
      BY <2>7, <2>10 DEF BasicInv, BasicAnswered
  <1> QED
    BY <1>3, <1>4, <1>5, <1>6, <1>7, <1>8, AskKinds

\* Nothing is on the line at the start.
LEMMA NothingSaid ==
  ASSUME ReportsAssumption, Init
  PROVE  /\ air = <<>> /\ said = <<>> /\ Len(said) = 0
         /\ outbox = <<>> /\ orders = <<>> /\ Len(orders) = 0
  <1>1. air = <<>> /\ outbox = <<>>
    BY DEF Init
  <1>2. TypeInv
    BY TypeInit
  <1>3. Len(said) = 0 /\ said \in Seq(Sayings) /\ Len(orders) = 0 /\ orders \in Seq(Orders)
    BY <1>1, <1>2, SequenceTypes
  <1> QED
    BY <1>1, <1>3

\* There the node has reported what the program has: nothing.
LEMMA ValuesInit ==
  ASSUME ReportsAssumption, Init
  PROVE  ValuesInv
  <1>1. TypeInv /\ reported = values
    BY TypeInit DEF Init
  <1>2. values \in ValueStates
    BY <1>1 DEF TypeInv
  <1>3. PICK h : IsRun(h, <<>>, Telling, ValueStates) /\ h[0] = values
    <2> DEFINE h == [k \in 0 .. 0 |-> values]
    <2>1. IsRun(h, <<>>, Telling, ValueStates) /\ h[0] = values
      BY <1>2 DEF IsRun
    <2> QED
      BY <2>1
  <1>4. Passing(h)
    <2>1. said = <<>> /\ Len(said) = 0
      BY NothingSaid
    <2>2. IsRun(h, said, Telling, ValueStates)
      BY <1>3, <2>1, Zenon
    <2> QED
      BY <1>1, <1>3, <2>1, <2>2 DEF Passing
  <1> QED
    BY <1>4 DEF ValuesInv

\* And nobody has asked.
LEMMA BasicInit ==
  ASSUME ReportsAssumption, Init
  PROVE  BasicInv
  <1>1. heard = None
    BY DEF Init
  <1> QED
    BY <1>1, NothingSaid DEF BasicInv, QuestionOpen, AnswerOpen, OneQuestion, OneAnswer,
       NotBoth, BasicAnswered

\* The inductive invariant of values and questions: whatever is on the line, in
\* any order and number, leads from the values the program has to those the
\* node has reported (the handlers of the value classes, Device.cpp:97-374).
THEOREM ValuesPass == Spec => [](ValuesInv /\ BasicInv)
  <1>1. Init => ValuesInv /\ BasicInv
    BY ReportsAssumption, ValuesInit, BasicInit
  <1>2. TypeInv /\ ValuesInv /\ BasicInv /\ [Next]_vars => (ValuesInv /\ BasicInv)'
    BY ReportsAssumption, ValuesNext, BasicNext
  <1> QED
    BY <1>1, <1>2, TypesHold, PTL DEF Spec

\* When nothing is on the line, the program has the values the node has
\* reported, of whatever class, plain or encapsulated (HandleCCDeviceReport,
\* Node.h:283-312, and the handlers).
THEOREM ValuesAreReported == Spec => []ValuesAsReported
  <1>1. ASSUME TypeInv, ValuesInv PROVE ValuesAsReported
    <2>1. ASSUME air = <<>> PROVE values = reported
      <3>1. Len(said) = 0
        BY <2>1, ReportsAssumption, <1>1, SequenceTypes
      <3>2. PICK h : h[0] = values /\ h[Len(said)] = reported
        BY <1>1 DEF ValuesInv, Passing
      <3> QED
        BY <3>1, <3>2
    <2> QED
      BY <2>1 DEF ValuesAsReported
  <1> QED
    BY <1>1, TypesHold, ValuesPass, PTL

\* A node that asks for BASIC hears the value it has reported last, at the
\* endpoint it asked from (ZW_CC_Basic::HandleReport, Device.cpp:211-239).
THEOREM BasicIsAnswered == Spec => []BasicAnswered
  <1>1. BasicInv => BasicAnswered
    BY DEF BasicInv
  <1> QED
    BY <1>1, ValuesPass, PTL

-----------------------------------------------------------------------------
(* What the program has read of the node's tables.                         *)

tables == <<config, assoc, mcAssoc, awaiting, fresh>>

\* The parameters q mean the numbers w.
Meant(q, w) == \A p \in Params : Signed(q[p]) = w[p]

\* What happens on the line without a word about a table.
SaidPlain ==
  \/ said' = said
  \/ \E r \in Sayings : ~IsTable(r) /\ said' = Append(said, r)
  \/ said' = Tail(said) /\ said # <<>> /\ ~IsTable(said[1])

\* What the order o does to the node is what it does to what the user wants, and
\* to the number of reports the node was asked for.
Wants(o) ==
  /\ \A q \in ParamStates : Meant(q, wanted.param) => Meant(ConfiguredBy(o, q), wanted'.param)
  /\ wanted'.bound = BoundBy(o, wanted.bound)
  /\ gets' = ToldBy(o, gets)

\* What is changed is no longer fresh.
KeepsRead ==
  /\ fresh' \subseteq fresh
  /\ \A p \in Params : <<"param", p>> \in fresh' =>
                         wanted'.param[p] = wanted.param[p] /\ gets'[p] = gets[p]
  /\ \A g \in Groups : <<"assoc", g>> \in fresh' \/ <<"mcAssoc", g>> \in fresh' =>
                         wanted'.bound[g] = wanted.bound[g]

\* Nothing about a table: at most a value or a question comes or goes.
Idle == orders' = orders /\ SaidPlain /\ UNCHANGED <<param, told, bound, wanted, gets, tables>>

\* The user changes what he wants, or asks for a value.
Ordering ==
  /\ awaiting = None /\ awaiting' = None /\ said' = said
  /\ UNCHANGED <<param, told, bound, config, assoc, mcAssoc>> /\ KeepsRead
  /\ \E o \in Orders \ Questions : orders' = Append(orders, o) /\ Wants(o)

\* The program asks for a table.
Enquiring ==
  /\ awaiting = None /\ said' = said /\ UNCHANGED <<param, told, bound, wanted>>
  /\ \E t \in Tables : /\ Question(t) \in Questions /\ orders' = Append(orders, Question(t))
                       /\ awaiting' = t /\ fresh' = fresh \ {t} /\ Forgotten(t)
                       /\ gets' = CountedBy(t, gets)

\* The program answers a question of the node.
Answering ==
  /\ SaidPlain /\ UNCHANGED <<param, told, bound, wanted, gets, tables>>
  /\ \E o \in Answers : orders' = Append(orders, o)

\* The node does what it is told, and reports no table.
Obeying ==
  /\ orders # <<>> /\ orders' = Tail(orders) /\ orders[1] \notin Questions /\ Obeyed
  /\ SaidPlain /\ UNCHANGED <<wanted, gets, tables>>

\* The node reports the table it is asked for.
Reporting ==
  /\ orders # <<>> /\ orders' = Tail(orders) /\ orders[1] \in Questions /\ Obeyed
  /\ \E t \in Tables :
       LET report == TableReport(t, Content(t, told[t[2]]))
       IN orders[1] = Question(t) /\ report \in Sayings /\ said' = Append(said, report)
  /\ UNCHANGED <<param, bound, wanted, gets, tables>>

\* The program stores a report of a table.
Noting ==
  /\ said # <<>> /\ said' = Tail(said) /\ orders' = orders /\ IsTable(said[1])
  /\ \E t, c : IsReportOf(said[1], t, c) /\ Stored(t, c) /\ Reported(t)
  /\ UNCHANGED <<param, told, bound, wanted, gets>>

\* What the user wants of a parameter is what its order does to it: a byte put
\* into a value of one byte is the number the program will read, and a longer
\* one is left alone (Configure, Z_Wave.h:191-196).
LEMMA ConfigureWants ==
  ASSUME ReportsAssumption, TypeInv, NEW p \in Params, NEW b \in Byte, wanted' = Configured(p, b),
         gets' = [gets EXCEPT ![p] = 0]
  PROVE  /\ Wants(ConfigureCommand(p, b)) /\ wanted'.bound = wanted.bound
         /\ \A q \in Params : q # p => wanted'.param[q] = wanted.param[q] /\ gets'[q] = gets[q]
         /\ ConfigureCommand(p, b) \in Orders \ Questions
  <1> DEFINE o == ConfigureCommand(p, b)
  <1>1. wanted \in [param : [Params -> Int], bound : BoundStates]
    BY DEF TypeInv
  <1>2. o \in Configurations
    BY DEF Configurations
  <1>3. o \in Orders /\ o \notin Questions /\ o \notin Changes
    <2> HIDE DEF o
    <2> QED
      BY <1>2, OrderKinds DEF Orders
  <1>4. wanted'.bound = wanted.bound
    BY <1>1 DEF Configured
  <1>5. BoundBy(o, wanted.bound) = wanted.bound
    <2> HIDE DEF o
    <2> QED
      BY <1>3 DEF BoundBy
  <1>6. ASSUME NEW q \in ParamStates, Meant(q, wanted.param)
        PROVE  Meant(ConfiguredBy(o, q), wanted'.param)
    <2>1. ConfiguredBy(o, q) = IF Len(q[p]) = 1 THEN [q EXCEPT ![p] = <<b>>] ELSE q
      BY ConfiguredByFacts
    <2>2. q \in [Params -> Seq(Byte)] /\ Len(q[p]) = Len(ParamBytes[p])
      BY DEF ParamStates
    <2>3. CASE Len(ParamBytes[p]) = 1
      <3>1. ConfiguredBy(o, q) = [q EXCEPT ![p] = <<b>>]
        BY <2>1, <2>2, <2>3
      <3>2. wanted'.param = [wanted.param EXCEPT ![p] = Signed(<<b>>)]
        BY <1>1, <2>3 DEF Configured
      <3>3. wanted.param \in [Params -> Int]
        BY <1>1
      <3> HIDE DEF o
      <3> QED
        BY <1>6, <2>2, <3>1, <3>2, <3>3 DEF Meant
    <2>4. CASE Len(ParamBytes[p]) # 1
      <3>1. ConfiguredBy(o, q) = q
        BY <2>1, <2>2, <2>4
      <3>2. wanted' = wanted
        BY <2>4 DEF Configured
      <3> QED
        BY <1>6, <3>1, <3>2
    <2> QED
      BY <2>3, <2>4
  <1>6a. gets \in Counts
    BY DEF TypeInv
  <1>6b. gets' = ToldBy(o, gets)
    <2>1. ToldBy(o, gets) = [gets EXCEPT ![p] = 0]
      BY <1>6a, ToldByFacts, ZenonT(60)
    <2> QED
      BY <2>1
  <1>7. \A q \in Params : q # p => wanted'.param[q] = wanted.param[q] /\ gets'[q] = gets[q]
    BY <1>1, <1>6a DEF Configured, Counts
  <1>8. Wants(o)
    <2> HIDE DEF o
    <2> QED
      BY <1>4, <1>5, <1>6, <1>6b DEF Wants
  <1> QED
    BY <1>3, <1>4, <1>7, <1>8

\* A binding, and its end.
LEMMA ChangeWants ==
  ASSUME ReportsAssumption, TypeInv, NEW g \in Groups, NEW d \in Destinations, gets' = gets
  PROVE  /\ wanted' = [wanted EXCEPT !.bound[g] = Bound(@, d)] =>
              /\ Wants(SetCommand(1, g, d)) /\ wanted'.param = wanted.param
              /\ \A k \in Groups : k # g => wanted'.bound[k] = wanted.bound[k]
         /\ wanted' = [wanted EXCEPT !.bound[g] = @ \ {d}] =>
              /\ Wants(SetCommand(4, g, d)) /\ wanted'.param = wanted.param
              /\ \A k \in Groups : k # g => wanted'.bound[k] = wanted.bound[k]
         /\ \A id \in SetIds : SetCommand(id, g, d) \in Orders \ Questions
  <1>1. wanted \in [param : [Params -> Int], bound : BoundStates]
    BY DEF TypeInv
  <1>2. ASSUME NEW id \in SetIds
        PROVE  /\ SetCommand(id, g, d) \in Orders \ Questions
               /\ SetCommand(id, g, d) \notin Configurations
               /\ gets' = ToldBy(SetCommand(id, g, d), gets)
    <2> DEFINE o == SetCommand(id, g, d)
    <2>1. o \in Changes
      BY DEF Changes
    <2> HIDE DEF o
    <2>2. o \in Orders /\ o \notin Questions /\ o \notin Configurations
      BY <2>1, OrderKinds DEF Orders
    <2>3. gets' = ToldBy(o, gets)
      BY <2>2 DEF ToldBy
    <2> QED
      BY <2>2, <2>3 DEF o
  <1>3. 1 \in SetIds /\ 4 \in SetIds
    BY DEF SetIds
  <1>4. ASSUME NEW o, o \notin Configurations, wanted'.param = wanted.param,
               wanted'.bound = BoundBy(o, wanted.bound), gets' = ToldBy(o, gets)
        PROVE  Wants(o)
    <2>1. \A q \in ParamStates : ConfiguredBy(o, q) = q
      BY <1>4 DEF ConfiguredBy
    <2> QED
      BY <1>4, <2>1 DEF Wants
  <1>5. /\ BoundBy(SetCommand(1, g, d), wanted.bound) = [wanted.bound EXCEPT ![g] = Bound(@, d)]
        /\ BoundBy(SetCommand(4, g, d), wanted.bound) = [wanted.bound EXCEPT ![g] = @ \ {d}]
    <2> DEFINE B == wanted.bound
    <2>1. B \in BoundStates
      BY <1>1
    <2> HIDE DEF B
    <2>2. \A h \in Groups, e \in Destinations :
            /\ BoundBy(SetCommand(1, h, e), B) = [B EXCEPT ![h] = Bound(@, e)]
            /\ BoundBy(SetCommand(4, h, e), B) = [B EXCEPT ![h] = @ \ {e}]
      BY <2>1, BoundByFacts, Zenon
    <2>3. /\ BoundBy(SetCommand(1, g, d), B) = [B EXCEPT ![g] = Bound(@, d)]
          /\ BoundBy(SetCommand(4, g, d), B) = [B EXCEPT ![g] = @ \ {d}]
      BY <2>2, Zenon
    <2> QED
      BY <2>3 DEF B
  <1>6. ASSUME NEW B, wanted' = [wanted EXCEPT !.bound[g] = B]
        PROVE  /\ wanted'.param = wanted.param /\ wanted'.bound = [wanted.bound EXCEPT ![g] = B]
               /\ \A k \in Groups : k # g => wanted'.bound[k] = wanted.bound[k]
    BY <1>1, <1>6 DEF BoundStates
  <1>7. ASSUME wanted' = [wanted EXCEPT !.bound[g] = Bound(@, d)]
        PROVE  /\ Wants(SetCommand(1, g, d)) /\ wanted'.param = wanted.param
               /\ \A k \in Groups : k # g => wanted'.bound[k] = wanted.bound[k]
    <2>1. wanted' = [wanted EXCEPT !.bound[g] = Bound(wanted.bound[g], d)]
      BY <1>7
    <2>2. /\ wanted'.param = wanted.param
          /\ wanted'.bound = [wanted.bound EXCEPT ![g] = Bound(wanted.bound[g], d)]
          /\ \A k \in Groups : k # g => wanted'.bound[k] = wanted.bound[k]
      BY <1>6, <2>1
    <2>3. Wants(SetCommand(1, g, d))
      BY <1>2, <1>3, <1>4, <1>5, <2>2
    <2> QED
      BY <2>2, <2>3
  <1>8. ASSUME wanted' = [wanted EXCEPT !.bound[g] = @ \ {d}]
        PROVE  /\ Wants(SetCommand(4, g, d)) /\ wanted'.param = wanted.param
               /\ \A k \in Groups : k # g => wanted'.bound[k] = wanted.bound[k]
    <2>1. wanted' = [wanted EXCEPT !.bound[g] = wanted.bound[g] \ {d}]
      BY <1>8
    <2>2. /\ wanted'.param = wanted.param
          /\ wanted'.bound = [wanted.bound EXCEPT ![g] = wanted.bound[g] \ {d}]
          /\ \A k \in Groups : k # g => wanted'.bound[k] = wanted.bound[k]
      BY <1>6, <2>1
    <2>3. Wants(SetCommand(4, g, d))
      BY <1>2, <1>3, <1>4, <1>5, <2>2
    <2> QED
      BY <2>2, <2>3
  <1> QED
    BY <1>2, <1>7, <1>8

\* A value, a question or an announcement is no table.
LEMMA ValueIsPlain ==
  ASSUME NEW r \in Sayings
  PROVE  IsValue(r) \/ IsGet(r) \/ IsWake(r) => ~IsTable(r)
  BY SayingKinds

\* Neither is what the node says of itself.
LEMMA SaysPlain ==
  ASSUME SaysValue
  PROVE  SaidPlain
  <1>1. PICK r \in Sayings : IsValue(r) /\ said' = Append(said, r)
    BY DEF SaysValue
  <1> QED
    BY <1>1, ValueIsPlain DEF SaidPlain

\* Nor is what a handler of values takes.
LEMMA TakenIsPlain ==
  ASSUME said' = Tail(said), said # <<>>, said \in Seq(Sayings), ~IsTable(said[1]) \/ IsValue(said[1]) \/ IsGet(said[1])
  PROVE  SaidPlain
  <1>1. said[1] \in Sayings
    OBVIOUS
  <1>2. ~IsTable(said[1])
    BY <1>1, ValueIsPlain
  <1> QED
    BY <1>2 DEF SaidPlain

\* No order asks for a table.
LEMMA NoQuestion ==
  ASSUME ReportsAssumption, NEW o \in Configurations \cup Changes \cup Answers \cup BatteryGets
  PROVE  o \in Orders /\ o \notin Questions
  BY OrderKinds DEF Orders

\* The steps of the user and of the worker are of these kinds.
LEMMA UserKinds ==
  ASSUME ReportsAssumption, TypeInv
  PROVE  /\ \A p \in Params, v \in UserValues : Configure(p, v) => Ordering
         /\ \A g \in Groups, d \in Destinations : Bind(g, d) \/ Unbind(g, d) => Ordering
         /\ RequestBattery => Ordering
         /\ \A t \in Tables : Asks(t) => Enquiring
  <1>1. ASSUME NEW p \in Params, NEW v \in UserValues, Configure(p, v) PROVE Ordering
    <2>1. said' = said
      BY <1>1, ConfigureStep
    <2>2. PICK b \in Byte : /\ orders' = Append(orders, ConfigureCommand(p, b))
                            /\ wanted' = Configured(p, b) /\ gets' = [gets EXCEPT ![p] = 0]
      BY <1>1, ConfigureStep
    <2>3. /\ Wants(ConfigureCommand(p, b)) /\ wanted'.bound = wanted.bound
          /\ \A q \in Params : q # p => wanted'.param[q] = wanted.param[q] /\ gets'[q] = gets[q]
          /\ ConfigureCommand(p, b) \in Orders \ Questions
      BY <2>2, ConfigureWants
    <2>4. awaiting = None /\ fresh' = fresh \ {<<"param", p>>}
          /\ UNCHANGED <<awaiting, param, told, bound, config, assoc, mcAssoc>>
      BY <1>1 DEF Configure, Job, Stale, program, node
    <2>5. KeepsRead
      BY <2>3, <2>4 DEF KeepsRead
    <2> QED
      BY <2>1, <2>2, <2>3, <2>4, <2>5 DEF Ordering
  <1>2. ASSUME NEW g \in Groups, NEW d \in Destinations, Bind(g, d) PROVE Ordering
    <2>1. /\ said' = said /\ orders' = Append(orders, SetCommand(1, g, d))
          /\ wanted' = [wanted EXCEPT !.bound[g] = Bound(@, d)] /\ gets' = gets
      BY <1>2, BindStep, ZenonT(60)
    <2>2. /\ Wants(SetCommand(1, g, d)) /\ wanted'.param = wanted.param
          /\ \A k \in Groups : k # g => wanted'.bound[k] = wanted.bound[k]
      BY <2>1, ChangeWants, ZenonT(60)
    <2>3. SetCommand(1, g, d) \in Orders \ Questions
      BY <2>1, ChangeWants DEF SetIds
    <2>4. awaiting = None /\ fresh' = fresh \ {<<"assoc", g>>, <<"mcAssoc", g>>}
          /\ UNCHANGED <<awaiting, param, told, bound, config, assoc, mcAssoc>>
      BY <1>2 DEF Bind, Job, Stale, program, node
    <2>5. KeepsRead
      BY <2>1, <2>2, <2>4 DEF KeepsRead
    <2> QED
      BY <2>1, <2>2, <2>3, <2>4, <2>5 DEF Ordering
  <1>3. ASSUME NEW g \in Groups, NEW d \in Destinations, Unbind(g, d) PROVE Ordering
    <2>1. /\ said' = said /\ orders' = Append(orders, SetCommand(4, g, d))
          /\ wanted' = [wanted EXCEPT !.bound[g] = @ \ {d}] /\ gets' = gets
      BY <1>3, UnbindStep, ZenonT(60)
    <2>2. /\ Wants(SetCommand(4, g, d)) /\ wanted'.param = wanted.param
          /\ \A k \in Groups : k # g => wanted'.bound[k] = wanted.bound[k]
      BY <2>1, ChangeWants, ZenonT(60)
    <2>3. SetCommand(4, g, d) \in Orders \ Questions
      BY <2>1, ChangeWants DEF SetIds
    <2>4. awaiting = None /\ fresh' = fresh \ {<<"assoc", g>>, <<"mcAssoc", g>>}
          /\ UNCHANGED <<awaiting, param, told, bound, config, assoc, mcAssoc>>
      BY <1>3 DEF Unbind, Job, Stale, program, node
    <2>5. KeepsRead
      BY <2>1, <2>2, <2>4 DEF KeepsRead
    <2> QED
      BY <2>1, <2>2, <2>3, <2>4, <2>5 DEF Ordering
  <1>4. ASSUME RequestBattery PROVE Ordering
    <2>1. said' = said /\ orders' = Append(orders, BatteryCommand)
      BY <1>4, RequestBatteryStep
    <2>2. BATTERY \in Classes /\ awaiting = None
          /\ UNCHANGED <<awaiting, param, told, bound, config, assoc, mcAssoc, wanted, gets, fresh>>
      BY <1>4 DEF RequestBattery, Job, program, node, history
    <2>3. BatteryCommand \in BatteryGets
      BY <2>2 DEF BatteryGets
    <2> DEFINE o == BatteryCommand
    <2>4. o \in Orders \ Questions /\ o \notin Configurations /\ o \notin Changes
      <3> HIDE DEF o
      <3>1. o \in BatteryGets
        BY <2>3 DEF o
      <3> QED
        BY <3>1, NoQuestion, OrderKinds
    <2> HIDE DEF o
    <2>5. Wants(o)
      BY <2>2, <2>4 DEF Wants, ConfiguredBy, BoundBy, ToldBy
    <2>6. KeepsRead
      BY <2>2 DEF KeepsRead
    <2> QED
      BY <2>1, <2>2, <2>4, <2>5, <2>6 DEF Ordering, o
  <1>5. ASSUME NEW t \in Tables, Asks(t) PROVE Enquiring
    <2>1. /\ said' = said /\ orders' = Append(orders, Question(t))
          /\ awaiting = None /\ awaiting' = t /\ fresh' = fresh \ {t} /\ Forgotten(t)
          /\ gets' = CountedBy(t, gets) /\ UNCHANGED <<node, wanted>>
      BY <1>5, AsksStep
    <2>2. Question(t) \in Questions
      <3>1. TableClass(t) \in Classes
        BY <1>5, TableFacts, ZenonT(60) DEF Asks, TableClass, ConfigurationGet, AssociationGet,
           MultiChannelAssociationGet, Job
      <3> QED
        BY <3>1 DEF Questions
    <2> QED
      BY <2>1, <2>2 DEF Enquiring, node
  <1> QED
    BY <1>1, <1>2, <1>3, <1>4, <1>5

\* Every step is of one of these kinds.
LEMMA NodeKinds ==
  ASSUME ReportsAssumption, TypeInv, [Next]_vars
  PROVE  Idle \/ Ordering \/ Enquiring \/ Answering \/ Obeying \/ Reporting \/ Noting
  <1> USE DEF program, node, history, tables
  <1>1. ASSUME HandleValueReport PROVE Idle
    BY <1>1, ValueStep, TakenIsPlain DEF Idle
  <1>2. ASSUME HandleBasicGet PROVE Answering
    <2>1. /\ said' = Tail(said) /\ said # <<>> /\ said \in Seq(Sayings)
          /\ IsGet(said[1]) /\ said[1].ep \in Byte /\ BasicOf(values) \in Byte
          /\ orders' = Append(orders, AnswerCommand(said[1].ep, BasicOf(values)))
          /\ UNCHANGED <<program, node, history>>
      BY <1>2, GetStep
    <2>2. SaidPlain
      BY <2>1, TakenIsPlain
    <2>3. AnswerCommand(said[1].ep, BasicOf(values)) \in Answers
      BY <2>1 DEF Answers
    <2> QED
      BY <2>1, <2>2, <2>3 DEF Answering
  <1>3. ASSUME HandleTableReport PROVE Noting
    BY <1>3, TableStep DEF Noting
  <1>4. ASSUME DropReport PROVE Idle
    BY <1>4, DropStep, TakenIsPlain DEF Idle
  <1>5. ASSUME RejectFrame PROVE Idle
    BY <1>5, RejectStep DEF Idle, SaidPlain
  <1>6. ASSUME NEW mask \in Masks, Damage(mask) PROVE Idle
    BY <1>6, DamageStep DEF Idle, SaidPlain
  <1>7. ASSUME NodeIsConfigured PROVE Obeying
    <2>1. /\ orders' = Tail(orders) /\ orders # <<>> /\ orders[1] \in Configurations
          /\ said' = said /\ Obeyed /\ UNCHANGED <<program, history>>
      BY <1>7, ConfiguredStep
    <2>2. orders[1] \notin Questions
      BY <2>1, NoQuestion
    <2> QED
      BY <2>1, <2>2 DEF Obeying, SaidPlain
  <1>8. ASSUME ChangesNode PROVE Obeying
    <2>1. /\ orders' = Tail(orders) /\ orders # <<>> /\ orders[1] \in Changes
          /\ said' = said /\ Obeyed /\ UNCHANGED <<program, history>>
      BY <1>8, ChangedStep
    <2>2. orders[1] \notin Questions
      BY <2>1, NoQuestion
    <2> QED
      BY <2>1, <2>2 DEF Obeying, SaidPlain
  <1>9. ASSUME ReportsTable PROVE Reporting
    BY <1>9, TableSaidStep DEF Reporting
  <1>10. ASSUME NodeReportsBattery PROVE Obeying
    <2>1. /\ orders' = Tail(orders) /\ orders # <<>> /\ orders[1] \in BatteryGets
          /\ Obeyed /\ SaysValue /\ UNCHANGED <<program, wanted, gets, fresh>>
      BY <1>10, BatterySaidStep
    <2>2. orders[1] \notin Questions
      BY <2>1, NoQuestion
    <2> QED
      BY <2>1, <2>2, SaysPlain DEF Obeying
  <1>11. ASSUME NodeHears PROVE Obeying
    <2>1. /\ orders' = Tail(orders) /\ orders # <<>> /\ orders[1] \in Answers
          /\ Obeyed /\ said' = said /\ UNCHANGED <<program, history>>
      BY <1>11, HearStep
    <2>2. orders[1] \notin Questions
      BY <2>1, NoQuestion
    <2> QED
      BY <2>1, <2>2 DEF Obeying, SaidPlain
  <1>12. ASSUME NEW c \in ValueClasses \cap Classes, NEW ep \in Endpoints \cup {0},
                NodeReports(c, ep)
         PROVE  Idle
    BY <1>12, ReportStep, SaysPlain DEF Idle
  <1>13. ASSUME NEW ep \in Endpoints \cup {0}, NodeAsks(ep) PROVE Idle
    <2>1. /\ orders' = orders /\ GetReport(ep) \in Sayings /\ IsGet(GetReport(ep))
          /\ said' = Append(said, GetReport(ep))
          /\ UNCHANGED <<program, param, told, bound, history>>
      BY <1>13, AskStep
    <2>2. SaidPlain
      BY <2>1, ValueIsPlain DEF SaidPlain
    <2> QED
      BY <2>1, <2>2 DEF Idle
  <1>14. ASSUME NodeWakes PROVE Idle
    <2>1. /\ orders' = orders /\ WakeReport \in Sayings /\ IsWake(WakeReport)
          /\ said' = Append(said, WakeReport)
          /\ UNCHANGED <<program, node, history>>
      BY <1>14, WakeStep
    <2>2. SaidPlain
      BY <2>1, ValueIsPlain DEF SaidPlain
    <2> QED
      BY <2>1, <2>2 DEF Idle
  <1>15. ASSUME UNCHANGED vars PROVE Idle
    BY <1>15 DEF vars, Idle, SaidPlain, said, orders
  <1> QED
    BY NextKinds, UserKinds, <1>1, <1>2, <1>3, <1>4, <1>5, <1>6, <1>7, <1>8, <1>9, <1>10,
       <1>11, <1>12, <1>13, <1>14, <1>15, SMTT(60)

\* What an order does to the parameters of the node, and to its groups.
Configuring == [o \in Orders |-> [q \in ParamStates |-> ConfiguredBy(o, q)]]
Binding     == [o \in Orders |-> [b \in BoundStates |-> BoundBy(o, b)]]
\* And to the number of reports the node has given.
Counting    == [o \in Orders |-> [n \in Counts |-> ToldBy(o, n)]]

\* These are functions from states to states.
LEMMA ConfiguringType ==
  ASSUME ReportsAssumption
  PROVE  /\ Configuring \in StepFunctions(Orders, ParamStates)
         /\ \A o \in Orders, q \in ParamStates :
              Configuring[o][q] = ConfiguredBy(o, q) /\ ConfiguredBy(o, q) \in ParamStates
  <1>1. \A o \in Orders, q \in ParamStates : ConfiguredBy(o, q) \in ParamStates
    BY ConfiguredByFacts
  <1> QED
    BY <1>1 DEF Configuring, StepFunctions

\* These too: a group that is bound once more still fits into a report.
LEMMA BindingType ==
  ASSUME ReportsAssumption
  PROVE  /\ Binding \in StepFunctions(Orders, BoundStates)
         /\ \A o \in Orders, b \in BoundStates :
              Binding[o][b] = BoundBy(o, b) /\ BoundBy(o, b) \in BoundStates
  <1>1. \A o \in Orders, b \in BoundStates : BoundBy(o, b) \in BoundStates
    BY BoundByFacts
  <1> QED
    BY <1>1 DEF Binding, StepFunctions

\* And these.
LEMMA CountingType ==
  ASSUME ReportsAssumption
  PROVE  /\ Counting \in StepFunctions(Orders, Counts)
         /\ \A o \in Orders, n \in Counts :
              Counting[o][n] = ToldBy(o, n) /\ ToldBy(o, n) \in Counts
  <1>1. \A o \in Orders, n \in Counts : ToldBy(o, n) \in Counts
    BY ToldByFacts
  <1> QED
    BY <1>1 DEF Counting, StepFunctions

\* The node's tables pass through the orders on the line: what the node has, with
\* all that is on the way, is what the user wants.
Configures(h) == /\ IsRun(h, orders, Configuring, ParamStates)
                 /\ h[0] = param /\ Meant(h[Len(orders)], wanted.param)
Binds(h)      == /\ IsRun(h, orders, Binding, BoundStates)
                 /\ h[0] = bound /\ h[Len(orders)] = wanted.bound
Counted(h)    == /\ IsRun(h, orders, Counting, Counts)
                 /\ h[0] = told /\ h[Len(orders)] = gets

\* There is a way for the parameters, one for the groups, and one for the number
\* of reports: the node has given as many as it was asked for, but for the
\* questions on the way.
NodeInv == (\E h : Configures(h)) /\ (\E h : Binds(h)) /\ (\E h : Counted(h))

\* At the start the user wants what the node has.
LEMMA NodeInit ==
  ASSUME ReportsAssumption, Init
  PROVE  NodeInv
  <1>1. TypeInv /\ Meant(param, wanted.param) /\ wanted.bound = bound
    <2>1. TypeInv
      BY TypeInit
    <2>2. param = ParamBytes /\ bound = FirstBound
          /\ wanted = [param |-> [p \in Params |-> Signed(ParamBytes[p])], bound |-> FirstBound]
      BY DEF Init
    <2> QED
      BY <2>1, <2>2 DEF Meant
  <1>2. param \in ParamStates /\ bound \in BoundStates
    BY <1>1 DEF TypeInv
  <1>3. orders = <<>> /\ Len(orders) = 0
    BY NothingSaid
  <1>4. \E h : Configures(h)
    <2> DEFINE h == [k \in 0 .. 0 |-> param]
    <2>1. IsRun(h, <<>>, Configuring, ParamStates) /\ h[0] = param
      BY <1>2 DEF IsRun
    <2> HIDE DEF h
    <2>2. IsRun(h, orders, Configuring, ParamStates)
      BY <1>3, <2>1, Zenon
    <2> QED
      BY <1>1, <1>3, <2>1, <2>2 DEF Configures
  <1>5. \E h : Binds(h)
    <2> DEFINE h == [k \in 0 .. 0 |-> bound]
    <2>1. IsRun(h, <<>>, Binding, BoundStates) /\ h[0] = bound
      BY <1>2 DEF IsRun
    <2> HIDE DEF h
    <2>2. IsRun(h, orders, Binding, BoundStates)
      BY <1>3, <2>1, Zenon
    <2> QED
      BY <1>1, <1>3, <2>1, <2>2 DEF Binds
  <1>6. told \in Counts /\ gets = told
    BY <1>1 DEF TypeInv, Init
  <1>7. \E h : Counted(h)
    <2> DEFINE h == [k \in 0 .. 0 |-> told]
    <2>1. IsRun(h, <<>>, Counting, Counts) /\ h[0] = told
      BY <1>6 DEF IsRun
    <2> HIDE DEF h
    <2>2. IsRun(h, orders, Counting, Counts)
      BY <1>3, <2>1, Zenon
    <2> QED
      BY <1>3, <1>6, <2>1, <2>2 DEF Counted
  <1> QED
    BY <1>4, <1>5, <1>7 DEF NodeInv

\* A run of what is on the line, and of one order more.
LEMMA RunOfOneMore ==
  ASSUME NEW States, NEW step, step \in StepFunctions(Orders, States), NEW o, o \in Orders,
         NEW q, q \in Seq(Orders), NEW h, IsRun(h, q, step, States)
  PROVE  \E g : /\ IsRun(g, Append(q, o), step, States)
                /\ g[0] = h[0] /\ g[Len(q) + 1] = step[o][h[Len(q)]] /\ h[Len(q)] \in States
  <1> DEFINE n == Len(q)
             g == Extended(h, n, step[o][h[n]])
  <1>1. IsRun(g, Append(q, o), step, States)
    BY RunOfAppend
  <1>2. n \in Nat
    OBVIOUS
  <1>3. g[0] = h[0] /\ g[n + 1] = step[o][h[n]]
    BY <1>2 DEF Extended
  <1>4. h[n] \in States
    BY <1>2 DEF IsRun
  <1> HIDE DEF g
  <1> QED
    BY <1>1, <1>3, <1>4

\* A run of what is behind the first order.
LEMMA RunOfTheRest ==
  ASSUME NEW States, NEW step, NEW q, q \in Seq(Orders), q # <<>>,
         NEW h, IsRun(h, q, step, States)
  PROVE  \E g : /\ IsRun(g, Tail(q), step, States) /\ h[0] \in States
                /\ g[0] = step[q[1]][h[0]] /\ g[Len(Tail(q))] = h[Len(q)]
  <1> DEFINE n == Len(q)
             g == Shifted(h, n)
  <1>1. IsRun(g, Tail(q), step, States) /\ h[1] = step[Head(q)][h[0]] /\ h[0] \in States
    BY RunOfTail
  <1>2. n \in Nat \ {0} /\ Head(q) = q[1] /\ Len(Tail(q)) = n - 1
    OBVIOUS
  <1>3. g[0] = h[1] /\ g[n - 1] = h[n]
    BY <1>2 DEF Shifted
  <1> HIDE DEF g
  <1> QED
    BY <1>1, <1>2, <1>3

\* An order more lengthens all of them by a step.
LEMMA NodeOrdered ==
  ASSUME ReportsAssumption, TypeInv, NodeInv, NEW o \in Orders, orders' = Append(orders, o),
         Wants(o), UNCHANGED <<param, told, bound>>
  PROVE  NodeInv'
  <1>1. orders \in Seq(Orders) /\ Len(orders') = Len(orders) + 1
    <2>1. orders \in Seq(Orders)
      BY SequenceTypes
    <2> QED
      BY <2>1
  <1>2. \E g : Configures(g)'
    <2>1. PICK h : Configures(h)
      BY DEF NodeInv
    <2>2. IsRun(h, orders, Configuring, ParamStates) /\ h[0] = param
          /\ Meant(h[Len(orders)], wanted.param)
      BY <2>1 DEF Configures
    <2>3. PICK g : /\ IsRun(g, Append(orders, o), Configuring, ParamStates)
                   /\ g[0] = h[0] /\ g[Len(orders) + 1] = Configuring[o][h[Len(orders)]]
                   /\ h[Len(orders)] \in ParamStates
      <3>1. Configuring \in StepFunctions(Orders, ParamStates)
        BY ConfiguringType
      <3> QED
        BY <1>1, <2>2, <3>1, RunOfOneMore
    <2>4. g[Len(orders) + 1] = ConfiguredBy(o, h[Len(orders)])
      BY <2>3, ConfiguringType
    <2>5. Meant(g[Len(orders) + 1], wanted'.param)
      BY <2>2, <2>3, <2>4 DEF Wants
    <2>6. IsRun(g, orders', Configuring, ParamStates) /\ g[0] = param'
          /\ Meant(g[Len(orders')], wanted'.param)
      BY <1>1, <2>2, <2>3, <2>5
    <2> QED
      BY <2>6 DEF Configures
  <1>3. \E g : Binds(g)'
    <2>1. PICK h : Binds(h)
      BY DEF NodeInv
    <2>2. IsRun(h, orders, Binding, BoundStates) /\ h[0] = bound
          /\ h[Len(orders)] = wanted.bound
      BY <2>1 DEF Binds
    <2>3. PICK g : /\ IsRun(g, Append(orders, o), Binding, BoundStates)
                   /\ g[0] = h[0] /\ g[Len(orders) + 1] = Binding[o][h[Len(orders)]]
                   /\ h[Len(orders)] \in BoundStates
      <3>1. Binding \in StepFunctions(Orders, BoundStates)
        BY BindingType
      <3> QED
        BY <1>1, <2>2, <3>1, RunOfOneMore
    <2>4. g[Len(orders) + 1] = BoundBy(o, h[Len(orders)])
      BY <2>3, BindingType
    <2>5. g[Len(orders) + 1] = wanted'.bound
      BY <2>2, <2>4 DEF Wants
    <2>6. IsRun(g, orders', Binding, BoundStates) /\ g[0] = bound'
          /\ g[Len(orders')] = wanted'.bound
      BY <1>1, <2>2, <2>3, <2>5
    <2> QED
      BY <2>6 DEF Binds
  <1>4. \E g : Counted(g)'
    <2>1. PICK h : Counted(h)
      BY DEF NodeInv
    <2>2. IsRun(h, orders, Counting, Counts) /\ h[0] = told /\ h[Len(orders)] = gets
      BY <2>1 DEF Counted
    <2>3. PICK g : /\ IsRun(g, Append(orders, o), Counting, Counts)
                   /\ g[0] = h[0] /\ g[Len(orders) + 1] = Counting[o][h[Len(orders)]]
                   /\ h[Len(orders)] \in Counts
      <3>1. Counting \in StepFunctions(Orders, Counts)
        BY CountingType
      <3> QED
        BY <1>1, <2>2, <3>1, RunOfOneMore
    <2>4. g[Len(orders) + 1] = ToldBy(o, h[Len(orders)])
      BY <2>3, CountingType
    <2>5. g[Len(orders) + 1] = gets'
      BY <2>2, <2>4 DEF Wants
    <2>6. IsRun(g, orders', Counting, Counts) /\ g[0] = told' /\ g[Len(orders')] = gets'
      BY <1>1, <2>2, <2>3, <2>5
    <2> QED
      BY <2>6 DEF Counted
  <1> QED
    BY <1>2, <1>3, <1>4 DEF NodeInv

\* An order that is obeyed is the first step of all of them.
LEMMA NodeObeyed ==
  ASSUME ReportsAssumption, TypeInv, NodeInv, orders # <<>>, orders' = Tail(orders), Obeyed,
         wanted' = wanted, gets' = gets
  PROVE  NodeInv'
  <1>1. orders \in Seq(Orders) /\ orders[1] \in Orders
    <2>1. orders \in Seq(Orders)
      BY SequenceTypes
    <2> QED
      BY <2>1
  <1>2. \E g : Configures(g)'
    <2>1. PICK h : Configures(h)
      BY DEF NodeInv
    <2>2. IsRun(h, orders, Configuring, ParamStates) /\ h[0] = param
          /\ Meant(h[Len(orders)], wanted.param)
      BY <2>1 DEF Configures
    <2>3. PICK g : /\ IsRun(g, Tail(orders), Configuring, ParamStates) /\ h[0] \in ParamStates
                   /\ g[0] = Configuring[orders[1]][h[0]] /\ g[Len(Tail(orders))] = h[Len(orders)]
      BY <1>1, <2>2, RunOfTheRest
    <2>4. g[0] = ConfiguredBy(orders[1], param)
      BY <1>1, <2>2, <2>3, ConfiguringType, ZenonT(60)
    <2>5. IsRun(g, orders', Configuring, ParamStates) /\ g[0] = param'
          /\ Meant(g[Len(orders')], wanted'.param)
      BY <2>2, <2>3, <2>4 DEF Obeyed
    <2> QED
      BY <2>5 DEF Configures
  <1>3. \E g : Binds(g)'
    <2>1. PICK h : Binds(h)
      BY DEF NodeInv
    <2>2. IsRun(h, orders, Binding, BoundStates) /\ h[0] = bound
          /\ h[Len(orders)] = wanted.bound
      BY <2>1 DEF Binds
    <2>3. PICK g : /\ IsRun(g, Tail(orders), Binding, BoundStates) /\ h[0] \in BoundStates
                   /\ g[0] = Binding[orders[1]][h[0]] /\ g[Len(Tail(orders))] = h[Len(orders)]
      BY <1>1, <2>2, RunOfTheRest
    <2>4. g[0] = BoundBy(orders[1], bound)
      BY <1>1, <2>2, <2>3, BindingType
    <2>5. IsRun(g, orders', Binding, BoundStates) /\ g[0] = bound'
          /\ g[Len(orders')] = wanted'.bound
      BY <2>2, <2>3, <2>4 DEF Obeyed
    <2> QED
      BY <2>5 DEF Binds
  <1>4. \E g : Counted(g)'
    <2>1. PICK h : Counted(h)
      BY DEF NodeInv
    <2>2. IsRun(h, orders, Counting, Counts) /\ h[0] = told /\ h[Len(orders)] = gets
      BY <2>1 DEF Counted
    <2>3. PICK g : /\ IsRun(g, Tail(orders), Counting, Counts) /\ h[0] \in Counts
                   /\ g[0] = Counting[orders[1]][h[0]] /\ g[Len(Tail(orders))] = h[Len(orders)]
      BY <1>1, <2>2, RunOfTheRest
    <2>4. g[0] = ToldBy(orders[1], told)
      BY <1>1, <2>2, <2>3, CountingType
    <2>5. IsRun(g, orders', Counting, Counts) /\ g[0] = told' /\ g[Len(orders')] = gets'
      BY <2>2, <2>3, <2>4 DEF Obeyed
    <2> QED
      BY <2>5 DEF Counted
  <1> QED
    BY <1>2, <1>3, <1>4 DEF NodeInv

\* The tables keep passing.
LEMMA NodeNextInv ==
  ASSUME ReportsAssumption, TypeInv, NodeInv, [Next]_vars
  PROVE  NodeInv'
  <1>1. ASSUME orders' = orders, UNCHANGED <<param, told, bound, wanted, gets>> PROVE NodeInv'
    BY <1>1 DEF NodeInv, Configures, Binds, Counted
  <1>2. CASE Idle
    BY <1>1, <1>2 DEF Idle
  <1>3. CASE Noting
    BY <1>1, <1>3 DEF Noting
  <1>4. CASE Ordering
    BY <1>4, NodeOrdered DEF Ordering
  <1>5. ASSUME NEW o \in Questions \cup Answers, orders' = Append(orders, o),
               UNCHANGED <<param, told, bound, wanted>>, gets' = ToldBy(o, gets)
        PROVE  NodeInv'
    <2>1. Wants(o)
      <3>1. \A q \in ParamStates : ConfiguredBy(o, q) = q
        BY OtherOrders, ConfiguredByFacts, OrderKinds, SMTT(60) DEF Orders
      <3>2. wanted.bound \in BoundStates
        BY DEF TypeInv
      <3>3. BoundBy(o, wanted.bound) = wanted.bound
        BY <3>2, BoundByFacts, OrderKinds, SMTT(60) DEF Orders
      <3> QED
        BY <1>5, <3>1, <3>3 DEF Wants
    <2> QED
      BY <1>5, <2>1, NodeOrdered DEF Orders
  <1>5a. gets \in Counts
    BY DEF TypeInv
  <1>6. CASE Enquiring
    <2>1. PICK t \in Tables : /\ Question(t) \in Questions /\ orders' = Append(orders, Question(t))
                              /\ gets' = CountedBy(t, gets)
      BY <1>6 DEF Enquiring
    <2>2. gets' = ToldBy(Question(t), gets)
      BY <1>5a, <2>1, ToldByFacts, ZenonT(60)
    <2> QED
      BY <1>5, <1>6, <2>1, <2>2 DEF Enquiring
  <1>7. CASE Answering
    <2>1. PICK o \in Answers : orders' = Append(orders, o)
      BY <1>7 DEF Answering
    <2>2. ToldBy(o, gets) = gets
      BY <1>5a, ToldByFacts, ZenonT(60)
    <2> QED
      BY <1>5, <1>7, <2>1, <2>2 DEF Answering
  <1>8. CASE Obeying
    BY <1>8, NodeObeyed DEF Obeying
  <1>9. CASE Reporting
    BY <1>9, NodeObeyed DEF Reporting
  <1> QED
    BY <1>2, <1>3, <1>4, <1>6, <1>7, <1>8, <1>9, NodeKinds

\* What is under way of a table that is read: its question, with nothing behind it
\* that the node does not answer to, or its report, which is true.
QuestionLast ==
  \A i \in 1 .. Len(orders) : orders[i] \in Questions =>
    /\ awaiting \in Tables /\ orders[i] = Question(awaiting)
    /\ \A j \in 1 .. Len(orders) : j > i => orders[j] \in Answers
    /\ \A j \in 1 .. Len(said) : ~IsTable(said[j])

\* What the node says of a table to the question asked last.
Expected(t) == Content(t, gets[t[2]] - 1)

\* A report on the line says what the node says of the table now, and nothing is
\* behind it that could change that.
TableTrue ==
  \A i \in 1 .. Len(said) : IsTable(said[i]) =>
    /\ awaiting \in Tables /\ said[i] = TableReport(awaiting, Expected(awaiting))
    /\ \A j \in 1 .. Len(orders) : orders[j] \in Answers

\* There is one such report at most.
OneTable == \A i, j \in 1 .. Len(said) : IsTable(said[i]) /\ IsTable(said[j]) => i = j

\* A group that is asked for takes its next report for the first
\* (Device.cpp:763).
GroupOpen ==
  \A g \in Groups : /\ awaiting = <<"assoc", g>> => ~assoc[g].hasLastReport
                    /\ awaiting = <<"mcAssoc", g>> => ~mcAssoc[g].hasLastReport

\* What is under way of a table.
QuestionInv == QuestionLast /\ TableTrue /\ OneTable /\ GroupOpen

\* Tables of one class and one number are one table.
LEMMA TableIs ==
  ASSUME ReportsAssumption, NEW t \in Tables, NEW u \in Tables,
         TableClass(t) = TableClass(u), t[2] = u[2]
  PROVE  t = u /\ t[1] = u[1]
  <1>1. /\ \/ t[1] = "param" /\ t = <<"param", t[2]>>
           \/ t[1] = "assoc" /\ t = <<"assoc", t[2]>>
           \/ t[1] = "mcAssoc" /\ t = <<"mcAssoc", t[2]>>
    BY TableFacts, ZenonT(60)
  <1>2. /\ \/ u[1] = "param" /\ u = <<"param", u[2]>>
           \/ u[1] = "assoc" /\ u = <<"assoc", u[2]>>
           \/ u[1] = "mcAssoc" /\ u = <<"mcAssoc", u[2]>>
    BY TableFacts, ZenonT(60)
  <1>3. /\ CONFIGURATION # ASSOCIATION /\ CONFIGURATION # MULTI_CHANNEL_ASSOCIATION
        /\ ASSOCIATION # MULTI_CHANNEL_ASSOCIATION
    BY DEF CONFIGURATION, ASSOCIATION, MULTI_CHANNEL_ASSOCIATION
  <1>4. t[1] = u[1]
    BY <1>1, <1>2, <1>3 DEF TableClass
  <1> QED
    BY <1>1, <1>2, <1>4

\* A report and its table.
LEMMA ReportIs ==
  ASSUME ReportsAssumption, NEW r, NEW t, NEW c, NEW u, NEW d,
         IsReportOf(r, t, c), IsReportOf(r, u, d)
  PROVE  t = u /\ c = d
  <1>1. t \in Tables /\ u \in Tables /\ TableClass(t) = TableClass(u) /\ t[2] = u[2]
    BY DEF IsReportOf
  <1>2. t = u
    BY <1>1, TableIs
  <1>3. c = d
    BY <1>2, ZenonT(60) DEF IsReportOf
  <1> QED
    BY <1>2, <1>3

\* The question tells which table is meant.
LEMMA QuestionIs ==
  ASSUME ReportsAssumption, NEW t \in Tables, NEW u \in Tables, Question(t) = Question(u)
  PROVE  t = u
  <1>1. TableClass(t) = TableClass(u) /\ t[2] = u[2]
    BY DEF Question
  <1> QED
    BY <1>1, TableIs

\* Where no table is reported, none comes onto the line.
LEMMA TablesStay ==
  ASSUME ReportsAssumption, TypeInv, OneTable, SaidPlain
  PROVE  /\ OneTable'
         /\ \A i \in 1 .. Len(said') : IsTable(said'[i]) =>
              \E k \in 1 .. Len(said) : said[k] = said'[i]
  <1>1. said \in Seq(Sayings)
    BY SequenceTypes
  <1>2. CASE said' = said
    BY <1>2 DEF OneTable
  <1>3. ASSUME NEW r \in Sayings, ~IsTable(r), said' = Append(said, r)
        PROVE  \A i \in 1 .. Len(said') : IsTable(said'[i]) =>
                 i \in 1 .. Len(said) /\ said[i] = said'[i]
    BY <1>1, <1>3
  <1>4. ASSUME NEW r \in Sayings, ~IsTable(r), said' = Append(said, r)
        PROVE  /\ OneTable'
               /\ \A i \in 1 .. Len(said') : IsTable(said'[i]) =>
                    \E k \in 1 .. Len(said) : said[k] = said'[i]
    <2>1. \A i \in 1 .. Len(said') : IsTable(said'[i]) =>
            i \in 1 .. Len(said) /\ said[i] = said'[i]
      BY <1>3, <1>4
    <2>2. OneTable'
      BY <2>1 DEF OneTable
    <2> QED
      BY <2>1, <2>2
  <1>5. ASSUME said' = Tail(said), said # <<>>
        PROVE  \A i \in 1 .. Len(said') : i + 1 \in 1 .. Len(said) /\ said[i + 1] = said'[i]
    BY <1>1, <1>5
  <1>6. ASSUME said' = Tail(said), said # <<>>
        PROVE  /\ OneTable'
               /\ \A i \in 1 .. Len(said') : IsTable(said'[i]) =>
                    \E k \in 1 .. Len(said) : said[k] = said'[i]
    <2>1. \A i \in 1 .. Len(said') : i + 1 \in 1 .. Len(said) /\ said[i + 1] = said'[i]
      BY <1>5, <1>6
    <2>2. OneTable'
      BY <2>1 DEF OneTable
    <2> QED
      BY <2>1, <2>2
  <1> QED
    BY <1>2, <1>4, <1>6 DEF SaidPlain

\* An order of another kind is behind what was there.
LEMMA BehindOrders ==
  ASSUME NEW q, q \in Seq(Orders), NEW o, o \in Orders
  PROVE  \A i \in 1 .. Len(Append(q, o)) :
           \/ i \in 1 .. Len(q) /\ Append(q, o)[i] = q[i]
           \/ i = Len(q) + 1 /\ Append(q, o)[i] = o
  OBVIOUS

\* The places of the orders behind the first.
LEMMA RestOfOrders ==
  ASSUME NEW q, q \in Seq(Orders), q # <<>>
  PROVE  \A i \in 1 .. Len(Tail(q)) :
           i + 1 \in 2 .. Len(q) /\ i + 1 \in 1 .. Len(q) /\ Tail(q)[i] = q[i + 1]
  OBVIOUS

\* No job starts while a table is waited for.
LEMMA NothingOpen ==
  ASSUME ReportsAssumption, TypeInv, QuestionInv, awaiting = None
  PROVE  /\ \A i \in 1 .. Len(orders) : orders[i] \notin Questions
         /\ \A i \in 1 .. Len(said) : ~IsTable(said[i])
  <1>1. awaiting \notin Tables
    BY TableFacts
  <1> QED
    BY <1>1 DEF QuestionInv, QuestionLast, TableTrue

\* When nothing is asked for, no group has to be open.
LEMMA NoGroupOpen ==
  ASSUME ReportsAssumption, awaiting' = None
  PROVE  GroupOpen'
  <1>1. \A g \in Groups : <<"assoc", g>> \in Tables /\ <<"mcAssoc", g>> \in Tables
    BY DEF Tables
  <1>2. \A g \in Groups : <<"assoc", g>> # None /\ <<"mcAssoc", g>> # None
    BY <1>1, TableFacts
  <1> QED
    BY <1>2 DEF GroupOpen

\* An answer is an order that asks for nothing.
LEMMA NotQuestion ==
  ASSUME ReportsAssumption, NEW o \in Answers
  PROVE  o \in Orders /\ o \notin Questions
  BY NoQuestion

\* A question with answers only behind it is the one the node has not counted yet.
LEMMA LastCounted ==
  ASSUME ReportsAssumption, TypeInv, NodeInv, orders # <<>>,
         \A j \in 1 .. Len(orders) : j > 1 => orders[j] \in Answers
  PROVE  gets = ToldBy(orders[1], told)
  <1> DEFINE rest == Tail(orders)
  <1>1. orders \in Seq(Orders)
    BY SequenceTypes
  <1>2. orders[1] \in Orders /\ rest \in Seq(Orders)
    BY <1>1
  <1>3. \A i \in 1 .. Len(rest) : rest[i] \in Answers
    <2>1. \A i \in 1 .. Len(Tail(orders)) :
            i + 1 \in 2 .. Len(orders) /\ i + 1 \in 1 .. Len(orders) /\ Tail(orders)[i] = orders[i + 1]
      BY <1>1, RestOfOrders
    <2> QED
      BY <2>1
  <1>4. PICK h : IsRun(h, orders, Counting, Counts) /\ h[0] = told /\ h[Len(orders)] = gets
    BY DEF NodeInv, Counted
  <1>5. PICK g : /\ IsRun(g, Tail(orders), Counting, Counts) /\ h[0] \in Counts
                 /\ g[0] = Counting[orders[1]][h[0]] /\ g[Len(Tail(orders))] = h[Len(orders)]
    BY <1>1, <1>4, RunOfTheRest
  <1>6. ASSUME NEW i \in 1 .. Len(rest), NEW n \in Counts PROVE Counting[rest[i]][n] = n
    <2>1. rest[i] \in Answers /\ rest[i] \in Orders
      BY <1>2, <1>3
    <2> DEFINE o == rest[i]
    <2> HIDE DEF o, rest
    <2>2. o \in Answers /\ o \in Orders
      BY <2>1 DEF o
    <2>3. ToldBy(o, n) = n
      BY <2>2, ToldByFacts, ZenonT(60)
    <2>4. Counting[o][n] = n
      BY <2>2, <2>3, CountingType
    <2> QED
      BY <2>4 DEF o
  <1>7. IsRun(g, rest, Counting, Counts)
    BY <1>5
  <1>8. g[Len(rest)] = g[0]
    <2> HIDE DEF rest
    <2> QED
      BY <1>2, <1>6, <1>7, RunOfNeutral
  <1>9. g[0] = ToldBy(orders[1], told)
    BY <1>2, <1>4, <1>5, CountingType, ZenonT(60)
  <1> QED
    BY <1>4, <1>5, <1>8, <1>9

\* What it reports to that question is what the asker has to expect.
LEMMA CountedExpected ==
  ASSUME ReportsAssumption, TypeInv, NEW t \in Tables, gets = CountedBy(t, told)
  PROVE  Content(t, told[t[2]]) = Expected(t)
  <1>1. CASE t[1] = "param"
    <2>1. t[2] \in Params
      BY <1>1, TableFacts, ZenonT(60)
    <2>2. told \in [Params -> Nat]
      BY DEF TypeInv, Counts
    <2>3. gets = [told EXCEPT ![t[2]] = @ + 1]
      BY <1>1 DEF CountedBy
    <2> DEFINE p == t[2]
    <2>4. p \in Params /\ gets = [told EXCEPT ![p] = @ + 1]
      BY <2>1, <2>3
    <2> HIDE DEF p
    <2>5. told[p] \in Nat /\ gets[p] = told[p] + 1
      BY <2>2, <2>4
    <2>6. gets[p] - 1 = told[p]
      BY <2>5
    <2>7. gets[t[2]] - 1 = told[t[2]]
      BY <2>6 DEF p
    <2> QED
      BY <2>7 DEF Expected
  <1>2. CASE t[1] # "param"
    BY <1>2 DEF Expected, Content
  <1> QED
    BY <1>1, <1>2

\* A table that is asked for stays alone on the line until it is read.
LEMMA QuestionNext ==
  ASSUME ReportsAssumption, TypeInv, NodeInv, QuestionInv, [Next]_vars
  PROVE  QuestionInv'
  <1>1. orders \in Seq(Orders) /\ said \in Seq(Sayings)
    BY SequenceTypes
  <1>2. QuestionLast /\ TableTrue /\ OneTable /\ GroupOpen
    BY DEF QuestionInv
  <1>3. ASSUME UNCHANGED <<param, bound, gets, awaiting>>, SaidPlain,
               (\A j \in 1 .. Len(orders) : orders[j] \in Answers) =>
                 \A j \in 1 .. Len(orders') : orders'[j] \in Answers
        PROVE  TableTrue' /\ OneTable'
    <2>1. OneTable' /\ \A i \in 1 .. Len(said') : IsTable(said'[i]) =>
                         \E k \in 1 .. Len(said) : said[k] = said'[i]
      BY <1>2, <1>3, TablesStay
    <2>2. ASSUME NEW i \in 1 .. Len(said'), IsTable(said'[i])
          PROVE  /\ awaiting' \in Tables
                 /\ said'[i] = TableReport(awaiting', Expected(awaiting)')
                 /\ \A j \in 1 .. Len(orders') : orders'[j] \in Answers
      <3>1. PICK k \in 1 .. Len(said) : said[k] = said'[i]
        BY <2>1, <2>2
      <3>2. /\ awaiting \in Tables /\ said[k] = TableReport(awaiting, Expected(awaiting))
            /\ \A j \in 1 .. Len(orders) : orders[j] \in Answers
        BY <1>2, <2>2, <3>1 DEF TableTrue
      <3>3. Expected(awaiting)' = Expected(awaiting)
        BY <1>3 DEF Expected, Content, Shown
      <3> QED
        BY <1>3, <3>1, <3>2, <3>3
    <2> QED
      BY <2>1, <2>2 DEF TableTrue
  <1>4. ASSUME SaidPlain, UNCHANGED awaiting,
               \A i \in 1 .. Len(orders') : orders'[i] \in Questions =>
                 \E k \in 1 .. Len(orders) :
                   /\ orders[k] = orders'[i]
                   /\ \A j \in 1 .. Len(orders') : j > i =>
                        \/ orders'[j] \in Answers
                        \/ \E l \in 1 .. Len(orders) : l > k /\ orders[l] = orders'[j]
        PROVE  QuestionLast'
    <2>1. \A i \in 1 .. Len(said') : IsTable(said'[i]) =>
            \E k \in 1 .. Len(said) : said[k] = said'[i]
      BY <1>2, <1>4, TablesStay
    <2>2. ASSUME NEW i \in 1 .. Len(orders'), orders'[i] \in Questions
          PROVE  /\ awaiting' \in Tables /\ orders'[i] = Question(awaiting')
                 /\ \A j \in 1 .. Len(orders') : j > i => orders'[j] \in Answers
                 /\ \A j \in 1 .. Len(said') : ~IsTable(said'[j])
      <3>1. PICK k \in 1 .. Len(orders) :
              /\ orders[k] = orders'[i]
              /\ \A j \in 1 .. Len(orders') : j > i =>
                   \/ orders'[j] \in Answers
                   \/ \E l \in 1 .. Len(orders) : l > k /\ orders[l] = orders'[j]
        BY <1>4, <2>2, ZenonT(60)
      <3>2. /\ awaiting \in Tables /\ orders[k] = Question(awaiting)
            /\ \A j \in 1 .. Len(orders) : j > k => orders[j] \in Answers
            /\ \A j \in 1 .. Len(said) : ~IsTable(said[j])
        BY <1>2, <2>2, <3>1 DEF QuestionLast
      <3>3. \A j \in 1 .. Len(orders') : j > i => orders'[j] \in Answers
        BY <3>1, <3>2
      <3>4. \A j \in 1 .. Len(said') : ~IsTable(said'[j])
        BY <2>1, <3>2
      <3> QED
        BY <1>4, <3>1, <3>2, <3>3, <3>4
    <2> QED
      BY <2>2 DEF QuestionLast
  <1>5. CASE Idle
    <2>1. orders' = orders /\ SaidPlain /\ UNCHANGED <<param, bound, gets, awaiting, assoc, mcAssoc>>
      BY <1>5 DEF Idle, tables
    <2>2. TableTrue' /\ OneTable'
      BY <1>3, <2>1
    <2>3. QuestionLast'
      BY <1>4, <2>1
    <2>4. GroupOpen'
      BY <1>2, <2>1 DEF GroupOpen
    <2> QED
      BY <2>2, <2>3, <2>4 DEF QuestionInv
  <1>6. CASE Answering
    <2>1. /\ SaidPlain /\ UNCHANGED <<param, bound, gets, awaiting, assoc, mcAssoc>>
      BY <1>6 DEF Answering, tables
    <2>2. PICK o \in Answers : orders' = Append(orders, o)
      BY <1>6 DEF Answering
    <2>3. o \in Orders /\ o \notin Questions
      BY NotQuestion
    <2>4. \A i \in 1 .. Len(orders') :
            \/ i \in 1 .. Len(orders) /\ orders'[i] = orders[i]
            \/ i = Len(orders) + 1 /\ orders'[i] = o
      BY <1>1, <2>2, <2>3, BehindOrders
    <2>5. TableTrue' /\ OneTable'
      BY <1>3, <2>1, <2>4
    <2>6. QuestionLast'
      BY <1>4, <2>1, <2>3, <2>4
    <2>7. GroupOpen'
      BY <1>2, <2>1 DEF GroupOpen
    <2> QED
      BY <2>5, <2>6, <2>7 DEF QuestionInv
  <1>7. CASE Ordering
    <2>1. awaiting = None /\ awaiting' = None /\ said' = said
      BY <1>7 DEF Ordering
    <2>2. PICK o \in Orders \ Questions : orders' = Append(orders, o)
      BY <1>7 DEF Ordering
    <2>3. \A i \in 1 .. Len(orders') :
            \/ i \in 1 .. Len(orders) /\ orders'[i] = orders[i]
            \/ i = Len(orders) + 1 /\ orders'[i] = o
      BY <1>1, <2>2, BehindOrders
    <2>4. /\ \A i \in 1 .. Len(orders') : orders'[i] \notin Questions
          /\ \A i \in 1 .. Len(said') : ~IsTable(said'[i])
      BY <2>1, <2>2, <2>3, NothingOpen
    <2>5. GroupOpen'
      BY <2>1, NoGroupOpen
    <2>6. QuestionLast' /\ TableTrue' /\ OneTable'
      BY <2>4 DEF QuestionLast, TableTrue, OneTable
    <2> QED
      BY <2>5, <2>6 DEF QuestionInv
  <1>8. CASE Enquiring
    <2>1. awaiting = None /\ said' = said
      BY <1>8 DEF Enquiring
    <2>2. PICK t \in Tables : /\ Question(t) \in Questions /\ orders' = Append(orders, Question(t))
                              /\ awaiting' = t /\ Forgotten(t)
      BY <1>8 DEF Enquiring
    <2>3. \A i \in 1 .. Len(orders') :
            \/ i \in 1 .. Len(orders) /\ orders'[i] = orders[i]
            \/ i = Len(orders) + 1 /\ orders'[i] = Question(t)
      <3> DEFINE o == Question(t)
      <3>1. o \in Orders
        BY <2>2 DEF Orders
      <3> HIDE DEF o
      <3>2. \A i \in 1 .. Len(Append(orders, o)) :
              \/ i \in 1 .. Len(orders) /\ Append(orders, o)[i] = orders[i]
              \/ i = Len(orders) + 1 /\ Append(orders, o)[i] = o
        BY <1>1, <3>1, BehindOrders
      <3> QED
        BY <2>2, <3>2 DEF o
    <2>4. /\ \A i \in 1 .. Len(orders) : orders[i] \notin Questions
          /\ \A i \in 1 .. Len(said') : ~IsTable(said'[i])
      BY <2>1, NothingOpen
    <2>5. TableTrue' /\ OneTable'
      BY <2>4 DEF TableTrue, OneTable
    <2>6. QuestionLast'
      <3>1. Len(orders') = Len(orders) + 1 /\ Len(orders) \in Nat
        BY <1>1, <2>2
      <3>2. ASSUME NEW i \in 1 .. Len(orders'), orders'[i] \in Questions
            PROVE  orders'[i] = Question(awaiting') /\ i = Len(orders')
        BY <2>2, <2>3, <2>4, <3>1, <3>2
      <3>3. ASSUME NEW i \in 1 .. Len(orders'), orders'[i] \in Questions
            PROVE  \A j \in 1 .. Len(orders') : ~(j > i)
        BY <3>1, <3>2, <3>3
      <3> QED
        BY <2>2, <2>4, <3>2, <3>3 DEF QuestionLast
    <2>7. GroupOpen'
      <3>1. assoc \in [Groups -> AssocGroups] /\ mcAssoc \in [Groups -> McGroups]
        BY DEF TypeInv
      <3>2. ASSUME NEW g \in Groups, t = <<"assoc", g>> PROVE ~assoc'[g].hasLastReport
        <4>1. assoc' = [assoc EXCEPT ![g].hasLastReport = FALSE]
          BY <2>2, <3>2 DEF Forgotten
        <4> QED
          BY <3>1, <4>1 DEF AssocGroups
      <3>3. ASSUME NEW g \in Groups, t = <<"mcAssoc", g>> PROVE ~mcAssoc'[g].hasLastReport
        <4>1. mcAssoc' = [mcAssoc EXCEPT ![g].hasLastReport = FALSE]
          BY <2>2, <3>3 DEF Forgotten
        <4> QED
          BY <3>1, <4>1 DEF McGroups
      <3> QED
        BY <2>2, <3>2, <3>3 DEF GroupOpen
    <2> QED
      BY <2>5, <2>6, <2>7 DEF QuestionInv
  <1>9. CASE Obeying
    <2>1. /\ orders # <<>> /\ orders' = Tail(orders) /\ orders[1] \notin Questions /\ Obeyed
          /\ SaidPlain /\ UNCHANGED <<gets, awaiting, assoc, mcAssoc>>
      BY <1>9 DEF Obeying, tables
    <2>2. \A i \in 1 .. Len(orders') :
            i + 1 \in 2 .. Len(orders) /\ i + 1 \in 1 .. Len(orders) /\ orders'[i] = orders[i + 1]
      BY <1>1, <2>1, RestOfOrders
    <2>3. TableTrue' /\ OneTable'
      <3>1. CASE \A i \in 1 .. Len(said') : ~IsTable(said'[i])
        BY <3>1 DEF TableTrue, OneTable
      <3>2. ASSUME NEW i \in 1 .. Len(said'), IsTable(said'[i]) PROVE TableTrue' /\ OneTable'
        <4>1. PICK k \in 1 .. Len(said) : said[k] = said'[i]
          BY <1>2, <2>1, <3>2, TablesStay
        <4>2. \A j \in 1 .. Len(orders) : orders[j] \in Answers
          BY <1>2, <3>2, <4>1 DEF TableTrue
        <4>3. 1 \in 1 .. Len(orders)
          BY <1>1, <2>1
        <4>4. param' = param /\ bound' = bound
          <5>1. orders[1] \in Answers
            BY <4>2, <4>3
          <5>2. param \in ParamStates /\ bound \in BoundStates
            BY DEF TypeInv
          <5>3. ConfiguredBy(orders[1], param) = param /\ BoundBy(orders[1], bound) = bound
            BY <5>1, <5>2, OtherOrders
          <5> QED
            BY <2>1, <5>3 DEF Obeyed
        <4> QED
          BY <1>3, <2>1, <2>2, <4>4
      <3> QED
        BY <3>1, <3>2
    <2>4. QuestionLast'
      <3>1. ASSUME NEW i \in 1 .. Len(orders')
            PROVE  \E k \in 1 .. Len(orders) :
                     /\ orders[k] = orders'[i]
                     /\ \A j \in 1 .. Len(orders') : j > i =>
                          \E l \in 1 .. Len(orders) : l > k /\ orders[l] = orders'[j]
        <4>1. i + 1 \in 1 .. Len(orders) /\ orders[i + 1] = orders'[i]
          BY <2>2
        <4>2. ASSUME NEW j \in 1 .. Len(orders'), j > i
              PROVE  j + 1 \in 1 .. Len(orders) /\ j + 1 > i + 1 /\ orders[j + 1] = orders'[j]
          BY <2>2, <4>2
        <4>3. \A j \in 1 .. Len(orders') : j > i =>
                \E l \in 1 .. Len(orders) : l > i + 1 /\ orders[l] = orders'[j]
          BY <4>2
        <4> QED
          BY <4>1, <4>3
      <3> QED
        BY <1>4, <2>1, <3>1
    <2>5. GroupOpen'
      BY <1>2, <2>1 DEF GroupOpen
    <2> QED
      BY <2>3, <2>4, <2>5 DEF QuestionInv
  <1>10. CASE Reporting
    <2>1. /\ orders # <<>> /\ orders' = Tail(orders) /\ orders[1] \in Questions
          /\ UNCHANGED <<param, bound, gets, awaiting, assoc, mcAssoc>>
      BY <1>10 DEF Reporting, tables
    <2>2. PICK t \in Tables :
            LET report == TableReport(t, Content(t, told[t[2]]))
            IN orders[1] = Question(t) /\ report \in Sayings /\ said' = Append(said, report)
      BY <1>10 DEF Reporting
    <2>3. /\ 1 \in 1 .. Len(orders)
          /\ awaiting \in Tables /\ orders[1] = Question(awaiting)
          /\ \A j \in 1 .. Len(orders) : j > 1 => orders[j] \in Answers
          /\ \A j \in 1 .. Len(said) : ~IsTable(said[j])
      <3>1. 1 \in 1 .. Len(orders)
        BY <1>1, <2>1
      <3> QED
        BY <1>2, <2>1, <3>1 DEF QuestionLast
    <2>4. t = awaiting
      BY <2>2, <2>3, QuestionIs
    <2>5. \A i \in 1 .. Len(orders') : orders'[i] \in Answers
      <3>1. \A i \in 1 .. Len(orders') :
              i + 1 \in 2 .. Len(orders) /\ i + 1 \in 1 .. Len(orders) /\ orders'[i] = orders[i + 1]
        BY <1>1, <2>1, RestOfOrders
      <3>2. \A k \in 2 .. Len(orders) : orders[k] \in Answers
        BY <2>3
      <3> QED
        BY <3>1, <3>2
    <2>6. QuestionLast'
      <3>1. \A i \in 1 .. Len(orders') : orders'[i] \notin Questions
        BY <2>5, NotQuestion
      <3> QED
        BY <3>1 DEF QuestionLast
    <2> DEFINE r == TableReport(t, Content(t, told[t[2]]))
    <2>7. \A i \in 1 .. Len(said') : IsTable(said'[i]) => i = Len(said) + 1 /\ said'[i] = r
      <3>1. said' = Append(said, r) /\ r \in Sayings
        BY <2>2
      <3> HIDE DEF r
      <3>2. \A i \in 1 .. Len(said') : \/ i \in 1 .. Len(said) /\ said'[i] = said[i]
                                       \/ i = Len(said) + 1 /\ said'[i] = r
        BY <1>1, <3>1
      <3> QED
        BY <2>3, <3>2, ZenonT(60)
    <2>7a. gets = CountedBy(t, told)
      <3>1. gets = ToldBy(orders[1], told)
        BY <2>1, <2>3, LastCounted
      <3>2. told \in Counts
        BY DEF TypeInv
      <3>3. Question(t) \in Questions
        BY <2>1, <2>2
      <3>4. ToldBy(Question(t), told) = CountedBy(t, told)
        BY <3>2, <3>3, ToldByFacts, ZenonT(60)
      <3> QED
        BY <2>2, <3>1, <3>4
    <2>7b. Content(t, told[t[2]]) = Expected(t)
      BY <2>7a, CountedExpected
    <2>8. r = TableReport(awaiting', Expected(awaiting)')
      <3>1. Expected(t)' = Expected(t)
        BY <2>1 DEF Expected, Content, Shown
      <3> QED
        BY <2>1, <2>4, <2>7b, <3>1
    <2> HIDE DEF r
    <2>9. OneTable'
      BY <2>7 DEF OneTable
    <2>10. TableTrue'
      BY <2>1, <2>3, <2>5, <2>7, <2>8 DEF TableTrue
    <2>11. GroupOpen'
      BY <1>2, <2>1 DEF GroupOpen
    <2> QED
      BY <2>6, <2>9, <2>10, <2>11 DEF QuestionInv
  <1>11. CASE Noting
    <2>1. said # <<>> /\ said' = Tail(said) /\ orders' = orders /\ IsTable(said[1])
      BY <1>11 DEF Noting
    <2>2. PICK t, c : IsReportOf(said[1], t, c) /\ Reported(t)
      BY <1>11 DEF Noting
    <2>3. /\ 1 \in 1 .. Len(said)
          /\ awaiting \in Tables /\ said[1] = TableReport(awaiting, Expected(awaiting))
          /\ \A j \in 1 .. Len(orders) : orders[j] \in Answers
      <3>1. 1 \in 1 .. Len(said)
        BY <1>1, <2>1
      <3> QED
        BY <1>2, <2>1, <3>1 DEF TableTrue
    <2>4. t = awaiting
      <3>1. IsContent(awaiting, Expected(awaiting)) /\ Expected(awaiting) \in Seq(Byte)
        BY <2>3, ContentFacts DEF IsContent, Expected
      <3>2. IsReportOf(said[1], awaiting, Expected(awaiting))
        BY <2>3, <3>1, ReportOfTable
      <3> QED
        BY <2>2, <3>2, ReportIs
    <2>5. awaiting' = None
      BY <2>2, <2>4 DEF Reported
    <2>6. \A i \in 1 .. Len(said') : ~IsTable(said'[i])
      <3>1. \A i \in 1 .. Len(said') : i + 1 \in 2 .. Len(said) /\ said'[i] = said[i + 1]
        BY <1>1, <2>1
      <3>2. \A k \in 2 .. Len(said) : ~IsTable(said[k])
        BY <1>2, <2>1, <2>3 DEF OneTable
      <3> QED
        BY <3>1, <3>2
    <2>7. \A i \in 1 .. Len(orders') : orders'[i] \notin Questions
      BY <2>1, <2>3, NotQuestion
    <2>8. QuestionLast' /\ TableTrue' /\ OneTable'
      BY <2>6, <2>7 DEF QuestionLast, TableTrue, OneTable
    <2> QED
      BY <2>5, <2>8, NoGroupOpen DEF QuestionInv
  <1> QED
    BY <1>5, <1>6, <1>7, <1>8, <1>9, <1>10, <1>11, NodeKinds

\* What the invariants say of the moment when the report of a table is read: nothing
\* is under way to the node that changes it.
LEMMA NodeAsWanted ==
  ASSUME ReportsAssumption, TypeInv, NodeInv, \A j \in 1 .. Len(orders) : orders[j] \in Answers
  PROVE  Meant(param, wanted.param) /\ bound = wanted.bound
  <1>1. orders \in Seq(Orders)
    BY SequenceTypes
  <1>2. \A i \in 1 .. Len(orders) : orders[i] \in Orders
    BY <1>1
  <1>3. PICK h : IsRun(h, orders, Configuring, ParamStates) /\ h[0] = param
                 /\ Meant(h[Len(orders)], wanted.param)
    BY DEF NodeInv, Configures
  <1>4. PICK k : IsRun(k, orders, Binding, BoundStates) /\ k[0] = bound
                 /\ k[Len(orders)] = wanted.bound
    BY DEF NodeInv, Binds
  <1>5. ASSUME NEW i \in 1 .. Len(orders), NEW q \in ParamStates PROVE Configuring[orders[i]][q] = q
    <2>1. ConfiguredBy(orders[i], q) = q
      <3>1. orders[i] \notin Configurations
        BY <1>2, OrderKinds
      <3> QED
        BY <3>1 DEF ConfiguredBy
    <2> QED
      BY <1>2, <2>1, ConfiguringType
  <1>6. ASSUME NEW i \in 1 .. Len(orders), NEW b \in BoundStates PROVE Binding[orders[i]][b] = b
    <2>1. BoundBy(orders[i], b) = b
      <3>1. orders[i] \notin Changes
        BY <1>2, OrderKinds
      <3> QED
        BY <3>1 DEF BoundBy
    <2> QED
      BY <1>2, <2>1, BindingType
  <1>7. h[Len(orders)] = h[0]
    BY <1>1, <1>3, <1>5, RunOfNeutral
  <1>8. k[Len(orders)] = k[0]
    BY <1>1, <1>4, <1>6, RunOfNeutral
  <1> QED
    BY <1>3, <1>4, <1>7, <1>8

\* What has been read and not changed since is what the user wants.
ReadInv == ConfiguredIsRead /\ BoundIsRead

\* What is read of a parameter: what the user wants, but of a forgetful one the
\* default when it was asked for more than once.
ValueRead(p) == IF p \in Forgetful /\ gets[p] > 1 THEN Signed(Default) ELSE wanted.param[p]

\* What the handler of a report leaves in a table that was asked for.
LEMMA ReadParam ==
  ASSUME ReportsAssumption, TypeInv, NEW p \in Params, Meant(param, wanted.param),
         Stored(<<"param", p>>, Expected(<<"param", p>>))
  PROVE  config' = [config EXCEPT ![p] = [valid |-> TRUE, value |-> ValueRead(p)]]
  <1>1. Expected(<<"param", p>>) = Shown(p, gets[p] - 1)
    BY DEF Expected, Content
  <1>2. gets[p] \in Nat
    BY DEF TypeInv, Counts
  <1>3. Signed(Shown(p, gets[p] - 1)) = ValueRead(p)
    <2>1. Signed(param[p]) = wanted.param[p]
      BY DEF Meant
    <2>2. gets[p] - 1 > 0 <=> gets[p] > 1
      BY <1>2
    <2> QED
      BY <2>1, <2>2, Zenon DEF Shown, ValueRead
  <1> QED
    BY <1>1, <1>3 DEF Stored

\* The nodes that are bound by themselves, without an endpoint.
PlainMembers(ds) == {d[1] : d \in {e \in ds : e[2] = 0}}

\* The members of a group are read from a list without a marker.
LEMMA ReadAssoc ==
  ASSUME ReportsAssumption, TypeInv, NEW g \in Groups, bound = wanted.bound,
         Stored(<<"assoc", g>>, Expected(<<"assoc", g>>)), ~assoc[g].hasLastReport
  PROVE  assoc' = [assoc EXCEPT ![g] =
                     [hasLastReport |-> TRUE, members |-> PlainMembers(wanted.bound[g])]]
  <1> DEFINE D == {e \in bound[g] : e[2] = 0}
  <1>1. Expected(<<"assoc", g>>) = ListOf(D)
    BY DEF Expected, Content
  <1>2. D \in SUBSET Destinations
    <2>1. bound[g] \in Small
      BY DEF TypeInv, BoundStates
    <2> QED
      BY <2>1 DEF Small
  <1>3. \A d \in D : d[2] = 0
    OBVIOUS
  <1>4. Cleared(assoc[g]) = {}
    BY DEF Cleared
  <1>5. assoc' = [assoc EXCEPT ![g] = [hasLastReport |-> TRUE,
                                       members |-> Cleared(assoc[g]) \cup ToSet(ListOf(D))]]
    <2> HIDE DEF D
    <2> QED
      BY <1>1 DEF Stored
  <1>6. ToSet(ListOf(D)) = {d[1] : d \in D}
    <2> HIDE DEF D
    <2> QED
      BY <1>2, <1>3, ListOfPlain
  <1>7. {d[1] : d \in D} = PlainMembers(wanted.bound[g])
    BY Zenon DEF PlainMembers
  <1> HIDE DEF D
  <1>8. Cleared(assoc[g]) \cup ToSet(ListOf(D)) = PlainMembers(wanted.bound[g])
    BY <1>4, <1>6, <1>7
  <1> QED
    BY <1>5, <1>8

\* And those with endpoints, of a node bound once.
LEMMA ReadMcAssoc ==
  ASSUME ReportsAssumption, TypeInv, NEW g \in Groups, bound = wanted.bound,
         Stored(<<"mcAssoc", g>>, Expected(<<"mcAssoc", g>>)), ~mcAssoc[g].hasLastReport
  PROVE  \E M : /\ mcAssoc' = [mcAssoc EXCEPT ![g] = [hasLastReport |-> TRUE, members |-> M]]
                /\ Distinct(wanted.bound[g]) => M = wanted.bound[g]
  <1> DEFINE D == bound[g]
             M == Put({}, Entries(MaxNodes, ListOf(D)))
  <1>1. Expected(<<"mcAssoc", g>>) = ListOf(D)
    BY DEF Expected, Content
  <1>2. D \in SUBSET Destinations /\ Cardinality(D) <= MaxNodes
    <2>1. bound[g] \in Small
      BY DEF TypeInv, BoundStates
    <2> QED
      BY <2>1 DEF Small
  <1> HIDE DEF D
  <1>3. Distinct(D) => M = D
    BY <1>2, PutOfList
  <1>4. Cleared(mcAssoc[g]) = {}
    BY DEF Cleared
  <1>5. mcAssoc' = [mcAssoc EXCEPT ![g] = [hasLastReport |-> TRUE,
                                           members |-> Put(Cleared(mcAssoc[g]), Entries(MaxNodes, ListOf(D)))]]
    BY <1>1 DEF Stored
  <1>6. mcAssoc' = [mcAssoc EXCEPT ![g] = [hasLastReport |-> TRUE, members |-> M]]
    BY <1>4, <1>5
  <1> HIDE DEF M
  <1> QED
    BY <1>3, <1>6 DEF D

\* Reports of other tables leave a table alone.
LEMMA OthersStored ==
  ASSUME TypeInv, NEW t, NEW c, Stored(t, c),
         /\ t[1] = "param" => t = <<"param", t[2]>>
         /\ t[1] = "assoc" => t = <<"assoc", t[2]>>
         /\ t[1] = "mcAssoc" => t = <<"mcAssoc", t[2]>>
  PROVE  /\ \A p \in Params : t # <<"param", p>> => config'[p] = config[p]
         /\ \A g \in Groups : t # <<"assoc", g>> => assoc'[g] = assoc[g]
         /\ \A g \in Groups : t # <<"mcAssoc", g>> => mcAssoc'[g] = mcAssoc[g]
  BY DEF Stored, TypeInv

\* A question forgets nothing of the other tables.
LEMMA OthersForgotten ==
  ASSUME TypeInv, NEW t, Forgotten(t)
  PROVE  /\ \A p \in Params : t # <<"param", p>> /\ (t[1] = "param" => t = <<"param", t[2]>>) =>
              config'[p] = config[p]
         /\ \A g \in Groups : t # <<"assoc", g>> /\ (t[1] = "assoc" => t = <<"assoc", t[2]>>) =>
              assoc'[g] = assoc[g]
         /\ \A g \in Groups : t # <<"mcAssoc", g>> /\ (t[1] = "mcAssoc" => t = <<"mcAssoc", t[2]>>) =>
              mcAssoc'[g] = mcAssoc[g]
  BY DEF Forgotten, TypeInv

\* And counts none of them.
LEMMA OthersCounted ==
  ASSUME TypeInv, NEW t, gets' = CountedBy(t, gets), t[1] = "param" => t = <<"param", t[2]>>
  PROVE  \A p \in Params : t # <<"param", p>> => gets'[p] = gets[p]
  BY DEF CountedBy, TypeInv, Counts

\* What is read of one table.
ParamRead(p)   == config[p] = [valid |-> TRUE, value |-> ValueRead(p)]
AssocRead(g)   == assoc[g].members = PlainMembers(wanted.bound[g])
\* The same, of a multi channel group.
McAssocRead(g) == Distinct(wanted.bound[g]) => mcAssoc[g].members = wanted.bound[g]

\* The two properties, table by table.
LEMMA ReadParts ==
  ReadInv <=> /\ \A p \in Params : <<"param", p>> \in fresh => ParamRead(p)
              /\ \A g \in Groups : <<"assoc", g>> \in fresh => AssocRead(g)
              /\ \A g \in Groups : <<"mcAssoc", g>> \in fresh => McAssocRead(g)
  BY DEF ReadInv, ConfiguredIsRead, BoundIsRead, ParamRead, ValueRead, AssocRead, McAssocRead,
     PlainMembers, Distinct

\* And after the step.
LEMMA ReadPartsNext ==
  /\ \A p \in Params : <<"param", p>> \in fresh' => ParamRead(p)'
  /\ \A g \in Groups : <<"assoc", g>> \in fresh' => AssocRead(g)'
  /\ \A g \in Groups : <<"mcAssoc", g>> \in fresh' => McAssocRead(g)'
  => ReadInv'
  BY DEF ReadInv, ConfiguredIsRead, BoundIsRead, ParamRead, ValueRead, AssocRead, McAssocRead,
     PlainMembers, Distinct

\* A table nobody touches stays read.
LEMMA ReadStays ==
  ASSUME ReadInv
  PROVE  /\ \A p \in Params : /\ <<"param", p>> \in fresh
                              /\ config'[p] = config[p] /\ wanted'.param[p] = wanted.param[p]
                              /\ gets'[p] = gets[p]
                              => ParamRead(p)'
         /\ \A g \in Groups : /\ <<"assoc", g>> \in fresh
                              /\ assoc'[g] = assoc[g] /\ wanted'.bound[g] = wanted.bound[g]
                              => AssocRead(g)'
         /\ \A g \in Groups : /\ <<"mcAssoc", g>> \in fresh
                              /\ mcAssoc'[g] = mcAssoc[g] /\ wanted'.bound[g] = wanted.bound[g]
                              => McAssocRead(g)'
  BY ReadParts DEF ParamRead, ValueRead, AssocRead, McAssocRead

\* What is read stays what the user wants.
LEMMA ReadNext ==
  ASSUME ReportsAssumption, TypeInv, NodeInv, QuestionInv, ReadInv, [Next]_vars
  PROVE  ReadInv'
  <1>1. ASSUME UNCHANGED <<config, assoc, mcAssoc>>, KeepsRead PROVE ReadInv'
    <2>1. \A p \in Params : <<"param", p>> \in fresh' => ParamRead(p)'
      BY <1>1, ReadStays DEF KeepsRead
    <2>2. \A g \in Groups : <<"assoc", g>> \in fresh' => AssocRead(g)'
      BY <1>1, ReadStays DEF KeepsRead
    <2>3. \A g \in Groups : <<"mcAssoc", g>> \in fresh' => McAssocRead(g)'
      BY <1>1, ReadStays DEF KeepsRead
    <2> QED
      BY <2>1, <2>2, <2>3, ReadPartsNext
  <1>2. ASSUME UNCHANGED <<wanted, gets, tables>> PROVE ReadInv'
    BY <1>1, <1>2 DEF tables, KeepsRead
  <1>3. CASE Idle
    BY <1>2, <1>3 DEF Idle
  <1>4. CASE Answering
    BY <1>2, <1>4 DEF Answering
  <1>5. CASE Obeying
    BY <1>2, <1>5 DEF Obeying
  <1>6. CASE Reporting
    BY <1>2, <1>6 DEF Reporting
  <1>7. CASE Ordering
    BY <1>1, <1>7 DEF Ordering
  <1>8. CASE Enquiring
    <2>1. PICK t \in Tables : fresh' = fresh \ {t} /\ Forgotten(t) /\ gets' = CountedBy(t, gets)
      BY <1>8 DEF Enquiring
    <2>2. wanted' = wanted
      BY <1>8 DEF Enquiring
    <2>3. \/ t[1] = "param" /\ t = <<"param", t[2]>>
          \/ t[1] = "assoc" /\ t = <<"assoc", t[2]>>
          \/ t[1] = "mcAssoc" /\ t = <<"mcAssoc", t[2]>>
      BY TableFacts, ZenonT(60)
    <2>4. ASSUME NEW p \in Params, <<"param", p>> \in fresh' PROVE ParamRead(p)'
      <3>1. <<"param", p>> \in fresh /\ t # <<"param", p>>
        BY <2>1, <2>4
      <3>2. config'[p] = config[p]
        BY <2>1, <2>3, <3>1, OthersForgotten
      <3>3. gets'[p] = gets[p]
        BY <2>1, <2>3, <3>1, OthersCounted
      <3> QED
        BY <2>2, <3>1, <3>2, <3>3, ReadStays
    <2>5. ASSUME NEW g \in Groups, <<"assoc", g>> \in fresh' PROVE AssocRead(g)'
      <3>1. <<"assoc", g>> \in fresh /\ t # <<"assoc", g>>
        BY <2>1, <2>5
      <3>2. assoc'[g] = assoc[g]
        BY <2>1, <2>3, <3>1, OthersForgotten
      <3> QED
        BY <2>2, <3>1, <3>2, ReadStays
    <2>6. ASSUME NEW g \in Groups, <<"mcAssoc", g>> \in fresh' PROVE McAssocRead(g)'
      <3>1. <<"mcAssoc", g>> \in fresh /\ t # <<"mcAssoc", g>>
        BY <2>1, <2>6
      <3>2. mcAssoc'[g] = mcAssoc[g]
        BY <2>1, <2>3, <3>1, OthersForgotten
      <3> QED
        BY <2>2, <3>1, <3>2, ReadStays
    <2> QED
      BY <2>4, <2>5, <2>6, ReadPartsNext
  <1>9. CASE Noting
    <2>1. said # <<>> /\ IsTable(said[1]) /\ wanted' = wanted /\ gets' = gets
      BY <1>9 DEF Noting
    <2>2. PICK t, c : IsReportOf(said[1], t, c) /\ Stored(t, c) /\ Reported(t)
      BY <1>9 DEF Noting
    <2>3. /\ awaiting \in Tables /\ said[1] = TableReport(awaiting, Expected(awaiting))
          /\ \A j \in 1 .. Len(orders) : orders[j] \in Answers
      <3>1. said \in Seq(Sayings)
        BY SequenceTypes
      <3>2. 1 \in 1 .. Len(said)
        BY <2>1, <3>1
      <3> QED
        BY <2>1, <3>2 DEF QuestionInv, TableTrue
    <2>4. t = awaiting /\ c = Expected(awaiting)
      <3>1. IsContent(awaiting, Expected(awaiting)) /\ Expected(awaiting) \in Seq(Byte)
        BY <2>3, ContentFacts DEF IsContent, Expected
      <3>2. IsReportOf(said[1], awaiting, Expected(awaiting))
        BY <2>3, <3>1, ReportOfTable
      <3> QED
        BY <2>2, <3>2, ReportIs
    <2>5. Meant(param, wanted.param) /\ bound = wanted.bound
      BY <2>3, NodeAsWanted
    <2>6. Stored(t, Expected(t)) /\ fresh' = fresh \cup {t} /\ t \in Tables
      BY <2>2, <2>3, <2>4 DEF Reported
    <2>7. \/ t[1] = "param" /\ t = <<"param", t[2]>>
          \/ t[1] = "assoc" /\ t = <<"assoc", t[2]>>
          \/ t[1] = "mcAssoc" /\ t = <<"mcAssoc", t[2]>>
      BY <2>6, TableFacts, ZenonT(60)
    <2>7a. /\ \A p \in Params : t # <<"param", p>> => config'[p] = config[p]
           /\ \A g \in Groups : t # <<"assoc", g>> => assoc'[g] = assoc[g]
           /\ \A g \in Groups : t # <<"mcAssoc", g>> => mcAssoc'[g] = mcAssoc[g]
      <3>1. Stored(t, Expected(t))
        BY <2>6
      <3>2. /\ t[1] = "param" => t = <<"param", t[2]>>
            /\ t[1] = "assoc" => t = <<"assoc", t[2]>>
            /\ t[1] = "mcAssoc" => t = <<"mcAssoc", t[2]>>
        BY <2>7
      <3> QED
        BY <3>1, <3>2, OthersStored
    <2>8. ASSUME NEW p \in Params, <<"param", p>> \in fresh' PROVE ParamRead(p)'
      <3>1. CASE t = <<"param", p>>
        <4>1. config' = [config EXCEPT ![p] = [valid |-> TRUE, value |-> ValueRead(p)]]
          BY <2>5, <2>6, <3>1, ReadParam
        <4>2. config \in [Params -> [valid : BOOLEAN, value : Int]]
          BY DEF TypeInv
        <4> QED
          BY <2>1, <4>1, <4>2 DEF ParamRead, ValueRead
      <3>2. CASE t # <<"param", p>>
        <4>1. <<"param", p>> \in fresh
          BY <2>6, <2>8, <3>2
        <4>2. config'[p] = config[p]
          BY <2>7a, <3>2
        <4> QED
          BY <2>1, <4>1, <4>2, ReadStays
      <3> QED
        BY <3>1, <3>2
    <2>9. ASSUME NEW g \in Groups, <<"assoc", g>> \in fresh' PROVE AssocRead(g)'
      <3>1. CASE t = <<"assoc", g>>
        <4>1. ~assoc[g].hasLastReport
          BY <2>4, <3>1 DEF QuestionInv, GroupOpen
        <4>2. assoc' = [assoc EXCEPT ![g] =
                          [hasLastReport |-> TRUE, members |-> PlainMembers(wanted.bound[g])]]
          BY <2>5, <2>6, <3>1, <4>1, ReadAssoc
        <4>3. assoc \in [Groups -> AssocGroups]
          BY DEF TypeInv
        <4>4. assoc'[g].members = PlainMembers(wanted.bound[g])
          BY <4>2, <4>3
        <4> QED
          BY <2>1, <4>4 DEF AssocRead
      <3>2. CASE t # <<"assoc", g>>
        <4>1. <<"assoc", g>> \in fresh
          BY <2>6, <2>9, <3>2
        <4>2. assoc'[g] = assoc[g]
          BY <2>7a, <3>2
        <4> QED
          BY <2>1, <4>1, <4>2, ReadStays
      <3> QED
        BY <3>1, <3>2
    <2>10. ASSUME NEW g \in Groups, <<"mcAssoc", g>> \in fresh' PROVE McAssocRead(g)'
      <3>1. CASE t = <<"mcAssoc", g>>
        <4>1. ~mcAssoc[g].hasLastReport
          BY <2>4, <3>1 DEF QuestionInv, GroupOpen
        <4>2. PICK M : /\ mcAssoc' = [mcAssoc EXCEPT ![g] = [hasLastReport |-> TRUE, members |-> M]]
                       /\ Distinct(wanted.bound[g]) => M = wanted.bound[g]
          BY <2>5, <2>6, <3>1, <4>1, ReadMcAssoc
        <4>3. mcAssoc \in [Groups -> McGroups]
          BY DEF TypeInv
        <4>4. mcAssoc'[g].members = M
          BY <4>2, <4>3
        <4> QED
          BY <2>1, <4>2, <4>4 DEF McAssocRead
      <3>2. CASE t # <<"mcAssoc", g>>
        <4>1. <<"mcAssoc", g>> \in fresh
          BY <2>6, <2>10, <3>2
        <4>2. mcAssoc'[g] = mcAssoc[g]
          BY <2>7a, <3>2
        <4> QED
          BY <2>1, <4>1, <4>2, ReadStays
      <3> QED
        BY <3>1, <3>2
    <2> QED
      BY <2>8, <2>9, <2>10, ReadPartsNext
  <1> QED
    BY <1>3, <1>4, <1>5, <1>6, <1>7, <1>8, <1>9, NodeKinds

\* Nothing is read at the start.
LEMMA ReadInit ==
  ASSUME ReportsAssumption, Init
  PROVE  QuestionInv /\ ReadInv
  <1>1. fresh = {} /\ awaiting = None /\ assoc = [g \in Groups |-> [hasLastReport |-> FALSE, members |-> {}]]
        /\ mcAssoc = assoc
    BY DEF Init
  <1>2. QuestionLast /\ TableTrue /\ OneTable
    BY NothingSaid DEF QuestionLast, TableTrue, OneTable
  <1>3. GroupOpen
    BY <1>1 DEF GroupOpen
  <1>4. ReadInv
    BY <1>1 DEF ReadInv, ConfiguredIsRead, BoundIsRead
  <1> QED
    BY <1>2, <1>3, <1>4 DEF QuestionInv

\* The inductive invariant of the tables: the orders on the line lead from what
\* the node has to what the user wants, a table that is asked for is alone on
\* the line, and what is read is what is wanted, or for a parameter that was read
\* again what a forgetful node says instead (the jobs of Node.cpp:499-776 and
\* the handlers of their reports).
THEOREM TablesPass == Spec => [](NodeInv /\ QuestionInv /\ ReadInv)
  <1>1. Init => NodeInv /\ QuestionInv /\ ReadInv
    BY ReportsAssumption, NodeInit, ReadInit
  <1>2. TypeInv /\ NodeInv /\ QuestionInv /\ ReadInv /\ [Next]_vars
          => (NodeInv /\ QuestionInv /\ ReadInv)'
    BY ReportsAssumption, NodeNextInv, QuestionNext, ReadNext
  <1> QED
    BY <1>1, <1>2, TypesHold, PTL DEF Spec

\* A parameter that has been read and not changed since is the number the user
\* wants, of any size and sign (ZW_CC_Configuration::HandleReport,
\* Device.cpp:584-632); but one that the node reports rightly once only
\* (src/README.md:122-136) is the default as soon as it was read twice.
THEOREM ConfiguredValuesAreRead == Spec => []ConfiguredIsRead
  <1>1. ReadInv => ConfiguredIsRead
    BY DEF ReadInv
  <1> QED
    BY <1>1, TablesPass, PTL

\* A group that has been read and not changed since has the members the user
\* wants, plain and with endpoints, as long as no node is bound twice
\* (Device.cpp:740-779 and 921-989).
THEOREM BoundGroupsAreRead == Spec => []BoundIsRead
  <1>1. ReadInv => BoundIsRead
    BY DEF ReadInv
  <1> QED
    BY <1>1, TablesPass, PTL
=============================================================================
